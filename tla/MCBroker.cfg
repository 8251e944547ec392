SPECIFICATION Spec
CONSTANTS
    Ports <- MCPorts
    Codes <- MCCodes
    None = None
    MaxMoves = 2
    MaxReplugs = 2
    MaxClients = 2

    
    
PROPERTY Frees
