SPECIFICATION Spec
CONSTANTS
    d1 = d1
    d2 = d2
    shift = shift
    a = a
    c1 = c1
    c2 = c2
    None = None
    Keyboards <- MCKeyboards
    Keys <- MCKeys
    Targets <- MCTargets
    Modifiers <- MCModifiers
    Clients <- MCClients
    DeviceCount = 2
SYMMETRY MCSymmetry
VIEW MCView
INVARIANTS
    
    
    
    OutcomeTruthful
PROPERTIES
    ReopensAfterLock
    QuarantineHolds
