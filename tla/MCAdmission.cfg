SPECIFICATION Spec
CONSTANTS
    k1 = k1
    k2 = k2
    m1 = m1
    None = None
    Keyboards <- MCKeyboards
    Maps <- MCMaps
    Draining = TRUE
INVARIANTS
    AdmissionInv
    HoldsAccounted
    
PROPERTIES
    ForgivenAfresh
    
