SPECIFICATION Spec
CONSTANTS
    Gens <- MCGens
    Keys <- MCKeys
    Modifiers <- MCModifiers
    None = None
    MaxNonces = 1
    MaxRetired = 1
    MaxQueued = 0
INVARIANTS
    SessionInv
    OwnershipAgrees
    TapUnbroken
 
