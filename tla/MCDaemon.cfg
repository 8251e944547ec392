SPECIFICATION Spec
CONSTANTS
    Modes = {"macos", "installed"}
    Conns = {"c1", "c2"}
    MaxConnections = 1
    None = None
    KeyNames = {"KeyA", "LeftShift"}
    ModifierKeys = {"LeftShift"}
    Blank = {" "}
    Documents <- MCDocuments
    TapFeatures = FALSE
    MaxSaves = 1
INVARIANT DaemonInv
PROPERTIES
    NeverOlder
    CatchesUp
    TapRecovers
    Terminates
CHECK_DEADLOCK FALSE
