SPECIFICATION DesktopSpec
CONSTANTS
    Providers = {"sway", "hyprland", "x11", "gnome", "kwin", "input_method"}
    Ids = {"0"}
    Layouts = {"us", "de"}
    Inventories <- MCInventories
    None = None
    FocusTTL = 0
    Capacity = 1
    MaxRestarts = 1
INVARIANTS
    
    CachesFresh
PROPERTIES
    RecheckedNeverReinterprets
    ShutsDown
