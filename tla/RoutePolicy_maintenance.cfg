CONSTANTS
    Nodes = {1, 2}
    ASPathMaxLen = 2
    Adverts <- FewAdverts
    NoRoute = NoRoute
    Internal = FALSE
    MaxChanges = 1
SPECIFICATION PolicyLiveSpec
PROPERTIES
    MaintenanceDrains
CHECK_DEADLOCK FALSE
