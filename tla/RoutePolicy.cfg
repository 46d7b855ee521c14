CONSTANTS
    Nodes = {1, 2}
    ASPathMaxLen = 2
    Adverts <- SomeAdverts
    NoRoute = NoRoute
    Internal = FALSE
    MaxChanges = 2
SPECIFICATION PolicyLiveSpec
INVARIANTS
    ExportsAreSound
    ForeignUntouched
PROPERTIES
    ExitsConverge
CHECK_DEADLOCK FALSE
