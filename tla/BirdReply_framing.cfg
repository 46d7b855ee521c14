CONSTANTS
    Clients = {c1, c2}
    Conns = {k1, k2}
    Replies <- Indented
    MaxCalls = 3
SPECIFICATION RestartSpec
SYMMETRY Symmetry
INVARIANTS
    OwnReply
    AlarmIsReal
    
CHECK_DEADLOCK FALSE
