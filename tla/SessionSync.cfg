CONSTANTS
    Sessions = {s1, s2}
    Tunnelled = {s1}
    WithPort = {s1, s2}
    None = None
    Asn <- OwnAsn
    Faults = {"empty", "create", "destroy", "file", "bird", "fw", "lost", "late", "restart", "reboot"}
    MaxKinds = 1
    MaxEdits = 2
SPECIFICATION LiveSpec
INVARIANTS
    BirdHasTunnel
    ReportsAreTrue
PROPERTIES
    QueueIsServed
    PortsConverge
    EventuallySettled
CHECK_DEADLOCK FALSE
