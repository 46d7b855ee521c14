CONSTANTS
    MaxVersion = 3
    Reverts = FALSE
    MaxRetries = 3
    Torn = Torn
    Faults = {"http", "empty", "render", "bird", "restart"}
    MaxChanges = 2
SPECIFICATION LiveSpec
INVARIANTS
    TypeOK
    SkipIsSafe
    ReloadsWholeVersion
PROPERTIES
    EventuallyConverged
CHECK_DEADLOCK FALSE
