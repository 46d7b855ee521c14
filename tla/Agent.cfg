CONSTANTS
    Versions = {1, 2, 3, 4, 5, 6, 7}
    Installed = 1
    Dev = {6}
    Untagged = {1}
    Broken = {3}
    Dying = {4}
    NoAsset = {5}
    None = None
    Torn = Torn
    MaxReleases = 2
    Families = {v4}
    Addrs = {a, b}
    Home = a
    Unknown = Unknown
    MaxMoves = 1
    MaxLate = 1
    Files <- SomeFiles
    Served <- SomeServed
SPECIFICATION LiveSpec
INVARIANTS
    BinaryIsThere
    UpdatesGoForward
PROPERTIES
    
    ControlPlaneKnows
CHECK_DEADLOCK FALSE
