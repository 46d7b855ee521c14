CONSTANTS
    Nodes = {n0,n1,n2}
    Self = n0
    MaxVersion = 2
    Workers = {ticker, api}
    Ticker = ticker
    NonEmpty = TRUE
    Faults = {"file", "bird", "overlay", "restart"}
    MaxChanges = 1
SPECIFICATION LiveSpec
INVARIANTS
    QuietIsLoaded
PROPERTIES
    PeersAreRun
CHECK_DEADLOCK FALSE
