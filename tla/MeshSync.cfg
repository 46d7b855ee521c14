CONSTANTS
    Nodes = {n0, n1, n2}
    Self = n0
    Keys = {k1, k2}
    Faults = {"create", "delete", "empty", "lost", "restart"}
    MaxKinds = 2
    MaxChanges = 1
SPECIFICATION LiveSpec
INVARIANTS
    TunnelsAreKnown
PROPERTIES
    MeshConverges
    ReportsConverge
CHECK_DEADLOCK FALSE
