CONSTANTS
    Clients = {c1, c2}
    Conns = {k1, k2, k3, k4}
    PoolSize = 1
    MaxSize = 1
    NoConn = NoConn
    Main = Main
SPECIFICATION LiveSpec
INVARIANTS
    TypeOK
    ExclusiveOwner
    NoUseAfterClose
    NoSocketLeak
    NoSendOnClosed
    NeverAllParked
    ClosedLeavesNothing
PROPERTIES
    ExecuteReturns
    ImplementsOwnership
CHECK_DEADLOCK FALSE
