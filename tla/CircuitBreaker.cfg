CONSTANTS
    Callers = {a, b, c, d}
    FailureThreshold = 2
    SuccessThreshold = 4
    HalfOpenMaxRequests = 2
SPECIFICATION BreakerLiveSpec
INVARIANTS
    NeverStuckHalfOpen
    ProbesBounded
PROPERTIES
    Recovers
