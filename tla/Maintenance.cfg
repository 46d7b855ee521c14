CONSTANTS
    Faults = {"file", "bird", "reply", "refused", "crash", "torn"}
    MaxRequests = 4
SPECIFICATION ModeLiveSpec
INVARIANTS
    ReportedIsActive
PROPERTIES
    ModesAgree
CHECK_DEADLOCK FALSE
