CONSTANTS
    Ports = {p, q}
    NoPort = NoPort
    MaxChanges = 4
    MaxFaults = 2
SPECIFICATION Spec
INVARIANTS
    FamiliesAgree
PROPERTIES
    RulesConverge
