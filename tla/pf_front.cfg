SPECIFICATION Spec
CONSTANTS
    N = 4
    MaxCost = 2
    MaxLatency = 2
    MaxErrors = 1
CHECK_DEADLOCK FALSE
INVARIANTS
    TypeOK
    FrontIsExact
    PrefixSettled
