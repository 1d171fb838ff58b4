SPECIFICATION Spec
CONSTANTS
    N = 3
    MaxCost = 1
    MaxLatency = 1
    MaxErrors = 1
CHECK_DEADLOCK FALSE
INVARIANTS
    FrontKeepsReliable
