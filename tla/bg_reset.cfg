SPECIFICATION Spec
CONSTANTS
    r1 = r1
    r2 = r2
    Req = {r1, r2}
    Cost = {1}
    Limit = 2
    MaxRetries = 1
    LastDay = 1
    MaxFaults = 0
    MayLose = FALSE
    MayEvict = FALSE
SYMMETRY Interchangeable
CHECK_DEADLOCK FALSE
INVARIANTS
    ResetsAtMidnight
