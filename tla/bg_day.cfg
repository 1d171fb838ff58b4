SPECIFICATION FairSpec
CONSTANTS
    r1 = r1
    r2 = r2
    Req = {r1, r2}
    Cost = {1}
    Limit = 2
    MaxRetries = 1
    LastDay = 1
    MaxFaults = 2
    MayLose = TRUE
    MayEvict = TRUE
CHECK_DEADLOCK FALSE
INVARIANTS
    TypeOK
    CarriedByCaughtTask
    FlagMeansSpent
    SpentIsSpent
    CounterWillLapse
    ChargedPerAttempt
PROPERTIES
    ChargeEnds
