SPECIFICATION FairSpec
CONSTANTS
    r1 = r1
    r2 = r2
    i1 = i1
    i2 = i2
    Req = {r1, r2}
    Ids <- Headers
    Schemas <- Deployments
    MaxRetries <- Retries
    MaxFaults = 1
    MaxMessages = 2
CHECK_DEADLOCK FALSE
INVARIANTS
    TypeOK
    SameScore
    OncePerAttempt
    GivenUpForAReason
PROPERTIES
    ScoreIsKept
    TasksEnd
