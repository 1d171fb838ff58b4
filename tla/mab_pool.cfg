SPECIFICATION Spec
CONSTANTS
    t1 = t1
    t2 = t2
    t3 = t3
    Task = {t1, t2, t3}
    Metrics <- OneMetric
    Pool = 2
    MaxRetries = 1
    MaxFaults = 2
    MayEvict = TRUE
SYMMETRY Interchangeable
CHECK_DEADLOCK FALSE
INVARIANTS
    TypeOK
    LostOnlyToOverlap
    CountedPerAttempt
    LoneUpdateRepairs
