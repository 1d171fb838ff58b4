SPECIFICATION Spec
CONSTANTS
    r1 = r1
    r2 = r2
    p1 = p1
    p2 = p2
    Req = {r1, r2}
    Prompt = {p1, p2}
    m1 = m1
    m2 = m2
    Multiplier = {m1, m2}
    Standard = m1
    MaxRetries = 1
    MaxFaults = 1
SYMMETRY Interchangeable
CHECK_DEADLOCK FALSE
INVARIANTS
    TypeOK
    CacheIsFaithful
    ChargedLast
    FairPrice
