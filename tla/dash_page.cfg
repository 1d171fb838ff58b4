SPECIFICATION Spec
CONSTANTS
    s1 = s1
    s2 = s2
    s3 = s3
    Session = {s1, s2, s3}
    Limit = 2
    TTL = 2
    MaxQuery = 1
    MaxSize = 3
SYMMETRY Interchangeable
INVARIANTS
    TypeOK
    Fresh
    OneErrorPerOutage
