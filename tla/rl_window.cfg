SPECIFICATION Spec
CONSTANTS
    s1 = s1
    s2 = s2
    Slot = {s1, s2}
    Second = 2
    Window = 4
    Limit = 2
    MaxLag = 4
    LastTime = 9
    MaxEvals = 5
SYMMETRY Interchangeable
CHECK_DEADLOCK FALSE
INVARIANTS
    TypeOK
    BucketBound
    SlidingExcess
    CountersLiveOn
    SecondRetrySuffices
