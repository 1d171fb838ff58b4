SPECIFICATION Spec
CONSTANTS
    g = g
    o = o
    fb = fb
    r1 = r1
    r2 = r2
    Primary = {g, o}
    Fallback = fb
    Flow = {r1, r2}
    Threshold = 2
    MaxFails = 4
    MaxMishaps = 1
    MayForce = TRUE
SYMMETRY Interchangeable
INVARIANTS
    TypeOK
    OpenIsEarned
    CounterWillExpire
    RoutingJustified
    BreachTrips
PROPERTIES
    StaysAbandoned
    ImplementsAtomic
