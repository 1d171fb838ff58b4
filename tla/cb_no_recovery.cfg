SPECIFICATION DemandSpec
CONSTANTS
    g = g
    fb = fb
    r1 = r1
    r2 = r2
    Primary = {g}
    Fallback = fb
    Flow = {r1, r2}
    Threshold = 2
    MaxFails = 4
    MaxMishaps = 0
    MayForce = FALSE
PROPERTIES
    Recovers
