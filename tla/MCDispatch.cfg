SPECIFICATION Spec
CONSTANTS
    s1 = s1
    e1 = e1
    Nobody = Nobody
    StreamNames = {s1, s2}
    EndpointIds = {e1}
    Registrants = {r1, r2}
    Workers = {w1, w2}
    Permits = {t1, t2}
    Reclaimers = {rc}
    BatchSize = 4
    Threshold = 2
    Window = 2
    Cooldown = 1
    Minute = 2
    SlotTtl = 3
    MaxTime = 4
    Limits = {0, 1, 2}
    RetryAfters = {0, 1}
    Scenarios <- Nine
INVARIANTS
    NoStrandedStream
    NoOvertaking
    RateHeld
    TripIsEarned
    LeakIsBounded
SYMMETRY Symmetry
CHECK_DEADLOCK FALSE
