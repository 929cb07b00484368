SPECIFICATION Spec
CONSTANTS
    s1 = s1
    s2 = s2
    h1 = h1
    h2 = h2
    c1 = c1
    c2 = c2
    w1 = w1
    w2 = w2
    i1 = i1
    Nobody = Nobody
    Orphan = Orphan
    Schedules = {s1, s2}
    Shards = {h1, h2}
    Callers = {c1, c2}
    Workers = {w1}
    Instances = {i1}
    InstanceOf <- OneInstance
    Pinned = {h2}
    Gaps = {1}
    FiveFields = {s2}
    Statuses <- Fired
    BatchLimit = 1
    MaxTime = 2
    Budget <- TwoCallsAndFault
SYMMETRY Symmetry
INVARIANTS
    RoutingCovers
CHECK_DEADLOCK FALSE
