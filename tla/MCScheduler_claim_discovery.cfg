SPECIFICATION FairSpec
CONSTANTS
    s1 = s1
    s2 = s2
    h1 = h1
    h2 = h2
    c1 = c1
    c2 = c2
    w1 = w1
    w2 = w2
    i1 = i1
    Nobody = Nobody
    Orphan = Orphan
    Schedules = {s1}
    Shards = {h1}
    Callers = {c1}
    Workers = {w1}
    Instances = {i1}
    InstanceOf <- OneInstance
    Pinned = {}
    Gaps = {2}
    FiveFields = {}
    Statuses <- Fired
    BatchLimit = 1
    MaxTime = 3
    Budget <- OneCall
PROPERTIES
    DueIsDiscovered
CHECK_DEADLOCK FALSE
