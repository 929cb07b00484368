SPECIFICATION FairSpec
CONSTANTS
    j1 = j1
    j2 = j2
    c1 = c1
    o1 = o1
    t1 = t1
    t2 = t2
    NoJob = NoJob
    Jobs = {j1}
    Callers = {c1}
    Outboxes = {o1}
    Tasks = {t1}
    MaxAttempts = 2
    StartId = "$"
    Sources = {"api"}
    MaxEntries = 9
    Budget <- Mixed
PROPERTIES
    EventuallyDecided
CHECK_DEADLOCK FALSE
