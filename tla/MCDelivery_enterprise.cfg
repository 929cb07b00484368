SPECIFICATION Spec
CONSTANTS
    j1 = j1
    j2 = j2
    c1 = c1
    o1 = o1
    t1 = t1
    t2 = t2
    NoJob = NoJob
    Jobs = {j1}
    Callers = {c1}
    Outboxes = {o1}
    Tasks = {t1, t2}
    MaxAttempts = 2
    StartId = "0-0"
    Sources = {"fire"}
    MaxEntries = 3
    Budget <- Trims
SYMMETRY Symmetry
INVARIANTS
    NeverTrimsUnread
CHECK_DEADLOCK FALSE
