SPECIFICATION Spec
CONSTANTS
    t1 = t1
    t2 = t2
    t3 = t3
    unknown = unknown
    Webhooks = {w1, w2, w3, w4, w5}
    Creators = {c1, c2}
    Rotations = {r1}
    EventTypes = {t1, t2, t3}
    Requested <- Some
    Replacers = {p1, p2}
    MaxWebhooks = 2
    Budgets <- Two
INVARIANTS
    TypeOK
    OvershootIsBounded
    SubscribedAsAsked
SYMMETRY Symmetry
CHECK_DEADLOCK FALSE
