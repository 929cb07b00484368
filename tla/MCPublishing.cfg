SPECIFICATION Spec
CONSTANTS
    a1 = a1
    y1 = y1
    y2 = y2
    e1 = e1
    e2 = e2
    s1 = s1
    s2 = s2
    s3 = s3
    n1 = n1
    n2 = n2
    v1 = v1
    fam = fam
    Nobody = Nobody
    Dead = Dead
    NoKey = NoKey
    Apps = {a1, a2}
    Types = {y1, y2}
    EndpointIds = {e1, e2}
    Subs = {s1, s2, s3}
    Subscribers = {u1, u2}
    Publishers = {p1, p2}
    Events = {w1, w2, w3}
    IdemKeys = {k1}
    AppOf <- OneApp
    FamilyOf <- OneFamily
    VersionOf <- TwoVersions
    Started <- Both
    Secrets = {n1, n2, n3, n4, n5}
    Configs = {v1, v2}
    Editors = {c1, c2}
    Rotators = {r1, r2}
    Graces = {0, 2}
    Budgets <- Eight
INVARIANTS
    TypeOK
    KeyUsedOnce
    FanOutIsExact
    NoLostUpdate
    ConflictChangedNothing
    AlwaysSigns
    SignsWithShown
SYMMETRY Symmetry
CHECK_DEADLOCK FALSE
