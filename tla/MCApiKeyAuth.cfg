SPECIFICATION Spec
CONSTANTS
    o1 = o1
    t1 = t1
    t2 = t2
    u1 = u1
    u2 = u2
    k1 = k1
    k2 = k2
    k3 = k3
    a1 = a1
    a2 = a2
    q1 = q1
    q2 = q2
    NoKey = NoKey
    Platform = Platform
    Orgs = {o1}
    Tenants = {t1, t2}
    Users = {u1, u2}
    Keys = {k1, k2, k3}
    Admins = {a1, a2}
    Defaults = {k1}
    Presented = {k1}
    Requests = {q1, q2}
    OrgOf <- OneOrg
    TenantOf <- OneTenant
    UserOf <- TwoUsers
    Expiries = {0, 2}
    SettingsChoices <- TwoPolicies
    TTL = 1
    Hold = 1
    MaxTime = 4
    Budgets <- Four
INVARIANTS
    TypeOK
    LimitUnlessRaced
    DeletionRecordedOnce
PROPERTIES
    RevocationIsBounded
SYMMETRY Symmetry
CHECK_DEADLOCK FALSE
