SPECIFICATION Spec
CONSTANTS
    o1 = o1
    t1 = t1
    j1 = j1
    j2 = j2
    j3 = j3
    r1 = r1
    r2 = r2
    v1 = v1
    v2 = v2
    NoKey = NoKey
    Platform = Platform
    Orgs = {o1}
    Tenants = {t1}
    Keys = {j1, j2, j3}
    Rotators = {r1, r2}
    Verifiers = {v1, v2}
    OrgOf <- OneOrg
    TenantOf <- OneTenant
    Uses = {"jwt", "es512"}
    Expiries = {0, 3}
    Graces = {0, 2}
    MinGrace = 1
    MaxGrace = 720
    Period = 2
    TTL = 1
    Hold = 1
    MaxTime = 7
    Budgets <- Four
INVARIANTS
    TypeOK
    GraceOverrun
    SweptHasSuccessor
PROPERTIES
    JwtRevocationIsBounded
SYMMETRY Symmetry
CHECK_DEADLOCK FALSE
