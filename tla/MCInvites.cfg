SPECIFICATION Spec
CONSTANTS
    Invites = {i1, i2, i3}
    Emails = {e1, e2}
    Calls = {c1, c2, c3}
    NoInvite = NoInvite
    MaxCalls = 5
INVARIANTS
    TypeOK
    MembersAccepted
    JoinsOnce
    RevocationStands
SYMMETRY Symmetry
CHECK_DEADLOCK FALSE
