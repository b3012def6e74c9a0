SPECIFICATION Spec
CONSTANTS
    AccountIds = {a1}
    Emails = {e1, e2}
    Invites = {x1, x2}
    Requests = {r1, r2}
    None = None
    Tabs = {r1, r2}
    Jtis = {j1, j2, j3}
    Grace = 1
    Life = 2
    NoToken = NoToken
    Holders = {e1, e2}
    AttIds = {n1, n2}
    AttRequests = {r1, r2}
    LastYear = 2
    Talks = {t1, t2}
    Cards = {c1}
    ConsentCards = {c1}
    Nobody = Nobody
SYMMETRY Interchangeable
INVARIANTS
    AccessTypeOK
    MemberRemains
    InvitationUsedOnce
    HeldSessionsAlive
    NumberFreeUntilPurge
    ConsentsCountOnce
PROPERTIES
    RefusalHasCause
    GraceGivesUsable
    StatusOnlyWorsens
CHECK_DEADLOCK FALSE
