SPECIFICATION FairSpec
CONSTANTS
    u1 = u1
    u2 = u2
    t1 = t1
    t2 = t2
    User = {u1}
    Staff = {}
    Tenant = {t1}
    Member <- MemberU1
    Platform = Platform
    Password = {p1}
    Token = {k1, k2}
    Reset = {r1}
    Worker = {w1, w2}
    Nil = Nil
INVARIANTS
    HandlersReadRight
    Lineage
PROPERTY
    RequestsFinish
