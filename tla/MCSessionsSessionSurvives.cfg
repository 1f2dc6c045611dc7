SPECIFICATION Spec
CONSTANTS
    u1 = u1
    u2 = u2
    t1 = t1
    t2 = t2
    User = {u2}
    Staff = {u2}
    Tenant = {t1}
    Member <- MemberU2
    Platform = Platform
    Password = {p1, p2}
    Token = {k1, k2, k3}
    Reset = {r1}
    Worker = {w1, w2}
    Nil = Nil
SYMMETRY Symmetric
INVARIANT
    LiveSincePasswordChange
CHECK_DEADLOCK FALSE
