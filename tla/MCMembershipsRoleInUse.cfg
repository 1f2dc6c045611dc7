SPECIFICATION Spec
CONSTANTS
    User = {u1, u2}
    Tenant = {t1}
    Role = {r1}
    Invite = {i1}
    Invitable = {"member"}
    Worker = {w1, w2}
    Nil = Nil
SYMMETRY Symmetric
PROPERTIES
    DeletesUnreferenced
CHECK_DEADLOCK FALSE
