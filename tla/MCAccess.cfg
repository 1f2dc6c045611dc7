SPECIFICATION Spec
CONSTANTS
    User = {u1, u2}
    Staff = {u1}
    Tenant = {t1, t2}
    Role = {r1}
    Registry = {"widgets.read", "roles.manage"}
    Invitable = {"member"}
    Grantable = {"roles.manage"}
    Worker = {w1, w2}
    MaxSigned = 3
    Nil = Nil
SYMMETRY Symmetric
INVARIANTS
    TokensAreEntitled
    PermissionsAreBacked
PROPERTY
    ManagedFromWithin
CHECK_DEADLOCK FALSE
