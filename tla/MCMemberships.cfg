SPECIFICATION Spec
CONSTANTS
    User = {u1, u2}
    Tenant = {t1, t2}
    Role = {r1}
    Invite = {i1, i2, i3}
    Invitable = {"admin"}
    Worker = {w1, w2}
    Nil = Nil
SYMMETRY Symmetric
INVARIANTS
    CustomRoleOfTenant
    TenantHasOwner
    MembersWereInvited
    OnePendingInvite
PROPERTY
    RefusedOnlyByRival
CHECK_DEADLOCK FALSE
