SPECIFICATION Spec
CONSTANTS
    User = {u1, u2}
    Token = {k1, k2}
    Worker = {w1, w2}
    TTL = 1
    MaxNow = 3
    Nil = Nil
SYMMETRY Symmetric
INVARIANTS
    TokenOutlivesWindow
    InactiveOnlyAfterDeadline
    OnePendingVerification
CHECK_DEADLOCK FALSE
