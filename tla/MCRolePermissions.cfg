SPECIFICATION Spec
CONSTANTS
    Role = {r1, r2}
    Registry = {a, b}
    Unknown = unknown
    MaxKeys = 2
    Worker = {w1, w2}
    Nil = Nil
SYMMETRY Symmetric
INVARIANTS
    TypeOK
PROPERTIES
    GrantsAsAsked
    ReplacesExactly
CHECK_DEADLOCK FALSE
