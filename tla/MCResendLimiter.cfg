SPECIFICATION Spec
CONSTANTS
    Key = {k1, k2}
    MaxPerWindow = 2
    Window = 2
    MaxNow = 4
    MaxRestarts = 1
SYMMETRY Symmetric
INVARIANTS
    TypeOK
    AtMostMaxPerWindow
    RefusedOnlyWhenFull
CHECK_DEADLOCK FALSE
