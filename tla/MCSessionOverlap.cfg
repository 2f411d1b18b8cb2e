SPECIFICATION Spec
CONSTANTS
    AbsoluteTTL = 3
    IdleTTL = 2
    RefreshInterval = 1
    Second = 2
    Conn = {c1, c2}
    CanLose = TRUE
    MaxTime = 4
    MaxLogins = 2
    MaxKeys = 2
    None = None
    Clear = Clear
    c1 = c1
    c2 = c2
SYMMETRY ConnSymmetry
INVARIANTS TypeOK Provenance LogoutSticks
PROPERTY ImplementsLease
