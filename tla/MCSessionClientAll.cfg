SPECIFICATION ClientSpec
CONSTANTS
    AbsoluteTTL = 5
    IdleTTL = 3
    RefreshInterval = 2
    Second = 2
    Conn = {c1, c2}
    CanLose = TRUE
    MaxTime = 5
    MaxLogins = 1
    MaxKeys = 1
    Tab = {t1, t2}
    MaxCalls = 4
    Latency = 1
    None = None
    Clear = Clear
    c1 = c1
    c2 = c2
    t1 = t1
    t2 = t2
SYMMETRY Symmetry
INVARIANTS ClientTypeOK WarnsInTime NoFalseLogout IdleNotEarly NoEarlyDrop
CHECK_DEADLOCK FALSE
