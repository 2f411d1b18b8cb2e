SPECIFICATION FairSpec
CONSTANTS
    Conn = {c1}
    Requests <- MCRequests
    Environments <- MCEnvironments
    DefaultLifetime = 4
    DrainTimeout = 1
    Unset = Unset
    None = None
    c1 = c1
INVARIANTS TypeOK DenyByDefault StartsAsConfigured CleanExit
PROPERTY Terminates
CHECK_DEADLOCK FALSE
