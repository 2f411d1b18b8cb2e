SPECIFICATION FairSpec
CONSTANTS
    MaxSize = 3
    StreamTimeout = 3
    Window = 2
INVARIANTS TypeOK OnRecord DeclaredMeansWhole
PROPERTY Ended
CHECK_DEADLOCK FALSE
