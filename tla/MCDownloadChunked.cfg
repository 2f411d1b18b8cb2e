SPECIFICATION Spec
CONSTANTS
    MaxSize = 3
    StreamTimeout = 3
    Window = 2
INVARIANT WholeMeansWhole
CHECK_DEADLOCK FALSE
