SPECIFICATION FairSpec
CONSTANTS
    MaxUploadSize = 2
    MaxSize = 3
    StreamTimeout = 2
INVARIANTS TypeOK OnRecord
PROPERTIES ImplementsTransfer Answered
CHECK_DEADLOCK FALSE
