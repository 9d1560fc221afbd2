SPECIFICATION FairSpec
CONSTANTS
    InitHeight = 1
    MaxHeight = 3
    MaxReorgs = 1
    ConfigUpdates <- MCNoUpdates
    QueueCap = 2
    LogWindow = 2
    ChannelTimeout = 1
    MaxFailures = 1
CHECK_DEADLOCK FALSE
INVARIANTS
    Contiguous
    UnlinkedOnlyIfFinalized
PROPERTIES
    CatchesUp
