SPECIFICATION Spec
CONSTANTS
    InitHeight = 1
    MaxHeight = 3
    MaxReorgs = 1
    ConfigUpdates <- MCNoUpdates
    QueueCap = 2
    LogWindow = 2
    ChannelTimeout = 1
    MaxFailures = 0
INVARIANT FinalizedIsCanonical
