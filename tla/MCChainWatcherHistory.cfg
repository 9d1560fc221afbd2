SPECIFICATION Spec
CONSTANTS
    InitHeight = 5
    MaxHeight = 5
    MaxReorgs = 0
    ConfigUpdates <- MCSingleUpdates
    QueueCap = 2
    LogWindow = 2
    ChannelTimeout = 1
    MaxFailures = 2
INVARIANTS
    DepositsOfBlock
    
