SPECIFICATION FairSpec
CONSTANTS
    a = a
    Txs = {a}
    InitL1 <- MCTwoBlocks
    MaxL1 = 2
    MaxL2 = 2
    MaxReorgs = 1
    MaxFaults = 1
    QueueCap = 1
    ChannelTimeout = 1
    UnsafeWindow = 2
    MaxFuture = 1
    HeadQueryFails = FALSE
INVARIANTS
    HeadsOnOneChain
    

    
    
