SPECIFICATION FairSpec
CONSTANTS
    L1Time = 2
    SeqWindow = 1
    MaxSeqDrift = 3
    ChannelTimeout = 2
    U64 = 1000
    L2Genesis = 10
    DeltaTime = 0
    Kinds <- MCHostile
    Timely = FALSE
    MaxTxs = 1
    MaxL1 = 4
    MaxL2 = 5
    MaxReorgs = 0
INVARIANTS
    EpochsAdvance
    

    
