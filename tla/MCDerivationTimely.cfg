SPECIFICATION FairSpec
CONSTANTS
    L1Time = 2
    SeqWindow = 2
    MaxSeqDrift = 3
    ChannelTimeout = 2
    U64 = 1000
    L2Genesis = 10
    DeltaTime = 0
    Kinds <- MCHonest
    Timely = TRUE
    MaxTxs = 1
    MaxL1 = 3
    MaxL2 = 5
    MaxReorgs = 1
INVARIANTS
    SequencerNotOverruled
    EpochsCanonical
    
    RefsOfSafeChain

    
