SPECIFICATION FairSpec
CONSTANTS
    A = A
    B = B
    BadFrame = BadFrame
    ChannelIds <- MCChannelIds
    RawFrames <- MCRawFrames
    BlockTxs <- MCBlockTxs
    MaxChannelSize = 6
    ChannelTimeout = 2
    U16 = 3
    MaxL1Block = 4
    MaxPurges = 1
INVARIANTS
    EmittedWhole
    BankInv
    EmittedInTime
    CompleteChannelsDelivered
    L1Order

    
