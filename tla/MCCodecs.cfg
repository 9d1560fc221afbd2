SPECIFICATION Spec
CONSTANTS
    ROUNDS = 2
    ByteBits = 2
    ChainId = 10
    EcotoneTime = 4
    RegolithTime = 2
    CanyonTime = 3
    L1Info <- MCL1Info
    BlobData <- MCBlobData
    BadBytes <- MCBadBytes
    BadOffsets <- MCBadOffsets
    SpanBlocks <- MCSpanBlocks
    BlockInputs <- MCBlockInputs
    Genesis = 1000
    BlockTime = 2
CHECK_DEADLOCK FALSE
INVARIANTS
    OnlyEncodingsDecoded
    SpanRoundTrip
    ResumesUntilEcotone
    DepositsOnce
