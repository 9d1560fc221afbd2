SPECIFICATION Spec
CONSTANTS
    TxLists <- MCTxLists
    GenesisTime = 5
    SlotTime = 12
    MaxBlocks = 2
    MaxReorgs = 1
    MaxFailures = 2
CHECK_DEADLOCK FALSE
INVARIANTS
    DataOfBlock
PROPERTIES
    AllDelivered
