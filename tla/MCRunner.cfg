SPECIFICATION Spec
CONSTANTS
    InitRemote <- MCRemote
    InitLocals <- MCLocals
    MaxNumber = 4
    MaxReorgs = 1
CHECK_DEADLOCK FALSE
INVARIANTS
    CheckpointIsBoundary
    DriverHasCheckpoint
PROPERTIES
    InterruptEnds
    ComesToDriver
