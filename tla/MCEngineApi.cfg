SPECIFICATION Spec
CONSTANTS
    a = a
    b = b
    Contents = {a, b}
    Gossiped = {a}
    Retries = 1
    MaxL2 = 2
    MaxReorgs = 1
    MaxFaults = 1
    CanLinger = TRUE
CHECK_DEADLOCK FALSE
INVARIANTS
    BuiltAsAsked
    SafeUnlessOvertaken
PROPERTIES
    
    EveryCallEnds
