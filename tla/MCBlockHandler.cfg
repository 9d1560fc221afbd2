SPECIFICATION FairSpec
CONSTANTS
    s = s
    t = t
    Signers = {s, t}
    StaticSigner = s
    Data <- MCData
    FutureLimit = 1
    AgeLimit = 2
    DuplicateCacheTime = 3
    MaxTime = 5
    MaxL1 = 3
    MaxReorgs = 1
CHECK_DEADLOCK FALSE
INVARIANTS
    
    TwiceOnlyAtTheEdges

    
