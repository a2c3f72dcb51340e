SPECIFICATION FairSpec
CONSTANTS
    p1 = p1
    p2 = p2
    p3 = p3
    NoActiveWriter = NoActiveWriter
    Procs <- MCProcs
    MaxDepth = 2
    AllowUpgrade = FALSE
INVARIANTS
    WaitersHoldNothing
PROPERTIES
    EveryRequestEnds
