SPECIFICATION FairSpec
CONSTANTS
    p0 = p0
    p1 = p1
    p2 = p2
    cv1 = cv1
    cv2 = cv2
    v1 = v1
    Null = Null
    Unknown = Unknown
    Threads <- MCThreads
    Main = p0
    KeyLimit = 1
    Conds <- MCConds
    Values <- MCValues
    IdModulus = 4
    Programs <- MCPrograms
INVARIANTS
    SlotsAreOwn
    CondIdAgrees
    OnceSafe
PROPERTIES
    JoinReturnsOwn
    NotifyReaches
    OnceReturns
CHECK_DEADLOCK FALSE
