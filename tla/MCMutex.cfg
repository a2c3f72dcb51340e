SPECIFICATION FairMutexSpec
CONSTANTS
    t1 = t1
    t2 = t2
    c1 = c1
    Free = Free
    Blockers <- MCBlockers
    Spinners <- MCSpinners
    MaxLevel = 2
INVARIANTS
    MutexTypeOK
    MutualExclusion
    NoCountRace
    CountExact
PROPERTIES
    ImplementsRecursiveLock
    FreedLockIsTaken
