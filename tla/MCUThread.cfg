SPECIFICATION FairSpec
CONSTANTS
    c1 = c1
    c2 = c2
    Worker = Worker
    Nobody = Nobody
    Controllers <- OneController
CHECK_DEADLOCK FALSE
INVARIANTS
    NoUseAfterFree
    QuietAfterStop
    PauseQuiesces
PROPERTIES
    StopEnds
