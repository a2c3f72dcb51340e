SPECIFICATION Spec
CONSTANTS
    c1 = c1
    c2 = c2
    Worker = Worker
    Nobody = Nobody
    Controllers <- OneController
CHECK_DEADLOCK FALSE
PROPERTIES
    LoopEndsOnlyWhenStopped
