SPECIFICATION Spec
CONSTANTS
    c1 = c1
    c2 = c2
    Worker = Worker
    Nobody = Nobody
    Controllers <- TwoControllers
CHECK_DEADLOCK FALSE
INVARIANTS
    OneWorker
