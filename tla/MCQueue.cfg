SPECIFICATION Spec
CONSTANTS
    Size = 3
    Values = {a, b}
    MaxBatch = 2
INVARIANTS
    TypeOK
    NoSlotRace
PROPERTIES
    ImplementsFifo
