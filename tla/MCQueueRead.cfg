SPECIFICATION Spec
CONSTANTS
    Size = 3
    Values = {a}
    MaxBatch = 2
INVARIANTS
    ReadWithinRequest
