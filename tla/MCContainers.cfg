SPECIFICATION MCSpec
CONSTANTS
    Keys <- MCKeys
    Values <- MCValues
    MaxLength = 4
    BKeys <- MCBKeys
    MaxPerNode = 4
INVARIANTS
    TreeWellFormed
    TreeNavigates
    ListWellFormed
    ForeachComplete
    BTreeExact
PROPERTIES
    TreeImplementsSet
    ListCallsExact
CHECK_DEADLOCK FALSE
