CONSTANTS
    a = a
    b = b
    Nodes <- MCNodes
    Electable <- MCNodes
    BatchSize = 1
    MaxGen = 2
    MaxInc = 1
    MaxEvents = 2
    MaxLosses = 1
SPECIFICATION RetrySpec
INVARIANTS
    ConflictNeedsTwoMasters
PROPERTIES
    ImplementsOrderedLog
    OutIsLogged
CHECK_DEADLOCK FALSE
