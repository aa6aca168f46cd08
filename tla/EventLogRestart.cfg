CONSTANTS
    a = a
    b = b
    Nodes <- MCNodes
    Electable <- MCOnlyA
    BatchSize = 1
    MaxGen = 2
    MaxInc = 2
    MaxEvents = 2
    MaxLosses = 0
SPECIFICATION Spec
INVARIANTS
    TypeOK
    ReleasedWasLogged
    SenderOrder
    NothingForgotten
CHECK_DEADLOCK FALSE
