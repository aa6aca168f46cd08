CONSTANTS
    a = a
    b = b
    Nodes <- MCNodes
    Electable <- MCOnlyA
    BatchSize = 1
    MaxGen = 2
    MaxInc = 1
    MaxEvents = 2
    MaxLosses = 0
SPECIFICATION NackSpec
PROPERTIES
    NackRepairs
CHECK_DEADLOCK FALSE
