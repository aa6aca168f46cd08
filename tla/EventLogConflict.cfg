CONSTANTS
    a = a
    b = b
    Nodes <- MCNodes
    Electable <- MCOnlyA
    BatchSize = 2
    MaxGen = 3
    MaxInc = 2
    MaxEvents = 4
    MaxLosses = 0
SPECIFICATION Spec
INVARIANTS
    NoConflictingIndices
CHECK_DEADLOCK FALSE
