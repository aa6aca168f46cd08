SPECIFICATION Spec
CONSTANTS
  Nodes = {a}
  Leader = a
  Gens = {"g"}
  MaxRetries = 2
  MaxTroubles = 1
  MaxCancels = 1
  a = a
  b = b
INVARIANTS WorkerSurvives
CHECK_DEADLOCK FALSE
