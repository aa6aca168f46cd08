SPECIFICATION MCSpec
CONSTANTS
  Files = {"f", "g"}
  Length = 2
  Attempts = 2
  Strays = FALSE
  MaxTasks = 2
  MaxTroubles = 2
INVARIANTS
  TypesOK InStateMachine NoBadLookup CompleteIsAnswered
  FailureHasCause 
  
PROPERTIES FinalWrites
CHECK_DEADLOCK FALSE
