SPECIFICATION MCSpec
CONSTANTS
  Wrappers = {"w1", "w2"}
  MaxCommands = 2
  MaxTroubles = 1
 
PROPERTIES GroupForms AnswerArrives PlanReturns RoundsEnd  TakenOver
CHECK_DEADLOCK FALSE
