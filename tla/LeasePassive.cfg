SPECIFICATION Spec
CONSTANTS
  Replicas = {a, b, c}
  LeaseTime = 3
  Timely = TRUE
  MaxChanges = 2
  MaxCrashes = 0
INVARIANTS PassiveStaysSilent
CHECK_DEADLOCK FALSE
