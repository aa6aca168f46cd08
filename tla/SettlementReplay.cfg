SPECIFICATION Spec
CONSTANTS
  Nodes = {"r", "v"}
  Requester = "r"
  Bond <- MCBond
  Home = "v"
  Locals = {"l"}
  Handlers = {"h"}
  Overlap = FALSE
  MaxTroubles = 1
  MaxCrashes = 0
INVARIANTS CreditedOnce
CHECK_DEADLOCK FALSE
