SPECIFICATION MCSpec
CONSTANTS
  Nodes = {"r", "v"}
  Requester = "r"
  Bond <- MCBond
  Home = "v"
  Locals = {"l"}
  Handlers = {"h"}
  Overlap = TRUE
  MaxTroubles = 0
  MaxCrashes = 0
INVARIANTS TypesOK PaidWithQuorum CompletedHasReceipt
PROPERTIES SignedSettles ReceiptCompletes RunningEnds
CHECK_DEADLOCK FALSE
