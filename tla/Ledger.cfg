SPECIFICATION MCSpec
CONSTANTS
  Nodes = {"v", "w"}
  Procs <- MCProcs
  Authorized = {"v"}
  Addresses = {"x", "y"}
  Bundles = {"pay", "back"}
  Genesis = "genesis"
  Stale = "stale"
  Delta <- MCDelta
  Nonce <- MCNonce
  MaxBlocks = 2
  MaxWrites = 2
  MaxCrashes = 0
INVARIANTS
  CommonHistory HistorySolvent IndexCurrent SpentOnce ValidatorDecides
  AppliedOnce
 
CHECK_DEADLOCK FALSE
