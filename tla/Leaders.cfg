SPECIFICATION MCSpec
CONSTANTS
  Replicas = {"a", "b", "c"}
  LeaseTime = 2
  Timely = TRUE
  MaxChanges = 0
  MaxCrashes = 2
  Supply = 3
  Elsewhere = 1
  MinBond = 2
  SlashBps = 1000
  Threads = {t1, t2}
  Overlap = TRUE
  MaxNoted = 1
  MaxTroubles = 1
INVARIANTS OneSigner QuietAgreement CoinsConserved BondBooksAgree
CHECK_DEADLOCK FALSE
