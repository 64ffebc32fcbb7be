SPECIFICATION Spec
CONSTANTS
  Txs = {t1, t2}
  Approvals = {p1, p2}
  MaxClock = 2
  MaxBegun = 3
  MaxFaults = 1
  Ttl = 1
  AnyTarget = FALSE
INVARIANTS
  ChainVerifies
  OnlyDecisionsDeadlock
  IntentBlocksSuccess
  RestartSparesWorkers
CHECK_DEADLOCK FALSE
SYMMETRY Symmetry
