SPECIFICATION Spec
CONSTANTS
  Txs = {t1}
  Approvals = {p1}
  MaxClock = 1
  MaxBegun = 2
  MaxFaults = 0
  Ttl = 1
  AnyTarget = TRUE
PROPERTIES
  MovesAreLegal
CHECK_DEADLOCK FALSE
