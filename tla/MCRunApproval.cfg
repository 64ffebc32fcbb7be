\* Two approvals compete for the pauses of a run; one is decided late or expires.
SPECIFICATION ScopedSpec
CONSTANTS
  p1 = p1  p2 = p2  a1 = a1  a2 = a2  d1 = d1  d2 = d2  f1 = f1  f2 = f2
  Scopes <- RivalsAndLate
  Runs = {1}
  Approvals = {p1, p2}
  Actions = {a1, a2}
  Hashes = {d1, d2}
  Paths = {}
  Batches <- NoBatches
  MaxTime = 2
  LeaseTTLs = {2}
  ApprovalTTLs = {1, 2}
  MaxSequence = 12
  AppendableEvents <- NoEvents
INVARIANTS
  OneEnding
  ClaimIsApproved
  OneConsumptionPerWindow
  ExecutionAuditedOnce
SYMMETRY ApprovalSymmetry
CHECK_DEADLOCK FALSE
