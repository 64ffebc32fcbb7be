\* Two queued runs, and one run with its worker, its output and artifacts.
SPECIFICATION ScopedSpec
CONSTANTS
  p1 = p1  p2 = p2  a1 = a1  a2 = a2  d1 = d1  d2 = d2  f1 = f1  f2 = f2
  Scopes <- QueueAndWork
  Runs = {1, 2}
  Approvals = {}
  Actions = {}
  Hashes = {}
  Paths = {f1, f2}
  Batches <- OverlappingBatches
  MaxTime = 3
  LeaseTTLs = {1}
  ApprovalTTLs = {1}
  MaxSequence = 6
  AppendableEvents <- OutputEvents
INVARIANTS
  TypeOK
  AuditMonotone
  ArtifactsMatchAudit
  CancelBlocksSuccess
PROPERTY
  LeaseLifecycle
CHECK_DEADLOCK FALSE
