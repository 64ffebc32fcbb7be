------------------------------ MODULE PgStore ------------------------------
(***************************************************************************)
(* The PostgreSQL store of crates/openwork-execution/src/store/postgres.rs *)
(* for one run, statement by statement: every operation is a transaction   *)
(* under READ COMMITTED that locks rows, validates, reads the end of the   *)
(* audit chain, inserts its events and commits.  Two transactions          *)
(* interleave between any two statements; what one has not committed the   *)
(* other does not see.                                                     *)
(*                                                                         *)
(* The row of the run is locked FOR UPDATE.  An insert into audit_events   *)
(* first enters its number in the unique index of the table, where it      *)
(* waits for a transaction that has entered the same number, and then      *)
(* takes a FOR KEY SHARE lock on the run for its foreign key, where it     *)
(* waits for a FOR UPDATE of another transaction.  The lease row is only   *)
(* locked and written under the lock of its run and has no lock of its own *)
(* here.  Transactions buffer their writes: the effect of an operation is  *)
(* its commit.                                                             *)
(***************************************************************************)
EXTENDS Execution, Naturals, Sequences, FiniteSets, TLC

CONSTANTS
  Txs,          \* connections of the pool
  Approvals,    \* approvals of the run, one action each
  MaxClock,     \* bound on the clock the callers read
  MaxBegun,     \* bound on the number of transactions
  MaxFaults,    \* bound on the number of statements that fail
  Ttl,          \* how long leases and approvals last
  AnyTarget     \* whether workers ask for any status or only for legal ones

ASSUME PgAssumption ==
  /\ Ttl \in Nat \ {0}
  /\ \A S \in SUBSET Approvals : Cardinality(S) \in Nat   \* approvals can be counted

VARIABLES
  run,        \* the row of the run
  lease,      \* its row of run_leases, or NoLease
  held,       \* the RunLease of the worker, or NoLease
  approvals,  \* the rows of approval_requests
  claims,     \* the approvals with a row in action_claims
  executed,   \* the approvals with an action_executed event
  artifacts,  \* whether the batch of two artifacts is recorded
  chain,      \* the rows of audit_events, in the order of their commits
  tx,         \* what each connection is doing
  clock, begun, faults,
  ops         \* the operations this behaviour calls

vars == <<run, lease, held, approvals, claims, executed, artifacts, chain, tx, clock, begun, faults, ops>>

NoLease == [acquired_at |-> 0, expires_at |-> 0]
NotHeld == [revision |-> 0, status |-> "None"]

Idle == [op |-> "None", todo |-> <<>>, arg |-> "None", now |-> 0, revision |-> 0,
         run_lock |-> "None", approval_lock |-> FALSE, sequence |-> 0, previous |-> 0,
         inserted |-> FALSE]

(***************************************************************************)
(* The statements of each operation, in the order of the code.  The check  *)
(* of the foreign key is a statement of its own where the operation does   *)
(* not hold the lock of the run already: in a denial and an expiry.        *)
(***************************************************************************)
Leased == <<"LockRun", "Validate", "Time", "Sequence", "Hash", "Insert", "Commit">>

ConsumePlanReversed ==
  <<"LockRun", "LockApproval", "Validate", "Time", "Sequence", "Hash", "Insert", "Commit">>

ConsumePlan ==
  <<"LockApproval", "LockRun", "Validate", "Time", "Sequence", "Hash", "Insert", "Commit">>

ApprovePlan ==
  <<"LockApproval", "LockRun", "Validate", "Time", "Sequence", "Hash", "Insert", "Commit">>

DecidePlan ==
  <<"LockApproval", "Validate", "Time", "Sequence", "Hash", "Insert", "Reference", "Commit">>

Plan ==
  [ClaimNextRun          |-> <<"Pick", "Validate", "Sequence", "Hash", "Insert", "Commit">>,
   HeartbeatLease        |-> <<"LockRun", "Validate", "Commit">>,
   TransitionLeasedRun   |-> Leased,
   CompleteLeasedRun     |-> Leased,
   AppendLeased          |-> Leased,
   RecordLeasedArtifacts |-> <<"LockRun", "Validate", "Time", "Hash", "Sequence", "Insert", "Commit">>,
   RequestCancel         |-> Leased,
   ConfirmCancel         |-> Leased,
   RecoverExpiredLeases  |-> <<"SelectExpired", "LockRun", "Validate", "Time", "Ended", "Sequence", "Hash",
                               "Insert", "Commit">>,
   RecoverInterrupted    |-> <<"SelectInterrupted", "LockRun", "Validate", "Time", "Sequence", "Hash",
                               "Insert", "Commit">>,
   TransitionRun         |-> <<"LockRun", "Validate", "Hash", "Time", "Sequence", "Insert", "Commit">>,
   AppendAudit           |-> Leased,
   ReconcileAction       |-> Leased,
   RecordArtifacts       |-> <<"LockRun", "Validate", "Time", "Hash", "Sequence", "Insert", "Commit">>,
   CreateApproval        |-> Leased,
   Approve               |-> ApprovePlan,
   Deny                  |-> DecidePlan,
   ExpireApproval        |-> DecidePlan,
   ConsumeApproval       |-> ConsumePlan,
   ConsumeMismatch       |-> ConsumePlan]

LeasedOps ==
  {"HeartbeatLease", "TransitionLeasedRun", "CompleteLeasedRun", "AppendLeased",
   "RecordLeasedArtifacts", "ConfirmCancel"}

ApprovalOps == {"CreateApproval", "Approve", "Deny", "ExpireApproval", "ConsumeApproval",
                "ConsumeMismatch", "ReconcileAction"}

At(t, statement) == tx[t].todo # <<>> /\ Head(tx[t].todo) = statement

Others(t) == Txs \ {t}

(* What comes after the statement, and what rolls the transaction back. *)
Continue(t, change) == tx' = [tx EXCEPT ![t] = [change EXCEPT !.todo = Tail(@)]]
Rollback(t) == tx' = [tx EXCEPT ![t] = Idle]

Database == <<run, lease, held, approvals, claims, executed, artifacts, chain>>
Caller == <<clock, begun, faults, ops>>

(***************************************************************************)
(* A caller reads its clock and what it presents to the store: a worker    *)
(* its lease, the others the revision they saw last.                       *)
(***************************************************************************)
Targets(status) ==
  {next \in RunStatus \ TerminalStatus : AnyTarget \/ CanTransitionTo(status, next)}

Endings(status) ==
  {next \in {"Succeeded", "Failed", "TimedOut"} : AnyTarget \/ CanTransitionTo(status, next)}

Arguments(op) ==
  CASE op \in ApprovalOps             -> Approvals
    [] op = "TransitionLeasedRun"     -> Targets(held.status)
    [] op = "CompleteLeasedRun"       -> Endings(held.status)
    [] op = "TransitionRun"           -> {next \in RunStatus : CanTransitionTo(run.status, next)}
    [] OTHER                          -> {"None"}

Presented(op, arg) ==
  CASE op \in LeasedOps               -> held.revision
    [] op = "TransitionRun"           -> run.revision
    [] op \in ApprovalOps             -> approvals[arg].revision
    [] OTHER                          -> 0

Begin(t, op) ==
  /\ tx[t] = Idle
  /\ op \in ops
  /\ op \in LeasedOps => held # NotHeld
  /\ begun < MaxBegun
  /\ begun' = begun + 1
  /\ clock' \in {clock, clock + 1} /\ clock' <= MaxClock
  /\ \E arg \in Arguments(op) :
       tx' = [tx EXCEPT ![t] = [Idle EXCEPT !.op = op, !.todo = Plan[op], !.arg = arg,
                                            !.now = clock', !.revision = Presented(op, arg)]]
  /\ UNCHANGED <<Database, faults, ops>>

RunIsFree(t) == \A u \in Others(t) : tx[u].run_lock = "None"
RunIsShareable(t) == \A u \in Others(t) : tx[u].run_lock # "Update"
ApprovalIsFree(t) == \A u \in Others(t) : ~(tx[u].approval_lock /\ tx[u].arg = tx[t].arg)

LockRun(t) ==
  /\ At(t, "LockRun")
  /\ RunIsFree(t)
  /\ Continue(t, [tx[t] EXCEPT !.run_lock = "Update"])
  /\ UNCHANGED <<Database, Caller>>

LockApproval(t) ==
  /\ At(t, "LockApproval")
  /\ ApprovalIsFree(t)
  /\ IF approvals[tx[t].arg].status = "Absent"
       THEN Rollback(t)
       ELSE Continue(t, [tx[t] EXCEPT !.approval_lock = TRUE])
  /\ UNCHANGED <<Database, Caller>>

(* FOR UPDATE SKIP LOCKED: a locked row is no candidate. *)
Pick(t) ==
  /\ At(t, "Pick")
  /\ IF run.status = "Queued" /\ lease = NoLease /\ RunIsFree(t)
       THEN Continue(t, [tx[t] EXCEPT !.run_lock = "Update"])
       ELSE Rollback(t)
  /\ UNCHANGED <<Database, Caller>>

(***************************************************************************)
(* The recovery passes select before they wait for the lock.  Once they    *)
(* have it PostgreSQL checks the row of the run again, and not the lease   *)
(* it was joined with.                                                     *)
(***************************************************************************)
Expired(t) == lease # NoLease /\ lease.expires_at <= tx[t].now

SelectExpired(t) ==
  /\ At(t, "SelectExpired")
  /\ IF Expired(t) THEN Continue(t, tx[t]) ELSE Rollback(t)
  /\ UNCHANGED <<Database, Caller>>

InterruptedOrLeased == run.status \in {"Planning", "Running"}

Interrupted == run.status \in {"Planning", "Running"} /\ lease = NoLease

SelectInterrupted(t) ==
  /\ At(t, "SelectInterrupted")
  /\ IF Interrupted THEN Continue(t, tx[t]) ELSE Rollback(t)
  /\ UNCHANGED <<Database, Caller>>

(* A run that ended meanwhile only loses its lease. *)
HasEnded == IsTerminal(run.status)

Ended(t) ==
  /\ At(t, "Ended")
  /\ IF HasEnded
       THEN tx' = [tx EXCEPT ![t].todo = <<"Commit">>]
       ELSE Continue(t, tx[t])
  /\ UNCHANGED <<Database, Caller>>

(***************************************************************************)
(* What each operation checks once it has its locks.  The rows it looks at *)
(* cannot change before it ends, so the order of its checks does not       *)
(* matter.                                                                 *)
(***************************************************************************)
ExpiredApproval(t) == tx[t].now >= approvals[tx[t].arg].expires_at

VerifyApprovalWindow(p) == run.status = "AwaitingApproval" /\ run.revision = approvals[p].window

CurrentLease(t) ==
  /\ run.revision = tx[t].revision
  /\ lease # NoLease
  /\ lease.acquired_at <= tx[t].now /\ tx[t].now < lease.expires_at
  /\ run.updated_at <= tx[t].now

CancellableUnowned == lease = NoLease /\ run.status \in {"Queued", "AwaitingApproval"}

CancellableOwned ==
  lease # NoLease /\ run.status \in {"Planning", "AwaitingApproval", "Running"} /\ ~run.cancel_requested

MayCompleteAlways(t) == CurrentLease(t)

MayComplete(t) == CurrentLease(t) /\ ~(tx[t].arg = "Succeeded" /\ run.cancel_requested)

MayTransition(t) ==
  /\ lease = NoLease
  /\ run.revision = tx[t].revision
  /\ CanTransitionTo(run.status, tx[t].arg)
  /\ run.updated_at <= tx[t].now

MayReconcile(t) == lease = NoLease /\ tx[t].arg \in claims /\ tx[t].arg \notin executed

MayCreateApproval(t) == run.status = "AwaitingApproval" /\ approvals[tx[t].arg].status = "Absent"

MayDecide(t) ==
  /\ approvals[tx[t].arg].status = "Pending"
  /\ approvals[tx[t].arg].revision = tx[t].revision
  /\ ~ExpiredApproval(t)
  /\ tx[t].op = "Approve" => VerifyApprovalWindow(tx[t].arg)

MayExpire(t) ==
  /\ approvals[tx[t].arg].status \in {"Pending", "Approved"}
  /\ approvals[tx[t].arg].revision = tx[t].revision
  /\ ExpiredApproval(t)

MayConsume(t) ==
  /\ VerifyApprovalWindow(tx[t].arg)
  /\ approvals[tx[t].arg].status = "Approved"
  /\ approvals[tx[t].arg].revision = tx[t].revision
  /\ ~ExpiredApproval(t)
  /\ tx[t].op = "ConsumeApproval" => tx[t].arg \notin claims

Valid(t) ==
  CASE tx[t].op = "ClaimNextRun"         -> run.updated_at <= tx[t].now
    [] tx[t].op = "CompleteLeasedRun"    -> MayComplete(t)
    [] tx[t].op = "ConfirmCancel"        -> CurrentLease(t) /\ run.cancel_requested
    [] tx[t].op = "RecordLeasedArtifacts" -> CurrentLease(t) /\ ~artifacts
    [] tx[t].op \in {"HeartbeatLease", "TransitionLeasedRun", "AppendLeased"} -> CurrentLease(t)
    [] tx[t].op = "RequestCancel"        -> (CancellableUnowned \/ CancellableOwned) /\ run.updated_at <= tx[t].now
    [] tx[t].op = "RecoverExpiredLeases" -> run.updated_at <= tx[t].now
    [] tx[t].op = "RecoverInterrupted"   -> run.status \in {"Planning", "Running"}
    [] tx[t].op = "TransitionRun"        -> MayTransition(t)
    [] tx[t].op = "AppendAudit"          -> lease = NoLease
    [] tx[t].op = "RecordArtifacts"      -> lease = NoLease /\ ~artifacts
    [] tx[t].op = "ReconcileAction"      -> MayReconcile(t)
    [] tx[t].op = "CreateApproval"       -> MayCreateApproval(t)
    [] tx[t].op \in {"Approve", "Deny"}  -> MayDecide(t)
    [] tx[t].op = "ExpireApproval"       -> MayExpire(t)
    [] tx[t].op \in {"ConsumeApproval", "ConsumeMismatch"} -> MayConsume(t)

Validate(t) ==
  /\ At(t, "Validate")
  /\ IF Valid(t) THEN Continue(t, tx[t]) ELSE Rollback(t)
  /\ UNCHANGED <<Database, Caller>>

(***************************************************************************)
(* The end of the committed chain, read by one statement each.  The hash   *)
(* of an event is its place in the order of commits.                       *)
(***************************************************************************)
LastSequence ==
  CHOOSE n \in {chain[i].sequence : i \in DOMAIN chain} :
    \A i \in DOMAIN chain : chain[i].sequence <= n
LastEvent == CHOOSE i \in DOMAIN chain : chain[i].sequence = LastSequence

InOrder(t) == chain[LastEvent].time <= tx[t].now

Time(t) ==
  /\ At(t, "Time")
  /\ IF InOrder(t) THEN Continue(t, tx[t]) ELSE Rollback(t)
  /\ UNCHANGED <<Database, Caller>>

NextAuditSequence(t) ==
  /\ At(t, "Sequence")
  /\ Continue(t, [tx[t] EXCEPT !.sequence = LastSequence + 1])
  /\ UNCHANGED <<Database, Caller>>

LastAuditHash(t) ==
  /\ At(t, "Hash")
  /\ Continue(t, [tx[t] EXCEPT !.previous = LastEvent])
  /\ UNCHANGED <<Database, Caller>>

(***************************************************************************)
(* The events are inserted.  The unique index on run and sequence makes a  *)
(* transaction wait for one that inserted the same numbers, and fail once  *)
(* they are committed.  The row and its index entry are in place before    *)
(* the foreign key is checked.                                             *)
(***************************************************************************)
Count(t) == IF tx[t].op \in {"ConsumeApproval", "RecordArtifacts", "RecordLeasedArtifacts"} THEN 2 ELSE 1

Numbers(t) == tx[t].sequence .. tx[t].sequence + Count(t) - 1

MustWait(t) == \E u \in Others(t) : tx[u].inserted /\ Numbers(t) \cap Numbers(u) # {}

NeverTaken(t) == FALSE

Taken(t) == \E i \in DOMAIN chain : chain[i].sequence \in Numbers(t)

InsertAuditEvent(t) ==
  /\ At(t, "Insert")
  /\ ~MustWait(t)
  /\ IF Taken(t)
       THEN Rollback(t)
       ELSE Continue(t, [tx[t] EXCEPT !.inserted = TRUE])
  /\ UNCHANGED <<Database, Caller>>

(* FOR KEY SHARE on the row of the run, taken for the foreign key. *)
CheckReference(t) ==
  /\ At(t, "Reference")
  /\ RunIsShareable(t)
  /\ Continue(t, [tx[t] EXCEPT !.run_lock = "Share"])
  /\ UNCHANGED <<Database, Caller>>

(***************************************************************************)
(* Commits: the writes of each operation become visible.                   *)
(***************************************************************************)
ApplyRunTransition(next, now) ==
  [run EXCEPT !.status = next, !.revision = @ + 1, !.updated_at = now]

Event(t, i) ==
  [sequence |-> tx[t].sequence + i - 1,
   previous |-> IF i = 1 THEN tx[t].previous ELSE Len(chain) + i - 1,
   time     |-> tx[t].now,
   op       |-> tx[t].op]

Committed(t) ==
  /\ At(t, "Commit")
  /\ Rollback(t)
  /\ chain' = IF tx[t].inserted THEN chain \o [i \in 1 .. Count(t) |-> Event(t, i)] ELSE chain
  /\ UNCHANGED Caller

ClaimNextRun(t) ==
  /\ tx[t].op = "ClaimNextRun"
  /\ Committed(t)
  /\ run' = ApplyRunTransition("Planning", tx[t].now)
  /\ lease' = [acquired_at |-> tx[t].now, expires_at |-> tx[t].now + Ttl]
  /\ held' = [revision |-> run.revision + 1, status |-> "Planning"]
  /\ UNCHANGED <<approvals, claims, executed, artifacts>>

HeartbeatLease(t) ==
  /\ tx[t].op = "HeartbeatLease"
  /\ Committed(t)
  /\ lease' = [lease EXCEPT !.expires_at = tx[t].now + Ttl]
  /\ held' = [revision |-> run.revision, status |-> run.status]
  /\ UNCHANGED <<run, approvals, claims, executed, artifacts>>

TransitionLeasedRun(t) ==
  /\ tx[t].op = "TransitionLeasedRun"
  /\ Committed(t)
  /\ run' = ApplyRunTransition(tx[t].arg, tx[t].now)
  /\ held' = [revision |-> run.revision + 1, status |-> tx[t].arg]
  /\ UNCHANGED <<lease, approvals, claims, executed, artifacts>>

CompleteLeasedRun(t) ==
  /\ tx[t].op = "CompleteLeasedRun"
  /\ Committed(t)
  /\ run' = ApplyRunTransition(tx[t].arg, tx[t].now)
  /\ lease' = NoLease
  /\ held' = NotHeld
  /\ UNCHANGED <<approvals, claims, executed, artifacts>>

NoRowChanges == UNCHANGED <<run, lease, held, approvals, claims, executed>>

AppendLeasedRuntimeAudit(t) ==
  /\ tx[t].op = "AppendLeased"
  /\ Committed(t)
  /\ NoRowChanges /\ UNCHANGED artifacts

AppendAudit(t) ==
  /\ tx[t].op = "AppendAudit"
  /\ Committed(t)
  /\ NoRowChanges /\ UNCHANGED artifacts

RecordLeasedArtifacts(t) ==
  /\ tx[t].op = "RecordLeasedArtifacts"
  /\ Committed(t)
  /\ artifacts' = TRUE
  /\ NoRowChanges

RecordArtifacts(t) ==
  /\ tx[t].op = "RecordArtifacts"
  /\ Committed(t)
  /\ artifacts' = TRUE
  /\ NoRowChanges

(* The action differs from the approved one: only that is written down. *)
BindingMismatch(t) ==
  /\ tx[t].op = "ConsumeMismatch"
  /\ Committed(t)
  /\ NoRowChanges /\ UNCHANGED artifacts

RequestCancel(t) ==
  /\ tx[t].op = "RequestCancel"
  /\ Committed(t)
  /\ run' = IF CancellableUnowned
              THEN ApplyRunTransition("Cancelled", tx[t].now)
              ELSE [run EXCEPT !.cancel_requested = TRUE]
  /\ UNCHANGED <<lease, held, approvals, claims, executed, artifacts>>

ConfirmCancel(t) ==
  /\ tx[t].op = "ConfirmCancel"
  /\ Committed(t)
  /\ run' = ApplyRunTransition("Cancelled", tx[t].now)
  /\ lease' = NoLease
  /\ held' = NotHeld
  /\ UNCHANGED <<approvals, claims, executed, artifacts>>

RecoverExpiredLeases(t) ==
  /\ tx[t].op = "RecoverExpiredLeases"
  /\ Committed(t)
  /\ run' = IF HasEnded THEN run ELSE ApplyRunTransition("Failed", tx[t].now)
  /\ lease' = NoLease
  /\ UNCHANGED <<held, approvals, claims, executed, artifacts>>

RecoverInterrupted(t) ==
  /\ tx[t].op = "RecoverInterrupted"
  /\ Committed(t)
  /\ run' = ApplyRunTransition("Failed", tx[t].now)
  /\ UNCHANGED <<lease, held, approvals, claims, executed, artifacts>>

TransitionRun(t) ==
  /\ tx[t].op = "TransitionRun"
  /\ Committed(t)
  /\ run' = ApplyRunTransition(tx[t].arg, tx[t].now)
  /\ UNCHANGED <<lease, held, approvals, claims, executed, artifacts>>

ReconcileAction(t) ==
  /\ tx[t].op = "ReconcileAction"
  /\ Committed(t)
  /\ executed' = executed \cup {tx[t].arg}
  /\ UNCHANGED <<run, lease, held, approvals, claims, artifacts>>

CreateApproval(t) ==
  /\ tx[t].op = "CreateApproval"
  /\ Committed(t)
  /\ approvals' = [approvals EXCEPT ![tx[t].arg] =
       [status |-> "Pending", revision |-> 0, window |-> run.revision, expires_at |-> tx[t].now + Ttl]]
  /\ UNCHANGED <<run, lease, held, claims, executed, artifacts>>

DecideApproval(t) ==
  /\ tx[t].op \in {"Approve", "Deny", "ExpireApproval"}
  /\ Committed(t)
  /\ approvals' = [approvals EXCEPT ![tx[t].arg].revision = @ + 1,
                                    ![tx[t].arg].status = CASE tx[t].op = "Approve" -> "Approved"
                                                            [] tx[t].op = "Deny" -> "Denied"
                                                            [] OTHER -> "Expired"]
  /\ UNCHANGED <<run, lease, held, claims, executed, artifacts>>

ConsumeApproval(t) ==
  /\ tx[t].op = "ConsumeApproval"
  /\ Committed(t)
  /\ approvals' = [approvals EXCEPT ![tx[t].arg].revision = @ + 1, ![tx[t].arg].status = "Consumed"]
  /\ claims' = claims \cup {tx[t].arg}
  /\ run' = ApplyRunTransition("Running", tx[t].now)
  /\ UNCHANGED <<lease, held, executed, artifacts>>

Commit(t) ==
  \/ ClaimNextRun(t) \/ HeartbeatLease(t) \/ TransitionLeasedRun(t) \/ CompleteLeasedRun(t)
  \/ AppendLeasedRuntimeAudit(t) \/ AppendAudit(t) \/ RecordLeasedArtifacts(t)
  \/ RecordArtifacts(t) \/ BindingMismatch(t)
  \/ RequestCancel(t) \/ ConfirmCancel(t) \/ RecoverExpiredLeases(t)
  \/ RecoverInterrupted(t) \/ TransitionRun(t) \/ ReconcileAction(t) \/ CreateApproval(t)
  \/ DecideApproval(t) \/ ConsumeApproval(t)

(* A statement fails: its transaction is rolled back. *)
Fail(t) ==
  /\ tx[t] # Idle
  /\ faults < MaxFaults
  /\ faults' = faults + 1
  /\ Rollback(t)
  /\ UNCHANGED <<Database, clock, begun, ops>>

(***************************************************************************)
(* What a transaction waits for, and what PostgreSQL does about two that   *)
(* wait for each other: it finds out and rolls one of them back.           *)
(***************************************************************************)
WaitsFor(t, u) ==
  \/ At(t, "LockRun") /\ tx[u].run_lock # "None"
  \/ At(t, "LockApproval") /\ tx[u].approval_lock /\ tx[u].arg = tx[t].arg
  \/ At(t, "Insert") /\ tx[u].inserted /\ Numbers(t) \cap Numbers(u) # {}
  \/ At(t, "Reference") /\ tx[u].run_lock = "Update"

DeadlockDetected(t) ==
  /\ \E u \in Others(t) : WaitsFor(t, u) /\ WaitsFor(u, t)
  /\ Rollback(t)
  /\ UNCHANGED <<Database, Caller>>

(***************************************************************************)
(* The states a behaviour starts from, all left behind by create_run and   *)
(* the operations above: a run just created, one that a worker executes,   *)
(* one that waits for its approvals.                                       *)
(***************************************************************************)
History(n) == [i \in 1 .. n |-> [sequence |-> i, previous |-> i - 1, time |-> 0, op |-> "None"]]

Row(status, revision) ==
  [status |-> status, revision |-> revision, updated_at |-> 0, cancel_requested |-> FALSE]

NoApproval == [status |-> "Absent", revision |-> 0, window |-> 0, expires_at |-> 0]

Created ==
  /\ run = Row("Queued", 0) /\ lease = NoLease /\ held = NotHeld
  /\ approvals = [p \in Approvals |-> NoApproval]
  /\ chain = History(1)
  /\ ops = {"ClaimNextRun", "HeartbeatLease", "TransitionRun", "AppendAudit", "RecordArtifacts",
            "RequestCancel", "RecoverInterrupted", "TransitionLeasedRun"}

Executing ==
  /\ run = Row("Running", 2) /\ lease = [acquired_at |-> 0, expires_at |-> Ttl]
  /\ held = [revision |-> 2, status |-> "Running"]
  /\ approvals = [p \in Approvals |-> NoApproval]
  /\ chain = History(3)
  /\ ops = LeasedOps \cup {"RequestCancel", "RecoverExpiredLeases", "RecoverInterrupted"}

Waiting ==
  /\ run = Row("AwaitingApproval", 2) /\ lease = NoLease /\ held = NotHeld
  /\ approvals \in [Approvals -> {NoApproval,
       [status |-> "Pending", revision |-> 0, window |-> 2, expires_at |-> Ttl],
       [status |-> "Approved", revision |-> 1, window |-> 2, expires_at |-> Ttl]}]
  /\ chain = History(3 + Cardinality({p \in Approvals : approvals[p].status # "Absent"})
                       + Cardinality({p \in Approvals : approvals[p].status = "Approved"}))
  /\ ops = ApprovalOps \cup {"RequestCancel"}

Init ==
  /\ Created \/ Executing \/ Waiting
  /\ claims = {} /\ executed = {} /\ artifacts = FALSE
  /\ tx = [t \in Txs |-> Idle]
  /\ clock = 0 /\ begun = 0 /\ faults = 0

Statement(t) ==
  \/ LockRun(t) \/ LockApproval(t) \/ Pick(t) \/ SelectExpired(t) \/ SelectInterrupted(t)
  \/ Ended(t) \/ Validate(t) \/ Time(t) \/ NextAuditSequence(t) \/ LastAuditHash(t)
  \/ InsertAuditEvent(t) \/ CheckReference(t) \/ Commit(t)

Next ==
  \E t \in Txs :
    \/ \E op \in DOMAIN Plan : Begin(t, op)
    \/ Statement(t)
    \/ Fail(t)
    \/ DeadlockDetected(t)

Spec == Init /\ [][Next]_vars

(* Connections and approvals are only ever compared for equality. *)
Symmetry == Permutations(Txs) \cup Permutations(Approvals)

(* verify_audit_chain, which every reader of the chain runs. *)
VerifyAuditChain ==
  \A i \in DOMAIN chain : chain[i].sequence = i /\ chain[i].previous = i - 1

(* However the transactions interleave, the chain a reader gets verifies:  *)
(* sequence numbers are dense and every event carries the hash of the one  *)
(* before it.                                                              *)
ChainVerifies == VerifyAuditChain

Waits(t) == \E u \in Others(t) : WaitsFor(t, u)

(* Denials and expiries append to the chain before they lock the run, so   *)
(* one of them and a writer that holds the run may wait for each other,    *)
(* which PostgreSQL resolves by failing one.  That is the only way in      *)
(* which transactions come to wait in a cycle: when every transaction in   *)
(* progress waits, there is such a pair among them.  Operations that lock  *)
(* the run before they append, approvals and consumptions included, never  *)
(* deadlock with each other.                                               *)
OnlyDecisionsDeadlock ==
  \/ \A t \in Txs : tx[t] = Idle
  \/ \E t \in Txs : tx[t] # Idle /\ ~Waits(t)
  \/ \E t, u \in Txs :
       /\ tx[t].op \in {"Deny", "ExpireApproval"} /\ tx[u].run_lock = "Update"
       /\ WaitsFor(t, u) /\ WaitsFor(u, t)

(* A cancellation that was recorded while a worker completes its run is    *)
(* never followed by success.                                              *)
IntentBlocksSuccess == run.cancel_requested => run.status # "Succeeded"

(* A restart of the control API does not fail a run whose lease is         *)
(* durable, even when the claim commits while the pass waits.              *)
RestartSparesWorkers ==
  \A t \in Txs : tx[t].op = "RecoverInterrupted" /\ tx[t].inserted => lease = NoLease

(* The statuses of a run only move as RunStatus::can_transition_to allows, *)
(* whatever a transaction saw before it had the row.                       *)
MovesAreLegal ==
  [][run'.status # run.status => CanTransitionTo(run.status, run'.status)]_vars
=============================================================================
