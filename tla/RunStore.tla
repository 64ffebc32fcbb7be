------------------------------ MODULE RunStore ------------------------------
(***************************************************************************)
(* The execution store (crates/openwork-execution/src/store/mod.rs): runs, *)
(* worker leases, cancellation intent, audit chains, artifacts, approvals  *)
(* and action claims.  Every operation of InMemoryExecutionStore holds one *)
(* mutex from its first read to its last write, so each is one action.  A  *)
(* call that returns an error changes nothing, and is a stuttering step,   *)
(* except where the code writes before it fails: both such cases, a        *)
(* binding mismatch and a recovery pass that stops half way, are modelled. *)
(*                                                                         *)
(* Callers pass the time.  It is any element of Time, so the store is      *)
(* checked against stale readings and against skewed clocks.               *)
(*                                                                         *)
(* Left out: actors, reasons and redacted metadata (no guard reads them),  *)
(* and the lease owner, which the code only compares beside a token that   *)
(* already determines it.                                                  *)
(***************************************************************************)
EXTENDS Execution, Integers, Sequences, FiniteSets

CONSTANTS
  Runs,             \* run identifiers: numbers, ordered like the BTreeMap keys
  Approvals,        \* approval identifiers
  Actions,          \* action identifiers
  Hashes,           \* parameter digests
  Paths,            \* artifact paths
  Batches,          \* the artifact batches callers record: sequences of paths
  MaxTime,          \* the largest timestamp a caller passes
  LeaseTTLs,        \* the lease durations callers ask for
  ApprovalTTLs,     \* the approval lifetimes callers ask for
  MaxSequence,      \* the largest audit sequence number (u64::MAX in the code)
  AppendableEvents  \* the event types callers and workers append themselves

ASSUME RunStoreAssumption ==
  /\ Runs \subseteq Nat
  /\ Batches \subseteq Seq(Paths)
  /\ MaxTime \in Nat
  /\ MaxSequence \in Nat
  /\ LeaseTTLs \subseteq Nat \ {0}
  /\ ApprovalTTLs \subseteq Nat \ {0}
  \* append_audit takes any event type; its callers pass policy decisions
  \* and runtime output, and leave the other types to the store.
  /\ AppendableEvents \subseteq {"PolicyAllowed", "PolicyDenied"} \cup WorkerEvent

VARIABLES
  runs,             \* the run records
  audits,           \* each run's audit chain
  artifacts,        \* each run's recorded artifact paths
  approvals,        \* the approval requests, with the window of each
  actionClaims,     \* the durable claim of each action
  leases,           \* the current lease of each run
  cancelRequested,  \* runs with a recorded cancellation intent
  nextToken,        \* LeaseToken::generate: tokens are never reused
  handles           \* every RunLease value a caller was ever given

vars == <<runs, audits, artifacts, approvals, actionClaims, leases,
          cancelRequested, nextToken, handles>>

Time == 0..MaxTime
NoTime == -1
NoSubject == "no subject"

Run == [status : RunStatus \cup {"Absent"}, revision : Nat,
        created_at : Nat, updated_at : Nat,
        started_at : Nat \cup {NoTime}, completed_at : Nat \cup {NoTime}]

NoRun == [status |-> "Absent", revision |-> 0, created_at |-> 0,
          updated_at |-> 0, started_at |-> NoTime, completed_at |-> NoTime]

(* The subject is the action of ActionExecuted, the path of                *)
(* ArtifactCreated; sequence and previous hash are the place in the chain. *)
Event == [type : AuditEventType, at : Nat,
          subject : Actions \cup Paths \cup {NoSubject}]

(* token 0: the run is not in the lease map. *)
Lease == [token : Nat, revision : Nat, acquired_at : Nat, expires_at : Nat,
          cancel_requested : BOOLEAN]

NoLease == [token |-> 0, revision |-> 0, acquired_at |-> 0, expires_at |-> 0,
            cancel_requested |-> FALSE]

(* What a worker keeps of a RunLease and presents again later. *)
Handle == [run : Runs, token : Nat, revision : Nat]

Approval == [status : ApprovalStatus, run : Runs, action : Actions,
             hash : Hashes, created_at : Nat, expires_at : Nat,
             revision : Nat, window : Nat,
             decided_at : Nat \cup {NoTime}, consumed_at : Nat \cup {NoTime}]

NoApproval == [status |-> "Absent"]

Claim == [run : Runs, hash : Hashes, claimed_at : Nat]

NoClaim == [claimed_at |-> NoTime]

-----------------------------------------------------------------------------
(* Reading the state *)

Exists(r) == runs[r].status # "Absent"
Leased(r) == leases[r].token # 0
LastAuditAt(r) == audits[r][Len(audits[r])].at

IsExpiredAt(approval, now) == now >= approval.expires_at

(* ensure_memory_audit_time *)
EnsureAuditTime(r, now) ==
  /\ now >= runs[r].updated_at
  /\ now >= LastAuditAt(r)

RejectUnboundLeasedWrite(r) == Exists(r) /\ ~Leased(r)

ValidateLease(h, now) ==
  /\ Leased(h.run)
  /\ leases[h.run].token = h.token
  /\ runs[h.run].revision = h.revision
  /\ leases[h.run].acquired_at <= now
  /\ now < leases[h.run].expires_at
  /\ EnsureAuditTime(h.run, now)

(* approval_window_run: the run still waits in the window that was open    *)
(* when the approval was created.                                          *)
AwaitingApprovalOnly(p) ==
  runs[approvals[p].run].status = "AwaitingApproval"

ApprovalWindow(p) ==
  /\ runs[approvals[p].run].status = "AwaitingApproval"
  /\ runs[approvals[p].run].revision = approvals[p].window

-----------------------------------------------------------------------------
(* Writing the state *)

SubjectEvent(type, now, subject) ==
  [type |-> type, at |-> now, subject |-> subject]

AuditEvent(type, now) == SubjectEvent(type, now, NoSubject)

(* The checked sequence arithmetic: an exhausted chain refuses the write. *)
FitsOneTooMany(r, events) == Len(audits[r]) + Len(events) <= MaxSequence + 1

Fits(r, events) == Len(audits[r]) + Len(events) <= MaxSequence

(* append_memory_audit, approval_event, and the same lines written out in  *)
(* transition_run, append_audit, reconcile and record_artifacts.           *)
AppendUnordered(r, events) ==
  /\ Fits(r, events)
  /\ audits' = [audits EXCEPT ![r] = @ \o events]

AppendEvents(r, events) ==
  /\ Fits(r, events)
  /\ \A i \in DOMAIN events : events[i].at >= LastAuditAt(r)
  /\ audits' = [audits EXCEPT ![r] = @ \o events]

(* The new run record of apply_memory_transition_with_reason. *)
Advanced(run, next, now) ==
  [status       |-> next,
   revision     |-> run.revision + 1,
   created_at   |-> run.created_at,
   updated_at   |-> now,
   started_at   |-> IF next = "Running" /\ run.started_at = NoTime
                    THEN now ELSE run.started_at,
   completed_at |-> IF IsTerminal(next) THEN now ELSE run.completed_at]

ApplyTransition(r, next, now, type) ==
  /\ CanTransitionTo(runs[r].status, next)
  /\ now >= runs[r].updated_at
  /\ AppendEvents(r, <<AuditEvent(type, now)>>)
  /\ runs' = [runs EXCEPT ![r] = Advanced(@, next, now)]

-----------------------------------------------------------------------------
(* ExecutionStore *)

Init ==
  /\ runs = [r \in Runs |-> NoRun]
  /\ audits = [r \in Runs |-> <<>>]
  /\ artifacts = [r \in Runs |-> {}]
  /\ approvals = [p \in Approvals |-> NoApproval]
  /\ actionClaims = [a \in Actions |-> NoClaim]
  /\ leases = [r \in Runs |-> NoLease]
  /\ cancelRequested = {}
  /\ nextToken = 1
  /\ handles = {}

(* validate_new_run fixes every field but the identity and the time. *)
CreateRun(r, now) ==
  /\ ~Exists(r)
  /\ MaxSequence >= 1
  /\ runs' = [runs EXCEPT ![r] = [NoRun EXCEPT !.status = "Queued",
                                    !.created_at = now, !.updated_at = now]]
  /\ audits' = [audits EXCEPT ![r] = <<AuditEvent("RunCreated", now)>>]
  /\ UNCHANGED <<artifacts, approvals, actionClaims, leases, cancelRequested,
                 nextToken, handles>>

(* The expected revision is the caller's choice, and the call succeeds     *)
(* only with the current one.                                              *)
TransitionRun(r, next, now) ==
  /\ RejectUnboundLeasedWrite(r)
  /\ ApplyTransition(r, next, now, TransitionEvent(next))
  /\ UNCHANGED <<artifacts, approvals, actionClaims, leases, cancelRequested,
                 nextToken, handles>>

AppendAudit(r, type, now) ==
  /\ RejectUnboundLeasedWrite(r)
  /\ AppendEvents(r, <<AuditEvent(type, now)>>)
  /\ UNCHANGED <<runs, artifacts, approvals, actionClaims, leases,
                 cancelRequested, nextToken, handles>>

(* execution_receipt_was_audited *)
NeverAudited(r, a) == FALSE

ReceiptWasAudited(r, a) ==
  \E i \in DOMAIN audits[r] :
    audits[r][i].type = "ActionExecuted" /\ audits[r][i].subject = a

(* The receipt (a, r, hash) must match the durable claim; a receipt that   *)
(* was audited before is acknowledged without a write.                     *)
ReconcileActionExecution(a, r, hash, now) ==
  /\ RejectUnboundLeasedWrite(r)
  /\ actionClaims[a] # NoClaim
  /\ actionClaims[a].run = r
  /\ actionClaims[a].hash = hash
  /\ ~ReceiptWasAudited(r, a)
  /\ AppendEvents(r, <<SubjectEvent("ActionExecuted", now, a)>>)
  /\ UNCHANGED <<runs, artifacts, approvals, actionClaims, leases,
                 cancelRequested, nextToken, handles>>

(* validate_artifact_batch, and the same lines in record_artifacts. *)
ValidBatchOfNewPaths(r, batch) ==
  \A i, j \in DOMAIN batch : batch[i] = batch[j] => i = j

ValidArtifactBatch(r, batch) ==
  /\ \A i, j \in DOMAIN batch : batch[i] = batch[j] => i = j
  /\ \A i \in DOMAIN batch : batch[i] \notin artifacts[r]

(* The loop also computes the number after the last event, so a batch must *)
(* leave one sequence number free.                                         *)
WriteArtifacts(r, batch, now) ==
  /\ ValidArtifactBatch(r, batch)
  /\ Len(audits[r]) + Len(batch) < MaxSequence
  /\ AppendEvents(r, [i \in DOMAIN batch |->
                        SubjectEvent("ArtifactCreated", now, batch[i])])
  /\ artifacts' = [artifacts EXCEPT
                     ![r] = @ \cup {batch[i] : i \in DOMAIN batch}]

RecordArtifacts(r, batch, now) ==
  /\ RejectUnboundLeasedWrite(r)
  /\ WriteArtifacts(r, batch, now)
  /\ UNCHANGED <<runs, approvals, actionClaims, leases, cancelRequested,
                 nextToken, handles>>

-----------------------------------------------------------------------------
(* RunQueueRepository *)

(* The handle of the lease of r as it is after the step. *)
HandleOf(r) ==
  [run |-> r, token |-> leases'[r].token, revision |-> leases'[r].revision]

Queued(r) == runs[r].status = "Queued" /\ ~Leased(r)

(* claim_next_run takes the oldest queued run, ties broken by identifier. *)
Oldest(r) ==
  /\ Queued(r)
  /\ \A q \in Runs : Queued(q) =>
       \/ runs[r].created_at < runs[q].created_at
       \/ runs[r].created_at = runs[q].created_at /\ r <= q

ClaimNextRun(r, now, ttl) ==
  /\ Oldest(r)
  /\ ApplyTransition(r, "Planning", now, "RuntimeSelected")
  /\ leases' = [leases EXCEPT ![r] =
                  [token |-> nextToken, revision |-> runs'[r].revision,
                   acquired_at |-> now, expires_at |-> now + ttl,
                   cancel_requested |-> FALSE]]
  /\ nextToken' = nextToken + 1
  /\ handles' = handles \cup {HandleOf(r)}
  /\ UNCHANGED <<artifacts, approvals, actionClaims, cancelRequested>>

Renewed(lease, expires_at, cancel) ==
  [lease EXCEPT !.expires_at = expires_at, !.cancel_requested = cancel]

HeartbeatLease(h, now, ttl) ==
  /\ Leased(h.run)
  /\ leases[h.run].token = h.token
  /\ leases[h.run].revision = h.revision
  /\ runs[h.run].revision = h.revision
  /\ leases[h.run].acquired_at <= now
  /\ now < leases[h.run].expires_at
  /\ now >= runs[h.run].updated_at
  /\ leases' = [leases EXCEPT
                  ![h.run] = Renewed(@, now + ttl, h.run \in cancelRequested)]
  /\ UNCHANGED <<runs, audits, artifacts, approvals, actionClaims,
                 cancelRequested, nextToken, handles>>

Refreshed(lease, revision, cancel) ==
  [lease EXCEPT !.revision = revision, !.cancel_requested = cancel]

TransitionLeasedRun(h, next, now) ==
  /\ ~IsTerminal(next)
  /\ ValidateLease(h, now)
  /\ ApplyTransition(h.run, next, now, TransitionEvent(next))
  /\ leases' = [leases EXCEPT
                  ![h.run] = Refreshed(@, runs'[h.run].revision,
                                       h.run \in cancelRequested)]
  /\ handles' = handles \cup {HandleOf(h.run)}
  /\ UNCHANGED <<artifacts, approvals, actionClaims, cancelRequested,
                 nextToken>>

(* The lease and the intent of a run leave their maps together. *)
DropLeases(S) ==
  /\ leases' = [r \in Runs |-> IF r \in S THEN NoLease ELSE leases[r]]
  /\ cancelRequested' = cancelRequested \ S

(* Cancelled is left to ConfirmCancel. *)
MayComplete(r, next) == next \in {"Succeeded", "Failed", "TimedOut"}

MayCompleteLeased(r, next) ==
  /\ next \in {"Succeeded", "Failed", "TimedOut"}
  /\ next = "Succeeded" => r \notin cancelRequested

CompleteLeasedRun(h, next, now) ==
  /\ MayCompleteLeased(h.run, next)
  /\ ValidateLease(h, now)
  /\ ApplyTransition(h.run, next, now, TransitionEvent(next))
  /\ DropLeases({h.run})
  /\ UNCHANGED <<artifacts, approvals, actionClaims, nextToken, handles>>

AppendLeasedRuntimeAudit(h, type, now) ==
  /\ type \in WorkerEvent
  /\ ValidateLease(h, now)
  /\ AppendEvents(h.run, <<AuditEvent(type, now)>>)
  /\ UNCHANGED <<runs, artifacts, approvals, actionClaims, leases,
                 cancelRequested, nextToken, handles>>

RecordLeasedArtifacts(h, batch, now) ==
  /\ ValidateLease(h, now)
  /\ WriteArtifacts(h.run, batch, now)
  /\ UNCHANGED <<runs, approvals, actionClaims, leases, cancelRequested,
                 nextToken, handles>>

(* request_cancel of waiting work that no worker owns. *)
CancelWaiting(r, now) ==
  /\ runs[r].status \in {"Queued", "AwaitingApproval"}
  /\ ~Leased(r)
  /\ ApplyTransition(r, "Cancelled", now, "CancelConfirmed")
  /\ UNCHANGED <<leases, cancelRequested>>

(* request_cancel of a leased run: the intent is recorded once; a repeated *)
(* request is acknowledged without a write.                                *)
RecordCancelIntent(r, now) ==
  /\ runs[r].status \in {"Planning", "AwaitingApproval", "Running"}
  /\ Leased(r)
  /\ r \notin cancelRequested
  /\ EnsureAuditTime(r, now)
  /\ AppendEvents(r, <<AuditEvent("CancelRequested", now)>>)
  /\ cancelRequested' = cancelRequested \cup {r}
  /\ leases' = [leases EXCEPT ![r].cancel_requested = TRUE]
  /\ UNCHANGED runs

(* A terminal run answers AlreadyTerminal; an active run without a lease   *)
(* is an error.                                                            *)
RequestCancel(r, now) ==
  /\ CancelWaiting(r, now) \/ RecordCancelIntent(r, now)
  /\ UNCHANGED <<artifacts, approvals, actionClaims, nextToken, handles>>

(* The caller holds CancellationEvidence, which only exists for a lease    *)
(* whose sandbox ended Cancelled and was cleaned up.                       *)
ConfirmCancel(h, now) ==
  /\ Leased(h.run)
  /\ leases[h.run].token = h.token
  /\ leases[h.run].revision = h.revision
  /\ leases[h.run].acquired_at <= now
  /\ now < leases[h.run].expires_at
  /\ h.run \in cancelRequested
  /\ runs[h.run].revision = h.revision
  /\ EnsureAuditTime(h.run, now)
  /\ ApplyTransition(h.run, "Cancelled", now, "CancelConfirmed")
  /\ DropLeases({h.run})
  /\ UNCHANGED <<artifacts, approvals, actionClaims, nextToken, handles>>

(* The leases a recovery pass at time now finds expired, and those whose   *)
(* run makes it return an error.                                           *)
Expired(now) == {r \in Runs : Leased(r) /\ leases[r].expires_at <= now}

RecoveryFails(r, now) ==
  \/ ~EnsureAuditTime(r, now)
  \/ ~IsTerminal(runs[r].status)
       /\ ~Fits(r, <<AuditEvent("RunFailed", now)>>)

(* recover_expired_leases walks the expired leases in key order; the first *)
(* error ends the pass and keeps what was already written.                 *)
Recovered(now) ==
  {r \in Expired(now) :
     \A q \in Expired(now) : q <= r => ~RecoveryFails(q, now)}

ActiveWhenRecovered(now) == {r \in Recovered(now) : ~IsTerminal(runs[r].status)}

(* "without requeueing possibly executed work" *)
RequeuedByRecovery(run, now) == Advanced(run, "Queued", now)

FailedByRecovery(run, now) == Advanced(run, "Failed", now)

RecoverExpiredLeases(now) ==
  /\ Recovered(now) # {}
  /\ runs' = [r \in Runs |-> IF r \in ActiveWhenRecovered(now)
                             THEN FailedByRecovery(runs[r], now)
                             ELSE runs[r]]
  /\ audits' = [r \in Runs |->
                  IF r \in ActiveWhenRecovered(now)
                  THEN Append(audits[r], AuditEvent("RunFailed", now))
                  ELSE audits[r]]
  /\ DropLeases(Recovered(now))
  /\ UNCHANGED <<artifacts, approvals, actionClaims, nextToken, handles>>

-----------------------------------------------------------------------------
(* ApprovalRepository *)

(* An action identifier has one approval request for ever, and none once   *)
(* it is claimed.  Whether the run is leased is not looked at.             *)
UnusedAction(a) ==
  /\ actionClaims[a] = NoClaim
  /\ \A q \in Approvals : approvals[q] # NoApproval => approvals[q].action # a

CreateApproval(p, r, a, hash, now, ttl) ==
  /\ approvals[p] = NoApproval
  /\ UnusedAction(a)
  /\ runs[r].status = "AwaitingApproval"
  /\ AppendEvents(r, <<AuditEvent("ApprovalRequested", now)>>)
  /\ approvals' = [approvals EXCEPT ![p] =
                     [status |-> "Pending", run |-> r, action |-> a,
                      hash |-> hash, created_at |-> now,
                      expires_at |-> now + ttl, revision |-> 0,
                      window |-> runs[r].revision,
                      decided_at |-> NoTime, consumed_at |-> NoTime]]
  /\ UNCHANGED <<runs, artifacts, actionClaims, leases, cancelRequested,
                 nextToken, handles>>

Decided(approval, decision, now) ==
  [approval EXCEPT !.status = decision, !.revision = @ + 1, !.decided_at = now]

(* Only Approved needs the window: a denial may come after the run has     *)
(* moved on.  now >= created_at is ApprovalRequest::validate.              *)
DecideApproval(p, decision, now) ==
  /\ approvals[p].status = "Pending"
  /\ ~IsExpiredAt(approvals[p], now)
  /\ decision = "Approved" => ApprovalWindow(p)
  /\ now >= approvals[p].created_at
  /\ AppendEvents(approvals[p].run,
                  <<AuditEvent(IF decision = "Approved" THEN "ApprovalApproved"
                               ELSE "ApprovalDenied", now)>>)
  /\ approvals' = [approvals EXCEPT ![p] = Decided(@, decision, now)]
  /\ UNCHANGED <<runs, artifacts, actionClaims, leases, cancelRequested,
                 nextToken, handles>>

AsExpired(approval) ==
  [approval EXCEPT !.status = "Expired", !.revision = @ + 1]

ExpireApproval(p, now) ==
  /\ approvals[p].status \in {"Pending", "Approved"}
  /\ IsExpiredAt(approvals[p], now)
  /\ AppendEvents(approvals[p].run, <<AuditEvent("ApprovalExpired", now)>>)
  /\ approvals' = [approvals EXCEPT ![p] = AsExpired(@)]
  /\ UNCHANGED <<runs, artifacts, actionClaims, leases, cancelRequested,
                 nextToken, handles>>

(* What a caller asks to execute: intact says that the parameters still    *)
(* hash to the digest (parameters_match_hash).                             *)
ActionRequest == [run : Runs, id : Actions, hash : Hashes, intact : BOOLEAN]

SameAction(approval, action) ==
  /\ approval.run = action.run
  /\ approval.action = action.id

BindingMatches(approval, action) ==
  /\ approval.run = action.run
  /\ approval.action = action.id
  /\ approval.hash = action.hash
  /\ action.intact

(* consume_approval returns an error, but has written the mismatch. *)
ConsumeMismatched(p, action, now) ==
  /\ approvals[p].status = "Approved"
  /\ ApprovalWindow(p)
  /\ ~IsExpiredAt(approvals[p], now)
  /\ ~BindingMatches(approvals[p], action)
  /\ AppendEvents(approvals[p].run,
                  <<AuditEvent("ApprovalBindingMismatch", now)>>)
  /\ UNCHANGED <<runs, artifacts, approvals, actionClaims, leases,
                 cancelRequested, nextToken, handles>>

Consumed(approval, now) ==
  [approval EXCEPT !.status = "Consumed", !.revision = @ + 1,
                   !.consumed_at = now]

(* The approval, the claim, both events and the run move together; a lease *)
(* on the run is left at the revision it had.                              *)
ConsumeApproval(p, action, now) ==
  LET r == approvals[p].run
  IN /\ approvals[p].status = "Approved"
     /\ ApprovalWindow(p)
     /\ ~IsExpiredAt(approvals[p], now)
     /\ BindingMatches(approvals[p], action)
     /\ actionClaims[action.id] = NoClaim
     /\ now >= approvals[p].decided_at
     /\ AppendEvents(r, <<AuditEvent("ApprovalConsumed", now),
                          AuditEvent("RuntimeStarted", now)>>)
     /\ approvals' = [approvals EXCEPT ![p] = Consumed(@, now)]
     /\ actionClaims' = [actionClaims EXCEPT ![action.id] =
                           [run |-> action.run, hash |-> action.hash,
                            claimed_at |-> now]]
     /\ runs' = [runs EXCEPT ![r] = Advanced(@, "Running", now)]
     /\ UNCHANGED <<artifacts, leases, cancelRequested, nextToken, handles>>

-----------------------------------------------------------------------------
(* The specification: any caller, any operation, any time. *)

RunStep(now) ==
  \E r \in Runs :
    \/ CreateRun(r, now)
    \/ \E next \in RunStatus : TransitionRun(r, next, now)
    \/ \E type \in AppendableEvents : AppendAudit(r, type, now)
    \/ \E batch \in Batches : RecordArtifacts(r, batch, now)
    \/ \E ttl \in LeaseTTLs : ClaimNextRun(r, now, ttl)
    \/ RequestCancel(r, now)

LeaseStep(now) ==
  \/ \E h \in handles :
       \/ \E ttl \in LeaseTTLs : HeartbeatLease(h, now, ttl)
       \/ \E next \in RunStatus : TransitionLeasedRun(h, next, now)
       \/ \E next \in RunStatus : CompleteLeasedRun(h, next, now)
       \/ \E type \in AppendableEvents : AppendLeasedRuntimeAudit(h, type, now)
       \/ \E batch \in Batches : RecordLeasedArtifacts(h, batch, now)
       \/ ConfirmCancel(h, now)
  \/ RecoverExpiredLeases(now)

ApprovalStep(now) ==
  \/ \E p \in Approvals :
       \/ \E r \in Runs, a \in Actions, hash \in Hashes, ttl \in ApprovalTTLs :
            CreateApproval(p, r, a, hash, now, ttl)
       \/ \E decision \in {"Approved", "Denied"} :
            DecideApproval(p, decision, now)
       \/ ExpireApproval(p, now)
       \/ \E action \in ActionRequest :
            \/ ConsumeMismatched(p, action, now)
            \/ ConsumeApproval(p, action, now)
  \/ \E a \in Actions, r \in Runs, hash \in Hashes :
       ReconcileActionExecution(a, r, hash, now)

Next == \E now \in Time : RunStep(now) \/ LeaseStep(now) \/ ApprovalStep(now)

Spec == Init /\ [][Next]_vars

-----------------------------------------------------------------------------
(* Type correctness *)

(* Every field keeps its type, and no chain outgrows its sequence numbers. *)
TypeOK ==
  /\ runs \in [Runs -> Run]
  /\ audits \in [Runs -> Seq(Event)]
  /\ \A r \in Runs : Len(audits[r]) <= MaxSequence
  /\ artifacts \in [Runs -> SUBSET Paths]
  /\ approvals \in [Approvals -> Approval \cup {NoApproval}]
  /\ actionClaims \in [Actions -> Claim \cup {NoClaim}]
  /\ leases \in [Runs -> Lease]
  /\ cancelRequested \subseteq Runs
  /\ nextToken \in Nat \ {0}
  /\ handles \subseteq Handle

-----------------------------------------------------------------------------
(* The audit chain tells the truth *)

Has(r, type) == \E i \in DOMAIN audits[r] : audits[r][i].type = type

(* The timestamps of a chain never move backwards, whatever clocks its     *)
(* writers read, and the run record is never newer than its chain          *)
(* ("audit timestamps cannot move backwards").                             *)
AuditMonotone ==
  \A r \in Runs :
    /\ \A i, j \in DOMAIN audits[r] : i <= j => audits[r][i].at <= audits[r][j].at
    /\ Exists(r) => /\ audits[r] # <<>>
                    /\ runs[r].updated_at <= LastAuditAt(r)

(* A run has ended exactly when its chain says so, the chain says so once, *)
(* and RunCompleted stands for success alone.                              *)
OneEnding ==
  \A r \in Runs :
    /\ IsTerminal(runs[r].status) <=> \E type \in TerminalEvent : Has(r, type)
    /\ runs[r].status = "Succeeded" <=> Has(r, "RunCompleted")
    /\ \A i, j \in DOMAIN audits[r] :
         /\ audits[r][i].type \in TerminalEvent
         /\ audits[r][j].type \in TerminalEvent
         => i = j

(* The artifacts of a run are the ones its chain announces, each once:     *)
(* batches recorded by workers and by unleased callers never overlap.      *)
ArtifactsMatchAudit ==
  \A r \in Runs :
    LET created == {i \in DOMAIN audits[r] : audits[r][i].type = "ArtifactCreated"}
    IN /\ artifacts[r] = {audits[r][i].subject : i \in created}
       /\ \A i, j \in created : audits[r][i].subject = audits[r][j].subject => i = j

(* A reported execution is audited once, in the chain of the run that      *)
(* claimed the action, after the approval was consumed there               *)
(* (reconcile_action_execution is retried by callers).                     *)
ExecutionAuditedOnce ==
  \A r \in Runs : \A i \in DOMAIN audits[r] :
    audits[r][i].type = "ActionExecuted" =>
      LET a == audits[r][i].subject
      IN /\ actionClaims[a] # NoClaim
         /\ actionClaims[a].run = r
         /\ \E j \in 1..(i - 1) : /\ audits[r][j].type = "ApprovalConsumed"
                                  /\ audits[r][j].at = actionClaims[a].claimed_at
         /\ \A j \in DOMAIN audits[r] :
              audits[r][j].type = "ActionExecuted" /\ audits[r][j].subject = a
              => i = j

-----------------------------------------------------------------------------
(* Leases and cancellation *)

(* A lease exists only for active work, its owner's view of the run is not *)
(* ahead of the run, and the intent it shows is the recorded one; an       *)
(* intent without a lease, which no worker would ever see, does not exist. *)
LeaseOwnsActiveRun ==
  \A r \in Runs :
    /\ Leased(r) => /\ runs[r].status \in {"Planning", "AwaitingApproval", "Running"}
                    /\ leases[r].revision <= runs[r].revision
                    /\ leases[r].acquired_at < leases[r].expires_at
    /\ leases[r].cancel_requested <=> r \in cancelRequested
    /\ r \in cancelRequested => Leased(r)

(* RunQueueRepository: "claim queued work exactly once".  Every capability *)
(* ever handed out for a run carries the token of one claim, recovered or  *)
(* not.                                                                    *)
ClaimedOnce ==
  /\ \A h, g \in handles : h.run = g.run => h.token = g.token
  /\ \A h, g \in handles : h.token = g.token => h.run = g.run

(* Once a worker's run has a recorded cancellation intent it cannot end in *)
(* success, whichever of completion, confirmation and recovery comes next. *)
CancelBlocksSuccess ==
  \A r \in Runs : Has(r, "CancelRequested") => runs[r].status # "Succeeded"

(* A terminal run is never written again and never leased again. *)
TerminalIsFinal ==
  [][\A r \in Runs : IsTerminal(runs[r].status) =>
       runs'[r] = runs[r] /\ ~Leased(r)']_vars

(* "claim queued work exactly once", "fail expired leases closed": a run   *)
(* is leased by one claim, and that lease lasts until the run ends.  A     *)
(* recovery pass that stops half way keeps the leases it did not reach,    *)
(* and one that drops a lease fails its run, never queues it again.        *)
LeaseLifecycle ==
  [][/\ ClaimedOnce'
     /\ \A r \in Runs : Leased(r) /\ leases'[r].token # leases[r].token =>
          ~Leased(r)' /\ IsTerminal(runs'[r].status)]_vars

(* Consuming an approval moves a leased run past the revision its worker   *)
(* holds.  From then on no capability can steer the run: only the recovery *)
(* of the expired lease ends it, and ends it as failed.                    *)
OvertakenLease ==
  [][\A r \in Runs :
       Leased(r) /\ leases[r].revision # runs[r].revision /\ runs'[r] # runs[r]
       => runs'[r].status = "Failed" /\ ~Leased(r)']_vars

-----------------------------------------------------------------------------
(* Approvals *)

(* An action is claimed exactly when an approval for it was consumed: the  *)
(* same run, action and digest, approved before and used before it         *)
(* expired.  No two approvals carry the same action.                       *)
ClaimIsApproved ==
  /\ \A a \in Actions : actionClaims[a] # NoClaim =>
       \E p \in Approvals :
         /\ approvals[p].status = "Consumed"
         /\ approvals[p].action = a
         /\ approvals[p].run = actionClaims[a].run
         /\ approvals[p].hash = actionClaims[a].hash
         /\ approvals[p].consumed_at = actionClaims[a].claimed_at
  /\ \A p \in Approvals : approvals[p].status = "Consumed" =>
       /\ actionClaims[approvals[p].action] # NoClaim
       /\ approvals[p].created_at <= approvals[p].decided_at
       /\ approvals[p].decided_at <= approvals[p].consumed_at
       /\ approvals[p].consumed_at < approvals[p].expires_at
  /\ \A p, q \in Approvals :
       /\ approvals[p] # NoApproval
       /\ approvals[q] # NoApproval
       /\ approvals[p].action = approvals[q].action
       => p = q

(* One pause of a run releases at most one action: of the approvals        *)
(* created in one awaiting-approval window at most one is ever consumed.   *)
OneConsumptionPerWindow ==
  \A p, q \in Approvals :
    /\ approvals[p].status = "Consumed"
    /\ approvals[q].status = "Consumed"
    /\ approvals[p].run = approvals[q].run
    /\ approvals[p].window = approvals[q].window
    => p = q
=============================================================================
