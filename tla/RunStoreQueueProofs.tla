----------------------- MODULE RunStoreQueueProofs --------------------------
(***************************************************************************)
(* What holds of the execution store for every set of runs, approvals,     *)
(* actions and artifacts, every lease and approval lifetime, and whatever  *)
(* times the callers pass.  This module: type correctness; the shapes of   *)
(* the steps, on which the proofs of the invariants rest; and the proofs   *)
(* about leases, capabilities and cancellation, and of what no step of the *)
(* store may do: write a finished run, take a lease from a run that goes   *)
(* on, or move a run past a lease that an approval overtook.               *)
(***************************************************************************)
EXTENDS RunStore, TLAPS

-----------------------------------------------------------------------------
(* The values the operators build have the types of the records. *)

LEMMA AuditEventType_ ==
  ASSUME NEW type \in AuditEventType, NEW now \in Nat
  PROVE  AuditEvent(type, now) \in Event
BY DEF AuditEvent, SubjectEvent, Event

LEMMA TransitionEventType ==
  ASSUME NEW status \in RunStatus
  PROVE  TransitionEvent(status) \in AuditEventType
BY DEF TransitionEvent, AuditEventType, RunStatus

(* The arithmetic of revisions, tokens and deadlines. *)
LEMMA Counting ==
  ASSUME NEW a \in Nat, NEW b \in Nat
  PROVE  /\ a <= b => a <= b + 1
         /\ a + 1 <= a + 1
         /\ a > 0 => 0 < a
OBVIOUS

LEMMA AtMost ==
  ASSUME NEW a \in Nat, NEW b \in Nat, NEW c \in Nat, a <= b, b <= c
  PROVE  a <= c + 1
OBVIOUS

LEMMA Deadline ==
  ASSUME NEW a \in Nat, NEW b \in Nat, NEW d \in Nat, d > 0, a <= b
  PROVE  a < b + d
OBVIOUS

LEMMA AdvancedType ==
  ASSUME NEW run \in Run, NEW next \in RunStatus, NEW now \in Nat
  PROVE  /\ Advanced(run, next, now) \in Run
         /\ Advanced(run, next, now).status = next
         /\ Advanced(run, next, now).revision = run.revision + 1
         /\ Advanced(run, next, now).updated_at = now
BY DEF Advanced, Run

(* An append keeps the type of the chains and their bound. *)
ChainsOK ==
  /\ audits \in [Runs -> Seq(Event)]
  /\ \A r \in Runs : Len(audits[r]) <= MaxSequence

LEMMA AppendType ==
  ASSUME ChainsOK, NEW r \in Runs, NEW events \in Seq(Event),
         AppendEvents(r, events)
  PROVE  ChainsOK'
BY DEF ChainsOK, AppendEvents, Fits

LEMMA ApplyTransitionType ==
  ASSUME TypeOK, NEW r \in Runs, NEW next \in RunStatus, NEW now \in Nat,
         NEW type \in AuditEventType, ApplyTransition(r, next, now, type)
  PROVE  /\ ChainsOK'
         /\ runs' \in [Runs -> Run]
         /\ runs'[r] = Advanced(runs[r], next, now)
<1>1. Advanced(runs[r], next, now) \in Run
  BY AdvancedType DEF TypeOK
<1>2. <<AuditEvent(type, now)>> \in Seq(Event)
  BY AuditEventType_
<1>3. ChainsOK'
  BY <1>2, AppendType, Zenon DEF TypeOK, ChainsOK, ApplyTransition
<1> QED
  BY <1>1, <1>3 DEF ApplyTransition, TypeOK

LEMMA ArtifactEvents ==
  ASSUME NEW batch \in Seq(Paths), NEW now \in Nat
  PROVE  [i \in DOMAIN batch |-> SubjectEvent("ArtifactCreated", now, batch[i])]
           \in Seq(Event)
<1> DEFINE events == [i \in DOMAIN batch |->
                        SubjectEvent("ArtifactCreated", now, batch[i])]
<1>1. \A i \in DOMAIN batch : events[i] \in Event
  BY DEF SubjectEvent, Event, AuditEventType
<1>2. DOMAIN batch = 1..Len(batch) /\ Len(batch) \in Nat
  OBVIOUS
<1> HIDE DEF events
<1>3. events \in [1..Len(batch) -> Event]
  BY <1>1, <1>2 DEF events
<1>4. events \in Seq(Event)
  BY <1>2, <1>3
<1> QED
  BY <1>4 DEF events

LEMMA WriteArtifactsType ==
  ASSUME TypeOK, NEW r \in Runs, NEW batch \in Batches, NEW now \in Nat,
         WriteArtifacts(r, batch, now)
  PROVE  ChainsOK' /\ artifacts' \in [Runs -> SUBSET Paths]
<1>1. batch \in Seq(Paths)
  BY RunStoreAssumption DEF RunStoreAssumption
<1>2. ChainsOK'
  BY <1>1, ArtifactEvents, AppendType, Zenon DEF WriteArtifacts, TypeOK, ChainsOK
<1>3. {batch[i] : i \in DOMAIN batch} \subseteq Paths
  BY <1>1
<1> QED
  BY <1>2, <1>3 DEF WriteArtifacts, TypeOK

LEMMA TimeIsNat == Time \subseteq Nat
BY RunStoreAssumption DEF RunStoreAssumption, Time

LEMMA DropLeasesType ==
  ASSUME TypeOK, NEW S, DropLeases(S)
  PROVE  leases' \in [Runs -> Lease] /\ cancelRequested' \subseteq Runs
<1>1. NoLease \in Lease
  BY DEF NoLease, Lease
<1> QED
  BY <1>1 DEF DropLeases, TypeOK

(* An approval that has a status other than "Absent" is an approval. *)
LEMMA PresentApproval ==
  ASSUME TypeOK, NEW p \in Approvals, approvals[p].status # "Absent"
  PROVE  approvals[p] \in Approval
BY SMTT(30) DEF TypeOK, NoApproval

LEMMA RunStepType ==
  ASSUME TypeOK, NEW now \in Time, RunStep(now)
  PROVE  TypeOK'
<1> USE DEF TypeOK
<1>0. now \in Nat
  BY TimeIsNat
<1>1. PICK r \in Runs :
        \/ CreateRun(r, now)
        \/ \E next \in RunStatus : TransitionRun(r, next, now)
        \/ \E type \in AppendableEvents : AppendAudit(r, type, now)
        \/ \E batch \in Batches : RecordArtifacts(r, batch, now)
        \/ \E ttl \in LeaseTTLs : ClaimNextRun(r, now, ttl)
        \/ RequestCancel(r, now)
  BY DEF RunStep
<1>2. CASE CreateRun(r, now)
  <2>1. AuditEvent("RunCreated", now) \in Event
    BY <1>0, AuditEventType_ DEF AuditEventType
  <2>2. [NoRun EXCEPT !.status = "Queued", !.created_at = now,
                      !.updated_at = now] \in Run
    BY <1>0, Zenon DEF NoRun, Run, RunStatus
  <2> QED
    BY <1>2, <2>1, <2>2 DEF CreateRun
<1>3. ASSUME NEW next \in RunStatus, TransitionRun(r, next, now)
      PROVE  TypeOK'
  <2>1. ChainsOK' /\ runs' \in [Runs -> Run]
    BY <1>0, <1>3, ApplyTransitionType, TransitionEventType, Zenon DEF TransitionRun
  <2> QED
    BY <1>3, <2>1, Zenon DEF TransitionRun, ChainsOK
<1>4. ASSUME NEW type \in AppendableEvents, AppendAudit(r, type, now)
      PROVE  TypeOK'
  <2>1. type \in AuditEventType
    BY RunStoreAssumption DEF RunStoreAssumption, WorkerEvent, AuditEventType
  <2>2. <<AuditEvent(type, now)>> \in Seq(Event)
    BY <1>0, <2>1, AuditEventType_
  <2> QED
    BY <1>4, <2>2, AppendType, Zenon DEF AppendAudit, ChainsOK
<1>5. ASSUME NEW batch \in Batches, RecordArtifacts(r, batch, now)
      PROVE  TypeOK'
  <2>1. ChainsOK' /\ artifacts' \in [Runs -> SUBSET Paths]
    BY <1>0, <1>5, WriteArtifactsType, Zenon DEF RecordArtifacts
  <2> QED
    BY <1>5, <2>1, Zenon DEF RecordArtifacts, ChainsOK
<1>6. ASSUME NEW ttl \in LeaseTTLs, ClaimNextRun(r, now, ttl)
      PROVE  TypeOK'
  <2>1. ChainsOK' /\ runs' \in [Runs -> Run]
    BY <1>0, <1>6, ApplyTransitionType, ZenonT(60)
       DEF ClaimNextRun, RunStatus, AuditEventType
  <2>2. runs'[r].revision \in Nat /\ now + ttl \in Nat
    BY <1>0, <2>1, RunStoreAssumption DEF RunStoreAssumption, Run
  <2>3. leases' \in [Runs -> Lease]
    BY <1>0, <1>6, <2>2, Zenon DEF ClaimNextRun, Lease
  <2>4. HandleOf(r) \in Handle
    BY <2>3, SMTT(30) DEF HandleOf, Handle, Lease
  <2> QED
    BY <1>6, <2>1, <2>3, <2>4, SMTT(30) DEF ClaimNextRun, ChainsOK
<1>7. CASE RequestCancel(r, now)
  <2>1. CASE CancelWaiting(r, now)
    <3>1. ChainsOK' /\ runs' \in [Runs -> Run]
      BY <1>0, <2>1, ApplyTransitionType, ZenonT(60)
         DEF CancelWaiting, RunStatus, AuditEventType
    <3> QED
      BY <1>7, <2>1, <3>1, SMTT(30) DEF RequestCancel, CancelWaiting, ChainsOK
  <2>2. CASE RecordCancelIntent(r, now)
    <3>1. <<AuditEvent("CancelRequested", now)>> \in Seq(Event)
      BY <1>0, AuditEventType_ DEF AuditEventType
    <3>2. ChainsOK'
      BY <2>2, <3>1, AppendType, Zenon DEF RecordCancelIntent, ChainsOK
    <3>3. leases' \in [Runs -> Lease]
      BY <2>2, ZenonT(60) DEF RecordCancelIntent, Lease
    <3> QED
      BY <1>7, <2>2, <3>2, <3>3, Zenon DEF RequestCancel, RecordCancelIntent, ChainsOK
  <2> QED
    BY <1>7, <2>1, <2>2, Zenon DEF RequestCancel
<1> QED
  BY <1>1, <1>2, <1>3, <1>4, <1>5, <1>6, <1>7, Zenon

(* The updates of an approval and of a lease keep their types. *)
LEMMA UpdatedApprovalType ==
  ASSUME NEW approval \in Approval, NEW now \in Nat,
         NEW decision \in {"Approved", "Denied"}
  PROVE  /\ Decided(approval, decision, now) \in Approval
         /\ AsExpired(approval) \in Approval
         /\ Consumed(approval, now) \in Approval
<1>1. \A status \in ApprovalStatus : [approval EXCEPT !.status = status] \in Approval
  BY DEF Approval
<1>2. \A b \in Approval : [b EXCEPT !.revision = @ + 1] \in Approval
  BY DEF Approval
<1>3. \A b \in Approval : [b EXCEPT !.decided_at = now] \in Approval
  BY DEF Approval
<1>4. \A b \in Approval : [b EXCEPT !.consumed_at = now] \in Approval
  BY DEF Approval
<1>5. {"Approved", "Denied", "Expired", "Consumed"} \subseteq ApprovalStatus
  BY DEF ApprovalStatus
<1>6. \A status \in ApprovalStatus :
        [approval EXCEPT !.status = status, !.revision = @ + 1] \in Approval
  BY <1>1, <1>2, Zenon
<1>7. Decided(approval, decision, now) \in Approval
  <2> DEFINE b == [approval EXCEPT !.status = decision, !.revision = @ + 1]
  <2>1. b \in Approval
    BY <1>5, <1>6, Zenon
  <2>2. Decided(approval, decision, now) = [b EXCEPT !.decided_at = now]
    BY DEF Decided
  <2> QED
    BY <1>3, <2>1, <2>2, Zenon
<1>8. AsExpired(approval) \in Approval
  BY <1>5, <1>6, Zenon DEF AsExpired
<1>9. Consumed(approval, now) \in Approval
  <2> DEFINE b == [approval EXCEPT !.status = "Consumed", !.revision = @ + 1]
  <2>1. b \in Approval
    BY <1>5, <1>6, Zenon
  <2>2. Consumed(approval, now) = [b EXCEPT !.consumed_at = now]
    BY DEF Consumed
  <2> QED
    BY <1>4, <2>1, <2>2, Zenon
<1> QED
  BY <1>7, <1>8, <1>9

LEMMA UpdatedLeaseType ==
  ASSUME NEW lease \in Lease, NEW n \in Nat, NEW c \in BOOLEAN
  PROVE  /\ Renewed(lease, n, c) \in Lease
         /\ Refreshed(lease, n, c) \in Lease
BY Zenon DEF Lease, Renewed, Refreshed

LEMMA RenewedFields ==
  ASSUME NEW lease \in Lease, NEW n, NEW c
  PROVE  /\ Renewed(lease, n, c).token = lease.token
         /\ Renewed(lease, n, c).revision = lease.revision
         /\ Renewed(lease, n, c).acquired_at = lease.acquired_at
         /\ Renewed(lease, n, c).expires_at = n
         /\ Renewed(lease, n, c).cancel_requested = c
BY DEF Lease, Renewed

LEMMA HandleStepType ==
  ASSUME TypeOK, NEW now \in Time, NEW h \in handles,
         \/ \E ttl \in LeaseTTLs : HeartbeatLease(h, now, ttl)
         \/ \E next \in RunStatus : TransitionLeasedRun(h, next, now)
         \/ \E next \in RunStatus : CompleteLeasedRun(h, next, now)
         \/ \E type \in AppendableEvents : AppendLeasedRuntimeAudit(h, type, now)
         \/ \E batch \in Batches : RecordLeasedArtifacts(h, batch, now)
         \/ ConfirmCancel(h, now)
  PROVE  TypeOK'
<1> USE DEF TypeOK
<1>0. now \in Nat /\ h.run \in Runs
  BY TimeIsNat, SMTT(30) DEF Handle
<1>1. ASSUME NEW ttl \in LeaseTTLs, HeartbeatLease(h, now, ttl)
      PROVE  TypeOK'
  <2>1. now + ttl \in Nat
    BY <1>0, RunStoreAssumption DEF RunStoreAssumption
  <2>2. leases' \in [Runs -> Lease]
    <3> DEFINE c == h.run \in cancelRequested
    <3>1. c \in BOOLEAN /\ leases[h.run] \in Lease
      BY <1>0
    <3> HIDE DEF c
    <3>2. Renewed(leases[h.run], now + ttl, c) \in Lease
      BY <2>1, <3>1, UpdatedLeaseType, SMTT(30)
    <3> QED
      BY <1>0, <1>1, <3>2, Zenon DEF HeartbeatLease, c
  <2> QED
    BY <1>1, <2>2, ZenonT(60) DEF HeartbeatLease
<1>2. ASSUME NEW next \in RunStatus, TransitionLeasedRun(h, next, now)
      PROVE  TypeOK'
  <2>1. ChainsOK' /\ runs' \in [Runs -> Run]
    BY <1>0, <1>2, ApplyTransitionType, TransitionEventType, Zenon
       DEF TransitionLeasedRun
  <2>2. runs'[h.run].revision \in Nat
    BY <1>0, <2>1, Zenon DEF Run
  <2>3. leases' \in [Runs -> Lease]
    <3> DEFINE c == h.run \in cancelRequested
    <3>1. c \in BOOLEAN /\ leases[h.run] \in Lease
      BY <1>0
    <3> HIDE DEF c
    <3>2. Refreshed(leases[h.run], runs'[h.run].revision, c) \in Lease
      BY <2>2, <3>1, UpdatedLeaseType, Zenon
    <3> QED
      BY <1>0, <1>2, <3>2, Zenon DEF TransitionLeasedRun, c
  <2>4. HandleOf(h.run) \in Handle
    BY <1>0, <2>3, SMTT(30) DEF HandleOf, Handle, Lease
  <2> QED
    BY <1>2, <2>1, <2>3, <2>4, SMTT(30) DEF TransitionLeasedRun, ChainsOK
<1>3. ASSUME NEW next \in RunStatus, CompleteLeasedRun(h, next, now)
      PROVE  TypeOK'
  <2>1. ChainsOK' /\ runs' \in [Runs -> Run]
    BY <1>0, <1>3, ApplyTransitionType, TransitionEventType, SMTT(30)
       DEF CompleteLeasedRun
  <2>2. leases' \in [Runs -> Lease] /\ cancelRequested' \subseteq Runs
    BY <1>3, DropLeasesType, Zenon DEF CompleteLeasedRun
  <2> QED
    BY <1>3, <2>1, <2>2, Zenon DEF CompleteLeasedRun, ChainsOK
<1>4. ASSUME NEW type \in AppendableEvents,
             AppendLeasedRuntimeAudit(h, type, now)
      PROVE  TypeOK'
  <2>1. <<AuditEvent(type, now)>> \in Seq(Event)
    BY <1>0, <1>4, AuditEventType_
       DEF AppendLeasedRuntimeAudit, WorkerEvent, AuditEventType
  <2> QED
    BY <1>0, <1>4, <2>1, AppendType, ZenonT(60)
       DEF AppendLeasedRuntimeAudit, ChainsOK
<1>5. ASSUME NEW batch \in Batches, RecordLeasedArtifacts(h, batch, now)
      PROVE  TypeOK'
  <2>1. ChainsOK' /\ artifacts' \in [Runs -> SUBSET Paths]
    BY <1>0, <1>5, WriteArtifactsType, Zenon DEF RecordLeasedArtifacts
  <2> QED
    BY <1>5, <2>1, SMTT(30) DEF RecordLeasedArtifacts, ChainsOK
<1>6. CASE ConfirmCancel(h, now)
  <2>1. ChainsOK' /\ runs' \in [Runs -> Run]
    BY <1>0, <1>6, ApplyTransitionType, ZenonT(60)
       DEF ConfirmCancel, RunStatus, AuditEventType
  <2>2. leases' \in [Runs -> Lease] /\ cancelRequested' \subseteq Runs
    BY <1>6, DropLeasesType, ZenonT(60) DEF ConfirmCancel
  <2> QED
    BY <1>6, <2>1, <2>2, Zenon DEF ConfirmCancel, ChainsOK
<1> QED
  BY <1>1, <1>2, <1>3, <1>4, <1>5, <1>6, ZenonT(60)

LEMMA RecoveryType ==
  ASSUME TypeOK, NEW now \in Time, RecoverExpiredLeases(now)
  PROVE  TypeOK'
<1> USE DEF TypeOK
<1> USE DEF ActiveWhenRecovered, FailedByRecovery
<1>0. now \in Nat /\ Recovered(now) \subseteq Runs
  BY TimeIsNat DEF Recovered, Expired
<1>1. \A r \in Runs : Advanced(runs[r], "Failed", now) \in Run
  BY <1>0, AdvancedType DEF RunStatus
<1>2. runs' \in [Runs -> Run]
  BY <1>1, Zenon DEF RecoverExpiredLeases
<1>3. AuditEvent("RunFailed", now) \in Event
  BY <1>0, AuditEventType_ DEF AuditEventType
<1>4. \A r \in ActiveWhenRecovered(now) : r \in Runs /\ Len(audits[r]) + 1 <= MaxSequence
  <2> TAKE r \in ActiveWhenRecovered(now)
  <2>1. r \in Expired(now) /\ r \in Runs
    BY <1>0 DEF Recovered
  <2>2. ~RecoveryFails(r, now)
    BY <2>1, RunStoreAssumption DEF Recovered, RunStoreAssumption
  <2> QED
    BY <1>3, <2>1, <2>2, Zenon DEF RecoveryFails, Fits
<1>5. ChainsOK'
  BY <1>3, <1>4 DEF RecoverExpiredLeases, ChainsOK
<1>6. leases' \in [Runs -> Lease] /\ cancelRequested' \subseteq Runs
  BY DropLeasesType, SMTT(30) DEF RecoverExpiredLeases
<1> QED
  BY <1>2, <1>5, <1>6, Zenon DEF RecoverExpiredLeases, ChainsOK

LEMMA ApprovalStepType ==
  ASSUME TypeOK, NEW now \in Time, ApprovalStep(now)
  PROVE  TypeOK'
<1> USE DEF TypeOK
<1>0. now \in Nat
  BY TimeIsNat
<1>1. ASSUME NEW p \in Approvals, NEW r \in Runs, NEW a \in Actions,
             NEW hash \in Hashes, NEW ttl \in ApprovalTTLs,
             CreateApproval(p, r, a, hash, now, ttl)
      PROVE  TypeOK'
  <2>1. <<AuditEvent("ApprovalRequested", now)>> \in Seq(Event)
    BY <1>0, AuditEventType_ DEF AuditEventType
  <2>2. ChainsOK'
    BY <1>1, <2>1, AppendType, Zenon DEF CreateApproval, ChainsOK
  <2>3. now + ttl \in Nat /\ runs[r].revision \in Nat
    BY <1>0, RunStoreAssumption DEF RunStoreAssumption, Run
  <2>4. approvals' \in [Approvals -> Approval \cup {NoApproval}]
    BY <1>0, <1>1, <2>3, ZenonT(60) DEF CreateApproval, Approval, ApprovalStatus
  <2> QED
    BY <1>1, <2>2, <2>4, ZenonT(60) DEF CreateApproval, ChainsOK
<1>2. ASSUME NEW p \in Approvals, NEW decision \in {"Approved", "Denied"},
             DecideApproval(p, decision, now)
      PROVE  TypeOK'
  <2>1. approvals[p] \in Approval
    BY <1>2, PresentApproval, Zenon DEF DecideApproval
  <2>2. ChainsOK'
    <3>1. \A type \in AuditEventType : <<AuditEvent(type, now)>> \in Seq(Event)
      BY <1>0, AuditEventType_
    <3> QED
      BY <1>2, <2>1, <3>1, AppendType, Zenon
         DEF DecideApproval, ChainsOK, AuditEventType, Approval
  <2>3. approvals' \in [Approvals -> Approval \cup {NoApproval}]
    BY <1>0, <1>2, <2>1, UpdatedApprovalType, Zenon DEF DecideApproval
  <2> QED
    BY <1>2, <2>2, <2>3, Zenon DEF DecideApproval, ChainsOK
<1>3. ASSUME NEW p \in Approvals, ExpireApproval(p, now)
      PROVE  TypeOK'
  <2>1. approvals[p] \in Approval
    BY <1>3, PresentApproval, Zenon DEF ExpireApproval
  <2>2. <<AuditEvent("ApprovalExpired", now)>> \in Seq(Event)
    BY <1>0, AuditEventType_ DEF AuditEventType
  <2>3. ChainsOK'
    BY <1>3, <2>1, <2>2, AppendType, Zenon DEF ExpireApproval, ChainsOK, Approval
  <2>4. approvals' \in [Approvals -> Approval \cup {NoApproval}]
    BY <1>0, <1>3, <2>1, UpdatedApprovalType, Zenon DEF ExpireApproval
  <2> QED
    BY <1>3, <2>3, <2>4, SMTT(30) DEF ExpireApproval, ChainsOK
<1>4. ASSUME NEW p \in Approvals, NEW action \in ActionRequest,
             ConsumeMismatched(p, action, now)
      PROVE  TypeOK'
  <2>1. approvals[p] \in Approval
    BY <1>4, PresentApproval, Zenon DEF ConsumeMismatched
  <2>2. <<AuditEvent("ApprovalBindingMismatch", now)>> \in Seq(Event)
    BY <1>0, AuditEventType_, SMTT(30) DEF AuditEventType
  <2> QED
    BY <1>4, <2>1, <2>2, AppendType, Zenon
       DEF ConsumeMismatched, ChainsOK, Approval
<1>5. ASSUME NEW p \in Approvals, NEW action \in ActionRequest,
             ConsumeApproval(p, action, now)
      PROVE  TypeOK'
  <2>1. approvals[p] \in Approval
    BY <1>5, PresentApproval, Zenon DEF ConsumeApproval
  <2>2. /\ AuditEvent("ApprovalConsumed", now) \in Event
        /\ AuditEvent("RuntimeStarted", now) \in Event
    BY <1>0, AuditEventType_ DEF AuditEventType
  <2>3. ChainsOK'
    <3>1. <<AuditEvent("ApprovalConsumed", now),
            AuditEvent("RuntimeStarted", now)>> \in Seq(Event)
      BY <2>2
    <3>2. approvals[p].run \in Runs
      BY <2>1 DEF Approval
    <3> QED
      BY <1>5, <3>1, <3>2, AppendType, Zenon DEF ConsumeApproval, ChainsOK
  <2>4. approvals' \in [Approvals -> Approval \cup {NoApproval}]
    BY <1>0, <1>5, <2>1, UpdatedApprovalType, Zenon, SMTT(30) DEF ConsumeApproval
  <2>5. actionClaims' \in [Actions -> Claim \cup {NoClaim}]
    BY <1>0, <1>5, SMTT(30) DEF ConsumeApproval, Claim, ActionRequest
  <2>6. runs' \in [Runs -> Run]
    <3>1. approvals[p].run \in Runs /\ "Running" \in RunStatus
      BY <2>1, SMTT(30) DEF Approval, RunStatus
    <3>2. runs' = [runs EXCEPT ![approvals[p].run] = Advanced(@, "Running", now)]
      BY <1>5, ZenonT(60) DEF ConsumeApproval
    <3>3. runs \in [Runs -> Run]
      BY DEF TypeOK
    <3> QED
      BY <1>0, <3>1, <3>2, <3>3, AdvancedType, SMTT(30)
  <2> QED
    BY <1>5, <2>3, <2>4, <2>5, <2>6, ZenonT(60) DEF ConsumeApproval, ChainsOK
<1>6. ASSUME NEW a \in Actions, NEW r \in Runs, NEW hash \in Hashes,
             ReconcileActionExecution(a, r, hash, now)
      PROVE  TypeOK'
  <2>1. <<SubjectEvent("ActionExecuted", now, a)>> \in Seq(Event)
    BY <1>0 DEF SubjectEvent, Event, AuditEventType
  <2> QED
    BY <1>6, <2>1, AppendType, Zenon, SMTT(30)
       DEF ReconcileActionExecution, ChainsOK
<1> QED
  BY <1>1, <1>2, <1>3, <1>4, <1>5, <1>6, ZenonT(30) DEF ApprovalStep

(* Every record keeps its type, no chain outgrows its sequence numbers,    *)
(* and every capability names a run, whatever calls reach the store.       *)
THEOREM TypeCorrect == Spec => []TypeOK
<1>1. Init => TypeOK
  BY RunStoreAssumption
     DEF Init, TypeOK, RunStoreAssumption, NoRun, Run, NoLease, Lease
<1>2. TypeOK /\ [Next]_vars => TypeOK'
  <2> SUFFICES ASSUME TypeOK, [Next]_vars
               PROVE  TypeOK'
    OBVIOUS
  <2>1. CASE UNCHANGED vars
    BY <2>1 DEF vars, TypeOK
  <2>2. ASSUME NEW now \in Time, LeaseStep(now)
        PROVE  TypeOK'
    BY <2>2, HandleStepType, RecoveryType DEF LeaseStep
  <2> QED
    BY <2>1, <2>2, RunStepType, ApprovalStepType DEF Next
<1> QED
  BY <1>1, <1>2, PTL DEF Spec

-----------------------------------------------------------------------------
(* The shapes a step can have.  Nineteen operations change the queue, the  *)
(* runs and the chains in six ways; the invariants are proved about those. *)

(* Events that neither end a run nor ask for its cancellation. *)
PlainEvent == AuditEventType \ (TerminalEvent \cup {"CancelRequested"})

Batch(now, types) == {events \in Seq(Event) :
  \A i \in DOMAIN events : events[i].at = now /\ events[i].type \in types}

(* Plain events are appended to one chain; no run or lease changes. *)
Annotates(now) ==
  /\ \E r \in Runs : \E events \in Batch(now, PlainEvent) : AppendEvents(r, events)
  /\ UNCHANGED <<runs, leases, cancelRequested, nextToken, handles>>

(* One run takes a legal transition, and its chain records it. *)
Moves(r, next, now) ==
  /\ CanTransitionTo(runs[r].status, next)
  /\ runs' = [runs EXCEPT ![r] = Advanced(@, next, now)]
  /\ IF IsTerminal(next)
     THEN \E type \in TerminalEvent :
            /\ type = "RunCompleted" <=> next = "Succeeded"
            /\ AppendEvents(r, <<AuditEvent(type, now)>>)
     ELSE \E events \in Batch(now, PlainEvent) :
            events # <<>> /\ AppendEvents(r, events)

LEMMA SingleBatch ==
  ASSUME NEW now \in Nat, NEW types, NEW type \in types, type \in AuditEventType
  PROVE  <<AuditEvent(type, now)>> \in Batch(now, types)
<1>1. <<AuditEvent(type, now)>> \in Seq(Event)
  BY AuditEventType_
<1> QED
  BY <1>1 DEF Batch, AuditEvent, SubjectEvent

LEMMA TransitionsAreMoves ==
  ASSUME TypeOK, NEW now \in Nat, NEW r \in Runs, NEW next \in RunStatus,
         NEW type \in AuditEventType, ApplyTransition(r, next, now, type),
         \/ type = TransitionEvent(next)
         \/ type = "CancelConfirmed" /\ next = "Cancelled"
         \/ type = "RuntimeSelected" /\ next = "Planning"
  PROVE  Moves(r, next, now)
<1>1. CASE IsTerminal(next)
  BY <1>1 DEF ApplyTransition, Moves, TransitionEvent, IsTerminal,
              TerminalStatus, TerminalEvent
<1>2. CASE ~IsTerminal(next)
  <2>1. type \in PlainEvent
    BY <1>2 DEF ApplyTransition, TransitionEvent, CanTransitionTo, IsTerminal,
                TerminalStatus, PlainEvent, TerminalEvent, AuditEventType
  <2>2. <<AuditEvent(type, now)>> \in Batch(now, PlainEvent)
    BY <2>1, SingleBatch
  <2> QED
    BY <1>2, <2>2, Zenon DEF ApplyTransition, Moves
<1> QED
  BY <1>1, <1>2

LEMMA ArtifactsAnnotate ==
  ASSUME TypeOK, NEW now \in Nat, NEW r \in Runs, NEW batch \in Batches,
         WriteArtifacts(r, batch, now)
  PROVE  \E events \in Batch(now, PlainEvent) : AppendEvents(r, events)
<1> DEFINE events == [i \in DOMAIN batch |->
                        SubjectEvent("ArtifactCreated", now, batch[i])]
<1>1. batch \in Seq(Paths)
  BY RunStoreAssumption DEF RunStoreAssumption
<1>2. events \in Seq(Event)
  BY <1>1, ArtifactEvents
<1>3. \A i \in DOMAIN events : events[i].at = now /\ events[i].type \in PlainEvent
  BY DEF SubjectEvent, PlainEvent, AuditEventType, TerminalEvent
<1>4. events \in Batch(now, PlainEvent)
  BY <1>2, <1>3 DEF Batch
<1> QED
  BY <1>4 DEF WriteArtifacts

(* TransitionRun, and RequestCancel of waiting work. *)
MovesFree(now) ==
  /\ \E r \in Runs, next \in RunStatus : ~Leased(r) /\ Moves(r, next, now)
  /\ UNCHANGED <<leases, cancelRequested, nextToken, handles>>

(* ConsumeApproval: the run may be leased, its lease is left alone. *)
MovesPastLease(now) ==
  /\ \E r \in Runs : Moves(r, "Running", now)
  /\ UNCHANGED <<leases, cancelRequested, nextToken, handles>>

(* ClaimNextRun. *)
Claims(r, now, ttl) ==
  /\ Queued(r)
  /\ Moves(r, "Planning", now)
  /\ leases' = [leases EXCEPT ![r] =
                  [token |-> nextToken, revision |-> runs'[r].revision,
                   acquired_at |-> now, expires_at |-> now + ttl,
                   cancel_requested |-> FALSE]]
  /\ nextToken' = nextToken + 1
  /\ handles' = handles \cup {HandleOf(r)}
  /\ UNCHANGED cancelRequested

(* TransitionLeasedRun. *)
MovesLeased(h, now) ==
  /\ Leased(h.run)
  /\ leases[h.run].token = h.token
  /\ runs[h.run].revision = h.revision
  /\ \E next \in RunStatus \ TerminalStatus : Moves(h.run, next, now)
  /\ leases' = [leases EXCEPT
                  ![h.run] = Refreshed(@, runs'[h.run].revision,
                                       h.run \in cancelRequested)]
  /\ handles' = handles \cup {HandleOf(h.run)}
  /\ UNCHANGED <<cancelRequested, nextToken>>

(* CompleteLeasedRun and ConfirmCancel. *)
EndsLeased(h, now) ==
  /\ Leased(h.run)
  /\ runs[h.run].revision = h.revision
  /\ leases[h.run].token = h.token
  /\ \E next \in TerminalStatus :
       /\ next = "Succeeded" => h.run \notin cancelRequested
       /\ Moves(h.run, next, now)
  /\ DropLeases({h.run})
  /\ UNCHANGED <<nextToken, handles>>

(* RequestCancel of a leased run. *)
Intends(r, now) ==
  /\ RecordCancelIntent(r, now)
  /\ UNCHANGED <<nextToken, handles>>

(* Creations, heartbeats and recoveries keep the shape they have. *)
Shapes(now) ==
  \/ Annotates(now)
  \/ \E r \in Runs : CreateRun(r, now)
  \/ MovesFree(now)
  \/ MovesPastLease(now)
  \/ \E r \in Runs, ttl \in LeaseTTLs : Claims(r, now, ttl)
  \/ \E h \in handles, ttl \in LeaseTTLs : HeartbeatLease(h, now, ttl)
  \/ \E h \in handles : MovesLeased(h, now)
  \/ \E h \in handles : EndsLeased(h, now)
  \/ \E r \in Runs : Intends(r, now)
  \/ RecoverExpiredLeases(now)

LEMMA RunStepShapes ==
  ASSUME TypeOK, NEW now \in Time, RunStep(now)
  PROVE  Shapes(now)
<1>0. now \in Nat
  BY TimeIsNat
<1>1. PICK r \in Runs :
        \/ CreateRun(r, now)
        \/ \E next \in RunStatus : TransitionRun(r, next, now)
        \/ \E type \in AppendableEvents : AppendAudit(r, type, now)
        \/ \E batch \in Batches : RecordArtifacts(r, batch, now)
        \/ \E ttl \in LeaseTTLs : ClaimNextRun(r, now, ttl)
        \/ RequestCancel(r, now)
  BY DEF RunStep
<1>2. CASE CreateRun(r, now)
  BY <1>2 DEF Shapes
<1>3. ASSUME NEW next \in RunStatus, TransitionRun(r, next, now)
      PROVE  Shapes(now)
  <2>1. Moves(r, next, now)
    BY <1>0, <1>3, TransitionsAreMoves, TransitionEventType DEF TransitionRun
  <2> QED
    BY <1>3, <2>1, Zenon
       DEF Shapes, MovesFree, TransitionRun, RejectUnboundLeasedWrite
<1>4. ASSUME NEW type \in AppendableEvents, AppendAudit(r, type, now)
      PROVE  Shapes(now)
  <2>1. type \in PlainEvent /\ type \in AuditEventType
    BY RunStoreAssumption DEF RunStoreAssumption, WorkerEvent, AuditEventType,
                              PlainEvent, TerminalEvent
  <2>2. <<AuditEvent(type, now)>> \in Batch(now, PlainEvent)
    BY <1>0, <2>1, SingleBatch
  <2> QED
    BY <1>4, <2>2, Zenon DEF Shapes, Annotates, AppendAudit
<1>5. ASSUME NEW batch \in Batches, RecordArtifacts(r, batch, now)
      PROVE  Shapes(now)
  BY <1>0, <1>5, ArtifactsAnnotate, Zenon DEF Shapes, Annotates, RecordArtifacts
<1>6. ASSUME NEW ttl \in LeaseTTLs, ClaimNextRun(r, now, ttl)
      PROVE  Shapes(now)
  <2>1. Moves(r, "Planning", now)
    BY <1>0, <1>6, TransitionsAreMoves, Zenon DEF ClaimNextRun, RunStatus, AuditEventType
  <2>2. Claims(r, now, ttl)
    BY <1>6, <2>1, Zenon DEF Claims, ClaimNextRun, Oldest
  <2> QED
    BY <2>2, SMTT(30) DEF Shapes
<1>7. CASE RequestCancel(r, now)
  <2>1. CASE CancelWaiting(r, now)
    <3>1. Moves(r, "Cancelled", now) /\ "Cancelled" \in RunStatus
      BY <1>0, <2>1, TransitionsAreMoves, Zenon
         DEF CancelWaiting, RunStatus, AuditEventType
    <3> QED
      BY <1>7, <2>1, <3>1, Zenon DEF Shapes, MovesFree, RequestCancel, CancelWaiting
  <2>2. CASE RecordCancelIntent(r, now)
    BY <1>7, <2>2, SMTT(30) DEF Shapes, Intends, RequestCancel
  <2> QED
    BY <1>7, <2>1, <2>2 DEF RequestCancel
<1> QED
  BY <1>1, <1>2, <1>3, <1>4, <1>5, <1>6, <1>7, Zenon

LEMMA LeaseStepShapes ==
  ASSUME TypeOK, NEW now \in Time, LeaseStep(now)
  PROVE  Shapes(now)
<1>0. now \in Nat /\ \A h \in handles : h.run \in Runs
  BY TimeIsNat DEF TypeOK, Handle
<1>1. ASSUME NEW h \in handles, NEW next \in RunStatus,
             TransitionLeasedRun(h, next, now)
      PROVE  Shapes(now)
  <2>1. Moves(h.run, next, now) /\ next \notin TerminalStatus
    BY <1>0, <1>1, TransitionsAreMoves, TransitionEventType, SMTT(30)
       DEF TransitionLeasedRun, IsTerminal
  <2>2. MovesLeased(h, now)
    BY <1>1, <2>1, Zenon DEF MovesLeased, TransitionLeasedRun, ValidateLease
  <2> QED
    BY <2>2 DEF Shapes
<1>2. ASSUME NEW h \in handles, NEW next \in RunStatus,
             CompleteLeasedRun(h, next, now)
      PROVE  Shapes(now)
  <2>1. Moves(h.run, next, now)
    BY <1>0, <1>2, TransitionsAreMoves, TransitionEventType, Zenon
       DEF CompleteLeasedRun
  <2>2. next \in TerminalStatus /\ (next = "Succeeded" => h.run \notin cancelRequested)
    BY <1>2 DEF CompleteLeasedRun, MayCompleteLeased, TerminalStatus
  <2>3. EndsLeased(h, now)
    BY <1>2, <2>1, <2>2, Zenon DEF EndsLeased, CompleteLeasedRun, ValidateLease
  <2> QED
    BY <2>3 DEF Shapes
<1>3. ASSUME NEW h \in handles, NEW type \in AppendableEvents,
             AppendLeasedRuntimeAudit(h, type, now)
      PROVE  Shapes(now)
  <2>1. type \in PlainEvent /\ type \in AuditEventType
    BY <1>3 DEF AppendLeasedRuntimeAudit, WorkerEvent, AuditEventType,
                PlainEvent, TerminalEvent
  <2>2. <<AuditEvent(type, now)>> \in Batch(now, PlainEvent)
    BY <1>0, <2>1, SingleBatch
  <2> QED
    BY <1>0, <1>3, <2>2, Zenon DEF Shapes, Annotates, AppendLeasedRuntimeAudit
<1>4. ASSUME NEW h \in handles, NEW batch \in Batches,
             RecordLeasedArtifacts(h, batch, now)
      PROVE  Shapes(now)
  BY <1>0, <1>4, ArtifactsAnnotate, Zenon DEF Shapes, Annotates, RecordLeasedArtifacts
<1>5. ASSUME NEW h \in handles, ConfirmCancel(h, now)
      PROVE  Shapes(now)
  <2>1. Moves(h.run, "Cancelled", now)
    BY <1>0, <1>5, TransitionsAreMoves, ZenonT(60)
       DEF ConfirmCancel, RunStatus, AuditEventType
  <2>2. EndsLeased(h, now)
    BY <1>5, <2>1, Zenon DEF EndsLeased, ConfirmCancel, TerminalStatus
  <2> QED
    BY <2>2, SMTT(30) DEF Shapes
<1> QED
  BY <1>1, <1>2, <1>3, <1>4, <1>5, Zenon DEF LeaseStep, Shapes

LEMMA ApprovalStepShapes ==
  ASSUME TypeOK, NEW now \in Time, ApprovalStep(now)
  PROVE  Shapes(now)
<1>0. now \in Nat
  BY TimeIsNat
<1>1. ASSUME NEW type \in PlainEvent
      PROVE  <<AuditEvent(type, now)>> \in Batch(now, PlainEvent)
  BY <1>0, SingleBatch DEF PlainEvent
<1>2. {"ApprovalRequested", "ApprovalApproved", "ApprovalDenied",
       "ApprovalExpired", "ApprovalBindingMismatch"} \subseteq PlainEvent
  BY DEF PlainEvent, AuditEventType, TerminalEvent
<1>3. ASSUME NEW p \in Approvals, approvals[p].status # "Absent"
      PROVE  approvals[p].run \in Runs
  BY <1>3, PresentApproval, SMTT(30) DEF Approval
<1>4. ASSUME NEW p \in Approvals, NEW r \in Runs, NEW a \in Actions,
             NEW hash \in Hashes, NEW ttl \in ApprovalTTLs,
             CreateApproval(p, r, a, hash, now, ttl)
      PROVE  Shapes(now)
  BY <1>1, <1>2, <1>4, ZenonT(60) DEF CreateApproval, Shapes, Annotates
<1>5. ASSUME NEW p \in Approvals, NEW decision \in {"Approved", "Denied"},
             DecideApproval(p, decision, now)
      PROVE  Shapes(now)
  BY <1>1, <1>2, <1>3, <1>5, ZenonT(60) DEF DecideApproval, Shapes, Annotates
<1>6. ASSUME NEW p \in Approvals, ExpireApproval(p, now)
      PROVE  Shapes(now)
  BY <1>1, <1>2, <1>3, <1>6, ZenonT(60) DEF ExpireApproval, Shapes, Annotates
<1>7. ASSUME NEW p \in Approvals, NEW action \in ActionRequest,
             ConsumeMismatched(p, action, now)
      PROVE  Shapes(now)
  BY <1>1, <1>2, <1>3, <1>7, ZenonT(60) DEF ConsumeMismatched, Shapes, Annotates
<1>8. ASSUME NEW p \in Approvals, NEW action \in ActionRequest,
             ConsumeApproval(p, action, now)
      PROVE  Shapes(now)
  <2> DEFINE events == <<AuditEvent("ApprovalConsumed", now),
                         AuditEvent("RuntimeStarted", now)>>
  <2>1. approvals[p].run \in Runs
    BY <1>3, <1>8, Zenon DEF ConsumeApproval
  <2>2. /\ AuditEvent("ApprovalConsumed", now) \in Event
        /\ AuditEvent("RuntimeStarted", now) \in Event
    BY <1>0, AuditEventType_ DEF AuditEventType
  <2>3. events \in Batch(now, PlainEvent) /\ events # <<>>
    BY <2>2, SMTT(30)
       DEF Batch, AuditEvent, SubjectEvent, PlainEvent, AuditEventType,
                TerminalEvent
  <2>4. AppendEvents(approvals[p].run, events)
    BY <1>8, SMTT(30) DEF ConsumeApproval
  <2>5. CanTransitionTo(runs[approvals[p].run].status, "Running")
    BY <1>8, ZenonT(60) DEF ConsumeApproval, ApprovalWindow, CanTransitionTo
  <2>6. runs' = [runs EXCEPT ![approvals[p].run] = Advanced(@, "Running", now)]
    BY <1>8, Zenon DEF ConsumeApproval
  <2> HIDE DEF events
  <2>7. Moves(approvals[p].run, "Running", now)
    BY <2>3, <2>4, <2>5, <2>6, Zenon DEF Moves, IsTerminal, TerminalStatus
  <2> QED
    BY <1>8, <2>1, <2>7, SMTT(30) DEF ConsumeApproval, Shapes, MovesPastLease
<1>9. ASSUME NEW a \in Actions, NEW r \in Runs, NEW hash \in Hashes,
             ReconcileActionExecution(a, r, hash, now)
      PROVE  Shapes(now)
  <2>1. <<SubjectEvent("ActionExecuted", now, a)>> \in Batch(now, PlainEvent)
    BY <1>0 DEF Batch, SubjectEvent, Event, PlainEvent, AuditEventType,
                TerminalEvent
  <2> QED
    BY <1>9, <2>1, Zenon DEF ReconcileActionExecution, Shapes, Annotates
<1> QED
  BY <1>4, <1>5, <1>6, <1>7, <1>8, <1>9, ZenonT(30) DEF ApprovalStep

(* Every step of the store has one of the shapes. *)
LEMMA NextShapes ==
  ASSUME TypeOK, Next
  PROVE  \E now \in Time : Shapes(now)
BY RunStepShapes, LeaseStepShapes, ApprovalStepShapes DEF Next

-----------------------------------------------------------------------------
(* What the shapes do to one chain and to one run record. *)

(* What AppendEvents does to one chain; a recovery pass does it to several. *)
AppendedTo(r, events) ==
  /\ \A i \in DOMAIN events : events[i].at >= LastAuditAt(r)
  /\ audits'[r] = audits[r] \o events

LEMMA AppendOne ==
  ASSUME TypeOK, NEW r \in Runs, NEW events \in Seq(Event), AppendEvents(r, events)
  PROVE  /\ AppendedTo(r, events)
         /\ \A q \in Runs : q # r => audits'[q] = audits[q]
BY Zenon DEF AppendEvents, AppendedTo, TypeOK

(* Where the events of an append end up. *)
LEMMA AppendIndex ==
  ASSUME TypeOK, NEW r \in Runs, NEW events \in Seq(Event), AppendedTo(r, events)
  PROVE  LET n == Len(audits[r])
         IN /\ n \in Nat /\ DOMAIN audits[r] = 1..n
            /\ Len(events) \in Nat /\ DOMAIN events = 1..Len(events)
            /\ Len(audits'[r]) = n + Len(events)
            /\ DOMAIN audits'[r] = 1..(n + Len(events))
            /\ \A i \in 1..n : audits'[r][i] = audits[r][i]
            /\ \A i \in DOMAIN events : audits'[r][n + i] = events[i]
            /\ \A i \in DOMAIN audits'[r] : i > n =>
                 i - n \in DOMAIN events /\ audits'[r][i] = events[i - n]
<1>1. audits[r] \in Seq(Event)
  BY DEF TypeOK
<1>2. audits'[r] = audits[r] \o events
  BY DEF AppendedTo
<1> QED
  BY <1>1, <1>2, SMTT(30)

(* Every event of the longer chain is an old one in its place or an added one after them. *)
LEMMA AppendShape ==
  ASSUME TypeOK, NEW r \in Runs, NEW events \in Seq(Event), AppendedTo(r, events)
  PROVE  LET n == Len(audits[r])
         IN /\ \A i \in DOMAIN audits[r] :
                 i \in DOMAIN audits'[r] /\ audits'[r][i] = audits[r][i]
            /\ \A i \in DOMAIN events :
                 n + i \in DOMAIN audits'[r] /\ audits'[r][n + i] = events[i]
            /\ \A i \in DOMAIN audits'[r] :
                 \/ i \in DOMAIN audits[r] /\ i <= n /\ audits'[r][i] = audits[r][i]
                 \/ i > n /\ \E j \in DOMAIN events : audits'[r][i] = events[j]
<1> DEFINE n == Len(audits[r])
           m == Len(events)
<1>1. n \in Nat /\ m \in Nat
  BY AppendIndex, Zenon
<1>2. /\ DOMAIN audits[r] = 1..n /\ DOMAIN events = 1..m /\ DOMAIN audits'[r] = 1..(n + m)
      /\ \A i \in 1..n : audits'[r][i] = audits[r][i]
      /\ \A i \in 1..m : audits'[r][n + i] = events[i]
      /\ \A i \in 1..(n + m) : i > n => i - n \in 1..m /\ audits'[r][i] = events[i - n]
  <2>1. /\ DOMAIN audits[r] = 1..n /\ DOMAIN events = 1..m /\ DOMAIN audits'[r] = 1..(n + m)
        /\ \A i \in 1..n : audits'[r][i] = audits[r][i]
    BY AppendIndex, Zenon
  <2>2. \A i \in DOMAIN events : audits'[r][n + i] = events[i]
    BY AppendIndex, Zenon
  <2>3. \A i \in DOMAIN audits'[r] : i > n =>
          i - n \in DOMAIN events /\ audits'[r][i] = events[i - n]
    BY AppendIndex, Zenon
  <2> HIDE DEF n, m
  <2> QED
    BY <2>1, <2>2, <2>3, Zenon
<1> HIDE DEF n, m
<1>3. /\ \A i \in 1..n : i \in 1..(n + m)
      /\ \A i \in 1..m : n + i \in 1..(n + m)
      /\ \A i \in 1..(n + m) : (i \in 1..n /\ i <= n) \/ i > n
  BY <1>1
<1>4. \A i \in 1..(n + m) : \/ i \in 1..n /\ i <= n /\ audits'[r][i] = audits[r][i]
                            \/ i > n /\ \E j \in 1..m : audits'[r][i] = events[j]
  BY <1>2, <1>3, Zenon
<1> QED
  BY <1>2, <1>3, <1>4, Zenon DEF n

(* What an append adds to the kinds of event a chain has. *)
LEMMA HasAppended ==
  ASSUME TypeOK, NEW r \in Runs, NEW events \in Seq(Event),
         AppendedTo(r, events), NEW type
  PROVE  Has(r, type)' <=> \/ Has(r, type)
                           \/ \E i \in DOMAIN events : events[i].type = type
<1>0. /\ \A i \in DOMAIN audits[r] : i \in DOMAIN audits'[r] /\ audits'[r][i] = audits[r][i]
      /\ \A i \in DOMAIN events : \E j \in DOMAIN audits'[r] : audits'[r][j] = events[i]
      /\ \A i \in DOMAIN audits'[r] :
           \/ i \in DOMAIN audits[r] /\ audits'[r][i] = audits[r][i]
           \/ \E j \in DOMAIN events : audits'[r][i] = events[j]
  BY AppendShape, ZenonT(60)
<1>1. ASSUME Has(r, type)'
      PROVE  Has(r, type) \/ \E i \in DOMAIN events : events[i].type = type
  <2>1. PICK i \in DOMAIN audits'[r] : audits'[r][i].type = type
    BY <1>1, Zenon DEF Has
  <2> QED
    BY <1>0, <2>1, Zenon DEF Has
<1>2. ASSUME Has(r, type)
      PROVE  Has(r, type)'
  <2>1. PICK i \in DOMAIN audits[r] : audits[r][i].type = type
    BY <1>2, Zenon DEF Has
  <2> QED
    BY <1>0, <2>1, Zenon DEF Has
<1>3. ASSUME NEW i \in DOMAIN events, events[i].type = type
      PROVE  Has(r, type)'
  <2>1. PICK j \in DOMAIN audits'[r] : audits'[r][j] = events[i]
    BY <1>0, Zenon
  <2> QED
    BY <1>3, <2>1, Zenon DEF Has
<1> QED
  BY <1>1, <1>2, <1>3, Zenon

LEMMA HasAppend ==
  ASSUME TypeOK, NEW r \in Runs, NEW events \in Seq(Event),
         AppendEvents(r, events), NEW q \in Runs, NEW type
  PROVE  Has(q, type)' <=> \/ Has(q, type)
                           \/ q = r /\ \E i \in DOMAIN events : events[i].type = type
<1>1. CASE q # r
  BY <1>1, AppendOne, Zenon DEF Has
<1>2. CASE q = r
  <2>1. AppendedTo(r, events)
    BY AppendOne, Zenon
  <2>2. Has(r, type)' <=> Has(r, type) \/ \E i \in DOMAIN events : events[i].type = type
    BY <2>1, HasAppended, ZenonT(60)
  <2> QED
    BY <1>2, <2>2, Zenon
<1> QED
  BY <1>1, <1>2, Zenon

LEMMA PlainKeepsIntent ==
  ASSUME TypeOK, NEW r \in Runs, NEW now, NEW types, "CancelRequested" \notin types,
         NEW events \in Batch(now, types), AppendEvents(r, events), NEW q \in Runs
  PROVE  Has(q, "CancelRequested")' <=> Has(q, "CancelRequested")
<1>1. events \in Seq(Event) /\ \A i \in DOMAIN events : events[i].type # "CancelRequested"
  BY DEF Batch
<1> QED
  BY <1>1, HasAppend, ZenonT(60)

(* What the queue invariant needs to know of a step that moves run r: the  *)
(* revision counts it, nothing returns to Queued, and no intent appears.   *)
Moved(r, next) ==
  /\ runs'[r].status = next
  /\ runs'[r].revision = runs[r].revision + 1
  /\ \A q \in Runs : q # r => runs'[q] = runs[q]
  /\ runs[r].status \in {"Queued", "Planning", "AwaitingApproval", "Running"}
  /\ next # "Queued"
  /\ \A q \in Runs : Has(q, "CancelRequested")' <=> Has(q, "CancelRequested")

LEMMA MoveFacts ==
  ASSUME TypeOK, NEW now \in Nat, NEW r \in Runs, NEW next \in RunStatus,
         Moves(r, next, now)
  PROVE  Moved(r, next)
<1>1. /\ runs'[r].status = next
      /\ runs'[r].revision = runs[r].revision + 1
      /\ \A q \in Runs : q # r => runs'[q] = runs[q]
  <2>1. /\ runs[r] \in Run /\ runs'[r] = Advanced(runs[r], next, now)
        /\ \A q \in Runs : q # r => runs'[q] = runs[q]
    BY Zenon DEF Moves, TypeOK
  <2>2. /\ Advanced(runs[r], next, now).status = next
        /\ Advanced(runs[r], next, now).revision = runs[r].revision + 1
    BY <2>1, AdvancedType
  <2> QED
    BY <2>1, <2>2, Zenon
<1>2. /\ runs[r].status \in {"Queued", "Planning", "AwaitingApproval", "Running"}
      /\ next # "Queued"
  BY ZenonT(60) DEF Moves, CanTransitionTo, TerminalStatus
<1>3. ASSUME NEW q \in Runs
      PROVE  Has(q, "CancelRequested")' <=> Has(q, "CancelRequested")
  <2>1. CASE IsTerminal(next)
    <3>1. PICK type \in TerminalEvent : AppendEvents(r, <<AuditEvent(type, now)>>)
      BY <2>1 DEF Moves
    <3>2. <<AuditEvent(type, now)>> \in Batch(now, TerminalEvent)
      BY SingleBatch, Zenon DEF TerminalEvent, AuditEventType
    <3>3. "CancelRequested" \notin TerminalEvent
      BY DEF TerminalEvent
    <3> QED
      BY <3>1, <3>2, <3>3, PlainKeepsIntent
  <2>2. CASE ~IsTerminal(next)
    <3>1. "CancelRequested" \notin PlainEvent
      BY SMTT(30) DEF PlainEvent
    <3> QED
      BY <2>2, <3>1, PlainKeepsIntent, Zenon DEF Moves
  <2> QED
    BY <2>1, <2>2
<1> QED
  BY <1>1, <1>2, <1>3, ZenonT(60) DEF Moved

LEMMA RecoveryFacts ==
  ASSUME TypeOK, LeaseOwnsActiveRun, NEW now \in Nat, RecoverExpiredLeases(now)
  PROVE  /\ \A r \in Recovered(now) :
              /\ r \in Runs
              /\ Leased(r)
              /\ ~IsTerminal(runs[r].status)
              /\ EnsureAuditTime(r, now)
              /\ Fits(r, <<AuditEvent("RunFailed", now)>>)
              /\ runs'[r] = Advanced(runs[r], "Failed", now)
              /\ audits'[r] = Append(audits[r], AuditEvent("RunFailed", now))
              /\ leases'[r] = NoLease
         /\ \A r \in Runs \ Recovered(now) :
              runs'[r] = runs[r] /\ audits'[r] = audits[r] /\ leases'[r] = leases[r]
         /\ cancelRequested' = cancelRequested \ Recovered(now)
<1>1. ASSUME NEW r \in Recovered(now)
      PROVE  /\ r \in Runs /\ Leased(r)
             /\ ~IsTerminal(runs[r].status)
             /\ ~RecoveryFails(r, now)
  <2>1. r \in Runs /\ Leased(r) /\ r \in Expired(now)
    BY ZenonT(60) DEF Recovered, Expired
  <2>2. ~RecoveryFails(r, now)
    BY <2>1, RunStoreAssumption DEF Recovered, RunStoreAssumption
  <2> QED
    BY <2>1, <2>2, Zenon DEF LeaseOwnsActiveRun, IsTerminal, TerminalStatus
<1> QED
  BY <1>1, ZenonT(60) DEF RecoverExpiredLeases, ActiveWhenRecovered, FailedByRecovery,
              RecoveryFails, DropLeases

-----------------------------------------------------------------------------
(* Leases and cancellation.  CancelBlocksSuccess is not inductive: what    *)
(* keeps a run with an intent from succeeding is that the intent stays in  *)
(* cancelRequested until the run has ended otherwise.  ClaimedOnce needs   *)
(* that a run with a handle is past Queued, for ever, and that tokens are  *)
(* fresh.                                                                  *)

CancelRemembered ==
  \A r \in Runs : Has(r, "CancelRequested") =>
    r \in cancelRequested \/ runs[r].status \in {"Failed", "Cancelled", "TimedOut"}

HandlesFollowLeases ==
  /\ \A r \in Runs : leases[r].token < nextToken
  /\ \A h \in handles :
       /\ 0 < h.token /\ h.token < nextToken
       /\ runs[h.run].status \notin {"Absent", "Queued"}
       /\ Leased(h.run) => /\ h.token = leases[h.run].token
                           /\ h.revision <= leases[h.run].revision

(* Only ConsumeApproval moves a leased run past its lease, and it leaves   *)
(* the run Running, where nobody without the revision can move it.         *)
OvertakenRuns ==
  \A r \in Runs : Leased(r) /\ leases[r].revision # runs[r].revision =>
    runs[r].status = "Running"

QueueInv ==
  /\ LeaseOwnsActiveRun
  /\ OvertakenRuns
  /\ CancelRemembered
  /\ HandlesFollowLeases
  /\ ClaimedOnce

LEMMA QueueInvInit == Init => QueueInv
<1> SUFFICES ASSUME Init PROVE QueueInv
  OBVIOUS
<1>1. ASSUME NEW r \in Runs
      PROVE  leases[r].token = 0 /\ leases[r].cancel_requested = FALSE /\ audits[r] = <<>>
  BY Zenon DEF Init, NoLease
<1>2. DOMAIN <<>> = {} /\ 0 < 1
  OBVIOUS
<1>3. ASSUME NEW r \in Runs PROVE ~Leased(r) /\ \A type : ~Has(r, type)
  BY <1>1, <1>2, Zenon DEF Leased, Has
<1>4. handles = {} /\ cancelRequested = {} /\ nextToken = 1
  BY Zenon DEF Init
<1> QED
  BY <1>1, <1>2, <1>3, <1>4, Zenon
     DEF QueueInv, LeaseOwnsActiveRun, OvertakenRuns, CancelRemembered, HandlesFollowLeases,
         ClaimedOnce

(* What the types give each case below. *)
LEMMA QueueTypes ==
  ASSUME TypeOK
  PROVE  /\ \A h \in handles : h \in Handle /\ h.run \in Runs
         /\ \A r \in Runs : runs[r] \in Run /\ leases[r] \in Lease
         /\ nextToken \in Nat /\ nextToken > 0
BY SMTT(30) DEF TypeOK, Handle

(* Every shape of step keeps the invariant of the queue. *)
LEMMA QueueAnnotates ==
  ASSUME TypeOK, TypeOK', QueueInv, NEW now \in Time,
         Annotates(now)
  PROVE  QueueInv'
<1> USE DEF QueueInv
<1> QED
  <2>1. \A q \in Runs : Has(q, "CancelRequested")' <=> Has(q, "CancelRequested")
    BY PlainKeepsIntent DEF Annotates, PlainEvent
  <2> QED
    BY <2>1, ZenonT(60)
       DEF Annotates, LeaseOwnsActiveRun, OvertakenRuns, CancelRemembered,
                      HandlesFollowLeases, ClaimedOnce, Leased

LEMMA QueueCreates ==
  ASSUME TypeOK, TypeOK', QueueInv, NEW now \in Time,
         NEW r \in Runs, CreateRun(r, now)
  PROVE  QueueInv'
<1> USE DEF QueueInv
<1>a. /\ \A g \in handles : g \in Handle /\ g.run \in Runs
      /\ \A q \in Runs : runs[q] \in Run /\ leases[q] \in Lease
      /\ nextToken \in Nat /\ nextToken > 0
  BY QueueTypes, Zenon
<1> QED
  <2>1. /\ ~Leased(r) /\ \A h \in handles : h.run # r
        /\ runs'[r].status = "Queued"
        /\ \A q \in Runs : q # r => runs'[q] = runs[q] /\ audits'[q] = audits[q]
    <3>1. runs[r].status = "Absent"
      BY DEF CreateRun, Exists
    <3>2. ~Leased(r) /\ \A h \in handles : h.run # r
      BY <3>1, Zenon DEF LeaseOwnsActiveRun, HandlesFollowLeases
    <3>3. [NoRun EXCEPT !.status = "Queued", !.created_at = now,
                        !.updated_at = now].status = "Queued"
      BY DEF NoRun
    <3> QED
      BY <3>2, <3>3, Zenon DEF CreateRun, TypeOK
  <2>2. ~Has(r, "CancelRequested")'
    BY DEF CreateRun, Has, AuditEvent, SubjectEvent, TypeOK
  <2>3. CancelRemembered'
    BY <2>1, <2>2 DEF CreateRun, CancelRemembered, Has
  <2>4. LeaseOwnsActiveRun' /\ OvertakenRuns'
    BY <2>1 DEF CreateRun, LeaseOwnsActiveRun, OvertakenRuns, Leased
  <2>5. HandlesFollowLeases' /\ ClaimedOnce'
    BY <1>a, <2>1, Zenon DEF CreateRun, HandlesFollowLeases, ClaimedOnce, Leased
  <2> QED
    BY <2>3, <2>4, <2>5, SMTT(30)

LEMMA QueueMovesFree ==
  ASSUME TypeOK, TypeOK', QueueInv, NEW now \in Time,
         MovesFree(now)
  PROVE  QueueInv'
<1> USE DEF QueueInv
<1>0. now \in Nat
  BY TimeIsNat
<1>a. /\ \A g \in handles : g \in Handle /\ g.run \in Runs
      /\ \A q \in Runs : runs[q] \in Run /\ leases[q] \in Lease
      /\ nextToken \in Nat /\ nextToken > 0
  BY QueueTypes, Zenon
<1> QED
  <2>1. PICK r \in Runs, next \in RunStatus : ~Leased(r) /\ Moves(r, next, now)
    BY SMTT(30) DEF MovesFree
  <2>a. Moved(r, next)
    BY <1>0, <2>1, MoveFacts, ZenonT(60)
  <2>b. next # "Absent" /\ UNCHANGED <<leases, cancelRequested, nextToken, handles>>
    BY ZenonT(60) DEF MovesFree, RunStatus
  <2>c. r \notin cancelRequested
    BY <2>1, Zenon DEF LeaseOwnsActiveRun
  <2>d. /\ runs[r].status \notin {"Failed", "Cancelled", "TimedOut"}
        /\ \A q \in Runs : Leased(q)' <=> Leased(q)
    BY <2>a, <2>b, Zenon DEF Moved, Leased
  <2>2. CancelRemembered'
    BY <2>a, <2>b, <2>c, <2>d, Zenon DEF Moved, CancelRemembered
  <2>3. LeaseOwnsActiveRun' /\ OvertakenRuns'
    BY <2>1, <2>a, <2>b, <2>d, ZenonT(60) DEF Moved, LeaseOwnsActiveRun, OvertakenRuns
  <2>4. HandlesFollowLeases'
    BY <1>a, <2>1, <2>a, <2>b, <2>d, Zenon DEF Moved, HandlesFollowLeases
  <2>5. ClaimedOnce'
    BY <2>b, Zenon DEF ClaimedOnce
  <2> QED
    BY <2>2, <2>3, <2>4, <2>5, ZenonT(60)

LEMMA QueueMovesPast ==
  ASSUME TypeOK, TypeOK', QueueInv, NEW now \in Time,
         MovesPastLease(now)
  PROVE  QueueInv'
<1> USE DEF QueueInv
<1>0. now \in Nat
  BY TimeIsNat
<1>a. /\ \A g \in handles : g \in Handle /\ g.run \in Runs
      /\ \A q \in Runs : runs[q] \in Run /\ leases[q] \in Lease
      /\ nextToken \in Nat /\ nextToken > 0
  BY QueueTypes, Zenon
<1> QED
  <2>1. PICK r \in Runs : Moves(r, "Running", now)
    BY DEF MovesPastLease
  <2>2. "Running" \in RunStatus
    BY DEF RunStatus
  <2>a. Moved(r, "Running")
    BY <1>0, <2>1, <2>2, MoveFacts, ZenonT(60)
  <2>b. UNCHANGED <<leases, cancelRequested, nextToken, handles>>
    BY ZenonT(60) DEF MovesPastLease
  <2>3. CancelRemembered'
    BY <2>a, <2>b, ZenonT(60) DEF Moved, CancelRemembered
  <2>4. LeaseOwnsActiveRun' /\ OvertakenRuns'
    <3>1. runs[r].revision \in Nat /\ leases[r].revision \in Nat
      BY <1>a, SMTT(30) DEF Run, Lease
    <3>2. leases[r].revision <= runs[r].revision => leases[r].revision <= runs'[r].revision
      BY <2>a, <3>1, Counting, Zenon DEF Moved
    <3>3. LeaseOwnsActiveRun'
      BY <2>a, <2>b, <3>2, Zenon DEF Moved, LeaseOwnsActiveRun, Leased
    <3>4. OvertakenRuns'
      BY <2>a, <2>b, Zenon DEF Moved, OvertakenRuns, Leased
    <3> QED
      BY <3>3, <3>4, Zenon
  <2>5. HandlesFollowLeases'
    BY <1>a, <2>a, <2>b, Zenon DEF Moved, HandlesFollowLeases, Leased
  <2>6. ClaimedOnce'
    BY <2>b, Zenon DEF ClaimedOnce
  <2> QED
    BY <2>3, <2>4, <2>5, <2>6, ZenonT(60)

LEMMA QueueClaims ==
  ASSUME TypeOK, TypeOK', QueueInv, NEW now \in Time,
         NEW r \in Runs, NEW ttl \in LeaseTTLs, Claims(r, now, ttl)
  PROVE  QueueInv'
<1>1. now \in Nat /\ ttl \in Nat /\ ttl > 0 /\ now < now + ttl
  BY TimeIsNat, RunStoreAssumption, SMTT(30) DEF RunStoreAssumption
<1>2. nextToken \in Nat /\ 0 < nextToken /\ nextToken < nextToken + 1
  BY QueueTypes, SMTT(30)
<1>3. ASSUME NEW n \in Nat, n < nextToken
      PROVE  n < nextToken + 1 /\ n # nextToken
  BY <1>2, <1>3, SMTT(30)
<1>4. /\ \A h \in handles : h.run \in Runs /\ h.token \in Nat
      /\ \A q \in Runs : leases[q].token \in Nat
      /\ runs'[r].revision \in Nat
  BY Zenon DEF TypeOK, Handle, Lease, Run
<1>5. runs'[r].revision <= runs'[r].revision
  BY <1>4, SMTT(30)
<1>6. Moves(r, "Planning", now) /\ runs[r].status = "Queued" /\ ~Leased(r)
  BY Zenon DEF Claims, Queued
<1>7. Moved(r, "Planning")
  <2>1. "Planning" \in RunStatus
    BY Zenon DEF RunStatus
  <2> QED
    BY <1>1, <1>6, <2>1, MoveFacts, Zenon
<1>8. /\ leases'[r].token = nextToken
      /\ leases'[r].revision = runs'[r].revision
      /\ leases'[r].acquired_at = now
      /\ leases'[r].expires_at = now + ttl
      /\ leases'[r].cancel_requested = FALSE
      /\ \A q \in Runs : q # r => leases'[q] = leases[q]
      /\ nextToken' = nextToken + 1
      /\ cancelRequested' = cancelRequested
  BY Zenon DEF Claims, TypeOK
<1>9. /\ handles' = handles \cup {HandleOf(r)} /\ HandleOf(r).run = r
      /\ HandleOf(r).token = nextToken /\ HandleOf(r).revision = runs'[r].revision
  BY <1>8, Zenon DEF Claims, HandleOf
<1>10. /\ runs'[r].status = "Planning"
       /\ \A q \in Runs : q # r => /\ runs'[q] = runs[q] /\ leases'[q] = leases[q]
                                   /\ Leased(q)' <=> Leased(q)
  BY <1>7, <1>8, Zenon DEF Moved, Leased
<1>11. r \notin cancelRequested /\ \A h \in handles : h.run # r
  BY <1>6, Zenon DEF QueueInv, LeaseOwnsActiveRun, HandlesFollowLeases
<1>12. CancelRemembered'
  <2>1. ~Has(r, "CancelRequested")
    BY <1>6, <1>11, Zenon DEF QueueInv, CancelRemembered
  <2> QED
    BY <1>7, <1>8, <1>10, <2>1, Zenon DEF QueueInv, CancelRemembered, Moved
<1>13. LeaseOwnsActiveRun'
  BY <1>1, <1>5, <1>8, <1>10, <1>11, ZenonT(60) DEF QueueInv, LeaseOwnsActiveRun
<1>14. OvertakenRuns'
  BY <1>8, <1>10, ZenonT(60) DEF QueueInv, OvertakenRuns
<1>15. \A q \in Runs : leases'[q].token < nextToken'
  BY <1>2, <1>3, <1>4, <1>8, Zenon DEF QueueInv, HandlesFollowLeases
<1>16. ASSUME NEW h \in handles
       PROVE  /\ h.token # nextToken /\ 0 < h.token /\ h.token < nextToken'
              /\ runs'[h.run].status \notin {"Absent", "Queued"}
              /\ Leased(h.run)' => /\ h.token = leases'[h.run].token
                                   /\ h.revision <= leases'[h.run].revision
  BY <1>3, <1>4, <1>8, <1>10, <1>11, ZenonT(60) DEF QueueInv, HandlesFollowLeases
<1>17. ASSUME NEW h, h = HandleOf(r)
       PROVE  /\ h.run = r /\ h.token = nextToken
              /\ 0 < h.token /\ h.token < nextToken'
              /\ runs'[h.run].status \notin {"Absent", "Queued"}
              /\ Leased(h.run)' => /\ h.token = leases'[h.run].token
                                   /\ h.revision <= leases'[h.run].revision
  BY <1>2, <1>5, <1>8, <1>9, <1>10, <1>17, Zenon
<1>18. \A h \in handles' : h \in handles \/ h = HandleOf(r)
  BY <1>9, Zenon
<1>19. HandlesFollowLeases'
  BY <1>15, <1>16, <1>17, <1>18, Zenon DEF HandlesFollowLeases
<1>20. ASSUME NEW f \in handles', NEW g \in handles'
       PROVE  f.run = g.run <=> f.token = g.token
  <2>1. CASE f \in handles /\ g \in handles
    BY <2>1, Zenon DEF QueueInv, ClaimedOnce
  <2>2. CASE f = HandleOf(r) /\ g = HandleOf(r)
    BY <2>2, Zenon
  <2>3. CASE f \in handles /\ g = HandleOf(r)
    BY <1>11, <1>16, <1>17, <2>3, Zenon
  <2>4. CASE f = HandleOf(r) /\ g \in handles
    BY <1>11, <1>16, <1>17, <2>4, Zenon
  <2> QED
    BY <1>18, <2>1, <2>2, <2>3, <2>4, Zenon
<1>21. ClaimedOnce'
  BY <1>20, Zenon DEF ClaimedOnce
<1> QED
  BY <1>12, <1>13, <1>14, <1>19, <1>21, Zenon DEF QueueInv

LEMMA QueueHeartbeats ==
  ASSUME TypeOK, TypeOK', QueueInv, NEW now \in Time,
         NEW h \in handles, NEW ttl \in LeaseTTLs, HeartbeatLease(h, now, ttl)
  PROVE  QueueInv'
<1> USE DEF QueueInv
<1>0. now \in Nat
  BY TimeIsNat
<1>a. /\ \A g \in handles : g \in Handle /\ g.run \in Runs
      /\ \A q \in Runs : runs[q] \in Run /\ leases[q] \in Lease
      /\ nextToken \in Nat /\ nextToken > 0
  BY QueueTypes, Zenon
<1> QED
  <2>1. h.run \in Runs /\ ttl \in Nat /\ ttl > 0
    BY <1>a, RunStoreAssumption DEF RunStoreAssumption
  <2>2. /\ leases'[h.run].token = leases[h.run].token
        /\ leases'[h.run].revision = leases[h.run].revision
        /\ leases'[h.run].acquired_at = leases[h.run].acquired_at
        /\ leases'[h.run].expires_at = now + ttl
        /\ leases'[h.run].cancel_requested <=> h.run \in cancelRequested
        /\ leases[h.run].acquired_at <= now
        /\ leases[h.run].acquired_at \in Nat
        /\ \A q \in Runs : q # h.run => leases'[q] = leases[q]
        /\ UNCHANGED <<runs, audits, cancelRequested, nextToken, handles>>
    <3> DEFINE c == h.run \in cancelRequested
    <3>1. leases' = [leases EXCEPT ![h.run] = Renewed(leases[h.run], now + ttl, c)]
      BY ZenonT(60) DEF HeartbeatLease
    <3>2. /\ leases'[h.run] = Renewed(leases[h.run], now + ttl, c)
          /\ \A q \in Runs : q # h.run => leases'[q] = leases[q]
      BY <2>1, <3>1, Zenon DEF TypeOK
    <3>3. leases[h.run].acquired_at \in Nat /\ leases[h.run].acquired_at <= now
      BY <1>a, <2>1, ZenonT(60) DEF HeartbeatLease, Lease
    <3>4. UNCHANGED <<runs, audits, cancelRequested, nextToken, handles>>
      BY ZenonT(60) DEF HeartbeatLease
    <3> HIDE DEF c
    <3>5. /\ leases'[h.run].token = leases[h.run].token
          /\ leases'[h.run].revision = leases[h.run].revision
          /\ leases'[h.run].acquired_at = leases[h.run].acquired_at
          /\ leases'[h.run].expires_at = now + ttl
          /\ leases'[h.run].cancel_requested = c
      <4>1. leases[h.run] \in Lease
        BY <1>a, <2>1, Zenon
      <4>2. PICK l : l = Renewed(leases[h.run], now + ttl, c)
        BY Zenon
      <4>3. /\ l.token = leases[h.run].token /\ l.revision = leases[h.run].revision
            /\ l.acquired_at = leases[h.run].acquired_at /\ l.expires_at = now + ttl
            /\ l.cancel_requested = c
        BY <4>1, <4>2, RenewedFields
      <4> QED
        BY <3>2, <4>2, <4>3, Zenon
    <3> QED
      BY <3>2, <3>3, <3>4, <3>5, Zenon DEF c
  <2>3. LeaseOwnsActiveRun' /\ OvertakenRuns'
    <3>0. leases'[h.run].acquired_at < leases'[h.run].expires_at
      BY <1>0, <2>1, <2>2, Deadline, Zenon
    <3>1. LeaseOwnsActiveRun'
      BY <2>2, <3>0, ZenonT(60) DEF LeaseOwnsActiveRun, Leased
    <3>2. OvertakenRuns'
      BY <2>2, ZenonT(60) DEF OvertakenRuns, Leased
    <3> QED
      BY <3>1, <3>2, Zenon
  <2>4. CancelRemembered'
    BY <2>2, Zenon DEF CancelRemembered, Has
  <2>5. HandlesFollowLeases'
    <3>1. \A q \in Runs : /\ leases'[q].token = leases[q].token
                          /\ leases'[q].revision = leases[q].revision
      BY <2>2, Zenon
    <3> QED
      BY <1>a, <2>2, <3>1, Zenon DEF HandlesFollowLeases, Leased
  <2>6. ClaimedOnce'
    BY <2>2, Zenon DEF ClaimedOnce
  <2> QED
    BY <2>3, <2>4, <2>5, <2>6, ZenonT(60)

(* The fields a leased transition of run r leaves behind. *)
LeasedMove(h, r, next) ==
  /\ r = h.run /\ Leased(r) /\ leases[r].token = h.token
  /\ runs'[r].status = next
  /\ runs'[r].revision = runs[r].revision + 1
  /\ leases'[r].token = leases[r].token
  /\ leases'[r].revision = runs'[r].revision
  /\ leases'[r].acquired_at = leases[r].acquired_at
  /\ leases'[r].expires_at = leases[r].expires_at
  /\ leases'[r].cancel_requested <=> r \in cancelRequested
  /\ \A q \in Runs : q # r => runs'[q] = runs[q] /\ leases'[q] = leases[q]
  /\ \A q \in Runs : Has(q, "CancelRequested")' <=> Has(q, "CancelRequested")
  /\ UNCHANGED <<cancelRequested, nextToken>>
  /\ handles' = handles \cup {HandleOf(r)}

LEMMA LeasedMoveFacts ==
  ASSUME TypeOK, NEW now \in Time, NEW h \in handles, MovesLeased(h, now)
  PROVE  \E r \in Runs : \E next \in {"Planning", "AwaitingApproval", "Running"} :
           LeasedMove(h, r, next)
<1>0. now \in Nat
  BY TimeIsNat
<1>1. PICK r \in Runs : r = h.run
  BY QueueTypes, Zenon
<1>2. /\ Leased(r) /\ leases[r].token = h.token
      /\ handles' = handles \cup {HandleOf(r)}
      /\ UNCHANGED <<cancelRequested, nextToken>>
  BY <1>1, Zenon DEF MovesLeased
<1>3. PICK next \in RunStatus \ TerminalStatus : Moves(r, next, now)
  BY <1>1, Zenon DEF MovesLeased
<1>4. Moved(r, next)
  BY <1>0, <1>3, MoveFacts, ZenonT(60)
<1>5. next \in {"Planning", "AwaitingApproval", "Running"}
  BY <1>4, ZenonT(60) DEF Moved, RunStatus, TerminalStatus
<1>6. /\ leases'[r].token = leases[r].token
      /\ leases'[r].revision = runs'[r].revision
      /\ leases'[r].acquired_at = leases[r].acquired_at
      /\ leases'[r].expires_at = leases[r].expires_at
      /\ leases'[r].cancel_requested <=> r \in cancelRequested
      /\ \A q \in Runs : q # r => leases'[q] = leases[q]
  BY <1>1, ZenonT(60) DEF MovesLeased, Refreshed, TypeOK, Lease
<1> QED
  BY <1>1, <1>2, <1>4, <1>5, <1>6, ZenonT(60) DEF LeasedMove, Moved

LEMMA LeasedMoveOwns ==
  ASSUME TypeOK, NEW h, NEW r \in Runs,
         NEW next \in {"Planning", "AwaitingApproval", "Running"},
         LeasedMove(h, r, next), LeaseOwnsActiveRun, OvertakenRuns
  PROVE  LeaseOwnsActiveRun' /\ OvertakenRuns'
<1>1. runs[r].revision \in Nat
  BY Zenon DEF TypeOK, Run
<1>2. leases'[r].revision <= runs'[r].revision
  BY <1>1, Counting, Zenon DEF LeasedMove
<1>3. LeaseOwnsActiveRun'
  BY <1>2, ZenonT(60) DEF LeasedMove, LeaseOwnsActiveRun, Leased
<1>4. OvertakenRuns'
  BY ZenonT(60) DEF LeasedMove, OvertakenRuns, Leased
<1> QED
  BY <1>3, <1>4, Zenon

LEMMA LeasedMoveHandles ==
  ASSUME TypeOK, NEW h, NEW r \in Runs,
         NEW next \in {"Planning", "AwaitingApproval", "Running"},
         LeasedMove(h, r, next), h \in handles,
         LeaseOwnsActiveRun, HandlesFollowLeases
  PROVE  HandlesFollowLeases'
<1>1. /\ runs[r].revision \in Nat /\ leases[r].revision \in Nat
      /\ \A g \in handles : g.revision \in Nat /\ g.run \in Runs
  BY Zenon DEF TypeOK, Run, Lease, Handle
<1>2. leases[r].revision <= runs[r].revision
  BY Zenon DEF LeasedMove, LeaseOwnsActiveRun
<1>3. ASSUME NEW n \in Nat, n <= leases[r].revision
      PROVE  n <= leases'[r].revision
  <2>1. n <= runs[r].revision + 1
    BY <1>1, <1>2, <1>3, AtMost
  <2>2. leases'[r].revision = runs[r].revision + 1
    BY Zenon DEF LeasedMove
  <2> QED
    BY <2>1, <2>2, Zenon
<1>4. leases'[r].revision <= leases'[r].revision
  <2>1. runs[r].revision + 1 <= runs[r].revision + 1
    BY <1>1
  <2>2. leases'[r].revision = runs[r].revision + 1
    BY Zenon DEF LeasedMove
  <2> QED
    BY <2>1, <2>2, Zenon
<1>5. \A q \in Runs : leases'[q].token < nextToken'
  BY ZenonT(60) DEF LeasedMove, HandlesFollowLeases
<1>6. ASSUME NEW g \in handles, g.run = r
      PROVE  /\ 0 < g.token /\ g.token < nextToken'
             /\ runs'[g.run].status \notin {"Absent", "Queued"}
             /\ g.token = leases'[g.run].token /\ g.revision <= leases'[g.run].revision
  BY <1>1, <1>3, <1>6, ZenonT(60) DEF LeasedMove, HandlesFollowLeases
<1>7. ASSUME NEW g \in handles, g.run # r
      PROVE  /\ 0 < g.token /\ g.token < nextToken'
             /\ runs'[g.run].status \notin {"Absent", "Queued"}
             /\ Leased(g.run)' => /\ g.token = leases'[g.run].token
                                  /\ g.revision <= leases'[g.run].revision
  BY <1>1, <1>7, ZenonT(60) DEF LeasedMove, HandlesFollowLeases, Leased
<1>8. /\ HandleOf(r).run = r /\ HandleOf(r).token = h.token
      /\ HandleOf(r).revision = leases'[r].revision
  BY Zenon DEF HandleOf, LeasedMove
<1>9. ASSUME NEW g, g = HandleOf(r)
      PROVE  /\ 0 < g.token /\ g.token < nextToken'
             /\ runs'[g.run].status \notin {"Absent", "Queued"}
             /\ g.token = leases'[g.run].token /\ g.revision <= leases'[g.run].revision
  BY <1>4, <1>8, <1>9, ZenonT(60) DEF LeasedMove, HandlesFollowLeases
<1>10. \A g \in handles' : g \in handles \/ g = HandleOf(r)
  BY Zenon DEF LeasedMove
<1> QED
  BY <1>5, <1>6, <1>7, <1>9, <1>10, ZenonT(60) DEF HandlesFollowLeases

LEMMA QueueMovesLeased ==
  ASSUME TypeOK, TypeOK', QueueInv, NEW now \in Time,
         NEW h \in handles, MovesLeased(h, now)
  PROVE  QueueInv'
<1>1. PICK r \in Runs, next \in {"Planning", "AwaitingApproval", "Running"} :
        LeasedMove(h, r, next)
  BY LeasedMoveFacts, Zenon
<1>2. LeaseOwnsActiveRun' /\ OvertakenRuns'
  BY <1>1, LeasedMoveOwns, Zenon DEF QueueInv
<1>3. HandlesFollowLeases'
  BY <1>1, LeasedMoveHandles, Zenon DEF QueueInv
<1>4. CancelRemembered'
  <2>1. runs[r].status \notin {"Failed", "Cancelled", "TimedOut"}
    BY <1>1, Zenon DEF LeasedMove, QueueInv, LeaseOwnsActiveRun
  <2>2. ASSUME NEW q \in Runs, Has(q, "CancelRequested")'
        PROVE  q \in cancelRequested' \/ runs'[q].status \in {"Failed", "Cancelled", "TimedOut"}
    <3>1. \/ q \in cancelRequested
          \/ q # r /\ runs[q].status \in {"Failed", "Cancelled", "TimedOut"}
      BY <1>1, <2>1, <2>2, Zenon DEF LeasedMove, QueueInv, CancelRemembered
    <3> QED
      BY <1>1, <3>1, Zenon DEF LeasedMove
  <2> QED
    BY <2>2, Zenon DEF CancelRemembered
<1>5. ASSUME NEW g \in handles'
      PROVE  \E f \in handles : f.run = g.run /\ f.token = g.token
  <2>1. HandleOf(r).run = h.run /\ HandleOf(r).token = h.token
    BY <1>1, Zenon DEF HandleOf, LeasedMove
  <2> QED
    BY <1>1, <2>1, Zenon DEF LeasedMove
<1>6. ASSUME NEW a \in handles', NEW b \in handles'
      PROVE  a.run = b.run <=> a.token = b.token
  <2>1. PICK f \in handles : f.run = a.run /\ f.token = a.token
    BY <1>5, Zenon
  <2>2. PICK g \in handles : g.run = b.run /\ g.token = b.token
    BY <1>5, Zenon
  <2>3. f.run = g.run <=> f.token = g.token
    BY Zenon DEF ClaimedOnce, QueueInv
  <2> QED
    BY <2>1, <2>2, <2>3, SMTT(30)
<1>7. ClaimedOnce'
  BY <1>6, Zenon DEF ClaimedOnce
<1> QED
  BY <1>2, <1>3, <1>4, <1>7, Zenon DEF QueueInv

LEMMA QueueEndsLeased ==
  ASSUME TypeOK, TypeOK', QueueInv, NEW now \in Time,
         NEW h \in handles, EndsLeased(h, now)
  PROVE  QueueInv'
<1>0. now \in Nat
  BY TimeIsNat
<1>1. PICK r \in Runs : r = h.run
  BY QueueTypes, Zenon
<1>2. PICK next \in TerminalStatus :
        /\ next = "Succeeded" => r \notin cancelRequested
        /\ Moves(r, next, now)
  BY <1>1, Zenon DEF EndsLeased
<1>3. next \in RunStatus /\ next # "Absent" /\ next # "Queued"
  BY Zenon DEF TerminalStatus, RunStatus
<1>4. /\ leases'[r] = NoLease
      /\ \A q \in Runs : q # r => leases'[q] = leases[q]
      /\ cancelRequested' = cancelRequested \ {r}
      /\ UNCHANGED <<nextToken, handles>>
  BY <1>1, Zenon DEF EndsLeased, DropLeases
<1>5. NoLease.token = 0 /\ NoLease.cancel_requested = FALSE
  BY Zenon DEF NoLease
<1>6. Moved(r, next)
  BY <1>0, <1>2, <1>3, MoveFacts, Zenon
<1>7. /\ ~Leased(r)' /\ runs'[r].status = next
      /\ \A q \in Runs : q # r =>
           runs'[q] = runs[q] /\ leases'[q] = leases[q] /\ (Leased(q)' <=> Leased(q))
  BY <1>4, <1>5, <1>6, Zenon DEF Moved, Leased
<1>8. CancelRemembered'
  <2>1. next \in {"Failed", "Cancelled", "TimedOut"} \/ next = "Succeeded"
    BY Zenon DEF TerminalStatus
  <2>2. runs[r].status \notin {"Failed", "Cancelled", "TimedOut"}
    BY <1>6, Zenon DEF Moved
  <2>3. Has(r, "CancelRequested") => next \in {"Failed", "Cancelled", "TimedOut"}
    BY <1>2, <2>1, <2>2, Zenon DEF QueueInv, CancelRemembered
  <2> QED
    BY <1>4, <1>6, <1>7, <2>3, Zenon DEF QueueInv, CancelRemembered, Moved
<1>9. LeaseOwnsActiveRun'
  BY <1>4, <1>5, <1>7, Zenon DEF QueueInv, LeaseOwnsActiveRun
<1>10. OvertakenRuns'
  BY <1>7, Zenon DEF QueueInv, OvertakenRuns
<1>11. 0 < nextToken
  BY QueueTypes, SMTT(30)
<1>12. HandlesFollowLeases'
  BY <1>3, <1>4, <1>5, <1>7, <1>11, QueueTypes, Zenon DEF QueueInv, HandlesFollowLeases
<1>13. ClaimedOnce'
  BY <1>4, Zenon DEF ClaimedOnce, QueueInv
<1> QED
  BY <1>8, <1>9, <1>10, <1>12, <1>13, Zenon DEF QueueInv

LEMMA QueueIntends ==
  ASSUME TypeOK, TypeOK', QueueInv, NEW now \in Time,
         NEW r \in Runs, Intends(r, now)
  PROVE  QueueInv'
<1> USE DEF QueueInv
<1>a. /\ \A g \in handles : g \in Handle /\ g.run \in Runs
      /\ \A q \in Runs : runs[q] \in Run /\ leases[q] \in Lease
      /\ nextToken \in Nat /\ nextToken > 0
  BY QueueTypes, Zenon
<1> QED
  <2>1. /\ Leased(r)
        /\ cancelRequested' = cancelRequested \cup {r}
        /\ leases'[r].token = leases[r].token
        /\ leases'[r].revision = leases[r].revision
        /\ leases'[r].acquired_at = leases[r].acquired_at
        /\ leases'[r].expires_at = leases[r].expires_at
        /\ leases'[r].cancel_requested = TRUE
        /\ \A q \in Runs : q # r => leases'[q] = leases[q]
        /\ UNCHANGED <<runs, nextToken, handles>>
    BY <1>a DEF Intends, RecordCancelIntent, TypeOK, Lease
  <2>2. \A q \in Runs : q # r => audits'[q] = audits[q]
    BY SMTT(30) DEF Intends, RecordCancelIntent, AppendEvents, TypeOK
  <2>3. CancelRemembered'
    <3>1. \A q \in Runs : q # r => Has(q, "CancelRequested")' = Has(q, "CancelRequested")
      BY <2>2, ZenonT(60) DEF Has
    <3> QED
      BY <2>1, <3>1, ZenonT(60) DEF CancelRemembered
  <2>a. \A q \in Runs : /\ leases'[q].token = leases[q].token
                        /\ leases'[q].revision = leases[q].revision
    BY <2>1, Zenon
  <2>4. LeaseOwnsActiveRun'
    BY <2>1, Zenon DEF LeaseOwnsActiveRun, Leased
  <2>5. OvertakenRuns'
    BY <2>1, <2>a, Zenon DEF OvertakenRuns, Leased
  <2>b. UNCHANGED <<runs, nextToken, handles>>
    BY <2>1, Zenon
  <2>6. HandlesFollowLeases'
    BY <1>a, <2>a, <2>b, Zenon DEF HandlesFollowLeases, Leased
  <2>7. ClaimedOnce'
    BY <2>1, Zenon DEF ClaimedOnce
  <2> QED
    BY <2>3, <2>4, <2>5, <2>6, <2>7, ZenonT(60)

LEMMA QueueRecovers ==
  ASSUME TypeOK, TypeOK', QueueInv, NEW now \in Time,
         RecoverExpiredLeases(now)
  PROVE  QueueInv'
<1> USE DEF QueueInv
<1>0. now \in Nat
  BY TimeIsNat
<1>a. /\ \A g \in handles : g \in Handle /\ g.run \in Runs
      /\ \A q \in Runs : runs[q] \in Run /\ leases[q] \in Lease
      /\ nextToken \in Nat /\ nextToken > 0
  BY QueueTypes, Zenon
<1> QED
  <2>1. \A r \in Recovered(now) : Advanced(runs[r], "Failed", now).status = "Failed"
    BY ZenonT(60) DEF Advanced
  <2>2. NoLease.token = 0 /\ NoLease.cancel_requested = FALSE
    BY Zenon DEF NoLease
  <2>3. UNCHANGED <<nextToken, handles>>
    BY Zenon DEF RecoverExpiredLeases
  <2>4. CancelRemembered'
    <3> SUFFICES ASSUME NEW r \in Runs, Has(r, "CancelRequested")'
                 PROVE  \/ r \in cancelRequested'
                        \/ runs'[r].status \in {"Failed", "Cancelled", "TimedOut"}
      BY Zenon DEF CancelRemembered
    <3>1. CASE r \in Recovered(now)
      BY <1>0, <2>1, <3>1, RecoveryFacts, Zenon
    <3>2. CASE r \notin Recovered(now)
      <4>1. /\ audits'[r] = audits[r] /\ runs'[r] = runs[r]
            /\ cancelRequested' = cancelRequested \ Recovered(now)
        BY <1>0, <3>2, RecoveryFacts, Zenon
      <4> QED
        BY <3>2, <4>1, Zenon DEF CancelRemembered, Has
    <3> QED
      BY <3>1, <3>2, Zenon
  <2>5. LeaseOwnsActiveRun' /\ OvertakenRuns'
    BY <1>0, <2>2, RecoveryFacts, ZenonT(60)
       DEF LeaseOwnsActiveRun, OvertakenRuns, Leased
  <2>6. HandlesFollowLeases' /\ ClaimedOnce'
    <3>1. \A r \in Runs : \/ runs'[r] = runs[r] /\ leases'[r] = leases[r]
                          \/ runs'[r].status = "Failed" /\ leases'[r].token = 0
      BY <1>0, <2>1, <2>2, RecoveryFacts, ZenonT(60)
    <3>2. 0 < nextToken
      BY <1>a, Counting, Zenon
    <3>3. HandlesFollowLeases'
      BY <1>a, <2>3, <3>1, <3>2, Zenon DEF HandlesFollowLeases, Leased
    <3>4. ClaimedOnce'
      BY <2>3, Zenon DEF ClaimedOnce
    <3> QED
      BY <3>3, <3>4, Zenon
  <2> QED
    BY <2>4, <2>5, <2>6, Zenon

LEMMA QueueInvStep ==
  ASSUME TypeOK, TypeOK', QueueInv, NEW now \in Time, Shapes(now)
  PROVE  QueueInv'
BY QueueAnnotates, QueueCreates, QueueMovesFree, QueueMovesPast, QueueClaims,
   QueueHeartbeats, QueueMovesLeased, QueueEndsLeased, QueueIntends, QueueRecovers,
   ZenonT(60)
   DEF Shapes

(* QueueInv holds of every reachable state. *)
THEOREM QueueCorrect == Spec => []QueueInv
<1>1. Init => QueueInv
  BY QueueInvInit
<1>2. TypeOK /\ TypeOK' /\ QueueInv /\ [Next]_vars => QueueInv'
  <2> SUFFICES ASSUME TypeOK, TypeOK', QueueInv, [Next]_vars
               PROVE  QueueInv'
    OBVIOUS
  <2>1. CASE Next
    BY <2>1, NextShapes, QueueInvStep, SMTT(30)
  <2>2. CASE UNCHANGED vars
    BY <2>2, ZenonT(60)
       DEF vars, QueueInv, LeaseOwnsActiveRun, OvertakenRuns, CancelRemembered,
                HandlesFollowLeases, ClaimedOnce, Has, Leased
  <2> QED
    BY <2>1, <2>2
<1> QED
  BY <1>1, <1>2, TypeCorrect, PTL DEF Spec

(* A lease exists only for active work, and cancellation intent only for   *)
(* leased work, in every store.                                            *)
THEOREM LeasesOwnActiveRuns == Spec => []LeaseOwnsActiveRun
BY QueueCorrect, PTL DEF QueueInv

(* Queued work is claimed at most once, however claims, heartbeats,        *)
(* transitions and recoveries interleave.                                  *)
THEOREM ClaimsAreUnique == Spec => []ClaimedOnce
BY QueueCorrect, PTL DEF QueueInv

(* A recorded cancellation intent rules success out for good. *)
THEOREM CancellationBlocksSuccess == Spec => []CancelBlocksSuccess
<1>1. TypeOK /\ QueueInv => CancelBlocksSuccess
  BY DEF QueueInv, LeaseOwnsActiveRun, CancelRemembered, CancelBlocksSuccess
<1> QED
  BY <1>1, TypeCorrect, QueueCorrect, PTL

-----------------------------------------------------------------------------
(* What no step may do *)

(* What a step does to one run record: nothing, create it, or advance it   *)
(* along a legal transition.                                               *)
LEMMA RunRecordSteps ==
  ASSUME TypeOK, QueueInv, NEW now \in Time, Shapes(now), NEW r \in Runs
  PROVE  \/ runs'[r] = runs[r]
         \/ runs[r].status = "Absent" /\ runs'[r].status = "Queued"
         \/ \E next \in RunStatus : /\ CanTransitionTo(runs[r].status, next)
                                    /\ runs'[r] = Advanced(runs[r], next, now)
<1> DEFINE Stepped == \/ runs'[r] = runs[r]
                      \/ runs[r].status = "Absent" /\ runs'[r].status = "Queued"
                      \/ \E next \in RunStatus :
                           /\ CanTransitionTo(runs[r].status, next)
                           /\ runs'[r] = Advanced(runs[r], next, now)
<1>0. now \in Nat /\ \A h \in handles : h.run \in Runs
  BY TimeIsNat, SMTT(30) DEF TypeOK, Handle
<1>1. ASSUME NEW q \in Runs, NEW next \in RunStatus, Moves(q, next, now)
      PROVE  Stepped
  BY <1>1, Zenon DEF Moves, TypeOK
<1>2. ASSUME NEW q \in Runs, CreateRun(q, now)
      PROVE  Stepped
  BY <1>2, Zenon DEF CreateRun, Exists, NoRun, TypeOK
<1>3. CASE RecoverExpiredLeases(now)
  <2>1. r \in Recovered(now) => CanTransitionTo(runs[r].status, "Failed")
    BY <1>0, <1>3, RecoveryFacts, Zenon
       DEF QueueInv, LeaseOwnsActiveRun, CanTransitionTo, TerminalStatus
  <2>2. "Failed" \in RunStatus
    BY SMTT(30) DEF RunStatus
  <2> QED
    BY <1>0, <1>3, <2>1, <2>2, RecoveryFacts, Zenon DEF QueueInv
<1>4. CASE Annotates(now) \/ \E h \in handles, ttl \in LeaseTTLs : HeartbeatLease(h, now, ttl)
  BY <1>4, Zenon DEF Annotates, HeartbeatLease
<1>5. CASE \E q \in Runs : Intends(q, now)
  BY <1>5, SMTT(30) DEF Intends, RecordCancelIntent
<1>6. CASE MovesFree(now) \/ MovesPastLease(now)
  BY <1>1, <1>6, ZenonT(60) DEF MovesFree, MovesPastLease, RunStatus
<1>7. CASE \E q \in Runs, ttl \in LeaseTTLs : Claims(q, now, ttl)
  BY <1>1, <1>7, ZenonT(60) DEF Claims, RunStatus
<1>8. CASE \E h \in handles : MovesLeased(h, now) \/ EndsLeased(h, now)
  BY <1>0, <1>1, <1>8, ZenonT(60) DEF MovesLeased, EndsLeased, RunStatus, TerminalStatus
<1> QED
  BY <1>2, <1>3, <1>4, <1>5, <1>6, <1>7, <1>8, Zenon DEF Shapes

(* A terminal run is never written and never leased again. *)
THEOREM TerminalRunsAreFinal == Spec => TerminalIsFinal
<1> DEFINE Final == \A r \in Runs : IsTerminal(runs[r].status) =>
                      runs'[r] = runs[r] /\ ~Leased(r)'
<1>1. TypeOK /\ QueueInv /\ QueueInv' /\ [Next]_vars => [Final]_vars
  <2> SUFFICES ASSUME TypeOK, QueueInv, QueueInv', Next,
                      NEW r \in Runs, IsTerminal(runs[r].status)
               PROVE  runs'[r] = runs[r] /\ ~Leased(r)'
    OBVIOUS
  <2>1. runs'[r] = runs[r]
    BY NextShapes, RunRecordSteps, SMTT(30)
       DEF CanTransitionTo, IsTerminal, TerminalStatus
  <2> QED
    BY <2>1, Zenon DEF QueueInv, LeaseOwnsActiveRun, IsTerminal, TerminalStatus
<1> QED
  BY <1>1, TypeCorrect, QueueCorrect, PTL DEF Spec, TerminalIsFinal

(* What a step does to the lease of a leased run: keep its token, or end   *)
(* it together with the run.                                               *)
LEMMA LeaseSteps ==
  ASSUME TypeOK, QueueInv, NEW now \in Time, Shapes(now), NEW r \in Runs, Leased(r)
  PROVE  \/ leases'[r].token = leases[r].token
         \/ leases'[r].token = 0 /\ IsTerminal(runs'[r].status)
<1> DEFINE Kept == \/ leases'[r].token = leases[r].token
                   \/ leases'[r].token = 0 /\ IsTerminal(runs'[r].status)
<1>0. now \in Nat /\ \A h \in handles : h.run \in Runs
  BY TimeIsNat DEF TypeOK, Handle
<1>1. CASE \/ Annotates(now) \/ MovesFree(now) \/ MovesPastLease(now)
           \/ \E q \in Runs : CreateRun(q, now)
  BY <1>1, SMTT(30) DEF Annotates, MovesFree, MovesPastLease, CreateRun
<1>2. CASE \E q \in Runs, ttl \in LeaseTTLs : Claims(q, now, ttl)
  BY <1>2 DEF Claims, Queued, TypeOK
<1>3. CASE \E q \in Runs : Intends(q, now)
  BY <1>3 DEF Intends, RecordCancelIntent, TypeOK, Lease
<1>4. ASSUME NEW h \in handles, NEW ttl \in LeaseTTLs, HeartbeatLease(h, now, ttl)
      PROVE  Kept
  BY <1>0, <1>4, Zenon DEF HeartbeatLease, Renewed, TypeOK, Lease
<1>5. ASSUME NEW h \in handles, MovesLeased(h, now)
      PROVE  Kept
  BY <1>0, <1>5, SMTT(30) DEF MovesLeased, Refreshed, TypeOK, Lease
<1>6. ASSUME NEW h \in handles, EndsLeased(h, now)
      PROVE  Kept
  <2>1. PICK next \in TerminalStatus : Moves(h.run, next, now)
    BY <1>6 DEF EndsLeased
  <2>2. next \in RunStatus
    BY SMTT(30) DEF TerminalStatus, RunStatus
  <2>3. runs'[h.run].status = next
    BY <1>0, <2>1, <2>2, MoveFacts, ZenonT(60) DEF Moved
  <2>4. /\ leases'[r] = IF r = h.run THEN NoLease ELSE leases[r]
        /\ NoLease.token = 0
    BY <1>6, ZenonT(60) DEF EndsLeased, DropLeases, NoLease
  <2> QED
    BY <2>3, <2>4, SMTT(30) DEF IsTerminal
<1>7. CASE RecoverExpiredLeases(now)
  <2>1. NoLease.token = 0 /\ Advanced(runs[r], "Failed", now).status = "Failed"
    BY Zenon DEF NoLease, Advanced
  <2> QED
    BY <1>0, <1>7, <2>1, RecoveryFacts, ZenonT(60)
       DEF QueueInv, IsTerminal, TerminalStatus
<1> QED
  BY <1>1, <1>2, <1>3, <1>4, <1>5, <1>6, <1>7, ZenonT(60) DEF Shapes

(* Every run is leased by one claim, and its lease lasts until it ends,    *)
(* through recovery passes that stop half way.                             *)
THEOREM LeasesLastUntilTheEnd == Spec => LeaseLifecycle
<1> DEFINE Ends ==
      \A r \in Runs : Leased(r) /\ leases'[r].token # leases[r].token =>
                     ~Leased(r)' /\ IsTerminal(runs'[r].status)
<1>1. TypeOK /\ QueueInv /\ [Next]_vars => [Ends]_vars
  BY NextShapes, LeaseSteps DEF Leased
<1> QED
  BY <1>1, TypeCorrect, QueueCorrect, ClaimsAreUnique, PTL DEF Spec, LeaseLifecycle

(* After an approval was consumed under a lease, only the recovery of that *)
(* lease changes the run, and fails it.                                    *)
THEOREM OvertakenLeasesFail == Spec => OvertakenLease
<1> DEFINE Fails ==
      \A r \in Runs :
        Leased(r) /\ leases[r].revision # runs[r].revision /\ runs'[r] # runs[r]
        => runs'[r].status = "Failed" /\ ~Leased(r)'
<1>1. TypeOK /\ QueueInv /\ [Next]_vars => [Fails]_vars
  <2> SUFFICES ASSUME TypeOK, QueueInv, Next, NEW r \in Runs, Leased(r),
                      leases[r].revision # runs[r].revision, runs'[r] # runs[r]
               PROVE  runs'[r].status = "Failed" /\ ~Leased(r)'
    BY SMTT(30)
  <2>1. PICK now \in Time : Shapes(now)
    BY NextShapes, SMTT(30)
  <2>0. now \in Nat /\ \A h \in handles : h.run \in Runs
    BY TimeIsNat, SMTT(30) DEF TypeOK, Handle
  <2>2. runs[r].status = "Running"
    BY SMTT(30) DEF QueueInv, OvertakenRuns
  <2>3. \A h \in handles : h.run = r => h.revision # runs[r].revision
    <3> SUFFICES ASSUME NEW h \in handles, h.run = r, h.revision = runs[r].revision
                 PROVE  FALSE
      BY SMTT(30)
    <3>1. /\ h.revision <= leases[r].revision
          /\ leases[r].revision <= runs[r].revision
      BY SMTT(30) DEF QueueInv, HandlesFollowLeases, LeaseOwnsActiveRun
    <3>2. leases[r].revision \in Nat /\ runs[r].revision \in Nat
      BY Zenon DEF TypeOK, Lease, Run
    <3> QED
      BY <3>1, <3>2
  <2>4. ~(MovesFree(now) \/ MovesPastLease(now))
    <3>1. \A q \in Runs, next \in RunStatus : Moves(q, next, now) => q = r
      BY Zenon DEF Moves, TypeOK
    <3>2. ~MovesFree(now)
      BY <3>1, SMTT(30) DEF MovesFree
    <3>3. ~Moves(r, "Running", now) /\ "Running" \in RunStatus
      BY <2>2 DEF Moves, CanTransitionTo, TerminalStatus, RunStatus
    <3> QED
      BY <3>1, <3>2, <3>3, SMTT(30) DEF MovesPastLease
  <2>5. ~\E h \in handles : MovesLeased(h, now) \/ EndsLeased(h, now)
    BY <2>0, <2>3, Zenon DEF MovesLeased, EndsLeased, Moves, TypeOK
  <2>6. ~\E q \in Runs : CreateRun(q, now) \/ \E ttl \in LeaseTTLs : Claims(q, now, ttl)
    BY <2>2 DEF CreateRun, Exists, Claims, Moves, Queued, TypeOK
  <2>7. RecoverExpiredLeases(now)
    BY <2>1, <2>4, <2>5, <2>6, Zenon
       DEF Shapes, Annotates, HeartbeatLease, Intends, RecordCancelIntent
  <2>8. runs'[r] = Advanced(runs[r], "Failed", now) /\ leases'[r] = NoLease
    BY <2>0, <2>7, RecoveryFacts, Zenon DEF QueueInv
  <2>9. NoLease.token = 0 /\ Advanced(runs[r], "Failed", now).status = "Failed"
    BY Zenon DEF NoLease, Advanced
  <2> QED
    BY <2>8, <2>9, ZenonT(60) DEF Leased
<1> QED
  BY <1>1, TypeCorrect, QueueCorrect, PTL DEF Spec, OvertakenLease
=============================================================================
