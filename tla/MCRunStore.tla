----------------------------- MODULE MCRunStore -----------------------------
(***************************************************************************)
(* Small instances of the execution store for TLC.  A run of TLC covers    *)
(* several of them at once: each behaviour stays within the bounds of one  *)
(* scope, chosen at its start.                                             *)
(***************************************************************************)
EXTENDS RunStore, TLC

CONSTANTS
  p1, p2,  \* approvals
  a1, a2,  \* actions
  d1, d2,  \* parameter digests
  f1, f2,  \* artifact paths
  Scopes   \* the instances a run covers

VARIABLE scope

NoBatches == {}
OverlappingBatches == {<<f1>>, <<f2, f1>>, <<f1, f1>>}

NoEvents == {}
OutputEvents == {"RuntimeOutput"}

(* Two runs compete for the worker queue; nothing is produced. *)
Queue == [runs |-> 2, approvals |-> 0, time |-> 2, lease |-> 1, ttl |-> 0, chain |-> 4, output |-> FALSE]

(* One run with its worker: heartbeats, cancellation, output, artifacts. *)
Work == [runs |-> 1, approvals |-> 0, time |-> 3, lease |-> 2, ttl |-> 0, chain |-> 7, output |-> TRUE]

(* Two approvals compete for the pauses of one run. *)
Rivals == [runs |-> 1, approvals |-> 2, time |-> 0, lease |-> 2, ttl |-> 1, chain |-> 12, output |-> FALSE]

(* One approval is decided late, expires or meets a worker. *)
Late == [runs |-> 1, approvals |-> 1, time |-> 2, lease |-> 2, ttl |-> 2, chain |-> 8, output |-> FALSE]

QueueAndWork == {Queue, Work}
RivalsAndLate == {Rivals, Late}

Requested == {p \in Approvals : approvals[p].status # "Absent"}

InScope ==
  /\ \A r \in Runs :
       /\ Exists(r) => r <= scope.runs /\ Len(audits[r]) <= scope.chain
                       /\ runs[r].updated_at <= scope.time /\ LastAuditAt(r) <= scope.time
       /\ leases[r].acquired_at <= scope.time
       /\ Leased(r) => leases[r].expires_at <= scope.time + scope.lease
       /\ ~scope.output =>
            artifacts[r] = {} /\ \A i \in DOMAIN audits[r] : audits[r][i].type \notin AppendableEvents
  /\ Cardinality(Requested) <= scope.approvals
  /\ \A p \in Requested :
       /\ approvals[p].expires_at <= approvals[p].created_at + scope.ttl
       /\ approvals[p].created_at <= scope.time

ScopedInit == Init /\ scope \in Scopes

ScopedSpec ==
  /\ ScopedInit
  /\ [][Next /\ UNCHANGED scope /\ InScope']_<<vars, scope>>

(* Approvals, actions and digests are only ever compared for equality. *)
ApprovalSymmetry ==
  Permutations(Approvals) \cup Permutations(Actions) \cup Permutations(Hashes)
=============================================================================
