------------------------- MODULE CapabilityProofs ---------------------------
(***************************************************************************)
(* The invariant of governed capability actions, what each of their steps  *)
(* does to the state, why every step keeps it, and the safety theorems that*)
(* follow, for any number of actions and clients and any bounds on failing *)
(* calls, hang-ups and crashes.                                            *)
(***************************************************************************)
EXTENDS CapabilityAction, TLAPS

CreatorLabel == {"Idle", "Plan", "Await", "Ask", "Insert", "Done"}
CallerLabel ==
  {"Idle", "Read", "Consume", "Verify", "Reserve", "Call", "Uncertain", "FailRead",
   "Fail", "Perform", "Reconcile", "DoneRead", "Succeed"}

RunRow == [status : RunStatus \cup {"None"}, revision : Nat, leased : BOOLEAN]
ApprovalRow == [status : ApprovalStatus \cup {"None"}, revision : Nat, window : Nat]
CreatorState == [pc : CreatorLabel, seen : Nat]
CallerState == [pc : CallerLabel, action : Actions, want : Nat, seen : Nat]

TypeOK ==
  /\ run \in [Actions -> RunRow]
  /\ approval \in [Actions -> ApprovalRow]
  /\ exec \in [Actions -> {"None", "started", "uncertain", "performed"}]
  /\ creator \in [Actions -> CreatorState]
  /\ caller \in [Clients -> CallerState]
  /\ calls \in [Actions -> Nat]
  /\ up \in BOOLEAN
  /\ faults \in Nat /\ hangups \in Nat /\ crashes \in Nat

-----------------------------------------------------------------------------
(* The inductive invariant *)

(* The request that made the reservation of its action. *)
HolderLabel ==
  {"Call", "Uncertain", "FailRead", "Fail", "Perform", "Reconcile", "DoneRead", "Succeed"}
Holder(c) == caller[c].pc \in HolderLabel

(* The rows of one action: who may still write them. *)
Rows(a) ==
  /\ run[a].leased => run[a].status = "Planning"
  /\ creator[a].pc = "Idle" => run[a].status = "None"
  /\ approval[a].status # "None" => creator[a].pc \in {"Insert", "Done"}
  /\ a \in claims => /\ approval[a].status = "Consumed"
                     /\ run[a].status \in {"Running", "Succeeded", "Failed"}
  /\ run[a].status = "Running" => a \in claims
  /\ a \in refused => /\ a \notin claims
                      /\ approval[a].status = "Denied" \/ run[a].status = "Cancelled"
  /\ exec[a] # "None" => a \in claims
  /\ exec[a] = "None" => calls[a] = 0 /\ a \notin audited

(* A claim whose attempt is not reserved yet has a running run, unless     *)
(* recovery failed it.                                                     *)
Callable(a) == run[a].status = "Running" \/ (run[a].status = "Failed" /\ crashes > 0)

Unspent(a) == a \in claims /\ exec[a] = "None" => Callable(a)

(* What a request at label pc knows of action a. *)
KnowsOf(pc, a, seen) ==
  /\ pc = "Reserve" => a \in claims
  /\ pc \in HolderLabel => exec[a] # "None"
  /\ pc \in {"Call", "Uncertain", "Perform"} => exec[a] = "started"
  /\ pc \in {"Reconcile", "DoneRead", "Succeed"} => exec[a] = "performed"
  /\ pc = "Call" => calls[a] = 0 /\ Callable(a)
  /\ pc = "Perform" => calls[a] > 0
  /\ pc \in HolderLabel \ {"DoneRead", "Succeed"} => a \notin audited
  /\ pc \in {"Fail", "Succeed"} /\ run[a].status = "Running" => seen = run[a].revision

Knows(c) == KnowsOf(caller[c].pc, caller[c].action, caller[c].seen)

OneHolder ==
  \A c, d \in Clients :
    Holder(c) /\ Holder(d) /\ caller[c].action = caller[d].action => c = d

(* Nobody is in the middle of a request while the service is down. *)
Down ==
  ~up => /\ crashes > 0
         /\ \A c \in Clients : caller[c].pc = "Idle"
         /\ \A a \in Actions : creator[a].pc \in {"Idle", "Done"}

ActionInv ==
  /\ \A a \in Actions : Rows(a) /\ Unspent(a) /\ calls[a] <= 1
  /\ \A c \in Clients : Knows(c)
  /\ OneHolder
  /\ Down

-----------------------------------------------------------------------------
(* What the small steps of the handlers do, point by point *)

LEMMA Counted ==
  ASSUME NEW n \in Nat, NEW m, m = n \/ m = n + 1
  PROVE  m \in Nat
OBVIOUS

LEMMA OneCall == 0 <= 1 /\ 0 + 1 <= 1 /\ 0 + 1 > 0
OBVIOUS

(* The creator of a stands at a label with the revision it has seen. *)
CreatorAt(a, label, n) ==
  /\ creator' \in [Actions -> CreatorState]
  /\ \A b \in Actions \ {a} : creator'[b] = creator[b]
  /\ creator'[a].pc = label /\ creator'[a].seen = n

LEMMA CreatorMoves ==
  ASSUME TypeOK, NEW a \in Actions, NEW label \in CreatorLabel, NEW n \in Nat
  PROVE  /\ GoCreator(a, label) => CreatorAt(a, label, creator[a].seen)
         /\ Holding(a, label, n) => CreatorAt(a, label, n)
<1>1. creator \in [Actions -> CreatorState] /\ creator[a] \in CreatorState
  BY DEF TypeOK
<1> QED
  BY <1>1 DEF CreatorAt, GoCreator, Holding, CreatorState

(* Request c goes to a label, or returns. *)
CallerAt(c, label) ==
  /\ caller' \in [Clients -> CallerState]
  /\ \A d \in Clients \ {c} : caller'[d] = caller[d]
  /\ caller'[c].pc = label
  /\ label # "Idle" => caller'[c].action = caller[c].action

LEMMA CallerMoves ==
  ASSUME TypeOK, NEW c \in Clients, NEW label \in CallerLabel
  PROVE  /\ GoCaller(c, label) => CallerAt(c, label)
         /\ Return(c) => CallerAt(c, "Idle")
<1>1. caller \in [Clients -> CallerState] /\ caller[c] \in CallerState
  BY DEF TypeOK
<1>2. Idle \in CallerState /\ Idle.pc = "Idle"
  BY CapabilityAssumption DEF Idle, CallerLabel, CallerState
<1>3. GoCaller(c, label) => CallerAt(c, label)
  BY <1>1 DEF CallerAt, GoCaller, CallerState
<1>4. Return(c) => CallerAt(c, "Idle")
  BY <1>1, <1>2 DEF CallerAt, Return
<1> QED
  BY <1>3, <1>4

(* The run of a has a new status. *)
RunAt(a, next, n) ==
  /\ run' \in [Actions -> RunRow]
  /\ \A b \in Actions \ {a} : run'[b] = run[b]
  /\ run'[a].status = next /\ run'[a].revision = n

(* ... and is leased as before. *)
RunGoes(a, next, n) == RunAt(a, next, n) /\ run'[a].leased = run[a].leased

LEMMA RunMoves ==
  ASSUME TypeOK, NEW a \in Actions, NEW next \in RunStatus, NEW leased \in BOOLEAN
  PROVE  /\ run' = Moved(a, next) => RunGoes(a, next, run[a].revision + 1)
         /\ run' = [Moved(a, next) EXCEPT ![a].leased = leased] =>
              RunAt(a, next, run[a].revision + 1) /\ (run'[a].leased <=> leased)
         /\ run' = [run EXCEPT ![a].status = next] =>
              RunGoes(a, next, run[a].revision)
<1> DEFINE row == [status |-> next, revision |-> run[a].revision + 1, leased |-> run[a].leased]
<1>1. run \in [Actions -> RunRow] /\ run[a] \in RunRow
  BY DEF TypeOK
<1>2. row \in RunRow
  BY <1>1 DEF RunRow
<1>3. Moved(a, next) = [run EXCEPT ![a] = row]
  <2>1. Moved(a, next)[a] = row
    BY <1>1, Zenon DEF Moved, RunRow
  <2>2. \A b \in Actions : b # a => Moved(a, next)[b] = run[b]
    BY <1>1, Zenon DEF Moved
  <2> QED
    BY <1>1, <2>1, <2>2, Zenon DEF Moved
<1>4. run' = Moved(a, next) => RunGoes(a, next, run[a].revision + 1)
  BY <1>1, <1>2, <1>3 DEF RunGoes, RunAt
<1>5. run' = [Moved(a, next) EXCEPT ![a].leased = leased] =>
        RunAt(a, next, run[a].revision + 1) /\ (run'[a].leased <=> leased)
  BY <1>1, <1>2, <1>3 DEF RunGoes, RunAt, RunRow
<1>6. run' = [run EXCEPT ![a].status = next] => RunGoes(a, next, run[a].revision)
  BY <1>1 DEF RunGoes, RunAt, RunRow
<1> QED
  BY <1>4, <1>5, <1>6

(* The approval of a has a new status. *)
ApprovalAt(a, status) ==
  /\ approval' \in [Actions -> ApprovalRow]
  /\ \A b \in Actions \ {a} : approval'[b] = approval[b]
  /\ approval'[a].status = status

-----------------------------------------------------------------------------
(* The creator's steps: each may store its effect or not, with or without  *)
(* an answer.                                                              *)

Quiet == UNCHANGED <<rows, claims, exec, audited, late, app, up, caller, calls, effects,
                     refused, hangups, crashes>>

LEMMA InvokeFacts ==
  ASSUME TypeOK, NEW a \in Actions, Invoke(a)
  PROVE  /\ up /\ creator[a].pc = "Idle" /\ Quiet /\ approval' = approval
         /\ \/ /\ RunGoes(a, "Queued", run[a].revision) /\ faults' = faults
               /\ CreatorAt(a, "Plan", 0)
            \/ /\ RunGoes(a, "Queued", run[a].revision) \/ run' = run
               /\ faults' = faults + 1
               /\ CreatorAt(a, "Done", creator[a].seen)
BY CreatorMoves, RunMoves, Zenon
   DEF Invoke, Quiet, StoreCall, Fault, CreatorStep, store, bounds, remote, CreatorLabel,
       RunStatus

LEMMA AdvanceFacts ==
  ASSUME TypeOK, NEW a \in Actions, NEW from, NEW next \in RunStatus, NEW to \in CreatorLabel,
         Advance(a, from, next, to)
  PROVE  /\ up /\ creator[a].pc = from /\ Quiet /\ approval' = approval
         /\ \/ /\ MayTransition(a, creator[a].seen, next) /\ faults' = faults
               /\ RunGoes(a, next, run[a].revision + 1) /\ CreatorAt(a, to, creator[a].seen + 1)
            \/ /\ ~MayTransition(a, creator[a].seen, next) /\ faults' = faults
               /\ run' = run /\ CreatorAt(a, "Done", creator[a].seen)
            \/ /\ MayTransition(a, creator[a].seen, next) /\ faults' = faults + 1
               /\ run' = run \/ RunGoes(a, next, run[a].revision + 1)
               /\ CreatorAt(a, "Done", creator[a].seen)
<1>1. creator[a].seen + 1 \in Nat
  BY DEF TypeOK, CreatorState
<1> QED
  BY <1>1, CreatorMoves, RunMoves, Zenon
     DEF Advance, Quiet, StoreCall, Fault, CreatorStep, store, bounds, remote, CreatorLabel,
         Transition

(* Only its own creator asks for the approval of an action. *)
LEMMA AskFacts ==
  ASSUME TypeOK, NEW a \in Actions, Ask(a)
  PROVE  /\ up /\ creator[a].pc = "Ask" /\ Quiet /\ run' = run
         /\ CreatorAt(a, "Insert", creator[a].seen) \/ CreatorAt(a, "Done", creator[a].seen)
         /\ approval' = approval \/ ApprovalAt(a, "Pending")
         /\ faults' = faults \/ faults' = faults + 1
<1>1. [status |-> "Pending", revision |-> 0, window |-> run[a].revision] \in ApprovalRow
  BY DEF TypeOK, RunRow, ApprovalRow, ApprovalStatus
<1>2. approval' = [approval EXCEPT ![a] =
        [status |-> "Pending", revision |-> 0, window |-> run[a].revision]] =>
        ApprovalAt(a, "Pending")
  BY <1>1 DEF ApprovalAt, TypeOK
<1> QED
  BY <1>2, CreatorMoves, Zenon
     DEF Ask, Quiet, StoreCall, Fault, CreatorStep, store, bounds, remote, CreatorLabel

LEMMA InsertFacts ==
  ASSUME TypeOK, NEW a \in Actions, Insert(a)
  PROVE  /\ up /\ creator[a].pc = "Insert"
         /\ UNCHANGED <<run, approval, claims, exec, audited, up, caller, calls, refused,
                        hangups, crashes>>
         /\ CreatorAt(a, "Done", creator[a].seen)
         /\ faults' = faults \/ faults' = faults + 1
BY CreatorMoves, Zenon
   DEF Insert, StoreCall, Fault, CreatorStep, store, bounds, remote, CreatorLabel

-----------------------------------------------------------------------------
(* Users, workers and the clock *)

LEMMA DecideFacts ==
  ASSUME TypeOK, NEW a \in Actions, NEW decision \in {"Approved", "Denied"}, Decide(a, decision)
  PROVE  /\ UNCHANGED <<run, claims, exec, audited, up, creator, caller, calls, hangups, crashes>>
         /\ faults' = faults \/ faults' = faults + 1
         /\ \/ /\ approval[a].status = "Pending" /\ ApprovalAt(a, decision)
               /\ refused' = refused \/ (decision = "Denied" /\ refused' = refused \cup {a})
            \/ approval' = approval /\ refused' = refused
<1>1. approval \in [Actions -> ApprovalRow] /\ approval[a] \in ApprovalRow
  BY DEF TypeOK
<1>2. ASSUME approval' = [approval EXCEPT ![a].status = decision, ![a].revision = 1]
      PROVE  ApprovalAt(a, decision)
  <2> DEFINE row == [status |-> decision, revision |-> 1, window |-> approval[a].window]
  <2>1. row \in ApprovalRow
    BY <1>1 DEF ApprovalRow, ApprovalStatus
  <2>2. approval'[a] = row
    BY <1>1, <1>2, Zenon DEF ApprovalRow
  <2>3. \A b \in Actions : b # a => approval'[b] = approval[b]
    BY <1>1, <1>2, Zenon
  <2>4. approval' = [approval EXCEPT ![a] = row]
    BY <1>1, <1>2, <2>2, <2>3, Zenon
  <2> QED
    BY <1>1, <2>1, <2>2, <2>3, <2>4, Zenon DEF ApprovalAt
<1> QED
  BY <1>2, Zenon DEF Decide, MayDecide, StoreCall, Fault, UserStep, store, bounds, remote

LEMMA CancelFacts ==
  ASSUME TypeOK, NEW a \in Actions, CancelRun(a)
  PROVE  /\ UNCHANGED <<approval, claims, exec, audited, up, creator, caller, calls, hangups,
                        crashes>>
         /\ run[a].status # "None"
         /\ faults' = faults \/ faults' = faults + 1
         /\ \/ /\ MayCancel(a)
               /\ RunGoes(a, "Cancelled", run[a].revision + 1)
               /\ refused' = refused \/ refused' = refused \cup {a}
            \/ run' = run /\ refused' = refused
<1>1. "Cancelled" \in RunStatus
  BY DEF RunStatus
<1>2. Transition(a, "Cancelled") => RunGoes(a, "Cancelled", run[a].revision + 1)
  BY <1>1, RunMoves, Zenon DEF Transition
<1> QED
  BY <1>2, Zenon DEF CancelRun, StoreCall, Fault, UserStep, store, bounds, remote, Transition

LEMMA WorkerFacts ==
  ASSUME TypeOK, NEW a \in Actions, WorkerClaims(a) \/ WorkerFails(a)
  PROVE  /\ UNCHANGED <<approval, claims, exec, audited, up, creator, caller, calls, refused,
                        faults, hangups, crashes>>
         /\ \/ /\ run[a].status = "Queued"
               /\ RunAt(a, "Planning", run[a].revision + 1) /\ run'[a].leased
            \/ /\ run[a].leased
               /\ RunAt(a, "Failed", run[a].revision + 1) /\ ~run'[a].leased
<1>1. {"Planning", "Failed"} \subseteq RunStatus
  BY DEF RunStatus
<1> QED
  BY <1>1, RunMoves, Zenon DEF WorkerClaims, WorkerFails, remote, bounds

-----------------------------------------------------------------------------
(* The steps of an execute request.  What every one of them leaves alone,  *)
(* and whether a database call failed.                                     *)

Alone == UNCHANGED <<rows, late, app, up, creator, refused, hangups, crashes>>
Well == faults' = faults
Broken == faults' = faults + 1

LEMMA ReadApprovalFacts ==
  ASSUME TypeOK, NEW c \in Clients, ReadApproval(c)
  PROVE  /\ up /\ caller[c].pc = "Read"
         /\ Alone /\ UNCHANGED <<run, approval, claims, exec, audited, calls>>
         /\ Well \/ Broken
         /\ CallerAt(c, "Consume") \/ CallerAt(c, "Verify") \/ CallerAt(c, "Idle")
BY CallerMoves, Zenon
   DEF ReadApproval, At, StoreRead, Fault, CallerStep, store, bounds, remote, CallerLabel,
       Alone, Well, Broken

LEMMA ConsumeFacts ==
  ASSUME TypeOK, NEW c \in Clients, NEW a, a = caller[c].action, Consume(c)
  PROVE  /\ up /\ caller[c].pc = "Consume"
         /\ Alone /\ UNCHANGED <<exec, audited, calls>>
         /\ \/ /\ approval[a].status = "Approved" /\ a \notin claims
               /\ run[a].status = "AwaitingApproval"
               /\ ApprovalAt(a, "Consumed") /\ RunGoes(a, "Running", run[a].revision + 1)
               /\ claims' = claims \cup {a}
               /\ (Well /\ CallerAt(c, "Verify")) \/ (Broken /\ CallerAt(c, "Idle"))
            \/ /\ UNCHANGED <<run, approval, claims>>
               /\ Well \/ Broken
               /\ CallerAt(c, "Idle")
<1>0. a \in Actions /\ {"Running"} \subseteq RunStatus /\ {"Verify"} \subseteq CallerLabel
  BY DEF TypeOK, CallerState, RunStatus, CallerLabel
<1>1. approval \in [Actions -> ApprovalRow] /\ approval[a] \in ApprovalRow
  BY <1>0 DEF TypeOK
<1>2. ASSUME approval' = [approval EXCEPT ![a].status = "Consumed", ![a].revision = @ + 1]
      PROVE  ApprovalAt(a, "Consumed")
  <2> DEFINE row == [status |-> "Consumed", revision |-> approval[a].revision + 1,
                     window |-> approval[a].window]
  <2>1. row \in ApprovalRow
    BY <1>1 DEF ApprovalRow, ApprovalStatus
  <2>2. approval'[a] = row
    BY <1>0, <1>1, <1>2, Zenon DEF ApprovalRow
  <2>3. \A b \in Actions : b # a => approval'[b] = approval[b]
    BY <1>1, <1>2, Zenon
  <2>4. approval' = [approval EXCEPT ![a] = row]
    BY <1>0, <1>1, <1>2, <2>2, <2>3, Zenon
  <2> QED
    BY <1>0, <1>1, <2>1, <2>2, <2>3, <2>4, Zenon DEF ApprovalAt
<1>3. run' = Moved(a, "Running") => RunGoes(a, "Running", run[a].revision + 1)
  BY <1>0, RunMoves, Zenon
<1> QED
  BY <1>0, <1>2, <1>3, CallerMoves, Zenon
     DEF Consume, At, StoreCall, MayConsume, MayConsumeInAnyWindow, InWindow,
         StartedByConsumption, Fault, CallerStep, store, bounds, remote, Alone, Well, Broken

LEMMA VerifyFacts ==
  ASSUME TypeOK, NEW c \in Clients, NEW a, a = caller[c].action, Verify(c)
  PROVE  /\ up /\ caller[c].pc = "Verify"
         /\ Alone /\ UNCHANGED <<run, approval, claims, exec, audited, calls>>
         /\ \/ a \in claims /\ CallerAt(c, "Reserve") /\ Well
            \/ a \notin claims /\ CallerAt(c, "Idle") /\ Well
            \/ CallerAt(c, "Idle") /\ Broken
BY CallerMoves, Zenon
   DEF Verify, At, StoreRead, Fault, CallerStep, store, bounds, remote, CallerLabel,
       Alone, Well, Broken

(* The attempt of a has a new state. *)
ExecAt(a, state) ==
  /\ exec' \in [Actions -> {"None", "started", "uncertain", "performed"}]
  /\ \A b \in Actions \ {a} : exec'[b] = exec[b]
  /\ exec'[a] = state

LEMMA ExecMoves ==
  ASSUME TypeOK, NEW a \in Actions, NEW state \in {"started", "uncertain", "performed"},
         SetExec(a, state)
  PROVE  ExecAt(a, state) /\ UNCHANGED <<run, approval, rows, claims, audited>>
BY DEF SetExec, ExecAt, TypeOK

LEMMA ReserveFacts ==
  ASSUME TypeOK, NEW c \in Clients, NEW a, a = caller[c].action, Reserve(c)
  PROVE  /\ up /\ caller[c].pc = "Reserve"
         /\ Alone /\ UNCHANGED <<run, approval, claims, audited, calls>>
         /\ \/ exec[a] = "None" /\ ExecAt(a, "started") /\ CallerAt(c, "Call") /\ Well
            \/ exec[a] # "None" /\ exec' = exec /\ CallerAt(c, "Idle") /\ Well
            \/ /\ exec[a] = "None" /\ (ExecAt(a, "started") \/ exec' = exec)
               /\ CallerAt(c, "Idle") /\ Broken
<1>1. a \in Actions /\ {"Call"} \subseteq CallerLabel
  BY DEF TypeOK, CallerState, CallerLabel
<1> QED
  BY <1>1, CallerMoves, ExecMoves, Zenon
     DEF Reserve, At, StoreCall, Unreserved, Fault, CallerStep, store, bounds, remote,
         Alone, Well, Broken

(* The request may leave for the remote service. *)
Sent(a) ==
  /\ calls' \in [Actions -> Nat]
  /\ \A b \in Actions \ {a} : calls'[b] = calls[b]
  /\ calls'[a] = calls[a] \/ calls'[a] = calls[a] + 1

LEMMA AttemptFacts ==
  ASSUME TypeOK, NEW a \in Actions, NEW sent \in BOOLEAN, NEW effect \in BOOLEAN,
         Attempt(a, sent, effect)
  PROVE  Sent(a) /\ (sent => calls'[a] = calls[a] + 1)
BY DEF Attempt, Sent, TypeOK

LEMMA CallFacts ==
  ASSUME TypeOK, NEW c \in Clients, NEW a, a = caller[c].action,
         NEW sent \in BOOLEAN, NEW effect \in BOOLEAN, NEW answered \in BOOLEAN,
         Call(c, sent, effect, answered)
  PROVE  /\ up /\ caller[c].pc = "Call"
         /\ Alone /\ UNCHANGED <<run, approval, claims, exec, audited>> /\ Well
         /\ Sent(a)
         /\ \/ CallerAt(c, "Perform") /\ calls'[a] = calls[a] + 1
            \/ CallerAt(c, "Uncertain")
<1>1. a \in Actions /\ {"Perform", "Uncertain"} \subseteq CallerLabel
  BY DEF TypeOK, CallerState, CallerLabel
<1> QED
  BY <1>1, CallerMoves, AttemptFacts, Zenon
     DEF Call, At, CallSucceeds, CallerStep, store, bounds, Alone, Well

LEMMA MarkUncertainFacts ==
  ASSUME TypeOK, NEW c \in Clients, NEW a, a = caller[c].action, MarkUncertain(c)
  PROVE  /\ up /\ caller[c].pc = "Uncertain"
         /\ Alone /\ UNCHANGED <<run, approval, claims, audited, calls>>
         /\ Well \/ Broken
         /\ (exec[a] = "started" /\ ExecAt(a, "uncertain")) \/ exec' = exec
         /\ CallerAt(c, "FailRead")
<1>1. a \in Actions /\ {"FailRead"} \subseteq CallerLabel
  BY DEF TypeOK, CallerState, CallerLabel
<1> QED
  BY <1>1, CallerMoves, ExecMoves, Zenon
     DEF MarkUncertain, At, StoreCall, Fault, CallerStep, store, bounds, remote,
         Alone, Well, Broken

LEMMA PerformFacts ==
  ASSUME TypeOK, NEW c \in Clients, NEW a, a = caller[c].action, Perform(c)
  PROVE  /\ up /\ caller[c].pc = "Perform"
         /\ Alone /\ UNCHANGED <<run, approval, claims, audited, calls>>
         /\ \/ exec[a] = "started" /\ ExecAt(a, "performed") /\ CallerAt(c, "Reconcile") /\ Well
            \/ exec[a] # "started" /\ exec' = exec /\ CallerAt(c, "FailRead") /\ Well
            \/ /\ exec[a] = "started" /\ (ExecAt(a, "performed") \/ exec' = exec)
               /\ CallerAt(c, "Idle") /\ Broken
<1>1. a \in Actions /\ {"Reconcile", "FailRead"} \subseteq CallerLabel
  BY DEF TypeOK, CallerState, CallerLabel
<1> QED
  BY <1>1, CallerMoves, ExecMoves, Zenon
     DEF Perform, At, StoreCall, Fault, CallerStep, store, bounds, remote, Alone, Well, Broken

LEMMA ReconcileFacts ==
  ASSUME TypeOK, NEW c \in Clients, NEW a, a = caller[c].action, Reconcile(c)
  PROVE  /\ up /\ caller[c].pc = "Reconcile"
         /\ Alone /\ UNCHANGED <<run, approval, claims, exec, calls>>
         /\ audited' = audited \/ audited' = audited \cup {a}
         /\ \/ CallerAt(c, "DoneRead") /\ Well
            \/ ~(a \in claims /\ ~run[a].leased /\ a \notin audited) /\ CallerAt(c, "Idle") /\ Well
            \/ CallerAt(c, "Idle") /\ Broken
<1>1. {"DoneRead"} \subseteq CallerLabel
  BY DEF CallerLabel
<1> QED
  BY <1>1, CallerMoves, Zenon
     DEF Reconcile, At, StoreCall, Fault, CallerStep, store, bounds, remote, Alone, Well, Broken

(* Where the two final reads lead, where a run ends, and where a request still holds nothing. *)
SettleLabel == {"Fail", "Succeed"}
EndStatus == {"Failed", "Succeeded"}
FreshLabel == {"Idle", "Read", "Consume", "Verify"}

LEMMA ReadRunFacts ==
  ASSUME TypeOK, NEW c \in Clients, NEW a, a = caller[c].action, NEW from,
         NEW to \in SettleLabel, ReadRun(c, from, to)
  PROVE  /\ up /\ caller[c].pc = from
         /\ Alone /\ UNCHANGED <<run, approval, claims, exec, audited, calls>>
         /\ \/ CallerAt(c, to) /\ caller'[c].seen = run[a].revision /\ Well
            \/ CallerAt(c, "Idle") /\ Broken
<1>1. a \in Actions /\ SettleLabel \subseteq CallerLabel
  BY DEF TypeOK, CallerState, CallerLabel, SettleLabel
<1>2. run[a].revision \in Nat
  BY <1>1, Zenon DEF TypeOK, RunRow
<1>3. ASSUME caller' = [caller EXCEPT ![c].pc = to, ![c].seen = run[caller[c].action].revision]
      PROVE  CallerAt(c, to) /\ caller'[c].seen = run[a].revision
  <2> DEFINE row == [pc |-> to, action |-> caller[c].action, want |-> caller[c].want,
                     seen |-> run[a].revision]
  <2>1. caller \in [Clients -> CallerState] /\ caller[c] \in CallerState
    BY DEF TypeOK
  <2>2. row \in CallerState
    BY <1>1, <1>2, <2>1, Zenon DEF CallerState
  <2>3. caller'[c] = row
    BY <1>3, <2>1, Zenon DEF CallerState
  <2>4. \A d \in Clients : d # c => caller'[d] = caller[d]
    BY <1>3, <2>1, Zenon
  <2>5. caller' = [caller EXCEPT ![c] = row]
    BY <1>3, <2>1, <2>3, <2>4, Zenon
  <2> QED
    BY <2>1, <2>2, <2>3, <2>4, <2>5, Zenon DEF CallerAt
<1> QED
  BY <1>3, CallerMoves, Zenon
     DEF ReadRun, At, StoreRead, Fault, CallerStep, store, bounds, remote, Alone, Well, Broken,
         CallerLabel

LEMMA SettleFacts ==
  ASSUME TypeOK, NEW c \in Clients, NEW a, a = caller[c].action, NEW from,
         NEW next \in EndStatus, Settle(c, from, next)
  PROVE  /\ up /\ caller[c].pc = from
         /\ Alone /\ UNCHANGED <<approval, claims, exec, audited, calls>>
         /\ CallerAt(c, "Idle")
         /\ \/ /\ MayTransition(a, caller[c].seen, next) /\ (Well \/ Broken)
               /\ RunGoes(a, next, run[a].revision + 1)
            \/ ~MayTransition(a, caller[c].seen, next) /\ run' = run /\ Well
            \/ run' = run /\ Broken
<1>1. a \in Actions /\ next \in RunStatus
  BY DEF TypeOK, CallerState, RunStatus, EndStatus
<1>2. run' = Moved(a, next) => RunGoes(a, next, run[a].revision + 1)
  BY <1>1, RunMoves, Zenon
<1> QED
  BY <1>1, <1>2, CallerMoves, Zenon
     DEF Settle, At, StoreCall, Transition, Fault, CallerStep, store, bounds, remote, Alone,
         Well, Broken, CallerLabel

LEMMA HangUpFacts ==
  ASSUME TypeOK, NEW c \in Clients, NEW a, a = caller[c].action, HangUp(c)
  PROVE  /\ up /\ UNCHANGED <<rows, late, app, up, creator, refused, crashes, faults>>
         /\ UNCHANGED <<run, approval, claims, exec, audited>>
         /\ hangups' = hangups + 1
         /\ CallerAt(c, "Idle")
         /\ calls' = calls \/ (caller[c].pc = "Call" /\ Sent(a) /\ calls'[a] = calls[a] + 1)
<1>1. a \in Actions /\ {"Idle"} \subseteq CallerLabel
  BY DEF TypeOK, CallerState, CallerLabel
<1> QED
  BY <1>1, CallerMoves, AttemptFacts, Zenon DEF HangUp, CallerStep, store, remote

LEMMA ExecuteFacts ==
  ASSUME TypeOK, NEW c \in Clients, NEW a \in Actions, NEW want \in 1..2, Execute(c, a, want)
  PROVE  /\ up /\ Alone /\ UNCHANGED <<run, approval, claims, exec, audited, calls, faults>>
         /\ caller[c].pc = "Idle"
         /\ caller' \in [Clients -> CallerState]
         /\ \A d \in Clients \ {c} : caller'[d] = caller[d]
         /\ caller'[c].pc = "Read"
<1>1. [pc |-> "Read", action |-> a, want |-> want, seen |-> 0] \in CallerState
  BY DEF CallerState, CallerLabel
<1>2. caller \in [Clients -> CallerState]
  BY DEF TypeOK
<1> QED
  BY <1>1, <1>2, Zenon DEF Execute, At, Alone, CallerStep, store, remote, bounds

LEMMA CrashFacts ==
  ASSUME TypeOK, Crash
  PROVE  /\ up /\ ~up' /\ crashes' = crashes + 1
         /\ UNCHANGED <<run, approval, claims, exec, audited, calls, refused, faults, hangups>>
         /\ caller' \in [Clients -> CallerState] /\ \A c \in Clients : caller'[c].pc = "Idle"
         /\ creator' \in [Actions -> CreatorState]
         /\ \A a \in Actions : creator'[a].pc = IF creator[a].pc = "Idle" THEN "Idle" ELSE "Done"
<1>1. Idle \in CallerState /\ Idle.pc = "Idle"
  BY CapabilityAssumption DEF Idle, CallerLabel, CallerState
<1>2. \A a \in Actions : creator[a] \in CreatorState
  BY DEF TypeOK
<1>3. ASSUME NEW a \in Actions
      PROVE  /\ [creator[a] EXCEPT !.pc = "Done"] \in CreatorState
             /\ [creator[a] EXCEPT !.pc = "Done"].pc = "Done"
  BY <1>2 DEF CreatorState, CreatorLabel
<1>4. /\ creator' \in [Actions -> CreatorState]
      /\ \A a \in Actions : creator'[a].pc = IF creator[a].pc = "Idle" THEN "Idle" ELSE "Done"
  BY <1>2, <1>3, Zenon DEF Crash
<1>5. caller' \in [Clients -> CallerState] /\ \A c \in Clients : caller'[c].pc = "Idle"
  BY <1>1, Zenon DEF Crash
<1> QED
  BY <1>4, <1>5, Zenon DEF Crash, store, remote, bounds

LEMMA RestartFacts ==
  ASSUME TypeOK, Restart
  PROVE  /\ ~up /\ up'
         /\ UNCHANGED <<approval, claims, exec, audited, calls, refused, creator, caller,
                        faults, hangups, crashes>>
         /\ run' \in [Actions -> RunRow]
         /\ \A a \in Actions :
              IF Interrupted(a)
              THEN run'[a].status = "Failed" /\ run'[a].leased = run[a].leased
              ELSE run'[a] = run[a]
<1>1. "Failed" \in RunStatus /\ \A a \in Actions : run[a] \in RunRow
  BY DEF RunStatus, TypeOK
<1>2. ASSUME NEW a \in Actions
      PROVE  /\ Moved(a, "Failed")[a] \in RunRow
             /\ Moved(a, "Failed")[a].status = "Failed"
             /\ Moved(a, "Failed")[a].leased = run[a].leased
  <2> DEFINE row == [status |-> "Failed", revision |-> run[a].revision + 1,
                     leased |-> run[a].leased]
  <2>1. row \in RunRow /\ row.status = "Failed" /\ row.leased = run[a].leased
    BY <1>1 DEF RunRow
  <2>2. Moved(a, "Failed")[a] = row
    BY <1>1, Zenon DEF Moved, RunRow, TypeOK
  <2> QED
    BY <2>1, <2>2, Zenon
<1>3. run' \in [Actions -> RunRow]
  BY <1>1, <1>2, Zenon DEF Restart
<1>4. ASSUME NEW a \in Actions
      PROVE  IF Interrupted(a)
             THEN run'[a].status = "Failed" /\ run'[a].leased = run[a].leased
             ELSE run'[a] = run[a]
  BY <1>2, Zenon DEF Restart
<1> QED
  BY <1>3, <1>4, Zenon DEF Restart, store, remote, bounds

-----------------------------------------------------------------------------
(* What keeps the invariant *)

(* Nothing happens to the run and the attempt of b. *)
SameAction(b) ==
  /\ run'[b] = run[b] /\ exec'[b] = exec[b] /\ calls'[b] = calls[b]
  /\ b \in audited' <=> b \in audited

LEMMA RowsStay ==
  ASSUME NEW b, Rows(b), SameAction(b), approval'[b] = approval[b], creator'[b] = creator[b],
         b \in claims' <=> b \in claims, b \in refused' <=> b \in refused
  PROVE  Rows(b)'
BY Zenon DEF SameAction, Rows

LEMMA SameRows ==
  ASSUME NEW b, Rows(b), Unspent(b), calls[b] <= 1, SameAction(b),
         approval'[b] = approval[b], creator'[b] = creator[b], crashes' = crashes,
         b \in claims' <=> b \in claims, b \in refused' <=> b \in refused
  PROVE  Rows(b)' /\ Unspent(b)' /\ calls'[b] <= 1
BY RowsStay, Zenon DEF SameAction, Unspent, Callable

LEMMA SameKnowsOf ==
  ASSUME NEW pc, NEW a, NEW seen, KnowsOf(pc, a, seen), claims \subseteq claims',
         crashes' = crashes, pc \in HolderLabel => SameAction(a)
  PROVE  KnowsOf(pc, a, seen)'
<1>1. CASE pc \in HolderLabel
  BY <1>1, Zenon DEF KnowsOf, SameAction, Callable
<1>2. CASE pc \notin HolderLabel
  BY <1>2, Zenon DEF KnowsOf, HolderLabel
<1> QED
  BY <1>1, <1>2

(* A request that stays where it is while nothing happens to what it holds. *)
LEMMA SameKnows ==
  ASSUME NEW d, Knows(d), caller'[d] = caller[d], claims \subseteq claims', crashes' = crashes,
         Holder(d) => SameAction(caller[d].action)
  PROVE  Knows(d)'
BY SameKnowsOf DEF Knows, Holder

(* A request that holds nothing yet. *)
LEMMA FreshKnows ==
  ASSUME NEW c, caller'[c].pc \in FreshLabel
  PROVE  Knows(c)' /\ ~Holder(c)'
BY Zenon DEF FreshLabel, Knows, KnowsOf, Holder, HolderLabel

(* What a request knows where it stands, and where it goes. *)
LEMMA KnownAt ==
  ASSUME NEW c, NEW a, a = caller[c].action, NEW pc, pc = caller[c].pc, Knows(c)
  PROVE  KnowsOf(pc, a, caller[c].seen)
BY DEF Knows

LEMMA KnownClaim ==
  ASSUME NEW pc, NEW a, NEW seen, KnowsOf(pc, a, seen)
  PROVE  /\ pc = "Reserve" => a \in claims
         /\ pc \in HolderLabel => exec[a] # "None"
BY DEF KnowsOf

LEMMA RowsClaim ==
  ASSUME NEW a, Rows(a)
  PROVE  /\ exec[a] # "None" => a \in claims
         /\ exec[a] = "None" => calls[a] = 0 /\ a \notin audited
BY Zenon DEF Rows

LEMMA KnownNext ==
  ASSUME NEW c, NEW a, a = caller[c].action, NEW label, label # "Idle", CallerAt(c, label),
         NEW seen, seen = caller'[c].seen, KnowsOf(label, a, seen)'
  PROVE  Knows(c)'
BY DEF Knows, CallerAt

LEMMA FreshAt ==
  ASSUME NEW c, NEW label \in {"Idle", "Read", "Consume", "Verify"}, CallerAt(c, label)
  PROVE  Knows(c)' /\ ~Holder(c)'
BY FreshKnows DEF CallerAt, FreshLabel

(* A step that leaves the requests and the claimed actions alone. *)
LEMMA Bystanders ==
  ASSUME TypeOK, ActionInv,
         UNCHANGED <<claims, exec, audited, caller, calls, crashes, up>>,
         \A a \in Actions : a \in claims => run'[a] = run[a],
         \A a \in Actions : Rows(a)',
         ~up => \A a \in Actions : creator'[a] = creator[a]
  PROVE  ActionInv'
<1>1. ASSUME NEW d \in Clients PROVE Knows(d)'
  <2>1. caller[d].action \in Actions
    BY DEF TypeOK, CallerState
  <2>2. caller[d].pc = "Reserve" \/ Holder(d) => caller[d].action \in claims
    <3>1. Knows(d) /\ Rows(caller[d].action)
      BY <2>1 DEF ActionInv
    <3> QED
      BY <3>1, KnownClaim, RowsClaim, Zenon DEF Knows, Holder
  <2>3. Knows(d) /\ (Holder(d) => SameAction(caller[d].action))
    BY <2>1, <2>2, Zenon DEF ActionInv, SameAction
  <2> QED
    BY <2>3, SameKnows
<1>2. ASSUME NEW a \in Actions PROVE Unspent(a)' /\ calls'[a] <= 1
  BY DEF ActionInv, Unspent, Callable
<1>3. OneHolder' /\ Down'
  BY Zenon DEF ActionInv, OneHolder, Holder, Down
<1> QED
  BY <1>1, <1>2, <1>3, Zenon DEF ActionInv

LEMMA CreateKeeps ==
  ASSUME TypeOK, ActionInv, NEW a \in Actions, CreateStep(a)
  PROVE  TypeOK' /\ ActionInv'
<1>0. \A b \in Actions : Rows(b)
  BY DEF ActionInv
<1>1. CASE Invoke(a)
  <2>1. TypeOK'
    BY <1>1, InvokeFacts, Counted, ZenonT(30) DEF TypeOK, Quiet, CreatorAt, RunGoes, RunAt
  <2>2. a \notin claims /\ a \notin refused /\ ~run[a].leased /\ approval[a].status = "None"
    BY <1>0, <1>1, InvokeFacts, ZenonT(30) DEF Rows
  <2>3. ASSUME NEW b \in Actions PROVE Rows(b)'
    <3>1. CASE b # a
      BY <1>0, <1>1, <3>1, InvokeFacts, RowsStay, ZenonT(30)
         DEF Quiet, CreatorAt, RunGoes, RunAt, SameAction
    <3>2. CASE b = a
      <4>1. /\ Rows(a) /\ creator[a].pc = "Idle" /\ creator'[a].pc # "Idle"
            /\ run'[a] = run[a] \/ (run'[a].status = "Queued" /\ run'[a].leased = run[a].leased)
            /\ UNCHANGED <<approval, claims, refused, exec, calls, audited>>
        BY <1>0, <1>1, InvokeFacts, ZenonT(30) DEF Quiet, CreatorAt, RunGoes, RunAt
      <4>2. Rows(a)'
        BY <2>2, <4>1, ZenonT(30) DEF Rows
      <4> QED
        BY <3>2, <4>2
    <3> QED
      BY <3>1, <3>2, Zenon
  <2> QED
    BY <1>1, <2>1, <2>2, <2>3, InvokeFacts, Bystanders, Zenon DEF Quiet, RunGoes, RunAt
<1>2. ASSUME NEW from \in {"Plan", "Await"}, NEW next \in {"Planning", "AwaitingApproval"},
             NEW to \in {"Await", "Ask"}, Advance(a, from, next, to)
      PROVE  TypeOK' /\ ActionInv'
  <2>0. next \in RunStatus /\ to \in CreatorLabel
    BY <1>2 DEF RunStatus, CreatorLabel
  <2>1. /\ up /\ creator[a].pc = from /\ Quiet /\ approval' = approval
        /\ faults' = faults \/ faults' = faults + 1
        /\ \E n : CreatorAt(a, to, n) \/ CreatorAt(a, "Done", n)
        /\ \/ run' = run
           \/ /\ MayTransition(a, creator[a].seen, next)
              /\ RunGoes(a, next, run[a].revision + 1)
    BY <1>2, <2>0, AdvanceFacts, Zenon
  <2>2. TypeOK'
    BY <2>1, Counted, ZenonT(30) DEF TypeOK, Quiet, CreatorAt, RunGoes, RunAt
  <2>3. (a \notin claims /\ a \notin refused) \/ run' = run
    BY <1>0, <2>1, Zenon DEF Rows, MayTransition, CanTransitionTo
  <2>5. /\ from \notin {"Idle", "Insert", "Done"} /\ to # "Idle" /\ next # "Running"
    BY <1>2
  <2>4. ASSUME NEW b \in Actions PROVE Rows(b)'
    <3>1. CASE b # a
      BY <1>0, <2>1, <3>1, RowsStay, ZenonT(30)
         DEF Quiet, CreatorAt, RunGoes, RunAt, SameAction
    <3>2. CASE b = a
      <4>1. /\ Rows(a) /\ creator[a].pc = from
            /\ creator'[a].pc = to \/ creator'[a].pc = "Done"
            /\ run'[a] = run[a] \/ (/\ run'[a].status = next /\ ~run'[a].leased
                                   /\ a \notin claims /\ a \notin refused)
            /\ UNCHANGED <<approval, claims, refused, exec, calls, audited>>
        BY <1>0, <2>1, <2>3, ZenonT(30) DEF Quiet, CreatorAt, RunGoes, RunAt, MayTransition
      <4>3. CASE run'[a] = run[a]
        BY <2>5, <3>2, <4>1, <4>3, ZenonT(30) DEF Rows
      <4>4. CASE /\ run'[a].status = next /\ ~run'[a].leased
                 /\ a \notin claims /\ a \notin refused
        BY <2>5, <3>2, <4>1, <4>4, ZenonT(30) DEF Rows
      <4> QED
        BY <4>1, <4>3, <4>4, Zenon
    <3> QED
      BY <3>1, <3>2, Zenon
  <2> QED
    BY <2>1, <2>2, <2>3, <2>4, Bystanders, Zenon DEF Quiet, RunGoes, RunAt
<1>3. CASE Ask(a)
  <2>1. TypeOK'
    BY <1>3, AskFacts, Counted, ZenonT(30) DEF TypeOK, Quiet, CreatorAt, ApprovalAt
  <2>2. ASSUME NEW b \in Actions PROVE Rows(b)'
    <3>1. CASE b # a
      BY <1>0, <1>3, <3>1, AskFacts, RowsStay, ZenonT(30)
         DEF Quiet, CreatorAt, ApprovalAt, SameAction
    <3>2. CASE b = a
      <4>1. /\ Rows(a) /\ creator[a].pc = "Ask"
            /\ \/ creator'[a].pc = "Insert" \/ creator'[a].pc = "Done"
            /\ approval'[a] = approval[a] \/ approval'[a].status = "Pending"
            /\ UNCHANGED <<run, claims, refused, exec, calls, audited>>
        BY <1>0, <1>3, AskFacts, ZenonT(30) DEF Quiet, CreatorAt, ApprovalAt
      <4>2. \/ approval[a].status = "None" /\ a \notin claims /\ a \notin refused
            \/ run[a].status = "Cancelled"
        BY <4>1, ZenonT(30) DEF Rows
      <4>3. Rows(a)'
        BY <4>1, <4>2, ZenonT(30) DEF Rows
      <4> QED
        BY <3>2, <4>3
    <3> QED
      BY <3>1, <3>2, Zenon
  <2> QED
    BY <1>3, <2>1, <2>2, AskFacts, Bystanders, Zenon DEF Quiet
<1>4. CASE Insert(a)
  <2>1. TypeOK'
    BY <1>4, InsertFacts, Counted, ZenonT(30) DEF TypeOK, CreatorAt
  <2>2. ASSUME NEW b \in Actions PROVE Rows(b)'
    <3>1. CASE b # a
      BY <1>0, <1>4, <3>1, InsertFacts, RowsStay, ZenonT(30) DEF CreatorAt, SameAction
    <3>2. CASE b = a
      <4>1. /\ Rows(a) /\ creator[a].pc = "Insert" /\ creator'[a].pc = "Done"
            /\ UNCHANGED <<run, approval, claims, refused, exec, calls, audited>>
        BY <1>0, <1>4, InsertFacts, ZenonT(30) DEF CreatorAt
      <4>2. Rows(a)'
        BY <4>1, ZenonT(30) DEF Rows
      <4> QED
        BY <3>2, <4>2
    <3> QED
      BY <3>1, <3>2, Zenon
  <2> QED
    BY <1>4, <2>1, <2>2, InsertFacts, Bystanders, Zenon
<1> QED
  BY <1>1, <1>2, <1>3, <1>4, ZenonT(30) DEF CreateStep, Plan, Await

LEMMA OutsiderKeeps ==
  ASSUME TypeOK, ActionInv, NEW a \in Actions,
         \/ \E decision \in {"Approved", "Denied"} : Decide(a, decision)
         \/ CancelRun(a) \/ WorkerClaims(a) \/ WorkerFails(a)
  PROVE  TypeOK' /\ ActionInv'
<1>0. \A b \in Actions : Rows(b)
  BY DEF ActionInv
<1>1. ASSUME NEW decision \in {"Approved", "Denied"}, Decide(a, decision)
      PROVE  TypeOK' /\ ActionInv'
  <2>1. TypeOK'
    BY <1>1, DecideFacts, Counted, ZenonT(30) DEF TypeOK, ApprovalAt
  <2>2. ASSUME NEW b \in Actions PROVE Rows(b)'
    <3>1. CASE b # a
      BY <1>0, <1>1, <3>1, DecideFacts, RowsStay, ZenonT(30) DEF ApprovalAt, SameAction
    <3>2. CASE b = a
      <4>1. /\ Rows(a) /\ UNCHANGED <<run, creator, claims, exec, calls, audited>>
            /\ \/ /\ approval[a].status = "Pending" /\ approval'[a].status = decision
                  /\ a \in refused' => a \in refused \/ decision = "Denied"
               \/ approval'[a] = approval[a] /\ refused' = refused
        BY <1>0, <1>1, DecideFacts, ZenonT(30) DEF ApprovalAt
      <4>2. Rows(a)'
        BY <1>1, <4>1, ZenonT(30) DEF Rows
      <4> QED
        BY <3>2, <4>2
    <3> QED
      BY <3>1, <3>2, Zenon
  <2> QED
    BY <1>1, <2>1, <2>2, DecideFacts, Bystanders, Zenon
<1>2. CASE CancelRun(a)
  <2>1. TypeOK'
    BY <1>2, CancelFacts, Counted, ZenonT(30) DEF TypeOK, RunGoes, RunAt
  <2>2. a \notin claims \/ run' = run
    BY <1>0, <1>2, CancelFacts, Zenon DEF Rows, MayCancel
  <2>3. ASSUME NEW b \in Actions PROVE Rows(b)'
    <3>1. CASE b # a
      BY <1>0, <1>2, <3>1, CancelFacts, RowsStay, ZenonT(30) DEF RunGoes, RunAt, SameAction
    <3>2. CASE b = a
      <4>1. /\ Rows(a) /\ run[a].status # "None"
            /\ UNCHANGED <<approval, creator, claims, exec, calls, audited>>
            /\ \/ /\ a \notin claims /\ run'[a].status = "Cancelled" /\ ~run'[a].leased
               \/ run'[a] = run[a] /\ refused' = refused
        BY <1>0, <1>2, <2>2, CancelFacts, ZenonT(30) DEF RunGoes, RunAt, MayCancel
      <4>3. CASE run'[a] = run[a] /\ refused' = refused
        BY <3>2, <4>1, <4>3, ZenonT(30) DEF Rows
      <4>4. CASE a \notin claims /\ run'[a].status = "Cancelled" /\ ~run'[a].leased
        BY <3>2, <4>1, <4>4, ZenonT(30) DEF Rows
      <4> QED
        BY <4>1, <4>3, <4>4, Zenon
    <3> QED
      BY <3>1, <3>2, Zenon
  <2> QED
    BY <1>2, <2>1, <2>2, <2>3, CancelFacts, Bystanders, Zenon DEF RunGoes, RunAt
<1>3. CASE WorkerClaims(a) \/ WorkerFails(a)
  <2>1. TypeOK'
    BY <1>3, WorkerFacts, Zenon DEF TypeOK, RunGoes, RunAt
  <2>2. a \notin claims
    BY <1>0, <1>3, WorkerFacts, Zenon DEF Rows
  <2>3. ASSUME NEW b \in Actions PROVE Rows(b)'
    <3>1. CASE b # a
      BY <1>0, <1>3, <3>1, WorkerFacts, RowsStay, ZenonT(30) DEF RunAt, SameAction
    <3>2. CASE b = a
      <4>1. /\ Rows(a) /\ UNCHANGED <<approval, creator, claims, refused, exec, calls, audited>>
            /\ \/ run[a].status = "Queued" /\ run'[a].status = "Planning"
               \/ run[a].leased /\ run'[a].status = "Failed" /\ ~run'[a].leased
        BY <1>0, <1>3, WorkerFacts, ZenonT(30) DEF RunAt
      <4>2. Rows(a)'
        BY <2>2, <4>1, ZenonT(30) DEF Rows
      <4> QED
        BY <3>2, <4>2
    <3> QED
      BY <3>1, <3>2, Zenon
  <2> QED
    BY <1>3, <2>1, <2>2, <2>3, WorkerFacts, Bystanders, Zenon DEF RunGoes, RunAt
<1> QED
  BY <1>1, <1>2, <1>3

LEMMA CrashKeeps ==
  ASSUME TypeOK, ActionInv, Crash
  PROVE  TypeOK' /\ ActionInv'
<1>1. crashes' \in Nat
  BY DEF Crash, TypeOK
<1>6. crashes' > 0
  BY DEF Crash, TypeOK
<1>2. ASSUME NEW b \in Actions PROVE Rows(b)' /\ Unspent(b)' /\ calls'[b] <= 1
  <2>1. Rows(b) /\ Unspent(b) /\ calls[b] <= 1
    BY Zenon DEF ActionInv
  <2>2. Rows(b)'
    BY <2>1, CrashFacts, ZenonT(30) DEF Rows
  <2> QED
    BY <1>6, <2>1, <2>2, CrashFacts, ZenonT(30) DEF Unspent, Callable
<1>3. \A d \in Clients : Knows(d)'
  BY CrashFacts, FreshKnows DEF FreshLabel
<1>4. OneHolder' /\ Down'
  BY <1>6, CrashFacts, ZenonT(30) DEF OneHolder, Holder, HolderLabel, Down
<1>5. TypeOK'
  BY <1>1, CrashFacts, Zenon DEF Crash, TypeOK
<1> QED
  BY <1>2, <1>3, <1>4, <1>5, ZenonT(60) DEF ActionInv

LEMMA RestartKeeps ==
  ASSUME TypeOK, ActionInv, Restart
  PROVE  TypeOK' /\ ActionInv'
<1>0. crashes > 0 /\ \A c \in Clients : caller[c].pc = "Idle"
  BY RestartFacts, Zenon DEF ActionInv, Down
<1>1. TypeOK'
  BY RestartFacts, Zenon DEF TypeOK
<1>2. ASSUME NEW b \in Actions PROVE Rows(b)' /\ Unspent(b)' /\ calls'[b] <= 1
  <2>1. /\ Rows(b) /\ Unspent(b) /\ calls[b] <= 1
        /\ UNCHANGED <<approval, creator, claims, refused, exec, calls, audited, crashes>>
        /\ \/ run'[b] = run[b]
           \/ Interrupted(b) /\ run'[b].status = "Failed" /\ ~run'[b].leased
    <3>1. Rows(b) /\ Unspent(b) /\ calls[b] <= 1
      BY Zenon DEF ActionInv
    <3>2. CASE Interrupted(b)
      BY <3>1, <3>2, RestartFacts, ZenonT(30) DEF Interrupted
    <3>3. CASE ~Interrupted(b)
      BY <3>1, <3>3, RestartFacts, ZenonT(30)
    <3> QED
      BY <3>2, <3>3, Zenon
  <2>2. CASE run'[b] = run[b]
    BY <2>1, <2>2, ZenonT(30) DEF Rows, Unspent, Callable
  <2>3. CASE Interrupted(b) /\ run'[b].status = "Failed" /\ ~run'[b].leased
    <3>1. Rows(b)'
      BY <2>1, <2>3, ZenonT(30) DEF Rows, Interrupted
    <3> QED
      BY <1>0, <2>1, <2>3, <3>1, ZenonT(30) DEF Unspent, Callable
  <2> QED
    BY <2>1, <2>2, <2>3, Zenon
<1>3. \A d \in Clients : Knows(d)'
  BY <1>0, RestartFacts, FreshKnows DEF FreshLabel
<1>4. OneHolder' /\ Down'
  BY <1>0, RestartFacts, Zenon DEF OneHolder, Holder, HolderLabel, Down
<1> QED
  BY <1>1, <1>2, <1>3, <1>4, ZenonT(60) DEF ActionInv

(* The steps that change nothing the invariant speaks of. *)
Still ==
  UNCHANGED <<run, approval, claims, exec, audited, up, creator, caller, calls, refused,
              faults, hangups, crashes>>

LEMMA StillSteps ==
  ASSUME \/ InstallApp \/ \E state \in {"enabled", "disabled"} : SetAppEnabled(state)
         \/ \E a \in Actions : Expire(a)
         \/ UNCHANGED vars
  PROVE  Still
BY Zenon DEF InstallApp, SetAppEnabled, Expire, UserStep, vars, store, remote, bounds, Still

LEMMA StillKeeps ==
  ASSUME TypeOK, ActionInv, Still
  PROVE  TypeOK' /\ ActionInv'
<1>1. TypeOK'
  BY ZenonT(60) DEF Still, TypeOK
<1>2. ASSUME NEW a \in Actions PROVE Rows(a)' /\ Unspent(a)' /\ calls'[a] <= 1
  BY SameRows, Zenon DEF Still, ActionInv, SameAction
<1>3. ASSUME NEW c \in Clients PROVE Knows(c)'
  BY SameKnows, Zenon DEF Still, ActionInv, SameAction
<1>4. OneHolder' /\ Down'
  BY Zenon DEF Still, ActionInv, OneHolder, Holder, Down
<1> QED
  BY <1>1, <1>2, <1>3, <1>4, Zenon DEF ActionInv

-----------------------------------------------------------------------------
(* The steps of an execute request *)

(* Another request holds the reservation of a. *)
Rival(c, a) == \E d \in Clients \ {c} : Holder(d) /\ caller[d].action = a

Calm == UNCHANGED <<up, creator, refused, crashes>> /\ faults' \in Nat /\ hangups' \in Nat

LEMMA AloneIsCalm ==
  ASSUME TypeOK, Alone, Well \/ Broken
  PROVE  Calm
BY DEF TypeOK, Alone, Well, Broken, Calm

(* A step of request c for action a keeps the invariant if it keeps what   *)
(* is said of a and c, and changes nothing of a while another holds it.    *)
LEMMA RequestFrame ==
  ASSUME TypeOK, ActionInv, NEW c \in Clients, NEW a \in Actions, up, Calm,
         caller' \in [Clients -> CallerState],
         \A d \in Clients \ {c} : caller'[d] = caller[d],
         run' \in [Actions -> RunRow], approval' \in [Actions -> ApprovalRow],
         exec' \in [Actions -> {"None", "started", "uncertain", "performed"}],
         calls' \in [Actions -> Nat],
         \A b \in Actions \ {a} : /\ SameAction(b) /\ approval'[b] = approval[b]
                                  /\ b \in claims' <=> b \in claims,
         claims \subseteq claims',
         Rival(c, a) => SameAction(a),
         Holder(c)' => caller'[c].action = a /\ ~Rival(c, a),
         Rows(a)', Unspent(a)', calls'[a] <= 1, Knows(c)'
  PROVE  TypeOK' /\ ActionInv'
<1>1. UNCHANGED <<up, creator, refused, crashes>> /\ faults' \in Nat /\ hangups' \in Nat
  BY Zenon DEF Calm
<1>2. ASSUME NEW b \in Actions PROVE Rows(b)' /\ Unspent(b)' /\ calls'[b] <= 1
  BY <1>1, SameRows, Zenon DEF ActionInv
<1>3. ASSUME NEW d \in Clients PROVE Knows(d)'
  <2>1. CASE d = c
    BY <2>1, Zenon
  <2>2. CASE d # c
    <3>1. caller[d].action \in Actions /\ caller'[d] = caller[d] /\ Knows(d)
      BY <2>2, Zenon DEF TypeOK, CallerState, ActionInv
    <3>2. Holder(d) => SameAction(caller[d].action)
      BY <2>2, <3>1, Zenon DEF Rival
    <3> QED
      BY <1>1, <3>1, <3>2, SameKnows, Zenon
  <2> QED
    BY <2>1, <2>2, Zenon
<1>4. OneHolder'
  BY ZenonT(60) DEF ActionInv, OneHolder, Holder, Rival
<1>5. Down'
  BY <1>1, Zenon DEF Down
<1>6. TypeOK'
  BY <1>1, Zenon DEF TypeOK
<1> QED
  BY <1>2, <1>3, <1>4, <1>5, <1>6, Zenon DEF ActionInv

(* What is known of the request that takes the step. *)
LEMMA RequestKnows ==
  ASSUME TypeOK, ActionInv, NEW c \in Clients, NEW a, a = caller[c].action
  PROVE  /\ a \in Actions /\ Rows(a) /\ Unspent(a) /\ calls[a] \in Nat /\ calls[a] <= 1 /\ Knows(c)
         /\ Holder(c) => ~Rival(c, a) /\ exec[a] # "None" /\ a \in claims
         /\ Rival(c, a) => exec[a] # "None" /\ a \in claims
<1>1. a \in Actions
  BY DEF TypeOK, CallerState
<1>2. Rows(a) /\ Unspent(a) /\ calls[a] \in Nat /\ calls[a] <= 1 /\ Knows(c)
  BY <1>1, Zenon DEF ActionInv, TypeOK
<1>3. ASSUME NEW d \in Clients, Holder(d), caller[d].action = a
      PROVE  exec[a] # "None" /\ a \in claims
  <2>1. Knows(d)
    BY DEF ActionInv
  <2> QED
    BY <1>2, <1>3, <2>1, KnownClaim, RowsClaim, Zenon DEF Knows, Holder
<1>4. Holder(c) => ~Rival(c, a)
  BY DEF ActionInv, OneHolder, Rival
<1> QED
  BY <1>1, <1>2, <1>3, <1>4, Zenon DEF Rival

(* A step of a request that stores nothing. *)
LEMMA RequestReads ==
  ASSUME TypeOK, ActionInv, NEW c \in Clients, NEW label, CallerAt(c, label),
         up, Alone, Well \/ Broken, UNCHANGED <<run, approval, claims, exec, audited, calls>>,
         Knows(c)', Holder(c)' => Holder(c)
  PROVE  TypeOK' /\ ActionInv'
<1>a. PICK a \in Actions : a = caller[c].action
  BY ZenonT(60) DEF TypeOK, CallerState
<1>0. Rows(a) /\ Unspent(a) /\ calls[a] <= 1 /\ (Holder(c) => ~Rival(c, a))
  BY <1>a, RequestKnows, Zenon
<1>1. Rows(a)' /\ Unspent(a)' /\ calls'[a] <= 1
  BY <1>0, SameRows, Zenon DEF Alone, SameAction
<1>2. Holder(c)' => caller'[c].action = a /\ ~Rival(c, a)
  BY <1>0, <1>a, Zenon DEF CallerAt, Holder, HolderLabel
<1>3. \A b \in Actions : SameAction(b)
  BY ZenonT(60) DEF SameAction
<1>4. /\ run' \in [Actions -> RunRow] /\ approval' \in [Actions -> ApprovalRow]
      /\ exec' \in [Actions -> {"None", "started", "uncertain", "performed"}]
      /\ calls' \in [Actions -> Nat]
  BY ZenonT(60) DEF TypeOK
<1> QED
  BY <1>1, <1>2, <1>3, <1>4, AloneIsCalm, RequestFrame, Zenon DEF CallerAt

(* A step of a request that writes its capability_action_executions row. *)
LEMMA MarkedRows ==
  ASSUME NEW a, Rows(a), a \in claims, exec'[a] # "None",
         UNCHANGED <<run, approval, claims, audited, calls, creator, refused>>
  PROVE  Rows(a)'
BY Zenon DEF Rows

LEMMA RequestMarks ==
  ASSUME TypeOK, ActionInv, NEW c \in Clients, NEW a, a = caller[c].action, NEW label,
         CallerAt(c, label), up, Alone, Well \/ Broken,
         UNCHANGED <<run, approval, claims, audited, calls>>,
         NEW state \in {"started", "uncertain", "performed"}, ExecAt(a, state),
         a \in claims, ~Rival(c, a), Knows(c)'
  PROVE  TypeOK' /\ ActionInv'
<1>0. a \in Actions /\ Rows(a) /\ calls[a] <= 1
  BY RequestKnows, Zenon
<1>1. Rows(a)'
  <2>1. exec'[a] # "None" /\ UNCHANGED <<creator, refused>>
    BY <1>0, Zenon DEF Alone, ExecAt
  <2> QED
    BY <1>0, <2>1, MarkedRows, Zenon
<1>u. Unspent(a)' /\ calls'[a] <= 1
  BY <1>0, Zenon DEF ExecAt, Unspent
<1>2. Holder(c)' => caller'[c].action = a
  BY Zenon DEF CallerAt, Holder, HolderLabel
<1>3. \A b \in Actions \ {a} : SameAction(b)
  BY Zenon DEF SameAction, ExecAt
<1>4. /\ run' \in [Actions -> RunRow] /\ approval' \in [Actions -> ApprovalRow]
      /\ exec' \in [Actions -> {"None", "started", "uncertain", "performed"}]
      /\ calls' \in [Actions -> Nat]
  BY Zenon DEF TypeOK, ExecAt
<1> QED
  BY <1>0, <1>1, <1>u, <1>2, <1>3, <1>4, AloneIsCalm, RequestFrame, Zenon DEF CallerAt

LEMMA RequestKeeps ==
  ASSUME TypeOK, ActionInv, NEW c \in Clients, HandlerStep(c)
  PROVE  TypeOK' /\ ActionInv'
<1>a. PICK a \in Actions : a = caller[c].action
  BY DEF TypeOK, CallerState
<1>0. /\ Rows(a) /\ Unspent(a) /\ calls[a] \in Nat /\ calls[a] <= 1 /\ Knows(c)
      /\ Holder(c) => ~Rival(c, a) /\ exec[a] # "None" /\ a \in claims
      /\ Rival(c, a) => exec[a] # "None" /\ a \in claims
  BY <1>a, RequestKnows, Zenon
<1>t. /\ run \in [Actions -> RunRow] /\ approval \in [Actions -> ApprovalRow]
      /\ exec \in [Actions -> {"None", "started", "uncertain", "performed"}]
      /\ calls \in [Actions -> Nat]
  BY DEF TypeOK
<1>1. CASE ReadApproval(c)
  <2>1. /\ up /\ Alone /\ UNCHANGED <<run, approval, claims, exec, audited, calls>>
        /\ Well \/ Broken
        /\ \E label \in {"Consume", "Verify", "Idle"} : CallerAt(c, label)
    BY <1>1, ReadApprovalFacts, Zenon
  <2>2. PICK label \in {"Consume", "Verify", "Idle"} : CallerAt(c, label)
    BY <2>1
  <2>3. Knows(c)' /\ ~Holder(c)'
    BY <2>2, FreshAt
  <2> QED
    BY <2>1, <2>2, <2>3, RequestReads, Zenon
<1>2. CASE Consume(c)
  <2>1. /\ up /\ Alone /\ UNCHANGED <<exec, audited, calls>> /\ (Well \/ Broken)
        /\ CallerAt(c, "Verify") \/ CallerAt(c, "Idle")
        /\ \/ /\ approval[a].status = "Approved" /\ a \notin claims
              /\ run[a].status = "AwaitingApproval"
              /\ ApprovalAt(a, "Consumed") /\ RunGoes(a, "Running", run[a].revision + 1)
              /\ claims' = claims \cup {a}
           \/ UNCHANGED <<run, approval, claims>>
    BY <1>2, <1>a, ConsumeFacts, Zenon
  <2>2. Knows(c)' /\ ~Holder(c)'
    BY <2>1, FreshAt, Zenon
  <2>3. CASE UNCHANGED <<run, approval, claims>>
    BY <2>1, <2>2, <2>3, RequestReads, Zenon
  <2>4. CASE /\ approval[a].status = "Approved" /\ a \notin claims
             /\ run[a].status = "AwaitingApproval"
             /\ ApprovalAt(a, "Consumed") /\ RunGoes(a, "Running", run[a].revision + 1)
             /\ claims' = claims \cup {a}
    <3>1. exec[a] = "None" /\ a \notin refused /\ ~run[a].leased /\ ~Rival(c, a)
      BY <1>0, <2>4, Zenon DEF Rows
    <3>2. Rows(a)'
      BY <1>0, <2>1, <2>4, <3>1, Zenon DEF Alone, Rows, ApprovalAt, RunGoes, RunAt
    <3>u. Unspent(a)' /\ calls'[a] <= 1
      BY <1>0, <2>1, <2>4, Zenon DEF Unspent, Callable, RunGoes, RunAt
    <3>3. \A b \in Actions \ {a} :
            SameAction(b) /\ approval'[b] = approval[b] /\ (b \in claims' <=> b \in claims)
      BY <2>1, <2>4, Zenon DEF SameAction, ApprovalAt, RunGoes, RunAt
    <3>4. /\ claims \subseteq claims' /\ run' \in [Actions -> RunRow]
          /\ approval' \in [Actions -> ApprovalRow]
      BY <2>4, Zenon DEF ApprovalAt, RunGoes, RunAt
    <3>5. caller' \in [Clients -> CallerState] /\ \A d \in Clients \ {c} : caller'[d] = caller[d]
      BY <2>1, Zenon DEF CallerAt
    <3>6. /\ exec' \in [Actions -> {"None", "started", "uncertain", "performed"}]
          /\ calls' \in [Actions -> Nat]
      BY <1>t, <2>1, Zenon
    <3>7. /\ up /\ Alone /\ (Well \/ Broken)
          /\ Rival(c, a) => SameAction(a)
          /\ Holder(c)' => caller'[c].action = a /\ ~Rival(c, a)
      BY <2>1, <2>2, <3>1, Zenon
    <3> QED
      BY <2>2, <3>2, <3>u, <3>3, <3>4, <3>5, <3>6, <3>7, AloneIsCalm, RequestFrame, Zenon
  <2> QED
    BY <2>1, <2>3, <2>4, Zenon
<1>3. CASE Verify(c)
  <2>1. /\ up /\ Alone /\ UNCHANGED <<run, approval, claims, exec, audited, calls>>
        /\ Well \/ Broken
        /\ (a \in claims /\ CallerAt(c, "Reserve")) \/ CallerAt(c, "Idle")
    BY <1>3, <1>a, VerifyFacts, Zenon
  <2>2. Knows(c)' /\ ~Holder(c)'
    <3>1. CASE CallerAt(c, "Idle")
      BY <3>1, FreshAt, Zenon
    <3>2. CASE a \in claims /\ CallerAt(c, "Reserve")
      <4>1. ASSUME NEW n PROVE KnowsOf("Reserve", a, n)'
        BY <2>1, <3>2, ZenonT(60) DEF KnowsOf, HolderLabel
      <4> QED
        BY <1>a, <3>2, <4>1, KnownNext, Zenon DEF CallerAt, Holder, HolderLabel
    <3> QED
      BY <2>1, <3>1, <3>2, Zenon
  <2> QED
    BY <2>1, <2>2, RequestReads, Zenon
<1>4. CASE Reserve(c)
  <2>1. /\ up /\ Alone /\ UNCHANGED <<run, approval, claims, audited, calls>>
        /\ Well \/ Broken
        /\ caller[c].pc = "Reserve"
        /\ \/ exec' = exec /\ CallerAt(c, "Idle")
           \/ exec[a] = "None" /\ ExecAt(a, "started") /\ CallerAt(c, "Call")
           \/ exec[a] = "None" /\ ExecAt(a, "started") /\ CallerAt(c, "Idle")
    BY <1>4, <1>a, ReserveFacts, Zenon
  <2>2. CASE exec' = exec /\ CallerAt(c, "Idle")
    <3>1. Knows(c)' /\ ~Holder(c)'
      BY <2>2, FreshAt
    <3> QED
      BY <2>1, <2>2, <3>1, RequestReads, Zenon
  <2>3. CASE exec[a] = "None" /\ ExecAt(a, "started")
    <3>0. KnowsOf("Reserve", a, caller[c].seen)
      BY <1>0, <1>a, <2>1, KnownAt, Zenon
    <3>1. a \in claims
      BY <3>0 DEF KnowsOf
    <3>2. ~Rival(c, a) /\ calls[a] = 0 /\ a \notin audited /\ Callable(a)
      BY <1>0, <2>3, <3>1, RowsClaim, Zenon DEF Unspent
    <3>3. Callable(a)'
      BY <2>1, <3>2, Zenon DEF Alone, Callable
    <3>4. ASSUME NEW n PROVE KnowsOf("Call", a, n)'
      BY <2>1, <2>3, <3>2, <3>3, Zenon DEF KnowsOf, HolderLabel, ExecAt
    <3>5. Knows(c)'
      BY <1>a, <2>1, <2>3, <3>4, FreshAt, KnownNext, Zenon
    <3> QED
      BY <1>a, <2>1, <2>3, <3>1, <3>2, <3>5, RequestMarks, Zenon
  <2> QED
    BY <2>1, <2>2, <2>3, Zenon
<1>5. ASSUME NEW sent \in BOOLEAN, NEW effect \in BOOLEAN, NEW answered \in BOOLEAN,
             Call(c, sent, effect, answered)
      PROVE  TypeOK' /\ ActionInv'
  <2>1. /\ up /\ Alone /\ UNCHANGED <<run, approval, claims, exec, audited>> /\ Well
        /\ caller[c].pc = "Call" /\ Sent(a)
        /\ \/ CallerAt(c, "Perform") /\ calls'[a] = calls[a] + 1
           \/ CallerAt(c, "Uncertain")
    BY <1>5, <1>a, CallFacts, Zenon
  <2>0. KnowsOf("Call", a, caller[c].seen)
    BY <1>0, <1>a, <2>1, KnownAt, Zenon
  <2>2. calls[a] = 0 /\ exec[a] = "started" /\ a \notin audited /\ ~Rival(c, a)
    BY <1>0, <2>0, <2>1, Zenon DEF KnowsOf, Holder, HolderLabel
  <2>3. Rows(a)'
    BY <1>0, <2>1, <2>2, Zenon DEF Alone, Rows
  <2>u. Unspent(a)' /\ calls'[a] <= 1
    BY <2>1, <2>2, OneCall, Zenon DEF Unspent, Sent
  <2>4. ASSUME NEW label \in {"Perform", "Uncertain"}, label = "Perform" => calls'[a] > 0, NEW n
        PROVE  KnowsOf(label, a, n)'
    BY <2>1, <2>2, <2>4, Zenon DEF KnowsOf, HolderLabel
  <2>k. Knows(c)' /\ caller'[c].action = a
    <3>1. (CallerAt(c, "Perform") /\ calls'[a] > 0) \/ CallerAt(c, "Uncertain")
      BY <2>1, <2>2, OneCall, Zenon
    <3> QED
      BY <1>a, <2>1, <2>4, <3>1, KnownNext, Zenon DEF CallerAt
  <2>5. \A b \in Actions \ {a} : SameAction(b)
    BY <2>1, Zenon DEF SameAction, Sent
  <2> QED
    BY <1>t, <2>1, <2>2, <2>3, <2>u, <2>k, <2>5, AloneIsCalm, RequestFrame, Zenon DEF CallerAt, Sent
<1>6. CASE MarkUncertain(c) \/ Perform(c)
  <2>1. /\ up /\ Alone /\ UNCHANGED <<run, approval, claims, audited, calls>>
        /\ Well \/ Broken
        /\ caller[c].pc \in {"Uncertain", "Perform"}
        /\ \E label \in {"FailRead", "Reconcile", "Idle"} :
             /\ CallerAt(c, label)
             /\ \/ exec' = exec /\ label # "Reconcile"
                \/ ExecAt(a, "uncertain") /\ label # "Reconcile"
                \/ ExecAt(a, "performed") /\ label # "FailRead"
    BY <1>6, <1>a, MarkUncertainFacts, PerformFacts, Zenon
  <2>2. PICK label \in {"FailRead", "Reconcile", "Idle"} :
          /\ CallerAt(c, label)
          /\ \/ exec' = exec /\ label # "Reconcile"
             \/ ExecAt(a, "uncertain") /\ label # "Reconcile"
             \/ ExecAt(a, "performed") /\ label # "FailRead"
    BY <2>1
  <2>3. Holder(c) /\ a \in claims /\ ~Rival(c, a) /\ a \notin audited /\ exec[a] # "None"
    <3>1. Holder(c)
      BY <2>1 DEF Holder, HolderLabel
    <3>2. KnowsOf(caller[c].pc, a, caller[c].seen)
      BY <1>0, <1>a, KnownAt, Zenon
    <3> QED
      BY <1>0, <2>1, <3>1, <3>2, Zenon DEF KnowsOf, HolderLabel
  <2>4. Knows(c)'
    <3>1. CASE label = "Idle"
      BY <2>2, <3>1, FreshAt, Zenon
    <3>2. CASE label # "Idle"
      <4>1. exec'[a] # "None" /\ (label = "Reconcile" => exec'[a] = "performed")
        BY <2>2, <2>3 DEF ExecAt
      <4>2. ASSUME NEW n PROVE KnowsOf(label, a, n)'
        BY <2>1, <2>2, <2>3, <3>2, <4>1, Zenon DEF KnowsOf, HolderLabel
      <4> QED
        BY <1>a, <2>2, <3>2, <4>2, KnownNext, Zenon
    <3> QED
      BY <3>1, <3>2
  <2> QED
    BY <1>a, <2>1, <2>2, <2>3, <2>4, RequestReads, RequestMarks, Zenon
<1>7. CASE Reconcile(c)
  <2>1. /\ up /\ Alone /\ UNCHANGED <<run, approval, claims, exec, calls>>
        /\ Well \/ Broken
        /\ caller[c].pc = "Reconcile"
        /\ audited' = audited \/ audited' = audited \cup {a}
        /\ CallerAt(c, "DoneRead") \/ CallerAt(c, "Idle")
    BY <1>7, <1>a, ReconcileFacts, Zenon
  <2>0. KnowsOf("Reconcile", a, caller[c].seen)
    BY <1>0, <1>a, <2>1, KnownAt, Zenon
  <2>2. Holder(c) /\ exec[a] = "performed" /\ a \in claims /\ ~Rival(c, a)
    BY <1>0, <2>0, <2>1, Zenon DEF KnowsOf, Holder, HolderLabel
  <2>3. Rows(a)'
    BY <1>0, <2>1, <2>2, Zenon DEF Alone, Rows
  <2>u. Unspent(a)' /\ calls'[a] <= 1
    BY <1>0, <2>1, <2>2, Zenon DEF Unspent
  <2>4. ASSUME NEW n PROVE KnowsOf("DoneRead", a, n)'
    BY <2>1, <2>2, Zenon DEF KnowsOf, HolderLabel
  <2>k. Knows(c)' /\ (Holder(c)' => caller'[c].action = a)
    <3>1. CASE CallerAt(c, "Idle")
      BY <3>1, FreshAt, Zenon
    <3>2. CASE CallerAt(c, "DoneRead")
      BY <1>a, <2>4, <3>2, KnownNext, Zenon DEF CallerAt
    <3> QED
      BY <2>1, <3>1, <3>2, Zenon
  <2>5. \A b \in Actions \ {a} : SameAction(b)
    BY <2>1 DEF SameAction
  <2> QED
    BY <1>t, <2>1, <2>2, <2>3, <2>u, <2>k, <2>5, AloneIsCalm, RequestFrame, Zenon DEF CallerAt
<1>8. ASSUME NEW from \in {"FailRead", "DoneRead"}, NEW to \in {"Fail", "Succeed"},
             from = "DoneRead" <=> to = "Succeed", ReadRun(c, from, to)
      PROVE  TypeOK' /\ ActionInv'
  <2>1. /\ up /\ Alone /\ UNCHANGED <<run, approval, claims, exec, audited, calls>>
        /\ Well \/ Broken
        /\ caller[c].pc = from
        /\ \/ CallerAt(c, to) /\ caller'[c].seen = run[a].revision
           \/ CallerAt(c, "Idle")
    <3>1. /\ up /\ caller[c].pc = from
          /\ Alone /\ UNCHANGED <<run, approval, claims, exec, audited, calls>>
          /\ \/ CallerAt(c, to) /\ caller'[c].seen = run[a].revision /\ Well
             \/ CallerAt(c, "Idle") /\ Broken
      <4>1. to \in SettleLabel
        BY <1>8, Zenon DEF SettleLabel
      <4>2. ReadRun(c, from, to)
        BY <1>8
      <4> QED
        BY <4>1, <4>2, <1>a, ReadRunFacts, ZenonT(30)
    <3> QED
      BY <3>1, Zenon
  <2>2. /\ Holder(c) /\ exec[a] # "None" /\ (from = "DoneRead" => exec[a] = "performed")
        /\ from = "FailRead" => a \notin audited
    <3>1. KnowsOf(from, a, caller[c].seen)
      BY <1>0, <1>a, <2>1, KnownAt, Zenon
    <3> QED
      BY <1>8, <2>1, <3>1, Zenon DEF KnowsOf, Holder, HolderLabel
  <2>3. Knows(c)'
    <3>1. CASE CallerAt(c, "Idle")
      BY <3>1, FreshAt, Zenon
    <3>2. CASE CallerAt(c, to) /\ caller'[c].seen = run[a].revision
      <4>1. KnowsOf(to, a, run[a].revision)'
        BY <1>8, <2>1, <2>2, Zenon DEF KnowsOf, HolderLabel
      <4> QED
        BY <1>8, <1>a, <2>1, <3>2, <4>1, KnownNext, Zenon
    <3> QED
      BY <2>1, <3>1, <3>2, Zenon
  <2> QED
    BY <2>1, <2>2, <2>3, RequestReads, Zenon
<1>9. ASSUME NEW from \in {"Fail", "Succeed"}, NEW next \in {"Failed", "Succeeded"},
             Settle(c, from, next)
      PROVE  TypeOK' /\ ActionInv'
  <2>1. /\ up /\ Alone /\ UNCHANGED <<approval, claims, exec, audited, calls>>
        /\ Well \/ Broken
        /\ caller[c].pc = from /\ CallerAt(c, "Idle")
        /\ \/ /\ MayTransition(a, caller[c].seen, next)
              /\ RunGoes(a, next, run[a].revision + 1)
           \/ run' = run
    <3>1. /\ up /\ caller[c].pc = from
          /\ Alone /\ UNCHANGED <<approval, claims, exec, audited, calls>>
          /\ CallerAt(c, "Idle")
          /\ \/ /\ MayTransition(a, caller[c].seen, next) /\ (Well \/ Broken)
                /\ RunGoes(a, next, run[a].revision + 1)
             \/ ~MayTransition(a, caller[c].seen, next) /\ run' = run /\ Well
             \/ run' = run /\ Broken
      <4>1. next \in EndStatus
        BY <1>9, Zenon DEF EndStatus
      <4>2. Settle(c, from, next)
        BY <1>9
      <4> QED
        BY <4>1, <4>2, <1>a, SettleFacts, ZenonT(30)
    <3> QED
      BY <3>1, Zenon
  <2>2. Knows(c)' /\ ~Holder(c)'
    BY <2>1, FreshAt, Zenon
  <2>3. CASE run' = run
    BY <2>1, <2>2, <2>3, RequestReads, Zenon
  <2>4. CASE /\ MayTransition(a, caller[c].seen, next)
             /\ RunGoes(a, next, run[a].revision + 1)
    <3>1. exec[a] # "None" /\ a \in claims /\ ~Rival(c, a) /\ ~run[a].leased
      BY <1>0, <2>1, <2>4, Zenon DEF Holder, HolderLabel, MayTransition
    <3>2. Rows(a)'
      BY <1>0, <2>1, <2>4, <3>1, Zenon DEF Alone, Rows, RunGoes, RunAt
    <3>u. Unspent(a)' /\ calls'[a] <= 1
      BY <1>0, <2>1, <3>1, Zenon DEF Unspent
    <3>3. run' \in [Actions -> RunRow] /\ \A b \in Actions \ {a} : SameAction(b)
      BY <2>1, <2>4, Zenon DEF SameAction, RunGoes, RunAt
    <3> QED
      BY <1>t, <2>1, <2>2, <3>1, <3>2, <3>u, <3>3, AloneIsCalm, RequestFrame, Zenon DEF CallerAt
  <2> QED
    BY <2>1, <2>3, <2>4, Zenon
<1> QED
  BY <1>1, <1>2, <1>3, <1>4, <1>5, <1>6, <1>7, <1>8, <1>9, Zenon
     DEF HandlerStep, FailRun, SucceedRun

LEMMA HangUpKeeps ==
  ASSUME TypeOK, ActionInv, NEW c \in Clients, HangUp(c)
  PROVE  TypeOK' /\ ActionInv'
<1>a. PICK a \in Actions : a = caller[c].action
  BY DEF TypeOK, CallerState
<1>1. /\ up /\ UNCHANGED <<up, creator, refused, crashes, faults>> /\ hangups' = hangups + 1
      /\ UNCHANGED <<run, approval, claims, exec, audited>> /\ CallerAt(c, "Idle")
      /\ calls' = calls \/ (caller[c].pc = "Call" /\ Sent(a) /\ calls'[a] = calls[a] + 1)
  BY <1>a, HangUpFacts, Zenon
<1>2. /\ Rows(a) /\ Unspent(a) /\ calls[a] \in Nat /\ calls[a] <= 1 /\ Knows(c)
      /\ Holder(c) => ~Rival(c, a)
  BY <1>a, RequestKnows, Zenon
<1>3. caller[c].pc = "Call" => calls[a] = 0 /\ exec[a] # "None" /\ ~Rival(c, a)
  <2>1. KnowsOf(caller[c].pc, a, caller[c].seen)
    BY <1>a, <1>2, KnownAt, Zenon
  <2> QED
    BY <1>2, <2>1, Zenon DEF KnowsOf, Holder, HolderLabel
<1>4. calls' \in [Actions -> Nat] /\ (\A b \in Actions \ {a} : SameAction(b))
  BY <1>1, Zenon DEF TypeOK, Sent, SameAction
<1>5. Rows(a)'
  BY <1>1, <1>2, <1>3, Zenon DEF Rows
<1>6. Unspent(a)' /\ calls'[a] <= 1
  BY <1>1, <1>2, <1>3, OneCall, Zenon DEF Unspent, Callable
<1>7. Knows(c)' /\ ~Holder(c)'
  BY <1>1, FreshAt, Zenon
<1>8. Rival(c, a) => SameAction(a)
  BY <1>1, <1>3, Zenon DEF SameAction
<1>9. Calm
  BY <1>1, Counted, Zenon DEF TypeOK, Calm
<1>t. /\ run' \in [Actions -> RunRow] /\ approval' \in [Actions -> ApprovalRow]
      /\ exec' \in [Actions -> {"None", "started", "uncertain", "performed"}]
  BY <1>1, Zenon DEF TypeOK
<1> QED
  BY <1>1, <1>t, <1>4, <1>5, <1>6, <1>7, <1>8, <1>9, RequestFrame, Zenon DEF CallerAt

LEMMA ExecuteKeeps ==
  ASSUME TypeOK, ActionInv, NEW c \in Clients, NEW a \in Actions, NEW want \in 1..2,
         Execute(c, a, want)
  PROVE  TypeOK' /\ ActionInv'
<1>1. /\ up /\ Calm /\ UNCHANGED <<run, approval, claims, exec, audited, calls, crashes>>
      /\ caller' \in [Clients -> CallerState]
      /\ \A d \in Clients \ {c} : caller'[d] = caller[d]
      /\ caller'[c].pc = "Read"
  BY ExecuteFacts, Zenon DEF TypeOK, Alone, Calm
<1>2. Rows(a)' /\ Unspent(a)' /\ calls'[a] <= 1
  BY <1>1, SameRows, Zenon DEF ActionInv, Calm, SameAction
<1>3. Knows(c)' /\ ~Holder(c)'
  <2>1. caller'[c].pc \in FreshLabel
    BY <1>1, Zenon DEF FreshLabel
  <2> QED
    BY <2>1, FreshKnows, Zenon
<1>4. \A b \in Actions : SameAction(b)
  BY <1>1, ZenonT(60) DEF SameAction
<1>t. /\ run' \in [Actions -> RunRow] /\ approval' \in [Actions -> ApprovalRow]
      /\ exec' \in [Actions -> {"None", "started", "uncertain", "performed"}]
      /\ calls' \in [Actions -> Nat]
  BY <1>1, Zenon DEF TypeOK
<1> QED
  BY <1>1, <1>t, <1>2, <1>3, <1>4, RequestFrame, Zenon

-----------------------------------------------------------------------------
(* The safety theorems *)

LEMMA StepKeeps ==
  ASSUME TypeOK, ActionInv, [Next]_vars
  PROVE  TypeOK' /\ ActionInv'
<1>1. ASSUME NEW a \in Actions,
             \/ CreateStep(a) \/ CancelRun(a) \/ WorkerClaims(a) \/ WorkerFails(a)
             \/ \E decision \in {"Approved", "Denied"} : Decide(a, decision)
      PROVE  TypeOK' /\ ActionInv'
  BY <1>1, CreateKeeps, OutsiderKeeps, Zenon
<1>2. ASSUME NEW c \in Clients,
             HandlerStep(c) \/ HangUp(c) \/ \E a \in Actions, want \in 1..2 : Execute(c, a, want)
      PROVE  TypeOK' /\ ActionInv'
  BY <1>2, RequestKeeps, HangUpKeeps, ExecuteKeeps, Zenon
<1>3. CASE Crash \/ Restart
  BY <1>3, CrashKeeps, RestartKeeps
<1>4. CASE \/ InstallApp \/ \E state \in {"enabled", "disabled"} : SetAppEnabled(state)
           \/ \E a \in Actions : Expire(a)
           \/ UNCHANGED vars
  BY <1>4, StillSteps, StillKeeps
<1> QED
  BY <1>1, <1>2, <1>3, <1>4, Zenon DEF Next

LEMMA StartsWell ==
  ASSUME Init
  PROVE  TypeOK /\ ActionInv
<1>1. Idle \in CallerState /\ Idle.pc = "Idle"
  BY CapabilityAssumption DEF Idle, CallerLabel, CallerState
<1>2. TypeOK
  BY <1>1, Zenon
     DEF Init, NoApproval, TypeOK, RunRow, ApprovalRow, CreatorState, CreatorLabel
<1>3. ASSUME NEW a \in Actions PROVE Rows(a) /\ Unspent(a) /\ calls[a] <= 1
  BY OneCall, Zenon DEF Init, NoApproval, Rows, Unspent
<1>4. (\A c \in Clients : Knows(c)) /\ OneHolder /\ Down
  BY <1>1, Zenon DEF Init, Knows, KnowsOf, OneHolder, Holder, HolderLabel, Down
<1> QED
  BY <1>2, <1>3, <1>4, Zenon DEF ActionInv

(* At every point of every interleaving the rows, the requests in flight   *)
(* and the remote service agree as ActionInv says: the invariant behind    *)
(* the theorems below.                                                     *)
THEOREM ActionsStayCoherent == Spec => [](TypeOK /\ ActionInv)
<1>1. Init => TypeOK /\ ActionInv
  BY StartsWell
<1>2. TypeOK /\ ActionInv /\ [Next]_vars => (TypeOK /\ ActionInv)'
  BY StepKeeps
<1> QED
  BY <1>1, <1>2, PTL DEF Spec

(* For any number of actions, clients, failing database calls, hang-ups    *)
(* and crashes, reserve_capability_execution lets the connector send the   *)
(* request of an action at most once.                                      *)
THEOREM CalledAtMostOnce == Spec => []AtMostOneCall
<1>1. ActionInv => AtMostOneCall
  BY DEF ActionInv, AtMostOneCall
<1> QED
  BY <1>1, ActionsStayCoherent, PTL

(* Only the connector call of a request, or its rest after a hang-up,      *)
(* reaches the remote service.                                             *)
LEMMA OnlyCallsSend ==
  ASSUME TypeOK, [Next]_vars, NEW a \in Actions, calls'[a] > calls[a]
  PROVE  \E c \in Clients : caller[c].pc = "Call" /\ caller[c].action = a
<1>1. calls[a] \in Nat
  BY DEF TypeOK
<1>2. calls' # calls
  BY <1>1
<1>3. PICK c \in Clients :
        HangUp(c) \/ \E sent, effect, answered \in BOOLEAN : Call(c, sent, effect, answered)
  BY <1>2, ZenonT(60)
     DEF Next, CreateStep, Invoke, Plan, Await, Advance, Ask, Insert, CreatorStep, CancelRun,
         Decide, InstallApp, SetAppEnabled, UserStep, WorkerClaims, WorkerFails, Expire, Crash,
         Restart, HandlerStep, ReadApproval, Consume, Verify, Reserve, MarkUncertain, FailRun,
         Perform, Reconcile, SucceedRun, ReadRun, Settle, Execute, remote, vars
<1>4. PICK b \in Actions : b = caller[c].action
  BY DEF TypeOK, CallerState
<1>5. caller[c].pc = "Call" /\ \A d \in Actions \ {b} : calls'[d] = calls[d]
  BY <1>2, <1>3, <1>4, HangUpFacts, CallFacts, ZenonT(60) DEF Sent
<1> QED
  BY <1>1, <1>4, <1>5

(* Whenever the request of an action leaves for the remote service, its    *)
(* run is Running, or recover_interrupted_runs failed it after a crash:    *)
(* no cancellation, denial or second request can slip in between the       *)
(* reservation and the call.                                               *)
THEOREM CallsAreOfActiveRuns == Spec => CallsBelongToActiveRuns
<1>1. TypeOK /\ ActionInv /\ [Next]_vars =>
        [\A a \in Actions : calls'[a] > calls[a] =>
           \/ run[a].status = "Running"
           \/ run[a].status = "Failed" /\ crashes > 0]_vars
  <2> SUFFICES ASSUME TypeOK, ActionInv, [Next]_vars, NEW a \in Actions, calls'[a] > calls[a]
               PROVE  run[a].status = "Running" \/ (run[a].status = "Failed" /\ crashes > 0)
    OBVIOUS
  <2>1. PICK c \in Clients : caller[c].pc = "Call" /\ caller[c].action = a
    BY OnlyCallsSend
  <2> QED
    BY <2>1, Zenon DEF ActionInv, Knows, KnowsOf, Callable
<1> QED
  BY <1>1, ActionsStayCoherent, PTL DEF Spec, CallsBelongToActiveRuns
=============================================================================
