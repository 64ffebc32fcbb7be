-------------------------- MODULE CapabilityOutcomes --------------------------
(***************************************************************************)
(* What a governed capability action comes to: no run is stranded, and     *)
(* CapabilityAction implements ActionContract.                             *)
(***************************************************************************)
EXTENDS CapabilityProofs

-----------------------------------------------------------------------------
(* Every open run has an owner *)

(* The request that will settle a running run. *)
Owns(c, a) ==
  /\ caller[c].action = a
  /\ IF exec[a] = "None" THEN caller[c].pc \in {"Verify", "Reserve"} ELSE Holder(c)

(* Without a failing database call and without hang-ups every open run has *)
(* an owner while the service is up.                                       *)
Owned(a) ==
  /\ creator[a].pc # "Idle" => run[a].status # "None"
  /\ up /\ run[a].status = "Planning" /\ ~run[a].leased =>
       creator[a].pc = "Await" /\ creator[a].seen = run[a].revision
  /\ up /\ run[a].status = "Running" => \E c \in Clients : Owns(c, a)

OwnerInv == faults = 0 /\ hangups = 0 => \A a \in Actions : Owned(a)

LEMMA CreateOwned ==
  ASSUME TypeOK, ActionInv, \A b \in Actions : Owned(b), NEW a \in Actions, CreateStep(a),
         faults = 0, faults' = 0
  PROVE  \A b \in Actions : Owned(b)'
<1>0. Rows(a)
  BY DEF ActionInv
<1>1. CASE Invoke(a)
  BY <1>0, <1>1, InvokeFacts
     DEF Quiet, CreatorAt, RunGoes, RunAt, Owned, Owns, Holder, Rows
<1>2. CASE Plan(a)
  <2>1. {"Planning"} \subseteq RunStatus /\ {"Await"} \subseteq CreatorLabel
    BY DEF RunStatus, CreatorLabel
  <2>2. /\ creator[a].pc = "Plan" /\ Quiet
        /\ \/ /\ MayTransition(a, creator[a].seen, "Planning")
              /\ RunGoes(a, "Planning", run[a].revision + 1)
              /\ CreatorAt(a, "Await", creator[a].seen + 1)
           \/ run' = run /\ CreatorAt(a, "Done", creator[a].seen)
    BY <1>2, <2>1, AdvanceFacts DEF Plan
  <2> QED
    BY <1>0, <2>2
       DEF MayTransition, Quiet, CreatorAt, RunGoes, RunAt, Owned, Owns, Holder, Rows
<1>3. CASE Await(a)
  <2>1. {"AwaitingApproval"} \subseteq RunStatus /\ {"Ask"} \subseteq CreatorLabel
    BY DEF RunStatus, CreatorLabel
  <2>2. /\ creator[a].pc = "Await" /\ Quiet
        /\ \E n : CreatorAt(a, "Ask", n) \/ CreatorAt(a, "Done", n)
        /\ \/ RunGoes(a, "AwaitingApproval", run[a].revision + 1)
           \/ ~MayTransition(a, creator[a].seen, "AwaitingApproval") /\ run' = run
    BY <1>3, <2>1, AdvanceFacts DEF Await
  <2>3. up /\ run[a].status = "Planning" /\ ~run[a].leased =>
          MayTransition(a, creator[a].seen, "AwaitingApproval")
    BY Zenon DEF Owned, MayTransition, CanTransitionTo
  <2> QED
    BY <1>0, <2>2, <2>3 DEF Quiet, CreatorAt, RunGoes, RunAt, Owned, Owns, Holder, Rows
<1>4. CASE Ask(a)
  BY <1>4, AskFacts DEF Quiet, CreatorAt, Owned, Owns, Holder
<1>5. CASE Insert(a)
  BY <1>5, InsertFacts DEF CreatorAt, Owned, Owns, Holder
<1> QED
  BY <1>1, <1>2, <1>3, <1>4, <1>5 DEF CreateStep

LEMMA OutsiderOwned ==
  ASSUME TypeOK, ActionInv, \A b \in Actions : Owned(b), NEW a \in Actions,
         \/ \E decision \in {"Approved", "Denied"} : Decide(a, decision)
         \/ CancelRun(a) \/ WorkerClaims(a) \/ WorkerFails(a)
  PROVE  \A b \in Actions : Owned(b)'
<1>1. ASSUME NEW decision \in {"Approved", "Denied"}, Decide(a, decision)
      PROVE  \A b \in Actions : Owned(b)'
  BY <1>1, DecideFacts DEF Owned, Owns, Holder
<1>2. CASE CancelRun(a)
  BY <1>2, CancelFacts DEF RunGoes, RunAt, Owned, Owns, Holder
<1>3. CASE WorkerClaims(a) \/ WorkerFails(a)
  BY <1>3, WorkerFacts DEF RunAt, Owned, Owns, Holder
<1> QED
  BY <1>1, <1>2, <1>3

(* A step of request c for action a that changes no other action. *)
LEMMA RequestOwned ==
  ASSUME TypeOK, \A b \in Actions : Owned(b), NEW c \in Clients, NEW a \in Actions,
         \A b \in Actions \ {a} : ~Owns(c, b), Alone, NEW label, CallerAt(c, label),
         \A b \in Actions \ {a} : run'[b] = run[b] /\ exec'[b] = exec[b],
         run'[a] = run[a] \/ run'[a].status \in {"Running", "Failed", "Succeeded"},
         run'[a].status = "Running" =>
           \/ Owns(c, a)'
           \/ run[a].status = "Running" /\ exec'[a] = exec[a] /\ ~Owns(c, a)
  PROVE  \A b \in Actions : Owned(b)'
<1>1. \A d \in Clients \ {c} : caller'[d] = caller[d]
  BY Zenon DEF CallerAt
<1>2. ASSUME NEW b \in Actions, NEW d \in Clients \ {c}, Owns(d, b), exec'[b] = exec[b]
      PROVE  Owns(d, b)'
  BY <1>1, <1>2, Zenon DEF Owns, Holder
<1>3. UNCHANGED <<creator, up>>
  BY Zenon DEF Alone
<1>4. Owned(a)'
  BY <1>2, <1>3, Zenon DEF Owned
<1>5. ASSUME NEW b \in Actions \ {a} PROVE Owned(b)'
  BY <1>2, <1>3, <1>5, ZenonT(60) DEF Owned
<1> QED
  BY <1>4, <1>5, Zenon

(* A request that goes on owns its action. *)
LEMMA OwnsNext ==
  ASSUME NEW c \in Clients, NEW a, a = caller[c].action, NEW label, CallerAt(c, label),
         \/ exec'[a] = "None" /\ label \in {"Verify", "Reserve"}
         \/ exec'[a] # "None" /\ label \in HolderLabel
  PROVE  Owns(c, a)'
BY Zenon DEF Owns, Holder, HolderLabel, CallerAt

LEMMA HandlerOwned ==
  ASSUME TypeOK, ActionInv, \A b \in Actions : Owned(b), NEW c \in Clients, HandlerStep(c),
         faults = 0, faults' = 0
  PROVE  \A b \in Actions : Owned(b)'
<1>a. PICK a \in Actions : a = caller[c].action
  BY DEF TypeOK, CallerState
<1>w. Well /\ ~Broken
  BY DEF Well, Broken
<1>n. \A b \in Actions \ {a} : ~Owns(c, b)
  BY <1>a DEF Owns
<1>0. Rows(a) /\ KnowsOf(caller[c].pc, a, caller[c].seen)
  BY <1>a, KnownAt, Zenon DEF ActionInv
<1>h. Holder(c) => exec[a] # "None"
  BY <1>0, KnownClaim, Zenon DEF Holder
<1>1. CASE ReadApproval(c)
  <2>1. /\ caller[c].pc = "Read" /\ Alone /\ UNCHANGED <<run, exec>>
        /\ \E label \in {"Consume", "Verify", "Idle"} : CallerAt(c, label)
    BY <1>1, ReadApprovalFacts, Zenon
  <2>2. ~Owns(c, a)
    BY <2>1 DEF Owns, Holder, HolderLabel
  <2> QED
    BY <1>n, <2>1, <2>2, RequestOwned, Zenon
<1>2. CASE Consume(c)
  <2>1. /\ caller[c].pc = "Consume" /\ Alone /\ UNCHANGED exec
        /\ \/ run' = run /\ CallerAt(c, "Idle")
           \/ /\ a \notin claims /\ RunGoes(a, "Running", run[a].revision + 1)
              /\ CallerAt(c, "Verify")
    BY <1>2, <1>a, <1>w, ConsumeFacts, Zenon
  <2>2. ~Owns(c, a)
    BY <2>1 DEF Owns, Holder, HolderLabel
  <2>3. CASE run' = run /\ CallerAt(c, "Idle")
    BY <1>n, <2>1, <2>2, <2>3, RequestOwned, Zenon
  <2>4. CASE a \notin claims /\ RunGoes(a, "Running", run[a].revision + 1) /\ CallerAt(c, "Verify")
    <3>1. exec[a] = "None"
      BY <1>0, <2>4, RowsClaim
    <3>2. Owns(c, a)'
      BY <1>a, <2>1, <2>4, <3>1, OwnsNext, Zenon
    <3>3. /\ run'[a].status \in {"Running", "Failed", "Succeeded"}
          /\ \A b \in Actions \ {a} : run'[b] = run[b]
      BY <2>4 DEF RunGoes, RunAt
    <3> QED
      BY <1>n, <2>1, <2>4, <3>2, <3>3, RequestOwned, Zenon
  <2> QED
    BY <2>1, <2>3, <2>4, Zenon
<1>3. CASE Verify(c)
  <2>1. /\ Alone /\ UNCHANGED <<run, exec, claims>> /\ caller[c].pc = "Verify"
        /\ CallerAt(c, "Reserve") \/ (a \notin claims /\ CallerAt(c, "Idle"))
    BY <1>3, <1>a, <1>w, VerifyFacts, Zenon
  <2>2. CASE CallerAt(c, "Reserve")
    <3>1. Owns(c, a)' \/ (exec'[a] = exec[a] /\ ~Owns(c, a))
      BY <1>a, <2>1, <2>2, OwnsNext, Zenon DEF Owns, Holder, HolderLabel
    <3> QED
      BY <1>n, <2>1, <2>2, <3>1, RequestOwned, Zenon
  <2>3. CASE a \notin claims /\ CallerAt(c, "Idle")
    <3>1. run[a].status # "Running"
      BY <1>0, <2>3, Zenon DEF Rows
    <3> QED
      BY <1>n, <2>1, <2>3, <3>1, RequestOwned, Zenon
  <2> QED
    BY <2>1, <2>2, <2>3, Zenon
<1>4. CASE Reserve(c)
  <2>1. /\ caller[c].pc = "Reserve" /\ Alone /\ UNCHANGED run
        /\ \/ ExecAt(a, "started") /\ CallerAt(c, "Call")
           \/ exec[a] # "None" /\ exec' = exec /\ CallerAt(c, "Idle")
    BY <1>4, <1>a, <1>w, ReserveFacts, Zenon
  <2>2. CASE ExecAt(a, "started") /\ CallerAt(c, "Call")
    <3>1. exec'[a] = "started" /\ \A b \in Actions \ {a} : exec'[b] = exec[b]
      BY <2>2 DEF ExecAt
    <3>2. Owns(c, a)'
      BY <1>a, <2>2, <3>1, OwnsNext, Zenon DEF HolderLabel
    <3> QED
      BY <1>n, <2>1, <2>2, <3>1, <3>2, RequestOwned, Zenon
  <2>3. CASE exec[a] # "None" /\ exec' = exec /\ CallerAt(c, "Idle")
    <3>1. ~Owns(c, a)
      BY <2>1, <2>3 DEF Owns, Holder, HolderLabel
    <3> QED
      BY <1>n, <2>1, <2>3, <3>1, RequestOwned, Zenon
  <2> QED
    BY <2>1, <2>2, <2>3, Zenon
<1>5. ASSUME Alone, run' = run, Holder(c),
             exec' = exec \/ \E state \in {"uncertain", "performed"} : ExecAt(a, state),
             NEW label \in HolderLabel, CallerAt(c, label)
      PROVE  \A b \in Actions : Owned(b)'
  <2>1. exec'[a] # "None" /\ \A b \in Actions \ {a} : exec'[b] = exec[b]
    BY <1>5, <1>h DEF ExecAt
  <2>2. Owns(c, a)'
    BY <1>5, <1>a, <2>1, OwnsNext, Zenon
  <2> QED
    BY <1>5, <1>n, <2>1, <2>2, RequestOwned, Zenon
<1>6. CASE \/ \E sent, effect, answered \in BOOLEAN : Call(c, sent, effect, answered)
           \/ MarkUncertain(c)
           \/ ReadRun(c, "FailRead", "Fail") \/ ReadRun(c, "DoneRead", "Succeed")
  <2>1. /\ Alone /\ run' = run
        /\ caller[c].pc \in {"Call", "Uncertain", "FailRead", "DoneRead"}
        /\ exec' = exec \/ ExecAt(a, "uncertain")
        /\ \E label \in {"Perform", "Uncertain", "FailRead", "Fail", "Succeed"} : CallerAt(c, label)
    BY <1>6, <1>a, <1>w, CallFacts, MarkUncertainFacts, ReadRunFacts, Zenon DEF SettleLabel
  <2>2. Holder(c) /\ {"Perform", "Uncertain", "FailRead", "Fail", "Succeed"} \subseteq HolderLabel
    BY <2>1 DEF Holder, HolderLabel
  <2> QED
    BY <1>5, <2>1, <2>2, Zenon
<1>7. CASE Perform(c)
  <2>1. /\ caller[c].pc = "Perform" /\ Alone /\ run' = run
        /\ \/ ExecAt(a, "performed") /\ CallerAt(c, "Reconcile")
           \/ exec' = exec /\ CallerAt(c, "FailRead")
    BY <1>7, <1>a, <1>w, PerformFacts, Zenon
  <2>2. Holder(c) /\ {"Reconcile", "FailRead"} \subseteq HolderLabel
    BY <2>1 DEF Holder, HolderLabel
  <2> QED
    BY <1>5, <2>1, <2>2, Zenon
<1>8. CASE Reconcile(c)
  <2>1. /\ caller[c].pc = "Reconcile" /\ Alone /\ run' = run /\ exec' = exec
        /\ \/ CallerAt(c, "DoneRead")
           \/ ~(a \in claims /\ ~run[a].leased /\ a \notin audited) /\ CallerAt(c, "Idle")
    BY <1>8, <1>a, <1>w, ReconcileFacts, Zenon
  <2>2. Holder(c) /\ "DoneRead" \in HolderLabel
    BY <2>1 DEF Holder, HolderLabel
  <2>3. CASE CallerAt(c, "DoneRead")
    BY <1>5, <2>1, <2>2, <2>3, Zenon
  <2>4. CASE ~(a \in claims /\ ~run[a].leased /\ a \notin audited) /\ CallerAt(c, "Idle")
    <3>1. a \notin audited
      BY <1>0, <2>1, Zenon DEF KnowsOf, HolderLabel
    <3>2. run[a].status # "Running"
      BY <1>0, <2>4, <3>1, Zenon DEF Rows
    <3> QED
      BY <1>n, <2>1, <2>4, <3>2, RequestOwned, Zenon
  <2> QED
    BY <2>1, <2>3, <2>4, Zenon
<1>9. ASSUME NEW from \in {"Fail", "Succeed"}, NEW next \in {"Failed", "Succeeded"},
             Settle(c, from, next)
      PROVE  \A b \in Actions : Owned(b)'
  <2>1. /\ Alone /\ exec' = exec /\ caller[c].pc = from /\ CallerAt(c, "Idle")
        /\ \/ RunGoes(a, next, run[a].revision + 1)
           \/ ~MayTransition(a, caller[c].seen, next) /\ run' = run
    BY <1>9, <1>a, <1>w, SettleFacts DEF EndStatus
  <2>2. run[a].status = "Running" => MayTransition(a, caller[c].seen, next)
    <3>1. run[a].status = "Running" => ~run[a].leased /\ caller[c].seen = run[a].revision
      BY <1>0, <2>1, Zenon DEF Rows, KnowsOf
    <3> QED
      BY <3>1 DEF MayTransition, CanTransitionTo, TerminalStatus
  <2>3. /\ run'[a] = run[a] \/ run'[a].status \in {"Failed", "Succeeded"}
        /\ \A b \in Actions \ {a} : run'[b] = run[b]
        /\ run'[a].status # "Running"
    BY <2>1, <2>2, Zenon DEF RunGoes, RunAt
  <2> QED
    BY <1>n, <2>1, <2>3, RequestOwned, Zenon
<1> QED
  BY <1>1, <1>2, <1>3, <1>4, <1>6, <1>7, <1>8, <1>9, Zenon
     DEF HandlerStep, FailRun, SucceedRun

LEMMA StepOwned ==
  ASSUME TypeOK, ActionInv, OwnerInv, [Next]_vars
  PROVE  OwnerInv'
<1> SUFFICES ASSUME faults' = 0, hangups' = 0
             PROVE  \A b \in Actions : Owned(b)'
  BY DEF OwnerInv
<1>0. TypeOK'
  BY StepKeeps
<1>1. ASSUME NEW a \in Actions, CreateStep(a) PROVE \A b \in Actions : Owned(b)'
  <2>1. hangups' = hangups /\ (faults' = faults \/ faults' = faults + 1)
    BY <1>1, Zenon
       DEF CreateStep, Invoke, Plan, Await, Advance, Ask, Insert, StoreCall, Fault, bounds
  <2>2. faults = 0 /\ hangups = 0
    BY <2>1 DEF TypeOK
  <2> QED
    BY <1>1, <2>2, CreateOwned DEF OwnerInv
<1>2. ASSUME NEW a \in Actions,
             \/ \E decision \in {"Approved", "Denied"} : Decide(a, decision)
             \/ CancelRun(a) \/ WorkerClaims(a) \/ WorkerFails(a)
      PROVE \A b \in Actions : Owned(b)'
  <2>1. hangups' = hangups /\ (faults' = faults \/ faults' = faults + 1)
    BY <1>2, DecideFacts, CancelFacts, WorkerFacts, Zenon
  <2>2. faults = 0 /\ hangups = 0
    BY <2>1 DEF TypeOK
  <2> QED
    BY <1>2, <2>2, OutsiderOwned DEF OwnerInv
<1>3. ASSUME NEW c \in Clients, HandlerStep(c) PROVE \A b \in Actions : Owned(b)'
  <2>1. hangups' = hangups /\ (faults' = faults \/ faults' = faults + 1)
    BY <1>3, Zenon
       DEF HandlerStep, ReadApproval, Consume, Verify, Reserve, Call, MarkUncertain, FailRun,
           Perform, Reconcile, SucceedRun, ReadRun, Settle, StoreCall, StoreRead, Fault, bounds
  <2>2. faults = 0 /\ hangups = 0
    BY <2>1 DEF TypeOK
  <2> QED
    BY <1>3, <2>2, HandlerOwned DEF OwnerInv
<1>4. ASSUME NEW c \in Clients, HangUp(c) PROVE FALSE
  BY <1>4 DEF HangUp, TypeOK
<1>5. ASSUME NEW c \in Clients, NEW a \in Actions, NEW want \in 1..2, Execute(c, a, want)
      PROVE  \A b \in Actions : Owned(b)'
  <2>1. /\ Alone /\ UNCHANGED <<run, exec, faults>> /\ caller[c].pc = "Idle"
        /\ \A d \in Clients \ {c} : caller'[d] = caller[d]
    BY <1>5, ExecuteFacts, Zenon
  <2>2. /\ UNCHANGED <<creator, up, hangups>>
        /\ \A b \in Actions : ~Owns(c, b)
    BY <2>1 DEF Alone, Owns, Holder, HolderLabel
  <2>3. ASSUME NEW b \in Actions, NEW d \in Clients, Owns(d, b) PROVE Owns(d, b)'
    BY <2>1, <2>2, <2>3, Zenon DEF Owns, Holder
  <2> QED
    BY <2>1, <2>2, <2>3, Zenon DEF OwnerInv, Owned
<1>6. CASE Crash
  BY <1>6, CrashFacts, Zenon DEF OwnerInv, Owned
<1>7. CASE Restart
  <2>1. \A b \in Actions : Rows(b) /\ Owned(b)
    BY <1>7, RestartFacts, Zenon DEF OwnerInv, ActionInv
  <2> QED
    BY <1>7, <2>1, RestartFacts DEF Interrupted, Owned, Rows
<1>8. CASE \/ InstallApp \/ \E state \in {"enabled", "disabled"} : SetAppEnabled(state)
           \/ \E a \in Actions : Expire(a)
           \/ UNCHANGED vars
  <2>1. Still
    BY <1>8, StillSteps
  <2> QED
    BY <2>1 DEF Still, OwnerInv, Owned, Owns, Holder
<1> QED
  BY <1>1, <1>2, <1>3, <1>4, <1>5, <1>6, <1>7, <1>8, Zenon DEF Next

LEMMA OwnedCanBeEnded ==
  ASSUME TypeOK, OwnerInv
  PROVE  OpenRunsCanBeEnded
<1> SUFFICES ASSUME NEW a \in Actions, Owned(a), up, creator[a].pc = "Done",
                    ~IsTerminal(run[a].status),
                    \A c \in Clients : caller[c].action # a \/ caller[c].pc = "Idle"
             PROVE  run[a].leased \/ MayCancel(a)
  BY Zenon DEF OwnerInv, OpenRunsCanBeEnded
<1>1. run[a].status \in {"Queued", "Planning", "AwaitingApproval", "Running"}
  BY Zenon DEF Owned, TypeOK, RunRow, RunStatus, IsTerminal, TerminalStatus
<1>2. run[a].status # "Running"
  BY Zenon DEF Owned, Owns, Holder, HolderLabel
<1>3. run[a].status = "Planning" => run[a].leased
  BY DEF Owned
<1> QED
  BY <1>1, <1>2, <1>3, Zenon DEF MayCancel

(* Without failing database calls and hang-ups no crash strands a run: an  *)
(* open run belongs to its creator, to the request that reserved it or to  *)
(* a worker, or cancel_run can end it.  The invariant names the owner at   *)
(* every step, and recover_interrupted_runs takes over what a crash left.  *)
THEOREM NoRunIsStranded == Spec => []OpenRunsCanBeEnded
<1>1. Init => OwnerInv
  BY DEF Init, OwnerInv, Owned
<1>2. (TypeOK /\ ActionInv) /\ OwnerInv /\ [Next]_vars => OwnerInv'
  BY StepOwned
<1>3. (TypeOK /\ ActionInv) /\ OwnerInv => OpenRunsCanBeEnded
  BY OwnedCanBeEnded
<1> QED
  BY <1>1, <1>2, <1>3, ActionsStayCoherent, PTL DEF Spec

-----------------------------------------------------------------------------
(* The implementation of ActionContract: what it shows of each action *)

Permit(a) ==
  IF exec[a] # "None" THEN "Spent" ELSE IF a \in refused THEN "Refused"
  ELSE IF a \in claims THEN "Given" ELSE "None"
Result(a) ==
  IF exec[a] = "performed" THEN "Performed"
  ELSE IF exec[a] = "uncertain" THEN "Uncertain" ELSE "Nothing"

SamePermit(a) == Permit(a)' = Permit(a)
SameSent(a) == (calls'[a] > 0) <=> (calls[a] > 0)
SameResult(a) == Result(a)' = Result(a)
SameDone(a) == (run'[a].status = "Succeeded") <=> (run[a].status = "Succeeded")
SameView(a) == SamePermit(a) /\ SameSent(a) /\ SameResult(a) /\ SameDone(a)

Shows(a) ==
  \/ SameView(a)
  \/ /\ Permit(a) = "None" /\ Permit(a)' \in {"Given", "Refused"}
     /\ SameSent(a) /\ SameResult(a) /\ SameDone(a)
  \/ /\ Permit(a) = "Given" /\ Permit(a)' = "Spent"
     /\ SameSent(a) /\ SameResult(a) /\ SameDone(a)
  \/ /\ Permit(a) = "Spent" /\ ~(calls[a] > 0) /\ Result(a) = "Nothing" /\ calls'[a] > 0
     /\ SamePermit(a) /\ SameResult(a) /\ SameDone(a)
  \/ /\ Permit(a) = "Spent" /\ Result(a) = "Nothing"
     /\ \/ Result(a)' = "Performed" /\ calls[a] > 0
        \/ Result(a)' = "Uncertain"
     /\ SamePermit(a) /\ SameSent(a) /\ SameDone(a)
  \/ /\ Result(a) = "Performed"
     /\ run[a].status # "Succeeded" /\ run'[a].status = "Succeeded"
     /\ SamePermit(a) /\ SameSent(a) /\ SameResult(a)

(* A step that shows one of these of one action, and nothing of the        *)
(* others, is a step of the contract.                                      *)
LEMMA ContractStep ==
  ASSUME NEW a \in Actions, \A b \in Actions \ {a} : SameView(b), Shows(a)
  PROVE  [Contract!Next]_(Contract!vars)
<1> DEFINE P == [b \in Actions |-> Permit(b)]
           S == {b \in Actions : calls[b] > 0}
           R == [b \in Actions |-> Result(b)]
           D == {b \in Actions : run[b].status = "Succeeded"}
<1>1. /\ SamePermit(a) => P' = P
      /\ SameSent(a) => S' = S
      /\ SameResult(a) => R' = R
      /\ SameDone(a) => D' = D
  BY Zenon DEF SameView, SamePermit, SameSent, SameResult, SameDone
<1>2. CASE SameView(a)
  BY <1>1, <1>2, Zenon DEF SameView, Contract!vars, Permit, Result
<1>3. CASE /\ Permit(a) = "None" /\ Permit(a)' \in {"Given", "Refused"}
           /\ SameSent(a) /\ SameResult(a) /\ SameDone(a)
  <2>1. P' = [P EXCEPT ![a] = Permit(a)']
    BY Zenon DEF SameView, SamePermit
  <2>2. Contract!Give(a) \/ Contract!Refuse(a)
    BY <1>1, <1>3, <2>1, Zenon DEF Contract!Give, Contract!Refuse, Permit, Result
  <2> QED
    BY <2>2 DEF Contract!Next
<1>4. CASE /\ Permit(a) = "Given" /\ Permit(a)' = "Spent"
           /\ SameSent(a) /\ SameResult(a) /\ SameDone(a)
  <2>1. P' = [P EXCEPT ![a] = Permit(a)']
    BY Zenon DEF SameView, SamePermit
  <2>2. Contract!Spend(a)
    BY <1>1, <1>4, <2>1, Zenon DEF Contract!Spend, Permit, Result
  <2> QED
    BY <2>2 DEF Contract!Next
<1>5. CASE /\ Permit(a) = "Spent" /\ ~(calls[a] > 0) /\ Result(a) = "Nothing" /\ calls'[a] > 0
           /\ SamePermit(a) /\ SameResult(a) /\ SameDone(a)
  <2>1. S' = S \cup {a}
    BY <1>5 DEF SameView, SameSent
  <2>2. Contract!Send(a)
    BY <1>1, <1>5, <2>1, Zenon DEF Contract!Send, Permit, Result
  <2> QED
    BY <2>2 DEF Contract!Next
<1>6. CASE /\ Permit(a) = "Spent" /\ Result(a) = "Nothing"
           /\ \/ Result(a)' = "Performed" /\ calls[a] > 0
              \/ Result(a)' = "Uncertain"
           /\ SamePermit(a) /\ SameSent(a) /\ SameDone(a)
  <2>1. R' = [R EXCEPT ![a] = Result(a)']
    BY Zenon DEF SameView, SameResult
  <2>2. Contract!Record(a, "Performed") \/ Contract!Record(a, "Uncertain")
    BY <1>1, <1>6, <2>1, Zenon DEF Contract!Record, Permit, Result
  <2> QED
    BY <2>2 DEF Contract!Next
<1>7. CASE /\ Result(a) = "Performed"
           /\ run[a].status # "Succeeded" /\ run'[a].status = "Succeeded"
           /\ SamePermit(a) /\ SameSent(a) /\ SameResult(a)
  <2>1. D' = D \cup {a}
    BY <1>7 DEF SameView, SameDone
  <2>2. Contract!Succeed(a)
    BY <1>1, <1>7, <2>1, Zenon DEF Contract!Succeed, Permit, Result
  <2> QED
    BY <2>2 DEF Contract!Next
<1> QED
  BY <1>2, <1>3, <1>4, <1>5, <1>6, <1>7, Zenon DEF Shows

(* A step that keeps permits and attempts and completes no run is hidden. *)
LEMMA Hidden ==
  ASSUME UNCHANGED <<exec, claims, refused, calls>>, \A b \in Actions : SameDone(b)
  PROVE  [Contract!Next]_(Contract!vars)
<1>1. \A b \in Actions : SameView(b)
  BY DEF SameView, SamePermit, SameSent, SameResult, Permit, Result
<1>2. PICK a \in Actions : TRUE
  BY CapabilityAssumption
<1> QED
  BY <1>1, <1>2, ContractStep, Zenon DEF Shows

LEMMA CreateShows ==
  ASSUME TypeOK, ActionInv, NEW a \in Actions, CreateStep(a)
  PROVE  [Contract!Next]_(Contract!vars)
<1>1. CASE Invoke(a)
  <2>1. run[a].status = "None"
    BY <1>1, InvokeFacts, Zenon DEF ActionInv, Rows
  <2> QED
    BY <1>1, <2>1, InvokeFacts, Hidden, Zenon DEF Quiet, RunGoes, RunAt, SameDone
<1>2. ASSUME NEW from \in {"Plan", "Await"}, NEW next \in {"Planning", "AwaitingApproval"},
             NEW to \in {"Await", "Ask"}, Advance(a, from, next, to)
      PROVE  [Contract!Next]_(Contract!vars)
  <2>1. next \in RunStatus /\ to \in CreatorLabel /\ next # "Succeeded"
    BY DEF RunStatus, CreatorLabel
  <2>2. /\ Quiet
        /\ \/ run' = run
           \/ /\ MayTransition(a, creator[a].seen, next)
              /\ RunGoes(a, next, run[a].revision + 1)
    BY <1>2, <2>1, AdvanceFacts, Zenon
  <2> QED
    BY <2>1, <2>2, Hidden, Zenon
       DEF Quiet, MayTransition, CanTransitionTo, RunGoes, RunAt, SameDone
<1>3. CASE Ask(a) \/ Insert(a)
  BY <1>3, AskFacts, InsertFacts, Hidden, Zenon DEF Quiet, SameDone
<1> QED
  BY <1>1, <1>2, <1>3 DEF CreateStep, Plan, Await

LEMMA OutsiderShows ==
  ASSUME TypeOK, ActionInv, NEW a \in Actions,
         \/ \E decision \in {"Approved", "Denied"} : Decide(a, decision)
         \/ CancelRun(a) \/ WorkerClaims(a) \/ WorkerFails(a)
  PROVE  [Contract!Next]_(Contract!vars)
<1>0. Rows(a)
  BY DEF ActionInv
<1>1. ASSUME UNCHANGED <<exec, claims, calls>>, refused' = refused \cup {a}, a \notin claims,
             \A b \in Actions : SameDone(b)
      PROVE  [Contract!Next]_(Contract!vars)
  <2>1. exec[a] = "None"
    BY <1>0, <1>1, Zenon DEF Rows
  <2>2. Shows(a) /\ \A b \in Actions \ {a} : SameView(b)
    BY <1>1, <2>1, Zenon
       DEF Shows, SameView, SamePermit, SameSent, SameResult, Permit, Result
  <2> QED
    BY <2>2, ContractStep
<1>2. ASSUME NEW decision \in {"Approved", "Denied"}, Decide(a, decision)
      PROVE  [Contract!Next]_(Contract!vars)
  BY <1>0, <1>1, <1>2, DecideFacts, Hidden, Zenon DEF SameDone, Rows
<1>3. CASE CancelRun(a)
  BY <1>0, <1>1, <1>3, CancelFacts, Hidden, Zenon
     DEF SameDone, RunGoes, RunAt, MayCancel, Rows
<1>4. CASE WorkerClaims(a) \/ WorkerFails(a)
  BY <1>0, <1>4, WorkerFacts, Hidden, Zenon DEF SameDone, RunAt, Rows
<1> QED
  BY <1>2, <1>3, <1>4

(* The connector call of the request that made the reservation. *)
LEMMA SendShows ==
  ASSUME NEW a \in Actions, exec[a] = "started", calls[a] = 0, Sent(a),
         UNCHANGED <<run, claims, exec, refused>>
  PROVE  [Contract!Next]_(Contract!vars)
<1>1. SamePermit(a) /\ SameResult(a) /\ SameDone(a) /\ \A b \in Actions \ {a} : SameView(b)
  BY Zenon DEF Sent, SameView, SamePermit, SameSent, SameResult, SameDone, Permit, Result
<1>2. ~(calls[a] > 0)
  OBVIOUS
<1>3. calls'[a] = 0 \/ calls'[a] > 0
  BY DEF Sent
<1>4. Permit(a) = "Spent" /\ Result(a) = "Nothing"
  BY Zenon DEF Permit, Result
<1>5. CASE calls'[a] = 0
  BY <1>1, <1>5, ContractStep DEF Shows, SameView, SameSent
<1>6. CASE calls'[a] > 0
  BY <1>1, <1>2, <1>4, <1>6, ContractStep, Zenon DEF Shows
<1> QED
  BY <1>3, <1>5, <1>6, Zenon

LEMMA HandlerShows ==
  ASSUME TypeOK, ActionInv, NEW c \in Clients, HandlerStep(c)
  PROVE  [Contract!Next]_(Contract!vars)
<1>a. PICK a \in Actions : a = caller[c].action
  BY DEF TypeOK, CallerState
<1>0. Rows(a) /\ KnowsOf(caller[c].pc, a, caller[c].seen)
  BY <1>a, KnownAt, Zenon DEF ActionInv
<1>1. CASE ReadApproval(c) \/ Verify(c)
  BY <1>1, <1>a, ReadApprovalFacts, VerifyFacts, Hidden, Zenon DEF Alone, SameDone
<1>2. CASE Consume(c)
  <2>1. CASE UNCHANGED <<run, claims>>
    BY <1>2, <1>a, <2>1, ConsumeFacts, Hidden, Zenon DEF Alone, SameDone
  <2>2. CASE ~UNCHANGED <<run, claims>>
    <3>1. /\ Alone /\ UNCHANGED <<exec, calls>> /\ claims' = claims \cup {a} /\ a \notin claims
          /\ approval[a].status = "Approved" /\ run[a].status = "AwaitingApproval"
          /\ RunGoes(a, "Running", run[a].revision + 1)
      BY <1>2, <1>a, <2>2, ConsumeFacts, Zenon
    <3>2. exec[a] = "None" /\ a \notin refused
      BY <1>0, <3>1, Zenon DEF Rows
    <3>3. Shows(a) /\ \A b \in Actions \ {a} : SameView(b)
      BY <3>1, <3>2, Zenon
         DEF Alone, RunGoes, RunAt, Shows, SameView, SamePermit, SameSent, SameResult, SameDone,
             Permit, Result
    <3> QED
      BY <3>3, ContractStep
  <2> QED
    BY <2>1, <2>2
<1>3. CASE Reserve(c)
  <2>0. a \in claims
    BY <1>0, <1>3, ReserveFacts, KnownClaim, Zenon
  <2>1. /\ Alone /\ UNCHANGED <<run, claims, calls>>
        /\ exec' = exec \/ (exec[a] = "None" /\ ExecAt(a, "started"))
    BY <1>3, <1>a, ReserveFacts, Zenon
  <2>2. Shows(a) /\ \A b \in Actions \ {a} : SameView(b)
    BY <1>0, <2>0, <2>1, Zenon
       DEF Alone, ExecAt, Shows, SameView, SamePermit, SameSent, SameResult, SameDone, Permit,
           Result, Rows
  <2> QED
    BY <2>2, ContractStep
<1>4. CASE \E sent, effect, answered \in BOOLEAN : Call(c, sent, effect, answered)
  <2>1. Alone /\ UNCHANGED <<run, claims, exec>> /\ caller[c].pc = "Call" /\ Sent(a)
    BY <1>4, <1>a, CallFacts, Zenon
  <2>2. calls[a] = 0 /\ exec[a] = "started"
    BY <1>0, <2>1, Zenon DEF KnowsOf
  <2> QED
    BY <2>1, <2>2, SendShows, Zenon DEF Alone
<1>5. CASE MarkUncertain(c) \/ Perform(c)
  <2>1. /\ Alone /\ UNCHANGED <<run, claims, calls>>
        /\ \/ exec' = exec
           \/ exec[a] = "started" /\ ExecAt(a, "uncertain")
           \/ exec[a] = "started" /\ ExecAt(a, "performed") /\ calls[a] > 0
    <3>1. caller[c].pc = "Perform" => calls[a] > 0
      BY <1>0, Zenon DEF KnowsOf
    <3> QED
      BY <1>5, <1>a, <3>1, MarkUncertainFacts, PerformFacts, Zenon
  <2>2. Shows(a) /\ \A b \in Actions \ {a} : SameView(b)
    BY <2>1, Zenon
       DEF Alone, ExecAt, Shows, SameView, SamePermit, SameSent, SameResult, SameDone, Permit,
           Result
  <2> QED
    BY <2>2, ContractStep
<1>6. CASE Reconcile(c) \/ ReadRun(c, "FailRead", "Fail") \/ ReadRun(c, "DoneRead", "Succeed")
  BY <1>6, <1>a, ReconcileFacts, ReadRunFacts, Hidden, Zenon DEF SettleLabel, Alone, SameDone
<1>7. CASE Settle(c, "Fail", "Failed")
  <2>1. /\ Alone /\ UNCHANGED <<claims, exec, calls>>
        /\ \/ run' = run
           \/ /\ MayTransition(a, caller[c].seen, "Failed")
              /\ RunGoes(a, "Failed", run[a].revision + 1)
    BY <1>7, <1>a, SettleFacts, Zenon DEF EndStatus
  <2> QED
    BY <2>1, Hidden, Zenon
       DEF Alone, RunGoes, RunAt, MayTransition, CanTransitionTo, SameDone
<1>8. CASE Settle(c, "Succeed", "Succeeded")
  <2>0. /\ Alone /\ UNCHANGED <<claims, exec, calls>> /\ caller[c].pc = "Succeed"
        /\ \/ run' = run
           \/ RunGoes(a, "Succeeded", run[a].revision + 1)
    BY <1>8, <1>a, SettleFacts, Zenon DEF EndStatus
  <2>1. exec[a] = "performed"
    BY <1>0, <2>0, Zenon DEF KnowsOf
  <2>2. Shows(a) /\ \A b \in Actions \ {a} : SameView(b)
    BY <2>0, <2>1, Zenon
       DEF Alone, RunGoes, RunAt, Shows, SameView, SamePermit, SameSent, SameResult, SameDone,
           Permit, Result
  <2> QED
    BY <2>2, ContractStep
<1> QED
  BY <1>1, <1>2, <1>3, <1>4, <1>5, <1>6, <1>7, <1>8, Zenon
     DEF HandlerStep, FailRun, SucceedRun

LEMMA StepShows ==
  ASSUME TypeOK, ActionInv, [Next]_vars
  PROVE  [Contract!Next]_(Contract!vars)
<1>1. ASSUME NEW a \in Actions,
             \/ CreateStep(a) \/ CancelRun(a) \/ WorkerClaims(a) \/ WorkerFails(a)
             \/ \E decision \in {"Approved", "Denied"} : Decide(a, decision)
      PROVE  [Contract!Next]_(Contract!vars)
  BY <1>1, CreateShows, OutsiderShows, Zenon
<1>2. ASSUME NEW c \in Clients, HandlerStep(c) PROVE [Contract!Next]_(Contract!vars)
  BY <1>2, HandlerShows
<1>3. ASSUME NEW c \in Clients, HangUp(c) PROVE [Contract!Next]_(Contract!vars)
  <2>1. PICK a \in Actions : a = caller[c].action
    BY DEF TypeOK, CallerState
  <2>2. KnowsOf(caller[c].pc, a, caller[c].seen)
    BY <2>1, KnownAt, Zenon DEF ActionInv
  <2>3. /\ UNCHANGED <<run, claims, exec, refused>>
        /\ calls' = calls \/ (caller[c].pc = "Call" /\ Sent(a))
    BY <1>3, <2>1, HangUpFacts, Zenon
  <2>4. CASE calls' = calls
    BY <2>3, <2>4, Hidden, Zenon DEF SameDone
  <2>5. CASE caller[c].pc = "Call" /\ Sent(a)
    <3>1. calls[a] = 0 /\ exec[a] = "started"
      BY <2>2, <2>5, Zenon DEF KnowsOf
    <3> QED
      BY <2>3, <2>5, <3>1, SendShows, Zenon
  <2> QED
    BY <2>3, <2>4, <2>5, Zenon
<1>4. ASSUME NEW c \in Clients, NEW a \in Actions, NEW want \in 1..2, Execute(c, a, want)
      PROVE  [Contract!Next]_(Contract!vars)
  BY <1>4, ExecuteFacts, Hidden, Zenon DEF Alone, SameDone
<1>5. CASE Crash
  BY <1>5, CrashFacts, Hidden, Zenon DEF SameDone
<1>6. CASE Restart
  <2>1. \A b \in Actions : SameDone(b)
    BY <1>6, RestartFacts, Zenon DEF Interrupted, SameDone
  <2> QED
    BY <1>6, <2>1, RestartFacts, Hidden, Zenon
<1>7. CASE \/ InstallApp \/ \E state \in {"enabled", "disabled"} : SetAppEnabled(state)
           \/ \E a \in Actions : Expire(a)
           \/ UNCHANGED vars
  BY <1>7, StillSteps, Hidden DEF Still, SameDone
<1> QED
  BY <1>1, <1>2, <1>3, <1>4, <1>5, <1>6, <1>7, Zenon DEF Next

(* The governed actions implement ActionContract for every number of       *)
(* actions and clients: a claim is the permit, the reservation row spends  *)
(* it, the connector call sends, mark_uncertain and mark_performed record, *)
(* and only a recorded performance completes the run.                      *)
THEOREM ActionsImplementContract == Spec => ImplementsContract
<1>1. Init => Contract!Init
  BY DEF Init, Contract!Init
<1>2. TypeOK /\ ActionInv /\ [Next]_vars => [Contract!Next]_(Contract!vars)
  BY StepShows
<1> QED
  BY <1>1, <1>2, ActionsStayCoherent, PTL DEF Spec, ImplementsContract, Contract!Spec
=============================================================================
