-------------------------- MODULE CapabilityAction --------------------------
(***************************************************************************)
(* Governed capability actions of control-api/src/lib.rs, from the request *)
(* to the remote effect: invoke_capability opens a run, an approval and an *)
(* action; a user approves or denies it or cancels the run; an execute     *)
(* request consumes the approval, reserves the one attempt, calls the      *)
(* connector and settles the run.  Requests of several clients interleave  *)
(* between store calls, a client may hang up, a database call may fail     *)
(* with or without its effect, a worker may claim a run that is still      *)
(* queued, and the process may crash and restart.                          *)
(*                                                                         *)
(* One invocation has one run, one action and one approval, so all three   *)
(* are named by the action.  Timestamps, audit order and the contents of   *)
(* parameters are the business of RunStore.                                *)
(***************************************************************************)
EXTENDS Execution, Integers

CONSTANTS
  Actions,     \* capability invocations
  Clients,     \* execute requests in flight
  MaxFaults,   \* bound: failing database calls
  MaxHangups,  \* bound: clients that disconnect
  MaxCrashes   \* bound: crashes of the control API

ASSUME CapabilityAssumption ==
  /\ Actions # {}
  /\ MaxFaults \in Nat /\ MaxHangups \in Nat /\ MaxCrashes \in Nat

VARIABLES
  run,        \* runs: status, revision and whether a worker leases it
  approval,   \* approval_requests: status, revision, awaiting_run_revision
  rows,       \* capability_actions: the actions with a row
  claims,     \* action_claims
  exec,       \* capability_action_executions: state of the attempt
  audited,    \* the actions with an action_executed event
  late,       \* the approvals past their expires_at
  app,        \* installed_apps: absent, enabled or disabled
  up,         \* the control API is serving
  creator,    \* the invoke request of each action: pc, revision it holds
  caller,     \* each execute request: pc, action, revisions it holds
  calls,      \* requests that reached the remote service
  effects,    \* effects there
  refused,    \* actions whose denial or cancellation was confirmed
  faults, hangups, crashes

store == <<run, approval, rows, claims, exec, audited>>
remote == <<calls, effects>>
bounds == <<faults, hangups, crashes>>
vars == <<store, late, app, up, creator, caller, remote, refused, bounds>>

NoApproval == [status |-> "None", revision |-> 0, window |-> 0]
Idle == [pc |-> "Idle", action |-> CHOOSE a \in Actions : TRUE, want |-> 0, seen |-> 0]

Init ==
  /\ run = [a \in Actions |-> [status |-> "None", revision |-> 0, leased |-> FALSE]]
  /\ approval = [a \in Actions |-> NoApproval]
  /\ rows = {} /\ claims = {} /\ audited = {} /\ late = {} /\ refused = {}
  /\ exec = [a \in Actions |-> "None"]
  /\ app = "absent" /\ up = TRUE
  /\ creator = [a \in Actions |-> [pc |-> "Idle", seen |-> 0]]
  /\ caller = [c \in Clients |-> Idle]
  /\ calls = [a \in Actions |-> 0] /\ effects = [a \in Actions |-> 0]
  /\ faults = 0 /\ hangups = 0 /\ crashes = 0

-----------------------------------------------------------------------------
(* The store *)

Fault == faults < MaxFaults /\ faults' = faults + 1 /\ UNCHANGED <<hangups, crashes>>

(* One database call: it takes effect and is answered, is refused, or      *)
(* fails before or after its commit.                                       *)
StoreCall(ok, Effect, Good, Bad) ==
  \/ ok /\ Effect /\ Good /\ UNCHANGED bounds
  \/ ~ok /\ UNCHANGED store /\ Bad /\ UNCHANGED bounds
  \/ ok /\ (Effect \/ UNCHANGED store) /\ Bad /\ Fault

(* A read that is answered or fails. *)
StoreRead(Good, Bad) ==
  /\ UNCHANGED store
  /\ (Good /\ UNCHANGED bounds) \/ (Bad /\ Fault)

Moved(a, next) ==
  [run EXCEPT ![a].status = next, ![a].revision = @ + 1]

(* transition_run *)
MayTransition(a, seen, next) ==
  /\ ~run[a].leased /\ run[a].revision = seen
  /\ CanTransitionTo(run[a].status, next)

Transition(a, next) ==
  run' = Moved(a, next) /\ UNCHANGED <<approval, rows, claims, exec, audited>>

(* verify_approval_window *)
InWindow(a) ==
  run[a].status = "AwaitingApproval" /\ run[a].revision = approval[a].window

-----------------------------------------------------------------------------
(* invoke_capability and create_capability_approval *)

GoCreator(a, label) == creator' = [creator EXCEPT ![a].pc = label]
Holding(a, label, seen) == creator' = [creator EXCEPT ![a] = [pc |-> label, seen |-> seen]]

CreatorStep == UNCHANGED <<late, app, up, caller, remote, refused>>

(* Only an external-effect capability of an enabled app gets this far; the *)
(* run is created outside the prompt boundary's creation gate.             *)
Invoke(a) ==
  /\ up /\ creator[a].pc = "Idle" /\ app = "enabled"
  /\ StoreCall(TRUE,
       /\ run' = [run EXCEPT ![a].status = "Queued"]
       /\ UNCHANGED <<approval, rows, claims, exec, audited>>,
       Holding(a, "Plan", 0), GoCreator(a, "Done"))
  /\ CreatorStep

Advance(a, from, next, to) ==
  /\ up /\ creator[a].pc = from
  /\ StoreCall(MayTransition(a, creator[a].seen, next), Transition(a, next),
       Holding(a, to, creator[a].seen + 1), GoCreator(a, "Done"))
  /\ CreatorStep

Plan(a) == Advance(a, "Plan", "Planning", "Await")
Await(a) == Advance(a, "Await", "AwaitingApproval", "Ask")

(* create_approval: the window is the revision the run has now. *)
Ask(a) ==
  /\ up /\ creator[a].pc = "Ask"
  /\ StoreCall(run[a].status = "AwaitingApproval",
       /\ approval' = [approval EXCEPT ![a] =
            [status |-> "Pending", revision |-> 0, window |-> run[a].revision]]
       /\ UNCHANGED <<run, rows, claims, exec, audited>>,
       GoCreator(a, "Insert"), GoCreator(a, "Done"))
  /\ CreatorStep

Insert(a) ==
  /\ up /\ creator[a].pc = "Insert"
  /\ StoreCall(TRUE,
       rows' = rows \cup {a} /\ UNCHANGED <<run, approval, claims, exec, audited>>,
       GoCreator(a, "Done"), GoCreator(a, "Done"))
  /\ CreatorStep

-----------------------------------------------------------------------------
(* Users: decide_approval, cancel_run and the app routes *)

UserStep == UNCHANGED <<late, up, creator, caller, remote>>

MayDecideLate(a, decision) == a \notin late

(* A request with another revision is refused; only an approval looks at   *)
(* the run.                                                                *)
MayDecide(a, decision) ==
  /\ approval[a].status = "Pending" /\ a \notin late
  /\ decision = "Approved" => InWindow(a)

Decide(a, decision) ==
  /\ up /\ approval[a].status # "None"
  /\ StoreCall(MayDecide(a, decision),
       /\ approval' = [approval EXCEPT ![a].status = decision, ![a].revision = 1]
       /\ UNCHANGED <<run, rows, claims, exec, audited>>,
       refused' = IF decision = "Denied" THEN refused \cup {a} ELSE refused,
       UNCHANGED refused)
  /\ UNCHANGED app
  /\ UserStep

(* request_cancel: a waiting run is cancelled at once.  A leased run gets  *)
(* a request its worker sees, which is not part of this model; an active   *)
(* run without a lease cannot be cancelled.                                *)
MayCancel(a) == run[a].status \in {"Queued", "AwaitingApproval"} /\ ~run[a].leased

CancelRun(a) ==
  /\ up /\ run[a].status # "None"
  /\ StoreCall(MayCancel(a), Transition(a, "Cancelled"),
       refused' = refused \cup {a}, UNCHANGED refused)
  /\ UNCHANGED app
  /\ UserStep

(* install_app keeps an app that is installed as it is. *)
InstallApp ==
  /\ up /\ app = "absent" /\ app' = "enabled"
  /\ UNCHANGED <<store, refused, bounds>> /\ UserStep

SetAppEnabled(state) ==
  /\ up /\ app # "absent" /\ app' = state
  /\ UNCHANGED <<store, refused, bounds>> /\ UserStep

-----------------------------------------------------------------------------
(* execute_approved_capability *)

GoCaller(c, label) == caller' = [caller EXCEPT ![c].pc = label]
Return(c) == caller' = [caller EXCEPT ![c] = Idle]
At(c, label) == up /\ caller[c].pc = label

CallerStep == UNCHANGED <<late, app, up, creator, refused>>

(* prepare_capability_execution up to the bindings of the row: `want` is   *)
(* the expected_revision of the request.                                   *)
Execute(c, a, want) ==
  /\ At(c, "Idle") /\ a \in rows /\ app = "enabled"
  /\ caller' = [caller EXCEPT ![c] =
       [pc |-> "Read", action |-> a, want |-> want, seen |-> 0]]
  /\ UNCHANGED <<store, remote, bounds>> /\ CallerStep

(* get_approval: the status decides how to obtain the claim. *)
ReadApproval(c) ==
  LET p == approval[caller[c].action] IN
  /\ At(c, "Read")
  /\ StoreRead(
       IF p.revision = caller[c].want /\ p.status \in {"Approved", "Consumed"}
       THEN GoCaller(c, IF p.status = "Approved" THEN "Consume" ELSE "Verify")
       ELSE Return(c),
       Return(c))
  /\ UNCHANGED remote /\ CallerStep

MayConsumeInAnyWindow(a, want) ==
  /\ approval[a].status = "Approved" /\ approval[a].revision = want
  /\ a \notin late /\ a \notin claims

(* consume_approval *)
MayConsume(a, want) == MayConsumeInAnyWindow(a, want) /\ InWindow(a)

ConsumeOnly(a) == run

(* The run starts in the same transaction. *)
StartedByConsumption(a) == Moved(a, "Running")

Consume(c) ==
  LET a == caller[c].action IN
  /\ At(c, "Consume")
  /\ StoreCall(MayConsume(a, caller[c].want),
       /\ approval' = [approval EXCEPT ![a].status = "Consumed", ![a].revision = @ + 1]
       /\ run' = StartedByConsumption(a)
       /\ claims' = claims \cup {a}
       /\ UNCHANGED <<rows, exec, audited>>,
       GoCaller(c, "Verify"), Return(c))
  /\ UNCHANGED remote /\ CallerStep

(* get_action_claim and ClaimedAction::verify.  The run is not looked at. *)
Verify(c) ==
  /\ At(c, "Verify")
  /\ StoreRead(IF caller[c].action \in claims THEN GoCaller(c, "Reserve") ELSE Return(c),
               Return(c))
  /\ UNCHANGED remote /\ CallerStep

ReserveAgain(a) == TRUE

(* INSERT ... ON CONFLICT DO NOTHING affects a row. *)
Unreserved(a) == exec[a] = "None"

SetExec(a, state) ==
  exec' = [exec EXCEPT ![a] = state] /\ UNCHANGED <<run, approval, rows, claims, audited>>

Reserve(c) ==
  /\ At(c, "Reserve")
  /\ StoreCall(Unreserved(caller[c].action), SetExec(caller[c].action, "started"),
       GoCaller(c, "Call"), Return(c))
  /\ UNCHANGED remote /\ CallerStep

(* The connector call: it fails before the request is sent, or the request *)
(* is sent with or without effect, and the answer is an error, is lost or  *)
(* is late, or reports the effect.                                         *)
Attempt(a, sent, effect) ==
  /\ effect => sent
  /\ calls' = [calls EXCEPT ![a] = IF sent THEN @ + 1 ELSE @]
  /\ effects' = [effects EXCEPT ![a] = IF effect THEN @ + 1 ELSE @]

(* validated_call_result: an answer that carries an error is an error. *)
CallSucceeds(effect, answered) == answered /\ effect

Call(c, sent, effect, answered) ==
  /\ At(c, "Call")
  /\ answered => sent
  /\ Attempt(caller[c].action, sent, effect)
  /\ GoCaller(c, IF CallSucceeds(effect, answered) THEN "Perform" ELSE "Uncertain")
  /\ UNCHANGED <<store, bounds>> /\ CallerStep

(* mark_capability_execution_uncertain ignores errors. *)
MarkUncertain(c) ==
  /\ At(c, "Uncertain")
  /\ StoreCall(exec[caller[c].action] = "started", SetExec(caller[c].action, "uncertain"),
       GoCaller(c, "FailRead"), GoCaller(c, "FailRead"))
  /\ UNCHANGED remote /\ CallerStep

(* fail_capability_run: a read of the run, then a transition from the      *)
(* revision read; both errors are ignored.                                 *)
ReadRun(c, from, to) ==
  /\ At(c, from)
  /\ StoreRead(caller' = [caller EXCEPT ![c].pc = to,
                                        ![c].seen = run[caller[c].action].revision],
               Return(c))
  /\ UNCHANGED remote /\ CallerStep

Settle(c, from, next) ==
  LET a == caller[c].action IN
  /\ At(c, from)
  /\ StoreCall(MayTransition(a, caller[c].seen, next), Transition(a, next),
               Return(c), Return(c))
  /\ UNCHANGED remote /\ CallerStep

FailRun(c) == ReadRun(c, "FailRead", "Fail") \/ Settle(c, "Fail", "Failed")

(* finalize_capability_execution *)
Perform(c) ==
  LET a == caller[c].action IN
  /\ At(c, "Perform")
  /\ StoreCall(exec[a] = "started", SetExec(a, "performed"), GoCaller(c, "Reconcile"),
       IF exec[a] = "started" THEN Return(c) ELSE GoCaller(c, "FailRead"))
  /\ UNCHANGED remote /\ CallerStep

Reconcile(c) ==
  LET a == caller[c].action IN
  /\ At(c, "Reconcile")
  /\ StoreCall(a \in claims /\ ~run[a].leased /\ a \notin audited,
       audited' = audited \cup {a} /\ UNCHANGED <<run, approval, rows, claims, exec>>,
       GoCaller(c, "DoneRead"), Return(c))
  /\ UNCHANGED remote /\ CallerStep

SucceedRun(c) == ReadRun(c, "DoneRead", "Succeed") \/ Settle(c, "Succeed", "Succeeded")

(* A client that disconnects drops its request at an await; a connector    *)
(* call that runs on the blocking pool by then still runs to its end.      *)
HangUp(c) ==
  /\ up /\ caller[c].pc \in {"Read", "Reserve", "Call", "Uncertain", "Perform"}
  /\ hangups < MaxHangups /\ hangups' = hangups + 1
  /\ \/ UNCHANGED remote
     \/ /\ caller[c].pc = "Call"
        /\ \E effect \in BOOLEAN : Attempt(caller[c].action, TRUE, effect)
  /\ Return(c)
  /\ UNCHANGED <<store, faults, crashes>> /\ CallerStep

-----------------------------------------------------------------------------
(* Environment *)

(* A worker claims the run while it is queued, finds no prompt for it and  *)
(* fails it, or its lease runs out and recovery fails it.                  *)
WorkerClaims(a) ==
  /\ run[a].status = "Queued" /\ ~run[a].leased
  /\ run' = [Moved(a, "Planning") EXCEPT ![a].leased = TRUE]
  /\ UNCHANGED <<approval, rows, claims, exec, audited, late, app, up, creator,
                 caller, remote, refused, bounds>>

WorkerFails(a) ==
  /\ run[a].leased
  /\ run' = [Moved(a, "Failed") EXCEPT ![a].leased = FALSE]
  /\ UNCHANGED <<approval, rows, claims, exec, audited, late, app, up, creator,
                 caller, remote, refused, bounds>>

Expire(a) ==
  /\ approval[a].status \in {"Pending", "Approved"} /\ a \notin late
  /\ late' = late \cup {a}
  /\ UNCHANGED <<store, app, up, creator, caller, remote, refused, bounds>>

(* The requests in flight and the installed apps live in the process. *)
Crash ==
  /\ up /\ crashes < MaxCrashes /\ crashes' = crashes + 1
  /\ up' = FALSE /\ app' = "absent"
  /\ creator' = [a \in Actions |->
       IF creator[a].pc = "Idle" THEN creator[a] ELSE [creator[a] EXCEPT !.pc = "Done"]]
  /\ caller' = [c \in Clients |-> Idle]
  /\ UNCHANGED <<store, late, remote, refused, faults, hangups>>

InterruptedPlanning(a) == run[a].status = "Planning" /\ ~run[a].leased

InterruptedRunning(a) == run[a].status = "Running" /\ ~run[a].leased

(* serve: recover_interrupted_runs comes before the first request. *)
Interrupted(a) == run[a].status \in {"Planning", "Running"} /\ ~run[a].leased

Restart ==
  /\ ~up /\ up' = TRUE
  /\ run' = [a \in Actions |-> IF Interrupted(a) THEN Moved(a, "Failed")[a] ELSE run[a]]
  /\ UNCHANGED <<approval, rows, claims, exec, audited, late, app, creator, caller,
                 remote, refused, bounds>>

-----------------------------------------------------------------------------
CreateStep(a) == Invoke(a) \/ Plan(a) \/ Await(a) \/ Ask(a) \/ Insert(a)

HandlerStep(c) ==
  \/ ReadApproval(c) \/ Consume(c) \/ Verify(c) \/ Reserve(c)
  \/ \E sent, effect, answered \in BOOLEAN : Call(c, sent, effect, answered)
  \/ MarkUncertain(c) \/ FailRun(c) \/ Perform(c) \/ Reconcile(c) \/ SucceedRun(c)

Next ==
  \/ \E a \in Actions :
       \/ CreateStep(a) \/ CancelRun(a) \/ WorkerClaims(a) \/ WorkerFails(a) \/ Expire(a)
       \/ \E decision \in {"Approved", "Denied"} : Decide(a, decision)
  \/ InstallApp \/ \E state \in {"enabled", "disabled"} : SetAppEnabled(state)
  \/ \E c \in Clients :
       HandlerStep(c) \/ HangUp(c) \/ \E a \in Actions, want \in 1..2 : Execute(c, a, want)
  \/ Crash \/ Restart

Spec == Init /\ [][Next]_vars

(* Handlers run to their end on tokio's threads while the process is up,   *)
(* and compose restarts the control API unless it is stopped.              *)
FairSpec ==
  Spec /\ WF_vars(Restart) /\ \A c \in Clients : WF_vars(HandlerStep(c))

-----------------------------------------------------------------------------
(* Properties *)

(* The reservation of capability_action_executions gives at-most-once: no  *)
(* retry, second client, lost answer, hang-up or restart sends the request *)
(* of an action a second time.                                             *)
AtMostOneCall == \A a \in Actions : calls[a] <= 1

(* A call starts while its run is Running.  The exception is the retry of  *)
(* a claim whose first request died before its reservation: recovery has   *)
(* failed the run by then, and only recovery.                              *)
CallsBelongToActiveRuns ==
  [][\A a \in Actions : calls'[a] > calls[a] =>
       \/ run[a].status = "Running"
       \/ run[a].status = "Failed" /\ crashes > 0]_vars

(* The capability actions implement ActionContract. *)
Contract == INSTANCE ActionContract WITH
  permit <- [a \in Actions |->
    IF exec[a] # "None" THEN "Spent" ELSE IF a \in refused THEN "Refused"
    ELSE IF a \in claims THEN "Given" ELSE "None"],
  sent <- {a \in Actions : calls[a] > 0},
  result <- [a \in Actions |->
    IF exec[a] = "performed" THEN "Performed"
    ELSE IF exec[a] = "uncertain" THEN "Uncertain" ELSE "Nothing"],
  done <- {a \in Actions : run[a].status = "Succeeded"}

ImplementsContract == Contract!Spec

(* Unless a database call failed or a client hung up, every call settles   *)
(* its run, even when the process crashes in between and recovery has to.  *)
EveryCallSettles ==
  \A a \in Actions : calls[a] > 0 ~> IsTerminal(run[a].status) \/ faults + hangups > 0

(* Unless a database call failed or a client hung up, no run is stranded:  *)
(* wherever a crash cut a request short, once the service is back an open  *)
(* run is owned by a request or a worker, or a user can cancel it.         *)
OpenRunsCanBeEnded ==
  \A a \in Actions :
    /\ faults = 0 /\ hangups = 0
    /\ up /\ creator[a].pc = "Done" /\ ~IsTerminal(run[a].status)
    /\ \A c \in Clients : caller[c].action # a \/ caller[c].pc = "Idle"
    => run[a].leased \/ MayCancel(a)

(* CURRENT_STATE.md: "A crash between remote success and local             *)
(* reconciliation is reported as uncertain."                               *)
CrashIsReportedUncertain ==
  \A a \in Actions :
    /\ up /\ effects[a] = 1 /\ a \notin audited
    /\ \A c \in Clients : caller[c].action # a \/ caller[c].pc = "Idle"
    => exec[a] = "uncertain"
=============================================================================
