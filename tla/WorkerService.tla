--------------------------- MODULE WorkerService ----------------------------
(***************************************************************************)
(* The worker service: run_loop of control-api/src/worker_runtime.rs       *)
(* around SingleRunWorker of openwork-worker/src/lib.rs, in one or more    *)
(* processes that share the PostgreSQL store.  A process recovers expired  *)
(* leases, claims a queued run, executes it in a sandbox under heartbeats  *)
(* and writes the outcome; meanwhile users cancel runs, leases expire, and *)
(* processes crash and restart.  A call of the store, the sandbox or the   *)
(* file system is one step; consecutive appends of runtime audit events    *)
(* are one step, since the audit chain is not part of this model.          *)
(*                                                                         *)
(* Time is relative: a tick is one heartbeat interval and `left` counts    *)
(* what remains of a lease.  Of a timestamp that the worker keeps in a     *)
(* variable `now`, the model keeps what later comparisons can see: whether *)
(* the lease was alive then, and whether the run's audit chain has since   *)
(* received a later event.                                                 *)
(*                                                                         *)
(* A run is claimed at most once and never returns to a status, so the     *)
(* lease token is represented by the owner and the revision in a lease     *)
(* value by the status in it.                                              *)
(***************************************************************************)
EXTENDS Execution, Integers

CONSTANTS
  Workers,      \* the service processes
  Runs,         \* the queued runs
  Nobody,       \* no lease owner
  TTL,          \* LEASE_TTL in heartbeat intervals
  MaxFaults,    \* bound: store and file system calls that fail
  MaxCrashes    \* bound: process crashes

(* with_supervisor: the heartbeat interval is shorter than the TTL. *)
ASSUME WorkerAssumption ==
  /\ Nobody \notin Workers /\ Runs # {}
  /\ TTL \in Nat /\ TTL > 1
  /\ MaxFaults \in Nat /\ MaxCrashes \in Nat

VARIABLES
  status,     \* the store: status of each run,
  owner,      \*   process that holds its lease,
  left,       \*   ticks until that lease expires,
  intent,     \*   cancel_requested_at is set,
  artifacts,  \*   its artifacts are recorded
  container,  \* the container of each run: None, Up (may be running) or Down
  output,     \* the output directory of each run exists
  pc,         \* each process: where it is,
  task,       \*   the run it works on,
  copy,       \*   the status in its lease value,
  alive,      \*   its lease was valid at the time in `now`,
  behind,     \*   which of its timestamps precede the cancel request,
  next,       \*   the terminal status it is about to write,
  box,        \*   its sandbox thread,
  result,     \*   what that thread returned,
  lost, sent, \*   primary_error and cancel_sent of the supervisor,
  due,        \*   its recovery timer has run out
  unheard,    \* the answer to a committed call was lost
  faults, crashes

store == <<status, owner, left, intent, artifacts>>
locals == <<task, copy, next, lost, sent>>
clock == <<alive, behind>>
sandbox == <<container, box, result>>
env == <<unheard, faults, crashes>>
vars == <<store, output, pc, locals, clock, sandbox, due, env>>

(* Every run is queued and every process is starting.  The local variables *)
(* are assigned before they are read.                                      *)
Init ==
  /\ status = [r \in Runs |-> "Queued"]
  /\ owner = [r \in Runs |-> Nobody]
  /\ left = [r \in Runs |-> 0]
  /\ intent = [r \in Runs |-> FALSE]
  /\ artifacts = [r \in Runs |-> FALSE]
  /\ container = [r \in Runs |-> "None"]
  /\ output = [r \in Runs |-> FALSE]
  /\ pc = [w \in Workers |-> "Boot"]
  /\ task \in [Workers -> {CHOOSE r \in Runs : TRUE}]
  /\ copy = [w \in Workers |-> "Planning"]
  /\ alive = [w \in Workers |-> FALSE]
  /\ behind = [w \in Workers |-> "None"]
  /\ next = [w \in Workers |-> "Failed"]
  /\ box = [w \in Workers |-> "None"]
  /\ result = [w \in Workers |-> "Error"]
  /\ lost = [w \in Workers |-> FALSE] /\ sent = [w \in Workers |-> FALSE]
  /\ due = [w \in Workers |-> TRUE]
  /\ unheard = FALSE /\ faults = 0 /\ crashes = 0

-----------------------------------------------------------------------------
(* The store, as the service uses it *)

Go(w, label) == pc' = [pc EXCEPT ![w] = label]

Fault == faults < MaxFaults /\ faults' = faults + 1

(* A store call takes effect and is answered, or is refused, or fails with *)
(* a database error, in which case it has taken no effect, or has and only *)
(* the answer to its commit is lost.                                       *)
StoreCall(ok, Effect, Good, Bad) ==
  \/ ok /\ Effect /\ Good /\ UNCHANGED env
  \/ ~ok /\ UNCHANGED store /\ Bad /\ UNCHANGED env
  \/ /\ ok /\ Fault /\ Bad /\ UNCHANGED crashes
     /\ \/ UNCHANGED <<store, unheard>>
        \/ Effect /\ unheard' = TRUE

(* validate_current_lease_tx: the token and the revision. *)
Current(w, seen) == owner[task[w]] = w /\ status[task[w]] = seen

(* The same with the time: that of the call, or the one in `now`. *)
Valid(w, seen) == Current(w, seen) /\ left[task[w]] > 0
ValidThen(w, seen) == Current(w, seen) /\ alive[w]

(* ... and with ensure_audit_time_tx, for the calls that append an event.  *)
Writable(w, seen) == Valid(w, seen) /\ behind[w] # "Call"
WritableThen(w, seen) == ValidThen(w, seen) /\ behind[w] = "None"

(* The next call takes a timestamp of its own. *)
Called(w) == behind' = [behind EXCEPT ![w] = IF @ = "Call" THEN "Kept" ELSE @]

(* let now = UtcTimestamp::now() *)
TakeNow(w) ==
  /\ alive' = [alive EXCEPT ![w] = left[task[w]] > 0]
  /\ behind' = [behind EXCEPT ![w] = IF @ = "Call" THEN "Kept" ELSE "None"]

SetStatus(r, s) ==
  /\ status' = [status EXCEPT ![r] = s]
  /\ UNCHANGED <<owner, left, intent, artifacts>>

(* complete_leased_run and confirm_cancel: the lease goes with the status. *)
EndRun(r, terminal) ==
  /\ status' = [status EXCEPT ![r] = terminal]
  /\ owner' = [owner EXCEPT ![r] = Nobody]
  /\ left' = [left EXCEPT ![r] = 0]
  /\ UNCHANGED <<intent, artifacts>>

Expired == {r \in Runs : owner[r] # Nobody /\ left[r] = 0}

KeepExpired == UNCHANGED store

(* recover_expired_leases: one transaction for all of them. *)
FailExpired ==
  /\ status' = [r \in Runs |-> IF r \in Expired THEN "Failed" ELSE status[r]]
  /\ owner' = [r \in Runs |-> IF r \in Expired THEN Nobody ELSE owner[r]]
  /\ UNCHANGED <<left, intent, artifacts>>

(* Where the next call takes its own timestamp and appends an event. *)
Stamping ==
  {"Unprompted", "Start", "Finish", "Confirm", "Exited", "Artifacts",
   "Destroyed", "Complete", "FailNow", "FailClaim", "Abandon"}

OlderThanRequest(w, r) ==
  CASE task[w] # r         -> {behind[w]}
    [] pc[w] \in Stamping  -> {"None", "Kept", "Call"}
    [] OTHER               -> {"None", "Kept"}

(* request_cancel.  A queued run ends at once.  For a leased run intent    *)
(* and event are recorded; its worker may have read the clock before the   *)
(* request did, into `now` or for the call it is making.                   *)
RequestCancel(r) ==
  /\ \/ /\ status[r] = "Queued"
        /\ EndRun(r, "Cancelled")
        /\ UNCHANGED behind
     \/ /\ owner[r] # Nobody /\ ~intent[r]
        /\ intent' = [intent EXCEPT ![r] = TRUE]
        /\ \E b \in OlderThanRequest(owner[r], r) :
             behind' = [behind EXCEPT ![owner[r]] = b]
        /\ UNCHANGED <<status, owner, left, artifacts>>
  /\ UNCHANGED <<output, pc, locals, alive, sandbox, due, env>>

-----------------------------------------------------------------------------
(* run_loop *)

(* An operator or a supervisor of the host starts the process again. *)
Restart(w) ==
  /\ pc[w] = "Down"
  /\ Go(w, "Boot")
  /\ UNCHANGED <<store, output, locals, clock, sandbox, due, env>>

(* serve: expired leases are recovered before the service starts; if that  *)
(* fails the process exits.  Its second recovery, of active runs without a *)
(* lease, finds none among the worker's runs.                              *)
Boot(w) ==
  /\ pc[w] = "Boot"
  /\ StoreCall(TRUE, FailExpired, Go(w, "Loop"), Go(w, "Down"))
  /\ UNCHANGED <<output, locals, clock, sandbox, due>>

(* One turn of the loop: the recovery, when it is due, and its timer.  A   *)
(* failed recovery is logged.                                              *)
Loop(w) ==
  /\ pc[w] = "Loop"
  /\ IF due[w] THEN StoreCall(TRUE, FailExpired, Go(w, "Claim"), Go(w, "Claim"))
              ELSE Go(w, "Claim") /\ UNCHANGED <<store, env>>
  /\ due' = [due EXCEPT ![w] = FALSE]
  /\ UNCHANGED <<output, locals, clock, sandbox>>

ClaimRun(w, r) ==
  /\ status' = [status EXCEPT ![r] = "Planning"]
  /\ owner' = [owner EXCEPT ![r] = w]
  /\ left' = [left EXCEPT ![r] = TTL]
  /\ UNCHANGED <<intent, artifacts>>

(* The variables of one turn of the loop: they end with it, or with the    *)
(* process.                                                                *)
Forget(w) ==
  /\ copy' = [copy EXCEPT ![w] = "Planning"]
  /\ alive' = [alive EXCEPT ![w] = FALSE] /\ behind' = [behind EXCEPT ![w] = "None"]
  /\ next' = [next EXCEPT ![w] = "Failed"] /\ result' = [result EXCEPT ![w] = "Error"]
  /\ lost' = [lost EXCEPT ![w] = FALSE] /\ sent' = [sent EXCEPT ![w] = FALSE]

(* claim_with_prompt: claim_next_run, which skips rows that another        *)
(* process has locked, and take_prompt, which fails when this process does *)
(* not hold the run's prompt.  Without a queued run the loop goes round.   *)
Claim(w) ==
  /\ pc[w] = "Claim"
  /\ \/ \E r \in Runs, found \in {"Prepare", "Unprompted"} :
          /\ status[r] = "Queued"
          /\ StoreCall(TRUE, ClaimRun(w, r), Go(w, found), Go(w, "Loop"))
          /\ task' = [task EXCEPT ![w] = r]
     \/ /\ \A r \in Runs : status[r] # "Queued"
        /\ Go(w, "Loop")
        /\ UNCHANGED <<store, env, task>>
  /\ Forget(w)
  /\ UNCHANGED <<output, container, box, due>>

(* The run's prompt is not here: the claim is failed on the spot. *)
Unprompted(w) ==
  /\ pc[w] = "Unprompted"
  /\ StoreCall(Writable(w, "Planning"), EndRun(task[w], "Failed"),
               Go(w, "Loop"), Go(w, "Loop"))
  /\ Called(w)
  /\ UNCHANGED <<output, locals, alive, sandbox, due>>

(* execute_claim up to SingleRunWorker::execute, and the checks with which *)
(* that begins.  The directory may be created and then not opened to the   *)
(* container.  Routing and environment errors return to execute_claim;     *)
(* build_task and validate_environment errors fail the run first.          *)
Prepare(w) ==
  /\ pc[w] = "Prepare"
  /\ \/ /\ output' = [output EXCEPT ![task[w]] = TRUE]
        /\ \E label \in {"Start", "FailClaim", "FailNow"} : Go(w, label)
        /\ UNCHANGED faults
     \/ /\ Fault
        /\ \E made \in BOOLEAN : output' = [output EXCEPT ![task[w]] = made]
        /\ Go(w, "Abandon")
  /\ UNCHANGED <<store, locals, clock, sandbox, due, unheard, crashes>>

(* fail_claim without a directory to remove *)
Abandon(w) ==
  /\ pc[w] = "Abandon"
  /\ StoreCall(Writable(w, "Planning"), EndRun(task[w], "Failed"),
               Go(w, "Loop"), Go(w, "Loop"))
  /\ Called(w)
  /\ UNCHANGED <<output, locals, alive, sandbox, due>>

(* fail_claim presents the lease as it was claimed, in Planning, and its   *)
(* answer is ignored.                                                      *)
FailClaim(w) ==
  /\ pc[w] = "FailClaim"
  /\ StoreCall(Writable(w, "Planning"), EndRun(task[w], "Failed"),
               Go(w, "Discard"), Go(w, "Discard"))
  /\ Called(w)
  /\ UNCHANGED <<output, locals, alive, sandbox, due>>

(* remove_failed_output, whose failure is ignored *)
Discard(w) ==
  /\ pc[w] = "Discard"
  /\ Go(w, "Loop")
  /\ \/ output' = [output EXCEPT ![task[w]] = FALSE] /\ UNCHANGED faults
     \/ Fault /\ UNCHANGED output
  /\ UNCHANGED <<store, locals, clock, sandbox, due, unheard, crashes>>

-----------------------------------------------------------------------------
(* SingleRunWorker::execute *)

(* The first cancel_requested, at the time kept in `now` from here on. *)
Start(w) ==
  /\ pc[w] = "Start"
  /\ TakeNow(w)
  /\ StoreCall(Valid(w, "Planning"), UNCHANGED store,
               Go(w, IF intent[task[w]] THEN "FailThen" ELSE "Begin"),
               Go(w, "FailClaim"))
  /\ UNCHANGED <<output, locals, sandbox, due>>

(* The transition to Running: run_loop always asks for StartDisposition::Run. *)
Begin(w) ==
  /\ pc[w] = "Begin"
  /\ StoreCall(WritableThen(w, "Planning"), SetStatus(task[w], "Running"),
               Go(w, "Recheck"), Go(w, "FailClaim"))
  /\ UNCHANGED <<output, locals, clock, sandbox, due>>

SkipRecheck(w) ==
  /\ pc[w] = "Recheck"
  /\ copy' = [copy EXCEPT ![w] = "Running"]
  /\ Go(w, "Launch")
  /\ UNCHANGED <<store, output, task, next, lost, sent, clock, sandbox, due, env>>

(* The second cancel_requested, with the lease that `transition` returned. *)
Recheck(w) ==
  /\ pc[w] = "Recheck"
  /\ copy' = [copy EXCEPT ![w] = "Running"]
  /\ StoreCall(ValidThen(w, "Running"), UNCHANGED store,
               Go(w, IF intent[task[w]] THEN "FailThen" ELSE "Launch"),
               Go(w, "FailClaim"))
  /\ UNCHANGED <<output, task, next, lost, sent, clock, sandbox, due>>

(* The sandbox is healthy, the adapter prepares the command and the        *)
(* supervisor spawns the sandbox thread; or one of these fails.            *)
Launch(w) ==
  /\ pc[w] = "Launch"
  /\ \/ Go(w, "FailThen") /\ UNCHANGED <<box, lost, sent>>
     \/ /\ Go(w, "Supervise")
        /\ box' = [box EXCEPT ![w] = "Starting"]
        /\ lost' = [lost EXCEPT ![w] = FALSE]
        /\ sent' = [sent EXCEPT ![w] = FALSE]
  /\ UNCHANGED <<store, output, task, copy, next, clock, container, result, due, env>>

RetryOnError(w) ==
  /\ pc[w] = "Supervise"
  /\ \/ /\ box[w] = "Returned"
        /\ Go(w, IF lost[w] \/ result[w] = "Error" THEN "Launch" ELSE "Finish")
        /\ box' = [box EXCEPT ![w] = "None"]
     \/ /\ box[w] # "Returned" /\ ~lost[w]
        /\ Go(w, "Heartbeat")
        /\ UNCHANGED box
  /\ UNCHANGED <<store, output, locals, clock, container, result, due, env>>

(* execute_with_cancellation: recv_timeout yields the sandbox's answer, or *)
(* a heartbeat is due.  Once there is a primary error the supervisor only  *)
(* waits.  Its variables go when it returns.                               *)
Supervise(w) ==
  /\ pc[w] = "Supervise"
  /\ \/ /\ box[w] = "Returned"
        /\ Go(w, IF lost[w] \/ result[w] = "Error" THEN "FailThen" ELSE "Finish")
        /\ box' = [box EXCEPT ![w] = "None"]
        /\ lost' = [lost EXCEPT ![w] = FALSE] /\ sent' = [sent EXCEPT ![w] = FALSE]
     \/ /\ box[w] # "Returned" /\ ~lost[w]
        /\ Go(w, "Heartbeat")
        /\ UNCHANGED <<box, lost, sent>>
  /\ UNCHANGED <<store, output, task, copy, next, clock, container, result, due, env>>

ExtendLease(r) ==
  /\ left' = [left EXCEPT ![r] = TTL]
  /\ UNCHANGED <<status, owner, intent, artifacts>>

(* The heartbeat observes the cancellation intent; an error of it is kept. *)
(* Either makes the supervisor cancel the sandbox, once.                   *)
Heartbeat(w) ==
  /\ pc[w] = "Heartbeat"
  /\ StoreCall(Valid(w, "Running"), ExtendLease(task[w]),
       /\ Go(w, IF intent[task[w]] /\ ~sent[w] THEN "Cancel" ELSE "Supervise")
       /\ UNCHANGED lost,
       /\ Go(w, IF sent[w] THEN "Supervise" ELSE "Cancel")
       /\ lost' = [lost EXCEPT ![w] = TRUE])
  /\ UNCHANGED <<output, task, copy, next, sent, clock, sandbox, due>>

(* sandbox.cancel kills a container that is registered as active.  It is   *)
(* an error when none is, or when the kill fails.                          *)
Cancel(w) ==
  /\ pc[w] = "Cancel"
  /\ \/ /\ box[w] = "Active"
        /\ box' = [box EXCEPT ![w] = "Killed"]
        /\ container' = [container EXCEPT ![task[w]] = "Down"]
        /\ UNCHANGED lost
     \/ /\ lost' = [lost EXCEPT ![w] = TRUE]
        /\ UNCHANGED <<box, container>>
  /\ sent' = [sent EXCEPT ![w] = TRUE]
  /\ Go(w, "Supervise")
  /\ UNCHANGED <<store, output, task, copy, next, clock, result, due, env>>

(* The sandbox thread creates, registers and starts the container, or      *)
(* gives up before it runs.                                                *)
BoxStart(w) ==
  /\ box[w] = "Starting"
  /\ \/ /\ box' = [box EXCEPT ![w] = "Active"]
        /\ container' = [container EXCEPT ![task[w]] = "Up"]
        /\ UNCHANGED result
     \/ /\ box' = [box EXCEPT ![w] = "Returned"]
        /\ \E res \in {"Failed", "Error"} : result' = [result EXCEPT ![w] = res]
        /\ UNCHANGED container
  /\ UNCHANGED <<store, output, pc, locals, clock, due, env>>

(* What the thread may return and leave behind.  An exit was observed, and *)
(* a timeout is only reported when the kill succeeded; every other failure *)
(* may leave the container running.  Cancelled is only reported of a       *)
(* confirmed kill, and turned into Failed unless the cleanup succeeded.    *)
Endings(killed) ==
  IF killed THEN {"Cancelled", "Failed", "Error"} \X {"Down"}
  ELSE ({"Exited", "TimedOut", "OutOfMemory"} \X {"Down"})
         \cup ({"Failed", "Error"} \X {"Up", "Down"})

(* monitor_container and the rest of execute_inner *)
BoxEnd(w) ==
  /\ box[w] \in {"Active", "Killed"}
  /\ \E e \in Endings(box[w] = "Killed") :
       /\ result' = [result EXCEPT ![w] = e[1]]
       /\ container' = [container EXCEPT ![task[w]] = e[2]]
  /\ box' = [box EXCEPT ![w] = "Returned"]
  /\ UNCHANGED <<store, output, pc, locals, clock, due, env>>

-----------------------------------------------------------------------------
(* SingleRunWorker::finish *)

(* The time for the cancellation check and for the failure of a result     *)
(* that is invalid or another run's; then the first two runtime events.    *)
(* (CancellationEvidence::verify asks no more of a valid cancelled result  *)
(* than that its cleanup succeeded, which Endings has of every one.)       *)
Finish(w) ==
  /\ pc[w] = "Finish"
  /\ TakeNow(w)
  /\ \/ Go(w, "FailThen") /\ UNCHANGED <<store, env>>
     \/ StoreCall(Writable(w, "Running"), UNCHANGED store,
                  Go(w, "Judge"), Go(w, "FailClaim"))
  /\ UNCHANGED <<output, locals, sandbox, due>>

UncheckedVerdict(requested, res) ==
  CASE requested       -> "Confirm"
    [] res = "Exited"  -> "Exited"
    [] OTHER           -> "Destroyed"

(* What the outcome of the sandbox leads to. *)
Verdict(requested, res) ==
  CASE requested /\ res = "Cancelled"  -> "Confirm"
    [] requested # (res = "Cancelled") -> "FailNow"
    [] res = "Exited"                  -> "Exited"
    [] OTHER                           -> "Destroyed"

Judge(w) ==
  /\ pc[w] = "Judge"
  /\ StoreCall(ValidThen(w, "Running"), UNCHANGED store,
               Go(w, Verdict(intent[task[w]], result[w])), Go(w, "FailClaim"))
  /\ next' = [next EXCEPT ![w] = IF result[w] = "TimedOut" THEN "TimedOut" ELSE "Failed"]
  /\ UNCHANGED <<output, task, copy, lost, sent, clock, sandbox, due>>

(* finish_exited: the output is decoded, its events are recorded, and only *)
(* after a final Completed with exit code 0 are the artifacts scanned.     *)
Exited(w) ==
  /\ pc[w] = "Exited"
  /\ \/ Go(w, "FailNow") /\ UNCHANGED <<store, env, behind>>
     \/ /\ StoreCall(Writable(w, "Running"), UNCHANGED store,
             \E label \in {"Destroyed", "FailNow", "Artifacts"} : Go(w, label),
             Go(w, "FailClaim"))
        /\ Called(w)
  /\ UNCHANGED <<output, locals, alive, sandbox, due>>

RecordArtifacts(r) ==
  /\ artifacts' = [artifacts EXCEPT ![r] = TRUE]
  /\ UNCHANGED <<status, owner, left, intent>>

Artifacts(w) ==
  /\ pc[w] = "Artifacts"
  /\ StoreCall(Writable(w, "Running"), RecordArtifacts(task[w]),
       Go(w, "Destroyed") /\ next' = [next EXCEPT ![w] = "Succeeded"],
       Go(w, "FailNow") /\ UNCHANGED next)
  /\ Called(w)
  /\ UNCHANGED <<output, task, copy, lost, sent, alive, sandbox, due>>

(* The SandboxDestroyed event that comes before every completion *)
Destroyed(w) ==
  /\ pc[w] = "Destroyed"
  /\ StoreCall(Writable(w, "Running"), UNCHANGED store,
               Go(w, "Complete"), Go(w, "FailClaim"))
  /\ Called(w)
  /\ UNCHANGED <<output, locals, alive, sandbox, due>>

DropOutput(terminal) == "Discard"

(* execute_claim removes the output of every run that has not succeeded. *)
AfterOutcome(terminal) == IF terminal = "Succeeded" THEN "Loop" ELSE "Discard"

(* complete_leased_run: no success once cancellation is requested. *)
Complete(w) ==
  /\ pc[w] = "Complete"
  /\ StoreCall(/\ Writable(w, "Running")
               /\ ~(next[w] = "Succeeded" /\ intent[task[w]]),
               EndRun(task[w], next[w]),
               Go(w, AfterOutcome(next[w])), Go(w, "FailClaim"))
  /\ Called(w)
  /\ UNCHANGED <<output, locals, alive, sandbox, due>>

Confirm(w) ==
  /\ pc[w] = "Confirm"
  /\ StoreCall(Writable(w, "Running") /\ intent[task[w]],
               EndRun(task[w], "Cancelled"),
               Go(w, AfterOutcome("Cancelled")), Go(w, "FailClaim"))
  /\ Called(w)
  /\ UNCHANGED <<output, locals, alive, sandbox, due>>

(* fail_closed and fail_after_error with a time of their own ...  After    *)
(* fail_after_error has written Failed, fail_claim finds no lease: that    *)
(* refused call is left out.                                               *)
FailNow(w) ==
  /\ pc[w] = "FailNow"
  /\ StoreCall(Writable(w, copy[w]), EndRun(task[w], "Failed"),
               Go(w, AfterOutcome("Failed")), Go(w, "FailClaim"))
  /\ Called(w)
  /\ UNCHANGED <<output, locals, alive, sandbox, due>>

(* ... and with the time kept in `now` since the start of `execute` or of  *)
(* `finish`.                                                               *)
FailThen(w) ==
  /\ pc[w] = "FailThen"
  /\ StoreCall(WritableThen(w, copy[w]), EndRun(task[w], "Failed"),
               Go(w, AfterOutcome("Failed")), Go(w, "FailClaim"))
  /\ UNCHANGED <<output, locals, clock, sandbox, due>>

-----------------------------------------------------------------------------
(* The environment *)

(* A heartbeat interval passes. *)
Tick ==
  /\ left' = [r \in Runs |-> IF left[r] = 0 THEN 0 ELSE left[r] - 1]
  /\ due' = [w \in Workers |-> TRUE]
  /\ UNCHANGED <<status, owner, intent, artifacts, output, pc, locals, clock, sandbox, env>>

(* The process dies, and with it the sandbox thread but not the container. *)
Crash(w) ==
  /\ crashes < MaxCrashes /\ pc[w] # "Down"
  /\ crashes' = crashes + 1
  /\ Go(w, "Down")
  /\ box' = [box EXCEPT ![w] = "None"]
  /\ due' = [due EXCEPT ![w] = TRUE]
  /\ Forget(w)
  /\ UNCHANGED <<store, output, task, container, unheard, faults>>

Service(w) ==
  \/ Boot(w) \/ Loop(w) \/ Claim(w) \/ Unprompted(w) \/ Prepare(w) \/ Abandon(w)
  \/ Start(w) \/ Begin(w) \/ Recheck(w) \/ Launch(w) \/ Supervise(w)
  \/ Heartbeat(w) \/ Cancel(w) \/ Finish(w) \/ Judge(w) \/ Exited(w)
  \/ Artifacts(w) \/ Destroyed(w) \/ Complete(w) \/ Confirm(w)
  \/ FailNow(w) \/ FailThen(w) \/ FailClaim(w) \/ Discard(w)

Box(w) == BoxStart(w) \/ BoxEnd(w)

Next ==
  \/ \E w \in Workers : Service(w) \/ Box(w) \/ Crash(w) \/ Restart(w)
  \/ \E r \in Runs : RequestCancel(r)
  \/ Tick

Spec == Init /\ [][Next]_vars

(* Time passes; the database answers or fails, so that the thread of a     *)
(* running service never blocks for good; a sandbox thread ends, since     *)
(* monitor_container has a deadline and every engine command a timeout.    *)
(* Nothing makes a process that is down start again.                       *)
FairSpec ==
  /\ Spec
  /\ WF_vars(Tick)
  /\ \A w \in Workers : WF_vars(Service(w)) /\ WF_vars(Box(w))

-----------------------------------------------------------------------------
(* Properties *)

(* A run that is reported as succeeded, timed out or cancelled has no      *)
(* container that could still be running: these are claims about the       *)
(* sandbox, and only Failed makes none.                                    *)
ReportedEndIsReal ==
  \A r \in Runs :
    status[r] \in {"Succeeded", "TimedOut", "Cancelled"} => container[r] # "Up"

(* Nothing is executed twice: a run whose container was ever started is    *)
(* not started again, by this process or, after a crash or an expired      *)
(* lease, by another.                                                      *)
ExecutedOnce ==
  [][\A r \in Runs :
       container[r] # "Up" /\ container'[r] = "Up" => container[r] = "None"]_vars

(* A cancellation recorded while the run is still in Planning keeps it     *)
(* from ever being started, although the transition to Running does not    *)
(* look at it and the first check may already have passed.                 *)
EarlyCancelPreventsStart ==
  \A r \in Runs :
    [](intent[r] /\ status[r] = "Planning" => [](container[r] # "Up"))

(* A run that has succeeded has its artifacts recorded and the files they  *)
(* describe in its output directory, unless an answer of the store was     *)
(* lost: execute_claim then discards the output of what it takes for a     *)
(* failure.                                                                *)
SuccessIsBacked ==
  ~unheard => \A r \in Runs : status[r] = "Succeeded" => artifacts[r] /\ output[r]

(* Every run reaches a terminal status, whatever its worker, the sandbox   *)
(* and the store do to it on the way, provided some process stays up:      *)
(* the run of a process that died is ended by another one's recovery.      *)
EveryRunEnds ==
  (\E w \in Workers : <>[](pc[w] # "Down")) => \A r \in Runs : <>IsTerminal(status[r])

(* An expired lease moves its run nowhere but to recovery's Failed, as the *)
(* contracts of transition_leased_run and complete_leased_run say.         *)
ExpiredLeaseMovesNothing ==
  [][\A r \in Runs, w \in Workers :
       owner[r] = w /\ left[r] = 0 /\ status'[r] # status[r] => status'[r] = "Failed"]_vars
=============================================================================
