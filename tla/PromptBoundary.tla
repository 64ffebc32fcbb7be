--------------------------- MODULE PromptBoundary ---------------------------
(***************************************************************************)
(* The prompt boundary of control-api/src/lib.rs: create_run stores a run  *)
(* in the database and its prompt in a bounded in-memory broker, under a   *)
(* creation gate; the worker claims a run and takes its prompt under the   *)
(* same gate.  Prompts expire, do not survive a restart, and are refused   *)
(* when the broker is full.  A database call may fail with or without its  *)
(* effect, the wall clock may step back, users cancel queued runs, and the *)
(* process may crash.                                                      *)
(*                                                                         *)
(* What the worker does with a run after it has its prompt is the business *)
(* of WorkerService: here the run simply ends, or its lease expires.       *)
(***************************************************************************)
EXTENDS Integers, FiniteSets

CONSTANTS
  Runs,        \* runs that may be created
  Capacity,    \* prompts the broker holds at most
  TTL,         \* lifetime of a prompt in the broker
  MaxTime,     \* bound: last instant of the clock
  MaxBack,     \* bound: times the clock steps back
  MaxFaults,   \* bound: failing database calls
  MaxCrashes   \* bound: crashes of the process

NoPrompt == -1
Free == "free"
Worker == "worker"

ASSUME PromptAssumption ==
  /\ Runs # {} /\ Free \notin Runs /\ Worker \notin Runs
  /\ Capacity \in Nat /\ TTL \in Nat \ {0} /\ MaxTime \in Nat /\ TTL <= MaxTime
  /\ MaxBack \in Nat /\ MaxFaults \in Nat /\ MaxCrashes \in Nat

VARIABLES
  run,        \* runs: status, updated_at, leased
  expires,    \* the broker: expires_at of each prompt, NoPrompt without one
  gate,       \* holder of the creation gate: Free, Worker, or a run's creator
  creator,    \* the request that creates each run
  worker,     \* the worker thread: pc, the time it read, the run it claimed
  clock,      \* the wall clock
  up,         \* the process is serving
  delivered,  \* times the prompt of each run was handed out
  lost,       \* runs whose prompt expired, was lost or never stored
  refused,    \* runs whose prompt the broker did not accept
  cancelled,  \* runs whose cancellation was answered as confirmed
  missing,    \* runs the worker failed for want of a prompt
  faults, crashes, back

bounds == <<faults, crashes, back>>
history == <<delivered, lost, refused, cancelled, missing>>
vars == <<run, expires, gate, creator, worker, clock, up, history, bounds>>

IdleWorker == [pc |-> "Idle", now |-> 0, run |-> CHOOSE r \in Runs : TRUE]

Init ==
  /\ run = [r \in Runs |-> [status |-> "None", updated |-> 0, leased |-> FALSE]]
  /\ expires = [r \in Runs |-> NoPrompt]
  /\ gate = Free
  /\ creator = [r \in Runs |-> "Idle"]
  /\ worker = IdleWorker
  /\ clock = 0 /\ up = TRUE
  /\ delivered = [r \in Runs |-> 0]
  /\ lost = {} /\ refused = {} /\ cancelled = {} /\ missing = {}
  /\ faults = 0 /\ crashes = 0 /\ back = 0

Fault == faults < MaxFaults /\ faults' = faults + 1 /\ UNCHANGED <<crashes, back>>

Move(r, status, leased) ==
  run' = [run EXCEPT ![r] = [status |-> status, updated |-> @.updated, leased |-> leased]]

-----------------------------------------------------------------------------
(* The broker *)

Held == {r \in Runs : expires[r] # NoPrompt}

(* purge_expired_locked: what a purge at this instant removes. *)
Expired(now) == {r \in Held : expires[r] <= now}

(* register_prompt: the broker has no room left once expired prompts went. *)
Full(now) == Capacity = 0 \/ Cardinality(Held \ Expired(now)) >= Capacity

Purged(now) == [r \in Runs |-> IF r \in Expired(now) THEN NoPrompt ELSE expires[r]]

-----------------------------------------------------------------------------
(* create_run of the control API, all of it under the creation gate *)

CreatorStep == UNCHANGED <<worker, clock, up, delivered, missing>>

GoCreator(r, label) == creator' = [creator EXCEPT ![r] = label]

(* with_creation_gate *)
EnterCreation(r) ==
  /\ up /\ creator[r] = "Idle" /\ gate = Free
  /\ clock + TTL <= MaxTime
  /\ gate' = r /\ GoCreator(r, "Create")
  /\ CreatorStep /\ UNCHANGED <<run, expires, lost, refused, cancelled, bounds>>

(* ExecutionOrchestrator::create_run; a failure, even one after the commit, *)
(* ends the request.                                                        *)
CreateRun(r) ==
  LET Stored == run' = [run EXCEPT ![r] = [status |-> "Queued", updated |-> clock, leased |-> FALSE]]
  IN
  /\ up /\ creator[r] = "Create"
  /\ \/ Stored /\ GoCreator(r, "Register") /\ UNCHANGED <<gate, lost, bounds>>
     \/ /\ Fault /\ GoCreator(r, "Failed") /\ gate' = Free
        /\ \/ Stored /\ lost' = lost \cup {r}
           \/ UNCHANGED <<run, lost>>
  /\ CreatorStep /\ UNCHANGED <<expires, refused, cancelled>>

RefuseAndRelease(r) ==
  /\ up /\ creator[r] = "Register"
  /\ IF Full(clock)
       THEN /\ expires' = Purged(clock) /\ lost' = lost \cup Expired(clock)
            /\ refused' = refused \cup {r}
            /\ GoCreator(r, "Cancel") /\ gate' = Free
       ELSE /\ expires' = [Purged(clock) EXCEPT ![r] = clock + TTL]
            /\ lost' = lost \cup Expired(clock)
            /\ GoCreator(r, "Created") /\ gate' = Free /\ UNCHANGED refused
  /\ CreatorStep /\ UNCHANGED <<run, cancelled, bounds>>

(* register_prompt *)
Register(r) ==
  /\ up /\ creator[r] = "Register"
  /\ lost' = lost \cup Expired(clock)
  /\ IF Full(clock)
       THEN /\ expires' = Purged(clock) /\ refused' = refused \cup {r}
            /\ GoCreator(r, "Cancel") /\ UNCHANGED gate
       ELSE /\ expires' = [Purged(clock) EXCEPT ![r] = clock + TTL]
            /\ GoCreator(r, "Created") /\ gate' = Free /\ UNCHANGED refused
  /\ CreatorStep /\ UNCHANGED <<run, cancelled, bounds>>

(* request_cancel of a queued run: refused when the clock went back. *)
MayCancel(r) == run[r].status = "Queued" /\ ~run[r].leased /\ clock >= run[r].updated

(* The cancellation of a run without a prompt; its failure is ignored. *)
CancelUnregistered(r) ==
  /\ up /\ creator[r] = "Cancel"
  /\ \/ MayCancel(r) /\ Move(r, "Cancelled", FALSE) /\ UNCHANGED <<lost, bounds>>
     \/ ~MayCancel(r) /\ UNCHANGED <<run, bounds>> /\ lost' = lost \cup {r}
     \/ MayCancel(r) /\ Fault /\ (Move(r, "Cancelled", FALSE) \/ UNCHANGED run) /\ lost' = lost \cup {r}
  /\ gate' = IF gate = r THEN Free ELSE gate
  /\ GoCreator(r, "Failed")
  /\ CreatorStep /\ UNCHANGED <<expires, refused, cancelled>>

(* cancel_run by a user who was told of the run; its prompt stays stored. *)
CancelRun(r) ==
  /\ up /\ creator[r] = "Created" /\ MayCancel(r)
  /\ Move(r, "Cancelled", FALSE)
  /\ cancelled' = cancelled \cup {r}
  /\ CreatorStep /\ UNCHANGED <<expires, gate, creator, lost, refused, bounds>>

-----------------------------------------------------------------------------
(* claim_with_prompt of worker_runtime.rs *)

WorkerStep == UNCHANGED <<creator, clock, up, refused, cancelled>>

Leave == gate' = Free /\ worker' = IdleWorker

PollWithOldTime ==
  /\ up /\ worker.pc = "Idle"
  /\ worker' = [worker EXCEPT !.pc = "Enter"]
  /\ WorkerStep /\ UNCHANGED <<run, expires, gate, delivered, lost, missing, bounds>>

(* The time of the claim is read before the gate is entered. *)
Poll ==
  /\ up /\ worker.pc = "Idle"
  /\ worker' = [worker EXCEPT !.pc = "Enter", !.now = clock]
  /\ WorkerStep /\ UNCHANGED <<run, expires, gate, delivered, lost, missing, bounds>>

EnterAnyTime ==
  /\ up /\ worker.pc = "Enter"
  /\ gate' = Worker /\ worker' = [worker EXCEPT !.pc = "Claim"]
  /\ WorkerStep /\ UNCHANGED <<run, expires, delivered, lost, missing, bounds>>

(* with_worker_claim *)
Enter ==
  /\ up /\ worker.pc = "Enter" /\ gate = Free
  /\ gate' = Worker /\ worker' = [worker EXCEPT !.pc = "Claim"]
  /\ WorkerStep /\ UNCHANGED <<run, expires, delivered, lost, missing, bounds>>

OpenRuns == {r \in Runs : run[r].status \notin {"None", "Failed", "Ended"} /\ ~run[r].leased}

(* The runs claim_next_run selects from. *)
Queued == {r \in Runs : run[r].status = "Queued" /\ ~run[r].leased}

(* ORDER BY created_at: the oldest queued run is the only candidate. *)
Candidate(r) == r \in Queued /\ \A q \in Queued : run[r].updated <= run[q].updated

(* Nothing is queued: the claim is empty and expired prompts are purged. *)
ClaimNothing ==
  /\ up /\ worker.pc = "Claim" /\ Queued = {}
  /\ expires' = Purged(worker.now) /\ lost' = lost \cup Expired(worker.now)
  /\ Leave
  /\ WorkerStep /\ UNCHANGED <<run, delivered, missing, bounds>>

(* The candidate is newer than the time of the claim, or the call fails. *)
ClaimFails ==
  /\ up /\ worker.pc = "Claim"
  /\ \E r \in Runs :
       /\ Candidate(r)
       /\ \/ worker.now < run[r].updated /\ UNCHANGED <<run, bounds>>
          \/ worker.now >= run[r].updated /\ Fault
             /\ (run' = [run EXCEPT ![r] = [status |-> "Planning", updated |-> worker.now, leased |-> TRUE]]
                 \/ UNCHANGED run)
  /\ Leave
  /\ WorkerStep /\ UNCHANGED <<expires, delivered, lost, missing>>

Claim ==
  /\ up /\ worker.pc = "Claim"
  /\ \E r \in Runs :
       /\ Candidate(r) /\ worker.now >= run[r].updated
       /\ run' = [run EXCEPT ![r] = [status |-> "Planning", updated |-> worker.now, leased |-> TRUE]]
       /\ worker' = [worker EXCEPT !.pc = "Take", !.run = r]
  /\ WorkerStep /\ UNCHANGED <<expires, gate, delivered, lost, missing, bounds>>

(* take_prompt, with the time read before the gate *)
TakePrompt ==
  LET r == worker.run IN
  /\ up /\ worker.pc = "Take"
  /\ lost' = lost \cup Expired(worker.now)
  /\ IF r \in Held \ Expired(worker.now)
       THEN /\ expires' = [Purged(worker.now) EXCEPT ![r] = NoPrompt]
            /\ delivered' = [delivered EXCEPT ![r] = @ + 1]
            /\ gate' = Free /\ worker' = [worker EXCEPT !.pc = "Execute"]
       ELSE /\ expires' = Purged(worker.now)
            /\ worker' = [worker EXCEPT !.pc = "Fail"] /\ UNCHANGED <<delivered, gate>>
  /\ WorkerStep /\ UNCHANGED <<run, missing, bounds>>

(* complete_leased_run(Failed, "sensitive run input is unavailable") *)
FailUnprompted ==
  LET r == worker.run IN
  /\ up /\ worker.pc = "Fail"
  /\ \/ clock >= run[r].updated /\ Move(r, "Failed", FALSE) /\ UNCHANGED bounds
     \/ clock < run[r].updated /\ UNCHANGED <<run, bounds>>
     \/ clock >= run[r].updated /\ Fault /\ (Move(r, "Failed", FALSE) \/ UNCHANGED run)
  /\ missing' = missing \cup {r}
  /\ Leave
  /\ WorkerStep /\ UNCHANGED <<expires, delivered, lost>>

(* execute_claim returns: the run has ended, or only its lease is left. *)
Finish ==
  LET r == worker.run IN
  /\ up /\ worker.pc = "Execute"
  /\ Move(r, "Ended", FALSE) \/ UNCHANGED run
  /\ worker' = IdleWorker
  /\ WorkerStep /\ UNCHANGED <<expires, gate, delivered, lost, missing, bounds>>

(* recover_expired_leases of the loop, for a lease nobody renews any more. *)
RecoverLease(r) ==
  /\ up /\ worker.pc = "Idle" /\ run[r].leased
  /\ Move(r, "Failed", FALSE)
  /\ WorkerStep /\ UNCHANGED <<expires, gate, worker, delivered, lost, missing, bounds>>

-----------------------------------------------------------------------------
(* The environment *)

ClockStep == UNCHANGED <<run, expires, gate, creator, worker, up, history>>

(* Bound: no prompt outlives MaxTime, so the clock waits for requests that *)
(* are about to store one.                                                 *)
Tick ==
  /\ clock < MaxTime /\ (gate \in Runs => clock + TTL < MaxTime)
  /\ clock' = clock + 1 /\ ClockStep /\ UNCHANGED bounds

StepBack ==
  /\ clock > 0 /\ back < MaxBack
  /\ clock' = clock - 1 /\ back' = back + 1 /\ ClockStep /\ UNCHANGED <<faults, crashes>>

(* Memory and the gate go; what the database holds stays. *)
Crash ==
  /\ up /\ crashes < MaxCrashes
  /\ up' = FALSE /\ crashes' = crashes + 1
  /\ expires' = [r \in Runs |-> NoPrompt] /\ gate' = Free
  /\ creator' = [r \in Runs |-> IF creator[r] \in {"Create", "Register", "Cancel"} THEN "Failed" ELSE creator[r]]
  /\ worker' = IdleWorker
  /\ lost' = lost \cup Held \cup {r \in Runs : creator[r] \in {"Create", "Register", "Cancel"}}
  /\ UNCHANGED <<run, clock, delivered, refused, cancelled, missing, faults, back>>

(* serve: recovery leaves queued runs alone; the broker starts empty. *)
Restart ==
  /\ ~up /\ up' = TRUE
  /\ UNCHANGED <<run, expires, gate, creator, worker, clock, history, bounds>>

CreateStep(r) == EnterCreation(r) \/ CreateRun(r) \/ Register(r) \/ CancelUnregistered(r)
ClaimStep == Enter \/ ClaimNothing \/ ClaimFails \/ Claim \/ TakePrompt \/ FailUnprompted

Next ==
  \/ \E r \in Runs : CreateStep(r) \/ CancelRun(r) \/ RecoverLease(r)
  \/ Poll \/ ClaimStep \/ Finish
  \/ Tick \/ StepBack \/ Crash \/ Restart

Spec == Init /\ [][Next]_vars

(* The worker loop keeps running, a request that entered the gate goes on, *)
(* the clock advances, and the process is restarted by its supervisor.     *)
(* The worker's wait for the gate is a wait for a mutex other requests     *)
(* leave again and again; requests are finitely many.                      *)
FairSpec ==
  /\ Spec
  /\ WF_vars(Poll) /\ WF_vars(ClaimStep) /\ WF_vars(Finish)
  /\ \A r \in Runs : WF_vars(CreateRun(r) \/ Register(r) \/ CancelUnregistered(r))
  /\ WF_vars(Tick) /\ WF_vars(Restart)

-----------------------------------------------------------------------------
(* "eliminating the persist-to-publish observation gap" (SharedPromptBoundary): *)
(* the worker fails a run for want of a prompt only if that prompt expired, was *)
(* lost with the process, or could not be stored; never because publication was *)
(* still under way.                                                             *)
NoObservationGap == missing \subseteq lost

(* A run whose prompt the broker refused is never claimed, unless its own  *)
(* cancellation failed: create_run cancels it before it leaves the gate.   *)
RefusedNeverClaimed ==
  \A r \in refused \ lost : run[r].status \in {"Queued", "Cancelled"} /\ ~run[r].leased

(* A prompt is handed out at most once, and never for a run whose          *)
(* cancellation was confirmed to its user, whatever the order in which     *)
(* cancel_run, the claim and take_prompt interleave.                       *)
DeliveredOnce ==
  \A r \in Runs : delivered[r] <= 1 /\ (r \in cancelled => delivered[r] = 0)

(* Every queued run leaves the queue, although a claim may meet a run that *)
(* is newer than the time it read, the clock may step back and the process *)
(* may restart.                                                            *)
QueueDrains == \A r \in Runs : run[r].status = "Queued" ~> run[r].status # "Queued"
=============================================================================
