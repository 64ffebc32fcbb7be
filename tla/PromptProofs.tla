---------------------------- MODULE PromptProofs ----------------------------
(***************************************************************************)
(* The prompt boundary keeps its promises for every number of runs, every  *)
(* capacity and lifetime of the broker, and every number of faults,        *)
(* crashes and steps of the clock.                                         *)
(***************************************************************************)
EXTENDS PromptBoundary, FiniteSetTheorems, TLAPS

-----------------------------------------------------------------------------
(* The inductive invariant *)

RunStatus == {"None", "Queued", "Planning", "Cancelled", "Failed", "Ended"}
CreatorLabel == {"Idle", "Create", "Register", "Cancel", "Created", "Failed"}
WorkerLabel == {"Idle", "Enter", "Claim", "Take", "Fail", "Execute"}

TypeOK ==
  /\ run \in [Runs -> [status : RunStatus, updated : Nat, leased : BOOLEAN]]
  /\ expires \in [Runs -> Int]
  /\ gate \in Runs \cup {Free, Worker}
  /\ creator \in [Runs -> CreatorLabel]
  /\ worker \in [pc : WorkerLabel, now : Nat, run : Runs]
  /\ clock \in Nat
  /\ delivered \in [Runs -> Nat]
  /\ lost \subseteq Runs /\ refused \subseteq Runs /\ cancelled \subseteq Runs
  /\ missing \subseteq Runs

(* What the row of a run says of the request that creates it. *)
Created(r) ==
  /\ creator[r] \in {"Idle", "Create"} => run[r].status = "None" /\ r \notin refused
  /\ creator[r] \in {"Register", "Cancel"} => run[r].status = "Queued"
  /\ creator[r] \in {"Register", "Created"} => r \notin refused
  /\ creator[r] = "Created" /\ run[r].status = "Queued" => r \in Held \cup lost
  /\ creator[r] = "Failed" => r \in lost \/ run[r].status \in {"None", "Cancelled"}
  /\ creator[r] = "Failed" /\ r \in refused \ lost => run[r].status = "Cancelled"

(* What the broker holds and has handed out. *)
Stored(r) ==
  /\ r \in Held => creator[r] = "Created" /\ delivered[r] = 0
  /\ run[r].status \in {"None", "Queued", "Cancelled"} => delivered[r] = 0
  /\ delivered[r] <= 1
  /\ run[r].leased <=> run[r].status = "Planning"
  /\ r \in cancelled => run[r].status = "Cancelled"
  /\ r \in missing => r \in lost

(* The gate has one holder, and that is who runs under it. *)
Gated ==
  /\ \A r \in Runs : gate = r <=> creator[r] \in {"Create", "Register", "Cancel"}
  /\ gate = Worker <=> worker.pc \in {"Claim", "Take", "Fail"}

(* What the worker knows of the run it claimed. *)
Claimed ==
  /\ worker.pc \in {"Take", "Fail", "Execute"} => run[worker.run].status = "Planning"
  /\ worker.pc = "Take" => worker.run \in Held \cup lost
  /\ worker.pc = "Fail" => worker.run \in lost

PromptInv == (\A r \in Runs : Created(r) /\ Stored(r)) /\ Gated /\ Claimed

-----------------------------------------------------------------------------
(* Lemmas about the rows and the broker *)

RunType == [Runs -> [status : RunStatus, updated : Nat, leased : BOOLEAN]]

(* The row of run r is rewritten, and no other. *)
RowAt(r, status, leased) ==
  /\ run' \in RunType
  /\ run'[r].status = status /\ run'[r].leased = leased
  /\ \A q \in Runs \ {r} : run'[q] = run[q]

LEMMA RowSet ==
  ASSUME TypeOK, NEW r \in Runs, NEW status \in RunStatus, NEW updated \in Nat,
         NEW leased \in BOOLEAN,
         run' = [run EXCEPT ![r] = [status |-> status, updated |-> updated, leased |-> leased]]
  PROVE  RowAt(r, status, leased)
BY DEF TypeOK, RowAt, RunType

LEMMA MoveSet ==
  ASSUME TypeOK, NEW r \in Runs, NEW status \in RunStatus, NEW leased \in BOOLEAN,
         Move(r, status, leased)
  PROVE  RowAt(r, status, leased)
<1>1. run[r].updated \in Nat
  BY DEF TypeOK
<1>2. run' = [run EXCEPT ![r] = [status |-> status, updated |-> run[r].updated, leased |-> leased]]
  BY DEF Move, TypeOK
<1> QED
  BY <1>1, <1>2, RowSet, Zenon

(* A purge removes exactly the prompts it counts as lost. *)
LEMMA PurgeFacts ==
  ASSUME TypeOK, NEW now \in Nat
  PROVE  /\ Purged(now) \in [Runs -> Int]
         /\ Expired(now) \subseteq Held /\ Held \subseteq Runs
         /\ \A r \in Runs : Purged(now)[r] # NoPrompt <=> r \in Held \ Expired(now)
BY DEF TypeOK, Purged, Expired, Held, NoPrompt

(* A run whose row, request and deliveries a step leaves alone. *)
Untouched(r) ==
  /\ run'[r] = run[r] /\ creator'[r] = creator[r] /\ delivered'[r] = delivered[r]
  /\ r \in Held' => r \in Held
  /\ r \in Held => r \in Held' \cup lost'
  /\ r \in refused' <=> r \in refused
  /\ r \in cancelled' => r \in cancelled
  /\ r \in missing' => r \in missing

LEMMA UntouchedKeeps ==
  ASSUME NEW r \in Runs, Created(r), Stored(r), Untouched(r), lost \subseteq lost'
  PROVE  Created(r)' /\ Stored(r)'
<1>1. Created(r)'
  BY Zenon DEF Created, Untouched
<1>2. Stored(r)'
  BY Zenon DEF Stored, Untouched
<1> QED
  BY <1>1, <1>2

(* A step of the request that creates run r, which holds the gate before   *)
(* the step or after it.                                                   *)
LEMMA CreatorKeeps ==
  ASSUME TypeOK, PromptInv, NEW r \in Runs, NEW label \in CreatorLabel, GoCreator(r, label),
         CreatorStep, lost \subseteq lost', run' \in RunType,
         \A q \in Runs \ {r} : run'[q] = run[q],
         \A q \in Runs \ {r} : q \in Held' => q \in Held,
         \A q \in Runs \ {r} : q \in Held => q \in Held' \cup lost',
         \A q \in Runs \ {r} : q \in refused' <=> q \in refused, UNCHANGED cancelled,
         gate \in {Free, r}, creator[r] \in {"Idle", "Create", "Register", "Cancel"},
         gate' = IF label \in {"Create", "Register", "Cancel"} THEN r ELSE Free,
         creator'[r] = label => Created(r)' /\ Stored(r)'
  PROVE  PromptInv'
<1>1. creator'[r] = label /\ \A q \in Runs \ {r} : creator'[q] = creator[q]
  BY Zenon DEF GoCreator, TypeOK
<1>2. UNCHANGED <<worker, delivered, missing>>
  BY DEF CreatorStep
<1>3. ASSUME NEW q \in Runs PROVE Created(q)' /\ Stored(q)'
  <2>1. CASE q = r
    BY <1>1, <2>1, Zenon
  <2>2. CASE q # r
    <3>1. q \in Runs \ {r} /\ Created(q) /\ Stored(q)
      BY <2>2, Zenon DEF PromptInv
    <3>2. Untouched(q)
      BY <1>1, <1>2, <3>1, Zenon DEF Untouched
    <3> QED
      BY <3>1, <3>2, UntouchedKeeps, Zenon
  <2> QED
    BY <2>1, <2>2, Zenon
<1>4. Gated'
  BY <1>1, <1>2, PromptAssumption DEF PromptInv, Gated, Free, Worker
<1>5. worker.pc \notin {"Claim", "Take", "Fail"}
  BY PromptAssumption, Zenon DEF PromptInv, Gated, Free, Worker
<1>6. Claimed'
  <2>1. worker.pc = "Execute" => run[worker.run].status = "Planning"
    BY Zenon DEF PromptInv, Claimed
  <2>2. run[r].status # "Planning" /\ worker.run \in Runs
    BY Zenon DEF PromptInv, Created, TypeOK
  <2> QED
    BY <1>2, <1>5, <2>1, <2>2, Zenon DEF Claimed
<1> QED
  BY <1>3, <1>4, <1>6, Zenon DEF PromptInv

(* A step of the worker that may rewrite the row of one run r and take its *)
(* prompt, and touches no other run.                                       *)
LEMMA WorkerKeeps ==
  ASSUME TypeOK, PromptInv, NEW r \in Runs, WorkerStep, lost \subseteq lost',
         \A q \in Runs \ {r} : run'[q] = run[q],
         \A q \in Runs \ {r} : delivered'[q] = delivered[q],
         \A q \in Runs \ {r} : q \in Held' => q \in Held,
         \A q \in Runs \ {r} : q \in Held => q \in Held' \cup lost',
         \A q \in Runs \ {r} : q \in missing' => q \in missing,
         Created(r)', Stored(r)',
         gate \in {Free, Worker} \/ gate' = gate,
         gate' = IF worker'.pc \in {"Claim", "Take", "Fail"} THEN Worker
                 ELSE IF gate = Worker THEN Free ELSE gate,
         Claimed'
  PROVE  PromptInv'
<1>1. UNCHANGED <<creator, refused, cancelled>>
  BY DEF WorkerStep
<1>2. ASSUME NEW q \in Runs PROVE Created(q)' /\ Stored(q)'
  <2>1. CASE q = r
    BY <2>1, Zenon
  <2>2. CASE q # r
    <3>1. q \in Runs \ {r} /\ Created(q) /\ Stored(q)
      BY <2>2, Zenon DEF PromptInv
    <3>2. Untouched(q)
      BY <1>1, <3>1, Zenon DEF Untouched
    <3> QED
      BY <3>1, <3>2, UntouchedKeeps, Zenon
  <2> QED
    BY <2>1, <2>2, Zenon
<1>3. Gated'
  BY <1>1, PromptAssumption DEF PromptInv, Gated, Free, Worker
<1> QED
  BY <1>2, <1>3, Zenon DEF PromptInv

-----------------------------------------------------------------------------
(* What the steps that write rows do *)

LEMMA CreateFacts ==
  ASSUME TypeOK, NEW r \in Runs, CreateRun(r)
  PROVE  /\ creator[r] = "Create" /\ CreatorStep /\ UNCHANGED <<expires, refused, cancelled>>
         /\ \/ RowAt(r, "Queued", FALSE) /\ GoCreator(r, "Register") /\ UNCHANGED <<gate, lost>>
            \/ /\ RowAt(r, "Queued", FALSE) /\ GoCreator(r, "Failed") /\ gate' = Free
               /\ lost' = lost \cup {r}
            \/ UNCHANGED <<run, lost>> /\ GoCreator(r, "Failed") /\ gate' = Free
<1>1. run' = [run EXCEPT ![r] = [status |-> "Queued", updated |-> clock, leased |-> FALSE]]
        => RowAt(r, "Queued", FALSE)
  <2>1. "Queued" \in RunStatus /\ clock \in Nat /\ FALSE \in BOOLEAN
    BY DEF TypeOK, RunStatus
  <2> QED
    BY <2>1, RowSet, Zenon
<1> QED
  BY <1>1, Zenon DEF CreateRun

LEMMA MoveFacts ==
  ASSUME TypeOK, NEW r \in Runs, NEW status \in {"Cancelled", "Failed", "Ended"},
         Move(r, status, FALSE)
  PROVE  RowAt(r, status, FALSE)
<1>1. status \in RunStatus /\ FALSE \in BOOLEAN
  BY DEF RunStatus
<1> QED
  BY <1>1, MoveSet, Zenon

(* The row of a run the worker claims. *)
LEMMA ClaimFacts ==
  ASSUME TypeOK, NEW r \in Runs,
         run' = [run EXCEPT ![r] = [status |-> "Planning", updated |-> worker.now, leased |-> TRUE]]
  PROVE  RowAt(r, "Planning", TRUE)
<1>1. "Planning" \in RunStatus /\ worker.now \in Nat /\ TRUE \in BOOLEAN
  BY DEF TypeOK, RunStatus
<1> QED
  BY <1>1, RowSet, Zenon

(* The broker after register_prompt. *)
LEMMA RegisterFacts ==
  ASSUME TypeOK, NEW r \in Runs, Register(r)
  PROVE  /\ creator[r] = "Register" /\ CreatorStep /\ UNCHANGED <<run, cancelled>>
         /\ lost' = lost \cup Expired(clock) /\ expires' \in [Runs -> Int]
         /\ \A q \in Runs \ {r} : q \in Held' <=> q \in Held \ Expired(clock)
         /\ \/ /\ GoCreator(r, "Cancel") /\ UNCHANGED gate /\ refused' = refused \cup {r}
               /\ r \in Held' => r \in Held
            \/ GoCreator(r, "Created") /\ gate' = Free /\ UNCHANGED refused /\ r \in Held'
<1>1. clock \in Nat /\ clock + TTL \in Nat
  BY PromptAssumption DEF TypeOK
<1>2. /\ Purged(clock) \in [Runs -> Int]
      /\ \A q \in Runs : Purged(clock)[q] # NoPrompt <=> q \in Held \ Expired(clock)
  BY <1>1, PurgeFacts
<1>3. Held' = {q \in Runs : expires'[q] # NoPrompt}
  BY DEF Held
<1>4. CASE Full(clock)
  BY <1>2, <1>3, <1>4, Zenon DEF Register
<1>5. CASE ~Full(clock)
  <2>1. expires' = [Purged(clock) EXCEPT ![r] = clock + TTL]
    BY <1>5, Zenon DEF Register
  <2>2. /\ expires' \in [Runs -> Int] /\ expires'[r] # NoPrompt
        /\ \A q \in Runs \ {r} : expires'[q] = Purged(clock)[q]
    BY <1>1, <1>2, <2>1 DEF NoPrompt
  <2> QED
    BY <1>2, <1>3, <1>5, <2>2, Zenon DEF Register
<1> QED
  BY <1>4, <1>5, Zenon

(* The broker after take_prompt. *)
LEMMA TakeFacts ==
  ASSUME TypeOK, NEW r \in Runs, r = worker.run, TakePrompt
  PROVE  /\ worker.pc = "Take" /\ WorkerStep /\ UNCHANGED <<run, missing>>
         /\ lost' = lost \cup Expired(worker.now) /\ expires' \in [Runs -> Int]
         /\ Expired(worker.now) \subseteq Runs
         /\ \A q \in Runs \ {r} : q \in Held' <=> q \in Held \ Expired(worker.now)
         /\ r \notin Held'
         /\ \/ /\ r \in Held /\ gate' = Free /\ worker' = [worker EXCEPT !.pc = "Execute"]
               /\ delivered' = [delivered EXCEPT ![r] = @ + 1]
            \/ /\ r \notin Held \ Expired(worker.now) /\ UNCHANGED <<delivered, gate>>
               /\ worker' = [worker EXCEPT !.pc = "Fail"]
<1>1. worker.now \in Nat
  BY DEF TypeOK
<1>2. /\ Purged(worker.now) \in [Runs -> Int] /\ Expired(worker.now) \subseteq Runs
      /\ \A q \in Runs : Purged(worker.now)[q] # NoPrompt <=> q \in Held \ Expired(worker.now)
  BY <1>1, PurgeFacts, Zenon
<1>3. Held' = {q \in Runs : expires'[q] # NoPrompt}
  BY DEF Held
<1>4. CASE r \notin Held \ Expired(worker.now)
  BY <1>2, <1>3, <1>4, Zenon DEF TakePrompt
<1>5. CASE r \in Held \ Expired(worker.now)
  <2>1. expires' = [Purged(worker.now) EXCEPT ![r] = NoPrompt]
    BY <1>5, Zenon DEF TakePrompt
  <2>2. /\ expires' \in [Runs -> Int] /\ expires'[r] = NoPrompt
        /\ \A q \in Runs \ {r} : expires'[q] = Purged(worker.now)[q]
    BY <1>2, <2>1 DEF NoPrompt
  <2> QED
    BY <1>2, <1>3, <1>5, <2>2, Zenon DEF TakePrompt
<1> QED
  BY <1>4, <1>5, Zenon

-----------------------------------------------------------------------------
(* Type correctness *)

LEMMA TypesStart == Init => TypeOK
<1>1. (CHOOSE r \in Runs : TRUE) \in Runs
  BY PromptAssumption
<1> QED
  BY <1>1 DEF Init, TypeOK, IdleWorker, RunStatus, CreatorLabel, WorkerLabel, NoPrompt

LEMMA TypesStay == TypeOK /\ [Next]_vars => TypeOK'
<1> SUFFICES ASSUME TypeOK, [Next]_vars PROVE TypeOK'
  OBVIOUS
<1>i. IdleWorker \in [pc : WorkerLabel, now : Nat, run : Runs]
  <2>1. (CHOOSE r \in Runs : TRUE) \in Runs
    BY PromptAssumption
  <2> QED
    BY <2>1 DEF IdleWorker, WorkerLabel
<1>p. ASSUME NEW now \in Nat
      PROVE  Purged(now) \in [Runs -> Int] /\ Expired(now) \subseteq Runs
  BY PurgeFacts
<1>1. ASSUME NEW r \in Runs, EnterCreation(r) PROVE TypeOK'
  BY <1>1, Zenon DEF TypeOK, EnterCreation, CreatorStep, GoCreator, bounds, CreatorLabel
<1>2. ASSUME NEW r \in Runs, CreateRun(r) PROVE TypeOK'
  <2>1. run' \in RunType
    BY <1>2, CreateFacts, Zenon DEF TypeOK, RowAt, RunType
  <2>2. UNCHANGED <<expires, refused, cancelled>> /\ CreatorStep
    BY <1>2, CreateFacts, Zenon
  <2>3. /\ GoCreator(r, "Register") \/ GoCreator(r, "Failed")
        /\ gate' \in {gate, Free} /\ lost' \in {lost, lost \cup {r}}
    BY <1>2, CreateFacts, Zenon
  <2> QED
    BY <2>1, <2>2, <2>3, Zenon DEF TypeOK, CreatorStep, GoCreator, CreatorLabel, RunType
<1>3. ASSUME NEW r \in Runs, Register(r) PROVE TypeOK'
  <2>1. Expired(clock) \subseteq Runs
    BY <1>p DEF TypeOK
  <2> QED
    BY <1>3, <2>1, RegisterFacts DEF TypeOK, CreatorStep, GoCreator, CreatorLabel
<1>4. ASSUME NEW r \in Runs, CancelUnregistered(r) PROVE TypeOK'
  <2>1. run' \in RunType
    BY <1>4, MoveFacts, Zenon DEF TypeOK, CancelUnregistered, RowAt, RunType
  <2> QED
    BY <1>4, <2>1, Zenon DEF TypeOK, CancelUnregistered, CreatorStep, GoCreator, CreatorLabel, RunType
<1>5. ASSUME NEW r \in Runs, CancelRun(r) PROVE TypeOK'
  BY <1>5, Zenon DEF TypeOK, CancelRun, CreatorStep, Move, RunStatus
<1>6. CASE Poll
  BY <1>6, Zenon DEF TypeOK, Poll, WorkerStep, WorkerLabel
<1>7. CASE Enter
  BY <1>7, Zenon DEF TypeOK, Enter, WorkerStep, WorkerLabel
<1>8. CASE ClaimNothing
  BY <1>8, <1>i, <1>p, Zenon DEF TypeOK, ClaimNothing, WorkerStep, Leave
<1>9. CASE ClaimFails
  <2>1. run' \in RunType
    BY <1>9, ClaimFacts, Zenon DEF TypeOK, ClaimFails, RowAt, RunType
  <2> QED
    BY <1>9, <1>i, <2>1, Zenon DEF TypeOK, ClaimFails, WorkerStep, Leave, RunType
<1>10. CASE Claim
  <2>1. PICK r \in Runs : /\ RowAt(r, "Planning", TRUE)
                          /\ worker' = [worker EXCEPT !.pc = "Take", !.run = r]
    BY <1>10, ClaimFacts, Zenon DEF Claim
  <2> QED
    BY <1>10, <2>1, Zenon DEF TypeOK, Claim, WorkerStep, RowAt, RunType, WorkerLabel
<1>11. CASE TakePrompt
  <2>1. PICK r \in Runs : r = worker.run
    BY Zenon DEF TypeOK
  <2>2. /\ WorkerStep /\ UNCHANGED <<run, missing>>
        /\ lost' = lost \cup Expired(worker.now) /\ Expired(worker.now) \subseteq Runs
        /\ expires' \in [Runs -> Int]
    BY <1>11, <2>1, TakeFacts, Zenon
  <2>3. \/ /\ gate' = Free /\ worker' = [worker EXCEPT !.pc = "Execute"]
           /\ delivered' = [delivered EXCEPT ![r] = @ + 1]
        \/ /\ UNCHANGED <<delivered, gate>> /\ worker' = [worker EXCEPT !.pc = "Fail"]
    BY <1>11, <2>1, TakeFacts, Zenon
  <2>4. worker' \in [pc : WorkerLabel, now : Nat, run : Runs]
    <3>1. "Execute" \in WorkerLabel /\ "Fail" \in WorkerLabel
      BY DEF WorkerLabel
    <3> QED
      BY <2>3, <3>1, Zenon DEF TypeOK
  <2>5. delivered' \in [Runs -> Nat]
    <3>1. delivered[r] + 1 \in Nat
      BY <2>1 DEF TypeOK
    <3> QED
      BY <2>1, <2>3, <3>1, Zenon DEF TypeOK
  <2>6. gate' \in Runs \cup {Free, Worker} /\ lost' \subseteq Runs
    BY <2>2, <2>3, Zenon DEF TypeOK
  <2> QED
    BY <2>2, <2>4, <2>5, <2>6, Zenon DEF TypeOK, WorkerStep
<1>12. CASE FailUnprompted
  <2>1. run' \in RunType /\ worker.run \in Runs
    BY <1>12, MoveFacts, Zenon DEF TypeOK, FailUnprompted, RowAt, RunType
  <2> QED
    BY <1>12, <1>i, <2>1, Zenon DEF TypeOK, FailUnprompted, WorkerStep, Leave, RunType
<1>13. CASE Finish
  <2>1. run' \in RunType
    BY <1>13, MoveFacts, Zenon DEF TypeOK, Finish, RowAt, RunType
  <2> QED
    BY <1>13, <1>i, <2>1, Zenon DEF TypeOK, Finish, WorkerStep, RunType
<1>14. ASSUME NEW r \in Runs, RecoverLease(r) PROVE TypeOK'
  BY <1>14, Zenon DEF TypeOK, RecoverLease, WorkerStep, Move, RunStatus
<1>15. CASE Tick \/ StepBack
  BY <1>15 DEF TypeOK, Tick, StepBack, ClockStep, history
<1>16. CASE Crash
  BY <1>16, <1>i DEF TypeOK, Crash, Held, NoPrompt, CreatorLabel
<1>17. CASE Restart \/ UNCHANGED vars
  BY <1>17, Zenon DEF TypeOK, Restart, vars, history
<1> QED
  BY <1>1, <1>2, <1>3, <1>4, <1>5, <1>6, <1>7, <1>8, <1>9, <1>10, <1>11, <1>12, <1>13, <1>14,
     <1>15, <1>16, <1>17, Zenon DEF Next, CreateStep, ClaimStep

-----------------------------------------------------------------------------
(* The steps of create_run *)

LEMMA EnterKeeps ==
  ASSUME TypeOK, PromptInv, NEW r \in Runs, EnterCreation(r)
  PROVE  PromptInv'
<1>1. /\ creator[r] = "Idle" /\ gate = Free /\ gate' = r /\ GoCreator(r, "Create") /\ CreatorStep
      /\ UNCHANGED <<run, expires, lost, refused, cancelled>>
  BY Zenon DEF EnterCreation
<1>2. Created(r) /\ Stored(r) /\ Held' = Held
  BY <1>1 DEF PromptInv, Held
<1>3. creator'[r] = "Create" => Created(r)' /\ Stored(r)'
  BY <1>1, <1>2, Zenon DEF Created, Stored, CreatorStep
<1>4. "Create" \in CreatorLabel /\ run' \in RunType
  BY <1>1 DEF CreatorLabel, TypeOK, RunType
<1> QED
  BY <1>1, <1>2, <1>3, <1>4, CreatorKeeps, Zenon

LEMMA CreateKeeps ==
  ASSUME TypeOK, PromptInv, NEW r \in Runs, CreateRun(r)
  PROVE  PromptInv'
<1>1. /\ creator[r] = "Create" /\ CreatorStep /\ UNCHANGED <<expires, refused, cancelled>>
      /\ \/ RowAt(r, "Queued", FALSE) /\ GoCreator(r, "Register") /\ UNCHANGED <<gate, lost>>
         \/ /\ RowAt(r, "Queued", FALSE) /\ GoCreator(r, "Failed") /\ gate' = Free
            /\ lost' = lost \cup {r}
         \/ UNCHANGED <<run, lost>> /\ GoCreator(r, "Failed") /\ gate' = Free
  BY CreateFacts, Zenon
<1>2. Created(r) /\ Stored(r) /\ Held' = Held /\ gate = r
  BY <1>1, Zenon DEF PromptInv, Held, Gated
<1>3. delivered'[r] = 0 /\ r \notin Held' /\ r \notin refused' /\ r \notin cancelled'
  BY <1>1, <1>2, Zenon DEF Created, Stored, CreatorStep
<1>4. r \in missing' => r \in lost'
  BY <1>1, <1>2, Zenon DEF Stored, CreatorStep
<1>5. CASE RowAt(r, "Queued", FALSE) /\ GoCreator(r, "Register") /\ UNCHANGED <<gate, lost>>
  <2>1. creator'[r] = "Register" => Created(r)' /\ Stored(r)'
    BY <1>3, <1>4, <1>5 DEF Created, Stored, RowAt
  <2>2. "Register" \in CreatorLabel
    BY DEF CreatorLabel
  <2> QED
    BY <1>1, <1>2, <1>5, <2>1, <2>2, CreatorKeeps, Zenon DEF RowAt
<1>6. CASE /\ RowAt(r, "Queued", FALSE) /\ GoCreator(r, "Failed") /\ gate' = Free
           /\ lost' = lost \cup {r}
  <2>1. creator'[r] = "Failed" => Created(r)' /\ Stored(r)'
    BY <1>3, <1>4, <1>6 DEF Created, Stored, RowAt
  <2>2. "Failed" \in CreatorLabel
    BY DEF CreatorLabel
  <2> QED
    BY <1>1, <1>2, <1>6, <2>1, <2>2, CreatorKeeps, Zenon DEF RowAt
<1>7. CASE UNCHANGED <<run, lost>> /\ GoCreator(r, "Failed") /\ gate' = Free
  <2>1. creator'[r] = "Failed" => Created(r)' /\ Stored(r)'
    BY <1>1, <1>2, <1>3, <1>4, <1>7, Zenon DEF Created, Stored
  <2>2. "Failed" \in CreatorLabel /\ run' \in RunType
    BY <1>7 DEF CreatorLabel, TypeOK, RunType
  <2> QED
    BY <1>1, <1>2, <1>7, <2>1, <2>2, CreatorKeeps, Zenon
<1> QED
  BY <1>1, <1>5, <1>6, <1>7, Zenon

LEMMA RegisterKeeps ==
  ASSUME TypeOK, PromptInv, NEW r \in Runs, Register(r)
  PROVE  PromptInv'
<1>1. /\ creator[r] = "Register" /\ CreatorStep /\ UNCHANGED <<run, cancelled>>
      /\ lost' = lost \cup Expired(clock)
      /\ \A q \in Runs \ {r} : q \in Held' <=> q \in Held \ Expired(clock)
  BY RegisterFacts, Zenon
<1>2. Created(r) /\ Stored(r) /\ gate = r /\ run' \in RunType
  BY <1>1, Zenon DEF PromptInv, Gated, TypeOK, RunType
<1>3. /\ delivered'[r] = 0 /\ run'[r].status = "Queued" /\ ~run'[r].leased /\ r \notin cancelled'
      /\ r \notin Held /\ r \notin refused /\ (r \in missing' => r \in lost')
  BY <1>1, <1>2, Zenon DEF Created, Stored, CreatorStep
<1>4. CASE /\ GoCreator(r, "Cancel") /\ UNCHANGED gate /\ refused' = refused \cup {r}
           /\ r \in Held' => r \in Held
  <2>1. creator'[r] = "Cancel" => Created(r)' /\ Stored(r)'
    BY <1>3, <1>4 DEF Created, Stored
  <2>2. "Cancel" \in CreatorLabel
    BY DEF CreatorLabel
  <2> QED
    BY <1>1, <1>2, <1>4, <2>1, <2>2, CreatorKeeps, Zenon
<1>5. CASE GoCreator(r, "Created") /\ gate' = Free /\ UNCHANGED refused /\ r \in Held'
  <2>1. creator'[r] = "Created" => Created(r)' /\ Stored(r)'
    BY <1>3, <1>5 DEF Created, Stored
  <2>2. "Created" \in CreatorLabel
    BY DEF CreatorLabel
  <2> QED
    BY <1>1, <1>2, <1>5, <2>1, <2>2, CreatorKeeps, Zenon
<1> QED
  BY <1>4, <1>5, RegisterFacts, Zenon

LEMMA UnregisteredKeeps ==
  ASSUME TypeOK, PromptInv, NEW r \in Runs, CancelUnregistered(r)
  PROVE  PromptInv'
<1>1. /\ creator[r] = "Cancel" /\ CreatorStep /\ UNCHANGED <<expires, refused, cancelled>>
      /\ gate' = (IF gate = r THEN Free ELSE gate) /\ GoCreator(r, "Failed")
      /\ \/ RowAt(r, "Cancelled", FALSE) /\ (lost' = lost \/ lost' = lost \cup {r})
         \/ run' = run /\ lost' = lost \cup {r}
  BY MoveFacts, Zenon DEF CancelUnregistered
<1>2. Created(r) /\ Stored(r) /\ gate = r /\ Held' = Held
  BY <1>1 DEF PromptInv, Gated, Held
<1>3. /\ delivered'[r] = 0 /\ r \notin cancelled' /\ r \notin Held'
      /\ r \in missing' => r \in lost'
  BY <1>1, <1>2, Zenon DEF Created, Stored, CreatorStep
<1>4. CASE RowAt(r, "Cancelled", FALSE) /\ (lost' = lost \/ lost' = lost \cup {r})
  <2>1. creator'[r] = "Failed" => Created(r)' /\ Stored(r)'
    BY <1>3, <1>4 DEF Created, Stored, RowAt
  <2>2. "Failed" \in CreatorLabel
    BY DEF CreatorLabel
  <2> QED
    BY <1>1, <1>2, <1>4, <2>1, <2>2, CreatorKeeps, Zenon DEF RowAt
<1>5. CASE run' = run /\ lost' = lost \cup {r}
  <2>1. creator'[r] = "Failed" => Created(r)' /\ Stored(r)'
    BY <1>2, <1>3, <1>5 DEF Created, Stored
  <2>2. "Failed" \in CreatorLabel /\ run' \in RunType
    BY <1>5 DEF CreatorLabel, TypeOK, RunType
  <2> QED
    BY <1>1, <1>2, <1>5, <2>1, <2>2, CreatorKeeps, Zenon
<1> QED
  BY <1>1, <1>4, <1>5, Zenon

-----------------------------------------------------------------------------
(* The steps of the worker *)

(* A worker step that writes no row and takes no prompt. *)
LEMMA LookingKeeps ==
  ASSUME TypeOK, PromptInv, Poll \/ Enter \/ ClaimNothing
  PROVE  PromptInv'
<1>1. PICK r \in Runs : TRUE
  BY PromptAssumption
<1>2. WorkerStep /\ UNCHANGED <<run, delivered, missing>>
  BY Zenon DEF Poll, Enter, ClaimNothing
<1>3. lost \subseteq lost' /\ \A q \in Runs : (q \in Held' => q \in Held)
                                           /\ (q \in Held => q \in Held' \cup lost')
  <2>1. CASE UNCHANGED <<expires, lost>>
    BY <2>1, Zenon DEF Held
  <2>2. CASE expires' = Purged(worker.now) /\ lost' = lost \cup Expired(worker.now)
    BY <2>2, PurgeFacts, Zenon DEF TypeOK, Held
  <2> QED
    BY <2>1, <2>2, Zenon DEF Poll, Enter, ClaimNothing
<1>4. Created(r)' /\ Stored(r)'
  <2>1. Created(r) /\ Stored(r)
    BY DEF PromptInv
  <2>2. Untouched(r)
    BY <1>2, <1>3, Zenon DEF Untouched, WorkerStep
  <2> QED
    BY <1>3, <2>1, <2>2, UntouchedKeeps, Zenon
<1>5. \/ worker.pc = "Idle" /\ worker'.pc = "Enter" /\ gate' = gate
      \/ worker'.pc = "Claim" /\ gate = Free /\ gate' = Worker
      \/ worker.pc = "Claim" /\ worker'.pc = "Idle" /\ gate' = Free
  <2>1. CASE Poll
    BY <2>1 DEF Poll, TypeOK
  <2>2. CASE Enter
    BY <2>2 DEF Enter, TypeOK
  <2>3. CASE ClaimNothing
    BY <2>3, Zenon DEF ClaimNothing, Leave, IdleWorker
  <2> QED
    BY <2>1, <2>2, <2>3
<1>6. gate = Worker <=> worker.pc \in {"Claim", "Take", "Fail"}
  BY DEF PromptInv, Gated
<1>7. /\ gate \in {Free, Worker} \/ gate' = gate
      /\ gate' = IF worker'.pc \in {"Claim", "Take", "Fail"} THEN Worker
                 ELSE IF gate = Worker THEN Free ELSE gate
      /\ Claimed'
  BY <1>5, <1>6 DEF Claimed, Free, Worker
<1> QED
  BY <1>2, <1>3, <1>4, <1>7, WorkerKeeps, Zenon

(* A claim that fails: the row may be leased all the same. *)
LEMMA ClaimFailsKeeps ==
  ASSUME TypeOK, PromptInv, ClaimFails
  PROVE  PromptInv'
<1>1. /\ worker.pc = "Claim" /\ WorkerStep /\ UNCHANGED <<expires, delivered, lost, missing>>
      /\ gate' = Free /\ worker' = IdleWorker
  BY Zenon DEF ClaimFails, Leave
<1>2. PICK r \in Runs : /\ run[r].status = "Queued"
                        /\ run' = run \/ RowAt(r, "Planning", TRUE)
  BY ClaimFacts, Zenon DEF ClaimFails, Candidate, Queued
<1>3. Created(r) /\ Stored(r) /\ gate = Worker /\ creator[r] \notin {"Create", "Register", "Cancel"}
  BY <1>1, PromptAssumption DEF PromptInv, Gated
<1>4. Held' = Held /\ Claimed' /\ worker'.pc = "Idle"
  BY <1>1 DEF Held, Claimed, IdleWorker
<1>5. Created(r)' /\ Stored(r)'
  <2>1. CASE run' = run
    BY <1>1, <1>3, <1>4, <2>1, Zenon DEF Created, Stored, WorkerStep
  <2>2. CASE RowAt(r, "Planning", TRUE)
    BY <1>1, <1>2, <1>3, <1>4, <2>2, Zenon DEF Created, Stored, WorkerStep, RowAt
  <2> QED
    BY <1>2, <2>1, <2>2, Zenon
<1>6. \A q \in Runs \ {r} : run'[q] = run[q]
  BY <1>2 DEF RowAt
<1> QED
  BY <1>1, <1>3, <1>4, <1>5, <1>6, WorkerKeeps, Zenon

LEMMA ClaimKeeps ==
  ASSUME TypeOK, PromptInv, Claim
  PROVE  PromptInv'
<1>1. worker.pc = "Claim" /\ WorkerStep /\ UNCHANGED <<expires, gate, delivered, lost, missing>>
  BY Zenon DEF Claim
<1>2. PICK r \in Runs : /\ run[r].status = "Queued" /\ RowAt(r, "Planning", TRUE)
                        /\ worker' = [worker EXCEPT !.pc = "Take", !.run = r]
  BY ClaimFacts, Zenon DEF Claim, Candidate, Queued
<1>3. Created(r) /\ Stored(r) /\ gate = Worker /\ creator[r] \notin {"Create", "Register", "Cancel"}
  BY <1>1, PromptAssumption DEF PromptInv, Gated
<1>4. Held' = Held /\ worker'.pc = "Take" /\ worker'.run = r
  BY <1>1, <1>2 DEF Held, TypeOK
<1>5. r \in Held \cup lost
  BY <1>2, <1>3 DEF Created, TypeOK, CreatorLabel
<1>6. Created(r)' /\ Stored(r)'
  BY <1>1, <1>2, <1>3, <1>4, Zenon DEF Created, Stored, WorkerStep, RowAt
<1>7. Claimed'
  BY <1>1, <1>2, <1>4, <1>5 DEF Claimed, RowAt
<1>8. \A q \in Runs \ {r} : run'[q] = run[q]
  BY <1>2 DEF RowAt
<1> QED
  BY <1>1, <1>3, <1>4, <1>6, <1>7, <1>8, WorkerKeeps, Zenon

LEMMA TakeKeeps ==
  ASSUME TypeOK, PromptInv, TakePrompt
  PROVE  PromptInv'
<1>a. PICK r \in Runs : r = worker.run
  BY DEF TypeOK
<1>1. /\ worker.pc = "Take" /\ WorkerStep /\ UNCHANGED <<run, missing>>
      /\ lost' = lost \cup Expired(worker.now)
      /\ \A q \in Runs \ {r} : q \in Held' <=> q \in Held \ Expired(worker.now)
      /\ r \notin Held'
  BY <1>a, TakeFacts, Zenon
<1>2. Created(r) /\ Stored(r) /\ gate = Worker
  BY <1>1 DEF PromptInv, Gated
<1>3. run[r].status = "Planning" /\ r \in Held \cup lost
  BY <1>1, <1>a, Zenon DEF PromptInv, Claimed
<1>4. ASSUME delivered'[r] <= 1 PROVE Created(r)' /\ Stored(r)'
  <2>1. Created(r)'
    BY <1>1, <1>2, <1>3, Zenon DEF Created, WorkerStep
  <2>2. Stored(r)'
    BY <1>1, <1>2, <1>3, <1>4, Zenon DEF Stored, WorkerStep
  <2> QED
    BY <2>1, <2>2
<1>5. CASE /\ r \in Held /\ gate' = Free /\ worker' = [worker EXCEPT !.pc = "Execute"]
           /\ delivered' = [delivered EXCEPT ![r] = @ + 1]
  <2>1. delivered'[r] <= 1 /\ \A q \in Runs \ {r} : delivered'[q] = delivered[q]
    BY <1>2, <1>5 DEF Stored, TypeOK
  <2>2. worker'.pc = "Execute" /\ worker'.run = r
    BY <1>5, <1>a DEF TypeOK
  <2>3. Claimed'
    BY <1>1, <1>3, <2>2 DEF Claimed
  <2> QED
    BY <1>1, <1>2, <1>4, <1>5, <2>1, <2>2, <2>3, WorkerKeeps, Zenon
<1>6. CASE /\ r \notin Held \ Expired(worker.now) /\ UNCHANGED <<delivered, gate>>
           /\ worker' = [worker EXCEPT !.pc = "Fail"]
  <2>1. delivered'[r] <= 1 /\ \A q \in Runs \ {r} : delivered'[q] = delivered[q]
    BY <1>2, <1>6 DEF Stored
  <2>2. worker'.pc = "Fail" /\ worker'.run = r
    BY <1>6, <1>a DEF TypeOK
  <2>3. Claimed'
    BY <1>1, <1>3, <1>6, <2>2 DEF Claimed
  <2> QED
    BY <1>1, <1>2, <1>4, <1>6, <2>1, <2>2, <2>3, WorkerKeeps
<1> QED
  BY <1>a, <1>5, <1>6, TakeFacts, Zenon

LEMMA FailKeeps ==
  ASSUME TypeOK, PromptInv, FailUnprompted
  PROVE  PromptInv'
<1>a. PICK r \in Runs : r = worker.run
  BY DEF TypeOK
<1>1. /\ worker.pc = "Fail" /\ WorkerStep /\ UNCHANGED <<expires, delivered, lost>>
      /\ missing' = missing \cup {r} /\ gate' = Free /\ worker' = IdleWorker
      /\ run' = run \/ RowAt(r, "Failed", FALSE)
  BY <1>a, MoveFacts, Zenon DEF FailUnprompted, Leave
<1>2. Created(r) /\ Stored(r) /\ gate = Worker /\ r \in lost /\ run[r].status = "Planning"
  BY <1>1, <1>a, Zenon DEF PromptInv, Gated, Claimed
<1>3. Held' = Held /\ Claimed' /\ worker'.pc = "Idle"
  BY <1>1 DEF Held, Claimed, IdleWorker
<1>4. run'[r].status \in {"Planning", "Failed"} /\ (run'[r].leased <=> run'[r].status = "Planning")
  BY <1>1, <1>2, Zenon DEF RowAt, Stored
<1>5. Created(r)' /\ Stored(r)'
  BY <1>1, <1>2, <1>3, <1>4, Zenon DEF Created, Stored, WorkerStep
<1>6. \A q \in Runs \ {r} : run'[q] = run[q]
  BY <1>1 DEF RowAt
<1> QED
  BY <1>1, <1>2, <1>3, <1>5, <1>6, WorkerKeeps, Zenon

(* The end of an execution, and the recovery of a lease. *)
LEMMA EndKeeps ==
  ASSUME TypeOK, PromptInv, Finish \/ \E r \in Runs : RecoverLease(r)
  PROVE  PromptInv'
<1>1. PICK r \in Runs :
        /\ run[r].status = "Planning"
        /\ run' = run \/ RowAt(r, "Ended", FALSE) \/ RowAt(r, "Failed", FALSE)
  <2>1. CASE Finish
    BY <2>1, MoveFacts, Zenon DEF Finish, TypeOK, PromptInv, Claimed
  <2>2. ASSUME NEW r \in Runs, RecoverLease(r)
        PROVE  run[r].status = "Planning" /\ RowAt(r, "Failed", FALSE)
    BY <2>2, MoveFacts, Zenon DEF RecoverLease, PromptInv, Stored
  <2> QED
    BY <2>1, <2>2, Zenon
<1>2. /\ worker.pc \in {"Idle", "Execute"} /\ WorkerStep
      /\ UNCHANGED <<expires, gate, delivered, lost, missing>> /\ worker'.pc = "Idle"
  <2>1. CASE Finish
    BY <2>1, Zenon DEF Finish, IdleWorker
  <2>2. ASSUME NEW q \in Runs, RecoverLease(q)
        PROVE  /\ worker.pc = "Idle" /\ WorkerStep
               /\ UNCHANGED <<expires, gate, worker, delivered, lost, missing>>
    BY <2>2, Zenon DEF RecoverLease
  <2> QED
    BY <2>1, <2>2
<1>3. Created(r) /\ Stored(r) /\ gate # Worker
  BY <1>2 DEF PromptInv, Gated
<1>4. Held' = Held /\ Claimed'
  BY <1>2 DEF Held, Claimed
<1>5. /\ run'[r].status \in {"Planning", "Failed", "Ended"}
      /\ run'[r].leased <=> run'[r].status = "Planning"
      /\ \A q \in Runs \ {r} : run'[q] = run[q]
  BY <1>1, <1>3, Zenon DEF RowAt, Stored
<1>6. Created(r)' /\ Stored(r)'
  BY <1>1, <1>2, <1>3, <1>4, <1>5, Zenon DEF Created, Stored, WorkerStep
<1> QED
  BY <1>2, <1>3, <1>4, <1>5, <1>6, WorkerKeeps, Zenon

-----------------------------------------------------------------------------
(* Users, the clock and the process *)

LEMMA CancelKeeps ==
  ASSUME TypeOK, PromptInv, NEW r \in Runs, CancelRun(r)
  PROVE  PromptInv'
<1>1. /\ creator[r] = "Created" /\ run[r].status = "Queued" /\ RowAt(r, "Cancelled", FALSE)
      /\ cancelled' = cancelled \cup {r} /\ CreatorStep
      /\ UNCHANGED <<expires, gate, creator, lost, refused>>
  BY MoveFacts, Zenon DEF CancelRun, MayCancel
<1>2. Held' = Held /\ UNCHANGED <<worker, delivered, missing>>
  BY <1>1 DEF Held, CreatorStep
<1>3. ASSUME NEW q \in Runs \ {r} PROVE Created(q)' /\ Stored(q)'
  <2>1. Created(q) /\ Stored(q)
    BY <1>3, Zenon DEF PromptInv
  <2>2. Untouched(q)
    BY <1>1, <1>2, <1>3, Zenon DEF Untouched, RowAt
  <2> QED
    BY <1>1, <2>1, <2>2, UntouchedKeeps
<1>4. Created(r)' /\ Stored(r)'
  <2>1. Created(r) /\ Stored(r)
    BY DEF PromptInv
  <2> QED
    BY <1>1, <1>2, <2>1, Zenon DEF Created, Stored, RowAt
<1>5. Gated'
  BY <1>1, <1>2 DEF PromptInv, Gated
<1>6. Claimed'
  BY <1>1, <1>2, Zenon DEF PromptInv, Claimed, RowAt, TypeOK
<1> QED
  BY <1>3, <1>4, <1>5, <1>6 DEF PromptInv

LEMMA StillKeeps ==
  ASSUME PromptInv, UNCHANGED <<run, expires, gate, creator, worker, history>>
  PROVE  PromptInv'
<1>1. Held' = Held
  BY DEF Held
<1> QED
  BY <1>1 DEF PromptInv, Created, Stored, Gated, Claimed, history

LEMMA CrashKeeps ==
  ASSUME TypeOK, PromptInv, Crash
  PROVE  PromptInv'
<1>1. /\ Held' = {} /\ gate' = Free /\ worker'.pc = "Idle"
      /\ UNCHANGED <<run, delivered, refused, cancelled, missing>>
      /\ lost \subseteq lost' /\ Held \subseteq lost'
  BY Zenon DEF Crash, Held, IdleWorker
<1>2. \A r \in Runs : IF creator[r] \in {"Create", "Register", "Cancel"}
                        THEN creator'[r] = "Failed" /\ r \in lost'
                        ELSE creator'[r] = creator[r]
  BY Zenon DEF Crash
<1>3. ASSUME NEW r \in Runs PROVE Created(r)' /\ Stored(r)'
  <2>1. Created(r) /\ Stored(r)
    BY DEF PromptInv
  <2>2. CASE creator[r] \in {"Create", "Register", "Cancel"}
    BY <1>1, <1>2, <2>1, <2>2, Zenon DEF Created, Stored
  <2>3. CASE creator[r] \notin {"Create", "Register", "Cancel"}
    <3>1. Untouched(r)
      BY <1>1, <1>2, <2>3, Zenon DEF Untouched
    <3> QED
      BY <1>1, <2>1, <3>1, UntouchedKeeps, Zenon
  <2> QED
    BY <2>2, <2>3
<1>4. Gated' /\ Claimed'
  BY <1>1, <1>2, PromptAssumption DEF Gated, Claimed, Free, Worker
<1> QED
  BY <1>3, <1>4 DEF PromptInv

-----------------------------------------------------------------------------
(* The theorems *)

LEMMA StepKeeps == TypeOK /\ PromptInv /\ [Next]_vars => PromptInv'
<1> SUFFICES ASSUME TypeOK, PromptInv, [Next]_vars PROVE PromptInv'
  OBVIOUS
<1>1. CASE Tick \/ StepBack \/ Restart \/ UNCHANGED vars
  BY <1>1, StillKeeps, Zenon DEF Tick, StepBack, ClockStep, Restart, vars
<1>2. CASE \E r \in Runs : CreateStep(r) \/ CancelRun(r)
  BY <1>2, EnterKeeps, CreateKeeps, RegisterKeeps, UnregisteredKeeps, CancelKeeps, Zenon
     DEF CreateStep
<1>3. CASE Poll \/ ClaimStep \/ Finish \/ \E r \in Runs : RecoverLease(r)
  BY <1>3, LookingKeeps, ClaimFailsKeeps, ClaimKeeps, TakeKeeps, FailKeeps, EndKeeps, Zenon
     DEF ClaimStep
<1>4. CASE Crash
  BY <1>4, CrashKeeps
<1> QED
  BY <1>1, <1>2, <1>3, <1>4, Zenon DEF Next

LEMMA StartsWell == Init => PromptInv
<1> SUFFICES ASSUME Init PROVE PromptInv
  OBVIOUS
<1>1. Held = {} /\ worker.pc = "Idle" /\ gate = Free
  BY Zenon DEF Init, Held, IdleWorker
<1>2. \A r \in Runs : Created(r) /\ Stored(r)
  BY <1>1 DEF Init, Created, Stored
<1> QED
  BY <1>1, <1>2, PromptAssumption, Zenon DEF Init, PromptInv, Gated, Claimed, Free, Worker

(* The boundary never leaves the states PromptInv describes.               *)
THEOREM BoundaryStaysCoherent == Spec => [](TypeOK /\ PromptInv)
BY TypesStart, TypesStay, StartsWell, StepKeeps, PTL DEF Spec

(* "eliminating the persist-to-publish observation gap": claim_with_prompt *)
(* fails a run for want of a prompt only if that prompt expired, was lost  *)
(* with the process or could not be stored, whatever the number of runs    *)
(* and of requests under way.                                              *)
THEOREM NoGap == Spec => []NoObservationGap
<1>1. TypeOK /\ PromptInv => NoObservationGap
  BY Zenon DEF TypeOK, PromptInv, Stored, NoObservationGap
<1> QED
  BY <1>1, BoundaryStaysCoherent, PTL

(* A run whose prompt register_prompt refused is never claimed, unless the *)
(* cancellation of create_run itself failed.                               *)
THEOREM RefusedStayOut == Spec => []RefusedNeverClaimed
<1>1. TypeOK /\ PromptInv => RefusedNeverClaimed
  BY Zenon DEF TypeOK, PromptInv, Created, Stored, CreatorLabel, RefusedNeverClaimed
<1> QED
  BY <1>1, BoundaryStaysCoherent, PTL

(* take_prompt hands a prompt out at most once, and never for a run whose  *)
(* cancel_run was answered as confirmed.                                   *)
THEOREM PromptsAreDeliveredOnce == Spec => []DeliveredOnce
<1>1. TypeOK /\ PromptInv => DeliveredOnce
  BY Zenon DEF TypeOK, PromptInv, Stored, DeliveredOnce
<1> QED
  BY <1>1, BoundaryStaysCoherent, PTL

-----------------------------------------------------------------------------
(* The capacity of the broker *)

WithinCapacity == IsFiniteSet(Held) /\ Cardinality(Held) <= Capacity

LEMMA CapacityKept == TypeOK /\ WithinCapacity /\ [Next]_vars => WithinCapacity'
<1> SUFFICES ASSUME TypeOK, WithinCapacity, [Next]_vars PROVE WithinCapacity'
  BY Zenon
<1>c. Cardinality(Held) \in Nat /\ Capacity \in Nat
  BY PromptAssumption, FS_CardinalityType DEF WithinCapacity
<1>s. ASSUME NEW S \in SUBSET Held
      PROVE  IsFiniteSet(S) /\ Cardinality(S) \in Nat /\ Cardinality(S) <= Capacity
  <2>1. IsFiniteSet(S) /\ Cardinality(S) <= Cardinality(Held)
    BY FS_Subset DEF WithinCapacity
  <2>2. Cardinality(S) \in Nat
    BY <2>1, FS_CardinalityType
  <2> QED
    BY <1>c, <2>1, <2>2 DEF WithinCapacity
<1>0. ASSUME Held' \subseteq Held PROVE WithinCapacity'
  <2>1. IsFiniteSet(Held') /\ Cardinality(Held') <= Capacity
    BY <1>0, <1>s
  <2> QED
    BY <2>1 DEF WithinCapacity
<1>1. ASSUME UNCHANGED expires PROVE WithinCapacity'
  <2>1. Held' = Held
    BY <1>1 DEF Held
  <2> QED
    BY <1>0, <2>1
<1>2. ASSUME NEW r \in Runs, Register(r) PROVE WithinCapacity'
  <2>1. CASE Full(clock)
    <3>1. clock \in Nat /\ expires' = Purged(clock)
      BY <1>2, <2>1, Zenon DEF Register, TypeOK
    <3> QED
      BY <1>0, <3>1, PurgeFacts DEF Held
  <2>2. CASE ~Full(clock)
    <3> DEFINE S == Held \ Expired(clock)
    <3>1. IsFiniteSet(S) /\ Cardinality(S) \in Nat /\ Cardinality(S) + 1 <= Capacity
      BY <1>c, <1>s, <2>2 DEF Full
    <3>2. IsFiniteSet(S \cup {r}) /\ Cardinality(S \cup {r}) <= Cardinality(S) + 1
      BY <3>1, FS_AddElement
    <3>3. Held' \subseteq S \cup {r}
      <4>1. \A q \in Runs \ {r} : q \in Held' <=> q \in S
        BY <1>2, RegisterFacts, Zenon
      <4> QED
        BY <4>1 DEF Held
    <3>4. IsFiniteSet(Held') /\ Cardinality(Held') <= Cardinality(S \cup {r})
      BY <3>2, <3>3, FS_Subset
    <3>5. Cardinality(Held') \in Nat /\ Cardinality(S \cup {r}) \in Nat
      BY <3>2, <3>4, FS_CardinalityType
    <3>6. Cardinality(Held') <= Capacity
      BY <1>c, <3>1, <3>2, <3>4, <3>5
    <3> QED
      BY <3>4, <3>6 DEF WithinCapacity
  <2> QED
    BY <2>1, <2>2
<1>3. CASE ClaimNothing
  <2>1. worker.now \in Nat /\ expires' = Purged(worker.now)
    BY <1>3 DEF ClaimNothing, TypeOK
  <2> QED
    BY <1>0, <2>1, PurgeFacts DEF Held
<1>4. CASE TakePrompt
  <2>1. worker.run \in Runs
    BY DEF TypeOK
  <2>2. Held' \subseteq Held
    BY <1>4, <2>1, TakeFacts DEF Held
  <2> QED
    BY <1>0, <2>2
<1>5. CASE Crash
  <2>1. Held' = {}
    BY <1>5 DEF Crash, Held
  <2> QED
    BY <1>0, <2>1
<1> QED
  BY <1>1, <1>2, <1>3, <1>4, <1>5, Zenon
     DEF Next, CreateStep, ClaimStep, EnterCreation, CreateRun, CancelUnregistered, CancelRun,
         RecoverLease, Poll, Enter, ClaimFails, Claim, FailUnprompted, Finish, Tick, StepBack,
         ClockStep, Restart, vars

(* register_prompt never lets the broker hold more prompts than its        *)
(* capacity, although it purges and counts at its own reading of a clock   *)
(* that may step back.                                                     *)
THEOREM BrokerIsBounded == Spec => []WithinCapacity
<1>1. Init => WithinCapacity
  <2>1. Init => Held = {}
    BY DEF Init, Held
  <2> QED
    BY <2>1, PromptAssumption, FS_EmptySet DEF WithinCapacity
<1> QED
  BY <1>1, CapacityKept, TypesStart, TypesStay, PTL DEF Spec
=============================================================================
