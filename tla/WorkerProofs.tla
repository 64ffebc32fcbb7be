---------------------------- MODULE WorkerProofs ----------------------------
(***************************************************************************)
(* The proofs about the worker service, for any number of processes and    *)
(* runs.  A run is worked on by one process at a time, so what a process   *)
(* knows about its run, where it is in its work, its sandbox thread and    *)
(* the run's rows and container fit together; and what a run reports was   *)
(* true when it was written and stays true.                                *)
(***************************************************************************)
EXTENDS WorkerService, TLAPS

(* The places of a process that works on its run. *)
Supervising == {"Supervise", "Heartbeat", "Cancel"}
Fresh == {"Prepare", "Start", "Begin", "Recheck", "Launch"}
Ended == {"Exited", "Artifacts", "Confirm"}
Closing == {"Destroyed", "Complete"}
Giving == {"Unprompted", "Abandon", "FailNow", "FailThen"}
After == {"FailClaim", "Discard"}
Working == Fresh \cup Supervising \cup {"Finish", "Judge"} \cup Ended \cup Closing
             \cup Giving \cup After

(* From where the run has been moved to Running, and from where its output *)
(* directory is there.                                                     *)
Begun == ((Fresh \ {"Prepare", "Start", "Begin"}) \cup Supervising \cup {"Finish", "Judge"}
            \cup Ended \cup Closing)
Filled == Begun \cup {"Start", "Begin"}

Reported == {"Succeeded", "TimedOut", "Cancelled"}

(* A process at p, with the status s, the container c, the output o and    *)
(* the artifacts a of its run, a lost answer u, its sandbox thread b, that *)
(* thread's result and the terminal status n it is about to write.         *)
Sound(p, s, c, o, a, u, b, res, n) ==
  /\ p \in Working => s # "Queued"
  /\ p \in Begun => s # "Planning"
  /\ p \in Working /\ s \in Reported => p \in After
  /\ p \in Working /\ s = "Succeeded" => u
  /\ b # "None" => p \in Supervising
  /\ p \in Fresh \/ b = "Starting" => c = "None"
  /\ b = "Active" => c = "Up"
  /\ (b = "Returned" \/ p \in {"Finish", "Judge"})
       /\ res \in {"Exited", "TimedOut", "Cancelled"} => c # "Up"
  /\ p \in Ended => c # "Up"
  /\ p \in Closing /\ n \in {"Succeeded", "TimedOut"} => c # "Up"
  /\ p \in Closing /\ n = "Succeeded" => a
  /\ p \in Closing => n \in {"Succeeded", "TimedOut", "Failed"}
  /\ p = "Exited" => n \in {"TimedOut", "Failed"}
  /\ p \in Filled => o

(* A run, whoever works on it. *)
RunSound(s, c, o, a, u) ==
  /\ s \in Reported => c # "Up"
  /\ s = "Succeeded" /\ ~u => a /\ o
  /\ s \in {"Queued", "Planning"} => c = "None"

WorkSound(w) ==
  Sound(pc[w], status[task[w]], container[task[w]], output[task[w]], artifacts[task[w]],
        unheard, box[w], result[w], next[w])

RunsSound(r) == RunSound(status[r], container[r], output[r], artifacts[r], unheard)

Shape ==
  /\ DOMAIN status = Runs /\ DOMAIN container = Runs
  /\ DOMAIN output = Runs /\ DOMAIN artifacts = Runs
  /\ DOMAIN pc = Workers /\ DOMAIN task = Workers /\ DOMAIN box = Workers
  /\ DOMAIN result = Workers /\ DOMAIN next = Workers
  /\ \A w \in Workers : task[w] \in Runs

(* No two processes work on the same run. *)
Apart == \A v, w \in Workers : pc[v] \in Working /\ pc[w] \in Working /\ task[v] = task[w] => v = w

WorkerInv ==
  /\ Shape /\ Apart
  /\ \A w \in Workers : WorkSound(w)
  /\ \A r \in Runs : RunsSound(r)

(***************************************************************************)
(* Frames.  A step of w that leaves the other processes alone and touches  *)
(* no run but its own.                                                     *)
(***************************************************************************)
OthersAlone(w) ==
  \A v \in Workers : v # w =>
    /\ pc'[v] = pc[v] /\ task'[v] = task[v] /\ box'[v] = box[v]
    /\ result'[v] = result[v] /\ next'[v] = next[v]

Touches(r) ==
  \A x \in Runs : x # r =>
    /\ status'[x] = status[x] /\ container'[x] = container[x]
    /\ output'[x] = output[x] /\ artifacts'[x] = artifacts[x]

LocalTo(w) ==
  /\ Shape' /\ OthersAlone(w) /\ Touches(task'[w])
  /\ unheard => unheard'

(* A lost answer can only excuse more. *)
LEMMA Excused ==
  ASSUME NEW p, NEW s, NEW c, NEW o, NEW a, NEW u, NEW b, NEW res, NEW n, NEW v,
         u => v
  PROVE  /\ Sound(p, s, c, o, a, u, b, res, n) => Sound(p, s, c, o, a, v, b, res, n)
         /\ RunSound(s, c, o, a, u) => RunSound(s, c, o, a, v)
BY Zenon DEF Sound, RunSound

(* A process that does not work has nothing to answer for. *)
LEMMA Resting ==
  ASSUME NEW p, p \notin Working, NEW s, NEW c, NEW o, NEW a, NEW u, NEW res, NEW n
  PROVE  Sound(p, s, c, o, a, u, "None", res, n)
<1>1. /\ p \notin Begun /\ p \notin Fresh /\ p \notin Ended /\ p \notin Closing /\ p \notin Filled
      /\ p \notin {"Finish", "Judge"} /\ p # "Exited"
  BY DEF Working, Begun, Fresh, Ended, Closing, Filled
<1> QED
  BY <1>1 DEF Sound

LEMMA BoxAtWork ==
  ASSUME WorkerInv, NEW w \in Workers, pc[w] \notin Working
  PROVE  box[w] = "None"
<1>1. Supervising \subseteq Working
  BY Zenon DEF Working
<1> QED
  BY <1>1, Zenon DEF WorkerInv, WorkSound, Sound

(* The step of a process that works on its run, or that claims one. *)
LEMMA LocalKeeps ==
  ASSUME WorkerInv, NEW w \in Workers, LocalTo(w),
         \/ pc[w] \in Working /\ task'[w] = task[w]
         \/ status[task'[w]] = "Queued",
         WorkSound(w)', RunsSound(task[w])'
  PROVE  WorkerInv'
<1>1. ASSUME NEW v \in Workers, v # w, pc[v] \in Working PROVE task[v] # task'[w]
  <2>1. status[task[v]] # "Queued"
    BY <1>1, Zenon DEF WorkerInv, WorkSound, Sound
  <2> QED
    BY <1>1, <2>1, Zenon DEF WorkerInv, Apart
<1>2. ASSUME NEW v \in Workers, v # w PROVE WorkSound(v)'
  <2>1. CASE pc[v] \in Working
    <3>1. task[v] # task'[w] /\ task[v] \in Runs
      BY <1>1, <1>2, <2>1, Zenon DEF WorkerInv, Shape
    <3>2. Sound(pc[v], status[task[v]], container[task[v]], output[task[v]],
                artifacts[task[v]], unheard', box[v], result[v], next[v])
      BY Excused, Zenon DEF WorkerInv, WorkSound, LocalTo
    <3> QED
      BY <1>2, <3>1, <3>2, ZenonT(60) DEF WorkSound, LocalTo, OthersAlone, Touches
  <2>2. CASE pc[v] \notin Working
    <3>1. box'[v] = "None" /\ pc'[v] \notin Working
      BY <1>2, <2>2, BoxAtWork, Zenon DEF LocalTo, OthersAlone
    <3> QED
      BY <3>1, Resting, Zenon DEF WorkSound
  <2> QED
    BY <2>1, <2>2, Zenon
<1>3. ASSUME NEW r \in Runs PROVE RunsSound(r)'
  <2>1. RunSound(status[r], container[r], output[r], artifacts[r], unheard')
    BY Excused, Zenon DEF WorkerInv, RunsSound, LocalTo
  <2>2. CASE r # task'[w]
    BY <2>1, <2>2, Zenon DEF RunsSound, LocalTo, Touches
  <2>3. CASE r = task'[w]
    BY <2>3, Zenon DEF RunsSound
  <2> QED
    BY <2>2, <2>3, Zenon
<1>4. Apart'
  <2> SUFFICES ASSUME NEW v \in Workers, NEW x \in Workers, pc'[v] \in Working,
                      pc'[x] \in Working, task'[v] = task'[x], v # x
               PROVE  FALSE
    BY Zenon DEF Apart
  <2>1. CASE v # w /\ x # w
    BY <2>1, Zenon DEF WorkerInv, Apart, LocalTo, OthersAlone
  <2>2. CASE v = w
    BY <1>1, <2>2, Zenon DEF LocalTo, OthersAlone
  <2>3. CASE x = w
    BY <1>1, <2>3, Zenon DEF LocalTo, OthersAlone
  <2> QED
    BY <2>1, <2>2, <2>3, Zenon
<1> QED
  BY <1>2, <1>3, <1>4, Zenon DEF WorkerInv, LocalTo

(* The step of a process that does not work, then or afterwards: it may    *)
(* end expired runs as failed.                                             *)
LEMMA RestingKeeps ==
  ASSUME WorkerInv, NEW w \in Workers, Shape', OthersAlone(w), unheard => unheard',
         pc'[w] \notin Working, box'[w] = "None",
         \A r \in Runs : /\ status'[r] = status[r] \/ status'[r] = "Failed"
                         /\ container'[r] = container[r] /\ output'[r] = output[r]
                         /\ artifacts'[r] = artifacts[r]
  PROVE  WorkerInv'
<1>1. ASSUME NEW p, NEW s, NEW c, NEW o, NEW a, NEW u, NEW b, NEW res, NEW n,
             Sound(p, s, c, o, a, u, b, res, n)
      PROVE  Sound(p, "Failed", c, o, a, u, b, res, n)
  BY <1>1 DEF Sound, Reported
<1>2. ASSUME NEW c, NEW o, NEW a, NEW u PROVE RunSound("Failed", c, o, a, u)
  BY DEF RunSound, Reported
<1>a. WorkSound(w)'
  BY Resting, ZenonT(60) DEF WorkSound
<1>3. ASSUME NEW v \in Workers PROVE WorkSound(v)'
  <2>1. CASE v = w
    BY <1>a, <2>1, Zenon
  <2>2. CASE v # w
    <3>1. task[v] \in Runs
      BY Zenon DEF WorkerInv, Shape
    <3>2. Sound(pc[v], status[task[v]], container[task[v]], output[task[v]],
                artifacts[task[v]], unheard', box[v], result[v], next[v])
      BY Excused, Zenon DEF WorkerInv, WorkSound
    <3>3. Sound(pc[v], status'[task[v]], container[task[v]], output[task[v]],
                artifacts[task[v]], unheard', box[v], result[v], next[v])
      <4>1. CASE status'[task[v]] = status[task[v]]
        BY <3>2, <4>1, Zenon
      <4>2. CASE status'[task[v]] = "Failed"
        BY <1>1, <3>2, <4>2, ZenonT(60)
      <4> QED
        BY <3>1, <4>1, <4>2, Zenon
    <3>4. /\ pc'[v] = pc[v] /\ task'[v] = task[v] /\ box'[v] = box[v]
          /\ result'[v] = result[v] /\ next'[v] = next[v]
      BY <2>2, Zenon DEF OthersAlone
    <3>5. /\ container'[task[v]] = container[task[v]] /\ output'[task[v]] = output[task[v]]
          /\ artifacts'[task[v]] = artifacts[task[v]]
      BY <3>1, Zenon
    <3> QED
      BY <3>3, <3>4, <3>5, Zenon DEF WorkSound
  <2> QED
    BY <2>1, <2>2, Zenon
<1>4. ASSUME NEW r \in Runs PROVE RunsSound(r)'
  <2>1. RunSound(status[r], container[r], output[r], artifacts[r], unheard')
    BY Excused, Zenon DEF WorkerInv, RunsSound
  <2>2. RunSound(status'[r], container[r], output[r], artifacts[r], unheard')
    BY <1>2, <2>1, Zenon
  <2> QED
    BY <2>2, Zenon DEF RunsSound
<1>5. Apart'
  <2> SUFFICES ASSUME NEW v \in Workers, NEW x \in Workers, pc'[v] \in Working,
                      pc'[x] \in Working, task'[v] = task'[x], v # x
               PROVE  FALSE
    BY Zenon DEF Apart
  <2> QED
    BY Zenon DEF WorkerInv, Apart, OthersAlone
<1> QED
  BY <1>3, <1>4, <1>5, Zenon DEF WorkerInv

(***************************************************************************)
(* Most steps of a process at work are a call of the store: they move the  *)
(* process to a label and may give its run a status.                       *)
(***************************************************************************)
Turn(w, label, s) ==
  /\ Go(w, label)
  /\ \/ status' = status /\ s = status[task[w]]
     \/ status' = [status EXCEPT ![task[w]] = s]

Kept == UNCHANGED <<task, container, output, artifacts, box, result, next>>

(* What would have to hold of w at a label, with its run in status s. *)
Fits(w, label, s, u) ==
  /\ Sound(label, s, container[task[w]], output[task[w]], artifacts[task[w]], u,
           box[w], result[w], next[w])
  /\ RunSound(s, container[task[w]], output[task[w]], artifacts[task[w]], u)

LEMMA TurnKeeps ==
  ASSUME WorkerInv, NEW w \in Workers, pc[w] \in Working, NEW label, NEW s,
         Turn(w, label, s), Kept, unheard => unheard', Fits(w, label, s, unheard')
  PROVE  WorkerInv'
<1>1. DOMAIN pc = Workers /\ DOMAIN status = Runs /\ task[w] \in Runs
  BY Zenon DEF WorkerInv, Shape
<1>2. /\ DOMAIN pc' = Workers /\ pc'[w] = label /\ \A v \in Workers : v # w => pc'[v] = pc[v]
  BY <1>1, Zenon DEF Turn, Go
<1>3. /\ DOMAIN status' = Runs /\ status'[task[w]] = s
      /\ \A x \in Runs : x # task[w] => status'[x] = status[x]
  BY <1>1, Zenon DEF Turn
<1>4. LocalTo(w) /\ task'[w] = task[w]
  BY <1>2, <1>3, Zenon DEF LocalTo, OthersAlone, Touches, Kept, WorkerInv, Shape
<1>5. WorkSound(w)' /\ RunsSound(task[w])'
  BY <1>2, <1>3, Zenon DEF Fits, Kept, WorkSound, RunsSound
<1> QED
  BY <1>4, <1>5, LocalKeeps, Zenon

LEMMA FitsNow ==
  ASSUME WorkerInv, NEW w \in Workers
  PROVE  Fits(w, pc[w], status[task[w]], unheard)
BY Zenon DEF WorkerInv, Shape, WorkSound, RunsSound, Fits

LEMMA FitsLater ==
  ASSUME NEW w, NEW label, NEW s, Fits(w, label, s, unheard), unheard => unheard'
  PROVE  Fits(w, label, s, unheard')
BY Excused, Zenon DEF Fits

(* A process without a sandbox thread can always give up its run. *)
LEMMA GivesUp ==
  ASSUME NEW w, NEW p, NEW s, NEW u, Fits(w, p, s, u), p \in Working \ Supervising
  PROVE  /\ Fits(w, "FailClaim", s, u) /\ Fits(w, "Discard", s, u) /\ Fits(w, "Loop", s, u)
         /\ s \notin Reported => Fits(w, "FailNow", s, u) /\ Fits(w, "FailThen", s, u)
         /\ \A q \in {"FailClaim", "Discard", "Loop"} : Fits(w, q, "Failed", u)
BY ZenonT(60) DEF Fits, Sound, RunSound, Working, Begun, Filled, Supervising, Fresh, Ended, Closing,
       Giving, After, Reported

LEMMA AtWork ==
  {"Unprompted", "Abandon", "FailClaim", "Start", "Begin", "Recheck", "Launch", "Finish",
   "Judge", "Exited", "Artifacts", "Destroyed", "Complete", "Confirm", "FailNow", "FailThen",
   "Prepare", "Discard"} \subseteq Working \ Supervising
BY DEF Working, Supervising, Fresh, Ended, Closing, Giving, After

LEMMA UnpromptedKeeps ==
  ASSUME WorkerInv, NEW w \in Workers, Unprompted(w)
  PROVE  WorkerInv'
<1>1. pc[w] = "Unprompted" /\ Kept
  BY Zenon DEF Unprompted, StoreCall, EndRun, Kept, locals, sandbox, store
<1>2. unheard => unheard'
  BY Zenon DEF Unprompted, StoreCall, env
<1>3. \/ Turn(w, "Loop", status[task[w]])
      \/ Turn(w, "Loop", "Failed")
  BY Zenon DEF Unprompted, StoreCall, EndRun, Turn, store
<1>4. pc[w] \in Working \ Supervising
  BY <1>1, AtWork, Zenon
<1>5. /\ Fits(w, "Loop", status[task[w]], unheard)
      /\ Fits(w, "Loop", "Failed", unheard)
  BY <1>4, FitsNow, GivesUp, Zenon
<1> QED
  BY <1>1, <1>2, <1>3, <1>4, <1>5, FitsLater, TurnKeeps, Zenon

LEMMA AbandonKeeps ==
  ASSUME WorkerInv, NEW w \in Workers, Abandon(w)
  PROVE  WorkerInv'
<1>1. pc[w] = "Abandon" /\ Kept
  BY Zenon DEF Abandon, StoreCall, EndRun, Kept, locals, sandbox, store
<1>2. unheard => unheard'
  BY Zenon DEF Abandon, StoreCall, env
<1>3. \/ Turn(w, "Loop", status[task[w]])
      \/ Turn(w, "Loop", "Failed")
  BY Zenon DEF Abandon, StoreCall, EndRun, Turn, store
<1>4. pc[w] \in Working \ Supervising
  BY <1>1, AtWork, Zenon
<1>5. /\ Fits(w, "Loop", status[task[w]], unheard)
      /\ Fits(w, "Loop", "Failed", unheard)
  BY <1>4, FitsNow, GivesUp, Zenon
<1> QED
  BY <1>1, <1>2, <1>3, <1>4, <1>5, FitsLater, TurnKeeps, Zenon

LEMMA FailClaimKeeps ==
  ASSUME WorkerInv, NEW w \in Workers, FailClaim(w)
  PROVE  WorkerInv'
<1>1. pc[w] = "FailClaim" /\ Kept
  BY Zenon DEF FailClaim, StoreCall, EndRun, Kept, locals, sandbox, store
<1>2. unheard => unheard'
  BY Zenon DEF FailClaim, StoreCall, env
<1>3. \/ Turn(w, "Discard", status[task[w]])
      \/ Turn(w, "Discard", "Failed")
  BY Zenon DEF FailClaim, StoreCall, EndRun, Turn, store
<1>4. pc[w] \in Working \ Supervising
  BY <1>1, AtWork, Zenon
<1>5. /\ Fits(w, "Discard", status[task[w]], unheard)
      /\ Fits(w, "Discard", "Failed", unheard)
  BY <1>4, FitsNow, GivesUp, Zenon
<1> QED
  BY <1>1, <1>2, <1>3, <1>4, <1>5, FitsLater, TurnKeeps, Zenon

LEMMA StartKeeps ==
  ASSUME WorkerInv, NEW w \in Workers, Start(w)
  PROVE  WorkerInv'
<1>1. pc[w] = "Start" /\ Kept
  BY Zenon DEF Start, StoreCall, Kept, locals, sandbox, store
<1>2. unheard => unheard'
  BY Zenon DEF Start, StoreCall, env
<1>3. \/ Turn(w, "FailThen", status[task[w]])
      \/ Turn(w, "Begin", status[task[w]])
      \/ Turn(w, "FailClaim", status[task[w]])
  BY Zenon DEF Start, StoreCall, Turn, store
<1>4. pc[w] \in Working \ Supervising
  BY <1>1, AtWork, Zenon
<1>5. Fits(w, "Start", status[task[w]], unheard)
  BY <1>1, FitsNow, Zenon
<1>6. /\ Fits(w, "FailThen", status[task[w]], unheard)
      /\ Fits(w, "Begin", status[task[w]], unheard)
      /\ Fits(w, "FailClaim", status[task[w]], unheard)
  BY <1>5, ZenonT(60) DEF Fits, Sound, RunSound, Working, Begun, Filled, Supervising, Fresh, Ended, Closing,
         Giving, After, Reported
<1> QED
  BY <1>1, <1>2, <1>3, <1>4, <1>6, FitsLater, TurnKeeps, Zenon

LEMMA BeginKeeps ==
  ASSUME WorkerInv, NEW w \in Workers, Begin(w)
  PROVE  WorkerInv'
<1>1. pc[w] = "Begin" /\ Kept
  BY Zenon DEF Begin, StoreCall, SetStatus, Kept, locals, sandbox, store
<1>2. unheard => unheard'
  BY Zenon DEF Begin, StoreCall, env
<1>3. \/ Turn(w, "Recheck", "Running")
      \/ Turn(w, "FailClaim", status[task[w]])
      \/ Turn(w, "FailClaim", "Running")
  BY Zenon DEF Begin, StoreCall, SetStatus, Turn, store
<1>4. pc[w] \in Working \ Supervising
  BY <1>1, AtWork, Zenon
<1>5. Fits(w, "Begin", status[task[w]], unheard)
  BY <1>1, FitsNow, Zenon
<1>6. /\ Fits(w, "Recheck", "Running", unheard)
      /\ Fits(w, "FailClaim", status[task[w]], unheard)
      /\ Fits(w, "FailClaim", "Running", unheard)
  BY <1>5, ZenonT(60) DEF Fits, Sound, RunSound, Working, Begun, Filled, Supervising, Fresh, Ended, Closing,
         Giving, After, Reported
<1> QED
  BY <1>1, <1>2, <1>3, <1>4, <1>6, FitsLater, TurnKeeps, Zenon

LEMMA RecheckKeeps ==
  ASSUME WorkerInv, NEW w \in Workers, Recheck(w)
  PROVE  WorkerInv'
<1>1. pc[w] = "Recheck" /\ Kept
  BY Zenon DEF Recheck, StoreCall, Kept, locals, sandbox, store
<1>2. unheard => unheard'
  BY Zenon DEF Recheck, StoreCall, env
<1>3. \/ Turn(w, "FailThen", status[task[w]])
      \/ Turn(w, "Launch", status[task[w]])
      \/ Turn(w, "FailClaim", status[task[w]])
  BY Zenon DEF Recheck, StoreCall, Turn, store
<1>4. pc[w] \in Working \ Supervising
  BY <1>1, AtWork, Zenon
<1>5. Fits(w, "Recheck", status[task[w]], unheard)
  BY <1>1, FitsNow, Zenon
<1>6. /\ Fits(w, "FailThen", status[task[w]], unheard)
      /\ Fits(w, "Launch", status[task[w]], unheard)
      /\ Fits(w, "FailClaim", status[task[w]], unheard)
  BY <1>5, ZenonT(60) DEF Fits, Sound, RunSound, Working, Begun, Filled, Supervising, Fresh, Ended, Closing,
         Giving, After, Reported
<1> QED
  BY <1>1, <1>2, <1>3, <1>4, <1>6, FitsLater, TurnKeeps, Zenon

LEMMA FinishKeeps ==
  ASSUME WorkerInv, NEW w \in Workers, Finish(w)
  PROVE  WorkerInv'
<1>1. pc[w] = "Finish" /\ Kept
  BY Zenon DEF Finish, StoreCall, Kept, locals, sandbox, store
<1>2. unheard => unheard'
  BY Zenon DEF Finish, StoreCall, env
<1>3. \/ Turn(w, "Judge", status[task[w]])
      \/ Turn(w, "FailThen", status[task[w]])
      \/ Turn(w, "FailClaim", status[task[w]])
  BY Zenon DEF Finish, StoreCall, Turn, store
<1>4. pc[w] \in Working \ Supervising
  BY <1>1, AtWork, Zenon
<1>5. Fits(w, "Finish", status[task[w]], unheard)
  BY <1>1, FitsNow, Zenon
<1>6. /\ Fits(w, "Judge", status[task[w]], unheard)
      /\ Fits(w, "FailThen", status[task[w]], unheard)
      /\ Fits(w, "FailClaim", status[task[w]], unheard)
  BY <1>5, ZenonT(60) DEF Fits, Sound, RunSound, Working, Begun, Filled, Supervising, Fresh, Ended, Closing,
         Giving, After, Reported
<1> QED
  BY <1>1, <1>2, <1>3, <1>4, <1>6, FitsLater, TurnKeeps, Zenon

LEMMA ExitedKeeps ==
  ASSUME WorkerInv, NEW w \in Workers, Exited(w)
  PROVE  WorkerInv'
<1>1. pc[w] = "Exited" /\ Kept
  BY Zenon DEF Exited, StoreCall, Kept, locals, sandbox, store
<1>2. unheard => unheard'
  BY Zenon DEF Exited, StoreCall, env
<1>3. \/ Turn(w, "FailNow", status[task[w]])
      \/ Turn(w, "Destroyed", status[task[w]])
      \/ Turn(w, "Artifacts", status[task[w]])
      \/ Turn(w, "FailClaim", status[task[w]])
  BY Zenon DEF Exited, StoreCall, Turn, store
<1>4. pc[w] \in Working \ Supervising
  BY <1>1, AtWork, Zenon
<1>5. Fits(w, "Exited", status[task[w]], unheard)
  BY <1>1, FitsNow, Zenon
<1>6. /\ Fits(w, "FailNow", status[task[w]], unheard)
      /\ Fits(w, "Destroyed", status[task[w]], unheard)
      /\ Fits(w, "Artifacts", status[task[w]], unheard)
      /\ Fits(w, "FailClaim", status[task[w]], unheard)
  BY <1>5, ZenonT(60) DEF Fits, Sound, RunSound, Working, Begun, Filled, Supervising, Fresh, Ended, Closing,
         Giving, After, Reported
<1> QED
  BY <1>1, <1>2, <1>3, <1>4, <1>6, FitsLater, TurnKeeps, Zenon

LEMMA DestroyedKeeps ==
  ASSUME WorkerInv, NEW w \in Workers, Destroyed(w)
  PROVE  WorkerInv'
<1>1. pc[w] = "Destroyed" /\ Kept
  BY Zenon DEF Destroyed, StoreCall, Kept, locals, sandbox, store
<1>2. unheard => unheard'
  BY Zenon DEF Destroyed, StoreCall, env
<1>3. \/ Turn(w, "Complete", status[task[w]])
      \/ Turn(w, "FailClaim", status[task[w]])
  BY Zenon DEF Destroyed, StoreCall, Turn, store
<1>4. pc[w] \in Working \ Supervising
  BY <1>1, AtWork, Zenon
<1>5. Fits(w, "Destroyed", status[task[w]], unheard)
  BY <1>1, FitsNow, Zenon
<1>6. /\ Fits(w, "Complete", status[task[w]], unheard)
      /\ Fits(w, "FailClaim", status[task[w]], unheard)
  BY <1>5 DEF Fits, Sound, RunSound, Working, Begun, Filled, Supervising, Fresh, Ended, Closing,
         Giving, After, Reported
<1> QED
  BY <1>1, <1>2, <1>3, <1>4, <1>6, FitsLater, TurnKeeps, Zenon

LEMMA ConfirmKeeps ==
  ASSUME WorkerInv, NEW w \in Workers, Confirm(w)
  PROVE  WorkerInv'
<1>1. pc[w] = "Confirm" /\ Kept
  BY Zenon DEF Confirm, StoreCall, EndRun, Kept, locals, sandbox, store
<1>2. unheard => unheard'
  BY Zenon DEF Confirm, StoreCall, env
<1>3. \/ Turn(w, "Discard", "Cancelled")
      \/ Turn(w, "FailClaim", status[task[w]])
      \/ Turn(w, "FailClaim", "Cancelled")
  BY Zenon DEF Confirm, StoreCall, EndRun, AfterOutcome, Turn, store
<1>4. pc[w] \in Working \ Supervising
  BY <1>1, AtWork, Zenon
<1>5. Fits(w, "Confirm", status[task[w]], unheard)
  BY <1>1, FitsNow, Zenon
<1>6. /\ Fits(w, "Discard", "Cancelled", unheard)
      /\ Fits(w, "FailClaim", status[task[w]], unheard)
      /\ Fits(w, "FailClaim", "Cancelled", unheard)
  <2>1. Fits(w, "Discard", "Cancelled", unheard)
    BY <1>5 DEF Fits, Sound, RunSound, Working, Begun, Filled, Supervising, Fresh, Ended,
                Closing, Giving, After, Reported
  <2>2. Fits(w, "FailClaim", status[task[w]], unheard)
    BY <1>5 DEF Fits, Sound, RunSound, Working, Begun, Filled, Supervising, Fresh, Ended,
                Closing, Giving, After, Reported
  <2>3. Fits(w, "FailClaim", "Cancelled", unheard)
    BY <1>5 DEF Fits, Sound, RunSound, Working, Begun, Filled, Supervising, Fresh, Ended,
                Closing, Giving, After, Reported
  <2> QED
    BY <2>1, <2>2, <2>3, Zenon
<1> QED
  BY <1>1, <1>2, <1>3, <1>4, <1>6, FitsLater, TurnKeeps, Zenon

LEMMA FailNowKeeps ==
  ASSUME WorkerInv, NEW w \in Workers, FailNow(w)
  PROVE  WorkerInv'
<1>1. pc[w] = "FailNow" /\ Kept
  BY Zenon DEF FailNow, StoreCall, EndRun, Kept, locals, sandbox, store
<1>2. unheard => unheard'
  BY Zenon DEF FailNow, StoreCall, env
<1>3. \/ Turn(w, "Discard", "Failed")
      \/ Turn(w, "FailClaim", status[task[w]])
      \/ Turn(w, "FailClaim", "Failed")
  BY Zenon DEF FailNow, StoreCall, EndRun, AfterOutcome, Turn, store
<1>4. pc[w] \in Working \ Supervising
  BY <1>1, AtWork, Zenon
<1>5. /\ Fits(w, "Discard", "Failed", unheard)
      /\ Fits(w, "FailClaim", status[task[w]], unheard)
      /\ Fits(w, "FailClaim", "Failed", unheard)
  BY <1>4, FitsNow, GivesUp, Zenon
<1> QED
  BY <1>1, <1>2, <1>3, <1>4, <1>5, FitsLater, TurnKeeps, Zenon

LEMMA FailThenKeeps ==
  ASSUME WorkerInv, NEW w \in Workers, FailThen(w)
  PROVE  WorkerInv'
<1>1. pc[w] = "FailThen" /\ Kept
  BY Zenon DEF FailThen, StoreCall, EndRun, Kept, locals, sandbox, store
<1>2. unheard => unheard'
  BY Zenon DEF FailThen, StoreCall, env
<1>3. \/ Turn(w, "Discard", "Failed")
      \/ Turn(w, "FailClaim", status[task[w]])
      \/ Turn(w, "FailClaim", "Failed")
  BY Zenon DEF FailThen, StoreCall, EndRun, AfterOutcome, Turn, store
<1>4. pc[w] \in Working \ Supervising
  BY <1>1, AtWork, Zenon
<1>5. /\ Fits(w, "Discard", "Failed", unheard)
      /\ Fits(w, "FailClaim", status[task[w]], unheard)
      /\ Fits(w, "FailClaim", "Failed", unheard)
  BY <1>4, FitsNow, GivesUp, Zenon
<1> QED
  BY <1>1, <1>2, <1>3, <1>4, <1>5, FitsLater, TurnKeeps, Zenon

LEMMA HeartbeatKeeps ==
  ASSUME WorkerInv, NEW w \in Workers, Heartbeat(w)
  PROVE  WorkerInv'
<1>1. pc[w] = "Heartbeat" /\ Kept
  BY Zenon DEF Heartbeat, StoreCall, ExtendLease, Kept, sandbox, store
<1>2. unheard => unheard'
  BY Zenon DEF Heartbeat, StoreCall, env
<1>3. Turn(w, "Cancel", status[task[w]]) \/ Turn(w, "Supervise", status[task[w]])
  BY Zenon DEF Heartbeat, StoreCall, ExtendLease, Turn, store
<1>4. pc[w] \in Working
  BY <1>1 DEF Working, Supervising
<1>5. Fits(w, "Heartbeat", status[task[w]], unheard)
  BY <1>1, FitsNow, Zenon
<1>6. /\ Fits(w, "Cancel", status[task[w]], unheard)
      /\ Fits(w, "Supervise", status[task[w]], unheard)
  BY <1>5 DEF Fits, Sound, RunSound, Working, Begun, Filled, Supervising, Fresh, Ended, Closing,
              Giving, After, Reported
<1> QED
  BY <1>1, <1>2, <1>3, <1>4, <1>6, FitsLater, TurnKeeps, Zenon

(* The outcome is written, and only a lost answer makes its writer go on   *)
(* to discard the output of a success.                                     *)
LEMMA CompleteKeeps ==
  ASSUME WorkerInv, NEW w \in Workers, Complete(w)
  PROVE  WorkerInv'
<1>1. pc[w] = "Complete" /\ Kept
  BY Zenon DEF Complete, StoreCall, EndRun, Kept, locals, sandbox, store
<1>2. unheard => unheard'
  BY Zenon DEF Complete, StoreCall, env
<1>3. \/ Turn(w, AfterOutcome(next[w]), next[w])
      \/ Turn(w, "FailClaim", status[task[w]])
      \/ Turn(w, "FailClaim", next[w]) /\ unheard'
  BY Zenon DEF Complete, StoreCall, EndRun, Turn, store
<1>4. pc[w] \in Working \ Supervising
  BY <1>1, AtWork, Zenon
<1>5. Fits(w, "Complete", status[task[w]], unheard)
  BY <1>1, FitsNow, Zenon
<1>6. /\ Fits(w, AfterOutcome(next[w]), next[w], unheard)
      /\ Fits(w, "FailClaim", status[task[w]], unheard)
      /\ Fits(w, "FailClaim", next[w], TRUE)
  <2>1. Fits(w, AfterOutcome(next[w]), next[w], unheard)
    BY <1>5 DEF Fits, AfterOutcome, Sound, RunSound, Working, Begun, Filled, Supervising, Fresh,
                Ended, Closing, Giving, After, Reported
  <2>2. Fits(w, "FailClaim", status[task[w]], unheard)
    BY <1>5 DEF Fits, Sound, RunSound, Working, Begun, Filled, Supervising, Fresh, Ended,
                Closing, Giving, After, Reported
  <2>3. Fits(w, "FailClaim", next[w], TRUE)
    BY <1>5 DEF Fits, Sound, RunSound, Working, Begun, Filled, Supervising, Fresh, Ended,
                Closing, Giving, After, Reported
  <2> QED
    BY <2>1, <2>2, <2>3, Zenon
<1>7. unheard' => Fits(w, "FailClaim", next[w], unheard')
  BY <1>6, Excused, Zenon DEF Fits
<1> QED
  BY <1>1, <1>2, <1>3, <1>4, <1>6, <1>7, FitsLater, TurnKeeps, Zenon

(* The steps that change something else of the process or its run. *)
LEMMA LocalStep ==
  ASSUME WorkerInv, NEW w \in Workers, pc[w] \in Working, UNCHANGED <<task, status>>,
         NEW label, pc' = pc \/ Go(w, label), unheard => unheard',
         NEW c, container' = container \/ container' = [container EXCEPT ![task[w]] = c],
         NEW o, output' = output \/ output' = [output EXCEPT ![task[w]] = o],
         NEW a, artifacts' = artifacts \/ artifacts' = [artifacts EXCEPT ![task[w]] = a],
         NEW b, box' = box \/ box' = [box EXCEPT ![w] = b],
         NEW res, result' = result \/ result' = [result EXCEPT ![w] = res],
         NEW n, next' = next \/ next' = [next EXCEPT ![w] = n],
         WorkSound(w)', RunsSound(task[w])'
  PROVE  WorkerInv'
<1>1. DOMAIN pc' = Workers /\ \A v \in Workers : v # w => pc'[v] = pc[v]
  BY Zenon DEF Go, WorkerInv, Shape
<1>2. /\ DOMAIN container' = Runs /\ DOMAIN output' = Runs /\ DOMAIN artifacts' = Runs
      /\ \A x \in Runs : x # task[w] =>
           container'[x] = container[x] /\ output'[x] = output[x] /\ artifacts'[x] = artifacts[x]
  BY Zenon DEF WorkerInv, Shape
<1>3. /\ DOMAIN box' = Workers /\ DOMAIN result' = Workers /\ DOMAIN next' = Workers
      /\ \A v \in Workers : v # w =>
           box'[v] = box[v] /\ result'[v] = result[v] /\ next'[v] = next[v]
  BY Zenon DEF WorkerInv, Shape
<1>4. LocalTo(w)
  BY <1>1, <1>2, <1>3, Zenon DEF LocalTo, OthersAlone, Touches, WorkerInv, Shape
<1> QED
  BY <1>4, LocalKeeps, Zenon

LEMMA JudgeKeeps ==
  ASSUME WorkerInv, NEW w \in Workers, Judge(w)
  PROVE  WorkerInv'
<1>1. /\ pc[w] = "Judge" /\ UNCHANGED <<task, status, container, output, artifacts, box, result>>
  BY Zenon DEF Judge, StoreCall, sandbox, store
<1>2. unheard => unheard'
  BY Zenon DEF Judge, StoreCall, env
<1>3. PICK label \in {"FailClaim", Verdict(intent[task[w]], result[w])} : Go(w, label)
  BY Zenon DEF Judge, StoreCall
<1>4. PICK n : n = IF result[w] = "TimedOut" THEN "TimedOut" ELSE "Failed"
  BY Zenon
<1>5. next' = [next EXCEPT ![w] = n]
  BY <1>4, Zenon DEF Judge
<1>6. pc[w] \in Working
  BY <1>1, AtWork, Zenon
<1>7. pc'[w] = label /\ next'[w] = n
  BY <1>3, <1>5, Zenon DEF Go, WorkerInv, Shape
<1>8. Fits(w, "Judge", status[task[w]], unheard')
  BY <1>1, <1>2, FitsNow, FitsLater, Zenon
<1>9. Sound(label, status[task[w]], container[task[w]], output[task[w]], artifacts[task[w]],
            unheard', box[w], result[w], n)
  BY <1>3, <1>4, <1>8 DEF Fits, Verdict, Sound, Working, Begun, Filled, Supervising, Fresh, Ended,
                          Closing, Giving, After, Reported
<1>10. WorkSound(w)'
  BY <1>1, <1>7, <1>9, Zenon DEF WorkSound
<1>11. RunsSound(task[w])'
  BY <1>1, <1>8, Zenon DEF Fits, RunsSound
<1> QED
  BY <1>1, <1>2, <1>3, <1>5, <1>6, <1>10, <1>11, LocalStep, Zenon

LEMMA ArtifactsKeeps ==
  ASSUME WorkerInv, NEW w \in Workers, Artifacts(w)
  PROVE  WorkerInv'
<1>1. pc[w] = "Artifacts" /\ UNCHANGED <<task, status, container, output, box, result>>
  BY Zenon DEF Artifacts, StoreCall, RecordArtifacts, sandbox, store
<1>2. unheard => unheard'
  BY Zenon DEF Artifacts, StoreCall, env
<1>3. \/ /\ Go(w, "Destroyed") /\ next' = [next EXCEPT ![w] = "Succeeded"]
         /\ artifacts' = [artifacts EXCEPT ![task[w]] = TRUE]
      \/ /\ Go(w, "FailNow") /\ next' = next
         /\ artifacts' = artifacts \/ artifacts' = [artifacts EXCEPT ![task[w]] = TRUE]
  BY Zenon DEF Artifacts, StoreCall, RecordArtifacts, store
<1>4. pc[w] \in Working
  BY <1>1, AtWork, Zenon
<1>5. task[w] \in Runs /\ DOMAIN artifacts = Runs /\ DOMAIN pc = Workers /\ DOMAIN next = Workers
  BY Zenon DEF WorkerInv, Shape
<1>6. \/ pc'[w] = "Destroyed" /\ next'[w] = "Succeeded" /\ artifacts'[task[w]] = TRUE
      \/ /\ pc'[w] = "FailNow" /\ next'[w] = next[w]
         /\ artifacts'[task[w]] = artifacts[task[w]] \/ artifacts'[task[w]] = TRUE
  BY <1>3, <1>5, Zenon DEF Go
<1>7. Fits(w, "Artifacts", status[task[w]], unheard')
  BY <1>1, <1>2, FitsNow, FitsLater, Zenon
<1>8. /\ Sound(pc'[w], status[task[w]], container[task[w]], output[task[w]],
               artifacts'[task[w]], unheard', box[w], result[w], next'[w])
      /\ RunSound(status[task[w]], container[task[w]], output[task[w]], artifacts'[task[w]], unheard')
  BY <1>6, <1>7 DEF Fits, Sound, RunSound, Working, Begun, Filled, Supervising, Fresh, Ended,
                    Closing, Giving, After, Reported
<1>9. WorkSound(w)' /\ RunsSound(task[w])'
  BY <1>1, <1>8, Zenon DEF WorkSound, RunsSound
<1> QED
  BY <1>1, <1>2, <1>3, <1>4, <1>9, LocalStep, Zenon

LEMMA LaunchKeeps ==
  ASSUME WorkerInv, NEW w \in Workers, Launch(w)
  PROVE  WorkerInv'
<1>1. pc[w] = "Launch" /\ UNCHANGED <<task, status, container, output, artifacts, result, next, unheard>>
  BY Zenon DEF Launch, store, env
<1>2. \/ Go(w, "FailThen") /\ box' = box
      \/ Go(w, "Supervise") /\ box' = [box EXCEPT ![w] = "Starting"]
  BY Zenon DEF Launch
<1>3. pc[w] \in Working
  BY <1>1, AtWork, Zenon
<1>4. \/ pc'[w] = "FailThen" /\ box'[w] = box[w]
      \/ pc'[w] = "Supervise" /\ box'[w] = "Starting"
  BY <1>2, Zenon DEF Go, WorkerInv, Shape
<1>5. Fits(w, "Launch", status[task[w]], unheard)
  BY <1>1, FitsNow, Zenon
<1>6. Sound(pc'[w], status[task[w]], container[task[w]], output[task[w]],
            artifacts[task[w]], unheard, box'[w], result[w], next[w])
  BY <1>4, <1>5, ZenonT(60) DEF Fits, Sound, Working, Begun, Filled, Supervising, Fresh, Ended,
                    Closing, Giving, After, Reported
<1>7. WorkSound(w)'
  BY <1>1, <1>6, Zenon DEF WorkSound
<1>8. RunsSound(task[w])' /\ (unheard => unheard')
  BY <1>1, <1>5, Zenon DEF Fits, RunsSound
<1> QED
  BY <1>1, <1>2, <1>3, <1>7, <1>8, LocalStep, Zenon

LEMMA SuperviseKeeps ==
  ASSUME WorkerInv, NEW w \in Workers, Supervise(w)
  PROVE  WorkerInv'
<1>1. pc[w] = "Supervise" /\ UNCHANGED <<task, status, container, output, artifacts, result, next, unheard>>
  BY Zenon DEF Supervise, store, locals, env
<1>2. \/ box[w] = "Returned" /\ box' = [box EXCEPT ![w] = "None"]
           /\ (Go(w, "FailThen") \/ Go(w, "Finish"))
      \/ box' = box /\ Go(w, "Heartbeat")
  BY Zenon DEF Supervise
<1>3. pc[w] \in Working
  BY <1>1 DEF Working, Supervising
<1>4. \/ box[w] = "Returned" /\ pc'[w] \in {"FailThen", "Finish"} /\ box'[w] = "None"
      \/ pc'[w] = "Heartbeat" /\ box'[w] = box[w]
  BY <1>2, Zenon DEF Go, WorkerInv, Shape
<1>5. Fits(w, "Supervise", status[task[w]], unheard)
  BY <1>1, FitsNow, Zenon
<1>6. Sound(pc'[w], status[task[w]], container[task[w]], output[task[w]],
            artifacts[task[w]], unheard, box'[w], result[w], next[w])
  BY <1>4, <1>5, ZenonT(60) DEF Fits, Sound, Working, Begun, Filled, Supervising, Fresh, Ended,
                    Closing, Giving, After, Reported
<1>7. WorkSound(w)'
  BY <1>1, <1>6, Zenon DEF WorkSound
<1>8. RunsSound(task[w])' /\ (unheard => unheard')
  BY <1>1, <1>5, Zenon DEF Fits, RunsSound
<1> QED
  BY <1>1, <1>2, <1>3, <1>7, <1>8, LocalStep, Zenon

LEMMA CancelKeeps ==
  ASSUME WorkerInv, NEW w \in Workers, Cancel(w)
  PROVE  WorkerInv'
<1>1. pc[w] = "Cancel" /\ UNCHANGED <<task, status, output, artifacts, result, next, unheard>>
  BY Zenon DEF Cancel, store, env
<1>2. /\ Go(w, "Supervise")
      /\ \/ /\ box[w] = "Active" /\ box' = [box EXCEPT ![w] = "Killed"]
            /\ container' = [container EXCEPT ![task[w]] = "Down"]
         \/ box' = box /\ container' = container
  BY Zenon DEF Cancel
<1>3. pc[w] \in Working
  BY <1>1 DEF Working, Supervising
<1>4. /\ pc'[w] = "Supervise"
      /\ \/ box[w] = "Active" /\ box'[w] = "Killed" /\ container'[task[w]] = "Down"
         \/ box'[w] = box[w] /\ container'[task[w]] = container[task[w]]
  BY <1>2, Zenon DEF Go, WorkerInv, Shape
<1>5. Fits(w, "Cancel", status[task[w]], unheard)
  BY <1>1, FitsNow, Zenon
<1>6. /\ Sound(pc'[w], status[task[w]], container'[task[w]], output[task[w]],
               artifacts[task[w]], unheard, box'[w], result[w], next[w])
      /\ RunSound(status[task[w]], container'[task[w]], output[task[w]], artifacts[task[w]], unheard)
  BY <1>4, <1>5, ZenonT(60) DEF Fits, Sound, RunSound, Working, Begun, Filled, Supervising, Fresh, Ended,
                    Closing, Giving, After, Reported
<1>7. WorkSound(w)' /\ RunsSound(task[w])' /\ (unheard => unheard')
  BY <1>1, <1>6, Zenon DEF WorkSound, RunsSound
<1> QED
  BY <1>1, <1>2, <1>3, <1>7, LocalStep, Zenon

LEMMA BoxStartKeeps ==
  ASSUME WorkerInv, NEW w \in Workers, BoxStart(w)
  PROVE  WorkerInv'
<1>1. /\ box[w] = "Starting"
      /\ UNCHANGED <<pc, task, status, output, artifacts, next, unheard>>
  BY Zenon DEF BoxStart, store, locals, env
<1>2. \/ /\ box' = [box EXCEPT ![w] = "Active"] /\ result' = result
         /\ container' = [container EXCEPT ![task[w]] = "Up"]
      \/ /\ box' = [box EXCEPT ![w] = "Returned"] /\ container' = container
         /\ \E res \in {"Failed", "Error"} : result' = [result EXCEPT ![w] = res]
  BY Zenon DEF BoxStart
<1>3. pc[w] \in Supervising
  BY <1>1, ZenonT(60) DEF WorkerInv, WorkSound, Sound
<1>4. \/ box'[w] = "Active" /\ container'[task[w]] = "Up" /\ result'[w] = result[w]
      \/ /\ box'[w] = "Returned" /\ container'[task[w]] = container[task[w]]
         /\ result'[w] \in {"Failed", "Error"}
  BY <1>2, Zenon DEF WorkerInv, Shape
<1>5. Fits(w, pc[w], status[task[w]], unheard)
  BY FitsNow, Zenon
<1>6. /\ Sound(pc[w], status[task[w]], container'[task[w]], output[task[w]],
               artifacts[task[w]], unheard, box'[w], result'[w], next[w])
      /\ RunSound(status[task[w]], container'[task[w]], output[task[w]], artifacts[task[w]], unheard)
  BY <1>1, <1>3, <1>4, <1>5, ZenonT(60) DEF Fits, Sound, RunSound, Working, Begun, Filled, Supervising, Fresh,
                                Ended, Closing, Giving, After, Reported
<1>7. WorkSound(w)' /\ RunsSound(task[w])' /\ (unheard => unheard')
  BY <1>1, <1>6, Zenon DEF WorkSound, RunsSound
<1>8. pc[w] \in Working
  BY <1>3 DEF Working
<1> QED
  BY <1>1, <1>2, <1>7, <1>8, LocalStep, Zenon

LEMMA BoxEndKeeps ==
  ASSUME WorkerInv, NEW w \in Workers, BoxEnd(w)
  PROVE  WorkerInv'
<1>1. /\ box[w] \in {"Active", "Killed"}
      /\ UNCHANGED <<pc, task, status, output, artifacts, next, unheard>>
  BY Zenon DEF BoxEnd, store, locals, env
<1>2. PICK e \in Endings(box[w] = "Killed") :
        result' = [result EXCEPT ![w] = e[1]] /\ container' = [container EXCEPT ![task[w]] = e[2]]
  BY Zenon DEF BoxEnd
<1>3. box' = [box EXCEPT ![w] = "Returned"]
  BY Zenon DEF BoxEnd
<1>4. e[1] \in {"Failed", "Error"} \/ e[2] = "Down"
  BY <1>2 DEF Endings
<1>5. pc[w] \in Supervising
  BY <1>1 DEF WorkerInv, WorkSound, Sound
<1>6. box'[w] = "Returned" /\ container'[task[w]] = e[2] /\ result'[w] = e[1]
  BY <1>2, <1>3, Zenon DEF WorkerInv, Shape
<1>7. Fits(w, pc[w], status[task[w]], unheard)
  BY FitsNow, Zenon
<1>8. /\ Sound(pc[w], status[task[w]], container'[task[w]], output[task[w]],
               artifacts[task[w]], unheard, box'[w], result'[w], next[w])
      /\ RunSound(status[task[w]], container'[task[w]], output[task[w]], artifacts[task[w]], unheard)
  BY <1>1, <1>4, <1>5, <1>6, <1>7, Zenon
     DEF Fits, Sound, RunSound, Working, Begun, Filled, Supervising, Fresh,
         Ended, Closing, Giving, After, Reported
<1>9. WorkSound(w)' /\ RunsSound(task[w])' /\ (unheard => unheard')
  BY <1>1, <1>8, Zenon DEF WorkSound, RunsSound
<1>10. pc[w] \in Working
  BY <1>5 DEF Working
<1> QED
  BY <1>1, <1>2, <1>3, <1>9, <1>10, LocalStep, Zenon

LEMMA PrepareKeeps ==
  ASSUME WorkerInv, NEW w \in Workers, Prepare(w)
  PROVE  WorkerInv'
<1>1. /\ pc[w] = "Prepare"
      /\ UNCHANGED <<task, status, container, artifacts, box, result, next, unheard>>
  BY Zenon DEF Prepare, store, locals, sandbox
<1>2. \/ /\ output' = [output EXCEPT ![task[w]] = TRUE]
         /\ \E label \in {"Start", "FailClaim", "FailNow"} : Go(w, label)
      \/ /\ \E made \in BOOLEAN : output' = [output EXCEPT ![task[w]] = made]
         /\ Go(w, "Abandon")
  BY Zenon DEF Prepare
<1>3. pc[w] \in Working
  BY <1>1, AtWork, Zenon
<1>4. \/ pc'[w] \in {"Start", "FailClaim", "FailNow"} /\ output'[task[w]] = TRUE
      \/ pc'[w] = "Abandon"
  BY <1>2, Zenon DEF Go, WorkerInv, Shape
<1>5. Fits(w, "Prepare", status[task[w]], unheard)
  BY <1>1, FitsNow, Zenon
<1>6. /\ Sound(pc'[w], status[task[w]], container[task[w]], output'[task[w]],
               artifacts[task[w]], unheard, box[w], result[w], next[w])
      /\ RunSound(status[task[w]], container[task[w]], output'[task[w]], artifacts[task[w]], unheard)
  BY <1>4, <1>5 DEF Fits, Sound, RunSound, Working, Begun, Filled, Supervising, Fresh, Ended,
                    Closing, Giving, After, Reported
<1>7. WorkSound(w)' /\ RunsSound(task[w])' /\ (unheard => unheard')
  BY <1>1, <1>6, Zenon DEF WorkSound, RunsSound
<1> QED
  BY <1>1, <1>2, <1>3, <1>7, LocalStep, Zenon

LEMMA DiscardKeeps ==
  ASSUME WorkerInv, NEW w \in Workers, Discard(w)
  PROVE  WorkerInv'
<1>1. /\ pc[w] = "Discard" /\ Go(w, "Loop")
      /\ UNCHANGED <<task, status, container, artifacts, box, result, next, unheard>>
  BY Zenon DEF Discard, store, locals, sandbox
<1>2. output' = output \/ output' = [output EXCEPT ![task[w]] = FALSE]
  BY Zenon DEF Discard
<1>3. pc[w] \in Working
  BY <1>1, AtWork, Zenon
<1>4. pc'[w] = "Loop"
  BY <1>1, Zenon DEF Go, WorkerInv, Shape
<1>5. Fits(w, "Discard", status[task[w]], unheard)
  BY <1>1, FitsNow, Zenon
<1>6. /\ Sound(pc'[w], status[task[w]], container[task[w]], output'[task[w]],
               artifacts[task[w]], unheard, box[w], result[w], next[w])
      /\ RunSound(status[task[w]], container[task[w]], output'[task[w]], artifacts[task[w]], unheard)
  BY <1>4, <1>5 DEF Fits, Sound, RunSound, Working, Begun, Filled, Supervising, Fresh, Ended,
                    Closing, Giving, After, Reported
<1>7. WorkSound(w)' /\ RunsSound(task[w])' /\ (unheard => unheard')
  BY <1>1, <1>6, Zenon DEF WorkSound, RunsSound
<1> QED
  BY <1>1, <1>2, <1>3, <1>7, LocalStep, Zenon

(***************************************************************************)
(* The steps of a process that does not work on a run.                     *)
(***************************************************************************)
LEMMA Rests ==
  ASSUME WorkerInv, NEW w \in Workers, NEW label, Go(w, label), label \notin Working,
         pc[w] \notin Working \/ box' = [box EXCEPT ![w] = "None"],
         box' = box \/ box' = [box EXCEPT ![w] = "None"],
         task' = task \/ \E r \in Runs : task' = [task EXCEPT ![w] = r],
         UNCHANGED <<container, output, artifacts>>, unheard => unheard',
         UNCHANGED <<result, next>> \/ Forget(w),
         status' = status \/ FailExpired
  PROVE  WorkerInv'
<1>1. /\ DOMAIN status' = Runs
      /\ \A x \in Runs : status'[x] = status[x] \/ status'[x] = "Failed"
  BY Zenon DEF FailExpired, WorkerInv, Shape
<1>2. /\ DOMAIN pc' = Workers /\ pc'[w] = label
      /\ DOMAIN task' = Workers /\ \A v \in Workers : task'[v] \in Runs
      /\ \A v \in Workers : v # w => pc'[v] = pc[v] /\ task'[v] = task[v]
  BY Zenon DEF Go, WorkerInv, Shape
<1>3. /\ DOMAIN box' = Workers
      /\ \A v \in Workers : v # w => box'[v] = box[v]
  BY Zenon DEF WorkerInv, Shape
<1>4. box'[w] = "None"
  BY BoxAtWork, Zenon DEF WorkerInv, Shape
<1>7. /\ DOMAIN result' = Workers /\ DOMAIN next' = Workers
      /\ \A v \in Workers : v # w => result'[v] = result[v] /\ next'[v] = next[v]
  BY Zenon DEF Forget, WorkerInv, Shape
<1>5. Shape'
  BY <1>1, <1>2, <1>3, <1>7, Zenon DEF WorkerInv, Shape
<1>6. OthersAlone(w)
  BY <1>2, <1>3, <1>7, Zenon DEF OthersAlone
<1> QED
  BY <1>1, <1>2, <1>4, <1>5, <1>6, RestingKeeps, Zenon

LEMMA AtRest == /\ "Down" \notin Working /\ "Boot" \notin Working
                /\ "Loop" \notin Working /\ "Claim" \notin Working
BY DEF Working, Supervising, Fresh, Ended, Closing, Giving, After

LEMMA BootKeeps ==
  ASSUME WorkerInv, NEW w \in Workers, Boot(w)
  PROVE  WorkerInv'
<1>1. unheard => unheard'
  BY Zenon DEF Boot, StoreCall, env
<1>2. /\ pc[w] = "Boot"
      /\ UNCHANGED <<box, task, container, output, artifacts, result, next>>
      /\ status' = status \/ FailExpired
      /\ Go(w, "Loop") \/ Go(w, "Down")
  BY Zenon DEF Boot, StoreCall, FailExpired, store, locals, sandbox
<1> QED
  BY <1>1, <1>2, AtRest, Rests, Zenon

LEMMA LoopKeeps ==
  ASSUME WorkerInv, NEW w \in Workers, Loop(w)
  PROVE  WorkerInv'
<1>1. /\ pc[w] = "Loop" /\ (unheard => unheard')
      /\ UNCHANGED <<box, task, container, output, artifacts, result, next>>
      /\ status' = status \/ FailExpired
      /\ Go(w, "Claim")
  BY Zenon DEF Loop, StoreCall, FailExpired, store, env, locals, sandbox
<1> QED
  BY <1>1, AtRest, Rests, Zenon

LEMMA RestartKeeps ==
  ASSUME WorkerInv, NEW w \in Workers, Restart(w)
  PROVE  WorkerInv'
<1>1. /\ pc[w] = "Down" /\ (unheard => unheard')
      /\ UNCHANGED <<status, box, task, container, output, artifacts, result, next>>
      /\ Go(w, "Boot")
  BY Zenon DEF Restart, store, env, locals, sandbox
<1> QED
  BY <1>1, AtRest, Rests, Zenon

(* A crash takes the sandbox thread with it and leaves the run as it is. *)
LEMMA CrashKeeps ==
  ASSUME WorkerInv, NEW w \in Workers, Crash(w)
  PROVE  WorkerInv'
<1>1. /\ (unheard => unheard') /\ box' = [box EXCEPT ![w] = "None"]
      /\ UNCHANGED <<status, task, container, output, artifacts>> /\ Forget(w)
      /\ Go(w, "Down")
  BY Zenon DEF Crash, store
<1> QED
  BY <1>1, AtRest, Rests, Zenon

(* A claim takes a queued run, on which nobody works. *)
LEMMA ClaimKeeps ==
  ASSUME WorkerInv, NEW w \in Workers, Claim(w)
  PROVE  WorkerInv'
<1>1. /\ pc[w] = "Claim"
      /\ UNCHANGED <<box, container, output, artifacts>> /\ Forget(w)
  BY Zenon DEF Claim, StoreCall, ClaimRun, store
<1>6. /\ DOMAIN result' = Workers /\ DOMAIN next' = Workers
      /\ \A v \in Workers : v # w => result'[v] = result[v] /\ next'[v] = next[v]
  BY <1>1, Zenon DEF Forget, WorkerInv, Shape
<1>5. unheard => unheard'
  BY Zenon DEF Claim, StoreCall, env
<1>2. \/ /\ Go(w, "Loop") /\ status' = status
         /\ task' = task \/ \E r \in Runs : task' = [task EXCEPT ![w] = r]
      \/ \E r \in Runs : /\ status[r] = "Queued" /\ status' = [status EXCEPT ![r] = "Planning"]
                         /\ task' = [task EXCEPT ![w] = r]
                         /\ \E label \in {"Prepare", "Unprompted", "Loop"} : Go(w, label)
  BY Zenon DEF Claim, StoreCall, ClaimRun, store
<1>3. CASE /\ Go(w, "Loop") /\ status' = status
           /\ task' = task \/ \E r \in Runs : task' = [task EXCEPT ![w] = r]
  BY <1>1, <1>3, <1>5, AtRest, Rests, Zenon
<1>4. CASE \E r \in Runs : /\ status[r] = "Queued" /\ status' = [status EXCEPT ![r] = "Planning"]
                           /\ task' = [task EXCEPT ![w] = r]
                           /\ \E label \in {"Prepare", "Unprompted", "Loop"} : Go(w, label)
  <2>1. PICK r \in Runs : /\ status[r] = "Queued" /\ status' = [status EXCEPT ![r] = "Planning"]
                          /\ task' = [task EXCEPT ![w] = r]
                          /\ \E label \in {"Prepare", "Unprompted", "Loop"} : Go(w, label)
    BY <1>4, Zenon
  <2>2. PICK label \in {"Prepare", "Unprompted", "Loop"} : Go(w, label)
    BY <2>1, Zenon
  <2>3. /\ DOMAIN status' = Runs /\ status'[r] = "Planning"
        /\ \A x \in Runs : x # r => status'[x] = status[x]
    BY <2>1, Zenon DEF WorkerInv, Shape
  <2>4. /\ DOMAIN pc' = Workers /\ pc'[w] = label /\ DOMAIN task' = Workers /\ task'[w] = r
        /\ \A v \in Workers : v # w => pc'[v] = pc[v] /\ task'[v] = task[v]
    BY <2>1, <2>2, Zenon DEF Go, WorkerInv, Shape
  <2>5. LocalTo(w)
    BY <1>1, <1>5, <1>6, <2>3, <2>4, Zenon DEF LocalTo, OthersAlone, Touches, WorkerInv, Shape
  <2>6. container[r] = "None" /\ box[w] = "None"
    BY <1>1, <2>1, AtRest, BoxAtWork, Zenon DEF WorkerInv, RunsSound, RunSound
  <2>7. /\ Sound(label, "Planning", container[r], output[r], artifacts[r], unheard', box[w],
                 result'[w], next'[w])
        /\ RunSound("Planning", container[r], output[r], artifacts[r], unheard')
    BY <2>2, <2>6 DEF Sound, RunSound, Working, Begun, Filled, Supervising, Fresh, Ended, Closing,
                      Giving, After, Reported
  <2>8. WorkSound(w)' /\ RunsSound(task[w])'
    BY <1>1, <2>3, <2>4, <2>7, Zenon DEF WorkSound, RunsSound
  <2> QED
    BY <2>1, <2>4, <2>5, <2>8, LocalKeeps, Zenon
<1> QED
  BY <1>2, <1>3, <1>4, Zenon

(***************************************************************************)
(* The environment.                                                        *)
(***************************************************************************)

LEMMA Untouched ==
  ASSUME WorkerInv,
         UNCHANGED <<status, pc, task, container, output, artifacts, box, result, next, unheard>>
  PROVE  WorkerInv'
BY Zenon DEF WorkerInv, Shape, Apart, WorkSound, RunsSound

(* The request ends a queued run, on which nobody works. *)
LEMMA RequestCancelKeeps ==
  ASSUME WorkerInv, NEW r \in Runs, RequestCancel(r)
  PROVE  WorkerInv'
<1>1. UNCHANGED <<pc, task, container, output, artifacts, box, result, next, unheard>>
  BY Zenon DEF RequestCancel, EndRun, locals, sandbox, env
<1>2. CASE status' = status
  BY <1>1, <1>2, Untouched, Zenon
<1>3. CASE status[r] = "Queued" /\ status' = [status EXCEPT ![r] = "Cancelled"]
  <2>1. /\ DOMAIN status' = Runs /\ status'[r] = "Cancelled"
        /\ \A x \in Runs : x # r => status'[x] = status[x]
    BY <1>3, Zenon DEF WorkerInv, Shape
  <2>2. Shape' /\ Apart'
    BY <1>1, <2>1, Zenon DEF WorkerInv, Shape, Apart
  <2>3. ASSUME NEW v \in Workers PROVE WorkSound(v)'
    <3>1. CASE pc[v] \in Working
      <4>1. task[v] # r /\ task[v] \in Runs
        BY <1>3, <3>1, ZenonT(60) DEF WorkerInv, Shape, WorkSound, Sound
      <4> QED
        BY <1>1, <2>1, <4>1, Zenon DEF WorkerInv, WorkSound
    <3>2. CASE pc[v] \notin Working
      <4>1. box'[v] = "None" /\ pc'[v] \notin Working
        BY <1>1, <3>2, BoxAtWork, Zenon
      <4> QED
        BY <4>1, Resting, Zenon DEF WorkSound
    <3> QED
      BY <3>1, <3>2, Zenon
  <2>4. container[r] = "None"
    BY <1>3, Zenon DEF WorkerInv, RunsSound, RunSound
  <2>5. RunSound("Cancelled", container[r], output[r], artifacts[r], unheard)
    BY <2>4 DEF RunSound, Reported
  <2>6. ASSUME NEW x \in Runs PROVE RunsSound(x)'
    <3>1. CASE x = r
      BY <1>1, <2>1, <2>5, <3>1, Zenon DEF RunsSound
    <3>2. CASE x # r
      BY <1>1, <2>1, <3>2, Zenon DEF WorkerInv, RunsSound
    <3> QED
      BY <3>1, <3>2, Zenon
  <2> QED
    BY <2>2, <2>3, <2>6, Zenon DEF WorkerInv
<1> QED
  BY <1>2, <1>3, Zenon DEF RequestCancel, EndRun

LEMMA TickKeeps ==
  ASSUME WorkerInv, Tick
  PROVE  WorkerInv'
<1>1. UNCHANGED <<status, pc, task, container, output, artifacts, box, result, next, unheard>>
  BY Zenon DEF Tick, locals, sandbox, env
<1> QED
  BY <1>1, Untouched, Zenon

LEMMA InitSound == Init => WorkerInv
<1> SUFFICES ASSUME Init PROVE WorkerInv
  OBVIOUS
<1>1. ASSUME NEW w \in Workers PROVE task[w] \in Runs
  BY WorkerAssumption, Zenon DEF Init
<1>2. Shape
  BY <1>1, Zenon DEF Init, Shape
<1>3. ASSUME NEW w \in Workers PROVE pc[w] \notin Working /\ box[w] = "None"
  BY AtRest, Zenon DEF Init
<1>4. Apart
  BY <1>3, Zenon DEF Apart
<1>5. ASSUME NEW w \in Workers PROVE WorkSound(w)
  BY <1>3, Resting, Zenon DEF WorkSound
<1>6. ASSUME NEW r \in Runs PROVE RunsSound(r)
  BY DEF Init, RunsSound, RunSound, Reported
<1> QED
  BY <1>2, <1>4, <1>5, <1>6, Zenon DEF WorkerInv

LEMMA ServiceKeeps ==
  ASSUME WorkerInv, NEW w \in Workers, Service(w)
  PROVE  WorkerInv'
<1>1. CASE Boot(w) \/ Loop(w) \/ Claim(w) \/ Unprompted(w) \/ Prepare(w) \/ Abandon(w)
  BY <1>1, BootKeeps, LoopKeeps, ClaimKeeps, UnpromptedKeeps, PrepareKeeps, AbandonKeeps, Zenon
<1>2. CASE Start(w) \/ Begin(w) \/ Recheck(w) \/ Launch(w) \/ Supervise(w) \/ Heartbeat(w)
  BY <1>2, StartKeeps, BeginKeeps, RecheckKeeps, LaunchKeeps, SuperviseKeeps, HeartbeatKeeps, Zenon
<1>3. CASE Cancel(w) \/ Finish(w) \/ Judge(w) \/ Exited(w) \/ Artifacts(w) \/ Destroyed(w)
  BY <1>3, CancelKeeps, FinishKeeps, JudgeKeeps, ExitedKeeps, ArtifactsKeeps, DestroyedKeeps, Zenon
<1>4. CASE Complete(w) \/ Confirm(w) \/ FailNow(w) \/ FailThen(w) \/ FailClaim(w) \/ Discard(w)
  BY <1>4, CompleteKeeps, ConfirmKeeps, FailNowKeeps, FailThenKeeps, FailClaimKeeps, DiscardKeeps,
     Zenon
<1> QED
  BY <1>1, <1>2, <1>3, <1>4, Zenon DEF Service

LEMMA NextKeeps == WorkerInv /\ [Next]_vars => WorkerInv'
<1> SUFFICES ASSUME WorkerInv, [Next]_vars PROVE WorkerInv'
  OBVIOUS
<1>1. ASSUME NEW w \in Workers, Service(w) PROVE WorkerInv'
  BY <1>1, ServiceKeeps, Zenon
<1>2. ASSUME NEW w \in Workers, Box(w) PROVE WorkerInv'
  BY <1>2, BoxStartKeeps, BoxEndKeeps, Zenon DEF Box
<1>3. ASSUME NEW w \in Workers, Crash(w) \/ Restart(w) PROVE WorkerInv'
  BY <1>3, CrashKeeps, RestartKeeps, Zenon
<1>4. CASE UNCHANGED vars
  BY <1>4, Untouched, Zenon DEF vars, store, locals, sandbox, env
<1> QED
  BY <1>1, <1>2, <1>3, <1>4, RequestCancelKeeps, TickKeeps, Zenon DEF Next

(* The worker service keeps its inductive invariant: one process at a time *)
(* works on a run, and knows where it stands.                              *)
THEOREM WorkerCorrect == Spec => []WorkerInv
BY InitSound, NextKeeps, PTL DEF Spec

(* No run that is reported as succeeded, timed out or cancelled has a      *)
(* container that may still be running.                                    *)
THEOREM ReportedEndsAreReal == Spec => []ReportedEndIsReal
<1>1. WorkerInv => ReportedEndIsReal
  BY Zenon DEF WorkerInv, RunsSound, RunSound, Reported, ReportedEndIsReal
<1> QED
  BY <1>1, WorkerCorrect, PTL

(* A success whose answer was heard has its artifacts and its output. *)
THEOREM SuccessesAreBacked == Spec => []SuccessIsBacked
<1>1. WorkerInv => SuccessIsBacked
  BY Zenon DEF WorkerInv, RunsSound, RunSound, SuccessIsBacked
<1> QED
  BY <1>1, WorkerCorrect, PTL

(***************************************************************************)
(* What a step does to the containers and to the intent to cancel.         *)
(***************************************************************************)
Started == {"Launch"} \cup Supervising

(* A step of w that starts nothing. *)
Onward(w) ==
  /\ UNCHANGED <<intent, task, container>>
  /\ \/ status' = status \/ FailExpired
     \/ \E s : s # "Queued" /\ status' = [status EXCEPT ![task[w]] = s]
  /\ \E label : label \notin Started /\ Go(w, label)

(* A step of w around its sandbox. *)
Sandboxing(w) ==
  /\ pc[w] \in Started
  /\ UNCHANGED <<intent, task, status>>
  /\ pc' = pc \/ \E label : Go(w, label)
  /\ container' = container \/ \E c : container' = [container EXCEPT ![task[w]] = c]

LEMMA ServiceIsOnward ==
  ASSUME WorkerInv, NEW w \in Workers,
         \/ Boot(w) \/ Loop(w) \/ Restart(w) \/ Crash(w)
         \/ Unprompted(w) \/ Prepare(w) \/ Abandon(w) \/ FailClaim(w) \/ Discard(w)
         \/ Start(w) \/ Begin(w) \/ Finish(w) \/ Judge(w) \/ Exited(w) \/ Artifacts(w)
         \/ Destroyed(w) \/ Complete(w) \/ Confirm(w) \/ FailNow(w) \/ FailThen(w)
  PROVE  Onward(w)
<1>1. \A l \in {"Boot", "Loop", "Claim", "Down", "Unprompted", "Prepare", "Abandon", "FailClaim",
                "Discard", "Start", "Begin", "Recheck", "Finish", "Judge", "Exited", "Artifacts",
                "Destroyed", "Complete", "Confirm", "FailNow", "FailThen"} : l \notin Started
  BY DEF Started, Supervising
<1>2. "Failed" # "Queued" /\ "Running" # "Queued" /\ "Cancelled" # "Queued"
  OBVIOUS
<1>3. CASE Boot(w) \/ Loop(w) \/ Restart(w) \/ Crash(w)
  BY <1>1, <1>3, Zenon DEF Boot, Loop, Restart, Crash, StoreCall, FailExpired, Onward,
                           store, locals, sandbox
<1>4. CASE Unprompted(w) \/ Abandon(w) \/ FailClaim(w)
  BY <1>1, <1>2, <1>4, Zenon DEF Unprompted, Abandon, FailClaim, StoreCall, EndRun, Onward,
                                 store, locals, sandbox
<1>5. CASE Prepare(w) \/ Discard(w)
  BY <1>1, <1>5, Zenon DEF Prepare, Discard, Onward, store, locals, sandbox
<1>6. CASE Start(w) \/ Begin(w)
  BY <1>1, <1>2, <1>6, Zenon DEF Start, Begin, StoreCall, SetStatus, Onward,
                                 store, locals, sandbox
<1>7. CASE Finish(w) \/ Destroyed(w)
  BY <1>1, <1>7, Zenon DEF Finish, Destroyed, StoreCall, Onward, store, locals, sandbox
<1>8. CASE Exited(w) \/ Artifacts(w)
  BY <1>1, <1>8, Zenon DEF Exited, Artifacts, StoreCall, RecordArtifacts, Onward,
                           store, locals, sandbox
<1>9. CASE Judge(w)
  <2>1. Verdict(intent[task[w]], result[w]) \in {"Confirm", "FailNow", "Exited", "Destroyed"}
    BY DEF Verdict
  <2> QED
    BY <1>1, <1>9, <2>1, Zenon DEF Judge, StoreCall, Onward, store, sandbox
<1>10. CASE Complete(w)
  <2>1. AfterOutcome(next[w]) \in {"Loop", "Discard"}
    BY Zenon DEF AfterOutcome
  <2>2. next[w] # "Queued"
    <3>1. pc[w] \in Closing
      BY <1>10, Zenon DEF Complete, Closing
    <3> QED
      BY <3>1, Zenon DEF WorkerInv, WorkSound, Sound
  <2> QED
    BY <1>1, <1>10, <2>1, <2>2, Zenon DEF Complete, StoreCall, EndRun, Onward,
                                          store, locals, sandbox
<1>11. CASE Confirm(w) \/ FailNow(w) \/ FailThen(w)
  <2>1. \A s : AfterOutcome(s) \in {"Loop", "Discard"}
    BY Zenon DEF AfterOutcome
  <2> QED
    BY <1>1, <1>2, <1>11, <2>1, Zenon DEF Confirm, FailNow, FailThen, StoreCall, EndRun, Onward,
                                          store, locals, sandbox
<1> QED
  BY <1>3, <1>4, <1>5, <1>6, <1>7, <1>8, <1>9, <1>10, <1>11, Zenon

LEMMA SandboxSteps ==
  ASSUME WorkerInv, NEW w \in Workers,
         Launch(w) \/ Supervise(w) \/ Heartbeat(w) \/ Cancel(w) \/ BoxStart(w) \/ BoxEnd(w)
  PROVE  Sandboxing(w)
<1>1. {"Launch", "Supervise", "Heartbeat", "Cancel"} \subseteq Started /\ Supervising \subseteq Started
  BY DEF Started, Supervising
<1>2. CASE Launch(w) \/ Supervise(w) \/ Cancel(w)
  BY <1>1, <1>2, Zenon DEF Launch, Supervise, Cancel, Sandboxing, store, locals
<1>3. CASE Heartbeat(w)
  BY <1>1, <1>3, Zenon DEF Heartbeat, StoreCall, ExtendLease, Sandboxing, store, sandbox
<1>4. CASE BoxStart(w) \/ BoxEnd(w)
  <2>1. box[w] # "None"
    BY <1>4 DEF BoxStart, BoxEnd
  <2>2. pc[w] \in Started
    BY <1>1, <2>1, Zenon DEF WorkerInv, WorkSound, Sound
  <2> QED
    BY <1>4, <2>2, Zenon DEF BoxStart, BoxEnd, Sandboxing, store, locals
<1> QED
  BY <1>2, <1>3, <1>4, Zenon

LEMMA Steps ==
  ASSUME WorkerInv, [Next]_vars
  PROVE  \/ \E w \in Workers : Onward(w) \/ Sandboxing(w) \/ Claim(w) \/ Recheck(w)
         \/ \E r \in Runs : RequestCancel(r)
         \/ UNCHANGED <<status, intent, task, pc, container>>
<1>1. CASE \E w \in Workers : Service(w) \/ Box(w) \/ Crash(w) \/ Restart(w)
  BY <1>1, ServiceIsOnward, SandboxSteps, Zenon DEF Service, Box
<1>2. CASE Tick \/ UNCHANGED vars
  BY <1>2, Zenon DEF Tick, vars, store, locals, sandbox
<1> QED
  BY <1>1, <1>2, Zenon DEF Next

(* Nothing is executed twice: a container is started only where there was  *)
(* none, whatever happened to the process that claimed the run.            *)
THEOREM RunsExecuteOnce == Spec => ExecutedOnce
<1> DEFINE Once == \A r \in Runs : container[r] # "Up" /\ container'[r] = "Up" => container[r] = "None"
<1>1. ASSUME WorkerInv, [Next]_vars PROVE Once
  <2>1. CASE container' = container
    BY <2>1, Zenon
  <2>2. ASSUME NEW w \in Workers, BoxStart(w) PROVE Once
    <3>1. container[task[w]] = "None"
      BY <1>1, <2>2, ZenonT(30) DEF BoxStart, WorkerInv, WorkSound, Sound
    <3> QED
      BY <1>1, <2>2, <3>1, Zenon DEF BoxStart, WorkerInv, Shape
  <2>3. ASSUME NEW w \in Workers, BoxEnd(w) PROVE Once
    <3>1. PICK e \in Endings(box[w] = "Killed") : container' = [container EXCEPT ![task[w]] = e[2]]
      BY <2>3, Zenon DEF BoxEnd
    <3>2. container[task[w]] = "Up" \/ e[2] = "Down"
      BY <1>1, <2>3, <3>1, ZenonT(60) DEF BoxEnd, Endings, WorkerInv, WorkSound, Sound
    <3>3. "Down" # "Up"
      OBVIOUS
    <3> QED
      BY <1>1, <3>1, <3>2, <3>3, Zenon DEF WorkerInv, Shape
  <2>4. ASSUME NEW w \in Workers, Cancel(w) PROVE Once
    <3>1. "Down" # "Up"
      OBVIOUS
    <3> QED
      BY <1>1, <2>4, <3>1, Zenon DEF Cancel, WorkerInv, Shape
  <2>5. ASSUME NEW w \in Workers,
               Launch(w) \/ Supervise(w) \/ Heartbeat(w) \/ Claim(w) \/ Recheck(w)
        PROVE  container' = container
    BY <2>5, Zenon DEF Launch, Supervise, Heartbeat, Claim, Recheck, sandbox
  <2>6. ASSUME NEW w \in Workers, Onward(w) PROVE container' = container
    BY <2>6, Zenon DEF Onward
  <2>7. ASSUME NEW r \in Runs, RequestCancel(r) PROVE container' = container
    BY <2>7, Zenon DEF RequestCancel, sandbox
  <2>8. CASE Tick \/ UNCHANGED vars
    BY <2>1, <2>8, Zenon DEF Tick, vars, sandbox
  <2>9. ASSUME NEW w \in Workers, Service(w) \/ Box(w) \/ Crash(w) \/ Restart(w) PROVE Once
    BY <1>1, <2>1, <2>2, <2>3, <2>4, <2>5, <2>6, <2>9, ServiceIsOnward, Zenon DEF Service, Box
  <2> QED
    BY <1>1, <2>1, <2>7, <2>8, <2>9, Zenon DEF Next
<1>2. WorkerInv /\ [Next]_vars => [Once]_vars
  BY <1>1, Zenon
<1> QED
  BY <1>2, WorkerCorrect, PTL DEF Spec, ExecutedOnce

(***************************************************************************)
(* A run that is to be cancelled before anybody has started it: it stays   *)
(* so, since the second cancel_requested stands between every process and  *)
(* the sandbox.                                                            *)
(***************************************************************************)
Doomed(r) ==
  /\ intent[r] /\ status[r] # "Queued" /\ container[r] # "Up"
  /\ \A w \in Workers : pc[w] \in Working /\ task[w] = r => pc[w] \notin Started

Intents == DOMAIN intent = Runs

(* An intent, once recorded, is never withdrawn. *)
LEMMA IntentStays ==
  ASSUME WorkerInv, Intents, [Next]_vars
  PROVE  Intents' /\ \A r \in Runs : intent[r] => intent'[r]
<1>1. ASSUME NEW w \in Workers, Claim(w) \/ Recheck(w) PROVE intent' = intent
  BY <1>1, Zenon DEF Claim, Recheck, StoreCall, ClaimRun, store
<1>2. ASSUME NEW r \in Runs, RequestCancel(r)
      PROVE  intent' = intent \/ intent' = [intent EXCEPT ![r] = TRUE]
  BY <1>2, Zenon DEF RequestCancel, EndRun
<1>3. intent' = intent \/ \E r \in Runs : intent' = [intent EXCEPT ![r] = TRUE]
  BY <1>1, <1>2, Steps, Zenon DEF Onward, Sandboxing
<1> QED
  BY <1>3, Zenon DEF Intents

LEMMA DoomedStays ==
  ASSUME WorkerInv, Intents, [Next]_vars, NEW r \in Runs, Doomed(r)
  PROVE  Doomed(r)'
<1>1. intent'[r]
  BY IntentStays, Zenon DEF Doomed
<1>2. "Failed" # "Queued" /\ "Cancelled" # "Queued" /\ "Planning" # "Queued"
  OBVIOUS
<1>3. DOMAIN pc = Workers /\ DOMAIN task = Workers /\ DOMAIN status = Runs /\ DOMAIN container = Runs
  BY Zenon DEF WorkerInv, Shape
<1>s. Started \subseteq Working
  BY DEF Started, Working, Fresh, Supervising
<1>4. ASSUME NEW w \in Workers, Onward(w) PROVE Doomed(r)'
  <2>1. status'[r] # "Queued"
    BY <1>2, <1>3, <1>4, Zenon DEF Onward, FailExpired, Doomed
  <2>2. PICK label : label \notin Started /\ pc' = [pc EXCEPT ![w] = label]
    BY <1>4, Zenon DEF Onward, Go
  <2>3. \A v \in Workers : pc'[v] = pc[v] \/ pc'[v] \notin Started
    BY <1>3, <2>2, Zenon
  <2> QED
    BY <1>1, <1>4, <2>1, <2>3, Zenon DEF Onward, Doomed
<1>5. ASSUME NEW w \in Workers, Sandboxing(w) PROVE Doomed(r)'
  <2>1. task[w] # r
    BY <1>5, <1>s, Zenon DEF Sandboxing, Doomed
  <2>2. container'[r] = container[r] /\ \A v \in Workers : v # w => pc'[v] = pc[v]
    BY <1>3, <1>5, <2>1, Zenon DEF Sandboxing, Go
  <2> QED
    BY <1>1, <1>5, <2>1, <2>2, Zenon DEF Sandboxing, Doomed
<1>6. ASSUME NEW w \in Workers, Claim(w) PROVE Doomed(r)'
  <2>1. container' = container
    BY <1>6, Zenon DEF Claim, sandbox
  <2>2. PICK label \in {"Loop", "Prepare", "Unprompted"} : Go(w, label)
    BY <1>6, Zenon DEF Claim, StoreCall
  <2>3. label \notin Started
    BY <2>2 DEF Started, Supervising
  <2>4. /\ \A v \in Workers : pc'[v] = pc[v] \/ pc'[v] \notin Started
        /\ \A v \in Workers : v # w => pc'[v] = pc[v] /\ task'[v] = task[v]
        /\ pc'[w] = label
    BY <1>3, <1>6, <2>2, <2>3, Zenon DEF Go, Claim
  <2>5. status' = status \/ \E q \in Runs : status' = [status EXCEPT ![q] = "Planning"]
    BY <1>6, Zenon DEF Claim, StoreCall, ClaimRun, store
  <2>6. status'[r] # "Queued"
    BY <1>2, <1>3, <2>5, Zenon DEF Doomed
  <2> QED
    BY <1>1, <2>1, <2>3, <2>4, <2>6, Zenon DEF Doomed
<1>7. ASSUME NEW w \in Workers, Recheck(w) PROVE Doomed(r)'
  <2>1. UNCHANGED <<task, status, container>>
    BY <1>7, Zenon DEF Recheck, StoreCall, store, sandbox
  <2>2. "FailThen" \notin Started /\ "FailClaim" \notin Started /\ "Recheck" \in Working
    BY DEF Started, Working, Fresh, Supervising
  <2>3. CASE task[w] = r
    <3>1. Go(w, "FailThen") \/ Go(w, "FailClaim")
      BY <1>7, <2>3, Zenon DEF Recheck, StoreCall, Doomed
    <3>2. \A v \in Workers : pc'[v] = pc[v] \/ pc'[v] \notin Started
      BY <1>3, <2>2, <3>1, Zenon DEF Go
    <3> QED
      BY <1>1, <2>1, <3>2, Zenon DEF Doomed
  <2>4. CASE task[w] # r
    <3>1. \A v \in Workers : v # w => pc'[v] = pc[v]
      BY <1>3, <1>7, Zenon DEF Recheck, StoreCall, Go
    <3> QED
      BY <1>1, <2>1, <2>4, <3>1, Zenon DEF Doomed
  <2> QED
    BY <2>3, <2>4, Zenon
<1>8. ASSUME NEW q \in Runs, RequestCancel(q) PROVE Doomed(r)'
  <2>1. UNCHANGED <<pc, task, container>>
    BY <1>8, Zenon DEF RequestCancel, locals, sandbox
  <2>2. status' = status \/ status' = [status EXCEPT ![q] = "Cancelled"]
    BY <1>8, Zenon DEF RequestCancel, EndRun
  <2>3. status'[r] # "Queued"
    BY <1>2, <1>3, <2>2, Zenon DEF Doomed
  <2> QED
    BY <1>1, <2>1, <2>3, Zenon DEF Doomed
<1>9. CASE UNCHANGED <<status, intent, task, pc, container>>
  BY <1>9, Zenon DEF Doomed
<1> QED
  BY <1>4, <1>5, <1>6, <1>7, <1>8, <1>9, Steps, Zenon

(* A cancellation recorded while the run is in Planning keeps it from ever *)
(* being started, whichever of its checks the worker has already passed.   *)
THEOREM EarlyCancelsPreventStart == Spec => EarlyCancelPreventsStart
<1>1. Init => Intents
  BY Zenon DEF Init, Intents
<1>2. WorkerInv /\ Intents /\ [Next]_vars => Intents'
  BY IntentStays, Zenon
<1>3. Spec => [](WorkerInv /\ Intents)
  BY <1>1, <1>2, WorkerCorrect, PTL DEF Spec
<1>4. ASSUME NEW r \in Runs
      PROVE  Spec => [](intent[r] /\ status[r] = "Planning" => [](container[r] # "Up"))
  <2>1. WorkerInv /\ intent[r] /\ status[r] = "Planning" => Doomed(r)
    <3> SUFFICES ASSUME WorkerInv, intent[r], status[r] = "Planning" PROVE Doomed(r)
      OBVIOUS
    <3>1. container[r] # "Up" /\ status[r] # "Queued"
      BY DEF WorkerInv, RunsSound, RunSound
    <3>2. Started \subseteq Begun
      BY DEF Started, Begun, Fresh, Supervising
    <3> QED
      BY <3>1, <3>2, ZenonT(60) DEF Doomed, WorkerInv, WorkSound, Sound
  <2>2. WorkerInv /\ Intents /\ Doomed(r) /\ [Next]_vars => Doomed(r)'
    BY DoomedStays, Zenon
  <2>3. Doomed(r) => container[r] # "Up"
    BY Zenon DEF Doomed
  <2> QED
    BY <1>3, <2>1, <2>2, <2>3, PTL DEF Spec
<1> QED
  BY <1>4 DEF EarlyCancelPreventsStart
=============================================================================
