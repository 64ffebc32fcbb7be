------------------------------ MODULE Sandbox -------------------------------
(***************************************************************************)
(* The container sandbox of crates/openwork-sandbox: execute, cancel and   *)
(* cleanup of ContainerSandbox, statement by statement where another       *)
(* thread can come between, over an engine reached through a command line  *)
(* client (cli.rs) that can refuse, fail to start or time out, with the    *)
(* temporary directories, the id file and the output tree of filesystem.rs.*)
(*                                                                         *)
(* An execution is one call of execute.  The container, the thread that    *)
(* feeds its standard input, the deadline and the callers of cancel and    *)
(* cleanup run beside it.  What the container wrote is data the executing  *)
(* thread reads once, so the model chooses it when the log is fetched.     *)
(* A line of output is the unit of the capture budget.                     *)
(***************************************************************************)
EXTENDS Integers, FiniteSets, Sequences

CONSTANTS
  Execs,       \* the calls of execute; in the shared scene they name one run
  Callers,     \* threads that call cancel or cleanup for the run
  Nobody,      \* no execution, no lock holder
  Outputs,     \* what a container may leave: its log [out, err: lines]
               \*   and its output tree [files, dirs: numbers, special, large]
  MaxOutput,   \* max_output_bytes of the request, in lines
  MaxEntries,  \* entries collect_output_paths visits (4096)
  MaxFiles,    \* files it reports (1024)
  Attempts,    \* names OwnedTemporaryDirectory::create tries (32)
  Leftovers,   \* names an earlier process with this pid left behind
  MaxFaults    \* bound: client, file system and clock failures

ASSUME SandboxAssumption ==
  /\ Nobody \notin Execs \cup Callers /\ Execs # {}
  /\ {MaxOutput, MaxEntries, MaxFiles, Attempts, MaxFaults} \subseteq Nat

VARIABLES
  scene,      \* "Run": one orchestrated execution; "Shared": several bare ones
  pc,         \* each execution: where it is,
  dir,        \*   its temporary directory (0: none),
  cid,        \*   the id file there: Whole, Bad (missing or no id) or Unread,
  guard,      \*   its ContainerGuard: None, Armed or Cleaned,
  drop,       \*   the guard is being dropped,
  ended,      \*   termination and exit code, as monitored,
  capture,    \*   the output read from `logs',
  files,      \*   the output paths collected,
  tree,       \*   the output tree they were collected from,
  cleanup,    \*   SandboxCleanupStatus,
  answer,     \*   what execute returned
  box,        \* the container of each execution
  lock,       \* holder of its cancellation_confirmed mutex,
  confirmed,  \*   and the flag the mutex protects,
  attach,     \*   its attachment thread,
  broken,     \*   attachment_failed,
  due,        \*   its deadline has passed
  active,     \* the registry entry of the run
  dirs,       \* temporary directories that exist
  sequence,   \* TEMP_SEQUENCE
  call,       \* each caller: where it is,
  found,      \*   the registry entry it looked up
  cleaned,    \* cleanup has been called for the run
  faults

container == <<box, lock, confirmed, attach, broken, due>>
outcome == <<ended, capture, files, tree, cleanup, answer>>
temporary == <<dir, cid, dirs, sequence>>
guards == <<guard, drop>>
callers == <<call, found, cleaned>>
sandbox == <<pc, container, outcome, temporary, guards, active, callers, faults>>

Monitoring == {"Lock", "Check", "Inspect", "Abort", "Join"}

(* SandboxTermination, with the exit code. *)
Exited(code) == [kind |-> "Exited", code |-> code]
Ended(kind) == [kind |-> kind, code |-> "None"]

NoCapture ==
  [log |-> [out |-> <<>>, err |-> <<>>], readOut |-> 0, readErr |-> 0,
   out |-> 0, err |-> 0, remaining |-> 0, truncated |-> FALSE]

(* `logs' that is refused leaves the client's message on standard error.   *)
Refusal == [out |-> <<>>, err |-> <<"Text">>]

EmptyTree == [files |-> 0, dirs |-> 0, special |-> FALSE, large |-> FALSE]

SandboxInit ==
  /\ pc = [e \in Execs |-> "Idle"]
  /\ dir = [e \in Execs |-> 0] /\ cid = [e \in Execs |-> "Bad"]
  /\ guard = [e \in Execs |-> "None"] /\ drop = [e \in Execs |-> FALSE]
  /\ ended = [e \in Execs |-> Ended("None")]
  /\ capture = [e \in Execs |-> NoCapture]
  /\ files = [e \in Execs |-> 0] /\ tree = [e \in Execs |-> EmptyTree]
  /\ cleanup = [e \in Execs |-> "None"]
  /\ answer = [e \in Execs |-> "None"]
  /\ box = [e \in Execs |-> "None"]
  /\ lock = [e \in Execs |-> Nobody]
  /\ confirmed = [e \in Execs |-> FALSE]
  /\ attach = [e \in Execs |-> "None"]
  /\ broken = [e \in Execs |-> FALSE] /\ due = [e \in Execs |-> FALSE]
  /\ active = Nobody
  /\ dirs = Leftovers /\ sequence = 1
  /\ call = [c \in Callers |-> "Idle"]
  /\ found = [c \in Callers |-> Nobody]
  /\ cleaned = FALSE /\ faults = 0

-----------------------------------------------------------------------------
(* The engine's command line client *)

Go(e, phase) == pc' = [pc EXCEPT ![e] = phase]

Fault == scene = "Run" /\ faults < MaxFaults /\ faults' = faults + 1

(* One invocation.  `ok' is a zero exit status, `refused' another one and  *)
(* `err' a client that could not start or was killed at its timeout, by    *)
(* when the engine may have acted (done) or not.                           *)
Invoke(able, out, done) ==
  \/ out = "ok" /\ able /\ done /\ UNCHANGED faults
  \/ out = "refused" /\ ~done /\ IF able THEN Fault ELSE UNCHANGED faults
  \/ out = "err" /\ (done => able) /\ Fault

Answers == {"ok", "refused", "err"}

(* `kill' works on a running container only; `rm --force' on any.          *)
KillContainer(e, out, done) ==
  /\ Invoke(box[e] = "Running", out, done)
  /\ box' = IF done THEN [box EXCEPT ![e] = "Killed"] ELSE box

RemoveContainer(e, out, done) ==
  /\ Invoke(box[e] # "Removed", out, done)
  /\ box' = IF done THEN [box EXCEPT ![e] = "Removed"] ELSE box

-----------------------------------------------------------------------------
(* execute_inner, up to a registered container *)

Fails(e) == answer' = [answer EXCEPT ![e] = "Error"]

(* execute and validate_mount of both directories. *)
Execute(e) ==
  /\ pc[e] = "Mounts"
  /\ \/ Go(e, "Temp") /\ UNCHANGED <<answer, faults>>
     \/ Fault /\ Fails(e) /\ Go(e, "Done")
  /\ UNCHANGED <<container, ended, capture, files, tree, cleanup, temporary, guards,
                 active, callers>>

(* OwnedTemporaryDirectory::create: the counter gives each attempt a new   *)
(* name; a name that exists is skipped, until the attempts are used up.    *)
(* When its permissions or its runtime directory fail, it stays behind.    *)
Taken(k) == (sequence + k - 1) \in dirs

CreateTemporary(e) ==
  /\ pc[e] = "Temp"
  /\ \/ \E k \in 1..Attempts :
          /\ ~Taken(k) /\ \A j \in 1..(k - 1) : Taken(j)
          /\ dir' = [dir EXCEPT ![e] = sequence + k - 1]
          /\ dirs' = dirs \cup {sequence + k - 1}
          /\ sequence' = sequence + k
          /\ Go(e, "Environment") /\ UNCHANGED <<answer, faults>>
     \/ /\ \A k \in 1..Attempts : Taken(k)
        /\ sequence' = sequence + Attempts
        /\ Fails(e) /\ Go(e, "Done") /\ UNCHANGED <<dir, dirs, faults>>
     \/ \E k \in 1..Attempts :
          /\ ~Taken(k) /\ \A j \in 1..(k - 1) : Taken(j)
          /\ Fault /\ dirs' \in {dirs, dirs \cup {sequence + k - 1}}
          /\ sequence' = sequence + k
          /\ Fails(e) /\ Go(e, "Done") /\ UNCHANGED dir
  /\ UNCHANGED <<cid, container, ended, capture, files, tree, cleanup, guards, active,
                 callers>>

(* write_environment: a value with a newline, or a file that cannot be     *)
(* written, is refused.                                                    *)
WriteEnvironment(e) ==
  /\ pc[e] = "Environment"
  /\ \/ Go(e, "Arguments") /\ UNCHANGED <<answer, faults>>
     \/ Fault /\ Fails(e) /\ Go(e, "DropTemp")
  /\ UNCHANGED <<container, ended, capture, files, tree, cleanup, temporary, guards,
                 active, callers>>

(* mount_argument refuses a path that is not text or holds a comma. *)
MountRefused == Fault

CreateArguments(e) ==
  /\ pc[e] = "Arguments"
  /\ \/ Go(e, "Create") /\ UNCHANGED <<answer, faults>>
     \/ MountRefused /\ Fails(e) /\ Go(e, "DropTemp")
  /\ UNCHANGED <<container, ended, capture, files, tree, cleanup, temporary, guards,
                 active, callers>>

(* The engine creates the container and writes its id to a file.  When all *)
(* is well it does both and says so; any other mixture is a failure of the *)
(* engine or its client: an answer of success with no id or no valid one,  *)
(* a refusal or no answer with the container and even its id in place.     *)
CreateContainer(e) ==
  /\ pc[e] = "Create"
  /\ \E out \in Answers, done \in BOOLEAN, id \in {"Bad", "Whole"} :
       /\ out = "ok" \/ id = "Whole" => done
       /\ IF out = "ok" /\ id = "Whole" THEN UNCHANGED faults ELSE Fault
       /\ box' = IF done THEN [box EXCEPT ![e] = "Created"] ELSE box
       /\ cid' = [cid EXCEPT ![e] = id]
       /\ Go(e, "ReadId")
       /\ IF out = "ok" THEN UNCHANGED answer ELSE Fails(e)
  /\ UNCHANGED <<lock, confirmed, attach, broken, due, ended, capture, files, tree,
                 cleanup, dir, dirs, sequence, guards, active, callers>>

(* read_container_id, parse_container_id and ContainerGuard::new.  When    *)
(* the file holds no valid id or cannot be read there is no guard and      *)
(* execute returns, whatever create has done; with an id, every later      *)
(* return removes the container.                                           *)
UnguardedFailure(e) == answer[e] = "None"

Guarded(e) == TRUE

ReadContainerId(e) ==
  /\ pc[e] = "ReadId"
  /\ \/ /\ cid[e] = "Whole"
        /\ guard' = [guard EXCEPT ![e] = IF Guarded(e) THEN "Armed" ELSE "None"]
        /\ Go(e, IF answer[e] = "Error" THEN "DropGuard" ELSE "Register")
        /\ UNCHANGED <<answer, cid, faults>>
     \/ /\ \/ cid[e] = "Bad" /\ UNCHANGED <<cid, faults>>
           \/ cid[e] = "Whole" /\ Fault /\ cid' = [cid EXCEPT ![e] = "Unread"]
        /\ Fails(e) /\ Go(e, "DropTemp") /\ UNCHANGED guard
  /\ UNCHANGED <<container, ended, capture, files, tree, cleanup, dir, dirs, sequence, drop,
                 active, callers>>

Refused == "DropGuard"

Register(e) ==
  /\ pc[e] = "Register"
  /\ \/ /\ active = Nobody /\ active' = e
        /\ Go(e, "Start") /\ UNCHANGED answer
     \/ /\ active # Nobody /\ Fails(e)
        /\ Go(e, Refused) /\ UNCHANGED active
  /\ UNCHANGED <<container, ended, capture, files, tree, cleanup, temporary, guards,
                 callers, faults>>

-----------------------------------------------------------------------------
(* run_container and monitor_container *)

(* The start, and the attachment thread when the command has standard      *)
(* input.  A start the engine refused is a failed termination, a start     *)
(* without an answer an error.                                             *)
Start(e) ==
  /\ pc[e] = "Start"
  /\ \E out \in Answers, done \in BOOLEAN :
       /\ Invoke(box[e] = "Created", out, done)
       /\ box' = IF done THEN [box EXCEPT ![e] = "Running"] ELSE box
       /\ CASE out = "ok" ->
                 /\ Go(e, "Lock") /\ UNCHANGED <<answer, ended>>
                 /\ \E a \in IF scene = "Run" THEN {"None", "Open"} ELSE {"None"} :
                      attach' = [attach EXCEPT ![e] = a]
            [] out = "refused" ->
                 /\ ended' = [ended EXCEPT ![e] = Ended("Failed")]
                 /\ Go(e, "Logs") /\ UNCHANGED <<answer, attach>>
            [] OTHER ->
                 Fails(e) /\ Go(e, "Unregister") /\ UNCHANGED <<ended, attach>>
  /\ UNCHANGED <<lock, confirmed, broken, due, capture, files, tree, cleanup, temporary,
                 guards, active, callers>>

Stop(e, end) ==
  /\ ended' = [ended EXCEPT ![e] = end]
  /\ lock' = [lock EXCEPT ![e] = Nobody]
  /\ Go(e, "Join")

rest == <<capture, files, tree, cleanup, answer, temporary, guards, active, callers>>

(* One poll holds the cancellation lock from here to its decision. *)
TakeNoLock(e) == UNCHANGED lock

TakeLock(e) == lock[e] = Nobody /\ lock' = [lock EXCEPT ![e] = e]

Lock(e) ==
  /\ pc[e] = "Lock" /\ TakeLock(e)
  /\ Go(e, "Check")
  /\ UNCHANGED <<box, confirmed, attach, broken, due, ended, rest, faults>>

NoDeadline(e) == FALSE

PastDeadline(e) == due[e]

(* A confirmed cancellation, then the deadline, then the attachment: its   *)
(* answer once, and a closed channel after that.                           *)
Check(e) ==
  /\ pc[e] = "Check"
  /\ \/ /\ confirmed[e] /\ Stop(e, Ended("Cancelled"))
        /\ UNCHANGED <<box, attach, broken, faults>>
     \/ /\ ~confirmed[e] /\ PastDeadline(e)
        /\ \E out \in Answers, done \in BOOLEAN :
             /\ KillContainer(e, out, done)
             /\ Stop(e, Ended(IF out = "ok" THEN "TimedOut" ELSE "Failed"))
        /\ UNCHANGED <<attach, broken>>
     \/ /\ ~confirmed[e] /\ ~PastDeadline(e)
        /\ attach' = [attach EXCEPT ![e] = IF @ \in {"Good", "Bad"} THEN "Gone" ELSE @]
        /\ broken' = [broken EXCEPT ![e] = @ \/ attach[e] \in {"Bad", "Gone"}]
        /\ Go(e, "Inspect") /\ UNCHANGED <<box, lock, ended, faults>>
  /\ UNCHANGED <<confirmed, due, rest>>

Observed(e) ==
  CASE box[e] = "OutOfMemory" -> Ended("OutOfMemory")
    [] box[e] = "Zero"        -> Exited("Zero")
    [] OTHER                  -> Exited("Nonzero")

Inspect(e) ==
  /\ pc[e] = "Inspect"
  /\ \E out \in Answers :
       /\ Invoke(box[e] # "Removed", out, out = "ok")
       /\ CASE out # "ok" \/ (box[e] = "Running" /\ broken[e]) ->
                 Go(e, "Abort") /\ UNCHANGED <<lock, ended>>
            [] out = "ok" /\ box[e] = "Running" /\ ~broken[e] ->
                 /\ lock' = [lock EXCEPT ![e] = IF @ = e THEN Nobody ELSE @]
                 /\ Go(e, "Lock") /\ UNCHANGED ended
            [] OTHER -> Stop(e, Observed(e))
  /\ UNCHANGED <<box, confirmed, attach, broken, due, rest>>

Abort(e) ==
  /\ pc[e] = "Abort"
  /\ \E out \in Answers, done \in BOOLEAN : KillContainer(e, out, done)
  /\ Stop(e, Ended("Failed"))
  /\ UNCHANGED <<confirmed, attach, broken, due, rest>>

(* The scope joins the attachment thread before it is left, and with it go *)
(* the variables of the loop.                                              *)
Join(e) ==
  /\ pc[e] = "Join" /\ attach[e] # "Open"
  /\ attach' = [attach EXCEPT ![e] = "None"]
  /\ broken' = [broken EXCEPT ![e] = FALSE]
  /\ due' = [due EXCEPT ![e] = FALSE]
  /\ Go(e, "Logs")
  /\ UNCHANGED <<box, lock, confirmed, ended, rest, faults>>

-----------------------------------------------------------------------------
(* Logs, removal, output paths and the result *)

later == <<container, files, temporary, guards, active, callers>>

(* `logs' that cannot be run counts as no output. *)
Opened(log) == [NoCapture EXCEPT !.log = log, !.remaining = MaxOutput]

FetchLogs(e) ==
  /\ pc[e] = "Logs"
  /\ \E out \in Answers,
        o \in IF scene = "Run" THEN Outputs ELSE {[log |-> NoCapture.log, tree |-> EmptyTree]} :
       /\ Invoke(box[e] # "Removed", out, out = "ok")
       /\ capture' = [capture EXCEPT ![e] =
            CASE out = "ok" -> Opened(o.log)
              [] out = "refused" -> Opened(Refusal)
              [] OTHER -> NoCapture]
       /\ tree' = [tree EXCEPT ![e] = o.tree]
       /\ Go(e, IF out = "err" THEN "Kill" ELSE "Read")
  /\ UNCHANGED <<later, ended, cleanup, answer>>

Least(a, b) == IF a < b THEN a ELSE b

Keep(c, n) ==
  [c EXCEPT !.remaining = @ - Least(n, @),
            !.truncated = @ \/ c.remaining < n]

ReadStdout(c) ==
  {[Keep(c, n) EXCEPT !.readOut = @ + n, !.out = @ + Least(n, c.remaining)] :
     n \in 1..(Len(c.log.out) - c.readOut)}

ReadStderr(c) ==
  {[Keep(c, n) EXCEPT !.readErr = @ + n, !.err = @ + Least(n, c.remaining)] :
     n \in 1..(Len(c.log.err) - c.readErr)}

Drained(c) == c.readOut = Len(c.log.out) /\ c.readErr = Len(c.log.err)

ReadLogs(e) ==
  /\ pc[e] = "Read"
  /\ \/ /\ \E c \in ReadStdout(capture[e]) \cup ReadStderr(capture[e]) :
             capture' = [capture EXCEPT ![e] = c]
        /\ UNCHANGED <<pc, faults>>
     \/ /\ Drained(capture[e]) /\ Go(e, "Kill") /\ UNCHANGED <<capture, faults>>
     \/ /\ Fault /\ capture' = [capture EXCEPT ![e] = NoCapture] /\ Go(e, "Kill")
  /\ UNCHANGED <<later, tree, ended, cleanup, answer>>

(* ContainerGuard::cleanup, called here and again by Drop while the        *)
(* container is not known to be removed: kill is tried, removal decides.   *)
GuardKill(e) ==
  /\ pc[e] = "Kill"
  /\ \E out \in Answers, done \in BOOLEAN : KillContainer(e, out, done)
  /\ Go(e, "Remove")
  /\ UNCHANGED <<lock, confirmed, attach, broken, due, outcome, temporary, guards, active,
                 callers>>

GuardRemove(e) ==
  /\ pc[e] = "Remove"
  /\ \E out \in Answers, done \in BOOLEAN :
       /\ RemoveContainer(e, out, done)
       /\ guard' = [guard EXCEPT ![e] = IF out = "ok" THEN "Cleaned" ELSE "Armed"]
       /\ cleanup' = [cleanup EXCEPT ![e] =
            CASE drop[e] -> @ [] out = "ok" -> "Succeeded" [] OTHER -> "Failed"]
  /\ Go(e, IF drop[e] THEN "DropTemp" ELSE "Collect")
  /\ UNCHANGED <<lock, confirmed, attach, broken, due, ended, capture, files, tree, answer,
                 temporary, drop, active, callers>>

Collectable(t) == ~t.special /\ t.files + t.dirs <= MaxEntries /\ t.files <= MaxFiles

Collect(e) ==
  /\ pc[e] = "Collect"
  /\ IF Collectable(tree[e])
     THEN files' = [files EXCEPT ![e] = tree[e].files] /\ UNCHANGED ended
     ELSE ended' = [ended EXCEPT ![e] = Ended("Failed")] /\ UNCHANGED files
  /\ Go(e, "Close")
  /\ UNCHANGED <<container, capture, tree, cleanup, answer, temporary, guards, active, callers,
                 faults>>

(* close and combine_cleanup.  When the directory cannot be removed, the   *)
(* drop at the end of close tries once more, without a say in the status.  *)
Close(e) ==
  /\ pc[e] = "Close"
  /\ dir' = [dir EXCEPT ![e] = 0]
  /\ \/ dirs' = dirs \ {dir[e]} /\ UNCHANGED <<cleanup, faults>>
     \/ /\ Fault /\ cleanup' = [cleanup EXCEPT ![e] = "Failed"]
        /\ dirs' \in {dirs, dirs \ {dir[e]}}
  /\ Go(e, "Judge")
  /\ UNCHANGED <<container, ended, capture, files, tree, answer, cid, sequence, guards,
                 active, callers>>

Reported(e) ==
  IF ended[e].kind = "Cancelled" /\ cleanup[e] # "Succeeded" THEN Ended("Failed")
  ELSE ended[e]

(* SandboxResult::validate: an exit code belongs to an exit; a clock that  *)
(* went back makes the result invalid too.                                 *)
Valid(end) ==
  /\ end.kind = "Exited" => end.code # "None"
  /\ end.kind \in {"Cancelled", "TimedOut", "OutOfMemory"} => end.code = "None"

Judge(e) ==
  /\ pc[e] = "Judge"
  /\ ended' = [ended EXCEPT ![e] = Reported(e)]
  /\ \/ Valid(ended'[e]) /\ answer' = [answer EXCEPT ![e] = "Result"] /\ UNCHANGED faults
     \/ Fault /\ Fails(e)
  /\ Go(e, "Unregister")
  /\ UNCHANGED <<container, capture, files, tree, cleanup, temporary, guards, active,
                 callers>>

(* The locals are dropped in reverse: the registration, the guard, the     *)
(* temporary directory.                                                    *)
Unregister(e) ==
  /\ pc[e] = "Unregister"
  /\ active' = Nobody /\ Go(e, "DropGuard")
  /\ UNCHANGED <<container, outcome, temporary, guards, callers, faults>>

DropGuard(e) ==
  /\ pc[e] = "DropGuard"
  /\ drop' = [drop EXCEPT ![e] = TRUE]
  /\ Go(e, IF guard[e] = "Armed" THEN "Kill" ELSE "DropTemp")
  /\ UNCHANGED <<container, outcome, temporary, guard, active, callers, faults>>

DropTemporary(e) ==
  /\ pc[e] = "DropTemp"
  /\ \/ dirs' = dirs \ {dir[e]} /\ UNCHANGED faults
     \/ dir[e] # 0 /\ Fault /\ UNCHANGED dirs
  /\ dir' = [dir EXCEPT ![e] = 0]
  /\ Go(e, "Done")
  /\ UNCHANGED <<container, outcome, cid, sequence, guards, active, callers>>

-----------------------------------------------------------------------------
(* cancel and cleanup, called for the run by other threads *)

Call(c, at) == call' = [call EXCEPT ![c] = at]

Return(c) == Call(c, "Done") /\ found' = [found EXCEPT ![c] = Nobody]

quiet == <<pc, outcome, temporary, guards>>

(* A call that finds no entry is an error and changes nothing. *)
Find(c) ==
  /\ scene = "Run" /\ call[c] = "Idle" /\ active # Nobody
  /\ found' = [found EXCEPT ![c] = active]
  /\ Call(c, "Lock")
  /\ UNCHANGED <<quiet, container, active, cleaned, faults>>

CancelLock(c) ==
  /\ call[c] = "Lock" /\ lock[found[c]] = Nobody
  /\ IF confirmed[found[c]] THEN Return(c) /\ UNCHANGED lock
     ELSE Call(c, "Kill") /\ lock' = [lock EXCEPT ![found[c]] = c] /\ UNCHANGED found
  /\ UNCHANGED <<quiet, box, confirmed, attach, broken, due, active, cleaned, faults>>

CancelKill(c) ==
  /\ call[c] = "Kill"
  /\ \E out \in Answers, done \in BOOLEAN :
       /\ KillContainer(found[c], out, done)
       /\ confirmed' = [confirmed EXCEPT ![found[c]] = (out = "ok")]
  /\ lock' = [lock EXCEPT ![found[c]] = Nobody]
  /\ Return(c)
  /\ UNCHANGED <<quiet, attach, broken, due, active, cleaned>>

(* cleanup takes the entry out of the registry before it removes.          *)
CleanupFind(c) ==
  /\ scene = "Run" /\ call[c] = "Idle" /\ active # Nobody
  /\ found' = [found EXCEPT ![c] = active]
  /\ active' = Nobody /\ cleaned' = TRUE
  /\ Call(c, "CleanKill")
  /\ UNCHANGED <<quiet, container, faults>>

(* The guard tries again when it is dropped, if the removal failed.        *)
CleanupRemove(c) ==
  /\ \E out \in Answers, done \in BOOLEAN :
       \/ /\ call[c] \in {"CleanKill", "DropKill"} /\ KillContainer(found[c], out, done)
          /\ Call(c, IF call[c] = "CleanKill" THEN "CleanRemove" ELSE "DropRemove")
          /\ UNCHANGED found
       \/ /\ call[c] \in {"CleanRemove", "DropRemove"} /\ RemoveContainer(found[c], out, done)
          /\ IF out # "ok" /\ call[c] = "CleanRemove"
             THEN Call(c, "DropKill") /\ UNCHANGED found
             ELSE Return(c)
  /\ UNCHANGED <<quiet, lock, confirmed, attach, broken, due, active, cleaned>>

-----------------------------------------------------------------------------
(* The container, its attachment and the clock *)

ContainerEnds(e) ==
  /\ box[e] = "Running"
  /\ \E b \in {"Zero", "Nonzero", "OutOfMemory"} : box' = [box EXCEPT ![e] = b]
  /\ UNCHANGED <<quiet, lock, confirmed, attach, broken, due, active, callers, faults>>

(* `attach' returns when the container's streams close, which may be while *)
(* it still runs, or at its own timeout, later than the deadline.          *)
AttachEnds(e) ==
  /\ attach[e] = "Open"
  /\ \E a \in {"Good", "Bad"} : attach' = [attach EXCEPT ![e] = a]
  /\ UNCHANGED <<quiet, box, lock, confirmed, broken, due, active, callers, faults>>

DeadlinePasses(e) ==
  /\ pc[e] \in Monitoring /\ ~due[e]
  /\ due' = [due EXCEPT ![e] = TRUE]
  /\ UNCHANGED <<quiet, box, lock, confirmed, attach, broken, active, callers, faults>>

ExecStep(e) ==
  \/ Execute(e) \/ CreateTemporary(e) \/ WriteEnvironment(e) \/ CreateArguments(e)
  \/ CreateContainer(e) \/ ReadContainerId(e) \/ Register(e) \/ Start(e)
  \/ Lock(e) \/ Check(e) \/ Inspect(e) \/ Abort(e) \/ Join(e)
  \/ FetchLogs(e) \/ ReadLogs(e) \/ GuardKill(e) \/ GuardRemove(e) \/ Collect(e)
  \/ Close(e) \/ Judge(e) \/ Unregister(e) \/ DropGuard(e) \/ DropTemporary(e)

CallStep(c) == CancelLock(c) \/ CancelKill(c) \/ CleanupRemove(c)

SandboxNext ==
  \/ \E e \in Execs :
       ExecStep(e) \/ ContainerEnds(e) \/ AttachEnds(e) \/ DeadlinePasses(e)
  \/ \E c \in Callers : Find(c) \/ CleanupFind(c) \/ CallStep(c)
=============================================================================
