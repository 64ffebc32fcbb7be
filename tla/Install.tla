------------------------------- MODULE Install -------------------------------
(***************************************************************************)
(* `openwork install`: several processes of one host run the command at    *)
(* the same time, over one file system and one runtime lockfile.           *)
(*                                                                         *)
(*   openwork-cli        execute_install, persist_install_state            *)
(*   openwork-installer  InstallExecutor::run, rollback_failure, the plans *)
(*   openwork-runtime    SystemDownloader, SystemCommandRunner, adapters   *)
(*   openwork-config     LockfileStore                                     *)
(*                                                                         *)
(* A step of a process is one file-system call (or the calls between two   *)
(* points where another process may intervene), so the checks that the     *)
(* code makes before it acts are stale when it acts.  MaxFaults bounds the *)
(* failing calls, the cancellations and the crashes of a behaviour.        *)
(***************************************************************************)
EXTENDS Naturals, Sequences, Functions

CONSTANTS
  Installers,   \* the processes
  Requests,     \* process |-> what it may be asked: [runtime, source, expected, execute]
  Planned,      \* the runtimes whose adapter has an install plan
  Chain,        \* path |-> the path's ancestors, outermost first, and itself
  Dirs,         \* the managed directories, in the plan's order
  Script,       \* runtime |-> the destination of its installer download
  Data,         \* the directory of the lockfile and of its lock
  LockPath, DocPath,
  Hosts,        \* what may be there beforehand: [fs, doc]
  MaxFaults

(* A script has a parent, and lies at a place where the command makes no   *)
(* directory; no two runtimes share one.                                   *)
ASSUME InstallAssumption ==
  /\ "Host" \notin Installers /\ "None" \notin Installers /\ "None" \notin Planned
  /\ \A x \in DOMAIN Chain : Chain[x] \in Seq(DOMAIN Chain)
  /\ Dirs \in Seq(DOMAIN Chain) /\ {Data, LockPath, DocPath} \subseteq DOMAIN Chain
  /\ \A r \in Planned : Script[r] \in DOMAIN Chain /\ Len(Chain[Script[r]]) > 1
  /\ \A r, q \in Planned : Script[r] = Script[q] => r = q
  /\ \A r \in Planned :
       /\ Script[r] \notin {LockPath, DocPath} \union Range(Chain[Data])
       /\ \A i \in DOMAIN Dirs : Script[r] \notin Range(Chain[Dirs[i]])
       /\ \A q \in Planned :
            LET above == Chain[Script[q]] IN Script[r] \notin Range(Chain[above[Len(above) - 1]])
  /\ \A before \in Hosts : /\ before.fs \in [DOMAIN Chain -> {"None", "Dir", "File"}]
                            /\ before.doc \in {"Absent", "Current", "Newer"}

VARIABLES
  fs,      \* path |-> "None", "Dir" or "File"
  by,      \* path |-> the process that made it, or "Host"
  temps,   \* processes with a temporary file beside their download
  stray,   \* paths a process made and did not enter in its rollback list
  host,    \* runtime |-> what the machine holds: Missing, Healthy or Broken
  doc,     \* the runtime lockfile
  holder,  \* the process that holds the lockfile's lock
  inst,    \* the processes
  faults

fileVars == <<fs, by, temps, stray>>
lockVars == <<doc, holder>>
installVars == <<fs, by, temps, stray, host, doc, holder, inst, faults>>

Paths == DOMAIN Chain
Parent(x) == Chain[x][Len(Chain[x]) - 1]
DetectionState == {"Missing", "Healthy", "Broken"}
NoEntry == [status |-> "None", authority |-> "None", digest |-> "None", by |-> "None"]
NoJob == [runtime |-> "None", source |-> "Listed", expected |-> "None", execute |-> FALSE]

Idle == [pc |-> "Idle", job |-> NoJob, step |-> 1, undo |-> <<>>, missing |-> <<>>,
         tried |-> FALSE, warned |-> FALSE, stop |-> FALSE, digest |-> "None",
         passed |-> FALSE, held |-> FALSE, entry |-> NoEntry, blank |-> FALSE, report |-> "None",
         draft |-> [r \in Planned |-> NoEntry]]

InstallInit ==
  /\ \E before \in Hosts :
       /\ fs = before.fs
       /\ doc = [state |-> before.doc, runtimes |-> [r \in Planned |-> NoEntry]]
  /\ by = [x \in Paths |-> "Host"]
  /\ temps = {} /\ stray = {}
  /\ host = [r \in Planned |-> "Missing"]
  /\ holder = "None"
  /\ inst = [p \in Installers |-> Idle]
  /\ faults = 0

-----------------------------------------------------------------------------
(* Plans *)

(* dry_run_plan: one directory step per managed directory. *)
dry_run_plan == [i \in DOMAIN Dirs |-> [action |-> "CreateDirectory", path |-> Dirs[i]]]

(* An adapter's install_plan: one script to fetch into the download cache  *)
(* and one command that runs it.                                           *)
install_plan(r) == [download |-> Script[r], command |-> Script[r]]

(* managed_runtime_plan: the download's directory unless it is planned     *)
(* already, the download, then the installer's command.                    *)
managed_runtime_plan(r) ==
  dry_run_plan
    \o (IF Parent(install_plan(r).download) \in Range(Dirs) THEN <<>>
        ELSE << [action |-> "CreateDirectory", path |-> Parent(install_plan(r).download)] >>)
    \o << [action |-> "Download", path |-> install_plan(r).download],
          [action |-> "RunCommand", path |-> install_plan(r).command] >>

Plan(p) == IF inst[p].job.runtime \in Planned
           THEN managed_runtime_plan(inst[p].job.runtime) ELSE dry_run_plan

Current(p) == Plan(p)[inst[p].step]
At(p, label) == inst[p].pc = label
AtStep(p, action) ==
  /\ At(p, "Step")
  /\ ~inst[p].stop
  /\ inst[p].step <= Len(Plan(p))
  /\ Current(p).action = action

(* Where a process goes next, and the two ways a step of the plan ends. *)
Go(p, label) == inst' = [inst EXCEPT ![p].pc = label]
StepDone(p) == inst' = [inst EXCEPT ![p].pc = "Step", ![p].step = @ + 1]
StepFailed(p) == Go(p, "Rollback")
Ends(p, report) ==
  inst' = [inst EXCEPT ![p] = [Idle EXCEPT !.pc = "Done", !.job = inst[p].job, !.report = report]]

Fault == faults < MaxFaults /\ faults' = faults + 1
NoFault == UNCHANGED faults

-----------------------------------------------------------------------------
(* The file system *)

Exists(x) == fs[x] # "None"

(* The walk from the target stops at the nearest ancestor that exists;     *)
(* what it passed, outermost first, is the one gap of the chain.           *)
Nearest(chain) == {n \in 0..Len(chain) : /\ n = 0 \/ Exists(chain[n])
                                         /\ \A i \in (n + 1)..Len(chain) : ~Exists(chain[i])}
Gaps(chain) == {SubSeq(chain, n + 1, Len(chain)) : n \in Nearest(chain)}
Blocked(chain) == \E x \in Range(chain) : fs[x] = "File"
Empty(d) == /\ \A x \in Paths : Len(Chain[x]) > 1 /\ Parent(x) = d => ~Exists(x)
            /\ d \in {Parent(Script[r]) : r \in Planned} => temps = {}

(* create_dir_all makes what is missing now; `recorded` is what the caller *)
(* will undo.                                                              *)
MakesDirs(p, made, recorded) ==
  /\ fs' = [x \in Paths |-> IF x \in made THEN "Dir" ELSE fs[x]]
  /\ by' = [x \in Paths |-> IF x \in made THEN p ELSE by[x]]
  /\ stray' = (stray \ made) \union (made \ recorded)

MakesFile(p, x) == fs' = [fs EXCEPT ![x] = "File"] /\ by' = [by EXCEPT ![x] = p]

-----------------------------------------------------------------------------
(* execute_install *)

(* detect: no executable is Missing; one whose version check fails or      *)
(* times out is Broken.                                                    *)
Detected(r, state) ==
  \/ state = host[r] /\ NoFault
  \/ host[r] = "Healthy" /\ state = "Broken" /\ Fault

(* ensure_runtime_is_missing: an existing runtime is refused, as is one    *)
(* that cannot be looked at.                                               *)
EnsureMissing(p, job) ==
  \/ /\ \E state \in DetectionState :
          /\ Detected(job.runtime, state)
          /\ inst' = [inst EXCEPT ![p].job = job,
               ![p].pc = IF state = "Missing" THEN "Step" ELSE "Done",
               ![p].report = IF state = "Missing" THEN "None" ELSE "Refused"]
  \/ Fault /\ inst' = [inst EXCEPT ![p].job = job, ![p].pc = "Done", ![p].report = "Refused"]

(* runtime_registry: the adapters the command line knows. *)
runtime_registry == {"claude", "codex", "opencode", "pi"}

(* A requested runtime must be registered, and its adapter must have a plan: *)
(* opencode and pi are managed externally.                                  *)
Plannable(job) ==
  job.runtime # "None" => job.runtime \in runtime_registry /\ job.runtime \in Planned

(* The request is looked up and planned.  A runtime that is not registered *)
(* or whose adapter has no plan is refused; without --execute the plan is  *)
(* only shown; without a runtime it makes the managed directories.         *)
Prepare(p) ==
  /\ At(p, "Idle")
  /\ \E job \in Requests[p] :
       \/ /\ ~Plannable(job) \/ ~job.execute
          /\ NoFault
          /\ inst' = [inst EXCEPT ![p].job = job, ![p].pc = "Done",
                      ![p].report = IF Plannable(job) THEN "Shown" ELSE "Refused"]
       \/ job.execute /\ job.runtime \in Planned /\ EnsureMissing(p, job)
       \/ /\ job.execute /\ job.runtime = "None"
          /\ NoFault
          /\ inst' = [inst EXCEPT ![p].job = job, ![p].pc = "Step"]
  /\ UNCHANGED <<fileVars, host, lockVars>>

(* InstallExecutor::run between two steps of the plan. *)
StopSeen(p) ==
  /\ At(p, "Step") /\ inst[p].stop /\ inst[p].step <= Len(Plan(p))
  /\ StepFailed(p)
  /\ UNCHANGED <<fileVars, host, lockVars, faults>>

(* A directory that is there already is no change to undo. *)
Preserves(p, d) == StepDone(p)

(* execute_directory, up to create_dir_all: an existing directory is kept, *)
(* a file in its place is an error, and the missing ancestors are noted.   *)
CheckDirectory(p) ==
  /\ AtStep(p, "CreateDirectory")
  /\ LET d == Current(p).path
     IN \/ fs[d] = "Dir" /\ Preserves(p, d)
        \/ fs[d] = "File" /\ StepFailed(p)
        \/ /\ ~Exists(d)
           /\ \E gap \in Gaps(Chain[d]) :
                inst' = [inst EXCEPT ![p].pc = "Make", ![p].missing = gap]
  /\ UNCHANGED <<fileVars, host, lockVars, faults>>

UndoesOnlyTheTarget(p) == << inst[p].missing[Len(inst[p].missing)] >>

(* What the step can undo: the directories it found missing. *)
Undoes(p) == inst[p].missing

(* execute_directory, create_dir_all: a failure may leave the outer        *)
(* directories behind, and records none of them.                           *)
MakeDirectory(p) ==
  /\ At(p, "Make")
  /\ \E gap \in Gaps(Chain[Current(p).path]) : LET chain == Chain[Current(p).path]
     IN \/ /\ ~Blocked(chain) /\ NoFault
           /\ MakesDirs(p, Range(gap), Range(inst[p].missing))
           /\ inst' = [inst EXCEPT ![p].pc = "Step", ![p].step = @ + 1,
                                   ![p].undo = @ \o Undoes(p), ![p].missing = <<>>]
        \/ Blocked(chain) /\ NoFault /\ StepFailed(p) /\ UNCHANGED <<fs, by, stray>>
        \/ /\ ~Blocked(chain) /\ Fault
           /\ \E n \in 0..(Len(gap) - 1) : MakesDirs(p, Range(SubSeq(gap, 1, n)), {})
           /\ StepFailed(p)
  /\ UNCHANGED <<temps, host, lockVars>>

-----------------------------------------------------------------------------
(* The download *)

(* The downloader makes the parent directory, which the plan has made      *)
(* unless another process has removed it since.                            *)
Fetches(p, made) == MakesDirs(p, made, {}) /\ Go(p, "Send")

(* DownloadPolicy::validate_url: HTTPS from a listed host. *)
validate_url(job) == job.source = "Listed"

(* validate_expected_digest: none, or 64 hexadecimal characters. *)
validate_expected_digest(job) == job.expected # "Invalid"

(* validate_request: a destination that is there is never overwritten. *)
validate_request(p, x) ==
  validate_url(inst[p].job) /\ validate_expected_digest(inst[p].job) /\ ~Exists(x)

(* execute_download, up to the request to upstream. *)
StartDownload(p) ==
  /\ AtStep(p, "Download")
  /\ LET x == Current(p).path
     IN IF validate_request(p, x)
        THEN \E gap \in Gaps(Chain[Parent(x)]) : Fetches(p, Range(gap))
        ELSE StepFailed(p) /\ UNCHANGED <<fs, by, stray>>
  /\ UNCHANGED <<temps, host, lockVars, faults>>

(* send, and the temporary file that opens the stream: an unsuccessful     *)
(* answer, an announced length over the limit or a vanished directory.     *)
Send(p) ==
  /\ At(p, "Send")
  /\ \/ /\ fs[Parent(Current(p).path)] = "Dir" /\ NoFault
        /\ temps' = temps \union {p} /\ Go(p, "Stream")
     \/ /\ fs[Parent(Current(p).path)] # "Dir" /\ NoFault
        /\ UNCHANGED temps /\ StepFailed(p)
     \/ Fault /\ UNCHANGED temps /\ StepFailed(p)
  /\ UNCHANGED <<fs, by, stray, host, lockVars>>

(* An expected digest must be the observed one. *)
Verifies(p, digest) == inst[p].job.expected \in {"None", digest}

(* stream_to_temporary and the verification: on any failure the temporary  *)
(* file is removed by its destructor.                                      *)
Stream(p) ==
  /\ At(p, "Stream")
  /\ \/ /\ ~inst[p].stop /\ NoFault
        /\ \E digest \in {"Good", "Other"} :
             /\ digest = "Good" => inst[p].job.expected = "Good"
             /\ IF Verifies(p, digest)
                THEN /\ inst' = [inst EXCEPT ![p].pc = "Publish", ![p].digest = digest]
                     /\ UNCHANGED temps
                ELSE StepFailed(p) /\ temps' = temps \ {p}
     \/ /\ \/ inst[p].stop /\ NoFault
           \/ Fault
        /\ StepFailed(p) /\ temps' = temps \ {p}
  /\ UNCHANGED <<fs, by, stray, host, lockVars>>

(* persist_noclobber: the rename succeeds only onto a free path. *)
Vacant(x) == ~Exists(x)

(* The download becomes visible and its directory is synced; execute_download *)
(* enters it in the rollback list when all of that succeeded.              *)
Publish(p) ==
  /\ At(p, "Publish")
  /\ temps' = temps \ {p}
  /\ LET x == Current(p).path
     IN \/ /\ Vacant(x) /\ NoFault
           /\ MakesFile(p, x) /\ stray' = stray \ {x}
           /\ inst' = [inst EXCEPT ![p].pc = "Step", ![p].step = @ + 1,
                                   ![p].undo = Append(@, x)]
        \/ /\ Vacant(x) /\ Fault
           /\ MakesFile(p, x) /\ stray' = stray \union {x}
           /\ StepFailed(p)
        \/ /\ ~Vacant(x) /\ NoFault
           /\ StepFailed(p) /\ UNCHANGED <<fs, by, stray>>
  /\ UNCHANGED <<host, lockVars>>

-----------------------------------------------------------------------------
(* The installer's command *)

(* The command is attempted: from here on the change is irreversible. *)
StartCommand(p) ==
  /\ AtStep(p, "RunCommand")
  /\ \/ NoFault /\ inst' = [inst EXCEPT ![p].pc = "Command", ![p].tried = TRUE]
     \/ Fault /\ inst' = [inst EXCEPT ![p].pc = "Rollback", ![p].tried = TRUE]
  /\ UNCHANGED <<fileVars, host, lockVars>>

(* SystemCommandRunner::run until the child is gone: it exits by itself,   *)
(* or it is killed for a cancellation or at its time limit.  Whatever the  *)
(* outcome, the script may have changed the machine; and only the child    *)
(* itself is killed, so that a process it started may still hold its       *)
(* output.                                                                 *)
CommandEnds(p) ==
  /\ At(p, "Command")
  /\ \E state \in DetectionState : host' = [host EXCEPT ![inst[p].job.runtime] = state]
  /\ \E passed, held \in BOOLEAN :
       /\ inst' = [inst EXCEPT ![p].pc = "Drain", ![p].passed = passed, ![p].held = held]
       /\ \/ (passed \/ inst[p].stop) /\ NoFault
          \/ ~passed /\ Fault
  /\ UNCHANGED <<fileVars, lockVars>>

(* execute_command: cancelled, timed out or a nonzero exit is a failure. *)
Judges(p) == IF inst[p].passed THEN StepDone(p) ELSE StepFailed(p)

TidiesUp(p) ==
  /\ At(p, "Drain") /\ ~inst[p].held
  /\ IF inst[p].passed THEN StepDone(p) /\ fs' = [fs EXCEPT ![Current(p).path] = "None"]
     ELSE StepFailed(p) /\ UNCHANGED fs
  /\ UNCHANGED <<by, temps, stray, host, lockVars, faults>>

(* join_stream: the output readers return when every process that holds    *)
(* the pipes has closed them, which no time limit ends and no cancellation *)
(* either; only then is the outcome looked at.                             *)
Drain(p) ==
  /\ At(p, "Drain") /\ ~inst[p].held
  /\ Judges(p)
  /\ UNCHANGED <<fileVars, host, lockVars, faults>>

(* The last holder of the output closes it, if it ever does.  What the     *)
(* installer left behind may have changed the machine meanwhile.           *)
Closes(p) ==
  /\ inst[p].held
  /\ inst' = [inst EXCEPT ![p].held = FALSE]
  /\ \/ At(p, "Step") /\ UNCHANGED host
     \/ At(p, "Drain") /\ \E state \in DetectionState :
          host' = [host EXCEPT ![inst[p].job.runtime] = state]
  /\ UNCHANGED <<fileVars, lockVars, faults>>

-----------------------------------------------------------------------------
(* rollback_failure *)

(* remove_file_if_present, remove_directory_if_empty: what is gone already *)
(* counts as removed.                                                      *)
Removable(x) == fs[x] \in {"None", "File"} \/ Empty(x)

(* The changes are undone newest first; one that cannot be is reported. *)
Newest(undo) == undo[Len(undo)]
Older(undo) == SubSeq(undo, 1, Len(undo) - 1)

Undo(p) ==
  /\ At(p, "Rollback") /\ inst[p].undo # <<>>
  /\ LET x == Newest(inst[p].undo)
         rest == Older(inst[p].undo)
     IN \/ /\ Removable(x) /\ NoFault
           /\ fs' = [fs EXCEPT ![x] = "None"] /\ by' = [by EXCEPT ![x] = "Host"]
           /\ stray' = stray \ {x}
           /\ inst' = [inst EXCEPT ![p].undo = rest]
        \/ /\ \/ ~Removable(x) /\ NoFault
              \/ Exists(x) /\ Fault
           /\ UNCHANGED <<fs, by, stray>>
           /\ inst' = [inst EXCEPT ![p].undo = rest, ![p].warned = TRUE]
  /\ UNCHANGED <<temps, host, lockVars>>

(* partial_state: a command was attempted, or a change was not undone. *)
RolledBack(p) ==
  /\ At(p, "Rollback") /\ inst[p].undo = <<>>
  /\ Ends(p, IF inst[p].tried \/ inst[p].warned THEN "Partial" ELSE "Failed")
  /\ UNCHANGED <<fileVars, host, lockVars, faults>>

-----------------------------------------------------------------------------
(* persist_install_state *)

(* The checksum's authority: the digest is upstream's only if the plan     *)
(* carried one, observed if it did not, unavailable without a receipt.     *)
Authority(p) == IF inst[p].digest = "None" THEN "Unavailable"
                ELSE IF inst[p].job.expected = "None" THEN "Observed" ELSE "Upstream"

(* The runtime is recorded as installed only when it was found healthy. *)
StatusOf(state) == IF state = "Healthy" THEN "Installed" ELSE "Failed"

(* version, a command of its own after detect's: nothing but a runtime     *)
(* that answers it can answer with a blank.                                *)
AnswersBlank(r, blank) == blank => host[r] = "Healthy"

(* The plan is done, and the runtime is looked at again: its version check *)
(* is a command too, and may leave a process that holds the output.  (The  *)
(* check before the plan may hang as well; Prepare has not happened then.) *)
Lingers(p) ==
  /\ At(p, "Step") /\ inst[p].step > Len(Plan(p)) /\ inst[p].job.runtime # "None"
  /\ ~inst[p].held /\ Fault
  /\ inst' = [inst EXCEPT ![p].held = TRUE]
  /\ UNCHANGED <<fileVars, host, lockVars>>

(* resolved_runtime_entry: the runtime is detected again.  An unreadable   *)
(* version is recorded as unknown, a blank one makes the entry invalid.    *)
Resolve(p) ==
  /\ At(p, "Step") /\ inst[p].step > Len(Plan(p)) /\ ~inst[p].held
  /\ \/ inst[p].job.runtime = "None" /\ NoFault /\ Go(p, "Open")
     \/ /\ inst[p].job.runtime # "None"
        /\ \E state \in DetectionState, blank \in BOOLEAN :
             /\ Detected(inst[p].job.runtime, state)
             /\ AnswersBlank(inst[p].job.runtime, blank)
             /\ inst' = [inst EXCEPT ![p].pc = "Open", ![p].blank = blank,
                  ![p].entry = [status |-> StatusOf(state), authority |-> Authority(p),
                                digest |-> inst[p].digest, by |-> p]]
     \/ inst[p].job.runtime # "None" /\ Fault /\ Ends(p, "Partial")
  /\ UNCHANGED <<fileVars, host, lockVars>>

(* with_exclusive_lock: the directory and the lock's file, then the wait.  *)
OpenLock(p) ==
  /\ At(p, "Open")
  /\ \E gap \in Gaps(Chain[Data]) : LET made == Range(gap)
     IN \/ /\ NoFault
           /\ fs' = [x \in Paths |-> IF x \in made THEN "Dir"
                                      ELSE IF x = LockPath THEN "File" ELSE fs[x]]
           /\ by' = [x \in Paths |-> IF x \in made THEN p ELSE by[x]]
           /\ stray' = stray \union made
           /\ Go(p, "Wait")
        \/ Fault /\ Ends(p, "Partial") /\ UNCHANGED <<fs, by, stray>>
  /\ UNCHANGED <<temps, host, lockVars>>

Unlocked == holder = "None"

Acquire(p) ==
  /\ At(p, "Wait") /\ Unlocked
  /\ holder' = p
  /\ Go(p, "Read")
  /\ UNCHANGED <<fileVars, host, doc, faults>>

ReadsAnyVersion == TRUE

(* read_lockfile, migrate: only the version this build knows is read. *)
Readable == doc.state = "Current"

(* RuntimeLockEntry::validate *)
EntryIsValid(p) ==
  /\ ~inst[p].blank
  /\ (inst[p].entry.authority = "Unavailable") = (inst[p].entry.digest = "None")

(* RuntimeLockfile::validate of the document with the new entry. *)
LockfileIsValid(p) == inst[p].job.runtime # "None" => EntryIsValid(p)

(* The unlock at the end of every path through with_exclusive_lock. *)
Release(p) == holder' = IF holder = p THEN "None" ELSE holder

(* update_or_create, up to the replacement: the document is read under the *)
(* lock (or starts empty), the entry is inserted, the whole is validated.  *)
(* A document that is there may be impossible to read.                     *)
ReadDocument(p) ==
  /\ At(p, "Read")
  /\ LET r == inst[p].job.runtime
     IN \/ /\ doc.state = "Absent" \/ Readable
           /\ LockfileIsValid(p)
           /\ inst' = [inst EXCEPT ![p].pc = "Replace",
                ![p].draft = [q \in Planned |-> IF q = r THEN inst[p].entry
                                                 ELSE doc.runtimes[q]]]
           /\ UNCHANGED holder /\ NoFault
        \/ /\ \/ (~(doc.state = "Absent" \/ Readable) \/ ~LockfileIsValid(p)) /\ NoFault
              \/ doc.state # "Absent" /\ Fault
           /\ Ends(p, "Partial") /\ Release(p)
  /\ UNCHANGED <<fileVars, host, doc>>

(* atomic_replace: a failing or interrupted write leaves the old document. *)
WriteFails(p) == UNCHANGED doc

IgnoresTheFailure == "Completed"

(* execute_install: a lockfile that could not be written is partial state. *)
Unwritten == "Partial"

(* The replacement, the unlock, and what the command reports.  An unlock   *)
(* that fails after the replacement is an error, although the lock goes    *)
(* with the file handle and the document is the new one.                   *)
ReplaceDocument(p) ==
  /\ At(p, "Replace")
  /\ Release(p)
  /\ \/ /\ doc' = [state |-> "Current", runtimes |-> inst[p].draft]
        /\ fs' = [fs EXCEPT ![DocPath] = "File"]
        /\ \/ /\ NoFault
              /\ Ends(p, IF inst[p].entry.status = "Failed" THEN "Partial" ELSE "Completed")
           \/ Fault /\ Ends(p, Unwritten)
     \/ Fault /\ WriteFails(p) /\ Ends(p, Unwritten) /\ UNCHANGED fs
  /\ UNCHANGED <<by, temps, stray, host>>

-----------------------------------------------------------------------------
Running(p) == inst[p].pc \notin {"Idle", "Done", "Crashed"}

(* No process can go on, but for what holds the output of its command. *)
InstallsRest == \A p \in Installers : Running(p) => inst[p].held

(* A holder of the token cancels (the CLI's own token never is), seen from  *)
(* where the code next looks: between steps, in the stream, at the command. *)
Cancel(p) ==
  /\ ~inst[p].stop
  /\ inst[p].pc \in {"Step", "Stream", "Command"}
  /\ Fault
  /\ inst' = [inst EXCEPT ![p].stop = TRUE]
  /\ UNCHANGED <<fileVars, host, lockVars>>

(* The process is killed: the system drops its lock, its temporary file    *)
(* and what it made stay, and its command may still change the machine.    *)
Crash(p) ==
  /\ Running(p) /\ Fault
  /\ inst' = [inst EXCEPT ![p] = [Idle EXCEPT !.pc = "Crashed", !.job = inst[p].job]]
  /\ Release(p)
  /\ \/ UNCHANGED host
     \/ (At(p, "Command") \/ At(p, "Drain")) /\ \E state \in DetectionState :
          host' = [host EXCEPT ![inst[p].job.runtime] = state]
  /\ IF At(p, "Replace") THEN WriteFails(p) ELSE UNCHANGED doc
  /\ UNCHANGED fileVars

InstallStep(p) ==
  \/ Prepare(p) \/ StopSeen(p)
  \/ CheckDirectory(p) \/ MakeDirectory(p)
  \/ StartDownload(p) \/ Send(p) \/ Stream(p) \/ Publish(p)
  \/ StartCommand(p) \/ CommandEnds(p) \/ Drain(p)
  \/ Undo(p) \/ RolledBack(p)
  \/ Resolve(p) \/ OpenLock(p) \/ Acquire(p) \/ ReadDocument(p) \/ ReplaceDocument(p)

InstallNext ==
  \E p \in Installers : InstallStep(p) \/ Cancel(p) \/ Crash(p) \/ Lingers(p) \/ Closes(p)

(* While some process can go on, one does: the host schedules them, and    *)
(* every network answer and every command ends by its time limit.  Nothing *)
(* makes what a command started close its output (Closes).  Each process   *)
(* takes finitely many steps, so fairness to each of them is not needed.   *)
SomeInstallGoesOn == \E p \in Installers : Running(p) /\ InstallStep(p)
InstallFairness == WF_installVars(SomeInstallGoesOn)

InstallSpec == InstallInit /\ [][InstallNext]_installVars /\ InstallFairness

-----------------------------------------------------------------------------
(* A failure that reports no partial state has left nothing that it        *)
(* recorded: every path of this process still there is one that it could   *)
(* not record (a create_dir_all that failed half way, a directory another  *)
(* process removed under it, a download whose directory could not be       *)
(* synced), kept in `stray`.                                               *)
CleanFailure ==
  \A p \in Installers : inst[p].report = "Failed" =>
    \A x \in Paths : Exists(x) /\ by[x] = p => x \in stray

(* While a runtime's installer command runs, no other process is running   *)
(* one for that runtime or has completed one: both may have found it       *)
(* missing (ensure_runtime_is_missing), but persist_noclobber lets only    *)
(* one of them publish the script, which stays until a rollback.           *)
SoleInstaller ==
  \A p, q \in Installers :
    /\ p # q /\ At(p, "Command")
    /\ inst[q].job.runtime = inst[p].job.runtime
    => ~At(q, "Command") /\ inst[q].report # "Completed"

(* An install that ends with exit code 0 has its runtime in the lockfile,  *)
(* whoever else updated the document in the meantime (update_or_create is  *)
(* a read-modify-write under the lock).                                    *)
CompletedIsRecorded ==
  \A p \in Installers :
    inst[p].report = "Completed" /\ inst[p].job.runtime # "None"
      => doc.runtimes[inst[p].job.runtime].by = p

(* The lockfile only gains runtimes: no crash or failing write damages it, *)
(* no process drops another's entry, and a document of a newer version is  *)
(* left as it is (atomic_replace, LockfileMigrator::migrate).              *)
RecordsSurvive ==
  [][/\ doc.state # "Absent" => doc'.state = doc.state
     /\ \A r \in Planned : doc.runtimes[r] # NoEntry => doc'.runtimes[r] # NoEntry]_installVars
=============================================================================
