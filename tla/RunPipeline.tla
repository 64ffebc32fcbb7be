---------------------------- MODULE RunPipeline -----------------------------
(***************************************************************************)
(* One run from its prepared task to its terminal status, as               *)
(* ExecutionOrchestrator::execute_with_output_processor drives it: the     *)
(* provider adapter prepares the invocation, the sandbox executes it, the  *)
(* provider's decoder turns the captured lines into runtime events, the    *)
(* scanner records the artifacts, and the store gets the outcome.  Another *)
(* caller may write the run meanwhile.                                     *)
(*                                                                         *)
(* A record of provider output is represented by its kind.  Decoding is a  *)
(* pure fold over the lines; everything else is a step.                    *)
(***************************************************************************)
EXTENDS Sandbox, Execution

CONSTANTS
  Main,        \* the execution that serves the run
  Providers,   \* the providers tried, of claude, codex, pi and opencode
  Tasks,       \* the tasks: [runtime, caps, long]
  MaxEvents    \* MAX_RUNTIME_EVENTS (4096)

ASSUME PipelineAssumption ==
  Main \in Execs /\ MaxEvents \in Nat /\ Providers \subseteq {"claude", "codex", "pi", "opencode"}

VARIABLES
  stage,      \* where execute_with_output_processor is
  provider,   \* the adapter, fixed when its decoder is first used
  status,     \* the store: status of the run,
  rev,        \*   its revision,
  stored,     \*   the number of its artifacts, none yet if negative
  seen,       \* the revision in the orchestrator's copy of the run
  decoded,    \* the events of the decoded output
  unsaved     \* a store call of the orchestrator has failed

run == <<stage, provider, status, rev, stored, seen, decoded, unsaved>>
vars == <<scene, sandbox, run>>

-----------------------------------------------------------------------------
(* Task preparation and JSONL decoding (openwork-runtime/src/task) *)

(* validate_task, called first by every adapter's prepare; the adapters    *)
(* differ in the command line they build.                                  *)
ValidateTask(p, t) ==
  /\ t.runtime = p /\ ~t.long
  /\ t.caps \subseteq {"filesystem.read", "filesystem.write"}
  /\ "filesystem.read" \in t.caps

(* The records every decoder refuses: an empty line or one over the limit; *)
(* what is not a JSON object with a type; an object that repeats a key; a  *)
(* text, a value or metadata over the event limit; an event that is over   *)
(* it only as a whole.                                                     *)
BadLine == {"Empty"}
Malformed == {"Malformed"}
Repeated == {"Repeated"}
Oversized == {"Oversized"}
TooLarge == {"TooLarge"}

Unreadable == BadLine \cup Malformed \cup Repeated \cup Oversized \cup TooLarge

(* What each decoder makes of any other stdout record. *)
ClaudeAssistant(k) ==
  CASE k = "Text" -> <<"Message">>
    [] k = "Tool" -> <<"ToolCall">>
    [] k = "Blocks" -> <<"Message", "ToolCall">>

ClaudePayloads(k) ==
  CASE k = "Start" -> <<"Started">>
    [] k \in {"Text", "Tool", "Blocks"} -> ClaudeAssistant(k)
    [] k = "Failure" -> <<"Failed">>
    [] OTHER -> <<"Message">>

CodexItem(k) == IF k = "Tool" THEN <<"ToolCall">> ELSE <<"Message">>

CodexPayloads(k) ==
  CASE k = "Start" -> <<"Started">>
    [] k \in {"Text", "Tool"} -> CodexItem(k)
    [] k = "Failure" -> <<"Failed">>
    [] OTHER -> <<"Message">>

PiPayloads(k) ==
  CASE k = "Start" -> <<"Started">>
    [] k = "Text" -> <<"Message">>
    [] k = "Tool" -> <<"ToolCall">>
    [] k = "Failure" -> <<"Failed">>
    [] OTHER -> <<>>

OpenCodePayloads(k) ==
  CASE k = "Start" -> <<"Started">>
    [] k = "Text" -> <<"Message">>
    [] k \in {"Tool", "Part"} -> <<"ToolCall">>
    [] k = "Failure" -> <<"Failed">>
    [] OTHER -> <<>>

Payloads(p, k) ==
  CASE p = "claude" -> ClaudePayloads(k)
    [] p = "codex"  -> CodexPayloads(k)
    [] p = "pi"     -> PiPayloads(k)
    [] OTHER        -> OpenCodePayloads(k)

TerminalPayload == {"Completed", "Failed"}

(* EventFactory::new, the events accepted so far, and whether all went well. *)
NewDecoder == [events |-> <<>>, next |-> 1, terminal |-> FALSE, ok |-> TRUE]

Broken(d) == [d EXCEPT !.ok = FALSE]

LastEvent(d) == d.events[Len(d.events)]

EndsTerminal(d) == d.events # <<>> /\ LastEvent(d) \in TerminalPayload


Emit(d, payload) ==
  IF ~d.ok \/ d.terminal \/ d.next > MaxEvents \/ EndsTerminal(d) \/ d.next # Len(d.events) + 1
  THEN Broken(d)
  ELSE [d EXCEPT !.events = Append(@, payload), !.next = @ + 1,
                 !.terminal = payload \in TerminalPayload]

EmitAll(d, payloads) ==
  LET after[i \in 0..Len(payloads)] == IF i = 0 THEN d ELSE Emit(after[i - 1], payloads[i])
  IN  after[Len(payloads)]

DecodeStdoutLine(p, d, k) ==
  IF k \in Unreadable THEN Broken(d) ELSE EmitAll(d, Payloads(p, k))

DecodeStdoutLines(p, d, lines) ==
  LET after[i \in 0..Len(lines)] ==
        IF i = 0 THEN d ELSE DecodeStdoutLine(p, after[i - 1], lines[i])
  IN  after[Len(lines)]

(* EventFactory::stderr takes any text of an acceptable length. *)
BadStderr == BadLine \cup Oversized \cup TooLarge

DecodeStderrLine(d, k) == IF k \in BadStderr THEN Broken(d) ELSE Emit(d, "Stderr")

DecodeStderrLines(d, lines) ==
  LET after[i \in 0..Len(lines)] ==
        IF i = 0 THEN d ELSE DecodeStderrLine(after[i - 1], lines[i])
  IN  after[Len(lines)]

(* EventFactory::finish and the terminal event it must leave. *)
Finish(d, code) ==
  CASE ~d.ok -> d
    [] d.terminal -> IF EndsTerminal(d) THEN d ELSE Broken(d)
    [] OTHER -> Emit(d, IF code = "Zero" THEN "Completed" ELSE "Failed")

(* decode_sandbox_result: stdout before stderr, and the exit code last.    *)
DecodeSandboxResult(p, disposal, truncated, out, err, end) ==
  LET read == DecodeStdoutLines(p, NewDecoder, out)
      both == DecodeStderrLines(read, err)
  IN  IF disposal # "Succeeded" \/ truncated THEN Broken(NewDecoder)
      ELSE IF end.kind = "Exited" THEN Finish(both, end.code) ELSE both

-----------------------------------------------------------------------------
(* The run the caller hands over: as a rule just created, else one that    *)
(* something has already moved on.  Revisions count from the creation; the *)
(* ones before the run was handed over are not told apart.                 *)
Given ==
  \/ status = "Queued" /\ rev = 0
  \/ scene = "Run" /\ status \in RunStatus \ {"Queued"} /\ rev = 1

Init ==
  /\ SandboxInit
  /\ scene \in {"Run", "Shared"}
  /\ stage = "Prepare" /\ provider = "claude"
  /\ Given /\ stored = -1 /\ seen = rev
  /\ decoded = NewDecoder /\ unsaved = FALSE

-----------------------------------------------------------------------------
(* The orchestrator *)

At(s) == stage = s /\ scene = "Run"
To(s) == stage' = s

Writable(next) == rev = seen /\ CanTransitionTo(status, next)

Write(next) == status' = next /\ rev' = rev + 1 /\ seen' = rev + 1

Keeps == UNCHANGED <<status, rev, seen>>

Transition(next, then) ==
  \/ Writable(next) /\ Write(next) /\ To(then) /\ UNCHANGED <<unsaved, faults>>
  \/ ~Writable(next) /\ Keeps /\ To("End") /\ UNCHANGED <<unsaved, faults>>
  \/ Fault /\ Keeps /\ To("End") /\ unsaved' = TRUE

(* prepare and into_sandbox_request; then execute_with_output_processor    *)
(* refuses a request for another run, and plans a run that is queued.      *)
Prepare ==
  /\ At("Prepare")
  /\ \E p \in Providers, t \in Tasks, matches \in BOOLEAN :
       To(CASE ~ValidateTask(p, t) \/ ~matches -> "End"
            [] status = "Queued" -> "Plan"
            [] OTHER -> "Start")
  /\ UNCHANGED <<sandbox, provider, status, rev, stored, seen, decoded, unsaved>>

Plan ==
  /\ At("Plan") /\ Transition("Planning", "Start")
  /\ UNCHANGED <<pc, container, outcome, temporary, guards, active, callers,
                 provider, stored, decoded>>

StartRun ==
  /\ At("Start") /\ Transition("Running", "Execute")
  /\ UNCHANGED <<pc, container, outcome, temporary, guards, active, callers,
                 provider, stored, decoded>>

CallSandbox ==
  /\ At("Execute") /\ pc[Main] = "Idle"
  /\ Go(Main, "Mounts") /\ To("Await")
  /\ UNCHANGED <<container, outcome, temporary, guards, active, callers, faults,
                 provider, status, rev, stored, seen, decoded, unsaved>>

(* validate_sandbox_result: an error, or disposal that is not proven, ends *)
(* the run as failed.                                                      *)
ResultValid == answer[Main] = "Result" /\ cleanup[Main] = "Succeeded"

(* On an error path the result is not looked at again. *)
DropResult ==
  /\ capture' = [capture EXCEPT ![Main] = NoCapture]
  /\ files' = [files EXCEPT ![Main] = 0] /\ tree' = [tree EXCEPT ![Main] = EmptyTree]

Validate ==
  /\ At("Await") /\ pc[Main] = "Done"
  /\ \/ ResultValid /\ To("Process") /\ UNCHANGED <<capture, files, tree>>
     \/ ~ResultValid /\ To("Fail") /\ DropResult
  /\ UNCHANGED <<pc, container, ended, cleanup, answer, temporary, guards, active, callers,
                 faults, provider, status, rev, stored, seen, decoded, unsaved>>

(* decode_output leaves nothing of a stream that is not text, and counts   *)
(* the output as truncated.                                                *)
Binary(lines) == \E i \in DOMAIN lines : lines[i] = "Binary"

Text(lines) == IF Binary(lines) THEN <<>> ELSE lines

Kept(c) == SubSeq(c.log.out, 1, c.out)
KeptErr(c) == SubSeq(c.log.err, 1, c.err)

Cut(c) == c.truncated \/ Binary(Kept(c)) \/ Binary(KeptErr(c))

Processed(p) ==
  LET c == capture[Main]
  IN  DecodeSandboxResult(p, cleanup[Main], Cut(c), Text(Kept(c)), Text(KeptErr(c)), ended[Main])

ProcessOutput ==
  /\ At("Process")
  /\ provider' \in Providers
  /\ decoded' = Processed(provider')
  /\ To(CASE ~decoded'.ok -> "Fail"
         [] ended[Main].kind = "Exited" -> "Scan"
         [] OTHER -> "Complete")
  /\ UNCHANGED <<sandbox, status, rev, stored, seen, unsaved>>

(* scan_one: a regular file beneath the root, within the limit. *)
SafePath(t) == ~t.special
Scannable(t) == SafePath(t) /\ ~t.large

(* record_artifacts: ArtifactScanner::scan of every path, all or nothing,  *)
(* and the write of the batch.  A file that changed since it was listed,   *)
(* or a store that refuses, is an error.                                   *)
ScanAndRecord ==
  /\ At("Scan")
  /\ \/ /\ Scannable(tree[Main]) /\ stored' = files[Main]
        /\ To("Complete") /\ UNCHANGED faults
     \/ ~Scannable(tree[Main]) /\ To("Fail") /\ UNCHANGED <<stored, faults>>
     \/ Fault /\ To("Fail") /\ UNCHANGED stored
  /\ UNCHANGED <<pc, container, outcome, temporary, guards, active, callers,
                 provider, status, rev, seen, decoded, unsaved>>

(* The failure recorded on the error paths; what the store says of it is   *)
(* ignored.                                                                *)
LeaveRunning(next, then) == Keeps /\ To(then) /\ UNCHANGED <<unsaved, faults>>

RecordFailure(next, then) == Transition(next, then)

FailRun ==
  /\ At("Fail") /\ RecordFailure("Failed", "End")
  /\ DropResult /\ provider' = "claude" /\ decoded' = NewDecoder
  /\ UNCHANGED <<pc, container, ended, cleanup, answer, temporary, guards, active, callers,
                 stored>>

AnyExitSucceeds(end) ==
  CASE end.kind = "Exited"    -> "Succeeded"
    [] end.kind = "Cancelled" -> "Cancelled"
    [] end.kind = "TimedOut"  -> "TimedOut"
    [] OTHER                  -> "Failed"

Terminal(end) ==
  CASE end = Exited("Zero")   -> "Succeeded"
    [] end.kind = "Cancelled" -> "Cancelled"
    [] end.kind = "TimedOut"  -> "TimedOut"
    [] OTHER                  -> "Failed"

Complete ==
  /\ At("Complete") /\ Transition(Terminal(ended[Main]), "End")
  /\ UNCHANGED <<pc, container, outcome, temporary, guards, active, callers,
                 provider, stored, decoded>>

(* Another caller's transition of the same run.  The orchestrator does not *)
(* look at the store while the sandbox works, so it is enough to let this  *)
(* happen before and after.                                                *)
Interfere ==
  /\ stage = "Await" => pc[Main] = "Done"
  /\ scene = "Run" /\ stage \notin {"Prepare", "End"} /\ rev = seen
  /\ \E next \in {"AwaitingApproval", "Failed"} :
       CanTransitionTo(status, next) /\ status' = next
  /\ rev' = rev + 1
  /\ UNCHANGED <<sandbox, stage, provider, stored, seen, decoded, unsaved>>

(* In the shared scene the executions are called directly.                 *)
CallDirectly(e) ==
  /\ scene = "Shared" /\ pc[e] = "Idle" /\ (e = Main \/ pc[Main] # "Idle")
  /\ Go(e, "Mounts")
  /\ UNCHANGED <<container, outcome, temporary, guards, active, callers, faults, run>>

Orchestrator ==
  \/ Prepare \/ Plan \/ StartRun \/ CallSandbox \/ Validate \/ ProcessOutput
  \/ ScanAndRecord \/ FailRun \/ Complete

Next ==
  /\ \/ Orchestrator \/ Interfere
     \/ \E e \in Execs : CallDirectly(e)
     \/ SandboxNext /\ UNCHANGED run
  /\ UNCHANGED scene

Spec == Init /\ [][Next]_vars

(* Every thread is scheduled (execute runs in the orchestrator's), a       *)
(* client command ends by its timeout, and time passes; nothing makes a    *)
(* container end by itself.                                                *)
Fairness ==
  /\ WF_vars((Orchestrator \/ (ExecStep(Main) /\ UNCHANGED run)) /\ UNCHANGED scene)
  /\ WF_vars(AttachEnds(Main) /\ UNCHANGED <<run, scene>>)
  /\ WF_vars(DeadlinePasses(Main) /\ UNCHANGED <<run, scene>>)
  /\ \A c \in Callers : WF_vars(CallStep(c) /\ UNCHANGED <<run, scene>>)

FairSpec == Spec /\ Fairness

-----------------------------------------------------------------------------
(* Properties *)

(* monitor_container and cancel: when cancel has confirmed a kill, the     *)
(* execution is never reported as having exited, timed out or run out of   *)
(* memory, whoever looked at the container first.                          *)
CancelIsNotMistaken ==
  \A e \in Execs :
    confirmed[e] => ended[e].kind \in {"None", "Cancelled", "Failed"}

(* ContainerGuard and OwnedTemporaryDirectory: on every return path the    *)
(* container and the directory are gone, with two exceptions that only a   *)
(* failure of the engine, its client or the file system, or a cleanup from *)
(* outside, brings about: the removal itself failed, or the id of the      *)
(* container could not be read, in which case execute returns an error     *)
(* without having tried.  A create that was refused but left an id is      *)
(* cleaned up; the directories of other processes are never touched.       *)
NothingLeftBehind ==
  /\ Leftovers \subseteq dirs
  /\ \A e \in Execs :
       pc[e] = "Done" =>
         /\ box[e] \notin {"None", "Removed"} =>
              /\ guard[e] = "Armed" \/ (answer[e] = "Error" /\ cid[e] # "Whole")
              /\ faults > 0 \/ cleaned
         /\ answer[e] = "Result" /\ cleanup[e] = "Succeeded" => box[e] = "Removed"
  /\ (\A e \in Execs : pc[e] \in {"Idle", "Done"}) /\ faults = 0 => dirs = Leftovers

(* The records a decoder accepts and the events it makes of them, said     *)
(* without a decoder: a stream is accepted when every record is readable,  *)
(* nothing follows a failure record and the events fit the budget, nothing *)
(* was cut off, and its last event tells whether the provider completed.   *)
Produced(p, out) ==
  LET upTo[i \in 0..Len(out)] == IF i = 0 THEN 0 ELSE upTo[i - 1] + Len(Payloads(p, out[i]))
  IN  upTo[Len(out)]

Reference(p, cut, out, err, code) ==
  LET failures == {i \in 1..Len(out) : out[i] = "Failure"}
      first == CHOOSE i \in failures : \A j \in failures : i <= j
      total == Produced(p, out) + Len(err) + IF failures = {} THEN 1 ELSE 0
  IN  [ok |-> /\ ~cut
              /\ \A i \in 1..Len(out) : out[i] \notin Unreadable
              /\ \A i \in 1..Len(err) : err[i] \notin {"Empty", "Oversized", "TooLarge"}
              /\ total <= MaxEvents
              /\ failures # {} => err = <<>> /\ Produced(p, SubSeq(out, first + 1, Len(out))) = 0,
       end |-> IF failures = {} /\ code = "Zero" THEN "Completed" ELSE "Failed"]


(* execute_with_output_processor: a run it started succeeds only after an  *)
(* exit with code 0, with the container that wrote the output gone, the    *)
(* output complete and decoded, and every collected file recorded as an    *)
(* artifact.                                                               *)
SucceededIsProven ==
  status = "Succeeded" /\ rev > 1 =>
    /\ ended[Main] = Exited("Zero") /\ cleanup[Main] = "Succeeded"
    /\ box[Main] = "Removed" /\ ~capture[Main].truncated
    /\ decoded.ok /\ stored = files[Main]

(* When the orchestrator returns, a run it has put into Running has ended, *)
(* unless the store failed it or another caller took the run over: no      *)
(* error path leaves the run Running.                                      *)
NoRunLeftOpen ==
  stage = "End" /\ ~unsaved /\ rev = seen /\ rev > 1 => IsTerminal(status)

(* Every run given to the sandbox comes back: a container that never ends  *)
(* is stopped by the deadline, its attachment does not hold the monitor,   *)
(* no lock is kept, and the orchestrator reaches its end on every path.    *)
RunReturns == stage = "Await" ~> stage = "End"
=============================================================================
