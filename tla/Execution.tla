----------------------------- MODULE Execution -----------------------------
(***************************************************************************)
(* The contracts of crates/openwork-execution/src/lib.rs that every store  *)
(* and service relies on: the life cycle of runs, the statuses of          *)
(* approvals, and the kinds of audit event.                                *)
(***************************************************************************)

RunStatus ==
  {"Queued", "Planning", "AwaitingApproval", "Running",
   "Succeeded", "Failed", "Cancelled", "TimedOut"}

TerminalStatus == {"Succeeded", "Failed", "Cancelled", "TimedOut"}

IsTerminal(status) == status \in TerminalStatus

(***************************************************************************)
(* RunStatus::can_transition_to.  A terminal status has no successor and   *)
(* nothing leads back to Queued.                                           *)
(***************************************************************************)
UncheckedTransition(status, next) == TRUE

CanTransitionTo(status, next) ==
  \/ status = "Queued"
       /\ next \in {"Planning", "Failed", "Cancelled", "TimedOut"}
  \/ status = "Planning"
       /\ next \in {"AwaitingApproval", "Running"}
                     \cup {"Failed", "Cancelled", "TimedOut"}
  \/ status = "AwaitingApproval"
       /\ next \in {"Running", "Failed", "Cancelled", "TimedOut"}
  \/ status = "Running"
       /\ next \in {"AwaitingApproval"} \cup TerminalStatus

ApprovalStatus == {"Pending", "Approved", "Denied", "Expired", "Consumed"}

AuditEventType ==
  {"RunCreated", "RuntimeSelected", "SandboxCreated", "ActionRequested",
   "PolicyAllowed", "PolicyDenied", "ApprovalRequested", "ApprovalApproved",
   "ApprovalDenied", "ApprovalExpired", "ApprovalConsumed", "ActionExecuted",
   "RuntimeStarted", "RuntimeOutput", "ArtifactCreated", "RuntimeCompleted",
   "SandboxDestroyed", "RunCompleted", "RunFailed",
   "ApprovalBindingMismatch", "CancelRequested", "CancelConfirmed"}

(* transition_event of the store: the audit event of a status change. *)
TransitionEvent(status) ==
  CASE status = "Planning"         -> "RuntimeSelected"
    [] status = "AwaitingApproval" -> "ActionRequested"
    [] status = "Running"          -> "RuntimeStarted"
    [] status = "Succeeded"        -> "RunCompleted"
    [] OTHER                       -> "RunFailed"

(* The events a worker may append to a run it leases                       *)
(* (ensure_worker_runtime_event).                                          *)
WorkerEvent ==
  {"SandboxCreated", "RuntimeStarted", "RuntimeOutput",
   "RuntimeCompleted", "SandboxDestroyed"}

(* Every path to a terminal status appends exactly one of these. *)
TerminalEvent == {"RunCompleted", "RunFailed", "CancelConfirmed"}
=============================================================================
