----------------------------- MODULE Connectors -----------------------------
(***************************************************************************)
(* The control API's connectors: one child process per request speaks the  *)
(* tool protocol (initialize, tools/list, tools/call) over its pipes.      *)
(*                                                                         *)
(*   connector_runtime.rs  ConnectorRegistry::tools with its cache,        *)
(*                         call_capability, exchange, call_exchange        *)
(*   lib.rs                invoke_capability for reads, the execution of a *)
(*                         claimed action, enabling and disabling the app  *)
(*                                                                         *)
(* Requests run in parallel threads.  MaxAsked bounds the requests of a    *)
(* behaviour and MaxClock its clock.                                       *)
(***************************************************************************)
EXTENDS Naturals, FiniteSets

CONSTANTS
  Clients,      \* the request threads
  Asked,        \* client |-> its requests: [want, capability, arguments, connector]
  Configured,   \* connectors that have a process
  SuccessTtl, FailureTtl, Timeout,
  MaxClock, MaxAsked

ASSUME ConnectorAssumption == SuccessTtl \in Nat \ {0} /\ FailureTtl \in Nat

VARIABLES
  now,     \* the clock
  cache,   \* connector |-> the cached discovery, with the time it began
  app,     \* the app's installation: Absent, Enabled or Disabled
  ses,     \* the requests and their sessions
  children,\* clients whose child process is alive
  asked

connectorVars == <<now, cache, app, ses, children, asked>>

Nothing == [want |-> "None", capability |-> "None", arguments |-> "None", connector |-> "None"]
NoCache == [created |-> 0, ttl |-> 0, ok |-> FALSE, began |-> 0]
Ready == [at |-> "Idle", req |-> Nothing, t0 |-> 0, deadline |-> 0,
          ok |-> FALSE, age |-> 0]

ConnectorInit ==
  /\ now = 0
  /\ cache = [i \in Configured |-> NoCache]
  /\ app = "Absent"
  /\ ses = [c \in Clients |-> Ready]
  /\ children = {}
  /\ asked = 0

-----------------------------------------------------------------------------
(* Which tool a capability is, and whether the tool must be read-only. *)
github_mapping ==
  [read |-> [tool |-> "list", read_only |-> TRUE, fixed |-> FALSE],
   actions |-> [tool |-> "actions", read_only |-> TRUE, fixed |-> TRUE],
   create |-> [tool |-> "issue_write", read_only |-> FALSE, fixed |-> TRUE]]

Mapped(req) == req.capability \in DOMAIN github_mapping
Mapping(c) == github_mapping[ses[c].req.capability]

(* github_arguments: an object, and no other method than the fixed one. *)
github_arguments(req) ==
  /\ req.arguments # "NotAnObject"
  /\ github_mapping[req.capability].fixed => req.arguments # "OtherMethod"

Opens(c, req, t0) ==
  ses' = [ses EXCEPT ![c] = [Ready EXCEPT !.at = "Spawn", !.req = req, !.t0 = t0]]

(* Every request counts, whether it is refused or opens a session. *)
Asks == asked < MaxAsked /\ asked' = asked + 1
Refuses(c) == UNCHANGED ses

(* call_capability up to the session. *)
call_capability(c, req) ==
  IF Mapped(req) /\ github_arguments(req) /\ "github" \in Configured
  THEN Opens(c, req, 0) ELSE Refuses(c)

(* The capabilities that invoke_capability dispatches at once: an external *)
(* effect goes through an approval instead, other connectors do not run.   *)
Dispatched(req) == req.capability # "create" /\ req.connector = "github"

(* validate_capability_parameters: the descriptor's input schema. *)
validate_capability_parameters(req) == req.arguments # "OffSchema"

(* The app must be installed and enabled. *)
Permitted == app = "Enabled"

(* invoke_capability for a capability without an external effect. *)
InvokeRead(c) ==
  /\ ses[c].at = "Idle" /\ Asks
  /\ \E req \in Asked[c] :
       /\ req.want = "Invoke"
       /\ IF validate_capability_parameters(req) /\ Permitted /\ Dispatched(req)
          THEN call_capability(c, req) ELSE Refuses(c)
  /\ UNCHANGED <<now, cache, app, children>>

(* execute_claimed_github_capability: only the one claimed capability. *)
ExecuteClaimed(c) ==
  /\ ses[c].at = "Idle" /\ Asks
  /\ \E req \in Asked[c] :
       /\ req.want = "Claimed"
       /\ IF req.capability = "create" THEN call_capability(c, req) ELSE Refuses(c)
  /\ UNCHANGED <<now, cache, app, children>>

-----------------------------------------------------------------------------
(* The cache *)

Fresh(e) == now - e.created < e.ttl

(* ConnectorRegistry::tools, up to the discovery: unknown and unconfigured *)
(* connectors are errors, a fresh entry is the answer, good or bad.  The   *)
(* age of an answer counts from when its discovery began.                  *)
Lookup(c) ==
  /\ ses[c].at = "Idle" /\ Asks
  /\ \E req \in Asked[c] :
       /\ req.want = "Tools"
       /\ \/ req.connector \notin Configured /\ Refuses(c)
          \/ /\ req.connector \in Configured /\ Fresh(cache[req.connector])
             /\ ses' = [ses EXCEPT ![c] = [Ready EXCEPT
                          !.ok = cache[req.connector].ok,
                          !.age = now - cache[req.connector].began]]
          \/ /\ req.connector \in Configured /\ ~Fresh(cache[req.connector])
             /\ Opens(c, req, now)
  /\ UNCHANGED <<now, cache, app, children>>

StampsTheEnd(c) == now

(* The entry's time is the one read before the discovery. *)
Stamp(c) == ses[c].t0

(* The discovery's result enters the cache, whatever is there by now. *)
Insert(c) ==
  /\ ses[c].at = "Insert"
  /\ cache' = [cache EXCEPT ![ses[c].req.connector] =
       [created |-> Stamp(c), ok |-> ses[c].ok, began |-> ses[c].t0,
        ttl |-> IF ses[c].ok THEN SuccessTtl ELSE FailureTtl]]
  /\ ses' = [ses EXCEPT ![c] = Ready]
  /\ UNCHANGED <<now, app, children, asked>>

-----------------------------------------------------------------------------
(* The session *)

Live(c) == ses[c].at \in {"Init", "List", "Call"}   \* waits for a line, up to a deadline
InTime(c) == now <= ses[c].deadline
Sends(c, label) == ses' = [ses EXCEPT ![c].at = label]
Concludes(c, ok) == ses' = [ses EXCEPT ![c].at = "Kill", ![c].ok = ok, ![c].deadline = 0]

(* spawn, and the initialize message; the deadline counts from there.  The *)
(* pipe to the child has room for it and for tools/list, read or not.      *)
Spawn(c) ==
  /\ ses[c].at = "Spawn"
  /\ \/ /\ children' = children \union {c}
        /\ ses' = [ses EXCEPT ![c].at = "Init", ![c].deadline = now + Timeout]
     \/ UNCHANGED children /\ Concludes(c, FALSE)
  /\ UNCHANGED <<now, cache, app, asked>>

(* A response to initialize that carries a result. *)
Initialized(c) ==
  /\ ses[c].at = "Init" /\ InTime(c)
  /\ Sends(c, "List")
  /\ UNCHANGED <<now, cache, app, children, asked>>

(* The tool list ends a discovery. *)
Discovered(c) ==
  /\ ses[c].at = "List" /\ InTime(c) /\ ses[c].req.want = "Tools"
  /\ Concludes(c, TRUE)
  /\ UNCHANGED <<now, cache, app, children, asked>>

(* The mapped tool must be listed, and be read-only if the mapping says so. *)
Acceptable(c, tool) ==
  /\ tool # "Absent"
  /\ Mapping(c).read_only => tool = "ReadOnly"

(* The parameters' size: over the limit once the fixed method is added to  *)
(* them, or under it but more than the pipe holds.                         *)
Oversized(c) == ses[c].req.arguments = "Oversized"
FitsThePipe(c) == ses[c].req.arguments # "Large"

(* The tool list of a call: what it says of the mapped tool decides, then  *)
(* tools/call is sent, unless the parameters are too large.                *)
Listed(c) ==
  /\ ses[c].at = "List" /\ InTime(c) /\ ses[c].req.want # "Tools"
  /\ \E tool \in {"Absent", "ReadOnly", "Writes"} :
       IF Acceptable(c, tool) /\ ~Oversized(c)
       THEN Sends(c, IF FitsThePipe(c) THEN "Call" ELSE "Send")
       ELSE Concludes(c, FALSE)
  /\ UNCHANGED <<now, cache, app, children, asked>>

(* send_json blocks on a message that the pipe has no room for until the   *)
(* child has read enough of it, or has closed the pipe; the deadline does  *)
(* not end the write.                                                      *)
Sent(c) ==
  /\ ses[c].at = "Send"
  /\ Sends(c, "Call") \/ Concludes(c, FALSE)
  /\ UNCHANGED <<now, cache, app, children, asked>>

(* The tool's answer: a result that is not an error. *)
Answered(c) ==
  /\ ses[c].at = "Call" /\ InTime(c)
  /\ Concludes(c, TRUE)
  /\ UNCHANGED <<now, cache, app, children, asked>>

(* receive_response, parse_tools, send_json: a line that is too long or no *)
(* JSON, the end of the output, an error answer, a list over its limits, a *)
(* closed pipe.  A line with another id is skipped and changes nothing.    *)
Garbled(c) ==
  /\ Live(c) /\ InTime(c)
  /\ Concludes(c, FALSE)
  /\ UNCHANGED <<now, cache, app, children, asked>>

WaitsForTheChild(c) == FALSE

(* The deadline ends the wait for a line; at the bound of the clock every  *)
(* deadline has passed.                                                    *)
PastDeadline(c) == now >= ses[c].deadline \/ now = MaxClock

TimedOut(c) ==
  /\ Live(c) /\ PastDeadline(c)
  /\ Concludes(c, FALSE)
  /\ UNCHANGED <<now, cache, app, children, asked>>

(* The child is killed and reaped whatever the session's result is. *)
AfterKill(c) == children \ {c}

Kill(c) ==
  /\ ses[c].at = "Kill"
  /\ children' = AfterKill(c)
  /\ IF ses[c].req.want = "Tools" THEN Sends(c, "Insert") ELSE ses' = [ses EXCEPT ![c] = Ready]
  /\ UNCHANGED <<now, cache, app, asked>>

-----------------------------------------------------------------------------
(* install_app: an entry that is there keeps its state. *)
Installed == IF app = "Absent" THEN "Enabled" ELSE app

install_app == app' = Installed /\ UNCHANGED <<now, cache, ses, children, asked>>

(* set_app_enabled: an app that is not installed is a conflict. *)
set_app_enabled(state) ==
  /\ app # "Absent"
  /\ app' = state
  /\ UNCHANGED <<now, cache, ses, children, asked>>

Tick == now < MaxClock /\ now' = now + 1
        /\ UNCHANGED <<cache, app, ses, children, asked>>

(* No request runs, but for writes that the child does not read. *)
RequestsRest == \A c \in Clients : ses[c].at \in {"Idle", "Send"}

Request(c) == Lookup(c) \/ InvokeRead(c) \/ ExecuteClaimed(c)
ChildActs(c) ==
  Initialized(c) \/ Discovered(c) \/ Listed(c) \/ Sent(c) \/ Answered(c) \/ Garbled(c)
Proceeds(c) == Spawn(c) \/ TimedOut(c) \/ Kill(c) \/ Insert(c)

ConnectorNext ==
  \/ \E c \in Clients : Request(c) \/ ChildActs(c) \/ Proceeds(c)
  \/ install_app
  \/ \E state \in {"Enabled", "Disabled"} : set_app_enabled(state)
  \/ Tick

(* Time passes, and while some thread can go on, one does; the child need  *)
(* not say anything, nor read.                                             *)
SomeRequestGoesOn == \E c \in Clients : Proceeds(c)
ConnectorFairness == WF_connectorVars(Tick) /\ WF_connectorVars(SomeRequestGoesOn)

ConnectorSpec == ConnectorInit /\ [][ConnectorNext]_connectorVars /\ ConnectorFairness

-----------------------------------------------------------------------------
(* An answer taken from the cache is younger than its time to live, counted *)
(* from when its discovery asked the connector: although discoveries run    *)
(* without the lock and an older one may replace a newer one's entry, its   *)
(* age comes with it (ConnectorRegistry::tools reads the time first).       *)
CacheIsFresh ==
  \A c \in Clients : ses[c].at = "Idle" =>
    ses[c].age < (IF ses[c].ok \/ ses[c].age = 0 THEN SuccessTtl ELSE FailureTtl)
=============================================================================
