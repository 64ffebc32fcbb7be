------------------------------- MODULE MCHost -------------------------------
(* A host with a managed directory under a missing parent and a cache      *)
(* beside it, two runtimes with an installer, others without.             *)
EXTENDS Install, Connectors, LocalApps

VARIABLE scene   \* which part of the host moves

MCChain ==
  [Share |-> <<"Share">>, Data |-> <<"Share", "Data">>,
   Lock |-> <<"Share", "Data", "Lock">>, Doc |-> <<"Share", "Data", "Doc">>,
   Cache |-> <<"Cache">>, Downloads |-> <<"Cache", "Downloads">>,
   ClaudeScript |-> <<"Cache", "Downloads", "ClaudeScript">>,
   CodexScript |-> <<"Cache", "Downloads", "CodexScript">>]

MCDirs == <<"Data">>
MCScript == [claude |-> "ClaudeScript", codex |-> "CodexScript"]

Job(r, e, x) == [runtime |-> r, source |-> "Listed", expected |-> e, execute |-> x]

(* The second process meets every kind of request beside the first's. *)
MCRequests ==
  [a |-> {Job("claude", "None", TRUE)},
   b |-> {Job("claude", "None", TRUE), Job("codex", "Good", TRUE),
          [Job("codex", "Invalid", TRUE) EXCEPT !.source = "Other"], Job("None", "None", TRUE),
          Job("opencode", "None", TRUE), Job("unheard-of", "None", TRUE),
          Job("codex", "None", FALSE)}]

Bare == [x \in DOMAIN MCChain |-> "None"]

NewUser == [Bare EXCEPT !["Cache"] = "Dir"]
InUse == [Bare EXCEPT !["Share"] = "Dir", !["Data"] = "Dir"]

(* Nothing there yet but the cache; directories in use and a newer build's *)
(* lockfile; a file in the place of a directory; a file in the place of    *)
(* its parent.                                                             *)
MCHosts ==
  {[fs |-> NewUser, doc |-> "Absent"],
   [fs |-> [InUse EXCEPT !["Doc"] = "File", !["Cache"] = "Dir", !["Downloads"] = "Dir"],
    doc |-> "Newer"],
   [fs |-> [InUse EXCEPT !["Data"] = "File"], doc |-> "Absent"],
   [fs |-> [Bare EXCEPT !["Share"] = "File"], doc |-> "Absent"]}

-----------------------------------------------------------------------------
Ask(w, cap, args, conn) ==
  [want |-> w, capability |-> cap, arguments |-> args, connector |-> conn]

MCAsked ==
  [c1 |-> {Ask("Tools", "None", "None", "github"), Ask("Tools", "None", "None", "lark"),
           Ask("Claimed", "create", "Plain", "github"),
           Ask("Claimed", "unknown", "Plain", "github")},
   c2 |-> {Ask("Tools", "None", "None", "github"), Ask("Invoke", "read", "Large", "github"),
           Ask("Invoke", "actions", "Oversized", "github"),
           Ask("Invoke", "actions", "OtherMethod", "github"),
           Ask("Invoke", "create", "Plain", "github"), Ask("Invoke", "read", "Plain", "lark"),
           Ask("Invoke", "read", "OffSchema", "github")}]

MCTarget ==
  [p \in {"x", "y", "z", "u", "v"} |->
     IF p \in {"x", "z"} THEN "github" ELSE IF p = "u" THEN "unreviewed" ELSE "lark"]
MCEnvironment == [x |-> "Both", y |-> "Neither", z |-> "Both", u |-> "Both", v |-> "One"]

hostVars == <<installVars, connectorVars, localVars, scene>>

HostInit ==
  /\ InstallInit /\ ConnectorInit /\ LocalInit
  /\ scene \in {"Install", "Connectors", "Apps"}
  /\ scene # "Install" => fs = NewUser

HostNext ==
  /\ \/ scene = "Install" /\ InstallNext /\ UNCHANGED <<connectorVars, localVars>>
     \/ scene = "Connectors" /\ ConnectorNext /\ UNCHANGED <<installVars, localVars>>
     \/ scene = "Apps" /\ LocalNext /\ UNCHANGED <<installVars, connectorVars>>
  /\ UNCHANGED scene

(* The fairness of the part that moves. *)
HostFairness ==
  /\ WF_installVars(scene = "Install" /\ SomeInstallGoesOn)
  /\ WF_connectorVars(scene = "Connectors" /\ Tick)
  /\ WF_connectorVars(scene = "Connectors" /\ SomeRequestGoesOn)
  /\ WF_localVars(scene = "Apps" /\ SomeAppGoesOn)

HostSpec == HostInit /\ [][HostNext]_hostVars /\ HostFairness

(* Only another program can keep what was started from ending.  An install *)
(* reports unless its process is killed or something its command started   *)
(* keeps the output open (join_stream has no time limit), and even then    *)
(* nobody else waits for the lockfile's lock for ever                      *)
(* (with_exclusive_lock); a connector request is answered though its child *)
(* may never say a word (receive_response's deadline), unless the child    *)
(* does not read parameters that the pipe has no room for (send_json has   *)
(* no deadline); an app install ends whatever the control API and the      *)
(* other commands do.                                                      *)
EverythingEnds == []<>(InstallsRest /\ RequestsRest /\ NoCommandRuns)
=============================================================================
