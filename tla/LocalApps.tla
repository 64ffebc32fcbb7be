------------------------------ MODULE LocalApps ------------------------------
(***************************************************************************)
(* `openwork app install`: several processes of one host record apps in    *)
(* one local document, and in the control API where one is configured.     *)
(*                                                                         *)
(*   openwork-cli  execute_app_install, install_app_in_control_api,        *)
(*                 read_local_app_state, write_local_app_state             *)
(*                                                                         *)
(* The document is read, changed and written in place without a lock, so   *)
(* the write is two steps: the file is emptied, then filled.  MaxBreaks    *)
(* bounds the failing calls and the crashes of a behaviour.                *)
(***************************************************************************)
EXTENDS Naturals, FiniteSets

CONSTANTS
  Commands,    \* the processes
  Target,      \* process |-> the app it installs
  Reviewed,    \* the apps of the local registry
  Environment, \* process |-> which API variables are set: Both, One or Neither
  MaxBreaks

VARIABLES
  record,    \* the document: its state and the apps in it
  accepted,  \* the apps the control API has installed
  cmd,       \* the processes
  breaks

localVars == <<record, accepted, cmd, breaks>>

LocalInit ==
  /\ record = [state |-> "Absent", installed |-> {}]
  /\ accepted = {}
  /\ cmd = [p \in Commands |-> [pc |-> "Idle", draft |-> {}]]
  /\ breaks = 0

Active(p) == cmd[p].pc \notin {"Idle", "Completed", "Failed", "Crashed"}
NoCommandRuns == \A p \in Commands : ~Active(p)
To(p, label) == cmd' = [cmd EXCEPT ![p].pc = label]
Breaks == breaks < MaxBreaks /\ breaks' = breaks + 1
Holds == UNCHANGED breaks

-----------------------------------------------------------------------------
(* The app must be in the reviewed registry. *)
Start(p) ==
  /\ cmd[p].pc = "Idle"
  /\ To(p, IF Target[p] \in Reviewed THEN "Remote" ELSE "Failed")
  /\ UNCHANGED <<record, accepted, breaks>>

(* A request that failed ends the command before the local record. *)
Rejected == "Failed"

(* install_app_in_control_api: skipped without both variables, an error    *)
(* with one.  A request that failed may have been carried out all the same. *)
Remote(p) ==
  /\ cmd[p].pc = "Remote"
  /\ \/ /\ Environment[p] = "Neither" /\ Holds
        /\ To(p, "Read") /\ UNCHANGED accepted
     \/ /\ Environment[p] = "One" /\ Holds
        /\ To(p, "Failed") /\ UNCHANGED accepted
     \/ /\ Environment[p] = "Both" /\ Holds
        /\ To(p, "Read") /\ accepted' = accepted \union {Target[p]}
     \/ /\ Environment[p] = "Both" /\ Breaks
        /\ To(p, Rejected) /\ accepted' \in {accepted, accepted \union {Target[p]}}
  /\ UNCHANGED record

ReadsAnything == TRUE

(* read_local_app_state: a missing document is an empty one, a damaged one *)
(* is an error.                                                            *)
Legible == record.state # "Torn"

(* The app is added to what was read. *)
Added(p) == record.installed \union {Target[p]}

Read(p) ==
  /\ cmd[p].pc = "Read"
  /\ \/ /\ Legible /\ Holds
        /\ cmd' = [cmd EXCEPT ![p].pc = "Open", ![p].draft = Added(p)]
     \/ ~Legible /\ Holds /\ To(p, "Failed")
     \/ record.state # "Absent" /\ Breaks /\ To(p, "Failed")
  /\ UNCHANGED <<record, accepted>>

Emptied == [state |-> "Torn", installed |-> {}]

(* write_local_app_state up to the opened file, which opening has emptied. *)
Open(p) ==
  /\ cmd[p].pc = "Open"
  /\ \/ Holds /\ record' = Emptied /\ To(p, "Fill")
     \/ Breaks /\ UNCHANGED record /\ To(p, "Failed")
  /\ UNCHANGED accepted

(* The contents.  Over another's contents, written since this process      *)
(* emptied the file, they may leave a tail of the longer text.             *)
Fill(p) ==
  /\ cmd[p].pc = "Fill"
  /\ \/ /\ Holds /\ To(p, "Completed")
        /\ \/ record' = [state |-> "Valid", installed |-> cmd[p].draft]
           \/ record.state = "Valid" /\ record' = Emptied
     \/ Breaks /\ record' = Emptied /\ To(p, "Failed")
  /\ UNCHANGED accepted

(* The process is killed; the file stays as it is. *)
Killed(p) ==
  /\ Active(p) /\ Breaks
  /\ To(p, "Crashed")
  /\ UNCHANGED <<record, accepted>>

AppStep(p) == Remote(p) \/ Read(p) \/ Open(p) \/ Fill(p)

LocalNext == \E p \in Commands : Start(p) \/ AppStep(p) \/ Killed(p)

(* While some process can go on, one does; the request has a time limit of  *)
(* 10 seconds.                                                              *)
SomeAppGoesOn == \E p \in Commands : AppStep(p)
LocalFairness == WF_localVars(SomeAppGoesOn)

LocalSpec == LocalInit /\ [][LocalNext]_localVars /\ LocalFairness

-----------------------------------------------------------------------------
Damaged == record.state = "Torn" /\ \A p \in Commands : cmd[p].pc \notin {"Open", "Fill"}

(* A document left damaged by a crash, a failing write or two writers is   *)
(* not taken for an empty one: no later command overwrites it, and what it *)
(* held is not silently dropped (read_local_app_state).                    *)
DamageIsNotOverwritten == [][Damaged => Damaged']_localVars
=============================================================================
