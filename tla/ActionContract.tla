--------------------------- MODULE ActionContract ---------------------------
(***************************************************************************)
(* What the governed capability actions of the control API promise: an     *)
(* action reaches the remote service at most once and only by a permit, a  *)
(* permit is never given to an action that was refused, a result is        *)
(* recorded once and only after the permit was used up, and a run succeeds *)
(* only on a recorded performance.  CapabilityAction implements this.      *)
(***************************************************************************)
CONSTANT Actions

VARIABLES
  permit,  \* no permit yet, Given, Spent (the one attempt is under way or
           \*   over), or Refused
  sent,    \* the actions whose request has left for the remote service
  result,  \* what is durably known: Nothing, Performed or Uncertain
  done     \* the actions whose run succeeded

vars == <<permit, sent, result, done>>

Init ==
  /\ permit = [a \in Actions |-> "None"]
  /\ sent = {}
  /\ result = [a \in Actions |-> "Nothing"]
  /\ done = {}

Give(a) ==
  /\ permit[a] = "None"
  /\ permit' = [permit EXCEPT ![a] = "Given"]
  /\ UNCHANGED <<sent, result, done>>

Refuse(a) ==
  /\ permit[a] = "None"
  /\ permit' = [permit EXCEPT ![a] = "Refused"]
  /\ UNCHANGED <<sent, result, done>>

(* The one attempt is reserved before anything is sent. *)
Spend(a) ==
  /\ permit[a] = "Given"
  /\ permit' = [permit EXCEPT ![a] = "Spent"]
  /\ UNCHANGED <<sent, result, done>>

Send(a) ==
  /\ permit[a] = "Spent" /\ a \notin sent /\ result[a] = "Nothing"
  /\ sent' = sent \cup {a}
  /\ UNCHANGED <<permit, result, done>>

(* A performance is recorded only of what was sent; an attempt that ended  *)
(* in an error is recorded as uncertain whether or not it was sent.        *)
Record(a, r) ==
  /\ permit[a] = "Spent" /\ result[a] = "Nothing"
  /\ r = "Performed" => a \in sent
  /\ result' = [result EXCEPT ![a] = r]
  /\ UNCHANGED <<permit, sent, done>>

Succeed(a) ==
  /\ result[a] = "Performed" /\ a \notin done
  /\ done' = done \cup {a}
  /\ UNCHANGED <<permit, sent, result>>

Next ==
  \E a \in Actions :
    \/ Give(a) \/ Refuse(a) \/ Spend(a) \/ Send(a) \/ Succeed(a)
    \/ \E r \in {"Performed", "Uncertain"} : Record(a, r)

Spec == Init /\ [][Next]_vars
=============================================================================
