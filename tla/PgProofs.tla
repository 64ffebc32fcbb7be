------------------------------ MODULE PgProofs ------------------------------
(***************************************************************************)
(* The proofs about the PostgreSQL store, for any number of connections,   *)
(* approvals and transactions.                                             *)
(***************************************************************************)
EXTENDS PgStore, TLAPS

-----------------------------------------------------------------------------
(* What is left of a plan *)

Ops == DOMAIN Plan

(* The operations that do not lock the run. *)
Deciding == {"Deny", "ExpireApproval"}

Statements ==
  {"Pick", "SelectExpired", "SelectInterrupted", "LockApproval", "LockRun", "Ended", "Validate",
   "Time", "Sequence", "Hash", "Insert", "Reference", "Commit"}

Road(op) == {SubSeq(Plan[op], i, Len(Plan[op])) : i \in 1..(Len(Plan[op]) + 1)}

Left(s) == {s[i] : i \in DOMAIN s}

LEMMA SeqFacts ==
  ASSUME NEW S, NEW s \in Seq(S)
  PROVE  /\ Len(s) \in Nat
         /\ Len(s) > 0 <=> s # <<>>
         /\ s # <<>> => Tail(s) \in Seq(S) /\ Head(s) = s[1]
         /\ \A i \in 1..(Len(s) + 1) : SubSeq(s, i, Len(s)) \in Seq(S)
         /\ \A t \in Seq(S) : Len(s) = Len(t) /\ (\A i \in 1..Len(s) : s[i] = t[i]) => s = t
OBVIOUS

LEMMA Suffix ==
  ASSUME NEW p \in Seq(Statements), NEW i \in 1..Len(p), NEW s, s = SubSeq(p, i, Len(p))
  PROVE  /\ s \in Seq(Statements) /\ s # <<>> /\ Head(s) = p[i] /\ Tail(s) = SubSeq(p, i + 1, Len(p))
         /\ Left(s) = {p[j] : j \in i..Len(p)}
<1>1. /\ Len(s) = Len(p) - i + 1 /\ Len(s) > 0 /\ s[1] = p[i]
      /\ \A j \in 1..Len(s) : s[j] = p[i + j - 1]
  OBVIOUS
<1>2. i \in 1..(Len(p) + 1) /\ i + 1 \in 1..(Len(p) + 1)
  OBVIOUS
<1>3. s \in Seq(Statements) /\ SubSeq(p, i + 1, Len(p)) \in Seq(Statements)
  BY <1>2, SeqFacts, Zenon
<1>4. s # <<>> /\ Head(s) = p[i] /\ Tail(s) \in Seq(Statements)
  BY <1>1, <1>3, SeqFacts, Zenon
<1>5. Tail(s) = SubSeq(p, i + 1, Len(p))
  <2>1. /\ Len(Tail(s)) = Len(SubSeq(p, i + 1, Len(p)))
        /\ \A j \in 1..Len(Tail(s)) : Tail(s)[j] = SubSeq(p, i + 1, Len(p))[j]
    BY <1>1, <1>3, <1>4
  <2>2. \A t \in Seq(Statements) :
          Len(Tail(s)) = Len(t) /\ (\A j \in 1..Len(Tail(s)) : Tail(s)[j] = t[j]) => Tail(s) = t
    BY <1>4, SeqFacts, Zenon
  <2> QED
    BY <1>3, <2>1, <2>2, Zenon
<1>6. Left(s) = {p[j] : j \in i..Len(p)}
  <2>1. ASSUME NEW j \in i..Len(p) PROVE p[j] \in Left(s)
    <3>1. j - i + 1 \in DOMAIN s /\ s[j - i + 1] = p[j]
      BY <1>1, <1>3
    <3> QED
      BY <3>1, Zenon DEF Left
  <2>2. ASSUME NEW j \in DOMAIN s PROVE s[j] \in {p[k] : k \in i..Len(p)}
    <3>1. i + j - 1 \in i..Len(p) /\ s[j] = p[i + j - 1]
      BY <1>1, <1>3
    <3> QED
      BY <3>1, Zenon
  <2> QED
    BY <2>1, <2>2, ZenonT(60) DEF Left
<1> QED
  BY <1>3, <1>4, <1>5, <1>6, Zenon

(* The order of the statements in every plan. *)
Sorted(op, h, l) ==
  /\ h \in l /\ "Commit" \in l
  /\ h = "Commit" <=> l = {"Commit"}
  /\ h = "Insert" /\ op \notin Deciding => l = {"Insert", "Commit"}
  /\ h = "Insert" /\ op \in Deciding => l = {"Insert", "Reference", "Commit"}
  /\ h = "Reference" => op \in Deciding /\ l = {"Reference", "Commit"}
  /\ h \in {"Pick", "LockRun", "LockApproval", "SelectExpired", "SelectInterrupted"} =>
       /\ "Validate" \in l
       /\ "Insert" \in l => "Sequence" \in l /\ "Hash" \in l
  /\ h \in {"Ended", "Validate", "Time", "Sequence", "Hash", "Insert", "Reference", "Commit"} =>
       "LockRun" \notin l /\ "Pick" \notin l /\ "LockApproval" \notin l /\ "SelectInterrupted" \notin l
  /\ h = "LockRun" => "LockApproval" \notin l /\ "SelectInterrupted" \notin l
  /\ "LockRun" \in l => op \notin Deciding /\ op # "ClaimNextRun"
  /\ "Pick" \in l => op = "ClaimNextRun"
  /\ h = "LockApproval" => "Insert" \in l /\ (op \in Deciding \/ "LockRun" \in l)
  /\ h \in {"SelectInterrupted", "SelectExpired"} => "LockRun" \in l
  /\ "SelectInterrupted" \in l => op = "RecoverInterrupted"
  /\ h = "Ended" => op = "RecoverExpiredLeases" /\ "Insert" \in l
  /\ "Sequence" \in l \/ "Hash" \in l => "Insert" \in l
  /\ op \in Deciding /\ "Hash" \notin l => "Sequence" \notin l
  /\ op \in Deciding /\ h = "Hash" => "Sequence" \notin l
  /\ "Insert" \in l /\ op \in Deciding => "Reference" \in l

(* Every plan keeps this order. *)
SortedPlan(op, p) ==
  /\ p \in Seq(Statements)
  /\ \A i, j \in 1..Len(p) : p[i] = p[j] => i = j
  /\ \E n : Len(p) = n /\ \A i \in 1..n : Sorted(op, p[i], {p[j] : j \in i..n})

LEMMA LeasedIsSorted ==
  ASSUME NEW op, op \notin Deciding, op # "ClaimNextRun",
         NEW p, p = Leased
  PROVE  SortedPlan(op, p)
<1>1. p \in Seq(Statements) /\ Len(p) = 7
  BY DEF Leased, Statements
<1>2. ASSUME NEW i \in 1..7, NEW l, l = {p[j] : j \in i..7} PROVE Sorted(op, p[i], l)
  BY <1>2 DEF Sorted, Leased
<1>3. \A i \in 1..7 : Sorted(op, p[i], {p[j] : j \in i..7})
  BY <1>2, Zenon
<1>4. \A i, j \in 1..Len(p) : p[i] = p[j] => i = j
  BY <1>1 DEF Leased
<1> QED
  BY <1>1, <1>3, <1>4, Zenon DEF SortedPlan

LEMMA ArtifactsAreSorted ==
  ASSUME NEW op, op \notin Deciding, op # "ClaimNextRun",
         NEW p, p = <<"LockRun", "Validate", "Time", "Hash", "Sequence", "Insert", "Commit">>
  PROVE  SortedPlan(op, p)
<1>1. p \in Seq(Statements) /\ Len(p) = 7
  BY DEF Statements
<1>2. ASSUME NEW i \in 1..7, NEW l, l = {p[j] : j \in i..7} PROVE Sorted(op, p[i], l)
  BY <1>2 DEF Sorted
<1>3. \A i \in 1..7 : Sorted(op, p[i], {p[j] : j \in i..7})
  BY <1>2, Zenon
<1>4. \A i, j \in 1..Len(p) : p[i] = p[j] => i = j
  BY <1>1
<1> QED
  BY <1>1, <1>3, <1>4, Zenon DEF SortedPlan

LEMMA TransitionIsSorted ==
  ASSUME NEW op, op = "TransitionRun",
         NEW p, p = <<"LockRun", "Validate", "Hash", "Time", "Sequence", "Insert", "Commit">>
  PROVE  SortedPlan(op, p)
<1>1. p \in Seq(Statements) /\ Len(p) = 7
  BY DEF Statements
<1>2. ASSUME NEW i \in 1..7, NEW l, l = {p[j] : j \in i..7} PROVE Sorted(op, p[i], l)
  BY <1>2 DEF Sorted, Deciding
<1>3. \A i \in 1..7 : Sorted(op, p[i], {p[j] : j \in i..7})
  BY <1>2, Zenon
<1>4. \A i, j \in 1..Len(p) : p[i] = p[j] => i = j
  BY <1>1
<1> QED
  BY <1>1, <1>3, <1>4, Zenon DEF SortedPlan

LEMMA ClaimIsSorted ==
  ASSUME NEW op, op = "ClaimNextRun",
         NEW p, p = <<"Pick", "Validate", "Sequence", "Hash", "Insert", "Commit">>
  PROVE  SortedPlan(op, p)
<1>1. p \in Seq(Statements) /\ Len(p) = 6
  BY DEF Statements
<1>2. ASSUME NEW i \in 1..6, NEW l, l = {p[j] : j \in i..6} PROVE Sorted(op, p[i], l)
  BY <1>2 DEF Sorted, Deciding
<1>3. \A i \in 1..6 : Sorted(op, p[i], {p[j] : j \in i..6})
  BY <1>2, Zenon
<1>4. \A i, j \in 1..Len(p) : p[i] = p[j] => i = j
  BY <1>1
<1> QED
  BY <1>1, <1>3, <1>4, Zenon DEF SortedPlan

LEMMA HeartbeatIsSorted ==
  ASSUME NEW op, op = "HeartbeatLease",
         NEW p, p = <<"LockRun", "Validate", "Commit">>
  PROVE  SortedPlan(op, p)
<1>1. p \in Seq(Statements) /\ Len(p) = 3
  BY DEF Statements
<1>2. ASSUME NEW i \in 1..3, NEW l, l = {p[j] : j \in i..3} PROVE Sorted(op, p[i], l)
  BY <1>2 DEF Sorted, Deciding
<1>3. \A i \in 1..3 : Sorted(op, p[i], {p[j] : j \in i..3})
  BY <1>2, Zenon
<1>4. \A i, j \in 1..Len(p) : p[i] = p[j] => i = j
  BY <1>1
<1> QED
  BY <1>1, <1>3, <1>4, Zenon DEF SortedPlan

LEMMA ExpiredIsSorted ==
  ASSUME NEW op, op = "RecoverExpiredLeases",
         NEW p, p = <<"SelectExpired", "LockRun", "Validate", "Time", "Ended", "Sequence", "Hash", "Insert", "Commit">>
  PROVE  SortedPlan(op, p)
<1>1. p \in Seq(Statements) /\ Len(p) = 9
  BY DEF Statements
<1>2. ASSUME NEW i \in 1..9, NEW l, l = {p[j] : j \in i..9} PROVE Sorted(op, p[i], l)
  BY <1>2 DEF Sorted, Deciding
<1>3. \A i \in 1..9 : Sorted(op, p[i], {p[j] : j \in i..9})
  BY <1>2, Zenon
<1>4. \A i, j \in 1..Len(p) : p[i] = p[j] => i = j
  BY <1>1
<1> QED
  BY <1>1, <1>3, <1>4, Zenon DEF SortedPlan

LEMMA InterruptedIsSorted ==
  ASSUME NEW op, op = "RecoverInterrupted",
         NEW p, p = <<"SelectInterrupted", "LockRun", "Validate", "Time", "Sequence", "Hash", "Insert", "Commit">>
  PROVE  SortedPlan(op, p)
<1>1. p \in Seq(Statements) /\ Len(p) = 8
  BY DEF Statements
<1>2. ASSUME NEW i \in 1..8, NEW l, l = {p[j] : j \in i..8} PROVE Sorted(op, p[i], l)
  BY <1>2 DEF Sorted, Deciding
<1>3. \A i \in 1..8 : Sorted(op, p[i], {p[j] : j \in i..8})
  BY <1>2, Zenon
<1>4. \A i, j \in 1..Len(p) : p[i] = p[j] => i = j
  BY <1>1
<1> QED
  BY <1>1, <1>3, <1>4, Zenon DEF SortedPlan

LEMMA ApproveIsSorted ==
  ASSUME NEW op, op \notin Deciding, op # "ClaimNextRun",
         NEW p, p = ApprovePlan
  PROVE  SortedPlan(op, p)
<1>1. p \in Seq(Statements) /\ Len(p) = 8
  BY DEF ApprovePlan, Statements
<1>2. ASSUME NEW i \in 1..8, NEW l, l = {p[j] : j \in i..8} PROVE Sorted(op, p[i], l)
  BY <1>2 DEF Sorted, ApprovePlan
<1>3. \A i \in 1..8 : Sorted(op, p[i], {p[j] : j \in i..8})
  BY <1>2, Zenon
<1>4. \A i, j \in 1..Len(p) : p[i] = p[j] => i = j
  BY <1>1 DEF ApprovePlan
<1> QED
  BY <1>1, <1>3, <1>4, Zenon DEF SortedPlan

LEMMA DecideIsSorted ==
  ASSUME NEW op, op \in Deciding, op # "ClaimNextRun",
         NEW p, p = DecidePlan
  PROVE  SortedPlan(op, p)
<1>1. p \in Seq(Statements) /\ Len(p) = 8
  BY DEF DecidePlan, Statements
<1>2. ASSUME NEW i \in 1..8, NEW l, l = {p[j] : j \in i..8} PROVE Sorted(op, p[i], l)
  BY <1>2 DEF Sorted, DecidePlan
<1>3. \A i \in 1..8 : Sorted(op, p[i], {p[j] : j \in i..8})
  BY <1>2, Zenon
<1>4. \A i, j \in 1..Len(p) : p[i] = p[j] => i = j
  BY <1>1 DEF DecidePlan
<1> QED
  BY <1>1, <1>3, <1>4, Zenon DEF SortedPlan

LEMMA PlansAreSorted ==
  ASSUME NEW op \in Ops
  PROVE  SortedPlan(op, Plan[op])
<1>1. CASE op \in {"TransitionLeasedRun", "CompleteLeasedRun", "AppendLeased", "RequestCancel",
                   "ConfirmCancel", "AppendAudit", "ReconcileAction", "CreateApproval"}
  <2>1. Plan[op] = Leased /\ op \notin Deciding /\ op # "ClaimNextRun"
    BY <1>1 DEF Plan, Deciding
  <2> QED
    BY <2>1, LeasedIsSorted, Zenon
<1>2. CASE op \in {"RecordLeasedArtifacts", "RecordArtifacts"}
  <2>1. /\ Plan[op] = <<"LockRun", "Validate", "Time", "Hash", "Sequence", "Insert", "Commit">>
        /\ op \notin Deciding /\ op # "ClaimNextRun"
    BY <1>2 DEF Plan, Deciding
  <2> QED
    BY <2>1, ArtifactsAreSorted, Zenon
<1>3. CASE op = "TransitionRun"
  BY <1>3, TransitionIsSorted DEF Plan
<1>4. CASE op = "ClaimNextRun"
  BY <1>4, ClaimIsSorted DEF Plan
<1>5. CASE op = "HeartbeatLease"
  BY <1>5, HeartbeatIsSorted DEF Plan
<1>6. CASE op = "RecoverExpiredLeases"
  BY <1>6, ExpiredIsSorted DEF Plan
<1>7. CASE op = "RecoverInterrupted"
  BY <1>7, InterruptedIsSorted DEF Plan
<1>8. CASE op \in {"Approve", "ConsumeApproval", "ConsumeMismatch"}
  <2>1. Plan[op] = ApprovePlan /\ op \notin Deciding /\ op # "ClaimNextRun"
    BY <1>8 DEF Plan, ApprovePlan, ConsumePlan, Deciding
  <2> QED
    BY <2>1, ApproveIsSorted, Zenon
<1>9. CASE op \in Deciding
  <2>1. Plan[op] = DecidePlan /\ op # "ClaimNextRun"
    BY <1>9 DEF Plan, Deciding
  <2> QED
    BY <1>9, <2>1, DecideIsSorted, Zenon
<1> QED
  BY <1>1, <1>2, <1>3, <1>4, <1>5, <1>6, <1>7, <1>8, <1>9, ZenonT(60) DEF Ops, Plan, Deciding

(* What is left of the plan of an operation, and what is left after that.  *)
LEMMA OnTheRoad ==
  ASSUME NEW op \in Ops, NEW s \in Road(op)
  PROVE  /\ s \in Seq(Statements)
         /\ s # <<>> => /\ Tail(s) \in Road(op) /\ Left(Tail(s)) = Left(s) \ {Head(s)}
                        /\ Sorted(op, Head(s), Left(s))
                        /\ Tail(s) = <<>> <=> Head(s) = "Commit"
<1>1. PICK p : p = Plan[op]
  BY Zenon
<1>2. PICK i \in 1..(Len(p) + 1) : s = SubSeq(p, i, Len(p))
  BY <1>1, Zenon DEF Road
<1>3. SortedPlan(op, p)
  BY <1>1, PlansAreSorted, Zenon
<1>4. p \in Seq(Statements)
  BY <1>3, Zenon DEF SortedPlan
<1>5. PICK n : Len(p) = n /\ \A k \in 1..n : Sorted(op, p[k], {p[j] : j \in k..n})
  BY <1>3, Zenon DEF SortedPlan
<1>6. CASE i = Len(p) + 1
  BY <1>2, <1>4, <1>6
<1>7. CASE i \in 1..Len(p)
  <2>1. /\ s \in Seq(Statements) /\ s # <<>> /\ Head(s) = p[i] /\ Tail(s) = SubSeq(p, i + 1, Len(p))
        /\ Left(s) = {p[j] : j \in i..Len(p)}
    BY <1>2, <1>4, <1>7, Suffix, Zenon
  <2>2. Sorted(op, Head(s), Left(s))
    <3>1. Sorted(op, p[i], {p[j] : j \in i..Len(p)})
      BY <1>5, <1>7, Zenon
    <3> QED
      BY <2>1, <3>1, Zenon
  <2>3. Tail(s) \in Road(op)
    <3>1. i + 1 \in 1..(Len(p) + 1)
      BY <1>4, <1>7
    <3> QED
      BY <1>1, <2>1, <3>1, Zenon DEF Road
  <2>4. CASE i = Len(p)
    <3>1. Tail(s) = <<>>
      BY <1>4, <2>1, <2>4
    <3>2. Left(s) = {Head(s)}
      BY <1>4, <2>1, <2>4
    <3>3. Left(Tail(s)) = {}
      BY <3>1 DEF Left
    <3>4. Head(s) = "Commit"
      BY <2>2, <3>2, Zenon DEF Sorted
    <3> QED
      BY <2>1, <2>2, <2>3, <3>1, <3>2, <3>3, <3>4, Zenon
  <2>5. CASE i # Len(p)
    <3>1. i + 1 \in 1..Len(p)
      BY <1>4, <1>7, <2>5
    <3>2. Tail(s) # <<>> /\ Left(Tail(s)) = {p[j] : j \in (i + 1)..Len(p)}
      BY <1>4, <2>1, <3>1, Suffix, Zenon
    <3>3. p[i + 1] \in Left(s) /\ p[i + 1] \in Left(Tail(s))
      <4>1. i + 1 \in i..Len(p) /\ i + 1 \in (i + 1)..Len(p)
        BY <1>4, <1>7, <3>1
      <4> QED
        BY <2>1, <3>2, <4>1, Zenon
    <3>4. Head(s) # "Commit"
      <4>1. p[i + 1] # p[i]
        BY <1>3, <1>4, <1>7, <3>1 DEF SortedPlan
      <4> QED
        BY <2>1, <2>2, <3>3, <4>1, Zenon DEF Sorted
    <3>5. Left(Tail(s)) = Left(s) \ {Head(s)}
      <4>1. \A j \in (i + 1)..Len(p) : j \in i..Len(p) /\ j \in 1..Len(p) /\ j # i
        BY <1>4, <1>7
      <4>2. \A j \in i..Len(p) : j = i \/ j \in (i + 1)..Len(p)
        BY <1>4, <1>7
      <4>3. \A j \in (i + 1)..Len(p) : p[j] # p[i]
        BY <1>3, <1>7, <4>1, Zenon DEF SortedPlan
      <4>4. ASSUME NEW a PROVE a \in Left(Tail(s)) <=> a \in Left(s) /\ a # Head(s)
        BY <2>1, <3>2, <4>1, <4>2, <4>3, Zenon
      <4> QED
        BY <4>4, Zenon
    <3> QED
      BY <2>1, <2>2, <2>3, <3>2, <3>4, <3>5, Zenon
  <2> QED
    BY <2>4, <2>5, Zenon
<1>8. i = Len(p) + 1 \/ i \in 1..Len(p)
  BY <1>2, <1>4
<1> QED
  BY <1>6, <1>7, <1>8, Zenon

-----------------------------------------------------------------------------
(* The invariant *)

RunRow == [status : RunStatus, revision : Nat, updated_at : Nat, cancel_requested : BOOLEAN]
LeaseRow == [acquired_at : Nat, expires_at : Nat]
HeldRow == [revision : Nat, status : RunStatus \cup {"None"}]
ApprovalRow ==
  [status : ApprovalStatus \cup {"Absent"}, revision : Nat, window : Nat, expires_at : Nat]
EventRow == [sequence : Nat, previous : Nat, time : Nat, op : Ops \cup {"None"}]
TxRow ==
  [op : Ops \cup {"None"}, todo : Seq(Statements), arg : Approvals \cup RunStatus \cup {"None"},
   now : Nat, revision : Nat, run_lock : {"None", "Update", "Share"}, approval_lock : BOOLEAN,
   sequence : Nat, previous : Nat, inserted : BOOLEAN]

TypeOK ==
  /\ run \in RunRow /\ lease \in LeaseRow /\ held \in HeldRow
  /\ approvals \in [Approvals -> ApprovalRow]
  /\ chain \in Seq(EventRow) /\ Len(chain) > 0
  /\ tx \in [Txs -> TxRow]
  /\ clock \in Nat

(* The locks a transaction holds follow from what is left of its plan. *)
Locking(x) ==
  LET l == Left(x.todo)
  IN  /\ x.op = "None" => x = Idle
      /\ x.op # "None" => x.todo \in Road(x.op) /\ x.todo # <<>>
      /\ x.run_lock = "Update" <=>
           x.op \notin Deciding \cup {"None"} /\ "LockRun" \notin l /\ "Pick" \notin l
      /\ x.run_lock = "Share" <=> x.op \in Deciding /\ "Reference" \notin l
      /\ x.approval_lock => x.op # "None" /\ "LockApproval" \notin l
      /\ x.inserted => x.op # "None" /\ (l = {"Commit"} \/ (x.op \in Deciding /\ l = {"Reference", "Commit"}))
      /\ x.op \in Deciding /\ "Insert" \notin l => x.inserted

(* What it has read of a chain of n events.  Under the lock of the run     *)
(* that is the end of the chain.  Without it the chain may have grown, but *)
(* then the number is taken; and the hash was read after the number.  Once *)
(* its number is in the index the chain does not grow any more.            *)
Reading(x, n) ==
  LET l == Left(x.todo)
  IN  /\ x.run_lock = "Update" /\ "Insert" \in l =>
           /\ "Sequence" \notin l => x.sequence = n + 1
           /\ "Hash" \notin l => x.previous = n
      /\ x.op \in Deciding /\ ~x.inserted =>
           /\ "Sequence" \notin l => x.sequence > 0 /\ x.sequence <= n + 1
           /\ "Hash" \notin l => x.previous <= n /\ x.sequence <= x.previous + 1
      /\ x.inserted => x.sequence = n + 1 /\ x.previous = n

(* What its checks have found out about the run r and the lease e, which   *)
(* nobody can change while it holds the lock of the run.                   *)
Checked(x, r, e) ==
  /\ x.op = "TransitionRun" => e = NoLease /\ CanTransitionTo(r.status, x.arg)
  /\ x.op \in {"TransitionLeasedRun", "CompleteLeasedRun"} => x.revision = r.revision
  /\ x.op \in {"TransitionLeasedRun", "CompleteLeasedRun", "ConfirmCancel", "HeartbeatLease"} =>
       e # NoLease
  /\ x.op = "CompleteLeasedRun" => ~(x.arg = "Succeeded" /\ r.cancel_requested)
  /\ x.op = "RequestCancel" =>
       \/ e = NoLease /\ r.status \in {"Queued", "AwaitingApproval"}
       \/ e # NoLease /\ r.status \in {"Planning", "AwaitingApproval", "Running"}
  /\ x.op = "RecoverInterrupted" => r.status \in {"Planning", "Running"}
  /\ x.op = "ConsumeApproval" => r.status = "AwaitingApproval"

Knowing(x, r, e) ==
  LET l == Left(x.todo)
  IN  /\ x.op = "TransitionLeasedRun" => x.arg \in RunStatus \ TerminalStatus
      /\ x.op = "CompleteLeasedRun" => x.arg \in {"Succeeded", "Failed", "TimedOut"}
      /\ x.op \in {"TransitionLeasedRun", "CompleteLeasedRun"} =>
           /\ x.revision <= r.revision
           /\ x.revision = r.revision => AnyTarget \/ CanTransitionTo(r.status, x.arg)
      /\ x.op = "RecoverInterrupted" /\ "SelectInterrupted" \notin l =>
           e = NoLease /\ r.status # "Queued"
      /\ x.op = "ClaimNextRun" /\ x.run_lock = "Update" => e = NoLease /\ r.status = "Queued"
      /\ x.run_lock = "Update" /\ "Validate" \notin l => Checked(x, r, e)

(* The run, its lease and the lease value of the worker. *)
RunSound(r, e, h) ==
  /\ r.cancel_requested => r.status # "Succeeded" /\ (e # NoLease \/ IsTerminal(r.status))
  /\ e # NoLease => ~IsTerminal(r.status)
  /\ h # NotHeld => /\ h.revision <= r.revision
                    /\ h.revision = r.revision => h.status = r.status

OneLock ==
  \A t, u \in Txs : t # u => tx[t].run_lock = "None" \/ tx[u].run_lock = "None"

(* The next number is in the index at most once. *)
OneEntry ==
  \A t, u \in Txs : t # u => ~tx[t].inserted \/ ~tx[u].inserted

TxSound(x) == Locking(x) /\ Reading(x, Len(chain)) /\ Knowing(x, run, lease)

PgInv ==
  /\ TypeOK /\ VerifyAuditChain /\ RunSound(run, lease, held) /\ OneLock /\ OneEntry
  /\ \A t \in Txs : TxSound(tx[t])

-----------------------------------------------------------------------------
(* Steps of one transaction *)

(* What is known of a transaction at a statement. *)
LEMMA AtFacts ==
  ASSUME PgInv, NEW t \in Txs, NEW h, At(t, h)
  PROVE  /\ tx[t] \in TxRow /\ tx[t].op \in Ops /\ tx[t].op # "None" /\ tx[t].todo # <<>>
         /\ tx[t].todo \in Road(tx[t].op)
         /\ Sorted(tx[t].op, h, Left(tx[t].todo))
         /\ Tail(tx[t].todo) \in Road(tx[t].op)
         /\ Left(Tail(tx[t].todo)) = Left(tx[t].todo) \ {h}
         /\ Tail(tx[t].todo) = <<>> <=> h = "Commit"
<1>1. tx[t] \in TxRow
  BY Zenon DEF PgInv, TypeOK
<1>2. tx[t].op \in Ops \cup {"None"}
  BY <1>1 DEF TxRow
<1>3. tx[t].todo # <<>> /\ Head(tx[t].todo) = h
  BY Zenon DEF At
<1>4. tx[t].op # "None"
  <2>1. tx[t].op = "None" => tx[t] = Idle
    BY Zenon DEF PgInv, TxSound, Locking
  <2>2. Idle.todo = <<>>
    BY DEF Idle
  <2> QED
    BY <1>3, <2>1, <2>2, Zenon
<1>5. tx[t].todo \in Road(tx[t].op)
  BY <1>4, Zenon DEF PgInv, TxSound, Locking
<1> QED
  BY <1>1, <1>2, <1>3, <1>4, <1>5, OnTheRoad, Zenon

(* The row of t becomes y, and nothing else changes. *)
LEMMA TxKeeps ==
  ASSUME PgInv, NEW t \in Txs, NEW y \in TxRow, tx' = [tx EXCEPT ![t] = y],
         UNCHANGED Database, clock' \in Nat, TxSound(y),
         y.run_lock = "None" \/ tx[t].run_lock # "None" \/ \A u \in Others(t) : tx[u].run_lock = "None",
         ~y.inserted \/ tx[t].inserted \/ \A u \in Others(t) : ~tx[u].inserted
  PROVE  PgInv'
<1>1. /\ tx' \in [Txs -> TxRow] /\ tx'[t] = y
      /\ \A u \in Txs : u # t => tx'[u] = tx[u]
  BY Zenon DEF PgInv, TypeOK
<1>2. UNCHANGED <<run, lease, held, approvals, chain>>
  BY Zenon DEF Database
<1>3. TypeOK' /\ VerifyAuditChain' /\ RunSound(run, lease, held)'
  BY <1>1, <1>2, Zenon DEF PgInv, TypeOK, VerifyAuditChain, RunSound
<1>4. OneLock'
  <2>1. \A u \in Txs : u # t => y.run_lock = "None" \/ tx[u].run_lock = "None"
    BY Zenon DEF PgInv, OneLock, Others
  <2> QED
    BY <1>1, <2>1, ZenonT(60) DEF PgInv, OneLock
<1>5. OneEntry'
  <2>1. \A u \in Txs : u # t => ~y.inserted \/ ~tx[u].inserted
    BY Zenon DEF PgInv, OneEntry, Others
  <2> QED
    BY <1>1, <2>1, ZenonT(60) DEF PgInv, OneEntry
<1>6. ASSUME NEW u \in Txs PROVE TxSound(tx[u])'
  <2>1. CASE u = t
    BY <1>1, <1>2, <2>1, Zenon DEF TxSound
  <2>2. CASE u # t
    BY <1>1, <1>2, <2>2, Zenon DEF PgInv, TxSound
  <2> QED
    BY <2>1, <2>2, Zenon
<1> QED
  BY <1>3, <1>4, <1>5, <1>6, Zenon DEF PgInv

LEMMA IdleIsSound ==
  /\ Idle \in TxRow /\ Idle.run_lock = "None" /\ ~Idle.inserted /\ Idle.op = "None"
  /\ \A n, r, e : Locking(Idle) /\ Reading(Idle, n) /\ Knowing(Idle, r, e)
<1>1. Idle \in TxRow /\ Idle.run_lock = "None" /\ Idle.inserted = FALSE /\ Idle.op = "None"
  <2>1. <<>> \in Seq(Statements) /\ 0 \in Nat
    OBVIOUS
  <2> QED
    BY <2>1, Zenon DEF Idle, TxRow
<1>2. Idle.approval_lock = FALSE
  BY DEF Idle
<1>3. Locking(Idle)
  BY <1>1, <1>2 DEF Locking, Deciding
<1>4. \A n, r, e : Reading(Idle, n) /\ Knowing(Idle, r, e)
  BY <1>1 DEF Reading, Knowing, Deciding
<1> QED
  BY <1>1, <1>3, <1>4, Zenon

LEMMA RollbackKeeps ==
  ASSUME PgInv, NEW t \in Txs, Rollback(t), UNCHANGED Database, clock' \in Nat
  PROVE  PgInv'
<1>1. TxSound(Idle) /\ Idle \in TxRow /\ Idle.run_lock = "None" /\ ~Idle.inserted
  BY IdleIsSound, Zenon DEF TxSound
<1> QED
  BY <1>1, TxKeeps, Zenon DEF Rollback

(* The row after a statement. *)
LEMMA Continues ==
  ASSUME PgInv, NEW t \in Txs, NEW h, At(t, h), h # "Commit",
         NEW c \in TxRow, c.todo = tx[t].todo, Continue(t, c)
  PROVE  \E y \in TxRow :
           /\ tx' = [tx EXCEPT ![t] = y]
           /\ y.todo = Tail(tx[t].todo) /\ y.op = c.op /\ y.arg = c.arg /\ y.revision = c.revision
           /\ y.run_lock = c.run_lock /\ y.approval_lock = c.approval_lock
           /\ y.sequence = c.sequence /\ y.previous = c.previous /\ y.inserted = c.inserted
<1>1. Tail(c.todo) \in Seq(Statements)
  BY AtFacts, OnTheRoad, Zenon
<1>2. PICK y : y = [c EXCEPT !.todo = Tail(@)]
  BY Zenon
<1>3. /\ y \in TxRow
      /\ y.todo = Tail(c.todo) /\ y.op = c.op /\ y.arg = c.arg /\ y.revision = c.revision
      /\ y.run_lock = c.run_lock /\ y.approval_lock = c.approval_lock
      /\ y.sequence = c.sequence /\ y.previous = c.previous /\ y.inserted = c.inserted
  BY <1>1, <1>2, Zenon DEF TxRow
<1>4. tx' = [tx EXCEPT ![t] = y]
  BY <1>2, Zenon DEF Continue
<1> QED
  BY <1>3, <1>4, Zenon

(* Statements that change nothing in the row but what is left to do, and   *)
(* after which the transaction has found out what it needs.                *)
Passes(t, h) ==
  /\ At(t, h) /\ Continue(t, tx[t]) /\ UNCHANGED Database /\ UNCHANGED Caller

LEMMA PassKeeps ==
  ASSUME PgInv, NEW t \in Txs,
         NEW h \in {"SelectExpired", "SelectInterrupted", "Ended", "Validate", "Time"}, Passes(t, h),
         h = "SelectInterrupted" => lease = NoLease /\ run.status # "Queued",
         h = "Validate" /\ tx[t].run_lock = "Update" => Checked(tx[t], run, lease)
  PROVE  PgInv'
<1> DEFINE x == tx[t]
<1>1. /\ x \in TxRow /\ x.op # "None" /\ Sorted(x.op, h, Left(x.todo))
      /\ Tail(x.todo) \in Road(x.op) /\ Left(Tail(x.todo)) = Left(x.todo) \ {h}
      /\ Tail(x.todo) # <<>>
  BY AtFacts, Zenon DEF Passes
<1>2. PICK y \in TxRow :
        /\ tx' = [tx EXCEPT ![t] = y]
        /\ y.todo = Tail(x.todo) /\ y.op = x.op /\ y.arg = x.arg /\ y.revision = x.revision
        /\ y.run_lock = x.run_lock /\ y.approval_lock = x.approval_lock
        /\ y.sequence = x.sequence /\ y.previous = x.previous /\ y.inserted = x.inserted
  BY <1>1, Continues, Zenon DEF Passes
<1>3. TxSound(x)
  BY Zenon DEF PgInv
<1>4. PICK l : l = Left(x.todo) /\ Left(y.todo) = l \ {h}
  BY <1>1, <1>2, Zenon
<1>5. Sorted(x.op, h, l)
  BY <1>1, <1>4, Zenon
<1> HIDE DEF x
<1>6. Locking(y)
  BY <1>1, <1>2, <1>3, <1>4, <1>5, ZenonT(60) DEF TxSound, Locking, Sorted
<1>7. Reading(y, Len(chain))
  BY <1>1, <1>2, <1>3, <1>4, <1>5, ZenonT(60) DEF TxSound, Reading, Sorted
<1>a. Checked(x, run, lease) => Checked(y, run, lease)
  BY <1>2, ZenonT(60) DEF Checked
<1>b. h = "Validate" /\ x.run_lock = "Update" => Checked(x, run, lease)
  BY Zenon DEF x
<1>8. Knowing(y, run, lease)
  BY <1>2, <1>3, <1>4, <1>5, <1>a, <1>b, ZenonT(60) DEF TxSound, Knowing, Sorted
<1>9. clock' \in Nat /\ UNCHANGED Database
  BY Zenon DEF Passes, Caller, PgInv, TypeOK
<1>10. (y.run_lock = "None" \/ tx[t].run_lock # "None") /\ (~y.inserted \/ tx[t].inserted)
  BY <1>2, Zenon DEF x
<1> QED
  BY <1>2, <1>10, <1>6, <1>7, <1>8, <1>9, TxKeeps, Zenon DEF TxSound, x

-----------------------------------------------------------------------------
(* The statements *)

LEMMA SelectExpiredKeeps ==
  ASSUME PgInv, NEW t \in Txs, SelectExpired(t)
  PROVE  PgInv'
<1>1. clock' \in Nat /\ UNCHANGED Database /\ UNCHANGED Caller
  BY Zenon DEF SelectExpired, Caller, PgInv, TypeOK
<1>2. CASE Rollback(t)
  BY <1>1, <1>2, RollbackKeeps, Zenon
<1>3. CASE Continue(t, tx[t])
  <2>1. Passes(t, "SelectExpired")
    BY <1>1, <1>3, Zenon DEF Passes, SelectExpired
  <2>2. "SelectExpired" # "SelectInterrupted" /\ "SelectExpired" # "Validate"
    OBVIOUS
  <2> QED
    BY <2>1, <2>2, PassKeeps, Zenon
<1> QED
  BY <1>2, <1>3, Zenon DEF SelectExpired

LEMMA SelectInterruptedKeeps ==
  ASSUME PgInv, NEW t \in Txs, SelectInterrupted(t)
  PROVE  PgInv'
<1>1. clock' \in Nat /\ UNCHANGED Database /\ UNCHANGED Caller
  BY Zenon DEF SelectInterrupted, Caller, PgInv, TypeOK
<1>2. CASE ~Interrupted
  BY <1>1, <1>2, RollbackKeeps, Zenon DEF SelectInterrupted
<1>3. CASE Interrupted
  <2>1. Passes(t, "SelectInterrupted")
    BY <1>1, <1>3, Zenon DEF Passes, SelectInterrupted
  <2>2. "SelectInterrupted" # "Validate" /\ lease = NoLease /\ run.status # "Queued"
    BY <1>3 DEF Interrupted
  <2> QED
    BY <2>1, <2>2, PassKeeps, Zenon
<1> QED
  BY <1>2, <1>3, Zenon

LEMMA ValidateKeeps ==
  ASSUME PgInv, NEW t \in Txs, Validate(t)
  PROVE  PgInv'
<1>1. clock' \in Nat /\ UNCHANGED Database /\ UNCHANGED Caller
  BY Zenon DEF Validate, Caller, PgInv, TypeOK
<1>2. CASE ~Valid(t)
  BY <1>1, <1>2, RollbackKeeps, Zenon DEF Validate
<1>3. CASE Valid(t)
  <2>1. Passes(t, "Validate")
    BY <1>1, <1>3, Zenon DEF Passes, Validate
  <2>2. Checked(tx[t], run, lease)
    BY <1>3, Zenon DEF Valid, Checked, MayComplete, CurrentLease, CancellableUnowned, CancellableOwned,
                MayTransition, MayConsume, VerifyApprovalWindow
  <2>3. "SelectInterrupted" # "Validate"
    OBVIOUS
  <2> QED
    BY <2>1, <2>2, <2>3, PassKeeps, Zenon
<1> QED
  BY <1>2, <1>3, Zenon

LEMMA TimeKeeps ==
  ASSUME PgInv, NEW t \in Txs, Time(t)
  PROVE  PgInv'
<1>1. clock' \in Nat /\ UNCHANGED Database /\ UNCHANGED Caller
  BY Zenon DEF Time, Caller, PgInv, TypeOK
<1>2. CASE Rollback(t)
  BY <1>1, <1>2, RollbackKeeps, Zenon
<1>3. CASE Continue(t, tx[t])
  <2>1. Passes(t, "Time")
    BY <1>1, <1>3, Zenon DEF Passes, Time
  <2>2. "Time" # "SelectInterrupted" /\ "Time" # "Validate"
    OBVIOUS
  <2> QED
    BY <2>1, <2>2, PassKeeps, Zenon
<1> QED
  BY <1>2, <1>3, Zenon DEF Time

(* Recovery of a run that has ended goes straight to its commit. *)
LEMMA EndedKeeps ==
  ASSUME PgInv, NEW t \in Txs, Ended(t)
  PROVE  PgInv'
<1>1. clock' \in Nat /\ UNCHANGED Database /\ UNCHANGED Caller /\ At(t, "Ended")
  BY Zenon DEF Ended, Caller, PgInv, TypeOK
<1>2. CASE Continue(t, tx[t])
  <2>1. Passes(t, "Ended")
    BY <1>1, <1>2, Zenon DEF Passes, Ended
  <2>2. "Ended" # "SelectInterrupted" /\ "Ended" # "Validate"
    OBVIOUS
  <2> QED
    BY <2>1, <2>2, PassKeeps, Zenon
<1>3. CASE tx' = [tx EXCEPT ![t].todo = <<"Commit">>]
  <2>1. PICK x : x = tx[t]
    BY Zenon
  <2>2. PICK y : y = [x EXCEPT !.todo = <<"Commit">>]
    BY Zenon
  <2>3. tx' = [tx EXCEPT ![t] = y]
    BY <1>3, <2>1, <2>2, Zenon
  <2>4. x \in TxRow /\ x.op # "None" /\ Sorted(x.op, "Ended", Left(x.todo)) /\ TxSound(x)
    BY <1>1, <2>1, AtFacts, Zenon DEF PgInv
  <2>5. x.op = "RecoverExpiredLeases" /\ "Insert" \in Left(x.todo) /\ "LockRun" \notin Left(x.todo)
    BY <2>4 DEF Sorted
  <2>6. <<"Commit">> \in Seq(Statements) /\ Left(<<"Commit">>) = {"Commit"} /\ <<"Commit">> # <<>>
    BY DEF Statements, Left
  <2>7. /\ y \in TxRow
        /\ y.todo = <<"Commit">> /\ y.op = x.op /\ y.arg = x.arg /\ y.revision = x.revision
        /\ y.run_lock = x.run_lock /\ y.approval_lock = x.approval_lock
        /\ y.sequence = x.sequence /\ y.previous = x.previous /\ y.inserted = x.inserted
    BY <2>2, <2>4, <2>6, Zenon DEF TxRow
  <2>8. <<"Commit">> \in Road(x.op)
    <3>1. PICK p : p = Plan[x.op]
      BY Zenon
    <3>2. p = <<"SelectExpired", "LockRun", "Validate", "Time", "Ended", "Sequence", "Hash",
                "Insert", "Commit">>
      <4>1. Plan["RecoverExpiredLeases"] =
              <<"SelectExpired", "LockRun", "Validate", "Time", "Ended", "Sequence", "Hash",
                "Insert", "Commit">>
        BY Zenon DEF Plan
      <4> QED
        BY <2>5, <3>1, <4>1, Zenon
    <3>3. /\ p \in Seq(Statements) /\ Len(p) = 9 /\ p[9] = "Commit"
          /\ 9 \in 1..Len(p) /\ 9 \in 1..(Len(p) + 1)
      BY <3>2 DEF Statements
    <3>4. PICK q : q = SubSeq(p, 9, Len(p))
      BY Zenon
    <3>5. Len(q) = 1 /\ q[1] = "Commit"
      BY <3>3, <3>4
    <3>6. q \in Seq(Statements) /\ <<"Commit">> \in Seq(Statements)
      BY <2>6, <3>3, <3>4, Suffix, Zenon
    <3>7. Len(<<"Commit">>) = 1 /\ \A i \in 1..1 : <<"Commit">>[i] = q[i]
      BY <3>5
    <3>8. <<"Commit">> = q
      BY <3>5, <3>6, <3>7, SeqFacts, Zenon
    <3> QED
      BY <3>1, <3>3, <3>4, <3>8, Zenon DEF Road
  <2>9. Locking(y)
    BY <2>4, <2>5, <2>6, <2>7, <2>8, ZenonT(30) DEF TxSound, Locking, Sorted, Deciding
  <2>10. Reading(y, Len(chain)) /\ Knowing(y, run, lease)
    <3>1. "RecoverExpiredLeases" \notin Deciding /\ "Insert" \notin {"Commit"}
      BY Zenon DEF Deciding
    <3>2. ~x.inserted /\ x.run_lock # "Share"
      BY <2>4, <2>5, <3>1, Zenon DEF TxSound, Locking
    <3>3. /\ y.op = "RecoverExpiredLeases" /\ y.op \notin Deciding
          /\ ~y.inserted /\ y.run_lock # "Share" /\ "Insert" \notin Left(y.todo)
      BY <2>5, <2>6, <2>7, <3>1, <3>2, Zenon
    <3>4. Reading(y, Len(chain))
      BY <3>3, Zenon DEF Reading
    <3>5. Knowing(y, run, lease)
      BY <3>3, Zenon DEF Knowing, Checked
    <3> QED
      BY <3>4, <3>5, Zenon
  <2>11. (y.run_lock = "None" \/ tx[t].run_lock # "None") /\ (~y.inserted \/ tx[t].inserted)
    BY <2>1, <2>7, Zenon
  <2> QED
    BY <1>1, <2>3, <2>7, <2>9, <2>10, <2>11, TxKeeps, Zenon DEF TxSound
<1> QED
  BY <1>2, <1>3, Zenon DEF Ended

(* The row of the run is locked: nobody else has it, and all that is known *)
(* of it is read from here on.                                             *)
LEMMA LockKeeps ==
  ASSUME PgInv, NEW t \in Txs, NEW h \in {"LockRun", "Pick"}, At(t, h), RunIsFree(t),
         Continue(t, [tx[t] EXCEPT !.run_lock = "Update"]),
         UNCHANGED Database, UNCHANGED Caller,
         h = "Pick" => lease = NoLease /\ run.status = "Queued"
  PROVE  PgInv'
<1>1. PICK x : x = tx[t]
  BY Zenon
<1>2. PICK c : c = [x EXCEPT !.run_lock = "Update"]
  BY Zenon
<1>3. /\ x \in TxRow /\ x.op # "None" /\ Sorted(x.op, h, Left(x.todo)) /\ TxSound(x)
      /\ Tail(x.todo) \in Road(x.op) /\ Left(Tail(x.todo)) = Left(x.todo) \ {h}
      /\ Tail(x.todo) # <<>>
  BY <1>1, AtFacts, Zenon DEF PgInv
<1>4. /\ c \in TxRow
      /\ c.todo = x.todo /\ c.op = x.op /\ c.arg = x.arg /\ c.revision = x.revision
      /\ c.run_lock = "Update" /\ c.approval_lock = x.approval_lock
      /\ c.sequence = x.sequence /\ c.previous = x.previous /\ c.inserted = x.inserted
  BY <1>2, <1>3, ZenonT(30) DEF TxRow
<1>5. Continue(t, c) /\ h # "Commit" /\ c.todo = tx[t].todo
  BY <1>1, <1>2, <1>4, Zenon
<1>6. PICK y \in TxRow :
         /\ tx' = [tx EXCEPT ![t] = y]
         /\ y.todo = Tail(tx[t].todo) /\ y.op = c.op /\ y.arg = c.arg /\ y.revision = c.revision
         /\ y.run_lock = c.run_lock /\ y.approval_lock = c.approval_lock
         /\ y.sequence = c.sequence /\ y.previous = c.previous /\ y.inserted = c.inserted
  BY <1>4, <1>5, Continues, Zenon
<1>7. PICK l : l = Left(x.todo) /\ Left(y.todo) = l \ {h}
  BY <1>1, <1>3, <1>6, Zenon
<1>8. Sorted(x.op, h, l)
  BY <1>3, <1>7, Zenon
<1>9. Locking(y)
  BY <1>1, <1>3, <1>4, <1>6, <1>7, <1>8, ZenonT(60) DEF TxSound, Locking, Sorted, Deciding
<1>10. Reading(y, Len(chain))
  BY <1>3, <1>4, <1>6, <1>7, <1>8, ZenonT(60) DEF TxSound, Locking, Reading, Sorted, Deciding
<1>11. Knowing(y, run, lease)
  <2>1. /\ "Validate" \in Left(y.todo) /\ (x.op = "ClaimNextRun" => h = "Pick")
        /\ "SelectInterrupted" \in Left(y.todo) <=> "SelectInterrupted" \in Left(x.todo)
    BY <1>7, <1>8, Zenon DEF Sorted
  <2>2. y.op = x.op /\ y.arg = x.arg /\ y.revision = x.revision
    BY <1>4, <1>6, Zenon
  <2>3. Knowing(x, run, lease)
    BY <1>3, Zenon DEF TxSound
  <2> QED
    BY <2>1, <2>2, <2>3, Zenon DEF Knowing
<1>12. clock' \in Nat /\ (~y.inserted \/ tx[t].inserted)
  BY <1>1, <1>4, <1>6, Zenon DEF Caller, PgInv, TypeOK
<1> QED
  BY <1>6, <1>9, <1>10, <1>11, <1>12, TxKeeps, Zenon DEF TxSound, RunIsFree

LEMMA LockRunKeeps ==
  ASSUME PgInv, NEW t \in Txs, LockRun(t)
  PROVE  PgInv'
<1>1. "LockRun" # "Pick"
  OBVIOUS
<1> QED
  BY <1>1, LockKeeps, Zenon DEF LockRun

LEMMA PickKeeps ==
  ASSUME PgInv, NEW t \in Txs, Pick(t)
  PROVE  PgInv'
<1>1. clock' \in Nat
  BY Zenon DEF Pick, Caller, PgInv, TypeOK
<1> QED
  BY <1>1, LockKeeps, RollbackKeeps, Zenon DEF Pick

LEMMA LockApprovalKeeps ==
  ASSUME PgInv, NEW t \in Txs, LockApproval(t)
  PROVE  PgInv'
<1>1. clock' \in Nat /\ UNCHANGED Database /\ At(t, "LockApproval")
  BY Zenon DEF LockApproval, Caller, PgInv, TypeOK
<1>2. CASE Rollback(t)
  BY <1>1, <1>2, RollbackKeeps, Zenon
<1>3. CASE Continue(t, [tx[t] EXCEPT !.approval_lock = TRUE])
  <2>1. PICK x : x = tx[t]
    BY Zenon
  <2>2. PICK c : c = [x EXCEPT !.approval_lock = TRUE]
    BY Zenon
  <2>3. /\ x \in TxRow /\ x.op # "None" /\ Sorted(x.op, "LockApproval", Left(x.todo)) /\ TxSound(x)
        /\ Tail(x.todo) \in Road(x.op) /\ Left(Tail(x.todo)) = Left(x.todo) \ {"LockApproval"}
        /\ Tail(x.todo) # <<>>
    <3>1. "LockApproval" # "Commit"
      OBVIOUS
    <3> QED
      BY <1>1, <2>1, <3>1, AtFacts, Zenon DEF PgInv
  <2>4. /\ c \in TxRow
        /\ c.todo = x.todo /\ c.op = x.op /\ c.arg = x.arg /\ c.revision = x.revision
        /\ c.run_lock = x.run_lock /\ c.approval_lock = TRUE
        /\ c.sequence = x.sequence /\ c.previous = x.previous /\ c.inserted = x.inserted
    BY <2>2, <2>3, Zenon DEF TxRow
  <2>5. Continue(t, c) /\ c.todo = tx[t].todo /\ "LockApproval" # "Commit"
    BY <1>3, <2>1, <2>2, <2>4
  <2>6. PICK y \in TxRow :
           /\ tx' = [tx EXCEPT ![t] = y]
           /\ y.todo = Tail(tx[t].todo) /\ y.op = c.op /\ y.arg = c.arg /\ y.revision = c.revision
           /\ y.run_lock = c.run_lock /\ y.approval_lock = c.approval_lock
           /\ y.sequence = c.sequence /\ y.previous = c.previous /\ y.inserted = c.inserted
    BY <1>1, <2>4, <2>5, Continues, Zenon
  <2>7. PICK l : l = Left(x.todo) /\ Left(y.todo) = l \ {"LockApproval"}
    BY <2>1, <2>3, <2>6, Zenon
  <2>8. Sorted(x.op, "LockApproval", l)
    BY <2>3, <2>7, Zenon
  <2>9. Locking(y)
    BY <2>1, <2>3, <2>4, <2>6, <2>7, <2>8, ZenonT(30) DEF TxSound, Locking, Sorted, Deciding
  <2>10. Reading(y, Len(chain))
    BY <2>3, <2>4, <2>6, <2>7, <2>8, ZenonT(60) DEF TxSound, Locking, Reading, Sorted, Deciding
  <2>11. Knowing(y, run, lease)
    BY <2>3, <2>4, <2>6, <2>7, <2>8, ZenonT(60) DEF TxSound, Knowing, Sorted
  <2>12. (y.run_lock = "None" \/ tx[t].run_lock # "None") /\ (~y.inserted \/ tx[t].inserted)
    BY <2>1, <2>4, <2>6, Zenon
  <2> QED
    BY <1>1, <2>6, <2>9, <2>10, <2>11, <2>12, TxKeeps, Zenon DEF TxSound
<1> QED
  BY <1>2, <1>3, Zenon DEF LockApproval

(* The end of a chain that verifies. *)
LEMMA EndOfChain ==
  ASSUME TypeOK, VerifyAuditChain
  PROVE  LastSequence = Len(chain) /\ LastEvent = Len(chain)
<1>1. PICK n : n = Len(chain)
  BY Zenon
<1>2. n \in Nat \ {0} /\ DOMAIN chain = 1..n
  BY <1>1 DEF TypeOK
<1>3. \A i \in 1..n : chain[i].sequence = i
  BY <1>2, Zenon DEF VerifyAuditChain
<1>4. \A m : m \in {chain[i].sequence : i \in DOMAIN chain} /\ (\A i \in DOMAIN chain : chain[i].sequence <= m)
        <=> m = n
  BY <1>2, <1>3
<1>5. LastSequence = n
  BY <1>4, Zenon DEF LastSequence
<1>6. \A i : i \in DOMAIN chain /\ chain[i].sequence = LastSequence <=> i = n
  BY <1>2, <1>3, <1>5
<1>7. LastEvent = n
  BY <1>6, Zenon DEF LastEvent
<1> QED
  BY <1>1, <1>5, <1>7, Zenon

LEMMA SequenceKeeps ==
  ASSUME PgInv, NEW t \in Txs, NextAuditSequence(t)
  PROVE  PgInv'
<1>1. clock' \in Nat /\ UNCHANGED Database /\ At(t, "Sequence")
  BY Zenon DEF NextAuditSequence, Caller, PgInv, TypeOK
<1>2. PICK n \in Nat : n = Len(chain) /\ LastSequence = n /\ n + 1 \in Nat
  BY EndOfChain DEF PgInv, TypeOK
<1>3. PICK x : x = tx[t]
  BY Zenon
<1>4. PICK c : c = [x EXCEPT !.sequence = n + 1]
  BY Zenon
<1>5. "Sequence" # "Commit"
  OBVIOUS
<1>6. /\ x \in TxRow /\ x.op # "None" /\ Sorted(x.op, "Sequence", Left(x.todo)) /\ TxSound(x)
      /\ Tail(x.todo) \in Road(x.op) /\ Left(Tail(x.todo)) = Left(x.todo) \ {"Sequence"}
      /\ Tail(x.todo) # <<>>
  BY <1>1, <1>3, <1>5, AtFacts, Zenon DEF PgInv
<1>7. /\ c \in TxRow
      /\ c.todo = x.todo /\ c.op = x.op /\ c.arg = x.arg /\ c.revision = x.revision
      /\ c.run_lock = x.run_lock /\ c.approval_lock = x.approval_lock
      /\ c.sequence = n + 1 /\ c.previous = x.previous /\ c.inserted = x.inserted
  BY <1>2, <1>4, <1>6, Zenon DEF TxRow
<1>8. Continue(t, c) /\ c.todo = tx[t].todo
  BY <1>2, <1>3, <1>4, <1>7, Zenon DEF NextAuditSequence
<1>9. PICK y \in TxRow :
         /\ tx' = [tx EXCEPT ![t] = y]
         /\ y.todo = Tail(tx[t].todo) /\ y.op = c.op /\ y.arg = c.arg /\ y.revision = c.revision
         /\ y.run_lock = c.run_lock /\ y.approval_lock = c.approval_lock
         /\ y.sequence = c.sequence /\ y.previous = c.previous /\ y.inserted = c.inserted
  BY <1>1, <1>5, <1>7, <1>8, Continues, Zenon
<1>10. PICK l : l = Left(x.todo) /\ Left(y.todo) = l \ {"Sequence"}
  BY <1>3, <1>6, <1>9, Zenon
<1>11. Sorted(x.op, "Sequence", l)
  BY <1>6, <1>10, Zenon
<1>12. /\ ~x.inserted
       /\ "Hash" \in Left(y.todo) <=> "Hash" \in l
  BY <1>6, <1>10, <1>11, ZenonT(30) DEF TxSound, Locking, Sorted
<1>13. Locking(y)
  BY <1>3, <1>6, <1>7, <1>9, <1>10, <1>11, ZenonT(30) DEF TxSound, Locking, Sorted
<1>14. Reading(y, n)
  <2>1. n + 1 > 0 /\ n + 1 <= n + 1
    OBVIOUS
  <2>2. /\ "Sequence" \notin Left(y.todo) /\ (x.op \in Deciding => "Hash" \in l)
        /\ "Insert" \in Left(y.todo) <=> "Insert" \in l
    BY <1>10, <1>11, Zenon DEF Sorted
  <2>3. x.run_lock = "Update" /\ "Insert" \in l /\ "Hash" \notin l => x.previous = n
    BY <1>2, <1>6, <1>10, <1>12, Zenon DEF TxSound, Locking, Reading
  <2>4. /\ y.run_lock = x.run_lock /\ y.op = x.op /\ y.sequence = n + 1
        /\ y.previous = x.previous /\ ~y.inserted
    BY <1>7, <1>9, <1>12, Zenon
  <2> QED
    BY <1>12, <2>1, <2>2, <2>3, <2>4, Zenon DEF Reading
<1>15. Checked(x, run, lease) => Checked(y, run, lease)
  BY <1>7, <1>9, ZenonT(60) DEF Checked
<1>16. Knowing(y, run, lease)
  BY <1>6, <1>7, <1>9, <1>10, <1>15, ZenonT(60) DEF TxSound, Knowing
<1>17. (y.run_lock = "None" \/ tx[t].run_lock # "None") /\ (~y.inserted \/ tx[t].inserted)
  BY <1>3, <1>7, <1>9, Zenon
<1> QED
  BY <1>1, <1>2, <1>9, <1>13, <1>14, <1>16, <1>17, TxKeeps, Zenon DEF TxSound

LEMMA HashKeeps ==
  ASSUME PgInv, NEW t \in Txs, LastAuditHash(t)
  PROVE  PgInv'
<1>1. clock' \in Nat /\ UNCHANGED Database /\ At(t, "Hash")
  BY Zenon DEF LastAuditHash, Caller, PgInv, TypeOK
<1>2. PICK n \in Nat : n = Len(chain) /\ LastEvent = n
  BY EndOfChain DEF PgInv, TypeOK
<1>3. PICK x : x = tx[t]
  BY Zenon
<1>4. PICK c : c = [x EXCEPT !.previous = n]
  BY Zenon
<1>5. "Hash" # "Commit"
  OBVIOUS
<1>6. /\ x \in TxRow /\ x.op # "None" /\ Sorted(x.op, "Hash", Left(x.todo)) /\ TxSound(x)
      /\ Tail(x.todo) \in Road(x.op) /\ Left(Tail(x.todo)) = Left(x.todo) \ {"Hash"}
      /\ Tail(x.todo) # <<>>
  BY <1>1, <1>3, <1>5, AtFacts, Zenon DEF PgInv
<1>7. /\ c \in TxRow
      /\ c.todo = x.todo /\ c.op = x.op /\ c.arg = x.arg /\ c.revision = x.revision
      /\ c.run_lock = x.run_lock /\ c.approval_lock = x.approval_lock
      /\ c.sequence = x.sequence /\ c.previous = n /\ c.inserted = x.inserted
  BY <1>2, <1>4, <1>6, Zenon DEF TxRow
<1>8. Continue(t, c) /\ c.todo = tx[t].todo
  BY <1>2, <1>3, <1>4, <1>7, Zenon DEF LastAuditHash
<1>9. PICK y \in TxRow :
         /\ tx' = [tx EXCEPT ![t] = y]
         /\ y.todo = Tail(tx[t].todo) /\ y.op = c.op /\ y.arg = c.arg /\ y.revision = c.revision
         /\ y.run_lock = c.run_lock /\ y.approval_lock = c.approval_lock
         /\ y.sequence = c.sequence /\ y.previous = c.previous /\ y.inserted = c.inserted
  BY <1>1, <1>5, <1>7, <1>8, Continues, Zenon
<1>10. PICK l : l = Left(x.todo) /\ Left(y.todo) = l \ {"Hash"}
  BY <1>3, <1>6, <1>9, Zenon
<1>11. Sorted(x.op, "Hash", l)
  BY <1>6, <1>10, Zenon
<1>12. /\ ~x.inserted
       /\ "Sequence" \in Left(y.todo) <=> "Sequence" \in l
  BY <1>6, <1>10, <1>11, ZenonT(30) DEF TxSound, Locking, Sorted
<1>13. Locking(y)
  BY <1>3, <1>6, <1>7, <1>9, <1>10, <1>11, ZenonT(30) DEF TxSound, Locking, Sorted
<1>14. Reading(y, n)
  <2>1. n <= n
    OBVIOUS
  <2>2. /\ "Hash" \notin Left(y.todo) /\ (x.op \in Deciding => "Sequence" \notin l)
        /\ "Insert" \in Left(y.todo) <=> "Insert" \in l
    BY <1>10, <1>11, Zenon DEF Sorted
  <2>3. /\ x.run_lock = "Update" /\ "Insert" \in l /\ "Sequence" \notin l => x.sequence = n + 1
        /\ x.op \in Deciding /\ "Sequence" \notin l => x.sequence > 0 /\ x.sequence <= n + 1
    BY <1>2, <1>6, <1>10, <1>12, Zenon DEF TxSound, Locking, Reading
  <2>4. /\ y.run_lock = x.run_lock /\ y.op = x.op /\ y.sequence = x.sequence
        /\ y.previous = n /\ ~y.inserted
    BY <1>7, <1>9, <1>12, Zenon
  <2> QED
    BY <1>12, <2>1, <2>2, <2>3, <2>4, Zenon DEF Reading
<1>15. Checked(x, run, lease) => Checked(y, run, lease)
  BY <1>7, <1>9, ZenonT(60) DEF Checked
<1>16. Knowing(y, run, lease)
  BY <1>6, <1>7, <1>9, <1>10, <1>15, ZenonT(60) DEF TxSound, Knowing
<1>17. (y.run_lock = "None" \/ tx[t].run_lock # "None") /\ (~y.inserted \/ tx[t].inserted)
  BY <1>3, <1>7, <1>9, Zenon
<1> QED
  BY <1>1, <1>2, <1>9, <1>13, <1>14, <1>16, <1>17, TxKeeps, Zenon DEF TxSound

LEMMA InsertKeeps ==
  ASSUME PgInv, NEW t \in Txs, InsertAuditEvent(t)
  PROVE  PgInv'
<1>1. clock' \in Nat /\ UNCHANGED Database /\ At(t, "Insert")
  BY Zenon DEF InsertAuditEvent, Caller, PgInv, TypeOK
<1>2. CASE Taken(t)
  BY <1>1, <1>2, RollbackKeeps, Zenon DEF InsertAuditEvent
<1>3. CASE ~Taken(t)
  <2>1. PICK x : x = tx[t]
    BY Zenon
  <2>2. PICK c : c = [x EXCEPT !.inserted = TRUE]
    BY Zenon
  <2>3. PICK n \in Nat : n = Len(chain)
    BY DEF PgInv, TypeOK
  <2>4. "Insert" # "Commit"
    OBVIOUS
  <2>5. /\ x \in TxRow /\ x.op # "None" /\ Sorted(x.op, "Insert", Left(x.todo)) /\ TxSound(x)
        /\ Tail(x.todo) \in Road(x.op) /\ Left(Tail(x.todo)) = Left(x.todo) \ {"Insert"}
        /\ Tail(x.todo) # <<>>
    BY <1>1, <2>1, <2>4, AtFacts, Zenon DEF PgInv
  <2>6. /\ c \in TxRow
        /\ c.todo = x.todo /\ c.op = x.op /\ c.arg = x.arg /\ c.revision = x.revision
        /\ c.run_lock = x.run_lock /\ c.approval_lock = x.approval_lock
        /\ c.sequence = x.sequence /\ c.previous = x.previous /\ c.inserted = TRUE
    BY <2>2, <2>5, Zenon DEF TxRow
  <2>7. Continue(t, c) /\ c.todo = tx[t].todo
    BY <1>3, <2>1, <2>2, <2>6, Zenon DEF InsertAuditEvent
  <2>8. PICK y \in TxRow :
           /\ tx' = [tx EXCEPT ![t] = y]
           /\ y.todo = Tail(tx[t].todo) /\ y.op = c.op /\ y.arg = c.arg /\ y.revision = c.revision
           /\ y.run_lock = c.run_lock /\ y.approval_lock = c.approval_lock
           /\ y.sequence = c.sequence /\ y.previous = c.previous /\ y.inserted = c.inserted
    BY <1>1, <2>4, <2>6, <2>7, Continues, Zenon
  <2>9. /\ x.op \notin Deciding => Left(x.todo) = {"Insert", "Commit"} /\ Left(y.todo) = {"Commit"}
        /\ x.op \in Deciding => /\ Left(x.todo) = {"Insert", "Reference", "Commit"}
                                /\ Left(y.todo) = {"Reference", "Commit"}
    BY <2>1, <2>5, <2>8, ZenonT(60) DEF Sorted
  <2>10. /\ ~x.inserted /\ y.inserted = TRUE /\ y.run_lock = x.run_lock
         /\ x.run_lock = "Update" <=> x.op \notin Deciding
         /\ x.run_lock # "Share"
    <3>1. /\ "Insert" \in Left(x.todo) /\ "LockRun" \notin Left(x.todo) /\ "Pick" \notin Left(x.todo)
          /\ x.op \in Deciding => "Reference" \in Left(x.todo)
      BY <2>9, Zenon
    <3>2. /\ x.run_lock = "Update" <=>
               x.op \notin Deciding \cup {"None"} /\ "LockRun" \notin Left(x.todo) /\ "Pick" \notin Left(x.todo)
          /\ x.run_lock = "Share" <=> x.op \in Deciding /\ "Reference" \notin Left(x.todo)
      BY <2>5, Zenon DEF TxSound, Locking
    <3>3. x.inserted => Left(x.todo) = {"Commit"} \/ Left(x.todo) = {"Reference", "Commit"}
      BY <2>5, Zenon DEF TxSound, Locking
    <3>4. ~x.inserted
      <4>1. "Insert" \notin {"Commit"} /\ "Insert" \notin {"Reference", "Commit"}
        OBVIOUS
      <4> QED
        BY <3>1, <3>3, <4>1, Zenon
    <3>5. y.inserted = TRUE /\ y.run_lock = x.run_lock
      BY <2>6, <2>8, Zenon
    <3> QED
      BY <2>5, <3>1, <3>2, <3>4, <3>5, Zenon
  <2>11. x.sequence = n + 1 /\ x.previous = n
    <3>1. x.sequence \in Nat /\ x.previous \in Nat
      BY <2>5 DEF TxRow
    <3>2. CASE x.op \in Deciding
      <4>1. x.sequence > 0 /\ x.sequence <= n + 1 /\ x.previous <= n /\ x.sequence <= x.previous + 1
        BY <2>3, <2>5, <2>9, <2>10, <3>2, ZenonT(60) DEF TxSound, Reading
      <4>2. x.sequence \in Numbers(t)
        BY <2>1, <3>1 DEF Numbers, Count
      <4>3. \A i \in 1..n : i # x.sequence
        <5>1. \A i \in DOMAIN chain : chain[i].sequence = i
          BY Zenon DEF PgInv, VerifyAuditChain
        <5>2. DOMAIN chain = 1..n
          BY <2>3 DEF PgInv, TypeOK
        <5> QED
          BY <1>3, <4>2, <5>1, <5>2, Zenon DEF Taken
      <4> QED
        BY <3>1, <4>1, <4>3
    <3>3. CASE x.op \notin Deciding
      BY <2>3, <2>5, <2>9, <2>10, <3>3, ZenonT(60) DEF TxSound, Reading
    <3> QED
      BY <3>2, <3>3, Zenon
  <2>12. ASSUME NEW u \in Others(t) PROVE ~tx[u].inserted
    <3>1. u \in Txs /\ TxSound(tx[u])
      BY <2>12, Zenon DEF Others, PgInv
    <3>2. ~(tx[u].inserted /\ Numbers(t) \cap Numbers(u) # {})
      BY <2>12, Zenon DEF InsertAuditEvent, MustWait
    <3>3. tx[u].inserted => tx[u].sequence = n + 1
      BY <2>3, <3>1, Zenon DEF TxSound, Reading
    <3>4. tx[u].sequence = n + 1 => n + 1 \in Numbers(u)
      BY DEF Numbers, Count
    <3>5. n + 1 \in Numbers(t)
      BY <2>1, <2>11 DEF Numbers, Count
    <3> QED
      BY <3>2, <3>3, <3>4, <3>5, ZenonT(30)
  <2>13. Locking(y)
    BY <2>1, <2>5, <2>6, <2>8, <2>9, <2>10, ZenonT(60) DEF TxSound, Locking
  <2>14. Reading(y, n)
    <3>1. /\ "Insert" \notin Left(y.todo) /\ y.inserted
          /\ y.sequence = n + 1 /\ y.previous = n
      BY <2>6, <2>8, <2>9, <2>10, <2>11, ZenonT(30)
    <3> QED
      BY <3>1, Zenon DEF Reading
  <2>15. Checked(x, run, lease) => Checked(y, run, lease)
    BY <2>6, <2>8, ZenonT(60) DEF Checked
  <2>16. Knowing(y, run, lease)
    BY <2>5, <2>6, <2>8, <2>9, <2>10, <2>15, ZenonT(60) DEF TxSound, Knowing
  <2>17. y.run_lock = "None" \/ tx[t].run_lock # "None"
    BY <2>1, <2>10, Zenon
  <2> QED
    BY <1>1, <2>3, <2>8, <2>12, <2>13, <2>14, <2>16, <2>17, TxKeeps, Zenon DEF TxSound
<1> QED
  BY <1>2, <1>3, Zenon

(* The key-share lock of a decision: nobody holds the run, for the others  *)
(* that could share it have inserted nothing.                              *)
LEMMA ReferenceKeeps ==
  ASSUME PgInv, NEW t \in Txs, CheckReference(t)
  PROVE  PgInv'
<1>1. clock' \in Nat /\ UNCHANGED Database /\ At(t, "Reference") /\ RunIsShareable(t)
  BY Zenon DEF CheckReference, Caller, PgInv, TypeOK
<1>2. PICK x : x = tx[t]
  BY Zenon
<1>3. PICK c : c = [x EXCEPT !.run_lock = "Share"]
  BY Zenon
<1>4. "Reference" # "Commit"
  OBVIOUS
<1>5. /\ x \in TxRow /\ x.op # "None" /\ Sorted(x.op, "Reference", Left(x.todo)) /\ TxSound(x)
      /\ Tail(x.todo) \in Road(x.op) /\ Left(Tail(x.todo)) = Left(x.todo) \ {"Reference"}
      /\ Tail(x.todo) # <<>>
  BY <1>1, <1>2, <1>4, AtFacts, Zenon DEF PgInv
<1>6. /\ c \in TxRow
      /\ c.todo = x.todo /\ c.op = x.op /\ c.arg = x.arg /\ c.revision = x.revision
      /\ c.run_lock = "Share" /\ c.approval_lock = x.approval_lock
      /\ c.sequence = x.sequence /\ c.previous = x.previous /\ c.inserted = x.inserted
  BY <1>3, <1>5, ZenonT(30) DEF TxRow
<1>7. Continue(t, c) /\ c.todo = tx[t].todo
  BY <1>2, <1>3, <1>6, Zenon DEF CheckReference
<1>8. PICK y \in TxRow :
         /\ tx' = [tx EXCEPT ![t] = y]
         /\ y.todo = Tail(tx[t].todo) /\ y.op = c.op /\ y.arg = c.arg /\ y.revision = c.revision
         /\ y.run_lock = c.run_lock /\ y.approval_lock = c.approval_lock
         /\ y.sequence = c.sequence /\ y.previous = c.previous /\ y.inserted = c.inserted
  BY <1>1, <1>4, <1>6, <1>7, Continues, Zenon
<1>9. x.op \in Deciding /\ Left(x.todo) = {"Reference", "Commit"} /\ Left(y.todo) = {"Commit"}
  BY <1>2, <1>5, <1>8, ZenonT(60) DEF Sorted
<1>10. x.inserted /\ y.op = x.op /\ y.inserted = x.inserted /\ y.run_lock = "Share"
  BY <1>5, <1>6, <1>8, <1>9, ZenonT(30) DEF TxSound, Locking
<1>11. ASSUME NEW u \in Others(t) PROVE tx[u].run_lock = "None"
  <2>1. u \in Txs /\ u # t /\ tx[u] \in TxRow /\ Locking(tx[u])
    BY <1>11, Zenon DEF Others, PgInv, TypeOK, TxSound
  <2>2. ~tx[u].inserted /\ tx[u].run_lock # "Update"
    BY <1>1, <1>2, <1>10, <1>11, <2>1, Zenon DEF PgInv, OneEntry, RunIsShareable
  <2>3. tx[u].run_lock # "Share"
    <3>1. tx[u].run_lock = "Share" =>
            /\ tx[u].op \in Deciding /\ "Reference" \notin Left(tx[u].todo)
            /\ "Insert" \in Left(tx[u].todo)
      BY <2>1, <2>2, Zenon DEF Locking
    <3>2. tx[u].op \in Deciding => tx[u].op # "None" /\ tx[u].op \in Ops
      BY Zenon DEF Deciding, Ops, Plan
    <3>3. tx[u].op \in Deciding => tx[u].todo \in Road(tx[u].op) /\ tx[u].todo # <<>>
      BY <2>1, <3>2, Zenon DEF Locking
    <3>4. tx[u].op \in Deciding => Sorted(tx[u].op, Head(tx[u].todo), Left(tx[u].todo))
      BY <3>2, <3>3, OnTheRoad, Zenon
    <3> QED
      BY <3>1, <3>4, Zenon DEF Sorted
  <2> QED
    BY <2>1, <2>2, <2>3 DEF TxRow
<1>12. Locking(y)
  BY <1>2, <1>5, <1>6, <1>8, <1>9, <1>10, ZenonT(30) DEF TxSound, Locking
<1>13. Reading(y, Len(chain))
  BY <1>5, <1>6, <1>8, <1>9, <1>10, ZenonT(30) DEF TxSound, Reading
<1>14. Knowing(y, run, lease)
  BY <1>5, <1>6, <1>8, <1>9, <1>10, ZenonT(60) DEF TxSound, Knowing, Deciding
<1> QED
  BY <1>1, <1>2, <1>8, <1>10, <1>11, <1>12, <1>13, <1>14, TxKeeps, Zenon DEF TxSound

LEMMA FailKeeps ==
  ASSUME PgInv, NEW t \in Txs, Fail(t)
  PROVE  PgInv'
<1>1. clock' \in Nat /\ UNCHANGED Database /\ Rollback(t)
  BY Zenon DEF Fail, PgInv, TypeOK
<1> QED
  BY <1>1, RollbackKeeps, Zenon

LEMMA DeadlockKeeps ==
  ASSUME PgInv, NEW t \in Txs, DeadlockDetected(t)
  PROVE  PgInv'
<1>1. clock' \in Nat /\ UNCHANGED Database /\ Rollback(t)
  BY Zenon DEF DeadlockDetected, Caller, PgInv, TypeOK
<1> QED
  BY <1>1, RollbackKeeps, Zenon

(* Where the plans start. *)
LEMMA PlanStarts ==
  ASSUME NEW op \in Ops
  PROVE  /\ Plan[op] \in Road(op) /\ Plan[op] # <<>> /\ Plan[op] \in Seq(Statements)
         /\ op \in Deciding => {"Sequence", "Hash", "Insert", "Reference"} \subseteq Left(Plan[op])
         /\ op \notin Deciding => "LockRun" \in Left(Plan[op]) \/ "Pick" \in Left(Plan[op])
         /\ op = "RecoverInterrupted" => "SelectInterrupted" \in Left(Plan[op])
<1>1. PICK p : p = Plan[op]
  BY Zenon
<1>2. /\ Len(p) > 0
      /\ op \in Deciding => p[1] = "LockApproval"
      /\ op = "RecoverInterrupted" => p[1] = "SelectInterrupted"
      /\ p[1] \in {"LockRun", "Pick", "LockApproval", "SelectExpired", "SelectInterrupted"}
  <2>1. CASE op \in {"TransitionLeasedRun", "CompleteLeasedRun", "AppendLeased", "RequestCancel",
                     "ConfirmCancel", "AppendAudit", "ReconcileAction", "CreateApproval"}
    <3>1. p = Leased /\ op \notin Deciding /\ op # "RecoverInterrupted"
      BY <1>1, <2>1 DEF Plan, Deciding
    <3>2. Len(Leased) > 0 /\ Leased[1] = "LockRun"
      BY DEF Leased
    <3> QED
      BY <3>1, <3>2, Zenon
  <2>2. CASE op \in {"RecordLeasedArtifacts", "RecordArtifacts", "TransitionRun", "HeartbeatLease"}
    <3>1. Len(p) > 0 /\ p[1] = "LockRun"
      BY <1>1, <2>2 DEF Plan
    <3>2. op \notin Deciding /\ op # "RecoverInterrupted"
      BY <2>2 DEF Deciding
    <3> QED
      BY <3>1, <3>2, Zenon
  <2>3. CASE op = "ClaimNextRun"
    <3>1. Len(p) > 0 /\ p[1] = "Pick"
      BY <1>1, <2>3 DEF Plan
    <3>2. op \notin Deciding /\ op # "RecoverInterrupted"
      BY <2>3 DEF Deciding
    <3> QED
      BY <3>1, <3>2, Zenon
  <2>4. CASE op = "RecoverExpiredLeases"
    <3>1. Len(p) > 0 /\ p[1] = "SelectExpired"
      BY <1>1, <2>4 DEF Plan
    <3>2. op \notin Deciding /\ op # "RecoverInterrupted"
      BY <2>4 DEF Deciding
    <3> QED
      BY <3>1, <3>2, Zenon
  <2>5. CASE op = "RecoverInterrupted"
    <3>1. Len(p) > 0 /\ p[1] = "SelectInterrupted"
      BY <1>1, <2>5 DEF Plan
    <3>2. op \notin Deciding /\ op = "RecoverInterrupted"
      BY <2>5 DEF Deciding
    <3> QED
      BY <3>1, <3>2, Zenon
  <2>6. CASE op \in {"Approve", "ConsumeApproval", "ConsumeMismatch"}
    <3>1. p = ApprovePlan /\ op \notin Deciding /\ op # "RecoverInterrupted"
      BY <1>1, <2>6 DEF Plan, Deciding, ApprovePlan, ConsumePlan
    <3>2. Len(ApprovePlan) > 0 /\ ApprovePlan[1] = "LockApproval"
      BY DEF ApprovePlan
    <3> QED
      BY <3>1, <3>2, Zenon
  <2>7. CASE op \in Deciding
    <3>1. p = DecidePlan /\ op \in Deciding /\ op # "RecoverInterrupted"
      BY <1>1, <2>7 DEF Plan, Deciding
    <3>2. Len(DecidePlan) > 0 /\ DecidePlan[1] = "LockApproval"
      BY DEF DecidePlan
    <3> QED
      BY <3>1, <3>2, Zenon
  <2> QED
    BY <2>1, <2>2, <2>3, <2>4, <2>5, <2>6, <2>7, ZenonT(30) DEF Ops, Plan, Deciding
<1>3. p \in Seq(Statements)
  BY <1>1, PlansAreSorted, Zenon DEF SortedPlan
<1>4. p # <<>> /\ 1 \in 1..(Len(p) + 1) /\ p = SubSeq(p, 1, Len(p)) /\ Head(p) = p[1]
  BY <1>2, <1>3
<1>5. p \in Road(op)
  BY <1>1, <1>4, Zenon DEF Road
<1>6. Sorted(op, p[1], Left(p))
  <2>1. Sorted(op, Head(p), Left(p))
    BY <1>4, <1>5, OnTheRoad, Zenon
  <2> QED
    BY <1>4, <2>1, Zenon
<1>7. PICK l : l = Left(p)
  BY Zenon
<1>8. /\ op \in Deciding => {"Sequence", "Hash", "Insert", "Reference"} \subseteq l
      /\ op \notin Deciding => "LockRun" \in l \/ "Pick" \in l
      /\ op = "RecoverInterrupted" => "SelectInterrupted" \in l
  BY <1>2, <1>6, <1>7 DEF Sorted
<1> QED
  BY <1>1, <1>3, <1>4, <1>5, <1>7, <1>8, Zenon

LEMMA BeginKeeps ==
  ASSUME PgInv, NEW t \in Txs, NEW op \in Ops, Begin(t, op)
  PROVE  PgInv'
<1>1. PICK arg \in Arguments(op) :
        tx' = [tx EXCEPT ![t] = [Idle EXCEPT !.op = op, !.todo = Plan[op], !.arg = arg,
                                             !.now = clock', !.revision = Presented(op, arg)]]
  BY Zenon DEF Begin
<1>2. PICK v : v = Presented(op, arg)
  BY Zenon
<1>3. clock' \in Nat
  BY DEF Begin, PgInv, TypeOK
<1>4. UNCHANGED Database
  BY Zenon DEF Begin
<1>5. run \in RunRow /\ held \in HeldRow /\ approvals \in [Approvals -> ApprovalRow]
  BY Zenon DEF PgInv, TypeOK
<1>6. op \in LeasedOps => /\ v = held.revision /\ held # NotHeld /\ v \in Nat
                          /\ v <= run.revision /\ (v = run.revision => held.status = run.status)
  <2>1. op \in LeasedOps => v = held.revision
    BY <1>2 DEF Presented, LeasedOps, ApprovalOps
  <2>2. op \in LeasedOps => held # NotHeld
    BY Zenon DEF Begin
  <2>3. held.revision \in Nat
    BY <1>5 DEF HeldRow
  <2>4. held # NotHeld => /\ held.revision <= run.revision
                          /\ held.revision = run.revision => held.status = run.status
    BY Zenon DEF PgInv, RunSound
  <2> QED
    BY <2>1, <2>2, <2>3, <2>4, Zenon
<1>7. v \in Nat /\ arg \in Approvals \cup RunStatus \cup {"None"}
  <2>1. CASE op \in ApprovalOps
    <3>1. arg \in Approvals
      BY <2>1 DEF Arguments, ApprovalOps
    <3>2. v = approvals[arg].revision
      BY <1>2, <2>1 DEF Presented, ApprovalOps, LeasedOps
    <3> QED
      BY <1>5, <3>1, <3>2 DEF ApprovalRow
  <2>2. CASE op = "TransitionRun"
    BY <1>2, <1>5, <2>2 DEF Presented, Arguments, ApprovalOps, LeasedOps, RunRow
  <2>3. CASE op \in {"TransitionLeasedRun", "CompleteLeasedRun"}
    <3>1. arg \in RunStatus
      BY <2>3 DEF Arguments, ApprovalOps, Targets, Endings, RunStatus
    <3> QED
      BY <1>6, <2>3, <3>1 DEF LeasedOps
  <2>4. CASE op \notin ApprovalOps \cup {"TransitionRun", "TransitionLeasedRun", "CompleteLeasedRun"}
    <3>1. arg = "None"
      BY <2>4 DEF Arguments
    <3>2. op \notin LeasedOps => v = 0
      BY <1>2, <2>4 DEF Presented
    <3> QED
      BY <1>6, <3>1, <3>2
  <2> QED
    BY <2>1, <2>2, <2>3, <2>4
<1>8. /\ op = "TransitionLeasedRun" => /\ arg \in RunStatus \ TerminalStatus
                                       /\ AnyTarget \/ CanTransitionTo(held.status, arg)
      /\ op = "CompleteLeasedRun" => /\ arg \in {"Succeeded", "Failed", "TimedOut"}
                                     /\ AnyTarget \/ CanTransitionTo(held.status, arg)
  BY Zenon DEF Arguments, ApprovalOps, Targets, Endings
<1>9. PICK p : p = Plan[op] /\ p \in Seq(Statements)
  BY PlanStarts, Zenon
<1>10. PICK y : y = [Idle EXCEPT !.op = op, !.todo = p, !.arg = arg, !.now = clock', !.revision = v]
  BY Zenon
<1>11. tx' = [tx EXCEPT ![t] = y]
  BY <1>1, <1>2, <1>9, <1>10, Zenon
<1>12. /\ y \in TxRow /\ y.op = op /\ y.todo = p /\ y.arg = arg /\ y.revision = v
       /\ y.run_lock = "None" /\ y.approval_lock = FALSE /\ y.sequence = 0 /\ y.previous = 0
       /\ y.inserted = FALSE
  BY <1>3, <1>7, <1>9, <1>10, Zenon DEF Idle, TxRow
<1>13. PICK l : l = Left(p)
  BY Zenon
<1>14. /\ p \in Road(op) /\ p # <<>>
       /\ op \in Deciding => {"Sequence", "Hash", "Insert", "Reference"} \subseteq l
       /\ op \notin Deciding => "LockRun" \in l \/ "Pick" \in l
       /\ op = "RecoverInterrupted" => "SelectInterrupted" \in l
  BY <1>9, <1>13, PlanStarts, Zenon
<1>15. op # "None"
  BY ZenonT(60) DEF Ops, Plan
<1>16. Locking(y)
  BY <1>12, <1>13, <1>14, <1>15 DEF Locking
<1>17. Reading(y, Len(chain))
  BY <1>12, <1>13, <1>14, ZenonT(30) DEF Reading
<1>18. Knowing(y, run, lease)
  BY <1>6, <1>8, <1>12, <1>13, <1>14, ZenonT(60) DEF Knowing, LeasedOps
<1> QED
  BY <1>3, <1>4, <1>11, <1>12, <1>16, <1>17, <1>18, TxKeeps, Zenon DEF TxSound

-----------------------------------------------------------------------------
(* Commits *)

(* A transaction that commits holds the run, and has checked it. *)
LEMMA CommitFacts ==
  ASSUME PgInv, NEW t \in Txs, At(t, "Commit")
  PROVE  /\ tx[t] \in TxRow /\ tx[t].op \in Ops /\ Left(tx[t].todo) = {"Commit"}
         /\ tx[t].run_lock # "None" /\ \A u \in Others(t) : tx[u].run_lock = "None"
         /\ tx[t].op \notin Deciding => tx[t].run_lock = "Update" /\ Checked(tx[t], run, lease)
         /\ Knowing(tx[t], run, lease)
         /\ tx[t].inserted => tx[t].sequence = Len(chain) + 1 /\ tx[t].previous = Len(chain)
<1>1. PICK x : x = tx[t]
  BY Zenon
<1>2. x \in TxRow /\ x.op \in Ops /\ x.op # "None" /\ Sorted(x.op, "Commit", Left(x.todo)) /\ TxSound(x)
  BY <1>1, AtFacts, Zenon DEF PgInv
<1>3. Left(x.todo) = {"Commit"}
  BY <1>2, Zenon DEF Sorted
<1>4. x.op \in Deciding => x.inserted /\ x.run_lock = "Share"
  BY <1>2, <1>3, ZenonT(30) DEF TxSound, Locking
<1>5. x.op \notin Deciding => x.run_lock = "Update"
  BY <1>2, <1>3, ZenonT(60) DEF TxSound, Locking
<1>6. x.run_lock # "None"
  BY <1>4, <1>5
<1>7. x.run_lock = "Update" => Checked(x, run, lease)
  BY <1>2, <1>3 DEF TxSound, Knowing
<1>8. x.inserted => x.sequence = Len(chain) + 1 /\ x.previous = Len(chain)
  BY <1>2, <1>3, <1>4, <1>5 DEF TxSound, Reading
<1>9. \A u \in Others(t) : tx[u].run_lock = "None"
  BY <1>1, <1>6, Zenon DEF PgInv, OneLock, Others
<1> QED
  BY <1>1, <1>2, <1>3, <1>5, <1>6, <1>7, <1>8, <1>9, Zenon DEF TxSound

(* The events are the next ones of the chain. *)
LEMMA ChainGrows ==
  ASSUME PgInv, NEW t \in Txs, Committed(t)
  PROVE  /\ chain' \in Seq(EventRow) /\ Len(chain') >= Len(chain) /\ Len(chain') > 0
         /\ VerifyAuditChain'
<1>1. PICK n \in Nat \ {0} : n = Len(chain) /\ DOMAIN chain = 1..n
  BY DEF PgInv, TypeOK
<1>2. chain \in Seq(EventRow) /\ VerifyAuditChain
  BY Zenon DEF PgInv, TypeOK
<1>3. CASE ~tx[t].inserted
  <2>1. chain' = chain
    BY <1>3, Zenon DEF Committed
  <2> QED
    BY <1>1, <1>2, <2>1 DEF VerifyAuditChain
<1>4. CASE tx[t].inserted
  <2>1. PICK x : x = tx[t]
    BY Zenon
  <2>2. x \in TxRow /\ x.op \in Ops /\ x.sequence = n + 1 /\ x.previous = n
    BY <1>1, <1>4, <2>1, CommitFacts, Zenon DEF Committed
  <2>3. PICK k \in {1, 2} : k = Count(t)
    BY DEF Count
  <2>4. ASSUME NEW i \in 1..k
        PROVE  Event(t, i) \in EventRow /\ Event(t, i).sequence = n + i /\ Event(t, i).previous = n + i - 1
    <3>1. /\ i = 1 \/ (i # 1 /\ n + i - 1 \in Nat)
          /\ i = 1 => n = n + i - 1
          /\ n + 1 + i - 1 = n + i /\ n + i \in Nat
      BY <2>3
    <3>2. x.now \in Nat /\ x.op \in Ops
      BY <2>2, Zenon DEF TxRow
    <3>3. Event(t, i) = [sequence |-> n + i, previous |-> n + i - 1, time |-> x.now, op |-> x.op]
      BY <1>1, <2>1, <2>2, <3>1, Zenon DEF Event
    <3>4. n + i - 1 \in Nat
      BY <2>3
    <3>5. PICK q \in Nat, r \in Nat : q = n + i /\ r = n + i - 1
      BY <3>1, <3>4, Zenon
    <3>6. Event(t, i) = [sequence |-> q, previous |-> r, time |-> x.now, op |-> x.op]
      BY <3>3, <3>5, Zenon
    <3>7. Event(t, i) \in EventRow /\ Event(t, i).sequence = q /\ Event(t, i).previous = r
      BY <3>2, <3>5, <3>6 DEF EventRow
    <3> QED
      BY <3>5, <3>7, Zenon
  <2>5. PICK f : f = [i \in 1..k |-> Event(t, i)]
    BY Zenon
  <2>6. f \in [1..k -> EventRow] /\ \A i \in 1..k : f[i].sequence = n + i /\ f[i].previous = n + i - 1
    BY <2>4, <2>5, Zenon
  <2>7. f \in Seq(EventRow) /\ Len(f) = k
    BY <2>6
  <2>8. chain' = chain \o f
    BY <1>4, <2>3, <2>5, Zenon DEF Committed
  <2>9. PICK c : c = chain \o f
    BY Zenon
  <2>10. c \in Seq(EventRow) /\ Len(c) = n + k /\ DOMAIN c = 1..(n + k)
    BY <1>1, <1>2, <2>7, <2>9
  <2>11. \A i \in 1..n : c[i] = chain[i]
    BY <1>1, <1>2, <2>7, <2>9
  <2>12. \A i \in 1..k : c[n + i] = f[i]
    BY <1>1, <1>2, <2>7, <2>9
  <2>13. ASSUME NEW i \in 1..(n + k) PROVE c[i].sequence = i /\ c[i].previous = i - 1
    <3>1. CASE i \in 1..n
      BY <1>1, <1>2, <2>11, <3>1 DEF VerifyAuditChain
    <3>2. CASE i \notin 1..n
      <4>1. i - n \in 1..k /\ n + (i - n) = i
        BY <3>2
      <4>2. PICK j \in 1..k : n + j = i
        BY <4>1, Zenon
      <4>3. c[i].sequence = n + j /\ c[i].previous = n + j - 1
        BY <2>6, <2>12, <4>2, Zenon
      <4> QED
        BY <4>2, <4>3
    <3> QED
      BY <3>1, <3>2, Zenon
  <2> QED
    <3>1. n + k >= n /\ n + k > 0
      BY <1>1, <2>3
    <3>2. chain' = c
      BY <2>8, <2>9, Zenon
    <3> QED
      BY <1>1, <2>10, <2>13, <3>1, <3>2, Zenon DEF VerifyAuditChain
<1> QED
  BY <1>3, <1>4, Zenon

(* A commit under the lock of the run leaves what the others know true, a  *)
(* decision that has its number in the index included: the commit then has *)
(* no events.                                                              *)
Follows(r, e, r2, e2) ==
  /\ r2.revision > r.revision \/ (r2.revision = r.revision /\ r2.status = r.status)
  /\ e = NoLease /\ r.status # "Queued" => e2 = NoLease /\ r2.status # "Queued"

LEMMA OthersKeep ==
  ASSUME NEW x \in TxRow, x.run_lock = "None", NEW n \in Nat, NEW m \in Nat, m >= n,
         x.inserted => m = n,
         NEW r \in RunRow, NEW r2 \in RunRow, NEW e, NEW e2, Follows(r, e, r2, e2),
         Locking(x), Reading(x, n), Knowing(x, r, e)
  PROVE  Reading(x, m) /\ Knowing(x, r2, e2)
<1>1. Reading(x, m)
  <2>1. ASSUME NEW i \in Nat PROVE i <= n + 1 => i <= m + 1
    OBVIOUS
  <2>2. ASSUME NEW i \in Nat PROVE i <= n => i <= m
    OBVIOUS
  <2>3. x.sequence \in Nat /\ x.previous \in Nat
    BY Zenon DEF TxRow
  <2> QED
    BY <2>1, <2>2, <2>3, Zenon DEF Reading
<1>2. r.revision \in Nat /\ r2.revision \in Nat /\ x.revision \in Nat
  BY Zenon DEF RunRow, TxRow
<1>3. Knowing(x, r2, e2)
  <2>1. ASSUME x.revision <= r.revision
        PROVE  /\ x.revision <= r2.revision
               /\ x.revision = r2.revision => x.revision = r.revision /\ r2.status = r.status
    BY <1>2, <2>1 DEF Follows
  <2>2. /\ e = NoLease /\ r.status # "Queued" => e2 = NoLease /\ r2.status # "Queued"
        /\ x.run_lock # "Update"
    BY Zenon DEF Follows
  <2> QED
    BY <2>1, <2>2, Zenon DEF Knowing
<1> QED
  BY <1>1, <1>3, Zenon

(* The lease value of the worker falls behind a run that moves on. *)
LEMMA HeldLags ==
  ASSUME NEW r \in RunRow, NEW r2 \in RunRow, r2.revision > r.revision, NEW e,
         NEW h \in HeldRow, RunSound(r, e, h)
  PROVE  h # NotHeld => h.revision <= r2.revision /\ h.revision # r2.revision
<1>1. r.revision \in Nat /\ r2.revision \in Nat /\ h.revision \in Nat
  BY Zenon DEF RunRow, HeldRow
<1>2. h # NotHeld => h.revision <= r.revision
  BY Zenon DEF RunSound
<1> QED
  BY <1>1, <1>2

(* The statuses that end a run. *)
LEMMA Ends ==
  /\ {"Succeeded", "Failed", "TimedOut", "Cancelled"} \subseteq TerminalStatus
  /\ \A s \in {"Queued", "Planning", "AwaitingApproval", "Running"} : s \notin TerminalStatus
BY DEF TerminalStatus

LEMMA CommitKeeps ==
  ASSUME PgInv, NEW t \in Txs, Committed(t),
         run' \in RunRow, lease' \in LeaseRow, held' \in HeldRow,
         approvals' \in [Approvals -> ApprovalRow],
         RunSound(run', lease', held'), Follows(run, lease, run', lease')
  PROVE  PgInv'
<1>1. At(t, "Commit") /\ tx' = [tx EXCEPT ![t] = Idle] /\ UNCHANGED Caller
  BY Zenon DEF Committed, Rollback
<1>2. Idle \in TxRow /\ Idle.run_lock = "None"
      /\ \A n, r, e : Locking(Idle) /\ Reading(Idle, n) /\ Knowing(Idle, r, e)
  BY IdleIsSound, Zenon
<1>3. tx' \in [Txs -> TxRow] /\ tx'[t] = Idle /\ \A u \in Txs : u # t => tx'[u] = tx[u]
  BY <1>1, <1>2, Zenon DEF PgInv, TypeOK
<1>4. /\ chain' \in Seq(EventRow) /\ Len(chain') >= Len(chain) /\ Len(chain') > 0
      /\ VerifyAuditChain'
  BY ChainGrows, Zenon
<1>5. clock' \in Nat
  BY <1>1, Zenon DEF Caller, PgInv, TypeOK
<1>6. TypeOK'
  BY <1>3, <1>4, <1>5, Zenon DEF TypeOK
<1>7. \A u \in Txs : tx'[u].run_lock = "None"
  BY <1>1, <1>2, <1>3, CommitFacts, Zenon DEF Others
<1>8. OneLock' /\ OneEntry'
  <2>1. ~Idle.inserted
    BY IdleIsSound, Zenon
  <2>2. OneLock'
    BY <1>7, Zenon DEF OneLock
  <2>3. OneEntry'
    BY <1>3, <2>1, ZenonT(30) DEF PgInv, OneEntry
  <2> QED
    BY <2>2, <2>3, Zenon
<1>9. PICK n \in Nat, m \in Nat : n = Len(chain) /\ m = Len(chain') /\ m >= n
  BY <1>4 DEF PgInv, TypeOK
<1>10. ASSUME NEW u \in Txs PROVE TxSound(tx[u])'
  <2>1. CASE u = t
    BY <1>2, <1>3, <2>1, Zenon DEF TxSound
  <2>2. CASE u # t
    <3>1. tx'[u] = tx[u] /\ tx[u].run_lock = "None" /\ tx[u] \in TxRow
      BY <1>3, <1>7, <2>2, Zenon DEF PgInv, TypeOK
    <3>2. run \in RunRow /\ Locking(tx[u]) /\ Reading(tx[u], n) /\ Knowing(tx[u], run, lease)
      BY <1>9, Zenon DEF PgInv, TypeOK, TxSound
    <3>3. tx[u].inserted => m = n
      <4>1. tx[u].inserted => ~tx[t].inserted
        BY <2>2, Zenon DEF PgInv, OneEntry
      <4>2. ~tx[t].inserted => chain' = chain
        BY Zenon DEF Committed
      <4> QED
        BY <1>9, <4>1, <4>2, Zenon
    <3>4. Reading(tx[u], m) /\ Knowing(tx[u], run', lease')
      BY <1>9, <3>1, <3>2, <3>3, OthersKeep, Zenon
    <3> QED
      BY <1>9, <3>1, <3>2, <3>4, Zenon DEF TxSound
  <2> QED
    BY <2>1, <2>2, Zenon
<1>11. RunSound(run, lease, held)'
  BY Zenon
<1> QED
  BY <1>4, <1>6, <1>8, <1>10, <1>11, Zenon DEF PgInv

(* The move of the status is one that RunStatus allows. *)
Moves == run'.status # run.status => CanTransitionTo(run.status, run'.status)

(* The row of a run after apply_run_transition. *)
LEMMA Applied ==
  ASSUME TypeOK, NEW next \in RunStatus, NEW now \in Nat
  PROVE  /\ ApplyRunTransition(next, now) \in RunRow
         /\ ApplyRunTransition(next, now).status = next
         /\ ApplyRunTransition(next, now).revision = run.revision + 1
         /\ ApplyRunTransition(next, now).cancel_requested = run.cancel_requested
         /\ run.revision \in Nat /\ run.revision + 1 \in Nat /\ run.revision + 1 > run.revision
<1>1. run \in RunRow
  BY Zenon DEF TypeOK
<1>2. run.revision \in Nat
  BY <1>1 DEF RunRow
<1>3. PICK v \in Nat : v = run.revision + 1 /\ v > run.revision
  BY <1>2
<1>4. PICK r : r = [run EXCEPT !.status = next, !.revision = v, !.updated_at = now]
  BY Zenon
<1>5. r \in RunRow /\ r.status = next /\ r.revision = v /\ r.cancel_requested = run.cancel_requested
  BY <1>1, <1>4, Zenon DEF RunRow
<1>6. ApplyRunTransition(next, now) = r
  BY <1>3, <1>4, Zenon DEF ApplyRunTransition
<1> QED
  BY <1>2, <1>3, <1>5, <1>6, Zenon

LEMMA LeaseFacts ==
  ASSUME TypeOK, NEW now \in Nat
  PROVE  /\ NoLease \in LeaseRow
         /\ [acquired_at |-> now, expires_at |-> now + Ttl] \in LeaseRow
         /\ [acquired_at |-> now, expires_at |-> now + Ttl] # NoLease
         /\ [lease EXCEPT !.expires_at = now + Ttl] \in LeaseRow
         /\ [lease EXCEPT !.expires_at = now + Ttl] # NoLease
<1>1. Ttl \in Nat /\ Ttl > 0 /\ lease \in LeaseRow /\ now + Ttl \in Nat /\ now + Ttl # 0
  BY PgAssumption DEF TypeOK
<1>2. NoLease \in LeaseRow /\ NoLease.expires_at = 0
  BY DEF NoLease, LeaseRow
<1>3. PICK e : e = [acquired_at |-> now, expires_at |-> now + Ttl]
  BY Zenon
<1>4. e \in LeaseRow /\ e.expires_at = now + Ttl
  BY <1>1, <1>3 DEF LeaseRow
<1>5. PICK f : f = [lease EXCEPT !.expires_at = now + Ttl]
  BY Zenon
<1>6. f \in LeaseRow /\ f.expires_at = now + Ttl
  BY <1>1, <1>5 DEF LeaseRow
<1> QED
  BY <1>1, <1>2, <1>3, <1>4, <1>5, <1>6, Zenon

LEMMA HeldFacts ==
  ASSUME NEW revision \in Nat, NEW status \in RunStatus
  PROVE  /\ [revision |-> revision, status |-> status] \in HeldRow
         /\ [revision |-> revision, status |-> status].revision = revision
         /\ [revision |-> revision, status |-> status].status = status
BY DEF HeldRow

(* What every commit starts from. *)
LEMMA Committing ==
  ASSUME PgInv, NEW t \in Txs, Committed(t)
  PROVE  /\ TypeOK /\ tx[t] \in TxRow /\ tx[t].now \in Nat /\ Left(tx[t].todo) = {"Commit"}
         /\ lease \in LeaseRow /\ held \in HeldRow /\ approvals \in [Approvals -> ApprovalRow]
         /\ run \in RunRow /\ run.status \in RunStatus /\ run.revision \in Nat
         /\ RunSound(run, lease, held) /\ Knowing(tx[t], run, lease)
         /\ tx[t].op \notin Deciding => tx[t].run_lock = "Update" /\ Checked(tx[t], run, lease)
<1>1. At(t, "Commit")
  BY Zenon DEF Committed
<1>2. TypeOK /\ RunSound(run, lease, held)
  BY Zenon DEF PgInv
<1>3. lease \in LeaseRow /\ held \in HeldRow /\ approvals \in [Approvals -> ApprovalRow] /\ run \in RunRow
  BY <1>2, Zenon DEF TypeOK
<1>4. run.status \in RunStatus /\ run.revision \in Nat
  BY <1>3 DEF RunRow
<1>5. tx[t] \in TxRow => tx[t].now \in Nat
  BY DEF TxRow
<1> QED
  BY <1>1, <1>2, <1>3, <1>4, <1>5, CommitFacts, Zenon

(* The row of the run after a transition that commits. *)
LEMMA Applying ==
  ASSUME PgInv, NEW t \in Txs, Committed(t), NEW next \in RunStatus,
         run' = ApplyRunTransition(next, tx[t].now)
  PROVE  /\ run' \in RunRow /\ run'.status = next /\ run'.revision = run.revision + 1
         /\ run'.revision > run.revision /\ run'.cancel_requested = run.cancel_requested
         /\ run.revision \in Nat /\ run.revision + 1 \in Nat
<1>1. TypeOK /\ tx[t].now \in Nat
  BY Committing, Zenon
<1> QED
  BY <1>1, Applied, Zenon

LEMMA ClaimCommits ==
  ASSUME PgInv, NEW t \in Txs, ClaimNextRun(t)
  PROVE  PgInv' /\ Moves
<1>1. /\ Committed(t) /\ tx[t].op = "ClaimNextRun" /\ run' = ApplyRunTransition("Planning", tx[t].now)
      /\ lease' = [acquired_at |-> tx[t].now, expires_at |-> tx[t].now + Ttl]
      /\ held' = [revision |-> run.revision + 1, status |-> "Planning"] /\ approvals' = approvals
  BY Zenon DEF ClaimNextRun
<1>2. lease = NoLease /\ run.status = "Queued"
  BY <1>1, Committing, Zenon DEF Knowing, Deciding
<1>3. /\ run' \in RunRow /\ run'.status = "Planning" /\ run'.revision = run.revision + 1
      /\ run'.revision > run.revision /\ run'.cancel_requested = run.cancel_requested
      /\ run.revision + 1 \in Nat
  <2>1. "Planning" \in RunStatus
    BY DEF RunStatus
  <2> QED
    BY <1>1, <2>1, Applying, Zenon
<1>4. lease' \in LeaseRow /\ lease' # NoLease
  BY <1>1, Committing, LeaseFacts, Zenon
<1>5. held' \in HeldRow /\ held'.revision = run.revision + 1 /\ held'.status = "Planning"
  <2>1. "Planning" \in RunStatus /\ run.revision + 1 \in Nat
    BY <1>3 DEF RunStatus
  <2> QED
    BY <1>1, <2>1, HeldFacts, Zenon
<1>6. approvals' \in [Approvals -> ApprovalRow] /\ RunSound(run, lease, held) /\ run.revision \in Nat
  BY <1>1, Committing, Zenon
<1>7. RunSound(run', lease', held') /\ Follows(run, lease, run', lease')
  <2>1. held'.revision <= run'.revision /\ "Planning" \notin TerminalStatus
    BY <1>3, <1>5, <1>6 DEF TerminalStatus
  <2> QED
    BY <1>2, <1>3, <1>4, <1>5, <1>6, <2>1, Zenon DEF RunSound, Follows, IsTerminal
<1>8. Moves
  BY <1>2, <1>3 DEF Moves, CanTransitionTo
<1> QED
  BY <1>1, <1>3, <1>4, <1>5, <1>6, <1>7, <1>8, CommitKeeps, Zenon

LEMMA HeartbeatCommits ==
  ASSUME PgInv, NEW t \in Txs, HeartbeatLease(t)
  PROVE  PgInv' /\ Moves
<1>1. /\ Committed(t) /\ tx[t].op = "HeartbeatLease" /\ run' = run
      /\ lease' = [lease EXCEPT !.expires_at = tx[t].now + Ttl]
      /\ held' = [revision |-> run.revision, status |-> run.status] /\ approvals' = approvals
  BY Zenon DEF HeartbeatLease
<1>2. lease # NoLease
  BY <1>1, Committing, Zenon DEF Checked, Deciding
<1>3. lease' \in LeaseRow /\ lease' # NoLease
  BY <1>1, Committing, LeaseFacts, Zenon
<1>4. held' \in HeldRow /\ held'.revision = run.revision /\ held'.status = run.status
  <2>1. run.revision \in Nat /\ run.status \in RunStatus
    BY <1>1, Committing, Zenon
  <2> QED
    BY <1>1, <2>1, HeldFacts, Zenon
<1>5. /\ approvals' \in [Approvals -> ApprovalRow] /\ RunSound(run, lease, held)
      /\ run' \in RunRow /\ run.revision \in Nat
  BY <1>1, Committing, Zenon
<1>6. RunSound(run', lease', held') /\ Follows(run, lease, run', lease')
  <2>1. held'.revision <= run'.revision
    BY <1>1, <1>4, <1>5
  <2> QED
    BY <1>1, <1>2, <1>3, <1>4, <1>5, <2>1, Zenon DEF RunSound, Follows
<1>7. Moves
  BY <1>1, Zenon DEF Moves
<1> QED
  BY <1>1, <1>3, <1>4, <1>5, <1>6, <1>7, CommitKeeps, Zenon

LEMMA TransitionLeasedCommits ==
  ASSUME PgInv, NEW t \in Txs, TransitionLeasedRun(t)
  PROVE  PgInv' /\ (~AnyTarget => Moves)
<1>1. /\ Committed(t) /\ tx[t].op = "TransitionLeasedRun"
      /\ run' = ApplyRunTransition(tx[t].arg, tx[t].now) /\ lease' = lease
      /\ held' = [revision |-> run.revision + 1, status |-> tx[t].arg] /\ approvals' = approvals
  BY Zenon DEF TransitionLeasedRun
<1>2. /\ lease # NoLease /\ tx[t].arg \in RunStatus /\ tx[t].arg \notin TerminalStatus
      /\ ~AnyTarget => CanTransitionTo(run.status, tx[t].arg)
  BY <1>1, Committing, Zenon DEF Knowing, Checked, Deciding
<1>3. /\ run' \in RunRow /\ run'.status = tx[t].arg /\ run'.revision = run.revision + 1
      /\ run'.revision > run.revision /\ run'.cancel_requested = run.cancel_requested
  BY <1>1, <1>2, Applying, Zenon
<1>4. held' \in HeldRow /\ held'.revision = run.revision + 1 /\ held'.status = tx[t].arg
  <2>1. run.revision + 1 \in Nat /\ tx[t].arg \in RunStatus
    BY <1>1, <1>2, Applying, Zenon
  <2> QED
    BY <1>1, <2>1, HeldFacts, Zenon
<1>5. /\ approvals' \in [Approvals -> ApprovalRow] /\ RunSound(run, lease, held)
      /\ lease' \in LeaseRow /\ run.revision \in Nat
  BY <1>1, Committing, Zenon
<1>6. RunSound(run', lease', held') /\ Follows(run, lease, run', lease')
  <2>1. held'.revision <= run'.revision /\ "Succeeded" \in TerminalStatus
    BY <1>3, <1>4, <1>5 DEF TerminalStatus
  <2> QED
    BY <1>1, <1>2, <1>3, <1>4, <1>5, <2>1, Zenon DEF RunSound, Follows, IsTerminal
<1>7. ~AnyTarget => Moves
  BY <1>2, <1>3, Zenon DEF Moves
<1> QED
  BY <1>1, <1>3, <1>4, <1>5, <1>6, <1>7, CommitKeeps, Zenon

LEMMA CompleteCommits ==
  ASSUME PgInv, NEW t \in Txs, CompleteLeasedRun(t)
  PROVE  PgInv' /\ (~AnyTarget => Moves)
<1>1. /\ Committed(t) /\ tx[t].op = "CompleteLeasedRun"
      /\ run' = ApplyRunTransition(tx[t].arg, tx[t].now) /\ lease' = NoLease /\ held' = NotHeld
      /\ approvals' = approvals
  BY Zenon DEF CompleteLeasedRun
<1>2. /\ lease # NoLease /\ tx[t].arg \in {"Succeeded", "Failed", "TimedOut"}
      /\ ~(tx[t].arg = "Succeeded" /\ run.cancel_requested)
      /\ ~AnyTarget => CanTransitionTo(run.status, tx[t].arg)
  BY <1>1, Committing, Zenon DEF Knowing, Checked, Deciding
<1>3. /\ run' \in RunRow /\ run'.status = tx[t].arg /\ run'.revision = run.revision + 1
      /\ run'.revision > run.revision /\ run'.cancel_requested = run.cancel_requested
  <2>1. tx[t].arg \in RunStatus
    BY <1>2 DEF RunStatus
  <2> QED
    BY <1>1, <1>2, <2>1, Applying, Zenon
<1>4. held' \in HeldRow /\ lease' \in LeaseRow
  BY <1>1, Committing, LeaseFacts, Zenon DEF HeldRow, NotHeld
<1>5. approvals' \in [Approvals -> ApprovalRow] /\ run.revision \in Nat
  BY <1>1, Committing, Zenon
<1>6. RunSound(run', lease', held') /\ Follows(run, lease, run', lease')
  <2>1. tx[t].arg \in TerminalStatus
    BY <1>2, Ends, Zenon
  <2> QED
    BY <1>1, <1>2, <1>3, <1>5, <2>1, Zenon DEF RunSound, Follows, IsTerminal
<1>7. ~AnyTarget => Moves
  BY <1>2, <1>3, Zenon DEF Moves
<1> QED
  BY <1>1, <1>3, <1>4, <1>5, <1>6, <1>7, CommitKeeps, Zenon

(* Operations that change neither the run, nor its lease, nor the worker. *)
LEMMA QuietCommits ==
  ASSUME PgInv, NEW t \in Txs, Committed(t), UNCHANGED <<run, lease, held>>,
         approvals' \in [Approvals -> ApprovalRow]
  PROVE  PgInv' /\ Moves
<1>1. run' = run /\ lease' = lease /\ held' = held
  BY Zenon
<1>2. /\ run' \in RunRow /\ lease' \in LeaseRow /\ held' \in HeldRow
      /\ RunSound(run', lease', held')
  BY <1>1, Committing, Zenon
<1>3. Follows(run, lease, run', lease') /\ Moves
  BY <1>1, Zenon DEF Follows, Moves
<1> QED
  BY <1>2, <1>3, CommitKeeps, Zenon

LEMMA RequestCancelCommits ==
  ASSUME PgInv, NEW t \in Txs, RequestCancel(t)
  PROVE  PgInv' /\ Moves
<1>1. /\ Committed(t) /\ tx[t].op = "RequestCancel" /\ lease' = lease /\ held' = held
      /\ approvals' = approvals
      /\ run' = IF CancellableUnowned THEN ApplyRunTransition("Cancelled", tx[t].now)
                                      ELSE [run EXCEPT !.cancel_requested = TRUE]
  BY Zenon DEF RequestCancel
<1>2. \/ lease = NoLease /\ run.status \in {"Queued", "AwaitingApproval"}
      \/ lease # NoLease /\ run.status \in {"Planning", "AwaitingApproval", "Running"}
  BY <1>1, Committing, Zenon DEF Checked, Deciding
<1>3. /\ approvals' \in [Approvals -> ApprovalRow] /\ RunSound(run, lease, held) /\ held' \in HeldRow
      /\ lease' \in LeaseRow /\ run.revision \in Nat /\ run \in RunRow /\ held \in HeldRow
  BY <1>1, Committing, Zenon
<1>4. held.revision \in Nat
  BY <1>3 DEF HeldRow
<1>5. CASE CancellableUnowned
  <2>1. /\ run' \in RunRow /\ run'.status = "Cancelled" /\ run'.revision = run.revision + 1
        /\ run'.revision > run.revision /\ run'.cancel_requested = run.cancel_requested
    <3>1. "Cancelled" \in RunStatus
      BY DEF RunStatus
    <3> QED
      BY <1>1, <1>5, <3>1, Applying, Zenon
  <2>2. lease = NoLease /\ run.status \in {"Queued", "AwaitingApproval"}
    BY <1>5, Zenon DEF CancellableUnowned
  <2>3. RunSound(run', lease', held') /\ Follows(run, lease, run', lease')
    <3>1. "Cancelled" \in TerminalStatus
      BY DEF TerminalStatus
    <3>2. held # NotHeld => held.revision <= run'.revision /\ held.revision # run'.revision
      BY <1>3, <2>1, HeldLags, Zenon
    <3> QED
      BY <1>1, <2>1, <2>2, <3>1, <3>2, Zenon DEF RunSound, Follows, IsTerminal
  <2>4. Moves
    BY <2>1, <2>2 DEF Moves, CanTransitionTo
  <2> QED
    BY <1>1, <1>3, <2>1, <2>3, <2>4, CommitKeeps, Zenon
<1>6. CASE ~CancellableUnowned
  <2>1. run' = [run EXCEPT !.cancel_requested = TRUE]
    BY <1>1, <1>6, Zenon
  <2>2. run' \in RunRow /\ run'.status = run.status /\ run'.revision = run.revision
    BY <1>3, <2>1, Zenon DEF RunRow
  <2>3. lease # NoLease /\ run.status \in {"Planning", "AwaitingApproval", "Running"}
    BY <1>2, <1>6, Zenon DEF CancellableUnowned
  <2>4. RunSound(run', lease', held') /\ Follows(run, lease, run', lease')
    <3>1. run.status \notin TerminalStatus /\ run.status # "Succeeded"
      BY <2>3, Ends, Zenon
    <3> QED
      BY <1>1, <1>3, <2>2, <2>3, <3>1, Zenon DEF RunSound, Follows, IsTerminal
  <2>5. Moves
    BY <2>2, Zenon DEF Moves
  <2> QED
    BY <1>1, <1>3, <2>2, <2>4, <2>5, CommitKeeps, Zenon
<1> QED
  BY <1>5, <1>6, Zenon

LEMMA ConfirmCancelCommits ==
  ASSUME PgInv, NEW t \in Txs, ConfirmCancel(t)
  PROVE  PgInv' /\ Moves
<1>1. /\ Committed(t) /\ tx[t].op = "ConfirmCancel"
      /\ run' = ApplyRunTransition("Cancelled", tx[t].now) /\ lease' = NoLease /\ held' = NotHeld
      /\ approvals' = approvals
  BY Zenon DEF ConfirmCancel
<1>2. lease # NoLease
  BY <1>1, Committing, Zenon DEF Checked, Deciding
<1>3. /\ run' \in RunRow /\ run'.status = "Cancelled" /\ run'.revision = run.revision + 1
      /\ run'.revision > run.revision /\ run'.cancel_requested = run.cancel_requested
  <2>1. "Cancelled" \in RunStatus
    BY DEF RunStatus
  <2> QED
    BY <1>1, <2>1, Applying, Zenon
<1>4. held' \in HeldRow /\ lease' \in LeaseRow
  BY <1>1, Committing, LeaseFacts, Zenon DEF HeldRow, NotHeld
<1>5. /\ approvals' \in [Approvals -> ApprovalRow] /\ run.revision \in Nat
      /\ RunSound(run, lease, held) /\ run.status \in RunStatus
  BY <1>1, Committing, Zenon
<1>6. RunSound(run', lease', held') /\ Follows(run, lease, run', lease')
  BY <1>1, <1>2, <1>3, <1>5, ZenonT(30) DEF RunSound, Follows, IsTerminal, TerminalStatus
<1>7. Moves
  BY <1>2, <1>3, <1>5 DEF Moves, RunSound, CanTransitionTo, RunStatus, IsTerminal, TerminalStatus
<1> QED
  BY <1>1, <1>3, <1>4, <1>5, <1>6, <1>7, CommitKeeps, Zenon

LEMMA RecoverExpiredCommits ==
  ASSUME PgInv, NEW t \in Txs, RecoverExpiredLeases(t)
  PROVE  PgInv' /\ Moves
<1>1. /\ Committed(t) /\ tx[t].op = "RecoverExpiredLeases" /\ lease' = NoLease /\ held' = held
      /\ run' = (IF HasEnded THEN run ELSE ApplyRunTransition("Failed", tx[t].now))
      /\ approvals' = approvals
  BY Zenon DEF RecoverExpiredLeases
<1>2. /\ approvals' \in [Approvals -> ApprovalRow] /\ RunSound(run, lease, held) /\ held' \in HeldRow
      /\ run.revision \in Nat /\ run \in RunRow /\ held \in HeldRow /\ run.status \in RunStatus
  BY <1>1, Committing, Zenon
<1>3. held.revision \in Nat
  BY <1>2 DEF HeldRow
<1>4. lease' \in LeaseRow
  BY <1>1, Committing, LeaseFacts, Zenon
<1>5. CASE HasEnded
  <2>1. run' = run /\ IsTerminal(run.status)
    BY <1>1, <1>5, Zenon DEF HasEnded
  <2>2. RunSound(run', lease', held') /\ Follows(run, lease, run', lease') /\ Moves
    BY <1>1, <1>2, <2>1, Zenon DEF RunSound, Follows, Moves
  <2> QED
    BY <1>1, <1>2, <1>4, <2>1, <2>2, CommitKeeps, Zenon
<1>6. CASE ~HasEnded
  <2>1. /\ run' \in RunRow /\ run'.status = "Failed" /\ run'.revision = run.revision + 1
        /\ run'.revision > run.revision /\ run'.cancel_requested = run.cancel_requested
    <3>1. "Failed" \in RunStatus
      BY ZenonT(30) DEF RunStatus
    <3> QED
      BY <1>1, <1>6, <3>1, Applying, Zenon
  <2>2. RunSound(run', lease', held') /\ Follows(run, lease, run', lease')
    <3>1. "Failed" \in TerminalStatus
      BY DEF TerminalStatus
    <3>2. held # NotHeld => held.revision <= run'.revision /\ held.revision # run'.revision
      BY <1>2, <2>1, HeldLags, Zenon
    <3> QED
      BY <1>1, <2>1, <3>1, <3>2, Zenon DEF RunSound, Follows, IsTerminal
  <2>3. Moves
    BY <1>2, <1>6, <2>1 DEF Moves, HasEnded, CanTransitionTo, RunStatus, IsTerminal, TerminalStatus
  <2> QED
    BY <1>1, <1>2, <1>4, <2>1, <2>2, <2>3, CommitKeeps, Zenon
<1> QED
  BY <1>5, <1>6, Zenon

(* A transition that leaves the lease and the worker alone. *)
LEMMA TransitionCommits ==
  ASSUME PgInv, NEW t \in Txs, Committed(t), NEW next \in RunStatus \ {"Queued"},
         run' = ApplyRunTransition(next, tx[t].now), UNCHANGED <<lease, held>>,
         approvals' \in [Approvals -> ApprovalRow],
         lease = NoLease \/ next \notin TerminalStatus,
         run.status \notin TerminalStatus, next = "Succeeded" => lease = NoLease
  PROVE  PgInv'
<1>1. /\ run' \in RunRow /\ run'.status = next /\ run'.revision = run.revision + 1
      /\ run'.revision > run.revision /\ run'.cancel_requested = run.cancel_requested
  BY Applying, Zenon
<1>2. /\ RunSound(run, lease, held) /\ held \in HeldRow /\ lease \in LeaseRow /\ run.revision \in Nat
      /\ lease' = lease /\ held' = held
  BY Committing, Zenon
<1>3. held.revision \in Nat
  BY <1>2 DEF HeldRow
<1>4. RunSound(run', lease', held')
  <2>1. held # NotHeld => held.revision <= run'.revision /\ held.revision # run'.revision
    BY <1>1, <1>2, <1>3 DEF RunSound
  <2> QED
    BY <1>1, <1>2, <2>1, ZenonT(30) DEF RunSound, IsTerminal
<1>5. Follows(run, lease, run', lease')
  BY <1>1, <1>2 DEF Follows
<1> QED
  BY <1>1, <1>2, <1>4, <1>5, CommitKeeps, Zenon

LEMMA RecoverInterruptedCommits ==
  ASSUME PgInv, NEW t \in Txs, RecoverInterrupted(t)
  PROVE  PgInv' /\ Moves
<1>1. /\ Committed(t) /\ tx[t].op = "RecoverInterrupted"
      /\ run' = ApplyRunTransition("Failed", tx[t].now)
      /\ UNCHANGED <<lease, held>> /\ approvals' \in [Approvals -> ApprovalRow]
  BY Zenon DEF RecoverInterrupted, PgInv, TypeOK
<1>2. lease = NoLease /\ run.status \in {"Planning", "Running"}
  BY <1>1, Committing, Zenon DEF Knowing, Checked, Deciding
<1>3. /\ "Failed" \in RunStatus \ {"Queued"} /\ run.status \notin TerminalStatus
      /\ "Failed" = "Succeeded" => lease = NoLease
  BY <1>2 DEF RunStatus, TerminalStatus
<1>4. run'.status = "Failed"
  BY <1>1, <1>3, Applying, Zenon
<1>5. Moves
  BY <1>2, <1>4 DEF Moves, CanTransitionTo, TerminalStatus
<1> QED
  BY <1>1, <1>2, <1>3, <1>5, TransitionCommits, Zenon

LEMMA TransitionRunCommits ==
  ASSUME PgInv, NEW t \in Txs, TransitionRun(t)
  PROVE  PgInv' /\ Moves
<1>1. /\ Committed(t) /\ tx[t].op = "TransitionRun"
      /\ run' = ApplyRunTransition(tx[t].arg, tx[t].now)
      /\ UNCHANGED <<lease, held>> /\ approvals' \in [Approvals -> ApprovalRow]
  BY Zenon DEF TransitionRun, PgInv, TypeOK
<1>2. lease = NoLease /\ CanTransitionTo(run.status, tx[t].arg)
  BY <1>1, Committing, Zenon DEF Checked, Deciding
<1>3. tx[t].arg \in RunStatus \ {"Queued"} /\ run.status \notin TerminalStatus
  BY <1>2 DEF CanTransitionTo, RunStatus, TerminalStatus
<1>4. run'.status = tx[t].arg
  BY <1>1, <1>3, Applying, Zenon
<1>5. Moves
  BY <1>2, <1>4, Zenon DEF Moves
<1> QED
  BY <1>1, <1>2, <1>3, <1>5, TransitionCommits, Zenon

LEMMA ApprovalChanges ==
  ASSUME NEW a \in [Approvals -> ApprovalRow], NEW p, NEW s \in ApprovalStatus
  PROVE  [a EXCEPT ![p].revision = @ + 1, ![p].status = s] \in [Approvals -> ApprovalRow]
<1>1. PICK v : v = a[p].revision + 1
  BY Zenon
<1>2. PICK x : x = [[a[p] EXCEPT !.revision = v] EXCEPT !.status = s]
  BY Zenon
<1>3. PICK f : f = [a EXCEPT ![p].revision = v, ![p].status = s]
  BY Zenon
<1>4. f = [a EXCEPT ![p].revision = @ + 1, ![p].status = s]
  BY <1>1, <1>3, Zenon
<1>5. f \in [Approvals -> ApprovalRow]
  <2>1. CASE p \in Approvals
    <3>1. a[p] \in ApprovalRow /\ v \in Nat
      BY <1>1, <2>1 DEF ApprovalRow
    <3>2. x \in ApprovalRow
      BY <1>2, <3>1, Zenon DEF ApprovalRow
    <3>3. f = [a EXCEPT ![p] = x]
      BY <1>2, <1>3, <2>1, Zenon
    <3> QED
      BY <3>2, <3>3, Zenon
  <2>2. CASE p \notin Approvals
    BY <1>3, <2>2, Zenon
  <2> QED
    BY <2>1, <2>2, Zenon
<1> QED
  BY <1>4, <1>5, Zenon

LEMMA ConsumeCommits ==
  ASSUME PgInv, NEW t \in Txs, ConsumeApproval(t)
  PROVE  PgInv' /\ Moves
<1>1. /\ Committed(t) /\ tx[t].op = "ConsumeApproval"
      /\ run' = ApplyRunTransition("Running", tx[t].now) /\ UNCHANGED <<lease, held>>
      /\ approvals' = [approvals EXCEPT ![tx[t].arg].revision = @ + 1, ![tx[t].arg].status = "Consumed"]
  BY Zenon DEF ConsumeApproval
<1>2. run.status = "AwaitingApproval"
  BY <1>1, Committing, Zenon DEF Checked, Deciding
<1>3. approvals \in [Approvals -> ApprovalRow]
  BY <1>1, Committing, Zenon
<1>4. approvals' \in [Approvals -> ApprovalRow]
  <2>1. "Consumed" \in ApprovalStatus
    BY DEF ApprovalStatus
  <2> QED
    BY <1>1, <1>3, <2>1, ApprovalChanges, Zenon
<1>5. /\ "Running" \in RunStatus \ {"Queued"} /\ run.status \notin TerminalStatus
      /\ "Running" \notin TerminalStatus /\ "Running" # "Succeeded"
  BY <1>2 DEF RunStatus, TerminalStatus
<1>6. run'.status = "Running"
  BY <1>1, <1>5, Applying, Zenon
<1>7. Moves
  BY <1>2, <1>6 DEF Moves, CanTransitionTo
<1> QED
  BY <1>1, <1>4, <1>5, <1>7, TransitionCommits, Zenon

LEMMA CreateApprovalCommits ==
  ASSUME PgInv, NEW t \in Txs, CreateApproval(t)
  PROVE  PgInv' /\ Moves
<1>1. /\ Committed(t) /\ UNCHANGED <<run, lease, held>>
      /\ approvals' = [approvals EXCEPT ![tx[t].arg] =
           [status |-> "Pending", revision |-> 0, window |-> run.revision, expires_at |-> tx[t].now + Ttl]]
  BY Zenon DEF CreateApproval
<1>2. approvals \in [Approvals -> ApprovalRow] /\ run.revision \in Nat /\ tx[t].now \in Nat
  BY <1>1, Committing, Zenon
<1>3. [status |-> "Pending", revision |-> 0, window |-> run.revision, expires_at |-> tx[t].now + Ttl]
        \in ApprovalRow
  BY <1>2, PgAssumption DEF ApprovalRow, ApprovalStatus
<1>4. approvals' \in [Approvals -> ApprovalRow]
  BY <1>1, <1>2, <1>3, Zenon
<1> QED
  BY <1>1, <1>4, QuietCommits, Zenon

LEMMA DecideCommits ==
  ASSUME PgInv, NEW t \in Txs, DecideApproval(t)
  PROVE  PgInv' /\ Moves
<1>1. PICK s : s = CASE tx[t].op = "Approve" -> "Approved" [] tx[t].op = "Deny" -> "Denied"
                     [] OTHER -> "Expired"
  BY Zenon
<1>2. /\ Committed(t) /\ UNCHANGED <<run, lease, held>>
      /\ approvals' = [approvals EXCEPT ![tx[t].arg].revision = @ + 1, ![tx[t].arg].status = s]
  BY <1>1, Zenon DEF DecideApproval
<1>3. s \in ApprovalStatus
  BY <1>1 DEF ApprovalStatus
<1>4. approvals \in [Approvals -> ApprovalRow]
  BY <1>2, Committing, Zenon
<1>5. approvals' \in [Approvals -> ApprovalRow]
  BY <1>2, <1>3, <1>4, ApprovalChanges, Zenon
<1> QED
  BY <1>2, <1>5, QuietCommits, Zenon

LEMMA CommitsKeep ==
  ASSUME PgInv, NEW t \in Txs, Commit(t)
  PROVE  PgInv' /\ (~AnyTarget => Moves)
<1>1. CASE \/ AppendLeasedRuntimeAudit(t) \/ AppendAudit(t) \/ RecordLeasedArtifacts(t)
           \/ RecordArtifacts(t) \/ BindingMismatch(t) \/ ReconcileAction(t)
  <2>1. Committed(t) /\ UNCHANGED <<run, lease, held>> /\ approvals' = approvals
    BY <1>1, Zenon DEF AppendLeasedRuntimeAudit, AppendAudit, RecordLeasedArtifacts, RecordArtifacts,
                       BindingMismatch, ReconcileAction, NoRowChanges
  <2>2. approvals' \in [Approvals -> ApprovalRow]
    BY <2>1, Zenon DEF PgInv, TypeOK
  <2> QED
    BY <2>1, <2>2, QuietCommits, Zenon
<1>2. CASE ClaimNextRun(t) \/ HeartbeatLease(t) \/ TransitionLeasedRun(t) \/ CompleteLeasedRun(t)
  BY <1>2, ClaimCommits, HeartbeatCommits, TransitionLeasedCommits, CompleteCommits, Zenon
<1>3. CASE \/ RequestCancel(t) \/ ConfirmCancel(t) \/ RecoverExpiredLeases(t) \/ RecoverInterrupted(t)
           \/ TransitionRun(t)
  BY <1>3, RequestCancelCommits, ConfirmCancelCommits, RecoverExpiredCommits,
     RecoverInterruptedCommits, TransitionRunCommits, Zenon
<1>4. CASE CreateApproval(t) \/ DecideApproval(t) \/ ConsumeApproval(t)
  BY <1>4, CreateApprovalCommits, DecideCommits, ConsumeCommits, Zenon
<1> QED
  BY <1>1, <1>2, <1>3, <1>4, Zenon DEF Commit

-----------------------------------------------------------------------------
(* The invariant holds *)

LEMMA StatementKeeps ==
  ASSUME PgInv, NEW t \in Txs, Statement(t), ~Commit(t)
  PROVE  PgInv' /\ run' = run
<1>1. PgInv'
  BY LockRunKeeps, LockApprovalKeeps, PickKeeps, SelectExpiredKeeps, SelectInterruptedKeeps,
     EndedKeeps, ValidateKeeps, TimeKeeps, SequenceKeeps, HashKeeps, InsertKeeps,
     ReferenceKeeps, Zenon DEF Statement
<1>2. UNCHANGED Database
  BY Zenon DEF Statement, LockRun, LockApproval, Pick, SelectExpired, SelectInterrupted, Ended,
               Validate, Time, NextAuditSequence, LastAuditHash, InsertAuditEvent,
               CheckReference
<1> QED
  BY <1>1, <1>2, Zenon DEF Database

LEMMA NextKeeps ==
  ASSUME PgInv, [Next]_vars
  PROVE  PgInv' /\ (~AnyTarget => Moves)
<1>1. ASSUME NEW t \in Txs, NEW op \in DOMAIN Plan, Begin(t, op) PROVE PgInv' /\ run' = run
  BY <1>1, BeginKeeps, Zenon DEF Ops, Begin, Database
<1>2. ASSUME NEW t \in Txs, Statement(t) PROVE PgInv' /\ (~AnyTarget => Moves)
  BY <1>2, StatementKeeps, CommitsKeep, Zenon DEF Moves
<1>3. ASSUME NEW t \in Txs, Fail(t) \/ DeadlockDetected(t) PROVE PgInv' /\ run' = run
  BY <1>3, FailKeeps, DeadlockKeeps, Zenon DEF Fail, DeadlockDetected, Database
<1>4. CASE UNCHANGED vars
  <2>1. UNCHANGED <<run, lease, held, approvals, chain, tx, clock>>
    BY <1>4, Zenon DEF vars
  <2>2. TypeOK' /\ VerifyAuditChain' /\ RunSound(run, lease, held)' /\ OneLock' /\ OneEntry'
    BY <2>1, Zenon DEF PgInv, TypeOK, VerifyAuditChain, OneLock, OneEntry
  <2>3. \A t \in Txs : TxSound(tx[t])'
    BY <2>1, Zenon DEF PgInv, TxSound
  <2> QED
    BY <2>1, <2>2, <2>3, Zenon DEF PgInv, Moves
<1> QED
  BY <1>1, <1>2, <1>3, <1>4, Zenon DEF Next, Moves

(* The chain a behaviour starts from. *)
LEMMA HistoryVerifies ==
  ASSUME NEW n \in Nat \ {0}, chain = History(n)
  PROVE  chain \in Seq(EventRow) /\ Len(chain) > 0 /\ VerifyAuditChain
<1>1. \A i \in 1..n : /\ chain[i] = [sequence |-> i, previous |-> i - 1, time |-> 0, op |-> "None"]
                      /\ chain[i] \in EventRow
  BY DEF History, EventRow
<1>2. chain \in [1..n -> EventRow]
  BY <1>1, Zenon DEF History
<1>3. chain \in Seq(EventRow) /\ Len(chain) = n /\ DOMAIN chain = 1..n
  BY <1>2
<1> QED
  BY <1>1, <1>3 DEF VerifyAuditChain

(* Nothing is left of an idle row, so a behaviour starts in the invariant  *)
(* whenever its run, its lease, its approvals and its chain do.            *)
LEMMA Starts ==
  ASSUME Init, run \in RunRow, lease \in LeaseRow, held \in HeldRow,
         approvals \in [Approvals -> ApprovalRow], RunSound(run, lease, held),
         NEW n \in Nat \ {0}, chain = History(n)
  PROVE  PgInv
<1>1. chain \in Seq(EventRow) /\ Len(chain) > 0 /\ VerifyAuditChain
  BY HistoryVerifies, Zenon
<1>2. /\ Idle \in TxRow /\ Idle.run_lock = "None" /\ ~Idle.inserted
      /\ \A m, r, e : Locking(Idle) /\ Reading(Idle, m) /\ Knowing(Idle, r, e)
  BY IdleIsSound, Zenon
<1>3. tx \in [Txs -> TxRow] /\ \A t \in Txs : tx[t] = Idle
  BY <1>2, Zenon DEF Init
<1>4. clock \in Nat
  BY DEF Init
<1>5. TypeOK
  BY <1>1, <1>3, <1>4, Zenon DEF TypeOK
<1>6. OneLock /\ OneEntry /\ \A t \in Txs : TxSound(tx[t])
  BY <1>2, <1>3, Zenon DEF OneLock, OneEntry, TxSound
<1> QED
  BY <1>1, <1>5, <1>6, Zenon DEF PgInv

(* The rows of the three starting states. *)
LEMMA RowFacts ==
  ASSUME NEW status \in RunStatus \ TerminalStatus, NEW revision \in Nat, run = Row(status, revision)
  PROVE  /\ run \in RunRow /\ run.status = status /\ run.revision = revision
         /\ ~run.cancel_requested /\ ~IsTerminal(run.status)
<1>1. run = [status |-> status, revision |-> revision, updated_at |-> 0, cancel_requested |-> FALSE]
  BY Zenon DEF Row
<1> QED
  BY <1>1 DEF RunRow, IsTerminal

LEMMA NoApprovals ==
  ASSUME approvals = [p \in Approvals |-> NoApproval]
  PROVE  approvals \in [Approvals -> ApprovalRow]
<1>1. NoApproval \in ApprovalRow
  BY DEF NoApproval, ApprovalRow
<1> QED
  BY <1>1, Zenon

LEMMA InitHolds ==
  ASSUME Init
  PROVE  PgInv
<1>1. 1 \in Nat \ {0} /\ 3 \in Nat \ {0} /\ 0 \in Nat /\ 2 \in Nat
  OBVIOUS
<1>2. {"Queued", "Running", "AwaitingApproval"} \subseteq RunStatus \ TerminalStatus
  BY DEF RunStatus, TerminalStatus
<1>3. NoLease \in LeaseRow /\ NotHeld \in HeldRow
  BY DEF NoLease, NotHeld, LeaseRow, HeldRow
<1>4. CASE Created
  <2>1. run = Row("Queued", 0) /\ lease = NoLease /\ held = NotHeld /\ chain = History(1)
    BY <1>4, Zenon DEF Created
  <2>2. run \in RunRow /\ ~run.cancel_requested
    BY <1>1, <1>2, <2>1, RowFacts
  <2>3. RunSound(run, lease, held)
    BY <2>1, <2>2, Zenon DEF RunSound
  <2>4. approvals \in [Approvals -> ApprovalRow]
    BY <1>4, NoApprovals, Zenon DEF Created
  <2> QED
    BY <1>1, <1>3, <2>1, <2>2, <2>3, <2>4, Starts, Zenon
<1>5. CASE Executing
  <2>1. /\ run = Row("Running", 2) /\ lease = [acquired_at |-> 0, expires_at |-> Ttl]
        /\ held = [revision |-> 2, status |-> "Running"] /\ chain = History(3)
    BY <1>5, Zenon DEF Executing
  <2>2. /\ run \in RunRow /\ ~run.cancel_requested /\ ~IsTerminal(run.status)
        /\ run.status = "Running" /\ run.revision = 2
    BY <1>1, <1>2, <2>1, RowFacts
  <2>3. lease \in LeaseRow
    BY <2>1, PgAssumption DEF LeaseRow
  <2>4. held \in HeldRow /\ held.revision = 2 /\ held.status = "Running"
    BY <2>1 DEF HeldRow, RunStatus
  <2>5. RunSound(run, lease, held)
    BY <2>2, <2>4 DEF RunSound
  <2>6. approvals \in [Approvals -> ApprovalRow]
    BY <1>5, NoApprovals, Zenon DEF Executing
  <2> QED
    BY <1>1, <2>1, <2>2, <2>3, <2>4, <2>5, <2>6, Starts, Zenon
<1>6. CASE Waiting
  <2>1. PICK A, B : /\ A = {p \in Approvals : approvals[p].status # "Absent"}
                    /\ B = {p \in Approvals : approvals[p].status = "Approved"}
    BY Zenon
  <2>2. /\ run = Row("AwaitingApproval", 2) /\ lease = NoLease /\ held = NotHeld
        /\ chain = History(3 + Cardinality(A) + Cardinality(B))
    BY <1>6, <2>1, Zenon DEF Waiting
  <2>3. A \in SUBSET Approvals /\ B \in SUBSET Approvals
    BY <2>1, Zenon
  <2>4. Cardinality(A) \in Nat /\ Cardinality(B) \in Nat
    BY <2>3, PgAssumption, Zenon
  <2>5. 3 + Cardinality(A) + Cardinality(B) \in Nat \ {0}
    BY <2>4
  <2>6. run \in RunRow /\ ~run.cancel_requested
    BY <1>1, <1>2, <2>2, RowFacts
  <2>7. RunSound(run, lease, held)
    BY <2>2, <2>6, Zenon DEF RunSound
  <2>8. approvals \in [Approvals -> ApprovalRow]
    <3>1. /\ NoApproval \in ApprovalRow
          /\ [status |-> "Pending", revision |-> 0, window |-> 2, expires_at |-> Ttl] \in ApprovalRow
          /\ [status |-> "Approved", revision |-> 1, window |-> 2, expires_at |-> Ttl] \in ApprovalRow
      BY PgAssumption DEF NoApproval, ApprovalRow, ApprovalStatus
    <3> QED
      BY <1>6, <3>1, Zenon DEF Waiting
  <2> QED
    BY <1>3, <2>2, <2>5, <2>6, <2>7, <2>8, Starts, Zenon
<1> QED
  BY <1>4, <1>5, <1>6, Zenon DEF Init

(* Who has a number in the index and not the run is a decision about to    *)
(* check its foreign key.                                                  *)
LEMMA InsertedFacts ==
  ASSUME PgInv, NEW u \in Txs, tx[u].inserted, tx[u].run_lock = "None"
  PROVE  At(u, "Reference") /\ tx[u].op \in Deciding /\ tx[u] # Idle
<1>1. tx[u] \in TxRow /\ Locking(tx[u])
  BY Zenon DEF PgInv, TypeOK, TxSound
<1>2. "LockRun" \notin {"Commit"} /\ "Pick" \notin {"Commit"} /\ "Reference" \notin {"Commit"}
  OBVIOUS
<1>3. tx[u].op # "None" /\ tx[u].op \in Deciding /\ Left(tx[u].todo) = {"Reference", "Commit"}
  <2>1. /\ tx[u].op # "None"
        /\ \/ Left(tx[u].todo) = {"Commit"}
           \/ tx[u].op \in Deciding /\ Left(tx[u].todo) = {"Reference", "Commit"}
    BY <1>1, Zenon DEF Locking
  <2>2. tx[u].run_lock # "Update" /\ tx[u].run_lock # "Share"
    OBVIOUS
  <2>3. Left(tx[u].todo) # {"Commit"}
    BY <1>1, <1>2, <2>1, <2>2, Zenon DEF Locking
  <2> QED
    BY <2>1, <2>3, Zenon
<1>4. tx[u].op \in Ops /\ tx[u].todo \in Road(tx[u].op) /\ tx[u].todo # <<>>
  <2>1. tx[u].op \in Ops \cup {"None"}
    BY <1>1, Zenon DEF TxRow
  <2> QED
    BY <1>1, <1>3, <2>1, Zenon DEF Locking
<1>5. Sorted(tx[u].op, Head(tx[u].todo), Left(tx[u].todo))
  BY <1>4, OnTheRoad, Zenon
<1>6. {"Reference", "Commit"} # {"Commit"}
  BY <1>2, Zenon
<1>7. Head(tx[u].todo) = "Reference"
  BY <1>3, <1>5, <1>6, Zenon DEF Sorted
<1> QED
  BY <1>3, <1>4, <1>7, IdleIsSound, Zenon DEF At

(* One that finds the run free and no number in the index has nothing to   *)
(* wait for but an approval.                                               *)
LEMMA FreeToGo ==
  ASSUME NEW t \in Txs, RunIsFree(t), \A u \in Others(t) : ~tx[u].inserted \/ ~At(t, "Insert"),
         At(t, "LockApproval") => ApprovalIsFree(t)
  PROVE  ~Waits(t)
<1>1. "None" # "Update"
  OBVIOUS
<1> QED
  BY <1>1, Zenon DEF Waits, WaitsFor, RunIsFree, ApprovalIsFree

LEMMA SomebodyGoes ==
  ASSUME PgInv
  PROVE  OnlyDecisionsDeadlock
<1> SUFFICES ASSUME NEW t \in Txs, tx[t] # Idle
             PROVE  \/ \E u \in Txs : tx[u] # Idle /\ ~Waits(u)
                    \/ \E u, v \in Txs :
                         /\ tx[u].op \in {"Deny", "ExpireApproval"} /\ tx[v].run_lock = "Update"
                         /\ WaitsFor(u, v) /\ WaitsFor(v, u)
  BY Zenon DEF OnlyDecisionsDeadlock
<1>1. CASE \E u \in Txs : tx[u].run_lock # "None"
  <2>1. PICK u \in Txs : tx[u].run_lock # "None"
    BY <1>1, Zenon
  <2>2. tx[u] # Idle
    BY <2>1, IdleIsSound, Zenon
  <2>3. \A v \in Others(u) : tx[v].run_lock = "None"
    BY <2>1, Zenon DEF Others, PgInv, OneLock
  <2>4. tx[u] \in TxRow /\ Locking(tx[u])
    BY Zenon DEF PgInv, TypeOK, TxSound
  <2>5. tx[u].run_lock = "Update" \/ tx[u].run_lock = "Share"
    BY <2>1, <2>4 DEF TxRow
  <2>6. ~At(u, "LockApproval")
    <3>1. ASSUME At(u, "LockApproval") PROVE FALSE
      <4>1. Sorted(tx[u].op, "LockApproval", Left(tx[u].todo))
        BY <3>1, AtFacts, Zenon
      <4>2. /\ "Insert" \in Left(tx[u].todo)
            /\ tx[u].op \in Deciding => "Reference" \in Left(tx[u].todo)
            /\ tx[u].op \in Deciding \/ "LockRun" \in Left(tx[u].todo)
        BY <4>1, Zenon DEF Sorted
      <4> QED
        BY <2>4, <2>5, <4>2, Zenon DEF Locking
    <3> QED
      BY <3>1, Zenon
  <2>7. CASE \A v \in Others(u) : ~tx[v].inserted \/ ~At(u, "Insert")
    BY <2>2, <2>3, <2>6, <2>7, FreeToGo, Zenon DEF RunIsFree
  <2>8. CASE ~(\A v \in Others(u) : ~tx[v].inserted \/ ~At(u, "Insert"))
    <3>1. PICK v \in Others(u) : tx[v].inserted /\ At(u, "Insert")
      BY <2>8, Zenon
    <3>2. v \in Txs /\ tx[v].run_lock = "None"
      BY <2>3, <3>1, Zenon DEF Others
    <3>3. At(v, "Reference") /\ tx[v].op \in Deciding
      BY <3>1, <3>2, InsertedFacts, Zenon
    <3>4. Sorted(tx[u].op, "Insert", Left(tx[u].todo))
      BY <3>1, AtFacts, Zenon
    <3>5. tx[u].run_lock = "Update"
      <4>1. "Insert" \in Left(tx[u].todo) /\ (tx[u].op \in Deciding => "Reference" \in Left(tx[u].todo))
        BY <3>4, Zenon DEF Sorted
      <4> QED
        BY <2>4, <2>5, <4>1, Zenon DEF Locking
    <3>6. CASE Numbers(u) \cap Numbers(v) # {}
      <4>1. WaitsFor(v, u) /\ WaitsFor(u, v)
        BY <3>1, <3>3, <3>5, <3>6, Zenon DEF WaitsFor
      <4> QED
        BY <3>2, <3>3, <3>5, <4>1, Zenon DEF Deciding
    <3>7. Numbers(u) \cap Numbers(v) # {}
      <4>1. PICK n \in Nat : n = Len(chain)
        BY DEF PgInv, TypeOK
      <4>2. tx[v].sequence = n + 1
        BY <3>1, <3>2, <4>1, Zenon DEF PgInv, TxSound, Reading
      <4>3. "Insert" \in Left(tx[u].todo) /\ "Sequence" \notin Left(tx[u].todo)
        <5>1. \/ Left(tx[u].todo) = {"Insert", "Commit"}
              \/ Left(tx[u].todo) = {"Insert", "Reference", "Commit"}
          BY <3>4, Zenon DEF Sorted
        <5> QED
          BY <5>1
      <4>4. tx[u].sequence = n + 1
        BY <3>5, <4>1, <4>3, Zenon DEF PgInv, TxSound, Reading
      <4>5. n + 1 \in Numbers(u) /\ n + 1 \in Numbers(v)
        BY <4>2, <4>4 DEF Numbers, Count
      <4> QED
        BY <4>5, Zenon
    <3> QED
      BY <3>6, <3>7, Zenon
  <2> QED
    BY <2>7, <2>8, Zenon
<1>2. CASE \A u \in Txs : tx[u].run_lock = "None"
  <2>1. \A u \in Txs : RunIsFree(u)
    BY <1>2, Zenon DEF RunIsFree, Others
  <2>2. CASE \E u \in Txs : tx[u].inserted
    <3>1. PICK u \in Txs : tx[u].inserted
      BY <2>2, Zenon
    <3>2. At(u, "Reference") /\ tx[u] # Idle
      BY <1>2, <3>1, InsertedFacts, Zenon
    <3>3. ~At(u, "LockApproval") /\ ~At(u, "Insert")
      <4>1. "Reference" # "LockApproval" /\ "Reference" # "Insert"
        OBVIOUS
      <4> QED
        BY <3>2, <4>1, Zenon DEF At
    <3> QED
      BY <2>1, <3>2, <3>3, FreeToGo, Zenon
  <2>3. CASE \A u \in Txs : ~tx[u].inserted
    <3>1. \A u \in Txs : \A v \in Others(u) : ~tx[v].inserted
      BY <2>3, Zenon DEF Others
    <3>2. ASSUME NEW u \in Txs, tx[u].approval_lock PROVE tx[u] # Idle /\ ~At(u, "LockApproval")
      <4>1. tx[u].op # "None" /\ "LockApproval" \notin Left(tx[u].todo)
        BY <3>2, Zenon DEF PgInv, TxSound, Locking
      <4>2. At(u, "LockApproval") => "LockApproval" \in Left(tx[u].todo)
        BY AtFacts, Zenon DEF Sorted
      <4> QED
        BY <4>1, <4>2, IdleIsSound, Zenon
    <3>3. CASE \E u \in Txs : tx[u].approval_lock
      BY <2>1, <3>1, <3>2, <3>3, FreeToGo, Zenon
    <3>4. CASE \A u \in Txs : ~tx[u].approval_lock
      <4>1. ApprovalIsFree(t)
        BY <3>4, Zenon DEF ApprovalIsFree, Others
      <4> QED
        BY <2>1, <3>1, <4>1, FreeToGo, Zenon
    <3> QED
      BY <3>3, <3>4, Zenon
  <2> QED
    BY <2>2, <2>3, Zenon
<1> QED
  BY <1>1, <1>2, Zenon

-----------------------------------------------------------------------------
(* Theorems *)

(* The invariant holds in every state the store reaches, whichever way the *)
(* statements of its transactions interleave and whichever of them fail.   *)
THEOREM PgCorrect == Spec => []PgInv
<1>1. Init => PgInv
  BY InitHolds, Zenon
<1>2. PgInv /\ [Next]_vars => PgInv'
  BY NextKeeps, Zenon
<1> QED
  BY <1>1, <1>2, PTL DEF Spec

(* next_audit_sequence, last_audit_hash and insert_audit_event, run by any *)
(* number of transactions at once, leave a chain that verify_audit_chain   *)
(* accepts, though deny and expire do not lock the run before they read:   *)
(* the unique index and the key-share lock keep their numbers and hashes   *)
(* current.                                                                *)
THEOREM ChainsVerify == Spec => []ChainVerifies
<1>1. PgInv => ChainVerifies
  BY Zenon DEF PgInv, ChainVerifies
<1> QED
  BY <1>1, PgCorrect, PTL

(* Whatever the number of transactions that lock rows and insert events:   *)
(* when all of them wait, a deny or an expire waits for the row of the run *)
(* and its holder for the number that it has inserted.  There is no other  *)
(* cycle, in particular none among the operations that lock the run.       *)
THEOREM DeadlocksNeedADecision == Spec => []OnlyDecisionsDeadlock
<1>1. PgInv => OnlyDecisionsDeadlock
  BY SomebodyGoes, Zenon
<1> QED
  BY <1>1, PgCorrect, PTL

(* complete_leased_run never records success over a cancellation that      *)
(* request_cancel has committed.                                           *)
THEOREM IntentsBlockSuccess == Spec => []IntentBlocksSuccess
<1>1. PgInv => IntentBlocksSuccess
  BY Zenon DEF PgInv, RunSound, IntentBlocksSuccess
<1> QED
  BY <1>1, PgCorrect, PTL

(* recover_interrupted_runs holds the lock of a run without a lease when   *)
(* it writes its event, though it selected the run before it had the lock. *)
THEOREM RestartsSpareWorkers == Spec => []RestartSparesWorkers
<1>1. ASSUME PgInv PROVE RestartSparesWorkers
  <2>1. ASSUME NEW t \in Txs, tx[t].op = "RecoverInterrupted", tx[t].inserted PROVE lease = NoLease
    <3>1. Locking(tx[t]) /\ Knowing(tx[t], run, lease)
      BY <1>1, Zenon DEF PgInv, TxSound
    <3>2. Left(tx[t].todo) = {"Commit"}
      BY <2>1, <3>1, Zenon DEF Locking, Deciding
    <3> QED
      BY <2>1, <3>1, <3>2 DEF Knowing
  <2> QED
    BY <2>1, Zenon DEF RestartSparesWorkers
<1> QED
  BY <1>1, PgCorrect, PTL

(* When the workers only ask for moves that are legal from the status they *)
(* last saw, as the worker service does, the status of the run only moves  *)
(* as RunStatus::can_transition_to allows: the check of the revision is    *)
(* enough, though the store does not check the move of a leased run.       *)
THEOREM LegalCallersMoveLegally == ASSUME ~AnyTarget PROVE Spec => MovesAreLegal
<1>1. PgInv /\ [Next]_vars => [run'.status # run.status => CanTransitionTo(run.status, run'.status)]_vars
  BY NextKeeps, Zenon DEF Moves
<1> QED
  BY <1>1, PgCorrect, PTL DEF Spec, MovesAreLegal
=============================================================================
