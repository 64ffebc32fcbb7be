----------------------- MODULE RunStoreLedgerProofs -------------------------
(***************************************************************************)
(* The proofs about the audit chains, and about approvals, action claims,  *)
(* artifacts and what the audit chains say of them.                        *)
(***************************************************************************)
EXTENDS RunStoreQueueProofs

-----------------------------------------------------------------------------
(* The audit chain.  AuditMonotone and OneEnding together are inductive    *)
(* once the legal transitions are known: a move starts from a run that has *)
(* not ended, so its chain has no ending yet.                              *)

Ordered(r) ==
  /\ \A i, j \in DOMAIN audits[r] : i <= j => audits[r][i].at <= audits[r][j].at
  /\ Exists(r) => audits[r] # <<>> /\ runs[r].updated_at <= LastAuditAt(r)

Ending(r) ==
  /\ IsTerminal(runs[r].status) <=> \E type \in TerminalEvent : Has(r, type)
  /\ runs[r].status = "Succeeded" <=> Has(r, "RunCompleted")
  /\ \A i, j \in DOMAIN audits[r] :
       audits[r][i].type \in TerminalEvent /\ audits[r][j].type \in TerminalEvent => i = j

ChainInv == \A r \in Runs : Ordered(r) /\ Ending(r)

LEMMA ChainInvMeaning == ChainInv <=> AuditMonotone /\ OneEnding
BY Zenon DEF ChainInv, AuditMonotone, OneEnding, Ordered, Ending

(* Appending events of one time keeps the order, and the last event is     *)
(* either the old one or has that time.                                    *)
LEMMA OrderedAppend ==
  ASSUME TypeOK, NEW now \in Nat, NEW types, NEW r \in Runs,
         NEW events \in Batch(now, types), AppendedTo(r, events),
         \A i, j \in DOMAIN audits[r] : i <= j => audits[r][i].at <= audits[r][j].at
  PROVE  /\ \A i, j \in DOMAIN audits'[r] : i <= j => audits'[r][i].at <= audits'[r][j].at
         /\ events # <<>> => audits'[r] # <<>> /\ LastAuditAt(r)' = now
         /\ events = <<>> => audits'[r] = audits[r]
         /\ audits[r] # <<>> => /\ audits'[r] # <<>>
                                /\ LastAuditAt(r) <= LastAuditAt(r)'
                                /\ LastAuditAt(r) \in Nat /\ LastAuditAt(r)' \in Nat
<1> DEFINE n == Len(audits[r])
<1>0. events \in Seq(Event) /\ \A i \in DOMAIN events : events[i].at = now
  BY DEF Batch
<1>a. /\ n \in Nat /\ DOMAIN audits[r] = 1..n
      /\ Len(events) \in Nat /\ DOMAIN events = 1..Len(events)
      /\ Len(audits'[r]) = n + Len(events)
      /\ DOMAIN audits'[r] = 1..(n + Len(events))
      /\ \A i \in 1..n : audits'[r][i] = audits[r][i]
      /\ \A i \in DOMAIN events : audits'[r][n + i] = events[i]
      /\ \A i \in DOMAIN audits'[r] : i > n =>
           i - n \in DOMAIN events /\ audits'[r][i] = events[i - n]
  BY <1>0, AppendIndex, Zenon
<1>b. \A i \in DOMAIN audits'[r] :
        \/ i \in DOMAIN audits[r] /\ i <= n /\ audits'[r][i] = audits[r][i]
        \/ i > n /\ \E j \in DOMAIN events : audits'[r][i] = events[j]
  BY <1>0, AppendShape, Zenon
<1>1. \A i \in DOMAIN audits[r] : audits[r][i].at \in Nat
  <2>1. audits[r] \in Seq(Event)
    BY DEF TypeOK
  <2>2. \A i \in DOMAIN audits[r] : audits[r][i] \in Event
    BY <2>1
  <2> QED
    BY <2>2, Zenon DEF Event
<1>2. ASSUME n > 0, events # <<>>
      PROVE  /\ audits[r][n].at <= now
             /\ \A i \in 1..n : audits[r][i].at <= now
  <2>1. 1 \in DOMAIN events /\ n \in DOMAIN audits[r]
    BY <1>0, <1>2, <1>a
  <2>2. audits[r][n].at <= now
    BY <1>0, <2>1, Zenon DEF AppendedTo, LastAuditAt
  <2>3. ASSUME NEW i \in 1..n PROVE audits[r][i].at <= now
    <3>1. i \in DOMAIN audits[r] /\ i <= n
      BY <1>0, <1>a
    <3>2. audits[r][i].at <= audits[r][n].at
      BY <2>1, <3>1, Zenon
    <3> QED
      BY <1>1, <2>1, <2>2, <3>1, <3>2, SMTT(30)
  <2> QED
    BY <2>2, <2>3, Zenon
<1>3. ASSUME NEW i \in DOMAIN audits'[r], NEW j \in DOMAIN audits'[r], i <= j
      PROVE  audits'[r][i].at <= audits'[r][j].at
  <2>1. \/ i \in DOMAIN audits[r] /\ i <= n /\ audits'[r][i] = audits[r][i]
        \/ i > n /\ \E k \in DOMAIN events : audits'[r][i] = events[k]
    BY <1>b, Zenon
  <2>2. \/ j \in DOMAIN audits[r] /\ j <= n /\ audits'[r][j] = audits[r][j]
        \/ j > n /\ \E k \in DOMAIN events : audits'[r][j] = events[k]
    BY <1>b, Zenon
  <2>3. i \in Nat /\ j \in Nat
    BY <1>a, <1>3
  <2>4. ~(i > n /\ j <= n) /\ now <= now
    BY <1>a, <1>3, <2>3
  <2>5. CASE i \in DOMAIN audits[r] /\ j \in DOMAIN audits[r] /\
             audits'[r][i] = audits[r][i] /\ audits'[r][j] = audits[r][j]
    BY <1>3, <2>5, Zenon
  <2>6. CASE /\ i \in DOMAIN audits[r] /\ audits'[r][i] = audits[r][i]
             /\ \E k \in DOMAIN events : audits'[r][j] = events[k]
    <3>1. i \in 1..n /\ n > 0
      BY <1>a, <2>6
    <3>2. events # <<>> /\ audits'[r][j].at = now
      <4>1. DOMAIN <<>> = {}
        OBVIOUS
      <4> QED
        BY <1>0, <2>6, <4>1, Zenon
    <3> QED
      BY <1>2, <2>6, <3>1, <3>2, Zenon
  <2>7. CASE /\ \E k \in DOMAIN events : audits'[r][i] = events[k]
             /\ \E k \in DOMAIN events : audits'[r][j] = events[k]
    BY <1>0, <2>4, <2>7, Zenon
  <2> QED
    BY <2>1, <2>2, <2>4, <2>5, <2>6, <2>7, Zenon
<1>4. events # <<>> => audits'[r] # <<>> /\ LastAuditAt(r)' = now
  <2> SUFFICES ASSUME events # <<>>
               PROVE  audits'[r] # <<>> /\ LastAuditAt(r)' = now
    OBVIOUS
  <2> DEFINE m == Len(audits'[r])
  <2>1. m \in DOMAIN audits'[r] /\ m > n /\ m - n = Len(events)
    BY <1>0, <1>a
  <2>2. audits'[r][m].at = now
    BY <1>0, <2>1, <1>a, SMTT(30)
  <2> QED
    BY <2>1, <2>2 DEF LastAuditAt
<1>5. events = <<>> => audits'[r] = audits[r]
  BY DEF AppendedTo, TypeOK
<1>6. audits[r] # <<>> => /\ audits'[r] # <<>>
                          /\ LastAuditAt(r) <= LastAuditAt(r)'
                          /\ LastAuditAt(r) \in Nat /\ LastAuditAt(r)' \in Nat
  <2> SUFFICES ASSUME audits[r] # <<>>
               PROVE  /\ audits'[r] # <<>>
                      /\ LastAuditAt(r) <= LastAuditAt(r)'
                      /\ LastAuditAt(r) \in Nat /\ LastAuditAt(r)' \in Nat
    OBVIOUS
  <2>1. n > 0 /\ n \in DOMAIN audits[r]
    BY <1>0, <1>a, SMTT(30) DEF TypeOK
  <2>2. CASE events = <<>>
    BY <1>1, <1>5, <2>1, <2>2, SMTT(30) DEF LastAuditAt
  <2>3. CASE events # <<>>
    BY <1>1, <1>2, <1>4, <2>1, <2>3, SMTT(30) DEF LastAuditAt
  <2> QED
    BY <2>2, <2>3, Zenon
<1> QED
  BY <1>3, <1>4, <1>5, <1>6, Zenon

UniqueEnding(r) ==
  \A i, j \in DOMAIN audits[r] :
    audits[r][i].type \in TerminalEvent /\ audits[r][j].type \in TerminalEvent => i = j

(* Events that end nothing leave the ending of every chain as it was. *)
LEMMA PlainKeepsEnding ==
  ASSUME TypeOK, NEW now, NEW types, types \cap TerminalEvent = {}, NEW r \in Runs,
         NEW events \in Batch(now, types), AppendEvents(r, events), NEW q \in Runs
  PROVE  /\ \A type \in TerminalEvent : Has(q, type)' <=> Has(q, type)
         /\ UniqueEnding(q) => UniqueEnding(q)'
<1> DEFINE n == Len(audits[r])
<1>0. events \in Seq(Event) /\ \A i \in DOMAIN events : events[i].type \notin TerminalEvent
  BY DEF Batch
<1>1. /\ n \in Nat /\ DOMAIN audits[r] = 1..n
      /\ DOMAIN audits'[r] = 1..(n + Len(events)) /\ Len(events) \in Nat
      /\ \A i \in 1..n : audits'[r][i] = audits[r][i]
      /\ \A i \in DOMAIN audits'[r] : i > n =>
           i - n \in DOMAIN events /\ audits'[r][i] = events[i - n]
  <2>1. AppendedTo(r, events)
    BY <1>0, AppendOne, Zenon
  <2> QED
    BY <1>0, <2>1, AppendIndex, Zenon
<1>2. \A type \in TerminalEvent : Has(q, type)' <=> Has(q, type)
  BY <1>0, HasAppend
<1>3. ASSUME UniqueEnding(q) PROVE UniqueEnding(q)'
  <2>1. CASE q # r
    BY <1>0, <1>3, <2>1, AppendOne, SMTT(30) DEF UniqueEnding
  <2>2. CASE q = r
    <3>1. \A i \in DOMAIN audits'[r] : audits'[r][i].type \in TerminalEvent =>
            i \in DOMAIN audits[r] /\ audits'[r][i] = audits[r][i]
      BY <1>0, <1>1, SMTT(30)
    <3> QED
      BY <1>3, <2>2, <3>1, Zenon DEF UniqueEnding
  <2> QED
    BY <2>1, <2>2
<1> QED
  BY <1>2, <1>3

(* The first ending of a chain is its only one. *)
LEMMA FirstEnding ==
  ASSUME TypeOK, NEW now \in Nat, NEW type \in TerminalEvent, NEW r \in Runs,
         AppendedTo(r, <<AuditEvent(type, now)>>),
         ~\E t \in TerminalEvent : Has(r, t)
  PROVE  /\ \A t \in TerminalEvent : Has(r, t)' <=> t = type
         /\ UniqueEnding(r)'
<1> DEFINE events == <<AuditEvent(type, now)>>
           n == Len(audits[r])
<1>0. /\ events \in Seq(Event) /\ Len(events) = 1 /\ DOMAIN events = {1}
      /\ events[1].type = type
  <2>1. AuditEvent(type, now) \in Event
    BY AuditEventType_ DEF TerminalEvent, AuditEventType
  <2> QED
    BY <2>1 DEF AuditEvent, SubjectEvent
<1> HIDE DEF events
<1>a. AppendedTo(r, events)
  BY DEF events
<1>1. /\ n \in Nat /\ DOMAIN audits[r] = 1..n
      /\ DOMAIN audits'[r] = 1..(n + Len(events)) /\ Len(events) \in Nat
      /\ \A i \in 1..n : audits'[r][i] = audits[r][i]
      /\ \A i \in DOMAIN audits'[r] : i > n =>
           i - n \in DOMAIN events /\ audits'[r][i] = events[i - n]
  BY <1>0, <1>a, AppendIndex, ZenonT(30)
<1>2. \A t \in TerminalEvent : Has(r, t)' <=> t = type
  BY <1>0, <1>a, HasAppended
<1>3. \A i \in DOMAIN audits'[r] : audits'[r][i].type \in TerminalEvent => i = n + 1
  <2> SUFFICES ASSUME NEW i \in DOMAIN audits'[r], audits'[r][i].type \in TerminalEvent,
                      i # n + 1
               PROVE  FALSE
    OBVIOUS
  <2>1. i \in DOMAIN audits[r] /\ audits'[r][i] = audits[r][i]
    BY <1>0, <1>1, SMTT(30)
  <2> QED
    BY <2>1, Zenon DEF Has
<1> QED
  BY <1>2, <1>3, Zenon DEF UniqueEnding

LEMMA EndingMeaning ==
  \A r \in Runs : Ending(r) <=>
    /\ IsTerminal(runs[r].status) <=> \E type \in TerminalEvent : Has(r, type)
    /\ runs[r].status = "Succeeded" <=> Has(r, "RunCompleted")
    /\ UniqueEnding(r)
BY DEF Ending, UniqueEnding

(* A batch of plain events that changes no run record. *)
LEMMA ChainInvAppend ==
  ASSUME TypeOK, ChainInv, NEW now \in Nat, NEW types, types \cap TerminalEvent = {},
         NEW r \in Runs, NEW events \in Batch(now, types), AppendEvents(r, events),
         UNCHANGED runs
  PROVE  ChainInv'
<1> SUFFICES ASSUME NEW q \in Runs PROVE Ordered(q)' /\ Ending(q)'
  BY DEF ChainInv
<1>1. Ordered(q) /\ Ending(q) /\ Ordered(r)
  BY SMTT(30) DEF ChainInv
<1>2. Ending(q)'
  BY <1>1, PlainKeepsEnding, Zenon DEF Ending, UniqueEnding, TerminalEvent
<1>3. Ordered(q)'
  <2>1. CASE q # r
    <3>1. audits'[q] = audits[q]
      BY <2>1, SMTT(30) DEF AppendEvents, TypeOK
    <3> QED
      BY <1>1, <3>1, SMTT(30) DEF Ordered, Exists, LastAuditAt
  <2>2. CASE q = r
    <3>1. runs[r].updated_at \in Nat
      BY Zenon DEF TypeOK, Run
    <3>2. /\ \A i, j \in DOMAIN audits'[r] : i <= j => audits'[r][i].at <= audits'[r][j].at
          /\ audits[r] # <<>> => /\ audits'[r] # <<>>
                                 /\ LastAuditAt(r) <= LastAuditAt(r)'
                                 /\ LastAuditAt(r) \in Nat /\ LastAuditAt(r)' \in Nat
      BY <1>1, AppendOne, OrderedAppend, Zenon DEF Ordered, Batch
    <3> QED
      BY <1>1, <2>2, <3>1, <3>2, SMTT(30) DEF Ordered, Exists
  <2> QED
    BY <2>1, <2>2, SMTT(30)
<1> QED
  BY <1>2, <1>3

(* One run ends: its chain had no ending and now has one. *)
LEMMA EndedRun ==
  ASSUME TypeOK, ChainInv, NEW now \in Nat, NEW r \in Runs,
         NEW next \in TerminalStatus, NEW type \in TerminalEvent,
         type = "RunCompleted" <=> next = "Succeeded",
         ~IsTerminal(runs[r].status),
         runs'[r] = Advanced(runs[r], next, now),
         AppendedTo(r, <<AuditEvent(type, now)>>)
  PROVE  Ordered(r)' /\ Ending(r)'
<1>0. /\ Ordered(r) /\ Ending(r)
      /\ runs'[r].status = next /\ runs'[r].updated_at = now
      /\ IsTerminal(next) /\ "RunCompleted" \in TerminalEvent
  BY SMTT(30) DEF ChainInv, Advanced, IsTerminal, TerminalEvent
<1>1. Ending(r)'
  BY <1>0, FirstEnding, SMTT(30) DEF Ending, UniqueEnding
<1>2. Ordered(r)'
  <2> DEFINE events == <<AuditEvent(type, now)>>
  <2>1. events \in Batch(now, TerminalEvent) /\ events # <<>>
    BY SingleBatch, Zenon DEF TerminalEvent, AuditEventType
  <2> HIDE DEF events
  <2>2. AppendedTo(r, events)
    BY DEF events
  <2>3. /\ \A i, j \in DOMAIN audits'[r] : i <= j => audits'[r][i].at <= audits'[r][j].at
        /\ audits'[r] # <<>> /\ LastAuditAt(r)' = now
    BY <1>0, <2>1, <2>2, OrderedAppend, ZenonT(60) DEF Ordered
  <2> QED
    BY <1>0, <2>3 DEF Ordered
<1> QED
  BY <1>1, <1>2

LEMMA ChainInvMove ==
  ASSUME TypeOK, ChainInv, NEW now \in Nat, NEW r \in Runs, NEW next \in RunStatus,
         Moves(r, next, now)
  PROVE  ChainInv'
<1> SUFFICES ASSUME NEW q \in Runs PROVE Ordered(q)' /\ Ending(q)'
  BY DEF ChainInv
<1>0. Ordered(q) /\ Ending(q) /\ Ordered(r) /\ Ending(r)
  BY DEF ChainInv
<1>1. CASE q # r
  <2>1. runs'[q] = runs[q] /\ audits'[q] = audits[q]
    BY <1>1, Zenon DEF Moves, AppendEvents, TypeOK
  <2> QED
    BY <1>0, <2>1, Zenon DEF Ordered, Ending, Exists, LastAuditAt, Has
<1>2. CASE q = r /\ IsTerminal(next)
  <2>1. PICK type \in TerminalEvent :
          /\ type = "RunCompleted" <=> next = "Succeeded"
          /\ AppendEvents(r, <<AuditEvent(type, now)>>)
    BY <1>2 DEF Moves
  <2>2. ~IsTerminal(runs[r].status) /\ runs'[r] = Advanced(runs[r], next, now)
    BY Zenon DEF Moves, CanTransitionTo, IsTerminal, TerminalStatus, TypeOK
  <2>3. AppendedTo(r, <<AuditEvent(type, now)>>)
    <3>1. <<AuditEvent(type, now)>> \in Seq(Event)
      BY AuditEventType_ DEF TerminalEvent, AuditEventType
    <3> QED
      BY <2>1, <3>1, AppendOne, ZenonT(60)
  <2> QED
    BY <1>2, <2>1, <2>2, <2>3, EndedRun, SMTT(30) DEF IsTerminal
<1>3. CASE q = r /\ ~IsTerminal(next)
  <2>1. PICK events \in Batch(now, PlainEvent) : events # <<>> /\ AppendEvents(r, events)
    BY <1>3, SMTT(30) DEF Moves
  <2>2. /\ ~IsTerminal(runs[r].status)
        /\ runs'[r].status = next /\ runs'[r].updated_at = now
    BY AdvancedType
       DEF Moves, CanTransitionTo, IsTerminal, TerminalStatus, TypeOK
  <2>3. PlainEvent \cap TerminalEvent = {}
    BY SMTT(30) DEF PlainEvent
  <2>4. Ending(r)'
    <3>1. /\ \A type \in TerminalEvent : Has(r, type)' <=> Has(r, type)
          /\ UniqueEnding(r) => UniqueEnding(r)'
      BY <2>1, <2>3, PlainKeepsEnding, Zenon
    <3>2. /\ runs[r].status # "Succeeded" /\ runs'[r].status # "Succeeded"
          /\ "RunCompleted" \in TerminalEvent
      BY <1>3, <2>2 DEF TerminalEvent, IsTerminal, TerminalStatus
    <3> QED
      BY <1>0, <1>3, <2>2, <3>1, <3>2, Zenon DEF Ending, UniqueEnding
  <2>5. /\ \A i, j \in DOMAIN audits'[r] : i <= j => audits'[r][i].at <= audits'[r][j].at
        /\ audits'[r] # <<>> /\ LastAuditAt(r)' = now
    <3>1. AppendedTo(r, events)
      BY <2>1, AppendOne DEF Batch
    <3> QED
      BY <1>0, <2>1, <3>1, OrderedAppend, ZenonT(30) DEF Ordered
  <2> QED
    BY <1>3, <2>2, <2>4, <2>5 DEF Ordered
<1> QED
  BY <1>1, <1>2, <1>3

LEMMA ChainInvCreate ==
  ASSUME TypeOK, ChainInv, NEW now \in Nat, NEW r \in Runs, CreateRun(r, now)
  PROVE  ChainInv'
<1> SUFFICES ASSUME NEW q \in Runs PROVE Ordered(q)' /\ Ending(q)'
  BY SMTT(30) DEF ChainInv
<1>1. CASE q # r
  <2>1. runs'[q] = runs[q] /\ audits'[q] = audits[q] /\ Ordered(q) /\ Ending(q)
    BY <1>1 DEF ChainInv, CreateRun, TypeOK
  <2> QED
    BY <2>1, Zenon DEF Ordered, Ending, Exists, LastAuditAt, Has
<1>2. CASE q = r
  <2>1. /\ runs'[r].status = "Queued" /\ runs'[r].updated_at = now
        /\ audits'[r] = <<AuditEvent("RunCreated", now)>>
    BY Zenon DEF CreateRun, NoRun, TypeOK
  <2>2. /\ AuditEvent("RunCreated", now).at = now
        /\ AuditEvent("RunCreated", now).type = "RunCreated"
    BY DEF AuditEvent, SubjectEvent
  <2>3. /\ audits'[r] # <<>> /\ DOMAIN audits'[r] = {1} /\ Len(audits'[r]) = 1
        /\ audits'[r][1] = AuditEvent("RunCreated", now)
    BY <2>1, SMTT(30)
  <2>4. Ordered(r)'
    BY <2>1, <2>2, <2>3, SMTT(30) DEF Ordered, LastAuditAt
  <2>5. Ending(r)'
    BY <2>1, <2>2, <2>3, Zenon DEF Ending, Has, TerminalEvent, IsTerminal, TerminalStatus
  <2> QED
    BY <1>2, <2>4, <2>5
<1> QED
  BY <1>1, <1>2

LEMMA ChainInvRecovery ==
  ASSUME TypeOK, LeaseOwnsActiveRun, ChainInv, NEW now \in Nat,
         RecoverExpiredLeases(now)
  PROVE  ChainInv'
<1> SUFFICES ASSUME NEW r \in Runs PROVE Ordered(r)' /\ Ending(r)'
  BY SMTT(30) DEF ChainInv
<1>1. CASE r \notin Recovered(now)
  <2>1. runs'[r] = runs[r] /\ audits'[r] = audits[r] /\ Ordered(r) /\ Ending(r)
    BY <1>1, RecoveryFacts, Zenon DEF ChainInv
  <2> QED
    BY <2>1, ZenonT(60) DEF Ordered, Ending, Exists, LastAuditAt, Has
<1>2. CASE r \in Recovered(now)
  <2>1. /\ ~IsTerminal(runs[r].status)
        /\ now >= LastAuditAt(r)
        /\ runs'[r] = Advanced(runs[r], "Failed", now)
        /\ audits'[r] = Append(audits[r], AuditEvent("RunFailed", now))
    BY <1>2, RecoveryFacts, Zenon DEF EnsureAuditTime
  <2>2. /\ AuditEvent("RunFailed", now) \in Event
        /\ AuditEvent("RunFailed", now).at = now
    BY AuditEventType_, SMTT(30) DEF AuditEventType, AuditEvent, SubjectEvent
  <2>3. audits'[r] = audits[r] \o <<AuditEvent("RunFailed", now)>>
    BY <2>1, <2>2, SMTT(30) DEF TypeOK
  <2>4. AppendedTo(r, <<AuditEvent("RunFailed", now)>>)
    BY <2>1, <2>2, <2>3 DEF AppendedTo
  <2>5. "Failed" \in TerminalStatus /\ "RunFailed" \in TerminalEvent
    BY DEF TerminalStatus, TerminalEvent
  <2> QED
    BY <2>1, <2>4, <2>5, EndedRun, Zenon
<1> QED
  BY <1>1, <1>2

LEMMA ChainInvStep ==
  ASSUME TypeOK, QueueInv, ChainInv, NEW now \in Time, Shapes(now)
  PROVE  ChainInv'
<1>0. now \in Nat /\ \A h \in handles : h.run \in Runs
  BY TimeIsNat DEF TypeOK, Handle
<1>1. CASE Annotates(now)
  <2>1. PlainEvent \cap TerminalEvent = {}
    BY DEF PlainEvent
  <2> QED
    BY <1>0, <1>1, <2>1, ChainInvAppend DEF Annotates
<1>2. CASE \E r \in Runs : CreateRun(r, now)
  BY <1>0, <1>2, ChainInvCreate
<1>3. CASE MovesFree(now) \/ MovesPastLease(now)
  BY <1>0, <1>3, ChainInvMove, SMTT(30) DEF MovesFree, MovesPastLease, RunStatus
<1>4. CASE \E r \in Runs, ttl \in LeaseTTLs : Claims(r, now, ttl)
  BY <1>0, <1>4, ChainInvMove, SMTT(30) DEF Claims, RunStatus
<1>5. CASE \E h \in handles, ttl \in LeaseTTLs : HeartbeatLease(h, now, ttl)
  <2>1. UNCHANGED <<runs, audits>>
    BY <1>5, SMTT(30) DEF HeartbeatLease
  <2> QED
    BY <2>1, SMTT(30) DEF ChainInv, Ordered, Ending, Exists, LastAuditAt, Has
<1>6. CASE \E h \in handles : MovesLeased(h, now) \/ EndsLeased(h, now)
  BY <1>0, <1>6, ChainInvMove
     DEF MovesLeased, EndsLeased, RunStatus, TerminalStatus
<1>7. CASE \E r \in Runs : Intends(r, now)
  <2>1. PICK r \in Runs : Intends(r, now)
    BY <1>7
  <2>2. <<AuditEvent("CancelRequested", now)>> \in Batch(now, {"CancelRequested"})
    BY <1>0, SingleBatch DEF AuditEventType
  <2>3. {"CancelRequested"} \cap TerminalEvent = {}
    BY DEF TerminalEvent
  <2> QED
    BY <1>0, <2>1, <2>2, <2>3, ChainInvAppend, SMTT(30)
       DEF Intends, RecordCancelIntent
<1>8. CASE RecoverExpiredLeases(now)
  BY <1>0, <1>8, ChainInvRecovery DEF QueueInv
<1> QED
  BY <1>1, <1>2, <1>3, <1>4, <1>5, <1>6, <1>7, <1>8, SMTT(30) DEF Shapes

(* The chain invariant is inductive relative to the type and the queue     *)
(* invariants: every write of the store appends in order, and only the     *)
(* step that ends a run appends a terminal event.                          *)
THEOREM ChainCorrect == Spec => []ChainInv
<1>1. Init => ChainInv
  BY DEF Init, ChainInv, Ordered, Ending, Exists, Has, NoRun, IsTerminal,
         TerminalStatus
<1>2. TypeOK /\ QueueInv /\ ChainInv /\ [Next]_vars => ChainInv'
  <2> SUFFICES ASSUME TypeOK, QueueInv, ChainInv, [Next]_vars
               PROVE  ChainInv'
    OBVIOUS
  <2>1. CASE Next
    BY <2>1, NextShapes, ChainInvStep, SMTT(30)
  <2>2. CASE UNCHANGED vars
    BY <2>2 DEF vars, ChainInv, Ordered, Ending, Exists, LastAuditAt, Has
  <2> QED
    BY <2>1, <2>2
<1> QED
  BY <1>1, <1>2, TypeCorrect, QueueCorrect, PTL DEF Spec

(* No chain's timestamps move backwards, whatever times the callers pass. *)
THEOREM AuditIsMonotone == Spec => []AuditMonotone
BY ChainCorrect, ChainInvMeaning, PTL

(* A run ends once, and its chain says how. *)
THEOREM RunsEndOnce == Spec => []OneEnding
BY ChainCorrect, ChainInvMeaning, PTL

-----------------------------------------------------------------------------
(* What a step appends.  Two kinds of event carry a subject that another   *)
(* record repeats: an artifact and an executed action.                     *)

Noted == {"ArtifactCreated", "ActionExecuted"}

(* Chain s grew into chain t without an event of this type. *)
Grown(s, t, type) ==
  /\ DOMAIN s \subseteq DOMAIN t
  /\ \A i \in DOMAIN s : t[i] = s[i]
  /\ \A i \in DOMAIN t \ DOMAIN s : t[i].type # type

QuietAt(r) ==
  /\ \A type \in Noted : Grown(audits[r], audits'[r], type)
  /\ audits'[r] = audits[r] \/ Exists(r) \/ Exists(r)'

(* Only existing runs have a chain, and only they have approvals. *)
Founded ==
  /\ \A r \in Runs : ~Exists(r) => audits[r] = <<>>
  /\ \A p \in Approvals : approvals[p] # NoApproval => Exists(approvals[p].run)

LEMMA SameIsQuiet ==
  ASSUME NEW r, audits'[r] = audits[r]
  PROVE  QuietAt(r)
BY Zenon DEF QuietAt, Grown

LEMMA AppendGrows ==
  ASSUME TypeOK, NEW r \in Runs, NEW events \in Seq(Event), AppendedTo(r, events), NEW type,
         \A i \in DOMAIN events : events[i].type # type
  PROVE  Grown(audits[r], audits'[r], type)
<1> DEFINE n == Len(audits[r])
<1>1. /\ n \in Nat /\ DOMAIN audits[r] = 1..n
      /\ Len(events) \in Nat
      /\ DOMAIN audits'[r] = 1..(n + Len(events))
      /\ \A i \in 1..n : audits'[r][i] = audits[r][i]
      /\ \A i \in DOMAIN audits'[r] : i > n =>
           i - n \in DOMAIN events /\ audits'[r][i] = events[i - n]
  BY AppendIndex, Zenon
<1>2. DOMAIN audits[r] \subseteq DOMAIN audits'[r]
  BY <1>1
<1>3. \A i \in DOMAIN audits'[r] \ DOMAIN audits[r] : i > n
  BY <1>1
<1> QED
  BY <1>1, <1>2, <1>3, Zenon DEF Grown

LEMMA AppendsQuietly ==
  ASSUME TypeOK, NEW r \in Runs, Exists(r), NEW events \in Seq(Event), AppendEvents(r, events),
         \A i \in DOMAIN events : events[i].type \notin Noted
  PROVE  \A q \in Runs : QuietAt(q)
<1>1. AppendedTo(r, events) /\ \A q \in Runs : q # r => audits'[q] = audits[q]
  BY AppendOne, Zenon
<1>2. \A type \in Noted : Grown(audits[r], audits'[r], type)
  BY <1>1, AppendGrows, Zenon
<1>3. QuietAt(r)
  BY <1>2, Zenon DEF QuietAt
<1> QED
  BY <1>1, <1>3, SameIsQuiet, Zenon

(* One event without a subject. *)
LEMMA NotesQuietly ==
  ASSUME TypeOK, NEW r \in Runs, Exists(r), NEW type \in AuditEventType, type \notin Noted,
         NEW now \in Nat, AppendEvents(r, <<AuditEvent(type, now)>>)
  PROVE  \A q \in Runs : QuietAt(q)
<1> DEFINE events == <<AuditEvent(type, now)>>
<1>1. events \in Seq(Event)
  BY AuditEventType_
<1>2. \A i \in DOMAIN events : events[i].type \notin Noted
  BY DEF AuditEvent, SubjectEvent
<1> HIDE DEF events
<1> QED
  BY <1>1, <1>2, AppendsQuietly, Zenon DEF events

LEMMA MovesQuietly ==
  ASSUME TypeOK, NEW r \in Runs, NEW next, NEW now \in Nat, NEW type \in AuditEventType,
         type \notin Noted, ApplyTransition(r, next, now, type)
  PROVE  \A q \in Runs : QuietAt(q)
<1>1. Exists(r)
  BY DEF ApplyTransition, CanTransitionTo, Exists
<1> QED
  BY <1>1, NotesQuietly, Zenon DEF ApplyTransition

LEMMA TransitionQuiet ==
  ASSUME NEW next \in RunStatus
  PROVE  TransitionEvent(next) \in AuditEventType /\ TransitionEvent(next) \notin Noted
BY DEF TransitionEvent, RunStatus, AuditEventType, Noted

(* Records of the store that a quiet step leaves alone. *)
Quiet == UNCHANGED artifacts /\ \A r \in Runs : QuietAt(r)

-----------------------------------------------------------------------------
(* The steps *)

(* A batch of artifacts is recorded. *)
Records(now) ==
  /\ \E r \in Runs, batch \in Batches : Exists(r) /\ WriteArtifacts(r, batch, now)
  /\ UNCHANGED <<runs, approvals, actionClaims>>

LEMMA RunStepNotes ==
  ASSUME TypeOK, Founded, NEW now \in Time, RunStep(now)
  PROVE  (Quiet /\ UNCHANGED <<approvals, actionClaims>>) \/ Records(now)
<1>0. now \in Nat
  BY TimeIsNat
<1>1. PICK r \in Runs :
        \/ CreateRun(r, now)
        \/ \E next \in RunStatus : TransitionRun(r, next, now)
        \/ \E type \in AppendableEvents : AppendAudit(r, type, now)
        \/ \E batch \in Batches : RecordArtifacts(r, batch, now)
        \/ \E ttl \in LeaseTTLs : ClaimNextRun(r, now, ttl)
        \/ RequestCancel(r, now)
  BY DEF RunStep
<1>2. CASE CreateRun(r, now)
  <2>1. /\ ~Exists(r) /\ Exists(r)' /\ UNCHANGED <<artifacts, approvals, actionClaims>>
        /\ audits'[r] = <<AuditEvent("RunCreated", now)>>
        /\ \A q \in Runs \ {r} : audits'[q] = audits[q]
    BY <1>2 DEF CreateRun, Exists, TypeOK, NoRun
  <2>2. DOMAIN audits[r] = {} /\ DOMAIN audits'[r] = {1} /\ audits'[r][1].type = "RunCreated"
    BY <2>1 DEF Founded, AuditEvent, SubjectEvent
  <2>3. QuietAt(r)
    BY <2>1, <2>2, Zenon DEF QuietAt, Grown, Noted
  <2> QED
    BY <2>1, <2>3, SameIsQuiet, Zenon DEF Quiet
<1>3. ASSUME NEW next \in RunStatus, TransitionRun(r, next, now)
      PROVE  Quiet /\ UNCHANGED <<approvals, actionClaims>>
  BY <1>0, <1>3, MovesQuietly, TransitionQuiet, Zenon DEF TransitionRun, Quiet
<1>4. ASSUME NEW type \in AppendableEvents, AppendAudit(r, type, now)
      PROVE  Quiet /\ UNCHANGED <<approvals, actionClaims>>
  <2>1. type \in AuditEventType /\ type \notin Noted
    BY RunStoreAssumption DEF RunStoreAssumption, WorkerEvent, AuditEventType, Noted
  <2> QED
    BY <1>0, <1>4, <2>1, NotesQuietly, Zenon
       DEF AppendAudit, Quiet, RejectUnboundLeasedWrite
<1>5. ASSUME NEW batch \in Batches, RecordArtifacts(r, batch, now)
      PROVE  Records(now)
  BY <1>5, Zenon DEF RecordArtifacts, Records, RejectUnboundLeasedWrite
<1>6. ASSUME NEW ttl \in LeaseTTLs, ClaimNextRun(r, now, ttl)
      PROVE  Quiet /\ UNCHANGED <<approvals, actionClaims>>
  <2>1. "RuntimeSelected" \in AuditEventType /\ "RuntimeSelected" \notin Noted
    BY DEF AuditEventType, Noted
  <2> QED
    BY <1>0, <1>6, <2>1, MovesQuietly, Zenon DEF ClaimNextRun, Quiet
<1>7. CASE RequestCancel(r, now)
  <2>1. {"CancelConfirmed", "CancelRequested"} \subseteq AuditEventType \ Noted
    BY DEF AuditEventType, Noted
  <2>2. CASE CancelWaiting(r, now)
    BY <1>0, <1>7, <2>1, <2>2, MovesQuietly, Zenon DEF RequestCancel, CancelWaiting, Quiet
  <2>3. CASE RecordCancelIntent(r, now)
    <3>1. Exists(r) /\ AppendEvents(r, <<AuditEvent("CancelRequested", now)>>)
      BY <2>3 DEF RecordCancelIntent, Exists
    <3> QED
      BY <1>0, <1>7, <2>1, <3>1, NotesQuietly, Zenon DEF RequestCancel, Quiet
  <2> QED
    BY <1>7, <2>2, <2>3, Zenon DEF RequestCancel
<1> QED
  BY <1>1, <1>2, <1>3, <1>4, <1>5, <1>6, <1>7, Zenon

LEMMA LeaseStepNotes ==
  ASSUME TypeOK, LeaseOwnsActiveRun, NEW now \in Time, LeaseStep(now)
  PROVE  (Quiet /\ UNCHANGED <<approvals, actionClaims>>) \/ Records(now)
<1>0. /\ now \in Nat /\ \A h \in handles : h.run \in Runs
      /\ \A r \in Runs : Leased(r) => Exists(r)
  BY TimeIsNat, Zenon DEF TypeOK, Handle, LeaseOwnsActiveRun, Exists
<1>1. ASSUME NEW h \in handles, NEW next \in RunStatus,
             TransitionLeasedRun(h, next, now) \/ CompleteLeasedRun(h, next, now)
      PROVE  Quiet /\ UNCHANGED <<approvals, actionClaims>>
  BY <1>0, <1>1, MovesQuietly, TransitionQuiet, Zenon
     DEF TransitionLeasedRun, CompleteLeasedRun, Quiet
<1>2. ASSUME NEW h \in handles, NEW type \in AppendableEvents,
             AppendLeasedRuntimeAudit(h, type, now)
      PROVE  Quiet /\ UNCHANGED <<approvals, actionClaims>>
  <2>1. type \in AuditEventType /\ type \notin Noted
    BY <1>2 DEF AppendLeasedRuntimeAudit, WorkerEvent, AuditEventType, Noted
  <2> QED
    BY <1>0, <1>2, <2>1, NotesQuietly, Zenon
       DEF AppendLeasedRuntimeAudit, Quiet, ValidateLease
<1>3. ASSUME NEW h \in handles, NEW batch \in Batches, RecordLeasedArtifacts(h, batch, now)
      PROVE  Records(now)
  BY <1>0, <1>3, Zenon DEF RecordLeasedArtifacts, Records, ValidateLease
<1>4. ASSUME NEW h \in handles, ConfirmCancel(h, now)
      PROVE  Quiet /\ UNCHANGED <<approvals, actionClaims>>
  <2>1. "CancelConfirmed" \in AuditEventType /\ "CancelConfirmed" \notin Noted
    BY DEF AuditEventType, Noted
  <2> QED
    BY <1>0, <1>4, <2>1, MovesQuietly, Zenon DEF ConfirmCancel, Quiet
<1>5. ASSUME NEW h \in handles, NEW ttl \in LeaseTTLs, HeartbeatLease(h, now, ttl)
      PROVE  Quiet /\ UNCHANGED <<approvals, actionClaims>>
  BY <1>5, SameIsQuiet, Zenon DEF HeartbeatLease, Quiet
<1>6. CASE RecoverExpiredLeases(now)
  <2>1. ASSUME NEW r \in Runs PROVE QuietAt(r)
    <3>1. CASE r \in Recovered(now)
      <4>1. /\ Leased(r) /\ EnsureAuditTime(r, now)
            /\ audits'[r] = Append(audits[r], AuditEvent("RunFailed", now))
        BY <1>0, <1>6, <3>1, RecoveryFacts, Zenon
      <4>2. "RunFailed" \in AuditEventType /\ "RunFailed" \notin Noted
        BY DEF AuditEventType, Noted
      <4> DEFINE events == <<AuditEvent("RunFailed", now)>>
      <4>3. events \in Seq(Event) /\ audits[r] \in Seq(Event)
        BY <1>0, <4>2, AuditEventType_ DEF TypeOK
      <4>4. AppendedTo(r, events)
        BY <4>1, <4>3 DEF AppendedTo, EnsureAuditTime, AuditEvent, SubjectEvent
      <4>5. \A i \in DOMAIN events : events[i].type \notin Noted
        BY <4>2 DEF AuditEvent, SubjectEvent
      <4> HIDE DEF events
      <4>6. \A type \in Noted : Grown(audits[r], audits'[r], type)
        BY <4>3, <4>4, <4>5, AppendGrows, Zenon
      <4> QED
        BY <1>0, <4>1, <4>6, Zenon DEF QuietAt
    <3>2. CASE r \notin Recovered(now)
      BY <1>0, <1>6, <3>2, RecoveryFacts, SameIsQuiet, Zenon
    <3> QED
      BY <3>1, <3>2, Zenon
  <2> QED
    BY <1>6, <2>1, Zenon DEF RecoverExpiredLeases, Quiet
<1> QED
  BY <1>1, <1>2, <1>3, <1>4, <1>5, <1>6, Zenon DEF LeaseStep

-----------------------------------------------------------------------------
(* What a step does to the approvals *)

SameBinding(x, y) ==
  /\ x.run = y.run /\ x.action = y.action /\ x.hash = y.hash
  /\ x.created_at = y.created_at /\ x.expires_at = y.expires_at /\ x.window = y.window

LEMMA ApprovalUpdates ==
  ASSUME NEW x \in Approval, NEW decision, NEW now
  PROVE  /\ SameBinding(Decided(x, decision, now), x)
         /\ Decided(x, decision, now).status = decision
         /\ Decided(x, decision, now).decided_at = now
         /\ SameBinding(AsExpired(x), x) /\ AsExpired(x).status = "Expired"
         /\ SameBinding(Consumed(x, now), x) /\ Consumed(x, now).status = "Consumed"
         /\ Consumed(x, now).decided_at = x.decided_at /\ Consumed(x, now).consumed_at = now
BY DEF Approval, SameBinding, Decided, AsExpired, Consumed

OtherApprovals(p) == \A q \in Approvals \ {p} : approvals'[q] = approvals[q]

(* CreateApproval *)
Asks(p) ==
  /\ approvals[p] = NoApproval /\ OtherApprovals(p)
  /\ approvals'[p].status = "Pending" /\ Exists(approvals'[p].run)
  /\ UnusedAction(approvals'[p].action)
  /\ UNCHANGED <<runs, actionClaims>>

(* DecideApproval and ExpireApproval *)
Settles(p) ==
  /\ approvals[p] \in Approval /\ approvals[p].status # "Consumed" /\ OtherApprovals(p)
  /\ SameBinding(approvals'[p], approvals[p])
  /\ approvals'[p].status \in {"Approved", "Denied", "Expired"}
  /\ approvals'[p].status = "Approved" =>
       approvals'[p].created_at <= approvals'[p].decided_at
  /\ UNCHANGED <<runs, actionClaims>>

(* ConsumeApproval *)
Consumes(p, now) ==
  /\ approvals[p] \in Approval /\ approvals[p].status = "Approved" /\ OtherApprovals(p)
  /\ SameBinding(approvals'[p], approvals[p])
  /\ approvals'[p].status = "Consumed"
  /\ approvals'[p].decided_at = approvals[p].decided_at
  /\ approvals'[p].consumed_at = now
  /\ approvals[p].decided_at <= now /\ now < approvals[p].expires_at
  /\ runs[approvals[p].run].revision = approvals[p].window
  /\ runs'[approvals[p].run].revision = approvals[p].window + 1
  /\ actionClaims[approvals[p].action] = NoClaim
  /\ actionClaims'[approvals[p].action] =
       [run |-> approvals[p].run, hash |-> approvals[p].hash, claimed_at |-> now]
  /\ \A a \in Actions \ {approvals[p].action} : actionClaims'[a] = actionClaims[a]

LEMMA AsksFacts ==
  ASSUME TypeOK, NEW now \in Time, NEW p \in Approvals, NEW r \in Runs, NEW a \in Actions,
         NEW hash \in Hashes, NEW ttl \in ApprovalTTLs, CreateApproval(p, r, a, hash, now, ttl)
  PROVE  Asks(p) /\ Quiet
<1>0. now \in Nat
  BY TimeIsNat
<1>1. Exists(r) /\ UNCHANGED <<runs, artifacts, actionClaims>>
  BY Zenon DEF CreateApproval, Exists
<1>2. "ApprovalRequested" \in AuditEventType /\ "ApprovalRequested" \notin Noted
  BY DEF AuditEventType, Noted
<1>3. Quiet
  BY <1>0, <1>1, <1>2, NotesQuietly, Zenon DEF CreateApproval, Quiet
<1>4. /\ approvals'[p].status = "Pending" /\ approvals'[p].run = r /\ approvals'[p].action = a
      /\ OtherApprovals(p)
  BY Zenon DEF CreateApproval, TypeOK, OtherApprovals
<1> QED
  BY <1>1, <1>3, <1>4, Zenon DEF Asks, CreateApproval

LEMMA SettlesFacts ==
  ASSUME TypeOK, Founded, NEW now \in Time, NEW p \in Approvals,
         \/ \E decision \in {"Approved", "Denied"} : DecideApproval(p, decision, now)
         \/ ExpireApproval(p, now)
  PROVE  Settles(p) /\ Quiet
<1>0. now \in Nat
  BY TimeIsNat
<1>1. approvals[p].status \in {"Pending", "Approved"} /\ UNCHANGED <<runs, artifacts, actionClaims>>
  BY Zenon DEF DecideApproval, ExpireApproval
<1>2. approvals[p] \in Approval /\ approvals[p] # NoApproval
  BY <1>1, PresentApproval DEF NoApproval
<1>3. approvals[p].run \in Runs /\ Exists(approvals[p].run)
  BY <1>2, Zenon DEF Approval, Founded
<1>4. {"ApprovalApproved", "ApprovalDenied", "ApprovalExpired"} \subseteq AuditEventType \ Noted
  BY DEF AuditEventType, Noted
<1>5. Quiet
  BY <1>0, <1>1, <1>3, <1>4, NotesQuietly, Zenon DEF DecideApproval, ExpireApproval, Quiet
<1>6. OtherApprovals(p)
  BY Zenon DEF DecideApproval, ExpireApproval, TypeOK, OtherApprovals
<1>7. ASSUME NEW decision \in {"Approved", "Denied"}, DecideApproval(p, decision, now)
      PROVE  /\ approvals'[p] = Decided(approvals[p], decision, now)
             /\ approvals[p].created_at <= now
  BY <1>7, Zenon DEF DecideApproval, TypeOK
<1>8. CASE ExpireApproval(p, now)
  <2>1. approvals'[p] = AsExpired(approvals[p])
    BY <1>8, Zenon DEF ExpireApproval, TypeOK
  <2>2. SameBinding(approvals'[p], approvals[p]) /\ approvals'[p].status = "Expired"
    BY <1>2, <2>1, ApprovalUpdates
  <2> QED
    BY <1>1, <1>2, <1>5, <1>6, <2>2, Zenon DEF Settles
<1>9. ASSUME NEW decision \in {"Approved", "Denied"}, DecideApproval(p, decision, now)
      PROVE  Settles(p) /\ Quiet
  <2>1. /\ SameBinding(approvals'[p], approvals[p]) /\ approvals'[p].status = decision
        /\ approvals'[p].decided_at = now /\ approvals[p].created_at <= now
    BY <1>2, <1>7, <1>9, ApprovalUpdates
  <2>2. approvals'[p].created_at = approvals[p].created_at
    BY <2>1, Zenon DEF SameBinding
  <2> QED
    BY <1>1, <1>2, <1>5, <1>6, <2>1, <2>2, Zenon DEF Settles
<1> QED
  BY <1>8, <1>9

LEMMA ConsumesFacts ==
  ASSUME TypeOK, Founded, NEW now \in Time, NEW p \in Approvals, NEW action \in ActionRequest,
         ConsumeApproval(p, action, now)
  PROVE  /\ Consumes(p, now) /\ Quiet
         /\ AppendEvents(approvals[p].run, <<AuditEvent("ApprovalConsumed", now),
                                             AuditEvent("RuntimeStarted", now)>>)
<1>0. now \in Nat
  BY TimeIsNat
<1> DEFINE events == <<AuditEvent("ApprovalConsumed", now), AuditEvent("RuntimeStarted", now)>>
           r == approvals[p].run
<1>1. /\ approvals[p].status = "Approved" /\ UNCHANGED artifacts
      /\ AppendEvents(r, events)
  BY Zenon DEF ConsumeApproval
<1>2. approvals[p] \in Approval /\ approvals[p] # NoApproval
  BY <1>1, PresentApproval DEF NoApproval
<1>3. /\ r \in Runs /\ Exists(r) /\ approvals[p].action \in Actions
      /\ approvals[p].expires_at \in Nat
  BY <1>2, Zenon DEF Approval, Founded
<1>4. {"ApprovalConsumed", "RuntimeStarted"} \subseteq AuditEventType \ Noted
  BY DEF AuditEventType, Noted
<1>5. events \in Seq(Event)
  BY <1>0, <1>4, AuditEventType_
<1>6. \A i \in DOMAIN events : events[i].type \notin Noted
  BY <1>4 DEF AuditEvent, SubjectEvent
<1>7. Quiet
  <2> HIDE DEF events, r
  <2> QED
    BY <1>1, <1>3, <1>5, <1>6, AppendsQuietly, Zenon DEF Quiet
<1>8. /\ action.id = approvals[p].action /\ action.run = approvals[p].run
      /\ action.hash = approvals[p].hash
  BY Zenon DEF ConsumeApproval, BindingMatches
<1>9. /\ actionClaims[approvals[p].action] = NoClaim
      /\ actionClaims' = [actionClaims EXCEPT ![approvals[p].action] =
           [run |-> approvals[p].run, hash |-> approvals[p].hash, claimed_at |-> now]]
  BY <1>8, Zenon DEF ConsumeApproval
<1>10. /\ actionClaims'[approvals[p].action] =
            [run |-> approvals[p].run, hash |-> approvals[p].hash, claimed_at |-> now]
       /\ \A a \in Actions \ {approvals[p].action} : actionClaims'[a] = actionClaims[a]
  BY <1>3, <1>9, Zenon DEF TypeOK
<1>11. /\ approvals'[p] = Consumed(approvals[p], now)
       /\ OtherApprovals(p)
  BY Zenon DEF ConsumeApproval, TypeOK, OtherApprovals
<1>12. /\ SameBinding(approvals'[p], approvals[p]) /\ approvals'[p].status = "Consumed"
       /\ approvals'[p].decided_at = approvals[p].decided_at /\ approvals'[p].consumed_at = now
  BY <1>2, <1>11, ApprovalUpdates
<1>13. approvals[p].decided_at <= now /\ now < approvals[p].expires_at
  BY <1>0, <1>3 DEF ConsumeApproval, IsExpiredAt
<1>14. /\ runs[r].revision = approvals[p].window
       /\ runs'[r].revision = approvals[p].window + 1
  BY <1>3, Zenon DEF ConsumeApproval, ApprovalWindow, Advanced, TypeOK
<1> QED
  BY <1>1, <1>2, <1>7, <1>9, <1>10, <1>11, <1>12, <1>13, <1>14, Zenon DEF Consumes

-----------------------------------------------------------------------------
(* Approvals.  An approval that was consumed belongs to a window that its  *)
(* run has left: that, and not the pairwise statement, is what the next    *)
(* consumption finds in its way.                                           *)

ApprovalAt(p) ==
  /\ approvals[p].status \in {"Approved", "Consumed"} =>
       approvals[p].created_at <= approvals[p].decided_at
  /\ approvals[p].status = "Consumed" =>
       /\ actionClaims[approvals[p].action] # NoClaim
       /\ approvals[p].decided_at <= approvals[p].consumed_at
       /\ approvals[p].consumed_at < approvals[p].expires_at
       /\ approvals[p].window < runs[approvals[p].run].revision

Backs(p, a) ==
  /\ approvals[p].status = "Consumed"
  /\ approvals[p].action = a
  /\ approvals[p].run = actionClaims[a].run
  /\ approvals[p].hash = actionClaims[a].hash
  /\ approvals[p].consumed_at = actionClaims[a].claimed_at

BackedAt(a) == actionClaims[a] # NoClaim => \E p \in Approvals : Backs(p, a)

ApartAt(p, q) ==
  /\ approvals[p] # NoApproval /\ approvals[q] # NoApproval
     /\ approvals[p].action = approvals[q].action => p = q
  /\ approvals[p].status = "Consumed" /\ approvals[q].status = "Consumed"
     /\ approvals[p].run = approvals[q].run /\ approvals[p].window = approvals[q].window
     => p = q

ApprovalInv ==
  /\ Founded
  /\ \A p \in Approvals : ApprovalAt(p)
  /\ \A a \in Actions : BackedAt(a)
  /\ \A p, q \in Approvals : ApartAt(p, q)

(* No run disappears or goes back to an earlier revision. *)
Forward ==
  \A r \in Runs : Exists(r) => Exists(r)' /\ runs[r].revision <= runs'[r].revision

(* Only the chain of a run that exists is written. *)
Attached == \A r \in Runs : audits'[r] = audits[r] \/ Exists(r)'

LEMMA RunsForward ==
  ASSUME TypeOK, QueueInv, Next
  PROVE  Forward
<1>1. PICK now \in Time : Shapes(now)
  BY NextShapes, Zenon
<1> SUFFICES ASSUME NEW r \in Runs, Exists(r)
             PROVE  Exists(r)' /\ runs[r].revision <= runs'[r].revision
  BY Zenon DEF Forward
<1>2. runs[r].revision \in Nat
  BY DEF TypeOK, Run
<1>3. ASSUME NEW next \in RunStatus, runs'[r] = Advanced(runs[r], next, now)
      PROVE  Exists(r)' /\ runs[r].revision <= runs'[r].revision
  BY <1>2, <1>3 DEF Advanced, Exists, RunStatus
<1>4. CASE runs'[r] = runs[r]
  BY <1>2, <1>4 DEF Exists
<1> QED
  BY <1>1, <1>3, <1>4, RunRecordSteps, Zenon DEF Exists

(* The run of an approval moves forward. *)
LEMMA WindowStays ==
  ASSUME TypeOK, TypeOK', Founded, Forward, NEW p \in Approvals, approvals[p] \in Approval,
         approvals[p].window < runs[approvals[p].run].revision
  PROVE  approvals[p].window < runs'[approvals[p].run].revision
<1>1. /\ approvals[p].run \in Runs /\ approvals[p].window \in Nat /\ approvals[p] # NoApproval
      /\ runs[approvals[p].run].revision \in Nat /\ runs'[approvals[p].run].revision \in Nat
  <2>1. approvals[p].run \in Runs /\ approvals[p].window \in Nat
    BY Zenon DEF Approval
  <2>2. approvals[p] # NoApproval
    BY DEF Approval, NoApproval, ApprovalStatus
  <2>3. runs[approvals[p].run] \in Run /\ runs'[approvals[p].run] \in Run
    BY <2>1, Zenon DEF TypeOK
  <2> QED
    BY <2>1, <2>2, <2>3, Zenon DEF Run
<1> QED
  BY <1>1 DEF Founded, Forward

LEMMA ConsumedIsApproval ==
  ASSUME TypeOK, NEW p \in Approvals, approvals[p].status = "Consumed"
  PROVE  approvals[p] \in Approval /\ approvals[p] # NoApproval /\ approvals[p].action \in Actions
<1>1. approvals[p] \in Approval
  BY PresentApproval
<1> QED
  BY <1>1 DEF Approval, NoApproval

-----------------------------------------------------------------------------
(* What the chains say.  ExecutionAuditedOnce needs that a claim has its   *)
(* event already: the report of an execution finds it in the chain.        *)

(* The announcements of artifacts in chain s are these paths, each once. *)
Announces(s, paths) ==
  LET created == {i \in DOMAIN s : s[i].type = "ArtifactCreated"}
  IN /\ paths = {s[i].subject : i \in created}
     /\ \A i, j \in created : s[i].subject = s[j].subject => i = j

ConsumedBy(s, at, last) ==
  \E j \in 1..last : s[j].type = "ApprovalConsumed" /\ s[j].at = at

ExecutedAt(r, i) ==
  audits[r][i].type = "ActionExecuted" =>
    LET a == audits[r][i].subject
    IN /\ a \in Actions /\ actionClaims[a] # NoClaim /\ actionClaims[a].run = r
       /\ ConsumedBy(audits[r], actionClaims[a].claimed_at, i - 1)
       /\ \A j \in DOMAIN audits[r] :
            audits[r][j].type = "ActionExecuted" /\ audits[r][j].subject = a => i = j

ClaimRecorded(a) ==
  actionClaims[a] # NoClaim =>
    LET s == audits[actionClaims[a].run]
    IN ConsumedBy(s, actionClaims[a].claimed_at, Len(s))

RecordInv ==
  /\ \A r \in Runs : Announces(audits[r], artifacts[r])
  /\ \A r \in Runs : \A i \in DOMAIN audits[r] : ExecutedAt(r, i)
  /\ \A a \in Actions : ClaimRecorded(a)

-----------------------------------------------------------------------------
(* Steps keep the invariant on approvals *)

(* A claim is for ever. *)
KeepsClaims == \A a \in Actions : actionClaims[a] # NoClaim => actionClaims'[a] = actionClaims[a]

LEMMA SameApproval ==
  ASSUME TypeOK, TypeOK', Founded, Forward, KeepsClaims, NEW p \in Approvals,
         approvals'[p] = approvals[p], ApprovalAt(p)
  PROVE  ApprovalAt(p)'
<1>1. CASE approvals[p].status = "Consumed"
  <2>1. approvals[p] \in Approval /\ approvals[p].action \in Actions
    BY <1>1, ConsumedIsApproval, Zenon
  <2>2. approvals[p].window < runs'[approvals[p].run].revision
    BY <1>1, <2>1, WindowStays, Zenon DEF ApprovalAt
  <2> QED
    BY <1>1, <2>1, <2>2, Zenon DEF ApprovalAt, KeepsClaims
<1>2. CASE approvals[p].status # "Consumed"
  BY <1>2, Zenon DEF ApprovalAt
<1> QED
  BY <1>1, <1>2

LEMMA SameBacking ==
  ASSUME NEW a \in Actions, actionClaims'[a] = actionClaims[a], BackedAt(a),
         \A q \in Approvals : approvals[q].status = "Consumed" => approvals'[q] = approvals[q]
  PROVE  BackedAt(a)'
BY Zenon DEF BackedAt, Backs

LEMMA SamePair ==
  ASSUME NEW p, NEW q, approvals'[p] = approvals[p], approvals'[q] = approvals[q], ApartAt(p, q)
  PROVE  ApartAt(p, q)'
BY Zenon DEF ApartAt

LEMMA PairsMirror ==
  ASSUME NEW p, NEW q, ApartAt(p, q)'
  PROVE  ApartAt(q, p)'
BY Zenon DEF ApartAt

LEMMA FoundedStep ==
  ASSUME Founded, Forward, Attached, TypeOK',
         \A p \in Approvals : approvals'[p] # NoApproval =>
           \/ approvals[p] # NoApproval /\ approvals'[p].run = approvals[p].run
           \/ Exists(approvals'[p].run)
  PROVE  Founded'
<1>1. \A r \in Runs : ~Exists(r)' => audits'[r] = <<>>
  BY Zenon DEF Founded, Forward, Attached
<1>2. ASSUME NEW p \in Approvals, approvals'[p] # NoApproval
      PROVE  runs'[approvals'[p].run].status # "Absent"
  <2>1. approvals'[p].run \in Runs
    BY <1>2 DEF TypeOK, Approval
  <2>2. Exists(approvals'[p].run)
    BY <1>2, Zenon DEF Founded
  <2> QED
    BY <2>1, <2>2, Zenon DEF Forward, Exists
<1> QED
  BY <1>1, <1>2, Zenon DEF Founded, Exists

LEMMA KeptApprovals ==
  ASSUME TypeOK, TypeOK', ApprovalInv, Forward, Attached, UNCHANGED <<approvals, actionClaims>>
  PROVE  ApprovalInv'
<1>1. Founded'
  BY FoundedStep, Zenon DEF ApprovalInv
<1>2. \A p \in Approvals : ApprovalAt(p)'
  BY SameApproval, Zenon DEF ApprovalInv, KeepsClaims
<1>3. \A a \in Actions : BackedAt(a)'
  BY SameBacking, Zenon DEF ApprovalInv
<1>4. \A p, q \in Approvals : ApartAt(p, q)'
  BY SamePair, Zenon DEF ApprovalInv
<1> QED
  BY <1>1, <1>2, <1>3, <1>4, Zenon DEF ApprovalInv

LEMMA AskedApproval ==
  ASSUME TypeOK, TypeOK', ApprovalInv, Forward, Attached, NEW p \in Approvals, Asks(p)
  PROVE  ApprovalInv'
<1>1. /\ \A q \in Approvals : q # p => approvals'[q] = approvals[q]
      /\ approvals[p] = NoApproval /\ approvals[p].status # "Consumed"
      /\ approvals'[p].status = "Pending" /\ Exists(approvals'[p].run)
      /\ \A q \in Approvals :
           approvals[q] # NoApproval => approvals[q].action # approvals'[p].action
      /\ UNCHANGED <<runs, actionClaims>>
  BY DEF Asks, OtherApprovals, UnusedAction, NoApproval
<1>2. Founded'
  BY <1>1, FoundedStep, Zenon DEF ApprovalInv
<1>3. ASSUME NEW q \in Approvals PROVE ApprovalAt(q)'
  <2>1. CASE q = p
    BY <1>1, <2>1, Zenon DEF ApprovalAt
  <2> QED
    BY <1>1, <2>1, SameApproval, Zenon DEF ApprovalInv, KeepsClaims
<1>4. \A a \in Actions : BackedAt(a)'
  BY <1>1, SameBacking, Zenon DEF ApprovalInv
<1>5. ASSUME NEW q \in Approvals PROVE ApartAt(p, q)'
  BY <1>1, Zenon DEF ApartAt
<1>6. ASSUME NEW q \in Approvals, NEW s \in Approvals PROVE ApartAt(q, s)'
  <2>1. CASE q = p \/ s = p
    BY <1>5, <2>1, PairsMirror, Zenon
  <2>2. CASE q # p /\ s # p
    BY <1>1, <2>2, SamePair, Zenon DEF ApprovalInv
  <2> QED
    BY <2>1, <2>2, Zenon
<1> QED
  BY <1>2, <1>3, <1>4, <1>6, Zenon DEF ApprovalInv

LEMMA SettledApproval ==
  ASSUME TypeOK, TypeOK', ApprovalInv, Forward, Attached, NEW p \in Approvals, Settles(p)
  PROVE  ApprovalInv'
<1>1. /\ \A q \in Approvals : q # p => approvals'[q] = approvals[q]
      /\ approvals[p] # NoApproval /\ approvals[p].status # "Consumed"
      /\ approvals'[p].status # "Consumed"
      /\ approvals'[p].run = approvals[p].run /\ approvals'[p].action = approvals[p].action
      /\ approvals'[p].status = "Approved" =>
           approvals'[p].created_at <= approvals'[p].decided_at
      /\ UNCHANGED <<runs, actionClaims>>
  BY DEF Settles, OtherApprovals, SameBinding, Approval, NoApproval, ApprovalStatus
<1>2. Founded'
  BY <1>1, FoundedStep, Zenon DEF ApprovalInv
<1>3. ASSUME NEW q \in Approvals PROVE ApprovalAt(q)'
  <2>1. CASE q = p
    BY <1>1, <2>1, Zenon DEF ApprovalAt
  <2> QED
    BY <1>1, <2>1, SameApproval, Zenon DEF ApprovalInv, KeepsClaims
<1>4. \A a \in Actions : BackedAt(a)'
  BY <1>1, SameBacking, Zenon DEF ApprovalInv
<1>5. ASSUME NEW q \in Approvals PROVE ApartAt(p, q)'
  BY <1>1, Zenon DEF ApartAt, ApprovalInv
<1>6. ASSUME NEW q \in Approvals, NEW s \in Approvals PROVE ApartAt(q, s)'
  <2>1. CASE q = p \/ s = p
    BY <1>5, <2>1, PairsMirror, Zenon
  <2>2. CASE q # p /\ s # p
    BY <1>1, <2>2, SamePair, Zenon DEF ApprovalInv
  <2> QED
    BY <2>1, <2>2, Zenon
<1> QED
  BY <1>2, <1>3, <1>4, <1>6, Zenon DEF ApprovalInv

LEMMA ClaimDiffers ==
  ASSUME NEW x, x.claimed_at \in Nat
  PROVE  x # NoClaim
BY DEF NoClaim, NoTime

LEMMA ConsumedApproval ==
  ASSUME TypeOK, TypeOK', ApprovalInv, Forward, Attached, NEW p \in Approvals, NEW now \in Nat,
         Consumes(p, now)
  PROVE  ApprovalInv' /\ KeepsClaims
<1> DEFINE a == approvals[p].action
           r == approvals[p].run
<1>1. /\ \A q \in Approvals : q # p => approvals'[q] = approvals[q]
      /\ approvals[p] # NoApproval /\ a \in Actions /\ r \in Runs /\ approvals[p].window \in Nat
      /\ approvals[p].status = "Approved" /\ approvals'[p].status = "Consumed"
      /\ approvals'[p].run = r /\ approvals'[p].action = a
      /\ approvals'[p].window = approvals[p].window /\ approvals'[p].hash = approvals[p].hash
  <2>1. approvals[p] # NoApproval
    BY DEF Consumes, Approval, NoApproval, ApprovalStatus
  <2>2. a \in Actions /\ r \in Runs /\ approvals[p].window \in Nat
    BY Zenon DEF Consumes, Approval
  <2> QED
    BY <2>1, <2>2, Zenon DEF Consumes, OtherApprovals, SameBinding
<1>2. /\ approvals'[p].created_at = approvals[p].created_at
      /\ approvals'[p].expires_at = approvals[p].expires_at
      /\ approvals'[p].decided_at = approvals[p].decided_at /\ approvals'[p].consumed_at = now
      /\ approvals[p].decided_at <= now /\ now < approvals[p].expires_at
      /\ runs[r].revision = approvals[p].window
      /\ runs'[r].revision = approvals[p].window + 1
      /\ actionClaims[a] = NoClaim
      /\ actionClaims'[a] = [run |-> r, hash |-> approvals[p].hash, claimed_at |-> now]
      /\ \A b \in Actions : b # a => actionClaims'[b] = actionClaims[b]
  BY Zenon DEF Consumes, SameBinding
<1>3. KeepsClaims
  BY <1>2, Zenon DEF KeepsClaims
<1>4. /\ actionClaims'[a] # NoClaim /\ actionClaims'[a].run = r
      /\ actionClaims'[a].hash = approvals[p].hash /\ actionClaims'[a].claimed_at = now
  <2>0. actionClaims'[a] = [run |-> r, hash |-> approvals[p].hash, claimed_at |-> now]
    BY <1>2, Zenon
  <2>1. /\ actionClaims'[a].run = r
        /\ actionClaims'[a].hash = approvals[p].hash /\ actionClaims'[a].claimed_at = now
    BY <2>0
  <2> QED
    BY <2>1, ClaimDiffers, Zenon
<1> HIDE DEF a, r
<1>5. Founded'
  BY <1>1, FoundedStep, Zenon DEF ApprovalInv, r
<1>6. ASSUME NEW q \in Approvals PROVE ApprovalAt(q)'
  <2>1. CASE q = p
    <3>1. approvals[p].created_at <= approvals[p].decided_at
      BY <1>1, Zenon DEF ApprovalInv, ApprovalAt
    <3> QED
      <4>1. approvals[p].window < approvals[p].window + 1
        BY <1>1
      <4>2. ApprovalAt(p)'
        BY <1>1, <1>2, <1>4, <3>1, <4>1, Zenon DEF ApprovalAt
      <4> QED
        BY <2>1, <4>2, Zenon
  <2> QED
    BY <1>1, <1>3, <2>1, SameApproval, Zenon DEF ApprovalInv
<1>7. ASSUME NEW b \in Actions PROVE BackedAt(b)'
  <2>1. CASE b = a
    BY <1>1, <1>2, <1>4, <2>1, Zenon DEF BackedAt, Backs
  <2>2. CASE b # a
    BY <1>1, <1>2, <2>2, SameBacking, Zenon DEF ApprovalInv
  <2> QED
    BY <2>1, <2>2, Zenon
<1>8. ASSUME NEW q \in Approvals, q # p PROVE ApartAt(p, q)'
  <2>1. approvals[q] # NoApproval => approvals[q].action # a
    BY <1>1, <1>8, Zenon DEF ApprovalInv, ApartAt, a
  <2>2. approvals[q].status = "Consumed" /\ approvals[q].run = r =>
          approvals[q].window < approvals[p].window
    BY <1>2, Zenon DEF ApprovalInv, ApprovalAt
  <2>3. approvals[q].status = "Consumed" /\ approvals[q].run = r =>
          approvals[q].window # approvals[p].window
    <3>1. ~(approvals[p].window < approvals[p].window)
      BY <1>1
    <3> QED
      BY <2>2, <3>1, Zenon
  <2> QED
    BY <1>1, <1>8, <2>1, <2>3, Zenon DEF ApartAt
<1>9. ASSUME NEW q \in Approvals, NEW s \in Approvals PROVE ApartAt(q, s)'
  <2>1. CASE q # s /\ (q = p \/ s = p)
    BY <1>8, <2>1, PairsMirror, Zenon
  <2>2. CASE q # p /\ s # p
    BY <1>1, <2>2, SamePair, Zenon DEF ApprovalInv
  <2>3. CASE q = s
    BY <2>3, Zenon DEF ApartAt
  <2> QED
    BY <2>1, <2>2, <2>3, Zenon
<1> QED
  BY <1>3, <1>5, <1>6, <1>7, <1>9, Zenon DEF ApprovalInv

-----------------------------------------------------------------------------
(* Steps keep what the chains say *)

LEMMA GrownAnnounces ==
  ASSUME NEW s, NEW t, NEW paths, Grown(s, t, "ArtifactCreated"), Announces(s, paths)
  PROVE  Announces(t, paths)
<1> DEFINE Of(c) == {i \in DOMAIN c : c[i].type = "ArtifactCreated"}
<1>1. \A i : i \in Of(t) <=> i \in Of(s)
  BY Zenon DEF Grown
<1>2. \A i \in Of(s) : t[i] = s[i]
  BY Zenon DEF Grown
<1>3. /\ paths = {s[i].subject : i \in Of(s)}
      /\ \A i, j \in Of(s) : s[i].subject = s[j].subject => i = j
  BY Zenon DEF Announces
<1> HIDE DEF Of
<1>4. Of(t) = Of(s)
  BY <1>1, Zenon
<1>5. paths = {t[i].subject : i \in Of(t)}
  BY <1>2, <1>3, <1>4
<1>6. \A i, j \in Of(t) : t[i].subject = t[j].subject => i = j
  BY <1>2, <1>3, <1>4, Zenon
<1> QED
  BY <1>5, <1>6, Zenon DEF Announces, Of

(* A chain that only grew still shows what it showed. *)
Extends(s, t) == DOMAIN s \subseteq DOMAIN t /\ \A i \in DOMAIN s : t[i] = s[i]

LEMMA ConsumptionStays ==
  ASSUME NEW s \in Seq(Event), NEW t \in Seq(Event), Extends(s, t), NEW at,
         NEW last \in Nat, last <= Len(s), ConsumedBy(s, at, last)
  PROVE  ConsumedBy(t, at, last)
<1>1. Len(s) \in Nat /\ DOMAIN s = 1..Len(s)
  OBVIOUS
<1>2. \A j \in 1..last : j \in DOMAIN s
  BY <1>1
<1> QED
  BY <1>2, Zenon DEF ConsumedBy, Extends

LEMMA ConsumptionLasts ==
  ASSUME NEW s \in Seq(Event), NEW t \in Seq(Event), Extends(s, t), NEW at,
         ConsumedBy(s, at, Len(s))
  PROVE  ConsumedBy(t, at, Len(t))
<1>1. /\ Len(s) \in Nat /\ DOMAIN s = 1..Len(s) /\ Len(t) \in Nat /\ DOMAIN t = 1..Len(t)
  OBVIOUS
<1>2. \A j \in 1..Len(s) : j \in 1..Len(t) /\ t[j] = s[j]
  BY <1>1, Zenon DEF Extends
<1> QED
  BY <1>2, Zenon DEF ConsumedBy

LEMMA ClaimStaysRecorded ==
  ASSUME TypeOK, TypeOK', NEW a \in Actions, actionClaims[a] # NoClaim, ClaimRecorded(a),
         actionClaims'[a] = actionClaims[a],
         \A r \in Runs : Extends(audits[r], audits'[r])
  PROVE  ClaimRecorded(a)'
<1> DEFINE r == actionClaims[a].run
<1>1. r \in Runs /\ audits[r] \in Seq(Event) /\ audits'[r] \in Seq(Event)
  BY Zenon DEF TypeOK, Claim
<1>2. ConsumedBy(audits[r], actionClaims[a].claimed_at, Len(audits[r]))
  BY Zenon DEF ClaimRecorded
<1>3. ConsumedBy(audits'[r], actionClaims[a].claimed_at, Len(audits'[r]))
  BY <1>1, <1>2, ConsumptionLasts, ZenonT(60)
<1> QED
  BY <1>3, Zenon DEF ClaimRecorded

(* The reports of executions in a chain that grew by none. *)
LEMMA GrownExecutions ==
  ASSUME TypeOK, TypeOK', KeepsClaims, NEW r \in Runs,
         Grown(audits[r], audits'[r], "ActionExecuted"),
         \A i \in DOMAIN audits[r] : ExecutedAt(r, i)
  PROVE  \A i \in DOMAIN audits'[r] : ExecutedAt(r, i)'
<1> SUFFICES ASSUME NEW i \in DOMAIN audits'[r], audits'[r][i].type = "ActionExecuted"
             PROVE  ExecutedAt(r, i)'
  BY Zenon DEF ExecutedAt
<1> DEFINE s == audits[r]
           t == audits'[r]
           a == s[i].subject
<1>1. /\ \A j \in DOMAIN t : t[j].type = "ActionExecuted" => j \in DOMAIN s /\ t[j] = s[j]
      /\ Extends(s, t)
  BY Zenon DEF Grown, Extends
<1>2. i \in DOMAIN s /\ t[i] = s[i] /\ s[i].type = "ActionExecuted"
  BY <1>1, Zenon
<1>3. /\ a \in Actions /\ actionClaims[a] # NoClaim /\ actionClaims[a].run = r
      /\ ConsumedBy(s, actionClaims[a].claimed_at, i - 1)
      /\ \A j \in DOMAIN s : s[j].type = "ActionExecuted" /\ s[j].subject = a => i = j
  BY <1>2, Zenon DEF ExecutedAt
<1>4. s \in Seq(Event) /\ t \in Seq(Event)
  BY Zenon DEF TypeOK
<1>5. i - 1 \in Nat /\ i - 1 <= Len(s)
  BY <1>2, <1>4
<1>6. ConsumedBy(t, actionClaims[a].claimed_at, i - 1)
  BY <1>1, <1>3, <1>4, <1>5, ConsumptionStays, Zenon
<1>7. actionClaims'[a] = actionClaims[a]
  BY <1>3, Zenon DEF KeepsClaims
<1>8. \A j \in DOMAIN t : t[j].type = "ActionExecuted" /\ t[j].subject = a => i = j
  BY <1>1, <1>3, Zenon
<1> QED
  BY <1>2, <1>3, <1>6, <1>7, <1>8, Zenon DEF ExecutedAt

LEMMA QuietRecords ==
  ASSUME TypeOK, TypeOK', RecordInv, KeepsClaims, Quiet
  PROVE  /\ \A r \in Runs : Announces(audits'[r], artifacts'[r])
         /\ \A r \in Runs : \A i \in DOMAIN audits'[r] : ExecutedAt(r, i)'
         /\ \A r \in Runs : Extends(audits[r], audits'[r])
<1>1. ASSUME NEW r \in Runs
      PROVE  /\ Grown(audits[r], audits'[r], "ArtifactCreated")
             /\ Grown(audits[r], audits'[r], "ActionExecuted")
  BY Zenon DEF Quiet, QuietAt, Noted
<1>2. \A r \in Runs : Extends(audits[r], audits'[r])
  BY <1>1, Zenon DEF Grown, Extends
<1>3. \A r \in Runs : Announces(audits'[r], artifacts'[r])
  BY <1>1, GrownAnnounces, Zenon DEF RecordInv, Quiet
<1>4. \A r \in Runs : \A i \in DOMAIN audits'[r] : ExecutedAt(r, i)'
  BY <1>1, GrownExecutions, Zenon DEF RecordInv
<1> QED
  BY <1>2, <1>3, <1>4, Zenon

LEMMA KeptRecords ==
  ASSUME TypeOK, TypeOK', RecordInv, Quiet, UNCHANGED actionClaims
  PROVE  RecordInv'
<1>1. KeepsClaims
  BY Zenon DEF KeepsClaims
<1>2. \A a \in Actions : ClaimRecorded(a)'
  <2>1. ASSUME NEW a \in Actions, actionClaims[a] # NoClaim PROVE ClaimRecorded(a)'
    BY <1>1, <2>1, QuietRecords, ClaimStaysRecorded, Zenon DEF RecordInv
  <2> QED
    BY <2>1, Zenon DEF ClaimRecorded
<1> QED
  BY <1>1, <1>2, QuietRecords, Zenon DEF RecordInv

LEMMA ConsumedRecords ==
  ASSUME TypeOK, TypeOK', RecordInv, Quiet, KeepsClaims, NEW p \in Approvals, NEW now \in Nat,
         Consumes(p, now),
         AppendEvents(approvals[p].run, <<AuditEvent("ApprovalConsumed", now),
                                          AuditEvent("RuntimeStarted", now)>>)
  PROVE  RecordInv'
<1> DEFINE events == <<AuditEvent("ApprovalConsumed", now), AuditEvent("RuntimeStarted", now)>>
           r == approvals[p].run
           n == Len(audits[r])
<1>1. /\ r \in Runs /\ approvals[p].action \in Actions
      /\ actionClaims'[approvals[p].action].run = r
      /\ actionClaims'[approvals[p].action].claimed_at = now
      /\ \A b \in Actions : b # approvals[p].action => actionClaims'[b] = actionClaims[b]
  <2>1. r \in Runs /\ approvals[p].action \in Actions
    BY Zenon DEF Consumes, Approval
  <2>2. actionClaims'[approvals[p].action] =
          [run |-> r, hash |-> approvals[p].hash, claimed_at |-> now]
    BY Zenon DEF Consumes
  <2>3. \A b \in Actions : b # approvals[p].action => actionClaims'[b] = actionClaims[b]
    BY Zenon DEF Consumes
  <2>4. actionClaims'[approvals[p].action].run = r /\ actionClaims'[approvals[p].action].claimed_at = now
    BY <2>2
  <2> QED
    BY <2>1, <2>3, <2>4, Zenon
<1>2. events \in Seq(Event) /\ 1 \in DOMAIN events
  <2>1. "ApprovalConsumed" \in AuditEventType /\ "RuntimeStarted" \in AuditEventType
    BY DEF AuditEventType
  <2> QED
    BY <2>1, AuditEventType_
<1>3. events[1].type = "ApprovalConsumed" /\ events[1].at = now
  BY DEF AuditEvent, SubjectEvent
<1>4. /\ n \in Nat /\ Len(events) \in Nat /\ DOMAIN events = 1..Len(events)
      /\ Len(audits'[r]) = n + Len(events) /\ audits'[r][n + 1] = events[1]
  <2>1. AppendEvents(r, events)
    OBVIOUS
  <2> HIDE DEF events, r
  <2>2. AppendedTo(r, events)
    BY <1>1, <1>2, <2>1, AppendOne, Zenon
  <2> QED
    BY <1>1, <1>2, <2>2, AppendIndex, Zenon
<1>5. n + 1 \in 1..Len(audits'[r])
  BY <1>2, <1>4
<1> HIDE DEF events, n, r
<1>6. ASSUME NEW b \in Actions, b = approvals[p].action PROVE ClaimRecorded(b)'
  BY <1>1, <1>3, <1>4, <1>5, <1>6, Zenon DEF ClaimRecorded, ConsumedBy
<1>7. ASSUME NEW b \in Actions PROVE ClaimRecorded(b)'
  <2>1. CASE b # approvals[p].action /\ actionClaims[b] # NoClaim
    BY <1>1, <2>1, QuietRecords, ClaimStaysRecorded, Zenon DEF RecordInv
  <2>2. CASE b # approvals[p].action /\ actionClaims[b] = NoClaim
    BY <1>1, <2>2, Zenon DEF ClaimRecorded
  <2> QED
    BY <1>6, <2>1, <2>2, Zenon
<1> QED
  BY <1>7, QuietRecords, Zenon DEF RecordInv

(* One event naming an executed action. *)
LEMMA ReportedRecords ==
  ASSUME TypeOK, TypeOK', RecordInv, NEW a \in Actions, NEW r \in Runs, NEW hash \in Hashes,
         NEW now \in Nat, ReconcileActionExecution(a, r, hash, now)
  PROVE  RecordInv'
<1> DEFINE events == <<SubjectEvent("ActionExecuted", now, a)>>
           n == Len(audits[r])
           t == audits'[r]
<1>1. /\ actionClaims[a] # NoClaim /\ actionClaims[a].run = r /\ ~ReceiptWasAudited(r, a)
      /\ AppendEvents(r, events) /\ UNCHANGED <<artifacts, actionClaims>>
  BY Zenon DEF ReconcileActionExecution
<1>2. events \in Seq(Event) /\ DOMAIN events = {1} /\ Len(events) = 1
  BY DEF SubjectEvent, Event, AuditEventType
<1>3. events[1].type = "ActionExecuted" /\ events[1].subject = a
  BY DEF SubjectEvent
<1> HIDE DEF events
<1>4. /\ AppendedTo(r, events) /\ \A q \in Runs : q # r => audits'[q] = audits[q]
  BY <1>1, <1>2, AppendOne, Zenon
<1>5. /\ n \in Nat /\ DOMAIN audits[r] = 1..n /\ DOMAIN events = 1..Len(events)
      /\ Len(events) \in Nat /\ DOMAIN t = 1..(n + Len(events))
      /\ \A i \in 1..n : t[i] = audits[r][i]
      /\ \A i \in DOMAIN events : t[n + i] = events[i]
  BY <1>2, <1>4, AppendIndex, Zenon
<1>6. /\ DOMAIN t = 1..(n + 1) /\ t[n + 1] = events[1]
      /\ \A i \in DOMAIN t : i = n + 1 \/ i \in DOMAIN audits[r]
      /\ n + 1 \in DOMAIN t /\ n + 1 \notin DOMAIN audits[r] /\ (n + 1) - 1 = n
      /\ DOMAIN audits[r] \subseteq DOMAIN t
  BY <1>2, <1>5
<1>7. Extends(audits[r], t) /\ audits[r] \in Seq(Event) /\ t \in Seq(Event)
  BY <1>5, <1>6, Zenon DEF Extends, TypeOK
<1>8. Grown(audits[r], t, "ArtifactCreated")
  BY <1>3, <1>6, <1>7, Zenon DEF Grown, Extends
<1>9. \A q \in Runs : Announces(audits'[q], artifacts'[q])
  BY <1>1, <1>4, <1>8, GrownAnnounces, Zenon DEF RecordInv
<1>10. \A b \in Actions : ClaimRecorded(b)'
  <2>1. \A q \in Runs : Extends(audits[q], audits'[q])
    BY <1>4, <1>7, Zenon DEF Extends
  <2>2. ASSUME NEW b \in Actions, actionClaims[b] # NoClaim PROVE ClaimRecorded(b)'
    BY <1>1, <2>1, <2>2, ClaimStaysRecorded, Zenon DEF RecordInv
  <2> QED
    BY <1>1, <2>2, Zenon DEF ClaimRecorded
<1>11. ASSUME NEW q \in Runs, q # r, NEW i \in DOMAIN audits'[q] PROVE ExecutedAt(q, i)'
  <2>1. audits'[q] = audits[q] /\ actionClaims' = actionClaims
    BY <1>1, <1>4, <1>11, Zenon
  <2>2. ExecutedAt(q, i)
    BY <1>11, <2>1, Zenon DEF RecordInv
  <2> QED
    BY <2>1, <2>2, Zenon DEF ExecutedAt
<1>12. ASSUME NEW i \in DOMAIN t, t[i].type = "ActionExecuted" PROVE ExecutedAt(r, i)'
  <2>1. CASE i = n + 1
    <3>1. ConsumedBy(audits[r], actionClaims[a].claimed_at, n)
      BY <1>1, Zenon DEF RecordInv, ClaimRecorded
    <3>2. ConsumedBy(t, actionClaims[a].claimed_at, n)
      <4>1. n <= Len(audits[r])
        BY <1>5
      <4> HIDE DEF n
      <4> QED
        BY <1>5, <1>7, <3>1, <4>1, ConsumptionStays, Zenon
    <3>3. \A j \in DOMAIN t : t[j].type = "ActionExecuted" /\ t[j].subject = a => i = j
      <4>1. \A j \in DOMAIN audits[r] :
              ~(t[j].type = "ActionExecuted" /\ t[j].subject = a)
        BY <1>1, <1>7, Zenon DEF ReceiptWasAudited, Extends
      <4> HIDE DEF t, n
      <4> QED
        BY <1>6, <2>1, <4>1, Zenon
    <3> QED
      BY <1>1, <1>3, <1>6, <2>1, <3>2, <3>3, ZenonT(60) DEF ExecutedAt
  <2>2. CASE i \in DOMAIN audits[r]
    <3> DEFINE b == audits[r][i].subject
    <3>1. t[i] = audits[r][i] /\ audits[r][i].type = "ActionExecuted"
      BY <1>5, <1>12, <2>2, Zenon
    <3>2. /\ b \in Actions /\ actionClaims[b] # NoClaim /\ actionClaims[b].run = r
          /\ ConsumedBy(audits[r], actionClaims[b].claimed_at, i - 1)
          /\ \A j \in DOMAIN audits[r] :
               audits[r][j].type = "ActionExecuted" /\ audits[r][j].subject = b => i = j
      BY <2>2, <3>1, Zenon DEF RecordInv, ExecutedAt
    <3>3. i - 1 \in Nat /\ i - 1 <= Len(audits[r])
      BY <1>5, <2>2
    <3>4. ConsumedBy(t, actionClaims[b].claimed_at, i - 1)
      BY <1>7, <3>2, <3>3, ConsumptionStays, Zenon
    <3>5. b # a
      BY <1>1, <2>2, <3>1, Zenon DEF ReceiptWasAudited
    <3>6. \A j \in DOMAIN t : t[j].type = "ActionExecuted" /\ t[j].subject = b => i = j
      BY <1>3, <1>5, <1>6, <3>2, <3>5, Zenon
    <3> QED
      BY <1>1, <3>1, <3>2, <3>4, <3>6, Zenon DEF ExecutedAt
  <2> QED
    BY <1>6, <2>1, <2>2, Zenon
<1>13. \A q \in Runs : \A i \in DOMAIN audits'[q] : ExecutedAt(q, i)'
  BY <1>11, <1>12, ZenonT(60) DEF ExecutedAt
<1> QED
  BY <1>9, <1>10, <1>13, Zenon DEF RecordInv

(* Chain t is chain s and the announcements of a batch of new paths, which *)
(* stands at these places.                                                 *)
Delivers(s, t, paths, batch, at) ==
  /\ Extends(s, t)
  /\ \A i, j \in DOMAIN batch : batch[i] = batch[j] => i = j
  /\ \A i \in DOMAIN batch : batch[i] \notin paths
  /\ \A k \in DOMAIN batch : \E i \in DOMAIN t :
       t[i].type = "ArtifactCreated" /\ t[i].subject = batch[k]
  /\ \A i \in DOMAIN t \ DOMAIN s : at[i] \in DOMAIN batch /\ t[i].subject = batch[at[i]]
  /\ \A i, j \in DOMAIN t : at[i] = at[j] => i = j

With(paths, batch) == paths \cup {batch[i] : i \in DOMAIN batch}

LEMMA BatchAnnounced ==
  ASSUME NEW s, NEW t, NEW paths, NEW batch, NEW at, Announces(s, paths),
         Delivers(s, t, paths, batch, at)
  PROVE  Announces(t, With(paths, batch))
<1> USE DEF Delivers, With
<1> DEFINE old == {i \in DOMAIN s : s[i].type = "ArtifactCreated"}
           new == {i \in DOMAIN t : t[i].type = "ArtifactCreated"}
           all == With(paths, batch)
<1>1. /\ paths = {s[i].subject : i \in old}
      /\ \A i, j \in old : s[i].subject = s[j].subject => i = j
  BY Zenon DEF Announces
<1>2. /\ \A i \in old : i \in new /\ t[i] = s[i]
      /\ \A i \in new : i \in old \/ i \in DOMAIN t \ DOMAIN s
  BY Zenon DEF Extends
<1>3. \A k \in DOMAIN batch : \E i \in new : t[i].subject = batch[k]
  BY Zenon
<1>4. \A i \in new : i \in DOMAIN t
  BY Zenon
<1> HIDE DEF old, new
<1>5. \A i \in old : t[i].subject \in paths
  BY <1>1, <1>2
<1>6. ASSUME NEW x \in all PROVE \E i \in new : x = t[i].subject
  <2>1. CASE x \in paths
    BY <1>1, <1>2, <2>1
  <2>2. CASE \E k \in DOMAIN batch : x = batch[k]
    BY <1>3, <2>2
  <2> QED
    BY <1>6, <2>1, <2>2, Zenon
<1>7. ASSUME NEW i \in new PROVE t[i].subject \in all
  BY <1>2, <1>5
<1>8. ASSUME NEW i \in new, NEW j \in new, t[i].subject = t[j].subject PROVE i = j
  <2>1. CASE i \in old /\ j \in old
    BY <1>1, <1>2, <1>8, <2>1
  <2>2. CASE i \in DOMAIN t \ DOMAIN s /\ j \in DOMAIN t \ DOMAIN s
    BY <1>8, <2>2
  <2>3. CASE i \in old /\ j \in DOMAIN t \ DOMAIN s
    BY <1>5, <1>8, <2>3
  <2>4. CASE i \in DOMAIN t \ DOMAIN s /\ j \in old
    BY <1>5, <1>8, <2>4
  <2> QED
    BY <1>2, <2>1, <2>2, <2>3, <2>4, Zenon
<1>9. all = {t[i].subject : i \in new}
  BY <1>6, <1>7
<1> QED
  BY <1>8, <1>9, Zenon DEF Announces, new

(* A batch of artifacts. *)
LEMMA BatchRecords ==
  ASSUME TypeOK, TypeOK', RecordInv, NEW now \in Nat, NEW r \in Runs, NEW batch \in Batches,
         WriteArtifacts(r, batch, now), UNCHANGED actionClaims
  PROVE  RecordInv'
<1> DEFINE events == [i \in DOMAIN batch |-> SubjectEvent("ArtifactCreated", now, batch[i])]
           n == Len(audits[r])
           s == audits[r]
           t == audits'[r]
<1>1. /\ \A i, j \in DOMAIN batch : batch[i] = batch[j] => i = j
      /\ \A i \in DOMAIN batch : batch[i] \notin artifacts[r]
      /\ AppendEvents(r, events)
  BY Zenon DEF WriteArtifacts, ValidArtifactBatch
<1>2. batch \in Seq(Paths)
  BY RunStoreAssumption DEF RunStoreAssumption
<1>3. /\ events \in Seq(Event) /\ DOMAIN events = DOMAIN batch
  BY <1>2, ArtifactEvents, Zenon
<1>4. \A i \in DOMAIN batch : events[i].type = "ArtifactCreated" /\ events[i].subject = batch[i]
  BY DEF SubjectEvent
<1>5. /\ artifacts'[r] = With(artifacts[r], batch)
      /\ \A q \in Runs : q # r => artifacts'[q] = artifacts[q]
  BY Zenon DEF WriteArtifacts, TypeOK, With
<1> HIDE DEF events
<1>6. AppendedTo(r, events) /\ \A q \in Runs : q # r => audits'[q] = audits[q]
  BY <1>1, <1>3, AppendOne, Zenon
<1>7. /\ n \in Nat /\ DOMAIN s = 1..n /\ DOMAIN events = 1..Len(events)
      /\ Len(events) \in Nat /\ DOMAIN t = 1..(n + Len(events))
      /\ \A i \in 1..n : t[i] = s[i]
      /\ \A i \in DOMAIN events : t[n + i] = events[i]
      /\ \A i \in DOMAIN t : i > n => i - n \in DOMAIN events /\ t[i] = events[i - n]
  BY <1>3, <1>6, AppendIndex, Zenon
<1>8. /\ DOMAIN s \subseteq DOMAIN t
      /\ \A i \in DOMAIN batch : n + i \in DOMAIN t /\ n + i \notin DOMAIN s
      /\ \A i \in DOMAIN t : i \in DOMAIN s \/ i > n
      /\ \A i, j \in DOMAIN t : i - n = j - n => i = j
  BY <1>3, <1>7
<1>9. Extends(s, t)
  BY <1>7, <1>8, Zenon DEF Extends
<1> DEFINE at == [i \in DOMAIN t |-> i - n]
<1>10. \A i \in DOMAIN t \ DOMAIN s :
         /\ at[i] \in DOMAIN batch /\ t[i].subject = batch[at[i]]
         /\ t[i].type = "ArtifactCreated"
  <2>1. \A i \in DOMAIN t \ DOMAIN s : i > n /\ at[i] = i - n
    BY <1>8, Zenon
  <2>2. \A i \in DOMAIN t \ DOMAIN s : i - n \in DOMAIN batch /\ t[i] = events[i - n]
    BY <1>3, <1>7, <2>1, Zenon
  <2> QED
    BY <1>4, <2>1, <2>2, ZenonT(60)
<1>11. \A k \in DOMAIN batch : \E i \in DOMAIN t :
         t[i].type = "ArtifactCreated" /\ t[i].subject = batch[k]
  <2>1. \A k \in DOMAIN batch : n + k \in DOMAIN t /\ t[n + k] = events[k]
    BY <1>3, <1>7, <1>8, Zenon
  <2> QED
    BY <1>4, <2>1, Zenon
<1>12. \A i, j \in DOMAIN t : at[i] = at[j] => i = j
  BY <1>8, Zenon
<1>13. Announces(s, artifacts[r])
  BY Zenon DEF RecordInv
<1> HIDE DEF at, s, t
<1>14. Announces(t, artifacts'[r])
  <2>1. Delivers(s, t, artifacts[r], batch, at)
    BY <1>1, <1>9, <1>10, <1>11, <1>12, Zenon DEF Delivers
  <2>2. Announces(t, With(artifacts[r], batch))
    BY <1>13, <2>1, BatchAnnounced, Zenon
  <2> QED
    BY <1>5, <2>2, Zenon
<1> USE DEF s, t
<1>15. Grown(s, t, "ActionExecuted")
  BY <1>9, <1>10, Zenon DEF Grown, Extends
<1>16. \A q \in Runs : Grown(audits[q], audits'[q], "ActionExecuted")
  BY <1>6, <1>15, Zenon DEF Grown
<1>17. \A q \in Runs : Extends(audits[q], audits'[q])
  BY <1>16, Zenon DEF Grown, Extends
<1>18. \A q \in Runs : Announces(audits'[q], artifacts'[q])
  BY <1>5, <1>6, <1>14, Zenon DEF RecordInv
<1>19. \A q \in Runs : \A i \in DOMAIN audits'[q] : ExecutedAt(q, i)'
  BY <1>16, GrownExecutions, Zenon DEF RecordInv, KeepsClaims
<1>20. ASSUME NEW a \in Actions, actionClaims[a] # NoClaim PROVE ClaimRecorded(a)'
  BY <1>17, <1>20, ClaimStaysRecorded, Zenon DEF RecordInv
<1>21. \A a \in Actions : ClaimRecorded(a)'
  BY <1>20, Zenon DEF ClaimRecorded
<1> QED
  BY <1>18, <1>19, <1>21, Zenon DEF RecordInv

-----------------------------------------------------------------------------
(* Every step *)

LedgerInv == ApprovalInv /\ RecordInv

LEMMA QuietAttached ==
  ASSUME Quiet, Forward
  PROVE  Attached
BY Zenon DEF Quiet, QuietAt, Forward, Attached

LEMMA QuietStep ==
  ASSUME TypeOK, TypeOK', LedgerInv, Forward, Quiet, UNCHANGED <<approvals, actionClaims>>
  PROVE  LedgerInv'
BY QuietAttached, KeptApprovals, KeptRecords, Zenon DEF LedgerInv

LEMMA RecordsStep ==
  ASSUME TypeOK, TypeOK', LedgerInv, Forward, NEW now \in Nat, Records(now)
  PROVE  LedgerInv'
<1>1. PICK r \in Runs, batch \in Batches : Exists(r) /\ WriteArtifacts(r, batch, now)
  BY Zenon DEF Records
<1>2. UNCHANGED <<approvals, actionClaims>>
  BY Zenon DEF Records
<1>3. \A q \in Runs : q # r => audits'[q] = audits[q]
  BY <1>1, Zenon DEF WriteArtifacts, AppendEvents, TypeOK
<1>4. Attached
  BY <1>1, <1>3, Zenon DEF Attached, Forward
<1> QED
  BY <1>1, <1>2, <1>4, KeptApprovals, BatchRecords, Zenon DEF LedgerInv

LEMMA ReportStep ==
  ASSUME TypeOK, TypeOK', LedgerInv, Forward, NEW now \in Nat, NEW a \in Actions,
         NEW r \in Runs, NEW hash \in Hashes, ReconcileActionExecution(a, r, hash, now)
  PROVE  LedgerInv'
<1>1. Exists(r) /\ UNCHANGED <<approvals, actionClaims>>
  BY Zenon DEF ReconcileActionExecution, RejectUnboundLeasedWrite
<1>2. \A q \in Runs : q # r => audits'[q] = audits[q]
  BY Zenon DEF ReconcileActionExecution, AppendEvents, TypeOK
<1>3. Attached
  BY <1>1, <1>2, Zenon DEF Attached, Forward
<1> QED
  BY <1>1, <1>3, KeptApprovals, ReportedRecords, Zenon DEF LedgerInv

(* A consumption with the wrong action only leaves a note. *)
LEMMA MismatchIsQuiet ==
  ASSUME TypeOK, Founded, NEW now \in Nat, NEW p \in Approvals, NEW action \in ActionRequest,
         ConsumeMismatched(p, action, now)
  PROVE  Quiet /\ UNCHANGED <<approvals, actionClaims>>
<1>1. /\ approvals[p].status = "Approved" /\ UNCHANGED <<artifacts, approvals, actionClaims>>
      /\ AppendEvents(approvals[p].run, <<AuditEvent("ApprovalBindingMismatch", now)>>)
  BY Zenon DEF ConsumeMismatched
<1>2. approvals[p] \in Approval /\ approvals[p] # NoApproval
  BY <1>1, PresentApproval DEF NoApproval
<1>3. approvals[p].run \in Runs /\ Exists(approvals[p].run)
  BY <1>2 DEF Approval, Founded
<1>4. "ApprovalBindingMismatch" \in AuditEventType /\ "ApprovalBindingMismatch" \notin Noted
  BY DEF AuditEventType, Noted
<1> QED
  BY <1>1, <1>3, <1>4, NotesQuietly, Zenon DEF Quiet

LEMMA LedgerInvStep ==
  ASSUME TypeOK, TypeOK', QueueInv, LedgerInv, Next
  PROVE  LedgerInv'
<1>1. PICK now \in Time : RunStep(now) \/ LeaseStep(now) \/ ApprovalStep(now)
  BY Zenon DEF Next
<1>2. now \in Nat /\ Forward /\ Founded /\ LeaseOwnsActiveRun /\ ApprovalInv /\ RecordInv
  BY TimeIsNat, RunsForward, Zenon DEF LedgerInv, ApprovalInv, QueueInv
<1>3. CASE RunStep(now)
  BY <1>2, <1>3, RunStepNotes, QuietStep, RecordsStep, Zenon
<1>4. CASE LeaseStep(now)
  BY <1>2, <1>4, LeaseStepNotes, QuietStep, RecordsStep, Zenon
<1>5. ASSUME NEW p \in Approvals, NEW r \in Runs, NEW a \in Actions, NEW hash \in Hashes,
             NEW ttl \in ApprovalTTLs, CreateApproval(p, r, a, hash, now, ttl)
      PROVE  LedgerInv'
  <2>1. Asks(p) /\ Quiet /\ UNCHANGED actionClaims
    BY <1>5, AsksFacts, Zenon DEF Asks
  <2> QED
    BY <1>2, <2>1, QuietAttached, AskedApproval, KeptRecords, Zenon DEF LedgerInv
<1>6. ASSUME NEW p \in Approvals,
             \/ \E decision \in {"Approved", "Denied"} : DecideApproval(p, decision, now)
             \/ ExpireApproval(p, now)
      PROVE  LedgerInv'
  <2>1. Settles(p) /\ Quiet /\ UNCHANGED actionClaims
    BY <1>2, <1>6, SettlesFacts, Zenon DEF Settles
  <2> QED
    BY <1>2, <2>1, QuietAttached, SettledApproval, KeptRecords, Zenon DEF LedgerInv
<1>7. ASSUME NEW p \in Approvals, NEW action \in ActionRequest, ConsumeMismatched(p, action, now)
      PROVE  LedgerInv'
  BY <1>2, <1>7, MismatchIsQuiet, QuietStep, Zenon
<1>8. ASSUME NEW p \in Approvals, NEW action \in ActionRequest, ConsumeApproval(p, action, now)
      PROVE  LedgerInv'
  <2>1. /\ Consumes(p, now) /\ Quiet
        /\ AppendEvents(approvals[p].run, <<AuditEvent("ApprovalConsumed", now),
                                            AuditEvent("RuntimeStarted", now)>>)
    BY <1>2, <1>8, ConsumesFacts, Zenon
  <2>2. ApprovalInv' /\ KeepsClaims
    BY <1>2, <2>1, QuietAttached, ConsumedApproval, Zenon
  <2>3. RecordInv'
    BY <1>2, <2>1, <2>2, ConsumedRecords, Zenon
  <2> QED
    BY <2>2, <2>3, Zenon DEF LedgerInv
<1>9. ASSUME NEW a \in Actions, NEW r \in Runs, NEW hash \in Hashes,
             ReconcileActionExecution(a, r, hash, now)
      PROVE  LedgerInv'
  BY <1>2, <1>9, ReportStep, Zenon
<1> QED
  BY <1>1, <1>3, <1>4, <1>5, <1>6, <1>7, <1>8, <1>9, Zenon DEF ApprovalStep

(* LedgerInv holds of every reachable state. *)
THEOREM LedgerCorrect == Spec => []LedgerInv
<1>1. Init => LedgerInv
  <2> SUFFICES ASSUME Init PROVE LedgerInv
    OBVIOUS
  <2>1. /\ \A r \in Runs : audits[r] = <<>> /\ artifacts[r] = {} /\ DOMAIN audits[r] = {}
        /\ \A p \in Approvals : approvals[p] = NoApproval
        /\ \A a \in Actions : actionClaims[a] = NoClaim
    BY DEF Init
  <2>2. \A p \in Approvals : approvals[p].status \notin {"Approved", "Consumed"}
    BY <2>1 DEF NoApproval
  <2>3. ApprovalInv
    BY <2>1, <2>2, Zenon DEF ApprovalInv, Founded, ApprovalAt, BackedAt, ApartAt
  <2>4. \A r \in Runs : Announces(audits[r], artifacts[r])
    BY <2>1, Zenon DEF Announces
  <2>5. RecordInv
    BY <2>1, <2>4, Zenon DEF RecordInv, ClaimRecorded
  <2> QED
    BY <2>3, <2>5, Zenon DEF LedgerInv
<1>2. TypeOK /\ TypeOK' /\ QueueInv /\ LedgerInv /\ [Next]_vars => LedgerInv'
  <2> SUFFICES ASSUME TypeOK, TypeOK', QueueInv, LedgerInv, [Next]_vars
               PROVE  LedgerInv'
    OBVIOUS
  <2>1. CASE Next
    BY <2>1, LedgerInvStep, Zenon
  <2>2. CASE UNCHANGED vars
    <3>1. Quiet /\ Forward /\ UNCHANGED <<approvals, actionClaims>>
      <4>1. UNCHANGED <<runs, audits, artifacts, approvals, actionClaims>>
        BY <2>2, Zenon DEF vars
      <4>2. \A r \in Runs : runs[r].revision <= runs[r].revision
        BY DEF TypeOK, Run
      <4>3. Forward
        BY <4>1, <4>2, Zenon DEF Forward, Exists
      <4> QED
        BY <4>1, <4>3, SameIsQuiet, Zenon DEF Quiet
    <3> QED
      BY <3>1, QuietStep, Zenon
  <2> QED
    BY <2>1, <2>2, Zenon
<1> QED
  BY <1>1, <1>2, TypeCorrect, QueueCorrect, PTL DEF Spec

(* An action is claimed exactly when an approval for it was consumed in    *)
(* time, in every store: consume_approval is the only way to a claim.      *)
THEOREM ClaimsAreApproved == Spec => []ClaimIsApproved
<1>1. LedgerInv => ClaimIsApproved
  BY Zenon DEF LedgerInv, ApprovalInv, ApprovalAt, BackedAt, Backs, ApartAt, ClaimIsApproved
<1> QED
  BY <1>1, LedgerCorrect, PTL

(* One pause of a run releases at most one action, however many approvals  *)
(* were asked for in its window (consume_approval moves the run on).       *)
THEOREM WindowsAreUsedOnce == Spec => []OneConsumptionPerWindow
<1>1. LedgerInv => OneConsumptionPerWindow
  BY Zenon DEF LedgerInv, ApprovalInv, ApartAt, OneConsumptionPerWindow
<1> QED
  BY <1>1, LedgerCorrect, PTL

(* The artifacts of a run are the ones its chain announces, each once,     *)
(* whatever batches callers and workers record (validate_artifact_batch).  *)
THEOREM ArtifactsAreAudited == Spec => []ArtifactsMatchAudit
<1>1. LedgerInv => ArtifactsMatchAudit
  BY Zenon DEF LedgerInv, RecordInv, Announces, ArtifactsMatchAudit
<1> QED
  BY <1>1, LedgerCorrect, PTL

(* A reported execution is audited once, by the run that holds the claim,  *)
(* after the consumption, however often reconcile_action_execution is      *)
(* retried.                                                                *)
THEOREM ExecutionsAreAuditedOnce == Spec => []ExecutionAuditedOnce
<1>1. ASSUME LedgerInv PROVE ExecutionAuditedOnce
  <2>1. \A r \in Runs : \A i \in DOMAIN audits[r] : ExecutedAt(r, i)
    BY <1>1, Zenon DEF LedgerInv, RecordInv
  <2> QED
    BY <2>1, ZenonT(60) DEF ExecutedAt, ConsumedBy, ExecutionAuditedOnce
<1> QED
  BY <1>1, LedgerCorrect, PTL
=============================================================================
