---------------------------- MODULE HostProofs ------------------------------
(***************************************************************************)
(* What holds of the programs on the host, for every set of processes,     *)
(* runtimes, connectors and apps, and every number of failing calls and    *)
(* crashes: an install that fails cleanly leaves nothing, two installers   *)
(* never run side by side, and what was completed is in the lockfile; the  *)
(* tools of a connector are answered from a fresh cache; a damaged document*)
(* of local apps is never overwritten.                                     *)
(***************************************************************************)
EXTENDS Install, Connectors, LocalApps, TLAPS

-----------------------------------------------------------------------------
(* The installer: what the plans look like. *)

PlanOf(job) == IF job.runtime \in Planned
               THEN managed_runtime_plan(job.runtime) ELSE dry_run_plan

(* No script lies on the way to d. *)
Clear(d) == /\ d \in Paths
            /\ \A r \in Planned : Script[r] \notin Range(Chain[d])

DirectoryAt(job, k) ==
  LET plan == PlanOf(job)
  IN /\ plan[k].action = "CreateDirectory" /\ Clear(plan[k].path)
     /\ job.runtime \in Planned => k < Len(plan) - 1

DownloadAt(job, k) ==
  LET plan == PlanOf(job)
  IN /\ job.runtime \in Planned /\ k = Len(plan) - 1
     /\ plan[k].action = "Download" /\ plan[k].path = Script[job.runtime]

CommandAt(job, k) ==
  LET plan == PlanOf(job)
  IN job.runtime \in Planned /\ k = Len(plan) /\ plan[k].action = "RunCommand"

LEMMA FunctionIsSeq ==
  ASSUME NEW S, NEW n \in Nat, NEW f \in [1..n -> S]
  PROVE  f \in Seq(S) /\ Len(f) = n
OBVIOUS

LEMMA Joined ==
  ASSUME NEW S, NEW s \in Seq(S), NEW t \in Seq(S)
  PROVE  /\ s \o t \in Seq(S) /\ Len(s \o t) = Len(s) + Len(t)
         /\ \A k \in 1..Len(s \o t) : (s \o t)[k] = IF k <= Len(s) THEN s[k] ELSE t[k - Len(s)]
OBVIOUS

LEMMA Beyond ==
  ASSUME NEW k \in Int, NEW n \in Nat, NEW m, m = 0 \/ m = 1, NEW l, l = n + m, k > n, k <= l
  PROVE  k = n + 1 /\ m = 1 /\ k - n = 1 /\ k \in 1..l /\ ~(k <= n)
OBVIOUS

LEMMA DryRun ==
  /\ dry_run_plan \in Seq([action : {"CreateDirectory"}, path : Paths])
  /\ \A k \in DOMAIN dry_run_plan : dry_run_plan[k].action = "CreateDirectory"
                                    /\ Clear(dry_run_plan[k].path)
<1>1. Dirs \in Seq(Paths) /\ DOMAIN Dirs = 1..Len(Dirs) /\ Len(Dirs) \in Nat
  BY InstallAssumption DEF Paths
<1>2. \A k \in DOMAIN Dirs : Dirs[k] \in Paths
  BY <1>1
<1>3. \A k \in DOMAIN Dirs, r \in Planned : Script[r] \notin Range(Chain[Dirs[k]])
  BY InstallAssumption, Zenon
<1>4. dry_run_plan \in [1..Len(Dirs) -> [action : {"CreateDirectory"}, path : Paths]]
  BY <1>1, <1>2 DEF dry_run_plan
<1>5. \A k \in DOMAIN dry_run_plan : k \in DOMAIN Dirs /\ dry_run_plan[k].action = "CreateDirectory"
                                     /\ dry_run_plan[k].path = Dirs[k]
  BY DEF dry_run_plan
<1>6. \A k \in DOMAIN dry_run_plan : Clear(dry_run_plan[k].path)
  BY <1>2, <1>3, <1>5, Zenon DEF Clear
<1>7. dry_run_plan \in Seq([action : {"CreateDirectory"}, path : Paths])
  BY <1>1, <1>4, FunctionIsSeq, Zenon
<1> QED
  BY <1>5, <1>6, <1>7, Zenon

LEMMA PlanShape ==
  ASSUME NEW job
  PROVE  /\ Len(PlanOf(job)) \in Nat
         /\ job.runtime \in Planned => Len(PlanOf(job)) > 1
         /\ \A k \in 1..Len(PlanOf(job)) :
              DirectoryAt(job, k) \/ DownloadAt(job, k) \/ CommandAt(job, k)
<1>1. CASE job.runtime \notin Planned
  <2>1. PlanOf(job) = dry_run_plan
    BY <1>1, Zenon DEF PlanOf
  <2>2. Len(dry_run_plan) \in Nat /\ DOMAIN dry_run_plan = 1..Len(dry_run_plan)
    BY DryRun
  <2>3. \A k \in 1..Len(PlanOf(job)) : DirectoryAt(job, k)
    BY <1>1, <2>1, <2>2, DryRun, Zenon DEF DirectoryAt
  <2> QED
    BY <1>1, <2>1, <2>2, <2>3, Zenon
<1>2. CASE job.runtime \in Planned
  <2> DEFINE r == job.runtime
             x == Script[r]
             Step == [action : {"CreateDirectory", "Download", "RunCommand"}, path : Paths]
             made == [action |-> "CreateDirectory", path |-> Parent(x)]
             mid == IF Parent(x) \in Range(Dirs) THEN <<>> ELSE << made >>
             end == << [action |-> "Download", path |-> x], [action |-> "RunCommand", path |-> x] >>
  <2>1. PlanOf(job) = dry_run_plan \o mid \o end
    BY <1>2, Zenon DEF PlanOf, managed_runtime_plan, install_plan
  <2>2. x \in Paths /\ Chain[x] \in Seq(Paths) /\ Len(Chain[x]) > 1
    BY <1>2, InstallAssumption, Zenon DEF Paths
  <2>3. Parent(x) \in Paths
    BY <2>2 DEF Parent
  <2>4. \A q \in Planned : Script[q] \notin Range(Chain[Parent(x)])
    BY <1>2, InstallAssumption, Zenon DEF Parent
  <2>5. Clear(Parent(x))
    BY <2>3, <2>4, Zenon DEF Clear
  <2>6. /\ mid \in Seq(Step) /\ Len(mid) \in {0, 1} /\ (Len(mid) = 1 => mid[1] = made)
        /\ end \in Seq(Step) /\ Len(end) = 2
        /\ end[1].action = "Download" /\ end[1].path = x /\ end[2].action = "RunCommand"
        /\ made.action = "CreateDirectory" /\ made.path = Parent(x)
    <3>1. made \in Step /\ made.action = "CreateDirectory" /\ made.path = Parent(x)
      BY <2>3
    <3>2. /\ end \in Seq(Step) /\ Len(end) = 2
          /\ end[1].action = "Download" /\ end[1].path = x /\ end[2].action = "RunCommand"
      BY <2>2
    <3>3. mid = <<>> \/ mid = << made >>
      BY Zenon
    <3> HIDE DEF made, mid, Step
    <3>4. mid \in Seq(Step) /\ Len(mid) \in {0, 1} /\ (Len(mid) = 1 => mid[1] = made)
      <4>1. CASE mid = <<>>
        BY <4>1
      <4>2. CASE mid = << made >>
        BY <3>1, <4>2
      <4> QED
        BY <3>3, <4>1, <4>2, Zenon
    <3> QED
      BY <3>1, <3>2, <3>4, Zenon
  <2>7. dry_run_plan \in Seq(Step) /\ DOMAIN dry_run_plan = 1..Len(dry_run_plan)
        /\ Len(dry_run_plan) \in Nat
    <3> DEFINE Made == [action : {"CreateDirectory"}, path : Paths]
    <3>1. \A s : s \in Made => s \in Step
      OBVIOUS
    <3>2. dry_run_plan \in Seq(Made)
      BY DryRun
    <3> HIDE DEF Made, Step
    <3> QED
      BY <3>1, <3>2
  <2> HIDE DEF x, made, mid, end, Step
  <2> DEFINE plan == PlanOf(job)
             n == Len(dry_run_plan)
  <2>8. /\ Len(plan) = n + Len(mid) + 2
        /\ \A k \in 1..Len(plan) :
             \/ k \in 1..n /\ plan[k] = dry_run_plan[k]
             \/ k = n + 1 /\ Len(mid) = 1 /\ plan[k] = mid[1]
             \/ k = Len(plan) - 1 /\ plan[k] = end[1]
             \/ k = Len(plan) /\ plan[k] = end[2]
    <3> DEFINE first == dry_run_plan \o mid
    <3>1. first \in Seq(Step) /\ Len(first) = n + Len(mid)
          /\ \A k \in 1..Len(first) : first[k] = IF k <= n THEN dry_run_plan[k] ELSE mid[k - n]
      BY <2>6, <2>7, Joined, Zenon
    <3> HIDE DEF first
    <3>2. plan = first \o end
      BY <2>1, Zenon DEF first
    <3> HIDE DEF plan
    <3>3. plan \in Seq(Step) /\ Len(plan) = Len(first) + 2
          /\ \A k \in 1..Len(plan) : plan[k] = IF k <= Len(first) THEN first[k]
                                               ELSE end[k - Len(first)]
      <4> DEFINE all == first \o end
      <4>1. /\ all \in Seq(Step) /\ Len(all) = Len(first) + Len(end)
            /\ \A k \in 1..Len(all) : all[k] = IF k <= Len(first) THEN first[k]
                                               ELSE end[k - Len(first)]
        <5>1. first \in Seq(Step) /\ end \in Seq(Step)
          BY <2>6, <3>1, Zenon
        <5> QED
          BY <5>1, Joined, Zenon
      <4> HIDE DEF all
      <4> QED
        BY <2>6, <3>2, <4>1, Zenon DEF all
    <3> HIDE DEF n
    <3>4. n \in Nat /\ Len(mid) \in {0, 1}
      BY <2>6, <2>7, Zenon DEF n
    <3>5. ASSUME NEW k \in 1..Len(plan)
          PROVE  \/ k \in 1..n /\ plan[k] = dry_run_plan[k]
                 \/ k = n + 1 /\ Len(mid) = 1 /\ plan[k] = mid[1]
                 \/ k = Len(plan) - 1 /\ plan[k] = end[1]
                 \/ k = Len(plan) /\ plan[k] = end[2]
      <4>1. CASE k <= n
        BY <3>1, <3>3, <3>4, <4>1
      <4>2. CASE k > n /\ k <= Len(first)
        <5>1. k = n + 1 /\ Len(mid) = 1 /\ k - n = 1 /\ k \in 1..Len(first) /\ ~(k <= n)
          <6>1. k \in Int
            OBVIOUS
          <6>2. Len(first) = n + Len(mid) /\ n \in Nat /\ (Len(mid) = 0 \/ Len(mid) = 1)
            BY <3>1, <3>4, Zenon
          <6> QED
            BY <4>2, <6>1, <6>2, Beyond, Zenon
        <5> QED
          BY <3>1, <3>3, <4>2, <5>1, Zenon
      <4>3. CASE k > Len(first)
        <5>1. \/ k = Len(plan) - 1 /\ k - Len(first) = 1
              \/ k = Len(plan) /\ k - Len(first) = 2
          BY <3>1, <3>3, <3>4, <4>3
        <5>2. ~(k <= Len(first))
          <6>1. k \in Int /\ Len(first) \in Int /\ k > Len(first)
            BY <3>1, <3>4, <4>3
          <6> QED
            BY <6>1
        <5>3. plan[k] = end[k - Len(first)]
          BY <3>3, <5>2, Zenon
        <5> QED
          BY <5>1, <5>3, Zenon
      <4> QED
        BY <3>1, <3>3, <3>4, <4>1, <4>2, <4>3
    <3>6. Len(plan) = n + Len(mid) + 2
      BY <3>1, <3>3, <3>4
    <3> QED
      BY <3>5, <3>6, Zenon
  <2> HIDE DEF plan
  <2>9. ASSUME NEW k \in 1..Len(plan)
        PROVE  DirectoryAt(job, k) \/ DownloadAt(job, k) \/ CommandAt(job, k)
    <3>1. CASE k \in 1..n /\ plan[k] = dry_run_plan[k]
      <4>1. k < Len(plan) - 1
        BY <2>6, <2>7, <2>8, <3>1
      <4> QED
        BY <2>7, <3>1, <4>1, DryRun, Zenon DEF DirectoryAt, plan
    <3>2. CASE k = n + 1 /\ Len(mid) = 1 /\ plan[k] = mid[1]
      <4>1. k < Len(plan) - 1
        BY <2>6, <2>7, <2>8, <3>2
      <4> QED
        BY <2>5, <2>6, <3>2, <4>1, Zenon DEF DirectoryAt, plan
    <3>3. CASE k = Len(plan) - 1 /\ plan[k] = end[1]
      BY <1>2, <2>6, <3>3, Zenon DEF DownloadAt, plan, x
    <3>4. CASE k = Len(plan) /\ plan[k] = end[2]
      BY <1>2, <2>6, <3>4, Zenon DEF CommandAt, plan
    <3> QED
      BY <2>8, <3>1, <3>2, <3>3, <3>4, Zenon
  <2>10. Len(plan) \in Nat /\ Len(plan) > 1
    BY <2>6, <2>7, <2>8
  <2> QED
    BY <2>9, <2>10, Zenon DEF plan
<1> QED
  BY <1>1, <1>2, Zenon


(* The walk ends at an ancestor or at the root, so what is missing is the  *)
(* rest of the chain.                                                      *)
LEMMA GapInChain ==
  ASSUME NEW S, NEW chain \in Seq(S), NEW gap \in Gaps(chain)
  PROVE  gap \in Seq(S) /\ \A x \in Range(gap) : x \in Range(chain)
<1>1. PICK k \in 0..Len(chain) : gap = SubSeq(chain, k + 1, Len(chain))
  BY Zenon DEF Gaps, Nearest
<1>2. /\ gap \in Seq(S)
      /\ \A j \in DOMAIN gap : k + j \in DOMAIN chain /\ gap[j] = chain[k + j]
  BY <1>1
<1> QED
  BY <1>2, Zenon DEF Range

-----------------------------------------------------------------------------
(* The inductive invariant of the installer. *)

Fields == {"pc", "job", "step", "undo", "missing", "tried", "warned", "stop", "digest",
           "passed", "held", "entry", "blank", "report", "draft"}

NoScript(s) == \A r \in Planned : Script[r] \notin Range(s)

(* Where a process is in its plan. *)
PlaceInv(i) ==
  /\ i.pc = "Make" => i.step <= Len(PlanOf(i.job)) /\ DirectoryAt(i.job, i.step)
  /\ i.pc \in {"Send", "Stream", "Publish"} =>
       i.step <= Len(PlanOf(i.job)) /\ DownloadAt(i.job, i.step)
  /\ i.pc \in {"Command", "Drain"} => i.step <= Len(PlanOf(i.job)) /\ CommandAt(i.job, i.step)
  /\ i.pc \in {"Open", "Wait", "Read", "Replace"} => i.step > Len(PlanOf(i.job))

(* What a process keeps to itself. *)
RecordInv(p, i) ==
  /\ DOMAIN i = Fields
  /\ i.step \in Nat \ {0} /\ i.undo \in Seq(Paths) /\ i.missing \in Seq(Paths)
  /\ NoScript(i.missing)
  /\ PlaceInv(i)
  /\ i.report # "None" => i.pc = "Done"
  /\ i.pc = "Idle" => i = Idle
  /\ i.pc # "Idle" /\ (i.pc = "Done" => i.report = "Completed") =>
       i.job.runtime \in Planned \union {"None"}
  /\ i.pc \in {"Open", "Wait", "Read", "Replace"} /\ i.job.runtime # "None" => i.entry.by = p

(* A process past its download, which will run the script, has run it, or  *)
(* has reported that it completed.                                         *)
Past(i) ==
  /\ i.job.runtime \in Planned
  /\ \/ i.report = "Completed"
     \/ i.pc \notin {"Idle", "Done", "Crashed", "Rollback"} /\ i.step >= Len(PlanOf(i.job))

Mine(p, x) == Exists(x) /\ by[x] = p

(* What a process made and recorded is in its rollback list until it ends. *)
TraceInv(p, i) ==
  \A x \in Paths : Mine(p, x) /\ x \notin stray =>
    \/ i.report = "None" /\ (x \in Range(i.undo) \/ i.warned)
    \/ i.pc = "Crashed" \/ i.report \notin {"None", "Failed"}

(* A script belongs to the process that published it until that process    *)
(* removes it.                                                             *)
ScriptInv(p, i) ==
  /\ Past(i) => Mine(p, Script[i.job.runtime])
  /\ \A r \in Planned : Script[r] \in Range(i.undo) => Mine(p, Script[r])
  /\ \A r \in Planned, j, k \in DOMAIN i.undo :
       i.undo[j] = Script[r] /\ i.undo[k] = Script[r] => j = k

(* The lock, the document, and the one about to replace it. *)
DocumentInv(p, i) ==
  /\ i.pc \in {"Read", "Replace"} => holder = p
  /\ i.pc = "Replace" =>
       /\ doc.state \in {"Absent", "Current"}
       /\ \A r \in Planned :
            i.draft[r] = IF r = i.job.runtime THEN i.entry ELSE doc.runtimes[r]
  /\ i.report = "Completed" /\ i.job.runtime # "None" => doc.runtimes[i.job.runtime].by = p

InstallInv ==
  /\ DOMAIN fs = Paths /\ DOMAIN by = Paths /\ DOMAIN inst = Installers
  /\ \A x \in Paths : by[x] # "Host" => Exists(x)
  /\ \A p \in Installers :
       /\ RecordInv(p, inst[p]) /\ TraceInv(p, inst[p])
       /\ ScriptInv(p, inst[p]) /\ DocumentInv(p, inst[p])


-----------------------------------------------------------------------------
(* What a step of p may do to the files, the lock and the document. *)

FileStep(p) ==
  /\ DOMAIN fs' = Paths /\ DOMAIN by' = Paths
  /\ \A x \in Paths :
       \/ fs'[x] = fs[x] /\ by'[x] = by[x] /\ (x \in stray => x \in stray')
       \/ fs'[x] # "None" /\ by'[x] = p
       \/ fs'[x] = "None" /\ by'[x] = "Host"
       \/ fs'[x] # "None" /\ by'[x] = by[x] /\ (x \in stray => x \in stray')
  /\ \A r \in Planned : \/ fs'[Script[r]] = fs[Script[r]] /\ by'[Script[r]] = by[Script[r]]
                        \/ ~Exists(Script[r])
                        \/ Mine(p, Script[r])

LockStep(p) == UNCHANGED holder \/ Release(p) \/ (holder = "None" /\ holder' = p)

DocStep(p) ==
  \/ doc' = doc /\ LockStep(p)
  \/ /\ inst[p].pc = "Replace" /\ Release(p)
     /\ doc'.state = "Current" /\ doc'.runtimes = inst[p].draft

LEMMA OthersFiles ==
  ASSUME InstallInv, NEW p \in Installers, NEW q \in Installers, q # p, NEW i,
         FileStep(p), TraceInv(q, i), ScriptInv(q, i)
  PROVE  TraceInv(q, i)' /\ ScriptInv(q, i)'
<1>1. q # "Host" /\ \A r \in Planned : Script[r] \in Paths
  BY InstallAssumption, Zenon DEF Paths
<1>2. ASSUME NEW x \in Paths, Mine(q, x)', x \notin stray'
      PROVE  Mine(q, x) /\ x \notin stray
  <2>1. by'[x] = q /\ fs'[x] # "None"
    BY <1>2, Zenon DEF Mine, Exists
  <2>2. by[x] = q /\ x \notin stray
    BY <1>1, <1>2, <2>1, Zenon DEF FileStep
  <2>3. Exists(x)
    BY <1>1, <2>2, Zenon DEF InstallInv
  <2> QED
    BY <2>2, <2>3, Zenon DEF Mine
<1>3. TraceInv(q, i)'
  BY <1>2, Zenon DEF TraceInv
<1>4. ASSUME NEW r \in Planned, Mine(q, Script[r]) PROVE Mine(q, Script[r])'
  BY <1>4, Zenon DEF FileStep, Mine, Exists
<1>5. ScriptInv(q, i)'
  BY <1>4, Zenon DEF ScriptInv, Past
<1> QED
  BY <1>3, <1>5, Zenon

(* Two processes past their downloads install different runtimes. *)
LEMMA PastIsSole ==
  ASSUME InstallInv, NEW p \in Installers, NEW q \in Installers, p # q,
         Past(inst[p]), Past(inst[q])
  PROVE  inst[p].job.runtime # inst[q].job.runtime
<1> SUFFICES ASSUME inst[p].job.runtime = inst[q].job.runtime PROVE FALSE
  OBVIOUS
<1>1. Mine(p, Script[inst[p].job.runtime]) /\ Mine(q, Script[inst[q].job.runtime])
  BY Zenon DEF InstallInv, ScriptInv
<1> QED
  BY <1>1, Zenon DEF Mine

LEMMA OthersDocument ==
  ASSUME InstallInv, NEW p \in Installers, NEW q \in Installers, q # p, NEW i, i = inst[q],
         DocStep(p)
  PROVE  DocumentInv(q, i)'
<1>1. q # "None" /\ "None" \notin Planned
  BY InstallAssumption, Zenon
<1>2. DocumentInv(q, i) /\ RecordInv(q, i) /\ DocumentInv(p, inst[p]) /\ RecordInv(p, inst[p])
  BY Zenon DEF InstallInv
<1>3. holder = q => holder' = q
  BY <1>1, Zenon DEF DocStep, LockStep, Release
<1>4. CASE doc' = doc
  BY <1>2, <1>3, <1>4, Zenon DEF DocumentInv
<1>5. CASE inst[p].pc = "Replace" /\ doc'.state = "Current" /\ doc'.runtimes = inst[p].draft
  <2>1. holder = p /\ i.pc \notin {"Read", "Replace"}
    BY <1>2, <1>5, Zenon DEF DocumentInv
  <2>2. ASSUME i.report = "Completed", i.job.runtime # "None"
        PROVE  doc'.runtimes[i.job.runtime].by = q
    <3>1. i.job.runtime \in Planned /\ Past(i)
      <4>1. i.pc = "Done" /\ "Completed" # "None" /\ "Done" # "Idle"
        BY <1>2, <2>2, ZenonT(60) DEF RecordInv
      <4> QED
        BY <1>2, <2>2, <4>1, Zenon DEF RecordInv, Past
    <3>2. i.job.runtime # inst[p].job.runtime
      <4>1. CASE inst[p].job.runtime \in Planned
        <5>1. inst[p].step >= Len(PlanOf(inst[p].job))
          <6>1. Len(PlanOf(inst[p].job)) \in Nat
            BY PlanShape, Zenon
          <6>2. inst[p].step > Len(PlanOf(inst[p].job)) /\ inst[p].step \in Nat
            BY <1>2, <1>5, ZenonT(60) DEF RecordInv, PlaceInv
          <6> QED
            BY <6>1, <6>2
        <5>2. Past(inst[p])
          BY <1>5, <4>1, <5>1 DEF Past
        <5> QED
          BY <3>1, <5>2, PastIsSole, Zenon
      <4> QED
        BY <3>1, <4>1, Zenon
    <3>3. inst[p].draft[i.job.runtime] = doc.runtimes[i.job.runtime]
      BY <1>2, <1>5, <3>1, <3>2, Zenon DEF DocumentInv
    <3> QED
      BY <1>2, <1>5, <2>2, <3>3, Zenon DEF DocumentInv
  <2> QED
    BY <2>1, <2>2, Zenon DEF DocumentInv
<1> QED
  BY <1>4, <1>5, Zenon DEF DocStep

(* The process that moves goes from inst[p] to j. *)
Moves(p, j) ==
  /\ inst' = [inst EXCEPT ![p] = j]
  /\ RecordInv(p, j) /\ FileStep(p) /\ DocStep(p)

LEMMA StepKeeps ==
  ASSUME InstallInv, NEW p \in Installers, NEW j, Moves(p, j),
         TraceInv(p, j)', ScriptInv(p, j)', DocumentInv(p, j)'
  PROVE  InstallInv'
<1>1. /\ DOMAIN inst' = Installers /\ inst'[p] = j
      /\ \A q \in Installers : q # p => inst'[q] = inst[q]
  BY Zenon DEF Moves, InstallInv
<1>2. DOMAIN fs' = Paths /\ DOMAIN by' = Paths
  BY Zenon DEF Moves, FileStep
<1>3. ASSUME NEW x \in Paths, by'[x] # "Host" PROVE fs'[x] # "None"
  BY <1>3, Zenon DEF Moves, FileStep, InstallInv, Exists
<1>4. ASSUME NEW q \in Installers
      PROVE  /\ RecordInv(q, inst[q])' /\ TraceInv(q, inst[q])'
             /\ ScriptInv(q, inst[q])' /\ DocumentInv(q, inst[q])'
  <2>1. CASE q = p
    BY <1>1, <2>1, Zenon DEF Moves
  <2>2. CASE q # p
    <3>1. PICK k : k = inst[q]
      OBVIOUS
    <3>2. RecordInv(q, k) /\ TraceInv(q, k) /\ ScriptInv(q, k)
      BY <3>1, Zenon DEF InstallInv
    <3>3. TraceInv(q, k)' /\ ScriptInv(q, k)' /\ DocumentInv(q, k)'
      BY <2>2, <3>1, <3>2, OthersFiles, OthersDocument, Zenon DEF Moves
    <3> QED
      BY <1>1, <2>2, <3>1, <3>2, <3>3, Zenon
  <2> QED
    BY <2>1, <2>2, Zenon
<1> QED
  BY <1>1, <1>2, <1>3, <1>4, Zenon DEF InstallInv, Exists


-----------------------------------------------------------------------------
(* The steps that touch no file: p goes from i to j and keeps its job and  *)
(* what it has to undo.                                                    *)

Busy(i) == i.pc \notin {"Idle", "Done", "Crashed"}

Steady(p, i, j) ==
  /\ Busy(i) /\ Busy(j)
  /\ DOMAIN j = Fields
  /\ j.job = i.job /\ j.report = i.report /\ j.undo = i.undo /\ j.warned = i.warned
  /\ j.step \in Nat \ {0}
  /\ j.missing \in Seq(Paths) /\ NoScript(j.missing)
  /\ PlaceInv(j)
  /\ j.pc \in {"Open", "Wait", "Read", "Replace"} /\ j.job.runtime # "None" => j.entry.by = p

(* What a process at the start of a step owes to its place, and nothing to *)
(* the lockfile.                                                           *)
LEMMA StepPlace ==
  ASSUME NEW i, i.pc = "Step"
  PROVE  PlaceInv(i) /\ Busy(i) /\ i.pc # "Idle" /\ i.pc \notin {"Open", "Wait", "Read", "Replace"}
         /\ i.pc \notin {"Read", "Replace"}
BY DEF PlaceInv, Busy

LEMMA StepDocument ==
  ASSUME NEW p, NEW i, i.pc = "Step", i.report = "None"
  PROVE  DocumentInv(p, i)'
BY DEF DocumentInv

LEMMA BusyReport ==
  ASSUME NEW p, NEW i, RecordInv(p, i), Busy(i)
  PROVE  i.report = "None" /\ i.pc # "Idle" /\ i.pc # "Done" /\ i.pc # "Crashed"
<1>1. i.pc # "Idle" /\ i.pc # "Done" /\ i.pc # "Crashed"
  BY DEF Busy
<1> QED
  BY <1>1, Zenon DEF RecordInv

LEMMA Midway ==
  ASSUME NEW i, i.pc = "Make" \/ i.pc = "Publish"
  PROVE  Busy(i)
BY DEF Busy

LEMMA NextStep ==
  ASSUME NEW k \in Nat \ {0}
  PROVE  k \in Nat /\ k + 1 \in Nat \ {0}
OBVIOUS

LEMMA NotLast ==
  ASSUME NEW k \in Nat, NEW n \in Nat, k < n - 1
  PROVE  ~(k + 1 >= n)
OBVIOUS

LEMMA Lists ==
  ASSUME NEW S, NEW s \in Seq(S), NEW t \in Seq(S)
  PROVE  <<>> \in Seq(S) /\ s \o t \in Seq(S)
OBVIOUS

LEMMA SteadyRecord ==
  ASSUME NEW p, NEW i, NEW j, RecordInv(p, i), Steady(p, i, j)
  PROVE  RecordInv(p, j) /\ i.report = "None" /\ j.report = "None"
         /\ i.pc # "Crashed" /\ j.pc # "Crashed"
<1>1. i.report = "None" /\ j.report = "None" /\ i.pc # "Idle" /\ j.pc # "Idle"
      /\ i.pc # "Done" /\ j.pc # "Done" /\ i.pc # "Crashed" /\ j.pc # "Crashed"
  BY DEF RecordInv, Steady, Busy
<1> QED
  BY <1>1, Zenon DEF RecordInv, Steady

LEMMA NoFileStep ==
  ASSUME InstallInv, NEW p, UNCHANGED <<fs, by, stray>>
  PROVE  FileStep(p)
BY Zenon DEF FileStep, InstallInv

LEMMA SteadyScripts ==
  ASSUME NEW p, NEW i, NEW j, ScriptInv(p, i), j.undo = i.undo, j.job = i.job, Past(j) => Past(i)
  PROVE  ScriptInv(p, j)
BY Zenon DEF ScriptInv

LEMMA QuietStep ==
  ASSUME InstallInv, NEW p \in Installers, NEW i, i = inst[p], NEW j,
         inst' = [inst EXCEPT ![p] = j], Steady(p, i, j), Past(j) => Past(i),
         UNCHANGED <<fs, by, stray>>, DocStep(p), DocumentInv(p, j)'
  PROVE  InstallInv'
<1>1. RecordInv(p, i) /\ TraceInv(p, i) /\ ScriptInv(p, i)
  BY Zenon DEF InstallInv
<1>2. RecordInv(p, j) /\ i.report = "None" /\ j.report = "None" /\ i.pc # "Crashed"
  BY <1>1, SteadyRecord, Zenon
<1>3. j.undo = i.undo /\ j.warned = i.warned /\ j.job = i.job
  BY Zenon DEF Steady
<1>4. TraceInv(p, j)'
  BY <1>1, <1>2, <1>3, Zenon DEF TraceInv, Mine, Exists
<1>5. ScriptInv(p, j)'
  <2>1. ScriptInv(p, j)
    BY <1>1, <1>3, SteadyScripts, Zenon
  <2> QED
    BY <2>1, Zenon DEF ScriptInv, Mine, Exists
<1>6. Moves(p, j)
  BY <1>2, NoFileStep, Zenon DEF Moves
<1> QED
  BY <1>4, <1>5, <1>6, StepKeeps, Zenon

(* The same, where the lock and the document are left alone as well and p  *)
(* does not hold them.                                                     *)
LEMMA PlainStep ==
  ASSUME InstallInv, NEW p \in Installers, NEW i, i = inst[p], NEW j,
         inst' = [inst EXCEPT ![p] = j], Steady(p, i, j), Past(j) => Past(i),
         j.pc \notin {"Read", "Replace"}, UNCHANGED <<fs, by, stray, doc, holder>>
  PROVE  InstallInv'
<1>1. RecordInv(p, i)
  BY Zenon DEF InstallInv
<1>2. j.report = "None"
  BY <1>1, SteadyRecord, Zenon
<1>3. DocumentInv(p, j)'
  BY <1>2 DEF DocumentInv
<1>4. DocStep(p)
  BY Zenon DEF DocStep, LockStep
<1> QED
  BY <1>3, <1>4, QuietStep, Zenon

LEMMA RollbackIsSteady ==
  ASSUME NEW p, NEW i, RecordInv(p, i), Busy(i), NEW j,
         j = [i EXCEPT !.pc = "Rollback"] \/ j = [i EXCEPT !.pc = "Rollback", !.tried = TRUE]
  PROVE  Steady(p, i, j) /\ ~Past(j) /\ j.pc = "Rollback"
<1>1. /\ DOMAIN j = Fields /\ j.pc = "Rollback" /\ j.job = i.job /\ j.report = i.report
      /\ j.undo = i.undo /\ j.warned = i.warned /\ j.step = i.step /\ j.missing = i.missing
  BY ZenonT(60) DEF RecordInv, Fields
<1>2. PlaceInv(j) /\ Busy(j) /\ j.report = "None"
  BY <1>1 DEF PlaceInv, Busy, RecordInv
<1>3. i.step \in Nat \ {0} /\ i.missing \in Seq(Paths) /\ NoScript(i.missing)
  BY Zenon DEF RecordInv
<1>4. j.pc \notin {"Open", "Wait", "Read", "Replace"} /\ ~Past(j)
  BY <1>1, <1>2 DEF Past
<1> QED
  BY <1>1, <1>2, <1>3, <1>4, Zenon DEF Steady

(* A failing step of the plan. *)
LEMMA FailedStep ==
  ASSUME InstallInv, NEW p \in Installers, Busy(inst[p]), StepFailed(p),
         UNCHANGED <<fs, by, stray, doc, holder>>
  PROVE  InstallInv'
<1>1. PICK i : i = inst[p]
  OBVIOUS
<1>2. PICK j : j = [i EXCEPT !.pc = "Rollback"]
  BY ZenonT(60)
<1>3. inst' = [inst EXCEPT ![p] = j]
  BY <1>1, <1>2, Zenon DEF StepFailed, Go
<1>4. RecordInv(p, i)
  BY <1>1, Zenon DEF InstallInv
<1>5. Steady(p, i, j) /\ ~Past(j) /\ j.pc = "Rollback"
  BY <1>1, <1>2, <1>4, RollbackIsSteady, Zenon
<1>6. j.pc \notin {"Read", "Replace"}
  BY <1>5
<1> QED
  BY <1>1, <1>3, <1>5, <1>6, PlainStep, Zenon


(* j has the work of i before it. *)
SameWork(i, j) ==
  /\ DOMAIN j = Fields
  /\ j.job = i.job /\ j.report = i.report /\ j.undo = i.undo /\ j.warned = i.warned
  /\ j.step = i.step /\ j.missing = i.missing

LEMMA SameWorkIsSteady ==
  ASSUME NEW p, NEW i, RecordInv(p, i), Busy(i), i.pc # "Rollback", NEW j, SameWork(i, j),
         Busy(j), PlaceInv(j),
         j.pc \in {"Open", "Wait", "Read", "Replace"} /\ j.job.runtime # "None" => j.entry.by = p
  PROVE  Steady(p, i, j) /\ (Past(j) => Past(i))
<1>1. i.step \in Nat \ {0} /\ i.missing \in Seq(Paths) /\ NoScript(i.missing)
  BY Zenon DEF RecordInv
<1>2. Steady(p, i, j)
  BY <1>1, Zenon DEF Steady, SameWork
<1>3. i.pc \notin {"Idle", "Done", "Crashed", "Rollback"}
  BY DEF Busy
<1>4. Past(j) => Past(i)
  BY <1>3, Zenon DEF SameWork, Past
<1> QED
  BY <1>2, <1>4, Zenon

(* A step to label that changes nothing of the process but fields the      *)
(* invariant does not look at.                                             *)
LEMMA LabelStep ==
  ASSUME InstallInv, NEW p \in Installers, NEW i, i = inst[p], Busy(i), i.pc # "Rollback",
         NEW j, inst' = [inst EXCEPT ![p] = j], SameWork(i, j), Busy(j), PlaceInv(j),
         j.pc \notin {"Open", "Wait", "Read", "Replace"}, UNCHANGED <<fs, by, stray, doc, holder>>
  PROVE  InstallInv'
<1>1. RecordInv(p, i)
  BY Zenon DEF InstallInv
<1>2. Steady(p, i, j) /\ (Past(j) => Past(i))
  BY <1>1, SameWorkIsSteady, Zenon
<1>3. j.pc \notin {"Read", "Replace"}
  BY Zenon
<1> QED
  BY <1>2, <1>3, PlainStep, Zenon

LEMMA AtPlan ==
  ASSUME InstallInv, NEW p \in Installers, NEW i, i = inst[p]
  PROVE  /\ RecordInv(p, i) /\ Plan(p) = PlanOf(i.job) /\ Current(p) = PlanOf(i.job)[i.step]
         /\ i.step <= Len(Plan(p)) =>
              DirectoryAt(i.job, i.step) \/ DownloadAt(i.job, i.step) \/ CommandAt(i.job, i.step)
<1>1. RecordInv(p, i) /\ i.step \in Nat \ {0}
  BY Zenon DEF InstallInv, RecordInv
<1>2. Plan(p) = PlanOf(i.job) /\ Current(p) = PlanOf(i.job)[i.step]
  BY Zenon DEF Plan, PlanOf, Current
<1>3. i.step <= Len(PlanOf(i.job)) => i.step \in 1..Len(PlanOf(i.job))
  BY <1>1, PlanShape
<1> QED
  BY <1>1, <1>2, <1>3, PlanShape, Zenon

LEMMA AtDirectory ==
  ASSUME InstallInv, NEW p \in Installers, NEW i, i = inst[p],
         AtStep(p, "CreateDirectory") \/ i.pc = "Make"
  PROVE  /\ i.step <= Len(PlanOf(i.job)) /\ DirectoryAt(i.job, i.step) /\ Busy(i)
         /\ i.pc # "Rollback" /\ Clear(Current(p).path)
<1>1. i.pc \in {"Step", "Make"}
  BY Zenon DEF AtStep, At
<1>2. i.step <= Len(PlanOf(i.job)) /\ DirectoryAt(i.job, i.step)
  <2>1. CASE i.pc = "Make"
    BY <2>1, AtPlan, Zenon DEF RecordInv, PlaceInv
  <2>2. CASE AtStep(p, "CreateDirectory")
    <3>1. i.step <= Len(Plan(p)) /\ Current(p).action = "CreateDirectory"
      BY <2>2, Zenon DEF AtStep
    <3>2. ~DownloadAt(i.job, i.step) /\ ~CommandAt(i.job, i.step)
      BY <3>1, AtPlan, ZenonT(60) DEF DownloadAt, CommandAt
    <3> QED
      BY <3>1, <3>2, AtPlan, Zenon
  <2> QED
    BY <2>1, <2>2, Zenon
<1>3. Clear(Current(p).path)
  BY <1>2, AtPlan, Zenon DEF DirectoryAt
<1>4. Busy(i) /\ i.pc # "Rollback"
  BY <1>1 DEF Busy
<1> QED
  BY <1>2, <1>3, <1>4, Zenon

LEMMA AtDownload ==
  ASSUME InstallInv, NEW p \in Installers, NEW i, i = inst[p],
         AtStep(p, "Download") \/ i.pc \in {"Send", "Stream", "Publish"}
  PROVE  /\ i.step <= Len(PlanOf(i.job)) /\ DownloadAt(i.job, i.step) /\ Busy(i)
         /\ i.pc # "Rollback" /\ i.job.runtime \in Planned
         /\ Current(p).path = Script[i.job.runtime]
<1>1. i.pc \in {"Step", "Send", "Stream", "Publish"}
  BY Zenon DEF AtStep, At
<1>2. i.step <= Len(PlanOf(i.job)) /\ DownloadAt(i.job, i.step)
  <2>1. CASE i.pc \in {"Send", "Stream", "Publish"}
    BY <2>1, AtPlan, Zenon DEF RecordInv, PlaceInv
  <2>2. CASE AtStep(p, "Download")
    <3>1. i.step <= Len(Plan(p)) /\ Current(p).action = "Download"
      BY <2>2, Zenon DEF AtStep
    <3>2. ~DirectoryAt(i.job, i.step) /\ ~CommandAt(i.job, i.step)
      BY <3>1, AtPlan, ZenonT(60) DEF DirectoryAt, CommandAt
    <3> QED
      BY <3>1, <3>2, AtPlan, Zenon
  <2> QED
    BY <2>1, <2>2, Zenon
<1>3. i.job.runtime \in Planned /\ Current(p).path = Script[i.job.runtime]
  BY <1>2, AtPlan, Zenon DEF DownloadAt
<1>4. Busy(i) /\ i.pc # "Rollback"
  BY <1>1 DEF Busy
<1> QED
  BY <1>2, <1>3, <1>4, Zenon

LEMMA AtCommand ==
  ASSUME InstallInv, NEW p \in Installers, NEW i, i = inst[p],
         AtStep(p, "RunCommand") \/ i.pc \in {"Command", "Drain"}
  PROVE  /\ i.step <= Len(PlanOf(i.job)) /\ CommandAt(i.job, i.step) /\ Busy(i)
         /\ i.pc # "Rollback" /\ Past(i)
<1>1. i.pc \in {"Step", "Command", "Drain"}
  BY Zenon DEF AtStep, At
<1>2. i.step <= Len(PlanOf(i.job)) /\ CommandAt(i.job, i.step)
  <2>1. CASE i.pc \in {"Command", "Drain"}
    BY <2>1, AtPlan, Zenon DEF RecordInv, PlaceInv
  <2>2. CASE AtStep(p, "RunCommand")
    <3>1. i.step <= Len(Plan(p)) /\ Current(p).action = "RunCommand"
      BY <2>2, Zenon DEF AtStep
    <3>2. ~DirectoryAt(i.job, i.step) /\ ~DownloadAt(i.job, i.step)
      BY <3>1, AtPlan, ZenonT(60) DEF DirectoryAt, DownloadAt
    <3> QED
      BY <3>1, <3>2, AtPlan, Zenon
  <2> QED
    BY <2>1, <2>2, Zenon
<1>3. Busy(i) /\ i.pc \notin {"Idle", "Done", "Crashed", "Rollback"}
  BY <1>1 DEF Busy
<1>4. i.job.runtime \in Planned /\ i.step >= Len(PlanOf(i.job))
  BY <1>2, PlanShape DEF CommandAt
<1> QED
  BY <1>2, <1>3, <1>4, Zenon DEF Past


-----------------------------------------------------------------------------
(* The actions that touch no file. *)

LEMMA StepDoneStep ==
  ASSUME InstallInv, NEW p \in Installers, NEW i, i = inst[p], StepDone(p), Busy(i),
         DirectoryAt(i.job, i.step) \/ Past(i), UNCHANGED <<fs, by, stray, doc, holder>>
  PROVE  InstallInv'
<1>1. PICK j : j = [i EXCEPT !.pc = "Step", !.step = @ + 1]
  BY Zenon
<1>2. RecordInv(p, i)
  BY Zenon DEF InstallInv
<1>3. inst' = [inst EXCEPT ![p] = j]
  BY <1>1, Zenon DEF StepDone, InstallInv
<1>4. /\ DOMAIN j = Fields /\ j.pc = "Step" /\ j.step = i.step + 1
      /\ j.job = i.job /\ j.report = i.report /\ j.undo = i.undo /\ j.warned = i.warned
      /\ j.missing = i.missing
  BY <1>1, <1>2, Zenon DEF RecordInv, Fields
<1>5. i.step \in Nat \ {0} /\ i.missing \in Seq(Paths) /\ NoScript(i.missing) /\ i.report = "None"
  BY <1>2, BusyReport, Zenon DEF RecordInv
<1>6. PlaceInv(j) /\ Busy(j) /\ j.pc \notin {"Open", "Wait", "Read", "Replace"}
      /\ j.step \in Nat \ {0}
  BY <1>4, <1>5, StepPlace, NextStep, Zenon
<1>7. Steady(p, i, j)
  BY <1>4, <1>5, <1>6, Zenon DEF Steady
<1>8. Past(j) => Past(i)
  <2>1. CASE DirectoryAt(i.job, i.step)
    <3>1. j.job.runtime \in Planned => ~(j.step >= Len(PlanOf(j.job)))
      <4>1. Len(PlanOf(i.job)) \in Nat /\ (i.job.runtime \in Planned => i.step < Len(PlanOf(i.job)) - 1)
        BY <2>1, PlanShape, Zenon DEF DirectoryAt
      <4> QED
        BY <1>4, <1>5, <4>1, NextStep, NotLast, Zenon
    <3>2. j.report # "Completed"
      BY <1>4, <1>5, Zenon
    <3> QED
      BY <3>1, <3>2, Zenon DEF Past
  <2> QED
    BY <2>1, Zenon
<1>9. j.pc \notin {"Read", "Replace"}
  BY <1>4, StepPlace, Zenon
<1> QED
  BY <1>3, <1>7, <1>8, <1>9, PlainStep, Zenon

LEMMA StopSeenKeeps ==
  ASSUME InstallInv, NEW p \in Installers, StopSeen(p)
  PROVE  InstallInv'
<1>1. Busy(inst[p])
  BY DEF StopSeen, At, Busy
<1> QED
  BY <1>1, FailedStep, Zenon DEF StopSeen, fileVars, lockVars

LEMMA CheckDirectoryKeeps ==
  ASSUME InstallInv, NEW p \in Installers, CheckDirectory(p)
  PROVE  InstallInv'
<1>1. PICK i : i = inst[p]
  BY Zenon
<1>2. AtStep(p, "CreateDirectory") /\ UNCHANGED <<fs, by, stray, doc, holder>>
  BY Zenon DEF CheckDirectory, fileVars, lockVars
<1>3. /\ i.step <= Len(PlanOf(i.job)) /\ DirectoryAt(i.job, i.step) /\ Busy(i)
      /\ i.pc # "Rollback" /\ Clear(Current(p).path)
  BY <1>1, <1>2, AtDirectory, Zenon
<1>4. CASE StepDone(p)
  BY <1>1, <1>2, <1>3, <1>4, StepDoneStep, Zenon
<1>5. CASE StepFailed(p)
  BY <1>1, <1>2, <1>3, <1>5, FailedStep, Zenon
<1>6. CASE \E m \in Gaps(Chain[Current(p).path]) :
             inst' = [inst EXCEPT ![p].pc = "Make", ![p].missing = m]
  <2>1. PICK m \in Gaps(Chain[Current(p).path]) :
               inst' = [inst EXCEPT ![p].pc = "Make", ![p].missing = m]
    BY <1>6, Zenon
  <2>2. PICK j : j = [i EXCEPT !.pc = "Make", !.missing = m]
    BY Zenon
  <2>3. RecordInv(p, i)
    BY <1>1, Zenon DEF InstallInv
  <2>4. inst' = [inst EXCEPT ![p] = j]
    BY <1>1, <2>1, <2>2, Zenon DEF InstallInv
  <2>5. /\ DOMAIN j = Fields /\ j.pc = "Make" /\ j.step = i.step
        /\ j.job = i.job /\ j.report = i.report /\ j.undo = i.undo /\ j.warned = i.warned
        /\ j.missing = m
    BY <2>2, <2>3, Zenon DEF RecordInv, Fields
  <2>6. m \in Seq(Paths) /\ NoScript(m)
    <3>1. Chain[Current(p).path] \in Seq(Paths)
      BY <1>3, InstallAssumption, Zenon DEF Clear, Paths
    <3> QED
      BY <1>3, <3>1, GapInChain, Zenon DEF NoScript, Clear
  <2>7. PlaceInv(j) /\ Busy(j) /\ j.pc \notin {"Open", "Wait", "Read", "Replace"}
        /\ j.pc \notin {"Idle", "Done", "Crashed", "Rollback"}
    BY <1>3, <2>5 DEF PlaceInv, Busy
  <2>8. i.pc \notin {"Idle", "Done", "Crashed", "Rollback"}
    BY <1>3 DEF Busy
  <2>9. i.step \in Nat \ {0}
    BY <2>3, Zenon DEF RecordInv
  <2>10. Steady(p, i, j) /\ (Past(j) => Past(i))
    BY <1>3, <2>5, <2>6, <2>7, <2>8, <2>9, Zenon DEF Steady, Past
  <2>11. j.pc \notin {"Read", "Replace"}
    BY <2>5
  <2> QED
    BY <1>1, <1>2, <2>4, <2>10, <2>11, PlainStep, Zenon
<1> QED
  BY <1>4, <1>5, <1>6, Zenon DEF CheckDirectory, Preserves

LEMMA SendKeeps ==
  ASSUME InstallInv, NEW p \in Installers, Send(p)
  PROVE  InstallInv'
<1>1. PICK i : i = inst[p]
  BY Zenon
<1>2. i.pc = "Send" /\ UNCHANGED <<fs, by, stray, doc, holder>>
  BY <1>1, Zenon DEF Send, At, lockVars
<1>3. i.step <= Len(PlanOf(i.job)) /\ DownloadAt(i.job, i.step) /\ Busy(i) /\ i.pc # "Rollback"
  BY <1>1, <1>2, AtDownload, Zenon
<1>4. CASE StepFailed(p)
  BY <1>1, <1>2, <1>3, <1>4, FailedStep, Zenon
<1>5. CASE Go(p, "Stream")
  <2>1. PICK j : j = [i EXCEPT !.pc = "Stream"]
    BY Zenon
  <2>2. inst' = [inst EXCEPT ![p] = j]
    BY <1>1, <1>5, <2>1, Zenon DEF Go
  <2>3. SameWork(i, j) /\ j.pc = "Stream"
    BY <1>1, <2>1, Zenon DEF InstallInv, RecordInv, Fields, SameWork
  <2>4. PlaceInv(j) /\ Busy(j) /\ j.pc \notin {"Open", "Wait", "Read", "Replace"}
    BY <1>3, <2>3 DEF PlaceInv, Busy, SameWork
  <2> QED
    BY <1>1, <1>2, <1>3, <2>2, <2>3, <2>4, LabelStep, Zenon
<1> QED
  BY <1>4, <1>5, Zenon DEF Send


LEMMA StreamKeeps ==
  ASSUME InstallInv, NEW p \in Installers, Stream(p)
  PROVE  InstallInv'
<1>1. PICK i : i = inst[p]
  BY Zenon
<1>2. i.pc = "Stream" /\ UNCHANGED <<fs, by, stray, doc, holder>>
  BY <1>1, Zenon DEF Stream, At, lockVars
<1>3. i.step <= Len(PlanOf(i.job)) /\ DownloadAt(i.job, i.step) /\ Busy(i) /\ i.pc # "Rollback"
  BY <1>1, <1>2, AtDownload, Zenon
<1>4. CASE StepFailed(p)
  BY <1>1, <1>2, <1>3, <1>4, FailedStep, Zenon
<1>5. CASE \E digest : inst' = [inst EXCEPT ![p].pc = "Publish", ![p].digest = digest]
  <2>1. PICK digest : inst' = [inst EXCEPT ![p].pc = "Publish", ![p].digest = digest]
    BY <1>5, Zenon
  <2>2. PICK j : j = [i EXCEPT !.pc = "Publish", !.digest = digest]
    BY Zenon
  <2>3. inst' = [inst EXCEPT ![p] = j]
    BY <1>1, <2>1, <2>2, Zenon DEF InstallInv
  <2>4. SameWork(i, j) /\ j.pc = "Publish"
    BY <1>1, <2>2, Zenon DEF InstallInv, RecordInv, Fields, SameWork
  <2>5. PlaceInv(j) /\ Busy(j) /\ j.pc \notin {"Open", "Wait", "Read", "Replace"}
    BY <1>3, <2>4 DEF PlaceInv, Busy, SameWork
  <2> QED
    BY <1>1, <1>2, <1>3, <2>3, <2>4, <2>5, LabelStep, Zenon
<1> QED
  BY <1>4, <1>5, Zenon DEF Stream

LEMMA StartCommandKeeps ==
  ASSUME InstallInv, NEW p \in Installers, StartCommand(p)
  PROVE  InstallInv'
<1>1. PICK i : i = inst[p]
  BY Zenon
<1>2. AtStep(p, "RunCommand") /\ UNCHANGED <<fs, by, stray, doc, holder>>
  BY <1>1, Zenon DEF StartCommand, fileVars, lockVars
<1>3. i.step <= Len(PlanOf(i.job)) /\ CommandAt(i.job, i.step) /\ Busy(i) /\ i.pc # "Rollback"
  BY <1>1, <1>2, AtCommand, Zenon
<1>4. RecordInv(p, i)
  BY <1>1, Zenon DEF InstallInv
<1>5. CASE inst' = [inst EXCEPT ![p].pc = "Command", ![p].tried = TRUE]
  <2>1. PICK j : j = [i EXCEPT !.pc = "Command", !.tried = TRUE]
    BY Zenon
  <2>2. inst' = [inst EXCEPT ![p] = j]
    BY <1>1, <1>5, <2>1, Zenon DEF InstallInv
  <2>3. SameWork(i, j) /\ j.pc = "Command"
    BY <1>4, <2>1, Zenon DEF RecordInv, Fields, SameWork
  <2>4. PlaceInv(j) /\ Busy(j) /\ j.pc \notin {"Open", "Wait", "Read", "Replace"}
    BY <1>3, <2>3 DEF PlaceInv, Busy, SameWork
  <2> QED
    BY <1>1, <1>2, <1>3, <2>2, <2>3, <2>4, LabelStep, Zenon
<1>6. CASE inst' = [inst EXCEPT ![p].pc = "Rollback", ![p].tried = TRUE]
  <2>1. PICK j : j = [i EXCEPT !.pc = "Rollback", !.tried = TRUE]
    BY Zenon
  <2>2. inst' = [inst EXCEPT ![p] = j]
    BY <1>1, <1>6, <2>1, Zenon DEF InstallInv
  <2>3. Steady(p, i, j) /\ ~Past(j) /\ j.pc = "Rollback"
    BY <1>3, <1>4, <2>1, RollbackIsSteady, Zenon
  <2>4. j.pc \notin {"Read", "Replace"}
    BY <2>3
  <2> QED
    BY <1>1, <1>2, <2>2, <2>3, <2>4, PlainStep, Zenon
<1> QED
  BY <1>5, <1>6, Zenon DEF StartCommand

LEMMA CommandEndsKeeps ==
  ASSUME InstallInv, NEW p \in Installers, CommandEnds(p)
  PROVE  InstallInv'
<1>1. PICK i : i = inst[p]
  BY Zenon
<1>2. i.pc = "Command" /\ UNCHANGED <<fs, by, stray, doc, holder>>
  BY <1>1, Zenon DEF CommandEnds, At, fileVars, lockVars
<1>3. i.step <= Len(PlanOf(i.job)) /\ CommandAt(i.job, i.step) /\ Busy(i) /\ i.pc # "Rollback"
  BY <1>1, <1>2, AtCommand, Zenon
<1>4. PICK passed, held :
        inst' = [inst EXCEPT ![p].pc = "Drain", ![p].passed = passed, ![p].held = held]
  BY Zenon DEF CommandEnds
<1>5. PICK j : j = [i EXCEPT !.pc = "Drain", !.passed = passed, !.held = held]
  BY Zenon
<1>6. inst' = [inst EXCEPT ![p] = j]
  BY <1>1, <1>4, <1>5, Zenon DEF InstallInv
<1>7. SameWork(i, j) /\ j.pc = "Drain"
  BY <1>1, <1>5, Zenon DEF InstallInv, RecordInv, Fields, SameWork
<1>8. PlaceInv(j) /\ Busy(j) /\ j.pc \notin {"Open", "Wait", "Read", "Replace"}
  BY <1>3, <1>7 DEF PlaceInv, Busy, SameWork
<1> QED
  BY <1>1, <1>2, <1>3, <1>6, <1>7, <1>8, LabelStep, Zenon

LEMMA DrainKeeps ==
  ASSUME InstallInv, NEW p \in Installers, Drain(p)
  PROVE  InstallInv'
<1>1. PICK i : i = inst[p]
  BY Zenon
<1>2. i.pc = "Drain" /\ UNCHANGED <<fs, by, stray, doc, holder>>
  BY <1>1, Zenon DEF Drain, At, fileVars, lockVars
<1>3. Busy(i) /\ Past(i)
  BY <1>1, <1>2, AtCommand, Zenon
<1> QED
  BY <1>1, <1>2, <1>3, StepDoneStep, FailedStep, Zenon DEF Drain, Judges

LEMMA HeldBusy ==
  ASSUME NEW i, i.pc = "Step" \/ i.pc = "Drain"
  PROVE  Busy(i) /\ i.pc # "Rollback" /\ i.pc \notin {"Open", "Wait", "Read", "Replace"}
BY DEF Busy

(* Whether the output is held is nothing the invariant looks at. *)
LEMMA HeldKeeps ==
  ASSUME InstallInv, NEW p \in Installers, NEW held,
         inst[p].pc = "Step" \/ inst[p].pc = "Drain",
         inst' = [inst EXCEPT ![p].held = held], UNCHANGED <<fs, by, stray, doc, holder>>
  PROVE  InstallInv'
<1>1. PICK i : i = inst[p]
  BY Zenon
<1>2. PICK j : j = [i EXCEPT !.held = held]
  BY Zenon
<1>3. inst' = [inst EXCEPT ![p] = j]
  BY <1>1, <1>2, Zenon
<1>4. RecordInv(p, i)
  BY <1>1, Zenon DEF InstallInv
<1>5. SameWork(i, j) /\ j.pc = i.pc
  BY <1>2, <1>4, Zenon DEF RecordInv, Fields, SameWork
<1>6. Busy(i) /\ i.pc # "Rollback" /\ Busy(j) /\ j.pc \notin {"Open", "Wait", "Read", "Replace"}
  BY <1>1, <1>5, HeldBusy, Zenon
<1>7. PlaceInv(j)
  BY <1>4, <1>5, Zenon DEF RecordInv, PlaceInv, SameWork
<1> QED
  BY <1>1, <1>3, <1>5, <1>6, <1>7, LabelStep, Zenon

LEMMA LingersKeeps ==
  ASSUME InstallInv, NEW p \in Installers, Lingers(p)
  PROVE  InstallInv'
BY HeldKeeps, Zenon DEF Lingers, At, fileVars, lockVars

LEMMA ClosesKeeps ==
  ASSUME InstallInv, NEW p \in Installers, Closes(p)
  PROVE  InstallInv'
BY HeldKeeps, Zenon DEF Closes, At, fileVars, lockVars

LEMMA CancelKeeps ==
  ASSUME InstallInv, NEW p \in Installers, Cancel(p)
  PROVE  InstallInv'
<1>1. PICK i : i = inst[p]
  BY Zenon
<1>2. i.pc \in {"Step", "Stream", "Command"} /\ UNCHANGED <<fs, by, stray, doc, holder>>
  BY <1>1, Zenon DEF Cancel, fileVars, lockVars
<1>3. PICK j : j = [i EXCEPT !.stop = TRUE]
  BY Zenon
<1>4. inst' = [inst EXCEPT ![p] = j]
  BY <1>1, <1>3, Zenon DEF Cancel
<1>5. RecordInv(p, i)
  BY <1>1, Zenon DEF InstallInv
<1>6. SameWork(i, j) /\ j.pc = i.pc
  BY <1>3, <1>5, Zenon DEF RecordInv, Fields, SameWork
<1>7. Busy(i) /\ i.pc # "Rollback" /\ Busy(j) /\ j.pc \notin {"Open", "Wait", "Read", "Replace"}
  BY <1>2, <1>6 DEF Busy
<1>8. PlaceInv(j)
  BY <1>5, <1>6, Zenon DEF RecordInv, PlaceInv, SameWork
<1> QED
  BY <1>1, <1>2, <1>4, <1>6, <1>7, <1>8, LabelStep, Zenon


-----------------------------------------------------------------------------
(* The ends. *)

(* A process that is over. *)
Over(j, job) ==
  /\ DOMAIN j = Fields /\ j.job = job /\ j.pc \in {"Done", "Crashed"}
  /\ j.step = 1 /\ j.undo = <<>> /\ j.missing = <<>> /\ j.warned = FALSE
  /\ j.pc = "Crashed" => j.report = "None"
  /\ j.pc = "Crashed" \/ j.report = "Completed" => job.runtime \in Planned \union {"None"}

LEMMA OverRecord ==
  ASSUME NEW p, NEW job, NEW j, Over(j, job)
  PROVE  /\ RecordInv(p, j)
         /\ \A r \in Planned : Script[r] \notin Range(j.undo)
         /\ \A r \in Planned, m, k \in DOMAIN j.undo :
              j.undo[m] = Script[r] /\ j.undo[k] = Script[r] => m = k
<1>1. j.step \in Nat \ {0} /\ j.undo \in Seq(Paths) /\ j.missing \in Seq(Paths)
  BY DEF Over
<1>2. \A x : x \notin Range(<<>>) /\ x \notin DOMAIN <<>>
  BY DEF Range
<1>3. PlaceInv(j) /\ j.pc # "Idle" /\ j.pc \notin {"Open", "Wait", "Read", "Replace"}
  BY DEF Over, PlaceInv
<1>4. NoScript(j.missing)
  BY <1>2, Zenon DEF Over, NoScript
<1>5. j.report # "None" => j.pc = "Done"
  BY Zenon DEF Over
<1>6. j.pc # "Idle" /\ (j.pc = "Done" => j.report = "Completed") =>
        j.job.runtime \in Planned \union {"None"}
  BY Zenon DEF Over
<1>7. RecordInv(p, j)
  BY <1>1, <1>3, <1>4, <1>5, <1>6, Zenon DEF Over, RecordInv
<1>8. j.undo = <<>>
  BY Zenon DEF Over
<1> QED
  BY <1>2, <1>7, <1>8, Zenon

(* An end that reports neither success nor a clean failure. *)
LEMMA PartialEnd ==
  ASSUME InstallInv, NEW p \in Installers, NEW job, NEW j, inst' = [inst EXCEPT ![p] = j],
         Over(j, job), j.report \notin {"Failed", "Completed"}, j.pc = "Done" => j.report # "None",
         FileStep(p), DocStep(p)
  PROVE  InstallInv'
<1>1. RecordInv(p, j)
  BY OverRecord, Zenon
<1>2. j.pc = "Crashed" \/ j.report \notin {"None", "Failed"}
  BY Zenon DEF Over
<1>3. TraceInv(p, j)'
  BY <1>2, Zenon DEF TraceInv
<1>4. ~Past(j)
  BY DEF Past, Over
<1>5. ScriptInv(p, j)'
  BY <1>4, OverRecord, Zenon DEF ScriptInv
<1>6. j.pc \notin {"Read", "Replace"} /\ j.report # "Completed"
  BY DEF Over
<1>7. DocumentInv(p, j)'
  BY <1>6, Zenon DEF DocumentInv
<1>8. Moves(p, j)
  BY <1>1, Zenon DEF Moves
<1> QED
  BY <1>3, <1>5, <1>7, <1>8, StepKeeps, Zenon

EndsAs(p, job, report, j) ==
  /\ inst' = [inst EXCEPT ![p] = j]
  /\ Over(j, job) /\ j.pc = "Done" /\ j.report = report

LEMMA EndsOver ==
  ASSUME InstallInv, NEW p \in Installers, NEW i, i = inst[p], Busy(i), NEW report,
         Ends(p, report)
  PROVE  \E j : EndsAs(p, i.job, report, j)
<1>1. PICK k : k = [Idle EXCEPT !.pc = "Done", !.job = i.job, !.report = report]
  BY Zenon
<1>2. inst' = [inst EXCEPT ![p] = k]
  BY <1>1, Zenon DEF Ends
<1>3. /\ DOMAIN k = Fields /\ k.pc = "Done" /\ k.job = i.job /\ k.report = report
      /\ k.step = 1 /\ k.undo = <<>> /\ k.missing = <<>> /\ k.warned = FALSE
  BY <1>1, SMT DEF Idle, Fields
<1>4. i.job.runtime \in Planned \union {"None"}
  BY DEF InstallInv, RecordInv, Busy
<1>5. "Done" # "Crashed"
  OBVIOUS
<1> QED
  BY <1>2, <1>3, <1>4, <1>5, Zenon DEF Over, EndsAs

LEMMA PartialEnds ==
  ASSUME InstallInv, NEW p \in Installers, NEW i, i = inst[p], Busy(i), Ends(p, "Partial"),
         FileStep(p), DocStep(p)
  PROVE  InstallInv'
<1>1. PICK j : EndsAs(p, i.job, "Partial", j)
  BY EndsOver, Zenon
<1>2. "Partial" \notin {"Failed", "Completed", "None"}
  OBVIOUS
<1> QED
  BY <1>1, <1>2, PartialEnd, Zenon DEF EndsAs

LEMMA RolledBackKeeps ==
  ASSUME InstallInv, NEW p \in Installers, RolledBack(p)
  PROVE  InstallInv'
<1>1. PICK i : i = inst[p]
  BY Zenon
<1>2. i.pc = "Rollback" /\ i.undo = <<>> /\ UNCHANGED <<fs, by, stray, doc, holder>>
  BY <1>1, Zenon DEF RolledBack, At, fileVars, lockVars
<1>3. Busy(i)
  BY <1>2 DEF Busy
<1>4. FileStep(p) /\ DocStep(p)
  BY <1>2, NoFileStep, Zenon DEF DocStep, LockStep
<1>5. CASE Ends(p, "Partial")
  BY <1>1, <1>3, <1>4, <1>5, PartialEnds, Zenon
<1>6. CASE Ends(p, "Failed") /\ ~i.warned
  <2>1. PICK j : EndsAs(p, i.job, "Failed", j)
    BY <1>1, <1>3, <1>6, EndsOver, Zenon
  <2>2. i.report = "None" /\ i.pc # "Crashed"
    BY <1>1, <1>2, ZenonT(60) DEF InstallInv, RecordInv
  <2>3. \A x \in Paths : ~(Mine(p, x) /\ x \notin stray)
    <3>1. \A x : x \notin Range(<<>>)
      BY DEF Range
    <3>2. TraceInv(p, i)
      BY <1>1, Zenon DEF InstallInv
    <3> QED
      BY <1>2, <1>6, <2>2, <3>1, <3>2, Zenon DEF TraceInv
  <2>4. TraceInv(p, j)'
    BY <1>2, <2>3, Zenon DEF TraceInv, Mine, Exists
  <2>5. ~Past(j) /\ j.pc \notin {"Read", "Replace"} /\ j.report # "Completed"
    BY <2>1 DEF Past, Over, EndsAs
  <2>6. ScriptInv(p, j)' /\ DocumentInv(p, j)'
    BY <2>1, <2>5, OverRecord, Zenon DEF ScriptInv, DocumentInv, EndsAs
  <2>7. Moves(p, j)
    BY <1>4, <2>1, OverRecord, Zenon DEF Moves, EndsAs
  <2> QED
    BY <2>4, <2>6, <2>7, StepKeeps, Zenon
<1> QED
  BY <1>1, <1>5, <1>6, Zenon DEF RolledBack

LEMMA CrashKeeps ==
  ASSUME InstallInv, NEW p \in Installers, Crash(p)
  PROVE  InstallInv'
<1>1. PICK i : i = inst[p]
  BY Zenon
<1>2. PICK j : j = [Idle EXCEPT !.pc = "Crashed", !.job = i.job]
  BY Zenon
<1>3. inst' = [inst EXCEPT ![p] = j] /\ Release(p) /\ UNCHANGED <<fs, by, stray, doc>>
  BY <1>1, <1>2, Zenon DEF Crash, WriteFails, fileVars
<1>4. /\ DOMAIN j = Fields /\ j.pc = "Crashed" /\ j.job = i.job /\ j.report = "None"
      /\ j.step = 1 /\ j.undo = <<>> /\ j.missing = <<>> /\ j.warned = FALSE
  BY <1>2, SMT DEF Idle, Fields
<1>5. i.job.runtime \in Planned \union {"None"}
  BY <1>1 DEF Crash, Running, InstallInv, RecordInv
<1>6. "Crashed" # "Done" /\ "None" \notin {"Failed", "Completed"}
  OBVIOUS
<1>7. Over(j, i.job)
  BY <1>4, <1>5, Zenon DEF Over
<1>8. FileStep(p) /\ DocStep(p)
  BY <1>3, NoFileStep, Zenon DEF DocStep, LockStep
<1> QED
  BY <1>3, <1>4, <1>6, <1>7, <1>8, PartialEnd, Zenon


LEMMA PrepareKeeps ==
  ASSUME InstallInv, NEW p \in Installers, Prepare(p)
  PROVE  InstallInv'
<1>1. UNCHANGED <<fs, by, stray, doc, holder>> /\ inst[p] = Idle
  BY Zenon DEF Prepare, At, InstallInv, RecordInv, fileVars, lockVars
<1>2. FileStep(p) /\ DocStep(p)
  BY <1>1, NoFileStep, Zenon DEF DocStep, LockStep
<1>3. PICK job :
        \/ \E report \in {"Shown", "Refused"} :
             inst' = [inst EXCEPT ![p].job = job, ![p].pc = "Done", ![p].report = report]
        \/ /\ job.runtime \in Planned \union {"None"}
           /\ \/ inst' = [inst EXCEPT ![p].job = job, ![p].pc = "Step"]
              \/ inst' = [inst EXCEPT ![p].job = job, ![p].pc = "Step", ![p].report = "None"]
  BY Zenon DEF Prepare, EnsureMissing
<1>4. CASE \E report \in {"Shown", "Refused"} :
             inst' = [inst EXCEPT ![p].job = job, ![p].pc = "Done", ![p].report = report]
  <2>1. PICK report \in {"Shown", "Refused"} :
          inst' = [inst EXCEPT ![p].job = job, ![p].pc = "Done", ![p].report = report]
    BY <1>4, Zenon
  <2>2. PICK j : j = [Idle EXCEPT !.job = job, !.pc = "Done", !.report = report]
    BY Zenon
  <2>3. inst' = [inst EXCEPT ![p] = j]
    BY <1>1, <2>1, <2>2, Zenon DEF InstallInv
  <2>4. /\ DOMAIN j = Fields /\ j.pc = "Done" /\ j.job = job /\ j.report = report
        /\ j.step = 1 /\ j.undo = <<>> /\ j.missing = <<>> /\ j.warned = FALSE
    BY <2>2, SMT DEF Idle, Fields
  <2>5. report \notin {"Failed", "Completed", "None"} /\ "Done" # "Crashed"
    BY <2>1
  <2>6. Over(j, job)
    BY <2>4, <2>5, Zenon DEF Over
  <2> QED
    BY <1>2, <2>3, <2>4, <2>5, <2>6, PartialEnd, Zenon
<1>5. CASE /\ job.runtime \in Planned \union {"None"}
           /\ \/ inst' = [inst EXCEPT ![p].job = job, ![p].pc = "Step"]
              \/ inst' = [inst EXCEPT ![p].job = job, ![p].pc = "Step", ![p].report = "None"]
  <2>1. PICK j : /\ inst' = [inst EXCEPT ![p] = j]
                 /\ \/ j = [Idle EXCEPT !.job = job, !.pc = "Step"]
                    \/ j = [Idle EXCEPT !.job = job, !.pc = "Step", !.report = "None"]
    BY <1>1, <1>5, Zenon DEF InstallInv
  <2>2. /\ DOMAIN j = Fields /\ j.pc = "Step" /\ j.job = job /\ j.report = "None"
        /\ j.step = 1 /\ j.undo = <<>> /\ j.missing = <<>> /\ j.warned = FALSE
    <3>1. CASE j = [Idle EXCEPT !.job = job, !.pc = "Step"]
      BY <3>1, SMT DEF Idle, Fields
    <3>2. CASE j = [Idle EXCEPT !.job = job, !.pc = "Step", !.report = "None"]
      BY <3>2, SMT DEF Idle, Fields
    <3> QED
      BY <2>1, <3>1, <3>2, Zenon
  <2>3. \A x : x \notin Range(<<>>) /\ x \notin DOMAIN <<>>
    BY DEF Range
  <2>4. Idle.undo = <<>> /\ Idle.warned = FALSE /\ Idle.pc = "Idle" /\ Idle.report = "None"
    BY SMT DEF Idle
  <2>5. RecordInv(p, j)
    <3>1. j.step \in Nat \ {0} /\ j.undo \in Seq(Paths) /\ j.missing \in Seq(Paths)
      BY <2>2
    <3>2. PlaceInv(j) /\ j.pc # "Idle" /\ j.pc \notin {"Open", "Wait", "Read", "Replace"}
      BY <2>2 DEF PlaceInv
    <3>3. NoScript(j.missing)
      BY <2>2, <2>3, Zenon DEF NoScript
    <3> QED
      BY <1>5, <2>2, <3>1, <3>2, <3>3, Zenon DEF RecordInv
  <2>6. TraceInv(p, j)'
    <3>1. TraceInv(p, Idle)
      BY <1>1, Zenon DEF InstallInv
    <3>2. Idle.pc # "Crashed"
      BY <2>4
    <3>3. \A x \in Paths : ~(Mine(p, x) /\ x \notin stray)
      BY <2>3, <2>4, <3>1, <3>2, Zenon DEF TraceInv
    <3> QED
      BY <1>1, <3>3, Zenon DEF TraceInv, Mine, Exists
  <2>7. ~Past(j)
    BY <2>2, PlanShape DEF Past
  <2>8. ScriptInv(p, j)'
    BY <2>2, <2>3, <2>7, Zenon DEF ScriptInv
  <2>9. DocumentInv(p, j)'
    BY <2>2 DEF DocumentInv
  <2>10. Moves(p, j)
    BY <1>2, <2>1, <2>5, Zenon DEF Moves
  <2> QED
    BY <2>6, <2>8, <2>9, <2>10, StepKeeps, Zenon
<1> QED
  BY <1>3, <1>4, <1>5, Zenon

LEMMA ResolveKeeps ==
  ASSUME InstallInv, NEW p \in Installers, Resolve(p)
  PROVE  InstallInv'
<1>1. PICK i : i = inst[p]
  BY Zenon
<1>2. /\ i.pc = "Step" /\ i.step > Len(PlanOf(i.job)) /\ UNCHANGED <<fs, by, stray, doc, holder>>
  BY <1>1, AtPlan, Zenon DEF Resolve, At, fileVars, lockVars
<1>3. Busy(i) /\ i.pc # "Rollback"
  BY <1>2 DEF Busy
<1>4. CASE Ends(p, "Partial")
  <2>1. FileStep(p) /\ DocStep(p)
    BY <1>2, NoFileStep, Zenon DEF DocStep, LockStep
  <2> QED
    BY <1>1, <1>3, <1>4, <2>1, PartialEnds, Zenon
<1>5. CASE \/ i.job.runtime = "None" /\ Go(p, "Open")
           \/ \E blank, entry : entry.by = p
                /\ inst' = [inst EXCEPT ![p].pc = "Open", ![p].blank = blank, ![p].entry = entry]
  <2>1. RecordInv(p, i)
    BY <1>1, Zenon DEF InstallInv
  <2>2. PICK j : /\ inst' = [inst EXCEPT ![p] = j] /\ SameWork(i, j) /\ j.pc = "Open"
                 /\ i.job.runtime = "None" \/ j.entry.by = p
    <3>1. CASE i.job.runtime = "None" /\ Go(p, "Open")
      <4>1. PICK j : j = [i EXCEPT !.pc = "Open"]
        BY Zenon
      <4>2. inst' = [inst EXCEPT ![p] = j]
        BY <1>1, <3>1, <4>1, Zenon DEF Go
      <4>3. SameWork(i, j) /\ j.pc = "Open"
        BY <2>1, <4>1, Zenon DEF RecordInv, Fields, SameWork
      <4> QED
        BY <3>1, <4>2, <4>3, Zenon
    <3>2. CASE \E blank, entry : entry.by = p
                 /\ inst' = [inst EXCEPT ![p].pc = "Open", ![p].blank = blank, ![p].entry = entry]
      <4>1. PICK blank, entry : entry.by = p
              /\ inst' = [inst EXCEPT ![p].pc = "Open", ![p].blank = blank, ![p].entry = entry]
        BY <3>2, Zenon
      <4>2. PICK j : j = [i EXCEPT !.pc = "Open", !.blank = blank, !.entry = entry]
        BY Zenon
      <4>3. inst' = [inst EXCEPT ![p] = j]
        BY <1>1, <4>1, <4>2, Zenon DEF InstallInv
      <4>4. SameWork(i, j) /\ j.pc = "Open" /\ j.entry = entry
        BY <2>1, <4>2, Zenon DEF RecordInv, Fields, SameWork
      <4> QED
        BY <4>1, <4>3, <4>4, Zenon
    <3> QED
      BY <1>5, <3>1, <3>2, Zenon
  <2>3. j.job = i.job
    BY <2>2, Zenon DEF SameWork
  <2>4. PlaceInv(j) /\ Busy(j) /\ j.pc \notin {"Read", "Replace"}
    BY <1>2, <2>2 DEF PlaceInv, Busy, SameWork
  <2>5. Steady(p, i, j) /\ (Past(j) => Past(i))
    BY <1>3, <2>1, <2>2, <2>3, <2>4, SameWorkIsSteady, Zenon
  <2> QED
    BY <1>1, <1>2, <2>2, <2>4, <2>5, PlainStep, Zenon
<1>6. \A status, authority, digest :
        [status |-> status, authority |-> authority, digest |-> digest, by |-> p].by = p
  OBVIOUS
<1> QED
  BY <1>1, <1>4, <1>5, <1>6, Zenon DEF Resolve

LEMMA AcquireKeeps ==
  ASSUME InstallInv, NEW p \in Installers, Acquire(p)
  PROVE  InstallInv'
<1>1. PICK i : i = inst[p]
  BY Zenon
<1>2. /\ i.pc = "Wait" /\ holder = "None" /\ holder' = p /\ UNCHANGED <<fs, by, stray, doc>>
  BY <1>1, Zenon DEF Acquire, At, Unlocked, fileVars
<1>3. Busy(i) /\ i.pc # "Rollback"
  BY <1>2 DEF Busy
<1>4. RecordInv(p, i)
  BY <1>1, Zenon DEF InstallInv
<1>5. PICK j : j = [i EXCEPT !.pc = "Read"]
  BY Zenon
<1>6. inst' = [inst EXCEPT ![p] = j]
  BY <1>1, <1>5, Zenon DEF Acquire, Go
<1>7. SameWork(i, j) /\ j.pc = "Read" /\ j.entry = i.entry /\ j.job = i.job
  BY <1>4, <1>5, Zenon DEF RecordInv, Fields, SameWork
<1>8. PlaceInv(j) /\ Busy(j)
  BY <1>2, <1>4, <1>7, ZenonT(60) DEF RecordInv, PlaceInv, Busy, SameWork
<1>9. Steady(p, i, j) /\ (Past(j) => Past(i))
  <2>1. j.job.runtime # "None" => j.entry.by = p
    BY <1>2, <1>4, <1>7, Zenon DEF RecordInv
  <2> QED
    BY <1>3, <1>4, <1>7, <1>8, <2>1, SameWorkIsSteady, Zenon
<1>10. j.report = "None" /\ j.pc # "Replace"
  BY <1>4, <1>7, <1>9, SteadyRecord
<1>11. DocumentInv(p, j)'
  BY <1>2, <1>10, ZenonT(60) DEF DocumentInv
<1>12. DocStep(p)
  BY <1>2, Zenon DEF DocStep, LockStep
<1> QED
  BY <1>1, <1>2, <1>6, <1>9, <1>11, <1>12, QuietStep, Zenon


-----------------------------------------------------------------------------
(* The actions that touch files. *)

(* Nothing of p's appears unrecorded, and p's scripts stay. *)
Kept(p) ==
  /\ \A x \in Paths : (Mine(p, x) /\ x \notin stray)' => Mine(p, x) /\ x \notin stray
  /\ \A r \in Planned : Mine(p, Script[r]) => Mine(p, Script[r])'

LEMMA SteadyFiles ==
  ASSUME InstallInv, NEW p \in Installers, NEW i, i = inst[p], NEW j,
         inst' = [inst EXCEPT ![p] = j], Steady(p, i, j), Past(j) => Past(i),
         FileStep(p), Kept(p), j.pc \notin {"Read", "Replace"}, UNCHANGED <<doc, holder>>
  PROVE  InstallInv'
<1>1. RecordInv(p, i) /\ TraceInv(p, i) /\ ScriptInv(p, i)
  BY Zenon DEF InstallInv
<1>2. RecordInv(p, j) /\ i.report = "None" /\ j.report = "None" /\ i.pc # "Crashed"
  BY <1>1, SteadyRecord, Zenon
<1>3. j.undo = i.undo /\ j.warned = i.warned /\ j.job = i.job
  BY Zenon DEF Steady
<1>4. TraceInv(p, j)'
  BY <1>1, <1>2, <1>3, Zenon DEF TraceInv, Kept
<1>5. ScriptInv(p, j)'
  <2>1. ScriptInv(p, j)
    BY <1>1, <1>3, SteadyScripts, Zenon
  <2> QED
    BY <2>1, Zenon DEF ScriptInv, Kept, Past
<1>6. DocumentInv(p, j)'
  BY <1>2 DEF DocumentInv
<1>7. Moves(p, j)
  BY <1>2, Zenon DEF Moves, DocStep, LockStep
<1> QED
  BY <1>4, <1>5, <1>6, <1>7, StepKeeps, Zenon

LEMMA DirsMade ==
  ASSUME InstallInv, NEW p \in Installers, NEW made, NEW recorded, MakesDirs(p, made, recorded),
         \A r \in Planned : Script[r] \notin made
  PROVE  /\ FileStep(p)
         /\ \A x \in Paths : (Mine(p, x) /\ x \notin stray)' =>
              x \in recorded \/ (Mine(p, x) /\ x \notin stray)
         /\ \A r \in Planned : Mine(p, Script[r]) => Mine(p, Script[r])'
<1>1. /\ DOMAIN fs' = Paths /\ DOMAIN by' = Paths
      /\ \A x \in Paths : /\ x \in made => fs'[x] = "Dir" /\ by'[x] = p
                          /\ x \notin made => fs'[x] = fs[x] /\ by'[x] = by[x]
  BY Zenon DEF MakesDirs
<1>2. \A x : /\ x \in made => (x \in stray' \/ x \in recorded)
             /\ x \notin made => (x \in stray' <=> x \in stray)
  BY Zenon DEF MakesDirs
<1>3. \A r \in Planned : /\ Script[r] \in Paths /\ fs'[Script[r]] = fs[Script[r]]
                         /\ by'[Script[r]] = by[Script[r]]
  BY <1>1, InstallAssumption, Zenon DEF Paths
<1>4. "Dir" # "None"
  OBVIOUS
<1>5. FileStep(p)
  BY <1>1, <1>2, <1>3, <1>4, Zenon DEF FileStep
<1>6. ASSUME NEW x \in Paths, Mine(p, x)', x \notin stray', x \notin recorded
      PROVE  Mine(p, x) /\ x \notin stray
  BY <1>1, <1>2, <1>6, Zenon DEF Mine, Exists
<1>7. \A r \in Planned : Mine(p, Script[r]) => Mine(p, Script[r])'
  BY <1>3, Zenon DEF Mine, Exists
<1> QED
  BY <1>5, <1>6, <1>7, Zenon

LEMMA DirsUnrecorded ==
  ASSUME InstallInv, NEW p \in Installers, NEW made, MakesDirs(p, made, {}),
         \A r \in Planned : Script[r] \notin made
  PROVE  FileStep(p) /\ Kept(p)
<1>1. PICK none : none = {} /\ \A x : x \notin none
  OBVIOUS
<1>2. MakesDirs(p, made, none)
  BY <1>1, Zenon
<1>3. /\ FileStep(p)
      /\ \A x \in Paths : (Mine(p, x) /\ x \notin stray)' =>
           x \in none \/ (Mine(p, x) /\ x \notin stray)
      /\ \A r \in Planned : Mine(p, Script[r]) => Mine(p, Script[r])'
  BY <1>2, DirsMade, Zenon
<1> QED
  BY <1>1, <1>3, Zenon DEF Kept

LEMMA StartDownloadKeeps ==
  ASSUME InstallInv, NEW p \in Installers, StartDownload(p)
  PROVE  InstallInv'
<1>1. PICK i : i = inst[p]
  BY Zenon
<1>2. AtStep(p, "Download") /\ UNCHANGED <<doc, holder>>
  BY Zenon DEF StartDownload, lockVars
<1>3. /\ i.step <= Len(PlanOf(i.job)) /\ DownloadAt(i.job, i.step) /\ Busy(i)
      /\ i.pc # "Rollback" /\ i.job.runtime \in Planned
      /\ Current(p).path = Script[i.job.runtime]
  BY <1>1, <1>2, AtDownload, Zenon
<1>4. CASE StepFailed(p) /\ UNCHANGED <<fs, by, stray>>
  BY <1>1, <1>2, <1>3, <1>4, FailedStep, Zenon
<1>5. CASE \E gap \in Gaps(Chain[Parent(Current(p).path)]) : Fetches(p, Range(gap))
  <2> PICK gap \in Gaps(Chain[Parent(Current(p).path)]) : Fetches(p, Range(gap))
    BY <1>5, Zenon
  <2>1. PICK made : made = Range(gap)
    BY Zenon
  <2>2. MakesDirs(p, made, {}) /\ Go(p, "Send")
    BY <2>1, Zenon DEF Fetches
  <2>3. \A r \in Planned : Script[r] \notin made
    <3> DEFINE x == Script[i.job.runtime]
    <3>1. x \in Paths /\ Chain[x] \in Seq(Paths) /\ Len(Chain[x]) > 1
      BY <1>3, InstallAssumption, Zenon DEF Paths
    <3>2. Parent(x) \in Paths
      BY <3>1 DEF Parent
    <3>3. Chain[Parent(x)] \in Seq(Paths)
      BY <3>2, InstallAssumption, Zenon DEF Paths
    <3>4. \A r \in Planned : Script[r] \notin Range(Chain[Parent(x)])
      BY <1>3, InstallAssumption, Zenon DEF Parent
    <3> QED
      BY <1>3, <2>1, <3>3, <3>4, GapInChain, Zenon
  <2>4. FileStep(p) /\ Kept(p)
    BY <2>2, <2>3, DirsUnrecorded, Zenon
  <2>5. PICK j : j = [i EXCEPT !.pc = "Send"]
    BY Zenon
  <2>6. inst' = [inst EXCEPT ![p] = j]
    BY <1>1, <2>2, <2>5, Zenon DEF Go
  <2>7. RecordInv(p, i)
    BY <1>1, Zenon DEF InstallInv
  <2>8. SameWork(i, j) /\ j.pc = "Send"
    BY <2>5, <2>7, Zenon DEF RecordInv, Fields, SameWork
  <2>9. /\ PlaceInv(j) /\ Busy(j) /\ j.pc \notin {"Open", "Wait", "Read", "Replace"}
        /\ j.pc \notin {"Read", "Replace"}
    BY <1>3, <2>8 DEF PlaceInv, Busy, SameWork
  <2>10. Steady(p, i, j) /\ (Past(j) => Past(i))
    BY <1>3, <2>7, <2>8, <2>9, SameWorkIsSteady, Zenon
  <2> QED
    BY <1>1, <1>2, <2>4, <2>6, <2>9, <2>10, SteadyFiles, Zenon
<1> QED
  BY <1>4, <1>5, Zenon DEF StartDownload


LEMMA JoinedRange ==
  ASSUME NEW S, NEW s \in Seq(S), NEW t \in Seq(S)
  PROVE  /\ \A k \in DOMAIN (s \o t) : \/ k \in DOMAIN s /\ (s \o t)[k] = s[k]
                                       \/ (s \o t)[k] \in Range(t)
         /\ \A x \in Range(s) : x \in Range(s \o t)
         /\ \A x \in Range(t) : x \in Range(s \o t)
<1>1. \A k \in DOMAIN (s \o t) : \/ k \in DOMAIN s /\ (s \o t)[k] = s[k]
                                 \/ k - Len(s) \in DOMAIN t /\ (s \o t)[k] = t[k - Len(s)]
  OBVIOUS
<1>2. \A k \in DOMAIN s : k \in DOMAIN (s \o t) /\ (s \o t)[k] = s[k]
  OBVIOUS
<1>3. \A k \in DOMAIN t : k + Len(s) \in DOMAIN (s \o t) /\ (s \o t)[k + Len(s)] = t[k]
  OBVIOUS
<1>4. \A k \in DOMAIN (s \o t) : \/ k \in DOMAIN s /\ (s \o t)[k] = s[k]
                                 \/ (s \o t)[k] \in Range(t)
  BY <1>1, Zenon DEF Range
<1>5. \A x \in Range(s) : x \in Range(s \o t)
  BY <1>2, Zenon DEF Range
<1>6. \A x \in Range(t) : x \in Range(s \o t)
  BY <1>3, Zenon DEF Range
<1> QED
  BY <1>4, <1>5, <1>6, Zenon

(* The step of the plan that p has just finished made directories. *)
LEMMA MadeDirectory ==
  ASSUME InstallInv, NEW p \in Installers, NEW i, i = inst[p], i.pc = "Make", NEW made,
         MakesDirs(p, made, Range(i.missing)), \A r \in Planned : Script[r] \notin made,
         inst' = [inst EXCEPT ![p].pc = "Step", ![p].step = @ + 1,
                              ![p].undo = @ \o Undoes(p), ![p].missing = <<>>],
         UNCHANGED <<doc, holder>>
  PROVE  InstallInv'
<1>1. PICK j : j = [i EXCEPT !.pc = "Step", !.step = @ + 1, !.undo = @ \o i.missing,
                             !.missing = <<>>]
  BY Zenon
<1>2. inst' = [inst EXCEPT ![p] = j]
  BY <1>1, Zenon DEF InstallInv, Undoes
<1>3. RecordInv(p, i) /\ TraceInv(p, i) /\ ScriptInv(p, i)
  BY Zenon DEF InstallInv
<1>4. /\ DOMAIN j = Fields /\ j.pc = "Step" /\ j.step = i.step + 1
      /\ j.job = i.job /\ j.report = i.report /\ j.undo = i.undo \o i.missing
      /\ j.warned = i.warned /\ j.missing = <<>>
  BY <1>1, <1>3, Zenon DEF RecordInv, Fields
<1>5. /\ i.step \in Nat \ {0} /\ i.missing \in Seq(Paths) /\ NoScript(i.missing)
      /\ i.undo \in Seq(Paths) /\ i.report = "None" /\ j.report = "None"
      /\ i.job.runtime \in Planned \union {"None"}
  <2>1. i.report = "None" /\ i.pc # "Idle" /\ i.pc # "Done"
    BY <1>3, BusyReport, Midway, Zenon
  <2> QED
    BY <1>3, <1>4, <2>1, Zenon DEF RecordInv
<1>6. i.step <= Len(PlanOf(i.job)) /\ DirectoryAt(i.job, i.step)
  BY AtDirectory, Zenon
<1>7. ~Past(j)
  <2>1. j.job.runtime \in Planned => ~(j.step >= Len(PlanOf(j.job)))
    <3>1. j.job = i.job /\ i.step \in Nat /\ j.step = i.step + 1
      BY <1>4, <1>5, Zenon
    <3>2. Len(PlanOf(i.job)) \in Nat /\ (i.job.runtime \in Planned => i.step < Len(PlanOf(i.job)) - 1)
      BY <1>6, PlanShape, Zenon DEF DirectoryAt
    <3> QED
      BY <3>1, <3>2, NotLast, Zenon
  <2>2. j.report # "Completed"
    BY <1>5, Zenon
  <2> QED
    BY <2>1, <2>2, Zenon DEF Past
<1>8. RecordInv(p, j)
  <2>1. j.step \in Nat \ {0} /\ j.undo \in Seq(Paths) /\ j.missing \in Seq(Paths)
    BY <1>4, <1>5, NextStep, Lists, Zenon
  <2>2. PlaceInv(j) /\ j.pc # "Idle" /\ j.pc \notin {"Open", "Wait", "Read", "Replace"}
    BY <1>4, StepPlace, Zenon
  <2>3. \A x : x \notin Range(<<>>)
    BY DEF Range
  <2>4. NoScript(j.missing)
    BY <1>4, <2>3, Zenon DEF NoScript
  <2> QED
    BY <1>4, <1>5, <2>1, <2>2, <2>4, Zenon DEF RecordInv
<1>9. /\ \A k \in DOMAIN j.undo : \/ k \in DOMAIN i.undo /\ j.undo[k] = i.undo[k]
                                  \/ j.undo[k] \in Range(i.missing)
      /\ \A x \in Range(i.undo) : x \in Range(j.undo)
      /\ \A x \in Range(i.missing) : x \in Range(j.undo)
  BY <1>4, <1>5, JoinedRange, ZenonT(60)
<1>10. /\ FileStep(p)
       /\ \A x \in Paths : (Mine(p, x) /\ x \notin stray)' =>
            x \in Range(i.missing) \/ (Mine(p, x) /\ x \notin stray)
       /\ \A r \in Planned : Mine(p, Script[r]) => Mine(p, Script[r])'
  BY DirsMade, Zenon
<1>11. TraceInv(p, j)'
  <2>1. i.pc # "Crashed"
    BY Zenon
  <2> QED
    BY <1>3, <1>4, <1>5, <1>9, <1>10, <2>1, Zenon DEF TraceInv
<1>12. ScriptInv(p, j)'
  <2>1. ASSUME NEW r \in Planned, NEW k \in DOMAIN j.undo, j.undo[k] = Script[r]
        PROVE  k \in DOMAIN i.undo /\ i.undo[k] = Script[r]
    BY <1>5, <1>9, <2>1, Zenon DEF NoScript
  <2>2. \A r \in Planned : Script[r] \in Range(j.undo) => Script[r] \in Range(i.undo)
    BY <2>1, Zenon DEF Range
  <2>3. \A r \in Planned, m, k \in DOMAIN j.undo :
          j.undo[m] = Script[r] /\ j.undo[k] = Script[r] => m = k
    <3>1. \A r \in Planned, m, k \in DOMAIN i.undo :
            i.undo[m] = Script[r] /\ i.undo[k] = Script[r] => m = k
      BY <1>3, Zenon DEF ScriptInv
    <3>2. ASSUME NEW r \in Planned, NEW m \in DOMAIN j.undo, NEW k \in DOMAIN j.undo,
                 j.undo[m] = Script[r], j.undo[k] = Script[r]
          PROVE  m = k
      <4>1. m \in DOMAIN i.undo /\ i.undo[m] = Script[r]
        BY <2>1, <3>2, Zenon
      <4>2. k \in DOMAIN i.undo /\ i.undo[k] = Script[r]
        BY <2>1, <3>2, Zenon
      <4> QED
        BY <3>1, <4>1, <4>2, Zenon
    <3> QED
      BY <3>2, Zenon
  <2>4. \A r \in Planned : Script[r] \in Range(j.undo) => Mine(p, Script[r])'
    BY <1>3, <1>10, <2>2, Zenon DEF ScriptInv
  <2> QED
    BY <1>7, <2>3, <2>4, Zenon DEF ScriptInv
<1>13. DocumentInv(p, j)'
  BY <1>4, <1>5, StepDocument, Zenon
<1>14. Moves(p, j)
  BY <1>2, <1>8, <1>10, Zenon DEF Moves, DocStep, LockStep
<1> QED
  BY <1>11, <1>12, <1>13, <1>14, StepKeeps, Zenon

(* A failing step after it has made directories without recording them. *)
LEMMA FailedFiles ==
  ASSUME InstallInv, NEW p \in Installers, NEW i, i = inst[p], Busy(i), StepFailed(p),
         FileStep(p), Kept(p), UNCHANGED <<doc, holder>>
  PROVE  InstallInv'
<1>1. PICK j : j = [i EXCEPT !.pc = "Rollback"]
  BY Zenon
<1>2. inst' = [inst EXCEPT ![p] = j]
  BY <1>1, Zenon DEF StepFailed, Go
<1>3. RecordInv(p, i)
  BY Zenon DEF InstallInv
<1>4. Steady(p, i, j) /\ ~Past(j) /\ j.pc = "Rollback"
  BY <1>1, <1>3, RollbackIsSteady, Zenon
<1>5. j.pc \notin {"Read", "Replace"}
  BY <1>4
<1> QED
  BY <1>2, <1>4, <1>5, SteadyFiles, Zenon

LEMMA MakeDirectoryKeeps ==
  ASSUME InstallInv, NEW p \in Installers, MakeDirectory(p)
  PROVE  InstallInv'
<1>1. PICK i : i = inst[p]
  BY Zenon
<1>2. i.pc = "Make" /\ UNCHANGED <<doc, holder>>
  BY <1>1, Zenon DEF MakeDirectory, At, lockVars
<1>3. Busy(i) /\ Clear(Current(p).path)
  BY <1>1, <1>2, AtDirectory, Zenon
<1>4. PICK gap \in Gaps(Chain[Current(p).path]) :
         \/ /\ MakesDirs(p, Range(gap), Range(inst[p].missing))
            /\ inst' = [inst EXCEPT ![p].pc = "Step", ![p].step = @ + 1,
                                    ![p].undo = @ \o Undoes(p), ![p].missing = <<>>]
         \/ StepFailed(p) /\ UNCHANGED <<fs, by, stray>>
         \/ /\ \E n \in 0..(Len(gap) - 1) : MakesDirs(p, Range(SubSeq(gap, 1, n)), {})
            /\ StepFailed(p)
  BY Zenon DEF MakeDirectory
<1>5. gap \in Seq(Paths) /\ NoScript(gap)
  <2>1. Chain[Current(p).path] \in Seq(Paths)
    BY <1>3, InstallAssumption, Zenon DEF Clear, Paths
  <2> QED
    BY <1>3, <2>1, GapInChain, Zenon DEF NoScript, Clear
<1>6. CASE /\ MakesDirs(p, Range(gap), Range(i.missing))
           /\ inst' = [inst EXCEPT ![p].pc = "Step", ![p].step = @ + 1,
                                   ![p].undo = @ \o Undoes(p), ![p].missing = <<>>]
  BY <1>1, <1>2, <1>5, <1>6, MadeDirectory, Zenon DEF NoScript
<1>7. CASE StepFailed(p) /\ UNCHANGED <<fs, by, stray>>
  BY <1>1, <1>2, <1>3, <1>7, FailedStep, Zenon
<1>8. CASE /\ StepFailed(p)
           /\ \E n \in 0..(Len(gap) - 1) : MakesDirs(p, Range(SubSeq(gap, 1, n)), {})
  <2>1. PICK n \in 0..(Len(gap) - 1) : MakesDirs(p, Range(SubSeq(gap, 1, n)), {})
    BY <1>8, Zenon
  <2>2. \A r \in Planned : Script[r] \notin Range(SubSeq(gap, 1, n))
    <3>1. \A k \in DOMAIN SubSeq(gap, 1, n) : k \in DOMAIN gap /\ SubSeq(gap, 1, n)[k] = gap[k]
      BY <1>5, <2>1
    <3> QED
      BY <1>5, <3>1, Zenon DEF NoScript, Range
  <2>3. FileStep(p) /\ Kept(p)
    BY <2>1, <2>2, DirsUnrecorded, Zenon
  <2> QED
    BY <1>1, <1>2, <1>3, <1>8, <2>3, FailedFiles, Zenon
<1> QED
  BY <1>1, <1>4, <1>6, <1>7, <1>8, Zenon


(* The download is published and recorded: its script is p's. *)
LEMMA Published ==
  ASSUME InstallInv, NEW p \in Installers, NEW i, i = inst[p], i.pc = "Publish",
         NEW x, x = Current(p).path, ~Exists(x), MakesFile(p, x), stray' = stray \ {x},
         inst' = [inst EXCEPT ![p].pc = "Step", ![p].step = @ + 1, ![p].undo = Append(@, x)],
         UNCHANGED <<doc, holder>>
  PROVE  InstallInv'
<1>1. PICK j : j = [i EXCEPT !.pc = "Step", !.step = @ + 1, !.undo = Append(@, x)]
  BY Zenon
<1>2. inst' = [inst EXCEPT ![p] = j]
  BY <1>1, Zenon DEF InstallInv
<1>3. RecordInv(p, i) /\ TraceInv(p, i) /\ ScriptInv(p, i)
  BY Zenon DEF InstallInv
<1>4. /\ DOMAIN j = Fields /\ j.pc = "Step" /\ j.step = i.step + 1
      /\ j.job = i.job /\ j.report = i.report /\ j.undo = Append(i.undo, x)
      /\ j.warned = i.warned /\ j.missing = i.missing
  BY <1>1, <1>3, Zenon DEF RecordInv, Fields
<1>5. /\ i.step \in Nat \ {0} /\ i.missing \in Seq(Paths) /\ NoScript(i.missing)
      /\ i.undo \in Seq(Paths) /\ i.report = "None" /\ j.report = "None"
      /\ i.job.runtime \in Planned \union {"None"} /\ i.pc # "Crashed"
  <2>1. i.report = "None" /\ i.pc # "Idle" /\ i.pc # "Done" /\ i.pc # "Crashed"
    BY <1>3, BusyReport, Midway, Zenon
  <2> QED
    BY <1>3, <1>4, <2>1, Zenon DEF RecordInv
<1>6. i.job.runtime \in Planned /\ x = Script[i.job.runtime]
  BY AtDownload, Zenon
<1>7. x \in Paths /\ \A r \in Planned : Script[r] \in Paths
  BY <1>6, InstallAssumption, Zenon DEF Paths
<1>8. /\ DOMAIN fs' = Paths /\ DOMAIN by' = Paths /\ fs'[x] = "File" /\ by'[x] = p
      /\ \A y \in Paths : y # x => fs'[y] = fs[y] /\ by'[y] = by[y]
                                   /\ (y \in stray' <=> y \in stray)
  BY <1>7, Zenon DEF MakesFile, InstallInv
<1>9. /\ DOMAIN j.undo = 1..(Len(i.undo) + 1) /\ DOMAIN i.undo = 1..Len(i.undo)
      /\ \A k \in DOMAIN i.undo : k \in DOMAIN j.undo /\ j.undo[k] = i.undo[k]
      /\ Len(i.undo) + 1 \in DOMAIN j.undo /\ j.undo[Len(i.undo) + 1] = x
      /\ \A k \in DOMAIN j.undo : k \in DOMAIN i.undo \/ k = Len(i.undo) + 1
      /\ j.undo \in Seq(Paths)
  <2>1. i.undo \in Seq(Paths) /\ x \in Paths /\ j.undo = Append(i.undo, x)
    BY <1>4, <1>5, <1>7, Zenon
  <2> QED
    BY <2>1
<1>10. "File" # "None"
  OBVIOUS
<1>11. Mine(p, x)' /\ \A r \in Planned : Mine(p, Script[r]) => Mine(p, Script[r])'
  BY <1>7, <1>8, <1>10, Zenon DEF Mine, Exists
<1>12. FileStep(p)
  <2>1. \A y \in Paths :
          \/ fs'[y] = fs[y] /\ by'[y] = by[y] /\ (y \in stray => y \in stray')
          \/ fs'[y] # "None" /\ by'[y] = p
    BY <1>8, <1>10, Zenon
  <2>2. \A r \in Planned : \/ fs'[Script[r]] = fs[Script[r]] /\ by'[Script[r]] = by[Script[r]]
                           \/ ~Exists(Script[r])
    BY <1>7, <1>8, Zenon
  <2> QED
    BY <1>8, <2>1, <2>2, Zenon DEF FileStep
<1>13. RecordInv(p, j)
  <2>1. j.step \in Nat \ {0} /\ j.undo \in Seq(Paths)
    BY <1>4, <1>5, <1>9, NextStep, Zenon
  <2>2. PlaceInv(j) /\ j.pc # "Idle" /\ j.pc \notin {"Open", "Wait", "Read", "Replace"}
    BY <1>4, StepPlace, Zenon
  <2> QED
    BY <1>4, <1>5, <2>1, <2>2, Zenon DEF RecordInv
<1>14. TraceInv(p, j)'
  <2>1. ASSUME NEW y \in Paths, Mine(p, y)', y \notin stray' PROVE y \in Range(j.undo) \/ j.warned
    <3>1. CASE y = x
      BY <1>9, <3>1, Zenon DEF Range
    <3>2. CASE y # x
      <4>1. Mine(p, y) /\ y \notin stray
        BY <1>8, <2>1, <3>2, Zenon DEF Mine, Exists
      <4>2. y \in Range(i.undo) \/ i.warned
        BY <1>3, <1>5, <4>1, Zenon DEF TraceInv
      <4>3. y \in Range(i.undo) => y \in Range(j.undo)
        BY <1>9, Zenon DEF Range
      <4> QED
        BY <1>4, <4>2, <4>3, Zenon
    <3> QED
      BY <3>1, <3>2, Zenon
  <2> QED
    BY <1>5, <2>1, Zenon DEF TraceInv
<1>15. ScriptInv(p, j)'
  <2>1. x \notin Range(i.undo)
    BY <1>3, <1>6, Zenon DEF ScriptInv, Mine
  <2>2. \A r \in Planned : Script[r] \in Range(j.undo) => Mine(p, Script[r])'
    <3>1. \A y \in Range(j.undo) : y \in Range(i.undo) \/ y = x
      BY <1>9, Zenon DEF Range
    <3> QED
      BY <1>3, <1>11, <3>1, Zenon DEF ScriptInv
  <2>3. ASSUME NEW r \in Planned, NEW m \in DOMAIN j.undo, NEW k \in DOMAIN j.undo,
               j.undo[m] = Script[r], j.undo[k] = Script[r]
        PROVE  m = k
    <3>1. CASE Script[r] = x
      <4>1. m \notin DOMAIN i.undo /\ k \notin DOMAIN i.undo
        BY <1>9, <2>1, <2>3, <3>1, Zenon DEF Range
      <4> QED
        BY <1>9, <4>1, Zenon
    <3>2. CASE Script[r] # x
      <4>1. m \in DOMAIN i.undo /\ k \in DOMAIN i.undo
        BY <1>9, <2>3, <3>2, Zenon
      <4>2. i.undo[m] = Script[r] /\ i.undo[k] = Script[r]
        BY <1>9, <2>3, <4>1, Zenon
      <4> QED
        BY <1>3, <4>1, <4>2, Zenon DEF ScriptInv
    <3> QED
      BY <3>1, <3>2, Zenon
  <2>4. Mine(p, Script[j.job.runtime])'
    BY <1>4, <1>6, <1>11, Zenon
  <2> QED
    BY <2>2, <2>3, <2>4, Zenon DEF ScriptInv
<1>16. DocumentInv(p, j)'
  BY <1>4, <1>5, StepDocument, Zenon
<1>17. Moves(p, j)
  BY <1>2, <1>12, <1>13, Zenon DEF Moves, DocStep, LockStep
<1> QED
  BY <1>14, <1>15, <1>16, <1>17, StepKeeps, Zenon

LEMMA PublishKeeps ==
  ASSUME InstallInv, NEW p \in Installers, Publish(p)
  PROVE  InstallInv'
<1>1. PICK i : i = inst[p]
  BY Zenon
<1>2. i.pc = "Publish" /\ UNCHANGED <<doc, holder>>
  BY <1>1, Zenon DEF Publish, At, lockVars
<1>3. Busy(i) /\ i.job.runtime \in Planned /\ Current(p).path = Script[i.job.runtime]
  BY <1>1, <1>2, AtDownload, Zenon
<1>4. PICK x : x = Current(p).path
  BY Zenon
<1>5. CASE /\ Vacant(x) /\ MakesFile(p, x) /\ stray' = stray \ {x}
           /\ inst' = [inst EXCEPT ![p].pc = "Step", ![p].step = @ + 1,
                                   ![p].undo = Append(@, x)]
  BY <1>1, <1>2, <1>4, <1>5, Published, Zenon DEF Vacant
<1>6. CASE Vacant(x) /\ MakesFile(p, x) /\ stray' = stray \union {x} /\ StepFailed(p)
  <2>1. x \in Paths /\ \A r \in Planned : Script[r] \in Paths
    BY <1>3, <1>4, InstallAssumption, Zenon DEF Paths
  <2>2. /\ DOMAIN fs' = Paths /\ DOMAIN by' = Paths /\ fs'[x] = "File" /\ by'[x] = p
        /\ x \in stray' /\ ~Exists(x)
        /\ \A y \in Paths : y # x => fs'[y] = fs[y] /\ by'[y] = by[y]
                                     /\ (y \in stray' <=> y \in stray)
    BY <1>6, <2>1, Zenon DEF MakesFile, InstallInv, Vacant
  <2>3. "File" # "None"
    OBVIOUS
  <2>4. FileStep(p)
    <3>1. \A y \in Paths :
            \/ fs'[y] = fs[y] /\ by'[y] = by[y] /\ (y \in stray => y \in stray')
            \/ fs'[y] # "None" /\ by'[y] = p
      BY <2>2, <2>3, Zenon
    <3>2. \A r \in Planned : \/ fs'[Script[r]] = fs[Script[r]] /\ by'[Script[r]] = by[Script[r]]
                             \/ ~Exists(Script[r])
      BY <2>1, <2>2, Zenon
    <3> QED
      BY <2>2, <3>1, <3>2, Zenon DEF FileStep
  <2>5. Kept(p)
    <3>1. \A y \in Paths : (Mine(p, y) /\ y \notin stray)' => Mine(p, y) /\ y \notin stray
      BY <2>2, Zenon DEF Mine, Exists
    <3>2. \A r \in Planned : Mine(p, Script[r]) => Mine(p, Script[r])'
      BY <2>1, <2>2, Zenon DEF Mine, Exists
    <3> QED
      BY <3>1, <3>2, Zenon DEF Kept
  <2> QED
    BY <1>1, <1>2, <1>3, <1>6, <2>4, <2>5, FailedFiles, Zenon
<1>7. CASE StepFailed(p) /\ UNCHANGED <<fs, by, stray>>
  BY <1>1, <1>2, <1>3, <1>7, FailedStep, Zenon
<1> QED
  BY <1>4, <1>5, <1>6, <1>7, Zenon DEF Publish


LEMMA NewestOfUndo ==
  ASSUME NEW S, NEW s \in Seq(S), s # <<>>
  PROVE  /\ Older(s) \in Seq(S) /\ Newest(s) \in S /\ Newest(s) = s[Len(s)] /\ Len(s) \in DOMAIN s
         /\ \A k \in DOMAIN Older(s) : k \in DOMAIN s /\ k # Len(s) /\ Older(s)[k] = s[k]
         /\ \A x \in Range(s) : x = Newest(s) \/ x \in Range(Older(s))
<1>1. Len(s) \in Nat /\ Len(s) > 0 /\ Len(s) \in DOMAIN s
  OBVIOUS
<1>2. Newest(s) \in S /\ Newest(s) = s[Len(s)]
  BY <1>1 DEF Newest
<1>3. Older(s) = SubSeq(s, 1, Len(s) - 1)
  BY Zenon DEF Older
<1>4. /\ Older(s) \in Seq(S)
      /\ \A k \in DOMAIN Older(s) : k \in DOMAIN s /\ k # Len(s) /\ Older(s)[k] = s[k]
      /\ \A k \in DOMAIN s : k = Len(s) \/ k \in DOMAIN Older(s)
  BY <1>1, <1>3
<1>5. \A x \in Range(s) : x = Newest(s) \/ x \in Range(Older(s))
  BY <1>2, <1>4, Zenon DEF Range
<1> QED
  BY <1>1, <1>2, <1>4, <1>5, Zenon

(* One change taken off the list: undone, or reported as left behind. *)
LEMMA UndoKeeps ==
  ASSUME InstallInv, NEW p \in Installers, Undo(p)
  PROVE  InstallInv'
<1>1. PICK i : i = inst[p]
  BY Zenon
<1>2. i.pc = "Rollback" /\ i.undo # <<>> /\ UNCHANGED <<doc, holder>>
  BY <1>1, Zenon DEF Undo, At, lockVars
<1>3. RecordInv(p, i) /\ TraceInv(p, i) /\ ScriptInv(p, i)
  BY <1>1, Zenon DEF InstallInv
<1>4. PICK x : x = Newest(i.undo)
  BY Zenon
<1>5. PICK rest : rest = Older(i.undo)
  BY Zenon
<1>6. i.undo \in Seq(Paths)
  BY <1>3, Zenon DEF RecordInv
<1>7. /\ rest \in Seq(Paths) /\ x \in Paths /\ x = i.undo[Len(i.undo)]
      /\ Len(i.undo) \in DOMAIN i.undo
      /\ \A k \in DOMAIN rest : k \in DOMAIN i.undo /\ k # Len(i.undo) /\ rest[k] = i.undo[k]
      /\ \A y \in Range(i.undo) : y = x \/ y \in Range(rest)
  BY <1>2, <1>4, <1>5, <1>6, NewestOfUndo, Zenon
<1>8. \A y \in Range(rest) : y \in Range(i.undo)
  BY <1>7, Zenon DEF Range
<1>9. x \in Range(i.undo)
  BY <1>7, Zenon DEF Range
<1>10. \A r \in Planned : Script[r] \in Paths
  BY InstallAssumption, Zenon DEF Paths
<1>11. \A r \in Planned : Script[r] = x => Mine(p, x) /\ x \notin Range(rest)
  <2>1. ASSUME NEW r \in Planned, Script[r] = x, NEW k \in DOMAIN rest, rest[k] = x PROVE FALSE
    <3>1. \A m, n \in DOMAIN i.undo : i.undo[m] = Script[r] /\ i.undo[n] = Script[r] => m = n
      BY <1>3, Zenon DEF ScriptInv
    <3> QED
      BY <1>7, <2>1, <3>1, Zenon
  <2>2. \A r \in Planned : Script[r] = x => Mine(p, x)
    BY <1>3, <1>9, Zenon DEF ScriptInv
  <2>3. \A r \in Planned : Script[r] = x => x \notin Range(rest)
    BY <2>1, Zenon DEF Range
  <2> QED
    BY <2>2, <2>3, Zenon
<1>12. PICK j, gone :
         /\ inst' = [inst EXCEPT ![p] = j]
         /\ gone \in BOOLEAN
         /\ gone => /\ j = [i EXCEPT !.undo = rest]
                    /\ fs' = [fs EXCEPT ![x] = "None"] /\ by' = [by EXCEPT ![x] = "Host"]
                    /\ stray' = stray \ {x}
         /\ ~gone => /\ j = [i EXCEPT !.undo = rest, !.warned = TRUE]
                     /\ UNCHANGED <<fs, by, stray>>
  <2>1. CASE /\ fs' = [fs EXCEPT ![x] = "None"] /\ by' = [by EXCEPT ![x] = "Host"]
             /\ stray' = stray \ {x} /\ inst' = [inst EXCEPT ![p].undo = rest]
    <3>1. inst' = [inst EXCEPT ![p] = [i EXCEPT !.undo = rest]]
      BY <1>1, <2>1, Zenon
    <3> QED
      BY <2>1, <3>1, Zenon
  <2>2. CASE /\ UNCHANGED <<fs, by, stray>>
             /\ inst' = [inst EXCEPT ![p].undo = rest, ![p].warned = TRUE]
    <3>1. inst' = [inst EXCEPT ![p] = [i EXCEPT !.undo = rest, !.warned = TRUE]]
      BY <1>1, <2>2, Zenon DEF InstallInv
    <3> QED
      BY <2>2, <3>1, Zenon
  <2> QED
    BY <1>1, <1>4, <1>5, <2>1, <2>2, Zenon DEF Undo
<1>13. /\ DOMAIN j = Fields /\ j.pc = "Rollback" /\ j.step = i.step
       /\ j.job = i.job /\ j.report = i.report /\ j.undo = rest
       /\ j.missing = i.missing /\ (gone => j.warned = i.warned) /\ (~gone => j.warned)
  <2>1. DOMAIN i = Fields
    BY <1>3, Zenon DEF RecordInv
  <2>2. CASE j = [i EXCEPT !.undo = rest] /\ gone
    BY <1>2, <2>1, <2>2, Zenon DEF Fields
  <2>3. CASE j = [i EXCEPT !.undo = rest, !.warned = TRUE] /\ ~gone
    BY <1>2, <2>1, <2>3, Zenon DEF Fields
  <2> QED
    BY <1>12, <2>2, <2>3, Zenon
<1>14. i.report = "None" /\ j.report = "None" /\ i.pc # "Crashed" /\ j.pc # "Idle"
       /\ j.pc \notin {"Open", "Wait", "Read", "Replace"} /\ ~Past(j)
       /\ PlaceInv(j) /\ i.pc # "Done" /\ i.pc # "Idle"
  <2>1. i.report = "None" /\ j.report = "None"
    BY <1>2, <1>3, <1>13 DEF RecordInv
  <2> QED
    BY <1>2, <1>13, <2>1 DEF Past, PlaceInv
<1>15. RecordInv(p, j)
  BY <1>3, <1>7, <1>13, <1>14, Zenon DEF RecordInv
<1>16. /\ DOMAIN fs' = Paths /\ DOMAIN by' = Paths
       /\ gone => fs'[x] = "None" /\ by'[x] = "Host"
       /\ \A y \in Paths : y # x \/ ~gone => /\ fs'[y] = fs[y] /\ by'[y] = by[y]
                                             /\ y \in stray' <=> y \in stray
  <2>1. DOMAIN fs = Paths /\ DOMAIN by = Paths
    BY Zenon DEF InstallInv
  <2>2. CASE gone
    BY <1>7, <1>12, <2>1, <2>2, Zenon
  <2>3. CASE ~gone
    BY <1>12, <2>1, <2>3, Zenon
  <2> QED
    BY <2>2, <2>3, Zenon
<1>17. FileStep(p)
  <2>1. \A y \in Paths :
          \/ fs'[y] = fs[y] /\ by'[y] = by[y] /\ (y \in stray => y \in stray')
          \/ fs'[y] = "None" /\ by'[y] = "Host"
    BY <1>16, Zenon
  <2>2. \A r \in Planned : \/ fs'[Script[r]] = fs[Script[r]] /\ by'[Script[r]] = by[Script[r]]
                           \/ Mine(p, Script[r])
    BY <1>10, <1>11, <1>16, Zenon
  <2> QED
    BY <1>16, <2>1, <2>2, Zenon DEF FileStep
<1>18. TraceInv(p, j)'
  <2>1. ASSUME NEW y \in Paths, Mine(p, y)', y \notin stray', ~j.warned PROVE y \in Range(rest)
    <3>1. gone /\ ~i.warned
      BY <1>12, <1>13, <2>1, Zenon
    <3>2. y # x
      BY <1>16, <2>1, <3>1, Zenon DEF Mine, Exists
    <3>3. Mine(p, y) /\ y \notin stray
      BY <1>16, <2>1, <3>2, Zenon DEF Mine, Exists
    <3>4. y \in Range(i.undo)
      BY <1>3, <1>14, <3>1, <3>3, Zenon DEF TraceInv
    <3> QED
      BY <1>7, <3>2, <3>4, Zenon
  <2> QED
    BY <1>13, <1>14, <2>1, Zenon DEF TraceInv
<1>19. ScriptInv(p, j)'
  <2>1. ASSUME NEW r \in Planned, Script[r] \in Range(rest) PROVE Mine(p, Script[r])'
    <3>1. Script[r] # x /\ Mine(p, Script[r])
      BY <1>3, <1>8, <1>11, <2>1, Zenon DEF ScriptInv
    <3> QED
      BY <1>10, <1>16, <3>1, Zenon DEF Mine, Exists
  <2>2. ASSUME NEW r \in Planned, NEW m \in DOMAIN rest, NEW k \in DOMAIN rest,
               rest[m] = Script[r], rest[k] = Script[r]
        PROVE  m = k
    <3>1. m \in DOMAIN i.undo /\ k \in DOMAIN i.undo
          /\ i.undo[m] = Script[r] /\ i.undo[k] = Script[r]
      BY <1>7, <2>2, Zenon
    <3> QED
      BY <1>3, <3>1, Zenon DEF ScriptInv
  <2> QED
    BY <1>13, <1>14, <2>1, <2>2, Zenon DEF ScriptInv
<1>20. DocumentInv(p, j)'
  BY <1>13, <1>14 DEF DocumentInv
<1>21. Moves(p, j)
  BY <1>2, <1>12, <1>15, <1>17, Zenon DEF Moves, DocStep, LockStep
<1> QED
  BY <1>18, <1>19, <1>20, <1>21, StepKeeps, Zenon


LEMMA OpenLockKeeps ==
  ASSUME InstallInv, NEW p \in Installers, OpenLock(p)
  PROVE  InstallInv'
<1>1. PICK i : i = inst[p]
  BY Zenon
<1>2. i.pc = "Open" /\ UNCHANGED <<doc, holder>>
  BY <1>1, Zenon DEF OpenLock, At, lockVars
<1>3. Busy(i) /\ i.pc # "Rollback"
  BY <1>2 DEF Busy
<1> PICK gap \in Gaps(Chain[Data]) :
         \/ /\ fs' = [x \in Paths |-> IF x \in Range(gap) THEN "Dir"
                                      ELSE IF x = LockPath THEN "File" ELSE fs[x]]
            /\ by' = [x \in Paths |-> IF x \in Range(gap) THEN p ELSE by[x]]
            /\ stray' = stray \union Range(gap)
            /\ Go(p, "Wait")
         \/ Ends(p, "Partial") /\ UNCHANGED <<fs, by, stray>>
  BY Zenon DEF OpenLock
<1>4. PICK made : made = Range(gap)
  BY Zenon
<1>5. CASE Ends(p, "Partial") /\ UNCHANGED <<fs, by, stray>>
  <2>1. FileStep(p) /\ DocStep(p)
    BY <1>2, <1>5, NoFileStep, Zenon DEF DocStep, LockStep
  <2> QED
    BY <1>1, <1>3, <1>5, <2>1, PartialEnds, Zenon
<1>6. CASE /\ fs' = [x \in Paths |-> IF x \in made THEN "Dir"
                                      ELSE IF x = LockPath THEN "File" ELSE fs[x]]
           /\ by' = [x \in Paths |-> IF x \in made THEN p ELSE by[x]]
           /\ stray' = stray \union made
           /\ Go(p, "Wait")
  <2>1. \A r \in Planned : Script[r] \in Paths /\ Script[r] \notin made /\ Script[r] # LockPath
    <3>1. Chain[Data] \in Seq(Paths)
      BY InstallAssumption DEF Paths
    <3>2. \A r \in Planned : Script[r] \in Paths /\ Script[r] \notin Range(Chain[Data])
                             /\ Script[r] # LockPath
      BY InstallAssumption, Zenon DEF Paths
    <3> QED
      BY <1>4, <3>1, <3>2, GapInChain, Zenon
  <2>2. /\ DOMAIN fs' = Paths /\ DOMAIN by' = Paths
        /\ \A x \in Paths :
             /\ x \in made => fs'[x] = "Dir" /\ by'[x] = p /\ x \in stray'
             /\ x \notin made => by'[x] = by[x] /\ (fs'[x] = fs[x] \/ fs'[x] = "File")
                                 /\ (x \in stray' <=> x \in stray)
             /\ x \notin made /\ x # LockPath => fs'[x] = fs[x]
    BY <1>6, Zenon
  <2>3. "Dir" # "None" /\ "File" # "None"
    OBVIOUS
  <2>4. FileStep(p)
    <3>1. ASSUME NEW x \in Paths
          PROVE  \/ fs'[x] = fs[x] /\ by'[x] = by[x] /\ (x \in stray => x \in stray')
                 \/ fs'[x] # "None" /\ by'[x] = p
                 \/ fs'[x] # "None" /\ by'[x] = by[x] /\ (x \in stray => x \in stray')
      BY <2>2, <2>3, Zenon
    <3>2. \A r \in Planned : fs'[Script[r]] = fs[Script[r]] /\ by'[Script[r]] = by[Script[r]]
      BY <2>1, <2>2, Zenon
    <3> QED
      BY <2>2, <3>1, <3>2, Zenon DEF FileStep
  <2>5. Kept(p)
    <3>1. ASSUME NEW x \in Paths, Mine(p, x)', x \notin stray' PROVE Mine(p, x) /\ x \notin stray
      <4>1. by[x] = p /\ x \notin stray
        BY <2>2, <3>1, Zenon DEF Mine
      <4>2. p # "Host"
        BY InstallAssumption, Zenon
      <4> QED
        BY <4>1, <4>2, Zenon DEF Mine, InstallInv
    <3>2. \A r \in Planned : Mine(p, Script[r]) => Mine(p, Script[r])'
      BY <2>1, <2>2, Zenon DEF Mine, Exists
    <3> QED
      BY <3>1, <3>2, Zenon DEF Kept
  <2>6. PICK j : j = [i EXCEPT !.pc = "Wait"]
    BY Zenon
  <2>7. inst' = [inst EXCEPT ![p] = j]
    BY <1>1, <1>6, <2>6, Zenon DEF Go
  <2>8. RecordInv(p, i)
    BY <1>1, Zenon DEF InstallInv
  <2>9. SameWork(i, j) /\ j.pc = "Wait" /\ j.entry = i.entry /\ j.job = i.job
    BY <2>6, <2>8, Zenon DEF RecordInv, Fields, SameWork
  <2>10. PlaceInv(j) /\ Busy(j) /\ j.pc \notin {"Read", "Replace"}
    BY <1>2, <2>8, <2>9, ZenonT(60) DEF RecordInv, PlaceInv, Busy, SameWork
  <2>11. Steady(p, i, j) /\ (Past(j) => Past(i))
    <3>1. j.job.runtime # "None" => j.entry.by = p
      BY <1>2, <2>8, <2>9, Zenon DEF RecordInv
    <3> QED
      BY <1>3, <2>8, <2>9, <2>10, <3>1, SameWorkIsSteady, Zenon
  <2> QED
    BY <1>1, <1>2, <2>4, <2>5, <2>7, <2>10, <2>11, SteadyFiles, Zenon
<1> QED
  BY <1>4, <1>5, <1>6, Zenon

LEMMA ReadDocumentKeeps ==
  ASSUME InstallInv, NEW p \in Installers, ReadDocument(p)
  PROVE  InstallInv'
<1>1. PICK i : i = inst[p]
  BY Zenon
<1>2. i.pc = "Read" /\ UNCHANGED <<fs, by, stray, doc>>
  BY <1>1, Zenon DEF ReadDocument, At, fileVars
<1>3. Busy(i) /\ i.pc # "Rollback"
  BY <1>2 DEF Busy
<1>4. CASE Ends(p, "Partial") /\ Release(p)
  <2>1. FileStep(p) /\ DocStep(p)
    BY <1>2, <1>4, NoFileStep, Zenon DEF DocStep, LockStep
  <2> QED
    BY <1>1, <1>3, <1>4, <2>1, PartialEnds, Zenon
<1>5. CASE /\ doc.state = "Absent" \/ Readable
           /\ inst' = [inst EXCEPT ![p].pc = "Replace",
                ![p].draft = [q \in Planned |-> IF q = inst[p].job.runtime THEN inst[p].entry
                                                 ELSE doc.runtimes[q]]]
           /\ UNCHANGED holder
  <2>1. PICK draft : draft = [q \in Planned |-> IF q = i.job.runtime THEN i.entry
                                                ELSE doc.runtimes[q]]
    BY Zenon
  <2>2. PICK j : j = [i EXCEPT !.pc = "Replace", !.draft = draft]
    BY Zenon
  <2>3. inst' = [inst EXCEPT ![p] = j]
    BY <1>1, <1>5, <2>1, <2>2, Zenon DEF InstallInv
  <2>4. RecordInv(p, i) /\ DocumentInv(p, i)
    BY <1>1, Zenon DEF InstallInv
  <2>5. SameWork(i, j) /\ j.pc = "Replace" /\ j.entry = i.entry /\ j.job = i.job /\ j.draft = draft
    BY <2>2, <2>4, Zenon DEF RecordInv, Fields, SameWork
  <2>6. PlaceInv(j) /\ Busy(j)
    BY <1>2, <2>4, <2>5, ZenonT(60) DEF RecordInv, PlaceInv, Busy, SameWork
  <2>7. Steady(p, i, j) /\ (Past(j) => Past(i))
    <3>1. j.job.runtime # "None" => j.entry.by = p
      BY <1>2, <2>4, <2>5, Zenon DEF RecordInv
    <3> QED
      BY <1>3, <2>4, <2>5, <2>6, <3>1, SameWorkIsSteady, Zenon
  <2>8. j.report = "None" /\ "None" # "Completed"
    BY <2>4, <2>7, SteadyRecord
  <2>9. DocumentInv(p, j)'
    <3>1. holder' = p /\ doc' = doc /\ doc.state \in {"Absent", "Current"}
      BY <1>2, <1>5, <2>4, Zenon DEF DocumentInv, Readable
    <3>2. \A r \in Planned :
            j.draft[r] = IF r = j.job.runtime THEN j.entry ELSE doc.runtimes[r]
      BY <2>1, <2>5, Zenon
    <3> QED
      BY <2>8, <3>1, <3>2, Zenon DEF DocumentInv
  <2>10. DocStep(p)
    BY <1>2, <1>5, Zenon DEF DocStep, LockStep
  <2> QED
    BY <1>1, <1>2, <2>3, <2>7, <2>9, <2>10, QuietStep, Zenon
<1> QED
  BY <1>4, <1>5, Zenon DEF ReadDocument

LEMMA ReplaceDocumentKeeps ==
  ASSUME InstallInv, NEW p \in Installers, ReplaceDocument(p)
  PROVE  InstallInv'
<1>1. PICK i : i = inst[p]
  BY Zenon
<1>2. i.pc = "Replace" /\ Release(p) /\ UNCHANGED <<by, stray>>
  BY <1>1, Zenon DEF ReplaceDocument, At
<1>3. Busy(i)
  BY <1>2 DEF Busy
<1>4. fs' = fs \/ fs' = [fs EXCEPT ![DocPath] = "File"]
  BY Zenon DEF ReplaceDocument
<1>5. /\ DOMAIN fs' = Paths
      /\ \A x \in Paths : fs'[x] = fs[x] \/ (fs'[x] = "File" /\ x = DocPath)
  <2>1. DOMAIN fs = Paths
    BY Zenon DEF InstallInv
  <2>2. CASE fs' = fs
    BY <2>1, <2>2, Zenon
  <2>3. CASE fs' = [fs EXCEPT ![DocPath] = "File"]
    BY <2>1, <2>3, Zenon
  <2> QED
    BY <1>4, <2>2, <2>3, Zenon
<1>6. \A r \in Planned : Script[r] \in Paths /\ Script[r] # DocPath
  BY InstallAssumption, Zenon DEF Paths
<1>7. FileStep(p)
  <2>1. "File" # "None"
    OBVIOUS
  <2> QED
    BY <1>2, <1>5, <1>6, <2>1, Zenon DEF FileStep, InstallInv
<1>8. \/ doc' = doc
      \/ doc' = [state |-> "Current", runtimes |-> i.draft]
  BY <1>1, Zenon DEF ReplaceDocument, WriteFails
<1>9. DocStep(p)
  <2>1. CASE doc' = doc
    BY <1>2, <2>1, Zenon DEF DocStep, LockStep
  <2>2. CASE doc' = [state |-> "Current", runtimes |-> i.draft]
    BY <1>1, <1>2, <2>2 DEF DocStep
  <2> QED
    BY <1>8, <2>1, <2>2, Zenon
<1>10. CASE Ends(p, "Partial")
  BY <1>1, <1>3, <1>7, <1>9, <1>10, PartialEnds, Zenon
<1>11. CASE doc' = [state |-> "Current", runtimes |-> i.draft] /\ Ends(p, "Completed")
  <2>1. PICK j : EndsAs(p, i.job, "Completed", j)
    BY <1>1, <1>3, <1>11, EndsOver, Zenon
  <2>2. j.job = i.job /\ j.report = "Completed" /\ j.pc = "Done"
    BY <2>1, Zenon DEF EndsAs, Over
  <2>3. RecordInv(p, i) /\ ScriptInv(p, i) /\ DocumentInv(p, i)
    BY <1>1, Zenon DEF InstallInv
  <2>4. TraceInv(p, j)'
    <3>1. j.report \notin {"None", "Failed"}
      BY <2>2
    <3> QED
      BY <3>1, Zenon DEF TraceInv
  <2>5. ScriptInv(p, j)'
    <3>1. i.job.runtime \in Planned => Mine(p, Script[i.job.runtime])
      <4>1. i.step >= Len(PlanOf(i.job))
        <5>1. i.step \in Nat /\ i.step > Len(PlanOf(i.job))
          BY <1>2, <2>3 DEF RecordInv, PlaceInv
        <5>2. Len(PlanOf(i.job)) \in Nat
          BY PlanShape, Zenon
        <5> QED
          BY <5>1, <5>2
      <4>2. i.pc \notin {"Idle", "Done", "Crashed", "Rollback"}
        BY <1>2
      <4> QED
        BY <2>3, <4>1, <4>2, Zenon DEF ScriptInv, Past
    <3>2. i.job.runtime \in Planned => Mine(p, Script[i.job.runtime])'
      BY <1>2, <1>5, <1>6, <3>1, Zenon DEF Mine, Exists
    <3> QED
      BY <2>1, <2>2, <3>2, OverRecord, Zenon DEF ScriptInv, EndsAs, Past
  <2>6. DocumentInv(p, j)'
    <3>1. i.job.runtime # "None" => i.entry.by = p /\ i.job.runtime \in Planned
      BY <1>2, <2>3 DEF RecordInv
    <3>2. i.job.runtime # "None" => i.draft[i.job.runtime].by = p
      BY <1>2, <2>3, <3>1, Zenon DEF DocumentInv
    <3>3. doc'.runtimes = i.draft
      BY <1>11
    <3>4. j.pc \notin {"Read", "Replace"} /\ j.pc # "Replace"
      BY <2>2
    <3> QED
      BY <2>2, <3>2, <3>3, <3>4, Zenon DEF DocumentInv
  <2>7. Moves(p, j)
    BY <1>7, <1>9, <2>1, OverRecord, Zenon DEF Moves, EndsAs
  <2> QED
    BY <2>4, <2>5, <2>6, <2>7, StepKeeps, Zenon
<1> QED
  BY <1>1, <1>10, <1>11, Zenon DEF ReplaceDocument, Unwritten


-----------------------------------------------------------------------------
LEMMA InstallStarts ==
  ASSUME InstallInit
  PROVE  InstallInv
<1>1. PICK before \in Hosts : /\ fs = before.fs
                              /\ doc = [state |-> before.doc, runtimes |-> [r \in Planned |-> NoEntry]]
  BY Zenon DEF InstallInit
<1>2. DOMAIN fs = Paths /\ DOMAIN by = Paths /\ DOMAIN inst = Installers
      /\ \A x \in Paths : by[x] = "Host"
  <2>1. fs \in [Paths -> {"None", "Dir", "File"}]
    BY <1>1, InstallAssumption, Zenon DEF Paths
  <2> QED
    BY <2>1, Zenon DEF InstallInit
<1>3. \A p \in Installers : inst[p] = Idle
  BY Zenon DEF InstallInit
<1>4. /\ DOMAIN Idle = Fields /\ Idle.pc = "Idle" /\ Idle.report = "None" /\ Idle.step = 1
      /\ Idle.undo = <<>> /\ Idle.missing = <<>>
  BY SMT DEF Idle, Fields
<1>5. \A x : x \notin Range(<<>>) /\ x \notin DOMAIN <<>>
  BY DEF Range
<1>6. ASSUME NEW p \in Installers
      PROVE  /\ RecordInv(p, Idle) /\ TraceInv(p, Idle)
             /\ ScriptInv(p, Idle) /\ DocumentInv(p, Idle)
  <2>1. Idle.step \in Nat \ {0} /\ Idle.undo \in Seq(Paths) /\ Idle.missing \in Seq(Paths)
    BY <1>4
  <2>2. /\ PlaceInv(Idle) /\ Idle.pc \notin {"Open", "Wait", "Read", "Replace"}
        /\ Idle.pc \notin {"Read", "Replace"} /\ Idle.pc # "Replace" /\ Idle.report # "Completed"
    BY <1>4 DEF PlaceInv
  <2>3. RecordInv(p, Idle)
    BY <1>4, <1>5, <2>1, <2>2, Zenon DEF RecordInv, NoScript
  <2>4. p # "Host"
    BY InstallAssumption, Zenon
  <2>5. TraceInv(p, Idle)
    BY <1>2, <2>4, Zenon DEF TraceInv, Mine
  <2>6. ~Past(Idle)
    BY <1>4 DEF Past
  <2> QED
    BY <1>4, <1>5, <2>2, <2>3, <2>5, <2>6, Zenon DEF ScriptInv, DocumentInv
<1> QED
  BY <1>2, <1>3, <1>6, Zenon DEF InstallInv

LEMMA InstallStepKeeps ==
  ASSUME InstallInv, [InstallNext]_installVars
  PROVE  InstallInv'
<1>1. CASE UNCHANGED installVars
  <2>1. UNCHANGED <<fs, by, stray, doc, holder, inst>>
    BY <1>1, Zenon DEF installVars
  <2>2. ASSUME NEW p \in Installers
        PROVE  /\ RecordInv(p, inst[p])' /\ TraceInv(p, inst[p])'
               /\ ScriptInv(p, inst[p])' /\ DocumentInv(p, inst[p])'
    <3>1. PICK i : i = inst[p] /\ inst'[p] = i
      BY <2>1, Zenon
    <3>2. RecordInv(p, i) /\ TraceInv(p, i) /\ ScriptInv(p, i) /\ DocumentInv(p, i)
      BY <3>1, Zenon DEF InstallInv
    <3>3. \A x : Mine(p, x)' <=> Mine(p, x)
      BY <2>1, Zenon DEF Mine, Exists
    <3>4. TraceInv(p, i)' /\ ScriptInv(p, i)'
      BY <2>1, <3>2, <3>3, Zenon DEF TraceInv, ScriptInv
    <3>5. DocumentInv(p, i)'
      BY <2>1, <3>2, Zenon DEF DocumentInv
    <3> QED
      BY <3>1, <3>2, <3>4, <3>5, Zenon
  <2> QED
    BY <2>1, <2>2, Zenon DEF InstallInv, Exists
<1>2. CASE InstallNext
  <2>1. PICK p \in Installers : InstallStep(p) \/ Cancel(p) \/ Crash(p) \/ Lingers(p) \/ Closes(p)
    BY <1>2, Zenon DEF InstallNext
  <2>2. CASE Prepare(p) \/ StopSeen(p) \/ CheckDirectory(p) \/ MakeDirectory(p)
             \/ StartDownload(p) \/ Send(p) \/ Stream(p) \/ Publish(p)
    BY <2>2, PrepareKeeps, StopSeenKeeps, CheckDirectoryKeeps, MakeDirectoryKeeps,
       StartDownloadKeeps, SendKeeps, StreamKeeps, PublishKeeps, Zenon
  <2>3. CASE StartCommand(p) \/ CommandEnds(p) \/ Drain(p) \/ Undo(p) \/ RolledBack(p)
    BY <2>3, StartCommandKeeps, CommandEndsKeeps, DrainKeeps, UndoKeeps, RolledBackKeeps, Zenon
  <2>4. CASE Resolve(p) \/ OpenLock(p) \/ Acquire(p) \/ ReadDocument(p) \/ ReplaceDocument(p)
    BY <2>4, ResolveKeeps, OpenLockKeeps, AcquireKeeps, ReadDocumentKeeps,
       ReplaceDocumentKeeps, Zenon
  <2>5. CASE Cancel(p) \/ Crash(p) \/ Lingers(p) \/ Closes(p)
    BY <2>5, CancelKeeps, CrashKeeps, LingersKeeps, ClosesKeeps, Zenon
  <2> QED
    BY <2>1, <2>2, <2>3, <2>4, <2>5, Zenon DEF InstallStep
<1> QED
  BY <1>1, <1>2, Zenon

(* The installer's invariant, for any number of processes and runtimes,    *)
(* any file system, and any number of failing calls and crashes.           *)
THEOREM InstallCorrect == InstallSpec => []InstallInv
<1>1. InstallInit => InstallInv
  BY InstallStarts, Zenon
<1>2. InstallInv /\ [InstallNext]_installVars => InstallInv'
  BY InstallStepKeeps, Zenon
<1> QED
  BY <1>1, <1>2, PTL DEF InstallSpec

(* A failure reported as clean left nothing that the executor recorded: a  *)
(* path made by the process stays in its rollback list until it is removed *)
(* or the failure is reported as partial (rollback_failure).               *)
THEOREM FailuresAreClean == InstallSpec => []CleanFailure
<1>1. InstallInv => CleanFailure
  <2> SUFFICES ASSUME InstallInv, NEW p \in Installers, inst[p].report = "Failed",
                      NEW x \in Paths, Exists(x), by[x] = p
               PROVE  x \in stray
    BY Zenon DEF CleanFailure
  <2>1. inst[p].report # "None" /\ inst[p].report \in {"None", "Failed"} /\ inst[p].pc # "Crashed"
    BY DEF InstallInv, RecordInv
  <2> QED
    BY <2>1, Zenon DEF InstallInv, TraceInv, Mine
<1> QED
  BY <1>1, InstallCorrect, PTL

(* Two installer commands of one runtime never run side by side, nor one   *)
(* beside a completed one: a process past its download owns the script at  *)
(* the runtime's path, and persist_noclobber gave it to only one.          *)
THEOREM OneInstallerRuns == InstallSpec => []SoleInstaller
<1>1. InstallInv => SoleInstaller
  <2> SUFFICES ASSUME InstallInv, NEW p \in Installers, NEW q \in Installers,
                      p # q, At(p, "Command"),
                      inst[q].job.runtime = inst[p].job.runtime,
                      At(q, "Command") \/ inst[q].report = "Completed"
               PROVE  FALSE
    BY Zenon DEF SoleInstaller
  <2>1. Past(inst[p])
    BY AtCommand, Zenon DEF At
  <2>2. Past(inst[q])
    <3>1. CASE At(q, "Command")
      BY <3>1, AtCommand, Zenon DEF At
    <3>2. CASE inst[q].report = "Completed"
      BY <2>1, <3>2, Zenon DEF Past
    <3> QED
      BY <3>1, <3>2, Zenon
  <2> QED
    BY <2>1, <2>2, PastIsSole, Zenon
<1> QED
  BY <1>1, InstallCorrect, PTL

(* What an exit code 0 says is in the lockfile, whoever wrote it since:    *)
(* the document read under the lock is the one replaced (update_or_create), *)
(* and only the owner of a runtime's script gets as far as its entry.      *)
THEOREM CompletionsAreRecorded == InstallSpec => []CompletedIsRecorded
<1>1. InstallInv => CompletedIsRecorded
  BY Zenon DEF InstallInv, DocumentInv, CompletedIsRecorded
<1> QED
  BY <1>1, InstallCorrect, PTL

(* The lockfile only gains runtimes and keeps its version: each replacement *)
(* starts from the current document (atomic_replace, read under the lock).  *)
THEOREM LockfileSurvives == InstallSpec => RecordsSurvive
<1> DEFINE Gains == /\ doc.state # "Absent" => doc'.state = doc.state
                    /\ \A r \in Planned : doc.runtimes[r] # NoEntry => doc'.runtimes[r] # NoEntry
<1>1. InstallInv /\ [InstallNext]_installVars => [Gains]_installVars
  <2> SUFFICES ASSUME InstallInv, InstallNext PROVE Gains
    BY Zenon
  <2>1. PICK p \in Installers : InstallStep(p) \/ Cancel(p) \/ Crash(p) \/ Lingers(p) \/ Closes(p)
    BY Zenon DEF InstallNext
  <2>2. doc' = doc \/ ReplaceDocument(p)
    <3>1. CASE Cancel(p) \/ Crash(p) \/ Lingers(p) \/ Closes(p)
      BY <3>1, Zenon DEF Cancel, Crash, Lingers, Closes, WriteFails, lockVars
    <3>2. CASE InstallStep(p)
      BY <3>2, Zenon DEF InstallStep, Prepare, StopSeen, CheckDirectory, MakeDirectory,
         StartDownload, Send, Stream, Publish, StartCommand, CommandEnds, Drain, Undo,
         RolledBack, Resolve, OpenLock, Acquire, ReadDocument, lockVars
    <3> QED
      BY <2>1, <3>1, <3>2, Zenon
  <2>3. CASE doc' = doc
    BY <2>3, Zenon
  <2>4. CASE ReplaceDocument(p) /\ doc' # doc
    <3>1. PICK i : i = inst[p]
      BY Zenon
    <3>2. i.pc = "Replace" /\ doc' = [state |-> "Current", runtimes |-> i.draft]
      BY <2>4, <3>1, Zenon DEF ReplaceDocument, WriteFails, At
    <3>3. doc'.state = "Current" /\ doc'.runtimes = i.draft
      BY <3>2
    <3>4. RecordInv(p, i) /\ DocumentInv(p, i)
      BY <3>1, Zenon DEF InstallInv
    <3>5. \A r \in Planned : i.draft[r] = doc.runtimes[r] \/ i.draft[r].by = p
      <4>1. ASSUME NEW r \in Planned, r = i.job.runtime PROVE i.entry.by = p
        BY <3>2, <3>4, <4>1, InstallAssumption, Zenon DEF RecordInv
      <4> QED
        BY <3>2, <3>4, <4>1, Zenon DEF DocumentInv
    <3>6. NoEntry.by = "None" /\ p # "None"
      BY InstallAssumption DEF NoEntry
    <3>7. \A r \in Planned : doc.runtimes[r] # NoEntry => i.draft[r] # NoEntry
      BY <3>5, <3>6, Zenon
    <3>8. doc.state \in {"Absent", "Current"}
      BY <3>2, <3>4, Zenon DEF DocumentInv
    <3> QED
      BY <3>3, <3>7, <3>8, Zenon
  <2> QED
    BY <2>2, <2>3, <2>4, Zenon
<1> QED
  BY <1>1, InstallCorrect, PTL DEF InstallSpec, RecordsSurvive

-----------------------------------------------------------------------------
(* The connector cache.  An entry's age counts from when its discovery     *)
(* began, because the time is read before and kept through the session.    *)

Young(s) == s.at = "Idle" => s.age < (IF s.ok \/ s.age = 0 THEN SuccessTtl ELSE FailureTtl)

(* A session that keeps its time, and shows no answer that is too old. *)
SessionInv(s) ==
  /\ DOMAIN s = {"at", "req", "t0", "deadline", "ok", "age"}
  /\ s.t0 \in Nat
  /\ Young(s)

(* What an entry says of its age. *)
Honest(e) ==
  /\ e.created \in Nat /\ e.created = e.began
  /\ e.ttl = 0 \/ e.ttl = (IF e.ok THEN SuccessTtl ELSE FailureTtl)

CacheInv ==
  /\ now \in Nat
  /\ DOMAIN cache = Configured /\ DOMAIN ses = Clients
  /\ \A i \in Configured : Honest(cache[i])
  /\ \A c \in Clients : SessionInv(ses[c])

(* Replacing one session by another that keeps its time. *)
LEMMA OneSession ==
  ASSUME CacheInv, NEW c \in Clients, NEW s, SessionInv(s),
         ses' = [ses EXCEPT ![c] = s], UNCHANGED <<now, cache>>
  PROVE  CacheInv'
<1>1. DOMAIN ses' = Clients /\ \A d \in Clients : ses'[d] = IF d = c THEN s ELSE ses[d]
  BY DEF CacheInv
<1>2. \A d \in Clients : SessionInv(ses'[d])
  BY <1>1, Zenon DEF CacheInv
<1> QED
  BY <1>1, <1>2, Zenon DEF CacheInv

LEMMA ReadyKeepsTime == SessionInv(Ready)
BY ConnectorAssumption DEF SessionInv, Young, Ready

LEMMA OpensKeeps ==
  ASSUME CacheInv, NEW c \in Clients, NEW req, NEW t0 \in Nat, Opens(c, req, t0),
         UNCHANGED <<now, cache>>
  PROVE  CacheInv'
<1> DEFINE s == [Ready EXCEPT !.at = "Spawn", !.req = req, !.t0 = t0]
<1>1. SessionInv(s)
  BY DEF SessionInv, Young, Ready
<1>2. ses' = [ses EXCEPT ![c] = s]
  BY Zenon DEF Opens
<1> HIDE DEF s
<1> QED
  BY <1>1, <1>2, OneSession, Zenon

LEMMA LabelKeeps ==
  ASSUME CacheInv, NEW c \in Clients, NEW label, label # "Idle", Sends(c, label),
         UNCHANGED <<now, cache>>
  PROVE  CacheInv'
<1> DEFINE s == [ses[c] EXCEPT !.at = label]
<1>1. SessionInv(s)
  BY DEF CacheInv, SessionInv, Young
<1>2. ses' = [ses EXCEPT ![c] = s]
  BY Zenon DEF Sends
<1> HIDE DEF s
<1> QED
  BY <1>1, <1>2, OneSession, Zenon

LEMMA ConcludesKeeps ==
  ASSUME CacheInv, NEW c \in Clients, NEW ok, Concludes(c, ok), UNCHANGED <<now, cache>>
  PROVE  CacheInv'
<1> DEFINE s == [ses[c] EXCEPT !.at = "Kill", !.ok = ok, !.deadline = 0]
<1>1. SessionInv(s)
  BY DEF CacheInv, SessionInv, Young
<1>2. ses' = [ses EXCEPT ![c] = s]
  BY Zenon DEF Concludes, CacheInv
<1> HIDE DEF s
<1> QED
  BY <1>1, <1>2, OneSession, Zenon


LEMMA LookupKeeps ==
  ASSUME CacheInv, NEW c \in Clients, Lookup(c)
  PROVE  CacheInv'
<1>1. UNCHANGED <<now, cache>>
  BY Zenon DEF Lookup
<1>2. PICK req \in Asked[c] :
        \/ Refuses(c)
        \/ /\ req.connector \in Configured /\ Fresh(cache[req.connector])
           /\ ses' = [ses EXCEPT ![c] = [Ready EXCEPT
                        !.ok = cache[req.connector].ok,
                        !.age = now - cache[req.connector].began]]
        \/ Opens(c, req, now)
  BY Zenon DEF Lookup
<1>3. CASE Refuses(c)
  BY <1>1, <1>3, Zenon DEF Refuses, CacheInv
<1>4. CASE Opens(c, req, now)
  BY <1>1, <1>4, OpensKeeps, Zenon DEF CacheInv
<1>5. CASE /\ req.connector \in Configured /\ Fresh(cache[req.connector])
           /\ ses' = [ses EXCEPT ![c] = [Ready EXCEPT
                        !.ok = cache[req.connector].ok,
                        !.age = now - cache[req.connector].began]]
  <2> DEFINE e == cache[req.connector]
             s == [Ready EXCEPT !.ok = e.ok, !.age = now - e.began]
  <2>1. now \in Nat /\ Honest(e) /\ now - e.created < e.ttl
    BY <1>5 DEF CacheInv, Fresh
  <2>2. ses' = [ses EXCEPT ![c] = s]
    BY <1>5, Zenon
  <2> HIDE DEF e
  <2>3. SessionInv(s)
    <3>1. /\ DOMAIN s = DOMAIN Ready /\ s.t0 = 0 /\ s.age = now - e.began /\ s.ok = e.ok
      BY DEF Ready
    <3>2. /\ e.ok \/ now - e.began = 0 => now - e.began < SuccessTtl
          /\ e.ok \/ now - e.began = 0 \/ now - e.began < FailureTtl
      <4>1. now - e.began < e.ttl /\ e.began \in Nat
        BY <2>1 DEF Honest
      <4>2. CASE e.ttl = 0
        BY <2>1, <4>1, <4>2, ConnectorAssumption
      <4>3. CASE e.ok /\ e.ttl = SuccessTtl
        BY <4>1, <4>3, Zenon
      <4>4. CASE ~e.ok /\ e.ttl = FailureTtl
        BY <4>1, <4>4, ConnectorAssumption
      <4> QED
        BY <2>1, <4>2, <4>3, <4>4, Zenon DEF Honest
    <3> QED
      BY <3>1, <3>2 DEF SessionInv, Young, Ready
  <2> HIDE DEF s
  <2> QED
    BY <1>1, <2>2, <2>3, OneSession, Zenon
<1> QED
  BY <1>2, <1>3, <1>4, <1>5, Zenon


LEMMA InsertKeeps ==
  ASSUME CacheInv, NEW c \in Clients, Insert(c)
  PROVE  CacheInv'
<1> DEFINE i == ses[c].req.connector
           e == [created |-> Stamp(c), ok |-> ses[c].ok, began |-> ses[c].t0,
                 ttl |-> IF ses[c].ok THEN SuccessTtl ELSE FailureTtl]
<1>1. Honest(e)
  BY DEF CacheInv, SessionInv, Honest, Stamp
<1>2. cache' = [cache EXCEPT ![i] = e] /\ ses' = [ses EXCEPT ![c] = Ready] /\ now' = now
  BY Zenon DEF Insert
<1> HIDE DEF e, i
<1>3. DOMAIN cache' = Configured /\ \A j \in Configured : cache'[j] = cache[j] \/ cache'[j] = e
  BY <1>2, Zenon DEF CacheInv
<1>4. \A j \in Configured : Honest(cache'[j])
  BY <1>1, <1>3, Zenon DEF CacheInv
<1>5. DOMAIN ses' = Clients /\ \A d \in Clients : ses'[d] = ses[d] \/ ses'[d] = Ready
  BY <1>2, Zenon DEF CacheInv
<1>6. \A d \in Clients : SessionInv(ses'[d])
  BY <1>5, ReadyKeepsTime, Zenon DEF CacheInv
<1> QED
  BY <1>2, <1>3, <1>4, <1>5, <1>6, Zenon DEF CacheInv

LEMMA RequestKeeps ==
  ASSUME CacheInv, NEW c \in Clients, Request(c)
  PROVE  CacheInv'
<1>1. CASE Lookup(c)
  BY <1>1, LookupKeeps, Zenon
<1>2. CASE InvokeRead(c) \/ ExecuteClaimed(c)
  <2>1. PICK req : Refuses(c) \/ Opens(c, req, 0)
    BY <1>2, Zenon DEF InvokeRead, ExecuteClaimed, call_capability
  <2>2. UNCHANGED <<now, cache>>
    BY <1>2, Zenon DEF InvokeRead, ExecuteClaimed
  <2>3. CASE Refuses(c)
    BY <2>2, <2>3, Zenon DEF Refuses, CacheInv
  <2>4. CASE Opens(c, req, 0)
    <3>1. 0 \in Nat
      OBVIOUS
    <3> QED
      BY <2>2, <2>4, <3>1, OpensKeeps, Zenon
  <2> QED
    BY <2>1, <2>3, <2>4, Zenon
<1> QED
  BY <1>1, <1>2, Zenon DEF Request

LEMMA ChildActsKeeps ==
  ASSUME CacheInv, NEW c \in Clients, ChildActs(c)
  PROVE  CacheInv'
<1>1. UNCHANGED <<now, cache>>
  BY Zenon DEF ChildActs, Initialized, Discovered, Listed, Sent, Answered, Garbled
<1>2. \/ Sends(c, "List") \/ Sends(c, "Call") \/ Sends(c, "Send")
      \/ \E ok \in BOOLEAN : Concludes(c, ok)
  BY Zenon DEF ChildActs, Initialized, Discovered, Listed, Sent, Answered, Garbled
<1>3. "List" # "Idle" /\ "Call" # "Idle" /\ "Send" # "Idle"
  OBVIOUS
<1> QED
  BY <1>1, <1>2, <1>3, LabelKeeps, ConcludesKeeps, Zenon

LEMMA ProceedsKeeps ==
  ASSUME CacheInv, NEW c \in Clients, Proceeds(c)
  PROVE  CacheInv'
<1>1. CASE Insert(c)
  BY <1>1, InsertKeeps, Zenon
<1>2. CASE TimedOut(c)
  BY <1>2, ConcludesKeeps, Zenon DEF TimedOut
<1>3. CASE Kill(c)
  <2>1. UNCHANGED <<now, cache>>
    BY <1>3, Zenon DEF Kill
  <2>2. "Insert" # "Idle"
    OBVIOUS
  <2>3. Sends(c, "Insert") \/ ses' = [ses EXCEPT ![c] = Ready]
    BY <1>3, Zenon DEF Kill
  <2> QED
    BY <2>1, <2>2, <2>3, LabelKeeps, OneSession, ReadyKeepsTime, Zenon
<1>4. CASE Spawn(c)
  <2>1. UNCHANGED <<now, cache>>
    BY <1>4, Zenon DEF Spawn
  <2>2. CASE Concludes(c, FALSE)
    BY <2>1, <2>2, ConcludesKeeps, Zenon
  <2>3. CASE ses' = [ses EXCEPT ![c].at = "Init", ![c].deadline = now + Timeout]
    <3> DEFINE s == [ses[c] EXCEPT !.at = "Init", !.deadline = now + Timeout]
    <3>1. SessionInv(s)
      BY DEF CacheInv, SessionInv, Young
    <3>2. ses' = [ses EXCEPT ![c] = s]
      BY <2>3, Zenon DEF CacheInv
    <3> HIDE DEF s
    <3> QED
      BY <2>1, <3>1, <3>2, OneSession, Zenon
  <2> QED
    BY <1>4, <2>2, <2>3, Zenon DEF Spawn
<1> QED
  BY <1>1, <1>2, <1>3, <1>4, Zenon DEF Proceeds

(* The answers given from the cache are young, for every time to live, any *)
(* number of parallel requests and whatever the child processes say: a     *)
(* discovery that ends late enters the cache with the time it began        *)
(* (ConnectorRegistry::tools).                                             *)
THEOREM AnswersAreFresh == ConnectorSpec => []CacheIsFresh
<1>1. ConnectorInit => CacheInv
  <2> SUFFICES ASSUME ConnectorInit PROVE CacheInv
    OBVIOUS
  <2>1. now \in Nat /\ Honest(NoCache)
    BY DEF ConnectorInit, Honest, NoCache
  <2> QED
    BY <2>1, ReadyKeepsTime, Zenon DEF ConnectorInit, CacheInv
<1>2. CacheInv /\ [ConnectorNext]_connectorVars => CacheInv'
  <2> SUFFICES ASSUME CacheInv, [ConnectorNext]_connectorVars PROVE CacheInv'
    OBVIOUS
  <2>1. CASE \E c \in Clients : Request(c) \/ ChildActs(c) \/ Proceeds(c)
    BY <2>1, RequestKeeps, ChildActsKeeps, ProceedsKeeps, Zenon
  <2>2. CASE UNCHANGED <<now, cache, ses>>
    BY <2>2, Zenon DEF CacheInv
  <2>3. CASE Tick
    <3>1. now' \in Nat /\ UNCHANGED <<cache, ses>>
      BY <2>3 DEF Tick, CacheInv
    <3> QED
      BY <3>1, Zenon DEF CacheInv
  <2> QED
    BY <2>1, <2>2, <2>3, Zenon
       DEF ConnectorNext, install_app, set_app_enabled, connectorVars
<1>3. CacheInv => CacheIsFresh
  BY Zenon DEF CacheInv, SessionInv, Young, CacheIsFresh
<1> QED
  BY <1>1, <1>2, <1>3, PTL DEF ConnectorSpec


-----------------------------------------------------------------------------
(* The local app document. *)

(* A process's record has the fields the steps update. *)
CommandsOK ==
  /\ DOMAIN cmd = Commands
  /\ \A p \in Commands : DOMAIN cmd[p] = {"pc", "draft"}

LEMMA CommandsStayOK ==
  ASSUME CommandsOK, [LocalNext]_localVars
  PROVE  CommandsOK'
<1>1. CASE UNCHANGED localVars
  BY <1>1, Zenon DEF localVars, CommandsOK
<1>2. CASE LocalNext
  <2>1. PICK p \in Commands : \E label, draft :
          \/ To(p, label) \/ cmd' = [cmd EXCEPT ![p].pc = label, ![p].draft = draft]
    BY <1>2, Zenon DEF LocalNext, Start, AppStep, Remote, Read, Open, Fill, Killed
  <2> QED
    BY <2>1 DEF CommandsOK, To
<1> QED
  BY <1>1, <1>2, Zenon

(* While the document is damaged and no process is about to write, each    *)
(* step leaves it so: reading it fails.                                    *)
LEMMA DamageStays ==
  ASSUME CommandsOK, [LocalNext]_localVars, Damaged
  PROVE  Damaged'
<1>1. CASE UNCHANGED localVars
  BY <1>1, Zenon DEF localVars, Damaged
<1>2. CASE LocalNext
  <2>1. PICK p \in Commands : Start(p) \/ AppStep(p) \/ Killed(p)
    BY <1>2, Zenon DEF LocalNext
  <2>2. ~Open(p) /\ ~Fill(p) /\ ~Legible
    BY Zenon DEF Damaged, Open, Fill, Legible
  <2>3. record' = record
    BY <2>1, <2>2, Zenon DEF AppStep, Start, Remote, Read, Killed
  <2>4. \E label \in {"Remote", "Read", "Failed", "Crashed"} : To(p, label)
    BY <2>1, <2>2, Zenon DEF AppStep, Start, Remote, Rejected, Read, Killed
  <2>5. \A q \in Commands : cmd'[q].pc = cmd[q].pc
                            \/ cmd'[q].pc \in {"Remote", "Read", "Failed", "Crashed"}
    BY <2>4 DEF To, CommandsOK
  <2>6. \A q \in Commands : cmd'[q].pc \notin {"Open", "Fill"}
    BY <2>5 DEF Damaged
  <2> QED
    BY <2>3, <2>6, Zenon DEF Damaged
<1> QED
  BY <1>1, <1>2, Zenon

(* A damaged document is never taken for an empty one, for any number of   *)
(* processes, apps, failing calls and crashes (read_local_app_state).      *)
THEOREM DamageIsKept == LocalSpec => DamageIsNotOverwritten
<1>1. LocalInit => CommandsOK
  BY DEF LocalInit, CommandsOK
<1>2. CommandsOK /\ [LocalNext]_localVars => CommandsOK'
  BY CommandsStayOK, Zenon
<1>3. CommandsOK /\ [LocalNext]_localVars => [Damaged => Damaged']_localVars
  BY DamageStays, Zenon
<1> QED
  BY <1>1, <1>2, <1>3, PTL DEF LocalSpec, DamageIsNotOverwritten
=============================================================================
