------------------------- MODULE MarketBatchProofs -------------------------
(***************************************************************************)
(* Proofs about MarketBatch, for any number of processes, regions and      *)
(* collections, with processes that overlap, collide and die: types, that  *)
(* lineage travels with its value, and that the event which closes a run   *)
(* tells the truth about it; and, as long as they do not overlap, that a   *)
(* batch is all or nothing and a failure only lowers grades.  The last     *)
(* part is about what a batch collects (MarketSource, whose variables are  *)
(* its own): for any market and any faults, that no page is lost, and that *)
(* the values it derives are those of the market.                          *)
(***************************************************************************)
EXTENDS MarketBatch, MarketSource, SequenceTheorems, FiniteSetTheorems, TLAPS

RecordOK(record) ==
    \A f \in Fields :
        /\ record.lineage[f].from = record.value[f]
        /\ f = "fixed" => record.value[f] = SeedFile /\ record.lineage[f].grade = "unverified"

\* What is written back was read from the table, so memories are in order too.
LineageInv ==
    /\ \A c \in Codes : RecordOK(region[c])
    /\ \A p \in Procs, c \in Codes : RecordOK(job[p].snap[c])

(***************************************************************************)
(* The trail.  A run in progress has a number of its own and no closing    *)
(* event; a stage says which of its other events are there.                *)
(***************************************************************************)
CommitStages == {"commit length", "upsert", "ingest", "flag length", "flag"}
FailStages == {"list", "stale", "failed length", "failed"}
CloseStages == {"run length", "run"}
Running == CommitStages \cup FailStages \cup CloseStages

Targets(k) == {e.target : e \in EventsOf(k, "ingest")}

RunOK(p) ==
    /\ pc[p] \in Running => job[p].k \in 1 .. collected /\ EventsOf(job[p].k, "run") = {}
    /\ pc[p] \in CommitStages => ~Fails(job[p].results)
    /\ pc[p] \in FailStages => Fails(job[p].results)

CommitOK(p) ==
    /\ pc[p] \in Running /\ ~Fails(job[p].results) => EventsOf(job[p].k, "failed") = {}
    /\ pc[p] = "upsert" => Codes \ job[p].todo \subseteq Targets(job[p].k)
    /\ pc[p] = "ingest" => /\ job[p].at \in Codes
                          /\ Codes \ (job[p].todo \cup {job[p].at}) \subseteq Targets(job[p].k)
    /\ pc[p] \in {"flag length", "flag"} => Codes \subseteq Targets(job[p].k)
    /\ pc[p] \in CloseStages /\ ~Fails(job[p].results) => Codes \subseteq Targets(job[p].k)

FailOK(p) ==
    /\ pc[p] \in Running /\ Fails(job[p].results) => EventsOf(job[p].k, "ingest") = {}
    /\ pc[p] \in CloseStages /\ Fails(job[p].results) => EventsOf(job[p].k, "failed") # {}

ProcOK(p) == RunOK(p) /\ CommitOK(p) /\ FailOK(p)

OwnNumbers ==
    \A p, q \in Procs :
        pc[p] \in Running /\ pc[q] \in Running /\ p # q => job[p].k # job[q].k

TrailOK ==
    /\ \A e \in audit : e.of \in 1 .. collected
    /\ \A e \in audit : e.kind = "ingest" => e.target \in Codes

TrailInv == TrailOK /\ OwnNumbers /\ RunsCloseTruly /\ \A p \in Procs : ProcOK(p)

IInv == TypeOK /\ LineageInv /\ TrailInv

-----------------------------------------------------------------------------
LEMMA SeedRecordOK == SeedRecord \in Records /\ RecordOK(SeedRecord)
<1>1. SeedFile \in Collections
  BY InstanceAssumption DEF SeedFile, Collections
<1> QED
  BY <1>1 DEF SeedRecord, Records, Lineage, Grades, RecordOK

LEMMA NoJobOK == NoJob \in Jobs /\ \A c \in Codes : NoJob.snap[c] = SeedRecord
<1>1. 0 \in Collections
  BY InstanceAssumption DEF Collections
<1>2. Failure \in AllResults
  BY DEF AllResults
<1> QED
  BY <1>1, <1>2, SeedRecordOK DEF NoJob, Jobs

LEMMA InitHolds == Init => IInv
<1> SUFFICES ASSUME Init PROVE IInv
  OBVIOUS
<1>1. IsFiniteSet({})
  BY FS_EmptySet
<1>2. collected \in Collections
  BY InstanceAssumption DEF Init, Collections
<1>3. TypeOK
  BY <1>1, <1>2, SeedRecordOK, NoJobOK DEF Init, TypeOK, Stages
<1>4. LineageInv
  BY SeedRecordOK, NoJobOK DEF Init, LineageInv
<1>5. TrailInv
  BY DEF Init, TrailInv, TrailOK, OwnNumbers, RunsCloseTruly, ProcOK, RunOK, CommitOK,
     FailOK, Running, CommitStages, FailStages, CloseStages
<1> QED
  BY <1>3, <1>4, <1>5 DEF IInv

-----------------------------------------------------------------------------
(***************************************************************************)
(* What a step of one process leaves to the others.                        *)
(***************************************************************************)
OthersStay(p) == \A q \in Procs \ {p} : pc'[q] = pc[q] /\ job'[q] = job[q]

LEMMA OtherKeeps ==
    ASSUME NEW q \in Procs, ProcOK(q), pc'[q] = pc[q], job'[q] = job[q],
           collected \in Nat, collected' \in Nat, collected <= collected',
           pc[q] \in Running => \A kind : EventsOf(job[q].k, kind)' = EventsOf(job[q].k, kind)
    PROVE  ProcOK(q)'
<1>1. Targets(job[q].k)' = Targets(job[q].k) \/ pc[q] \notin Running
  BY DEF Targets
<1>2. Fails(job[q].results)' = Fails(job[q].results)
  BY DEF Fails
<1>3. RunOK(q)'
  BY <1>2 DEF ProcOK, RunOK
<1>4. CommitOK(q)'
  BY <1>1, <1>2 DEF ProcOK, CommitOK, Running, CommitStages, CloseStages
<1>5. FailOK(q)'
  BY <1>2 DEF ProcOK, FailOK, Running, CloseStages
<1> QED
  BY <1>3, <1>4, <1>5 DEF ProcOK

(***************************************************************************)
(* A step without an event, of a process that keeps its run or stops.      *)
(***************************************************************************)
Silent(p) ==
    /\ UNCHANGED <<audit, collected>>
    /\ OthersStay(p)
    /\ pc'[p] \in Running => pc[p] \in Running /\ job'[p].k = job[p].k

LEMMA SilentKeeps ==
    ASSUME IInv, NEW p \in Procs, Silent(p), ProcOK(p)' PROVE TrailInv'
<1>1. \A k, kind : EventsOf(k, kind)' = EventsOf(k, kind)
  BY DEF Silent, EventsOf
<1>2. collected \in Nat
  BY InstanceAssumption DEF IInv, TypeOK, Collections
<1>3. \A q \in Procs : ProcOK(q)'
  BY <1>1, <1>2, OtherKeeps DEF Silent, OthersStay, IInv, TrailInv
<1>4. TrailOK'
  BY DEF Silent, IInv, TrailInv, TrailOK
<1>5. OwnNumbers'
  BY DEF Silent, OthersStay, IInv, TrailInv, OwnNumbers
<1>6. RunsCloseTruly'
  BY <1>1 DEF Silent, IInv, TrailInv, RunsCloseTruly, ClosedTruly
<1> QED
  BY <1>3, <1>4, <1>5, <1>6 DEF TrailInv

(***************************************************************************)
(* Types, step by step.                                                    *)
(***************************************************************************)
LEMMA NumberedOK ==
    ASSUME TypeOK, NEW p \in Procs, NEW kind \in {"ingest", "outlier", "failed", "run"},
           NEW target \in Codes \cup {NoRegion}
    PROVE  Numbered(p, kind, target) \in Events
<1>1. job[p] \in Jobs
  BY DEF TypeOK
<1> QED
  BY <1>1 DEF Numbered, Event, Events, Jobs

LEMMA AppendTypeOK ==
    ASSUME TypeOK, NEW e \in Events, AppendEvent(e)
    PROVE  audit' \subseteq Events /\ IsFiniteSet(audit')
<1>1. IsFiniteSet(audit \cup {e})
  BY FS_AddElement DEF TypeOK
<1> QED
  BY <1>1 DEF TypeOK, AppendEvent

LEMMA LengthOK == ASSUME TypeOK PROVE Length \in Nat
<1>1. Cardinality(audit) \in Nat
  BY FS_CardinalityType DEF TypeOK
<1> QED
  BY <1>1 DEF TypeOK, Length

LEMMA UpdatedOK ==
    ASSUME NEW record \in Records, NEW res \in AllResults, NEW k \in Collections
    PROVE  Updated(record, res, k) \in Records
<1>1. GradeOf(res) \in Grades
  BY DEF GradeOf, Grades
<1> QED
  BY <1>1 DEF Updated, Records, Lineage

LEMMA DowngradedOK == ASSUME NEW record \in Records PROVE Downgraded(record) \in Records
  BY DEF Downgraded, Records, Lineage, Grades

LEMMA GotoTypeOK ==
    ASSUME TypeOK, NEW p, NEW stage \in Stages, Goto(p, stage)
    PROVE  pc' \in [Procs -> Stages]
  BY DEF TypeOK, Goto

LEMMA EndTypeOK ==
    ASSUME TypeOK, NEW p \in Procs, End(p)
    PROVE  pc' \in [Procs -> Stages] /\ job' \in [Procs -> Jobs]
  BY NoJobOK DEF TypeOK, End, Goto, Stages

LEMMA ReadLengthTypeOK ==
    ASSUME TypeOK, NEW p \in Procs, NEW from, NEW stage \in Stages, NEW todo \in SUBSET Codes,
           ReadLength(p, from, stage, todo)
    PROVE  TypeOK'
<1>1. job[p] \in Jobs
  BY DEF TypeOK
<1>2. [job[p] EXCEPT !.base = Length, !.todo = todo, !.i = 0] \in Jobs
  BY <1>1, LengthOK DEF Jobs
<1>3. job' \in [Procs -> Jobs]
  BY <1>2 DEF TypeOK, ReadLength
<1>4. pc' \in [Procs -> Stages]
  BY GotoTypeOK DEF ReadLength
<1> QED
  BY <1>3, <1>4 DEF TypeOK, ReadLength

LEMMA TypeKept == TypeOK /\ [Next]_vars => TypeOK'
<1> SUFFICES ASSUME TypeOK, [Next]_vars PROVE TypeOK'
  OBVIOUS
<1>a. \A p \in Procs : job[p] \in Jobs
  BY DEF TypeOK
<1>0. ASSUME UNCHANGED vars PROVE TypeOK'
  BY <1>0 DEF TypeOK, vars
<1>1. ASSUME NEW p \in Procs, Begin(p) PROVE TypeOK'
  <2>1. PICK program \in Programs :
           job' = [job EXCEPT ![p].program = program, ![p].todo = Codes]
    BY <1>1 DEF Begin
  <2>2. [job[p] EXCEPT !.program = program, !.todo = Codes] \in Jobs
    BY <1>a, InstanceAssumption DEF Jobs
  <2>3. job' \in [Procs -> Jobs]
    BY <2>1, <2>2 DEF TypeOK
  <2>4. pc' \in [Procs -> Stages]
    BY <1>1, GotoTypeOK DEF Begin, Stages
  <2>5. {others', started', deaths'} \subseteq Nat
    BY <1>1 DEF Begin, TypeOK
  <2> QED
    BY <1>1, <2>3, <2>4, <2>5 DEF TypeOK, Begin
<1>2. ASSUME NEW p \in Procs, NEW c \in Codes, Seed(p, c) PROVE TypeOK'
  <2>1. region' \in [Codes -> Records]
    BY <1>2, SeedRecordOK DEF TypeOK, Seed
  <2>2. pc' \in [Procs -> Stages] /\ job' \in [Procs -> Jobs]
    <3>1. CASE job[p].todo # {c}
      <4>1. [job[p] EXCEPT !.todo = job[p].todo \ {c}] \in Jobs
        BY <1>a DEF Jobs
      <4> QED
        BY <1>2, <3>1, <4>1 DEF TypeOK, Seed
    <3>2. CASE job[p].todo = {c} /\ job[p].program = "server"
      BY <1>2, <3>2, EndTypeOK DEF Seed
    <3>3. CASE job[p].todo = {c} /\ job[p].program # "server"
      <4>1. [job[p] EXCEPT !.todo = {}] \in Jobs
        BY <1>a DEF Jobs
      <4> QED
        BY <1>2, <3>3, <4>1, GotoTypeOK DEF TypeOK, Seed, Stages
    <3> QED
      BY <3>1, <3>2, <3>3
  <2> QED
    BY <1>2, <2>1, <2>2 DEF TypeOK, Seed
<1>3. ASSUME NEW p \in Procs, Collect(p) PROVE TypeOK'
  <2>1. collected \in 0 .. MaxCollections /\ MaxCollections \in Nat
    BY InstanceAssumption DEF TypeOK, Collections
  <2>2. collected' \in Collections /\ collected' = collected + 1
    <3>1. collected < MaxCollections /\ collected' = collected + 1
      BY <1>3 DEF Collect
    <3> QED
      BY <2>1, <3>1 DEF Collections
  <2>4. PICK results \in [Codes -> Results] :
           /\ job' = [job EXCEPT ![p].k = collected', ![p].snap = region, ![p].results = results]
           /\ Goto(p, IF Fails(results) THEN "list" ELSE "commit length")
    BY <1>3 DEF Collect
  <2>5. results \in [Codes -> AllResults]
    BY InstanceAssumption
  <2>6. [job[p] EXCEPT !.k = collected', !.snap = region, !.results = results] \in Jobs
    BY <1>a, <2>2, <2>5 DEF TypeOK, Jobs
  <2>7. job' \in [Procs -> Jobs]
    BY <2>4, <2>6 DEF TypeOK
  <2>8. pc' \in [Procs -> Stages]
    BY <2>4 DEF TypeOK, Goto, Stages
  <2> QED
    BY <1>3, <2>2, <2>7, <2>8 DEF TypeOK, Collect
<1>4. ASSUME NEW p \in Procs, BeginCommit(p) \/ BeginFlags(p) \/ BeginFailed(p) \/ BeginRun(p)
      PROVE TypeOK'
  <2>1. Planned(job[p].results) \in SUBSET Codes /\ Outliers(p) \in SUBSET Codes
    BY DEF Planned, Outliers
  <2>2. CASE BeginCommit(p)
    BY <2>1, <2>2, ReadLengthTypeOK DEF BeginCommit, Stages
  <2>3. CASE BeginFlags(p)
    <3> DEFINE stage == IF Outliers(p) = {} THEN "run length" ELSE "flag"
    <3>1. stage \in Stages /\ ReadLength(p, "flag length", stage, Outliers(p))
      BY <2>3 DEF BeginFlags, Stages
    <3> QED
      BY <2>1, <3>1, ReadLengthTypeOK
  <2>4. CASE BeginFailed(p)
    <3>1. {} \in SUBSET Codes /\ "failed" \in Stages
      BY DEF Stages
    <3> QED
      BY <2>4, <3>1, ReadLengthTypeOK DEF BeginFailed
  <2>5. CASE BeginRun(p)
    <3>1. {} \in SUBSET Codes /\ "run" \in Stages
      BY DEF Stages
    <3> QED
      BY <2>5, <3>1, ReadLengthTypeOK DEF BeginRun
  <2> QED
    BY <1>4, <2>2, <2>3, <2>4, <2>5
<1>5. ASSUME NEW p \in Procs, NEW c \in Codes, Upsert(p, c) PROVE TypeOK'
  <2>1. Updated(job[p].snap[c], job[p].results[c], job[p].k) \in Records
    BY <1>a, UpdatedOK DEF Jobs
  <2>2. region' \in [Codes -> Records]
    BY <1>5, <2>1 DEF TypeOK, Upsert
  <2>3. [job[p] EXCEPT !.todo = job[p].todo \ {c}, !.at = c] \in Jobs
    BY <1>a DEF Jobs
  <2>4. pc' \in [Procs -> Stages] /\ job' \in [Procs -> Jobs]
    BY <1>5, <2>3, GotoTypeOK DEF TypeOK, Upsert, Stages
  <2> QED
    BY <1>5, <2>2, <2>4 DEF TypeOK, Upsert
<1>6. ASSUME NEW p \in Procs, AppendIngest(p) PROVE TypeOK'
  <2>1. job[p].at \in Codes \cup {NoRegion}
    BY <1>a DEF Jobs
  <2>2. audit' \subseteq Events /\ IsFiniteSet(audit')
    BY <1>6, <2>1, NumberedOK, AppendTypeOK DEF AppendIngest
  <2>3. [job[p] EXCEPT !.i = job[p].i + 1] \in Jobs
    BY <1>a DEF Jobs
  <2>4. job' \in [Procs -> Jobs]
    BY <1>6, <2>3 DEF TypeOK, AppendIngest
  <2>5. pc' \in [Procs -> Stages]
    BY <1>6 DEF TypeOK, AppendIngest, Goto, Stages
  <2> QED
    BY <1>6, <2>2, <2>4, <2>5 DEF TypeOK, AppendIngest
<1>7. ASSUME NEW p \in Procs, NEW c \in Codes, AppendOutlier(p, c) PROVE TypeOK'
  <2>2. audit' \subseteq Events /\ IsFiniteSet(audit')
    BY <1>7, NumberedOK, AppendTypeOK DEF AppendOutlier
  <2>3. job[p].todo \ {c} \in SUBSET Codes /\ job[p].i + 1 \in Nat
    BY <1>a DEF Jobs
  <2>4. [job[p] EXCEPT !.todo = job[p].todo \ {c}, !.i = job[p].i + 1] \in Jobs
    BY <1>a, <2>3 DEF Jobs
  <2> job' \in [Procs -> Jobs]
    BY <1>7, <2>4 DEF TypeOK, AppendOutlier
  <2>5. pc' \in [Procs -> Stages]
    BY <1>7 DEF TypeOK, AppendOutlier, Goto, Stages
  <2> QED
    BY <1>7, <2>2, <2>5 DEF TypeOK, AppendOutlier
<1>8. ASSUME NEW p \in Procs, ListForStale(p) PROVE TypeOK'
  <2> DEFINE changed == {c \in Codes : Downgraded(region[c]) # region[c]}
  <2>1. changed \in SUBSET Codes
    OBVIOUS
  <2>2. job' = [job EXCEPT ![p].snap = region, ![p].todo = changed]
    BY <1>8 DEF ListForStale
  <2> HIDE DEF changed
  <2>3. [job[p] EXCEPT !.snap = region, !.todo = changed] \in Jobs
    BY <1>a, <2>1 DEF TypeOK, Jobs
  <2> job' \in [Procs -> Jobs]
    BY <2>2, <2>3 DEF TypeOK
  <2>4. pc' \in [Procs -> Stages]
    BY <1>8 DEF TypeOK, ListForStale, Goto, Stages
  <2> QED
    BY <1>8, <2>4 DEF TypeOK, ListForStale
<1>9. ASSUME NEW p \in Procs, NEW c \in Codes, MarkStale(p, c) PROVE TypeOK'
  <2>1. Downgraded(job[p].snap[c]) \in Records
    BY <1>a, DowngradedOK DEF Jobs
  <2>2. region' \in [Codes -> Records]
    BY <1>9, <2>1 DEF TypeOK, MarkStale
  <2>3. [job[p] EXCEPT !.todo = job[p].todo \ {c}] \in Jobs
    BY <1>a DEF Jobs
  <2>4. job' \in [Procs -> Jobs]
    BY <1>9, <2>3 DEF TypeOK, MarkStale
  <2>5. pc' \in [Procs -> Stages]
    BY <1>9 DEF TypeOK, MarkStale, Goto, Stages
  <2> QED
    BY <1>9, <2>2, <2>4, <2>5 DEF TypeOK, MarkStale
<1>10. ASSUME NEW p \in Procs, AppendFailed(p) PROVE TypeOK'
  <2>1. audit' \subseteq Events /\ IsFiniteSet(audit')
    BY <1>10, NumberedOK, AppendTypeOK DEF AppendFailed
  <2>2. pc' \in [Procs -> Stages]
    BY <1>10, GotoTypeOK DEF AppendFailed, Stages
  <2> QED
    BY <1>10, <2>1, <2>2 DEF TypeOK, AppendFailed
<1>11. ASSUME NEW p \in Procs, AppendRun(p) PROVE TypeOK'
  <2>1. audit' \subseteq Events /\ IsFiniteSet(audit')
    BY <1>11, NumberedOK, AppendTypeOK DEF AppendRun
  <2>2. pc' \in [Procs -> Stages] /\ job' \in [Procs -> Jobs]
    <3>1. CASE job[p].section = 3
      BY <1>11, <3>1, EndTypeOK DEF AppendRun
    <3>2. CASE job[p].section # 3
      <4>1. [job[p] EXCEPT !.section = job[p].section + 1] \in Jobs
        BY <1>a, <3>2 DEF Jobs
      <4> QED
        BY <1>11, <3>2, <4>1, GotoTypeOK DEF TypeOK, AppendRun, Stages
    <3> QED
      BY <3>1, <3>2
  <2> QED
    BY <1>11, <2>1, <2>2 DEF TypeOK, AppendRun
<1>12. ASSUME NEW p \in Procs, Collide(p) \/ Die(p) \/ Stop(p) PROVE TypeOK'
  <2>1. pc' \in [Procs -> Stages] /\ job' \in [Procs -> Jobs]
    BY <1>12, EndTypeOK DEF Collide, Die, Stop
  <2>2. {others', started', deaths'} \subseteq Nat
    BY <1>12 DEF Collide, Die, Stop, TypeOK
  <2> QED
    BY <1>12, <2>1, <2>2 DEF TypeOK, Collide, Die, Stop
<1>13. ASSUME OtherEvent PROVE TypeOK'
  BY <1>13 DEF TypeOK, OtherEvent
<1> QED
  BY <1>0, <1>1, <1>2, <1>3, <1>4, <1>5, <1>6, <1>7, <1>8, <1>9, <1>10, <1>11, <1>12, <1>13
  DEF Next, Step, Waiting

-----------------------------------------------------------------------------
(***************************************************************************)
(* Lineage, step by step.  A process writes what it remembers, remembers   *)
(* what it read, and updates value and lineage together.                   *)
(***************************************************************************)
LEMMA UpdatedLineage ==
    ASSUME NEW record \in Records, RecordOK(record), NEW res \in AllResults, NEW k
    PROVE  RecordOK(Updated(record, res, k))
<1>1. "fixed" \notin res.derived
  BY DEF AllResults, Failure
<1> QED
  BY <1>1 DEF Updated, RecordOK, Fields

LEMMA DowngradedLineage ==
    ASSUME NEW record \in Records, RecordOK(record) PROVE RecordOK(Downgraded(record))
  BY DEF Downgraded, RecordOK, Records, Lineage, Fields

LEMMA LineageFrame ==
    ASSUME LineageInv,
           \A c \in Codes : region'[c] = region[c] \/ RecordOK(region'[c]),
           \A q \in Procs, c \in Codes :
               job'[q].snap[c] \in {job[q].snap[c], region[c], SeedRecord}
    PROVE  LineageInv'
<1>1. \A c \in Codes : RecordOK(region'[c])
  BY DEF LineageInv
<1>2. \A q \in Procs, c \in Codes : RecordOK(job'[q].snap[c])
  BY SeedRecordOK DEF LineageInv
<1> QED
  BY <1>1, <1>2 DEF LineageInv, RecordOK

\* a process that ends remembers nothing
LEMMA EndLineage ==
    ASSUME TypeOK, NEW p \in Procs, End(p)
    PROVE  \A q \in Procs, c \in Codes : job'[q].snap[c] \in {job[q].snap[c], SeedRecord}
  BY NoJobOK DEF TypeOK, End

LEMMA LineageKept == TypeOK /\ LineageInv /\ [Next]_vars => LineageInv'
<1> SUFFICES ASSUME TypeOK, LineageInv, [Next]_vars PROVE LineageInv'
  OBVIOUS
<1>a. job \in [Procs -> Jobs] /\ \A p \in Procs : job[p] \in Jobs
  BY DEF TypeOK
<1>0. ASSUME UNCHANGED vars \/ OtherEvent PROVE LineageInv'
  BY <1>0, LineageFrame DEF vars, OtherEvent
<1>1. ASSUME NEW p \in Procs, Begin(p) PROVE LineageInv'
  <2>1. \A q \in Procs : job'[q].snap = job[q].snap
    BY <1>1, <1>a DEF Begin, Jobs
  <2> QED
    BY <1>1, <2>1, LineageFrame DEF Begin
<1>2. ASSUME NEW p \in Procs, NEW c \in Codes, Seed(p, c) PROVE LineageInv'
  <2>1. \A d \in Codes : region'[d] = region[d] \/ RecordOK(region'[d])
    BY <1>2, SeedRecordOK DEF TypeOK, Seed
  <2>2. \A q \in Procs, d \in Codes : job'[q].snap[d] \in {job[q].snap[d], SeedRecord}
    <3>1. CASE End(p)
      BY <3>1, EndLineage
    <3>2. CASE job' = [job EXCEPT ![p].todo = job[p].todo \ {c}]
      BY <1>a, <3>2 DEF Jobs
    <3>3. CASE job' = [job EXCEPT ![p].todo = {}]
      BY <1>a, <3>3 DEF Jobs
    <3> QED
      BY <1>2, <3>1, <3>2, <3>3 DEF Seed
  <2> QED
    BY <2>1, <2>2, LineageFrame
<1>3. ASSUME NEW p \in Procs, Collect(p) PROVE LineageInv'
  <2>1. \A q \in Procs : job'[q].snap \in {job[q].snap, region}
    <3>1. PICK results \in [Codes -> Results] : job' = [job EXCEPT
             ![p].k = collected', ![p].snap = region, ![p].results = results]
      BY <1>3 DEF Collect
    <3> QED
      BY <1>a, <3>1 DEF Jobs
  <2> QED
    BY <1>3, <2>1, LineageFrame DEF Collect
<1>4. ASSUME NEW p \in Procs, BeginCommit(p) \/ BeginFlags(p) \/ BeginFailed(p) \/ BeginRun(p)
      PROVE LineageInv'
  <2>1. PICK from, stage, todo : ReadLength(p, from, stage, todo)
    BY <1>4 DEF BeginCommit, BeginFlags, BeginFailed, BeginRun
  <2>2. \A q \in Procs : job'[q].snap = job[q].snap
    BY <1>a, <2>1 DEF ReadLength, Jobs
  <2> QED
    BY <2>1, <2>2, LineageFrame DEF ReadLength
<1>5. ASSUME NEW p \in Procs, NEW c \in Codes, Upsert(p, c) PROVE LineageInv'
  <2>1. RecordOK(Updated(job[p].snap[c], job[p].results[c], job[p].k))
    BY <1>a, UpdatedLineage DEF LineageInv, Jobs
  <2>2. \A d \in Codes : region'[d] = region[d] \/ RecordOK(region'[d])
    BY <1>5, <2>1 DEF TypeOK, Upsert
  <2>3. \A q \in Procs : job'[q].snap = job[q].snap
    BY <1>5, <1>a DEF Upsert, Jobs
  <2> QED
    BY <2>2, <2>3, LineageFrame
<1>6. ASSUME NEW p \in Procs, AppendIngest(p) \/ AppendFailed(p) PROVE LineageInv'
  <2>1. \A q \in Procs : job'[q].snap = job[q].snap
    <3>1. CASE AppendIngest(p)
      BY <3>1, <1>a DEF AppendIngest, Jobs
    <3>2. CASE AppendFailed(p)
      BY <3>2 DEF AppendFailed
    <3> QED
      BY <1>6, <3>1, <3>2
  <2> QED
    BY <1>6, <2>1, LineageFrame DEF AppendIngest, AppendFailed
<1>7. ASSUME NEW p \in Procs, NEW c \in Codes, AppendOutlier(p, c) PROVE LineageInv'
  <2>1. \A q \in Procs : job'[q].snap = job[q].snap
    BY <1>7, <1>a DEF AppendOutlier, Jobs
  <2> QED
    BY <1>7, <2>1, LineageFrame DEF AppendOutlier
<1>8. ASSUME NEW p \in Procs, ListForStale(p) PROVE LineageInv'
  <2>1. \A q \in Procs : job'[q].snap \in {job[q].snap, region}
    BY <1>8, <1>a DEF ListForStale, Jobs
  <2> QED
    BY <1>8, <2>1, LineageFrame DEF ListForStale
<1>9. ASSUME NEW p \in Procs, NEW c \in Codes, MarkStale(p, c) PROVE LineageInv'
  <2>1. RecordOK(Downgraded(job[p].snap[c]))
    BY <1>a, DowngradedLineage DEF LineageInv, Jobs
  <2>2. \A d \in Codes : region'[d] = region[d] \/ RecordOK(region'[d])
    BY <1>9, <2>1 DEF TypeOK, MarkStale
  <2>3. \A q \in Procs : job'[q].snap = job[q].snap
    BY <1>9, <1>a DEF MarkStale, Jobs
  <2> QED
    BY <2>2, <2>3, LineageFrame
<1>10. ASSUME NEW p \in Procs, AppendRun(p) PROVE LineageInv'
  <2>1. \A q \in Procs, d \in Codes : job'[q].snap[d] \in {job[q].snap[d], SeedRecord}
    <3>1. CASE End(p)
      BY <3>1, EndLineage
    <3>2. CASE ~End(p)
      BY <1>10, <1>a, <3>2 DEF AppendRun, Jobs
    <3> QED
      BY <3>1, <3>2
  <2> QED
    BY <1>10, <2>1, LineageFrame DEF AppendRun
<1>11. ASSUME NEW p \in Procs, Collide(p) \/ Die(p) \/ Stop(p) PROVE LineageInv'
  BY <1>11, EndLineage, LineageFrame DEF Collide, Die, Stop
<1> QED
  BY <1>0, <1>1, <1>2, <1>3, <1>4, <1>5, <1>6, <1>7, <1>8, <1>9, <1>10, <1>11
  DEF Next, Step, Waiting

-----------------------------------------------------------------------------
(***************************************************************************)
(* The trail, step by step: an event of a run leaves the other runs alone, *)
(* and a run that is closed gets no further event.                         *)
(***************************************************************************)
LEMMA EventsAfter ==
    ASSUME NEW e, audit' = audit \cup {e}, NEW k, NEW kind
    PROVE  EventsOf(k, kind)' = IF e.of = k /\ e.kind = kind
                                THEN EventsOf(k, kind) \cup {e} ELSE EventsOf(k, kind)
  BY DEF EventsOf

LEMMA AppendKeeps ==
    ASSUME IInv, NEW p \in Procs, pc[p] \in Running, OthersStay(p),
           pc'[p] \in Running => job'[p].k = job[p].k,
           NEW e, audit' = audit \cup {e}, collected' = collected, e.of = job[p].k,
           e.kind = "ingest" => e.target \in Codes,
           e.kind = "run" => ClosedTruly(e)',
           ProcOK(p)'
    PROVE  TrailInv'
<1>1. \A k, kind : k # e.of => EventsOf(k, kind)' = EventsOf(k, kind)
  BY EventsAfter
<1>2. EventsOf(e.of, "run") = {} /\ e.of \in 1 .. collected /\ collected \in Nat
  BY InstanceAssumption DEF IInv, TypeOK, TrailInv, ProcOK, RunOK, Collections
<1>3. \A q \in Procs : ProcOK(q)'
  <2> SUFFICES ASSUME NEW q \in Procs, q # p PROVE ProcOK(q)'
    OBVIOUS
  <2>1. pc'[q] = pc[q] /\ job'[q] = job[q]
    BY DEF OthersStay
  <2>2. pc[q] \in Running => job[q].k # e.of
    BY DEF IInv, TrailInv, OwnNumbers
  <2>3. pc[q] \in Running => \A kind : EventsOf(job[q].k, kind)' = EventsOf(job[q].k, kind)
    BY <1>1, <2>1, <2>2
  <2>4. ProcOK(q)
    BY DEF IInv, TrailInv
  <2> QED
    BY <1>2, <2>1, <2>3, <2>4, OtherKeeps
<1>4. TrailOK'
  BY <1>2 DEF IInv, TrailInv, TrailOK
<1>5. OwnNumbers'
  BY DEF OthersStay, IInv, TrailInv, OwnNumbers
<1>6. RunsCloseTruly'
  <2> SUFFICES ASSUME NEW r \in audit', r.kind = "run" PROVE ClosedTruly(r)'
    BY DEF RunsCloseTruly
  <2>1. CASE r = e
    BY <2>1
  <2>2. CASE r \in audit
    <3>1. r.of # e.of
      BY <1>2, <2>2 DEF EventsOf
    <3>2. \A kind : EventsOf(r.of, kind)' = EventsOf(r.of, kind)
      BY <1>1, <3>1
    <3> QED
      BY <2>2, <3>2 DEF IInv, TrailInv, RunsCloseTruly, ClosedTruly
  <2> QED
    BY <2>1, <2>2
<1> QED
  BY <1>3, <1>4, <1>5, <1>6 DEF TrailInv

LEMMA NotRunning == ASSUME NEW p \in Procs, pc'[p] \notin Running PROVE ProcOK(p)'
  BY DEF ProcOK, RunOK, CommitOK, FailOK, Running, CommitStages, FailStages, CloseStages

LEMMA Stopped ==
    ASSUME IInv, NEW p \in Procs, UNCHANGED <<audit, collected>>, OthersStay(p),
           pc'[p] \notin Running
    PROVE  TrailInv'
  BY NotRunning, SilentKeeps DEF Silent

(***************************************************************************)
(* A step that appends nothing, of a run that goes on.                     *)
(***************************************************************************)
LEMMA GoesOn ==
    ASSUME IInv, NEW p \in Procs, pc[p] \in Running, UNCHANGED <<audit, collected>>,
           OthersStay(p), job'[p].k = job[p].k, job'[p].results = job[p].results,
           pc'[p] \in CommitStages => pc[p] \in CommitStages,
           pc'[p] \in FailStages => pc[p] \in FailStages,
           pc'[p] \in CloseStages => pc[p] \in CloseStages \cup {"flag length"},
           pc'[p] = "upsert" => Codes \ job'[p].todo \subseteq Targets(job[p].k),
           pc'[p] = "ingest" => /\ job'[p].at \in Codes
                               /\ Codes \ (job'[p].todo \cup {job'[p].at}) \subseteq Targets(job[p].k),
           pc'[p] \in {"flag length", "flag"} => pc[p] \in {"flag length", "flag"}
    PROVE  TrailInv'
<1>1. \A k, kind : EventsOf(k, kind)' = EventsOf(k, kind)
  BY DEF EventsOf
<1>2. Targets(job[p].k)' = Targets(job[p].k)
  BY <1>1 DEF Targets
<1>3. Fails(job[p].results)' = Fails(job[p].results)
  BY DEF Fails
<1>4. ProcOK(p)
  BY DEF IInv, TrailInv
<1>5. RunOK(p)'
  BY <1>1, <1>3, <1>4 DEF ProcOK, RunOK
<1>6. CommitOK(p)'
  BY <1>1, <1>2, <1>3, <1>4 DEF ProcOK, RunOK, CommitOK, CommitStages, CloseStages
<1>7. FailOK(p)'
  BY <1>1, <1>3, <1>4 DEF ProcOK, RunOK, FailOK, CommitStages, CloseStages
<1>8. ProcOK(p)'
  BY <1>5, <1>6, <1>7 DEF ProcOK
<1>9. Silent(p)
  BY DEF Silent
<1> QED
  BY <1>8, <1>9, SilentKeeps

LEMMA CollectKeeps == ASSUME IInv, NEW p \in Procs, Collect(p) PROVE TrailInv'
<1>1. collected \in Nat /\ collected' = collected + 1 /\ audit' = audit
  <2>1. collected \in 0 .. MaxCollections
    BY DEF IInv, TypeOK, Collections
  <2>2. collected' = collected + 1 /\ audit' = audit
    BY DEF Collect
  <2> QED
    BY <2>1, <2>2
<1>2. OthersStay(p)
  BY DEF Collect, Goto, OthersStay, IInv, TypeOK
<1>3. PICK results \in [Codes -> Results] :
         /\ job' = [job EXCEPT ![p].k = collected', ![p].snap = region, ![p].results = results]
         /\ Goto(p, IF Fails(results) THEN "list" ELSE "commit length")
  BY DEF Collect
<1>4. job'[p].k = collected' /\ job'[p].results = results
  BY <1>3 DEF IInv, TypeOK, Jobs
<1>5. pc'[p] = IF Fails(results) THEN "list" ELSE "commit length"
  BY <1>3 DEF Goto, IInv, TypeOK
<1>6. \A k, kind : EventsOf(k, kind)' = EventsOf(k, kind)
  BY <1>1 DEF EventsOf
<1>7. \A kind : EventsOf(collected', kind) = {}
  BY <1>1 DEF EventsOf, IInv, TrailInv, TrailOK
<1>8. Fails(job[p].results)' = Fails(results)
  BY <1>4 DEF Fails
<1>9. ProcOK(p)'
  <2>1. pc'[p] \in CommitStages \cup FailStages /\ pc'[p] \in {"commit length", "list"}
        /\ (pc'[p] \in CommitStages => ~Fails(results))
        /\ (pc'[p] \in FailStages => Fails(results))
    BY <1>5 DEF CommitStages, FailStages
  <2>2. \A kind : EventsOf(job[p].k, kind)' = {}
    BY <1>4, <1>6, <1>7
  <2>3. RunOK(p)'
    <3>1. job'[p].k \in 1 .. collected'
      BY <1>1, <1>4
    <3> QED
      BY <1>8, <2>1, <2>2, <3>1 DEF RunOK
  <2>4. CommitOK(p)'
    BY <2>1, <2>2 DEF CommitOK, CloseStages
  <2>5. FailOK(p)'
    BY <2>1, <2>2 DEF FailOK, CloseStages
  <2> QED
    BY <2>3, <2>4, <2>5 DEF ProcOK
<1>10. \A q \in Procs : ProcOK(q)'
  BY <1>1, <1>2, <1>6, <1>9, OtherKeeps DEF OthersStay, IInv, TrailInv
<1>11. TrailOK'
  BY <1>1 DEF IInv, TrailInv, TrailOK
<1>12. OwnNumbers'
  <2>1. \A q \in Procs : pc[q] \in Running => job[q].k # collected'
    BY <1>1 DEF IInv, TrailInv, ProcOK, RunOK
  <2> QED
    BY <1>2, <1>4, <2>1 DEF OthersStay, IInv, TrailInv, OwnNumbers
<1>13. RunsCloseTruly'
  BY <1>1, <1>6 DEF IInv, TrailInv, RunsCloseTruly, ClosedTruly
<1> QED
  BY <1>10, <1>11, <1>12, <1>13 DEF TrailInv

LEMMA IngestKeeps == ASSUME IInv, NEW p \in Procs, AppendIngest(p) PROVE TrailInv'
<1>1. PICK e : e = Numbered(p, "ingest", job[p].at)
  OBVIOUS
<1>2. e.of = job[p].k /\ e.kind = "ingest" /\ e.target = job[p].at /\ audit' = audit \cup {e}
  BY <1>1 DEF Numbered, Event, AppendEvent, AppendIngest
<1>3. ProcOK(p) /\ pc[p] = "ingest" /\ job[p].at \in Codes
  BY DEF AppendIngest, IInv, TrailInv, ProcOK, CommitOK
<1>4. /\ job[p] \in Jobs /\ job'[p] = [job[p] EXCEPT !.i = job[p].i + 1]
      /\ pc'[p] \in {"flag length", "upsert"}
      /\ pc'[p] = "flag length" => job[p].todo = {}
      /\ OthersStay(p) /\ collected' = collected
  <2>1. pc \in [Procs -> Stages] /\ job \in [Procs -> Jobs]
    BY DEF IInv, TypeOK
  <2>2. job' = [job EXCEPT ![p].i = @ + 1] /\ collected' = collected
    BY DEF AppendIngest
  <2>3. pc' = [pc EXCEPT ![p] = IF job[p].todo = {} THEN "flag length" ELSE "upsert"]
    BY DEF AppendIngest, Goto
  <2>4. CASE job[p].todo = {}
    BY <2>1, <2>2, <2>3, <2>4 DEF OthersStay
  <2>5. CASE job[p].todo # {}
    BY <2>1, <2>2, <2>3, <2>5 DEF OthersStay
  <2> QED
    BY <2>4, <2>5
<1>5. job'[p].k = job[p].k /\ job'[p].results = job[p].results /\ job'[p].todo = job[p].todo
  BY <1>4 DEF Jobs
<1>6. /\ EventsOf(job[p].k, "run")' = EventsOf(job[p].k, "run")
      /\ EventsOf(job[p].k, "failed")' = EventsOf(job[p].k, "failed")
      /\ EventsOf(job[p].k, "ingest")' = EventsOf(job[p].k, "ingest") \cup {e}
  BY <1>2, <1>5, EventsAfter
<1>7. Targets(job[p].k)' = Targets(job[p].k) \cup {job[p].at}
  BY <1>2, <1>5, <1>6 DEF Targets
<1>8. ~Fails(job[p].results) /\ ~Fails(job[p].results)'
  BY <1>3, <1>5 DEF Fails, ProcOK, RunOK, CommitStages
<1>9. Codes \ job[p].todo \subseteq Targets(job[p].k)'
  BY <1>3, <1>7 DEF ProcOK, CommitOK
<1>10. RunOK(p)'
  BY <1>3, <1>4, <1>5, <1>6, <1>8 DEF ProcOK, RunOK, Running, CommitStages, FailStages
<1>11. CommitOK(p)'
  BY <1>3, <1>4, <1>5, <1>6, <1>8, <1>9 DEF ProcOK, CommitOK, Running, CommitStages, CloseStages
<1>12. FailOK(p)'
  BY <1>8 DEF FailOK
<1>13. ProcOK(p)'
  BY <1>10, <1>11, <1>12 DEF ProcOK
<1> QED
  BY <1>2, <1>3, <1>4, <1>5, <1>13, AppendKeeps DEF Running, CommitStages

LEMMA OutlierKeeps ==
    ASSUME IInv, NEW p \in Procs, NEW c \in Codes, AppendOutlier(p, c) PROVE TrailInv'
<1>1. PICK e : e = Numbered(p, "outlier", c)
  OBVIOUS
<1>2. e.of = job[p].k /\ e.kind = "outlier" /\ audit' = audit \cup {e}
  BY <1>1 DEF Numbered, Event, AppendEvent, AppendOutlier
<1>3. ProcOK(p) /\ pc[p] = "flag"
  BY DEF AppendOutlier, IInv, TrailInv
<1>4. job[p] \in Jobs
      /\ job'[p] = [job[p] EXCEPT !.todo = job[p].todo \ {c}, !.i = job[p].i + 1]
      /\ pc'[p] \in {"run length", "flag"}
      /\ OthersStay(p) /\ collected' = collected
  BY DEF AppendOutlier, Goto, OthersStay, IInv, TypeOK
<1>5. job'[p].k = job[p].k /\ job'[p].results = job[p].results
  BY <1>4 DEF Jobs
<1>6. \A kind : kind # "outlier" => EventsOf(job[p].k, kind)' = EventsOf(job[p].k, kind)
  BY <1>2, <1>5, EventsAfter
<1>7. Targets(job[p].k)' = Targets(job[p].k)
  BY <1>5, <1>6 DEF Targets
<1>8. ~Fails(job[p].results) /\ ~Fails(job[p].results)'
  BY <1>3, <1>5 DEF Fails, ProcOK, RunOK, CommitStages
<1>10. RunOK(p)'
  BY <1>3, <1>4, <1>5, <1>6, <1>8 DEF ProcOK, RunOK, Running, CommitStages, FailStages, CloseStages
<1>11. CommitOK(p)'
  BY <1>3, <1>4, <1>5, <1>6, <1>7, <1>8
  DEF ProcOK, CommitOK, Running, CommitStages, CloseStages
<1>12. FailOK(p)'
  BY <1>8 DEF FailOK
<1>13. ProcOK(p)'
  BY <1>10, <1>11, <1>12 DEF ProcOK
<1> QED
  BY <1>2, <1>3, <1>4, <1>5, <1>13, AppendKeeps DEF Running, CommitStages

LEMMA FailedKeeps == ASSUME IInv, NEW p \in Procs, AppendFailed(p) PROVE TrailInv'
<1>1. PICK e : e = Numbered(p, "failed", NoRegion)
  OBVIOUS
<1>2. e.of = job[p].k /\ e.kind = "failed" /\ audit' = audit \cup {e}
  BY <1>1 DEF Numbered, Event, AppendEvent, AppendFailed
<1>3. ProcOK(p) /\ pc[p] = "failed"
  BY DEF AppendFailed, IInv, TrailInv
<1>4. job' = job /\ pc'[p] = "run length" /\ OthersStay(p) /\ collected' = collected
  BY DEF AppendFailed, Goto, OthersStay, IInv, TypeOK
<1>5. \A kind : kind # "failed" => EventsOf(job[p].k, kind)' = EventsOf(job[p].k, kind)
  BY <1>2, <1>4, EventsAfter
<1>6. e \in EventsOf(job[p].k, "failed")'
  BY <1>2, <1>4 DEF EventsOf
<1>7. Fails(job[p].results) /\ Fails(job[p].results)'
  BY <1>3, <1>4 DEF Fails, ProcOK, RunOK, FailStages
<1>8. RunOK(p)'
  BY <1>3, <1>4, <1>5 DEF ProcOK, RunOK, Running, CommitStages, FailStages
<1>9. CommitOK(p)'
  BY <1>4, <1>7 DEF CommitOK
<1>10. FailOK(p)'
  BY <1>3, <1>4, <1>5, <1>6, <1>7 DEF ProcOK, FailOK, Running, FailStages
<1>11. ProcOK(p)'
  BY <1>8, <1>9, <1>10 DEF ProcOK
<1> QED
  BY <1>2, <1>3, <1>4, <1>11, AppendKeeps DEF Running, FailStages

LEMMA RunKeeps == ASSUME IInv, NEW p \in Procs, AppendRun(p) PROVE TrailInv'
<1>1. PICK e : e = Numbered(p, "run", NoRegion)
  OBVIOUS
<1>2. /\ e.of = job[p].k /\ e.kind = "run" /\ audit' = audit \cup {e}
      /\ e.outcome = IF Fails(job[p].results) THEN "failed" ELSE "success"
  BY <1>1 DEF Numbered, Event, AppendEvent, AppendRun
<1>3. ProcOK(p) /\ pc[p] = "run"
  BY DEF AppendRun, IInv, TrailInv
<1>4. pc'[p] \in {"idle", "collect"} /\ OthersStay(p) /\ collected' = collected
  <2>1. pc \in [Procs -> Stages] /\ job \in [Procs -> Jobs]
    BY DEF IInv, TypeOK
  <2>2. CASE End(p)
    BY <2>1, <2>2 DEF AppendRun, End, Goto, OthersStay
  <2>3. CASE job' = [job EXCEPT ![p].section = @ + 1] /\ Goto(p, "collect")
    BY <2>1, <2>3 DEF AppendRun, Goto, OthersStay
  <2> QED
    BY <2>2, <2>3 DEF AppendRun
<1>5. /\ EventsOf(e.of, "run")' = {e}
      /\ \A kind : kind # "run" => EventsOf(e.of, kind)' = EventsOf(e.of, kind)
  BY <1>2, <1>3, EventsAfter DEF ProcOK, RunOK, Running, CloseStages
<1>6. ClosedTruly(e)'
  <2>1. CASE Fails(job[p].results)
    BY <1>2, <1>3, <1>5, <2>1 DEF ClosedTruly, ProcOK, FailOK, Running, CloseStages
  <2>2. CASE ~Fails(job[p].results)
    <3>1. Codes \subseteq Targets(e.of) /\ EventsOf(e.of, "failed") = {}
      BY <1>2, <1>3, <2>2 DEF ProcOK, CommitOK, Running, CloseStages
    <3>2. Targets(e.of) \subseteq Codes
      BY DEF Targets, EventsOf, IInv, TrailInv, TrailOK
    <3>3. {i.target : i \in EventsOf(e.of, "ingest")}' = Codes
      BY <1>5, <3>1, <3>2 DEF Targets
    <3> QED
      BY <1>2, <1>5, <2>2, <3>1, <3>3 DEF ClosedTruly
  <2> QED
    BY <2>1, <2>2
<1>7. pc'[p] \notin Running
  BY <1>4 DEF Running, CommitStages, FailStages, CloseStages
<1>8. ProcOK(p)'
  BY <1>7, NotRunning
<1> QED
  BY <1>2, <1>3, <1>4, <1>6, <1>7, <1>8, AppendKeeps DEF Running, CloseStages

LEMMA ReadLengthKeeps ==
    ASSUME IInv, NEW p \in Procs, BeginCommit(p) \/ BeginFlags(p) \/ BeginFailed(p) \/ BeginRun(p)
    PROVE  TrailInv'
<1>1. PICK from, stage, todo : ReadLength(p, from, stage, todo)
  BY DEF BeginCommit, BeginFlags, BeginFailed, BeginRun
<1>2. /\ UNCHANGED <<audit, collected>> /\ OthersStay(p)
      /\ job[p] \in Jobs
      /\ job'[p] = [job[p] EXCEPT !.base = Length, !.todo = todo, !.i = 0]
      /\ pc[p] = from /\ pc'[p] = stage
  BY <1>1 DEF ReadLength, Goto, OthersStay, IInv, TypeOK
<1>3. job'[p].k = job[p].k /\ job'[p].results = job[p].results /\ job'[p].todo = todo
  BY <1>2 DEF Jobs
<1>4. ProcOK(p)
  BY DEF IInv, TrailInv
<1>5. CASE BeginCommit(p)
  <2>1. pc[p] = "commit length" /\ pc'[p] = "upsert" /\ job'[p].todo = Planned(job[p].results)
    BY <1>5 DEF BeginCommit, ReadLength, Goto, IInv, TypeOK, Jobs
  <2>2. Planned(job[p].results) = Codes
    BY <1>4, <2>1 DEF ProcOK, RunOK, CommitStages, Fails, Planned
  <2> QED
    BY <1>2, <1>3, <2>1, <2>2, GoesOn DEF Running, CommitStages, FailStages, CloseStages
<1>6. CASE BeginFlags(p)
  <2>1. pc[p] = "flag length" /\ pc'[p] \in {"run length", "flag"}
    BY <1>6 DEF BeginFlags, ReadLength, Goto, IInv, TypeOK
  <2> QED
    BY <1>2, <1>3, <2>1, GoesOn DEF Running, CommitStages, FailStages, CloseStages
<1>7. CASE BeginFailed(p)
  <2>1. pc[p] = "failed length" /\ pc'[p] = "failed"
    BY <1>7 DEF BeginFailed, ReadLength, Goto, IInv, TypeOK
  <2> QED
    BY <1>2, <1>3, <2>1, GoesOn DEF Running, CommitStages, FailStages, CloseStages
<1>8. CASE BeginRun(p)
  <2>1. pc[p] = "run length" /\ pc'[p] = "run"
    BY <1>8 DEF BeginRun, ReadLength, Goto, IInv, TypeOK
  <2> QED
    BY <1>2, <1>3, <2>1, GoesOn DEF Running, CommitStages, FailStages, CloseStages
<1> QED
  BY <1>5, <1>6, <1>7, <1>8

LEMMA UpsertKeeps ==
    ASSUME IInv, NEW p \in Procs, NEW c \in Codes, Upsert(p, c) PROVE TrailInv'
<1>1. /\ UNCHANGED <<audit, collected>> /\ OthersStay(p) /\ job[p] \in Jobs
      /\ job'[p] = [job[p] EXCEPT !.todo = job[p].todo \ {c}, !.at = c]
      /\ pc[p] = "upsert" /\ pc'[p] = "ingest"
  BY DEF Upsert, Goto, OthersStay, IInv, TypeOK
<1>2. /\ job'[p].k = job[p].k /\ job'[p].results = job[p].results
      /\ job'[p].todo = job[p].todo \ {c} /\ job'[p].at = c
  BY <1>1 DEF Jobs
<1>3. Codes \ job[p].todo \subseteq Targets(job[p].k)
  BY <1>1 DEF IInv, TrailInv, ProcOK, CommitOK
<1>4. Codes \ (job'[p].todo \cup {job'[p].at}) \subseteq Targets(job[p].k)
  BY <1>2, <1>3
<1> QED
  BY <1>1, <1>2, <1>4, GoesOn DEF Running, CommitStages, FailStages, CloseStages

LEMMA StaleKeeps ==
    ASSUME IInv, NEW p \in Procs, ListForStale(p) \/ \E c \in Codes : MarkStale(p, c)
    PROVE  TrailInv'
<1>1. job \in [Procs -> Jobs] /\ job[p] \in Jobs
  BY DEF IInv, TypeOK
<1>2. /\ UNCHANGED <<audit, collected>> /\ OthersStay(p)
      /\ pc[p] \in {"list", "stale"} /\ pc'[p] \in {"stale", "failed length"}
  BY DEF ListForStale, MarkStale, Goto, OthersStay, IInv, TypeOK
<1>3. job'[p].k = job[p].k /\ job'[p].results = job[p].results
  <2>1. CASE ListForStale(p)
    BY <1>1, <2>1 DEF ListForStale, Jobs
  <2>2. CASE \E c \in Codes : MarkStale(p, c)
    BY <1>1, <2>2 DEF MarkStale, Jobs
  <2> QED
    BY <2>1, <2>2
<1> QED
  BY <1>2, <1>3, GoesOn DEF Running, CommitStages, FailStages, CloseStages

LEMMA OutsideKeeps ==
    ASSUME IInv, NEW p \in Procs,
           Begin(p) \/ (\E c \in Codes : Seed(p, c)) \/ Collide(p) \/ Die(p) \/ Stop(p)
    PROVE  TrailInv'
<1>1. pc \in [Procs -> Stages] /\ job \in [Procs -> Jobs]
  BY DEF IInv, TypeOK
<1>2. UNCHANGED <<audit, collected>> /\ OthersStay(p) /\ pc'[p] \in {"idle", "seed", "collect"}
  <2>1. CASE Begin(p)
    BY <1>1, <2>1 DEF Begin, Goto, OthersStay
  <2>2. ASSUME NEW c \in Codes, Seed(p, c)
        PROVE  UNCHANGED <<audit, collected>> /\ OthersStay(p)
               /\ pc'[p] \in {"idle", "seed", "collect"}
    BY <1>1, <2>2 DEF Seed, End, Goto, OthersStay
  <2>3. CASE Collide(p) \/ Die(p) \/ Stop(p)
    BY <1>1, <2>3 DEF Collide, Die, Stop, End, Goto, OthersStay
  <2> QED
    BY <2>1, <2>2, <2>3
<1>3. pc'[p] \notin Running
  BY <1>2 DEF Running, CommitStages, FailStages, CloseStages
<1> QED
  BY <1>2, <1>3, Stopped

LEMMA StutterKeeps == ASSUME IInv, UNCHANGED vars \/ OtherEvent PROVE TrailInv'
<1>1. UNCHANGED <<audit, collected, pc, job>>
  BY DEF vars, OtherEvent
<1>2. \A q \in Procs : Silent(q) /\ ProcOK(q)'
  BY <1>1 DEF Silent, OthersStay, IInv, TrailInv, ProcOK, RunOK, CommitOK, FailOK, Fails,
     Targets, EventsOf
<1>3. CASE Procs = {}
  BY <1>1, <1>3 DEF IInv, TrailInv, TrailOK, OwnNumbers, RunsCloseTruly, ClosedTruly, EventsOf
<1>4. CASE Procs # {}
  BY <1>2, <1>4, SilentKeeps
<1> QED
  BY <1>3, <1>4

-----------------------------------------------------------------------------
LEMMA StepKeeps == IInv /\ [Next]_vars => IInv'
<1> SUFFICES ASSUME IInv, [Next]_vars PROVE IInv'
  OBVIOUS
<1>1. TypeOK' /\ LineageInv'
  BY TypeKept, LineageKept DEF IInv
<1>2. TrailInv'
  BY CollectKeeps, IngestKeeps, OutlierKeeps, FailedKeeps, RunKeeps, ReadLengthKeeps,
     UpsertKeeps, StaleKeeps, OutsideKeeps, StutterKeeps
  DEF Next, Step, Waiting
<1> QED
  BY <1>1, <1>2 DEF IInv

LEMMA Invariance == Spec => []IInv
  BY InitHolds, StepKeeps, PTL DEF Spec

(* The tables and what the processes remember keep their types, however    *)
(* many processes there are and wherever they die.                         *)
THEOREM MarketTypeCorrect == Spec => []TypeOK
  BY Invariance, PTL DEF IInv

(* In every region the lineage of a field names the collection its value   *)
(* comes from, although processes overwrite what others wrote with what    *)
(* they read minutes before (upsert, _commit, _mark_stale).                *)
THEOREM LineageAlwaysTravels == Spec => []LineageTravels
<1>1. IInv => LineageTravels
  BY DEF IInv, LineageInv, RecordOK, LineageTravels
<1> QED
  BY <1>1, Invariance, PTL

(* The event that closes a run tells the truth about it, although runs     *)
(* number their events from lengths that have moved on (_record_run).      *)
THEOREM RunsAlwaysCloseTruly == Spec => []RunsCloseTruly
  BY Invariance, PTL DEF IInv, TrailInv


-----------------------------------------------------------------------------
(***************************************************************************)
(* Processes that never met.  As long as none is disturbed at most one     *)
(* runs at a time; nothing it numbers is taken, because what it counted is *)
(* still all there is; what it read for the downgrade is what the table    *)
(* still says; and while nobody died, a commit or a seeding that has begun *)
(* has left what it wrote so far.                                          *)
(***************************************************************************)
Alone == disturbed = {}

OneAtATime == Alone => \A p, q \in Procs : pc[p] # "idle" /\ pc[q] # "idle" => p = q

Numbering == {"upsert", "ingest", "flag", "failed", "run"}

NumbersInv ==
    Alone =>
        /\ \A e \in audit : e.n <= Length
        /\ \A p \in Procs : pc[p] \in Numbering =>
             /\ job[p].base + job[p].i <= Length
             /\ \A e \in audit : e.n <= job[p].base + job[p].i

FreshReading ==
    Alone => \A p \in Procs : pc[p] = "stale" =>
                 \A c \in job[p].todo : job[p].snap[c] = region[c]

Rent(c) == region[c].value["rent"]
Even == \A c, d \in Codes : Rent(c) = Rent(d)

EvenInv ==
    Alone /\ deaths = 0 =>
        /\ (\A p \in Procs : pc[p] \notin {"seed", "upsert", "ingest"}) => Even
        /\ \A p \in Procs : pc[p] = "seed" => \A c \in Codes \ job[p].todo : Rent(c) = SeedFile
        /\ \A p \in Procs : pc[p] \in {"upsert", "ingest"} =>
             \A c \in Codes \ job[p].todo : Rent(c) = job[p].k

AloneInv == OneAtATime /\ NumbersInv /\ FreshReading /\ EvenInv


LEMMA InitAlone == Init => AloneInv
<1> SUFFICES ASSUME Init PROVE AloneInv
  OBVIOUS
<1>1. \A c \in Codes : Rent(c) = SeedFile
  BY DEF Init, Rent, SeedRecord, Fields
<1>2. Even
  BY <1>1 DEF Even
<1> QED
  BY <1>2 DEF Init, AloneInv, OneAtATime, NumbersInv, FreshReading, EvenInv, Numbering

(***************************************************************************)
(* A step of one process, when no process is disturbed after it.           *)
(***************************************************************************)
LEMMA OthersStand == ASSUME TypeOK, NEW p \in Procs, Step(p) PROVE OthersStay(p)
<1>1. pc \in [Procs -> Stages] /\ job \in [Procs -> Jobs]
  BY DEF TypeOK
<1>2. CASE Begin(p) \/ Collect(p) \/ ListForStale(p)
  BY <1>1, <1>2 DEF Begin, Collect, ListForStale, Goto, OthersStay
<1>3. CASE BeginCommit(p) \/ BeginFlags(p) \/ BeginFailed(p) \/ BeginRun(p)
  BY <1>1, <1>3 DEF BeginCommit, BeginFlags, BeginFailed, BeginRun, ReadLength, Goto, OthersStay
<1>4. ASSUME NEW c \in Codes, Seed(p, c) PROVE OthersStay(p)
  BY <1>1, <1>4 DEF Seed, End, Goto, OthersStay
<1>5. ASSUME NEW c \in Codes, Upsert(p, c) \/ AppendOutlier(p, c) \/ MarkStale(p, c)
      PROVE  OthersStay(p)
  BY <1>1, <1>5 DEF Upsert, AppendOutlier, MarkStale, Goto, OthersStay
<1>6. CASE AppendIngest(p) \/ AppendFailed(p)
  BY <1>1, <1>6 DEF AppendIngest, AppendFailed, Goto, OthersStay
<1>7. CASE AppendRun(p)
  BY <1>1, <1>7 DEF AppendRun, End, Goto, OthersStay
<1>8. CASE Collide(p) \/ Die(p) \/ Stop(p)
  BY <1>1, <1>8 DEF Collide, Die, Stop, End, Goto, OthersStay
<1> QED
  BY <1>2, <1>3, <1>4, <1>5, <1>6, <1>7, <1>8 DEF Step

Only(p) == \A q \in Procs \ {p} : pc[q] = "idle" /\ pc'[q] = "idle"

LEMMA Undisturbed ==
    ASSUME TypeOK, OneAtATime, NEW p \in Procs, Step(p), Alone'
    PROVE  Alone /\ OthersStay(p) /\ Only(p)
<1>1. OthersStay(p)
  BY OthersStand
<1>2. Alone /\ \A q \in Procs \ {p} : pc[q] = "idle"
  <2>1. CASE Begin(p)
    <3>1. \A q \in Procs : pc[q] = "idle"
      BY <2>1 DEF Begin, Alone
    <3> QED
      BY <2>1, <3>1 DEF Begin, Alone
  <2>2. CASE ~Begin(p)
    <3>1. pc[p] # "idle" /\ disturbed' = disturbed
      BY <2>2 DEF Step, Seed, Collect, BeginCommit, BeginFlags, BeginFailed, BeginRun, ReadLength,
         Upsert, AppendIngest, AppendOutlier, ListForStale, MarkStale, AppendFailed, AppendRun,
         Collide, Due, Die, Stop
    <3> QED
      BY <3>1 DEF Alone, OneAtATime
  <2> QED
    BY <2>1, <2>2
<1> QED
  BY <1>1, <1>2 DEF OthersStay, Only

LEMMA OneKept ==
    ASSUME TypeOK, OneAtATime, NEW p \in Procs, Step(p) PROVE OneAtATime'
<1> SUFFICES ASSUME Alone' PROVE \A q, r \in Procs : pc'[q] # "idle" /\ pc'[r] # "idle" => q = r
  BY DEF OneAtATime, Alone
<1> QED
  BY Undisturbed DEF Only

(***************************************************************************)
(* Numbers: a silent step and an append.                                   *)
(***************************************************************************)
LEMMA LengthGrows ==
    ASSUME TypeOK, audit' = audit, others' \in Nat, others <= others'
    PROVE  Length \in Nat /\ Length' \in Nat /\ Length <= Length'
<1>1. Cardinality(audit) \in Nat /\ others \in Nat
  BY FS_CardinalityType DEF TypeOK
<1> QED
  BY <1>1 DEF Length

LEMMA NumbersSilent ==
    ASSUME TypeOK, NumbersInv, NEW p \in Procs, Alone, Only(p),
           audit' = audit, others' = others,
           pc'[p] \in Numbering => \/ /\ pc[p] \in Numbering
                                      /\ job'[p].base = job[p].base /\ job'[p].i = job[p].i
                                   \/ job'[p].base = Length /\ job'[p].i = 0
    PROVE  NumbersInv'
<1>1. Length \in Nat /\ Length' = Length
  BY LengthOK DEF Length
<1>2. \A e \in audit : e.n <= Length
  BY DEF NumbersInv
<1> SUFFICES ASSUME NEW q \in Procs, pc'[q] \in Numbering
             PROVE  /\ job'[q].base + job'[q].i <= Length
                    /\ \A e \in audit : e.n <= job'[q].base + job'[q].i
  BY <1>1, <1>2 DEF NumbersInv
<1>3. q = p
  BY DEF Only, Numbering
<1>4. CASE pc[p] \in Numbering /\ job'[p].base = job[p].base /\ job'[p].i = job[p].i
  BY <1>3, <1>4 DEF NumbersInv
<1>5. CASE job'[p].base = Length /\ job'[p].i = 0
  <2>1. job'[q].base + job'[q].i = Length
    BY <1>1, <1>3, <1>5
  <2> QED
    BY <1>1, <1>2, <2>1
<1> QED
  BY <1>3, <1>4, <1>5

LEMMA NumbersAppend ==
    ASSUME TypeOK, NumbersInv, NEW p \in Procs, Alone, Only(p), pc[p] \in Numbering,
           NEW e, AppendEvent(e), e.n = job[p].base + job[p].i + 1, others' = others,
           pc'[p] \in Numbering => job'[p].base = job[p].base /\ job'[p].i = job[p].i + 1
    PROVE  NumbersInv'
<1>1. job[p].base \in Nat /\ job[p].i \in Nat
  BY DEF TypeOK, Jobs
<1>2. e \notin audit /\ audit' = audit \cup {e}
  BY DEF AppendEvent
<1>3. Length' = Length + 1 /\ Length \in Nat
  <2>1. Cardinality(audit') = Cardinality(audit) + 1
    BY <1>2, FS_AddElement DEF TypeOK
  <2>2. Cardinality(audit) \in Nat /\ others \in Nat
    BY FS_CardinalityType DEF TypeOK
  <2> QED
    BY <2>1, <2>2 DEF Length
<1> DEFINE top == job[p].base + job[p].i
<1>4. top \in Nat /\ top <= Length /\ \A d \in audit : d.n <= top
  BY <1>1 DEF NumbersInv
<1>5. \A d \in audit : d.n \in Nat
  BY DEF TypeOK, Events
<1>6. e.n = top + 1
  BY <1>1
<1> HIDE DEF top
<1>7. \A d \in audit' : d.n <= top + 1
  BY <1>2, <1>4, <1>5, <1>6
<1>8. top + 1 <= Length'
  BY <1>3, <1>4
<1>9. \A d \in audit' : d.n <= Length'
  BY <1>2, <1>3, <1>4, <1>5, <1>6
<1> SUFFICES ASSUME NEW q \in Procs, pc'[q] \in Numbering
             PROVE  /\ job'[q].base + job'[q].i <= Length'
                    /\ \A d \in audit' : d.n <= job'[q].base + job'[q].i
  BY <1>9 DEF NumbersInv
<1>10. q = p
  BY DEF Only, Numbering
<1>11. job'[q].base + job'[q].i = top + 1
  BY <1>1, <1>10 DEF top
<1> QED
  BY <1>7, <1>8, <1>11

(***************************************************************************)
(* So no number is taken.                                                  *)
(***************************************************************************)
LEMMA NeverCollides ==
    ASSUME TypeOK, NumbersInv, NEW p \in Procs, Alone PROVE ~Collide(p)
<1> SUFFICES ASSUME NEW e \in Due(p), NEW other \in audit, Id(other) = Id(e) PROVE FALSE
  BY DEF Collide
<1>1. pc[p] \in Numbering /\ e.n = job[p].base + job[p].i + 1
  BY DEF Due, Numbered, Event, Numbering
<1>2. job[p].base \in Nat /\ job[p].i \in Nat /\ other.n \in Nat
  BY DEF TypeOK, Jobs, Events
<1>3. other.n <= job[p].base + job[p].i
  BY <1>1 DEF NumbersInv
<1>4. other.n = e.n
  BY DEF Id
<1> QED
  BY <1>1, <1>2, <1>3, <1>4


LEMMA NumbersKept ==
    ASSUME TypeOK, OneAtATime, NumbersInv, NEW p \in Procs, Step(p) PROVE NumbersInv'
<1> SUFFICES ASSUME Alone' PROVE NumbersInv'
  BY DEF NumbersInv, Alone
<1>a. Alone /\ Only(p)
  BY Undisturbed
<1>b. pc \in [Procs -> Stages] /\ job \in [Procs -> Jobs] /\ job[p] \in Jobs
  BY DEF TypeOK
<1>1. ASSUME UNCHANGED <<audit, others>>, pc'[p] \notin Numbering PROVE NumbersInv'
  BY <1>1, <1>a, NumbersSilent
<1>2. CASE Begin(p) \/ Collect(p) \/ ListForStale(p)
  BY <1>1, <1>2, <1>b DEF Begin, Collect, ListForStale, Goto, Numbering
<1>3. ASSUME NEW c \in Codes, Seed(p, c) PROVE NumbersInv'
  <2>1. pc'[p] \in {"idle", "seed", "collect"}
    BY <1>3, <1>b DEF Seed, End, Goto
  <2>2. pc'[p] \notin Numbering
    BY <2>1 DEF Numbering
  <2> QED
    BY <1>1, <1>3, <2>2 DEF Seed
<1>4. CASE BeginCommit(p) \/ BeginFlags(p) \/ BeginFailed(p) \/ BeginRun(p)
  <2>1. PICK from, stage, todo : ReadLength(p, from, stage, todo)
    BY <1>4 DEF BeginCommit, BeginFlags, BeginFailed, BeginRun
  <2>2. job'[p] = [job[p] EXCEPT !.base = Length, !.todo = todo, !.i = 0]
    BY <1>b, <2>1 DEF ReadLength
  <2>3. job'[p].base = Length /\ job'[p].i = 0
    BY <1>b, <2>2 DEF Jobs
  <2> QED
    BY <1>a, <2>1, <2>3, NumbersSilent DEF ReadLength
<1>5. ASSUME NEW c \in Codes, Upsert(p, c) PROVE NumbersInv'
  <2>1. job'[p] = [job[p] EXCEPT !.todo = job[p].todo \ {c}, !.at = c]
    BY <1>5, <1>b DEF Upsert
  <2>2. job'[p].base = job[p].base /\ job'[p].i = job[p].i /\ pc[p] \in Numbering
    BY <1>5, <1>b, <2>1 DEF Upsert, Jobs, Numbering
  <2> QED
    BY <1>5, <1>a, <2>2, NumbersSilent DEF Upsert
<1>6. CASE AppendIngest(p)
  <2> DEFINE e == Numbered(p, "ingest", job[p].at)
  <2>1. job'[p] = [job[p] EXCEPT !.i = job[p].i + 1]
    BY <1>6, <1>b DEF AppendIngest
  <2>2. job'[p].base = job[p].base /\ job'[p].i = job[p].i + 1
    BY <1>b, <2>1 DEF Jobs
  <2>3. AppendEvent(e) /\ e.n = job[p].base + job[p].i + 1 /\ pc[p] \in Numbering /\ others' = others
    BY <1>6 DEF AppendIngest, Numbered, Event, Numbering
  <2> HIDE DEF e
  <2> QED
    BY <1>a, <2>2, <2>3, NumbersAppend
<1>7. ASSUME NEW c \in Codes, AppendOutlier(p, c) PROVE NumbersInv'
  <2> DEFINE e == Numbered(p, "outlier", c)
  <2>1. job'[p] = [job[p] EXCEPT !.todo = job[p].todo \ {c}, !.i = job[p].i + 1]
    BY <1>7, <1>b DEF AppendOutlier
  <2>2. job'[p].base = job[p].base /\ job'[p].i = job[p].i + 1
    BY <1>b, <2>1 DEF Jobs
  <2>3. AppendEvent(e) /\ e.n = job[p].base + job[p].i + 1 /\ pc[p] \in Numbering /\ others' = others
    BY <1>7 DEF AppendOutlier, Numbered, Event, Numbering
  <2> HIDE DEF e
  <2> QED
    BY <1>a, <2>2, <2>3, NumbersAppend
<1>8. ASSUME NEW c \in Codes, MarkStale(p, c) PROVE NumbersInv'
  BY <1>1, <1>8, <1>b DEF MarkStale, Goto, Numbering
<1>9. CASE AppendFailed(p)
  <2> DEFINE e == Numbered(p, "failed", NoRegion)
  <2>1. AppendEvent(e) /\ e.n = job[p].base + job[p].i + 1 /\ pc[p] \in Numbering /\ others' = others
    BY <1>9 DEF AppendFailed, Numbered, Event, Numbering
  <2>2. pc'[p] \notin Numbering
    BY <1>9, <1>b DEF AppendFailed, Goto, Numbering
  <2> HIDE DEF e
  <2> QED
    BY <1>a, <2>1, <2>2, NumbersAppend
<1>10. CASE AppendRun(p)
  <2> DEFINE e == Numbered(p, "run", NoRegion)
  <2>1. AppendEvent(e) /\ e.n = job[p].base + job[p].i + 1 /\ pc[p] \in Numbering /\ others' = others
    BY <1>10 DEF AppendRun, Numbered, Event, Numbering
  <2>2. pc'[p] \in {"idle", "collect"}
    BY <1>10, <1>b DEF AppendRun, End, Goto
  <2>3. pc'[p] \notin Numbering
    BY <2>2 DEF Numbering
  <2> HIDE DEF e
  <2> QED
    BY <1>a, <2>1, <2>3, NumbersAppend
<1>11. CASE Collide(p) \/ Die(p) \/ Stop(p)
  BY <1>1, <1>11, <1>b DEF Collide, Die, Stop, End, Goto, Numbering
<1> QED
  BY <1>2, <1>3, <1>4, <1>5, <1>6, <1>7, <1>8, <1>9, <1>10, <1>11 DEF Step

(***************************************************************************)
(* The reading for the downgrade: the regions still to do are as read.     *)
(***************************************************************************)
LEMMA ReadingKept ==
    ASSUME TypeOK, OneAtATime, FreshReading, NEW p \in Procs, Step(p) PROVE FreshReading'
<1> SUFFICES ASSUME Alone', NEW q \in Procs, pc'[q] = "stale", NEW d \in job'[q].todo
             PROVE  job'[q].snap[d] = region'[d]
  BY DEF FreshReading, Alone
<1>a. Alone /\ Only(p)
  BY Undisturbed
<1>b. pc \in [Procs -> Stages] /\ job \in [Procs -> Jobs] /\ job[p] \in Jobs
      /\ region \in [Codes -> Records]
  BY DEF TypeOK
<1>c. q = p
  BY <1>a DEF Only
<1>1. CASE ListForStale(p)
  BY <1>1, <1>b, <1>c DEF ListForStale, Jobs
<1>2. ASSUME NEW c \in Codes, MarkStale(p, c) PROVE job'[q].snap[d] = region'[d]
  <2>1. job'[p] = [job[p] EXCEPT !.todo = job[p].todo \ {c}]
    BY <1>2, <1>b DEF MarkStale
  <2>2. job'[p].snap = job[p].snap /\ d \in job[p].todo /\ d # c
    BY <1>b, <1>c, <2>1 DEF Jobs
  <2>3. region'[d] = region[d]
    <3>1. d \in Codes
      BY <1>b, <2>2 DEF Jobs
    <3> QED
      BY <1>2, <1>b, <2>2, <3>1 DEF MarkStale
  <2>4. pc[p] = "stale"
    BY <1>2 DEF MarkStale
  <2>5. job[p].snap[d] = region[d]
    BY <1>a, <2>2, <2>4 DEF FreshReading
  <2> QED
    BY <1>c, <2>2, <2>3, <2>5
<1>3. pc'[p] = "stale" => ListForStale(p) \/ \E c \in Codes : MarkStale(p, c)
  BY <1>b DEF Step, Begin, Seed, Collect, BeginCommit, BeginFlags, BeginFailed, BeginRun,
     ReadLength, Upsert, AppendIngest, AppendOutlier, AppendFailed, AppendRun,
     Collide, Die, Stop, End, Goto
<1> QED
  BY <1>1, <1>2, <1>3, <1>c


(***************************************************************************)
(* Even regions, step by step.  A step that leaves the table alone:        *)
(***************************************************************************)
Writing == {"seed", "upsert", "ingest"}

LEMMA EvenBefore ==
    ASSUME EvenInv, NEW p \in Procs, Only(p), Alone, deaths = 0, pc[p] \notin Writing
    PROVE  Even
<1>1. \A q \in Procs : pc[q] \notin Writing
  BY DEF Only, Writing
<1> QED
  BY <1>1 DEF EvenInv, Writing

LEMMA EvenAfter ==
    ASSUME NEW p \in Procs, Only(p),
           pc'[p] \notin Writing => Even',
           pc'[p] = "seed" => \A c \in Codes \ job'[p].todo : Rent(c)' = SeedFile,
           pc'[p] \in {"upsert", "ingest"} =>
               \A c \in Codes \ job'[p].todo : Rent(c)' = job'[p].k
    PROVE  EvenInv'
<1>1. \A q \in Procs : pc'[q] \in Writing => q = p
  BY DEF Only, Writing
<1>2. (\A q \in Procs : pc'[q] \notin Writing) => Even'
  OBVIOUS
<1>3. \A q \in Procs : pc'[q] = "seed" => \A c \in Codes \ job'[q].todo : Rent(c)' = SeedFile
  BY <1>1 DEF Writing
<1>4. \A q \in Procs : pc'[q] \in {"upsert", "ingest"} =>
        \A c \in Codes \ job'[q].todo : Rent(c)' = job'[q].k
  BY <1>1 DEF Writing
<1> QED
  BY <1>2, <1>3, <1>4 DEF EvenInv, Writing

LEMMA EvenSilent ==
    ASSUME EvenInv, NEW p \in Procs, Only(p), Alone, deaths = 0, region' = region,
           pc[p] \notin Writing, pc'[p] \in Writing => job'[p].todo = Codes
    PROVE  EvenInv'
<1>1. Even'
  BY EvenBefore DEF Even, Rent
<1> QED
  BY <1>1, EvenAfter DEF Writing

LEMMA UpdatedRent ==
    ASSUME NEW record \in Records, NEW res \in AllResults, ~IsFailure(res), NEW k
    PROVE  Updated(record, res, k).value["rent"] = k
<1>1. "rent" \in res.derived
  BY DEF AllResults, Failure, IsFailure
<1> QED
  BY <1>1 DEF Updated, Fields

LEMMA DowngradedValue == \A record \in Records : Downgraded(record).value = record.value
  BY DEF Downgraded, Records

LEMMA SeedEven ==
    ASSUME TypeOK, EvenInv, NEW p \in Procs, Only(p), Alone, deaths = 0,
           NEW c \in Codes, Seed(p, c)
    PROVE  EvenInv'
<1>a. pc \in [Procs -> Stages] /\ job \in [Procs -> Jobs] /\ job[p] \in Jobs
      /\ region \in [Codes -> Records]
  BY DEF TypeOK
<1>1. \A d \in Codes \ job[p].todo : Rent(d) = SeedFile
  BY DEF EvenInv, Seed
<1>2. \A d \in Codes : Rent(d)' = IF d = c THEN SeedFile ELSE Rent(d)
  BY <1>a DEF Seed, Rent, SeedRecord, Fields
<1>3. \A d \in Codes \ (job[p].todo \ {c}) : Rent(d)' = SeedFile
  BY <1>1, <1>2
<1>4. CASE job[p].todo # {c}
  <2>1. job'[p] = [job[p] EXCEPT !.todo = job[p].todo \ {c}] /\ pc'[p] = "seed"
    BY <1>4, <1>a DEF Seed
  <2>2. job'[p].todo = job[p].todo \ {c}
    BY <1>a, <2>1 DEF Jobs
  <2> QED
    BY <1>3, <2>1, <2>2, EvenAfter DEF Writing
<1>5. CASE job[p].todo = {c}
  <2>1. pc'[p] \in {"idle", "collect"}
    BY <1>5, <1>a DEF Seed, End, Goto
  <2>2. Even'
    BY <1>3, <1>5 DEF Even
  <2> QED
    BY <2>1, <2>2, EvenAfter DEF Writing
<1> QED
  BY <1>4, <1>5

LEMMA UpsertEven ==
    ASSUME TypeOK, EvenInv, NEW p \in Procs, ProcOK(p), Only(p), Alone, deaths = 0,
           NEW c \in Codes, Upsert(p, c)
    PROVE  EvenInv'
<1>a. pc \in [Procs -> Stages] /\ job \in [Procs -> Jobs] /\ job[p] \in Jobs
      /\ region \in [Codes -> Records]
  BY DEF TypeOK
<1>1. \A d \in Codes \ job[p].todo : Rent(d) = job[p].k
  BY DEF EvenInv, Upsert
<1>2. ~IsFailure(job[p].results[c]) /\ job[p].snap[c] \in Records
      /\ job[p].results[c] \in AllResults
  BY <1>a DEF ProcOK, RunOK, CommitStages, Upsert, Fails, Jobs
<1>3. \A d \in Codes : Rent(d)' = IF d = c THEN job[p].k ELSE Rent(d)
  BY <1>a, <1>2, UpdatedRent DEF Upsert, Rent
<1>4. job'[p] = [job[p] EXCEPT !.todo = job[p].todo \ {c}, !.at = c] /\ pc'[p] = "ingest"
  BY <1>a DEF Upsert, Goto
<1>5. job'[p].todo = job[p].todo \ {c} /\ job'[p].k = job[p].k
  BY <1>a, <1>4 DEF Jobs
<1>6. \A d \in Codes \ job'[p].todo : Rent(d)' = job'[p].k
  BY <1>1, <1>3, <1>5
<1> QED
  BY <1>4, <1>6, EvenAfter DEF Writing

LEMMA IngestEven ==
    ASSUME TypeOK, EvenInv, NEW p \in Procs, Only(p), Alone, deaths = 0, AppendIngest(p)
    PROVE  EvenInv'
<1>a. pc \in [Procs -> Stages] /\ job \in [Procs -> Jobs] /\ job[p] \in Jobs
  BY DEF TypeOK
<1>1. \A d \in Codes \ job[p].todo : Rent(d) = job[p].k
  BY DEF EvenInv, AppendIngest
<1>2. job'[p] = [job[p] EXCEPT !.i = job[p].i + 1] /\ region' = region
  BY <1>a DEF AppendIngest
<1>3. job'[p].todo = job[p].todo /\ job'[p].k = job[p].k
  BY <1>a, <1>2 DEF Jobs
<1>4. \A d \in Codes \ job'[p].todo : Rent(d)' = job'[p].k
  BY <1>1, <1>2, <1>3 DEF Rent
<1>5. pc'[p] = IF job[p].todo = {} THEN "flag length" ELSE "upsert"
  BY <1>a DEF AppendIngest, Goto
<1>6. job[p].todo = {} => Even'
  BY <1>3, <1>4 DEF Even
<1> QED
  BY <1>4, <1>5, <1>6, EvenAfter DEF Writing

LEMMA StaleEven ==
    ASSUME TypeOK, FreshReading, EvenInv, NEW p \in Procs, Only(p), Alone, deaths = 0,
           NEW c \in Codes, MarkStale(p, c)
    PROVE  EvenInv'
<1>a. pc \in [Procs -> Stages] /\ region \in [Codes -> Records]
  BY DEF TypeOK
<1>1. job[p].snap[c] = region[c]
  BY DEF FreshReading, MarkStale
<1>2. Rent(c)' = Rent(c)
  BY <1>a, <1>1, DowngradedValue DEF MarkStale, Rent
<1>3. \A d \in Codes : Rent(d)' = Rent(d)
  <2> SUFFICES ASSUME NEW d \in Codes, d # c PROVE Rent(d)' = Rent(d)
    BY <1>2
  <2> QED
    BY <1>a DEF MarkStale, Rent
<1>4. Even
  BY EvenBefore DEF MarkStale, Writing
<1>5. Even'
  BY <1>3, <1>4 DEF Even
<1>6. pc'[p] \notin Writing
  BY <1>a DEF MarkStale, Goto, Writing
<1> QED
  BY <1>5, <1>6, EvenAfter DEF Writing

LEMMA EvenKept ==
    ASSUME TypeOK, TrailInv, AloneInv, NEW p \in Procs, Step(p) PROVE EvenInv'
<1> SUFFICES ASSUME Alone', deaths' = 0 PROVE EvenInv'
  BY DEF EvenInv, Alone
<1>a. Alone /\ Only(p) /\ EvenInv /\ FreshReading /\ NumbersInv /\ ProcOK(p)
  BY Undisturbed DEF AloneInv, TrailInv
<1>b. ~Die(p) /\ deaths = 0
  <2>1. deaths \in Nat
    BY DEF TypeOK
  <2>2. ~Die(p)
    <3> SUFFICES ASSUME deaths' = deaths + 1 PROVE FALSE
      BY DEF Die
    <3> QED
      BY <2>1
  <2>3. deaths' = deaths
    BY <2>2 DEF Step, Begin, Seed, Collect, BeginCommit, BeginFlags, BeginFailed, BeginRun,
       ReadLength, Upsert, AppendIngest, AppendOutlier, ListForStale, MarkStale, AppendFailed,
       AppendRun, Collide, Stop
  <2> QED
    BY <2>2, <2>3
<1>c. pc \in [Procs -> Stages] /\ job \in [Procs -> Jobs] /\ job[p] \in Jobs
  BY DEF TypeOK
<1>1. ASSUME region' = region, pc[p] \notin Writing, pc'[p] \notin Writing PROVE EvenInv'
  BY <1>1, <1>a, <1>b, EvenSilent
<1>2. CASE Begin(p)
  <2>1. pc[p] \notin Writing /\ region' = region
    BY <1>2 DEF Begin, Writing
  <2>2. PICK program \in Programs :
           job' = [job EXCEPT ![p].program = program, ![p].todo = Codes]
    BY <1>2 DEF Begin
  <2>3. job'[p] = [job[p] EXCEPT !.program = program, !.todo = Codes]
    BY <1>c, <2>2
  <2>4. job'[p].todo = Codes
    BY <1>c, <2>3 DEF Jobs
  <2> QED
    BY <1>a, <1>b, <2>1, <2>4, EvenSilent
<1>3. CASE BeginCommit(p)
  <2>1. pc[p] \notin Writing /\ region' = region
    BY <1>3 DEF BeginCommit, ReadLength, Writing
  <2>2. Planned(job[p].results) = Codes
    BY <1>a, <1>3 DEF ProcOK, RunOK, CommitStages, Fails, Planned, BeginCommit, ReadLength
  <2>3. job'[p] = [job[p] EXCEPT !.base = Length, !.todo = Codes, !.i = 0]
    BY <1>3, <1>c, <2>2 DEF BeginCommit, ReadLength
  <2>4. job'[p].todo = Codes
    BY <1>c, <2>3 DEF Jobs
  <2> QED
    BY <1>a, <1>b, <2>1, <2>4, EvenSilent
<1>4. CASE Collect(p)
  BY <1>1, <1>4, <1>c DEF Collect, Goto, Writing
<1>5. CASE BeginFlags(p) \/ BeginFailed(p) \/ BeginRun(p)
  BY <1>1, <1>5, <1>c DEF BeginFlags, BeginFailed, BeginRun, ReadLength, Goto, Writing
<1>6. ASSUME NEW c \in Codes, AppendOutlier(p, c) PROVE EvenInv'
  BY <1>1, <1>6, <1>c DEF AppendOutlier, Goto, Writing
<1>7. CASE ListForStale(p) \/ AppendFailed(p)
  BY <1>1, <1>7, <1>c DEF ListForStale, AppendFailed, Goto, Writing
<1>8. CASE AppendRun(p)
  <2>1. pc'[p] \in {"idle", "collect"}
    BY <1>8, <1>c DEF AppendRun, End, Goto
  <2> QED
    BY <1>1, <1>8, <2>1 DEF AppendRun, Writing
<1>9. CASE Stop(p)
  BY <1>1, <1>9, <1>c DEF Stop, End, Goto, Writing
<1>10. ~Collide(p)
  BY <1>a, NeverCollides
<1> QED
  BY <1>2, <1>3, <1>4, <1>5, <1>6, <1>7, <1>8, <1>9, <1>10, <1>a, <1>b,
     SeedEven, UpsertEven, IngestEven, StaleEven DEF Step


-----------------------------------------------------------------------------
LEMMA AloneStep == IInv /\ AloneInv /\ [Next]_vars => AloneInv'
<1> SUFFICES ASSUME IInv, AloneInv, [Next]_vars PROVE AloneInv'
  OBVIOUS
<1>1. ASSUME NEW p \in Procs, Step(p) PROVE AloneInv'
  BY <1>1, OneKept, NumbersKept, ReadingKept, EvenKept DEF IInv, AloneInv
<1>2. ASSUME UNCHANGED vars \/ OtherEvent PROVE AloneInv'
  <2>1. UNCHANGED <<region, audit, pc, job, deaths, disturbed>>
    BY <1>2 DEF vars, OtherEvent
  <2>2. others \in Nat /\ others' \in Nat /\ others <= others'
    <3>1. others \in Nat /\ (others' = others \/ others' = others + 1)
      BY <1>2 DEF vars, OtherEvent, IInv, TypeOK
    <3> QED
      BY <3>1
  <2>3. Length \in Nat /\ Length' \in Nat /\ Length <= Length'
    BY <2>1, <2>2, LengthGrows DEF IInv
  <2>4. \A e \in audit : e.n \in Nat
    BY DEF IInv, TypeOK, Events
  <2>5. \A p \in Procs : job[p].base + job[p].i \in Nat
    BY DEF IInv, TypeOK, Jobs
  <2>6. NumbersInv'
    <3> SUFFICES ASSUME Alone PROVE NumbersInv'
      BY <2>1 DEF NumbersInv, Alone
    <3>1. \A e \in audit : e.n <= Length'
      BY <2>3, <2>4 DEF AloneInv, NumbersInv
    <3>2. \A p \in Procs : pc[p] \in Numbering => job[p].base + job[p].i <= Length'
      BY <2>3, <2>5 DEF AloneInv, NumbersInv
    <3>3. \A p \in Procs : pc[p] \in Numbering =>
             \A e \in audit : e.n <= job[p].base + job[p].i
      BY DEF AloneInv, NumbersInv
    <3> QED
      BY <2>1, <3>1, <3>2, <3>3 DEF NumbersInv
  <2>7. OneAtATime' /\ FreshReading'
    BY <2>1 DEF AloneInv, OneAtATime, FreshReading, Alone
  <2>8. EvenInv'
    BY <2>1 DEF AloneInv, EvenInv, Alone, Even, Rent
  <2> QED
    BY <2>6, <2>7, <2>8 DEF AloneInv
<1> QED
  BY <1>1, <1>2 DEF Next, Waiting

LEMMA AloneInvariance == Spec => [](IInv /\ AloneInv)
<1>1. Init => IInv /\ AloneInv
  BY InitHolds, InitAlone
<1>2. (IInv /\ AloneInv) /\ [Next]_vars => (IInv /\ AloneInv)'
  BY StepKeeps, AloneStep
<1> QED
  BY <1>1, <1>2, PTL DEF Spec

(* As long as no process met another or died, what is always derived comes *)
(* from one collection in every region whenever nothing runs: a batch that *)
(* failed for one region wrote none (collect_market), no number of its     *)
(* events was taken, and what it marked stale kept its value.              *)
THEOREM BatchIsAllOrNothing == Spec => []AllOrNothing
<1>1. AloneInv => AllOrNothing
  BY DEF AloneInv, EvenInv, Even, Rent, Alone, AllOrNothing
<1> QED
  BY <1>1, AloneInvariance, PTL

(***************************************************************************)
(* A failed run, step by step.                                             *)
(***************************************************************************)
LEMMA NoChangeIsNoWorse ==
    ASSUME TypeOK, NEW c \in Codes, region'[c] = region[c] PROVE OnlyWorse(c)
<1>1. \A f \in Fields : Severity[region[c].lineage[f].grade] \in 0 .. 2
  BY DEF TypeOK, Records, Lineage, Grades, Severity
<1> QED
  BY <1>1 DEF OnlyWorse

LEMMA DowngradeIsOnlyWorse ==
    ASSUME TypeOK, NEW c \in Codes, region'[c] = Downgraded(region[c]) PROVE OnlyWorse(c)
<1> DEFINE before == region[c].lineage
           after == region'[c].lineage
<1>1. region[c] \in Records
  BY DEF TypeOK
<1>2. region'[c].value = region[c].value
  BY <1>1, DowngradedValue
<1>3. \A f \in Fields : after[f].grade = IF before[f].grade = "verified" THEN "stale"
                                        ELSE before[f].grade
  BY <1>1 DEF Downgraded, Records, Lineage
<1>4. \A f \in Fields : before[f].grade \in Grades
  BY <1>1 DEF Records, Lineage
<1> HIDE DEF before, after
<1>5. \A f \in Fields : Severity[after[f].grade] >= Severity[before[f].grade]
  BY <1>3, <1>4 DEF Grades, Severity
<1>6. \A f \in Fields : before[f].grade = "unverified" => after[f].grade = "unverified"
  BY <1>3
<1> QED
  BY <1>2, <1>5, <1>6 DEF OnlyWorse, before, after

DowngradeStep ==
    disturbed = {} =>
      \A p \in Procs : pc[p] = "stale" /\ job'[p] # job[p] => \A c \in Codes : OnlyWorse(c)

LEMMA FailureDowngrades == IInv /\ AloneInv /\ [Next]_vars => DowngradeStep
<1> SUFFICES ASSUME IInv, AloneInv, [Next]_vars, disturbed = {},
                    NEW p \in Procs, pc[p] = "stale", job'[p] # job[p], NEW c \in Codes
             PROVE  OnlyWorse(c)
  BY DEF DowngradeStep
<1>1. Step(p)
  <2>1. PICK q \in Procs : Step(q)
    BY DEF Next, Waiting, OtherEvent, vars
  <2>2. OthersStay(q)
    BY <2>1, OthersStand DEF IInv
  <2> QED
    BY <2>1, <2>2 DEF OthersStay
<1>2. (\E d \in Codes : MarkStale(p, d)) \/ Die(p)
  BY <1>1 DEF Step, Begin, Seed, Collect, BeginCommit, BeginFlags, BeginFailed, BeginRun,
     ReadLength, Upsert, AppendIngest, AppendOutlier, ListForStale, AppendFailed, AppendRun,
     Collide, Due, Stop
<1>3. CASE Die(p)
  BY <1>3, NoChangeIsNoWorse DEF Die, IInv
<1>4. ASSUME NEW d \in Codes, MarkStale(p, d) PROVE OnlyWorse(c)
  <2>1. job[p].snap[d] = region[d] /\ region \in [Codes -> Records]
    BY <1>4 DEF AloneInv, FreshReading, Alone, MarkStale, IInv, TypeOK
  <2>2. region' = [region EXCEPT ![d] = Downgraded(region[d])]
    BY <1>4, <2>1 DEF MarkStale
  <2>3. CASE c = d
    BY <2>1, <2>2, <2>3, DowngradeIsOnlyWorse DEF IInv
  <2>4. CASE c # d
    BY <2>1, <2>2, <2>4, NoChangeIsNoWorse DEF IInv
  <2> QED
    BY <2>3, <2>4
<1> QED
  BY <1>2, <1>3, <1>4

(* What a failed run writes keeps every value and only lowers grades, as   *)
(* long as no process met another: the regions it writes back are still    *)
(* what it read (_mark_stale).                                             *)
THEOREM FailuresOnlyDowngrade == Spec => FailureOnlyDowngrades
<1>1. IInv /\ AloneInv /\ [Next]_vars => [DowngradeStep]_vars
  BY FailureDowngrades
<1>2. [][Next]_vars /\ [](IInv /\ AloneInv) => [][DowngradeStep]_vars
  BY <1>1, PTL
<1> QED
  BY <1>2, AloneInvariance DEF Spec, FailureOnlyDowngrades, DowngradeStep

-----------------------------------------------------------------------------
(* The collection: pages and months.                                       *)

LEMMA Cut ==
    ASSUME NEW S, NEW rows \in Seq(S), NEW lo \in Nat, NEW hi \in Nat, lo <= hi, hi <= Len(rows)
    PROVE  /\ SubSeq(rows, lo + 1, hi) \in Seq(S)
           /\ Len(SubSeq(rows, lo + 1, hi)) = hi - lo
           /\ \A i \in 1 .. hi - lo : SubSeq(rows, lo + 1, hi)[i] = rows[lo + i]
<1>1. Len(rows) \in Nat /\ \A i \in 1 .. Len(rows) : rows[i] \in S
  BY LenProperties, ElementOfSeq
<1>2. lo + 1 \in Int /\ \A i \in lo + 1 .. hi : rows[i] \in S
  BY <1>1
<1> DEFINE cut == SubSeq(rows, lo + 1, hi)
<1>3. /\ cut \in Seq(S) /\ Len(cut) = IF lo + 1 <= hi THEN hi - (lo + 1) + 1 ELSE 0
      /\ \A i \in 1 .. hi - (lo + 1) + 1 : cut[i] = rows[lo + 1 + i - 1]
  BY <1>2, SubSeqProperties
<1> HIDE DEF cut
<1>4. hi - (lo + 1) + 1 = hi - lo /\ (IF lo + 1 <= hi THEN hi - lo ELSE 0) = hi - lo
  OBVIOUS
<1>5. ASSUME NEW i \in 1 .. hi - lo PROVE cut[i] = rows[lo + i]
  <2>1. lo + 1 + i - 1 = lo + i
    OBVIOUS
  <2>2. cut[i] = rows[lo + 1 + i - 1]
    BY <1>3, <1>4
  <2> QED
    BY <2>1, <2>2
<1> QED
  BY <1>3, <1>4, <1>5 DEF cut

LEMMA Prefix ==
    ASSUME NEW S, NEW rows \in Seq(S), NEW hi \in Nat, hi <= Len(rows)
    PROVE  /\ SubSeq(rows, 1, hi) \in Seq(S)
           /\ Len(SubSeq(rows, 1, hi)) = hi
           /\ \A i \in 1 .. hi : SubSeq(rows, 1, hi)[i] = rows[i]
<1>1. 0 + 1 = 1 /\ hi - 0 = hi /\ 0 <= hi /\ \A i \in 1 .. hi : 0 + i = i
  OBVIOUS
<1>2. /\ SubSeq(rows, 0 + 1, hi) \in Seq(S)
      /\ Len(SubSeq(rows, 0 + 1, hi)) = hi - 0
      /\ \A i \in 1 .. hi - 0 : SubSeq(rows, 0 + 1, hi)[i] = rows[0 + i]
  BY <1>1, Cut
<1> QED
  BY <1>1, <1>2

\* A list read page by page is the list.
LEMMA PageAfterPage ==
    ASSUME NEW S, NEW rows \in Seq(S), NEW lo \in Nat, NEW hi \in Nat, lo <= hi, hi <= Len(rows)
    PROVE  SubSeq(rows, 1, lo) \o SubSeq(rows, lo + 1, hi) = SubSeq(rows, 1, hi)
<1> DEFINE before == SubSeq(rows, 1, lo)
           batch == SubSeq(rows, lo + 1, hi)
           all == SubSeq(rows, 1, hi)
<1>1. Len(rows) \in Nat /\ lo <= Len(rows)
  BY LenProperties
<1>2. before \in Seq(S) /\ Len(before) = lo /\ \A i \in 1 .. lo : before[i] = rows[i]
  BY <1>1, Prefix
<1>3. /\ batch \in Seq(S) /\ Len(batch) = hi - lo
      /\ \A i \in 1 .. hi - lo : batch[i] = rows[lo + i]
  BY Cut
<1>4. all \in Seq(S) /\ Len(all) = hi /\ \A i \in 1 .. hi : all[i] = rows[i]
  BY Prefix
<1> HIDE DEF before, batch, all
<1>5. /\ before \o batch \in Seq(S)
      /\ Len(before \o batch) = Len(before) + Len(batch)
      /\ \A i \in 1 .. Len(before) + Len(batch) :
            (before \o batch)[i] = IF i <= Len(before) THEN before[i] ELSE batch[i - Len(before)]
  BY <1>2, <1>3, ConcatProperties
<1>6. Len(before) + Len(batch) = hi
  BY <1>2, <1>3
<1>7. ASSUME NEW i \in 1 .. hi PROVE (before \o batch)[i] = all[i]
  <2>1. (before \o batch)[i] = IF i <= lo THEN before[i] ELSE batch[i - lo]
    BY <1>2, <1>5, <1>6
  <2>2. CASE i <= lo
    BY <1>2, <1>4, <2>1, <2>2
  <2>3. CASE lo < i
    <3>1. i - lo \in 1 .. hi - lo /\ lo + (i - lo) = i
      BY <2>3
    <3>2. batch[i - lo] = rows[lo + (i - lo)]
      BY <1>3, <3>1
    <3> QED
      BY <1>4, <2>1, <2>3, <3>1, <3>2
  <2>4. i <= lo \/ lo < i
    OBVIOUS
  <2> QED
    BY <2>2, <2>3, <2>4
<1>8. before \o batch = all
  BY <1>4, <1>5, <1>6, <1>7, SeqEqual
<1> QED
  BY <1>8 DEF before, batch, all

\* A prefix of full length is everything.
LEMMA WholeIsAll ==
    ASSUME NEW S, NEW rows \in Seq(S)
    PROVE  SubSeq(rows, 1, Len(rows)) = rows
<1> DEFINE all == SubSeq(rows, 1, Len(rows))
<1>1. Len(rows) \in Nat /\ Len(rows) <= Len(rows)
  BY LenProperties
<1>2. all \in Seq(S) /\ Len(all) = Len(rows) /\ \A i \in 1 .. Len(rows) : all[i] = rows[i]
  BY <1>1, Prefix
<1> HIDE DEF all
<1>3. all = rows
  BY <1>2, SeqEqual
<1> QED
  BY <1>3 DEF all

LEMMA NextPage ==
    ASSUME NEW n \in Nat, n >= 1, NEW size \in Nat
    PROVE  /\ (n - 1) * size \in Nat /\ n * size \in Nat
           /\ n * size = (n - 1) * size + size
OBVIOUS

\* What fetch has when it has read one page more.
LEMMA PageIsRead ==
    ASSUME NEW S, NEW rows \in Seq(S), NEW n \in Nat, n >= 1, (n - 1) * PageSize <= Len(rows)
    PROVE  LET batch == PageOf(rows, n)
               sofar == SubSeq(rows, 1, (n - 1) * PageSize) \o batch
               end == IF n * PageSize < Len(rows) THEN n * PageSize ELSE Len(rows)
           IN  /\ sofar = SubSeq(rows, 1, end) /\ Len(sofar) = end
               /\ Len(batch) = end - (n - 1) * PageSize
<1>1. PageSize \in Nat /\ PageSize >= 1 /\ Len(rows) \in Nat
  BY SourceAssumption, LenProperties
<1> DEFINE lo == (n - 1) * PageSize
           top == n * PageSize
           end == IF top < Len(rows) THEN top ELSE Len(rows)
<1>2. lo \in Nat /\ top \in Nat /\ top = lo + PageSize
  BY <1>1, NextPage
<1>3. PageOf(rows, n) = SubSeq(rows, lo + 1, end)
  BY DEF PageOf
<1>4. lo <= Len(rows)
  OBVIOUS
<1> HIDE DEF lo, top
<1>5. end \in Nat /\ lo <= end /\ end <= Len(rows)
  BY <1>1, <1>2, <1>4
<1> HIDE DEF end
<1>6. SubSeq(rows, 1, lo) \o SubSeq(rows, lo + 1, end) = SubSeq(rows, 1, end)
  BY <1>2, <1>5, PageAfterPage
<1>7. Len(SubSeq(rows, 1, end)) = end
  BY <1>5, Prefix
<1>8. Len(SubSeq(rows, lo + 1, end)) = end - lo
  BY <1>2, <1>5, Cut
<1> QED
  BY <1>3, <1>6, <1>7, <1>8 DEF lo, top, end

-----------------------------------------------------------------------------
(* The invariant of a collection.                                          *)

Held(m, s, i, n) == m[s][Regions[i]][Window[n]]

\* CanBeRead, of any market
Readable(m, s, i) ==
    \A n \in DOMAIN Window :
        /\ s \in m.counting \/ Len(Held(m, s, i, n)) < PageSize
        /\ Len(Held(m, s, i, n)) <= MaxPages * PageSize

\* the rows of the first n months
Months(n) == {k \in DOMAIN Window : k <= n}
Keys(m, s, i, n) == UNION {{k} \X (DOMAIN Held(m, s, i, k)) : k \in Months(n)}
UpTo(m, s, i, n) == [p \in Keys(m, s, i, n) |-> Held(m, s, i, p[1])[p[2]]]

\* how many months of a service are collected
Done(at, of, n, s) ==
    IF at \in {"derive", "raised"} THEN Len(Window)
    ELSE IF s = of THEN n - 1
    ELSE IF s = "rent" THEN Len(Window) ELSE 0

CollectionTypes ==
    /\ market \in Markets
    /\ phase \in {"region", "key", "request", "month", "derive", "raised", "done"}
    /\ phase # "done" => index \in DOMAIN Regions
    /\ service \in Services
    /\ month \in DOMAIN Window
    /\ page \in Nat /\ page >= 1
    /\ raw = [s \in Services |-> raw[s]]
    /\ outcome = [i \in DOMAIN Regions |-> outcome[i]]

\* where the loops of _collect_raw stand at a phase
LoopsInv ==
    /\ phase = "region" => service = "rent" /\ month = 1
    /\ phase \in {"region", "key"} => page = 1 /\ items = <<>>

\* the months collected are all there, of a service that can be read
RawInv ==
    phase # "done" =>
        \A s \in Services : Readable(market, s, index) =>
            raw[s] = UpTo(market, s, index, Done(phase, service, month, s))

\* the month being read is there up to the page before
ItemsInv ==
    /\ phase \in {"key", "request"} =>
        /\ (page - 1) * PageSize <= Len(Held(market, service, index, month))
        /\ items = SubSeq(Held(market, service, index, month), 1, (page - 1) * PageSize)
    /\ phase = "month" /\ Readable(market, service, index) =>
        items = Held(market, service, index, month)

\* values that could be made of everything are
Whole(m, i, result) ==
    result.error = "none" /\ Readable(m, "rent", i) /\ Readable(m, "trade", i) =>
        result = derive(UpTo(m, "rent", i, Len(Window)), UpTo(m, "trade", i, Len(Window)))

OutcomesInv == \A i \in DOMAIN Regions : Whole(market, i, outcome[i])

CollectionInv == CollectionTypes /\ LoopsInv /\ RawInv /\ ItemsInv /\ OutcomesInv

LEMMA WindowFacts ==
    /\ Len(Window) \in Nat /\ Len(Window) >= 1 /\ DOMAIN Window = 1 .. Len(Window)
    /\ Len(Regions) \in Nat /\ Len(Regions) >= 1 /\ DOMAIN Regions = 1 .. Len(Regions)
BY SourceAssumption, LenProperties DEF IsSequence

LEMMA HeldIsSequence ==
    ASSUME NEW m \in Markets, NEW s \in Services, NEW i \in DOMAIN Regions, NEW n \in DOMAIN Window
    PROVE  LET rows == Held(m, s, i, n) IN
           /\ rows \in Seq({rows[k] : k \in DOMAIN rows})
           /\ Len(rows) \in Nat /\ DOMAIN rows = 1 .. Len(rows)
<1>1. IsSequence(Held(m, s, i, n))
  BY SourceAssumption DEF Held
<1>2. Held(m, s, i, n) \in Seq({Held(m, s, i, n)[k] : k \in DOMAIN Held(m, s, i, n)})
  BY <1>1 DEF IsSequence
<1> QED
  BY <1>2, LenProperties

LEMMA NothingYet == ASSUME NEW m, NEW s, NEW i PROVE UpTo(m, s, i, 0) = NoRows
<1>1. Months(0) = {}
  BY WindowFacts DEF Months
<1>2. Keys(m, s, i, 0) = {}
  BY <1>1 DEF Keys
<1> QED
  BY <1>2 DEF UpTo, NoRows

\* the rows of a month laid to those of the months before
WithMonth(before, rows, n) ==
    [p \in DOMAIN before \union ({n} \X (DOMAIN rows)) |->
        IF p[1] = n THEN rows[p[2]] ELSE before[p]]

LEMMA OneMonthMore ==
    ASSUME NEW m, NEW s, NEW i, NEW n \in DOMAIN Window
    PROVE  UpTo(m, s, i, n) = WithMonth(UpTo(m, s, i, n - 1), Held(m, s, i, n), n)
<1> DEFINE before == UpTo(m, s, i, n - 1)
           rows == Held(m, s, i, n)
<1>1. Months(n) = Months(n - 1) \union {n} /\ n \notin Months(n - 1)
  BY WindowFacts DEF Months
<1>2. /\ UpTo(m, s, i, n) = [p \in Keys(m, s, i, n) |-> Held(m, s, i, p[1])[p[2]]]
      /\ DOMAIN before = Keys(m, s, i, n - 1)
      /\ \A p \in Keys(m, s, i, n - 1) : before[p] = Held(m, s, i, p[1])[p[2]]
  BY DEF UpTo
<1>3. Keys(m, s, i, n) = Keys(m, s, i, n - 1) \union ({n} \X (DOMAIN rows))
  BY <1>1 DEF Keys
<1>4. \A p \in Keys(m, s, i, n) : p[1] = n \/ p \in Keys(m, s, i, n - 1)
  BY <1>3
<1>5. \A p \in Keys(m, s, i, n) :
        Held(m, s, i, p[1])[p[2]] = IF p[1] = n THEN rows[p[2]] ELSE before[p]
  BY <1>2, <1>4
<1> HIDE DEF before
<1> QED
  BY <1>2, <1>3, <1>5 DEF before, WithMonth

LEMMA InvMeansNothingIsLost == CollectionInv => NothingIsLost
<1> SUFFICES ASSUME CollectionInv, NEW i \in DOMAIN Regions, Complete(i)
    PROVE  outcome[i] = derive(Everything("rent", i), Everything("trade", i))
  BY DEF NothingIsLost
<1>1. Months(Len(Window)) = DOMAIN Window
  BY WindowFacts DEF Months
<1>2. \A s : Everything(s, i) = UpTo(market, s, i, Len(Window))
  BY <1>1 DEF Everything, UpTo, Keys, RowsOf, Held
<1>3. Readable(market, "rent", i) /\ Readable(market, "trade", i) /\ outcome[i].error = "none"
  BY DEF Complete, CanBeRead, RowsOf, Readable, Held
<1> QED
  BY <1>2, <1>3 DEF CollectionInv, OutcomesInv, Whole

LEMMA CollectionBegins == CollectionInit => CollectionInv
<1> SUFFICES ASSUME CollectionInit PROVE CollectionInv
  OBVIOUS
<1>1. CollectionTypes /\ LoopsInv
  BY WindowFacts DEF CollectionInit, CollectionTypes, LoopsInv, Services
<1>2. RawInv
  <2>1. \A s \in Services : Done(phase, service, month, s) = 0 /\ raw[s] = NoRows
    BY DEF CollectionInit, Done, Services
  <2> QED
    BY <2>1, NothingYet DEF RawInv
<1>3. ItemsInv
  BY DEF CollectionInit, ItemsInv
<1>4. OutcomesInv
  BY DEF CollectionInit, OutcomesInv, Whole, Pending, Failed
<1> QED
  BY <1>1, <1>2, <1>3, <1>4 DEF CollectionInv

\* A region is through, and the next one begins with nothing.
LEMMA ConcludeKeeps ==
    ASSUME CollectionInv, NEW result, Conclude(result), market' = market, phase # "done",
           Whole(market, index, result)
    PROVE  CollectionInv'
<1>1. index \in DOMAIN Regions
  BY DEF CollectionInv, CollectionTypes
<1>2. /\ outcome' = [outcome EXCEPT ![index] = result] /\ index' = index + 1
      /\ service' = "rent" /\ month' = 1 /\ page' = 1 /\ items' = <<>>
      /\ raw' = [s \in Services |-> NoRows]
      /\ phase' = IF index = Len(Regions) THEN "done" ELSE "region"
  BY DEF Conclude
<1>3. outcome = [i \in DOMAIN Regions |-> outcome[i]] /\ market' \in Markets
  BY DEF CollectionInv, CollectionTypes
<1>4. CollectionTypes'
  <2>1. phase' # "done" => index' \in DOMAIN Regions
    BY <1>1, <1>2, WindowFacts
  <2>2. outcome' = [i \in DOMAIN Regions |-> outcome'[i]]
    BY <1>2, <1>3
  <2>3. raw' = [s \in Services |-> raw'[s]]
    BY <1>2
  <2> QED
    BY <1>2, <1>3, <2>1, <2>2, <2>3, WindowFacts DEF CollectionTypes, Services
<1>5. LoopsInv' /\ ItemsInv'
  BY <1>2 DEF LoopsInv, ItemsInv
<1>6. RawInv'
  <2>1. ASSUME NEW s \in Services PROVE raw'[s] = UpTo(market', s, index', Done(phase', service', month', s))
    <3>1. Done(phase', service', month', s) = 0 /\ raw'[s] = NoRows
      BY <1>2 DEF Done, Services
    <3> QED
      BY <3>1, NothingYet
  <2> QED
    BY <2>1 DEF RawInv
<1>7. OutcomesInv'
  <2>1. \A i \in DOMAIN Regions : outcome'[i] = IF i = index THEN result ELSE outcome[i]
    BY <1>1, <1>2, <1>3
  <2> QED
    BY <2>1 DEF CollectionInv, OutcomesInv
<1> QED
  BY <1>4, <1>5, <1>6, <1>7 DEF CollectionInv

LEMMA FailureIsWhole ==
    ASSUME NEW reason, reason # "none"
    PROVE  \A i : Whole(market, i, Failed(reason))
BY DEF Whole, Failed

\* A step that stays in the region and keeps what was collected of it.
LEMMA SameOutcomes ==
    ASSUME OutcomesInv, market' = market, outcome' = outcome
    PROVE  OutcomesInv'
BY DEF OutcomesInv

LEMMA PageReadKeeps ==
    ASSUME CollectionInv, ReadPage
    PROVE  CollectionInv'
<1> DEFINE rows == Held(market, service, index, month)
           batch == PageOf(rows, page)
           end == IF page * PageSize < Len(rows) THEN page * PageSize ELSE Len(rows)
           lo == (page - 1) * PageSize
<1>1. /\ market \in Markets /\ service \in Services /\ index \in DOMAIN Regions /\ month \in DOMAIN Window
      /\ page \in Nat /\ page >= 1 /\ phase = "request"
  BY DEF CollectionInv, CollectionTypes, ReadPage
<1>2. rows \in Seq({rows[k] : k \in DOMAIN rows}) /\ Len(rows) \in Nat
  BY <1>1, HeldIsSequence
<1>3. Rows = rows
  BY DEF Rows, RowsOf, Held
<1>4. lo <= Len(rows) /\ items = SubSeq(rows, 1, lo)
  BY <1>1 DEF CollectionInv, ItemsInv
<1>5. /\ items' = items \o batch
      /\ IF LastPage(batch, items') \/ page = MaxPages
         THEN phase' = "month" /\ page' = page
         ELSE page' = page + 1 /\ phase' = "request"
      /\ UNCHANGED <<market, index, service, month, raw, outcome>>
  BY <1>1, <1>3 DEF ReadPage
<1> HIDE DEF rows
<1>6. /\ items' = SubSeq(rows, 1, end) /\ Len(items') = end
      /\ Len(batch) = end - lo
  BY <1>1, <1>2, <1>4, <1>5, PageIsRead
<1>7. PageSize \in Nat /\ PageSize >= 1 /\ MaxPages \in Nat
  BY SourceAssumption
<1>8. lo \in Nat /\ page * PageSize \in Nat /\ page * PageSize = lo + PageSize
  BY <1>1, <1>7, NextPage
<1> HIDE DEF batch, lo
<1>9. CollectionTypes'
  BY <1>1, <1>5 DEF CollectionInv, CollectionTypes
<1>10. LoopsInv' /\ OutcomesInv'
  BY <1>5, SameOutcomes DEF CollectionInv, LoopsInv
<1>11. RawInv'
  <2>1. \A s : Done(phase', service', month', s) = Done(phase, service, month, s)
    BY <1>1, <1>5 DEF Done
  <2> QED
    BY <1>1, <1>5, <2>1 DEF CollectionInv, RawInv
<1>12. CASE LastPage(batch, items') \/ page = MaxPages
  <2>1. phase' = "month"
    BY <1>5, <1>12
  <2>2. ASSUME Readable(market, service, index) PROVE items' = rows
    <3>1. /\ service \in market.counting \/ Len(rows) < PageSize
          /\ Len(rows) <= MaxPages * PageSize
      BY <1>1, <2>2 DEF Readable, rows
    <3>2. end = Len(rows)
      <4>1. CASE page = MaxPages
        BY <1>2, <1>8, <3>1, <4>1
      <4>2. CASE Len(batch) < PageSize
        BY <1>2, <1>4, <1>6, <1>7, <1>8, <4>2 DEF lo
      <4>3. CASE Len(items') >= total_count /\ service \in market.counting
        <5>1. total_count = Len(rows)
          BY <1>3, <4>3 DEF total_count
        <5> QED
          BY <1>2, <1>6, <1>8, <4>3, <5>1
      <4>4. CASE Len(rows) < PageSize
        BY <1>2, <1>7, <1>8, <4>4
      <4> QED
        BY <1>12, <3>1, <4>1, <4>2, <4>3, <4>4 DEF LastPage
    <3> QED
      BY <1>2, <1>6, <3>2, WholeIsAll
  <2>3. ItemsInv'
    BY <1>5, <2>1, <2>2 DEF ItemsInv, rows
  <2> QED
    BY <1>9, <1>10, <1>11, <2>3 DEF CollectionInv
<1>13. CASE ~(LastPage(batch, items') \/ page = MaxPages)
  <2>1. page' = page + 1 /\ phase' = "request"
    BY <1>5, <1>13
  <2>2. ~(Len(batch) < PageSize)
    BY <1>13 DEF LastPage
  <2>3. end = page * PageSize /\ page * PageSize <= Len(rows)
    <3>1. end - lo >= PageSize /\ end <= Len(rows) /\ end <= page * PageSize
      BY <1>2, <1>6, <1>7, <1>8, <2>2
    <3> QED
      BY <1>2, <1>7, <1>8, <3>1
  <2>4. (page' - 1) * PageSize = page * PageSize
    BY <1>1, <2>1
  <2>5. ItemsInv'
    BY <1>5, <1>6, <2>1, <2>3, <2>4 DEF ItemsInv, rows
  <2> QED
    BY <1>9, <1>10, <1>11, <2>5 DEF CollectionInv
<1> QED
  BY <1>12, <1>13

LEMMA MonthKeeps ==
    ASSUME CollectionInv, MonthCollected
    PROVE  CollectionInv'
<1>1. /\ market \in Markets /\ service \in Services /\ index \in DOMAIN Regions /\ month \in DOMAIN Window
      /\ phase = "month" /\ raw = [s \in Services |-> raw[s]]
  BY DEF CollectionInv, CollectionTypes, MonthCollected
<1> DEFINE more == WithMonth(raw[service], items, month)
<1>2. /\ raw' = [raw EXCEPT ![service] = more]
      /\ items' = <<>> /\ page' = 1
      /\ IF month < Len(Window)
         THEN month' = month + 1 /\ phase' = "key" /\ service' = service
         ELSE /\ month' = 1
              /\ IF service = "rent" THEN service' = "trade" /\ phase' = "key"
                 ELSE phase' = "derive" /\ service' = service
      /\ UNCHANGED <<market, index, outcome>>
  BY DEF MonthCollected, WithMonth
<1> HIDE DEF more
<1>3. /\ raw'[service] = more
      /\ \A s \in Services \ {service} : raw'[s] = raw[s]
      /\ raw' = [s \in Services |-> raw'[s]]
  BY <1>1, <1>2
<1>4. month \in 1 .. Len(Window) /\ Len(Window) \in Nat /\ Len(Window) >= 1 /\ DOMAIN Window = 1 .. Len(Window)
  BY <1>1, WindowFacts
<1>5. CollectionTypes'
  <2>1. month' \in DOMAIN Window /\ service' \in Services /\ phase' \in {"key", "derive"}
    BY <1>1, <1>2, <1>4 DEF Services
  <2> QED
    BY <1>1, <1>2, <1>3, <2>1 DEF CollectionInv, CollectionTypes
<1>6. LoopsInv' /\ OutcomesInv'
  BY <1>2, SameOutcomes DEF CollectionInv, LoopsInv
<1>7. ItemsInv'
  <2>1. Held(market, service', index, month') \in
          Seq({Held(market, service', index, month')[k] : k \in DOMAIN Held(market, service', index, month')})
        /\ Len(Held(market, service', index, month')) \in Nat
    BY <1>1, <1>2, <1>5, HeldIsSequence DEF CollectionTypes
  <2>2. (1 - 1) * PageSize = 0
    BY SourceAssumption
  <2>3. SubSeq(Held(market, service', index, month'), 1, 0) = <<>>
    BY SubSeqEmpty
  <2> QED
    BY <1>2, <2>1, <2>2, <2>3 DEF ItemsInv
<1>8. ASSUME NEW s \in Services, Readable(market, s, index)
      PROVE  raw'[s] = UpTo(market, s, index, Done(phase', service', month', s))
  <2>1. raw[s] = UpTo(market, s, index, Done(phase, service, month, s))
    BY <1>1, <1>8 DEF CollectionInv, RawInv
  <2>2. CASE s = service
    <3>1. items = Held(market, s, index, month)
      BY <1>1, <1>8, <2>2 DEF CollectionInv, ItemsInv
    <3>2. Done(phase, service, month, s) = month - 1
      BY <1>1, <2>2 DEF Done
    <3>3. UpTo(market, s, index, month) =
            WithMonth(UpTo(market, s, index, month - 1), Held(market, s, index, month), month)
      BY <1>1, OneMonthMore
    <3>4. more = UpTo(market, s, index, month)
      BY <2>1, <2>2, <3>1, <3>2, <3>3 DEF more
    <3>5. Done(phase', service', month', s) = month
      BY <1>1, <1>2, <1>4, <2>2 DEF Done, Services
    <3> QED
      BY <1>3, <2>2, <3>4, <3>5
  <2>3. CASE s # service
    <3>1. Done(phase', service', month', s) = Done(phase, service, month, s)
      BY <1>1, <1>2, <1>4, <2>3 DEF Done, Services
    <3> QED
      BY <1>3, <2>1, <2>3, <3>1
  <2> QED
    BY <2>2, <2>3
<1>9. RawInv'
  BY <1>2, <1>8 DEF RawInv
<1> QED
  BY <1>5, <1>6, <1>7, <1>9 DEF CollectionInv

LEMMA DeriveKeeps ==
    ASSUME CollectionInv, Derive
    PROVE  CollectionInv'
<1>1. phase = "derive" /\ market' = market
  BY DEF Derive
<1>2. CASE names_missing(raw["rent"]) \/ names_missing(raw["trade"])
  <2>1. phase' = "raised" /\ UNCHANGED <<place, items, raw, outcome>>
    BY <1>2 DEF Derive
  <2>2. UNCHANGED <<index, service, month, page, items, raw, outcome>>
    BY <2>1 DEF place
  <2>3. \A s : Done(phase', service', month', s) = Done(phase, service, month, s)
    BY <1>1, <2>1, <2>2 DEF Done
  <2>4. CollectionTypes' /\ LoopsInv' /\ ItemsInv' /\ OutcomesInv'
    BY <1>1, <2>1, <2>2, SameOutcomes DEF CollectionInv, CollectionTypes, LoopsInv, ItemsInv
  <2>5. RawInv'
    BY <1>1, <2>1, <2>2, <2>3 DEF CollectionInv, RawInv
  <2> QED
    BY <2>4, <2>5 DEF CollectionInv
<1>3. CASE ~(names_missing(raw["rent"]) \/ names_missing(raw["trade"]))
  <2> DEFINE result == derive(raw["rent"], raw["trade"])
  <2>1. Conclude(result)
    BY <1>3 DEF Derive
  <2>2. Whole(market, index, result)
    <3> SUFFICES ASSUME Readable(market, "rent", index), Readable(market, "trade", index)
        PROVE  result = derive(UpTo(market, "rent", index, Len(Window)), UpTo(market, "trade", index, Len(Window)))
      BY DEF Whole
    <3>1. \A s : Done(phase, service, month, s) = Len(Window)
      BY <1>1 DEF Done
    <3>2. raw["rent"] = UpTo(market, "rent", index, Len(Window))
          /\ raw["trade"] = UpTo(market, "trade", index, Len(Window))
      BY <1>1, <3>1 DEF CollectionInv, RawInv, Services
    <3> QED
      BY <3>2
  <2> HIDE DEF result
  <2> QED
    BY <1>1, <2>1, <2>2, ConcludeKeeps
<1> QED
  BY <1>2, <1>3

LEMMA FailureKeeps ==
    ASSUME CollectionInv, NEW reason, reason # "none", Conclude(Failed(reason)), market' = market,
           phase # "done"
    PROVE  CollectionInv'
<1>1. Whole(market, index, Failed(reason))
  BY FailureIsWhole
<1> QED
  BY <1>1, ConcludeKeeps

\* A step inside a request changes neither what is collected nor where.
LEMMA WaitingKeeps ==
    ASSUME CollectionInv, UNCHANGED <<market, index, service, month, page, items, raw, outcome>>,
           \/ phase = "region" /\ phase' = "key"
           \/ phase = "key" /\ phase' = "request"
           \/ phase' = phase
    PROVE  CollectionInv'
<1>1. \A s : Done(phase', service', month', s) = Done(phase, service, month, s)
  BY DEF Done
<1>2. CollectionTypes' /\ LoopsInv' /\ OutcomesInv'
  BY SameOutcomes DEF CollectionInv, CollectionTypes, LoopsInv
<1>3. RawInv'
  BY <1>1 DEF CollectionInv, RawInv
<1>4. ItemsInv'
  <2>1. CASE phase = "region"
    <3>1. page = 1 /\ items = <<>> /\ index \in DOMAIN Regions /\ market \in Markets
          /\ service \in Services /\ month \in DOMAIN Window
      BY <2>1 DEF CollectionInv, LoopsInv, CollectionTypes
    <3>2. Len(Held(market, service, index, month)) \in Nat
      BY <3>1, HeldIsSequence
    <3>3. (1 - 1) * PageSize = 0
      BY SourceAssumption
    <3>4. SubSeq(Held(market, service, index, month), 1, 0) = <<>>
      BY SubSeqEmpty
    <3> QED
      BY <2>1, <3>1, <3>2, <3>3, <3>4 DEF ItemsInv
  <2>2. CASE phase # "region"
    BY <2>2 DEF CollectionInv, ItemsInv
  <2> QED
    BY <2>1, <2>2
<1> QED
  BY <1>2, <1>3, <1>4 DEF CollectionInv

LEMMA CollectionKeeps == CollectionInv /\ [CollectionNext]_sourceVars => CollectionInv'
<1> SUFFICES ASSUME CollectionInv, [CollectionNext]_sourceVars PROVE CollectionInv'
  OBVIOUS
<1>1. service # "none"
  BY DEF CollectionInv, CollectionTypes, Services
<1>2. CASE UNCHANGED sourceVars
  BY <1>2, WaitingKeeps DEF sourceVars, place
<1>3. CASE StartRegion
  <2>1. phase = "region" /\ market' = market
    BY <1>3 DEF StartRegion
  <2>2. CASE elapsed > Deadline
    BY <1>3, <2>1, <2>2, FailureKeeps DEF StartRegion
  <2>3. CASE ~(elapsed > Deadline)
    BY <1>3, <2>1, <2>3, WaitingKeeps DEF StartRegion, place
  <2> QED
    BY <2>2, <2>3
<1>4. CASE ResolveKey
  BY <1>4, WaitingKeeps DEF ResolveKey, place
<1>5. CASE KeyMissing
  BY <1>1, <1>5, FailureKeeps DEF KeyMissing
<1>6. CASE TransportFails
  <2>1. phase = "request" /\ market' = market
    BY <1>6 DEF TransportFails
  <2>2. CASE attempt < MaxAttempts
    BY <1>6, <2>1, <2>2, WaitingKeeps DEF TransportFails
  <2>3. CASE ~(attempt < MaxAttempts)
    BY <1>1, <1>6, <2>1, <2>3, FailureKeeps DEF TransportFails
  <2> QED
    BY <2>2, <2>3
<1>7. CASE BadAnswer
  BY <1>1, <1>7, FailureKeeps DEF BadAnswer, Answered
<1> QED
  BY <1>2, <1>3, <1>4, <1>5, <1>6, <1>7, PageReadKeeps, MonthKeeps, DeriveKeeps DEF CollectionNext

(***************************************************************************)
(* No silent loss: the values collect_market derives for a region are      *)
(* those of every row of its months, for any rows, page size, retries and  *)
(* failures, as far as the services count their rows and MAX_PAGES lasts.  *)
(***************************************************************************)
THEOREM NothingIsEverLost == CollectionSpec => []NothingIsLost
<1>1. CollectionSpec => []CollectionInv
  BY CollectionBegins, CollectionKeeps, PTL DEF CollectionSpec
<1> QED
  BY <1>1, InvMeansNothingIsLost, PTL

-----------------------------------------------------------------------------
(* The statistics: rows that come several times.                           *)

LEMMA HalfRank ==
    ASSUME NEW count \in Nat, NEW k \in Nat
    PROVE  /\ 2 * count < k <=> count < (k + 1) \div 2
           /\ k <= 2 * count <=> (k + 1) \div 2 <= count
OBVIOUS

LEMMA MiddleRanks ==
    ASSUME NEW n \in Nat
    PROVE  /\ ((2 * n + 1) \div 2 + 1) \div 2 = (n + 1) \div 2
           /\ ((2 * n) \div 2 + 1 + 1) \div 2 = n \div 2 + 1
OBVIOUS

LEMMA CopiesCount ==
    ASSUME NEW S, IsFiniteSet(S), NEW c \in {1, 2}
    PROVE  /\ IsFiniteSet(S \X (1 .. c)) /\ Cardinality(S) \in Nat
           /\ Cardinality(S \X (1 .. c)) = c * Cardinality(S)
<1>1. IsFiniteSet(1 .. c) /\ Cardinality(1 .. c) = c
  BY FS_Interval
<1>2. Cardinality(S) \in Nat
  BY FS_CardinalityType
<1>3. /\ IsFiniteSet(S \X (1 .. c))
      /\ Cardinality(S \X (1 .. c)) = Cardinality(S) * Cardinality(1 .. c)
  BY <1>1, FS_Product
<1>4. Cardinality(S) * c = c * Cardinality(S)
  BY <1>2
<1> QED
  BY <1>1, <1>2, <1>3, <1>4

LEMMA NoCopies == ASSUME NEW S, NEW c \in {1, 2} PROVE S \X (1 .. c) = {} <=> S = {}
<1>1. ASSUME NEW s \in S PROVE <<s, 1>> \in S \X (1 .. c)
  OBVIOUS
<1>2. ASSUME S = {} PROVE S \X (1 .. c) = {}
  BY <1>2
<1> QED
  BY <1>1, <1>2

Below(values, x) == {i \in DOMAIN values : values[i] < x}
AtMost(values, x) == {i \in DOMAIN values : values[i] <= x}

\* the values that stand at a rank
HasRank(values, k, x) ==
    /\ x \in {values[i] : i \in DOMAIN values}
    /\ Cardinality(Below(values, x)) < k
    /\ k <= Cardinality(AtMost(values, x))

Graph(values, S) == {<<i, values[i]>> : i \in S}

LEMMA GraphCount ==
    ASSUME NEW values, NEW S, IsFiniteSet(S)
    PROVE  Cardinality(Graph(values, S)) = Cardinality(S)
<1> DEFINE f == [i \in S |-> <<i, values[i]>>]
<1>1. f \in Bijection(S, Graph(values, S))
  <2>1. f \in [S -> Graph(values, S)]
    BY DEF Graph
  <2>2. \A i, j \in S : f[i] = f[j] => i = j
    OBVIOUS
  <2>3. \A g \in Graph(values, S) : \E i \in S : f[i] = g
    BY DEF Graph
  <2> HIDE DEF f
  <2> QED
    BY <2>1, <2>2, <2>3 DEF Bijection, Injection, Surjection, IsInjective
<1>2. ExistsBijection(S, Graph(values, S))
  BY <1>1 DEF ExistsBijection
<1> QED
  BY <1>2, FS_Bijection

LEMMA RankOfValues ==
    ASSUME NEW values, IsFiniteSet(DOMAIN values), NEW k
    PROVE  AtRank(Graph(values, DOMAIN values), k) = CHOOSE x : HasRank(values, k, x)
<1> DEFINE amounts == Graph(values, DOMAIN values)
<1>1. {a[2] : a \in amounts} = {values[i] : i \in DOMAIN values}
  <2>1. ASSUME NEW i \in DOMAIN values PROVE \E a \in amounts : a[2] = values[i]
    <3>1. <<i, values[i]>> \in amounts /\ <<i, values[i]>>[2] = values[i]
      BY DEF Graph
    <3> HIDE DEF amounts
    <3> QED
      BY <3>1
  <2>2. \A a \in amounts : \E i \in DOMAIN values : a[2] = values[i]
    BY DEF Graph
  <2> HIDE DEF amounts
  <2> QED
    BY <2>1, <2>2
<1>2. ASSUME NEW x
      PROVE  /\ Cardinality({a \in amounts : a[2] < x}) = Cardinality(Below(values, x))
             /\ Cardinality({a \in amounts : a[2] <= x}) = Cardinality(AtMost(values, x))
  <2>1. /\ {a \in amounts : a[2] < x} = Graph(values, Below(values, x))
        /\ {a \in amounts : a[2] <= x} = Graph(values, AtMost(values, x))
    BY DEF Graph, Below, AtMost
  <2>2. IsFiniteSet(Below(values, x)) /\ IsFiniteSet(AtMost(values, x))
    BY FS_Subset DEF Below, AtMost
  <2> QED
    BY <2>1, <2>2, GraphCount
<1> HIDE DEF amounts
<1>3. \A x : HasRank(values, k, x) <=>
        /\ x \in {a[2] : a \in amounts}
        /\ Cardinality({a \in amounts : a[2] < x}) < k
        /\ k <= Cardinality({a \in amounts : a[2] <= x})
  BY <1>1, <1>2 DEF HasRank
<1>4. AtRank(amounts, k) = CHOOSE x : HasRank(values, k, x)
  BY <1>3, Zenon DEF AtRank
<1> QED
  BY <1>4 DEF amounts

\* every value comes c times
Copied(big, small, c) ==
    /\ IsFiniteSet(DOMAIN small)
    /\ DOMAIN big = (DOMAIN small) \X (1 .. c)
    /\ \A q \in DOMAIN big : big[q] = small[q[1]]

\* A median asks nothing but how many are below.
LEMMA MedianOfCopies ==
    ASSUME NEW big, NEW small, NEW c \in {1, 2}, Copied(big, small, c)
    PROVE  median(big) = median(small)
<1> DEFINE n == Cardinality(DOMAIN small)
<1>1. /\ IsFiniteSet(DOMAIN small) /\ IsFiniteSet(DOMAIN big) /\ n \in Nat
      /\ Cardinality(DOMAIN big) = c * n
  BY CopiesCount DEF Copied
<1>2. {big[q] : q \in DOMAIN big} = {small[i] : i \in DOMAIN small}
  <2>1. \A i \in DOMAIN small : <<i, 1>> \in DOMAIN big /\ big[<<i, 1>>] = small[i]
    BY DEF Copied
  <2>2. \A i \in DOMAIN small : \E q \in DOMAIN big : small[i] = big[q]
    BY <2>1
  <2>3. \A q \in DOMAIN big : \E i \in DOMAIN small : big[q] = small[i]
    BY DEF Copied
  <2> QED
    BY <2>2, <2>3
<1>3. ASSUME NEW x
      PROVE  /\ Cardinality(Below(big, x)) = c * Cardinality(Below(small, x))
             /\ Cardinality(AtMost(big, x)) = c * Cardinality(AtMost(small, x))
             /\ Cardinality(Below(small, x)) \in Nat /\ Cardinality(AtMost(small, x)) \in Nat
  <2>1. /\ Below(big, x) = (Below(small, x)) \X (1 .. c)
        /\ AtMost(big, x) = (AtMost(small, x)) \X (1 .. c)
    BY DEF Copied, Below, AtMost
  <2>2. IsFiniteSet(Below(small, x)) /\ IsFiniteSet(AtMost(small, x))
    BY <1>1, FS_Subset DEF Below, AtMost
  <2> QED
    BY <2>1, <2>2, CopiesCount
<1>4. median(small) = AtRank(Graph(small, DOMAIN small), (n + 1) \div 2)
                      + AtRank(Graph(small, DOMAIN small), n \div 2 + 1)
  BY DEF median, Graph
<1>5. median(big) = AtRank(Graph(big, DOMAIN big), (c * n + 1) \div 2)
                    + AtRank(Graph(big, DOMAIN big), (c * n) \div 2 + 1)
  BY <1>1 DEF median, Graph
<1> HIDE DEF n
<1>6. ASSUME NEW k \in Nat, NEW half \in Nat, half = IF c = 1 THEN k ELSE (k + 1) \div 2
      PROVE  AtRank(Graph(big, DOMAIN big), k) = AtRank(Graph(small, DOMAIN small), half)
  <2>1. \A x : HasRank(big, k, x) <=> HasRank(small, half, x)
    <3>1. ASSUME NEW x
          PROVE  /\ Cardinality(Below(big, x)) < k <=> Cardinality(Below(small, x)) < half
                 /\ k <= Cardinality(AtMost(big, x)) <=> half <= Cardinality(AtMost(small, x))
      <4>1. CASE c = 1
        BY <1>3, <1>6, <4>1
      <4>2. CASE c = 2
        BY <1>3, <1>6, <4>2, HalfRank
      <4> QED
        BY <4>1, <4>2
    <3> QED
      BY <1>2, <3>1 DEF HasRank
  <2>2. (CHOOSE x : HasRank(big, k, x)) = CHOOSE x : HasRank(small, half, x)
    BY <2>1, Zenon
  <2> QED
    BY <1>1, <2>2, RankOfValues
<1>7. CASE c = 1
  <2>1. (n + 1) \div 2 \in Nat /\ n \div 2 + 1 \in Nat /\ c * n = n
    BY <1>1, <1>7
  <2> QED
    BY <1>4, <1>5, <1>6, <1>7, <2>1
<1>8. CASE c = 2
  <2>1. /\ (2 * n + 1) \div 2 \in Nat /\ (2 * n) \div 2 + 1 \in Nat
        /\ (n + 1) \div 2 \in Nat /\ n \div 2 + 1 \in Nat
        /\ ((2 * n + 1) \div 2 + 1) \div 2 = (n + 1) \div 2
        /\ ((2 * n) \div 2 + 1 + 1) \div 2 = n \div 2 + 1
    BY <1>1, MiddleRanks
  <2>2. AtRank(Graph(big, DOMAIN big), (2 * n + 1) \div 2) = AtRank(Graph(small, DOMAIN small), (n + 1) \div 2)
    BY <1>6, <1>8, <2>1
  <2>3. AtRank(Graph(big, DOMAIN big), (2 * n) \div 2 + 1) = AtRank(Graph(small, DOMAIN small), n \div 2 + 1)
    BY <1>6, <1>8, <2>1
  <2> QED
    BY <1>4, <1>5, <1>8, <2>2, <2>3
<1> QED
  BY <1>7, <1>8

-----------------------------------------------------------------------------
(* Rows with those of some cells again.                                    *)

Twice(rows, keys) == {p \in DOMAIN rows : cell_key(rows[p]) \in keys}
AgainDomain(rows, keys) == ((DOMAIN rows) \X {1}) \union (Twice(rows, keys) \X {2})

LEMMA AgainFacts ==
    ASSUME NEW rows, NEW keys
    PROVE  /\ Again(rows, keys) = [q \in AgainDomain(rows, keys) |-> rows[q[1]]]
           /\ DOMAIN Again(rows, keys) = AgainDomain(rows, keys)
           /\ \A q \in AgainDomain(rows, keys) : q[1] \in DOMAIN rows /\ Again(rows, keys)[q] = rows[q[1]]
           /\ \A p \in DOMAIN rows : <<p, 1>> \in AgainDomain(rows, keys) /\ <<p, 1>>[1] = p
BY DEF Again, AgainDomain, Twice

LEMMA AgainRestricted ==
    ASSUME NEW rows, NEW keys, NEW T \in SUBSET DOMAIN rows
    PROVE  Restricted(Again(rows, keys), {q \in DOMAIN Again(rows, keys) : q[1] \in T})
               = Again(Restricted(rows, T), keys)
<1> DEFINE part == Restricted(rows, T)
           places == {q \in AgainDomain(rows, keys) : q[1] \in T}
<1>1. DOMAIN part = T /\ \A p \in T : part[p] = rows[p]
  BY DEF Restricted
<1> HIDE DEF part
<1>2. Twice(part, keys) = {p \in Twice(rows, keys) : p \in T}
  BY <1>1 DEF Twice
<1>3. AgainDomain(part, keys) = places
  BY <1>1, <1>2 DEF AgainDomain
<1>4. Again(part, keys) = [q \in places |-> part[q[1]]]
  <2>1. Again(part, keys) = [q \in AgainDomain(part, keys) |-> part[q[1]]]
    BY AgainFacts
  <2> QED
    BY <1>3, <2>1
<1>5. \A q \in places : part[q[1]] = Again(rows, keys)[q]
  BY <1>1, AgainFacts
<1>6. Again(part, keys) = [q \in places |-> Again(rows, keys)[q]]
  BY <1>4, <1>5
<1> QED
  BY <1>6, AgainFacts DEF Restricted, part

\* all the rows come again, or none
Evenly(rows, keys, c) ==
    /\ IsFiniteSet(DOMAIN rows)
    /\ \A p \in DOMAIN rows : cell_key(rows[p]) \in keys <=> c = 2

LEMMA EvenDomain ==
    ASSUME NEW rows, NEW keys, NEW c \in {1, 2}, Evenly(rows, keys, c)
    PROVE  AgainDomain(rows, keys) = (DOMAIN rows) \X (1 .. c)
<1>1. CASE c = 1
  <2>1. Twice(rows, keys) = {} /\ 1 .. c = {1}
    BY <1>1 DEF Evenly, Twice
  <2> QED
    BY <2>1 DEF AgainDomain
<1>2. CASE c = 2
  <2>1. Twice(rows, keys) = DOMAIN rows /\ 1 .. c = {1, 2}
    BY <1>2 DEF Evenly, Twice
  <2>2. ((DOMAIN rows) \X {1}) \union ((DOMAIN rows) \X {2}) = (DOMAIN rows) \X {1, 2}
    OBVIOUS
  <2> QED
    BY <2>1, <2>2 DEF AgainDomain
<1> QED
  BY <1>1, <1>2

LEMMA ColumnsAgain ==
    ASSUME NEW rows, NEW keys, NEW c \in {1, 2}, Evenly(rows, keys, c)
    PROVE  /\ Copied(Column(Again(rows, keys), deposit), Column(rows, deposit), c)
           /\ Copied(Column(Again(rows, keys), rent), Column(rows, rent), c)
           /\ Copied(Column(Again(rows, keys), amount), Column(rows, amount), c)
<1>1. /\ DOMAIN Again(rows, keys) = (DOMAIN rows) \X (1 .. c)
      /\ \A q \in (DOMAIN rows) \X (1 .. c) : q[1] \in DOMAIN rows /\ Again(rows, keys)[q] = rows[q[1]]
  <2>1. AgainDomain(rows, keys) = (DOMAIN rows) \X (1 .. c)
    BY EvenDomain
  <2>2. /\ DOMAIN Again(rows, keys) = AgainDomain(rows, keys)
        /\ \A q \in AgainDomain(rows, keys) : q[1] \in DOMAIN rows /\ Again(rows, keys)[q] = rows[q[1]]
    BY AgainFacts
  <2> QED
    BY <2>1, <2>2
<1>2. IsFiniteSet(DOMAIN rows)
  BY DEF Evenly
<1> QED
  BY <1>1, <1>2 DEF Copied, Column

LEMMA MediansAgain ==
    ASSUME NEW rows, NEW keys, NEW c \in {1, 2}, Evenly(rows, keys, c)
    PROVE  /\ median(Column(Again(rows, keys), deposit)) = median(Column(rows, deposit))
           /\ median(Column(Again(rows, keys), rent)) = median(Column(rows, rent))
           /\ median(Column(Again(rows, keys), amount)) = median(Column(rows, amount))
<1>1. /\ Copied(Column(Again(rows, keys), deposit), Column(rows, deposit), c)
      /\ Copied(Column(Again(rows, keys), rent), Column(rows, rent), c)
      /\ Copied(Column(Again(rows, keys), amount), Column(rows, amount), c)
  BY ColumnsAgain
<1> QED
  BY <1>1, MedianOfCopies

\* Outliers that all come again are the same share.
LEMMA ExceedsAgain ==
    ASSUME NEW big, NEW small, NEW c \in {1, 2}, Copied(big, small, c), NEW statistic
    PROVE  exceeds(big, statistic) <=> exceeds(small, statistic)
<1> DEFINE ratio == OutlierRatio[statistic]
           few == detect_outliers(small, ratio)
           many == detect_outliers(big, ratio)
           middle == median(small)
<1>1. median(big) = middle
  BY MedianOfCopies
<1>2. /\ IsFiniteSet(DOMAIN small) /\ DOMAIN big = (DOMAIN small) \X (1 .. c)
      /\ \A q \in (DOMAIN small) \X (1 .. c) : q[1] \in DOMAIN small /\ big[q] = small[q[1]]
  BY DEF Copied
<1>3. DOMAIN big = {} <=> DOMAIN small = {}
  BY <1>2, NoCopies
<1> HIDE DEF middle, ratio
<1>4. few \in SUBSET DOMAIN small /\ many = few \X (1 .. c)
  <2>1. CASE DOMAIN small = {} \/ middle <= 0
    <3>1. few = {} /\ many = {}
      BY <1>1, <1>3, <2>1 DEF detect_outliers, middle
    <3> HIDE DEF few, many
    <3> QED
      BY <3>1
  <2>2. CASE ~(DOMAIN small = {} \/ middle <= 0)
    <3>1. few = {i \in DOMAIN small : 2 * small[i] > middle * ratio \/ 2 * small[i] * ratio < middle}
      BY <2>2 DEF detect_outliers, middle
    <3>2. many = {q \in DOMAIN big : 2 * big[q] > middle * ratio \/ 2 * big[q] * ratio < middle}
      BY <1>1, <1>3, <2>2 DEF detect_outliers, middle
    <3> HIDE DEF few, many
    <3> QED
      BY <1>2, <3>1, <3>2
  <2> QED
    BY <2>1, <2>2
<1> HIDE DEF few, many
<1>5. IsFiniteSet(few)
  BY <1>2, <1>4, FS_Subset
<1>6. /\ Cardinality(many) = c * Cardinality(few) /\ Cardinality(few) \in Nat
      /\ Cardinality(DOMAIN big) = c * Cardinality(DOMAIN small) /\ Cardinality(DOMAIN small) \in Nat
  BY <1>2, <1>4, <1>5, CopiesCount
<1>7. many # {} <=> few # {}
  BY <1>4, NoCopies
<1>8. Cardinality(many) * 100 > ShareThreshold * Cardinality(DOMAIN big) <=>
      Cardinality(few) * 100 > ShareThreshold * Cardinality(DOMAIN small)
  <2>1. ShareThreshold \in Nat
    BY SettingsAssumption
  <2>2. \A x, y, t \in Nat : x * 100 > t * y <=> (2 * x) * 100 > t * (2 * y)
    <3>1. \A t, y \in Nat : t * (2 * y) = 2 * (t * y) /\ t * y \in Nat
      OBVIOUS
    <3> QED
      BY <3>1
  <2>3. CASE c = 1
    BY <1>6, <2>3
  <2>4. CASE c = 2
    BY <1>6, <2>1, <2>2, <2>4
  <2> QED
    BY <2>3, <2>4
<1> QED
  BY <1>7, <1>8 DEF exceeds, few, many, ratio

LEMMA CellsAgain == ASSUME NEW rows, NEW keys PROVE Cells(Again(rows, keys)) = Cells(rows)
<1>1. /\ DOMAIN Again(rows, keys) = AgainDomain(rows, keys)
      /\ \A q \in AgainDomain(rows, keys) : q[1] \in DOMAIN rows /\ Again(rows, keys)[q] = rows[q[1]]
      /\ \A p \in DOMAIN rows : <<p, 1>> \in AgainDomain(rows, keys) /\ <<p, 1>>[1] = p
  BY AgainFacts
<1>2. \A q \in DOMAIN Again(rows, keys) : \E p \in DOMAIN rows : Again(rows, keys)[q] = rows[p]
  BY <1>1
<1>3. \A p \in DOMAIN rows : \E q \in DOMAIN Again(rows, keys) : Again(rows, keys)[q] = rows[p]
  BY <1>1
<1> QED
  BY <1>2, <1>3 DEF Cells

InCellPlaces(rows, key) == {p \in DOMAIN rows : cell_key(rows[p]) = key}

LEMMA InCellAgain ==
    ASSUME NEW rows, NEW keys, NEW key
    PROVE  InCell(Again(rows, keys), key) = Again(InCell(rows, key), keys)
<1> DEFINE T == InCellPlaces(rows, key)
<1>1. /\ DOMAIN Again(rows, keys) = AgainDomain(rows, keys)
      /\ \A q \in AgainDomain(rows, keys) : q[1] \in DOMAIN rows /\ Again(rows, keys)[q] = rows[q[1]]
  BY AgainFacts
<1>2. T \in SUBSET DOMAIN rows
  BY DEF InCellPlaces
<1>3. {q \in DOMAIN Again(rows, keys) : cell_key(Again(rows, keys)[q]) = key}
        = {q \in DOMAIN Again(rows, keys) : q[1] \in T}
  BY <1>1 DEF InCellPlaces
<1> HIDE DEF T
<1>4. Restricted(Again(rows, keys), {q \in DOMAIN Again(rows, keys) : q[1] \in T})
        = Again(Restricted(rows, T), keys)
  BY <1>2, AgainRestricted
<1>5. InCell(rows, key) = Restricted(rows, T)
  BY DEF InCell, T, InCellPlaces
<1> QED
  BY <1>3, <1>4, <1>5 DEF InCell

LEMMA InCellEvenly ==
    ASSUME NEW rows, IsFiniteSet(DOMAIN rows), NEW keys, NEW key
    PROVE  Evenly(InCell(rows, key), keys, IF key \in keys THEN 2 ELSE 1)
<1>1. /\ DOMAIN InCell(rows, key) = InCellPlaces(rows, key)
      /\ \A p \in InCellPlaces(rows, key) : InCell(rows, key)[p] = rows[p]
  BY DEF InCell, InCellPlaces, Restricted
<1>2. InCellPlaces(rows, key) \in SUBSET DOMAIN rows
  BY DEF InCellPlaces
<1>3. IsFiniteSet(InCellPlaces(rows, key))
  BY <1>2, FS_Subset
<1> QED
  BY <1>1, <1>3 DEF Evenly, InCellPlaces

LEMMA CellMediansAgain ==
    ASSUME NEW rows, IsFiniteSet(DOMAIN rows), NEW keys, NEW key
    PROVE  /\ median(Column(InCell(Again(rows, keys), key), deposit)) = median(Column(InCell(rows, key), deposit))
           /\ median(Column(InCell(Again(rows, keys), key), rent)) = median(Column(InCell(rows, key), rent))
           /\ median(Column(InCell(Again(rows, keys), key), amount)) = median(Column(InCell(rows, key), amount))
<1> DEFINE c == IF key \in keys THEN 2 ELSE 1
<1>1. c \in {1, 2} /\ Evenly(InCell(rows, key), keys, c)
  BY InCellEvenly
<1> HIDE DEF c
<1> QED
  BY <1>1, MediansAgain, InCellAgain

\* A complex has one vote in the ratios, however often its rows come.
LEMMA RatiosAgain ==
    ASSUME NEW left, IsFiniteSet(DOMAIN left), NEW right, IsFiniteSet(DOMAIN right), NEW keys
    PROVE  /\ paired_jeonse_ratio_pct(Again(left, keys), Again(right, keys)) = paired_jeonse_ratio_pct(left, right)
           /\ paired_conversion_rate_pct(Again(left, keys), Again(right, keys)) = paired_conversion_rate_pct(left, right)
<1>1. Cells(Again(left, keys)) = Cells(left) /\ Cells(Again(right, keys)) = Cells(right)
  BY CellsAgain
<1>2. ASSUME NEW key
      PROVE  /\ JeonseOverTrade(InCell(Again(left, keys), key), InCell(Again(right, keys), key))
                  = JeonseOverTrade(InCell(left, key), InCell(right, key))
             /\ RentOverDeposits(InCell(Again(left, keys), key), InCell(Again(right, keys), key))
                  = RentOverDeposits(InCell(left, key), InCell(right, key))
  BY CellMediansAgain DEF JeonseOverTrade, RentOverDeposits
<1> DEFINE common == Cells(left) \intersect Cells(right)
<1>3. [key \in common |-> JeonseOverTrade(InCell(Again(left, keys), key), InCell(Again(right, keys), key))]
        = [key \in common |-> JeonseOverTrade(InCell(left, key), InCell(right, key))]
  BY <1>2
<1>4. [key \in common |-> RentOverDeposits(InCell(Again(left, keys), key), InCell(Again(right, keys), key))]
        = [key \in common |-> RentOverDeposits(InCell(left, key), InCell(right, key))]
  BY <1>2
<1> QED
  BY <1>1, <1>3, <1>4 DEF paired_jeonse_ratio_pct, paired_conversion_rate_pct, paired

-----------------------------------------------------------------------------
(* Rows that count, and what is made of them.                              *)

Deals(rows) ==
    {j \in DOMAIN rows : /\ Blank \notin {rows[j].deposit, rows[j].area, rows[j].date}
                         /\ rows[j].area <= MaxArea}
Sales(rows) ==
    {j \in DOMAIN rows : /\ ~rows[j].cancelled
                         /\ Blank \notin {rows[j].amount, rows[j].area, rows[j].date}
                         /\ rows[j].area <= MaxArea}

AreRows(rows) == IsFiniteSet(DOMAIN rows) /\ \A p \in DOMAIN rows : IsRow(rows[p])

LEMMA UncountedRents ==
    ASSUME NEW rows, AreRows(rows)
    PROVE  normalize_deals(CountedRents(rows)) = normalize_deals(rows)
<1> DEFINE counted == CountedRents(rows)
<1>1. \A p \in DOMAIN rows : p \in DOMAIN counted <=>
        Blank \notin {rows[p].deposit, rows[p].date} /\ rows[p].area \in 0 .. MaxArea
  BY DEF CountedRents, Restricted
<1>2. DOMAIN counted \subseteq DOMAIN rows /\ \A p \in DOMAIN counted : counted[p] = rows[p]
  BY DEF CountedRents, Restricted
<1> HIDE DEF counted
<1>3. \A p \in DOMAIN rows :
        rows[p].area # Blank /\ rows[p].area <= MaxArea <=> rows[p].area \in 0 .. MaxArea
  BY SettingsAssumption DEF AreRows, IsRow
<1>4. Deals(counted) = Deals(rows)
  BY <1>1, <1>2, <1>3 DEF Deals
<1>5. Deals(rows) \subseteq DOMAIN counted
  BY <1>4 DEF Deals
<1>6. normalize_deals(counted) = [i \in Deals(counted) |-> [counted[i] EXCEPT !.rent = IF @ = Blank THEN 0 ELSE @]]
  BY DEF normalize_deals, Deals
<1>7. normalize_deals(rows) = [i \in Deals(rows) |-> [rows[i] EXCEPT !.rent = IF @ = Blank THEN 0 ELSE @]]
  BY DEF normalize_deals, Deals
<1>8. normalize_deals(counted) = normalize_deals(rows)
  BY <1>2, <1>4, <1>5, <1>6, <1>7
<1> QED
  BY <1>8 DEF counted

LEMMA UncountedTrades ==
    ASSUME NEW rows, AreRows(rows)
    PROVE  normalize_trades(CountedTrades(rows)) = normalize_trades(rows)
<1> DEFINE counted == CountedTrades(rows)
<1>1. \A p \in DOMAIN rows : p \in DOMAIN counted <=>
        ~rows[p].cancelled /\ Blank \notin {rows[p].amount, rows[p].date} /\ rows[p].area \in 0 .. MaxArea
  BY DEF CountedTrades, Restricted
<1>2. DOMAIN counted \subseteq DOMAIN rows /\ \A p \in DOMAIN counted : counted[p] = rows[p]
  BY DEF CountedTrades, Restricted
<1> HIDE DEF counted
<1>3. \A p \in DOMAIN rows :
        rows[p].area # Blank /\ rows[p].area <= MaxArea <=> rows[p].area \in 0 .. MaxArea
  BY SettingsAssumption DEF AreRows, IsRow
<1>4. Sales(counted) = Sales(rows)
  BY <1>1, <1>2, <1>3 DEF Sales
<1>5. Sales(rows) \subseteq DOMAIN counted
  BY <1>4 DEF Sales
<1>6. /\ normalize_trades(counted) = [i \in Sales(counted) |-> counted[i]]
      /\ normalize_trades(rows) = [i \in Sales(rows) |-> rows[i]]
  BY DEF normalize_trades, Sales, Restricted
<1>7. normalize_trades(counted) = normalize_trades(rows)
  BY <1>2, <1>4, <1>5, <1>6
<1> QED
  BY <1>7 DEF counted

LEMMA DealsAgain ==
    ASSUME NEW rows, AreRows(rows), NEW keys
    PROVE  normalize_deals(Again(rows, keys)) = Again(normalize_deals(rows), keys)
<1> DEFINE deals == normalize_deals(rows)
           Read(row) == [row EXCEPT !.rent = IF @ = Blank THEN 0 ELSE @]
<1>1. DOMAIN deals = Deals(rows) /\ \A p \in Deals(rows) : deals[p] = Read(rows[p])
  BY DEF normalize_deals, Deals
<1>2. \A p \in Deals(rows) : cell_key(Read(rows[p])) = cell_key(rows[p])
  BY DEF Deals, AreRows, IsRow, cell_key
<1> HIDE DEF deals
<1>3. /\ DOMAIN Again(rows, keys) = AgainDomain(rows, keys)
      /\ \A q \in AgainDomain(rows, keys) : q[1] \in DOMAIN rows /\ Again(rows, keys)[q] = rows[q[1]]
  BY AgainFacts
<1>4. Deals(Again(rows, keys)) = {q \in AgainDomain(rows, keys) : q[1] \in Deals(rows)}
  BY <1>3 DEF Deals
<1>5. normalize_deals(Again(rows, keys)) = [q \in Deals(Again(rows, keys)) |-> Read(Again(rows, keys)[q])]
  BY DEF normalize_deals, Deals
<1>6. Twice(deals, keys) = {p \in Twice(rows, keys) : p \in Deals(rows)}
  BY <1>1, <1>2 DEF Twice, Deals
<1>7. AgainDomain(deals, keys) = Deals(Again(rows, keys))
  <2>1. Deals(rows) \subseteq DOMAIN rows
    BY DEF Deals
  <2> QED
    BY <1>1, <1>4, <1>6, <2>1 DEF AgainDomain
<1>8. Again(deals, keys) = [q \in AgainDomain(deals, keys) |-> deals[q[1]]]
  BY AgainFacts
<1>9. \A q \in Deals(Again(rows, keys)) : deals[q[1]] = Read(Again(rows, keys)[q])
  BY <1>1, <1>3, <1>4
<1> HIDE DEF Read
<1>10. normalize_deals(Again(rows, keys)) = Again(deals, keys)
  BY <1>5, <1>7, <1>8, <1>9
<1> QED
  BY <1>10 DEF deals

LEMMA TradesAgain ==
    ASSUME NEW rows, NEW keys
    PROVE  normalize_trades(Again(rows, keys)) = Again(normalize_trades(rows), keys)
<1>1. /\ DOMAIN Again(rows, keys) = AgainDomain(rows, keys)
      /\ \A q \in AgainDomain(rows, keys) : q[1] \in DOMAIN rows /\ Again(rows, keys)[q] = rows[q[1]]
  BY AgainFacts
<1>2. Sales(Again(rows, keys)) = {q \in DOMAIN Again(rows, keys) : q[1] \in Sales(rows)}
  BY <1>1 DEF Sales
<1>3. Sales(rows) \in SUBSET DOMAIN rows
  BY DEF Sales
<1>4. Restricted(Again(rows, keys), Sales(Again(rows, keys))) = Again(Restricted(rows, Sales(rows)), keys)
  BY <1>2, <1>3, AgainRestricted
<1> QED
  BY <1>4 DEF normalize_trades, Sales

Jeonse(deals) == Restricted(deals, {i \in DOMAIN deals : is_jeonse(deals[i])})
Monthly(deals) == Restricted(deals, {i \in DOMAIN deals : ~is_jeonse(deals[i])})

LEMMA KindsAgain ==
    ASSUME NEW deals, NEW keys
    PROVE  /\ Jeonse(Again(deals, keys)) = Again(Jeonse(deals), keys)
           /\ Monthly(Again(deals, keys)) = Again(Monthly(deals), keys)
<1> DEFINE whole == {i \in DOMAIN deals : is_jeonse(deals[i])}
           monthly == {i \in DOMAIN deals : ~is_jeonse(deals[i])}
<1>1. /\ DOMAIN Again(deals, keys) = AgainDomain(deals, keys)
      /\ \A q \in AgainDomain(deals, keys) : q[1] \in DOMAIN deals /\ Again(deals, keys)[q] = deals[q[1]]
  BY AgainFacts
<1>2. /\ {q \in DOMAIN Again(deals, keys) : is_jeonse(Again(deals, keys)[q])}
           = {q \in DOMAIN Again(deals, keys) : q[1] \in whole}
      /\ {q \in DOMAIN Again(deals, keys) : ~is_jeonse(Again(deals, keys)[q])}
           = {q \in DOMAIN Again(deals, keys) : q[1] \in monthly}
  BY <1>1
<1>3. whole \in SUBSET DOMAIN deals /\ monthly \in SUBSET DOMAIN deals
  OBVIOUS
<1> HIDE DEF whole, monthly
<1>4. /\ Restricted(Again(deals, keys), {q \in DOMAIN Again(deals, keys) : q[1] \in whole})
           = Again(Restricted(deals, whole), keys)
      /\ Restricted(Again(deals, keys), {q \in DOMAIN Again(deals, keys) : q[1] \in monthly})
           = Again(Restricted(deals, monthly), keys)
  BY <1>3, AgainRestricted
<1> QED
  BY <1>2, <1>4 DEF Jeonse, Monthly, whole, monthly

\* derive, once the rows are sorted
Made(jeonse, monthly, trades) ==
    LET conversion == paired_conversion_rate_pct(jeonse, monthly)
        ratio == paired_jeonse_ratio_pct(jeonse, trades)
    IN  [error |-> "none",
         jeonseMedian |-> median(Column(jeonse, deposit)),
         monthlyDeposit |-> median(Column(monthly, deposit)),
         monthlyRent |-> median(Column(monthly, rent)),
         conversionRate |-> IF conversion.cells >= MinSample THEN conversion.value ELSE NoValue,
         jeonseRatio |-> IF ratio.cells >= MinSample THEN ratio.value ELSE NoValue,
         grade |-> IF \/ exceeds(Column(jeonse, deposit), "jeonseDeposit")
                      \/ exceeds(Column(monthly, deposit), "monthlyDeposit")
                      \/ exceeds(Column(monthly, rent), "monthlyRent")
                      \/ exceeds(Column(trades, amount), "tradeAmount")
                   THEN "unverified" ELSE "verified"]

Enough(jeonse, monthly) ==
    ~(Cardinality(DOMAIN jeonse) < MinSample \/ Cardinality(DOMAIN monthly) < MinSample)

LEMMA DeriveMakes ==
    ASSUME NEW rents, NEW trades
    PROVE  LET deals == normalize_deals(rents) IN
           derive(rents, trades) =
             IF Enough(Jeonse(deals), Monthly(deals))
             THEN Made(Jeonse(deals), Monthly(deals), normalize_trades(trades))
             ELSE Failed("sample_shortage")
BY DEF derive, Enough, Made, Jeonse, Monthly

LEMMA EnoughAgain ==
    ASSUME NEW jeonse, IsFiniteSet(DOMAIN jeonse), NEW monthly, IsFiniteSet(DOMAIN monthly), NEW keys,
           Enough(jeonse, monthly)
    PROVE  Enough(Again(jeonse, keys), Again(monthly, keys))
<1>1. ASSUME NEW rows, IsFiniteSet(DOMAIN rows)
      PROVE  /\ Cardinality(DOMAIN rows) \in Nat /\ Cardinality(DOMAIN Again(rows, keys)) \in Nat
             /\ Cardinality(DOMAIN rows) <= Cardinality(DOMAIN Again(rows, keys))
  <2> DEFINE once == (DOMAIN rows) \X {1}
             twice == Twice(rows, keys) \X {2}
  <2>1. IsFiniteSet({1}) /\ IsFiniteSet({2}) /\ Cardinality({1}) = 1
    BY FS_Singleton
  <2>2. IsFiniteSet(Twice(rows, keys))
    BY <1>1, FS_Subset DEF Twice
  <2>3. IsFiniteSet(once) /\ Cardinality(once) = Cardinality(DOMAIN rows) * 1 /\ IsFiniteSet(twice)
    BY <1>1, <2>1, <2>2, FS_Product
  <2>4. DOMAIN Again(rows, keys) = once \union twice
    BY AgainFacts DEF AgainDomain
  <2> HIDE DEF once, twice
  <2>5. IsFiniteSet(once \union twice)
    BY <2>3, FS_Union
  <2>6. Cardinality(once) <= Cardinality(once \union twice) /\ Cardinality(once \union twice) \in Nat
    BY <2>5, FS_Subset, FS_CardinalityType
  <2>7. Cardinality(DOMAIN rows) \in Nat
    BY <1>1, FS_CardinalityType
  <2> QED
    BY <2>3, <2>4, <2>6, <2>7
<1>2. /\ Cardinality(DOMAIN jeonse) \in Nat /\ Cardinality(DOMAIN Again(jeonse, keys)) \in Nat
      /\ Cardinality(DOMAIN jeonse) <= Cardinality(DOMAIN Again(jeonse, keys))
  BY <1>1
<1>3. /\ Cardinality(DOMAIN monthly) \in Nat /\ Cardinality(DOMAIN Again(monthly, keys)) \in Nat
      /\ Cardinality(DOMAIN monthly) <= Cardinality(DOMAIN Again(monthly, keys))
  BY <1>1
<1> QED
  BY <1>2, <1>3, SettingsAssumption DEF Enough

\* What finitely many rows make.
LEMMA KindsAreFinite ==
    ASSUME NEW rents, AreRows(rents), NEW trades, AreRows(trades)
    PROVE  /\ IsFiniteSet(DOMAIN Jeonse(normalize_deals(rents)))
           /\ IsFiniteSet(DOMAIN Monthly(normalize_deals(rents)))
           /\ IsFiniteSet(DOMAIN normalize_trades(trades))
<1>1. /\ DOMAIN Jeonse(normalize_deals(rents)) \in SUBSET DOMAIN rents
      /\ DOMAIN Monthly(normalize_deals(rents)) \in SUBSET DOMAIN rents
      /\ DOMAIN normalize_trades(trades) \in SUBSET DOMAIN trades
  BY DEF Jeonse, Monthly, normalize_deals, normalize_trades, Restricted
<1> QED
  BY <1>1, FS_Subset DEF AreRows

LEMMA RatesAgain ==
    ASSUME NEW rents, AreRows(rents), NEW trades, AreRows(trades), NEW keys,
           derive(rents, trades).error = "none"
    PROVE  LET louder == derive(Again(rents, keys), Again(trades, keys)) IN
           /\ louder.conversionRate = derive(rents, trades).conversionRate
           /\ louder.jeonseRatio = derive(rents, trades).jeonseRatio
<1> DEFINE jeonse == Jeonse(normalize_deals(rents))
           monthly == Monthly(normalize_deals(rents))
           sales == normalize_trades(trades)
<1>1. IsFiniteSet(DOMAIN jeonse) /\ IsFiniteSet(DOMAIN monthly) /\ IsFiniteSet(DOMAIN sales)
  BY KindsAreFinite
<1>2. derive(rents, trades) = IF Enough(jeonse, monthly) THEN Made(jeonse, monthly, sales)
                              ELSE Failed("sample_shortage")
  BY DeriveMakes
<1>3. /\ Jeonse(normalize_deals(Again(rents, keys))) = Again(jeonse, keys)
      /\ Monthly(normalize_deals(Again(rents, keys))) = Again(monthly, keys)
      /\ normalize_trades(Again(trades, keys)) = Again(sales, keys)
  BY DealsAgain, KindsAgain, TradesAgain
<1>4. derive(Again(rents, keys), Again(trades, keys)) =
        IF Enough(Again(jeonse, keys), Again(monthly, keys))
        THEN Made(Again(jeonse, keys), Again(monthly, keys), Again(sales, keys))
        ELSE Failed("sample_shortage")
  BY <1>3, DeriveMakes
<1> HIDE DEF jeonse, monthly, sales
<1>5. Enough(jeonse, monthly)
  BY <1>2 DEF Failed
<1>6. Enough(Again(jeonse, keys), Again(monthly, keys))
  BY <1>1, <1>5, EnoughAgain
<1>7. /\ paired_jeonse_ratio_pct(Again(jeonse, keys), Again(sales, keys)) = paired_jeonse_ratio_pct(jeonse, sales)
      /\ paired_conversion_rate_pct(Again(jeonse, keys), Again(monthly, keys))
           = paired_conversion_rate_pct(jeonse, monthly)
  BY <1>1, RatiosAgain
<1>8. /\ Made(Again(jeonse, keys), Again(monthly, keys), Again(sales, keys)).conversionRate
           = Made(jeonse, monthly, sales).conversionRate
      /\ Made(Again(jeonse, keys), Again(monthly, keys), Again(sales, keys)).jeonseRatio
           = Made(jeonse, monthly, sales).jeonseRatio
  BY <1>7 DEF Made
<1> QED
  BY <1>2, <1>4, <1>5, <1>6, <1>8

LEMMA AllAgain ==
    ASSUME NEW rents, AreRows(rents), NEW trades, AreRows(trades), NEW keys,
           Cells(rents) \subseteq keys, Cells(trades) \subseteq keys,
           derive(rents, trades).error = "none"
    PROVE  derive(Again(rents, keys), Again(trades, keys)) = derive(rents, trades)
<1> DEFINE jeonse == Jeonse(normalize_deals(rents))
           monthly == Monthly(normalize_deals(rents))
           sales == normalize_trades(trades)
<1>1. IsFiniteSet(DOMAIN jeonse) /\ IsFiniteSet(DOMAIN monthly) /\ IsFiniteSet(DOMAIN sales)
  BY KindsAreFinite
<1>2. derive(rents, trades) = IF Enough(jeonse, monthly) THEN Made(jeonse, monthly, sales)
                              ELSE Failed("sample_shortage")
  BY DeriveMakes
<1>3. /\ Jeonse(normalize_deals(Again(rents, keys))) = Again(jeonse, keys)
      /\ Monthly(normalize_deals(Again(rents, keys))) = Again(monthly, keys)
      /\ normalize_trades(Again(trades, keys)) = Again(sales, keys)
  BY DealsAgain, KindsAgain, TradesAgain
<1>4. derive(Again(rents, keys), Again(trades, keys)) =
        IF Enough(Again(jeonse, keys), Again(monthly, keys))
        THEN Made(Again(jeonse, keys), Again(monthly, keys), Again(sales, keys))
        ELSE Failed("sample_shortage")
  BY <1>3, DeriveMakes
<1>5. Evenly(jeonse, keys, 2) /\ Evenly(monthly, keys, 2) /\ Evenly(sales, keys, 2)
  <2>1. ASSUME NEW p \in DOMAIN normalize_deals(rents)
        PROVE  cell_key(normalize_deals(rents)[p]) \in keys
    <3>1. p \in DOMAIN rents /\ normalize_deals(rents)[p] = [rents[p] EXCEPT !.rent = IF @ = Blank THEN 0 ELSE @]
      BY <2>1 DEF normalize_deals
    <3>2. cell_key(normalize_deals(rents)[p]) = cell_key(rents[p])
      BY <3>1 DEF cell_key, AreRows, IsRow
    <3> QED
      BY <3>1, <3>2 DEF Cells
  <2>2. ASSUME NEW p \in DOMAIN sales PROVE cell_key(sales[p]) \in keys
    BY <2>2 DEF normalize_trades, Restricted, Cells
  <2>3. /\ \A p \in DOMAIN jeonse : cell_key(jeonse[p]) \in keys
        /\ \A p \in DOMAIN monthly : cell_key(monthly[p]) \in keys
    BY <2>1 DEF Jeonse, Monthly, Restricted
  <2> QED
    BY <1>1, <2>2, <2>3 DEF Evenly
<1> HIDE DEF jeonse, monthly, sales
<1>6. Enough(jeonse, monthly)
  BY <1>2 DEF Failed
<1>7. Enough(Again(jeonse, keys), Again(monthly, keys))
  BY <1>1, <1>6, EnoughAgain
<1>8. /\ paired_jeonse_ratio_pct(Again(jeonse, keys), Again(sales, keys)) = paired_jeonse_ratio_pct(jeonse, sales)
      /\ paired_conversion_rate_pct(Again(jeonse, keys), Again(monthly, keys))
           = paired_conversion_rate_pct(jeonse, monthly)
  BY <1>1, RatiosAgain
<1>9. /\ median(Column(Again(jeonse, keys), deposit)) = median(Column(jeonse, deposit))
      /\ median(Column(Again(monthly, keys), deposit)) = median(Column(monthly, deposit))
      /\ median(Column(Again(monthly, keys), rent)) = median(Column(monthly, rent))
  BY <1>5, MediansAgain
<1>10. /\ Copied(Column(Again(jeonse, keys), deposit), Column(jeonse, deposit), 2)
       /\ Copied(Column(Again(monthly, keys), deposit), Column(monthly, deposit), 2)
       /\ Copied(Column(Again(monthly, keys), rent), Column(monthly, rent), 2)
       /\ Copied(Column(Again(sales, keys), amount), Column(sales, amount), 2)
  BY <1>5, ColumnsAgain
<1>11. /\ exceeds(Column(Again(jeonse, keys), deposit), "jeonseDeposit")
            <=> exceeds(Column(jeonse, deposit), "jeonseDeposit")
       /\ exceeds(Column(Again(monthly, keys), deposit), "monthlyDeposit")
            <=> exceeds(Column(monthly, deposit), "monthlyDeposit")
       /\ exceeds(Column(Again(monthly, keys), rent), "monthlyRent")
            <=> exceeds(Column(monthly, rent), "monthlyRent")
       /\ exceeds(Column(Again(sales, keys), amount), "tradeAmount")
            <=> exceeds(Column(sales, amount), "tradeAmount")
  BY <1>10, ExceedsAgain
<1>12. Made(Again(jeonse, keys), Again(monthly, keys), Again(sales, keys)) = Made(jeonse, monthly, sales)
  BY <1>8, <1>9, <1>11 DEF Made
<1> QED
  BY <1>2, <1>4, <1>6, <1>7, <1>12

-----------------------------------------------------------------------------
(* The values of a region.                                                 *)

LEMMA EverythingIsRows ==
    ASSUME market \in Markets, NEW s \in Services, NEW i \in DOMAIN Regions
    PROVE  AreRows(Everything(s, i))
<1> DEFINE Places(n) == {n} \X (DOMAIN RowsOf(s, i, n))
           all == UNION {Places(n) : n \in DOMAIN Window}
<1>1. DOMAIN Everything(s, i) = all /\ \A p \in all : Everything(s, i)[p] = RowsOf(s, i, p[1])[p[2]]
  BY DEF Everything
<1>2. ASSUME NEW n \in DOMAIN Window
      PROVE  IsFiniteSet(Places(n)) /\ \A k \in DOMAIN RowsOf(s, i, n) : IsRow(RowsOf(s, i, n)[k])
  <2>1. /\ Len(RowsOf(s, i, n)) \in Nat /\ DOMAIN RowsOf(s, i, n) = 1 .. Len(RowsOf(s, i, n))
        /\ \A k \in DOMAIN RowsOf(s, i, n) : IsRow(RowsOf(s, i, n)[k])
    BY HeldIsSequence, SourceAssumption DEF Held, RowsOf
  <2>2. IsFiniteSet(1 .. Len(RowsOf(s, i, n)))
    <3>1. 1 \in Int /\ Len(RowsOf(s, i, n)) \in Int
      BY <2>1
    <3> QED
      BY <3>1, FS_Interval
  <2>3. IsFiniteSet({n})
    BY FS_Singleton
  <2>4. IsFiniteSet({n} \X (1 .. Len(RowsOf(s, i, n))))
    BY <2>2, <2>3, FS_Product
  <2> QED
    BY <2>1, <2>4
<1> DEFINE f == [n \in DOMAIN Window |-> Places(n)]
<1>3. f \in Surjection(DOMAIN Window, {Places(n) : n \in DOMAIN Window})
  BY DEF Surjection
<1>4. IsFiniteSet(DOMAIN Window)
  BY WindowFacts, FS_Interval
<1>5. IsFiniteSet({Places(n) : n \in DOMAIN Window})
  <2> HIDE DEF f, Places
  <2> QED
    BY <1>3, <1>4, FS_Surjection
<1>6. IsFiniteSet(all)
  <2>1. \A T \in {Places(n) : n \in DOMAIN Window} : IsFiniteSet(T)
    BY <1>2
  <2> HIDE DEF Places
  <2> QED
    BY <1>5, <2>1, FS_UNION
<1>7. \A p \in all : p[1] \in DOMAIN Window /\ p[2] \in DOMAIN RowsOf(s, i, p[1])
  OBVIOUS
<1>8. \A p \in all : IsRow(Everything(s, i)[p])
  <2> HIDE DEF all, Places
  <2> QED
    BY <1>1, <1>2, <1>7
<1> HIDE DEF all
<1> QED
  BY <1>1, <1>6, <1>8 DEF AreRows

(***************************************************************************)
(* The values of a region are those of its market, for any rows: what      *)
(* normalize_deals and normalize_trades drop has no part in them, rows     *)
(* that all come twice change neither medians nor grade, and no complex    *)
(* gains a second vote in the ratios by having more deals.                 *)
(***************************************************************************)
THEOREM ValuesAreAlwaysOfTheMarket == CollectionSpec => []ValuesAreOfTheMarket
<1>1. ASSUME CollectionInv PROVE ValuesAreOfTheMarket
  <2> SUFFICES ASSUME NEW i \in DOMAIN Regions, Complete(i)
      PROVE  LET rents == Everything("rent", i)
                 trades == Everything("trade", i)
                 countedRents == CountedRents(rents)
                 countedTrades == CountedTrades(trades)
                 keys == Cells(countedRents) \union Cells(countedTrades)
             IN  /\ outcome[i] = derive(countedRents, countedTrades)
                 /\ outcome[i] = derive(Again(countedRents, keys), Again(countedTrades, keys))
                 /\ \A key \in keys :
                     LET louder == derive(Again(countedRents, {key}), Again(countedTrades, {key})) IN
                     /\ louder.conversionRate = outcome[i].conversionRate
                     /\ louder.jeonseRatio = outcome[i].jeonseRatio
    BY DEF ValuesAreOfTheMarket
  <2> DEFINE rents == Everything("rent", i)
             trades == Everything("trade", i)
             countedRents == CountedRents(rents)
             countedTrades == CountedTrades(trades)
             keys == Cells(countedRents) \union Cells(countedTrades)
  <2>1. outcome[i] = derive(rents, trades) /\ outcome[i].error = "none"
    BY <1>1, InvMeansNothingIsLost DEF NothingIsLost, Complete
  <2>2. AreRows(rents) /\ AreRows(trades)
    BY <1>1, EverythingIsRows DEF CollectionInv, CollectionTypes, Services
  <2> HIDE DEF rents, trades
  <2>3. AreRows(countedRents) /\ AreRows(countedTrades)
    <3>1. /\ DOMAIN countedRents \in SUBSET DOMAIN rents
          /\ \A p \in DOMAIN countedRents : countedRents[p] = rents[p]
          /\ DOMAIN countedTrades \in SUBSET DOMAIN trades
          /\ \A p \in DOMAIN countedTrades : countedTrades[p] = trades[p]
      BY DEF CountedRents, CountedTrades, Restricted
    <3>2. IsFiniteSet(DOMAIN countedRents) /\ IsFiniteSet(DOMAIN countedTrades)
      BY <2>2, <3>1, FS_Subset DEF AreRows
    <3> HIDE DEF countedRents, countedTrades
    <3> QED
      BY <2>2, <3>1, <3>2 DEF AreRows
  <2>4. /\ normalize_deals(countedRents) = normalize_deals(rents)
        /\ normalize_trades(countedTrades) = normalize_trades(trades)
    BY <2>2, UncountedRents, UncountedTrades
  <2> HIDE DEF countedRents, countedTrades
  <2>5. outcome[i] = derive(countedRents, countedTrades)
    BY <2>1, <2>4, DeriveMakes
  <2>6. outcome[i] = derive(Again(countedRents, keys), Again(countedTrades, keys))
    <3>1. Cells(countedRents) \subseteq keys /\ Cells(countedTrades) \subseteq keys
      OBVIOUS
    <3> HIDE DEF keys
    <3> QED
      BY <2>1, <2>3, <2>5, <3>1, AllAgain
  <2>7. ASSUME NEW key
        PROVE  /\ derive(Again(countedRents, {key}), Again(countedTrades, {key})).conversionRate
                    = outcome[i].conversionRate
               /\ derive(Again(countedRents, {key}), Again(countedTrades, {key})).jeonseRatio
                    = outcome[i].jeonseRatio
    BY <2>1, <2>3, <2>5, RatesAgain
  <2> QED
    BY <2>5, <2>6, <2>7 DEF rents, trades, countedRents, countedTrades
<1>2. CollectionSpec => []CollectionInv
  BY CollectionBegins, CollectionKeeps, PTL DEF CollectionSpec
<1> QED
  BY <1>1, <1>2, PTL
=============================================================================
