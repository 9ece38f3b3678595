---------------------------- MODULE MarketBatch ----------------------------
(***************************************************************************)
(* The market batch: collect_market of ingest/market/pipeline.py as the    *)
(* program ingest/market/__main__.py runs it, and the seeding of regions   *)
(* that this program and every start of the server begin with.  Nothing    *)
(* keeps two of these processes apart; each store call is one step.        *)
(*                                                                         *)
(*   seed      regions of the seed file are upserted one by one            *)
(*   collect   the regions are read; then minutes of collection            *)
(*   upsert, ingest   per region: the new record, then its audit event     *)
(*   flag      an audit event per outlier                                  *)
(*   list, stale, failed   after a failure: the regions are read again,    *)
(*             verified fields are marked stale, the failure is audited    *)
(*   run       the audit event that closes the run                         *)
(*                                                                         *)
(* Audit ids are numbered from a length read some steps before.  A batch   *)
(* process collects, collects again, and ends with a collection it breaks  *)
(* itself.  Numbers stand for values: a field's value is the collection    *)
(* that derived it, 0 being the seed file.                                 *)
(***************************************************************************)
EXTENDS Naturals, FiniteSets

CONSTANTS
    Procs,          \* processes that may be running
    Codes,          \* regions
    NoRegion,       \* no region: the target of an event of the whole run
    Programs,       \* what processes run: "batch" and "server"
    Results,        \* what the collection of one region may yield
    MaxStarts,      \* bound: processes started
    MaxCollections, \* bound: collections begun
    MaxOthers,      \* bound: audit events of the API
    MaxDeaths       \* bound: processes that die or meet a store error

\* the three groups of fields: always derived, derived when enough cells pair,
\* without a counterpart in the market data
Fields == {"rent", "ratio", "fixed"}
Grades == {"verified", "stale", "unverified"}
Severity == [verified |-> 0, stale |-> 1, unverified |-> 2]
SeedFile == 0

\* a failure of any kind, or what was derived and what the outliers made of it
Failure == [derived |-> {}, outliers |-> "none"]
AllResults == {Failure} \cup [derived : {{"rent"}, {"rent", "ratio"}},
                              outliers : {"none", "recorded", "exceeding"}]
IsFailure(res) == res.derived = {}
HasOutlier(res) == res.outliers # "none"
GradeOf(res) == IF res.outliers = "exceeding" THEN "unverified" ELSE "verified"

ASSUME InstanceAssumption ==
    /\ IsFiniteSet(Codes) /\ Codes # {} /\ NoRegion \notin Codes
    /\ Programs \subseteq {"batch", "server"}
    /\ Results \subseteq AllResults
    /\ Failure \in Results
    /\ {MaxStarts, MaxCollections, MaxOthers, MaxDeaths} \subseteq Nat

VARIABLES
    region,     \* region[c]: values and lineage, field by field
    audit,      \* the market's audit events
    others,     \* number of audit events of everybody else
    pc, job,    \* where each process is and what it remembers
    collected, started, deaths,
    disturbed   \* processes that began while another ran

vars == <<region, audit, others, pc, job, collected, started, deaths, disturbed>>

Collections == 0 .. MaxCollections
Lineage == [from : Collections, grade : Grades]
Records == [value : [Fields -> Collections], lineage : [Fields -> Lineage]]

SeedRecord ==
    [value |-> [f \in Fields |-> SeedFile],
     lineage |-> [f \in Fields |->
         [from |-> SeedFile, grade |-> IF f = "fixed" THEN "unverified" ELSE "verified"]]]

\* one event, of collection `of`, with the outcome of that; its id is made of
\* n, kind, target and i
Event(n, kind, target, i, of, outcome) ==
    [n |-> n, kind |-> kind, target |-> target, i |-> i, of |-> of, outcome |-> outcome]
Id(e) == <<e.n, e.kind, e.target, e.i>>

NoJob == [program |-> "server", section |-> 1, k |-> 0, snap |-> [c \in Codes |-> SeedRecord],
          results |-> [c \in Codes |-> Failure],
          todo |-> {}, at |-> NoRegion, base |-> 0, i |-> 0]

Init ==
    /\ region = [c \in Codes |-> SeedRecord]
    /\ audit = {} /\ others = 0
    /\ pc = [p \in Procs |-> "idle"]
    /\ job = [p \in Procs |-> NoJob]
    /\ collected = 0 /\ started = 0 /\ deaths = 0
    /\ disturbed = {}

Length == Cardinality(audit) + others
Goto(p, stage) == pc' = [pc EXCEPT ![p] = stage]
End(p) == Goto(p, "idle") /\ job' = [job EXCEPT ![p] = NoJob]

-----------------------------------------------------------------------------
(***************************************************************************)
(* Seeding, by the server's start or at the head of the batch.             *)
(***************************************************************************)
Begin(p) ==
    /\ pc[p] = "idle"
    /\ started < MaxStarts
    /\ started' = started + 1
    /\ \E program \in Programs :
         job' = [job EXCEPT ![p].program = program, ![p].todo = Codes]
    /\ Goto(p, "seed")
    /\ disturbed' = IF \A q \in Procs : pc[q] = "idle" THEN disturbed ELSE disturbed \cup {p}
    /\ UNCHANGED <<region, audit, others, collected, deaths>>

Seed(p, c) ==
    /\ pc[p] = "seed"
    /\ c \in job[p].todo
    /\ region' = [region EXCEPT ![c] = SeedRecord]
    /\ IF job[p].todo # {c}
       THEN job' = [job EXCEPT ![p].todo = @ \ {c}] /\ UNCHANGED pc
       ELSE IF job[p].program = "server" THEN End(p)
       ELSE job' = [job EXCEPT ![p].todo = {}] /\ Goto(p, "collect")
    /\ UNCHANGED <<audit, others, collected, started, deaths, disturbed>>

(***************************************************************************)
(* A collection: what the regions were when it began and what it yields.   *)
(* One region that fails, and nothing is committed.                        *)
(***************************************************************************)
\* mutant: the regions that succeeded are committed
Fails_All(results) == \A c \in Codes : IsFailure(results[c])

Fails(results) == \E c \in Codes : IsFailure(results[c])

Planned(results) == {c \in Codes : ~IsFailure(results[c])}

Collect(p) ==
    /\ pc[p] = "collect"
    /\ collected < MaxCollections
    /\ collected' = collected + 1
    /\ \E results \in [Codes -> Results] :
         /\ job[p].section = 3 => \A c \in Codes : IsFailure(results[c])
         /\ job' = [job EXCEPT ![p].k = collected', ![p].snap = region, ![p].results = results]
         /\ Goto(p, IF Fails(results) THEN "list" ELSE "commit length")
    /\ UNCHANGED <<region, audit, others, started, deaths, disturbed>>

(***************************************************************************)
(* Reading the length of the audit trail, before the events that will be   *)
(* numbered from it.                                                       *)
(***************************************************************************)
ReadLength(p, from, stage, todo) ==
    /\ pc[p] = from
    /\ job' = [job EXCEPT ![p].base = Length, ![p].todo = todo, ![p].i = 0]
    /\ Goto(p, stage)
    /\ UNCHANGED <<region, audit, others, collected, started, deaths, disturbed>>

Outliers(p) == {c \in Codes : HasOutlier(job[p].results[c])}

BeginCommit(p) == ReadLength(p, "commit length", "upsert", Planned(job[p].results))
BeginFlags(p) ==
    ReadLength(p, "flag length", IF Outliers(p) = {} THEN "run length" ELSE "flag", Outliers(p))
BeginFailed(p) == ReadLength(p, "failed length", "failed", {})
BeginRun(p) == ReadLength(p, "run length", "run", {})

(***************************************************************************)
(* An append.  The numbers of a run's events go on from the length it read *)
(* and an id that is taken is an error, which ends the process.            *)
(***************************************************************************)
\* mutant: INSERT OR IGNORE
AppendEvent_Ignore(e) ==
    audit' = IF \E other \in audit : Id(other) = Id(e) THEN audit ELSE audit \cup {e}

AppendEvent(e) ==
    /\ \A other \in audit : Id(other) # Id(e)
    /\ audit' = audit \cup {e}

Numbered(p, kind, target) ==
    Event(job[p].base + job[p].i + 1, kind, target,
          IF kind = "outlier" THEN job[p].i ELSE 0,
          job[p].k, IF Fails(job[p].results) THEN "failed" ELSE "success")

\* the events a process may append next
Due(p) ==
    CASE pc[p] = "ingest" -> {Numbered(p, "ingest", job[p].at)}
      [] pc[p] = "flag"   -> {Numbered(p, "outlier", c) : c \in job[p].todo}
      [] pc[p] = "failed" -> {Numbered(p, "failed", NoRegion)}
      [] pc[p] = "run"    -> {Numbered(p, "run", NoRegion)}
      [] OTHER            -> {}

(***************************************************************************)
(* The commit: region by region, the record and then its event.  What the  *)
(* run did not derive is written back as the run read it.                  *)
(***************************************************************************)
\* mutant: the run's name goes on every field
Updated_AllLineage(record, res, k) ==
    [value |-> [f \in Fields |-> IF f \in res.derived THEN k ELSE record.value[f]],
     lineage |-> [f \in Fields |-> [from |-> k, grade |-> GradeOf(res)]]]

Updated(record, res, k) ==
    [value |-> [f \in Fields |-> IF f \in res.derived THEN k ELSE record.value[f]],
     lineage |-> [f \in Fields |-> IF f \in res.derived
                                   THEN [from |-> k, grade |-> GradeOf(res)]
                                   ELSE record.lineage[f]]]

Upsert(p, c) ==
    /\ pc[p] = "upsert"
    /\ c \in job[p].todo
    /\ region' = [region EXCEPT ![c] = Updated(job[p].snap[c], job[p].results[c], job[p].k)]
    /\ job' = [job EXCEPT ![p].todo = @ \ {c}, ![p].at = c]
    /\ Goto(p, "ingest")
    /\ UNCHANGED <<audit, others, collected, started, deaths, disturbed>>

AppendIngest(p) ==
    /\ pc[p] = "ingest"
    /\ AppendEvent(Numbered(p, "ingest", job[p].at))
    /\ job' = [job EXCEPT ![p].i = @ + 1]
    /\ Goto(p, IF job[p].todo = {} THEN "flag length" ELSE "upsert")
    /\ UNCHANGED <<region, others, collected, started, deaths, disturbed>>

AppendOutlier(p, c) ==
    /\ pc[p] = "flag"
    /\ c \in job[p].todo
    /\ AppendEvent(Numbered(p, "outlier", c))
    /\ job' = [job EXCEPT ![p].todo = @ \ {c}, ![p].i = @ + 1]
    /\ Goto(p, IF job[p].todo = {c} THEN "run length" ELSE "flag")
    /\ UNCHANGED <<region, others, collected, started, deaths, disturbed>>

(***************************************************************************)
(* After a failure: the regions are read again, and what was verified in   *)
(* that reading becomes stale.                                             *)
(***************************************************************************)
\* mutant: whatever is not verified becomes stale too
Downgraded_Everything(record) ==
    [record EXCEPT !.lineage = [f \in Fields |-> [@[f] EXCEPT !.grade = "stale"]]]

Downgraded(record) ==
    [record EXCEPT !.lineage = [f \in Fields |->
        IF @[f].grade = "verified" THEN [@[f] EXCEPT !.grade = "stale"] ELSE @[f]]]

ListForStale(p) ==
    LET changed == {c \in Codes : Downgraded(region[c]) # region[c]} IN
    /\ pc[p] = "list"
    /\ job' = [job EXCEPT ![p].snap = region, ![p].todo = changed]
    /\ Goto(p, IF changed = {} THEN "failed length" ELSE "stale")
    /\ UNCHANGED <<region, audit, others, collected, started, deaths, disturbed>>

MarkStale(p, c) ==
    /\ pc[p] = "stale"
    /\ c \in job[p].todo
    /\ region' = [region EXCEPT ![c] = Downgraded(job[p].snap[c])]
    /\ job' = [job EXCEPT ![p].todo = @ \ {c}]
    /\ Goto(p, IF job[p].todo = {c} THEN "failed length" ELSE "stale")
    /\ UNCHANGED <<audit, others, collected, started, deaths, disturbed>>

AppendFailed(p) ==
    /\ pc[p] = "failed"
    /\ AppendEvent(Numbered(p, "failed", NoRegion))
    /\ Goto(p, "run length")
    /\ UNCHANGED <<region, others, job, collected, started, deaths, disturbed>>

\* the event that closes the run; then the next section of the program, or its end
AppendRun(p) ==
    /\ pc[p] = "run"
    /\ AppendEvent(Numbered(p, "run", NoRegion))
    /\ IF job[p].section = 3 THEN End(p)
       ELSE job' = [job EXCEPT ![p].section = @ + 1] /\ Goto(p, "collect")
    /\ UNCHANGED <<region, others, collected, started, deaths, disturbed>>

Collide(p) ==
    /\ \E e \in Due(p), other \in audit : Id(other) = Id(e)
    /\ End(p)
    /\ UNCHANGED <<region, audit, others, collected, started, deaths, disturbed>>

\* a store call raises, or the process is killed
Die(p) ==
    /\ pc[p] # "idle"
    /\ deaths < MaxDeaths
    /\ deaths' = deaths + 1
    /\ End(p)
    /\ UNCHANGED <<region, audit, others, collected, started, disturbed>>

\* bound: no collection is left for this process
Stop(p) ==
    /\ pc[p] = "collect"
    /\ collected = MaxCollections
    /\ End(p)
    /\ UNCHANGED <<region, audit, others, collected, started, deaths, disturbed>>

\* the API audits something of its own
OtherEvent ==
    /\ others < MaxOthers
    /\ others' = others + 1
    /\ UNCHANGED <<region, audit, pc, job, collected, started, deaths, disturbed>>

\* nothing runs
Waiting ==
    /\ \A p \in Procs : pc[p] = "idle"
    /\ UNCHANGED vars

Step(p) ==
    \/ Begin(p)
    \/ \E c \in Codes : Seed(p, c)
    \/ Collect(p)
    \/ BeginCommit(p) \/ BeginFlags(p) \/ BeginFailed(p) \/ BeginRun(p)
    \/ \E c \in Codes : Upsert(p, c)
    \/ AppendIngest(p)
    \/ \E c \in Codes : AppendOutlier(p, c)
    \/ ListForStale(p)
    \/ \E c \in Codes : MarkStale(p, c)
    \/ AppendFailed(p)
    \/ AppendRun(p)
    \/ Collide(p)
    \/ Die(p)
    \/ Stop(p)

Next == (\E p \in Procs : Step(p)) \/ OtherEvent \/ Waiting

Spec == Init /\ [][Next]_vars

-----------------------------------------------------------------------------
Stages == {"idle", "seed", "collect", "commit length", "upsert", "ingest", "flag length",
           "flag", "list", "stale", "failed length", "failed", "run length", "run"}

Events == [n : Nat, kind : {"ingest", "outlier", "failed", "run"},
           target : Codes \cup {NoRegion}, i : Nat, of : Collections, outcome : {"success", "failed"}]

Jobs == [program : {"batch", "server"}, section : 1 .. 3, k : Collections,
         snap : [Codes -> Records], results : [Codes -> AllResults],
         todo : SUBSET Codes, at : Codes \cup {NoRegion}, base : Nat, i : Nat]

(***************************************************************************)
(* Types of the tables and of what the processes remember.                 *)
(***************************************************************************)
TypeOK ==
    /\ region \in [Codes -> Records]
    /\ audit \subseteq Events /\ IsFiniteSet(audit)
    /\ pc \in [Procs -> Stages]
    /\ job \in [Procs -> Jobs]
    /\ collected \in Collections
    /\ {others, started, deaths} \subseteq Nat
    /\ disturbed \subseteq Procs

(***************************************************************************)
(* A value never wears another run's lineage: whatever processes overwrite *)
(* and wherever they die, the lineage of a field names the collection its  *)
(* value comes from, and only market data is ever verified.  (upsert in    *)
(* sqlite_store.py, _commit and _mark_stale.)                              *)
(***************************************************************************)
LineageTravels ==
    \A c \in Codes, f \in Fields :
        /\ region[c].lineage[f].from = region[c].value[f]
        /\ f = "fixed" => region[c].value[f] = SeedFile
                          /\ region[c].lineage[f].grade = "unverified"

(***************************************************************************)
(* The event that closes a run is the whole truth about it: a run closed   *)
(* as a success has an ingest event of every region and no failure, one    *)
(* closed as failed has the failure and no ingest event, no run is closed  *)
(* twice; also with runs that take each other's numbers.  (_record_run.)   *)
(***************************************************************************)
EventsOf(k, kind) == {e \in audit : e.of = k /\ e.kind = kind}

ClosedTruly(e) ==
    /\ EventsOf(e.of, "run") = {e}
    /\ IF e.outcome = "success"
       THEN /\ {i.target : i \in EventsOf(e.of, "ingest")} = Codes
            /\ EventsOf(e.of, "failed") = {}
       ELSE /\ EventsOf(e.of, "ingest") = {}
            /\ EventsOf(e.of, "failed") # {}

RunsCloseTruly == \A e \in audit : e.kind = "run" => ClosedTruly(e)

(***************************************************************************)
(* A batch is all or nothing: as long as no process met another or died,   *)
(* what is always derived comes from one and the same collection in every  *)
(* region whenever nothing runs.  (collect_market: committed only when     *)
(* every region succeeded.)                                                *)
(***************************************************************************)
AllOrNothing ==
    disturbed = {} /\ deaths = 0 /\ (\A p \in Procs : pc[p] = "idle") =>
        \A c, d \in Codes : region[c].value["rent"] = region[d].value["rent"]

(***************************************************************************)
(* A failed run changes no value and makes no field look better than it    *)
(* was, as long as no process met another.  (_mark_stale: values stay,     *)
(* grades only fall.)                                                      *)
(***************************************************************************)
OnlyWorse(c) ==
    /\ region'[c].value = region[c].value
    /\ \A f \in Fields :
         Severity[region'[c].lineage[f].grade] >= Severity[region[c].lineage[f].grade]
    /\ \A f \in Fields : region[c].lineage[f].grade = "unverified" =>
         region'[c].lineage[f].grade = "unverified"

FailureOnlyDowngrades ==
    [][disturbed = {} =>
         \A p \in Procs : pc[p] = "stale" /\ job'[p] # job[p] => \A c \in Codes : OnlyWorse(c)]_vars
=============================================================================
