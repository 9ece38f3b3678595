-------------------------- MODULE ExtractionProofs --------------------------
(***************************************************************************)
(* Proofs about Extraction, for any number of policies, batches, attempts, *)
(* spans and any bounds: types, the catalogue the server opens with, the   *)
(* decisions under the batches, the spans of waiting drafts, the account   *)
(* of a batch, and that a batch which meets nobody gets through.           *)
(***************************************************************************)
EXTENDS Extraction, FiniteSetTheorems, TLAPS

\* the batch has written its draft and not yet told the trail of it
Wrote(b) == job[b].stage \in {"span", "mark", "log_number", "log"}

(***************************************************************************)
(* Where a process is determines what its place in the lists may be, and a *)
(* draft that is being given spans has one giver: the batch that inserted  *)
(* it or the start-up.                                                     *)
(***************************************************************************)
StartupPlace ==
    /\ at >= 1
    /\ phase = "policy_audit" => at <= Len(SeedOrder)
    /\ phase \in {"insert", "draft_spans", "draft_audit"} => at <= Len(DemoQueue)

BatchPlace(b) ==
    /\ job[b].stage = "insert" =>
        job[b].draft \in Drafts /\ Target[job[b].draft] = target(b)
    /\ Wrote(b) => job[b].draft \in fresh[b] /\ Target[job[b].draft] = target(b)

OneGiver ==
    /\ \A d \in Drafts : d \notin present => spans[d] = 0
    /\ \A b, c \in Batches : b # c => fresh[b] \cap fresh[c] = {}
    /\ \A b \in Batches : job[b].stage = "span" => spans[job[b].draft] < NeededSpans
    /\ phase = "draft_spans" =>
        /\ demo.id \in present /\ spans[demo.id] < NeededSpans
        /\ \A b \in Batches : demo.id \notin fresh[b]

TypeInv ==
    /\ TypeOK
    /\ IsFiniteSet(trail)
    /\ StartupPlace
    /\ \A b \in Batches : BatchPlace(b)
    /\ OneGiver

(***************************************************************************)
(* The versions: a seeded row is open until the one approval that closes   *)
(* it at instant 1 and is in force from then on; and the start-up has      *)
(* seeded every policy it has gone past.                                   *)
(***************************************************************************)
Made == rows \cap Drafts

Windows ==
    /\ rows \subseteq Seeded \cup Drafts
    /\ \A v \in VersionId : v \notin rows => from[v] = NULL /\ until[v] = NULL
    /\ \A p \in Seeded : from[p] = NULL
    /\ \A p \in rows \cap Seeded :
        until[p] = NULL \/ (until[p] = 1 /\ \E d \in Made : Target[d] = p)
    /\ \A d \in Made :
        /\ from[d] = 1 /\ until[d] = NULL
        /\ Target[d] \in rows \cap Seeded /\ until[Target[d]] = 1
    /\ \A d, e \in Made : Target[d] = Target[e] => d = e

SeededSoFar ==
    /\ phase \in {"policies", "policy_audit"} =>
        \A i \in DOMAIN SeedOrder : i < at => SeedOrder[i] \in rows
    /\ phase = "policy_audit" => policy \in rows
    /\ phase \in {"drafts", "insert", "draft_spans", "draft_audit", "up"} => Seeded \subseteq rows

CatalogueInv == Windows /\ SeededSoFar

(***************************************************************************)
(* While no store call has failed, a decision under way is the status of   *)
(* its draft and is not on the trail yet.                                  *)
(***************************************************************************)
Unaudited(d) == \A x \in Decisions : audited[d][x] = 0

DecisionInv ==
    faults = 0 =>
        /\ \A d \in Drafts, x \in Decisions :
            <<d, x>> \in deciding => draftStatus[d] = x /\ Unaudited(d)
        /\ \A d \in Drafts, x \in Decisions : audited[d][x] > 0 =>
            /\ draftStatus[d] = x
            /\ audited[d][x] = 1
            /\ x = "approved" => d \in rows
        /\ \A b \in Batches : job[b].stage # "mark"

\* Every draft but a failed one has its spans once nobody is storing them.
GroundInv ==
    faults = 0 /\ crashes = 0 => \A d \in Drafts :
        draftStatus[d] \in {"pending"} \cup Decisions /\ ~Storing(d) => spans[d] = NeededSpans

(***************************************************************************)
(* The account of a batch: how many drafts it has written at each place,   *)
(* and which of them the trail has been told of.                           *)
(***************************************************************************)
told(d) == {e \in trail : e.action = "rule_draft.extract" /\ e.about = d}

\* b has dealt with the first n targets
Through(b, n) ==
    /\ Cardinality(fresh[b]) = n
    /\ \A i \in DOMAIN Targets : i <= n => \E d \in fresh[b] : Target[d] = Targets[i]

Account(b) ==
    /\ job[b].stage \in {"idle", "load", "load_audit"} => fresh[b] = {}
    /\ job[b].stage \in {"source", "call", "number", "insert"} =>
        Through(b, job[b].at - 1) /\ job[b].at <= Limit[b]
    /\ Wrote(b) => Through(b, job[b].at) /\ job[b].at <= Limit[b]
    /\ job[b].stage = "done" => Through(b, Limit[b])
    /\ \A d \in fresh[b] :
        IF Wrote(b) /\ d = job[b].draft THEN told(d) = {}
        ELSE job[b].stage # "aborted" => \E e \in trail : told(d) = {e}

AccountInv ==
    /\ \A b \in Batches : Account(b)
    /\ \A d \in Drafts : (\A b \in Batches : d \notin fresh[b]) => told(d) = {}

(***************************************************************************)
(* Draft numbers: none is beyond the number of drafts, the one a batch has *)
(* taken is at most the next, and it is the next if the batch is alone.    *)
(***************************************************************************)
HowMany == Cardinality(present)

NumbersInv ==
    /\ \A d \in present : d[1] <= HowMany
    /\ phase \in {"drafts", "insert"} => at <= HowMany + 1
    /\ phase \in {"draft_spans", "draft_audit"} => at <= HowMany
    /\ \A b \in Batches : job[b].stage = "insert" =>
        job[b].draft[1] <= HowMany + 1 /\ (b \in alone => job[b].draft[1] = HowMany + 1)

AloneInv ==
    \A b \in alone : Running(b) =>
        /\ ~Starting
        /\ \A c \in Batches : Running(c) => c = b
        /\ ~job[b].taken

(***************************************************************************)
(* The texts: as long as nothing died, they are all there once one is,     *)
(* except while a batch is loading them; and what the trail says of them   *)
(* was said by a batch that is still ahead of any that will say the same.  *)
(***************************************************************************)
Loading(b) == job[b].stage \in {"load", "load_audit"}
Complete == \A i \in DOMAIN Targets : Targets[i] \in loaded
stored == {e \in trail : e.action = "policy_source.ingest"}

Ahead(w, e) ==
    /\ Loading(w)
    /\ \E i \in DOMAIN Targets :
        e.about = Targets[i] /\ e.no = job[w].no + i /\ i < job[w].at

SourcesInv ==
    crashes = 0 =>
        /\ \A e \in stored : Complete \/ \E w \in Batches : Ahead(w, e)
        /\ loaded # {} => Complete \/ \E w \in Batches : Loading(w)
        /\ stored # {} => loaded # {}
        /\ \A b \in Batches : Loading(b) =>
            /\ \A i \in DOMAIN Targets : i < job[b].at => Targets[i] \in loaded
            /\ job[b].stage = "load_audit" => target(b) \in loaded
        /\ \A b \in alone : Loading(b) => \A e \in stored : e.no < job[b].no + job[b].at
        /\ \A b \in alone : Running(b) /\ ~Loading(b) => Complete
        /\ \A b \in alone : job[b].stage # "aborted"

-----------------------------------------------------------------------------
(* What the files and the parameters give. *)

LEMMA Parameters ==
    /\ IsFiniteSet(Drafts)
    /\ \A d \in Drafts : d[1] \in Nat /\ Target[d] = d[2] /\ Target[d] \in Policies
    /\ \A n \in 1..MaxDrafts, p \in Policies :
        <<n, p>> \in Drafts /\ Target[<<n, p>>] = p /\ <<n, p>>[1] = n
    /\ NoVersion \notin Drafts
    /\ FrozenSources \subseteq Policies /\ Seeded \subseteq Policies
<1>1. IsFiniteSet(1..MaxDrafts)
  <2>1. MaxDrafts \in Nat
    BY DocumentsAssumption
  <2> QED
    BY <2>1, FS_Interval
<1>2. IsFiniteSet(Policies) /\ Drafts = (1..MaxDrafts) \X Policies
  BY DocumentsAssumption
<1>3. IsFiniteSet(Drafts)
  BY <1>1, <1>2, FS_Product
<1>4. Target = [d \in Drafts |-> d[2]] /\ FrozenSources \subseteq Seeded
  BY DocumentsAssumption
<1>5. NoVersion \notin Drafts /\ Seeded \subseteq Policies /\ 1..MaxDrafts \subseteq Nat
  BY IdsAssumption DEF VersionId
<1> QED
  BY <1>2, <1>3, <1>4, <1>5

LEMMA Lists ==
    /\ DOMAIN SeedOrder = 1..Len(SeedOrder) /\ Len(SeedOrder) \in Nat
    /\ \A i \in DOMAIN SeedOrder : SeedOrder[i] \in Seeded
    /\ DOMAIN DemoQueue = 1..Len(DemoQueue) /\ Len(DemoQueue) \in Nat
    /\ \A i \in DOMAIN DemoQueue :
        /\ DemoQueue[i].id \in Drafts
        /\ DemoQueue[i].status \in {"pending", "extraction_failed"}
    /\ DOMAIN Targets = 1..Len(Targets) /\ Len(Targets) \in Nat
    /\ \A i \in DOMAIN Targets : Targets[i] \in FrozenSources
<1>1. SeedOrder \in Seq(Seeded)
  BY DocumentsAssumption
<1> DEFINE Frozen == [id : Drafts, status : {"pending", "extraction_failed"}]
<1>2. DemoQueue \in Seq(Frozen)
  BY DocumentsAssumption
<1>3. Targets \in Seq(FrozenSources)
  BY BatchAssumption
<1>4. DOMAIN DemoQueue = 1..Len(DemoQueue) /\ Len(DemoQueue) \in Nat
  <2> HIDE DEF Frozen
  <2> QED
    BY <1>2
<1>5. \A i \in DOMAIN DemoQueue : DemoQueue[i] \in Frozen
  <2> HIDE DEF Frozen
  <2> QED
    BY <1>2
<1>6. \A i \in DOMAIN DemoQueue :
        DemoQueue[i].id \in Drafts /\ DemoQueue[i].status \in {"pending", "extraction_failed"}
  BY <1>5
<1> QED
  BY <1>1, <1>3, <1>4, <1>6

\* The audit trail can be counted.
LEMMA AuditIsCounted == ASSUME TypeInv PROVE AuditLength \in Nat
<1>1. IsFiniteSet(Decisions)
  <2>1. IsFiniteSet({"approved"})
    BY FS_Singleton
  <2>2. Decisions = {"approved"} \cup {"rejected"}
    BY DEF Decisions
  <2> QED
    BY <2>1, <2>2, FS_AddElement
<1>2. IsFiniteSet(1..MaxDecisions)
  <2>1. MaxDecisions \in Int
    BY BatchAssumption
  <2> QED
    BY <2>1, FS_Interval
<1>3. IsFiniteSet((Drafts \X Decisions) \X (1..MaxDecisions))
  <2>1. IsFiniteSet(Drafts \X Decisions)
    BY <1>1, Parameters, FS_Product
  <2> QED
    BY <2>1, <1>2, FS_Product
<1>4. IsFiniteSet(DecisionEvents)
  BY <1>3, FS_Subset DEF DecisionEvents
<1> QED
  BY <1>4, FS_CardinalityType DEF AuditLength, TypeInv

-----------------------------------------------------------------------------
(* Types *)

LEMMA IdleIsTyped == ASSUME NEW b \in Batches PROVE Idle \in JobType
<1>1. 1 \in DOMAIN Targets /\ 1 \in 1..MaxAttempts
  BY BatchAssumption, Lists
<1> QED
  BY <1>1 DEF Idle, JobType, Stages

LEMMA BecomeIs ==
    ASSUME TypeInv, NEW b \in Batches, NEW new \in JobType, Become(b, new)
    PROVE  /\ job' \in [Batches -> JobType] /\ job'[b] = new
           /\ \A c \in Batches : c # b => job'[c] = job[c]
BY DEF TypeInv, TypeOK, Become

(***************************************************************************)
(* A step of one batch that writes no draft and no span.                   *)
(***************************************************************************)
LEMMA BatchMoves ==
    ASSUME TypeInv, NEW b \in Batches, NEW new \in JobType, Become(b, new),
           UNCHANGED <<storeVars, spans, startupVars, fresh, reviewVars>>,
           loaded' \subseteq Policies, alone' \subseteq Batches,
           trail' = trail \/ \E e : /\ trail' = trail \cup {e}
                                    /\ e.no \in Nat /\ e.about \in Policies \cup Drafts,
           {faults', crashes'} \subseteq Nat, faults' + crashes' <= MaxMishaps,
           new.stage = "insert" => new.draft \in Drafts /\ Target[new.draft] = Targets[new.at],
           new.stage \in {"span", "mark", "log_number", "log"} =>
               new.draft \in fresh[b] /\ Target[new.draft] = Targets[new.at],
           new.stage = "span" => spans[new.draft] < NeededSpans
    PROVE  TypeInv'
<1>1. /\ job' \in [Batches -> JobType] /\ job'[b] = new
      /\ \A c \in Batches : c # b => job'[c] = job[c]
  BY BecomeIs
<1>2. StoreTypeOK'
  BY DEF TypeInv, TypeOK, StoreTypeOK, storeVars, versionTable
<1>3. IsFiniteSet(trail') /\ StartupTypeOK'
  BY FS_AddElement DEF TypeInv, TypeOK, StartupTypeOK, startupVars
<1>4. present' = present
  BY DEF present, storeVars
<1>5. TypeOK'
  BY <1>1, <1>2, <1>3, <1>4 DEF TypeInv, TypeOK, reviewVars
<1>6. \A c \in Batches : BatchPlace(c)'
  BY <1>1 DEF TypeInv, BatchPlace, Wrote, target
<1>7. OneGiver'
  BY <1>1, <1>4 DEF TypeInv, OneGiver, startupVars, demo
<1> QED
  BY <1>3, <1>5, <1>6, <1>7 DEF TypeInv, StartupPlace, startupVars

\* What the job of a batch is made of.
LEMMA JobIs ==
    ASSUME TypeInv, NEW b \in Batches
    PROVE  /\ job[b] \in JobType
           /\ target(b) \in FrozenSources /\ target(b) \in Policies
           /\ BatchPlace(b)
<1>1. job[b] \in JobType /\ BatchPlace(b)
  BY DEF TypeInv, TypeOK
<1>2. job[b].at \in DOMAIN Targets
  BY <1>1 DEF JobType
<1> QED
  BY <1>1, <1>2, Lists, Parameters DEF target

LEMMA StartBatchType == ASSUME TypeInv, NEW b \in Batches, StartBatch(b) PROVE TypeInv'
<1> DEFINE new == [Idle EXCEPT !.stage = IF loaded = {} THEN "load" ELSE "source",
                               !.no = IF loaded = {} THEN AuditLength ELSE 0]
<1>1. new \in JobType /\ new.stage \in {"load", "source"}
  BY IdleIsTyped, AuditIsCounted DEF Idle, JobType, Stages
<1>2. Become(b, new)
  BY DEF StartBatch
<1>3. loaded' \subseteq Policies /\ alone' \subseteq Batches /\ trail' = trail
      /\ {faults', crashes'} \subseteq Nat /\ faults' + crashes' <= MaxMishaps
  BY DEF StartBatch, TypeInv, TypeOK, StartupTypeOK, documents, mishaps
<1>4. UNCHANGED <<storeVars, spans, startupVars, fresh, reviewVars>>
  BY DEF StartBatch, documents
<1> HIDE DEF new
<1> QED
  BY <1>1, <1>2, <1>3, <1>4, BatchMoves

LEMMA LoadSourceType == ASSUME TypeInv, NEW b \in Batches, LoadSource(b) PROVE TypeInv'
<1> DEFINE new == [job[b] EXCEPT !.stage = "load_audit"]
<1>1. new \in JobType /\ new.stage = "load_audit"
  BY JobIs DEF JobType, Stages
<1>2. Become(b, new)
  BY DEF LoadSource, Move
<1>3. loaded' \subseteq Policies /\ alone' \subseteq Batches /\ trail' = trail
      /\ {faults', crashes'} \subseteq Nat /\ faults' + crashes' <= MaxMishaps
  BY JobIs DEF LoadSource, TypeInv, TypeOK, StartupTypeOK, OthersUnchanged, mishaps
<1>4. UNCHANGED <<storeVars, spans, startupVars, fresh, reviewVars>>
  BY DEF LoadSource, OthersUnchanged
<1> HIDE DEF new
<1> QED
  BY <1>1, <1>2, <1>3, <1>4, BatchMoves

\* An aborted batch knows nothing any more.
LEMMA AbortType ==
    ASSUME TypeInv, NEW b \in Batches, Abort(b),
           UNCHANGED <<storeVars, documents, startupVars, fresh, alone, reviewVars>>,
           {faults', crashes'} \subseteq Nat, faults' + crashes' <= MaxMishaps
    PROVE  TypeInv'
<1> DEFINE new == [Idle EXCEPT !.stage = "aborted"]
<1>1. new \in JobType /\ new.stage = "aborted"
  BY IdleIsTyped DEF Idle, JobType, Stages
<1>2. Become(b, new)
  BY DEF Abort
<1>3. loaded' \subseteq Policies /\ alone' \subseteq Batches /\ trail' = trail /\ spans' = spans
  BY DEF TypeInv, TypeOK, StartupTypeOK, documents
<1> HIDE DEF new
<1> QED
  BY <1>1, <1>2, <1>3, BatchMoves

LEMMA NothingFails ==
    ASSUME TypeInv, OthersUnchanged
    PROVE  /\ {faults', crashes'} \subseteq Nat /\ faults' + crashes' <= MaxMishaps
           /\ alone' \subseteq Batches
           /\ UNCHANGED <<startupVars, fresh, alone, reviewVars>>
BY DEF OthersUnchanged, TypeInv, TypeOK, mishaps

LEMMA LoadAuditType == ASSUME TypeInv, NEW b \in Batches, LoadAudit(b) PROVE TypeInv'
<1> DEFINE no == job[b].no + job[b].at
           e == event("policy_source.ingest", no, target(b), "stored")
<1>0. OthersUnchanged /\ UNCHANGED <<storeVars, loaded, spans>>
  BY DEF LoadAudit
<1>1. CASE e \in trail
  <2>1. Abort(b) /\ UNCHANGED <<storeVars, documents>>
    BY <1>1 DEF LoadAudit, documents
  <2> QED
    BY <2>1, <1>0, NothingFails, AbortType
<1>2. CASE e \notin trail
  <2> DEFINE new == IF job[b].at < Len(Targets)
                    THEN [job[b] EXCEPT !.stage = "load", !.at = @ + 1]
                    ELSE [Idle EXCEPT !.stage = "source"]
  <2>1. new \in JobType /\ new.stage \in {"load", "source"}
    <3>1. job[b] \in JobType /\ Idle \in JobType
      BY JobIs, IdleIsTyped
    <3>2. job[b].at < Len(Targets) => job[b].at + 1 \in DOMAIN Targets
      BY <3>1, Lists DEF JobType
    <3> QED
      BY <3>1, <3>2 DEF JobType, Stages, Idle
  <2>2. Become(b, new) /\ trail' = trail \cup {e}
    BY <1>2 DEF LoadAudit, append
  <2>3. e.no \in Nat /\ e.about \in Policies \cup Drafts
    <3>1. job[b].no \in Nat /\ job[b].at \in Nat
      BY JobIs, Lists DEF JobType
    <3> QED
      BY <3>1, JobIs DEF event
  <2>4. loaded' \subseteq Policies
    BY <1>0 DEF TypeInv, TypeOK, StartupTypeOK
  <2> HIDE DEF new, e
  <2> QED
    BY <1>0, <2>1, <2>2, <2>3, <2>4, NothingFails, BatchMoves
<1> QED
  BY <1>1, <1>2

\* A step of one batch that only moves it on.
LEMMA OnlyMoves ==
    ASSUME TypeInv, NEW b \in Batches, NEW new \in JobType, Become(b, new),
           OthersUnchanged, UNCHANGED <<storeVars, documents>>,
           new.stage = "insert" => new.draft \in Drafts /\ Target[new.draft] = Targets[new.at],
           new.stage \in {"span", "mark", "log_number", "log"} =>
               new.draft \in fresh[b] /\ Target[new.draft] = Targets[new.at],
           new.stage # "span"
    PROVE  TypeInv'
<1>1. loaded' \subseteq Policies /\ trail' = trail /\ spans' = spans
  BY DEF TypeInv, TypeOK, StartupTypeOK, documents
<1> QED
  BY <1>1, NothingFails, BatchMoves

LEMMA ReadSourceType == ASSUME TypeInv, NEW b \in Batches, ReadSource(b) PROVE TypeInv'
<1> DEFINE new == [job[b] EXCEPT !.stage = "call"]
<1>0. OthersUnchanged /\ UNCHANGED <<storeVars, documents>>
  BY DEF ReadSource
<1>1. new \in JobType /\ new.stage = "call"
  BY JobIs DEF JobType, Stages
<1>2. Become(b, new) \/ Abort(b)
  BY DEF ReadSource, Move
<1> HIDE DEF new
<1> QED
  BY <1>0, <1>1, <1>2, OnlyMoves, AbortType, NothingFails

LEMMA CallModelType == ASSUME TypeInv, NEW b \in Batches, CallModel(b) PROVE TypeInv'
<1>0. OthersUnchanged /\ UNCHANGED <<storeVars, documents>>
  BY DEF CallModel
<1>1. PICK new : /\ Become(b, new)
                 /\ \/ new = [job[b] EXCEPT !.stage = "number", !.verdict = "verified"]
                    \/ new = [job[b] EXCEPT !.stage = "number", !.verdict = "failed"]
                    \/ job[b].attempt # MaxAttempts /\ new = [job[b] EXCEPT !.attempt = @ + 1]
  BY DEF CallModel
<1>2. new \in JobType /\ new.stage \in {"number", "call"}
  <2>1. job[b] \in JobType /\ job[b].stage = "call"
    BY JobIs DEF CallModel
  <2>2. job[b].attempt # MaxAttempts => job[b].attempt + 1 \in 1..MaxAttempts
    <3>1. job[b].attempt \in 1..MaxAttempts /\ MaxAttempts \in Nat
      BY <2>1, BatchAssumption DEF JobType
    <3> QED
      BY <3>1
  <2> QED
    BY <1>1, <2>1, <2>2 DEF JobType, Stages
<1> QED
  BY <1>0, <1>1, <1>2, OnlyMoves

\* The drafts in the store can be counted.
LEMMA DraftsAreCounted ==
    ASSUME TypeInv
    PROVE  present \subseteq Drafts /\ IsFiniteSet(present) /\ HowMany \in Nat
BY Parameters, FS_Subset, FS_CardinalityType DEF present, HowMany

LEMMA NumberDraftType == ASSUME TypeInv, NEW b \in Batches, NumberDraft(b) PROVE TypeInv'
<1> DEFINE d == <<HowMany + 1, target(b)>>
           new == [job[b] EXCEPT !.stage = "insert", !.draft = d]
<1>0. OthersUnchanged /\ UNCHANGED <<storeVars, documents>>
  BY DEF NumberDraft
<1>1. d \in Drafts /\ Target[d] = target(b)
  <2>1. HowMany + 1 <= MaxDrafts /\ HowMany \in Nat /\ MaxDrafts \in Nat
    BY DraftsAreCounted, DocumentsAssumption DEF NumberDraft, HowMany
  <2>2. HowMany + 1 \in 1..MaxDrafts
    BY <2>1
  <2> QED
    BY <2>2, JobIs, Parameters
<1>2. new \in JobType /\ new.stage = "insert" /\ new.draft = d /\ new.at = job[b].at
  BY <1>1, JobIs DEF JobType, Stages
<1>3. Become(b, new)
  BY DEF NumberDraft, HowMany
<1> HIDE DEF new, d
<1> QED
  BY <1>0, <1>1, <1>2, <1>3, OnlyMoves DEF target

LEMMA NumberEventType == ASSUME TypeInv, NEW b \in Batches, NumberEvent(b) PROVE TypeInv'
<1> DEFINE new == [job[b] EXCEPT !.stage = "log", !.no = AuditLength + 1]
<1>0. OthersUnchanged /\ UNCHANGED <<storeVars, documents>>
  BY DEF NumberEvent
<1>1. new \in JobType /\ new.stage = "log" /\ new.draft = job[b].draft /\ new.at = job[b].at
  <2>1. AuditLength + 1 \in Nat
    BY AuditIsCounted
  <2> QED
    BY <2>1, JobIs DEF JobType, Stages
<1>2. Become(b, new) /\ Wrote(b)
  BY DEF NumberEvent, Wrote
<1>3. new.draft \in fresh[b] /\ Target[new.draft] = Targets[new.at]
  BY <1>1, <1>2, JobIs DEF BatchPlace, target
<1> HIDE DEF new
<1> QED
  BY <1>0, <1>1, <1>2, <1>3, OnlyMoves

LEMMA SpanRefusedType == ASSUME TypeInv, NEW b \in Batches, SpanRefused(b) PROVE TypeInv'
<1> DEFINE new == [job[b] EXCEPT !.stage = "mark"]
<1>1. new \in JobType /\ new.stage = "mark" /\ new.draft = job[b].draft /\ new.at = job[b].at
  BY JobIs DEF JobType, Stages
<1>2. Become(b, new) /\ Wrote(b)
  BY DEF SpanRefused, Move, Wrote
<1>3. new.draft \in fresh[b] /\ Target[new.draft] = Targets[new.at]
  BY <1>1, <1>2, JobIs DEF BatchPlace, target
<1>4. loaded' \subseteq Policies /\ alone' \subseteq Batches /\ trail' = trail
      /\ {faults', crashes'} \subseteq Nat /\ faults' + crashes' <= MaxMishaps
  BY BatchAssumption DEF SpanRefused, TypeInv, TypeOK, StartupTypeOK, documents
<1>5. UNCHANGED <<storeVars, spans, startupVars, fresh, reviewVars>>
  BY DEF SpanRefused, documents
<1> HIDE DEF new
<1> QED
  BY <1>1, <1>2, <1>3, <1>4, <1>5, BatchMoves

LEMMA BatchStopsType == ASSUME TypeInv, NEW b \in Batches, BatchStops(b) PROVE TypeInv'
<1>1. {faults', crashes'} \subseteq Nat /\ faults' + crashes' <= MaxMishaps
  BY BatchAssumption DEF BatchStops, TypeInv, TypeOK
<1> QED
  BY <1>1, AbortType DEF BatchStops

\* rule_drafts.add puts one more draft into the store.
LEMMA AddDraft ==
    ASSUME TypeInv, NEW d \in Drafts, CanAddDraft(d),
           NEW status \in {"pending", "extraction_failed"}, add_draft(d, status)
    PROVE  /\ draftStatus' \in [Drafts -> DraftStatus]
           /\ present' = present \cup {d} /\ d \notin present
           /\ draftStatus'[d] = status
           /\ \A e \in Drafts : e # d => draftStatus'[e] = draftStatus[e]
           /\ HowMany' = HowMany + 1
<1>1. draftStatus \in [Drafts -> DraftStatus] /\ status \in DraftStatus /\ status # "absent"
  BY DEF TypeInv, TypeOK, StoreTypeOK, DraftStatus
<1>2. present' = present \cup {d} /\ d \notin present
  BY <1>1 DEF present, add_draft, CanAddDraft
<1>3. HowMany' = HowMany + 1
  BY <1>2, DraftsAreCounted, FS_AddElement DEF HowMany
<1> QED
  BY <1>1, <1>2, <1>3 DEF add_draft

\* set_status and claim_pending change the status of one that is there.
LEMMA SetStatus ==
    ASSUME TypeInv, NEW d \in present, NEW status \in DraftStatus \ {"absent"},
           set_status(d, status)
    PROVE  /\ draftStatus' \in [Drafts -> DraftStatus]
           /\ present' = present
           /\ draftStatus'[d] = status
           /\ \A e \in Drafts : e # d => draftStatus'[e] = draftStatus[e]
<1>1. draftStatus \in [Drafts -> DraftStatus] /\ d \in Drafts
  BY DEF TypeInv, TypeOK, StoreTypeOK, present
<1> QED
  BY <1>1 DEF present, set_status

LEMMA InsertType ==
    ASSUME TypeInv, NEW b \in Batches, NEW verdict,
           NEW status \in {"pending", "extraction_failed"}, NEW next \in {"span", "log_number"},
           Insert(b, verdict, status, next)
    PROVE  TypeInv'
<1> DEFINE d == job[b].draft
           new == [job[b] EXCEPT !.stage = next]
<1>0. /\ UNCHANGED <<versionTable, approvals, audited, loaded, spans, trail, startupVars,
                     alone, reviewVars, mishaps>>
      /\ job[b].stage = "insert"
  BY DEF Insert
<1>1. d \in Drafts /\ Target[d] = target(b)
  BY <1>0, JobIs DEF BatchPlace
<1>2. {faults', crashes'} \subseteq Nat /\ faults' + crashes' <= MaxMishaps
  BY <1>0 DEF TypeInv, TypeOK, mishaps
<1>3. CASE ~CanAddDraft(d)
  <2>1. Abort(b) /\ UNCHANGED <<storeVars, documents, fresh>>
    BY <1>0, <1>3 DEF Insert, storeVars, documents
  <2> QED
    BY <2>1, <1>0, <1>2, AbortType
<1>4. CASE CanAddDraft(d)
  <2>1. add_draft(d, status) /\ fresh' = [fresh EXCEPT ![b] = @ \cup {d}] /\ Become(b, new)
    BY <1>4 DEF Insert, Move
  <2>2. /\ draftStatus' \in [Drafts -> DraftStatus]
        /\ present' = present \cup {d} /\ d \notin present
    BY <2>1, <1>1, <1>4, AddDraft
  <2>3. new \in JobType /\ new.stage = next /\ new.draft = d /\ new.at = job[b].at
    BY JobIs DEF JobType, Stages
  <2>4. /\ job' \in [Batches -> JobType] /\ job'[b] = new
        /\ \A c \in Batches : c # b => job'[c] = job[c]
    <3> HIDE DEF new
    <3> QED
      BY <2>1, <2>3, BecomeIs
  <2>5. fresh \in [Batches -> SUBSET present] /\ fresh' \in [Batches -> SUBSET present']
    BY <2>1, <2>2 DEF TypeInv, TypeOK
  <2>6. TypeOK'
    <3>1. StoreTypeOK'
      BY <1>0, <2>2 DEF TypeInv, TypeOK, StoreTypeOK, versionTable
    <3>2. StartupTypeOK'
      BY <1>0 DEF TypeInv, TypeOK, StartupTypeOK, startupVars
    <3> QED
      BY <1>0, <1>2, <2>2, <2>4, <2>5, <3>1, <3>2 DEF TypeInv, TypeOK, reviewVars
  <2>7. \A c \in Batches : BatchPlace(c)'
    <3> SUFFICES ASSUME NEW c \in Batches PROVE BatchPlace(c)'
      OBVIOUS
    <3>1. CASE c = b
      BY <3>1, <1>1, <2>1, <2>3, <2>4, <2>5 DEF BatchPlace, Wrote, target
    <3>2. CASE c # b
      BY <3>2, <2>1, <2>4, <2>5 DEF TypeInv, BatchPlace, Wrote, target
    <3> QED
      BY <3>1, <3>2
  <2>8. OneGiver'
    <3>1. /\ \A e \in Drafts : e \notin present' => spans'[e] = 0
          /\ \A c \in Batches : job'[c].stage = "span" => spans'[job'[c].draft] < NeededSpans
      <4>1. spans[d] = 0 /\ spans' = spans /\ 0 < NeededSpans
        BY <1>0, <1>1, <2>2, DocumentsAssumption DEF TypeInv, OneGiver
      <4>2. \A e \in Drafts : e \notin present' => spans'[e] = 0
        BY <4>1, <2>2 DEF TypeInv, OneGiver
      <4>3. \A c \in Batches : c # b /\ job'[c].stage = "span" => spans'[job'[c].draft] < NeededSpans
        BY <4>1, <2>4 DEF TypeInv, OneGiver
      <4>4. spans'[job'[b].draft] < NeededSpans
        BY <4>1, <2>3, <2>4
      <4> QED
        BY <4>2, <4>3, <4>4
    <3>2. \A c, e \in Batches : c # e => fresh'[c] \cap fresh'[e] = {}
      BY <2>1, <2>2, <2>5 DEF TypeInv, OneGiver
    <3>3. (phase = "draft_spans" =>
            /\ demo.id \in present /\ spans[demo.id] < NeededSpans
            /\ \A c \in Batches : demo.id \notin fresh[c])'
      BY <1>0, <2>1, <2>2, <2>5 DEF TypeInv, OneGiver, startupVars, demo
    <3> QED
      BY <3>1, <3>2, <3>3 DEF OneGiver
  <2> QED
    BY <1>0, <2>6, <2>7, <2>8 DEF TypeInv, StartupPlace, startupVars
<1> QED
  BY <1>3, <1>4

\* One more span, for the draft of the one that gives them.
LEMMA AddSpan ==
    ASSUME TypeInv, NEW d \in present, spans[d] < NeededSpans, add_span(d)
    PROVE  /\ spans' \in [Drafts -> 0..NeededSpans]
           /\ spans'[d] = spans[d] + 1
           /\ \A e \in Drafts : e # d => spans'[e] = spans[e]
<1>1. spans \in [Drafts -> 0..NeededSpans] /\ d \in Drafts /\ NeededSpans \in Nat
  BY DocumentsAssumption DEF TypeInv, TypeOK, StartupTypeOK, present
<1> QED
  BY <1>1 DEF add_span

LEMMA InsertSpanType == ASSUME TypeInv, NEW b \in Batches, InsertSpan(b) PROVE TypeInv'
<1> DEFINE d == job[b].draft
           next == IF spans[d] + 1 < NeededSpans THEN "span" ELSE "log_number"
           new == [job[b] EXCEPT !.stage = next]
<1>0. /\ UNCHANGED <<storeVars, loaded, trail, startupVars, fresh, alone, reviewVars, mishaps>>
      /\ job[b].stage = "span" /\ add_span(d) /\ Become(b, new)
  BY DEF InsertSpan, OthersUnchanged, Move
<1>1. fresh \in [Batches -> SUBSET present] /\ present' = present
  BY <1>0 DEF TypeInv, TypeOK, storeVars, present
<1>2. d \in fresh[b] /\ d \in present /\ spans[d] < NeededSpans /\ Target[d] = target(b)
  BY <1>0, <1>1, JobIs DEF BatchPlace, Wrote, TypeInv, OneGiver
<1>3. /\ spans' \in [Drafts -> 0..NeededSpans]
      /\ spans'[d] = spans[d] + 1
      /\ \A e \in Drafts : e # d => spans'[e] = spans[e]
  BY <1>0, <1>2, AddSpan
<1>4. new \in JobType /\ new.stage = next /\ new.draft = d /\ new.at = job[b].at
      /\ next \in {"span", "log_number"}
  BY JobIs DEF JobType, Stages
<1>5. /\ job' \in [Batches -> JobType] /\ job'[b] = new
      /\ \A c \in Batches : c # b => job'[c] = job[c]
  <2> HIDE DEF new
  <2> QED
    BY <1>0, <1>4, BecomeIs
<1>6. TypeOK'
  <2>1. StoreTypeOK'
    BY <1>0 DEF TypeInv, TypeOK, StoreTypeOK, storeVars, versionTable
  <2>2. StartupTypeOK'
    BY <1>0, <1>3 DEF TypeInv, TypeOK, StartupTypeOK, startupVars
  <2> QED
    BY <1>0, <1>1, <1>5, <2>1, <2>2 DEF TypeInv, TypeOK, reviewVars, mishaps
<1>7. \A c \in Batches : BatchPlace(c)'
  <2> SUFFICES ASSUME NEW c \in Batches PROVE BatchPlace(c)'
    OBVIOUS
  <2>1. CASE c = b
    BY <2>1, <1>0, <1>2, <1>4, <1>5 DEF BatchPlace, target
  <2>2. CASE c # b
    BY <2>2, <1>0, <1>5 DEF TypeInv, BatchPlace, Wrote, target
  <2> QED
    BY <2>1, <2>2
<1>8. OneGiver'
  <2>1. \A e \in Drafts : e \notin present' => spans'[e] = 0
    BY <1>1, <1>2, <1>3 DEF TypeInv, OneGiver
  <2>2. ASSUME NEW c \in Batches, job'[c].stage = "span"
        PROVE  spans'[job'[c].draft] < NeededSpans
    <3>1. CASE c = b
      BY <3>1, <2>2, <1>3, <1>4, <1>5
    <3>2. CASE c # b
      <4>1. job'[c] = job[c] /\ job[c].draft \in fresh[c] /\ job[c].draft \in Drafts
        BY <3>2, <2>2, <1>5, <1>1 DEF TypeInv, BatchPlace, Wrote, present
      <4>2. job[c].draft # d
        BY <4>1, <1>2, <3>2 DEF TypeInv, OneGiver
      <4> QED
        BY <4>1, <4>2, <2>2, <1>3 DEF TypeInv, OneGiver
    <3> QED
      BY <3>1, <3>2
  <2>3. (phase = "draft_spans" =>
          /\ demo.id \in present /\ spans[demo.id] < NeededSpans
          /\ \A c \in Batches : demo.id \notin fresh[c])'
    BY <1>0, <1>1, <1>2, <1>3 DEF TypeInv, OneGiver, startupVars, demo, present
  <2> QED
    BY <1>0, <2>1, <2>2, <2>3 DEF TypeInv, OneGiver
<1> QED
  BY <1>0, <1>6, <1>7, <1>8 DEF TypeInv, StartupPlace, startupVars

\* A change of statuses that adds no draft disturbs nothing else.
LEMMA StatusStep ==
    ASSUME TypeInv, StoreTypeOK', present' = present,
           UNCHANGED <<documents, startupVars, fresh, alone, mishaps>>,
           job' \in [Batches -> JobType],
           \A b \in Batches : /\ job'[b].draft = job[b].draft /\ job'[b].at = job[b].at
                              /\ job'[b].stage = job[b].stage \/ (Wrote(b) /\ job'[b].stage = "log_number"),
           deciding' \subseteq present \X Decisions, decided' \in 0..MaxDecisions
    PROVE  TypeInv'
<1>1. TypeOK'
  BY DEF TypeInv, TypeOK, StartupTypeOK, documents, startupVars, mishaps
<1>2. \A b \in Batches : BatchPlace(b)'
  BY DEF TypeInv, BatchPlace, Wrote, target
<1>3. OneGiver'
  BY DEF TypeInv, OneGiver, documents, startupVars, demo
<1> QED
  BY <1>1, <1>2, <1>3 DEF TypeInv, StartupPlace, documents, startupVars

LEMMA MarkFailedType == ASSUME TypeInv, NEW b \in Batches, MarkFailed(b) PROVE TypeInv'
<1> DEFINE new == [job[b] EXCEPT !.stage = "log_number", !.verdict = "failed"]
<1>0. /\ UNCHANGED <<versionTable, approvals, audited, documents, startupVars, fresh, alone,
                     reviewVars, mishaps>>
      /\ Become(b, new) /\ Wrote(b) /\ set_status(job[b].draft, "extraction_failed")
  BY DEF MarkFailed, OthersUnchanged, Wrote
<1>1. job[b].draft \in present
  BY <1>0, JobIs DEF BatchPlace, TypeInv, TypeOK
<1>2. draftStatus' \in [Drafts -> DraftStatus] /\ present' = present
  BY <1>0, <1>1, SetStatus DEF DraftStatus
<1>3. new \in JobType /\ new.stage = "log_number" /\ new.draft = job[b].draft /\ new.at = job[b].at
  BY JobIs DEF JobType, Stages
<1>4. /\ job' \in [Batches -> JobType] /\ job'[b] = new
      /\ \A c \in Batches : c # b => job'[c] = job[c]
  <2> HIDE DEF new
  <2> QED
    BY <1>0, <1>3, BecomeIs
<1>5. StoreTypeOK'
  BY <1>0, <1>2 DEF TypeInv, TypeOK, StoreTypeOK, versionTable
<1>6. deciding' \subseteq present \X Decisions /\ decided' \in 0..MaxDecisions
  BY <1>0 DEF TypeInv, TypeOK, reviewVars
<1>7. \A c \in Batches : /\ job'[c].draft = job[c].draft /\ job'[c].at = job[c].at
                         /\ job'[c].stage = job[c].stage \/ (Wrote(c) /\ job'[c].stage = "log_number")
  BY <1>0, <1>3, <1>4
<1> HIDE DEF new
<1> QED
  BY <1>0, <1>2, <1>4, <1>5, <1>6, <1>7, StatusStep

\* The next target is a target, and the batch has no draft of it yet.
LEMMA NextTargetIs ==
    ASSUME TypeInv, NEW b \in Batches
    PROVE  /\ Next_target(b) \in JobType
           /\ Next_target(b).stage \in {"source", "done"}
           /\ Next_target(b).stage = "source" =>
                job[b].at < Limit[b] /\ Next_target(b).at = job[b].at + 1
           /\ Next_target(b).stage = "done" => job[b].at >= Limit[b]
           /\ ~Next_target(b).taken
<1>1. job[b].at \in DOMAIN Targets /\ Idle \in JobType
  BY JobIs, IdleIsTyped DEF JobType
<1>2. Limit[b] \in 1..Len(Targets)
  BY BatchAssumption
<1>3. job[b].at < Limit[b] => job[b].at + 1 \in DOMAIN Targets
  BY <1>1, <1>2, Lists
<1>4. job[b].at \in Nat /\ Limit[b] \in Nat
  BY <1>1, <1>2, Lists
<1>5. CASE job[b].at < Limit[b]
  <2>1. Next_target(b) = [Idle EXCEPT !.stage = "source", !.at = job[b].at + 1]
    BY <1>5 DEF Next_target
  <2> QED
    BY <1>1, <1>3, <1>5, <2>1 DEF Idle, JobType, Stages
<1>6. CASE ~(job[b].at < Limit[b])
  <2>1. Next_target(b) = [Idle EXCEPT !.stage = "done"]
    BY <1>6 DEF Next_target
  <2>2. /\ Next_target(b) \in JobType /\ Next_target(b).stage = "done"
        /\ ~Next_target(b).taken
    BY <1>1, <2>1 DEF Idle, JobType, Stages
  <2>3. job[b].at >= Limit[b]
    BY <1>4, <1>6
  <2> QED
    BY <2>2, <2>3
<1> QED
  BY <1>5, <1>6

\* The event of a batch marks the others that have read the same number.
LEMMA LogIs ==
    ASSUME TypeInv, NEW b \in Batches, LogExtraction(b), ~job[b].taken
    PROVE  /\ job' \in [Batches -> JobType] /\ job'[b] = Next_target(b)
           /\ \A c \in Batches : c # b =>
                job'[c] = job[c] \/
                (job[c].stage = "log" /\ job'[c] = [job[c] EXCEPT !.taken = TRUE])
<1>1. \A c \in Batches : job'[c] =
        IF c = b THEN Next_target(b)
        ELSE IF job[c].stage = "log" /\ job[c].no = job[b].no /\ target(c) = target(b)
             THEN [job[c] EXCEPT !.taken = TRUE] ELSE job[c]
  BY DEF LogExtraction
<1>2. DOMAIN job' = Batches /\ job' = [c \in Batches |-> job'[c]]
  BY DEF LogExtraction
<1>3. \A c \in Batches : job[c] \in JobType /\ [job[c] EXCEPT !.taken = TRUE] \in JobType
  BY JobIs DEF JobType
<1>4. \A c \in Batches : job'[c] \in JobType
  BY <1>1, <1>3, NextTargetIs
<1> QED
  BY <1>1, <1>2, <1>4

LEMMA LogsOfOthers ==
    ASSUME TypeInv, NEW b \in Batches, LogExtraction(b), ~job[b].taken
    PROVE  \A c \in Batches : c # b =>
             /\ job'[c].stage = job[c].stage /\ job'[c].draft = job[c].draft
             /\ job'[c].at = job[c].at /\ job'[c].no = job[c].no
             /\ job'[c].taken => job[c].taken \/ job[c].stage = "log"
<1> SUFFICES ASSUME NEW c \in Batches, c # b
             PROVE  /\ job'[c].stage = job[c].stage /\ job'[c].draft = job[c].draft
                    /\ job'[c].at = job[c].at /\ job'[c].no = job[c].no
                    /\ job'[c].taken => job[c].taken \/ job[c].stage = "log"
  OBVIOUS
<1>1. \/ job'[c] = job[c]
      \/ job[c].stage = "log" /\ job'[c] = [job[c] EXCEPT !.taken = TRUE]
  BY LogIs
<1>2. job[c] \in JobType
  BY JobIs
<1> QED
  BY <1>1, <1>2 DEF JobType

LEMMA LogExtractionType == ASSUME TypeInv, NEW b \in Batches, LogExtraction(b) PROVE TypeInv'
<1>0. OthersUnchanged /\ UNCHANGED <<storeVars, loaded, spans>> /\ job[b].stage = "log"
  BY DEF LogExtraction
<1>1. CASE job[b].taken
  <2>1. Abort(b) /\ UNCHANGED documents
    BY <1>0, <1>1 DEF LogExtraction, documents
  <2> QED
    BY <1>0, <2>1, NothingFails, AbortType
<1>2. CASE ~job[b].taken
  <2>1. /\ job' \in [Batches -> JobType] /\ job'[b] = Next_target(b)
        /\ \A c \in Batches : c # b =>
             job'[c] = job[c] \/
             (job[c].stage = "log" /\ job'[c] = [job[c] EXCEPT !.taken = TRUE])
    BY <1>2, LogIs
  <2> DEFINE e == event("rule_draft.extract", 0, job[b].draft,
                        IF job[b].verdict = "verified" THEN "pending" ELSE "extraction_failed")
  <2>2. trail' = trail \cup {e} /\ e.no = 0 /\ e.about = job[b].draft
    <3>1. trail' = trail \cup {e}
      BY <1>2 DEF LogExtraction, append
    <3> QED
      BY <3>1 DEF event
  <2> HIDE DEF e
  <2>3. present' = present
    BY <1>0 DEF present, storeVars
  <2>4. \A c \in Batches : c # b =>
          /\ job'[c].stage = job[c].stage /\ job'[c].draft = job[c].draft
          /\ job'[c].at = job[c].at
    BY <2>1, JobIs DEF JobType
  <2>5. job'[b].stage \in {"source", "done"}
    BY <2>1, NextTargetIs
  <2>6. job[b].draft \in Drafts
    BY <1>0, JobIs DEF BatchPlace, Wrote, TypeInv, TypeOK, present
  <2>7. TypeOK' /\ IsFiniteSet(trail')
    <3>1. StoreTypeOK'
      BY <1>0 DEF TypeInv, TypeOK, StoreTypeOK, storeVars, versionTable
    <3>2. StartupTypeOK' /\ IsFiniteSet(trail')
      BY <1>0, <2>2, <2>6, FS_AddElement
      DEF TypeInv, TypeOK, StartupTypeOK, OthersUnchanged, startupVars
    <3> QED
      BY <1>0, <2>1, <2>3, <3>1, <3>2, NothingFails DEF TypeInv, TypeOK, reviewVars
  <2>8. \A c \in Batches : BatchPlace(c)'
    BY <1>0, <2>4, <2>5, NothingFails DEF TypeInv, BatchPlace, Wrote, target
  <2>9. OneGiver'
    BY <1>0, <2>3, <2>4, <2>5, NothingFails DEF TypeInv, OneGiver, startupVars, demo
  <2> QED
    BY <1>0, <2>7, <2>8, <2>9, NothingFails DEF TypeInv, StartupPlace, startupVars
<1> QED
  BY <1>1, <1>2

-----------------------------------------------------------------------------
(* Types, under the start-up *)

\* A step of the start-up that gives no span and adds no draft.
LEMMA StartupMoves ==
    ASSUME TypeInv, UNCHANGED <<draftStatus, approvals, audited, spans, job, fresh, mishaps, decided>>,
           alone' \subseteq Batches, deciding' \subseteq deciding,
           rows' \subseteq VersionId, UNCHANGED <<from, until, prior>>,
           loaded' \subseteq Policies,
           trail' = trail \/ \E e : /\ trail' = trail \cup {e}
                                    /\ e.no \in Nat /\ e.about \in Policies \cup Drafts,
           phase' \in Phases \ {"draft_spans"}, at' \in Nat, StartupPlace'
    PROVE  TypeInv'
<1>1. StoreTypeOK' /\ present' = present
  BY DEF TypeInv, TypeOK, StoreTypeOK, present
<1>2. StartupTypeOK' /\ IsFiniteSet(trail')
  BY FS_AddElement DEF TypeInv, TypeOK, StartupTypeOK
<1>3. TypeOK'
  BY <1>1, <1>2 DEF TypeInv, TypeOK, mishaps
<1>4. \A b \in Batches : BatchPlace(b)'
  BY DEF TypeInv, BatchPlace, Wrote, target
<1>5. OneGiver'
  BY <1>1 DEF TypeInv, OneGiver
<1> QED
  BY <1>2, <1>3, <1>4, <1>5 DEF TypeInv

LEMMA PlaceIs ==
    ASSUME TypeInv
    PROVE  /\ at \in Nat /\ at + 1 \in Nat /\ at >= 1
           /\ phase = "policies" /\ at <= Len(SeedOrder) => policy \in Seeded
           /\ phase = "policy_audit" => policy \in Seeded
           /\ (phase = "drafts" /\ at <= Len(DemoQueue)) \/ phase \in {"insert", "draft_spans", "draft_audit"} =>
                /\ demo.id \in Drafts /\ demo.status \in {"pending", "extraction_failed"}
                /\ demo.id[1] = at /\ Target[demo.id] \in FrozenSources
<1>1. at \in Nat /\ at >= 1
  BY DEF TypeInv, TypeOK, StartupTypeOK, StartupPlace
<1>2. phase \in {"policies", "policy_audit"} /\ at <= Len(SeedOrder) => at \in DOMAIN SeedOrder
  BY <1>1, Lists
<1>3. at <= Len(DemoQueue) => at \in DOMAIN DemoQueue
  BY <1>1, Lists
<1>4. \A i \in DOMAIN DemoQueue : DemoQueue[i].id[1] = i /\ Target[DemoQueue[i].id] \in FrozenSources
  BY DocumentsAssumption
<1> QED
  BY <1>1, <1>2, <1>3, <1>4, Lists DEF TypeInv, StartupPlace, policy, demo

LEMMA SeedPolicyType == ASSUME TypeInv, Seed, SeedPolicy PROVE TypeInv'
<1>1. rows' \subseteq VersionId
  BY PlaceIs, Parameters DEF SeedPolicy, TypeInv, TypeOK, StoreTypeOK, VersionId
<1>2. phase' \in Phases \ {"draft_spans"} /\ at' \in Nat /\ StartupPlace'
  BY PlaceIs DEF SeedPolicy, Step, Phases, StartupPlace
<1>3. UNCHANGED <<draftStatus, approvals, audited, from, until, prior, loaded, spans, trail,
                  job, fresh, alone, deciding, decided, mishaps>>
  BY DEF SeedPolicy, Seed, documents, batchVars, reviewVars
<1> QED
  BY <1>1, <1>2, <1>3, StartupMoves DEF TypeInv, TypeOK, StartupTypeOK

LEMMA SeedPolicyAuditType == ASSUME TypeInv, Seed, SeedPolicyAudit PROVE TypeInv'
<1> DEFINE e == event("rule_version.seed", 0, policy, "success")
<1>1. trail' = trail \cup {e} /\ e.no \in Nat /\ e.about \in Policies \cup Drafts
  BY PlaceIs, Parameters DEF SeedPolicyAudit, append, event
<1>2. phase' \in Phases \ {"draft_spans"} /\ at' \in Nat /\ StartupPlace'
  BY PlaceIs DEF SeedPolicyAudit, Step, Phases, StartupPlace
<1>3. UNCHANGED <<rows, draftStatus, approvals, audited, from, until, prior, loaded, spans,
                  job, fresh, alone, deciding, decided, mishaps>>
  BY DEF SeedPolicyAudit, Seed, storeVars, versionTable, batchVars, reviewVars
<1> HIDE DEF e
<1> QED
  BY <1>1, <1>2, <1>3, StartupMoves DEF TypeInv, TypeOK, StartupTypeOK, StoreTypeOK

LEMMA SeedSourcesType == ASSUME TypeInv, Seed, SeedSources PROVE TypeInv'
<1>1. phase' \in Phases \ {"draft_spans"} /\ at' \in Nat /\ StartupPlace'
  BY DEF SeedSources, Step, Phases, StartupPlace
<1>2. UNCHANGED <<rows, draftStatus, approvals, audited, from, until, prior, trail, spans,
                  job, fresh, alone, deciding, decided, mishaps>>
  BY DEF SeedSources, Seed, storeVars, versionTable, batchVars, reviewVars
<1>3. loaded' \subseteq Policies
  BY Parameters DEF SeedSources, TypeInv, TypeOK, StartupTypeOK
<1> QED
  BY <1>1, <1>2, <1>3, StartupMoves DEF TypeInv, TypeOK, StoreTypeOK

\* The steps of the start-up that move it and write nothing.
LEMMA OnlyStepsOn ==
    ASSUME TypeInv, UNCHANGED <<storeVars, documents, job, fresh, decided, mishaps>>,
           alone' \subseteq Batches, deciding' \subseteq deciding,
           phase' \in Phases \ {"draft_spans"}, at' \in Nat, StartupPlace'
    PROVE  TypeInv'
<1>1. UNCHANGED <<rows, draftStatus, approvals, audited, from, until, prior, trail, spans, loaded>>
  BY DEF storeVars, versionTable, documents
<1> QED
  BY <1>1, StartupMoves DEF TypeInv, TypeOK, StoreTypeOK, StartupTypeOK

LEMMA SeedDraftType == ASSUME TypeInv, Seed, SeedDraft PROVE TypeInv'
<1>1. phase' \in Phases \ {"draft_spans"} /\ at' \in Nat /\ StartupPlace'
  BY PlaceIs DEF SeedDraft, Step, Phases, StartupPlace
<1>2. UNCHANGED <<storeVars, documents, job, fresh, alone, deciding, decided, mishaps>>
  BY DEF SeedDraft, Seed, batchVars, reviewVars
<1> QED
  BY <1>1, <1>2, OnlyStepsOn DEF TypeInv, TypeOK

LEMMA ServeType == ASSUME TypeInv, Seed, Serve PROVE TypeInv'
<1>1. phase' \in Phases \ {"draft_spans"} /\ at' \in Nat /\ StartupPlace'
  BY DEF Serve, Step, Phases, StartupPlace
<1>2. UNCHANGED <<storeVars, documents, job, fresh, alone, deciding, decided, mishaps>>
  BY DEF Serve, Seed, batchVars, reviewVars
<1> QED
  BY <1>1, <1>2, OnlyStepsOn DEF TypeInv, TypeOK

LEMMA BootType == ASSUME TypeInv, Boot PROVE TypeInv'
<1>1. phase' \in Phases \ {"draft_spans"} /\ at' \in Nat /\ StartupPlace'
  BY DEF Boot, Step, Phases, StartupPlace
<1> QED
  BY <1>1, OnlyStepsOn DEF Boot, TypeInv, TypeOK, reviewVars

LEMMA GoDownType == ASSUME TypeInv, GoDown PROVE TypeInv'
<1>1. phase' \in Phases \ {"draft_spans"} /\ at' \in Nat /\ StartupPlace'
  BY DEF GoDown, Step, Phases, StartupPlace
<1>2. {faults', crashes'} \subseteq Nat /\ faults' + crashes' <= MaxMishaps
  BY BatchAssumption DEF GoDown, TypeInv, TypeOK
<1>3. present' = present /\ StoreTypeOK'
  BY DEF GoDown, TypeInv, TypeOK, StoreTypeOK, present, storeVars, versionTable
<1>4. TypeOK'
  BY <1>1, <1>2, <1>3 DEF GoDown, TypeInv, TypeOK, StartupTypeOK, documents, batchVars
<1>5. \A b \in Batches : BatchPlace(b)'
  BY DEF GoDown, TypeInv, BatchPlace, Wrote, target, batchVars
<1>6. OneGiver'
  BY <1>1, <1>3 DEF GoDown, TypeInv, OneGiver, batchVars, documents
<1> QED
  BY <1>1, <1>4, <1>5, <1>6 DEF GoDown, TypeInv, documents

LEMMA InsertDemoDraftType == ASSUME TypeInv, Seed, InsertDemoDraft PROVE TypeInv'
<1> DEFINE d == demo.id
<1>0. /\ UNCHANGED <<versionTable, approvals, audited, loaded, spans, trail>>
      /\ UNCHANGED <<batchVars, reviewVars, mishaps>> /\ phase = "insert"
  BY DEF InsertDemoDraft, Seed
<1>1. d \in Drafts /\ demo.status \in {"pending", "extraction_failed"} /\ at \in Nat /\ at >= 1
      /\ at <= Len(DemoQueue)
  BY <1>0, PlaceIs DEF TypeInv, StartupPlace
<1>2. CASE ~CanAddDraft(d)
  <2>1. UNCHANGED <<storeVars, documents>> /\ phase' = "down" /\ at' = 1
    BY <1>0, <1>2 DEF InsertDemoDraft, Step, storeVars, documents
  <2>2. phase' \in Phases \ {"draft_spans"} /\ at' \in Nat /\ StartupPlace'
    BY <2>1 DEF Phases, StartupPlace
  <2> QED
    BY <1>0, <2>1, <2>2, OnlyStepsOn DEF TypeInv, TypeOK, batchVars, reviewVars
<1>3. CASE CanAddDraft(d)
  <2>1. add_draft(d, demo.status) /\ at' = at
        /\ phase' \in {"draft_spans", "draft_audit"}
    BY <1>3 DEF InsertDemoDraft, Step
  <2>2. /\ draftStatus' \in [Drafts -> DraftStatus]
        /\ present' = present \cup {d} /\ d \notin present
    BY <2>1, <1>1, <1>3, AddDraft
  <2>3. fresh \in [Batches -> SUBSET present] /\ fresh' \in [Batches -> SUBSET present']
    BY <1>0, <2>2 DEF TypeInv, TypeOK, batchVars
  <2>4. TypeOK'
    <3>1. StoreTypeOK'
      BY <1>0, <2>2 DEF TypeInv, TypeOK, StoreTypeOK, versionTable
    <3>2. StartupTypeOK'
      BY <1>0, <1>1, <2>1 DEF TypeInv, TypeOK, StartupTypeOK, Phases
    <3> QED
      BY <1>0, <2>2, <2>3, <3>1, <3>2 DEF TypeInv, TypeOK, batchVars, reviewVars, mishaps
  <2>5. \A c \in Batches : BatchPlace(c)'
    BY <1>0 DEF TypeInv, BatchPlace, Wrote, target, batchVars
  <2>6. OneGiver'
    <3>1. demo' = demo
      BY <2>1 DEF demo
    <3>2. spans[d] = 0 /\ spans' = spans /\ 0 < NeededSpans
      BY <1>0, <1>1, <2>2, DocumentsAssumption DEF TypeInv, OneGiver
    <3>3. \A e \in Drafts : e \notin present' => spans'[e] = 0
      BY <3>2, <2>2 DEF TypeInv, OneGiver
    <3>4. \A c \in Batches : demo.id \notin fresh'[c]
      BY <1>0, <2>2, <2>3 DEF batchVars
    <3> QED
      BY <1>0, <2>2, <3>1, <3>2, <3>3, <3>4 DEF TypeInv, OneGiver, batchVars
  <2> QED
    BY <1>0, <1>1, <2>1, <2>4, <2>5, <2>6 DEF TypeInv, StartupPlace
<1> QED
  BY <1>2, <1>3

LEMMA SeedSpanType == ASSUME TypeInv, Seed, SeedSpan PROVE TypeInv'
<1> DEFINE d == demo.id
<1>0. /\ UNCHANGED <<storeVars, loaded, trail, batchVars, reviewVars, mishaps>>
      /\ phase = "draft_spans" /\ add_span(d)
      /\ phase' = (IF spans[d] + 1 < NeededSpans THEN "draft_spans" ELSE "draft_audit")
      /\ at' = at
  BY DEF SeedSpan, Seed, Step
<1>1. d \in present /\ spans[d] < NeededSpans /\ \A c \in Batches : d \notin fresh[c]
  BY <1>0 DEF TypeInv, OneGiver
<1>2. /\ spans' \in [Drafts -> 0..NeededSpans] /\ spans'[d] = spans[d] + 1
      /\ \A e \in Drafts : e # d => spans'[e] = spans[e]
  BY <1>0, <1>1, AddSpan
<1>3. present' = present /\ demo' = demo
  BY <1>0 DEF present, demo, storeVars
<1>4. TypeOK'
  <2>1. StoreTypeOK'
    BY <1>0 DEF TypeInv, TypeOK, StoreTypeOK, storeVars, versionTable
  <2>2. StartupTypeOK'
    BY <1>0, <1>2 DEF TypeInv, TypeOK, StartupTypeOK, Phases
  <2> QED
    BY <1>0, <1>3, <2>1, <2>2 DEF TypeInv, TypeOK, batchVars, reviewVars, mishaps
<1>5. \A c \in Batches : BatchPlace(c)'
  BY <1>0 DEF TypeInv, BatchPlace, Wrote, target, batchVars
<1>6. OneGiver'
  <2>1. \A e \in Drafts : e \notin present' => spans'[e] = 0
    BY <1>1, <1>2, <1>3 DEF TypeInv, OneGiver
  <2>2. ASSUME NEW c \in Batches, job'[c].stage = "span"
        PROVE  spans'[job'[c].draft] < NeededSpans
    <3>1. job'[c] = job[c] /\ job[c].draft \in fresh[c] /\ job[c].draft \in Drafts
      BY <1>0, <2>2 DEF TypeInv, TypeOK, BatchPlace, Wrote, present, batchVars
    <3>2. job[c].draft # d
      BY <3>1, <1>1
    <3> QED
      BY <3>1, <3>2, <2>2, <1>2 DEF TypeInv, OneGiver
  <2>3. phase' = "draft_spans" => spans'[d] < NeededSpans
    BY <1>0, <1>2
  <2> QED
    BY <1>0, <1>1, <1>3, <2>1, <2>2, <2>3 DEF TypeInv, OneGiver, batchVars
<1> QED
  BY <1>0, <1>4, <1>5, <1>6 DEF TypeInv, StartupPlace

LEMMA SeedDraftAuditType == ASSUME TypeInv, Seed, SeedDraftAudit PROVE TypeInv'
<1> DEFINE e == event("rule_draft.seed", 0, demo.id, demo.status)
<1>1. trail' = trail \cup {e} /\ e.no \in Nat /\ e.about \in Policies \cup Drafts
  BY PlaceIs DEF SeedDraftAudit, append, event
<1>2. phase' \in Phases \ {"draft_spans"} /\ at' \in Nat /\ StartupPlace'
  BY PlaceIs DEF SeedDraftAudit, Step, Phases, StartupPlace
<1>3. UNCHANGED <<rows, draftStatus, approvals, audited, from, until, prior, loaded, spans,
                  job, fresh, alone, deciding, decided, mishaps>>
  BY DEF SeedDraftAudit, Seed, storeVars, versionTable, batchVars, reviewVars
<1> HIDE DEF e
<1> QED
  BY <1>1, <1>2, <1>3, StartupMoves DEF TypeInv, TypeOK, StartupTypeOK, StoreTypeOK

-----------------------------------------------------------------------------
(* Types, under the reviewers *)

LEMMA ClaimType ==
    ASSUME TypeInv, NEW d \in present, NEW x \in Decisions, Claim(d, x) PROVE TypeInv'
<1>1. /\ UNCHANGED <<versionTable, approvals, audited, documents, startupVars, batchVars, mishaps>>
      /\ set_status(d, x)
  BY DEF Claim, claim_pending, set_status
<1>2. draftStatus' \in [Drafts -> DraftStatus] /\ present' = present
  BY <1>1, SetStatus DEF DraftStatus, Decisions
<1>3. StoreTypeOK'
  BY <1>1, <1>2 DEF TypeInv, TypeOK, StoreTypeOK, versionTable
<1>4. deciding' \subseteq present \X Decisions
  BY DEF Claim, TypeInv, TypeOK
<1>5. decided' \in 0..MaxDecisions
  <2>1. decided \in 0..MaxDecisions /\ MaxDecisions \in Nat /\ decided < MaxDecisions
        /\ decided' = decided + 1
    BY BatchAssumption DEF Claim, TypeInv, TypeOK
  <2> QED
    BY <2>1
<1> QED
  BY <1>1, <1>2, <1>3, <1>4, <1>5, StatusStep DEF batchVars, TypeInv, TypeOK

\* What an approval does to the versions, and that it does not change the kinds of rows.
LEMMA ReflectedIs ==
    ASSUME TypeInv, NEW d \in present, NEW x \in Decisions,
           ReflectApproval(d, x) \/ ReflectRejection(d, x)
    PROVE  /\ StoreTypeOK' /\ present' = present /\ d \in Drafts
           /\ audited'[d][x] = audited[d][x] + 1
           /\ \A e \in Drafts, y \in Decisions : e # d \/ y # x => audited'[e][y] = audited[e][y]
<1>1. /\ d \in Drafts /\ approvals \in [Drafts -> [Decisions -> Nat]]
      /\ audited \in [Drafts -> [Decisions -> Nat]]
  BY DEF TypeInv, TypeOK, StoreTypeOK, present
<1>2. add_approval(d, x) /\ append_audit(d, x) /\ draftStatus' = draftStatus
  BY DEF ReflectApproval, ReflectRejection
<1>3. /\ approvals' \in [Drafts -> [Decisions -> Nat]] /\ audited' \in [Drafts -> [Decisions -> Nat]]
  BY <1>1, <1>2 DEF add_approval, append_audit
<1>4. /\ rows' \subseteq VersionId /\ from' \in [VersionId -> Nat] /\ until' \in [VersionId -> Nat]
      /\ prior' \in [VersionId -> VersionId \cup {NoVersion}]
  <2>1. CASE ReflectRejection(d, x)
    BY <2>1 DEF ReflectRejection, TypeInv, TypeOK, StoreTypeOK, versionTable
  <2>2. CASE ReflectApproval(d, x)
    <3>1. PICK u \in activeFor(Target[d], 1) :
            /\ rows' = rows \cup {d} /\ from' = [from EXCEPT ![d] = 1]
            /\ until' = [until EXCEPT ![u] = 1] /\ prior' = [prior EXCEPT ![d] = u]
      BY <2>2 DEF ReflectApproval
    <3>2. u \in VersionId /\ d \in VersionId
      BY <1>1 DEF activeFor, active, TypeInv, TypeOK, StoreTypeOK, VersionId
    <3> QED
      BY <3>1, <3>2 DEF TypeInv, TypeOK, StoreTypeOK
  <2> QED
    BY <2>1, <2>2
<1>5. audited'[d][x] = audited[d][x] + 1
      /\ \A e \in Drafts, y \in Decisions : e # d \/ y # x => audited'[e][y] = audited[e][y]
  BY <1>1, <1>2 DEF append_audit
<1> QED
  BY <1>1, <1>2, <1>3, <1>4, <1>5 DEF TypeInv, TypeOK, StoreTypeOK, present

LEMMA ReflectType ==
    ASSUME TypeInv, NEW d \in present, NEW x \in Decisions,
           ReflectApproval(d, x) \/ ReflectRejection(d, x)
    PROVE  TypeInv'
<1>1. /\ UNCHANGED <<documents, startupVars, batchVars, decided, mishaps>>
      /\ deciding' \subseteq deciding
  BY DEF ReflectApproval, ReflectRejection
<1>2. StoreTypeOK' /\ present' = present
  BY ReflectedIs
<1> QED
  BY <1>1, <1>2, StatusStep DEF batchVars, TypeInv, TypeOK

LEMMA GiveBackType ==
    ASSUME TypeInv, NEW d \in present, NEW x \in Decisions, GiveBack(d, x) PROVE TypeInv'
<1>1. /\ UNCHANGED <<versionTable, approvals, audited, documents, startupVars, batchVars, decided, mishaps>>
      /\ set_status(d, "pending") /\ deciding' \subseteq deciding
  BY DEF GiveBack
<1>2. draftStatus' \in [Drafts -> DraftStatus] /\ present' = present
  BY <1>1, SetStatus DEF DraftStatus
<1>3. StoreTypeOK'
  BY <1>1, <1>2 DEF TypeInv, TypeOK, StoreTypeOK, versionTable
<1> QED
  BY <1>1, <1>2, <1>3, StatusStep DEF batchVars, TypeInv, TypeOK

-----------------------------------------------------------------------------
(* Types, in every behaviour *)

LEMMA InitTypes == Init => TypeInv
<1> SUFFICES ASSUME Init PROVE TypeInv
  OBVIOUS
<1>1. /\ EmptyStore /\ phase = "down" /\ at = 1 /\ trail = {} /\ present = {}
      /\ \A b \in Batches : job[b] = Idle /\ fresh[b] = {}
  BY DEF Init, StartupInit, EmptyStore, present
<1>2. StoreTypeOK
  BY <1>1 DEF EmptyStore, StoreTypeOK, NULL, DraftStatus
<1>3. StartupTypeOK
  <2>1. 0 \in 0..NeededSpans
    <3>1. NeededSpans \in Nat
      BY DocumentsAssumption
    <3> QED
      BY <3>1
  <2> QED
    BY <1>1, <2>1 DEF EmptyStore, StartupTypeOK, Phases
<1>4. TypeOK
  <2>1. MaxDecisions \in Nat /\ MaxMishaps \in Nat
    BY BatchAssumption
  <2>2. decided \in 0..MaxDecisions /\ {faults, crashes} \subseteq Nat /\ faults + crashes <= MaxMishaps
    BY <2>1 DEF Init
  <2>3. job \in [Batches -> JobType]
    BY IdleIsTyped DEF Init
  <2> QED
    BY <1>2, <1>3, <2>2, <2>3 DEF Init, TypeOK
<1>5. StartupPlace /\ \A b \in Batches : BatchPlace(b)
  BY <1>1 DEF StartupPlace, BatchPlace, Wrote, Idle
<1>6. OneGiver
  BY <1>1 DEF OneGiver, Idle, EmptyStore
<1> QED
  BY <1>1, <1>4, <1>5, <1>6, FS_EmptySet DEF TypeInv

LEMMA NextTypes == TypeInv /\ [Next]_vars => TypeInv'
<1> SUFFICES ASSUME TypeInv, [Next]_vars PROVE TypeInv'
  OBVIOUS
<1>1. CASE Seed
  BY <1>1, SeedPolicyType, SeedPolicyAuditType, SeedSourcesType, SeedDraftType,
     InsertDemoDraftType, SeedSpanType, SeedDraftAuditType, ServeType DEF Seed, Seeding
<1>2. CASE Review
  BY <1>2, ClaimType, ReflectType, GiveBackType DEF Review
<1>3. CASE Boot \/ GoDown
  BY <1>3, BootType, GoDownType
<1>4. ASSUME NEW b \in Batches, StartBatch(b) \/ BatchStep(b) \/ SpanRefused(b) \/ BatchStops(b)
      PROVE  TypeInv'
  <2>1. CASE BatchStep(b)
    <3>1. CASE InsertDraft(b)
      BY <3>1, InsertType DEF InsertDraft
    <3>2. CASE InsertFailed(b)
      BY <3>2, InsertType DEF InsertFailed
    <3> QED
      BY <2>1, <3>1, <3>2, LoadSourceType, LoadAuditType, ReadSourceType, CallModelType,
         NumberDraftType, InsertSpanType, MarkFailedType, NumberEventType, LogExtractionType
      DEF BatchStep
  <2> QED
    BY <1>4, <2>1, StartBatchType, SpanRefusedType, BatchStopsType
<1>5. CASE UNCHANGED vars
  <2>1. UNCHANGED <<storeVars, documents, startupVars, fresh, alone, mishaps, job, deciding, decided>>
    BY <1>5 DEF vars, batchVars, reviewVars
  <2>2. present' = present
    BY <2>1 DEF present, storeVars
  <2> QED
    BY <2>1, <2>2, StatusStep DEF TypeInv, TypeOK, StoreTypeOK, storeVars, versionTable
<1> QED
  BY <1>1, <1>2, <1>3, <1>4, <1>5 DEF Next, Quiet

(***************************************************************************)
(* Every row, number and place the ingestion writes has its type, in every *)
(* interleaving of batches, start-ups and reviewers (extraction.py,        *)
(* loader.py, seed.py).                                                    *)
(***************************************************************************)
THEOREM TypesHold == Spec => []TypeOK
<1>1. TypeInv => TypeOK
  BY DEF TypeInv
<1> QED
  BY <1>1, InitTypes, NextTypes, PTL DEF Spec

-----------------------------------------------------------------------------
(* What a step makes of its batch; the jobs of the others stay. *)

Others(b) ==
    job' \in [Batches -> JobType] /\ \A c \in Batches : c # b => job'[c] = job[c]

LEMMA AbortIs ==
    ASSUME TypeInv, NEW b \in Batches, Abort(b)
    PROVE  Others(b) /\ job'[b].stage = "aborted" /\ ~job'[b].taken
<1> DEFINE new == [Idle EXCEPT !.stage = "aborted"]
<1>1. new \in JobType /\ new.stage = "aborted" /\ ~new.taken
  BY IdleIsTyped DEF Idle, JobType, Stages
<1>2. Become(b, new)
  BY DEF Abort
<1> HIDE DEF new
<1> QED
  BY <1>1, <1>2, BecomeIs DEF Others

LEMMA MoveIs ==
    ASSUME TypeInv, NEW b \in Batches, NEW s \in Stages, Move(b, s)
    PROVE  /\ Others(b)
           /\ job'[b].stage = s /\ job'[b].at = job[b].at /\ job'[b].draft = job[b].draft
           /\ job'[b].no = job[b].no /\ job'[b].taken = job[b].taken
           /\ job'[b].verdict = job[b].verdict
<1> DEFINE new == [job[b] EXCEPT !.stage = s]
<1>1. /\ new \in JobType
      /\ new.stage = s /\ new.at = job[b].at /\ new.draft = job[b].draft
      /\ new.no = job[b].no /\ new.taken = job[b].taken /\ new.verdict = job[b].verdict
  BY JobIs DEF JobType
<1>2. Become(b, new)
  BY DEF Move
<1> HIDE DEF new
<1> QED
  BY <1>1, <1>2, BecomeIs DEF Others

LEMMA StartBatchIs ==
    ASSUME TypeInv, NEW b \in Batches, StartBatch(b)
    PROVE  /\ Others(b) /\ job'[b].at = 1 /\ ~job'[b].taken
           /\ job'[b].stage = IF loaded = {} THEN "load" ELSE "source"
           /\ job'[b].no = IF loaded = {} THEN AuditLength ELSE 0
<1> DEFINE new == [Idle EXCEPT !.stage = IF loaded = {} THEN "load" ELSE "source",
                               !.no = IF loaded = {} THEN AuditLength ELSE 0]
<1>1. /\ new \in JobType /\ new.at = 1 /\ ~new.taken
      /\ new.stage = IF loaded = {} THEN "load" ELSE "source"
      /\ new.no = IF loaded = {} THEN AuditLength ELSE 0
  BY IdleIsTyped, AuditIsCounted DEF Idle, JobType, Stages
<1>2. Become(b, new)
  BY DEF StartBatch
<1> HIDE DEF new
<1> QED
  BY <1>1, <1>2, BecomeIs DEF Others

\* the audit event of the text that b has just upserted
StoredEvent(b) ==
    event("policy_source.ingest", job[b].no + job[b].at, target(b), "stored")

LEMMA LoadAuditIs ==
    ASSUME TypeInv, NEW b \in Batches, LoadAudit(b)
    PROVE  /\ Others(b)
           /\ StoredEvent(b) \in trail => Abort(b) /\ trail' = trail
           /\ StoredEvent(b) \notin trail =>
                /\ trail' = trail \cup {StoredEvent(b)}
                /\ job[b].at < Len(Targets) =>
                    /\ job'[b].stage = "load" /\ job'[b].at = job[b].at + 1
                    /\ job'[b].no = job[b].no /\ job'[b].taken = job[b].taken
                /\ ~(job[b].at < Len(Targets)) =>
                    job'[b].stage = "source" /\ job'[b].at = 1 /\ ~job'[b].taken
<1> DEFINE next == [job[b] EXCEPT !.stage = "load", !.at = @ + 1]
           last == [Idle EXCEPT !.stage = "source"]
<1>1. CASE StoredEvent(b) \in trail
  BY <1>1, AbortIs DEF LoadAudit, StoredEvent
<1>2. CASE StoredEvent(b) \notin trail
  <2>1. trail' = trail \cup {StoredEvent(b)}
        /\ Become(b, IF job[b].at < Len(Targets) THEN next ELSE last)
    BY <1>2 DEF LoadAudit, append, StoredEvent
  <2>2. /\ job[b].at < Len(Targets) => next \in JobType
        /\ next.stage = "load" /\ next.at = job[b].at + 1
        /\ next.no = job[b].no /\ next.taken = job[b].taken
    <3>1. job[b].at < Len(Targets) => job[b].at + 1 \in DOMAIN Targets
      BY JobIs, Lists DEF JobType
    <3> QED
      BY <3>1, JobIs DEF JobType, Stages
  <2>3. last \in JobType /\ last.stage = "source" /\ last.at = 1 /\ ~last.taken
    BY IdleIsTyped DEF Idle, JobType, Stages
  <2> HIDE DEF next, last
  <2>4. CASE job[b].at < Len(Targets)
    BY <1>2, <2>1, <2>2, <2>4, BecomeIs DEF Others
  <2>5. CASE ~(job[b].at < Len(Targets))
    BY <1>2, <2>1, <2>3, <2>5, BecomeIs DEF Others
  <2> QED
    BY <2>4, <2>5
<1> QED
  BY <1>1, <1>2

LEMMA CallModelIs ==
    ASSUME TypeInv, NEW b \in Batches, CallModel(b)
    PROVE  /\ Others(b)
           /\ job'[b].stage \in {"call", "number"} /\ job'[b].at = job[b].at
           /\ job'[b].taken = job[b].taken
<1>1. PICK new : /\ Become(b, new)
                 /\ \/ new = [job[b] EXCEPT !.stage = "number", !.verdict = "verified"]
                    \/ new = [job[b] EXCEPT !.stage = "number", !.verdict = "failed"]
                    \/ job[b].attempt # MaxAttempts /\ new = [job[b] EXCEPT !.attempt = @ + 1]
  BY DEF CallModel
<1>2. /\ new \in JobType /\ new.stage \in {"number", "call"} /\ new.at = job[b].at
      /\ new.taken = job[b].taken
  <2>1. job[b] \in JobType /\ job[b].stage = "call"
    BY JobIs DEF CallModel
  <2>2. job[b].attempt # MaxAttempts => job[b].attempt + 1 \in 1..MaxAttempts
    <3>1. job[b].attempt \in 1..MaxAttempts /\ MaxAttempts \in Nat
      BY <2>1, BatchAssumption DEF JobType
    <3> QED
      BY <3>1
  <2> QED
    BY <1>1, <2>1, <2>2 DEF JobType, Stages
<1> QED
  BY <1>1, <1>2, BecomeIs DEF Others

LEMMA NumberDraftIs ==
    ASSUME TypeInv, NEW b \in Batches, NumberDraft(b)
    PROVE  /\ Others(b)
           /\ job'[b].stage = "insert" /\ job'[b].at = job[b].at
           /\ job'[b].taken = job[b].taken /\ job'[b].draft = <<HowMany + 1, target(b)>>
           /\ job'[b].draft \in Drafts
<1> DEFINE d == <<HowMany + 1, target(b)>>
           new == [job[b] EXCEPT !.stage = "insert", !.draft = d]
<1>1. d \in Drafts
  <2>1. HowMany + 1 <= MaxDrafts /\ HowMany \in Nat /\ MaxDrafts \in Nat
    BY DraftsAreCounted, DocumentsAssumption DEF NumberDraft, HowMany
  <2>2. HowMany + 1 \in 1..MaxDrafts
    BY <2>1
  <2> QED
    BY <2>2, JobIs, Parameters
<1>2. /\ new \in JobType /\ new.stage = "insert" /\ new.draft = d /\ new.at = job[b].at
      /\ new.taken = job[b].taken
  BY <1>1, JobIs DEF JobType, Stages
<1>3. Become(b, new)
  BY DEF NumberDraft, HowMany
<1> HIDE DEF new
<1> QED
  BY <1>1, <1>2, <1>3, BecomeIs DEF Others

LEMMA NumberEventIs ==
    ASSUME TypeInv, NEW b \in Batches, NumberEvent(b)
    PROVE  /\ Others(b)
           /\ job'[b].stage = "log" /\ job'[b].at = job[b].at /\ job'[b].draft = job[b].draft
           /\ job'[b].taken = job[b].taken
<1> DEFINE new == [job[b] EXCEPT !.stage = "log", !.no = AuditLength + 1]
<1>1. /\ new \in JobType /\ new.stage = "log" /\ new.draft = job[b].draft
      /\ new.at = job[b].at /\ new.taken = job[b].taken
  <2>1. AuditLength + 1 \in Nat
    BY AuditIsCounted
  <2> QED
    BY <2>1, JobIs DEF JobType, Stages
<1>2. Become(b, new)
  BY DEF NumberEvent
<1> HIDE DEF new
<1> QED
  BY <1>1, <1>2, BecomeIs DEF Others

LEMMA MarkFailedIs ==
    ASSUME TypeInv, NEW b \in Batches, MarkFailed(b)
    PROVE  /\ Others(b)
           /\ job'[b].stage = "log_number" /\ job'[b].at = job[b].at
           /\ job'[b].draft = job[b].draft /\ job'[b].taken = job[b].taken
<1> DEFINE new == [job[b] EXCEPT !.stage = "log_number", !.verdict = "failed"]
<1>1. /\ new \in JobType /\ new.stage = "log_number" /\ new.draft = job[b].draft
      /\ new.at = job[b].at /\ new.taken = job[b].taken
  BY JobIs DEF JobType, Stages
<1>2. Become(b, new)
  BY DEF MarkFailed
<1> HIDE DEF new
<1> QED
  BY <1>1, <1>2, BecomeIs DEF Others

\* Only a refused span leads to the mark.
LEMMA NobodyIsMarked ==
    ASSUME TypeInv, NEW b \in Batches,
           StartBatch(b) \/ BatchStep(b) \/ BatchStops(b)
    PROVE  \A c \in Batches : job'[c].stage = "mark" => job[c].stage = "mark"
<1>1. CASE StartBatch(b) \/ BatchStops(b) \/ LoadSource(b) \/ LoadAudit(b) \/ ReadSource(b)
  BY <1>1, StartBatchIs, AbortIs, MoveIs, LoadAuditIs
  DEF Others, BatchStops, LoadSource, ReadSource, Stages
<1>2. CASE CallModel(b) \/ NumberDraft(b) \/ MarkFailed(b) \/ NumberEvent(b)
  BY <1>2, CallModelIs, NumberDraftIs, MarkFailedIs, NumberEventIs DEF Others
<1>3. CASE InsertDraft(b) \/ InsertFailed(b) \/ InsertSpan(b)
  BY <1>3, AbortIs, MoveIs DEF InsertDraft, InsertFailed, Insert, InsertSpan, Others, Stages
<1>4. CASE LogExtraction(b)
  <2>1. CASE job[b].taken
    BY <1>4, <2>1, AbortIs DEF LogExtraction, Others
  <2>2. CASE ~job[b].taken
    BY <1>4, <2>2, LogIs, NextTargetIs, JobIs DEF JobType
  <2> QED
    BY <2>1, <2>2
<1> QED
  BY <1>1, <1>2, <1>3, <1>4 DEF BatchStep

-----------------------------------------------------------------------------
(* The catalogue *)

\* The versions change in two places only, and the start-up moves in its own steps.
LEMMA CatalogueStays ==
    ASSUME TypeInv, CatalogueInv, UNCHANGED <<versionTable, startupVars>>
    PROVE  CatalogueInv'
BY DEF CatalogueInv, Windows, SeededSoFar, Made, versionTable, startupVars, policy

\* A row whose policy is seeded is either the policy's own or made from a draft.
LEMMA RowsOf ==
    ASSUME TypeInv, Windows, NEW p \in Seeded, NEW v \in rows, PolicyOf(v) = p
    PROVE  \/ v = p /\ v \notin Drafts
           \/ v \in Made /\ v \notin Policies /\ Target[v] = p
<1>1. v \in Seeded \cup Drafts /\ Seeded \subseteq Policies /\ Policies \cap Drafts = {}
  BY IdsAssumption DEF Windows
<1> QED
  BY <1>1 DEF PolicyOf, Made

LEMMA ReflectKeepsCatalogue ==
    ASSUME TypeInv, CatalogueInv, NEW d \in present, NEW x \in Decisions, ReflectApproval(d, x)
    PROVE  CatalogueInv'
<1>0. PICK u \in activeFor(Target[d], 1) :
        /\ from[u] = NULL /\ rows' = rows \cup {d} /\ from' = [from EXCEPT ![d] = 1]
        /\ until' = [until EXCEPT ![u] = 1]
  BY DEF ReflectApproval
<1>1. d \in Drafts /\ Target[d] \in Policies /\ d \notin Policies
      /\ Seeded \subseteq Policies /\ Policies \cap Drafts = {}
  BY Parameters, IdsAssumption DEF present
<1>2. u \in rows /\ PolicyOf(u) = Target[d] /\ (until[u] = NULL \/ 1 < until[u])
  BY DEF activeFor, active
<1>3. u \in Seeded
  <2>1. u \in Seeded \cup Drafts
    BY <1>2 DEF CatalogueInv, Windows
  <2>2. u \in Drafts => FALSE
    BY <1>0, <1>2 DEF CatalogueInv, Windows, Made, NULL
  <2> QED
    BY <2>1, <2>2
<1>4. u = Target[d] /\ until[u] = NULL
  <2>1. u = Target[d]
    BY <1>1, <1>2, <1>3 DEF PolicyOf
  <2>2. until[u] = NULL \/ until[u] = 1
    BY <1>2, <1>3 DEF CatalogueInv, Windows
  <2> QED
    BY <1>2, <2>1, <2>2
<1>5. \A e \in Made : Target[e] # Target[d]
  BY <1>4 DEF CatalogueInv, Windows, NULL
<1>6. d \notin rows
  BY <1>1, <1>5 DEF Made
<1>7. Made' = Made \cup {d}
  BY <1>0, <1>1 DEF Made
<1>8. /\ \A v \in VersionId : from'[v] = IF v = d THEN 1 ELSE from[v]
      /\ \A v \in VersionId : until'[v] = IF v = u THEN 1 ELSE until[v]
  BY <1>0, <1>1, <1>3 DEF TypeInv, TypeOK, StoreTypeOK, VersionId
<1>9. Windows'
  <2>1. rows' \subseteq Seeded \cup Drafts
    BY <1>0, <1>1 DEF CatalogueInv, Windows
  <2>2. \A v \in VersionId : v \notin rows' => from'[v] = NULL /\ until'[v] = NULL
    BY <1>0, <1>2, <1>8 DEF CatalogueInv, Windows
  <2>3. \A p \in Seeded : from'[p] = NULL
    BY <1>1, <1>8 DEF CatalogueInv, Windows, VersionId
  <2>4. \A p \in rows' \cap Seeded :
          until'[p] = NULL \/ (until'[p] = 1 /\ \E e \in Made' : Target[e] = p)
    BY <1>0, <1>1, <1>4, <1>7, <1>8 DEF CatalogueInv, Windows, VersionId
  <2>5. \A e \in Made' :
          /\ from'[e] = 1 /\ until'[e] = NULL
          /\ Target[e] \in rows' \cap Seeded /\ until'[Target[e]] = 1
    <3> SUFFICES ASSUME NEW e \in Made'
                 PROVE  /\ from'[e] = 1 /\ until'[e] = NULL
                        /\ Target[e] \in rows' \cap Seeded /\ until'[Target[e]] = 1
      OBVIOUS
    <3>1. CASE e = d
      BY <3>1, <1>0, <1>1, <1>2, <1>3, <1>4, <1>6, <1>8 DEF CatalogueInv, Windows, VersionId
    <3>2. CASE e # d
      <4>1. e \in Made /\ e \in Drafts /\ e # u /\ Target[e] \in Policies
        BY <3>2, <1>1, <1>3, <1>7, Parameters DEF Made
      <4> QED
        BY <4>1, <3>2, <1>0, <1>8 DEF CatalogueInv, Windows, VersionId
    <3> QED
      BY <3>1, <3>2
  <2>6. \A e, f \in Made' : Target[e] = Target[f] => e = f
    BY <1>5, <1>7 DEF CatalogueInv, Windows
  <2> QED
    BY <2>1, <2>2, <2>3, <2>4, <2>5, <2>6 DEF Windows
<1>10. SeededSoFar'
  <2>1. UNCHANGED startupVars /\ rows \subseteq rows'
    BY <1>0 DEF ReflectApproval
  <2> QED
    BY <2>1 DEF CatalogueInv, SeededSoFar, startupVars, policy
<1> QED
  BY <1>9, <1>10 DEF CatalogueInv

LEMMA SeedPolicyKeepsCatalogue ==
    ASSUME TypeInv, CatalogueInv, Seed, SeedPolicy PROVE CatalogueInv'
<1>0. UNCHANGED <<from, until, prior>> /\ phase = "policies" /\ at <= Len(SeedOrder)
  BY DEF SeedPolicy
<1>1. policy \in Seeded /\ at \in Nat
  BY <1>0, PlaceIs
<1>2. rows' = rows \cup {policy} /\ policy \in rows'
  BY DEF SeedPolicy
<1>3. /\ phase' \in {"policies", "policy_audit"} /\ at' \in {at, at + 1}
      /\ phase' = "policy_audit" => at' = at
  BY DEF SeedPolicy, Step
<1>4. policy \notin Drafts /\ Made' = Made
  BY <1>1, <1>2, IdsAssumption DEF Made
<1>5. policy \notin rows => until[policy] = NULL
  BY <1>1, Parameters DEF CatalogueInv, Windows, VersionId
<1>6. Windows'
  BY <1>0, <1>1, <1>2, <1>4, <1>5 DEF CatalogueInv, Windows
<1>7. SeededSoFar'
  <2>1. \A i \in DOMAIN SeedOrder : i < at' => SeedOrder[i] \in rows'
    <3> SUFFICES ASSUME NEW i \in DOMAIN SeedOrder, i < at' PROVE SeedOrder[i] \in rows'
      OBVIOUS
    <3>1. i \in Nat
      BY Lists
    <3>2. i < at \/ i = at
      BY <1>1, <1>3, <3>1
    <3>3. i < at => SeedOrder[i] \in rows
      BY <1>0 DEF CatalogueInv, SeededSoFar
    <3> QED
      BY <1>2, <3>2, <3>3 DEF policy
  <2>2. phase' = "policy_audit" => policy' \in rows'
    BY <1>2, <1>3 DEF policy
  <2> QED
    BY <1>3, <2>1, <2>2 DEF SeededSoFar
<1> QED
  BY <1>6, <1>7 DEF CatalogueInv

LEMMA StartupKeepsCatalogue ==
    ASSUME TypeInv, CatalogueInv, Seed, ~SeedPolicy PROVE CatalogueInv'
<1>1. UNCHANGED versionTable
  BY DEF Seed, Seeding, SeedPolicyAudit, SeedSources, SeedDraft, InsertDemoDraft, SeedSpan,
         SeedDraftAudit, Serve, storeVars
<1>2. Windows'
  BY <1>1 DEF CatalogueInv, Windows, Made, versionTable
<1>3. rows' = rows
  BY <1>1 DEF versionTable
<1>4. SeededSoFar'
  <2>1. CASE SeedPolicyAudit
    <3>1. phase = "policy_audit" /\ phase' = "policies" /\ at' = at + 1 /\ at \in Nat
      BY <2>1, PlaceIs DEF SeedPolicyAudit, Step
    <3>2. \A i \in DOMAIN SeedOrder : i < at' => SeedOrder[i] \in rows'
      <4> SUFFICES ASSUME NEW i \in DOMAIN SeedOrder, i < at' PROVE SeedOrder[i] \in rows'
        OBVIOUS
      <4>1. i \in Nat
        BY Lists
      <4>2. i < at \/ i = at
        BY <3>1, <4>1
      <4>3. i < at => SeedOrder[i] \in rows
        BY <3>1 DEF CatalogueInv, SeededSoFar
      <4>4. policy \in rows
        BY <3>1 DEF CatalogueInv, SeededSoFar
      <4> QED
        BY <1>3, <4>2, <4>3, <4>4 DEF policy
    <3> QED
      BY <3>1, <3>2 DEF SeededSoFar
  <2>2. CASE SeedSources
    <3>1. phase = "policies" /\ phase' = "drafts" /\ at > Len(SeedOrder) /\ at \in Nat
      BY <2>2, PlaceIs DEF SeedSources, Step
    <3>2. \A i \in DOMAIN SeedOrder : i < at
      BY <3>1, Lists
    <3>3. Seeded = {SeedOrder[i] : i \in DOMAIN SeedOrder}
      BY DocumentsAssumption
    <3> QED
      BY <1>3, <3>1, <3>2, <3>3 DEF CatalogueInv, SeededSoFar
  <2>3. CASE SeedDraft \/ InsertDemoDraft \/ SeedSpan \/ SeedDraftAudit \/ Serve
    BY <1>3, <2>3 DEF CatalogueInv, SeededSoFar, SeedDraft, InsertDemoDraft, SeedSpan,
                      SeedDraftAudit, Serve, Step
  <2> QED
    BY <2>1, <2>2, <2>3 DEF Seed, Seeding
<1> QED
  BY <1>2, <1>4 DEF CatalogueInv

LEMMA NextCatalogue == TypeInv /\ CatalogueInv /\ [Next]_vars => CatalogueInv'
<1> SUFFICES ASSUME TypeInv, CatalogueInv, [Next]_vars PROVE CatalogueInv'
  OBVIOUS
<1>1. CASE Seed
  BY <1>1, SeedPolicyKeepsCatalogue, StartupKeepsCatalogue
<1>2. ASSUME NEW d \in present, NEW x \in Decisions,
             Claim(d, x) \/ ReflectApproval(d, x) \/ ReflectRejection(d, x) \/ GiveBack(d, x)
      PROVE  CatalogueInv'
  BY <1>2, CatalogueStays, ReflectKeepsCatalogue DEF Claim, ReflectRejection, GiveBack
<1>3. CASE Boot \/ GoDown
  <2>1. UNCHANGED versionTable /\ ((phase' = "policies" /\ at' = 1) \/ phase' = "down")
    BY <1>3 DEF Boot, GoDown, Step, storeVars
  <2>2. \A i \in DOMAIN SeedOrder : ~(i < 1)
    BY Lists
  <2> QED
    BY <2>1, <2>2 DEF CatalogueInv, Windows, SeededSoFar, Made, versionTable
<1>4. ASSUME NEW b \in Batches, StartBatch(b) \/ BatchStep(b) \/ SpanRefused(b) \/ BatchStops(b)
      PROVE  CatalogueInv'
  <2>1. UNCHANGED <<versionTable, startupVars>>
    BY <1>4 DEF StartBatch, BatchStep, SpanRefused, BatchStops, LoadSource, LoadAudit, ReadSource,
                CallModel, NumberDraft, InsertDraft, InsertFailed, Insert, InsertSpan, MarkFailed,
                NumberEvent, LogExtraction, OthersUnchanged, storeVars
  <2> QED
    BY <2>1, CatalogueStays
<1>5. CASE UNCHANGED vars
  BY <1>5, CatalogueStays DEF vars, storeVars
<1> QED
  BY <1>1, <1>2, <1>3, <1>4, <1>5 DEF Next, Quiet, Review

LEMMA InitCatalogue == Init => CatalogueInv
<1> SUFFICES ASSUME Init PROVE CatalogueInv
  OBVIOUS
<1>1. EmptyStore /\ phase = "down"
  BY DEF Init, StartupInit
<1>2. Made = {}
  BY <1>1 DEF EmptyStore, Made
<1>3. \A v \in VersionId : from[v] = NULL /\ until[v] = NULL
  BY <1>1 DEF EmptyStore
<1>4. Windows
  BY <1>1, <1>2, <1>3, Parameters DEF Windows, EmptyStore, VersionId
<1> QED
  BY <1>1, <1>4 DEF CatalogueInv, SeededSoFar

\* Of the two versions a policy can have, one is in force at each instant.
LEMMA OneInForce ==
    ASSUME TypeInv, CatalogueInv, NEW p \in Seeded, p \in rows, NEW t \in 0..2
    PROVE  Cardinality(activeFor(p, t)) = 1
<1>1. from[p] = NULL /\ p \notin Drafts /\ PolicyOf(p) = p /\ p \in Policies /\ t \in Nat
  BY Parameters, IdsAssumption DEF CatalogueInv, Windows, PolicyOf
<1>2. \A v \in activeFor(p, t) :
        /\ v \in rows /\ from[v] <= t /\ (until[v] = NULL \/ t < until[v])
        /\ v = p \/ (v \in Made /\ Target[v] = p)
  <2>1. \A v \in activeFor(p, t) :
          /\ v \in rows /\ from[v] <= t /\ (until[v] = NULL \/ t < until[v])
          /\ PolicyOf(v) = p
    BY DEF activeFor, active
  <2>2. \A v \in activeFor(p, t) : v = p \/ (v \in Made /\ Target[v] = p)
    <3> SUFFICES ASSUME NEW v \in activeFor(p, t) PROVE v = p \/ (v \in Made /\ Target[v] = p)
      OBVIOUS
    <3>1. Windows /\ v \in rows /\ PolicyOf(v) = p
      BY <2>1 DEF CatalogueInv
    <3> QED
      BY <3>1, RowsOf
  <2> QED
    BY <2>1, <2>2
<1>3. CASE t = 0 \/ until[p] = NULL
  <2>1. \A v \in Made : Target[v] = p => from[v] = 1 /\ until[p] = 1
    BY DEF CatalogueInv, Windows
  <2>2. p \in activeFor(p, t)
    <3>1. until[p] = NULL \/ until[p] = 1
      BY DEF CatalogueInv, Windows
    <3> QED
      BY <1>1, <1>3, <3>1 DEF activeFor, active, NULL
  <2>3. activeFor(p, t) = {p}
    <3>1. \A v \in activeFor(p, t) : v = p
      BY <1>2, <1>3, <2>1 DEF NULL
    <3> QED
      BY <2>2, <3>1
  <2> QED
    BY <2>3, FS_Singleton
<1>4. CASE t # 0 /\ until[p] # NULL
  <2>1. PICK d \in Made : Target[d] = p /\ until[p] = 1
    BY <1>4 DEF CatalogueInv, Windows
  <2>2. d \in rows /\ from[d] = 1 /\ until[d] = NULL /\ d \in Drafts
    BY DEF CatalogueInv, Windows, Made
  <2>3. d \in activeFor(p, t)
    <3>1. PolicyOf(d) = p
      BY <2>1, <2>2, IdsAssumption DEF PolicyOf
    <3> QED
      BY <1>4, <2>2, <3>1 DEF activeFor, active
  <2>4. activeFor(p, t) = {d}
    <3>1. \A v \in activeFor(p, t) : v # p
      BY <1>1, <1>2, <1>4, <2>1 DEF NULL
    <3>2. \A v \in Made : Target[v] = p => v = d
      BY <2>1 DEF CatalogueInv, Windows
    <3> QED
      BY <1>2, <2>3, <3>1, <3>2
  <2> QED
    BY <2>4, FS_Singleton
<1> QED
  BY <1>3, <1>4

(***************************************************************************)
(* Whatever start-ups died on the way and whatever batches ran before it,  *)
(* the server takes requests with exactly one version of every seeded      *)
(* policy in force at every instant (store/seed.py, the loop of            *)
(* seed_policies that skips what it finds, and supersede).                 *)
(***************************************************************************)
THEOREM CatalogueIsComplete == Spec => []ServesACompleteCatalogue
<1>1. TypeInv /\ CatalogueInv => ServesACompleteCatalogue
  <2> SUFFICES ASSUME TypeInv, CatalogueInv, phase = "up", NEW p \in Seeded, NEW t \in 0..2
               PROVE  Cardinality(activeFor(p, t)) = 1
    BY DEF ServesACompleteCatalogue
  <2>1. p \in rows
    BY DEF CatalogueInv, SeededSoFar
  <2> QED
    BY <2>1, OneInForce
<1> QED
  BY <1>1, InitTypes, NextTypes, InitCatalogue, NextCatalogue, PTL DEF Spec

-----------------------------------------------------------------------------
(* Decisions *)

\* A step that leaves the decisions alone, and the statuses of the drafts that are there.
LEMMA DecisionsStay ==
    ASSUME TypeInv, DecisionInv, UNCHANGED audited, deciding' \subseteq deciding, rows \subseteq rows',
           faults' = 0 => faults = 0,
           faults' = 0 => \A d \in present : draftStatus'[d] = draftStatus[d],
           faults' = 0 => \A b \in Batches : job'[b].stage # "mark"
    PROVE  DecisionInv'
<1> SUFFICES ASSUME faults' = 0
             PROVE  /\ \A d \in Drafts, x \in Decisions :
                        <<d, x>> \in deciding' => draftStatus'[d] = x /\ Unaudited(d)'
                    /\ \A d \in Drafts, x \in Decisions : audited'[d][x] > 0 =>
                        /\ draftStatus'[d] = x
                        /\ audited'[d][x] = 1
                        /\ x = "approved" => d \in rows'
  BY DEF DecisionInv
<1>1. faults = 0
  OBVIOUS
<1>2. \A d \in Drafts, x \in Decisions : draftStatus[d] = x => d \in present
  BY DEF present, Decisions
<1>3. \A d \in Drafts : Unaudited(d)' <=> Unaudited(d)
  BY DEF Unaudited
<1> QED
  BY <1>1, <1>2, <1>3 DEF DecisionInv

LEMMA BatchKeepsDecisions ==
    ASSUME TypeInv, DecisionInv, NEW b \in Batches,
           StartBatch(b) \/ BatchStep(b) \/ SpanRefused(b) \/ BatchStops(b)
    PROVE  DecisionInv'
<1>1. CASE SpanRefused(b)
  <2>1. faults' # 0
    BY <1>1 DEF SpanRefused, TypeInv, TypeOK
  <2> QED
    BY <2>1 DEF DecisionInv
<1>2. CASE MarkFailed(b)
  <2>1. faults' = faults /\ faults # 0
    BY <1>2 DEF MarkFailed, OthersUnchanged, mishaps, DecisionInv
  <2> QED
    BY <2>1 DEF DecisionInv
<1>3. CASE ~SpanRefused(b) /\ ~MarkFailed(b)
  <2>1. UNCHANGED <<versionTable, audited, deciding, faults>>
    BY <1>3 DEF StartBatch, BatchStep, LoadSource, LoadAudit, ReadSource, CallModel, NumberDraft,
                InsertDraft, InsertFailed, Insert, InsertSpan, NumberEvent, LogExtraction,
                BatchStops, OthersUnchanged, reviewVars, mishaps, storeVars
  <2>2. \A c \in Batches : job'[c].stage = "mark" => job[c].stage = "mark"
    BY <1>3, NobodyIsMarked
  <2>3. \A d \in present : draftStatus'[d] = draftStatus[d]
    <3>1. CASE InsertDraft(b) \/ InsertFailed(b)
      <4> DEFINE n == job[b].draft
      <4>1. n \in Drafts
        BY <3>1, JobIs DEF InsertDraft, InsertFailed, Insert, BatchPlace
      <4>2. \/ UNCHANGED draftStatus
            \/ CanAddDraft(n) /\ \E s \in {"pending", "extraction_failed"} : add_draft(n, s)
        BY <3>1 DEF InsertDraft, InsertFailed, Insert
      <4> QED
        BY <4>1, <4>2, AddDraft DEF present
    <3>2. CASE ~InsertDraft(b) /\ ~InsertFailed(b)
      BY <1>3, <3>2 DEF StartBatch, BatchStep, LoadSource, LoadAudit, ReadSource, CallModel,
                NumberDraft, InsertSpan, NumberEvent, LogExtraction, BatchStops, storeVars
    <3> QED
      BY <3>1, <3>2
  <2> QED
    BY <2>1, <2>2, <2>3, DecisionsStay DEF versionTable, DecisionInv
<1> QED
  BY <1>1, <1>2, <1>3

LEMMA ReviewKeepsDecisions ==
    ASSUME TypeInv, DecisionInv, NEW d \in present, NEW x \in Decisions,
           Claim(d, x) \/ ReflectApproval(d, x) \/ ReflectRejection(d, x) \/ GiveBack(d, x)
    PROVE  DecisionInv'
<1> SUFFICES ASSUME faults' = 0 PROVE DecisionInv'
  BY DEF DecisionInv
<1>0. faults = 0 /\ job' = job /\ d \in Drafts
      /\ \A b \in Batches : job'[b].stage # "mark"
  <2>1. UNCHANGED <<faults, job>>
    BY DEF Claim, ReflectApproval, ReflectRejection, GiveBack, batchVars, mishaps
  <2> QED
    BY <2>1, Parameters DEF DecisionInv, present
<1>1. /\ \A e \in Drafts, y \in Decisions :
          <<e, y>> \in deciding => draftStatus[e] = y /\ Unaudited(e)
      /\ \A e \in Drafts, y \in Decisions : audited[e][y] > 0 =>
          draftStatus[e] = y /\ audited[e][y] = 1 /\ (y = "approved" => e \in rows)
  BY <1>0 DEF DecisionInv
<1>2. CASE Claim(d, x)
  <2>1. /\ draftStatus[d] = "pending" /\ set_status(d, x) /\ deciding' = deciding \cup {<<d, x>>}
        /\ UNCHANGED <<rows, audited>>
    BY <1>2 DEF Claim, claim_pending, set_status, versionTable
  <2>2. draftStatus'[d] = x /\ \A e \in Drafts : e # d => draftStatus'[e] = draftStatus[e]
    BY <2>1, SetStatus DEF DraftStatus, Decisions
  <2>3. Unaudited(d) /\ \A y \in Decisions : <<d, y>> \notin deciding
    <3>1. \A y \in Decisions : draftStatus[d] # y
      BY <2>1 DEF Decisions
    <3>2. \A y \in Decisions : audited[d][y] \in Nat
      BY <1>0 DEF TypeInv, TypeOK, StoreTypeOK
    <3> QED
      BY <1>0, <1>1, <3>1, <3>2 DEF Unaudited
  <2>4. \A e \in Drafts, y \in Decisions :
          <<e, y>> \in deciding' => draftStatus'[e] = y /\ Unaudited(e)'
    BY <1>1, <2>1, <2>2, <2>3 DEF Unaudited
  <2>5. \A e \in Drafts, y \in Decisions : audited'[e][y] > 0 =>
          draftStatus'[e] = y /\ audited'[e][y] = 1 /\ (y = "approved" => e \in rows')
    BY <1>1, <2>1, <2>2, <2>3 DEF Unaudited
  <2> QED
    BY <1>0, <2>4, <2>5 DEF DecisionInv
<1>3. CASE ReflectApproval(d, x) \/ ReflectRejection(d, x)
  <2>1. /\ <<d, x>> \in deciding /\ deciding' = deciding \ {<<d, x>>}
        /\ draftStatus' = draftStatus
        /\ rows \subseteq rows' /\ (x = "approved" => d \in rows')
    BY <1>3 DEF ReflectApproval, ReflectRejection, versionTable
  <2>2. draftStatus[d] = x /\ Unaudited(d) /\ \A y \in Decisions : <<d, y>> \in deciding => y = x
    BY <1>0, <1>1, <2>1
  <2>3. /\ audited'[d][x] = audited[d][x] + 1
        /\ \A e \in Drafts, y \in Decisions : e # d \/ y # x => audited'[e][y] = audited[e][y]
    BY <1>3, ReflectedIs
  <2>4. \A e \in Drafts, y \in Decisions :
          <<e, y>> \in deciding' => draftStatus'[e] = y /\ Unaudited(e)'
    BY <1>1, <2>1, <2>2, <2>3 DEF Unaudited
  <2>5. audited'[d][x] = 1 /\ \A y \in Decisions : y # x => audited'[d][y] = 0
    BY <1>0, <2>2, <2>3 DEF Unaudited
  <2>6. \A e \in Drafts, y \in Decisions : audited'[e][y] > 0 =>
          draftStatus'[e] = y /\ audited'[e][y] = 1 /\ (y = "approved" => e \in rows')
    <3> SUFFICES ASSUME NEW e \in Drafts, NEW y \in Decisions, audited'[e][y] > 0
                 PROVE  draftStatus'[e] = y /\ audited'[e][y] = 1 /\ (y = "approved" => e \in rows')
      OBVIOUS
    <3>1. CASE e = d
      <4>1. y = x
        BY <2>5, <3>1
      <4> QED
        BY <2>1, <2>2, <2>5, <3>1, <4>1
    <3>2. CASE e # d
      BY <1>1, <2>1, <2>3, <3>2
    <3> QED
      BY <3>1, <3>2
  <2> QED
    BY <1>0, <2>4, <2>6 DEF DecisionInv
<1>4. CASE GiveBack(d, x)
  <2>1. /\ <<d, x>> \in deciding /\ deciding' = deciding \ {<<d, x>>}
        /\ set_status(d, "pending") /\ UNCHANGED <<rows, audited>>
    BY <1>4 DEF GiveBack, versionTable
  <2>2. Unaudited(d) /\ \A y \in Decisions : <<d, y>> \in deciding => y = x
    BY <1>0, <1>1, <2>1
  <2>3. draftStatus'[d] = "pending" /\ \A e \in Drafts : e # d => draftStatus'[e] = draftStatus[e]
    BY <2>1, SetStatus DEF DraftStatus
  <2>4. \A e \in Drafts, y \in Decisions :
          <<e, y>> \in deciding' => draftStatus'[e] = y /\ Unaudited(e)'
    BY <1>1, <2>1, <2>2, <2>3 DEF Unaudited
  <2>5. \A e \in Drafts, y \in Decisions : audited'[e][y] > 0 =>
          draftStatus'[e] = y /\ audited'[e][y] = 1 /\ (y = "approved" => e \in rows')
    BY <1>1, <2>1, <2>2, <2>3 DEF Unaudited
  <2> QED
    BY <1>0, <2>4, <2>5 DEF DecisionInv
<1> QED
  BY <1>2, <1>3, <1>4

\* What the start-up leaves alone, and the one draft it may add.
LEMMA SeedIs ==
    ASSUME TypeInv, Seed
    PROVE  /\ UNCHANGED <<from, until, prior, approvals, audited, job, fresh, alone, deciding, decided,
                          faults, crashes>>
           /\ rows \subseteq rows'
           /\ draftStatus' = draftStatus \/ InsertDemoDraft
           /\ \A d \in present : draftStatus'[d] = draftStatus[d]
<1>1. UNCHANGED <<from, until, prior, approvals, audited, job, fresh, alone, deciding, decided,
                  faults, crashes>>
  BY DEF Seed, Seeding, SeedPolicy, SeedPolicyAudit, SeedSources, SeedDraft, InsertDemoDraft,
         SeedSpan, SeedDraftAudit, Serve, storeVars, versionTable, batchVars, reviewVars, mishaps
<1>2. rows \subseteq rows' /\ (draftStatus' = draftStatus \/ InsertDemoDraft)
  BY DEF Seed, Seeding, SeedPolicy, SeedPolicyAudit, SeedSources, SeedDraft, InsertDemoDraft,
         SeedSpan, SeedDraftAudit, Serve, storeVars, versionTable
<1>3. InsertDemoDraft => \A d \in present : draftStatus'[d] = draftStatus[d]
  <2> SUFFICES ASSUME InsertDemoDraft PROVE \A d \in present : draftStatus'[d] = draftStatus[d]
    OBVIOUS
  <2>1. demo.id \in Drafts /\ demo.status \in {"pending", "extraction_failed"}
    BY PlaceIs DEF InsertDemoDraft
  <2>2. UNCHANGED draftStatus \/ (CanAddDraft(demo.id) /\ add_draft(demo.id, demo.status))
    BY DEF InsertDemoDraft
  <2> QED
    BY <2>1, <2>2, AddDraft DEF present
<1> QED
  BY <1>1, <1>2, <1>3

LEMMA NextDecision == TypeInv /\ DecisionInv /\ [Next]_vars => DecisionInv'
<1> SUFFICES ASSUME TypeInv, DecisionInv, [Next]_vars PROVE DecisionInv'
  OBVIOUS
<1>1. CASE Seed
  BY <1>1, SeedIs, DecisionsStay DEF DecisionInv
<1>2. CASE Review
  BY <1>2, ReviewKeepsDecisions DEF Review
<1>3. CASE Boot \/ GoDown \/ UNCHANGED vars
  <2>1. UNCHANGED <<rows, draftStatus, audited, job, faults>> /\ deciding' \subseteq deciding
    BY <1>3 DEF Boot, GoDown, vars, storeVars, versionTable, batchVars, reviewVars, mishaps
  <2> QED
    BY <2>1, DecisionsStay DEF DecisionInv
<1>4. CASE \E b \in Batches : StartBatch(b) \/ BatchStep(b) \/ SpanRefused(b) \/ BatchStops(b)
  BY <1>4, BatchKeepsDecisions
<1> QED
  BY <1>1, <1>2, <1>3, <1>4 DEF Next, Quiet

LEMMA InitDecision == Init => DecisionInv
<1> SUFFICES ASSUME Init PROVE DecisionInv
  OBVIOUS
<1>1. deciding = {} /\ \A b \in Batches : job[b].stage = "idle"
  BY DEF Init, Idle
<1>2. \A d \in Drafts, x \in Decisions : audited[d][x] = 0
  BY DEF Init, StartupInit, EmptyStore
<1> QED
  BY <1>1, <1>2 DEF DecisionInv

(***************************************************************************)
(* As long as the store refuses nothing, a decision that was audited was   *)
(* audited once, its draft keeps the status, an approved draft its         *)
(* version, through every batch and every restart (claim_pending,          *)
(* rule_drafts.add, the loop of seed_demo_drafts).                         *)
(***************************************************************************)
THEOREM DecisionsSurvive == Spec => []DecisionsSurviveIngestion
<1>1. TypeInv /\ DecisionInv => DecisionsSurviveIngestion
  <2> SUFFICES ASSUME TypeInv, DecisionInv, faults = 0,
                      NEW d \in Drafts, NEW x \in Decisions, audited[d][x] > 0
               PROVE  /\ audited[d]["approved"] + audited[d]["rejected"] = 1
                      /\ draftStatus[d] = x
                      /\ x = "approved" => d \in rows
    BY DEF DecisionsSurviveIngestion
  <2>1. draftStatus[d] = x /\ audited[d][x] = 1 /\ (x = "approved" => d \in rows)
    BY DEF DecisionInv
  <2>2. \A y \in Decisions : y # x => audited[d][y] = 0
    <3>1. \A y \in Decisions : audited[d][y] \in Nat
      BY DEF TypeInv, TypeOK, StoreTypeOK
    <3> QED
      BY <2>1, <3>1 DEF DecisionInv
  <2> QED
    BY <2>1, <2>2 DEF Decisions
<1> QED
  BY <1>1, InitTypes, NextTypes, InitDecision, NextDecision, PTL DEF Spec

-----------------------------------------------------------------------------
(* Spans *)

InQueue(d) == draftStatus[d] \in {"pending"} \cup Decisions

\* It is enough that no draft comes to wait without its spans.
LEMMA GroundStays ==
    ASSUME GroundInv, faults = 0, crashes = 0,
           \A d \in Drafts :
               \/ spans'[d] = spans[d] /\ (InQueue(d)' => InQueue(d)) /\ (Storing(d) => Storing(d)')
               \/ InQueue(d)' /\ ~Storing(d)' => spans'[d] = NeededSpans
    PROVE  GroundInv'
BY DEF GroundInv, InQueue

LEMMA SpansAreNumbers ==
    ASSUME TypeInv, NEW d \in Drafts PROVE spans[d] \in Nat /\ NeededSpans \in Nat
<1>1. NeededSpans \in Nat
  BY DocumentsAssumption
<1> QED
  BY <1>1 DEF TypeInv, TypeOK, StartupTypeOK

LEMMA BatchKeepsGround ==
    ASSUME TypeInv, DecisionInv, GroundInv, NEW b \in Batches,
           StartBatch(b) \/ BatchStep(b) \/ SpanRefused(b) \/ BatchStops(b)
    PROVE  GroundInv'
<1> SUFFICES ASSUME faults' = 0, crashes' = 0 PROVE GroundInv'
  BY DEF GroundInv
<1>0. /\ ~SpanRefused(b) /\ ~BatchStops(b) /\ faults = 0 /\ crashes = 0
      /\ UNCHANGED startupVars
  <2>1. faults \in Nat /\ crashes \in Nat
    BY DEF TypeInv, TypeOK
  <2>2. ~SpanRefused(b) /\ ~BatchStops(b)
    BY <2>1 DEF SpanRefused, BatchStops
  <2>3. UNCHANGED <<startupVars, mishaps>>
    BY <2>2 DEF StartBatch, BatchStep, LoadSource, LoadAudit, ReadSource, CallModel, NumberDraft,
         InsertDraft, InsertFailed, Insert, InsertSpan, MarkFailed, NumberEvent, LogExtraction,
         OthersUnchanged
  <2> QED
    BY <2>2, <2>3 DEF mishaps
<1>1. \A c \in Batches : job[c].stage # "mark"
  BY <1>0 DEF DecisionInv
<1>2. ASSUME UNCHANGED <<draftStatus, spans>>, job[b].stage \notin {"span", "mark"},
             \A c \in Batches : c # b =>
                job'[c].stage = job[c].stage /\ job'[c].draft = job[c].draft
      PROVE  GroundInv'
  <2>1. \A d \in Drafts : Storing(d) => Storing(d)'
    BY <1>0, <1>2 DEF Storing, startupVars, demo
  <2> QED
    BY <1>0, <1>2, <2>1, GroundStays DEF InQueue
<1>3. CASE StartBatch(b) \/ LoadSource(b) \/ LoadAudit(b) \/ ReadSource(b)
  BY <1>2, <1>3, StartBatchIs, AbortIs, MoveIs, LoadAuditIs
  DEF Others, StartBatch, LoadSource, LoadAudit, ReadSource, Stages, storeVars, documents
<1>4. CASE CallModel(b) \/ NumberDraft(b) \/ NumberEvent(b)
  BY <1>2, <1>4, CallModelIs, NumberDraftIs, NumberEventIs
  DEF Others, CallModel, NumberDraft, NumberEvent, storeVars, documents
<1>5. CASE MarkFailed(b)
  BY <1>1, <1>5 DEF MarkFailed
<1>6. CASE LogExtraction(b)
  <2>1. \A c \in Batches : c # b => job'[c].stage = job[c].stage /\ job'[c].draft = job[c].draft
    <3>1. CASE job[b].taken
      BY <1>6, <3>1, AbortIs DEF LogExtraction, Others
    <3>2. CASE ~job[b].taken
      BY <1>6, <3>2, LogsOfOthers
    <3> QED
      BY <3>1, <3>2
  <2> QED
    BY <1>2, <1>6, <2>1 DEF LogExtraction, storeVars
<1>7. CASE InsertDraft(b) \/ InsertFailed(b)
  <2>0. UNCHANGED spans /\ job[b].stage = "insert" /\ job[b].draft \in Drafts
    BY <1>7, JobIs DEF InsertDraft, InsertFailed, Insert, BatchPlace
  <2>1. PICK n \in Drafts : n = job[b].draft
    BY <2>0
  <2>2. CASE ~CanAddDraft(n)
    <3>1. Abort(b) /\ UNCHANGED draftStatus
      BY <1>7, <2>1, <2>2 DEF InsertDraft, InsertFailed, Insert
    <3> QED
      BY <1>2, <2>0, <3>1, AbortIs DEF Others
  <2>3. CASE CanAddDraft(n)
    <3>1. \/ add_draft(n, "pending") /\ Move(b, "span")
          \/ add_draft(n, "extraction_failed") /\ Move(b, "log_number")
      BY <1>7, <2>1, <2>3 DEF InsertDraft, InsertFailed, Insert
    <3>2. /\ \A e \in Drafts : e # n => draftStatus'[e] = draftStatus[e]
          /\ \/ draftStatus'[n] = "pending" /\ Move(b, "span")
             \/ draftStatus'[n] = "extraction_failed"
      BY <2>3, <3>1, AddDraft
    <3>3. Others(b)
      BY <3>1, MoveIs DEF Stages
    <3>4. \A d \in Drafts : Storing(d) => Storing(d)'
      BY <1>0, <2>0, <3>3 DEF Storing, startupVars, demo, Others
    <3>5. InQueue(n)' => Storing(n)'
      <4>1. Move(b, "span") => job'[b].stage = "span" /\ job'[b].draft = n
        BY <2>1, MoveIs DEF Stages
      <4> QED
        BY <3>2, <4>1 DEF InQueue, Storing, Decisions
    <3>6. \A d \in Drafts : d # n => (InQueue(d)' => InQueue(d))
      BY <3>2 DEF InQueue
    <3> QED
      BY <1>0, <2>0, <3>4, <3>5, <3>6, GroundStays
  <2> QED
    BY <2>2, <2>3
<1>8. CASE InsertSpan(b)
  <2>0. /\ job[b].stage = "span" /\ job[b].draft \in present /\ job[b].draft \in Drafts
        /\ spans[job[b].draft] < NeededSpans
    BY <1>8, JobIs DEF InsertSpan, BatchPlace, Wrote, TypeInv, TypeOK, OneGiver, present
  <2>2. PICK d \in present : d = job[b].draft /\ d \in Drafts /\ spans[d] < NeededSpans
    BY <2>0
  <2>1. /\ UNCHANGED draftStatus /\ add_span(d)
        /\ Move(b, IF spans[d] + 1 < NeededSpans THEN "span" ELSE "log_number")
    BY <1>8, <2>2 DEF InsertSpan, storeVars
  <2>3. /\ spans'[d] = spans[d] + 1 /\ spans'[d] \in 0..NeededSpans
        /\ \A e \in Drafts : e # d => spans'[e] = spans[e]
    BY <2>1, <2>2, AddSpan
  <2>4. /\ Others(b) /\ job'[b].draft = d
        /\ job'[b].stage = IF spans[d] + 1 < NeededSpans THEN "span" ELSE "log_number"
    BY <2>1, <2>2, MoveIs DEF Stages
  <2>5. \A e \in Drafts : e # d /\ Storing(e) => Storing(e)'
    BY <1>0, <2>2, <2>4 DEF Storing, startupVars, demo, Others
  <2>6. ~Storing(d)' => spans'[d] = NeededSpans
    <3>1. ~Storing(d)' => ~(spans[d] + 1 < NeededSpans)
      BY <2>4 DEF Storing
    <3>2. spans[d] \in Nat /\ NeededSpans \in Nat
      BY <2>2, SpansAreNumbers
    <3> QED
      BY <2>2, <2>3, <3>1, <3>2
  <2>7. \A e \in Drafts : InQueue(e)' => InQueue(e)
    BY <2>1 DEF InQueue
  <2> QED
    BY <1>0, <2>3, <2>5, <2>6, <2>7, GroundStays
<1> QED
  BY <1>0, <1>3, <1>4, <1>5, <1>6, <1>7, <1>8 DEF BatchStep

LEMMA SeedKeepsGround ==
    ASSUME TypeInv, GroundInv, Seed PROVE GroundInv'
<1> SUFFICES ASSUME faults' = 0, crashes' = 0 PROVE GroundInv'
  BY DEF GroundInv
<1>0. job' = job /\ faults = 0 /\ crashes = 0
  BY SeedIs
<1>1. CASE InsertDemoDraft
  <2>0. /\ demo.id \in Drafts /\ demo.status \in {"pending", "extraction_failed"}
        /\ phase = "insert" /\ UNCHANGED spans
    BY <1>1, PlaceIs DEF InsertDemoDraft
  <2>1. PICK n \in Drafts : n = demo.id /\ phase = "insert" /\ UNCHANGED spans
    BY <2>0
  <2>2. CASE ~CanAddDraft(n)
    <3>1. UNCHANGED draftStatus
      BY <1>1, <2>1, <2>2 DEF InsertDemoDraft
    <3>2. \A d \in Drafts : Storing(d) => Storing(d)'
      BY <1>0, <2>1 DEF Storing
    <3> QED
      BY <1>0, <2>1, <3>1, <3>2, GroundStays DEF InQueue
  <2>3. CASE CanAddDraft(n)
    <3>1. /\ add_draft(n, demo.status) /\ at' = at
          /\ phase' = IF demo.status = "pending" THEN "draft_spans" ELSE "draft_audit"
      BY <1>1, <2>1, <2>3 DEF InsertDemoDraft, Step
    <3>2. /\ \A e \in Drafts : e # n => draftStatus'[e] = draftStatus[e]
          /\ draftStatus'[n] = demo.status
      BY <2>0, <2>3, <3>1, AddDraft
    <3>3. \A d \in Drafts : Storing(d) => Storing(d)'
      BY <1>0, <2>1 DEF Storing
    <3>4. InQueue(n)' => Storing(n)'
      BY <2>0, <2>1, <3>1, <3>2 DEF InQueue, Storing, Decisions, demo
    <3>5. \A d \in Drafts : d # n => (InQueue(d)' => InQueue(d))
      BY <3>2 DEF InQueue
    <3> QED
      BY <1>0, <2>1, <3>3, <3>4, <3>5, GroundStays
  <2> QED
    BY <2>2, <2>3
<1>2. CASE SeedSpan
  <2>0. phase = "draft_spans" /\ demo.id \in present /\ demo.id \in Drafts /\ spans[demo.id] < NeededSpans
    BY <1>2 DEF SeedSpan, TypeInv, OneGiver, present
  <2>2. PICK d \in present : d = demo.id /\ d \in Drafts /\ spans[d] < NeededSpans
    BY <2>0
  <2>1. /\ UNCHANGED draftStatus /\ add_span(d) /\ at' = at
        /\ phase' = IF spans[d] + 1 < NeededSpans THEN "draft_spans" ELSE "draft_audit"
    BY <1>2, <2>2 DEF SeedSpan, Step, storeVars
  <2>3. /\ spans'[d] = spans[d] + 1
        /\ \A e \in Drafts : e # d => spans'[e] = spans[e]
    BY <2>1, <2>2, AddSpan
  <2>4. \A e \in Drafts : e # d /\ Storing(e) => Storing(e)'
    BY <1>0, <2>2 DEF Storing
  <2>5. ~Storing(d)' => spans'[d] = NeededSpans
    <3>1. ~Storing(d)' => ~(spans[d] + 1 < NeededSpans)
      BY <2>1, <2>2 DEF Storing, demo
    <3>2. spans[d] \in Nat /\ NeededSpans \in Nat
      BY <2>2, SpansAreNumbers
    <3> QED
      BY <2>2, <2>3, <3>1, <3>2
  <2>6. \A e \in Drafts : InQueue(e)' => InQueue(e)
    BY <2>1 DEF InQueue
  <2> QED
    BY <1>0, <2>3, <2>4, <2>5, <2>6, GroundStays
<1>3. CASE ~InsertDemoDraft /\ ~SeedSpan
  <2>1. UNCHANGED <<draftStatus, spans>> /\ phase # "draft_spans"
    BY <1>3 DEF Seed, Seeding, SeedPolicy, SeedPolicyAudit, SeedSources, SeedDraft,
                SeedDraftAudit, Serve, storeVars, documents
  <2>2. \A d \in Drafts : Storing(d) => Storing(d)'
    BY <1>0, <2>1 DEF Storing
  <2> QED
    BY <1>0, <2>1, <2>2, GroundStays DEF InQueue
<1> QED
  BY <1>1, <1>2, <1>3

LEMMA ReviewKeepsGround ==
    ASSUME TypeInv, DecisionInv, GroundInv, NEW d \in present, NEW x \in Decisions,
           Claim(d, x) \/ ReflectApproval(d, x) \/ ReflectRejection(d, x) \/ GiveBack(d, x)
    PROVE  GroundInv'
<1> SUFFICES ASSUME faults' = 0, crashes' = 0 PROVE GroundInv'
  BY DEF GroundInv
<1>0. UNCHANGED <<job, faults, crashes, spans, phase, at>>
  BY DEF Claim, ReflectApproval, ReflectRejection, GiveBack, batchVars, mishaps, documents, startupVars
<1>1. \A e \in Drafts : Storing(e)' <=> Storing(e)
  BY <1>0 DEF Storing, demo
<1>2. faults = 0 => \A e \in Drafts : InQueue(e)' => InQueue(e)
  <2>1. CASE Claim(d, x)
    <3>1. set_status(d, x) /\ draftStatus[d] = "pending"
      BY <2>1 DEF Claim, claim_pending, set_status
    <3> QED
      BY <3>1, SetStatus DEF InQueue, DraftStatus, Decisions
  <2>2. CASE ReflectApproval(d, x) \/ ReflectRejection(d, x)
    BY <2>2 DEF ReflectApproval, ReflectRejection, InQueue
  <2>3. CASE GiveBack(d, x)
    <3>1. set_status(d, "pending") /\ <<d, x>> \in deciding /\ d \in Drafts
      BY <2>3 DEF GiveBack, present
    <3>2. faults = 0 => draftStatus[d] = x
      BY <3>1 DEF DecisionInv
    <3> QED
      BY <3>1, <3>2, SetStatus DEF InQueue, DraftStatus
  <2> QED
    BY <2>1, <2>2, <2>3
<1> QED
  BY <1>0, <1>1, <1>2, GroundStays

LEMMA NextGround == TypeInv /\ DecisionInv /\ GroundInv /\ [Next]_vars => GroundInv'
<1> SUFFICES ASSUME TypeInv, DecisionInv, GroundInv, [Next]_vars, faults' = 0, crashes' = 0
             PROVE  GroundInv'
  BY DEF GroundInv
<1>1. CASE Boot
  <2>1. UNCHANGED <<job, faults, crashes, spans, draftStatus>> /\ phase = "down"
    BY <1>1 DEF Boot, documents, storeVars, mishaps
  <2>2. \A e \in Drafts : Storing(e) => Storing(e)'
    BY <2>1 DEF Storing
  <2> QED
    BY <2>1, <2>2, GroundStays DEF InQueue
<1>2. CASE GoDown
  <2>1. crashes' # 0
    BY <1>2 DEF GoDown, TypeInv, TypeOK
  <2> QED
    BY <2>1 DEF GroundInv
<1>3. CASE UNCHANGED vars
  <2>1. UNCHANGED <<job, faults, crashes, spans, draftStatus, phase, at>>
    BY <1>3 DEF vars, documents, storeVars, mishaps, batchVars, startupVars
  <2>2. \A e \in Drafts : Storing(e) => Storing(e)'
    BY <2>1 DEF Storing, demo
  <2> QED
    BY <2>1, <2>2, GroundStays DEF InQueue
<1> QED
  BY <1>1, <1>2, <1>3, SeedKeepsGround, ReviewKeepsGround, BatchKeepsGround DEF Next, Quiet, Review

(***************************************************************************)
(* While no store call fails and nothing dies, a draft that waits and that *)
(* nobody is storing has all its spans, whoever wrote it and whatever else *)
(* ran between its first span and its last (_store_success, seed.py).      *)
(***************************************************************************)
THEOREM WaitingIsGrounded == Spec => []WaitingDraftIsGrounded
<1>1. Init => GroundInv
  BY DEF Init, StartupInit, EmptyStore, GroundInv, Decisions
<1>2. GroundInv => WaitingDraftIsGrounded
  BY DEF GroundInv, WaitingDraftIsGrounded
<1> QED
  BY <1>1, <1>2, InitTypes, NextTypes, InitDecision, NextDecision, NextGround, PTL DEF Spec

-----------------------------------------------------------------------------
(* The account of a batch *)

Working(b) == job[b].stage \in {"source", "call", "number", "insert"}
Unwritten(b) == job[b].stage \in {"idle", "load", "load_audit"}

\* A step that writes no draft and tells the trail of none.
Silent == trail \subseteq trail' /\ fresh' = fresh /\ \A d \in Drafts : told(d)' = told(d)

LEMMA SilentSteps ==
    ASSUME fresh' = fresh,
           trail' = trail \/ \E e : trail' = trail \cup {e} /\ e.action # "rule_draft.extract"
    PROVE  Silent
BY DEF Silent, told

\* What the account says of the place b is in.
AccountAt(b) ==
    /\ Unwritten(b) => fresh[b] = {}
    /\ Working(b) => Through(b, job[b].at - 1) /\ job[b].at <= Limit[b]
    /\ Wrote(b) => Through(b, job[b].at) /\ job[b].at <= Limit[b]
    /\ job[b].stage = "done" => Through(b, Limit[b])

ToldOf(b) ==
    \A d \in fresh[b] :
        IF Wrote(b) /\ d = job[b].draft THEN told(d) = {}
        ELSE job[b].stage # "aborted" => \E e \in trail : told(d) = {e}

LEMMA AccountIs == ASSUME NEW b \in Batches PROVE Account(b) <=> AccountAt(b) /\ ToldOf(b)
BY DEF Account, AccountAt, ToldOf, Unwritten, Working

\* A batch whose place does not change keeps its account.
LEMMA AccountStays ==
    ASSUME TypeInv, NEW c \in Batches, Account(c), job'[c].stage = job[c].stage,
           job'[c].at = job[c].at, job'[c].draft = job[c].draft,
           fresh'[c] = fresh[c], trail \subseteq trail', \A d \in fresh[c] : told(d)' = told(d)
    PROVE  Account(c)'
BY DEF Account, Wrote, Through

\* A silent step of b leaves it as far through its targets as it was.
LEMMA SilentAccount ==
    ASSUME TypeInv, AccountInv, Silent, NEW b \in Batches,
           \A c \in Batches : c # b =>
             job'[c].stage = job[c].stage /\ job'[c].at = job[c].at /\ job'[c].draft = job[c].draft,
           \/ Unwritten(b) /\ Unwritten(b)'
           \/ Working(b) /\ Working(b)' /\ job'[b].at = job[b].at
           \/ Wrote(b) /\ Wrote(b)' /\ job'[b].at = job[b].at /\ job'[b].draft = job[b].draft
           \/ Unwritten(b) /\ job'[b].stage = "source" /\ job'[b].at = 1
           \/ job'[b].stage = "aborted"
    PROVE  AccountInv'
<1>0. \A c \in Batches : fresh[c] \subseteq Drafts /\ fresh'[c] = fresh[c]
  BY DEF TypeInv, TypeOK, present, Silent
<1>1. \A c \in Batches : c # b => Account(c)'
  BY <1>0, AccountStays DEF AccountInv, Silent
<1>2. AccountAt(b) /\ ToldOf(b)
  BY AccountIs DEF AccountInv
<1>3. ToldOf(b)'
  <2>1. \A d \in fresh'[b] : told(d)' = told(d) /\ d \in fresh[b]
    BY <1>0 DEF Silent
  <2>2. Wrote(b)' => Wrote(b) /\ job'[b].draft = job[b].draft
    BY DEF Unwritten, Working, Wrote
  <2>3. Wrote(b) => Wrote(b)' \/ job'[b].stage = "aborted"
    BY DEF Unwritten, Working, Wrote
  <2>4. job[b].stage = "aborted" => job'[b].stage = "aborted"
    BY DEF Unwritten, Working, Wrote
  <2> QED
    BY <1>2, <2>1, <2>2, <2>3, <2>4 DEF ToldOf, Silent
<1>4. AccountAt(b)'
  <2>1. CASE Unwritten(b) /\ Unwritten(b)'
    BY <1>0, <1>2, <2>1 DEF AccountAt, Unwritten, Working, Wrote
  <2>2. CASE Working(b) /\ Working(b)' /\ job'[b].at = job[b].at
    BY <1>0, <1>2, <2>2 DEF AccountAt, Unwritten, Working, Wrote, Through
  <2>3. CASE Wrote(b) /\ Wrote(b)' /\ job'[b].at = job[b].at
    BY <1>0, <1>2, <2>3 DEF AccountAt, Unwritten, Working, Wrote, Through
  <2>4. CASE Unwritten(b) /\ job'[b].stage = "source" /\ job'[b].at = 1
    <3>1. fresh'[b] = {} /\ Cardinality({}) = 0
      BY <1>0, <1>2, <2>4, FS_EmptySet DEF AccountAt
    <3>2. \A i \in DOMAIN Targets : ~(i <= 0)
      BY Lists
    <3>3. 1 <= Limit[b]
      <4>1. Limit[b] \in 1..Len(Targets)
        BY BatchAssumption
      <4> QED
        BY <4>1, Lists
    <3>4. Through(b, 0)'
      BY <3>1, <3>2 DEF Through
    <3>5. 1 - 1 = 0
      OBVIOUS
    <3> QED
      BY <2>4, <3>3, <3>4, <3>5 DEF AccountAt, Unwritten, Working, Wrote
  <2>5. CASE job'[b].stage = "aborted"
    BY <2>5 DEF AccountAt, Unwritten, Working, Wrote
  <2> QED
    BY <2>1, <2>2, <2>3, <2>4, <2>5
<1>5. Account(b)'
  BY <1>3, <1>4, AccountIs, PTL
<1>6. \A d \in Drafts : (\A c \in Batches : d \notin fresh'[c]) => told(d)' = {}
  BY <1>0 DEF AccountInv, Silent
<1> QED
  BY <1>1, <1>5, <1>6 DEF AccountInv

\* Which steps of a batch leave the trail and its drafts as they were.
LEMMA QuietSteps ==
    ASSUME TypeInv, NEW b \in Batches,
           StartBatch(b) \/ LoadSource(b) \/ LoadAudit(b) \/ ReadSource(b) \/ CallModel(b)
           \/ NumberDraft(b) \/ InsertSpan(b) \/ MarkFailed(b) \/ NumberEvent(b)
           \/ SpanRefused(b) \/ BatchStops(b)
    PROVE  Silent
<1>1. fresh' = fresh
  BY DEF StartBatch, LoadSource, LoadAudit, ReadSource, CallModel, NumberDraft, InsertSpan,
         MarkFailed, NumberEvent, SpanRefused, BatchStops, OthersUnchanged
<1>2. CASE LoadAudit(b)
  <2>1. StoredEvent(b).action # "rule_draft.extract"
    BY DEF StoredEvent, event
  <2>2. trail' = trail \/ trail' = trail \cup {StoredEvent(b)}
    BY <1>2, LoadAuditIs
  <2> QED
    BY <1>1, <2>1, <2>2, SilentSteps
<1>3. CASE ~LoadAudit(b)
  <2>1. trail' = trail
    BY <1>3 DEF StartBatch, LoadSource, ReadSource, CallModel, NumberDraft, InsertSpan,
         MarkFailed, NumberEvent, SpanRefused, BatchStops, documents
  <2> QED
    BY <1>1, <2>1, SilentSteps
<1> QED
  BY <1>2, <1>3

LEMMA QuietAccount ==
    ASSUME TypeInv, AccountInv, NEW b \in Batches,
           StartBatch(b) \/ LoadSource(b) \/ LoadAudit(b) \/ ReadSource(b) \/ CallModel(b)
           \/ NumberDraft(b) \/ InsertSpan(b) \/ MarkFailed(b) \/ NumberEvent(b)
           \/ SpanRefused(b) \/ BatchStops(b)
    PROVE  AccountInv'
<1>0. Silent
  BY QuietSteps
<1>1. CASE StartBatch(b)
  <2>1. Others(b) /\ Unwritten(b) /\ (Unwritten(b)' \/ (job'[b].stage = "source" /\ job'[b].at = 1))
    BY <1>1, StartBatchIs DEF StartBatch, Unwritten
  <2> QED
    BY <1>0, <2>1, SilentAccount DEF Others
<1>2. CASE LoadSource(b)
  <2>1. Others(b) /\ Unwritten(b) /\ Unwritten(b)'
    BY <1>2, MoveIs DEF LoadSource, Unwritten, Stages
  <2> QED
    BY <1>0, <2>1, SilentAccount DEF Others
<1>3. CASE LoadAudit(b)
  <2>1. /\ Others(b) /\ Unwritten(b)
        /\ Unwritten(b)' \/ (job'[b].stage = "source" /\ job'[b].at = 1) \/ job'[b].stage = "aborted"
    BY <1>3, LoadAuditIs, AbortIs DEF LoadAudit, Unwritten
  <2> QED
    BY <1>0, <2>1, SilentAccount DEF Others
<1>4. CASE ReadSource(b)
  <2>1. /\ Others(b)
        /\ (Working(b) /\ Working(b)' /\ job'[b].at = job[b].at) \/ job'[b].stage = "aborted"
    BY <1>4, MoveIs, AbortIs DEF ReadSource, Working, Stages
  <2> QED
    BY <1>0, <2>1, SilentAccount DEF Others
<1>5. CASE CallModel(b) \/ NumberDraft(b)
  <2>1. Others(b) /\ Working(b) /\ Working(b)' /\ job'[b].at = job[b].at
    BY <1>5, CallModelIs, NumberDraftIs DEF CallModel, NumberDraft, Working
  <2> QED
    BY <1>0, <2>1, SilentAccount DEF Others
<1>6. CASE InsertSpan(b) \/ SpanRefused(b)
  <2>1. PICK s \in {"span", "log_number", "mark"} : Move(b, s) /\ job[b].stage = "span"
    BY <1>6 DEF InsertSpan, SpanRefused
  <2>2. /\ Others(b) /\ Wrote(b) /\ Wrote(b)' /\ job'[b].at = job[b].at
        /\ job'[b].draft = job[b].draft
    BY <2>1, MoveIs DEF Wrote, Stages
  <2> QED
    BY <1>0, <2>2, SilentAccount DEF Others
<1>7. CASE MarkFailed(b) \/ NumberEvent(b)
  <2>1. /\ Others(b) /\ Wrote(b) /\ Wrote(b)' /\ job'[b].at = job[b].at
        /\ job'[b].draft = job[b].draft
    BY <1>7, MarkFailedIs, NumberEventIs DEF MarkFailed, NumberEvent, Wrote
  <2> QED
    BY <1>0, <2>1, SilentAccount DEF Others
<1>8. CASE BatchStops(b)
  <2>1. Others(b) /\ job'[b].stage = "aborted"
    BY <1>8, AbortIs DEF BatchStops
  <2> QED
    BY <1>0, <2>1, SilentAccount DEF Others
<1> QED
  BY <1>1, <1>2, <1>3, <1>4, <1>5, <1>6, <1>7, <1>8

LEMMA InsertAccount ==
    ASSUME TypeInv, AccountInv, NEW b \in Batches, InsertDraft(b) \/ InsertFailed(b)
    PROVE  AccountInv'
<1>1. PICK s \in {"pending", "extraction_failed"}, next \in {"span", "log_number"},
             v \in {"verified", "failed"} :
        Insert(b, v, s, next)
  BY DEF InsertDraft, InsertFailed
<1>2. job[b].draft \in Drafts /\ Target[job[b].draft] = target(b) /\ job[b].stage = "insert"
      /\ trail' = trail
  BY <1>1, JobIs DEF Insert, BatchPlace
<1>3. PICK d \in Drafts : d = job[b].draft
  BY <1>2
<1>4. CASE ~CanAddDraft(d)
  <2>1. Others(b) /\ job'[b].stage = "aborted" /\ fresh' = fresh
    BY <1>1, <1>3, <1>4, AbortIs DEF Insert
  <2> QED
    BY <1>2, <2>1, SilentSteps, SilentAccount DEF Others
<1>5. CASE CanAddDraft(d)
  <2>1. Move(b, next) /\ fresh' = [fresh EXCEPT ![b] = @ \cup {d}]
    BY <1>1, <1>3, <1>5 DEF Insert
  <2>2. /\ Others(b) /\ Wrote(b)' /\ job'[b].at = job[b].at /\ job'[b].draft = d
    BY <1>3, <2>1, MoveIs DEF Wrote, Stages
  <2>3. /\ \A c \in Batches : fresh[c] \subseteq present /\ d \notin fresh[c]
        /\ fresh'[b] = fresh[b] \cup {d}
        /\ \A c \in Batches : c # b => fresh'[c] = fresh[c]
    BY <1>5, <2>1 DEF CanAddDraft, TypeInv, TypeOK
  <2>4. \A e \in Drafts : told(e)' = told(e)
    BY <1>2 DEF told
  <2>5. told(d) = {}
    BY <2>3 DEF AccountInv
  <2>6. AccountAt(b) /\ ToldOf(b)
    BY AccountIs DEF AccountInv
  <2>7. Through(b, job[b].at - 1) /\ job[b].at <= Limit[b]
    BY <1>2, <2>6 DEF AccountAt, Working
  <2>8. ToldOf(b)'
    <3>1. \A e \in fresh[b] : e \in Drafts /\ \E f \in trail : told(e) = {f}
      BY <1>2, <2>3, <2>6 DEF ToldOf, Wrote, present
    <3> QED
      BY <1>2, <2>2, <2>3, <2>4, <2>5, <3>1 DEF ToldOf
  <2>9. AccountAt(b)'
    <3>1. job[b].at \in DOMAIN Targets /\ job[b].at \in Nat
      BY JobIs, Lists DEF JobType
    <3>2. Cardinality(fresh'[b]) = job[b].at
      <4>1. IsFiniteSet(fresh[b])
        BY <2>3, DraftsAreCounted, FS_Subset
      <4>2. Cardinality(fresh[b] \cup {d}) = Cardinality(fresh[b]) + 1
        BY <2>3, <4>1, FS_AddElement
      <4>3. Cardinality(fresh[b]) = job[b].at - 1
        BY <2>7 DEF Through
      <4> QED
        BY <2>3, <3>1, <4>2, <4>3
    <3>3. \A i \in DOMAIN Targets : i <= job[b].at => \E e \in fresh'[b] : Target[e] = Targets[i]
      <4> SUFFICES ASSUME NEW i \in DOMAIN Targets, i <= job[b].at
                   PROVE  \E e \in fresh'[b] : Target[e] = Targets[i]
        OBVIOUS
      <4>1. i \in Nat
        BY Lists
      <4>2. i <= job[b].at - 1 \/ i = job[b].at
        BY <3>1, <4>1
      <4>3. CASE i <= job[b].at - 1
        BY <2>3, <2>7, <4>3 DEF Through
      <4>4. CASE i = job[b].at
        BY <1>2, <1>3, <2>3, <4>4 DEF target
      <4> QED
        BY <4>2, <4>3, <4>4
    <3>4. Through(b, job[b].at)'
      <4>1. Cardinality(fresh'[b]) = job'[b].at
            /\ \A i \in DOMAIN Targets : i <= job'[b].at => \E e \in fresh'[b] : Target[e] = Targets[i]
        BY <2>2, <3>2, <3>3
      <4> QED
        BY <4>1 DEF Through
    <3> QED
      BY <2>2, <2>7, <3>4 DEF AccountAt, Unwritten, Working, Wrote
  <2>10. Account(b)'
    BY <2>8, <2>9, AccountIs, PTL
  <2>11. \A c \in Batches : c # b => Account(c)'
    <3>1. \A c \in Batches : fresh[c] \subseteq Drafts
      BY <2>3 DEF present
    <3> QED
      BY <1>2, <2>2, <2>3, <2>4, <3>1, AccountStays DEF AccountInv, Others
  <2>12. \A e \in Drafts : (\A c \in Batches : e \notin fresh'[c]) => told(e)' = {}
    BY <2>3, <2>4 DEF AccountInv
  <2> QED
    BY <2>10, <2>11, <2>12 DEF AccountInv
<1> QED
  BY <1>4, <1>5

LEMMA LogAccount ==
    ASSUME TypeInv, AccountInv, NEW b \in Batches, LogExtraction(b)
    PROVE  AccountInv'
<1>1. fresh' = fresh /\ job[b].stage = "log" /\ Wrote(b)
  BY DEF LogExtraction, OthersUnchanged, Wrote
<1>2. CASE job[b].taken
  <2>1. Others(b) /\ job'[b].stage = "aborted" /\ trail' = trail
    BY <1>2, AbortIs DEF LogExtraction
  <2> QED
    BY <1>1, <2>1, SilentSteps, SilentAccount DEF Others
<1>3. CASE ~job[b].taken
  <2>1. PICK d \in Drafts : d = job[b].draft
    BY <1>1, JobIs DEF BatchPlace, TypeInv, TypeOK, present
  <2>2. PICK e : trail' = trail \cup {e} /\ e.action = "rule_draft.extract" /\ e.about = d
    <3> DEFINE outcome == IF job[b].verdict = "verified" THEN "pending" ELSE "extraction_failed"
           new == event("rule_draft.extract", 0, d, outcome)
    <3>1. trail' = trail \cup {new}
      BY <1>3, <2>1 DEF LogExtraction, append
    <3>2. new.action = "rule_draft.extract" /\ new.about = d
      BY DEF event
    <3> HIDE DEF new
    <3> QED
      BY <3>1, <3>2
  <2>3. AccountAt(b) /\ ToldOf(b) /\ d \in fresh[b]
    BY <1>1, <2>1, AccountIs, JobIs DEF AccountInv, BatchPlace
  <2>4. told(d)' = {e} /\ \A f \in Drafts : f # d => told(f)' = told(f)
    <3>1. told(d) = {}
      BY <1>1, <2>1, <2>3 DEF ToldOf
    <3>2. told(d)' = told(d) \cup {e}
      BY <2>2 DEF told
    <3>3. \A f \in Drafts : f # d => told(f)' = told(f)
      BY <2>2 DEF told
    <3> QED
      BY <3>1, <3>2, <3>3
  <2>5. \A c \in Batches : fresh[c] \subseteq Drafts /\ (c # b => d \notin fresh[c])
    BY <2>3 DEF TypeInv, TypeOK, OneGiver, present
  <2>6. \A c \in Batches : c # b => Account(c)'
    <3> SUFFICES ASSUME NEW c \in Batches, c # b PROVE Account(c)'
      OBVIOUS
    <3>1. /\ job'[c].stage = job[c].stage /\ job'[c].at = job[c].at
          /\ job'[c].draft = job[c].draft
      BY <1>3, LogsOfOthers
    <3>2. Account(c) /\ fresh'[c] = fresh[c] /\ trail \subseteq trail'
      BY <1>1, <2>2 DEF AccountInv
    <3>3. \A f \in fresh[c] : told(f)' = told(f)
      BY <2>4, <2>5
    <3> QED
      BY <3>1, <3>2, <3>3, AccountStays
  <2>7. /\ job'[b] = Next_target(b)
        /\ job'[b].stage \in {"source", "done"}
        /\ job'[b].stage = "source" => job[b].at < Limit[b] /\ job'[b].at = job[b].at + 1
        /\ job'[b].stage = "done" => job[b].at >= Limit[b]
    BY <1>3, LogIs, NextTargetIs
  <2>8. ToldOf(b)'
    <3>1. \A f \in fresh[b] : f # d => \E g \in trail : told(f) = {g}
      BY <1>1, <2>1, <2>3 DEF ToldOf, Wrote
    <3>2. ~Wrote(b)'
      BY <2>7 DEF Wrote
    <3>3. \A f \in fresh'[b] : \E g \in trail' : told(f)' = {g}
      BY <1>1, <2>2, <2>4, <2>5, <3>1
    <3> QED
      BY <3>2, <3>3 DEF ToldOf
  <2>9. AccountAt(b)'
    <3>1. Through(b, job[b].at) /\ job[b].at <= Limit[b]
      BY <1>1, <2>3 DEF AccountAt
    <3>2. job[b].at \in Nat /\ Limit[b] \in Nat
      <4>1. job[b].at \in DOMAIN Targets
        BY JobIs DEF JobType
      <4>2. Limit[b] \in 1..Len(Targets)
        BY BatchAssumption
      <4> QED
        BY <4>1, <4>2, Lists
    <3>3. /\ Cardinality(fresh'[b]) = job[b].at
          /\ \A i \in DOMAIN Targets : i <= job[b].at => \E f \in fresh'[b] : Target[f] = Targets[i]
      BY <1>1, <3>1 DEF Through
    <3>4. CASE job'[b].stage = "source"
      <4>1. job'[b].at - 1 = job[b].at /\ job'[b].at <= Limit[b]
        BY <2>7, <3>2, <3>4
      <4>2. Through(b, job[b].at - 1)'
        BY <3>3, <4>1 DEF Through
      <4> QED
        BY <3>4, <4>1, <4>2 DEF AccountAt, Unwritten, Working, Wrote
    <3>5. CASE job'[b].stage = "done"
      <4>1. Limit[b] = job[b].at
        BY <2>7, <3>1, <3>2, <3>5
      <4>2. Through(b, Limit[b])'
        BY <3>3, <4>1 DEF Through
      <4> QED
        BY <3>5, <4>2 DEF AccountAt, Unwritten, Working, Wrote
    <3> QED
      BY <2>7, <3>4, <3>5
  <2>10. Account(b)'
    BY <2>8, <2>9, AccountIs, PTL
  <2>11. \A f \in Drafts : (\A c \in Batches : f \notin fresh'[c]) => told(f)' = {}
    BY <1>1, <2>3, <2>4 DEF AccountInv
  <2> QED
    BY <2>6, <2>10, <2>11 DEF AccountInv
<1> QED
  BY <1>2, <1>3

\* Nothing but a batch writes into its account.
LEMMA OthersAccount ==
    ASSUME TypeInv, AccountInv, job' = job, Silent PROVE AccountInv'
<1>1. \A c \in Batches : fresh[c] \subseteq Drafts /\ fresh'[c] = fresh[c]
  BY DEF TypeInv, TypeOK, present, Silent
<1>2. \A c \in Batches : Account(c)'
  BY <1>1, AccountStays DEF AccountInv, Silent
<1> QED
  BY <1>1, <1>2 DEF AccountInv, Silent

LEMMA NextAccount == TypeInv /\ AccountInv /\ [Next]_vars => AccountInv'
<1> SUFFICES ASSUME TypeInv, AccountInv, [Next]_vars PROVE AccountInv'
  OBVIOUS
<1>1. CASE Seed
  <2>1. fresh' = fresh /\ job' = job
    BY <1>1, SeedIs
  <2>2. trail' = trail \/ \E e : trail' = trail \cup {e} /\ e.action # "rule_draft.extract"
    <3>1. CASE SeedPolicyAudit \/ SeedDraftAudit
      BY <3>1 DEF SeedPolicyAudit, SeedDraftAudit, append, event
    <3>2. CASE ~SeedPolicyAudit /\ ~SeedDraftAudit
      BY <1>1, <3>2 DEF Seed, Seeding, SeedPolicy, SeedSources, SeedDraft, InsertDemoDraft,
                        SeedSpan, Serve, documents
    <3> QED
      BY <3>1, <3>2
  <2> QED
    BY <2>1, <2>2, SilentSteps, OthersAccount
<1>2. CASE Review \/ Boot \/ GoDown \/ UNCHANGED vars
  <2>1. UNCHANGED <<fresh, job, trail>>
    BY <1>2 DEF Review, Boot, GoDown, vars, Claim, ReflectApproval, ReflectRejection, GiveBack,
                batchVars, documents
  <2> QED
    BY <2>1, SilentSteps, OthersAccount
<1>3. ASSUME NEW b \in Batches, StartBatch(b) \/ BatchStep(b) \/ SpanRefused(b) \/ BatchStops(b)
      PROVE  AccountInv'
  BY <1>3, QuietAccount, InsertAccount, LogAccount DEF BatchStep
<1> QED
  BY <1>1, <1>2, <1>3 DEF Next, Quiet

LEMMA InitAccount == Init => AccountInv
<1> SUFFICES ASSUME Init PROVE AccountInv
  OBVIOUS
<1>1. trail = {} /\ \A b \in Batches : job[b].stage = "idle" /\ fresh[b] = {}
  BY DEF Init, StartupInit, EmptyStore, Idle
<1> QED
  BY <1>1 DEF AccountInv, Account, Wrote, told

(***************************************************************************)
(* A batch that ran to its end has one draft per target and one event per  *)
(* draft on the trail, whatever the model answered and whoever ran beside  *)
(* it (extract_all, _store_success, _store_failure).                       *)
(***************************************************************************)
THEOREM BatchIsAccounted == Spec => []BatchIsAccountedFor
<1>1. TypeInv /\ AccountInv => BatchIsAccountedFor
  <2> SUFFICES ASSUME TypeInv, AccountInv, NEW b \in Batches, job[b].stage = "done"
               PROVE  /\ \A i \in 1..Limit[b] : \E d \in fresh[b] : Target[d] = Targets[i]
                      /\ Cardinality(fresh[b]) = Limit[b]
                      /\ \A d \in fresh[b] :
                          Cardinality({e \in trail : e.action = "rule_draft.extract" /\ e.about = d}) = 1
    BY DEF BatchIsAccountedFor
  <2>1. Through(b, Limit[b]) /\ ToldOf(b)
    BY AccountIs DEF AccountInv, AccountAt
  <2>2. \A i \in 1..Limit[b] : i \in DOMAIN Targets /\ i <= Limit[b]
    <3>1. Limit[b] \in 1..Len(Targets)
      BY BatchAssumption
    <3> QED
      BY <3>1, Lists
  <2>3. \A d \in fresh[b] : Cardinality(told(d)) = 1
    <3>1. \A d \in fresh[b] : \E e \in trail : told(d) = {e}
      BY <2>1 DEF ToldOf, Wrote
    <3> QED
      BY <3>1, FS_Singleton
  <2> QED
    BY <2>1, <2>2, <2>3 DEF Through, told
<1> QED
  BY <1>1, InitTypes, NextTypes, InitAccount, NextAccount, PTL DEF Spec

-----------------------------------------------------------------------------
(* A batch that meets nobody *)

\* A step of a batch that runs: it starts no other, and leaves the start-up where it is.
LEMMA RunningStep ==
    ASSUME TypeInv, NEW b \in Batches, BatchStep(b) \/ SpanRefused(b) \/ BatchStops(b)
    PROVE  /\ Running(b) /\ UNCHANGED <<startupVars, alone>>
           /\ \A c \in Batches : c # b =>
                /\ job'[c].stage = job[c].stage /\ job'[c].at = job[c].at
                /\ job'[c].no = job[c].no /\ job'[c].draft = job[c].draft
           /\ ~job[b].taken => ~job'[b].taken
<1>1. UNCHANGED <<startupVars, alone>>
  BY DEF BatchStep, LoadSource, LoadAudit, ReadSource, CallModel, NumberDraft, InsertDraft,
         InsertFailed, Insert, InsertSpan, MarkFailed, NumberEvent, LogExtraction, SpanRefused,
         BatchStops, OthersUnchanged
<1>2. Running(b)
  BY DEF BatchStep, LoadSource, LoadAudit, ReadSource, CallModel, NumberDraft, InsertDraft,
         InsertFailed, Insert, InsertSpan, MarkFailed, NumberEvent, LogExtraction, SpanRefused,
         BatchStops, Running, Ended
<1>3. CASE LoadSource(b) \/ LoadAudit(b) \/ ReadSource(b) \/ SpanRefused(b) \/ BatchStops(b)
  BY <1>1, <1>2, <1>3, MoveIs, AbortIs, LoadAuditIs
  DEF Others, LoadSource, ReadSource, SpanRefused, BatchStops, Stages
<1>4. CASE CallModel(b) \/ NumberDraft(b) \/ MarkFailed(b) \/ NumberEvent(b)
  BY <1>1, <1>2, <1>4, CallModelIs, NumberDraftIs, MarkFailedIs, NumberEventIs DEF Others
<1>5. CASE InsertDraft(b) \/ InsertFailed(b) \/ InsertSpan(b)
  <2>1. Abort(b) \/ \E s \in {"span", "log_number"} : Move(b, s)
    BY <1>5 DEF InsertDraft, InsertFailed, Insert, InsertSpan
  <2> QED
    BY <1>1, <1>2, <2>1, AbortIs, MoveIs DEF Others, Stages
<1>6. CASE LogExtraction(b)
  <2>1. CASE job[b].taken
    BY <1>1, <1>2, <1>6, <2>1, AbortIs DEF LogExtraction, Others
  <2>2. CASE ~job[b].taken
    BY <1>1, <1>2, <1>6, <2>2, LogIs, LogsOfOthers, NextTargetIs
  <2> QED
    BY <2>1, <2>2
<1> QED
  BY <1>3, <1>4, <1>5, <1>6 DEF BatchStep

LEMMA NextAlone == TypeInv /\ AloneInv /\ [Next]_vars => AloneInv'
<1> SUFFICES ASSUME TypeInv, AloneInv, [Next]_vars PROVE AloneInv'
  OBVIOUS
<1>1. CASE Seed
  <2>1. UNCHANGED <<job, alone>> /\ Starting
    BY <1>1, SeedIs DEF Seed, Seeding, SeedPolicy, SeedPolicyAudit, SeedSources, SeedDraft,
       InsertDemoDraft, SeedSpan, SeedDraftAudit, Serve, Starting
  <2> QED
    BY <2>1 DEF AloneInv, Running
<1>2. CASE Review \/ UNCHANGED vars
  <2>1. UNCHANGED <<job, alone, phase>>
    BY <1>2 DEF Review, Claim, ReflectApproval, ReflectRejection, GiveBack, batchVars, startupVars, vars
  <2> QED
    BY <2>1 DEF AloneInv, Running, Starting
<1>3. CASE Boot \/ GoDown
  BY <1>3 DEF Boot, GoDown, Step, AloneInv, Running, Starting, batchVars
<1>4. ASSUME NEW b \in Batches, StartBatch(b) PROVE AloneInv'
  <2> DEFINE others == {c \in Batches \ {b} : Running(c)}
  <2>1. /\ Others(b) /\ ~job'[b].taken /\ phase' = phase
        /\ alone' = alone \ (others \cup IF others # {} \/ Starting THEN {b} ELSE {})
    BY <1>4, StartBatchIs DEF StartBatch, startupVars
  <2>2. \A c \in Batches : c # b => (Running(c)' <=> Running(c))
    BY <2>1 DEF Running, Others
  <2>3. \A c \in alone' : c \in alone /\ c \in Batches /\ (Running(c)' => c = b)
    BY <2>1, <2>2 DEF TypeInv, TypeOK
  <2>4. b \in alone' => ~Starting /\ \A c \in Batches : Running(c)' => c = b
    BY <2>1, <2>2
  <2> QED
    BY <2>1, <2>3, <2>4 DEF AloneInv, Starting
<1>5. ASSUME NEW b \in Batches, BatchStep(b) \/ SpanRefused(b) \/ BatchStops(b) PROVE AloneInv'
  <2>1. /\ Running(b) /\ UNCHANGED <<phase, alone>>
        /\ \A c \in Batches : c # b => job'[c].stage = job[c].stage
        /\ ~job[b].taken => ~job'[b].taken
    BY <1>5, RunningStep DEF startupVars
  <2>2. \A c \in Batches : Running(c)' => Running(c)
    BY <2>1 DEF Running
  <2>3. alone \subseteq Batches
    BY DEF TypeInv, TypeOK
  <2> QED
    BY <2>1, <2>2, <2>3 DEF AloneInv, Starting
<1> QED
  BY <1>1, <1>2, <1>3, <1>4, <1>5 DEF Next, Quiet

\* The numbers depend on how many drafts there are, and on the places of the two that count them.
LEMMA NumbersStay ==
    ASSUME TypeInv, NumbersInv, present' = present, alone' \subseteq alone,
           \A b \in Batches : job'[b].stage = "insert" =>
                job[b].stage = "insert" /\ job'[b].draft = job[b].draft,
           \/ UNCHANGED <<phase, at>>
           \/ phase' \notin {"drafts", "insert", "draft_spans", "draft_audit"}
           \/ phase' \in {"drafts", "insert"} /\ at' <= HowMany + 1
           \/ phase' \in {"draft_spans", "draft_audit"} /\ at' <= HowMany
    PROVE  NumbersInv'
<1>1. HowMany' = HowMany
  BY DEF HowMany
<1> QED
  BY <1>1 DEF NumbersInv

\* One more draft, with a number that is at most the next.
LEMMA NumbersGrow ==
    ASSUME TypeInv, NumbersInv, NEW d \in Drafts, d[1] <= HowMany + 1,
           present' = present \cup {d}, HowMany' = HowMany + 1, alone' \subseteq alone,
           \A b \in Batches : job'[b].stage = "insert" =>
                job[b].stage = "insert" /\ job'[b].draft = job[b].draft /\ b \notin alone,
           \/ UNCHANGED <<phase, at>>
           \/ phase' \in {"draft_spans", "draft_audit"} /\ at' <= HowMany + 1
    PROVE  NumbersInv'
<1>1. HowMany \in Nat /\ at \in Nat
  BY DraftsAreCounted DEF TypeInv, TypeOK, StartupTypeOK
<1>2. \A e \in present' : e[1] <= HowMany'
  <2>1. \A e \in present : e[1] \in Nat /\ e[1] <= HowMany
    BY Parameters DEF present, NumbersInv
  <2> QED
    BY <1>1, <2>1
<1>3. \A b \in Batches : job'[b].stage = "insert" =>
        job'[b].draft[1] <= HowMany' + 1 /\ b \notin alone'
  <2> SUFFICES ASSUME NEW b \in Batches, job'[b].stage = "insert"
               PROVE  job'[b].draft[1] <= HowMany' + 1 /\ b \notin alone'
    OBVIOUS
  <2>1. job[b].draft[1] \in Nat /\ job[b].draft[1] <= HowMany + 1
    BY JobIs, Parameters DEF NumbersInv, BatchPlace
  <2> QED
    BY <1>1, <2>1
<1>4. phase' \in {"drafts", "insert"} => at' <= HowMany' + 1
  <2>1. phase' \in {"drafts", "insert"} => at' = at /\ at <= HowMany + 1
    BY DEF NumbersInv
  <2> QED
    BY <1>1, <2>1
<1>5. phase' \in {"draft_spans", "draft_audit"} => at' <= HowMany'
  <2>1. phase = phase' /\ phase' \in {"draft_spans", "draft_audit"} => at <= HowMany
    BY DEF NumbersInv
  <2> QED
    BY <1>1, <2>1
<1> QED
  BY <1>2, <1>3, <1>4, <1>5 DEF NumbersInv

LEMMA BatchKeepsNumbers ==
    ASSUME TypeInv, AloneInv, NumbersInv, NEW b \in Batches,
           StartBatch(b) \/ BatchStep(b) \/ SpanRefused(b) \/ BatchStops(b)
    PROVE  NumbersInv'
<1>1. CASE StartBatch(b)
  <2>1. /\ present' = present /\ alone' \subseteq alone /\ UNCHANGED <<phase, at>>
        /\ \A c \in Batches : job'[c].stage = "insert" => job'[c] = job[c]
    BY <1>1, StartBatchIs DEF StartBatch, present, storeVars, startupVars, Others
  <2> QED
    BY <2>1, NumbersStay
<1>2. CASE NumberDraft(b)
  <2>1. /\ Others(b) /\ job'[b].draft = <<HowMany + 1, target(b)>>
        /\ UNCHANGED <<phase, at, alone, draftStatus>>
    BY <1>2, NumberDraftIs, RunningStep DEF BatchStep, startupVars, NumberDraft, storeVars
  <2>2. present' = present /\ HowMany' = HowMany
    BY <2>1 DEF present, HowMany
  <2>3. HowMany \in Nat /\ job'[b].draft[1] = HowMany + 1
    BY <2>1, DraftsAreCounted
  <2>4. \A c \in Batches : job'[c].stage = "insert" =>
          job'[c].draft[1] <= HowMany + 1 /\ (c \in alone => job'[c].draft[1] = HowMany + 1)
    BY <2>1, <2>3 DEF NumbersInv, Others
  <2> QED
    BY <2>1, <2>2, <2>4 DEF NumbersInv
<1>3. CASE InsertDraft(b) \/ InsertFailed(b)
  <2>1. PICK d \in Drafts : d = job[b].draft /\ job[b].stage = "insert"
    BY <1>3, JobIs DEF InsertDraft, InsertFailed, Insert, BatchPlace
  <2>2. /\ Running(b) /\ UNCHANGED <<phase, at, alone>>
        /\ \A c \in Batches : c # b =>
             job'[c].stage = job[c].stage /\ job'[c].draft = job[c].draft
    BY <1>3, RunningStep DEF BatchStep, startupVars
  <2>3. job'[b].stage # "insert"
    <3>1. Abort(b) \/ \E s \in {"span", "log_number"} : Move(b, s)
      BY <1>3 DEF InsertDraft, InsertFailed, Insert
    <3> QED
      BY <3>1, AbortIs, MoveIs DEF Stages
  <2>4. CASE ~CanAddDraft(d)
    <3>1. present' = present
      BY <1>3, <2>1, <2>4 DEF InsertDraft, InsertFailed, Insert, present
    <3> QED
      BY <2>2, <2>3, <3>1, NumbersStay
  <2>5. CASE CanAddDraft(d)
    <3>1. present' = present \cup {d} /\ HowMany' = HowMany + 1
      <4>1. \E s \in {"pending", "extraction_failed"} : add_draft(d, s)
        BY <1>3, <2>1, <2>5 DEF InsertDraft, InsertFailed, Insert
      <4> QED
        BY <2>5, <4>1, AddDraft
    <3>2. \A c \in Batches : job'[c].stage = "insert" =>
            /\ job[c].stage = "insert" /\ job'[c].draft = job[c].draft
            /\ c \notin alone
      <4>1. \A c \in alone : Running(c) => c = b
        BY <2>2 DEF AloneInv
      <4> QED
        BY <2>2, <2>3, <4>1 DEF Running, Ended
    <3>3. d[1] <= HowMany + 1
      BY <2>1 DEF NumbersInv
    <3> QED
      BY <2>2, <3>1, <3>2, <3>3, NumbersGrow
  <2> QED
    BY <2>4, <2>5
<1>4. CASE ~StartBatch(b) /\ ~NumberDraft(b) /\ ~InsertDraft(b) /\ ~InsertFailed(b)
  <2>1. BatchStep(b) \/ SpanRefused(b) \/ BatchStops(b)
    BY <1>4
  <2>2. /\ UNCHANGED <<phase, at, alone>>
        /\ \A c \in Batches : c # b =>
             job'[c].stage = job[c].stage /\ job'[c].draft = job[c].draft
    BY <2>1, RunningStep DEF startupVars
  <2>3. present' = present
    <3>1. CASE MarkFailed(b)
      <4>1. job[b].draft \in present
        BY <3>1, JobIs DEF MarkFailed, BatchPlace, Wrote, TypeInv, TypeOK
      <4> QED
        BY <3>1, <4>1, SetStatus DEF MarkFailed, DraftStatus
    <3>2. CASE ~MarkFailed(b)
      BY <1>4, <2>1, <3>2 DEF BatchStep, LoadSource, LoadAudit, ReadSource, CallModel, InsertSpan,
                              NumberEvent, LogExtraction, SpanRefused, BatchStops, present, storeVars
    <3> QED
      BY <3>1, <3>2
  <2>4. job'[b].stage # "insert"
    <3>1. CASE LoadSource(b) \/ LoadAudit(b) \/ ReadSource(b) \/ SpanRefused(b) \/ BatchStops(b)
      BY <3>1, MoveIs, AbortIs, LoadAuditIs DEF LoadSource, ReadSource, SpanRefused, BatchStops, Stages
    <3>2. CASE CallModel(b) \/ MarkFailed(b) \/ NumberEvent(b)
      BY <3>2, CallModelIs, MarkFailedIs, NumberEventIs
    <3>3. CASE InsertSpan(b)
      BY <3>3, MoveIs DEF InsertSpan, Stages
    <3>4. CASE LogExtraction(b)
      BY <3>4, AbortIs, LogIs, NextTargetIs DEF LogExtraction
    <3> QED
      BY <1>4, <2>1, <3>1, <3>2, <3>3, <3>4 DEF BatchStep
  <2> QED
    BY <2>2, <2>3, <2>4, NumbersStay
<1> QED
  BY <1>1, <1>2, <1>3, <1>4

LEMMA SeedKeepsNumbers ==
    ASSUME TypeInv, AloneInv, NumbersInv, Seed PROVE NumbersInv'
<1>0. UNCHANGED <<job, alone>> /\ HowMany \in Nat /\ at \in Nat
  BY SeedIs, DraftsAreCounted, PlaceIs
<1>1. CASE InsertDemoDraft
  <2>1. PICK d \in Drafts : d = demo.id /\ d[1] = at /\ phase = "insert" /\ at <= HowMany + 1
    BY <1>1, PlaceIs DEF InsertDemoDraft, NumbersInv
  <2>2. CASE ~CanAddDraft(d)
    <3>1. UNCHANGED draftStatus /\ phase' = "down"
      BY <1>1, <2>1, <2>2 DEF InsertDemoDraft, Step
    <3> QED
      BY <1>0, <3>1, NumbersStay DEF present
  <2>3. CASE CanAddDraft(d)
    <3>1. /\ add_draft(d, demo.status) /\ demo.status \in {"pending", "extraction_failed"}
          /\ phase' \in {"draft_spans", "draft_audit"} /\ at' = at
      BY <1>1, <2>1, <2>3, PlaceIs DEF InsertDemoDraft, Step
    <3>2. present' = present \cup {d} /\ HowMany' = HowMany + 1
      BY <2>3, <3>1, AddDraft
    <3>3. \A c \in Batches : job'[c].stage = "insert" =>
            /\ job[c].stage = "insert" /\ job'[c].draft = job[c].draft
            /\ c \notin alone
      BY <1>0, <2>1 DEF AloneInv, Running, Ended, Starting
    <3> QED
      BY <1>0, <2>1, <3>1, <3>2, <3>3, NumbersGrow
  <2> QED
    BY <2>2, <2>3
<1>2. CASE ~InsertDemoDraft
  <2>1. present' = present
    BY <1>2, SeedIs DEF present
  <2>2. CASE SeedPolicy \/ SeedPolicyAudit \/ Serve
    BY <1>0, <2>1, <2>2, NumbersStay DEF SeedPolicy, SeedPolicyAudit, Serve, Step
  <2>3. CASE SeedSources
    <3>1. phase' = "drafts" /\ at' = 1 /\ 1 <= HowMany + 1
      BY <1>0, <2>3 DEF SeedSources, Step
    <3> QED
      BY <1>0, <2>1, <3>1, NumbersStay
  <2>4. CASE SeedDraft
    <3>1. phase = "drafts" /\ at <= HowMany + 1 /\ demo.id[1] = at
      BY <2>4, PlaceIs DEF SeedDraft, NumbersInv
    <3>2. phase' \in {"drafts", "insert"} /\ (at' = at \/ (at' = at + 1 /\ demo.id \in present))
      BY <2>4 DEF SeedDraft, Step
    <3>3. demo.id \in present => at <= HowMany
      BY <3>1 DEF NumbersInv
    <3>4. at' <= HowMany + 1
      BY <1>0, <3>1, <3>2, <3>3
    <3> QED
      BY <1>0, <2>1, <3>2, <3>4, NumbersStay
  <2>5. CASE SeedSpan \/ SeedDraftAudit
    <3>1. phase \in {"draft_spans", "draft_audit"} /\ at <= HowMany
      BY <2>5 DEF SeedSpan, SeedDraftAudit, NumbersInv
    <3>2. \/ phase' \in {"draft_spans", "draft_audit"} /\ at' = at
          \/ phase' = "drafts" /\ at' = at + 1
      BY <2>5 DEF SeedSpan, SeedDraftAudit, Step
    <3>3. at + 1 <= HowMany + 1
      BY <1>0, <3>1
    <3> QED
      BY <1>0, <2>1, <3>1, <3>2, <3>3, NumbersStay
  <2> QED
    BY <1>2, <2>2, <2>3, <2>4, <2>5 DEF Seed, Seeding
<1> QED
  BY <1>1, <1>2

LEMMA NextNumbers == TypeInv /\ AloneInv /\ NumbersInv /\ [Next]_vars => NumbersInv'
<1> SUFFICES ASSUME TypeInv, AloneInv, NumbersInv, [Next]_vars PROVE NumbersInv'
  OBVIOUS
<1>1. ASSUME NEW d \in present, NEW x \in Decisions,
             Claim(d, x) \/ ReflectApproval(d, x) \/ ReflectRejection(d, x) \/ GiveBack(d, x)
      PROVE  NumbersInv'
  <2>1. UNCHANGED <<job, alone, phase, at>>
    BY <1>1 DEF Claim, ReflectApproval, ReflectRejection, GiveBack, batchVars, startupVars
  <2>2. present' = present
    <3>1. CASE Claim(d, x)
      BY <3>1, SetStatus DEF Claim, claim_pending, set_status, DraftStatus, Decisions
    <3>2. CASE ReflectApproval(d, x) \/ ReflectRejection(d, x)
      BY <3>2, ReflectedIs
    <3>3. CASE GiveBack(d, x)
      BY <3>3, SetStatus DEF GiveBack, DraftStatus
    <3> QED
      BY <1>1, <3>1, <3>2, <3>3
  <2> QED
    BY <2>1, <2>2, NumbersStay
<1>2. CASE Boot \/ GoDown \/ UNCHANGED vars
  <2>1. /\ job' = job /\ draftStatus' = draftStatus /\ alone' \subseteq alone
        /\ phase' \in {"policies", "down"} \/ UNCHANGED <<phase, at>>
    BY <1>2 DEF Boot, GoDown, Step, vars, batchVars, storeVars, startupVars
  <2>2. present' = present
    BY <2>1 DEF present
  <2> QED
    BY <2>1, <2>2, NumbersStay
<1>3. CASE \E b \in Batches : StartBatch(b) \/ BatchStep(b) \/ SpanRefused(b) \/ BatchStops(b)
  BY <1>3, BatchKeepsNumbers
<1> QED
  BY <1>1, <1>2, <1>3, SeedKeepsNumbers DEF Next, Quiet, Review

\* A step that loads nothing, or everything, and speaks of no text.
LEMMA SourcesStay ==
    ASSUME TypeInv, SourcesInv, crashes = 0, stored' = stored, alone' \subseteq alone,
           loaded' = loaded \/ (loaded \subseteq loaded' /\ Complete'),
           \A c \in Batches : Loading(c) \/ Loading(c)' =>
               job'[c].stage = job[c].stage /\ job'[c].at = job[c].at /\ job'[c].no = job[c].no,
           \A c \in alone' : Running(c)' => Running(c) \/ Complete,
           \A c \in alone' : job'[c].stage # "aborted"
    PROVE  SourcesInv'
<1>0. alone \subseteq Batches /\ \A c \in Batches : Loading(c)' <=> Loading(c)
  BY DEF TypeInv, TypeOK, Loading
<1>1. Complete => Complete'
  BY DEF Complete
<1>2. \A e \in stored' : Complete' \/ \E w \in Batches : Ahead(w, e)'
  <2>1. \A e \in stored : Complete \/ \E w \in Batches : Ahead(w, e)
    BY DEF SourcesInv
  <2>2. ASSUME NEW e, NEW w \in Batches, Ahead(w, e) PROVE Ahead(w, e)'
    <3>1. Loading(w) /\ job'[w].at = job[w].at /\ job'[w].no = job[w].no
      BY <2>2 DEF Ahead
    <3> QED
      BY <1>0, <2>2, <3>1 DEF Ahead
  <2> QED
    BY <1>1, <2>1, <2>2
<1>3. /\ loaded' # {} => Complete' \/ \E w \in Batches : Loading(w)'
      /\ stored' # {} => loaded' # {}
  BY <1>0, <1>1 DEF SourcesInv
<1>4. \A b \in Batches : Loading(b)' =>
        /\ \A i \in DOMAIN Targets : i < job'[b].at => Targets[i] \in loaded'
        /\ job'[b].stage = "load_audit" => target(b)' \in loaded'
  BY <1>0 DEF SourcesInv, target
<1>5. \A b \in alone' : Loading(b)' => \A e \in stored' : e.no < job'[b].no + job'[b].at
  BY <1>0 DEF SourcesInv
<1>6. \A b \in alone' : Running(b)' /\ ~Loading(b)' => Complete'
  BY <1>0, <1>1 DEF SourcesInv
<1> QED
  BY <1>2, <1>3, <1>4, <1>5, <1>6 DEF SourcesInv

LEMMA StartKeepsSources ==
    ASSUME TypeInv, AloneInv, SourcesInv, crashes = 0, NEW b \in Batches, StartBatch(b)
    PROVE  SourcesInv'
<1> DEFINE others == {c \in Batches \ {b} : Running(c)}
<1>1. /\ Others(b) /\ job[b].stage = "idle" /\ UNCHANGED <<loaded, trail>> /\ job'[b].at = 1
      /\ job'[b].stage = IF loaded = {} THEN "load" ELSE "source"
      /\ job'[b].no = IF loaded = {} THEN AuditLength ELSE 0
      /\ alone' = alone \ (others \cup IF others # {} \/ Starting THEN {b} ELSE {})
  BY StartBatchIs DEF StartBatch, documents
<1>2. /\ stored' = stored /\ (Complete' <=> Complete)
      /\ \A c \in Batches : c # b => (Loading(c)' <=> Loading(c)) /\ (Running(c)' <=> Running(c))
      /\ ~Loading(b) /\ ~Running(b)
      /\ \A c \in alone' : c \in alone /\ c \in Batches /\ (Running(c)' => c = b)
  BY <1>1 DEF stored, Complete, Loading, Running, Ended, Others, TypeInv, TypeOK
<1>3. \A e \in stored' : Complete' \/ \E w \in Batches : Ahead(w, e)'
  <2>1. ASSUME NEW e, NEW w \in Batches, Ahead(w, e) PROVE Ahead(w, e)'
    <3>1. w # b /\ job'[w] = job[w] /\ Loading(w)'
      BY <1>1, <1>2, <2>1 DEF Ahead, Others
    <3> QED
      BY <2>1, <3>1 DEF Ahead
  <2> QED
    BY <1>2, <2>1 DEF SourcesInv
<1>4. /\ loaded' # {} => Complete' \/ \E w \in Batches : Loading(w)'
      /\ stored' # {} => loaded' # {}
  BY <1>1, <1>2 DEF SourcesInv
<1>5. \A c \in Batches : Loading(c)' =>
        /\ \A i \in DOMAIN Targets : i < job'[c].at => Targets[i] \in loaded'
        /\ job'[c].stage = "load_audit" => target(c)' \in loaded'
  <2>1. \A i \in DOMAIN Targets : ~(i < 1)
    BY Lists
  <2> QED
    BY <1>1, <1>2, <2>1 DEF SourcesInv, Others, target
<1>6. \A c \in alone' : Loading(c)' => \A e \in stored' : e.no < job'[c].no + job'[c].at
  <2> SUFFICES ASSUME NEW c \in alone', Loading(c)', NEW e \in stored'
               PROVE  e.no < job'[c].no + job'[c].at
    OBVIOUS
  <2>1. c = b
    BY <1>2 DEF Loading, Running, Ended
  <2>2. loaded = {} /\ stored = {}
    BY <1>1, <2>1 DEF Loading, SourcesInv
  <2> QED
    BY <1>2, <2>2
<1>7. \A c \in alone' : Running(c)' /\ ~Loading(c)' => Complete'
  <2> SUFFICES ASSUME NEW c \in alone', Running(c)', ~Loading(c)' PROVE Complete'
    OBVIOUS
  <2>1. c = b /\ b \in alone' /\ loaded # {} /\ others = {}
    BY <1>1, <1>2 DEF Loading
  <2>2. \A w \in Batches : ~Loading(w)
    BY <1>2, <2>1 DEF Loading, Running, Ended
  <2> QED
    BY <1>2, <2>1, <2>2 DEF SourcesInv
<1>8. \A c \in alone' : job'[c].stage # "aborted"
  BY <1>1, <1>2 DEF SourcesInv, Others
<1> QED
  BY <1>3, <1>4, <1>5, <1>6, <1>7, <1>8 DEF SourcesInv

LEMMA PlaceInTargets ==
    ASSUME TypeInv, NEW b \in Batches
    PROVE  /\ job[b].at \in DOMAIN Targets /\ job[b].at \in Nat /\ job[b].no \in Nat
           /\ \A i \in DOMAIN Targets : Targets[i] = target(b) => i = job[b].at
<1>1. job[b].at \in DOMAIN Targets /\ job[b].no \in Nat
  BY JobIs DEF JobType
<1>2. job[b].at \in Nat
  BY <1>1, Lists
<1>3. \A i, j \in DOMAIN Targets : Targets[i] = Targets[j] => i = j
  BY BatchAssumption
<1> QED
  BY <1>1, <1>2, <1>3 DEF target

\* While b runs it is the only one that can be alone.
LEMMA OnlyOneIsAlone ==
    ASSUME TypeInv, AloneInv, NEW b \in Batches, Running(b)
    PROVE  \A c \in alone : Running(c) => c = b
BY DEF AloneInv, TypeInv, TypeOK

LEMMA LoadSourceKeepsSources ==
    ASSUME TypeInv, AloneInv, SourcesInv, crashes = 0, NEW b \in Batches, LoadSource(b)
    PROVE  SourcesInv'
<1>1. /\ loaded' = loaded \cup {target(b)} /\ UNCHANGED <<trail, alone>>
      /\ job[b].stage = "load" /\ job'[b].stage = "load_audit"
      /\ job'[b].at = job[b].at /\ job'[b].no = job[b].no
      /\ Others(b)
  BY MoveIs DEF LoadSource, OthersUnchanged, Stages
<1>2. /\ \A c \in Batches : (Loading(c)' <=> Loading(c)) /\ (Running(c)' <=> Running(c))
      /\ \A c \in Batches : job'[c].at = job[c].at /\ job'[c].no = job[c].no
      /\ stored' = stored /\ (Complete => Complete') /\ alone \subseteq Batches
  BY <1>1 DEF Loading, Running, Ended, Others, stored, Complete, TypeInv, TypeOK
<1>3. \A e \in stored' : Complete' \/ \E w \in Batches : Ahead(w, e)'
  <2>1. \A e, w : w \in Batches /\ Ahead(w, e) => Ahead(w, e)'
    BY <1>2 DEF Ahead
  <2> QED
    BY <1>2, <2>1 DEF SourcesInv
<1>4. /\ loaded' # {} => Complete' \/ \E w \in Batches : Loading(w)'
      /\ stored' # {} => loaded' # {}
  BY <1>1 DEF Loading
<1>5. \A c \in Batches : Loading(c)' =>
        /\ \A i \in DOMAIN Targets : i < job'[c].at => Targets[i] \in loaded'
        /\ job'[c].stage = "load_audit" => target(c)' \in loaded'
  BY <1>1, <1>2 DEF SourcesInv, Others, target
<1>6. /\ \A c \in alone' : Loading(c)' => \A e \in stored' : e.no < job'[c].no + job'[c].at
      /\ \A c \in alone' : Running(c)' /\ ~Loading(c)' => Complete'
      /\ \A c \in alone' : job'[c].stage # "aborted"
  BY <1>1, <1>2 DEF SourcesInv, Others
<1> QED
  BY <1>3, <1>4, <1>5, <1>6 DEF SourcesInv

LEMMA LoadAuditKeepsSources ==
    ASSUME TypeInv, AloneInv, SourcesInv, crashes = 0, NEW b \in Batches, LoadAudit(b)
    PROVE  SourcesInv'
<1>0. /\ UNCHANGED <<loaded, alone>> /\ job[b].stage = "load_audit" /\ Loading(b) /\ Running(b)
      /\ Others(b)
  BY LoadAuditIs DEF LoadAudit, OthersUnchanged, Loading, Running, Ended
<1>1. /\ \A c \in Batches : c # b => (Loading(c)' <=> Loading(c)) /\ (Running(c)' <=> Running(c))
      /\ (Complete' <=> Complete) /\ alone \subseteq Batches
      /\ \A c \in alone : Running(c) => c = b
  BY <1>0, OnlyOneIsAlone DEF Loading, Running, Others, Complete, TypeInv, TypeOK
<1>2. target(b) \in loaded /\ \A i \in DOMAIN Targets : i < job[b].at => Targets[i] \in loaded
  BY <1>0 DEF SourcesInv
<1>3. StoredEvent(b).no = job[b].no + job[b].at /\ StoredEvent(b).about = target(b)
      /\ StoredEvent(b).action = "policy_source.ingest"
  BY DEF StoredEvent, event
<1>4. ASSUME NEW e, NEW w \in Batches, w # b, Ahead(w, e) PROVE Ahead(w, e)'
  <2>1. job'[w] = job[w] /\ Loading(w)'
    BY <1>0, <1>1, <1>4 DEF Ahead, Others
  <2> QED
    BY <1>4, <2>1 DEF Ahead
<1>5. \A c \in Batches : c # b /\ Loading(c)' =>
        /\ \A i \in DOMAIN Targets : i < job'[c].at => Targets[i] \in loaded'
        /\ job'[c].stage = "load_audit" => target(c)' \in loaded'
  BY <1>0, <1>1 DEF SourcesInv, Others, target
<1>6. CASE StoredEvent(b) \in trail
  <2>1. job'[b].stage = "aborted" /\ stored' = stored /\ ~Loading(b)' /\ ~Running(b)'
    BY <1>6, LoadAuditIs, AbortIs DEF stored, Loading, Running, Ended
  <2>2. StoredEvent(b) \in stored
    BY <1>3, <1>6 DEF stored
  <2>3. b \notin alone
    <3>1. job[b].no \in Nat /\ job[b].at \in Nat
      BY PlaceInTargets
    <3> QED
      BY <1>0, <1>3, <2>2, <3>1 DEF SourcesInv
  <2>4. Complete \/ \E w \in Batches \ {b} : Loading(w) /\ \A e : Ahead(b, e) => Ahead(w, e)
    <3>1. Complete \/ \E w \in Batches : Ahead(w, StoredEvent(b))
      BY <2>2 DEF SourcesInv
    <3>2. ASSUME NEW w \in Batches, Ahead(w, StoredEvent(b))
          PROVE  w # b /\ Loading(w) /\ \A e : Ahead(b, e) => Ahead(w, e)
      <4>1. PICK i \in DOMAIN Targets :
              target(b) = Targets[i] /\ job[b].no + job[b].at = job[w].no + i /\ i < job[w].at
        BY <1>3, <3>2 DEF Ahead
      <4>2. i = job[b].at
        BY <4>1, PlaceInTargets
      <4>3. job[b].at \in Nat /\ job[b].no \in Nat /\ job[w].at \in Nat /\ job[w].no \in Nat
        BY PlaceInTargets
      <4>4. job[w].no = job[b].no /\ job[b].at < job[w].at
        BY <4>1, <4>2, <4>3
      <4>5. w # b
        BY <4>3, <4>4
      <4>6. Loading(w)
        BY <3>2 DEF Ahead
      <4>7. ASSUME NEW e, Ahead(b, e) PROVE Ahead(w, e)
        <5>1. PICK j \in DOMAIN Targets :
                e.about = Targets[j] /\ e.no = job[b].no + j /\ j < job[b].at
          BY <4>7 DEF Ahead
        <5>2. j \in Nat
          BY Lists
        <5>3. j < job[w].at /\ e.no = job[w].no + j
          BY <4>3, <4>4, <5>1, <5>2
        <5> QED
          BY <4>6, <5>1, <5>3 DEF Ahead
      <4> QED
        BY <4>5, <4>6, <4>7
    <3> QED
      BY <3>1, <3>2
  <2>5. \A e \in stored' : Complete' \/ \E w \in Batches : Ahead(w, e)'
    <3>1. \A e \in stored : Complete \/ \E w \in Batches \ {b} : Ahead(w, e)
      BY <2>4 DEF SourcesInv
    <3> QED
      BY <1>1, <1>4, <2>1, <3>1
  <2>6. /\ loaded' # {} => Complete' \/ \E w \in Batches : Loading(w)'
        /\ stored' # {} => loaded' # {}
    BY <1>0, <1>1, <2>1, <2>4 DEF SourcesInv
  <2>7. /\ \A c \in alone' : ~Running(c)' /\ ~Loading(c)'
        /\ \A c \in alone' : job'[c].stage # "aborted"
    BY <1>0, <1>1, <2>1, <2>3 DEF SourcesInv, Others, Loading, Running, Ended
  <2> QED
    BY <1>5, <2>1, <2>5, <2>6, <2>7 DEF SourcesInv
<1>7. CASE StoredEvent(b) \notin trail
  <2>1. /\ stored' = stored \cup {StoredEvent(b)}
        /\ job[b].at < Len(Targets) =>
            /\ job'[b].stage = "load" /\ job'[b].at = job[b].at + 1
            /\ job'[b].no = job[b].no
        /\ ~(job[b].at < Len(Targets)) => job'[b].stage = "source"
    <3>1. trail' = trail \cup {StoredEvent(b)}
      BY <1>7, LoadAuditIs
    <3> QED
      BY <1>3, <1>7, <3>1, LoadAuditIs DEF stored
  <2>2. stored' # {} => loaded' # {}
    BY <1>0, <1>2
  <2>3. \A c \in alone' : job'[c].stage # "aborted"
    BY <1>0, <1>1, <2>1 DEF SourcesInv, Others
  <2>4. job[b].at \in DOMAIN Targets /\ job[b].at \in Nat /\ job[b].no \in Nat
    BY PlaceInTargets
  <2>5. CASE job[b].at < Len(Targets)
    <3>1. Loading(b)' /\ job'[b].at = job[b].at + 1 /\ job'[b].no = job[b].no
          /\ job'[b].stage = "load"
      BY <2>1, <2>5 DEF Loading
    <3>2. \A e : Ahead(b, e) => Ahead(b, e)'
      <4> SUFFICES ASSUME NEW e, Ahead(b, e) PROVE Ahead(b, e)'
        OBVIOUS
      <4>1. PICK j \in DOMAIN Targets :
              e.about = Targets[j] /\ e.no = job[b].no + j /\ j < job[b].at
        BY DEF Ahead
      <4>2. j < job'[b].at /\ e.no = job'[b].no + j
        BY <2>4, <3>1, <4>1, Lists
      <4> QED
        BY <3>1, <4>1, <4>2 DEF Ahead
    <3>3. PICK new : new = StoredEvent(b)
      OBVIOUS
    <3>4. Ahead(b, new)'
      <4>1. new.about = Targets[job[b].at] /\ new.no = job'[b].no + job[b].at
            /\ job[b].at < job'[b].at
        BY <1>3, <2>4, <3>1, <3>3 DEF target
      <4> QED
        BY <2>4, <3>1, <4>1 DEF Ahead
    <3>5. \A e \in stored' : Complete' \/ \E w \in Batches : Ahead(w, e)'
      <4>1. \A e \in stored : Complete' \/ \E w \in Batches : Ahead(w, e)'
        BY <1>1, <1>4, <3>2 DEF SourcesInv
      <4> QED
        BY <2>1, <3>3, <3>4, <4>1
    <3>6. \A i \in DOMAIN Targets : i < job'[b].at => Targets[i] \in loaded'
      <4> SUFFICES ASSUME NEW i \in DOMAIN Targets, i < job'[b].at PROVE Targets[i] \in loaded'
        OBVIOUS
      <4>1. i < job[b].at \/ i = job[b].at
        BY <2>4, <3>1, Lists
      <4> QED
        BY <1>0, <1>2, <4>1 DEF target
    <3>7. \A c \in alone' : Loading(c)' => \A e \in stored' : e.no < job'[c].no + job'[c].at
      <4> SUFFICES ASSUME NEW c \in alone', Loading(c)', NEW e \in stored'
                   PROVE  e.no < job'[c].no + job'[c].at
        OBVIOUS
      <4>1. c = b /\ b \in alone
        BY <1>0, <1>1 DEF Loading, Running, Ended
      <4>2. e.no \in Nat /\ e.no <= job[b].no + job[b].at
        <5>1. CASE e \in stored
          <6>1. e.no \in Nat
            BY <5>1 DEF stored, TypeInv, TypeOK, StartupTypeOK
          <6>2. e.no < job[b].no + job[b].at
            BY <1>0, <4>1, <5>1 DEF SourcesInv
          <6> QED
            BY <2>4, <6>1, <6>2
        <5>2. CASE e = StoredEvent(b)
          BY <1>3, <2>4, <5>2
        <5> QED
          BY <2>1, <5>1, <5>2
      <4> QED
        BY <2>4, <3>1, <4>1, <4>2
    <3>8. \A c \in alone' : Running(c)' /\ ~Loading(c)' => Complete'
      BY <1>0, <1>1, <3>1
    <3>9. \A c \in Batches : Loading(c)' =>
            /\ \A i \in DOMAIN Targets : i < job'[c].at => Targets[i] \in loaded'
            /\ job'[c].stage = "load_audit" => target(c)' \in loaded'
      BY <1>5, <3>1, <3>6
    <3> QED
      BY <2>2, <2>3, <3>1, <3>5, <3>7, <3>8, <3>9 DEF SourcesInv
  <2>6. CASE ~(job[b].at < Len(Targets))
    <3>1. Complete'
      <4>1. \A i \in DOMAIN Targets : i < job[b].at \/ i = job[b].at
        BY <2>4, <2>6, Lists
      <4> QED
        BY <1>0, <1>2, <4>1 DEF Complete, target
    <3>2. ~Loading(b)'
      BY <2>1, <2>6 DEF Loading
    <3>3. \A c \in alone' : ~Loading(c)'
      BY <1>0, <1>1, <3>2 DEF Loading, Running, Ended
    <3> QED
      BY <1>5, <2>2, <2>3, <3>1, <3>2, <3>3 DEF SourcesInv
  <2> QED
    BY <2>5, <2>6
<1> QED
  BY <1>6, <1>7

\* A batch that is alone is not stopped: its text is there, its draft's number and its event's are free.
LEMMA AloneIsNotStopped ==
    ASSUME TypeInv, AloneInv, NumbersInv, SourcesInv, crashes = 0, NEW b \in Batches,
           BatchStep(b) \/ SpanRefused(b), ~LoadSource(b), ~LoadAudit(b), b \in alone
    PROVE  job'[b].stage # "aborted" /\ Complete
<1>1. Running(b) /\ ~Loading(b)
  <2>1. Running(b)
    BY RunningStep
  <2> QED
    BY <2>1 DEF BatchStep, ReadSource, CallModel, NumberDraft, InsertDraft, InsertFailed, Insert,
       InsertSpan, MarkFailed, NumberEvent, LogExtraction, SpanRefused, Loading
<1>2. Complete
  BY <1>1 DEF SourcesInv
<1>3. target(b) \in loaded /\ ~job[b].taken
  BY <1>1, <1>2, PlaceInTargets DEF Complete, target, AloneInv
<1>4. CASE ReadSource(b) \/ InsertSpan(b) \/ SpanRefused(b)
  BY <1>2, <1>3, <1>4, MoveIs DEF ReadSource, InsertSpan, SpanRefused, Stages
<1>5. CASE CallModel(b) \/ NumberDraft(b) \/ MarkFailed(b) \/ NumberEvent(b)
  BY <1>2, <1>5, CallModelIs, NumberDraftIs, MarkFailedIs, NumberEventIs
<1>6. CASE InsertDraft(b) \/ InsertFailed(b)
  <2>1. job[b].draft \in Drafts /\ Target[job[b].draft] \in loaded /\ job[b].draft[1] = HowMany + 1
    BY <1>3, <1>6, JobIs DEF InsertDraft, InsertFailed, Insert, BatchPlace, NumbersInv
  <2>2. job[b].draft \notin present
    <3>1. HowMany \in Nat
      BY DraftsAreCounted
    <3> QED
      BY <2>1, <3>1 DEF NumbersInv
  <2>3. \E s \in {"span", "log_number"} : Move(b, s)
    BY <1>6, <2>1, <2>2 DEF InsertDraft, InsertFailed, Insert, CanAddDraft
  <2> QED
    BY <1>2, <2>3, MoveIs DEF Stages
<1>7. CASE LogExtraction(b)
  BY <1>2, <1>3, <1>7, LogIs, NextTargetIs
<1> QED
  BY <1>4, <1>5, <1>6, <1>7 DEF BatchStep

LEMMA OtherStepsKeepSources ==
    ASSUME TypeInv, AloneInv, NumbersInv, SourcesInv, crashes = 0, NEW b \in Batches,
           BatchStep(b) \/ SpanRefused(b), ~LoadSource(b), ~LoadAudit(b)
    PROVE  SourcesInv'
<1>1. /\ Running(b) /\ alone' = alone
      /\ \A c \in Batches : c # b =>
           job'[c].stage = job[c].stage /\ job'[c].at = job[c].at /\ job'[c].no = job[c].no
  BY RunningStep
<1>2. ~Loading(b)
  BY DEF BatchStep, ReadSource, CallModel, NumberDraft, InsertDraft, InsertFailed, Insert,
     InsertSpan, MarkFailed, NumberEvent, LogExtraction, SpanRefused, Loading
<1>3. ~Loading(b)'
  <2>1. CASE ReadSource(b) \/ InsertSpan(b) \/ SpanRefused(b) \/ InsertDraft(b) \/ InsertFailed(b)
    <3>1. Abort(b) \/ \E s \in {"call", "span", "mark", "log_number"} : Move(b, s)
      BY <2>1 DEF ReadSource, InsertSpan, SpanRefused, InsertDraft, InsertFailed, Insert
    <3> QED
      BY <3>1, AbortIs, MoveIs DEF Stages, Loading
  <2>2. CASE CallModel(b) \/ NumberDraft(b) \/ MarkFailed(b) \/ NumberEvent(b)
    BY <2>2, CallModelIs, NumberDraftIs, MarkFailedIs, NumberEventIs DEF Loading
  <2>3. CASE LogExtraction(b)
    BY <2>3, AbortIs, LogIs, NextTargetIs DEF LogExtraction, Loading
  <2> QED
    BY <2>1, <2>2, <2>3 DEF BatchStep
<1>4. loaded' = loaded
  BY DEF BatchStep, ReadSource, CallModel, NumberDraft, InsertDraft, InsertFailed, Insert,
     InsertSpan, MarkFailed, NumberEvent, LogExtraction, SpanRefused, documents
<1>5. stored' = stored
  <2>1. CASE LogExtraction(b)
    <3> DEFINE e == event("rule_draft.extract", 0, job[b].draft,
                          IF job[b].verdict = "verified" THEN "pending" ELSE "extraction_failed")
    <3>1. trail' = trail \/ trail' = trail \cup {e}
      BY <2>1 DEF LogExtraction, append
    <3>2. e.action # "policy_source.ingest"
      BY DEF event
    <3> HIDE DEF e
    <3> QED
      BY <3>1, <3>2 DEF stored
  <2>2. CASE ~LogExtraction(b)
    BY <2>2 DEF BatchStep, ReadSource, CallModel, NumberDraft, InsertDraft, InsertFailed, Insert,
       InsertSpan, MarkFailed, NumberEvent, SpanRefused, documents, stored
  <2> QED
    BY <2>1, <2>2
<1>6. \A c \in alone : c \in Batches /\ job'[c].stage # "aborted" /\ (Running(c)' => Running(c))
  <2>1. alone \subseteq Batches
    BY DEF TypeInv, TypeOK
  <2>2. \A c \in alone : c # b => job'[c].stage # "aborted"
    BY <1>1, <2>1 DEF SourcesInv
  <2>3. b \in alone => job'[b].stage # "aborted"
    BY AloneIsNotStopped
  <2>4. \A c \in Batches : Running(c)' => Running(c)
    BY <1>1 DEF Running
  <2> QED
    BY <2>1, <2>2, <2>3, <2>4
<1>7. \A c \in Batches : Loading(c) \/ Loading(c)' => c # b
  BY <1>2, <1>3
<1> QED
  BY <1>1, <1>4, <1>5, <1>6, <1>7, SourcesStay

LEMMA SeedKeepsSources ==
    ASSUME TypeInv, SourcesInv, crashes = 0, Seed PROVE SourcesInv'
<1>1. UNCHANGED <<job, alone>> /\ alone \subseteq Batches
  BY SeedIs DEF TypeInv, TypeOK
<1>2. stored' = stored
  <2>1. CASE SeedPolicyAudit \/ SeedDraftAudit
    <3>1. PICK action, about, outcome :
            /\ trail' = trail \cup {event(action, 0, about, outcome)}
            /\ action \in {"rule_version.seed", "rule_draft.seed"}
      BY <2>1 DEF SeedPolicyAudit, SeedDraftAudit, append
    <3>2. event(action, 0, about, outcome).action # "policy_source.ingest"
      BY <3>1 DEF event
    <3> QED
      BY <3>1, <3>2 DEF stored
  <2>2. CASE ~SeedPolicyAudit /\ ~SeedDraftAudit
    BY <2>2 DEF Seed, Seeding, SeedPolicy, SeedSources, SeedDraft, InsertDemoDraft, SeedSpan,
                Serve, documents, stored
  <2> QED
    BY <2>1, <2>2
<1>3. loaded' = loaded \/ (loaded \subseteq loaded' /\ Complete')
  <2>1. CASE SeedSources
    BY <2>1, Lists DEF SeedSources, Complete
  <2>2. CASE ~SeedSources
    BY <2>2 DEF Seed, Seeding, SeedPolicy, SeedPolicyAudit, SeedDraft, InsertDemoDraft, SeedSpan,
                SeedDraftAudit, Serve, documents
  <2> QED
    BY <2>1, <2>2
<1>4. \A c \in alone' : job'[c].stage # "aborted" /\ (Running(c)' => Running(c))
  BY <1>1 DEF SourcesInv, Running
<1>5. \A c \in Batches : job'[c].stage = job[c].stage /\ job'[c].at = job[c].at /\ job'[c].no = job[c].no
  BY <1>1
<1> QED
  BY <1>1, <1>2, <1>3, <1>4, <1>5, SourcesStay

LEMMA NextSources ==
    TypeInv /\ AloneInv /\ NumbersInv /\ SourcesInv /\ [Next]_vars => SourcesInv'
<1> SUFFICES ASSUME TypeInv, AloneInv, NumbersInv, SourcesInv, [Next]_vars, crashes' = 0
             PROVE  SourcesInv'
  BY DEF SourcesInv
<1>1. CASE Seed
  BY <1>1, SeedIs, SeedKeepsSources
<1>2. CASE Review \/ Boot \/ UNCHANGED vars
  <2>1. UNCHANGED <<job, loaded, trail, crashes>> /\ alone' \subseteq alone
    BY <1>2 DEF Review, Boot, vars, Claim, ReflectApproval, ReflectRejection, GiveBack,
                batchVars, documents, mishaps
  <2>2. stored' = stored /\ \A c \in Batches : Running(c)' <=> Running(c)
    BY <2>1 DEF stored, Running
  <2>3. alone \subseteq Batches
    BY DEF TypeInv, TypeOK
  <2>4. \A c \in alone' : job'[c].stage # "aborted"
    BY <2>1 DEF SourcesInv
  <2> QED
    BY <2>1, <2>2, <2>3, <2>4, SourcesStay
<1>3. CASE GoDown
  <2>1. crashes \in Nat /\ crashes' = crashes + 1
    BY <1>3 DEF GoDown, TypeInv, TypeOK
  <2> QED
    BY <2>1
<1>4. ASSUME NEW b \in Batches, StartBatch(b) \/ BatchStep(b) \/ SpanRefused(b) \/ BatchStops(b)
      PROVE  SourcesInv'
  <2>1. ~BatchStops(b)
    <3>1. crashes \in Nat
      BY DEF TypeInv, TypeOK
    <3> QED
      BY <3>1 DEF BatchStops
  <2>2. crashes = 0
    BY <1>4, <2>1 DEF StartBatch, BatchStep, LoadSource, LoadAudit, ReadSource, CallModel,
       NumberDraft, InsertDraft, InsertFailed, Insert, InsertSpan, MarkFailed, NumberEvent,
       LogExtraction, SpanRefused, OthersUnchanged, mishaps
  <2> QED
    BY <1>4, <2>1, <2>2, StartKeepsSources, LoadSourceKeepsSources, LoadAuditKeepsSources,
       OtherStepsKeepSources
<1> QED
  BY <1>1, <1>2, <1>3, <1>4 DEF Next, Quiet

LEMMA InitLone == Init => AloneInv /\ NumbersInv /\ SourcesInv
<1> SUFFICES ASSUME Init PROVE AloneInv /\ NumbersInv /\ SourcesInv
  OBVIOUS
<1>1. /\ \A b \in Batches : job[b].stage = "idle"
      /\ trail = {} /\ loaded = {} /\ phase = "down" /\ present = {} /\ alone = Batches
  BY DEF Init, StartupInit, EmptyStore, Idle, present
<1>2. AloneInv /\ NumbersInv
  BY <1>1 DEF AloneInv, NumbersInv, Running, Ended
<1>3. SourcesInv
  BY <1>1 DEF SourcesInv, stored, Loading, Running, Ended
<1> QED
  BY <1>2, <1>3

(***************************************************************************)
(* extract_one lets no exception out: a batch that ran beside no other and *)
(* beside no start-up is never stopped unless a process dies, whatever was *)
(* seeded, extracted and decided before it and whatever is decided under   *)
(* it.  Refused spans do not stop it either (_draft_id, _store_success,    *)
(* load_policy_sources).                                                   *)
(***************************************************************************)
THEOREM LoneBatchEnds == Spec => []LoneBatchGoesThrough
<1>1. SourcesInv => LoneBatchGoesThrough
  BY DEF SourcesInv, LoneBatchGoesThrough
<1> QED
  BY <1>1, InitTypes, NextTypes, InitLone, NextAlone, NextNumbers, NextSources, PTL DEF Spec
=============================================================================
