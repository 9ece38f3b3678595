----------------------------- MODULE Extraction -----------------------------
(***************************************************************************)
(* The batches that turn policy texts into drafts (ingest/loader.py,       *)
(* ingest/extraction.py, run by ingest/extract_cli.py), together with the  *)
(* start-up that seeds the store and the reviewers who decide on the       *)
(* drafts.  Batches, start-up and server are processes of their own on one *)
(* database; between two store calls of one, the others run.               *)
(*                                                                         *)
(* The answer of the model is one of four: no provider, a call that        *)
(* failed, an envelope that verify rejected, an envelope it accepted       *)
(* (ExtractionVerify says which).  Draft numbers and audit numbers are the *)
(* length of a list plus one, read before the row is written.              *)
(***************************************************************************)
EXTENDS Startup

CONSTANTS
    Batches,        \* runs of the extraction batch
    Targets,        \* default_targets: the policies a batch goes through
    MaxAttempts,    \* extraction.max_attempts
    Limit,          \* Limit[b]: how many of them b takes (--limit)
    MaxDecisions,   \* bound: decisions reviewers take
    MaxMishaps      \* bound: store calls that fail, and deaths of a process

ASSUME BatchAssumption ==
    /\ Targets \in Seq(FrozenSources)
    /\ \A i, j \in DOMAIN Targets : Targets[i] = Targets[j] => i = j
    /\ MaxAttempts \in Nat \ {0}
    /\ Limit \in [Batches -> 1..Len(Targets)]
    /\ MaxDecisions \in Nat
    /\ MaxMishaps \in Nat

VARIABLES
    job,       \* the local state of every batch
    fresh,     \* fresh[b]: the drafts b has written
    alone,     \* the batches beside which no other batch and no start-up ran
    deciding,  \* the decisions under way: <<draft, decision>>, claimed and not yet reflected
    decided,   \* how many decisions were begun
    faults, crashes

batchVars == <<job, fresh, alone>>
reviewVars == <<deciding, decided>>
mishaps == <<faults, crashes>>
vars == <<storeVars, documents, startupVars, batchVars, reviewVars, mishaps>>

\* stage, position in Targets, attempt, the model's verdict on the target,
\* the draft id, the audit number read and whether an event of the same policy has been given it since
Idle == [stage |-> "idle", at |-> 1, attempt |-> 1, verdict |-> "none",
         draft |-> NoVersion, no |-> 0, taken |-> FALSE]

Ended == {"idle", "done", "aborted"}
Running(b) == job[b].stage \notin Ended
target(b) == Targets[job[b].at]

\* the events on decisions: the n-th of a kind on a draft
DecisionEvents ==
    {e \in (Drafts \X Decisions) \X (1..MaxDecisions) : e[2] <= audited[e[1][1]][e[1][2]]}

\* len(audit.list()): every event
AuditLength == Cardinality(trail) + Cardinality(DecisionEvents)

Become(b, new) == job' = [job EXCEPT ![b] = new]
Move(b, stage) == Become(b, [job[b] EXCEPT !.stage = stage])

\* an exception leaves extract_all
Abort(b) == Become(b, [Idle EXCEPT !.stage = "aborted"])

\* the next target, or the end of extract_all
Next_target(b) ==
    IF job[b].at < Limit[b]
    THEN [Idle EXCEPT !.stage = "source", !.at = job[b].at + 1]
    ELSE [Idle EXCEPT !.stage = "done"]

OthersUnchanged == UNCHANGED <<startupVars, fresh, alone, reviewVars, mishaps>>

----------------------------------------------------------------------------
(* extract_cli.run, load_policy_sources *)

StartBatch(b) ==
    /\ job[b].stage = "idle"
    /\ Become(b, [Idle EXCEPT !.stage = IF loaded = {} THEN "load" ELSE "source",
                              !.no = IF loaded = {} THEN AuditLength ELSE 0])
    /\ LET others == {c \in Batches \ {b} : Running(c)} IN
       alone' = alone \ (others \cup IF others # {} \/ Starting THEN {b} ELSE {})
    /\ UNCHANGED <<storeVars, documents, startupVars, fresh, reviewVars, mishaps>>

\* the text is upserted; its audit number was fixed when the load began
LoadSource(b) ==
    /\ job[b].stage = "load"
    /\ loaded' = loaded \cup {target(b)}
    /\ Move(b, "load_audit")
    /\ UNCHANGED <<storeVars, spans, trail>> /\ OthersUnchanged

LoadAudit(b) ==
    /\ job[b].stage = "load_audit"
    /\ LET no == job[b].no + job[b].at IN
       IF event("policy_source.ingest", no, target(b), "stored") \in trail
       THEN Abort(b) /\ UNCHANGED trail
       ELSE /\ append("policy_source.ingest", no, target(b), "stored")
            /\ Become(b, IF job[b].at < Len(Targets)
                         THEN [job[b] EXCEPT !.stage = "load", !.at = @ + 1]
                         ELSE [Idle EXCEPT !.stage = "source"])
    /\ UNCHANGED <<storeVars, loaded, spans>> /\ OthersUnchanged

----------------------------------------------------------------------------
(* extract_one *)

\* the text of the target; without it the whole batch stops
ReadSource(b) ==
    /\ job[b].stage = "source"
    /\ IF target(b) \in loaded THEN Move(b, "call") ELSE Abort(b)
    /\ UNCHANGED <<storeVars, documents>> /\ OthersUnchanged

\* mutant: a refused answer starts the target over, attempts included
CallModel_StartOver(b) ==
    /\ job[b].stage = "call"
    /\ \E answer \in {"unavailable", "call_failed", "rejected", "accepted"} :
        Become(b, CASE answer = "accepted" ->
                        [job[b] EXCEPT !.stage = "number", !.verdict = "verified"]
                    [] answer = "unavailable" ->
                        [job[b] EXCEPT !.stage = "number", !.verdict = "failed"]
                    [] OTHER -> [job[b] EXCEPT !.stage = "source", !.attempt = 1])
    /\ UNCHANGED <<storeVars, documents>> /\ OthersUnchanged

\* no provider ends the attempts at once; a failed call or a rejected
\* answer is tried again, with the reasons in the prompt
CallModel(b) ==
    /\ job[b].stage = "call"
    /\ \E answer \in {"unavailable", "call_failed", "rejected", "accepted"} :
        Become(b, CASE answer = "accepted" ->
                        [job[b] EXCEPT !.stage = "number", !.verdict = "verified"]
                    [] answer = "unavailable" \/ job[b].attempt = MaxAttempts ->
                        [job[b] EXCEPT !.stage = "number", !.verdict = "failed"]
                    [] OTHER -> [job[b] EXCEPT !.attempt = @ + 1])
    /\ UNCHANGED <<storeVars, documents>> /\ OthersUnchanged

\* mutant: the number counts the drafts that wait, not all of them
NumberDraft_PendingOnly(b) ==
    /\ job[b].stage = "number"
    /\ LET n == Cardinality({d \in Drafts : draftStatus[d] = "pending"}) + 1 IN
       /\ n <= MaxDrafts
       /\ Become(b, [job[b] EXCEPT !.stage = "insert", !.draft = <<n, target(b)>>])
    /\ UNCHANGED <<storeVars, documents>> /\ OthersUnchanged

\* _draft_id
NumberDraft(b) ==
    /\ job[b].stage = "number"
    /\ LET n == Cardinality(present) + 1 IN
       /\ n <= MaxDrafts
       /\ Become(b, [job[b] EXCEPT !.stage = "insert", !.draft = <<n, target(b)>>])
    /\ UNCHANGED <<storeVars, documents>> /\ OthersUnchanged

Insert(b, verdict, status, next) ==
    /\ job[b].stage = "insert"
    /\ job[b].verdict = verdict
    /\ LET d == job[b].draft IN
       IF ~CanAddDraft(d)
       THEN Abort(b) /\ UNCHANGED <<draftStatus, fresh>>
       ELSE /\ add_draft(d, status)
            /\ fresh' = [fresh EXCEPT ![b] = @ \cup {d}]
            /\ Move(b, next)
    /\ UNCHANGED <<versionTable, approvals, audited, loaded, spans, trail,
                   startupVars, alone, reviewVars, mishaps>>

\* _store_success: the draft is in the queue before its first span
InsertDraft(b) == Insert(b, "verified", "pending", "span")

\* _store_failure: an empty draft with the reasons
InsertFailed(b) == Insert(b, "failed", "extraction_failed", "log_number")

\* mutant: the last span is left out
InsertSpan_OffByOne(b) ==
    /\ job[b].stage = "span"
    /\ IF spans[job[b].draft] + 1 < NeededSpans
       THEN add_span(job[b].draft) /\ UNCHANGED job
       ELSE Move(b, "log_number") /\ UNCHANGED spans
    /\ UNCHANGED <<storeVars, loaded, trail>> /\ OthersUnchanged

\* add_span, one call per span
InsertSpan(b) ==
    /\ job[b].stage = "span"
    /\ add_span(job[b].draft)
    /\ Move(b, IF spans[job[b].draft] + 1 < NeededSpans THEN "span" ELSE "log_number")
    /\ UNCHANGED <<storeVars, loaded, trail>> /\ OthersUnchanged

\* a span was refused: extraction_failed, whatever the draft has become
MarkFailed(b) ==
    /\ job[b].stage = "mark"
    /\ set_status(job[b].draft, "extraction_failed")
    /\ Become(b, [job[b] EXCEPT !.stage = "log_number", !.verdict = "failed"])
    /\ UNCHANGED <<versionTable, approvals, audited, documents>> /\ OthersUnchanged

NumberEvent(b) ==
    /\ job[b].stage = "log_number"
    /\ Become(b, [job[b] EXCEPT !.stage = "log", !.no = AuditLength + 1])
    /\ UNCHANGED <<storeVars, documents>> /\ OthersUnchanged

\* mutant: only a draft that went into the queue is audited
LogExtraction_SuccessOnly(b) ==
    /\ job[b].stage = "log"
    /\ Become(b, Next_target(b))
    /\ IF job[b].verdict = "verified"
       THEN append("rule_draft.extract", 0, job[b].draft, "pending")
       ELSE UNCHANGED trail
    /\ UNCHANGED <<storeVars, loaded, spans>> /\ OthersUnchanged

\* the id is the number and the policy: of two events of one policy that
\* read the same length the second is refused
LogExtraction(b) ==
    /\ job[b].stage = "log"
    /\ IF job[b].taken
       THEN Abort(b) /\ UNCHANGED trail
       ELSE /\ append("rule_draft.extract", 0, job[b].draft,
                      IF job[b].verdict = "verified" THEN "pending" ELSE "extraction_failed")
            /\ job' = [c \in Batches |->
                 IF c = b THEN Next_target(b)
                 ELSE IF /\ job[c].stage = "log"
                         /\ job[c].no = job[b].no
                         /\ target(c) = target(b)
                      THEN [job[c] EXCEPT !.taken = TRUE]
                      ELSE job[c]]
    /\ UNCHANGED <<storeVars, loaded, spans>> /\ OthersUnchanged

\* the store refuses a span: the one failure that is handled
SpanRefused(b) ==
    /\ job[b].stage = "span"
    /\ faults + crashes < MaxMishaps
    /\ faults' = faults + 1
    /\ Move(b, "mark")
    /\ UNCHANGED <<storeVars, documents, startupVars, fresh, alone, reviewVars, crashes>>

\* any other store call fails, or the process dies: the batch is over
BatchStops(b) ==
    /\ Running(b)
    /\ faults + crashes < MaxMishaps
    /\ crashes' = crashes + 1
    /\ Abort(b)
    /\ UNCHANGED <<storeVars, documents, startupVars, fresh, alone, reviewVars, faults>>

----------------------------------------------------------------------------
(***************************************************************************)
(* The reviewers, as far as ingestion can tell: a decision claims a draft  *)
(* that is in the queue, and later reflects it or gives it back.  Approval *)
(* has the steps in between.  Every decision is made at instant 1.         *)
(***************************************************************************)

Claim(d, decision) ==
    /\ phase = "up"
    /\ decided < MaxDecisions
    /\ decided' = decided + 1
    /\ claim_pending(d, decision)
    /\ deciding' = deciding \cup {<<d, decision>>}
    /\ UNCHANGED <<versionTable, approvals, audited, documents, startupVars, batchVars, mishaps>>

\* record, version and audit event of an approval
ReflectApproval(d, decision) ==
    /\ <<d, decision>> \in deciding
    /\ decision = "approved"
    /\ \E u \in activeFor(Target[d], 1) :
        /\ from[u] = NULL
        /\ rows' = rows \cup {d}
        /\ from' = [from EXCEPT ![d] = 1]
        /\ until' = [until EXCEPT ![u] = 1]
        /\ prior' = [prior EXCEPT ![d] = u]
    /\ add_approval(d, "approved")
    /\ append_audit(d, "approved")
    /\ deciding' = deciding \ {<<d, decision>>}
    /\ UNCHANGED <<draftStatus, documents, startupVars, batchVars, decided, mishaps>>

ReflectRejection(d, decision) ==
    /\ <<d, decision>> \in deciding
    /\ decision = "rejected"
    /\ add_approval(d, "rejected")
    /\ append_audit(d, "rejected")
    /\ deciding' = deciding \ {<<d, decision>>}
    /\ UNCHANGED <<versionTable, draftStatus, documents, startupVars, batchVars,
                   decided, mishaps>>

\* an approval whose policy already has a version from this instant
GiveBack(d, decision) ==
    /\ <<d, decision>> \in deciding
    /\ decision = "approved"
    /\ \A u \in activeFor(Target[d], 1) : from[u] # NULL
    /\ set_status(d, "pending")
    /\ deciding' = deciding \ {<<d, decision>>}
    /\ UNCHANGED <<versionTable, approvals, audited, documents, startupVars, batchVars,
                   decided, mishaps>>

----------------------------------------------------------------------------
(* The composition *)

BatchStep(b) ==
    \/ LoadSource(b) \/ LoadAudit(b) \/ ReadSource(b) \/ CallModel(b)
    \/ NumberDraft(b) \/ InsertDraft(b) \/ InsertFailed(b) \/ InsertSpan(b) \/ MarkFailed(b)
    \/ NumberEvent(b) \/ LogExtraction(b)

Seed == Seeding /\ UNCHANGED <<batchVars, reviewVars, mishaps>>

Review ==
    \E d \in present, x \in Decisions :
        Claim(d, x) \/ ReflectApproval(d, x) \/ ReflectRejection(d, x) \/ GiveBack(d, x)

\* start_server is run on the store as it is
Boot ==
    /\ phase = "down"
    /\ Step("policies", 1)
    /\ alone' = {b \in alone : ~Running(b)}
    /\ UNCHANGED <<storeVars, documents, job, fresh, reviewVars, mishaps>>

\* the start-up or the server dies, with the decisions in flight
GoDown ==
    /\ phase # "down"
    /\ faults + crashes < MaxMishaps
    /\ crashes' = crashes + 1
    /\ deciding' = {}
    /\ Step("down", 1)
    /\ UNCHANGED <<storeVars, documents, batchVars, decided, faults>>

\* the server waits for requests
Quiet ==
    /\ phase = "up"
    /\ \A b \in Batches : ~Running(b)
    /\ UNCHANGED vars

Init ==
    /\ StartupInit
    /\ job = [b \in Batches |-> Idle]
    /\ fresh = [b \in Batches |-> {}]
    /\ alone = Batches
    /\ deciding = {}
    /\ decided = 0
    /\ faults = 0
    /\ crashes = 0

Next ==
    \/ Seed
    \/ Review
    \/ Boot \/ GoDown
    \/ \E b \in Batches : StartBatch(b) \/ BatchStep(b) \/ SpanRefused(b) \/ BatchStops(b)
    \/ Quiet

\* a batch that has been started keeps running
Spec == Init /\ [][Next]_vars /\ \A b \in Batches : WF_vars(BatchStep(b))

----------------------------------------------------------------------------
(* Properties *)

Stages == {"idle", "load", "load_audit", "source", "call", "number", "insert", "span",
           "mark", "log_number", "log", "done", "aborted"}

JobType ==
    [stage : Stages, at : DOMAIN Targets, attempt : 1..MaxAttempts,
     verdict : {"none", "verified", "failed"}, draft : Drafts \cup {NoVersion},
     no : Nat, taken : BOOLEAN]

\* the types of everything the ingestion adds to the store
TypeOK ==
    /\ StoreTypeOK
    /\ StartupTypeOK
    /\ job \in [Batches -> JobType]
    /\ fresh \in [Batches -> SUBSET present]
    /\ alone \subseteq Batches
    /\ deciding \subseteq present \X Decisions
    /\ decided \in 0..MaxDecisions
    /\ {faults, crashes} \subseteq Nat /\ faults + crashes <= MaxMishaps

\* somebody is still storing the spans of d
Storing(d) ==
    \/ phase = "draft_spans" /\ demo.id = d
    \/ \E b \in Batches : job[b].draft = d /\ job[b].stage \in {"span", "mark"}

(***************************************************************************)
(* A draft that waits for a decision and that nobody is storing any more   *)
(* has every span it was verified with, through any interleaving of        *)
(* batches, start-ups and decisions, as long as no store call fails and no *)
(* process dies between two of them.                                       *)
(***************************************************************************)
WaitingDraftIsGrounded ==
    faults = 0 /\ crashes = 0 => \A d \in Drafts :
        draftStatus[d] = "pending" /\ ~Storing(d) => spans[d] = NeededSpans

(***************************************************************************)
(* What ingestion may do to the queue never touches a decision: with       *)
(* batches writing drafts and the server starting again, a decision that   *)
(* was audited is audited once, the draft keeps the status it was given,   *)
(* an approved one its version, as long as no store call fails.  A         *)
(* start-up finds decided demo drafts and skips them; it never puts them   *)
(* back into the queue.                                                    *)
(***************************************************************************)
DecisionsSurviveIngestion ==
    faults = 0 => \A d \in Drafts : \A x \in Decisions : audited[d][x] > 0 =>
        /\ audited[d]["approved"] + audited[d]["rejected"] = 1
        /\ draftStatus[d] = x
        /\ x = "approved" => d \in rows

(***************************************************************************)
(* The server takes requests only from a store in which every seeded       *)
(* policy has exactly one version in force, at every instant, however many *)
(* start-ups died on the way and however long batches ran before it.       *)
(***************************************************************************)
ServesACompleteCatalogue ==
    phase = "up" => \A p \in Seeded : \A t \in 0..2 : Cardinality(activeFor(p, t)) = 1

(***************************************************************************)
(* A batch that ran to its end has made one draft for each of its targets  *)
(* and told the audit trail once of each, failed ones included: the        *)
(* failure rate can be counted afterwards (SPEC 4.2.2, 7.2).               *)
(***************************************************************************)
BatchIsAccountedFor ==
    \A b \in Batches : job[b].stage = "done" =>
        /\ \A i \in 1..Limit[b] :
            \E d \in fresh[b] : Target[d] = Targets[i]
        /\ Cardinality(fresh[b]) = Limit[b]
        /\ \A d \in fresh[b] :
            Cardinality({e \in trail : e.action = "rule_draft.extract" /\ e.about = d}) = 1

(***************************************************************************)
(* extract_one lets no exception out: a batch that ran beside no other     *)
(* batch and no start-up, on a store that did not fail it, reaches its     *)
(* end; its numbers never collide with the demonstration queue's, with     *)
(* earlier batches' or with its own, while drafts are decided under it.    *)
(***************************************************************************)
LoneBatchGoesThrough ==
    faults = 0 /\ crashes = 0 =>
        \A b \in alone : job[b].stage # "aborted"

(***************************************************************************)
(* Every batch ends: the attempts of one target are bounded, whatever the  *)
(* model answers.                                                          *)
(***************************************************************************)
BatchesEnd == \A b \in Batches : Running(b) ~> ~Running(b)
=============================================================================
