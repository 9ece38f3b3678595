------------------------------ MODULE Startup -------------------------------
(***************************************************************************)
(* What start_server does to the store before the server takes requests    *)
(* (store/seed.py): the first version of every seeded policy with its      *)
(* audit event, the texts of the policy sources, and the frozen drafts of  *)
(* the demonstration queue with their spans and an audit event.  Every     *)
(* store call commits by itself, so a start-up that dies leaves a prefix   *)
(* of them; the next one runs from the top and skips what it finds.        *)
(*                                                                         *)
(* A draft id carries a number and its policy: draft-000003-newlywed is    *)
(* <<3, newlywed>>.  An audit event is a record; no is the number in its   *)
(* id where a later event could have the same one, else 0.                 *)
(***************************************************************************)
EXTENDS RuleStore, Sequences, FiniteSets

CONSTANTS
    SeedOrder,     \* the policies of policies.json, in file order
    FrozenSources, \* the policies of policySources in rule_drafts.json
    DemoQueue,     \* the drafts of rule_drafts.json: [id, status], in order
    MaxDrafts,     \* bound: the highest number in a draft id
    NeededSpans    \* the spans of a verified draft

\* what the files of data/ hold; the demonstration queue was frozen from one
\* run of the batch, so its drafts are numbered from 1
ASSUME DocumentsAssumption ==
    /\ IsFiniteSet(Policies)
    /\ MaxDrafts \in Nat
    /\ Drafts = (1..MaxDrafts) \X Policies
    /\ Target = [d \in Drafts |-> d[2]]
    /\ SeedOrder \in Seq(Seeded)
    /\ Seeded = {SeedOrder[i] : i \in DOMAIN SeedOrder}
    /\ FrozenSources \subseteq Seeded
    /\ DemoQueue \in Seq([id : Drafts, status : {"pending", "extraction_failed"}])
    /\ \A i \in DOMAIN DemoQueue :
        DemoQueue[i].id[1] = i /\ Target[DemoQueue[i].id] \in FrozenSources
    /\ NeededSpans \in Nat \ {0}

VARIABLES
    phase,     \* where the start-up is; "up" when the server serves
    at,        \* the policy or demo draft at hand
    loaded,    \* the policies whose source text is in policy_source
    spans,     \* rows of rule_span_mapping per draft
    trail      \* audit events other than the decisions on drafts

documents == <<loaded, spans, trail>>
startupVars == <<phase, at>>

Phases == {"down", "policies", "policy_audit", "drafts", "insert",
           "draft_spans", "draft_audit", "up"}

\* the start-up is between its first store call and its last
Starting == phase \notin {"down", "up"}

event(action, no, about, outcome) ==
    [action |-> action, no |-> no, about |-> about, outcome |-> outcome]

append(action, no, about, outcome) ==
    trail' = trail \cup {event(action, no, about, outcome)}

present == {d \in Drafts : draftStatus[d] # "absent"}

\* rule_drafts.add: the id is new and the source text is there
CanAddDraft(d) == d \notin present /\ Target[d] \in loaded

add_draft(d, status) ==
    draftStatus' = [draftStatus EXCEPT ![d] = status]

add_span(d) == spans' = [spans EXCEPT ![d] = @ + 1]

----------------------------------------------------------------------------
Step(p, i) == phase' = p /\ at' = i

policy == SeedOrder[at]
demo == DemoQueue[at]

\* mutant: the first start that finds a version takes the seeding for done
SeedPolicy_StopAtFirst ==
    /\ phase = "policies"
    /\ at <= Len(SeedOrder)
    /\ IF policy \in rows
       THEN Step("policies", Len(SeedOrder) + 1) /\ UNCHANGED rows
       ELSE rows' = rows \cup {policy} /\ Step("policy_audit", at)
    /\ UNCHANGED <<from, until, prior, draftStatus, approvals, audited, documents>>

\* a version without beginning or end; one that exists is skipped
SeedPolicy ==
    /\ phase = "policies"
    /\ at <= Len(SeedOrder)
    /\ IF policy \in rows
       THEN Step("policies", at + 1) /\ UNCHANGED rows
       ELSE rows' = rows \cup {policy} /\ Step("policy_audit", at)
    /\ UNCHANGED <<from, until, prior, draftStatus, approvals, audited, documents>>

SeedPolicyAudit ==
    /\ phase = "policy_audit"
    /\ append("rule_version.seed", 0, policy, "success")
    /\ Step("policies", at + 1)
    /\ UNCHANGED <<storeVars, loaded, spans>>

\* seed_policy_sources: every text is upserted
SeedSources ==
    /\ phase = "policies"
    /\ at > Len(SeedOrder)
    /\ loaded' = loaded \cup FrozenSources
    /\ Step("drafts", 1)
    /\ UNCHANGED <<storeVars, spans, trail>>

\* mutant: a start puts every demo draft back into the queue
SeedDraft_Upsert ==
    /\ phase = "drafts"
    /\ at <= Len(DemoQueue)
    /\ Step(IF demo.id \in present THEN "drafts" ELSE "insert",
            IF demo.id \in present THEN at + 1 ELSE at)
    /\ draftStatus' = [draftStatus EXCEPT ![demo.id] = demo.status]
    /\ UNCHANGED <<versionTable, approvals, audited, documents>>

\* a draft that exists is skipped, whatever became of it
SeedDraft ==
    /\ phase = "drafts"
    /\ at <= Len(DemoQueue)
    /\ IF demo.id \in present THEN Step("drafts", at + 1) ELSE Step("insert", at)
    /\ UNCHANGED <<storeVars, documents>>

\* a batch may have taken the id since: the start-up ends with an exception
InsertDemoDraft ==
    /\ phase = "insert"
    /\ IF CanAddDraft(demo.id)
       THEN /\ add_draft(demo.id, demo.status)
            /\ Step(IF demo.status = "pending" THEN "draft_spans" ELSE "draft_audit", at)
       ELSE Step("down", 1) /\ UNCHANGED draftStatus
    /\ UNCHANGED <<versionTable, approvals, audited, loaded, spans, trail>>

SeedSpan ==
    /\ phase = "draft_spans"
    /\ add_span(demo.id)
    /\ Step(IF spans[demo.id] + 1 < NeededSpans THEN "draft_spans" ELSE "draft_audit", at)
    /\ UNCHANGED <<storeVars, loaded, trail>>

SeedDraftAudit ==
    /\ phase = "draft_audit"
    /\ append("rule_draft.seed", 0, demo.id, demo.status)
    /\ Step("drafts", at + 1)
    /\ UNCHANGED <<storeVars, loaded, spans>>

\* os.execv: the process becomes the server
Serve ==
    /\ phase = "drafts"
    /\ at > Len(DemoQueue)
    /\ Step("up", 1)
    /\ UNCHANGED <<storeVars, documents>>

Seeding ==
    \/ SeedPolicy \/ SeedPolicyAudit \/ SeedSources
    \/ SeedDraft \/ InsertDemoDraft \/ SeedSpan \/ SeedDraftAudit \/ Serve

\* an empty database
EmptyStore ==
    /\ rows = {}
    /\ from = [v \in VersionId |-> NULL]
    /\ until = [v \in VersionId |-> NULL]
    /\ prior = [v \in VersionId |-> NoVersion]
    /\ draftStatus = [d \in Drafts |-> "absent"]
    /\ approvals = [d \in Drafts |-> [x \in Decisions |-> 0]]
    /\ audited = [d \in Drafts |-> [x \in Decisions |-> 0]]
    /\ loaded = {}
    /\ spans = [d \in Drafts |-> 0]
    /\ trail = {}

StartupInit == EmptyStore /\ phase = "down" /\ at = 1

StartupTypeOK ==
    /\ phase \in Phases
    /\ at \in Nat
    /\ loaded \subseteq Policies
    /\ spans \in [Drafts -> 0..NeededSpans]
    /\ \A e \in trail : e.no \in Nat /\ e.about \in Policies \cup Drafts
=============================================================================
