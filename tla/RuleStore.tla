----------------------------- MODULE RuleStore ------------------------------
(***************************************************************************)
(* The tables of the SQLite store that an approval touches, and the store  *)
(* calls on them (store/sqlite_store.py with the triggers of               *)
(* store/sqlite_schema.py).  SQLite serialises writers, so a call that     *)
(* commits once is one step; a Can... predicate is what a call checks, in  *)
(* Python or in a trigger, before it commits.  A call whose checks fail    *)
(* raises StoreError and leaves every table as it was.                     *)
(*                                                                         *)
(* A rule version made from a draft has the id approval:<draft>, a seeded  *)
(* one seed:<policy>: the draft and the policy stand for those ids.        *)
(* Instants are naturals; 0 is SQL NULL in effective_from, effective_to.   *)
(***************************************************************************)
EXTENDS Naturals

CONSTANTS
    Policies,   \* policy ids
    Seeded,     \* the policies seed_policies gives a first version
    Drafts,     \* RuleDraft ids
    Target,     \* Target[d]: the policy_id of draft d
    NoVersion   \* supersedes NULL

VersionId == Policies \cup Drafts

ASSUME IdsAssumption ==
    /\ Seeded \subseteq Policies
    /\ Policies \cap Drafts = {}
    /\ NoVersion \notin VersionId
    /\ Target \in [Drafts -> Policies]

VARIABLES
    rows,         \* the ids present in rule_version
    from,         \* effective_from of each row
    until,        \* effective_to of each row
    prior,        \* supersedes of each row
    draftStatus,  \* rule_draft.status, "absent" before the row exists
    approvals,    \* approval_record: rows per draft and decision
    audited       \* audit_event: decision events per draft and decision

versionTable == <<rows, from, until, prior>>
storeVars == <<versionTable, draftStatus, approvals, audited>>

NULL == 0
Decisions == {"approved", "rejected"}
DraftStatus == {"absent", "pending", "extraction_failed"} \cup Decisions

PolicyOf(v) == IF v \in Policies THEN v ELSE Target[v]

----------------------------------------------------------------------------
(* rule_versions *)

\* mutant: the end of a window counted as inside it
active_ClosedEnd(t) ==
    {v \in rows : from[v] <= t /\ (until[v] = NULL \/ t <= until[v])}

\* active(at): the only query a decision is made from
active(t) ==
    {v \in rows : from[v] <= t /\ (until[v] = NULL \/ t < until[v])}

activeFor(p, t) == {v \in active(t) : PolicyOf(v) = p}

\* _validate, the primary key and the trigger of contract #5
CanInsert(d) == approvals[d]["approved"] > 0 /\ d \notin rows

add(d, at) ==
    /\ CanInsert(d)
    /\ rows' = rows \cup {d}
    /\ from' = [from EXCEPT ![d] = at]
    /\ UNCHANGED <<until, prior>>

\* mutant: a version may start when the one it supersedes starts
CanSupersede_SameInstant(u, d, at) ==
    /\ u \in rows
    /\ until[u] = NULL
    /\ CanInsert(d)

\* what supersede checks, and the trigger rule_version_only_closes_once
CanSupersede(u, d, at) ==
    /\ u \in rows
    /\ until[u] = NULL
    /\ from[u] = NULL \/ at > from[u]
    /\ CanInsert(d)

\* mutant: the UPDATE that closes the previous window is missing
supersede_LeaveOpen(u, d, at) ==
    /\ CanSupersede(u, d, at)
    /\ rows' = rows \cup {d}
    /\ from' = [from EXCEPT ![d] = at]
    /\ prior' = [prior EXCEPT ![d] = u]
    /\ UNCHANGED until

\* one transaction: the new row and the end of the previous window
supersede(u, d, at) ==
    /\ CanSupersede(u, d, at)
    /\ rows' = rows \cup {d}
    /\ from' = [from EXCEPT ![d] = at]
    /\ until' = [until EXCEPT ![u] = at]
    /\ prior' = [prior EXCEPT ![d] = u]

----------------------------------------------------------------------------
(* rule_drafts, approvals, audit *)

\* mutant: the UPDATE has lost its AND status = 'pending'
claim_pending_Unconditional(d, status) ==
    draftStatus' = [draftStatus EXCEPT ![d] = status]

\* claim_pending: test and write in one conditional UPDATE
claim_pending(d, status) ==
    /\ draftStatus[d] = "pending"
    /\ draftStatus' = [draftStatus EXCEPT ![d] = status]

\* set_status: unconditional
set_status(d, status) ==
    draftStatus' = [draftStatus EXCEPT ![d] = status]

add_approval(d, decision) ==
    approvals' = [approvals EXCEPT ![d][decision] = @ + 1]

append_audit(d, decision) ==
    audited' = [audited EXCEPT ![d][decision] = @ + 1]

----------------------------------------------------------------------------
(***************************************************************************)
(* The store start_server leaves behind before the server takes requests:  *)
(* one seeded version per seeded policy, no beginning and no end, and the  *)
(* drafts of queue waiting.                                                *)
(***************************************************************************)
StoreInit(queue) ==
    /\ rows = Seeded
    /\ from = [v \in VersionId |-> NULL]
    /\ until = [v \in VersionId |-> NULL]
    /\ prior = [v \in VersionId |-> NoVersion]
    /\ draftStatus = [d \in Drafts |-> IF d \in queue THEN "pending" ELSE "absent"]
    /\ approvals = [d \in Drafts |-> [x \in Decisions |-> 0]]
    /\ audited = [d \in Drafts |-> [x \in Decisions |-> 0]]

StoreTypeOK ==
    /\ rows \subseteq VersionId
    /\ from \in [VersionId -> Nat]
    /\ until \in [VersionId -> Nat]
    /\ prior \in [VersionId -> VersionId \cup {NoVersion}]
    /\ draftStatus \in [Drafts -> DraftStatus]
    /\ approvals \in [Drafts -> [Decisions -> Nat]]
    /\ audited \in [Drafts -> [Decisions -> Nat]]
=============================================================================
