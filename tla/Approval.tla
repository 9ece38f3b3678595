------------------------------ MODULE Approval ------------------------------
(***************************************************************************)
(* The decision endpoints of the rule manager (approve, reject and         *)
(* batch-approve in main.py), run by the server's worker threads.  Every   *)
(* request opens its own connection, so between any two store calls of one *)
(* request every other request may run: each step below is one store call. *)
(*                                                                         *)
(*   check      the fast refusal of drafts that are not pending            *)
(*   claim      claim_pending, draft by draft                              *)
(*   preflight  batch only: look for what would fail in the reflection     *)
(*   read       the version the new one supersedes, at the request's now   *)
(*   record     the ApprovalRecord                                         *)
(*   write      the RuleVersion                                            *)
(*   audit      the AuditEvent                                             *)
(*   release    claims going back to pending after a loss or an exception  *)
(*                                                                         *)
(* A store call may also fail for reasons of its own (a lock that does not *)
(* clear, a full disk) and the process may die at any point and restart.   *)
(* A batch with no draft or with the same draft twice is refused before    *)
(* the store is touched and does not appear here.                          *)
(***************************************************************************)
EXTENDS RuleStore, Sequences

CONSTANTS
    Workers,       \* threads that serve requests
    Queue,         \* drafts pending when the server starts
    MaxBatch,      \* bound: drafts in one batch
    MaxTime,       \* bound: last instant of the clock
    MaxRequests,   \* bound: requests served
    MaxFaults,     \* bound: store calls that fail for reasons of their own
    MaxCrashes     \* bound: deaths of the process

ASSUME BoundsAssumption ==
    /\ Queue \subseteq Drafts
    /\ MaxBatch \in Nat \ {0}
    /\ MaxTime \in Nat \ {0}
    /\ MaxRequests \in Nat
    /\ MaxFaults \in Nat
    /\ MaxCrashes \in Nat

VARIABLES
    pc,        \* where each worker's handler is
    op,        \* the endpoint it serves
    ids,       \* the drafts of the request, in request order
    now,       \* request_now(), read once when the request starts
    k,         \* the draft at hand
    upto,      \* the last draft to release
    previous,  \* the version read to be superseded
    results,   \* the drafts already reflected
    clock, served, faults, crashes

handlerVars == <<pc, op, ids, now, k, upto, previous, results>>
boundVars == <<clock, served, faults, crashes>>
vars == <<storeVars, handlerVars, boundVars>>

Ops == {"approve", "reject", "batch"}
Stages == {"idle", "check", "claim", "preflight", "read", "record", "write",
           "audit", "release"}
Applying == {"read", "record", "write", "audit"}   \* inside _apply_decision

\* the draftIds a batch may carry; a single decision is a request of one
Bodies ==
    {b \in UNION {[1..n -> Drafts] : n \in 1..MaxBatch} :
        \A i, j \in DOMAIN b : b[i] = b[j] => i = j}

decision(r) == IF op[r] = "reject" THEN "rejected" ELSE "approved"
draft(r) == ids[r][k[r]]
IsLast(r) == k[r] = Len(ids[r])

----------------------------------------------------------------------------
(* How a handler moves on *)

Goto(r, stage, i) ==
    /\ pc' = [pc EXCEPT ![r] = stage]
    /\ k' = [k EXCEPT ![r] = i]
    /\ UNCHANGED <<op, ids, now, upto, previous, results>>

\* the response is sent and the handler's locals are gone
Finish(r) ==
    /\ pc' = [pc EXCEPT ![r] = "idle"]
    /\ op' = [op EXCEPT ![r] = "approve"]
    /\ ids' = [ids EXCEPT ![r] = <<>>]
    /\ now' = [now EXCEPT ![r] = 0]
    /\ k' = [k EXCEPT ![r] = 1]
    /\ upto' = [upto EXCEPT ![r] = 0]
    /\ previous' = [previous EXCEPT ![r] = NoVersion]
    /\ results' = [results EXCEPT ![r] = {}]

\* give back the claims on drafts lo..hi of the request, then answer
StartRelease(r, lo, hi) ==
    IF lo > hi THEN Finish(r)
    ELSE /\ pc' = [pc EXCEPT ![r] = "release"]
         /\ k' = [k EXCEPT ![r] = lo]
         /\ upto' = [upto EXCEPT ![r] = hi]
         /\ UNCHANGED <<op, ids, now, previous, results>>

----------------------------------------------------------------------------
(* The handler, one store call per action *)

Begin(r) ==
    /\ pc[r] = "idle"
    /\ served < MaxRequests
    /\ served' = served + 1
    /\ \E o \in Ops, b \in Bodies :
        /\ o # "batch" => Len(b) = 1
        /\ op' = [op EXCEPT ![r] = o]
        /\ ids' = [ids EXCEPT ![r] = b]
    /\ now' = [now EXCEPT ![r] = clock]
    /\ pc' = [pc EXCEPT ![r] = "check"]
    /\ UNCHANGED <<k, upto, previous, results, storeVars, clock, faults, crashes>>

\* two drafts of one request that aim at the same policy
SamePolicyTwice(r) ==
    \E i, j \in DOMAIN ids[r] :
        i # j /\ Target[ids[r][i]] = Target[ids[r][j]]

\* _pending_draft_or_error, then the collision check of a batch
CheckPending(r) ==
    /\ pc[r] = "check"
    /\ draftStatus[draft(r)] = "pending"
    /\ \/ ~IsLast(r) /\ Goto(r, "check", k[r] + 1)
       \/ IsLast(r) /\ ~SamePolicyTwice(r) /\ Goto(r, "claim", 1)
       \/ IsLast(r) /\ SamePolicyTwice(r) /\ Finish(r)
    /\ UNCHANGED <<storeVars, boundVars>>

CheckRefused(r) ==
    /\ pc[r] = "check"
    /\ draftStatus[draft(r)] # "pending"
    /\ Finish(r)
    /\ UNCHANGED <<storeVars, boundVars>>

Claim(r) ==
    /\ pc[r] = "claim"
    /\ claim_pending(draft(r), decision(r))
    /\ IF IsLast(r)
       THEN Goto(r, CASE op[r] = "batch" -> "preflight"
                      [] op[r] = "approve" -> "read"
                      [] op[r] = "reject" -> "record", 1)
       ELSE Goto(r, "claim", k[r] + 1)
    /\ UNCHANGED <<versionTable, approvals, audited, boundVars>>

\* mutant: the claim that was lost is given back with the others
ClaimLost_OffByOne(r) ==
    /\ pc[r] = "claim"
    /\ draftStatus[draft(r)] # "pending"
    /\ StartRelease(r, 1, k[r])
    /\ UNCHANGED <<storeVars, boundVars>>

\* the draft was decided, or vanished, since the check: all claims go back
ClaimLost(r) ==
    /\ pc[r] = "claim"
    /\ draftStatus[draft(r)] # "pending"
    /\ StartRelease(r, 1, k[r] - 1)
    /\ UNCHANGED <<storeVars, boundVars>>

\* _approval_preflight for one draft: its version exists, or the current
\* version of its policy starts no earlier than this request
Blocked(d, t) ==
    \/ d \in rows
    \/ \E u \in activeFor(Target[d], t) : from[u] # NULL /\ t <= from[u]

Preflight(r) ==
    /\ pc[r] = "preflight"
    /\ \/ /\ Blocked(draft(r), now[r])
          /\ StartRelease(r, 1, Len(ids[r]))
       \/ /\ ~Blocked(draft(r), now[r])
          /\ IF IsLast(r) THEN Goto(r, "read", 1)
                          ELSE Goto(r, "preflight", k[r] + 1)
    /\ UNCHANGED <<storeVars, boundVars>>

\* if a policy has several active versions the code takes the oldest row;
\* here any of them
ReadPrevious(r) ==
    /\ pc[r] = "read"
    /\ LET found == activeFor(Target[draft(r)], now[r]) IN
       \E u \in IF found = {} THEN {NoVersion} ELSE found :
          previous' = [previous EXCEPT ![r] = u]
    /\ pc' = [pc EXCEPT ![r] = "record"]
    /\ UNCHANGED <<op, ids, now, k, upto, results, storeVars, boundVars>>

AddRecord(r) ==
    /\ pc[r] = "record"
    /\ add_approval(draft(r), decision(r))
    /\ Goto(r, IF op[r] = "reject" THEN "audit" ELSE "write", k[r])
    /\ UNCHANGED <<versionTable, draftStatus, audited, boundVars>>

WriteVersion(r) ==
    /\ pc[r] = "write"
    /\ IF previous[r] = NoVersion THEN add(draft(r), now[r])
                                  ELSE supersede(previous[r], draft(r), now[r])
    /\ Goto(r, "audit", k[r])
    /\ UNCHANGED <<draftStatus, approvals, audited, boundVars>>

\* mutant: the exception handler does not give the claims back
WriteRefused_KeepClaim(r) ==
    /\ pc[r] = "write"
    /\ IF previous[r] = NoVersion THEN ~CanInsert(draft(r))
                                  ELSE ~CanSupersede(previous[r], draft(r), now[r])
    /\ Finish(r)
    /\ UNCHANGED <<storeVars, boundVars>>

\* mutant: a draft leaves the list of the unapplied before it is applied
WriteRefused_RemoveFirst(r) ==
    /\ pc[r] = "write"
    /\ IF previous[r] = NoVersion THEN ~CanInsert(draft(r))
                                  ELSE ~CanSupersede(previous[r], draft(r), now[r])
    /\ StartRelease(r, k[r] + 1, Len(ids[r]))
    /\ UNCHANGED <<storeVars, boundVars>>

\* add or supersede raises StoreError: the version read is no longer the
\* open one, starts no earlier, or the draft already has a version
WriteRefused(r) ==
    /\ pc[r] = "write"
    /\ IF previous[r] = NoVersion THEN ~CanInsert(draft(r))
                                  ELSE ~CanSupersede(previous[r], draft(r), now[r])
    /\ StartRelease(r, k[r], Len(ids[r]))
    /\ UNCHANGED <<storeVars, boundVars>>

WriteAudit(r) ==
    /\ pc[r] = "audit"
    /\ append_audit(draft(r), decision(r))
    /\ IF IsLast(r) THEN Finish(r)
       ELSE /\ pc' = [pc EXCEPT ![r] = "read"]
            /\ k' = [k EXCEPT ![r] = @ + 1]
            /\ results' = [results EXCEPT ![r] = @ \cup {draft(r)}]
            /\ UNCHANGED <<op, ids, now, upto, previous>>
    /\ UNCHANGED <<versionTable, draftStatus, approvals, boundVars>>

Release(r) ==
    /\ pc[r] = "release"
    /\ set_status(draft(r), "pending")
    /\ IF k[r] = upto[r] THEN Finish(r) ELSE Goto(r, "release", k[r] + 1)
    /\ UNCHANGED <<versionTable, approvals, audited, boundVars>>

(***************************************************************************)
(* The store call at hand fails.  Inside _apply_decision the exception     *)
(* handler gives back the claims not yet reflected; anywhere else the      *)
(* exception leaves the handler and whatever it had claimed stays claimed. *)
(***************************************************************************)
StoreFault(r) ==
    /\ pc[r] # "idle"
    /\ faults < MaxFaults
    /\ faults' = faults + 1
    /\ IF pc[r] \in Applying THEN StartRelease(r, k[r], Len(ids[r])) ELSE Finish(r)
    /\ UNCHANGED <<storeVars, clock, served, crashes>>

----------------------------------------------------------------------------
(* Around the handlers *)

Tick ==
    /\ clock < MaxTime
    /\ clock' = clock + 1
    /\ UNCHANGED <<storeVars, handlerVars, served, faults, crashes>>

\* the extraction batch stores a new draft while requests are served
DraftAdded(d) ==
    /\ draftStatus[d] = "absent"
    /\ set_status(d, "pending")
    /\ UNCHANGED <<versionTable, approvals, audited, handlerVars, boundVars>>

\* the process dies and comes back; seeding again finds its rows and skips
Restart ==
    /\ crashes < MaxCrashes
    /\ crashes' = crashes + 1
    /\ \E r \in Workers : pc[r] # "idle"
    /\ pc' = [r \in Workers |-> "idle"]
    /\ op' = [r \in Workers |-> "approve"]
    /\ ids' = [r \in Workers |-> <<>>]
    /\ now' = [r \in Workers |-> 0]
    /\ k' = [r \in Workers |-> 1]
    /\ upto' = [r \in Workers |-> 0]
    /\ previous' = [r \in Workers |-> NoVersion]
    /\ results' = [r \in Workers |-> {}]
    /\ UNCHANGED <<storeVars, clock, served, faults>>

\* a server with no request in flight waits
Waiting ==
    /\ \A r \in Workers : pc[r] = "idle"
    /\ UNCHANGED vars

Init ==
    /\ StoreInit(Queue)
    /\ pc = [r \in Workers |-> "idle"]
    /\ op = [r \in Workers |-> "approve"]
    /\ ids = [r \in Workers |-> <<>>]
    /\ now = [r \in Workers |-> 0]
    /\ k = [r \in Workers |-> 1]
    /\ upto = [r \in Workers |-> 0]
    /\ previous = [r \in Workers |-> NoVersion]
    /\ results = [r \in Workers |-> {}]
    /\ clock = 1
    /\ served = 0
    /\ faults = 0
    /\ crashes = 0

\* the steps a handler takes by itself once it has started
Handle(r) ==
    \/ CheckPending(r) \/ CheckRefused(r)
    \/ Claim(r) \/ ClaimLost(r) \/ Preflight(r)
    \/ ReadPrevious(r) \/ AddRecord(r)
    \/ WriteVersion(r) \/ WriteRefused(r) \/ WriteAudit(r)
    \/ Release(r)

Next ==
    \/ \E r \in Workers : Begin(r) \/ Handle(r) \/ StoreFault(r)
    \/ \E d \in Drafts : DraftAdded(d)
    \/ Tick
    \/ Restart
    \/ Waiting

Spec == Init /\ [][Next]_vars

\* a thread that has started a handler keeps running it
FairSpec == Spec /\ \A r \in Workers : WF_vars(Handle(r))

----------------------------------------------------------------------------
(* Properties *)

HandlerTypeOK ==
    /\ pc \in [Workers -> Stages]
    /\ op \in [Workers -> Ops]
    /\ ids \in [Workers -> Seq(Drafts)]
    /\ now \in [Workers -> Nat]
    /\ k \in [Workers -> Nat]
    /\ upto \in [Workers -> Nat]
    /\ previous \in [Workers -> VersionId \cup {NoVersion}]
    /\ results \in [Workers -> SUBSET Drafts]

BoundsOK ==
    /\ clock \in 1..MaxTime
    /\ served \in 0..MaxRequests
    /\ faults \in 0..MaxFaults
    /\ crashes \in 0..MaxCrashes

\* every variable of the store, the handlers and the bounds has its type
TypeOK == StoreTypeOK /\ HandlerTypeOK /\ BoundsOK

\* the positions of a request it has claimed, not yet reflected or given back
Held(r) ==
    CASE pc[r] = "claim" -> 1..(k[r] - 1)
      [] pc[r] = "preflight" -> 1..Len(ids[r])
      [] pc[r] \in Applying -> k[r]..Len(ids[r])
      [] pc[r] = "release" -> k[r]..upto[r]
      [] OTHER -> {}

Owned(r) == {ids[r][i] : i \in Held(r)}

Unclaimed(d) == \A r \in Workers : d \notin Owned(r)

(***************************************************************************)
(* A claimed draft has one decider.  From claim_pending to the end of the  *)
(* request, or to set_status(pending), no other request holds the draft    *)
(* and its status is the decision the holder made, so the unconditional    *)
(* set_status of a holder never overwrites somebody else's decision.       *)
(***************************************************************************)
ClaimExclusive ==
    /\ \A r, s \in Workers : r # s => Owned(r) \cap Owned(s) = {}
    /\ \A r \in Workers : \A d \in Owned(r) : draftStatus[d] = decision(r)

\* the clock's instants and the one after them, which stands for the future
Instants == 1..(MaxTime + 1)

(***************************************************************************)
(* active(t) gives the engines exactly one version of every seeded policy, *)
(* at every instant, past and future: no gap while one version is closed   *)
(* and the next opened, no overlap however approvals of different drafts   *)
(* of the policy interleave and however old the now they started from is.  *)
(***************************************************************************)
OneVersionInForce ==
    \A p \in Seeded : \A t \in Instants :
        \E v \in rows : activeFor(p, t) = {v}

(***************************************************************************)
(* supersedes is a chain: a version that names another one starts at the   *)
(* instant the other ends, belongs to the same policy, and is the only one *)
(* to name it; and only versions that somebody supersedes are closed.      *)
(***************************************************************************)
SupersedesIsAChain ==
    /\ \A v \in rows : prior[v] # NoVersion =>
        /\ prior[v] \in rows
        /\ PolicyOf(prior[v]) = PolicyOf(v)
        /\ until[prior[v]] = from[v]
    /\ \A u \in rows : until[u] # NULL => \E v \in rows : prior[v] = u
    /\ \A v, w \in rows : prior[v] = prior[w] /\ prior[v] # NoVersion => v = w

(***************************************************************************)
(* Contract #6: a row of rule_version stays, and the one thing that may    *)
(* ever happen to it is that its window is closed, once.                   *)
(***************************************************************************)
VersionsOnlyClose ==
    [][\A v \in rows :
        /\ v \in rows'
        /\ from'[v] = from[v] /\ prior'[v] = prior[v]
        /\ until'[v] # until[v] => until[v] = NULL]_vars

(***************************************************************************)
(* The audit trail never tells of two decisions on one draft, and what it  *)
(* tells is true for good: an audited approval has its version and the     *)
(* draft stays approved, an audited rejection stays rejected.  This holds  *)
(* through failing store calls and restarts.                               *)
(***************************************************************************)
AuditedDecisionStands ==
    \A d \in Drafts :
        /\ audited[d]["approved"] + audited[d]["rejected"] <= 1
        /\ audited[d]["approved"] = 1 => d \in rows /\ draftStatus[d] = "approved"
        /\ audited[d]["rejected"] = 1 => draftStatus[d] = "rejected"

\* an approval of another draft has changed the rules of d's policy
Outrun(d) == \E e \in rows \cap Drafts : e # d /\ Target[e] = Target[d]

(***************************************************************************)
(* As long as no store call has failed for reasons of its own and the      *)
(* process has not died, a draft nobody is deciding agrees with the rules  *)
(* and with the audit trail, whatever races were lost on the way: approved *)
(* exactly if its version exists and its approval was audited, rejected    *)
(* exactly if that was recorded and audited.  Every audited approval has   *)
(* its ApprovalRecord.  A record beyond that, which an approval leaves     *)
(* that lost its race after writing it, is found only where another draft  *)
(* of the policy has become a rule.                                        *)
(***************************************************************************)
LedgersAgree ==
    faults = 0 /\ crashes = 0 => \A d \in Drafts : Unclaimed(d) =>
        /\ draftStatus[d] = "approved" <=> d \in rows
        /\ audited[d]["approved"] = IF d \in rows THEN 1 ELSE 0
        /\ audited[d]["rejected"] = IF draftStatus[d] = "rejected" THEN 1 ELSE 0
        /\ approvals[d]["rejected"] = audited[d]["rejected"]
        /\ approvals[d]["approved"] >= audited[d]["approved"]
        /\ approvals[d]["approved"] > audited[d]["approved"] => Outrun(d)

\* the decision on d is on record: its status, its event and its version
Settled(d) ==
    \/ draftStatus[d] = "approved" /\ d \in rows /\ audited[d]["approved"] = 1
    \/ draftStatus[d] = "rejected" /\ audited[d]["rejected"] = 1

\* r loses what it claimed: a store call outside _apply_decision raises, or
\* the process dies
LosesItsClaims(r) ==
    \/ faults' # faults /\ pc[r] \notin Applying
    \/ crashes' # crashes

(***************************************************************************)
(* A thread lets go of a claimed draft in two ways: its decision is on     *)
(* record, or the draft is pending again.  The one other way is a failure  *)
(* nobody catches: a store call of the claim loop, of the preflight or of  *)
(* a release that raises, or the death of the process.  Such a draft stays *)
(* decided without a decision: the dead end that the comments of _decide   *)
(* and _release_claims (main.py 2188 and 2294) set out to remove is still  *)
(* there, and these are the only doors to it.                              *)
(***************************************************************************)
ClaimsAreSettled ==
    [][\A r \in Workers : \A d \in Owned(r) \ Owned(r)' :
        Settled(d)' \/ draftStatus'[d] = "pending" \/ LosesItsClaims(r)]_vars

(***************************************************************************)
(* No thread keeps a draft claimed for ever, and when it lets go the draft *)
(* is settled or given back, up to the failures ClaimsAreSettled names.    *)
(* Two batches that take each other's drafts in opposite order both come   *)
(* to an end: each refuses, and gives back, what it could not complete.    *)
(***************************************************************************)
ClaimsEnd ==
    /\ ClaimsAreSettled
    /\ \A d \in Drafts : ~Unclaimed(d) ~> Unclaimed(d)

(***************************************************************************)
(* The version windows implement the abstract timeline of every seeded     *)
(* policy, and active() answers as the timeline does.                      *)
(***************************************************************************)
timelineOf == [p \in Seeded |->
    {[rule |-> v, start |-> from[v]] : v \in {u \in rows : PolicyOf(u) = p}}]

Timeline == INSTANCE RuleTimeline
    WITH Policies <- Seeded, Rules <- VersionId, Starts <- 1..MaxTime,
         timeline <- timelineOf

ImplementsTimeline == Timeline!TimelineSpec

ActiveIsInForce ==
    \A p \in Seeded : \A t \in Instants : activeFor(p, t) = Timeline!InForce(p, t)

----------------------------------------------------------------------------
(* What the documents say and the code does not keep *)

(***************************************************************************)
(* SPEC 4.6: a batch is atomic, if one draft fails nothing is reflected.   *)
(* A request that is giving claims back has reflected none of its drafts.  *)
(***************************************************************************)
BatchIsAllOrNothing ==
    \A r \in Workers : pc[r] = "release" => results[r] = {}
=============================================================================
