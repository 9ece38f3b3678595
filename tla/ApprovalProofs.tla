--------------------------- MODULE ApprovalProofs ---------------------------
(***************************************************************************)
(* Proofs about Approval, for every set of workers, policies and drafts    *)
(* and every bound: type correctness, the exclusive claim, audited         *)
(* decisions and the agreement of the four ledgers; and about the version  *)
(* table it writes: the windows of a seeded policy partition time,         *)
(* supersedes is a chain, rows only close, and the table implements the    *)
(* abstract timeline.                                                      *)
(***************************************************************************)
EXTENDS Approval, TLAPS

(***************************************************************************)
(* Where a handler can be: k and upto point into the request, which names  *)
(* no draft twice, only a batch is preflighted and a rejection neither     *)
(* reads nor writes a version.                                             *)
(***************************************************************************)
HandlerOK(r) ==
    /\ \A i, j \in 1..Len(ids[r]) : ids[r][i] = ids[r][j] => i = j
    /\ pc[r] = "idle" => k[r] = 1
    /\ pc[r] # "idle" => k[r] \in 1..Len(ids[r]) /\ now[r] \in 1..clock
    /\ pc[r] = "release" => upto[r] \in k[r]..Len(ids[r])
    /\ op[r] # "batch" => Len(ids[r]) <= 1
    /\ pc[r] = "preflight" => op[r] = "batch"
    /\ pc[r] \in {"read", "write"} => op[r] # "reject"

TypeInv == TypeOK /\ \A r \in Workers : HandlerOK(r)

----------------------------------------------------------------------------
(* Helpers *)

\* A request body is a sequence of drafts, none of them twice.
LEMMA BodyIsSequence ==
    ASSUME NEW b \in Bodies
    PROVE  /\ b \in Seq(Drafts)
           /\ Len(b) \in Nat \ {0}
           /\ \A i, j \in 1..Len(b) : b[i] = b[j] => i = j
<1>1. PICK n \in 1..MaxBatch : b \in [1..n -> Drafts]
  BY DEF Bodies
<1>2. n \in Nat \ {0} /\ DOMAIN b = 1..n
  BY <1>1, BoundsAssumption
<1>3. b \in Seq(Drafts) /\ Len(b) = n
  BY <1>1, <1>2
<1> QED
  BY <1>2, <1>3 DEF Bodies

\* The draft at hand is a draft and its decision a decision.
LEMMA DraftAtHand ==
    ASSUME TypeInv, NEW r \in Workers, pc[r] # "idle"
    PROVE  /\ draft(r) \in Drafts
           /\ draft(r) \in VersionId
           /\ decision(r) \in Decisions
           /\ Len(ids[r]) \in Nat
BY DEF TypeInv, TypeOK, HandlerTypeOK, HandlerOK, draft, decision, VersionId, Decisions

\* Goto keeps the handlers well formed when it stays inside the request.
LEMMA GotoOK ==
    ASSUME TypeInv, NEW r \in Workers, NEW stage \in Stages, NEW i \in Nat,
           Goto(r, stage, i), clock' = clock,
           stage \notin {"idle", "release"},
           i \in 1..Len(ids[r]),
           pc[r] # "idle",
           stage = "preflight" => op[r] = "batch",
           stage \in {"read", "write"} => op[r] # "reject"
    PROVE  HandlerTypeOK' /\ \A s \in Workers : HandlerOK(s)'
BY DEF TypeInv, TypeOK, HandlerTypeOK, HandlerOK, Goto

\* Finish leaves an idle handler.
LEMMA FinishOK ==
    ASSUME TypeInv, NEW r \in Workers, Finish(r), clock' = clock
    PROVE  HandlerTypeOK' /\ \A s \in Workers : HandlerOK(s)'
BY DEF TypeInv, TypeOK, HandlerTypeOK, HandlerOK, Finish, Stages, Ops

\* StartRelease keeps the handlers well formed when lo..hi is in the request.
LEMMA StartReleaseOK ==
    ASSUME TypeInv, NEW r \in Workers, NEW lo \in Nat \ {0}, NEW hi \in Nat,
           StartRelease(r, lo, hi), clock' = clock,
           pc[r] # "idle", hi <= Len(ids[r])
    PROVE  HandlerTypeOK' /\ \A s \in Workers : HandlerOK(s)'
<1>1. CASE lo > hi
  BY <1>1, FinishOK DEF StartRelease
<1>2. CASE ~(lo > hi)
  <2>1. /\ pc' = [pc EXCEPT ![r] = "release"]
        /\ k' = [k EXCEPT ![r] = lo]
        /\ upto' = [upto EXCEPT ![r] = hi]
        /\ UNCHANGED <<op, ids, now, previous, results>>
    BY <1>2 DEF StartRelease
  <2>2. Len(ids[r]) \in Nat
    BY DEF TypeInv, TypeOK, HandlerTypeOK
  <2>3. HandlerTypeOK'
    BY <2>1 DEF TypeInv, TypeOK, HandlerTypeOK, Stages
  <2>4. HandlerOK(r)'
    BY <1>2, <2>1, <2>2 DEF TypeInv, TypeOK, HandlerTypeOK, HandlerOK
  <2>5. ASSUME NEW s \in Workers, s # r PROVE HandlerOK(s)'
    BY <2>1, <2>5 DEF TypeInv, TypeOK, HandlerTypeOK, HandlerOK
  <2> QED
    BY <2>3, <2>4, <2>5
<1> QED
  BY <1>1, <1>2

----------------------------------------------------------------------------
(* Type correctness *)

\* A set_status to a member of the vocabulary keeps the store typed.
LEMMA StatusTyped ==
    ASSUME StoreTypeOK, NEW d \in Drafts, NEW status \in DraftStatus,
           draftStatus' = [draftStatus EXCEPT ![d] = status],
           UNCHANGED <<versionTable, approvals, audited>>
    PROVE  StoreTypeOK'
BY DEF StoreTypeOK, versionTable

\* The initial state is well formed.
LEMMA InitTyped == Init => TypeInv
<1> SUFFICES ASSUME Init PROVE TypeInv
  OBVIOUS
<1>1. StoreTypeOK
  BY IdsAssumption DEF Init, StoreInit, StoreTypeOK, VersionId, Decisions, DraftStatus, NULL
<1>2. HandlerTypeOK /\ \A r \in Workers : HandlerOK(r)
  BY DEF Init, HandlerTypeOK, HandlerOK, Stages, Ops
<1>3. BoundsOK
  BY BoundsAssumption DEF Init, BoundsOK
<1> QED
  BY <1>1, <1>2, <1>3 DEF TypeInv, TypeOK

\* Every step of the system keeps it well formed.
LEMMA NextTyped == TypeInv /\ [Next]_vars => TypeInv'
<1> SUFFICES ASSUME TypeInv, [Next]_vars PROVE TypeInv'
  OBVIOUS
<1> USE DEF TypeInv, TypeOK
<1>1. ASSUME NEW r \in Workers, Begin(r) PROVE TypeInv'
  <2>1. PICK o \in Ops, b \in Bodies :
            /\ op' = [op EXCEPT ![r] = o]
            /\ ids' = [ids EXCEPT ![r] = b]
            /\ o # "batch" => Len(b) = 1
    BY <1>1 DEF Begin
  <2>2. /\ b \in Seq(Drafts)
        /\ Len(b) \in Nat \ {0}
        /\ \A i, j \in 1..Len(b) : b[i] = b[j] => i = j
    BY BodyIsSequence
  <2>3. HandlerTypeOK'
    BY <1>1, <2>1, <2>2 DEF Begin, HandlerTypeOK, BoundsOK, Stages
  <2>4. \A s \in Workers : HandlerOK(s)'
    <3>1. /\ pc[r] = "idle" /\ pc' = [pc EXCEPT ![r] = "check"]
          /\ now' = [now EXCEPT ![r] = clock]
          /\ UNCHANGED <<k, upto, clock>>
      BY <1>1 DEF Begin
    <3>2. HandlerOK(r)'
      <4>1. /\ pc'[r] = "check" /\ ids'[r] = b /\ op'[r] = o
            /\ now'[r] = clock /\ k'[r] = 1
        BY <3>1, <2>1 DEF HandlerTypeOK, HandlerOK
      <4>2. now'[r] \in 1..clock' /\ k'[r] \in 1..Len(b)
        BY <3>1, <4>1, <2>2 DEF BoundsOK
      <4> QED
        BY <4>1, <4>2, <2>1, <2>2 DEF HandlerOK
    <3>3. ASSUME NEW s \in Workers, s # r PROVE HandlerOK(s)'
      BY <3>1, <3>3, <2>1 DEF HandlerTypeOK, HandlerOK
    <3> QED
      BY <3>2, <3>3
  <2>5. StoreTypeOK'
    BY <1>1 DEF Begin, storeVars, versionTable, StoreTypeOK
  <2>6. BoundsOK'
    BY <1>1, BoundsAssumption DEF Begin, BoundsOK
  <2> QED
    BY <2>3, <2>4, <2>5, <2>6
<1>2. ASSUME NEW r \in Workers, Handle(r) PROVE TypeInv'
  <2> pc[r] # "idle"
    BY <1>2 DEF Handle, CheckPending, CheckRefused, Claim, ClaimLost, Preflight,
                ReadPrevious, AddRecord, WriteVersion, WriteRefused, WriteAudit, Release
  <2>1. BoundsOK' /\ clock' = clock
    BY <1>2 DEF Handle, CheckPending, CheckRefused, Claim, ClaimLost, Preflight,
                ReadPrevious, AddRecord, WriteVersion, WriteRefused, WriteAudit, Release,
                BoundsOK, boundVars
  <2>2. /\ draft(r) \in Drafts /\ draft(r) \in VersionId
        /\ decision(r) \in Decisions /\ Len(ids[r]) \in Nat
    BY DraftAtHand
  <2>3. k[r] \in 1..Len(ids[r]) /\ k[r] \in Nat
    BY DEF HandlerOK, HandlerTypeOK
  <2>4. CASE CheckPending(r)
    <3>1. HandlerTypeOK' /\ \A s \in Workers : HandlerOK(s)'
      <4>1. CASE ~IsLast(r) /\ Goto(r, "check", k[r] + 1)
        BY <4>1, <2>1, <2>2, <2>3, GotoOK DEF IsLast, Stages
      <4>2. CASE Goto(r, "claim", 1)
        BY <4>2, <2>1, <2>2, <2>3, GotoOK DEF Stages
      <4>3. CASE Finish(r)
        BY <4>3, <2>1, FinishOK
      <4> QED
        BY <2>4, <4>1, <4>2, <4>3 DEF CheckPending
    <3>2. StoreTypeOK'
      BY <2>4 DEF CheckPending, storeVars, versionTable, StoreTypeOK
    <3> QED
      BY <3>1, <3>2, <2>1
  <2>5. CASE CheckRefused(r)
    BY <2>5, <2>1, FinishOK DEF CheckRefused, storeVars, versionTable, StoreTypeOK
  <2>6. CASE Claim(r)
    <3>1. HandlerTypeOK' /\ \A s \in Workers : HandlerOK(s)'
      <4>1. CASE ~IsLast(r) /\ Goto(r, "claim", k[r] + 1)
        BY <4>1, <2>1, <2>2, <2>3, GotoOK DEF IsLast, Stages
      <4>2. CASE op[r] = "batch" /\ Goto(r, "preflight", 1)
        BY <4>2, <2>1, <2>2, <2>3, GotoOK DEF Stages
      <4>3. CASE op[r] = "approve" /\ Goto(r, "read", 1)
        BY <4>3, <2>1, <2>2, <2>3, GotoOK DEF Stages
      <4>4. CASE op[r] = "reject" /\ Goto(r, "record", 1)
        BY <4>4, <2>1, <2>2, <2>3, GotoOK DEF Stages
      <4> QED
        BY <2>6, <4>1, <4>2, <4>3, <4>4 DEF Claim, HandlerTypeOK, Ops
    <3>2. StoreTypeOK'
      BY <2>6, <2>2, StatusTyped DEF Claim, claim_pending, DraftStatus
    <3> QED
      BY <3>1, <3>2, <2>1
  <2>7. CASE ClaimLost(r)
    <3>1. HandlerTypeOK' /\ \A s \in Workers : HandlerOK(s)'
      BY <2>7, <2>1, <2>2, <2>3, StartReleaseOK DEF ClaimLost
    <3>2. StoreTypeOK'
      BY <2>7 DEF ClaimLost, storeVars, versionTable, StoreTypeOK
    <3> QED
      BY <3>1, <3>2, <2>1
  <2>8. CASE Preflight(r)
    <3>1. HandlerTypeOK' /\ \A s \in Workers : HandlerOK(s)'
      <4>0. op[r] = "batch"
        BY <2>8 DEF Preflight, HandlerOK
      <4>1. CASE StartRelease(r, 1, Len(ids[r]))
        BY <4>1, <2>1, <2>2, StartReleaseOK
      <4>2. CASE IsLast(r) /\ Goto(r, "read", 1)
        BY <4>0, <4>2, <2>1, <2>2, <2>3, GotoOK DEF Stages
      <4>3. CASE ~IsLast(r) /\ Goto(r, "preflight", k[r] + 1)
        BY <4>0, <4>3, <2>1, <2>2, <2>3, GotoOK DEF IsLast, Stages
      <4> QED
        BY <2>8, <4>1, <4>2, <4>3 DEF Preflight
    <3>2. StoreTypeOK'
      BY <2>8 DEF Preflight, storeVars, versionTable, StoreTypeOK
    <3> QED
      BY <3>1, <3>2, <2>1
  <2>9. CASE ReadPrevious(r)
    <3>1. PICK u \in VersionId \cup {NoVersion} : previous' = [previous EXCEPT ![r] = u]
      BY <2>9 DEF ReadPrevious, activeFor, active, StoreTypeOK
    <3>2. HandlerTypeOK' /\ \A s \in Workers : HandlerOK(s)'
      BY <2>9, <2>1, <3>1 DEF ReadPrevious, HandlerTypeOK, HandlerOK, Stages
    <3>3. StoreTypeOK'
      BY <2>9 DEF ReadPrevious, storeVars, versionTable, StoreTypeOK
    <3> QED
      BY <3>2, <3>3, <2>1
  <2>10. CASE AddRecord(r)
    <3>1. HandlerTypeOK' /\ \A s \in Workers : HandlerOK(s)'
      <4>1. CASE op[r] = "reject" /\ Goto(r, "audit", k[r])
        BY <4>1, <2>1, <2>3, GotoOK DEF Stages
      <4>2. CASE op[r] # "reject" /\ Goto(r, "write", k[r])
        BY <4>2, <2>1, <2>3, GotoOK DEF Stages
      <4> QED
        BY <2>10, <4>1, <4>2 DEF AddRecord
    <3>2. StoreTypeOK'
      BY <2>10, <2>2 DEF AddRecord, add_approval, versionTable, StoreTypeOK
    <3> QED
      BY <3>1, <3>2, <2>1
  <2>11. CASE WriteVersion(r)
    <3>1. HandlerTypeOK' /\ \A s \in Workers : HandlerOK(s)'
      BY <2>11, <2>1, <2>3, GotoOK DEF WriteVersion, Stages
    <3>2. now[r] \in Nat /\ previous[r] \in VersionId \cup {NoVersion}
      BY DEF HandlerTypeOK
    <3>3. CASE previous[r] = NoVersion
      <4>1. StoreTypeOK'
        BY <2>11, <2>2, <3>2, <3>3 DEF WriteVersion, add, StoreTypeOK
      <4> QED
        BY <3>1, <4>1, <2>1
    <3>4. CASE previous[r] # NoVersion
      <4>1. StoreTypeOK'
        BY <2>11, <2>2, <3>2, <3>4 DEF WriteVersion, supersede, StoreTypeOK
      <4> QED
        BY <3>1, <4>1, <2>1
    <3> QED
      BY <3>3, <3>4
  <2>12. CASE WriteRefused(r)
    <3>1. HandlerTypeOK' /\ \A s \in Workers : HandlerOK(s)'
      BY <2>12, <2>1, <2>2, <2>3, StartReleaseOK DEF WriteRefused
    <3>2. StoreTypeOK'
      BY <2>12 DEF WriteRefused, storeVars, versionTable, StoreTypeOK
    <3> QED
      BY <3>1, <3>2, <2>1
  <2>13. CASE WriteAudit(r)
    <3>1. HandlerTypeOK' /\ \A s \in Workers : HandlerOK(s)'
      <4>1. CASE IsLast(r)
        BY <4>1, <2>13, <2>1, FinishOK DEF WriteAudit
      <4>2. CASE ~IsLast(r)
        <5>1. Len(ids[r]) > 1 /\ op[r] # "reject" /\ k[r] + 1 \in 1..Len(ids[r])
          BY <4>2, <2>2, <2>3 DEF IsLast, HandlerOK
        <5>2. HandlerTypeOK'
          <6>1. /\ pc' = [pc EXCEPT ![r] = "read"]
                /\ k' = [k EXCEPT ![r] = k[r] + 1]
                /\ results' = [results EXCEPT ![r] = results[r] \cup {draft(r)}]
                /\ UNCHANGED <<op, ids, now, upto, previous>>
            BY <4>2, <2>13 DEF WriteAudit
          <6> QED
            BY <6>1, <2>2, <2>3 DEF HandlerTypeOK, Stages
        <5>3. HandlerOK(r)'
          BY <4>2, <5>1, <2>13, <2>1, <2>2, <2>3 DEF WriteAudit, HandlerTypeOK, HandlerOK
        <5>4. ASSUME NEW s \in Workers, s # r PROVE HandlerOK(s)'
          BY <4>2, <5>4, <2>13, <2>1 DEF WriteAudit, HandlerTypeOK, HandlerOK
        <5> QED
          BY <5>2, <5>3, <5>4
      <4> QED
        BY <4>1, <4>2
    <3>2. StoreTypeOK'
      BY <2>13, <2>2 DEF WriteAudit, append_audit, versionTable, StoreTypeOK
    <3> QED
      BY <3>1, <3>2, <2>1
  <2>14. CASE Release(r)
    <3>1. HandlerTypeOK' /\ \A s \in Workers : HandlerOK(s)'
      <4>1. CASE k[r] = upto[r]
        BY <4>1, <2>14, <2>1, FinishOK DEF Release
      <4>2. CASE k[r] # upto[r]
        <5>1. k[r] + 1 \in 1..Len(ids[r]) /\ upto[r] \in (k[r] + 1)..Len(ids[r])
          BY <4>2, <2>14, <2>2, <2>3 DEF Release, HandlerOK
        <5>2. HandlerTypeOK'
          <6>1. pc' = [pc EXCEPT ![r] = "release"] /\ k' = [k EXCEPT ![r] = k[r] + 1]
            BY <4>2, <2>14 DEF Release, Goto
          <6>2. UNCHANGED <<op, ids, now, upto, previous, results>>
            BY <4>2, <2>14 DEF Release, Goto
          <6> QED
            BY <6>1, <6>2, <2>3 DEF HandlerTypeOK, Stages
        <5>3. HandlerOK(r)'
          BY <4>2, <5>1, <2>14, <2>1, <2>3 DEF Release, Goto, HandlerTypeOK, HandlerOK
        <5>4. ASSUME NEW s \in Workers, s # r PROVE HandlerOK(s)'
          BY <4>2, <5>4, <2>14, <2>1 DEF Release, Goto, HandlerTypeOK, HandlerOK
        <5> QED
          BY <5>2, <5>3, <5>4
      <4> QED
        BY <4>1, <4>2
    <3>2. StoreTypeOK'
      BY <2>14, <2>2, StatusTyped DEF Release, set_status, DraftStatus
    <3> QED
      BY <3>1, <3>2, <2>1
  <2> QED
    BY <1>2, <2>4, <2>5, <2>6, <2>7, <2>8, <2>9, <2>10, <2>11, <2>12, <2>13, <2>14
       DEF Handle
<1>3. ASSUME NEW r \in Workers, StoreFault(r) PROVE TypeInv'
  <2>1. BoundsOK' /\ clock' = clock
    BY <1>3, BoundsAssumption DEF StoreFault, BoundsOK
  <2>2. StoreTypeOK'
    BY <1>3 DEF StoreFault, storeVars, versionTable, StoreTypeOK
  <2>3. k[r] \in Nat \ {0} /\ Len(ids[r]) \in Nat
    BY <1>3 DEF StoreFault, HandlerOK, HandlerTypeOK
  <2>4. HandlerTypeOK' /\ \A s \in Workers : HandlerOK(s)'
    BY <1>3, <2>1, <2>3, StartReleaseOK, FinishOK DEF StoreFault
  <2> QED
    BY <2>1, <2>2, <2>4
<1>4. ASSUME NEW d \in Drafts, DraftAdded(d) PROVE TypeInv'
  <2>1. StoreTypeOK'
    BY <1>4, StatusTyped DEF DraftAdded, set_status, DraftStatus
  <2>2. HandlerTypeOK' /\ BoundsOK' /\ \A s \in Workers : HandlerOK(s)'
    BY <1>4 DEF DraftAdded, handlerVars, boundVars, HandlerTypeOK, BoundsOK, HandlerOK
  <2> QED
    BY <2>1, <2>2
<1>5. CASE Tick
  <2>1. HandlerTypeOK' /\ StoreTypeOK'
    BY <1>5 DEF Tick, handlerVars, storeVars, versionTable, HandlerTypeOK, StoreTypeOK
  <2>2. BoundsOK'
    BY <1>5, BoundsAssumption DEF Tick, BoundsOK
  <2>3. \A s \in Workers : HandlerOK(s)'
    BY <1>5 DEF Tick, handlerVars, BoundsOK, HandlerTypeOK, HandlerOK
  <2> QED
    BY <2>1, <2>2, <2>3
<1>6. CASE Restart
  <2>1. HandlerTypeOK' /\ \A s \in Workers : HandlerOK(s)'
    BY <1>6 DEF Restart, HandlerTypeOK, HandlerOK, Stages, Ops
  <2>2. StoreTypeOK' /\ BoundsOK'
    BY <1>6, BoundsAssumption DEF Restart, storeVars, versionTable, StoreTypeOK, BoundsOK
  <2> QED
    BY <2>1, <2>2
<1>7. CASE UNCHANGED vars
  <2>1. HandlerTypeOK' /\ StoreTypeOK' /\ BoundsOK'
    BY <1>7 DEF vars, handlerVars, storeVars, versionTable, boundVars,
                HandlerTypeOK, StoreTypeOK, BoundsOK
  <2>2. \A s \in Workers : HandlerOK(s)'
    BY <1>7 DEF vars, handlerVars, boundVars, HandlerOK
  <2> QED
    BY <2>1, <2>2
<1> QED
  BY <1>1, <1>2, <1>3, <1>4, <1>5, <1>6, <1>7 DEF Next, Waiting

LEMMA TypeInvariance == Spec => []TypeInv
BY InitTyped, NextTyped, PTL DEF Spec

(***************************************************************************)
(* Every variable of the store and of the handlers keeps its type, and the *)
(* handlers keep inside their requests, whatever they interleave with.     *)
(***************************************************************************)
THEOREM TypeCorrect == Spec => []TypeOK
<1>1. TypeInv => TypeOK
  BY DEF TypeInv
<1> QED
  BY <1>1, TypeInvariance, PTL

----------------------------------------------------------------------------
(* Claims *)

\* The requests other than r are where they were.
Aside(r) ==
    \A s \in Workers \ {r} :
        /\ pc'[s] = pc[s] /\ op'[s] = op[s] /\ ids'[s] = ids[s]
        /\ k'[s] = k[s] /\ upto'[s] = upto[s]

\* Request r holds no more than it did, and still to make the same decision.
Keeps(r) ==
    /\ Owned(r)' \subseteq Owned(r)
    /\ Owned(r)' = {} \/ decision(r)' = decision(r)

\* Request r holds exactly what it did.
Holds(r) == Owned(r)' = Owned(r) /\ Keeps(r)

\* A request that is where it was holds what it held.
LEMMA AsideKeeps ==
    ASSUME NEW r, Aside(r), NEW s \in Workers \ {r}
    PROVE  Holds(s) /\ Keeps(s) /\ decision(s)' = decision(s)
<1>1. /\ pc'[s] = pc[s] /\ op'[s] = op[s] /\ ids'[s] = ids[s]
      /\ k'[s] = k[s] /\ upto'[s] = upto[s]
  BY DEF Aside
<1>2. Held(s)' = Held(s) /\ decision(s)' = decision(s)
  BY <1>1 DEF Held, decision
<1> QED
  BY <1>1, <1>2 DEF Holds, Keeps, Owned

\* Fewer positions of the same request are fewer drafts.
LEMMA HeldShrinks ==
    ASSUME NEW r \in Workers, ids'[r] = ids[r], op'[r] = op[r], Held(r)' \subseteq Held(r)
    PROVE  Keeps(r)
BY DEF Keeps, Owned, decision

\* The same positions of the same request are the same drafts.
LEMMA HeldSame ==
    ASSUME NEW r \in Workers, ids'[r] = ids[r], op'[r] = op[r], Held(r)' = Held(r)
    PROVE  Holds(r)
BY DEF Holds, Keeps, Owned, decision

\* The end of a request lets go of everything.
LEMMA FinishKeeps ==
    ASSUME TypeInv, NEW r \in Workers, Finish(r)
    PROVE  Owned(r)' = {} /\ Keeps(r) /\ Aside(r)
<1>1. pc'[r] = "idle"
  BY DEF Finish, TypeInv, TypeOK, HandlerTypeOK
<1>2. Held(r)' = {}
  BY <1>1 DEF Held, Applying
<1>3. Aside(r)
  BY DEF Finish, Aside, TypeInv, TypeOK, HandlerTypeOK
<1> QED
  BY <1>2, <1>3 DEF Keeps, Owned

\* A Goto moves one request and leaves its drafts and its decision.
LEMMA GotoAside ==
    ASSUME TypeInv, NEW r \in Workers, NEW stage, NEW i, Goto(r, stage, i)
    PROVE  /\ Aside(r) /\ pc'[r] = stage /\ k'[r] = i
           /\ ids'[r] = ids[r] /\ op'[r] = op[r] /\ upto'[r] = upto[r]
BY DEF Goto, Aside, TypeInv, TypeOK, HandlerTypeOK

\* A request that held nothing ends holding nothing.
LEMMA FinishHolds ==
    ASSUME TypeInv, NEW r \in Workers, Finish(r), Held(r) = {}
    PROVE  Holds(r) /\ Aside(r)
BY FinishKeeps DEF Holds, Owned

\* A request that starts to release all it holds, holds it still.
LEMMA StartReleaseHolds ==
    ASSUME TypeInv, NEW r \in Workers, NEW lo \in Nat, NEW hi \in Nat,
           StartRelease(r, lo, hi), lo..hi = Held(r)
    PROVE  Holds(r) /\ Aside(r)
<1>1. CASE lo > hi
  BY <1>1, FinishHolds DEF StartRelease
<1>2. CASE ~(lo > hi)
  <2>1. /\ pc'[r] = "release" /\ k'[r] = lo /\ upto'[r] = hi
        /\ ids'[r] = ids[r] /\ op'[r] = op[r]
    BY <1>2 DEF StartRelease, TypeInv, TypeOK, HandlerTypeOK
  <2>2. Held(r)' = lo..hi
    BY <2>1 DEF Held, Applying
  <2>3. Aside(r)
    BY <1>2 DEF StartRelease, Aside, TypeInv, TypeOK, HandlerTypeOK
  <2> QED
    BY <2>1, <2>2, <2>3, HeldSame
<1> QED
  BY <1>1, <1>2

\* What a request holds are drafts.
LEMMA OwnedAreDrafts ==
    ASSUME TypeInv, NEW r \in Workers
    PROVE  Owned(r) \subseteq Drafts
<1>1. Held(r) \subseteq 1..Len(ids[r])
  <2>1. Len(ids[r]) \in Nat /\ pc[r] \in Stages
    BY DEF TypeInv, TypeOK, HandlerTypeOK
  <2>2. HandlerOK(r)
    BY DEF TypeInv
  <2> QED
    BY <2>1, <2>2 DEF HandlerOK, Held, Applying, Stages
<1> QED
  BY <1>1 DEF Owned, TypeInv, TypeOK, HandlerTypeOK

(***************************************************************************)
(* What a step can do to claims.  It takes one more draft, that was        *)
(* pending; or it gives back one of the drafts it holds; or a draft that   *)
(* did not exist appears; or no status changes and nobody holds more.      *)
(***************************************************************************)
TakesClaim(r, d) ==
    /\ Claim(r) /\ d = draft(r)
    /\ draftStatus[d] = "pending"
    /\ draftStatus' = [draftStatus EXCEPT ![d] = decision(r)]
    /\ Owned(r)' = Owned(r) \cup {d} /\ decision(r)' = decision(r)
    /\ Aside(r) /\ \A s \in Workers \ {r} : Keeps(s)

GivesBack(r, d) ==
    /\ Release(r) /\ d = draft(r)
    /\ d \in Owned(r) /\ Owned(r)' = Owned(r) \ {d} /\ Aside(r)
    /\ draftStatus' = [draftStatus EXCEPT ![d] = "pending"]
    /\ \A s \in Workers : Keeps(s)

Appears(d) ==
    /\ DraftAdded(d)
    /\ draftStatus[d] = "absent"
    /\ draftStatus' = [draftStatus EXCEPT ![d] = "pending"]
    /\ \A s \in Workers : Keeps(s)

LeavesClaims == draftStatus' = draftStatus /\ \A s \in Workers : Keeps(s)

LEMMA ClaimTakes ==
    ASSUME TypeInv, NEW r \in Workers, Claim(r)
    PROVE  TakesClaim(r, draft(r))
<1>1. pc[r] = "claim" /\ k[r] \in 1..Len(ids[r]) /\ Len(ids[r]) \in Nat
  BY DEF Claim, TypeInv, TypeOK, HandlerTypeOK, HandlerOK
<1>2. Held(r) = 1..(k[r] - 1)
  BY <1>1 DEF Held, Applying
<1>3. /\ Aside(r) /\ ids'[r] = ids[r] /\ op'[r] = op[r]
      /\ Held(r)' = 1..k[r]
  <2>1. CASE IsLast(r)
    <3>1. PICK stage \in {"preflight", "read", "record"} : Goto(r, stage, 1)
      BY <2>1 DEF Claim, TypeInv, TypeOK, HandlerTypeOK, Ops
    <3>2. Held(r)' = 1..Len(ids[r])
      BY <3>1, GotoAside DEF Held, Applying
    <3> QED
      BY <2>1, <3>1, <3>2, GotoAside DEF IsLast
  <2>2. CASE ~IsLast(r)
    <3>1. Goto(r, "claim", k[r] + 1)
      BY <2>2 DEF Claim
    <3>2. Held(r)' = 1..k[r]
      BY <1>1, <3>1, GotoAside DEF Held, Applying
    <3> QED
      BY <3>1, <3>2, GotoAside
  <2> QED
    BY <2>1, <2>2
<1>4. Owned(r)' = Owned(r) \cup {draft(r)}
  <2>1. Held(r)' = Held(r) \cup {k[r]}
    BY <1>1, <1>2, <1>3
  <2> QED
    BY <1>3, <2>1 DEF Owned, draft
<1>5. decision(r)' = decision(r)
  BY <1>3 DEF decision
<1> QED
  BY <1>3, <1>4, <1>5, AsideKeeps DEF TakesClaim, Claim, claim_pending

LEMMA ReleaseGivesBack ==
    ASSUME TypeInv, NEW r \in Workers, Release(r)
    PROVE  GivesBack(r, draft(r))
<1>1. /\ pc[r] = "release" /\ Len(ids[r]) \in Nat
      /\ k[r] \in 1..Len(ids[r]) /\ upto[r] \in k[r]..Len(ids[r])
  BY DEF Release, TypeInv, TypeOK, HandlerTypeOK, HandlerOK
<1>2. Held(r) = k[r]..upto[r]
  BY <1>1 DEF Held, Applying
<1>3. draft(r) \in Owned(r)
  BY <1>1, <1>2 DEF Owned, draft
<1>4. \A i \in (k[r] + 1)..upto[r] : ids[r][i] # ids[r][k[r]]
  BY <1>1 DEF TypeInv, HandlerOK
<1>5. Owned(r) \ {draft(r)} = {ids[r][i] : i \in (k[r] + 1)..upto[r]}
  BY <1>1, <1>2, <1>4 DEF Owned, draft
<1>6. Owned(r)' = Owned(r) \ {draft(r)} /\ Keeps(r) /\ Aside(r)
  <2>1. CASE k[r] = upto[r]
    BY <1>1, <1>5, <2>1, FinishKeeps DEF Release
  <2>2. CASE k[r] # upto[r]
    <3>1. Goto(r, "release", k[r] + 1)
      BY <2>2 DEF Release
    <3>2. Held(r)' = (k[r] + 1)..upto[r]
      BY <3>1, GotoAside DEF Held, Applying
    <3>3. Keeps(r)
      BY <1>1, <1>2, <3>1, <3>2, GotoAside, HeldShrinks
    <3>4. ids'[r] = ids[r] /\ Aside(r)
      BY <3>1, GotoAside
    <3>5. Owned(r)' = {ids[r][i] : i \in (k[r] + 1)..upto[r]}
      BY <3>2, <3>4 DEF Owned
    <3> QED
      BY <1>5, <3>3, <3>4, <3>5
  <2> QED
    BY <2>1, <2>2
<1> QED
  BY <1>3, <1>6, AsideKeeps DEF GivesBack, Release, set_status

\* Reflecting a draft lets go of it and of nothing else.
LEMMA WriteAuditLetsGo ==
    ASSUME TypeInv, NEW r \in Workers, WriteAudit(r)
    PROVE  /\ draft(r) \in Owned(r) /\ Owned(r)' = Owned(r) \ {draft(r)}
           /\ Keeps(r) /\ Aside(r) /\ pc'[r] # "audit"
<1>1. pc[r] = "audit" /\ k[r] \in 1..Len(ids[r]) /\ Len(ids[r]) \in Nat
  BY DEF WriteAudit, TypeInv, TypeOK, HandlerTypeOK, HandlerOK
<1>2. Held(r) = k[r]..Len(ids[r])
  BY <1>1 DEF Held, Applying
<1>3. draft(r) \in Owned(r)
  BY <1>1, <1>2 DEF Owned, draft
<1>4. \A i \in (k[r] + 1)..Len(ids[r]) : ids[r][i] # ids[r][k[r]]
  BY <1>1 DEF TypeInv, HandlerOK
<1>5. Owned(r) \ {draft(r)} = {ids[r][i] : i \in (k[r] + 1)..Len(ids[r])}
  BY <1>1, <1>2, <1>4 DEF Owned, draft
<1>6. CASE IsLast(r)
  <2>1. Finish(r) /\ pc'[r] = "idle"
    BY <1>6 DEF WriteAudit, Finish, TypeInv, TypeOK, HandlerTypeOK
  <2> QED
    BY <1>1, <1>3, <1>5, <1>6, <2>1, FinishKeeps DEF IsLast
<1>7. CASE ~IsLast(r)
  <2>1. /\ pc'[r] = "read" /\ ids'[r] = ids[r] /\ op'[r] = op[r] /\ k'[r] = k[r] + 1
    BY <1>7 DEF WriteAudit, TypeInv, TypeOK, HandlerTypeOK
  <2>2. Held(r)' = (k[r] + 1)..Len(ids[r])
    BY <2>1 DEF Held, Applying
  <2>3. Keeps(r)
    BY <1>1, <1>2, <2>1, <2>2, HeldShrinks
  <2>4. Aside(r)
    BY <1>7 DEF WriteAudit, Aside, TypeInv, TypeOK, HandlerTypeOK
  <2> QED
    BY <1>3, <1>5, <2>1, <2>2, <2>3, <2>4 DEF Owned
<1> QED
  BY <1>6, <1>7

\* The other steps of a handler hold what they held.
LEMMA HandleHolds ==
    ASSUME TypeInv, NEW r \in Workers, Handle(r),
           ~Claim(r), ~Release(r), ~WriteAudit(r)
    PROVE  Holds(r) /\ Aside(r)
<1>1. Len(ids[r]) \in Nat /\ k[r] \in Nat
  BY DEF TypeInv, TypeOK, HandlerTypeOK
<1>2. pc[r] # "idle" => k[r] \in 1..Len(ids[r])
  BY DEF TypeInv, HandlerOK
<1>3. CASE CheckPending(r)
  <2>1. Held(r) = {}
    BY <1>3 DEF CheckPending, Held, Applying
  <2>2. CASE Finish(r)
    BY <2>1, <2>2, FinishHolds
  <2>3. CASE ~Finish(r)
    <3>1. PICK stage \in {"check", "claim"}, i \in Nat :
              Goto(r, stage, i) /\ (stage = "claim" => i = 1)
      BY <1>1, <1>3, <2>3 DEF CheckPending
    <3>2. Held(r)' = {}
      BY <3>1, GotoAside DEF Held, Applying
    <3> QED
      BY <2>1, <3>1, <3>2, GotoAside, HeldSame
  <2> QED
    BY <2>2, <2>3
<1>4. CASE CheckRefused(r)
  <2>1. Held(r) = {}
    BY <1>4 DEF CheckRefused, Held, Applying
  <2> QED
    BY <1>4, <2>1, FinishHolds DEF CheckRefused
<1>5. CASE ClaimLost(r)
  <2>1. Held(r) = 1..(k[r] - 1) /\ k[r] - 1 \in Nat
    BY <1>2, <1>5 DEF ClaimLost, Held, Applying
  <2> QED
    BY <1>5, <2>1, StartReleaseHolds DEF ClaimLost
<1>6. CASE Preflight(r)
  <2>1. Held(r) = 1..Len(ids[r])
    BY <1>6 DEF Preflight, Held, Applying
  <2>2. CASE StartRelease(r, 1, Len(ids[r]))
    BY <1>1, <2>1, <2>2, StartReleaseHolds
  <2>3. CASE IsLast(r) /\ Goto(r, "read", 1)
    <3>1. Held(r)' = 1..Len(ids[r])
      BY <2>3, GotoAside DEF Held, Applying
    <3> QED
      BY <2>1, <2>3, <3>1, GotoAside, HeldSame
  <2>4. CASE ~IsLast(r) /\ Goto(r, "preflight", k[r] + 1)
    <3>1. Held(r)' = 1..Len(ids[r])
      BY <2>4, GotoAside DEF Held, Applying
    <3> QED
      BY <2>1, <2>4, <3>1, GotoAside, HeldSame
  <2> QED
    BY <1>6, <2>2, <2>3, <2>4 DEF Preflight
<1>7. CASE ReadPrevious(r)
  <2>1. /\ pc[r] = "read" /\ pc'[r] = "record" /\ ids'[r] = ids[r]
        /\ op'[r] = op[r] /\ k'[r] = k[r]
    BY <1>7 DEF ReadPrevious, TypeInv, TypeOK, HandlerTypeOK
  <2>2. Held(r)' = Held(r)
    BY <2>1 DEF Held, Applying
  <2>3. Aside(r)
    BY <1>7 DEF ReadPrevious, Aside, TypeInv, TypeOK, HandlerTypeOK
  <2> QED
    BY <2>1, <2>2, <2>3, HeldSame
<1>8. CASE AddRecord(r)
  <2>1. PICK stage \in {"audit", "write"} : Goto(r, stage, k[r])
    BY <1>8 DEF AddRecord
  <2>2. Held(r)' = Held(r)
    BY <1>8, <2>1, GotoAside DEF AddRecord, Held, Applying
  <2> QED
    BY <2>1, <2>2, GotoAside, HeldSame
<1>9. CASE WriteVersion(r)
  <2>1. Goto(r, "audit", k[r])
    BY <1>9 DEF WriteVersion
  <2>2. Held(r)' = Held(r)
    BY <1>9, <2>1, GotoAside DEF WriteVersion, Held, Applying
  <2> QED
    BY <2>1, <2>2, GotoAside, HeldSame
<1>10. CASE WriteRefused(r)
  <2>1. Held(r) = k[r]..Len(ids[r])
    BY <1>10 DEF WriteRefused, Held, Applying
  <2> QED
    BY <1>1, <1>10, <2>1, StartReleaseHolds DEF WriteRefused
<1> QED
  BY <1>3, <1>4, <1>5, <1>6, <1>7, <1>8, <1>9, <1>10 DEF Handle

LEMMA HandleLeavesClaims ==
    ASSUME TypeInv, NEW r \in Workers, Handle(r), ~Claim(r), ~Release(r)
    PROVE  LeavesClaims
<1>1. draftStatus' = draftStatus
  BY DEF Handle, CheckPending, CheckRefused, ClaimLost, Preflight, ReadPrevious,
         AddRecord, WriteVersion, WriteRefused, WriteAudit, storeVars
<1>2. Keeps(r) /\ Aside(r)
  BY HandleHolds, WriteAuditLetsGo DEF Holds
<1> QED
  BY <1>1, <1>2, AsideKeeps DEF LeavesClaims

\* A store call that fails releases at most what the request holds.
LEMMA FaultLeavesClaims ==
    ASSUME TypeInv, NEW r \in Workers, StoreFault(r)
    PROVE  LeavesClaims
<1>1. CASE pc[r] \in Applying
  <2>1. Held(r) = k[r]..Len(ids[r])
    BY <1>1 DEF Held, Applying
  <2>2. StartRelease(r, k[r], Len(ids[r])) /\ draftStatus' = draftStatus
    BY <1>1 DEF StoreFault, storeVars
  <2>3. k[r] \in Nat /\ Len(ids[r]) \in Nat
    BY DEF TypeInv, TypeOK, HandlerTypeOK
  <2>4. Keeps(r) /\ Aside(r)
    BY <2>1, <2>2, <2>3, StartReleaseHolds DEF Holds
  <2> QED
    BY <2>2, <2>4, AsideKeeps DEF LeavesClaims
<1>2. CASE pc[r] \notin Applying
  BY <1>2, FinishKeeps, AsideKeeps DEF StoreFault, LeavesClaims, storeVars
<1> QED
  BY <1>1, <1>2

LEMMA ClaimStep ==
    ASSUME TypeInv, [Next]_vars
    PROVE  \/ \E r \in Workers : TakesClaim(r, draft(r))
           \/ \E r \in Workers : GivesBack(r, draft(r))
           \/ \E d \in Drafts : Appears(d)
           \/ LeavesClaims
<1>1. ASSUME NEW r \in Workers, Begin(r) PROVE LeavesClaims
  <2>1. pc'[r] = "check" /\ Aside(r) /\ draftStatus' = draftStatus
    BY <1>1 DEF Begin, Aside, storeVars, TypeInv, TypeOK, HandlerTypeOK
  <2>2. Held(r)' = {}
    BY <2>1 DEF Held, Applying
  <2> QED
    BY <2>1, <2>2, AsideKeeps DEF LeavesClaims, Keeps, Owned
<1>2. ASSUME NEW r \in Workers, Handle(r)
      PROVE  TakesClaim(r, draft(r)) \/ GivesBack(r, draft(r)) \/ LeavesClaims
  BY <1>2, ClaimTakes, ReleaseGivesBack, HandleLeavesClaims
<1>3. ASSUME NEW r \in Workers, StoreFault(r) PROVE LeavesClaims
  BY <1>3, FaultLeavesClaims
<1>4. ASSUME NEW s \in Workers, UNCHANGED handlerVars PROVE Keeps(s)
  <2>1. Held(s)' = Held(s)
    BY <1>4 DEF handlerVars, Held
  <2> QED
    BY <1>4, <2>1, HeldShrinks DEF handlerVars
<1>5. ASSUME NEW d \in Drafts, DraftAdded(d) PROVE Appears(d)
  BY <1>4, <1>5 DEF DraftAdded, Appears, set_status
<1>6. CASE Tick
  BY <1>4, <1>6 DEF Tick, LeavesClaims, storeVars
<1>7. CASE Restart
  <2>1. ASSUME NEW s \in Workers PROVE Keeps(s)
    <3>1. pc'[s] = "idle"
      BY <1>7 DEF Restart
    <3>2. Held(s)' = {}
      BY <3>1 DEF Held, Applying
    <3> QED
      BY <3>2 DEF Keeps, Owned
  <2> QED
    BY <1>7, <2>1 DEF Restart, LeavesClaims, storeVars
<1>8. CASE UNCHANGED vars
  BY <1>4, <1>8 DEF vars, LeavesClaims, storeVars
<1> QED
  BY <1>1, <1>2, <1>3, <1>5, <1>6, <1>7, <1>8 DEF Next, Waiting

----------------------------------------------------------------------------
(* The exclusive claim *)

LEMMA InitExclusive == Init => ClaimExclusive
<1> SUFFICES ASSUME Init PROVE ClaimExclusive
  OBVIOUS
<1>1. \A r \in Workers : Owned(r) = {}
  BY DEF Init, Owned, Held, Applying
<1> QED
  BY <1>1 DEF ClaimExclusive

LEMMA NextExclusive == TypeInv /\ ClaimExclusive /\ [Next]_vars => ClaimExclusive'
<1> SUFFICES ASSUME TypeInv, ClaimExclusive, [Next]_vars PROVE ClaimExclusive'
  OBVIOUS
<1>0. draftStatus \in [Drafts -> DraftStatus]
  BY DEF TypeInv, TypeOK, StoreTypeOK
<1>1. \A r \in Workers : decision(r) \in Decisions
  BY DEF decision, Decisions
<1>2. ASSUME NEW d, draftStatus[d] \notin Decisions, NEW r \in Workers
      PROVE  d \notin Owned(r)
  BY <1>1, <1>2 DEF ClaimExclusive
<1>3. ASSUME NEW r \in Workers, TakesClaim(r, draft(r)) PROVE ClaimExclusive'
  <2>1. \A s \in Workers : draft(r) \notin Owned(s)
    BY <1>2, <1>3 DEF TakesClaim, Decisions
  <2>2. \A s, u \in Workers : s # u => Owned(s)' \cap Owned(u)' = {}
    BY <1>3, <2>1 DEF TakesClaim, Keeps, ClaimExclusive
  <2>3. ASSUME NEW s \in Workers, NEW d \in Owned(s)'
        PROVE  draftStatus'[d] = decision(s)'
    <3>1. CASE s = r /\ d = draft(r)
      <4>1. draft(r) \in Drafts
        BY <1>3, DraftAtHand DEF TakesClaim, Claim
      <4> QED
        BY <1>0, <1>3, <3>1, <4>1 DEF TakesClaim
    <3>2. CASE ~(s = r /\ d = draft(r))
      <4>1. d \in Owned(s) /\ decision(s)' = decision(s) /\ d # draft(r)
        BY <1>3, <2>1, <2>3, <3>2 DEF TakesClaim, Keeps
      <4> QED
        BY <1>3, <4>1 DEF TakesClaim, ClaimExclusive
    <3> QED
      BY <3>1, <3>2
  <2> QED
    BY <2>2, <2>3 DEF ClaimExclusive
<1>4. ASSUME NEW e, \A s \in Workers : Keeps(s) /\ e \notin Owned(s)',
             draftStatus' = [draftStatus EXCEPT ![e] = "pending"]
      PROVE  ClaimExclusive'
  <2>1. \A s, u \in Workers : s # u => Owned(s)' \cap Owned(u)' = {}
    BY <1>4 DEF Keeps, ClaimExclusive
  <2>2. ASSUME NEW s \in Workers, NEW d \in Owned(s)'
        PROVE  draftStatus'[d] = decision(s)'
    BY <1>4, <2>2 DEF Keeps, ClaimExclusive
  <2> QED
    BY <2>1, <2>2 DEF ClaimExclusive
<1>5. ASSUME NEW r \in Workers, GivesBack(r, draft(r)) PROVE ClaimExclusive'
  <2>1. \A s \in Workers : draft(r) \notin Owned(s)'
    BY <1>5 DEF GivesBack, Keeps, ClaimExclusive
  <2> QED
    BY <1>4, <1>5, <2>1 DEF GivesBack
<1>6. ASSUME NEW e \in Drafts, Appears(e) PROVE ClaimExclusive'
  <2>1. \A s \in Workers : e \notin Owned(s)'
    BY <1>2, <1>6 DEF Appears, Keeps, Decisions
  <2> QED
    BY <1>4, <1>6, <2>1 DEF Appears
<1>7. CASE LeavesClaims
  BY <1>7 DEF LeavesClaims, Keeps, ClaimExclusive
<1> QED
  BY <1>3, <1>5, <1>6, <1>7, ClaimStep

(***************************************************************************)
(* A claimed draft has one decider, and the status the claim gave it is    *)
(* the decision that decider is making, however many requests compete for  *)
(* however many drafts, and whatever fails.  claim_pending alone carries   *)
(* this: the fast check before it plays no part in the argument.           *)
(***************************************************************************)
THEOREM ClaimIsExclusive == Spec => []ClaimExclusive
BY InitExclusive, NextExclusive, TypeInvariance, PTL DEF Spec

----------------------------------------------------------------------------
(* Audited decisions *)

AuditInv ==
    /\ AuditedDecisionStands
    /\ \A r \in Workers : \A d \in Owned(r), x \in Decisions : audited[d][x] = 0
    /\ \A r \in Workers : pc[r] = "audit" /\ op[r] # "reject" => draft(r) \in rows

\* A step keeps the rows, and only WriteAudit appends a decision event.
LEMMA LedgerStep ==
    ASSUME TypeInv, [Next]_vars
    PROVE  /\ rows \subseteq rows'
           /\ audited' = audited \/ \E r \in Workers : WriteAudit(r)
<1>1. rows \subseteq rows'
  BY DEF Next, Begin, Handle, CheckPending, CheckRefused, Claim, ClaimLost, Preflight,
         ReadPrevious, AddRecord, WriteVersion, WriteRefused, WriteAudit, Release,
         StoreFault, Tick, DraftAdded, Restart, Waiting, vars, storeVars, versionTable,
         add, supersede
<1>2. audited' = audited \/ \E r \in Workers : WriteAudit(r)
  BY DEF Next, Begin, Handle, CheckPending, CheckRefused, Claim, ClaimLost, Preflight,
         ReadPrevious, AddRecord, WriteVersion, WriteRefused, WriteAudit, Release,
         StoreFault, Tick, DraftAdded, Restart, Waiting, vars, storeVars
<1> QED
  BY <1>1, <1>2

\* A request enters the audit stage with its version written or with none to write.
LEMMA EntersAudit ==
    ASSUME TypeInv, [Next]_vars, NEW r \in Workers, pc'[r] = "audit"
    PROVE  \/ /\ pc[r] = "audit" /\ op'[r] = op[r] /\ ids'[r] = ids[r] /\ k'[r] = k[r]
           \/ AddRecord(r) /\ op[r] = "reject" /\ op'[r] = "reject"
           \/ WriteVersion(r) /\ ids'[r] = ids[r] /\ k'[r] = k[r]
<1> USE DEF TypeInv, TypeOK, HandlerTypeOK
<1>1. ASSUME NEW s \in Workers, Begin(s) \/ Handle(s) \/ StoreFault(s), s # r
      PROVE  pc[r] = "audit" /\ op'[r] = op[r] /\ ids'[r] = ids[r] /\ k'[r] = k[r]
  BY <1>1 DEF Begin, Handle, CheckPending, CheckRefused, Claim, ClaimLost, Preflight,
         ReadPrevious, AddRecord, WriteVersion, WriteRefused, WriteAudit, Release,
         StoreFault, StartRelease, Goto, Finish
<1>2. CASE Handle(r)
  BY <1>2 DEF Handle, CheckPending, CheckRefused, Claim, ClaimLost, Preflight,
         ReadPrevious, AddRecord, WriteVersion, WriteRefused, WriteAudit, Release,
         StartRelease, Goto, Finish, Ops
<1>3. ~Begin(r) /\ ~StoreFault(r) /\ ~Restart
  BY DEF Begin, StoreFault, StartRelease, Finish, Restart
<1>4. ASSUME UNCHANGED handlerVars
      PROVE  pc[r] = "audit" /\ op'[r] = op[r] /\ ids'[r] = ids[r] /\ k'[r] = k[r]
  BY <1>4 DEF handlerVars
<1> QED
  BY <1>1, <1>2, <1>3, <1>4 DEF Next, Tick, DraftAdded, Waiting, vars

\* A draft nobody has decided yet has no decision event.
LEMMA UndecidedUnaudited ==
    ASSUME TypeInv, AuditInv, NEW d \in Drafts, draftStatus[d] \notin Decisions
    PROVE  \A x \in Decisions : audited[d][x] = 0
<1>1. audited[d]["approved"] \in Nat /\ audited[d]["rejected"] \in Nat
  BY DEF TypeInv, TypeOK, StoreTypeOK, Decisions
<1> QED
  BY <1>1 DEF AuditInv, AuditedDecisionStands, Decisions

LEMMA InitAudit == Init => AuditInv
<1> SUFFICES ASSUME Init PROVE AuditInv
  OBVIOUS
<1>1. \A r \in Workers : Owned(r) = {} /\ pc[r] = "idle"
  BY DEF Init, Owned, Held, Applying
<1>2. AuditedDecisionStands
  BY DEF Init, StoreInit, AuditedDecisionStands, Decisions
<1> QED
  BY <1>1, <1>2 DEF AuditInv

\* The event a request writes is the first of its draft, and true.
LEMMA WriteAuditStands ==
    ASSUME TypeInv, ClaimExclusive, AuditInv, NEW r \in Workers, WriteAudit(r)
    PROVE  /\ AuditedDecisionStands'
           /\ \A s \in Workers : \A d \in Owned(s)', x \in Decisions : audited'[d][x] = 0
<1>1. /\ pc[r] = "audit" /\ k[r] \in 1..Len(ids[r]) /\ Len(ids[r]) \in Nat
      /\ draft(r) \in Drafts /\ decision(r) \in Decisions
  BY DraftAtHand DEF WriteAudit, TypeInv, HandlerOK
<1>2. audited' = [audited EXCEPT ![draft(r)][decision(r)] = @ + 1]
  BY DEF WriteAudit, append_audit
<1>3. draftStatus' = draftStatus /\ rows' = rows
  BY DEF WriteAudit, versionTable
<1>5. draft(r) \in Owned(r)
  BY WriteAuditLetsGo
<1>6. draft(r) \notin Owned(r)' /\ Keeps(r) /\ Aside(r)
  BY WriteAuditLetsGo
<1>7. audited \in [Drafts -> [Decisions -> Nat]]
  BY DEF TypeInv, TypeOK, StoreTypeOK
<1>8. \A d \in Drafts : d # draft(r) => audited'[d] = audited[d]
  BY <1>2, <1>7
<1>9. /\ \A x \in Decisions : audited[draft(r)][x] = 0
      /\ draftStatus[draft(r)] = decision(r)
      /\ decision(r) = "approved" => draft(r) \in rows
  BY <1>1, <1>5 DEF AuditInv, ClaimExclusive, decision, Decisions
<1>10. \A x \in Decisions :
          audited'[draft(r)][x] = IF x = decision(r) THEN 1 ELSE 0
  BY <1>1, <1>2, <1>7, <1>9
<1>11. AuditedDecisionStands'
  BY <1>1, <1>3, <1>8, <1>9, <1>10 DEF AuditInv, AuditedDecisionStands, Decisions
<1>12. ASSUME NEW s \in Workers, NEW d \in Owned(s)', NEW x \in Decisions
       PROVE  audited'[d][x] = 0
  <2>1. d \in Owned(s) /\ d # draft(r)
    BY <1>5, <1>6, <1>12, AsideKeeps DEF Keeps, ClaimExclusive
  <2>2. d \in Drafts
    BY <2>1, OwnedAreDrafts
  <2> QED
    BY <1>8, <2>1, <2>2 DEF AuditInv
<1> QED
  BY <1>11, <1>12

LEMMA NextAudit == TypeInv /\ ClaimExclusive /\ AuditInv /\ [Next]_vars => AuditInv'
<1> SUFFICES ASSUME TypeInv, ClaimExclusive, AuditInv, [Next]_vars PROVE AuditInv'
  OBVIOUS
<1>1. TypeInv' /\ ClaimExclusive'
  BY NextTyped, NextExclusive
<1>2. ASSUME NEW r \in Workers, pc'[r] = "audit", op'[r] # "reject"
      PROVE  draft(r)' \in rows'
  <2>1. CASE pc[r] = "audit" /\ op'[r] = op[r] /\ ids'[r] = ids[r] /\ k'[r] = k[r]
    BY <1>2, <2>1, LedgerStep DEF AuditInv, draft
  <2>2. CASE WriteVersion(r) /\ ids'[r] = ids[r] /\ k'[r] = k[r]
    BY <2>2 DEF WriteVersion, add, supersede, draft
  <2> QED
    BY <1>2, <2>1, <2>2, EntersAudit
<1>3. CASE \E r \in Workers : WriteAudit(r)
  BY <1>2, <1>3, WriteAuditStands DEF AuditInv
<1>4. CASE audited' = audited
  <2>1. AuditedDecisionStands' /\ \A s \in Workers : \A d \in Owned(s)', x \in Decisions :
            audited'[d][x] = 0
    <3>1. ASSUME NEW e \in Drafts, draftStatus[e] \notin Decisions,
                 \A d \in Drafts : d # e => draftStatus'[d] = draftStatus[d]
          PROVE  AuditedDecisionStands'
      BY <1>4, <3>1, LedgerStep, UndecidedUnaudited
         DEF AuditInv, AuditedDecisionStands, Decisions
    <3>2. ASSUME NEW e \in Drafts, NEW r \in Workers, e \in Owned(r),
                 \A d \in Drafts : d # e => draftStatus'[d] = draftStatus[d]
          PROVE  AuditedDecisionStands'
      BY <1>4, <3>2, LedgerStep DEF AuditInv, AuditedDecisionStands, Decisions
    <3>3. ASSUME NEW r \in Workers, TakesClaim(r, draft(r))
          PROVE  /\ AuditedDecisionStands'
                 /\ \A s \in Workers : \A d \in Owned(s)', x \in Decisions :
                        audited'[d][x] = 0
      <4>1. draft(r) \in Drafts /\ draftStatus[draft(r)] \notin Decisions
        BY <3>3, DraftAtHand DEF TakesClaim, Claim, Decisions
      <4>2. \A d \in Drafts : d # draft(r) => draftStatus'[d] = draftStatus[d]
        BY <3>3 DEF TakesClaim, TypeInv, TypeOK, StoreTypeOK
      <4>3. \A s \in Workers : Owned(s)' \subseteq Owned(s) \cup {draft(r)}
        BY <3>3 DEF TakesClaim, Keeps
      <4> QED
        BY <1>4, <3>1, <4>1, <4>2, <4>3, UndecidedUnaudited DEF AuditInv
    <3>4. ASSUME NEW r \in Workers, GivesBack(r, draft(r))
          PROVE  AuditedDecisionStands' /\ \A s \in Workers : Keeps(s)
      <4>1. draft(r) \in Drafts
        BY <3>4, DraftAtHand DEF GivesBack, Release
      <4> QED
        BY <3>2, <3>4, <4>1 DEF GivesBack, TypeInv, TypeOK, StoreTypeOK
    <3>5. ASSUME NEW e \in Drafts, Appears(e)
          PROVE  AuditedDecisionStands' /\ \A s \in Workers : Keeps(s)
      BY <3>1, <3>5 DEF Appears, Decisions, TypeInv, TypeOK, StoreTypeOK
    <3>6. ASSUME LeavesClaims
          PROVE  AuditedDecisionStands' /\ \A s \in Workers : Keeps(s)
      <4>1. draftStatus' = draftStatus /\ rows \subseteq rows'
        BY <3>6, LedgerStep DEF LeavesClaims
      <4>2. AuditedDecisionStands'
        BY <1>4, <4>1 DEF AuditInv, AuditedDecisionStands
      <4> QED
        BY <3>6, <4>2 DEF LeavesClaims
    <3>7. (\A s \in Workers : Keeps(s)) =>
            \A s \in Workers : \A d \in Owned(s)', x \in Decisions : audited'[d][x] = 0
      BY <1>4 DEF Keeps, AuditInv
    <3> QED
      BY <3>3, <3>4, <3>5, <3>6, <3>7, ClaimStep
  <2> QED
    BY <1>2, <2>1 DEF AuditInv
<1> QED
  BY <1>3, <1>4, LedgerStep

(***************************************************************************)
(* What the audit trail says of a draft is one decision, and it stays      *)
(* true: nothing that fails, loses a race or restarts afterwards takes the *)
(* version or the status back.                                             *)
(***************************************************************************)
THEOREM AuditedDecisionHolds == Spec => []AuditedDecisionStands
<1>1. AuditInv => AuditedDecisionStands
  BY DEF AuditInv
<1> QED
  BY <1>1, InitAudit, NextAudit, TypeInvariance, ClaimIsExclusive, PTL DEF Spec

-----------------------------------------------------------------------------
(***************************************************************************)
(* The draft statuses, the rules, the approval records and the audit trail *)
(* agree as long as nothing but races goes wrong.                          *)
(***************************************************************************)

Agrees(d) ==
    /\ draftStatus[d] = "approved" <=> d \in rows
    /\ audited[d]["approved"] = IF d \in rows THEN 1 ELSE 0
    /\ audited[d]["rejected"] = IF draftStatus[d] = "rejected" THEN 1 ELSE 0
    /\ approvals[d]["rejected"] = audited[d]["rejected"]

\* Request r is about to write the audit event of d.
Reflects(r, d) == pc[r] = "audit" /\ d = draft(r)

(***************************************************************************)
(* A draft that is being decided has no version and no rejection on record *)
(* until the store call before its audit event.                            *)
(***************************************************************************)
Undecided(r, d) ==
    /\ d \in rows <=> Reflects(r, d) /\ op[r] # "reject"
    /\ approvals[d]["rejected"] = IF Reflects(r, d) /\ op[r] = "reject" THEN 1 ELSE 0

LedgerInv ==
    faults = 0 /\ crashes = 0 =>
        /\ \A d \in Drafts : Unclaimed(d) => Agrees(d)
        /\ \A r \in Workers : \A d \in Owned(r) : Undecided(r, d)

\* A step that is no fault and no crash, from a state without any.
Healthy == faults = 0 /\ crashes = 0 /\ faults' = 0 /\ crashes' = 0

LEMMA InitLedger == Init => LedgerInv
<1> SUFFICES ASSUME Init PROVE LedgerInv
  OBVIOUS
<1>1. \A r \in Workers : Owned(r) = {}
  BY DEF Init, Owned, Held, Applying
<1>2. \A d \in Drafts : d \notin rows
  BY IdsAssumption DEF Init, StoreInit
<1>3. \A d \in Drafts : Agrees(d)
  BY <1>2 DEF Init, StoreInit, Agrees, Decisions
<1> QED
  BY <1>1, <1>3 DEF LedgerInv

\* What a step leaves alone of a draft, it leaves undecided or in agreement.
LEMMA DraftLeft ==
    ASSUME NEW d, d \in rows' <=> d \in rows,
           draftStatus'[d] = draftStatus[d], audited'[d] = audited[d],
           approvals'[d]["rejected"] = approvals[d]["rejected"]
    PROVE  Agrees(d) => Agrees(d)'
BY DEF Agrees

LEMMA HeldLeft ==
    ASSUME TypeInv, NEW r, Aside(r), NEW s \in Workers \ {r}, NEW d,
           d \in rows' <=> d \in rows,
           approvals'[d]["rejected"] = approvals[d]["rejected"],
           Undecided(s, d)
    PROVE  Undecided(s, d)'
<1>1. pc'[s] = pc[s] /\ op'[s] = op[s] /\ ids'[s] = ids[s] /\ k'[s] = k[s]
  BY DEF Aside
<1>2. Reflects(s, d)' <=> Reflects(s, d)
  BY <1>1 DEF Reflects, draft
<1> QED
  BY <1>1, <1>2 DEF Undecided

(***************************************************************************)
(* A step of r that holds what it held, before the audit stage and not     *)
(* into it, and writes nothing but approval records.                       *)
(***************************************************************************)
LEMMA QuietLedger ==
    ASSUME TypeInv, LedgerInv, Healthy, NEW r \in Workers,
           Holds(r), Aside(r), pc[r] # "audit", pc'[r] # "audit",
           rows' = rows, draftStatus' = draftStatus, audited' = audited,
           \A d \in Drafts : approvals'[d]["rejected"] = approvals[d]["rejected"]
    PROVE  LedgerInv'
<1>1. \A s \in Workers : Owned(s)' = Owned(s)
  BY AsideKeeps DEF Holds
<1>2. ASSUME NEW d \in Drafts, Unclaimed(d)' PROVE Agrees(d)'
  BY <1>1, <1>2, DraftLeft DEF LedgerInv, Healthy, Unclaimed
<1>3. ASSUME NEW s \in Workers, NEW d \in Owned(s)' PROVE Undecided(s, d)'
  <2>1. d \in Drafts /\ Undecided(s, d)
    BY <1>1, <1>3, OwnedAreDrafts DEF LedgerInv, Healthy
  <2>2. CASE s = r
    BY <2>1, <2>2 DEF Undecided, Reflects
  <2>3. CASE s # r
    BY <2>1, <2>3, HeldLeft
  <2> QED
    BY <2>2, <2>3
<1> QED
  BY <1>2, <1>3 DEF LedgerInv

(***************************************************************************)
(* A step of r that changes the ledgers of one draft only, and takes or    *)
(* lets go of no other: the rest of the invariant is as it was.            *)
(***************************************************************************)
LEMMA OneDraftLedger ==
    ASSUME TypeInv, LedgerInv, Healthy, NEW r \in Workers, NEW e, Aside(r),
           \A s \in Workers \ {r} : e \notin Owned(s),
           Owned(r)' \cup {e} = Owned(r) \cup {e},
           \A d \in Drafts \ {e} :
               /\ d \in rows' <=> d \in rows
               /\ draftStatus'[d] = draftStatus[d] /\ audited'[d] = audited[d]
               /\ approvals'[d]["rejected"] = approvals[d]["rejected"],
           \A d \in Drafts \ {e} : ~Reflects(r, d) /\ ~Reflects(r, d)',
           e \in Owned(r)' => Undecided(r, e)',
           e \notin Owned(r)' => Agrees(e)'
    PROVE  LedgerInv'
<1>1. \A s \in Workers \ {r} : Owned(s)' = Owned(s)
  BY AsideKeeps DEF Holds
<1>2. ASSUME NEW d \in Drafts, Unclaimed(d)' PROVE Agrees(d)'
  <2>1. CASE d = e
    BY <1>2, <2>1 DEF Unclaimed
  <2>2. CASE d # e
    <3>1. Unclaimed(d)
      BY <1>1, <1>2, <2>2 DEF Unclaimed
    <3> QED
      BY <2>2, <3>1, DraftLeft DEF LedgerInv, Healthy
  <2> QED
    BY <2>1, <2>2
<1>3. ASSUME NEW s \in Workers, NEW d \in Owned(s)' PROVE Undecided(s, d)'
  <2>1. CASE d = e
    BY <1>1, <1>3, <2>1
  <2>2. CASE d # e
    <3>1. d \in Drafts /\ d \in Owned(s) /\ Undecided(s, d)
      BY <1>1, <1>3, <2>2, OwnedAreDrafts DEF LedgerInv, Healthy
    <3>2. CASE s = r
      BY <2>2, <3>1, <3>2 DEF Undecided
    <3>3. CASE s # r
      BY <2>2, <3>1, <3>3, HeldLeft
    <3> QED
      BY <3>2, <3>3
  <2> QED
    BY <2>1, <2>2
<1> QED
  BY <1>2, <1>3 DEF LedgerInv

\* A claim takes a pending draft that nobody holds and that has no version.
LEMMA ClaimLedger ==
    ASSUME TypeInv, ClaimExclusive, LedgerInv, Healthy, NEW r \in Workers, Claim(r)
    PROVE  LedgerInv'
<1> DEFINE d == draft(r)
<1>1. TakesClaim(r, d)
  BY ClaimTakes
<1>2. d \in Drafts /\ draftStatus[d] = "pending"
  BY <1>1, DraftAtHand DEF TakesClaim, Claim
<1>3. \A s \in Workers : d \notin Owned(s)
  BY <1>2 DEF ClaimExclusive, decision
<1>4. Agrees(d)
  BY <1>2, <1>3 DEF LedgerInv, Healthy, Unclaimed
<1>5. /\ rows' = rows /\ approvals' = approvals /\ audited' = audited
      /\ pc[r] = "claim"
  BY DEF Claim, versionTable
<1>6. pc'[r] # "audit"
  BY DEF Claim, Goto, TypeInv, TypeOK, HandlerTypeOK, Ops
<1>7. \A e \in Drafts \ {d} : draftStatus'[e] = draftStatus[e]
  BY <1>1, <1>2 DEF TakesClaim, TypeInv, TypeOK, StoreTypeOK
<1>8. PICK c \in Drafts : c = d
  BY <1>2
<1>9. Undecided(r, c)'
  BY <1>2, <1>4, <1>5, <1>6, <1>8 DEF Agrees, Undecided, Reflects
<1>10. Aside(r) /\ Owned(r)' = Owned(r) \cup {c}
  BY <1>1, <1>8 DEF TakesClaim
<1>11. \A e : ~Reflects(r, e) /\ ~Reflects(r, e)'
  BY <1>5, <1>6 DEF Reflects
<1> QED
  BY <1>3, <1>5, <1>7, <1>8, <1>9, <1>10, <1>11, OneDraftLedger

\* A release gives back a draft with no version and no event.
LEMMA ReleaseLedger ==
    ASSUME TypeInv, ClaimExclusive, AuditInv, LedgerInv, Healthy,
           NEW r \in Workers, Release(r)
    PROVE  LedgerInv'
<1> DEFINE d == draft(r)
<1>1. GivesBack(r, d) /\ d \in Drafts
  BY ReleaseGivesBack, DraftAtHand DEF Release
<1>2. \A s \in Workers \ {r} : d \notin Owned(s)
  BY <1>1 DEF GivesBack, ClaimExclusive
<1>3. /\ rows' = rows /\ approvals' = approvals /\ audited' = audited
      /\ pc[r] = "release"
  BY DEF Release, versionTable
<1>4. pc'[r] # "audit"
  BY DEF Release, Goto, Finish, TypeInv, TypeOK, HandlerTypeOK
<1>5. Undecided(r, d) /\ \A x \in Decisions : audited[d][x] = 0
  BY <1>1 DEF GivesBack, LedgerInv, Healthy, AuditInv
<1>6. draftStatus'[d] = "pending" /\ \A e \in Drafts \ {d} : draftStatus'[e] = draftStatus[e]
  BY <1>1 DEF GivesBack, TypeInv, TypeOK, StoreTypeOK
<1>7. PICK c \in Drafts : c = d
  BY <1>1
<1>8. Agrees(c)'
  BY <1>3, <1>5, <1>6, <1>7 DEF Agrees, Undecided, Reflects, Decisions
<1>9. Aside(r) /\ Owned(r)' = Owned(r) \ {c} /\ c \in Owned(r)
  BY <1>1, <1>7 DEF GivesBack
<1>10. \A e : ~Reflects(r, e) /\ ~Reflects(r, e)'
  BY <1>3, <1>4 DEF Reflects
<1> QED
  BY <1>2, <1>3, <1>6, <1>7, <1>8, <1>9, <1>10, OneDraftLedger

\* The record of a rejection precedes its audit event.
LEMMA RecordLedger ==
    ASSUME TypeInv, ClaimExclusive, LedgerInv, Healthy, NEW r \in Workers, AddRecord(r)
    PROVE  LedgerInv'
<1>1. /\ pc[r] = "record" /\ Len(ids[r]) \in Nat /\ k[r] \in 1..Len(ids[r])
      /\ draft(r) \in Drafts /\ decision(r) \in Decisions
  BY DraftAtHand DEF AddRecord, TypeInv, HandlerOK
<1>2. /\ rows' = rows /\ draftStatus' = draftStatus /\ audited' = audited
      /\ approvals' = [approvals EXCEPT ![draft(r)][decision(r)] = @ + 1]
  BY DEF AddRecord, versionTable, add_approval
<1>3. approvals \in [Drafts -> [Decisions -> Nat]]
  BY DEF TypeInv, TypeOK, StoreTypeOK
<1>4. Holds(r) /\ Aside(r)
  BY <1>1, HandleHolds DEF Handle, Claim, Release, WriteAudit
<1>5. CASE op[r] # "reject"
  <2>1. \A d \in Drafts : approvals'[d]["rejected"] = approvals[d]["rejected"]
    BY <1>1, <1>2, <1>3, <1>5 DEF decision, Decisions
  <2>2. pc'[r] # "audit"
    BY <1>5 DEF AddRecord, Goto, TypeInv, TypeOK, HandlerTypeOK
  <2> QED
    BY <1>1, <1>2, <1>4, <2>1, <2>2, QuietLedger
<1>6. CASE op[r] = "reject"
  <2>1. Goto(r, "audit", k[r])
    BY <1>6 DEF AddRecord
  <2>2. pc'[r] = "audit" /\ draft(r)' = draft(r) /\ op'[r] = "reject"
    BY <1>6, <2>1, GotoAside DEF draft
  <2>3. draft(r) \in Owned(r)
    <3>1. Held(r) = k[r]..Len(ids[r])
      BY <1>1 DEF Held, Applying
    <3> QED
      BY <1>1, <3>1 DEF Owned, draft
  <2>4. \A s \in Workers \ {r} : draft(r) \notin Owned(s)
    BY <2>3 DEF ClaimExclusive
  <2>5. Undecided(r, draft(r))
    BY <2>3 DEF LedgerInv, Healthy
  <2>6. PICK c \in Drafts : c = draft(r)
    BY <1>1
  <2>7. /\ approvals'[c]["rejected"] = approvals[c]["rejected"] + 1
        /\ \A e \in Drafts \ {c} : approvals'[e]["rejected"] = approvals[e]["rejected"]
    BY <1>1, <1>2, <1>3, <1>6, <2>6 DEF decision, Decisions
  <2>8. Undecided(r, c)'
    BY <1>1, <1>2, <2>2, <2>5, <2>6, <2>7 DEF Undecided, Reflects
  <2>9. Owned(r)' = Owned(r) /\ c \in Owned(r)
    BY <1>4, <2>3, <2>6 DEF Holds
  <2>10. \A e \in Drafts \ {c} : ~Reflects(r, e) /\ ~Reflects(r, e)'
    BY <1>1, <2>2, <2>6 DEF Reflects
  <2> QED
    BY <1>2, <1>4, <2>4, <2>6, <2>7, <2>8, <2>9, <2>10, OneDraftLedger
<1> QED
  BY <1>5, <1>6

\* The version of an approval precedes its audit event.
LEMMA VersionLedger ==
    ASSUME TypeInv, ClaimExclusive, LedgerInv, Healthy, NEW r \in Workers, WriteVersion(r)
    PROVE  LedgerInv'
<1>1. /\ pc[r] = "write" /\ Len(ids[r]) \in Nat /\ k[r] \in 1..Len(ids[r])
      /\ draft(r) \in Drafts /\ op[r] # "reject"
  BY DraftAtHand DEF WriteVersion, TypeInv, HandlerOK
<1>2. /\ rows' = rows \cup {draft(r)} /\ draftStatus' = draftStatus
      /\ audited' = audited /\ approvals' = approvals
  BY DEF WriteVersion, add, supersede
<1>3. Holds(r) /\ Aside(r)
  BY <1>1, HandleHolds DEF Handle, Claim, Release, WriteAudit
<1>4. Goto(r, "audit", k[r])
  BY DEF WriteVersion
<1>5. pc'[r] = "audit" /\ draft(r)' = draft(r) /\ op'[r] = op[r]
  BY <1>4, GotoAside DEF draft
<1>6. draft(r) \in Owned(r)
  <2>1. Held(r) = k[r]..Len(ids[r])
    BY <1>1 DEF Held, Applying
  <2> QED
    BY <1>1, <2>1 DEF Owned, draft
<1>7. \A s \in Workers \ {r} : draft(r) \notin Owned(s)
  BY <1>6 DEF ClaimExclusive
<1>8. Undecided(r, draft(r))
  BY <1>6 DEF LedgerInv, Healthy
<1>9. PICK c \in Drafts : c = draft(r)
  BY <1>1
<1>10. Undecided(r, c)'
  BY <1>1, <1>2, <1>5, <1>8, <1>9 DEF Undecided, Reflects
<1>11. Owned(r)' = Owned(r) /\ c \in Owned(r)
  BY <1>3, <1>6, <1>9 DEF Holds
<1>12. \A e \in Drafts \ {c} : ~Reflects(r, e) /\ ~Reflects(r, e)'
  BY <1>1, <1>5, <1>9 DEF Reflects
<1> QED
  BY <1>2, <1>3, <1>7, <1>9, <1>10, <1>11, <1>12, OneDraftLedger

\* The audit event closes the decision: the draft is let go of in agreement.
LEMMA AuditLedger ==
    ASSUME TypeInv, ClaimExclusive, AuditInv, LedgerInv, Healthy,
           NEW r \in Workers, WriteAudit(r)
    PROVE  LedgerInv'
<1>1. /\ pc[r] = "audit" /\ draft(r) \in Drafts /\ decision(r) \in Decisions
  BY DraftAtHand DEF WriteAudit
<1>2. /\ rows' = rows /\ draftStatus' = draftStatus /\ approvals' = approvals
      /\ audited' = [audited EXCEPT ![draft(r)][decision(r)] = @ + 1]
  BY DEF WriteAudit, versionTable, append_audit
<1>3. /\ draft(r) \in Owned(r) /\ Owned(r)' = Owned(r) \ {draft(r)}
      /\ Aside(r) /\ pc'[r] # "audit"
  BY WriteAuditLetsGo
<1>4. \A s \in Workers \ {r} : draft(r) \notin Owned(s)
  BY <1>3 DEF ClaimExclusive
<1>5. /\ Undecided(r, draft(r)) /\ draftStatus[draft(r)] = decision(r)
      /\ \A x \in Decisions : audited[draft(r)][x] = 0
  BY <1>3 DEF LedgerInv, Healthy, ClaimExclusive, AuditInv
<1>6. audited \in [Drafts -> [Decisions -> Nat]]
  BY DEF TypeInv, TypeOK, StoreTypeOK
<1>7. PICK c \in Drafts : c = draft(r)
  BY <1>1
<1>8. /\ \A x \in Decisions : audited'[c][x] = IF x = decision(r) THEN 1 ELSE 0
      /\ \A e \in Drafts \ {c} : audited'[e] = audited[e]
  BY <1>1, <1>2, <1>5, <1>6, <1>7
<1>9. Agrees(c)'
  BY <1>1, <1>2, <1>5, <1>7, <1>8 DEF Agrees, Undecided, Reflects, decision, Decisions
<1>10. \A e \in Drafts \ {c} : ~Reflects(r, e) /\ ~Reflects(r, e)'
  BY <1>3, <1>7 DEF Reflects
<1> QED
  BY <1>2, <1>3, <1>4, <1>7, <1>8, <1>9, <1>10, OneDraftLedger

LEMMA NextLedger ==
    TypeInv /\ ClaimExclusive /\ AuditInv /\ LedgerInv /\ [Next]_vars => LedgerInv'
<1> SUFFICES ASSUME TypeInv, ClaimExclusive, AuditInv, LedgerInv, [Next]_vars,
                    faults' = 0, crashes' = 0
             PROVE  LedgerInv'
  BY DEF LedgerInv
<1>0. /\ Healthy /\ ~Restart
      /\ \A r \in Workers : ~StoreFault(r)
  <2>1. faults \in Nat /\ crashes \in Nat
    BY BoundsAssumption DEF TypeInv, TypeOK, BoundsOK
  <2> QED
    BY <2>1 DEF Healthy, Next, Begin, Handle, CheckPending, CheckRefused, Claim, ClaimLost,
           Preflight, ReadPrevious, AddRecord, WriteVersion, WriteRefused, WriteAudit,
           Release, StoreFault, Tick, DraftAdded, Restart, Waiting, vars, boundVars
<1>1. ASSUME NEW r \in Workers, Begin(r) PROVE LedgerInv'
  <2>1. /\ pc[r] = "idle" /\ pc'[r] = "check" /\ Aside(r)
    BY <1>1 DEF Begin, Aside, TypeInv, TypeOK, HandlerTypeOK
  <2>2. Held(r) = {} /\ Held(r)' = {}
    BY <2>1 DEF Held, Applying
  <2>3. Holds(r)
    BY <2>2 DEF Holds, Keeps, Owned
  <2> QED
    BY <1>0, <1>1, <2>1, <2>3, QuietLedger DEF Begin, storeVars, versionTable
<1>2. ASSUME NEW r \in Workers, Handle(r) PROVE LedgerInv'
  <2>1. CASE Claim(r) \/ Release(r) \/ AddRecord(r) \/ WriteVersion(r) \/ WriteAudit(r)
    BY <1>0, <2>1, ClaimLedger, ReleaseLedger, RecordLedger, VersionLedger, AuditLedger
  <2>2. CASE ~(Claim(r) \/ Release(r) \/ AddRecord(r) \/ WriteVersion(r) \/ WriteAudit(r))
    <3>1. Holds(r) /\ Aside(r)
      BY <1>2, <2>2, HandleHolds
    <3>2. pc[r] # "audit" /\ pc'[r] # "audit"
      BY <1>2, <2>2 DEF Handle, CheckPending, CheckRefused, ClaimLost, Preflight,
             ReadPrevious, WriteRefused, StartRelease, Goto, Finish,
             TypeInv, TypeOK, HandlerTypeOK
    <3>3. UNCHANGED storeVars
      BY <1>2, <2>2 DEF Handle, CheckPending, CheckRefused, ClaimLost, Preflight,
             ReadPrevious, WriteRefused
    <3> QED
      BY <1>0, <3>1, <3>2, <3>3, QuietLedger DEF storeVars, versionTable
  <2> QED
    BY <2>1, <2>2
<1>3. ASSUME UNCHANGED handlerVars, NEW s \in Workers
      PROVE  Owned(s)' = Owned(s) /\ \A d : Undecided(s, d) /\ rows' = rows /\ approvals' = approvals
                => Undecided(s, d)'
  BY <1>3 DEF handlerVars, Owned, Held, Undecided, Reflects, draft
<1>4. ASSUME NEW e \in Drafts, DraftAdded(e) PROVE LedgerInv'
  <2>1. /\ rows' = rows /\ approvals' = approvals /\ audited' = audited
        /\ draftStatus[e] = "absent" /\ draftStatus' = [draftStatus EXCEPT ![e] = "pending"]
        /\ UNCHANGED handlerVars
    BY <1>4 DEF DraftAdded, set_status, versionTable
  <2>2. ASSUME NEW d \in Drafts, Unclaimed(d)' PROVE Agrees(d)'
    <3>1. Agrees(d)
      BY <1>0, <1>3, <2>1, <2>2 DEF LedgerInv, Healthy, Unclaimed
    <3>2. draftStatus'[d] = draftStatus[d] \/ (draftStatus[d] = "absent" /\ draftStatus'[d] = "pending")
      BY <2>1 DEF TypeInv, TypeOK, StoreTypeOK
    <3> QED
      BY <2>1, <3>1, <3>2 DEF Agrees
  <2>3. ASSUME NEW s \in Workers, NEW d \in Owned(s)' PROVE Undecided(s, d)'
    BY <1>0, <1>3, <2>1, <2>3 DEF LedgerInv, Healthy
  <2> QED
    BY <2>2, <2>3 DEF LedgerInv
<1>5. CASE Tick \/ UNCHANGED vars
  <2>1. UNCHANGED <<storeVars, handlerVars>>
    BY <1>5 DEF Tick, vars
  <2>2. /\ rows' = rows /\ approvals' = approvals /\ audited' = audited
        /\ draftStatus' = draftStatus /\ UNCHANGED handlerVars
    BY <2>1 DEF storeVars, versionTable
  <2>3. ASSUME NEW d \in Drafts, Unclaimed(d)' PROVE Agrees(d)'
    BY <1>0, <1>3, <2>2, <2>3, DraftLeft DEF LedgerInv, Healthy, Unclaimed
  <2>4. ASSUME NEW s \in Workers, NEW d \in Owned(s)' PROVE Undecided(s, d)'
    BY <1>0, <1>3, <2>2, <2>4 DEF LedgerInv, Healthy
  <2> QED
    BY <2>3, <2>4 DEF LedgerInv
<1> QED
  BY <1>0, <1>1, <1>2, <1>4, <1>5 DEF Next, Waiting

LEMMA AuditInvariance == Spec => []AuditInv
BY InitAudit, NextAudit, TypeInvariance, ClaimIsExclusive, PTL DEF Spec

LEMMA LedgerInvariance == Spec => []LedgerInv
BY InitLedger, NextLedger, AuditInvariance, TypeInvariance, ClaimIsExclusive, PTL DEF Spec

-----------------------------------------------------------------------------
(* Where claims go *)

(***************************************************************************)
(* The only draft WriteAudit lets go of has just been settled: its holder  *)
(* was its one decider, nothing was on the trail, and its version, if any, *)
(* was written.                                                            *)
(***************************************************************************)
LEMMA AuditSettles ==
    ASSUME TypeInv, ClaimExclusive, AuditInv, NEW r \in Workers, WriteAudit(r),
           NEW d \in Owned(r) \ Owned(r)'
    PROVE  Settled(d)'
<1>1. /\ pc[r] = "audit" /\ draft(r) \in Drafts /\ decision(r) \in Decisions
  BY DraftAtHand DEF WriteAudit
<1>2. d = draft(r) /\ d \in Drafts
  BY <1>1, WriteAuditLetsGo
<1>3. /\ rows' = rows /\ draftStatus' = draftStatus
      /\ audited' = [audited EXCEPT ![draft(r)][decision(r)] = @ + 1]
  BY DEF WriteAudit, versionTable, append_audit
<1>4. /\ draftStatus[d] = decision(r) /\ \A x \in Decisions : audited[d][x] = 0
      /\ decision(r) = "approved" => d \in rows
  BY <1>1, <1>2 DEF ClaimExclusive, AuditInv, decision
<1>5. audited \in [Drafts -> [Decisions -> Nat]]
  BY DEF TypeInv, TypeOK, StoreTypeOK
<1>6. audited'[d][decision(r)] = 1
  BY <1>1, <1>2, <1>3, <1>4, <1>5
<1>7. decision(r) = "approved" \/ decision(r) = "rejected"
  BY DEF decision
<1> QED
  BY <1>3, <1>4, <1>6, <1>7 DEF Settled

LEMMA NextSettles ==
    ASSUME TypeInv, ClaimExclusive, AuditInv, [Next]_vars,
           NEW s \in Workers, NEW d \in Owned(s) \ Owned(s)'
    PROVE  Settled(d)' \/ draftStatus'[d] = "pending" \/ LosesItsClaims(s)
<1>1. ASSUME NEW r \in Workers, Aside(r), r # s PROVE FALSE
  BY <1>1, AsideKeeps DEF Holds
<1>2. CASE UNCHANGED handlerVars
  <2>1. Held(s)' = Held(s) /\ ids' = ids
    BY <1>2 DEF handlerVars, Held
  <2> QED
    BY <2>1 DEF Owned
<1>3. ASSUME NEW r \in Workers, Begin(r) PROVE FALSE
  <2>1. pc[r] = "idle" /\ Aside(r)
    BY <1>3 DEF Begin, Aside, TypeInv, TypeOK, HandlerTypeOK
  <2>2. Owned(r) = {}
    BY <2>1 DEF Held, Applying, Owned
  <2> QED
    BY <1>1, <2>1, <2>2
<1>4. ASSUME NEW r \in Workers, Handle(r)
      PROVE  Settled(d)' \/ draftStatus'[d] = "pending"
  <2>1. CASE Claim(r)
    <3>1. Aside(r) /\ Owned(r) \subseteq Owned(r)'
      BY <2>1, ClaimTakes DEF TakesClaim
    <3> QED
      BY <1>1, <3>1
  <2>2. CASE Release(r)
    <3>1. GivesBack(r, draft(r)) /\ draft(r) \in Drafts
      BY <2>2, ReleaseGivesBack, DraftAtHand DEF Release
    <3>2. r = s /\ d = draft(r)
      BY <1>1, <3>1 DEF GivesBack
    <3> QED
      BY <3>1, <3>2 DEF GivesBack, TypeInv, TypeOK, StoreTypeOK
  <2>3. CASE WriteAudit(r)
    <3>1. r = s
      BY <1>1, <2>3, WriteAuditLetsGo
    <3> QED
      BY <2>3, <3>1, AuditSettles
  <2>4. CASE ~Claim(r) /\ ~Release(r) /\ ~WriteAudit(r)
    BY <1>1, <1>4, <2>4, HandleHolds DEF Holds
  <2> QED
    BY <2>1, <2>2, <2>3, <2>4
<1>5. ASSUME NEW r \in Workers, StoreFault(r) PROVE LosesItsClaims(s)
  <2>1. CASE pc[r] \in Applying
    <3>1. Held(r) = k[r]..Len(ids[r]) /\ StartRelease(r, k[r], Len(ids[r]))
      BY <1>5, <2>1 DEF StoreFault, Held, Applying
    <3>2. k[r] \in Nat /\ Len(ids[r]) \in Nat
      BY DEF TypeInv, TypeOK, HandlerTypeOK
    <3> QED
      BY <1>1, <3>1, <3>2, StartReleaseHolds DEF Holds
  <2>2. CASE pc[r] \notin Applying
    <3>1. Aside(r)
      BY <1>5, <2>2, FinishKeeps DEF StoreFault
    <3>2. faults \in Nat /\ faults' = faults + 1
      BY <1>5, BoundsAssumption DEF StoreFault, TypeInv, TypeOK, BoundsOK
    <3> QED
      BY <1>1, <2>2, <3>1, <3>2 DEF LosesItsClaims
  <2> QED
    BY <2>1, <2>2
<1>6. CASE Restart
  <2>1. crashes \in Nat /\ crashes' = crashes + 1
    BY <1>6, BoundsAssumption DEF Restart, TypeInv, TypeOK, BoundsOK
  <2> QED
    BY <2>1 DEF LosesItsClaims
<1> QED
  BY <1>2, <1>3, <1>4, <1>5, <1>6 DEF Next, Tick, DraftAdded, Waiting, vars

(***************************************************************************)
(* However many requests race for however many drafts, a claim is given up *)
(* only with the decision on record or with the draft pending again; the   *)
(* failures _batch_approve does not catch and a death are the only ways to *)
(* leave a draft decided by nobody.                                        *)
(***************************************************************************)
THEOREM ClaimsAreAlwaysSettled == Spec => ClaimsAreSettled
<1>1. TypeInv /\ ClaimExclusive /\ AuditInv /\ [Next]_vars
        => [\A r \in Workers : \A d \in Owned(r) \ Owned(r)' :
              Settled(d)' \/ draftStatus'[d] = "pending" \/ LosesItsClaims(r)]_vars
  BY NextSettles
<1> QED
  BY <1>1, TypeInvariance, ClaimIsExclusive, AuditInvariance, PTL DEF Spec, ClaimsAreSettled

-----------------------------------------------------------------------------
(* The version table                                                       *)

\* Where a version's window ends before another one's begins.
Before(v, w) == until[v] # NULL /\ until[v] <= from[w]

Covers(v, t) == from[v] <= t /\ (until[v] = NULL \/ t < until[v])

(***************************************************************************)
(* The invariant of the table.  A row that does not exist is not closed; a *)
(* closed window is not empty; a version made from a draft starts at an    *)
(* instant; and the windows of a seeded policy are disjoint and leave no   *)
(* instant out.                                                            *)
(***************************************************************************)
RowsOK ==
    /\ Seeded \subseteq rows
    /\ \A v \in VersionId \ rows : until[v] = NULL /\ prior[v] = NoVersion
    /\ \A v \in rows : until[v] # NULL => from[v] < until[v]
    /\ \A v \in rows : v \in Drafts => from[v] \in 1..MaxTime

WindowsDisjoint ==
    \A v, w \in rows :
        v # w /\ PolicyOf(v) = PolicyOf(w) /\ PolicyOf(v) \in Seeded
            => Before(v, w) \/ Before(w, v)

WindowsCover ==
    \A p \in Seeded : \A t \in Nat : \E v \in rows : PolicyOf(v) = p /\ Covers(v, t)

(***************************************************************************)
(* What a request remembers of its read: a version of its policy that is   *)
(* still in the table, or that the policy had none, and then the policy is *)
(* not a seeded one.                                                       *)
(***************************************************************************)
PreviousOK(r) ==
    pc[r] \in {"record", "write"} /\ op[r] # "reject" =>
        \/ previous[r] = NoVersion /\ Target[draft(r)] \notin Seeded
        \/ previous[r] \in rows /\ PolicyOf(previous[r]) = Target[draft(r)]

WindowInv ==
    /\ RowsOK /\ WindowsDisjoint /\ WindowsCover
    /\ \A r \in Workers : PreviousOK(r)

----------------------------------------------------------------------------
(* Helpers *)

\* The version of a draft belongs to the policy the draft aims at.
LEMMA PolicyOfDraft ==
    ASSUME NEW d \in Drafts
    PROVE  PolicyOf(d) = Target[d] /\ d \in VersionId
BY IdsAssumption DEF PolicyOf, VersionId

\* Only WriteVersion changes the version table.
LEMMA VersionStep ==
    ASSUME [Next]_vars
    PROVE  UNCHANGED versionTable \/ \E r \in Workers : WriteVersion(r)
BY DEF Next, Begin, Handle, CheckPending, CheckRefused, Claim, ClaimLost, Preflight,
       ReadPrevious, AddRecord, WriteVersion, WriteRefused, WriteAudit, Release,
       StoreFault, Tick, DraftAdded, Restart, Waiting, vars, storeVars, versionTable

\* A request is between its read and its write because it was, or it just read.
LEMMA EntersRecord ==
    ASSUME TypeInv, [Next]_vars, NEW r \in Workers,
           pc'[r] \in {"record", "write"}, op'[r] # "reject"
    PROVE  \/ /\ pc[r] \in {"record", "write"} /\ op'[r] = op[r] /\ ids'[r] = ids[r]
              /\ k'[r] = k[r] /\ previous'[r] = previous[r]
           \/ ReadPrevious(r) /\ op'[r] = op[r] /\ ids'[r] = ids[r] /\ k'[r] = k[r]
<1> USE DEF TypeInv, TypeOK, HandlerTypeOK
<1>1. ASSUME NEW s \in Workers, Begin(s) \/ Handle(s) \/ StoreFault(s), s # r
      PROVE  /\ pc[r] \in {"record", "write"} /\ op'[r] = op[r] /\ ids'[r] = ids[r]
             /\ k'[r] = k[r] /\ previous'[r] = previous[r]
  BY <1>1 DEF Begin, Handle, CheckPending, CheckRefused, Claim, ClaimLost, Preflight,
         ReadPrevious, AddRecord, WriteVersion, WriteRefused, WriteAudit, Release,
         StoreFault, StartRelease, Goto, Finish
<1>2. CASE Handle(r)
  BY <1>2 DEF Handle, CheckPending, CheckRefused, Claim, ClaimLost, Preflight,
         ReadPrevious, AddRecord, WriteVersion, WriteRefused, WriteAudit, Release,
         StartRelease, Goto, Finish, Ops
<1>3. ~Begin(r) /\ ~StoreFault(r) /\ ~Restart
  BY DEF Begin, StoreFault, StartRelease, Finish, Restart
<1>4. ASSUME UNCHANGED handlerVars
      PROVE  /\ pc[r] \in {"record", "write"} /\ op'[r] = op[r] /\ ids'[r] = ids[r]
             /\ k'[r] = k[r] /\ previous'[r] = previous[r]
  BY <1>4 DEF handlerVars
<1> QED
  BY <1>1, <1>2, <1>3, <1>4 DEF Next, Tick, DraftAdded, Waiting, vars

(***************************************************************************)
(* What a write does to the table: the new version is the draft's, it is   *)
(* open and starts at the request's now; the version it names, if any, was *)
(* open, started earlier and ends there.                                   *)
(***************************************************************************)
LEMMA WriteEffect ==
    ASSUME TypeInv, RowsOK, NEW r \in Workers, WriteVersion(r), PreviousOK(r)
    PROVE  LET d == draft(r)
               u == previous[r]
               at == now[r]
           IN  /\ d \in Drafts \ rows /\ at \in 1..MaxTime
               /\ rows' = rows \cup {d}
               /\ from' = [from EXCEPT ![d] = at]
               /\ \/ /\ u = NoVersion /\ PolicyOf(d) \notin Seeded
                     /\ until' = until /\ prior' = prior
                  \/ /\ u \in rows /\ PolicyOf(u) = PolicyOf(d)
                     /\ until[u] = NULL /\ from[u] < at
                     /\ until' = [until EXCEPT ![u] = at]
                     /\ prior' = [prior EXCEPT ![d] = u]
<1> DEFINE d == draft(r)
           u == previous[r]
           at == now[r]
<1>1. d \in Drafts /\ pc[r] = "write" /\ op[r] # "reject"
  BY DraftAtHand DEF WriteVersion, TypeInv, HandlerOK
<1>2. at \in 1..MaxTime
  <2>1. at \in 1..clock /\ clock \in 1..MaxTime
    BY <1>1 DEF TypeInv, TypeOK, BoundsOK, HandlerOK
  <2> QED
    BY <2>1, BoundsAssumption
<1>3. PolicyOf(d) = Target[d]
  BY <1>1, PolicyOfDraft
<1>4. CASE u = NoVersion
  <2>1. add(d, at)
    BY <1>4 DEF WriteVersion
  <2>2. NoVersion \notin rows
    BY IdsAssumption DEF TypeInv, TypeOK, StoreTypeOK
  <2>3. PolicyOf(d) \notin Seeded
    BY <1>1, <1>3, <1>4, <2>2 DEF PreviousOK
  <2> QED
    BY <1>1, <1>2, <1>4, <2>1, <2>3 DEF add, CanInsert
<1>5. CASE u # NoVersion
  <2>1. supersede(u, d, at)
    BY <1>5 DEF WriteVersion
  <2>2. u \in rows /\ PolicyOf(u) = PolicyOf(d)
    BY <1>1, <1>3, <1>5 DEF PreviousOK
  <2>3. from[u] < at
    <3>1. from[u] \in Nat
      BY <2>2 DEF TypeInv, TypeOK, StoreTypeOK
    <3> QED
      BY <1>2, <2>1, <3>1 DEF supersede, CanSupersede, NULL
  <2> QED
    BY <1>1, <1>2, <2>1, <2>2, <2>3 DEF supersede, CanSupersede, CanInsert
<1> QED
  BY <1>4, <1>5

----------------------------------------------------------------------------
(* The windows partition time *)

LEMMA InitWindow == Init => WindowInv
<1> SUFFICES ASSUME Init PROVE WindowInv
  OBVIOUS
<1>1. rows = Seeded /\ Seeded \subseteq VersionId /\ Seeded \subseteq Policies
  BY IdsAssumption DEF Init, StoreInit, VersionId
<1>2. \A v \in rows : PolicyOf(v) = v /\ v \notin Drafts
  BY <1>1, IdsAssumption DEF PolicyOf
<1>3. \A v \in VersionId : from[v] = NULL /\ until[v] = NULL /\ prior[v] = NoVersion
  BY DEF Init, StoreInit
<1>4. RowsOK
  BY <1>1, <1>2, <1>3 DEF RowsOK
<1>5. WindowsDisjoint
  BY <1>2 DEF WindowsDisjoint
<1>6. WindowsCover
  BY <1>1, <1>2, <1>3 DEF WindowsCover, Covers, NULL
<1>7. \A r \in Workers : PreviousOK(r)
  BY DEF Init, PreviousOK
<1> QED
  BY <1>4, <1>5, <1>6, <1>7 DEF WindowInv

\* A write keeps the table: the only window it touches is the open one it ends.
LEMMA WriteKeepsWindows ==
    ASSUME TypeInv, WindowInv, NEW r \in Workers, WriteVersion(r)
    PROVE  RowsOK' /\ WindowsDisjoint' /\ WindowsCover'
<1>1. PICK d, u, at :
      /\ d = draft(r) /\ u = previous[r] /\ at = now[r]
      /\ d \in Drafts \ rows /\ at \in 1..MaxTime
      /\ rows' = rows \cup {d}
      /\ from' = [from EXCEPT ![d] = at]
      /\ \/ /\ u = NoVersion /\ PolicyOf(d) \notin Seeded
            /\ until' = until /\ prior' = prior
         \/ /\ u \in rows /\ PolicyOf(u) = PolicyOf(d)
            /\ until[u] = NULL /\ from[u] < at
            /\ until' = [until EXCEPT ![u] = at]
            /\ prior' = [prior EXCEPT ![d] = u]
  BY WriteEffect DEF WindowInv
<1>2. /\ from \in [VersionId -> Nat] /\ until \in [VersionId -> Nat]
      /\ prior \in [VersionId -> VersionId \cup {NoVersion}]
      /\ rows \subseteq VersionId /\ d \in VersionId
  BY <1>1, PolicyOfDraft DEF TypeInv, TypeOK, StoreTypeOK
<1>3. RowsOK /\ WindowsDisjoint /\ WindowsCover
  BY DEF WindowInv
<1>4. until[d] = NULL /\ prior[d] = NoVersion
  BY <1>1, <1>2, <1>3 DEF RowsOK
<1>5. /\ from'[d] = at /\ until'[d] = NULL
      /\ \A v \in rows : from'[v] = from[v]
      /\ \A v \in rows : v # u => until'[v] = until[v]
  BY <1>1, <1>2, <1>4
<1>6. u \in rows => until'[u] = at \/ until'[u] = until[u]
  BY <1>1, <1>2
<1>7. RowsOK'
  <2>1. \A v \in VersionId \ rows' : until'[v] = NULL /\ prior'[v] = NoVersion
    BY <1>1, <1>2, <1>3 DEF RowsOK
  <2>2. \A v \in rows' : until'[v] # NULL => from'[v] < until'[v]
    BY <1>1, <1>2, <1>3, <1>5 DEF RowsOK
  <2>3. \A v \in rows' : v \in Drafts => from'[v] \in 1..MaxTime
    BY <1>1, <1>3, <1>5 DEF RowsOK
  <2> QED
    BY <1>1, <1>3, <2>1, <2>2, <2>3 DEF RowsOK
<1>8. WindowsDisjoint'
  <2>1. ASSUME NEW v \in rows, NEW w \in rows, Before(v, w) PROVE Before(v, w)'
    BY <1>1, <1>2, <1>5, <2>1 DEF Before, NULL
  <2>2. ASSUME NEW w \in rows, PolicyOf(w) = PolicyOf(d), PolicyOf(d) \in Seeded
        PROVE  Before(w, d)'
    <3>1. u \in rows /\ PolicyOf(u) = PolicyOf(d) /\ until[u] = NULL /\ from[u] < at /\ until'[u] = at
      BY <1>1, <1>2, <2>2
    <3>2. CASE w = u
      BY <1>1, <1>5, <3>1, <3>2 DEF Before, NULL
    <3>3. CASE w # u
      <4>1. Before(w, u)
        BY <1>3, <2>2, <3>1, <3>3 DEF WindowsDisjoint, Before
      <4>2. until[w] \in Nat /\ from[u] \in Nat /\ at \in Nat
        BY <1>1, <1>2, <3>1
      <4> QED
        BY <1>5, <3>1, <3>3, <4>1, <4>2 DEF Before
    <3> QED
      BY <3>2, <3>3
  <2> QED
    BY <1>1, <1>3, <2>1, <2>2 DEF WindowsDisjoint
<1>9. WindowsCover'
  <2> SUFFICES ASSUME NEW p \in Seeded, NEW t \in Nat
               PROVE  \E v \in rows' : PolicyOf(v) = p /\ Covers(v, t)'
    BY DEF WindowsCover
  <2>1. PICK v \in rows : PolicyOf(v) = p /\ Covers(v, t)
    BY <1>3 DEF WindowsCover
  <2>2. CASE until'[v] = until[v]
    BY <1>1, <1>5, <2>1, <2>2 DEF Covers
  <2>3. CASE until'[v] # until[v]
    <3>1. v = u /\ until'[v] = at /\ PolicyOf(d) = p
      BY <1>1, <1>5, <1>6, <2>1, <2>3
    <3>2. CASE t < at
      BY <1>1, <1>5, <2>1, <3>1, <3>2 DEF Covers
    <3>3. CASE at <= t
      BY <1>1, <1>5, <3>1, <3>3 DEF Covers
    <3> QED
      BY <1>1, <3>2, <3>3
  <2> QED
    BY <2>2, <2>3
<1> QED
  BY <1>7, <1>8, <1>9

LEMMA NextWindow == TypeInv /\ WindowInv /\ [Next]_vars => WindowInv'
<1> SUFFICES ASSUME TypeInv, WindowInv, [Next]_vars PROVE WindowInv'
  OBVIOUS
<1>1. RowsOK' /\ WindowsDisjoint' /\ WindowsCover'
  <2>1. CASE UNCHANGED versionTable
    BY <2>1 DEF versionTable, WindowInv, RowsOK, WindowsDisjoint, WindowsCover, Before, Covers
  <2>2. CASE \E r \in Workers : WriteVersion(r)
    BY <2>2, WriteKeepsWindows
  <2> QED
    BY <2>1, <2>2, VersionStep
<1>2. rows \subseteq rows'
  BY LedgerStep
<1>3. ASSUME NEW r \in Workers, pc'[r] \in {"record", "write"}, op'[r] # "reject"
      PROVE  \/ previous'[r] = NoVersion /\ Target[draft(r)]' \notin Seeded
             \/ previous'[r] \in rows' /\ PolicyOf(previous'[r]) = Target[draft(r)]'
  <2>1. CASE /\ pc[r] \in {"record", "write"} /\ op'[r] = op[r] /\ ids'[r] = ids[r]
             /\ k'[r] = k[r] /\ previous'[r] = previous[r]
    BY <1>2, <1>3, <2>1 DEF WindowInv, PreviousOK, draft
  <2>2. CASE ReadPrevious(r) /\ ids'[r] = ids[r] /\ k'[r] = k[r]
    <3> DEFINE p == Target[draft(r)]
               found == activeFor(p, now[r])
    <3>1. draft(r)' = draft(r) /\ now[r] \in Nat
      BY <2>2 DEF draft, TypeInv, TypeOK, HandlerTypeOK
    <3>2. previous'[r] \in IF found = {} THEN {NoVersion} ELSE found
      BY <2>2 DEF ReadPrevious, TypeInv, TypeOK, HandlerTypeOK
    <3>3. \A v \in found : v \in rows /\ PolicyOf(v) = p
      BY DEF activeFor, active
    <3>4. p \in Seeded => found # {}
      BY <3>1 DEF WindowInv, WindowsCover, Covers, activeFor, active
    <3> QED
      BY <1>2, <3>1, <3>2, <3>3, <3>4
  <2> QED
    BY <1>3, <2>1, <2>2, EntersRecord
<1> QED
  BY <1>1, <1>3 DEF WindowInv, PreviousOK

LEMMA WindowInvariance == Spec => []WindowInv
BY InitWindow, NextWindow, TypeInvariance, PTL DEF Spec

\* The one version whose window holds t is what active(t) answers for p.
LEMMA ActiveIsTheCover ==
    ASSUME TypeInv, WindowInv, NEW p \in Seeded, NEW t \in Nat,
           NEW v \in rows, PolicyOf(v) = p, Covers(v, t)
    PROVE  activeFor(p, t) = {v}
<1>1. v \in activeFor(p, t)
  BY DEF activeFor, active, Covers
<1>2. ASSUME NEW w \in activeFor(p, t), w # v PROVE FALSE
  <2>1. w \in rows /\ PolicyOf(w) = p /\ Covers(w, t)
    BY <1>2 DEF activeFor, active, Covers
  <2>2. Before(v, w) \/ Before(w, v)
    BY <1>2, <2>1 DEF WindowInv, WindowsDisjoint
  <2>3. /\ from[v] \in Nat /\ from[w] \in Nat /\ until[v] \in Nat /\ until[w] \in Nat
    BY <2>1 DEF TypeInv, TypeOK, StoreTypeOK
  <2> QED
    BY <2>1, <2>2, <2>3 DEF Before, Covers
<1> QED
  BY <1>1, <1>2

(***************************************************************************)
(* active(t) answers exactly one version of every seeded policy at every   *)
(* instant: approvals that race, fail, lose or restart leave no gap and no *)
(* overlap in the rules the engines decide by.                             *)
(***************************************************************************)
THEOREM OneVersionIsInForce == Spec => []OneVersionInForce
<1>1. TypeInv /\ WindowInv => OneVersionInForce
  <2> SUFFICES ASSUME TypeInv, WindowInv, NEW p \in Seeded, NEW t \in Instants
               PROVE  \E v \in rows : activeFor(p, t) = {v}
    BY DEF OneVersionInForce
  <2>1. t \in Nat
    BY DEF Instants
  <2>2. PICK v \in rows : PolicyOf(v) = p /\ Covers(v, t)
    BY <2>1 DEF WindowInv, WindowsCover
  <2> QED
    BY <2>1, <2>2, ActiveIsTheCover
<1> QED
  BY <1>1, TypeInvariance, WindowInvariance, PTL

----------------------------------------------------------------------------
(* The table over time *)

(***************************************************************************)
(* A row of rule_version never leaves the table and changes only by its    *)
(* window being closed, and that once (contract #6).                       *)
(***************************************************************************)
THEOREM VersionsNeverChange == Spec => VersionsOnlyClose
<1>1. TypeInv /\ WindowInv /\ [Next]_vars =>
        [\A v \in rows :
            /\ v \in rows'
            /\ from'[v] = from[v] /\ prior'[v] = prior[v]
            /\ until'[v] # until[v] => until[v] = NULL]_vars
  <2> SUFFICES ASSUME TypeInv, WindowInv, [Next]_vars, NEW v \in rows
               PROVE  /\ v \in rows'
                      /\ from'[v] = from[v] /\ prior'[v] = prior[v]
                      /\ until'[v] # until[v] => until[v] = NULL
    OBVIOUS
  <2>1. CASE UNCHANGED versionTable
    BY <2>1 DEF versionTable
  <2>2. ASSUME NEW r \in Workers, WriteVersion(r)
        PROVE  /\ v \in rows'
               /\ from'[v] = from[v] /\ prior'[v] = prior[v]
               /\ until'[v] # until[v] => until[v] = NULL
    BY <2>2, WriteEffect DEF WindowInv, TypeInv, TypeOK, StoreTypeOK
  <2> QED
    BY <2>1, <2>2, VersionStep
<1> QED
  BY <1>1, TypeInvariance, WindowInvariance, PTL DEF Spec, VersionsOnlyClose

ChainInv ==
    /\ SupersedesIsAChain
    /\ \A v \in rows : prior[v] # NoVersion => v \in Drafts

LEMMA InitChain == Init => ChainInv
<1> SUFFICES ASSUME Init PROVE ChainInv
  OBVIOUS
<1>1. \A v \in rows : prior[v] = NoVersion /\ until[v] = NULL
  BY IdsAssumption DEF Init, StoreInit, VersionId
<1> QED
  BY <1>1 DEF ChainInv, SupersedesIsAChain

LEMMA NextChain == TypeInv /\ WindowInv /\ ChainInv /\ [Next]_vars => ChainInv'
<1> SUFFICES ASSUME TypeInv, WindowInv, ChainInv, [Next]_vars PROVE ChainInv'
  OBVIOUS
<1>1. CASE UNCHANGED versionTable
  BY <1>1 DEF versionTable, ChainInv, SupersedesIsAChain
<1>2. ASSUME NEW r \in Workers, WriteVersion(r) PROVE ChainInv'
  <2>1. PICK d, u, at :
        /\ d = draft(r) /\ u = previous[r] /\ at = now[r]
        /\ d \in Drafts \ rows /\ at \in 1..MaxTime
        /\ rows' = rows \cup {d}
        /\ from' = [from EXCEPT ![d] = at]
        /\ \/ /\ u = NoVersion /\ PolicyOf(d) \notin Seeded
              /\ until' = until /\ prior' = prior
           \/ /\ u \in rows /\ PolicyOf(u) = PolicyOf(d)
              /\ until[u] = NULL /\ from[u] < at
              /\ until' = [until EXCEPT ![u] = at]
              /\ prior' = [prior EXCEPT ![d] = u]
    BY <1>2, WriteEffect DEF WindowInv
  <2>2. /\ from \in [VersionId -> Nat] /\ until \in [VersionId -> Nat]
        /\ prior \in [VersionId -> VersionId \cup {NoVersion}]
        /\ rows \subseteq VersionId /\ d \in VersionId
    BY <2>1, PolicyOfDraft DEF TypeInv, TypeOK, StoreTypeOK
  <2>3. until[d] = NULL /\ prior[d] = NoVersion
    BY <2>1, <2>2 DEF WindowInv, RowsOK
  <2>4. \A v \in rows : from'[v] = from[v] /\ prior'[v] = prior[v]
    BY <2>1, <2>2
  <2>5. \A v \in rows : prior[v] # NoVersion => until[prior[v]] = from[v] /\ from[v] # NULL
    BY DEF ChainInv, SupersedesIsAChain, WindowInv, RowsOK, NULL
  <2>6. CASE u = NoVersion /\ until' = until /\ prior' = prior
    BY <2>1, <2>2, <2>3, <2>4, <2>6 DEF ChainInv, SupersedesIsAChain
  <2>7. CASE /\ u \in rows /\ PolicyOf(u) = PolicyOf(d) /\ until[u] = NULL
             /\ until' = [until EXCEPT ![u] = at] /\ prior' = [prior EXCEPT ![d] = u]
    <3>1. \A v \in rows : prior[v] # u
      BY <2>2, <2>5, <2>7, IdsAssumption
    <3>2. /\ prior'[d] = u /\ from'[d] = at /\ until'[u] = at /\ until'[d] = NULL
          /\ \A v \in rows : v # u => until'[v] = until[v]
      BY <2>1, <2>2, <2>3, <2>7
    <3>3. \A v \in rows' : prior'[v] # NoVersion =>
            /\ prior'[v] \in rows'
            /\ PolicyOf(prior'[v]) = PolicyOf(v)
            /\ until'[prior'[v]] = from'[v]
            /\ v \in Drafts
      BY <2>1, <2>4, <2>7, <3>1, <3>2 DEF ChainInv, SupersedesIsAChain
    <3>4. \A v \in rows' : until'[v] # NULL => \E w \in rows' : prior'[w] = v
      BY <2>1, <2>4, <2>7, <3>2 DEF ChainInv, SupersedesIsAChain
    <3>5. \A v, w \in rows' : prior'[v] = prior'[w] /\ prior'[v] # NoVersion => v = w
      BY <2>1, <2>4, <3>1, <3>2 DEF ChainInv, SupersedesIsAChain
    <3> QED
      BY <3>3, <3>4, <3>5 DEF ChainInv, SupersedesIsAChain
  <2> QED
    BY <2>1, <2>6, <2>7
<1> QED
  BY <1>1, <1>2, VersionStep

LEMMA ChainInvariance == Spec => []ChainInv
BY InitChain, NextChain, TypeInvariance, WindowInvariance, PTL DEF Spec

(***************************************************************************)
(* supersedes links each version to the one whose window ends where its    *)
(* own begins, and no version is superseded twice, also when two drafts of *)
(* one policy are approved at the same time.                               *)
(***************************************************************************)
THEOREM SupersedesChain == Spec => []SupersedesIsAChain
<1>1. ChainInv => SupersedesIsAChain
  BY DEF ChainInv
<1> QED
  BY <1>1, ChainInvariance, PTL

----------------------------------------------------------------------------
(* The approval records *)

\* Request r has committed the record of d and not yet tried its version.
Recorded(r, d) == pc[r] = "write" /\ d = draft(r)

\* The records d is entitled to: one if it is a rule or on the way to be one.
Due(d) == IF d \in rows \/ \E r \in Workers : Recorded(r, d) THEN 1 ELSE 0

\* d has its record, and one too many only after losing to another draft.
RecordOK(d) ==
    /\ approvals[d]["approved"] >= Due(d)
    /\ approvals[d]["approved"] > Due(d) => Outrun(d)

\* A seeded version supersedes nothing and has no beginning.
SeedsOK == \A v \in rows \ Drafts : from[v] = NULL /\ prior[v] = NoVersion

RecordInv ==
    /\ SeedsOK
    /\ faults = 0 /\ crashes = 0 => \A d \in Drafts : RecordOK(d)

LEMMA InitRecord == Init => RecordInv
<1> SUFFICES ASSUME Init PROVE RecordInv
  OBVIOUS
<1>1. \A d \in Drafts : d \notin rows
  BY IdsAssumption DEF Init, StoreInit
<1>2. \A d \in Drafts : Due(d) = 0 /\ approvals[d]["approved"] = 0
  BY <1>1 DEF Init, StoreInit, Due, Recorded, Decisions
<1>3. SeedsOK
  BY IdsAssumption DEF Init, StoreInit, SeedsOK, VersionId
<1> QED
  BY <1>2, <1>3 DEF RecordInv, RecordOK

\* Once the policy of a draft has another rule, it has it for good.
LEMMA OutrunStays ==
    ASSUME TypeInv, [Next]_vars, NEW d \in Drafts, Outrun(d)
    PROVE  Outrun(d)'
BY LedgerStep DEF Outrun

(***************************************************************************)
(* The race that is lost: what the request read is no longer open, or      *)
(* starts no earlier, and either way another draft of the policy has       *)
(* become a rule.                                                          *)
(***************************************************************************)
LEMMA RefusedIsOutrun ==
    ASSUME TypeInv, WindowInv, ChainInv, SeedsOK, NEW r \in Workers, WriteRefused(r),
           CanInsert(draft(r))
    PROVE  Outrun(draft(r))
<1> DEFINE d == draft(r)
           u == previous[r]
<1>1. /\ pc[r] = "write" /\ d \in Drafts /\ op[r] # "reject"
      /\ d \notin rows /\ PolicyOf(d) = Target[d]
  BY DraftAtHand, PolicyOfDraft DEF WriteRefused, TypeInv, HandlerOK, CanInsert
<1>2. u # NoVersion /\ ~CanSupersede(u, d, now[r])
  BY DEF WriteRefused
<1>3. u \in rows /\ PolicyOf(u) = Target[d]
  BY <1>1, <1>2 DEF WindowInv, PreviousOK
<1>4. until[u] # NULL \/ from[u] # NULL
  BY <1>2, <1>3 DEF CanSupersede
<1>5. CASE until[u] # NULL
  <2>1. PICK v \in rows : prior[v] = u
    BY <1>3, <1>5 DEF ChainInv, SupersedesIsAChain
  <2>2. v \in Drafts /\ PolicyOf(v) = PolicyOf(u)
    BY <1>2, <2>1 DEF ChainInv, SupersedesIsAChain
  <2>3. Target[v] = Target[d]
    BY <1>3, <2>2, PolicyOfDraft
  <2> QED
    BY <1>1, <2>1, <2>2, <2>3 DEF Outrun
<1>6. CASE from[u] # NULL
  <2>1. u \in Drafts
    BY <1>3, <1>6 DEF SeedsOK
  <2>2. Target[u] = Target[d]
    BY <1>3, <2>1, PolicyOfDraft
  <2> QED
    BY <1>1, <1>3, <2>1, <2>2 DEF Outrun
<1> QED
  BY <1>4, <1>5, <1>6

\* Seeded versions stay as they were written.
LEMMA SeedsStay ==
    ASSUME TypeInv, WindowInv, SeedsOK, [Next]_vars
    PROVE  SeedsOK'
<1>1. CASE UNCHANGED versionTable
  BY <1>1 DEF versionTable, SeedsOK
<1>2. ASSUME NEW r \in Workers, WriteVersion(r) PROVE SeedsOK'
  <2>1. draft(r) \in Drafts /\ from' = [from EXCEPT ![draft(r)] = now[r]]
        /\ rows' = rows \cup {draft(r)}
    BY <1>2, DraftAtHand DEF WriteVersion, add, supersede
  <2>2. prior' = prior \/ prior' = [prior EXCEPT ![draft(r)] = previous[r]]
    BY <1>2 DEF WriteVersion, add, supersede
  <2>3. \A v \in rows \ Drafts : v \in VersionId /\ v # draft(r)
    BY <2>1 DEF TypeInv, TypeOK, StoreTypeOK
  <2>4. \A v \in rows \ Drafts : from'[v] = from[v] /\ prior'[v] = prior[v]
    BY <2>1, <2>2, <2>3 DEF TypeInv, TypeOK, StoreTypeOK
  <2> QED
    BY <2>1, <2>4 DEF SeedsOK
<1> QED
  BY <1>1, <1>2, VersionStep

\* Where a draft's records, rule and requests stay, so does its account.
LEMMA RecordLeft ==
    ASSUME TypeInv, [Next]_vars, NEW d \in Drafts, RecordOK(d),
           approvals'[d]["approved"] = approvals[d]["approved"],
           d \in rows' <=> d \in rows,
           \A r \in Workers : Recorded(r, d)' <=> Recorded(r, d)
    PROVE  RecordOK(d)'
<1>1. Due(d)' = Due(d)
  BY DEF Due
<1> QED
  BY <1>1, OutrunStays DEF RecordOK

\* Requests that do not move are where they were with their records.
LEMMA RecordedAside ==
    ASSUME NEW r, Aside(r), NEW s \in Workers \ {r}, NEW d
    PROVE  Recorded(s, d)' <=> Recorded(s, d)
BY DEF Aside, Recorded, draft

\* The draft at hand inside _apply_decision is held, by this request alone.
LEMMA AtHandIsHeld ==
    ASSUME TypeInv, ClaimExclusive, NEW r \in Workers, pc[r] \in Applying
    PROVE  draft(r) \in Owned(r) /\ \A s \in Workers \ {r} : ~Recorded(s, draft(r))
<1>1. \A s \in Workers : pc[s] \in Applying => draft(s) \in Owned(s)
  <2> SUFFICES ASSUME NEW s \in Workers, pc[s] \in Applying PROVE draft(s) \in Owned(s)
    OBVIOUS
  <2>1. k[s] \in 1..Len(ids[s]) /\ Len(ids[s]) \in Nat
    BY DEF TypeInv, TypeOK, HandlerTypeOK, HandlerOK, Applying
  <2>2. Held(s) = k[s]..Len(ids[s])
    BY DEF Held, Applying
  <2> QED
    BY <2>1, <2>2 DEF Owned, draft
<1> QED
  BY <1>1 DEF ClaimExclusive, Recorded, Applying

\* The record of an approval comes to a draft that has no rule and no record due.
LEMMA AddRecordAccount ==
    ASSUME TypeInv, ClaimExclusive, LedgerInv, RecordInv, Healthy, [Next]_vars,
           NEW r \in Workers, AddRecord(r), NEW d \in Drafts
    PROVE  RecordOK(d)'
<1>1. /\ pc[r] = "record" /\ draft(r) \in Drafts /\ RecordOK(d)
      /\ decision(r) \in Decisions
  BY DraftAtHand DEF AddRecord, RecordInv, Healthy
<1>2. /\ rows' = rows
      /\ approvals' = [approvals EXCEPT ![draft(r)][decision(r)] = @ + 1]
  BY DEF AddRecord, versionTable, add_approval
<1>3. approvals \in [Drafts -> [Decisions -> Nat]]
  BY DEF TypeInv, TypeOK, StoreTypeOK
<1>4. Goto(r, IF op[r] = "reject" THEN "audit" ELSE "write", k[r])
  BY DEF AddRecord
<1>5. /\ Aside(r) /\ draft(r)' = draft(r)
      /\ pc'[r] = IF op[r] = "reject" THEN "audit" ELSE "write"
  BY <1>4, GotoAside DEF draft
<1>6. CASE op[r] = "reject" \/ d # draft(r)
  <2>1. approvals'[d]["approved"] = approvals[d]["approved"]
    BY <1>1, <1>2, <1>3, <1>6 DEF decision, Decisions
  <2>2. ~Recorded(r, d) /\ ~Recorded(r, d)'
    BY <1>1, <1>5, <1>6 DEF Recorded
  <2>3. \A s \in Workers : Recorded(s, d)' <=> Recorded(s, d)
    BY <1>5, <2>2, RecordedAside
  <2> QED
    BY <1>1, <1>2, <2>1, <2>3, RecordLeft
<1>7. CASE op[r] # "reject" /\ d = draft(r)
  <2>1. /\ draft(r) \in Owned(r) /\ \A s \in Workers \ {r} : ~Recorded(s, d)
    BY <1>1, <1>7, AtHandIsHeld DEF Applying
  <2>2. d \notin rows
    BY <1>1, <1>7, <2>1 DEF LedgerInv, Healthy, Undecided, Reflects
  <2>3. Due(d) = 0
    BY <1>1, <2>1, <2>2 DEF Due, Recorded
  <2>4. Recorded(r, d)'
    BY <1>5, <1>7 DEF Recorded
  <2>5. Due(d)' = 1
    BY <2>4 DEF Due
  <2>6. approvals'[d]["approved"] = approvals[d]["approved"] + 1
    BY <1>1, <1>2, <1>3, <1>7 DEF decision, Decisions
  <2>7. approvals[d]["approved"] \in Nat
    BY <1>3 DEF Decisions
  <2> QED
    BY <1>1, <2>3, <2>5, <2>6, <2>7, OutrunStays DEF RecordOK
<1> QED
  BY <1>6, <1>7

\* The version takes over what its record was due to.
LEMMA WriteVersionAccount ==
    ASSUME TypeInv, RecordInv, Healthy, [Next]_vars,
           NEW r \in Workers, WriteVersion(r), NEW d \in Drafts
    PROVE  RecordOK(d)'
<1>1. /\ pc[r] = "write" /\ draft(r) \in Drafts /\ RecordOK(d)
  BY DraftAtHand DEF WriteVersion, RecordInv, Healthy
<1>2. rows' = rows \cup {draft(r)} /\ approvals' = approvals
  BY DEF WriteVersion, add, supersede
<1>3. Goto(r, "audit", k[r])
  BY DEF WriteVersion
<1>4. Aside(r) /\ pc'[r] = "audit" /\ draft(r)' = draft(r)
  BY <1>3, GotoAside DEF draft
<1>5. CASE d = draft(r)
  <2>1. Due(d) = 1 /\ Due(d)' = 1
    BY <1>1, <1>2, <1>5 DEF Due, Recorded
  <2> QED
    BY <1>1, <1>2, <2>1, OutrunStays DEF RecordOK
<1>6. CASE d # draft(r)
  <2>1. \A s \in Workers : Recorded(s, d)' <=> Recorded(s, d)
    BY <1>1, <1>4, <1>6, RecordedAside DEF Recorded
  <2> QED
    BY <1>1, <1>2, <1>6, <2>1, RecordLeft
<1> QED
  BY <1>5, <1>6

\* A refused write leaves its record behind, and the draft was outrun.
LEMMA WriteRefusedAccount ==
    ASSUME TypeInv, ClaimExclusive, LedgerInv, WindowInv, ChainInv, RecordInv, Healthy,
           [Next]_vars, NEW r \in Workers, WriteRefused(r), NEW d \in Drafts
    PROVE  RecordOK(d)'
<1>1. /\ pc[r] = "write" /\ draft(r) \in Drafts /\ RecordOK(d) /\ op[r] # "reject"
  BY DraftAtHand DEF WriteRefused, RecordInv, Healthy, TypeInv, HandlerOK
<1>2. rows' = rows /\ approvals' = approvals
  BY DEF WriteRefused, storeVars, versionTable
<1>3. Aside(r) /\ pc'[r] # "write"
  <2>1. Aside(r)
    BY HandleHolds, <1>1 DEF Handle, Claim, Release, WriteAudit
  <2> QED
    BY <2>1 DEF WriteRefused, StartRelease, Finish, TypeInv, TypeOK, HandlerTypeOK
<1>4. CASE d # draft(r)
  <2>1. \A s \in Workers : Recorded(s, d)' <=> Recorded(s, d)
    BY <1>3, <1>4, RecordedAside DEF Recorded
  <2> QED
    BY <1>1, <1>2, <2>1, RecordLeft
<1>5. CASE d = draft(r)
  <2>1. draft(r) \in Owned(r) /\ \A s \in Workers \ {r} : ~Recorded(s, d)
    BY <1>1, <1>5, AtHandIsHeld DEF Applying
  <2>2. d \notin rows
    BY <1>1, <1>5, <2>1 DEF LedgerInv, Healthy, Undecided, Reflects
  <2>3. Due(d) = 1
    BY <1>1, <1>5 DEF Due, Recorded
  <2>4. Due(d)' = 0
    BY <1>2, <1>3, <2>1, <2>2, RecordedAside DEF Due, Recorded
  <2>5. approvals[d]["approved"] \in Nat
    BY DEF TypeInv, TypeOK, StoreTypeOK, Decisions
  <2>6. CanInsert(draft(r))
    BY <1>1, <1>5, <2>2, <2>3, <2>5 DEF CanInsert, RecordOK
  <2>7. Outrun(d)
    BY <1>5, <2>6, RefusedIsOutrun DEF RecordInv
  <2>8. Outrun(d)'
    BY <2>7, OutrunStays
  <2> QED
    BY <1>2, <2>4, <2>5, <2>8 DEF RecordOK
<1> QED
  BY <1>4, <1>5

\* The other steps begin and end no write and record no approval.
LEMMA OthersAccount ==
    ASSUME TypeInv, RecordInv, Healthy, [Next]_vars, NEW d \in Drafts,
           \A r \in Workers : ~AddRecord(r) /\ ~WriteVersion(r) /\ ~WriteRefused(r)
    PROVE  RecordOK(d)'
<1>1. RecordOK(d)
  BY DEF RecordInv, Healthy
<1>2. rows' = rows /\ approvals' = approvals
  BY DEF Next, Begin, Handle, CheckPending, CheckRefused, Claim, ClaimLost, Preflight,
         ReadPrevious, WriteAudit, Release, StoreFault, Tick, DraftAdded, Restart,
         Waiting, vars, storeVars, versionTable
<1>3. ~Restart /\ \A r \in Workers : ~StoreFault(r)
  BY BoundsAssumption DEF Healthy, Restart, StoreFault
<1>4. ASSUME NEW r \in Workers, Begin(r) \/ Handle(r)
      PROVE  \A s \in Workers : Recorded(s, d)' <=> Recorded(s, d)
  <2>1. pc[r] # "write" /\ pc'[r] # "write"
    BY <1>4 DEF Begin, Handle, CheckPending, CheckRefused, Claim, ClaimLost, Preflight,
           ReadPrevious, WriteAudit, Release, StartRelease, Goto, Finish,
           TypeInv, TypeOK, HandlerTypeOK, Ops
  <2>2. Aside(r)
    <3>1. CASE Begin(r)
      BY <3>1 DEF Begin, Aside, TypeInv, TypeOK, HandlerTypeOK
    <3>2. CASE Handle(r)
      BY <3>2, ClaimTakes, ReleaseGivesBack, WriteAuditLetsGo, HandleHolds
         DEF TakesClaim, GivesBack
    <3> QED
      BY <1>4, <3>1, <3>2
  <2> QED
    BY <2>1, <2>2, RecordedAside DEF Recorded
<1>5. ASSUME UNCHANGED handlerVars
      PROVE  \A s \in Workers : Recorded(s, d)' <=> Recorded(s, d)
  BY <1>5 DEF handlerVars, Recorded, draft
<1>6. \A s \in Workers : Recorded(s, d)' <=> Recorded(s, d)
  BY <1>3, <1>4, <1>5 DEF Next, Tick, DraftAdded, Waiting, vars
<1> QED
  BY <1>1, <1>2, <1>6, RecordLeft

LEMMA NextRecord ==
    TypeInv /\ ClaimExclusive /\ LedgerInv /\ WindowInv /\ ChainInv /\ RecordInv
        /\ [Next]_vars => RecordInv'
<1> SUFFICES ASSUME TypeInv, ClaimExclusive, LedgerInv, WindowInv, ChainInv, RecordInv,
                    [Next]_vars
             PROVE  RecordInv'
  OBVIOUS
<1>1. SeedsOK'
  BY SeedsStay DEF RecordInv
<1>2. ASSUME faults' = 0, crashes' = 0, NEW d \in Drafts PROVE RecordOK(d)'
  <2>1. Healthy
    <3>1. faults \in Nat /\ crashes \in Nat
      BY BoundsAssumption DEF TypeInv, TypeOK, BoundsOK
    <3> QED
      BY <1>2, <3>1 DEF Healthy, Next, Begin, Handle, CheckPending, CheckRefused, Claim,
             ClaimLost, Preflight, ReadPrevious, AddRecord, WriteVersion, WriteRefused,
             WriteAudit, Release, StoreFault, Tick, DraftAdded, Restart, Waiting, vars,
             boundVars
  <2> QED
    BY <2>1, AddRecordAccount, WriteVersionAccount, WriteRefusedAccount, OthersAccount
<1> QED
  BY <1>1, <1>2 DEF RecordInv

(***************************************************************************)
(* Races alone never leave the books apart: whichever requests win or      *)
(* lose, a draft nobody is deciding is approved exactly if it has a        *)
(* version and an audit event, and rejected exactly if that is recorded    *)
(* and audited.  An audited approval has its ApprovalRecord; more records  *)
(* than that are left only by races lost to another draft of the policy.   *)
(***************************************************************************)
THEOREM LedgersStayInAgreement == Spec => []LedgersAgree
<1>1. TypeInv /\ ClaimExclusive /\ LedgerInv /\ RecordInv => LedgersAgree
  <2> SUFFICES ASSUME TypeInv, ClaimExclusive, LedgerInv, RecordInv,
                      faults = 0, crashes = 0, NEW d \in Drafts, Unclaimed(d)
               PROVE  /\ Agrees(d)
                      /\ approvals[d]["approved"] >= audited[d]["approved"]
                      /\ approvals[d]["approved"] > audited[d]["approved"] => Outrun(d)
    BY DEF LedgersAgree, Agrees
  <2>1. Agrees(d) /\ RecordOK(d)
    BY DEF LedgerInv, RecordInv
  <2>2. \A r \in Workers : ~Recorded(r, d)
    BY AtHandIsHeld DEF Recorded, Applying, Unclaimed
  <2>3. Due(d) = audited[d]["approved"]
    BY <2>1, <2>2 DEF Due, Agrees
  <2> QED
    BY <2>1, <2>3 DEF RecordOK
<1>2. Spec => []RecordInv
  BY InitRecord, NextRecord, TypeInvariance, ClaimIsExclusive, LedgerInvariance,
     WindowInvariance, ChainInvariance, PTL DEF Spec
<1> QED
  BY <1>1, <1>2, LedgerInvariance, TypeInvariance, ClaimIsExclusive, PTL

----------------------------------------------------------------------------
(* The abstract timeline *)

\* Of two versions of a seeded policy, the one that is not open starts first.
LEMMA OpenIsLatest ==
    ASSUME TypeInv, WindowInv, NEW v \in rows, NEW w \in rows, v # w,
           PolicyOf(v) = PolicyOf(w), PolicyOf(v) \in Seeded, Before(w, v)
    PROVE  from[w] < from[v]
<1>1. from[v] \in Nat /\ from[w] \in Nat /\ until[w] \in Nat
  BY DEF TypeInv, TypeOK, StoreTypeOK
<1> QED
  BY <1>1 DEF Before, WindowInv, RowsOK

(***************************************************************************)
(* active(t), computed from windows that are closed and opened, answers    *)
(* what the timeline answers, which knows only where versions start.       *)
(***************************************************************************)
THEOREM ActiveAgreesWithTimeline == Spec => []ActiveIsInForce
<1>1. TypeInv /\ WindowInv => ActiveIsInForce
  <2> SUFFICES ASSUME TypeInv, WindowInv, NEW p \in Seeded, NEW t \in Instants
               PROVE  activeFor(p, t) = Timeline!InForce(p, t)
    BY DEF ActiveIsInForce
  <2>1. t \in Nat
    BY DEF Instants
  <2>2. PICK v \in rows : PolicyOf(v) = p /\ Covers(v, t)
    BY <2>1 DEF WindowInv, WindowsCover
  <2>3. activeFor(p, t) = {v}
    BY <2>1, <2>2, ActiveIsTheCover
  <2>4. \A w \in rows : from[w] \in Nat /\ until[w] \in Nat
    BY DEF TypeInv, TypeOK, StoreTypeOK
  <2>5. ASSUME NEW w \in rows, PolicyOf(w) = p, from[w] <= t, w # v
        PROVE  from[w] < from[v]
    <3>1. ~Before(v, w)
      BY <2>1, <2>2, <2>4, <2>5 DEF Before, Covers
    <3>2. Before(w, v)
      BY <2>2, <2>5, <3>1 DEF WindowInv, WindowsDisjoint
    <3> QED
      BY <2>2, <2>5, <3>2, OpenIsLatest
  <2>6. timelineOf[p] = {[rule |-> w, start |-> from[w]] : w \in {u \in rows : PolicyOf(u) = p}}
    BY DEF timelineOf
  <2>7. v \in Timeline!InForce(p, t)
    <3> DEFINE e == [rule |-> v, start |-> from[v]]
    <3>1. e \in timelineOf[p] /\ e.start <= t
      BY <2>2, <2>6 DEF Covers
    <3>2. \A g \in timelineOf[p] : g.start <= t => g.start <= e.start
      BY <2>2, <2>4, <2>5, <2>6
    <3> QED
      BY <3>1, <3>2 DEF Timeline!InForce
  <2>8. ASSUME NEW w \in Timeline!InForce(p, t) PROVE w = v
    <3>1. PICK e \in timelineOf[p] :
            /\ w = e.rule /\ e.start <= t
            /\ \A g \in timelineOf[p] : g.start <= t => g.start <= e.start
      BY DEF Timeline!InForce
    <3>2. PICK u \in rows : PolicyOf(u) = p /\ e = [rule |-> u, start |-> from[u]]
      BY <2>6, <3>1
    <3>3. [rule |-> v, start |-> from[v]] \in timelineOf[p] /\ from[v] <= t
      BY <2>2, <2>6 DEF Covers
    <3>4. from[v] <= from[u] /\ from[u] <= t
      BY <3>1, <3>2, <3>3
    <3> QED
      BY <2>2, <2>4, <2>5, <3>1, <3>2, <3>4
  <2> QED
    BY <2>3, <2>7, <2>8
<1> QED
  BY <1>1, TypeInvariance, WindowInvariance, PTL

\* The seeded table is the timeline's first state.
LEMMA InitTimeline == Init => Timeline!TimelineInit
<1> SUFFICES ASSUME Init PROVE timelineOf = [p \in Seeded |-> {[rule |-> p, start |-> 0]}]
  BY DEF Timeline!TimelineInit
<1>1. rows = Seeded /\ Seeded \subseteq Policies /\ Seeded \subseteq VersionId
  BY IdsAssumption DEF Init, StoreInit, VersionId
<1>2. \A p \in Seeded : PolicyOf(p) = p /\ from[p] = 0
  BY <1>1 DEF Init, StoreInit, PolicyOf, NULL
<1>3. ASSUME NEW p \in Seeded
      PROVE  {[rule |-> v, start |-> from[v]] : v \in {u \in rows : PolicyOf(u) = p}}
                = {[rule |-> p, start |-> 0]}
  BY <1>1, <1>2
<1> QED
  BY <1>3 DEF timelineOf

\* Every step of the table is an Enact of the timeline, or leaves it alone.
LEMMA NextTimeline ==
    TypeInv /\ WindowInv /\ [Next]_vars => [Timeline!TimelineNext]_timelineOf
<1> SUFFICES ASSUME TypeInv, WindowInv, [Next]_vars
             PROVE  Timeline!TimelineNext \/ timelineOf' = timelineOf
  OBVIOUS
<1>1. CASE UNCHANGED versionTable
  BY <1>1 DEF versionTable, timelineOf
<1>2. ASSUME NEW r \in Workers, WriteVersion(r)
      PROVE  Timeline!TimelineNext \/ timelineOf' = timelineOf
  <2>1. PICK d, u, at :
        /\ d = draft(r) /\ u = previous[r] /\ at = now[r]
        /\ d \in Drafts \ rows /\ at \in 1..MaxTime
        /\ rows' = rows \cup {d}
        /\ from' = [from EXCEPT ![d] = at]
        /\ \/ /\ u = NoVersion /\ PolicyOf(d) \notin Seeded
              /\ until' = until /\ prior' = prior
           \/ /\ u \in rows /\ PolicyOf(u) = PolicyOf(d)
              /\ until[u] = NULL /\ from[u] < at
              /\ until' = [until EXCEPT ![u] = at]
              /\ prior' = [prior EXCEPT ![d] = u]
    BY <1>2, WriteEffect DEF WindowInv
  <2>2. /\ from \in [VersionId -> Nat] /\ rows \subseteq VersionId /\ d \in VersionId
    BY <2>1, PolicyOfDraft DEF TypeInv, TypeOK, StoreTypeOK
  <2>3. from'[d] = at /\ \A v \in rows : from'[v] = from[v]
    BY <2>1, <2>2
  <2>4. ASSUME NEW p \in Seeded, p # PolicyOf(d)
        PROVE  timelineOf'[p] = timelineOf[p]
    BY <2>1, <2>3, <2>4 DEF timelineOf
  <2>5. CASE PolicyOf(d) \notin Seeded
    <3>1. \A p \in Seeded : timelineOf'[p] = timelineOf[p]
      BY <2>4, <2>5
    <3> QED
      BY <3>1 DEF timelineOf
  <2>6. CASE PolicyOf(d) \in Seeded
    <3> DEFINE p == PolicyOf(d)
    <3>1. u \in rows /\ PolicyOf(u) = p /\ until[u] = NULL /\ from[u] < at
      BY <2>1, <2>6
    <3>2. \A q \in Seeded : \A e \in timelineOf[q] : e.rule # d
      BY <2>1 DEF timelineOf
    <3>3. ASSUME NEW v \in rows, PolicyOf(v) = p PROVE from[v] < at
      <4>1. CASE v = u
        BY <3>1, <4>1
      <4>2. CASE v # u
        <5>1. Before(v, u)
          BY <2>6, <3>1, <3>3, <4>2 DEF WindowInv, WindowsDisjoint, Before
        <5>2. from[v] < from[u]
          BY <2>6, <3>1, <3>3, <4>2, <5>1, OpenIsLatest
        <5> QED
          BY <2>1, <2>2, <3>1, <5>2
      <4> QED
        BY <4>1, <4>2
    <3>4. \A e \in timelineOf[p] : e.start < at
      BY <2>6, <3>3 DEF timelineOf
    <3>5. timelineOf'[p] = timelineOf[p] \cup {[rule |-> d, start |-> at]}
      BY <2>1, <2>3, <2>6 DEF timelineOf
    <3>6. timelineOf' = [timelineOf EXCEPT ![p] = @ \cup {[rule |-> d, start |-> at]}]
      <4>1. DOMAIN timelineOf = Seeded /\ DOMAIN timelineOf' = Seeded
        BY DEF timelineOf
      <4>2. /\ timelineOf = [q \in Seeded |-> timelineOf[q]]
            /\ timelineOf' = [q \in Seeded |-> timelineOf'[q]]
        BY DEF timelineOf
      <4> QED
        BY <2>4, <2>6, <3>5, <4>1, <4>2
    <3>7. Timeline!Enact(p, d, at)
      BY <3>2, <3>4, <3>6 DEF Timeline!Enact
    <3> QED
      BY <2>1, <2>2, <2>6, <3>7 DEF Timeline!TimelineNext
  <2> QED
    BY <2>5, <2>6
<1> QED
  BY <1>1, <1>2, VersionStep

(***************************************************************************)
(* The approval workflow implements the abstract timeline: seen through    *)
(* timelineOf, whatever its requests do, each rule enters the timeline of  *)
(* its policy once, after all others, and nothing is moved or removed.     *)
(***************************************************************************)
THEOREM ApprovalImplementsTimeline == Spec => ImplementsTimeline
BY InitTimeline, NextTimeline, TypeInvariance, WindowInvariance, PTL
   DEF Spec, ImplementsTimeline, Timeline!TimelineSpec
=============================================================================
