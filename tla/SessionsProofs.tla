--------------------------- MODULE SessionsProofs ---------------------------
(***************************************************************************)
(* Proofs about Sessions, for any number of workers, accounts, sessions,   *)
(* endpoints and for any timeouts: types, what the ledger says, what a     *)
(* request works under, the order of the audit trail, and that the ledger  *)
(* implements SessionLease.                                                *)
(***************************************************************************)
EXTENDS Sessions, TLAPS

\* Nobody was created in the future, and no use is older than the creation.
LifeOK ==
    \A s \in Created :
        life[s].created <= life[s].used /\ life[s].used <= clock

(***************************************************************************)
(* What is known of a request at each stage.  A cookie on its way to the   *)
(* ledger was sent by a login that is older than the request; a session    *)
(* whose logout is about to be recorded is gone already.                   *)
(***************************************************************************)
SentBefore(r) == r.cookie \in delivered /\ life[r.cookie].created <= r.now

HandlerOK(w) ==
    /\ req[w].now <= clock
    /\ pc[w] = "verify" => req[w].op = "login"
    /\ pc[w] = "resolve" =>
          req[w].op \in Endpoints /\ (req[w].cookie = NoSession \/ SentBefore(req[w]))
    /\ pc[w] = "work" =>
          /\ req[w].op \in Endpoints
          /\ Entitled(req[w]) \/ (req[w].op \in Optional /\ req[w].cookie = NoSession)
    /\ pc[w] = "audit" =>
          /\ req[w].cookie \in Created
          /\ req[w].op = "session.end" =>
                req[w].cookie \in delivered /\ req[w].cookie \notin Live

SharedOK ==
    /\ Live \subseteq Created /\ Created \subseteq Ids
    /\ ledger \in [Live -> [user : Users, created : Nat, seen : Nat]]
    /\ life \in [Created -> [user : Users, created : Nat, used : Nat]]
    /\ delivered \subseteq Created
    /\ recordedIn \subseteq Created
    /\ recordedOut \subseteq Created
    /\ {clock, served, faults, crashes} \subseteq Nat
    /\ LifeOK
    /\ LedgerIsTrue
    /\ TrailIsOrdered

RequestsOK == pc \in [Workers -> Stages] /\ req \in [Workers -> Requests]

IInv == SharedOK /\ RequestsOK /\ \A w \in Workers : HandlerOK(w)

LEMMA InvariantGives == IInv => TypeOK /\ LedgerIsTrue /\ WorkIsEntitled /\ TrailIsOrdered
<1> SUFFICES ASSUME IInv PROVE TypeOK /\ LedgerIsTrue /\ WorkIsEntitled /\ TrailIsOrdered
  OBVIOUS
<1>1. TypeOK
  BY DEF IInv, SharedOK, RequestsOK, TypeOK
<1>2. WorkIsEntitled
  BY DEF IInv, HandlerOK, WorkIsEntitled
<1> QED
  BY <1>1, <1>2 DEF IInv, SharedOK

LEMMA InitHolds == Init => IInv
<1> SUFFICES ASSUME Init PROVE IInv
  OBVIOUS
<1>1. Live = {} /\ Created = {}
  BY DEF Init, Live, Created
<1>2. SharedOK
  BY <1>1 DEF Init, SharedOK, LifeOK, LedgerIsTrue, TrailIsOrdered, Live, Created
<1>3. NoRequest \in Requests
  BY DEF NoRequest, Requests, Reasons
<1>4. RequestsOK
  BY <1>3 DEF Init, RequestsOK, Stages
<1>5. \A w \in Workers : HandlerOK(w)
  BY DEF Init, HandlerOK, NoRequest
<1> QED
  BY <1>2, <1>4, <1>5 DEF IInv

-----------------------------------------------------------------------------
(***************************************************************************)
(* What a step of one handler means to the others: sessions stay created   *)
(* and ended, cookies stay sent, and time does not go back.                *)
(***************************************************************************)
Onward ==
    /\ Created \subseteq Created'
    /\ \A s \in Created : /\ life'[s].user = life[s].user
                          /\ life'[s].created = life[s].created
                          /\ s \notin Live => s \notin Live'
    /\ delivered \subseteq delivered'
    /\ clock <= clock'

LEMMA OthersKeep ==
    ASSUME IInv, Onward, clock' \in Nat, NEW v \in Workers, pc'[v] = pc[v], req'[v] = req[v]
    PROVE  HandlerOK(v)'
<1>1. req[v].now \in Nat /\ clock \in Nat
  BY DEF IInv, SharedOK, RequestsOK, Requests
<1>2. req'[v].now <= clock'
  BY <1>1 DEF IInv, HandlerOK, Onward
<1>3. SentBefore(req[v]) => SentBefore(req[v])'
  BY DEF IInv, SharedOK, SentBefore, Onward
<1>4. Entitled(req[v]) => Entitled(req[v])'
  BY DEF IInv, SharedOK, Entitled, Onward
<1> QED
  BY <1>2, <1>3, <1>4 DEF IInv, SharedOK, HandlerOK, Onward, SentBefore, Entitled

\* An idle worker's request is NoRequest, of which everything is known.
LEMMA FinishKeeps ==
    ASSUME IInv, NEW w \in Workers, Finish(w), clock' \in Nat
    PROVE  HandlerOK(w)' /\ RequestsOK'
<1>1. NoRequest \in Requests
  BY DEF NoRequest, Requests, Reasons
<1>2. RequestsOK'
  BY <1>1 DEF IInv, RequestsOK, Finish, Goto, Stages
<1>3. pc'[w] = "idle" /\ req'[w] = NoRequest
  BY DEF IInv, RequestsOK, Finish, Goto
<1> QED
  BY <1>2, <1>3 DEF HandlerOK, NoRequest

\* A step that leaves ledger, trail and clock alone.
Quiet == UNCHANGED <<ledgerVars, trailVars, clock>>

LEMMA QuietKeeps ==
    ASSUME IInv, Quiet, {served', faults', crashes'} \subseteq Nat
    PROVE  SharedOK' /\ Onward
<1>1. SharedOK'
  BY DEF IInv, SharedOK, Quiet, ledgerVars, trailVars, LifeOK, LedgerIsTrue,
         TrailIsOrdered, Live, Created
<1>2. clock \in Nat
  BY DEF IInv, SharedOK
<1>3. Onward
  BY <1>2 DEF Onward, Quiet, ledgerVars, trailVars, Live, Created
<1> QED
  BY <1>1, <1>3

\* The bounds are counters.
LEMMA CountersKeep ==
    ASSUME IInv, NEW n \in {served, faults, crashes} PROVE n \in Nat /\ n + 1 \in Nat
BY DEF IInv, SharedOK

LEMMA BeginKeeps ==
    ASSUME IInv, NEW w \in Workers, Begin(w) PROVE IInv'
<1> PICK o \in Endpoints \cup {"login"}, u \in Users \cup {NoUser},
         c \in delivered \cup {NoSession}, t \in delivered \cup {NoSession} :
      LET r == [op |-> o, user |-> u, cookie |-> c, token |-> t,
                now |-> clock, reason |-> "ok"]
      IN  /\ (LoginRequest(r) /\ IdsLeft) \/ SessionRequest(r)
          /\ req' = [req EXCEPT ![w] = r]
          /\ Goto(w, IF o = "login" THEN "verify" ELSE "resolve")
  BY DEF Begin
<1> DEFINE r == [op |-> o, user |-> u, cookie |-> c, token |-> t,
                 now |-> clock, reason |-> "ok"]
<1>1. Quiet /\ {served', faults', crashes'} \subseteq Nat /\ clock' \in Nat
  BY DEF Begin, IInv, SharedOK, Quiet
<1>2. SharedOK' /\ Onward
  BY <1>1, QuietKeeps
<1>3. r \in Requests
  BY DEF IInv, SharedOK, Requests, Reasons
<1>4. RequestsOK'
  BY <1>3 DEF IInv, RequestsOK, Goto, Stages
<1>5. req'[w] = r /\ pc'[w] = IF o = "login" THEN "verify" ELSE "resolve"
  BY DEF IInv, RequestsOK, Goto
<1>6. c # NoSession => c \in delivered /\ life[c].created <= clock
  BY DEF IInv, SharedOK, LifeOK
<1>7. HandlerOK(w)'
  BY <1>1, <1>5, <1>6 DEF HandlerOK, SentBefore, Quiet, ledgerVars, trailVars,
     IInv, SharedOK
<1>8. ASSUME NEW v \in Workers, v # w PROVE HandlerOK(v)'
  <2>1. pc'[v] = pc[v] /\ req'[v] = req[v]
    BY <1>8 DEF IInv, RequestsOK, Goto
  <2> QED
    BY <1>1, <1>2, <2>1, OthersKeep
<1> QED
  BY <1>2, <1>4, <1>7, <1>8 DEF IInv

(***************************************************************************)
(* Assembling: a step of w that is right for the shared part, for w, and   *)
(* moves nobody else.                                                      *)
(***************************************************************************)
LEMMA Assemble ==
    ASSUME IInv, NEW w \in Workers, SharedOK', Onward, RequestsOK', HandlerOK(w)',
           \A v \in Workers \ {w} : pc'[v] = pc[v] /\ req'[v] = req[v]
    PROVE  IInv'
<1>1. clock' \in Nat
  BY DEF SharedOK
<1> QED
  BY <1>1, OthersKeep DEF IInv

\* A step that answers and leaves the ledger, the trail and the clock alone.
LEMMA QuietFinish ==
    ASSUME IInv, NEW w \in Workers, Quiet, Finish(w), {served', faults', crashes'} \subseteq Nat
    PROVE  IInv'
<1>1. SharedOK' /\ Onward
  BY QuietKeeps
<1>2. clock' \in Nat
  BY <1>1 DEF SharedOK
<1>3. HandlerOK(w)' /\ RequestsOK'
  BY <1>2, FinishKeeps
<1>4. \A v \in Workers \ {w} : pc'[v] = pc[v] /\ req'[v] = req[v]
  BY DEF Finish, Goto, IInv, RequestsOK
<1> QED
  BY <1>1, <1>3, <1>4, Assemble

LEMMA LogInKeeps ==
    ASSUME IInv, NEW w \in Workers, LogIn(w) PROVE IInv'
<1> PICK s \in Ids : create(s, req[w].user, req[w].now) /\ req' = [req EXCEPT ![w].cookie = s]
  BY DEF LogIn
<1> DEFINE u == req[w].user
           at == req[w].now
<1>1. u \in Users /\ at \in Nat /\ at <= clock /\ clock \in Nat
  BY DEF IInv, RequestsOK, Requests, HandlerOK, SharedOK, LogIn
<1>2. s \notin Created /\ s \notin Live
  BY DEF create, IInv, SharedOK
<1>3. /\ Live' = Live \cup {s}
      /\ ledger'[s] = [user |-> u, created |-> at, seen |-> at]
      /\ \A t \in Live : ledger'[t] = ledger[t]
  BY <1>2 DEF create, Put, Live
<1>4. /\ Created' = Created \cup {s}
      /\ life'[s] = [user |-> u, created |-> at, used |-> at]
      /\ \A t \in Created : life'[t] = life[t]
  BY <1>2 DEF create, Put, Created
<1>5. ledger' \in [Live' -> [user : Users, created : Nat, seen : Nat]]
  BY <1>1, <1>3 DEF create, Put, Live, IInv, SharedOK
<1>6. life' \in [Created' -> [user : Users, created : Nat, used : Nat]]
  BY <1>1, <1>4 DEF create, Put, Created, IInv, SharedOK
<1>7. UNCHANGED <<trailVars, boundVars>>
  BY DEF LogIn
<1>8. LifeOK' /\ LedgerIsTrue'
  BY <1>1, <1>3, <1>4, <1>7 DEF LifeOK, LedgerIsTrue, boundVars, IInv, SharedOK
<1>9. SharedOK'
  BY <1>2, <1>3, <1>4, <1>5, <1>6, <1>7, <1>8 DEF IInv, SharedOK, TrailIsOrdered, trailVars, boundVars
<1>10. Onward
  BY <1>1, <1>2, <1>3, <1>4, <1>7 DEF Onward, trailVars, boundVars
<1>11. pc'[w] = "audit" /\ req'[w] = [req[w] EXCEPT !.cookie = s] /\ req[w].op = "login"
  BY DEF LogIn, Goto, IInv, RequestsOK, HandlerOK
<1>12. RequestsOK'
  <2>1. [req[w] EXCEPT !.cookie = s] \in Requests
    BY DEF IInv, RequestsOK, Requests
  <2> QED
    BY <2>1 DEF LogIn, Goto, IInv, RequestsOK, Stages
<1>13. HandlerOK(w)'
  BY <1>1, <1>4, <1>7, <1>11 DEF HandlerOK, boundVars, IInv, RequestsOK, Requests
<1>14. \A v \in Workers \ {w} : pc'[v] = pc[v] /\ req'[v] = req[v]
  BY DEF LogIn, Goto, IInv, RequestsOK
<1> QED
  BY <1>9, <1>10, <1>12, <1>13, <1>14, Assemble

LEMMA LoginRefusedKeeps ==
    ASSUME IInv, NEW w \in Workers, LoginRefused(w) PROVE IInv'
<1>1. Quiet /\ {served', faults', crashes'} \subseteq Nat
  BY DEF LoginRefused, Quiet, boundVars, IInv, SharedOK
<1>2. SharedOK' /\ Onward
  BY <1>1, QuietKeeps
<1>3. RequestsOK'
  BY DEF LoginRefused, Goto, IInv, RequestsOK, Requests, Reasons, Stages
<1>4. pc'[w] = "deny" /\ req'[w].now = req[w].now /\ clock' = clock
  BY <1>1 DEF LoginRefused, Goto, IInv, RequestsOK, Requests, Quiet
<1>5. HandlerOK(w)'
  BY <1>4 DEF HandlerOK, IInv
<1>6. \A v \in Workers \ {w} : pc'[v] = pc[v] /\ req'[v] = req[v]
  BY DEF LoginRefused, Goto, IInv, RequestsOK
<1> QED
  BY <1>2, <1>3, <1>5, <1>6, Assemble

(***************************************************************************)
(* Sessions leave the ledger: an expiry, a logout, a restart.              *)
(***************************************************************************)
LEMMA DropKeeps ==
    ASSUME IInv, NEW S, ledger' = Drop(ledger, S), UNCHANGED life, UNCHANGED trailVars,
           UNCHANGED clock, {served', faults', crashes'} \subseteq Nat
    PROVE  SharedOK' /\ Onward /\ Live' = Live \ S
<1>1. Live' = Live \ S /\ \A t \in Live' : ledger'[t] = ledger[t]
  BY DEF Drop, Live
<1>2. Created' = Created
  BY DEF Created
<1>3. ledger' \in [Live' -> [user : Users, created : Nat, seen : Nat]]
  BY <1>1 DEF Drop, Live, IInv, SharedOK
<1>4. LifeOK' /\ LedgerIsTrue'
  BY <1>1, <1>2 DEF LifeOK, LedgerIsTrue, IInv, SharedOK
<1>5. SharedOK'
  BY <1>1, <1>2, <1>3, <1>4 DEF IInv, SharedOK, TrailIsOrdered, trailVars
<1>6. Onward
  BY <1>1, <1>2 DEF Onward, trailVars, IInv, SharedOK
<1> QED
  BY <1>1, <1>5, <1>6

-----------------------------------------------------------------------------
(***************************************************************************)
(* The lookup.  A session that is found fits its life; it stays, with the  *)
(* request's now on its idle clock, or goes, or was not there.             *)
(***************************************************************************)
LEMMA LookupIsReason == ASSUME NEW s, NEW at PROVE LookupReason(s, at) \in Reasons
BY DEF LookupReason, Reasons

LEMMA ResolveKeeps ==
    ASSUME IInv, NEW s, NEW at \in Nat, at <= clock, resolve(s, at),
           s \in Live => life[s].created <= at,
           UNCHANGED <<trailVars, boundVars>>
    PROVE  SharedOK' /\ Onward
<1>1. /\ clock \in Nat
      /\ \A t \in Live : /\ t \in Created
                        /\ ledger[t] \in [user : Users, created : Nat, seen : Nat]
      /\ \A t \in Created : life[t] \in [user : Users, created : Nat, used : Nat]
  BY DEF IInv, SharedOK
<1>2. CASE LookupReason(s, at) = "ok"
  <2>1. s \in Live
    BY <1>2 DEF LookupReason
  <2>2. /\ ledger' = [ledger EXCEPT ![s].seen = at]
        /\ life' = [life EXCEPT ![s].used = Latest(@, at)]
    BY <1>2 DEF resolve
  <2>3. /\ Live' = Live /\ Created' = Created
        /\ \A t \in Live \ {s} : ledger'[t] = ledger[t]
        /\ \A t \in Created \ {s} : life'[t] = life[t]
        /\ ledger'[s] = [ledger[s] EXCEPT !.seen = at]
        /\ life'[s] = [life[s] EXCEPT !.used = Latest(life[s].used, at)]
    BY <1>1, <2>1, <2>2 DEF Live, Created, IInv, SharedOK
  <2>4. Latest(life[s].used, at) \in Nat
    BY <1>1, <2>1 DEF Latest
  <2>5. /\ ledger' \in [Live' -> [user : Users, created : Nat, seen : Nat]]
        /\ life' \in [Created' -> [user : Users, created : Nat, used : Nat]]
    BY <1>1, <2>1, <2>2, <2>3, <2>4 DEF IInv, SharedOK
  <2>6. /\ ledger'[s].user = ledger[s].user /\ ledger'[s].created = ledger[s].created
        /\ ledger'[s].seen = at /\ life'[s].user = life[s].user
        /\ life'[s].created = life[s].created
        /\ life'[s].used = Latest(life[s].used, at)
    BY <1>1, <2>1, <2>3
  <2>7. at <= Latest(life[s].used, at) /\ Latest(life[s].used, at) <= clock
        /\ life[s].created <= Latest(life[s].used, at)
    BY <1>1, <2>1 DEF Latest, IInv, SharedOK, LifeOK
  <2>8. clock' = clock
    BY DEF boundVars
  <2>9. LifeOK' /\ LedgerIsTrue'
    <3>1. ASSUME NEW t \in Created' PROVE life'[t].created <= life'[t].used /\ life'[t].used <= clock'
      BY <2>3, <2>6, <2>7, <2>8, <3>1 DEF IInv, SharedOK, LifeOK
    <3>2. LedgerIsTrue'
      BY <2>1, <2>3, <2>6, <2>7, <2>8 DEF IInv, SharedOK, LedgerIsTrue
    <3> QED
      BY <3>1, <3>2 DEF LifeOK
  <2>10. SharedOK'
    BY <2>3, <2>5, <2>9 DEF IInv, SharedOK, TrailIsOrdered, trailVars, boundVars
  <2>11. Onward
    BY <1>1, <2>1, <2>3, <2>6 DEF Onward, trailVars, boundVars
  <2> QED
    BY <2>10, <2>11
<1>3. CASE LookupReason(s, at) = "absent"
  <2>1. Quiet /\ {served', faults', crashes'} \subseteq Nat
    BY <1>3 DEF resolve, Quiet, boundVars, IInv, SharedOK
  <2> QED
    BY <2>1, QuietKeeps
<1>4. CASE LookupReason(s, at) \notin {"ok", "absent"}
  <2>1. ledger' = Drop(ledger, {s}) /\ UNCHANGED life
    BY <1>4 DEF resolve
  <2> QED
    BY <2>1, DropKeeps DEF boundVars, IInv, SharedOK
<1> QED
  BY <1>2, <1>3, <1>4

\* A verdict of "ok" is an entitlement.
LEMMA VerdictEntitles ==
    ASSUME IInv, NEW w \in Workers, pc[w] = "resolve", Verdict(req[w]) = "ok"
    PROVE  Entitled(req[w]) /\ req[w].cookie \in Live
<1> DEFINE r == req[w]
           s == r.cookie
<1>1. /\ LookupReason(s, r.now) = "ok"
      /\ allows(r.op, Role[ledger[s].user])
      /\ r.op \in RequireCsrf => r.token = s
  BY DEF Verdict
<1>2. s \in Live /\ ~(r.now >= ledger[s].created + AbsoluteTimeout)
  BY <1>1 DEF LookupReason
<1>3. s # NoSession /\ SentBefore(r)
  BY <1>2, AccountsAssumption DEF IInv, SharedOK, HandlerOK
<1>4. /\ ledger[s].created = life[s].created /\ ledger[s].user = life[s].user
      /\ ledger[s].created \in Nat /\ r.now \in Nat
  BY <1>2 DEF IInv, SharedOK, LedgerIsTrue, RequestsOK, Requests
<1>5. r.now < life[s].created + AbsoluteTimeout
  BY <1>2, <1>4, LimitsAssumption
<1> QED
  BY <1>1, <1>2, <1>3, <1>4, <1>5 DEF Entitled, SentBefore

LEMMA AuthorizeKeeps ==
    ASSUME IInv, NEW w \in Workers, Authorize(w) PROVE IInv'
<1> DEFINE r == req[w]
<1>1. pc[w] = "resolve" /\ r \in Requests /\ r.now \in Nat /\ r.now <= clock
  BY DEF Authorize, IInv, RequestsOK, Requests, HandlerOK
<1>2. r.cookie \in Live => life[r.cookie].created <= r.now
  BY <1>1, AccountsAssumption DEF IInv, SharedOK, HandlerOK, SentBefore
<1>3. SharedOK' /\ Onward
  BY <1>1, <1>2, ResolveKeeps DEF Authorize
<1>4. clock' = clock
  BY DEF Authorize, boundVars
<1>5. \A v \in Workers \ {w} : pc'[v] = pc[v] /\ req'[v] = req[v]
  BY DEF Authorize, Authorized, Anonymous, Refused, Goto, IInv, RequestsOK
<1>6. CASE Authorized(w)
  <2>1. pc'[w] = "work" /\ req' = req
    BY <1>6 DEF Authorized, Goto, IInv, RequestsOK
  <2>2. RequestsOK'
    BY <1>6, <2>1 DEF Authorized, Goto, IInv, RequestsOK, Stages
  <2>3. Entitled(r)
    BY <1>1, <1>6, VerdictEntitles DEF Authorized
  <2>4. Entitled(r)'
    BY <1>3, <2>1, <2>3 DEF Entitled, Onward, IInv, SharedOK
  <2>5. HandlerOK(w)'
    BY <1>1, <1>4, <2>1, <2>4 DEF HandlerOK, IInv
  <2> QED
    BY <1>3, <1>5, <2>2, <2>5, Assemble
<1>7. CASE Anonymous(w)
  <2>1. pc'[w] = "work" /\ req' = [req EXCEPT ![w].cookie = NoSession]
    BY <1>7 DEF Anonymous, Goto, IInv, RequestsOK
  <2>2. RequestsOK'
    BY <1>7, <2>1 DEF Anonymous, Goto, IInv, RequestsOK, Requests, Stages
  <2>3. req'[w].op = r.op /\ req'[w].cookie = NoSession /\ req'[w].now = r.now
    BY <2>1 DEF IInv, RequestsOK, Requests
  <2>4. HandlerOK(w)'
    BY <1>1, <1>4, <1>7, <2>1, <2>3 DEF HandlerOK, Anonymous, IInv
  <2> QED
    BY <1>3, <1>5, <2>2, <2>4, Assemble
<1>8. CASE Refused(w)
  <2>1. pc'[w] = "deny" /\ req' = [req EXCEPT ![w].reason = Verdict(r)]
    BY <1>8 DEF Refused, Goto, IInv, RequestsOK
  <2>2. Verdict(r) \in Reasons
    BY LookupIsReason DEF Verdict, Reasons
  <2>3. RequestsOK'
    BY <1>8, <2>1, <2>2 DEF Refused, Goto, IInv, RequestsOK, Requests, Stages
  <2>4. req'[w].now = r.now
    BY <2>1 DEF IInv, RequestsOK, Requests
  <2>5. HandlerOK(w)'
    BY <1>1, <1>4, <2>1, <2>4 DEF HandlerOK
  <2> QED
    BY <1>3, <1>5, <2>3, <2>5, Assemble
<1> QED
  BY <1>6, <1>7, <1>8 DEF Authorize

-----------------------------------------------------------------------------
LEMMA LogOutKeeps ==
    ASSUME IInv, NEW w \in Workers, LogOut(w) PROVE IInv'
<1> DEFINE s == req[w].cookie
<1>1. s \in delivered /\ s \in Created
  BY AccountsAssumption DEF LogOut, IInv, SharedOK, HandlerOK, Entitled, Optional
<1>2. SharedOK' /\ Onward /\ Live' = Live \ {s}
  BY DropKeeps DEF LogOut, delete, boundVars, IInv, SharedOK
<1>3. pc'[w] = "audit" /\ req' = req /\ clock' = clock /\ delivered' = delivered /\ life' = life
  BY DEF LogOut, delete, Goto, IInv, RequestsOK, boundVars, trailVars
<1>4. RequestsOK'
  BY <1>3 DEF LogOut, Goto, IInv, RequestsOK, Stages
<1>5. HandlerOK(w)'
  BY <1>1, <1>2, <1>3 DEF HandlerOK, Created, IInv
<1>6. \A v \in Workers \ {w} : pc'[v] = pc[v] /\ req'[v] = req[v]
  BY DEF LogOut, Goto, IInv, RequestsOK
<1> QED
  BY <1>2, <1>4, <1>5, <1>6, Assemble

LEMMA RecordLoginKeeps ==
    ASSUME IInv, NEW w \in Workers, RecordLogin(w) PROVE IInv'
<1> DEFINE s == req[w].cookie
<1>1. s \in Created
  BY DEF RecordLogin, IInv, HandlerOK
<1>2. SharedOK'
  BY <1>1 DEF RecordLogin, IInv, SharedOK, LifeOK, LedgerIsTrue, TrailIsOrdered,
     ledgerVars, boundVars, Live, Created
<1>3. Onward
  BY DEF RecordLogin, Onward, IInv, SharedOK, ledgerVars, boundVars, Live, Created
<1>4. HandlerOK(w)' /\ RequestsOK'
  BY <1>2, FinishKeeps DEF RecordLogin, SharedOK
<1>5. \A v \in Workers \ {w} : pc'[v] = pc[v] /\ req'[v] = req[v]
  BY DEF RecordLogin, Finish, Goto, IInv, RequestsOK
<1> QED
  BY <1>2, <1>3, <1>4, <1>5, Assemble

LEMMA RecordLogoutKeeps ==
    ASSUME IInv, NEW w \in Workers, RecordLogout(w) PROVE IInv'
<1> DEFINE s == req[w].cookie
<1>1. s \in Created /\ s \notin Live /\ s \in recordedIn
  BY DEF RecordLogout, IInv, SharedOK, TrailIsOrdered, HandlerOK
<1>2. SharedOK'
  BY <1>1 DEF RecordLogout, IInv, SharedOK, LifeOK, LedgerIsTrue, TrailIsOrdered,
     ledgerVars, boundVars, Live, Created
<1>3. Onward
  BY DEF RecordLogout, Onward, IInv, SharedOK, ledgerVars, boundVars, Live, Created
<1>4. HandlerOK(w)' /\ RequestsOK'
  BY <1>2, FinishKeeps DEF RecordLogout, SharedOK
<1>5. \A v \in Workers \ {w} : pc'[v] = pc[v] /\ req'[v] = req[v]
  BY DEF RecordLogout, Finish, Goto, IInv, RequestsOK
<1> QED
  BY <1>2, <1>3, <1>4, <1>5, Assemble

\* A step that answers and nothing more, or fails.
LEMMA AnswerKeeps ==
    ASSUME IInv, NEW w \in Workers, Deny(w) \/ Serve(w) \/ StoreFault(w) PROVE IInv'
<1>1. Quiet /\ Finish(w)
  BY DEF Deny, Serve, StoreFault, Quiet, boundVars
<1>2. {served', faults', crashes'} \subseteq Nat
  BY CountersKeep DEF Deny, Serve, StoreFault, boundVars
<1> QED
  BY <1>1, <1>2, QuietFinish

LEMMA RestartKeeps == ASSUME IInv, Restart PROVE IInv'
<1>1. SharedOK' /\ Onward
  BY DropKeeps, CountersKeep DEF Restart, trailVars
<1>2. NoRequest \in Requests
  BY DEF NoRequest, Requests, Reasons
<1>3. RequestsOK'
  BY <1>2 DEF Restart, RequestsOK, Stages
<1>4. ASSUME NEW w \in Workers PROVE HandlerOK(w)'
  <2>1. pc'[w] = "idle" /\ req'[w] = NoRequest /\ clock' \in Nat
    BY <1>1 DEF Restart, SharedOK
  <2> QED
    BY <2>1 DEF HandlerOK, NoRequest
<1> QED
  BY <1>1, <1>3, <1>4 DEF IInv

LEMMA TickKeeps == ASSUME IInv, Tick PROVE IInv'
<1>1. clock \in Nat /\ clock' = clock + 1 /\ clock' \in Nat
  BY DEF Tick, IInv, SharedOK
<1>2. SharedOK'
  <2>1. UNCHANGED <<ledgerVars, trailVars, served, faults, crashes>>
    BY DEF Tick
  <2>2. \A s \in Created : life[s].used \in Nat
    BY DEF IInv, SharedOK
  <2>3. LifeOK' /\ LedgerIsTrue'
    BY <1>1, <2>1, <2>2 DEF IInv, SharedOK, LifeOK, LedgerIsTrue, ledgerVars, Live, Created
  <2> QED
    BY <1>1, <2>1, <2>3 DEF IInv, SharedOK, TrailIsOrdered, ledgerVars, trailVars, Live, Created
<1>3. Onward
  BY <1>1 DEF Onward, Tick, ledgerVars, trailVars, Live, Created
<1>4. RequestsOK' /\ \A w \in Workers : HandlerOK(w)'
  BY <1>1, <1>3, OthersKeep DEF Tick, IInv, RequestsOK
<1> QED
  BY <1>2, <1>4 DEF IInv

LEMMA NothingKeeps == ASSUME IInv, UNCHANGED vars PROVE IInv'
<1>1. Quiet /\ {served', faults', crashes'} \subseteq Nat
  BY DEF vars, boundVars, Quiet, IInv, SharedOK
<1>2. SharedOK' /\ Onward
  BY <1>1, QuietKeeps
<1>3. clock' \in Nat /\ pc' = pc /\ req' = req
  BY <1>2 DEF SharedOK, vars
<1>4. RequestsOK' /\ \A w \in Workers : HandlerOK(w)'
  BY <1>2, <1>3, OthersKeep DEF IInv, RequestsOK
<1> QED
  BY <1>2, <1>4 DEF IInv

LEMMA StepKeeps == IInv /\ [Next]_vars => IInv'
<1> SUFFICES ASSUME IInv, [Next]_vars PROVE IInv'
  OBVIOUS
<1>1. ASSUME NEW w \in Workers, Step(w) PROVE IInv'
  BY <1>1, BeginKeeps, LogInKeeps, LoginRefusedKeeps, AuthorizeKeeps, AnswerKeeps,
     LogOutKeeps, RecordLoginKeeps, RecordLogoutKeeps DEF Step
<1> QED
  BY <1>1, RestartKeeps, TickKeeps, NothingKeeps DEF Next, Waiting

LEMMA Invariance == Spec => []IInv
BY InitHolds, StepKeeps, PTL DEF Spec

(***************************************************************************)
(* The types hold.                                                         *)
(***************************************************************************)
THEOREM SessionsTypeCorrect == Spec => []TypeOK
BY Invariance, InvariantGives, PTL

(***************************************************************************)
(* The ledger says what the logins said, and no idle clock stands before   *)
(* its login or after its latest use.                                      *)
(***************************************************************************)
THEOREM LedgerStaysTrue == Spec => []LedgerIsTrue
BY Invariance, InvariantGives, PTL

(***************************************************************************)
(* A request works only under a session that entitles it, whatever other   *)
(* requests do to that session meanwhile.                                  *)
(***************************************************************************)
THEOREM WorkStaysEntitled == Spec => []WorkIsEntitled
BY Invariance, InvariantGives, PTL

(***************************************************************************)
(* The trail is in order through failing events and restarts.              *)
(***************************************************************************)
THEOREM TrailStaysOrdered == Spec => []TrailIsOrdered
BY Invariance, InvariantGives, PTL

(***************************************************************************)
(* Ledger and trail stay in agreement about every session.                 *)
(***************************************************************************)
THEOREM SessionsStayAccountedFor == Spec => []SessionsAreAccountedFor
BY LedgerStaysTrue, TrailStaysOrdered, PTL DEF SessionsAreAccountedFor

-----------------------------------------------------------------------------
(***************************************************************************)
(* Refinement.  Every step of the server is a step of the lease or leaves  *)
(* it alone: a login issues, a lookup accepts or closes an expired         *)
(* session, an answer closes a request, a logout and a restart close both. *)
(***************************************************************************)
LEMMA InitRefines == Init => Lease!LeaseInit
BY DEF Init, Live, Created, leaseState, leaseHolder, Lease!LeaseInit

\* One handler's step: only its own place among the holders changes.
Holds(w) == IF pc[w] = "work" THEN req[w].cookie ELSE NoSession

OnlyMoves(w) == \A v \in Workers \ {w} : pc'[v] = pc[v] /\ req'[v] = req[v]

LEMMA HolderMoves ==
    ASSUME NEW w \in Workers, OnlyMoves(w)
    PROVE  leaseHolder' = [v \in Workers |-> IF v = w THEN Holds(w)' ELSE leaseHolder[v]]
BY DEF leaseHolder, Holds, OnlyMoves

\* Sessions S leave the ledger and the requests of R are over: a Close.
LEMMA LeavingCloses ==
    ASSUME IInv, NEW S \in SUBSET Live, NEW R \in SUBSET Workers,
           Live' = Live \ S, Created' = Created,
           leaseHolder' = [w \in Workers |-> IF w \in R THEN NoSession ELSE leaseHolder[w]]
    PROVE  Lease!LeaseNext
<1>1. S \in SUBSET Ids /\ Live \subseteq Created
  BY DEF IInv, SharedOK
<1>2. \A s \in S : leaseState[s] = "live"
  BY <1>1 DEF leaseState
<1>3. leaseState' = [s \in Ids |-> IF s \in S THEN "ended" ELSE leaseState[s]]
  BY <1>1 DEF leaseState
<1>4. Lease!Close(S, R)
  BY <1>2, <1>3 DEF Lease!Close
<1> QED
  BY <1>1, <1>4 DEF Lease!LeaseNext

\* The same for one handler that holds nothing after its step.
LEMMA HandlerCloses ==
    ASSUME IInv, NEW w \in Workers, NEW S \in SUBSET Live, OnlyMoves(w),
           Live' = Live \ S, Created' = Created, Holds(w)' = NoSession
    PROVE  Lease!LeaseNext
<1>1. leaseHolder' = [v \in Workers |-> IF v \in {w} THEN NoSession ELSE leaseHolder[v]]
  BY HolderMoves
<1> QED
  BY <1>1, LeavingCloses

\* A step that answers, refuses or records: no session comes or goes.
LEMMA AnswerRefines ==
    ASSUME IInv, NEW w \in Workers,
           Begin(w) \/ LoginRefused(w) \/ Deny(w) \/ Serve(w) \/ RecordLogin(w)
               \/ RecordLogout(w) \/ StoreFault(w)
    PROVE  Lease!LeaseNext
<1>1. OnlyMoves(w)
  BY DEF OnlyMoves, Begin, LoginRefused, Deny, Serve, RecordLogin, RecordLogout,
     StoreFault, Finish, Goto, IInv, RequestsOK
<1>2. Live' = Live \ {} /\ Created' = Created
  BY DEF Begin, LoginRefused, Deny, Serve, RecordLogin, RecordLogout, StoreFault,
     ledgerVars, Live, Created
<1>3. pc'[w] # "work"
  BY DEF Begin, LoginRefused, Deny, Serve, RecordLogin, RecordLogout, StoreFault,
     Finish, Goto, IInv, RequestsOK
<1>4. Holds(w)' = NoSession
  BY <1>3 DEF Holds
<1> QED
  BY <1>1, <1>2, <1>4, HandlerCloses

LEMMA LogInRefines ==
    ASSUME IInv, NEW w \in Workers, LogIn(w) PROVE Lease!LeaseNext
<1>1. PICK s \in Ids : create(s, req[w].user, req[w].now)
  BY DEF LogIn
<1>2. s \notin Created /\ Live' = Live \cup {s} /\ Created' = Created \cup {s}
  BY <1>1 DEF create, Put, Live, Created
<1>3. leaseState[s] = "unused" /\ leaseState' = [leaseState EXCEPT ![s] = "live"]
  BY <1>2 DEF leaseState, IInv, SharedOK
<1>4. OnlyMoves(w) /\ pc'[w] = "audit" /\ pc[w] = "verify"
  BY DEF OnlyMoves, LogIn, Goto, IInv, RequestsOK
<1>5. UNCHANGED leaseHolder
  BY <1>4 DEF leaseHolder, OnlyMoves
<1> QED
  BY <1>3, <1>5 DEF Lease!Issue, Lease!LeaseNext

LEMMA AuthorizeRefines ==
    ASSUME IInv, NEW w \in Workers, Authorize(w) PROVE Lease!LeaseNext
<1> DEFINE s == req[w].cookie
<1>1. pc[w] = "resolve" /\ resolve(s, req[w].now)
  BY DEF Authorize
<1>2. OnlyMoves(w)
  BY DEF OnlyMoves, Authorize, Authorized, Anonymous, Refused, Goto, IInv, RequestsOK
<1>3. CASE Authorized(w)
  <2>1. s \in Live /\ LookupReason(s, req[w].now) = "ok"
    BY <1>1, <1>3, VerdictEntitles DEF Authorized, Verdict
  <2>2. Live' = Live /\ Created' = Created
    BY <1>1, <2>1 DEF resolve, Live, Created
  <2>3. s \in Ids /\ leaseState[s] = "live" /\ UNCHANGED leaseState
    BY <2>1, <2>2 DEF leaseState, IInv, SharedOK
  <2>4. leaseHolder[w] = NoSession /\ Holds(w)' = s
    BY <1>1, <1>3 DEF leaseHolder, Holds, Authorized, Goto, IInv, RequestsOK
  <2>5. leaseHolder' = [leaseHolder EXCEPT ![w] = s]
    BY <1>2, <2>4, HolderMoves DEF leaseHolder
  <2> QED
    BY <2>3, <2>4, <2>5 DEF Lease!Accept, Lease!LeaseNext
<1>4. CASE Anonymous(w) \/ Refused(w)
  <2>1. Holds(w)' = NoSession
    BY <1>4 DEF Holds, Anonymous, Refused, Goto, IInv, RequestsOK, Requests
  <2>2. CASE LookupReason(s, req[w].now) \in {"ok", "absent"}
    <3>1. Live' = Live \ {} /\ Created' = Created
      BY <1>1, <2>2 DEF resolve, ledgerVars, Live, Created, LookupReason
    <3> QED
      BY <1>2, <2>1, <3>1, HandlerCloses
  <2>3. CASE LookupReason(s, req[w].now) \notin {"ok", "absent"}
    <3>1. s \in Live /\ Live' = Live \ {s} /\ Created' = Created
      BY <1>1, <2>3 DEF resolve, Drop, Live, Created, LookupReason
    <3> QED
      BY <1>2, <2>1, <3>1, HandlerCloses
  <2> QED
    BY <2>2, <2>3
<1> QED
  BY <1>3, <1>4 DEF Authorize

LEMMA LogOutRefines ==
    ASSUME IInv, NEW w \in Workers, LogOut(w) PROVE Lease!LeaseNext
<1> DEFINE S == {req[w].cookie} \cap Live
<1>1. OnlyMoves(w) /\ pc'[w] = "audit"
  BY DEF OnlyMoves, LogOut, Goto, IInv, RequestsOK
<1>2. Live' = Live \ S /\ Created' = Created
  BY DEF LogOut, delete, Drop, Live, Created
<1>3. Holds(w)' = NoSession
  BY <1>1 DEF Holds
<1> QED
  BY <1>1, <1>2, <1>3, HandlerCloses

LEMMA RestartRefines == ASSUME IInv, Restart PROVE Lease!LeaseNext
<1>1. Live' = Live \ Live /\ Created' = Created
  BY DEF Restart, Drop, Live, Created
<1>2. leaseHolder' = [w \in Workers |-> IF w \in Workers THEN NoSession ELSE leaseHolder[w]]
  BY DEF Restart, leaseHolder
<1> QED
  BY <1>1, <1>2, LeavingCloses

\* Time and an idle server do not touch the lease.
LEMMA TickRefines == ASSUME Tick \/ UNCHANGED vars PROVE UNCHANGED Lease!leaseVars
BY DEF Tick, vars, ledgerVars, leaseState, leaseHolder, Live, Created, Lease!leaseVars

LEMMA StepRefines == IInv /\ [Next]_vars => [Lease!LeaseNext]_(Lease!leaseVars)
<1> SUFFICES ASSUME IInv, [Next]_vars PROVE [Lease!LeaseNext]_(Lease!leaseVars)
  OBVIOUS
<1>1. ASSUME NEW w \in Workers, Step(w) PROVE Lease!LeaseNext
  BY <1>1, AnswerRefines, LogInRefines, AuthorizeRefines, LogOutRefines DEF Step
<1> QED
  BY <1>1, RestartRefines, TickRefines DEF Next, Waiting

(***************************************************************************)
(* The ledger implements the lease: a session is issued once, admits       *)
(* requests only while it is live, and once ended, by a logout, an expiry  *)
(* or a restart, admits none and does not come back.                       *)
(***************************************************************************)
THEOREM SessionsImplementLease == Spec => ImplementsLease
BY Invariance, InitRefines, StepRefines, PTL DEF Spec, ImplementsLease, Lease!LeaseSpec
=============================================================================
