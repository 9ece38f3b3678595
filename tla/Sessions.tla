------------------------------ MODULE Sessions ------------------------------
(***************************************************************************)
(* Sessions and authorization: the ledger SessionStore of auth.py, kept in *)
(* the server's memory, and the endpoints of main.py that read and change  *)
(* it.  A worker takes a request, reads the clock once, and only later     *)
(* takes the ledger's lock: what it compares with the ledger may be older  *)
(* than what another request left there.                                   *)
(*                                                                         *)
(*   verify   login: the user is found and the password compared           *)
(*   resolve  everything else: the cookie is looked up, then role and CSRF *)
(*   work     the endpoint itself, under the session it was accepted with  *)
(*   deny     the refusal goes on the audit trail, then to the client      *)
(*   audit    the login or the logout goes on the audit trail              *)
(*                                                                         *)
(* Browsers keep whatever cookie they were given for ever and send any of  *)
(* them with any request.  A session's role is its user's role: no code    *)
(* changes a role, and the CSRF token is one per session, so the token is  *)
(* named by its session.                                                   *)
(***************************************************************************)
EXTENDS Naturals, FiniteSets

CONSTANTS
    Workers,          \* threads that serve requests
    Users,            \* accounts
    Role,             \* Role[u]: u's role
    Ids,              \* what token_urlsafe may draw
    NoSession,        \* no cookie, no token, no session
    NoUser,           \* no such account, or the password is wrong
    Endpoints,        \* the permissions whose endpoints are called
    IdleTimeout, AbsoluteTimeout,
    MaxTime,          \* bound: last instant of the clock
    MaxRequests,      \* bound: requests served
    MaxFaults,        \* bound: store calls that fail
    MaxCrashes        \* bound: restarts of the server

Roles == {"counselor", "rule_manager"}

(***************************************************************************)
(* The permission table.  analysis.read admits everybody.                  *)
(***************************************************************************)
Everybody == Roles \cup {"anonymous"}
ManagerOnly == {"draft.read", "draft.decide", "audit.read", "report.read", "status.read"}
StaffActions == {"session.end", "analysis.internal", "report.create"}
Permissions == ManagerOnly \cup StaffActions \cup {"analysis.read"}

PERMISSIONS == [a \in Permissions |->
    CASE a \in ManagerOnly  -> {"rule_manager"}
      [] a \in StaffActions -> Roles
      [] OTHER              -> Everybody]

allows(action, role) == action \in Permissions /\ role \in PERMISSIONS[action]

\* endpoints that change state ask for the CSRF token
RequireCsrf == {"session.end", "report.create", "draft.decide"}

\* endpoints that treat a request without a session as anonymous
Optional == {"analysis.internal"}

ASSUME AccountsAssumption ==
    /\ Role \in [Users -> Roles]
    /\ NoUser \notin Users
    /\ NoSession \notin Ids
    /\ Endpoints \subseteq Permissions \ {"analysis.read"}

ASSUME LimitsAssumption ==
    /\ IdleTimeout \in Nat \ {0}
    /\ AbsoluteTimeout \in Nat \ {0}
    /\ {MaxTime, MaxRequests, MaxFaults, MaxCrashes} \subseteq Nat

VARIABLES
    ledger,      \* SessionStore._sessions: the sessions there are
    life,        \* of every session ever created: its user, when, latest use
    delivered,   \* sessions whose cookie a browser was sent
    recordedIn,  \* sessions with a login event on the audit trail
    recordedOut, \* sessions with a logout event on the audit trail
    pc,          \* where each worker's handler is
    req,         \* the request it serves
    clock, served, faults, crashes

ledgerVars == <<ledger, life>>
trailVars == <<delivered, recordedIn, recordedOut>>
boundVars == <<clock, served, faults, crashes>>
vars == <<ledgerVars, trailVars, pc, req, boundVars>>

Stages == {"idle", "verify", "resolve", "work", "deny", "audit"}
Reasons == {"ok", "absent", "absolute_expired", "idle_expired", "forbidden",
            "csrf_failed", "invalid_credentials"}

\* a request: what is asked, what the browser sends, when it began, how it fares
Requests == [op : Endpoints \cup {"login"}, user : Users \cup {NoUser},
             cookie : Ids \cup {NoSession}, token : Ids \cup {NoSession},
             now : Nat, reason : Reasons]

NoRequest == [op |-> "login", user |-> NoUser, cookie |-> NoSession,
              token |-> NoSession, now |-> 0, reason |-> "ok"]

Live == DOMAIN ledger
Created == DOMAIN life

Init ==
    /\ ledger = [s \in {} |-> {}]
    /\ life = [s \in {} |-> {}]
    /\ delivered = {} /\ recordedIn = {} /\ recordedOut = {}
    /\ pc = [w \in Workers |-> "idle"]
    /\ req = [w \in Workers |-> NoRequest]
    /\ clock = 0 /\ served = 0 /\ faults = 0 /\ crashes = 0

-----------------------------------------------------------------------------
(***************************************************************************)
(* The operations of SessionStore, each under the lock.                    *)
(***************************************************************************)
Put(f, s, value) == [t \in DOMAIN f \cup {s} |-> IF t = s THEN value ELSE f[t]]
Drop(f, S) == [t \in DOMAIN f \ S |-> f[t]]

create(s, u, at) ==
    /\ s \notin Created
    /\ ledger' = Put(ledger, s, [user |-> u, created |-> at, seen |-> at])
    /\ life' = Put(life, s, [user |-> u, created |-> at, used |-> at])

\* mutant: expiry a moment too late
LookupReason_OffByOne(s, at) ==
    IF s \notin Live THEN "absent"
    ELSE IF at > ledger[s].created + AbsoluteTimeout THEN "absolute_expired"
    ELSE IF at > ledger[s].seen + IdleTimeout THEN "idle_expired"
    ELSE "ok"

\* why a lookup fails, in the order of the checks
LookupReason(s, at) ==
    IF s \notin Live THEN "absent"
    ELSE IF at >= ledger[s].created + AbsoluteTimeout THEN "absolute_expired"
    ELSE IF at >= ledger[s].seen + IdleTimeout THEN "idle_expired"
    ELSE "ok"

Latest(a, b) == IF a >= b THEN a ELSE b

resolve(s, at) ==
    LET why == LookupReason(s, at) IN
    CASE why = "ok" ->
           /\ ledger' = [ledger EXCEPT ![s].seen = at]
           /\ life' = [life EXCEPT ![s].used = Latest(@, at)]
      [] why = "absent" -> UNCHANGED ledgerVars
      [] OTHER -> ledger' = Drop(ledger, {s}) /\ UNCHANGED life

delete(s) == ledger' = Drop(ledger, {s}) /\ UNCHANGED life

-----------------------------------------------------------------------------
Goto(w, stage) == pc' = [pc EXCEPT ![w] = stage]

\* the answer is on its way and the worker is free again
Finish(w) == Goto(w, "idle") /\ req' = [req EXCEPT ![w] = NoRequest]

(***************************************************************************)
(* A request arrives and reads the clock.  The browser sends any cookie it *)
(* ever got, or none, and the token that goes with any of them.            *)
(***************************************************************************)
LoginRequest(r) ==
    /\ r.op = "login"
    /\ r.cookie = NoSession /\ r.token = NoSession

SessionRequest(r) ==
    /\ r.op # "login"
    /\ r.user = NoUser
    /\ r.cookie \in delivered \cup {NoSession}
    /\ r.token \in (IF r.op \in RequireCsrf THEN delivered ELSE {}) \cup {NoSession}

\* bound: a login begins only while the model has an id to give it
IdsLeft ==
    Cardinality({w \in Workers : pc[w] = "verify" /\ req[w].user # NoUser})
        < Cardinality(Ids \ Created)

Begin(w) ==
    /\ pc[w] = "idle"
    /\ served < MaxRequests
    /\ served' = served + 1
    /\ \E o \in Endpoints \cup {"login"}, u \in Users \cup {NoUser},
         c, t \in delivered \cup {NoSession} :
         LET r == [op |-> o, user |-> u, cookie |-> c, token |-> t,
                   now |-> clock, reason |-> "ok"]
         IN  /\ (LoginRequest(r) /\ IdsLeft) \/ SessionRequest(r)
             /\ req' = [req EXCEPT ![w] = r]
             /\ Goto(w, IF o = "login" THEN "verify" ELSE "resolve")
    /\ UNCHANGED <<ledgerVars, trailVars, clock, faults, crashes>>

(***************************************************************************)
(* login_endpoint after the password: a session, or a refusal to record.   *)
(***************************************************************************)
LogIn(w) ==
    /\ pc[w] = "verify"
    /\ req[w].user # NoUser
    /\ \E s \in Ids :
         /\ create(s, req[w].user, req[w].now)
         /\ req' = [req EXCEPT ![w].cookie = s]
    /\ Goto(w, "audit")
    /\ UNCHANGED <<trailVars, boundVars>>

LoginRefused(w) ==
    /\ pc[w] = "verify"
    /\ req[w].user = NoUser
    /\ Goto(w, "deny")
    /\ req' = [req EXCEPT ![w].reason = "invalid_credentials"]
    /\ UNCHANGED <<ledgerVars, trailVars, boundVars>>

(***************************************************************************)
(* authorize, or optional_session: one visit to the ledger; then, with     *)
(* nothing shared, the role and the token.                                 *)
(***************************************************************************)
Verdict(r) ==
    LET why == LookupReason(r.cookie, r.now)
    IN  IF why # "ok" THEN why
        ELSE IF ~allows(r.op, Role[ledger[r.cookie].user]) THEN "forbidden"
        ELSE IF r.op \in RequireCsrf /\ r.token # r.cookie THEN "csrf_failed"
        ELSE "ok"

Authorized(w) ==
    /\ Verdict(req[w]) = "ok"
    /\ Goto(w, "work")
    /\ UNCHANGED req

Anonymous(w) ==
    /\ Verdict(req[w]) # "ok"
    /\ req[w].op \in Optional
    /\ Goto(w, "work")
    /\ req' = [req EXCEPT ![w].cookie = NoSession]

Refused(w) ==
    /\ Verdict(req[w]) # "ok"
    /\ req[w].op \notin Optional
    /\ Goto(w, "deny")
    /\ req' = [req EXCEPT ![w].reason = Verdict(req[w])]

Authorize(w) ==
    /\ pc[w] = "resolve"
    /\ resolve(req[w].cookie, req[w].now)
    /\ Authorized(w) \/ Anonymous(w) \/ Refused(w)
    /\ UNCHANGED <<trailVars, boundVars>>

\* the refusal is recorded, then answered
Deny(w) ==
    /\ pc[w] = "deny"
    /\ Finish(w)
    /\ UNCHANGED <<ledgerVars, trailVars, boundVars>>

\* mutant: the session read at the start is written back at the end
Serve_WriteBack(w) ==
    /\ pc[w] = "work"
    /\ req[w].op # "session.end"
    /\ LET s == req[w].cookie IN
       IF s = NoSession THEN UNCHANGED ledger
       ELSE ledger' = Put(ledger, s, [user |-> life[s].user,
                created |-> life[s].created, seen |-> req[w].now])
    /\ Finish(w)
    /\ UNCHANGED <<life, trailVars, boundVars>>

(***************************************************************************)
(* The endpoint's own work.  Logout ends the session it came with.         *)
(***************************************************************************)
Serve(w) ==
    /\ pc[w] = "work"
    /\ req[w].op # "session.end"
    /\ Finish(w)
    /\ UNCHANGED <<ledgerVars, trailVars, boundVars>>

LogOut(w) ==
    /\ pc[w] = "work"
    /\ req[w].op = "session.end"
    /\ delete(req[w].cookie)
    /\ Goto(w, "audit")
    /\ UNCHANGED <<trailVars, req, boundVars>>

\* mutant: a failing append is swallowed and the cookie sent anyway
RecordLogin_AnswerAnyway(w) ==
    /\ pc[w] = "audit"
    /\ req[w].op = "login"
    /\ recordedIn' \in {recordedIn, recordedIn \cup {req[w].cookie}}
    /\ delivered' = delivered \cup {req[w].cookie}
    /\ Finish(w)
    /\ UNCHANGED <<ledgerVars, recordedOut, boundVars>>

(***************************************************************************)
(* The event of a login or a logout, then the answer.  The cookie of a     *)
(* login is sent only after its event is on the trail.                     *)
(***************************************************************************)
RecordLogin(w) ==
    /\ pc[w] = "audit"
    /\ req[w].op = "login"
    /\ recordedIn' = recordedIn \cup {req[w].cookie}
    /\ delivered' = delivered \cup {req[w].cookie}
    /\ Finish(w)
    /\ UNCHANGED <<ledgerVars, recordedOut, boundVars>>

RecordLogout(w) ==
    /\ pc[w] = "audit"
    /\ req[w].op = "session.end"
    /\ recordedOut' = recordedOut \cup {req[w].cookie}
    /\ Finish(w)
    /\ UNCHANGED <<ledgerVars, recordedIn, delivered, boundVars>>

\* a store call raises: the client gets an error, the ledger keeps what it has
StoreFault(w) ==
    /\ \/ pc[w] \in {"verify", "resolve", "deny", "audit"}
       \/ pc[w] = "work" /\ req[w].op # "session.end"
    /\ faults < MaxFaults
    /\ faults' = faults + 1
    /\ Finish(w)
    /\ UNCHANGED <<ledgerVars, trailVars, clock, served, crashes>>

\* the ledger is memory: a restart begins with an empty one
Restart ==
    /\ crashes < MaxCrashes
    /\ crashes' = crashes + 1
    /\ ledger' = Drop(ledger, Live)
    /\ pc' = [w \in Workers |-> "idle"]
    /\ req' = [w \in Workers |-> NoRequest]
    /\ UNCHANGED <<life, trailVars, clock, served, faults>>

Tick ==
    /\ clock < MaxTime
    /\ clock' = clock + 1
    /\ UNCHANGED <<ledgerVars, trailVars, pc, req, served, faults, crashes>>

\* a server with nothing to do waits
Waiting ==
    /\ \A w \in Workers : pc[w] = "idle"
    /\ UNCHANGED vars

Step(w) ==
    \/ Begin(w)
    \/ LogIn(w)
    \/ LoginRefused(w)
    \/ Authorize(w)
    \/ Deny(w)
    \/ Serve(w)
    \/ LogOut(w)
    \/ RecordLogin(w)
    \/ RecordLogout(w)
    \/ StoreFault(w)

Next == (\E w \in Workers : Step(w)) \/ Restart \/ Tick \/ Waiting

Spec == Init /\ [][Next]_vars

-----------------------------------------------------------------------------
(***************************************************************************)
(* Types of the ledger and the handlers, and the bounds.                   *)
(***************************************************************************)
TypeOK ==
    /\ Live \subseteq Created /\ Created \subseteq Ids
    /\ ledger \in [Live -> [user : Users, created : Nat, seen : Nat]]
    /\ life \in [Created -> [user : Users, created : Nat, used : Nat]]
    /\ delivered \subseteq Created
    /\ recordedIn \subseteq Created
    /\ recordedOut \subseteq Created
    /\ pc \in [Workers -> Stages]
    /\ req \in [Workers -> Requests]
    /\ {clock, served, faults, crashes} \subseteq Nat

(***************************************************************************)
(* The ledger says of a session what its login said, and its idle clock    *)
(* stands between its creation and its latest use: a request that waited   *)
(* for the lock may put it back, but never to before the login.            *)
(* (SessionStore.create and resolve, auth.py.)                             *)
(***************************************************************************)
LedgerIsTrue ==
    \A s \in Live :
        /\ ledger[s].user = life[s].user
        /\ ledger[s].created = life[s].created
        /\ life[s].created <= ledger[s].seen
        /\ ledger[s].seen <= life[s].used
        /\ life[s].used <= clock

(***************************************************************************)
(* Whoever works under a session logged in before the request began, less  *)
(* than the absolute timeout ago, in a role the endpoint admits, and sent  *)
(* that session's own token where one is asked for; this stays so while    *)
(* other requests end the session.  No gated endpoint works without one.   *)
(* (authorize, main.py.)                                                   *)
(***************************************************************************)
Entitled(r) ==
    /\ r.cookie \in delivered
    /\ life[r.cookie].created <= r.now
    /\ r.now < life[r.cookie].created + AbsoluteTimeout
    /\ allows(r.op, Role[life[r.cookie].user])
    /\ r.op \in RequireCsrf => r.token = r.cookie

WorkIsEntitled ==
    \A w \in Workers : pc[w] = "work" =>
        \/ Entitled(req[w])
        \/ req[w].op \in Optional /\ req[w].cookie = NoSession

(***************************************************************************)
(* The audit trail tells a session's life in order, also when events fail  *)
(* and the server restarts: nobody holds the cookie of a login that is not *)
(* recorded, a recorded logout has a recorded login before it, and a       *)
(* session whose logout is recorded is gone.  (login_endpoint and          *)
(* logout_endpoint, main.py.)                                              *)
(***************************************************************************)
TrailIsOrdered ==
    /\ delivered \subseteq recordedIn
    /\ recordedOut \subseteq recordedIn
    /\ recordedOut \cap Live = {}

(***************************************************************************)
(* Ledger and trail tell the same story of a session: the ledger what its  *)
(* login said, for as long as no recorded logout says it is over.          *)
(***************************************************************************)
SessionsAreAccountedFor == LedgerIsTrue /\ TrailIsOrdered

(***************************************************************************)
(* The ledger keeps the promise of a session: see SessionLease.            *)
(***************************************************************************)
leaseState ==
    [s \in Ids |-> IF s \in Live THEN "live"
                   ELSE IF s \in Created THEN "ended" ELSE "unused"]
leaseHolder ==
    [w \in Workers |-> IF pc[w] = "work" THEN req[w].cookie ELSE NoSession]

Lease == INSTANCE SessionLease WITH state <- leaseState, holder <- leaseHolder

ImplementsLease == Lease!LeaseSpec
=============================================================================
