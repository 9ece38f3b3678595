------------------------------ MODULE ReviewDesk ------------------------------
(***************************************************************************)
(* The reviewer's page, admin/app.js: one window of a rule manager, with   *)
(* what the server does with its requests.  The page is one thread of      *)
(* callbacks; every click starts a piece of work, a chain of requests each *)
(* sent when the one before was answered, and nothing locks the page while *)
(* such work goes on.  No request has a timeout: it is answered, fails, or *)
(* hangs for ever.                                                         *)
(*                                                                         *)
(* Session i is the i-th the server created and stands for its user and    *)
(* its CSRF token; 0 is none.  How a decision is taken, step by step, is   *)
(* the module Approval's: here it takes effect at once, except that a      *)
(* batch may stop after some of its drafts.                                *)
(***************************************************************************)
EXTENDS Naturals, SequencesExt

CONSTANTS
    Drafts,
    MaxClicks,     \* bound: what this reviewer does
    MaxWork,       \* bound: what he has going on at a time
    MaxSurprises   \* bound: what others and the clock do

ASSUME DeskAssumption ==
    /\ {MaxClicks, MaxWork, MaxSurprises} \subseteq Nat
    /\ "" \notin Drafts

VARIABLES
    status,      \* the drafts of the store
    decided,     \* who decided a draft, and whom his page showed as its user
    created, alive, managers,   \* the sessions of the server
    cookie,      \* the session cookie of the browser
    session,     \* state.csrf, state.role and state.username
    listed,      \* state.drafts
    selectedIds, \* state.selectedIds
    currentId,   \* state.currentId
    detail,      \* state.detail
    reviewing,   \* the review pane is visible
    result,      \* the message beside the buttons
    work,        \* what is going on, oldest first
    muddled,     \* the reviewer clicked before the last work was over, or a request failed
    clicks, surprises

serverVars == <<status, decided, created, alive, managers>>
deskVars == <<session, listed, selectedIds, currentId, detail, reviewing, result>>
boundVars == <<clicks, surprises>>
vars == <<serverVars, cookie, deskVars, work, muddled, boundVars>>

NoList == [d \in Drafts |-> ""]
NoDetail == [id |-> "", status |-> ""]
Undecided == [what |-> "", by |-> 0, badge |-> 0]
Silence == [kind |-> "", does |-> "", what |-> "", drafts |-> {}]
Error == [Silence EXCEPT !.kind = "err"]

\* what an activity waits for: the answer of the request it sent last
Waits(does, at, what, drafts) ==
    [does |-> does, at |-> at, what |-> what, drafts |-> drafts, opens |-> "", token |-> session,
     cookie |-> cookie, reply |-> "sent", seen |-> NoList, user |-> 0]

\* the next request of the same activity
Then(w, at) == [w EXCEPT !.at = at, !.reply = "sent", !.cookie = cookie, !.seen = NoList]

Start(w) == work' = Append(work, w)
Continue(i, at) == work' = [work EXCEPT ![i] = Then(@, at)]
Finish(i) == work' = RemoveAt(work, i)

isManager == session \in managers

Click ==
    /\ clicks < MaxClicks /\ clicks' = clicks + 1
    /\ Len(work') <= MaxWork
    /\ muddled' = (muddled \/ work # <<>>)
    /\ UNCHANGED <<serverVars, cookie, surprises>>

-----------------------------------------------------------------------------
(* The reviewer's clicks *)

openDraft(d) ==
    /\ isManager /\ listed[d] # ""
    /\ result' = IF d = currentId THEN result ELSE Silence
    /\ currentId' = d
    /\ Start([Waits("open", "detail", "", {}) EXCEPT !.opens = d])
    /\ UNCHANGED <<session, listed, selectedIds, detail, reviewing>>

\* the box of a draft that is listed as decided is locked
toggleSelected(d) ==
    /\ isManager /\ listed[d] = "pending"
    /\ selectedIds' = IF d \in selectedIds THEN selectedIds \ {d} ELSE selectedIds \cup {d}
    /\ UNCHANGED <<session, listed, currentId, detail, reviewing, result, work>>

decisionBlock == detail.status # "pending"

\* the buttons follow the draft on the screen, the request goes to currentId
decide(what) ==
    /\ isManager /\ reviewing /\ ~decisionBlock /\ currentId # ""
    /\ Start(Waits("decide", "post", what, {currentId}))
    /\ UNCHANGED deskVars

batchApprove ==
    /\ isManager /\ selectedIds # {}
    /\ Start(Waits("batch", "post", "approve", selectedIds))
    /\ UNCHANGED deskVars

\* the gate is there for whoever is no manager
login ==
    /\ ~isManager
    /\ Start(Waits("login", "post", "", {}))
    /\ UNCHANGED deskVars

logout ==
    /\ session # 0
    /\ Start(Waits("logout", "post", "", {}))
    /\ UNCHANGED deskVars

Clicks ==
    /\ \/ \E d \in Drafts : openDraft(d) \/ toggleSelected(d)
       \/ \E what \in {"approve", "reject"} : decide(what)
       \/ batchApprove \/ login \/ logout
    /\ Click

-----------------------------------------------------------------------------
(* The server *)

Answer(i, reply, seen, user) ==
    work' = [work EXCEPT ![i].reply = reply, ![i].seen = seen, ![i].user = user]

Refuse(i) == Answer(i, "refused", NoList, 0)

\* mutant: a state-changing endpoint that does not compare the token
authorize_NoCsrf(w) == w.cookie \in alive

authorize(w) == w.cookie \in alive /\ w.token = w.cookie

ServeRead(i) ==
    LET w == work[i]
        allowed == w.cookie \in alive \cap managers
        known == w.at \in {"detail", "impact"} => w.opens # ""
        seen == IF w.at \in {"queue", "detail"} THEN status ELSE NoList
    IN  /\ w.at \in {"queue", "reports", "detail", "impact"}
        /\ IF allowed /\ known THEN Answer(i, "ok", seen, 0) ELSE Refuse(i)
        /\ UNCHANGED <<status, decided, created, alive, managers>>

ServeSession(i) ==
    /\ work[i].at = "session"
    /\ Answer(i, "ok", NoList, IF work[i].cookie \in alive THEN work[i].cookie ELSE 0)
    /\ UNCHANGED serverVars

\* the answer sets the cookie when it arrives; a wrong password is refused
ServeLogin(i) ==
    /\ work[i].does = "login" /\ work[i].at = "post"
    /\ \/ /\ created' = created + 1
          /\ alive' = alive \cup {created'}
          /\ managers' \in {managers, managers \cup {created'}}
          /\ Answer(i, "ok", NoList, created')
       \/ Refuse(i) /\ UNCHANGED <<created, alive, managers>>
    /\ UNCHANGED <<status, decided>>

ServeLogout(i) ==
    /\ work[i].does = "logout"
    /\ IF authorize(work[i])
       THEN alive' = alive \ {work[i].cookie} /\ Answer(i, "ok", NoList, 0)
       ELSE Refuse(i) /\ UNCHANGED alive
    /\ UNCHANGED <<status, decided, created, managers>>

DecidedAs(what) == IF what = "approve" THEN "approved" ELSE "rejected"

Enter(w, drafts) ==
    /\ status' = [d \in Drafts |-> IF d \in drafts THEN DecidedAs(w.what) ELSE status[d]]
    /\ decided' = [d \in Drafts |-> IF d \in drafts
                                    THEN [what |-> w.what, by |-> w.cookie, badge |-> w.token]
                                    ELSE decided[d]]
    /\ UNCHANGED <<created, alive, managers>>

\* a draft that is not pending is refused; a decision that fails later leaves its
\* draft pending, but a batch may have got through some of its drafts
ServeDecision(i) ==
    LET w == work[i]
        mayDecide == /\ authorize(w) /\ w.cookie \in managers
                     /\ \A d \in w.drafts : status[d] = "pending"
    IN  /\ w.does \in {"decide", "batch"} /\ w.at = "post"
        /\ \/ mayDecide /\ Enter(w, w.drafts) /\ Answer(i, "ok", NoList, 0)
           \/ /\ mayDecide
              /\ \E some \in SUBSET w.drafts \ {w.drafts} : Enter(w, some)
              /\ Refuse(i)
           \/ ~mayDecide /\ Refuse(i) /\ UNCHANGED serverVars

Serve(i) ==
    /\ work[i].reply = "sent"
    /\ ServeRead(i) \/ ServeSession(i) \/ ServeLogin(i) \/ ServeLogout(i) \/ ServeDecision(i)
    /\ UNCHANGED <<cookie, deskVars, muddled, boundVars>>

-----------------------------------------------------------------------------
(***************************************************************************)
(* Answers.  What follows a decision: the queue, the reports and the       *)
(* indicators are read again (the last never fails, so it is not a step),  *)
(* and after a single decision the draft that is open by then.             *)
(***************************************************************************)
Says(i) == [kind |-> "ok", does |-> work[i].does, what |-> work[i].what, drafts |-> work[i].drafts]

SessionRead(i) ==
    /\ work[i].at = "session"
    /\ session' = work[i].user
    /\ IF work[i].user \in managers THEN Continue(i, "queue") ELSE Finish(i)
    /\ UNCHANGED <<cookie, listed, selectedIds, currentId, detail, reviewing, result>>

LoggedIn(i) ==
    /\ work[i].does = "login" /\ work[i].at = "post"
    /\ cookie' = work[i].user
    /\ work' = [work EXCEPT ![i] = [Then(@, "session") EXCEPT !.cookie = cookie']]
    /\ UNCHANGED deskVars

Forget ==
    /\ session' = 0 /\ currentId' = "" /\ selectedIds' = {} /\ reviewing' = FALSE
    /\ UNCHANGED <<listed, detail, result>>

LoggedOut(i) ==
    /\ work[i].does = "logout"
    /\ cookie' = 0
    /\ Forget
    /\ Finish(i)

Decided(i) ==
    /\ work[i].does \in {"decide", "batch"} /\ work[i].at = "post"
    /\ selectedIds' = {}
    /\ Continue(i, "queue")
    /\ UNCHANGED <<cookie, session, listed, currentId, detail, reviewing, result>>

QueueRead(i) ==
    /\ work[i].at = "queue"
    /\ listed' = work[i].seen
    /\ IF work[i].does = "apology" THEN Finish(i) ELSE Continue(i, "reports")
    /\ UNCHANGED <<cookie, session, selectedIds, currentId, detail, reviewing, result>>

ReportsRead(i) ==
    /\ work[i].at = "reports"
    /\ CASE work[i].does = "decide" ->
               work' = [work EXCEPT ![i] = [Then(@, "detail") EXCEPT !.opens = currentId]]
         [] OTHER -> Finish(i)
    /\ result' = IF work[i].does = "batch" THEN Says(i) ELSE result
    /\ UNCHANGED <<cookie, session, listed, selectedIds, currentId, detail, reviewing>>

\* the draft of this request, whatever has been opened since
DetailRead(i) ==
    /\ work[i].at = "detail"
    /\ detail' = [id |-> work[i].opens, status |-> work[i].seen[work[i].opens]]
    /\ reviewing' = TRUE
    /\ Continue(i, "impact")
    /\ UNCHANGED <<cookie, session, listed, selectedIds, currentId, result>>

ImpactRead(i) ==
    /\ work[i].at = "impact"
    /\ result' = IF work[i].does = "decide" THEN Says(i) ELSE result
    /\ Finish(i)
    /\ UNCHANGED <<cookie, session, listed, selectedIds, currentId, detail, reviewing>>

Arrives(i) ==
    /\ work[i].reply = "ok"
    /\ \/ SessionRead(i) \/ LoggedIn(i) \/ LoggedOut(i) \/ Decided(i)
       \/ QueueRead(i) \/ ReportsRead(i) \/ DetailRead(i) \/ ImpactRead(i)
    /\ UNCHANGED <<serverVars, muddled, boundVars>>

-----------------------------------------------------------------------------
(***************************************************************************)
(* Failures: a refusal, a request or an answer that is lost.  A start or a *)
(* login just ends; a logout that fails looks like one that went through;  *)
(* a batch says that nothing was reflected and reads the queue again.      *)
(***************************************************************************)
NothingComes(i) ==
    /\ work[i].does \in {"start", "login", "apology"}
    /\ Finish(i)
    /\ UNCHANGED deskVars

LogoutFails(i) ==
    /\ work[i].does = "logout"
    /\ Forget
    /\ Finish(i)

\* mutant: the page keeps quiet when a draft cannot be opened
OpenFails_Quiet(i) ==
    /\ work[i].does = "open"
    /\ Finish(i)
    /\ UNCHANGED deskVars

OpenFails(i) ==
    /\ work[i].does = "open"
    /\ result' = Error
    /\ Finish(i)
    /\ UNCHANGED <<session, listed, selectedIds, currentId, detail, reviewing>>

\* openDraft catches what goes wrong in it, so the message of success still comes
DecideFails(i) ==
    /\ work[i].does = "decide"
    /\ result' = IF work[i].at \in {"detail", "impact"} THEN Says(i) ELSE Error
    /\ Finish(i)
    /\ UNCHANGED <<session, listed, selectedIds, currentId, detail, reviewing>>

BatchFails(i) ==
    /\ work[i].does = "batch"
    /\ result' = Error
    /\ work' = Append(RemoveAt(work, i), Waits("apology", "queue", "", {}))
    /\ UNCHANGED <<session, listed, selectedIds, currentId, detail, reviewing>>

Fails(i) ==
    /\ NothingComes(i) \/ LogoutFails(i) \/ OpenFails(i) \/ DecideFails(i) \/ BatchFails(i)
    /\ UNCHANGED <<serverVars, cookie, boundVars>>

Refused(i) == work[i].reply = "refused" /\ Fails(i) /\ UNCHANGED muddled

\* for a request that only reads it is all the same which way is lost
Lost(i) ==
    /\ work[i].reply = "sent" \/ (work[i].reply = "ok" /\ work[i].at = "post")
    /\ Fails(i) /\ muddled' = TRUE

-----------------------------------------------------------------------------
(* What others do: another reviewer, another window of this browser, the clock *)

OtherDecides(d) ==
    /\ status[d] = "pending"
    /\ \E what \in {"approve", "reject"} :
        /\ status' = [status EXCEPT ![d] = DecidedAs(what)]
        /\ decided' = [decided EXCEPT ![d].what = what]
    /\ UNCHANGED <<created, alive, managers, cookie>>

OtherLogin ==
    /\ created' = created + 1
    /\ alive' = alive \cup {created'}
    /\ managers' \in {managers, managers \cup {created'}}
    /\ cookie' = created'
    /\ UNCHANGED <<status, decided>>

SessionEnds(i) ==
    /\ alive' = alive \ {i}
    /\ UNCHANGED <<status, decided, created, managers, cookie>>

Elsewhere ==
    /\ surprises < MaxSurprises /\ surprises' = surprises + 1
    /\ (\E d \in Drafts : OtherDecides(d)) \/ OtherLogin \/ (\E i \in alive : SessionEnds(i))
    /\ UNCHANGED <<deskVars, work, muddled, clicks>>

-----------------------------------------------------------------------------
\* the browser may have the cookie of a manager's session
Init ==
    /\ status = [d \in Drafts |-> "pending"] /\ decided = [d \in Drafts |-> Undecided]
    /\ created \in {0, 1} /\ alive = 1..created /\ managers = alive /\ cookie = created
    /\ session = 0 /\ listed = NoList /\ selectedIds = {} /\ currentId = ""
    /\ detail = NoDetail /\ reviewing = FALSE /\ result = Silence
    /\ work = <<Waits("start", "session", "", {})>>
    /\ muddled = FALSE /\ clicks = 0 /\ surprises = 0

Next ==
    \/ Clicks
    \/ \E i \in DOMAIN work : Serve(i) \/ Arrives(i) \/ Refused(i) \/ Lost(i)
    \/ Elsewhere

Spec == Init /\ [][Next]_vars

-----------------------------------------------------------------------------
(* Properties *)

(***************************************************************************)
(* A decision enters the records in the name the page showed when the      *)
(* button was pressed, though another window may have logged in somebody   *)
(* else since; and what the page reports as decided is decided that way,   *)
(* by this reviewer, every draft of a batch included.  (authorize,         *)
(* main.py; decide, batchApprove.)                                         *)
(***************************************************************************)
DecisionsAreTrue ==
    /\ \A d \in Drafts : decided[d].badge # 0 => decided[d].by = decided[d].badge
    /\ result.kind = "ok" =>
        \A d \in result.drafts : decided[d].what = result.what /\ decided[d].badge # 0

(***************************************************************************)
(* A reviewer who waits for the end of each piece of work, and whose       *)
(* requests are all answered, has the draft before him that his decision   *)
(* is sent about, or the page says that it could not be opened; and when   *)
(* it says that a draft was decided, that draft is the one open and its    *)
(* buttons are closed, as long as his session lasts.  One who clicks       *)
(* faster, or whose requests get lost, has no such promise: a late detail  *)
(* is drawn over a newer one.  (openDraft, decide.)                        *)
(***************************************************************************)
PatientReviewerIsTold ==
    ~muddled /\ reviewing /\ (\A i \in DOMAIN work : work[i].at # "detail") =>
        /\ detail.id = currentId \/ result.kind = "err"
        /\ result.kind = "ok" /\ result.does = "decide" =>
            /\ result.drafts = {detail.id}
            /\ decisionBlock \/ cookie # session \/ session \notin alive
=============================================================================
