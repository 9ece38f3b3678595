----------------------------- MODULE CitizenPage -----------------------------
(***************************************************************************)
(* The citizen's page, frontend/app.js, with the endpoints it calls.  The  *)
(* page is one thread of callbacks; what it asks for travels, is served by *)
(* a thread of the server, and comes back, is lost, or comes too late:     *)
(* then the page has aborted the request and the server works on.          *)
(* Browser windows share the session cookie, so another window may log in  *)
(* and out under this one.                                                 *)
(*                                                                         *)
(* Session i is the i-th the server created; it stands for its user and    *)
(* for its CSRF token too.  0 is no session.  Chat is the thread that      *)
(* answers a question, Analysis the computation of a diagnosis: of a       *)
(* diagnosis only its source, its form and its internal part matter here.  *)
(***************************************************************************)
EXTENDS Chat

CONSTANTS
    LocalRegions,   \* the regions of the generated artifacts
    Errands,        \* bound: what one visit is for
    MaxClicks,      \* bound: what this user does
    MaxSurprises    \* bound: what other windows, the clock and the disk do

ASSUME PageAssumption ==
    /\ {MaxClicks, MaxSurprises} \subseteq Nat
    /\ \A p \in Profiles : p.region \in Regions \cup LocalRegions
    /\ Errands \subseteq SUBSET {"diagnose", "staff", "converse"}
    /\ "policy" \notin Regions \cup LocalRegions

VARIABLES
    errand,        \* what this visit is for
    localReady,    \* localStatus().ready
    connection,    \* STATE.connection
    booting,       \* the requests of init that are not answered
    regions,       \* the codes of STATE.regions
    cookie,        \* the session cookie of the browser
    created,       \* how many sessions the server has created
    alive,         \* the sessions the server knows
    session,       \* STATE.session
    calls,         \* requests about the session and reports, oldest first
    policyButtons, \* the drawn policies have their report buttons
    dialog,        \* the open dialog: "login", or the target of STATE.report; "" for none
    diagnosis,     \* the diagnosis asked for
    lastResult,    \* STATE.lastResult
    lastSource,    \* STATE.lastSource
    talk,          \* the question asked
    history,       \* the roles of STATE.chatHistory
    left,          \* the sessions this page has ended
    clicks, surprises

serverVars == <<created, alive>>
bootVars == <<errand, localReady, booting, regions>>
staffVars == <<cookie, serverVars, session, calls, dialog, left>>
diagnosisVars == <<diagnosis, lastResult, lastSource>>
talkVars == <<talk, history, chatVars>>
vars == <<bootVars, connection, staffVars, policyButtons, diagnosisVars, talkVars, clicks, surprises>>

\* overtaken, kept for the properties: a logout came back before the drawing
NoResult ==
    [source |-> "", label |-> "", form |-> NoProfile, internal |-> 0, overtaken |-> FALSE]
Resting ==
    [at |-> "idle", form |-> NoProfile, cookie |-> 0, internal |-> 0, source |-> "",
     overtaken |-> FALSE]

\* talk.chat is the request of a question, any of them while there is none
AnyChat == CHOOSE c \in Chats : TRUE
Quiet == [at |-> "idle", chat |-> AnyChat]

Click(what) == what \in errand /\ clicks < MaxClicks /\ clicks' = clicks + 1
Surprise == surprises < MaxSurprises /\ surprises' = surprises + 1

-----------------------------------------------------------------------------
(***************************************************************************)
(* Requests about the session and reports.  The cookie and the token leave *)
(* with the request.  at is how far the server is with it, page whether    *)
(* the page waits for the answer, or what it said in the end.              *)
(***************************************************************************)
Request(kind, target) ==
    [kind |-> kind, target |-> target, cookie |-> cookie, token |-> session,
     at |-> "sent", answer |-> 0, page |-> "waiting"]

Send(request) == calls' = Append(calls, request)

\* once the page believes it is alone it does not dial any more
Dials == connection # "local"

canReport == session # 0

Waiting(kind) == \E i \in DOMAIN calls : calls[i].kind = kind /\ calls[i].page = "waiting"

\* whoever the answer about the session has named since the dialog was opened
doLogin == dialog = "login" /\ ~Waiting("login") /\ Send(Request("login", ""))

doLogout == session # 0 /\ Send(Request("logout", ""))

\* the dialog stays open, and its button too
submitReport == dialog \notin {"", "login"} /\ Send(Request("report", dialog))

StaffClick ==
    /\ doLogin \/ doLogout \/ submitReport
    /\ Dials /\ Click("staff")
    /\ UNCHANGED <<bootVars, connection, cookie, serverVars, session, dialog, left,
                   policyButtons, diagnosisVars, talkVars, surprises>>

\* a policy has the button it was drawn with, the region the one of this session
Offered ==
    (IF policyButtons THEN {"policy"} ELSE {}) \cup (IF canReport THEN regions ELSE {})

openReportDialog == dialog = "" /\ dialog' \in Offered

openLoginDialog == dialog = "" /\ session = 0 /\ dialog' = "login"

\* by Escape, the button, or a click beside it
CloseDialog == dialog # "" /\ dialog' = ""

UseDialog ==
    /\ openReportDialog \/ openLoginDialog \/ CloseDialog
    /\ "staff" \in errand
    /\ UNCHANGED <<bootVars, connection, cookie, serverVars, session, calls, left,
                   policyButtons, diagnosisVars, talkVars, clicks, surprises>>

Answer(i, at, what) == calls' = [calls EXCEPT ![i].at = at, ![i].answer = what]

\* the last store call of an endpoint is the audit trail's, and it may fail
Recorded == {"served"} \cup (IF surprises < MaxSurprises THEN {"refused"} ELSE {})

ServeSession(i) ==
    /\ calls[i].kind = "session" /\ calls[i].at = "sent"
    /\ Answer(i, "served", IF calls[i].cookie \in alive THEN calls[i].cookie ELSE 0)
    /\ UNCHANGED <<serverVars, surprises>>

\* a wrong password is to the page what a lost request is
login_endpoint(i) ==
    /\ calls[i].kind = "login" /\ calls[i].at = "sent"
    /\ created' = created + 1
    /\ alive' = alive \cup {created'}
    /\ \E at \in Recorded :
        /\ Answer(i, at, created')
        /\ surprises' = surprises + IF at = "refused" THEN 1 ELSE 0

\* mutant: a state-changing endpoint that does not compare the token
authorize_NoCsrf(r) == r.cookie \in alive

authorize(r) == r.cookie \in alive /\ r.token = r.cookie

logout_endpoint(i) ==
    /\ calls[i].kind = "logout" /\ calls[i].at = "sent"
    /\ IF authorize(calls[i])
       THEN /\ alive' = alive \ {calls[i].cookie}
            /\ \E at \in Recorded :
                /\ Answer(i, at, 0)
                /\ surprises' = surprises + IF at = "refused" THEN 1 ELSE 0
       ELSE Answer(i, "refused", 0) /\ UNCHANGED <<alive, surprises>>
    /\ UNCHANGED created

\* the reporter is the user of the session the report came with; no policy
\* of the store ever ceases to be known
create_report_endpoint(i) ==
    /\ calls[i].kind = "report" /\ calls[i].at = "sent"
    /\ IF authorize(calls[i]) /\ calls[i].target \in Regions \cup {"policy"}
       THEN Answer(i, "filed", calls[i].cookie)
       ELSE Answer(i, "refused", 0)
    /\ UNCHANGED <<serverVars, surprises>>

RecordReport(i) ==
    /\ calls[i].kind = "report" /\ calls[i].at = "filed"
    /\ \E at \in Recorded :
        /\ Answer(i, at, calls[i].answer)
        /\ surprises' = surprises + IF at = "refused" THEN 1 ELSE 0
    /\ UNCHANGED serverVars

Serve(i) ==
    /\ \/ ServeSession(i) \/ login_endpoint(i) \/ logout_endpoint(i)
       \/ create_report_endpoint(i) \/ RecordReport(i)
    /\ UNCHANGED <<bootVars, connection, cookie, session, dialog, left, policyButtons,
                   diagnosisVars, talkVars, clicks>>

Said(i) ==
    /\ calls[i].page = "waiting" /\ calls[i].at = "served"
    /\ calls' = [calls EXCEPT ![i].page = "said"]

\* what closes the one kind of dialog leaves the other open
closeLoginDialog == dialog' = IF dialog = "login" THEN "" ELSE dialog
closeReportDialog == dialog' = IF dialog = "login" THEN "login" ELSE ""

SessionArrives(i) ==
    /\ calls[i].kind = "session" /\ Said(i)
    /\ session' = calls[i].answer
    /\ UNCHANGED <<cookie, dialog, left, policyButtons, lastResult, diagnosis>>

LoginArrives(i) ==
    /\ calls[i].kind = "login" /\ Said(i)
    /\ cookie' = calls[i].answer
    /\ session' = calls[i].answer
    /\ policyButtons' = (lastResult # NoResult)
    /\ closeLoginDialog
    /\ UNCHANGED <<left, lastResult, diagnosis>>

\* mutant: the internal part stays in the result
LogoutArrives_KeepInternal(i) ==
    /\ calls[i].kind = "logout" /\ Said(i)
    /\ cookie' = 0
    /\ session' = 0
    /\ closeReportDialog
    /\ policyButtons' = FALSE
    /\ left' = left \cup {calls[i].token}
    /\ diagnosis' = [diagnosis EXCEPT !.overtaken = diagnosis.at # "idle"]
    /\ UNCHANGED lastResult

\* whatever the cookie has become meanwhile, it goes
LogoutArrives(i) ==
    /\ calls[i].kind = "logout" /\ Said(i)
    /\ cookie' = 0
    /\ session' = 0
    /\ closeReportDialog
    /\ policyButtons' = FALSE
    /\ left' = left \cup {calls[i].token}
    /\ diagnosis' = [diagnosis EXCEPT !.overtaken = diagnosis.at # "idle"]
    /\ lastResult' = [lastResult EXCEPT !.internal = 0, !.overtaken = FALSE]

\* whichever report the dialog is about by now
ReportArrives(i) ==
    /\ calls[i].kind = "report" /\ Said(i)
    /\ closeReportDialog
    /\ UNCHANGED <<cookie, session, left, policyButtons, lastResult, diagnosis>>

\* a refusal, a lost answer, or a timeout: the page tells, and forgets who is there
\* if that was the question
CallFails(i) ==
    /\ calls[i].page = "waiting"
    /\ calls' = [calls EXCEPT ![i].page = "failed"]
    /\ session' = IF calls[i].kind = "session" THEN 0 ELSE session
    /\ UNCHANGED <<cookie, dialog, left, policyButtons, lastResult, diagnosis>>

ComesBack(i) ==
    /\ SessionArrives(i) \/ LoginArrives(i) \/ LogoutArrives(i) \/ ReportArrives(i)
       \/ CallFails(i)
    /\ UNCHANGED <<bootVars, connection, serverVars, lastSource, talkVars, clicks, surprises>>

-----------------------------------------------------------------------------
(* init: the health probe and the list of regions; the session is in calls *)

checkHealth(ok) ==
    /\ "health" \in booting
    /\ booting' = booting \ {"health"}
    /\ connection' = IF ok THEN IF provider # "offline" THEN "live" ELSE "offline"
                     ELSE IF localReady THEN "local" ELSE "disabled"
    /\ UNCHANGED regions

loadRegions(ok) ==
    /\ "regions" \in booting
    /\ booting' = booting \ {"regions"}
    /\ regions' = IF ok THEN Regions ELSE IF localReady THEN LocalRegions ELSE {}
    /\ UNCHANGED connection

Boots ==
    /\ \E ok \in BOOLEAN : checkHealth(ok) \/ loadRegions(ok)
    /\ UNCHANGED <<errand, localReady, staffVars, policyButtons, diagnosisVars, talkVars,
                   clicks, surprises>>

-----------------------------------------------------------------------------
(***************************************************************************)
(* The diagnosis.  Its button is locked from the click to the drawing; a   *)
(* form without a region the list knows is stopped at the page.            *)
(***************************************************************************)
analyze(form) ==
    /\ diagnosis.at = "idle" /\ form.region \in regions
    /\ Click("diagnose")
    /\ diagnosis' = [Resting EXCEPT !.at = IF Dials THEN "sent" ELSE "failed",
                                    !.form = form, !.cookie = cookie]
    /\ UNCHANGED <<connection, lastSource, lastResult, policyButtons>>

\* the internal part goes to whoever is logged in by the cookie
analyze_endpoint ==
    /\ diagnosis.at = "sent"
    /\ diagnosis' = [diagnosis EXCEPT
          !.at = IF diagnosis.form.region \in Regions THEN "served" ELSE "failed",
          !.internal = IF diagnosis.cookie \in alive THEN diagnosis.cookie ELSE 0]
    /\ UNCHANGED <<connection, lastSource, lastResult, policyButtons, clicks>>

Analyzed ==
    /\ diagnosis.at = "served"
    /\ diagnosis' = [diagnosis EXCEPT !.at = "drawing", !.source = "backend"]
    /\ connection' = IF connection \in {"local", "disabled"} THEN "live" ELSE connection
    /\ lastSource' = "backend"
    /\ UNCHANGED <<lastResult, policyButtons, clicks>>

LocalAnswer == localReady /\ diagnosis.form.region \in LocalRegions

\* mutant: the source of the result that was shown before is kept
FallBack_Silent ==
    /\ diagnosis.at \in {"sent", "served", "failed"}
    /\ diagnosis' = [diagnosis EXCEPT !.at = "drawing", !.internal = 0,
                                      !.source = IF LocalAnswer THEN "local" ELSE ""]
    /\ connection' = IF LocalAnswer THEN "local" ELSE "disabled"
    /\ UNCHANGED <<lastSource, lastResult, policyButtons, clicks>>

\* the request failed in whatever way, was aborted, or was not made
FallBack ==
    /\ diagnosis.at \in {"sent", "served", "failed"}
    /\ diagnosis' = [diagnosis EXCEPT !.at = "drawing", !.internal = 0,
                                      !.source = IF LocalAnswer THEN "local" ELSE ""]
    /\ connection' = IF LocalAnswer THEN "local" ELSE "disabled"
    /\ lastSource' = IF LocalAnswer THEN "local" ELSE lastSource
    /\ UNCHANGED <<lastResult, policyButtons, clicks>>

\* with nothing to draw the last result stays behind the empty page
renderAll ==
    /\ diagnosis.at = "drawing"
    /\ diagnosis' = Resting
    /\ IF diagnosis.source = "" THEN UNCHANGED <<lastResult, policyButtons>>
       ELSE /\ lastResult' = [source |-> diagnosis.source, label |-> lastSource,
                              form |-> diagnosis.form, internal |-> diagnosis.internal,
                              overtaken |-> diagnosis.overtaken]
            /\ policyButtons' = canReport
    /\ UNCHANGED <<connection, lastSource, clicks>>

\* a pill of the filter draws the policies anew
filterPolicies ==
    /\ lastResult # NoResult
    /\ policyButtons' = canReport
    /\ UNCHANGED <<connection, diagnosisVars, clicks>>

DiagnosisGoesOn == analyze_endpoint \/ Analyzed \/ FallBack \/ renderAll

Diagnose ==
    /\ (\E form \in Profiles : analyze(form)) \/ DiagnosisGoesOn \/ filterPolicies
    /\ UNCHANGED <<bootVars, staffVars, talkVars, surprises>>

-----------------------------------------------------------------------------
(***************************************************************************)
(* The conversation.  A question goes with the profile of the last result, *)
(* else with the form, which the server refuses while it is blank.         *)
(***************************************************************************)
sendChat(question, form) ==
    LET profile == IF lastResult # NoResult THEN lastResult.form ELSE form
        free == CHOOSE c \in Chats : chat[c].at = "unasked"
    IN  /\ talk.at = "idle" /\ Click("converse")
        /\ history' = Append(history, "user")
        /\ IF Dials /\ profile # NoProfile
           THEN talk' = [at |-> "sent", chat |-> free] /\ Ask(free, question, profile)
           ELSE talk' = [Quiet EXCEPT !.at = "failed"] /\ UNCHANGED chatVars

ChatArrives ==
    /\ talk.at = "sent" /\ Delivered(talk.chat)
    /\ history' = Append(history, "assistant")
    /\ talk' = Quiet
    /\ UNCHANGED clicks

\* mutant: the saved answer is shown and the request is not aborted
ChatFails_NotAborted ==
    /\ talk.at = "sent" /\ Last(history) = "user"
    /\ history' = Append(history, "assistant")
    /\ UNCHANGED <<talk, chatVars, clicks>>

ChatFails ==
    /\ talk.at = "sent"
    /\ talk' = [Quiet EXCEPT !.at = "failed"]
    /\ UNCHANGED <<history, chatVars, clicks>>

localChatReply ==
    /\ talk.at = "failed"
    /\ history' = Append(history, "assistant")
    /\ talk' = Quiet
    /\ UNCHANGED <<chatVars, clicks>>

TalkGoesOn == ChatArrives \/ ChatFails \/ localChatReply

\* the answer of a thread nobody waits for
NobodyWaits(c) == talk.chat # c \/ talk.at # "sent"

ChatThread(c) ==
    /\ ChatStep(c) \/ (NobodyWaits(c) /\ Delivered(c))
    /\ UNCHANGED <<talk, history, clicks>>

Converse ==
    /\ \/ \E question \in Questions, form \in {p \in Profiles : p.region \in regions} \cup {NoProfile} :
             sendChat(question, form)
       \/ TalkGoesOn
       \/ \E c \in Chats : ChatThread(c)
    /\ UNCHANGED <<bootVars, connection, staffVars, policyButtons, diagnosisVars, surprises>>

-----------------------------------------------------------------------------
(* What happens around the page *)

OtherLogin ==
    /\ created' = created + 1
    /\ alive' = alive \cup {created'}
    /\ cookie' = created'

OtherLogout ==
    /\ cookie \in alive
    /\ alive' = alive \ {cookie}
    /\ cookie' = 0
    /\ UNCHANGED created

SessionEnds(i) == alive' = alive \ {i} /\ UNCHANGED <<created, cookie>>

Elsewhere ==
    /\ OtherLogin \/ OtherLogout \/ (\E i \in alive : SessionEnds(i))
    /\ "staff" \in errand /\ Surprise
    /\ UNCHANGED <<bootVars, connection, session, calls, dialog, left, policyButtons,
                   diagnosisVars, talkVars, clicks>>

-----------------------------------------------------------------------------
(***************************************************************************)
(* The browser may have the cookie of a session of an earlier visit.       *)
(* Nothing of a visit without staff depends on a session, nor of one       *)
(* without conversation on the provider.                                   *)
(***************************************************************************)
Init ==
    /\ errand \in Errands
    /\ localReady \in BOOLEAN
    /\ connection = "checking" /\ booting = {"health", "regions"} /\ regions = {}
    /\ created \in IF "staff" \in errand THEN {0, 1} ELSE {0}
    /\ cookie = created /\ alive = 1..created
    /\ session = 0
    /\ calls = IF "staff" \in errand THEN <<Request("session", "")>> ELSE <<>>
    /\ policyButtons = FALSE /\ dialog = "" /\ left = {}
    /\ diagnosis = Resting /\ lastResult = NoResult /\ lastSource = ""
    /\ talk = Quiet /\ history = <<>>
    /\ ChatInit /\ ("converse" \in errand \/ provider = "offline")
    /\ clicks = 0 /\ surprises = 0

Next ==
    \/ Boots
    \/ StaffClick \/ UseDialog
    \/ \E i \in DOMAIN calls : Serve(i) \/ ComesBack(i)
    \/ Diagnose
    \/ Converse
    \/ Elsewhere

(***************************************************************************)
(* The browser's timers fire and its callbacks run; the server's threads   *)
(* go on, as each call of a provider has its timeout.                      *)
(***************************************************************************)
Spec ==
    /\ Init /\ [][Next]_vars
    /\ WF_vars(Diagnose /\ DiagnosisGoesOn)
    /\ WF_vars(Converse /\ TalkGoesOn)
    /\ \A c \in Chats : WF_vars(Converse /\ ChatThread(c))

-----------------------------------------------------------------------------
(* Properties *)

(***************************************************************************)
(* The conversation alternates, and the page is busy just while the last   *)
(* word is the user's: each question gets one answer, from the server or   *)
(* from the saved guidance and never from both, though the thread of an    *)
(* abandoned question answers later.  (sendChat.)                          *)
(***************************************************************************)
OneReplyPerQuestion ==
    /\ \A i \in DOMAIN history : history[i] = IF i % 2 = 1 THEN "user" ELSE "assistant"
    /\ talk.at # "idle" <=> Len(history) % 2 = 1

(***************************************************************************)
(* The stamp of the result on the screen names where the numbers came      *)
(* from, whatever was asked, lost and saved between.  (SPEC 6.2, no silent *)
(* fallback; analyze, sourceLabel.)                                        *)
(***************************************************************************)
SourceIsLabelled == lastResult.label = lastResult.source

(***************************************************************************)
(* What only staff may see leaves the page with the session.  The code     *)
(* allows one exception: a diagnosis the server answered before the logout *)
(* and the page draws after it shows the internal part of the ended        *)
(* session again, until the next diagnosis or logout.  It is the only one: *)
(* no diagnosis asked for after the logout has it, in this window, under a *)
(* new session, or with the cookie of another window.  (doLogout, analyze, *)
(* api_analyze.)                                                           *)
(***************************************************************************)
InternalLeavesWithTheSession == lastResult.internal \in left => lastResult.overtaken

(***************************************************************************)
(* What the page reports as done is done, in the name it showed: a report  *)
(* is filed for the session on the screen when it was sent, though other   *)
(* windows may have logged in somebody else since (the token belongs to    *)
(* the session shown, the cookie to the browser); a report it calls sent   *)
(* is stored and on the audit trail, and a session it calls ended cannot   *)
(* be used.  (create_report_endpoint, authorize, submitReport, doLogout.)  *)
(***************************************************************************)
ReportsAreTrue ==
    \A i \in DOMAIN calls :
        /\ calls[i].kind = "report" /\ calls[i].answer # 0 => calls[i].answer = calls[i].token
        /\ calls[i].page = "said" =>
            /\ calls[i].kind = "report" => calls[i].at = "served" /\ calls[i].answer # 0
            /\ calls[i].kind = "logout" => calls[i].at = "served" /\ calls[i].token \notin alive

(***************************************************************************)
(* Once the user pauses, everything he set off comes to an end: the        *)
(* buttons a diagnosis and a question lock are given back, and no thread   *)
(* of the server is left with a question, however a provider behaves.      *)
(* (analyze, sendChat; chat of agent.py never raises.)                     *)
(***************************************************************************)
AtRest ==
    /\ diagnosis.at = "idle" /\ talk.at = "idle"
    /\ \A c \in Chats : chat[c].at = "unasked"

ComesToRest == []<>AtRest
=============================================================================
