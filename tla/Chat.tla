--------------------------------- MODULE Chat ---------------------------------
(***************************************************************************)
(* The consultation of the server: chat_endpoint of main.py and the agent  *)
(* of llm/agent.py.  A live provider is asked again and again, and may     *)
(* answer with text, ask for tools, refuse, or fail; a failed attempt is   *)
(* repeated from its start, and after the last one the offline template    *)
(* answers.  Each request is served by a thread of its own.                *)
(*                                                                         *)
(* A number in an answer is the result of an engine, and an engine's       *)
(* result is named by the profile it was computed from (Analysis has the   *)
(* engines themselves).  A profile is a record of strings; in the          *)
(* arguments of a tool "" leaves a field alone.                            *)
(***************************************************************************)
EXTENDS Naturals, SequencesExt

CONSTANTS
    Chats,               \* requests to /api/chat
    Profiles,            \* what a request may carry
    Regions,             \* the region codes of the store
    Questions,           \* of each question, how many keywords of a tool it holds
    Wishes,              \* the calls a model may ask for: tool and overrides
    Environments,        \* which keys are set and which packages import
    MAX_TOOL_ITERATIONS,
    LLM_MAX_ATTEMPTS,
    MaxRound             \* bound: tools asked for in one round

Fields == {"region", "income"}

\* the tools there are, in the order in which the template prefers them
INTENT_PRIORITY == <<"compare_tco", "scan_risk", "check_eligibility", "assess_affordability">>

TOOL_NAMES == {INTENT_PRIORITY[i] : i \in 1..Len(INTENT_PRIORITY)}

ASSUME ChatAssumption ==
    /\ \A p \in Profiles \cup {w.args : w \in Wishes} : DOMAIN p = Fields
    /\ {MAX_TOOL_ITERATIONS, LLM_MAX_ATTEMPTS, MaxRound} \subseteq Nat \ {0}
    /\ "" \notin Regions
    /\ Questions \subseteq [TOOL_NAMES -> Nat]

VARIABLES
    provider,   \* what get_llm_mode returns
    chat        \* of each request, how far its thread is

chatVars == <<provider, chat>>

-----------------------------------------------------------------------------
(***************************************************************************)
(* Which provider serves.  A key whose package does not import passes the  *)
(* request on to the next.                                                 *)
(***************************************************************************)
resolve_provider(env) ==
    IF "openai_key" \in env THEN "openai"
    ELSE IF "anthropic_key" \in env THEN "anthropic"
    ELSE "offline"

get_llm_mode(env) ==
    LET first == resolve_provider(env)
        second == IF first = "openai" /\ "openai_sdk" \notin env
                  THEN resolve_provider(env \ {"openai_key"}) ELSE first
    IN  IF second = "anthropic" /\ "anthropic_sdk" \notin env THEN "offline" ELSE second

-----------------------------------------------------------------------------
(***************************************************************************)
(* The tools.  A profile whose region nobody knows is refused by the       *)
(* engines; a tool then falls back on the asker's own.                     *)
(***************************************************************************)
merge(profile, args) ==
    [k \in Fields |-> IF args[k] = "" THEN profile[k] ELSE args[k]]

Computable(profile) == profile.region \in Regions \cup {""}

\* mutant: an override the engines refuse makes the tool fail
execute_tool_NoFallback(name, args, profile) ==
    LET merged == merge(profile, args) IN
    [tool |-> name, args |-> args, of |-> merged,
     outcome |-> IF ~Computable(merged) THEN "bad_input"
                 ELSE IF name \in TOOL_NAMES THEN "computed" ELSE "unknown_tool"]

execute_tool(name, args, profile) ==
    LET merged == merge(profile, args)
        used == IF Computable(merged) THEN merged ELSE profile
    IN  [tool |-> name, args |-> args, of |-> used,
         outcome |-> IF ~Computable(used) THEN "bad_input"
                     ELSE IF name \in TOOL_NAMES THEN "computed" ELSE "unknown_tool"]

NoArgs == [k \in Fields |-> ""]

-----------------------------------------------------------------------------
(***************************************************************************)
(* Answers.  A call is listed with the attempt that made it; retried       *)
(* counts the attempts that failed before the one that answered.           *)
(***************************************************************************)
Reply(text, by, calls, retried, degraded) ==
    [text |-> text, provider |-> by, calls |-> calls, retried |-> retried,
     degradedFrom |-> degraded]

NoReply == Reply("", "", <<>>, 0, "")

\* the tool with the most hits, whichever word comes first
detect_intent(question) ==
    IF \A t \in TOOL_NAMES : question[t] = 0 THEN "assess_affordability"
    ELSE SelectSeq(INTENT_PRIORITY,
                   LAMBDA t : \A u \in TOOL_NAMES : question[u] <= question[t])[1]

offline_chat(question, profile, failed, degraded) ==
    IF Computable(profile)
    THEN Reply("template", "offline",
               <<[result |-> execute_tool(detect_intent(question), NoArgs, profile), attempt |-> failed]>>,
               failed, degraded)
    ELSE Reply("check_input", "offline", <<>>, failed, degraded)

NoProfile == NoArgs

NoQuestion == [t \in TOOL_NAMES |-> 0]

Idle == [at |-> "unasked", question |-> NoQuestion, profile |-> NoProfile, attempt |-> 0,
         iteration |-> 0, round |-> 0, calls |-> <<>>, reply |-> NoReply, logged |-> ""]

ChatInit ==
    /\ provider \in {get_llm_mode(env) : env \in Environments}
    /\ chat = [c \in Chats |-> Idle]

Ask(c, question, profile) ==
    /\ chat[c].at = "unasked"
    /\ chat' = [chat EXCEPT ![c] =
          [Idle EXCEPT !.at = "asked", !.question = question, !.profile = profile]]
    /\ UNCHANGED provider

(***************************************************************************)
(* The endpoint logs one line per request, then the answer leaves.         *)
(***************************************************************************)
Answered(c, reply) ==
    chat' = [chat EXCEPT ![c].at = "answered", ![c].reply = reply,
                         ![c].logged = IF reply.degradedFrom = "" THEN "success"
                                       ELSE "failure"]

LiveReply(c, text) == Reply(text, provider, chat[c].calls, chat[c].attempt, "")

Begin(c) ==
    /\ chat[c].at = "asked"
    /\ IF provider = "offline"
       THEN Answered(c, offline_chat(chat[c].question, chat[c].profile, 0, ""))
       ELSE chat' = [chat EXCEPT ![c].at = "live"]
    /\ UNCHANGED provider

\* the provider answers with text, or refuses as only one of them can
Text(c) ==
    /\ chat[c].at = "live" /\ chat[c].round = 0
    /\ \/ Answered(c, LiveReply(c, "text"))
       \/ provider = "anthropic" /\ Answered(c, LiveReply(c, "refusal"))
    /\ UNCHANGED provider

Called(c, w) ==
    Append(chat[c].calls, [result |-> execute_tool(w.tool, w.args, chat[c].profile),
                           attempt |-> chat[c].attempt])

\* one more tool of the same round
CallTool(c, w) ==
    /\ chat[c].at = "live"
    /\ chat[c].round + 1 < MaxRound
    /\ chat' = [chat EXCEPT ![c].calls = Called(c, w), ![c].round = @ + 1]
    /\ UNCHANGED provider

\* mutant: the loop ends only when the provider stops asking for tools
EndRound_NoCap(c, w) ==
    /\ chat[c].at = "live"
    /\ chat' = [chat EXCEPT ![c].calls = <<Last(Called(c, w))>>, ![c].round = 0]
    /\ UNCHANGED provider

(***************************************************************************)
(* The last tool of a round.  After MAX_TOOL_ITERATIONS rounds the agent   *)
(* answers itself.                                                         *)
(***************************************************************************)
EndRound(c, w) ==
    /\ chat[c].at = "live"
    /\ LET calls == Called(c, w)
           rounds == chat[c].iteration + 1
       IN  IF rounds = MAX_TOOL_ITERATIONS
           THEN Answered(c, Reply("cap", provider, calls, chat[c].attempt, ""))
           ELSE chat' = [chat EXCEPT ![c].calls = calls, ![c].iteration = rounds,
                                     ![c].round = 0]
    /\ UNCHANGED provider

\* mutant: the list of calls outlives the attempt it belongs to
AttemptFails_KeepCalls(c) ==
    /\ chat[c].at = "live"
    /\ IF chat[c].attempt + 1 = LLM_MAX_ATTEMPTS
       THEN Answered(c, offline_chat(chat[c].question, chat[c].profile,
                                    LLM_MAX_ATTEMPTS, provider))
       ELSE chat' = [chat EXCEPT ![c].attempt = @ + 1, ![c].iteration = 0,
                                 ![c].round = 0]
    /\ UNCHANGED provider

(***************************************************************************)
(* A timeout, an error status, an empty text, arguments that are no        *)
(* object: whatever raises ends the attempt.                               *)
(***************************************************************************)
AttemptFails(c) ==
    /\ chat[c].at = "live"
    /\ IF chat[c].attempt + 1 = LLM_MAX_ATTEMPTS
       THEN Answered(c, offline_chat(chat[c].question, chat[c].profile,
                                    LLM_MAX_ATTEMPTS, provider))
       ELSE chat' = [chat EXCEPT ![c].attempt = @ + 1, ![c].iteration = 0,
                                 ![c].round = 0, ![c].calls = <<>>]
    /\ UNCHANGED provider

\* the answer has left, to whoever still waits for it: the thread is over
Delivered(c) ==
    /\ chat[c].at = "answered"
    /\ chat' = [chat EXCEPT ![c] = Idle]
    /\ UNCHANGED provider

ChatStep(c) ==
    \/ Begin(c)
    \/ Text(c)
    \/ \E w \in Wishes : CallTool(c, w) \/ EndRound(c, w)
    \/ AttemptFails(c)

-----------------------------------------------------------------------------
(***************************************************************************)
(* Every number of an answer is computed for the person who asked: from    *)
(* the profile of the request with at most the overrides of that very      *)
(* call, and a tool that exists never fails on a profile the engines       *)
(* accept, whatever the model made up.  (execute_tool, agent.py.)          *)
(***************************************************************************)
ToolsSpeakOfTheAsker ==
    \A c \in Chats : LET calls == chat[c].calls \o chat[c].reply.calls IN
        \A i \in 1..Len(calls) : LET r == calls[i].result IN
            /\ Computable(chat[c].profile) /\ r.tool \in TOOL_NAMES
                 => r.outcome = "computed"
            /\ \A k \in Fields : r.of[k] \in {chat[c].profile[k], r.args[k]}

(***************************************************************************)
(* What an answer and the log say of how it came about is true: the calls  *)
(* it lists are those of the attempt that answered and of none that        *)
(* failed, though it ran its tools; the agent's own answer lists every     *)
(* round; and the log counts a failure just when a provider was to answer  *)
(* and the template did.  (chat, agent.py; chat_endpoint, main.py.)        *)
(***************************************************************************)
AnswersAreAccountedFor ==
    \A c \in Chats : chat[c].at = "answered" =>
        LET r == chat[c].reply IN
        /\ \A i \in 1..Len(r.calls) : r.calls[i].attempt = r.retried
        /\ r.text = "cap" => Len(r.calls) >= MAX_TOOL_ITERATIONS
        /\ chat[c].logged = "failure" <=> (provider # "offline" /\ r.provider = "offline")
=============================================================================
