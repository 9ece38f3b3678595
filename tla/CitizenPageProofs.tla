-------------------------- MODULE CitizenPageProofs --------------------------
(***************************************************************************)
(* Proofs about CitizenPage, for any number of clicks, windows, sessions,  *)
(* questions and providers: the conversation of the server, then the page. *)
(***************************************************************************)
EXTENDS CitizenPage, TLAPS

Providers == {"openai", "anthropic", "offline"}
Origins == Providers \cup {""}
Texts == {"", "text", "refusal", "cap", "template", "check_input"}
Tries == Nat
Forms == Profiles \cup {NoProfile}

-----------------------------------------------------------------------------
(***************************************************************************)
(* The thread of a question.  Its calls are results of execute_tool for    *)
(* the profile of the question; while it asks a provider they all belong   *)
(* to the attempt that is on, at least one to each round.                  *)
(***************************************************************************)
ResultsFor(profile) ==
    {execute_tool(w.tool, w.args, profile) : w \in Wishes}
      \cup {execute_tool(detect_intent(q), NoArgs, profile) : q \in Questions}

CallsFor(profile) == [result : ResultsFor(profile), attempt : Nat]

Replies(profile) ==
    [text : Texts,
     provider : Origins, calls : Seq(CallsFor(profile)), retried : Nat,
     degradedFrom : Origins]

Threads(profile) ==
    [at : {"unasked", "asked", "live", "answered"}, question : Questions \cup {NoQuestion},
     profile : {profile}, attempt : Nat, iteration : Nat, round : Nat,
     calls : Seq(CallsFor(profile)), reply : Replies(profile),
     logged : {"", "success", "failure"}]

Fair(r) ==
    /\ \A i \in 1 .. Len(r.calls) : r.calls[i].attempt = r.retried
    /\ r.text = "cap" => Len(r.calls) >= MAX_TOOL_ITERATIONS

ThreadOK(t) ==
    /\ \E p \in Forms : t \in Threads(p)
    /\ t.at # "unasked" => t.question \in Questions
    /\ t.at = "asked" => t.calls = <<>> /\ t.attempt = 0 /\ t.iteration = 0
    /\ t.at = "live" => /\ provider # "offline"
                        /\ Len(t.calls) >= t.iteration
                        /\ \A i \in 1 .. Len(t.calls) : t.calls[i].attempt = t.attempt
    /\ t.at = "answered" =>
         /\ Fair(t.reply)
         /\ t.logged = "failure" <=> (provider # "offline" /\ t.reply.provider = "offline")

ChatInv ==
    /\ provider \in Providers
    /\ chat \in [Chats -> UNION {Threads(p) : p \in Forms}]
    /\ \A c \in Chats : ThreadOK(chat[c])

LEMMA Modes == \A env : get_llm_mode(env) \in Providers
  BY DEF get_llm_mode, resolve_provider, Providers

LEMMA NoReplyOK == \A p : NoReply \in Replies(p) /\ <<>> \in Seq(CallsFor(p))
  BY DEF NoReply, Reply, Replies, Origins, Texts

LEMMA IdleOK == Idle \in Threads(NoProfile) /\ ThreadOK(Idle)
<1>1. Idle \in Threads(NoProfile)
  BY NoReplyOK DEF Idle, Threads
<1> QED
  BY <1>1 DEF ThreadOK, Forms, Idle

LEMMA ChatStarts == ChatInit => ChatInv
<1>1. Idle \in UNION {Threads(p) : p \in Forms}
  BY IdleOK DEF Forms
<1> QED
  BY <1>1, IdleOK, Modes DEF ChatInit, ChatInv

\* one thread moves
LEMMA ThreadMoves ==
    ASSUME ChatInv, NEW c \in Chats, NEW t, ThreadOK(t), chat' = [chat EXCEPT ![c] = t],
           provider' = provider
    PROVE  ChatInv'
<1>1. t \in UNION {Threads(p) : p \in Forms}
  BY DEF ThreadOK
<1>2. chat' \in [Chats -> UNION {Threads(p) : p \in Forms}]
  BY <1>1 DEF ChatInv
<1>3. \A d \in Chats : ThreadOK(chat[d])'
  <2> SUFFICES ASSUME NEW d \in Chats PROVE ThreadOK(chat[d])'
    OBVIOUS
  <2>1. chat'[d] = IF d = c THEN t ELSE chat[d]
    BY DEF ChatInv
  <2>2. ThreadOK(chat[d])
    BY DEF ChatInv
  <2> QED
    BY <2>1, <2>2 DEF ThreadOK, Fair
<1>4. provider' \in Providers
  BY DEF ChatInv
<1> QED
  BY <1>2, <1>3, <1>4 DEF ChatInv

LEMMA ChatStands == ASSUME ChatInv, chat' = chat, provider' = provider PROVE ChatInv'
<1>1. \A d \in Chats : ThreadOK(chat[d])'
  <2> SUFFICES ASSUME NEW d \in Chats PROVE ThreadOK(chat[d])'
    OBVIOUS
  <2>1. ThreadOK(chat[d])
    BY DEF ChatInv
  <2> QED
    BY <2>1 DEF ThreadOK, Fair
<1> QED
  BY <1>1 DEF ChatInv

LEMMA AskKeeps ==
    ASSUME ChatInv, NEW c, NEW q \in Questions, NEW p \in Forms, Ask(c, q, p) PROVE ChatInv'
<1> DEFINE t == [Idle EXCEPT !.at = "asked", !.question = q, !.profile = p]
<1>1. t \in Threads(p)
  BY NoReplyOK DEF Idle, Threads
<1>2. ThreadOK(t)
  BY <1>1 DEF ThreadOK, Idle
<1>3. chat' = [chat EXCEPT ![c] = t] /\ provider' = provider
  BY DEF Ask
<1> HIDE DEF t
<1>4. CASE c \in Chats
  BY <1>2, <1>3, <1>4, ThreadMoves
<1>5. CASE c \notin Chats
  <2>1. chat' = chat
    BY <1>3, <1>5 DEF ChatInv
  <2> QED
    BY <1>3, <2>1, ChatStands
<1> QED
  BY <1>4, <1>5

LEMMA DeliveredKeeps == ASSUME ChatInv, NEW c, Delivered(c) PROVE ChatInv'
<1>1. CASE c \in Chats
  BY <1>1, IdleOK, ThreadMoves DEF Delivered
<1>2. CASE c \notin Chats
  <2>1. chat' = chat /\ provider' = provider
    BY <1>2 DEF Delivered, ChatInv
  <2> QED
    BY <2>1, ChatStands
<1> QED
  BY <1>1, <1>2


(***************************************************************************)
(* Replies, and the thread that has one.                                   *)
(***************************************************************************)
LEMMA ThreadFacts ==
    ASSUME ChatInv, NEW c \in Chats
    PROVE  /\ chat[c] \in Threads(chat[c].profile)
           /\ chat[c].profile \in Forms
           /\ chat[c].calls \in Seq(CallsFor(chat[c].profile))
           /\ chat[c].attempt \in Nat /\ chat[c].iteration \in Nat /\ chat[c].round \in Nat
<1>1. PICK p \in Forms : chat[c] \in Threads(p)
  BY DEF ChatInv, ThreadOK
<1>2. chat[c].profile = p
  BY <1>1 DEF Threads
<1> QED
  BY <1>1, <1>2 DEF Threads

LEMMA Single ==
    ASSUME NEW S, NEW x \in S PROVE <<x>> \in Seq(S) /\ Len(<<x>>) = 1 /\ <<x>>[1] = x
<1>1. <<x>> \in Seq(S)
  OBVIOUS
<1>2. Len(<<x>>) = 1 /\ <<x>>[1] = x
  OBVIOUS
<1> QED
  BY <1>1, <1>2

LEMMA ReplyFields ==
    \A text, by, listed, retried, degraded :
        LET r == Reply(text, by, listed, retried, degraded)
        IN  /\ r.text = text /\ r.provider = by /\ r.calls = listed
            /\ r.retried = retried /\ r.degradedFrom = degraded
  BY DEF Reply

LEMMA ReplyType ==
    ASSUME NEW profile,
           NEW text \in Texts,
           NEW by \in Origins, NEW listed \in Seq(CallsFor(profile)),
           NEW retried \in Nat, NEW degraded \in Origins
    PROVE  Reply(text, by, listed, retried, degraded) \in Replies(profile)
  BY DEF Reply, Replies

LEMMA FairSingle ==
    ASSUME NEW r, NEW call, r.calls = <<call>>, call.attempt = r.retried, r.text # "cap"
    PROVE  Fair(r)
<1>1. Len(r.calls) = 1 /\ r.calls[1] = call
  OBVIOUS
<1>2. \A i \in 1 .. Len(r.calls) : i = 1
  BY <1>1
<1> QED
  BY <1>1, <1>2 DEF Fair

LEMMA FairEmpty == ASSUME NEW r, r.calls = <<>>, r.text # "cap" PROVE Fair(r)
<1>1. Len(r.calls) = 0
  OBVIOUS
<1> QED
  BY <1>1 DEF Fair

\* what offline_chat returns after n failed attempts
Template(r, question, profile, n, degraded) ==
    /\ \/ r.calls = <<>>
       \/ r.calls = <<[result |-> execute_tool(detect_intent(question), NoArgs, profile),
                      attempt |-> n]>>
    /\ r.text \in {"template", "check_input"}
    /\ r = Reply(r.text, "offline", r.calls, n, degraded)

LEMMA TemplateText ==
    \A question, profile, n, degraded :
        Template(offline_chat(question, profile, n, degraded), question, profile, n, degraded)
<1> SUFFICES ASSUME NEW question, NEW profile, NEW n, NEW degraded, NEW r,
                    r = offline_chat(question, profile, n, degraded)
             PROVE  Template(r, question, profile, n, degraded)
  OBVIOUS
<1>1. CASE Computable(profile)
  BY <1>1, ReplyFields DEF offline_chat, Template
<1>2. CASE ~Computable(profile)
  BY <1>2, ReplyFields DEF offline_chat, Template
<1> QED
  BY <1>1, <1>2

LEMMA TemplateReply ==
    ASSUME NEW profile, NEW q \in Questions, NEW n \in Tries,
           NEW degraded \in Origins,
           NEW r, Template(r, q, profile, n, degraded)
    PROVE  /\ r \in Replies(profile) /\ Fair(r)
           /\ r.provider = "offline" /\ r.degradedFrom = degraded
<1>1. PICK call : call = [result |-> execute_tool(detect_intent(q), NoArgs, profile),
                          attempt |-> n]
  OBVIOUS
<1>2. call \in CallsFor(profile) /\ call.attempt = n
  BY <1>1 DEF CallsFor, ResultsFor, Tries
<1>3. /\ r.calls = <<>> \/ r.calls = <<call>>
      /\ r.text \in {"template", "check_input"}
      /\ r = Reply(r.text, "offline", r.calls, n, degraded)
  BY <1>1 DEF Template
<1>4. r.provider = "offline" /\ r.degradedFrom = degraded /\ r.retried = n
  BY <1>3, ReplyFields
<1>5. r.calls \in Seq(CallsFor(profile))
  BY <1>2, <1>3, Single, NoReplyOK
<1>6. r \in Replies(profile)
  <2>1. "offline" \in Origins
    BY DEF Providers, Origins
  <2>2. r.text \in Texts
    BY <1>3 DEF Texts
  <2> QED
    BY <1>3, <1>5, <2>1, <2>2, ReplyType DEF Tries
<1>7. Fair(r)
  BY <1>2, <1>3, <1>4, FairSingle, FairEmpty
<1> QED
  BY <1>4, <1>6, <1>7

LEMMA AnsweredKeeps ==
    ASSUME ChatInv, NEW c \in Chats, chat[c].at # "unasked", NEW reply,
           reply \in Replies(chat[c].profile), Fair(reply),
           reply.degradedFrom # "" <=> (provider # "offline" /\ reply.provider = "offline"),
           Answered(c, reply), provider' = provider
    PROVE  ChatInv'
<1> DEFINE log == IF reply.degradedFrom = "" THEN "success" ELSE "failure"
           t == [chat[c] EXCEPT !.at = "answered", !.reply = reply, !.logged = log]
<1>1. t \in Threads(chat[c].profile) /\ chat[c].profile \in Forms
  BY ThreadFacts DEF Threads
<1>2. t.at = "answered" /\ t.reply = reply /\ t.logged = log /\ t.question = chat[c].question
  BY ThreadFacts DEF Threads
<1>3. t.question \in Questions
  BY <1>2 DEF ChatInv, ThreadOK
<1>4. chat' = [chat EXCEPT ![c] = t]
  BY DEF Answered, ChatInv
<1> HIDE DEF t
<1>5. ThreadOK(t)
  BY <1>1, <1>2, <1>3 DEF ThreadOK
<1> QED
  BY <1>4, <1>5, ThreadMoves

LEMMA LiveReplyFair ==
    ASSUME ChatInv, NEW c \in Chats, chat[c].at = "live", NEW text \in {"text", "refusal"}
    PROVE  LET r == LiveReply(c, text)
           IN  /\ r \in Replies(chat[c].profile) /\ Fair(r)
               /\ r.provider = provider /\ r.degradedFrom = "" /\ provider # "offline"
<1> DEFINE r == LiveReply(c, text)
<1>1. r.calls = chat[c].calls /\ r.retried = chat[c].attempt /\ r.text = text
      /\ r.provider = provider /\ r.degradedFrom = ""
  BY DEF LiveReply, Reply
<1>2. r \in Replies(chat[c].profile)
  BY ThreadFacts DEF LiveReply, Reply, Replies, ChatInv, Origins, Texts
<1>3. ThreadOK(chat[c])
  BY DEF ChatInv
<1> HIDE DEF r
<1>4. Fair(r) /\ provider # "offline"
  BY <1>1, <1>3 DEF Fair, ThreadOK
<1> QED
  BY <1>1, <1>2, <1>4 DEF r


(***************************************************************************)
(* The steps of a thread.                                                  *)
(***************************************************************************)
LEMMA BeginKeeps == ASSUME ChatInv, NEW c \in Chats, Begin(c) PROVE ChatInv'
<1>1. ThreadOK(chat[c]) /\ chat[c].at = "asked" /\ provider' = provider
  BY DEF Begin, ChatInv
<1>2. CASE provider = "offline"
  <2>0. PICK none, zero : none = "" /\ zero = 0
    OBVIOUS
  <2>1. PICK r : r = offline_chat(chat[c].question, chat[c].profile, zero, none)
    OBVIOUS
  <2>2. Template(r, chat[c].question, chat[c].profile, zero, none)
    BY <2>1, TemplateText
  <2>3. chat[c].question \in Questions /\ none \in Origins /\ zero \in Tries
    BY <1>1, <2>0 DEF ThreadOK, Origins, Tries
  <2>4. /\ r \in Replies(chat[c].profile) /\ Fair(r)
        /\ r.provider = "offline" /\ r.degradedFrom = none
    BY <2>2, <2>3, TemplateReply
  <2>5. Answered(c, r)
    BY <1>2, <2>0, <2>1 DEF Begin
  <2> QED
    BY <1>1, <1>2, <2>0, <2>4, <2>5, AnsweredKeeps
<1>3. CASE provider # "offline"
  <2> DEFINE t == [chat[c] EXCEPT !.at = "live"]
  <2>1. chat' = [chat EXCEPT ![c] = t]
    BY <1>3 DEF Begin, ChatInv
  <2>2. t \in Threads(chat[c].profile) /\ chat[c].profile \in Forms
    BY ThreadFacts DEF Threads
  <2>3. t.at = "live" /\ t.calls = chat[c].calls /\ t.question = chat[c].question
        /\ t.iteration = chat[c].iteration
    BY ThreadFacts DEF Threads
  <2> HIDE DEF t
  <2>4. t.calls = <<>> /\ t.iteration = 0 /\ t.question \in Questions
    BY <1>1, <2>3 DEF ThreadOK
  <2>5. Len(t.calls) = 0
    BY <2>4
  <2>6. ThreadOK(t)
    BY <1>3, <2>2, <2>3, <2>4, <2>5 DEF ThreadOK
  <2> QED
    BY <1>1, <2>1, <2>6, ThreadMoves
<1> QED
  BY <1>2, <1>3

LEMMA TextKeeps == ASSUME ChatInv, NEW c \in Chats, Text(c) PROVE ChatInv'
<1>1. PICK text \in {"text", "refusal"} : Answered(c, LiveReply(c, text))
  BY DEF Text
<1>2. chat[c].at = "live" /\ provider' = provider
  BY DEF Text
<1>3. PICK r : r = LiveReply(c, text)
  OBVIOUS
<1>4. /\ r \in Replies(chat[c].profile) /\ Fair(r)
      /\ r.provider = provider /\ r.degradedFrom = "" /\ provider # "offline"
  BY <1>2, <1>3, LiveReplyFair
<1> QED
  BY <1>1, <1>2, <1>3, <1>4, AnsweredKeeps

LEMMA AppendFacts ==
    ASSUME NEW S, NEW s \in Seq(S), NEW x \in S
    PROVE  /\ Append(s, x) \in Seq(S) /\ Len(Append(s, x)) = Len(s) + 1
           /\ Len(s) \in Nat
           /\ \A i \in 1 .. Len(Append(s, x)) :
                Append(s, x)[i] = IF i = Len(s) + 1 THEN x ELSE s[i]
           /\ \A i \in 1 .. Len(Append(s, x)) : i # Len(s) + 1 => i \in 1 .. Len(s)
  OBVIOUS

LEMMA CalledFacts ==
    ASSUME ChatInv, NEW c \in Chats, chat[c].at = "live", NEW w \in Wishes
    PROVE  /\ Called(c, w) \in Seq(CallsFor(chat[c].profile))
           /\ Len(Called(c, w)) = Len(chat[c].calls) + 1
           /\ Len(chat[c].calls) \in Nat
           /\ \A i \in 1 .. Len(Called(c, w)) : Called(c, w)[i].attempt = chat[c].attempt
<1>1. PICK call : call = [result |-> execute_tool(w.tool, w.args, chat[c].profile),
                          attempt |-> chat[c].attempt]
  OBVIOUS
<1>2. call \in CallsFor(chat[c].profile) /\ call.attempt = chat[c].attempt
  BY <1>1, ThreadFacts DEF CallsFor, ResultsFor
<1>3. Called(c, w) = Append(chat[c].calls, call)
  BY <1>1 DEF Called
<1>4. chat[c].calls \in Seq(CallsFor(chat[c].profile))
  BY ThreadFacts
<1>5. \A i \in 1 .. Len(chat[c].calls) : chat[c].calls[i].attempt = chat[c].attempt
  BY DEF ChatInv, ThreadOK
<1> QED
  BY <1>2, <1>3, <1>4, <1>5, AppendFacts

LEMMA CallToolKeeps ==
    ASSUME ChatInv, NEW c \in Chats, NEW w \in Wishes, CallTool(c, w) PROVE ChatInv'
<1> DEFINE t == [chat[c] EXCEPT !.calls = Called(c, w), !.round = chat[c].round + 1]
<1>1. chat' = [chat EXCEPT ![c] = t] /\ provider' = provider /\ chat[c].at = "live"
  BY DEF CallTool, ChatInv
<1>2. ThreadOK(chat[c])
  BY DEF ChatInv
<1>3. t \in Threads(chat[c].profile) /\ chat[c].profile \in Forms
  <2>1. Called(c, w) \in Seq(CallsFor(chat[c].profile))
    BY <1>1, CalledFacts
  <2>2. chat[c] \in Threads(chat[c].profile) /\ chat[c].round + 1 \in Nat
        /\ chat[c].profile \in Forms
    BY ThreadFacts
  <2> QED
    BY <2>1, <2>2 DEF Threads
<1>4. t.at = "live" /\ t.calls = Called(c, w) /\ t.question = chat[c].question
      /\ t.iteration = chat[c].iteration /\ t.attempt = chat[c].attempt
  BY <1>1, ThreadFacts DEF Threads
<1> HIDE DEF t
<1>5. Len(chat[c].calls) >= chat[c].iteration /\ provider # "offline" /\ t.question \in Questions
  BY <1>1, <1>2, <1>4 DEF ThreadOK
<1>6. Len(t.calls) >= t.iteration
  <2>1. Len(t.calls) = Len(chat[c].calls) + 1 /\ Len(chat[c].calls) \in Nat
    BY <1>1, <1>4, CalledFacts
  <2>2. chat[c].iteration \in Nat /\ t.iteration = chat[c].iteration
    BY <1>4, ThreadFacts
  <2> QED
    BY <1>5, <2>1, <2>2
<1>7. \A i \in 1 .. Len(t.calls) : t.calls[i].attempt = t.attempt
  BY <1>1, <1>4, CalledFacts
<1>8. ThreadOK(t)
  BY <1>3, <1>4, <1>5, <1>6, <1>7 DEF ThreadOK
<1> QED
  BY <1>1, <1>8, ThreadMoves

LEMMA EndRoundKeeps ==
    ASSUME ChatInv, NEW c \in Chats, NEW w \in Wishes, EndRound(c, w) PROVE ChatInv'
<1>1. chat[c].at = "live" /\ provider' = provider /\ ThreadOK(chat[c])
  BY DEF EndRound, ChatInv
<1>2. Len(chat[c].calls) >= chat[c].iteration /\ provider # "offline"
      /\ chat[c].question \in Questions
  BY <1>1 DEF ThreadOK
<1>3. Len(Called(c, w)) >= chat[c].iteration + 1
  <2>1. Len(Called(c, w)) = Len(chat[c].calls) + 1 /\ Len(chat[c].calls) \in Nat
    BY <1>1, CalledFacts
  <2>2. chat[c].iteration \in Nat
    BY ThreadFacts
  <2> QED
    BY <1>2, <2>1, <2>2
<1>4. CASE chat[c].iteration + 1 = MAX_TOOL_ITERATIONS
  <2>1. PICK r : r = Reply("cap", provider, Called(c, w), chat[c].attempt, "")
    OBVIOUS
  <2>2. /\ r.calls = Called(c, w) /\ r.retried = chat[c].attempt
        /\ r.provider = provider /\ r.degradedFrom = ""
    BY <2>1 DEF Reply
  <2>3. "cap" \in Texts /\ provider \in Origins /\ "" \in Origins
    BY DEF Texts, Origins, ChatInv
  <2>4. r \in Replies(chat[c].profile)
    BY <1>1, <2>1, <2>3, ThreadFacts, CalledFacts, ReplyType
  <2>5. Fair(r)
    BY <1>1, <1>3, <1>4, <2>2, CalledFacts DEF Fair
  <2>6. Answered(c, r)
    BY <1>4, <2>1 DEF EndRound
  <2> QED
    BY <1>1, <1>2, <2>2, <2>4, <2>5, <2>6, AnsweredKeeps
<1>5. CASE chat[c].iteration + 1 # MAX_TOOL_ITERATIONS
  <2> DEFINE t == [chat[c] EXCEPT !.calls = Called(c, w), !.iteration = chat[c].iteration + 1,
                                  !.round = 0]
  <2>1. chat' = [chat EXCEPT ![c] = t]
    BY <1>5 DEF EndRound, ChatInv
  <2>2. t \in Threads(chat[c].profile) /\ chat[c].profile \in Forms
    <3>1. Called(c, w) \in Seq(CallsFor(chat[c].profile))
      BY <1>1, CalledFacts
    <3>2. chat[c] \in Threads(chat[c].profile) /\ chat[c].iteration + 1 \in Nat
          /\ chat[c].profile \in Forms
      BY ThreadFacts
    <3> QED
      BY <3>1, <3>2 DEF Threads
  <2>3. t.at = "live" /\ t.calls = Called(c, w) /\ t.question = chat[c].question
        /\ t.iteration = chat[c].iteration + 1 /\ t.attempt = chat[c].attempt
    BY <1>1, ThreadFacts DEF Threads
  <2> HIDE DEF t
  <2>4. \A i \in 1 .. Len(t.calls) : t.calls[i].attempt = t.attempt
    BY <1>1, <2>3, CalledFacts
  <2>5. ThreadOK(t)
    BY <1>2, <1>3, <2>2, <2>3, <2>4 DEF ThreadOK
  <2> QED
    BY <1>1, <2>1, <2>5, ThreadMoves
<1> QED
  BY <1>4, <1>5

LEMMA AttemptKeeps == ASSUME ChatInv, NEW c \in Chats, AttemptFails(c) PROVE ChatInv'
<1>1. chat[c].at = "live" /\ provider' = provider /\ ThreadOK(chat[c])
  BY DEF AttemptFails, ChatInv
<1>2. provider # "offline" /\ chat[c].question \in Questions
  BY <1>1 DEF ThreadOK
<1>3. CASE chat[c].attempt + 1 = LLM_MAX_ATTEMPTS
  <2>0. PICK n : n = LLM_MAX_ATTEMPTS
    OBVIOUS
  <2>1. PICK r : r = offline_chat(chat[c].question, chat[c].profile, n, provider)
    OBVIOUS
  <2>2. Template(r, chat[c].question, chat[c].profile, n, provider)
    BY <2>1, TemplateText
  <2>3. provider \in Origins /\ n \in Tries
    BY <2>0, ChatAssumption DEF ChatInv, Origins, Tries
  <2>6. provider # ""
    BY DEF ChatInv, Providers
  <2>4. /\ r \in Replies(chat[c].profile) /\ Fair(r)
        /\ r.provider = "offline" /\ r.degradedFrom = provider
    BY <1>2, <2>2, <2>3, TemplateReply
  <2>5. Answered(c, r)
    BY <1>3, <2>0, <2>1 DEF AttemptFails
  <2> QED
    BY <1>1, <1>2, <2>4, <2>5, <2>6, AnsweredKeeps
<1>4. CASE chat[c].attempt + 1 # LLM_MAX_ATTEMPTS
  <2> DEFINE t == [chat[c] EXCEPT !.attempt = chat[c].attempt + 1, !.iteration = 0,
                                  !.round = 0, !.calls = <<>>]
  <2>1. chat' = [chat EXCEPT ![c] = t]
    BY <1>4 DEF AttemptFails, ChatInv
  <2>2. t \in Threads(chat[c].profile) /\ chat[c].profile \in Forms
    <3>1. chat[c] \in Threads(chat[c].profile) /\ chat[c].attempt + 1 \in Nat
          /\ chat[c].profile \in Forms
      BY ThreadFacts
    <3>2. <<>> \in Seq(CallsFor(chat[c].profile))
      OBVIOUS
    <3> QED
      BY <3>1, <3>2 DEF Threads
  <2>3. t.at = "live" /\ t.calls = <<>> /\ t.question = chat[c].question /\ t.iteration = 0
    BY <1>1, ThreadFacts DEF Threads
  <2> HIDE DEF t
  <2>4. Len(t.calls) = 0
    BY <2>3
  <2>5. ThreadOK(t)
    BY <1>2, <2>2, <2>3, <2>4 DEF ThreadOK
  <2> QED
    BY <1>1, <2>1, <2>5, ThreadMoves
<1> QED
  BY <1>3, <1>4

LEMMA ThreadKeeps ==
    ASSUME ChatInv, NEW c \in Chats, ChatStep(c) \/ Delivered(c) PROVE ChatInv'
  BY BeginKeeps, TextKeeps, CallToolKeeps, EndRoundKeeps, AttemptKeeps, DeliveredKeeps DEF ChatStep

(***************************************************************************)
(* What the invariant says of answers and tools.                           *)
(***************************************************************************)
LEMMA ToolFacts ==
    ASSUME NEW profile \in Forms, NEW r \in ResultsFor(profile)
    PROVE  /\ Computable(profile) /\ r.tool \in TOOL_NAMES => r.outcome = "computed"
           /\ \A k \in Fields : r.of[k] \in {profile[k], r.args[k]}
<1>1. PICK name, args : r = execute_tool(name, args, profile)
  BY DEF ResultsFor
<1>2. r.tool = name /\ r.args = args
  BY <1>1 DEF execute_tool
<1>3. \A k \in Fields : merge(profile, args)[k] \in {profile[k], args[k]}
  BY DEF merge
<1>4. r.of \in {merge(profile, args), profile}
  BY <1>1 DEF execute_tool
<1>5. Computable(profile) /\ name \in TOOL_NAMES => r.outcome = "computed"
  BY <1>1 DEF execute_tool
<1> QED
  BY <1>2, <1>3, <1>4, <1>5

LEMMA Elements == ASSUME NEW S, NEW s \in Seq(S), NEW i \in 1 .. Len(s) PROVE s[i] \in S
  OBVIOUS

LEMMA ToolsSpeak == ChatInv => ToolsSpeakOfTheAsker
<1> SUFFICES ASSUME ChatInv, NEW c \in Chats, NEW i \in 1 .. Len(chat[c].calls \o chat[c].reply.calls)
             PROVE  LET r == (chat[c].calls \o chat[c].reply.calls)[i].result IN
                      /\ Computable(chat[c].profile) /\ r.tool \in TOOL_NAMES
                           => r.outcome = "computed"
                      /\ \A k \in Fields : r.of[k] \in {chat[c].profile[k], r.args[k]}
  BY DEF ToolsSpeakOfTheAsker
<1>1. /\ chat[c].calls \in Seq(CallsFor(chat[c].profile)) /\ chat[c].profile \in Forms
      /\ chat[c].reply \in Replies(chat[c].profile)
  BY ThreadFacts DEF Threads
<1>2. chat[c].reply.calls \in Seq(CallsFor(chat[c].profile))
  BY <1>1 DEF Replies
<1>3. (chat[c].calls \o chat[c].reply.calls)[i] \in CallsFor(chat[c].profile)
  <2>1. PICK all : all = chat[c].calls \o chat[c].reply.calls
    OBVIOUS
  <2>2. all \in Seq(CallsFor(chat[c].profile))
    BY <1>1, <1>2, <2>1
  <2>3. i \in 1 .. Len(all)
    BY <2>1
  <2>4. all[i] \in CallsFor(chat[c].profile)
    BY <2>2, <2>3, Elements
  <2> QED
    BY <2>1, <2>4
<1>4. (chat[c].calls \o chat[c].reply.calls)[i].result \in ResultsFor(chat[c].profile)
  BY <1>3 DEF CallsFor
<1> QED
  BY <1>1, <1>4, ToolFacts

LEMMA AccountedFor == ChatInv => AnswersAreAccountedFor
  BY DEF ChatInv, ThreadOK, Fair, AnswersAreAccountedFor


-----------------------------------------------------------------------------
(***************************************************************************)
(* The page.  Types of what the steps below look at.                       *)
(***************************************************************************)
Sources == {"", "backend", "local"}
Subjects == Regions \cup LocalRegions \cup {"policy", "login", ""}

Calls == [kind : {"session", "login", "logout", "report"}, target : Subjects,
          cookie : Nat, token : Nat, at : {"sent", "filed", "served", "refused"},
          answer : Nat, page : {"waiting", "said", "failed"}]
Diagnoses == [at : {"idle", "sent", "served", "failed", "drawing"}, form : Forms,
              cookie : Nat, internal : Nat, source : Sources, overtaken : BOOLEAN]
Results == [source : Sources, label : Sources, form : Forms, internal : Nat,
            overtaken : BOOLEAN]

StaffTypes ==
    /\ cookie \in Nat /\ created \in Nat /\ session \in Nat /\ alive \subseteq 1 .. created
    /\ calls \in Seq(Calls)
    /\ dialog \in Subjects /\ regions \subseteq Regions \cup LocalRegions

DiagnosisTypes ==
    diagnosis \in Diagnoses /\ lastResult \in Results /\ lastSource \in Sources

LEMMA SessionsOnly == ASSUME StaffTypes, NEW i \in alive PROVE i \in Nat /\ i # 0
<1>1. i \in 1 .. created /\ created \in Nat
  BY DEF StaffTypes
<1> QED
  BY <1>1

LEMMA OneMore ==
    ASSUME StaffTypes
    PROVE  created + 1 \in Nat /\ alive \cup {created + 1} \subseteq 1 .. created + 1
<1>1. created \in Nat /\ alive \subseteq 1 .. created
  BY DEF StaffTypes
<1> QED
  BY <1>1

LEMMA CallsChange ==
    ASSUME StaffTypes, NEW i \in DOMAIN calls, NEW r \in Calls, calls' = [calls EXCEPT ![i] = r]
    PROVE  calls' \in Seq(Calls)
  BY DEF StaffTypes

LEMMA CallFacts ==
    ASSUME StaffTypes, NEW i \in DOMAIN calls
    PROVE  calls[i] \in Calls /\ calls \in [DOMAIN calls -> Calls]
  BY DEF StaffTypes

LEMMA AnswerTypes ==
    ASSUME StaffTypes, NEW i \in DOMAIN calls, NEW at \in {"served", "refused", "filed"},
           NEW what \in Nat, Answer(i, at, what)
    PROVE  calls' \in Seq(Calls)
<1> DEFINE r == [calls[i] EXCEPT !.at = at, !.answer = what]
<1>1. r \in Calls
  BY CallFacts DEF Calls
<1>2. calls' = [calls EXCEPT ![i] = r]
  BY CallFacts DEF Answer
<1> HIDE DEF r
<1> QED
  BY <1>1, <1>2, CallsChange

LEMMA RecordedTypes == Recorded \subseteq {"served", "refused"}
  BY DEF Recorded

LEMMA ServeTypes == ASSUME StaffTypes, NEW i \in DOMAIN calls, Serve(i) PROVE StaffTypes'
<1>1. UNCHANGED <<cookie, session, dialog, regions>>
  BY DEF Serve, bootVars
<1>2. calls[i].cookie \in Nat /\ calls[i].answer \in Nat
  BY CallFacts DEF Calls
<1>3. CASE ServeSession(i)
  <2>1. PICK what \in Nat : Answer(i, "served", what)
    BY <1>2, <1>3 DEF ServeSession
  <2>2. calls' \in Seq(Calls)
    BY <2>1, AnswerTypes
  <2> QED
    BY <1>1, <1>3, <2>2 DEF StaffTypes, ServeSession, serverVars
<1>4. CASE login_endpoint(i)
  <2>1. created' = created + 1 /\ alive' = alive \cup {created'}
    BY <1>4 DEF login_endpoint
  <2>2. created' \in Nat /\ alive' \subseteq 1 .. created'
    BY <2>1, OneMore
  <2>3. PICK at \in {"served", "refused"} : Answer(i, at, created')
    BY <1>4, RecordedTypes DEF login_endpoint
  <2>4. calls' \in Seq(Calls)
    BY <2>2, <2>3, AnswerTypes
  <2> QED
    BY <1>1, <2>2, <2>4 DEF StaffTypes
<1>5. CASE logout_endpoint(i)
  <2>1. created' = created /\ alive' \subseteq alive
    BY <1>5 DEF logout_endpoint
  <2>2. PICK at \in {"served", "refused"} : Answer(i, at, 0)
    BY <1>5, RecordedTypes DEF logout_endpoint
  <2>3. calls' \in Seq(Calls)
    BY <2>2, AnswerTypes
  <2> QED
    BY <1>1, <2>1, <2>3 DEF StaffTypes
<1>6. CASE create_report_endpoint(i)
  <2>1. PICK at \in {"filed", "refused"}, what \in Nat : Answer(i, at, what)
    BY <1>2, <1>6 DEF create_report_endpoint
  <2>2. calls' \in Seq(Calls)
    BY <2>1, AnswerTypes
  <2> QED
    BY <1>1, <1>6, <2>2 DEF StaffTypes, create_report_endpoint, serverVars
<1>7. CASE RecordReport(i)
  <2>1. PICK at \in {"served", "refused"} : Answer(i, at, calls[i].answer)
    BY <1>7, RecordedTypes DEF RecordReport
  <2>2. calls' \in Seq(Calls)
    BY <1>2, <2>1, AnswerTypes
  <2> QED
    BY <1>1, <1>7, <2>2 DEF StaffTypes, RecordReport, serverVars
<1> QED
  BY <1>3, <1>4, <1>5, <1>6, <1>7 DEF Serve

\* what changes when an answer comes back
LEMMA BackTypes ==
    ASSUME StaffTypes, NEW i \in DOMAIN calls, ComesBack(i)
    PROVE  /\ \E said \in {"said", "failed"} :
                /\ calls' = [calls EXCEPT ![i] = [calls[i] EXCEPT !.page = said]]
                /\ calls[i].page = "waiting"
                /\ said = "said" => calls[i].at = "served"
           /\ StaffTypes'
<1> DEFINE r(said) == [calls[i] EXCEPT !.page = said]
<1>1. \A said \in {"said", "failed"} : r(said) \in Calls
  BY CallFacts DEF Calls
<1>2. calls[i] \in Calls /\ calls[i].answer \in Nat /\ calls \in [DOMAIN calls -> Calls]
  BY CallFacts DEF Calls
<1>3. PICK said \in {"said", "failed"} :
         /\ calls' = [calls EXCEPT ![i] = r(said)] /\ calls[i].page = "waiting"
         /\ said = "said" => calls[i].at = "served"
  <2>1. CASE Said(i)
    BY <1>2, <2>1 DEF Said
  <2>2. CASE CallFails(i)
    BY <1>2, <2>2 DEF CallFails
  <2> QED
    BY <2>1, <2>2 DEF ComesBack, SessionArrives, LoginArrives, LogoutArrives, ReportArrives
<1> HIDE DEF r
<1>4. calls' \in Seq(Calls)
  BY <1>1, <1>3, CallsChange
<1>5. UNCHANGED <<created, alive, regions>>
  BY DEF ComesBack, bootVars, serverVars
<1>6. cookie' \in Nat /\ session' \in Nat /\ dialog' \in Subjects
  <2>1. cookie \in Nat /\ session \in Nat /\ dialog \in Subjects
    BY DEF StaffTypes
  <2>0. "" \in Subjects /\ "login" \in Subjects
    BY DEF Subjects
  <2>2. CASE SessionArrives(i) \/ LoginArrives(i)
    BY <1>2, <2>0, <2>1, <2>2 DEF SessionArrives, LoginArrives, closeLoginDialog
  <2>3. CASE LogoutArrives(i) \/ ReportArrives(i)
    <3>0. dialog' \in {"", "login"}
      BY <2>3 DEF LogoutArrives, ReportArrives, closeReportDialog
    <3>1. cookie' \in {cookie, 0} /\ session' \in {session, 0}
      BY <2>3 DEF LogoutArrives, ReportArrives
    <3>2. dialog' \in Subjects
      BY <2>0, <3>0
    <3> QED
      BY <2>1, <3>1, <3>2
  <2>4. CASE CallFails(i)
    BY <2>1, <2>4 DEF CallFails
  <2> QED
    BY <2>2, <2>3, <2>4 DEF ComesBack
<1> QED
  BY <1>3, <1>4, <1>5, <1>6 DEF StaffTypes, r


LEMMA RequestType ==
    ASSUME cookie \in Nat, session \in Nat,
           NEW kind \in {"session", "login", "logout", "report"}, NEW target \in Subjects
    PROVE  Request(kind, target) \in Calls
  BY DEF Request, Calls

LEMMA SendTypes ==
    ASSUME StaffTypes, NEW kind \in {"session", "login", "logout", "report"},
           NEW target \in Subjects
    PROVE  /\ Request(kind, target) \in Calls
           /\ Append(calls, Request(kind, target)) \in Seq(Calls)
<1>1. Request(kind, target) \in Calls
  BY RequestType DEF StaffTypes
<1> QED
  BY <1>1 DEF StaffTypes

LEMMA ClickTypes == ASSUME StaffTypes, StaffClick PROVE StaffTypes'
<1>1. UNCHANGED <<cookie, created, alive, session, dialog, regions>>
  BY DEF StaffClick, bootVars, serverVars
<1>2. "" \in Subjects /\ dialog \in Subjects
  BY DEF Subjects, StaffTypes
<1>3. calls' \in Seq(Calls)
  BY <1>2, SendTypes DEF StaffClick, doLogin, doLogout, submitReport, Send
<1> QED
  BY <1>1, <1>3 DEF StaffTypes

LEMMA StaffTypesKept == StaffTypes /\ [Next]_vars => StaffTypes'
<1> SUFFICES ASSUME StaffTypes, [Next]_vars PROVE StaffTypes'
  OBVIOUS
<1>1. ASSUME UNCHANGED staffVars, regions' \subseteq Regions \cup LocalRegions PROVE StaffTypes'
  BY <1>1 DEF StaffTypes, staffVars, serverVars
<1>2. CASE Boots
  BY <1>1, <1>2 DEF Boots, checkHealth, loadRegions, StaffTypes
<1>3. CASE Diagnose \/ Converse \/ UNCHANGED vars
  BY <1>1, <1>3 DEF Diagnose, Converse, vars, bootVars, StaffTypes
<1>4. CASE UseDialog
  <2>1. dialog' \in Subjects
    <3>1. Offered \subseteq Subjects
      BY DEF Offered, Subjects, StaffTypes
    <3>2. "" \in Subjects /\ "login" \in Subjects
      BY DEF Subjects
    <3> QED
      BY <1>4, <3>1, <3>2 DEF UseDialog, openReportDialog, openLoginDialog, CloseDialog
  <2> QED
    BY <1>4, <2>1 DEF UseDialog, StaffTypes, bootVars, serverVars
<1>5. CASE Elsewhere
  <2>1. UNCHANGED <<session, calls, dialog, regions>>
    BY <1>5 DEF Elsewhere, bootVars
  <2>2. CASE OtherLogin
    <3>1. created' \in Nat /\ alive' \subseteq 1 .. created' /\ cookie' = created'
      BY <2>2, OneMore DEF OtherLogin
    <3> QED
      BY <2>1, <3>1 DEF StaffTypes
  <2>3. CASE OtherLogout \/ \E i \in alive : SessionEnds(i)
    <3>1. created' = created /\ alive' \subseteq alive /\ cookie' \in {cookie, 0}
      BY <2>3 DEF OtherLogout, SessionEnds
    <3> QED
      BY <2>1, <3>1 DEF StaffTypes
  <2> QED
    BY <1>5, <2>2, <2>3 DEF Elsewhere
<1>6. CASE \E i \in DOMAIN calls : Serve(i) \/ ComesBack(i)
  BY <1>6, ServeTypes, BackTypes
<1>7. CASE StaffClick
  BY <1>7, ClickTypes
<1> QED
  BY <1>2, <1>3, <1>4, <1>5, <1>6, <1>7 DEF Next

LEMMA StaffStarts == Init => StaffTypes
<1> SUFFICES ASSUME Init PROVE StaffTypes
  OBVIOUS
<1>1. created \in {0, 1} /\ cookie = created /\ alive = 1 .. created /\ session = 0
  BY DEF Init
<1>2. "" \in Subjects /\ dialog = "" /\ regions = {}
  BY DEF Init, Subjects
<1>0. cookie \in Nat /\ session \in Nat /\ created \in Nat /\ alive \subseteq 1 .. created
  BY <1>1
<1>3. Request("session", "") \in Calls
  BY <1>0, <1>2, RequestType
<1>5. PICK request : request = Request("session", "")
  OBVIOUS
<1>7. <<request>> \in Seq(Calls)
  BY <1>3, <1>5, Single
<1>8. <<>> \in Seq(Calls)
  OBVIOUS
<1>4. calls \in Seq(Calls)
  BY <1>5, <1>7, <1>8 DEF Init
<1>6. dialog \in Subjects
  BY <1>2
<1> QED
  BY <1>0, <1>2, <1>4, <1>6 DEF StaffTypes

LEMMA DiagnosisStarts == Init => DiagnosisTypes
<1>1. Resting \in Diagnoses
  BY DEF Resting, Diagnoses, Sources, Forms
<1>2. NoResult \in Results
  BY DEF NoResult, Results, Sources, Forms
<1>3. "" \in Sources
  BY DEF Sources
<1> QED
  BY <1>1, <1>2, <1>3 DEF Init, DiagnosisTypes

LEMMA DiagnosisTypesKept == StaffTypes /\ DiagnosisTypes /\ [Next]_vars => DiagnosisTypes'
<1> SUFFICES ASSUME StaffTypes, DiagnosisTypes, [Next]_vars PROVE DiagnosisTypes'
  OBVIOUS
<1>0. diagnosis \in Diagnoses /\ lastResult \in Results /\ lastSource \in Sources
  BY DEF DiagnosisTypes
<1>1. ASSUME UNCHANGED diagnosisVars PROVE DiagnosisTypes'
  BY <1>1 DEF DiagnosisTypes, diagnosisVars
<1>2. CASE Boots \/ StaffClick \/ UseDialog \/ Converse \/ Elsewhere \/ UNCHANGED vars
  BY <1>1, <1>2 DEF Boots, StaffClick, UseDialog, Converse, Elsewhere, vars
<1>3. ASSUME NEW i \in DOMAIN calls, Serve(i) PROVE DiagnosisTypes'
  BY <1>1, <1>3 DEF Serve
<1>4. ASSUME NEW i \in DOMAIN calls, ComesBack(i) PROVE DiagnosisTypes'
  <2>1. lastSource' = lastSource
    BY <1>4 DEF ComesBack
  <2>2. /\ lastResult' \in {lastResult, [lastResult EXCEPT !.internal = 0, !.overtaken = FALSE]}
        /\ \/ diagnosis' = diagnosis
           \/ diagnosis' = [diagnosis EXCEPT !.overtaken = diagnosis.at # "idle"]
    BY <1>4 DEF ComesBack, SessionArrives, LoginArrives, LogoutArrives, ReportArrives, CallFails
  <2>3. /\ [lastResult EXCEPT !.internal = 0, !.overtaken = FALSE] \in Results
        /\ \A b \in BOOLEAN : [diagnosis EXCEPT !.overtaken = b] \in Diagnoses
    BY <1>0 DEF Results, Diagnoses
  <2> QED
    BY <1>0, <2>1, <2>2, <2>3 DEF DiagnosisTypes
<1>5. ASSUME NEW form \in Profiles, analyze(form) PROVE DiagnosisTypes'
  <2>1. PICK at \in {"sent", "failed"} :
           diagnosis' = [Resting EXCEPT !.at = at, !.form = form, !.cookie = cookie]
    BY <1>5 DEF analyze
  <2>2. diagnosis' \in Diagnoses
    BY <2>1 DEF Resting, Diagnoses, Forms, Sources, StaffTypes
  <2> QED
    BY <1>0, <1>5, <2>2 DEF analyze, DiagnosisTypes
<1>6. CASE analyze_endpoint
  <2>1. PICK at \in {"served", "failed"}, who \in {diagnosis.cookie, 0} :
           diagnosis' = [diagnosis EXCEPT !.at = at, !.internal = who]
    BY <1>6 DEF analyze_endpoint
  <2>3. who \in Nat
    BY <1>0 DEF Diagnoses
  <2>2. diagnosis' \in Diagnoses
    BY <1>0, <2>1, <2>3 DEF Diagnoses
  <2> QED
    BY <1>0, <1>6, <2>2 DEF analyze_endpoint, DiagnosisTypes
<1>7. CASE Analyzed
  <2>1. diagnosis' \in Diagnoses /\ "backend" \in Sources
    BY <1>0, <1>7 DEF Analyzed, Diagnoses, Sources
  <2> QED
    BY <1>0, <1>7, <2>1 DEF Analyzed, DiagnosisTypes
<1>8. CASE FallBack
  <2>1. "local" \in Sources /\ "" \in Sources
    BY DEF Sources
  <2>2. PICK from \in {"local", ""} :
           diagnosis' = [diagnosis EXCEPT !.at = "drawing", !.internal = 0, !.source = from]
    BY <1>8 DEF FallBack
  <2>3. diagnosis' \in Diagnoses
    BY <1>0, <2>1, <2>2 DEF Diagnoses
  <2> QED
    BY <1>0, <1>8, <2>1, <2>3 DEF FallBack, DiagnosisTypes
<1>9. CASE renderAll
  <2>1. Resting \in Diagnoses
    BY DEF Resting, Diagnoses, Sources, Forms
  <2>2. [source |-> diagnosis.source, label |-> lastSource, form |-> diagnosis.form,
         internal |-> diagnosis.internal, overtaken |-> diagnosis.overtaken] \in Results
    BY <1>0 DEF Results, Diagnoses
  <2>3. lastResult' \in Results
    BY <1>0, <1>9, <2>2 DEF renderAll
  <2> QED
    BY <1>0, <1>9, <2>1, <2>3 DEF renderAll, DiagnosisTypes
<1>10. CASE filterPolicies
  BY <1>1, <1>10 DEF filterPolicies
<1> QED
  BY <1>2, <1>3, <1>4, <1>5, <1>6, <1>7, <1>8, <1>9, <1>10 DEF Next, Diagnose, DiagnosisGoesOn


-----------------------------------------------------------------------------
(***************************************************************************)
(* Requests.  The token of a logout is that of a session; once the server  *)
(* has served it that session is over and cannot come back, since sessions *)
(* are never created twice; a report is filed by the session of its token, *)
(* or not at all; the page says nothing before the server is through.      *)
(***************************************************************************)
Over(token) == token \in 1 .. created /\ token \notin alive

CallOK(r) ==
    /\ r.kind = "report" =>
         /\ r.answer \in {0, r.token}
         /\ r.at \in {"filed", "served"} => r.answer = r.token /\ r.token # 0
    /\ r.kind = "logout" /\ r.at = "served" => Over(r.token)
    /\ r.kind = "logout" => r.token # 0
    /\ r.page = "said" => r.at = "served"

CallsInv == \A i \in DOMAIN calls : CallOK(calls[i])

(***************************************************************************)
(* Sessions the page has left are over.  The result and the diagnosis      *)
(* under way hold the internal part of one only if its logout overtook     *)
(* them: the server answers no later diagnosis in its name.                *)
(***************************************************************************)
LeftInv ==
    /\ \A s \in left : Over(s)
    /\ lastResult.internal \in left => lastResult.overtaken
    /\ diagnosis.internal \in left => diagnosis.overtaken
    /\ diagnosis.at = "idle" => diagnosis.internal = 0

LabelInv ==
    /\ lastResult.label = lastResult.source
    /\ diagnosis.at = "drawing" /\ diagnosis.source # "" => lastSource = diagnosis.source

TalkInv == history \in Seq({"user", "assistant"}) /\ OneReplyPerQuestion

PageInv ==
    /\ StaffTypes /\ DiagnosisTypes
    /\ CallsInv /\ LeftInv /\ LabelInv /\ TalkInv
    /\ ChatInv


LEMMA OverStays ==
    ASSUME StaffTypes, [Next]_vars, NEW s, Over(s) PROVE Over(s)'
<1>0. s \in 1 .. created /\ s \notin alive /\ created \in Nat
  BY DEF Over, StaffTypes
<1>1. ASSUME created' = created, alive' \subseteq alive PROVE Over(s)'
  BY <1>0, <1>1 DEF Over
<1>2. ASSUME created' = created + 1, alive' = alive \cup {created'} PROVE Over(s)'
  BY <1>0, <1>2 DEF Over
<1>3. CASE Boots \/ StaffClick \/ UseDialog \/ Diagnose \/ Converse \/ UNCHANGED vars
  BY <1>1, <1>3 DEF Boots, StaffClick, UseDialog, Diagnose, Converse, vars, staffVars, serverVars
<1>4. ASSUME NEW i \in DOMAIN calls, Serve(i) PROVE Over(s)'
  BY <1>1, <1>2, <1>4 DEF Serve, ServeSession, login_endpoint, logout_endpoint,
     create_report_endpoint, RecordReport, serverVars
<1>5. ASSUME NEW i \in DOMAIN calls, ComesBack(i) PROVE Over(s)'
  BY <1>1, <1>5 DEF ComesBack, serverVars
<1>6. CASE Elsewhere
  BY <1>1, <1>2, <1>6 DEF Elsewhere, OtherLogin, OtherLogout, SessionEnds
<1> QED
  BY <1>3, <1>4, <1>5, <1>6 DEF Next

LEMMA CallStays ==
    ASSUME StaffTypes, [Next]_vars, NEW r, CallOK(r) PROVE CallOK(r)'
<1>1. Over(r.token) => Over(r.token)'
  BY OverStays
<1> QED
  BY <1>1 DEF CallOK, Over

LEMMA CallsStand == ASSUME StaffTypes, CallsInv, [Next]_vars, calls' = calls PROVE CallsInv'
  BY CallStays DEF CallsInv, CallOK, Over

\* one request changes
LEMMA CallMoves ==
    ASSUME StaffTypes, CallsInv, [Next]_vars, NEW i \in DOMAIN calls, NEW r,
           CallOK(r)', calls' = [calls EXCEPT ![i] = r]
    PROVE  CallsInv'
<1> SUFFICES ASSUME NEW j \in DOMAIN calls PROVE CallOK(calls[j])'
  BY DEF CallsInv
<1>1. calls'[j] = IF j = i THEN r ELSE calls[j]
  OBVIOUS
<1>2. CallOK(calls[j])
  BY DEF CallsInv
<1>3. CASE j = i
  BY <1>1, <1>3 DEF CallOK, Over
<1>4. CASE j # i
  <2>1. PICK c : c = calls[j]
    OBVIOUS
  <2>2. CallOK(c)'
    BY <1>2, <2>1, CallStays
  <2> QED
    BY <1>1, <1>4, <2>1, <2>2 DEF CallOK, Over
<1> QED
  BY <1>3, <1>4

LEMMA AnswerMoves ==
    ASSUME StaffTypes, CallsInv, [Next]_vars, NEW i \in DOMAIN calls, NEW at, NEW what,
           Answer(i, at, what), calls[i].at # "served",
           NEW token, token = calls[i].token,
           calls[i].kind = "report" =>
             /\ what \in {0, token}
             /\ at \in {"filed", "served"} => what = token /\ what # 0,
           calls[i].kind = "logout" /\ at = "served" => Over(token)'
    PROVE  CallsInv'
<1>1. PICK r : r = [calls[i] EXCEPT !.at = at, !.answer = what]
  OBVIOUS
<1>2. r.at = at /\ r.answer = what /\ r.kind = calls[i].kind /\ r.token = token
      /\ r.page = calls[i].page
  BY <1>1, CallFacts DEF Calls
<1>3. calls' = [calls EXCEPT ![i] = r]
  BY <1>1, CallFacts DEF Answer
<1>4. CallOK(calls[i])
  BY DEF CallsInv
<1>5. r.page # "said" /\ (r.kind = "logout" => r.token # 0)
  BY <1>2, <1>4 DEF CallOK
<1>6. CallOK(r)'
  BY <1>2, <1>5 DEF CallOK, Over
<1> QED
  BY <1>3, <1>6, CallMoves

LEMMA ServeCalls ==
    ASSUME StaffTypes, CallsInv, [Next]_vars, NEW i \in DOMAIN calls, Serve(i)
    PROVE  CallsInv'
<1>1. calls[i] \in Calls /\ CallOK(calls[i])
  BY CallFacts DEF CallsInv
<1>2. CASE ServeSession(i)
  <2>1. PICK what : Answer(i, "served", what)
    BY <1>2 DEF ServeSession
  <2> QED
    BY <1>2, <2>1, AnswerMoves DEF ServeSession
<1>3. CASE login_endpoint(i)
  <2>1. PICK at : Answer(i, at, created')
    BY <1>3 DEF login_endpoint
  <2>2. PICK what : what = created'
    OBVIOUS
  <2> QED
    BY <1>3, <2>1, <2>2, AnswerMoves DEF login_endpoint
<1>4. CASE logout_endpoint(i)
  <2>1. PICK at : Answer(i, at, 0) /\ (at = "served" => authorize(calls[i]))
    BY <1>4 DEF logout_endpoint
  <2>2. PICK token : token = calls[i].token
    OBVIOUS
  <2>3. ASSUME at = "served" PROVE Over(token)'
    <3>1. calls[i].cookie = token /\ token \in alive
      BY <2>1, <2>2, <2>3 DEF authorize
    <3>2. alive' = alive \ {token} /\ created' = created
      BY <1>4, <2>1, <2>3, <3>1 DEF logout_endpoint
    <3> QED
      BY <3>1, <3>2 DEF Over, StaffTypes
  <2> QED
    BY <1>4, <2>1, <2>2, <2>3, AnswerMoves DEF logout_endpoint
<1>5. CASE create_report_endpoint(i)
  <2>1. PICK at, what :
           /\ Answer(i, at, what)
           /\ \/ what = calls[i].token /\ what # 0
              \/ at = "refused" /\ what = 0
    <3>1. CASE authorize(calls[i]) /\ calls[i].target \in Regions \cup {"policy"}
      <4>1. calls[i].cookie = calls[i].token /\ calls[i].cookie # 0
        BY <3>1, SessionsOnly DEF authorize
      <4> QED
        BY <1>5, <3>1, <4>1 DEF create_report_endpoint
    <3>2. CASE ~(authorize(calls[i]) /\ calls[i].target \in Regions \cup {"policy"})
      BY <1>5, <3>2 DEF create_report_endpoint
    <3> QED
      BY <3>1, <3>2
  <2>2. at \in {"filed", "served"} => what = calls[i].token /\ what # 0
    BY <2>1
  <2> QED
    BY <1>5, <2>1, <2>2, AnswerMoves DEF create_report_endpoint
<1>6. CASE RecordReport(i)
  <2>1. PICK at : Answer(i, at, calls[i].answer)
    BY <1>6 DEF RecordReport
  <2>2. calls[i].kind = "report" /\ calls[i].at = "filed"
    BY <1>6 DEF RecordReport
  <2>3. calls[i].answer = calls[i].token /\ calls[i].answer # 0
    BY <1>1, <2>2 DEF CallOK
  <2> QED
    BY <2>1, <2>2, <2>3, AnswerMoves
<1> QED
  BY <1>2, <1>3, <1>4, <1>5, <1>6 DEF Serve

LEMMA BackCalls ==
    ASSUME StaffTypes, CallsInv, [Next]_vars, NEW i \in DOMAIN calls, ComesBack(i)
    PROVE  CallsInv'
<1>1. PICK said \in {"said", "failed"} :
         /\ calls' = [calls EXCEPT ![i] = [calls[i] EXCEPT !.page = said]]
         /\ said = "said" => calls[i].at = "served"
  BY BackTypes
<1>2. PICK r : r = [calls[i] EXCEPT !.page = said]
  OBVIOUS
<1>3. r.at = calls[i].at /\ r.answer = calls[i].answer /\ r.kind = calls[i].kind
      /\ r.token = calls[i].token /\ r.page = said
  BY <1>2, CallFacts DEF Calls
<1>4. CallOK(calls[i])
  BY DEF CallsInv
<1>5. CallOK(r)
  BY <1>1, <1>3, <1>4 DEF CallOK
<1>6. CallOK(r)'
  BY <1>5, CallStays
<1> QED
  BY <1>1, <1>2, <1>6, CallMoves

LEMMA ClickCalls ==
    ASSUME StaffTypes, CallsInv, [Next]_vars, StaffClick PROVE CallsInv'
<1> DEFINE Leaves(kind, target) == /\ calls' = Append(calls, Request(kind, target))
                                   /\ kind = "logout" => session # 0
<1>1. PICK kind, target : Leaves(kind, target)
  <2>1. CASE doLogin
    <3>1. PICK kind, target : kind = "login" /\ target = ""
      OBVIOUS
    <3>2. calls' = Append(calls, Request(kind, target)) /\ kind # "logout"
      BY <2>1, <3>1 DEF doLogin, Send
    <3> QED
      BY <3>2
  <2>2. CASE doLogout
    BY <2>2 DEF doLogout, Send
  <2>3. CASE submitReport
    <3>1. PICK kind : kind = "report"
      OBVIOUS
    <3>2. calls' = Append(calls, Request(kind, dialog)) /\ kind # "logout"
      BY <2>3, <3>1 DEF submitReport, Send
    <3> QED
      BY <3>2
  <2> QED
    BY <2>1, <2>2, <2>3 DEF StaffClick
<1>2. PICK r : r = Request(kind, target)
  OBVIOUS
<1>3. /\ r.at = "sent" /\ r.page = "waiting" /\ r.answer = 0
      /\ r.kind = kind /\ r.token = session
  BY <1>2 DEF Request
<1>4. CallOK(r)
  BY <1>1, <1>3 DEF CallOK
<1>5. CallOK(r)'
  BY <1>4, CallStays
<1> SUFFICES ASSUME NEW j \in DOMAIN calls' PROVE CallOK(calls[j])'
  BY DEF CallsInv
<1>6. calls'[j] = r \/ (j \in DOMAIN calls /\ calls'[j] = calls[j])
  BY <1>1, <1>2 DEF StaffTypes
<1>7. CASE calls'[j] = r
  BY <1>5, <1>7 DEF CallOK, Over
<1>8. CASE j \in DOMAIN calls /\ calls'[j] = calls[j]
  <2>1. PICK c : c = calls[j]
    OBVIOUS
  <2>2. CallOK(c)'
    BY <1>8, <2>1, CallStays DEF CallsInv
  <2> QED
    BY <1>8, <2>1, <2>2 DEF CallOK, Over
<1> QED
  BY <1>6, <1>7, <1>8

LEMMA CallsKept == StaffTypes /\ CallsInv /\ [Next]_vars => CallsInv'
<1> SUFFICES ASSUME StaffTypes, CallsInv, [Next]_vars PROVE CallsInv'
  OBVIOUS
<1>1. CASE Boots \/ UseDialog \/ Diagnose \/ Converse \/ Elsewhere \/ UNCHANGED vars
  BY <1>1, CallsStand DEF Boots, UseDialog, Diagnose, Converse, Elsewhere, vars, staffVars
<1> QED
  BY <1>1, ClickCalls, ServeCalls, BackCalls DEF Next

LEMMA CallsStart == Init => CallsInv
<1> SUFFICES ASSUME Init, NEW i \in DOMAIN calls PROVE CallOK(calls[i])
  BY DEF CallsInv
<1>1. PICK r : r = Request("session", "")
  OBVIOUS
<1>2. calls = <<r>> \/ calls = <<>>
  BY <1>1 DEF Init
<1>3. calls[i] = r
  BY <1>2
<1>4. r.kind = "session" /\ r.page = "waiting"
  BY <1>1 DEF Request
<1> QED
  BY <1>3, <1>4 DEF CallOK


\* no session is numbered 0, so 0 is never one that was left
LEMMA NobodyLeft == ASSUME StaffTypes, LeftInv PROVE 0 \notin left
<1>1. \A s : Over(s) => s # 0
  BY DEF Over, StaffTypes
<1> QED
  BY <1>1 DEF LeftInv

LEMMA LeftStands ==
    ASSUME StaffTypes, LeftInv, [Next]_vars, left' = left PROVE \A s \in left' : Over(s)'
<1> SUFFICES ASSUME NEW s \in left PROVE Over(s)'
  BY DEF Over
<1> QED
  BY OverStays DEF LeftInv

LEMMA Drawn ==
    ASSUME renderAll
    PROVE  \/ lastResult' = lastResult
           \/ /\ diagnosis.source # ""
              /\ lastResult'.source = diagnosis.source /\ lastResult'.label = lastSource
              /\ lastResult'.internal = diagnosis.internal
              /\ lastResult'.overtaken = diagnosis.overtaken
<1>1. CASE diagnosis.source = ""
  BY <1>1 DEF renderAll
<1>2. CASE diagnosis.source # ""
  <2>1. lastResult' = [source |-> diagnosis.source, label |-> lastSource,
                       form |-> diagnosis.form, internal |-> diagnosis.internal,
                       overtaken |-> diagnosis.overtaken]
    BY <1>2 DEF renderAll
  <2>2. lastResult'.source = diagnosis.source /\ lastResult'.label = lastSource
        /\ lastResult'.internal = diagnosis.internal
        /\ lastResult'.overtaken = diagnosis.overtaken
    BY <2>1
  <2> QED
    BY <1>2, <2>2
<1> QED
  BY <1>1, <1>2

LEMMA LeftKept == StaffTypes /\ DiagnosisTypes /\ CallsInv /\ LeftInv /\ [Next]_vars => LeftInv'
<1> SUFFICES ASSUME StaffTypes, DiagnosisTypes, CallsInv, LeftInv, [Next]_vars PROVE LeftInv'
  OBVIOUS
<1>0. diagnosis \in Diagnoses /\ lastResult \in Results
  BY DEF DiagnosisTypes
<1>1. /\ lastResult.internal \in left => lastResult.overtaken
      /\ diagnosis.internal \in left => diagnosis.overtaken
      /\ diagnosis.at = "idle" => diagnosis.internal = 0
  BY DEF LeftInv
<1>2. ASSUME left' = left,
             \/ UNCHANGED lastResult
             \/ /\ lastResult'.internal = diagnosis.internal
                /\ lastResult'.overtaken = diagnosis.overtaken,
             \/ UNCHANGED diagnosis
             \/ diagnosis'.internal = 0
             \/ /\ diagnosis'.internal = diagnosis.internal
                /\ diagnosis'.overtaken = diagnosis.overtaken
                /\ diagnosis'.at # "idle"
      PROVE  LeftInv'
  <2>1. \A s \in left' : Over(s)'
    BY <1>2, LeftStands
  <2>2. /\ lastResult'.internal \in left' => lastResult'.overtaken
        /\ diagnosis'.internal \in left' => diagnosis'.overtaken
    BY <1>1, <1>2, NobodyLeft
  <2>3. diagnosis'.at = "idle" => diagnosis'.internal = 0
    BY <1>1, <1>2
  <2> QED
    BY <2>1, <2>2, <2>3 DEF LeftInv, Over
<1>3. CASE Boots \/ StaffClick \/ UseDialog \/ Converse \/ Elsewhere \/ UNCHANGED vars
  BY <1>2, <1>3 DEF Boots, StaffClick, UseDialog, Converse, Elsewhere, vars, staffVars,
     diagnosisVars
<1>4. ASSUME NEW i \in DOMAIN calls, Serve(i) PROVE LeftInv'
  BY <1>2, <1>4 DEF Serve, diagnosisVars
<1>5. ASSUME NEW i \in DOMAIN calls, ComesBack(i) PROVE LeftInv'
  <2>2. CASE SessionArrives(i) \/ LoginArrives(i) \/ ReportArrives(i) \/ CallFails(i)
    BY <1>2, <2>2 DEF SessionArrives, LoginArrives, ReportArrives, CallFails
  <2>3. CASE LogoutArrives(i)
    <3>1. lastResult'.internal = 0
      BY <1>0, <2>3 DEF LogoutArrives, Results
    <3>2. /\ diagnosis'.internal = diagnosis.internal /\ diagnosis'.at = diagnosis.at
          /\ diagnosis'.overtaken <=> diagnosis.at # "idle"
      <4>1. diagnosis' = [diagnosis EXCEPT !.overtaken = diagnosis.at # "idle"]
        BY <2>3 DEF LogoutArrives
      <4> QED
        BY <1>0, <4>1 DEF Diagnoses
    <3>3. PICK token : token = calls[i].token
      OBVIOUS
    <3>4. calls[i].kind = "logout" /\ calls[i].at = "served"
      BY <2>3 DEF LogoutArrives, Said
    <3>5. Over(token) /\ token # 0
      BY <3>3, <3>4 DEF CallsInv, CallOK
    <3>6. Over(token)'
      BY <3>5, OverStays
    <3>7. \A s \in left : Over(s)'
      <4> SUFFICES ASSUME NEW s \in left PROVE Over(s)'
        OBVIOUS
      <4> QED
        BY OverStays DEF LeftInv
    <3>8. left' = left \cup {token}
      BY <2>3, <3>3 DEF LogoutArrives
    <3>9. 0 \notin left'
      BY <3>5, <3>8, NobodyLeft
    <3>10. \A s \in left' : Over(s)'
      BY <3>6, <3>7, <3>8
    <3>11. diagnosis'.internal \in left' => diagnosis'.overtaken
      BY <1>1, <3>2, <3>9
    <3>12. diagnosis'.at = "idle" => diagnosis'.internal = 0
      BY <1>1, <3>2
    <3> QED
      BY <3>1, <3>9, <3>10, <3>11, <3>12 DEF LeftInv, Over
  <2> QED
    BY <1>5, <2>2, <2>3 DEF ComesBack
<1>6. CASE Diagnose
  <2>0. left' = left
    BY <1>6 DEF Diagnose, staffVars
  <2>1. ASSUME NEW form \in Profiles, analyze(form) PROVE LeftInv'
    <3>1. diagnosis'.internal = 0 /\ lastResult' = lastResult
      BY <2>1 DEF analyze, Resting
    <3>2. diagnosis'.at # "idle"
      BY <2>1 DEF analyze, Resting
    <3> QED
      BY <1>2, <2>0, <3>1, <3>2
  <2>2. CASE analyze_endpoint
    <3>1. diagnosis'.internal = IF diagnosis.cookie \in alive THEN diagnosis.cookie ELSE 0
      BY <1>0, <2>2 DEF analyze_endpoint, Diagnoses
    <3>2. diagnosis'.at # "idle" /\ lastResult' = lastResult
      BY <1>0, <2>2 DEF analyze_endpoint, Diagnoses
    <3>3. diagnosis'.internal \notin left
      BY <3>1, NobodyLeft DEF LeftInv, Over
    <3>4. \A s \in left' : Over(s)'
      BY <2>0, LeftStands
    <3> QED
      BY <1>1, <2>0, <3>2, <3>3, <3>4 DEF LeftInv, Over
  <2>3. CASE Analyzed \/ FallBack
    <3>1. /\ \/ diagnosis'.internal = 0
             \/ /\ diagnosis'.internal = diagnosis.internal
                /\ diagnosis'.overtaken = diagnosis.overtaken
          /\ lastResult' = lastResult
      BY <1>0, <2>3 DEF Analyzed, FallBack, Diagnoses
    <3>2. diagnosis'.at # "idle"
      BY <1>0, <2>3 DEF Analyzed, FallBack, Diagnoses
    <3> QED
      BY <1>2, <2>0, <3>1, <3>2
  <2>4. CASE renderAll
    <3>1. diagnosis'.internal = 0
      BY <2>4 DEF renderAll, Resting
    <3>2. \/ lastResult' = lastResult
          \/ /\ lastResult'.internal = diagnosis.internal
             /\ lastResult'.overtaken = diagnosis.overtaken
      BY <2>4, Drawn
    <3> QED
      BY <1>2, <2>0, <3>1, <3>2
  <2>5. CASE filterPolicies
    BY <1>2, <2>0, <2>5 DEF filterPolicies, diagnosisVars
  <2> QED
    BY <1>6, <2>1, <2>2, <2>3, <2>4, <2>5 DEF Diagnose, DiagnosisGoesOn
<1> QED
  BY <1>3, <1>4, <1>5, <1>6 DEF Next

LEMMA LeftStarts == Init => LeftInv
<1>1. Resting.internal = 0
  BY DEF Resting
<1> QED
  BY <1>1 DEF Init, LeftInv

LEMMA LabelKept == DiagnosisTypes /\ LabelInv /\ [Next]_vars => LabelInv'
<1> SUFFICES ASSUME DiagnosisTypes, LabelInv, [Next]_vars PROVE LabelInv'
  OBVIOUS
<1>0. diagnosis \in Diagnoses /\ lastResult \in Results
  BY DEF DiagnosisTypes
<1>1. ASSUME lastSource' = lastSource,
             lastResult' \in {lastResult, [lastResult EXCEPT !.internal = 0, !.overtaken = FALSE]},
             \/ diagnosis' = diagnosis
             \/ diagnosis' = [diagnosis EXCEPT !.overtaken = diagnosis.at # "idle"]
      PROVE  LabelInv'
  <2>1. lastResult'.label = lastResult.label /\ lastResult'.source = lastResult.source
    BY <1>0, <1>1 DEF Results
  <2>2. diagnosis'.at = diagnosis.at /\ diagnosis'.source = diagnosis.source
    BY <1>0, <1>1 DEF Diagnoses
  <2> QED
    BY <1>1, <2>1, <2>2 DEF LabelInv
<1>2. CASE Boots \/ StaffClick \/ UseDialog \/ Converse \/ Elsewhere \/ UNCHANGED vars
  BY <1>1, <1>2 DEF Boots, StaffClick, UseDialog, Converse, Elsewhere, vars, diagnosisVars
<1>3. ASSUME NEW i \in DOMAIN calls, Serve(i) PROVE LabelInv'
  BY <1>1, <1>3 DEF Serve, diagnosisVars
<1>4. ASSUME NEW i \in DOMAIN calls, ComesBack(i) PROVE LabelInv'
  BY <1>1, <1>4 DEF ComesBack, SessionArrives, LoginArrives, LogoutArrives, ReportArrives, CallFails
<1>5. CASE Diagnose
  <2>1. CASE (\E form \in Profiles : analyze(form)) \/ analyze_endpoint
    <3>1. diagnosis'.at # "drawing" /\ lastResult' = lastResult
      BY <1>0, <2>1 DEF analyze, analyze_endpoint, Diagnoses, Resting
    <3> QED
      BY <3>1 DEF LabelInv
  <2>2. CASE Analyzed
    BY <1>0, <2>2 DEF Analyzed, Diagnoses, LabelInv
  <2>3. CASE FallBack
    BY <1>0, <2>3 DEF FallBack, Diagnoses, LabelInv
  <2>4. CASE renderAll
    <3>1. diagnosis'.at = "idle"
      BY <2>4 DEF renderAll, Resting
    <3>2. lastResult'.label = lastResult'.source
      BY <2>4, Drawn DEF LabelInv, renderAll
    <3> QED
      BY <3>1, <3>2 DEF LabelInv
  <2>5. CASE filterPolicies
    BY <1>1, <2>5 DEF filterPolicies, diagnosisVars
  <2> QED
    BY <1>5, <2>1, <2>2, <2>3, <2>4, <2>5 DEF Diagnose, DiagnosisGoesOn
<1> QED
  BY <1>2, <1>3, <1>4, <1>5 DEF Next

LEMMA LabelStarts == Init => LabelInv
<1>1. NoResult.label = NoResult.source
  BY DEF NoResult
<1>2. Resting.at # "drawing"
  BY DEF Resting
<1> QED
  BY <1>1, <1>2 DEF Init, LabelInv


-----------------------------------------------------------------------------
(***************************************************************************)
(* The conversation.                                                       *)
(***************************************************************************)
Speaks(i) == IF i % 2 = 1 THEN "user" ELSE "assistant"

Alternates(h) == \A i \in 1 .. Len(h) : h[i] = Speaks(i)

Roles == {"user", "assistant"}

LEMMA TalkParts ==
    TalkInv <=> /\ history \in Seq(Roles) /\ Alternates(history)
                /\ talk.at # "idle" <=> Len(history) % 2 = 1
<1>1. history \in Seq(Roles) => DOMAIN history = 1 .. Len(history)
  OBVIOUS
<1> QED
  BY <1>1 DEF TalkInv, OneReplyPerQuestion, Alternates, Speaks, Roles

LEMMA Parity == \A n \in Nat : (n + 1) % 2 = 1 <=> n % 2 # 1
  OBVIOUS

\* one more word, by whoever it is up to
LEMMA NextWord ==
    ASSUME NEW h \in Seq(Roles), Alternates(h), NEW word \in Roles, word = Speaks(Len(h) + 1)
    PROVE  /\ Append(h, word) \in Seq(Roles) /\ Alternates(Append(h, word))
           /\ Len(Append(h, word)) % 2 = 1 <=> Len(h) % 2 # 1
<1> DEFINE g == Append(h, word)
<1>1. /\ g \in Seq(Roles) /\ Len(g) = Len(h) + 1 /\ Len(h) \in Nat
      /\ \A i \in 1 .. Len(g) : g[i] = IF i = Len(h) + 1 THEN word ELSE h[i]
      /\ \A i \in 1 .. Len(g) : i # Len(h) + 1 => i \in 1 .. Len(h)
  BY AppendFacts
<1> HIDE DEF g
<1>2. Alternates(g)
  BY <1>1 DEF Alternates
<1>3. Len(g) % 2 = 1 <=> Len(h) % 2 # 1
  BY <1>1, Parity
<1> QED
  BY <1>1, <1>2, <1>3 DEF g

LEMMA SpeaksNext ==
    ASSUME NEW n \in Nat
    PROVE  /\ n % 2 # 1 => Speaks(n + 1) = "user"
           /\ n % 2 = 1 => Speaks(n + 1) = "assistant"
<1>1. (n + 1) % 2 = 1 <=> n % 2 # 1
  BY Parity
<1> QED
  BY <1>1 DEF Speaks

LEMMA LenNat == ASSUME NEW S, NEW s \in Seq(S) PROVE Len(s) \in Nat
  OBVIOUS

\* the user asks, which he can while the page is at rest
LEMMA Asked ==
    ASSUME TalkInv, talk.at = "idle", history' = Append(history, "user"), talk'.at # "idle"
    PROVE  TalkInv'
<1>1. history \in Seq(Roles) /\ Alternates(history) /\ Len(history) % 2 # 1
  BY TalkParts
<1>2. PICK word : word = "user"
  OBVIOUS
<1>3. word \in Roles
  BY <1>2 DEF Roles
<1>4. word = Speaks(Len(history) + 1)
  BY <1>1, <1>2, SpeaksNext, LenNat
<1>5. /\ history' \in Seq(Roles) /\ Alternates(history')
      /\ Len(history') % 2 = 1
  BY <1>1, <1>2, <1>3, <1>4, NextWord
<1>6. DOMAIN history' = 1 .. Len(history')
  BY <1>5
<1> QED
  BY <1>5, <1>6 DEF TalkInv, OneReplyPerQuestion, Alternates, Speaks, Roles

LEMMA Replied ==
    ASSUME TalkInv, talk.at # "idle", history' = Append(history, "assistant"), talk'.at = "idle"
    PROVE  TalkInv'
<1>1. history \in Seq(Roles) /\ Alternates(history) /\ Len(history) % 2 = 1
  BY TalkParts
<1>2. PICK word : word = "assistant"
  OBVIOUS
<1>3. word \in Roles
  BY <1>2 DEF Roles
<1>4. word = Speaks(Len(history) + 1)
  BY <1>1, <1>2, SpeaksNext, LenNat
<1>5. /\ history' \in Seq(Roles) /\ Alternates(history')
      /\ Len(history') % 2 # 1
  BY <1>1, <1>2, <1>3, <1>4, NextWord
<1>6. DOMAIN history' = 1 .. Len(history')
  BY <1>5
<1> QED
  BY <1>5, <1>6 DEF TalkInv, OneReplyPerQuestion, Alternates, Speaks, Roles

LEMMA SendParts ==
    ASSUME NEW question, NEW form, sendChat(question, form)
    PROVE  /\ talk.at = "idle" /\ history' = Append(history, "user") /\ talk'.at # "idle"
           /\ \/ UNCHANGED chatVars
              \/ \E c : \E profile \in {lastResult.form, form} : Ask(c, question, profile)
<1>1. talk.at = "idle" /\ history' = Append(history, "user")
  BY DEF sendChat
<1>2. PICK profile : profile = IF lastResult # NoResult THEN lastResult.form ELSE form
  OBVIOUS
<1>3. PICK free : free = CHOOSE c \in Chats : chat[c].at = "unasked"
  OBVIOUS
<1>4. CASE talk' = [at |-> "sent", chat |-> free] /\ Ask(free, question, profile)
  <2>1. talk'.at # "idle"
    BY <1>4
  <2>2. profile \in {lastResult.form, form}
    BY <1>2
  <2>3. Ask(free, question, profile)
    BY <1>4
  <2> QED
    BY <1>1, <2>1, <2>2, <2>3
<1>5. CASE talk' = [Quiet EXCEPT !.at = "failed"] /\ UNCHANGED chatVars
  <2>1. talk'.at = "failed"
    BY <1>5 DEF Quiet
  <2> QED
    BY <1>1, <1>5, <2>1
<1> QED
  BY <1>2, <1>3, <1>4, <1>5 DEF sendChat

LEMMA TalkKept == TalkInv /\ [Next]_vars => TalkInv'
<1> SUFFICES ASSUME TalkInv, [Next]_vars PROVE TalkInv'
  OBVIOUS
<1>0. Quiet.at = "idle" /\ [Quiet EXCEPT !.at = "failed"].at # "idle"
  BY DEF Quiet
<1>1. ASSUME history' = history, talk'.at # "idle" <=> talk.at # "idle" PROVE TalkInv'
  BY <1>1 DEF TalkInv, OneReplyPerQuestion
<1>2. ASSUME UNCHANGED talkVars PROVE TalkInv'
  BY <1>1, <1>2 DEF talkVars
<1>3. CASE Boots \/ StaffClick \/ UseDialog \/ Diagnose \/ Elsewhere \/ UNCHANGED vars
  BY <1>2, <1>3 DEF Boots, StaffClick, UseDialog, Diagnose, Elsewhere, vars
<1>4. ASSUME NEW i \in DOMAIN calls, Serve(i) \/ ComesBack(i) PROVE TalkInv'
  BY <1>2, <1>4 DEF Serve, ComesBack
<1>5. ASSUME NEW question, NEW form, sendChat(question, form) PROVE TalkInv'
  BY <1>5, SendParts, Asked
<1>6. CASE ChatArrives \/ localChatReply
  BY <1>0, <1>6, Replied DEF ChatArrives, localChatReply
<1>7. CASE ChatFails
  BY <1>0, <1>1, <1>7 DEF ChatFails
<1>8. ASSUME NEW c \in Chats, ChatThread(c) PROVE TalkInv'
  BY <1>1, <1>8 DEF ChatThread
<1> QED
  BY <1>3, <1>4, <1>5, <1>6, <1>7, <1>8 DEF Next, Converse, TalkGoesOn

LEMMA TalkStarts == Init => TalkInv
<1> SUFFICES ASSUME Init PROVE TalkInv
  OBVIOUS
<1>1. Quiet.at = "idle"
  BY DEF Quiet
<1>2. history = <<>> /\ talk.at = "idle"
  BY <1>1 DEF Init
<1>3. history \in Seq(Roles) /\ Len(history) = 0 /\ 0 % 2 # 1
  BY <1>2
<1>4. Alternates(history)
  BY <1>3 DEF Alternates
<1> QED
  BY <1>2, <1>3, <1>4, TalkParts

LEMMA ChatKept == DiagnosisTypes /\ ChatInv /\ [Next]_vars => ChatInv'
<1> SUFFICES ASSUME DiagnosisTypes, ChatInv, [Next]_vars PROVE ChatInv'
  OBVIOUS
<1>1. ASSUME UNCHANGED chatVars PROVE ChatInv'
  BY <1>1, ChatStands DEF chatVars
<1>2. CASE Boots \/ StaffClick \/ UseDialog \/ Diagnose \/ Elsewhere \/ UNCHANGED vars
  BY <1>1, <1>2 DEF Boots, StaffClick, UseDialog, Diagnose, Elsewhere, vars, talkVars
<1>3. ASSUME NEW i \in DOMAIN calls, Serve(i) \/ ComesBack(i) PROVE ChatInv'
  BY <1>1, <1>3 DEF Serve, ComesBack, talkVars
<1>4. ASSUME NEW question \in Questions, NEW form \in Forms, sendChat(question, form)
      PROVE  ChatInv'
  <2>1. UNCHANGED chatVars \/ \E c : \E profile \in Forms : Ask(c, question, profile)
    <3>1. lastResult.form \in Forms
      BY DEF DiagnosisTypes, Results
    <3> QED
      BY <1>4, <3>1, SendParts
  <2> QED
    BY <1>1, <2>1, AskKeeps
<1>5. CASE TalkGoesOn
  BY <1>1, <1>5, DeliveredKeeps DEF TalkGoesOn, ChatArrives, ChatFails, localChatReply
<1>6. ASSUME NEW c \in Chats, ChatThread(c) PROVE ChatInv'
  BY <1>6, ThreadKeeps, DeliveredKeeps DEF ChatThread
<1>7. CASE Converse
  <2>1. {p \in Profiles : p.region \in regions} \cup {NoProfile} \subseteq Forms
    BY DEF Forms
  <2> QED
    BY <1>4, <1>5, <1>6, <1>7, <2>1 DEF Converse
<1> QED
  BY <1>2, <1>3, <1>7 DEF Next


-----------------------------------------------------------------------------
LEMMA PageInvariance == Spec => []PageInv
<1>1. Init => PageInv
  BY StaffStarts, DiagnosisStarts, CallsStart, LeftStarts, LabelStarts, TalkStarts, ChatStarts
     DEF PageInv, Init
<1>2. PageInv /\ [Next]_vars => PageInv'
  BY StaffTypesKept, DiagnosisTypesKept, CallsKept, LeftKept, LabelKept, TalkKept, ChatKept
     DEF PageInv
<1> QED
  BY <1>1, <1>2, PTL DEF Spec

(***************************************************************************)
(* Each question gets one answer and the conversation alternates, with any *)
(* number of clicks and abandoned threads.  (sendChat.)                    *)
(***************************************************************************)
THEOREM OneReply == Spec => []OneReplyPerQuestion
<1>1. PageInv => OneReplyPerQuestion
  BY DEF PageInv, TalkInv
<1> QED
  BY <1>1, PageInvariance, PTL

(***************************************************************************)
(* The stamp under the result names where its numbers came from.           *)
(* (analyze, sourceLabel.)                                                 *)
(***************************************************************************)
THEOREM Labelled == Spec => []SourceIsLabelled
<1>1. PageInv => SourceIsLabelled
  BY DEF PageInv, LabelInv, SourceIsLabelled
<1> QED
  BY <1>1, PageInvariance, PTL

(***************************************************************************)
(* A result on the page holds the internal part of a session this page has *)
(* ended only if that diagnosis was on its way when a logout came back:    *)
(* the server is through with the session, and answers no later diagnosis  *)
(* in its name.  (doLogout, api_analyze.)                                  *)
(***************************************************************************)
THEOREM InternalLeaves == Spec => []InternalLeavesWithTheSession
<1>1. PageInv => InternalLeavesWithTheSession
  BY DEF PageInv, LeftInv, InternalLeavesWithTheSession
<1> QED
  BY <1>1, PageInvariance, PTL

(***************************************************************************)
(* What the page reports as done is done, and in the name it showed,       *)
(* whatever other windows do.  (create_report_endpoint, authorize.)        *)
(***************************************************************************)
THEOREM ReportsHold == Spec => []ReportsAreTrue
<1>1. PageInv => ReportsAreTrue
  <2> SUFFICES ASSUME PageInv, NEW i \in DOMAIN calls
               PROVE  /\ calls[i].kind = "report" /\ calls[i].answer # 0
                           => calls[i].answer = calls[i].token
                      /\ calls[i].page = "said" =>
                           /\ calls[i].kind = "report"
                                => calls[i].at = "served" /\ calls[i].answer # 0
                           /\ calls[i].kind = "logout"
                                => calls[i].at = "served" /\ calls[i].token \notin alive
    BY DEF ReportsAreTrue
  <2>1. PICK r : r = calls[i]
    OBVIOUS
  <2>2. CallOK(r)
    BY <2>1 DEF PageInv, CallsInv
  <2>3. r.kind = "report" /\ r.answer # 0 => r.answer = r.token
    BY <2>2 DEF CallOK
  <2>4. r.page = "said" => /\ r.kind = "report" => r.at = "served" /\ r.answer # 0
                           /\ r.kind = "logout" => r.at = "served" /\ r.token \notin alive
    BY <2>2 DEF CallOK, Over
  <2> QED
    BY <2>1, <2>3, <2>4
<1> QED
  BY <1>1, PageInvariance, PTL

(***************************************************************************)
(* Every number of every answer is computed for the person who asked it,   *)
(* for any provider, any tools it asks for and any failures between.       *)
(* (execute_tool, agent.py.)                                               *)
(***************************************************************************)
THEOREM ToolsAreForTheAsker == Spec => []ToolsSpeakOfTheAsker
<1>1. PageInv => ToolsSpeakOfTheAsker
  BY ToolsSpeak DEF PageInv
<1> QED
  BY <1>1, PageInvariance, PTL

(***************************************************************************)
(* What an answer and the log say of how the answer came about is true.    *)
(* (chat, agent.py; chat_endpoint, main.py.)                               *)
(***************************************************************************)
THEOREM AnswersAreAccounted == Spec => []AnswersAreAccountedFor
<1>1. PageInv => AnswersAreAccountedFor
  BY AccountedFor DEF PageInv
<1> QED
  BY <1>1, PageInvariance, PTL
=============================================================================
