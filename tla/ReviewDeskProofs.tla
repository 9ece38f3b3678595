--------------------------- MODULE ReviewDeskProofs ---------------------------
(***************************************************************************)
(* Proofs about ReviewDesk, for any drafts, clicks, pieces of work at a    *)
(* time and surprises.                                                     *)
(***************************************************************************)
EXTENDS ReviewDesk, TLAPS

Doings == {"start", "open", "decide", "batch", "login", "logout", "apology"}
Stages == {"session", "queue", "reports", "detail", "impact", "post"}
Verdicts == {"", "approve", "reject"}
Replies == {"sent", "ok", "refused"}
Numbers == Nat
Statuses == {"pending", "approved", "rejected"}
Listing == [Drafts -> Statuses \cup {""}]
Entries == [what : Verdicts, by : Numbers, badge : Numbers]
Openable == Drafts \cup {""}

Works == [does : Doings, at : Stages, what : Verdicts, drafts : SUBSET Drafts, opens : Openable,
          token : Numbers, cookie : Numbers, reply : Replies, seen : Listing, user : Numbers]

(***************************************************************************)
(* Types of what the steps look at, and which requests belong to which     *)
(* piece of work.                                                          *)
(***************************************************************************)
InOrder(w) ==
    /\ w.at \in {"detail", "impact"} => w.does \in {"open", "decide"}
    /\ w.at = "session" => w.does \in {"start", "login"}
    /\ w.does = "open" => w.at \in {"detail", "impact"}
    /\ w.does = "logout" => w.at = "post"

DeskTypes ==
    /\ status \in [Drafts -> Statuses] /\ decided \in [Drafts -> Entries]
    /\ created \in Nat /\ alive \subseteq 1 .. created /\ managers \subseteq 1 .. created
    /\ cookie \in 0 .. created /\ session \in 0 .. created
    /\ listed \in Listing
    /\ selectedIds \subseteq Drafts
    /\ currentId \in Openable
    /\ work \in Seq(Works)
    /\ \A i \in DOMAIN work : InOrder(work[i]) /\ work[i].user \in 0 .. created
                              /\ work[i].cookie \in 0 .. created

(***************************************************************************)
(* Decisions.  A decision with a badge is never taken again, since its     *)
(* draft is no longer pending.  What has been answered, and what the page  *)
(* says of it, is so for good.                                             *)
(***************************************************************************)
LedgerInv ==
    \A d \in Drafts : decided[d].badge # 0 =>
        decided[d].by = decided[d].badge /\ status[d] # "pending"

Taken(what, drafts) ==
    \A d \in drafts : d \in Drafts /\ decided[d].what = what /\ decided[d].badge # 0

WorkTaken(w) ==
    w.does \in {"decide", "batch"} /\ (w.at # "post" \/ w.reply = "ok") => Taken(w.what, w.drafts)

TakenInv ==
    /\ \A i \in DOMAIN work : WorkTaken(work[i])
    /\ result.kind = "ok" => Taken(result.what, result.drafts)

(***************************************************************************)
(* Patience.  While the reviewer has waited there is one piece of work at  *)
(* most, and it is about the draft he has open.  What the server refuses   *)
(* him, it refuses because his session is cut off; then it refuses his     *)
(* decisions too, so that none is taken on a draft that is not on screen.  *)
(***************************************************************************)
Cut == cookie # session \/ session \notin alive

SaysDecided == result.kind = "ok" /\ result.does = "decide"

Steady(w) ==
    /\ w.does \in {"start", "login"} => ~reviewing
    /\ w.does \in {"open", "decide"} =>
         /\ isManager /\ currentId # ""
         /\ w.cookie # session => cookie # session
         /\ w.at \in {"detail", "impact"} => w.opens = currentId
         /\ w.at = "detail" /\ w.reply = "refused" => Cut
         /\ w.at = "detail" /\ w.reply = "ok" /\ (w.does = "decide" \/ SaysDecided)
              => w.seen[w.opens] # "pending"
    /\ w.does = "decide" =>
         /\ w.drafts = {currentId}
         /\ w.at = "impact" => decisionBlock
    /\ w.does \in {"decide", "batch"} /\ reviewing /\ detail.id # currentId
         => w.at = "post" /\ w.reply # "ok" /\ ~authorize(w)

Opening(w) == w.does = "open" /\ w.at = "detail"

Shown ==
    /\ detail.id = currentId \/ (Cut /\ result.kind = "err")
    /\ SaysDecided => decisionBlock \/ Cut

PageOK ==
    /\ reviewing => isManager /\ currentId # ""
    /\ SaysDecided /\ currentId # "" => result.drafts = {currentId}

PatientInv ==
    ~muddled =>
        /\ Len(work) <= 1
        /\ PageOK
        /\ \A i \in DOMAIN work : Steady(work[i])
        /\ reviewing /\ (\A i \in DOMAIN work : ~Opening(work[i])) => Shown


-----------------------------------------------------------------------------
(***************************************************************************)
(* How the work changes: a piece is added, goes on, ends, or is replaced   *)
(* by another one at the end.                                              *)
(***************************************************************************)
LEMMA RemoveFacts ==
    ASSUME NEW S, NEW s \in Seq(S), NEW i \in 1 .. Len(s)
    PROVE  /\ RemoveAt(s, i) \in Seq(S) /\ Len(RemoveAt(s, i)) = Len(s) - 1
           /\ \A j \in 1 .. Len(RemoveAt(s, i)) :
                \E k \in 1 .. Len(s) : RemoveAt(s, i)[j] = s[k]
<1> DEFINE front == SubSeq(s, 1, i - 1)
           back == SubSeq(s, i + 1, Len(s))
<1>1. front \in Seq(S) /\ Len(front) = i - 1 /\ \A j \in 1 .. i - 1 : front[j] = s[j]
  OBVIOUS
<1>2. back \in Seq(S) /\ Len(back) = Len(s) - i /\ \A j \in 1 .. Len(s) - i : back[j] = s[i + j]
  OBVIOUS
<1>3. RemoveAt(s, i) = front \o back
  BY DEF RemoveAt
<1> HIDE DEF front, back
<1>4. (front \o back) \in Seq(S) /\ Len(front \o back) = Len(s) - 1
  BY <1>1, <1>2
<1>5. ASSUME NEW j \in 1 .. Len(s) - 1 PROVE \E k \in 1 .. Len(s) : (front \o back)[j] = s[k]
  <2>1. CASE j <= i - 1
    <3>1. (front \o back)[j] = s[j] /\ j \in 1 .. Len(s)
      BY <1>1, <1>2, <2>1
    <3> QED
      BY <3>1
  <2>2. CASE ~(j <= i - 1)
    <3>1. j - (i - 1) \in 1 .. Len(s) - i /\ j + 1 \in 1 .. Len(s)
      BY <2>2
    <3>2. (front \o back)[j] = back[j - (i - 1)]
      BY <1>1, <1>2, <2>2
    <3>3. back[j - (i - 1)] = s[j + 1]
      BY <1>2, <3>1
    <3> QED
      BY <3>1, <3>2, <3>3
  <2> QED
    BY <2>1, <2>2
<1> QED
  BY <1>3, <1>4, <1>5

LEMMA AppendFacts ==
    ASSUME NEW S, NEW s \in Seq(S), NEW x \in S
    PROVE  /\ Append(s, x) \in Seq(S) /\ Len(Append(s, x)) = Len(s) + 1 /\ Len(s) \in Nat
           /\ \A i \in 1 .. Len(Append(s, x)) :
                Append(s, x)[i] = x \/ \E k \in 1 .. Len(s) : Append(s, x)[i] = s[k]
<1>1. /\ Append(s, x) \in Seq(S) /\ Len(Append(s, x)) = Len(s) + 1 /\ Len(s) \in Nat
      /\ \A i \in 1 .. Len(s) + 1 : Append(s, x)[i] = IF i = Len(s) + 1 THEN x ELSE s[i]
      /\ \A i \in 1 .. Len(s) + 1 : i # Len(s) + 1 => i \in 1 .. Len(s)
  OBVIOUS
<1> QED
  BY <1>1

Changes(s, t, i, w) ==
    t \in {Append(s, w), [s EXCEPT ![i] = w], RemoveAt(s, i), Append(RemoveAt(s, i), w)}

LEMMA ChangesFacts ==
    ASSUME NEW S, NEW s \in Seq(S), NEW i \in 1 .. Len(s), NEW w \in S, NEW t, Changes(s, t, i, w)
    PROVE  t \in Seq(S) /\ \A j \in 1 .. Len(t) : t[j] = w \/ \E k \in 1 .. Len(s) : t[j] = s[k]
<1>1. CASE t = Append(s, w)
  BY <1>1, AppendFacts
<1>2. CASE t = [s EXCEPT ![i] = w]
  <2>1. t \in Seq(S) /\ Len(t) = Len(s) /\ \A j \in 1 .. Len(s) : t[j] = IF j = i THEN w ELSE s[j]
    BY <1>2
  <2> QED
    BY <2>1
<1>3. CASE t = RemoveAt(s, i)
  BY <1>3, RemoveFacts
<1>4. CASE t = Append(RemoveAt(s, i), w)
  <2> DEFINE r == RemoveAt(s, i)
  <2>1. t = Append(r, w)
    BY <1>4
  <2>2. r \in Seq(S) /\ \A j \in 1 .. Len(r) : \E k \in 1 .. Len(s) : r[j] = s[k]
    BY RemoveFacts
  <2> HIDE DEF r
  <2>3. t \in Seq(S) /\ \A j \in 1 .. Len(t) : t[j] = w \/ \E k \in 1 .. Len(r) : t[j] = r[k]
    BY <2>1, <2>2, AppendFacts
  <2> QED
    BY <2>2, <2>3
<1> QED
  BY <1>1, <1>2, <1>3, <1>4 DEF Changes

LEMMA WorkFacts ==
    ASSUME DeskTypes
    PROVE  /\ DOMAIN work = 1 .. Len(work) /\ Len(work) \in Nat
           /\ \A i \in DOMAIN work : work[i] \in Works
           /\ work \in [DOMAIN work -> Works]
  BY DEF DeskTypes

\* what holds of the work there was and of the piece that changed holds of all
WorkTypes(w, n) == w \in Works /\ InOrder(w) /\ w.user \in 0 .. n /\ w.cookie \in 0 .. n

LEMMA WorkTypesKept ==
    ASSUME DeskTypes, created' \in Nat, created <= created', work' \in Seq(Works),
           NEW w, WorkTypes(w, created'),
           \A j \in DOMAIN work' : work'[j] = w \/ \E k \in DOMAIN work : work'[j] = work[k]
    PROVE  \A j \in DOMAIN work' : InOrder(work'[j]) /\ work'[j].user \in 0 .. created'
                                   /\ work'[j].cookie \in 0 .. created'
<1> SUFFICES ASSUME NEW j \in DOMAIN work'
             PROVE  InOrder(work'[j]) /\ work'[j].user \in 0 .. created'
                    /\ work'[j].cookie \in 0 .. created'
  OBVIOUS
<1>1. CASE work'[j] = w
  BY <1>1 DEF WorkTypes
<1>2. ASSUME NEW k \in DOMAIN work, work'[j] = work[k] PROVE WorkTypes(work'[j], created')
  <2>1. InOrder(work[k]) /\ work[k].user \in 0 .. created /\ work[k].cookie \in 0 .. created
    BY DEF DeskTypes
  <2>2. work[k] \in Works
    BY WorkFacts
  <2>3. 0 .. created \subseteq 0 .. created'
    BY DEF DeskTypes
  <2> QED
    BY <1>2, <2>1, <2>2, <2>3 DEF WorkTypes
<1> QED
  BY <1>1, <1>2 DEF WorkTypes


(***************************************************************************)
(* Pieces of work as they start, are answered and go on.                   *)
(***************************************************************************)
LEMMA NoListType == NoList \in Listing
  BY DEF NoList, Listing

LEMMA ZeroType == DeskTypes => 0 \in 0 .. created /\ 0 .. created \subseteq Numbers
  BY DEF DeskTypes, Numbers

LEMMA WaitsType ==
    ASSUME DeskTypes, NEW does \in Doings, NEW at \in Stages, NEW what \in Verdicts,
           NEW drafts \in SUBSET Drafts
    PROVE  LET w == Waits(does, at, what, drafts)
           IN  /\ w \in Works /\ w.does = does /\ w.at = at /\ w.what = what /\ w.drafts = drafts
               /\ w.token = session /\ w.cookie = cookie /\ w.reply = "sent" /\ w.user = 0
<1>1. PICK none : none = ""
  OBVIOUS
<1>2. none \in Openable
  BY <1>1 DEF Openable
<1>3. PICK sent : sent = "sent"
  OBVIOUS
<1>4. sent \in Replies
  BY <1>3 DEF Replies
<1>5. PICK zero : zero = 0
  OBVIOUS
<1>6. session \in Numbers /\ cookie \in Numbers /\ zero \in Numbers
  BY <1>5, ZeroType DEF DeskTypes
<1> DEFINE w == [does |-> does, at |-> at, what |-> what, drafts |-> drafts, opens |-> none,
                 token |-> session, cookie |-> cookie, reply |-> sent, seen |-> NoList,
                 user |-> zero]
<1>7. w \in Works
  BY <1>2, <1>4, <1>6, NoListType DEF Works
<1>8. /\ w.does = does /\ w.at = at /\ w.what = what /\ w.drafts = drafts
      /\ w.token = session /\ w.cookie = cookie /\ w.reply = sent /\ w.user = zero
  OBVIOUS
<1>9. Waits(does, at, what, drafts) = w
  BY <1>1, <1>3, <1>5 DEF Waits
<1> QED
  BY <1>3, <1>5, <1>7, <1>8, <1>9

\* the fields a request shares with the next one of its piece of work
Same(w, v) ==
    w.does = v.does /\ w.what = v.what /\ w.drafts = v.drafts /\ w.token = v.token

LEMMA ThenType ==
    ASSUME NEW v \in Works, NEW at \in Stages, cookie \in Numbers
    PROVE  LET w == Then(v, at)
           IN  /\ w \in Works /\ Same(w, v) /\ w.at = at /\ w.opens = v.opens
               /\ w.cookie = cookie /\ w.reply = "sent" /\ w.user = v.user
<1>1. PICK sent : sent = "sent"
  OBVIOUS
<1>2. sent \in Replies
  BY <1>1 DEF Replies
<1> DEFINE w == [v EXCEPT !.at = at, !.reply = sent, !.cookie = cookie, !.seen = NoList]
<1>3. w \in Works
  BY <1>2, NoListType DEF Works
<1>4. /\ Same(w, v) /\ w.at = at /\ w.opens = v.opens
      /\ w.cookie = cookie /\ w.reply = sent /\ w.user = v.user
  BY DEF Works, Same
<1>5. Then(v, at) = w
  BY <1>1 DEF Then
<1> QED
  BY <1>1, <1>3, <1>4, <1>5

LEMMA AnswerType ==
    ASSUME DeskTypes, NEW i \in DOMAIN work, NEW reply \in Replies, NEW seen \in Listing,
           NEW user \in Numbers, Answer(i, reply, seen, user)
    PROVE  \E w \in Works :
             /\ work' = [work EXCEPT ![i] = w]
             /\ Same(w, work[i]) /\ w.at = work[i].at /\ w.opens = work[i].opens
             /\ w.cookie = work[i].cookie
             /\ w.reply = reply /\ w.seen = seen /\ w.user = user
<1> DEFINE w == [work[i] EXCEPT !.reply = reply, !.seen = seen, !.user = user]
<1>1. work[i] \in Works /\ work \in [DOMAIN work -> Works]
  BY WorkFacts
<1>2. w \in Works
  BY <1>1 DEF Works
<1>3. work' = [work EXCEPT ![i] = w]
  BY <1>1 DEF Answer
<1>4. /\ Same(w, work[i]) /\ w.at = work[i].at /\ w.opens = work[i].opens
      /\ w.cookie = work[i].cookie
      /\ w.reply = reply /\ w.seen = seen /\ w.user = user
  BY <1>1 DEF Works, Same
<1> HIDE DEF w
<1> QED
  BY <1>2, <1>3, <1>4


\* the request of piece i comes back as w
Returned(i, w) ==
    /\ w \in Works
    /\ work' = [work EXCEPT ![i] = w]
    /\ Same(w, work[i]) /\ w.at = work[i].at /\ w.opens = work[i].opens
    /\ w.cookie = work[i].cookie
    /\ w.reply \in {"ok", "refused"}

SessionsKept ==
    /\ created' \in Nat /\ created <= created'
    /\ alive' \subseteq 1 .. created' /\ managers' \subseteq 1 .. created'
    /\ managers \subseteq managers'
    /\ \A s \in alive' : s \in alive \/ s = created + 1

LEMMA SessionsStand ==
    ASSUME DeskTypes, created' = created, alive' \subseteq alive, managers' = managers
    PROVE  SessionsKept
  BY DEF DeskTypes, SessionsKept

LEMMA SessionsGrow ==
    ASSUME DeskTypes, created' = created + 1, alive' = alive \cup {created'},
           managers' \in {managers, managers \cup {created'}}
    PROVE  SessionsKept /\ created' # 0
<1>1. created \in Nat /\ alive \subseteq 1 .. created /\ managers \subseteq 1 .. created
  BY DEF DeskTypes
<1>2. created' \in Nat /\ created <= created' /\ 1 .. created \subseteq 1 .. created'
      /\ created' \in 1 .. created' /\ created' # 0
  BY <1>1
<1> QED
  BY <1>1, <1>2 DEF SessionsKept

LEMMA OkRefused == {"ok", "refused"} \subseteq Replies
  BY DEF Replies

LEMMA SentNot == "sent" \notin {"ok", "refused"}
  OBVIOUS

LEMMA ReturnedBy ==
    ASSUME DeskTypes, NEW i \in DOMAIN work, NEW reply \in {"ok", "refused"}, NEW seen \in Listing,
           NEW user \in Numbers, Answer(i, reply, seen, user)
    PROVE  \E w : Returned(i, w) /\ w.reply = reply /\ w.seen = seen /\ w.user = user
<1>1. reply \in Replies
  BY OkRefused
<1> QED
  BY <1>1, AnswerType DEF Returned

LEMMA RefusedBy ==
    ASSUME DeskTypes, NEW i \in DOMAIN work, Refuse(i)
    PROVE  \E w : Returned(i, w) /\ w.reply = "refused" /\ w.user = 0
<1>1. PICK zero : zero = 0
  OBVIOUS
<1>2. zero \in Numbers
  BY <1>1, ZeroType
<1>3. PICK reply \in {"ok", "refused"} : reply = "refused"
  OBVIOUS
<1>4. Answer(i, reply, NoList, zero)
  BY <1>1, <1>3 DEF Refuse
<1>5. \E w : Returned(i, w) /\ w.reply = reply /\ w.user = zero
  BY <1>2, <1>4, NoListType, ReturnedBy
<1> QED
  BY <1>1, <1>3, <1>5

\* what the server does with a request, and what it says
ServedTo(i, w) ==
    /\ Returned(i, w)
    /\ w.user \in 0 .. created'
    /\ w.at = "detail" /\ w.reply = "ok" => w.seen = status
    /\ w.at \in {"detail", "impact"} /\ w.reply = "refused" /\ w.opens # ""
         => w.cookie \notin alive \cap managers
    /\ w.does \in {"decide", "batch"} /\ w.at = "post" /\ w.reply = "ok"
         => /\ authorize(work[i]) /\ \A d \in w.drafts : status[d] = "pending"
            /\ Enter(work[i], w.drafts)

LEMMA ServeReadTo ==
    ASSUME DeskTypes, NEW i \in DOMAIN work, ServeRead(i) PROVE \E w : ServedTo(i, w)
<1>1. work[i].at \in {"queue", "reports", "detail", "impact"} /\ created' = created
  BY DEF ServeRead
<1>2. PICK allowed : allowed = (work[i].cookie \in alive \cap managers)
  OBVIOUS
<1>3. PICK known : known = (work[i].at \in {"detail", "impact"} => work[i].opens # "")
  OBVIOUS
<1>4. PICK seen \in Listing : /\ seen = IF work[i].at \in {"queue", "detail"} THEN status ELSE NoList
                              /\ work[i].at = "detail" => seen = status
  <2>1. status \in Listing
    BY DEF DeskTypes, Listing
  <2> QED
    BY <2>1, NoListType
<1>5. 0 \in 0 .. created'
  BY <1>1, ZeroType
<1>6. CASE allowed /\ known
  <2>1. PICK zero \in Numbers : zero = 0
    BY ZeroType
  <2>2. Answer(i, "ok", seen, zero)
    BY <1>2, <1>3, <1>4, <1>6, <2>1 DEF ServeRead
  <2>3. PICK w : Returned(i, w) /\ w.reply = "ok" /\ w.seen = seen /\ w.user = zero
    BY <2>2, ReturnedBy
  <2>4. w.at = work[i].at
    BY <2>3 DEF Returned
  <2>5. w.user \in 0 .. created'
    BY <1>5, <2>1, <2>3
  <2> QED
    BY <1>1, <1>4, <2>3, <2>4, <2>5 DEF ServedTo
<1>7. CASE ~(allowed /\ known)
  <2>1. Refuse(i)
    BY <1>2, <1>3, <1>7 DEF ServeRead
  <2>2. PICK w : Returned(i, w) /\ w.reply = "refused" /\ w.user = 0
    BY <2>1, RefusedBy
  <2>3. w.at = work[i].at /\ w.opens = work[i].opens /\ w.cookie = work[i].cookie
    BY <2>2 DEF Returned
  <2>4. w.user \in 0 .. created'
    BY <1>5, <2>2
  <2>5. w.at \in {"detail", "impact"} /\ w.opens # "" => w.cookie \notin alive \cap managers
    BY <1>2, <1>3, <1>7, <2>3
  <2> QED
    BY <1>1, <2>2, <2>3, <2>4, <2>5 DEF ServedTo
<1> QED
  BY <1>6, <1>7

LEMMA ServeSessionTo ==
    ASSUME DeskTypes, NEW i \in DOMAIN work, ServeSession(i) PROVE \E w : ServedTo(i, w)
<1>1. work[i].at = "session" /\ created' = created
  BY DEF ServeSession, serverVars
<1>2. PICK user : user = IF work[i].cookie \in alive THEN work[i].cookie ELSE 0
  OBVIOUS
<1>3. user \in 0 .. created' /\ user \in Numbers
  BY <1>1, <1>2, ZeroType DEF DeskTypes
<1>4. Answer(i, "ok", NoList, user)
  BY <1>2 DEF ServeSession
<1>5. PICK w : Returned(i, w) /\ w.user = user
  BY <1>3, <1>4, NoListType, ReturnedBy
<1>6. w.at = "session"
  BY <1>1, <1>5 DEF Returned
<1> QED
  BY <1>3, <1>5, <1>6 DEF ServedTo

LEMMA ServeLoginTo ==
    ASSUME DeskTypes, NEW i \in DOMAIN work, ServeLogin(i)
    PROVE  SessionsKept /\ \E w : ServedTo(i, w)
<1>1. work[i].at = "post" /\ work[i].does = "login"
  BY DEF ServeLogin
<1>2. CASE Refuse(i) /\ UNCHANGED <<created, alive, managers>>
  <2>1. PICK w : Returned(i, w) /\ w.reply = "refused" /\ w.user = 0
    BY <1>2, RefusedBy
  <2>2. w.at = "post" /\ w.does = "login"
    BY <1>1, <2>1 DEF Returned, Same
  <2>3. w.user \in 0 .. created'
    BY <1>2, <2>1, ZeroType
  <2> QED
    BY <1>2, <2>1, <2>2, <2>3, SessionsStand DEF ServedTo
<1>3. CASE /\ created' = created + 1 /\ alive' = alive \cup {created'}
           /\ managers' \in {managers, managers \cup {created'}}
           /\ Answer(i, "ok", NoList, created')
  <2>1. PICK user : user = created'
    OBVIOUS
  <2>2. SessionsKept
    BY <1>3, SessionsGrow
  <2>3. user \in 0 .. created' /\ user \in Numbers
    BY <2>1, <2>2 DEF SessionsKept, Numbers
  <2>4. PICK w : Returned(i, w) /\ w.user = user
    BY <1>3, <2>1, <2>3, NoListType, ReturnedBy
  <2>5. w.at = "post" /\ w.does = "login"
    BY <1>1, <2>4 DEF Returned, Same
  <2> QED
    BY <2>2, <2>3, <2>4, <2>5 DEF ServedTo
<1> QED
  BY <1>2, <1>3 DEF ServeLogin

LEMMA ServeLogoutTo ==
    ASSUME DeskTypes, NEW i \in DOMAIN work, ServeLogout(i)
    PROVE  SessionsKept /\ \E w : ServedTo(i, w)
<1>1. work[i].does = "logout" /\ work[i].at = "post"
  BY DEF ServeLogout, DeskTypes, InOrder
<1>2. created' = created /\ alive' \subseteq alive /\ managers' = managers
  BY DEF ServeLogout
<1>3. PICK w : Returned(i, w) /\ w.user = 0
  <2>1. PICK zero \in Numbers : zero = 0
    BY ZeroType
  <2>2. CASE Refuse(i)
    BY <2>2, RefusedBy
  <2>3. CASE Answer(i, "ok", NoList, 0)
    BY <2>1, <2>3, NoListType, ReturnedBy
  <2> QED
    BY <2>2, <2>3 DEF ServeLogout
<1>4. w.at = "post" /\ w.does = "logout"
  BY <1>1, <1>3 DEF Returned, Same
<1>5. w.user \in 0 .. created'
  BY <1>2, <1>3, ZeroType
<1> QED
  BY <1>2, <1>3, <1>4, <1>5, SessionsStand DEF ServedTo

LEMMA ServeDecisionTo ==
    ASSUME DeskTypes, NEW i \in DOMAIN work, ServeDecision(i)
    PROVE  SessionsKept /\ \E w : ServedTo(i, w)
<1>1. work[i].does \in {"decide", "batch"} /\ work[i].at = "post"
  BY DEF ServeDecision
<1>2. created' = created /\ alive' \subseteq alive /\ managers' = managers
  BY DEF ServeDecision, Enter, serverVars
<1>3. PICK zero \in Numbers : zero = 0
  BY ZeroType
<1>4. CASE Refuse(i)
  <2>1. PICK w : Returned(i, w) /\ w.user = 0 /\ w.reply = "refused"
    BY <1>4, RefusedBy
  <2>2. w.at = "post"
    BY <1>1, <2>1 DEF Returned
  <2>3. w.user \in 0 .. created'
    BY <1>2, <2>1, ZeroType
  <2> QED
    BY <1>2, <2>1, <2>2, <2>3, SessionsStand DEF ServedTo
<1>5. CASE /\ authorize(work[i]) /\ \A d \in work[i].drafts : status[d] = "pending"
           /\ Enter(work[i], work[i].drafts) /\ Answer(i, "ok", NoList, 0)
  <2>1. PICK w : Returned(i, w) /\ w.user = zero
    BY <1>3, <1>5, NoListType, ReturnedBy
  <2>2. w.at = "post" /\ w.drafts = work[i].drafts
    BY <1>1, <2>1 DEF Returned, Same
  <2>3. w.user \in 0 .. created'
    BY <1>2, <1>3, <2>1, ZeroType
  <2> QED
    BY <1>2, <1>5, <2>1, <2>2, <2>3, SessionsStand DEF ServedTo
<1> QED
  BY <1>4, <1>5 DEF ServeDecision

LEMMA ServeTo ==
    ASSUME DeskTypes, NEW i \in DOMAIN work, Serve(i)
    PROVE  SessionsKept /\ \E w : ServedTo(i, w)
<1>1. ServeRead(i) \/ ServeSession(i) => SessionsKept
  BY SessionsStand DEF ServeRead, ServeSession, serverVars
<1> QED
  BY <1>1, ServeReadTo, ServeSessionTo, ServeLoginTo, ServeLogoutTo, ServeDecisionTo DEF Serve


\* piece i goes on with the request w
GoesOn(i, w) ==
    /\ WorkTypes(w, created)
    /\ work' = [work EXCEPT ![i] = w]
    /\ Same(w, work[i]) /\ w.cookie = cookie' /\ w.reply = "sent"

LEMMA ContinueTo ==
    ASSUME DeskTypes, NEW i \in DOMAIN work, NEW at \in Stages, Continue(i, at), cookie' = cookie,
           \/ at \in {"queue", "reports"} /\ work[i].does \notin {"open", "logout"}
           \/ at = "impact" /\ work[i].at = "detail"
    PROVE  \E w : GoesOn(i, w) /\ w.at = at /\ w.opens = work[i].opens
<1> DEFINE v == work[i]
           w == Then(v, at)
<1>1. v \in Works /\ work \in [DOMAIN work -> Works]
  BY WorkFacts
<1>2. cookie \in Numbers /\ cookie \in 0 .. created /\ v.user \in 0 .. created /\ InOrder(v)
  BY ZeroType DEF DeskTypes
<1>3. /\ w \in Works /\ Same(w, v) /\ w.at = at /\ w.opens = v.opens
      /\ w.cookie = cookie /\ w.reply = "sent" /\ w.user = v.user
  BY <1>1, <1>2, ThenType
<1>4. work' = [work EXCEPT ![i] = w]
  BY <1>1 DEF Continue
<1> HIDE DEF w
<1>5. InOrder(w)
  BY <1>2, <1>3 DEF InOrder, Same
<1> QED
  BY <1>2, <1>3, <1>4, <1>5 DEF GoesOn, WorkTypes

LEMMA StageFacts == {"session", "queue", "reports", "detail", "impact", "post"} \subseteq Stages
  BY DEF Stages

\* a login that went through asks for its session with the new cookie
LEMMA LoggedInTo ==
    ASSUME DeskTypes, NEW i \in DOMAIN work, LoggedIn(i)
    PROVE  \E w : GoesOn(i, w) /\ w.at = "session" /\ w.does = "login"
<1> DEFINE v == work[i]
           u == Then(v, "session")
           w == [u EXCEPT !.cookie = cookie']
<1>1. v \in Works /\ work \in [DOMAIN work -> Works]
  BY WorkFacts
<1>2. cookie' = v.user /\ v.does = "login"
  BY DEF LoggedIn
<1>3. v.user \in 0 .. created /\ cookie \in Numbers /\ v.user \in Numbers
  BY ZeroType DEF DeskTypes
<1>4. /\ u \in Works /\ Same(u, v) /\ u.at = "session" /\ u.reply = "sent" /\ u.user = v.user
  <2>1. PICK at \in Stages : at = "session"
    BY StageFacts
  <2> QED
    BY <1>1, <1>3, <2>1, ThenType
<1>5. work' = [work EXCEPT ![i] = w]
  BY <1>1 DEF LoggedIn
<1> HIDE DEF u
<1>6. w \in Works
  BY <1>2, <1>3, <1>4 DEF Works
<1>7. /\ Same(w, v) /\ w.at = "session" /\ w.cookie = cookie' /\ w.reply = "sent"
      /\ w.user = v.user
  BY <1>4 DEF Works, Same
<1> HIDE DEF w
<1>8. w.does = "login"
  BY <1>2, <1>7 DEF Same
<1>9. InOrder(w)
  BY <1>7, <1>8 DEF InOrder
<1> QED
  BY <1>2, <1>3, <1>5, <1>6, <1>7, <1>8, <1>9 DEF GoesOn, WorkTypes

\* after a decision the draft that is open by then is read again
LEMMA ReopensTo ==
    ASSUME DeskTypes, NEW i \in DOMAIN work, ReportsRead(i), work[i].does = "decide"
    PROVE  \E w : GoesOn(i, w) /\ w.at = "detail" /\ w.opens = currentId
<1> DEFINE v == work[i]
           u == Then(v, "detail")
           w == [u EXCEPT !.opens = currentId]
<1>1. v \in Works /\ work \in [DOMAIN work -> Works]
  BY WorkFacts
<1>2. cookie' = cookie
  BY DEF ReportsRead
<1>3. v.user \in 0 .. created /\ cookie \in Numbers /\ cookie \in 0 .. created
      /\ currentId \in Openable
  BY ZeroType DEF DeskTypes
<1>4. /\ u \in Works /\ Same(u, v) /\ u.at = "detail" /\ u.reply = "sent" /\ u.user = v.user
      /\ u.cookie = cookie
  <2>1. PICK at \in Stages : at = "detail"
    BY StageFacts
  <2> QED
    BY <1>1, <1>3, <2>1, ThenType
<1>5. work' = [work EXCEPT ![i] = w]
  BY <1>1 DEF ReportsRead
<1> HIDE DEF u
<1>6. w \in Works
  BY <1>3, <1>4 DEF Works
<1>7. /\ Same(w, v) /\ w.at = "detail" /\ w.cookie = cookie /\ w.reply = "sent"
      /\ w.user = v.user /\ w.opens = currentId
  BY <1>4 DEF Works, Same
<1> HIDE DEF w
<1>8. w.does = "decide"
  BY <1>7 DEF Same
<1>9. InOrder(w)
  BY <1>7, <1>8 DEF InOrder
<1> QED
  BY <1>2, <1>3, <1>5, <1>6, <1>7, <1>9 DEF GoesOn, WorkTypes

LEMMA ContinueListing ==
    ASSUME DeskTypes, NEW i \in DOMAIN work, cookie' = cookie,
           work[i].does \notin {"open", "logout"},
           Continue(i, "queue") \/ Continue(i, "reports")
    PROVE  \E w : GoesOn(i, w) /\ w.at \in {"queue", "reports"}
<1>1. PICK at \in {"queue", "reports"} : Continue(i, at)
  OBVIOUS
<1>2. at \in Stages
  BY StageFacts
<1>3. \E w : GoesOn(i, w) /\ w.at = at
  BY <1>1, <1>2, ContinueTo
<1> QED
  BY <1>3

LEMMA ArrivesTo ==
    ASSUME DeskTypes, NEW i \in DOMAIN work, Arrives(i)
    PROVE  Finish(i) \/ \E w : GoesOn(i, w)
<1>0. InOrder(work[i])
  BY DEF DeskTypes
<1>1. CASE SessionRead(i)
  <2>1. work[i].does \in {"start", "login"} /\ cookie' = cookie
    BY <1>0, <1>1 DEF SessionRead, InOrder
  <2>2. work[i].does \notin {"open", "logout"}
    BY <2>1
  <2> QED
    BY <1>1, <2>1, <2>2, ContinueListing DEF SessionRead
<1>2. CASE LoggedIn(i)
  BY <1>2, LoggedInTo
<1>3. CASE LoggedOut(i)
  BY <1>3 DEF LoggedOut
<1>4. CASE Decided(i)
  BY <1>4, ContinueListing DEF Decided
<1>5. CASE QueueRead(i)
  <2>1. work[i].does \notin {"open", "logout"} /\ cookie' = cookie
    BY <1>0, <1>5 DEF QueueRead, InOrder
  <2> QED
    BY <1>5, <2>1, ContinueListing DEF QueueRead
<1>6. CASE ReportsRead(i)
  BY <1>6, ReopensTo DEF ReportsRead
<1>7. CASE DetailRead(i)
  BY <1>7, ContinueTo, StageFacts DEF DetailRead
<1>8. CASE ImpactRead(i)
  BY <1>8 DEF ImpactRead
<1> QED
  BY <1>1, <1>2, <1>3, <1>4, <1>5, <1>6, <1>7, <1>8 DEF Arrives

\* what a failure leaves to do
LEMMA FailsTo ==
    ASSUME DeskTypes, NEW i \in DOMAIN work, Fails(i)
    PROVE  \/ Finish(i)
           \/ \E w : /\ WorkTypes(w, created) /\ w.does = "apology" /\ w.at = "queue"
                     /\ work' = Append(RemoveAt(work, i), w) /\ work[i].does = "batch"
<1>1. CASE BatchFails(i)
  <2>1. PICK does, at, what : does = "apology" /\ at = "queue" /\ what = ""
    OBVIOUS
  <2> DEFINE w == Waits(does, at, what, {})
  <2>2. does \in Doings /\ at \in Stages /\ what \in Verdicts /\ {} \in SUBSET Drafts
    BY <2>1 DEF Doings, Stages, Verdicts
  <2>3. /\ w \in Works /\ w.does = does /\ w.at = at /\ w.user = 0 /\ w.cookie = cookie
    BY <2>2, WaitsType
  <2>4. work' = Append(RemoveAt(work, i), w) /\ work[i].does = "batch"
    BY <1>1, <2>1 DEF BatchFails
  <2> HIDE DEF w
  <2>5. InOrder(w)
    BY <2>1, <2>3 DEF InOrder
  <2>6. w.user \in 0 .. created /\ w.cookie \in 0 .. created
    BY <2>3, ZeroType DEF DeskTypes
  <2> QED
    BY <2>1, <2>3, <2>4, <2>5, <2>6 DEF WorkTypes
<1>2. CASE NothingComes(i) \/ LogoutFails(i) \/ OpenFails(i) \/ DecideFails(i)
  BY <1>2 DEF NothingComes, LogoutFails, OpenFails, DecideFails
<1> QED
  BY <1>1, <1>2 DEF Fails

\* the work a click starts
Starts(w, does) ==
    /\ WorkTypes(w, created) /\ work' = Append(work, w)
    /\ w.does = does /\ w.reply = "sent" /\ w.token = session /\ w.cookie = cookie

LEMMA PostTo ==
    ASSUME DeskTypes, NEW does \in {"login", "logout", "decide", "batch"},
           NEW what \in Verdicts, NEW drafts \in SUBSET Drafts,
           Start(Waits(does, "post", what, drafts))
    PROVE  \E w : Starts(w, does) /\ w.at = "post" /\ w.drafts = drafts
<1>0. PICK at : at = "post"
  OBVIOUS
<1> DEFINE w == Waits(does, at, what, drafts)
<1>1. does \in Doings /\ at \in Stages
  BY <1>0 DEF Doings, Stages
<1>2. /\ w \in Works /\ w.does = does /\ w.at = at /\ w.drafts = drafts
      /\ w.token = session /\ w.cookie = cookie /\ w.reply = "sent" /\ w.user = 0
  BY <1>1, WaitsType
<1>3. work' = Append(work, w)
  BY <1>0 DEF Start
<1> HIDE DEF w
<1>4. InOrder(w)
  BY <1>0, <1>2 DEF InOrder
<1>5. w.user \in 0 .. created /\ w.cookie \in 0 .. created
  BY <1>2, ZeroType DEF DeskTypes
<1> QED
  BY <1>0, <1>2, <1>3, <1>4, <1>5 DEF WorkTypes, Starts

LEMMA OpenTo ==
    ASSUME DeskTypes, NEW d \in Drafts, openDraft(d)
    PROVE  \E w : Starts(w, "open") /\ w.at = "detail" /\ w.opens = d
<1>0. PICK does, at, what : does = "open" /\ at = "detail" /\ what = ""
  OBVIOUS
<1> DEFINE u == Waits(does, at, what, {})
           w == [u EXCEPT !.opens = d]
<1>1. does \in Doings /\ at \in Stages /\ what \in Verdicts /\ {} \in SUBSET Drafts
  BY <1>0 DEF Doings, Stages, Verdicts
<1>2. /\ u \in Works /\ u.does = does /\ u.at = at
      /\ u.token = session /\ u.cookie = cookie /\ u.reply = "sent" /\ u.user = 0
  BY <1>1, WaitsType
<1>3. work' = Append(work, w)
  BY <1>0 DEF openDraft, Start
<1> HIDE DEF u
<1>4. /\ w \in Works /\ w.does = does /\ w.at = at /\ w.opens = d
      /\ w.token = session /\ w.cookie = cookie /\ w.reply = "sent" /\ w.user = 0
  BY <1>2 DEF Works, Openable
<1> HIDE DEF w
<1>5. InOrder(w)
  BY <1>0, <1>4 DEF InOrder
<1>6. w.user \in 0 .. created /\ w.cookie \in 0 .. created
  BY <1>4, ZeroType DEF DeskTypes
<1> QED
  BY <1>0, <1>3, <1>4, <1>5, <1>6 DEF WorkTypes, Starts

LEMMA ClickTo ==
    ASSUME DeskTypes, Clicks
    PROVE  work' = work \/ \E w, does : Starts(w, does) /\ (w.at = "post" \/ w.does = "open")
<1>0. PICK none, approve : none = "" /\ approve = "approve"
  OBVIOUS
<1>1. none \in Verdicts /\ {"approve", "reject"} \subseteq Verdicts /\ {} \in SUBSET Drafts
  BY <1>0 DEF Verdicts
<1>2. ASSUME NEW d \in Drafts, openDraft(d) PROVE \E w, does : Starts(w, does) /\ w.does = "open"
  BY <1>2, OpenTo DEF Starts
<1>3. ASSUME NEW what \in {"approve", "reject"}, decide(what)
      PROVE  \E w, does : Starts(w, does) /\ w.at = "post"
  <2>1. {currentId} \in SUBSET Drafts /\ Start(Waits("decide", "post", what, {currentId}))
    BY <1>3 DEF decide, DeskTypes, Openable
  <2> QED
    BY <1>1, <2>1, PostTo
<1>4. CASE batchApprove
  <2>1. selectedIds \in SUBSET Drafts /\ Start(Waits("batch", "post", approve, selectedIds))
    BY <1>0, <1>4 DEF batchApprove, DeskTypes
  <2>2. approve \in Verdicts
    BY <1>0, <1>1
  <2> QED
    BY <2>1, <2>2, PostTo
<1>5. CASE login \/ logout
  <2>1. PICK does \in {"login", "logout"} : Start(Waits(does, "post", none, {}))
    BY <1>0, <1>5 DEF login, logout
  <2> QED
    BY <1>1, <2>1, PostTo
<1>6. ASSUME NEW d \in Drafts, toggleSelected(d) PROVE work' = work
  BY <1>6 DEF toggleSelected
<1> QED
  BY <1>2, <1>3, <1>4, <1>5, <1>6 DEF Clicks


(***************************************************************************)
(* Whatever happens, the work consists of what it was and of one piece     *)
(* that is new or changed.                                                 *)
(***************************************************************************)
WorkNext(w) ==
    /\ work' \in Seq(Works)
    /\ \A j \in DOMAIN work' : work'[j] = w \/ \E k \in DOMAIN work : work'[j] = work[k]

LEMMA WorkNexts ==
    ASSUME DeskTypes
    PROVE  /\ \A w, does : Starts(w, does) => WorkNext(w)
           /\ \A i \in DOMAIN work, w \in Works :
                work' = [work EXCEPT ![i] = w] \/ work' = Append(RemoveAt(work, i), w)
                  => WorkNext(w)
           /\ \A i \in DOMAIN work : Finish(i) => WorkNext(work[i])
<1>1. work \in Seq(Works) /\ DOMAIN work = 1 .. Len(work) /\ \A i \in DOMAIN work : work[i] \in Works
  BY WorkFacts DEF DeskTypes
<1>2. ASSUME NEW w, NEW does, Starts(w, does) PROVE WorkNext(w)
  <2>1. w \in Works /\ work' = Append(work, w)
    BY <1>2 DEF Starts, WorkTypes
  <2>2. work' \in Seq(Works) /\ \A j \in 1 .. Len(work') :
          work'[j] = w \/ \E k \in 1 .. Len(work) : work'[j] = work[k]
    BY <1>1, <2>1, AppendFacts
  <2>3. DOMAIN work' = 1 .. Len(work')
    BY <2>2
  <2> QED
    BY <1>1, <2>2, <2>3 DEF WorkNext
<1>3. ASSUME NEW i \in DOMAIN work, NEW w \in Works, Changes(work, work', i, w) PROVE WorkNext(w)
  <2>2. work' \in Seq(Works) /\ \A j \in 1 .. Len(work') :
          work'[j] = w \/ \E k \in 1 .. Len(work) : work'[j] = work[k]
    BY <1>1, <1>3, ChangesFacts
  <2>3. DOMAIN work' = 1 .. Len(work')
    BY <2>2
  <2> QED
    BY <1>1, <2>2, <2>3 DEF WorkNext
<1> QED
  BY <1>1, <1>2, <1>3 DEF Changes, Finish

LEMMA OldWork ==
    ASSUME DeskTypes, SessionsKept, NEW i \in DOMAIN work PROVE WorkTypes(work[i], created')
<1>1. work[i] \in Works /\ InOrder(work[i]) /\ work[i].user \in 0 .. created
      /\ work[i].cookie \in 0 .. created
  BY WorkFacts DEF DeskTypes
<1>2. 0 .. created \subseteq 0 .. created'
  BY DEF SessionsKept, DeskTypes
<1> QED
  BY <1>1, <1>2 DEF WorkTypes

LEMMA TypesGrow ==
    ASSUME DeskTypes, SessionsKept, NEW w, WorkTypes(w, created) PROVE WorkTypes(w, created')
<1>2. 0 .. created \subseteq 0 .. created'
  BY DEF SessionsKept, DeskTypes
<1> QED
  BY <1>2 DEF WorkTypes

LEMMA ServedWork ==
    ASSUME DeskTypes, SessionsKept, NEW i \in DOMAIN work, NEW w, ServedTo(i, w)
    PROVE  WorkTypes(w, created') /\ WorkNext(w)
<1>1. WorkTypes(work[i], created')
  BY OldWork
<1>2. /\ w \in Works /\ work' = [work EXCEPT ![i] = w]
      /\ Same(w, work[i]) /\ w.at = work[i].at /\ w.cookie = work[i].cookie
      /\ w.user \in 0 .. created'
  BY DEF ServedTo, Returned
<1>3. InOrder(w)
  BY <1>1, <1>2 DEF WorkTypes, InOrder, Same
<1>4. w.cookie \in 0 .. created'
  BY <1>1, <1>2 DEF WorkTypes
<1> QED
  BY <1>2, <1>3, <1>4, WorkNexts DEF WorkTypes

LEMMA ElsewhereSessions ==
    ASSUME DeskTypes, Elsewhere PROVE SessionsKept /\ cookie' \in 0 .. created'
<1>1. CASE OtherLogin
  <2>1. SessionsKept
    BY <1>1, SessionsGrow DEF OtherLogin
  <2>2. cookie' = created'
    BY <1>1 DEF OtherLogin
  <2> QED
    BY <2>1, <2>2 DEF SessionsKept
<1>2. CASE (\E d \in Drafts : OtherDecides(d)) \/ (\E i \in alive : SessionEnds(i))
  <2>1. created' = created /\ alive' \subseteq alive /\ managers' = managers /\ cookie' = cookie
    BY <1>2 DEF OtherDecides, SessionEnds
  <2> QED
    BY <2>1, SessionsStand DEF DeskTypes
<1> QED
  BY <1>1, <1>2 DEF Elsewhere

LEMMA SessionsMove == ASSUME DeskTypes, [Next]_vars PROVE SessionsKept
<1>1. ASSUME UNCHANGED serverVars PROVE SessionsKept
  BY <1>1, SessionsStand DEF serverVars
<1>2. ASSUME NEW i \in DOMAIN work, Serve(i) \/ Arrives(i) \/ Refused(i) \/ Lost(i)
      PROVE  SessionsKept
  BY <1>1, <1>2, ServeTo DEF Arrives, Refused, Lost, Fails
<1> QED
  BY <1>1, <1>2, ElsewhereSessions DEF Next, Clicks, Click, vars

LEMMA WorkMoves ==
    ASSUME DeskTypes, [Next]_vars
    PROVE  work' = work \/ \E w : WorkTypes(w, created') /\ WorkNext(w)
<1>0. SessionsKept
  BY SessionsMove
<1>1. CASE Clicks
  BY <1>0, <1>1, ClickTo, WorkNexts, TypesGrow DEF Starts
<1>2. ASSUME NEW i \in DOMAIN work, Serve(i) PROVE \E w : WorkTypes(w, created') /\ WorkNext(w)
  BY <1>0, <1>2, ServeTo, ServedWork
<1>3. ASSUME NEW i \in DOMAIN work, Finish(i) PROVE \E w : WorkTypes(w, created') /\ WorkNext(w)
  BY <1>0, <1>3, OldWork, WorkNexts
<1>4. ASSUME NEW i \in DOMAIN work, Arrives(i) PROVE \E w : WorkTypes(w, created') /\ WorkNext(w)
  <2>1. ASSUME NEW w, GoesOn(i, w) PROVE WorkTypes(w, created') /\ WorkNext(w)
    BY <1>0, <2>1, WorkNexts, TypesGrow DEF GoesOn, WorkTypes
  <2> QED
    BY <1>3, <1>4, <2>1, ArrivesTo
<1>5. ASSUME NEW i \in DOMAIN work, Fails(i) PROVE \E w : WorkTypes(w, created') /\ WorkNext(w)
  <2>1. ASSUME NEW w, WorkTypes(w, created), work' = Append(RemoveAt(work, i), w)
        PROVE  WorkTypes(w, created') /\ WorkNext(w)
    BY <1>0, <2>1, WorkNexts, TypesGrow DEF WorkTypes
  <2> QED
    BY <1>3, <1>5, <2>1, FailsTo
<1> QED
  BY <1>1, <1>2, <1>4, <1>5 DEF Next, Refused, Lost, Elsewhere, vars

\* the records of decisions change for pending drafts only
LedgerStep ==
    /\ status' \in [Drafts -> Statuses] /\ decided' \in [Drafts -> Entries]
    /\ \A d \in Drafts : decided'[d] = decided[d] \/ status[d] = "pending"
    /\ LedgerInv => LedgerInv'

LEMMA LedgerMoves == ASSUME DeskTypes, [Next]_vars PROVE LedgerStep
<1>0. status \in [Drafts -> Statuses] /\ decided \in [Drafts -> Entries]
  BY DEF DeskTypes
<1>1. ASSUME UNCHANGED <<status, decided>> PROVE LedgerStep
  BY <1>0, <1>1 DEF LedgerInv, LedgerStep
<1>2. ASSUME NEW w \in Works, NEW drafts \in SUBSET Drafts, Enter(w, drafts),
             authorize(w), \A d \in drafts : status[d] = "pending"
      PROVE  LedgerStep
  <2>1. w.token = w.cookie /\ w.what \in Verdicts /\ w.cookie \in Numbers /\ w.token \in Numbers
    BY <1>2 DEF authorize, Works
  <2>2. DecidedAs(w.what) \in Statuses /\ DecidedAs(w.what) # "pending"
    BY DEF DecidedAs, Statuses
  <2>3. status' \in [Drafts -> Statuses]
    BY <1>0, <1>2, <2>2 DEF Enter
  <2> DEFINE entry == [what |-> w.what, by |-> w.cookie, badge |-> w.token]
  <2>4. entry \in Entries /\ entry.by = entry.badge
    BY <2>1 DEF Entries
  <2>9. decided' = [d \in Drafts |-> IF d \in drafts THEN entry ELSE decided[d]]
    BY <1>2 DEF Enter
  <2> HIDE DEF entry
  <2>5. \A d \in Drafts : decided'[d] = IF d \in drafts THEN entry ELSE decided[d]
    BY <2>9
  <2>6. decided' \in [Drafts -> Entries]
    BY <1>0, <2>4, <2>9
  <2>7. \A d \in Drafts : status'[d] = IF d \in drafts THEN DecidedAs(w.what) ELSE status[d]
    BY <1>2 DEF Enter
  <2>8. LedgerInv => LedgerInv'
    BY <2>2, <2>4, <2>5, <2>7 DEF LedgerInv
  <2> QED
    BY <1>2, <2>3, <2>5, <2>6, <2>8 DEF LedgerStep
<1>3. ASSUME NEW i \in DOMAIN work, ServeDecision(i) PROVE LedgerStep
  <2>1. work[i] \in Works /\ work[i].drafts \in SUBSET Drafts
    BY WorkFacts DEF Works
  <2>2. CASE UNCHANGED serverVars
    BY <1>1, <2>2 DEF serverVars
  <2>3. ASSUME authorize(work[i]), \A d \in work[i].drafts : status[d] = "pending",
               NEW drafts \in SUBSET work[i].drafts, Enter(work[i], drafts)
        PROVE  LedgerStep
    BY <1>2, <2>1, <2>3
  <2> QED
    BY <1>3, <2>2, <2>3 DEF ServeDecision
<1>4. ASSUME NEW i \in DOMAIN work, Serve(i) PROVE LedgerStep
  BY <1>1, <1>3, <1>4 DEF Serve, ServeRead, ServeSession, ServeLogin, ServeLogout, serverVars
<1>5. ASSUME NEW d \in Drafts, OtherDecides(d) PROVE LedgerStep
  <2>1. PICK what \in Verdicts : /\ status' = [status EXCEPT ![d] = DecidedAs(what)]
                                 /\ decided' = [decided EXCEPT ![d].what = what]
    BY <1>5 DEF OtherDecides, Verdicts
  <2>2. status[d] = "pending"
    BY <1>5 DEF OtherDecides
  <2>3. DecidedAs(what) \in Statuses
    BY DEF DecidedAs, Statuses
  <2>4. status' \in [Drafts -> Statuses] /\ \A e \in Drafts : e # d => status'[e] = status[e]
    BY <1>0, <2>1, <2>3
  <2> DEFINE entry == [decided[d] EXCEPT !.what = what]
  <2>5. entry \in Entries /\ entry.by = decided[d].by /\ entry.badge = decided[d].badge
    BY <1>0 DEF Entries
  <2>6. decided' = [decided EXCEPT ![d] = entry]
    BY <1>0, <2>1
  <2> HIDE DEF entry
  <2>7. decided' \in [Drafts -> Entries]
        /\ \A e \in Drafts : decided'[e] = IF e = d THEN entry ELSE decided[e]
    BY <1>0, <2>5, <2>6
  <2>8. LedgerInv => LedgerInv'
    BY <2>2, <2>4, <2>5, <2>7 DEF LedgerInv
  <2> QED
    BY <2>2, <2>4, <2>7, <2>8 DEF LedgerStep
<1>6. CASE Elsewhere
  BY <1>1, <1>5, <1>6 DEF Elsewhere, OtherLogin, SessionEnds
<1>7. CASE Clicks \/ (\E i \in DOMAIN work : Arrives(i) \/ Refused(i) \/ Lost(i)) \/ UNCHANGED vars
  BY <1>1, <1>7 DEF Clicks, Click, Arrives, Refused, Lost, Fails, vars, serverVars
<1> QED
  BY <1>4, <1>6, <1>7 DEF Next


PageTypes ==
    /\ cookie \in 0 .. created /\ session \in 0 .. created
    /\ listed \in Listing /\ selectedIds \subseteq Drafts /\ currentId \in Openable

LEMMA PageMoves == ASSUME DeskTypes, [Next]_vars PROVE PageTypes'
<1>0. SessionsKept /\ PageTypes /\ created \in Nat
  BY SessionsMove DEF DeskTypes, PageTypes
<1>1. 0 .. created \subseteq 0 .. created' /\ 0 \in 0 .. created'
  BY <1>0 DEF SessionsKept
<1>2. ASSUME cookie' \in 0 .. created', session' \in 0 .. created',
             listed' \in Listing, selectedIds' \subseteq Drafts,
             currentId' \in Drafts \/ currentId' = currentId \/ currentId' = ""
      PROVE  PageTypes'
  BY <1>0, <1>2 DEF PageTypes, Openable
<1>3. cookie \in 0 .. created' /\ session \in 0 .. created'
  BY <1>0, <1>1 DEF PageTypes
<1>4. listed \in Listing /\ selectedIds \subseteq Drafts
  BY <1>0 DEF PageTypes
<1>5. ASSUME UNCHANGED <<session, listed, selectedIds, currentId>>, cookie' \in 0 .. created'
      PROVE  PageTypes'
  BY <1>2, <1>3, <1>4, <1>5
<1>6. CASE Clicks
  <2>1. cookie' = cookie
    BY <1>6 DEF Clicks, Click
  <2>2. ASSUME NEW d \in Drafts, openDraft(d) \/ toggleSelected(d) PROVE PageTypes'
    BY <1>2, <1>3, <1>4, <2>1, <2>2 DEF openDraft, toggleSelected
  <2>3. CASE (\E what \in {"approve", "reject"} : decide(what)) \/ batchApprove \/ login \/ logout
    BY <1>3, <1>5, <2>1, <2>3 DEF decide, batchApprove, login, logout, deskVars
  <2> QED
    BY <1>6, <2>2, <2>3 DEF Clicks
<1>7. CASE Elsewhere
  BY <1>5, <1>7, ElsewhereSessions DEF Elsewhere, deskVars
<1>8. ASSUME NEW i \in DOMAIN work, Serve(i) PROVE PageTypes'
  BY <1>3, <1>5, <1>8 DEF Serve, deskVars
<1>9. ASSUME Forget, cookie' \in 0 .. created' PROVE PageTypes'
  <2>1. session' \in 0 .. created' /\ selectedIds' \subseteq Drafts
    BY <1>1, <1>9 DEF Forget
  <2> QED
    BY <1>2, <1>4, <1>9, <2>1 DEF Forget
<1>10. ASSUME NEW i \in DOMAIN work, Arrives(i) PROVE PageTypes'
  <2>0. work[i].user \in 0 .. created' /\ work[i].seen \in Listing
    BY <1>1, WorkFacts DEF DeskTypes, Works
  <2>1. CASE SessionRead(i)
    <3>1. session' \in 0 .. created' /\ cookie' \in 0 .. created'
      BY <1>3, <2>0, <2>1 DEF SessionRead
    <3> QED
      BY <1>2, <1>4, <2>1, <3>1 DEF SessionRead
  <2>2. CASE LoggedIn(i)
    <3>1. cookie' \in 0 .. created'
      BY <2>0, <2>2 DEF LoggedIn
    <3> QED
      BY <1>5, <2>2, <3>1 DEF LoggedIn, deskVars
  <2>3. CASE LoggedOut(i)
    <3>1. cookie' \in 0 .. created'
      BY <1>1, <2>3 DEF LoggedOut
    <3> QED
      BY <1>9, <2>3, <3>1 DEF LoggedOut
  <2>4. CASE Decided(i) \/ QueueRead(i)
    <3>1. listed' \in Listing /\ selectedIds' \subseteq Drafts
      BY <1>4, <2>0, <2>4 DEF Decided, QueueRead
    <3> QED
      BY <1>2, <1>3, <2>4, <3>1 DEF Decided, QueueRead
  <2>5. CASE ReportsRead(i) \/ DetailRead(i) \/ ImpactRead(i)
    BY <1>3, <1>5, <2>5 DEF ReportsRead, DetailRead, ImpactRead
  <2> QED
    BY <1>10, <2>1, <2>2, <2>3, <2>4, <2>5 DEF Arrives
<1>11. ASSUME NEW i \in DOMAIN work, Fails(i) PROVE PageTypes'
  <2>1. cookie' \in 0 .. created'
    BY <1>3, <1>11 DEF Fails
  <2>2. CASE LogoutFails(i)
    BY <1>9, <2>1, <2>2 DEF LogoutFails
  <2>3. CASE NothingComes(i) \/ OpenFails(i) \/ DecideFails(i) \/ BatchFails(i)
    BY <1>5, <2>1, <2>3 DEF NothingComes, OpenFails, DecideFails, BatchFails, deskVars
  <2> QED
    BY <1>11, <2>2, <2>3 DEF Fails
<1>12. CASE UNCHANGED vars
  BY <1>3, <1>5, <1>12 DEF vars, deskVars
<1> QED
  BY <1>6, <1>7, <1>8, <1>10, <1>11, <1>12 DEF Next, Refused, Lost

LEMMA DeskTypesKept == DeskTypes /\ [Next]_vars => DeskTypes'
<1> SUFFICES ASSUME DeskTypes, [Next]_vars PROVE DeskTypes'
  OBVIOUS
<1>1. SessionsKept /\ PageTypes' /\ LedgerStep
  BY SessionsMove, PageMoves, LedgerMoves
<1>2. /\ work' \in Seq(Works)
      /\ \A i \in DOMAIN work' : InOrder(work'[i]) /\ work'[i].user \in 0 .. created'
                                 /\ work'[i].cookie \in 0 .. created'
  <2>1. ASSUME NEW w, WorkTypes(w, created'), WorkNext(w)
        PROVE  /\ work' \in Seq(Works)
               /\ \A i \in DOMAIN work' : InOrder(work'[i]) /\ work'[i].user \in 0 .. created'
                                          /\ work'[i].cookie \in 0 .. created'
    BY <1>1, <2>1, WorkTypesKept DEF WorkNext, SessionsKept
  <2>2. CASE work' = work
    <3>1. work \in Seq(Works)
      BY DEF DeskTypes
    <3>2. \A i \in DOMAIN work : WorkTypes(work[i], created')
      BY <1>1, OldWork
    <3> QED
      BY <2>2, <3>1, <3>2 DEF WorkTypes
  <2> QED
    BY <2>1, <2>2, WorkMoves
<1> QED
  BY <1>1, <1>2 DEF DeskTypes, SessionsKept, PageTypes, LedgerStep, InOrder

LEMMA DeskTypesStart == Init => DeskTypes
<1> SUFFICES ASSUME Init PROVE DeskTypes
  OBVIOUS
<1>1. /\ created \in {0, 1} /\ alive = 1 .. created /\ managers = alive /\ cookie = created
      /\ session = 0 /\ selectedIds = {}
  BY DEF Init
<1>2. /\ created \in Nat /\ alive \subseteq 1 .. created /\ managers \subseteq 1 .. created
      /\ cookie \in 0 .. created /\ session \in 0 .. created /\ selectedIds \subseteq Drafts
  BY <1>1
<1>3. listed \in Listing
  BY NoListType DEF Init
<1>4. currentId \in Openable
  BY DEF Init, Openable
<1>5. status \in [Drafts -> Statuses]
  BY DEF Init, Statuses
<1>6. decided \in [Drafts -> Entries]
  <2>1. Undecided \in Entries
    BY DEF Undecided, Entries, Verdicts, Numbers
  <2> QED
    BY <2>1 DEF Init
<1> DEFINE w == Waits("start", "session", "", {})
<1>7. w \in Works /\ InOrder(w) /\ w.user \in 0 .. created /\ w.cookie \in 0 .. created
  <2>1. PICK does, at, what : does = "start" /\ at = "session" /\ what = ""
    OBVIOUS
  <2> DEFINE u == [does |-> does, at |-> at, what |-> what, drafts |-> {}, opens |-> what,
                   token |-> session, cookie |-> cookie, reply |-> "sent", seen |-> NoList,
                   user |-> 0]
  <2>2. w = u
    BY <2>1 DEF Waits
  <2>3. u \in Works
    <3>1. does \in Doings /\ at \in Stages /\ what \in Verdicts /\ "sent" \in Replies
      BY <2>1 DEF Doings, Stages, Verdicts, Replies
    <3>2. what \in Openable /\ {} \in SUBSET Drafts
      BY <2>1 DEF Openable
    <3>3. session \in Numbers /\ cookie \in Numbers /\ 0 \in Numbers
      BY <1>2 DEF Numbers
    <3> QED
      BY <3>1, <3>2, <3>3, NoListType DEF Works
  <2>4. u.does = does /\ u.at = at /\ u.user = 0 /\ u.cookie = cookie
    OBVIOUS
  <2> HIDE DEF u
  <2>5. InOrder(u)
    BY <2>1, <2>4 DEF InOrder
  <2>6. u.user \in 0 .. created /\ u.cookie \in 0 .. created
    BY <1>2, <2>4
  <2> HIDE DEF w
  <2> QED
    BY <2>2, <2>3, <2>5, <2>6
<1>8. work = <<w>>
  BY DEF Init
<1> HIDE DEF w
<1>9. work \in Seq(Works) /\ \A i \in DOMAIN work : work[i] = w
  BY <1>7, <1>8
<1> QED
  BY <1>2, <1>3, <1>4, <1>5, <1>6, <1>7, <1>9 DEF DeskTypes


-----------------------------------------------------------------------------
(***************************************************************************)
(* Decisions are true.                                                     *)
(***************************************************************************)
LEMMA TakenStays ==
    ASSUME LedgerInv, LedgerStep, NEW what, NEW drafts, Taken(what, drafts)
    PROVE  Taken(what, drafts)'
  BY DEF LedgerInv, LedgerStep, Taken

LEMMA WorkTakenStays ==
    ASSUME LedgerInv, LedgerStep, NEW w, WorkTaken(w) PROVE WorkTaken(w)'
<1>1. Taken(w.what, w.drafts) => Taken(w.what, w.drafts)'
  BY TakenStays
<1> QED
  BY <1>1 DEF WorkTaken, Taken

AllTaken == \A i \in DOMAIN work : WorkTaken(work[i])

LEMMA TakenMoves ==
    ASSUME LedgerInv, LedgerStep, AllTaken, NEW w, WorkNext(w), WorkTaken(w)' PROVE AllTaken'
<1> SUFFICES ASSUME NEW j \in DOMAIN work' PROVE WorkTaken(work[j])'
  BY DEF AllTaken
<1>1. CASE work'[j] = w
  BY <1>1 DEF WorkTaken, Taken
<1>2. ASSUME NEW k \in DOMAIN work, work'[j] = work[k] PROVE WorkTaken(work[j])'
  <2>1. PICK v : v = work[k]
    OBVIOUS
  <2>2. WorkTaken(v)'
    BY <2>1, WorkTakenStays DEF AllTaken
  <2> QED
    BY <1>2, <2>1, <2>2 DEF WorkTaken, Taken
<1> QED
  BY <1>1, <1>2 DEF WorkNext

LEMMA ServedTaken ==
    ASSUME DeskTypes, LedgerInv, LedgerStep, AllTaken, NEW i \in DOMAIN work, NEW w, ServedTo(i, w)
    PROVE  WorkTaken(w)'
<1>1. PICK v : v = work[i]
  OBVIOUS
<1>2. WorkTaken(v) /\ WorkTaken(v)'
  BY <1>1, WorkTakenStays DEF AllTaken
<1>3. w.does = v.does /\ w.what = v.what /\ w.drafts = v.drafts /\ w.at = v.at /\ v \in Works
  BY <1>1, WorkFacts DEF ServedTo, Returned, Same
<1>4. ASSUME w.does \in {"decide", "batch"}, w.at = "post", w.reply = "ok"
      PROVE  Taken(w.what, w.drafts)'
  <2>1. Enter(v, w.drafts) /\ authorize(v)
    BY <1>1, <1>4 DEF ServedTo
  <2>2. v.token # 0
    <3>1. v.token \in alive /\ 0 \notin alive
      BY <2>1 DEF authorize, DeskTypes
    <3> QED
      BY <3>1
  <2>3. w.drafts \subseteq Drafts
    BY <1>3 DEF Works
  <2>4. \A d \in w.drafts : decided'[d] = [what |-> v.what, by |-> v.cookie, badge |-> v.token]
    BY <2>1, <2>3 DEF Enter
  <2>5. \A d \in w.drafts : decided'[d].what = v.what /\ decided'[d].badge = v.token
    BY <2>4
  <2> QED
    BY <1>3, <2>2, <2>3, <2>5 DEF Taken
<1>5. ASSUME w.does \in {"decide", "batch"}, w.at # "post" PROVE Taken(w.what, w.drafts)'
  BY <1>2, <1>3, <1>5 DEF WorkTaken, Taken
<1> QED
  BY <1>4, <1>5 DEF WorkTaken, Taken

LEMMA AllTakenKept ==
    DeskTypes /\ LedgerInv /\ AllTaken /\ [Next]_vars => AllTaken'
<1> SUFFICES ASSUME DeskTypes, LedgerInv, AllTaken, [Next]_vars PROVE AllTaken'
  OBVIOUS
<1>0. LedgerStep /\ SessionsKept
  BY LedgerMoves, SessionsMove
<1>1. CASE work' = work
  <2> SUFFICES ASSUME NEW j \in DOMAIN work PROVE WorkTaken(work[j])'
    BY <1>1 DEF AllTaken
  <2>1. PICK v : v = work[j]
    OBVIOUS
  <2>2. WorkTaken(v)'
    BY <1>0, <2>1, WorkTakenStays DEF AllTaken
  <2> QED
    BY <1>1, <2>1, <2>2 DEF WorkTaken, Taken
<1>2. CASE Clicks
  <2>1. ASSUME NEW w, NEW does, Starts(w, does), w.at = "post" \/ w.does = "open" PROVE AllTaken'
    <3>1. WorkTaken(w)'
      BY <2>1 DEF WorkTaken, Taken, Starts
    <3> QED
      BY <1>0, <2>1, <3>1, TakenMoves, WorkNexts
  <2> QED
    BY <1>1, <1>2, <2>1, ClickTo
<1>3. ASSUME NEW i \in DOMAIN work, Serve(i) PROVE AllTaken'
  BY <1>0, <1>3, ServeTo, ServedWork, ServedTaken, TakenMoves
<1>4. ASSUME NEW i \in DOMAIN work, Finish(i) PROVE AllTaken'
  <2>1. PICK v : v = work[i]
    OBVIOUS
  <2>2. WorkTaken(v)' /\ WorkNext(v)
    BY <1>0, <1>4, <2>1, WorkTakenStays, WorkNexts DEF AllTaken
  <2> QED
    BY <1>0, <2>2, TakenMoves
<1>5. ASSUME NEW i \in DOMAIN work, Arrives(i) PROVE AllTaken'
  <2>1. ASSUME NEW w, GoesOn(i, w) PROVE AllTaken'
    <3>1. PICK v : v = work[i]
      OBVIOUS
    <3>2. v.reply = "ok" /\ WorkTaken(v)'
      BY <1>0, <1>5, <3>1, WorkTakenStays DEF AllTaken, Arrives
    <3>3. w.does = v.does /\ w.what = v.what /\ w.drafts = v.drafts
      BY <2>1, <3>1 DEF GoesOn, Same
    <3>4. WorkTaken(w)'
      BY <3>2, <3>3 DEF WorkTaken, Taken
    <3>5. WorkNext(w)
      BY <2>1, WorkNexts DEF GoesOn, WorkTypes
    <3> QED
      BY <1>0, <3>4, <3>5, TakenMoves
  <2> QED
    BY <1>4, <1>5, <2>1, ArrivesTo
<1>6. ASSUME NEW i \in DOMAIN work, Fails(i) PROVE AllTaken'
  <2>1. ASSUME NEW w, w \in Works, w.does = "apology", work' = Append(RemoveAt(work, i), w)
        PROVE  AllTaken'
    <3>1. WorkTaken(w)'
      BY <2>1 DEF WorkTaken, Taken
    <3> QED
      BY <1>0, <2>1, <3>1, TakenMoves, WorkNexts
  <2> QED
    BY <1>4, <1>6, <2>1, FailsTo DEF WorkTypes
<1> QED
  BY <1>1, <1>2, <1>3, <1>5, <1>6 DEF Next, Refused, Lost, Elsewhere, vars

LEMMA Messages ==
    /\ Silence.kind # "ok" /\ Error.kind # "ok"
    /\ \A i : /\ Says(i).kind = "ok" /\ Says(i).does = work[i].does
              /\ Says(i).what = work[i].what /\ Says(i).drafts = work[i].drafts
  BY DEF Silence, Error, Says

\* what the page says is new only when the server has answered
LEMMA ResultMoves ==
    ASSUME DeskTypes, [Next]_vars
    PROVE  \/ result' = result \/ result' = Silence \/ result' = Error
           \/ \E i \in DOMAIN work : /\ result' = Says(i) /\ work[i].at # "post"
                                     /\ work[i].does \in {"decide", "batch"}
<1>1. CASE Clicks
  BY <1>1 DEF Clicks, openDraft, toggleSelected, decide, batchApprove, login, logout, deskVars
<1>2. ASSUME NEW i \in DOMAIN work, Serve(i) PROVE result' = result
  BY <1>2 DEF Serve, deskVars
<1>3. ASSUME NEW i \in DOMAIN work, Arrives(i)
      PROVE  \/ result' = result
             \/ /\ result' = Says(i) /\ work[i].at # "post" /\ work[i].does \in {"decide", "batch"}
  <2>1. CASE ReportsRead(i) \/ ImpactRead(i)
    BY <2>1 DEF ReportsRead, ImpactRead
  <2>2. CASE ~(ReportsRead(i) \/ ImpactRead(i))
    BY <1>3, <2>2 DEF Arrives, SessionRead, LoggedIn, LoggedOut, Decided, QueueRead, DetailRead,
       Forget, deskVars
  <2> QED
    BY <2>1, <2>2
<1>4. ASSUME NEW i \in DOMAIN work, Fails(i)
      PROVE  \/ result' = result \/ result' = Error
             \/ /\ result' = Says(i) /\ work[i].at # "post" /\ work[i].does \in {"decide", "batch"}
  <2>1. CASE DecideFails(i)
    BY <2>1 DEF DecideFails
  <2>2. CASE ~DecideFails(i)
    BY <1>4, <2>2 DEF Fails, NothingComes, LogoutFails, OpenFails, BatchFails, Forget, deskVars
  <2> QED
    BY <2>1, <2>2
<1>5. CASE Elsewhere \/ UNCHANGED vars
  BY <1>5 DEF Elsewhere, vars, deskVars
<1> QED
  BY <1>1, <1>2, <1>3, <1>4, <1>5 DEF Next, Refused, Lost

LEMMA TakenKept ==
    DeskTypes /\ LedgerInv /\ TakenInv /\ [Next]_vars => LedgerInv' /\ TakenInv'
<1> SUFFICES ASSUME DeskTypes, LedgerInv, TakenInv, [Next]_vars PROVE LedgerInv' /\ TakenInv'
  OBVIOUS
<1>1. LedgerStep /\ AllTaken /\ AllTaken'
  BY LedgerMoves, AllTakenKept DEF TakenInv, AllTaken
<1>2. result'.kind = "ok" => Taken(result.what, result.drafts)'
  <2>1. CASE result' = result
    <3>1. PICK what, drafts : what = result.what /\ drafts = result.drafts
      OBVIOUS
    <3>2. result.kind = "ok" => Taken(what, drafts)'
      BY <1>1, <3>1, TakenStays DEF TakenInv
    <3> QED
      BY <2>1, <3>1, <3>2 DEF Taken
  <2>2. CASE result' = Silence \/ result' = Error
    BY <2>2, Messages
  <2>3. ASSUME NEW i \in DOMAIN work, result' = Says(i), work[i].at # "post",
               work[i].does \in {"decide", "batch"}
        PROVE  Taken(result.what, result.drafts)'
    <3>1. PICK what, drafts : what = work[i].what /\ drafts = work[i].drafts
      OBVIOUS
    <3>2. Taken(what, drafts)
      BY <1>1, <2>3, <3>1 DEF AllTaken, WorkTaken
    <3>3. Taken(what, drafts)'
      BY <1>1, <3>2, TakenStays
    <3>4. result'.what = what /\ result'.drafts = drafts
      BY <2>3, <3>1, Messages
    <3> QED
      BY <3>3, <3>4 DEF Taken
  <2> QED
    BY <2>1, <2>2, <2>3, ResultMoves
<1> QED
  BY <1>1, <1>2 DEF TakenInv, AllTaken, LedgerStep

LEMMA TakenStarts == Init => LedgerInv /\ TakenInv
<1> SUFFICES ASSUME Init PROVE LedgerInv /\ TakenInv
  OBVIOUS
<1>1. Undecided.badge = 0
  BY DEF Undecided
<1>2. LedgerInv
  BY <1>1 DEF Init, LedgerInv
<1> DEFINE w == Waits("start", "session", "", {})
<1>3. w.does = "start"
  BY DEF Waits
<1>4. work = <<w>> /\ result = Silence
  BY DEF Init
<1> HIDE DEF w
<1>5. \A i \in DOMAIN work : work[i] = w
  BY <1>4
<1>6. AllTaken
  BY <1>3, <1>5 DEF AllTaken, WorkTaken
<1> QED
  BY <1>2, <1>4, <1>6, Messages DEF TakenInv, AllTaken

(***************************************************************************)
(* A decision enters the records in the name the page showed, and what the *)
(* page reports as decided is decided that way, with any number of windows *)
(* and of reviewers, whatever fails.  (authorize, main.py; decide,         *)
(* batchApprove.)                                                          *)
(***************************************************************************)
THEOREM DecisionsHold == Spec => []DecisionsAreTrue
<1> DEFINE Inv == DeskTypes /\ LedgerInv /\ TakenInv
<1>1. Init => Inv
  BY DeskTypesStart, TakenStarts
<1>2. Inv /\ [Next]_vars => Inv'
  BY DeskTypesKept, TakenKept
<1>3. Inv => DecisionsAreTrue
  BY DEF LedgerInv, TakenInv, Taken, DecisionsAreTrue
<1> QED
  BY <1>1, <1>2, <1>3, PTL DEF Spec


-----------------------------------------------------------------------------
(***************************************************************************)
(* The patient reviewer.  First, what others do cannot change.             *)
(***************************************************************************)
LEMMA CutStays ==
    ASSUME DeskTypes, SessionsKept, session' = session, cookie' = cookie \/ cookie' = created + 1
    PROVE  /\ Cut => Cut'
           /\ \A c \in 0 .. created : c # session /\ cookie # session => cookie' # session'
<1>1. created \in Nat /\ session \in 0 .. created /\ cookie \in 0 .. created
  BY DEF DeskTypes
<1>2. session # created + 1
  BY <1>1
<1>3. cookie # session => cookie' # session'
  BY <1>2
<1>4. session \notin alive => session' \notin alive'
  BY <1>2 DEF SessionsKept
<1> QED
  BY <1>3, <1>4 DEF Cut

LEMMA AuthorizeStays ==
    ASSUME DeskTypes, SessionsKept, NEW w, w.cookie \in 0 .. created, ~authorize(w)
    PROVE  ~authorize(w)'
<1>1. w.cookie # created + 1
  BY DEF DeskTypes
<1> QED
  BY <1>1 DEF authorize, SessionsKept

LEMMA SteadyStays ==
    ASSUME DeskTypes, SessionsKept, UNCHANGED deskVars, cookie' = cookie \/ cookie' = created + 1,
           NEW w, w.cookie \in 0 .. created, Steady(w)
    PROVE  Steady(w)'
<1>1. /\ Cut => Cut'
      /\ w.cookie # session /\ cookie # session => cookie' # session'
      /\ ~authorize(w) => ~authorize(w)'
  BY CutStays, AuthorizeStays DEF deskVars
<1>2. isManager => isManager'
  BY DEF isManager, SessionsKept, deskVars
<1>3. /\ reviewing' = reviewing /\ currentId' = currentId /\ session' = session
      /\ detail' = detail /\ result' = result
  BY DEF deskVars
<1>4. SaysDecided' = SaysDecided /\ decisionBlock' = decisionBlock
  BY <1>3 DEF SaysDecided, decisionBlock
<1> QED
  BY <1>1, <1>2, <1>3, <1>4 DEF Steady

LEMMA ShownStays ==
    ASSUME DeskTypes, SessionsKept, cookie' = cookie \/ cookie' = created + 1, Shown,
           UNCHANGED <<session, currentId, detail, result>>
    PROVE  Shown'
<1>1. Cut => Cut'
  BY CutStays
<1> QED
  BY <1>1 DEF Shown, SaysDecided, decisionBlock

LEMMA PageStays ==
    ASSUME SessionsKept, PageOK, UNCHANGED <<session, currentId, result>>, reviewing' => reviewing
    PROVE  PageOK'
  BY DEF PageOK, SaysDecided, isManager, SessionsKept

LEMMA PatientEmpty ==
    ASSUME Len(work') = 0, DOMAIN work' = {}, PageOK', reviewing' => Shown' PROVE PatientInv'
  BY DEF PatientInv

LEMMA PatientSingle ==
    ASSUME NEW w, Len(work') = 1, \A j \in DOMAIN work' : work'[j] = w, DOMAIN work' # {},
           PageOK', Steady(w)', reviewing' /\ ~Opening(w) => Shown'
    PROVE  PatientInv'
<1>1. \A j \in DOMAIN work' : Steady(work[j])'
  BY DEF Steady, authorize
<1>2. (\A j \in DOMAIN work' : ~Opening(work'[j])) => ~Opening(w)
  OBVIOUS
<1> QED
  BY <1>1, <1>2 DEF PatientInv, Opening

\* one piece of work at most: it goes on, ends or is replaced
LEMMA OneLeft ==
    ASSUME DeskTypes, Len(work) <= 1, NEW i \in DOMAIN work
    PROVE  /\ \A w \in Works :
                work' = [work EXCEPT ![i] = w] \/ work' = Append(RemoveAt(work, i), w)
                  => Len(work') = 1 /\ DOMAIN work' # {} /\ \A j \in DOMAIN work' : work'[j] = w
           /\ Finish(i) => Len(work') = 0 /\ DOMAIN work' = {}
           /\ \A j \in DOMAIN work : j = i
<1>1. work \in Seq(Works) /\ DOMAIN work = 1 .. Len(work) /\ Len(work) \in Nat
  BY WorkFacts DEF DeskTypes
<1>2. Len(work) = 1 /\ i = 1 /\ \A j \in DOMAIN work : j = 1
  BY <1>1
<1>3. RemoveAt(work, i) \in Seq(Works) /\ Len(RemoveAt(work, i)) = 0
  BY <1>1, <1>2, RemoveFacts
<1>4. \A s \in Seq(Works) : Len(s) = 0 => DOMAIN s = {}
  OBVIOUS
<1>5. Finish(i) => Len(work') = 0 /\ DOMAIN work' = {}
  BY <1>3, <1>4 DEF Finish
<1>6. ASSUME NEW w \in Works, work' = [work EXCEPT ![i] = w]
      PROVE  Len(work') = 1 /\ DOMAIN work' # {} /\ \A j \in DOMAIN work' : work'[j] = w
  BY <1>1, <1>2, <1>6
<1>7. ASSUME NEW w \in Works, work' = Append(RemoveAt(work, i), w)
      PROVE  Len(work') = 1 /\ DOMAIN work' # {} /\ \A j \in DOMAIN work' : work'[j] = w
  <2>1. ASSUME NEW s \in Seq(Works), Len(s) = 0
        PROVE  Len(Append(s, w)) = 1 /\ DOMAIN Append(s, w) # {}
               /\ \A j \in DOMAIN Append(s, w) : Append(s, w)[j] = w
    BY <2>1
  <2> QED
    BY <1>3, <1>7, <2>1
<1> QED
  BY <1>2, <1>5, <1>6, <1>7

LEMMA OneStarts ==
    ASSUME DeskTypes, work = <<>>, NEW w, w \in Works, work' = Append(work, w)
    PROVE  Len(work') = 1 /\ DOMAIN work' # {} /\ \A j \in DOMAIN work' : work'[j] = w
  OBVIOUS


(***************************************************************************)
(* The steps of a patient reviewer.                                        *)
(***************************************************************************)
Patient == PatientInv /\ ~muddled

LEMMA PatientFacts ==
    ASSUME Patient
    PROVE  /\ Len(work) <= 1 /\ PageOK
           /\ \A i \in DOMAIN work : Steady(work[i])
           /\ reviewing /\ (\A i \in DOMAIN work : ~Opening(work[i])) => Shown
  BY DEF Patient, PatientInv

LEMMA PatientElsewhere ==
    ASSUME DeskTypes, [Next]_vars, Patient, UNCHANGED <<deskVars, work>>,
           cookie' = cookie \/ cookie' = created + 1
    PROVE  PatientInv'
<1>0. SessionsKept
  BY SessionsMove
<1>1. PageOK'
  BY <1>0, PatientFacts, PageStays DEF deskVars
<1>2. ASSUME NEW i \in DOMAIN work PROVE Steady(work[i])'
  <2>1. PICK w : w = work[i]
    OBVIOUS
  <2>2. Steady(w) /\ w.cookie \in 0 .. created
    BY <2>1, PatientFacts DEF DeskTypes
  <2>3. Steady(w)'
    BY <1>0, <2>2, SteadyStays
  <2> QED
    BY <2>1, <2>3 DEF Steady, authorize
<1>3. Shown => Shown'
  BY <1>0, ShownStays DEF deskVars
<1>4. reviewing' /\ (\A i \in DOMAIN work' : ~Opening(work'[i])) => Shown'
  BY <1>3, PatientFacts DEF deskVars
<1>5. Len(work') <= 1
  BY PatientFacts
<1> QED
  BY <1>1, <1>2, <1>4, <1>5 DEF PatientInv, Steady, Opening

\* what the server answered, a patient reviewer's page can draw
LEMMA SteadyServed ==
    ASSUME DeskTypes, [Next]_vars, LedgerInv, TakenInv, Patient, NEW i \in DOMAIN work, Serve(i),
           NEW w, ServedTo(i, w)
    PROVE  Steady(w)'
<1>1. PICK v : v = work[i]
  OBVIOUS
<1>0. SessionsKept /\ cookie' = cookie /\ UNCHANGED deskVars
  BY SessionsMove DEF Serve
<1>2. /\ w.does = v.does /\ w.what = v.what /\ w.drafts = v.drafts /\ w.token = v.token
      /\ w.at = v.at /\ w.opens = v.opens /\ w.cookie = v.cookie
      /\ w.reply \in {"ok", "refused"} /\ w \in Works
  BY <1>1 DEF ServedTo, Returned, Same
<1>3. Steady(v) /\ WorkTaken(v)
  BY <1>1, PatientFacts DEF TakenInv
<1>4. w.cookie \in 0 .. created
  BY <1>1, <1>2 DEF DeskTypes
<1>5. ASSUME w.does \in {"open", "decide"}, w.at = "detail", w.reply = "refused" PROVE Cut
  <2>1. w.opens # "" /\ isManager
    BY <1>2, <1>3, <1>5 DEF Steady
  <2>2. w.cookie \notin alive \cap managers
    BY <1>5, <2>1 DEF ServedTo
  <2>3. w.cookie # session => cookie # session
    BY <1>2, <1>3, <1>5 DEF Steady
  <2> QED
    BY <2>1, <2>2, <2>3 DEF isManager, Cut
<1>6. ASSUME w.does \in {"open", "decide"}, w.at = "detail", w.reply = "ok",
             w.does = "decide" \/ SaysDecided
      PROVE  w.seen[w.opens] # "pending"
  <2>1. w.seen = status
    BY <1>6 DEF ServedTo
  <2>2. w.opens = currentId /\ currentId # "" /\ (w.does = "decide" => w.drafts = {currentId})
    BY <1>2, <1>3, <1>6 DEF Steady
  <2>3. CASE w.does = "decide"
    <3>1. Taken(v.what, v.drafts)
      BY <1>2, <1>3, <1>6, <2>3 DEF WorkTaken
    <3>2. currentId \in v.drafts
      BY <1>2, <2>2, <2>3
    <3> QED
      BY <2>1, <2>2, <3>1, <3>2 DEF Taken, LedgerInv
  <2>4. CASE SaysDecided
    <3>1. Taken(result.what, result.drafts)
      BY <2>4 DEF SaysDecided, TakenInv
    <3>2. currentId \in result.drafts
      BY <2>2, <2>4, PatientFacts DEF PageOK
    <3> QED
      BY <2>1, <2>2, <3>1, <3>2 DEF Taken, LedgerInv
  <2> QED
    BY <1>6, <2>3, <2>4
<1>7. ASSUME w.does \in {"decide", "batch"}, reviewing, detail.id # currentId
      PROVE  w.at = "post" /\ w.reply # "ok" /\ ~authorize(w)
  <2>1. v.at = "post" /\ ~authorize(v)
    BY <1>2, <1>3, <1>7 DEF Steady
  <2>2. w.reply # "ok"
    BY <1>1, <1>2, <1>7, <2>1 DEF ServedTo
  <2> QED
    BY <1>2, <2>1, <2>2 DEF authorize
<1>8. Steady(w)
  BY <1>2, <1>3, <1>5, <1>6, <1>7 DEF Steady
<1> QED
  BY <1>0, <1>4, <1>8, SteadyStays

LEMMA PatientServe ==
    ASSUME DeskTypes, [Next]_vars, LedgerInv, TakenInv, Patient, NEW i \in DOMAIN work, Serve(i)
    PROVE  PatientInv'
<1>0. SessionsKept /\ cookie' = cookie /\ UNCHANGED deskVars
  BY SessionsMove DEF Serve
<1>1. PICK w : ServedTo(i, w)
  BY ServeTo
<1>2. Steady(w)'
  BY <1>1, SteadyServed
<1>3. Len(work') = 1 /\ DOMAIN work' # {} /\ \A j \in DOMAIN work' : work'[j] = w
  BY <1>1, PatientFacts, OneLeft DEF ServedTo, Returned
<1>4. PageOK'
  BY <1>0, PatientFacts, PageStays DEF deskVars
<1>5. reviewing' /\ ~Opening(w) => Shown'
  <2>1. ~Opening(w) => \A j \in DOMAIN work : ~Opening(work[j])
    BY <1>1, PatientFacts, OneLeft DEF ServedTo, Returned, Same, Opening
  <2> QED
    BY <1>0, <2>1, PatientFacts, ShownStays DEF deskVars
<1> QED
  BY <1>2, <1>3, <1>4, <1>5, PatientSingle

LEMMA PatientClicks ==
    ASSUME DeskTypes, [Next]_vars, Patient, Clicks, ~muddled' PROVE PatientInv'
<1>0. /\ work = <<>> /\ cookie' = cookie /\ UNCHANGED serverVars /\ SessionsKept
      /\ PageOK /\ DOMAIN work = {}
  <2>1. work = <<>>
    BY DEF Clicks, Click, Patient
  <2> QED
    BY <2>1, PatientFacts, SessionsMove DEF Clicks, Click
<1>1. reviewing => Shown
  BY <1>0, PatientFacts
<1>2. ASSUME NEW w, NEW does, Starts(w, does), PageOK', Steady(w)', reviewing' /\ ~Opening(w) => Shown'
      PROVE  PatientInv'
  BY <1>0, <1>2, OneStarts, PatientSingle DEF Starts, WorkTypes
<1>3. ASSUME NEW d \in Drafts, openDraft(d) PROVE PatientInv'
  <2>1. PICK w : Starts(w, "open") /\ w.at = "detail" /\ w.opens = d
    BY <1>3, OpenTo
  <2>2. /\ w.does = "open" /\ w.reply = "sent" /\ w.cookie = cookie
    BY <2>1 DEF Starts
  <2>3. /\ currentId' = d /\ session' = session /\ reviewing' = reviewing /\ isManager
        /\ result' = IF d = currentId THEN result ELSE Silence
    BY <1>3 DEF openDraft
  <2>4. d # ""
    BY DeskAssumption
  <2>5. isManager'
    BY <1>0, <2>3 DEF isManager, SessionsKept
  <2>6. Steady(w)'
    BY <1>0, <2>1, <2>2, <2>3, <2>4, <2>5 DEF Steady
  <2>7. PageOK'
    <3>1. CASE d = currentId
      BY <1>0, <2>3, <2>4, <2>5, <3>1 DEF PageOK, SaysDecided
    <3>2. CASE d # currentId
      BY <2>3, <2>4, <2>5, <3>2, Messages DEF PageOK, SaysDecided
    <3> QED
      BY <3>1, <3>2
  <2> QED
    BY <1>2, <2>1, <2>2, <2>6, <2>7 DEF Opening
<1>4. ASSUME NEW d \in Drafts, toggleSelected(d) PROVE PatientInv'
  <2>1. UNCHANGED <<session, currentId, detail, reviewing, result, work>>
    BY <1>4 DEF toggleSelected
  <2>2. PageOK'
    BY <1>0, <2>1, PageStays
  <2>3. reviewing' => Shown'
    BY <1>0, <1>1, <2>1, ShownStays
  <2>4. Len(work') = 0 /\ DOMAIN work' = {}
    BY <1>0, <2>1
  <2> QED
    BY <2>2, <2>3, <2>4, PatientEmpty
<1>5. ASSUME UNCHANGED deskVars, NEW w, NEW does, Starts(w, does), w.at = "post",
             does \in {"login", "logout", "decide", "batch"},
             does = "login" => ~isManager,
             does = "decide" => isManager /\ currentId # "" /\ w.drafts = {currentId}
      PROVE  PatientInv'
  <2>1. w.does = does /\ w.reply = "sent" /\ w.cookie = cookie /\ w.token = session
    BY <1>5 DEF Starts
  <2>2. PageOK'
    BY <1>0, <1>5, PageStays DEF deskVars
  <2>3. reviewing => Shown
    BY <1>1
  <2>4. reviewing => isManager
    BY <1>0 DEF PageOK
  <2>5. Cut => ~authorize(w)
    BY <2>1 DEF Cut, authorize
  <2>6. reviewing /\ detail.id # currentId => ~authorize(w)
    BY <2>3, <2>5 DEF Shown
  <2>7. Steady(w)
    BY <1>5, <2>1, <2>4, <2>6 DEF Steady
  <2>8. Steady(w)'
    <3>1. w.cookie \in 0 .. created
      BY <1>5 DEF Starts, WorkTypes
    <3> QED
      BY <1>0, <1>5, <2>7, <3>1, SteadyStays
  <2>9. reviewing' => Shown'
    BY <1>0, <1>1, <1>5, ShownStays DEF deskVars
  <2> QED
    BY <1>2, <1>5, <2>2, <2>8, <2>9
<1>6. ASSUME NEW what \in {"approve", "reject"}, decide(what) PROVE PatientInv'
  <2>1. {currentId} \in SUBSET Drafts /\ Start(Waits("decide", "post", what, {currentId}))
        /\ isManager /\ currentId # "" /\ UNCHANGED deskVars
    BY <1>6 DEF decide, DeskTypes, Openable
  <2>2. what \in Verdicts
    BY DEF Verdicts
  <2>3. PICK w : Starts(w, "decide") /\ w.at = "post" /\ w.drafts = {currentId}
    BY <2>1, <2>2, PostTo
  <2> QED
    BY <1>5, <2>1, <2>3
<1>7. CASE batchApprove
  <2>1. selectedIds \in SUBSET Drafts /\ Start(Waits("batch", "post", "approve", selectedIds))
        /\ UNCHANGED deskVars
    BY <1>7 DEF batchApprove, DeskTypes
  <2>2. "approve" \in Verdicts
    BY DEF Verdicts
  <2>3. PICK w : Starts(w, "batch") /\ w.at = "post"
    BY <2>1, <2>2, PostTo
  <2> QED
    BY <1>5, <2>1, <2>3
<1>8. CASE login \/ logout
  <2>1. PICK does \in {"login", "logout"} :
           Start(Waits(does, "post", "", {})) /\ (does = "login" => ~isManager)
    BY <1>8 DEF login, logout
  <2>2. "" \in Verdicts /\ {} \in SUBSET Drafts /\ UNCHANGED deskVars
    BY <1>8 DEF Verdicts, login, logout
  <2>3. PICK what, drafts : what = "" /\ drafts = {}
    OBVIOUS
  <2>4. does \in {"login", "logout", "decide", "batch"} /\ Start(Waits(does, "post", what, drafts))
    BY <2>1, <2>3
  <2>5. what \in Verdicts /\ drafts \in SUBSET Drafts
    BY <2>2, <2>3
  <2>6. \E w : Starts(w, does) /\ w.at = "post" /\ w.drafts = drafts
    BY <2>4, <2>5, PostTo
  <2>7. PICK w : Starts(w, does) /\ w.at = "post"
    BY <2>6
  <2> QED
    BY <1>5, <2>1, <2>2, <2>7
<1> QED
  BY <1>3, <1>4, <1>6, <1>7, <1>8 DEF Clicks


\* the piece that goes on is the only one
LEMMA PatientGoesOn ==
    ASSUME DeskTypes, Patient, NEW i \in DOMAIN work, NEW w, GoesOn(i, w),
           PageOK', Steady(w)', reviewing' /\ ~Opening(w) => Shown'
    PROVE  PatientInv'
<1>1. Len(work') = 1 /\ DOMAIN work' # {} /\ \A j \in DOMAIN work' : work'[j] = w
  BY PatientFacts, OneLeft DEF GoesOn, WorkTypes
<1> QED
  BY <1>1, PatientSingle

LEMMA PatientFinishes ==
    ASSUME DeskTypes, Patient, NEW i \in DOMAIN work, Finish(i), PageOK', reviewing' => Shown'
    PROVE  PatientInv'
  BY PatientFacts, OneLeft, PatientEmpty

\* what a piece of work that is not opening a draft finds on the page
LEMMA ShownTo ==
    ASSUME DeskTypes, Patient, NEW i \in DOMAIN work, ~Opening(work[i])
    PROVE  reviewing => Shown
<1>1. \A j \in DOMAIN work : ~Opening(work[j])
  BY PatientFacts, OneLeft
<1> QED
  BY <1>1, PatientFacts

LEMMA PatientForgets ==
    ASSUME DeskTypes, Patient, NEW i \in DOMAIN work, Forget, Finish(i) PROVE PatientInv'
<1>1. PageOK' /\ ~reviewing'
  BY DEF Forget, PageOK, SaysDecided
<1> QED
  BY <1>1, PatientFinishes

LEMMA PatientSessionRead ==
    ASSUME DeskTypes, [Next]_vars, Patient, NEW i \in DOMAIN work, SessionRead(i)
    PROVE  PatientInv'
<1>1. work[i].does \in {"start", "login"}
  BY DEF SessionRead, DeskTypes, InOrder
<1>2. ~reviewing /\ ~reviewing'
  BY <1>1, PatientFacts DEF Steady, SessionRead
<1>3. PageOK'
  BY <1>2, PatientFacts DEF PageOK, SaysDecided, SessionRead
<1>4. ASSUME NEW w, GoesOn(i, w) PROVE PatientInv'
  <2>1. w.does \in {"start", "login"}
    BY <1>1, <1>4 DEF GoesOn, Same
  <2>2. Steady(w)'
    BY <1>2, <2>1 DEF Steady
  <2> QED
    BY <1>2, <1>3, <1>4, <2>2, PatientGoesOn
<1>5. CASE Finish(i)
  BY <1>2, <1>3, <1>5, PatientFinishes
<1>6. CASE Continue(i, "queue")
  <2>1. work[i].does \notin {"open", "logout"} /\ cookie' = cookie
    BY <1>1 DEF SessionRead
  <2> QED
    BY <1>4, <1>6, <2>1, ContinueListing
<1> QED
  BY <1>5, <1>6 DEF SessionRead

LEMMA PatientLoggedIn ==
    ASSUME DeskTypes, [Next]_vars, Patient, NEW i \in DOMAIN work, LoggedIn(i) PROVE PatientInv'
<1>1. work[i].does = "login" /\ UNCHANGED deskVars
  BY DEF LoggedIn
<1>2. ~reviewing'
  BY <1>1, PatientFacts DEF Steady, deskVars
<1>3. PageOK'
  BY <1>1, <1>2, PatientFacts DEF PageOK, SaysDecided, deskVars
<1>4. PICK w : GoesOn(i, w) /\ w.does = "login"
  BY LoggedInTo
<1>5. Steady(w)'
  BY <1>2, <1>4 DEF Steady
<1> QED
  BY <1>2, <1>3, <1>4, <1>5, PatientGoesOn

\* a decision goes on from one reading to the next
LEMMA PatientReads ==
    ASSUME DeskTypes, [Next]_vars, Patient, NEW i \in DOMAIN work, work[i].reply = "ok",
           UNCHANGED <<cookie, session, currentId, detail, reviewing, result>>,
           work[i].does \notin {"open", "logout"}, work[i].at # "impact",
           NEW w, GoesOn(i, w), w.at \in {"queue", "reports"}
    PROVE  PatientInv'
<1>0. SessionsKept
  BY SessionsMove
<1>1. PICK v : v = work[i]
  OBVIOUS
<1>2. /\ w.does = v.does /\ w.drafts = v.drafts /\ w.reply = "sent" /\ w.cookie = cookie
      /\ v.reply = "ok" /\ v.does # "open"
  BY <1>1 DEF GoesOn, Same
<1>3. Steady(v) /\ ~Opening(v)
  BY <1>1, <1>2, PatientFacts DEF Opening
<1>4. PageOK'
  BY <1>0, PatientFacts, PageStays
<1>5. reviewing' => Shown'
  BY <1>0, <1>1, <1>3, ShownTo, ShownStays
<1>6. isManager => isManager'
  BY <1>0 DEF isManager, SessionsKept
<1>7. /\ w.does \in {"start", "login"} => ~reviewing'
      /\ w.does = "decide" => isManager' /\ currentId' # "" /\ w.drafts = {currentId'}
      /\ w.does \in {"decide", "batch"} /\ reviewing' => detail'.id = currentId'
  BY <1>2, <1>3, <1>6 DEF Steady
<1>8. Steady(w)'
  BY <1>2, <1>7 DEF Steady
<1> QED
  BY <1>4, <1>5, <1>8, PatientGoesOn

LEMMA PatientReports ==
    ASSUME DeskTypes, [Next]_vars, Patient, NEW i \in DOMAIN work, ReportsRead(i),
           work[i].reply = "ok"
    PROVE  PatientInv'
<1>0. SessionsKept /\ UNCHANGED <<cookie, session, currentId, detail, reviewing>>
  BY SessionsMove DEF ReportsRead
<1>1. PICK v : v = work[i]
  OBVIOUS
<1>2. v.at = "reports" /\ Steady(v) /\ ~Opening(v)
  BY <1>1, PatientFacts DEF ReportsRead, Opening
<1>3. reviewing => Shown
  BY <1>1, <1>2, ShownTo
<1>4. isManager => isManager'
  BY <1>0 DEF isManager, SessionsKept
<1>5. CASE v.does = "decide"
  <2>1. PICK w : GoesOn(i, w) /\ w.at = "detail" /\ w.opens = currentId
    BY <1>1, <1>5, ReopensTo
  <2>2. w.does = "decide" /\ w.drafts = v.drafts /\ w.reply = "sent" /\ w.cookie = cookie
    BY <1>0, <1>1, <1>5, <2>1 DEF GoesOn, Same
  <2>3. result' = result
    BY <1>1, <1>5 DEF ReportsRead
  <2>4. PageOK' /\ (reviewing' => Shown')
    BY <1>0, <1>3, <2>3, PatientFacts, PageStays, ShownStays
  <2>5. /\ isManager' /\ currentId' # "" /\ w.drafts = {currentId'}
        /\ reviewing' => detail'.id = currentId'
    BY <1>0, <1>2, <1>4, <1>5, <2>2 DEF Steady
  <2>6. Steady(w)'
    BY <1>0, <2>1, <2>2, <2>5 DEF Steady
  <2> QED
    BY <2>1, <2>4, <2>6, PatientGoesOn
<1>6. CASE v.does = "batch"
  <2>1. result' = Says(i) /\ Finish(i)
    BY <1>1, <1>6 DEF ReportsRead
  <2>2. ~SaysDecided'
    BY <1>1, <1>6, <2>1, Messages DEF SaysDecided
  <2>3. PageOK'
    BY <1>0, <1>4, <2>2, PatientFacts DEF PageOK
  <2>4. reviewing' => Shown'
    BY <1>0, <1>2, <1>6, <2>2 DEF Steady, Shown
  <2> QED
    BY <2>1, <2>3, <2>4, PatientFinishes
<1>7. CASE v.does \notin {"decide", "batch"}
  <2>1. result' = result /\ Finish(i)
    BY <1>1, <1>7 DEF ReportsRead
  <2>2. PageOK' /\ (reviewing' => Shown')
    BY <1>0, <1>3, <2>1, PatientFacts, PageStays, ShownStays
  <2> QED
    BY <2>1, <2>2, PatientFinishes
<1> QED
  BY <1>5, <1>6, <1>7

LEMMA PatientDetail ==
    ASSUME DeskTypes, [Next]_vars, Patient, NEW i \in DOMAIN work, DetailRead(i),
           work[i].reply = "ok"
    PROVE  PatientInv'
<1>0. SessionsKept /\ UNCHANGED <<cookie, session, currentId, result>> /\ reviewing' = TRUE
  BY SessionsMove DEF DetailRead
<1>1. PICK v : v = work[i]
  OBVIOUS
<1>2. v.at = "detail" /\ Steady(v) /\ v.does \in {"open", "decide"} /\ v.reply = "ok"
  BY <1>1, PatientFacts DEF DetailRead, DeskTypes, InOrder
<1>3. isManager' /\ v.opens = currentId /\ currentId # ""
      /\ (v.does = "decide" => v.drafts = {currentId})
  BY <1>0, <1>2 DEF Steady, isManager, SessionsKept
<1>4. detail'.id = currentId' /\ detail'.status = v.seen[v.opens]
  BY <1>0, <1>1, <1>3 DEF DetailRead
<1>5. v.does = "decide" \/ SaysDecided => decisionBlock'
  BY <1>2, <1>4 DEF Steady, decisionBlock
<1>6. SaysDecided' = SaysDecided
  BY <1>0 DEF SaysDecided
<1>7. PageOK'
  BY <1>0, <1>3, <1>6, PatientFacts DEF PageOK
<1>8. Shown'
  BY <1>4, <1>5, <1>6 DEF Shown
<1>9. PICK w : GoesOn(i, w) /\ w.at = "impact" /\ w.opens = v.opens
  <2>1. PICK at \in Stages : at = "impact"
    BY StageFacts
  <2>2. Continue(i, at)
    BY <2>1 DEF DetailRead
  <2> QED
    BY <1>0, <1>1, <1>2, <2>1, <2>2, ContinueTo
<1>10. w.does = v.does /\ w.drafts = v.drafts /\ w.reply = "sent" /\ w.cookie = cookie
  BY <1>0, <1>1, <1>9 DEF GoesOn, Same
<1>11. Steady(w)'
  BY <1>0, <1>2, <1>3, <1>4, <1>5, <1>9, <1>10 DEF Steady
<1> QED
  BY <1>7, <1>8, <1>9, <1>11, PatientGoesOn

LEMMA PatientImpact ==
    ASSUME DeskTypes, [Next]_vars, Patient, NEW i \in DOMAIN work, ImpactRead(i) PROVE PatientInv'
<1>0. /\ SessionsKept /\ Finish(i)
      /\ UNCHANGED <<cookie, session, currentId, detail, reviewing>>
  BY SessionsMove DEF ImpactRead
<1>1. PICK v : v = work[i]
  OBVIOUS
<1>2. v.at = "impact" /\ Steady(v) /\ ~Opening(v)
  BY <1>1, PatientFacts DEF ImpactRead, Opening
<1>3. reviewing => Shown
  BY <1>1, <1>2, ShownTo
<1>4. CASE v.does = "decide"
  <2>1. result' = Says(i)
    BY <1>1, <1>4 DEF ImpactRead
  <2>2. result'.drafts = {currentId'} /\ isManager' /\ currentId' # ""
    BY <1>0, <1>1, <1>2, <1>4, <2>1, Messages DEF Steady, isManager, SessionsKept
  <2>3. PageOK'
    BY <2>2 DEF PageOK
  <2>4. reviewing' => detail'.id = currentId' /\ decisionBlock'
    BY <1>0, <1>2, <1>4 DEF Steady, decisionBlock
  <2>5. reviewing' => Shown'
    BY <2>4 DEF Shown
  <2> QED
    BY <1>0, <2>3, <2>5, PatientFinishes
<1>5. CASE v.does # "decide"
  <2>1. result' = result
    BY <1>1, <1>5 DEF ImpactRead
  <2>2. PageOK' /\ (reviewing' => Shown')
    BY <1>0, <1>3, <2>1, PatientFacts, PageStays, ShownStays
  <2> QED
    BY <1>0, <2>2, PatientFinishes
<1> QED
  BY <1>4, <1>5

LEMMA PatientArrives ==
    ASSUME DeskTypes, [Next]_vars, Patient, NEW i \in DOMAIN work, Arrives(i) PROVE PatientInv'
<1>0. work[i].reply = "ok" /\ InOrder(work[i])
  BY DEF Arrives, DeskTypes
<1>1. CASE Decided(i)
  <2>1. work[i].does \notin {"open", "logout"} /\ work[i].at # "impact"
        /\ UNCHANGED <<cookie, session, currentId, detail, reviewing, result>>
    BY <1>1 DEF Decided
  <2>2. PICK w : GoesOn(i, w) /\ w.at \in {"queue", "reports"}
    BY <1>1, <2>1, ContinueListing DEF Decided
  <2> QED
    BY <1>0, <2>1, <2>2, PatientReads
<1>2. CASE QueueRead(i)
  <2>1. work[i].does \notin {"open", "logout"} /\ work[i].at # "impact"
        /\ UNCHANGED <<cookie, session, currentId, detail, reviewing, result>>
    BY <1>0, <1>2 DEF QueueRead, InOrder
  <2>2. CASE Finish(i)
    <3>1. reviewing => Shown
      BY <2>1, ShownTo DEF Opening
    <3>2. PageOK' /\ (reviewing' => Shown')
      BY <2>1, <3>1, SessionsMove, PatientFacts, PageStays, ShownStays
    <3> QED
      BY <2>2, <3>2, PatientFinishes
  <2>3. CASE Continue(i, "reports")
    <3>1. PICK w : GoesOn(i, w) /\ w.at \in {"queue", "reports"}
      BY <2>1, <2>3, ContinueListing
    <3> QED
      BY <1>0, <2>1, <3>1, PatientReads
  <2> QED
    BY <1>2, <2>2, <2>3 DEF QueueRead
<1>3. CASE LoggedOut(i)
  BY <1>3, PatientForgets DEF LoggedOut
<1> QED
  BY <1>0, <1>1, <1>2, <1>3, PatientSessionRead, PatientLoggedIn, PatientReports, PatientDetail,
     PatientImpact DEF Arrives


(***************************************************************************)
(* A refusal: the page says what went wrong, or the decision went through  *)
(* before and the session is cut off since.                                *)
(***************************************************************************)
LEMMA PatientError ==
    ASSUME DeskTypes, [Next]_vars, Patient, NEW i \in DOMAIN work, result' = Error,
           UNCHANGED <<cookie, session, currentId, detail, reviewing>>,
           reviewing => detail.id = currentId \/ Cut
    PROVE  PageOK' /\ (reviewing' => Shown')
<1>0. SessionsKept
  BY SessionsMove
<1>1. ~SaysDecided'
  BY Messages DEF SaysDecided
<1>2. result'.kind = "err"
  BY DEF Error, Silence
<1>3. isManager => isManager'
  BY <1>0 DEF isManager, SessionsKept
<1>4. PageOK'
  BY <1>1, <1>3, PatientFacts DEF PageOK
<1>5. Cut => Cut'
  BY <1>0, CutStays
<1> QED
  BY <1>1, <1>2, <1>4, <1>5 DEF Shown

LEMMA PatientFails ==
    ASSUME DeskTypes, [Next]_vars, Patient, NEW i \in DOMAIN work, Fails(i),
           work[i].reply = "refused"
    PROVE  PatientInv'
<1>0. SessionsKept /\ cookie' = cookie
  BY SessionsMove DEF Fails
<1>1. PICK v : v = work[i]
  OBVIOUS
<1>2. Steady(v) /\ InOrder(v) /\ v.reply = "refused"
  BY <1>1, PatientFacts DEF DeskTypes
<1>3. ~Opening(v) => (reviewing => Shown)
  BY <1>1, ShownTo
<1>4. CASE NothingComes(i)
  <2>1. ~Opening(v) /\ UNCHANGED <<session, currentId, detail, reviewing, result>> /\ Finish(i)
    BY <1>1, <1>4 DEF NothingComes, Opening, deskVars
  <2>2. PageOK' /\ (reviewing' => Shown')
    BY <1>0, <1>3, <2>1, PatientFacts, PageStays, ShownStays
  <2> QED
    BY <2>1, <2>2, PatientFinishes
<1>5. CASE LogoutFails(i)
  BY <1>5, PatientForgets DEF LogoutFails
<1>6. CASE OpenFails(i)
  <2>1. /\ v.does = "open" /\ result' = Error /\ Finish(i)
        /\ UNCHANGED <<session, currentId, detail, reviewing>>
    BY <1>1, <1>6 DEF OpenFails
  <2>2. v.at = "detail" => Cut
    BY <1>2, <2>1 DEF Steady
  <2>3. reviewing => detail.id = currentId \/ Cut
    BY <1>3, <2>2 DEF Opening, Shown
  <2> QED
    BY <1>0, <2>1, <2>3, PatientError, PatientFinishes
<1>7. CASE DecideFails(i)
  <2>1. /\ v.does = "decide" /\ Finish(i) /\ ~Opening(v)
        /\ UNCHANGED <<session, currentId, detail, reviewing>>
    BY <1>1, <1>7 DEF DecideFails, Opening
  <2>2. CASE v.at \in {"detail", "impact"}
    <3>1. result' = Says(i)
      BY <1>1, <1>7, <2>2 DEF DecideFails
    <3>2. result'.drafts = {currentId'} /\ isManager' /\ currentId' # ""
      BY <1>0, <1>1, <1>2, <2>1, <3>1, Messages DEF Steady, isManager, SessionsKept
    <3>3. PageOK'
      BY <3>2 DEF PageOK
    <3>4. reviewing => detail.id = currentId
      BY <1>2, <2>1, <2>2 DEF Steady
    <3>5. decisionBlock \/ Cut
      BY <1>2, <2>1, <2>2 DEF Steady
    <3>6. decisionBlock' \/ Cut'
      BY <1>0, <2>1, <3>5, CutStays DEF decisionBlock
    <3>7. reviewing' => Shown'
      BY <2>1, <3>4, <3>6 DEF Shown
    <3> QED
      BY <2>1, <3>3, <3>7, PatientFinishes
  <2>3. CASE v.at \notin {"detail", "impact"}
    <3>1. result' = Error
      BY <1>1, <1>7, <2>3 DEF DecideFails
    <3>2. reviewing => detail.id = currentId \/ Cut
      BY <1>3, <2>1 DEF Shown
    <3> QED
      BY <1>0, <2>1, <3>1, <3>2, PatientError, PatientFinishes
  <2> QED
    BY <2>2, <2>3
<1>8. CASE BatchFails(i)
  <2>1. /\ v.does = "batch" /\ result' = Error /\ ~Opening(v)
        /\ UNCHANGED <<session, currentId, detail, reviewing>>
    BY <1>1, <1>8 DEF BatchFails, Opening
  <2>2. PageOK' /\ (reviewing' => Shown')
    BY <1>0, <1>3, <2>1, PatientError DEF Shown
  <2>3. ASSUME NEW w, w \in Works, w.does = "apology", work' = Append(RemoveAt(work, i), w)
        PROVE  PatientInv'
    <3>1. Len(work') = 1 /\ DOMAIN work' # {} /\ \A j \in DOMAIN work' : work'[j] = w
      BY <2>3, PatientFacts, OneLeft
    <3>2. Steady(w)'
      BY <2>3 DEF Steady
    <3> QED
      BY <2>2, <3>1, <3>2, PatientSingle
  <2>4. CASE Finish(i)
    BY <2>2, <2>4, PatientFinishes
  <2> QED
    BY <2>3, <2>4, FailsTo DEF WorkTypes
<1> QED
  BY <1>4, <1>5, <1>6, <1>7, <1>8 DEF Fails

LEMMA PatientKept ==
    DeskTypes /\ LedgerInv /\ TakenInv /\ PatientInv /\ [Next]_vars => PatientInv'
<1> SUFFICES ASSUME DeskTypes, LedgerInv, TakenInv, PatientInv, [Next]_vars, ~muddled'
             PROVE  PatientInv'
  BY DEF PatientInv
<1>1. CASE Clicks
  <2>1. Patient
    BY <1>1 DEF Clicks, Click, Patient
  <2> QED
    BY <1>1, <2>1, PatientClicks
<1>2. ASSUME NEW i \in DOMAIN work, Serve(i) PROVE PatientInv'
  <2>1. Patient
    BY <1>2 DEF Serve, Patient
  <2> QED
    BY <1>2, <2>1, PatientServe
<1>3. ASSUME NEW i \in DOMAIN work, Arrives(i) PROVE PatientInv'
  <2>1. Patient
    BY <1>3 DEF Arrives, Patient
  <2> QED
    BY <1>3, <2>1, PatientArrives
<1>4. ASSUME NEW i \in DOMAIN work, Refused(i) PROVE PatientInv'
  <2>1. Patient
    BY <1>4 DEF Refused, Patient
  <2> QED
    BY <1>4, <2>1, PatientFails DEF Refused
<1>5. ASSUME NEW i \in DOMAIN work, Lost(i) PROVE PatientInv'
  BY <1>5 DEF Lost
<1>6. CASE Elsewhere \/ UNCHANGED vars
  <2>1. Patient /\ UNCHANGED <<deskVars, work>>
    BY <1>6 DEF Elsewhere, vars, Patient
  <2>2. cookie' = cookie \/ cookie' = created + 1
    BY <1>6 DEF Elsewhere, OtherDecides, OtherLogin, SessionEnds, vars
  <2> QED
    BY <2>1, <2>2, PatientElsewhere
<1> QED
  BY <1>1, <1>2, <1>3, <1>4, <1>5, <1>6 DEF Next

LEMMA PatientStarts == Init => PatientInv
<1> SUFFICES ASSUME Init PROVE PatientInv
  OBVIOUS
<1> DEFINE w == Waits("start", "session", "", {})
<1>1. w.does = "start"
  BY DEF Waits
<1>2. work = <<w>> /\ ~reviewing /\ result = Silence
  BY DEF Init
<1> HIDE DEF w
<1>3. Len(work) <= 1 /\ \A i \in DOMAIN work : work[i] = w
  BY <1>2
<1>4. PageOK
  BY <1>2, Messages DEF PageOK, SaysDecided
<1>5. Steady(w)
  BY <1>1, <1>2 DEF Steady
<1> QED
  BY <1>2, <1>3, <1>4, <1>5 DEF PatientInv

(***************************************************************************)
(* A reviewer who waits for each piece of work, and whose requests are     *)
(* answered, decides on the draft he sees or is told that it could not be  *)
(* opened, whatever other reviewers, windows and the clock do.  (openDraft,*)
(* decide of admin/app.js.)                                                *)
(***************************************************************************)
THEOREM PatientHolds == Spec => []PatientReviewerIsTold
<1> DEFINE Inv == DeskTypes /\ LedgerInv /\ TakenInv /\ PatientInv
<1>1. Init => Inv
  BY DeskTypesStart, TakenStarts, PatientStarts
<1>2. Inv /\ [Next]_vars => Inv'
  BY DeskTypesKept, TakenKept, PatientKept
<1>3. Inv => PatientReviewerIsTold
  <2> SUFFICES ASSUME Inv, ~muddled, reviewing, \A i \in DOMAIN work : work[i].at # "detail"
               PROVE  /\ detail.id = currentId \/ result.kind = "err"
                      /\ result.kind = "ok" /\ result.does = "decide" =>
                           /\ result.drafts = {detail.id}
                           /\ decisionBlock \/ cookie # session \/ session \notin alive
    BY DEF PatientReviewerIsTold
  <2>1. Shown /\ PageOK /\ isManager
    BY DEF PatientInv, PageOK, Opening
  <2>2. detail.id = currentId \/ result.kind = "err"
    BY <2>1 DEF Shown
  <2>3. ASSUME SaysDecided
        PROVE  result.drafts = {detail.id} /\ (decisionBlock \/ Cut)
    <3>1. detail.id = currentId /\ (decisionBlock \/ Cut)
      BY <2>1, <2>3 DEF Shown, SaysDecided
    <3>2. result.drafts = {currentId}
      BY <2>1, <2>3 DEF PageOK
    <3> QED
      BY <3>1, <3>2
  <2> QED
    BY <2>2, <2>3 DEF SaysDecided, Cut
<1> QED
  BY <1>1, <1>2, <1>3, PTL DEF Spec
=============================================================================
