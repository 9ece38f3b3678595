---------------------------- MODULE ReviewDetail ----------------------------
(***************************************************************************)
(* What a reviewer decides on: the drafts of one seeded policy with their  *)
(* evidence, the screen and the impact the server computes for them        *)
(* (the two GET endpoints of a draft in main.py), and what an approval     *)
(* then makes of the rule (_merged_payload).                               *)
(*                                                                         *)
(* A payload is a function from places to values; the places of the four   *)
(* fields a draft may override are as in the draft, every other one, like  *)
(* <<"summary">>, is only displayed.  The rule versions of the policy form *)
(* a list, the last one in force.  Between two store calls of one request  *)
(* or batch the others run.  The steps of a decision that do not touch the *)
(* payload are in Approval, the retries of a batch in Extraction.          *)
(***************************************************************************)
EXTENDS ExtractionVerify

CONSTANTS
    Policy,        \* the policy
    Letters, Text, \* the stored text of its source
    Seeded,        \* the payload of its seeded version
    Drafts,        \* ids the batches may give
    Answers,       \* what the language model may answer
    Profiles,      \* the regression profiles
    Judge(_, _),   \* analyze for a profile, with this payload for the policy
    MaxMishaps     \* bound: store calls that fail, and deaths of a batch

Payload(places) == [places -> Values \union Seq(Items) \union {Null}]

ASSUME DetailAssumption ==
    /\ Policy \notin Drafts /\ Absent \notin Drafts
    /\ Text \in Seq(Letters)
    /\ Seeded \in Payload(DOMAIN Seeded)
    /\ MaxMishaps \in Nat

(* What has passed the check of its shape has the types it was checked for. *)
ASSUME AnswersAssumption ==
    \A answer \in Answers : envelope_valid(answer) =>
        /\ DOMAIN answer.spans = 1 .. Len(answer.spans)
        /\ \A k \in DOMAIN answer.spans :
            /\ answer.spans[k].quote \in Seq(Letters)
            /\ answer.spans[k].start \in Int \union {Absent}
            /\ answer.spans[k].end \in Int \union {Absent}

VARIABLES
    drafts,     \* rule_draft and rule_span_mapping: status, says, notFound, spans
    writing,    \* the spans a batch has still to store for its draft
    versions,   \* the rule versions: the draft each was made from, and its payload
    deciding,   \* the approvals under way: stage, and the version read
    reading,    \* the spans a request for a detail has read, and of which draft
    screen,     \* the detail a reviewer looks at, with its draft and the version it was made over
    impact,     \* the impact a reviewer looks at, likewise
    mishaps,
    \* history: what the answer quoted for each place of a draft, and the
    \* drafts whose batch ended before its last span
    quoted, stopped

vars == <<drafts, writing, versions, deciding, reading, screen, impact, mishaps, quoted, stopped>>

NoSpans == [p \in {} |-> Null]
NoDraft == [status |-> "absent", says |-> NoSpans, notFound |-> {}, spans |-> NoSpans]
NotDeciding == [stage |-> "idle", previous |-> 0]
NotReading == [draft |-> Absent, spans |-> NoSpans]
NotShown == [draft |-> Absent, over |-> 0]

ValueAt(payload, p) == IF p \in DOMAIN payload THEN payload[p] ELSE Absent

-----------------------------------------------------------------------------
(* The merge                                                               *)

\* mutant: what was not found is laid over the rule with the rest
merged_payload_WithNotFound(previous, draft) ==
    [p \in DOMAIN previous \union DOMAIN draft.says |->
        IF p \in DOMAIN draft.says THEN draft.says[p] ELSE previous[p]]

\* _merged_payload: criteria key by key, the other three as a whole
merged_payload(previous, draft) ==
    LET taken == {p \in DOMAIN draft.says : ~covered_by(p, draft.notFound)} IN
    [p \in DOMAIN previous \union taken |-> IF p \in taken THEN draft.says[p] ELSE previous[p]]

-----------------------------------------------------------------------------
(* The screen                                                              *)

Clamp(i, length) == IF i < 0 THEN 0 ELSE IF i > length THEN length ELSE i

Bounded(spans, text) ==
    [p \in DOMAIN spans |-> [start |-> Clamp(spans[p].start, Len(text)),
                             end |-> Clamp(spans[p].end, Len(text))]]

CutsOf(bounded, text) ==
    {0, Len(text)} \union {bounded[p].start : p \in DOMAIN bounded}
                   \union {bounded[p].end : p \in DOMAIN bounded}

\* consecutive elements of sorted(cuts)
Consecutive(cuts) ==
    {c \in cuts \X cuts : c[1] < c[2] /\ \A x \in cuts : ~(c[1] < x /\ x < c[2])}

\* mutant: a piece belongs to every span that has begun
carriers_Begun(bounded, start, end) ==
    {p \in DOMAIN bounded : bounded[p].start <= start}

carriers(bounded, start, end) ==
    {p \in DOMAIN bounded : bounded[p].start <= start /\ end <= bounded[p].end}

\* _highlight_segments: the pieces of the text, in the order they begin
highlight_segments(text, spans) ==
    LET bounded == Bounded(spans, text) IN
    {[start |-> c[1], end |-> c[2], fieldPaths |-> carriers(bounded, c[1], c[2])] :
        c \in Consecutive(CutsOf(bounded, text))}

\* _span_view: the quote is cut out of the text anew
span_view(span) ==
    LET quote == Slice(Text, span.start, span.end) IN
    [start |-> span.start, end |-> span.end, quote |-> quote, ambiguous |-> ambiguous(Text, quote)]

views(draft) == [p \in DOMAIN draft.spans |-> span_view(draft.spans[p])]

IsCriterion(p) == Len(p) = 2 /\ p[1] = "criteria"

\* the fields of _DRAFT_OVERRIDE_FIELDS beside criteria
Replaced == ScalarPaths \union {Checks}

draft_said(p, draft) ==
    IF ~IsCriterion(p) /\ p \notin Replaced THEN "not_applicable"
    ELSE IF p \notin DOMAIN draft.says THEN "silent"
    ELSE IF covered_by(p, draft.notFound) THEN "not_found"
    ELSE IF draft.says[p] = Null THEN "explicit_null"
    ELSE "value"

\* mutant: the row shows what the draft says, not what the merge makes of it
field_change_FromDraft(p, previous, draft, merged) ==
    LET said == draft_said(p, draft)
        before == ValueAt(previous, p)
        after == ValueAt(draft.says, p)
    IN  [said |-> said, before |-> before, after |-> after, changed |-> before # after,
         wipes |-> FALSE, evidence |-> ValueAt(views(draft), p), expected |-> said = "value"]

\* a row of the table; conditionalChecks is the one list that may become
\* empty, and its evidence stands beside its items
field_change(p, previous, draft, merged) ==
    LET said == draft_said(p, draft)
        before == ValueAt(previous, p)
        after == ValueAt(merged, p)
    IN  [said |-> said, before |-> before, after |-> after, changed |-> before # after,
         wipes |-> p = Checks /\ said = "value" /\ before \notin {Absent, Null, <<>>} /\ after = <<>>,
         evidence |-> ValueAt(views(draft), p),
         expected |-> said = "value" /\ p # Checks]

field_changes(previous, draft, merged) ==
    [p \in DOMAIN previous \union DOMAIN draft.says \union Replaced |->
        field_change(p, previous, draft, merged)]

-----------------------------------------------------------------------------
(* The impact                                                              *)

\* _verdict_or_error for every profile
verdicts(payload) == [profile \in Profiles |-> Judge(profile, payload)]

\* _approval_impact: the active rules, and the same with the merge instead
approval_impact(previous, draft) ==
    LET before == verdicts(previous)
        after == verdicts(merged_payload(previous, draft))
    IN  [before |-> before, after |-> after, changed |-> {f \in Profiles : before[f] # after[f]}]

-----------------------------------------------------------------------------
(* A batch                                                                 *)

\* extract_one after its last attempt: a draft without content and the
\* reasons, or a draft in the queue before the first of its spans
ExtractOne(d) ==
    /\ drafts[d].status = "absent"
    /\ \E answer \in Answers :
        IF call_extraction_fails(answer) \/ ~verified(answer, Policy, Text)
        THEN /\ drafts' = [drafts EXCEPT ![d] = [NoDraft EXCEPT !.status = "extraction_failed"]]
             /\ UNCHANGED <<writing, quoted>>
        ELSE /\ drafts' = [drafts EXCEPT ![d] =
                    [NoDraft EXCEPT !.status = "pending", !.says = answer.draft.says,
                                    !.notFound = answer.draft.notFound]]
             /\ writing' = [writing EXCEPT ![d] = verified_spans(answer, Text)]
             /\ quoted' = [quoted EXCEPT ![d] =
                    [p \in required(answer.draft) |-> entry_for(answer, p).quote]]
    /\ UNCHANGED <<versions, deciding, reading, screen, impact, mishaps, stopped>>

\* add_span
AddSpan(d, p) ==
    /\ p \in DOMAIN writing[d]
    /\ drafts' = [drafts EXCEPT ![d].spans =
            [q \in DOMAIN @ \union {p} |-> IF q = p THEN writing[d][p] ELSE @[q]]]
    /\ writing' = [writing EXCEPT ![d] = [q \in DOMAIN @ \ {p} |-> @[q]]]
    /\ UNCHANGED <<quoted, versions, deciding, reading, screen, impact, mishaps, stopped>>

\* the batch dies between two spans, or a span is refused and the draft is
\* marked, whatever it has become
BatchStops(d) ==
    /\ DOMAIN writing[d] # {}
    /\ mishaps < MaxMishaps
    /\ mishaps' = mishaps + 1
    /\ stopped' = stopped \union {d}
    /\ writing' = [writing EXCEPT ![d] = NoSpans]
    /\ \E status \in {drafts[d].status, "extraction_failed"} :
        drafts' = [drafts EXCEPT ![d].status = status]
    /\ UNCHANGED <<quoted, versions, deciding, reading, screen, impact>>

-----------------------------------------------------------------------------
(* The reviewers                                                           *)

Current == versions[Len(versions)].payload

\* admin_draft_detail_endpoint: what the draft says is fixed, its spans are
\* those of the moment they are read, the rule in force that of a later one
ReadEvidence(d) ==
    /\ reading = NotReading /\ drafts[d].status # "absent"
    /\ reading' = [draft |-> d, spans |-> drafts[d].spans]
    /\ UNCHANGED <<quoted, drafts, writing, versions, deciding, screen, impact, mishaps, stopped>>

ShowDetail(d) ==
    /\ reading.draft = d
    /\ LET draft == [drafts[d] EXCEPT !.spans = reading.spans]
           merged == merged_payload(Current, draft)
       IN  screen' =
            [draft |-> d, over |-> Len(versions), merged |-> merged,
             fields |-> field_changes(Current, draft, merged),
             spans |-> views(draft),
             segments |-> highlight_segments(Text, reading.spans)]
    /\ reading' = NotReading
    /\ UNCHANGED <<quoted, drafts, writing, versions, deciding, impact, mishaps, stopped>>

\* admin_draft_impact_endpoint
ShowImpact(d) ==
    /\ drafts[d].status # "absent"
    /\ impact' = [draft |-> d, over |-> Len(versions),
                  verdicts |-> approval_impact(Current, drafts[d])]
    /\ UNCHANGED <<quoted, drafts, writing, versions, deciding, reading, screen, mishaps, stopped>>

\* claim_pending
Claim(d, decision) ==
    /\ drafts[d].status = "pending"
    /\ drafts' = [drafts EXCEPT ![d].status = decision]
    /\ deciding' = IF decision = "approved" THEN [deciding EXCEPT ![d].stage = "read"] ELSE deciding
    /\ UNCHANGED <<quoted, writing, versions, reading, screen, impact, mishaps, stopped>>

\* the version that will be superseded
ReadPrevious(d) ==
    /\ deciding[d].stage = "read"
    /\ deciding' = [deciding EXCEPT ![d] = [stage |-> "write", previous |-> Len(versions)]]
    /\ UNCHANGED <<quoted, drafts, writing, versions, reading, screen, impact, mishaps, stopped>>

Supersede(d) ==
    /\ versions' = Append(versions,
            [by |-> d, payload |-> merged_payload(versions[deciding[d].previous].payload, drafts[d])])
    /\ deciding' = [deciding EXCEPT ![d] = NotDeciding]
    /\ UNCHANGED <<quoted, drafts, writing, reading, screen, impact, mishaps, stopped>>

\* mutant: the version read need not be the open one any more
WriteVersion_Blind(d) ==
    /\ deciding[d].stage = "write"
    /\ Supersede(d)

\* supersede: the merge over the version read, if that is still the open one
WriteVersion(d) ==
    /\ deciding[d].stage = "write"
    /\ deciding[d].previous = Len(versions)
    /\ Supersede(d)

\* the decision fails, here or in a step of Approval, and the claim is
\* given back
GiveBack(d) ==
    /\ deciding[d].stage # "idle"
    /\ \/ /\ deciding[d].stage = "write"
          /\ deciding[d].previous # Len(versions)
          /\ UNCHANGED mishaps
       \/ /\ mishaps < MaxMishaps
          /\ mishaps' = mishaps + 1
    /\ drafts' = [drafts EXCEPT ![d].status = "pending"]
    /\ deciding' = [deciding EXCEPT ![d] = NotDeciding]
    /\ UNCHANGED <<quoted, writing, versions, reading, screen, impact, stopped>>

-----------------------------------------------------------------------------
Init ==
    /\ drafts = [d \in Drafts |-> NoDraft]
    /\ writing = [d \in Drafts |-> NoSpans]
    /\ versions = <<[by |-> Policy, payload |-> Seeded]>>
    /\ deciding = [d \in Drafts |-> NotDeciding]
    /\ reading = NotReading /\ screen = NotShown /\ impact = NotShown
    /\ mishaps = 0
    /\ quoted = [d \in Drafts |-> NoSpans]
    /\ stopped = {}

Next ==
    \E d \in Drafts :
        \/ ExtractOne(d) \/ BatchStops(d)
        \/ \E p \in DOMAIN writing[d] : AddSpan(d, p)
        \/ ReadEvidence(d) \/ ShowDetail(d) \/ ShowImpact(d)
        \/ Claim(d, "approved") \/ Claim(d, "rejected")
        \/ ReadPrevious(d) \/ WriteVersion(d) \/ GiveBack(d)

Spec == Init /\ [][Next]_vars

-----------------------------------------------------------------------------
(* Properties                                                              *)

\* the span lies in the text and spells what the answer quoted
Spells(span, quote) ==
    /\ 0 <= span.start /\ span.start < span.end /\ span.end <= Len(Text)
    /\ Slice(Text, span.start, span.end) = quote

(***************************************************************************)
(* Evidence is real (SPEC 4.2.1): every stored span spells, letter by      *)
(* letter, the quote the language model gave for its place, and no place   *)
(* it said it had not found has a value or a span.  Once the batch has     *)
(* written the draft to its end, every place that needs a span has one.    *)
(***************************************************************************)
EvidenceIsReal ==
    \A d \in Drafts :
        /\ \A p \in DOMAIN drafts[d].spans :
            /\ Spells(drafts[d].spans[p], quoted[d][p])
            /\ ~covered_by(p, drafts[d].notFound)
        /\ \A p \in drafts[d].notFound : drafts[d].says[p] \in {Null, <<>>}
        /\ drafts[d].says # NoSpans /\ DOMAIN writing[d] = {} /\ d \notin stopped =>
            DOMAIN drafts[d].spans = required(drafts[d])

\* the piece covers the position
Covers(piece, x) == piece.start <= x /\ x < piece.end

(***************************************************************************)
(* The screen shows the text it has (SPEC 4.4): every letter is in exactly *)
(* one piece, a piece is marked for a place if and only if its letters are *)
(* in the span of that place, overlapping spans included, the quote beside *)
(* a row is what the answer quoted, and a quote that is not flagged as     *)
(* ambiguous stands nowhere in the text apart from the letters marked.     *)
(***************************************************************************)
HighlightIsExact ==
    screen # NotShown =>
        /\ \A x \in 0 .. Len(Text) - 1 : \E piece \in screen.segments :
            /\ \A other \in screen.segments : Covers(other, x) <=> other = piece
            /\ \A p \in DOMAIN screen.spans :
                p \in piece.fieldPaths <=> Covers(screen.spans[p], x)
        /\ \A p \in DOMAIN screen.spans :
            LET view == screen.spans[p] IN
            /\ Spells(view, quoted[screen.draft][p])
            /\ view.quote = quoted[screen.draft][p]
            /\ ~view.ambiguous => \A i \in Places(Text, view.quote) :
                i < view.end /\ view.start < i + Len(view.quote)

\* a known threshold: there, and not null
Known(payload, p) == p \in DOMAIN payload /\ payload[p] # Null

(***************************************************************************)
(* Nothing known is forgotten unasked (the comment at _merged_payload): a  *)
(* threshold of the rule in force disappears, and its checks become none,  *)
(* only in a version whose draft explicitly said so at that place, not by  *)
(* not having found it, however approvals of other drafts interleave.      *)
(***************************************************************************)
OnlyAnExplicitNullErases ==
    \A n \in 2 .. Len(versions) :
        LET old == versions[n - 1].payload
            new == versions[n].payload
            draft == drafts[versions[n].by]
        IN  /\ \A p \in DOMAIN old : Known(old, p) /\ ~Known(new, p) =>
                draft_said(p, draft) = "explicit_null"
            /\ Checks \in DOMAIN old => Checks \in DOMAIN new /\
                (old[Checks] # <<>> /\ new[Checks] = <<>> => draft_said(Checks, draft) = "value")

(***************************************************************************)
(* The screen and the approval say the same (the comment at _field_changes *)
(* calls the opposite the worst defect of the screen).  A version has at   *)
(* every place what its draft's screen announced, if the screen was shown  *)
(* over the version it supersedes; over an older one, the values the draft *)
(* said are as announced and the others are those of the version between.  *)
(* Only a row marked so loses its checks, and the profiles judged as the   *)
(* impact of the draft announced.                                          *)
(***************************************************************************)
ScreenTellsTheTruth ==
    \A n \in 2 .. Len(versions) :
        LET old == versions[n - 1].payload
            new == versions[n].payload
            rows == screen.fields
        IN  /\ screen.draft = versions[n].by /\ screen.over < n =>
                \A p \in DOMAIN rows :
                    ValueAt(new, p) = IF rows[p].said \in {"value", "explicit_null"}
                                      THEN rows[p].after ELSE ValueAt(old, p)
            /\ screen.draft = versions[n].by /\ screen.over = n - 1 =>
                /\ screen.merged = new
                /\ \A p \in DOMAIN new : p \in DOMAIN rows /\ rows[p].after = new[p]
                /\ \A p \in DOMAIN old : ValueAt(new, p) # old[p] => rows[p].changed
                /\ Checks \in DOMAIN old /\ old[Checks] \notin {Null, <<>>} /\ new[Checks] = <<>> =>
                    rows[Checks].wipes
            /\ impact.draft = versions[n].by /\ impact.over = n - 1 =>
                /\ impact.verdicts.after = verdicts(new)
                /\ \A profile \in Profiles \ impact.verdicts.changed :
                    Judge(profile, new) = Judge(profile, old)
=============================================================================
