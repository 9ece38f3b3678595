--------------------------- MODULE MCReviewDetail ---------------------------
(***************************************************************************)
(* A policy with one criterion, one scalar (not known at first) and one    *)
(* check.  The text is abab: "ab" stands in it twice, "bab" overlaps both. *)
(* The answers are sound ones, and one of them spoilt in the ways verify   *)
(* names.                                                                  *)
(***************************************************************************)
EXTENDS ReviewDetail, TLC

CONSTANTS a, b, junior, senior, nowhere, p1, v0, v1, check1, check2, d1, d2

DraftSymmetry == Permutations(Drafts)

MCText == <<a, b, a, b>>
MCLetters == {a, b}

AgeMax == <<"criteria", "ageMax">>
Amount == <<"maxAmountKRW">>
Item == <<"conditionalChecks", 0>>

MCSeeded == [p \in {AgeMax, Amount, Checks, <<"summary">>} |->
                IF p = Checks THEN <<check1>> ELSE IF p = Amount THEN Null ELSE v0]

MCJudge(profile, payload) ==
    CASE profile = nowhere -> "ValueError"
      [] profile = senior /\ payload[AgeMax] # Null -> "ineligible"
      [] OTHER -> IF payload[Checks] = <<>> THEN "eligible" ELSE "conditional"

Entry(path, quote, start, end) ==
    [shape |-> "span", path |-> path, quote |-> quote, start |-> start, end |-> end]

Draft(age, amount, checks, notFound) ==
    [policy |-> p1, notFound |-> notFound,
     says |-> [p \in {AgeMax, Amount, Checks} |->
        IF p = AgeMax THEN age ELSE IF p = Amount THEN amount ELSE checks]]

Envelope(draft, spans) == [shape |-> "envelope", draft |-> draft, spans |-> spans]

\* a threshold is removed and the check replaced: the same quote by offsets,
\* at the second of two places, and by search, at the first
Full ==
    Envelope(Draft(Null, Null, <<check2>>, {Amount}),
             <<Entry(AgeMax, <<a, b>>, 2, 4), Entry(Item, <<a, b>>, Absent, Absent)>>)

Sound ==
    {Full,
     Envelope(Draft(v1, v1, <<>>, {}),
              <<Entry(AgeMax, <<a, b>>, 0, 2), Entry(Amount, <<b, a, b>>, Absent, Absent)>>),
     Envelope(Draft(Null, Null, <<>>, {AgeMax, Amount, Checks}), <<>>)}

Respan(k, entry) == [Full EXCEPT !.spans[k] = entry]

Spoilt ==
    {[shape |-> s] : s \in {"no answer", "not json", "other keys", "draft not an object", "spans not a list"}}
    \union {Respan(1, [shape |-> s]) : s \in {"keys missing", "offsets not integers"}}
    \union {[Full EXCEPT !.draft.says = [@ EXCEPT ![Checks] = Null]],
            [Full EXCEPT !.draft.notFound = @ \union {<<"criteria">>}],
            [Full EXCEPT !.draft.policy = v0],
            [Full EXCEPT !.draft.says = [@ EXCEPT ![Amount] = v1]],
            [Full EXCEPT !.draft.notFound = @ \union {<<"criteria", "asset">>}],
            [Full EXCEPT !.draft.notFound = @ \union {AgeMax}],
            [Full EXCEPT !.spans = SubSeq(@, 1, 1)],
            [Full EXCEPT !.spans = @ \o <<@[1]>>]}
    \union {Respan(1, Entry(AgeMax, <<>>, Absent, Absent)),
            Respan(1, Entry(AgeMax, <<b, b>>, Absent, Absent)),
            Respan(1, Entry(AgeMax, <<a, b>>, 1, 3)),
            Respan(1, Entry(AgeMax, <<a, b>>, 2, Absent)),
            Respan(1, Entry(AgeMax, <<a, b>>, 2, 6)),
            Respan(1, Entry(Checks, <<a, b>>, 2, 4))}

MCAnswers == Sound \union Spoilt
=============================================================================
