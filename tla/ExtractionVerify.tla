-------------------------- MODULE ExtractionVerify --------------------------
(***************************************************************************)
(* The mechanical check of what the model extracted from a policy text     *)
(* (ingest/extraction_verify.py), and the reading of the model's answer    *)
(* before it (llm/extraction.py).  Nothing here knows the store.           *)
(*                                                                         *)
(* A text and a quote are sequences of code points.  A place in a draft is *)
(* the sequence of the tokens of its JSON Pointer.  What a draft says is a *)
(* function from places to values; criteria is spread over its keys.       *)
(***************************************************************************)
EXTENDS Integers, Sequences, FiniteSets

CONSTANTS
    Criteria,   \* the keys of criteria in the contract
    Scalars,    \* the two fields beside criteria that need evidence
    Values,     \* the values other than null the contract lets them have
    Items,      \* the texts conditionalChecks may list
    Null,       \* null
    Absent      \* what is not there

CriteriaPaths == {<<"criteria", c>> : c \in Criteria}
ScalarPaths == {<<f>> : f \in Scalars}
Checks == <<"conditionalChecks">>

(* EVIDENCE_POINTERS, and every place a draft says a value at. *)
EvidencePointers == CriteriaPaths \union ScalarPaths
DraftPaths == EvidencePointers \union {Checks}

ASSUME NamesAssumption ==
    /\ Scalars \intersect {"criteria", "conditionalChecks", "policy_id", "not_found"} = {}
    /\ Null \notin Values /\ Null \notin Seq(Items)
    /\ Absent \notin Values \union Seq(Items) \union {Null} \union Int

(* text[start:end] *)
Slice(text, start, end) == SubSeq(text, start + 1, end)

(* The items of conditionalChecks. *)
ItemPaths(draft) == {<<"conditionalChecks", i>> : i \in 0 .. Len(draft.says[Checks]) - 1}

(* The place is there and null or an empty list: what not_found may name.  *)
is_empty(draft, path) == path \in DraftPaths /\ draft.says[path] \in {Null, <<>>}

(* _covered_by: the place itself or one below it. *)
covered_by(path, paths) ==
    \E p \in paths : Len(p) <= Len(path) /\ SubSeq(path, 1, Len(p)) = p

-----------------------------------------------------------------------------
(* locate_quote, str.count > 1: where a quote stands in the text.          *)
Places(text, quote) ==
    {i \in 0 .. Len(text) - Len(quote) : Slice(text, i, i + Len(quote)) = quote}

First(places) == CHOOSE i \in places : \A j \in places : i <= j

locate_quote(text, quote) ==
    LET start == First(Places(text, quote)) IN [start |-> start, end |-> start + Len(quote)]

(* count_occurrences(text, quote) > 1; str.count goes on behind what it has *)
(* found.                                                                   *)
ambiguous(text, quote) ==
    \E i \in Places(text, quote) : i >= First(Places(text, quote)) + Len(quote)

-----------------------------------------------------------------------------
(* What an answer looks like.  parse_envelope gives up on what is not an   *)
(* object; _envelope_rejections refuses one without exactly a draft and a  *)
(* list of spans, and a span without exactly a place, a quote and perhaps  *)
(* integer offsets.                                                        *)
call_extraction_fails(answer) == answer.shape \in {"no answer", "not json", "not an object"}

envelope_valid(answer) ==
    /\ answer.shape = "envelope"
    /\ \A k \in DOMAIN answer.spans : answer.spans[k].shape = "span"

(* The schema of the contract: a value of the right type at every place    *)
(* and nowhere else, and not_found names places of the shapes it allows.   *)
schema_valid(draft) ==
    /\ DOMAIN draft.says = DraftPaths
    /\ \A p \in EvidencePointers : draft.says[p] \in Values \union {Null}
    /\ draft.says[Checks] \in Seq(Items)
    /\ \A p \in draft.notFound :
        \/ p \in ScalarPaths \union {Checks, <<"policy_id">>}
        \/ Len(p) = 2 /\ p[1] = "criteria"

-----------------------------------------------------------------------------
(* The span of one place, with the offsets the answer gives or found.      *)
has_offsets(entry) == entry.start # Absent \/ entry.end # Absent

\* mutant: offsets that lie in the text are taken as they are
offsets_hold_InBounds(entry, text) ==
    /\ entry.start # Absent /\ entry.end # Absent
    /\ 0 <= entry.start /\ entry.start < entry.end /\ entry.end <= Len(text)

\* _verified_from_offsets
offsets_hold(entry, text) ==
    /\ entry.start # Absent /\ entry.end # Absent
    /\ 0 <= entry.start /\ entry.start < entry.end /\ entry.end <= Len(text)
    /\ Slice(text, entry.start, entry.end) = entry.quote

span_of(entry, text) ==
    IF has_offsets(entry) THEN [start |-> entry.start, end |-> entry.end]
    ELSE locate_quote(text, entry.quote)

(* The places that need evidence.  _canonical_order only fixes in which    *)
(* order their spans are numbered.                                         *)
required(draft) == (EvidencePointers \ draft.notFound) \union ItemPaths(draft)

(* What the loop over the spans asks of the k-th one; which question it    *)
(* fails first only decides the reason that is reported.                   *)
span_verified(spans, k, draft, text) ==
    LET entry == spans[k] IN
    /\ \A j \in 1 .. k - 1 : spans[j].path # entry.path
    /\ ~covered_by(entry.path, draft.notFound)
    /\ entry.path \in required(draft)
    /\ entry.quote # <<>>
    /\ IF has_offsets(entry) THEN offsets_hold(entry, text) ELSE Places(text, entry.quote) # {}

\* verify: nothing is wrong
verified(answer, policy, text) ==
    /\ envelope_valid(answer)
    /\ schema_valid(answer.draft)
    /\ answer.draft.policy = policy
    /\ \A p \in answer.draft.notFound : is_empty(answer.draft, p)
    /\ \A k \in DOMAIN answer.spans : span_verified(answer.spans, k, answer.draft, text)
    /\ \A p \in required(answer.draft) : \E k \in DOMAIN answer.spans : answer.spans[k].path = p

\* the entry for a place, in an answer that is verified
entry_for(answer, p) == answer.spans[CHOOSE k \in DOMAIN answer.spans : answer.spans[k].path = p]

\* what verify returns: a span for every place that needs one
verified_spans(answer, text) ==
    [p \in required(answer.draft) |-> span_of(entry_for(answer, p), text)]
=============================================================================
