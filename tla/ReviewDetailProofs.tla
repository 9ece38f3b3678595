------------------------- MODULE ReviewDetailProofs -------------------------
(***************************************************************************)
(* Proofs about ReviewDetail, for any text, answers, drafts and payloads:  *)
(* stored evidence spells what was quoted, the screen marks exactly that,  *)
(* nothing known is forgotten unasked, and the rule an approval makes is   *)
(* the one the screen and the impact announced.                            *)
(***************************************************************************)
EXTENDS ReviewDetail, WellFoundedInduction, SequenceTheorems, TLAPS

-----------------------------------------------------------------------------
(* Numbers and texts                                                       *)

LEMMA LeastExists ==
    ASSUME NEW S \in SUBSET Nat, S # {}
    PROVE  \E m \in S : \A n \in S : m <= n
<1>1. PICK m \in S : \A n \in S : ~(<<n, m>> \in OpToRel(<, Nat))
  BY NatLessThanWellFounded, WFMin, Zenon
<1>2. \A n \in S : ~(n < m)
  BY <1>1 DEF OpToRel
<1> QED
  BY <1>2

\* The piece boundaries around a position.
LEMMA GreatestNotAbove ==
    ASSUME NEW S \in SUBSET Nat, NEW x \in Nat, NEW c \in S, c <= x
    PROVE  \E m \in S : m <= x /\ \A n \in S : n <= x => n <= m
<1> DEFINE Gaps == {x - n : n \in {k \in S : k <= x}}
<1>1. Gaps \in SUBSET Nat /\ Gaps # {}
  <2>1. \A n \in Nat : n <= x => x - n \in Nat
    OBVIOUS
  <2>2. \A gap \in Gaps : \E n \in S : n <= x /\ gap = x - n
    OBVIOUS
  <2>3. x - c \in Gaps
    OBVIOUS
  <2> QED
    BY <2>1, <2>2, <2>3
<1>2. PICK gap \in Gaps : \A other \in Gaps : gap <= other
  BY <1>1, LeastExists
<1>3. PICK m \in S : m <= x /\ gap = x - m
  OBVIOUS
<1>4. ASSUME NEW n \in S, n <= x PROVE n <= m
  <2>1. x - n \in Gaps
    BY <1>4
  <2> QED
    BY <1>2, <1>3, <1>4, <2>1
<1> QED
  BY <1>3, <1>4

LEMMA LeastAbove ==
    ASSUME NEW S \in SUBSET Nat, NEW x \in Nat, NEW c \in S, x < c
    PROVE  \E m \in S : x < m /\ \A n \in S : x < n => m <= n
<1> DEFINE Above == {n \in S : x < n}
<1>1. Above \in SUBSET Nat /\ Above # {}
  OBVIOUS
<1> QED
  BY <1>1, LeastExists

LEMMA FirstIsLeast ==
    ASSUME NEW S \in SUBSET Nat, S # {}
    PROVE  First(S) \in S /\ \A n \in S : First(S) <= n
BY LeastExists DEF First

LEMMA PlacesAreNaturals ==
    ASSUME NEW text \in Seq(Letters), NEW quote \in Seq(Letters)
    PROVE  /\ Places(text, quote) \in SUBSET Nat
           /\ \A i \in Places(text, quote) : i + Len(quote) <= Len(text)
<1>1. Len(text) \in Nat /\ Len(quote) \in Nat
  BY LenProperties
<1> QED
  BY <1>1 DEF Places

LEMMA SliceProperties ==
    ASSUME NEW text \in Seq(Letters), NEW start \in Int, NEW end \in Int,
           0 <= start, start < end, end <= Len(text)
    PROVE  Slice(text, start, end) \in Seq(Letters) /\ Len(Slice(text, start, end)) = end - start
<1>1. Len(text) \in Nat
  BY LenProperties
<1>2. \A i \in start + 1 .. end : i \in 1 .. Len(text)
  BY <1>1
<1>3. start + 1 \in Int /\ start + 1 <= end + 1
  OBVIOUS
<1> QED
  BY <1>2, <1>3, SubSeqProperties DEF Slice

-----------------------------------------------------------------------------
(* The check of an answer                                                  *)

\* a span with its quote, as it is stored
IsEvidence(span, quote) == span.start \in Int /\ span.end \in Int /\ Spells(span, quote)

LEMMA LocatedSpells ==
    ASSUME NEW quote \in Seq(Letters), quote # <<>>, Places(Text, quote) # {}
    PROVE  IsEvidence(locate_quote(Text, quote), quote)
<1> DEFINE start == First(Places(Text, quote))
<1>1. /\ start \in Nat /\ start \in Places(Text, quote)
      /\ start + Len(quote) <= Len(Text)
  BY FirstIsLeast, PlacesAreNaturals, DetailAssumption
<1>2. Len(quote) \in Nat /\ Len(quote) # 0
  BY LenProperties, EmptySeq
<1>3. Slice(Text, start, start + Len(quote)) = quote
  BY <1>1 DEF Places
<1> HIDE DEF start
<1>4. IsEvidence([start |-> start, end |-> start + Len(quote)], quote)
  BY <1>1, <1>2, <1>3 DEF IsEvidence, Spells
<1> QED
  BY <1>4 DEF locate_quote, start

LEMMA SpanSpells ==
    ASSUME NEW answer \in Answers, envelope_valid(answer), NEW k \in DOMAIN answer.spans,
           span_verified(answer.spans, k, answer.draft, Text)
    PROVE  IsEvidence(span_of(answer.spans[k], Text), answer.spans[k].quote)
<1> DEFINE entry == answer.spans[k]
<1>1. /\ entry.quote \in Seq(Letters) /\ entry.quote # <<>>
      /\ entry.start \in Int \union {Absent} /\ entry.end \in Int \union {Absent}
  BY AnswersAssumption DEF span_verified
<1>2. CASE has_offsets(entry)
  <2>1. offsets_hold(entry, Text)
    BY <1>2 DEF span_verified
  <2>2. span_of(entry, Text) = [start |-> entry.start, end |-> entry.end]
    BY <1>2 DEF span_of
  <2> QED
    BY <1>1, <2>1, <2>2 DEF offsets_hold, IsEvidence, Spells
<1>3. CASE ~has_offsets(entry)
  <2>1. Places(Text, entry.quote) # {}
    BY <1>3 DEF span_verified
  <2>2. span_of(entry, Text) = locate_quote(Text, entry.quote)
    BY <1>3 DEF span_of
  <2> QED
    BY <1>1, <2>1, <2>2, LocatedSpells
<1> QED
  BY <1>2, <1>3

-----------------------------------------------------------------------------
(* The drafts                                                              *)

IsDraft(draft) ==
    draft = [status |-> draft.status, says |-> draft.says,
             notFound |-> draft.notFound, spans |-> draft.spans]

\* no content: nobody has written it, or the extraction failed
Empty(draft) == draft.says = NoSpans /\ draft.notFound = {}

\* what the check of the answer leaves
Said(draft) ==
    /\ DOMAIN draft.says = DraftPaths
    /\ \A p \in EvidencePointers : draft.says[p] \in Values \union {Null}
    /\ draft.says[Checks] \in Seq(Items)
    /\ \A p \in draft.notFound : draft.says[p] \in {Null, <<>>}
    /\ \A p \in required(draft) : ~covered_by(p, draft.notFound)

EvidenceOf(draft, spans, quotes) ==
    \A p \in DOMAIN spans : p \in required(draft) /\ IsEvidence(spans[p], quotes[p])

(***************************************************************************)
(* A draft has no content, or what it says passed the check, and every     *)
(* span that is stored or still to be stored is evidence; together they    *)
(* are all the evidence it needs, unless its batch stopped.                *)
(***************************************************************************)
DraftOK(d) ==
    /\ IsDraft(drafts[d])
    /\ \/ Empty(drafts[d]) /\ drafts[d].spans = NoSpans /\ writing[d] = NoSpans
       \/ /\ drafts[d].status # "absent"
          /\ Said(drafts[d])
          /\ EvidenceOf(drafts[d], drafts[d].spans, quoted[d])
          /\ EvidenceOf(drafts[d], writing[d], quoted[d])
          /\ d \notin stopped =>
                DOMAIN drafts[d].spans \union DOMAIN writing[d] = required(drafts[d])

DraftsInv ==
    /\ drafts = [d \in Drafts |-> drafts[d]]
    /\ writing = [d \in Drafts |-> writing[d]]
    /\ quoted = [d \in Drafts |-> quoted[d]]
    /\ \A d \in Drafts : DraftOK(d)

\* What a draft says is fixed when it is written, and so are its quotes.
SaidOnce(d) ==
    drafts[d].status # "absent" =>
        /\ drafts'[d].status # "absent"
        /\ drafts'[d].says = drafts[d].says /\ drafts'[d].notFound = drafts[d].notFound
        /\ quoted'[d] = quoted[d]

LEMMA SameRequired ==
    ASSUME NEW one, NEW other, one.says = other.says, one.notFound = other.notFound
    PROVE  required(one) = required(other) /\ (Said(one) <=> Said(other)) /\ (Empty(one) <=> Empty(other))
BY DEF required, ItemPaths, Said, Empty

LEMMA DraftUntouched ==
    ASSUME NEW d \in Drafts, DraftOK(d), drafts'[d] = drafts[d], writing'[d] = writing[d],
           quoted'[d] = quoted[d], stopped \subseteq stopped'
    PROVE  DraftOK(d)' /\ SaidOnce(d)
BY DEF DraftOK, SaidOnce

LEMMA StatusMoves ==
    ASSUME NEW d \in Drafts, DraftOK(d), NEW status, status # "absent",
           drafts[d].status # "absent",
           drafts'[d] = [drafts[d] EXCEPT !.status = status], writing'[d] = writing[d],
           quoted'[d] = quoted[d], stopped \subseteq stopped'
    PROVE  DraftOK(d)' /\ SaidOnce(d)
<1>1. drafts'[d] = [status |-> status, says |-> drafts[d].says,
                    notFound |-> drafts[d].notFound, spans |-> drafts[d].spans]
  BY DEF DraftOK, IsDraft
<1>2. /\ drafts'[d].status = status /\ drafts'[d].says = drafts[d].says
      /\ drafts'[d].notFound = drafts[d].notFound /\ drafts'[d].spans = drafts[d].spans
      /\ IsDraft(drafts'[d])
  BY <1>1 DEF IsDraft
<1>3. /\ required(drafts'[d]) = required(drafts[d])
      /\ Said(drafts'[d]) <=> Said(drafts[d])
      /\ Empty(drafts'[d]) <=> Empty(drafts[d])
  BY <1>2, SameRequired
<1> QED
  BY <1>2, <1>3 DEF DraftOK, EvidenceOf, SaidOnce

LEMMA DraftsInit == Init => DraftsInv
<1> SUFFICES ASSUME Init PROVE DraftsInv
  OBVIOUS
<1>1. \A d \in Drafts : drafts[d] = NoDraft /\ writing[d] = NoSpans
  BY DEF Init
<1>2. IsDraft(NoDraft) /\ Empty(NoDraft) /\ NoDraft.spans = NoSpans
  BY DEF NoDraft, IsDraft, Empty
<1>3. \A d \in Drafts : DraftOK(d)
  BY <1>1, <1>2 DEF DraftOK
<1> QED
  BY <1>3 DEF Init, DraftsInv

\* What verify lets through.
LEMMA EntryIsVerified ==
    ASSUME NEW answer \in Answers, verified(answer, Policy, Text), NEW p \in required(answer.draft)
    PROVE  /\ ~covered_by(p, answer.draft.notFound)
           /\ IsEvidence(span_of(entry_for(answer, p), Text), entry_for(answer, p).quote)
<1> DEFINE k == CHOOSE j \in DOMAIN answer.spans : answer.spans[j].path = p
<1>1. k \in DOMAIN answer.spans /\ answer.spans[k].path = p
  BY DEF verified
<1>2. entry_for(answer, p) = answer.spans[k]
  BY DEF entry_for
<1>3. envelope_valid(answer) /\ span_verified(answer.spans, k, answer.draft, Text)
  BY <1>1 DEF verified
<1> HIDE DEF k
<1>4. ~covered_by(p, answer.draft.notFound)
  BY <1>1, <1>3 DEF span_verified
<1> QED
  BY <1>1, <1>2, <1>3, <1>4, SpanSpells

LEMMA VerifiedIsSaid ==
    ASSUME NEW answer \in Answers, verified(answer, Policy, Text)
    PROVE  Said(answer.draft)
<1>1. schema_valid(answer.draft)
  BY DEF verified
<1>2. \A p \in answer.draft.notFound : answer.draft.says[p] \in {Null, <<>>}
  BY DEF verified, is_empty
<1> QED
  BY <1>1, <1>2, EntryIsVerified DEF Said, schema_valid

LEMMA SaidIsNotEmpty == ASSUME NEW draft, Said(draft) PROVE draft.says # NoSpans
<1>1. DOMAIN draft.says = DraftPaths /\ Checks \in DraftPaths
  BY DEF Said, DraftPaths
<1>2. DOMAIN NoSpans = {}
  BY DEF NoSpans
<1> QED
  BY <1>1, <1>2

LEMMA ExtractKeeps ==
    ASSUME DraftsInv, NEW d \in Drafts, ExtractOne(d)
    PROVE  DraftsInv' /\ \A e \in Drafts : SaidOnce(e)
<1> USE DEF DraftsInv
<1>1. PICK answer \in Answers :
        IF call_extraction_fails(answer) \/ ~verified(answer, Policy, Text)
        THEN /\ drafts' = [drafts EXCEPT ![d] = [NoDraft EXCEPT !.status = "extraction_failed"]]
             /\ UNCHANGED <<writing, quoted>>
        ELSE /\ drafts' = [drafts EXCEPT ![d] =
                    [NoDraft EXCEPT !.status = "pending", !.says = answer.draft.says,
                                    !.notFound = answer.draft.notFound]]
             /\ writing' = [writing EXCEPT ![d] = verified_spans(answer, Text)]
             /\ quoted' = [quoted EXCEPT ![d] =
                    [p \in required(answer.draft) |-> entry_for(answer, p).quote]]
  BY DEF ExtractOne
<1>2. drafts[d].status = "absent" /\ stopped' = stopped
  BY DEF ExtractOne
<1>3. /\ drafts' = [e \in Drafts |-> drafts'[e]]
      /\ writing' = [e \in Drafts |-> writing'[e]]
      /\ quoted' = [e \in Drafts |-> quoted'[e]]
  <2>1. CASE call_extraction_fails(answer) \/ ~verified(answer, Policy, Text)
    BY <1>1, <2>1
  <2>2. CASE ~(call_extraction_fails(answer) \/ ~verified(answer, Policy, Text))
    BY <1>1, <2>2
  <2> QED
    BY <2>1, <2>2
<1>4. \A e \in Drafts \ {d} : drafts'[e] = drafts[e] /\ writing'[e] = writing[e] /\ quoted'[e] = quoted[e]
  <2>1. CASE call_extraction_fails(answer) \/ ~verified(answer, Policy, Text)
    BY <1>1, <2>1
  <2>2. CASE ~(call_extraction_fails(answer) \/ ~verified(answer, Policy, Text))
    BY <1>1, <2>2
  <2> QED
    BY <2>1, <2>2
<1>5. \A e \in Drafts \ {d} : DraftOK(e)' /\ SaidOnce(e)
  BY <1>2, <1>4, DraftUntouched
<1>6. SaidOnce(d)
  BY <1>2 DEF SaidOnce
<1>7. DraftOK(d)'
  <2>1. CASE call_extraction_fails(answer) \/ ~verified(answer, Policy, Text)
    <3>1. drafts'[d] = [NoDraft EXCEPT !.status = "extraction_failed"] /\ writing'[d] = writing[d]
      BY <1>1, <2>1
    <3>2. drafts'[d] = [status |-> "extraction_failed", says |-> NoSpans, notFound |-> {}, spans |-> NoSpans]
      BY <3>1 DEF NoDraft
    <3>3. IsDraft(drafts'[d]) /\ Empty(drafts'[d]) /\ drafts'[d].spans = NoSpans
      BY <3>2 DEF IsDraft, Empty
    <3>4. writing[d] = NoSpans
      BY <1>2 DEF DraftOK
    <3> QED
      BY <3>1, <3>3, <3>4 DEF DraftOK
  <2>2. CASE verified(answer, Policy, Text) /\ ~call_extraction_fails(answer)
    <3>1. /\ drafts'[d] = [NoDraft EXCEPT !.status = "pending", !.says = answer.draft.says,
                                          !.notFound = answer.draft.notFound]
          /\ writing'[d] = verified_spans(answer, Text)
          /\ quoted'[d] = [p \in required(answer.draft) |-> entry_for(answer, p).quote]
      BY <1>1, <2>2
    <3>2. drafts'[d] = [status |-> "pending", says |-> answer.draft.says,
                        notFound |-> answer.draft.notFound, spans |-> NoSpans]
      BY <3>1 DEF NoDraft
    <3>3. /\ IsDraft(drafts'[d]) /\ drafts'[d].status = "pending" /\ drafts'[d].spans = NoSpans
          /\ drafts'[d].says = answer.draft.says /\ drafts'[d].notFound = answer.draft.notFound
      BY <3>2 DEF IsDraft
    <3>4. required(drafts'[d]) = required(answer.draft) /\ Said(drafts'[d])
      BY <2>2, <3>3, SameRequired, VerifiedIsSaid
    <3>5. DOMAIN writing'[d] = required(answer.draft) /\ DOMAIN drafts'[d].spans = {}
      BY <3>1, <3>3 DEF verified_spans, NoSpans
    <3>6. \A p \in required(answer.draft) : IsEvidence(writing'[d][p], quoted'[d][p])
      BY <2>2, <3>1, EntryIsVerified DEF verified_spans
    <3> QED
      BY <3>3, <3>4, <3>5, <3>6 DEF DraftOK, EvidenceOf
  <2> QED
    BY <2>1, <2>2
<1> QED
  BY <1>3, <1>5, <1>6, <1>7

LEMMA AddSpanKeeps ==
    ASSUME DraftsInv, NEW d \in Drafts, NEW p \in DOMAIN writing[d], AddSpan(d, p)
    PROVE  DraftsInv' /\ \A e \in Drafts : SaidOnce(e)
<1> USE DEF DraftsInv
<1>1. /\ drafts' = [drafts EXCEPT ![d].spans =
            [q \in DOMAIN @ \union {p} |-> IF q = p THEN writing[d][p] ELSE @[q]]]
      /\ writing' = [writing EXCEPT ![d] = [q \in DOMAIN @ \ {p} |-> @[q]]]
      /\ quoted' = quoted /\ stopped' = stopped
  BY DEF AddSpan
<1>2. /\ drafts' = [e \in Drafts |-> drafts'[e]]
      /\ writing' = [e \in Drafts |-> writing'[e]]
      /\ quoted' = [e \in Drafts |-> quoted'[e]]
      /\ \A e \in Drafts \ {d} : drafts'[e] = drafts[e] /\ writing'[e] = writing[e] /\ quoted'[e] = quoted[e]
  BY <1>1
<1>3. \A e \in Drafts \ {d} : DraftOK(e)' /\ SaidOnce(e)
  BY <1>1, <1>2, DraftUntouched
<1> DEFINE stored == [q \in DOMAIN drafts[d].spans \union {p} |->
                        IF q = p THEN writing[d][p] ELSE drafts[d].spans[q]]
<1>4. /\ drafts'[d] = [drafts[d] EXCEPT !.spans = stored]
      /\ writing'[d] = [q \in DOMAIN writing[d] \ {p} |-> writing[d][q]]
  BY <1>1
<1>5. drafts'[d] = [status |-> drafts[d].status, says |-> drafts[d].says,
                    notFound |-> drafts[d].notFound, spans |-> stored]
  BY <1>4 DEF DraftOK, IsDraft
<1>6. /\ IsDraft(drafts'[d]) /\ drafts'[d].status = drafts[d].status
      /\ drafts'[d].says = drafts[d].says /\ drafts'[d].notFound = drafts[d].notFound
      /\ drafts'[d].spans = stored
  BY <1>5 DEF IsDraft
<1>7. /\ drafts[d].status # "absent" /\ Said(drafts[d])
      /\ EvidenceOf(drafts[d], drafts[d].spans, quoted[d])
      /\ EvidenceOf(drafts[d], writing[d], quoted[d])
      /\ d \notin stopped => DOMAIN drafts[d].spans \union DOMAIN writing[d] = required(drafts[d])
  <2>1. writing[d] # NoSpans
    BY DEF NoSpans
  <2> QED
    BY <2>1 DEF DraftOK
<1>8. required(drafts'[d]) = required(drafts[d]) /\ Said(drafts'[d])
  BY <1>6, <1>7, SameRequired
<1>9. /\ EvidenceOf(drafts'[d], stored, quoted[d])
      /\ EvidenceOf(drafts'[d], writing'[d], quoted[d])
  BY <1>4, <1>7, <1>8 DEF EvidenceOf
<1>10. DOMAIN stored \union DOMAIN writing'[d] = DOMAIN drafts[d].spans \union DOMAIN writing[d]
  BY <1>4
<1>11. DraftOK(d)'
  <2> HIDE DEF stored
  <2> QED
    BY <1>1, <1>6, <1>7, <1>8, <1>9, <1>10 DEF DraftOK
<1>12. SaidOnce(d)
  BY <1>1, <1>6 DEF SaidOnce
<1> QED
  BY <1>2, <1>3, <1>11, <1>12

LEMMA BatchStopsKeeps ==
    ASSUME DraftsInv, NEW d \in Drafts, BatchStops(d)
    PROVE  DraftsInv' /\ \A e \in Drafts : SaidOnce(e)
<1> USE DEF DraftsInv
<1>1. PICK status \in {drafts[d].status, "extraction_failed"} :
        drafts' = [drafts EXCEPT ![d].status = status]
  BY DEF BatchStops
<1>2. /\ DOMAIN writing[d] # {} /\ quoted' = quoted /\ stopped' = stopped \union {d}
      /\ writing' = [writing EXCEPT ![d] = NoSpans]
  BY DEF BatchStops
<1>3. /\ drafts' = [e \in Drafts |-> drafts'[e]]
      /\ writing' = [e \in Drafts |-> writing'[e]]
      /\ quoted' = [e \in Drafts |-> quoted'[e]]
      /\ \A e \in Drafts \ {d} : drafts'[e] = drafts[e] /\ writing'[e] = writing[e] /\ quoted'[e] = quoted[e]
  BY <1>1, <1>2
<1>4. \A e \in Drafts \ {d} : DraftOK(e)' /\ SaidOnce(e)
  BY <1>2, <1>3, DraftUntouched
<1>5. /\ drafts[d].status # "absent" /\ Said(drafts[d])
      /\ EvidenceOf(drafts[d], drafts[d].spans, quoted[d])
  <2>1. writing[d] # NoSpans
    BY <1>2 DEF NoSpans
  <2> QED
    BY <2>1 DEF DraftOK
<1>6. drafts'[d] = [status |-> status, says |-> drafts[d].says,
                    notFound |-> drafts[d].notFound, spans |-> drafts[d].spans]
  <2>1. drafts'[d] = [drafts[d] EXCEPT !.status = status]
    BY <1>1
  <2> QED
    BY <2>1 DEF DraftOK, IsDraft
<1>7. /\ IsDraft(drafts'[d]) /\ drafts'[d].status # "absent"
      /\ drafts'[d].says = drafts[d].says /\ drafts'[d].notFound = drafts[d].notFound
      /\ drafts'[d].spans = drafts[d].spans
  BY <1>5, <1>6 DEF IsDraft
<1>8. required(drafts'[d]) = required(drafts[d]) /\ Said(drafts'[d])
  BY <1>5, <1>7, SameRequired
<1>9. EvidenceOf(drafts'[d], writing'[d], quoted[d]) /\ EvidenceOf(drafts'[d], drafts[d].spans, quoted[d])
  BY <1>2, <1>5, <1>8 DEF EvidenceOf, NoSpans
<1>10. DraftOK(d)' /\ SaidOnce(d)
  BY <1>2, <1>7, <1>8, <1>9 DEF DraftOK, SaidOnce
<1> QED
  BY <1>3, <1>4, <1>10

\* The steps of a decision touch no more of a draft than its status.
LEMMA DecisionKeeps ==
    ASSUME DraftsInv, NEW d \in Drafts, drafts[d].status # "absent", NEW status, status # "absent",
           drafts' = [drafts EXCEPT ![d].status = status], UNCHANGED <<writing, quoted, stopped>>
    PROVE  DraftsInv' /\ \A e \in Drafts : SaidOnce(e)
<1> USE DEF DraftsInv
<1>1. /\ drafts' = [e \in Drafts |-> drafts'[e]]
      /\ \A e \in Drafts \ {d} : drafts'[e] = drafts[e]
      /\ drafts'[d] = [drafts[d] EXCEPT !.status = status]
  OBVIOUS
<1>2. \A e \in Drafts \ {d} : DraftOK(e)' /\ SaidOnce(e)
  BY <1>1, DraftUntouched
<1>3. DraftOK(d)' /\ SaidOnce(d)
  BY <1>1, StatusMoves
<1> QED
  BY <1>1, <1>2, <1>3

LEMMA DraftsStay ==
    ASSUME DraftsInv, UNCHANGED <<drafts, writing, quoted, stopped>>
    PROVE  DraftsInv' /\ \A e \in Drafts : SaidOnce(e)
BY DraftUntouched DEF DraftsInv

-----------------------------------------------------------------------------
(* Evidence                                                                *)

LEMMA EvidenceFollows == DraftsInv => EvidenceIsReal
<1> SUFFICES ASSUME DraftsInv, NEW d \in Drafts
    PROVE  /\ \A p \in DOMAIN drafts[d].spans :
               /\ Spells(drafts[d].spans[p], quoted[d][p])
               /\ ~covered_by(p, drafts[d].notFound)
           /\ \A p \in drafts[d].notFound : drafts[d].says[p] \in {Null, <<>>}
           /\ drafts[d].says # NoSpans /\ DOMAIN writing[d] = {} /\ d \notin stopped =>
               DOMAIN drafts[d].spans = required(drafts[d])
  BY DEF EvidenceIsReal
<1>1. CASE Empty(drafts[d]) /\ drafts[d].spans = NoSpans
  <2>1. DOMAIN drafts[d].spans = {}
    BY <1>1 DEF NoSpans
  <2> QED
    BY <1>1, <2>1 DEF Empty
<1>2. CASE ~(Empty(drafts[d]) /\ drafts[d].spans = NoSpans)
  BY <1>2 DEF DraftsInv, DraftOK, EvidenceOf, IsEvidence, Said
<1> QED
  BY <1>1, <1>2

-----------------------------------------------------------------------------
(* The merge                                                               *)

Said1 == {"value", "explicit_null"}

\* the places where the merge takes the value of the draft
Laid(draft) == {p \in DOMAIN draft.says : ~covered_by(p, draft.notFound)}

\* what a draft says has places and values of the contract
Speaks(draft) ==
    /\ DOMAIN draft.says \subseteq DraftPaths
    /\ \A p \in DOMAIN draft.says : draft.says[p] \in Values \union Seq(Items) \union {Null}
    /\ Checks \in DOMAIN draft.says => draft.says[Checks] \in Seq(Items)

Payloads == UNION {Payload(places) : places \in SUBSET (DOMAIN Seeded \union DraftPaths)}

LEMMA DraftSpeaks == ASSUME NEW d \in Drafts, DraftOK(d) PROVE Speaks(drafts[d])
<1>1. CASE Empty(drafts[d])
  BY <1>1 DEF Empty, NoSpans, Speaks
<1>2. CASE Said(drafts[d])
  <2>1. DraftPaths = EvidencePointers \union {Checks}
    BY DEF DraftPaths
  <2> QED
    BY <1>2, <2>1 DEF Said, Speaks
<1> QED
  BY <1>1, <1>2 DEF DraftOK

LEMMA SameMerge ==
    ASSUME NEW one, NEW other, one.says = other.says, one.notFound = other.notFound, NEW previous
    PROVE  /\ merged_payload(previous, one) = merged_payload(previous, other)
           /\ \A p : draft_said(p, one) = draft_said(p, other)
BY DEF merged_payload, draft_said

LEMMA MergeLays ==
    ASSUME NEW previous, NEW draft
    PROVE  /\ DOMAIN merged_payload(previous, draft) = DOMAIN previous \union Laid(draft)
           /\ \A p \in Laid(draft) : merged_payload(previous, draft)[p] = draft.says[p]
           /\ \A p \in DOMAIN previous \ Laid(draft) : merged_payload(previous, draft)[p] = previous[p]
BY DEF merged_payload, Laid

LEMMA MergeIsPayload ==
    ASSUME NEW previous \in Payloads, NEW draft, Speaks(draft)
    PROVE  merged_payload(previous, draft) \in Payloads
<1>1. PICK places \in SUBSET (DOMAIN Seeded \union DraftPaths) : previous \in Payload(places)
  BY DEF Payloads
<1>2. DOMAIN previous = places /\ \A p \in places : previous[p] \in Values \union Seq(Items) \union {Null}
  BY <1>1 DEF Payload
<1> DEFINE merged == merged_payload(previous, draft)
<1>3. /\ DOMAIN merged = DOMAIN previous \union Laid(draft)
      /\ \A p \in Laid(draft) : merged[p] = draft.says[p]
      /\ \A p \in DOMAIN previous \ Laid(draft) : merged[p] = previous[p]
  BY MergeLays
<1>4. merged = [p \in DOMAIN merged |-> merged[p]]
  BY DEF merged_payload
<1> HIDE DEF merged
<1>5. DOMAIN merged \in SUBSET (DOMAIN Seeded \union DraftPaths)
  BY <1>2, <1>3 DEF Laid, Speaks
<1>6. \A p \in DOMAIN merged : merged[p] \in Values \union Seq(Items) \union {Null}
  BY <1>2, <1>3 DEF Laid, Speaks
<1>7. merged \in Payload(DOMAIN merged)
  BY <1>4, <1>6 DEF Payload
<1> QED
  BY <1>5, <1>7 DEF Payloads, merged

LEMMA SaidIsLaid ==
    ASSUME NEW draft, Speaks(draft), NEW p
    PROVE  /\ draft_said(p, draft) \in Said1 <=> p \in Laid(draft)
           /\ p \in Laid(draft) => (draft_said(p, draft) = "explicit_null" <=> draft.says[p] = Null)
<1>1. p \in DOMAIN draft.says => IsCriterion(p) \/ p \in Replaced
  <2>1. \A q \in CriteriaPaths : IsCriterion(q)
    BY DEF CriteriaPaths, IsCriterion
  <2> QED
    BY <2>1 DEF Speaks, DraftPaths, EvidencePointers, Replaced
<1> QED
  BY <1>1 DEF draft_said, Laid, Said1

(***************************************************************************)
(* One merge forgets only what its draft says is nothing.                  *)
(***************************************************************************)
LEMMA MergeForgetsNothing ==
    ASSUME NEW previous \in Payloads, NEW draft, Speaks(draft)
    PROVE  LET new == merged_payload(previous, draft) IN
           /\ \A p \in DOMAIN previous : Known(previous, p) /\ ~Known(new, p) =>
                draft_said(p, draft) = "explicit_null"
           /\ Checks \in DOMAIN previous => Checks \in DOMAIN new /\
                (previous[Checks] # <<>> /\ new[Checks] = <<>> => draft_said(Checks, draft) = "value")
<1> DEFINE new == merged_payload(previous, draft)
<1>1. /\ DOMAIN new = DOMAIN previous \union Laid(draft)
      /\ \A p \in Laid(draft) : new[p] = draft.says[p]
      /\ \A p \in DOMAIN previous \ Laid(draft) : new[p] = previous[p]
  BY MergeLays
<1>2. ASSUME NEW p, p \in Laid(draft)
      PROVE  /\ draft_said(p, draft) \in Said1
             /\ draft_said(p, draft) = "explicit_null" <=> draft.says[p] = Null
  BY <1>2, SaidIsLaid
<1> HIDE DEF new
<1>3. ASSUME NEW p \in DOMAIN previous, Known(previous, p), ~Known(new, p)
      PROVE  draft_said(p, draft) = "explicit_null"
  BY <1>1, <1>2, <1>3 DEF Known
<1>4. ASSUME Checks \in DOMAIN previous, previous[Checks] # <<>>, new[Checks] = <<>>
      PROVE  draft_said(Checks, draft) = "value"
  <2>1. Checks \in Laid(draft)
    BY <1>1, <1>4
  <2>2. draft.says[Checks] # Null
    BY <2>1, NamesAssumption DEF Laid, Speaks
  <2> QED
    BY <2>1, <2>2, <1>2 DEF Said1
<1> QED
  BY <1>1, <1>3, <1>4 DEF new

LEMMA MergeValue ==
    ASSUME NEW previous, NEW draft, NEW p
    PROVE  ValueAt(merged_payload(previous, draft), p) =
               IF p \in Laid(draft) THEN draft.says[p] ELSE ValueAt(previous, p)
<1> DEFINE new == merged_payload(previous, draft)
<1>1. /\ DOMAIN new = DOMAIN previous \union Laid(draft)
      /\ \A q \in Laid(draft) : new[q] = draft.says[q]
      /\ \A q \in DOMAIN previous \ Laid(draft) : new[q] = previous[q]
  BY MergeLays
<1> HIDE DEF new
<1>2. ValueAt(new, p) = IF p \in Laid(draft) THEN draft.says[p] ELSE ValueAt(previous, p)
  BY <1>1 DEF ValueAt
<1> QED
  BY <1>2 DEF new

-----------------------------------------------------------------------------
(* The versions of the rule                                                *)

Version == [by : Drafts \union {Policy}, payload : Payloads]

\* the version is what one draft made of the one before it
Made(n) ==
    /\ versions[n].by \in Drafts
    /\ drafts[versions[n].by].status # "absent"
    /\ versions[n].payload = merged_payload(versions[n - 1].payload, drafts[versions[n].by])

VersionsInv ==
    /\ versions \in Seq(Version)
    /\ Len(versions) >= 1
    /\ \A n \in 2 .. Len(versions) : Made(n)

DecidingOK(d) ==
    /\ deciding[d].stage # "idle" => drafts[d].status # "absent"
    /\ deciding[d].stage = "write" => deciding[d].previous \in 1 .. Len(versions)

DecidingInv ==
    /\ deciding \in [Drafts -> [stage : {"idle", "read", "write"}, previous : Nat]]
    /\ \A d \in Drafts : DecidingOK(d)

\* What a step keeps of what others hold on to: no draft says anything else
\* and no version changes.
Kept ==
    /\ \A d \in Drafts : SaidOnce(d)
    /\ Len(versions) <= Len(versions')
    /\ \A n \in 1 .. Len(versions) : versions'[n] = versions[n]

LEMMA VersionFacts ==
    ASSUME VersionsInv
    PROVE  /\ Len(versions) \in Nat /\ Len(versions) >= 1
           /\ \A n \in 1 .. Len(versions) : versions[n] \in Version /\ versions[n].payload \in Payloads
<1>1. Len(versions) \in Nat /\ Len(versions) >= 1
  BY LenProperties DEF VersionsInv
<1>2. \A n \in 1 .. Len(versions) : versions[n] \in Version
  BY <1>1, ElementOfSeq DEF VersionsInv
<1> QED
  BY <1>1, <1>2 DEF Version

LEMMA MadeStays ==
    ASSUME VersionsInv, Kept, NEW n \in 2 .. Len(versions)
    PROVE  Made(n)'
<1>1. Len(versions) \in Nat
  BY VersionFacts
<1>2. versions'[n] = versions[n] /\ versions'[n - 1] = versions[n - 1]
  BY <1>1 DEF Kept
<1> DEFINE d == versions[n].by
<1>3. /\ d \in Drafts /\ drafts[d].status # "absent"
      /\ versions[n].payload = merged_payload(versions[n - 1].payload, drafts[d])
  BY DEF VersionsInv, Made
<1>4. /\ drafts'[d].status # "absent" /\ drafts'[d].says = drafts[d].says
      /\ drafts'[d].notFound = drafts[d].notFound
  BY <1>3 DEF Kept, SaidOnce
<1>5. merged_payload(versions[n - 1].payload, drafts'[d]) = merged_payload(versions[n - 1].payload, drafts[d])
  BY <1>4, SameMerge
<1> QED
  BY <1>2, <1>3, <1>4, <1>5 DEF Made

LEMMA VersionsStay ==
    ASSUME VersionsInv, Kept, versions' = versions
    PROVE  VersionsInv'
<1>1. \A n \in 2 .. Len(versions) : Made(n)'
  BY MadeStays
<1> QED
  BY <1>1 DEF VersionsInv

LEMMA DecidingStays ==
    ASSUME DecidingInv, VersionsInv, VersionsInv', Kept, deciding' = deciding
    PROVE  DecidingInv'
<1>1. Len(versions) \in Nat /\ Len(versions') \in Nat
  BY LenProperties DEF VersionsInv
<1>2. ASSUME NEW d \in Drafts PROVE DecidingOK(d)'
  <2>1. DecidingOK(d) /\ SaidOnce(d) /\ deciding'[d] = deciding[d]
    BY DEF DecidingInv, Kept
  <2>2. deciding[d].stage # "idle" => drafts'[d].status # "absent"
    BY <2>1 DEF DecidingOK, SaidOnce
  <2>3. deciding[d].stage = "write" => deciding[d].previous \in 1 .. Len(versions')
    BY <1>1, <2>1 DEF DecidingOK, Kept
  <2> QED
    BY <2>1, <2>2, <2>3 DEF DecidingOK
<1> QED
  BY <1>2 DEF DecidingInv

\* One approval under way gets on, the others stay where they are.
LEMMA DecidingMoves ==
    ASSUME DecidingInv, VersionsInv, VersionsInv', Kept, NEW d \in Drafts,
           NEW stage \in {"idle", "read", "write"}, NEW previous \in Nat,
           deciding' = [deciding EXCEPT ![d] = [stage |-> stage, previous |-> previous]],
           stage # "idle" => drafts'[d].status # "absent",
           stage = "write" => previous \in 1 .. Len(versions')
    PROVE  DecidingInv'
<1>1. Len(versions) \in Nat /\ Len(versions') \in Nat
  BY LenProperties DEF VersionsInv
<1>2. deciding' \in [Drafts -> [stage : {"idle", "read", "write"}, previous : Nat]]
  BY DEF DecidingInv
<1>3. DecidingOK(d)'
  <2>1. deciding'[d] = [stage |-> stage, previous |-> previous]
    BY DEF DecidingInv
  <2> QED
    BY <2>1 DEF DecidingOK
<1>4. ASSUME NEW e \in Drafts \ {d} PROVE DecidingOK(e)'
  <2>1. DecidingOK(e) /\ SaidOnce(e) /\ deciding'[e] = deciding[e]
    BY DEF DecidingInv, Kept
  <2>2. deciding[e].stage # "idle" => drafts'[e].status # "absent"
    BY <2>1 DEF DecidingOK, SaidOnce
  <2>3. deciding[e].stage = "write" => deciding[e].previous \in 1 .. Len(versions')
    BY <1>1, <2>1 DEF DecidingOK, Kept
  <2> QED
    BY <2>1, <2>2, <2>3 DEF DecidingOK
<1> QED
  BY <1>2, <1>3, <1>4 DEF DecidingInv

LEMMA VersionIsMade ==
    ASSUME VersionsInv, DecidingInv, DraftsInv, NEW d \in Drafts, WriteVersion(d), drafts' = drafts
    PROVE  VersionsInv' /\ Len(versions') = Len(versions) + 1 /\
           \A n \in 1 .. Len(versions) : versions'[n] = versions[n]
<1>0. PICK last \in Nat : last = Len(versions)
  BY VersionFacts
<1> DEFINE payload == merged_payload(versions[last].payload, drafts[d])
           new == [by |-> d, payload |-> payload]
<1>1. versions' = Append(versions, new)
  BY <1>0 DEF WriteVersion, Supersede
<1>2. last >= 1 /\ versions[last].payload \in Payloads
  BY <1>0, VersionFacts
<1>3. drafts[d].status # "absent" /\ DraftOK(d)
  BY DEF DecidingInv, DecidingOK, WriteVersion, DraftsInv
<1>4. payload \in Payloads
  BY <1>2, <1>3, DraftSpeaks, MergeIsPayload
<1> HIDE DEF payload
<1>5. new \in Version
  BY <1>4 DEF Version
<1>6. versions \in Seq(Version)
  BY DEF VersionsInv
<1> HIDE DEF new
<1>7. /\ versions' \in Seq(Version) /\ Len(versions') = last + 1
      /\ \A n \in 1 .. last : versions'[n] = versions[n]
      /\ versions'[last + 1] = new
  BY <1>0, <1>1, <1>5, <1>6, AppendProperties
<1>8. Kept
  <2>1. quoted' = quoted
    BY DEF WriteVersion, Supersede
  <2> QED
    BY <2>1, <1>0, <1>2, <1>7 DEF Kept, SaidOnce
<1>9. \A n \in 2 .. last : Made(n)'
  BY <1>0, <1>8, MadeStays
<1>10. Made(last + 1)'
  <2>1. versions'[(last + 1) - 1] = versions[last]
    BY <1>2, <1>7
  <2>2. versions'[last + 1].by = d /\ versions'[last + 1].payload = payload
    BY <1>7 DEF new
  <2> QED
    BY <1>3, <2>1, <2>2 DEF Made, payload
<1>11. \A n \in 2 .. last + 1 : n \in 2 .. last \/ n = last + 1
  BY <1>2
<1> QED
  BY <1>0, <1>2, <1>7, <1>9, <1>10, <1>11 DEF VersionsInv

-----------------------------------------------------------------------------
(* The screen                                                              *)

\* a row of the table, its evidence apart
RowOK(row, p, previous, draft) ==
    LET before == ValueAt(previous, p)
        after == ValueAt(merged_payload(previous, draft), p)
    IN  /\ row.said = draft_said(p, draft)
        /\ row.after = after
        /\ row.changed <=> before # after
        /\ row.wipes <=> /\ p = Checks /\ draft_said(p, draft) = "value"
                         /\ before \notin {Absent, Null, <<>>} /\ after = <<>>

TableOK(previous, draft) ==
    /\ screen.merged = merged_payload(previous, draft)
    /\ DOMAIN screen.fields = DOMAIN previous \union DOMAIN draft.says \union Replaced
    /\ \A p \in DOMAIN screen.fields : RowOK(screen.fields[p], p, previous, draft)

\* What is looked at was computed from a draft and a version that are still
\* what they were.
Looks(at) ==
    /\ at.draft \in Drafts
    /\ drafts[at.draft].status # "absent"
    /\ at.over \in 1 .. Len(versions)

ScreenInv ==
    screen # NotShown =>
        Looks(screen) /\ TableOK(versions[screen.over].payload, drafts[screen.draft])

ImpactInv ==
    impact # NotShown =>
        /\ Looks(impact)
        /\ impact.verdicts = approval_impact(versions[impact.over].payload, drafts[impact.draft])

\* What was read for a detail is evidence of a draft that is there.
ReadingInv ==
    reading # NotReading =>
        /\ reading.draft \in Drafts
        /\ drafts[reading.draft].status # "absent"
        /\ \A p \in DOMAIN reading.spans : IsEvidence(reading.spans[p], quoted[reading.draft][p])

LEMMA ReadingStays ==
    ASSUME ReadingInv, \A d \in Drafts : SaidOnce(d), reading' = reading
    PROVE  ReadingInv'
<1> SUFFICES ASSUME reading # NotReading PROVE ReadingInv'
  BY DEF ReadingInv
<1>1. /\ reading.draft \in Drafts /\ drafts[reading.draft].status # "absent"
      /\ SaidOnce(reading.draft)
  BY DEF ReadingInv
<1>2. drafts'[reading.draft].status # "absent" /\ quoted'[reading.draft] = quoted[reading.draft]
  BY <1>1 DEF SaidOnce
<1> QED
  BY <1>1, <1>2 DEF ReadingInv

LEMMA EvidenceIsRead ==
    ASSUME DraftsInv, NEW d \in Drafts, ReadEvidence(d)
    PROVE  ReadingInv'
<1>1. /\ drafts' = drafts /\ quoted' = quoted /\ drafts[d].status # "absent"
      /\ reading' = [draft |-> d, spans |-> drafts[d].spans]
  BY DEF ReadEvidence
<1>2. \A p \in DOMAIN drafts[d].spans : IsEvidence(drafts[d].spans[p], quoted[d][p])
  <2>1. CASE drafts[d].spans = NoSpans
    BY <2>1 DEF NoSpans
  <2>2. CASE EvidenceOf(drafts[d], drafts[d].spans, quoted[d])
    BY <2>2 DEF EvidenceOf
  <2> QED
    BY <2>1, <2>2 DEF DraftsInv, DraftOK
<1>3. reading'.draft = d /\ reading'.spans = drafts[d].spans
  BY <1>1
<1> QED
  BY <1>1, <1>2, <1>3 DEF ReadingInv

\* The detail is of a draft that was read, with the spans read of it.
LEMMA DetailWasRead ==
    ASSUME ReadingInv, NEW d \in Drafts, ShowDetail(d)
    PROVE  /\ drafts[d].status # "absent"
           /\ \A p \in DOMAIN reading.spans : IsEvidence(reading.spans[p], quoted[d][p])
<1>1. reading.draft = d
  BY DEF ShowDetail
<1>2. reading # NotReading
  BY <1>1, DetailAssumption DEF NotReading
<1> QED
  BY <1>1, <1>2 DEF ReadingInv

LEMMA LooksStays ==
    ASSUME VersionsInv, VersionsInv', Kept, NEW at, Looks(at)
    PROVE  /\ at.draft \in Drafts /\ drafts'[at.draft].status # "absent"
           /\ at.over \in 1 .. Len(versions')
           /\ versions'[at.over] = versions[at.over]
           /\ drafts'[at.draft].says = drafts[at.draft].says
           /\ drafts'[at.draft].notFound = drafts[at.draft].notFound
           /\ quoted'[at.draft] = quoted[at.draft]
<1>1. Len(versions) \in Nat /\ Len(versions') \in Nat
  BY LenProperties DEF VersionsInv
<1>2. SaidOnce(at.draft) /\ drafts[at.draft].status # "absent" /\ at.over \in 1 .. Len(versions)
  BY DEF Kept, Looks
<1> QED
  BY <1>1, <1>2 DEF Kept, Looks, SaidOnce

LEMMA ScreenStays ==
    ASSUME ScreenInv, VersionsInv, VersionsInv', Kept, screen' = screen
    PROVE  ScreenInv'
<1> SUFFICES ASSUME screen # NotShown
    PROVE  /\ Looks(screen)'
           /\ TableOK(versions[screen.over].payload, drafts[screen.draft])'
  BY DEF ScreenInv
<1>1. Looks(screen) /\ TableOK(versions[screen.over].payload, drafts[screen.draft])
  BY DEF ScreenInv
<1>2. /\ drafts'[screen.draft].status # "absent" /\ screen.draft \in Drafts
      /\ screen.over \in 1 .. Len(versions')
      /\ versions'[screen.over] = versions[screen.over]
      /\ drafts'[screen.draft].says = drafts[screen.draft].says
      /\ drafts'[screen.draft].notFound = drafts[screen.draft].notFound
  BY <1>1, LooksStays
<1>3. Looks(screen)'
  BY <1>2 DEF Looks
<1> DEFINE previous == versions[screen.over].payload
           one == drafts'[screen.draft]
           other == drafts[screen.draft]
<1>4. /\ merged_payload(previous, one) = merged_payload(previous, other)
      /\ \A p : draft_said(p, one) = draft_said(p, other)
  BY <1>2, SameMerge
<1>5. /\ screen.merged = merged_payload(previous, one)
      /\ DOMAIN screen.fields = DOMAIN previous \union DOMAIN one.says \union Replaced
      /\ \A p \in DOMAIN screen.fields : RowOK(screen.fields[p], p, previous, one)
  <2>1. \A p : RowOK(screen.fields[p], p, previous, one) <=> RowOK(screen.fields[p], p, previous, other)
    <3> HIDE DEF previous, one, other
    <3> QED
      BY <1>4 DEF RowOK
  <2> QED
    BY <1>1, <1>2, <1>4, <2>1 DEF TableOK
<1> QED
  BY <1>2, <1>3, <1>5 DEF TableOK

LEMMA ImpactStays ==
    ASSUME ImpactInv, VersionsInv, VersionsInv', Kept, impact' = impact
    PROVE  ImpactInv'
<1> SUFFICES ASSUME impact # NotShown
    PROVE  /\ Looks(impact)'
           /\ impact.verdicts = approval_impact(versions'[impact.over].payload, drafts'[impact.draft])
  BY DEF ImpactInv
<1>1. /\ Looks(impact)
      /\ impact.verdicts = approval_impact(versions[impact.over].payload, drafts[impact.draft])
  BY DEF ImpactInv
<1>2. /\ drafts'[impact.draft].status # "absent" /\ impact.draft \in Drafts
      /\ impact.over \in 1 .. Len(versions')
      /\ versions'[impact.over] = versions[impact.over]
      /\ drafts'[impact.draft].says = drafts[impact.draft].says
      /\ drafts'[impact.draft].notFound = drafts[impact.draft].notFound
  BY <1>1, LooksStays
<1>3. merged_payload(versions[impact.over].payload, drafts'[impact.draft]) =
      merged_payload(versions[impact.over].payload, drafts[impact.draft])
  BY <1>2, SameMerge
<1>4. Looks(impact)'
  BY <1>2 DEF Looks
<1> QED
  BY <1>1, <1>2, <1>3, <1>4 DEF approval_impact

LEMMA ScreenIsShown ==
    ASSUME DraftsInv, VersionsInv, ReadingInv, NEW d \in Drafts, ShowDetail(d)
    PROVE  ScreenInv'
<1>1. Len(versions) \in Nat /\ Len(versions) >= 1
  BY VersionFacts
<1> DEFINE draft == [drafts[d] EXCEPT !.spans = reading.spans]
           merged == merged_payload(Current, draft)
<1>2. /\ drafts' = drafts /\ versions' = versions
      /\ screen' = [draft |-> d, over |-> Len(versions), merged |-> merged,
                    fields |-> field_changes(Current, draft, merged),
                    spans |-> views(draft),
                    segments |-> highlight_segments(Text, reading.spans)]
  BY DEF ShowDetail
<1>3. /\ screen'.draft = d /\ screen'.over = Len(versions) /\ screen'.merged = merged
      /\ screen'.fields = field_changes(Current, draft, merged)
  BY <1>2
<1>4. drafts[d].status # "absent"
  BY DetailWasRead
<1>5. Looks(screen)'
  BY <1>1, <1>2, <1>3, <1>4 DEF Looks
<1>6. draft.says = drafts[d].says /\ draft.notFound = drafts[d].notFound
  BY DEF DraftsInv, DraftOK, IsDraft
<1> HIDE DEF draft
<1>7. /\ merged = merged_payload(Current, drafts[d])
      /\ \A p : draft_said(p, draft) = draft_said(p, drafts[d])
  BY <1>6, SameMerge
<1>8. /\ DOMAIN screen'.fields = DOMAIN Current \union DOMAIN drafts[d].says \union Replaced
      /\ \A p \in DOMAIN screen'.fields : screen'.fields[p] = field_change(p, Current, draft, merged)
  BY <1>3, <1>6 DEF field_changes
<1>9. \A p : RowOK(field_change(p, Current, draft, merged), p, Current, drafts[d])
  BY <1>7 DEF RowOK, field_change
<1>10. versions'[screen'.over].payload = Current /\ drafts'[screen'.draft] = drafts[d]
  BY <1>2, <1>3 DEF Current
<1>11. TableOK(versions[screen.over].payload, drafts[screen.draft])'
  BY <1>3, <1>7, <1>8, <1>9, <1>10 DEF TableOK
<1> QED
  BY <1>5, <1>11 DEF ScreenInv

LEMMA ImpactIsShown ==
    ASSUME VersionsInv, NEW d \in Drafts, ShowImpact(d)
    PROVE  ImpactInv'
<1>1. Len(versions) \in Nat /\ Len(versions) >= 1
  BY VersionFacts
<1>2. /\ drafts[d].status # "absent" /\ drafts' = drafts /\ versions' = versions
      /\ impact' = [draft |-> d, over |-> Len(versions),
                    verdicts |-> approval_impact(Current, drafts[d])]
  BY DEF ShowImpact
<1>3. /\ impact'.draft = d /\ impact'.over = Len(versions)
      /\ impact'.verdicts = approval_impact(Current, drafts[d])
  BY <1>2
<1>4. Looks(impact)'
  BY <1>1, <1>2, <1>3 DEF Looks
<1> QED
  BY <1>2, <1>3, <1>4 DEF ImpactInv, Current

-----------------------------------------------------------------------------
(* The pieces of the text                                                  *)

\* spans that lie in the text
InText(spans) ==
    \A p \in DOMAIN spans :
        /\ spans[p].start \in Int /\ spans[p].end \in Int
        /\ 0 <= spans[p].start /\ spans[p].start < spans[p].end /\ spans[p].end <= Len(Text)

LEMMA TextLength == Len(Text) \in Nat
BY DetailAssumption, LenProperties

LEMMA BoundedIsSame ==
    ASSUME NEW spans, InText(spans)
    PROVE  /\ DOMAIN Bounded(spans, Text) = DOMAIN spans
           /\ \A p \in DOMAIN spans : /\ Bounded(spans, Text)[p].start = spans[p].start
                                      /\ Bounded(spans, Text)[p].end = spans[p].end
<1>1. Len(Text) \in Nat
  BY TextLength
<1>2. \A i \in Int : 0 <= i /\ i <= Len(Text) => Clamp(i, Len(Text)) = i
  BY <1>1 DEF Clamp
<1>3. ASSUME NEW p \in DOMAIN spans
      PROVE  Clamp(spans[p].start, Len(Text)) = spans[p].start /\ Clamp(spans[p].end, Len(Text)) = spans[p].end
  BY <1>1, <1>2 DEF InText
<1> QED
  BY <1>3 DEF Bounded

LEMMA CutFacts ==
    ASSUME NEW spans, InText(spans)
    PROVE  LET cuts == CutsOf(Bounded(spans, Text), Text) IN
           /\ cuts \in SUBSET Nat /\ 0 \in cuts /\ Len(Text) \in cuts
           /\ \A p \in DOMAIN spans : spans[p].start \in cuts /\ spans[p].end \in cuts
<1> DEFINE bounded == Bounded(spans, Text)
<1>1. /\ DOMAIN bounded = DOMAIN spans
      /\ \A p \in DOMAIN spans : bounded[p].start = spans[p].start /\ bounded[p].end = spans[p].end
  BY BoundedIsSame
<1>2. \A p \in DOMAIN spans : spans[p].start \in Nat /\ spans[p].end \in Nat
  BY DEF InText
<1> HIDE DEF bounded
<1>3. CutsOf(bounded, Text) \in SUBSET Nat
  BY <1>1, <1>2, TextLength DEF CutsOf
<1> QED
  BY <1>1, <1>3 DEF CutsOf, bounded

\* One piece holds a position, and the spans that hold it carry the piece.
LEMMA PieceOfPosition ==
    ASSUME NEW spans, InText(spans), NEW x \in 0 .. Len(Text) - 1
    PROVE  \E piece \in highlight_segments(Text, spans) :
             /\ \A other \in highlight_segments(Text, spans) : Covers(other, x) <=> other = piece
             /\ \A p \in DOMAIN spans : p \in piece.fieldPaths <=> Covers(spans[p], x)
<1> DEFINE bounded == Bounded(spans, Text)
           cuts == CutsOf(bounded, Text)
           Piece(c) == [start |-> c[1], end |-> c[2], fieldPaths |-> carriers(bounded, c[1], c[2])]
<1>1. /\ cuts \in SUBSET Nat /\ 0 \in cuts /\ Len(Text) \in cuts
      /\ \A p \in DOMAIN spans : spans[p].start \in cuts /\ spans[p].end \in cuts
  BY CutFacts
<1>2. /\ DOMAIN bounded = DOMAIN spans
      /\ \A p \in DOMAIN spans : bounded[p].start = spans[p].start /\ bounded[p].end = spans[p].end
  BY BoundedIsSame
<1>3. highlight_segments(Text, spans) = {Piece(c) : c \in Consecutive(cuts)}
  BY DEF highlight_segments
<1>4. x \in Nat /\ 0 <= x /\ x < Len(Text) /\ Len(Text) \in Nat
  BY TextLength
<1> HIDE DEF bounded, cuts
<1>5. PICK low \in cuts : low <= x /\ \A n \in cuts : n <= x => n <= low
  BY <1>1, <1>4, GreatestNotAbove
<1>6. PICK high \in cuts : x < high /\ \A n \in cuts : x < n => high <= n
  BY <1>1, <1>4, LeastAbove
<1>7. low \in Nat /\ high \in Nat /\ low < high
  BY <1>1, <1>4, <1>5, <1>6
<1>8. \A y \in cuts : y <= low \/ high <= y
  BY <1>1, <1>4, <1>5, <1>6
<1>9. <<low, high>> \in Consecutive(cuts)
  BY <1>1, <1>7, <1>8 DEF Consecutive
<1>10. ASSUME NEW c \in Consecutive(cuts), c[1] <= x, x < c[2] PROVE c = <<low, high>>
  <2>1. /\ c = <<c[1], c[2]>> /\ c[1] \in cuts /\ c[2] \in cuts /\ c[1] < c[2]
        /\ \A y \in cuts : ~(c[1] < y /\ y < c[2])
    BY DEF Consecutive
  <2>2. c[1] \in Nat /\ c[2] \in Nat
    BY <1>1, <2>1
  <2>3. c[1] <= low /\ high <= c[2]
    BY <1>5, <1>6, <1>10, <2>1
  <2>4. ~(c[1] < low /\ low < c[2])
    BY <2>1
  <2>5. ~(c[1] < high /\ high < c[2])
    BY <2>1
  <2>6. c[1] = low /\ c[2] = high
    BY <1>4, <1>5, <1>6, <1>7, <1>10, <2>2, <2>3, <2>4, <2>5
  <2> QED
    BY <2>1, <2>6
<1> DEFINE piece == Piece(<<low, high>>)
<1>11. piece \in highlight_segments(Text, spans)
  BY <1>3, <1>9
<1>12. piece.start = low /\ piece.end = high /\ piece.fieldPaths = carriers(bounded, low, high)
  OBVIOUS
<1>13. ASSUME NEW other \in highlight_segments(Text, spans) PROVE Covers(other, x) <=> other = piece
  <2>1. PICK c \in Consecutive(cuts) : other = Piece(c)
    BY <1>3
  <2>2. other.start = c[1] /\ other.end = c[2]
    BY <2>1
  <2>3. CASE other = piece
    BY <1>5, <1>6, <1>12, <2>3 DEF Covers
  <2>4. CASE Covers(other, x)
    BY <1>10, <2>1, <2>2, <2>4 DEF Covers
  <2> QED
    BY <2>3, <2>4
<1>14. ASSUME NEW p \in DOMAIN spans PROVE p \in piece.fieldPaths <=> Covers(spans[p], x)
  <2>1. p \in piece.fieldPaths <=> spans[p].start <= low /\ high <= spans[p].end
    BY <1>2, <1>12 DEF carriers
  <2>2. /\ spans[p].start \in Nat /\ spans[p].end \in Nat
        /\ spans[p].start \in cuts /\ spans[p].end \in cuts
    BY <1>1
  <2>3. spans[p].start <= x <=> spans[p].start <= low
    BY <1>4, <1>5, <1>7, <2>2
  <2>4. x < spans[p].end <=> high <= spans[p].end
    BY <1>4, <1>6, <1>7, <2>2
  <2> QED
    BY <2>1, <2>3, <2>4 DEF Covers
<1> HIDE DEF piece
<1> QED
  BY <1>11, <1>13, <1>14

\* A quote is marked where it stands, and if it is not flagged, nowhere
\* apart from there.
LEMMA ViewIsExact ==
    ASSUME NEW span, NEW quote, IsEvidence(span, quote)
    PROVE  LET view == span_view(span) IN
           /\ Spells(view, quote)
           /\ view.quote = quote
           /\ ~view.ambiguous => \A i \in Places(Text, view.quote) :
                i < view.end /\ view.start < i + Len(view.quote)
<1> DEFINE view == span_view(span)
           start == span.start
           end == span.end
<1>1. /\ start \in Int /\ end \in Int /\ 0 <= start /\ start < end /\ end <= Len(Text)
      /\ Slice(Text, start, end) = quote
  BY DEF IsEvidence, Spells
<1>2. view.start = start /\ view.end = end /\ view.quote = quote /\ view.ambiguous = ambiguous(Text, quote)
  BY <1>1 DEF span_view
<1> HIDE DEF view, start, end
<1>3. Spells(view, quote)
  BY <1>1, <1>2 DEF Spells
<1>4. quote \in Seq(Letters) /\ Len(quote) = end - start
  BY <1>1, SliceProperties, DetailAssumption
<1>5. Len(Text) \in Nat /\ Len(quote) \in Nat /\ start + Len(quote) = end
  BY <1>1, <1>4, TextLength
<1>6. start \in Places(Text, quote)
  BY <1>1, <1>5 DEF Places
<1> DEFINE places == Places(Text, quote)
<1>7. places \in SUBSET Nat
  BY <1>4, PlacesAreNaturals, DetailAssumption
<1> DEFINE first == First(places)
<1>8. first \in places /\ \A n \in places : first <= n
  BY <1>6, <1>7, FirstIsLeast
<1>9. ASSUME ~ambiguous(Text, quote), NEW i \in places
      PROVE  i < end /\ start < i + Len(quote)
  <2>1. ~(i >= first + Len(quote)) /\ ~(start >= first + Len(quote))
    BY <1>6, <1>9 DEF ambiguous
  <2>2. i \in Nat /\ first \in Nat /\ first <= i /\ first <= start /\ start \in Nat
    BY <1>6, <1>7, <1>8, <1>9
  <2> HIDE DEF first, places
  <2> QED
    BY <1>5, <2>1, <2>2
<1> QED
  BY <1>2, <1>3, <1>9 DEF view

LEMMA ViewPlace ==
    ASSUME NEW span
    PROVE  span_view(span).start = span.start /\ span_view(span).end = span.end
BY DEF span_view

LEMMA HighlightIsShown ==
    ASSUME DraftsInv, ReadingInv, NEW d \in Drafts, ShowDetail(d)
    PROVE  HighlightIsExact'
<1> DEFINE spans == reading.spans
           draft == [drafts[d] EXCEPT !.spans = spans]
<1>1. /\ quoted' = quoted
      /\ screen' = [draft |-> d, over |-> Len(versions), merged |-> merged_payload(Current, draft),
                    fields |-> field_changes(Current, draft, merged_payload(Current, draft)),
                    spans |-> views(draft),
                    segments |-> highlight_segments(Text, spans)]
  BY DEF ShowDetail
<1>2. /\ screen'.draft = d /\ screen'.spans = views(draft)
      /\ screen'.segments = highlight_segments(Text, spans)
  BY <1>1
<1>3. DOMAIN screen'.spans = DOMAIN spans /\ \A p \in DOMAIN spans : screen'.spans[p] = span_view(spans[p])
  <2>1. draft.spans = spans
    BY DEF DraftsInv, DraftOK, IsDraft
  <2> HIDE DEF draft
  <2> QED
    BY <1>2, <2>1 DEF views
<1>4. \A p \in DOMAIN spans : IsEvidence(spans[p], quoted[d][p])
  BY DetailWasRead
<1>5. InText(spans)
  BY <1>4 DEF InText, IsEvidence, Spells
<1> HIDE DEF spans
<1>6. ASSUME NEW x \in 0 .. Len(Text) - 1
      PROVE  \E piece \in screen'.segments :
               /\ \A other \in screen'.segments : Covers(other, x) <=> other = piece
               /\ \A p \in DOMAIN screen'.spans : p \in piece.fieldPaths <=> Covers(screen'.spans[p], x)
  <2>1. PICK piece \in highlight_segments(Text, spans) :
            /\ \A other \in highlight_segments(Text, spans) : Covers(other, x) <=> other = piece
            /\ \A p \in DOMAIN spans : p \in piece.fieldPaths <=> Covers(spans[p], x)
    BY <1>5, PieceOfPosition
  <2>2. \A p \in DOMAIN spans : Covers(screen'.spans[p], x) <=> Covers(spans[p], x)
    <3>1. ASSUME NEW p \in DOMAIN spans
          PROVE  screen'.spans[p].start = spans[p].start /\ screen'.spans[p].end = spans[p].end
      BY <1>3, ViewPlace
    <3> QED
      BY <3>1 DEF Covers
  <2> QED
    BY <1>2, <1>3, <2>1, <2>2
<1>7. ASSUME NEW p \in DOMAIN screen'.spans
      PROVE  LET view == screen'.spans[p] IN
             /\ Spells(view, quoted'[screen'.draft][p])
             /\ view.quote = quoted'[screen'.draft][p]
             /\ ~view.ambiguous => \A i \in Places(Text, view.quote) :
                  i < view.end /\ view.start < i + Len(view.quote)
  BY <1>1, <1>2, <1>3, <1>4, ViewIsExact
<1> QED
  BY <1>6, <1>7 DEF HighlightIsExact

LEMMA HighlightStays ==
    ASSUME HighlightIsExact, ScreenInv, VersionsInv, VersionsInv', Kept, screen' = screen
    PROVE  HighlightIsExact'
<1> SUFFICES ASSUME screen # NotShown PROVE HighlightIsExact'
  BY DEF HighlightIsExact
<1>1. quoted'[screen.draft] = quoted[screen.draft]
  BY LooksStays DEF ScreenInv
<1> QED
  BY <1>1 DEF HighlightIsExact

-----------------------------------------------------------------------------
(* The steps                                                               *)

(***************************************************************************)
(* What holds of every state: the drafts are evidence and what was said,   *)
(* every version is what one draft made of the one before, an approval on  *)
(* its way has a draft and a version, what a detail has read is evidence,  *)
(* and what is looked at is what was computed from a draft and a version   *)
(* that have not changed since.                                            *)
(***************************************************************************)
Inv ==
    /\ DraftsInv
    /\ VersionsInv
    /\ DecidingInv
    /\ ReadingInv
    /\ ScreenInv
    /\ ImpactInv
    /\ HighlightIsExact

LEMMA InitInv == Init => Inv
<1> SUFFICES ASSUME Init PROVE Inv
  OBVIOUS
<1>1. versions = <<[by |-> Policy, payload |-> Seeded]>>
  BY DEF Init
<1>2. Seeded \in Payloads
  BY DetailAssumption DEF Payloads
<1>3. [by |-> Policy, payload |-> Seeded] \in Version
  BY <1>2 DEF Version
<1>4. versions \in Seq(Version) /\ Len(versions) = 1
  BY <1>1, <1>3
<1>5. VersionsInv
  BY <1>4 DEF VersionsInv
<1>6. /\ deciding = [d \in Drafts |-> NotDeciding]
      /\ NotDeciding \in [stage : {"idle", "read", "write"}, previous : Nat] /\ NotDeciding.stage = "idle"
  BY DEF Init, NotDeciding
<1>7. DecidingInv
  BY <1>6 DEF DecidingInv, DecidingOK
<1>8. ReadingInv /\ ScreenInv /\ ImpactInv /\ HighlightIsExact
  BY DEF Init, ReadingInv, ScreenInv, ImpactInv, HighlightIsExact
<1> QED
  BY <1>5, <1>7, <1>8, DraftsInit DEF Inv

LEMMA VersionsSame ==
    ASSUME VersionsInv, \A d \in Drafts : SaidOnce(d), versions' = versions
    PROVE  Kept /\ VersionsInv'
<1>1. Kept
  BY VersionFacts DEF Kept
<1> QED
  BY <1>1, VersionsStay

\* A step that leaves the versions, the approvals under way and what is
\* looked at alone.
LEMMA WritingKeeps ==
    ASSUME Inv, DraftsInv', \A d \in Drafts : SaidOnce(d),
           UNCHANGED <<versions, deciding, reading, screen, impact>>
    PROVE  Inv'
<1>1. Kept /\ VersionsInv'
  BY VersionsSame DEF Inv
<1> QED
  BY <1>1, DecidingStays, ReadingStays, ScreenStays, ImpactStays, HighlightStays DEF Inv

LEMMA LookingKeeps ==
    ASSUME Inv, NEW d \in Drafts, ReadEvidence(d) \/ ShowDetail(d) \/ ShowImpact(d)
    PROVE  Inv'
<1>1. UNCHANGED <<drafts, writing, quoted, stopped, versions, deciding>>
  BY DEF ReadEvidence, ShowDetail, ShowImpact
<1>2. DraftsInv' /\ \A e \in Drafts : SaidOnce(e)
  BY <1>1, DraftsStay DEF Inv
<1>3. Kept /\ VersionsInv'
  BY <1>1, <1>2, VersionsSame DEF Inv
<1>4. DecidingInv'
  BY <1>1, <1>3, DecidingStays DEF Inv
<1>5. CASE ShowDetail(d)
  <2>1. impact' = impact /\ reading' = NotReading
    BY <1>5 DEF ShowDetail
  <2>2. ReadingInv'
    BY <2>1 DEF ReadingInv
  <2> QED
    BY <1>2, <1>3, <1>4, <1>5, <2>1, <2>2, ScreenIsShown, HighlightIsShown, ImpactStays DEF Inv
<1>6. CASE ShowImpact(d)
  <2>1. screen' = screen /\ reading' = reading
    BY <1>6 DEF ShowImpact
  <2> QED
    BY <1>2, <1>3, <1>4, <1>6, <2>1, ImpactIsShown, ReadingStays, ScreenStays, HighlightStays DEF Inv
<1>7. CASE ReadEvidence(d)
  <2>1. screen' = screen /\ impact' = impact
    BY <1>7 DEF ReadEvidence
  <2> QED
    BY <1>2, <1>3, <1>4, <1>7, <2>1, EvidenceIsRead, ScreenStays, ImpactStays, HighlightStays DEF Inv
<1> QED
  BY <1>5, <1>6, <1>7

LEMMA ClaimKeeps ==
    ASSUME Inv, NEW d \in Drafts, NEW decision \in {"approved", "rejected"}, Claim(d, decision)
    PROVE  Inv'
<1>1. /\ drafts[d].status # "absent" /\ drafts' = [drafts EXCEPT ![d].status = decision]
      /\ UNCHANGED <<writing, quoted, stopped, versions, reading, screen, impact>>
  BY DEF Claim
<1>2. DraftsInv' /\ \A e \in Drafts : SaidOnce(e)
  BY <1>1, DecisionKeeps DEF Inv
<1>3. Kept /\ VersionsInv'
  BY <1>1, <1>2, VersionsSame DEF Inv
<1>4. DecidingInv'
  <2>1. CASE decision = "approved"
    <3>1. deciding' = [deciding EXCEPT ![d].stage = "read"]
      BY <2>1 DEF Claim
    <3>2. deciding[d].previous \in Nat
      BY DEF Inv, DecidingInv
    <3>3. deciding' = [deciding EXCEPT ![d] = [stage |-> "read", previous |-> deciding[d].previous]]
      <4>1. deciding \in [Drafts -> [stage : {"idle", "read", "write"}, previous : Nat]]
        BY DEF Inv, DecidingInv
      <4>2. [deciding[d] EXCEPT !.stage = "read"] = [stage |-> "read", previous |-> deciding[d].previous]
        BY <4>1
      <4> QED
        BY <3>1, <4>2
    <3>4. drafts'[d].status # "absent"
      BY <1>1, <1>2 DEF SaidOnce
    <3> QED
      BY <1>3, <3>2, <3>3, <3>4, DecidingMoves DEF Inv
  <2>2. CASE decision # "approved"
    <3>1. deciding' = deciding
      BY <2>2 DEF Claim
    <3> QED
      BY <1>3, <3>1, DecidingStays DEF Inv
  <2> QED
    BY <2>1, <2>2
<1> QED
  BY <1>1, <1>2, <1>3, <1>4, ReadingStays, ScreenStays, ImpactStays, HighlightStays DEF Inv

LEMMA ReadKeeps ==
    ASSUME Inv, NEW d \in Drafts, ReadPrevious(d)
    PROVE  Inv'
<1>1. /\ deciding[d].stage = "read"
      /\ deciding' = [deciding EXCEPT ![d] = [stage |-> "write", previous |-> Len(versions)]]
      /\ UNCHANGED <<drafts, writing, quoted, stopped, versions, reading, screen, impact>>
  BY DEF ReadPrevious
<1>2. DraftsInv' /\ \A e \in Drafts : SaidOnce(e)
  BY <1>1, DraftsStay DEF Inv
<1>3. Kept /\ VersionsInv'
  BY <1>1, <1>2, VersionsSame DEF Inv
<1>4. drafts'[d].status # "absent"
  BY <1>1 DEF Inv, DecidingInv, DecidingOK
<1>5. Len(versions) \in Nat /\ Len(versions) \in 1 .. Len(versions')
  BY <1>1, VersionFacts DEF Inv
<1>6. DecidingInv'
  BY <1>1, <1>3, <1>4, <1>5, DecidingMoves DEF Inv
<1> QED
  BY <1>1, <1>2, <1>3, <1>6, ReadingStays, ScreenStays, ImpactStays, HighlightStays DEF Inv

LEMMA WriteKeeps ==
    ASSUME Inv, NEW d \in Drafts, WriteVersion(d)
    PROVE  Inv'
<1>1. /\ deciding' = [deciding EXCEPT ![d] = [stage |-> "idle", previous |-> 0]]
      /\ UNCHANGED <<drafts, writing, quoted, stopped, reading, screen, impact>>
  BY DEF WriteVersion, Supersede, NotDeciding
<1>2. DraftsInv' /\ \A e \in Drafts : SaidOnce(e)
  BY <1>1, DraftsStay DEF Inv
<1>3. /\ VersionsInv' /\ Len(versions') = Len(versions) + 1
      /\ \A n \in 1 .. Len(versions) : versions'[n] = versions[n]
  BY <1>1, VersionIsMade DEF Inv
<1>4. Kept
  BY <1>2, <1>3, VersionFacts DEF Kept, Inv
<1>5. DecidingInv'
  BY <1>1, <1>3, <1>4, DecidingMoves DEF Inv
<1> QED
  BY <1>1, <1>2, <1>3, <1>4, <1>5, ReadingStays, ScreenStays, ImpactStays, HighlightStays DEF Inv

LEMMA GiveBackKeeps ==
    ASSUME Inv, NEW d \in Drafts, GiveBack(d)
    PROVE  Inv'
<1>1. /\ deciding[d].stage # "idle" /\ drafts' = [drafts EXCEPT ![d].status = "pending"]
      /\ deciding' = [deciding EXCEPT ![d] = [stage |-> "idle", previous |-> 0]]
      /\ UNCHANGED <<writing, quoted, stopped, versions, reading, screen, impact>>
  BY DEF GiveBack, NotDeciding
<1>2. drafts[d].status # "absent"
  BY <1>1 DEF Inv, DecidingInv, DecidingOK
<1>3. DraftsInv' /\ \A e \in Drafts : SaidOnce(e)
  BY <1>1, <1>2, DecisionKeeps DEF Inv
<1>4. Kept /\ VersionsInv'
  BY <1>1, <1>3, VersionsSame DEF Inv
<1>5. DecidingInv'
  BY <1>1, <1>4, DecidingMoves DEF Inv
<1> QED
  BY <1>1, <1>3, <1>4, <1>5, ReadingStays, ScreenStays, ImpactStays, HighlightStays DEF Inv

LEMMA StepKeeps == Inv /\ [Next]_vars => Inv'
<1> SUFFICES ASSUME Inv, [Next]_vars PROVE Inv'
  OBVIOUS
<1>1. CASE UNCHANGED vars
  <2>1. UNCHANGED <<drafts, writing, quoted, stopped, versions, deciding, reading, screen, impact>>
    BY <1>1 DEF vars
  <2>2. DraftsInv' /\ \A e \in Drafts : SaidOnce(e)
    BY <2>1, DraftsStay DEF Inv
  <2> QED
    BY <2>1, <2>2, WritingKeeps
<1>2. ASSUME NEW d \in Drafts, ExtractOne(d) PROVE Inv'
  <2>1. DraftsInv' /\ \A e \in Drafts : SaidOnce(e)
    BY <1>2, ExtractKeeps DEF Inv
  <2> QED
    BY <1>2, <2>1, WritingKeeps DEF ExtractOne
<1>3. ASSUME NEW d \in Drafts, BatchStops(d) PROVE Inv'
  <2>1. DraftsInv' /\ \A e \in Drafts : SaidOnce(e)
    BY <1>3, BatchStopsKeeps DEF Inv
  <2> QED
    BY <1>3, <2>1, WritingKeeps DEF BatchStops
<1>4. ASSUME NEW d \in Drafts, NEW p \in DOMAIN writing[d], AddSpan(d, p) PROVE Inv'
  <2>1. DraftsInv' /\ \A e \in Drafts : SaidOnce(e)
    BY <1>4, AddSpanKeeps DEF Inv
  <2> QED
    BY <1>4, <2>1, WritingKeeps DEF AddSpan
<1> QED
  BY <1>1, <1>2, <1>3, <1>4, LookingKeeps, ClaimKeeps, ReadKeeps, WriteKeeps, GiveBackKeeps DEF Next

LEMMA SpecInv == Spec => []Inv
BY InitInv, StepKeeps, PTL DEF Spec

-----------------------------------------------------------------------------
(* The theorems                                                            *)

(***************************************************************************)
(* Evidence is real: what verify lets through and extract_one stores       *)
(* spells the quotes of the answer, whatever the text and the answers are, *)
(* and neither the batches nor the decisions ever touch it.                *)
(***************************************************************************)
THEOREM EvidenceStaysReal == Spec => []EvidenceIsReal
<1>1. Inv => EvidenceIsReal
  BY EvidenceFollows DEF Inv
<1> QED
  BY <1>1, SpecInv, PTL

(***************************************************************************)
(* The screen shows the text it has: _highlight_segments cuts every text   *)
(* with any number of overlapping spans into pieces that are marked for    *)
(* exactly the spans over them, and a quote that _span_view does not flag  *)
(* as ambiguous is marked wherever it stands.                              *)
(***************************************************************************)
THEOREM HighlightStaysExact == Spec => []HighlightIsExact
<1>1. Inv => HighlightIsExact
  BY DEF Inv
<1> QED
  BY <1>1, SpecInv, PTL

\* What one version makes of the one before.
LEMMA VersionFollows ==
    ASSUME Inv, NEW n \in 2 .. Len(versions)
    PROVE  LET draft == drafts[versions[n].by] IN
           /\ versions[n].by \in Drafts /\ Speaks(draft)
           /\ versions[n - 1].payload \in Payloads
           /\ versions[n].payload = merged_payload(versions[n - 1].payload, draft)
<1>1. Made(n) /\ Len(versions) \in Nat
  BY VersionFacts DEF Inv, VersionsInv
<1>2. versions[n - 1].payload \in Payloads
  BY <1>1, VersionFacts DEF Inv
<1>3. Speaks(drafts[versions[n].by])
  BY <1>1, DraftSpeaks DEF Made, Inv, DraftsInv
<1> QED
  BY <1>1, <1>2, <1>3 DEF Made

(***************************************************************************)
(* Nothing known is forgotten unasked: along any chain of approvals a      *)
(* threshold of the rule is lost, and its checks become none, only in a    *)
(* version whose draft said so itself.                                     *)
(***************************************************************************)
THEOREM NothingIsErasedUnasked == Spec => []OnlyAnExplicitNullErases
<1>1. ASSUME Inv PROVE OnlyAnExplicitNullErases
  <2> SUFFICES ASSUME NEW n \in 2 .. Len(versions)
      PROVE  LET old == versions[n - 1].payload
                 new == versions[n].payload
                 draft == drafts[versions[n].by]
             IN  /\ \A p \in DOMAIN old : Known(old, p) /\ ~Known(new, p) =>
                     draft_said(p, draft) = "explicit_null"
                 /\ Checks \in DOMAIN old => Checks \in DOMAIN new /\
                     (old[Checks] # <<>> /\ new[Checks] = <<>> => draft_said(Checks, draft) = "value")
    BY DEF OnlyAnExplicitNullErases
  <2>1. /\ Speaks(drafts[versions[n].by]) /\ versions[n - 1].payload \in Payloads
        /\ versions[n].payload = merged_payload(versions[n - 1].payload, drafts[versions[n].by])
    BY <1>1, VersionFollows
  <2> QED
    BY <2>1, MergeForgetsNothing
<1> QED
  BY <1>1, SpecInv, PTL

\* What the table says of a merge over the version it was made over.
LEMMA TableTellsTheTruth ==
    ASSUME NEW previous \in Payloads, NEW draft, Speaks(draft), TableOK(previous, draft),
           NEW new, new = merged_payload(previous, draft)
    PROVE  LET rows == screen.fields IN
           /\ screen.merged = new
           /\ \A p \in DOMAIN new : p \in DOMAIN rows /\ rows[p].after = new[p]
           /\ \A p \in DOMAIN previous : ValueAt(new, p) # previous[p] => rows[p].changed
           /\ Checks \in DOMAIN previous /\ previous[Checks] \notin {Null, <<>>} /\ new[Checks] = <<>> =>
                rows[Checks].wipes
<1> DEFINE rows == screen.fields
<1>1. /\ screen.merged = new
      /\ DOMAIN rows = DOMAIN previous \union DOMAIN draft.says \union Replaced
      /\ \A p \in DOMAIN rows : RowOK(rows[p], p, previous, draft)
  BY DEF TableOK
<1>2. DOMAIN new = DOMAIN previous \union Laid(draft)
  BY MergeLays
<1> HIDE DEF rows
<1>3. ASSUME NEW p \in DOMAIN new PROVE p \in DOMAIN rows /\ rows[p].after = new[p]
  BY <1>1, <1>2 DEF Laid, RowOK, ValueAt
<1>4. ASSUME NEW p \in DOMAIN previous, ValueAt(new, p) # previous[p] PROVE rows[p].changed
  BY <1>1, <1>4 DEF RowOK, ValueAt
<1>5. ASSUME Checks \in DOMAIN previous, previous[Checks] \notin {Null, <<>>}, new[Checks] = <<>>
      PROVE  rows[Checks].wipes
  <2>1. Checks \in DOMAIN new /\ ValueAt(new, Checks) = <<>> /\ ValueAt(previous, Checks) = previous[Checks]
    BY <1>2, <1>5 DEF ValueAt
  <2>2. previous[Checks] # Absent
    <3>1. PICK places : previous \in Payload(places)
      BY DEF Payloads
    <3>2. previous[Checks] \in Values \union Seq(Items) \union {Null}
      BY <1>5, <3>1 DEF Payload
    <3> QED
      BY <3>2, NamesAssumption
  <2>3. draft_said(Checks, draft) = "value"
    BY <1>2, <1>5, MergeForgetsNothing
  <2>4. RowOK(rows[Checks], Checks, previous, draft)
    BY <1>1, <1>5
  <2> QED
    BY <1>5, <2>1, <2>2, <2>3, <2>4 DEF RowOK
<1> QED
  BY <1>1, <1>3, <1>4, <1>5 DEF rows

(***************************************************************************)
(* The screen and the approval say the same: _field_changes and            *)
(* _approval_impact announce what _merged_payload then writes, and what a  *)
(* draft said stays as announced over any version that came between.       *)
(***************************************************************************)
THEOREM ScreenStaysTruthful == Spec => []ScreenTellsTheTruth
<1>1. ASSUME Inv, NEW n \in 2 .. Len(versions)
      PROVE  LET old == versions[n - 1].payload
                 new == versions[n].payload
                 rows == screen.fields
             IN  /\ screen.draft = versions[n].by /\ screen.over < n =>
                     \A p \in DOMAIN rows :
                         ValueAt(new, p) = IF rows[p].said \in {"value", "explicit_null"}
                                           THEN rows[p].after ELSE ValueAt(old, p)
                 /\ screen.draft = versions[n].by /\ screen.over = n - 1 =>
                     /\ screen.merged = new
                     /\ \A p \in DOMAIN new : p \in DOMAIN rows /\ rows[p].after = new[p]
                     /\ \A p \in DOMAIN old : ValueAt(new, p) # old[p] => rows[p].changed
                     /\ Checks \in DOMAIN old /\ old[Checks] \notin {Null, <<>>} /\ new[Checks] = <<>> =>
                         rows[Checks].wipes
                 /\ impact.draft = versions[n].by /\ impact.over = n - 1 =>
                     /\ impact.verdicts.after = verdicts(new)
                     /\ \A profile \in Profiles \ impact.verdicts.changed :
                         Judge(profile, new) = Judge(profile, old)
  <2> DEFINE old == versions[n - 1].payload
             new == versions[n].payload
             d == versions[n].by
             draft == drafts[d]
             rows == screen.fields
  <2>1. d \in Drafts /\ Speaks(draft) /\ old \in Payloads /\ new = merged_payload(old, draft)
    BY <1>1, VersionFollows
  <2>2. Absent \notin Drafts /\ NotShown.draft = Absent
    BY DetailAssumption DEF NotShown
  <2> HIDE DEF old, new, d
  <2>3. ASSUME screen.draft = d, NEW p \in DOMAIN rows
        PROVE  ValueAt(new, p) = IF rows[p].said \in {"value", "explicit_null"}
                                 THEN rows[p].after ELSE ValueAt(old, p)
    <3>1. screen # NotShown
      BY <2>1, <2>2, <2>3
    <3> DEFINE previous == versions[screen.over].payload
    <3>2. RowOK(rows[p], p, previous, draft)
      BY <1>1, <2>3, <3>1 DEF Inv, ScreenInv, TableOK
    <3> HIDE DEF previous, draft, rows
    <3>3. rows[p].said = draft_said(p, draft) /\ rows[p].after = ValueAt(merged_payload(previous, draft), p)
      BY <3>2 DEF RowOK
    <3>4. /\ ValueAt(merged_payload(previous, draft), p) =
               IF p \in Laid(draft) THEN draft.says[p] ELSE ValueAt(previous, p)
          /\ ValueAt(merged_payload(old, draft), p) =
               IF p \in Laid(draft) THEN draft.says[p] ELSE ValueAt(old, p)
      BY MergeValue
    <3>5. draft_said(p, draft) \in Said1 <=> p \in Laid(draft)
      BY <2>1, SaidIsLaid
    <3> QED
      BY <2>1, <3>3, <3>4, <3>5 DEF Said1
  <2>4. ASSUME screen.draft = d, screen.over = n - 1
        PROVE  /\ screen.merged = new
               /\ \A p \in DOMAIN new : p \in DOMAIN rows /\ rows[p].after = new[p]
               /\ \A p \in DOMAIN old : ValueAt(new, p) # old[p] => rows[p].changed
               /\ Checks \in DOMAIN old /\ old[Checks] \notin {Null, <<>>} /\ new[Checks] = <<>> =>
                   rows[Checks].wipes
    <3>1. screen # NotShown
      BY <2>1, <2>2, <2>4
    <3>2. TableOK(old, draft)
      BY <1>1, <2>4, <3>1 DEF Inv, ScreenInv, old
    <3> HIDE DEF draft
    <3> QED
      BY <2>1, <3>2, TableTellsTheTruth
  <2>5. ASSUME impact.draft = d, impact.over = n - 1
        PROVE  /\ impact.verdicts.after = verdicts(new)
               /\ \A profile \in Profiles \ impact.verdicts.changed :
                   Judge(profile, new) = Judge(profile, old)
    <3>1. impact # NotShown
      BY <2>1, <2>2, <2>5
    <3>2. impact.verdicts = approval_impact(old, draft)
      BY <1>1, <2>5, <3>1 DEF Inv, ImpactInv, old
    <3> HIDE DEF draft
    <3>3. /\ impact.verdicts.after = verdicts(new)
          /\ impact.verdicts.changed = {f \in Profiles : verdicts(old)[f] # verdicts(new)[f]}
      BY <2>1, <3>2 DEF approval_impact
    <3>4. \A f \in Profiles : verdicts(old)[f] = Judge(f, old) /\ verdicts(new)[f] = Judge(f, new)
      BY DEF verdicts
    <3> QED
      BY <3>3, <3>4
  <2> QED
    BY <2>3, <2>4, <2>5 DEF old, new, d
<1>2. Inv => ScreenTellsTheTruth
  BY <1>1 DEF ScreenTellsTheTruth
<1> QED
  BY <1>2, SpecInv, PTL
=============================================================================
