---------------------------- MODULE MarketSource ----------------------------
(***************************************************************************)
(* One collection of the market batch, page by page: the client of the two *)
(* services (ingest/market/source.py) and the loop over the regions in     *)
(* collect_market, up to the point where the collection is committed or    *)
(* given up (MarketBatch goes on from there).                              *)
(*                                                                         *)
(* The services are external: a month of a region is a list of rows that   *)
(* stays as it is while it is read, a page of it comes with the number of  *)
(* all its rows or without, and instead of a page there may come an error. *)
(***************************************************************************)
EXTENDS MarketStatistics, Sequences

CONSTANTS
    Regions,      \* the regions, in the order of the store
    Window,       \* window_months
    Markets,      \* what the services may hold: by service, region and
                  \* month, and which of them say totalCount
    PageSize, MaxPages, MaxAttempts, Deadline,
    MaxFaults     \* bound: answers that are no page, and requests that fail

Services == {"rent", "trade"}

IsSequence(list) == list \in Seq({list[k] : k \in DOMAIN list})

\* what the statistics rely on: nothing has a negative area
IsRow(row) == {"complex", "area"} \subseteq DOMAIN row /\ row.area \in Nat \union {Blank}

ASSUME SourceAssumption ==
    /\ IsSequence(Regions) /\ Len(Regions) > 0
    /\ IsSequence(Window) /\ Len(Window) > 0
    /\ {PageSize, MaxPages, MaxAttempts} \subseteq Nat \ {0}
    /\ {Deadline, MaxFaults} \subseteq Nat
    /\ \A m \in Markets, s \in Services, i \in DOMAIN Regions, n \in DOMAIN Window :
        LET rows == m[s][Regions[i]][Window[n]] IN
        IsSequence(rows) /\ \A k \in DOMAIN rows : IsRow(rows[k])

VARIABLES
    market,       \* what the services hold
    phase,        \* where the batch is
    index, service, month, page, attempt,
    items,        \* fetch: the rows of the month so far
    raw,          \* _collect_raw: the rows of each service so far, by month and number
    outcome,      \* by region
    elapsed,      \* time since the batch began, up to the first moment too late
    faults

place == <<index, service, month, page, attempt>>
sourceVars == <<market, phase, place, items, raw, outcome, elapsed, faults>>

Pending == Failed("pending")
NoRows == [p \in {} |-> 0]

\* what a service holds of a region for a month
RowsOf(s, i, n) == market[s][Regions[i]][Window[n]]

\* what is no page, as _root and _raise_for_envelope tell it
BadAnswers == {"not xml", "unknown root", "service error", "result code"}

CollectionInit ==
    /\ market \in Markets
    /\ phase = "region"
    /\ index = 1 /\ service = "rent" /\ month = 1 /\ page = 1 /\ attempt = 1
    /\ items = <<>>
    /\ raw = [s \in Services |-> NoRows]
    /\ outcome = [i \in DOMAIN Regions |-> Pending]
    /\ elapsed = 0 /\ faults = 0

Later == {elapsed, IF elapsed > Deadline THEN elapsed ELSE elapsed + 1}

\* the outcome of the region is known, the next one follows
Conclude(result) ==
    /\ outcome' = [outcome EXCEPT ![index] = result]
    /\ index' = index + 1
    /\ service' = "rent" /\ month' = 1 /\ page' = 1 /\ attempt' = 1
    /\ items' = <<>> /\ raw' = [s \in Services |-> NoRows]
    /\ phase' = IF index = Len(Regions) THEN "done" ELSE "region"

\* a region is begun unless the time is over
StartRegion ==
    /\ phase = "region"
    /\ IF elapsed > Deadline THEN Conclude(Failed("deadline"))
       ELSE phase' = "key" /\ UNCHANGED <<place, items, raw, outcome>>
    /\ UNCHANGED <<market, elapsed, faults>>

\* resolve_api_key, anew for every month
ResolveKey ==
    /\ phase = "key"
    /\ phase' = "request"
    /\ UNCHANGED <<market, place, items, raw, outcome, elapsed, faults>>

KeyMissing ==
    /\ phase = "key"
    /\ faults < MaxFaults /\ faults' = faults + 1
    /\ Conclude(Failed(service))
    /\ UNCHANGED <<market, elapsed>>

\* _request: only a transport that fails is tried again; it may take long
TransportFails ==
    /\ phase = "request"
    /\ faults < MaxFaults /\ faults' = faults + 1
    /\ elapsed' \in Later
    /\ IF attempt < MaxAttempts
       THEN attempt' = attempt + 1 /\ UNCHANGED <<phase, index, service, month, page, items, raw, outcome>>
       ELSE Conclude(Failed(service))
    /\ UNCHANGED market

\* mutant: what has no item is an empty month
Answered_Leniently(answer) ==
    IF answer = "not xml" THEN Conclude(Failed(service))
    ELSE phase' = "month" /\ UNCHANGED <<place, items, raw, outcome>>

\* an answer that is no page raises, and the region has failed
Answered(answer) == Conclude(Failed(service))

BadAnswer ==
    /\ phase = "request"
    /\ faults < MaxFaults /\ faults' = faults + 1
    /\ \E answer \in BadAnswers : Answered(answer)
    /\ UNCHANGED <<market, elapsed>>

Rows == RowsOf(service, index, month)

PageOf(rows, n) ==
    SubSeq(rows, (n - 1) * PageSize + 1, IF n * PageSize < Len(rows) THEN n * PageSize ELSE Len(rows))

total_count == IF service \in market.counting THEN Len(Rows) ELSE 0

LastPage(batch, sofar) == Len(batch) < PageSize \/ Len(sofar) >= total_count

\* fetch: one page more
ReadPage ==
    /\ phase = "request"
    /\ LET batch == PageOf(Rows, page) IN
       /\ items' = items \o batch
       /\ IF LastPage(batch, items') \/ page = MaxPages
          THEN phase' = "month" /\ UNCHANGED <<page, attempt>>
          ELSE page' = page + 1 /\ attempt' = 1 /\ UNCHANGED phase
    /\ elapsed' \in Later
    /\ UNCHANGED <<market, index, service, month, raw, outcome, faults>>

\* _collect_raw: the next month, the next service, or all is there
MonthCollected ==
    /\ phase = "month"
    /\ raw' = [raw EXCEPT ![service] =
            [p \in DOMAIN @ \union ({month} \X (DOMAIN items)) |->
                IF p[1] = month THEN items[p[2]] ELSE @[p]]]
    /\ items' = <<>> /\ page' = 1 /\ attempt' = 1
    /\ IF month < Len(Window)
       THEN month' = month + 1 /\ phase' = "key" /\ UNCHANGED service
       ELSE /\ month' = 1
            /\ IF service = "rent" THEN service' = "trade" /\ phase' = "key"
               ELSE phase' = "derive" /\ UNCHANGED service
    /\ UNCHANGED <<market, index, outcome, elapsed, faults>>

\* rows under names nobody knows raise out of collect_market
Derive ==
    /\ phase = "derive"
    /\ IF names_missing(raw["rent"]) \/ names_missing(raw["trade"])
       THEN phase' = "raised" /\ UNCHANGED <<place, items, raw, outcome>>
       ELSE Conclude(derive(raw["rent"], raw["trade"]))
    /\ UNCHANGED <<market, elapsed, faults>>

CollectionNext ==
    \/ StartRegion \/ ResolveKey \/ KeyMissing
    \/ TransportFails \/ BadAnswer \/ ReadPage
    \/ MonthCollected \/ Derive

CollectionSpec == CollectionInit /\ [][CollectionNext]_sourceVars

-----------------------------------------------------------------------------
(* Properties                                                              *)

\* every row of a service on a region, by month and number
Everything(s, i) ==
    [p \in UNION {{n} \X (DOMAIN RowsOf(s, i, n)) : n \in DOMAIN Window} |->
        RowsOf(s, i, p[1])[p[2]]]

\* the service says how many rows there are, and the pages are enough for them
CanBeRead(s, i) ==
    \A n \in DOMAIN Window :
        /\ s \in market.counting \/ Len(RowsOf(s, i, n)) < PageSize
        /\ Len(RowsOf(s, i, n)) <= MaxPages * PageSize

\* the region has values, and they could be made of everything
Complete(i) ==
    outcome[i].error = "none" /\ CanBeRead("rent", i) /\ CanBeRead("trade", i)

(***************************************************************************)
(* No silent loss (the head of source.py): if a region has values, they   *)
(* are those of every row the two services hold for its months, whatever   *)
(* requests failed and were repeated on the way and however many pages     *)
(* there were; no answer that is not a page was taken for an empty one.    *)
(* Said of services that count their rows, as far as MAX_PAGES reaches.    *)
(***************************************************************************)
NothingIsLost ==
    \A i \in DOMAIN Regions :
        Complete(i) => outcome[i] = derive(Everything("rent", i), Everything("trade", i))

\* the rows with those of some cells a second time
Again(rows, keys) ==
    LET twice == {p \in DOMAIN rows : cell_key(rows[p]) \in keys} IN
    [p \in ((DOMAIN rows) \X {1}) \union (twice \X {2}) |-> rows[p[1]]]

\* the contracts that count
CountedRents(rows) ==
    Restricted(rows, {p \in DOMAIN rows :
        Blank \notin {rows[p].deposit, rows[p].date} /\ rows[p].area \in 0 .. MaxArea})
CountedTrades(rows) ==
    Restricted(rows, {p \in DOMAIN rows :
        /\ ~rows[p].cancelled
        /\ Blank \notin {rows[p].amount, rows[p].date} /\ rows[p].area \in 0 .. MaxArea})

(***************************************************************************)
(* The values of a region are those of its market (SPEC 3.1): a contract  *)
(* that is unreadable, too large or cancelled has no part in any of them;  *)
(* deals that all come twice change nothing, neither medians nor the grade *)
(* their outliers give; and a complex has one vote in the ratios, however  *)
(* many of its deals there are.                                            *)
(***************************************************************************)
ValuesAreOfTheMarket ==
    \A i \in DOMAIN Regions : Complete(i) =>
        LET rents == Everything("rent", i)
            trades == Everything("trade", i)
            countedRents == CountedRents(rents)
            countedTrades == CountedTrades(trades)
            keys == Cells(countedRents) \union Cells(countedTrades)
        IN  /\ outcome[i] = derive(countedRents, countedTrades)
            /\ outcome[i] = derive(Again(countedRents, keys), Again(countedTrades, keys))
            /\ \A key \in keys :
                LET louder == derive(Again(countedRents, {key}), Again(countedTrades, {key})) IN
                /\ louder.conversionRate = outcome[i].conversionRate
                /\ louder.jeonseRatio = outcome[i].jeonseRatio
=============================================================================
