-------------------------- MODULE MarketStatistics --------------------------
(***************************************************************************)
(* What the market batch makes of the rows of a region: normalisation,     *)
(* medians, ratios of paired cells and outliers (ingest/market/pipeline.py *)
(* up to the collection).                                                  *)
(*                                                                         *)
(* A list of rows, and everything made of one, is a function from          *)
(* positions: the order of the rows is nothing the statistics look at.     *)
(* Amounts are in manwon, the unit of the rows, and a median of them is    *)
(* given doubled, so that the mean of two amounts is exact, as it is in    *)
(* won; percentages are in hundredths, the two decimals they are rounded   *)
(* to.  A ratio of floats is exact here.                                   *)
(***************************************************************************)
EXTENDS Integers, FiniteSets

CONSTANTS
    Blank,           \* a field that is empty or no number
    NoValue,         \* None
    MaxArea,         \* ingest.market_max_exclusive_area_sqm
    Band,            \* ingest.market_pair_area_band_sqm
    MinSample,       \* ingest.market_min_sample_count
    OutlierRatio,    \* ingest.market_outlier_ratio_..., by statistic
    ShareThreshold   \* ingest.market_outlier_share_threshold, in percent

Statistics == {"jeonseDeposit", "monthlyDeposit", "monthlyRent", "tradeAmount"}

ASSUME SettingsAssumption ==
    /\ Blank \notin Int /\ NoValue \notin Int
    /\ {MaxArea, ShareThreshold} \subseteq Nat
    /\ Band \in Nat \ {0}
    /\ MinSample \in Nat \ {0}
    /\ OutlierRatio \in [Statistics -> Nat \ {0}]

\* round: to the nearest, a tie to the even one
RoundDiv(n, d) ==
    LET q == n \div d IN
    IF 2 * (n % d) < d \/ (2 * (n % d) = d /\ q % 2 = 0) THEN q ELSE q + 1

Restricted(rows, positions) == [i \in positions |-> rows[i]]
Column(rows, field(_)) == [i \in DOMAIN rows |-> field(rows[i])]

-----------------------------------------------------------------------------
(* Normalisation: what is unreadable, too large or cancelled is not        *)
(* counted.                                                                *)

\* _require_names: a row without the names we know stops everything
names_missing(items) == \E i \in DOMAIN items : ~items[i].named

\* normalize_deals; an empty rent is none
normalize_deals(items) ==
    [i \in {j \in DOMAIN items :
                /\ Blank \notin {items[j].deposit, items[j].area, items[j].date}
                /\ items[j].area <= MaxArea} |->
        [items[i] EXCEPT !.rent = IF @ = Blank THEN 0 ELSE @]]

\* normalize_trades: the same conditions, and no cancelled contract
normalize_trades(items) ==
    Restricted(items, {j \in DOMAIN items :
                /\ ~items[j].cancelled
                /\ Blank \notin {items[j].amount, items[j].area, items[j].date}
                /\ items[j].area <= MaxArea})

is_jeonse(deal) == deal.rent = 0

-----------------------------------------------------------------------------
(* Medians and ratios                                                      *)

\* the k-th of the amounts, given with their positions, in ascending order
AtRank(amounts, k) ==
    CHOOSE x \in {a[2] : a \in amounts} :
        /\ Cardinality({a \in amounts : a[2] < x}) < k
        /\ k <= Cardinality({a \in amounts : a[2] <= x})

\* statistics.median, doubled
median(values) ==
    LET n == Cardinality(DOMAIN values)
        amounts == {<<i, values[i]>> : i \in DOMAIN values}
    IN  AtRank(amounts, (n + 1) \div 2) + AtRank(amounts, n \div 2 + 1)

deposit(deal) == deal.deposit
rent(deal) == deal.rent
amount(trade) == trade.amount

\* conversion_rate_pct
conversion_rate_pct(jeonse, monthlyDeposit, monthlyRent) ==
    IF jeonse <= monthlyDeposit THEN NoValue
    ELSE RoundDiv(monthlyRent * 12 * 10000, jeonse - monthlyDeposit)

\* jeonse_ratio_pct
jeonse_ratio_pct(jeonse, trade) ==
    IF jeonse = 0 \/ trade = 0 THEN NoValue ELSE RoundDiv(jeonse * 10000, trade)

-----------------------------------------------------------------------------
(* Pairing: a cell is a complex of a neighbourhood and a band of areas.    *)

area_band(area) == RoundDiv(area, Band) * Band

cell_key(row) == <<row.complex, area_band(row.area)>>

Cells(rows) == {cell_key(rows[i]) : i \in DOMAIN rows}

InCell(rows, key) == Restricted(rows, {i \in DOMAIN rows : cell_key(rows[i]) = key})

\* _median_of_cell_ratios: of the ratios there are
median_of_ratios(ratio) ==
    LET held == {key \in DOMAIN ratio : ratio[key] # NoValue} IN
    [value |-> IF held = {} THEN NoValue ELSE RoundDiv(median(Restricted(ratio, held)), 2),
     cells |-> Cardinality(held)]

\* one ratio for every cell both have
paired(left, right, RatioOf(_, _)) ==
    median_of_ratios([key \in Cells(left) \intersect Cells(right) |->
                         RatioOf(InCell(left, key), InCell(right, key))])

JeonseOverTrade(jeonse, trades) ==
    jeonse_ratio_pct(median(Column(jeonse, deposit)), median(Column(trades, amount)))

RentOverDeposits(jeonse, monthly) ==
    conversion_rate_pct(median(Column(jeonse, deposit)), median(Column(monthly, deposit)),
                        median(Column(monthly, rent)))

\* mutant: every lease of a cell is paired with every contract of it
paired_jeonse_ratio_pct_Product(jeonse, trades) ==
    LET pairs == {p \in (DOMAIN jeonse) \X (DOMAIN trades) :
                    cell_key(jeonse[p[1]]) = cell_key(trades[p[2]])}
    IN  median_of_ratios([p \in pairs |->
            jeonse_ratio_pct(jeonse[p[1]].deposit, trades[p[2]].amount)])

paired_jeonse_ratio_pct(jeonse, trades) == paired(jeonse, trades, JeonseOverTrade)
paired_conversion_rate_pct(jeonse, monthly) == paired(jeonse, monthly, RentOverDeposits)

-----------------------------------------------------------------------------
(* Outliers: marked, never left out.                                       *)

detect_outliers(values, ratio) ==
    LET middle == median(values) IN
    IF DOMAIN values = {} \/ middle <= 0 THEN {}
    ELSE {i \in DOMAIN values : 2 * values[i] > middle * ratio \/ 2 * values[i] * ratio < middle}

\* _statistic_outliers for one statistic
exceeds(values, statistic) ==
    LET flagged == detect_outliers(values, OutlierRatio[statistic]) IN
    flagged # {} /\ Cardinality(flagged) * 100 > ShareThreshold * Cardinality(DOMAIN values)

-----------------------------------------------------------------------------
(* One region: what collect_market makes of the raw rows.                  *)
Failed(reason) == [error |-> reason]

derive(rentItems, tradeItems) ==
    LET deals == normalize_deals(rentItems)
        trades == normalize_trades(tradeItems)
        jeonse == Restricted(deals, {i \in DOMAIN deals : is_jeonse(deals[i])})
        monthly == Restricted(deals, {i \in DOMAIN deals : ~is_jeonse(deals[i])})
        conversion == paired_conversion_rate_pct(jeonse, monthly)
        ratio == paired_jeonse_ratio_pct(jeonse, trades)
    IN  IF Cardinality(DOMAIN jeonse) < MinSample \/ Cardinality(DOMAIN monthly) < MinSample
        THEN Failed("sample_shortage")
        ELSE [error |-> "none",
              jeonseMedian |-> median(Column(jeonse, deposit)),
              monthlyDeposit |-> median(Column(monthly, deposit)),
              monthlyRent |-> median(Column(monthly, rent)),
              conversionRate |-> IF conversion.cells >= MinSample THEN conversion.value ELSE NoValue,
              jeonseRatio |-> IF ratio.cells >= MinSample THEN ratio.value ELSE NoValue,
              grade |-> IF \/ exceeds(Column(jeonse, deposit), "jeonseDeposit")
                           \/ exceeds(Column(monthly, deposit), "monthlyDeposit")
                           \/ exceeds(Column(monthly, rent), "monthlyRent")
                           \/ exceeds(Column(trades, amount), "tradeAmount")
                        THEN "unverified" ELSE "verified"]
=============================================================================
