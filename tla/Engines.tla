------------------------------- MODULE Engines -------------------------------
(***************************************************************************)
(* The four decision engines of the server (home_compass/engines) as pure  *)
(* operators: what a household can afford (E1), which policies it          *)
(* qualifies for (E2), what four ways of housing it in a region cost (E3)  *)
(* and how likely the deposit of the best one is lost (E4).                *)
(*                                                                         *)
(* Amounts are in units of 1000 won, rates in hundredths of a percent, the *)
(* guarantee rates in thousandths, fit scores in hundredths and risk       *)
(* weights in tenths of a point before they are rounded.  The sentences of *)
(* every rationale are left out, except for which alternative and which    *)
(* loan they name.  A criterion that is absent has its unlimited value.    *)
(***************************************************************************)
EXTENDS ModelConstants

Least(a, b) == IF a <= b THEN a ELSE b
Most(a, b) == IF a >= b THEN a ELSE b

(* common.safe_int: whatever was entered counts as at least 0. *)
safe_int(n) == Most(0, n)

(* common.floor_to *)
floor_to(amount, unit) == IF amount <= 0 THEN 0 ELSE (amount \div unit) * unit

(* round() of a non-negative count of parts, half to even. *)
round(n, parts) ==
    LET down == n \div parts
        rest == 2 * (n % parts)
    IN  IF rest > parts \/ (rest = parts /\ down % 2 = 1) THEN down + 1 ELSE down

(* list.sort: by what comes Before what, equal elements staying in order.  *)
StableSort(s, Before(_, _)) ==
    LET Ahead(i, j) == Before(s[i], s[j]) \/ (i < j /\ ~Before(s[j], s[i]))
        place(i) == 1 + Cardinality({j \in DOMAIN s \ {i} : Ahead(j, i)})
    IN  [k \in DOMAIN s |-> s[CHOOSE i \in DOMAIN s : place(i) = k]]

(* min(list, key=...) and max over the positions D: the first of the best. *)
FirstBest(D, Better(_, _)) ==
    CHOOSE i \in D : \A j \in D \ {i} : IF j < i THEN Better(i, j) ELSE ~Better(j, i)

-----------------------------------------------------------------------------
(* E1: affordability.py *)

living_cost_for(size) ==
    LET largest == Len(K.livingCost)
    IN  IF size <= largest THEN K.livingCost[Most(1, size)]
        ELSE K.livingCost[largest] + (size - largest) * K.extraPerson

(* The lower of the ratio cap and what is left, never below 0. *)
max_cost_NoResidual(net, residual) == floor_to((net * K.costCap) \div 100, K.costUnit)
max_cost(net, residual) ==
    IF net = 0 THEN 0 ELSE floor_to(Least((net * K.costCap) \div 100, residual), K.costUnit)

assess_affordability(p) ==
    LET entered  == safe_int(p.netIncome)
        net      == IF entered = 0 THEN (safe_int(p.annualIncome) * K.netFromAnnual) \div 1200 ELSE entered
        debt     == safe_int(p.debt)
        living   == living_cost_for(p.household)
        buffer   == (net * K.buffer) \div 100
        most     == max_cost(net, net - living - debt - buffer)
        Within(cap, share) == 100 * most >= cap * net /\ 100 * debt <= share * net
    IN  [max |-> most,
         recommended |-> floor_to((most * K.haircut) \div 100, K.costUnit),
         band |-> IF most = 0 THEN "risk"
                  ELSE IF Within(K.safeCap, K.safeDebt) THEN "safe"
                  ELSE IF Within(K.cautionCap, K.cautionDebt) THEN "caution"
                  ELSE "risk",
         netIncome |-> net, livingCost |-> living, debt |-> debt, buffer |-> buffer]

-----------------------------------------------------------------------------
(* E2: eligibility.py *)

(* An income that meets its limit by less than the margin. *)
income_is_close_Swapped(income, limit) ==
    limit > 0 /\ 100 * income <= (100 - K.margin) * limit
income_is_close(income, limit) ==
    limit > 0 /\ 100 * income >= (100 - K.margin) * limit

evaluate_policy(p, policy) ==
    LET c      == policy.criteria
        aged   == c.ageMin > 0
        young  == c.ageMax < K.noAgeMax
        capped == c.incomeMax < K.noAmount
        unmet  == [age      |-> (aged /\ p.age < c.ageMin) \/ (young /\ p.age > c.ageMax),
                   income   |-> capped /\ safe_int(p.annualIncome) > c.incomeMax,
                   assets   |-> c.assetMax < K.noAmount /\ safe_int(p.assets) > c.assetMax,
                   homeless |-> c.homeless /\ ~p.homeless,
                   newlywed |-> c.newlywed /\ ~p.newlywed,
                   sme      |-> c.sme /\ ~p.sme,
                   region   |-> c.regions # {} /\ p.region \notin c.regions]
        failures == {r \in DOMAIN unmet : unmet[r]}
        caveats  == {r \in {"checks"} : policy.checks}
                        \union {r \in {"age"} : young /\ c.ageMax - p.age <= K.imminent}
                        \union {r \in {"income"} : capped /\ income_is_close(safe_int(p.annualIncome), c.incomeMax)}
    IN  [id |-> policy.id,
         status |-> IF failures # {} THEN "ineligible"
                    ELSE IF caveats # {} THEN "conditional" ELSE "eligible",
         failures |-> failures, max |-> policy.max, rate |-> policy.rate]

StatusOrder == [eligible |-> 0, conditional |-> 1, ineligible |-> 2]

evaluate_policies(p, policies) ==
    StableSort([i \in DOMAIN policies |-> evaluate_policy(p, policies[i])],
               LAMBDA a, b : \/ StatusOrder[a.status] < StatusOrder[b.status]
                             \/ a.status = b.status /\ a.max > b.max)

-----------------------------------------------------------------------------
(* engines/__init__.py: the cap on a guaranteed deposit, the loan product. *)

guarantee_deposit_cap_for(region) ==
    IF region.metro THEN K.metroCap ELSE K.otherCap

NoLoan == [name |-> "none", max |-> 0, rate |-> 0]

(* The usable product that covers most of the gap, then the cheapest, then *)
(* the first of the priority list.                                         *)
loan_option(evaluated, priority, deposit, assets) ==
    LET usable   == {e \in {evaluated[i] : i \in DOMAIN evaluated} : e.status # "ineligible"}
        products == {k \in DOMAIN priority : \E e \in usable : e.id = priority[k]}
        Of(k)    == CHOOSE e \in usable : e.id = priority[k]
        gap      == Most(0, safe_int(deposit) - safe_int(assets))
        coverage(e) == IF gap > 0 THEN Least(gap, e.max) ELSE e.max
        Beats(a, b) == coverage(a) > coverage(b) \/ (coverage(a) = coverage(b) /\ a.rate < b.rate)
        best     == Of(FirstBest(products, LAMBDA k, l : Beats(Of(k), Of(l))))
    IN  IF products = {} THEN NoLoan
        ELSE [name |-> best.id, max |-> best.max, rate |-> best.rate]

-----------------------------------------------------------------------------
(* E3: tco.py *)

(* The highest rate of the bracket the deposit falls in; the last bracket  *)
(* has no upper bound.                                                     *)
guarantee_rate_pct_for(deposit) ==
    LET bounds  == {row.upTo : row \in K.rateTable} \ {K.noBound}
        fitting == {b \in bounds : deposit <= b}
        bracket == IF fitting = {} THEN K.noBound
                   ELSE CHOOSE b \in fitting : \A other \in fitting : b <= other
        cells   == {row.rate : row \in {r \in K.rateTable : r.upTo = bracket}}
    IN  CHOOSE rate \in cells : \A other \in cells : rate >= other

size_loan(deposit, assets, cap) ==
    LET needed  == Most(0, safe_int(deposit) - safe_int(assets))
        ceiling == Least((safe_int(deposit) * K.ltv) \div 100, safe_int(cap))
    IN  floor_to(Least(needed, ceiling), K.depositUnit)

(* Full marks within the recommended cost, then down to 0 with the overrun. *)
afford_score(monthly, recommended) ==
    IF recommended = 0 THEN 0
    ELSE IF monthly <= recommended THEN 100 * K.affordWeight
    ELSE Most(0, 100 * K.affordWeight - ((100 * K.overrunSlope * (monthly - recommended)) \div recommended))

(* One scenario s = [id, type, deposit, rent, loan, rate, product] for the *)
(* household: the costs of K.years years, the verdict and the fit score.   *)
evaluate_scenario(s, maintenance, assets, afford, preferred, guarantee, cap) ==
    LET months    == 12 * K.years
        loan      == Least(s.loan, s.deposit)
        own       == s.deposit - loan
        shortfall == Most(0, own - assets)
        insured   == guarantee /\ 0 < s.deposit /\ s.deposit <= cap
        Over(n, hundredths) == round(n * hundredths * K.years, 10000)
        cost      == [interest    |-> Over(loan, s.rate),
                      rent        |-> s.rent * months,
                      maintenance |-> maintenance * months,
                      opportunity |-> Over(own, K.opportunity),
                      insurance   |-> IF insured
                                      THEN round(s.deposit * guarantee_rate_pct_for(s.deposit) * K.years, 100000)
                                      ELSE 0]
        capitalScore == IF own = 0 THEN 100 * K.capitalWeight
                        ELSE 100 * K.capitalWeight - ((100 * K.capitalWeight * shortfall) \div own)
        preferScore  == 100 * (IF preferred \in {"any", s.type} THEN K.preferMatch ELSE K.preferMismatch)
        Result(spent, tco, monthly) ==
            [id |-> s.id, type |-> s.type, product |-> s.product, deposit |-> s.deposit, rent |-> s.rent,
             loan |-> loan, rate |-> s.rate, cost |-> spent, tco |-> tco, monthly |-> monthly,
             npv |-> round(tco * K.annuity, 10 * months),
             verdict |-> IF afford.max = 0 THEN "unaffordable"
                         ELSE IF monthly <= afford.recommended THEN "affordable"
                         ELSE IF monthly <= afford.max THEN "stretch" ELSE "unaffordable",
             fit |-> Least(100, round(afford_score(monthly, afford.recommended) + capitalScore + preferScore, 100)),
             schwabe |-> IF afford.netIncome > 0 THEN round(1000 * monthly, afford.netIncome) ELSE -1]
        ResultOf(spent, tco) == Result(spent, tco, floor_to(tco \div months, K.monthlyUnit))
        Spending(spent) ==
            ResultOf(spent, spent.interest + spent.rent + spent.maintenance + spent.opportunity + spent.insurance)
    IN  Spending(cost)

(* The four scenarios of the region, the best fit first. *)
build_scenarios(region, assets, afford, jeonse, standard, preferred, cap) ==
    LET conversion == IF region.conversion = 0 THEN K.conversion ELSE region.conversion
        RateOf(product) == IF product.rate = 0 THEN K.jeonseRate ELSE product.rate
        jeonseCap   == IF jeonse = NoLoan THEN (region.jeonse * K.ltv) \div 100 ELSE jeonse.max
        semi        == floor_to((region.jeonse * K.semiShare) \div 100, K.depositUnit)
        low         == Least(K.lowDeposit, region.deposit)
        AsRent(amount) == floor_to((amount * conversion) \div 120000, K.monthlyUnit)
        Scenario(id, type, deposit, rent, loan, rate, product) ==
            evaluate_scenario([id |-> id, type |-> type, deposit |-> deposit, rent |-> rent,
                               loan |-> loan, rate |-> rate, product |-> product],
                              region.maintenance, assets, afford, preferred, region.guarantee, cap)
        ways == <<Scenario("jeonse_loan", "jeonse", region.jeonse, 0,
                           size_loan(region.jeonse, assets, jeonseCap), RateOf(jeonse), jeonse.name),
                  Scenario("semi_jeonse", "monthly", semi, AsRent(region.jeonse - semi),
                           size_loan(semi, assets, jeonseCap), RateOf(jeonse), jeonse.name),
                  Scenario("monthly_standard", "monthly", region.deposit, region.rent,
                           size_loan(region.deposit, assets, standard.max), RateOf(standard), standard.name),
                  Scenario("monthly_low_deposit", "monthly", low, region.rent + AsRent(region.deposit - low),
                           0, 0, "none")>>
    IN  StableSort(ways, LAMBDA a, b : a.fit > b.fit \/ (a.fit = b.fit /\ a.monthly < b.monthly))

-----------------------------------------------------------------------------
(* E4: risk.py.  A scale is the sequence of its bounds with, one longer,   *)
(* the factors of its bands; a value on a bound is in the band above it.   *)

Band(value, bounds, factors) ==
    factors[1 + Cardinality({i \in DOMAIN bounds : value >= bounds[i]})]

jeonse_ratio_factor(pct) ==
    IF pct = 0 THEN [weight |-> 0, impact |-> "low"] ELSE Band(pct, K.ratioBounds, K.ratioFactors)

loan_share_factor(loan, deposit) ==
    Band(IF deposit = 0 THEN 0 ELSE (100 * loan) \div deposit, K.shareBounds, K.shareFactors)

deposit_size_factor(deposit, cap) ==
    Band((100 * deposit) \div cap, K.sizeBounds, K.sizeFactors)

market_factor(risk) == IF risk \in DOMAIN K.market THEN K.market[risk] ELSE K.market["medium"]

(* In tenths. *)
exposure_multiplier(deposit) ==
    IF deposit >= K.lowExposure THEN 10
    ELSE IF deposit >= K.minimalExposure THEN K.exposureLow ELSE K.exposureMinimal

(* Whether the deposit can be guaranteed in the region at all. *)
guarantee_available_AnyDeposit(deposit, region, cap) == region.guarantee
guarantee_available(deposit, region, cap) == region.guarantee /\ deposit <= cap

scan_deposit_risk(deposit, loan, region, cap) ==
    LET exposure  == exposure_multiplier(deposit)
        available == guarantee_available(deposit, region, cap)
        ratio     == jeonse_ratio_factor(region.ratio)
        share     == loan_share_factor(Least(loan, deposit), deposit)
        size      == deposit_size_factor(deposit, cap)
        market    == market_factor(region.risk)
        lack      == IF available THEN 0
                     ELSE K.noGuarantee * (IF deposit >= K.minimalExposure THEN 10 ELSE K.smallDeposit)
        Damped(f) == IF exposure >= 10 THEN f.impact ELSE "low"
        total     == Least(100, round((ratio.weight + share.weight) * exposure + lack
                                        + 10 * (size.weight + market.weight), 10))
    IN  [score |-> total,
         band |-> IF total <= K.lowMax THEN "low" ELSE IF total <= K.mediumMax THEN "medium" ELSE "high",
         guaranteed |-> available,
         impacts |-> <<Damped(ratio), IF available THEN "low" ELSE "high", Damped(share),
                       size.impact, market.impact>>]

-----------------------------------------------------------------------------
(* engines/__init__.py: the sentence about the best scenario, the answer.  *)

(* Nothing to add when it is affordable; otherwise the cheapest scenario   *)
(* that is, if there is one.                                               *)
verdict_caveat(best, scenarios) ==
    LET within == {i \in DOMAIN scenarios : scenarios[i].verdict = "affordable"}
    IN  IF best.verdict = "affordable" THEN "nothing"
        ELSE IF within = {} THEN "none fits"
        ELSE scenarios[FirstBest(within, LAMBDA i, j : scenarios[i].monthly < scenarios[j].monthly)].id

build_summary(afford, scenarios, evaluated) ==
    LET Count(status) == Cardinality({i \in DOMAIN evaluated : evaluated[i].status = status})
    IN  [computable |-> afford.recommended > 0,
         best |-> scenarios[1].id,
         caveat |-> verdict_caveat(scenarios[1], scenarios),
         apply |-> IF Count("eligible") > 0 THEN <<"eligible", Count("eligible")>>
                   ELSE IF Count("conditional") > 0 THEN <<"conditional", Count("conditional")>>
                   ELSE <<"none", 0>>]

(* The preferred type that is not one of the three counts as "any". *)
preferred_type(p) == IF p.preferred \in {"jeonse", "monthly"} THEN p.preferred ELSE "any"

(* find_region: the record of the code; without a code the first region.   *)
find_region(p, regions) ==
    IF p.region = "" THEN regions[1]
    ELSE regions[CHOOSE i \in DOMAIN regions :
                     regions[i].code = p.region /\ \A j \in 1 .. i - 1 : regions[j].code # p.region]

(* analyze, for a region code that exists: E1 and E2, then E3 from what     *)
(* they found, then E4 about the best scenario.                            *)
analyze(p, regions, policies) ==
    LET region == find_region(p, regions)
        cap    == guarantee_deposit_cap_for(region)
        assets == safe_int(p.assets)
        Answer(afford, evaluated, scenarios) ==
            [affordability |-> afford, scenarios |-> scenarios, policies |-> evaluated,
             risk |-> scan_deposit_risk(scenarios[1].deposit, scenarios[1].loan, region, cap),
             summary |-> build_summary(afford, scenarios, evaluated), region |-> region.code]
        AnswerFrom(afford, evaluated) ==
            Answer(afford, evaluated,
                   build_scenarios(region, assets, afford,
                                   loan_option(evaluated, K.jeonsePriority, region.jeonse, assets),
                                   loan_option(evaluated, K.monthlyPriority, region.deposit, assets),
                                   preferred_type(p), cap))
    IN  AnswerFrom(assess_affordability(p), evaluate_policies(p, policies))
=============================================================================
