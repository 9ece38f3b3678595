----------------------------- MODULE LocalEngine -----------------------------
(***************************************************************************)
(* The decision path of the citizen's browser without a server: what       *)
(* frontend/local_engine.js computes from the generated artifacts, with    *)
(* the number functions of frontend/format.js.  The program has its        *)
(* engines twice, in Python and here, and this module is a translation of  *)
(* the second text, not of the first: Analysis compares the two.           *)
(* Units and what is left out are those of Engines.                        *)
(***************************************************************************)
EXTENDS ModelConstants, Lists

Largest(S) == CHOOSE n \in S : \A other \in S : n >= other
Smallest(S) == CHOOSE n \in S : \A other \in S : n <= other

(* format.js: an exact quotient rounded half to even, and safeInt. *)
roundHalf(numerator, denominator) ==
    LET quotient == numerator \div denominator
        twiceRest == 2 * (numerator % denominator)
        up == twiceRest > denominator \/ (twiceRest = denominator /\ quotient % 2 = 1)
    IN  quotient + (IF up THEN 1 ELSE 0)

safeInt(n) == Largest({n, 0})

floorTo(value, step) == IF value > 0 THEN (value \div step) * step ELSE 0

(* stableSort(list, compare), with what compare looks at as a pair of keys per item. *)
stableSort(list, keys) ==
    LET before(i, j) ==
            \/ keys[i][1] < keys[j][1]
            \/ keys[i][1] = keys[j][1] /\ keys[i][2] < keys[j][2]
            \/ keys[i] = keys[j] /\ i < j
    IN  [k \in DOMAIN list |->
            list[CHOOSE i \in DOMAIN list : Cardinality({j \in DOMAIN list : before(j, i)}) = k - 1]]

(* minBy(list, key): of equal keys the first one. *)
minBy(list, keys) ==
    LET least == Smallest({keys[i] : i \in DOMAIN list})
    IN  list[Smallest({i \in DOMAIN list : keys[i] = least})]

-----------------------------------------------------------------------------
livingCostFor(householdSize) ==
    LET size    == Largest({1, householdSize})
        largest == Largest(DOMAIN K.livingCost)
    IN  K.livingCost[Smallest({size, largest})] + Largest({0, size - largest}) * K.extraPerson

assessAffordability(input) ==
    LET debt      == safeInt(input.debt)
        netIncome == IF safeInt(input.netIncome) <= 0 /\ safeInt(input.annualIncome) > 0
                     THEN (safeInt(input.annualIncome) * K.netFromAnnual) \div 1200
                     ELSE safeInt(input.netIncome)
        living    == livingCostFor(input.household)
        buffer    == (netIncome * K.buffer) \div 100
        ratioCap  == (netIncome * K.costCap) \div 100
        maxCost   == IF netIncome > 0
                     THEN floorTo(Smallest({ratioCap, netIncome - living - debt - buffer}), K.costUnit)
                     ELSE 0
        (* capRatio >= cap && debtRatio <= share, where x / 0 is 0 *)
        inBand(cap, share) == maxCost * 100 >= netIncome * cap /\ debt * 100 <= netIncome * share
    IN  [max |-> maxCost,
         recommended |-> floorTo((maxCost * K.haircut) \div 100, K.costUnit),
         band |-> CASE netIncome <= 0 \/ maxCost <= 0 -> "risk"
                    [] netIncome > 0 /\ maxCost > 0 /\ inBand(K.safeCap, K.safeDebt) -> "safe"
                    [] OTHER -> IF inBand(K.cautionCap, K.cautionDebt) THEN "caution" ELSE "risk",
         netIncome |-> netIncome, livingCost |-> living, debt |-> debt, buffer |-> buffer]

-----------------------------------------------------------------------------
(* The clauses of evaluatePolicy, in the order they are written.  Each one *)
(* has a requirement, when it applies, whether it is met, and whether it   *)
(* is met so narrowly that it leaves a caveat.                             *)
clauses(profile, crit) ==
    LET hasAgeMin == crit.ageMin > 0
        hasAgeMax == crit.ageMax < K.noAgeMax
        income    == safeInt(profile.annualIncome)
        Clause(name, applies, met, narrowly) ==
            [name |-> name, applies |-> applies, met |-> met, narrowly |-> met /\ narrowly]
    IN  {Clause("age", hasAgeMin \/ hasAgeMax,
                (hasAgeMin => profile.age >= crit.ageMin) /\ (hasAgeMax => profile.age <= crit.ageMax),
                hasAgeMax /\ crit.ageMax - profile.age <= K.imminent),
         Clause("income", crit.incomeMax < K.noAmount, income <= crit.incomeMax,
                crit.incomeMax # 0 /\ income * 100 >= crit.incomeMax * (100 - K.margin)),
         Clause("assets", crit.assetMax < K.noAmount, safeInt(profile.assets) <= crit.assetMax, FALSE),
         Clause("homeless", crit.homeless, profile.homeless, FALSE),
         Clause("newlywed", crit.newlywed, profile.newlywed, FALSE),
         Clause("sme", crit.sme, profile.sme, FALSE),
         Clause("region", crit.regions # {}, profile.region \in crit.regions, FALSE)}

evaluatePolicy(profile, policy) ==
    LET applied  == {c \in clauses(profile, policy.criteria) : c.applies}
        failures == {c.name : c \in {d \in applied : ~d.met}}
        caveat   == policy.checks \/ \E c \in applied : c.narrowly
    IN  [id |-> policy.id,
         status |-> CASE failures # {} -> "ineligible"
                      [] failures = {} /\ caveat -> "conditional"
                      [] OTHER -> "eligible",
         failures |-> failures, max |-> policy.max, rate |-> policy.rate]

POLICY_STATUS_ORDER == [eligible |-> 0, conditional |-> 1, ineligible |-> 2]

evaluatePolicies(profile, policies) ==
    LET sorted(list) == stableSort(list, [i \in DOMAIN list |->
                                            <<POLICY_STATUS_ORDER[list[i].status], -list[i].max>>])
    IN  sorted([i \in DOMAIN policies |-> evaluatePolicy(profile, policies[i])])

-----------------------------------------------------------------------------
guaranteeRatePctFor(deposit) ==
    LET bounds  == {row.upTo : row \in K.rateTable} \ {K.noBound}
        bracket == IF \E b \in bounds : deposit <= b
                   THEN Smallest({b \in bounds : deposit <= b}) ELSE K.noBound
    IN  Largest({row.rate : row \in {r \in K.rateTable : r.upTo = bracket}})

sizeLoan(deposit, liquidAssets, loanCap) ==
    floorTo(Smallest({Largest({0, deposit - liquidAssets}), (deposit * K.ltv) \div 100, loanCap}), K.depositUnit)

evaluateScenario(args) ==
    LET horizonMonths     == K.years * 12
        loan              == Smallest({args.loan, args.deposit})
        ownCapital        == Largest({0, args.deposit - loan})
        capitalShortfall  == Largest({0, ownCapital - args.assets})
        useInsurance      == args.guarantee /\ args.deposit > 0 /\ args.deposit <= args.cap
        horizon(amount, rate) == roundHalf(amount * rate * K.years, 10000)
        insurance         == roundHalf(args.deposit * guaranteeRatePctFor(args.deposit) * K.years, 100000)
        components        == [interest |-> horizon(loan, args.rate), rent |-> args.rent * horizonMonths,
                              maintenance |-> args.maintenance * horizonMonths,
                              opportunity |-> horizon(ownCapital, K.opportunity),
                              insurance |-> IF useInsurance THEN insurance ELSE 0]
        affRec            == args.afford.recommended
        affordScore(monthlyEquivalent) ==
            CASE affRec = 0 -> 0
              [] affRec > 0 /\ monthlyEquivalent <= affRec -> 100 * K.affordWeight
              [] OTHER -> Largest({0, 100 * K.affordWeight
                                       - ((100 * K.overrunSlope * (monthlyEquivalent - affRec)) \div affRec)})
        capitalScore      == IF ownCapital <= 0 THEN 100 * K.capitalWeight
                             ELSE 100 * K.capitalWeight - ((100 * K.capitalWeight * capitalShortfall) \div ownCapital)
        preferenceScore   == IF args.preferred = "any" \/ args.preferred = args.type
                             THEN K.preferMatch ELSE K.preferMismatch
        result(cost, tco, monthlyEquivalent) ==
            [id |-> args.id, type |-> args.type, product |-> args.product, deposit |-> args.deposit,
             rent |-> args.rent, loan |-> loan, rate |-> args.rate, cost |-> cost, tco |-> tco,
             monthly |-> monthlyEquivalent, npv |-> roundHalf(tco * K.annuity, 10 * horizonMonths),
             verdict |-> CASE args.afford.max <= 0 -> "unaffordable"
                           [] args.afford.max > 0 /\ monthlyEquivalent <= affRec -> "affordable"
                           [] OTHER -> IF args.afford.max > 0 /\ monthlyEquivalent <= args.afford.max
                                       THEN "stretch" ELSE "unaffordable",
             fit |-> Smallest({100, roundHalf(affordScore(monthlyEquivalent) + capitalScore
                                                + 100 * preferenceScore, 100)}),
             schwabe |-> IF args.afford.netIncome > 0
                         THEN roundHalf(monthlyEquivalent * 1000, args.afford.netIncome) ELSE -1]
        resultOf(cost, tco) == result(cost, tco, floorTo(tco \div horizonMonths, K.monthlyUnit))
        spending(cost) ==
            resultOf(cost, cost.interest + cost.rent + cost.maintenance + cost.opportunity + cost.insurance)
    IN  spending(components)

(* common(extra): what the four scenarios share, extended with their own. *)
buildScenarios(region, assets, afford, jeonseLoan, monthlyLoan, preferredType, cap) ==
    LET conversion  == IF region.conversion # 0 THEN region.conversion ELSE K.conversion
        jeonseCap   == IF jeonseLoan.name # "none" THEN jeonseLoan.max ELSE (region.jeonse * K.ltv) \div 100
        jeonseRate  == IF jeonseLoan.rate # 0 THEN jeonseLoan.rate ELSE K.jeonseRate
        monthlyRate == IF monthlyLoan.rate # 0 THEN monthlyLoan.rate ELSE K.jeonseRate
        semiDeposit == floorTo((region.jeonse * K.semiShare) \div 100, K.depositUnit)
        lowDeposit  == Smallest({K.lowDeposit, region.deposit})
        converted(amount) == floorTo((amount * conversion) \div 120000, K.monthlyUnit)
        scenario(id, type, deposit, rent, loan, rate, product) ==
            evaluateScenario([id |-> id, type |-> type, deposit |-> deposit, rent |-> rent, loan |-> loan,
                              rate |-> rate, product |-> product, maintenance |-> region.maintenance,
                              assets |-> assets, afford |-> afford, preferred |-> preferredType,
                              guarantee |-> region.guarantee, cap |-> cap])
        sorted(list) == stableSort(list, [i \in DOMAIN list |-> <<-list[i].fit, list[i].monthly>>])
    IN  sorted(
            <<scenario("jeonse_loan", "jeonse", region.jeonse, 0,
                       sizeLoan(region.jeonse, assets, jeonseCap), jeonseRate, jeonseLoan.name),
              scenario("semi_jeonse", "monthly", semiDeposit, converted(region.jeonse - semiDeposit),
                       sizeLoan(semiDeposit, assets, jeonseCap), jeonseRate, jeonseLoan.name),
              scenario("monthly_standard", "monthly", region.deposit, region.rent,
                       sizeLoan(region.deposit, assets, monthlyLoan.max), monthlyRate, monthlyLoan.name),
              scenario("monthly_low_deposit", "monthly", lowDeposit,
                       region.rent + converted(region.deposit - lowDeposit), 0, 0, "none")>>)

-----------------------------------------------------------------------------
(* The first band whose bound the value stays below, or the last one. *)
bandOf_Inclusive(value, bounds, factors) ==
    LET under == {i \in DOMAIN bounds : value <= bounds[i]}
    IN  factors[IF under = {} THEN Len(bounds) + 1 ELSE Smallest(under)]
bandOf(value, bounds, factors) ==
    LET under == {i \in DOMAIN bounds : value < bounds[i]}
    IN  factors[IF under = {} THEN Len(bounds) + 1 ELSE Smallest(under)]

jeonseRatioFactor(pct) ==
    IF pct <= 0 THEN [weight |-> 0, impact |-> "low"] ELSE bandOf(pct, K.ratioBounds, K.ratioFactors)

loanShareFactor(loan, deposit) ==
    bandOf(IF deposit # 0 THEN (loan * 100) \div deposit ELSE 0, K.shareBounds, K.shareFactors)

depositSizeFactor(deposit, cap) == bandOf((deposit * 100) \div cap, K.sizeBounds, K.sizeFactors)

marketFactor(risk) == K.market[IF risk \in DOMAIN K.market THEN risk ELSE "medium"]

exposureMultiplier(deposit) ==
    CASE deposit >= K.lowExposure -> 10
      [] deposit < K.lowExposure /\ deposit >= K.minimalExposure -> K.exposureLow
      [] OTHER -> K.exposureMinimal

scanDepositRisk(deposit, loanAmount, region, cap) ==
    LET exposure == exposureMultiplier(deposit)
        overCap  == deposit > cap
        jr == jeonseRatioFactor(region.ratio)
        ls == loanShareFactor(Smallest({loanAmount, deposit}), deposit)
        ds == depositSizeFactor(deposit, cap)
        mf == marketFactor(region.risk)
        guaranteed == region.guarantee /\ ~overCap
        gWeight == IF guaranteed THEN 0 ELSE K.noGuarantee
        gImpact == IF guaranteed THEN "low" ELSE "high"
        gShare  == IF deposit >= K.minimalExposure THEN 10 ELSE K.smallDeposit
        damped(impact) == IF exposure >= 10 THEN impact ELSE "low"
        total == Smallest({100, roundHalf(jr.weight * exposure + gWeight * gShare + ls.weight * exposure
                                            + ds.weight * 10 + mf.weight * 10, 10)})
    IN  [score |-> total,
         band |-> CASE total <= K.lowMax -> "low"
                    [] total > K.lowMax /\ total <= K.mediumMax -> "medium"
                    [] OTHER -> "high",
         guaranteed |-> guaranteed,
         impacts |-> <<damped(jr.impact), gImpact, damped(ls.impact),
                       ds.impact, mf.impact>>]

-----------------------------------------------------------------------------
guaranteeDepositCapFor(region) == IF region.metro THEN K.metroCap ELSE K.otherCap

(* priority.forEach: the product kept so far is replaced by a better one.  *)
loanOption(evaluated, priority, deposit, assets) ==
    LET usable == {i \in DOMAIN evaluated : evaluated[i].status \in {"eligible", "conditional"}}
        offered(k) == {evaluated[i] : i \in {j \in usable : evaluated[j].id = priority[k]}}
        gap == Largest({0, deposit - assets})
        coverage(p) == IF gap # 0 THEN Smallest({gap, p.max}) ELSE p.max
        replaces(p, best) == \/ best = {}
                             \/ \E b \in best : \/ coverage(p) > coverage(b)
                                                \/ coverage(p) = coverage(b) /\ p.rate < b.rate
        best[k \in 0 .. Len(priority)] ==
            IF k = 0 THEN {}
            ELSE IF \E p \in offered(k) : replaces(p, best[k - 1]) THEN offered(k) ELSE best[k - 1]
        kept == best[Len(priority)]
    IN  IF kept = {} THEN [name |-> "none", max |-> 0, rate |-> 0]
        ELSE LET p == CHOOSE p \in kept : TRUE IN [name |-> p.id, max |-> p.max, rate |-> p.rate]

verdictCaveat(best, scenarios) ==
    LET within == Kept(scenarios, {i \in DOMAIN scenarios : scenarios[i].verdict = "affordable"})
    IN  CASE best.verdict = "affordable" -> "nothing"
          [] best.verdict # "affordable" /\ within # <<>> -> minBy(within, [i \in DOMAIN within |-> within[i].monthly]).id
          [] OTHER -> "none fits"

buildSummary(afford, scenarios, policies) ==
    LET withStatus(status) == Kept(policies, {i \in DOMAIN policies : policies[i].status = status})
        eligible    == withStatus("eligible")
        conditional == withStatus("conditional")
    IN  [computable |-> ~(afford.recommended <= 0),
         best |-> scenarios[1].id,
         caveat |-> verdictCaveat(scenarios[1], scenarios),
         apply |-> CASE Len(eligible) > 0 -> <<"eligible", Len(eligible)>>
                     [] Len(eligible) = 0 /\ Len(conditional) > 0 -> <<"conditional", Len(conditional)>>
                     [] OTHER -> <<"none", 0>>]

(* The rule versions of the artifact that are in force at the time given.  *)
activeRuleVersions(ruleVersions, now) ==
    Kept(ruleVersions, {i \in DOMAIN ruleVersions : ruleVersions[i].from <= now /\ now < ruleVersions[i].until})

findRegion(regionCode, regions) ==
    regions[Smallest({i \in DOMAIN regions : regions[i].code = regionCode})]

(* analyze(profile, {now}), for a region code the artifact has. *)
analyzeLocally(profile, regions, ruleVersions, now) ==
    LET active    == activeRuleVersions(ruleVersions, now)
        region    == IF profile.region # "" THEN findRegion(profile.region, regions) ELSE regions[1]
        preferred == IF profile.preferred \in {"jeonse", "monthly", "any"} THEN profile.preferred ELSE "any"
        cap       == guaranteeDepositCapFor(region)
        assets    == safeInt(profile.assets)
        answer(afford, evaluated, scenarios) ==
            [affordability |-> afford, scenarios |-> scenarios, policies |-> evaluated,
             risk |-> scanDepositRisk(scenarios[1].deposit, scenarios[1].loan, region, cap),
             summary |-> buildSummary(afford, scenarios, evaluated), region |-> region.code]
        answerFrom(afford, evaluated) ==
            answer(afford, evaluated,
                   buildScenarios(region, assets, afford,
                       loanOption(evaluated, K.jeonsePriority, region.jeonse, assets),
                       loanOption(evaluated, K.monthlyPriority, region.deposit, assets), preferred, cap))
    IN  answerFrom(assessAffordability(profile),
                   evaluatePolicies(profile, [i \in DOMAIN active |-> active[i].payload]))

-----------------------------------------------------------------------------
(* buildLineage: the facts the answer rests on, and the grade.  A fact is  *)
(* its kind, its name, where it shows in the answer and how it was         *)
(* verified; the targets of a policy are its place in the answer.          *)
freshnessThresholdKeys == {c \in K.registered : c.freshness}

ruleFact(version, evaluated) ==
    LET targets == {i \in DOMAIN evaluated : evaluated[i].id = version.payload.id}
    IN  [kind |-> "rule_version", fact |-> version.id, at |-> targets, verification |-> version.verification]

buildLineage(region, active, evaluated) ==
    LET items == {[kind |-> "region_field", fact |-> f, at |-> {}, verification |-> region.verification[f]] :
                        f \in DOMAIN region.verification}
                 \union {ruleFact(active[i], evaluated) : i \in DOMAIN active}
                 \union {[kind |-> "model_constant", fact |-> c.key, at |-> {}, verification |-> c.verification] :
                            c \in {d \in K.registered : d.engine}}
        types == {i.verification : i \in items} \intersect {"unverified", "stale"}
        freshnessEvaluated == freshnessThresholdKeys # {}
    IN  [provenance |-> items,
         reasons |-> types \union (IF freshnessEvaluated THEN {} ELSE {"freshness_not_evaluated"}),
         grade |-> CASE "unverified" \in types -> "C"
                     [] "unverified" \notin types /\ types # {} -> "B"
                     [] OTHER -> IF freshnessEvaluated THEN "A" ELSE "null"]
=============================================================================
