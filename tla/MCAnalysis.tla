----------------------------- MODULE MCAnalysis -----------------------------
(***************************************************************************)
(* Analysis with the registered model constants, five of the seeded        *)
(* policies and four of the seeded regions, all in units of 1000 won.      *)
(***************************************************************************)
EXTENDS Analysis

CONSTANTS Incomes, NetIncomes       \* the values of two fields

Unlimited == 1000000

Factor(weight, impact) == [weight |-> weight, impact |-> impact]

Constants ==
    [livingCost |-> <<1531, 2554, 3691, 4578>>, extraPerson |-> 500,
     costCap |-> 30, haircut |-> 85, buffer |-> 10, netFromAnnual |-> 85, costUnit |-> 10,
     safeCap |-> 25, safeDebt |-> 20, cautionCap |-> 12, cautionDebt |-> 35,
     imminent |-> 1, noAgeMax |-> 200, noAmount |-> Unlimited, margin |-> 5,
     metroCap |-> 700000, otherCap |-> 500000,
     jeonsePriority |-> <<"buttress_youth", "newlywed_jeonse">>,
     monthlyPriority |-> <<"youth_monthly_loan">>,
     noBound |-> -1,
     rateTable |-> {[upTo |-> 100000, rate |-> 97], [upTo |-> 100000, rate |-> 172],
                    [upTo |-> 200000, rate |-> 102], [upTo |-> 200000, rate |-> 184],
                    [upTo |-> 500000, rate |-> 107], [upTo |-> 500000, rate |-> 197],
                    [upTo |-> -1, rate |-> 113], [upTo |-> -1, rate |-> 211]},
     ltv |-> 80, depositUnit |-> 1000, monthlyUnit |-> 1, years |-> 5, opportunity |-> 326, annuity |-> 545,
     affordWeight |-> 60, overrunSlope |-> 120, capitalWeight |-> 25, preferMatch |-> 15, preferMismatch |-> 7,
     jeonseRate |-> 411, conversion |-> 560, semiShare |-> 50, lowDeposit |-> 5000,
     ratioBounds |-> <<60, 70, 80, 90>>,
     ratioFactors |-> <<Factor(4, "low"), Factor(10, "low"), Factor(18, "medium"), Factor(30, "high"), Factor(42, "high")>>,
     shareBounds |-> <<20, 50, 70>>,
     shareFactors |-> <<Factor(0, "low"), Factor(6, "medium"), Factor(10, "medium"), Factor(14, "high")>>,
     sizeBounds |-> <<50, 90>>,
     sizeFactors |-> <<Factor(0, "low"), Factor(6, "medium"), Factor(12, "high")>>,
     market |-> [low |-> Factor(0, "low"), medium |-> Factor(6, "medium"), high |-> Factor(14, "high")],
     lowExposure |-> 50000, minimalExposure |-> 10000, exposureLow |-> 5, exposureMinimal |-> 2,
     noGuarantee |-> 28, smallDeposit |-> 3, lowMax |-> 34, mediumMax |-> 64,
     registered |-> {[key |-> "tco.jeonse_ltv", engine |-> TRUE, required |-> TRUE,
                      freshness |-> FALSE, verification |-> "our_choice"],
                     [key |-> "auth.session_idle_timeout_seconds", engine |-> FALSE, required |-> FALSE,
                      freshness |-> FALSE, verification |-> "unverified"]}]

Policy(id, ageMin, ageMax, income, assets, newlywed, codes, checks, most, rate) ==
    [id |-> id, checks |-> checks, max |-> most, rate |-> rate,
     criteria |-> [ageMin |-> ageMin, ageMax |-> ageMax, incomeMax |-> income, assetMax |-> assets,
                   homeless |-> most # 700000, newlywed |-> newlywed, sme |-> FALSE, regions |-> codes]]

Payloads == <<Policy("buttress_youth", 19, 34, 50000, 337000, FALSE, {}, FALSE, 200000, 290),
              Policy("hug_deposit_guarantee", 0, 200, Unlimited, 10 * Unlimited, FALSE, {}, TRUE, 700000, 20),
              Policy("newlywed_jeonse", 19, 200, 75000, 337000, TRUE, {}, FALSE, 300000, 270),
              Policy("seoul_deposit_interest", 19, 39, 47000, 337000, FALSE, {"11440", "11200"}, FALSE, 200000, 200),
              Policy("youth_monthly_loan", 19, 34, 50000, 337000, FALSE, {}, FALSE, 45000, 130)>>

Versions == [i \in DOMAIN Payloads |-> [id |-> i, payload |-> Payloads[i], from |-> -1, until |-> MaxTime + 1,
                                        verification |-> "verified"]]

Region(code, metro, jeonse, deposit, rent, maintenance, ratio, conversion, risk, guarantee) ==
    [code |-> code, metro |-> metro, jeonse |-> jeonse, deposit |-> deposit, rent |-> rent,
     maintenance |-> maintenance, ratio |-> ratio, conversion |-> conversion, risk |-> risk,
     guarantee |-> guarantee, verification |-> [ratio |-> "verified", maintenance |-> "verified"]]

StoredRegions == <<Region("11440", TRUE, 650000, 100000, 950, 90, 43, 482, "low", TRUE),
                   Region("11200", TRUE, 729000, 100000, 1100, 100, 40, 474, "low", TRUE),
                   Region("26350", FALSE, 254775, 30000, 800, 70, 60, 508, "low", TRUE),
                   Region("12330", FALSE, 163650, 20000, 450, 55, 78, 571, "high", FALSE)>>

(* One rule may be tightened; in one region the ratio may move or a field  *)
(* turn stale.                                                             *)
Tightened(payload) ==
    IF payload.id = "newlywed_jeonse" THEN {[payload EXCEPT !.criteria.incomeMax = 30000]} ELSE {}
Recollected(region) ==
    IF region.code = "26350"
    THEN {[region EXCEPT !.ratio = region.ratio + 15],
          [region EXCEPT !.verification.ratio = "stale", !.rent = region.rent + 100]}
    ELSE {}

AllRules == {Payloads[i] : i \in DOMAIN Payloads} \union UNION {Tightened(Payloads[i]) : i \in DOMAIN Payloads}
AllRegions == {StoredRegions[i] : i \in DOMAIN StoredRegions}
                \union UNION {Recollected(StoredRegions[i]) : i \in DOMAIN StoredRegions}

Form(household, income, net) ==
    [age |-> 34, annualIncome |-> income, netIncome |-> net, assets |-> household[1], debt |-> 300,
     household |-> 1, homeless |-> TRUE, newlywed |-> household[2], sme |-> FALSE, region |-> household[3],
     preferred |-> "any"]

Households == {<<20000, FALSE, "">>, <<20000, TRUE, "26350">>, <<340000, FALSE, "11200">>}

Forms == {Form(h, income, net) : h \in Households, income \in Incomes, net \in NetIncomes}

FieldEdits ==
    {[field |-> "annualIncome", value |-> v] : v \in {0, 48000, 74000}}
    \union {[field |-> "region", value |-> v] : v \in {"12330", "99999"}}
    \union {[field |-> "homeless", value |-> FALSE], [field |-> "preferred", value |-> "jeonse"],
            [field |-> "debt", value |-> 1200], [field |-> "household", value |-> 5], [field |-> "age", value |-> 18]}
=============================================================================
