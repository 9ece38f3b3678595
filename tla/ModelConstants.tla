--------------------------- MODULE ModelConstants ---------------------------
(***************************************************************************)
(* The model constants: registered in data/model_constants.json, injected  *)
(* into every engine of the server and generated into the artifacts of the *)
(* browser (HOME_COMPASS_MODEL_CONSTANTS).                                 *)
(***************************************************************************)
EXTENDS Integers, Sequences, FiniteSets

CONSTANT K

(***************************************************************************)
(* What both engines rely on: scales have one factor more than bounds, the *)
(* last bracket of the guarantee rates is unbounded, and the constants the *)
(* server counts as facts of an answer are those the artifacts mark.       *)
(***************************************************************************)
IsScale(bounds, factors) ==
    /\ bounds \in Seq(Nat)
    /\ \A i, j \in DOMAIN bounds : i < j => bounds[i] < bounds[j]
    /\ DOMAIN factors = 1 .. Len(bounds) + 1
    /\ \A i \in DOMAIN factors : factors[i].weight \in Nat

ASSUME ConstantsAssumption ==
    /\ K.livingCost \in Seq(Nat) /\ K.livingCost # <<>>
    /\ {K.costUnit, K.depositUnit, K.monthlyUnit, K.years, K.metroCap, K.otherCap} \subseteq Nat \ {0}
    /\ {K.haircut, K.ltv} \subseteq 0 .. 100
    /\ {K.extraPerson, K.costCap, K.buffer, K.netFromAnnual, K.safeCap, K.safeDebt, K.cautionCap,
        K.cautionDebt, K.imminent, K.noAgeMax, K.noAmount, K.margin} \subseteq Nat
    /\ {K.opportunity, K.annuity, K.affordWeight, K.overrunSlope, K.capitalWeight, K.preferMatch,
        K.preferMismatch, K.jeonseRate, K.conversion, K.semiShare, K.lowDeposit} \subseteq Nat
    /\ {K.lowExposure, K.minimalExposure, K.exposureLow, K.exposureMinimal, K.noGuarantee,
        K.smallDeposit, K.lowMax, K.mediumMax} \subseteq Nat
    /\ IsFiniteSet(K.rateTable) /\ K.rateTable \subseteq [upTo : Int, rate : Nat]
    /\ \E row \in K.rateTable : row.upTo = K.noBound
    /\ IsScale(K.ratioBounds, K.ratioFactors)
    /\ IsScale(K.shareBounds, K.shareFactors)
    /\ IsScale(K.sizeBounds, K.sizeFactors)
    /\ "medium" \in DOMAIN K.market /\ \A risk \in DOMAIN K.market : K.market[risk].weight \in Nat
    /\ K.jeonsePriority \in Seq(STRING) /\ K.monthlyPriority \in Seq(STRING)
    /\ \A c \in K.registered : c.required = c.engine
=============================================================================
