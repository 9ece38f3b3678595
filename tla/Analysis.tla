------------------------------ MODULE Analysis ------------------------------
(***************************************************************************)
(* POST /api/analyze and what it is answered from, next to the same        *)
(* question answered in the browser without a server.                      *)
(*                                                                         *)
(* A citizen edits one field of the form at a time and asks.  The server   *)
(* (main.analyze_endpoint) reads the regions, then the rules in force and  *)
(* the session, then runs the engines and adds the lineage, the grade and, *)
(* for staff, the internal part; the rules may be superseded and a region  *)
(* collected anew between these steps.  The browser (LocalEngine) answers  *)
(* from artifacts generated from a seeded store (gen_contracts), at its    *)
(* own clock.                                                              *)
(***************************************************************************)
EXTENDS Engines, LocalEngine

CONSTANTS Profiles,     \* the forms a citizen may start from
          Edits,        \* the edits: records of a field and a value
          Regions,      \* the region records there may be
          Rules,        \* the payloads of rule versions there may be
          SeedRegions,  \* the regions of the seed file
          SeedVersions, \* the rule versions of the seed file
          Amended(_),   \* the payloads a superseding version of a payload may have
          Collected(_), \* the region records the batch may put for a region
          Staff,        \* whether the session may see the internal part
          MaxEdits, MaxChanges, MaxAsks, MaxTime    \* bounds

VARIABLES form,         \* what the form holds
          edits,        \* how often it was edited
          asks,         \* how often it was answered
          now,          \* the clock
          regions,      \* the stored regions
          versions,     \* the stored rule versions, in order of their id
          request,      \* the request in flight
          online,       \* the last answer of the server
          offline       \* the last answer of the browser

vars == <<form, edits, asks, now, regions, versions, request, online, offline>>

Forever == MaxTime + 1

(* What a form may hold, and an edit of it. *)
FormType ==
    [age : Int, annualIncome : Int, netIncome : Int, assets : Int, debt : Int, household : Int,
     homeless : BOOLEAN, newlywed : BOOLEAN, sme : BOOLEAN, region : STRING, preferred : STRING]

EditType ==
    [field : {"age", "annualIncome", "netIncome", "assets", "debt", "household"}, value : Int]
        \union [field : {"homeless", "newlywed", "sme"}, value : BOOLEAN]
        \union [field : {"region", "preferred"}, value : STRING]

ASSUME FormsAssumption == Profiles \subseteq FormType /\ Edits \subseteq EditType

(***************************************************************************)
(* Regions and rules as the schema has them.  The seed file has one        *)
(* version of each policy; a version that supersedes another is a version  *)
(* of the same policy.                                                     *)
(***************************************************************************)
RegionOK(r) ==
    /\ {r.jeonse, r.deposit, r.rent, r.maintenance, r.ratio, r.conversion} \subseteq Nat
    /\ {r.metro, r.guarantee} \subseteq BOOLEAN
    /\ r.code \in STRING

RuleOK(p) ==
    /\ p.id \in STRING /\ p.id # "none"
    /\ {p.max, p.rate, p.criteria.incomeMax} \subseteq Nat
    /\ {p.criteria.ageMin, p.criteria.ageMax, p.criteria.assetMax} \subseteq Int
    /\ {p.checks, p.criteria.homeless, p.criteria.newlywed, p.criteria.sme} \subseteq BOOLEAN

VersionType == [id : Nat, payload : Rules, from : Int, until : Int, verification : STRING]

ASSUME StoreAssumption ==
    /\ MaxTime \in Nat
    /\ \A r \in Regions : RegionOK(r)
    /\ SeedRegions \in Seq(Regions) /\ SeedRegions # <<>>
    /\ \A i \in DOMAIN SeedRegions : Collected(SeedRegions[i]) \subseteq Regions
    /\ \A p \in Rules : RuleOK(p) /\ Amended(p) \subseteq {q \in Rules : q.id = p.id}
    /\ SeedVersions \in Seq(VersionType)
    /\ \A i \in DOMAIN SeedVersions : SeedVersions[i].id = i /\ SeedVersions[i].from < Forever
    /\ \A i, j \in DOMAIN SeedVersions :
        SeedVersions[i].payload.id = SeedVersions[j].payload.id => i = j

(***************************************************************************)
(* A deposit is nothing or at least one unit of a deposit, and the fee for *)
(* guaranteeing one unit is visible in units of 1000 won.  (In won every   *)
(* deposit the sources report, whole 10 000 won, has a fee.)               *)
(***************************************************************************)
ASSUME DepositsAssumption ==
    /\ \A r \in Regions : \A d \in {r.jeonse, r.deposit} : d > 0 => d >= K.depositUnit
    /\ K.lowDeposit >= K.depositUnit
    /\ \A row \in K.rateTable : K.depositUnit * row.rate * K.years > 50000

Idle == [step |-> "idle"]
NoAnswer == [kind |-> "none"]

(* _RuleVersions.active(at) *)
active(at) == Kept(versions, {i \in DOMAIN versions : versions[i].from <= at /\ at < versions[i].until})

Known(p, records) == p.region = "" \/ \E i \in DOMAIN records : records[i].code = p.region

RecordOf(code, records) == CHOOSE r \in {records[i] : i \in DOMAIN records} : r.code = code

-----------------------------------------------------------------------------
(* grade_facts: our own choices do not count, the worst of the rest wins,  *)
(* and without a registered freshness threshold there is no A.             *)
freshness_threshold_keys == {c \in K.registered : c.freshness}

grade_facts(items) ==
    LET types == ({i.verification : i \in items} \intersect {"unverified", "stale"})
                    \union {t \in {"freshness_not_evaluated"} : freshness_threshold_keys = {}}
    IN  [provenance |-> items, reasons |-> types,
         grade |-> IF "unverified" \in types THEN "C"
                   ELSE IF types \intersect {"stale", "pending_review"} # {} THEN "B"
                   ELSE IF "freshness_not_evaluated" \in types THEN "null" ELSE "A"]

(* build_lineage: the facts of the region the answer names, the versions   *)
(* the engines were given, the constants the engines ask for.              *)
rule_fact(answer, version) ==
    [kind |-> "rule_version", fact |-> version.id, verification |-> version.verification,
     at |-> {i \in DOMAIN answer.policies : answer.policies[i].id = version.payload.id}]

rule_facts_Reread(answer, given) == {rule_fact(answer, active(now)[i]) : i \in DOMAIN active(now)}
rule_facts(answer, given) == {rule_fact(answer, given[i]) : i \in DOMAIN given}

build_lineage(answer, records, given) ==
    LET used  == RecordOf(answer.region, records)
        items == {[kind |-> "region_field", fact |-> f, at |-> {}, verification |-> used.verification[f]] :
                        f \in DOMAIN used.verification}
                 \union rule_facts(answer, given)
                 \union {[kind |-> "model_constant", fact |-> c.key, at |-> {}, verification |-> c.verification] :
                            c \in {d \in K.registered : d.required}}
    IN  grade_facts(items)

(* build_internal: for staff, the criteria of what was not granted. *)
build_internal(answer, given) ==
    {[policy |-> e.id, status |-> e.status,
      criteria |-> (CHOOSE v \in {given[i] : i \in DOMAIN given} : v.payload.id = e.id).payload.criteria] :
        e \in {d \in {answer.policies[i] : i \in DOMAIN answer.policies} : d.status # "eligible"}}

-----------------------------------------------------------------------------
Init ==
    /\ form \in Profiles
    /\ edits = 0
    /\ asks = 0
    /\ now = 0
    /\ regions = SeedRegions
    /\ versions = SeedVersions
    /\ request = Idle
    /\ online = NoAnswer
    /\ offline = NoAnswer

(* The citizen changes one field; the old answers stay on the screen. *)
Edit ==
    /\ edits < MaxEdits
    /\ request = Idle
    /\ \E e \in Edits : form[e.field] # e.value /\ form' = [form EXCEPT ![e.field] = e.value]
    /\ edits' = edits + 1
    /\ UNCHANGED <<asks, now, regions, versions, request, online, offline>>

(* analyze_endpoint takes its time and reads the regions ... *)
ReadRegions ==
    /\ request = Idle /\ asks < MaxAsks
    /\ asks' = asks + 1
    /\ request' = [step |-> "regions", form |-> form, at |-> now, regions |-> regions]
    /\ UNCHANGED <<form, edits, now, regions, versions, online, offline>>

(* ... reads the rules in force at that time and looks at the session ... *)
ReadRules ==
    /\ request.step = "regions"
    /\ request' = [step |-> "read", form |-> request.form, at |-> request.at,
                   regions |-> request.regions, given |-> active(request.at)]
    /\ UNCHANGED <<form, edits, asks, now, regions, versions, online, offline>>

respond(read, answer) ==
    [kind |-> "answer", form |-> read.form, at |-> read.at, regions |-> read.regions, body |-> answer,
     lineage |-> build_lineage(answer, read.regions, read.given),
     internal |-> IF Staff THEN build_internal(answer, read.given) ELSE {}]

(* ... and answers from what it has read; an unknown region code is a 400. *)
Answer ==
    /\ request.step = "read"
    /\ online' =
        IF ~Known(request.form, request.regions)
        THEN [kind |-> "invalid_region", form |-> request.form, at |-> request.at, regions |-> request.regions]
        ELSE respond(request, analyze(request.form, request.regions,
                                             [i \in DOMAIN request.given |-> request.given[i].payload]))
    /\ request' = Idle
    /\ UNCHANGED <<form, edits, asks, now, regions, versions, offline>>

(* analyze(profile, {now}) in the browser. *)
respondLocally(answer) ==
    [kind |-> "answer", form |-> form, at |-> now, body |-> answer,
     lineage |-> buildLineage(RecordOf(answer.region, SeedRegions),
                                      activeRuleVersions(SeedVersions, now), answer.policies)]

AnswerOffline ==
    /\ request = Idle /\ asks < MaxAsks
    /\ asks' = asks + 1
    /\ offline' =
        IF ~Known(form, SeedRegions)
        THEN [kind |-> "invalid_region", form |-> form, at |-> now]
        ELSE respondLocally(analyzeLocally(form, SeedRegions, SeedVersions, now))
    /\ UNCHANGED <<form, edits, now, regions, versions, request, online>>

Changes == Len(versions) - Len(SeedVersions) + Cardinality({i \in DOMAIN regions : regions[i] # SeedRegions[i]})

(* An approval supersedes the open version of a policy: _RuleVersions      *)
(* .supersede, which Approval models in full.                              *)
Supersede ==
    /\ Changes < MaxChanges
    /\ \E i \in DOMAIN versions :
        /\ versions[i].until = Forever /\ versions[i].from < now
        /\ \E payload \in Amended(versions[i].payload) :
            versions' = Append([versions EXCEPT ![i].until = now],
                               [versions[i] EXCEPT !.id = Len(versions) + 1, !.from = now, !.payload = payload])
    /\ UNCHANGED <<form, edits, asks, now, regions, request, online, offline>>

(* The market batch commits a region: MarketBatch models it in full. *)
Collect ==
    /\ Changes < MaxChanges
    /\ \E i \in DOMAIN regions :
        /\ regions[i] = SeedRegions[i]
        /\ \E r \in Collected(regions[i]) : regions' = [regions EXCEPT ![i] = r]
    /\ UNCHANGED <<form, edits, asks, now, versions, request, online, offline>>

Tick ==
    /\ now < MaxTime
    /\ now' = now + 1
    /\ UNCHANGED <<form, edits, asks, regions, versions, request, online, offline>>

Next == Edit \/ ReadRegions \/ ReadRules \/ Answer \/ AnswerOffline \/ Supersede \/ Collect \/ Tick

Spec == Init /\ [][Next]_vars

-----------------------------------------------------------------------------
Answered == online.kind = "answer"

(* As long as the store is what the artifacts were generated from, the     *)
(* browser gives the answer the server gives, to the same form at the same *)
(* time: every figure, the ranking, the reasons, the sources and the       *)
(* grade.  The two texts of the engines have not drifted apart             *)
(* (local_engine.js 320, main.py 1535).                                    *)
OfflineAgrees ==
    (/\ online.kind # "none" /\ offline.kind # "none"
     /\ online.form = offline.form /\ online.at = offline.at
     /\ regions = SeedRegions /\ versions = SeedVersions)
    => /\ online.kind = offline.kind
       /\ Answered => online.body = offline.body /\ online.lineage = offline.lineage

(* The engines of one answer speak of the same facts: E3 charges the       *)
(* guarantee fee for the scenario it recommends exactly when E4 calls its  *)
(* deposit guaranteed (risk.py 204), and what a scenario borrows comes     *)
(* from a product the answer lists as not ineligible, within its maximum   *)
(* and the share of the deposit that is lent; without a product only the   *)
(* jeonse ways borrow.                                                     *)
EnginesAgree ==
    Answered =>
        LET body == online.body
            best == body.scenarios[1]
        IN  /\ best.deposit > 0 => (best.cost.insurance > 0 <=> body.risk.guaranteed)
            /\ \A i \in DOMAIN body.scenarios :
                LET s == body.scenarios[i]
                IN  /\ 100 * s.loan <= K.ltv * s.deposit
                    /\ IF s.product = "none"
                       THEN s.loan > 0 => s.id \in {"jeonse_loan", "semi_jeonse"}
                       ELSE \E j \in DOMAIN body.policies :
                                /\ body.policies[j].id = s.product
                                /\ body.policies[j].status # "ineligible"
                                /\ s.loan <= body.policies[j].max

(* A scenario called affordable or a stretch leaves the household its cost *)
(* of living, its debt payments and the emergency buffer, whatever the     *)
(* roundings of E1 and E3 do.                                              *)
PlanLeavesTheBuffer ==
    Answered =>
        LET a == online.body.affordability
        IN  \A i \in DOMAIN online.body.scenarios :
                online.body.scenarios[i].verdict # "unaffordable" =>
                    online.body.scenarios[i].monthly + a.livingCost + a.debt + a.buffer <= a.netIncome

(* Whoever looks up the rule versions the answer names and applies them to *)
(* the form gets the verdicts of the answer, and the criteria shown to     *)
(* staff are the ones that were applied, also when the rule was superseded *)
(* while the answer was being made.                                        *)
VerdictsAreReproducible ==
    Answered =>
        \A e \in {online.body.policies[i] : i \in DOMAIN online.body.policies} :
            LET named == {v \in {versions[i] : i \in DOMAIN versions} :
                            /\ v.payload.id = e.id
                            /\ \E f \in online.lineage.provenance : f.kind = "rule_version" /\ f.fact = v.id}
            IN  /\ Cardinality(named) = 1
                /\ \A v \in named :
                    /\ evaluate_policy(online.form, v.payload) = e
                    /\ \A r \in online.internal : r.policy = e.id => r.criteria = v.payload.criteria

(* The steps that replace one answer of the server by another. *)
Replaced == Answered /\ online.kind' = "answer" /\ online' # online

(* Asking again with a higher annual income, and nothing else changed,     *)
(* never improves the status of a policy of the same rules.                *)
MoreIncomeNeverQualifies ==
    [][ (/\ Replaced
         /\ versions = SeedVersions
         /\ online'.form.annualIncome >= online.form.annualIncome
         /\ online'.form = [online.form EXCEPT !.annualIncome = online'.form.annualIncome])
        => \A i \in DOMAIN online.body.policies : \A j \in DOMAIN online'.body.policies :
                online.body.policies[i].id = online'.body.policies[j].id =>
                    StatusOrder[online.body.policies[i].status]
                        <= StatusOrder[online'.body.policies[j].status] ]_vars
=============================================================================
