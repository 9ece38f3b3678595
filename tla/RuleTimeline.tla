---------------------------- MODULE RuleTimeline ----------------------------
(***************************************************************************)
(* What the rule store promises the decision engines, and nothing of how:  *)
(* every policy has a timeline of rules, a rule enters it once, strictly   *)
(* after everything already on it, and is never moved or removed.  There   *)
(* is no closing instant here: the rule in force at t is the latest one    *)
(* that starts at or before t.  The approval workflow implements this with *)
(* half-open windows that it closes and opens in one transaction.          *)
(***************************************************************************)
EXTENDS Naturals

CONSTANTS
    Policies,   \* the policies that have a rule from the beginning
    Rules,      \* everything that can become a rule, first rules included
    Starts      \* the instants at which a rule may enter a timeline

VARIABLE timeline   \* timeline[p]: the set of [rule, start] on p's timeline

\* start 0 stands for "no known beginning" (effective_from NULL)
TimelineInit ==
    timeline = [p \in Policies |-> {[rule |-> p, start |-> 0]}]

(***************************************************************************)
(* A rule that is on no timeline enters p's, later than all its entries.   *)
(***************************************************************************)
Enact(p, rule, start) ==
    /\ \A q \in Policies : \A e \in timeline[q] : e.rule # rule
    /\ \A e \in timeline[p] : e.start < start
    /\ timeline' = [timeline EXCEPT ![p] = @ \cup {[rule |-> rule, start |-> start]}]

TimelineNext ==
    \E p \in Policies, rule \in Rules, start \in Starts : Enact(p, rule, start)

TimelineSpec == TimelineInit /\ [][TimelineNext]_timeline

(***************************************************************************)
(* The rules in force for p at t: the latest entries at or before t.       *)
(***************************************************************************)
InForce(p, t) ==
    {e.rule : e \in {f \in timeline[p] :
        /\ f.start <= t
        /\ \A g \in timeline[p] : g.start <= t => g.start <= f.start}}
=============================================================================
