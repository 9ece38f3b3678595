---------------------------- MODULE MCCitizenPage ----------------------------
(* A small instance of CitizenPage for TLC. *)
EXTENDS CitizenPage

Profile(region) == [region |-> region, income |-> "low"]

\* the store and the artifacts may come from different builds
MCProfiles == {Profile("mapo"), Profile("gone")}

\* overrides the engines refuse
MCWishes == {[tool |-> "assess_affordability", args |-> [region |-> "nowhere", income |-> "high"]]}

\* "up to which monthly rent can I afford it": one word of a comparison, two of a budget
MCQuestions ==
    {[t \in TOOL_NAMES |-> CASE t = "compare_tco" -> 1
                          [] t = "assess_affordability" -> 2
                          [] OTHER -> 0]}

\* the template, and the provider with the larger choice of answers
MCEnvironments == {{"openai_key"}, {"openai_key", "anthropic_key", "anthropic_sdk"}}
=============================================================================
