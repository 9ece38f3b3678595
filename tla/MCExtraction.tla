---------------------------- MODULE MCExtraction ----------------------------
(* A small instance of Extraction for TLC. *)
EXTENDS Extraction

CONSTANTS p1, p2, b1, b2

MCDrafts == (1..MaxDrafts) \X Policies
MCTarget == [d \in MCDrafts |-> d[2]]
MCSeedOrder == <<p1, p2>>
MCTargets == <<p1, p2>>
MCLimit == [b \in Batches |-> IF b = b1 THEN 2 ELSE 1]
MCDemoQueue == <<[id |-> <<1, p1>>, status |-> "pending"]>>
=============================================================================
