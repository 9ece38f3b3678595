----------------------------- MODULE MCApproval -----------------------------
(* Small instances of Approval for TLC. *)
EXTENDS Approval, TLC

CONSTANTS p1, p2, d1, d2, d3, w1, w2

\* two drafts compete for policy p1, one is alone on p2
MCTarget == d1 :> p1 @@ d2 :> p1 @@ d3 :> p2

WorkerSymmetry == Permutations(Workers)
=============================================================================
