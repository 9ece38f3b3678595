----------------------------- MODULE MCReviewDesk -----------------------------
(* A small instance of ReviewDesk for TLC: two drafts are enough for one on   *)
(* the screen and another one asked for.                                      *)
EXTENDS ReviewDesk

CONSTANTS d1, d2

DraftSymmetry == Permutations(Drafts)
=============================================================================
