---------------------------- MODULE MCMarketBatch ----------------------------
(* Small instances of MarketBatch for TLC. *)
EXTENDS MarketBatch, TLC

CONSTANTS p1, p2, r1, r2

\* the outcomes that decide what a run does
FewResults == {Failure, [derived |-> {"rent"}, outliers |-> "exceeding"]}

Interchangeable == Permutations(Procs) \cup Permutations(Codes)
=============================================================================
