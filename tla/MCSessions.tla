----------------------------- MODULE MCSessions -----------------------------
(* Small instances of Sessions for TLC. *)
EXTENDS Sessions, TLC

CONSTANTS counselor, manager, w1, w2, s1, s2

MCRole == counselor :> "counselor" @@ manager :> "rule_manager"

Interchangeable == Permutations(Workers) \cup Permutations(Ids)
=============================================================================
