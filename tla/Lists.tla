-------------------------------- MODULE Lists --------------------------------
(***************************************************************************)
(* What SQL's WHERE, a list comprehension and Array.filter do to a list:   *)
(* keep the elements at some positions, in their order.                    *)
(***************************************************************************)
EXTENDS Integers, FiniteSets

Before(D, i) == {j \in D : j < i}

Kept(s, D) == [k \in 1 .. Cardinality(D) |-> s[CHOOSE i \in D : Cardinality(Before(D, i)) = k - 1]]
=============================================================================
