---------------------------- MODULE MCHTTPSource ----------------------------
(* HTTPSource on small instances. *)
EXTENDS HTTPSource, TLC

MCPages == [v \in Version |-> IF v % 2 = 0 THEN 2 ELSE 3]
CONSTANTS sf, f1, f2, f3
MCBudget3 == sf :> 3
MCReverts == [v \in Version |-> v % 2]
Symmetry == Permutations(Fetcher)
=============================================================================
