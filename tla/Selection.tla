----------------------------- MODULE Selection ------------------------------
(***************************************************************************)
(* The elements of a sequence at some of its places, in order: what a Go   *)
(* loop that appends those that pass a test returns.  SelectSeq says the   *)
(* same, but takes the test as an operator, which nothing can be proved    *)
(* about; a set of places can be reasoned with.                            *)
(***************************************************************************)
EXTENDS Integers, Sequences, FiniteSets

IsSequence(s) == s \in Seq({s[k] : k \in DOMAIN s})

(* The n-th smallest of a finite set of places. *)
Nth(places, n) ==
  CHOOSE k \in places : Cardinality({j \in places : j <= k}) = n

Chosen(s, places) == [n \in 1 .. Cardinality(places) |-> s[Nth(places, n)]]

Latest(places) == CHOOSE k \in places : \A j \in places : j <= k
=============================================================================
