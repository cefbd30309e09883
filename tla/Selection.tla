----------------------------- MODULE Selection -----------------------------
(***************************************************************************)
(* What a loop over a list keeps of it.  Where it goes is told by          *)
(* positions, so that it can be reasoned about without recursion.          *)
(***************************************************************************)
EXTENDS Naturals, FiniteSets

(* How many of the positions K are not behind i. *)
Rank(K, i) == Cardinality({j \in K : j <= i})

(* The elements of s at the positions K, in their order. *)
Keep(s, K) == [p \in 1..Cardinality(K) |-> s[CHOOSE i \in K : Rank(K, i) = p]]
=============================================================================
