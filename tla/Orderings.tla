----------------------------- MODULE Orderings -----------------------------
(***************************************************************************)
(* Sorting and filtering, by what they return: an order is a set of pairs, *)
(* and what a filter lets through is a set of positions.                   *)
(***************************************************************************)
EXTENDS SequencesExt

IsSequence(s) == s \in Seq(Range(s))

Less(K) == {x \in K \X K : x[1] < x[2]}

(* How many elements of S come before x. *)
Place(S, R, x) == Cardinality({y \in S : <<y, x>> \in R})

(* The elements of the finite set S in the order R. *)
Sorted(S, R) == [n \in 1 .. Cardinality(S) |-> CHOOSE x \in S : Place(S, R, x) = n - 1]

(* The entries of s at the positions in K, in the order they have in s. *)
Picked(s, K) == LET at == Sorted(K, Less(K)) IN [n \in DOMAIN at |-> s[at[n]]]
=============================================================================
