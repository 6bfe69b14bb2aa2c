------------------------------- MODULE Orders -------------------------------
(***************************************************************************)
(* Lists of the elements of a finite set in a given order.                 *)
(***************************************************************************)
EXTENDS Naturals, FiniteSets

(* The elements of S, each once, in the order of R, a set of pairs: the    *)
(* i-th is the one with i - 1 before it.                                   *)
Enumerated(S, R) ==
  [i \in 1..Cardinality(S) |-> CHOOSE x \in S : Cardinality({y \in S : <<y, x>> \in R}) = i - 1]

(* Numbers in their own order.                                             *)
Ascending(S) == Enumerated(S, {p \in S \X S : p[1] < p[2]})
=============================================================================
