------------------------------ MODULE Arrangement ------------------------------
(***************************************************************************)
(* Python's sorted(), as the catalog and the evaluations use it.  An order *)
(* is a set of pairs: "before" holds <<x, y>> if x comes before y.         *)
(***************************************************************************)
EXTENDS Integers, Sequences, FiniteSets

(* The members of a finite set in a strict order: the k-th is the one that  *)
(* k - 1 others come before.                                                *)
Arrange(S, before) ==
  [k \in 1..Cardinality(S) |->
     CHOOSE x \in S : Cardinality({y \in S : <<y, x>> \in before}) = k - 1]

(* A list with its positions arranged.                                      *)
Sorted(list, before) ==
  LET order == Arrange(1..Len(list), before)
  IN  [k \in 1..Len(list) |-> list[order[k]]]

===============================================================================
