------------------------------ MODULE Ascending ------------------------------
(***************************************************************************)
(* The numbers of a finite set in ascending order, for the places where a  *)
(* sequence is read through a choice of its positions.                     *)
(***************************************************************************)
EXTENDS Integers, FiniteSets

Ascending(S) ==
  CHOOSE q \in [1..Cardinality(S) -> S] : \A i, j \in DOMAIN q : i < j => q[i] < q[j]
=============================================================================
