------------------------------- MODULE Ascending -------------------------------
(***************************************************************************)
(* A loop over a list that skips some of its entries goes through the      *)
(* indexes of the others from the lowest to the highest.                   *)
(***************************************************************************)
EXTENDS Integers, FiniteSets

\* The k-th of the indexes in S has k of them up to itself.
InOrder(S) ==
  [k \in 1 .. Cardinality(S) |-> CHOOSE i \in S : Cardinality({j \in S : j <= i}) = k]
================================================================================
