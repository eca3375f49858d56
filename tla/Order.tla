-------------------------------- MODULE Order --------------------------------
(***************************************************************************)
(* What is left of a list whose other elements go.                         *)
(*                                                                         *)
(* Both operators are sets of one element, for the code keeps the order of *)
(* what it keeps and there is one way to do so.                            *)
(***************************************************************************)
EXTENDS Naturals, Sequences, FiniteSets

\* These positions, the smaller ones first: the k-th has k - 1 before it.
Ascending(positions) ==
  [k \in 1..Cardinality(positions) |->
     CHOOSE p \in positions : Cardinality({q \in positions : q < p}) = k - 1]

\* These positions, each once and the smaller ones first.
InOrder(positions) ==
  {order \in [1..Cardinality(positions) -> positions] :
     /\ \A k \in positions : \E i \in DOMAIN order : order[i] = k
     /\ \A i, j \in DOMAIN order : i < j => order[i] < order[j]}

\* What a list holds at these positions.
Picked(list, positions) ==
  {[i \in DOMAIN order |-> list[order[i]]] : order \in InOrder(positions)}
===============================================================================
