-------------------------- MODULE MCLinkedLists --------------------------
(* Finite instances of LinkedLists: addresses are alike. *)
EXTENDS LinkedLists

Symmetry == Permutations(Nodes)
==============================================================================
