----------------------------- MODULE MCLruList2 -------------------------------
(* Finite instances of LruList2. *)
EXTENDS LruList2

CONSTANTS t1, t2, k1, k2, k3, k4, n1, n2, n3

Three == <<n1, n2, n3>>

\* Keys of two threads that fit into the list together, more keys of one thread than fit, a key
\* that two threads share, and keys of two threads that do not fit.
Chosen == {t1 :> {k1, k2} @@ t2 :> {k3}, t1 :> Keys @@ t2 :> {}, t1 :> {k3} @@ t2 :> {k3, k4},
           t1 :> {k1, k2} @@ t2 :> {k3, k4}}

\* Addresses are alike except that three of them are the dummies; the first two keys are alike.
Symmetry == Permutations(Nodes \ ToSet(Dummies)) \cup Permutations({k1, k2})
==============================================================================
