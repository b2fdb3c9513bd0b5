------------------------------ MODULE MCLruList -------------------------------
(* Finite instances of LruList. *)
EXTENDS LruList

CONSTANTS t1, t2, k1, k2, k3, k4

Own    == t1 :> {k1, k2} @@ t2 :> {k3, k4}
Alone  == t1 :> Keys @@ t2 :> {}
Shared == t1 :> {k1, k2} @@ t2 :> {k1, k2}

All  == {Own, Alone, Shared}
Same == {Shared}

\* Addresses are alike, and so are keys that every workload treats alike.
Symmetry == Permutations(Nodes) \cup Permutations({k1, k2}) \cup Permutations({k3, k4})
==============================================================================
