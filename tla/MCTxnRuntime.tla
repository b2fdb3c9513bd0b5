---------------------------- MODULE MCTxnRuntime -----------------------------
(* Finite instances of TxnRuntime. *)
EXTENDS TxnRuntime, TLC

\* Threads are alike, and so are the records that exist at the start and the addresses that hold none.
Symmetry == Permutations(Threads) \cup Permutations(Roots) \cup Permutations(Records \ Roots)
==============================================================================
