-------------------------- MODULE MCAtomicCtrRwLock ---------------------------
(* Finite instances of AtomicCtrRwLock.  Threads are model values; they keep their *)
(* identity, since the liveness of one of them is checked.                       *)
EXTENDS AtomicCtrRwLock
==============================================================================
