-------------------------------- MODULE RWLock -------------------------------
(* What a reader-writer lock with upgrade promises: who may hold it together with whom. *)
CONSTANT Threads

VARIABLE holds   \* how each thread holds the lock: "none", "shared" or "exclusive"

Others(t, modes) == \A u \in Threads \ {t} : holds[u] \in modes

Init == holds = [t \in Threads |-> "none"]

Share(t) ==
  /\ holds[t] = "none" /\ Others(t, {"none", "shared"})
  /\ holds' = [holds EXCEPT ![t] = "shared"]

\* Taken from nothing or, by an upgrade, from a shared lock that is the only one.
Exclude(t) ==
  /\ holds[t] # "exclusive" /\ Others(t, {"none"})
  /\ holds' = [holds EXCEPT ![t] = "exclusive"]

Release(t) == holds[t] # "none" /\ holds' = [holds EXCEPT ![t] = "none"]

Next == \E t \in Threads : Share(t) \/ Exclude(t) \/ Release(t)

Spec == Init /\ [][Next]_holds
==============================================================================
