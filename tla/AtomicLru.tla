------------------------------ MODULE AtomicLru ------------------------------
(***************************************************************************)
(* What an LRU list promises its clients: keys in the order of their last  *)
(* use, at most Capacity of them.  Slack says by how many keys concurrent  *)
(* inserts may exceed that; the promise of the sequential list has none.   *)
(***************************************************************************)
EXTENDS Naturals, Sequences, SequencesExt

CONSTANTS
  Threads, Keys, Capacity, Slack,
  Initial, \* the keys at the start
  Renews   \* an insert of a key that is there makes it the most recently used

VARIABLES
  lru,     \* the keys, most recently used first
  answer   \* the last answer every thread has had

vars == <<lru, answer>>

NoAnswer == [key |-> {}, new |-> FALSE]

Answer(t, k, b) == answer' = [answer EXCEPT ![t] = [key |-> k, new |-> b]]

Init == lru = Initial /\ answer = [t \in Threads |-> NoAnswer]

InsertNew(t, k) ==
  /\ k \notin ToSet(lru)
  /\ \/ Len(lru) < Capacity + Slack /\ lru' = <<k>> \o lru
     \/ Len(lru) >= Capacity /\ lru' = <<k>> \o Front(lru)
  /\ Answer(t, k, TRUE)

InsertPresent(t, k) ==
  /\ \E i \in DOMAIN lru :
       lru[i] = k /\ lru' = IF Renews THEN <<k>> \o RemoveAt(lru, i) ELSE lru
  /\ Answer(t, k, FALSE)

Next == \E t \in Threads, k \in Keys : InsertNew(t, k) \/ InsertPresent(t, k)

Spec == Init /\ [][Next]_vars
==============================================================================
