--------------------------- MODULE AtomicCtrRwLock ---------------------------
(***************************************************************************)
(* AtomicCtrRwLock: a reader-writer lock in one atomic counter, -1 for a   *)
(* writer and otherwise the number of sharers.  A load of the counter and  *)
(* the compare-and-swap that depends on it are two steps.                  *)
(* compare_exchange_weak may fail although the counter is as expected.     *)
(***************************************************************************)
EXTENDS Integers, FiniteSets

CONSTANTS Threads, Unread

ASSUME UnreadAssumption == Unread \notin Int /\ IsFiniteSet(Threads) /\ Threads # {}

VARIABLES
  counter,
  holds,     \* how each thread holds the lock; its own knowledge
  want,      \* the call it is in: "none", "shared", "exclusive" or "upgrade"
  once,      \* the call is a try_
  expected   \* the local variable of the compare-and-swap

vars == <<counter, holds, want, once, expected>>

Init ==
  /\ counter = 0
  /\ holds = [t \in Threads |-> "none"]
  /\ want = [t \in Threads |-> "none"]
  /\ once = [t \in Threads |-> FALSE]
  /\ expected = [t \in Threads |-> Unread]

\* An upgrade that waits for the lock to be free, its own share included.
FaultyExpect(mode) == IF mode = "shared" THEN Unread ELSE 0

\* What the caller's compare-and-swap has to find.
Expect(mode) == CASE mode = "exclusive" -> 0 [] mode = "upgrade" -> 1 [] OTHER -> Unread

Call(t, mode, try) ==
  /\ want[t] = "none"
  /\ holds[t] = IF mode = "upgrade" THEN "shared" ELSE "none"
  /\ want' = [want EXCEPT ![t] = mode]
  /\ once' = [once EXCEPT ![t] = try]
  /\ expected' = [expected EXCEPT ![t] = Expect(mode)]
  /\ UNCHANGED <<counter, holds>>

Return(t) ==
  /\ want' = [want EXCEPT ![t] = "none"]
  /\ once' = [once EXCEPT ![t] = FALSE]
  /\ expected' = [expected EXCEPT ![t] = Unread]

\* The counter is not compared with -1.
FaultyLoad(t) ==
  /\ want[t] = "shared" /\ expected[t] = Unread
  /\ expected' = [expected EXCEPT ![t] = counter]
  /\ UNCHANGED <<counter, holds, want, once>>

\* The load of lock_shared, which spins past a writer, and of try_lock_shared, which gives up.
Load(t) ==
  /\ want[t] = "shared" /\ expected[t] = Unread
  /\ \/ counter # -1 /\ expected' = [expected EXCEPT ![t] = counter] /\ UNCHANGED <<want, once>>
     \/ counter = -1 /\ once[t] /\ Return(t)
  /\ UNCHANGED <<counter, holds>>

\* The exchange does not compare.
FaultySwap(t) ==
  /\ want[t] # "none" /\ expected[t] # Unread
  /\ counter' = IF want[t] = "shared" THEN expected[t] + 1 ELSE -1
  /\ holds' = [holds EXCEPT ![t] = IF want[t] = "shared" THEN "shared" ELSE "exclusive"]
  /\ Return(t)

\* lockShared and lockExclusive, successful.
Swap(t) ==
  /\ want[t] # "none" /\ expected[t] # Unread /\ counter = expected[t]
  /\ counter' = IF want[t] = "shared" THEN expected[t] + 1 ELSE -1
  /\ holds' = [holds EXCEPT ![t] = IF want[t] = "shared" THEN "shared" ELSE "exclusive"]
  /\ Return(t)

\* A failed exchange, spurious or not: a try_ is over, a lock_ starts its loop again.
SwapFails(t) ==
  /\ want[t] # "none" /\ expected[t] # Unread
  /\ IF once[t] THEN Return(t)
     ELSE expected' = [expected EXCEPT ![t] = Expect(want[t])] /\ UNCHANGED <<want, once>>
  /\ UNCHANGED <<counter, holds>>

\* One sharer's unlock lets everybody go.
FaultyUnlock(t) ==
  /\ want[t] = "none" /\ holds[t] # "none"
  /\ counter' = 0
  /\ holds' = [holds EXCEPT ![t] = "none"]
  /\ UNCHANGED <<want, once, expected>>

\* unlock_exclusive stores 0, unlock_shared subtracts 1.
Unlock(t) ==
  /\ want[t] = "none" /\ holds[t] # "none"
  /\ counter' = IF holds[t] = "exclusive" THEN 0 ELSE counter - 1
  /\ holds' = [holds EXCEPT ![t] = "none"]
  /\ UNCHANGED <<want, once, expected>>

Step(t) == Load(t) \/ Swap(t) \/ SwapFails(t)

Next ==
  \E t \in Threads :
    \/ \E mode \in {"shared", "exclusive", "upgrade"}, try \in BOOLEAN : Call(t, mode, try)
    \/ Step(t) \/ Unlock(t)

Spec == Init /\ [][Next]_vars

\* A thread in a call keeps running; an exchange that is possible again and again does not fail for
\* ever.  Nobody has to give a lock back.
FairSpec == Spec /\ \A t \in Threads : WF_vars(Step(t)) /\ SF_vars(Swap(t))
------------------------------------------------------------------------------
Modes == {"none", "shared", "exclusive"}

TypeOK ==
  /\ counter \in -1..Cardinality(Threads)
  /\ holds \in [Threads -> Modes]
  /\ want \in [Threads -> Modes \cup {"upgrade"}]
  /\ once \in [Threads -> BOOLEAN]
  /\ expected \in [Threads -> 0..Cardinality(Threads) \cup {Unread}]

Sharers == {t \in Threads : holds[t] = "shared"}
Writers == {t \in Threads : holds[t] = "exclusive"}

\* The counter says who has the lock, with stale loads and failed exchanges around.
CounterAgreement ==
  counter = IF Writers # {} THEN -1 ELSE Cardinality(Sharers)

Lock == INSTANCE RWLock

\* The threads have the lock only as a reader-writer lock lets them.
LockSpec == Lock!Spec

\* Everybody waits for everybody only if two sharers upgrade at once.
Blocked(t) ==
  /\ want[t] # "none" /\ ~once[t]
  /\ IF want[t] = "shared" THEN counter = -1 ELSE counter # Expect(want[t])

OnlyUpgradersBlock ==
  (\A t \in Threads : Blocked(t)) =>
    Cardinality({t \in Threads : want[t] = "upgrade"}) > 1

\* A waiting thread gets the lock once no other thread has it or is after it.
Idle(t) == holds[t] = "none" /\ want[t] = "none"
Waiting(t) == want[t] # "none" /\ ~once[t]

LoneWaiterServed ==
  \A t \in Threads :
    <>[](\A u \in Threads \ {t} : Idle(u)) => (Waiting(t) ~> ~Waiting(t))
==============================================================================
