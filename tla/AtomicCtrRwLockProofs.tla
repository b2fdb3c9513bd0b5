----------------------- MODULE AtomicCtrRwLockProofs -------------------------
(***************************************************************************)
(* Proofs about AtomicCtrRwLock for any number of threads.  The inductive  *)
(* invariant adds to the counter's meaning that a writer is alone and that *)
(* a call is only made in the mode it fits, with an expectation its        *)
(* exchange can be held to.                                                *)
(***************************************************************************)
EXTENDS AtomicCtrRwLock, FiniteSetTheorems, TLAPS

\* A writer is alone.
WriterAlone ==
  \A t, u \in Threads : holds[t] = "exclusive" /\ u # t => holds[u] = "none"

\* What a thread in a call holds, and what its exchange expects.
CallsFit ==
  \A t \in Threads :
    /\ want[t] = "upgrade" <=> want[t] # "none" /\ holds[t] # "none"
    /\ want[t] = "upgrade" => holds[t] = "shared" /\ expected[t] = 1
    /\ want[t] = "exclusive" => expected[t] = 0
    /\ want[t] = "none" => expected[t] = Unread

IInv == TypeOK /\ CounterAgreement /\ WriterAlone /\ CallsFit
------------------------------------------------------------------------------
\* The holders are finitely many, and the counter is as wide as their number.
LEMMA Holders ==
  ASSUME TypeOK
  PROVE /\ IsFiniteSet(Sharers) /\ Sharers \subseteq Threads
        /\ Cardinality(Sharers) \in Nat /\ Cardinality(Sharers) <= Cardinality(Threads)
        /\ Cardinality(Threads) \in Nat
<1>1. Sharers \subseteq Threads
  BY DEF Sharers
<1> QED BY <1>1, UnreadAssumption, FS_Subset, FS_CardinalityType

\* A counter of -1 means a writer; any other counts the sharers, who are then all there are.
LEMMA CounterMeans ==
  ASSUME TypeOK, CounterAgreement
  PROVE /\ counter = -1 <=> Writers # {}
        /\ counter # -1 => Writers = {} /\ counter = Cardinality(Sharers)
BY Holders DEF CounterAgreement

\* The counter is in the range of its type whenever it means what it should.
LEMMA CounterInRange ==
  ASSUME Sharers \subseteq Threads, CounterAgreement
  PROVE counter \in -1..Cardinality(Threads)
<1>1. /\ Cardinality(Sharers) \in Nat /\ Cardinality(Sharers) <= Cardinality(Threads)
      /\ Cardinality(Threads) \in Nat
  BY UnreadAssumption, FS_Subset, FS_CardinalityType
<1> QED BY <1>1 DEF CounterAgreement
------------------------------------------------------------------------------
LEMMA InitHolds == Init => IInv
<1> SUFFICES ASSUME Init PROVE IInv
  OBVIOUS
<1>1. Cardinality(Threads) \in Nat
  BY UnreadAssumption, FS_CardinalityType
<1>2. TypeOK
  BY <1>1 DEF Init, TypeOK, Modes
<1>3. Sharers = {} /\ Writers = {}
  BY DEF Init, Sharers, Writers
<1>4. CounterAgreement
  BY <1>3, FS_EmptySet DEF Init, CounterAgreement
<1>5. WriterAlone /\ CallsFit
  BY DEF Init, WriterAlone, CallsFit
<1> QED BY <1>2, <1>4, <1>5 DEF IInv

\* A step that changes neither the counter nor who holds the lock.
LEMMA SameHolders ==
  ASSUME IInv, UNCHANGED <<counter, holds>>
  PROVE CounterAgreement' /\ WriterAlone'
BY DEF IInv, CounterAgreement, WriterAlone, Sharers, Writers

LEMMA CallKeeps ==
  ASSUME IInv, NEW t \in Threads, NEW mode \in {"shared", "exclusive", "upgrade"},
         NEW try \in BOOLEAN, Call(t, mode, try)
  PROVE IInv'
<1> USE DEF Call
<1>1. Cardinality(Threads) \in Nat /\ Cardinality(Threads) >= 1
  <2>1. Cardinality(Threads) # 0
    BY UnreadAssumption, FS_EmptySet
  <2> QED BY <2>1, UnreadAssumption, FS_CardinalityType
<1>2. Expect(mode) \in 0..Cardinality(Threads) \cup {Unread}
  BY <1>1 DEF Expect
<1>3. TypeOK'
  BY <1>2 DEF IInv, TypeOK, Modes
<1>4. CallsFit'
  BY DEF IInv, TypeOK, CallsFit, Expect
<1> QED BY <1>3, <1>4, SameHolders DEF IInv

LEMMA LoadKeeps == ASSUME IInv, NEW t \in Threads, Load(t) PROVE IInv'
<1> USE DEF Load, Return
<1>1. TypeOK'
  <2>1. counter = -1 \/ counter \in 0..Cardinality(Threads)
    <3>1. TypeOK
      BY DEF IInv
    <3> HIDE DEF Load, Return
    <3> QED BY <3>1, Holders DEF TypeOK
  <2>2. expected' \in [Threads -> 0..Cardinality(Threads) \cup {Unread}]
    BY <2>1 DEF IInv, TypeOK
  <2> QED BY <2>2 DEF IInv, TypeOK, Modes
<1>2. CallsFit'
  BY DEF IInv, TypeOK, CallsFit
<1> QED BY <1>1, <1>2, SameHolders DEF IInv

LEMMA SwapFailsKeeps == ASSUME IInv, NEW t \in Threads, SwapFails(t) PROVE IInv'
<1> USE DEF SwapFails, Return
<1>1. want[t] \in {"shared", "exclusive", "upgrade"}
  BY DEF IInv, TypeOK, Modes
<1>2. Expect(want[t]) = expected[t] \/ Expect(want[t]) = Unread
  BY <1>1 DEF IInv, CallsFit, Expect
<1>3. TypeOK'
  BY <1>2 DEF IInv, TypeOK, Modes
<1>4. CallsFit'
  BY <1>1 DEF IInv, TypeOK, CallsFit, Expect
<1> QED BY <1>3, <1>4, SameHolders DEF IInv
------------------------------------------------------------------------------
\* Who may be there when an exchange succeeds: a sharer comes to sharers, a writer to nobody.
LEMMA SwapAlone ==
  ASSUME IInv, NEW t \in Threads, Swap(t)
  PROVE /\ Writers = {} /\ counter = Cardinality(Sharers)
        /\ want[t] = "shared" => holds[t] = "none"
        /\ want[t] # "shared" => \A u \in Threads \ {t} : holds[u] = "none"
<1>1. want[t] \in {"shared", "exclusive", "upgrade"} /\ counter \in Nat
  BY UnreadAssumption DEF IInv, TypeOK, Modes, Swap
<1>2. Writers = {} /\ counter = Cardinality(Sharers)
  BY <1>1, CounterMeans DEF IInv
<1>3. want[t] = "shared" => holds[t] = "none"
  BY DEF IInv, CallsFit, Swap
<1>4. ASSUME NEW u \in Threads \ {t}, want[t] # "shared" PROVE holds[u] = "none"
  <2>1. holds[u] # "exclusive" /\ holds[u] \in Modes
    BY <1>2 DEF IInv, TypeOK, Writers
  <2>2. CASE want[t] = "exclusive"
    <3>1. Cardinality(Sharers) = 0
      BY <1>2, <2>2 DEF IInv, CallsFit, Swap
    <3>2. Sharers = {}
      BY <3>1, Holders, FS_EmptySet DEF IInv
    <3> QED BY <2>1, <3>2 DEF Sharers, Modes
  <2>3. CASE want[t] = "upgrade"
    <3>1. Cardinality(Sharers) = 1 /\ t \in Sharers
      BY <1>2, <2>3 DEF IInv, CallsFit, Swap, Sharers
    <3>2. Sharers = {t}
      BY <3>1, Holders, FS_Singleton DEF IInv
    <3> QED BY <2>1, <3>2 DEF Sharers, Modes
  <2> QED BY <1>1, <1>4, <2>2, <2>3
<1> QED BY <1>2, <1>3, <1>4

LEMMA SwapKeeps == ASSUME IInv, NEW t \in Threads, Swap(t) PROVE IInv'
<1> USE DEF Swap, Return
<1>1. want[t] \in {"shared", "exclusive", "upgrade"} /\ holds \in [Threads -> Modes]
  BY DEF IInv, TypeOK, Modes
<1>2. CounterAgreement'
  <2>1. CASE want[t] = "shared"
    <3>1. Sharers' = Sharers \cup {t} /\ Writers' = Writers /\ t \notin Sharers
      BY <1>1, <2>1, SwapAlone DEF Sharers, Writers, Modes
    <3>2. Cardinality(Sharers') = Cardinality(Sharers) + 1
      BY <3>1, Holders, FS_AddElement DEF IInv
    <3> QED BY <2>1, <3>1, <3>2, SwapAlone DEF CounterAgreement
  <2>2. CASE want[t] # "shared"
    <3>1. t \in Writers'
      BY <1>1, <2>2 DEF Writers
    <3> QED BY <2>2, <3>1 DEF CounterAgreement
  <2> QED BY <2>1, <2>2
<1>3. TypeOK'
  <2>1. Sharers' \subseteq Threads
    BY DEF Sharers
  <2>2. counter' \in -1..Cardinality(Threads)
    BY <1>2, <2>1, CounterInRange, UnreadAssumption, FS_Subset, FS_CardinalityType
       DEF CounterAgreement
  <2> QED BY <2>2 DEF IInv, TypeOK, Modes
<1>4. WriterAlone'
  BY <1>1, SwapAlone DEF WriterAlone, Writers, Modes
<1>5. CallsFit'
  BY DEF IInv, TypeOK, CallsFit
<1> QED BY <1>2, <1>3, <1>4, <1>5 DEF IInv

LEMMA UnlockKeeps == ASSUME IInv, NEW t \in Threads, Unlock(t) PROVE IInv'
<1> USE DEF Unlock
<1>1. holds \in [Threads -> Modes] /\ holds[t] \in {"shared", "exclusive"}
  BY DEF IInv, TypeOK, Modes
<1>2. CounterAgreement'
  <2>1. CASE holds[t] = "shared"
    <3>1. Sharers' = Sharers \ {t} /\ t \in Sharers
      BY <1>1, <2>1 DEF Sharers
    <3>2. Writers = {} /\ Writers' = {}
      BY <1>1, <2>1 DEF IInv, WriterAlone, Writers
    <3>3. Cardinality(Sharers') = Cardinality(Sharers) - 1
      BY <3>1, Holders, FS_RemoveElement DEF IInv
    <3> QED BY <2>1, <3>2, <3>3 DEF IInv, CounterAgreement
  <2>2. CASE holds[t] = "exclusive"
    <3>1. Sharers' = {} /\ Writers' = {}
      BY <1>1, <2>2 DEF IInv, WriterAlone, Sharers, Writers
    <3> QED BY <2>2, <3>1, FS_EmptySet DEF CounterAgreement
  <2> QED BY <1>1, <2>1, <2>2
<1>3. TypeOK'
  <2>1. Sharers' \subseteq Threads
    BY DEF Sharers
  <2>2. counter' \in -1..Cardinality(Threads)
    BY <1>2, <2>1, UnreadAssumption, FS_Subset, FS_CardinalityType DEF CounterAgreement
  <2> QED BY <2>2 DEF IInv, TypeOK, Modes
<1>4. WriterAlone' /\ CallsFit'
  BY <1>1 DEF IInv, WriterAlone, CallsFit
<1> QED BY <1>2, <1>3, <1>4 DEF IInv

LEMMA StepHolds == IInv /\ [Next]_vars => IInv'
<1> SUFFICES ASSUME IInv, [Next]_vars PROVE IInv'
  OBVIOUS
<1>1. CASE UNCHANGED vars
  BY <1>1 DEF vars, IInv, TypeOK, CounterAgreement, WriterAlone, CallsFit, Sharers, Writers
<1>2. ASSUME NEW t \in Threads, NEW mode \in {"shared", "exclusive", "upgrade"},
             NEW try \in BOOLEAN, Call(t, mode, try)
      PROVE IInv'
  BY <1>2, CallKeeps
<1>3. ASSUME NEW t \in Threads, Step(t) \/ Unlock(t) PROVE IInv'
  BY <1>3, LoadKeeps, SwapKeeps, SwapFailsKeeps, UnlockKeeps DEF Step
<1> QED BY <1>1, <1>2, <1>3 DEF Next

LEMMA Inductive == Spec => []IInv
BY InitHolds, StepHolds, PTL DEF Spec
------------------------------------------------------------------------------
\* Types: the counter never leaves -1..number of threads.
THEOREM LockTypes == Spec => []TypeOK
<1>1. IInv => TypeOK
  BY DEF IInv
<1> QED BY Inductive, <1>1, PTL

\* The atomic counter of the lock says who has it, with stale loads and failed exchanges around.
THEOREM CounterIsRight == Spec => []CounterAgreement
<1>1. IInv => CounterAgreement
  BY DEF IInv
<1> QED BY Inductive, <1>1, PTL

\* When all wait for each other, two sharers are upgrading: no other use of the lock deadlocks.
THEOREM OnlyUpgradesDeadlock == Spec => []OnlyUpgradersBlock
<1> DEFINE Upgraders == {t \in Threads : want[t] = "upgrade"}
<1>1. IInv => OnlyUpgradersBlock
  <2> SUFFICES ASSUME IInv, \A t \in Threads : Blocked(t)
               PROVE Cardinality(Upgraders) > 1
    BY DEF OnlyUpgradersBlock
  <2>1. \A t \in Threads : want[t] \in {"shared", "exclusive", "upgrade"}
    BY DEF IInv, TypeOK, Modes, Blocked
  <2>2. Sharers = Upgraders /\ Writers = {}
    BY <2>1 DEF IInv, CallsFit, Sharers, Writers
  <2>3. counter = Cardinality(Upgraders) /\ Cardinality(Upgraders) \in Nat
    BY <2>2, Holders DEF IInv, CounterAgreement
  <2>4. PICK t \in Threads : TRUE
    BY UnreadAssumption
  <2>5. Cardinality(Upgraders) # 0
    <3> SUFFICES ASSUME Cardinality(Upgraders) = 0 PROVE FALSE
      OBVIOUS
    <3>1. Upgraders = {}
      BY <2>2, Holders, FS_EmptySet DEF IInv
    <3>2. want[t] \in {"shared", "exclusive"}
      BY <2>1, <3>1
    <3> QED BY <2>3, <3>2 DEF Blocked, Expect
  <2>6. Cardinality(Upgraders) # 1
    <3> SUFFICES ASSUME Cardinality(Upgraders) = 1 PROVE FALSE
      OBVIOUS
    <3>1. PICK u \in Threads : want[u] = "upgrade"
      BY <2>5, FS_EmptySet
    <3> QED BY <2>3, <3>1 DEF Blocked, Expect
  <2> HIDE DEF Upgraders
  <2> QED BY <2>3, <2>5, <2>6
<1> QED BY Inductive, <1>1, PTL

\* The code of the lock lets the threads have it only as a reader-writer lock does: sharers
\* together, a writer alone, an upgrade when the share is the only one.
THEOREM LockImplements == Spec => LockSpec
<1>1. Init => Lock!Init
  BY DEF Init, Lock!Init
<1>2. IInv /\ [Next]_vars => [Lock!Next]_holds
  <2> SUFFICES ASSUME IInv, [Next]_vars, holds' # holds PROVE Lock!Next
    OBVIOUS
  <2>1. PICK t \in Threads : Swap(t) \/ Unlock(t)
    BY DEF Next, vars, Step, Call, Load, SwapFails
  <2>2. CASE Unlock(t)
    BY <2>2 DEF Unlock, Lock!Next, Lock!Release
  <2>3. CASE Swap(t) /\ want[t] = "shared"
    <3>1. holds[t] = "none" /\ \A u \in Threads \ {t} : holds[u] \in {"none", "shared"}
      BY <2>3, SwapAlone DEF IInv, TypeOK, Modes, Writers
    <3>2. holds' = [holds EXCEPT ![t] = "shared"]
      BY <2>3 DEF Swap
    <3> QED BY <3>1, <3>2 DEF Lock!Next, Lock!Share, Lock!Others
  <2>4. CASE Swap(t) /\ want[t] # "shared"
    <3>1. holds[t] # "exclusive" /\ \A u \in Threads \ {t} : holds[u] \in {"none"}
      BY <2>4, SwapAlone DEF Writers
    <3>2. holds' = [holds EXCEPT ![t] = "exclusive"]
      BY <2>4 DEF Swap
    <3> QED BY <3>1, <3>2 DEF Lock!Next, Lock!Exclude, Lock!Others
  <2> QED BY <2>1, <2>2, <2>3, <2>4
<1> QED BY Inductive, <1>1, <1>2, PTL DEF Spec, LockSpec, Lock!Spec
==============================================================================
