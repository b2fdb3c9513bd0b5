-------------------------- MODULE TxnRuntimeProofs ---------------------------
(***************************************************************************)
(* The invariants of TxnRuntime and its refinement of AtomicStore, for any *)
(* number of threads, records and attributes and any log bound.            *)
(***************************************************************************)
EXTENDS TxnRuntime, FiniteSetTheorems, SequenceTheorems, TLAPS

CLive(r) == \A a \in Attributes : committed[<<r, a>>] # Absent

\* What each phase of the retry loop leaves behind.
PhaseInv ==
  \A t \in Threads :
    /\ pc[t] \in {"idle", "retry"} => Held(t) = {}
    /\ pc[t] \notin {"run", "upgrade", "rollback"} => log[t] = <<>>
    /\ ~InProgress(t) => known[t] = {} /\ reads[t] = {}
    /\ pc[t] = "upgrade" => upgrading[t] \in Records \ Held(t) /\ CLive(upgrading[t])

\* Locks are held only on committed records, and references lead to those or to own insertions.
ReferenceInv ==
  \A t \in Threads :
    /\ \A r \in Held(t) : CLive(r)
    /\ \A r \in known[t] : CLive(r) \/ r \in Nascent(t)

\* An undo log covers records the attempt owns; an inserted one is nobody else's, is not
\* committed, and its insertion is the oldest entry about it.
InsertOldest(l) ==
  \A i, j \in DOMAIN l : i < j /\ l[i].type = "INSERT" => l[j].record # l[i].record

RecordsIn(l) == {l[i].record : i \in DOMAIN l}

SavesValues(l) == \A i \in DOMAIN l : l[i].type = "UPDATE" => l[i].prev_value # Absent

LogInv ==
  \A t \in Threads :
    /\ InsertOldest(log[t])
    /\ SavesValues(log[t])
    /\ RecordsIn(log[t]) \subseteq exclusive_locks[t] \cup Nascent(t)
    /\ \A r \in Nascent(t) :
         /\ \A a \in Attributes : committed[<<r, a>>] = Absent
         /\ \A u \in Threads \ {t} : r \notin Nascent(u)

\* What an attempt has written is there, and refers to nothing but what its commit leaves in place.
MemoryInv ==
  \A t \in Threads : \A c \in Cells : Written(t, c) =>
    /\ mem[c] # Absent
    /\ InProgress(t) /\ mem[c] \in Records => CLive(mem[c]) \/ mem[c] \in Nascent(t)

ReadInv ==
  \A t \in Threads : \A o \in reads[t] : o.cell[1] \in Held(t) /\ committed[o.cell] = o.value

ClosedInv ==
  /\ \A r \in Roots : CLive(r)
  /\ \A c \in Cells : committed[c] \in Records => CLive(committed[c])

IInv ==
  /\ TypeOK
  /\ LockAgreement
  /\ UndoRestores
  /\ PhaseInv
  /\ ReferenceInv
  /\ LogInv
  /\ MemoryInv
  /\ ReadInv
  /\ ClosedInv
------------------------------------------------------------------------------
(* Undo logs: what pushing an entry and popping the newest one do. *)

LEMMA LogItemFacts ==
  ASSUME NEW e \in LogItem
  PROVE  /\ e.record \in Records
         /\ e.type \in {"INSERT", "UPDATE"}
         /\ e.type = "UPDATE" => e.attribute_index \in Attributes
                                 /\ e.prev_value \in Values \cup {Absent}
         /\ Before(e) \in Values \cup {Absent}
  BY DEF LogItem, InsertLog, UpdateLog, Before

LEMMA PushShape ==
  ASSUME NEW l \in Seq(LogItem), NEW e \in LogItem
  PROVE  /\ <<e>> \o l \in Seq(LogItem)
         /\ DOMAIN (<<e>> \o l) = 1 .. Len(l) + 1
         /\ (<<e>> \o l)[1] = e
         /\ \A i \in DOMAIN l : i + 1 \in DOMAIN (<<e>> \o l) /\ (<<e>> \o l)[i + 1] = l[i]
         /\ \A i \in DOMAIN (<<e>> \o l) :
              i = 1 \/ (i - 1 \in DOMAIN l /\ (<<e>> \o l)[i] = l[i - 1])
  OBVIOUS

LEMMA PopShape ==
  ASSUME NEW l \in Seq(LogItem), l # <<>>
  PROVE  /\ Head(l) = l[1]
         /\ 1 \in DOMAIN l
         /\ l[1] \in LogItem
         /\ Tail(l) \in Seq(LogItem)
         /\ \A i \in DOMAIN Tail(l) : i + 1 \in DOMAIN l /\ Tail(l)[i] = l[i + 1]
         /\ \A i \in DOMAIN l : i = 1 \/ (i - 1 \in DOMAIN Tail(l) /\ Tail(l)[i - 1] = l[i])
  OBVIOUS

LEMMA DomainShape ==
  ASSUME NEW l \in Seq(LogItem)
  PROVE  /\ DOMAIN l \subseteq Nat
         /\ \A i \in DOMAIN l : i >= 1 /\ l[i] \in LogItem
  OBVIOUS

LEMMA PushLog ==
  ASSUME NEW l \in Seq(LogItem), NEW e \in LogItem
  PROVE  /\ \A c : WrittenIn(<<e>> \o l, c) <=> Covers(e, c) \/ WrittenIn(l, c)
         /\ NascentIn(<<e>> \o l) =
              NascentIn(l) \cup (IF e.type = "INSERT" THEN {e.record} ELSE {})
  <1> DEFINE m == <<e>> \o l
  <1>1. 1 \in DOMAIN m /\ m[1] = e
    BY PushShape
  <1>2. \A i \in DOMAIN l : i + 1 \in DOMAIN m /\ m[i + 1] = l[i]
    BY PushShape
  <1>3. \A i \in DOMAIN m : i = 1 \/ (i - 1 \in DOMAIN l /\ m[i] = l[i - 1])
    BY PushShape
  <1>4. e.record \in Records
    BY LogItemFacts
  <1> HIDE DEF m
  <1>5. ASSUME NEW c
        PROVE  WrittenIn(m, c) <=> Covers(e, c) \/ WrittenIn(l, c)
    <2>1. Covers(e, c) \/ WrittenIn(l, c) => WrittenIn(m, c)
      BY <1>1, <1>2 DEF WrittenIn
    <2>2. WrittenIn(m, c) => Covers(e, c) \/ WrittenIn(l, c)
      BY <1>1, <1>3 DEF WrittenIn
    <2>3. QED
      BY <2>1, <2>2
  <1>6. ASSUME NEW r \in Records
        PROVE  r \in NascentIn(m) <=> r \in NascentIn(l) \/ (e.type = "INSERT" /\ r = e.record)
    <2>1. r \in NascentIn(l) \/ (e.type = "INSERT" /\ r = e.record) => r \in NascentIn(m)
      BY <1>1, <1>2 DEF NascentIn
    <2>2. r \in NascentIn(m) => r \in NascentIn(l) \/ (e.type = "INSERT" /\ r = e.record)
      BY <1>1, <1>3 DEF NascentIn
    <2>3. QED
      BY <2>1, <2>2
  <1>7. NascentIn(m) \subseteq Records /\ NascentIn(l) \subseteq Records
    BY DEF NascentIn
  <1>8. NascentIn(m) = NascentIn(l) \cup (IF e.type = "INSERT" THEN {e.record} ELSE {})
    BY <1>4, <1>6, <1>7
  <1>9. QED
    BY <1>5, <1>8 DEF m

LEMMA PopLog ==
  ASSUME NEW l \in Seq(LogItem), l # <<>>
  PROVE  /\ \A c : WrittenIn(l, c) <=> Covers(Head(l), c) \/ WrittenIn(Tail(l), c)
         /\ NascentIn(l) =
              NascentIn(Tail(l)) \cup (IF Head(l).type = "INSERT" THEN {Head(l).record} ELSE {})
  <1>1. l = <<Head(l)>> \o Tail(l) /\ Head(l) \in LogItem /\ Tail(l) \in Seq(LogItem)
    OBVIOUS
  <1>2. QED
    BY <1>1, PushLog

\* An entry in front is the oldest about a cell only if the log was silent about the cell.
LEMMA PushSaves ==
  ASSUME NEW l \in Seq(LogItem), NEW e \in LogItem, NEW f, OldestSaves(l, f),
         \A c \in Cells : Covers(e, c) /\ ~WrittenIn(l, c) => Before(e) = f[c]
  PROVE  OldestSaves(<<e>> \o l, f)
  <1> DEFINE m == <<e>> \o l
  <1> SUFFICES ASSUME NEW i \in DOMAIN m, NEW c \in Cells, Covers(m[i], c),
                      \A j \in DOMAIN m : j > i => ~Covers(m[j], c)
               PROVE  Before(m[i]) = f[c]
    BY DEF OldestSaves
  <1>1. CASE i = 1
    <2>1. \A j \in DOMAIN l : j + 1 \in DOMAIN m /\ j + 1 > i /\ m[j + 1] = l[j]
      BY <1>1, PushShape, DomainShape
    <2>2. ~WrittenIn(l, c)
      BY <2>1 DEF WrittenIn
    <2>3. QED
      BY <1>1, <2>2, PushShape
  <1>2. CASE i # 1
    <2>1. i - 1 \in DOMAIN l /\ m[i] = l[i - 1]
      BY <1>2, PushShape
    <2>2. \A j \in DOMAIN l : j > i - 1 => j + 1 \in DOMAIN m /\ j + 1 > i /\ m[j + 1] = l[j]
      BY PushShape, DomainShape, <2>1
    <2>3. QED
      BY <2>1, <2>2 DEF OldestSaves
  <1>3. QED
    BY <1>1, <1>2

LEMMA PopSaves ==
  ASSUME NEW l \in Seq(LogItem), l # <<>>, NEW f, OldestSaves(l, f)
  PROVE  /\ OldestSaves(Tail(l), f)
         /\ \A c \in Cells : Covers(Head(l), c) /\ ~WrittenIn(Tail(l), c) => Before(Head(l)) = f[c]
  <1> DEFINE m == Tail(l)
  <1>1. ASSUME NEW i \in DOMAIN m, NEW c \in Cells, Covers(m[i], c),
               \A j \in DOMAIN m : j > i => ~Covers(m[j], c)
        PROVE  Before(m[i]) = f[c]
    <2>1. m \in Seq(LogItem)
      BY PopShape
    <2>2. i + 1 \in DOMAIN l /\ m[i] = l[i + 1]
      BY PopShape
    <2>3. ASSUME NEW j \in DOMAIN l, j > i + 1
          PROVE  ~Covers(l[j], c)
      <3>1. j # 1 /\ j - 1 > i
        BY <2>1, <2>3, DomainShape
      <3>2. j - 1 \in DOMAIN m /\ m[j - 1] = l[j]
        BY <3>1, PopShape
      <3>3. QED
        BY <3>1, <3>2, <1>1
    <2>4. QED
      BY <1>1, <2>2, <2>3 DEF OldestSaves
  <1>2. ASSUME NEW c \in Cells, Covers(Head(l), c), ~WrittenIn(m, c)
        PROVE  Before(Head(l)) = f[c]
    <2>1. ASSUME NEW j \in DOMAIN l, j > 1
          PROVE  ~Covers(l[j], c)
      <3>1. j # 1
        BY <2>1
      <3>2. j - 1 \in DOMAIN m /\ m[j - 1] = l[j]
        BY <3>1, PopShape
      <3>3. QED
        BY <3>2, <1>2 DEF WrittenIn
    <2>2. QED
      BY <1>2, <2>1, PopShape DEF OldestSaves
  <1>3. QED
    BY <1>1, <1>2 DEF OldestSaves

LEMMA PushOrder ==
  ASSUME NEW l \in Seq(LogItem), NEW e \in LogItem, InsertOldest(l),
         e.type = "INSERT" => \A i \in DOMAIN l : l[i].record # e.record
  PROVE  InsertOldest(<<e>> \o l)
  <1> DEFINE m == <<e>> \o l
  <1> SUFFICES ASSUME NEW i \in DOMAIN m, NEW j \in DOMAIN m, i < j, m[i].type = "INSERT"
               PROVE  m[j].record # m[i].record
    BY DEF InsertOldest
  <1>1. j # 1 /\ i \in Nat /\ j \in Nat
    BY PushShape, DomainShape
  <1>2. j - 1 \in DOMAIN l /\ m[j] = l[j - 1]
    BY <1>1, PushShape
  <1>3. CASE i = 1
    BY <1>2, <1>3, PushShape
  <1>4. CASE i # 1
    <2>1. i - 1 \in DOMAIN l /\ m[i] = l[i - 1]
      BY <1>4, PushShape
    <2>2. QED
      BY <1>1, <1>2, <2>1 DEF InsertOldest
  <1>5. QED
    BY <1>3, <1>4

LEMMA PopOrder ==
  ASSUME NEW l \in Seq(LogItem), l # <<>>, InsertOldest(l)
  PROVE  /\ InsertOldest(Tail(l))
         /\ Head(l).type = "INSERT" =>
              \A i \in DOMAIN Tail(l) : Tail(l)[i].record # Head(l).record
  <1>1. Tail(l) \in Seq(LogItem)
    BY PopShape
  <1>2. \A i \in DOMAIN Tail(l) : i \in Nat /\ i >= 1
    BY <1>1, DomainShape
  <1>3. \A i \in DOMAIN Tail(l) : i + 1 \in DOMAIN l /\ Tail(l)[i] = l[i + 1]
    BY PopShape
  <1>4. InsertOldest(Tail(l))
    BY <1>2, <1>3 DEF InsertOldest
  <1>5. QED
    BY <1>2, <1>3, <1>4, PopShape DEF InsertOldest

LEMMA PushPopValues ==
  ASSUME NEW l \in Seq(LogItem), SavesValues(l)
  PROVE  /\ \A e \in LogItem : (e.type = "UPDATE" => e.prev_value # Absent) => SavesValues(<<e>> \o l)
         /\ l # <<>> => SavesValues(Tail(l))
  BY PushShape, PopShape DEF SavesValues

LEMMA RecordsOfLog ==
  ASSUME NEW l \in Seq(LogItem)
  PROVE  /\ \A e \in LogItem : RecordsIn(<<e>> \o l) = RecordsIn(l) \cup {e.record}
         /\ l # <<>> => RecordsIn(l) = RecordsIn(Tail(l)) \cup {Head(l).record}
         /\ \A c : WrittenIn(l, c) => c[1] \in RecordsIn(l)
         /\ NascentIn(l) \subseteq RecordsIn(l)
  <1>1. ASSUME NEW k \in Seq(LogItem), NEW e \in LogItem
        PROVE  RecordsIn(<<e>> \o k) = RecordsIn(k) \cup {e.record}
    <2> DEFINE m == <<e>> \o k
    <2>1. 1 \in DOMAIN m /\ m[1] = e
      BY PushShape
    <2>2. \A i \in DOMAIN k : i + 1 \in DOMAIN m /\ m[i + 1] = k[i]
      BY PushShape
    <2>3. \A i \in DOMAIN m : i = 1 \/ (i - 1 \in DOMAIN k /\ m[i] = k[i - 1])
      BY PushShape
    <2> HIDE DEF m
    <2>4. RecordsIn(m) \subseteq RecordsIn(k) \cup {e.record}
      BY <2>1, <2>3 DEF RecordsIn
    <2>5. RecordsIn(k) \cup {e.record} \subseteq RecordsIn(m)
      BY <2>1, <2>2 DEF RecordsIn
    <2>6. QED
      BY <2>4, <2>5 DEF m
  <1>2. ASSUME l # <<>>
        PROVE  RecordsIn(l) = RecordsIn(Tail(l)) \cup {Head(l).record}
    <2>1. l = <<Head(l)>> \o Tail(l) /\ Head(l) \in LogItem /\ Tail(l) \in Seq(LogItem)
      BY <1>2
    <2>2. QED
      BY <1>1, <2>1
  <1>3. QED
    BY <1>1, <1>2 DEF RecordsIn, WrittenIn, NascentIn, Covers

LEMMA EmptyLog ==
  /\ <<>> \in Seq(LogItem)
  /\ \A c : ~WrittenIn(<<>>, c)
  /\ NascentIn(<<>>) = {}
  /\ RecordsIn(<<>>) = {}
  /\ InsertOldest(<<>>) /\ SavesValues(<<>>)
  /\ \A f : OldestSaves(<<>>, f)
  BY DEF WrittenIn, NascentIn, RecordsIn, InsertOldest, SavesValues, OldestSaves

\* A record inserted in a log has all its cells covered.
LEMMA NascentWritten ==
  ASSUME NEW l \in Seq(LogItem), NEW r \in NascentIn(l), NEW a \in Attributes
  PROVE  WrittenIn(l, <<r, a>>)
  BY DEF NascentIn, WrittenIn, Covers

------------------------------------------------------------------------------
(* Type correctness. *)

LEMMA UndoType ==
  ASSUME TypeOK, NEW e \in LogItem
  PROVE  Undo(e) \in [Cells -> Values \cup {Absent}]
  BY LogItemFacts DEF TypeOK, Undo

LEMMA SharersFinite ==
  ASSUME TypeOK, LockAgreement, NEW r \in Records
  PROVE  /\ IsFiniteSet(Sharers(r))
         /\ readers[r] = Cardinality(Sharers(r))
         /\ \A t \in Threads : r \in shared_locks[t] => readers[r] - 1 \in Nat
         /\ readers[r] = 0 <=> Sharers(r) = {}
  <1>1. IsFiniteSet(Sharers(r))
    BY FS_Subset, ConstantsAssumption DEF Sharers
  <1>2. readers[r] = Cardinality(Sharers(r)) /\ readers[r] \in Nat
    BY DEF LockAgreement, TypeOK
  <1>3. readers[r] = 0 <=> Sharers(r) = {}
    BY <1>1, <1>2, FS_EmptySet
  <1>4. ASSUME NEW t \in Threads, r \in shared_locks[t]
        PROVE  readers[r] - 1 \in Nat
    BY <1>2, <1>3, <1>4 DEF Sharers
  <1>5. QED
    BY <1>1, <1>2, <1>3, <1>4

LEMMA TypeStep == TypeOK /\ LockAgreement /\ PhaseInv /\ [Next]_vars => TypeOK'
  <1> SUFFICES ASSUME TypeOK, LockAgreement, PhaseInv, [Next]_vars
               PROVE  TypeOK'
    OBVIOUS
  <1>1. CASE UNCHANGED vars
    BY <1>1 DEF TypeOK, vars, txnVars, lockVars, ghosts
  <1>2. ASSUME NEW t \in Threads, BeginTxn(t)
        PROVE  TypeOK'
    BY <1>2, ConstantsAssumption, EmptyLog
       DEF TypeOK, BeginTxn, Phases, lockVars, ghosts
  <1>3. ASSUME NEW t \in Threads, NEW r \in Records, LockShared(t, r)
        PROVE  TypeOK'
    <2>1. shared_locks' \in [Threads -> SUBSET Records]
      <3>1. shared_locks[t] \cup {r} \in SUBSET Records
        BY DEF TypeOK
      <3>2. QED
        BY <1>3, <3>1 DEF TypeOK, LockShared
    <2>2. readers' \in [Records -> Nat]
      BY <1>3 DEF TypeOK, LockShared
    <2>3. status' \in [Threads -> {"ACTIVE", "ABORTED"}]
      BY <1>3 DEF TypeOK, LockShared
    <2>4. QED
      BY <1>3, <2>1, <2>2, <2>3 DEF TypeOK, LockShared, ghosts
  <1>4. ASSUME NEW t \in Threads, NEW r \in Records, TryExclusive(t, r)
        PROVE  /\ exclusive_locks' \in [Threads -> SUBSET Records]
               /\ writer' \in [Records -> BOOLEAN]
               /\ status' \in [Threads -> {"ACTIVE", "ABORTED"}]
    <2>1. exclusive_locks' \in [Threads -> SUBSET Records]
      <3>1. exclusive_locks[t] \cup {r} \in SUBSET Records
        BY DEF TypeOK
      <3>2. QED
        BY <1>4, <3>1 DEF TypeOK, TryExclusive
    <2>2. writer' \in [Records -> BOOLEAN]
      BY <1>4 DEF TypeOK, TryExclusive
    <2>3. QED
      BY <1>4, <2>1, <2>2 DEF TypeOK, TryExclusive
  <1>5. ASSUME NEW t \in Threads, NEW r \in Records, LockExclusive(t, r)
        PROVE  TypeOK'
    <2>1. CASE UNCHANGED <<status, exclusive_locks, writer>>
      BY <1>5, <2>1 DEF TypeOK, LockExclusive, ghosts
    <2>2. CASE TryExclusive(t, r)
      BY <1>4, <1>5, <2>2 DEF TypeOK, LockExclusive, ghosts
    <2>3. QED
      BY <1>5, <2>1, <2>2 DEF LockExclusive
  <1>6. ASSUME NEW t \in Threads, NEW r \in Records, BeginUpgrade(t, r)
        PROVE  TypeOK'
    <2>1. shared_locks' \in [Threads -> SUBSET Records]
      <3>1. shared_locks[t] \ {r} \in SUBSET Records
        BY DEF TypeOK
      <3>2. QED
        BY <1>6, <3>1 DEF TypeOK, BeginUpgrade
    <2>2. readers' \in [Records -> Nat]
      BY <1>6, SharersFinite DEF TypeOK, BeginUpgrade
    <2>3. reads' \in [Threads -> SUBSET [cell : Cells, value : Values \cup {Absent}]]
      BY <1>6 DEF TypeOK, BeginUpgrade
    <2>4. QED
      BY <1>6, <2>1, <2>2, <2>3 DEF TypeOK, BeginUpgrade, Phases
  <1>7. ASSUME NEW t \in Threads, FinishUpgrade(t)
        PROVE  TypeOK'
    <2>1. upgrading[t] \in Records
      BY <1>7 DEF FinishUpgrade, PhaseInv
    <2>2. TryExclusive(t, upgrading[t])
      BY <1>7 DEF FinishUpgrade
    <2>3. QED
      BY <1>4, <1>7, <2>1, <2>2 DEF TypeOK, FinishUpgrade, ghosts, Phases
  <1>8. ASSUME NEW t \in Threads, NEW r \in Records, NEW a \in Attributes, Read(t, r, a)
        PROVE  TypeOK'
    <2>1. <<r, a>> \in Cells /\ mem[<<r, a>>] \in Values \cup {Absent}
      BY DEF TypeOK, Cells
    <2>2. known' \in [Threads -> SUBSET Records]
      <3>1. known[t] \cup ({mem[<<r, a>>]} \cap Records) \in SUBSET Records
        BY DEF TypeOK
      <3>2. QED
        BY <1>8, <3>1 DEF TypeOK, Read
    <2>3. reads' \in [Threads -> SUBSET [cell : Cells, value : Values \cup {Absent}]]
      <3> DEFINE Observations == [cell : Cells, value : Values \cup {Absent}]
      <3> DEFINE o == [cell |-> <<r, a>>, value |-> mem[<<r, a>>]]
      <3>1. reads[t] \cup {o} \in SUBSET Observations
        <4>1. o \in Observations
          BY <2>1
        <4>2. reads[t] \in SUBSET Observations
          BY DEF TypeOK
        <4> HIDE DEF o, Observations
        <4>3. QED
          BY <4>1, <4>2
      <3>2. reads' = reads \/ reads' = [reads EXCEPT ![t] =
                reads[t] \cup {[cell |-> <<r, a>>, value |-> mem[<<r, a>>]]}]
        BY <1>8 DEF Read
      <3>3. QED
        BY <3>1, <3>2 DEF TypeOK
    <2>4. QED
      BY <1>8, <2>2, <2>3 DEF TypeOK, Read, txnVars, lockVars
  <1>9. ASSUME NEW t \in Threads, NEW e \in LogItem,
               log' = [log EXCEPT ![t] = <<e>> \o log[t]]
        PROVE  log' \in [Threads -> Seq(LogItem)]
    <2>1. <<e>> \o log[t] \in Seq(LogItem)
      BY DEF TypeOK
    <2>2. QED
      BY <1>9, <2>1 DEF TypeOK
  <1>10. ASSUME NEW t \in Threads, NEW r \in Records, NEW a \in Attributes,
                NEW v \in Storable(t), Write(t, r, a, v)
         PROVE  TypeOK'
    <2> DEFINE e == [type |-> "UPDATE", record |-> r, attribute_index |-> a, prev_value |-> mem[<<r, a>>]]
    <2>1. <<r, a>> \in Cells /\ mem[<<r, a>>] \in Values \cup {Absent}
      BY DEF TypeOK, Cells
    <2>2. e \in LogItem
      BY <2>1 DEF LogItem, UpdateLog
    <2>3. log' = [log EXCEPT ![t] = <<e>> \o log[t]]
      BY <1>10 DEF Write
    <2>4. log' \in [Threads -> Seq(LogItem)]
      BY <1>9, <2>2, <2>3
    <2>5. v \in Values
      BY ConstantsAssumption DEF TypeOK, Storable, Values
    <2>6. mem' \in [Cells -> Values \cup {Absent}]
      BY <1>10, <2>1, <2>5 DEF TypeOK, Write
    <2>7. QED
      BY <1>10, <2>4, <2>6 DEF TypeOK, Write, lockVars, ghosts
  <1>11. ASSUME NEW t \in Threads, NEW r \in Records, InsertRecord(t, r)
         PROVE  TypeOK'
    <2> DEFINE e == [type |-> "INSERT", record |-> r]
    <2>1. e \in LogItem
      BY DEF LogItem, InsertLog
    <2>2. log' = [log EXCEPT ![t] = <<e>> \o log[t]]
      BY <1>11 DEF InsertRecord
    <2>3. log' \in [Threads -> Seq(LogItem)]
      BY <1>9, <2>1, <2>2
    <2>4. mem' \in [Cells -> Values \cup {Absent}]
      BY <1>11, ConstantsAssumption DEF TypeOK, InsertRecord, Values
    <2>5. known' \in [Threads -> SUBSET Records]
      <3>1. known[t] \cup {r} \in SUBSET Records
        BY DEF TypeOK
      <3>2. QED
        BY <1>11, <3>1 DEF TypeOK, InsertRecord
    <2>6. writer' \in [Records -> BOOLEAN] /\ readers' \in [Records -> Nat]
      BY <1>11 DEF TypeOK, InsertRecord
    <2>7. QED
      BY <1>11, <2>3, <2>4, <2>5, <2>6 DEF TypeOK, InsertRecord, ghosts
  <1>12. ASSUME NEW t \in Threads, EndTxn(t)
         PROVE  TypeOK'
    <2>1. committed' \in [Cells -> Values \cup {Absent}]
      BY <1>12 DEF TypeOK, EndTxn
    <2>2. log' \in [Threads -> Seq(LogItem)]
      BY <1>12, EmptyLog DEF TypeOK, EndTxn
    <2>3. known' \in [Threads -> SUBSET Records]
      BY <1>12 DEF TypeOK, EndTxn
    <2>4. reads' \in [Threads -> SUBSET [cell : Cells, value : Values \cup {Absent}]]
      BY <1>12 DEF TypeOK, EndTxn
    <2>5. pc' \in [Threads -> Phases]
      BY <1>12 DEF TypeOK, EndTxn, Phases
    <2>6. QED
      BY <1>12, <2>1, <2>2, <2>3, <2>4, <2>5 DEF TypeOK, EndTxn, lockVars
  <1>13. ASSUME NEW t \in Threads, Rollback(t)
         PROVE  TypeOK'
    <2>1. CASE log[t] # <<>>
      <3>1. log[t] \in Seq(LogItem)
        BY DEF TypeOK
      <3>2. Head(log[t]) \in LogItem /\ Tail(log[t]) \in Seq(LogItem)
        BY <2>1, <3>1
      <3>3. mem' \in [Cells -> Values \cup {Absent}]
        BY <1>13, <2>1, <3>2, UndoType DEF Rollback
      <3>4. log' \in [Threads -> Seq(LogItem)]
        BY <1>13, <2>1, <3>2 DEF TypeOK, Rollback
      <3>5. QED
        BY <1>13, <2>1, <3>3, <3>4 DEF TypeOK, Rollback, lockVars, ghosts
    <2>2. CASE log[t] = <<>>
      BY <1>13, <2>2 DEF TypeOK, Rollback, lockVars, ghosts, Phases
    <2>3. QED
      BY <2>1, <2>2
  <1>14. ASSUME NEW t \in Threads, ReleaseLock(t)
         PROVE  TypeOK'
    <2>1. ASSUME NEW r \in exclusive_locks[t],
                 writer' = [writer EXCEPT ![r] = FALSE],
                 exclusive_locks' = [exclusive_locks EXCEPT ![t] = exclusive_locks[t] \ {r}],
                 UNCHANGED <<readers, shared_locks>>
          PROVE  TypeOK'
      <3>1. exclusive_locks[t] \ {r} \in SUBSET Records
        BY DEF TypeOK
      <3>2. exclusive_locks' \in [Threads -> SUBSET Records]
        BY <2>1, <3>1 DEF TypeOK
      <3>3. writer' \in [Records -> BOOLEAN]
        BY <2>1 DEF TypeOK
      <3>4. QED
        BY <1>14, <2>1, <3>2, <3>3 DEF TypeOK, ReleaseLock, ghosts
    <2>2. ASSUME NEW r \in shared_locks[t],
                 readers' = [readers EXCEPT ![r] = readers[r] - 1],
                 shared_locks' = [shared_locks EXCEPT ![t] = shared_locks[t] \ {r}],
                 UNCHANGED <<writer, exclusive_locks>>
          PROVE  TypeOK'
      <3>1. shared_locks[t] \ {r} \in SUBSET Records /\ r \in Records
        BY DEF TypeOK
      <3>2. shared_locks' \in [Threads -> SUBSET Records]
        BY <2>2, <3>1 DEF TypeOK
      <3>3. readers' \in [Records -> Nat]
        BY <2>2, <3>1, SharersFinite DEF TypeOK
      <3>4. QED
        BY <1>14, <2>2, <3>2, <3>3 DEF TypeOK, ReleaseLock, ghosts
    <2>3. QED
      BY <1>14, <2>1, <2>2 DEF ReleaseLock
  <1>15. ASSUME NEW t \in Threads, FreeTxn(t)
         PROVE  TypeOK'
    BY <1>15 DEF TypeOK, FreeTxn, Phases, txnVars, lockVars, ghosts
  <1>16. QED
    BY <1>1, <1>2, <1>3, <1>5, <1>6, <1>7, <1>8, <1>10, <1>11, <1>12, <1>13, <1>14, <1>15
       DEF Next, Operation, Finish

------------------------------------------------------------------------------
(* Consequences of the invariant in one state. *)

LEMMA CellShape ==
  /\ \A c \in Cells : c[1] \in Records /\ c[2] \in Attributes /\ c = <<c[1], c[2]>>
  /\ \A r \in Records, a \in Attributes : <<r, a>> \in Cells
  /\ \E a \in Attributes : TRUE
  BY ConstantsAssumption DEF Cells

\* What an attempt has written it owns, and nobody else holds, has inserted or has written it.
LEMMA Owner ==
  ASSUME IInv, NEW t \in Threads, NEW c \in Cells, Written(t, c)
  PROVE  /\ c[1] \in exclusive_locks[t] \cup Nascent(t)
         /\ \A u \in Threads \ {t} :
              c[1] \notin Held(u) /\ c[1] \notin Nascent(u) /\ ~Written(u, c)
  <1>1. log \in [Threads -> Seq(LogItem)]
    BY DEF IInv, TypeOK
  <1>2. ASSUME NEW u \in Threads, Written(u, c)
        PROVE  c[1] \in exclusive_locks[u] \cup Nascent(u)
    BY <1>1, <1>2, RecordsOfLog DEF IInv, LogInv, Written
  <1>3. ASSUME NEW u \in Threads \ {t}
        PROVE  c[1] \notin Held(u) /\ c[1] \notin Nascent(u)
    <2>1. CASE c[1] \in exclusive_locks[t]
      <3>1. c[1] \in Records /\ t \in Exclusive(c[1])
        BY <2>1, CellShape DEF Exclusive
      <3>2. Sharers(c[1]) = {} /\ Exclusive(c[1]) = {t}
        BY <3>1 DEF IInv, LockAgreement
      <3>3. c[1] \notin Held(u)
        BY <1>3, <3>2 DEF Exclusive, Sharers, Held
      <3>4. CLive(c[1])
        BY <2>1 DEF IInv, ReferenceInv, Held
      <3>5. c[1] \notin Nascent(u)
        BY <1>3, <3>4, CellShape DEF IInv, LogInv, CLive
      <3>6. QED
        BY <3>3, <3>5
    <2>2. CASE c[1] \in Nascent(t)
      <3>1. ~CLive(c[1])
        BY <2>2, CellShape DEF IInv, LogInv, CLive
      <3>2. c[1] \notin Held(u)
        BY <1>3, <3>1 DEF IInv, ReferenceInv
      <3>3. QED
        BY <1>3, <2>2, <3>2 DEF IInv, LogInv
    <2>3. QED
      BY <1>2, <2>1, <2>2
  <1>4. QED
    BY <1>2, <1>3 DEF Held

LEMMA CommittedInMemory ==
  ASSUME IInv, NEW c \in Cells, committed[c] # Absent
  PROVE  mem[c] # Absent
  BY DEF IInv, UndoRestores, MemoryInv

\* An attempt sees, in a record it holds and has not changed, what was committed.
LEMMA OwnView ==
  ASSUME IInv, NEW t \in Threads, NEW c \in Cells, c[1] \in Held(t), ~Written(t, c)
  PROVE  mem[c] = committed[c]
  <1>1. \A u \in Threads : ~Written(u, c)
    BY Owner
  <1>2. QED
    BY <1>1 DEF IInv, UndoRestores

\* Free memory is in nobody's hands.
LEMMA FreeRecord ==
  ASSUME IInv, NEW r \in Records, \A a \in Attributes : mem[<<r, a>>] = Absent
  PROVE  \A t \in Threads :
           /\ r \notin Held(t) /\ r \notin Nascent(t) /\ r \notin RecordsIn(log[t])
           /\ r \notin known[t] /\ \A c \in Cells : c[1] = r => ~Written(t, c)
           /\ \A a \in Attributes : committed[<<r, a>>] = Absent
  <1>1. \A a \in Attributes : committed[<<r, a>>] = Absent
    BY CommittedInMemory, CellShape
  <1>2. ~CLive(r)
    BY <1>1, CellShape DEF CLive
  <1>3. ASSUME NEW t \in Threads
        PROVE  r \notin Held(t) /\ r \notin Nascent(t)
    <2>1. r \notin Held(t)
      BY <1>2 DEF IInv, ReferenceInv
    <2>2. r \notin Nascent(t)
      <3>1. SUFFICES ASSUME r \in Nascent(t)
                     PROVE  FALSE
        OBVIOUS
      <3>2. PICK a \in Attributes : TRUE
        BY CellShape
      <3>3. log[t] \in Seq(LogItem)
        BY DEF IInv, TypeOK
      <3>4. Written(t, <<r, a>>)
        BY <3>1, <3>2, <3>3, NascentWritten DEF Nascent, Written
      <3>5. mem[<<r, a>>] # Absent
        BY <3>4, CellShape DEF IInv, MemoryInv
      <3>6. QED
        BY <3>5
    <2>3. QED
      BY <2>1, <2>2
  <1>4. ASSUME NEW t \in Threads
        PROVE  r \notin RecordsIn(log[t]) /\ r \notin known[t]
    BY <1>2, <1>3 DEF IInv, LogInv, ReferenceInv, Held
  <1>5. ASSUME NEW t \in Threads, NEW c \in Cells, c[1] = r, Written(t, c)
        PROVE  FALSE
    BY <1>3, <1>5, Owner DEF Held
  <1>6. QED
    BY <1>1, <1>3, <1>4, <1>5

------------------------------------------------------------------------------
(* What a step leaves alone. *)

Step(t) == BeginTxn(t) \/ Operation(t) \/ FinishUpgrade(t) \/ Finish(t)

\* A new attempt finds no lock and no log entry left over.
LEMMA FreshTxn ==
  ASSUME IInv, NEW t \in Threads, BeginTxn(t)
  PROVE  UNCHANGED <<exclusive_locks, shared_locks, log>>
  <1>1. exclusive_locks[t] = {} /\ shared_locks[t] = {} /\ log[t] = <<>>
    BY DEF IInv, PhaseInv, BeginTxn, Held
  <1>2. QED
    BY <1>1 DEF IInv, TypeOK, BeginTxn

LEMMA OthersKeep ==
  ASSUME TypeOK, NEW t \in Threads, Step(t), NEW u \in Threads \ {t}
  PROVE  /\ pc'[u] = pc[u] /\ log'[u] = log[u] /\ upgrading'[u] = upgrading[u]
         /\ exclusive_locks'[u] = exclusive_locks[u] /\ shared_locks'[u] = shared_locks[u]
         /\ known'[u] = known[u] /\ reads'[u] = reads[u]
  <1>1. /\ DOMAIN pc = Threads /\ DOMAIN log = Threads /\ DOMAIN upgrading = Threads
        /\ DOMAIN exclusive_locks = Threads /\ DOMAIN shared_locks = Threads
        /\ DOMAIN known = Threads /\ DOMAIN reads = Threads
    BY DEF TypeOK
  <1>2. CASE BeginTxn(t)
    BY <1>1, <1>2 DEF BeginTxn, ghosts
  <1>3. CASE \E r \in Records : LockShared(t, r) \/ LockExclusive(t, r) \/ BeginUpgrade(t, r)
    BY <1>1, <1>3 DEF LockShared, LockExclusive, TryExclusive, BeginUpgrade, ghosts
  <1>4. CASE \E r \in Records : InsertRecord(t, r) \/ \E a \in Attributes :
               Read(t, r, a) \/ \E v \in Storable(t) : Write(t, r, a, v)
    BY <1>1, <1>4 DEF InsertRecord, Read, Write, ghosts, txnVars
  <1>5. CASE FinishUpgrade(t)
    BY <1>1, <1>5 DEF FinishUpgrade, TryExclusive, ghosts
  <1>6. CASE Finish(t)
    BY <1>1, <1>6 DEF Finish, EndTxn, Rollback, ReleaseLock, FreeTxn, ghosts, txnVars
  <1>7. QED
    BY <1>2, <1>3, <1>4, <1>5, <1>6 DEF Step, Operation

\* Only the commit of an attempt changes the committed store, and only where the attempt wrote.
LEMMA CommittedKept ==
  ASSUME NEW t \in Threads, Step(t)
  PROVE  \/ committed' = committed
         \/ EndTxn(t) /\ status[t] = "ACTIVE"
  BY DEF Step, Operation, Finish, BeginTxn, LockShared, LockExclusive, BeginUpgrade, InsertRecord,
         Read, Write, FinishUpgrade, EndTxn, Rollback, ReleaseLock, FreeTxn, ghosts

LEMMA CommitLive ==
  ASSUME IInv, NEW t \in Threads, EndTxn(t), status[t] = "ACTIVE"
  PROVE  /\ committed' = [c \in Cells |-> IF Written(t, c) THEN mem[c] ELSE committed[c]]
         /\ \A r \in Records : CLive(r) \/ r \in Nascent(t) => CLive(r)'
  <1>1. committed' = [c \in Cells |-> IF Written(t, c) THEN mem[c] ELSE committed[c]]
    BY DEF EndTxn
  <1>2. ASSUME NEW r \in Records, NEW a \in Attributes, CLive(r) \/ r \in Nascent(t)
        PROVE  committed'[<<r, a>>] # Absent
    <2>1. <<r, a>> \in Cells
      BY CellShape
    <2>2. CASE Written(t, <<r, a>>)
      BY <1>1, <2>1, <2>2 DEF IInv, MemoryInv
    <2>3. CASE ~Written(t, <<r, a>>)
      <3>1. log[t] \in Seq(LogItem)
        BY DEF IInv, TypeOK
      <3>2. CLive(r)
        BY <1>2, <2>3, <3>1, NascentWritten DEF Nascent, Written
      <3>3. QED
        BY <1>1, <2>1, <2>3, <3>2 DEF CLive
    <2>4. QED
      BY <2>2, <2>3
  <1>3. QED
    BY <1>1, <1>2 DEF CLive

LEMMA LiveStep ==
  ASSUME IInv, [Next]_vars, NEW r \in Records, CLive(r)
  PROVE  CLive(r)'
  <1>1. CASE committed' = committed
    BY <1>1 DEF CLive
  <1>2. CASE committed' # committed
    <2>1. PICK t \in Threads : Step(t)
      BY <1>2 DEF Next, Step, vars, ghosts
    <2>2. QED
      BY <1>2, <2>1, CommittedKept, CommitLive
  <1>3. QED
    BY <1>1, <1>2

\* Every new lock is on a committed record.
LEMMA HeldStep ==
  ASSUME IInv, NEW t \in Threads, Step(t)
  PROVE  \A r \in Held(t)' : r \in Held(t) \/ CLive(r)
  <1>1. DOMAIN exclusive_locks = Threads /\ DOMAIN shared_locks = Threads
    BY DEF IInv, TypeOK
  <1>2. CASE BeginTxn(t)
    BY <1>2, FreshTxn DEF Held
  <1>3. ASSUME NEW r \in Records, LockShared(t, r) \/ LockExclusive(t, r)
        PROVE  \A q \in Held(t)' : q \in Held(t) \/ CLive(q)
    <2>1. CLive(r)
      BY <1>3 DEF IInv, ReferenceInv, LockShared, LockExclusive, Lockable
    <2>2. \A q \in Held(t)' : q \in Held(t) \/ q = r
      BY <1>1, <1>3 DEF Held, LockShared, LockExclusive, TryExclusive
    <2>3. QED
      BY <2>1, <2>2
  <1>4. CASE \E r \in Records : BeginUpgrade(t, r)
    BY <1>1, <1>4 DEF Held, BeginUpgrade
  <1>5. CASE \E r \in Records : InsertRecord(t, r) \/ \E a \in Attributes :
               Read(t, r, a) \/ \E v \in Storable(t) : Write(t, r, a, v)
    BY <1>5 DEF Held, InsertRecord, Read, Write, txnVars
  <1>6. CASE FinishUpgrade(t)
    <2>1. CLive(upgrading[t])
      BY <1>6 DEF FinishUpgrade, IInv, PhaseInv
    <2>2. \A q \in Held(t)' : q \in Held(t) \/ q = upgrading[t]
      BY <1>1, <1>6 DEF Held, FinishUpgrade, TryExclusive
    <2>3. QED
      BY <2>1, <2>2
  <1>7. CASE Finish(t)
    BY <1>1, <1>7 DEF Held, Finish, EndTxn, Rollback, ReleaseLock, FreeTxn, txnVars
  <1>8. QED
    BY <1>2, <1>3, <1>4, <1>5, <1>6, <1>7 DEF Step, Operation

\* How the log of an attempt changes.
LEMMA LogShape ==
  ASSUME IInv, NEW t \in Threads, Step(t)
  PROVE  \/ log' = log
         \/ log'[t] = <<>>
         \/ \E r \in Records : InsertRecord(t, r)
         \/ \E r \in Records, a \in Attributes : \E v \in Storable(t) : Write(t, r, a, v)
         \/ Rollback(t) /\ log[t] # <<>> /\ log'[t] = Tail(log[t])
  <1>1. DOMAIN log = Threads
    BY DEF IInv, TypeOK
  <1>2. CASE BeginTxn(t)
    BY <1>1, <1>2 DEF BeginTxn
  <1>3. CASE \E r \in Records : LockShared(t, r) \/ LockExclusive(t, r) \/ BeginUpgrade(t, r)
                                 \/ \E a \in Attributes : Read(t, r, a)
    BY <1>3 DEF LockShared, LockExclusive, BeginUpgrade, Read, txnVars
  <1>4. CASE FinishUpgrade(t)
    BY <1>4 DEF FinishUpgrade
  <1>5. CASE Finish(t)
    BY <1>1, <1>5 DEF Finish, EndTxn, Rollback, ReleaseLock, FreeTxn, txnVars
  <1>6. QED
    BY <1>2, <1>3, <1>4, <1>5 DEF Step, Operation

LEMMA InsertEffect ==
  ASSUME IInv, NEW t \in Threads, NEW r \in Records, InsertRecord(t, r)
  PROVE  /\ Nascent(t)' = Nascent(t) \cup {r}
         /\ RecordsIn(log'[t]) = RecordsIn(log[t]) \cup {r}
         /\ \A c \in Cells : Written(t, c)' <=> Written(t, c) \/ c[1] = r
         /\ [type |-> "INSERT", record |-> r] \in LogItem
         /\ log'[t] = <<[type |-> "INSERT", record |-> r]>> \o log[t]
         /\ \A a \in Attributes : mem[<<r, a>>] = Absent
  <1> DEFINE e == [type |-> "INSERT", record |-> r]
  <1>1. e \in LogItem /\ e.type = "INSERT" /\ e.record = r
    BY DEF LogItem, InsertLog
  <1>2. log'[t] = <<e>> \o log[t] /\ log[t] \in Seq(LogItem)
    BY DEF InsertRecord, IInv, TypeOK
  <1>3. \A c \in Cells : Covers(e, c) <=> c[1] = r
    BY DEF Covers
  <1>4. \A a \in Attributes : mem[<<r, a>>] = Absent
    BY DEF InsertRecord
  <1> HIDE DEF e
  <1>5. Nascent(t)' = Nascent(t) \cup {r}
    BY <1>1, <1>2, PushLog DEF Nascent
  <1>6. RecordsIn(log'[t]) = RecordsIn(log[t]) \cup {r}
    BY <1>1, <1>2, RecordsOfLog
  <1>7. \A c \in Cells : Written(t, c)' <=> Written(t, c) \/ c[1] = r
    BY <1>1, <1>2, <1>3, PushLog DEF Written
  <1>8. QED
    BY <1>1, <1>2, <1>4, <1>5, <1>6, <1>7 DEF e

UpdateEntry(r, a) == [type |-> "UPDATE", record |-> r, attribute_index |-> a,
                      prev_value |-> mem[<<r, a>>]]

LEMMA WriteEffect ==
  ASSUME IInv, NEW t \in Threads, NEW r \in Records, NEW a \in Attributes, NEW v \in Storable(t),
         Write(t, r, a, v)
  PROVE  /\ Nascent(t)' = Nascent(t)
         /\ RecordsIn(log'[t]) = RecordsIn(log[t]) \cup {r}
         /\ \A c \in Cells : Written(t, c)' <=> Written(t, c) \/ c = <<r, a>>
         /\ UpdateEntry(r, a) \in LogItem /\ log'[t] = <<UpdateEntry(r, a)>> \o log[t]
         /\ UpdateEntry(r, a).type = "UPDATE" /\ UpdateEntry(r, a).record = r
         /\ UpdateEntry(r, a).prev_value = mem[<<r, a>>]
         /\ \A c \in Cells : Covers(UpdateEntry(r, a), c) <=> c = <<r, a>>
  <1> DEFINE e == UpdateEntry(r, a)
  <1>1. <<r, a>> \in Cells /\ mem[<<r, a>>] \in Values \cup {Absent}
    BY CellShape DEF IInv, TypeOK
  <1>2. /\ e \in LogItem /\ e.type = "UPDATE" /\ e.record = r /\ e.attribute_index = a
        /\ e.prev_value = mem[<<r, a>>]
    BY <1>1 DEF LogItem, UpdateLog, UpdateEntry
  <1>3. log'[t] = <<e>> \o log[t] /\ log[t] \in Seq(LogItem)
    BY DEF Write, IInv, TypeOK, UpdateEntry
  <1> HIDE DEF e
  <1>4. \A c \in Cells : Covers(e, c) <=> c = <<r, a>>
    BY <1>2, CellShape DEF Covers
  <1>5. Nascent(t)' = Nascent(t)
    <2>1. e.type # "INSERT"
      BY <1>2
    <2>2. NascentIn(<<e>> \o log[t]) = NascentIn(log[t]) \cup {}
      BY <1>2, <1>3, <2>1, PushLog
    <2>3. QED
      BY <1>3, <2>2 DEF Nascent
  <1>6. RecordsIn(log'[t]) = RecordsIn(log[t]) \cup {r}
    BY <1>2, <1>3, RecordsOfLog
  <1>7. \A c \in Cells : Written(t, c)' <=> Written(t, c) \/ c = <<r, a>>
    BY <1>2, <1>3, <1>4, PushLog DEF Written
  <1>8. QED
    BY <1>1, <1>2, <1>3, <1>4, <1>5, <1>6, <1>7 DEF e

\* Undoing the newest entry.
LEMMA RollbackEffect ==
  ASSUME IInv, NEW t \in Threads, Rollback(t), log[t] # <<>>
  PROVE  /\ log'[t] = Tail(log[t]) /\ log[t] \in Seq(LogItem) /\ Head(log[t]) \in LogItem
         /\ ~InProgress(t) /\ pc' = pc
         /\ \A c \in Cells : mem'[c] = IF Covers(Head(log[t]), c) THEN Before(Head(log[t])) ELSE mem[c]
         /\ \A c \in Cells : Written(t, c) <=> Written(t, c)' \/ Covers(Head(log[t]), c)
         /\ \A c \in Cells : Covers(Head(log[t]), c) /\ ~Written(t, c)'
                             => Before(Head(log[t])) = committed[c]
         /\ \A c \in Cells : Covers(Head(log[t]), c) /\ Written(t, c)' => Before(Head(log[t])) # Absent
         /\ RecordsIn(log'[t]) \subseteq exclusive_locks[t] \cup Nascent(t)'
         /\ Nascent(t)' \subseteq Nascent(t)
  <1> DEFINE e == Head(log[t])
  <1>1. /\ log[t] \in Seq(LogItem) /\ log' = [log EXCEPT ![t] = Tail(log[t])] /\ log'[t] = Tail(log[t])
        /\ Tail(log[t]) \in Seq(LogItem) /\ e \in LogItem /\ 1 \in DOMAIN log[t] /\ e = log[t][1]
    BY PopShape DEF Rollback, IInv, TypeOK
  <1>2. \A c \in Cells : mem'[c] = IF Covers(e, c) THEN Before(e) ELSE mem[c]
    BY DEF Rollback, Undo
  <1>3. ~InProgress(t) /\ pc' = pc
    BY DEF Rollback, InProgress
  <1>4. \A c \in Cells : Written(t, c) <=> Written(t, c)' \/ Covers(e, c)
    BY <1>1, PopLog DEF Written
  <1>5. \A c \in Cells : Covers(e, c) /\ ~Written(t, c)' => Before(e) = committed[c]
    BY <1>1, PopSaves DEF IInv, UndoRestores, Written
  <1>6. e.type = "INSERT" => e.record \notin RecordsIn(log'[t])
    BY <1>1, PopOrder DEF IInv, LogInv, RecordsIn
  <1>7. \A c \in Cells : Covers(e, c) /\ Written(t, c)' => Before(e) # Absent
    <2>1. e.type = "UPDATE" => e.prev_value # Absent
      BY <1>1 DEF IInv, LogInv, SavesValues
    <2>2. \A c \in Cells : Written(t, c)' => c[1] \in RecordsIn(log'[t])
      BY <1>1, RecordsOfLog DEF Written
    <2>3. QED
      BY <1>1, <1>6, <2>1, <2>2, LogItemFacts DEF Covers, Before
  <1>8. Nascent(t) = Nascent(t)' \cup (IF e.type = "INSERT" THEN {e.record} ELSE {})
    BY <1>1, PopLog DEF Nascent
  <1>9. RecordsIn(log'[t]) \subseteq exclusive_locks[t] \cup Nascent(t)'
    BY <1>1, <1>6, <1>8, RecordsOfLog DEF IInv, LogInv
  <1>10. QED
    BY <1>1, <1>2, <1>3, <1>4, <1>5, <1>7, <1>8, <1>9

------------------------------------------------------------------------------
(* The invariant, part by part. *)

LEMMA ClosedStep == IInv /\ [Next]_vars => ClosedInv'
  <1> SUFFICES ASSUME IInv, [Next]_vars
               PROVE  ClosedInv'
    OBVIOUS
  <1>1. \A r \in Roots : CLive(r)'
    BY LiveStep, ConstantsAssumption DEF IInv, ClosedInv
  <1>2. ASSUME NEW c \in Cells, committed'[c] \in Records
        PROVE  CLive(committed[c])'
    <2>1. CASE committed'[c] = committed[c]
      BY <1>2, <2>1, LiveStep DEF IInv, ClosedInv, CLive
    <2>2. CASE committed'[c] # committed[c]
      <3>1. PICK t \in Threads : Step(t)
        BY <2>2 DEF Next, Step, vars, ghosts
      <3>2. EndTxn(t) /\ status[t] = "ACTIVE"
        BY <2>2, <3>1, CommittedKept
      <3>3. Written(t, c) /\ committed'[c] = mem[c] /\ InProgress(t)
        BY <2>2, <3>2, CommitLive DEF EndTxn, InProgress
      <3>4. CLive(mem[c]) \/ mem[c] \in Nascent(t)
        BY <1>2, <3>3 DEF IInv, MemoryInv
      <3>5. QED
        BY <1>2, <3>2, <3>3, <3>4, CommitLive DEF CLive
    <2>3. QED
      BY <2>1, <2>2
  <1>3. QED
    BY <1>1, <1>2 DEF ClosedInv

LEMMA ReferenceStep == IInv /\ [Next]_vars => ReferenceInv'
  <1> SUFFICES ASSUME IInv, [Next]_vars
               PROVE  ReferenceInv'
    OBVIOUS
  <1>1. \A r \in Records : CLive(r) => CLive(r)'
    BY LiveStep
  <1>2. CASE UNCHANGED vars
    BY <1>2 DEF IInv, ReferenceInv, vars, txnVars, ghosts, Held, CLive, Nascent
  <1>3. ASSUME NEW t \in Threads, Step(t)
        PROVE  ReferenceInv'
    <2>1. \A u \in Threads : \A r \in Held(u)' : CLive(r)'
      <3>1. ASSUME NEW u \in Threads, NEW r \in Held(u)'
            PROVE  r \in Held(u) \/ CLive(r)
        BY <1>3, <3>1, HeldStep, OthersKeep DEF Held, IInv
      <3>2. ASSUME NEW u \in Threads
            PROVE  Held(u)' \subseteq Records
        BY TypeStep DEF IInv, TypeOK, Held
      <3>3. QED
        BY <1>1, <3>1, <3>2 DEF IInv, ReferenceInv
    <2>2. ASSUME NEW u \in Threads \ {t}, NEW r \in known'[u]
          PROVE  CLive(r)' \/ r \in Nascent(u)'
      <3>1. r \in known[u] /\ Nascent(u)' = Nascent(u)
        BY <1>3, <2>2, OthersKeep DEF Nascent, IInv
      <3>2. r \in Records
        BY <3>1 DEF IInv, TypeOK
      <3>3. QED
        BY <1>1, <3>1, <3>2 DEF IInv, ReferenceInv
    <2>3. ASSUME NEW r \in known'[t]
          PROVE  CLive(r)' \/ r \in Nascent(t)'
      <3> USE <1>3, <2>3
      <3>1. known'[t] \subseteq Records
        BY TypeStep DEF IInv, TypeOK
      <3>2. CASE BeginTxn(t)
        <4>1. r \in Roots
          BY <3>2 DEF BeginTxn, IInv, TypeOK
        <4>2. QED
          BY <1>1, <4>1, ConstantsAssumption DEF IInv, ClosedInv
      <3>3. CASE \E s \in Records, a \in Attributes : Read(t, s, a)
        <4>1. PICK s \in Records, a \in Attributes : Read(t, s, a)
          BY <3>3
        <4>2. Nascent(t)' = Nascent(t) /\ InProgress(t) /\ <<s, a>> \in Cells
          BY <4>1, CellShape DEF Read, txnVars, Nascent, InProgress, Running
        <4>3. CASE r \in known[t]
          BY <1>1, <3>1, <4>2, <4>3 DEF IInv, ReferenceInv
        <4>4. CASE r \notin known[t]
          <5>1. r = mem[<<s, a>>]
            BY <4>1, <4>4 DEF Read, IInv, TypeOK
          <5>2. CASE Written(t, <<s, a>>)
            BY <1>1, <3>1, <4>2, <5>1, <5>2 DEF IInv, MemoryInv
          <5>3. CASE ~Written(t, <<s, a>>)
            <6>1. s \notin Nascent(t)
              BY <5>3, NascentWritten DEF Nascent, Written, IInv, TypeOK
            <6>2. s \in Held(t)
              BY <4>1, <6>1 DEF Read
            <6>3. r = committed[<<s, a>>]
              BY <4>2, <5>1, <5>3, <6>2, OwnView
            <6>4. QED
              BY <1>1, <3>1, <4>2, <6>3 DEF IInv, ClosedInv
          <5>4. QED
            BY <5>2, <5>3
        <4>5. QED
          BY <4>3, <4>4
      <3>4. CASE \E s \in Records : InsertRecord(t, s)
        <4>1. PICK s \in Records : InsertRecord(t, s)
          BY <3>4
        <4>2. r \in known[t] \/ r = s
          BY <4>1 DEF InsertRecord, IInv, TypeOK
        <4>3. Nascent(t)' = Nascent(t) \cup {s}
          BY <4>1, InsertEffect
        <4>4. QED
          BY <1>1, <3>1, <4>2, <4>3 DEF IInv, ReferenceInv
      <3>5. CASE \E s \in Records, a \in Attributes : \E v \in Storable(t) : Write(t, s, a, v)
        <4>1. PICK s \in Records, a \in Attributes, v \in Storable(t) : Write(t, s, a, v)
          BY <3>5
        <4>2. known' = known /\ Nascent(t)' = Nascent(t)
          BY <4>1, WriteEffect DEF Write
        <4>3. QED
          BY <1>1, <3>1, <4>2 DEF IInv, ReferenceInv
      <3>6. CASE FinishUpgrade(t) \/ \E s \in Records :
                     LockShared(t, s) \/ LockExclusive(t, s) \/ BeginUpgrade(t, s)
        <4>1. known' = known /\ Nascent(t)' = Nascent(t)
          BY <3>6 DEF FinishUpgrade, LockShared, LockExclusive, BeginUpgrade, Nascent
        <4>2. QED
          BY <1>1, <3>1, <4>1 DEF IInv, ReferenceInv
      <3>7. CASE Finish(t)
        <4>1. CASE EndTxn(t)
          BY <4>1 DEF EndTxn, IInv, TypeOK
        <4>2. CASE Rollback(t) \/ ReleaseLock(t) \/ FreeTxn(t)
          <5>1. known' = known /\ ~InProgress(t)
            BY <4>2 DEF Rollback, ReleaseLock, FreeTxn, InProgress
          <5>2. QED
            BY <5>1 DEF IInv, PhaseInv
        <4>3. QED
          BY <3>7, <4>1, <4>2 DEF Finish
      <3>8. QED
        BY <3>2, <3>3, <3>4, <3>5, <3>6, <3>7 DEF Step, Operation
    <2>4. QED
      BY <2>1, <2>2, <2>3 DEF ReferenceInv
  <1>4. QED
    BY <1>2, <1>3 DEF Next, Step

LEMMA ExclusiveGrows ==
  ASSUME IInv, NEW t \in Threads, Step(t)
  PROVE  exclusive_locks[t] \subseteq exclusive_locks'[t] \/ ReleaseLock(t)
  <1>1. DOMAIN exclusive_locks = Threads
    BY DEF IInv, TypeOK
  <1>2. CASE BeginTxn(t)
    BY <1>2, FreshTxn
  <1>3. CASE FinishUpgrade(t) \/ \E r \in Records : LockExclusive(t, r)
    BY <1>1, <1>3 DEF FinishUpgrade, LockExclusive, TryExclusive
  <1>4. CASE \E r \in Records : LockShared(t, r) \/ BeginUpgrade(t, r) \/ InsertRecord(t, r)
                \/ \E a \in Attributes : Read(t, r, a) \/ \E v \in Storable(t) : Write(t, r, a, v)
    BY <1>4 DEF LockShared, BeginUpgrade, InsertRecord, Read, Write, txnVars
  <1>5. CASE EndTxn(t) \/ Rollback(t) \/ FreeTxn(t)
    BY <1>5 DEF EndTxn, Rollback, FreeTxn, txnVars
  <1>6. QED
    BY <1>2, <1>3, <1>4, <1>5 DEF Step, Operation, Finish

LEMMA LogStep == IInv /\ [Next]_vars => LogInv'
  <1> SUFFICES ASSUME IInv, [Next]_vars
               PROVE  LogInv'
    OBVIOUS
  <1>1. CASE UNCHANGED vars
    BY <1>1 DEF IInv, LogInv, vars, txnVars, ghosts, Nascent
  <1>2. ASSUME NEW t \in Threads, Step(t)
        PROVE  LogInv'
    <2> USE <1>2
    <2>1. ASSUME NEW u \in Threads
          PROVE  /\ InsertOldest(log[u]) /\ SavesValues(log[u]) /\ log[u] \in Seq(LogItem)
                 /\ RecordsIn(log[u]) \subseteq exclusive_locks[u] \cup Nascent(u)
                 /\ Nascent(u) \subseteq RecordsIn(log[u])
                 /\ Nascent(u) \subseteq Records
      BY RecordsOfLog DEF IInv, LogInv, TypeOK, Nascent, NascentIn
    <2>2. ASSUME NEW u \in Threads \ {t}
          PROVE  /\ InsertOldest(log'[u]) /\ SavesValues(log'[u]) /\ Nascent(u)' = Nascent(u)
                 /\ RecordsIn(log'[u]) \subseteq exclusive_locks'[u] \cup Nascent(u)'
      <3>1. log'[u] = log[u] /\ exclusive_locks'[u] = exclusive_locks[u]
        BY <2>2, OthersKeep DEF IInv
      <3>2. QED
        BY <2>1, <3>1 DEF Nascent
    \* What the step makes of the attempt's own log and of the records it has inserted.
    <2> DEFINE Good == /\ InsertOldest(log'[t]) /\ SavesValues(log'[t])
                       /\ RecordsIn(log'[t]) \subseteq exclusive_locks'[t] \cup Nascent(t)'
    <2> DEFINE Fresh == \A r \in Nascent(t)' :
                          \/ r \in Nascent(t)
                          \/ /\ \A a \in Attributes : committed[<<r, a>>] = Absent
                             /\ \A u \in Threads : r \notin Nascent(u)
    <2>3. Good /\ Fresh
      <3>1. CASE log' = log
        <4>1. exclusive_locks[t] \subseteq exclusive_locks'[t] \/ ReleaseLock(t)
          BY ExclusiveGrows
        <4>2. ReleaseLock(t) => log'[t] = <<>>
          BY <3>1 DEF ReleaseLock, IInv, PhaseInv
        <4>3. Nascent(t)' = Nascent(t)
          BY <3>1 DEF Nascent
        <4>4. QED
          BY <2>1, <3>1, <4>1, <4>2, <4>3, EmptyLog
      <3>2. CASE log'[t] = <<>>
        BY <3>2, EmptyLog DEF Nascent
      <3>3. CASE \E r \in Records : InsertRecord(t, r)
        <4>1. PICK r \in Records : InsertRecord(t, r)
          BY <3>3
        <4> DEFINE e == [type |-> "INSERT", record |-> r]
        <4>2. e \in LogItem /\ log'[t] = <<e>> \o log[t] /\ e.type = "INSERT" /\ e.record = r
          BY <4>1, InsertEffect
        <4>3. /\ Nascent(t)' = Nascent(t) \cup {r} /\ RecordsIn(log'[t]) = RecordsIn(log[t]) \cup {r}
              /\ exclusive_locks' = exclusive_locks
          BY <4>1, InsertEffect DEF InsertRecord
        <4>4. /\ \A u \in Threads : r \notin Nascent(u) /\ r \notin RecordsIn(log[u])
              /\ \A a \in Attributes : committed[<<r, a>>] = Absent
          BY <4>1, InsertEffect, FreeRecord
        <4> HIDE DEF e
        <4>5. InsertOldest(log'[t])
          BY <2>1, <4>2, <4>4, PushOrder DEF RecordsIn
        <4>6. SavesValues(log'[t])
          BY <2>1, <4>2, PushPopValues
        <4>7. QED
          BY <2>1, <4>3, <4>4, <4>5, <4>6
      <3>4. CASE \E r \in Records, a \in Attributes : \E v \in Storable(t) : Write(t, r, a, v)
        <4>1. PICK r \in Records, a \in Attributes, v \in Storable(t) : Write(t, r, a, v)
          BY <3>4
        <4> DEFINE e == UpdateEntry(r, a)
        <4>2. /\ e \in LogItem /\ log'[t] = <<e>> \o log[t]
              /\ e.type = "UPDATE" /\ e.record = r /\ e.prev_value = mem[<<r, a>>]
          BY <4>1, WriteEffect
        <4>3. /\ Nascent(t)' = Nascent(t) /\ RecordsIn(log'[t]) = RecordsIn(log[t]) \cup {r}
              /\ exclusive_locks' = exclusive_locks /\ r \in exclusive_locks[t] \cup Nascent(t)
          BY <4>1, WriteEffect DEF Write
        <4>4. mem[<<r, a>>] # Absent
          <5>1. CASE r \in Nascent(t)
            BY <2>1, <5>1, CellShape, NascentWritten DEF IInv, MemoryInv, Nascent, Written
          <5>2. CASE r \in exclusive_locks[t]
            BY <5>2, CellShape, CommittedInMemory DEF IInv, ReferenceInv, CLive, Held
          <5>3. QED
            BY <4>3, <5>1, <5>2
        <4>5. InsertOldest(log'[t])
          BY <2>1, <4>2, PushOrder
        <4>6. SavesValues(log'[t])
          BY <2>1, <4>2, <4>4, PushPopValues
        <4>7. QED
          BY <2>1, <4>3, <4>5, <4>6
      <3>5. CASE Rollback(t) /\ log[t] # <<>> /\ log'[t] = Tail(log[t])
        <4>1. exclusive_locks' = exclusive_locks
          BY <3>5 DEF Rollback
        <4>2. InsertOldest(log'[t]) /\ SavesValues(log'[t])
          BY <2>1, <3>5, PopOrder, PushPopValues
        <4>3. QED
          BY <3>5, <4>1, <4>2, RollbackEffect
      <3>6. QED
        BY <3>1, <3>2, <3>3, <3>4, <3>5, LogShape
    <2>4. ASSUME NEW u \in Threads, NEW r \in Nascent(u)', NEW a \in Attributes
          PROVE  committed'[<<r, a>>] = Absent
      <3>1. committed[<<r, a>>] = Absent
        BY <2>2, <2>3 DEF IInv, LogInv
      <3>2. CASE committed' = committed
        BY <3>1, <3>2
      <3>3. CASE EndTxn(t) /\ status[t] = "ACTIVE"
        <4>1. log'[t] = <<>> 
          BY <3>3 DEF EndTxn, IInv, TypeOK
        <4>2. u # t
          BY <4>1, EmptyLog DEF Nascent
        <4>3. r \in Nascent(u) /\ r \in Records /\ <<r, a>> \in Cells
          BY <2>1, <2>2, <4>2, CellShape
        <4>4. ~Written(t, <<r, a>>)
          BY <4>2, <4>3, Owner
        <4>5. QED
          BY <3>1, <3>3, <4>3, <4>4, CommitLive
      <3>4. QED
        BY <3>2, <3>3, CommittedKept
    <2>5. ASSUME NEW u \in Threads, NEW w \in Threads \ {u}, NEW r \in Nascent(u)'
           PROVE  r \notin Nascent(w)'
      BY <2>2, <2>3 DEF IInv, LogInv
    <2>6. QED
      BY <2>2, <2>3, <2>4, <2>5 DEF LogInv
  <1>3. QED
    BY <1>1, <1>2 DEF Next, Step

\* The steps that change data, undo logs or the committed store; and how an attempt comes to run.
LEMMA DataShape ==
  ASSUME IInv, NEW t \in Threads, Step(t)
  PROVE  \/ mem' = mem /\ log' = log /\ committed' = committed
         \/ \E r \in Records : InsertRecord(t, r)
         \/ \E r \in Records, a \in Attributes : \E v \in Storable(t) : Write(t, r, a, v)
         \/ Rollback(t) /\ log[t] # <<>>
         \/ EndTxn(t) /\ status[t] = "ACTIVE"
  <1>1. CASE BeginTxn(t)
    BY <1>1, FreshTxn DEF BeginTxn, ghosts
  <1>2. CASE \E r \in Records : LockShared(t, r) \/ LockExclusive(t, r) \/ BeginUpgrade(t, r)
                                 \/ \E a \in Attributes : Read(t, r, a)
    BY <1>2 DEF LockShared, LockExclusive, BeginUpgrade, Read, txnVars, ghosts
  <1>3. CASE FinishUpgrade(t)
    BY <1>3 DEF FinishUpgrade, ghosts
  <1>4. CASE Finish(t)
    BY <1>4 DEF Finish, EndTxn, Rollback, ReleaseLock, FreeTxn, txnVars, ghosts
  <1>5. QED
    BY <1>1, <1>2, <1>3, <1>4 DEF Step, Operation

LEMMA ProgressStep ==
  ASSUME IInv, NEW t \in Threads, Step(t), InProgress(t)'
  PROVE  InProgress(t) \/ BeginTxn(t)
  <1>1. DOMAIN pc = Threads
    BY DEF IInv, TypeOK
  <1>2. CASE Operation(t)
    BY <1>2 DEF Operation, LockShared, LockExclusive, BeginUpgrade, Read, Write, InsertRecord,
         Running, InProgress
  <1>3. CASE FinishUpgrade(t)
    BY <1>3 DEF FinishUpgrade, InProgress
  <1>4. CASE Finish(t)
    BY <1>1, <1>4 DEF Finish, EndTxn, Rollback, ReleaseLock, FreeTxn, InProgress
  <1>5. QED
    BY <1>2, <1>3, <1>4 DEF Step

\* What a commit leaves to the logs of the others.
LEMMA CommitEffect ==
  ASSUME IInv, NEW t \in Threads, EndTxn(t), status[t] = "ACTIVE"
  PROVE  /\ mem' = mem /\ log'[t] = <<>>
         /\ \A c \in Cells : ~Written(t, c)'
         /\ \A u \in Threads \ {t} : log'[u] = log[u]
         /\ \A u \in Threads \ {t}, c \in Cells :
              c[1] \in Held(u) \/ Written(u, c) => committed'[c] = committed[c]
  <1>1. mem' = mem /\ log'[t] = <<>> /\ \A u \in Threads \ {t} : log'[u] = log[u]
    BY DEF EndTxn, IInv, TypeOK
  <1>2. \A c \in Cells : ~Written(t, c)'
    BY <1>1, EmptyLog DEF Written
  <1>3. ASSUME NEW u \in Threads \ {t}, NEW c \in Cells, c[1] \in Held(u) \/ Written(u, c)
        PROVE  committed'[c] = committed[c]
    <2>1. ~Written(t, c)
      BY <1>3, Owner
    <2>2. QED
      BY <2>1, CommitLive
  <1>4. QED
    BY <1>1, <1>2, <1>3

LEMMA MemoryStep == IInv /\ [Next]_vars => MemoryInv'
  <1> SUFFICES ASSUME IInv, [Next]_vars
               PROVE  MemoryInv'
    OBVIOUS
  <1>1. CASE UNCHANGED vars
    BY <1>1 DEF IInv, MemoryInv, vars, txnVars, ghosts, Nascent, Written, InProgress, CLive
  <1>2. ASSUME NEW t \in Threads, Step(t)
        PROVE  MemoryInv'
    <2> USE <1>2
    <2> SUFFICES ASSUME NEW u \in Threads, NEW c \in Cells, Written(u, c)'
                 PROVE  /\ mem'[c] # Absent
                        /\ InProgress(u)' /\ mem'[c] \in Records
                             => CLive(mem[c])' \/ mem'[c] \in Nascent(u)'
      BY DEF MemoryInv, CLive, Nascent
    <2>1. \A r \in Records : CLive(r) => CLive(r)'
      BY LiveStep
    <2>2. ASSUME Written(u, c), mem'[c] = mem[c], Nascent(u) \subseteq Nascent(u)',
                 InProgress(u)' => InProgress(u)
          PROVE  /\ mem'[c] # Absent
                 /\ InProgress(u)' /\ mem'[c] \in Records
                      => CLive(mem[c])' \/ mem'[c] \in Nascent(u)'
      BY <2>1, <2>2 DEF IInv, MemoryInv
    <2>3. u # t => /\ log'[u] = log[u] /\ Nascent(u)' = Nascent(u) /\ Written(u, c)
                   /\ InProgress(u)' = InProgress(u)
      BY OthersKeep DEF IInv, Nascent, Written, InProgress
    <2>4. CASE mem' = mem /\ log' = log
      <3>1. Written(u, c) /\ Nascent(u)' = Nascent(u)
        BY <2>4 DEF Written, Nascent
      <3>2. u = t /\ BeginTxn(t) => FALSE
        BY <3>1, EmptyLog DEF BeginTxn, IInv, PhaseInv, Written
      <3>3. QED
        BY <2>2, <2>3, <2>4, <3>1, <3>2, ProgressStep
    <2>5. CASE \E r \in Records : InsertRecord(t, r)
      <3>1. PICK r \in Records : InsertRecord(t, r)
        BY <2>5
      <3>2. /\ InProgress(t) /\ \A a \in Attributes : mem[<<r, a>>] = Absent
            /\ mem'[c] = IF c[1] = r THEN Null ELSE mem[c]
        BY <3>1 DEF InsertRecord, Running, InProgress
      <3>3. Null # Absent /\ Null \notin Records
        BY ConstantsAssumption
      <3>4. CASE u = t
        <4>1. Written(t, c) \/ c[1] = r
          BY <3>1, <3>4, InsertEffect
        <4>2. Nascent(t) \subseteq Nascent(t)'
          <5>1. Nascent(t)' = Nascent(t) \cup {r}
            BY <3>1, InsertEffect
          <5>2. QED
            BY <5>1
        <4>3. QED
          BY <2>2, <3>2, <3>3, <3>4, <4>1, <4>2
      <3>5. CASE u # t
        <4>1. c[1] # r
          BY <2>3, <3>2, <3>5, FreeRecord
        <4>2. QED
          BY <2>2, <2>3, <3>2, <3>5, <4>1
      <3>6. QED
        BY <3>4, <3>5
    <2>6. CASE \E r \in Records, a \in Attributes : \E v \in Storable(t) : Write(t, r, a, v)
      <3>1. PICK r \in Records, a \in Attributes, v \in Storable(t) : Write(t, r, a, v)
        BY <2>6
      <3>2. /\ InProgress(t) /\ r \in Held(t) \cup Nascent(t)
            /\ <<r, a>> \in Cells /\ mem'[c] = IF c = <<r, a>> THEN v ELSE mem[c]
        <4>1. InProgress(t) /\ r \in Held(t) \cup Nascent(t)
          BY <3>1 DEF Write, Running, InProgress, Held
        <4>2. <<r, a>> \in Cells /\ mem'[c] = IF c = <<r, a>> THEN v ELSE mem[c]
          BY <3>1, CellShape DEF Write, IInv, TypeOK
        <4>3. QED
          BY <4>1, <4>2
      <3>3. CASE u = t
        <4>1. (Written(t, c) \/ c = <<r, a>>) /\ Nascent(t)' = Nascent(t)
          BY <3>1, <3>3, WriteEffect
        <4>2. v # Absent /\ (v \in Records => CLive(v) \/ v \in Nascent(t))
          <5>1. v \in Data \/ v \in known[t]
            BY <3>1 DEF Storable
          <5>2. v \in known[t] => v \in Records
            BY DEF IInv, TypeOK
          <5>3. QED
            BY <5>1, <5>2, ConstantsAssumption DEF IInv, ReferenceInv
        <4>3. QED
          BY <2>1, <2>2, <3>2, <3>3, <4>1, <4>2
      <3>4. CASE u # t
        <4>1. c # <<r, a>>
          BY <2>3, <3>2, <3>4, Owner DEF Held
        <4>2. QED
          BY <2>2, <2>3, <3>2, <3>4, <4>1
      <3>5. QED
        BY <3>3, <3>4
    <2>7. CASE Rollback(t) /\ log[t] # <<>>
      <3>1. mem'[c] = IF Covers(Head(log[t]), c) THEN Before(Head(log[t])) ELSE mem[c]
        BY <2>7, RollbackEffect
      <3>2. CASE u = t
        <4>1. Written(t, c) /\ ~InProgress(t)' /\ (Covers(Head(log[t]), c) => mem'[c] # Absent)
          BY <2>7, <3>1, <3>2, RollbackEffect DEF InProgress
        <4>2. QED
          BY <3>1, <3>2, <4>1 DEF IInv, MemoryInv
      <3>3. CASE u # t
        <4>1. ~Written(t, c)
          BY <2>3, <3>3, Owner
        <4>2. mem'[c] = mem[c]
          BY <2>7, <3>1, <4>1, RollbackEffect
        <4>3. QED
          BY <2>2, <2>3, <3>3, <4>2
      <3>4. QED
        BY <3>2, <3>3
    <2>8. CASE EndTxn(t) /\ status[t] = "ACTIVE"
      <3>1. u # t /\ mem' = mem
        BY <2>8, CommitEffect
      <3>2. QED
        BY <2>2, <2>3, <3>1
    <2>9. QED
      BY <2>4, <2>5, <2>6, <2>7, <2>8, DataShape
  <1>3. QED
    BY <1>1, <1>2 DEF Next, Step

\* A log depends on the committed store only where it covers it.
LEMMA SavesElsewhere ==
  ASSUME NEW l \in Seq(LogItem), NEW f, NEW g, OldestSaves(l, f),
         \A c \in Cells : WrittenIn(l, c) => f[c] = g[c]
  PROVE  OldestSaves(l, g)
  BY DEF OldestSaves, WrittenIn

LEMMA UndoStep == IInv /\ [Next]_vars => UndoRestores'
  <1> SUFFICES ASSUME IInv, [Next]_vars
               PROVE  UndoRestores'
    OBVIOUS
  <1>1. CASE UNCHANGED vars
    BY <1>1 DEF IInv, UndoRestores, vars, txnVars, ghosts, Written
  <1>2. ASSUME NEW t \in Threads, Step(t)
        PROVE  UndoRestores'
    <2> USE <1>2
    <2>1. \A u \in Threads \ {t} : log'[u] = log[u] /\ \A c \in Cells : Written(u, c)' <=> Written(u, c)
      BY OthersKeep DEF IInv, Written
    <2>2. \A u \in Threads : OldestSaves(log[u], committed) /\ log[u] \in Seq(LogItem)
      BY DEF IInv, UndoRestores, TypeOK
    <2>3. \A c \in Cells : (\A u \in Threads : ~Written(u, c)) => mem[c] = committed[c]
      BY DEF IInv, UndoRestores
    <2>4. CASE mem' = mem /\ log' = log /\ committed' = committed
      BY <2>2, <2>3, <2>4 DEF UndoRestores, Written
    <2>5. CASE \E r \in Records : InsertRecord(t, r)
      <3>1. PICK r \in Records : InsertRecord(t, r)
        BY <2>5
      <3> DEFINE e == [type |-> "INSERT", record |-> r]
      <3>2. /\ committed' = committed /\ e \in LogItem /\ log'[t] = <<e>> \o log[t]
            /\ \A c \in Cells : Covers(e, c) => c[1] = r
            /\ Before(e) = Absent
        BY <3>1, InsertEffect DEF InsertRecord, ghosts, Covers, Before
      <3>3. \A c \in Cells : mem'[c] = IF c[1] = r THEN Null ELSE mem[c]
        BY <3>1 DEF InsertRecord
      <3>4. \A c \in Cells : c[1] = r => committed[c] = Absent
        <4>1. \A a \in Attributes : committed[<<r, a>>] = Absent
          BY <3>1, InsertEffect, FreeRecord
        <4>2. QED
          BY <4>1, CellShape
      <3>5. \A c \in Cells : Written(t, c)' <=> Written(t, c) \/ c[1] = r
        BY <3>1, InsertEffect
      <3> HIDE DEF e
      <3>6. OldestSaves(log'[t], committed')
        BY <2>2, <3>2, <3>4, PushSaves
      <3>7. \A u \in Threads : OldestSaves(log'[u], committed')
        BY <2>1, <2>2, <3>2, <3>6
      <3>8. \A c \in Cells : (\A u \in Threads : ~Written(u, c)') => mem'[c] = committed'[c]
        BY <2>1, <2>3, <3>2, <3>3, <3>5
      <3>9. QED
        BY <3>7, <3>8 DEF UndoRestores
    <2>6. CASE \E r \in Records, a \in Attributes : \E v \in Storable(t) : Write(t, r, a, v)
      <3>1. PICK r \in Records, a \in Attributes, v \in Storable(t) : Write(t, r, a, v)
        BY <2>6
      <3> DEFINE e == UpdateEntry(r, a)
      <3>2. committed' = committed /\ r \in Held(t) \cup Nascent(t)
        BY <3>1 DEF Write, ghosts, Held
      <3>3. /\ e \in LogItem /\ log'[t] = <<e>> \o log[t]
            /\ e.type = "UPDATE" /\ e.prev_value = mem[<<r, a>>]
            /\ \A c \in Cells : Covers(e, c) <=> c = <<r, a>>
            /\ \A c \in Cells : Written(t, c)' <=> Written(t, c) \/ c = <<r, a>>
        BY <3>1, WriteEffect
      <3>4. \A c \in Cells : mem'[c] = IF c = <<r, a>> THEN v ELSE mem[c]
        BY <3>1 DEF Write, IInv, TypeOK
      <3> HIDE DEF e
      <3>5. ~Written(t, <<r, a>>) => Before(e) = committed[<<r, a>>]
        <4>1. <<r, a>> \in Cells /\ Before(e) = mem[<<r, a>>]
          BY <3>3, CellShape DEF Before
        <4>2. ASSUME NEW u \in Threads \ {t}, Written(u, <<r, a>>)
              PROVE  FALSE
          BY <3>2, <4>1, <4>2, Owner
        <4>3. QED
          BY <2>3, <4>1, <4>2
      <3>6. OldestSaves(log'[t], committed')
        BY <2>2, <3>2, <3>3, <3>5, PushSaves DEF Written
      <3>7. \A u \in Threads : OldestSaves(log'[u], committed')
        BY <2>1, <2>2, <3>2, <3>6
      <3>8. \A c \in Cells : (\A u \in Threads : ~Written(u, c)') => mem'[c] = committed'[c]
        BY <2>1, <2>3, <3>2, <3>3, <3>4
      <3>9. QED
        BY <3>7, <3>8 DEF UndoRestores
    <2>7. CASE Rollback(t) /\ log[t] # <<>>
      <3> DEFINE e == Head(log[t])
      <3>1. committed' = committed
        BY <2>7 DEF Rollback, ghosts
      <3>2. /\ log'[t] = Tail(log[t])
            /\ \A c \in Cells : mem'[c] = IF Covers(e, c) THEN Before(e) ELSE mem[c]
            /\ \A c \in Cells : Written(t, c) <=> Written(t, c)' \/ Covers(e, c)
            /\ \A c \in Cells : Covers(e, c) /\ ~Written(t, c)' => Before(e) = committed[c]
        BY <2>7, RollbackEffect
      <3> HIDE DEF e
      <3>3. OldestSaves(log'[t], committed')
        BY <2>2, <2>7, <3>1, <3>2, PopSaves
      <3>4. \A u \in Threads : OldestSaves(log'[u], committed')
        BY <2>1, <2>2, <3>1, <3>3
      <3>5. \A c \in Cells : (\A u \in Threads : ~Written(u, c)') => mem'[c] = committed'[c]
        BY <2>1, <2>3, <3>1, <3>2
      <3>6. QED
        BY <3>4, <3>5 DEF UndoRestores
    <2>8. CASE EndTxn(t) /\ status[t] = "ACTIVE"
      <3>1. \A u \in Threads \ {t}, c \in Cells : Written(u, c) => committed'[c] = committed[c]
        BY <2>8, CommitEffect
      <3>2. \A u \in Threads \ {t} : OldestSaves(log'[u], committed')
        BY <2>1, <2>2, <3>1, SavesElsewhere DEF Written
      <3>3. OldestSaves(log'[t], committed')
        BY <2>8, CommitEffect, EmptyLog
      <3>4. \A c \in Cells : (\A u \in Threads : ~Written(u, c)') => mem'[c] = committed'[c]
        BY <2>1, <2>3, <2>8, CommitEffect, CommitLive
      <3>5. QED
        BY <3>2, <3>3, <3>4 DEF UndoRestores
    <2>9. QED
      BY <2>4, <2>5, <2>6, <2>7, <2>8, DataShape
  <1>3. QED
    BY <1>1, <1>2 DEF Next, Step

LEMMA ReadStep == IInv /\ [Next]_vars => ReadInv'
  <1> SUFFICES ASSUME IInv, [Next]_vars
               PROVE  ReadInv'
    OBVIOUS
  <1>1. CASE UNCHANGED vars
    BY <1>1 DEF IInv, ReadInv, vars, txnVars, ghosts, Held
  <1>2. ASSUME NEW t \in Threads, Step(t)
        PROVE  ReadInv'
    <2> USE <1>2
    <2>1. \A u \in Threads : \A o \in reads[u] :
            o.cell[1] \in Held(u) /\ committed[o.cell] = o.value /\ o.cell \in Cells
      BY DEF IInv, ReadInv, TypeOK
    <2>2. ASSUME NEW u \in Threads \ {t}, NEW o \in reads'[u]
          PROVE  o.cell[1] \in Held(u)' /\ committed'[o.cell] = o.value
      <3>1. o \in reads[u] /\ Held(u)' = Held(u)
        BY <2>2, OthersKeep DEF IInv, Held
      <3>2. committed'[o.cell] = committed[o.cell]
        BY <2>1, <3>1, CommittedKept, CommitEffect
      <3>3. QED
        BY <2>1, <3>1, <3>2
    <2>3. ASSUME NEW o \in reads'[t]
          PROVE  o.cell[1] \in Held(t)' /\ committed'[o.cell] = o.value
      <3>1. ASSUME o \in reads[t], Held(t) \subseteq Held(t)', committed' = committed
            PROVE  o.cell[1] \in Held(t)' /\ committed'[o.cell] = o.value
        BY <2>1, <3>1
      <3>2. CASE BeginTxn(t)
        BY <2>3, <3>1, <3>2, FreshTxn DEF BeginTxn, ghosts, Held
      <3>3. CASE FinishUpgrade(t) \/ \E r \in Records : LockShared(t, r) \/ LockExclusive(t, r)
        <4>1. reads' = reads /\ committed' = committed
          BY <3>3 DEF FinishUpgrade, LockShared, LockExclusive, ghosts
        <4>2. Held(t) \subseteq Held(t)'
          BY <3>3 DEF FinishUpgrade, LockShared, LockExclusive, TryExclusive, Held, IInv, TypeOK
        <4>3. QED
          BY <2>3, <3>1, <4>1, <4>2
      <3>4. CASE \E r \in Records : BeginUpgrade(t, r)
        <4>1. PICK r \in Records : BeginUpgrade(t, r)
          BY <3>4
        <4>2. o \in reads[t] /\ o.cell[1] # r
          BY <2>3, <4>1 DEF BeginUpgrade, IInv, TypeOK
        <4>3. Held(t) \ {r} \subseteq Held(t)' /\ committed' = committed
          BY <4>1 DEF BeginUpgrade, Held, IInv, TypeOK
        <4>4. QED
          BY <2>1, <4>2, <4>3
      <3>5. CASE \E r \in Records, a \in Attributes : Read(t, r, a)
        <4>1. PICK r \in Records, a \in Attributes : Read(t, r, a)
          BY <3>5
        <4>2. Held(t)' = Held(t) /\ committed' = committed /\ <<r, a>> \in Cells
          BY <4>1, CellShape DEF Read, txnVars, Held
        <4>3. CASE o \in reads[t]
          BY <3>1, <4>2, <4>3
        <4>4. CASE o \notin reads[t]
          <5>1. o = [cell |-> <<r, a>>, value |-> mem[<<r, a>>]] /\ ~Written(t, <<r, a>>)
            BY <2>3, <4>1, <4>4 DEF Read, IInv, TypeOK
          <5>2. r \notin Nascent(t)
            BY <5>1, NascentWritten DEF Nascent, Written, IInv, TypeOK
          <5>3. r \in Held(t)
            BY <4>1, <5>2 DEF Read
          <5>4. committed[<<r, a>>] = mem[<<r, a>>]
            BY <4>2, <5>1, <5>3, OwnView
          <5>5. QED
            BY <4>2, <5>1, <5>3, <5>4
        <4>5. QED
          BY <4>3, <4>4
      <3>6. CASE \E r \in Records : InsertRecord(t, r) \/ \E a \in Attributes :
                   \E v \in Storable(t) : Write(t, r, a, v)
        BY <2>3, <3>1, <3>6 DEF InsertRecord, Write, ghosts, Held
      <3>7. CASE EndTxn(t)
        BY <2>3, <3>7 DEF EndTxn, IInv, TypeOK
      <3>8. CASE Rollback(t) \/ ReleaseLock(t) \/ FreeTxn(t)
        <4>1. reads' = reads /\ ~InProgress(t)
          BY <3>8 DEF Rollback, ReleaseLock, FreeTxn, ghosts, InProgress
        <4>2. QED
          BY <2>3, <4>1 DEF IInv, PhaseInv
      <3>9. QED
        BY <3>2, <3>3, <3>4, <3>5, <3>6, <3>7, <3>8 DEF Step, Operation, Finish
    <2>4. QED
      BY <2>2, <2>3 DEF ReadInv
  <1>3. QED
    BY <1>1, <1>2 DEF Next, Step

LEMMA PhaseStep == IInv /\ [Next]_vars => PhaseInv'
  <1> SUFFICES ASSUME IInv, [Next]_vars
               PROVE  PhaseInv'
    OBVIOUS
  <1>1. CASE UNCHANGED vars
    BY <1>1 DEF IInv, PhaseInv, vars, txnVars, ghosts, Held, InProgress, CLive
  <1>2. ASSUME NEW t \in Threads, Step(t)
        PROVE  PhaseInv'
    <2> USE <1>2
    <2>1. \A r \in Records : CLive(r) => CLive(r)'
      BY LiveStep
    <2>2. ASSUME NEW u \in Threads
          PROVE  /\ pc[u] \in {"idle", "retry"} => Held(u) = {}
                 /\ pc[u] \notin {"run", "upgrade", "rollback"} => log[u] = <<>>
                 /\ ~InProgress(u) => known[u] = {} /\ reads[u] = {}
                 /\ pc[u] = "upgrade" => upgrading[u] \in Records \ Held(u) /\ CLive(upgrading[u])
      BY DEF IInv, PhaseInv
    <2>3. ASSUME NEW u \in Threads \ {t}
          PROVE  /\ pc'[u] \in {"idle", "retry"} => Held(u)' = {}
                 /\ pc'[u] \notin {"run", "upgrade", "rollback"} => log'[u] = <<>>
                 /\ ~InProgress(u)' => known'[u] = {} /\ reads'[u] = {}
                 /\ pc'[u] = "upgrade" => upgrading'[u] \in Records \ Held(u)' /\ CLive(upgrading[u])'
      <3>1. /\ pc'[u] = pc[u] /\ log'[u] = log[u] /\ upgrading'[u] = upgrading[u]
            /\ known'[u] = known[u] /\ reads'[u] = reads[u]
            /\ Held(u)' = Held(u) /\ InProgress(u)' = InProgress(u)
        BY <2>3, OthersKeep DEF IInv, Held, InProgress
      <3>2. pc'[u] = "upgrade" => CLive(upgrading[u])'
        BY <2>1, <2>2, <3>1 DEF CLive
      <3>3. QED
        BY <2>2, <3>1, <3>2
    <2>4. /\ pc'[t] \in {"idle", "retry"} => Held(t)' = {}
          /\ pc'[t] \notin {"run", "upgrade", "rollback"} => log'[t] = <<>>
          /\ ~InProgress(t)' => known'[t] = {} /\ reads'[t] = {}
          /\ pc'[t] = "upgrade" => upgrading'[t] \in Records \ Held(t)' /\ CLive(upgrading[t])'
      <3> USE DEF InProgress
      <3>1. CASE BeginTxn(t)
        BY <3>1 DEF BeginTxn, IInv, TypeOK
      <3>2. CASE \E r \in Records : LockShared(t, r) \/ LockExclusive(t, r) \/ InsertRecord(t, r)
                   \/ \E a \in Attributes : Read(t, r, a) \/ \E v \in Storable(t) : Write(t, r, a, v)
        BY <3>2 DEF LockShared, LockExclusive, InsertRecord, Read, Write, Running
      <3>3. CASE \E r \in Records : BeginUpgrade(t, r)
        <4>1. PICK r \in Records : BeginUpgrade(t, r)
          BY <3>3
        <4>2. pc'[t] = "upgrade" /\ upgrading'[t] = r /\ r \notin Held(t)' /\ r \in Held(t)
          BY <4>1 DEF BeginUpgrade, Held, IInv, TypeOK
        <4>3. CLive(r)'
          BY <2>1, <4>2 DEF IInv, ReferenceInv
        <4>4. QED
          BY <4>2, <4>3 DEF CLive
      <3>4. CASE FinishUpgrade(t)
        BY <3>4 DEF FinishUpgrade, IInv, TypeOK
      <3>5. CASE EndTxn(t)
        BY <3>5 DEF EndTxn, IInv, TypeOK
      <3>6. CASE Rollback(t)
        BY <2>2, <3>6 DEF Rollback, IInv, TypeOK, ghosts
      <3>7. CASE ReleaseLock(t)
        BY <2>2, <3>7 DEF ReleaseLock, ghosts
      <3>8. CASE FreeTxn(t)
        BY <2>2, <3>8 DEF FreeTxn, txnVars, ghosts, Held, IInv, TypeOK
      <3>9. QED
        BY <3>1, <3>2, <3>3, <3>4, <3>5, <3>6, <3>7, <3>8 DEF Step, Operation, Finish
    <2>5. QED
      BY <2>3, <2>4 DEF PhaseInv, CLive
  <1>3. QED
    BY <1>1, <1>2 DEF Next, Step

\* LockAgreement for one record.
AgreeOn(r) ==
  /\ readers[r] = Cardinality(Sharers(r))
  /\ writer[r] = (Exclusive(r) # {})
  /\ \A t \in Exclusive(r) : Sharers(r) = {} /\ Exclusive(r) = {t}

\* A step that touches the lock of r only.
OnlyLockOf(r) ==
  \A q \in Records \ {r} :
    /\ readers'[q] = readers[q] /\ writer'[q] = writer[q]
    /\ Sharers(q)' = Sharers(q) /\ Exclusive(q)' = Exclusive(q)

LEMMA OneLock ==
  ASSUME LockAgreement, NEW r \in Records, OnlyLockOf(r), AgreeOn(r)'
  PROVE  LockAgreement'
  <1>1. ASSUME NEW q \in Records \ {r}
        PROVE  AgreeOn(q)'
    <2>1. /\ readers'[q] = readers[q] /\ writer'[q] = writer[q]
          /\ Sharers(q)' = Sharers(q) /\ Exclusive(q)' = Exclusive(q)
      BY <1>1 DEF OnlyLockOf
    <2>2. AgreeOn(q)
      BY <1>1 DEF LockAgreement, AgreeOn
    <2>3. QED
      BY <2>1, <2>2 DEF AgreeOn
  <1>2. \A q \in Records : AgreeOn(q)'
    BY <1>1
  <1>3. QED
    BY <1>2 DEF LockAgreement, AgreeOn

LEMMA TryStep ==
  ASSUME TypeOK, LockAgreement, NEW t \in Threads, NEW r \in Records, r \notin Held(t),
         TryExclusive(t, r), UNCHANGED <<readers, shared_locks>>
  PROVE  LockAgreement'
  <1>1. CASE writer[r] \/ readers[r] > 0
    <2>1. UNCHANGED <<writer, exclusive_locks>>
      BY <1>1 DEF TryExclusive, TypeOK
    <2>2. QED
      BY <2>1 DEF LockAgreement, Sharers, Exclusive
  <1>2. CASE ~writer[r] /\ readers[r] = 0
    <2>1. /\ writer' = [writer EXCEPT ![r] = TRUE]
          /\ exclusive_locks' = [exclusive_locks EXCEPT ![t] = @ \cup {r}]
      BY <1>2 DEF TryExclusive
    <2>2. Sharers(r) = {} /\ Exclusive(r) = {}
      BY <1>2, SharersFinite DEF LockAgreement
    <2>3. Sharers(r)' = {} /\ Exclusive(r)' = {t}
      BY <2>1, <2>2 DEF Sharers, Exclusive, TypeOK
    <2>4. readers'[r] = 0 /\ writer'[r] = TRUE
      BY <1>2, <2>1 DEF TypeOK
    <2>5. AgreeOn(r)'
      BY <2>3, <2>4, FS_EmptySet DEF AgreeOn
    <2>6. OnlyLockOf(r)
      BY <2>1 DEF OnlyLockOf, Sharers, Exclusive, TypeOK
    <2>7. QED
      BY <2>5, <2>6, OneLock
  <1>3. QED
    BY <1>1, <1>2 DEF TryExclusive

\* One more and one fewer shared lock.
LEMMA ShareStep ==
  ASSUME TypeOK, LockAgreement, NEW t \in Threads, NEW r \in Records,
         r \notin shared_locks[t], ~writer[r],
         readers' = [readers EXCEPT ![r] = @ + 1],
         shared_locks' = [shared_locks EXCEPT ![t] = @ \cup {r}],
         UNCHANGED <<writer, exclusive_locks>>
  PROVE  LockAgreement'
  <1>1. Exclusive(r) = {} /\ Exclusive(r)' = {} /\ writer'[r] = FALSE
    BY DEF LockAgreement, Exclusive, TypeOK
  <1>2. t \notin Sharers(r) /\ Sharers(r)' = Sharers(r) \cup {t}
    BY DEF Sharers, TypeOK
  <1>3. Cardinality(Sharers(r)') = Cardinality(Sharers(r)) + 1
    BY <1>2, SharersFinite, FS_AddElement
  <1>4. readers'[r] = Cardinality(Sharers(r)) + 1
    BY SharersFinite DEF TypeOK
  <1>5. AgreeOn(r)'
    BY <1>1, <1>3, <1>4 DEF AgreeOn
  <1>6. OnlyLockOf(r)
    BY DEF OnlyLockOf, Sharers, Exclusive, TypeOK
  <1>7. QED
    BY <1>5, <1>6, OneLock

LEMMA UnshareStep ==
  ASSUME TypeOK, LockAgreement, NEW t \in Threads, NEW r \in shared_locks[t],
         readers' = [readers EXCEPT ![r] = @ - 1],
         shared_locks' = [shared_locks EXCEPT ![t] = @ \ {r}],
         UNCHANGED <<writer, exclusive_locks>>
  PROVE  LockAgreement'
  <1>1. r \in Records
    BY DEF TypeOK
  <1>2. t \in Sharers(r) /\ Sharers(r)' = Sharers(r) \ {t}
    BY <1>1 DEF Sharers, TypeOK
  <1>3. Exclusive(r)' = {} /\ writer'[r] = FALSE
    BY <1>1, <1>2 DEF LockAgreement, Exclusive, TypeOK
  <1>4. Cardinality(Sharers(r)') = Cardinality(Sharers(r)) - 1
    BY <1>1, <1>2, SharersFinite, FS_RemoveElement
  <1>5. readers'[r] = Cardinality(Sharers(r)) - 1
    BY <1>1, SharersFinite DEF TypeOK
  <1>6. AgreeOn(r)'
    BY <1>3, <1>4, <1>5 DEF AgreeOn
  <1>7. OnlyLockOf(r)
    BY <1>1 DEF OnlyLockOf, Sharers, Exclusive, TypeOK
  <1>8. QED
    BY <1>1, <1>6, <1>7, OneLock

LEMMA LockStep == IInv /\ [Next]_vars => LockAgreement'
  <1> SUFFICES ASSUME IInv, [Next]_vars
               PROVE  LockAgreement'
    OBVIOUS
  <1>1. TypeOK /\ LockAgreement
    BY DEF IInv
  <1>2. ASSUME UNCHANGED <<readers, writer, shared_locks, exclusive_locks>>
        PROVE  LockAgreement'
    BY <1>1, <1>2 DEF LockAgreement, Sharers, Exclusive
  <1>3. CASE UNCHANGED vars
    BY <1>2, <1>3 DEF vars, txnVars, lockVars
  <1>4. ASSUME NEW t \in Threads, BeginTxn(t) \/ EndTxn(t) \/ Rollback(t) \/ FreeTxn(t)
        PROVE  LockAgreement'
    <2>1. UNCHANGED <<readers, writer, shared_locks, exclusive_locks>>
      BY <1>4, FreshTxn DEF BeginTxn, EndTxn, Rollback, FreeTxn, txnVars, lockVars
    <2>2. QED
      BY <1>2, <2>1
  <1>5. ASSUME NEW t \in Threads, NEW r \in Records, LockShared(t, r)
        PROVE  LockAgreement'
    <2>1. UNCHANGED <<writer, exclusive_locks>>
      BY <1>5 DEF LockShared
    <2>2. CASE UNCHANGED <<shared_locks, readers>>
      BY <1>2, <2>1, <2>2
    <2>3. CASE ~UNCHANGED <<shared_locks, readers>>
      BY <1>1, <1>5, <2>1, <2>3, ShareStep DEF LockShared, Held
    <2>4. QED
      BY <2>2, <2>3
  <1>6. ASSUME NEW t \in Threads, NEW r \in Records, LockExclusive(t, r)
        PROVE  LockAgreement'
    <2>1. UNCHANGED <<readers, shared_locks>>
      BY <1>6 DEF LockExclusive
    <2>2. CASE UNCHANGED <<writer, exclusive_locks>>
      BY <1>2, <2>1, <2>2
    <2>3. CASE r \notin Held(t) /\ TryExclusive(t, r)
      BY <1>1, <2>1, <2>3, TryStep
    <2>4. QED
      BY <1>6, <2>2, <2>3 DEF LockExclusive
  <1>7. ASSUME NEW t \in Threads, FinishUpgrade(t)
        PROVE  LockAgreement'
    <2>1. upgrading[t] \in Records /\ upgrading[t] \notin Held(t)
      BY <1>7 DEF IInv, PhaseInv, FinishUpgrade
    <2>2. TryExclusive(t, upgrading[t]) /\ UNCHANGED <<readers, shared_locks>>
      BY <1>7 DEF FinishUpgrade
    <2>3. QED
      BY <1>1, <2>1, <2>2, TryStep
  <1>8. ASSUME NEW t \in Threads, NEW r \in Records, BeginUpgrade(t, r)
        PROVE  LockAgreement'
    BY <1>1, <1>8, UnshareStep DEF BeginUpgrade
  <1>9. ASSUME NEW t \in Threads, NEW r \in Records, NEW a \in Attributes,
               Read(t, r, a) \/ \E v \in Storable(t) : Write(t, r, a, v)
        PROVE  LockAgreement'
    BY <1>2, <1>9 DEF Read, Write, txnVars, lockVars
  <1>10. ASSUME NEW t \in Threads, NEW r \in Records, InsertRecord(t, r)
         PROVE  LockAgreement'
    <2>1. \A u \in Threads : r \notin Held(u)
      BY <1>10, InsertEffect, FreeRecord
    <2>2. Sharers(r)' = {} /\ Exclusive(r)' = {}
      BY <1>10, <2>1 DEF Sharers, Exclusive, Held, InsertRecord
    <2>3. readers'[r] = 0 /\ writer'[r] = FALSE
      BY <1>1, <1>10 DEF InsertRecord, TypeOK
    <2>4. AgreeOn(r)'
      BY <2>2, <2>3, FS_EmptySet DEF AgreeOn
    <2>5. OnlyLockOf(r)
      BY <1>1, <1>10 DEF OnlyLockOf, Sharers, Exclusive, TypeOK, InsertRecord
    <2>6. QED
      BY <1>1, <2>4, <2>5, OneLock
  <1>11. ASSUME NEW t \in Threads, ReleaseLock(t)
         PROVE  LockAgreement'
    <2>1. ASSUME NEW r \in exclusive_locks[t],
                 writer' = [writer EXCEPT ![r] = FALSE],
                 exclusive_locks' = [exclusive_locks EXCEPT ![t] = @ \ {r}],
                 UNCHANGED <<readers, shared_locks>>
          PROVE  LockAgreement'
      <3>1. r \in Records /\ t \in Exclusive(r)
        BY <1>1 DEF TypeOK, Exclusive
      <3>2. Sharers(r) = {} /\ Exclusive(r) = {t} /\ readers[r] = 0
        BY <1>1, <3>1, SharersFinite DEF LockAgreement
      <3>3. Sharers(r)' = {} /\ Exclusive(r)' = {} /\ readers'[r] = 0 /\ writer'[r] = FALSE
        BY <1>1, <2>1, <3>1, <3>2 DEF Sharers, Exclusive, TypeOK
      <3>4. AgreeOn(r)'
        BY <3>3, FS_EmptySet DEF AgreeOn
      <3>5. OnlyLockOf(r)
        BY <1>1, <2>1 DEF OnlyLockOf, Sharers, Exclusive, TypeOK
      <3>6. QED
        BY <1>1, <3>1, <3>4, <3>5, OneLock
    <2>2. ASSUME NEW r \in shared_locks[t],
                 readers' = [readers EXCEPT ![r] = @ - 1],
                 shared_locks' = [shared_locks EXCEPT ![t] = @ \ {r}],
                 UNCHANGED <<writer, exclusive_locks>>
          PROVE  LockAgreement'
      BY <1>1, <2>2, UnshareStep
    <2>3. QED
      BY <1>11, <2>1, <2>2 DEF ReleaseLock
  <1>12. QED
    BY <1>3, <1>4, <1>5, <1>6, <1>7, <1>8, <1>9, <1>10, <1>11 DEF Next, Operation, Finish

LEMMA InitInv == Init => IInv
  <1> SUFFICES ASSUME Init
               PROVE  IInv
    OBVIOUS
  <1> USE ConstantsAssumption
  <1>1. TypeOK
    BY EmptyLog DEF Init, TypeOK, Phases, Values
  <1>2. \A t \in Threads : /\ Held(t) = {} /\ log[t] = <<>> /\ known[t] = {} /\ reads[t] = {}
                           /\ pc[t] = "idle"
    BY DEF Init, Held
  <1>3. \A t \in Threads : Nascent(t) = {} /\ \A c \in Cells : ~Written(t, c)
    BY <1>2, EmptyLog DEF Nascent, Written
  <1>4. LockAgreement
    <2> SUFFICES ASSUME NEW r \in Records
                 PROVE  AgreeOn(r)
      BY DEF LockAgreement, AgreeOn
    <2>1. Sharers(r) = {} /\ Exclusive(r) = {} /\ readers[r] = 0 /\ writer[r] = FALSE
      BY DEF Init, Sharers, Exclusive
    <2>2. QED
      BY <2>1, FS_EmptySet DEF AgreeOn
  <1>5. UndoRestores
    BY <1>2, <1>3, EmptyLog DEF Init, UndoRestores
  <1>6. PhaseInv
    BY <1>2 DEF PhaseInv
  <1>7. ReferenceInv
    BY <1>2 DEF ReferenceInv
  <1>8. LogInv
    BY <1>2, <1>3, EmptyLog DEF LogInv
  <1>9. MemoryInv
    BY <1>3 DEF MemoryInv
  <1>10. ReadInv
    BY <1>2 DEF ReadInv
  <1>11. ClosedInv
    <2>1. \A c \in Cells : committed[c] = (IF c[1] \in Roots THEN Null ELSE Absent)
      BY DEF Init
    <2>2. \A r \in Roots : CLive(r)
      BY <2>1, CellShape DEF CLive
    <2>3. \A c \in Cells : committed[c] \notin Records
      BY <2>1
    <2>4. QED
      BY <2>2, <2>3 DEF ClosedInv
  <1>12. QED
    BY <1>1, <1>4, <1>5, <1>6, <1>7, <1>8, <1>9, <1>10, <1>11 DEF IInv

LEMMA StepInv == IInv /\ [Next]_vars => IInv'
  <1>1. IInv => TypeOK /\ LockAgreement /\ PhaseInv
    BY DEF IInv
  <1>2. QED
    BY <1>1, TypeStep, LockStep, UndoStep, PhaseStep, ReferenceStep, LogStep, MemoryStep, ReadStep,
       ClosedStep DEF IInv

LEMMA SafetyOfInv == IInv => ReferencesLive /\ ReadsStable /\ CommittedClosed
  <1> SUFFICES ASSUME IInv
               PROVE  ReferencesLive /\ ReadsStable /\ CommittedClosed
    OBVIOUS
  <1>1. ReferencesLive
    <2> SUFFICES ASSUME NEW t \in Threads, NEW r \in known[t], NEW a \in Attributes
                 PROVE  mem[<<r, a>>] # Absent
      BY DEF ReferencesLive, Live
    <2>1. r \in Records /\ <<r, a>> \in Cells
      BY CellShape DEF IInv, TypeOK
    <2>2. CASE CLive(r)
      BY <2>1, <2>2, CommittedInMemory DEF CLive
    <2>3. CASE r \in Nascent(t)
      <3>1. Written(t, <<r, a>>)
        BY <2>3, NascentWritten DEF Nascent, Written, IInv, TypeOK
      <3>2. QED
        BY <2>1, <3>1 DEF IInv, MemoryInv
    <2>4. QED
      BY <2>2, <2>3 DEF IInv, ReferenceInv
  <1>2. ReadsStable
    BY DEF IInv, ReadInv, ReadsStable
  <1>3. CommittedClosed
    BY DEF IInv, ClosedInv, CommittedClosed, CLive
  <1>4. QED
    BY <1>1, <1>2, <1>3

\* IInv holds in every reachable state: each part of it is kept by every step that starts in all of it.
THEOREM Invariance == Spec => []IInv
  BY InitInv, StepInv, PTL DEF Spec

------------------------------------------------------------------------------
\* Every variable of the runtime keeps its type: a reader count never drops below zero and the cell
\* an undo entry restores never leaves the cells (unlock in releaseAllLocks, TransactionLog::rollback).
THEOREM TypeCorrect == Spec => []TypeOK
  <1>1. IInv => TypeOK
    BY DEF IInv
  <1>2. QED
    BY Invariance, <1>1, PTL

\* The lock word of every record agrees with the lock sets of all attempts, in the middle of an
\* upgrade and of releaseAllLocks too; so a writer excludes everybody else.
THEOREM LocksAgree == Spec => []LockAgreement
  <1>1. IInv => LockAgreement
    BY DEF IInv
  <1>2. QED
    BY Invariance, <1>1, PTL

\* Whenever an attempt is stopped, undoing its log from the newest entry gives the committed store.
THEOREM RollbackIsSafe == Spec => []UndoRestores
  <1>1. IInv => UndoRestores
    BY DEF IInv
  <1>2. QED
    BY Invariance, <1>1, PTL

\* No attempt holds a reference to a record an abort has freed.
THEOREM NoDanglingReference == Spec => []ReferencesLive
  BY Invariance, SafetyOfInv, PTL

\* Reads of records still locked stay equal to the committed values until the attempt ends.
THEOREM ReadsAreStable == Spec => []ReadsStable
  BY Invariance, SafetyOfInv, PTL

\* Committed data only refers to committed records.
THEOREM CommittedIsClosed == Spec => []CommittedClosed
  BY Invariance, SafetyOfInv, PTL
------------------------------------------------------------------------------
(* The refinement: in-place updates under record locks, undone from a log, look like private *)
(* buffers applied in one step.                                                             *)

Buffers == [t \in Threads |-> Buffer(t)]

\* A step of one attempt that leaves what another one has written leaves its buffer.
LEMMA BufferOfOthers ==
  ASSUME IInv, NEW t \in Threads, Step(t), NEW u \in Threads \ {t},
         \A c \in Cells : Written(u, c) => mem'[c] = mem[c]
  PROVE  Buffer(u)' = Buffer(u)
  <1>1. InProgress(u)' = InProgress(u) /\ \A c \in Cells : Written(u, c)' <=> Written(u, c)
    BY OthersKeep DEF IInv, InProgress, Written
  <1> DEFINE D == {d \in Cells : InProgress(u) /\ Written(u, d)}
  <1>2. {d \in Cells : InProgress(u) /\ Written(u, d)}' = D
    BY <1>1
  <1>3. Buffer(u) = [c \in D |-> mem[c]]
    BY DEF Buffer
  <1>4. Buffer(u)' = [c \in D |-> mem'[c]]
    BY <1>2 DEF Buffer
  <1>5. \A c \in D : mem'[c] = mem[c]
    OBVIOUS
  <1> HIDE DEF D
  <1>6. QED
    BY <1>3, <1>4, <1>5

\* An attempt that is not in progress, or has written nothing, has an empty buffer.
LEMMA EmptyBuffer ==
  ASSUME NEW t \in Threads, ~InProgress(t) \/ \A c \in Cells : ~Written(t, c)
  PROVE  Buffer(t) = Store!NoWrites
  <1>1. {d \in Cells : InProgress(t) /\ Written(t, d)} = {}
    OBVIOUS
  <1>2. QED
    BY <1>1 DEF Buffer, Store!NoWrites

LEMMA BuffersChange ==
  ASSUME NEW t \in Threads, NEW b, Buffer(t)' = b,
         \A u \in Threads \ {t} : Buffer(u)' = Buffer(u)
  PROVE  Buffers' = [Buffers EXCEPT ![t] = b]
  BY DEF Buffers

\* The abstract variables stay as they are.
Stutter == committed' = committed /\ reads' = reads /\ Buffers' = Buffers

LEMMA QuietStep ==
  ASSUME IInv, NEW t \in Threads, Step(t), mem' = mem, log' = log, InProgress(t)' = InProgress(t)
  PROVE  Buffers' = Buffers
  <1>1. \A c \in Cells : Written(t, c)' <=> Written(t, c)
    BY DEF Written
  <1>2. {d \in Cells : InProgress(t) /\ Written(t, d)}' = {d \in Cells : InProgress(t) /\ Written(t, d)}
    BY <1>1
  <1>3. Buffer(t)' = Buffer(t)
    BY <1>2 DEF Buffer
  <1>4. \A u \in Threads \ {t} : Buffer(u)' = Buffer(u)
    BY BufferOfOthers
  <1>5. QED
    BY <1>3, <1>4 DEF Buffers

LEMMA EmptyStep ==
  ASSUME IInv, NEW t \in Threads, Step(t), Buffer(t) = Store!NoWrites, Buffer(t)' = Store!NoWrites,
         \A u \in Threads \ {t}, c \in Cells : Written(u, c) => mem'[c] = mem[c]
  PROVE  Buffers' = Buffers
  <1>1. \A u \in Threads \ {t} : Buffer(u)' = Buffer(u)
    BY BufferOfOthers
  <1>2. QED
    BY <1>1 DEF Buffers

LEMMA BeginStutters == ASSUME IInv, NEW t \in Threads, BeginTxn(t) PROVE Stutter
  <1>1. Step(t) /\ committed' = committed /\ reads' = reads /\ mem' = mem /\ ~InProgress(t)
    BY DEF Step, BeginTxn, ghosts, InProgress
  <1>2. \A c \in Cells : ~Written(t, c)'
    BY EmptyLog DEF BeginTxn, IInv, TypeOK, Written
  <1>3. Buffer(t) = Store!NoWrites
    BY <1>1, EmptyBuffer
  <1>4. Buffer(t)' = Store!NoWrites
    <2>1. {d \in Cells : InProgress(t) /\ Written(t, d)}' = {}
      BY <1>2
    <2>2. QED
      BY <2>1 DEF Buffer, Store!NoWrites
  <1>5. QED
    BY <1>1, <1>3, <1>4, EmptyStep DEF Stutter

LEMMA LockStutters ==
  ASSUME IInv, NEW t \in Threads, NEW r \in Records, LockShared(t, r) \/ LockExclusive(t, r)
  PROVE  Stutter
  <1>1. Step(t)
    BY DEF Step, Operation
  <1>2. /\ committed' = committed /\ reads' = reads /\ mem' = mem /\ log' = log
        /\ InProgress(t)' = InProgress(t)
    BY DEF LockShared, LockExclusive, ghosts, InProgress
  <1>3. QED
    BY <1>1, <1>2, QuietStep DEF Stutter

LEMMA UpgradeStutters == ASSUME IInv, NEW t \in Threads, FinishUpgrade(t) PROVE Stutter
  <1>1. Step(t)
    BY DEF Step
  <1>2. /\ committed' = committed /\ reads' = reads /\ mem' = mem /\ log' = log
        /\ InProgress(t)' = InProgress(t)
    BY DEF FinishUpgrade, ghosts, InProgress, IInv, TypeOK
  <1>3. QED
    BY <1>1, <1>2, QuietStep DEF Stutter

LEMMA FinishStutters ==
  ASSUME IInv, NEW t \in Threads, Rollback(t) \/ ReleaseLock(t) \/ FreeTxn(t)
  PROVE  Stutter
  <1>1. Step(t) /\ committed' = committed /\ reads' = reads
    BY DEF Step, Finish, Rollback, ReleaseLock, FreeTxn, ghosts
  <1>2. ~InProgress(t) /\ ~InProgress(t)'
    BY DEF Rollback, ReleaseLock, FreeTxn, InProgress, IInv, TypeOK
  <1>3. Buffer(t) = Store!NoWrites
    BY <1>2, EmptyBuffer
  <1>4. Buffer(t)' = Store!NoWrites
    <2>1. {d \in Cells : InProgress(t) /\ Written(t, d)}' = {}
      BY <1>2
    <2>2. QED
      BY <2>1 DEF Buffer, Store!NoWrites
  <1>5. ASSUME NEW u \in Threads \ {t}, NEW c \in Cells, Written(u, c)
        PROVE  mem'[c] = mem[c]
    <2>1. CASE mem' = mem
      BY <2>1
    <2>2. CASE Rollback(t) /\ log[t] # <<>>
      <3>1. ~Written(t, c)
        BY <1>5, Owner
      <3>2. QED
        BY <2>2, <3>1, RollbackEffect
    <2>3. QED
      BY <2>1, <2>2 DEF Rollback, ReleaseLock, FreeTxn
  <1>6. QED
    BY <1>1, <1>3, <1>4, <1>5, EmptyStep DEF Stutter

LEMMA BeginUpgradeForgets ==
  ASSUME IInv, NEW t \in Threads, NEW r \in Records, BeginUpgrade(t, r)
  PROVE  Store!Forget(t, r)
  <1>1. Step(t)
    BY DEF Step, Operation
  <1>2. /\ committed' = committed /\ reads' = [reads EXCEPT ![t] = {o \in @ : o.cell[1] # r}]
        /\ mem' = mem /\ log' = log /\ InProgress(t)' = InProgress(t)
    BY DEF BeginUpgrade, InProgress, Running, IInv, TypeOK
  <1>3. Buffers' = Buffers
    BY <1>1, <1>2, QuietStep
  <1>4. QED
    BY <1>2, <1>3 DEF Store!Forget, Buffers

LEMMA ReadObserves ==
  ASSUME IInv, NEW t \in Threads, NEW r \in Records, NEW a \in Attributes, Read(t, r, a)
  PROVE  Stutter \/ \E c \in Cells : Store!Observe(t, c)
  <1>1. Step(t)
    BY DEF Step, Operation
  <1>2. committed' = committed /\ mem' = mem /\ log' = log /\ InProgress(t)' = InProgress(t)
    BY DEF Read, txnVars, InProgress
  <1>3. Buffers' = Buffers
    BY <1>1, <1>2, QuietStep
  <1>4. CASE Written(t, <<r, a>>)
    BY <1>2, <1>3, <1>4 DEF Stutter, Read
  <1>5. CASE ~Written(t, <<r, a>>)
    <2>1. r \notin Nascent(t)
      BY <1>5, NascentWritten DEF Nascent, Written, IInv, TypeOK
    <2>2. r \in Held(t)
      BY <2>1 DEF Read
    <2>3. <<r, a>> \in Cells /\ mem[<<r, a>>] = committed[<<r, a>>]
      BY <1>5, <2>2, OwnView, CellShape
    <2>4. committed[<<r, a>>] # Absent
      BY <2>2 DEF IInv, ReferenceInv, CLive
    <2>5. reads' = [reads EXCEPT ![t] = @ \cup {[cell |-> <<r, a>>, value |-> committed[<<r, a>>]]}]
      BY <1>5, <2>3 DEF Read
    <2>6. Store!Observe(t, <<r, a>>)
      BY <1>2, <1>3, <2>4, <2>5 DEF Store!Observe, Buffers
    <2>7. QED
      BY <2>3, <2>6
  <1>6. QED
    BY <1>4, <1>5

LEMMA BufferDomain ==
  ASSUME NEW u \in Threads, NEW c \in Cells
  PROVE  /\ c \in DOMAIN Buffers[u] <=> InProgress(u) /\ Written(u, c)
         /\ c \in DOMAIN Buffers[u] => Buffers[u][c] = mem[c]
  BY DEF Buffers, Buffer

LEMMA WritePuts ==
  ASSUME IInv, NEW t \in Threads, NEW r \in Records, NEW a \in Attributes, NEW v \in Storable(t),
         Write(t, r, a, v)
  PROVE  Store!Put(t, <<r, a>>, v) /\ v \in Values
  <1> DEFINE c == <<r, a>>
  <1>1. Step(t)
    BY DEF Step, Operation
  <1>2. /\ committed' = committed /\ reads' = reads /\ r \in Held(t) \cup Nascent(t)
        /\ InProgress(t) /\ InProgress(t)'
    BY DEF Write, ghosts, InProgress, Running, Held
  <1>3. c \in Cells /\ \A d \in Cells : mem'[d] = IF d = c THEN v ELSE mem[d]
    BY CellShape DEF Write, IInv, TypeOK
  <1>4. \A d \in Cells : Written(t, d)' <=> Written(t, d) \/ d = c
    BY WriteEffect
  <1>5. \A u \in Threads \ {t} : ~Written(u, c)
    BY <1>2, <1>3, Owner DEF Held
  <1>6. committed[c] # Absent \/ c \in DOMAIN Buffers[t]
    <2>1. CASE r \in Held(t)
      BY <2>1 DEF IInv, ReferenceInv, CLive
    <2>2. CASE r \in Nascent(t)
      <3>1. Written(t, c)
        BY <2>2, NascentWritten DEF Nascent, Written, IInv, TypeOK
      <3>2. QED
        BY <1>2, <1>3, <3>1, BufferDomain
    <2>3. QED
      BY <1>2, <2>1, <2>2
  <1>7. \A u \in Threads \ {t} : c \notin DOMAIN Buffers[u]
    BY <1>3, <1>5, BufferDomain
  <1>8. Buffer(t)' = Store!Overwrite(Buffer(t), {c}, v)
    <2> DEFINE D == {d \in Cells : InProgress(t) /\ Written(t, d)}
    <2>1. {d \in Cells : InProgress(t) /\ Written(t, d)}' = D \cup {c}
      BY <1>2, <1>3, <1>4
    <2>2. Buffer(t)' = [d \in D \cup {c} |-> mem'[d]]
      BY <2>1 DEF Buffer
    <2>3. Buffer(t) = [d \in D |-> mem[d]]
      BY DEF Buffer
    <2>4. \A d \in D : d \in Cells
      OBVIOUS
    <2> HIDE DEF D, c
    <2>5. \A d \in D \cup {c} : mem'[d] = IF d \in {c} THEN v ELSE Buffer(t)[d]
      BY <1>3, <2>3, <2>4
    <2>6. QED
      BY <2>2, <2>3, <2>5 DEF Store!Overwrite
  <1>9. \A u \in Threads \ {t} : Buffer(u)' = Buffer(u)
    BY <1>1, <1>3, <1>5, BufferOfOthers
  <1>10. Buffers' = [Buffers EXCEPT ![t] = Store!Overwrite(Buffers[t], {c}, v)]
    BY <1>8, <1>9, BuffersChange DEF Buffers
  <1>11. v \in Values
    BY ConstantsAssumption DEF Storable, Values, IInv, TypeOK
  <1> HIDE DEF c
  <1>12. Store!Put(t, c, v)
    BY <1>2, <1>6, <1>7, <1>10 DEF Store!Put, Store!Private, Buffers
  <1>13. QED
    BY <1>11, <1>12 DEF c

LEMMA InsertCreates ==
  ASSUME IInv, NEW t \in Threads, NEW r \in Records, InsertRecord(t, r)
  PROVE  Store!Create(t, r)
  <1> DEFINE S == {r} \X Attributes
  <1>1. Step(t)
    BY DEF Step, Operation
  <1>2. committed' = committed /\ reads' = reads /\ InProgress(t) /\ InProgress(t)'
    BY DEF InsertRecord, ghosts, InProgress, Running
  <1>3. \A d \in Cells : mem'[d] = IF d \in S THEN Null ELSE mem[d]
    BY CellShape DEF InsertRecord
  <1>4. \A d \in Cells : Written(t, d)' <=> Written(t, d) \/ d \in S
    <2>1. \A d \in Cells : Written(t, d)' <=> Written(t, d) \/ d[1] = r
      BY InsertEffect
    <2>2. \A d \in Cells : d \in S <=> d[1] = r
      BY CellShape
    <2>3. QED
      BY <2>1, <2>2
  <1>5. \A a \in Attributes : committed[<<r, a>>] = Absent
    BY InsertEffect, FreeRecord
  <1>6. \A u \in Threads, d \in Cells : Written(u, d) => d \notin S
    <2>1. \A u \in Threads, d \in Cells : d[1] = r => ~Written(u, d)
      BY InsertEffect, FreeRecord
    <2>2. QED
      BY <2>1
  <1>7. \A u \in Threads, a \in Attributes : <<r, a>> \notin DOMAIN Buffers[u]
    BY <1>6, BufferDomain, CellShape
  <1>8. Buffer(t)' = Store!Overwrite(Buffer(t), S, Null)
    <2> DEFINE D == {d \in Cells : InProgress(t) /\ Written(t, d)}
    <2>1. S \subseteq Cells
      BY DEF Cells
    <2>2. {d \in Cells : InProgress(t) /\ Written(t, d)}' = D \cup S
      BY <1>2, <1>4, <2>1
    <2>3. Buffer(t)' = [d \in D \cup S |-> mem'[d]]
      BY <2>2 DEF Buffer
    <2>4. Buffer(t) = [d \in D |-> mem[d]]
      BY DEF Buffer
    <2>5. \A d \in D : d \in Cells
      OBVIOUS
    <2> HIDE DEF D, S
    <2>6. \A d \in D \cup S : mem'[d] = IF d \in S THEN Null ELSE Buffer(t)[d]
      BY <1>3, <2>1, <2>4, <2>5
    <2>7. QED
      BY <2>3, <2>4, <2>6 DEF Store!Overwrite
  <1>9. \A u \in Threads \ {t} : Buffer(u)' = Buffer(u)
    BY <1>1, <1>3, <1>6, BufferOfOthers
  <1>10. Buffers' = [Buffers EXCEPT ![t] = Store!Overwrite(Buffers[t], S, Null)]
    BY <1>8, <1>9, BuffersChange DEF Buffers
  <1>11. QED
    BY <1>2, <1>5, <1>7, <1>10 DEF Store!Create, Store!Private, Buffers

LEMMA EndCommitsOrAborts ==
  ASSUME IInv, NEW t \in Threads, EndTxn(t)
  PROVE  Store!Commit(t) \/ Store!Abort(t)
  <1>1. Step(t) /\ mem' = mem /\ reads' = [reads EXCEPT ![t] = {}] /\ InProgress(t) /\ ~InProgress(t)'
    BY DEF Step, Finish, EndTxn, InProgress, IInv, TypeOK
  <1>2. Buffer(t)' = Store!NoWrites
    <2>1. {d \in Cells : InProgress(t) /\ Written(t, d)}' = {}
      BY <1>1
    <2>2. QED
      BY <2>1 DEF Buffer, Store!NoWrites
  <1>3. \A u \in Threads \ {t} : Buffer(u)' = Buffer(u)
    BY <1>1, BufferOfOthers
  <1>4. Buffers' = [Buffers EXCEPT ![t] = Store!NoWrites]
    BY <1>2, <1>3, BuffersChange
  <1>5. CASE status[t] = "ACTIVE"
    <2>1. committed' = [c \in Cells |-> IF Written(t, c) THEN mem[c] ELSE committed[c]]
      BY <1>5, CommitLive
    <2>2. \A c \in Cells : /\ c \in DOMAIN Buffers[t] <=> Written(t, c)
                           /\ c \in DOMAIN Buffers[t] => Buffers[t][c] = mem[c]
      BY <1>1, BufferDomain
    <2>3. committed' = [c \in Cells |-> IF c \in DOMAIN Buffers[t] THEN Buffers[t][c] ELSE committed[c]]
      BY <2>1, <2>2
    <2>4. \A o \in reads[t] : committed[o.cell] = o.value
      BY DEF IInv, ReadInv
    <2>5. Store!Commit(t)
      BY <1>1, <1>4, <2>3, <2>4 DEF Store!Commit, Store!Cells, Cells, Buffers
    <2>6. QED
      BY <2>5
  <1>6. CASE status[t] = "ABORTED"
    <2>1. committed' = committed
      BY <1>6 DEF EndTxn
    <2>2. Store!Abort(t)
      BY <1>1, <1>4, <2>1 DEF Store!Abort, Buffers
    <2>3. QED
      BY <2>2
  <1>7. QED
    BY <1>5, <1>6 DEF EndTxn

LEMMA InitStore == Init => Store!Init
  <1> SUFFICES ASSUME Init
               PROVE  Store!Init
    OBVIOUS
  <1>1. committed = [c \in Store!Cells |-> IF c[1] \in Roots THEN Null ELSE Absent]
    BY DEF Init, Cells, Store!Cells
  <1>2. reads = [t \in Threads |-> {}]
    BY DEF Init
  <1>3. \A t \in Threads : Buffer(t) = Store!NoWrites
    BY EmptyBuffer DEF Init, InProgress
  <1>4. QED
    BY <1>1, <1>2, <1>3 DEF Store!Init

LEMMA StepStore == IInv /\ [Next]_vars => [Store!Next]_(Store!vars)
  <1> SUFFICES ASSUME IInv, [Next]_vars
               PROVE  Stutter \/ Store!Next
    BY DEF Stutter, Store!vars, Buffers
  <1>1. CASE UNCHANGED vars
    BY <1>1 DEF Stutter, Buffers, Buffer, InProgress, Written, vars, txnVars, ghosts
  <1>2. ASSUME NEW t \in Threads, BeginTxn(t) \/ FinishUpgrade(t) \/ Rollback(t)
                                  \/ ReleaseLock(t) \/ FreeTxn(t)
        PROVE  Stutter
    BY <1>2, BeginStutters, UpgradeStutters, FinishStutters
  <1>3. ASSUME NEW t \in Threads, NEW r \in Records, LockShared(t, r) \/ LockExclusive(t, r)
        PROVE  Stutter
    BY <1>3, LockStutters
  <1>4. ASSUME NEW t \in Threads, NEW r \in Records, BeginUpgrade(t, r) \/ InsertRecord(t, r)
        PROVE  Store!Next
    BY <1>4, BeginUpgradeForgets, InsertCreates DEF Store!Next
  <1>5. ASSUME NEW t \in Threads, NEW r \in Records, NEW a \in Attributes, Read(t, r, a)
        PROVE  Stutter \/ Store!Next
    BY <1>5, ReadObserves DEF Store!Next, Store!Cells, Cells
  <1>6. ASSUME NEW t \in Threads, NEW r \in Records, NEW a \in Attributes, NEW v \in Storable(t),
               Write(t, r, a, v)
        PROVE  Store!Next
    <2>1. Store!Put(t, <<r, a>>, v) /\ v \in Store!Values /\ <<r, a>> \in Store!Cells
      BY <1>6, WritePuts DEF Store!Cells, Store!Values, Values
    <2>2. QED
      BY <2>1 DEF Store!Next
  <1>7. ASSUME NEW t \in Threads, EndTxn(t)
        PROVE  Store!Next
    BY <1>7, EndCommitsOrAborts DEF Store!Next
  <1>8. QED
    BY <1>1, <1>2, <1>3, <1>4, <1>5, <1>6, <1>7 DEF Next, Operation, Finish

------------------------------------------------------------------------------
\* The runtime implements the atomic store: an attempt takes effect at its commit, all at once, and
\* only while what it read under locks it still holds is what is committed; an abort has no effect.
THEOREM Refinement == Spec => StoreSpec
  BY InitStore, StepStore, Invariance, PTL DEF Spec, StoreSpec, Store!Spec
==============================================================================
