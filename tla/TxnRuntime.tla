----------------------------- MODULE TxnRuntime ------------------------------
(***************************************************************************)
(* The transaction runtime under every generated DCDS function: the retry  *)
(* loop the code generator wraps around a function, the lock entry points  *)
(* it calls, in-place reads and writes of records, the undo log and the    *)
(* commit and abort of TransactionManager.                                 *)
(*                                                                         *)
(* The function itself is any program that obeys what CCInjector puts into *)
(* it: a record is read under a lock of the attempt and written under an   *)
(* exclusive one, a record the attempt has inserted itself is used without *)
(* a lock, and nothing follows a lock call that returned false.  Cells hold *)
(* record references, which is what makes an aborted insertion dangerous;  *)
(* an attempt can only name a record it has read a reference to.           *)
(*                                                                         *)
(* Definitions whose names begin with Faulty are what the operation after  *)
(* them would be with a plausible mistake in it.  Nothing here uses them;  *)
(* they are there to show that the properties notice such a mistake.       *)
(***************************************************************************)
EXTENDS Naturals, Sequences, FiniteSets

CONSTANTS
  Threads,
  Records,      \* the addresses a record can have
  Roots,        \* the records that exist before the threads start
  Attributes,
  Data,         \* what a cell can hold besides a reference to a record
  Null,         \* the null reference and initial content, one of Data
  Absent,       \* the content of memory that holds no record
  MaxLog        \* bound: entries in the undo log of one attempt

ASSUME ConstantsAssumption ==
  /\ Roots \subseteq Records
  /\ Attributes # {}
  /\ IsFiniteSet(Threads)
  /\ Null \in Data
  /\ Data \cap Records = {}
  /\ Absent \notin Records \cup Data
  /\ MaxLog \in Nat

VARIABLES
  pc,               \* where the thread is in the retry loop
  status,           \* Txn::status
  exclusive_locks,  \* Txn::exclusive_locks
  shared_locks,     \* Txn::shared_locks
  log,              \* Txn::log, newest entry first
  upgrading,        \* the record lock_exclusive is upgrading
  writer, readers,  \* the rw_mutex of every record
  mem,              \* the content of every cell
  known,            \* the references in the attempt's temporary variables
  reads,            \* history: observations made under a lock still held
  committed         \* history: the cells as the last commit left them

txnVars  == <<status, exclusive_locks, shared_locks, log>>
lockVars == <<writer, readers>>
ghosts   == <<reads, committed>>
vars == <<pc, txnVars, upgrading, lockVars, mem, known, ghosts>>

Cells  == Records \X Attributes
Values == Records \cup Data

InsertLog == [type : {"INSERT"}, record : Records]
UpdateLog == [type : {"UPDATE"}, record : Records, attribute_index : Attributes,
              prev_value : Values \cup {Absent}]
LogItem   == InsertLog \cup UpdateLog

Phases == {"idle", "run", "upgrade", "rollback", "release", "retry"}

------------------------------------------------------------------------------
\* The cells an entry of the undo log is about, and what such a cell held before the entry.
Covers(e, c) == e.record = c[1] /\ (e.type = "UPDATE" => e.attribute_index = c[2])
Before(e)    == IF e.type = "INSERT" THEN Absent ELSE e.prev_value

\* The cells a log covers, and the records it says were inserted.
WrittenIn(l, c) == \E i \in DOMAIN l : Covers(l[i], c)
NascentIn(l)    == {r \in Records : \E i \in DOMAIN l : l[i].type = "INSERT" /\ l[i].record = r}

Written(t, c) == WrittenIn(log[t], c)
Nascent(t)    == NascentIn(log[t])
Held(t)       == exclusive_locks[t] \cup shared_locks[t]

Live(r) == \A a \in Attributes : mem[<<r, a>>] # Absent

\* The generated code is between two calls and has not been told to give up.
Running(t) == pc[t] = "run" /\ status[t] = "ACTIVE"

Init ==
  /\ pc = [t \in Threads |-> "idle"]
  /\ status = [t \in Threads |-> "ACTIVE"]
  /\ exclusive_locks = [t \in Threads |-> {}]
  /\ shared_locks = [t \in Threads |-> {}]
  /\ log = [t \in Threads |-> <<>>]
  /\ upgrading = [t \in Threads |-> Null]
  /\ writer = [r \in Records |-> FALSE]
  /\ readers = [r \in Records |-> 0]
  /\ mem = [c \in Cells |-> IF c[1] \in Roots THEN Null ELSE Absent]
  /\ known = [t \in Threads |-> {}]
  /\ reads = [t \in Threads |-> {}]
  /\ committed = mem

------------------------------------------------------------------------------
\* beginTxn: a new Txn; the temporaries of the function start over.
BeginTxn(t) ==
  /\ pc[t] \in {"idle", "retry"}
  /\ pc' = [pc EXCEPT ![t] = "run"]
  /\ status' = [status EXCEPT ![t] = "ACTIVE"]
  /\ exclusive_locks' = [exclusive_locks EXCEPT ![t] = {}]
  /\ shared_locks' = [shared_locks EXCEPT ![t] = {}]
  /\ log' = [log EXCEPT ![t] = <<>>]
  /\ known' = [known EXCEPT ![t] = Roots]
  /\ UNCHANGED <<upgrading, lockVars, mem, ghosts>>

\* What the injected code may lock: any record it can name, except one it knows to be its own.
Lockable(t) == known[t] \ Nascent(t)

\* A lock held already is enough; otherwise one try, and a failed try aborts the attempt.
LockShared(t, r) ==
  /\ Running(t) /\ r \in Lockable(t)
  /\ \/ /\ r \in Held(t)
        /\ UNCHANGED <<status, shared_locks, readers>>
     \/ /\ r \notin Held(t) /\ ~writer[r]
        /\ readers' = [readers EXCEPT ![r] = @ + 1]
        /\ shared_locks' = [shared_locks EXCEPT ![t] = @ \cup {r}]
        /\ UNCHANGED status
     \/ /\ r \notin Held(t) /\ writer[r]
        /\ status' = [status EXCEPT ![t] = "ABORTED"]
        /\ UNCHANGED <<shared_locks, readers>>
  /\ UNCHANGED <<pc, exclusive_locks, log, upgrading, writer, mem, known, ghosts>>

\* try_lock that looks at the writer bit only.
FaultyTryExclusive(t, r) ==
  \/ /\ ~writer[r]
     /\ writer' = [writer EXCEPT ![r] = TRUE]
     /\ exclusive_locks' = [exclusive_locks EXCEPT ![t] = @ \cup {r}]
     /\ UNCHANGED status
  \/ /\ writer[r]
     /\ status' = [status EXCEPT ![t] = "ABORTED"]
     /\ UNCHANGED <<writer, exclusive_locks>>

\* RecordMetaData::lock_ex and what lock_exclusive makes of its result.
TryExclusive(t, r) ==
  \/ /\ ~writer[r] /\ readers[r] = 0
     /\ writer' = [writer EXCEPT ![r] = TRUE]
     /\ exclusive_locks' = [exclusive_locks EXCEPT ![t] = @ \cup {r}]
     /\ UNCHANGED status
  \/ /\ writer[r] \/ readers[r] > 0
     /\ status' = [status EXCEPT ![t] = "ABORTED"]
     /\ UNCHANGED <<writer, exclusive_locks>>

LockExclusive(t, r) ==
  /\ Running(t) /\ r \in Lockable(t)
  /\ \/ r \in exclusive_locks[t] /\ UNCHANGED <<status, exclusive_locks, writer>>
     \/ r \notin Held(t) /\ TryExclusive(t, r)
  /\ UNCHANGED <<pc, shared_locks, log, upgrading, readers, mem, known, ghosts>>

\* The shared lock is given back but stays in shared_locks.
FaultyBeginUpgrade(t, r) ==
  /\ Running(t) /\ r \in Lockable(t)
  /\ r \in shared_locks[t] /\ r \notin exclusive_locks[t]
  /\ pc' = [pc EXCEPT ![t] = "upgrade"]
  /\ upgrading' = [upgrading EXCEPT ![t] = r]
  /\ readers' = [readers EXCEPT ![r] = @ - 1]
  /\ reads' = [reads EXCEPT ![t] = {o \in @ : o.cell[1] # r}]
  /\ UNCHANGED <<status, exclusive_locks, shared_locks, log, writer, mem, known, committed>>

\* An upgrade gives the shared lock back first: nobody holds r until the second half runs.
BeginUpgrade(t, r) ==
  /\ Running(t) /\ r \in Lockable(t)
  /\ r \in shared_locks[t] /\ r \notin exclusive_locks[t]
  /\ pc' = [pc EXCEPT ![t] = "upgrade"]
  /\ upgrading' = [upgrading EXCEPT ![t] = r]
  /\ shared_locks' = [shared_locks EXCEPT ![t] = @ \ {r}]
  /\ readers' = [readers EXCEPT ![r] = @ - 1]
  /\ reads' = [reads EXCEPT ![t] = {o \in @ : o.cell[1] # r}]
  /\ UNCHANGED <<status, exclusive_locks, log, writer, mem, known, committed>>

\* The exclusive lock is waited for instead of tried.
FaultyFinishUpgrade(t) ==
  /\ pc[t] = "upgrade"
  /\ IF writer[upgrading[t]] \/ readers[upgrading[t]] > 0
     THEN UNCHANGED vars
     ELSE /\ TryExclusive(t, upgrading[t])
          /\ pc' = [pc EXCEPT ![t] = "run"]
          /\ upgrading' = [upgrading EXCEPT ![t] = Null]
          /\ UNCHANGED <<shared_locks, log, readers, mem, known, ghosts>>

FinishUpgrade(t) ==
  /\ pc[t] = "upgrade"
  /\ TryExclusive(t, upgrading[t])
  /\ pc' = [pc EXCEPT ![t] = "run"]
  /\ upgrading' = [upgrading EXCEPT ![t] = Null]
  /\ UNCHANGED <<shared_locks, log, readers, mem, known, ghosts>>

------------------------------------------------------------------------------
\* A read for which no lock was placed.
FaultyRead(t, r, a) ==
  /\ Running(t) /\ r \in known[t]
  /\ known' = [known EXCEPT ![t] = @ \cup ({mem[<<r, a>>]} \cap Records)]
  /\ UNCHANGED <<pc, txnVars, upgrading, lockVars, mem, ghosts>>

\* table_read_attribute: the cell is copied into a temporary.
Read(t, r, a) ==
  /\ Running(t) /\ r \in Held(t) \cup Nascent(t)
  /\ known' = [known EXCEPT ![t] = @ \cup ({mem[<<r, a>>]} \cap Records)]
  /\ reads' = IF Written(t, <<r, a>>) THEN reads
              ELSE [reads EXCEPT ![t] = @ \cup {[cell |-> <<r, a>>, value |-> mem[<<r, a>>]]}]
  /\ UNCHANGED <<pc, txnVars, upgrading, lockVars, mem, committed>>

\* The memcpy before addUpdateLog: the log saves the new content.
FaultyWrite(t, r, a, v) ==
  /\ Running(t) /\ r \in exclusive_locks[t] \cup Nascent(t)
  /\ Len(log[t]) < MaxLog
  /\ log' = [log EXCEPT ![t] = <<[type |-> "UPDATE", record |-> r, attribute_index |-> a,
                                  prev_value |-> v]>> \o @]
  /\ mem' = [mem EXCEPT ![<<r, a>>] = v]
  /\ UNCHANGED <<pc, status, exclusive_locks, shared_locks, upgrading, lockVars, known, ghosts>>

\* table_write_attribute: the previous content goes to the front of the log, then the cell changes.
Write(t, r, a, v) ==
  /\ Running(t) /\ r \in exclusive_locks[t] \cup Nascent(t)
  /\ Len(log[t]) < MaxLog
  /\ log' = [log EXCEPT ![t] = <<[type |-> "UPDATE", record |-> r, attribute_index |-> a,
                                  prev_value |-> mem[<<r, a>>]]>> \o @]
  /\ mem' = [mem EXCEPT ![<<r, a>>] = v]
  /\ UNCHANGED <<pc, status, exclusive_locks, shared_locks, upgrading, lockVars, known, ghosts>>

\* insertMainRecord: malloc returns any address that holds no record, also one freed by an abort.
InsertRecord(t, r) ==
  /\ Running(t) /\ Len(log[t]) < MaxLog
  /\ \A a \in Attributes : mem[<<r, a>>] = Absent
  /\ mem' = [c \in Cells |-> IF c[1] = r THEN Null ELSE mem[c]]
  /\ writer' = [writer EXCEPT ![r] = FALSE]
  /\ readers' = [readers EXCEPT ![r] = 0]
  /\ log' = [log EXCEPT ![t] = <<[type |-> "INSERT", record |-> r]>> \o @]
  /\ known' = [known EXCEPT ![t] = @ \cup {r}]
  /\ UNCHANGED <<pc, status, exclusive_locks, shared_locks, upgrading, ghosts>>

------------------------------------------------------------------------------
\* An abort that releases its locks without undoing its changes.
FaultyEndTxn(t) ==
  /\ pc[t] = "run"
  /\ pc' = [pc EXCEPT ![t] = "release"]
  /\ committed' = [c \in Cells |-> IF Written(t, c) /\ status[t] = "ACTIVE"
                                   THEN mem[c] ELSE committed[c]]
  /\ log' = [log EXCEPT ![t] = <<>>]
  /\ known' = [known EXCEPT ![t] = {}]
  /\ reads' = [reads EXCEPT ![t] = {}]
  /\ UNCHANGED <<status, exclusive_locks, shared_locks, upgrading, lockVars, mem>>

\* endTransaction decides by the status alone.  The log of a committed
\* attempt is never looked at again, which is modelled by emptying it.
EndTxn(t) ==
  /\ pc[t] = "run"
  /\ \/ /\ status[t] = "ACTIVE"
        /\ pc' = [pc EXCEPT ![t] = "release"]
        /\ committed' = [c \in Cells |-> IF Written(t, c) THEN mem[c] ELSE committed[c]]
        /\ log' = [log EXCEPT ![t] = <<>>]
     \/ /\ status[t] = "ABORTED"
        /\ pc' = [pc EXCEPT ![t] = "rollback"]
        /\ UNCHANGED <<committed, log>>
  /\ known' = [known EXCEPT ![t] = {}]
  /\ reads' = [reads EXCEPT ![t] = {}]
  /\ UNCHANGED <<status, exclusive_locks, shared_locks, upgrading, lockVars, mem>>

\* rollback_create frees the record, rollback_update copies the saved value back.
Undo(e) == [c \in Cells |-> IF Covers(e, c) THEN Before(e) ELSE mem[c]]

\* TransactionLog::rollback, one entry at a time from the newest.
Rollback(t) ==
  /\ pc[t] = "rollback"
  /\ \/ /\ log[t] # <<>>
        /\ mem' = Undo(Head(log[t]))
        /\ log' = [log EXCEPT ![t] = Tail(@)]
        /\ UNCHANGED pc
     \/ /\ log[t] = <<>>
        /\ pc' = [pc EXCEPT ![t] = "release"]
        /\ UNCHANGED <<mem, log>>
  /\ UNCHANGED <<status, exclusive_locks, shared_locks, upgrading, lockVars, known, ghosts>>

\* The shared locks are forgotten, not given back.
FaultyReleaseLock(t) ==
  /\ pc[t] = "release"
  /\ \/ \E r \in exclusive_locks[t] :
          /\ writer' = [writer EXCEPT ![r] = FALSE]
          /\ exclusive_locks' = [exclusive_locks EXCEPT ![t] = @ \ {r}]
          /\ UNCHANGED shared_locks
     \/ /\ exclusive_locks[t] = {} /\ shared_locks[t] # {}
        /\ shared_locks' = [shared_locks EXCEPT ![t] = {}]
        /\ UNCHANGED <<writer, exclusive_locks>>
  /\ UNCHANGED <<pc, status, log, upgrading, readers, mem, known, ghosts>>

\* releaseAllLocks, one lock at a time: the exclusive ones, then the shared ones.
ReleaseLock(t) ==
  /\ pc[t] = "release"
  /\ \/ \E r \in exclusive_locks[t] :
          /\ writer' = [writer EXCEPT ![r] = FALSE]
          /\ exclusive_locks' = [exclusive_locks EXCEPT ![t] = @ \ {r}]
          /\ UNCHANGED <<readers, shared_locks>>
     \/ /\ exclusive_locks[t] = {}
        /\ \E r \in shared_locks[t] :
             /\ readers' = [readers EXCEPT ![r] = @ - 1]
             /\ shared_locks' = [shared_locks EXCEPT ![t] = @ \ {r}]
        /\ UNCHANGED <<writer, exclusive_locks>>
  /\ UNCHANGED <<pc, status, log, upgrading, mem, known, ghosts>>

\* The Txn is freed; the loop of the outer function returns or goes round again.
FreeTxn(t) ==
  /\ pc[t] = "release" /\ Held(t) = {}
  /\ pc' = [pc EXCEPT ![t] = IF status[t] = "ACTIVE" THEN "idle" ELSE "retry"]
  /\ UNCHANGED <<txnVars, upgrading, lockVars, mem, known, ghosts>>

------------------------------------------------------------------------------
\* What a statement can store: a constant or a reference in a temporary.  The main record of the
\* data structure (a root) is passed around by the runtime and is no expression of the language.
Storable(t) == (known[t] \ Roots) \cup Data

\* The generated function between two calls of the runtime.
Operation(t) ==
  \E r \in Records :
    \/ LockShared(t, r) \/ LockExclusive(t, r) \/ BeginUpgrade(t, r)
    \/ InsertRecord(t, r)
    \/ \E a \in Attributes :
         Read(t, r, a) \/ \E v \in Storable(t) : Write(t, r, a, v)

Finish(t) == EndTxn(t) \/ Rollback(t) \/ ReleaseLock(t) \/ FreeTxn(t)

Next == \E t \in Threads : BeginTxn(t) \/ Operation(t) \/ FinishUpgrade(t) \/ Finish(t)

Spec == Init /\ [][Next]_vars

\* A thread inside a call keeps running; whether a caller calls again is its own affair.
InCall(t) == pc[t] # "idle" /\ (BeginTxn(t) \/ Operation(t) \/ FinishUpgrade(t) \/ Finish(t))

FairSpec == Spec /\ \A t \in Threads : WF_vars(InCall(t))
------------------------------------------------------------------------------
TypeOK ==
  /\ pc \in [Threads -> Phases]
  /\ status \in [Threads -> {"ACTIVE", "ABORTED"}]
  /\ exclusive_locks \in [Threads -> SUBSET Records]
  /\ shared_locks \in [Threads -> SUBSET Records]
  /\ log \in [Threads -> Seq(LogItem)]
  /\ upgrading \in [Threads -> Records \cup {Null}]
  /\ writer \in [Records -> BOOLEAN]
  /\ readers \in [Records -> Nat]
  /\ mem \in [Cells -> Values \cup {Absent}]
  /\ committed \in [Cells -> Values \cup {Absent}]
  /\ known \in [Threads -> SUBSET Records]
  /\ reads \in [Threads -> SUBSET [cell : Cells, value : Values \cup {Absent}]]

\* The lock word of a record says what the lock sets of the attempts say: it counts the sharers,
\* its writer bit is set exactly when an attempt has the record in exclusive_locks, and a writer
\* is alone (lock_shared, lock_exclusive with its upgrade, releaseAllLocks).
Sharers(r)   == {t \in Threads : r \in shared_locks[t]}
Exclusive(r) == {t \in Threads : r \in exclusive_locks[t]}

LockAgreement ==
  \A r \in Records :
    /\ readers[r] = Cardinality(Sharers(r))
    /\ writer[r] = (Exclusive(r) # {})
    /\ \A t \in Exclusive(r) : Sharers(r) = {} /\ Exclusive(r) = {t}

\* The undo logs and the memory together always give the committed store back: the oldest entry
\* for a cell holds its committed content, and a cell in no log has it (addUpdateLog before the
\* memcpy, addInsertLog, rollback from the newest entry).
OldestSaves(l, store) ==
  \A i \in DOMAIN l : \A c \in Cells :
    Covers(l[i], c) /\ (\A j \in DOMAIN l : j > i => ~Covers(l[j], c)) => Before(l[i]) = store[c]

UndoRestores ==
  /\ \A t \in Threads : OldestSaves(log[t], committed)
  /\ \A c \in Cells : (\A t \in Threads : ~Written(t, c)) => mem[c] = committed[c]

\* Every reference an attempt holds leads to a record that exists, whoever is rolling back
\* an insertion at the time (rollback_create against the pointers read by other attempts).
ReferencesLive == \A t \in Threads : \A r \in known[t] : Live(r)

\* What an attempt has read and still has locked is the committed value until the attempt ends.
\* A read whose lock an upgrade gave back is not covered (BeginUpgrade takes it out of reads).
ReadsStable == \A t \in Threads : \A o \in reads[t] : committed[o.cell] = o.value

\* The committed store never holds a reference to a record that was not committed with it or before.
CommittedClosed ==
  \A c \in Cells : committed[c] \in Records =>
    \A a \in Attributes : committed[<<committed[c], a>>] # Absent

InProgress(t) == pc[t] \in {"run", "upgrade"}

\* What an attempt has written, found in memory.
Buffer(t) == [c \in {d \in Cells : InProgress(t) /\ Written(t, d)} |-> mem[c]]

Store == INSTANCE AtomicStore WITH
  store <- committed,
  view <- reads,
  buffer <- [t \in Threads |-> Buffer(t)]

\* In-place updates with an undo log and record locks look like private buffers applied in one
\* step: nothing of an attempt shows before its commit, an aborted one never shows, and a commit
\* finds all the reads it still relies on unchanged.
StoreSpec == Store!Spec

\* An attempt never waits for another one: every lock is one try, so every attempt comes to its end.
AttemptEnds == \A t \in Threads : InProgress(t) ~> ~InProgress(t)

\* A call that has the data structure to itself from some point on does return: no aborted or
\* committed attempt leaves a lock behind (the retry loop of the outer function).
LoneCallReturns ==
  \A t \in Threads :
    <>[](\A u \in Threads \ {t} : pc[u] = "idle") => (pc[t] = "retry" ~> pc[t] = "idle")
==============================================================================
