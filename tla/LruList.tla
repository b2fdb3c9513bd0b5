------------------------------- MODULE LruList -------------------------------
(***************************************************************************)
(* The generated structure LruList: insert(key, value) by several threads, *)
(* with the locks the injector places.  Each step is what happens between  *)
(* two points where another thread can interfere: the index is read and    *)
(* written without a lock and outside the transaction; the list record is  *)
(* locked shared by get_size and then upgraded by pop_back or              *)
(* push_front_with_return.  Every failed lock call comes before the first  *)
(* change, so an abort only gives the locks back and the outer function    *)
(* starts again; what runs between two lock calls is atomic (TxnRuntime).  *)
(***************************************************************************)
EXTENDS ListHeap, FiniteSets

CONSTANTS
  Threads, Keys, Capacity, NoThread, NoKey,
  Workloads   \* which keys each thread may insert: functions from threads to sets of keys

ASSUME LruAssumption ==
  /\ Capacity \in Nat \ {0} /\ IsFiniteSet(Threads)
  /\ NoThread \notin Threads /\ NoKey \notin Keys
  /\ Workloads \subseteq [Threads -> SUBSET Keys]

VARIABLES
  keys_of,          \* the workload of this run
  pc,               \* where in insert the thread is
  key,              \* its argument
  popped_key,       \* filled by pop_back
  new_record,       \* the node it has pushed
  map,              \* the index: key -> node
  heap, key_,       \* the list record and the nodes with their keys
  writer, readers,  \* the lock of the list record
  answer,           \* what insert last returned to the thread
  committed         \* history: the keys in the list as of the last commit

locals == <<key, popped_key, new_record>>
list   == <<heap, key_>>
lock   == <<writer, readers>>
vars   == <<keys_of, pc, locals, map, list, lock, answer, committed>>

KeysIn(h) == LET s == Forward(h) IN [i \in DOMAIN s |-> key_[s[i]]]

NoAnswer == [key |-> {}, new |-> FALSE]

\* As after init, with the list empty.  The builder refuses that init at this
\* commit: it updates a runtime constant and is no singleton (README, LruList).
Init ==
  /\ keys_of \in Workloads
  /\ pc = [t \in Threads |-> "idle"]
  /\ key = [t \in Threads |-> NoKey]
  /\ popped_key = [t \in Threads |-> NoKey]
  /\ new_record = [t \in Threads |-> Null]
  /\ map = [k \in Keys |-> Null]
  /\ heap = EmptyHeap
  /\ key_ = [n \in Nodes |-> NoKey]
  /\ writer = NoThread /\ readers = {}
  /\ answer = [t \in Threads |-> NoAnswer]
  /\ committed = <<>>

Go(t, label) == pc' = [pc EXCEPT ![t] = label]

\* endTxn: the temporaries are gone, the locks are free.
Release(t) ==
  /\ writer' = IF writer = t THEN NoThread ELSE writer
  /\ readers' = readers \ {t}
Forget(t) ==
  /\ popped_key' = [popped_key EXCEPT ![t] = NoKey]
  /\ new_record' = [new_record EXCEPT ![t] = Null]
Return(t, b) ==
  /\ answer' = [answer EXCEPT ![t] = [key |-> key[t], new |-> b]]
  /\ key' = [key EXCEPT ![t] = NoKey]
  /\ Go(t, "idle")

Call(t, k) ==
  /\ pc[t] = "idle" /\ k \in keys_of[t]
  /\ Go(t, "lookup")
  /\ key' = [key EXCEPT ![t] = k]
  /\ UNCHANGED <<popped_key, new_record, map, list, lock, answer, committed>>

\* READ_INDEXED takes no lock; a key that is there ends the call.
Lookup(t) ==
  /\ pc[t] = "lookup"
  /\ \/ map[key[t]] # Null /\ Return(t, FALSE)
     \/ map[key[t]] = Null /\ Go(t, "size") /\ UNCHANGED <<key, answer>>
  /\ UNCHANGED <<popped_key, new_record, map, list, lock, committed>>

\* Aborted by a failed lock call: nothing to undo, the outer function tries again.
Retry(t) == Go(t, "lookup") /\ Release(t)

\* The guard lets a list of Capacity elements grow.
FaultyGetSize(t) ==
  /\ pc[t] = "size"
  /\ \/ /\ writer = NoThread
        /\ readers' = readers \cup {t}
        /\ Go(t, IF heap.size > Capacity THEN "pop" ELSE "push")
        /\ UNCHANGED writer
     \/ writer # NoThread /\ Retry(t)
  /\ UNCHANGED <<locals, map, list, answer, committed>>

\* get_size under a shared lock, and the comparison with max_capacity - 1.
GetSize(t) ==
  /\ pc[t] = "size"
  /\ \/ /\ writer = NoThread
        /\ readers' = readers \cup {t}
        /\ Go(t, IF heap.size > Capacity - 1 THEN "pop" ELSE "push")
        /\ UNCHANGED writer
     \/ writer # NoThread /\ Retry(t)
  /\ UNCHANGED <<locals, map, list, answer, committed>>

\* lock_exclusive on a record locked shared: the shared lock goes first.
BeginUpgrade(t) ==
  /\ pc[t] \in {"pop", "push"} /\ t \in readers
  /\ readers' = readers \ {t}
  /\ UNCHANGED <<pc, locals, map, list, writer, answer, committed>>

\* Sharers do not keep the lock from being taken.
FaultyFinishUpgrade(t) ==
  /\ pc[t] \in {"pop", "push"} /\ t \notin readers /\ writer # t
  /\ \/ writer = NoThread /\ writer' = t /\ UNCHANGED <<pc, readers>>
     \/ writer # NoThread /\ Retry(t)
  /\ UNCHANGED <<locals, map, list, answer, committed>>

FinishUpgrade(t) ==
  /\ pc[t] \in {"pop", "push"} /\ t \notin readers /\ writer # t
  /\ \/ writer = NoThread /\ readers = {} /\ writer' = t /\ UNCHANGED <<pc, readers>>
     \/ (writer # NoThread \/ readers # {}) /\ Retry(t)
  /\ UNCHANGED <<locals, map, list, answer, committed>>

Pop(t) ==
  /\ pc[t] = "pop" /\ writer = t
  /\ heap' = PopBackCounted(heap)
  /\ popped_key' = [popped_key EXCEPT ![t] = key_[heap.tail]]
  /\ Go(t, "remove")
  /\ UNCHANGED <<key, new_record, map, key_, lock, answer, committed>>

\* The entry stays ("FIXME: remove from map also!").
FaultyRemoveIndexed(t) ==
  /\ pc[t] = "remove"
  /\ Go(t, "push")
  /\ UNCHANGED <<locals, map, list, lock, answer, committed>>

\* REMOVE_INDEXED takes effect at once, for everybody.
RemoveIndexed(t) ==
  /\ pc[t] = "remove"
  /\ map' = [map EXCEPT ![popped_key[t]] = Null]
  /\ Go(t, "push")
  /\ UNCHANGED <<locals, list, lock, answer, committed>>

\* Addresses nothing refers to any more.  The code never frees a popped node; as nobody can reach
\* one, its address stands for a new one as well, and |Nodes| bounds the list, not the run.
Unused == Nodes \ (ToSet(Forward(heap)) \cup Range(map) \cup Range(new_record))

\* A node without its key.
FaultyPush(t, n) ==
  /\ pc[t] = "push" /\ writer = t /\ n \in Unused
  /\ heap' = PushFrontCounted(heap, n)
  /\ new_record' = [new_record EXCEPT ![t] = n]
  /\ Go(t, "index")
  /\ UNCHANGED <<key, popped_key, map, key_, lock, answer, committed>>

Push(t, n) ==
  /\ pc[t] = "push" /\ writer = t /\ n \in Unused
  /\ heap' = PushFrontCounted(heap, n)
  /\ key_' = [key_ EXCEPT ![n] = key[t]]
  /\ new_record' = [new_record EXCEPT ![t] = n]
  /\ Go(t, "index")
  /\ UNCHANGED <<key, popped_key, map, lock, answer, committed>>

\* INSERT_INDEXED: a key that is in the index already stays as it is, and the function is left
\* with its return value never assigned.
InsertIndexed(t) ==
  /\ pc[t] = "index"
  /\ \/ /\ map[key[t]] = Null
        /\ map' = [map EXCEPT ![key[t]] = new_record[t]]
        /\ Go(t, "true")
     \/ /\ map[key[t]] # Null
        /\ \/ Go(t, "true")
           \/ Go(t, "false")
        /\ UNCHANGED map
  /\ UNCHANGED <<locals, list, lock, answer, committed>>

\* endTxn with status ACTIVE, also after the failed INSERT_INDEXED: everything is kept.
Commit(t) ==
  /\ pc[t] \in {"true", "false"}
  /\ committed' = KeysIn(heap)
  /\ Release(t) /\ Forget(t) /\ Return(t, pc[t] = "true")
  /\ UNCHANGED <<map, list>>

Next ==
  /\ UNCHANGED keys_of
  /\ \E t \in Threads :
       \/ \E k \in Keys : Call(t, k)
       \/ Lookup(t) \/ GetSize(t) \/ BeginUpgrade(t) \/ FinishUpgrade(t)
       \/ Pop(t) \/ RemoveIndexed(t)
       \/ \E n \in Nodes : Push(t, n)
       \/ InsertIndexed(t) \/ Commit(t)

Spec == Init /\ [][Next]_vars
------------------------------------------------------------------------------
Labels == {"idle", "lookup", "size", "pop", "remove", "push", "index", "true", "false"}

\* Types; whoever changes the list has it alone.
TypeOK ==
  /\ keys_of \in Workloads
  /\ pc \in [Threads -> Labels]
  /\ key \in [Threads -> Keys \cup {NoKey}]
  /\ popped_key \in [Threads -> Keys \cup {NoKey}]
  /\ new_record \in [Threads -> Pointers]
  /\ map \in [Keys -> Pointers]
  /\ heap \in Heaps
  /\ key_ \in [Nodes -> Keys \cup {NoKey}]
  /\ writer \in Threads \cup {NoThread}
  /\ readers \subseteq Threads
  /\ writer # NoThread => readers = {}

\* No insert is between pop_back and its last index operation.
Settled == \A t \in Threads : pc[t] \notin {"remove", "index"}

\* The list keeps its shape and its count while the inserts of several threads come and go,
\* whatever their keys (get_size, pop_back, push_front_with_return).
ListIntact ==
  /\ ~heap.fault
  /\ Forward(heap) = Reverse(Backward(heap))
  /\ heap.size = Len(Forward(heap))

\* No two threads insert the same key.
Disjoint == \A t, u \in Threads : t # u => keys_of[t] \cap keys_of[u] = {}

\* Between inserts of threads with keys of their own the index finds exactly the nodes of the list,
\* each under its own key, so no key is in the list twice.
IndexAgreement ==
  Disjoint /\ Settled => \A k \in Keys :
    {map[k]} \ {Null} = {n \in ToSet(Forward(heap)) : key_[n] = k}

\* The list exceeds its capacity by at most one element for every other thread that inserts: an
\* upgrade lets others push between get_size and the push it decided on.  A thread that is alone
\* never exceeds it.
BoundedOvershoot ==
  heap.size <= Capacity + Cardinality({t \in Threads : keys_of[t] # {}}) - 1

Lru == INSTANCE AtomicLru WITH
  lru <- committed, Initial <- <<>>, Slack <- Cardinality(Threads) - 1, Renews <- FALSE

\* Threads with keys of their own see an LRU list in which every insert takes effect at once, in
\* spite of the unlocked index, the upgrades and the retries of several inserts at a time.
LruSpec == Lru!Init /\ [][Disjoint => Lru!Next]_<<committed, answer>>

\* lru-list.cpp: a key that is in the list already "will not be updated, and false will be
\* returned", so no key is in the list twice.
KeysOnce ==
  \A m, n \in ToSet(Forward(heap)) : key_[m] = key_[n] => m = n
==============================================================================
