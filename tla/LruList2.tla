------------------------------- MODULE LruList2 ------------------------------
(***************************************************************************)
(* The generated structure LruList2: an LRU list over the list of fixed    *)
(* size, which starts full of dummy nodes.  insert(key, value) pops and    *)
(* pushes for a new key and touches the node of a key that is there.  The  *)
(* list record is locked exclusively from the first statement of pop_back  *)
(* or touch to the end of the transaction; the index is used without a     *)
(* lock.  After a fault the thread stops where it is.                      *)
(***************************************************************************)
EXTENDS ListHeap, FiniteSets

CONSTANTS
  Threads, Keys, NoThread, NoKey,
  Dummies,   \* a sequence: the nodes init creates
  Workloads  \* which keys each thread may insert: functions from threads to sets of keys

\* pop_back takes for granted that the list keeps a second node.
ASSUME Lru2Assumption ==
  /\ Dummies \in Seq(Nodes) /\ Len(Dummies) > 1 /\ IsInjective(Dummies)
  /\ NoThread \notin Threads /\ NoKey \notin Keys
  /\ Workloads \subseteq [Threads -> SUBSET Keys]

Capacity == Len(Dummies)

VARIABLES
  keys_of,    \* the workload of this run
  pc, key, rec, popped_key, new_record,
  map, heap, key_,
  writer,
  answer,
  committed   \* history: the keys in the list as of the last commit

locals == <<key, rec, popped_key, new_record>>
list   == <<heap, key_>>
vars   == <<keys_of, pc, locals, map, list, writer, answer, committed>>

\* The list record's init: one push_front for every element; the heap after i of them.
Initialised[i \in 0..Capacity] ==
  IF i = 0 THEN EmptyHeap ELSE PushFront(Initialised[i - 1], Dummies[i])

KeysIn(h) == LET s == Forward(h) IN [i \in DOMAIN s |-> key_[s[i]]]

NoAnswer == [key |-> {}, new |-> FALSE]

Init ==
  /\ keys_of \in Workloads
  /\ pc = [t \in Threads |-> "idle"]
  /\ key = [t \in Threads |-> NoKey]
  /\ rec = [t \in Threads |-> Null]
  /\ popped_key = [t \in Threads |-> NoKey]
  /\ new_record = [t \in Threads |-> Null]
  /\ map = [k \in Keys |-> Null]
  /\ heap = Initialised[Capacity]
  /\ key_ = [n \in Nodes |-> NoKey]
  /\ writer = NoThread
  /\ answer = [t \in Threads |-> NoAnswer]
  /\ committed = [i \in DOMAIN Dummies |-> NoKey]

Go(t, label) == pc' = [pc EXCEPT ![t] = label]

Call(t, k) ==
  /\ pc[t] = "idle" /\ k \in keys_of[t]
  /\ Go(t, "lookup")
  /\ key' = [key EXCEPT ![t] = k]
  /\ UNCHANGED <<rec, popped_key, new_record, map, list, writer, answer, committed>>

\* READ_INDEXED without a lock: the node may leave the list before the thread has the list lock.
Lookup(t) ==
  /\ pc[t] = "lookup"
  /\ rec' = [rec EXCEPT ![t] = map[key[t]]]
  /\ Go(t, IF map[key[t]] = Null THEN "pop" ELSE "touch")
  /\ UNCHANGED <<key, popped_key, new_record, map, list, writer, answer, committed>>

\* The lock is believed to be there.
FaultyAcquire(t) ==
  /\ pc[t] \in {"pop", "touch"} /\ writer # t
  /\ writer' = t
  /\ UNCHANGED <<pc, locals, map, list, answer, committed>>

\* The first statement of pop_back and of touch: one try, and back to the lookup if it fails.
Acquire(t) ==
  /\ pc[t] \in {"pop", "touch"} /\ writer # t
  /\ \/ writer = NoThread /\ writer' = t /\ UNCHANGED <<pc, rec>>
     \/ /\ writer # NoThread
        /\ Go(t, "lookup")
        /\ rec' = [rec EXCEPT ![t] = Null]
        /\ UNCHANGED writer
  /\ UNCHANGED <<key, popped_key, new_record, map, list, answer, committed>>

Pop(t) ==
  /\ pc[t] = "pop" /\ writer = t
  /\ heap' = PopBackUnchecked(heap)
  /\ popped_key' = [popped_key EXCEPT ![t] = key_[heap.tail]]
  /\ Go(t, IF heap'.fault THEN "fault" ELSE "remove")
  /\ UNCHANGED <<key, rec, new_record, map, key_, writer, answer, committed>>

\* The key of a dummy is in no index; removing it does nothing.
RemoveIndexed(t) ==
  /\ pc[t] = "remove"
  /\ map' = [k \in Keys |-> IF k = popped_key[t] THEN Null ELSE map[k]]
  /\ Go(t, "push")
  /\ UNCHANGED <<locals, list, writer, answer, committed>>

\* Addresses nothing refers to any more stand for new ones.
Unused == Nodes \ (ToSet(Forward(heap)) \cup Range(map) \cup Range(rec) \cup Range(new_record))

Push(t, n) ==
  /\ pc[t] = "push" /\ n \in Unused
  /\ heap' = PushFrontUnchecked(heap, n)
  /\ key_' = [key_ EXCEPT ![n] = key[t]]
  /\ new_record' = [new_record EXCEPT ![t] = n]
  /\ Go(t, "index")
  /\ UNCHANGED <<key, rec, popped_key, map, writer, answer, committed>>

\* A key that is in the index already stays, and the return value is never assigned.
InsertIndexed(t) ==
  /\ pc[t] = "index"
  /\ \/ /\ map[key[t]] = Null
        /\ map' = [map EXCEPT ![key[t]] = new_record[t]]
        /\ Go(t, "true")
     \/ /\ map[key[t]] # Null
        /\ \/ Go(t, "true")
           \/ Go(t, "false")
        /\ UNCHANGED map
  /\ UNCHANGED <<locals, list, writer, answer, committed>>

\* A key that is there keeps its place in the order.
FaultyTouchRecord(t) ==
  /\ pc[t] = "touch" /\ writer = t
  /\ Go(t, "false")
  /\ UNCHANGED <<locals, map, list, writer, answer, committed>>

TouchRecord(t) ==
  /\ pc[t] = "touch" /\ writer = t
  /\ heap' = Touch(heap, rec[t])
  /\ Go(t, IF heap'.fault THEN "fault" ELSE "false")
  /\ UNCHANGED <<locals, map, key_, writer, answer, committed>>

Commit(t) ==
  /\ pc[t] \in {"true", "false"}
  /\ committed' = KeysIn(heap)
  /\ answer' = [answer EXCEPT ![t] = [key |-> key[t], new |-> pc[t] = "true"]]
  /\ writer' = NoThread
  /\ key' = [key EXCEPT ![t] = NoKey]
  /\ rec' = [rec EXCEPT ![t] = Null]
  /\ popped_key' = [popped_key EXCEPT ![t] = NoKey]
  /\ new_record' = [new_record EXCEPT ![t] = Null]
  /\ Go(t, "idle")
  /\ UNCHANGED <<map, list>>

Next ==
  /\ UNCHANGED keys_of
  /\ \E t \in Threads :
       \/ \E k \in Keys : Call(t, k)
       \/ Lookup(t) \/ Acquire(t) \/ Pop(t) \/ RemoveIndexed(t)
       \/ \E n \in Nodes : Push(t, n)
       \/ InsertIndexed(t) \/ TouchRecord(t) \/ Commit(t)

Spec == Init /\ [][Next]_vars
------------------------------------------------------------------------------
Labels == {"idle", "lookup", "pop", "remove", "push", "index", "touch", "true", "false", "fault"}

\* Types; a thread past its first list statement has the list lock.
TypeOK ==
  /\ keys_of \in Workloads
  /\ pc \in [Threads -> Labels]
  /\ key \in [Threads -> Keys \cup {NoKey}]
  /\ rec \in [Threads -> Pointers]
  /\ popped_key \in [Threads -> Keys \cup {NoKey}]
  /\ new_record \in [Threads -> Pointers]
  /\ map \in [Keys -> Pointers]
  /\ heap \in Heaps
  /\ key_ \in [Nodes -> Keys \cup {NoKey}]
  /\ writer \in Threads \cup {NoThread}
  /\ \A t \in Threads : pc[t] \in {"remove", "push", "index", "true", "false"} => writer = t

Settled == \A t \in Threads : pc[t] \notin {"remove", "push", "index"}

\* No two threads insert the same key, and no thread's key can be evicted by another: either one
\* thread does all the inserts or the list has room for every key.
Fitting ==
  LET used == UNION {keys_of[t] : t \in Threads} IN
  /\ \A t, u \in Threads : t # u => keys_of[t] \cap keys_of[u] = {}
  /\ \/ \E t \in Threads : keys_of[t] = used
     \/ IsFiniteSet(used) /\ Cardinality(used) <= Capacity

\* Between two inserts of such a workload the list has exactly Capacity nodes, the same from both
\* ends, and the index finds exactly its nodes that are no dummies (init, pop_back,
\* push_front_with_return, touch).
ListIntact ==
  Fitting /\ Settled =>
    /\ Len(Forward(heap)) = Capacity
    /\ Forward(heap) = Reverse(Backward(heap))
    /\ \A k \in Keys : {map[k]} \ {Null} = {n \in ToSet(Forward(heap)) : key_[n] = k}

Lru == INSTANCE AtomicLru WITH
  lru <- committed, Initial <- [i \in DOMAIN Dummies |-> NoKey], Slack <- 0, Renews <- TRUE

\* For such a workload: an LRU list of Capacity keys in which every insert takes effect at once and
\* a key that is there becomes the most recently used.
LruSpec == Lru!Init /\ [][Fitting => Lru!Next]_<<committed, answer>>

\* lru-list.cpp: for a key that is there, insert "updates the eviction list, making the element the
\* most-recently used": touch gets a node of the list and meets no null record.
TouchFindsNode == Fitting => ~heap.fault
==============================================================================
