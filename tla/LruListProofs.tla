---------------------------- MODULE LruListProofs -----------------------------
(***************************************************************************)
(* LruList for any number of threads, keys and nodes and any capacity: the *)
(* list keeps its shape and its count, its size exceeds the capacity by    *)
(* less than the number of threads that insert, and threads with keys of   *)
(* their own see an LRU list in which every insert takes effect at once.   *)
(***************************************************************************)
EXTENDS LruList, ListHeapProofs

Order == Forward(heap)

\* The writer has taken or decided to add an element and has not yet pushed.
Settling == writer # NoThread /\ pc[writer] \in {"remove", "push"}

\* Whoever is past its first change has the list, and who has the list is between lock and commit.
LockInv ==
  \A t \in Threads :
    /\ pc[t] \in {"remove", "index", "true", "false"} => writer = t
    /\ writer = t => pc[t] \in {"pop", "push", "remove", "index", "true", "false"}
    /\ pc[t] # "idle" => key[t] \in keys_of[t]

\* A thread that has found the list full still finds it full when it has the lock: every insert
\* that takes a node away gives one back before it commits.
ListInv ==
  /\ Linked(heap, Order) /\ heap.size = Len(Order) /\ ~heap.fault
  /\ (\E t \in Threads : pc[t] = "pop") => heap.size >= IF Settling THEN Capacity - 1 ELSE Capacity

ShapeInv == TypeOK /\ LockInv /\ ListInv

Changing == {t \in Threads : pc[t] \in {"push", "remove"}}
Active   == {t \in Threads : keys_of[t] # {}}

\* Every decision to push is counted from get_size on.
CountInv == heap.size + Cardinality(Changing) <= Capacity + Cardinality(Active) - 1

\* Between threads with keys of their own: a key that a thread has not found stays away, and index
\* and list agree but for the key that is being evicted or added.
IndexInv ==
  /\ \A n \in ToSet(Order) : key_[n] \in Keys
  /\ \A t \in Threads : /\ pc[t] \in {"size", "pop", "remove", "push", "index"} => map[key[t]] = Null
                        /\ pc[t] = "remove" => Holders(Order, key_, popped_key[t]) = {}
                        /\ pc[t] = "index" => /\ new_record[t] \in Nodes
                                              /\ Holders(Order, key_, key[t]) = {new_record[t]}
  /\ \A k \in Keys :
       \/ Found(map[k]) = Holders(Order, key_, k)
       \/ \E t \in Threads : pc[t] = "remove" /\ popped_key[t] = k
       \/ \E t \in Threads : pc[t] = "index" /\ key[t] = k

\* What the transaction of the writer has done to the keys as of the last commit.
Evicted(c, K) == Len(c) >= Capacity /\ c # <<>> /\ K = Front(c)
Renewed(c, K, k) ==
  \/ Len(c) < Capacity + Cardinality(Threads) - 1 /\ K = <<k>> \o c
  \/ Len(c) >= Capacity /\ c # <<>> /\ K = <<k>> \o Front(c)

CommitInv ==
  LET K == KeysIn(heap) IN
  /\ committed \in Seq(Keys)
  /\ writer = NoThread => committed = K
  /\ \A t \in Threads : writer = t =>
       /\ key[t] \notin ToSet(committed) /\ pc[t] # "false"
       /\ pc[t] = "pop" => committed = K
       /\ pc[t] = "remove" => Evicted(committed, K) /\ popped_key[t] = Last(committed)
       /\ pc[t] = "push" => committed = K \/ Evicted(committed, K)
       /\ pc[t] \in {"index", "true"} => Renewed(committed, K, key[t])
------------------------------------------------------------------------------
\* The count is no part of the shape.
LEMMA CountOnly ==
  ASSUME NEW h \in Heaps, NEW s, Linked(h, s), NEW k \in Int
  PROVE LET g == [h EXCEPT !.size = k]
        IN g \in Heaps /\ Linked(g, s) /\ g.size = k /\ g.fault = h.fault
<1> DEFINE g == [h EXCEPT !.size = k]
<1>1. /\ g.head = h.head /\ g.tail = h.tail /\ g.next = h.next /\ g.prev = h.prev
      /\ g.size = k /\ g.fault = h.fault /\ g \in Heaps
  BY DEF Heaps
<1> HIDE DEF g
<1>2. Linked(g, s)
  BY <1>1 DEF Linked
<1> QED BY <1>1, <1>2 DEF g

LEMMA CountedPush ==
  ASSUME NEW h \in Heaps, NEW s, Linked(h, s), NEW n \in Nodes, n \notin ToSet(s)
  PROVE /\ PushFrontCounted(h, n) \in Heaps /\ Linked(PushFrontCounted(h, n), <<n>> \o s)
        /\ PushFrontCounted(h, n).size = h.size + 1 /\ PushFrontCounted(h, n).fault = h.fault
<1> DEFINE g == PushFront(h, n)
<1>1. g \in Heaps /\ Linked(g, <<n>> \o s) /\ g.size = h.size /\ g.fault = h.fault
  BY PushFrontLinks
<1>2. PushFrontCounted(h, n) = [g EXCEPT !.size = g.size + 1]
  BY DEF PushFrontCounted
<1> HIDE DEF g
<1>3. g.size + 1 \in Int
  BY <1>1 DEF Heaps
<1> QED BY <1>1, <1>2, <1>3, CountOnly

LEMMA CountedPop ==
  ASSUME NEW h \in Heaps, NEW s, Linked(h, s), s # <<>>
  PROVE /\ h.tail \in Nodes /\ h.tail = Last(s)
        /\ PopBackCounted(h) \in Heaps /\ Linked(PopBackCounted(h), Front(s))
        /\ PopBackCounted(h).size = h.size - 1 /\ PopBackCounted(h).fault = h.fault
<1> DEFINE g == PopBack(h)
<1>1. /\ g \in Heaps /\ Linked(g, Front(s)) /\ g.size = h.size /\ g.fault = h.fault
      /\ h.tail = s[Len(s)] /\ h.tail \in Nodes
  BY PopBackLinks
<1>2. PopBackCounted(h) = [g EXCEPT !.size = g.size - 1]
  BY <1>1, NullAssumption DEF PopBackCounted
<1> DEFINE r == Front(s)
<1> HIDE DEF g, r
<1>3. /\ PopBackCounted(h) \in Heaps /\ Linked(PopBackCounted(h), r)
      /\ PopBackCounted(h).size = h.size - 1 /\ PopBackCounted(h).fault = h.fault
  <2>1. g \in Heaps /\ Linked(g, r) /\ g.size = h.size /\ g.fault = h.fault
    BY <1>1 DEF r
  <2>2. g.size - 1 \in Int
    BY <2>1 DEF Heaps
  <2> QED BY <1>2, <2>1, <2>2, CountOnly
<1>4. h.tail = Last(s)
  BY <1>1 DEF Last
<1> QED BY <1>1, <1>3, <1>4 DEF r
------------------------------------------------------------------------------
LEMMA InitShape == Init => ShapeInv /\ Order = <<>> /\ heap.size = 0
<1> SUFFICES ASSUME Init PROVE ShapeInv /\ Order = <<>> /\ heap.size = 0
  OBVIOUS
<1>1. /\ heap = EmptyHeap /\ heap.head = Null /\ heap.tail = Null /\ heap.size = 0 /\ ~heap.fault
  BY DEF Init, EmptyHeap
<1>2. heap \in Heaps
  BY <1>1 DEF EmptyHeap, Heaps, Pointers
<1>3. Linked(heap, <<>>) /\ <<>> \in Seq(Nodes) /\ Len(<<>>) = 0
  BY <1>1, EmptySeq DEF Linked, Distinct
<1>4. Order = <<>>
  BY <1>3, LinkedReads DEF Order
<1>5. TypeOK
  BY <1>2, LruAssumption DEF Init, TypeOK, Labels, Pointers
<1>6. LockInv
  BY LruAssumption DEF Init, LockInv
<1>7. ListInv
  BY <1>1, <1>3, <1>4 DEF Init, ListInv
<1> QED BY <1>1, <1>4, <1>5, <1>6, <1>7 DEF ShapeInv

\* Steps that leave the list alone need to keep only what the threads decided on.
LEMMA KeepsList ==
  ASSUME ShapeInv, UNCHANGED heap,
         (\E t \in Threads : pc'[t] = "pop") => \E t \in Threads : pc[t] = "pop",
         Settling => Settling'
  PROVE ListInv'
<1>1. Order' = Order
  BY DEF Order
<1> QED BY <1>1, LruAssumption DEF ShapeInv, ListInv, TypeOK, Heaps

LEMMA ShapeSteps == ASSUME ShapeInv, [Next]_vars PROVE ShapeInv'
<1>1. /\ TypeOK /\ LockInv /\ ListInv
      /\ Capacity \in Nat /\ Capacity >= 1 /\ NoThread \notin Threads
      /\ keys_of \in Workloads /\ keys_of \in [Threads -> SUBSET Keys]
  BY LruAssumption DEF ShapeInv, TypeOK
<1>2. keys_of' = keys_of
  BY DEF Next, vars
<1> USE <1>1, <1>2
<1>3. ASSUME NEW t \in Threads, NEW k \in Keys, Call(t, k) PROVE ShapeInv'
  <2> USE <1>3 DEF Call, Go, locals, list, lock
  <2>1. TypeOK'
    BY DEF TypeOK, Labels
  <2>2. LockInv'
    BY DEF LockInv, TypeOK
  <2>3. ListInv'
    BY KeepsList DEF Settling, TypeOK, LockInv
  <2> QED BY <2>1, <2>2, <2>3 DEF ShapeInv
<1>4. ASSUME NEW t \in Threads, Lookup(t) PROVE ShapeInv'
  <2> USE <1>4 DEF Lookup, Return, Go, locals, list, lock
  <2>1. TypeOK'
    BY DEF TypeOK, Labels
  <2>2. LockInv'
    BY DEF LockInv, TypeOK
  <2>3. ListInv'
    BY KeepsList DEF Settling, TypeOK, LockInv
  <2> QED BY <2>1, <2>2, <2>3 DEF ShapeInv
<1>5. ASSUME NEW t \in Threads, GetSize(t) PROVE ShapeInv'
  <2> USE <1>5 DEF GetSize, Retry, Release, Go, locals, list, lock
  <2>0. writer # t
    BY DEF LockInv
  <2>1. TypeOK'
    BY <2>0 DEF TypeOK, Labels
  <2>2. LockInv'
    BY <2>0 DEF LockInv, TypeOK
  <2>3. ListInv'
    <3>1. Order' = Order /\ heap' = heap /\ writer' = writer
      BY <2>0 DEF Order
    <3>2. CASE writer = NoThread
      <4>1. ~Settling /\ ~Settling'
        BY <3>1, <3>2 DEF Settling
      <4>2. (\E u \in Threads : pc'[u] = "pop") => heap.size >= Capacity
        <5>1. pc'[t] = "pop" => heap.size > Capacity - 1
          BY <3>2 DEF TypeOK
        <5>2. \A u \in Threads : u # t => pc'[u] = pc[u]
          BY DEF TypeOK
        <5>3. heap.size \in Int
          BY DEF TypeOK, Heaps
        <5> QED BY <4>1, <5>1, <5>2, <5>3 DEF ListInv
      <4> QED BY <3>1, <4>1, <4>2 DEF ListInv
    <3>3. CASE writer # NoThread
      <4> QED BY <2>0, <3>1, <3>3, KeepsList DEF Settling, TypeOK
    <3> QED BY <3>2, <3>3
  <2> QED BY <2>1, <2>2, <2>3 DEF ShapeInv
<1>6. ASSUME NEW t \in Threads, BeginUpgrade(t) PROVE ShapeInv'
  <2> USE <1>6 DEF BeginUpgrade, locals, list
  <2>1. TypeOK'
    BY DEF TypeOK, Labels
  <2>2. LockInv'
    BY DEF LockInv, TypeOK
  <2>3. ListInv'
    BY KeepsList DEF Settling
  <2> QED BY <2>1, <2>2, <2>3 DEF ShapeInv
<1>7. ASSUME NEW t \in Threads, FinishUpgrade(t) PROVE ShapeInv'
  <2> USE <1>7 DEF FinishUpgrade, Retry, Release, Go, locals, list, lock
  <2>1. TypeOK'
    BY DEF TypeOK, Labels
  <2>2. LockInv'
    BY DEF LockInv, TypeOK
  <2>3. ListInv'
    BY KeepsList DEF Settling, TypeOK
  <2> QED BY <2>1, <2>2, <2>3 DEF ShapeInv
<1>8. ASSUME NEW t \in Threads, Pop(t) PROVE ShapeInv'
  <2> USE <1>8 DEF Pop, Go, list, lock
  <2>0. heap.size >= Capacity /\ heap \in Heaps /\ heap.size \in Int
    BY DEF ListInv, Settling, TypeOK, Heaps
  <2>1. Order # <<>> /\ Linked(heap, Order)
    BY <2>0, EmptySeq DEF ListInv
  <2>2. /\ heap.tail \in Nodes /\ heap' \in Heaps /\ Linked(heap', Front(Order))
        /\ heap'.size = heap.size - 1 /\ ~heap'.fault
    BY <2>0, <2>1, CountedPop DEF ListInv
  <2>3. TypeOK'
    BY <2>2 DEF TypeOK, Labels
  <2>4. LockInv'
    BY DEF LockInv, TypeOK
  <2>5. Order' = Front(Order) /\ Len(Front(Order)) = Len(Order) - 1
    <3>1. Order' = Forward(heap')
      BY DEF Order
    <3>2. Order \in Seq(Nodes)
      BY <2>1 DEF Linked
    <3> QED BY <2>1, <2>2, <3>1, <3>2, LinkedReads, EndsProperties
  <2>6. ListInv'
    BY <2>0, <2>2, <2>5 DEF ListInv, Settling, TypeOK
  <2> QED BY <2>3, <2>4, <2>6 DEF ShapeInv
<1>9. ASSUME NEW t \in Threads, RemoveIndexed(t) PROVE ShapeInv'
  <2> USE <1>9 DEF RemoveIndexed, Go, locals, list, lock
  <2>1. TypeOK'
    BY DEF TypeOK, Labels, Pointers
  <2>2. LockInv'
    BY DEF LockInv, TypeOK
  <2>3. ListInv'
    BY KeepsList DEF Settling, TypeOK
  <2> QED BY <2>1, <2>2, <2>3 DEF ShapeInv
<1>10. ASSUME NEW t \in Threads, NEW n \in Nodes, Push(t, n) PROVE ShapeInv'
  <2> USE <1>10 DEF Push, Go, lock
  <2>0. heap \in Heaps /\ Linked(heap, Order) /\ n \notin ToSet(Order) /\ heap.size \in Int
    BY DEF ListInv, TypeOK, Unused, Order, Heaps
  <2>1. /\ heap' \in Heaps /\ Linked(heap', <<n>> \o Order)
        /\ heap'.size = heap.size + 1 /\ ~heap'.fault
    BY <2>0, CountedPush DEF ListInv
  <2>2. TypeOK'
    BY <2>1 DEF TypeOK, Labels, Pointers, LockInv
  <2>3. LockInv'
    BY DEF LockInv, TypeOK
  <2>4. Order' = <<n>> \o Order /\ Len(<<n>> \o Order) = Len(Order) + 1
    <3>1. Order' = Forward(heap')
      BY DEF Order
    <3>2. Order \in Seq(Nodes)
      BY <2>0 DEF Linked
    <3>3. Len(<<n>> \o Order) = Len(Order) + 1
      BY <3>2, PrependProperties
    <3> QED BY <2>1, <3>1, <3>3, LinkedReads
  <2>5. ListInv'
    BY <2>0, <2>1, <2>4 DEF ListInv, Settling, TypeOK
  <2> QED BY <2>2, <2>3, <2>5 DEF ShapeInv
<1>11. ASSUME NEW t \in Threads, InsertIndexed(t) PROVE ShapeInv'
  <2> USE <1>11 DEF InsertIndexed, Go, locals, list, lock
  <2>1. TypeOK'
    BY DEF TypeOK, Labels
  <2>2. LockInv'
    BY DEF LockInv, TypeOK
  <2>3. ListInv'
    BY KeepsList DEF Settling, TypeOK, LockInv
  <2> QED BY <2>1, <2>2, <2>3 DEF ShapeInv
<1>12. ASSUME NEW t \in Threads, Commit(t) PROVE ShapeInv'
  <2> USE <1>12 DEF Commit, Release, Forget, Return, Go, list
  <2>1. TypeOK'
    BY DEF TypeOK, Labels, Pointers
  <2>2. LockInv'
    BY DEF LockInv, TypeOK
  <2>3. ListInv'
    BY KeepsList DEF Settling, TypeOK, LockInv
  <2> QED BY <2>1, <2>2, <2>3 DEF ShapeInv
<1>13. CASE UNCHANGED vars
  <2> USE <1>13 DEF vars, locals, list, lock
  <2>1. TypeOK'
    BY DEF TypeOK
  <2>2. LockInv'
    BY DEF LockInv
  <2>3. ListInv'
    BY KeepsList DEF Settling
  <2> QED BY <2>1, <2>2, <2>3 DEF ShapeInv
<1> QED
  BY <1>3, <1>4, <1>5, <1>6, <1>7, <1>8, <1>9, <1>10, <1>11, <1>12, <1>13 DEF Next
------------------------------------------------------------------------------
LEMMA ChangingThreads ==
  ASSUME ShapeInv
  PROVE /\ IsFiniteSet(Changing) /\ IsFiniteSet(Active) /\ Changing \subseteq Active
        /\ Active \subseteq Threads
        /\ Cardinality(Changing) \in Nat /\ Cardinality(Active) \in Nat
        /\ Cardinality(Changing) <= Cardinality(Active)
        /\ Cardinality(Active) <= Cardinality(Threads) /\ Cardinality(Threads) \in Nat
<1>1. Changing \subseteq Threads /\ Active \subseteq Threads /\ IsFiniteSet(Threads)
  BY LruAssumption DEF Changing, Active
<1>2. Changing \subseteq Active
  BY DEF Changing, Active, ShapeInv, LockInv
<1> QED BY <1>1, <1>2, FS_Subset, FS_CardinalityType

\* A step that is no decision to push, and no push, changes neither side.
LEMMA KeepsCount ==
  ASSUME ShapeInv, CountInv, UNCHANGED <<keys_of, heap>>, Changing' \subseteq Changing
  PROVE CountInv'
<1>1. Cardinality(Changing') <= Cardinality(Changing) /\ Cardinality(Changing') \in Nat
  BY ChangingThreads, FS_Subset, FS_CardinalityType
<1>2. Active' = Active
  BY DEF Active
<1> QED BY <1>1, <1>2, ChangingThreads, LruAssumption DEF CountInv, ShapeInv, TypeOK, Heaps

LEMMA InitCount == Init => CountInv
<1> SUFFICES ASSUME Init PROVE CountInv
  OBVIOUS
<1>1. ShapeInv /\ heap.size = 0
  BY InitShape
<1>2. Changing = {}
  BY DEF Init, Changing
<1>3. Cardinality(Changing) = 0
  BY <1>2, FS_EmptySet
<1> QED BY <1>1, <1>3, ChangingThreads, LruAssumption DEF CountInv

LEMMA CountSteps == ASSUME ShapeInv, CountInv, [Next]_vars PROVE CountInv'
<1>1. /\ pc \in [Threads -> Labels] /\ heap \in Heaps /\ heap.size \in Int /\ LockInv /\ ListInv
      /\ Capacity \in Nat
  BY LruAssumption DEF ShapeInv, TypeOK, Heaps
<1>2. keys_of' = keys_of /\ Active' = Active
  BY DEF Next, vars, Active
<1>3. ASSUME NEW t \in Threads, NEW k \in Keys, Call(t, k) PROVE CountInv'
  <2>1. Changing' \subseteq Changing /\ UNCHANGED heap
    BY <1>1, <1>3 DEF Call, Go, Changing, list
  <2> QED BY <1>2, <2>1, KeepsCount
<1>4. ASSUME NEW t \in Threads, Lookup(t) PROVE CountInv'
  <2>1. Changing' \subseteq Changing /\ UNCHANGED heap
    BY <1>1, <1>4 DEF Lookup, Return, Go, Changing, list
  <2> QED BY <1>2, <2>1, KeepsCount
<1>5. ASSUME NEW t \in Threads, GetSize(t) PROVE CountInv'
  <2>1. UNCHANGED heap
    BY <1>5 DEF GetSize, list
  <2>2. CASE pc'[t] # "push"
    <3>1. Changing' \subseteq Changing
      BY <1>1, <1>5, <2>2 DEF GetSize, Retry, Go, Changing
    <3> QED BY <1>2, <2>1, <3>1, KeepsCount
  <2>3. CASE pc'[t] = "push"
    <3>1. heap.size <= Capacity - 1
      BY <1>1, <1>5, <2>3 DEF GetSize, Retry, Go
    <3>2. Changing' \subseteq Changing \cup {t} /\ t \in Active
      BY <1>1, <1>5 DEF GetSize, Retry, Go, Changing, Active, LockInv
    <3>3. Changing' \subseteq Active /\ IsFiniteSet(Active)
      BY <3>2, ChangingThreads
    <3>4. Cardinality(Changing') <= Cardinality(Active) /\ Cardinality(Changing') \in Nat
      BY <3>3, FS_Subset, FS_CardinalityType
    <3> QED BY <1>1, <1>2, <2>1, <3>1, <3>4, ChangingThreads DEF CountInv
  <2> QED BY <2>2, <2>3
<1>6. ASSUME NEW t \in Threads, BeginUpgrade(t) PROVE CountInv'
  <2>1. Changing' \subseteq Changing /\ UNCHANGED heap
    BY <1>1, <1>6 DEF BeginUpgrade, Changing, list
  <2> QED BY <1>2, <2>1, KeepsCount
<1>7. ASSUME NEW t \in Threads, FinishUpgrade(t) PROVE CountInv'
  <2>1. Changing' \subseteq Changing /\ UNCHANGED heap
    BY <1>1, <1>7 DEF FinishUpgrade, Retry, Go, Changing, list
  <2> QED BY <1>2, <2>1, KeepsCount
<1>8. ASSUME NEW t \in Threads, Pop(t) PROVE CountInv'
  <2>1. t \notin Changing /\ Changing' = Changing \cup {t}
    BY <1>1, <1>8 DEF Pop, Go, Changing
  <2>2. Cardinality(Changing') = Cardinality(Changing) + 1
    BY <2>1, ChangingThreads, FS_AddElement
  <2>3. heap'.size = heap.size - 1
    <3>1. heap.size >= Capacity /\ Capacity >= 1
      BY <1>1, <1>8, LruAssumption DEF Pop, ListInv, Settling
    <3>2. Order # <<>> /\ Linked(heap, Order)
      BY <1>1, <3>1, EmptySeq DEF ListInv
    <3> QED BY <1>1, <1>8, <3>2, CountedPop DEF Pop
  <2> QED BY <1>1, <1>2, <2>2, <2>3, ChangingThreads DEF CountInv
<1>9. ASSUME NEW t \in Threads, RemoveIndexed(t) PROVE CountInv'
  <2>1. Changing' \subseteq Changing /\ UNCHANGED heap
    BY <1>1, <1>9 DEF RemoveIndexed, Go, Changing, list
  <2> QED BY <1>2, <2>1, KeepsCount
<1>10. ASSUME NEW t \in Threads, NEW n \in Nodes, Push(t, n) PROVE CountInv'
  <2>1. t \in Changing /\ Changing' = Changing \ {t}
    BY <1>1, <1>10 DEF Push, Go, Changing
  <2>2. Cardinality(Changing') = Cardinality(Changing) - 1
    BY <2>1, ChangingThreads, FS_RemoveElement
  <2>3. heap'.size = heap.size + 1
    <3>1. Linked(heap, Order) /\ n \notin ToSet(Order)
      BY <1>1, <1>10 DEF ListInv, Push, Unused, Order
    <3> QED BY <1>1, <1>10, <3>1, CountedPush DEF Push
  <2> QED BY <1>1, <1>2, <2>2, <2>3, ChangingThreads DEF CountInv
<1>11. ASSUME NEW t \in Threads, InsertIndexed(t) PROVE CountInv'
  <2>1. Changing' \subseteq Changing /\ UNCHANGED heap
    BY <1>1, <1>11 DEF InsertIndexed, Go, Changing, list
  <2> QED BY <1>2, <2>1, KeepsCount
<1>12. ASSUME NEW t \in Threads, Commit(t) PROVE CountInv'
  <2>1. Changing' \subseteq Changing /\ UNCHANGED heap
    BY <1>1, <1>12 DEF Commit, Return, Go, Changing, list
  <2> QED BY <1>2, <2>1, KeepsCount
<1>13. CASE UNCHANGED vars
  <2>1. Changing' \subseteq Changing /\ UNCHANGED heap
    BY <1>13 DEF vars, Changing, list
  <2> QED BY <1>2, <2>1, KeepsCount
<1> QED
  BY <1>3, <1>4, <1>5, <1>6, <1>7, <1>8, <1>9, <1>10, <1>11, <1>12, <1>13 DEF Next
------------------------------------------------------------------------------
\* Two threads at work insert different keys.
LEMMA OwnKeys ==
  ASSUME ShapeInv, Disjoint, NEW t \in Threads, NEW u \in Threads, t # u, pc[t] # "idle", pc[u] # "idle"
  PROVE key[t] # key[u]
BY DEF ShapeInv, LockInv, Disjoint

LEMMA ActiveKey ==
  ASSUME ShapeInv, NEW t \in Threads, pc[t] # "idle"
  PROVE key[t] \in Keys
BY LruAssumption DEF ShapeInv, LockInv, TypeOK

\* Steps that change neither list nor index keep their agreement, unless they are in its midst.
LEMMA KeepsIndex ==
  ASSUME ShapeInv, IndexInv, UNCHANGED <<heap, key_, map>>, NEW t \in Threads,
         \A u \in Threads : u # t => /\ pc'[u] = pc[u] /\ key'[u] = key[u]
                                     /\ popped_key'[u] = popped_key[u] /\ new_record'[u] = new_record[u],
         pc[t] \notin {"remove", "index"}, pc'[t] \notin {"remove", "index"},
         pc'[t] \in {"size", "pop", "push"} => map[key'[t]] = Null
  PROVE IndexInv'
<1>1. Order' = Order
  BY DEF Order
<1>2. \A k : Found(map'[k]) = Found(map[k]) /\ Holders(Order', key_', k) = Holders(Order, key_, k)
  BY <1>1 DEF Found, Holders
<1>3. \A n \in ToSet(Order)' : key_'[n] \in Keys
  BY <1>1 DEF IndexInv
<1>4. \A u \in Threads : /\ pc'[u] \in {"size", "pop", "remove", "push", "index"} => map'[key'[u]] = Null
                         /\ pc'[u] = "remove" => Holders(Order', key_', popped_key'[u]) = {}
                         /\ pc'[u] = "index" => /\ new_record'[u] \in Nodes
                                                /\ Holders(Order', key_', key'[u]) = {new_record'[u]}
  <2> TAKE u \in Threads
  <2>1. CASE u = t
    BY <2>1
  <2>2. CASE u # t
    BY <1>2, <2>2 DEF IndexInv
  <2> QED BY <2>1, <2>2
<1>5. ASSUME NEW k \in Keys
      PROVE \/ Found(map'[k]) = Holders(Order', key_', k)
            \/ \E u \in Threads : pc'[u] = "remove" /\ popped_key'[u] = k
            \/ \E u \in Threads : pc'[u] = "index" /\ key'[u] = k
  BY <1>2 DEF IndexInv
<1> QED BY <1>3, <1>4, <1>5 DEF IndexInv

LEMMA InitIndex == Init => IndexInv
<1> SUFFICES ASSUME Init PROVE IndexInv
  OBVIOUS
<1>1. Order = <<>>
  BY InitShape
<1>2. ToSet(Order) = {}
  BY <1>1 DEF ToSet
<1> QED BY <1>2 DEF Init, IndexInv, Found, Holders

LEMMA IndexSteps == ASSUME ShapeInv, Disjoint, IndexInv, [Next]_vars PROVE IndexInv'
<1>1. /\ TypeOK /\ LockInv /\ ListInv
      /\ pc \in [Threads -> Labels] /\ key \in [Threads -> Keys \cup {NoKey}]
      /\ popped_key \in [Threads -> Keys \cup {NoKey}] /\ new_record \in [Threads -> Pointers]
      /\ map \in [Keys -> Pointers] /\ key_ \in [Nodes -> Keys \cup {NoKey}] /\ heap \in Heaps
      /\ Linked(heap, Order) /\ Order \in Seq(Nodes) /\ ToSet(Order) \subseteq Nodes
      /\ Null \notin Nodes
  <2>1. TypeOK /\ LockInv /\ ListInv /\ Linked(heap, Order) /\ Order \in Seq(Nodes)
    BY DEF ShapeInv, ListInv, Linked
  <2>2. ToSet(Order) \subseteq Nodes
    BY <2>1, LenProperties DEF ToSet
  <2> QED BY <2>1, <2>2, NullAssumption DEF TypeOK
<1>2. ASSUME NEW t \in Threads, NEW k \in Keys, Call(t, k) PROVE IndexInv'
  BY <1>1, <1>2, KeepsIndex DEF Call, Go, list
<1>3. ASSUME NEW t \in Threads, Lookup(t) PROVE IndexInv'
  BY <1>1, <1>3, KeepsIndex DEF Lookup, Return, Go, list
<1>4. ASSUME NEW t \in Threads, GetSize(t) PROVE IndexInv'
  <2>1. map[key[t]] = Null
    BY <1>4 DEF GetSize, IndexInv
  <2> QED BY <1>1, <1>4, <2>1, KeepsIndex DEF GetSize, Retry, Go, list, locals
<1>5. ASSUME NEW t \in Threads, BeginUpgrade(t) PROVE IndexInv'
  <2>1. map[key[t]] = Null
    BY <1>5 DEF BeginUpgrade, IndexInv
  <2> QED BY <1>1, <1>5, <2>1, KeepsIndex DEF BeginUpgrade, list, locals
<1>6. ASSUME NEW t \in Threads, FinishUpgrade(t) PROVE IndexInv'
  <2>1. map[key[t]] = Null
    BY <1>6 DEF FinishUpgrade, IndexInv
  <2> QED BY <1>1, <1>6, <2>1, KeepsIndex DEF FinishUpgrade, Retry, Go, list, locals
<1>7. ASSUME NEW t \in Threads, Commit(t) PROVE IndexInv'
  BY <1>1, <1>7, KeepsIndex DEF Commit, Forget, Return, Go, list
<1>8. CASE UNCHANGED vars
  <2>1. Order' = Order
    BY <1>8 DEF Order, vars, list
  <2>2. \A k : Found(map'[k]) = Found(map[k]) /\ Holders(Order', key_', k) = Holders(Order, key_, k)
    BY <1>8, <2>1 DEF Found, Holders, vars, list
  <2> QED BY <1>8, <2>1, <2>2 DEF IndexInv, vars, locals, list
<1>9. ASSUME NEW t \in Threads, Pop(t) PROVE IndexInv'
  <2> USE <1>1, <1>9 DEF Pop, Go, lock
  <2>1. Order # <<>>
    <3>1. heap.size >= Capacity
      BY DEF ListInv, Settling
    <3> QED BY <3>1, EmptySeq, LruAssumption DEF ListInv
  <2> DEFINE n == Last(Order)
  <2>2. /\ heap.tail = n /\ n \in Nodes /\ Linked(heap', Front(Order))
    BY <2>1, CountedPop
  <2>3. ToSet(Order') = ToSet(Order) \ {n} /\ n \in ToSet(Order)
    <3>1. Order' = Forward(heap')
      BY DEF Order
    <3>2. Order' = Front(Order)
      BY <2>2, <3>1, LinkedReads
    <3> QED BY <2>1, <3>2, FrontSet DEF Linked
  <2> HIDE DEF n
  <2>4. popped_key'[t] = key_[n] /\ key_[n] \in Keys
    BY <2>2, <2>3 DEF IndexInv
  <2>5. \A k \in Keys : Found(map'[k]) = Found(map[k]) /\ Holders(Order', key_', k) = Holders(Order, key_, k) \ {n}
    BY <2>3 DEF Found, Holders
  <2>6. \A k \in Keys : k # key_[n] => n \notin Holders(Order, key_, k)
    BY DEF Holders
  <2>7. \A u \in Threads : pc[u] \notin {"remove", "index"}
    BY DEF LockInv
  <2>8. \A k \in Keys : Found(map[k]) = Holders(Order, key_, k)
    BY <2>7 DEF IndexInv
  <2>9. Holders(Order', key_', key_[n]) = {}
    <3>1. n \in Holders(Order, key_, key_[n]) /\ Found(map[key_[n]]) = Holders(Order, key_, key_[n])
      BY <2>3, <2>4, <2>8 DEF Holders
    <3>2. Holders(Order, key_, key_[n]) = {n}
      BY <3>1 DEF Found
    <3> QED BY <2>4, <2>5, <3>2
  <2>10. \A m \in ToSet(Order)' : key_'[m] \in Keys
    BY <2>3 DEF IndexInv
  <2>11. \A u \in Threads : /\ pc'[u] \in {"size", "pop", "remove", "push", "index"} => map'[key'[u]] = Null
                            /\ pc'[u] = "remove" => Holders(Order', key_', popped_key'[u]) = {}
                            /\ pc'[u] # "index"
    BY <2>4, <2>7, <2>9 DEF IndexInv
  <2>12. pc'[t] = "remove"
    OBVIOUS
  <2>13. ASSUME NEW k \in Keys
         PROVE \/ Found(map'[k]) = Holders(Order', key_', k)
               \/ pc'[t] = "remove" /\ popped_key'[t] = k
    <3>1. CASE k = key_[n]
      BY <2>4, <2>12, <3>1
    <3>2. CASE k # key_[n]
      <4>1. Holders(Order, key_, k) \ {n} = Holders(Order, key_, k)
        BY <2>6, <3>2
      <4> QED BY <2>5, <2>8, <4>1
    <3> QED BY <3>1, <3>2
  <2>14. t \in Threads
    OBVIOUS
  <2> QED
    <3> HIDE <1>9 DEF Pop
    <3> QED BY ONLY <2>10, <2>11, <2>13, <2>14 DEF IndexInv
<1>10. ASSUME NEW t \in Threads, RemoveIndexed(t) PROVE IndexInv'
  <2> USE <1>1, <1>10 DEF RemoveIndexed, Go, locals, list, lock
  <2>1. Order' = Order
    BY DEF Order
  <2>2. \A k \in Keys : Holders(Order', key_', k) = Holders(Order, key_, k)
    BY <2>1 DEF Holders
  <2>3. \A k \in Keys : k # popped_key[t] => Found(map'[k]) = Found(map[k])
    BY DEF Found
  <2>4. \A u \in Threads : u # t => pc[u] \notin {"remove", "index"} /\ pc'[u] \notin {"remove", "index"}
    BY DEF LockInv
  <2>5. ASSUME NEW k \in Keys PROVE Found(map'[k]) = Holders(Order', key_', k)
    <3>1. CASE k = popped_key[t]
      <4>1. Holders(Order, key_, k) = {}
        BY <3>1 DEF IndexInv
      <4>2. map'[k] = Null
        BY <3>1
      <4>3. Found(map'[k]) = {}
        BY <4>2 DEF Found
      <4> QED BY <2>2, <4>1, <4>3
    <3>2. CASE k # popped_key[t]
      BY <2>2, <2>3, <2>4, <3>2 DEF IndexInv
    <3> QED BY <3>1, <3>2
  <2>6. \A u \in Threads :
          /\ pc'[u] \in {"size", "pop", "remove", "push", "index"} => map'[key'[u]] = Null
          /\ pc'[u] \notin {"remove", "index"}
    <3> TAKE u \in Threads
    <3>1. pc'[u] \in {"size", "pop", "remove", "push", "index"} => map[key[u]] = Null /\ key[u] \in Keys
      BY ActiveKey DEF IndexInv
    <3> QED BY <2>4, <3>1
  <2> QED BY <2>1, <2>5, <2>6 DEF IndexInv
<1>11. ASSUME NEW t \in Threads, NEW n \in Nodes, Push(t, n) PROVE IndexInv'
  <2> USE <1>1, <1>11 DEF Push, Go, lock
  <2>1. n \notin ToSet(Order) /\ key[t] \in Keys /\ map[key[t]] = Null
    BY ActiveKey DEF Unused, Order, IndexInv
  <2>2. ToSet(Order') = ToSet(Order) \cup {n}
    <3>1. Order' = Forward(heap')
      BY DEF Order
    <3>2. Order' = <<n>> \o Order
      BY <2>1, <3>1, CountedPush, LinkedReads
    <3> QED BY <3>2, PrependSet
  <2>3. key_'[n] = key[t] /\ \A m \in Nodes : m # n => key_'[m] = key_[m]
    OBVIOUS
  <2>4. \A k \in Keys : /\ Found(map'[k]) = Found(map[k])
                        /\ Holders(Order', key_', k) = IF k = key[t] THEN Holders(Order, key_, k) \cup {n} ELSE Holders(Order, key_, k)
    BY <2>1, <2>2, <2>3 DEF Found, Holders
  <2>5. \A u \in Threads : u # t => pc[u] \notin {"remove", "index"} /\ pc'[u] \notin {"remove", "index"}
    BY DEF LockInv
  <2>6. \A k \in Keys : Found(map[k]) = Holders(Order, key_, k)
    BY <2>5 DEF IndexInv
  <2>7. Holders(Order', key_', key[t]) = {n}
    <3>1. Found(map[key[t]]) = {}
      BY <2>1 DEF Found
    <3> QED BY <2>1, <2>4, <2>6, <3>1
  <2>8. \A m \in ToSet(Order)' : key_'[m] \in Keys
    BY <2>1, <2>2, <2>3 DEF IndexInv
  <2>9. pc'[t] = "index" /\ new_record'[t] = n
    OBVIOUS
  <2>10. \A u \in Threads : /\ pc'[u] \in {"size", "pop", "remove", "push", "index"} => map'[key'[u]] = Null
                            /\ pc'[u] # "remove"
                            /\ pc'[u] = "index" => /\ new_record'[u] \in Nodes
                                                   /\ Holders(Order', key_', key'[u]) = {new_record'[u]}
    BY <2>1, <2>5, <2>7, <2>9 DEF IndexInv
  <2>11. ASSUME NEW k \in Keys
         PROVE \/ Found(map'[k]) = Holders(Order', key_', k)
               \/ \E u \in Threads : pc'[u] = "index" /\ key'[u] = k
    <3>1. CASE k = key[t]
      BY <2>9, <3>1
    <3>2. CASE k # key[t]
      BY <2>4, <2>6, <3>2
    <3> QED BY <3>1, <3>2
  <2> QED BY ONLY <2>8, <2>10, <2>11 DEF IndexInv
<1>12. ASSUME NEW t \in Threads, InsertIndexed(t) PROVE IndexInv'
  <2> USE <1>1, <1>12 DEF InsertIndexed, Go, locals, list, lock
  <2>1. /\ map[key[t]] = Null /\ key[t] \in Keys /\ new_record[t] \in Nodes
    BY ActiveKey DEF IndexInv
  <2>2. map' = [map EXCEPT ![key[t]] = new_record[t]] /\ pc' = [pc EXCEPT ![t] = "true"]
    BY <2>1
  <2>3. Order' = Order
    BY DEF Order
  <2>4. \A k : Holders(Order', key_', k) = Holders(Order, key_, k)
    BY <2>3 DEF Holders
  <2>5. \A u \in Threads : u # t => pc[u] \notin {"remove", "index"} /\ pc'[u] \notin {"remove", "index"}
    BY DEF LockInv
  <2>6. pc'[t] \notin {"remove", "index", "size", "pop", "push"}
    BY <2>2
  <2>7. ASSUME NEW k \in Keys PROVE Found(map'[k]) = Holders(Order', key_', k)
    <3>1. CASE k = key[t]
      <4>1. Holders(Order, key_, k) = {new_record[t]}
        BY <3>1 DEF IndexInv
      <4>2. Found(map'[k]) = {new_record[t]}
        BY <2>1, <2>2, <3>1 DEF Found
      <4> QED BY <2>4, <4>1, <4>2
    <3>2. CASE k # key[t]
      <4>1. Found(map'[k]) = Found(map[k])
        BY <2>2, <3>2 DEF Found
      <4> QED BY <2>4, <2>5, <3>2, <4>1 DEF IndexInv
    <3> QED BY <3>1, <3>2
  <2>8. \A u \in Threads : pc'[u] \in {"size", "pop", "remove", "push", "index"} => map'[key'[u]] = Null
    <3> TAKE u \in Threads
    <3> HAVE pc'[u] \in {"size", "pop", "remove", "push", "index"}
    <3>1. u # t /\ pc[u] = pc'[u]
      BY <2>6
    <3>2. key[u] # key[t] /\ key[u] \in Keys /\ map[key[u]] = Null
      BY <3>1, OwnKeys, ActiveKey DEF IndexInv
    <3> QED BY <2>2, <3>2
  <2> QED BY <2>3, <2>5, <2>6, <2>7, <2>8 DEF IndexInv
<1> QED
  BY <1>2, <1>3, <1>4, <1>5, <1>6, <1>7, <1>8, <1>9, <1>10, <1>11, <1>12 DEF Next
------------------------------------------------------------------------------
LEMMA KeysAre == KeysIn(heap) = Labelled(Order, key_)
BY DEF KeysIn, Labelled, Order

LEMMA InitCommit == Init => CommitInv
<1> SUFFICES ASSUME Init PROVE CommitInv
  OBVIOUS
<1>1. Order = <<>> /\ DOMAIN Order = {}
  <2>1. Order = <<>> /\ <<>> \in Seq(Nodes) /\ Len(<<>>) = 0
    BY InitShape, EmptySeq
  <2> QED BY <2>1, LenProperties
<1>2. ToSet(Order) = {}
  BY <1>1 DEF ToSet
<1>3. <<>> \in Seq(Nodes) /\ <<>> \in Seq(Keys)
  BY EmptySeq
<1>4. Labelled(Order, key_) = <<>>
  <2>1. LabelledIn(Order, key_, Keys)
    BY <1>2 DEF LabelledIn
  <2> QED BY <1>1, <1>3, <2>1, LabelledProperties
<1>5. KeysIn(heap) = <<>>
  BY <1>4, KeysAre
<1> QED BY <1>3, <1>5, LruAssumption DEF Init, CommitInv

\* Steps of a thread that has not the list keep what the writer has done to it.
LEMMA KeepsCommit ==
  ASSUME CommitInv, UNCHANGED <<heap, key_, committed, writer>>,
         \A u \in Threads : writer = u => /\ pc'[u] = pc[u] /\ key'[u] = key[u]
                                          /\ popped_key'[u] = popped_key[u]
  PROVE CommitInv'
<1>1. KeysIn(heap)' = KeysIn(heap)
  BY DEF KeysIn
<1> QED BY <1>1 DEF CommitInv

\* A key in the list is in it since the last commit, or the writer has just pushed it.
LEMMA KeysCommitted ==
  ASSUME ShapeInv, IndexInv, CommitInv, NEW k, k \in ToSet(KeysIn(heap))
  PROVE k \in ToSet(committed) \/ \E u \in Threads : writer = u /\ key[u] = k
<1> DEFINE K == KeysIn(heap)
<1>1. committed \in Seq(Keys)
  BY DEF CommitInv
<1>2. committed # <<>> => ToSet(Front(committed)) \subseteq ToSet(committed)
  <2> SUFFICES ASSUME committed # <<>> PROVE ToSet(Front(committed)) \subseteq ToSet(committed)
    OBVIOUS
  <2> DEFINE L == Len(committed)
             f == Front(committed)
  <2>1. L \in Nat \ {0} /\ f \in Seq(Keys) /\ Len(f) = L - 1 /\ \A i \in 1..(L - 1) : f[i] = committed[i]
    BY <1>1, EndsProperties
  <2> HIDE DEF f
  <2>2. ToSet(f) = {f[i] : i \in 1..(L - 1)} /\ ToSet(committed) = {committed[i] : i \in 1..L}
    BY <1>1, <2>1, LenProperties DEF ToSet
  <2> HIDE DEF L
  <2>3. \A i \in 1..(L - 1) : i \in 1..L
    BY <2>1
  <2>4. ToSet(f) \subseteq ToSet(committed)
    BY <2>1, <2>2, <2>3
  <2> QED BY <2>4 DEF f
<1>3. ASSUME NEW c, c \in Seq(Keys), NEW j \in Keys, K = <<j>> \o c, k # j PROVE k \in ToSet(c)
  <2> DEFINE L == Len(c)
  <2>1. /\ L \in Nat /\ K \in Seq(Keys) /\ Len(K) = L + 1 /\ K[1] = j
        /\ \A i \in 1..L : K[i + 1] = c[i]
    BY <1>3, PrependProperties
  <2>2. ToSet(K) = {K[i] : i \in 1..(L + 1)} /\ ToSet(c) = {c[i] : i \in 1..L}
    BY <1>3, <2>1, LenProperties DEF ToSet
  <2> HIDE DEF L, K
  <2>3. PICK i \in 1..(L + 1) : K[i] = k
    BY <2>2 DEF K
  <2>4. i - 1 \in 1..L /\ (i - 1) + 1 = i
    BY <1>3, <2>1, <2>3
  <2> QED BY <2>1, <2>2, <2>3, <2>4
<1>4. CASE writer = NoThread
  BY <1>4 DEF CommitInv
<1>5. CASE writer \in Threads
  <2>1. PICK t \in Threads : writer = t
    BY <1>5
  <2>2. key[t] \in Keys /\ pc[t] \in {"pop", "push", "remove", "index", "true", "false"}
    BY <2>1, ActiveKey DEF ShapeInv, LockInv
  <2>3. \/ K = committed
        \/ committed # <<>> /\ K = Front(committed)
        \/ K = <<key[t]>> \o committed
        \/ committed # <<>> /\ K = <<key[t]>> \o Front(committed)
    BY <2>1, <2>2 DEF CommitInv, Evicted, Renewed
  <2>4. committed # <<>> => Front(committed) \in Seq(Keys)
    BY <1>1, EndsProperties
  <2> HIDE DEF K
  <2>5. CASE k = key[t]
    BY <2>1, <2>5
  <2>6. CASE k # key[t]
    <3>1. k \in ToSet(K)
      BY DEF K
    <3>2. CASE K = committed
      BY <3>1, <3>2
    <3>3. CASE committed # <<>> /\ K = Front(committed)
      BY <1>2, <3>1, <3>3
    <3>4. CASE K = <<key[t]>> \o committed
      BY <1>1, <1>3, <2>2, <2>6, <3>4
    <3>5. CASE committed # <<>> /\ K = <<key[t]>> \o Front(committed)
      BY <1>2, <1>3, <2>2, <2>4, <2>6, <3>5
    <3> QED BY <2>3, <3>2, <3>3, <3>4, <3>5
  <2> QED BY <2>5, <2>6
<1> QED BY <1>4, <1>5 DEF ShapeInv, TypeOK

LEMMA CommitSteps ==
  ASSUME ShapeInv, CountInv, Disjoint, IndexInv, CommitInv, [Next]_vars
  PROVE CommitInv' /\ [Lru!Next]_<<committed, answer>>
<1> DEFINE K == KeysIn(heap)
<1>1. /\ TypeOK /\ LockInv /\ ListInv /\ NoThread \notin Threads
      /\ pc \in [Threads -> Labels] /\ key \in [Threads -> Keys \cup {NoKey}]
      /\ popped_key \in [Threads -> Keys \cup {NoKey}] /\ map \in [Keys -> Pointers]
      /\ key_ \in [Nodes -> Keys \cup {NoKey}] /\ heap \in Heaps
      /\ Linked(heap, Order) /\ Order \in Seq(Nodes) /\ ToSet(Order) \subseteq Nodes
      /\ heap.size = Len(Order)
  <2>1. TypeOK /\ LockInv /\ ListInv /\ Linked(heap, Order) /\ Order \in Seq(Nodes)
    BY DEF ShapeInv, ListInv, Linked
  <2>2. ToSet(Order) \subseteq Nodes
    BY <2>1, LenProperties DEF ToSet
  <2> QED BY <2>1, <2>2, LruAssumption DEF TypeOK, ListInv
<1>2. /\ K = Labelled(Order, key_) /\ LabelledIn(Order, key_, Keys)
      /\ K \in Seq(Keys) /\ Len(K) = Len(Order) /\ (K = <<>> <=> Order = <<>>)
      /\ \A k : k \in ToSet(K) <=> Holders(Order, key_, k) # {}
  <2>1. LabelledIn(Order, key_, Keys)
    BY DEF IndexInv, LabelledIn
  <2> QED BY <1>1, <2>1, KeysAre, LabelledProperties
<1>3. K' = Labelled(Order', key_')
  BY DEF KeysIn, Labelled, Order
<1>4. committed \in Seq(Keys)
  BY DEF CommitInv
<1> HIDE DEF K
<1>5. ASSUME NEW t \in Threads, NEW k \in Keys, Call(t, k)
      PROVE CommitInv' /\ UNCHANGED <<committed, answer>>
  BY <1>1, <1>5, KeepsCommit DEF Call, Go, LockInv, list, lock
<1>6. ASSUME NEW t \in Threads, Lookup(t)
      PROVE CommitInv' /\ [Lru!Next]_<<committed, answer>>
  <2>1. CommitInv'
    BY <1>1, <1>6, KeepsCommit DEF Lookup, Return, Go, LockInv, list, lock
  <2>2. key[t] \in Keys
    BY <1>6, ActiveKey DEF Lookup
  <2>3. CASE map[key[t]] = Null
    BY <1>6, <2>1, <2>3 DEF Lookup, Return
  <2>4. CASE map[key[t]] # Null
    <3>1. key[t] \in ToSet(committed)
      <4>1. Found(map[key[t]]) # {}
        BY <2>4 DEF Found
      <4>2. ASSUME NEW u \in Threads, pc[u] # "idle", pc[u] # "lookup" PROVE key[u] # key[t]
        BY <1>6, <4>2, OwnKeys DEF Lookup
      <4>3. CASE Found(map[key[t]]) = Holders(Order, key_, key[t])
        <5>1. key[t] \in ToSet(KeysIn(heap))
          BY <1>2, <4>1, <4>3 DEF K
        <5>2. key[t] \in ToSet(committed) \/ \E u \in Threads : writer = u /\ key[u] = key[t]
          BY <5>1, KeysCommitted
        <5> QED BY <1>1, <4>2, <5>2 DEF LockInv
      <4>4. ASSUME NEW u \in Threads, pc[u] = "remove", popped_key[u] = key[t]
            PROVE key[t] \in ToSet(committed)
        <5>1. writer = u
          BY <1>1, <4>4 DEF LockInv
        <5>2. committed # <<>> /\ key[t] = Last(committed)
          BY <4>4, <5>1 DEF CommitInv, Evicted
        <5>3. Len(committed) \in 1..Len(committed) /\ DOMAIN committed = 1..Len(committed)
          BY <1>4, <5>2, EmptySeq, LenProperties
        <5> QED BY <5>2, <5>3 DEF Last, ToSet
      <4> QED BY <2>2, <4>2, <4>3, <4>4 DEF IndexInv
    <3>2. committed' = committed /\ answer' = [answer EXCEPT ![t] = [key |-> key[t], new |-> FALSE]]
      BY <1>6, <2>4 DEF Lookup, Return
    <3>3. Lru!InsertPresent(t, key[t])
      BY <3>1, <3>2 DEF Lru!InsertPresent, Lru!Answer, Lru!ToSet, ToSet
    <3> QED BY <2>1, <2>2, <3>3 DEF Lru!Next
  <2> QED BY <2>3, <2>4
<1>7. ASSUME NEW t \in Threads, GetSize(t)
      PROVE CommitInv' /\ UNCHANGED <<committed, answer>>
  <2>1. writer # t
    BY <1>1, <1>7 DEF GetSize, LockInv
  <2> QED BY <1>1, <1>7, <2>1, KeepsCommit DEF GetSize, Retry, Release, Go, locals, list
<1>8. ASSUME NEW t \in Threads, BeginUpgrade(t)
      PROVE CommitInv' /\ UNCHANGED <<committed, answer>>
  BY <1>8, KeepsCommit DEF BeginUpgrade, locals, list
<1>9. ASSUME NEW t \in Threads, FinishUpgrade(t)
      PROVE CommitInv' /\ UNCHANGED <<committed, answer>>
  <2>1. CASE writer = NoThread /\ writer' = t /\ UNCHANGED pc
    <3>1. committed = K
      BY <2>1 DEF CommitInv, K
    <3>2. pc[t] \in {"pop", "push"} /\ map[key[t]] = Null /\ key[t] \in Keys
      BY <1>9, ActiveKey DEF FinishUpgrade, IndexInv
    <3>3. key[t] \notin ToSet(committed)
      <4>1. \A u \in Threads : pc[u] \notin {"remove", "index"}
        BY <1>1, <2>1 DEF LockInv
      <4>2. Found(map[key[t]]) = Holders(Order, key_, key[t])
        BY <3>2, <4>1 DEF IndexInv
      <4> QED BY <1>2, <3>1, <3>2, <4>2 DEF Found
    <3>4. UNCHANGED <<heap, key_, key, committed, answer>> /\ K' = K
      BY <1>9 DEF FinishUpgrade, locals, list, K, KeysIn
    <3> QED BY <1>1, <1>4, <2>1, <3>1, <3>2, <3>3, <3>4 DEF CommitInv, K
  <2>2. CASE writer' = writer /\ writer # t /\ Go(t, "lookup")
    BY <1>1, <1>9, <2>2, KeepsCommit DEF FinishUpgrade, Go, locals, list
  <2> QED BY <1>9, <2>1, <2>2 DEF FinishUpgrade, Retry, Release
<1>10. ASSUME NEW t \in Threads, Pop(t)
       PROVE CommitInv' /\ UNCHANGED <<committed, answer>>
  <2>1. /\ writer = t /\ writer' = t /\ pc' = [pc EXCEPT ![t] = "remove"]
        /\ heap' = PopBackCounted(heap) /\ popped_key' = [popped_key EXCEPT ![t] = key_[heap.tail]]
        /\ UNCHANGED <<key, key_, committed, answer>>
    BY <1>10 DEF Pop, Go, lock
  <2>2. committed = K /\ key[t] \notin ToSet(committed)
    BY <1>10, <2>1 DEF CommitInv, K, Pop
  <2>3. heap.size >= Capacity /\ Order # <<>>
    <3>1. heap.size >= Capacity
      BY <1>1, <1>10 DEF ListInv, Settling, Pop
    <3> QED BY <1>1, <3>1, EmptySeq, LruAssumption
  <2>4. Order' = Front(Order) /\ heap.tail = Last(Order)
    <3>1. Order' = Forward(heap')
      BY DEF Order
    <3>2. Linked(heap', Front(Order)) /\ heap.tail = Last(Order)
      BY <1>1, <2>1, <2>3, CountedPop
    <3> QED BY <3>1, <3>2, LinkedReads
  <2>5. K' = Front(K) /\ Last(K) = key_[heap.tail]
    BY <1>1, <1>2, <1>3, <2>1, <2>3, <2>4, LabelledFront
  <2>6. Evicted(committed', K') /\ popped_key'[t] = Last(committed')
    BY <1>1, <1>2, <2>1, <2>2, <2>3, <2>5 DEF Evicted
  <2>7. pc'[t] = "remove"
    BY <1>1, <2>1
  <2>8. CommitInv'
    BY <1>1, <1>4, <2>1, <2>2, <2>6, <2>7 DEF CommitInv, K
  <2> QED BY <2>1, <2>8
<1>11. ASSUME NEW t \in Threads, RemoveIndexed(t)
       PROVE CommitInv' /\ UNCHANGED <<committed, answer>>
  <2>1. /\ writer = t /\ writer' = t /\ pc' = [pc EXCEPT ![t] = "push"] /\ pc[t] = "remove"
        /\ UNCHANGED <<key, heap, key_, committed, answer>>
    BY <1>1, <1>11 DEF RemoveIndexed, Go, locals, list, lock, LockInv
  <2>2. K' = K /\ Evicted(committed, K) /\ key[t] \notin ToSet(committed)
    BY <2>1 DEF CommitInv, K, KeysIn
  <2>3. pc'[t] = "push"
    BY <1>1, <2>1
  <2>4. CommitInv'
    BY <1>1, <1>4, <2>1, <2>2, <2>3 DEF CommitInv, K
  <2> QED BY <2>1, <2>4
<1>12. ASSUME NEW t \in Threads, NEW n \in Nodes, Push(t, n)
       PROVE CommitInv' /\ UNCHANGED <<committed, answer>>
  <2>1. /\ writer = t /\ writer' = t /\ pc' = [pc EXCEPT ![t] = "index"] /\ pc[t] = "push"
        /\ heap' = PushFrontCounted(heap, n) /\ key_' = [key_ EXCEPT ![n] = key[t]]
        /\ UNCHANGED <<key, committed, answer>>
    BY <1>12 DEF Push, Go, lock
  <2>2. key[t] \notin ToSet(committed) /\ (committed = K \/ Evicted(committed, K))
    BY <2>1 DEF CommitInv, K
  <2>3. n \notin ToSet(Order) /\ key[t] \in Keys
    BY <1>12, ActiveKey DEF Push, Unused, Order
  <2>4. Order' = <<n>> \o Order
    <3>1. Order' = Forward(heap')
      BY DEF Order
    <3>2. Linked(heap', <<n>> \o Order)
      BY <1>1, <2>1, <2>3, CountedPush
    <3> QED BY <3>1, <3>2, LinkedReads
  <2>5. key_'[n] = key[t] /\ \A m \in ToSet(Order) : key_'[m] = key_[m]
    BY <1>1, <2>1, <2>3
  <2>6. K' = <<key[t]>> \o K
    <3>1. Order \in Seq(Nodes) /\ LabelledIn(Order, key_, Keys) /\ n \in Nodes
      BY <1>1, <1>2
    <3>2. key_'[n] \in Keys
      BY <2>3, <2>5
    <3>3. Labelled(<<n>> \o Order, key_') = <<key_'[n]>> \o Labelled(Order, key_)
      BY ONLY <2>5, <3>1, <3>2, LabelledPrepend
    <3> QED BY <1>2, <1>3, <2>4, <2>5, <3>3
  <2>7. Len(K) < Capacity + Cardinality(Threads) - 1
    <3>1. t \in Changing
      BY <2>1 DEF Changing
    <3>2. Cardinality(Changing) # 0
      BY <3>1, ChangingThreads, FS_EmptySet
    <3>3. heap.size \in Int /\ Capacity \in Int
      BY <1>1, LruAssumption DEF Heaps
    <3> QED BY <1>1, <1>2, <3>2, <3>3, ChangingThreads DEF CountInv
  <2>8. Renewed(committed', K', key'[t])
    BY <2>1, <2>2, <2>6, <2>7 DEF Renewed, Evicted
  <2>9. pc'[t] = "index"
    BY <1>1, <2>1
  <2>10. CommitInv'
    BY <1>1, <1>4, <2>1, <2>2, <2>8, <2>9 DEF CommitInv, K
  <2> QED BY <2>1, <2>10
<1>13. ASSUME NEW t \in Threads, InsertIndexed(t)
       PROVE CommitInv' /\ UNCHANGED <<committed, answer>>
  <2>1. map[key[t]] = Null
    BY <1>13 DEF InsertIndexed, IndexInv
  <2>2. /\ writer = t /\ writer' = t /\ pc' = [pc EXCEPT ![t] = "true"] /\ pc[t] = "index"
        /\ UNCHANGED <<key, heap, key_, committed, answer>>
    BY <1>1, <1>13, <2>1 DEF InsertIndexed, Go, locals, list, lock, LockInv
  <2>3. K' = K /\ Renewed(committed, K, key[t]) /\ key[t] \notin ToSet(committed)
    BY <2>2 DEF CommitInv, K, KeysIn
  <2>4. pc'[t] = "true"
    BY <1>1, <2>2
  <2>5. CommitInv'
    BY <1>1, <1>4, <2>2, <2>3, <2>4 DEF CommitInv, K
  <2> QED BY <2>2, <2>5
<1>14. ASSUME NEW t \in Threads, Commit(t)
       PROVE CommitInv' /\ Lru!Next
  <2>1. writer = t /\ pc[t] = "true" /\ key[t] \notin ToSet(committed) /\ Renewed(committed, K, key[t])
    BY <1>1, <1>14 DEF Commit, LockInv, CommitInv, K
  <2>2. /\ committed' = K /\ writer' = NoThread /\ UNCHANGED <<heap, key_>>
        /\ answer' = [answer EXCEPT ![t] = [key |-> key[t], new |-> TRUE]]
    BY <1>14, <2>1 DEF Commit, Release, Return, list, K
  <2>3. K' = K
    BY <2>2 DEF K, KeysIn
  <2>4. CommitInv'
    BY <1>1, <1>2, <2>2, <2>3 DEF CommitInv, K
  <2>5. key[t] \in Keys
    BY <2>1, ActiveKey
  <2>6. Lru!ToSet(committed) = ToSet(committed) /\ Lru!Front(committed) = Front(committed)
    BY DEF Lru!ToSet, ToSet, Lru!Front, Front
  <2>7. Lru!InsertNew(t, key[t])
    <3>1. Capacity + (Cardinality(Threads) - 1) = Capacity + Cardinality(Threads) - 1
      BY ChangingThreads, LruAssumption
    <3> QED BY <2>1, <2>2, <2>6, <3>1 DEF Lru!InsertNew, Lru!Answer, Renewed
  <2> QED BY <2>4, <2>5, <2>7 DEF Lru!Next
<1>15. CASE UNCHANGED vars
  BY <1>15, KeepsCommit DEF vars, locals, list, lock
<1>16. CASE Next
  BY <1>5, <1>6, <1>7, <1>8, <1>9, <1>10, <1>11, <1>12, <1>13, <1>14, <1>16 DEF Next
<1> QED BY <1>15, <1>16
------------------------------------------------------------------------------
\* The inductive invariant.
IInv ==
  /\ ShapeInv /\ CountInv
  /\ Disjoint => IndexInv /\ CommitInv

LEMMA Invariant == Spec => []IInv
<1>1. Init => IInv
  BY InitShape, InitCount, InitIndex, InitCommit DEF IInv
<1>2. IInv /\ [Next]_vars => IInv'
  <2> SUFFICES ASSUME IInv, [Next]_vars PROVE IInv'
    OBVIOUS
  <2>1. ShapeInv' /\ CountInv'
    BY ShapeSteps, CountSteps DEF IInv
  <2>2. Disjoint' => Disjoint
    BY DEF Disjoint, Next, vars
  <2> QED BY <2>1, <2>2, IndexSteps, CommitSteps DEF IInv
<1> QED BY <1>1, <1>2, PTL DEF Spec

\* Types of the program's state, and whoever changes the list has it alone.
THEOREM LruTypes == Spec => []TypeOK
<1>1. IInv => TypeOK
  BY DEF IInv, ShapeInv
<1> QED BY <1>1, Invariant, PTL

\* However the inserts of any number of threads interleave, with whatever keys, the list reads the
\* same from both ends, its count is the number of its nodes and no function met the null record.
THEOREM ListStaysIntact == Spec => []ListIntact
<1>1. IInv => ListIntact
  <2> SUFFICES ASSUME IInv PROVE ListIntact
    OBVIOUS
  <2>1. Linked(heap, Order) /\ heap.size = Len(Order) /\ ~heap.fault /\ Order \in Seq(Nodes)
    BY DEF IInv, ShapeInv, ListInv, Linked
  <2>2. Forward(heap) = Order /\ Backward(heap) = Reverse(Order)
    BY <2>1, LinkedReads
  <2> QED BY <2>1, <2>2, ReverseProperties DEF ListIntact
<1> QED BY <1>1, Invariant, PTL

\* The list is over its capacity by fewer elements than threads insert: every push follows a look
\* at the size that its thread made before, and a thread makes one at a time.
THEOREM OvershootIsBounded == Spec => []BoundedOvershoot
<1>1. IInv => BoundedOvershoot
  <2> SUFFICES ASSUME IInv PROVE BoundedOvershoot
    OBVIOUS
  <2>1. heap.size \in Int /\ ShapeInv /\ CountInv
    BY DEF IInv, ShapeInv, TypeOK, Heaps
  <2> QED BY <2>1, ChangingThreads, LruAssumption DEF CountInv, BoundedOvershoot, Active
<1> QED BY <1>1, Invariant, PTL

\* Where no two threads insert the same key, the index finds exactly the nodes of the list between
\* inserts, although nobody locks it.
THEOREM IndexAgrees == Spec => []IndexAgreement
<1>1. IInv => IndexAgreement
  <2> SUFFICES ASSUME IInv, Disjoint, Settled, NEW k \in Keys
               PROVE {map[k]} \ {Null} = {n \in ToSet(Forward(heap)) : key_[n] = k}
    BY DEF IndexAgreement
  <2>1. Found(map[k]) = Holders(Order, key_, k)
    BY DEF IInv, IndexInv, Settled
  <2> QED BY <2>1 DEF Found, Holders, Order
<1> QED BY <1>1, Invariant, PTL

\* Where no two threads insert the same key, every insert looks as if it took effect at once on an
\* LRU list, for any number of threads and any capacity.
THEOREM InsertIsAtomic == Spec => LruSpec
<1>1. Init => Lru!Init
  BY DEF Init, Lru!Init, NoAnswer, Lru!NoAnswer
<1>2. IInv /\ [Next]_vars => [Disjoint => Lru!Next]_<<committed, answer>>
  BY CommitSteps DEF IInv
<1> QED BY <1>1, <1>2, Invariant, PTL DEF Spec, LruSpec
==============================================================================
