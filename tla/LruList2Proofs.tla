---------------------------- MODULE LruList2Proofs ----------------------------
(***************************************************************************)
(* LruList2 for any number of threads, keys and nodes and any capacity:    *)
(* whatever the workload, the types hold and the ends of the list stay     *)
(* nodes; for a workload that fits, list and index agree between inserts,  *)
(* touch meets no null record, and the structure is an atomic LRU list.    *)
(* The argument for several threads counts: the keys in the list are       *)
(* different ones and the key to be inserted is not among them, so that    *)
(* one node at least is a dummy, and dummies are at the end.               *)
(***************************************************************************)
EXTENDS LruList2, ListHeapProofs

Order == Forward(heap)

\* One thread does all the inserts.
Alone == \E t \in Threads : \A u \in Threads : u # t => keys_of[u] = {}

\* A node has been taken away and none added yet.
Short == writer # NoThread /\ pc[writer] \in {"remove", "push"}

\* What holds for any workload: the lock, and ends that are nodes.
TypeInv ==
  /\ TypeOK /\ heap.head \in Nodes /\ heap.tail \in Nodes
  /\ \A t \in Threads :
       /\ writer = t => pc[t] \in {"pop", "touch", "remove", "push", "index", "true", "false", "fault"}
       /\ pc[t] # "idle" => key[t] \in keys_of[t]
       /\ pc[t] = "touch" => rec[t] \in Nodes

ListInv ==
  /\ Linked(heap, Order) /\ ~heap.fault /\ \A t \in Threads : pc[t] # "fault"
  /\ Len(Order) = IF Short THEN Capacity - 1 ELSE Capacity

DummiesLast(q) == \A i, j \in 1..Len(q) : i < j /\ q[i] = NoKey => q[j] = NoKey

\* A key that a thread has not found stays away; a node that one has found stays, as only a thread
\* alone evicts keys; index and list agree but for the key that is being evicted or added.
IndexInv ==
  /\ DummiesLast(KeysIn(heap))
  /\ \A n \in Nodes : key_[n] # NoKey => \E t \in Threads : key_[n] \in keys_of[t]
  /\ \A t \in Threads : /\ pc[t] \in {"pop", "remove", "push", "index"} => map[key[t]] = Null
                        /\ pc[t] = "touch" => rec[t] = map[key[t]]
                        /\ pc[t] = "remove" => \/ popped_key[t] = NoKey
                                               \/ Alone /\ Holders(Order, key_, popped_key[t]) = {}
                        /\ pc[t] = "index" => /\ new_record[t] \in Nodes
                                              /\ Holders(Order, key_, key[t]) = {new_record[t]}
  /\ \A k \in Keys :
       \/ Found(map[k]) = Holders(Order, key_, k)
       \/ \E t \in Threads : pc[t] = "remove" /\ popped_key[t] = k
       \/ \E t \in Threads : pc[t] = "index" /\ key[t] = k

\* What the transaction of the writer has done to the keys as of the last commit.
Renewed(c, K, k) == \E i \in 1..Len(c) : c[i] = k /\ K = <<k>> \o RemoveAt(c, i)

CommitInv ==
  LET K == KeysIn(heap) IN
  /\ committed \in Seq(Keys \cup {NoKey}) /\ Len(committed) = Capacity
  /\ writer = NoThread => committed = K
  /\ \A t \in Threads : writer = t =>
       /\ pc[t] \in {"pop", "touch"} => committed = K
       /\ pc[t] \in {"remove", "push"} => key[t] \notin ToSet(committed) /\ K = Front(committed)
       /\ pc[t] \in {"index", "true"} => key[t] \notin ToSet(committed) /\ K = <<key[t]>> \o Front(committed)
       /\ pc[t] = "false" => Renewed(committed, K, key[t])

FitInv == ListInv /\ IndexInv /\ CommitInv
------------------------------------------------------------------------------
LEMMA Constants ==
  /\ Capacity \in Nat /\ Capacity > 1 /\ Dummies \in Seq(Nodes) /\ Len(Dummies) = Capacity
  /\ Distinct(Dummies) /\ NoThread \notin Threads /\ NoKey \notin Keys
  /\ Workloads \subseteq [Threads -> SUBSET Keys] /\ Null \notin Nodes
<1>1. Distinct(Dummies)
  BY Lru2Assumption, LenProperties DEF Distinct, IsInjective
<1> QED BY <1>1, Lru2Assumption, NullAssumption DEF Capacity

\* init: one push_front after the other gives a list of as many distinct nodes.
LEMMA InitialisedLinks ==
  /\ Initialised[Capacity] \in Heaps /\ ~Initialised[Capacity].fault
  /\ \E s : Linked(Initialised[Capacity], s) /\ Len(s) = Capacity
<1> DEFINE N == Capacity
           D == Dummies
           Is(n, f) == f = [i \in 0..n |-> IF i = 0 THEN EmptyHeap ELSE PushFront(f[i - 1], D[i])]
           Listed(h, i) ==
             /\ h \in Heaps /\ ~h.fault
             /\ \E s : /\ Linked(h, s) /\ Len(s) = i
                       /\ \A n \in ToSet(s) : \E j \in 1..i : n = D[j]
<1>1. N \in Nat /\ N > 1 /\ D \in Seq(Nodes) /\ Len(D) = N /\ Distinct(D)
  BY Constants
<1> HIDE DEF N, D
<1>2. \E f : Is(N, f)
  <2> DEFINE S == {n \in Nat : \E f : Is(n, f)}
  <2>1. 0 \in S
    <3> DEFINE f == [i \in 0..0 |-> EmptyHeap]
    <3>1. f = [i \in 0..0 |-> IF i = 0 THEN EmptyHeap ELSE PushFront(f[i - 1], D[i])]
      OBVIOUS
    <3> QED BY <3>1
  <2>2. ASSUME NEW n \in Nat, n \in S PROVE n + 1 \in S
    <3>1. PICK f : Is(n, f)
      BY <2>2
    <3> DEFINE m == n + 1
               g == [i \in 0..m |-> IF i = m THEN PushFront(f[n], D[m]) ELSE f[i]]
    <3>2. \A i \in 0..m : g[i] = IF i = 0 THEN EmptyHeap ELSE PushFront(g[i - 1], D[i])
      <4> TAKE i \in 0..m
      <4>1. CASE i = m
        <5>1. i # 0 /\ i - 1 = n /\ i - 1 \in 0..m /\ i - 1 # m
          BY <4>1
        <5> QED BY <4>1, <5>1
      <4>2. CASE i # m
        <5>1. i \in 0..n /\ g[i] = f[i]
          BY <4>2
        <5>2. i # 0 => i - 1 \in 0..m /\ i - 1 # m /\ g[i - 1] = f[i - 1]
          BY <4>2
        <5> HIDE DEF g, m
        <5> QED BY <3>1, <5>1, <5>2
      <4> QED BY <4>1, <4>2
    <3>3. Is(m, g)
      <4>1. g = [i \in 0..m |-> g[i]]
        OBVIOUS
      <4> HIDE DEF g, m
      <4> QED BY <3>2, <4>1
    <3> QED
      <4>1. m \in Nat
        OBVIOUS
      <4> HIDE DEF g, Is
      <4> QED BY <3>3, <4>1 DEF m
  <2>3. N \in S
    <3> HIDE DEF S
    <3> QED BY <1>1, <2>1, <2>2, SetInduction
  <2> HIDE DEF Is
  <2> QED BY <2>3
<1>3. Is(N, Initialised)
  <2>1. Initialised = CHOOSE f : Is(N, f)
    BY DEF Initialised, N, D
  <2> HIDE DEF Is
  <2> QED BY <1>2, <2>1
<1> DEFINE g == Initialised
<1>4. g[0] = EmptyHeap /\ \A i \in 1..N : g[i] = PushFront(g[i - 1], D[i])
  <2>1. \A i \in 0..N : g[i] = IF i = 0 THEN EmptyHeap ELSE PushFront(g[i - 1], D[i])
    <3> HIDE DEF g
    <3> QED BY <1>3 DEF g
  <2> HIDE DEF g
  <2> QED BY <1>1, <2>1
<1> HIDE DEF g, Is
<1>5. Listed(g[0], 0)
  <2>1. EmptyHeap \in Heaps /\ ~EmptyHeap.fault /\ EmptyHeap.head = Null /\ EmptyHeap.tail = Null
    BY DEF EmptyHeap, Heaps, Pointers
  <2>2. Linked(EmptyHeap, <<>>) /\ Len(<<>>) = 0 /\ ToSet(<<>>) = {}
    <3>1. <<>> \in Seq(Nodes) /\ Len(<<>>) = 0 /\ DOMAIN <<>> = {}
      BY EmptySeq, LenProperties
    <3>2. ToSet(<<>>) = {}
      BY <3>1 DEF ToSet
    <3> QED BY <2>1, <3>1, <3>2 DEF Linked, Distinct
  <2> QED BY <1>4, <2>1, <2>2
<1>6. ASSUME NEW k \in Nat, k + 1 <= N, Listed(g[k], k) PROVE Listed(g[k + 1], k + 1)
  <2>1. k + 1 \in 1..N /\ (k + 1) - 1 = k
    BY <1>1, <1>6
  <2> DEFINE h == g[k]
             n == D[k + 1]
  <2>2. g[k + 1] = PushFront(h, n)
    BY <1>4, <2>1
  <2>3. h \in Heaps /\ ~h.fault
    BY <1>6
  <2>4. PICK s : Linked(h, s) /\ Len(s) = k /\ \A m \in ToSet(s) : \E j \in 1..k : m = D[j]
    BY <1>6
  <2>5. n \in Nodes /\ \A j \in 1..k : D[j] # n
    <3>1. \A i \in 1..N : D[i] \in Nodes
      BY <1>1
    <3>2. \A j \in 1..k : j \in 1..N /\ j # k + 1
      BY <1>1, <2>1
    <3>3. \A i, j \in 1..N : D[i] = D[j] => i = j
      BY <1>1 DEF Distinct
    <3>4. \A j \in 1..k : D[j] # D[k + 1]
      BY <2>1, <3>2, <3>3
    <3> QED BY <2>1, <3>1, <3>4
  <2> HIDE DEF h, n
  <2>6. n \notin ToSet(s)
    BY <2>4, <2>5
  <2>7. /\ PushFront(h, n) \in Heaps /\ Linked(PushFront(h, n), <<n>> \o s)
        /\ PushFront(h, n).fault = h.fault
    BY <2>3, <2>4, <2>5, <2>6, PushFrontLinks
  <2>8. s \in Seq(Nodes)
    BY <2>4 DEF Linked
  <2>9. Len(<<n>> \o s) = k + 1 /\ ToSet(<<n>> \o s) = ToSet(s) \cup {n}
    BY <2>4, <2>5, <2>8, PrependProperties, PrependSet
  <2>10. \A m \in ToSet(<<n>> \o s) : \E j \in 1..(k + 1) : m = D[j]
    <3>1. \A j \in 1..k : j \in 1..(k + 1)
      OBVIOUS
    <3>2. k + 1 \in 1..(k + 1) /\ n = D[k + 1]
      BY DEF n
    <3> QED BY <2>4, <2>9, <3>1, <3>2
  <2> QED BY <2>2, <2>3, <2>7, <2>9, <2>10
<1> DEFINE S == {k \in Nat : k <= N => Listed(g[k], k)}
<1>7. 0 \in S
  <2> HIDE DEF Listed
  <2> QED BY <1>5
<1>8. ASSUME NEW k \in Nat, k \in S PROVE k + 1 \in S
  <2> HIDE DEF Listed
  <2>1. k + 1 <= N => k <= N
    BY <1>1
  <2> QED BY <1>6, <1>8, <2>1
<1>9. N \in S
  <2> HIDE DEF S
  <2> QED BY <1>1, <1>7, <1>8, SetInduction
<1>10. Listed(g[N], N)
  <2> HIDE DEF Listed
  <2> QED BY <1>1, <1>9
<1> QED BY <1>10 DEF g, N
------------------------------------------------------------------------------
\* The list functions on any heap whose ends are nodes.
LEMMA PopTypes ==
  ASSUME NEW h \in Heaps, h.head \in Nodes, h.tail \in Nodes
  PROVE /\ PopBackUnchecked(h) \in Heaps
        /\ PopBackUnchecked(h).head \in Nodes /\ PopBackUnchecked(h).tail \in Nodes
<1> DEFINE rest == h.prev[h.tail]
<1>1. rest \in Pointers /\ h.tail # Null /\ h.next \in [Nodes -> Pointers]
  BY NullAssumption DEF Heaps
<1>2. CASE rest = Null
  BY <1>1, <1>2 DEF PopBackUnchecked, Fault, Heaps
<1>3. CASE rest # Null
  <2> DEFINE g == PopBackUnchecked(h)
  <2>1. g = [h EXCEPT !.tail = rest, !.next[rest] = Null]
    BY <1>1, <1>3 DEF PopBackUnchecked, PopBack
  <2>2. rest \in Nodes /\ Null \in Pointers
    BY <1>1, <1>3 DEF Pointers
  <2> HIDE DEF rest, g
  <2>3. /\ g \in Heaps /\ g.head = h.head /\ g.tail = rest
    BY <2>1, <2>2 DEF Heaps, Pointers
  <2> QED BY <2>2, <2>3 DEF g
<1> QED BY <1>2, <1>3

LEMMA PushTypes ==
  ASSUME NEW h \in Heaps, h.head \in Nodes, h.tail \in Nodes, NEW n \in Nodes
  PROVE /\ PushFrontUnchecked(h, n) \in Heaps
        /\ PushFrontUnchecked(h, n).head \in Nodes /\ PushFrontUnchecked(h, n).tail \in Nodes
<1> DEFINE new == NewNode(h, n)
<1>1. new \in Heaps /\ new.tail = h.tail
  BY NewNodeProperties
<1> DEFINE g == PushFrontUnchecked(h, n)
<1>2. g = [new EXCEPT !.head = n, !.next[n] = h.head, !.prev[h.head] = n]
  BY NullAssumption DEF PushFrontUnchecked, PushFront
<1> HIDE DEF new, g
<1>3. g \in Heaps /\ g.head = n /\ g.tail = new.tail
  BY <1>1, <1>2 DEF Heaps, Pointers
<1> QED BY <1>1, <1>3 DEF g

LEMMA TouchTypes ==
  ASSUME NEW h \in Heaps, h.head \in Nodes, h.tail \in Nodes, NEW n \in Nodes
  PROVE /\ Touch(h, n) \in Heaps /\ Touch(h, n).head \in Nodes /\ Touch(h, n).tail \in Nodes
<1> DEFINE before == h.prev[n]
           after  == h.next[n]
<1>1. /\ before \in Pointers /\ after \in Pointers /\ Null \in Pointers /\ Nodes \subseteq Pointers
      /\ h.next \in [Nodes -> Pointers] /\ h.prev \in [Nodes -> Pointers]
  BY DEF Heaps, Pointers
<1>2. CASE n = h.head
  BY <1>2 DEF Touch
<1>3. CASE n # h.head /\ n = h.tail
  <2>1. Touch(h, n) = TouchTail(h, n)
    BY <1>3 DEF Touch
  <2>2. CASE before = Null
    BY <2>1, <2>2 DEF TouchTail, Fault, Heaps
  <2>3. CASE before # Null
    <3> DEFINE g == Touch(h, n)
    <3>1. g = [h EXCEPT !.prev[h.head] = n, !.next[n] = h.head, !.tail = before,
                                  !.next[before] = Null, !.head = n, !.prev[n] = Null]
      BY <2>1, <2>3 DEF TouchTail
    <3>2. before \in Nodes
      BY <1>1, <2>3 DEF Pointers
    <3> HIDE DEF before, g
    <3>3. g \in Heaps /\ g.head = n /\ g.tail = before
      BY <3>1, <3>2 DEF Heaps, Pointers
    <3> QED BY <3>2, <3>3 DEF g
  <2> QED BY <2>2, <2>3
<1>4. CASE n # h.head /\ n # h.tail
  <2>1. Touch(h, n) = TouchInner(h, n)
    BY <1>4 DEF Touch
  <2>2. CASE before = Null \/ after = Null
    BY <2>1, <2>2 DEF TouchInner, Fault, Heaps
  <2>3. CASE before # Null /\ after # Null
    <3> DEFINE g == Touch(h, n)
    <3>1. g = [h EXCEPT !.next[before] = after, !.prev[after] = before,
                                  !.prev[h.head] = n, !.next[n] = h.head, !.prev[n] = Null, !.head = n]
      BY <2>1, <2>3 DEF TouchInner
    <3>2. before \in Nodes /\ after \in Nodes
      BY <1>1, <2>3 DEF Pointers
    <3> HIDE DEF before, after, g
    <3>3. g \in Heaps /\ g.head = n /\ g.tail = h.tail
      BY <3>1, <3>2 DEF Heaps, Pointers
    <3> QED BY <3>2, <3>3 DEF g
  <2> QED BY <2>2, <2>3
<1> QED BY <1>2, <1>3, <1>4

LEMMA InitTypes == Init => TypeInv
<1> SUFFICES ASSUME Init PROVE TypeInv
  OBVIOUS
<1>1. PICK s : heap \in Heaps /\ Linked(heap, s) /\ Len(s) = Capacity
  BY InitialisedLinks DEF Init
<1>2. s \in Seq(Nodes) /\ heap.head = s[1] /\ heap.tail = s[Len(s)]
  BY <1>1, Constants, EmptySeq DEF Linked
<1>3. heap.head \in Nodes /\ heap.tail \in Nodes
  BY <1>1, <1>2, Constants
<1>4. TypeOK
  BY <1>1, Constants DEF Init, TypeOK, Labels, Pointers
<1> QED BY <1>3, <1>4, Constants DEF Init, TypeInv

LEMMA TypeSteps == ASSUME TypeInv, [Next]_vars PROVE TypeInv'
<1>1. /\ TypeOK /\ heap \in Heaps /\ heap.head \in Nodes /\ heap.tail \in Nodes
      /\ pc \in [Threads -> Labels] /\ key \in [Threads -> Keys \cup {NoKey}]
      /\ rec \in [Threads -> Pointers] /\ new_record \in [Threads -> Pointers]
      /\ popped_key \in [Threads -> Keys \cup {NoKey}] /\ map \in [Keys -> Pointers]
      /\ key_ \in [Nodes -> Keys \cup {NoKey}] /\ writer \in Threads \cup {NoThread}
      /\ keys_of \in [Threads -> SUBSET Keys] /\ NoThread \notin Threads /\ Null \notin Nodes
  BY Constants DEF TypeInv, TypeOK
<1>2. keys_of' = keys_of
  BY DEF Next, vars
<1> USE <1>1, <1>2
<1>3. ASSUME NEW t \in Threads, NEW k \in Keys, Call(t, k) PROVE TypeInv'
  <2> USE <1>3 DEF Call, Go, list
  <2>1. TypeOK'
    BY DEF TypeOK, Labels
  <2> QED BY <2>1 DEF TypeInv
<1>4. ASSUME NEW t \in Threads, Lookup(t) PROVE TypeInv'
  <2> USE <1>4 DEF Lookup, Go, list
  <2>1. key[t] \in Keys
    BY DEF TypeInv
  <2>2. TypeOK'
    BY <2>1 DEF TypeOK, Labels
  <2>3. writer # t
    BY DEF TypeInv
  <2> QED BY <2>1, <2>2, <2>3 DEF TypeInv, Pointers
<1>5. ASSUME NEW t \in Threads, Acquire(t) PROVE TypeInv'
  <2> USE <1>5 DEF Acquire, Go, list
  <2>1. TypeOK'
    BY DEF TypeOK, Labels, Pointers
  <2> QED BY <2>1 DEF TypeInv
<1>6. ASSUME NEW t \in Threads, Pop(t) PROVE TypeInv'
  <2> USE <1>6 DEF Pop, Go
  <2>1. heap' \in Heaps /\ heap'.head \in Nodes /\ heap'.tail \in Nodes
    BY PopTypes
  <2>2. TypeOK'
    BY <2>1 DEF TypeOK, Labels
  <2> QED BY <2>1, <2>2 DEF TypeInv
<1>7. ASSUME NEW t \in Threads, RemoveIndexed(t) PROVE TypeInv'
  <2> USE <1>7 DEF RemoveIndexed, Go, locals, list
  <2>1. TypeOK'
    BY DEF TypeOK, Labels, Pointers
  <2> QED BY <2>1 DEF TypeInv
<1>8. ASSUME NEW t \in Threads, NEW n \in Nodes, Push(t, n) PROVE TypeInv'
  <2> USE <1>8 DEF Push, Go
  <2>1. heap' \in Heaps /\ heap'.head \in Nodes /\ heap'.tail \in Nodes
    BY PushTypes
  <2>2. TypeOK'
    BY <2>1 DEF TypeOK, Labels, Pointers
  <2> QED BY <2>1, <2>2 DEF TypeInv
<1>9. ASSUME NEW t \in Threads, InsertIndexed(t) PROVE TypeInv'
  <2> USE <1>9 DEF InsertIndexed, Go, locals, list
  <2>1. TypeOK'
    BY DEF TypeOK, Labels
  <2> QED BY <2>1 DEF TypeInv
<1>10. ASSUME NEW t \in Threads, TouchRecord(t) PROVE TypeInv'
  <2> USE <1>10 DEF TouchRecord, Go, locals
  <2>1. heap' \in Heaps /\ heap'.head \in Nodes /\ heap'.tail \in Nodes
    BY TouchTypes DEF TypeInv
  <2>2. TypeOK'
    BY <2>1 DEF TypeOK, Labels
  <2> QED BY <2>1, <2>2 DEF TypeInv
<1>11. ASSUME NEW t \in Threads, Commit(t) PROVE TypeInv'
  <2> USE <1>11 DEF Commit, Go, list
  <2>1. TypeOK'
    BY DEF TypeOK, Labels, Pointers
  <2> QED BY <2>1 DEF TypeInv, TypeOK
<1>12. CASE UNCHANGED vars
  <2> USE <1>12 DEF vars, locals, list
  <2>1. TypeOK'
    BY DEF TypeOK
  <2> QED BY <2>1 DEF TypeInv
<1> QED
  BY <1>3, <1>4, <1>5, <1>6, <1>7, <1>8, <1>9, <1>10, <1>11, <1>12 DEF Next
------------------------------------------------------------------------------
K == KeysIn(heap)

LEMMA Facts ==
  ASSUME TypeInv, ListInv
  PROVE /\ heap \in Heaps /\ Linked(heap, Order) /\ Order \in Seq(Nodes) /\ Distinct(Order)
        /\ ToSet(Order) \subseteq Nodes /\ LabelledIn(Order, key_, Keys \cup {NoKey})
        /\ K = Labelled(Order, key_) /\ K \in Seq(Keys \cup {NoKey}) /\ Len(K) = Len(Order)
        /\ \A i \in 1..Len(Order) : K[i] = key_[Order[i]]
        /\ \A k : k \in ToSet(K) <=> Holders(Order, key_, k) # {}
<1>1. heap \in Heaps /\ Linked(heap, Order) /\ Order \in Seq(Nodes) /\ Distinct(Order)
  BY DEF TypeInv, TypeOK, ListInv, Linked
<1>2. ToSet(Order) \subseteq Nodes
  BY <1>1, LenProperties DEF ToSet
<1>3. LabelledIn(Order, key_, Keys \cup {NoKey})
  BY <1>2 DEF LabelledIn, TypeInv, TypeOK
<1>4. K = Labelled(Order, key_)
  BY DEF K, KeysIn, Labelled, Order
<1> QED BY <1>1, <1>2, <1>3, <1>4, LabelledProperties

LEMMA Active ==
  ASSUME TypeInv, NEW t \in Threads, pc[t] # "idle"
  PROVE key[t] \in Keys /\ key[t] \in keys_of[t] /\ key[t] # NoKey
BY Constants DEF TypeInv, TypeOK

LEMMA OwnKeys ==
  ASSUME TypeInv, Fitting, NEW t \in Threads, NEW u \in Threads, t # u, pc[t] # "idle", pc[u] # "idle"
  PROVE key[t] # key[u] /\ ~Alone
BY DEF TypeInv, Fitting, Alone

\* A step that leaves list and index alone.
LEMMA KeepsIndex ==
  ASSUME TypeInv, IndexInv, UNCHANGED <<keys_of, heap, key_, map>>, NEW t \in Threads,
         \A u \in Threads : u # t => /\ pc'[u] = pc[u] /\ key'[u] = key[u] /\ rec'[u] = rec[u]
                                     /\ popped_key'[u] = popped_key[u] /\ new_record'[u] = new_record[u],
         pc[t] \notin {"remove", "index"}, pc'[t] \notin {"remove", "index"},
         pc'[t] \in {"pop", "push"} => map[key'[t]] = Null,
         pc'[t] = "touch" => rec'[t] = map[key'[t]]
  PROVE IndexInv'
<1>1. Order' = Order /\ KeysIn(heap)' = KeysIn(heap) /\ (Alone' <=> Alone)
  BY DEF Order, KeysIn, Alone
<1>2. \A k : Found(map'[k]) = Found(map[k]) /\ Holders(Order', key_', k) = Holders(Order, key_, k)
  BY <1>1 DEF Found, Holders
<1>3. \A u \in Threads : /\ pc'[u] \in {"pop", "remove", "push", "index"} => map'[key'[u]] = Null
                         /\ pc'[u] = "touch" => rec'[u] = map'[key'[u]]
                         /\ pc'[u] = "remove" => \/ popped_key'[u] = NoKey
                                                 \/ Alone' /\ Holders(Order', key_', popped_key'[u]) = {}
                         /\ pc'[u] = "index" => /\ new_record'[u] \in Nodes
                                                /\ Holders(Order', key_', key'[u]) = {new_record'[u]}
  <2> TAKE u \in Threads
  <2>1. CASE u = t
    BY <2>1
  <2>2. CASE u # t
    BY <1>1, <1>2, <2>2 DEF IndexInv
  <2> QED BY <2>1, <2>2
<1>4. ASSUME NEW k \in Keys
      PROVE \/ Found(map'[k]) = Holders(Order', key_', k)
            \/ \E u \in Threads : pc'[u] = "remove" /\ popped_key'[u] = k
            \/ \E u \in Threads : pc'[u] = "index" /\ key'[u] = k
  BY <1>2 DEF IndexInv
<1>5. /\ DummiesLast(KeysIn(heap)')
      /\ \A n \in Nodes : key_'[n] # NoKey => \E u \in Threads : key_'[n] \in keys_of'[u]
  BY <1>1 DEF IndexInv
<1> QED BY <1>1, <1>3, <1>4, <1>5 DEF IndexInv

LEMMA KeepsCommit ==
  ASSUME CommitInv, UNCHANGED <<heap, key_, committed, writer>>,
         \A u \in Threads : writer = u => pc'[u] = pc[u] /\ key'[u] = key[u]
  PROVE CommitInv'
<1>1. KeysIn(heap)' = KeysIn(heap)
  BY DEF KeysIn
<1> QED BY <1>1 DEF CommitInv

LEMMA KeepsList ==
  ASSUME ListInv, UNCHANGED heap, \A u \in Threads : pc'[u] # "fault", Short' <=> Short
  PROVE ListInv'
<1>1. Order' = Order
  BY DEF Order
<1> QED BY <1>1 DEF ListInv

\* Where list and index agree, the list has no key twice.
LEMMA KeysOnce ==
  ASSUME TypeInv, ListInv, NEW i \in 1..Len(K), NEW j \in 1..Len(K), K[i] = K[j], K[i] \in Keys,
         \A k \in Keys : Found(map[k]) = Holders(Order, key_, k)
  PROVE i = j
<1>1. i \in 1..Len(Order) /\ j \in 1..Len(Order)
  BY Facts
<1>2. Order[i] \in ToSet(Order) /\ Order[j] \in ToSet(Order)
  BY <1>1, Facts, LenProperties DEF ToSet
<1>3. key_[Order[i]] = K[i] /\ key_[Order[j]] = K[i]
  BY <1>1, Facts
<1>4. Order[i] \in Found(map[K[i]]) /\ Order[j] \in Found(map[K[i]])
  BY <1>2, <1>3 DEF Holders
<1>5. Order[i] = Order[j]
  BY <1>4 DEF Found
<1> QED BY <1>1, <1>5, Facts DEF Distinct

\* A full list in which a key is missing that the workload has room for ends in a dummy.
LEMMA RoomForKey ==
  ASSUME TypeInv, ListInv, IndexInv, Fitting, ~Alone, NEW t \in Threads, pc[t] # "idle",
         map[key[t]] = Null, Len(Order) = Capacity,
         \A k \in Keys : Found(map[k]) = Holders(Order, key_, k)
  PROVE Last(K) = NoKey
<1> SUFFICES ASSUME Last(K) # NoKey PROVE FALSE
  OBVIOUS
<1> DEFINE used == UNION {keys_of[u] : u \in Threads}
           rest == used \ {key[t]}
<1>1. /\ K \in Seq(Keys \cup {NoKey}) /\ Len(K) = Capacity /\ Capacity \in Nat /\ Capacity > 1
      /\ \A i \in 1..Capacity : K[i] = key_[Order[i]] /\ Order[i] \in Nodes
  BY Facts, Constants
<1>2. K[Capacity] # NoKey /\ Capacity \in 1..Capacity
  BY <1>1 DEF Last
<1>3. \A i \in 1..Capacity : K[i] # NoKey
  <2>1. \A i, j \in 1..Capacity : i < j /\ K[i] = NoKey => K[j] = NoKey
    BY <1>1 DEF IndexInv, DummiesLast, K
  <2>2. \A i \in 1..Capacity : i # Capacity => i < Capacity
    BY <1>1
  <2> QED BY <1>2, <2>1, <2>2
<1>4. \A i \in 1..Capacity : K[i] \in used
  BY <1>1, <1>3 DEF IndexInv
<1>5. \A i \in 1..Capacity : K[i] # key[t]
  <2>1. key[t] \in Keys /\ Found(map[key[t]]) = {}
    BY Active DEF Found
  <2>2. Holders(Order, key_, key[t]) = {}
    BY <2>1
  <2>3. key[t] \notin ToSet(K)
    BY <2>2, Facts
  <2> QED BY <1>1, <2>3, LenProperties DEF ToSet
<1>6. \A i \in 1..Capacity : K[i] \in Keys
  <2>1. \A i \in 1..Capacity : K[i] \in Keys \cup {NoKey}
    BY <1>1
  <2> QED BY <1>3, <2>1
<1>7. Distinct(K)
  BY <1>1, <1>6, KeysOnce DEF Distinct
<1>8. IsFiniteSet(used) /\ Cardinality(used) <= Capacity
  <2>1. ASSUME NEW u \in Threads, keys_of[u] = used PROVE FALSE
    <3>1. \A v \in Threads : v # u => keys_of[v] = {}
      BY <2>1 DEF Fitting
    <3> QED BY <3>1 DEF Alone
  <2> QED BY <2>1 DEF Fitting
<1>9. key[t] \in used
  BY Active
<1> HIDE DEF used
<1>10. /\ IsFiniteSet(rest) /\ Cardinality(rest) = Cardinality(used) - 1
       /\ Cardinality(used) \in Nat
  BY <1>8, <1>9, FS_RemoveElement, FS_CardinalityType
<1>11. K \in Seq(rest)
  <2>1. \A i \in 1..Capacity : K[i] \in rest
    BY <1>4, <1>5
  <2>2. K = [i \in 1..Capacity |-> K[i]]
    BY <1>1
  <2> HIDE DEF rest, K
  <2> QED BY <1>1, <2>1, <2>2
<1> HIDE DEF rest
<1>12. Len(K) <= Cardinality(rest)
  BY <1>7, <1>10, <1>11, DistinctFitIn
<1> QED BY <1>1, <1>8, <1>10, <1>12
------------------------------------------------------------------------------
(* What pop_back, push_front_with_return and touch do to a sequence of keys. *)
Labels2 == Keys \cup {NoKey}

LEMMA DummiesFront ==
  ASSUME NEW q \in Seq(Labels2), q # <<>>, DummiesLast(q)
  PROVE DummiesLast(Front(q))
<1> DEFINE L == Len(q)
           r == Front(q)
<1>1. L \in Nat \ {0} /\ Len(r) = L - 1 /\ \A i \in 1..(L - 1) : r[i] = q[i]
  BY EndsProperties
<1>2. \A i, j \in 1..L : i < j /\ q[i] = NoKey => q[j] = NoKey
  BY DEF DummiesLast
<1> HIDE DEF L, r
<1>3. \A i \in 1..(L - 1) : i \in 1..L
  BY <1>1
<1>4. DummiesLast(r)
  BY <1>1, <1>2, <1>3 DEF DummiesLast
<1> QED BY <1>4 DEF r

LEMMA DummiesPrepend ==
  ASSUME NEW q \in Seq(Labels2), DummiesLast(q), NEW k \in Keys
  PROVE DummiesLast(<<k>> \o q)
<1> DEFINE L == Len(q)
           r == <<k>> \o q
<1>1. /\ L \in Nat /\ Len(r) = L + 1 /\ r[1] = k /\ k # NoKey
      /\ \A i \in 1..L : r[i + 1] = q[i]
  BY PrependProperties, Constants DEF Labels2
<1>2. \A i, j \in 1..L : i < j /\ q[i] = NoKey => q[j] = NoKey
  BY DEF DummiesLast
<1> HIDE DEF L, r
<1>3. ASSUME NEW i \in 1..(L + 1), NEW j \in 1..(L + 1), i < j, r[i] = NoKey PROVE r[j] = NoKey
  <2>1. i # 1
    BY <1>1, <1>3
  <2>2. i - 1 \in 1..L /\ j - 1 \in 1..L /\ (i - 1) + 1 = i /\ (j - 1) + 1 = j /\ i - 1 < j - 1
    BY <1>1, <1>3, <2>1
  <2>3. q[i - 1] = NoKey
    BY <1>1, <1>3, <2>2
  <2>4. q[j - 1] = NoKey
    BY <1>2, <2>2, <2>3
  <2> QED BY <1>1, <2>2, <2>4
<1>4. DummiesLast(r)
  BY <1>1, <1>3 DEF DummiesLast
<1> QED BY <1>4 DEF r

LEMMA DummiesRemoveAt ==
  ASSUME NEW q \in Seq(Labels2), DummiesLast(q), NEW p \in 1..Len(q)
  PROVE DummiesLast(RemoveAt(q, p)) /\ RemoveAt(q, p) \in Seq(Labels2)
<1> DEFINE L == Len(q)
           r == RemoveAt(q, p)
           w(i) == IF i < p THEN i ELSE i + 1
<1>1. /\ L \in Nat /\ Len(r) = L - 1 /\ r \in Seq(Labels2) /\ p \in 1..L
      /\ \A i \in 1..(L - 1) : r[i] = IF i < p THEN q[i] ELSE q[i + 1]
  BY RemoveAtIn
<1>2. \A i, j \in 1..L : i < j /\ q[i] = NoKey => q[j] = NoKey
  BY DEF DummiesLast
<1> HIDE DEF L, r
<1>3. \A i \in 1..(L - 1) : r[i] = q[w(i)] /\ w(i) \in 1..L
  BY <1>1
<1>4. \A i, j \in 1..(L - 1) : i < j => w(i) < w(j)
  BY <1>1
<1> HIDE DEF w
<1>5. DummiesLast(r)
  BY <1>1, <1>2, <1>3, <1>4 DEF DummiesLast
<1> QED BY <1>1, <1>5 DEF r
------------------------------------------------------------------------------
LEMMA InitFit == Init => FitInv
<1> SUFFICES ASSUME Init PROVE FitInv
  OBVIOUS
<1>1. PICK s : ~heap.fault /\ Linked(heap, s) /\ Len(s) = Capacity
  BY InitialisedLinks DEF Init
<1>2. Order = s
  BY <1>1, LinkedReads DEF Order
<1>3. ListInv
  BY <1>1, <1>2, Constants DEF Init, ListInv, Short
<1>4. /\ K \in Seq(Labels2) /\ Len(K) = Capacity
      /\ \A i \in 1..Capacity : K[i] = key_[Order[i]] /\ Order[i] \in Nodes
      /\ ToSet(Order) \subseteq Nodes
  BY <1>1, <1>2, <1>3, InitTypes, Facts DEF Labels2
<1>5. \A i \in 1..Capacity : K[i] = NoKey
  BY <1>4 DEF Init
<1>6. IndexInv
  <2>1. DummiesLast(K)
    BY <1>4, <1>5 DEF DummiesLast
  <2>2. \A k \in Keys : Found(map[k]) = {} /\ Holders(Order, key_, k) = {}
    BY <1>4, Constants DEF Init, Found, Holders
  <2> QED BY <2>1, <2>2 DEF IndexInv, Init, K
<1>7. committed = K
  <2>1. committed = [i \in 1..Capacity |-> NoKey]
    BY Constants, LenProperties DEF Init
  <2>2. K = [i \in 1..Capacity |-> K[i]]
    BY <1>4
  <2> HIDE DEF K
  <2> QED BY <1>5, <2>1, <2>2
<1>8. CommitInv
  BY <1>4, <1>7, Constants DEF Init, CommitInv, K, Labels2
<1> QED BY <1>3, <1>6, <1>8 DEF FitInv

Before == TypeInv /\ Fitting /\ FitInv /\ keys_of' = keys_of
After  == FitInv' /\ [Lru!Next]_<<committed, answer>>

LEMMA CallStep == ASSUME Before, NEW t \in Threads, NEW k \in Keys, Call(t, k) PROVE After
<1> USE DEF Before, Call, Go, list
<1>1. pc \in [Threads -> Labels] /\ key \in [Threads -> Keys \cup {NoKey}] /\ writer # t
  BY DEF TypeInv, TypeOK
<1>2. ListInv'
  BY <1>1, KeepsList DEF FitInv, ListInv, Short
<1>3. IndexInv'
  BY <1>1, KeepsIndex DEF FitInv
<1>4. CommitInv'
  BY <1>1, KeepsCommit DEF FitInv
<1> QED BY <1>2, <1>3, <1>4 DEF FitInv, After

LEMMA LookupStep == ASSUME Before, NEW t \in Threads, Lookup(t) PROVE After
<1> USE DEF Before, Lookup, Go, list
<1>1. pc \in [Threads -> Labels] /\ rec \in [Threads -> Pointers] /\ writer # t
  BY DEF TypeInv, TypeOK
<1>2. ListInv'
  BY <1>1, KeepsList DEF FitInv, ListInv, Short
<1>3. IndexInv'
  BY <1>1, KeepsIndex DEF FitInv
<1>4. CommitInv'
  BY <1>1, KeepsCommit DEF FitInv
<1> QED BY <1>2, <1>3, <1>4 DEF FitInv, After

LEMMA AcquireStep == ASSUME Before, NEW t \in Threads, Acquire(t) PROVE After
<1>1. /\ pc \in [Threads -> Labels] /\ rec \in [Threads -> Pointers]
      /\ writer # t /\ NoThread \notin Threads /\ TypeInv /\ ListInv /\ IndexInv /\ CommitInv
      /\ pc[t] \in {"pop", "touch"}
      /\ UNCHANGED <<keys_of, key, popped_key, new_record, map, heap, key_, answer, committed>>
  BY Constants DEF TypeInv, TypeOK, Before, Acquire, list, FitInv
<1>2. CASE writer = NoThread /\ writer' = t /\ UNCHANGED <<pc, rec>>
  <2>1. ListInv'
    BY <1>1, <1>2, KeepsList DEF ListInv, Short
  <2>2. IndexInv'
    BY <1>1, <1>2, KeepsIndex DEF IndexInv
  <2>3. KeysIn(heap)' = KeysIn(heap)
    BY <1>1 DEF KeysIn
  <2>4. CommitInv'
    BY <1>1, <1>2, <2>3 DEF CommitInv
  <2> QED BY <1>1, <2>1, <2>2, <2>4 DEF FitInv, After
<1>3. CASE writer # NoThread /\ UNCHANGED writer /\ Go(t, "lookup") /\ rec' = [rec EXCEPT ![t] = Null]
  <2> USE <1>1, <1>3 DEF Go
  <2>1. ListInv'
    BY KeepsList DEF ListInv, Short
  <2>2. IndexInv'
    BY KeepsIndex
  <2>3. CommitInv'
    BY KeepsCommit
  <2> QED BY <2>1, <2>2, <2>3 DEF FitInv, After
<1> QED BY <1>2, <1>3 DEF Acquire

LEMMA CommitStep == ASSUME Before, NEW t \in Threads, Commit(t) PROVE After
<1>1. /\ pc \in [Threads -> Labels] /\ rec \in [Threads -> Pointers]
      /\ key \in [Threads -> Keys \cup {NoKey}]
      /\ popped_key \in [Threads -> Keys \cup {NoKey}] /\ new_record \in [Threads -> Pointers]
      /\ writer = t /\ NoThread \notin Threads /\ TypeInv /\ ListInv /\ IndexInv /\ CommitInv
      /\ pc[t] \in {"true", "false"} /\ pc' = [pc EXCEPT ![t] = "idle"]
      /\ key' = [key EXCEPT ![t] = NoKey] /\ rec' = [rec EXCEPT ![t] = Null]
      /\ popped_key' = [popped_key EXCEPT ![t] = NoKey]
      /\ new_record' = [new_record EXCEPT ![t] = Null]
      /\ writer' = NoThread /\ committed' = K
      /\ answer' = [answer EXCEPT ![t] = [key |-> key[t], new |-> pc[t] = "true"]]
      /\ UNCHANGED <<keys_of, map, heap, key_>>
  BY Constants DEF TypeInv, TypeOK, Before, Commit, Go, list, FitInv, K
<1>2. ListInv'
  BY <1>1, KeepsList DEF ListInv, Short
<1>3. IndexInv'
  BY <1>1, KeepsIndex
<1>4. K' = K /\ K \in Seq(Keys \cup {NoKey}) /\ Len(K) = Capacity
  BY <1>1, Facts DEF K, KeysIn, ListInv, Short
<1>5. CommitInv'
  BY <1>1, <1>4 DEF CommitInv, K
<1>6. key[t] \in Keys
  BY <1>1, Active
<1>7. /\ committed \in Seq(Keys \cup {NoKey}) /\ Len(committed) = Capacity
      /\ Lru!ToSet(committed) = ToSet(committed) /\ Lru!Front(committed) = Front(committed)
      /\ \A i : Lru!RemoveAt(committed, i) = RemoveAt(committed, i)
      /\ DOMAIN committed = 1..Capacity /\ Capacity \in Nat
  BY <1>1, Constants, LenProperties
     DEF CommitInv, Lru!ToSet, ToSet, Lru!Front, Front, Lru!RemoveAt, RemoveAt
<1>8. CASE pc[t] = "true"
  <2>1. key[t] \notin ToSet(committed) /\ K = <<key[t]>> \o Front(committed)
    BY <1>1, <1>8 DEF CommitInv, K
  <2>2. answer' = [answer EXCEPT ![t] = [key |-> key[t], new |-> TRUE]]
    BY <1>1, <1>8
  <2>3. Len(committed) >= Capacity /\ committed' = <<key[t]>> \o Lru!Front(committed)
    BY <1>1, <1>7, <2>1
  <2>4. Lru!InsertNew(t, key[t])
    BY <1>7, <2>1, <2>2, <2>3 DEF Lru!InsertNew, Lru!Answer
  <2> QED BY <1>2, <1>3, <1>5, <1>6, <2>4 DEF Lru!Next, After, FitInv
<1>9. CASE pc[t] = "false"
  <2>1. Renewed(committed, K, key[t])
    BY <1>1, <1>9 DEF CommitInv, K
  <2>2. Lru!InsertPresent(t, key[t])
    BY <1>1, <1>7, <1>9, <2>1 DEF Lru!InsertPresent, Lru!Answer, Renewed
  <2> QED BY <1>2, <1>3, <1>5, <1>6, <2>2 DEF Lru!Next, After, FitInv
<1> QED BY <1>1, <1>8, <1>9

LEMMA PopStep == ASSUME Before, NEW t \in Threads, Pop(t) PROVE After
<1>1. /\ pc \in [Threads -> Labels] /\ popped_key \in [Threads -> Keys \cup {NoKey}]
      /\ key \in [Threads -> Keys \cup {NoKey}] /\ key_ \in [Nodes -> Keys \cup {NoKey}]
      /\ writer = t /\ NoThread \notin Threads /\ Capacity \in Nat /\ Capacity > 1
      /\ TypeInv /\ ListInv /\ IndexInv /\ CommitInv /\ Fitting
      /\ pc[t] = "pop" /\ heap' = PopBackUnchecked(heap)
      /\ popped_key' = [popped_key EXCEPT ![t] = key_[heap.tail]]
      /\ UNCHANGED <<keys_of, key, rec, new_record, map, key_, writer, answer, committed>>
  BY Constants DEF TypeInv, TypeOK, Before, Pop, FitInv
<1>2. /\ heap \in Heaps /\ Linked(heap, Order) /\ Order \in Seq(Nodes) /\ Distinct(Order)
      /\ ToSet(Order) \subseteq Nodes /\ LabelledIn(Order, key_, Keys \cup {NoKey})
      /\ K = Labelled(Order, key_) /\ K \in Seq(Keys \cup {NoKey}) /\ Len(K) = Len(Order)
      /\ \A k : k \in ToSet(K) <=> Holders(Order, key_, k) # {}
  BY <1>1, Facts
<1>3. Len(Order) = Capacity /\ Order # <<>> /\ K # <<>>
  BY <1>1, <1>2, EmptySeq DEF ListInv, Short
<1> DEFINE n == Last(Order)
<1>4. PopBackUnchecked(heap) = PopBack(heap)
  <2>1. Capacity - 1 \in 1..(Len(Order) - 1) /\ (Capacity - 1) + 1 = Len(Order) /\ Capacity - 1 \in 1..Len(Order)
    BY <1>1, <1>3
  <2>2. heap.prev[Order[Len(Order)]] = Order[Capacity - 1] /\ heap.tail = Order[Len(Order)]
    BY <1>2, <1>3, <2>1 DEF Linked
  <2>3. Order[Capacity - 1] \in Nodes
    BY <1>2, <2>1
  <2> QED BY <1>1, <2>2, <2>3, Constants DEF PopBackUnchecked, TypeInv
<1>5. /\ heap.tail = n /\ n \in Nodes /\ Linked(heap', Front(Order)) /\ ~heap'.fault
  <2>1. /\ heap.tail = Order[Len(Order)] /\ heap.tail \in Nodes
        /\ Linked(PopBack(heap), Front(Order)) /\ PopBack(heap).fault = heap.fault
    BY <1>2, <1>3, PopBackLinks
  <2> QED BY <1>1, <1>4, <2>1 DEF Last, ListInv
<1>6. Order' = Front(Order) /\ Len(Front(Order)) = Capacity - 1 /\ ToSet(Order') = ToSet(Order) \ {n}
      /\ n \in ToSet(Order)
  <2>1. Order' = Forward(heap')
    BY DEF Order
  <2>2. Order' = Front(Order)
    BY <1>5, <2>1, LinkedReads
  <2> QED BY <1>2, <1>3, <2>2, FrontSet, EndsProperties
<1>7. K' = Front(K) /\ Last(K) = key_[n]
  <2>1. K' = Labelled(Order', key_')
    BY DEF K, KeysIn, Labelled, Order
  <2>2. Labelled(Front(Order), key_) = Front(Labelled(Order, key_)) /\ Last(Labelled(Order, key_)) = key_[Last(Order)]
    BY <1>2, <1>3, LabelledFront
  <2> QED BY <1>1, <1>2, <1>6, <2>1, <2>2
<1> HIDE DEF n
<1>8. pc' = [pc EXCEPT ![t] = "remove"] /\ popped_key'[t] = key_[n]
  BY <1>1, <1>5 DEF Pop, Go
<1>9. /\ \A u \in Threads : pc[u] \notin {"remove", "index"}
      /\ \A k \in Keys : Found(map[k]) = Holders(Order, key_, k)
  BY <1>1 DEF TypeInv, TypeOK, IndexInv
<1>10. ListInv'
  BY <1>1, <1>5, <1>6, <1>8 DEF ListInv, Short
<1>11. \A k \in Keys : Found(map'[k]) = Found(map[k]) /\ Holders(Order', key_', k) = Holders(Order, key_, k) \ {n}
  BY <1>1, <1>6 DEF Found, Holders
<1>12. key_[n] \in Keys => Holders(Order', key_', key_[n]) = {}
  <2> HAVE key_[n] \in Keys
  <2>1. n \in Holders(Order, key_, key_[n]) /\ Found(map[key_[n]]) = Holders(Order, key_, key_[n])
    BY <1>6, <1>9 DEF Holders
  <2>2. Holders(Order, key_, key_[n]) = {n}
    BY <2>1 DEF Found
  <2> QED BY <1>11, <2>2
<1>13. \/ key_[n] = NoKey
       \/ Alone /\ key_[n] \in Keys
  <2>0. key_[n] \in Keys \cup {NoKey}
    BY <1>1, <1>5
  <2>1. CASE Alone
    BY <2>0, <2>1
  <2>2. CASE ~Alone
    <3>1. map[key[t]] = Null
      BY <1>1 DEF IndexInv
    <3>2. pc[t] # "idle"
      BY <1>1
    <3>3. Last(K) = NoKey
      BY ONLY <1>1, <1>3, <1>9, <2>2, <3>1, <3>2, t \in Threads, RoomForKey
    <3> QED BY <1>7, <3>3
  <2> QED BY <2>1, <2>2
<1>14. IndexInv'
  <2>1. DummiesLast(KeysIn(heap)')
    <3>1. DummiesLast(K)
      BY <1>1 DEF IndexInv, K
    <3>2. DummiesLast(Front(K))
      BY <1>2, <1>3, <3>1, DummiesFront DEF Labels2
    <3> QED BY <1>7, <3>2 DEF K
  <2>2. \A m \in Nodes : key_'[m] # NoKey => \E u \in Threads : key_'[m] \in keys_of'[u]
    BY <1>1 DEF IndexInv
  <2>3. Alone' <=> Alone
    BY <1>1 DEF Alone
  <2>4. ASSUME NEW u \in Threads
        PROVE /\ pc'[u] \in {"pop", "remove", "push", "index"} => map'[key'[u]] = Null
              /\ pc'[u] = "touch" => rec'[u] = map'[key'[u]]
              /\ pc'[u] = "remove" => \/ popped_key'[u] = NoKey
                                      \/ Alone' /\ Holders(Order', key_', popped_key'[u]) = {}
              /\ pc'[u] # "index"
    <3>1. CASE u = t
      BY <1>1, <1>8, <1>12, <1>13, <2>3, <3>1 DEF IndexInv
    <3>2. CASE u # t
      BY <1>1, <1>8, <1>9, <3>2 DEF IndexInv
    <3> QED BY <3>1, <3>2
  <2>5. ASSUME NEW k \in Keys
        PROVE \/ Found(map'[k]) = Holders(Order', key_', k)
              \/ pc'[t] = "remove" /\ popped_key'[t] = k
    <3>1. CASE k = key_[n]
      BY <1>1, <1>8, <3>1
    <3>2. CASE k # key_[n]
      <4>1. Holders(Order, key_, k) \ {n} = Holders(Order, key_, k)
        BY <3>2 DEF Holders
      <4> QED BY <1>9, <1>11, <4>1
    <3> QED BY <3>1, <3>2
  <2> QED BY ONLY <2>1, <2>2, <2>4, <2>5, t \in Threads DEF IndexInv
<1>15. CommitInv'
  <2>1. committed = K /\ key[t] \notin ToSet(committed)
    <3>1. committed = K
      BY <1>1 DEF CommitInv, K
    <3>2. key[t] \in Keys /\ map[key[t]] = Null
      BY <1>1, Active DEF IndexInv
    <3>3. Holders(Order, key_, key[t]) = {}
      BY <1>9, <3>2 DEF Found
    <3> QED BY <1>2, <3>1, <3>3
  <2> QED BY <1>1, <1>7, <1>8, <2>1 DEF CommitInv, K
<1> QED BY <1>1, <1>10, <1>14, <1>15 DEF After, FitInv

LEMMA RemoveStep == ASSUME Before, NEW t \in Threads, RemoveIndexed(t) PROVE After
<1>1. /\ pc \in [Threads -> Labels] /\ popped_key \in [Threads -> Keys \cup {NoKey}]
      /\ map \in [Keys -> Pointers] /\ NoThread \notin Threads /\ NoKey \notin Keys /\ writer = t
      /\ TypeInv /\ ListInv /\ IndexInv /\ CommitInv /\ Fitting
      /\ pc[t] = "remove" /\ pc' = [pc EXCEPT ![t] = "push"]
      /\ map' = [k \in Keys |-> IF k = popped_key[t] THEN Null ELSE map[k]]
      /\ UNCHANGED <<keys_of, locals, heap, key_, writer, answer, committed>>
  BY Constants DEF TypeInv, TypeOK, Before, RemoveIndexed, Go, list, FitInv
<1>2. /\ Order' = Order /\ KeysIn(heap)' = KeysIn(heap) /\ (Alone' <=> Alone)
      /\ \A k \in Keys : Holders(Order', key_', k) = Holders(Order, key_, k)
  BY <1>1 DEF Order, KeysIn, Alone, Holders
<1>3. ListInv'
  BY <1>1, KeepsList DEF ListInv, Short
<1>4. \A u \in Threads : u # t => pc[u] \notin {"remove", "index"}
  BY <1>1 DEF TypeInv, TypeOK
<1>5. ASSUME NEW k \in Keys PROVE Found(map'[k]) = Holders(Order', key_', k)
  <2>1. CASE k = popped_key[t]
    <3>1. Holders(Order, key_, k) = {}
      BY <1>1, <2>1 DEF IndexInv
    <3>2. map'[k] = Null
      BY <1>1, <2>1
    <3> QED BY <1>2, <3>1, <3>2 DEF Found
  <2>2. CASE k # popped_key[t]
    <3>1. Found(map[k]) = Holders(Order, key_, k)
      BY <1>1, <1>4, <2>2 DEF IndexInv
    <3>2. map'[k] = map[k]
      BY <1>1, <2>2
    <3> QED BY <1>2, <3>1, <3>2
  <2> QED BY <2>1, <2>2
<1>6. ASSUME NEW u \in Threads
      PROVE /\ pc'[u] \in {"pop", "remove", "push", "index"} => map'[key'[u]] = Null
            /\ pc'[u] = "touch" => rec'[u] = map'[key'[u]]
            /\ pc'[u] \notin {"remove", "index"}
  <2>1. pc'[u] \notin {"remove", "index"}
    BY <1>1, <1>4
  <2>2. ASSUME pc'[u] \in {"pop", "remove", "push", "index"} PROVE map'[key'[u]] = Null
    <3>1. pc[u] \in {"pop", "remove", "push", "index"}
      BY <1>1, <2>2
    <3>2. key[u] \in Keys /\ map[key[u]] = Null /\ key' = key
      BY <1>1, <3>1, Active DEF IndexInv, locals
    <3> QED BY <1>1, <3>2
  <2>3. ASSUME pc'[u] = "touch" PROVE rec'[u] = map'[key'[u]]
    <3>1. u # t /\ pc[u] = "touch"
      BY <1>1, <2>3
    <3>2. key[u] \in Keys /\ rec[u] = map[key[u]] /\ key' = key /\ rec' = rec
      BY <1>1, <3>1, Active DEF IndexInv, locals
    <3>3. popped_key[t] = NoKey
      <4>1. ~Alone
        BY <1>1, <3>1, OwnKeys
      <4> QED BY <1>1, <4>1 DEF IndexInv
    <3> QED BY <1>1, <3>2, <3>3
  <2> QED BY <2>1, <2>2, <2>3
<1>7. IndexInv'
  <2>1. /\ DummiesLast(KeysIn(heap)')
        /\ \A m \in Nodes : key_'[m] # NoKey => \E u \in Threads : key_'[m] \in keys_of'[u]
    BY <1>1, <1>2 DEF IndexInv
  <2> QED BY ONLY <1>5, <1>6, <2>1 DEF IndexInv
<1>8. CommitInv'
  BY <1>1, <1>2 DEF CommitInv, locals
<1> QED BY <1>1, <1>3, <1>7, <1>8 DEF After, FitInv

LEMMA PushStep == ASSUME Before, NEW t \in Threads, NEW n \in Nodes, Push(t, n) PROVE After
<1>1. /\ pc \in [Threads -> Labels] /\ new_record \in [Threads -> Pointers]
      /\ key \in [Threads -> Keys \cup {NoKey}] /\ key_ \in [Nodes -> Keys \cup {NoKey}]
      /\ writer = t /\ NoThread \notin Threads /\ Capacity \in Nat /\ Capacity > 1
      /\ TypeInv /\ ListInv /\ IndexInv /\ CommitInv /\ Fitting
      /\ pc[t] = "push" /\ pc' = [pc EXCEPT ![t] = "index"]
      /\ heap' = PushFrontUnchecked(heap, n) /\ key_' = [key_ EXCEPT ![n] = key[t]]
      /\ new_record' = [new_record EXCEPT ![t] = n] /\ n \notin ToSet(Order)
      /\ UNCHANGED <<keys_of, key, rec, popped_key, map, writer, answer, committed>>
  BY Constants DEF TypeInv, TypeOK, Before, Push, Go, FitInv, Unused, Order
<1>2. /\ heap \in Heaps /\ Linked(heap, Order) /\ Order \in Seq(Nodes)
      /\ LabelledIn(Order, key_, Keys \cup {NoKey})
      /\ K = Labelled(Order, key_) /\ K \in Seq(Keys \cup {NoKey})
  BY <1>1, Facts
<1>3. Len(Order) = Capacity - 1 /\ key[t] \in Keys /\ map[key[t]] = Null /\ key[t] \in keys_of[t]
  BY <1>1, Active DEF ListInv, Short, IndexInv
<1>4. Linked(heap', <<n>> \o Order) /\ ~heap'.fault
  <2>1. PushFrontUnchecked(heap, n) = PushFront(heap, n)
    BY <1>1, Constants DEF PushFrontUnchecked, TypeInv
  <2>2. Linked(PushFront(heap, n), <<n>> \o Order) /\ PushFront(heap, n).fault = heap.fault
    BY <1>1, <1>2, PushFrontLinks
  <2> QED BY <1>1, <2>1, <2>2 DEF ListInv
<1>5. /\ Order' = <<n>> \o Order /\ Len(<<n>> \o Order) = Capacity
      /\ ToSet(Order') = ToSet(Order) \cup {n}
  <2>1. Order' = Forward(heap')
    BY DEF Order
  <2>2. Order' = <<n>> \o Order
    BY <1>4, <2>1, LinkedReads
  <2>3. Len(<<n>> \o Order) = Len(Order) + 1 /\ ToSet(<<n>> \o Order) = ToSet(Order) \cup {n}
    BY <1>2, PrependProperties, PrependSet
  <2> QED BY <1>1, <1>3, <2>2, <2>3
<1>6. key_'[n] = key[t] /\ \A m \in Nodes : m # n => key_'[m] = key_[m]
  BY <1>1
<1>7. K' = <<key[t]>> \o K
  <2>1. K' = Labelled(Order', key_')
    BY DEF K, KeysIn, Labelled, Order
  <2>2. key_'[n] \in Keys \cup {NoKey} /\ \A m \in ToSet(Order) : key_'[m] = key_[m]
    BY <1>1, <1>3, <1>6
  <2>3. Order \in Seq(Nodes) /\ LabelledIn(Order, key_, Keys \cup {NoKey}) /\ n \in Nodes
    BY <1>2
  <2>4. Labelled(<<n>> \o Order, key_') = <<key_'[n]>> \o Labelled(Order, key_)
    BY ONLY <2>2, <2>3, LabelledPrepend
  <2> QED BY <1>2, <1>5, <1>6, <2>1, <2>4
<1>8. ListInv'
  BY <1>1, <1>4, <1>5 DEF ListInv, Short
<1>9. /\ \A u \in Threads : u # t => pc[u] \notin {"remove", "index"} /\ pc'[u] \notin {"remove", "index"}
      /\ \A k \in Keys : Found(map[k]) = Holders(Order, key_, k)
  <2>1. \A u \in Threads : u # t => pc[u] \notin {"remove", "index"} /\ pc'[u] \notin {"remove", "index"}
    BY <1>1 DEF TypeInv, TypeOK
  <2>2. \A u \in Threads : pc[u] \notin {"remove", "index"}
    BY <1>1, <2>1
  <2> QED BY <1>1, <2>1, <2>2 DEF IndexInv
<1>10. ASSUME NEW k \in Keys
       PROVE /\ Found(map'[k]) = Found(map[k])
             /\ k = key[t] => Holders(Order', key_', k) = {n}
             /\ k # key[t] => Holders(Order', key_', k) = Holders(Order, key_, k)
  <2>1. Found(map'[k]) = Found(map[k])
    BY <1>1
  <2>2. \A m \in ToSet(Order) : m \in Nodes /\ m # n /\ key_'[m] = key_[m]
    BY <1>1, <1>6, Facts
  <2>3. CASE k = key[t]
    <3>1. Holders(Order, key_, k) = {}
      BY <1>3, <1>9, <2>3 DEF Found
    <3> QED BY <1>5, <1>6, <2>1, <2>2, <2>3, <3>1 DEF Holders
  <2>4. CASE k # key[t]
    BY <1>5, <1>6, <2>1, <2>2, <2>4 DEF Holders
  <2> QED BY <2>3, <2>4
<1>11. IndexInv'
  <2>1. DummiesLast(KeysIn(heap)')
    <3>1. DummiesLast(K)
      BY <1>1 DEF IndexInv, K
    <3>2. DummiesLast(<<key[t]>> \o K)
      BY <1>2, <1>3, <3>1, DummiesPrepend DEF Labels2
    <3> QED BY <1>7, <3>2 DEF K
  <2>2. \A m \in Nodes : key_'[m] # NoKey => \E u \in Threads : key_'[m] \in keys_of'[u]
    <3> TAKE m \in Nodes
    <3>1. CASE m = n
      BY <1>1, <1>3, <1>6, <3>1
    <3>2. CASE m # n
      BY <1>1, <1>6, <3>2 DEF IndexInv
    <3> QED BY <3>1, <3>2
  <2>3. ASSUME NEW u \in Threads
        PROVE /\ pc'[u] \in {"pop", "remove", "push", "index"} => map'[key'[u]] = Null
              /\ pc'[u] = "touch" => rec'[u] = map'[key'[u]]
              /\ pc'[u] # "remove"
              /\ pc'[u] = "index" => /\ new_record'[u] \in Nodes
                                     /\ Holders(Order', key_', key'[u]) = {new_record'[u]}
    <3>1. CASE u = t
      BY <1>1, <1>3, <1>10, <3>1
    <3>2. CASE u # t
      BY <1>1, <1>9, <3>2 DEF IndexInv
    <3> QED BY <3>1, <3>2
  <2>4. ASSUME NEW k \in Keys
        PROVE \/ Found(map'[k]) = Holders(Order', key_', k)
              \/ pc'[t] = "index" /\ key'[t] = k
    <3>1. CASE k = key[t]
      BY <1>1, <3>1
    <3>2. CASE k # key[t]
      BY <1>9, <1>10, <3>2
    <3> QED BY <3>1, <3>2
  <2> QED BY ONLY <2>1, <2>2, <2>3, <2>4, t \in Threads DEF IndexInv
<1>12. CommitInv'
  <2>1. key[t] \notin ToSet(committed) /\ K = Front(committed)
    BY <1>1 DEF CommitInv, K
  <2> QED BY <1>1, <1>7, <2>1 DEF CommitInv, K
<1> QED BY <1>1, <1>8, <1>11, <1>12 DEF After, FitInv

LEMMA IndexStep == ASSUME Before, NEW t \in Threads, InsertIndexed(t) PROVE After
<1>1. /\ pc \in [Threads -> Labels] /\ key \in [Threads -> Keys \cup {NoKey}]
      /\ map \in [Keys -> Pointers] /\ NoThread \notin Threads /\ writer = t /\ Null \notin Nodes
      /\ TypeInv /\ ListInv /\ IndexInv /\ CommitInv /\ Fitting /\ pc[t] = "index"
      /\ UNCHANGED <<keys_of, locals, heap, key_, writer, answer, committed>>
  BY Constants DEF TypeInv, TypeOK, Before, InsertIndexed, list, FitInv
<1>2. /\ map[key[t]] = Null /\ key[t] \in Keys /\ new_record[t] \in Nodes
      /\ Holders(Order, key_, key[t]) = {new_record[t]}
  BY <1>1, Active DEF IndexInv
<1>3. map' = [map EXCEPT ![key[t]] = new_record[t]] /\ pc' = [pc EXCEPT ![t] = "true"]
  BY <1>2 DEF InsertIndexed, Go
<1>4. /\ Order' = Order /\ KeysIn(heap)' = KeysIn(heap)
      /\ \A k \in Keys : Holders(Order', key_', k) = Holders(Order, key_, k)
  BY <1>1 DEF Order, KeysIn, Holders
<1>5. ListInv'
  BY <1>1, <1>3, KeepsList DEF ListInv, Short
<1>6. \A u \in Threads : u # t => pc[u] \notin {"remove", "index"}
  BY <1>1 DEF TypeInv, TypeOK
<1>7. ASSUME NEW k \in Keys PROVE Found(map'[k]) = Holders(Order', key_', k)
  <2>1. CASE k = key[t]
    <3>1. Found(map'[k]) = {new_record[t]}
      BY <1>1, <1>2, <1>3, <2>1 DEF Found
    <3> QED BY <1>2, <1>4, <2>1, <3>1
  <2>2. CASE k # key[t]
    <3>1. map'[k] = map[k]
      BY <1>1, <1>3, <2>2
    <3>2. Found(map[k]) = Holders(Order, key_, k)
      BY <1>1, <1>6, <2>2 DEF IndexInv
    <3> QED BY <1>4, <3>1, <3>2
  <2> QED BY <2>1, <2>2
<1>8. ASSUME NEW u \in Threads
      PROVE /\ pc'[u] \in {"pop", "remove", "push", "index"} => map'[key'[u]] = Null
            /\ pc'[u] = "touch" => rec'[u] = map'[key'[u]]
            /\ pc'[u] \notin {"remove", "index"}
  <2>1. CASE u = t
    BY <1>1, <1>3, <2>1
  <2>2. CASE u # t /\ pc[u] # "idle"
    <3>1. key[u] # key[t] /\ key[u] \in Keys
      BY <1>1, <2>2, OwnKeys, Active
    <3>2. map'[key[u]] = map[key[u]]
      BY <1>1, <1>3, <3>1
    <3> QED BY <1>1, <1>3, <1>6, <2>2, <3>2 DEF IndexInv, locals
  <2>3. CASE u # t /\ pc[u] = "idle"
    BY <1>1, <1>3, <2>3
  <2> QED BY <2>1, <2>2, <2>3
<1>9. IndexInv'
  <2>1. /\ DummiesLast(KeysIn(heap)')
        /\ \A m \in Nodes : key_'[m] # NoKey => \E u \in Threads : key_'[m] \in keys_of'[u]
    BY <1>1, <1>4 DEF IndexInv
  <2> QED BY ONLY <1>7, <1>8, <2>1 DEF IndexInv
<1>10. CommitInv'
  BY <1>1, <1>3, <1>4 DEF CommitInv, locals
<1> QED BY <1>1, <1>5, <1>9, <1>10 DEF After, FitInv

LEMMA TouchStep == ASSUME Before, NEW t \in Threads, TouchRecord(t) PROVE After
<1>1. /\ pc \in [Threads -> Labels] /\ key \in [Threads -> Keys \cup {NoKey}]
      /\ NoThread \notin Threads /\ writer = t /\ Null \notin Nodes /\ Capacity \in Nat
      /\ TypeInv /\ ListInv /\ IndexInv /\ CommitInv /\ Fitting /\ pc[t] = "touch"
      /\ heap' = Touch(heap, rec[t])
      /\ UNCHANGED <<keys_of, locals, map, key_, writer, answer, committed>>
  BY Constants DEF TypeInv, TypeOK, Before, TouchRecord, FitInv
<1>2. /\ heap \in Heaps /\ Linked(heap, Order) /\ Order \in Seq(Nodes) /\ Distinct(Order)
      /\ ToSet(Order) \subseteq Nodes /\ LabelledIn(Order, key_, Keys \cup {NoKey})
      /\ K = Labelled(Order, key_) /\ K \in Seq(Keys \cup {NoKey}) /\ Len(K) = Len(Order)
      /\ \A i \in 1..Len(Order) : K[i] = key_[Order[i]]
  BY <1>1, Facts
<1>3. /\ \A u \in Threads : pc[u] \notin {"remove", "index"}
      /\ \A k \in Keys : Found(map[k]) = Holders(Order, key_, k)
      /\ Len(Order) = Capacity
  BY <1>1 DEF TypeInv, TypeOK, IndexInv, ListInv, Short
<1>4. rec[t] \in ToSet(Order) /\ key_[rec[t]] = key[t] /\ key[t] \in Keys
  <2>1. key[t] \in Keys /\ rec[t] \in Nodes /\ rec[t] = map[key[t]]
    BY <1>1, Active DEF TypeInv, IndexInv
  <2>2. rec[t] \in Found(map[key[t]])
    BY <1>1, <2>1 DEF Found
  <2> QED BY <1>3, <2>1, <2>2 DEF Holders
<1>5. PICK p \in 1..Len(Order) : Order[p] = rec[t]
  BY <1>2, <1>4, LenProperties DEF ToSet
<1>6. Linked(heap', Moved(Order, p)) /\ ~heap'.fault
  <2>1. /\ Linked(Touch(heap, Order[p]), Moved(Order, p))
        /\ Touch(heap, Order[p]).fault = heap.fault
    BY <1>2, TouchLinks
  <2> QED BY <1>1, <1>5, <2>1 DEF ListInv
<1>7. pc' = [pc EXCEPT ![t] = "false"]
  BY <1>6 DEF TouchRecord, Go
<1>8. Order' = Moved(Order, p) /\ ToSet(Order') = ToSet(Order) /\ Len(Moved(Order, p)) = Len(Order)
  <2>1. Order' = Forward(heap')
    BY DEF Order
  <2>2. Order' = Moved(Order, p)
    BY <1>6, <2>1, LinkedReads
  <2> QED BY <1>2, <2>2, MovedSet, MovedProperties
<1>9. K' = <<key[t]>> \o RemoveAt(K, p) /\ K[p] = key[t] /\ p \in 1..Len(K)
  <2>1. K' = Labelled(Order', key_')
    BY DEF K, KeysIn, Labelled, Order
  <2>2. Labelled(Moved(Order, p), key_) = <<key_[Order[p]]>> \o RemoveAt(Labelled(Order, key_), p)
    <3>1. /\ Order \in Seq(Nodes) /\ LabelledIn(Order, key_, Keys \cup {NoKey})
          /\ p \in 1..Len(Order)
      BY <1>2
    <3> DEFINE L == Keys \cup {NoKey}
               r == RemoveAt(Order, p)
               n == Order[p]
    <3>2. LabelledIn(r, key_, L) /\ Labelled(r, key_) = RemoveAt(Labelled(Order, key_), p)
      <4>1. ASSUME NEW q, q = p
            PROVE LabelledIn(RemoveAt(Order, q), key_, L) /\ Labelled(RemoveAt(Order, q), key_) = RemoveAt(Labelled(Order, key_), q)
        <5>1. q \in 1..Len(Order) /\ Order \in Seq(Nodes) /\ LabelledIn(Order, key_, L)
          BY <3>1, <4>1
        <5> HIDE DEF L
        <5> QED BY ONLY <5>1, LabelledRemoveAt
      <4> QED BY <4>1
    <3>3. r \in Seq(Nodes) /\ n \in Nodes /\ n \in ToSet(Order)
      BY <3>1, RemoveAtProperties, LenProperties DEF ToSet
    <3>4. key_[n] \in L
      BY <3>1, <3>3 DEF LabelledIn
    <3>5. Moved(Order, p) = <<n>> \o r
      BY DEF Moved
    <3> HIDE DEF r, n, L
    <3>6. Labelled(<<n>> \o r, key_) = <<key_[n]>> \o Labelled(r, key_)
      BY ONLY <3>2, <3>3, <3>4, LabelledPrepend
    <3> QED BY <3>2, <3>5, <3>6 DEF n
  <2> QED BY <1>1, <1>2, <1>4, <1>5, <1>8, <2>1, <2>2
<1>10. ListInv'
  BY <1>1, <1>3, <1>6, <1>7, <1>8 DEF ListInv, Short
<1>11. \A k \in Keys : Found(map'[k]) = Found(map[k]) /\ Holders(Order', key_', k) = Holders(Order, key_, k)
  BY <1>1, <1>8 DEF Found, Holders
<1>12. IndexInv'
  <2>1. DummiesLast(KeysIn(heap)')
    <3>1. DummiesLast(K)
      BY <1>1 DEF IndexInv, K
    <3>2. DummiesLast(RemoveAt(K, p)) /\ RemoveAt(K, p) \in Seq(Labels2)
      BY <1>2, <1>9, <3>1, DummiesRemoveAt DEF Labels2
    <3>3. DummiesLast(<<key[t]>> \o RemoveAt(K, p))
      BY <1>4, <3>2, DummiesPrepend
    <3> QED BY <1>9, <3>3 DEF K
  <2>2. \A m \in Nodes : key_'[m] # NoKey => \E u \in Threads : key_'[m] \in keys_of'[u]
    BY <1>1 DEF IndexInv
  <2>3. ASSUME NEW u \in Threads
        PROVE /\ pc'[u] \in {"pop", "remove", "push", "index"} => map'[key'[u]] = Null
              /\ pc'[u] = "touch" => rec'[u] = map'[key'[u]]
              /\ pc'[u] \notin {"remove", "index"}
    BY <1>1, <1>3, <1>7 DEF IndexInv, locals
  <2>4. \A k \in Keys : Found(map'[k]) = Holders(Order', key_', k)
    BY <1>3, <1>11
  <2> QED BY ONLY <2>1, <2>2, <2>3, <2>4 DEF IndexInv
<1>13. CommitInv'
  <2>1. committed = K
    BY <1>1 DEF CommitInv, K
  <2>2. Renewed(committed, K', key[t])
    BY <1>9, <2>1 DEF Renewed
  <2>3. key' = key
    BY <1>1 DEF locals
  <2> QED BY <1>1, <1>7, <2>2, <2>3 DEF CommitInv, K
<1> QED BY <1>1, <1>10, <1>12, <1>13 DEF After, FitInv

LEMMA FitSteps == ASSUME TypeInv, Fitting, FitInv, [Next]_vars PROVE After
<1>1. Before
  BY DEF Before, Next, vars
<1>2. CASE Next
  BY <1>1, <1>2, CallStep, LookupStep, AcquireStep, PopStep, RemoveStep, PushStep, IndexStep,
     TouchStep, CommitStep DEF Next
<1>3. CASE UNCHANGED vars
  <2> USE <1>3 DEF vars, locals, list
  <2>1. ListInv'
    BY KeepsList DEF FitInv, ListInv, Short
  <2>2. CommitInv'
    BY KeepsCommit DEF FitInv
  <2>3. Order' = Order /\ KeysIn(heap)' = KeysIn(heap) /\ (Alone' <=> Alone)
    BY DEF Order, KeysIn, Alone
  <2>4. \A k : Found(map'[k]) = Found(map[k]) /\ Holders(Order', key_', k) = Holders(Order, key_, k)
    BY <2>3 DEF Found, Holders
  <2>5. IndexInv'
    BY <2>3, <2>4 DEF FitInv, IndexInv
  <2> QED BY <2>1, <2>2, <2>5 DEF FitInv, After
<1> QED BY <1>2, <1>3
------------------------------------------------------------------------------
\* The inductive invariant.
IInv == TypeInv /\ (Fitting => FitInv)

LEMMA Invariant == Spec => []IInv
<1>1. Init => IInv
  BY InitTypes, InitFit DEF IInv
<1>2. IInv /\ [Next]_vars => IInv'
  <2> SUFFICES ASSUME IInv, [Next]_vars PROVE IInv'
    OBVIOUS
  <2>1. TypeInv'
    BY TypeSteps DEF IInv
  <2>2. Fitting' => Fitting
    BY DEF Fitting, Next, vars
  <2> QED BY <2>1, <2>2, FitSteps DEF IInv, After
<1> QED BY <1>1, <1>2, PTL DEF Spec

\* Whatever keys the threads insert, also where they share some or have too many: the types hold,
\* and whoever changes the list has its lock.
THEOREM Lru2Types == Spec => []TypeOK
<1>1. IInv => TypeOK
  BY DEF IInv, TypeInv
<1> QED BY <1>1, Invariant, PTL

\* Between the inserts of a workload that fits, the list has as many nodes as init created, the same
\* from both ends, and the index finds exactly those that are no dummies.
THEOREM Lru2StaysIntact == Spec => []ListIntact
<1>1. IInv => ListIntact
  <2> SUFFICES ASSUME IInv, Fitting, Settled
               PROVE /\ Len(Forward(heap)) = Capacity /\ Forward(heap) = Reverse(Backward(heap))
                     /\ \A k \in Keys : {map[k]} \ {Null} = {n \in ToSet(Forward(heap)) : key_[n] = k}
    BY DEF ListIntact
  <2>1. /\ TypeInv /\ ListInv /\ IndexInv
        /\ \A t \in Threads : pc[t] \notin {"remove", "push", "index"}
    BY DEF IInv, FitInv, Settled
  <2>2. ~Short
    BY <2>1, Constants DEF Short, TypeInv, TypeOK
  <2>3. Len(Order) = Capacity /\ Linked(heap, Order) /\ Order \in Seq(Nodes)
    BY <2>1, <2>2, Facts DEF ListInv
  <2>4. Forward(heap) = Order /\ Backward(heap) = Reverse(Order)
    BY <2>3, LinkedReads
  <2>5. \A k \in Keys : Found(map[k]) = Holders(Order, key_, k)
    BY <2>1 DEF IndexInv
  <2> QED BY <2>3, <2>4, <2>5, ReverseProperties DEF Found, Holders
<1> QED BY <1>1, Invariant, PTL

\* In a workload that fits, the node that a thread has found in the unlocked index is still in the
\* list when the thread has the list's lock and touches it.
THEOREM TouchIsSafe == Spec => []TouchFindsNode
<1>1. IInv => TouchFindsNode
  BY DEF IInv, FitInv, ListInv, TouchFindsNode
<1> QED BY <1>1, Invariant, PTL

\* A workload that fits sees an LRU list of Capacity keys in which every insert takes effect at once:
\* a new key replaces the least recently used one, a key that is there becomes the most recent.
THEOREM Lru2InsertIsAtomic == Spec => LruSpec
<1>1. Init => Lru!Init
  BY DEF Init, Lru!Init, NoAnswer, Lru!NoAnswer
<1>2. IInv /\ [Next]_vars => [Fitting => Lru!Next]_<<committed, answer>>
  BY FitSteps DEF IInv, After
<1> QED BY <1>1, <1>2, Invariant, PTL DEF Spec, LruSpec
==============================================================================
