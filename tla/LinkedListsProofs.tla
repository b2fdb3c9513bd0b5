-------------------------- MODULE LinkedListsProofs ---------------------------
(***************************************************************************)
(* The linked lists a client calls, for any set of nodes: the pointers     *)
(* spell a sequence of distinct allocated nodes, in both directions where  *)
(* there are two, and every call does to it what NodeSequence says.        *)
(***************************************************************************)
EXTENDS LinkedLists, ListHeapProofs

\* How a heap of each class holds a sequence.
Represents(c, h, s) ==
  /\ s \in Seq(Nodes)
  /\ c = "doubly" => Linked(h, s)
  /\ c = "stack" => Chain(h.head, h.next, s)
  /\ c = "fifo" => Queue(h, Reverse(s))

Read(c, h) == IF c = "fifo" THEN Reverse(Follow(h.tail, h.next)) ELSE Forward(h)

\* The inductive invariant.
IInv ==
  /\ class \in Classes
  /\ heap \in Heaps /\ ~heap.fault
  /\ inserted \subseteq Nodes
  /\ result \in Pointers \cup {"true", "false"}
  /\ Represents(class, heap, Contents)
  /\ ToSet(Contents) \subseteq inserted

LEMMA Reads ==
  ASSUME NEW c \in Classes, NEW h, NEW s, Represents(c, h, s)
  PROVE Read(c, h) = s
<1>1. CASE c = "doubly"
  BY <1>1, LinkedReads DEF Represents, Read
<1>2. CASE c = "stack"
  BY <1>2, FollowChain DEF Represents, Read, Forward
<1>3. CASE c = "fifo"
  <2>1. Follow(h.tail, h.next) = Reverse(s)
    BY <1>3, FollowChain DEF Represents, Queue
  <2> QED BY <1>3, <2>1, ReverseProperties DEF Represents, Read
<1> QED BY <1>1, <1>2, <1>3 DEF Classes

LEMMA ContentsRead == Contents = Read(class, heap)
BY DEF Contents, Read
------------------------------------------------------------------------------
LEMMA Members ==
  ASSUME NEW s \in Seq(Nodes)
  PROVE ToSet(s) = {s[i] : i \in 1..Len(s)} /\ ToSet(s) \subseteq Nodes
BY LenProperties DEF ToSet

LEMMA MembersOf ==
  ASSUME NEW s \in Seq(Nodes), NEW n \in Nodes
  PROVE /\ ToSet(<<n>> \o s) \subseteq ToSet(s) \cup {n}
        /\ ToSet(Append(s, n)) \subseteq ToSet(s) \cup {n}
        /\ ToSet(Reverse(s)) = ToSet(s)
        /\ s # <<>> => ToSet(Tail(s)) \subseteq ToSet(s) /\ ToSet(Front(s)) \subseteq ToSet(s)
<1>1. Len(s) \in Nat /\ ToSet(s) = {s[i] : i \in 1..Len(s)}
  BY Members
<1>2. ToSet(<<n>> \o s) \subseteq ToSet(s) \cup {n}
  <2> DEFINE r == <<n>> \o s
  <2>1. /\ r \in Seq(Nodes) /\ Len(r) = Len(s) + 1 /\ r[1] = n
        /\ \A i \in 1..Len(s) : r[i + 1] = s[i]
    BY PrependProperties
  <2> HIDE DEF r
  <2>2. ASSUME NEW k \in 1..Len(r) PROVE r[k] \in ToSet(s) \cup {n}
    <3>1. CASE k = 1
      BY <2>1, <3>1
    <3>2. CASE k # 1
      <4>1. k - 1 \in 1..Len(s) /\ (k - 1) + 1 = k
        BY <1>1, <2>1, <3>2
      <4> QED BY <1>1, <2>1, <4>1
    <3> QED BY <3>1, <3>2
  <2>3. ToSet(r) = {r[k] : k \in 1..Len(r)}
    BY <2>1, Members
  <2>4. ToSet(r) \subseteq ToSet(s) \cup {n}
    BY <2>2, <2>3
  <2> QED BY <2>4 DEF r
<1>3. ToSet(Append(s, n)) \subseteq ToSet(s) \cup {n}
  <2> DEFINE r == Append(s, n)
  <2>1. /\ r \in Seq(Nodes) /\ Len(r) = Len(s) + 1 /\ r[Len(s) + 1] = n
        /\ \A i \in 1..Len(s) : r[i] = s[i]
    BY AppendProperties
  <2> HIDE DEF r
  <2>2. ASSUME NEW k \in 1..Len(r) PROVE r[k] \in ToSet(s) \cup {n}
    <3>1. k \in 1..Len(s) \/ k = Len(s) + 1
      BY <1>1, <2>1
    <3> QED BY <1>1, <2>1, <3>1
  <2>3. ToSet(r) = {r[k] : k \in 1..Len(r)}
    BY <2>1, Members
  <2>4. ToSet(r) \subseteq ToSet(s) \cup {n}
    BY <2>2, <2>3
  <2> QED BY <2>4 DEF r
<1>4. ToSet(Reverse(s)) = ToSet(s)
  <2> DEFINE r == Reverse(s)
  <2>1. /\ r \in Seq(Nodes) /\ Len(r) = Len(s)
        /\ \A i \in 1..Len(s) : r[i] = s[Len(s) - i + 1]
    BY ReverseProperties
  <2> HIDE DEF r
  <2>2. \A i \in 1..Len(s) : Len(s) - i + 1 \in 1..Len(s) /\ Len(s) - (Len(s) - i + 1) + 1 = i
    BY <1>1
  <2>3. ToSet(r) = {r[i] : i \in 1..Len(s)}
    BY <2>1, Members
  <2>4. \A i \in 1..Len(s) : r[i] \in ToSet(s)
    BY <1>1, <2>1, <2>2
  <2>5. \A i \in 1..Len(s) : s[i] \in ToSet(r)
    <3> TAKE i \in 1..Len(s)
    <3>1. r[Len(s) - i + 1] = s[i]
      BY <2>1, <2>2
    <3> QED BY <2>2, <2>3, <3>1
  <2>6. ToSet(r) = ToSet(s)
    BY <1>1, <2>3, <2>4, <2>5
  <2> QED BY <2>6 DEF r
<1>5. ASSUME s # <<>> PROVE ToSet(Tail(s)) \subseteq ToSet(s) /\ ToSet(Front(s)) \subseteq ToSet(s)
  <2>1. \A i \in 1..(Len(s) - 1) : i \in 1..Len(s) /\ i + 1 \in 1..Len(s)
    BY <1>1
  <2>2. /\ Tail(s) \in Seq(Nodes) /\ Len(Tail(s)) = Len(s) - 1
        /\ Front(s) \in Seq(Nodes) /\ Len(Front(s)) = Len(s) - 1
        /\ \A i \in 1..(Len(s) - 1) : Tail(s)[i] = s[i + 1] /\ Front(s)[i] = s[i]
    BY <1>5, EndsProperties
  <2>3. /\ ToSet(Tail(s)) = {Tail(s)[i] : i \in 1..(Len(s) - 1)}
        /\ ToSet(Front(s)) = {Front(s)[i] : i \in 1..(Len(s) - 1)}
    BY <2>2, Members
  <2> QED BY <1>1, <2>1, <2>2, <2>3
<1> QED BY <1>2, <1>3, <1>4, <1>5

\* A FIFO grows and shrinks at the other end of its chain.
LEMMA ReversedEnds ==
  ASSUME NEW s \in Seq(Nodes), NEW n \in Nodes
  PROVE /\ Reverse(<<n>> \o s) = Append(Reverse(s), n)
        /\ Reverse(s) = <<>> <=> s = <<>>
        /\ s # <<>> => /\ Reverse(Front(s)) = Tail(Reverse(s))
                       /\ Reverse(s)[1] = Last(s) /\ Reverse(s)[Len(s)] = Head(s)
<1> DEFINE L == Len(s)
           t == Reverse(s)
<1>1. L \in Nat /\ t \in Seq(Nodes) /\ Len(t) = L /\ \A i \in 1..L : t[i] = s[L - i + 1]
  BY ReverseProperties
<1>2. Reverse(<<n>> \o s) = Append(t, n)
  <2> DEFINE r == <<n>> \o s
             u == Reverse(r)
  <2>1. /\ r \in Seq(Nodes) /\ Len(r) = L + 1 /\ r[1] = n /\ \A i \in 1..L : r[i + 1] = s[i]
    BY PrependProperties
  <2> HIDE DEF r
  <2>2. u \in Seq(Nodes) /\ Len(u) = L + 1 /\ \A i \in 1..(L + 1) : u[i] = r[(L + 1) - i + 1]
    BY <2>1, ReverseProperties
  <2> HIDE DEF u, t, L
  <2>3. /\ Append(t, n) \in Seq(Nodes) /\ Len(Append(t, n)) = L + 1
        /\ Append(t, n)[L + 1] = n /\ \A i \in 1..L : Append(t, n)[i] = t[i]
    BY <1>1, AppendProperties
  <2>4. ASSUME NEW i \in 1..(L + 1) PROVE u[i] = Append(t, n)[i]
    <3>1. CASE i = L + 1
      <4>1. (L + 1) - i + 1 = 1
        BY <1>1, <3>1
      <4> QED BY <2>1, <2>2, <2>3, <3>1, <4>1
    <3>2. CASE i # L + 1
      <4>1. i \in 1..L /\ (L - i + 1) + 1 = (L + 1) - i + 1 /\ L - i + 1 \in 1..L
        BY <1>1, <3>2
      <4> QED BY <1>1, <2>1, <2>2, <2>3, <4>1
    <3> QED BY <3>1, <3>2
  <2>5. u = Append(t, n)
    BY <2>2, <2>3, <2>4, SeqEqual
  <2> QED BY <2>5 DEF u, r
<1>3. t = <<>> <=> s = <<>>
  <2> HIDE DEF t
  <2> QED BY <1>1, EmptySeq
<1>4. ASSUME s # <<>> PROVE /\ Reverse(Front(s)) = Tail(t)
                            /\ t[1] = Last(s) /\ t[L] = Head(s)
  <2> DEFINE f == Front(s)
             u == Reverse(f)
  <2>1. L \in Nat \ {0}
    BY <1>4, EmptySeq
  <2>2. f \in Seq(Nodes) /\ Len(f) = L - 1 /\ \A i \in 1..(L - 1) : f[i] = s[i]
    BY <1>4, EndsProperties
  <2> HIDE DEF f
  <2>3. u \in Seq(Nodes) /\ Len(u) = L - 1 /\ \A i \in 1..(L - 1) : u[i] = f[(L - 1) - i + 1]
    BY <2>2, ReverseProperties
  <2> HIDE DEF t, u
  <2>4. /\ Tail(t) \in Seq(Nodes) /\ Len(Tail(t)) = L - 1
        /\ \A i \in 1..(L - 1) : Tail(t)[i] = t[i + 1]
    <3>1. t # <<>>
      BY <1>3, <1>4
    <3> QED BY <1>1, <3>1, EndsProperties
  <2>5. ASSUME NEW i \in 1..(L - 1) PROVE u[i] = Tail(t)[i]
    <3>1. (L - 1) - i + 1 \in 1..(L - 1) /\ i + 1 \in 1..L /\ L - (i + 1) + 1 = (L - 1) - i + 1
      <4> HIDE DEF L
      <4> QED BY <2>1
    <3>2. u[i] = s[(L - 1) - i + 1]
      BY <2>2, <2>3, <3>1
    <3>3. Tail(t)[i] = s[L - (i + 1) + 1]
      BY <1>1, <2>4, <3>1
    <3> QED BY <3>1, <3>2, <3>3
  <2>6. u = Tail(t)
    BY <2>3, <2>4, <2>5, SeqEqual
  <2>7. t[1] = s[L] /\ t[L] = s[1]
    <3>1. 1 \in 1..L /\ L \in 1..L /\ L - 1 + 1 = L /\ L - L + 1 = 1
      <4> HIDE DEF L
      <4> QED BY <2>1
    <3>2. t[1] = s[L - 1 + 1] /\ t[L] = s[L - L + 1]
      BY <1>1, <3>1
    <3> QED BY <3>1, <3>2
  <2>8. Head(s) = s[1]
    BY <1>4
  <2> QED BY <2>6, <2>7, <2>8 DEF u, f, Last, t
<1> QED BY <1>2, <1>3, <1>4
------------------------------------------------------------------------------
\* A call that leaves a list of allocated nodes keeps the invariant.
LEMMA Keeps ==
  ASSUME NEW c \in Classes, NEW h, NEW s, NEW A, Represents(c, h, s), ToSet(s) \subseteq A
  PROVE Read(c, h) = s /\ Represents(c, h, Read(c, h)) /\ ToSet(Read(c, h)) \subseteq A
BY Reads

LEMMA InsertStep ==
  ASSUME NEW c \in Classes, NEW h \in Heaps, NEW s, NEW A, Represents(c, h, s), ToSet(s) \subseteq A,
         NEW n \in Nodes \ A
  PROVE /\ n \notin ToSet(s) /\ ToSet(<<n>> \o s) \subseteq A \cup {n}
        /\ ToSet(Append(s, n)) \subseteq A \cup {n}
        /\ c = "doubly" => /\ PushFront(h, n) \in Heaps /\ PushFront(h, n).fault = h.fault
                           /\ Represents(c, PushFront(h, n), <<n>> \o s)
        /\ c = "stack" => /\ StackPush(h, n) \in Heaps /\ StackPush(h, n).fault = h.fault
                          /\ Represents(c, StackPush(h, n), <<n>> \o s)
        /\ c = "fifo" => /\ FifoPush(h, n) \in Heaps /\ FifoPush(h, n).fault = h.fault
                         /\ Represents(c, FifoPush(h, n), <<n>> \o s)
<1>1. /\ s \in Seq(Nodes) /\ n \notin ToSet(s)
      /\ ToSet(<<n>> \o s) \subseteq A \cup {n} /\ ToSet(Append(s, n)) \subseteq A \cup {n}
  BY MembersOf DEF Represents
<1>2. <<n>> \o s \in Seq(Nodes) /\ Append(s, n) \in Seq(Nodes)
  BY <1>1, PrependProperties, AppendProperties
<1>3. CASE c = "doubly"
  <2>1. Linked(h, s)
    BY <1>3 DEF Represents
  <2> QED BY <1>1, <1>2, <1>3, <2>1, PushFrontLinks DEF Represents
<1>4. CASE c = "stack"
  <2>1. Chain(h.head, h.next, s)
    BY <1>4 DEF Represents
  <2> QED BY <1>1, <1>2, <1>4, <2>1, StackPushChains DEF Represents
<1>5. CASE c = "fifo"
  <2>1. Queue(h, Reverse(s)) /\ n \notin ToSet(Reverse(s))
    BY <1>1, <1>5, MembersOf DEF Represents
  <2>2. /\ FifoPush(h, n) \in Heaps /\ FifoPush(h, n).fault = h.fault
        /\ Queue(FifoPush(h, n), Append(Reverse(s), n))
    BY <2>1, FifoPushChains
  <2> QED BY <1>1, <1>2, <1>5, <2>2, ReversedEnds DEF Represents
<1> QED BY <1>1, <1>3, <1>4, <1>5 DEF Classes

\* Where the ends of the list are, and what a pop leaves.
LEMMA PopStep ==
  ASSUME NEW c \in Classes, NEW h \in Heaps, NEW s, NEW A, Represents(c, h, s), ToSet(s) \subseteq A
  PROVE /\ s = <<>> => h.head = Null
        /\ s # <<>> => /\ h.head \in Nodes /\ h.head = Head(s)
                       /\ ToSet(Tail(s)) \subseteq A /\ ToSet(Front(s)) \subseteq A
        /\ c # "stack" => h.tail = IF s = <<>> THEN Null ELSE Last(s)
        /\ c = "doubly" => /\ PopFront(h) \in Heaps /\ PopBack(h) \in Heaps
                           /\ PopFront(h).fault = h.fault /\ PopBack(h).fault = h.fault
                           /\ Represents(c, PopFront(h), IF s = <<>> THEN s ELSE Tail(s))
                           /\ Represents(c, PopBack(h), IF s = <<>> THEN s ELSE Front(s))
        /\ c = "stack" => /\ StackPop(h) \in Heaps /\ StackPop(h).fault = h.fault
                          /\ Represents(c, StackPop(h), IF s = <<>> THEN s ELSE Tail(s))
        /\ c = "fifo" => /\ FifoPop(h) \in Heaps /\ FifoPop(h).fault = h.fault
                         /\ Represents(c, FifoPop(h), IF s = <<>> THEN s ELSE Front(s))
                         /\ s # <<>> => h.next[h.head] = Null
        /\ c = "doubly" /\ s # <<>> => h.prev[h.head] = Null /\ h.next[h.tail] = Null
<1>1. s \in Seq(Nodes) /\ Null \notin Nodes
  BY NullAssumption DEF Represents
<1>2. s # <<>> => /\ Tail(s) \in Seq(Nodes) /\ Front(s) \in Seq(Nodes) /\ Head(s) = s[1]
                  /\ Len(s) \in Nat \ {0} /\ s[1] \in Nodes /\ s[Len(s)] \in Nodes
                  /\ ToSet(Tail(s)) \subseteq A /\ ToSet(Front(s)) \subseteq A
  <2> SUFFICES ASSUME s # <<>>
               PROVE /\ Tail(s) \in Seq(Nodes) /\ Front(s) \in Seq(Nodes) /\ Head(s) = s[1]
                     /\ Len(s) \in Nat \ {0} /\ s[1] \in Nodes /\ s[Len(s)] \in Nodes
                     /\ ToSet(Tail(s)) \subseteq A /\ ToSet(Front(s)) \subseteq A
    OBVIOUS
  <2>1. s[1] \in Nodes
    BY <1>1, EmptySeq
  <2>2. ToSet(Tail(s)) \subseteq ToSet(s) /\ ToSet(Front(s)) \subseteq ToSet(s)
    BY <1>1, <2>1, MembersOf
  <2> QED BY <1>1, <2>1, <2>2, EmptySeq, EndsProperties
<1>3. CASE c = "doubly"
  <2>1. Linked(h, s)
    BY <1>3 DEF Represents
  <2>2. /\ PopFront(h) \in Heaps /\ PopBack(h) \in Heaps
        /\ PopFront(h).fault = h.fault /\ PopBack(h).fault = h.fault
        /\ s = <<>> => PopFront(h) = h /\ PopBack(h) = h
        /\ s # <<>> => Linked(PopFront(h), Tail(s)) /\ Linked(PopBack(h), Front(s))
    BY <2>1, PopFrontLinks, PopBackLinks
  <2>3. s = <<>> => h.head = Null /\ h.tail = Null
    BY <2>1 DEF Linked
  <2>4. s # <<>> => /\ h.head = s[1] /\ h.tail = s[Len(s)]
                    /\ h.prev[s[1]] = Null /\ h.next[s[Len(s)]] = Null
    BY <2>1 DEF Linked
  <2> QED BY <1>1, <1>2, <1>3, <2>1, <2>2, <2>3, <2>4 DEF Represents, Last
<1>4. CASE c = "stack"
  <2>1. Chain(h.head, h.next, s)
    BY <1>4 DEF Represents
  <2>2. /\ StackPop(h) \in Heaps /\ StackPop(h).fault = h.fault
        /\ s = <<>> => StackPop(h) = h /\ h.head = Null
        /\ s # <<>> => h.head = s[1] /\ Chain(StackPop(h).head, StackPop(h).next, Tail(s))
    BY <2>1, StackPopChains
  <2> QED BY <1>1, <1>2, <1>4, <2>1, <2>2 DEF Represents
<1>5. CASE c = "fifo"
  <2> DEFINE t == Reverse(s)
  <2>1. Queue(h, t)
    BY <1>5 DEF Represents
  <2>2. /\ t \in Seq(Nodes) /\ Len(t) = Len(s) /\ (t = <<>> <=> s = <<>>)
        /\ s # <<>> => Reverse(Front(s)) = Tail(t) /\ t[1] = Last(s) /\ t[Len(s)] = Head(s)
    <3>1. CASE s = <<>>
      BY <1>1, <3>1, ReverseProperties, EmptySeq
    <3>2. CASE s # <<>>
      BY <1>1, <1>2, <3>2, ReversedEnds, ReverseProperties
    <3> QED BY <3>1, <3>2
  <2> HIDE DEF t
  <2>3. /\ FifoPop(h) \in Heaps /\ FifoPop(h).fault = h.fault
        /\ t = <<>> => FifoPop(h) = h /\ h.tail = Null
        /\ t # <<>> => h.tail = t[1] /\ Queue(FifoPop(h), Tail(t))
    BY <2>1, FifoPopChains
  <2>4. /\ h.head = IF t = <<>> THEN Null ELSE t[Len(t)]
        /\ t # <<>> => h.next[t[Len(t)]] = Null
    BY <2>1 DEF Queue, Chain
  <2>5. Represents(c, FifoPop(h), IF s = <<>> THEN s ELSE Front(s))
    BY <1>1, <1>2, <1>5, <2>1, <2>2, <2>3 DEF Represents, t
  <2> QED BY <1>1, <1>2, <1>5, <2>2, <2>3, <2>4, <2>5
<1> QED BY <1>3, <1>4, <1>5 DEF Classes
------------------------------------------------------------------------------
LEMMA InitInvariant == Init => IInv /\ Contents = <<>>
<1> SUFFICES ASSUME Init PROVE IInv /\ Contents = <<>>
  OBVIOUS
<1>1. /\ heap = EmptyHeap /\ heap.head = Null /\ heap.tail = Null /\ ~heap.fault
      /\ class \in Classes /\ inserted = {} /\ result = Null
  BY DEF Init, EmptyHeap
<1>2. heap \in Heaps
  BY <1>1 DEF EmptyHeap, Heaps, Pointers
<1>3. <<>> \in Seq(Nodes) /\ Len(<<>>) = 0 /\ Reverse(<<>>) = <<>>
  <2>1. <<>> \in Seq(Nodes) /\ Len(<<>>) = 0
    BY EmptySeq
  <2>2. Reverse(<<>>) \in Seq(Nodes) /\ Len(Reverse(<<>>)) = 0
    BY <2>1, ReverseProperties
  <2> QED BY <2>1, <2>2, EmptySeq
<1>4. Represents(class, heap, <<>>)
  <2>1. Distinct(<<>>) /\ 1..(Len(<<>>) - 1) = {}
    BY <1>3 DEF Distinct
  <2> QED BY <1>1, <1>3, <2>1 DEF Represents, Linked, Chain, Queue
<1>5. ToSet(<<>>) = {}
  <2>1. ToSet(<<>>) = {<<>>[i] : i \in 1..0}
    BY <1>3, Members
  <2> QED BY <2>1
<1>6. Contents = <<>>
  BY <1>1, <1>4, Reads, ContentsRead
<1> QED BY <1>1, <1>2, <1>4, <1>5, <1>6 DEF IInv, Pointers

\* The operators on sequences are the same in the abstract module.
LEMMA SameOperators ==
  ASSUME NEW s
  PROVE /\ Sequence!Last(s) = Last(s) /\ Sequence!Front(s) = Front(s) /\ Sequence!ToSet(s) = ToSet(s)
        /\ \A i \in DOMAIN s : Sequence!RemoveAt(s, i) = RemoveAt(s, i)
BY DEF Sequence!Last, Last, Sequence!Front, Front, Sequence!ToSet, ToSet, Sequence!RemoveAt, RemoveAt

\* One step: the invariant stays, and the call is one of a sequence of nodes.
LEMMA Step == IInv /\ [Next]_vars => IInv' /\ [Sequence!Next]_<<Contents, result>>
<1> SUFFICES ASSUME IInv, [Next]_vars PROVE IInv' /\ [Sequence!Next]_<<Contents, result>>
  OBVIOUS
<1> DEFINE s == Contents
<1>1. /\ class \in Classes /\ heap \in Heaps /\ ~heap.fault /\ inserted \subseteq Nodes
      /\ result \in Pointers \cup {"true", "false"}
      /\ Represents(class, heap, s) /\ ToSet(s) \subseteq inserted
  BY DEF IInv
<1>2. s \in Seq(Nodes) /\ ToSet(s) \subseteq Nodes /\ DOMAIN s = 1..Len(s)
  BY <1>1, Members, LenProperties DEF Represents
<1>3. class' = class
  BY DEF Next, vars
<1>4. Contents' = Read(class, heap')
  BY <1>3 DEF Contents, Read
<1> HIDE DEF s
<1>5. ASSUME NEW t, Represents(class, heap', t), ToSet(t) \subseteq inserted', heap' \in Heaps,
             ~heap'.fault, inserted' \subseteq Nodes, result' \in Pointers \cup {"true", "false"}
      PROVE Contents' = t /\ IInv'
  <2>1. Contents' = t
    BY <1>1, <1>4, <1>5, Reads
  <2> QED BY <1>1, <1>3, <1>5, <2>1 DEF IInv
<1>6. /\ s = <<>> => heap.head = Null
      /\ s # <<>> => /\ heap.head \in Nodes /\ heap.head = Head(s)
                     /\ ToSet(Tail(s)) \subseteq inserted /\ ToSet(Front(s)) \subseteq inserted
      /\ class # "stack" => heap.tail = IF s = <<>> THEN Null ELSE Last(s)
  BY <1>1, PopStep
<1>7. heap.head \in Pointers /\ heap.tail \in Pointers /\ Null \notin Nodes
  BY <1>1, NullAssumption DEF Heaps
<1>8. ASSUME NEW n \in Nodes, Insert(n)
      PROVE /\ n \in Nodes \ inserted /\ inserted' = inserted \cup {n} /\ result' = n
            /\ n \in Sequence!Free /\ inserted' \subseteq Nodes /\ result' \in Pointers
  BY <1>1, <1>8, SameOperators DEF Insert, Sequence!Free, Pointers, s
<1>9. ASSUME NEW n \in Nodes, push_front(n) PROVE IInv' /\ Sequence!PushFront(n)
  <2>1. heap' \in Heaps /\ ~heap'.fault /\ Represents(class, heap', <<n>> \o s)
        /\ ToSet(<<n>> \o s) \subseteq inserted'
    BY <1>1, <1>8, <1>9, InsertStep DEF push_front
  <2> QED BY <1>5, <1>8, <1>9, <2>1 DEF push_front, Sequence!PushFront, s
<1>10. ASSUME NEW n \in Nodes, push_back(n) PROVE IInv' /\ Sequence!PushBack(n)
  <2>0. class = "doubly" /\ heap' = PushBack(heap, n)
    BY <1>10 DEF push_back
  <2>1. heap' \in Heaps /\ ~heap'.fault /\ Represents(class, heap', Append(s, n))
        /\ ToSet(Append(s, n)) \subseteq inserted'
    <3>1. Insert(n)
      BY <1>10 DEF push_back
    <3>2. n \in Nodes \ inserted /\ inserted' = inserted \cup {n}
      BY <1>8, <3>1
    <3>3. /\ PushBack(heap, n) \in Heaps /\ PushBack(heap, n).fault = heap.fault
          /\ Represents(class, PushBack(heap, n), Append(s, n))
      <4>1. n \in Nodes /\ n \notin ToSet(s) /\ heap \in Heaps /\ Linked(heap, s)
        BY <1>1, <2>0, <3>2 DEF Represents
      <4>2. /\ PushBack(heap, n) \in Heaps /\ PushBack(heap, n).fault = heap.fault
            /\ Linked(PushBack(heap, n), Append(s, n))
        BY <4>1, PushBackLinks
      <4> QED BY <2>0, <4>2 DEF Represents, Linked
    <3>4. ToSet(Append(s, n)) \subseteq inserted \cup {n}
      BY <1>1, <3>2, InsertStep
    <3> QED BY <1>1, <2>0, <3>2, <3>3, <3>4
  <2> QED BY <1>5, <1>8, <1>10, <2>1 DEF push_back, Sequence!PushBack, s
<1>11. ASSUME NEW n \in Nodes, stack_push(n) PROVE IInv' /\ Sequence!PushFront(n)
  <2>1. heap' \in Heaps /\ ~heap'.fault /\ Represents(class, heap', <<n>> \o s)
        /\ ToSet(<<n>> \o s) \subseteq inserted'
    BY <1>1, <1>8, <1>11, InsertStep DEF stack_push
  <2> QED BY <1>5, <1>8, <1>11, <2>1 DEF stack_push, Sequence!PushFront, s
<1>12. ASSUME NEW n \in Nodes, fifo_push(n) PROVE IInv' /\ Sequence!PushFront(n)
  <2>1. heap' \in Heaps /\ ~heap'.fault /\ Represents(class, heap', <<n>> \o s)
        /\ ToSet(<<n>> \o s) \subseteq inserted'
    BY <1>1, <1>8, <1>12, InsertStep DEF fifo_push
  <2> QED BY <1>5, <1>8, <1>12, <2>1 DEF fifo_push, Sequence!PushFront, s
<1>13. ASSUME NEW n \in Nodes, touch(n) PROVE IInv' /\ Sequence!Touch(n)
  <2>1. class = "doubly" /\ n \in ToSet(s) /\ Linked(heap, s)
    BY <1>1, <1>13 DEF touch, InList, Represents, s
  <2>2. PICK p \in 1..Len(s) : s[p] = n
    BY <1>2, <2>1, Members
  <2>3. Touch(heap, n) \in Heaps /\ Linked(Touch(heap, n), Moved(s, p)) /\ Touch(heap, n).fault = heap.fault
    BY <1>1, <2>1, <2>2, TouchLinks
  <2>4. Moved(s, p) \in Seq(Nodes) /\ ToSet(Moved(s, p)) \subseteq ToSet(s)
    BY <1>2, <2>1, MovedProperties DEF Linked
  <2>5. heap' = Touch(heap, n) /\ inserted' = inserted /\ result' = Null
    BY <1>13 DEF touch
  <2>6. Represents(class, heap', Moved(s, p))
    BY <2>1, <2>3, <2>4, <2>5 DEF Represents
  <2>7. Contents' = Moved(s, p) /\ IInv'
    BY <1>1, <1>5, <2>3, <2>4, <2>5, <2>6 DEF Pointers
  <2>8. Sequence!Touch(n)
    BY <1>2, <2>2, <2>5, <2>7, SameOperators DEF Sequence!Touch, Moved, s
  <2> QED BY <2>7, <2>8
<1>14. ASSUME pop_front PROVE IInv' /\ Sequence!PopFront
  <2> DEFINE t == IF s = <<>> THEN s ELSE Tail(s)
  <2>1. /\ heap' \in Heaps /\ ~heap'.fault /\ Represents(class, heap', t)
        /\ result' = heap.head /\ inserted' = inserted
    BY <1>1, <1>14, PopStep DEF pop_front
  <2>2. ToSet(t) \subseteq inserted
    BY <1>1, <1>6
  <2> HIDE DEF t
  <2>3. Contents' = t /\ IInv'
    BY <1>1, <1>5, <1>7, <2>1, <2>2
  <2> QED BY <1>6, <2>1, <2>3 DEF Sequence!PopFront, s, t
<1>15. ASSUME pop_back PROVE IInv' /\ Sequence!PopBack
  <2> DEFINE t == IF s = <<>> THEN s ELSE Front(s)
  <2>1. /\ heap' \in Heaps /\ ~heap'.fault /\ Represents(class, heap', t)
        /\ result' = heap.tail /\ inserted' = inserted /\ class # "stack"
    BY <1>1, <1>15, PopStep DEF pop_back
  <2>2. ToSet(t) \subseteq inserted
    BY <1>1, <1>6
  <2> HIDE DEF t
  <2>3. Contents' = t /\ IInv'
    BY <1>1, <1>5, <1>7, <2>1, <2>2
  <2> QED BY <1>6, <2>1, <2>3, SameOperators DEF Sequence!PopBack, s, t
<1>16. ASSUME stack_pop PROVE IInv' /\ Sequence!PopFront
  <2> DEFINE t == IF s = <<>> THEN s ELSE Tail(s)
  <2>1. /\ heap' \in Heaps /\ ~heap'.fault /\ Represents(class, heap', t)
        /\ result' = heap.head /\ inserted' = inserted
    BY <1>1, <1>16, PopStep DEF stack_pop
  <2>2. ToSet(t) \subseteq inserted
    BY <1>1, <1>6
  <2> HIDE DEF t
  <2>3. Contents' = t /\ IInv'
    BY <1>1, <1>5, <1>7, <2>1, <2>2
  <2> QED BY <1>6, <2>1, <2>3 DEF Sequence!PopFront, s, t
<1>17. ASSUME fifo_pop PROVE IInv' /\ Sequence!PopBack
  <2> DEFINE t == IF s = <<>> THEN s ELSE Front(s)
  <2>1. /\ heap' \in Heaps /\ ~heap'.fault /\ Represents(class, heap', t)
        /\ result' = heap.tail /\ inserted' = inserted /\ class # "stack"
    BY <1>1, <1>17, PopStep DEF fifo_pop
  <2>2. ToSet(t) \subseteq inserted
    BY <1>1, <1>6
  <2> HIDE DEF t
  <2>3. Contents' = t /\ IInv'
    BY <1>1, <1>5, <1>7, <2>1, <2>2
  <2> QED BY <1>6, <2>1, <2>3, SameOperators DEF Sequence!PopBack, s, t
<1>18. ASSUME UNCHANGED <<heap, inserted>> /\ result' \in Pointers \cup {"true", "false"}
       PROVE Contents' = s /\ IInv'
  BY <1>1, <1>5, <1>18
<1>19. ASSUME head_ptr PROVE IInv' /\ Sequence!Query
  <2>1. UNCHANGED <<heap, inserted>> /\ result' = heap.head
    BY <1>19 DEF head_ptr
  <2>2. Contents' = s /\ IInv'
    BY <1>7, <1>18, <2>1
  <2> QED BY <1>6, <2>1, <2>2, SameOperators DEF Sequence!Query, s
<1>20. ASSUME tail_ptr PROVE IInv' /\ Sequence!Query
  <2>1. UNCHANGED <<heap, inserted>> /\ result' = heap.tail /\ class # "stack"
    BY <1>20 DEF tail_ptr
  <2>2. Contents' = s /\ IInv'
    BY <1>7, <1>18, <2>1
  <2> QED BY <1>6, <2>1, <2>2, SameOperators DEF Sequence!Query, s
<1>21. ASSUME empty PROVE IInv' /\ Sequence!Query
  <2>1. UNCHANGED <<heap, inserted>> /\ result' = IF heap.head = Null THEN "true" ELSE "false"
    BY <1>21 DEF empty
  <2>2. Contents' = s /\ IInv'
    BY <1>18, <2>1
  <2> QED BY <1>6, <1>7, <2>1, <2>2, SameOperators DEF Sequence!Query, s
<1>22. CASE UNCHANGED vars
  <2>1. UNCHANGED <<heap, inserted, result>>
    BY <1>22 DEF vars
  <2>2. Contents' = s /\ IInv'
    BY <1>1, <1>18, <2>1
  <2> QED BY <2>1, <2>2 DEF s
<1>23. CASE Next
  BY <1>9, <1>10, <1>11, <1>12, <1>13, <1>14, <1>15, <1>16, <1>17, <1>19, <1>20, <1>21, <1>23
  DEF Next, Sequence!Next
<1> QED BY <1>22, <1>23

LEMMA Invariant == Spec => []IInv
<1>1. Init => IInv
  BY InitInvariant
<1>2. IInv /\ [Next]_vars => IInv'
  BY Step
<1> QED BY <1>1, <1>2, PTL DEF Spec
------------------------------------------------------------------------------
\* The types of the heap and of what a call returns, and the list holds only nodes that a push
\* has allocated.
THEOREM ListTypes == Spec => []TypeOK
<1>1. IInv => TypeOK
  BY DEF IInv, TypeOK
<1> QED BY <1>1, Invariant, PTL

\* Whatever sequence of pushes, pops and touches there was, both directions of a doubly linked
\* list agree, a FIFO has its head at its last node, and no function met the null record.
THEOREM BothDirectionsAgree == Spec => []MirrorImage
<1>1. IInv => MirrorImage
  <2> SUFFICES ASSUME IInv PROVE MirrorImage
    OBVIOUS
  <2> DEFINE s == Contents
  <2>1. /\ class \in Classes /\ heap \in Heaps /\ ~heap.fault
        /\ Represents(class, heap, s) /\ ToSet(s) \subseteq inserted
    BY DEF IInv
  <2> HIDE DEF s
  <2>2. /\ s = <<>> => heap.head = Null
        /\ s # <<>> => heap.head \in Nodes /\ heap.head = Head(s)
        /\ class = "fifo" /\ s # <<>> => heap.next[heap.head] = Null
        /\ class = "doubly" /\ s # <<>> => heap.prev[heap.head] = Null /\ heap.next[heap.tail] = Null
    BY <2>1, PopStep
  <2>3. ASSUME class = "doubly" PROVE Forward(heap) = Reverse(Backward(heap))
    <3>1. Forward(heap) = s /\ Backward(heap) = Reverse(s) /\ s \in Seq(Nodes)
      <4>1. Linked(heap, s)
        BY <2>1, <2>3 DEF Represents
      <4>2. s \in Seq(Nodes)
        BY <4>1 DEF Linked
      <4> QED BY ONLY <2>1, <4>1, <4>2, LinkedReads
    <3> QED BY <3>1, ReverseProperties
  <2> QED BY <2>1, <2>2, <2>3 DEF MirrorImage, s
<1> QED BY <1>1, Invariant, PTL

\* Every call of a generated list is the operation of the same name on a sequence of distinct
\* nodes, with its answer: a stack works on one end, a FIFO on both, touch moves to the front.
THEOREM ListImplements == Spec => SequenceSpec
<1>1. Init => Sequence!Init
  BY InitInvariant DEF Init, Sequence!Init
<1>2. IInv /\ [Next]_vars => [Sequence!Next]_<<Contents, result>>
  BY Step
<1> QED BY <1>1, <1>2, Invariant, PTL DEF Spec, SequenceSpec, Sequence!Spec, Sequence!vars
==============================================================================
