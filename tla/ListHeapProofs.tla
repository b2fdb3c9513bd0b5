---------------------------- MODULE ListHeapProofs -----------------------------
(***************************************************************************)
(* What each operator of ListHeap does to a list of the shape it is meant  *)
(* for.  A shape (Chain, Linked, Queue) says that the pointers spell a     *)
(* given sequence of distinct nodes; Follow, which reads the pointers, is  *)
(* shown to return that sequence.  Where an argument goes along the list,  *)
(* it takes the least position at which the claim would fail (LeastNat).   *)
(***************************************************************************)
EXTENDS ListHeap, FiniteSetTheorems, SequenceTheorems, TLAPS

\* A nonempty set of naturals has a least element.
LEMMA LeastNat == ASSUME NEW T, T \subseteq Nat, T # {} PROVE \E x \in T : \A y \in T : x <= y
<1> DEFINE R == OpToRel(<, Nat)
<1>1. \A x, y \in Nat : <<x, y>> \in R <=> x < y
  BY DEF OpToRel
<1>2. IsWellFoundedOn(R, Nat)
  BY NatLessThanWellFounded
<1> HIDE DEF R
<1>3. PICK x \in T : \A y \in T : ~(<<y, x>> \in R)
  BY <1>2, WFMin
<1>4. \A y \in T : ~(y < x)
  BY <1>1, <1>3
<1> QED BY <1>4

\* Induction over the natural numbers, as a fact about sets.
LEMMA SetInduction ==
  ASSUME NEW S, 0 \in S, \A n \in Nat : n \in S => n + 1 \in S
  PROVE Nat \subseteq S
<1> SUFFICES ASSUME Nat \ S # {} PROVE FALSE
  OBVIOUS
<1>1. PICK x \in Nat \ S : \A y \in Nat \ S : x <= y
  BY LeastNat
<1>2. x # 0 /\ x - 1 \in Nat /\ x - 1 \in S
  BY <1>1
<1> QED BY <1>1, <1>2
------------------------------------------------------------------------------
Distinct(s) == \A i, j \in 1..Len(s) : s[i] = s[j] => i = j

\* The pointer leads from the start through the nodes of s, in this order, to the null record.
Chain(start, pointer, s) ==
  /\ s \in Seq(Nodes) /\ Distinct(s)
  /\ s = <<>> => start = Null
  /\ s # <<>> => start = s[1] /\ pointer[s[Len(s)]] = Null
  /\ \A i \in 1..(Len(s) - 1) : pointer[s[i]] = s[i + 1]

\* There is room for distinct elements of a finite set only.
LEMMA DistinctFitIn ==
  ASSUME NEW S, NEW s, IsFiniteSet(S), s \in Seq(S), Distinct(s)
  PROVE Cardinality(S) \in Nat /\ Len(s) <= Cardinality(S)
<1>1. s \in Injection(1..Len(s), S)
  BY DEF Distinct, Injection, IsInjective
<1>2. Cardinality(1..Len(s)) = Len(s)
  <2>1. Len(s) \in Nat
    OBVIOUS
  <2>2. \A n \in Nat : Cardinality(1..n) = n
    BY FS_Interval
  <2> QED BY <2>1, <2>2
<1> QED BY <1>1, <1>2, FS_Injection, FS_CardinalityType

LEMMA DistinctFit ==
  ASSUME NEW s \in Seq(Nodes), Distinct(s)
  PROVE Cardinality(Nodes) \in Nat /\ Len(s) <= Cardinality(Nodes)
BY DistinctFitIn, NullAssumption

\* What Follow computes, as its first i steps.
LEMMA FollowChain ==
  ASSUME NEW start, NEW pointer, NEW s, Chain(start, pointer, s)
  PROVE Follow(start, pointer) = s
<1> DEFINE N == Cardinality(Nodes)
           Next1(i, r) == IF i = 1 THEN start ELSE IF Len(r) < i - 1 THEN Null ELSE pointer[Last(r)]
           Body(i, r) == IF Next1(i, r) = Null THEN r ELSE Append(r, Next1(i, r))
           Is(f) == f = [i \in 0..N |-> IF i = 0 THEN <<>> ELSE Body(i, f[i - 1])]
           Upto(i) == IF i <= Len(s) THEN SubSeq(s, 1, i) ELSE s
           g == [i \in 0..N |-> Upto(i)]
<1>1. s \in Seq(Nodes) /\ Distinct(s) /\ Len(s) \in Nat /\ N \in Nat /\ Len(s) <= N
  BY DistinctFit DEF Chain
<1>2. Upto(0) = <<>>
  BY <1>1
<1>3. ASSUME NEW i \in Nat \ {0} PROVE Upto(i) = Body(i, Upto(i - 1))
  <2>1. CASE i <= Len(s)
    <3>1. i \in 1..Len(s) /\ s[i] \in Nodes /\ s[i] # Null /\ s # <<>>
      BY <1>1, <2>1, NullAssumption, LenProperties, EmptySeq
    <3>2. \A j \in 1..i : s[j] \in Nodes
      BY <1>1, <2>1, LenProperties
    <3> DEFINE p == SubSeq(s, 1, i - 1)
               q == SubSeq(s, 1, i)
    <3>3. /\ p \in Seq(Nodes) /\ Len(p) = i - 1
          /\ \A j \in 1..(i - 1) : p[j] = s[j]
      BY <3>2, SubSeqProperties
    <3>4. /\ q \in Seq(Nodes) /\ Len(q) = i
          /\ \A j \in 1..i : q[j] = s[j]
      BY <3>2, SubSeqProperties
    <3>5. Upto(i) = q /\ Upto(i - 1) = p
      BY <1>1, <2>1
    <3> HIDE DEF p, q
    <3>6. q = Append(p, s[i])
      <4>1. /\ Append(p, s[i]) \in Seq(Nodes) /\ Len(Append(p, s[i])) = i
            /\ \A j \in 1..(i - 1) : Append(p, s[i])[j] = p[j]
            /\ Append(p, s[i])[i] = s[i]
        BY <3>1, <3>3, AppendProperties
      <4>2. \A j \in 1..i : q[j] = Append(p, s[i])[j]
        BY <3>3, <3>4, <4>1
      <4> QED BY <3>4, <4>1, <4>2, SeqEqual
    <3>7. Next1(i, p) = s[i]
      <4>1. CASE i = 1
        BY <3>1, <4>1 DEF Chain
      <4>2. CASE i # 1
        <5>1. Last(p) = s[i - 1] /\ i - 1 \in 1..(Len(s) - 1)
          BY <1>1, <3>1, <3>3, <4>2 DEF Last
        <5>2. pointer[s[i - 1]] = s[i]
          BY <5>1 DEF Chain
        <5> QED BY <3>3, <4>2, <5>1, <5>2
      <4> QED BY <4>1, <4>2
    <3> HIDE DEF Next1
    <3> QED BY <3>1, <3>5, <3>6, <3>7
  <2>2. CASE i > Len(s)
    <3>1. Upto(i) = s /\ Upto(i - 1) = s
      BY <1>1, <2>2, SubSeqFull
    <3>2. Next1(i, s) = Null
      <4>1. CASE i = 1
        BY <1>1, <2>2, <4>1, EmptySeq DEF Chain
      <4>2. CASE i # 1 /\ Len(s) = i - 1
        BY <1>1, <4>2, EmptySeq DEF Chain, Last
      <4>3. CASE i # 1 /\ Len(s) < i - 1
        BY <4>3
      <4> QED BY <1>1, <2>2, <4>1, <4>2, <4>3
    <3> HIDE DEF Next1
    <3> QED BY <3>1, <3>2
  <2> QED BY <1>1, <2>1, <2>2
<1>4. Is(g)
  BY <1>1, <1>2, <1>3
<1>5. ASSUME NEW f, Is(f) PROVE f = g
  <2> DEFINE S == {k \in Nat : k <= N => f[k] = Upto(k)}
  <2>1. 0 \in S
    BY <1>1, <1>2, <1>5
  <2>2. ASSUME NEW k \in Nat, k \in S PROVE k + 1 \in S
    <3> SUFFICES ASSUME k + 1 <= N PROVE f[k + 1] = Upto(k + 1)
      OBVIOUS
    <3>1. k + 1 \in 0..N /\ k + 1 # 0 /\ (k + 1) - 1 = k /\ k <= N
      BY <1>1
    <3>2. f[k + 1] = Body(k + 1, f[k])
      <4> HIDE DEF Body
      <4> QED BY <1>5, <3>1
    <3>3. f[k] = Upto(k)
      BY <2>2, <3>1
    <3>4. Upto(k + 1) = Body(k + 1, Upto(k))
      <4> HIDE DEF Body, Upto
      <4> QED BY <1>3, <3>1
    <3> QED BY <3>2, <3>3, <3>4
  <2>3. Nat \subseteq S
    <3> HIDE DEF S
    <3> QED BY <2>1, <2>2, SetInduction
  <2>4. \A k \in 0..N : f[k] = Upto(k)
    BY <1>1, <2>3
  <2> HIDE DEF Upto, Body
  <2> QED BY <1>5, <2>4
<1>6. (CHOOSE f : Is(f)) = g
  <2> HIDE DEF Is
  <2> QED BY <1>4, <1>5
<1>7. Follow(start, pointer) = (CHOOSE f : Is(f))[N]
  BY DEF Follow
<1>8. g[N] = s
  BY <1>1, SubSeqFull
<1> HIDE DEF g, Is
<1> QED BY <1>6, <1>7, <1>8
------------------------------------------------------------------------------
\* The heap is a list of the nodes of s, linked in both directions.
Linked(h, s) ==
  /\ s \in Seq(Nodes) /\ Distinct(s)
  /\ s = <<>> => h.head = Null /\ h.tail = Null
  /\ s # <<>> => /\ h.head = s[1] /\ h.tail = s[Len(s)]
                 /\ h.prev[s[1]] = Null /\ h.next[s[Len(s)]] = Null
  /\ \A i \in 1..(Len(s) - 1) : h.next[s[i]] = s[i + 1] /\ h.prev[s[i + 1]] = s[i]

LEMMA ReverseProperties ==
  ASSUME NEW s \in Seq(Nodes)
  PROVE /\ Reverse(s) \in Seq(Nodes) /\ Len(Reverse(s)) = Len(s)
        /\ \A i \in 1..Len(s) : Reverse(s)[i] = s[Len(s) - i + 1]
        /\ Reverse(Reverse(s)) = s
<1>1. Len(s) \in Nat /\ \A i \in 1..Len(s) : s[i] \in Nodes
  OBVIOUS
<1>2. /\ Reverse(s) \in Seq(Nodes) /\ Len(Reverse(s)) = Len(s)
      /\ \A i \in 1..Len(s) : Reverse(s)[i] = s[Len(s) - i + 1]
  BY <1>1 DEF Reverse
<1>3. /\ Reverse(Reverse(s)) \in Seq(Nodes) /\ Len(Reverse(Reverse(s))) = Len(s)
      /\ \A i \in 1..Len(s) : Reverse(Reverse(s))[i] = s[i]
  BY <1>1, <1>2 DEF Reverse
<1> QED BY <1>2, <1>3, SeqEqual

\* A list reads as its sequence from the head and as the reverse of it from the tail.
LEMMA LinkedReads ==
  ASSUME NEW h, NEW s, Linked(h, s)
  PROVE Forward(h) = s /\ Backward(h) = Reverse(s)
<1>1. Forward(h) = s
  <2>1. Chain(h.head, h.next, s)
    BY DEF Linked, Chain
  <2> QED BY <2>1, FollowChain DEF Forward
<1>2. Chain(h.tail, h.prev, Reverse(s))
  <2>1. s \in Seq(Nodes) /\ Len(s) \in Nat
    BY DEF Linked
  <2>2. Distinct(Reverse(s))
    <3> SUFFICES ASSUME NEW i \in 1..Len(s), NEW j \in 1..Len(s), Reverse(s)[i] = Reverse(s)[j]
                 PROVE i = j
      BY <2>1, ReverseProperties DEF Distinct
    <3>1. s[Len(s) - i + 1] = s[Len(s) - j + 1]
      BY <2>1, ReverseProperties
    <3>2. Len(s) - i + 1 \in 1..Len(s) /\ Len(s) - j + 1 \in 1..Len(s)
      BY <2>1
    <3>3. Len(s) - i + 1 = Len(s) - j + 1
      BY <3>1, <3>2 DEF Linked, Distinct
    <3> QED BY <2>1, <3>3
  <2>3. Reverse(s) = <<>> => h.tail = Null
    BY <2>1, ReverseProperties, EmptySeq DEF Linked
  <2>4. Reverse(s) # <<>> => /\ h.tail = Reverse(s)[1]
                            /\ h.prev[Reverse(s)[Len(Reverse(s))]] = Null
    <3> SUFFICES ASSUME s # <<>> PROVE /\ h.tail = Reverse(s)[1]
                                      /\ h.prev[Reverse(s)[Len(Reverse(s))]] = Null
      BY <2>1, ReverseProperties, EmptySeq
    <3>1. Reverse(s)[1] = s[Len(s)] /\ Reverse(s)[Len(s)] = s[1]
      BY <2>1, ReverseProperties, EmptySeq
    <3> QED BY <2>1, <3>1, ReverseProperties DEF Linked
  <2>5. ASSUME NEW i \in 1..(Len(Reverse(s)) - 1)
        PROVE h.prev[Reverse(s)[i]] = Reverse(s)[i + 1]
    <3>1. /\ Reverse(s)[i] = s[Len(s) - i + 1] /\ Reverse(s)[i + 1] = s[Len(s) - i]
          /\ Len(s) - i \in 1..(Len(s) - 1)
      BY <2>1, ReverseProperties
    <3> QED BY <2>1, <3>1 DEF Linked
  <2> QED BY <2>1, <2>2, <2>3, <2>4, <2>5, ReverseProperties DEF Chain
<1> QED BY <1>1, <1>2, FollowChain DEF Backward

LEMMA NewNodeProperties ==
  ASSUME NEW h \in Heaps, NEW n \in Nodes
  PROVE /\ NewNode(h, n) \in Heaps
        /\ NewNode(h, n).next[n] = Null /\ NewNode(h, n).prev[n] = Null
        /\ \A m \in Nodes \ {n} : /\ NewNode(h, n).next[m] = h.next[m]
                                 /\ NewNode(h, n).prev[m] = h.prev[m]
        /\ NewNode(h, n).head = h.head /\ NewNode(h, n).tail = h.tail
        /\ NewNode(h, n).size = h.size /\ NewNode(h, n).fault = h.fault
BY DEF NewNode, Heaps, Pointers

\* <<n>> \o s, in the order of its elements.
LEMMA PrependProperties ==
  ASSUME NEW S, NEW s \in Seq(S), NEW n \in S
  PROVE /\ <<n>> \o s \in Seq(S) /\ <<n>> \o s # <<>>
        /\ Len(<<n>> \o s) = Len(s) + 1 /\ (<<n>> \o s)[1] = n
        /\ \A i \in 1..Len(s) : (<<n>> \o s)[i + 1] = s[i]
<1>1. <<n>> \in Seq(S) /\ Len(<<n>>) = 1 /\ <<n>>[1] = n /\ Len(s) \in Nat
  OBVIOUS
<1> DEFINE o == <<n>>
<1> HIDE DEF o
<1>2. /\ o \o s \in Seq(S) /\ Len(o \o s) = Len(s) + 1
      /\ \A i \in 1..(Len(s) + 1) : (o \o s)[i] = IF i <= 1 THEN o[i] ELSE s[i - 1]
  BY <1>1, ConcatProperties DEF o
<1>3. o[1] = n
  BY DEF o
<1>4. \A i \in 1..Len(s) : (o \o s)[i + 1] = s[i]
  BY <1>1, <1>2
<1>5. (o \o s)[1] = n /\ o \o s # <<>>
  BY <1>1, <1>2, <1>3, EmptySeq
<1> QED BY <1>2, <1>4, <1>5 DEF o

LEMMA PrependDistinct ==
  ASSUME NEW s \in Seq(Nodes), Distinct(s), NEW n \in Nodes, n \notin ToSet(s)
  PROVE Distinct(<<n>> \o s)
<1> DEFINE r == <<n>> \o s
<1>1. /\ Len(r) = Len(s) + 1 /\ Len(s) \in Nat /\ r[1] = n
      /\ \A i \in 1..Len(s) : r[i + 1] = s[i] /\ s[i] # n
  BY PrependProperties DEF ToSet
<1> SUFFICES ASSUME NEW i \in 1..Len(r), NEW j \in 1..Len(r), r[i] = r[j] PROVE i = j
  BY DEF Distinct
<1> HIDE DEF r
<1>2. \A k \in 1..Len(r) : k = 1 \/ (k - 1 \in 1..Len(s) /\ r[k] = s[k - 1])
  <2> TAKE k \in 1..Len(r)
  <2>1. k = 1 \/ (k - 1 \in 1..Len(s) /\ (k - 1) + 1 = k)
    BY <1>1
  <2> QED BY <1>1, <2>1
<1>3. CASE i = 1 \/ j = 1
  BY <1>1, <1>2, <1>3
<1>4. CASE i # 1 /\ j # 1
  <2>1. i - 1 = j - 1
    BY <1>2, <1>4 DEF Distinct
  <2> QED BY <1>1, <2>1
<1> QED BY <1>3, <1>4

LEMMA PushFrontLinks ==
  ASSUME NEW h \in Heaps, NEW s, Linked(h, s), NEW n \in Nodes, n \notin ToSet(s)
  PROVE /\ PushFront(h, n) \in Heaps /\ Linked(PushFront(h, n), <<n>> \o s)
        /\ PushFront(h, n).size = h.size /\ PushFront(h, n).fault = h.fault
<1> DEFINE new == NewNode(h, n)
           g == PushFront(h, n)
           r == <<n>> \o s
<1>1. /\ s \in Seq(Nodes) /\ Len(s) \in Nat /\ \A i \in 1..Len(s) : s[i] \in Nodes /\ s[i] # n
      /\ Distinct(s)
  BY DEF Linked, ToSet
<1>2. /\ r \in Seq(Nodes) /\ r # <<>> /\ Len(r) = Len(s) + 1 /\ r[1] = n /\ Distinct(r)
      /\ \A i \in 1..Len(s) : r[i + 1] = s[i]
  BY <1>1, PrependProperties, PrependDistinct
<1>3. /\ new \in Heaps /\ new.head = h.head /\ new.tail = h.tail
      /\ new.size = h.size /\ new.fault = h.fault
      /\ new.next[n] = Null /\ new.prev[n] = Null
      /\ \A m \in Nodes : m # n => new.next[m] = h.next[m] /\ new.prev[m] = h.prev[m]
      /\ new.next \in [Nodes -> Pointers] /\ new.prev \in [Nodes -> Pointers]
  BY NewNodeProperties DEF Heaps
<1>4. CASE s = <<>>
  <2>1. g = [new EXCEPT !.head = n, !.tail = n] /\ Len(r) = 1
    BY <1>2, <1>4 DEF Linked, PushFront
  <2> HIDE DEF g, r, new
  <2>2. /\ g \in Heaps /\ g.head = n /\ g.tail = n /\ g.next = new.next /\ g.prev = new.prev
        /\ g.size = h.size /\ g.fault = h.fault
    BY <1>3, <2>1 DEF Heaps, Pointers
  <2>3. Linked(g, r)
    BY <1>2, <1>3, <2>1, <2>2 DEF Linked
  <2> QED BY <2>2, <2>3 DEF g, r
<1>5. CASE s # <<>>
  <2>1. h.head = s[1] /\ h.tail = s[Len(s)] /\ h.head \in Nodes /\ h.head # n /\ Len(s) >= 1
    BY <1>1, <1>5, EmptySeq DEF Linked
  <2>2. g = [new EXCEPT !.head = n, !.next[n] = h.head, !.prev[h.head] = n]
    BY <2>1, NullAssumption DEF PushFront
  <2> HIDE DEF g, r, new
  <2>3. /\ g.head = n /\ g.tail = h.tail /\ g.size = h.size /\ g.fault = h.fault
        /\ g.next = [new.next EXCEPT ![n] = h.head] /\ g.prev = [new.prev EXCEPT ![h.head] = n]
        /\ g \in Heaps
    BY <1>3, <2>1, <2>2 DEF Heaps, Pointers
  <2>4. /\ g.next[n] = s[1] /\ g.prev[s[1]] = n /\ g.prev[n] = Null
        /\ \A m \in Nodes : m # n => g.next[m] = h.next[m]
        /\ \A m \in Nodes : m # n /\ m # s[1] => g.prev[m] = h.prev[m]
    BY <1>3, <2>1, <2>3
  <2>5. \A i \in 1..(Len(r) - 1) : g.next[r[i]] = r[i + 1] /\ g.prev[r[i + 1]] = r[i]
    <3> TAKE i \in 1..(Len(r) - 1)
    <3>1. i \in 1..Len(s) /\ r[i + 1] = s[i]
      BY <1>1, <1>2
    <3>2. CASE i = 1
      BY <1>2, <2>4, <3>1, <3>2
    <3>3. CASE i # 1
      <4>1. i - 1 \in 1..(Len(s) - 1) /\ i - 1 \in 1..Len(s) /\ (i - 1) + 1 = i
        BY <1>1, <3>1, <3>3
      <4>2. r[i] = s[i - 1]
        BY <1>2, <4>1
      <4>3. h.next[s[i - 1]] = s[i] /\ h.prev[s[i]] = s[i - 1]
        BY <4>1 DEF Linked
      <4>4. s[i] # s[1]
        BY <1>1, <2>1, <3>1, <3>3 DEF Distinct
      <4> QED BY <1>1, <2>4, <3>1, <4>1, <4>2, <4>3, <4>4
    <3> QED BY <3>2, <3>3
  <2>6. g.tail = r[Len(r)] /\ g.next[r[Len(r)]] = Null
    <3>1. r[Len(s) + 1] = s[Len(s)] /\ s[Len(s)] \in Nodes /\ s[Len(s)] # n
      BY <1>1, <1>2, <2>1
    <3> QED BY <1>2, <1>5, <2>1, <2>3, <2>4, <3>1 DEF Linked
  <2>7. Linked(g, r)
    BY <1>2, <2>3, <2>4, <2>5, <2>6 DEF Linked
  <2> QED BY <2>3, <2>7 DEF g, r
<1> QED BY <1>4, <1>5

LEMMA AppendDistinct ==
  ASSUME NEW s \in Seq(Nodes), Distinct(s), NEW n \in Nodes, n \notin ToSet(s)
  PROVE Distinct(Append(s, n))
<1> DEFINE r == Append(s, n)
<1>1. /\ Len(r) = Len(s) + 1 /\ Len(s) \in Nat /\ r[Len(s) + 1] = n
      /\ \A i \in 1..Len(s) : r[i] = s[i] /\ s[i] # n
  BY AppendProperties DEF ToSet
<1> HIDE DEF r
<1> SUFFICES ASSUME NEW i \in 1..Len(r), NEW j \in 1..Len(r), r[i] = r[j] PROVE i = j
  BY DEF Distinct, r
<1>2. \A k \in 1..Len(r) : k \in 1..Len(s) \/ k = Len(s) + 1
  BY <1>1
<1> QED BY <1>1, <1>2 DEF Distinct

LEMMA PushBackLinks ==
  ASSUME NEW h \in Heaps, NEW s, Linked(h, s), NEW n \in Nodes, n \notin ToSet(s)
  PROVE /\ PushBack(h, n) \in Heaps /\ Linked(PushBack(h, n), Append(s, n))
        /\ PushBack(h, n).size = h.size /\ PushBack(h, n).fault = h.fault
<1> DEFINE new == NewNode(h, n)
           g == PushBack(h, n)
           r == Append(s, n)
           L == Len(s)
<1>1. /\ s \in Seq(Nodes) /\ L \in Nat /\ \A i \in 1..L : s[i] \in Nodes /\ s[i] # n
      /\ Distinct(s)
  BY DEF Linked, ToSet
<1>2. /\ r \in Seq(Nodes) /\ r # <<>> /\ Len(r) = L + 1 /\ r[L + 1] = n /\ Distinct(r)
      /\ \A i \in 1..L : r[i] = s[i]
  BY <1>1, AppendProperties, AppendDistinct
<1>3. /\ new \in Heaps /\ new.head = h.head /\ new.tail = h.tail
      /\ new.size = h.size /\ new.fault = h.fault
      /\ new.next[n] = Null /\ new.prev[n] = Null
      /\ \A m \in Nodes : m # n => new.next[m] = h.next[m] /\ new.prev[m] = h.prev[m]
      /\ new.next \in [Nodes -> Pointers] /\ new.prev \in [Nodes -> Pointers]
  BY NewNodeProperties DEF Heaps
<1>4. CASE s = <<>>
  <2>1. g = [new EXCEPT !.tail = n, !.head = n] /\ Len(r) = 1 /\ L = 0
    BY <1>2, <1>4 DEF Linked, PushBack
  <2> HIDE DEF g, r, new
  <2>2. /\ g \in Heaps /\ g.head = n /\ g.tail = n /\ g.next = new.next /\ g.prev = new.prev
        /\ g.size = h.size /\ g.fault = h.fault
    BY <1>3, <2>1 DEF Heaps, Pointers
  <2>3. Linked(g, r)
    BY <1>2, <1>3, <2>1, <2>2 DEF Linked
  <2> QED BY <2>2, <2>3 DEF g, r
<1>5. CASE s # <<>>
  <2>1. /\ L >= 1 /\ L \in 1..L /\ h.head = s[1] /\ h.tail = s[L] /\ h.tail \in Nodes
        /\ h.tail # n /\ h.next[s[L]] = Null /\ h.prev[s[1]] = Null
    BY <1>1, <1>5, EmptySeq DEF Linked
  <2>2. g = [new EXCEPT !.tail = n, !.prev[n] = h.tail, !.next[h.tail] = n]
    BY <2>1, NullAssumption DEF PushBack
  <2> HIDE DEF g, r, new
  <2>3. /\ g.tail = n /\ g.head = h.head /\ g.size = h.size /\ g.fault = h.fault
        /\ g.prev = [new.prev EXCEPT ![n] = h.tail] /\ g.next = [new.next EXCEPT ![h.tail] = n]
        /\ g \in Heaps
    BY <1>3, <2>1, <2>2 DEF Heaps, Pointers
  <2>4. /\ g.prev[n] = s[L] /\ g.next[s[L]] = n /\ g.next[n] = Null
        /\ \A m \in Nodes : m # n => g.prev[m] = h.prev[m]
        /\ \A m \in Nodes : m # n /\ m # s[L] => g.next[m] = h.next[m]
    BY <1>3, <2>1, <2>3
  <2>5. \A i \in 1..(Len(r) - 1) : g.next[r[i]] = r[i + 1] /\ g.prev[r[i + 1]] = r[i]
    <3> TAKE i \in 1..(Len(r) - 1)
    <3>1. i \in 1..L /\ r[i] = s[i]
      BY <1>1, <1>2
    <3>2. CASE i = L
      BY <1>2, <2>1, <2>4, <3>1, <3>2
    <3>3. CASE i # L
      <4>1. i \in 1..(L - 1) /\ i + 1 \in 1..L /\ r[i + 1] = s[i + 1]
        BY <1>1, <1>2, <3>1, <3>3
      <4>2. h.next[s[i]] = s[i + 1] /\ h.prev[s[i + 1]] = s[i]
        BY <4>1 DEF Linked
      <4>3. s[i] # s[L]
        BY <1>1, <2>1, <3>1, <3>3 DEF Distinct
      <4> QED BY <1>1, <2>4, <3>1, <4>1, <4>2, <4>3
    <3> QED BY <3>2, <3>3
  <2>6. g.head = r[1] /\ g.prev[r[1]] = Null
    <3>1. r[1] = s[1] /\ s[1] \in Nodes /\ s[1] # n
      BY <1>1, <1>2, <2>1
    <3> QED BY <2>1, <2>3, <2>4, <3>1
  <2>7. Linked(g, r)
    BY <1>2, <2>3, <2>4, <2>5, <2>6 DEF Linked
  <2> QED BY <2>3, <2>7 DEF g, r
<1> QED BY <1>4, <1>5

\* What is left of a sequence without one of its ends.
LEMMA EndsProperties ==
  ASSUME NEW S, NEW s \in Seq(S), s # <<>>
  PROVE /\ Len(s) \in Nat \ {0}
        /\ Tail(s) \in Seq(S) /\ Len(Tail(s)) = Len(s) - 1
        /\ \A i \in 1..(Len(s) - 1) : Tail(s)[i] = s[i + 1]
        /\ Front(s) \in Seq(S) /\ Len(Front(s)) = Len(s) - 1
        /\ \A i \in 1..(Len(s) - 1) : Front(s)[i] = s[i]
        /\ Distinct(s) => Distinct(Tail(s)) /\ Distinct(Front(s))
<1>1. Len(s) \in Nat \ {0} /\ \A i \in 1..Len(s) : s[i] \in S
  BY EmptySeq
<1>2. /\ Tail(s) \in Seq(S) /\ Len(Tail(s)) = Len(s) - 1
      /\ \A i \in 1..(Len(s) - 1) : Tail(s)[i] = s[i + 1]
  BY HeadTailProperties
<1>3. /\ Front(s) \in Seq(S) /\ Len(Front(s)) = Len(s) - 1
      /\ \A i \in 1..(Len(s) - 1) : Front(s)[i] = s[i]
  <2> DEFINE m == Len(s) - 1
  <2>1. m \in Nat /\ \A i \in 1..m : s[i] \in S
    BY <1>1
  <2> HIDE DEF m
  <2>2. /\ SubSeq(s, 1, m) \in Seq(S) /\ Len(SubSeq(s, 1, m)) = m
        /\ \A i \in 1..m : SubSeq(s, 1, m)[i] = s[i]
    BY <2>1, SubSeqProperties
  <2> QED BY <2>2 DEF Front, m
<1>4. Distinct(s) => Distinct(Tail(s)) /\ Distinct(Front(s))
  <2> SUFFICES ASSUME Distinct(s) PROVE Distinct(Tail(s)) /\ Distinct(Front(s))
    OBVIOUS
  <2>1. ASSUME NEW i \in 1..(Len(s) - 1), NEW j \in 1..(Len(s) - 1), Tail(s)[i] = Tail(s)[j]
        PROVE i = j
    <3>1. s[i + 1] = s[j + 1] /\ i + 1 \in 1..Len(s) /\ j + 1 \in 1..Len(s)
      BY <1>1, <1>2, <2>1
    <3>2. i + 1 = j + 1
      BY <3>1 DEF Distinct
    <3> QED BY <3>2
  <2>2. ASSUME NEW i \in 1..(Len(s) - 1), NEW j \in 1..(Len(s) - 1), Front(s)[i] = Front(s)[j]
        PROVE i = j
    <3>1. s[i] = s[j] /\ i \in 1..Len(s) /\ j \in 1..Len(s)
      BY <1>1, <1>3, <2>2
    <3> QED BY <3>1 DEF Distinct
  <2> QED BY <1>2, <1>3, <2>1, <2>2 DEF Distinct
<1> QED BY <1>1, <1>2, <1>3, <1>4

LEMMA PopFrontLinks ==
  ASSUME NEW h \in Heaps, NEW s, Linked(h, s)
  PROVE /\ PopFront(h) \in Heaps
        /\ s = <<>> => PopFront(h) = h /\ h.head = Null
        /\ s # <<>> => h.head = s[1] /\ Linked(PopFront(h), Tail(s))
        /\ PopFront(h).size = h.size /\ PopFront(h).fault = h.fault
<1> DEFINE g == PopFront(h)
           r == Tail(s)
           L == Len(s)
<1>1. /\ s \in Seq(Nodes) /\ L \in Nat /\ \A i \in 1..L : s[i] \in Nodes
      /\ Distinct(s) /\ Null \notin Nodes
      /\ h.next \in [Nodes -> Pointers] /\ h.prev \in [Nodes -> Pointers]
  BY NullAssumption DEF Linked, Heaps
<1>2. CASE s = <<>>
  BY <1>2 DEF Linked, PopFront
<1>3. CASE s # <<>>
  <2>1. /\ L >= 1 /\ h.head = s[1] /\ h.tail = s[L] /\ h.head \in Nodes
        /\ h.next[s[L]] = Null /\ h.prev[s[1]] = Null
    BY <1>1, <1>3, EmptySeq DEF Linked
  <2>2. /\ r \in Seq(Nodes) /\ Len(r) = L - 1 /\ Distinct(r)
        /\ \A i \in 1..(L - 1) : r[i] = s[i + 1]
    BY <1>1, <1>3, EndsProperties
  <2>3. CASE L = 1
    <3>a. r = <<>>
      <4>1. r \in Seq(Nodes) /\ Len(r) = 0
        BY <2>2, <2>3
      <4> HIDE DEF r
      <4> QED BY <4>1, EmptySeq
    <3>b. h.next[h.head] = Null /\ h.head # Null
      BY <1>1, <2>1, <2>3
    <3>1. g = [h EXCEPT !.head = Null, !.tail = Null] /\ r = <<>>
      BY <3>a, <3>b DEF PopFront
    <3> HIDE DEF g, r
    <3>2. g \in Heaps /\ g.head = Null /\ g.tail = Null /\ g.size = h.size /\ g.fault = h.fault
      BY <3>1 DEF Heaps, Pointers
    <3>3. Linked(g, r)
      BY <2>2, <2>3, <3>1, <3>2 DEF Linked
    <3> QED BY <1>3, <2>1, <3>2, <3>3 DEF g, r
  <2>4. CASE L # 1
    <3>a. 1 \in 1..(L - 1) /\ 2 \in 1..L /\ L - 1 # 0
      <4>1. L \in Nat /\ L >= 1 /\ L # 1
        BY <1>1, <2>1, <2>4
      <4> HIDE DEF L
      <4> QED BY <4>1
    <3>b. h.next[s[1]] = s[1 + 1]
      BY <3>a DEF Linked
    <3>c. r # <<>> /\ r[1] = s[1 + 1]
      BY <2>2, <3>a, EmptySeq
    <3>1. 1 \in 1..(L - 1) /\ h.next[s[1]] = s[2] /\ s[2] \in Nodes /\ r # <<>> /\ r[1] = s[2]
      BY <1>1, <3>a, <3>b, <3>c
    <3>2. g = [h EXCEPT !.head = s[2], !.prev[s[2]] = Null]
      BY <1>1, <2>1, <3>1 DEF PopFront
    <3> HIDE DEF g, r
    <3>3. /\ g \in Heaps /\ g.head = s[2] /\ g.tail = h.tail /\ g.size = h.size
          /\ g.fault = h.fault /\ g.next = h.next /\ g.prev = [h.prev EXCEPT ![s[2]] = Null]
      BY <3>1, <3>2 DEF Heaps, Pointers
    <3>4. g.prev[s[2]] = Null /\ \A m \in Nodes : m # s[2] => g.prev[m] = h.prev[m]
      BY <1>1, <3>1, <3>3
    <3>5. ASSUME NEW i \in 1..(Len(r) - 1) PROVE g.next[r[i]] = r[i + 1] /\ g.prev[r[i + 1]] = r[i]
      <4>1. /\ i + 1 \in 1..(L - 1) /\ (i + 1) + 1 \in 1..L /\ r[i] = s[i + 1]
            /\ r[i + 1] = s[(i + 1) + 1]
        BY <1>1, <2>2
      <4>2. h.next[s[i + 1]] = s[(i + 1) + 1] /\ h.prev[s[(i + 1) + 1]] = s[i + 1]
        BY <4>1 DEF Linked
      <4>3. s[(i + 1) + 1] # s[2]
        BY <1>1, <2>1, <3>1, <4>1 DEF Distinct
      <4> QED BY <1>1, <3>3, <3>4, <4>1, <4>2, <4>3
    <3>6. g.tail = r[Len(r)] /\ g.next[r[Len(r)]] = Null
      <4>1. L - 1 \in 1..(L - 1) /\ r[L - 1] = s[L]
        BY <1>1, <2>1, <2>2, <2>4
      <4> QED BY <2>1, <2>2, <3>3, <4>1
    <3>7. Linked(g, r)
      BY <2>2, <3>1, <3>3, <3>4, <3>5, <3>6 DEF Linked
    <3> QED BY <1>3, <2>1, <3>3, <3>7 DEF g, r
  <2> QED BY <2>3, <2>4
<1> QED BY <1>2, <1>3

LEMMA PopBackLinks ==
  ASSUME NEW h \in Heaps, NEW s, Linked(h, s)
  PROVE /\ PopBack(h) \in Heaps
        /\ s = <<>> => PopBack(h) = h /\ h.tail = Null
        /\ s # <<>> => /\ h.tail = s[Len(s)] /\ h.tail \in Nodes
                       /\ Linked(PopBack(h), Front(s))
        /\ PopBack(h).size = h.size /\ PopBack(h).fault = h.fault
<1> DEFINE g == PopBack(h)
           r == Front(s)
           L == Len(s)
<1>1. /\ s \in Seq(Nodes) /\ L \in Nat /\ \A i \in 1..L : s[i] \in Nodes
      /\ Distinct(s) /\ Null \notin Nodes
      /\ h.next \in [Nodes -> Pointers] /\ h.prev \in [Nodes -> Pointers]
  BY NullAssumption DEF Linked, Heaps
<1>2. CASE s = <<>>
  BY <1>2 DEF Linked, PopBack
<1>3. CASE s # <<>>
  <2>1. /\ L >= 1 /\ L \in 1..L /\ h.head = s[1] /\ h.tail = s[L] /\ h.tail \in Nodes
        /\ h.next[s[L]] = Null /\ h.prev[s[1]] = Null
    BY <1>1, <1>3, EmptySeq DEF Linked
  <2>2. /\ r \in Seq(Nodes) /\ Len(r) = L - 1 /\ Distinct(r)
        /\ \A i \in 1..(L - 1) : r[i] = s[i]
    BY <1>1, <1>3, EndsProperties
  <2>3. CASE L = 1
    <3>1. g = [h EXCEPT !.tail = Null, !.head = Null] /\ r = <<>>
      BY <1>1, <2>1, <2>2, <2>3, EmptySeq DEF PopBack
    <3> HIDE DEF g, r
    <3>2. g \in Heaps /\ g.head = Null /\ g.tail = Null /\ g.size = h.size /\ g.fault = h.fault
      BY <3>1 DEF Heaps, Pointers
    <3>3. Linked(g, r)
      BY <2>2, <2>3, <3>1, <3>2 DEF Linked
    <3> QED BY <1>3, <2>1, <3>2, <3>3 DEF g, r
  <2>4. CASE L # 1
    <3> DEFINE b == s[L - 1]
    <3>0. L \in Nat /\ L >= 1 /\ L # 1
      BY <1>1, <2>1, <2>4
    <3>1. /\ L - 1 \in 1..(L - 1) /\ (L - 1) + 1 = L /\ L - 1 \in 1..L
      <4> HIDE DEF L
      <4> QED BY <3>0
    <3>2. h.prev[s[L]] = b /\ b \in Nodes /\ r # <<>> /\ r[1] = s[1] /\ r[L - 1] = b
      BY <1>1, <2>2, <3>1, EmptySeq DEF Linked
    <3> HIDE DEF b
    <3>3. g = [h EXCEPT !.tail = b, !.next[b] = Null]
      BY <1>1, <2>1, <3>2 DEF PopBack
    <3> HIDE DEF g, r
    <3>4. /\ g \in Heaps /\ g.head = h.head /\ g.tail = b /\ g.size = h.size
          /\ g.fault = h.fault /\ g.prev = h.prev /\ g.next = [h.next EXCEPT ![b] = Null]
      BY <3>2, <3>3 DEF Heaps, Pointers
    <3>5. g.next[b] = Null /\ \A m \in Nodes : m # b => g.next[m] = h.next[m]
      BY <1>1, <3>2, <3>4
    <3>6. ASSUME NEW i \in 1..(Len(r) - 1) PROVE g.next[r[i]] = r[i + 1] /\ g.prev[r[i + 1]] = r[i]
      <4>1. /\ i \in 1..(L - 1) /\ i + 1 \in 1..(L - 1) /\ i \in 1..L /\ i # L - 1
            /\ r[i] = s[i] /\ r[i + 1] = s[i + 1]
        BY <1>1, <2>2
      <4>2. h.next[s[i]] = s[i + 1] /\ h.prev[s[i + 1]] = s[i]
        BY <4>1 DEF Linked
      <4>3. s[i] # b
        BY <1>1, <3>1, <4>1 DEF Distinct, b
      <4> QED BY <1>1, <3>4, <3>5, <4>1, <4>2, <4>3
    <3>7. Linked(g, r)
      BY <2>1, <2>2, <3>2, <3>4, <3>5, <3>6 DEF Linked
    <3> QED BY <1>3, <2>1, <3>4, <3>7 DEF g, r
  <2> QED BY <2>3, <2>4
<1> QED BY <1>2, <1>3
------------------------------------------------------------------------------
\* s with its p-th node moved to the front.
Moved(s, p) == <<s[p]>> \o RemoveAt(s, p)

LEMMA RemoveAtIn ==
  ASSUME NEW S, NEW s, NEW p, s \in Seq(S), p \in 1..Len(s)
  PROVE /\ RemoveAt(s, p) \in Seq(S) /\ Len(RemoveAt(s, p)) = Len(s) - 1
        /\ \A i \in 1..(Len(s) - 1) : RemoveAt(s, p)[i] = IF i < p THEN s[i] ELSE s[i + 1]
<1> DEFINE L == Len(s)
           a == SubSeq(s, 1, p - 1)
           b == SubSeq(s, p + 1, L)
<1>1. L \in Nat /\ p \in 1..L /\ \A i \in 1..L : s[i] \in S
  OBVIOUS
<1> HIDE DEF L
<1>2. a \in Seq(S) /\ Len(a) = p - 1 /\ \A i \in 1..(p - 1) : a[i] = s[i]
  <2>1. p - 1 \in Int /\ \A i \in 1..(p - 1) : s[i] \in S
    BY <1>1
  <2> QED BY <1>1, <2>1, SubSeqProperties
<1>3. b \in Seq(S) /\ Len(b) = L - p /\ \A i \in 1..(L - p) : b[i] = s[p + i]
  <2>1. p + 1 \in Int /\ L \in Int /\ \A i \in (p + 1)..L : s[i] \in S
    BY <1>1
  <2>2. /\ b \in Seq(S) /\ Len(b) = IF p + 1 <= L THEN L - (p + 1) + 1 ELSE 0
        /\ \A i \in 1..(L - (p + 1) + 1) : b[i] = s[(p + 1) + i - 1]
    BY <2>1, SubSeqProperties
  <2> HIDE DEF b
  <2> QED BY <1>1, <2>2
<1> HIDE DEF a, b
<1>4. /\ a \o b \in Seq(S) /\ Len(a \o b) = Len(a) + Len(b)
      /\ \A i \in 1..(Len(a) + Len(b)) : (a \o b)[i] = IF i <= Len(a) THEN a[i] ELSE b[i - Len(a)]
  BY <1>2, <1>3, ConcatProperties
<1>5. ASSUME NEW i \in 1..(L - 1) PROVE (a \o b)[i] = IF i < p THEN s[i] ELSE s[i + 1]
  <2>1. CASE i < p
    BY <1>1, <1>2, <1>3, <1>4, <2>1
  <2>2. CASE ~(i < p)
    <3>1. i - (p - 1) \in 1..(L - p) /\ p + (i - (p - 1)) = i + 1 /\ i \in 1..(p - 1 + (L - p))
      BY <1>1, <2>2
    <3>2. b[i - (p - 1)] = s[i + 1]
      BY <1>3, <3>1
    <3> QED BY <1>1, <1>2, <1>3, <1>4, <2>2, <3>1, <3>2
  <2> QED BY <2>1, <2>2
<1>6. RemoveAt(s, p) = a \o b
  BY DEF RemoveAt, a, b, L
<1>7. Len(a \o b) = L - 1
  BY <1>1, <1>2, <1>3, <1>4
<1> QED BY <1>4, <1>5, <1>6, <1>7 DEF L

LEMMA RemoveAtProperties ==
  ASSUME NEW s \in Seq(Nodes), NEW p \in 1..Len(s)
  PROVE /\ RemoveAt(s, p) \in Seq(Nodes) /\ Len(RemoveAt(s, p)) = Len(s) - 1
        /\ \A i \in 1..(Len(s) - 1) : RemoveAt(s, p)[i] = IF i < p THEN s[i] ELSE s[i + 1]
BY RemoveAtIn

LEMMA MovedProperties ==
  ASSUME NEW s \in Seq(Nodes), Distinct(s), NEW p \in 1..Len(s)
  PROVE /\ Moved(s, p) \in Seq(Nodes) /\ Len(Moved(s, p)) = Len(s) /\ Moved(s, p) # <<>>
        /\ Moved(s, p)[1] = s[p]
        /\ \A i \in 1..Len(s) : /\ i # 1 /\ i <= p => Moved(s, p)[i] = s[i - 1]
                                /\ i > p => Moved(s, p)[i] = s[i]
        /\ Distinct(Moved(s, p)) /\ ToSet(Moved(s, p)) \subseteq ToSet(s)
<1> DEFINE L == Len(s)
           o == RemoveAt(s, p)
           r == Moved(s, p)
           q(i) == IF i = 1 THEN p ELSE IF i <= p THEN i - 1 ELSE i
<1>1. L \in Nat /\ p \in 1..L /\ s[p] \in Nodes
  OBVIOUS
<1>2. /\ o \in Seq(Nodes) /\ Len(o) = L - 1
      /\ \A i \in 1..(L - 1) : o[i] = IF i < p THEN s[i] ELSE s[i + 1]
  BY RemoveAtProperties
<1>3. /\ r \in Seq(Nodes) /\ r # <<>> /\ Len(r) = Len(o) + 1 /\ r[1] = s[p]
      /\ \A i \in 1..Len(o) : r[i + 1] = o[i]
  BY <1>1, <1>2, PrependProperties DEF Moved
<1> HIDE DEF L, o, r
<1>4. ASSUME NEW i \in 1..L PROVE r[i] = s[q(i)] /\ q(i) \in 1..L
  <2>1. CASE i = 1
    BY <1>1, <1>3, <2>1
  <2>2. CASE i # 1
    <3>1. i - 1 \in 1..(L - 1) /\ (i - 1) + 1 = i
      BY <1>1, <2>2
    <3>2. r[i] = o[i - 1] /\ o[i - 1] = IF i - 1 < p THEN s[i - 1] ELSE s[i]
      BY <1>1, <1>2, <1>3, <3>1
    <3>3. q(i) \in 1..L /\ (i - 1 < p <=> i <= p)
      BY <1>1, <2>2
    <3> QED BY <2>2, <3>2, <3>3
  <2> QED BY <2>1, <2>2
<1>5. ASSUME NEW i \in 1..L, NEW j \in 1..L, q(i) = q(j) PROVE i = j
  BY <1>1, <1>5
<1>6. ASSUME NEW i \in 1..L, i # 1, i <= p PROVE r[i] = s[i - 1]
  BY <1>4, <1>6
<1>7. ASSUME NEW i \in 1..L, i > p PROVE r[i] = s[i]
  <2>1. q(i) = i
    BY <1>1, <1>7
  <2> QED BY <1>4, <2>1
<1>8. Len(r) = L
  BY <1>1, <1>2, <1>3
<1> HIDE DEF q
<1>9. Distinct(r)
  <2> SUFFICES ASSUME NEW i \in 1..L, NEW j \in 1..L, r[i] = r[j] PROVE i = j
    BY <1>8 DEF Distinct
  <2>1. q(i) = q(j)
    BY <1>4 DEF Distinct, L
  <2> QED BY <1>5, <2>1
<1>10. ToSet(r) \subseteq ToSet(s)
  <2>1. DOMAIN r = 1..L /\ DOMAIN s = 1..L
    BY <1>3, <1>8, LenProperties DEF L
  <2> QED BY <1>4, <2>1 DEF ToSet
<1> QED BY <1>3, <1>6, <1>7, <1>8, <1>9, <1>10 DEF L, r

LEMMA MovedFirst ==
  ASSUME NEW s \in Seq(Nodes), Distinct(s), 1 \in 1..Len(s)
  PROVE Moved(s, 1) = s
<1>1. /\ Moved(s, 1) \in Seq(Nodes) /\ Len(Moved(s, 1)) = Len(s) /\ Moved(s, 1)[1] = s[1]
      /\ \A i \in 1..Len(s) : i > 1 => Moved(s, 1)[i] = s[i]
  BY MovedProperties
<1>2. \A i \in 1..Len(s) : Moved(s, 1)[i] = s[i]
  BY <1>1
<1> QED BY <1>1, <1>2, SeqEqual

\* touch moves a node of the list to its front.
LEMMA TouchLinks ==
  ASSUME NEW h \in Heaps, NEW s, Linked(h, s), NEW p \in 1..Len(s)
  PROVE /\ Touch(h, s[p]) \in Heaps /\ Linked(Touch(h, s[p]), Moved(s, p))
        /\ Touch(h, s[p]).size = h.size /\ Touch(h, s[p]).fault = h.fault
<1> DEFINE n == s[p]
           g == Touch(h, n)
           r == Moved(s, p)
           L == Len(s)
<1>1. /\ s \in Seq(Nodes) /\ L \in Nat /\ p \in 1..L /\ 1 \in 1..L /\ L \in 1..L
      /\ \A i \in 1..L : s[i] \in Nodes
      /\ Distinct(s) /\ Null \notin Nodes
      /\ h.next \in [Nodes -> Pointers] /\ h.prev \in [Nodes -> Pointers]
  BY NullAssumption DEF Linked, Heaps
<1>2. /\ h.head = s[1] /\ h.tail = s[L] /\ h.prev[s[1]] = Null /\ h.next[s[L]] = Null
  BY <1>1, EmptySeq DEF Linked
<1>3. \A i \in 1..(L - 1) : h.next[s[i]] = s[i + 1] /\ h.prev[s[i + 1]] = s[i]
  BY DEF Linked
<1>4. /\ r \in Seq(Nodes) /\ r # <<>> /\ Len(r) = L /\ r[1] = s[p] /\ Distinct(r)
      /\ \A i \in 1..L : i # 1 /\ i <= p => r[i] = s[i - 1]
      /\ \A i \in 1..L : i > p => r[i] = s[i]
  <2>1. s \in Seq(Nodes) /\ Distinct(s) /\ p \in 1..Len(s)
    BY <1>1
  <2> QED BY ONLY <2>1, MovedProperties
<1>5. \A i, j \in 1..L : s[i] = s[j] => i = j
  BY <1>1 DEF Distinct
<1> HIDE DEF L, r
<1>6. CASE p = 1
  <2>1. r = s /\ g = h
    BY <1>1, <1>2, <1>6, MovedFirst DEF Touch, r, L
  <2> QED BY <2>1 DEF r
<1>7. CASE p # 1
  <2> DEFINE b == s[p - 1]
  <2>1. p - 1 \in 1..(L - 1) /\ p - 1 \in 1..L /\ (p - 1) + 1 = p /\ 2 \in 1..L /\ 1 # p
    BY <1>1, <1>7
  <2>2. h.prev[n] = b /\ b \in Nodes /\ b # Null /\ n # h.head /\ n \in Nodes /\ h.head \in Nodes
    BY <1>1, <1>2, <1>3, <1>5, <2>1
  <2>3. CASE p = L
    <3>1. g = [h EXCEPT !.prev[h.head] = n, !.next[n] = h.head, !.tail = b, !.next[b] = Null,
                        !.head = n, !.prev[n] = Null]
      BY <1>2, <2>2, <2>3 DEF Touch, TouchTail
    <3> HIDE DEF g, b, n
    <3>2. /\ g \in Heaps /\ g.head = n /\ g.tail = b /\ g.size = h.size /\ g.fault = h.fault
          /\ g.next = [[h.next EXCEPT ![n] = h.head] EXCEPT ![b] = Null]
          /\ g.prev = [[h.prev EXCEPT ![h.head] = n] EXCEPT ![n] = Null]
      BY <2>2, <3>1 DEF Heaps, Pointers
    <3>3. n # b
      BY <1>1, <1>5, <2>1 DEF n, b
    <3>4. /\ g.next[b] = Null /\ g.next[n] = s[1] /\ g.prev[n] = Null /\ g.prev[s[1]] = n
          /\ \A m \in Nodes : m # n /\ m # b => g.next[m] = h.next[m]
          /\ \A m \in Nodes : m # n /\ m # s[1] => g.prev[m] = h.prev[m]
      BY <1>1, <1>2, <2>2, <3>2, <3>3
    <3>5. r[L] = b
      BY <1>1, <1>4, <2>1, <2>3 DEF b
    <3>6. ASSUME NEW i \in 1..(L - 1) PROVE g.next[r[i]] = r[i + 1] /\ g.prev[r[i + 1]] = r[i]
      <4>1. CASE i = 1
        <5>1. r[2] = s[1]
          <6>1. 2 # 1 /\ 2 <= p
            BY <1>1, <2>1
          <6> QED BY <1>4, <2>1, <6>1
        <5> QED BY <1>4, <3>4, <4>1, <5>1 DEF n
      <4>2. CASE i # 1
        <5>1. /\ i - 1 \in 1..(L - 1) /\ i - 1 \in 1..L /\ i \in 1..L /\ i + 1 \in 1..L
              /\ i <= p /\ i + 1 <= p /\ i + 1 # 1 /\ (i + 1) - 1 = i /\ (i - 1) + 1 = i
              /\ i - 1 # p /\ i - 1 # p - 1 /\ i # p
          BY <1>1, <2>3, <4>2
        <5>2. r[i] = s[i - 1] /\ r[i + 1] = s[i]
          BY <1>4, <4>2, <5>1
        <5>3. h.next[s[i - 1]] = s[i] /\ h.prev[s[i]] = s[i - 1]
          BY <1>3, <5>1
        <5>4. /\ s[i - 1] # n /\ s[i - 1] # b /\ s[i] # n /\ s[i] # s[1]
              /\ s[i] \in Nodes /\ s[i - 1] \in Nodes
          BY <1>1, <1>5, <2>1, <4>2, <5>1 DEF n, b
        <5> QED BY <3>4, <5>2, <5>3, <5>4
      <4> QED BY <4>1, <4>2
    <3>7. Linked(g, r)
      BY <1>4, <3>2, <3>4, <3>5, <3>6 DEF Linked, n
    <3> QED BY <3>2, <3>7 DEF g, r, n
  <2>4. CASE p # L
    <3> DEFINE a == s[p + 1]
    <3>1. p \in 1..(L - 1) /\ p + 1 \in 1..L
      BY <1>1, <2>4
    <3>2. h.next[n] = a /\ a \in Nodes /\ a # Null /\ n # h.tail
      BY <1>1, <1>2, <1>3, <1>5, <2>4, <3>1
    <3>3. g = [h EXCEPT !.next[b] = a, !.prev[a] = b,
                        !.prev[h.head] = n, !.next[n] = h.head, !.prev[n] = Null, !.head = n]
      BY <2>2, <3>2 DEF Touch, TouchInner
    <3>4. n # b /\ n # a /\ a # s[1] /\ n # s[1]
      BY <1>1, <1>5, <2>1, <3>1
    <3> HIDE DEF g, a, b, n
    <3>5. /\ g \in Heaps /\ g.head = n /\ g.tail = h.tail /\ g.size = h.size /\ g.fault = h.fault
          /\ g.next = [[h.next EXCEPT ![b] = a] EXCEPT ![n] = h.head]
          /\ g.prev = [[[h.prev EXCEPT ![a] = b] EXCEPT ![h.head] = n] EXCEPT ![n] = Null]
      BY <2>2, <3>2, <3>3 DEF Heaps, Pointers
    <3>6. /\ g.next[b] = a /\ g.next[n] = s[1]
          /\ g.prev[n] = Null /\ g.prev[s[1]] = n /\ g.prev[a] = b
          /\ \A m \in Nodes : m # n /\ m # b => g.next[m] = h.next[m]
          /\ \A m \in Nodes : m # n /\ m # a /\ m # s[1] => g.prev[m] = h.prev[m]
      BY <1>1, <1>2, <2>2, <3>2, <3>4, <3>5
    <3>7. ASSUME NEW i \in 1..(L - 1) PROVE g.next[r[i]] = r[i + 1] /\ g.prev[r[i + 1]] = r[i]
      <4>1. CASE i = 1
        <5>1. r[2] = s[1]
          <6>1. 2 # 1 /\ 2 <= p
            BY <1>1, <2>1
          <6> QED BY <1>4, <2>1, <6>1
        <5> QED BY <1>4, <3>6, <4>1, <5>1 DEF n
      <4>2. CASE i # 1 /\ i < p
        <5>1. /\ i - 1 \in 1..(L - 1) /\ i - 1 \in 1..L /\ i \in 1..L /\ i + 1 \in 1..L
              /\ i <= p /\ i + 1 <= p /\ i + 1 # 1 /\ (i + 1) - 1 = i /\ (i - 1) + 1 = i
              /\ i - 1 # p /\ i - 1 # p - 1 /\ i # p /\ i # p + 1
          BY <1>1, <4>2
        <5>2. r[i] = s[i - 1] /\ r[i + 1] = s[i]
          BY <1>4, <4>2, <5>1
        <5>3. h.next[s[i - 1]] = s[i] /\ h.prev[s[i]] = s[i - 1]
          BY <1>3, <5>1
        <5>4. /\ s[i - 1] # n /\ s[i - 1] # b /\ s[i] # n /\ s[i] # s[1] /\ s[i] # a
              /\ s[i] \in Nodes /\ s[i - 1] \in Nodes
          BY <1>1, <1>5, <2>1, <3>1, <4>2, <5>1 DEF n, b, a
        <5> QED BY <3>6, <5>2, <5>3, <5>4
      <4>3. CASE i = p
        <5>1. r[p] = b /\ r[p + 1] = a
          <6>1. p <= p /\ p + 1 > p
            BY <1>1
          <6> QED BY <1>1, <1>4, <2>1, <3>1, <6>1 DEF b, a
        <5> QED BY <3>6, <4>3, <5>1
      <4>4. CASE i > p
        <5>1. /\ i \in 1..L /\ i + 1 \in 1..L /\ i + 1 > p /\ i # p /\ i # p - 1
              /\ i + 1 # p /\ i + 1 # 1 /\ i + 1 # p + 1
          BY <1>1, <4>4
        <5>2. r[i] = s[i] /\ r[i + 1] = s[i + 1]
          BY <1>4, <4>4, <5>1
        <5>3. h.next[s[i]] = s[i + 1] /\ h.prev[s[i + 1]] = s[i]
          BY <1>3
        <5>4. /\ s[i] # n /\ s[i] # b /\ s[i + 1] # n /\ s[i + 1] # s[1] /\ s[i + 1] # a
              /\ s[i] \in Nodes /\ s[i + 1] \in Nodes
          BY <1>1, <1>5, <2>1, <3>1, <5>1 DEF n, b, a
        <5> QED BY <3>6, <5>2, <5>3, <5>4
      <4> QED BY <1>1, <4>1, <4>2, <4>3, <4>4
    <3>8. g.tail = r[L] /\ g.next[r[L]] = Null
      <4>1. L > p /\ L # p /\ L # p - 1
        BY <1>1, <2>4
      <4>2. r[L] = s[L]
        BY <1>1, <1>4, <4>1
      <4>3. s[L] # n /\ s[L] # b /\ s[L] \in Nodes
        BY <1>1, <1>5, <2>1, <4>1 DEF n, b
      <4> QED BY <1>2, <3>5, <3>6, <4>2, <4>3
    <3>9. Linked(g, r)
      BY <1>4, <3>5, <3>6, <3>7, <3>8 DEF Linked, n
    <3> QED BY <3>5, <3>9 DEF g, r, n
  <2> QED BY <2>3, <2>4
<1> QED BY <1>6, <1>7
------------------------------------------------------------------------------
\* A stack: the next pointers lead through its nodes.
LEMMA StackPushChains ==
  ASSUME NEW h \in Heaps, NEW s, Chain(h.head, h.next, s), NEW n \in Nodes, n \notin ToSet(s)
  PROVE /\ StackPush(h, n) \in Heaps /\ StackPush(h, n).fault = h.fault
        /\ Chain(StackPush(h, n).head, StackPush(h, n).next, <<n>> \o s)
<1> DEFINE new == NewNode(h, n)
           g == StackPush(h, n)
           r == <<n>> \o s
           L == Len(s)
<1>1. /\ s \in Seq(Nodes) /\ L \in Nat /\ Distinct(s)
      /\ \A i \in 1..L : s[i] \in Nodes /\ s[i] # n
  BY DEF Chain, ToSet
<1>2. /\ r \in Seq(Nodes) /\ r # <<>> /\ Len(r) = L + 1 /\ r[1] = n /\ Distinct(r)
      /\ \A i \in 1..L : r[i + 1] = s[i]
  BY <1>1, PrependProperties, PrependDistinct
<1>3. /\ new \in Heaps /\ new.fault = h.fault /\ new.next \in [Nodes -> Pointers]
      /\ \A m \in Nodes : m # n => new.next[m] = h.next[m]
  BY NewNodeProperties DEF Heaps
<1> HIDE DEF r, L, new
<1>4. /\ g \in Heaps /\ g.fault = h.fault /\ g.head = n /\ g.next = [new.next EXCEPT ![n] = h.head]
  BY <1>3 DEF StackPush, Heaps, Pointers, new
<1> HIDE DEF g
<1>5. g.next[n] = h.head /\ \A m \in Nodes : m # n => g.next[m] = h.next[m]
  BY <1>3, <1>4
<1>6. L = 0 => h.head = Null
  <2> SUFFICES ASSUME L = 0 PROVE h.head = Null
    OBVIOUS
  <2>1. s = <<>>
    BY <1>1, EmptySeq DEF L
  <2> QED BY <2>1 DEF Chain
<1>7. L # 0 => h.head = s[1] /\ h.next[s[L]] = Null /\ 1 \in 1..L /\ L \in 1..L
  <2> SUFFICES ASSUME L # 0 PROVE h.head = s[1] /\ h.next[s[L]] = Null /\ 1 \in 1..L /\ L \in 1..L
    OBVIOUS
  <2>1. s # <<>>
    BY EmptySeq DEF L
  <2> QED BY <1>1, <2>1 DEF Chain, L
<1>8. g.next[r[Len(r)]] = Null
  <2>1. CASE L = 0
    BY <1>2, <1>5, <1>6, <2>1
  <2>2. CASE L # 0
    BY <1>1, <1>2, <1>5, <1>7, <2>2
  <2> QED BY <2>1, <2>2
<1>9. ASSUME NEW i \in 1..(Len(r) - 1) PROVE g.next[r[i]] = r[i + 1]
  <2>1. i \in 1..L /\ r[i + 1] = s[i] /\ L # 0
    BY <1>1, <1>2
  <2>2. CASE i = 1
    BY <1>2, <1>5, <1>7, <2>1, <2>2
  <2>3. CASE i # 1
    <3>1. i - 1 \in 1..(L - 1) /\ i - 1 \in 1..L /\ (i - 1) + 1 = i
      BY <1>1, <2>1, <2>3
    <3>2. r[i] = s[i - 1]
      BY <1>2, <3>1
    <3>3. h.next[s[i - 1]] = s[i]
      BY <3>1 DEF Chain, L
    <3> QED BY <1>1, <1>5, <2>1, <3>1, <3>2, <3>3
  <2> QED BY <2>2, <2>3
<1>10. Chain(g.head, g.next, r)
  BY <1>2, <1>4, <1>8, <1>9 DEF Chain
<1> QED BY <1>4, <1>10 DEF g, r

\* What is left of a chain without its first node.
LEMMA ChainTail ==
  ASSUME NEW start, NEW pointer, NEW s, Chain(start, pointer, s), s # <<>>
  PROVE /\ start = s[1] /\ start \in Nodes /\ Chain(pointer[start], pointer, Tail(s))
        /\ Tail(s) = <<>> <=> pointer[start] = Null
<1> DEFINE r == Tail(s)
           L == Len(s)
<1>1. /\ s \in Seq(Nodes) /\ L \in Nat \ {0} /\ Distinct(s) /\ \A i \in 1..L : s[i] \in Nodes
      /\ start = s[1] /\ pointer[s[L]] = Null /\ Null \notin Nodes
      /\ \A i \in 1..(L - 1) : pointer[s[i]] = s[i + 1]
  BY EmptySeq, NullAssumption DEF Chain
<1>2. /\ r \in Seq(Nodes) /\ Len(r) = L - 1 /\ Distinct(r)
      /\ \A i \in 1..(L - 1) : r[i] = s[i + 1]
  BY <1>1, EndsProperties
<1>3. r = <<>> <=> L = 1
  <2>1. Len(r) = 0 <=> L = 1
    BY <1>1, <1>2
  <2> HIDE DEF r, L
  <2> QED BY <1>2, <2>1, EmptySeq
<1> HIDE DEF r, L
<1>4. L # 1 => 1 \in 1..(L - 1) /\ 2 \in 1..L /\ L - 1 \in 1..(L - 1) /\ (L - 1) + 1 = L
  BY <1>1
<1>5. L # 1 => pointer[start] = r[1] /\ pointer[start] \in Nodes /\ pointer[r[Len(r)]] = Null
  BY <1>1, <1>2, <1>4
<1>6. L = 1 => pointer[start] = Null
  BY <1>1
<1>7. ASSUME NEW i \in 1..(Len(r) - 1) PROVE pointer[r[i]] = r[i + 1]
  <2>1. i \in 1..(L - 1) /\ i + 1 \in 1..(L - 1)
    BY <1>1, <1>2
  <2> QED BY <1>1, <1>2, <2>1
<1>8. Chain(pointer[start], pointer, r)
  BY <1>2, <1>3, <1>5, <1>6, <1>7 DEF Chain
<1>9. start \in Nodes
  BY <1>1
<1> QED BY <1>1, <1>3, <1>5, <1>6, <1>8, <1>9 DEF r

LEMMA StackPopChains ==
  ASSUME NEW h \in Heaps, NEW s, Chain(h.head, h.next, s)
  PROVE /\ StackPop(h) \in Heaps /\ StackPop(h).fault = h.fault
        /\ s = <<>> => StackPop(h) = h /\ h.head = Null
        /\ s # <<>> => /\ h.head = s[1] /\ h.head \in Nodes
                       /\ Chain(StackPop(h).head, StackPop(h).next, Tail(s))
<1>1. h.next \in [Nodes -> Pointers]
  BY DEF Heaps
<1>2. CASE s = <<>>
  BY <1>2 DEF Chain, StackPop
<1>3. CASE s # <<>>
  <2>1. h.head = s[1] /\ h.head \in Nodes /\ Chain(h.next[h.head], h.next, Tail(s))
    BY <1>3, ChainTail
  <2>2. StackPop(h) = [h EXCEPT !.head = h.next[h.head]]
    BY <2>1, NullAssumption DEF StackPop
  <2>3. /\ StackPop(h) \in Heaps /\ StackPop(h).fault = h.fault
        /\ StackPop(h).head = h.next[h.head] /\ StackPop(h).next = h.next
    BY <1>1, <2>1, <2>2 DEF Heaps
  <2> QED BY <1>3, <2>1, <2>3
<1> QED BY <1>2, <1>3

\* A FIFO: the chain starts at the tail, and the head is its last node.
Queue(h, s) ==
  /\ Chain(h.tail, h.next, s)
  /\ h.head = IF s = <<>> THEN Null ELSE s[Len(s)]

LEMMA FifoPushChains ==
  ASSUME NEW h \in Heaps, NEW s, Queue(h, s), NEW n \in Nodes, n \notin ToSet(s)
  PROVE /\ FifoPush(h, n) \in Heaps /\ FifoPush(h, n).fault = h.fault
        /\ Queue(FifoPush(h, n), Append(s, n))
<1> DEFINE new == NewNode(h, n)
           g == FifoPush(h, n)
           r == Append(s, n)
           L == Len(s)
<1>1. /\ s \in Seq(Nodes) /\ L \in Nat /\ Distinct(s)
      /\ \A i \in 1..L : s[i] \in Nodes /\ s[i] # n
      /\ \A i \in 1..(L - 1) : h.next[s[i]] = s[i + 1]
  BY DEF Queue, Chain, ToSet
<1>2. /\ r \in Seq(Nodes) /\ r # <<>> /\ Len(r) = L + 1 /\ r[L + 1] = n /\ Distinct(r)
      /\ \A i \in 1..L : r[i] = s[i]
  BY <1>1, AppendProperties, AppendDistinct
<1>3. /\ new \in Heaps /\ new.fault = h.fault /\ new.next \in [Nodes -> Pointers]
      /\ new.tail = h.tail /\ new.next[n] = Null
      /\ \A m \in Nodes : m # n => new.next[m] = h.next[m]
  BY NewNodeProperties DEF Heaps
<1>4. CASE s = <<>>
  <2>1. h.head = Null /\ L = 0
    BY <1>4 DEF Queue
  <2>2. g = [new EXCEPT !.tail = n, !.head = n]
    BY <2>1 DEF FifoPush
  <2> HIDE DEF g, r, new, L
  <2>3. g \in Heaps /\ g.head = n /\ g.tail = n /\ g.next = new.next /\ g.fault = h.fault
    BY <1>3, <2>2 DEF Heaps, Pointers
  <2>4. r[1] = n /\ Len(r) = 1
    BY <1>2, <2>1
  <2> QED BY <1>2, <1>3, <2>3, <2>4 DEF Queue, Chain, g, r
<1>5. CASE s # <<>>
  <2>1. L \in 1..L /\ 1 \in 1..L /\ h.head = s[L] /\ h.tail = s[1] /\ h.head \in Nodes /\ h.head # n
    BY <1>1, <1>5, EmptySeq DEF Queue, Chain
  <2>2. g = [new EXCEPT !.next[h.head] = n, !.head = n]
    BY <2>1, NullAssumption DEF FifoPush
  <2> HIDE DEF g, r, new, L
  <2>3. /\ g \in Heaps /\ g.head = n /\ g.tail = h.tail /\ g.fault = h.fault
        /\ g.next = [new.next EXCEPT ![h.head] = n]
    BY <1>3, <2>1, <2>2 DEF Heaps, Pointers
  <2>4. /\ g.next[s[L]] = n /\ g.next[n] = Null
        /\ \A m \in Nodes : m # n /\ m # s[L] => g.next[m] = h.next[m]
    BY <1>3, <2>1, <2>3
  <2>5. ASSUME NEW i \in 1..(Len(r) - 1) PROVE g.next[r[i]] = r[i + 1]
    <3>1. i \in 1..L /\ r[i] = s[i]
      BY <1>1, <1>2
    <3>2. CASE i = L
      BY <1>2, <2>4, <3>1, <3>2
    <3>3. CASE i # L
      <4>1. i \in 1..(L - 1) /\ i + 1 \in 1..L /\ L \in 1..L
        BY <1>1, <3>1, <3>3
      <4>2. r[i + 1] = s[i + 1] /\ s[i] # s[L]
        BY <1>2, <1>1, <3>1, <3>3, <4>1 DEF Distinct, L
      <4> QED BY <1>1, <2>4, <3>1, <4>1, <4>2
    <3> QED BY <3>2, <3>3
  <2>6. r[1] = h.tail /\ r[Len(r)] = n
    BY <1>2, <2>1
  <2>7. Chain(g.tail, g.next, r) /\ g.head = r[Len(r)]
    BY <1>2, <2>3, <2>4, <2>5, <2>6 DEF Chain
  <2> QED BY <1>2, <2>3, <2>7 DEF Queue, g, r
<1> QED BY <1>4, <1>5

LEMMA FifoPopChains ==
  ASSUME NEW h \in Heaps, NEW s, Queue(h, s)
  PROVE /\ FifoPop(h) \in Heaps /\ FifoPop(h).fault = h.fault
        /\ s = <<>> => FifoPop(h) = h /\ h.tail = Null
        /\ s # <<>> => h.tail = s[1] /\ h.tail \in Nodes /\ Queue(FifoPop(h), Tail(s))
<1>1. h.next \in [Nodes -> Pointers]
  BY DEF Heaps
<1>2. CASE s = <<>>
  BY <1>2 DEF Queue, Chain, FifoPop
<1>3. CASE s # <<>>
  <2> DEFINE rest == h.next[h.tail]
  <2>1. /\ h.tail = s[1] /\ h.tail \in Nodes /\ Chain(rest, h.next, Tail(s))
        /\ Tail(s) = <<>> <=> rest = Null
    BY <1>3, ChainTail DEF Queue
  <2>2. FifoPop(h) = [h EXCEPT !.tail = rest, !.head = IF rest = Null THEN Null ELSE @]
    BY <2>1, NullAssumption DEF FifoPop
  <2>3. rest \in Pointers
    BY <1>1, <2>1
  <2> HIDE DEF rest
  <2>4. /\ FifoPop(h) \in Heaps /\ FifoPop(h).fault = h.fault
        /\ FifoPop(h).tail = rest /\ FifoPop(h).next = h.next
        /\ FifoPop(h).head = IF rest = Null THEN Null ELSE h.head
    BY <2>2, <2>3 DEF Heaps, Pointers
  <2>5. Tail(s) # <<>> => Tail(s)[Len(Tail(s))] = s[Len(s)]
    <3>1. /\ s \in Seq(Nodes) /\ Len(s) \in Nat \ {0} /\ Tail(s) \in Seq(Nodes)
          /\ Len(Tail(s)) = Len(s) - 1 /\ \A i \in 1..(Len(s) - 1) : Tail(s)[i] = s[i + 1]
      BY <1>3, EndsProperties DEF Queue, Chain
    <3> SUFFICES ASSUME Tail(s) # <<>> PROVE Tail(s)[Len(Tail(s))] = s[Len(s)]
      OBVIOUS
    <3>2. Len(Tail(s)) \in Nat \ {0}
      BY <3>1, EmptySeq
    <3>3. Len(s) - 1 \in 1..(Len(s) - 1) /\ (Len(s) - 1) + 1 = Len(s)
      BY <3>1, <3>2
    <3> QED BY <3>1, <3>3
  <2>6. Queue(FifoPop(h), Tail(s))
    BY <1>3, <2>1, <2>4, <2>5 DEF Queue
  <2> QED BY <1>3, <2>1, <2>4, <2>6
<1> QED BY <1>2, <1>3
------------------------------------------------------------------------------
LEMMA FrontSet ==
  ASSUME NEW s \in Seq(Nodes), Distinct(s), s # <<>>
  PROVE ToSet(Front(s)) = ToSet(s) \ {Last(s)} /\ Last(s) \in ToSet(s)
<1> DEFINE L == Len(s)
           r == Front(s)
           n == Last(s)
<1>1. /\ L \in Nat \ {0} /\ r \in Seq(Nodes) /\ Len(r) = L - 1
      /\ \A i \in 1..(L - 1) : r[i] = s[i]
  BY EndsProperties
<1>2. \A i, j \in 1..L : s[i] = s[j] => i = j
  BY DEF Distinct
<1>3. ToSet(s) = {s[i] : i \in 1..L} /\ ToSet(r) = {r[i] : i \in 1..(L - 1)}
  BY <1>1, LenProperties DEF ToSet
<1>4. n = s[L]
  BY DEF Last
<1> HIDE DEF L, r, n
<1>5. \A i \in 1..L : i # L => i \in 1..(L - 1)
  BY <1>1
<1>6. \A i \in 1..(L - 1) : i \in 1..L /\ i # L
  BY <1>1
<1>7. L \in 1..L
  BY <1>1
<1>8. n \in ToSet(s)
  BY <1>3, <1>4, <1>7
<1>9. ToSet(s) \ {n} \subseteq ToSet(r)
  BY <1>1, <1>3, <1>4, <1>5
<1>10. ToSet(r) \subseteq ToSet(s) \ {n}
  BY <1>1, <1>2, <1>3, <1>4, <1>6, <1>7
<1> QED BY <1>8, <1>9, <1>10 DEF r, n

LEMMA PrependSet ==
  ASSUME NEW s \in Seq(Nodes), NEW n \in Nodes
  PROVE ToSet(<<n>> \o s) = ToSet(s) \cup {n}
<1> DEFINE L == Len(s)
           r == <<n>> \o s
<1>1. /\ L \in Nat /\ r \in Seq(Nodes) /\ Len(r) = L + 1 /\ r[1] = n
      /\ \A i \in 1..L : r[i + 1] = s[i]
  BY PrependProperties
<1>2. ToSet(s) = {s[i] : i \in 1..L} /\ ToSet(r) = {r[i] : i \in 1..(L + 1)}
  BY <1>1, LenProperties DEF ToSet
<1> HIDE DEF L, r
<1>3. \A i \in 1..(L + 1) : i = 1 \/ (i - 1 \in 1..L /\ (i - 1) + 1 = i)
  BY <1>1
<1>4. ToSet(r) \subseteq ToSet(s) \cup {n}
  <2>1. \A i \in 1..(L + 1) : r[i] = n \/ r[i] \in ToSet(s)
    <3> TAKE i \in 1..(L + 1)
    <3>1. i = 1 \/ r[i] = s[i - 1]
      BY <1>1, <1>3
    <3> QED BY <1>1, <1>2, <1>3, <3>1
  <2> QED BY <1>2, <2>1
<1>5. n \in ToSet(r)
  <2>1. 1 \in 1..(L + 1)
    BY <1>1
  <2> QED BY <1>1, <1>2, <2>1
<1>6. ToSet(s) \subseteq ToSet(r)
  <2>1. \A i \in 1..L : i + 1 \in 1..(L + 1)
    BY <1>1
  <2> QED BY <1>1, <1>2, <2>1
<1> QED BY <1>4, <1>5, <1>6 DEF r
------------------------------------------------------------------------------
\* The nodes of a sequence with a key, and those that an index entry refers to.
Holders(o, f, k) == {n \in ToSet(o) : f[n] = k}
Found(entry)     == {entry} \ {Null}

\* The keys of a sequence of nodes.
Labelled(s, f) == [i \in DOMAIN s |-> f[s[i]]]

LabelledIn(s, f, S) == \A n \in ToSet(s) : f[n] \in S

LEMMA LabelledProperties ==
  ASSUME NEW S, NEW s, NEW f, s \in Seq(Nodes), LabelledIn(s, f, S)
  PROVE /\ Labelled(s, f) \in Seq(S) /\ Len(Labelled(s, f)) = Len(s)
        /\ \A i \in 1..Len(s) : Labelled(s, f)[i] = f[s[i]]
        /\ Labelled(s, f) = <<>> <=> s = <<>>
        /\ ToSet(Labelled(s, f)) \subseteq S
        /\ \A k : k \in ToSet(Labelled(s, f)) <=> Holders(s, f, k) # {}
<1> DEFINE L == Len(s)
           q == Labelled(s, f)
<1>1. L \in Nat /\ DOMAIN s = 1..L /\ ToSet(s) = {s[i] : i \in 1..L}
  BY LenProperties DEF ToSet
<1>2. \A i \in 1..L : f[s[i]] \in S
  BY <1>1 DEF LabelledIn
<1> HIDE DEF L
<1>3. q = [i \in 1..L |-> f[s[i]]]
  BY <1>1 DEF Labelled
<1>4. q \in Seq(S) /\ Len(q) = L
  BY <1>1, <1>2, <1>3
<1> HIDE DEF q
<1>5. \A i \in 1..L : q[i] = f[s[i]]
  BY <1>3
<1>6. q = <<>> <=> s = <<>>
  BY <1>1, <1>4, EmptySeq DEF L
<1>7. ToSet(q) = {q[i] : i \in 1..L}
  BY <1>4, LenProperties DEF ToSet
<1>8. \A k : k \in ToSet(q) <=> Holders(s, f, k) # {}
  BY <1>1, <1>5, <1>7 DEF Holders
<1>9. ToSet(q) \subseteq S
  BY <1>2, <1>5, <1>7
<1> QED BY <1>4, <1>5, <1>6, <1>8, <1>9 DEF q, L

LEMMA LabelledFront ==
  ASSUME NEW S, NEW s, NEW f, s \in Seq(Nodes), LabelledIn(s, f, S), s # <<>>
  PROVE Labelled(Front(s), f) = Front(Labelled(s, f)) /\ Last(Labelled(s, f)) = f[Last(s)]
<1> DEFINE L == Len(s)
           q == Labelled(s, f)
           r == Front(s)
           u == Front(q)
           v == Labelled(r, f)
<1>1. /\ L \in Nat \ {0} /\ r \in Seq(Nodes) /\ Len(r) = L - 1
      /\ \A i \in 1..(L - 1) : r[i] = s[i]
  BY EndsProperties
<1>2. /\ q \in Seq(S) /\ Len(q) = L /\ \A i \in 1..L : q[i] = f[s[i]]
      /\ q # <<>>
  <2>1. /\ q \in Seq(S) /\ Len(q) = L /\ \A i \in 1..L : q[i] = f[s[i]]
        /\ (q = <<>> <=> s = <<>>)
    BY LabelledProperties
  <2> QED BY <2>1
<1> HIDE DEF q, r
<1>3. /\ u \in Seq(S) /\ Len(u) = L - 1 /\ \A i \in 1..(L - 1) : u[i] = q[i]
  BY <1>2, EndsProperties
<1>4. LabelledIn(r, f, S)
  <2>1. ToSet(r) = {r[i] : i \in 1..(L - 1)} /\ ToSet(s) = {s[i] : i \in 1..L}
    BY <1>1, LenProperties DEF ToSet
  <2>2. \A i \in 1..(L - 1) : i \in 1..L
    BY <1>1
  <2> HIDE DEF L
  <2> QED BY <1>1, <2>1, <2>2 DEF LabelledIn
<1>5. v \in Seq(S) /\ Len(v) = L - 1 /\ \A i \in 1..(L - 1) : v[i] = f[r[i]]
  BY <1>1, <1>4, LabelledProperties
<1> HIDE DEF u, v, L
<1>6. \A i \in 1..(L - 1) : u[i] = v[i]
  <2> TAKE i \in 1..(L - 1)
  <2>1. i \in 1..L
    BY <1>1
  <2>2. q[i] = f[s[i]]
    BY <1>2, <2>1
  <2>3. u[i] = q[i]
    BY <1>3
  <2>4. v[i] = f[s[i]]
    BY <1>1, <1>5
  <2> QED BY <2>2, <2>3, <2>4
<1>7. u = v
  BY <1>3, <1>5, <1>6, SeqEqual
<1>8. Last(q) = f[Last(s)]
  <2>1. L \in 1..L
    BY <1>1
  <2> QED BY <1>2, <2>1 DEF Last, L
<1> QED BY <1>7, <1>8 DEF u, v, q, r

LEMMA LabelledPrepend ==
  ASSUME NEW S, NEW s, NEW f, NEW g, NEW n, s \in Seq(Nodes), LabelledIn(s, f, S),
         n \in Nodes, g[n] \in S, \A m \in ToSet(s) : g[m] = f[m]
  PROVE Labelled(<<n>> \o s, g) = <<g[n]>> \o Labelled(s, f)
<1> DEFINE L == Len(s)
           r == <<n>> \o s
           q == Labelled(s, f)
           k == g[n]
           u == <<k>> \o q
           v == Labelled(r, g)
<1>1. /\ L \in Nat /\ r \in Seq(Nodes) /\ Len(r) = L + 1 /\ r[1] = n
      /\ \A i \in 1..L : r[i + 1] = s[i]
  BY PrependProperties
<1>2. q \in Seq(S) /\ Len(q) = L /\ \A i \in 1..L : q[i] = f[s[i]]
  BY LabelledProperties
<1> HIDE DEF q, r, k
<1>3. /\ u \in Seq(S) /\ Len(u) = L + 1 /\ u[1] = k
      /\ \A i \in 1..L : u[i + 1] = q[i]
  BY <1>2, PrependProperties DEF k
<1>4. ToSet(r) = {r[i] : i \in 1..(L + 1)} /\ ToSet(s) = {s[i] : i \in 1..L}
  BY <1>1, LenProperties DEF ToSet
<1> HIDE DEF L, u
<1>5. ASSUME NEW i \in 1..(L + 1) PROVE g[r[i]] = u[i] /\ g[r[i]] \in S
  <2>1. CASE i = 1
    BY <1>1, <1>3, <2>1 DEF k
  <2>2. CASE i # 1
    <3>1. i - 1 \in 1..L /\ (i - 1) + 1 = i
      BY <1>1, <2>2
    <3>2. r[i] = s[i - 1] /\ u[i] = q[i - 1] /\ s[i - 1] \in ToSet(s)
      BY <1>1, <1>3, <1>4, <3>1
    <3> QED BY <1>2, <3>1, <3>2
  <2> QED BY <2>1, <2>2
<1>6. LabelledIn(r, g, S)
  BY <1>4, <1>5 DEF LabelledIn
<1>7. v \in Seq(S) /\ Len(v) = L + 1 /\ \A i \in 1..(L + 1) : v[i] = g[r[i]]
  <2>1. r \in Seq(Nodes) /\ 1..Len(r) = 1..(L + 1)
    BY <1>1
  <2>2. /\ Labelled(r, g) \in Seq(S) /\ Len(Labelled(r, g)) = Len(r)
        /\ \A i \in 1..Len(r) : Labelled(r, g)[i] = g[r[i]]
    BY ONLY <1>1, <1>6, LabelledProperties
  <2> QED BY ONLY <1>1, <2>1, <2>2 DEF v
<1> HIDE DEF v
<1>8. u = v
  BY <1>3, <1>5, <1>7, SeqEqual
<1> QED BY <1>8 DEF u, v, q, r, k

\* Moving an element to the front keeps the set of elements, and moves its label.
LEMMA MovedSet ==
  ASSUME NEW s \in Seq(Nodes), Distinct(s), NEW p \in 1..Len(s)
  PROVE ToSet(Moved(s, p)) = ToSet(s)
<1> DEFINE L == Len(s)
           r == Moved(s, p)
<1>1. /\ r \in Seq(Nodes) /\ Len(r) = L /\ r[1] = s[p] /\ ToSet(r) \subseteq ToSet(s)
      /\ \A i \in 1..L : /\ i # 1 /\ i <= p => r[i] = s[i - 1]
                         /\ i > p => r[i] = s[i]
  BY MovedProperties
<1>2. L \in Nat /\ p \in 1..L
  OBVIOUS
<1>3. ToSet(s) = {s[i] : i \in 1..L} /\ ToSet(r) = {r[i] : i \in 1..L}
  BY <1>1, LenProperties DEF ToSet
<1> HIDE DEF L, r
<1>4. ASSUME NEW i \in 1..L PROVE \E j \in 1..L : r[j] = s[i]
  <2>1. CASE i < p
    <3>1. i + 1 \in 1..L /\ i + 1 # 1 /\ i + 1 <= p /\ (i + 1) - 1 = i
      BY <1>2, <2>1
    <3> QED BY <1>1, <3>1
  <2>2. CASE i = p
    <3>1. 1 \in 1..L
      BY <1>2
    <3> QED BY <1>1, <2>2, <3>1
  <2>3. CASE i > p
    BY <1>1, <2>3
  <2> QED BY <1>2, <2>1, <2>2, <2>3
<1>5. ToSet(s) \subseteq ToSet(r)
  BY <1>3, <1>4
<1> QED BY <1>1, <1>5 DEF r

LEMMA LabelledRemoveAt ==
  ASSUME NEW S, NEW s, NEW f, NEW p, s \in Seq(Nodes), LabelledIn(s, f, S), p \in 1..Len(s)
  PROVE /\ LabelledIn(RemoveAt(s, p), f, S)
        /\ Labelled(RemoveAt(s, p), f) = RemoveAt(Labelled(s, f), p)
<1> DEFINE L == Len(s)
           q == Labelled(s, f)
           r == RemoveAt(s, p)
           u == RemoveAt(q, p)
           v == Labelled(r, f)
<1>1. /\ L \in Nat \ {0} /\ p \in 1..L /\ r \in Seq(Nodes) /\ Len(r) = L - 1
      /\ \A i \in 1..(L - 1) : r[i] = IF i < p THEN s[i] ELSE s[i + 1]
  BY RemoveAtProperties
<1>2. q \in Seq(S) /\ Len(q) = L /\ \A i \in 1..L : q[i] = f[s[i]]
  BY LabelledProperties
<1>3. ToSet(s) = {s[i] : i \in 1..L} /\ ToSet(r) = {r[i] : i \in 1..(L - 1)}
  BY <1>1, LenProperties DEF ToSet
<1> HIDE DEF L, q, r
<1>4. u \in Seq(S) /\ Len(u) = L - 1 /\ \A i \in 1..(L - 1) : u[i] = IF i < p THEN q[i] ELSE q[i + 1]
  <2>1. q \in Seq(S) /\ p \in 1..Len(q) /\ Len(q) = L
    BY ONLY <1>1, <1>2
  <2>2. /\ RemoveAt(q, p) \in Seq(S) /\ Len(RemoveAt(q, p)) = Len(q) - 1
        /\ \A i \in 1..(Len(q) - 1) : RemoveAt(q, p)[i] = IF i < p THEN q[i] ELSE q[i + 1]
    BY ONLY <2>1, RemoveAtIn
  <2> QED BY ONLY <2>1, <2>2
<1> HIDE DEF u
<1>5. \A i \in 1..(L - 1) : i \in 1..L /\ i + 1 \in 1..L
  BY <1>1
<1>6. \A i \in 1..(L - 1) : r[i] \in ToSet(s)
  BY <1>1, <1>3, <1>5
<1>7. LabelledIn(r, f, S)
  BY <1>3, <1>6 DEF LabelledIn
<1>8. v \in Seq(S) /\ Len(v) = L - 1 /\ \A i \in 1..(L - 1) : v[i] = f[r[i]]
  <2>1. /\ Labelled(r, f) \in Seq(S) /\ Len(Labelled(r, f)) = Len(r)
        /\ \A i \in 1..Len(r) : Labelled(r, f)[i] = f[r[i]]
    BY ONLY <1>1, <1>7, LabelledProperties
  <2> QED BY ONLY <1>1, <2>1 DEF v
<1> HIDE DEF v
<1>9. \A i \in 1..(L - 1) : u[i] = v[i]
  <2> TAKE i \in 1..(L - 1)
  <2>1. i \in 1..L /\ i + 1 \in 1..L
    BY <1>5
  <2>2. q[i] = f[s[i]] /\ q[i + 1] = f[s[i + 1]]
    BY <1>2, <2>1
  <2>3. r[i] = IF i < p THEN s[i] ELSE s[i + 1]
    BY <1>1
  <2>4. u[i] = IF i < p THEN q[i] ELSE q[i + 1]
    BY <1>4
  <2>5. v[i] = f[r[i]]
    BY <1>8
  <2> QED BY <2>2, <2>3, <2>4, <2>5
<1>10. u = v
  BY <1>4, <1>8, <1>9, SeqEqual
<1> QED BY <1>7, <1>10 DEF u, v, q, r
==============================================================================
