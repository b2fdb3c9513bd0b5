------------------------------ MODULE ListHeap -------------------------------
(***************************************************************************)
(* The pointer surgery of the generated linked lists, as operators         *)
(* on a heap: the list record with its head and tail, and the next and     *)
(* prev attributes of every node.  One operator is one generated function, *)
(* all of its statements together: a function holds the list record under  *)
(* an exclusive lock from its first read, so nobody sees it half done.     *)
(*                                                                         *)
(* Popped nodes are not deleted by the code and keep their pointers.       *)
(* Calling a method on the null record is a fault; what the program does   *)
(* after it is not modelled.                                               *)
(***************************************************************************)
EXTENDS Integers, Sequences, SequencesExt, FiniteSets

CONSTANTS Nodes, Null

ASSUME NullAssumption == Null \notin Nodes /\ IsFiniteSet(Nodes)

Pointers == Nodes \cup {Null}

Heaps == [head : Pointers, tail : Pointers, next : [Nodes -> Pointers], prev : [Nodes -> Pointers],
          size : Int, fault : BOOLEAN]

EmptyHeap ==
  [head |-> Null, tail |-> Null,
   next |-> [n \in Nodes |-> Null], prev |-> [n \in Nodes |-> Null], size |-> 0, fault |-> FALSE]

Fault(h) == [h EXCEPT !.fault = TRUE]

\* addInsertStatement: a new record with the default values of its attributes.
NewNode(h, n) == [h EXCEPT !.next[n] = Null, !.prev[n] = Null]

------------------------------------------------------------------------------
\* The old head keeps its prev pointer.
FaultyPushFront(h, n) ==
  LET new == NewNode(h, n) IN
  IF h.head = Null THEN [new EXCEPT !.head = n, !.tail = n]
                   ELSE [new EXCEPT !.head = n, !.next[n] = h.head]

PushFront(h, n) ==
  LET new == NewNode(h, n) IN
  IF h.head = Null THEN [new EXCEPT !.head = n, !.tail = n]
                   ELSE [new EXCEPT !.head = n, !.next[n] = h.head, !.prev[h.head] = n]

PushBack(h, n) ==
  LET new == NewNode(h, n) IN
  IF h.tail = Null THEN [new EXCEPT !.tail = n, !.head = n]
                   ELSE [new EXCEPT !.tail = n, !.prev[n] = h.tail, !.next[h.tail] = n]

PopFront(h) ==
  LET rest == h.next[h.head] IN
  IF h.head = Null THEN h
  ELSE IF rest = Null THEN [h EXCEPT !.head = Null, !.tail = Null]
                      ELSE [h EXCEPT !.head = rest, !.prev[rest] = Null]

PopBack(h) ==
  LET rest == h.prev[h.tail] IN
  IF h.tail = Null THEN h
  ELSE IF rest = Null THEN [h EXCEPT !.tail = Null, !.head = Null]
                      ELSE [h EXCEPT !.tail = rest, !.next[rest] = Null]

\* The tail's predecessor is read after the tail has become the new head.
FaultyTouchTail(h, n) ==
  [h EXCEPT !.prev[h.head] = n, !.next[n] = h.head, !.head = n, !.prev[n] = Null, !.tail = Null]

\* touch of the tail: rotate the list by one.  EXCEPT works from left to right, like the code.
TouchTail(h, n) ==
  LET before == h.prev[n] IN
  IF before = Null THEN Fault(h)
  ELSE [h EXCEPT !.prev[h.head] = n, !.next[n] = h.head, !.tail = before, !.next[before] = Null,
                 !.head = n, !.prev[n] = Null]

\* The successor still points back at the node.
FaultyTouchInner(h, n) ==
  LET before == h.prev[n] IN
  [h EXCEPT !.next[before] = h.next[n], !.prev[h.head] = n, !.next[n] = h.head, !.prev[n] = Null, !.head = n]

\* touch of any other node: unlink it and put it in front of the head.
TouchInner(h, n) ==
  LET before == h.prev[n]  after == h.next[n] IN
  IF before = Null \/ after = Null THEN Fault(h)
  ELSE [h EXCEPT !.next[before] = after, !.prev[after] = before,
                 !.prev[h.head] = n, !.next[n] = h.head, !.prev[n] = Null, !.head = n]

Touch(h, n) ==
  IF n = h.head THEN h ELSE IF n = h.tail THEN TouchTail(h, n) ELSE TouchInner(h, n)

------------------------------------------------------------------------------
(* Stack and FIFO use the next pointers only; a FIFO is linked from its tail. *)
StackPush(h, n) == [NewNode(h, n) EXCEPT !.next[n] = h.head, !.head = n]

StackPop(h) == IF h.head = Null THEN h ELSE [h EXCEPT !.head = h.next[h.head]]

FifoPush(h, n) ==
  LET new == NewNode(h, n) IN
  IF h.head = Null THEN [new EXCEPT !.tail = n, !.head = n]
                   ELSE [new EXCEPT !.next[h.head] = n, !.head = n]

FifoPop(h) ==
  LET rest == h.next[h.tail] IN
  IF h.tail = Null THEN h
  ELSE [h EXCEPT !.tail = rest, !.head = IF rest = Null THEN Null ELSE @]

------------------------------------------------------------------------------
\* DoublyLinkedList2 keeps a count in the list record.
PushFrontCounted(h, n) == [PushFront(h, n) EXCEPT !.size = @ + 1]

PopBackCounted(h) == IF h.tail = Null THEN h ELSE [PopBack(h) EXCEPT !.size = @ - 1]

\* FixedSizedDoublyLinkedList trusts that it never becomes empty.
PushFrontUnchecked(h, n) == IF h.head = Null THEN Fault(h) ELSE PushFront(h, n)
PopBackUnchecked(h) ==
  IF h.tail = Null \/ h.prev[h.tail] = Null THEN Fault(h) ELSE PopBack(h)

------------------------------------------------------------------------------
\* The nodes met from a start along a pointer, at most as many as there are nodes.
Follow(start, pointer) ==
  LET N == Cardinality(Nodes)
      step[i \in 0..N] ==
        IF i = 0 THEN <<>>
        ELSE LET s == step[i - 1]
                 n == IF i = 1 THEN start ELSE IF Len(s) < i - 1 THEN Null ELSE pointer[Last(s)]
             IN  IF n = Null THEN s ELSE Append(s, n)
  IN step[N]

Forward(h)  == Follow(h.head, h.next)
Backward(h) == Follow(h.tail, h.prev)
==============================================================================
