----------------------------- MODULE LinkedLists ------------------------------
(***************************************************************************)
(* The linked lists a client can call directly: DoublyLinkedList and the   *)
(* singly linked Stack and FIFO.  Every function is one transaction.  The  *)
(* payload of a node is the node itself.  Nodes are never deleted, so an   *)
(* address is inserted once.                                               *)
(***************************************************************************)
EXTENDS ListHeap

VARIABLES
  class,     \* the class of the list: "doubly", "stack" or "fifo"
  heap,      \* the list record and the node records
  inserted,  \* the nodes allocated so far; the bound on insertions is |Nodes|
  result     \* what the last call returned or put into its reference argument

vars == <<class, heap, inserted, result>>

Classes == {"doubly", "stack", "fifo"}

\* The nodes from head to tail; in a FIFO the pointers lead from the tail, the oldest node, to the head.
Contents == IF class = "fifo" THEN Reverse(Follow(heap.tail, heap.next)) ELSE Forward(heap)

InList(n) == n \in ToSet(Contents)

Init == class \in Classes /\ heap = EmptyHeap /\ inserted = {} /\ result = Null

\* An address handed out twice.
FaultyInsert(n) == ~InList(n) /\ UNCHANGED inserted /\ result' = n

Insert(n) == n \notin inserted /\ inserted' = inserted \cup {n} /\ result' = n

push_front(n) == class = "doubly" /\ Insert(n) /\ heap' = PushFront(heap, n)
push_back(n)  == class = "doubly" /\ Insert(n) /\ heap' = PushBack(heap, n)

pop_front == class = "doubly" /\ heap' = PopFront(heap) /\ result' = heap.head /\ UNCHANGED inserted
pop_back  == class = "doubly" /\ heap' = PopBack(heap) /\ result' = heap.tail /\ UNCHANGED inserted

\* Only nodes of the list are touched here; LruList2 has the other case.
touch(n) ==
  /\ class = "doubly" /\ InList(n)
  /\ heap' = Touch(heap, n) /\ result' = Null /\ UNCHANGED inserted

head_ptr == class = "doubly" /\ result' = heap.head /\ UNCHANGED <<heap, inserted>>
tail_ptr == class = "doubly" /\ result' = heap.tail /\ UNCHANGED <<heap, inserted>>

empty == result' = (IF heap.head = Null THEN "true" ELSE "false") /\ UNCHANGED <<heap, inserted>>

stack_push(n) == class = "stack" /\ Insert(n) /\ heap' = StackPush(heap, n)
stack_pop     == class = "stack" /\ heap' = StackPop(heap) /\ result' = heap.head /\ UNCHANGED inserted
fifo_push(n)  == class = "fifo" /\ Insert(n) /\ heap' = FifoPush(heap, n)
fifo_pop      == class = "fifo" /\ heap' = FifoPop(heap) /\ result' = heap.tail /\ UNCHANGED inserted

Next ==
  /\ UNCHANGED class
  /\ \/ \E n \in Nodes : push_front(n) \/ push_back(n) \/ touch(n) \/ stack_push(n) \/ fifo_push(n)
     \/ pop_front \/ pop_back \/ head_ptr \/ tail_ptr \/ stack_pop \/ fifo_pop \/ empty

Spec == Init /\ [][Next]_vars
------------------------------------------------------------------------------
\* Types; the list holds allocated nodes only.
TypeOK ==
  /\ heap \in Heaps
  /\ inserted \subseteq Nodes
  /\ result \in Pointers \cup {"true", "false"}
  /\ ToSet(Contents) \subseteq inserted

\* Read from either end the list is the same, its last node ends it, and no call met the null
\* record: every unlinking and relinking keeps both directions in step (touch, pop_*, push_*); a
\* FIFO has lost its head when its last node is popped (FIFO::createFunction_pop).
MirrorImage ==
  /\ ~heap.fault
  /\ class = "doubly" =>
       /\ Forward(heap) = Reverse(Backward(heap))
       /\ heap.head # Null => heap.prev[heap.head] = Null /\ heap.next[heap.tail] = Null
  /\ class = "fifo" =>
       IF Contents = <<>> THEN heap.head = Null
       ELSE heap.head = Head(Contents) /\ heap.next[heap.head] = Null

Sequence == INSTANCE NodeSequence WITH list <- Contents

\* The pointers are a sequence of distinct nodes, and every call changes it and answers as the
\* sequence operations do; touch is a move to the front, a stack works on one end and a FIFO
\* on both.
SequenceSpec == Sequence!Spec
==============================================================================
