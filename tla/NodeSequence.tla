----------------------------- MODULE NodeSequence ----------------------------
(* What a linked list promises: a sequence of distinct nodes. *)
EXTENDS Sequences, SequencesExt

CONSTANTS Nodes, Null

VARIABLES
  list,    \* the nodes from head to tail
  result   \* what the last call returned

vars == <<list, result>>

Free == Nodes \ ToSet(list)

Init == list = <<>> /\ result = Null

PushFront(n) == n \in Free /\ list' = <<n>> \o list /\ result' = n
PushBack(n)  == n \in Free /\ list' = Append(list, n) /\ result' = n

PopFront ==
  \/ list = <<>> /\ result' = Null /\ UNCHANGED list
  \/ list # <<>> /\ result' = Head(list) /\ list' = Tail(list)

PopBack ==
  \/ list = <<>> /\ result' = Null /\ UNCHANGED list
  \/ list # <<>> /\ result' = Last(list) /\ list' = Front(list)

Touch(n) ==
  /\ \E i \in DOMAIN list : list[i] = n /\ list' = <<n>> \o RemoveAt(list, i)
  /\ result' = Null

Query ==
  /\ result' \in IF list = <<>> THEN {Null, "true"} ELSE {Head(list), Last(list), "false"}
  /\ UNCHANGED list

Next ==
  \/ \E n \in Nodes : PushFront(n) \/ PushBack(n) \/ Touch(n)
  \/ PopFront \/ PopBack \/ Query

Spec == Init /\ [][Next]_vars
==============================================================================
