----------------------------- MODULE AtomicStore -----------------------------
(***************************************************************************)
(* What the transaction runtime of DCDS promises to a generated function:  *)
(* a store of committed cells, and for every running attempt a private     *)
(* buffer of writes and a view of what it has observed.  An attempt takes  *)
(* effect in one step or not at all, and takes effect only if everything   *)
(* in its view still holds.  Nothing here mentions locks, undo logs or     *)
(* memory; TxnRuntime implements this with in-place updates.               *)
(***************************************************************************)
CONSTANTS Threads, Records, Roots, Attributes, Data, Null, Absent

VARIABLES
  store,    \* the committed value of every cell; Absent: no such record yet
  view,     \* the observations each attempt still relies on
  buffer    \* the writes of each attempt, visible to nobody else

vars == <<store, view, buffer>>

Cells  == Records \X Attributes
Values == Records \cup Data

NoWrites == [c \in {} |-> Null]

\* The function f with the cells of S set to v.
Overwrite(f, S, v) == [c \in DOMAIN f \cup S |-> IF c \in S THEN v ELSE f[c]]

Init ==
  /\ store = [c \in Cells |-> IF c[1] \in Roots THEN Null ELSE Absent]
  /\ view = [t \in Threads |-> {}]
  /\ buffer = [t \in Threads |-> NoWrites]

\* No other running attempt has written the cell.
Private(t, c) == \A u \in Threads \ {t} : c \notin DOMAIN buffer[u]

Observe(t, c) ==
  /\ store[c] # Absent
  /\ view' = [view EXCEPT ![t] = @ \cup {[cell |-> c, value |-> store[c]]}]
  /\ UNCHANGED <<store, buffer>>

\* Giving up the right to rely on what was observed of record r.
Forget(t, r) ==
  /\ view' = [view EXCEPT ![t] = {o \in @ : o.cell[1] # r}]
  /\ UNCHANGED <<store, buffer>>

Put(t, c, v) ==
  /\ store[c] # Absent \/ c \in DOMAIN buffer[t]
  /\ Private(t, c)
  /\ buffer' = [buffer EXCEPT ![t] = Overwrite(@, {c}, v)]
  /\ UNCHANGED <<store, view>>

\* A new record: all of its cells at once, and none of them in anybody's hands.
Create(t, r) ==
  /\ \A a \in Attributes : store[<<r, a>>] = Absent /\ Private(t, <<r, a>>)
  /\ buffer' = [buffer EXCEPT ![t] = Overwrite(@, {r} \X Attributes, Null)]
  /\ UNCHANGED <<store, view>>

Commit(t) ==
  /\ \A o \in view[t] : store[o.cell] = o.value
  /\ store' = [c \in Cells |-> IF c \in DOMAIN buffer[t] THEN buffer[t][c] ELSE store[c]]
  /\ view' = [view EXCEPT ![t] = {}]
  /\ buffer' = [buffer EXCEPT ![t] = NoWrites]

Abort(t) ==
  /\ view' = [view EXCEPT ![t] = {}]
  /\ buffer' = [buffer EXCEPT ![t] = NoWrites]
  /\ UNCHANGED store

Next ==
  \E t \in Threads :
    \/ \E c \in Cells : Observe(t, c)
    \/ \E r \in Records : Forget(t, r) \/ Create(t, r)
    \/ \E c \in Cells, v \in Values : Put(t, c, v)
    \/ Commit(t)
    \/ Abort(t)

Spec == Init /\ [][Next]_vars
==============================================================================
