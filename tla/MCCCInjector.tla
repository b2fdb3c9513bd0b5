---------------------------- MODULE MCCCInjector ------------------------------
(* Finite instances of CCInjector: a list whose functions call those of its nodes. *)
EXTENDS CCInjector

CONSTANTS LIST, NODE, get, set, move, grow, next, n, m

Stands(st, branches) == [st |-> st, in |-> branches]
Calls(v, f) == [Plain EXCEPT !.op = "CALL", !.on = v, !.fn = f, !.type = NODE]

\* A getter, a setter, a function that writes in one branch and calls the setter in the other, and
\* one that calls it on a record of its own.
MCLibrary == [f \in {get, set, move, grow} |->
  [type |-> NODE, returns |-> f = get,
   text |-> CASE f = get  -> <<Stands(READ(next, n), {}), Stands(YIELD, {})>>
              [] f = set  -> <<Stands(UPDATE(next), {})>>
              [] f = move -> <<Stands(READ(next, n), {}), Stands(IF_, {}),
                               Stands(Calls(n, set), {<<2, "then">>}), Stands(UPDATE(next), {<<2, "else">>})>>
              [] f = grow -> <<Stands(CREATE(n, NODE), {}), Stands(Calls(n, set), {}), Stands(READ(next, m), {})>>]]
==============================================================================
