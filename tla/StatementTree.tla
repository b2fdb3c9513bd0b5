---------------------------- MODULE StatementTree -----------------------------
(* What a function means: how control moves through the statements of a client. *)
EXTENDS StatementBlocks

VARIABLE next   \* where control is

\* Control does not stop here: it goes on behind an IF of which it has done a branch, into the body
\* of a DO loop.
Passes(j) == j \in Positions /\ (Op(j) \in {"DO", "ELSE"} \/ EndsIf(j))

\* Where it stops that comes to a position.
Stops ==
  LET stop[j \in 1..(Len(statements) + 1)] ==
        IF ~Passes(j) THEN j ELSE IF Op(j) = "ELSE" THEN stop[End(j)] ELSE stop[j + 1]
  IN stop

\* Control arrives at a position: a statement, the end of a body, which leads back to the loop, or
\* the end of the function.
Arrive(j) ==
  LET k == Stops[j] IN
  CASE k \notin Positions                       -> Succeeded
    [] k \in Positions /\ Op(k) # "END"         -> Do(k)
    [] k \in Positions /\ Op(k) = "END"         -> IF Op(In(k)) = "FOR" THEN Iter(In(k)) ELSE Do(In(k))

\* From a point, when the condition there holds or the check there succeeds (ok), or not.
After(point, ok) ==
  LET i == point[1] IN
  IF point = Iter(i) THEN Do(i)
  ELSE IF Op(i) = "YIELD" THEN Succeeded
  ELSE IF Op(i) = "CHECK" /\ ~ok THEN Failed
  ELSE IF Op(i) \in Openers /\ ~ok THEN Arrive(End(i) + 1)
  ELSE Arrive(i + 1)

Init == Blank /\ next = Unbuilt

Write == next = Unbuilt /\ UNCHANGED next /\ ((\E op \in Operations : PutStatement(op)) \/ EndBlock)

Call == next = Unbuilt /\ Complete /\ next' = Arrive(1) /\ UNCHANGED statements

Step ==
  /\ next \notin {Unbuilt, Succeeded, Failed}
  /\ \E ok \in BOOLEAN : next' = After(next, ok)
  /\ UNCHANGED statements

Next == Write \/ Call \/ Step

Spec == Init /\ [][Next]_<<statements, next>>
==============================================================================
