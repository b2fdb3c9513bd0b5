--------------------------- MODULE StatementBlocks ----------------------------
(***************************************************************************)
(* StatementBuilder: the statements a client writes for a function, in the *)
(* order of the text, with the ends of their blocks.                       *)
(*                                                                         *)
(*   PLAIN   reads, updates, creations, assignments, log lines             *)
(*   CHECK   what may end the attempt: locks, method calls, index inserts  *)
(*   YIELD   return                                                        *)
(*   IF, WHILE, FOR, DO   with conditions that depend on the data          *)
(*   ELSE    the end of a then-block, where the else-block begins          *)
(*   END     the end of an else-block or of the body of a loop             *)
(*                                                                         *)
(* A block is named by the position at which it begins, the body of the    *)
(* function by 0.  An item knows the block it stands in or ends.           *)
(***************************************************************************)
EXTENDS Naturals, Sequences, FiniteSets

CONSTANTS
  Operations,      \* the statement types in use, out of those above
  MaxStatements    \* bound: statements of a function

VARIABLE statements

Whole   == 0
Loops   == {"WHILE", "FOR", "DO"}
Openers == Loops \cup {"IF", "ELSE"}
Closers == {"ELSE", "END"}

ASSUME StatementsAssumption ==
  Operations \subseteq Loops \cup {"PLAIN", "CHECK", "YIELD", "IF"} /\ MaxStatements \in Nat

Positions == DOMAIN statements
Op(i)     == statements[i].op
In(i)     == statements[i].in
Count     == Cardinality({i \in Positions : Op(i) \notin Closers})

\* The block that the first n items leave open, the innermost one.
Open(n) == {b \in 1..n : Op(b) \in Openers /\ \A j \in 1..n : Op(j) \in Closers => In(j) # b} \cup {Whole}
Current(n) == CHOOSE b \in Open(n) : \A c \in Open(n) : c <= b

\* Where a block ends, and where a statement does.
End(b) == CHOOSE j \in Positions : Op(j) \in Closers /\ In(j) = b
Finish(i) == CASE Op(i) = "IF" -> End(End(i)) [] Op(i) \in Loops -> End(i) [] OTHER -> i

\* Nothing follows in the block; isLastStatementInBlock.
Final(j)  == j = Len(statements) \/ Op(j + 1) \in Closers
IsLast(i) == Final(Finish(i))

EndsIf(j)   == Op(j) = "END" /\ Op(In(j)) = "ELSE"
EndsLoop(j) == Op(j) = "END" /\ Op(In(j)) \in Loops

Blank == statements = <<>>

Put(op) == statements' = Append(statements, [op |-> op, in |-> Current(Len(statements))])

\* addConditionalBranch and the loops create the blocks that the statement needs with it.
PutStatement(op) == Count < MaxStatements /\ Put(op)

\* The code generator checks that no branch and no loop body is empty, else-blocks excepted.
EndBlock ==
  LET b == Current(Len(statements)) IN
  /\ b # Whole /\ (b = Len(statements) => Op(b) = "ELSE")
  /\ Put(IF Op(b) = "IF" THEN "ELSE" ELSE "END")

Complete == statements # <<>> /\ Current(Len(statements)) = Whole

\* A point of control: a statement (the condition of an IF or a loop) or the iteration of a FOR.
Do(i)     == <<i, "do">>
Iter(i)   == <<i, "iter">>
Unbuilt   == <<0, "unbuilt">>    \* there is no code yet
Succeeded == <<0, "true">>       \* the inner function has returned true
Failed    == <<0, "false">>
==============================================================================
