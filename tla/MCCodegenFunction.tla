-------------------------- MODULE MCCodegenFunction ---------------------------
(* Finite instances of CodegenFunction and Expressions, which share no state: a behaviour writes and *)
(* runs a function, or constructs expressions.                                                       *)
EXTENDS CodegenFunction, Expressions

\* Integers of three bits, two and one.
SmallHalf == [i64 |-> 4, i32 |-> 2, i1 |-> 1]

\* A constant and a variable in memory of each type, with the numbers where integers wrap around; a
\* null record is the only constant of its type.  Of arguments, one each.
SomeLeaves ==
  {Leaf(op, n[1], n[2]) : op \in {"Constant", "TemporaryVariable"},
                          n \in {<<"INT64", 3>>, <<"INT64", 4>>,
                                 <<"INT32", 1>>, <<"INT32", 2>>, <<"BOOL", 0>>, <<"BOOL", 1>>,
                                 <<"DOUBLE", 1>>, <<"FLOAT", 2>>, <<"RECORD_PTR", 0>>}}
  \cup {Leaf("TemporaryVariable", "RECORD_PTR", 5), Leaf("ValueArgument", "INT64", 5),
        Leaf("ReferenceArgument", "INT32", 3)}

InFunction(A)    == expressions = <<>> /\ A /\ UNCHANGED exprvars
InExpressions(A) == Blank /\ A /\ UNCHANGED genvars

EitherInit == GenInit /\ ExprInit

\* GenNext or ExprNext.
EitherNext ==
  \/ InFunction(Write) \/ InFunction(Generate)
  \/ InFunction(Execute) \/ InFunction(Branch) \/ InFunction(Decide) \/ InFunction(Store)
  \/ InExpressions(ConstructLeaf) \/ InExpressions(ConstructUnary) \/ InExpressions(ConstructBinary)

EitherSpec == EitherInit /\ [][EitherNext]_<<genvars, exprvars>>
==============================================================================
