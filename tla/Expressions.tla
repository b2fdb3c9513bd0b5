------------------------------ MODULE Expressions ------------------------------
(***************************************************************************)
(* Expressions, and what LLVMExpressionVisitor generates for them.  An     *)
(* expression points to its operands, which were constructed before it.    *)
(* Result types, visits and meanings are recursive over the operands: they *)
(* are kept for each expression as it is constructed, as neither it nor    *)
(* the visitor has any state that changes later.                           *)
(*                                                                         *)
(* A leaf carries the value it has when the code runs: of a constant, of a *)
(* temporary variable, of an argument passed by value or by reference.     *)
(* The visitor answers with an LLVM value, or with the address of one for  *)
(* what lives in memory, which the code above it is to load.  Integers are *)
(* bit patterns; floating-point numbers are small enough to be exact.      *)
(***************************************************************************)
EXTENDS Integers, Sequences

CONSTANTS
  Half,            \* half the number of patterns of i64, i32 and i1
  Leaves,          \* what clients begin with
  MaxLeaves,       \* leaves are among the first that many expressions,
  MaxExpressions   \* of that many

VARIABLES
  expressions,   \* the expressions constructed, which refer to each other by number
  resultTypes,   \* getResultType of each,
  visits,        \* what the visitor answers for it,
  meanings       \* and what it stands for

exprvars == <<expressions, resultTypes, visits, meanings>>

DcdsToLLVMType ==
  [INT64 |-> "i64", RECORD_PTR |-> "i64", INT32 |-> "i32", BOOL |-> "i1",
   DOUBLE |-> "double", FLOAT |-> "float"]

ValueTypes == DOMAIN DcdsToLLVMType
LLVMTypes  == {"i64", "i32", "i1", "double", "float"}
Integral   == {"i64", "i32", "i1"}

Patterns(ty)  == 0..(2 * Half[ty] - 1)
Signed(v, ty) == IF v >= Half[ty] THEN v - 2 * Half[ty] ELSE v
\* The values of registers.
Registers(ty) == IF ty \in Integral THEN Patterns(ty) ELSE Int

Arithmetic == {"Add", "Subtract"}
Ordering   == {"GreaterThan", "GreaterThanOrEqualTo", "LessThan", "LessThanOrEqualTo"}
Equality   == {"Equal", "NotEqual"}
Nullity    == {"IsNull", "IsNotNull"}
Binary     == Arithmetic \cup Ordering \cup Equality
Unary      == Nullity \cup {"IsEven"}

ConstantOrValue == {"Constant", "ValueArgument"}
Addressed       == {"TemporaryVariable", "ReferenceArgument"}
Leafs           == ConstantOrValue \cup Addressed

Leaf(op, type, val) == [op |-> op, type |-> type, val |-> val]

ASSUME ExpressionsAssumption ==
  /\ Half \in [Integral -> Nat \ {0}] /\ Half["i1"] = 1
  /\ Leaves \subseteq [op : Leafs, type : ValueTypes, val : Int]
  /\ \A e \in Leaves : e.val \in Registers(DcdsToLLVMType[e.type])
  /\ MaxLeaves \in Nat /\ MaxExpressions \in Nat
------------------------------------------------------------------------------
ResultType(e) ==
  CASE e.op \in Leafs      -> e.type
    [] e.op \in Arithmetic -> resultTypes[e.left]
    [] OTHER               -> "BOOL"

\* What a constructor asserts of the operands.
Constructs(e) == e.op = "IsEven" => resultTypes[e.expr] = "INT64"
------------------------------------------------------------------------------
(* The visitor.  What it generates is a value, an address, or nothing: an assertion, a CHECK or *)
(* LOG(FATAL) fails, in the visitor or in the IRBuilder when the types are not those of the     *)
(* instruction; a load that reads past a variable is counted with these.                        *)

Value(ty, v)   == [kind |-> "value", ty |-> ty, val |-> v]
Address(ty, v) == [kind |-> "address", ty |-> ty, val |-> v]
Nothing        == [kind |-> "nothing", ty |-> "", val |-> 0]

CreateLoad(ty, r) == IF r.kind = "address" /\ r.ty = ty THEN Value(ty, r.val) ELSE Nothing

Bool(p) == Value("i1", IF p THEN 1 ELSE 0)

\* Every load is one of 64 bits, as in the visit of IsNull.
FaultyLoadValueIfRequired(r, type) == IF r.kind = "address" THEN CreateLoad("i64", r) ELSE r

LoadValueIfRequired(r, type) ==
  IF r.kind = "address" THEN CreateLoad(DcdsToLLVMType[type], r) ELSE r

SameType(l, r) == l.kind = "value" /\ r.kind = "value" /\ l.ty = r.ty

VisitArithmetic(op, l, r) ==
  LET exact == IF op = "Add" THEN l.val + r.val ELSE l.val - r.val
  IN IF ~SameType(l, r) THEN Nothing
     ELSE Value(l.ty, IF l.ty \in Integral THEN exact % (2 * Half[l.ty]) ELSE exact)

\* Signed for integers ("do we need signed or unsigned?"), ordered for floating-point numbers.
VisitOrdering(op, l, r) ==
  LET v(x) == IF x.ty \in Integral THEN Signed(x.val, x.ty) ELSE x.val
  IN IF ~SameType(l, r) THEN Nothing
     ELSE Bool(CASE op = "GreaterThan"          -> v(l) > v(r)
                 [] op = "GreaterThanOrEqualTo" -> v(l) >= v(r)
                 [] op = "LessThan"             -> v(l) < v(r)
                 [] op = "LessThanOrEqualTo"    -> v(l) <= v(r))

\* The CHECK compares the kinds of the types; the instruction is an integer comparison.
VisitEquality(op, l, r) ==
  IF SameType(l, r) /\ l.ty \in Integral THEN Bool((l.val = r.val) <=> (op = "Equal")) ELSE Nothing

\* Loads 64 bits, whatever the operand is.
VisitNullity(op, r) ==
  LET loaded == CreateLoad("i64", r)
  IN IF loaded = Nothing THEN Nothing ELSE Bool((loaded.val = 0) <=> (op = "IsNull"))

\* Loads nothing.
VisitIsEven(r) ==
  IF r.kind = "value" /\ r.ty \in Integral THEN Bool(r.val % 2 = 0) ELSE Nothing

\* What is generated for an operand, as most visits use it.
OperandValue(x) == LoadValueIfRequired(visits[x], resultTypes[x])

Visit(e) ==
  CASE e.op \in Addressed       -> Address(DcdsToLLVMType[e.type], e.val)
    [] e.op \in ConstantOrValue -> Value(DcdsToLLVMType[e.type], e.val)
    [] e.op \in Arithmetic      -> VisitArithmetic(e.op, OperandValue(e.left), OperandValue(e.right))
    [] e.op \in Ordering        -> VisitOrdering(e.op, OperandValue(e.left), OperandValue(e.right))
    [] e.op \in Equality        -> VisitEquality(e.op, OperandValue(e.left), OperandValue(e.right))
    [] e.op \in Nullity         -> VisitNullity(e.op, visits[e.expr])
    [] e.op = "IsEven"          -> VisitIsEven(visits[e.expr])
------------------------------------------------------------------------------
(* What an expression means, and which are supported *)

\* The number a register of a type holds; 0 and 1 for false and true.
Number(v, type) ==
  IF type # "BOOL" /\ DcdsToLLVMType[type] \in Integral THEN Signed(v, DcdsToLLVMType[type]) ELSE v

\* Arithmetic on integers wraps around.
Wrapped(n, type) ==
  LET ty == DcdsToLLVMType[type]
  IN IF ty \in Integral THEN Signed(n % (2 * Half[ty]), ty) ELSE n

\* The number an expression stands for, as in C++.
Meaning(e) ==
  LET truth(p) == IF p THEN 1 ELSE 0
      n(x)     == meanings[x].number
  IN CASE e.op \in Leafs -> Number(e.val, e.type)
       [] e.op = "Add"                  -> Wrapped(n(e.left) + n(e.right), ResultType(e))
       [] e.op = "Subtract"             -> Wrapped(n(e.left) - n(e.right), ResultType(e))
       [] e.op = "GreaterThan"          -> truth(n(e.left) > n(e.right))
       [] e.op = "GreaterThanOrEqualTo" -> truth(n(e.left) >= n(e.right))
       [] e.op = "LessThan"             -> truth(n(e.left) < n(e.right))
       [] e.op = "LessThanOrEqualTo"    -> truth(n(e.left) <= n(e.right))
       [] e.op = "Equal"                -> truth(n(e.left) = n(e.right))
       [] e.op = "NotEqual"             -> truth(n(e.left) # n(e.right))
       [] e.op = "IsNull"               -> truth(n(e.expr) = 0)
       [] e.op = "IsNotNull"            -> truth(n(e.expr) # 0)
       [] e.op = "IsEven"               -> truth(n(e.expr) % 2 = 0)

\* Operands of one type, which for equality is not a floating-point type; nullity of variables in
\* memory that are 64 bits wide; evenness of what is not a variable in memory.
Supported(e) ==
  LET ty(x)     == DcdsToLLVMType[resultTypes[x]]
      memory(x) == expressions[x].op \in Addressed
  IN CASE e.op \in Leafs   -> TRUE
       [] e.op \in Binary  -> /\ meanings[e.left].supported /\ meanings[e.right].supported
                              /\ ty(e.left) = ty(e.right)
                              /\ e.op \in Equality => ty(e.left) \in Integral
       [] e.op \in Nullity -> memory(e.expr) /\ ty(e.expr) = "i64"
       [] e.op = "IsEven"  -> meanings[e.expr].supported /\ ~memory(e.expr)

\* It calculates with truth values or orders them: of two bits the set one is the lesser.
OnTruths(e) ==
  CASE e.op \in Leafs  -> FALSE
    [] e.op \in Binary -> \/ meanings[e.left].truths \/ meanings[e.right].truths
                          \/ e.op \notin Equality /\ resultTypes[e.left] = "BOOL"
    [] OTHER           -> meanings[e.expr].truths
------------------------------------------------------------------------------
ExprInit == expressions = <<>> /\ resultTypes = <<>> /\ visits = <<>> /\ meanings = <<>>

Construct(e) ==
  /\ Len(expressions) < MaxExpressions
  /\ Constructs(e)
  /\ expressions' = Append(expressions, e)
  /\ resultTypes' = Append(resultTypes, ResultType(e))
  /\ visits' = Append(visits, Visit(e))
  /\ meanings' = Append(meanings, [number    |-> Meaning(e),
                                   supported |-> Supported(e),
                                   truths    |-> OnTruths(e)])

ConstructLeaf == Len(expressions) < MaxLeaves /\ \E e \in Leaves : Construct(e)

ConstructUnary ==
  \E op \in Unary, x \in DOMAIN expressions : Construct([op |-> op, expr |-> x])

ConstructBinary ==
  \E op \in Binary, l, r \in DOMAIN expressions : Construct([op |-> op, left |-> l, right |-> r])

ExprNext == ConstructLeaf \/ ConstructUnary \/ ConstructBinary

ExprSpec == ExprInit /\ [][ExprNext]_exprvars
------------------------------------------------------------------------------
\* Types: a visit answers with a register or the address of one, or not at all.
ExprTypeOK ==
  /\ Len(resultTypes) = Len(expressions) /\ Len(visits) = Len(expressions)
  /\ Len(meanings) = Len(expressions)
  /\ \A i \in DOMAIN expressions :
       /\ resultTypes[i] \in ValueTypes
       /\ visits[i] # Nothing => /\ visits[i] \in [kind : {"value", "address"}, ty : LLVMTypes, val : Int]
                                 /\ visits[i].val \in Registers(visits[i].ty)
       /\ meanings[i] \in [number : Int, supported : BOOLEAN, truths : BOOLEAN]

\* What IFs and loops branch on.  It is not loaded.
ConditionValue(i) == IF visits[i].kind = "value" /\ visits[i].ty = "i1" THEN visits[i] ELSE Nothing

\* What a FOR stores in its variable, of a type, after an iteration.
IterationValue(i, type) ==
  IF visits[i].kind = "value" /\ visits[i].ty = DcdsToLLVMType[type] THEN visits[i] ELSE Nothing

\* Code is generated for the supported expressions and no other, of the LLVM type of
\* getResultType, and it computes what the expression means, unless that is about truth values.
\* Conditions and iterations are supported where they are no variables in memory.  OperandValue is
\* what an operand is used as, and what a return statement stores.
CompilesRight(i) ==
  LET memory == expressions[i].op \in Addressed
      means  == meanings[i]
  IN /\ OperandValue(i) # Nothing <=> means.supported
     /\ ConditionValue(i) = IF means.supported /\ resultTypes[i] = "BOOL" /\ ~memory THEN OperandValue(i) ELSE Nothing
     /\ IterationValue(i, resultTypes[i]) = IF memory THEN Nothing ELSE OperandValue(i)
     /\ means.supported => OperandValue(i).ty = DcdsToLLVMType[resultTypes[i]]
     /\ means.supported /\ ~means.truths => Number(OperandValue(i).val, resultTypes[i]) = means.number

\* visit: every expression that can be constructed is compiled to code that computes it, or to none.
ExpressionsCompile == \A i \in DOMAIN expressions : CompilesRight(i)
==============================================================================
