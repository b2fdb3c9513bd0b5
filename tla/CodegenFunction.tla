--------------------------- MODULE CodegenFunction ----------------------------
(***************************************************************************)
(* LLVMCodegenFunction and LLVMCodegenStatement: the basic blocks that are *)
(* generated for a function, and the execution of the result.  The         *)
(* insertion point of IRBuilder is part of the generator's state: what is  *)
(* inserted into a block that has its terminator comes after it.  The      *)
(* behaviour of code that the verifier refuses is not modelled.            *)
(***************************************************************************)
EXTENDS StatementBlocks, SequencesExt

VARIABLES
  blocks,    \* the basic blocks, <<>> before they are generated
  pc,        \* block and index of the next instruction
  retval     \* the success variable of the inner function

genvars == <<statements, blocks, pc, retval>>

Entry == 1
ReturnBlock == 2
Outside == <<0, 0>>

------------------------------------------------------------------------------
(* Instructions.  A branch on a condition goes to yes if it holds. *)
Exec(point)              == [op |-> "exec", point |-> point]
Br(to)                   == [op |-> "br", to |-> to]
CondBr(point, yes, no)   == [op |-> "condbr", point |-> point, yes |-> yes, no |-> no]
StoreFalse               == [op |-> "store_false"]
Ret                      == [op |-> "ret"]

IsTerminator(i) == i.op \in {"br", "condbr", "ret"}

(* The generator's state: the blocks so far, the insertion point, and of each statement begun the *)
(* blocks that the end of one of its blocks branches to: within the statement, and behind it.     *)
Start == [code |-> <<<<>>, <<>>>>, at |-> Entry, begun |-> [i \in Positions |-> [to |-> 0, after |-> 0]]]
SetInsertPoint(g, block) == [g EXCEPT !.at = block]
Emit(g, i) == [g EXCEPT !.code[g.at] = Append(@, i)]
NewBlocks(g, n) == [g EXCEPT !.code = @ \o [k \in 1..n |-> <<>>]]
Begin(g, i, to, after) == [g EXCEPT !.begun[i] = [to |-> to, after |-> after]]
Terminated(g) == g.code[g.at] # <<>> /\ IsTerminator(Last(g.code[g.at]))

\* closeCase without its test.
FaultyCloseCase(g, after) == Emit(g, Br(after))

CloseCase(g, after) == IF Terminated(g) THEN g ELSE Emit(g, Br(after))

\* A block that ends by itself leaves the insertion point behind it.
CloseElseCase(g, after) == IF Terminated(g) THEN g ELSE SetInsertPoint(Emit(g, Br(after)), after)

\* The failed attempt is reported as a success.
FaultyConditionalAbort(g, point) ==
  LET n == Len(g.code)
      then == SetInsertPoint(Emit(NewBlocks(g, 3), CondBr(point, n + 2, n + 1)), n + 1)
      else == SetInsertPoint(Emit(then, Br(ReturnBlock)), n + 2)
  IN CloseElseCase(else, n + 3)

\* gen_conditional_abort: to the return block with false unless the call returns true.
ConditionalAbort(g, point) ==
  LET n == Len(g.code)
      then == SetInsertPoint(Emit(NewBlocks(g, 3), CondBr(point, n + 2, n + 1)), n + 1)
      else == SetInsertPoint(Emit(Emit(then, StoreFalse), Br(ReturnBlock)), n + 2)
  IN CloseElseCase(else, n + 3)

\* The statement that is last in its block is followed by the return block, whatever block it is.
Following(i, block) == IF IsLast(i) THEN ReturnBlock ELSE block

BeginIf(g, i) ==
  LET n == Len(g.code)
      opened == Emit(NewBlocks(g, IF IsLast(i) THEN 2 ELSE 3), CondBr(Do(i), n + 1, n + 2))
  IN SetInsertPoint(Begin(opened, i, n + 2, Following(i, n + 3)), n + 1)

BeginElse(g, j) ==
  LET st == g.begun[In(j)] IN SetInsertPoint(CloseCase(g, st.after), st.to)

EndIf(g, j) == CloseElseCase(g, g.begun[In(In(j))].after)

BeginLoop(g, i) ==
  LET n == Len(g.code)
      opened == SetInsertPoint(Emit(NewBlocks(g, IF IsLast(i) THEN 2 ELSE 3), Br(n + 1)), n + 1)
      cond == Emit(opened, CondBr(Do(i), n + 2, Following(i, n + 3)))
  IN SetInsertPoint(Begin(cond, i, n + 1, Following(i, n + 3)), n + 2)

EndLoop(g, j) ==
  LET st == g.begun[In(j)]
      iterated == IF Op(In(j)) = "FOR" THEN Emit(g, Exec(Iter(In(j)))) ELSE g
  IN SetInsertPoint(Emit(iterated, Br(st.to)), st.after)

BeginDo(g, i) ==
  LET n == Len(g.code)
      opened == Emit(NewBlocks(g, IF IsLast(i) THEN 1 ELSE 2), Br(n + 1))
  IN SetInsertPoint(Begin(opened, i, n + 1, Following(i, n + 2)), n + 1)

EndDo(g, j) ==
  LET st == g.begun[In(j)]
  IN SetInsertPoint(Emit(g, CondBr(Do(In(j)), st.to, st.after)), st.after)

\* buildStatement, up to its first block or from the end of one.
Build(g, i) ==
  CASE Op(i) = "PLAIN"           -> Emit(g, Exec(Do(i)))
    [] Op(i) = "CHECK"           -> ConditionalAbort(g, Do(i))
    [] Op(i) = "YIELD"           -> Emit(Emit(g, Exec(Do(i))), Br(ReturnBlock))
    [] Op(i) = "IF"              -> BeginIf(g, i)
    [] Op(i) = "ELSE"            -> BeginElse(g, i)
    [] Op(i) = "DO"              -> BeginDo(g, i)
    [] Op(i) \in {"WHILE", "FOR"} -> BeginLoop(g, i)
    [] EndsIf(i)                 -> EndIf(g, i)
    [] EndsLoop(i)               -> IF Op(In(i)) = "DO" THEN EndDo(g, i) ELSE EndLoop(g, i)

\* The generator after each item.
Generator ==
  LET gen[i \in 0..Len(statements)] == IF i = 0 THEN Start ELSE Build(gen[i - 1], i) IN gen

\* The constructor of LLVMCodegenFunction.
Generated == Emit(SetInsertPoint(Generator[Len(statements)], ReturnBlock), Ret).code

\* verifyFunction: every block ends with its only terminator.
Verified(code) ==
  \A b \in DOMAIN code :
    /\ code[b] # <<>>
    /\ \A k \in DOMAIN code[b] : IsTerminator(code[b][k]) <=> k = Len(code[b])

------------------------------------------------------------------------------
GenInit == Blank /\ blocks = <<>> /\ pc = Outside /\ retval = TRUE

Write ==
  /\ blocks = <<>> /\ UNCHANGED <<blocks, pc, retval>>
  /\ (\E op \in Operations : PutStatement(op)) \/ EndBlock

\* The control goes to the first instruction of a block.
FaultyGoTo(block) == pc' = <<block, 0>>
GoTo(block) == pc' = <<block, 1>>

Generate ==
  /\ blocks = <<>> /\ Complete
  /\ blocks' = Generated
  /\ IF Verified(Generated) THEN GoTo(Entry) ELSE UNCHANGED pc
  /\ UNCHANGED <<statements, retval>>

Instruction == blocks[pc[1]][pc[2]]
Facing(op) == pc # Outside /\ Instruction.op = op
Advance == pc' = <<pc[1], pc[2] + 1>>

Execute == Facing("exec") /\ Advance /\ UNCHANGED <<statements, blocks, retval>>
Branch  == Facing("br") /\ GoTo(Instruction.to) /\ UNCHANGED <<statements, blocks, retval>>
Decide ==
  /\ Facing("condbr")
  /\ \E block \in {Instruction.yes, Instruction.no} : GoTo(block)
  /\ UNCHANGED <<statements, blocks, retval>>
Store == Facing("store_false") /\ Advance /\ retval' = FALSE /\ UNCHANGED <<statements, blocks>>

GenNext == Write \/ Generate \/ Execute \/ Branch \/ Decide \/ Store

GenSpec == GenInit /\ [][GenNext]_genvars

------------------------------------------------------------------------------
(* Properties *)

GenTypeOK ==
  /\ \A i \in Positions : Op(i) \in Operations \cup Closers /\ In(i) \in 0..(i - 1)
  /\ retval \in BOOLEAN
  /\ pc = Outside \/ (pc[1] \in DOMAIN blocks /\ pc[2] \in DOMAIN blocks[pc[1]])

\* Where the control is, and whether the function has not failed.
Controls == [block : Nat, index : Nat, ok : BOOLEAN]

\* A branch or a store to retval leads on by itself.
Silently ==
  [s \in Controls |->
     LET i == blocks[s.block][s.index] IN
     CASE i.op = "br"          -> [s EXCEPT !.block = i.to, !.index = 1]
       [] i.op = "store_false" -> [s EXCEPT !.index = @ + 1, !.ok = FALSE]
       [] OTHER                -> s]

\* The next point the client knows of: branches that follow each other lead on in the text, so that
\* there are not many of them.
Observed ==
  LET go[n \in 0..(2 * Len(statements) + 7)] ==
        IF n = 0 THEN [block |-> pc[1], index |-> pc[2], ok |-> retval] ELSE Silently[go[n - 1]]
      end == go[2 * Len(statements) + 7]
      i == blocks[end.block][end.index]
  IN IF pc = Outside THEN Unbuilt
     ELSE IF i.op = "ret" THEN (IF end.ok THEN Succeeded ELSE Failed)
     ELSE i.point

Tree == INSTANCE StatementTree WITH next <- Observed

\* How each item leaves the insertion point: in a block of its own that goes on ("open"), behind a
\* terminator ("closed"), or in the return block ("return").
Ends ==
  LET end[i \in 0..Len(statements)] ==
        IF i = 0 THEN "open"
        ELSE IF Op(i) = "YIELD" \/ (EndsIf(i) /\ end[i - 1] = "closed") THEN "closed"
        ELSE IF Op(i) = "END" /\ Final(i) THEN "return"
        ELSE "open"
  IN end

\* What may come next.
Fits(i) ==
  IF Op(i) = "ELSE" \/ EndsIf(i) THEN Ends[i - 1] # "return" ELSE Ends[i - 1] = "open"

\* The functions that can be built: one ends with a return, a branch or a loop; a nested block does
\* not end with a loop, nor with an IF that goes on after its else block; a loop body goes on, and
\* so does an else block with something behind it.  The verifier accepts these and no others
\* (closeCase, closeElseCase, the blocks after IFs and loops).
VerifiedExactly ==
  blocks # <<>> =>
    (Verified(blocks) <=> (\A i \in Positions : Fits(i)) /\ Ends[Len(statements)] # "open")

\* An IF at the end of a nested block whose else block returns: the branch that goes on leaves the
\* function instead of the block.
Escapes ==
  Complete /\ \E i \in Positions :
    /\ Op(i) = "IF" /\ IsLast(i) /\ Finish(i) # Len(statements)
    /\ Ends[End(i) - 1] = "open" /\ Ends[Finish(i)] = "closed"

\* Generated code that the verifier accepts does what its statements say: the same statements in the
\* same order, the same decisions, and false for exactly the attempts that a check has failed; but
\* for the functions with such an IF (buildStatement and what it calls).
RunsAsWritten == Tree!Init /\ [][~Escapes => Tree!Next]_<<statements, Observed>>

\* The same for all functions, as the tests expect of nested branches (NestedBranches).
TreeSpec == Tree!Spec
==============================================================================
