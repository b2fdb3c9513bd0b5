----------------------------- MODULE CCInjector ------------------------------
(***************************************************************************)
(* CCInjector as a function from the text of a function to its locks, and  *)
(* the execution of what it makes.  A client writes a function of the data *)
(* structure, of any shape up to a bound, which calls functions of other   *)
(* types (Library); it is injected, and one of its runs follows.  A lock   *)
(* statement locks the record of the function that contains it.            *)
(*                                                                         *)
(* A text is a sequence of statements in the order they are written.  Each *)
(* knows the branches it stands in: <<i, "then">>, <<i, "else">> or        *)
(* <<i, "body">> of the IF or LOOP at i.                                   *)
(***************************************************************************)
EXTENDS Naturals, Sequences, SequencesExt

CONSTANTS
  Types, MainTypes, \* the types of records; those Main may be a function of
  Attributes,       \* the attributes that hold references
  Constants,        \* those of them that are runtime constants
  Variables,        \* temporary variables and arguments
  Main, Library,    \* its name; the functions it can call: [name -> [type, returns, text]]
  Known, Root,      \* records that others know, and the one Main is called on
  New, Nil,         \* the records the transaction creates, and no record
  None,             \* no name
  MaxSize,          \* bound: the statements of Main
  Reassign          \* the variable of a CREATE may be assigned by others, too

Names   == Attributes \cup Variables
Records == Known \cup New

------------------------------------------------------------------------------
(* Statements: attr is the attribute used, on the variable whose record is *)
(* called, to the variable assigned, by a call through its return value.   *)

Plain == [op |-> "IF", attr |-> None, on |-> None, to |-> None, fn |-> None, type |-> None]

READ(a, v)      == [Plain EXCEPT !.op = "READ", !.attr = a, !.to = v]
READ_INDEXED(v) == [Plain EXCEPT !.op = "READ_INDEXED", !.to = v]
UPDATE(a)       == [Plain EXCEPT !.op = "UPDATE", !.attr = a]
CREATE(v, type) == [Plain EXCEPT !.op = "CREATE", !.to = v, !.type = type]
CALL(v, f, w)   == [Plain EXCEPT !.op = "CALL", !.on = v, !.fn = f, !.to = w, !.type = Library[f].type]
IF_             == Plain
LOOP            == [Plain EXCEPT !.op = "LOOP"]
YIELD           == [Plain EXCEPT !.op = "YIELD"]

\* addUpdateStatement refuses constants.
Statements ==
       {READ(a, v) : a \in Attributes, v \in Variables} \cup {READ_INDEXED(v) : v \in Variables}
  \cup {UPDATE(a) : a \in Attributes \ Constants}
  \cup {CREATE(v, Library[f].type) : v \in Variables, f \in DOMAIN Library}
  \cup {CALL(v, f, None) : v \in Variables, f \in DOMAIN Library}
  \cup {CALL(v, f, w) : v, w \in Variables, f \in {g \in DOMAIN Library : Library[g].returns}}
  \cup {IF_, LOOP, YIELD}

Blocks == {"then", "else", "body"}
Texts  == Seq([st : Statements, in : SUBSET (Nat \X Blocks)])

\* Where the statement after the first n may stand: what the last one opens is not left empty, but
\* an else block may be; a branch that has been left is not entered again.
Contexts(text, n) ==
  IF n = 0 THEN {{}}
  ELSE LET d      == text[n].in
           opened == CASE text[n].st.op = "IF"   -> {<<n, "then">>}
                       [] text[n].st.op = "LOOP" -> {<<n, "body">>}
                       [] OTHER                  -> {}
           elses  == {<<k, "else">> : k \in {i \in 1..n : <<i, "then">> \in d}}
       IN IF opened # {} THEN {d \cup opened}
          ELSE {d} \cup {text[b[1]].in : b \in d} \cup {text[b[1]].in \cup {b} : b \in elses}

\* addInsertStatement declares the variable it assigns (addTempVariable): nothing before it can name
\* the variable, and no statement after it declares it again.
Mentions(st, v) == v \in {st.on, st.to}
Declared(text, v) ==
  \A i, j \in DOMAIN text :
    i < j /\ text[j].st.op = "CREATE" /\ text[j].st.to = v => ~Mentions(text[i].st, v)

Assigned(text, v) == \E i \in DOMAIN text : text[i].st.to = v

\* What a CREATE assigns no other statement assigns.
OnlyCreated(text, v) ==
  \A i, j \in DOMAIN text :
    text[i].st.op = "CREATE" /\ text[i].st.to = v /\ text[j].st.to = v => i = j

Writable(text) ==
  /\ \A i \in DOMAIN text : text[i].in \in Contexts(text, i - 1)
  /\ \A v \in Variables : Declared(text, v) /\ (Reassign \/ OnlyCreated(text, v))

Closed(text) == text # <<>> => text[Len(text)].st.op \notin {"IF", "LOOP"}

ASSUME InjectorAssumption ==
  /\ MainTypes \subseteq Types /\ Main \notin DOMAIN Library
  /\ Constants \subseteq Attributes
  /\ Attributes \cap Variables = {}    \* isValidVarAddition
  /\ None \notin Names \cup Types
  /\ Root \in Known /\ Known \cap New = {} /\ Nil \notin Records
  /\ MaxSize \in Nat /\ Reassign \in BOOLEAN
  /\ \A f \in DOMAIN Library :
       /\ Library[f].type \in Types /\ Library[f].returns \in BOOLEAN
       /\ Library[f].text \in Texts /\ Writable(Library[f].text)

------------------------------------------------------------------------------
(* The pass.  Its state: where the lock for a name has been placed, in     *)
(* front of which statement, if it is in scope (lock_placed), the lock in  *)
(* front of each statement, what each call knows of its record, and the    *)
(* traits of names (traits_in_scope).  An attribute_info is a pair of a    *)
(* type and the name of an attribute or variable.                          *)

NoInfo == <<None, None>>
Infos  == (Types \X Names) \cup {NoInfo}

NoTrait == [is_nascent |-> FALSE, is_const |-> FALSE, source_var |-> NoInfo]

Empty(text) ==
  [placed |-> [x \in Infos |-> 0], locks |-> [i \in DOMAIN text |-> "none"],
   nascent |-> [i \in DOMAIN text |-> FALSE], traits |-> [x \in Infos |-> NoTrait]]

\* A block starts with the locks of the block around it, and those it places end with it; traits
\* and changes of older locks stay.
InScope(s, text, i) ==
  [s EXCEPT !.placed = [x \in Infos |-> IF s.placed[x] # 0 /\ text[s.placed[x]].in \subseteq text[i].in
                                        THEN s.placed[x] ELSE 0]]

Needless(s, x) == s.traits[x].is_const \/ s.placed[s.traits[x].source_var] # 0

Lock(s, i, x, mode) == [s EXCEPT !.locks[i] = mode, !.placed[x] = i]

\* A shared lock that is there serves for a write, too.
FaultyPlaceLock(s, i, x, exclusive) ==
  IF s.placed[x] # 0 \/ Needless(s, x) THEN s
  ELSE Lock(s, i, x, IF exclusive THEN "exclusive" ELSE "shared")

\* placeLockIfAbsent; a lock statement that is there becomes exclusive if it has to, wherever it is.
PlaceLock(s, i, x, exclusive) ==
  IF s.placed[x] # 0 THEN IF exclusive THEN [s EXCEPT !.locks[s.placed[x]] = "exclusive"] ELSE s
  ELSE IF Needless(s, x) THEN s
  ELSE Lock(s, i, x, IF exclusive THEN "exclusive" ELSE "shared")

\* injectCC_statementBlock, by the type of the statement; nascent: the record of the function was
\* created by the running transaction.
InjectRead(s, i, st, type, nascent) ==
  LET x == <<type, st.attr>>
      t == [s EXCEPT !.traits = [@ EXCEPT ![x].is_const = st.attr \in Constants,
                                          ![<<type, st.to>>].source_var = x]]
  IN IF nascent THEN t ELSE PlaceLock(t, i, x, FALSE)

InjectReadIndexed(s, st, type) == [s EXCEPT !.traits = [@ EXCEPT ![<<type, st.to>>].is_const = TRUE]]

InjectUpdate(s, i, st, type, nascent) ==
  LET x == <<type, st.attr>>
      t == IF nascent THEN s ELSE PlaceLock(s, i, x, TRUE)
  IN [t EXCEPT !.traits = [@ EXCEPT ![x].is_nascent = FALSE]]

InjectCreate(s, st) == [s EXCEPT !.traits = [@ EXCEPT ![<<st.type, st.to>>].is_nascent = TRUE]]

\* The callee is a clone, injected for what is known of the record.
InjectCall(s, i, st, nascent) ==
  LET x     == <<st.type, st.on>>
      fresh == s.traits[x].is_nascent
      t     == [s EXCEPT !.nascent[i] = fresh]
  IN IF nascent \/ fresh THEN t ELSE PlaceLock(t, i, x, FALSE)

Inject(s, i, st, type, nascent) ==
  CASE st.op = "READ"         -> InjectRead(s, i, st, type, nascent)
    [] st.op = "READ_INDEXED" -> InjectReadIndexed(s, st, type)
    [] st.op = "UPDATE"       -> InjectUpdate(s, i, st, type, nascent)
    [] st.op = "CREATE"       -> InjectCreate(s, st)
    [] st.op = "CALL"         -> InjectCall(s, i, st, nascent)
    [] OTHER                  -> s

\* injectCC_function: a function starts with no locks and no traits.
InjectFunction(text, type, nascent) ==
  LET pass[i \in 0..Len(text)] ==
        IF i = 0 THEN Empty(text)
        ELSE Inject(InScope(pass[i - 1], text, i), i, text[i].st, type, nascent)
      s == pass[Len(text)]
  IN [locks |-> s.locks, nascent |-> s.nascent]

Clones == [f \in DOMAIN Library |-> [nascent \in BOOLEAN |->
             InjectFunction(Library[f].text, Library[f].type, nascent)]]

------------------------------------------------------------------------------
VARIABLES
  phase,    \* "write" or "run"
  program,  \* the text of Main, as far as it is written
  code,     \* its locks, once injected
  frames,   \* the functions that run: the last one, and whom it was called by
  held      \* how the transaction holds each record: "none", "shared", "exclusive"

vars == <<phase, program, code, frames, held>>

NoCode == [locks |-> <<>>, nascent |-> <<>>]

Init ==
  /\ phase = "write" /\ program = <<>> /\ code = NoCode /\ frames = <<>>
  /\ held = [r \in Records |-> "none"]

AddStatement(st) ==
  /\ phase = "write" /\ Len(program) < MaxSize
  /\ \E c \in Contexts(program, Len(program)) : program' = Append(program, [st |-> st, in |-> c])
  /\ Writable(program') /\ (Closed(program') \/ Len(program') < MaxSize)
  /\ UNCHANGED <<phase, code, frames, held>>

\* An argument refers to any record; what the function assigns refers to none at first.
Arguments(text) ==
  {w \in [Variables -> Records \cup {Nil}] : \A v \in Variables :
     w[v] # Nil <=> (\E i \in DOMAIN text : text[i].st.on = v) /\ ~Assigned(text, v)}

Frame(f, nascent, r, w) ==
  [fn |-> f, nascent |-> nascent, at |-> 1, locked |-> FALSE, taken |-> {}, this |-> r, value |-> w]

InjectAndRun ==
  /\ phase = "write" /\ Closed(program) /\ phase' = "run"
  /\ \E type \in MainTypes : code' = InjectFunction(program, type, FALSE)
  /\ \E w \in Arguments(program) : frames' = <<Frame(Main, FALSE, Root, w)>>
  /\ UNCHANGED <<program, held>>

TextOf(f) == IF f = Main THEN program ELSE Library[f].text
CodeOf(f, nascent) == IF f = Main THEN code ELSE Clones[f][nascent]

\* The running function, the statement it is at, and the lock in front of that.
Top   == frames[Len(frames)]
Text  == TextOf(Top.fn)
Run   == frames # <<>> /\ Top.at <= Len(Text)
St    == Text[Top.at].st
Ahead == CodeOf(Top.fn, Top.nascent).locks[Top.at]

At(op) == Run /\ (Top.locked \/ Ahead = "none") /\ St.op = op

RunLock ==
  /\ Run /\ ~Top.locked /\ Ahead # "none"
  /\ held' = [held EXCEPT ![Top.this] = IF @ = "exclusive" THEN @ ELSE Ahead]
  /\ frames' = [frames EXCEPT ![Len(frames)].locked = TRUE]
  /\ UNCHANGED <<phase, program, code>>

\* j is next behind i among those all of whose branches have been taken, or the end.
Follows(text, i, taken, j) ==
  /\ i < j /\ (j <= Len(text) => text[j].in \subseteq taken)
  /\ \A k \in (i + 1)..(j - 1) : ~(text[k].in \subseteq taken)

\* The loops whose bodies end before j.
Ending(text, taken, j) ==
  {k \in DOMAIN text : <<k, "body">> \in taken /\ (j <= Len(text) => <<k, "body">> \notin text[j].in)}

\* The frame the running function goes on with, once it has taken these branches and has these values.
Onward(taken, w) ==
  {LET loops == Ending(Text, taken, j)
       last  == CHOOSE k \in loops : \A l \in loops : l <= k
   IN [Top EXCEPT !.locked = FALSE, !.value = w, !.at = IF loops = {} THEN j ELSE last,
                  !.taken = IF loops = {} THEN taken ELSE Text[last].in]
   : j \in {i \in 1..(Len(Text) + 1) : Follows(Text, Top.at, taken, i)}}

GoOn(taken, w) ==
  /\ \E f \in Onward(taken, w) : frames' = [frames EXCEPT ![Len(frames)] = f]
  /\ UNCHANGED <<phase, program, code, held>>

Assign(v, r) == [Top.value EXCEPT ![v] = r]

\* An attribute or an index gives any record, or none.
RunRead ==
  /\ At("READ") \/ At("READ_INDEXED")
  /\ \E r \in Records \cup {Nil} : GoOn(Top.taken, Assign(St.to, r))

RunUpdate == At("UPDATE") /\ GoOn(Top.taken, Top.value)

RunCreate == At("CREATE") /\ \E r \in New : GoOn(Top.taken, Assign(St.to, r))

RunIf == At("IF") /\ \E b \in {"then", "else"} : GoOn(Top.taken \cup {<<Top.at, b>>}, Top.value)

RunLoop ==
  /\ At("LOOP")
  /\ \E taken \in {Top.taken, Top.taken \cup {<<Top.at, "body">>}} : GoOn(taken, Top.value)

\* A call on no record ends the run.  What the callee will return is chosen here.
RunCall ==
  /\ At("CALL") /\ Top.value[St.on] # Nil
  /\ LET w == IF St.to = None THEN {Top.value} ELSE {Assign(St.to, r) : r \in Records \cup {Nil}}
         fresh == CodeOf(Top.fn, Top.nascent).nascent[Top.at]
     IN \E f \in UNION {Onward(Top.taken, u) : u \in w}, v \in Arguments(Library[St.fn].text) :
          frames' = Append([frames EXCEPT ![Len(frames)] = f], Frame(St.fn, fresh, Top.value[St.on], v))
  /\ UNCHANGED <<phase, program, code, held>>

\* At its end, or before; then its caller runs again.
Return ==
  /\ frames # <<>> /\ (At("YIELD") \/ Top.at > Len(Text))
  /\ frames' = Front(frames)
  /\ UNCHANGED <<phase, program, code, held>>

Next ==
  \/ \E st \in Statements : AddStatement(st)
  \/ InjectAndRun
  \/ RunLock \/ RunRead \/ RunUpdate \/ RunCreate \/ RunIf \/ RunLoop \/ RunCall \/ Return

Spec == Init /\ [][Next]_vars
------------------------------------------------------------------------------
\* On every path of every injected function and its callees, a record that others know is read under
\* a lock and written under an exclusive one (placeLockIfAbsent, the traits, the clones of callees).
Guarded ==
  (Run /\ Top.this \notin New) =>
    /\ At("READ") => St.attr \in Constants \/ held[Top.this] # "none"
    /\ At("UPDATE") => held[Top.this] = "exclusive"
==============================================================================
