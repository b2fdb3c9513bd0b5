------------------------------- MODULE Builders --------------------------------
(***************************************************************************)
(* The builder API, the optimisation passes and what LLVMCodegen builds of *)
(* a tree of builders.  A builder holds its attributes, its functions and  *)
(* the types it registered, which it may share with other builders.  Of a  *)
(* function's statements only what they use is kept, and whether it is in  *)
(* a loop: the passes do not look into loops, the code generator does.     *)
(* A failed CHECK or assertion ends the process (aborted); a call that     *)
(* throws changes nothing and is not a step.                               *)
(***************************************************************************)
EXTENDS Naturals, Sequences, SequencesExt

CONSTANTS
  Objects,     \* the Builder objects
  Tops,        \* those that clients run the passes on and build
  NameOrder,   \* the names of types, as std::map orders them
  FnOrder,     \* the names of functions, likewise
  AttrOrder,   \* the names of attributes, likewise
  Skeletons,   \* the trees of builders to start from
  Statements,  \* the statements a client may add
  Edits,       \* the attributes it may add: <<name, [category, type, of, key]>>
  MaxEdits,    \* bound: the calls that change a builder before the passes and build()
  NoObject

VARIABLES
  builders,    \* Builder: name, attributes, functions, registered_subtypes
  code,        \* codegen_engine after build(): what it knows of each type; <<>> before
  aborted, edits

vars == <<builders, code, aborted, edits>>

TypeNames == Range(NameOrder)
FnNames   == Range(FnOrder)
AttrNames == Range(AttrOrder)

Use(op, on, fn, in_loop) == [op |-> op, on |-> on, fn |-> fn, in_loop |-> in_loop]

Subtypes(bs, b) == Range(bs[b].registered_subtypes)

\* The builder and everything registered below it: the least set that has both.
Tree(bs, b) ==
  {o \in Objects : \A S \in SUBSET Objects :
     b \in S /\ (\A p \in S : Subtypes(bs, p) \subseteq S) => o \in S}

Registered(bs) == [o \in Objects |-> bs[o].registered_subtypes]

\* What w has for each registered type, one after the other in the order of the names.
Joined(D, w) ==
  LET upto[i \in 0..Len(NameOrder)] ==
        IF i = 0 THEN <<>>
        ELSE IF NameOrder[i] \in DOMAIN D THEN upto[i - 1] \o w[D[NameOrder[i]]] ELSE upto[i - 1]
  IN upto[Len(NameOrder)]

\* Down from b through what is registered: each type before what is below it, or after.  No type is
\* below itself, so that no way down is longer than this.
Walk(subs, b, before) ==
  LET walk[n \in 0..Cardinality(Objects)] ==
        IF n = 0 THEN [o \in Objects |-> <<o>>]
        ELSE [o \in Objects |-> LET below == Joined(subs[o], walk[n - 1])
                                IN IF before THEN <<o>> \o below ELSE below \o <<o>>]
  IN walk[Cardinality(Objects)][b]

\* for_each_statement over for_each_function: loop bodies are not entered.
Visited(bs, b) == {u \in UNION Range(bs[b].functions) : ~u.in_loop}
All(bs, b)     == UNION Range(bs[b].functions)

Calls(us)      == {u \in us : u.op = "METHOD_CALL"}
OnAttribute(us) == {u \in us : u.op \notin {"METHOD_CALL", "CREATE"}}
------------------------------------------------------------------------------
(* What builders are made of *)

Partial(f, S, T) == DOMAIN f \subseteq S /\ f \in [DOMAIN f -> T]

Uses ==
  {u \in [op : {"READ", "UPDATE", "READ_INDEXED", "INSERT_INDEXED", "REMOVE_INDEXED", "CREATE", "METHOD_CALL"},
          on : Objects \cup TypeNames \cup AttrNames, fn : FnNames \cup {""}, in_loop : BOOLEAN] :
     u.op = "METHOD_CALL" => u.on \in Objects /\ u.fn \in FnNames}

Declared(d) == {<<a, d.attributes[a]>> : a \in DOMAIN d.attributes}

\* The attributes there are at the start or may be added, each with its name.
Attributes == Edits \cup UNION {Declared(bs[o]) : bs \in Skeletons, o \in Objects}

Builder(d) ==
  /\ d = [name |-> d.name, attributes |-> d.attributes, functions |-> d.functions,
          registered_subtypes |-> d.registered_subtypes]
  /\ d.name \in TypeNames
  /\ Partial(d.attributes, AttrNames, {e[2] : e \in Attributes})
  /\ Declared(d) \subseteq Attributes
  /\ Partial(d.functions, FnNames, SUBSET Uses)
  /\ Partial(d.registered_subtypes, TypeNames, Objects)

\* Types; a type is registered under its name and not below itself.
Described(bs) ==
  /\ bs = [o \in Objects |-> bs[o]]
  /\ \A o \in Objects :
       /\ Builder(bs[o])
       /\ \A n \in DOMAIN bs[o].registered_subtypes : bs[bs[o].registered_subtypes[n]].name = n
       /\ \A c \in Subtypes(bs, o) : o \notin Tree(bs, c)
------------------------------------------------------------------------------
(* BuilderOptPasses *)

\* What b calls of its subtypes, by the name of the type.
FnUsage(bs, b, n) == {u.fn : u \in {c \in Calls(Visited(bs, b)) : bs[c.on].name = n}}

\* "Method call to an unregistered type in builder?"
CallsRegistered(bs, b) ==
  \A u \in Calls(Visited(bs, b)) : bs[u.on].name \in DOMAIN bs[b].registered_subtypes

\* dropAllFunctionsExceptList on each subtype
DropUnused(bs, b) ==
  [o \in Objects |->
     IF o \in Subtypes(bs, b)
     THEN [bs[o] EXCEPT !.functions = Restrict(@, DOMAIN @ \cap FnUsage(bs, b, bs[o].name))]
     ELSE bs[o]]

RemoveUnused(r, b) ==
  IF ~r.ok \/ Subtypes(r.bs, b) = {} THEN r
  ELSE IF ~CallsRegistered(r.bs, b) THEN [r EXCEPT !.ok = FALSE]
  ELSE [r EXCEPT !.bs = DropUnused(@, b)]

\* A type is cleaned only after those below it.
FaultyPassed(bs, b) ==
  LET types == Walk(Registered(bs), b, FALSE)
      pass[i \in 0..Len(types)] ==
        IF i = 0 THEN [ok |-> TRUE, bs |-> bs] ELSE RemoveUnused(pass[i - 1], types[i])
  IN pass[Len(types)]

\* opt_pass_remove_unused_functions_from_composite_types(true): a type is cleaned before it is
\* counted what its functions call.
Passed(bs, b) ==
  LET types == Walk(Registered(bs), b, TRUE)
      pass[i \in 0..Len(types)] ==
        IF i = 0 THEN [ok |-> TRUE, bs |-> bs] ELSE RemoveUnused(pass[i - 1], types[i])
  IN pass[Len(types)]

\* Only what is read counts.
FaultyUsed(bs, b) == {u.on : u \in {v \in Visited(bs, b) : v.op = "READ"}}

\* AttributeStats: plain reads and updates; the statements on lists and indexes do not count.
Used(bs, b) == {u.on : u \in {v \in Visited(bs, b) : v.op \in {"READ", "UPDATE"}}}

First(order, S) == order[CHOOSE i \in DOMAIN order : order[i] \in S /\ \A j \in 1..(i - 1) : order[j] \notin S]

\* opt_pass_removeUnusedAttributes erases from the map it iterates over.  The first attribute that
\* is not used goes; the iterator is then dangling and the loop may miss any of the others.
Removals(bs, b) ==
  LET unused == DOMAIN bs[b].attributes \ Used(bs, b)
  IN IF unused = {} THEN {{}} ELSE {S \in SUBSET unused : First(AttrOrder, unused) \in S}

\* The builders whose attributes runAll looks at: the builder and its direct subtypes.
Cleaned(bs, b) == {b} \cup Subtypes(bs, b)

RemoveAttributes(bs, gone) ==
  [o \in Objects |-> IF o \in DOMAIN gone
                      THEN [bs[o] EXCEPT !.attributes = Restrict(@, DOMAIN @ \ gone[o])] ELSE bs[o]]

\* What opt_pass_removeUnusedAttributes may leave of them.
Cleanings(bs, b) ==
  {RemoveAttributes(bs, gone) :
     gone \in {g \in [Cleaned(bs, b) -> UNION {Removals(bs, o) : o \in Cleaned(bs, b)}] :
                 \A o \in Cleaned(bs, b) : g[o] \in Removals(bs, o)}}
------------------------------------------------------------------------------
(* LLVMCodegen: what build() makes of a builder, and what it insists on *)

Layout(d) == [a \in DOMAIN d.attributes |-> d.attributes[a].type]
Lists(d)  == {a \in DOMAIN d.attributes : d.attributes[a].category = "ARRAY_LIST"}

\* The type of the elements is looked for under the name of the attribute.
FaultyListInfo(bs, d, a) == [of |-> a, fixed |-> d.attributes[a].key = ""]

\* What the constructor does about a list: the type whose table it needs, and whether it fills it.
ListInfo(bs, d, a) == [of |-> bs[d.attributes[a].of].name, fixed |-> d.attributes[a].key = ""]

\* buildConstructorInner: the storage of every list attribute is that of a type built before, and
\* createIndexMap needs the type of the key attribute.
ConstructorBuilds(bs, b, built) ==
  \A a \in Lists(bs[b]) :
    LET at == bs[b].attributes[a]
    IN /\ <<bs[at.of].name, "_init_storage">> \in built
       /\ at.key # "" => at.key \in DOMAIN bs[at.of].attributes

\* buildStatement: attributes are those the builder has now, callees and constructors are looked
\* up by name among the functions built so far.
StatementBuilds(bs, b, built, u) ==
  CASE u.op = "METHOD_CALL" -> <<bs[u.on].name, u.fn>> \in built
    [] u.op = "CREATE" -> /\ u.on \in DOMAIN bs[b].registered_subtypes
                          /\ <<u.on, "_constructor_inner">> \in built
    [] OTHER -> u.on \in DOMAIN bs[b].attributes

Before(f) == {FnOrder[i] : i \in {j \in DOMAIN FnOrder : \A k \in 1..j : FnOrder[k] # f}}

Own(d, fs) == {<<d.name, f>> : f \in fs}

Storage(d) == IF DOMAIN d.attributes = {} THEN {} ELSE {"_init_storage"}

\* LLVMCodegen::build: the storage, the constructor, then the functions in the order of their
\* names; built is what there is before.
BuildsType(bs, b, built) ==
  LET d           == bs[b]
      stored      == built \cup Own(d, Storage(d))
      constructed == stored \cup Own(d, {"_constructor_inner"})
  IN /\ ConstructorBuilds(bs, b, stored)
     /\ \A f \in DOMAIN d.functions : \A u \in d.functions[f] :
          StatementBuilds(bs, b, constructed \cup Own(d, Before(f) \cap DOMAIN d.functions), u)

\* userFunctions of the codegen engine after it
Makes(d) == Own(d, Storage(d) \cup {"_constructor_inner"} \cup DOMAIN d.functions)

\* build_no_jit: the registered types, then the type itself, none twice.
Builds(bs, b) ==
  LET types == Walk(Registered(bs), b, FALSE)
  IN \A i \in DOMAIN types :
       /\ \A j \in 1..(i - 1) : bs[types[j]].name # bs[types[i]].name
       /\ BuildsType(bs, types[i], UNION {Makes(bs[types[j]]) : j \in 1..(i - 1)})

TypeCode(bs, d) == [layout  |-> Layout(d),
                    lists   |-> [a \in Lists(d) |-> ListInfo(bs, d, a)],
                    creates |-> {u.on : u \in {v \in UNION Range(d.functions) : v.op = "CREATE"}}]

\* What the codegen engine then knows of each type.
BuildNoJit(bs, b) ==
  LET types == Range(Walk(Registered(bs), b, FALSE))
  IN [n \in {bs[o].name : o \in types} |-> TypeCode(bs, bs[CHOOSE o \in types : bs[o].name = n])]
------------------------------------------------------------------------------
(* The API.  A client never asks for what the API refuses. *)

Init ==
  /\ builders \in Skeletons
  /\ code = [b \in Objects |-> <<>>]
  /\ aborted = FALSE /\ edits = 0

With(f, x, v) == [y \in DOMAIN f \cup {x} |-> IF y = x THEN v ELSE f[y]]

Edit(bs) ==
  /\ ~aborted /\ edits < MaxEdits
  /\ builders' = bs
  /\ edits' = edits + 1
  /\ UNCHANGED <<code, aborted>>

\* createType registers an object that is new, registerType one that may be shared.
\* Bound: no type is registered below itself.
RegisterType(b, o) ==
  /\ builders[o].name \notin DOMAIN builders[b].registered_subtypes
  /\ b \notin Tree(builders, o)
  /\ Edit([builders EXCEPT ![b].registered_subtypes = With(@, builders[o].name, o)])

\* addAttribute, addAttributePtr, addAttributeArray, addAttributeIndexedList
AddAttribute(b, a, at) ==
  /\ a \notin DOMAIN builders[b].attributes
  /\ at.category = "ARRAY_LIST" =>
       IF at.key = "" THEN builders[at.of].name \in DOMAIN builders[b].registered_subtypes
       ELSE at.key \in DOMAIN builders[at.of].attributes
  /\ Edit([builders EXCEPT ![b].attributes = With(@, a, at)])

WithFunction(b, f, uses) ==
  /\ f \notin DOMAIN builders[b].functions
  /\ Edit([builders EXCEPT ![b].functions = With(@, f, uses)])

CreateFunction(b, f) == WithFunction(b, f, {})

Primitive(b, a) == builders[b].attributes[a].category = "PRIMITIVE"

GenerateGetter(b, a) == Primitive(b, a) /\ WithFunction(b, "get_" \o a, {Use("READ", a, "", FALSE)})
GenerateSetter(b, a) == Primitive(b, a) /\ WithFunction(b, "set_" \o a, {Use("UPDATE", a, "", FALSE)})

\* What StatementBuilder checks.  The callee's type need not be registered, and neither need the
\* attribute of an indexed statement, nor that of an update by an expression.
Accepts(b, u) ==
  LET attr(c) == u.on \in DOMAIN builders[c].attributes
      list(c) == attr(c) /\ builders[c].attributes[u.on].category = "ARRAY_LIST"
  IN CASE u.op = "READ"   -> attr(b)
       [] u.op = "UPDATE" -> \E c \in Objects : attr(c) /\ ~list(c)
       [] u.op = "READ_INDEXED" -> \E c \in Objects : list(c)
       [] u.op \in {"INSERT_INDEXED", "REMOVE_INDEXED"} ->
            \E c \in Objects : /\ list(c)
                               /\ LET at == builders[c].attributes[u.on]
                                  IN at.key # "" /\ at.key \in DOMAIN builders[at.of].attributes
       [] u.op = "CREATE" -> u.on \in DOMAIN builders[b].registered_subtypes
       [] u.op = "METHOD_CALL" -> u.fn \in DOMAIN builders[u.on].functions

AddStatement(b, f, u) ==
  /\ f \in DOMAIN builders[b].functions /\ Accepts(b, u)
  /\ u \notin builders[b].functions[f]
  /\ Edit([builders EXCEPT ![b].functions[f] = @ \cup {u}])

Abort == aborted' = TRUE /\ UNCHANGED <<builders, code, edits>>

\* AttributeStats asserts that what is used is an attribute.
StatsFail(bs, b) ==
  \E o \in Cleaned(bs, b) : DOMAIN bs[o].attributes # {} /\ ~(Used(bs, o) \subseteq DOMAIN bs[o].attributes)

\* BuilderOptPasses(b).runAll()
RunAll(b) ==
  /\ ~aborted
  /\ LET r     == Passed(builders, b)
         fails == ~r.ok \/ StatsFail(r.bs, b)
     IN \/ fails /\ Abort
        \/ /\ ~fails
           /\ builders' \in Cleanings(r.bs, b)
           /\ UNCHANGED <<code, aborted, edits>>
        \* the dangling iterator
        \/ ~fails /\ Cleanings(r.bs, b) # {r.bs} /\ Abort

\* Builder::build throws when it is called again.
Build(b) ==
  /\ ~aborted /\ code[b] = <<>>
  /\ IF Builds(builders, b)
     THEN /\ code' = [code EXCEPT ![b] = BuildNoJit(builders, b)]
          /\ UNCHANGED <<builders, aborted, edits>>
     ELSE Abort

Next ==
  \E b \in Objects :
    \/ \E o \in Objects : RegisterType(b, o)
    \/ \E e \in Edits : AddAttribute(b, e[1], e[2])
    \/ \E f \in FnNames : CreateFunction(b, f)
    \/ \E a \in DOMAIN builders[b].attributes : GenerateGetter(b, a) \/ GenerateSetter(b, a)
    \/ \E f \in FnNames, u \in Statements : AddStatement(b, f, u)
    \/ b \in Tops /\ (RunAll(b) \/ Build(b))

Spec == Init /\ [][Next]_vars
------------------------------------------------------------------------------
(* What the passes promise *)

Functions(bs) == UNION {{<<o, f>> : f \in DOMAIN bs[o].functions} : o \in Objects}

CalledFrom(bs, p) == {<<u.on, u.fn>> : u \in {v \in bs[p[1]].functions[p[2]] : v.op = "METHOD_CALL" /\ ~v.in_loop}}

\* The functions <<type, function>> reached from those of b by calls outside loops.
Reached(bs, b) ==
  {p \in Functions(bs) : \A S \in SUBSET Functions(bs) :
     /\ \A f \in DOMAIN bs[b].functions : <<b, f>> \in S
     /\ \A q \in S : CalledFrom(bs, q) \cap Functions(bs) \subseteq S
     => p \in S}

\* Every type below b is registered once, under a name of its own, and every type calls only the
\* functions of the types it registered.
Orderly(bs, b) ==
  LET T == Tree(bs, b)
  IN /\ \A o, p \in T : bs[o].name = bs[p].name => o = p
     /\ \A o, p, q \in T : o \in Subtypes(bs, p) \cap Subtypes(bs, q) => p = q
     /\ \A o \in T : \A u \in Calls(All(bs, o)) : u.on \in Subtypes(bs, o)

\* What the functions that are reached do to the attributes and functions they use is also done
\* by a plain read, update or call outside loops; so is what the lists of the tree need of their
\* elements: an attribute, and the key.
Counts(bs, b) ==
  LET reached  == Reached(bs, b)
      uses(o)  == UNION {bs[o].functions[f] : f \in {g \in DOMAIN bs[o].functions : <<o, g>> \in reached}}
      plain(o) == {u.on : u \in {v \in uses(o) : v.op \in {"READ", "UPDATE"} /\ ~v.in_loop}}
  IN /\ \A o \in Tree(bs, b) : \A u \in Calls(uses(o)) : [u EXCEPT !.in_loop = FALSE] \in uses(o)
     /\ \A o \in Cleaned(bs, b) : \A u \in OnAttribute(uses(o)) : u.on \in plain(o)
     /\ \A o \in Tree(bs, b) : \A a \in Lists(bs[o]) :
          LET at == bs[o].attributes[a]
          IN /\ \A p \in Cleaned(bs, b) : bs[p].name = bs[at.of].name => plain(p) # {}
             /\ at.of \in Cleaned(bs, b) /\ at.key # "" => at.key \in plain(at.of)

\* opt_pass_remove_unused_functions_from_composite_types(recursive): in an orderly tree exactly
\* the functions that b reaches through calls outside loops are left, however deep, and builders
\* outside the tree are as they were.
KeepsReached ==
  [][\A b \in Tops : RunAll(b) /\ ~aborted' /\ Orderly(builders, b) =>
       LET tree    == Tree(builders, b)
           reached == Reached(builders, b)
       IN \A o \in Objects :
            IF o \in tree
            THEN DOMAIN builders'[o].functions =
                   {f \in DOMAIN builders[o].functions : b = o \/ <<o, f>> \in reached}
            ELSE builders'[o] = builders[o]]_vars

\* "remove absolutely unused attributes": what could be built before the passes can be built after
\* them, if the tree is orderly and all that is used counts.  Without the second condition it need
\* not be so: uses in loops, the statements on lists and indexes and the keys do not count.
StaysBuildable ==
  [][\A b \in Tops : RunAll(b) /\ ~aborted' /\ Orderly(builders, b) /\ Counts(builders, b) =>
       \A o \in Tree(builders, b) : Builds(builders, o) => Builds(builders', o)]_vars
==============================================================================
