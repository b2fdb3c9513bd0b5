------------------------------- MODULE Instances -------------------------------
(***************************************************************************)
(* The instances of data structures.  Clients have built types (code);     *)
(* then threads create instances concurrently with the generated           *)
(* constructors, which make the tables of their types through              *)
(* TableRegistry, insert the main record, and make the storage of every    *)
(* list attribute; functions that are called on an instance create records *)
(* of its types in the same way.  Clear comes between the uses of data     *)
(* structures, as in the benchmarks.  What the generated code may be is    *)
(* WellFormed; DataStructures has it made by the builders.                 *)
(***************************************************************************)
EXTENDS TableRegistry, Sequences

CONSTANTS Objects,     \* the builders
          AttrOrder,   \* the order of the names of attributes: a sequence
          NoObject,
          MaxCalls     \* bound: the constructor calls

AttrNames == {AttrOrder[i] : i \in DOMAIN AttrOrder}

\* What a constructor makes when it is not at a list.
MainRecord == ""

ASSUME InstancesAssumption == AttrOrder \in Seq(AttrNames) /\ MainRecord \notin AttrNames

VARIABLES
  builders, code,    \* the name of each builder's type, and what it knows of each type; <<>> before
                     \* it is built
  running,   \* the clients have built what they want and create instances from now on
  init,      \* the constructor a thread is in: see Idle
  made,      \* the records there are: whose code made them, their type and table
  calls      \* the constructor calls so far

creating   == <<running, init, made, calls>>
insvars    == <<vars, builders, code, creating>>

\* by: the builder whose code runs; type: what it makes; attr: the list attribute it is at, or
\* MainRecord; left: the list attributes after that; table: what the lookup gave; main: the
\* table of the main record.
Idle == [by |-> NoObject, type |-> NoName, attr |-> MainRecord, left |-> {}, phase |-> "idle",
         table |-> NoTable, main |-> NoTable]

Built(b) == code[b] # <<>>

\* Generated code: whatever it names is there, and it can be instantiated.
WellFormed ==
  \A b \in Objects : Built(b) =>
    /\ DOMAIN code[b] \subseteq Names /\ builders[b].name \in DOMAIN code[b]
    /\ \A n \in DOMAIN code[b] :
         LET ty == code[b][n] IN
         /\ ty.layout \in Layouts /\ ty.creates \subseteq DOMAIN code[b]
         /\ DOMAIN ty.lists \subseteq AttrNames
         /\ \A a \in DOMAIN ty.lists : ty.lists[a].of \in DOMAIN code[b]

InsInit ==
  /\ Init
  /\ running = FALSE
  /\ init = [t \in Threads |-> Idle]
  /\ made = {} /\ calls = 0

\* The clients describe types and build, and at some time start to create instances of them.
Deploy ==
  /\ ~running /\ running' \in BOOLEAN /\ (running' => WellFormed')
  /\ UNCHANGED <<vars, init, made, calls>>
------------------------------------------------------------------------------
(* The generated constructor *)

\* buildConstructorInner for type n; nothing for a type without attributes.
Enters(t, b, n) ==
  /\ running /\ init[t] = Idle /\ created < MaxTables /\ calls < MaxCalls
  /\ calls' = calls + 1
  /\ code[b][n].layout # <<>>
  /\ init' = [init EXCEPT ![t] = [Idle EXCEPT !.by = b, !.type = n, !.phase = "lookup",
                                              !.left = DOMAIN code[b][n].lists]]
  /\ UNCHANGED <<vars, builders, code, running, made>>

\* <type>_constructor, from createInstance
Constructor(t, b) == Built(b) /\ Enters(t, b, builders[b].name)

\* A function of the instance creates a record: <type>_constructor_inner.
Create(t, m, n) == m \in made /\ n \in code[m.by][m.type].creates /\ Enters(t, m.by, n)

Phase(t, p) == init[t].phase = p

\* The list attribute the constructor is at, and the type whose table it needs: its own for the main
\* record, the element type for a list.
ListAt(t) == code[init[t].by][init[t].type].lists[init[t].attr]
Of(t)     == IF init[t].attr = MainRecord THEN init[t].type ELSE ListAt(t).of

\* doesTableExists, then getTable or <type>_init_storage
Lookup(t) ==
  /\ Phase(t, "lookup")
  /\ init' = [init EXCEPT ![t].phase = IF Exists(Of(t)) THEN "get" ELSE "init_storage"]
  /\ UNCHANGED <<vars, builders, code, running, made, calls>>

\* What an earlier call of createTablesInternal returned is taken for the table.
FaultyGet(t) ==
  /\ Phase(t, "get")
  /\ init' = [init EXCEPT ![t].phase = "insert", ![t].table = ret_table_ptr[t]]
  /\ UNCHANGED <<vars, builders, code, running, made, calls>>

Get(t) ==
  /\ Phase(t, "get")
  /\ init' = [init EXCEPT ![t].phase = "insert", ![t].table = ByName(Of(t))]
  /\ UNCHANGED <<vars, builders, code, running, made, calls>>

\* The columns of every table are those of the type that is constructed, the storage of its lists
\* included.
FaultyInitStorage(t) ==
  /\ Phase(t, "init_storage")
  /\ Enter(t, Of(t), code[init[t].by][init[t].type].layout)
  /\ init' = [init EXCEPT ![t].phase = "create"]
  /\ UNCHANGED <<builders, code, running, made, calls>>

\* The registry is asked for the table directly, without the mutex.
FaultyUnguarded(t) ==
  /\ Phase(t, "init_storage") /\ created < MaxTables
  /\ pc' = [pc EXCEPT ![t] = "create"]
  /\ name' = [name EXCEPT ![t] = Of(t)]
  /\ columns' = [columns EXCEPT ![t] = code[init[t].by][Of(t)].layout]
  /\ ret_table_ptr' = [ret_table_ptr EXCEPT ![t] = NoTable]
  /\ init' = [init EXCEPT ![t].phase = "create"]
  /\ UNCHANGED <<registry, create_table_m, cache_map, builders, code, running, made, calls>>

\* genInitStorageFn: the columns are those of the type the code was built of.
InitStorage(t) ==
  /\ Phase(t, "init_storage")
  /\ Enter(t, Of(t), code[init[t].by][Of(t)].layout)
  /\ init' = [init EXCEPT ![t].phase = "create"]
  /\ UNCHANGED <<builders, code, running, made, calls>>

Creating(t) ==
  /\ Phase(t, "create")
  /\ CheckExists(t) \/ GetTable(t) \/ CreateTable(t)
  /\ UNCHANGED <<builders, code, creating>>

Created(t) ==
  /\ Phase(t, "create") /\ Leave(t)
  /\ init' = [init EXCEPT ![t].phase = "insert", ![t].table = ret_table_ptr[t]]
  /\ UNCHANGED <<builders, code, running, made, calls>>

\* initializeArrayAttributes goes through the attributes in the order of their names.
First(S) == AttrOrder[CHOOSE i \in DOMAIN AttrOrder :
                        AttrOrder[i] \in S /\ \A j \in 1..(i - 1) : AttrOrder[j] \notin S]

Advance(t, main) ==
  LET left == init[t].left
      a    == First(left)
  IN init' = [init EXCEPT ![t] = IF left = {} THEN Idle
                                 ELSE [@ EXCEPT !.attr = a, !.left = left \ {a},
                                                !.phase = "lookup", !.main = main]]

Record(t) == [by |-> init[t].by, type |-> Of(t), table |-> init[t].table]

\* insertMainRecord
InsertMain(t) ==
  /\ Phase(t, "insert") /\ init[t].attr = MainRecord
  /\ made' = made \cup {Record(t)}
  /\ Advance(t, init[t].table)
  /\ UNCHANGED <<vars, builders, code, running, calls>>

\* insertNRecords or createIndexMap, and the list attribute of the main record is written, through
\* the cache.
InitList(t) ==
  /\ Phase(t, "insert") /\ init[t].attr # MainRecord
  /\ made' = IF ListAt(t).fixed THEN made \cup {Record(t)} ELSE made
  /\ Resolve(t, init[t].main)
  /\ Advance(t, init[t].main)
  /\ UNCHANGED <<builders, code, running, calls>>

\* A function reads or writes a record.
Access(t, m) == init[t] = Idle /\ Resolve(t, m.table) /\ UNCHANGED <<builders, code, creating>>

\* The instances are of no use after clear().
ClearAll ==
  /\ running /\ \A t \in Threads : init[t] = Idle
  /\ Clear
  /\ made' = {}
  /\ UNCHANGED <<builders, code, running, init, calls>>

Instantiate ==
  \/ \E t \in Threads :
       \/ \E b \in Objects : Constructor(t, b)
       \/ \E m \in made : Access(t, m) \/ \E n \in code[m.by][m.type].creates : Create(t, m, n)
       \/ Lookup(t) \/ Get(t) \/ InitStorage(t) \/ Creating(t) \/ Created(t)
       \/ InsertMain(t) \/ InitList(t)
  \/ ClearAll

InsNext == Deploy \/ Instantiate

InsSpec == InsInit /\ [][InsNext]_insvars
------------------------------------------------------------------------------
\* The composition is a use of the registry like any other.
RegistrySpec == Spec

Constructions ==
  [by : Objects \cup {NoObject}, type : Names \cup {NoName},
   attr : {MainRecord} \cup AttrNames, left : SUBSET AttrNames,
   phase : {"idle", "lookup", "get", "init_storage", "create", "insert"},
   table : Tables \cup {NoTable}, main : Tables \cup {NoTable}]

\* Types; a thread holds the mutex of createTablesInternal only to create a table, and the tables a
\* constructor has found or made are there and have the names of its types.
InsTypeOK ==
  /\ TypeOK
  /\ running \in BOOLEAN /\ init \in [Threads -> Constructions]
  /\ ~running => made = {} /\ created = 0
  /\ made \subseteq [by : {b \in Objects : Built(b)}, type : Names, table : Tables]
  /\ \A t \in Threads :
       /\ Phase(t, "idle") <=> init[t] = Idle
       /\ Phase(t, "create") <=> pc[t] # "out"
       /\ Phase(t, "insert") => init[t].table \in Live /\ table[init[t].table].name = Of(t)
       /\ init[t].attr # MainRecord => init[t].main \in Live /\ table[init[t].main].name = init[t].type

\* "Important!! as the insertRecord takes and directly copies the memory": the memory of a record
\* is laid out by the code that makes it and the table it is put into by the columns it was
\* created with.  They agree, and the table is there and of the type's name, as long as the code of
\* no other builder knows a type of that name with other attributes: tables go by name only.
LayoutAgreement ==
  \A m \in made :
    /\ m.table \in Live /\ table[m.table].name = m.type
    /\ \/ table[m.table].columns = code[m.by][m.type].layout
       \/ \E b \in Objects : /\ Built(b) /\ m.type \in DOMAIN code[b]
                             /\ code[b][m.type].layout = table[m.table].columns
==============================================================================
