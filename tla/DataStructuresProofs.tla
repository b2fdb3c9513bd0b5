------------------------ MODULE DataStructuresProofs -------------------------
(***************************************************************************)
(* Proofs about the registry, the instances and the builders.  First       *)
(* TableRegistry, for every number of threads, names, layouts and tables   *)
(* up to IdSpace: while no id has been given twice, table object x is the  *)
(* one with the id x - 1; everything else follows from that and from the   *)
(* mutex around the test and the creation.                                 *)
(*                                                                         *)
(* Then Instances, for any generated code that is WellFormed and any       *)
(* number of threads: constructors use the registry as TableRegistry has   *)
(* it, so that what is proved there holds here; and what a constructor has *)
(* found out about a table remains so while it runs, since no other step   *)
(* takes a table away.                                                     *)
(*                                                                         *)
(* Then Builders, for any set of builders: what is registered is a graph   *)
(* without cycles, Walk goes through all of the tree below a builder, the  *)
(* pass over the functions follows it and leaves what is reached, and what *)
(* is built of a tree is code in which whatever is named is there.         *)
(***************************************************************************)
EXTENDS DataStructures, FiniteSetTheorems, SequenceTheorems, WellFoundedInduction, TLAPS

\* The x-th table has the id x - 1, and that is the next id to be given, up to the wrap.
IdsInOrder ==
  /\ created < MaxTables => table_id_generator = created
  /\ \A x \in 1..created : table[x].id = x - 1 /\ table[x].name \in Names

\* The two maps of the registry describe the live tables.
MapsAgree ==
  /\ \A x \in Live : tables[x - 1] = x /\ Exists(table[x].name)
                                       /\ table_name_map[table[x].name] = x - 1
  /\ \A i \in Ids : tables[i] # NoTable => tables[i] = i + 1 /\ i + 1 \in Live
  /\ \A n \in DOMAIN table_name_map :
       table_name_map[n] + 1 \in Live /\ table[table_name_map[n] + 1].name = n

\* What the thread inside createTablesInternal has found is still so.
TestHolds ==
  \A t \in Threads : /\ pc[t] # "out" => name[t] \in Names
                     /\ pc[t] = "get" => Exists(name[t])
                     /\ pc[t] = "create" => ~Exists(name[t])

\* A cache names table i + 1 for id i, live or not.
CachesInOrder ==
  \A t \in Threads : \A i \in Ids : cache_map[t][i] \in {NoTable, i + 1}

IInv == TypeOK /\ IdsInOrder /\ MapsAgree /\ TestHolds /\ ReturnedTableRight /\ CachesInOrder

\* The invariant says what the four properties say.
LEMMA Consequences == IInv => OneTablePerName /\ ReturnedTableRight /\ CachesRight
<1> SUFFICES ASSUME IInv PROVE OneTablePerName /\ CachesRight
  BY DEF IInv
<1> USE RegistryAssumption DEF IInv, TypeOK, Tables, Ids, Live
<1>1. ASSUME NEW x \in Live PROVE x \in Nat /\ x - 1 \in Ids /\ table[x].id = x - 1
  BY <1>1 DEF IdsInOrder
<1>2. OneTablePerName
  <2>1. ASSUME NEW x \in Live PROVE ByName(table[x].name) = x
    BY <1>1, <2>1 DEF ByName, MapsAgree
  <2>2. ASSUME NEW x \in Live, NEW y \in Live, table[x].name = table[y].name PROVE x = y
    BY <2>1, <2>2
  <2> QED BY <2>1, <2>2 DEF OneTablePerName
<1>3. CachesRight
  <2> SUFFICES ASSUME NEW t \in Threads, NEW x \in Live
               PROVE cache_map[t][table[x].id] \in {NoTable, x}
    BY DEF CachesRight
  <2>1. cache_map[t][x - 1] \in {NoTable, (x - 1) + 1}
    BY <1>1 DEF CachesInOrder
  <2> QED BY <1>1, <2>1
<1> QED BY <1>2, <1>3

LEMMA InitHolds == Init => IInv
<1> SUFFICES ASSUME Init PROVE IInv
  OBVIOUS
<1> USE RegistryAssumption DEF Init
<1>1. Live = {}
  BY DEF Live
<1>2. TypeOK
  BY DEF TypeOK, Tables, Ids, NoEntry
<1>3. IdsInOrder
  BY DEF IdsInOrder, Tables
<1>4. MapsAgree
  BY <1>1 DEF MapsAgree, Exists, Ids
<1>5. TestHolds /\ ReturnedTableRight /\ CachesInOrder
  BY DEF TestHolds, ReturnedTableRight, CachesInOrder, Ids
<1> QED BY <1>2, <1>3, <1>4, <1>5 DEF IInv
------------------------------------------------------------------------------
(* One lemma for each action that changes the registry or the inside of the critical section. *)

LEMMA EnterKeeps ==
  ASSUME IInv, NEW t \in Threads, NEW n \in Names, NEW cols \in Layouts, Enter(t, n, cols)
  PROVE  IInv'
<1> USE RegistryAssumption DEF IInv, Enter, registry
<1>1. TypeOK'
  BY DEF TypeOK
<1>2. IdsInOrder' /\ MapsAgree' /\ CachesInOrder'
  BY DEF IdsInOrder, MapsAgree, CachesInOrder, Live, Exists
<1>3. TestHolds'
  BY DEF TypeOK, TestHolds, Exists
<1>4. ReturnedTableRight'
  BY DEF TypeOK, ReturnedTableRight, Live
<1> QED BY <1>1, <1>2, <1>3, <1>4

LEMMA CheckExistsKeeps == ASSUME IInv, NEW t \in Threads, CheckExists(t) PROVE IInv'
<1> USE DEF IInv, CheckExists, registry
<1>1. TypeOK'
  BY DEF TypeOK
<1>2. IdsInOrder' /\ MapsAgree' /\ CachesInOrder'
  BY DEF IdsInOrder, MapsAgree, CachesInOrder, Live, Exists
<1>3. TestHolds'
  BY DEF TypeOK, TestHolds, Exists
<1>4. ReturnedTableRight'
  BY DEF TypeOK, ReturnedTableRight, Live
<1> QED BY <1>1, <1>2, <1>3, <1>4

LEMMA GetTableKeeps == ASSUME IInv, NEW t \in Threads, GetTable(t) PROVE IInv'
<1> USE RegistryAssumption DEF IInv, GetTable, registry
<1> DEFINE i == table_name_map[name[t]]
<1>1. i \in Ids /\ i + 1 \in Live /\ table[i + 1].name = name[t]
  BY DEF TypeOK, TestHolds, MapsAgree, Exists
<1>2. ByName(name[t]) = i + 1
  <2>1. tables[(i + 1) - 1] = i + 1
    BY <1>1 DEF MapsAgree
  <2> QED BY <1>1, <2>1 DEF ByName, TestHolds, Ids
<1>3. i + 1 \in Tables
  BY <1>1 DEF Live, TypeOK, Tables, Ids
<1>4. TypeOK'
  BY <1>2, <1>3 DEF TypeOK
<1>5. IdsInOrder' /\ MapsAgree' /\ CachesInOrder'
  BY DEF IdsInOrder, MapsAgree, CachesInOrder, Live, Exists
<1>6. TestHolds'
  BY DEF TypeOK, TestHolds, Exists
<1>7. ReturnedTableRight'
  BY <1>1, <1>2, <1>3 DEF TypeOK, ReturnedTableRight, Live, Tables
<1> QED BY <1>4, <1>5, <1>6, <1>7

\* The mutex: nobody else is inside.
LEMMA Alone ==
  ASSUME TypeOK, NEW t \in Threads, NEW u \in Threads, pc[t] # "out", pc[u] # "out" PROVE t = u
BY DEF TypeOK

LEMMA CreateTableKeeps == ASSUME IInv, NEW t \in Threads, CreateTable(t) PROVE IInv'
<1> USE RegistryAssumption DEF IInv, CreateTable
<1> DEFINE id == table_id_generator
           n  == name[t]
<1>1. created \in Nat /\ created < MaxTables /\ created' = created + 1 /\ id = created /\ id \in Ids
  BY DEF TypeOK, IdsInOrder, Ids
<1>2. n \in Names /\ ~Exists(n)
  BY DEF TestHolds
<1>3. tables[id] = NoTable
  <2> SUFFICES ASSUME tables[id] # NoTable PROVE FALSE
    OBVIOUS
  <2>1. id + 1 \in Live
    BY <1>1 DEF MapsAgree
  <2> QED BY <1>1, <2>1 DEF Live
<1>4. /\ table' = [table EXCEPT ![created + 1] = [id |-> id, name |-> n, columns |-> columns[t],
                                                live |-> TRUE]]
      /\ table_name_map' = [m \in DOMAIN table_name_map \cup {n} |->
                              IF m = n THEN id ELSE table_name_map[m]]
      /\ tables' = [tables EXCEPT ![id] = created + 1]
      /\ created + 1 \in Tables
  BY <1>1, <1>2, <1>3 DEF Tables
<1>5. /\ table'[created + 1] = [id |-> created, name |-> n, columns |-> columns[t], live |-> TRUE]
      /\ \A x \in Tables : x # created + 1 => table'[x] = table[x]
  BY <1>1, <1>4 DEF TypeOK
<1>6. /\ Live' = Live \cup {created + 1} /\ created + 1 \notin Live
      /\ Live \subseteq Tables /\ \A x \in Live : table'[x] = table[x]
  BY <1>1, <1>5 DEF Live, Tables, TypeOK
<1>7. table_id_generator' \in Ids /\ (created' < MaxTables => table_id_generator' = created')
  BY <1>1 DEF NextId, Ids
<1>8. TypeOK'
  <2>1. table' \in [Tables -> [id : Ids, name : Names \cup {NoName},
                             columns : Layouts \cup {NoLayout}, live : BOOLEAN]]
    BY <1>1, <1>2, <1>4 DEF TypeOK
  <2>2. tables' \in [Ids -> Tables \cup {NoTable}]
    BY <1>1, <1>4 DEF TypeOK
  <2>3. /\ DOMAIN table_name_map' \subseteq Names
        /\ table_name_map' \in [DOMAIN table_name_map' -> Ids]
    BY <1>1, <1>2, <1>4 DEF TypeOK
  <2>4. created' \in 0..MaxTables /\ ret_table_ptr' \in [Threads -> Tables \cup {NoTable}]
    BY <1>1, <1>4 DEF TypeOK
  <2>5. /\ pc' \in [Threads -> {"out", "exists", "get", "create", "leave"}]
        /\ \A u \in Threads : create_table_m' = u <=> pc'[u] # "out"
    BY DEF TypeOK
  <2> QED BY <1>7, <2>1, <2>2, <2>3, <2>4, <2>5 DEF TypeOK
<1>9. IdsInOrder'
  <2> SUFFICES ASSUME NEW x \in 1..created'
               PROVE table'[x].id = x - 1 /\ table'[x].name \in Names
    BY <1>7 DEF IdsInOrder
  <2>1. CASE x = created + 1
    BY <1>1, <1>2, <1>5, <2>1
  <2>2. CASE x \in 1..created
    BY <1>1, <1>5, <2>2 DEF IdsInOrder, Tables
  <2> QED BY <1>1, <2>1, <2>2
<1>10. MapsAgree'
  <2>1. ASSUME NEW x \in Live'
        PROVE /\ tables'[x - 1] = x /\ Exists(table[x].name)'
              /\ table_name_map'[table'[x].name] = x - 1
    <3>1. CASE x = created + 1
      <4>1. table'[x].name = n
        BY <1>1, <1>5, <3>1
      <4>2. x - 1 = id
        BY <1>1, <3>1
      <4>3. tables'[id] = x
        BY <1>1, <1>4, <3>1 DEF TypeOK
      <4>4. n \in DOMAIN table_name_map' /\ table_name_map'[n] = x - 1
        BY <1>1, <1>4, <3>1
      <4> HIDE DEF id, n
      <4>5. tables'[x - 1] = x
        BY <4>2, <4>3
      <4> QED BY <4>1, <4>4, <4>5 DEF Exists
    <3>2. CASE x \in Live
      <4>1. /\ tables[x - 1] = x /\ table[x].name \in DOMAIN table_name_map
            /\ table_name_map[table[x].name] = x - 1 /\ x - 1 \in Ids /\ x - 1 # created
        BY <1>1, <3>2 DEF MapsAgree, Exists, Live, Ids
      <4>2. table[x].name # n
        BY <1>2, <4>1 DEF Exists
      <4>3. table'[x] = table[x]
        BY <1>6, <3>2
      <4>4. tables'[x - 1] = x
        BY <1>1, <1>4, <4>1 DEF TypeOK
      <4>5. /\ table[x].name \in DOMAIN table_name_map'
            /\ table_name_map'[table[x].name] = x - 1
        BY <1>4, <4>1, <4>2
      <4> QED BY <4>3, <4>4, <4>5 DEF Exists
    <3> QED BY <1>6, <2>1, <3>1, <3>2
  <2>2. ASSUME NEW i \in Ids, tables'[i] # NoTable PROVE tables'[i] = i + 1 /\ i + 1 \in Live'
    <3>1. CASE i = id
      BY <1>1, <1>4, <1>6, <3>1 DEF TypeOK
    <3>2. CASE i # id
      BY <1>1, <1>4, <1>6, <2>2, <3>2 DEF TypeOK, MapsAgree
    <3> QED BY <3>1, <3>2
  <2>3. ASSUME NEW m \in DOMAIN table_name_map'
        PROVE table_name_map'[m] + 1 \in Live' /\ table'[table_name_map'[m] + 1].name = m
    <3>1. CASE m = n
      BY <1>1, <1>4, <1>5, <1>6, <3>1
    <3>2. CASE m # n
      <4>1. m \in DOMAIN table_name_map /\ table_name_map'[m] = table_name_map[m]
        BY <1>4, <2>3, <3>2
      <4> QED BY <1>6, <4>1 DEF MapsAgree
    <3> QED BY <3>1, <3>2
  <2> QED BY <2>1, <2>2, <2>3 DEF MapsAgree
<1>11. TestHolds'
  <2> SUFFICES ASSUME NEW u \in Threads
               PROVE /\ pc'[u] # "out" => name'[u] \in Names
                     /\ pc'[u] \notin {"get", "create"}
    BY DEF TestHolds
  <2>1. CASE u = t
    BY <1>2, <2>1 DEF TypeOK
  <2>2. CASE u # t
    BY <2>2, Alone DEF TypeOK
  <2> QED BY <2>1, <2>2
<1>12. ReturnedTableRight'
  <2> SUFFICES ASSUME NEW u \in Threads
               PROVE /\ pc'[u] = "leave" => ret_table_ptr'[u] # NoTable
                     /\ ret_table_ptr'[u] # NoTable =>
                          ret_table_ptr'[u] \in Live' /\ table'[ret_table_ptr'[u]].name = name'[u]
    BY DEF ReturnedTableRight
  <2>1. CASE u = t
    BY <1>1, <1>5, <1>6, <2>1 DEF TypeOK
  <2>2. CASE u # t
    BY <1>6, <2>2 DEF TypeOK, ReturnedTableRight
  <2> QED BY <2>1, <2>2
<1>13. CachesInOrder'
  BY DEF CachesInOrder
<1> QED BY <1>8, <1>9, <1>10, <1>11, <1>12, <1>13

LEMMA LeaveKeeps == ASSUME IInv, NEW t \in Threads, Leave(t) PROVE IInv'
<1> USE RegistryAssumption DEF IInv, Leave, registry
<1>1. TypeOK'
  <2>1. \A u \in Threads : create_table_m' = u <=> pc'[u] # "out"
    BY Alone DEF TypeOK
  <2> QED BY <2>1 DEF TypeOK
<1>2. IdsInOrder' /\ MapsAgree' /\ CachesInOrder'
  BY DEF IdsInOrder, MapsAgree, CachesInOrder, Live, Exists
<1>3. TestHolds'
  BY DEF TypeOK, TestHolds, Exists
<1>4. ReturnedTableRight'
  BY DEF TypeOK, ReturnedTableRight, Live
<1> QED BY <1>1, <1>2, <1>3, <1>4

LEMMA ClearKeeps == ASSUME IInv, Clear PROVE IInv'
<1> USE RegistryAssumption DEF IInv, Clear
<1>1. \A x \in Tables : table'[x] = [table[x] EXCEPT !.live = FALSE]
  OBVIOUS
<1>2. 1..created \subseteq Tables /\ Live' = {}
  BY <1>1 DEF Live, Tables, TypeOK
<1>3. TypeOK'
  <2> DEFINE Table == [id : Ids, name : Names \cup {NoName},
                       columns : Layouts \cup {NoLayout}, live : BOOLEAN]
  <2>1. \A x \in Tables : table[x] \in Table
    BY DEF TypeOK
  <2>2. \A x \in Tables : [table[x] EXCEPT !.live = FALSE] \in Table
    BY <2>1
  <2>3. table' \in [Tables -> Table]
    BY <2>2
  <2> QED BY <2>3 DEF TypeOK
<1>4. IdsInOrder'
  BY <1>1, <1>2 DEF IdsInOrder, TypeOK
<1>5. MapsAgree'
  BY <1>2 DEF MapsAgree, Exists
<1>6. TestHolds' /\ ReturnedTableRight' /\ CachesInOrder'
  BY DEF TestHolds, ReturnedTableRight, CachesInOrder
<1> QED BY <1>3, <1>4, <1>5, <1>6

LEMMA ResolveKeeps ==
  ASSUME IInv, NEW t \in Threads, NEW x \in Tables, Resolve(t, x) PROVE IInv'
<1> USE RegistryAssumption DEF IInv, Resolve, registry, call
<1> DEFINE id == table[x].id
<1>1. x \in Nat /\ x \in 1..created /\ id = x - 1 /\ id \in Ids /\ tables[id] = x
  BY DEF Live, IdsInOrder, MapsAgree, Ids, Tables, TypeOK
<1>2. cache_map' = cache_map \/ cache_map' = [cache_map EXCEPT ![t][id] = x]
  BY <1>1
<1>3. TypeOK'
  BY <1>1, <1>2 DEF TypeOK
<1>4. CachesInOrder'
  <2> SUFFICES ASSUME NEW u \in Threads, NEW i \in Ids PROVE cache_map'[u][i] \in {NoTable, i + 1}
    BY DEF CachesInOrder
  <2>1. cache_map'[u][i] = cache_map[u][i] \/ (i = id /\ cache_map'[u][i] = x)
    BY <1>1, <1>2 DEF TypeOK
  <2> QED BY <1>1, <2>1 DEF CachesInOrder
<1>5. IdsInOrder' /\ MapsAgree' /\ TestHolds' /\ ReturnedTableRight'
  BY DEF IdsInOrder, MapsAgree, TestHolds, ReturnedTableRight, Live, Exists
<1> QED BY <1>3, <1>4, <1>5

LEMMA StepHolds == ASSUME IInv, [Next]_vars PROVE IInv'
<1>1. CASE UNCHANGED vars
  BY <1>1 DEF vars, registry, call, IInv, TypeOK, IdsInOrder, MapsAgree, TestHolds,
              ReturnedTableRight, CachesInOrder, Live, Exists
<1>2. CASE Clear
  BY <1>2, ClearKeeps
<1>3. ASSUME NEW t \in Threads, NEW n \in Names, NEW cols \in Layouts, Enter(t, n, cols) PROVE IInv'
  BY <1>3, EnterKeeps
<1>4. ASSUME NEW t \in Threads, CheckExists(t) \/ GetTable(t) \/ CreateTable(t) \/ Leave(t)
      PROVE IInv'
  BY <1>4, CheckExistsKeeps, GetTableKeeps, CreateTableKeeps, LeaveKeeps
<1>5. ASSUME NEW t \in Threads, NEW x \in Tables, Resolve(t, x) PROVE IInv'
  BY <1>5, ResolveKeeps
<1> QED BY <1>1, <1>2, <1>3, <1>4, <1>5 DEF Next
------------------------------------------------------------------------------
LEMMA Inductive == Spec => []IInv
<1>1. IInv /\ [Next]_vars => IInv'
  BY StepHolds
<1> QED BY InitHolds, <1>1, PTL DEF Spec

\* Types, and the mutex is held by the thread inside createTablesInternal.
THEOREM RegistryTypes == Spec => []TypeOK
<1>1. IInv => TypeOK
  BY DEF IInv
<1> QED BY Inductive, <1>1, PTL

\* createTablesInternal: however many threads initialise instances, no two tables have one name.
THEOREM NamesAreUnique == Spec => []OneTablePerName
<1>1. IInv => OneTablePerName
  BY Consequences
<1> QED BY Inductive, <1>1, PTL

\* createTablesInternal returns a table of the name it was asked for.
THEOREM ReturnsItsTable == Spec => []ReturnedTableRight
<1>1. IInv => ReturnedTableRight
  BY DEF IInv
<1> QED BY Inductive, <1>1, PTL

\* RecordReference::getTable: a cache that outlives clear() never leads to a wrong table, while no
\* more tables are created than there are ids.
THEOREM CachesSurviveClear == Spec => []CachesRight
<1>1. IInv => CachesRight
  BY Consequences
<1> QED BY Inductive, <1>1, PTL
------------------------------------------------------------------------------
\* Some code has a type of that name and those columns.
FromCode(e) ==
  \E b \in Objects : Built(b) /\ e.name \in DOMAIN code[b] /\ code[b][e.name].layout = e.columns

\* A constructor is that of a type of its code; the table of the main record is there.
TypeInv(t) ==
  LET c == init[t]
      T == code[c.by]
  IN /\ c.by \in Objects /\ Built(c.by) /\ c.type \in DOMAIN T
     /\ c.left \subseteq DOMAIN T[c.type].lists
     /\ c.attr # MainRecord => /\ c.attr \in DOMAIN T[c.type].lists
                       /\ c.main \in Live /\ table[c.main].name = c.type

\* What a constructor has found out about the table it needs remains so.
FoundInv(t) ==
  /\ Phase(t, "get") => Exists(Of(t))
  /\ Phase(t, "create") => name[t] = Of(t) /\ columns[t] = code[init[t].by][Of(t)].layout
  /\ Phase(t, "insert") => init[t].table \in Live /\ table[init[t].table].name = Of(t)

ThreadInv(t) ==
  /\ Phase(t, "idle") <=> init[t] = Idle
  /\ Phase(t, "create") <=> pc[t] # "out"
  /\ init[t] # Idle => TypeInv(t) /\ FoundInv(t)

RecordInv(m) ==
  /\ m.by \in Objects /\ Built(m.by) /\ m.type \in DOMAIN code[m.by]
  /\ m.table \in Live /\ table[m.table].name = m.type

JInv ==
  /\ running \in BOOLEAN /\ init \in [Threads -> Constructions]
  /\ IF running THEN WellFormed ELSE made = {} /\ created = 0 /\ \A t \in Threads : init[t] = Idle
  /\ made \subseteq [by : Objects, type : Names, table : Tables] /\ \A m \in made : RecordInv(m)
  /\ \A t \in Threads : ThreadInv(t)
  /\ \A x \in Live : FromCode(table[x])

InsInv == IInv /\ JInv

\* The attribute that comes next is one of those that are left.
LEMMA FirstIn == ASSUME NEW S, S \subseteq AttrNames, S # {} PROVE First(S) \in S
<1> DEFINE I == {i \in DOMAIN AttrOrder : AttrOrder[i] \in S}
           R == OpToRel(<, Nat)
<1>1. DOMAIN AttrOrder \subseteq Nat /\ \A i \in DOMAIN AttrOrder : \A j \in 1..(i - 1) : j \in DOMAIN AttrOrder
  <2>1. Len(AttrOrder) \in Nat /\ DOMAIN AttrOrder = 1..Len(AttrOrder)
    BY InstancesAssumption, LenProperties
  <2> QED BY <2>1
<1>2. I \subseteq Nat /\ I # {}
  BY <1>1 DEF AttrNames
<1>3. \A x, y \in Nat : <<x, y>> \in R <=> x < y
  BY DEF OpToRel
<1>4. IsWellFoundedOn(R, Nat)
  BY NatLessThanWellFounded
<1> HIDE DEF R
<1>5. PICK i \in I : \A j \in I : ~(<<j, i>> \in R)
  BY <1>2, <1>4, WFMin
<1>6. i \in DOMAIN AttrOrder /\ AttrOrder[i] \in S /\ \A j \in 1..(i - 1) : AttrOrder[j] \notin S
  <2>1. \A j \in 1..(i - 1) : j \in Nat /\ j < i /\ j \in DOMAIN AttrOrder
    BY <1>1, <1>2
  <2> QED BY <1>2, <1>3, <1>5, <2>1
<1> QED BY <1>6 DEF First
------------------------------------------------------------------------------
(* What the steps of the registry do to its tables. *)

\* Every table that is there stays as it is, and so do its name and the columns of a new one are
\* those that were asked for.
KeepsTables ==
  /\ Live \subseteq Live' /\ \A x \in Live : table'[x] = table[x]
  /\ \A n : Exists(n) => Exists(n)'

LEMMA KeepTables ==
  ASSUME registry' = registry
  PROVE KeepsTables /\ Live' = Live
BY DEF registry, KeepsTables, Live, Exists

LEMMA CreateAddsTable ==
  ASSUME IInv, NEW t \in Threads, CreateTable(t)
  PROVE /\ KeepsTables
        /\ \A x \in Live' \ Live : table'[x].name = name[t] /\ table'[x].columns = columns[t]
<1> USE RegistryAssumption DEF IInv, CreateTable
<1>1. created \in Nat /\ created < MaxTables /\ created' = created + 1
  BY DEF TypeOK
<1>2. created + 1 \in Tables /\ table \in [Tables -> [id : Ids, name : Names \cup {NoName},
                         columns : Layouts \cup {NoLayout}, live : BOOLEAN]]
  BY <1>1 DEF Tables, TypeOK
<1>3. table' = [table EXCEPT ![created + 1] = [id |-> table_id_generator, name |-> name[t],
                                               columns |-> columns[t], live |-> TRUE]]
  BY <1>1
<1>4. /\ table'[created + 1].name = name[t] /\ table'[created + 1].columns = columns[t]
      /\ table'[created + 1].live
      /\ \A x \in Tables : x # created + 1 => table'[x] = table[x]
  BY <1>2, <1>3
<1>5. 1..created \subseteq Tables /\ created + 1 \notin 1..created /\ 1..created' = (1..created) \cup {created + 1}
  BY <1>1 DEF Tables
<1>6. \A x \in 1..created : x \in Tables /\ x # created + 1
  BY <1>5
<1>7. Live \subseteq Live' /\ (\A x \in Live : table'[x] = table[x]) /\ Live' \ Live \subseteq {created + 1}
  BY <1>4, <1>5, <1>6 DEF Live
<1>8. \A n : Exists(n) => Exists(n)'
  BY DEF Exists
<1> QED BY <1>4, <1>7, <1>8 DEF KeepsTables

------------------------------------------------------------------------------
(* What a constructor names is there; what others do leaves it alone. *)

LEMMA Named ==
  ASSUME InsInv, NEW t \in Threads, init[t] # Idle
  PROVE /\ running /\ init[t].by \in Objects /\ Built(init[t].by)
        /\ init[t].type \in DOMAIN code[init[t].by] /\ init[t].type \in Names
        /\ Of(t) \in DOMAIN code[init[t].by] /\ Of(t) \in Names
        /\ code[init[t].by][Of(t)].layout \in Layouts
<1>1. running /\ WellFormed /\ TypeInv(t)
  BY DEF InsInv, JInv, ThreadInv
<1> DEFINE b == init[t].by
           T == code[b]
<1>2. /\ b \in Objects /\ Built(b) /\ init[t].type \in DOMAIN T
      /\ init[t].attr # MainRecord => init[t].attr \in DOMAIN T[init[t].type].lists
  BY <1>1 DEF TypeInv
<1>3. /\ DOMAIN T \subseteq Names
      /\ \A n \in DOMAIN T : T[n].layout \in Layouts /\ \A a \in DOMAIN T[n].lists : T[n].lists[a].of \in DOMAIN T
  BY <1>1, <1>2 DEF WellFormed
<1>4. Of(t) \in DOMAIN T
  BY <1>2, <1>3 DEF Of, ListAt
<1> QED BY <1>1, <1>2, <1>3, <1>4

\* A constructor that goes on with the same list or main record.
LEMMA SameType ==
  ASSUME NEW t \in Threads, TypeInv(t), KeepsTables, code' = code,
         init'[t].by = init[t].by, init'[t].type = init[t].type, init'[t].attr = init[t].attr,
         init'[t].left = init[t].left, init'[t].main = init[t].main
  PROVE TypeInv(t)' /\ Of(t)' = Of(t)
<1>1. Of(t)' = Of(t)
  BY DEF Of, ListAt
<1>2. TypeInv(t)'
  BY DEF TypeInv, KeepsTables, Built
<1> QED BY <1>1, <1>2

LEMMA OthersKeep ==
  ASSUME NEW t \in Threads, ThreadInv(t), KeepsTables, code' = code, init'[t] = init[t],
         pc'[t] = pc[t], name'[t] = name[t], columns'[t] = columns[t]
  PROVE ThreadInv(t)'
<1>1. Idle' = Idle /\ \A p \in {"idle", "get", "create", "insert"} : Phase(t, p)' <=> Phase(t, p)
  BY DEF Idle, Phase
<1>2. ASSUME init[t] # Idle PROVE TypeInv(t)' /\ FoundInv(t)'
  <2>1. TypeInv(t)' /\ Of(t)' = Of(t)
    BY <1>2, SameType DEF ThreadInv
  <2> QED BY <1>1, <1>2, <2>1 DEF ThreadInv, FoundInv, KeepsTables
<1> QED BY <1>1, <1>2 DEF ThreadInv

LEMMA RecordsKeep ==
  ASSUME NEW m, RecordInv(m), KeepsTables, code' = code PROVE RecordInv(m)'
BY DEF RecordInv, KeepsTables, Built

\* A step of thread t leaves the calls of the others alone; a table it makes is one of the code.
OnlyMoves(t) ==
  \A u \in Threads \ {t} : pc'[u] = pc[u] /\ name'[u] = name[u] /\ columns'[u] = columns[u]

NewFromCode == \A x \in Live' \ Live : FromCode(table[x])'

LEMMA NoNewTables == ASSUME registry' = registry PROVE KeepsTables /\ NewFromCode
BY KeepTables DEF NewFromCode

\* A step of a constructor.
LEMMA ThreadStep ==
  ASSUME JInv, NEW t \in Threads, running, running' = running, builders' = builders, code' = code,
         NEW c \in Constructions, init' = [init EXCEPT ![t] = c],
         OnlyMoves(t), KeepsTables, NewFromCode,
         made' \subseteq [by : Objects, type : Names, table : Tables],
         \A m \in made' \ made : RecordInv(m)',
         ThreadInv(t)'
  PROVE JInv'
<1>1. init' \in [Threads -> Constructions] /\ \A u \in Threads \ {t} : init'[u] = init[u]
  BY DEF JInv
<1>2. \A u \in Threads : ThreadInv(u)'
  <2> SUFFICES ASSUME NEW u \in Threads, u # t PROVE ThreadInv(u)'
    OBVIOUS
  <2> QED BY <1>1, OthersKeep DEF JInv, OnlyMoves
<1>3. \A m \in made' : RecordInv(m)'
  BY RecordsKeep DEF JInv
<1>4. \A x \in Live' : FromCode(table[x])'
  BY DEF JInv, KeepsTables, NewFromCode, FromCode, Built
<1>5. WellFormed'
  BY DEF JInv, WellFormed, Built
<1> QED BY <1>1, <1>2, <1>3, <1>4, <1>5 DEF JInv

------------------------------------------------------------------------------
(* One lemma for each action. *)

LEMMA IdleType == Idle \in Constructions
BY DEF Idle, Constructions

WithPhase(c, p, x) == [c EXCEPT !.phase = p, !.table = x]
Sets(t, c)         == init' = [init EXCEPT ![t] = c]

\* The step of a constructor that goes on to another phase.
LEMMA PhaseStep ==
  ASSUME InsInv, NEW t \in Threads, init[t] # Idle, NEW p, NEW x,
         p \in {"get", "init_storage", "create", "insert"}, x \in Tables \cup {NoTable},
         Sets(t, WithPhase(init[t], p, x)),
         running' = running, builders' = builders, code' = code, made' = made,
         OnlyMoves(t), KeepsTables, NewFromCode,
         p = "create" <=> pc'[t] # "out",
         p = "get" => Exists(Of(t))',
         p = "create" => name'[t] = Of(t) /\ columns'[t] = code[init[t].by][Of(t)].layout,
         p = "insert" => x \in Live' /\ table'[x].name = Of(t)
  PROVE JInv'
<1> DEFINE c == WithPhase(init[t], p, x)
<1>1. init[t] \in Constructions /\ running /\ TypeInv(t) /\ init \in [Threads -> Constructions]
  BY Named DEF InsInv, JInv, ThreadInv
<1>2. /\ c \in Constructions /\ c.phase = p /\ c.table = x
      /\ c.by = init[t].by /\ c.type = init[t].type /\ c.attr = init[t].attr /\ c.left = init[t].left
      /\ c.main = init[t].main /\ Idle.phase = "idle" /\ Idle' = Idle
  BY <1>1 DEF Constructions, Idle, WithPhase
<1> HIDE DEF c
<1>3. init' = [init EXCEPT ![t] = c] /\ init'[t] = c
  BY <1>1 DEF Sets, c
<1>4. TypeInv(t)' /\ Of(t)' = Of(t)
  BY <1>1, <1>2, <1>3, SameType
<1>5. FoundInv(t)'
  <2>1. Phase(t, "create")' => name'[t] = Of(t)' /\ columns'[t] = (code[init[t].by][Of(t)].layout)'
    BY <1>2, <1>3, <1>4 DEF Phase
  <2>2. Phase(t, "get")' => Exists(Of(t))'
    BY <1>2, <1>3 DEF Phase
  <2>3. Phase(t, "insert")' => init'[t].table \in Live' /\ table'[init'[t].table].name = Of(t)'
    BY <1>2, <1>3, <1>4 DEF Phase
  <2> QED BY <2>1, <2>2, <2>3 DEF FoundInv
<1>6. ThreadInv(t)'
  BY <1>2, <1>3, <1>4, <1>5 DEF ThreadInv, Phase
<1>7. \A m \in made' \ made : RecordInv(m)'
  OBVIOUS
<1> QED BY <1>1, <1>2, <1>3, <1>6, <1>7, ThreadStep DEF InsInv, JInv

LEMMA EntersKeeps ==
  ASSUME InsInv, NEW t \in Threads, NEW b \in Objects, NEW n, Built(b), n \in DOMAIN code[b],
         Enters(t, b, n)
  PROVE JInv'
<1> DEFINE c == [Idle EXCEPT !.by = b, !.type = n, !.phase = "lookup",
                             !.left = DOMAIN code[b][n].lists]
<1>1. /\ running /\ init[t] = Idle /\ init' = [init EXCEPT ![t] = c]
      /\ running' = running /\ builders' = builders /\ code' = code /\ made' = made
      /\ UNCHANGED vars
  BY DEF Enters
<1>2. n \in Names /\ DOMAIN code[b][n].lists \subseteq AttrNames
  BY <1>1 DEF InsInv, JInv, WellFormed
<1>3. /\ c \in Constructions /\ c.by = b /\ c.type = n /\ c.attr = MainRecord /\ c.phase = "lookup"
      /\ c.left = DOMAIN code[b][n].lists /\ Idle.phase = "idle"
  BY <1>2 DEF Idle, Constructions
<1> HIDE DEF c
<1>4. init'[t] = c
  BY <1>1 DEF InsInv, JInv
<1>5. KeepsTables /\ Live' = Live /\ NewFromCode
  BY <1>1, KeepTables, NoNewTables DEF vars
<1>6. pc' = pc /\ name' = name /\ columns' = columns /\ OnlyMoves(t)
  BY <1>1 DEF vars, call, OnlyMoves
<1>7. ThreadInv(t)'
  <2>1. pc[t] = "out"
    BY <1>1, <1>3 DEF InsInv, JInv, ThreadInv, Phase
  <2>2. TypeInv(t)'
    BY <1>1, <1>3, <1>4 DEF TypeInv, Built
  <2>3. FoundInv(t)'
    BY <1>3, <1>4 DEF FoundInv, Phase
  <2>4. Idle' = Idle
    BY DEF Idle
  <2> QED BY <1>3, <1>4, <1>6, <2>1, <2>2, <2>3, <2>4 DEF ThreadInv, Phase
<1> QED BY <1>1, <1>3, <1>5, <1>6, <1>7, ThreadStep DEF InsInv, JInv

\* A thread whose constructor is at work.
LEMMA AtWork ==
  ASSUME InsInv, NEW t \in Threads, init[t].phase # "idle"
  PROVE /\ init[t] # Idle /\ init[t] \in Constructions /\ init[t].table \in Tables \cup {NoTable}
        /\ running /\ TypeInv(t) /\ FoundInv(t) /\ (init[t].phase = "create" <=> pc[t] # "out")
<1>1. init[t] # Idle
  <2>1. Idle.phase = "idle"
    BY DEF Idle
  <2> QED BY <2>1
<1>2. init[t] \in Constructions /\ init[t].table \in Tables \cup {NoTable}
  BY DEF InsInv, JInv, Constructions
<1> QED BY <1>1, <1>2, Named DEF InsInv, JInv, ThreadInv, Phase

LEMMA LookupKeeps == ASSUME InsInv, NEW t \in Threads, Lookup(t) PROVE JInv'
<1> DEFINE p == IF Exists(Of(t)) THEN "get" ELSE "init_storage"
           x == init[t].table
           c == WithPhase(init[t], p, x)
<1>1. /\ init[t].phase = "lookup" /\ init' = [init EXCEPT ![t] = [@ EXCEPT !.phase = p]]
      /\ running' = running /\ builders' = builders /\ code' = code /\ made' = made
      /\ UNCHANGED vars
  BY DEF Lookup, Phase
<1>2. /\ init[t] # Idle /\ init[t] \in Constructions /\ x \in Tables \cup {NoTable}
      /\ pc[t] = "out" /\ running
  BY <1>1, AtWork
<1>3. init' = [init EXCEPT ![t] = c]
  <2>1. [init[t] EXCEPT !.phase = p] = c
    BY <1>2 DEF Constructions, WithPhase
  <2> QED BY <1>1, <2>1
<1>4. /\ p \in {"get", "init_storage", "create", "insert"} /\ p # "create" /\ p # "insert"
      /\ p = "get" => Exists(Of(t))
  OBVIOUS
<1>5. KeepsTables /\ NewFromCode
  BY <1>1, NoNewTables DEF vars
<1>6. pc' = pc /\ OnlyMoves(t) /\ table_name_map' = table_name_map
  BY <1>1 DEF vars, call, registry, OnlyMoves
<1>7. Sets(t, WithPhase(init[t], p, x))
  BY <1>3 DEF Sets
<1> HIDE DEF p, x
<1>8. p = "get" => Exists(Of(t))'
  <2>1. c.by = init[t].by /\ c.type = init[t].type /\ c.attr = init[t].attr /\ init'[t] = c
    BY <1>2, <1>3 DEF Constructions, InsInv, JInv, WithPhase
  <2> HIDE DEF c
  <2>2. Of(t)' = Of(t)
    BY <1>1, <2>1 DEF Of, ListAt
  <2> QED BY <1>4, <1>6, <2>2 DEF Exists
<1>9. p = "create" <=> pc'[t] # "out"
  BY <1>2, <1>4, <1>6
<1> HIDE DEF c
<1> QED BY <1>1, <1>2, <1>4, <1>5, <1>6, <1>7, <1>8, <1>9, PhaseStep

LEMMA GetKeeps == ASSUME InsInv, NEW t \in Threads, Get(t) PROVE JInv'
<1> DEFINE x == ByName(Of(t))
<1>1. /\ init[t].phase = "get" /\ Sets(t, WithPhase(init[t], "insert", x))
      /\ running' = running /\ builders' = builders /\ code' = code /\ made' = made
      /\ UNCHANGED vars
  BY DEF Get, Phase, Sets, WithPhase
<1>2. init[t] # Idle /\ pc[t] = "out" /\ FoundInv(t)
  BY <1>1, AtWork
<1>3. x \in Live /\ table[x].name = Of(t) /\ x \in Tables
  <2> DEFINE i == table_name_map[Of(t)]
  <2>1. Exists(Of(t))
    BY <1>1, <1>2 DEF FoundInv, Phase
  <2>2. i \in Ids /\ i + 1 \in Live /\ table[i + 1].name = Of(t)
    BY <2>1 DEF InsInv, IInv, TypeOK, MapsAgree, Exists
  <2>3. tables[(i + 1) - 1] = i + 1
    BY <2>2 DEF InsInv, IInv, MapsAgree
  <2>4. x = i + 1
    BY RegistryAssumption, <2>1, <2>2, <2>3 DEF ByName, Ids
  <2>5. x \in Tables
    BY RegistryAssumption, <2>2, <2>4 DEF Live, InsInv, IInv, TypeOK, Tables, Ids
  <2> QED BY <2>2, <2>4, <2>5
<1>4. KeepsTables /\ NewFromCode
  BY <1>1, NoNewTables DEF vars
<1>5. pc' = pc /\ OnlyMoves(t) /\ table' = table /\ Live' = Live
  BY <1>1 DEF vars, call, registry, OnlyMoves, Live
<1> HIDE DEF x
<1>6. x \in Live' /\ table'[x].name = Of(t) /\ pc'[t] = "out"
  BY <1>2, <1>3, <1>5
<1> QED BY <1>1, <1>2, <1>3, <1>4, <1>5, <1>6, PhaseStep

LEMMA InitStorageKeeps == ASSUME InsInv, NEW t \in Threads, InitStorage(t) PROVE JInv'
<1> DEFINE x == init[t].table
<1>1. /\ init[t].phase = "init_storage" /\ init' = [init EXCEPT ![t] = [@ EXCEPT !.phase = "create"]]
      /\ running' = running /\ builders' = builders /\ code' = code /\ made' = made
      /\ Enter(t, Of(t), code[init[t].by][Of(t)].layout)
  BY DEF InitStorage, Phase
<1>2. /\ init[t] # Idle /\ init[t] \in Constructions /\ x \in Tables \cup {NoTable}
  BY <1>1, AtWork
<1>3. Sets(t, WithPhase(init[t], "create", x))
  <2>1. [init[t] EXCEPT !.phase = "create"] = WithPhase(init[t], "create", x)
    BY <1>2 DEF Constructions, WithPhase
  <2> QED BY <1>1, <2>1 DEF Sets
<1>4. KeepsTables /\ NewFromCode
  BY <1>1, NoNewTables DEF Enter
<1>5. /\ pc'[t] = "exists" /\ name'[t] = Of(t) /\ columns'[t] = code[init[t].by][Of(t)].layout
      /\ OnlyMoves(t)
  BY <1>1 DEF Enter, OnlyMoves, InsInv, IInv, TypeOK
<1> HIDE DEF x
<1> QED BY <1>1, <1>2, <1>3, <1>4, <1>5, PhaseStep

LEMMA CreatedKeeps == ASSUME InsInv, NEW t \in Threads, Created(t) PROVE JInv'
<1> DEFINE x == ret_table_ptr[t]
<1>1. /\ init[t].phase = "create" /\ Sets(t, WithPhase(init[t], "insert", x)) /\ Leave(t)
      /\ running' = running /\ builders' = builders /\ code' = code /\ made' = made
  BY DEF Created, Phase, Sets, WithPhase
<1>2. init[t] # Idle /\ FoundInv(t)
  BY <1>1, AtWork
<1>3. x \in Live /\ table[x].name = Of(t) /\ x \in Tables \cup {NoTable}
  <2>1. x \in Live /\ table[x].name = name[t]
    BY <1>1 DEF Leave, InsInv, IInv, ReturnedTableRight
  <2>2. x \in Tables \cup {NoTable}
    BY DEF InsInv, IInv, TypeOK
  <2> QED BY <1>1, <1>2, <2>1, <2>2 DEF FoundInv, Phase
<1>4. KeepsTables /\ NewFromCode
  BY <1>1, NoNewTables DEF Leave
<1>5. /\ pc'[t] = "out" /\ OnlyMoves(t) /\ table' = table /\ Live' = Live
  BY <1>1 DEF Leave, OnlyMoves, InsInv, IInv, TypeOK, registry, Live
<1> HIDE DEF x
<1>6. x \in Live' /\ table'[x].name = Of(t)
  BY <1>3, <1>5
<1> QED BY <1>1, <1>2, <1>3, <1>4, <1>5, <1>6, PhaseStep

LEMMA CreatingKeeps == ASSUME InsInv, NEW t \in Threads, Creating(t) PROVE JInv'
<1>1. /\ init[t].phase = "create"
      /\ CheckExists(t) \/ GetTable(t) \/ CreateTable(t)
      /\ init' = init /\ running' = running /\ builders' = builders /\ code' = code /\ made' = made
  BY DEF Creating, Phase, creating
<1>2. /\ init[t] # Idle /\ init[t] \in Constructions /\ running /\ FoundInv(t) /\ ThreadInv(t)
  BY <1>1, AtWork DEF InsInv, JInv
<1>3. /\ KeepsTables /\ NewFromCode
  <2>1. CASE CheckExists(t) \/ GetTable(t)
    BY <2>1, NoNewTables DEF CheckExists, GetTable
  <2>2. CASE CreateTable(t)
    <3> SUFFICES ASSUME NEW x \in Live' \ Live PROVE FromCode(table[x])'
      BY <2>2, CreateAddsTable DEF NewFromCode, InsInv
    <3>1. table'[x].name = name[t] /\ table'[x].columns = columns[t]
      BY <2>2, CreateAddsTable DEF InsInv
    <3>2. /\ name[t] = Of(t) /\ columns[t] = code[init[t].by][Of(t)].layout
          /\ init[t].by \in Objects /\ Built(init[t].by) /\ Of(t) \in DOMAIN code[init[t].by]
      BY <1>1, <1>2, Named DEF FoundInv, Phase
    <3> QED BY <1>1, <3>1, <3>2 DEF FromCode, Built
  <2> QED BY <1>1, <2>1, <2>2
<1>4. /\ pc'[t] # "out" /\ name'[t] = name[t] /\ columns'[t] = columns[t] /\ OnlyMoves(t)
  BY <1>1 DEF CheckExists, GetTable, CreateTable, OnlyMoves, InsInv, IInv, TypeOK
<1>5. init' = [init EXCEPT ![t] = init[t]]
  BY <1>1 DEF InsInv, JInv
<1>6. ThreadInv(t)'
  <2>1. TypeInv(t)' /\ Of(t)' = Of(t)
    BY <1>1, <1>2, <1>3, SameType DEF ThreadInv
  <2>2. Idle' = Idle /\ Phase(t, "create")' /\ ~Phase(t, "idle")' /\ ~Phase(t, "get")' /\ ~Phase(t, "insert")'
    BY <1>1 DEF Idle, Phase
  <2>3. FoundInv(t)'
    BY <1>1, <1>2, <1>4, <2>1, <2>2 DEF FoundInv, Phase
  <2> QED BY <1>1, <1>2, <1>4, <2>1, <2>2, <2>3 DEF ThreadInv
<1> QED BY <1>1, <1>2, <1>3, <1>4, <1>5, <1>6, ThreadStep DEF InsInv, JInv

\* A constructor that is done with the main record or with a list goes on to the next list.
LEMMA AdvanceStep ==
  ASSUME InsInv, NEW t \in Threads, init[t].phase = "insert", NEW x, Advance(t, x),
         x \in Live, x \in Tables, table[x].name = init[t].type,
         made' \subseteq made \cup {Record(t)}, registry' = registry, call' = call,
         running' = running, builders' = builders, code' = code
  PROVE JInv'
<1> DEFINE left == init[t].left
           a    == First(left)
           c    == IF left = {} THEN Idle
                   ELSE [init[t] EXCEPT !.attr = a, !.left = left \ {a}, !.phase = "lookup", !.main = x]
<1>1. /\ init[t] # Idle /\ init[t] \in Constructions /\ running /\ TypeInv(t) /\ FoundInv(t)
      /\ pc[t] = "out"
  BY AtWork
<1>2. init' = [init EXCEPT ![t] = c]
  BY DEF Advance
<1>3. /\ left \subseteq AttrNames
      /\ left # {} => a \in left /\ a \in AttrNames /\ a # MainRecord
  BY <1>1, FirstIn, InstancesAssumption DEF Constructions
<1>4. /\ c \in Constructions
      /\ \/ left = {} /\ c = Idle
         \/ /\ left # {} /\ c.by = init[t].by /\ c.type = init[t].type /\ c.attr = a
            /\ c.left = left \ {a} /\ c.phase = "lookup" /\ c.main = x
  <2>1. CASE left = {}
    BY <2>1, IdleType
  <2>2. CASE left # {}
    <3> HIDE DEF a
    <3>1. left \ {a} \in SUBSET AttrNames
      BY <1>1 DEF Constructions
    <3> DEFINE r == init[t]
               l == left \ {a}
    <3>2. c = [r EXCEPT !.attr = a, !.left = l, !.phase = "lookup", !.main = x]
      BY <2>2
    <3>3. r \in Constructions /\ a \in AttrNames /\ l \in SUBSET AttrNames /\ x \in Tables
      BY <1>1, <1>3, <2>2, <3>1
    <3> HIDE DEF r, l, c
    <3>4. /\ c \in Constructions /\ c.by = r.by /\ c.type = r.type /\ c.attr = a
          /\ c.left = l /\ c.phase = "lookup" /\ c.main = x
      BY ONLY <3>2, <3>3 DEF Constructions
    <3> QED BY <2>2, <3>4 DEF r, l
  <2> QED BY <2>1, <2>2
<1> HIDE DEF a, c
<1>5. init'[t] = c
  BY <1>2 DEF InsInv, JInv
<1>6. KeepsTables /\ NewFromCode /\ Live' = Live /\ table' = table
  BY NoNewTables, KeepTables DEF registry
<1>7. pc' = pc /\ OnlyMoves(t)
  BY DEF call, OnlyMoves
<1>8. ThreadInv(t)'
  <2>1. Idle' = Idle /\ Idle.phase = "idle"
    BY DEF Idle
  <2>2. CASE left = {}
    BY <1>1, <1>4, <1>5, <1>7, <2>1, <2>2 DEF ThreadInv, Phase
  <2>3. CASE left # {}
    <3>1. /\ init'[t].by = init[t].by /\ init'[t].type = init[t].type /\ init'[t].attr = a
          /\ init'[t].left = left \ {a} /\ init'[t].phase = "lookup" /\ init'[t].main = x
      BY <1>4, <1>5, <2>3
    <3>2. FoundInv(t)'
      BY <3>1 DEF FoundInv, Phase
    <3>3. TypeInv(t)'
      <4>1. /\ left \subseteq DOMAIN code[init[t].by][init[t].type].lists /\ a \in left
            /\ init[t].by \in Objects /\ Built(init[t].by)
            /\ init[t].type \in DOMAIN code[init[t].by]
        BY <1>1, <1>3, <2>3 DEF TypeInv
      <4>2. x \in Live' /\ table'[x].name = init[t].type /\ code' = code
        BY <1>6
      <4> QED BY ONLY <3>1, <4>1, <4>2 DEF TypeInv, Built
    <3> QED BY <1>1, <1>7, <2>1, <3>1, <3>2, <3>3 DEF ThreadInv, Phase
  <2> QED BY <2>2, <2>3
<1>9. /\ made' \subseteq [by : Objects, type : Names, table : Tables]
      /\ \A m \in made' \ made : RecordInv(m)'
  <2>1. /\ init[t].by \in Objects /\ Built(init[t].by) /\ Of(t) \in DOMAIN code[init[t].by] /\ Of(t) \in Names
        /\ init[t].table \in Live /\ table[init[t].table].name = Of(t)
    BY <1>1, Named DEF FoundInv, Phase
  <2>2. init[t].table \in Tables
    BY RegistryAssumption, <2>1 DEF Live, InsInv, IInv, TypeOK, Tables
  <2>3. ASSUME NEW m \in made' \ made
        PROVE m \in [by : Objects, type : Names, table : Tables] /\ RecordInv(m)'
    <3>1. m = Record(t)
      OBVIOUS
    <3>2. m.by = init[t].by /\ m.type = Of(t) /\ m.table = init[t].table
      BY <3>1 DEF Record
    <3>3. m \in [by : Objects, type : Names, table : Tables]
      BY <2>1, <2>2, <3>1 DEF Record
    <3>4. RecordInv(m)'
      BY <1>6, <2>1, <3>2 DEF RecordInv, Built
    <3> QED BY <3>3, <3>4
  <2> QED BY <2>3 DEF InsInv, JInv
<1> QED BY <1>1, <1>2, <1>4, <1>6, <1>7, <1>8, <1>9, ThreadStep DEF InsInv, JInv

LEMMA InsertMainKeeps == ASSUME InsInv, NEW t \in Threads, InsertMain(t) PROVE JInv'
<1>1. /\ init[t].phase = "insert" /\ init[t].attr = MainRecord /\ Advance(t, init[t].table)
      /\ made' = made \cup {Record(t)} /\ registry' = registry /\ call' = call
      /\ running' = running /\ builders' = builders /\ code' = code
  BY DEF InsertMain, Phase, vars
<1>2. init[t].table \in Live /\ table[init[t].table].name = init[t].type
  BY <1>1, AtWork DEF FoundInv, Phase, Of
<1>3. init[t].table \in Tables
  BY RegistryAssumption, <1>2 DEF Live, InsInv, IInv, TypeOK, Tables
<1> QED BY <1>1, <1>2, <1>3, AdvanceStep

LEMMA InitListKeeps == ASSUME InsInv, NEW t \in Threads, InitList(t) PROVE JInv'
<1>1. /\ init[t].phase = "insert" /\ init[t].attr # MainRecord /\ Advance(t, init[t].main)
      /\ made' \subseteq made \cup {Record(t)} /\ registry' = registry /\ call' = call
      /\ running' = running /\ builders' = builders /\ code' = code
  BY DEF InitList, Phase, Resolve
<1>2. init[t].main \in Live /\ table[init[t].main].name = init[t].type
  BY <1>1, AtWork DEF TypeInv
<1>3. init[t].main \in Tables
  BY RegistryAssumption, <1>2 DEF Live, InsInv, IInv, TypeOK, Tables
<1> QED BY <1>1, <1>2, <1>3, AdvanceStep

LEMMA StillKeeps ==
  ASSUME JInv, registry' = registry, call' = call, UNCHANGED <<builders, code, creating>> PROVE JInv'
<1>1. KeepsTables /\ Live' = Live /\ table' = table
  BY KeepTables DEF registry
<1>2. pc' = pc /\ name' = name /\ columns' = columns /\ init' = init /\ made' = made
      /\ running' = running /\ code' = code /\ builders' = builders /\ created' = created
  BY DEF call, creating, registry
<1>3. \A t \in Threads : ThreadInv(t)'
  BY <1>1, <1>2, OthersKeep DEF JInv
<1>4. \A m \in made' : RecordInv(m)'
  BY <1>1, <1>2, RecordsKeep DEF JInv
<1>5. \A x \in Live' : FromCode(table[x])'
  BY <1>1, <1>2 DEF JInv, FromCode, Built
<1>6. WellFormed' <=> WellFormed
  BY <1>2 DEF WellFormed, Built
<1>7. Idle' = Idle
  BY DEF Idle
<1> QED BY <1>2, <1>3, <1>4, <1>5, <1>6, <1>7 DEF JInv

LEMMA ClearAllKeeps == ASSUME InsInv, ClearAll PROVE JInv'
<1>1. /\ running /\ (\A t \in Threads : init[t] = Idle) /\ Clear /\ made' = {}
      /\ builders' = builders /\ code' = code /\ running' = running /\ init' = init
  BY DEF ClearAll
<1>2. Live' = {}
  <2>1. 1..created \subseteq Tables /\ created' = created
    <3>1. created \in 0..MaxTables /\ MaxTables \in Nat
      BY RegistryAssumption DEF InsInv, IInv, TypeOK
    <3> QED BY <1>1, <3>1 DEF Clear, Tables
  <2>2. \A x \in Tables : table'[x].live = FALSE
    BY <1>1 DEF Clear, InsInv, IInv, TypeOK
  <2> QED BY <2>1, <2>2 DEF Live
<1>3. \A t \in Threads : ThreadInv(t)'
  BY <1>1 DEF InsInv, JInv, ThreadInv, Phase, Clear, Idle
<1>4. WellFormed'
  BY <1>1 DEF InsInv, JInv, WellFormed, Built
<1> QED BY <1>1, <1>2, <1>3, <1>4 DEF InsInv, JInv

LEMMA DeployKeeps == ASSUME InsInv, Deploy PROVE JInv'
<1>1. /\ ~running /\ running' \in BOOLEAN /\ (running' => WellFormed')
      /\ registry' = registry /\ call' = call /\ init' = init /\ made' = made
  BY DEF Deploy, vars
<1>2. /\ created = 0 /\ created' = 0 /\ made = {} /\ \A t \in Threads : init[t] = Idle
  BY <1>1 DEF InsInv, JInv, registry
<1>3. Live' = {}
  BY <1>2 DEF Live
<1>4. \A t \in Threads : ThreadInv(t)'
  BY <1>1, <1>2 DEF InsInv, JInv, ThreadInv, Phase, Idle, call
<1>5. Idle' = Idle
  BY DEF Idle
<1> QED BY <1>1, <1>2, <1>3, <1>4, <1>5 DEF InsInv, JInv

LEMMA InitInstances == InsInit => InsInv
<1> SUFFICES ASSUME InsInit PROVE InsInv
  OBVIOUS
<1>1. IInv
  BY InitHolds DEF InsInit
<1>2. /\ running = FALSE /\ made = {} /\ created = 0 /\ Live = {}
      /\ init \in [Threads -> Constructions] /\ \A t \in Threads : init[t] = Idle /\ pc[t] = "out"
  BY IdleType DEF InsInit, Init, Live
<1>3. Idle.phase = "idle"
  BY DEF Idle
<1>4. \A t \in Threads : ThreadInv(t)
  BY <1>2, <1>3 DEF ThreadInv, Phase
<1> QED BY <1>1, <1>2, <1>4 DEF InsInv, JInv
------------------------------------------------------------------------------
(* The composition. *)

\* Every step of a constructor is a step of the registry or leaves it alone.
LEMMA UsesRegistry == ASSUME InsInv, [InsNext]_insvars PROVE [Next]_vars
<1>1. Tables = 1..MaxTables /\ created \in 0..MaxTables /\ MaxTables \in Nat
  BY RegistryAssumption DEF InsInv, IInv, TypeOK, Tables
<1>2. Live \subseteq Tables
  BY <1>1 DEF Live
<1>3. CASE UNCHANGED insvars \/ Deploy
  BY <1>3 DEF insvars, Deploy
<1>4. CASE ClearAll
  BY <1>4 DEF ClearAll, Next
<1>5. ASSUME NEW t \in Threads, NEW b, NEW n, Enters(t, b, n) PROVE UNCHANGED vars
  BY <1>5 DEF Enters
<1>6. ASSUME NEW t \in Threads, NEW x, Resolve(t, x) PROVE Next
  BY <1>2, <1>6 DEF Resolve, Next
<1>7. ASSUME NEW t \in Threads, InitStorage(t) PROVE Next
  <2>1. init[t].phase = "init_storage" /\ Enter(t, Of(t), code[init[t].by][Of(t)].layout)
    BY <1>7 DEF InitStorage, Phase
  <2>2. init[t] # Idle
    BY <2>1, AtWork
  <2> QED BY <2>1, <2>2, Named DEF Next
<1>8. ASSUME NEW t \in Threads, Lookup(t) \/ Get(t) \/ InsertMain(t) PROVE UNCHANGED vars
  BY <1>8 DEF Lookup, Get, InsertMain
<1>9. ASSUME NEW t \in Threads, Creating(t) \/ Created(t) PROVE Next
  BY <1>9 DEF Creating, Created, Next
<1>10. ASSUME NEW t \in Threads, InitList(t) PROVE Next
  BY <1>6, <1>10 DEF InitList
<1>11. ASSUME NEW t \in Threads, NEW m, Access(t, m) PROVE Next
  BY <1>6, <1>11 DEF Access
<1>12. CASE Instantiate
  <2>1. ASSUME NEW t \in Threads, NEW b, Constructor(t, b) PROVE UNCHANGED vars
    BY <1>5, <2>1 DEF Constructor
  <2>2. ASSUME NEW t \in Threads, NEW m, NEW n, Create(t, m, n) PROVE UNCHANGED vars
    BY <1>5, <2>2 DEF Create
  <2> QED BY <1>4, <1>7, <1>8, <1>9, <1>10, <1>11, <1>12, <2>1, <2>2 DEF Instantiate
<1> QED BY <1>3, <1>12 DEF InsNext

LEMMA InsStep == ASSUME InsInv, [InsNext]_insvars PROVE InsInv'
<1>1. IInv'
  BY UsesRegistry, StepHolds DEF InsInv
<1> SUFFICES JInv'
  BY <1>1 DEF InsInv
<1>2. CASE UNCHANGED insvars
  BY <1>2, StillKeeps DEF insvars, vars, InsInv
<1>3. CASE Deploy
  BY <1>3, DeployKeeps
<1>4. CASE ClearAll
  BY <1>4, ClearAllKeeps
<1>5. ASSUME NEW t \in Threads, NEW b \in Objects, Constructor(t, b) PROVE JInv'
  <2>1. Built(b) /\ Enters(t, b, builders[b].name)
    BY <1>5 DEF Constructor
  <2>2. builders[b].name \in DOMAIN code[b]
    BY <2>1 DEF Enters, InsInv, JInv, WellFormed
  <2> QED BY <2>1, <2>2, EntersKeeps
<1>6. ASSUME NEW t \in Threads, NEW m, NEW n, Create(t, m, n) PROVE JInv'
  <2>1. m \in made /\ n \in code[m.by][m.type].creates /\ Enters(t, m.by, n) /\ running
    BY <1>6 DEF Create, Enters
  <2>2. m.by \in Objects /\ Built(m.by) /\ m.type \in DOMAIN code[m.by]
    BY <2>1 DEF InsInv, JInv, RecordInv
  <2>3. n \in DOMAIN code[m.by]
    BY <2>1, <2>2 DEF InsInv, JInv, WellFormed
  <2> QED BY <2>1, <2>2, <2>3, EntersKeeps
<1>7. ASSUME NEW t \in Threads, NEW m, Access(t, m) PROVE JInv'
  BY <1>7, StillKeeps DEF Access, Resolve, InsInv
<1>8. ASSUME NEW t \in Threads,
             Lookup(t) \/ Get(t) \/ InitStorage(t) \/ Creating(t) \/ Created(t) \/ InsertMain(t) \/ InitList(t)
      PROVE JInv'
  BY <1>8, LookupKeeps, GetKeeps, InitStorageKeeps, CreatingKeeps, CreatedKeeps, InsertMainKeeps,
     InitListKeeps
<1>9. CASE Instantiate
  BY <1>4, <1>5, <1>6, <1>7, <1>8, <1>9 DEF Instantiate
<1> QED BY <1>2, <1>3, <1>9 DEF InsNext

LEMMA InsInductive == InsSpec => []InsInv
<1>1. InsInv /\ [InsNext]_insvars => InsInv'
  BY InsStep
<1> QED BY InitInstances, <1>1, PTL DEF InsSpec

\* Types; a constructor holds the mutex of createTablesInternal only to create a table, and the
\* tables it has found or made stay there, under the names of its types, while it runs.
THEOREM InstancesTypes == InsSpec => []InsTypeOK
<1>1. ASSUME InsInv PROVE InsTypeOK
  <2>1. TypeOK /\ running \in BOOLEAN /\ init \in [Threads -> Constructions]
        /\ (~running => made = {} /\ created = 0)
    BY <1>1 DEF InsInv, JInv, IInv
  <2>2. made \subseteq [by : {b \in Objects : Built(b)}, type : Names, table : Tables]
    BY <1>1 DEF InsInv, JInv, RecordInv
  <2>3. ASSUME NEW t \in Threads
        PROVE  /\ Phase(t, "idle") <=> init[t] = Idle
               /\ Phase(t, "create") <=> pc[t] # "out"
               /\ Phase(t, "insert") => init[t].table \in Live /\ table[init[t].table].name = Of(t)
               /\ init[t].attr # MainRecord =>
                    init[t].main \in Live /\ table[init[t].main].name = init[t].type
    <3>1. ThreadInv(t)
      BY <1>1 DEF InsInv, JInv
    <3>2. CASE init[t] = Idle
      BY <3>1, <3>2 DEF ThreadInv, Phase, Idle
    <3>3. CASE init[t] # Idle
      BY <3>1, <3>3 DEF ThreadInv, TypeInv, FoundInv
    <3> QED BY <3>2, <3>3
  <2> QED BY <2>1, <2>2, <2>3 DEF InsTypeOK
<1> QED BY InsInductive, <1>1, PTL

\* Whatever code the builders hand over, as long as it names only what is in it, constructors use the
\* registry through createTablesInternal, getTable, exists and clear as TableRegistry has it.
THEOREM InstancesUseRegistry == InsSpec => RegistrySpec
<1>1. InsInit => Init
  BY DEF InsInit
<1>2. InsInv /\ [InsNext]_insvars => [Next]_vars
  BY UsesRegistry
<1> QED BY InsInductive, <1>1, <1>2, PTL DEF InsSpec, RegistrySpec, Spec

\* createTablesInternal, getTable and clear as the constructors call them: one table per name, the
\* table that was asked for, and caches that name no other one.
THEOREM InstancesTables == InsSpec => [](OneTablePerName /\ ReturnedTableRight /\ CachesRight)
<1>1. InsInv => OneTablePerName /\ ReturnedTableRight /\ CachesRight
  BY Consequences DEF InsInv
<1> QED BY InsInductive, <1>1, PTL

\* insertMainRecord and insertNRecords: the record is put into a table of its type's name, whose
\* columns are those that some code has for a type of that name.
THEOREM LayoutsAgree == InsSpec => []LayoutAgreement
<1>1. InsInv => LayoutAgreement
  BY DEF InsInv, JInv, RecordInv, FromCode, LayoutAgreement
<1> QED BY InsInductive, <1>1, PTL
------------------------------------------------------------------------------
\* A nonempty set of naturals has a least element.
LEMMA LeastNat == ASSUME NEW T, T \subseteq Nat, T # {} PROVE \E x \in T : \A y \in T : x <= y
<1> DEFINE R == OpToRel(<, Nat)
<1>1. \A x, y \in Nat : <<x, y>> \in R <=> x < y
  BY DEF OpToRel
<1>2. IsWellFoundedOn(R, Nat)
  BY NatLessThanWellFounded
<1> HIDE DEF R
<1>3. PICK x \in T : \A y \in T : ~(<<y, x>> \in R)
  BY <1>2, WFMin
<1>4. \A y \in T : ~(y < x)
  BY <1>1, <1>3
<1> QED BY <1>4

\* Induction up to n, as a fact about sets.
LEMMA SetInduction ==
  ASSUME NEW n \in Nat, NEW S, 0 \in S, \A i \in 1..n : i - 1 \in S => i \in S
  PROVE 0..n \subseteq S
<1> SUFFICES ASSUME (0..n) \ S # {} PROVE FALSE
  OBVIOUS
<1> DEFINE T == (0..n) \ S
<1>0. T \subseteq Nat /\ T # {}
  OBVIOUS
<1> HIDE DEF T
<1>1. PICK x \in T : \A y \in T : x <= y
  BY <1>0, LeastNat
<1> USE DEF T
<1>2. x # 0 /\ x - 1 \in 0..n /\ x - 1 \in S
  BY <1>1
<1> QED BY <1>1, <1>2

Iteration(f, n, E, F) == f = [i \in 0..n |-> IF i = 0 THEN E ELSE F[<<f[i - 1], i>>]]

\* A function that is defined by recursion over 0..n exists.
LEMMA Iterates ==
  ASSUME NEW n \in Nat, NEW X, NEW E \in X, NEW F \in [X \X (1..n) -> X]
  PROVE \E f \in [0..n -> X] : Iteration(f, n, E, F)
<1> DEFINE S == {m \in 0..n : \E f \in [0..m -> X] : f[0] = E /\ \A i \in 1..m : f[i] = F[<<f[i - 1], i>>]}
<1>1. 0 \in S
  <2> DEFINE f == [i \in 0..0 |-> E]
  <2>1. f \in [0..0 -> X] /\ f[0] = E
    OBVIOUS
  <2>2. \A i \in 1..0 : f[i] = F[<<f[i - 1], i>>]
    OBVIOUS
  <2> HIDE DEF f
  <2> QED BY <2>1, <2>2
<1>2. ASSUME NEW m \in 1..n, m - 1 \in S PROVE m \in S
  <2>1. PICK f \in [0..(m - 1) -> X] : f[0] = E /\ \A i \in 1..(m - 1) : f[i] = F[<<f[i - 1], i>>]
    BY <1>2
  <2> DEFINE g == [i \in 0..m |-> IF i = m THEN F[<<f[m - 1], m>>] ELSE f[i]]
  <2>2. f[m - 1] \in X /\ F[<<f[m - 1], m>>] \in X
    BY <2>1
  <2>3. g \in [0..m -> X]
    BY <2>2
  <2>4. g[0] = E
    BY <2>1
  <2>5. ASSUME NEW i \in 1..m PROVE g[i] = F[<<g[i - 1], i>>]
    <3>1. g[i - 1] = f[i - 1]
      <4>1. i - 1 \in 0..m /\ i - 1 # m
        OBVIOUS
      <4> QED BY <4>1
    <3>2. CASE i = m
      <4>1. g[m] = F[<<f[m - 1], m>>]
        OBVIOUS
      <4> HIDE DEF g
      <4> QED BY <4>1, <3>1, <3>2
    <3>3. CASE i # m
      <4>1. g[i] = f[i] /\ i \in 1..(m - 1)
        BY <3>3
      <4> HIDE DEF g
      <4> QED BY <4>1, <3>1, <2>1
    <3> QED BY <3>2, <3>3
  <2> HIDE DEF g
  <2> QED BY <2>3, <2>4, <2>5
<1>3. n \in S
  <2> HIDE DEF S
  <2> QED BY <1>1, <1>2, SetInduction
<1>4. PICK f \in [0..n -> X] : f[0] = E /\ \A i \in 1..n : f[i] = F[<<f[i - 1], i>>]
  BY <1>3
<1>5. f = [i \in 0..n |-> IF i = 0 THEN E ELSE F[<<f[i - 1], i>>]]
  BY <1>4
<1> QED BY <1>4, <1>5 DEF Iteration

Upto(f, D, w) ==
  f = [i \in 0..Len(NameOrder) |->
        IF i = 0 THEN <<>>
        ELSE IF NameOrder[i] \in DOMAIN D THEN f[i - 1] \o w[D[NameOrder[i]]] ELSE f[i - 1]]

\* The order of the names is a sequence.
LEMMA NameOrderIs ==
  /\ Len(NameOrder) \in Nat /\ DOMAIN NameOrder = 1..Len(NameOrder)
  /\ \A i \in 1..Len(NameOrder) : NameOrder[i] \in Names
  /\ \A x \in Names : \E i \in 1..Len(NameOrder) : NameOrder[i] = x
<1>1. NameOrder \in Seq(Names)
  BY DataStructuresAssumption
<1>2. Names = {NameOrder[i] : i \in DOMAIN NameOrder}
  BY DataStructuresAssumption DEF B!TypeNames, B!Range
<1> QED BY <1>1, <1>2

\* Joined takes the types one after the other.
LEMMA JoinedSteps ==
  ASSUME NEW D, D \in [DOMAIN D -> Objects], NEW w \in [Objects -> Seq(Objects)]
  PROVE  \E f \in [0..Len(NameOrder) -> Seq(Objects)] :
           /\ B!Joined(D, w) = f[Len(NameOrder)]
           /\ f[0] = <<>>
           /\ \A i \in 1..Len(NameOrder) :
                f[i] = IF NameOrder[i] \in DOMAIN D THEN f[i - 1] \o w[D[NameOrder[i]]] ELSE f[i - 1]
<1> DEFINE N == Len(NameOrder)
           X == Seq(Objects)
           G(p, i) == IF NameOrder[i] \in DOMAIN D THEN p \o w[D[NameOrder[i]]] ELSE p
           F == [q \in X \X (1..N) |-> G(q[1], q[2])]
<1>1. N \in Nat
  BY NameOrderIs
<1>2. F \in [X \X (1..N) -> X]
  <2>1. ASSUME NEW p \in X, NEW i \in 1..N PROVE G(p, i) \in X
    BY <2>1
  <2> HIDE DEF G, X
  <2> QED BY <2>1
<1>3. <<>> \in X
  OBVIOUS
<1>4. PICK f \in [0..N -> X] : Iteration(f, N, <<>>, F)
  <2> HIDE DEF F, X, N
  <2> QED BY <1>1, <1>2, <1>3, Iterates
<1>5. ASSUME NEW i \in 0..N PROVE f[i] = IF i = 0 THEN <<>> ELSE G(f[i - 1], i)
  <2>1. f[i] = IF i = 0 THEN <<>> ELSE F[<<f[i - 1], i>>]
    <3> HIDE DEF F, X, G, N
    <3> QED BY <1>4 DEF Iteration
  <2>2. i # 0 => F[<<f[i - 1], i>>] = G(f[i - 1], i)
    <3>1. i # 0 => f[i - 1] \in X /\ i \in 1..N
      <4> HIDE DEF X
      <4> QED BY <1>1
    <3> HIDE DEF X, G
    <3> QED BY <3>1
  <2> HIDE DEF F, G
  <2> QED BY <2>1, <2>2
<1>6. f = [i \in 0..N |-> IF i = 0 THEN <<>> ELSE G(f[i - 1], i)]
  <2>1. f = [i \in 0..N |-> f[i]]
    OBVIOUS
  <2> HIDE DEF F, X, G, N
  <2> QED BY <1>5, <2>1
<1> DEFINE g == CHOOSE h : Upto(h, D, w)
<1>7. Upto(g, D, w)
  BY <1>6 DEF Upto
<1>8. /\ g = [i \in 0..N |-> g[i]]
      /\ g[0] = <<>>
      /\ \A i \in 1..N : g[i] = G(g[i - 1], i)
  <2>1. g = [i \in 0..N |-> IF i = 0 THEN <<>> ELSE G(g[i - 1], i)]
    BY <1>7 DEF Upto
  <2> HIDE DEF g, G, N
  <2>2. \A i \in 0..N : g[i] = IF i = 0 THEN <<>> ELSE G(g[i - 1], i)
    BY <2>1
  <2>3. 0 \in 0..N /\ \A i \in 1..N : i \in 0..N /\ i # 0
    BY <1>1
  <2>4. g[0] = <<>> /\ \A i \in 1..N : g[i] = G(g[i - 1], i)
    BY <2>2, <2>3
  <2> QED BY <2>1, <2>4
<1>9. B!Joined(D, w) = g[N]
  BY DEF B!Joined, Upto
<1> HIDE DEF g
<1> DEFINE S == {i \in 0..N : g[i] \in X}
<1>10. 0 \in S
  <2> HIDE DEF G, X, N
  <2> QED BY <1>1, <1>3, <1>8
<1>11. ASSUME NEW i \in 1..N, i - 1 \in S PROVE i \in S
  <2>1. g[i - 1] \in X
    BY <1>11
  <2>2. G(g[i - 1], i) \in X
    BY <2>1
  <2>3. i \in 0..N
    BY <1>1
  <2> HIDE DEF G, X, N
  <2>4. g[i] \in X
    BY <1>8, <2>2
  <2> QED BY <2>3, <2>4
<1>12. 0..N \subseteq S
  <2> HIDE DEF S
  <2> QED BY <1>1, <1>10, <1>11, SetInduction
<1>13. g \in [0..N -> X]
  <2> HIDE DEF G, X
  <2> QED BY <1>8, <1>12
<1> QED
  <2>1. \A i \in 1..N : g[i] = IF NameOrder[i] \in DOMAIN D THEN g[i - 1] \o w[D[NameOrder[i]]] ELSE g[i - 1]
    BY <1>8
  <2> HIDE DEF X, G, N
  <2>2. g[0] = <<>>
    BY <1>8
  <2> QED BY <1>9, <1>13, <2>1, <2>2 DEF N, X

\* What the parts are and joining keeps, the whole is.
LEMMA JoinedIn ==
  ASSUME NEW D, D \in [DOMAIN D -> Objects], NEW w \in [Objects -> Seq(Objects)], NEW Z, <<>> \in Z,
         \A s, t \in Z : s \o t \in Z, \A n \in DOMAIN D : w[D[n]] \in Z
  PROVE  B!Joined(D, w) \in Z
<1> DEFINE N == Len(NameOrder)
<1>1. PICK f \in [0..N -> Seq(Objects)] :
           /\ B!Joined(D, w) = f[N]
           /\ f[0] = <<>>
           /\ \A i \in 1..N :
                f[i] = IF NameOrder[i] \in DOMAIN D THEN f[i - 1] \o w[D[NameOrder[i]]] ELSE f[i - 1]
  BY JoinedSteps
<1>2. N \in Nat
  BY NameOrderIs
<1> HIDE DEF N
<1> DEFINE S == {i \in 0..N : f[i] \in Z}
<1>3. 0 \in S
  BY <1>1, <1>2
<1>4. ASSUME NEW i \in 1..N, i - 1 \in S PROVE i \in S
  <2>1. f[i - 1] \in Z
    BY <1>4
  <2>2. f[i] \in Z
    BY <1>1, <2>1
  <2> QED BY <2>2, <1>2
<1>5. N \in S
  <2> HIDE DEF S
  <2> QED BY <1>2, <1>3, <1>4, SetInduction
<1> QED BY <1>1, <1>5

Elements(s) == {s[i] : i \in DOMAIN s}

\* Both sequences are in what they are joined to.
LEMMA ElementsOf ==
  ASSUME NEW s \in Seq(Objects), NEW t \in Seq(Objects)
  PROVE  Elements(s \o t) = Elements(s) \cup Elements(t) /\ s \o t \in Seq(Objects)
<1>1. /\ Len(s \o t) = Len(s) + Len(t) /\ s \o t \in Seq(Objects)
      /\ Len(s) \in Nat /\ Len(t) \in Nat
      /\ \A i \in 1..Len(s) : (s \o t)[i] = s[i]
      /\ \A i \in 1..Len(t) : (s \o t)[Len(s) + i] = t[i]
      /\ DOMAIN s = 1..Len(s) /\ DOMAIN t = 1..Len(t) /\ DOMAIN (s \o t) = 1..Len(s \o t)
  OBVIOUS
<1>2. ASSUME NEW x \in Elements(s) PROVE x \in Elements(s \o t)
  <2>1. PICK i \in 1..Len(s) : x = s[i]
    BY <1>1, <1>2 DEF Elements
  <2>2. i \in DOMAIN (s \o t) /\ (s \o t)[i] = x
    BY <1>1, <2>1
  <2> QED BY <2>2 DEF Elements
<1>3. ASSUME NEW x \in Elements(t) PROVE x \in Elements(s \o t)
  <2>1. PICK i \in 1..Len(t) : x = t[i]
    BY <1>1, <1>3 DEF Elements
  <2>2. Len(s) + i \in DOMAIN (s \o t) /\ (s \o t)[Len(s) + i] = x
    BY <1>1, <2>1
  <2> QED BY <2>2 DEF Elements
<1>4. ASSUME NEW x \in Elements(s \o t) PROVE x \in Elements(s) \cup Elements(t)
  <2>1. PICK i \in 1..(Len(s) + Len(t)) : x = (s \o t)[i]
    BY <1>1, <1>4 DEF Elements
  <2>2. CASE i <= Len(s)
    <3>1. i \in DOMAIN s /\ x = s[i]
      BY <1>1, <2>1, <2>2
    <3> QED BY <3>1 DEF Elements
  <2>3. CASE i > Len(s)
    <3>1. i - Len(s) \in 1..Len(t) /\ i = Len(s) + (i - Len(s))
      BY <1>1, <2>3
    <3>2. x = t[i - Len(s)] /\ i - Len(s) \in DOMAIN t
      BY <1>1, <2>1, <3>1
    <3> QED BY <3>2 DEF Elements
  <2> QED BY <1>1, <2>2, <2>3
<1> QED BY <1>1, <1>2, <1>3, <1>4

\* What is said of one type is in what is said of all.
LEMMA JoinedHas ==
  ASSUME NEW D, D \in [DOMAIN D -> Objects], DOMAIN D \subseteq Names,
         NEW w \in [Objects -> Seq(Objects)], NEW n \in DOMAIN D
  PROVE  Elements(w[D[n]]) \subseteq Elements(B!Joined(D, w))
<1> DEFINE N == Len(NameOrder)
<1>1. PICK f \in [0..N -> Seq(Objects)] :
           /\ B!Joined(D, w) = f[N]
           /\ f[0] = <<>>
           /\ \A i \in 1..N :
                f[i] = IF NameOrder[i] \in DOMAIN D THEN f[i - 1] \o w[D[NameOrder[i]]] ELSE f[i - 1]
  BY JoinedSteps
<1>2. N \in Nat
  BY NameOrderIs
<1>3. PICK k \in 1..N : NameOrder[k] = n
  BY NameOrderIs
<1> HIDE DEF N
<1> DEFINE S == {i \in 0..N : i >= k => Elements(w[D[n]]) \subseteq Elements(f[i])}
<1>4. 0 \in S
  BY <1>2
<1>5. ASSUME NEW i \in 1..N, i - 1 \in S PROVE i \in S
  <2> SUFFICES ASSUME i >= k PROVE Elements(w[D[n]]) \subseteq Elements(f[i])
    BY <1>2
  <2>1. f[i - 1] \in Seq(Objects) /\ w[D[n]] \in Seq(Objects)
    BY <1>1, <1>2
  <2>2. CASE i = k
    <3>1. f[i] = f[i - 1] \o w[D[n]]
      BY <1>1, <1>3, <2>2
    <3> QED BY <2>1, <3>1, ElementsOf
  <2>3. CASE i # k
    <3>1. Elements(w[D[n]]) \subseteq Elements(f[i - 1])
      BY <1>5, <2>3
    <3>2. CASE NameOrder[i] \in DOMAIN D
      <4>1. f[i] = f[i - 1] \o w[D[NameOrder[i]]] /\ w[D[NameOrder[i]]] \in Seq(Objects)
        BY <1>1, <3>2
      <4> QED BY <2>1, <3>1, <4>1, ElementsOf
    <3>3. CASE NameOrder[i] \notin DOMAIN D
      BY <1>1, <3>1, <3>3
    <3> QED BY <3>2, <3>3
  <2> QED BY <2>2, <2>3
<1>6. N \in S
  <2> HIDE DEF S
  <2> QED BY <1>2, <1>4, <1>5, SetInduction
<1> QED BY <1>1, <1>2, <1>6

Structure(subs) ==
  \A o \in Objects : DOMAIN subs[o] \subseteq Names /\ subs[o] \in [DOMAIN subs[o] -> Objects]

\* The depth to which Walk goes.
Depth == B!Cardinality(Objects)

\* The instance counts as FiniteSets does.
LEMMA DepthIs == Depth = Cardinality(Objects) /\ Depth \in Nat
<1>1. Depth = Cardinality(Objects)
  BY DEF Depth, B!Cardinality, Cardinality
<1> QED BY <1>1, DataStructuresAssumption, FS_CardinalityType

Walking(f, subs, before) ==
  f = [n \in 0..Depth |->
        IF n = 0 THEN [o \in Objects |-> <<o>>]
        ELSE [o \in Objects |-> LET below == B!Joined(subs[o], f[n - 1])
                                IN IF before THEN <<o>> \o below ELSE below \o <<o>>]]

\* Walk is the last of the walks of each depth.
LEMMA WalkIs ==
  ASSUME NEW subs, NEW b, NEW before
  PROVE  B!Walk(subs, b, before) = (CHOOSE f : Walking(f, subs, before))[Depth][b]
BY DEF B!Walk, Walking, Depth

Walks(f, subs, before) ==
  /\ f \in [0..Depth -> [Objects -> Seq(Objects)]]
  /\ \A b \in Objects : B!Walk(subs, b, before) = f[Depth][b]
  /\ \A o \in Objects : f[0][o] = <<o>>
  /\ \A n \in 1..Depth : \A o \in Objects :
       f[n][o] = IF before THEN <<o>> \o B!Joined(subs[o], f[n - 1])
                 ELSE B!Joined(subs[o], f[n - 1]) \o <<o>>

\* The walks of each depth from those of the depth before.
LEMMA WalkSteps ==
  ASSUME NEW subs, Structure(subs), NEW before \in BOOLEAN
  PROVE  \E f : Walks(f, subs, before)
<1> DEFINE N == Depth
           X == [Objects -> Seq(Objects)]
           E == [o \in Objects |-> <<o>>]
           J(w, o) == IF before THEN <<o>> \o B!Joined(subs[o], w) ELSE B!Joined(subs[o], w) \o <<o>>
           G(w) == [o \in Objects |-> J(w, o)]
           F == [q \in X \X (1..N) |-> G(q[1])]
<1>1. N \in Nat
  BY DepthIs
<1>2. E \in X
  OBVIOUS
<1>3. ASSUME NEW w \in X PROVE G(w) \in X
  <2>1. ASSUME NEW o \in Objects PROVE J(w, o) \in Seq(Objects)
    <3>1. \A s, t \in Seq(Objects) : s \o t \in Seq(Objects)
      OBVIOUS
    <3>2. subs[o] \in [DOMAIN subs[o] -> Objects] /\ \A n \in DOMAIN subs[o] : w[subs[o][n]] \in Seq(Objects)
      BY <1>3 DEF Structure
    <3>3. <<>> \in Seq(Objects) /\ <<o>> \in Seq(Objects)
      OBVIOUS
    <3>4. B!Joined(subs[o], w) \in Seq(Objects)
      BY <3>1, <3>2, <3>3, <1>3, JoinedIn
    <3> QED BY <3>1, <3>3, <3>4
  <2> HIDE DEF J
  <2> QED BY <2>1
<1>4. F \in [X \X (1..N) -> X]
  <2> HIDE DEF G, X
  <2> QED BY <1>3
<1>5. PICK f \in [0..N -> X] : Iteration(f, N, E, F)
  <2> HIDE DEF F, X, N, E
  <2> QED BY <1>1, <1>2, <1>4, Iterates
<1>6. ASSUME NEW i \in 0..N PROVE f[i] = IF i = 0 THEN E ELSE G(f[i - 1])
  <2>1. f[i] = IF i = 0 THEN E ELSE F[<<f[i - 1], i>>]
    <3> HIDE DEF F, X, G, N, E
    <3> QED BY <1>5 DEF Iteration
  <2>2. i # 0 => F[<<f[i - 1], i>>] = G(f[i - 1])
    <3>1. i # 0 => f[i - 1] \in X /\ i \in 1..N
      <4> HIDE DEF X, N
      <4> QED BY <1>1
    <3> HIDE DEF X, G, N
    <3> QED BY <3>1
  <2> HIDE DEF F, G, E
  <2> QED BY <2>1, <2>2
<1>7. f = [i \in 0..N |-> IF i = 0 THEN E ELSE G(f[i - 1])]
  <2>1. f = [i \in 0..N |-> f[i]]
    OBVIOUS
  <2> HIDE DEF F, X, G, N, E
  <2> QED BY <1>6, <2>1
<1>8. Walking(f, subs, before)
  BY <1>7 DEF Walking
<1> DEFINE g == CHOOSE h : Walking(h, subs, before)
<1>9. Walking(g, subs, before)
  BY <1>8
<1>10. \A b \in Objects : B!Walk(subs, b, before) = g[N][b]
  BY WalkIs
<1> HIDE DEF g
<1>11. /\ g = [i \in 0..N |-> g[i]]
       /\ g[0] = E
       /\ \A i \in 1..N : g[i] = G(g[i - 1])
  <2>1. g = [i \in 0..N |-> IF i = 0 THEN E ELSE G(g[i - 1])]
    BY <1>9 DEF Walking
  <2> HIDE DEF G, N, E
  <2>2. \A i \in 0..N : g[i] = IF i = 0 THEN E ELSE G(g[i - 1])
    BY <2>1
  <2>3. 0 \in 0..N /\ \A i \in 1..N : i \in 0..N /\ i # 0
    BY <1>1
  <2>4. g[0] = E /\ \A i \in 1..N : g[i] = G(g[i - 1])
    BY <2>2, <2>3
  <2> QED BY <2>1, <2>4
<1> DEFINE S == {i \in 0..N : g[i] \in X}
<1>12. 0 \in S
  <2> HIDE DEF G, X, N, E
  <2> QED BY <1>1, <1>2, <1>11
<1>13. ASSUME NEW i \in 1..N, i - 1 \in S PROVE i \in S
  <2>1. G(g[i - 1]) \in X /\ i \in 0..N
    <3> HIDE DEF G, X, N
    <3> QED BY <1>1, <1>3, <1>13
  <2> HIDE DEF G, X, N
  <2>2. g[i] \in X
    BY <1>11, <2>1
  <2> QED BY <2>1, <2>2
<1>14. 0..N \subseteq S
  <2> HIDE DEF S, N
  <2> QED BY <1>1, <1>12, <1>13, SetInduction
<1>15. g \in [0..N -> X]
  <2> HIDE DEF G, X, N
  <2> QED BY <1>11, <1>14
<1>16. \A o \in Objects : g[0][o] = <<o>>
  BY <1>11
<1>17. \A n \in 1..N : \A o \in Objects : g[n][o] = J(g[n - 1], o)
  <2> HIDE DEF J, N
  <2> QED BY <1>11
<1> HIDE DEF g
<1> QED
  <2> HIDE DEF N
  <2> QED BY <1>10, <1>15, <1>16, <1>17 DEF N, Walks

\* registered_subtypes maps names to builders.
LEMMA SubtypesAre ==
  ASSUME NEW bs, B!Described(bs)
  PROVE  /\ Structure(B!Registered(bs))
         /\ \A o \in Objects :
              /\ B!Registered(bs)[o] = bs[o].registered_subtypes
              /\ B!Subtypes(bs, o) \subseteq Objects
              /\ \A c : c \in B!Subtypes(bs, o) <=>
                          \E n \in DOMAIN bs[o].registered_subtypes : c = bs[o].registered_subtypes[n]
<1>1. ASSUME NEW o \in Objects
      PROVE  LET D == bs[o].registered_subtypes IN DOMAIN D \subseteq Names /\ D \in [DOMAIN D -> Objects]
  BY DataStructuresAssumption DEF B!Described, B!Builder, B!Partial
<1>2. \A o \in Objects : B!Registered(bs)[o] = bs[o].registered_subtypes
  BY DEF B!Registered
<1> QED BY <1>1, <1>2 DEF Structure, B!Subtypes, B!Range
------------------------------------------------------------------------------
(* The tree below a builder *)

\* The tree has its root.
LEMMA TreeHas == ASSUME NEW bs, NEW b \in Objects PROVE b \in B!Tree(bs, b) /\ B!Tree(bs, b) \subseteq Objects
BY DEF B!Tree

\* What a type of the tree registers is in the tree.
LEMMA TreeClosed ==
  ASSUME NEW bs, NEW b, NEW p \in B!Tree(bs, b), NEW c \in Objects, c \in B!Subtypes(bs, p)
  PROVE  c \in B!Tree(bs, b)
BY DEF B!Tree

\* Nothing else is.
LEMMA TreeLeast ==
  ASSUME NEW bs, NEW S \in SUBSET Objects, NEW b \in S, \A p \in S : B!Subtypes(bs, p) \subseteq S
  PROVE  B!Tree(bs, b) \subseteq S
BY DEF B!Tree

\* The tree of a type below is part of the tree.
LEMMA TreeIn ==
  ASSUME NEW bs, B!Described(bs), NEW b \in Objects, NEW p \in B!Tree(bs, b)
  PROVE  B!Tree(bs, p) \subseteq B!Tree(bs, b)
<1>1. B!Tree(bs, b) \in SUBSET Objects
  BY TreeHas
<1>2. \A q \in B!Tree(bs, b) : B!Subtypes(bs, q) \subseteq B!Tree(bs, b)
  BY <1>1, TreeClosed, SubtypesAre
<1> QED BY <1>1, <1>2, TreeLeast

\* No type is below itself.
LEMMA NotBelowItself ==
  ASSUME NEW bs, B!Described(bs), NEW o \in Objects, NEW c \in B!Subtypes(bs, o)
  PROVE  o \notin B!Tree(bs, c) /\ c # o /\ B!Tree(bs, c) \subseteq B!Tree(bs, o)
<1>1. c \in Objects /\ o \notin B!Tree(bs, c)
  BY SubtypesAre DEF B!Described
<1>2. c \in B!Tree(bs, o)
  BY <1>1, TreeHas, TreeClosed
<1> QED BY <1>1, <1>2, TreeHas, TreeIn

\* Whatever is in the tree and not its root is registered by something in the tree.
LEMMA HasParent ==
  ASSUME NEW bs, B!Described(bs), NEW b \in Objects, NEW o \in B!Tree(bs, b), o # b
  PROVE  \E p \in B!Tree(bs, b) : o \in B!Subtypes(bs, p)
<1> SUFFICES ASSUME \A p \in B!Tree(bs, b) : o \notin B!Subtypes(bs, p) PROVE FALSE
  OBVIOUS
<1> DEFINE S == B!Tree(bs, b) \ {o}
<1>1. S \in SUBSET Objects /\ b \in S
  BY TreeHas
<1>2. \A p \in S : B!Subtypes(bs, p) \subseteq S
  BY <1>1, TreeClosed, SubtypesAre
<1>3. B!Tree(bs, b) \subseteq S
  <2> HIDE DEF S
  <2> QED BY <1>1, <1>2, TreeLeast
<1> QED BY <1>3

\* What is below b is below something it registers.
LEMMA TreeIs ==
  ASSUME NEW bs, B!Described(bs), NEW b \in Objects
  PROVE  B!Tree(bs, b) \subseteq {b} \cup UNION {B!Tree(bs, c) : c \in B!Subtypes(bs, b)}
<1> DEFINE S == {b} \cup UNION {B!Tree(bs, c) : c \in B!Subtypes(bs, b)}
<1>1. \A c \in B!Subtypes(bs, b) : c \in Objects /\ c \in B!Tree(bs, c) /\ B!Tree(bs, c) \subseteq Objects
  BY SubtypesAre, TreeHas
<1>2. S \in SUBSET Objects /\ b \in S
  BY <1>1
<1>3. ASSUME NEW p \in S PROVE B!Subtypes(bs, p) \subseteq S
  <2>1. CASE p = b
    BY <1>1, <2>1
  <2>2. CASE p # b
    <3>1. PICK c \in B!Subtypes(bs, b) : p \in B!Tree(bs, c)
      BY <2>2
    <3>2. B!Subtypes(bs, p) \subseteq Objects
      BY <1>1, <3>1, SubtypesAre
    <3>3. B!Subtypes(bs, p) \subseteq B!Tree(bs, c)
      BY <3>1, <3>2, TreeClosed
    <3> QED BY <3>3
  <2> QED BY <2>1, <2>2
<1> HIDE DEF S
<1>4. B!Tree(bs, b) \subseteq S
  BY <1>2, <1>3, TreeLeast
<1> QED BY <1>4 DEF S
------------------------------------------------------------------------------
(* The ways through the tree *)

\* Each of s is one of R or registered by an earlier one.
Rooted(bs, s, R) ==
  \A i \in DOMAIN s : s[i] \in R \/ \E j \in 1..(i - 1) : s[i] \in B!Subtypes(bs, s[j])

\* One way after the other.
LEMMA RootedJoins ==
  ASSUME NEW bs, NEW R, NEW s \in Seq(Objects), NEW t \in Seq(Objects), Rooted(bs, s, R), Rooted(bs, t, R)
  PROVE  Rooted(bs, s \o t, R)
<1>1. /\ Len(s \o t) = Len(s) + Len(t)
      /\ Len(s) \in Nat /\ Len(t) \in Nat
      /\ \A i \in 1..Len(s) : (s \o t)[i] = s[i]
      /\ \A i \in 1..Len(t) : (s \o t)[Len(s) + i] = t[i]
      /\ DOMAIN s = 1..Len(s) /\ DOMAIN t = 1..Len(t) /\ DOMAIN (s \o t) = 1..(Len(s) + Len(t))
  OBVIOUS
<1> DEFINE st == s \o t
<1>2. ASSUME NEW i \in 1..(Len(s) + Len(t)), st[i] \notin R
      PROVE  \E j \in 1..(i - 1) : st[i] \in B!Subtypes(bs, st[j])
  <2>1. CASE i <= Len(s)
    <3>1. i \in DOMAIN s /\ st[i] = s[i]
      BY <1>1, <2>1
    <3>2. PICK j \in 1..(i - 1) : s[i] \in B!Subtypes(bs, s[j])
      BY <1>2, <3>1 DEF Rooted
    <3>3. st[j] = s[j]
      BY <1>1, <2>1
    <3> QED BY <3>1, <3>2, <3>3
  <2>2. CASE i > Len(s)
    <3> DEFINE k == i - Len(s)
    <3>1. k \in 1..Len(t) /\ st[i] = t[k]
      <4>1. k \in 1..Len(t) /\ i = Len(s) + k
        BY <1>1, <2>2
      <4> QED BY <1>1, <4>1
    <3>2. PICK j \in 1..(k - 1) : t[k] \in B!Subtypes(bs, t[j])
      BY <1>1, <1>2, <3>1 DEF Rooted
    <3>3. j \in 1..Len(t) /\ Len(s) + j \in 1..(i - 1)
      BY <1>1, <3>1
    <3>4. st[Len(s) + j] = t[j]
      BY <1>1, <3>3
    <3> HIDE DEF st, k
    <3> QED BY <3>1, <3>2, <3>3, <3>4
  <2>3. i <= Len(s) \/ i > Len(s)
    BY <1>1
  <2> QED BY <2>1, <2>2, <2>3
<1> QED BY <1>1, <1>2 DEF Rooted

\* Joined goes through what o registers, and so does Walk through the tree.
LEMMA WalkIn ==
  ASSUME NEW bs, B!Described(bs), NEW b \in Objects, NEW before \in BOOLEAN
  PROVE  LET types == B!Walk(B!Registered(bs), b, before)
         IN types \in Seq(Objects) /\ Elements(types) = B!Tree(bs, b)
<1> DEFINE subs == B!Registered(bs)
<1>0. Structure(subs)
  BY SubtypesAre
<1> HIDE DEF subs
<1>9. Depth \in Nat
  BY DepthIs
<1>10. PICK f : Walks(f, subs, before)
  BY <1>0, WalkSteps
<1>1. /\ f \in [0..Depth -> [Objects -> Seq(Objects)]]
      /\ \A o \in Objects : B!Walk(subs, o, before) = f[Depth][o]
      /\ \A o \in Objects : f[0][o] = <<o>>
      /\ \A n \in 1..Depth : \A o \in Objects :
           f[n][o] = IF before THEN <<o>> \o B!Joined(subs[o], f[n - 1])
                     ELSE B!Joined(subs[o], f[n - 1]) \o <<o>>
  BY <1>10 DEF Walks
<1>2. \A o \in Objects : /\ subs[o] \in [DOMAIN subs[o] -> Objects] /\ DOMAIN subs[o] \subseteq Names
                         /\ \A c : c \in B!Subtypes(bs, o) <=> \E n \in DOMAIN subs[o] : c = subs[o][n]
  BY <1>0, SubtypesAre DEF Structure, subs
<1>3. \A o \in Objects : <<o>> \in Seq(Objects) /\ Elements(<<o>>) = {o}
  BY DEF Elements
<1>4. ASSUME NEW n \in 1..Depth, NEW o \in Objects
      PROVE  LET J == B!Joined(subs[o], f[n - 1])
             IN J \in Seq(Objects) /\ f[n][o] \in Seq(Objects) /\ Elements(f[n][o]) = {o} \cup Elements(J)
  <2> DEFINE J == B!Joined(subs[o], f[n - 1])
  <2>1. \A s, t \in Seq(Objects) : s \o t \in Seq(Objects)
    OBVIOUS
  <2>2. f[n - 1] \in [Objects -> Seq(Objects)]
    <3>1. n - 1 \in 0..Depth
      BY <1>9
    <3> QED BY <1>1, <3>1
  <2>3. J \in Seq(Objects)
    <3>1. <<>> \in Seq(Objects) /\ \A m \in DOMAIN subs[o] : f[n - 1][subs[o][m]] \in Seq(Objects)
      BY <1>2, <2>2
    <3> QED BY <1>2, <2>1, <2>2, <3>1, JoinedIn
  <2>4. f[n][o] = IF before THEN <<o>> \o J ELSE J \o <<o>>
    BY <1>1
  <2> HIDE DEF J
  <2>5. /\ Elements(<<o>> \o J) = {o} \cup Elements(J) /\ Elements(J \o <<o>>) = Elements(J) \cup {o}
        /\ <<o>> \o J \in Seq(Objects) /\ J \o <<o>> \in Seq(Objects)
    <3>1. <<o>> \in Seq(Objects) /\ Elements(<<o>>) = {o}
      BY <1>3
    <3> QED BY <3>1, <2>1, <2>3, ElementsOf
  <2>6. Elements(f[n][o]) = {o} \cup Elements(J) /\ f[n][o] \in Seq(Objects)
    BY <2>4, <2>5
  <2> QED BY <2>3, <2>6 DEF J
<1>5. ASSUME NEW o \in Objects PROVE Elements(f[Depth][o]) \subseteq B!Tree(bs, o)
  <2> DEFINE S == {n \in 0..Depth : \A p \in Objects : Elements(f[n][p]) \subseteq B!Tree(bs, p)}
  <2>1. 0 \in S
    <3>1. \A p \in Objects : Elements(f[0][p]) \subseteq B!Tree(bs, p)
      BY <1>1, <1>3, TreeHas
    <3> QED BY <3>1, <1>9
  <2>2. ASSUME NEW n \in 1..Depth, n - 1 \in S PROVE n \in S
    <3>1. ASSUME NEW p \in Objects PROVE Elements(f[n][p]) \subseteq B!Tree(bs, p)
      <4> DEFINE Z == {s \in Seq(Objects) : Elements(s) \subseteq B!Tree(bs, p)}
      <4>1. <<>> \in Z
        BY DEF Elements
      <4>2. ASSUME NEW s \in Z, NEW t \in Z PROVE s \o t \in Z
        <5>1. Elements(s \o t) = Elements(s) \cup Elements(t) /\ s \o t \in Seq(Objects)
          BY ElementsOf
        <5> QED BY <5>1
      <4>3. f[n - 1] \in [Objects -> Seq(Objects)]
        <5>1. n - 1 \in 0..Depth
          BY <1>9
        <5> QED BY <1>1, <5>1
      <4>4. ASSUME NEW m \in DOMAIN subs[p] PROVE f[n - 1][subs[p][m]] \in Z
        <5>1. subs[p][m] \in Objects /\ subs[p][m] \in B!Subtypes(bs, p)
          BY <1>2
        <5>2. Elements(f[n - 1][subs[p][m]]) \subseteq B!Tree(bs, subs[p][m])
          BY <2>2, <5>1
        <5>3. B!Tree(bs, subs[p][m]) \subseteq B!Tree(bs, p)
          BY <5>1, NotBelowItself
        <5> QED BY <4>3, <5>1, <5>2, <5>3
      <4>5. B!Joined(subs[p], f[n - 1]) \in Z
        <5> HIDE DEF Z
        <5> QED BY <1>2, <4>1, <4>2, <4>3, <4>4, JoinedIn
      <4>6. Elements(f[n][p]) = {p} \cup Elements(B!Joined(subs[p], f[n - 1]))
        BY <1>4
      <4> QED BY <4>5, <4>6, TreeHas
    <3> QED BY <3>1, <1>9
  <2>3. Depth \in S
    <3> HIDE DEF S
    <3> QED BY <1>9, <2>1, <2>2, SetInduction
  <2> QED BY <2>3
<1>6. ASSUME NEW o \in Objects PROVE B!Tree(bs, o) \subseteq Elements(f[Depth][o])
  <2> DEFINE Size(p) == Cardinality(B!Tree(bs, p))
             S == {n \in 0..Depth : \A p \in Objects : Size(p) <= n + 1 => B!Tree(bs, p) \subseteq Elements(f[n][p])}
  <2>1. ASSUME NEW p \in Objects PROVE IsFiniteSet(B!Tree(bs, p)) /\ Size(p) \in Nat /\ Size(p) <= Depth /\ Size(p) > 0
    <3>1. IsFiniteSet(B!Tree(bs, p)) /\ Size(p) <= Cardinality(Objects)
      BY TreeHas, DataStructuresAssumption, FS_Subset
    <3>2. Size(p) \in Nat /\ (Size(p) = 0 <=> B!Tree(bs, p) = {})
      BY <3>1, FS_CardinalityType, FS_EmptySet
    <3> HIDE DEF Size
    <3> QED BY <3>1, <3>2, DepthIs, TreeHas
  <2>2. ASSUME NEW p \in Objects, NEW c \in B!Subtypes(bs, p) PROVE Size(c) < Size(p) /\ c \in Objects
    <3>1. p \notin B!Tree(bs, c) /\ B!Tree(bs, c) \subseteq B!Tree(bs, p) /\ p \in B!Tree(bs, p) /\ c \in Objects
      BY NotBelowItself, TreeHas, SubtypesAre
    <3>2. Size(c) <= Size(p) /\ (Size(c) = Size(p) => B!Tree(bs, c) = B!Tree(bs, p))
      BY <2>1, <3>1, FS_Subset
    <3>3. Size(c) \in Nat /\ Size(p) \in Nat
      BY <2>1, <3>1
    <3> HIDE DEF Size
    <3> QED BY <3>1, <3>2, <3>3
  <2> HIDE DEF Size
  <2>3. 0 \in S
    <3>1. ASSUME NEW p \in Objects, Size(p) <= 0 + 1 PROVE B!Tree(bs, p) \subseteq Elements(f[0][p])
      <4>1. B!Subtypes(bs, p) = {}
        BY <2>1, <2>2, <3>1
      <4>2. B!Tree(bs, p) \subseteq {p}
        BY <4>1, TreeIs
      <4> QED BY <4>2, <1>1, <1>3
    <3> QED BY <3>1, <1>9
  <2>4. ASSUME NEW n \in 1..Depth, n - 1 \in S PROVE n \in S
    <3>1. ASSUME NEW p \in Objects, Size(p) <= n + 1 PROVE B!Tree(bs, p) \subseteq Elements(f[n][p])
      <4>1. ASSUME NEW c \in B!Subtypes(bs, p) PROVE B!Tree(bs, c) \subseteq Elements(f[n][p])
        <5>1. PICK m \in DOMAIN subs[p] : c = subs[p][m]
          BY <1>2
        <5>2. c \in Objects /\ Size(c) <= (n - 1) + 1
          <6>1. c \in Objects /\ Size(c) < Size(p)
            BY <2>2
          <6>2. Size(c) \in Nat /\ Size(p) \in Nat
            BY <2>1, <6>1
          <6> QED BY <3>1, <6>1, <6>2
        <5>3. B!Tree(bs, c) \subseteq Elements(f[n - 1][c])
          BY <2>4, <5>2
        <5>4. f[n - 1] \in [Objects -> Seq(Objects)]
          <6>1. n - 1 \in 0..Depth
            BY <1>9
          <6> QED BY <1>1, <6>1
        <5>5. Elements(f[n - 1][c]) \subseteq Elements(B!Joined(subs[p], f[n - 1]))
          BY <1>2, <5>1, <5>4, JoinedHas
        <5>6. Elements(f[n][p]) = {p} \cup Elements(B!Joined(subs[p], f[n - 1]))
          BY <1>4
        <5> QED BY <5>3, <5>5, <5>6
      <4>2. p \in Elements(f[n][p])
        BY <1>4
      <4>3. UNION {B!Tree(bs, c) : c \in B!Subtypes(bs, p)} \subseteq Elements(f[n][p])
        BY <4>1
      <4> QED BY <4>2, <4>3, TreeIs
    <3> QED BY <3>1, <1>9
  <2>5. Depth \in S
    <3> HIDE DEF S
    <3> QED BY <1>9, <2>3, <2>4, SetInduction
  <2>6. Size(o) <= Depth + 1
    BY <1>9, <2>1
  <2> QED BY <2>5, <2>6
<1>7. f[Depth][b] \in Seq(Objects)
  BY <1>1, <1>9
<1> QED BY <1>1, <1>5, <1>6, <1>7 DEF subs

\* Each type comes after one that registers it.
LEMMA PreOrder ==
  ASSUME NEW bs, B!Described(bs), NEW b \in Objects
  PROVE  Rooted(bs, B!Walk(B!Registered(bs), b, TRUE), {b})
<1> DEFINE subs == B!Registered(bs)
<1>1. Structure(subs)
  BY SubtypesAre
<1> HIDE DEF subs
<1>2. Depth \in Nat
  BY DepthIs
<1>3. PICK f : Walks(f, subs, TRUE)
  BY <1>1, WalkSteps
<1>4. /\ f \in [0..Depth -> [Objects -> Seq(Objects)]]
      /\ \A o \in Objects : B!Walk(subs, o, TRUE) = f[Depth][o]
      /\ \A o \in Objects : f[0][o] = <<o>>
      /\ \A n \in 1..Depth : \A o \in Objects : f[n][o] = <<o>> \o B!Joined(subs[o], f[n - 1])
  BY <1>3 DEF Walks
<1>5. \A o \in Objects : /\ subs[o] \in [DOMAIN subs[o] -> Objects]
                         /\ \A m \in DOMAIN subs[o] : subs[o][m] \in B!Subtypes(bs, o)
  BY <1>1, SubtypesAre DEF Structure, subs
<1> DEFINE S == {n \in 0..Depth : \A o \in Objects : Rooted(bs, f[n][o], {o})}
<1>6. 0 \in S
  <2>1. ASSUME NEW o \in Objects PROVE Rooted(bs, f[0][o], {o})
    <3>1. f[0][o] = <<o>>
      BY <1>4
    <3> QED BY <3>1 DEF Rooted
  <2> QED BY <2>1, <1>2
<1>7. ASSUME NEW n \in 1..Depth, n - 1 \in S PROVE n \in S
  <2>1. ASSUME NEW o \in Objects PROVE Rooted(bs, f[n][o], {o})
    <3> DEFINE Z == {s \in Seq(Objects) : Rooted(bs, s, B!Subtypes(bs, o))}
               J == B!Joined(subs[o], f[n - 1])
    <3>1. <<>> \in Z
      BY DEF Rooted
    <3>2. ASSUME NEW s \in Z, NEW t \in Z PROVE s \o t \in Z
      <4>1. s \o t \in Seq(Objects)
        OBVIOUS
      <4>2. Rooted(bs, s \o t, B!Subtypes(bs, o))
        BY RootedJoins
      <4> QED BY <4>1, <4>2
    <3>3. f[n - 1] \in [Objects -> Seq(Objects)]
      <4>1. n - 1 \in 0..Depth
        BY <1>2
      <4> QED BY <1>4, <4>1
    <3>4. ASSUME NEW m \in DOMAIN subs[o] PROVE f[n - 1][subs[o][m]] \in Z
      <4>1. subs[o][m] \in Objects /\ subs[o][m] \in B!Subtypes(bs, o)
        BY <1>5
      <4>2. Rooted(bs, f[n - 1][subs[o][m]], {subs[o][m]})
        BY <1>7, <4>1
      <4>3. Rooted(bs, f[n - 1][subs[o][m]], B!Subtypes(bs, o))
        BY <4>1, <4>2 DEF Rooted
      <4> QED BY <3>3, <4>1, <4>3
    <3>5. J \in Z
      <4> HIDE DEF Z
      <4> QED BY <1>5, <3>1, <3>2, <3>3, <3>4, JoinedIn
    <3> HIDE DEF J
    <3>6. J \in Seq(Objects) /\ Rooted(bs, J, B!Subtypes(bs, o))
      BY <3>5
    <3> DEFINE s == <<o>> \o J
    <3>7. /\ Len(J) \in Nat /\ DOMAIN J = 1..Len(J) /\ DOMAIN s = 1..(Len(J) + 1) /\ s[1] = o
          /\ \A i \in 1..Len(J) : s[i + 1] = J[i]
      BY <3>6
    <3>8. ASSUME NEW i \in 1..(Len(J) + 1), i # 1 PROVE \E j \in 1..(i - 1) : s[i] \in B!Subtypes(bs, s[j])
      <4> DEFINE k == i - 1
      <4>1. k \in 1..Len(J) /\ s[i] = J[k]
        <5>1. k \in 1..Len(J) /\ i = k + 1
          BY <3>7, <3>8
        <5> QED BY <3>7, <5>1
      <4>2. CASE J[k] \in B!Subtypes(bs, o)
        <5>1. 1 \in 1..(i - 1) /\ s[1] = o
          BY <3>7, <3>8
        <5> QED BY <4>1, <4>2, <5>1
      <4>3. CASE J[k] \notin B!Subtypes(bs, o)
        <5>1. PICK j \in 1..(k - 1) : J[k] \in B!Subtypes(bs, J[j])
          BY <3>6, <3>7, <4>1, <4>3 DEF Rooted
        <5>2. j \in 1..Len(J) /\ j + 1 \in 1..(i - 1)
          BY <3>7, <4>1
        <5>3. s[j + 1] = J[j]
          BY <3>7, <5>2
        <5> HIDE DEF s, k
        <5> QED BY <4>1, <5>1, <5>2, <5>3
      <4> QED BY <4>2, <4>3
    <3>9. f[n][o] = s
      BY <1>4 DEF J
    <3> HIDE DEF s
    <3> QED BY <3>7, <3>8, <3>9 DEF Rooted
  <2> QED BY <2>1, <1>2
<1>8. Depth \in S
  <2> HIDE DEF S
  <2> QED BY <1>2, <1>6, <1>7, SetInduction
<1> QED BY <1>4, <1>8 DEF subs
------------------------------------------------------------------------------
(* What is reached *)

\* Functions and statements, by type and name.
LEMMA FunctionsAre ==
  ASSUME NEW bs, B!Described(bs)
  PROVE  /\ \A o \in Objects : \A f \in DOMAIN bs[o].functions :
              <<o, f>> \in B!Functions(bs) /\ bs[o].functions[f] \subseteq B!Uses
         /\ \A q \in B!Functions(bs) : \E o \in Objects : \E f \in DOMAIN bs[o].functions : q = <<o, f>>
         /\ \A o \in Objects : \A u : u \in B!All(bs, o) <=> \E f \in DOMAIN bs[o].functions : u \in bs[o].functions[f]
<1>1. \A o \in Objects : bs[o].functions \in [DOMAIN bs[o].functions -> SUBSET B!Uses]
  BY DEF B!Described, B!Builder, B!Partial
<1> QED BY <1>1 DEF B!Functions, B!All, B!Range

\* The functions of b are reached, and what they call.
LEMMA ReachedHas ==
  ASSUME NEW bs, B!Described(bs), NEW b \in Objects
  PROVE  /\ \A f \in DOMAIN bs[b].functions : <<b, f>> \in B!Reached(bs, b)
         /\ \A q \in B!Reached(bs, b) : \A x \in B!CalledFrom(bs, q) \cap B!Functions(bs) : x \in B!Reached(bs, b)
         /\ B!Reached(bs, b) \subseteq B!Functions(bs)
BY FunctionsAre DEF B!Reached

\* Nothing else is.
LEMMA ReachedLeast ==
  ASSUME NEW bs, NEW b \in Objects, NEW S \in SUBSET B!Functions(bs),
         \A f \in DOMAIN bs[b].functions : <<b, f>> \in S,
         \A q \in S : B!CalledFrom(bs, q) \cap B!Functions(bs) \subseteq S
  PROVE  B!Reached(bs, b) \subseteq S
BY DEF B!Reached

\* In an orderly tree only functions of the tree are reached, each from one that is.
LEMMA ReachedIs ==
  ASSUME NEW bs, B!Described(bs), NEW b \in Objects, B!Orderly(bs, b)
  PROVE  /\ \A o, g : <<o, g>> \in B!Reached(bs, b) => o \in B!Tree(bs, b) /\ g \in DOMAIN bs[o].functions
         /\ \A o, g : <<o, g>> \in B!Reached(bs, b) /\ o # b =>
              \E p \in Objects : \E f \in DOMAIN bs[p].functions :
                <<p, f>> \in B!Reached(bs, b) /\ <<o, g>> \in B!CalledFrom(bs, <<p, f>>)
<1> DEFINE R == B!Reached(bs, b)
           F == B!Functions(bs)
           T == B!Tree(bs, b)
<1>1. /\ \A f \in DOMAIN bs[b].functions : <<b, f>> \in R /\ <<b, f>> \in F
      /\ \A q \in R : \A x \in B!CalledFrom(bs, q) \cap F : x \in R
      /\ R \subseteq F
      /\ \A q \in F : \E o \in Objects : \E f \in DOMAIN bs[o].functions : q = <<o, f>>
  BY ReachedHas, FunctionsAre
<1>2. b \in T /\ T \subseteq Objects
  BY TreeHas
<1>3. R \subseteq {q \in F : q[1] \in T}
  <2> DEFINE S == {q \in F : q[1] \in T}
  <2>1. S \in SUBSET F
    OBVIOUS
  <2>2. \A f \in DOMAIN bs[b].functions : <<b, f>> \in S
    BY <1>1, <1>2
  <2>3. ASSUME NEW q \in S, NEW x \in B!CalledFrom(bs, q) \cap F PROVE x \in S
    <3>1. PICK o \in Objects : \E f \in DOMAIN bs[o].functions : q = <<o, f>>
      BY <1>1
    <3>10. PICK f \in DOMAIN bs[o].functions : q = <<o, f>>
      BY <3>1
    <3>2. o \in T
      BY <3>10
    <3>3. PICK u \in bs[o].functions[f] : u.op = "METHOD_CALL" /\ x = <<u.on, u.fn>>
      BY <3>10 DEF B!CalledFrom
    <3>4. u.on \in B!Subtypes(bs, o) /\ u.on \in Objects
      <4>1. u \in B!Calls(B!All(bs, o))
        BY <3>3, FunctionsAre DEF B!Calls
      <4>2. u.on \in B!Subtypes(bs, o)
        BY <4>1, <3>2 DEF B!Orderly
      <4> QED BY <4>2, SubtypesAre
    <3>5. u.on \in T
      BY <3>2, <3>4, TreeClosed
    <3> QED BY <3>3, <3>5
  <2> HIDE DEF S, F
  <2>4. R \subseteq S
    BY <2>1, <2>2, <2>3, ReachedLeast DEF F
  <2> QED BY <2>4 DEF S
<1>4. \A o, g : <<o, g>> \in R => o \in T /\ g \in DOMAIN bs[o].functions
  BY <1>1, <1>3
<1>5. ASSUME NEW o, NEW g, <<o, g>> \in R, o # b,
             \A p \in Objects : \A f \in DOMAIN bs[p].functions :
                <<p, f>> \in R => <<o, g>> \notin B!CalledFrom(bs, <<p, f>>)
      PROVE FALSE
  <2> DEFINE S == R \ {<<o, g>>}
  <2>1. S \in SUBSET F
    BY <1>1
  <2>2. \A f \in DOMAIN bs[b].functions : <<b, f>> \in S
    BY <1>1, <1>5
  <2>3. ASSUME NEW q \in S, NEW x \in B!CalledFrom(bs, q) \cap F PROVE x \in S
    <3>1. x \in R
      BY <1>1
    <3>2. \E p \in Objects : \E f \in DOMAIN bs[p].functions : q = <<p, f>>
      BY <1>1
    <3>3. x # <<o, g>>
      BY <3>2, <1>5
    <3> QED BY <3>1, <3>3
  <2> HIDE DEF S, F
  <2>4. B!Reached(bs, b) \subseteq S
    BY <2>1, <2>2, <2>3, ReachedLeast DEF F
  <2> QED BY <2>4, <1>5 DEF S
<1> HIDE DEF T, F, R
<1> QED BY <1>4, <1>5 DEF T, R
------------------------------------------------------------------------------
(* The pass over the functions *)

ReachedOf(bs, R, o) == {f \in DOMAIN bs[o].functions : <<o, f>> \in R}

\* bs where the types of V are cleaned of what is not in R.
Cleared(bs, R, V) ==
  [o \in Objects |-> IF o \in V
                     THEN [bs[o] EXCEPT !.functions = [f \in ReachedOf(bs, R, o) |-> bs[o].functions[f]]]
                     ELSE bs[o]]

IsCleared(cs, bs, R, V) ==
  \A o \in Objects :
    /\ cs[o] = [name |-> bs[o].name, attributes |-> bs[o].attributes, functions |-> cs[o].functions,
                registered_subtypes |-> bs[o].registered_subtypes]
    /\ cs[o].name = bs[o].name /\ cs[o].attributes = bs[o].attributes
    /\ cs[o].registered_subtypes = bs[o].registered_subtypes
    /\ B!Subtypes(cs, o) = B!Subtypes(bs, o)
    /\ o \in V => cs[o].functions = [f \in ReachedOf(bs, R, o) |-> bs[o].functions[f]]
    /\ o \notin V => cs[o] = bs[o]

\* Functions are all that is cleaned.
LEMMA ClearedIs ==
  ASSUME NEW bs, B!Described(bs), NEW R, NEW V
  PROVE  IsCleared(Cleared(bs, R, V), bs, R, V)
<1> DEFINE cs == Cleared(bs, R, V)
<1> SUFFICES ASSUME NEW o \in Objects
             PROVE  /\ cs[o] = [name |-> bs[o].name, attributes |-> bs[o].attributes, functions |-> cs[o].functions,
                                registered_subtypes |-> bs[o].registered_subtypes]
                    /\ cs[o].name = bs[o].name /\ cs[o].attributes = bs[o].attributes
                    /\ cs[o].registered_subtypes = bs[o].registered_subtypes
                    /\ B!Subtypes(cs, o) = B!Subtypes(bs, o)
                    /\ o \in V => cs[o].functions = [f \in ReachedOf(bs, R, o) |-> bs[o].functions[f]]
                    /\ o \notin V => cs[o] = bs[o]
  BY DEF IsCleared
<1>1. bs[o] = [name |-> bs[o].name, attributes |-> bs[o].attributes, functions |-> bs[o].functions,
               registered_subtypes |-> bs[o].registered_subtypes]
  BY DEF B!Described, B!Builder
<1>2. cs[o] = IF o \in V
                     THEN [bs[o] EXCEPT !.functions = [f \in ReachedOf(bs, R, o) |-> bs[o].functions[f]]]
                     ELSE bs[o]
  BY DEF Cleared
<1>3. [bs[o] EXCEPT !.functions = [f \in ReachedOf(bs, R, o) |-> bs[o].functions[f]]] =
        [name |-> bs[o].name, attributes |-> bs[o].attributes,
         functions |-> [f \in ReachedOf(bs, R, o) |-> bs[o].functions[f]],
         registered_subtypes |-> bs[o].registered_subtypes]
  BY <1>1
<1> HIDE DEF cs
<1> QED BY <1>1, <1>2, <1>3 DEF B!Subtypes

\* A step of the pass cleans what p registers, when p is clean already.
LEMMA CleanStep ==
  ASSUME NEW bs, B!Described(bs), NEW b \in Objects, B!Orderly(bs, b), NEW V \in SUBSET Objects, b \notin V,
         NEW p \in B!Tree(bs, b), p = b \/ p \in V
  PROVE  LET R == B!Reached(bs, b)
         IN B!DropUnused(Cleared(bs, R, V), p) = Cleared(bs, R, V \cup B!Subtypes(bs, p))
<1> DEFINE R == B!Reached(bs, b)
           cs == Cleared(bs, R, V)
           ds == Cleared(bs, R, V \cup B!Subtypes(bs, p))
           T == B!Tree(bs, b)
<1>1. p \in Objects /\ T \subseteq Objects /\ B!Subtypes(bs, p) \subseteq Objects
  BY TreeHas, SubtypesAre
<1>9. cs = Cleared(bs, R, V) /\ ds = Cleared(bs, R, V \cup B!Subtypes(bs, p))
  OBVIOUS
<1> HIDE DEF R, cs, ds
<1>10. IsCleared(cs, bs, R, V) /\ IsCleared(ds, bs, R, V \cup B!Subtypes(bs, p))
  BY <1>9, ClearedIs
<1>2. \A o \in Objects : cs[o].name = bs[o].name /\ B!Subtypes(cs, o) = B!Subtypes(bs, o)
  BY <1>10 DEF IsCleared
<1>3. /\ DOMAIN cs[p].functions = ReachedOf(bs, R, p)
      /\ \A f \in ReachedOf(bs, R, p) : cs[p].functions[f] = bs[p].functions[f]
  <2>1. CASE p \in V
    <3>1. cs[p].functions = [f \in ReachedOf(bs, R, p) |-> bs[p].functions[f]]
      BY <1>1, <1>10, <2>1 DEF IsCleared
    <3> QED BY <3>1
  <2>2. CASE p \notin V
    <3>1. p = b /\ cs[p] = bs[p]
      BY <1>1, <1>10, <2>2 DEF IsCleared
    <3>2. ReachedOf(bs, R, b) = DOMAIN bs[b].functions
      BY ReachedHas DEF ReachedOf, R
    <3> QED BY <3>1, <3>2
  <2> QED BY <2>1, <2>2
<1>4. \A u : u \in B!Calls(B!Visited(cs, p)) <=>
               \E f \in ReachedOf(bs, R, p) : u \in bs[p].functions[f] /\ ~u.in_loop /\ u.op = "METHOD_CALL"
  BY <1>3 DEF B!Calls, B!Visited, B!Range
<1>5. ASSUME NEW o \in B!Subtypes(bs, p), NEW g \in DOMAIN bs[o].functions
      PROVE  g \in B!FnUsage(cs, p, bs[o].name) <=> <<o, g>> \in R
  <2>1. o \in Objects /\ o \in T /\ o # b
    <3>1. o \in Objects /\ o \in T
      BY <1>1, TreeClosed
    <3>2. p \notin B!Tree(bs, o)
      BY <1>1, NotBelowItself
    <3> QED BY <3>1, <3>2
  <2>2. ASSUME NEW u \in B!Calls(B!Visited(cs, p)) PROVE u.on \in B!Subtypes(bs, p) /\ u.on \in T /\ u.on \in Objects
    <3>1. PICK f \in ReachedOf(bs, R, p) : u \in bs[p].functions[f] /\ u.op = "METHOD_CALL"
      BY <1>4
    <3>2. u \in B!Calls(B!All(bs, p))
      BY <1>1, <3>1, FunctionsAre DEF B!Calls, ReachedOf
    <3>3. u.on \in B!Subtypes(bs, p)
      BY <3>2 DEF B!Orderly
    <3> QED BY <1>1, <3>3, TreeClosed
  <2>3. g \in B!FnUsage(cs, p, bs[o].name) <=> \E u \in B!Calls(B!Visited(cs, p)) : u.fn = g /\ u.on = o
    <3>1. \A u \in B!Calls(B!Visited(cs, p)) : cs[u.on].name = bs[o].name <=> u.on = o
      <4>1. \A x, y \in T : bs[x].name = bs[y].name => x = y
        BY DEF B!Orderly
      <4> QED BY <1>2, <2>1, <2>2, <4>1
    <3> QED BY <3>1 DEF B!FnUsage
  <2>4. ASSUME NEW u \in B!Calls(B!Visited(cs, p)), u.fn = g, u.on = o PROVE <<o, g>> \in R
    <3>1. PICK f \in ReachedOf(bs, R, p) : u \in bs[p].functions[f] /\ ~u.in_loop /\ u.op = "METHOD_CALL"
      BY <1>4
    <3>2. <<p, f>> \in R /\ <<o, g>> \in B!CalledFrom(bs, <<p, f>>)
      BY <2>4, <3>1 DEF ReachedOf, B!CalledFrom
    <3>3. <<o, g>> \in B!Functions(bs)
      BY <2>1, FunctionsAre
    <3> QED BY <3>2, <3>3, ReachedHas DEF R
  <2>5. ASSUME <<o, g>> \in R PROVE \E u \in B!Calls(B!Visited(cs, p)) : u.fn = g /\ u.on = o
    <3>1. PICK q \in Objects : \E f \in DOMAIN bs[q].functions :
                <<q, f>> \in R /\ <<o, g>> \in B!CalledFrom(bs, <<q, f>>)
      BY <2>1, <2>5, ReachedIs DEF R
    <3>2. PICK f \in DOMAIN bs[q].functions : <<q, f>> \in R /\ <<o, g>> \in B!CalledFrom(bs, <<q, f>>)
      BY <3>1
    <3>3. PICK u \in bs[q].functions[f] : u.op = "METHOD_CALL" /\ ~u.in_loop /\ u.on = o /\ u.fn = g
      BY <3>2 DEF B!CalledFrom
    <3>4. q \in T /\ u \in B!Calls(B!All(bs, q))
      BY <3>2, <3>3, ReachedIs, FunctionsAre DEF B!Calls, R
    <3>5. o \in B!Subtypes(bs, q)
      BY <3>3, <3>4 DEF B!Orderly
    <3>6. q = p
      BY <2>1, <3>4, <3>5 DEF B!Orderly
    <3>7. u \in B!Calls(B!Visited(cs, p))
      BY <1>4, <3>2, <3>3, <3>6 DEF ReachedOf
    <3> QED BY <3>3, <3>7
  <2> QED BY <2>3, <2>4, <2>5
<1>6. ASSUME NEW o \in Objects PROVE B!DropUnused(cs, p)[o] = ds[o]
  <2>1. CASE o \in B!Subtypes(bs, p)
    <3> DEFINE K == DOMAIN cs[o].functions \cap B!FnUsage(cs, p, cs[o].name)
               g == [f \in K |-> cs[o].functions[f]]
               h == [f \in ReachedOf(bs, R, o) |-> bs[o].functions[f]]
    <3>1. B!DropUnused(cs, p)[o] = [cs[o] EXCEPT !.functions = g]
      BY <1>1, <1>2, <2>1 DEF B!DropUnused, B!Restrict
    <3>2. /\ cs[o] = [name |-> bs[o].name, attributes |-> bs[o].attributes, functions |-> cs[o].functions,
                      registered_subtypes |-> bs[o].registered_subtypes]
          /\ cs[o].functions = h \/ cs[o].functions = bs[o].functions
      BY <1>10 DEF IsCleared
    <3>3. K = ReachedOf(bs, R, o) /\ \A f \in K : cs[o].functions[f] = bs[o].functions[f]
      <4>1. \A f \in ReachedOf(bs, R, o) : f \in DOMAIN cs[o].functions /\ cs[o].functions[f] = bs[o].functions[f]
        BY <3>2 DEF ReachedOf
      <4>2. \A f \in DOMAIN cs[o].functions : f \in DOMAIN bs[o].functions
        BY <3>2 DEF ReachedOf
      <4>3. \A f \in DOMAIN bs[o].functions : f \in B!FnUsage(cs, p, cs[o].name) <=> <<o, f>> \in R
        BY <1>2, <1>5, <2>1
      <4> HIDE DEF h
      <4> QED BY <4>1, <4>2, <4>3 DEF ReachedOf
    <3>4. g = h
      BY <3>3
    <3>5. ds[o] = [name |-> bs[o].name, attributes |-> bs[o].attributes, functions |-> h,
                   registered_subtypes |-> bs[o].registered_subtypes]
      <4>1. o \in V \cup B!Subtypes(bs, p)
        BY <2>1
      <4>2. /\ ds[o] = [name |-> bs[o].name, attributes |-> bs[o].attributes, functions |-> ds[o].functions,
                        registered_subtypes |-> bs[o].registered_subtypes]
            /\ ds[o].functions = h
        BY <1>10, <4>1 DEF IsCleared
      <4> QED BY <4>2
    <3> HIDE DEF g, h
    <3> QED BY <3>1, <3>2, <3>4, <3>5
  <2>2. CASE o \notin B!Subtypes(bs, p)
    <3>1. B!DropUnused(cs, p)[o] = cs[o]
      BY <1>1, <1>2, <2>2 DEF B!DropUnused
    <3>2. o \in V <=> o \in V \cup B!Subtypes(bs, p)
      BY <2>2
    <3>3. cs[o] = ds[o]
      BY <1>9, <3>2 DEF Cleared
    <3> QED BY <3>1, <3>3
  <2> QED BY <2>1, <2>2
<1>7. B!DropUnused(cs, p) = [o \in Objects |-> B!DropUnused(cs, p)[o]] /\ ds = [o \in Objects |-> ds[o]]
  BY <1>9 DEF B!DropUnused, Cleared
<1>8. B!DropUnused(cs, p) = ds
  BY <1>6, <1>7
<1> QED BY <1>8, <1>9 DEF R

\* The pass as a sequence of states.
Passing(f, bs, types) ==
  f = [i \in 0..Len(types) |-> IF i = 0 THEN [ok |-> TRUE, bs |-> bs] ELSE B!RemoveUnused(f[i - 1], types[i])]

Passes(f, bs, types) ==
  /\ f[0] = [ok |-> TRUE, bs |-> bs]
  /\ \A i \in 1..Len(types) : f[i] = B!RemoveUnused(f[i - 1], types[i])

\* Passed is the last state of the pass.
LEMMA PassedIs ==
  ASSUME NEW bs, NEW b
  PROVE  LET types == B!Walk(B!Registered(bs), b, TRUE)
         IN B!Passed(bs, b) = (CHOOSE f : Passing(f, bs, types))[Len(types)]
BY DEF B!Passed, Passing

\* A sequence is as long as a number.
LEMMA LenIs == ASSUME NEW S, NEW s \in Seq(S) PROVE Len(s) \in Nat
OBVIOUS

\* Each state of the pass from the one before.
LEMMA PassedSteps ==
  ASSUME NEW bs, B!Described(bs), NEW b \in Objects, NEW types, types = B!Walk(B!Registered(bs), b, TRUE)
  PROVE  \E f : Passes(f, bs, types) /\ B!Passed(bs, b) = f[Len(types)]
<1> DEFINE N == Len(types)
           Fns == UNION {[U -> SUBSET B!Uses] : U \in SUBSET B!FnNames}
           Shape == [name : {bs[o].name : o \in Objects}, attributes : {bs[o].attributes : o \in Objects},
                      functions : Fns, registered_subtypes : {bs[o].registered_subtypes : o \in Objects}]
           X == [ok : BOOLEAN, bs : [Objects -> Shape]]
           E == [ok |-> TRUE, bs |-> bs]
           G(r, i) == B!RemoveUnused(r, types[i])
           F == [q \in X \X (1..N) |-> G(q[1], q[2])]
<1>1. N \in Nat /\ types \in Seq(Objects)
  <2>1. B!Walk(B!Registered(bs), b, TRUE) \in Seq(Objects)
    BY WalkIn
  <2>2. types \in Seq(Objects)
    BY <2>1, Zenon
  <2> QED BY <2>2, LenIs, Zenon
<1>2. E \in X
  <2>1. ASSUME NEW o \in Objects PROVE bs[o] \in Shape
    <3>1. /\ bs[o] = [name |-> bs[o].name, attributes |-> bs[o].attributes, functions |-> bs[o].functions,
                      registered_subtypes |-> bs[o].registered_subtypes]
          /\ DOMAIN bs[o].functions \subseteq B!FnNames
          /\ bs[o].functions \in [DOMAIN bs[o].functions -> SUBSET B!Uses]
      BY DEF B!Described, B!Builder, B!Partial
    <3>2. bs[o].functions \in Fns
      BY <3>1
    <3> HIDE DEF Fns
    <3> QED BY <3>1, <3>2
  <2>2. bs = [o \in Objects |-> bs[o]]
    BY DEF B!Described
  <2> HIDE DEF Shape
  <2> QED BY <2>1, <2>2
<1>3. ASSUME NEW r \in X, NEW i \in 1..N PROVE G(r, i) \in X
  <2>1. \A g \in Fns : \A S : B!Restrict(g, DOMAIN g \cap S) \in Fns
    <3> SUFFICES ASSUME NEW g \in Fns, NEW S PROVE B!Restrict(g, DOMAIN g \cap S) \in Fns
      OBVIOUS
    <3>1. PICK U \in SUBSET B!FnNames : g \in [U -> SUBSET B!Uses]
      OBVIOUS
    <3>2. B!Restrict(g, DOMAIN g \cap S) \in [DOMAIN g \cap S -> SUBSET B!Uses]
      BY <3>1 DEF B!Restrict
    <3>3. DOMAIN g \cap S \in SUBSET B!FnNames
      BY <3>1
    <3> QED BY <3>2, <3>3
  <2>2. ASSUME NEW p PROVE B!DropUnused(r.bs, p) \in [Objects -> Shape]
    <3>1. ASSUME NEW o \in Objects
          PROVE  LET d == r.bs[o] IN [d EXCEPT !.functions = B!Restrict(@, DOMAIN @ \cap B!FnUsage(r.bs, p, d.name))] \in Shape
      <4>1. r.bs[o] \in Shape
        OBVIOUS
      <4> HIDE DEF Fns, X
      <4> QED BY <2>1, <4>1
    <3>2. \A o \in Objects : r.bs[o] \in Shape
      OBVIOUS
    <3> HIDE DEF Shape, X
    <3> QED BY <3>1, <3>2 DEF B!DropUnused
  <2>3. \A Y : Y \in [Objects -> Shape] => [r EXCEPT !.bs = Y] \in X /\ [r EXCEPT !.ok = FALSE] \in X
    <3> HIDE DEF Shape
    <3> QED OBVIOUS
  <2>4. r.bs \in [Objects -> Shape]
    <3> HIDE DEF Shape
    <3> QED OBVIOUS
  <2> HIDE DEF X, Shape
  <2> QED BY <2>2, <2>3, <2>4 DEF B!RemoveUnused
<1>4. F \in [X \X (1..N) -> X]
  <2> HIDE DEF G, X
  <2> QED BY <1>3
<1>5. PICK f \in [0..N -> X] : Iteration(f, N, E, F)
  <2> HIDE DEF F, X, N, E
  <2> QED BY <1>1, <1>2, <1>4, Iterates
<1>6. ASSUME NEW i \in 0..N PROVE f[i] = IF i = 0 THEN E ELSE G(f[i - 1], i)
  <2>1. f[i] = IF i = 0 THEN E ELSE F[<<f[i - 1], i>>]
    <3> HIDE DEF F, X, G, N, E
    <3> QED BY <1>5 DEF Iteration
  <2>2. i # 0 => F[<<f[i - 1], i>>] = G(f[i - 1], i)
    <3>1. i # 0 => f[i - 1] \in X /\ i \in 1..N
      <4> HIDE DEF X, N
      <4> QED BY <1>1
    <3> HIDE DEF X, G, N
    <3> QED BY <3>1
  <2> HIDE DEF F, G, E
  <2> QED BY <2>1, <2>2
<1>7. f = [i \in 0..N |-> IF i = 0 THEN E ELSE G(f[i - 1], i)]
  <2>1. f = [i \in 0..N |-> f[i]]
    OBVIOUS
  <2> HIDE DEF F, X, G, N, E
  <2> QED BY <1>6, <2>1
<1> DEFINE g == CHOOSE h : Passing(h, bs, types)
<1>8. Passing(g, bs, types)
  BY <1>7 DEF Passing
<1>9. B!Passed(bs, b) = g[N]
  BY PassedIs
<1> HIDE DEF g
<1>10. g = [i \in 0..N |-> IF i = 0 THEN E ELSE G(g[i - 1], i)]
  BY <1>8 DEF Passing
<1>11. g[0] = E /\ \A i \in 1..N : g[i] = G(g[i - 1], i)
  <2> HIDE DEF G, N, E
  <2>1. \A i \in 0..N : g[i] = IF i = 0 THEN E ELSE G(g[i - 1], i)
    BY <1>10
  <2>2. 0 \in 0..N /\ \A i \in 1..N : i \in 0..N /\ i # 0
    BY <1>1
  <2> QED BY <2>1, <2>2
<1> QED BY <1>9, <1>11 DEF Passes

\* What a pass that does not fail leaves of an orderly tree.
LEMMA PassClears ==
  ASSUME NEW bs, B!Described(bs), NEW b \in Objects, B!Orderly(bs, b), B!Passed(bs, b).ok
  PROVE  B!Passed(bs, b).bs = Cleared(bs, B!Reached(bs, b), B!Tree(bs, b) \ {b})
<1> DEFINE R == B!Reached(bs, b)
           T == B!Tree(bs, b)
           types == B!Walk(B!Registered(bs), b, TRUE)
           N == Len(types)
           V(i) == {o \in Objects : \E j \in 1..i : o \in B!Subtypes(bs, types[j])}
<1>1. PICK f : Passes(f, bs, types) /\ B!Passed(bs, b) = f[N]
  BY PassedSteps
<1>2. /\ types \in Seq(Objects) /\ N \in Nat /\ DOMAIN types = 1..N
      /\ Elements(types) = T /\ Rooted(bs, types, {b})
  <2>1. types \in Seq(Objects) /\ Elements(types) = T
    BY WalkIn
  <2>2. Rooted(bs, types, {b})
    BY PreOrder
  <2> HIDE DEF types
  <2> QED BY <2>1, <2>2
<1> HIDE DEF types, N
<1>3. /\ f[0] = [ok |-> TRUE, bs |-> bs]
      /\ \A i \in 1..N : f[i] = B!RemoveUnused(f[i - 1], types[i])
  BY <1>1 DEF Passes, N
<1>4. b \in T /\ T \subseteq Objects /\ \A i \in 1..N : types[i] \in T
  BY <1>2, TreeHas DEF Elements
<1>5. ASSUME NEW i \in 0..N PROVE b \notin V(i) /\ V(i) \subseteq T
  <2>1. ASSUME NEW j \in 1..i PROVE b \notin B!Subtypes(bs, types[j]) /\ B!Subtypes(bs, types[j]) \subseteq T
    <3>1. types[j] \in T /\ types[j] \in Objects
      BY <1>2, <1>4
    <3>2. b \notin B!Subtypes(bs, types[j])
      BY <3>1, NotBelowItself
    <3>3. B!Subtypes(bs, types[j]) \subseteq T
      BY <3>1, SubtypesAre, TreeClosed
    <3> QED BY <3>2, <3>3
  <2> QED BY <2>1
<1> DEFINE S == {i \in 0..N : f[i].ok => f[i] = [ok |-> TRUE, bs |-> Cleared(bs, R, V(i))]}
<1>6. 0 \in S
  <2>1. V(0) = {}
    OBVIOUS
  <2>2. Cleared(bs, R, {}) = bs
    BY DEF Cleared, B!Described
  <2>3. f[0] = [ok |-> TRUE, bs |-> Cleared(bs, R, V(0))]
    BY <1>3, <2>1, <2>2
  <2> HIDE DEF V
  <2> QED BY <1>2, <2>3
<1>7. ASSUME NEW i \in 1..N, i - 1 \in S PROVE i \in S
  <2> SUFFICES ASSUME f[i].ok PROVE f[i] = [ok |-> TRUE, bs |-> Cleared(bs, R, V(i))]
    <3>1. i \in 0..N
      BY <1>2
    <3> HIDE DEF V, R
    <3> QED BY <3>1
  <2> DEFINE r == f[i - 1]
             p == types[i]
             cs == Cleared(bs, R, V(i - 1))
  <2>1. f[i] = B!RemoveUnused(r, p)
    BY <1>3
  <2>2. r.ok
    BY <2>1 DEF B!RemoveUnused
  <2>3. r = [ok |-> TRUE, bs |-> cs]
    BY <1>7, <2>2
  <2>4. i - 1 \in 0..N /\ p \in T /\ p \in Objects
    BY <1>2, <1>4
  <2>5. p = b \/ p \in V(i - 1)
    BY <1>2, <2>4 DEF Rooted
  <2>6. V(i) = V(i - 1) \cup B!Subtypes(bs, p)
    <3>1. 1..i = 1..(i - 1) \cup {i}
      BY <1>2
    <3>2. B!Subtypes(bs, p) \subseteq Objects
      BY <2>4, SubtypesAre
    <3> QED BY <3>1, <3>2
  <2>7. b \notin V(i - 1) /\ V(i - 1) \in SUBSET Objects
    BY <1>5, <2>4
  <2> HIDE DEF r, p, V
  <2>8. B!DropUnused(cs, p) = Cleared(bs, R, V(i))
    BY <2>4, <2>5, <2>6, <2>7, CleanStep
  <2>9. B!Subtypes(cs, p) = B!Subtypes(bs, p)
    <3>1. IsCleared(cs, bs, R, V(i - 1))
      BY ClearedIs
    <3> HIDE DEF cs, R
    <3> QED BY <2>4, <3>1 DEF IsCleared
  <2> HIDE DEF cs, R
  <2>10. CASE B!Subtypes(bs, p) = {}
    <3>1. f[i] = r
      BY <2>1, <2>3, <2>9, <2>10 DEF B!RemoveUnused
    <3> QED BY <2>3, <2>6, <2>10, <3>1 DEF cs
  <2>11. CASE B!Subtypes(bs, p) # {}
    <3>1. f[i] = IF B!CallsRegistered(cs, p) THEN [r EXCEPT !.bs = B!DropUnused(@, p)] ELSE [r EXCEPT !.ok = FALSE]
      BY <2>1, <2>3, <2>9, <2>11 DEF B!RemoveUnused
    <3>2. f[i] = [r EXCEPT !.bs = B!DropUnused(@, p)]
      BY <2>3, <3>1
    <3> QED BY <2>3, <2>8, <3>2
  <2> QED BY <2>10, <2>11
<1>8. N \in S
  <2> HIDE DEF S
  <2> QED BY <1>2, <1>6, <1>7, SetInduction
<1>9. f[N].bs = Cleared(bs, R, V(N))
  <2>1. f[N].ok
    BY <1>1
  <2> HIDE DEF V, R
  <2> QED BY <1>8, <2>1
<1>10. V(N) = T \ {b}
  <2>1. ASSUME NEW o \in T, o # b PROVE o \in V(N)
    <3>1. PICK p \in T : o \in B!Subtypes(bs, p)
      BY <2>1, HasParent
    <3>2. PICK j \in 1..N : p = types[j]
      BY <1>2, <3>1 DEF Elements
    <3> QED BY <1>4, <3>1, <3>2
  <2>2. b \notin V(N) /\ V(N) \subseteq T
    BY <1>2, <1>5
  <2> HIDE DEF V
  <2> QED BY <2>1, <2>2
<1> QED BY <1>1, <1>9, <1>10
------------------------------------------------------------------------------
(* What a step leaves of the builders *)

\* The tree is what is registered.
LEMMA SameTree ==
  ASSUME NEW x, NEW bs, \A o \in Objects : B!Subtypes(x, o) = B!Subtypes(bs, o), NEW b
  PROVE  B!Tree(x, b) = B!Tree(bs, b)
BY DEF B!Tree

\* A step that keeps names and registrations keeps the trees.
LEMMA DescribedStays ==
  ASSUME NEW bs, B!Described(bs), NEW x, x = [o \in Objects |-> x[o]],
         \A o \in Objects : /\ B!Builder(x[o]) /\ x[o].name = bs[o].name
                            /\ x[o].registered_subtypes = bs[o].registered_subtypes
  PROVE  B!Described(x) /\ \A b : B!Tree(x, b) = B!Tree(bs, b)
<1>1. \A o \in Objects : B!Subtypes(x, o) = B!Subtypes(bs, o)
  BY DEF B!Subtypes
<1>2. \A b : B!Tree(x, b) = B!Tree(bs, b)
  BY <1>1, SameTree
<1>3. ASSUME NEW o \in Objects
      PROVE  /\ B!Builder(x[o])
             /\ \A n \in DOMAIN x[o].registered_subtypes : x[x[o].registered_subtypes[n]].name = n
             /\ \A c \in B!Subtypes(x, o) : o \notin B!Tree(x, c)
  <2>1. \A n \in DOMAIN bs[o].registered_subtypes :
          bs[o].registered_subtypes[n] \in Objects /\ bs[bs[o].registered_subtypes[n]].name = n
    BY DEF B!Described, B!Builder, B!Partial
  <2>2. \A c \in B!Subtypes(bs, o) : o \notin B!Tree(bs, c)
    BY DEF B!Described
  <2> QED BY <1>1, <1>2, <2>1, <2>2
<1>4. B!Described(x)
  BY <1>3 DEF B!Described
<1> QED BY <1>2, <1>4

\* d has some of the functions of e and is the same otherwise.
Pruned(d, e) ==
  /\ d = [name |-> e.name, attributes |-> e.attributes, functions |-> d.functions,
          registered_subtypes |-> e.registered_subtypes]
  /\ DOMAIN d.functions \subseteq DOMAIN e.functions
  /\ d.functions = [f \in DOMAIN d.functions |-> e.functions[f]]

\* It is still a builder.
LEMMA PrunedIs ==
  ASSUME NEW d, NEW e, Pruned(d, e), B!Builder(e)
  PROVE  B!Builder(d) /\ d.name = e.name /\ d.attributes = e.attributes
         /\ d.registered_subtypes = e.registered_subtypes
<1>1. d.name = e.name /\ d.attributes = e.attributes /\ d.registered_subtypes = e.registered_subtypes
  BY DEF Pruned
<1>2. B!Partial(d.functions, B!FnNames, SUBSET B!Uses)
  BY DEF Pruned, B!Builder, B!Partial
<1>3. d = [name |-> d.name, attributes |-> d.attributes, functions |-> d.functions,
           registered_subtypes |-> d.registered_subtypes]
  <2>1. d = [name |-> e.name, attributes |-> e.attributes, functions |-> d.functions,
          registered_subtypes |-> e.registered_subtypes]
    BY DEF Pruned
  <2> QED BY <1>1, <2>1
<1>4. B!Declared(d) = B!Declared(e)
  BY <1>1 DEF B!Declared
<1> QED BY <1>1, <1>2, <1>3, <1>4 DEF B!Builder

\* The pass takes functions away and nothing else.
LEMMA PassPrunes ==
  ASSUME NEW bs, B!Described(bs), NEW b \in Objects
  PROVE  LET x == B!Passed(bs, b).bs
         IN x = [o \in Objects |-> x[o]] /\ \A o \in Objects : Pruned(x[o], bs[o])
<1> DEFINE types == B!Walk(B!Registered(bs), b, TRUE)
           N == Len(types)
           Right(r) == /\ r = [ok |-> r.ok, bs |-> r.bs]
                       /\ r.bs = [o \in Objects |-> r.bs[o]]
                       /\ \A o \in Objects : Pruned(r.bs[o], bs[o])
<1>1. PICK f : Passes(f, bs, types) /\ B!Passed(bs, b) = f[N]
  BY PassedSteps
<1>2. N \in Nat
  <2>1. types \in Seq(Objects)
    BY WalkIn
  <2> HIDE DEF types
  <2> QED BY <2>1
<1> HIDE DEF types, N
<1>3. /\ f[0] = [ok |-> TRUE, bs |-> bs]
      /\ \A i \in 1..N : f[i] = B!RemoveUnused(f[i - 1], types[i])
  BY <1>1 DEF Passes, N
<1> DEFINE S == {i \in 0..N : Right(f[i])}
<1>4. 0 \in S
  <2>1. \A o \in Objects : Pruned(bs[o], bs[o])
    BY DEF B!Described, B!Builder, B!Partial, Pruned
  <2>2. bs = [o \in Objects |-> bs[o]]
    BY DEF B!Described
  <2>3. Right(f[0])
    BY <1>3, <2>1, <2>2
  <2> HIDE DEF Right
  <2> QED BY <1>2, <2>3
<1>5. ASSUME NEW r, Right(r), NEW p PROVE Right(B!RemoveUnused(r, p))
  <2> DEFINE x == B!DropUnused(r.bs, p)
  <2>1. x = [o \in Objects |-> x[o]]
    BY DEF B!DropUnused
  <2>2. ASSUME NEW o \in Objects PROVE Pruned(x[o], bs[o])
    <3>1. Pruned(r.bs[o], bs[o])
      BY <1>5
    <3>2. CASE o \in B!Subtypes(r.bs, p)
      <4> DEFINE d == r.bs[o]
                 g == B!Restrict(d.functions, DOMAIN d.functions \cap B!FnUsage(r.bs, p, d.name))
      <4>1. x[o] = [d EXCEPT !.functions = g]
        BY <3>2 DEF B!DropUnused
      <4>2. DOMAIN g \subseteq DOMAIN d.functions /\ g = [f_1 \in DOMAIN g |-> d.functions[f_1]]
        BY DEF B!Restrict
      <4>3. /\ d = [name |-> bs[o].name, attributes |-> bs[o].attributes, functions |-> d.functions,
                    registered_subtypes |-> bs[o].registered_subtypes]
            /\ DOMAIN d.functions \subseteq DOMAIN bs[o].functions
            /\ \A h \in DOMAIN d.functions : d.functions[h] = bs[o].functions[h]
        BY <3>1 DEF Pruned
      <4> HIDE DEF d, g, x
      <4>4. x[o] = [name |-> bs[o].name, attributes |-> bs[o].attributes, functions |-> g,
                    registered_subtypes |-> bs[o].registered_subtypes]
        BY <4>1, <4>3
      <4>5. x[o].functions = g
        BY <4>4
      <4>6. \A h \in DOMAIN g : d.functions[h] = bs[o].functions[h]
        BY <4>2, <4>3
      <4>7. g = [h \in DOMAIN g |-> bs[o].functions[h]]
        BY <4>2, <4>6
      <4>8. DOMAIN g \subseteq DOMAIN bs[o].functions
        BY <4>2, <4>3
      <4> QED BY <4>4, <4>5, <4>7, <4>8 DEF Pruned
    <3>3. CASE o \notin B!Subtypes(r.bs, p)
      <4>1. x[o] = r.bs[o]
        BY <3>3 DEF B!DropUnused
      <4> QED BY <3>1, <4>1
    <3> QED BY <3>2, <3>3
  <2> HIDE DEF x
  <2>3. Right([r EXCEPT !.bs = x]) /\ Right([r EXCEPT !.ok = FALSE])
    <3>1. r = [ok |-> r.ok, bs |-> r.bs]
      BY <1>5
    <3>2. [r EXCEPT !.bs = x] = [ok |-> r.ok, bs |-> x] /\ [r EXCEPT !.ok = FALSE] = [ok |-> FALSE, bs |-> r.bs]
      <4> DEFINE k == r.ok
                 y == r.bs
      <4>1. r = [ok |-> k, bs |-> y]
        BY <3>1
      <4> HIDE DEF k, y
      <4>2. \A z : [[ok |-> k, bs |-> y] EXCEPT !.bs = z] = [ok |-> k, bs |-> z]
        OBVIOUS
      <4>3. \A z : [[ok |-> k, bs |-> y] EXCEPT !.ok = z] = [ok |-> z, bs |-> y]
        OBVIOUS
      <4>4. [r EXCEPT !.bs = x] = [ok |-> k, bs |-> x]
        BY <4>1, <4>2, Zenon
      <4>5. [r EXCEPT !.ok = FALSE] = [ok |-> FALSE, bs |-> y]
        BY <4>1, <4>3, Zenon
      <4> QED BY <4>4, <4>5 DEF k, y
    <3>3. Right([ok |-> r.ok, bs |-> x])
      BY <2>1, <2>2
    <3>4. Right([ok |-> FALSE, bs |-> r.bs])
      BY <1>5
    <3> QED BY <3>2, <3>3, <3>4
  <2> HIDE DEF Right
  <2> QED BY <1>5, <2>3 DEF B!RemoveUnused, x
<1>6. ASSUME NEW i \in 1..N, i - 1 \in S PROVE i \in S
  <2>1. Right(f[i - 1])
    BY <1>6
  <2>2. i \in 0..N /\ f[i] = B!RemoveUnused(f[i - 1], types[i])
    BY <1>2, <1>3
  <2> HIDE DEF Right
  <2>3. Right(f[i])
    BY <1>5, <2>1, <2>2
  <2> QED BY <2>2, <2>3
<1>7. N \in S
  <2> HIDE DEF S
  <2> QED BY <1>2, <1>4, <1>6, SetInduction
<1> QED BY <1>1, <1>7

\* d has some of the attributes of e and is the same otherwise.
Trimmed(d, e) ==
  /\ d = [name |-> e.name, attributes |-> d.attributes, functions |-> e.functions,
          registered_subtypes |-> e.registered_subtypes]
  /\ DOMAIN d.attributes \subseteq DOMAIN e.attributes
  /\ d.attributes = [a \in DOMAIN d.attributes |-> e.attributes[a]]

\* What is used of the attributes stays, and the types that are not cleaned stay as they are.
IsCleaned(x, bs, b) ==
  /\ x = [o \in Objects |-> x[o]]
  /\ \A o \in Objects :
       /\ Trimmed(x[o], bs[o])
       /\ DOMAIN bs[o].attributes \cap B!Used(bs, o) \subseteq DOMAIN x[o].attributes
       /\ o \notin B!Cleaned(bs, b) => x[o] = bs[o]

\* The attributes that are used stay, those of the types that are not cleaned too.
LEMMA CleaningKeeps ==
  ASSUME NEW bs, B!Described(bs), NEW b \in Objects, NEW x \in B!Cleanings(bs, b)
  PROVE  IsCleaned(x, bs, b)
<1>1. PICK gone \in [B!Cleaned(bs, b) -> UNION {B!Removals(bs, o) : o \in B!Cleaned(bs, b)}] :
        /\ \A o \in B!Cleaned(bs, b) : gone[o] \in B!Removals(bs, o)
        /\ x = B!RemoveAttributes(bs, gone)
  BY DEF B!Cleanings
<1>2. DOMAIN gone = B!Cleaned(bs, b)
  BY <1>1
<1>3. x = [o \in Objects |-> IF o \in B!Cleaned(bs, b)
             THEN [bs[o] EXCEPT !.attributes = B!Restrict(@, DOMAIN @ \ gone[o])] ELSE bs[o]]
  BY <1>1, <1>2 DEF B!RemoveAttributes
<1>4. x = [o \in Objects |-> x[o]]
  BY <1>3
<1>5. ASSUME NEW o \in Objects
      PROVE   /\ Trimmed(x[o], bs[o])
              /\ DOMAIN bs[o].attributes \cap B!Used(bs, o) \subseteq DOMAIN x[o].attributes
              /\ o \notin B!Cleaned(bs, b) => x[o] = bs[o]
  <2> DEFINE d == bs[o]
             g == B!Restrict(d.attributes, DOMAIN d.attributes \ gone[o])
  <2>1. /\ d = [name |-> d.name, attributes |-> d.attributes, functions |-> d.functions,
                registered_subtypes |-> d.registered_subtypes]
        /\ d.attributes = [a \in DOMAIN d.attributes |-> d.attributes[a]]
    BY DEF B!Described, B!Builder, B!Partial
  <2>2. CASE o \notin B!Cleaned(bs, b)
    <3>1. x[o] = d
      BY <1>3, <2>2
    <3> HIDE DEF d
    <3> QED BY <2>1, <3>1 DEF d, Trimmed
  <2>3. CASE o \in B!Cleaned(bs, b)
    <3>1. x[o] = [d EXCEPT !.attributes = g]
      BY <1>3, <2>3
    <3>2. DOMAIN g = DOMAIN d.attributes \ gone[o] /\ g = [a \in DOMAIN g |-> d.attributes[a]]
      BY DEF B!Restrict
    <3>3. gone[o] \cap B!Used(bs, o) = {}
      BY <1>1, <2>3 DEF B!Removals
    <3> HIDE DEF g
    <3>4. x[o] = [name |-> d.name, attributes |-> g, functions |-> d.functions,
                  registered_subtypes |-> d.registered_subtypes]
      <4> HIDE DEF d
      <4> QED BY <2>1, <3>1
    <3>5. x[o].attributes = g
      BY <3>4
    <3> QED BY <2>3, <3>2, <3>3, <3>4, <3>5 DEF Trimmed
  <2> QED BY <2>2, <2>3
<1> QED BY <1>4, <1>5 DEF IsCleaned

\* Cleaning leaves builders.
LEMMA CleaningDescribed ==
  ASSUME NEW bs, B!Described(bs), NEW b \in Objects, NEW x \in B!Cleanings(bs, b)
  PROVE  B!Described(x)
<1>1. ASSUME NEW o \in Objects
      PROVE  B!Builder(x[o]) /\ x[o].name = bs[o].name /\ x[o].registered_subtypes = bs[o].registered_subtypes
  <2>1. /\ x[o] = [name |-> bs[o].name, attributes |-> x[o].attributes, functions |-> bs[o].functions,
                   registered_subtypes |-> bs[o].registered_subtypes]
        /\ DOMAIN x[o].attributes \subseteq DOMAIN bs[o].attributes
        /\ x[o].attributes = [a \in DOMAIN x[o].attributes |-> bs[o].attributes[a]]
    BY CleaningKeeps DEF IsCleaned, Trimmed
  <2>2. x[o].name = bs[o].name /\ x[o].functions = bs[o].functions
        /\ x[o].registered_subtypes = bs[o].registered_subtypes
    BY <2>1
  <2>3. B!Builder(bs[o])
    BY DEF B!Described
  <2>4. B!Partial(x[o].attributes, B!AttrNames, {e[2] : e \in B!Attributes})
    <3>1. \A a \in DOMAIN x[o].attributes : bs[o].attributes[a] \in {e[2] : e \in B!Attributes}
      BY <2>1, <2>3 DEF B!Builder, B!Partial
    <3>2. DOMAIN x[o].attributes \subseteq B!AttrNames
      BY <2>1, <2>3 DEF B!Builder, B!Partial
    <3> QED BY <2>1, <3>1, <3>2 DEF B!Partial
  <2>5. B!Declared(x[o]) \subseteq B!Declared(bs[o])
    <3>1. \A a \in DOMAIN x[o].attributes : x[o].attributes[a] = bs[o].attributes[a]
      BY <2>1
    <3> QED BY <2>1, <3>1 DEF B!Declared
  <2> QED BY <2>1, <2>2, <2>3, <2>4, <2>5 DEF B!Builder
<1>2. x = [o \in Objects |-> x[o]]
  BY CleaningKeeps DEF IsCleaned
<1> QED BY <1>1, <1>2, DescribedStays
------------------------------------------------------------------------------
(* What the passes promise *)

\* runAll, when it does not fail: the pass over the functions, then the cleaning of the attributes.
LEMMA RunAllIs ==
  ASSUME NEW b \in Objects, B!Described(builders), B!RunAll(b), ~aborted'
  PROVE  LET x == B!Passed(builders, b).bs
         IN /\ B!Passed(builders, b).ok /\ ~B!StatsFail(x, b)
            /\ B!Described(x) /\ builders' \in B!Cleanings(x, b) /\ code' = code
            /\ B!Described(builders')
<1> DEFINE x == B!Passed(builders, b).bs
<1>1. /\ B!Passed(builders, b).ok /\ ~B!StatsFail(x, b)
      /\ builders' \in B!Cleanings(x, b) /\ code' = code
  BY DEF B!RunAll, B!Abort
<1>2. x = [o \in Objects |-> x[o]] /\ \A o \in Objects : Pruned(x[o], builders[o])
  BY PassPrunes
<1> HIDE DEF x
<1>3. \A o \in Objects : B!Builder(builders[o])
  BY DEF B!Described
<1>4. B!Described(x)
  BY <1>2, <1>3, PrunedIs, DescribedStays
<1>5. B!Described(builders')
  BY <1>1, <1>4, CleaningDescribed
<1> QED BY <1>1, <1>4, <1>5 DEF x

\* The pass over the functions, whatever is removed of the attributes.
LEMMA RunAllKeeps ==
  ASSUME NEW b \in Objects, B!Described(builders), B!RunAll(b), ~aborted', B!Orderly(builders, b)
  PROVE  \A o \in Objects :
            IF o \in B!Tree(builders, b)
            THEN DOMAIN builders'[o].functions =
                   {f \in DOMAIN builders[o].functions : b = o \/ <<o, f>> \in B!Reached(builders, b)}
            ELSE builders'[o] = builders[o]
<1> DEFINE R == B!Reached(builders, b)
           T == B!Tree(builders, b)
           x == B!Passed(builders, b).bs
<1>1. /\ B!Passed(builders, b).ok
      /\ B!Described(x) /\ builders' \in B!Cleanings(x, b)
  BY RunAllIs
<1>2. x = Cleared(builders, R, T \ {b})
  BY <1>1, PassClears
<1> HIDE DEF x, R, T
<1>3. IsCleared(x, builders, R, T \ {b})
  BY <1>2, ClearedIs
<1>4. b \in T /\ T \subseteq Objects
  BY TreeHas DEF T
<1>5. B!Cleaned(x, b) \subseteq T
  <2>1. B!Subtypes(x, b) = B!Subtypes(builders, b)
    BY <1>3 DEF IsCleared
  <2>2. B!Subtypes(builders, b) \subseteq T
    BY <1>4, SubtypesAre, TreeClosed DEF T
  <2> QED BY <1>4, <2>1, <2>2 DEF B!Cleaned
<1>6. ASSUME NEW o \in Objects
      PROVE  /\ builders'[o].functions = x[o].functions
             /\ o \notin B!Cleaned(x, b) => builders'[o] = x[o]
  <2>1. /\ builders'[o] = [name |-> x[o].name, attributes |-> builders'[o].attributes, functions |-> x[o].functions,
                           registered_subtypes |-> x[o].registered_subtypes]
        /\ o \notin B!Cleaned(x, b) => builders'[o] = x[o]
    <3>1. IsCleaned(builders', x, b)
      BY <1>1, CleaningKeeps
    <3> QED BY <3>1 DEF IsCleaned, Trimmed
  <2> QED BY <2>1
<1>7. ASSUME NEW o \in T
      PROVE  DOMAIN builders'[o].functions = {f \in DOMAIN builders[o].functions : b = o \/ <<o, f>> \in R}
  <2>1. CASE o = b
    <3>1. x[o] = builders[o]
      BY <1>3, <1>4, <2>1 DEF IsCleared
    <3> QED BY <1>4, <1>6, <2>1, <3>1
  <2>2. CASE o # b
    <3>1. x[o].functions = [f \in ReachedOf(builders, R, o) |-> builders[o].functions[f]]
      BY <1>3, <1>4, <2>2 DEF IsCleared
    <3>2. DOMAIN builders'[o].functions = ReachedOf(builders, R, o)
      BY <1>4, <1>6, <3>1
    <3> QED BY <2>2, <3>2 DEF ReachedOf
  <2> QED BY <2>1, <2>2
<1>8. ASSUME NEW o \in Objects, o \notin T PROVE builders'[o] = builders[o]
  BY <1>3, <1>5, <1>6, <1>8 DEF IsCleared
<1> QED BY <1>7, <1>8 DEF R, T

\* Registering keeps the types without cycles.
LEMMA RegisterKeeps ==
  ASSUME NEW bs, B!Described(bs), NEW b \in Objects, NEW o \in Objects,
         bs[o].name \notin DOMAIN bs[b].registered_subtypes, b \notin B!Tree(bs, o),
         NEW x, x = [bs EXCEPT ![b].registered_subtypes = B!With(@, bs[o].name, o)]
  PROVE  B!Described(x)
<1> DEFINE D == bs[b].registered_subtypes
           g == B!With(D, bs[o].name, o)
<1>1. /\ \A p \in Objects : B!Builder(bs[p])
      /\ \A p \in Objects : \A n \in DOMAIN bs[p].registered_subtypes :
           bs[p].registered_subtypes[n] \in Objects /\ bs[bs[p].registered_subtypes[n]].name = n
      /\ bs = [p \in Objects |-> bs[p]]
  BY DEF B!Described, B!Builder, B!Partial
<1>2. /\ DOMAIN g = DOMAIN D \cup {bs[o].name}
      /\ g[bs[o].name] = o
      /\ \A n \in DOMAIN D : g[n] = D[n]
      /\ g = [n \in DOMAIN g |-> g[n]]
  BY DEF B!With
<1>3. /\ x = [p \in Objects |-> x[p]]
      /\ \A p \in Objects : p # b => x[p] = bs[p]
      /\ x[b] = [bs[b] EXCEPT !.registered_subtypes = g]
  BY <1>1
<1> HIDE DEF g
<1>4. x[b] = [name |-> bs[b].name, attributes |-> bs[b].attributes, functions |-> bs[b].functions,
              registered_subtypes |-> g]
  <2>1. bs[b] = [name |-> bs[b].name, attributes |-> bs[b].attributes, functions |-> bs[b].functions,
                 registered_subtypes |-> bs[b].registered_subtypes]
    BY <1>1 DEF B!Builder
  <2> QED BY <1>3, <2>1
<1>5. /\ x[b].name = bs[b].name /\ x[b].attributes = bs[b].attributes
      /\ x[b].functions = bs[b].functions /\ x[b].registered_subtypes = g
  BY <1>4
<1>6. \A p \in Objects : x[p].name = bs[p].name
  BY <1>3, <1>5
<1>7. B!Subtypes(x, b) = B!Subtypes(bs, b) \cup {o} /\ \A p \in Objects : p # b => B!Subtypes(x, p) = B!Subtypes(bs, p)
  BY <1>2, <1>3, <1>5 DEF B!Subtypes, B!Range
<1>8. \A p \in Objects : B!Subtypes(bs, p) \subseteq Objects
  BY SubtypesAre
<1>9. ASSUME NEW c \in Objects PROVE B!Tree(x, c) \subseteq B!Tree(bs, c) \cup B!Tree(bs, o)
  <2> DEFINE S == B!Tree(bs, c) \cup B!Tree(bs, o)
  <2>1. S \in SUBSET Objects /\ c \in S /\ o \in S
    BY TreeHas
  <2>2. ASSUME NEW p \in S PROVE B!Subtypes(x, p) \subseteq S
    BY <1>7, <1>8, <2>1, TreeClosed
  <2> HIDE DEF S
  <2>3. B!Tree(x, c) \subseteq S
    BY <2>1, <2>2, TreeLeast
  <2> QED BY <2>3 DEF S
<1>10. ASSUME NEW c \in Objects, b \notin B!Tree(bs, c) PROVE B!Tree(x, c) \subseteq B!Tree(bs, c)
  <2>1. B!Tree(bs, c) \in SUBSET Objects /\ c \in B!Tree(bs, c)
    BY TreeHas
  <2>2. ASSUME NEW p \in B!Tree(bs, c) PROVE B!Subtypes(x, p) \subseteq B!Tree(bs, c)
    BY <1>7, <1>8, <1>10, <2>1, TreeClosed
  <2> QED BY <2>1, <2>2, TreeLeast
<1>11. ASSUME NEW p \in Objects, NEW c \in B!Subtypes(x, p) PROVE p \notin B!Tree(x, c)
  <2>1. CASE p = b /\ c = o
    BY <1>10, <2>1
  <2>2. CASE c \in B!Subtypes(bs, p)
    <3>1. c \in Objects /\ p \notin B!Tree(bs, c)
      BY <1>8, <2>2, NotBelowItself
    <3>2. CASE b \notin B!Tree(bs, c)
      BY <1>10, <3>1, <3>2
    <3>3. CASE b \in B!Tree(bs, c)
      <4>1. p \notin B!Tree(bs, o)
        <5> SUFFICES ASSUME p \in B!Tree(bs, o) PROVE FALSE
          OBVIOUS
        <5>1. c \in B!Tree(bs, o)
          BY <2>2, <3>1, TreeClosed
        <5>2. B!Tree(bs, c) \subseteq B!Tree(bs, o)
          BY <5>1, TreeIn
        <5> QED BY <3>3, <5>2
      <4> QED BY <1>9, <3>1, <4>1
    <3> QED BY <3>2, <3>3
  <2> QED BY <1>7, <2>1, <2>2
<1>12. ASSUME NEW p \in Objects PROVE B!Builder(x[p])
  <2>1. CASE p # b
    BY <1>1, <1>3, <2>1
  <2>2. CASE p = b
    <3>1. B!Partial(g, Names, Objects)
      <4>1. DOMAIN D \subseteq Names /\ D \in [DOMAIN D -> Objects]
        BY <1>1, DataStructuresAssumption DEF B!Builder, B!Partial
      <4>2. bs[o].name \in Names
        BY <1>1, DataStructuresAssumption DEF B!Builder
      <4>3. \A n \in DOMAIN g : n \in Names /\ g[n] \in Objects
        BY <1>2, <4>1, <4>2
      <4> QED BY <1>2, <4>3 DEF B!Partial
    <3>2. B!Declared(x[b]) = B!Declared(bs[b])
      BY <1>5 DEF B!Declared
    <3>3. B!Builder(bs[b])
      BY <1>1
    <3> QED BY <1>4, <1>5, <2>2, <3>1, <3>2, <3>3, DataStructuresAssumption DEF B!Builder
  <2> QED BY <2>1, <2>2
<1>13. ASSUME NEW p \in Objects, NEW n \in DOMAIN x[p].registered_subtypes
       PROVE  x[x[p].registered_subtypes[n]].name = n
  <2>1. CASE p # b
    BY <1>1, <1>3, <1>6, <2>1
  <2>2. CASE p = b
    <3>1. n \in DOMAIN g /\ x[p].registered_subtypes[n] = g[n]
      BY <1>5, <2>2
    <3>2. CASE n = bs[o].name
      BY <1>2, <1>6, <3>1, <3>2
    <3>3. CASE n # bs[o].name
      <4>1. n \in DOMAIN D /\ g[n] = D[n]
        BY <1>2, <3>1, <3>3
      <4>2. D[n] \in Objects /\ bs[D[n]].name = n
        BY <1>1, <4>1
      <4> QED BY <1>6, <3>1, <4>1, <4>2
    <3> QED BY <3>2, <3>3
  <2> QED BY <2>1, <2>2
<1> QED BY <1>3, <1>11, <1>12, <1>13 DEF B!Described

\* Attributes that may be added keep what builders are.
LEMMA AttributeKeeps ==
  ASSUME NEW bs, B!Described(bs), NEW b \in Objects, NEW e \in Edits,
         NEW x, x = [bs EXCEPT ![b].attributes = B!With(@, e[1], e[2])]
  PROVE  B!Described(x)
<1> DEFINE g == B!With(bs[b].attributes, e[1], e[2])
<1>1. B!Builder(bs[b]) /\ bs = [p \in Objects |-> bs[p]] /\ \A p \in Objects : B!Builder(bs[p])
  BY DEF B!Described
<1>2. e \in B!Attributes /\ e = <<e[1], e[2]>> /\ e[1] \in B!AttrNames
  BY DataStructuresAssumption DEF B!Attributes, B!AttrNames, AttrNames, B!Range
<1>3. /\ DOMAIN g = DOMAIN bs[b].attributes \cup {e[1]}
      /\ \A a \in DOMAIN g : g[a] = IF a = e[1] THEN e[2] ELSE bs[b].attributes[a]
      /\ g = [a \in DOMAIN g |-> g[a]]
  BY DEF B!With
<1>4. /\ x = [p \in Objects |-> x[p]]
      /\ \A p \in Objects : p # b => x[p] = bs[p]
      /\ x[b] = [bs[b] EXCEPT !.attributes = g]
  BY <1>1
<1> HIDE DEF g
<1>5. x[b] = [name |-> bs[b].name, attributes |-> g, functions |-> bs[b].functions,
              registered_subtypes |-> bs[b].registered_subtypes]
  BY <1>1, <1>4 DEF B!Builder
<1>6. /\ x[b].name = bs[b].name /\ x[b].attributes = g
      /\ x[b].functions = bs[b].functions /\ x[b].registered_subtypes = bs[b].registered_subtypes
  BY <1>5
<1>7. B!Partial(g, B!AttrNames, {f[2] : f \in B!Attributes})
  <2>1. DOMAIN bs[b].attributes \subseteq B!AttrNames
        /\ \A a \in DOMAIN bs[b].attributes : bs[b].attributes[a] \in {f[2] : f \in B!Attributes}
    BY <1>1 DEF B!Builder, B!Partial
  <2>2. e[2] \in {f[2] : f \in B!Attributes}
    BY <1>2
  <2>3. \A a \in DOMAIN g : a \in B!AttrNames /\ g[a] \in {f[2] : f \in B!Attributes}
    BY <1>2, <1>3, <2>1, <2>2
  <2> QED BY <1>3, <2>3 DEF B!Partial
<1>8. B!Declared(x[b]) \subseteq B!Attributes
  <2>1. ASSUME NEW a \in DOMAIN g PROVE <<a, g[a]>> \in B!Attributes
    <3>1. CASE a = e[1]
      BY <1>2, <1>3, <3>1
    <3>2. CASE a # e[1]
      BY <1>1, <1>3, <3>2 DEF B!Builder, B!Declared
    <3> QED BY <3>1, <3>2
  <2> QED BY <1>6, <2>1 DEF B!Declared
<1>9. B!Builder(x[b])
  BY <1>1, <1>5, <1>6, <1>7, <1>8 DEF B!Builder
<1>10. \A p \in Objects : /\ B!Builder(x[p]) /\ x[p].name = bs[p].name
                          /\ x[p].registered_subtypes = bs[p].registered_subtypes
  BY <1>1, <1>4, <1>6, <1>9
<1>11. x = [p \in Objects |-> x[p]]
  BY <1>4
<1> QED BY <1>10, <1>11, DescribedStays, Zenon

\* So do functions.
LEMMA FunctionsKeep ==
  ASSUME NEW bs, B!Described(bs), NEW b \in Objects, NEW g, B!Partial(g, B!FnNames, SUBSET B!Uses),
         NEW x, x = [bs EXCEPT ![b].functions = g]
  PROVE  B!Described(x)
<1>1. B!Builder(bs[b]) /\ bs = [p \in Objects |-> bs[p]] /\ \A p \in Objects : B!Builder(bs[p])
  BY DEF B!Described
<1>2. /\ x = [p \in Objects |-> x[p]]
      /\ \A p \in Objects : p # b => x[p] = bs[p]
      /\ x[b] = [bs[b] EXCEPT !.functions = g]
  BY <1>1
<1>3. x[b] = [name |-> bs[b].name, attributes |-> bs[b].attributes, functions |-> g,
              registered_subtypes |-> bs[b].registered_subtypes]
  BY <1>1, <1>2 DEF B!Builder
<1>4. /\ x[b].name = bs[b].name /\ x[b].attributes = bs[b].attributes
      /\ x[b].functions = g /\ x[b].registered_subtypes = bs[b].registered_subtypes
  BY <1>3
<1>5. B!Declared(x[b]) = B!Declared(bs[b])
  BY <1>4 DEF B!Declared
<1>6. B!Builder(x[b])
  BY <1>1, <1>3, <1>4, <1>5 DEF B!Builder
<1>7. \A p \in Objects : /\ B!Builder(x[p]) /\ x[p].name = bs[p].name
                         /\ x[p].registered_subtypes = bs[p].registered_subtypes
  BY <1>1, <1>2, <1>4, <1>6
<1> QED BY <1>2, <1>7, DescribedStays

\* An entry more.
LEMMA WithKeeps ==
  ASSUME NEW f, NEW S, NEW T, B!Partial(f, S, T), NEW y \in S, NEW v \in T
  PROVE  B!Partial(B!With(f, y, v), S, T)
<1> DEFINE g == B!With(f, y, v)
<1>1. /\ DOMAIN g = DOMAIN f \cup {y}
      /\ \A a \in DOMAIN g : g[a] = IF a = y THEN v ELSE f[a]
      /\ g = [a \in DOMAIN g |-> g[a]]
  BY DEF B!With
<1> HIDE DEF g
<1>2. \A a \in DOMAIN f : a \in S /\ f[a] \in T
  BY DEF B!Partial
<1>3. \A a \in DOMAIN g : a \in S /\ g[a] \in T
  BY <1>1, <1>2
<1> QED BY <1>1, <1>3 DEF B!Partial, g

\* The steps that describe types keep what builders are.
LEMMA EditsKeep ==
  ASSUME NEW b \in Objects, B!Described(builders),
         \/ \E o \in Objects : B!RegisterType(b, o)
         \/ \E e \in Edits : B!AddAttribute(b, e[1], e[2])
         \/ \E f \in B!FnNames : B!CreateFunction(b, f)
         \/ \E a \in DOMAIN builders[b].attributes : B!GenerateGetter(b, a) \/ B!GenerateSetter(b, a)
         \/ \E f \in B!FnNames, u \in Statements : B!AddStatement(b, f, u)
  PROVE  B!Described(builders') /\ code' = code
<1>1. B!Builder(builders[b])
  BY DEF B!Described
<1>2. ASSUME NEW o \in Objects, B!RegisterType(b, o) PROVE B!Described(builders') /\ code' = code
  <2>1. /\ builders[o].name \notin DOMAIN builders[b].registered_subtypes
        /\ b \notin B!Tree(builders, o) /\ code' = code
        /\ builders' = [builders EXCEPT ![b].registered_subtypes = B!With(@, builders[o].name, o)]
    BY <1>2 DEF B!RegisterType, B!Edit
  <2> QED BY <2>1, RegisterKeeps
<1>3. ASSUME NEW e \in Edits, B!AddAttribute(b, e[1], e[2]) PROVE B!Described(builders') /\ code' = code
  <2>1. code' = code /\ builders' = [builders EXCEPT ![b].attributes = B!With(@, e[1], e[2])]
    BY <1>3 DEF B!AddAttribute, B!Edit
  <2> QED BY <2>1, AttributeKeeps
<1>4. ASSUME NEW f \in B!FnNames, NEW us \in SUBSET B!Uses, B!WithFunction(b, f, us)
      PROVE  B!Described(builders') /\ code' = code
  <2>1. code' = code /\ builders' = [builders EXCEPT ![b].functions = B!With(builders[b].functions, f, us)]
    BY <1>4 DEF B!WithFunction, B!Edit
  <2>2. B!Partial(B!With(builders[b].functions, f, us), B!FnNames, SUBSET B!Uses)
    BY <1>1, WithKeeps DEF B!Builder
  <2> QED BY <2>1, <2>2, FunctionsKeep
<1>5. ASSUME NEW f \in B!FnNames, B!CreateFunction(b, f) PROVE B!Described(builders') /\ code' = code
  BY <1>4, <1>5 DEF B!CreateFunction
<1>6. ASSUME NEW a \in DOMAIN builders[b].attributes, B!GenerateGetter(b, a) \/ B!GenerateSetter(b, a)
      PROVE  B!Described(builders') /\ code' = code
  <2> DEFINE at == builders[b].attributes[a]
  <2>1. a \in B!AttrNames /\ <<a, at>> \in B!Attributes
    BY <1>1 DEF B!Builder, B!Partial, B!Declared
  <2>2. at.category = "PRIMITIVE"
    BY <1>6 DEF B!GenerateGetter, B!GenerateSetter, B!Primitive
  <2>3. {"get_" \o a, "set_" \o a} \subseteq B!FnNames
    BY <2>1, <2>2, DataStructuresAssumption
  <2>4. ASSUME NEW op \in {"READ", "UPDATE"} PROVE {B!Use(op, a, "", FALSE)} \in SUBSET B!Uses
    <3> DEFINE u == B!Use(op, a, "", FALSE)
    <3>1. u = [op |-> op, on |-> a, fn |-> "", in_loop |-> FALSE]
      BY DEF B!Use
    <3> HIDE DEF u
    <3>2. u.op = op /\ op # "METHOD_CALL"
      BY <3>1
    <3>3. u \in [op : {"READ", "UPDATE", "READ_INDEXED", "INSERT_INDEXED", "REMOVE_INDEXED", "CREATE", "METHOD_CALL"},
                 on : Objects \cup B!TypeNames \cup B!AttrNames, fn : B!FnNames \cup {""}, in_loop : BOOLEAN]
      BY <2>1, <3>1
    <3>4. {u} \in SUBSET B!Uses
      BY <3>2, <3>3 DEF B!Uses
    <3> QED BY <3>4 DEF u
  <2>5. \/ B!WithFunction(b, "get_" \o a, {B!Use("READ", a, "", FALSE)})
        \/ B!WithFunction(b, "set_" \o a, {B!Use("UPDATE", a, "", FALSE)})
    BY <1>6 DEF B!GenerateGetter, B!GenerateSetter
  <2> QED BY <1>4, <2>3, <2>4, <2>5
<1>7. ASSUME NEW f \in B!FnNames, NEW u \in Statements, B!AddStatement(b, f, u)
      PROVE  B!Described(builders') /\ code' = code
  <2> DEFINE fs == builders[b].functions
             g == [fs EXCEPT ![f] = @ \cup {u}]
  <2>1. code' = code /\ builders' = [builders EXCEPT ![b].functions[f] = @ \cup {u}]
    BY <1>7 DEF B!AddStatement, B!Edit
  <2>2. builders' = [builders EXCEPT ![b].functions = g]
    BY <2>1
  <2>3. B!Partial(g, B!FnNames, SUBSET B!Uses)
    BY <1>1, DataStructuresAssumption DEF B!Builder, B!Partial
  <2> HIDE DEF g
  <2> QED BY <2>1, <2>2, <2>3, FunctionsKeep
<1> QED BY <1>2, <1>3, <1>5, <1>6, <1>7

\* Code in which whatever is named is there, the type n too.
GoodCode(c, n) ==
  /\ DOMAIN c \subseteq Names /\ n \in DOMAIN c
  /\ \A m \in DOMAIN c :
       /\ c[m].layout \in Layouts /\ c[m].creates \subseteq DOMAIN c
       /\ DOMAIN c[m].lists \subseteq AttrNames
       /\ \A a \in DOMAIN c[m].lists : c[m].lists[a].of \in DOMAIN c

\* What is built is such code.
LEMMA BuildIsGood ==
  ASSUME NEW bs, B!Described(bs), NEW b \in Objects, B!Builds(bs, b)
  PROVE  GoodCode(B!BuildNoJit(bs, b), bs[b].name)
<1> DEFINE types == B!Walk(B!Registered(bs), b, FALSE)
           T == B!Tree(bs, b)
           c == B!BuildNoJit(bs, b)
           Ns == {bs[o].name : o \in T}
           which(n) == CHOOSE o \in T : bs[o].name = n
<1>1. types \in Seq(Objects) /\ Elements(types) = T
  BY WalkIn
<1>2. DOMAIN types = 1..Len(types) /\ Len(types) \in Nat
  <2> HIDE DEF types
  <2> QED BY <1>1
<1>3. B!Range(types) = T
  BY <1>1 DEF B!Range, Elements
<1>4. c = [n \in Ns |-> B!TypeCode(bs, bs[which(n)])]
  <2>1. c = [n \in {bs[o].name : o \in B!Range(types)} |->
               B!TypeCode(bs, bs[CHOOSE o \in B!Range(types) : bs[o].name = n])]
    BY DEF B!BuildNoJit
  <2> HIDE DEF types, c, T
  <2> QED BY <1>3, <2>1
<1>5. \A i \in DOMAIN types : B!BuildsType(bs, types[i], UNION {B!Makes(bs[types[j]]) : j \in 1..(i - 1)})
  BY DEF B!Builds
<1> HIDE DEF types, c
<1>6. b \in T /\ T \subseteq Objects /\ \A o \in Objects : B!Builder(bs[o])
  BY TreeHas DEF B!Described
<1>7. DOMAIN c = Ns /\ \A o \in T : bs[o].name \in Ns
  BY <1>4
<1>8. Ns \subseteq Names
  BY <1>6, DataStructuresAssumption DEF B!Builder
<1> HIDE DEF T
<1>9. ASSUME NEW n \in Ns
      PROVE  \E o \in T : bs[o].name = n /\ c[n] = B!TypeCode(bs, bs[o])
  <2>1. which(n) \in T /\ bs[which(n)].name = n
    BY <1>9
  <2> HIDE DEF which
  <2> QED BY <1>4, <2>1
<1>10. ASSUME NEW o \in T
       PROVE  LET ty == B!TypeCode(bs, bs[o])
              IN /\ ty.layout \in Layouts /\ ty.creates \subseteq Ns
                 /\ DOMAIN ty.lists \subseteq AttrNames
                 /\ \A a \in DOMAIN ty.lists : ty.lists[a].of \in Ns
  <2> DEFINE d == bs[o]
             ty == B!TypeCode(bs, d)
  <2>1. /\ ty.layout = B!Layout(d)
        /\ ty.lists = [a \in B!Lists(d) |-> B!ListInfo(bs, d, a)]
        /\ ty.creates = {u.on : u \in {v \in UNION B!Range(d.functions) : v.op = "CREATE"}}
    BY DEF B!TypeCode
  <2>2. B!Builder(d) /\ o \in Objects
    BY <1>6
  <2>3. PICK i \in DOMAIN types : o = types[i]
    BY <1>1 DEF Elements
  <2> DEFINE built == UNION {B!Makes(bs[types[j]]) : j \in 1..(i - 1)}
  <2>4. B!BuildsType(bs, o, built)
    BY <1>5, <2>3
  <2>5. \A j \in 1..(i - 1) : types[j] \in T
    <3>1. \A j \in 1..(i - 1) : j \in DOMAIN types
      BY <1>2
    <3> QED BY <1>1, <3>1 DEF Elements
  <2>6. ASSUME NEW q \in built PROVE q[1] \in Ns
    <3>1. PICK j \in 1..(i - 1) : q \in B!Makes(bs[types[j]])
      OBVIOUS
    <3>2. q[1] = bs[types[j]].name
      BY <3>1 DEF B!Makes, B!Own
    <3> QED BY <1>7, <2>5, <3>2
  <2> HIDE DEF built, ty
  <2>7. ty.layout \in Layouts
    <3> DEFINE S == DOMAIN d.attributes
               f == B!Layout(d)
    <3>1. S \in SUBSET AttrNames
      BY <2>2 DEF B!Builder, B!Partial, B!AttrNames, B!Range, AttrNames
    <3>2. \A a \in S : <<a, d.attributes[a]>> \in B!Attributes
      BY <2>2 DEF B!Builder, B!Declared
    <3>3. f = [a \in S |-> d.attributes[a].type]
      BY DEF B!Layout
    <3> HIDE DEF S, d
    <3>4. \A a \in S : \E e \in B!Attributes : e[1] = a /\ e[2].type = f[a]
      BY <3>2, <3>3
    <3> HIDE DEF f
    <3>5. f \in [S -> {e[2].type : e \in B!Attributes}]
      BY <3>3, <3>4
    <3>6. f \in Layouts
      BY <3>1, <3>4, <3>5, LayoutsAssumption
    <3> QED BY <2>1, <3>6 DEF f
  <2>8. ty.creates \subseteq Ns
    <3> SUFFICES ASSUME NEW u \in UNION B!Range(d.functions), u.op = "CREATE" PROVE u.on \in Ns
      BY <2>1
    <3>1. PICK g \in DOMAIN d.functions : u \in d.functions[g]
      BY DEF B!Range
    <3>2. u.on \in DOMAIN d.registered_subtypes
      BY <2>4, <3>1 DEF B!BuildsType, B!StatementBuilds
    <3> DEFINE k == d.registered_subtypes[u.on]
    <3>3. k \in Objects /\ bs[k].name = u.on /\ k \in B!Subtypes(bs, o)
      BY <2>2, <3>2 DEF B!Described, B!Builder, B!Partial, B!Subtypes, B!Range
    <3>4. k \in T
      BY <3>3, TreeClosed DEF T
    <3> QED BY <1>7, <3>3, <3>4
  <2>9. DOMAIN ty.lists \subseteq AttrNames
    <3>1. DOMAIN ty.lists = B!Lists(d)
      BY <2>1
    <3>2. B!Lists(d) \subseteq DOMAIN d.attributes
      BY DEF B!Lists
    <3>3. DOMAIN d.attributes \subseteq AttrNames
      BY <2>2 DEF B!Builder, B!Partial, B!AttrNames, B!Range, AttrNames
    <3> QED BY <3>1, <3>2, <3>3
  <2>10. ASSUME NEW a \in DOMAIN ty.lists PROVE ty.lists[a].of \in Ns
    <3> DEFINE at == d.attributes[a]
    <3>1. a \in B!Lists(d) /\ ty.lists[a] = B!ListInfo(bs, d, a)
      BY <2>1
    <3>2. ty.lists[a].of = bs[at.of].name
      <4>1. B!ListInfo(bs, d, a).of = bs[at.of].name
        BY DEF B!ListInfo
      <4> HIDE DEF at, d
      <4> QED BY <3>1, <4>1
    <3>3. <<bs[at.of].name, "_init_storage">> \in built \cup B!Own(d, B!Storage(d))
      BY <2>4, <3>1 DEF B!BuildsType, B!ConstructorBuilds
    <3>4. CASE <<bs[at.of].name, "_init_storage">> \in built
      BY <2>6, <3>2, <3>4
    <3>5. CASE <<bs[at.of].name, "_init_storage">> \in B!Own(d, B!Storage(d))
      <4>1. bs[at.of].name = d.name
        BY <3>5 DEF B!Own
      <4> QED BY <1>7, <3>2, <4>1
    <3> QED BY <3>3, <3>4, <3>5
  <2> QED BY <2>7, <2>8, <2>9, <2>10 DEF ty
<1>11. ASSUME NEW m \in DOMAIN c
       PROVE  /\ c[m].layout \in Layouts /\ c[m].creates \subseteq DOMAIN c
              /\ DOMAIN c[m].lists \subseteq AttrNames
              /\ \A a \in DOMAIN c[m].lists : c[m].lists[a].of \in DOMAIN c
  <2>1. PICK o \in T : c[m] = B!TypeCode(bs, bs[o])
    BY <1>7, <1>9
  <2> QED BY <1>7, <1>10, <2>1, Zenon
<1>12. bs[b].name \in DOMAIN c
  BY <1>6, <1>7
<1> QED BY <1>7, <1>8, <1>11, <1>12 DEF GoodCode, c
------------------------------------------------------------------------------
\* Types are well described, and code is generated code.
DSInv ==
  /\ B!Described(builders) /\ DOMAIN code = Objects /\ WellFormed
  /\ running \in BOOLEAN

\* WellFormed says it of each builder that is built.
LEMMA GoodIs ==
  WellFormed <=> \A b \in Objects : Built(b) => GoodCode(code[b], builders[b].name)
BY DEF WellFormed, GoodCode

\* The same after a step.
LEMMA GoodNext ==
  WellFormed' <=> \A b \in Objects : code'[b] # <<>> => GoodCode(code'[b], builders'[b].name)
BY DEF WellFormed, GoodCode, Built

\* Code goes with the names of the builders only.
LEMMA NamesKeep ==
  ASSUME DSInv, DOMAIN code' = Objects, B!Described(builders'), running' \in BOOLEAN,
         \A b \in Objects : code'[b] = code[b] /\ builders'[b].name = builders[b].name
  PROVE  DSInv'
BY GoodIs, GoodNext DEF DSInv, Built

\* DSInv holds at the start.
LEMMA DSInvInit == DSInit => DSInv
<1> SUFFICES ASSUME DSInit PROVE DSInv
  OBVIOUS
<1>1. builders \in Skeletons /\ code = [b \in Objects |-> <<>>] /\ running = FALSE
  BY DEF DSInit, B!Init, InsInit
<1>2. B!Described(builders)
  BY <1>1, DataStructuresAssumption
<1>3. WellFormed
  BY <1>1 DEF WellFormed, Built
<1> QED BY <1>1, <1>2, <1>3 DEF DSInv

\* The steps of the builders leave the names.
LEMMA NamesStay ==
  ASSUME NEW b \in Objects, B!Described(builders),
         \/ \E o \in Objects : B!RegisterType(b, o)
         \/ \E e \in Edits : B!AddAttribute(b, e[1], e[2])
         \/ \E f \in B!FnNames : B!CreateFunction(b, f)
         \/ \E a \in DOMAIN builders[b].attributes : B!GenerateGetter(b, a) \/ B!GenerateSetter(b, a)
         \/ \E f \in B!FnNames, u \in Statements : B!AddStatement(b, f, u)
  PROVE  \A o \in Objects : builders'[o].name = builders[o].name
<1>1. ASSUME NEW o \in Objects PROVE builders[o] = [name |-> builders[o].name, attributes |-> builders[o].attributes,
         functions |-> builders[o].functions, registered_subtypes |-> builders[o].registered_subtypes]
  BY DEF B!Described, B!Builder
<1>2. DOMAIN builders = Objects
  BY DEF B!Described
<1>3. CASE \E g : builders' = [builders EXCEPT ![b].registered_subtypes = g]
  BY <1>1, <1>2, <1>3
<1>4. CASE \E g : builders' = [builders EXCEPT ![b].attributes = g]
  BY <1>1, <1>2, <1>4
<1>5. CASE \E g : builders' = [builders EXCEPT ![b].functions = g]
  BY <1>1, <1>2, <1>5
<1>6. ASSUME NEW f \in B!FnNames, NEW u \in Statements, B!AddStatement(b, f, u)
      PROVE  \E g : builders' = [builders EXCEPT ![b].functions = g]
  <2>1. builders' = [builders EXCEPT ![b].functions[f] = @ \cup {u}]
    BY <1>6 DEF B!AddStatement, B!Edit
  <2> QED BY <2>1
<1> QED BY <1>3, <1>4, <1>5, <1>6 DEF B!RegisterType, B!AddAttribute, B!CreateFunction, B!GenerateGetter,
        B!GenerateSetter, B!WithFunction, B!Edit

\* Every step keeps DSInv: those that describe types, the passes, build() and the instances.
LEMMA DSInvNext == DSInv /\ [DSNext]_dsvars => DSInv'
<1> SUFFICES ASSUME DSInv, [DSNext]_dsvars PROVE DSInv'
  OBVIOUS
<1>1. B!Described(builders) /\ DOMAIN code = Objects /\ WellFormed /\ running \in BOOLEAN
  BY DEF DSInv
<1>2. ASSUME Describe PROVE DSInv'
  <2>1. running' = running
    BY <1>2 DEF Describe, creating
  <2>2. PICK b \in Objects :
          \/ \E o \in Objects : B!RegisterType(b, o)
          \/ \E e \in Edits : B!AddAttribute(b, e[1], e[2])
          \/ \E f \in B!FnNames : B!CreateFunction(b, f)
          \/ \E a \in DOMAIN builders[b].attributes : B!GenerateGetter(b, a) \/ B!GenerateSetter(b, a)
          \/ \E f \in B!FnNames, u \in Statements : B!AddStatement(b, f, u)
          \/ b \in Tops /\ (B!RunAll(b) \/ B!Build(b))
    BY <1>2 DEF Describe, B!Next
  <2>3. CASE \/ \E o \in Objects : B!RegisterType(b, o)
             \/ \E e \in Edits : B!AddAttribute(b, e[1], e[2])
             \/ \E f \in B!FnNames : B!CreateFunction(b, f)
             \/ \E a \in DOMAIN builders[b].attributes : B!GenerateGetter(b, a) \/ B!GenerateSetter(b, a)
             \/ \E f \in B!FnNames, u \in Statements : B!AddStatement(b, f, u)
    <3>1. B!Described(builders') /\ code' = code
      BY <1>1, <2>3, EditsKeep
    <3>2. \A o \in Objects : builders'[o].name = builders[o].name
      BY <1>1, <2>3, NamesStay
    <3> QED BY <1>1, <2>1, <3>1, <3>2, NamesKeep
  <2>4. CASE B!RunAll(b)
    <3>1. CASE ~aborted'
      <4> DEFINE x == B!Passed(builders, b).bs
      <4>1. B!Described(x) /\ builders' \in B!Cleanings(x, b) /\ code' = code /\ B!Described(builders')
        BY <1>1, <2>4, <3>1, RunAllIs
      <4>2. \A o \in Objects : Pruned(x[o], builders[o])
        BY <1>1, PassPrunes
      <4> HIDE DEF x
      <4>3. IsCleaned(builders', x, b)
        BY <4>1, CleaningKeeps
      <4>4. \A o \in Objects : builders'[o].name = builders[o].name
        <5>1. ASSUME NEW o \in Objects PROVE x[o].name = builders[o].name /\ builders'[o].name = x[o].name
          <6>1. x[o] = [name |-> builders[o].name, attributes |-> builders[o].attributes,
                        functions |-> x[o].functions, registered_subtypes |-> builders[o].registered_subtypes]
            BY <4>2 DEF Pruned
          <6>2. builders'[o] = [name |-> x[o].name, attributes |-> builders'[o].attributes,
                                functions |-> x[o].functions, registered_subtypes |-> x[o].registered_subtypes]
            BY <4>3 DEF IsCleaned, Trimmed
          <6>3. x[o].name = builders[o].name
            BY <6>1
          <6>4. builders'[o].name = x[o].name
            BY <6>2
          <6> QED BY <6>3, <6>4
        <5> QED BY <5>1
      <4> QED BY <1>1, <2>1, <4>1, <4>4, NamesKeep
    <3>2. CASE aborted'
      <4>1. builders' = builders /\ code' = code
        BY <2>4, <3>2 DEF B!RunAll, B!Abort
      <4> QED BY <1>1, <2>1, <4>1, NamesKeep
    <3> QED BY <3>1, <3>2
  <2>5. CASE B!Build(b)
    <3>1. CASE B!Builds(builders, b)
      <4>1. code' = [code EXCEPT ![b] = B!BuildNoJit(builders, b)] /\ builders' = builders
        BY <2>5, <3>1 DEF B!Build
      <4>2. GoodCode(B!BuildNoJit(builders, b), builders[b].name)
        BY <1>1, <3>1, BuildIsGood
      <4>3. \A o \in Objects : code'[o] # <<>> => GoodCode(code'[o], builders'[o].name)
        BY <1>1, <4>1, <4>2, GoodIs DEF Built
      <4> QED BY <1>1, <2>1, <4>1, <4>3, GoodNext DEF DSInv
    <3>2. CASE ~B!Builds(builders, b)
      <4>1. builders' = builders /\ code' = code
        BY <2>5, <3>2 DEF B!Build, B!Abort
      <4> QED BY <1>1, <2>1, <4>1, NamesKeep
    <3> QED BY <3>1, <3>2
  <2> QED BY <2>2, <2>3, <2>4, <2>5
<1>3. ASSUME Run PROVE DSInv'
  <2>1. /\ running' = TRUE /\ code' = code
        /\ builders' = [b \in Objects |-> [builders[b] EXCEPT !.attributes = <<>>, !.functions = <<>>,
                                                              !.registered_subtypes = <<>>]]
    BY <1>3 DEF Run
  <2>2. ASSUME NEW o \in Objects
        PROVE  builders'[o] = [name |-> builders[o].name, attributes |-> <<>>, functions |-> <<>>,
                               registered_subtypes |-> <<>>]
    <3>1. builders[o] = [name |-> builders[o].name, attributes |-> builders[o].attributes,
                         functions |-> builders[o].functions, registered_subtypes |-> builders[o].registered_subtypes]
      BY <1>1 DEF B!Described, B!Builder
    <3> QED BY <2>1, <3>1
  <2>3. \A o \in Objects : /\ builders'[o].name = builders[o].name /\ builders'[o].attributes = <<>>
                           /\ builders'[o].functions = <<>> /\ builders'[o].registered_subtypes = <<>>
    <3> TAKE o \in Objects
    <3>1. builders'[o] = [name |-> builders[o].name, attributes |-> <<>>, functions |-> <<>>,
                          registered_subtypes |-> <<>>]
      BY <2>2
    <3> QED BY <3>1
  <2>4. DOMAIN <<>> = {} /\ \A S, T : B!Partial(<<>>, S, T)
    BY DEF B!Partial
  <2>5. \A o \in Objects : B!Builder(builders'[o])
    <3>1. \A o \in Objects : builders[o].name \in B!TypeNames
      BY <1>1 DEF B!Described, B!Builder
    <3>2. \A o \in Objects : B!Declared(builders'[o]) = {}
      BY <2>3, <2>4 DEF B!Declared
    <3> QED BY <2>2, <2>3, <2>4, <3>1, <3>2 DEF B!Builder
  <2>6. \A o \in Objects : B!Subtypes(builders', o) = {}
    BY <2>3, <2>4 DEF B!Subtypes, B!Range
  <2>7. builders' = [o \in Objects |-> builders'[o]]
    BY <2>1
  <2>8. B!Described(builders')
    BY <2>3, <2>4, <2>5, <2>6, <2>7 DEF B!Described
  <2> QED BY <1>1, <2>1, <2>3, <2>8, NamesKeep
<1>4. ASSUME builders' = builders, code' = code, running' = running PROVE DSInv'
  BY <1>1, <1>4, NamesKeep
<1>5. ASSUME Instantiate PROVE builders' = builders /\ code' = code /\ running' = running
  BY <1>5 DEF Instantiate, Constructor, Enters, Access, Create, Lookup, Get, InitStorage, Creating, Created,
       InsertMain, InitList, ClearAll, creating
<1>6. ASSUME UNCHANGED dsvars PROVE builders' = builders /\ code' = code /\ running' = running
  BY <1>6 DEF dsvars, insvars, creating
<1> QED BY <1>2, <1>3, <1>4, <1>5, <1>6 DEF DSNext

\* Builder::build hands over code in which whatever is named is there: the type itself, the types
\* whose records are created, and those of the elements of lists.  No builder is registered below
\* itself and every builder stays one, whatever is called and in whatever order.
THEOREM GeneratedCode == DSSpec => []DSInv
BY DSInvInit, DSInvNext, PTL DEF DSSpec

\* Builders and instances together implement Instances: what LLVMCodegen::build hands over may be
\* instantiated concurrently, for every set of builders, skeletons and calls of the API.
THEOREM BuildersImplementInstances == DSSpec => InstancesSpec
<1>1. DSInit => InsInit
  BY DEF DSInit
<1>2. DSInv /\ DSInv' /\ [DSNext]_dsvars => [InsNext]_insvars
  <2> SUFFICES ASSUME DSInv, DSInv', [DSNext]_dsvars PROVE [InsNext]_insvars
    OBVIOUS
  <2>1. CASE Describe
    <3>1. ~running /\ running' \in BOOLEAN /\ WellFormed' /\ UNCHANGED <<vars, init, made, calls>>
      BY <2>1 DEF Describe, DSInv, creating
    <3> QED BY <3>1 DEF InsNext, Deploy
  <2>2. CASE Run
    <3>1. ~running /\ running' \in BOOLEAN /\ WellFormed' /\ UNCHANGED <<vars, init, made, calls>>
      BY <2>2 DEF Run, DSInv
    <3> QED BY <3>1 DEF InsNext, Deploy
  <2>3. CASE Instantiate
    BY <2>3 DEF InsNext
  <2>4. CASE UNCHANGED dsvars
    BY <2>4 DEF dsvars
  <2> QED BY <2>1, <2>2, <2>3, <2>4 DEF DSNext
<1> QED BY <1>1, <1>2, GeneratedCode, PTL DEF DSSpec, InstancesSpec, InsSpec

\* The tables, the caches and the layouts of records are right for whatever clients describe and
\* build: createTablesInternal, the constructors and the builders composed.
THEOREM DataStructuresRight ==
  DSSpec => []InsTypeOK /\ [](OneTablePerName /\ ReturnedTableRight /\ CachesRight) /\ []LayoutAgreement
            /\ RegistrySpec
<1>1. DSSpec => InsSpec
  BY BuildersImplementInstances DEF InstancesSpec
<1> QED BY <1>1, InstancesTypes, InstancesTables, LayoutsAgree, InstancesUseRegistry

\* opt_pass_remove_unused_functions_from_composite_types(true) leaves of an orderly tree, however
\* deep and wide, exactly the functions that are reached from those of its root by calls outside
\* loops, and leaves the other builders as they were.
THEOREM PassesKeepReached == DSSpec => KeepsReached
<1> DEFINE Keeps(b) ==
       B!RunAll(b) /\ ~aborted' /\ B!Orderly(builders, b) =>
       LET tree    == B!Tree(builders, b)
           reached == B!Reached(builders, b)
       IN \A o \in Objects :
            IF o \in tree
            THEN DOMAIN builders'[o].functions =
                   {f \in DOMAIN builders[o].functions : b = o \/ <<o, f>> \in reached}
            ELSE builders'[o] = builders[o]
<1>1. DSInv => \A b \in Tops : Keeps(b)
  <2>1. \A b \in Tops : b \in Objects
    BY DataStructuresAssumption
  <2> QED BY <2>1, RunAllKeeps DEF DSInv
<1>2. DSInv => [\A b \in Tops : Keeps(b)]_(B!vars)
  BY <1>1
<1> QED BY <1>2, GeneratedCode, PTL DEF KeepsReached, B!KeepsReached

\* What the functions of R do in q, and the attributes that counts.
Done(bs, R, q)  == UNION {bs[q].functions[f] : f \in ReachedOf(bs, R, q)}
Plain(bs, R, q) == {u.on : u \in {v \in Done(bs, R, q) : v.op \in {"READ", "UPDATE"} /\ ~v.in_loop}}

\* What the passes leave.
Leaves(y, bs, b) ==
  LET R == B!Reached(bs, b)
  IN \A q \in Objects :
       /\ y[q].name = bs[q].name /\ y[q].registered_subtypes = bs[q].registered_subtypes
       /\ DOMAIN y[q].attributes \subseteq DOMAIN bs[q].attributes
       /\ \A a \in DOMAIN y[q].attributes : y[q].attributes[a] = bs[q].attributes[a]
       /\ q \in B!Tree(bs, b) => DOMAIN y[q].functions = ReachedOf(bs, R, q)
       /\ \A f \in DOMAIN y[q].functions : y[q].functions[f] = bs[q].functions[f]
       /\ q \in B!Cleaned(bs, b) /\ DOMAIN bs[q].attributes # {} => Plain(bs, R, q) \subseteq DOMAIN y[q].attributes
       /\ q \notin B!Cleaned(bs, b) => DOMAIN y[q].attributes = DOMAIN bs[q].attributes

\* What runAll leaves of an orderly tree.
LEMMA RunAllLeaves ==
  ASSUME NEW b \in Objects, B!Described(builders), B!RunAll(b), ~aborted', B!Orderly(builders, b)
  PROVE  Leaves(builders', builders, b)
<1> DEFINE R == B!Reached(builders, b)
           T == B!Tree(builders, b)
           x == B!Passed(builders, b).bs
<1>1. /\ B!Passed(builders, b).ok /\ ~B!StatsFail(x, b)
      /\ B!Described(x) /\ builders' \in B!Cleanings(x, b)
  BY RunAllIs
<1>2. IsCleared(x, builders, R, T \ {b})
  BY <1>1, PassClears, ClearedIs
<1> HIDE DEF x
<1>3. IsCleaned(builders', x, b)
  BY <1>1, CleaningKeeps
<1>4. b \in T /\ T \subseteq Objects
  BY TreeHas
<1> HIDE DEF R, T
<1>5. B!Cleaned(x, b) = B!Cleaned(builders, b)
  BY <1>2 DEF IsCleared, B!Cleaned
<1>6. B!Cleaned(builders, b) \subseteq T
  <2>1. B!Subtypes(builders, b) \subseteq T
    BY <1>4, SubtypesAre, TreeClosed DEF T
  <2> QED BY <1>4, <2>1 DEF B!Cleaned
<1>7. ASSUME NEW q \in T
      PROVE  DOMAIN x[q].functions = ReachedOf(builders, R, q)
             /\ \A f \in DOMAIN x[q].functions : x[q].functions[f] = builders[q].functions[f]
  <2>1. CASE q = b
    <3>1. x[q] = builders[q]
      BY <1>2, <1>4, <2>1 DEF IsCleared
    <3>2. ReachedOf(builders, R, b) = DOMAIN builders[b].functions
      BY ReachedHas DEF ReachedOf, R
    <3> QED BY <2>1, <3>1, <3>2
  <2>2. CASE q # b
    <3>1. x[q].functions = [f \in ReachedOf(builders, R, q) |-> builders[q].functions[f]]
      BY <1>2, <1>4, <2>2 DEF IsCleared
    <3> QED BY <3>1
  <2> QED BY <2>1, <2>2
<1>8. ASSUME NEW q \in Objects
      PROVE  /\ builders'[q].name = builders[q].name
             /\ builders'[q].registered_subtypes = builders[q].registered_subtypes
             /\ x[q].attributes = builders[q].attributes
             /\ builders'[q].functions = x[q].functions
             /\ DOMAIN builders'[q].attributes \subseteq DOMAIN builders[q].attributes
             /\ \A a \in DOMAIN builders'[q].attributes : builders'[q].attributes[a] = builders[q].attributes[a]
             /\ DOMAIN builders[q].attributes \cap B!Used(x, q) \subseteq DOMAIN builders'[q].attributes
             /\ q \notin B!Cleaned(builders, b) => builders'[q] = x[q]
  <2>1. /\ x[q].name = builders[q].name /\ x[q].attributes = builders[q].attributes
        /\ x[q].registered_subtypes = builders[q].registered_subtypes
    BY <1>2 DEF IsCleared
  <2>2. /\ builders'[q] = [name |-> x[q].name, attributes |-> builders'[q].attributes, functions |-> x[q].functions,
                           registered_subtypes |-> x[q].registered_subtypes]
        /\ DOMAIN builders'[q].attributes \subseteq DOMAIN x[q].attributes
        /\ builders'[q].attributes = [a \in DOMAIN builders'[q].attributes |-> x[q].attributes[a]]
        /\ DOMAIN x[q].attributes \cap B!Used(x, q) \subseteq DOMAIN builders'[q].attributes
        /\ q \notin B!Cleaned(x, b) => builders'[q] = x[q]
    BY <1>3 DEF IsCleaned, Trimmed
  <2>3. /\ builders'[q].name = x[q].name /\ builders'[q].functions = x[q].functions
        /\ builders'[q].registered_subtypes = x[q].registered_subtypes
    BY <2>2
  <2>4. \A a \in DOMAIN builders'[q].attributes : builders'[q].attributes[a] = x[q].attributes[a]
    BY <2>2
  <2> QED BY <1>5, <2>1, <2>2, <2>3, <2>4
<1>9. ASSUME NEW q \in T PROVE Plain(builders, R, q) = B!Used(x, q)
  <2>1. B!Visited(x, q) = {u \in Done(builders, R, q) : ~u.in_loop}
    BY <1>7 DEF B!Visited, B!Range, Done
  <2> QED BY <2>1 DEF B!Used, Plain
<1>10. ASSUME NEW q \in B!Cleaned(builders, b), DOMAIN builders[q].attributes # {}
       PROVE  Plain(builders, R, q) \subseteq DOMAIN builders'[q].attributes
  <2>1. q \in T /\ q \in Objects /\ q \in B!Cleaned(x, b)
    BY <1>4, <1>5, <1>6
  <2>2. B!Used(x, q) \subseteq DOMAIN x[q].attributes
    BY <1>1, <1>8, <1>10, <2>1 DEF B!StatsFail
  <2> QED BY <1>8, <1>9, <2>1, <2>2
<1>11. ASSUME NEW q \in Objects, q \notin T
       PROVE  \A f \in DOMAIN builders'[q].functions : builders'[q].functions[f] = builders[q].functions[f]
  <2>1. x[q] = builders[q]
    BY <1>2, <1>11 DEF IsCleared
  <2> QED BY <1>8, <2>1
<1>12. ASSUME NEW q \in Objects, q \notin B!Cleaned(builders, b)
       PROVE  DOMAIN builders'[q].attributes = DOMAIN builders[q].attributes
  BY <1>8, <1>12
<1>13. ASSUME NEW q \in T
       PROVE  /\ DOMAIN builders'[q].functions = ReachedOf(builders, R, q)
              /\ \A f \in DOMAIN builders'[q].functions : builders'[q].functions[f] = builders[q].functions[f]
  BY <1>4, <1>7, <1>8
<1> QED BY <1>8, <1>10, <1>11, <1>12, <1>13 DEF Leaves, R, T

\* What Counts says.
CountsAs(bs, b) ==
  LET R == B!Reached(bs, b)
  IN \A q \in B!Tree(bs, b) :
       /\ \A u \in Done(bs, R, q) : u.op = "METHOD_CALL" => [u EXCEPT !.in_loop = FALSE] \in Done(bs, R, q)
       /\ q \in B!Cleaned(bs, b) =>
            \A u \in Done(bs, R, q) : u.op \notin {"METHOD_CALL", "CREATE"} => u.on \in Plain(bs, R, q)
       /\ \A a \in B!Lists(bs[q]) :
            LET at == bs[q].attributes[a]
            IN /\ \A p \in B!Cleaned(bs, b) : bs[p].name = bs[at.of].name => Plain(bs, R, p) # {}
               /\ at.of \in B!Cleaned(bs, b) /\ at.key # "" => at.key \in Plain(bs, R, at.of)

\* Counts, in the terms of these proofs.
LEMMA CountsIs == ASSUME NEW bs, NEW b, B!Counts(bs, b) PROVE CountsAs(bs, b)
BY DEF B!Counts, CountsAs, Done, Plain, ReachedOf, B!Calls, B!OnAttribute

\* What LLVMCodegen finds of a type that is built it finds after the passes too.
LEMMA MakesStays ==
  ASSUME NEW y, NEW bs, B!Described(bs), NEW b \in Objects, Leaves(y, bs, b), NEW t \in B!Tree(bs, b),
         NEW n, NEW g, <<n, g>> \in B!Makes(bs[t]),
         g = "_constructor_inner" \/ <<t, g>> \in B!Reached(bs, b)
  PROVE  <<n, g>> \in B!Makes(y[t])
<1>1. t \in Objects
  BY TreeHas
<1>2. y[t].name = bs[t].name /\ n = bs[t].name
  BY <1>1 DEF Leaves, B!Makes, B!Own
<1>3. CASE g = "_constructor_inner"
  BY <1>2, <1>3 DEF B!Makes, B!Own
<1>4. CASE <<t, g>> \in B!Reached(bs, b)
  <2>1. PICK o \in Objects : \E f \in DOMAIN bs[o].functions : <<t, g>> = <<o, f>>
    BY <1>4, ReachedHas, FunctionsAre
  <2>2. g \in DOMAIN y[t].functions
    BY <1>1, <1>4, <2>1 DEF Leaves, ReachedOf
  <2> QED BY <1>2, <2>2 DEF B!Makes, B!Own
<1> QED BY <1>3, <1>4

\* Of a function that is a user's, which type it is of.
LEMMA MakesIs ==
  ASSUME NEW bs, B!Described(bs), NEW t \in Objects, NEW n, NEW g, <<n, g>> \in B!Makes(bs[t])
  PROVE  /\ n = bs[t].name
         /\ g \in B!FnNames => g \in DOMAIN bs[t].functions
         /\ g = "_init_storage" => DOMAIN bs[t].attributes # {}
<1>1. n = bs[t].name /\ g \in B!Storage(bs[t]) \cup {"_constructor_inner"} \cup DOMAIN bs[t].functions
  BY DEF B!Makes, B!Own
<1>2. B!Storage(bs[t]) \subseteq {"_init_storage"} /\ (DOMAIN bs[t].attributes = {} => B!Storage(bs[t]) = {})
  BY DEF B!Storage
<1>3. DOMAIN bs[t].functions \subseteq B!FnNames
  BY DEF B!Described, B!Builder, B!Partial
<1>4. {"_init_storage", "_constructor_inner"} \cap B!FnNames = {} /\ "_init_storage" # "_constructor_inner"
  BY DataStructuresAssumption
<1> QED BY <1>1, <1>2, <1>3, <1>4

\* A type that could be built can be built after the passes, if those before it are of the tree too.
LEMMA TypeStays ==
  ASSUME NEW bs, B!Described(bs), NEW b \in Objects, B!Orderly(bs, b), B!Counts(bs, b),
         NEW y, Leaves(y, bs, b), NEW p \in B!Tree(bs, b), NEW P \in SUBSET B!Tree(bs, b),
         B!BuildsType(bs, p, UNION {B!Makes(bs[t]) : t \in P})
  PROVE  B!BuildsType(y, p, UNION {B!Makes(y[t]) : t \in P})
<1> DEFINE R     == B!Reached(bs, b)
           T     == B!Tree(bs, b)
           old   == UNION {B!Makes(bs[t]) : t \in P}
           new   == UNION {B!Makes(y[t]) : t \in P}
           oldst == old \cup B!Own(bs[p], B!Storage(bs[p]))
           newst == new \cup B!Own(y[p], B!Storage(y[p]))
           olds(f) == oldst \cup B!Own(bs[p], {"_constructor_inner"})
                        \cup B!Own(bs[p], B!Before(f) \cap DOMAIN bs[p].functions)
           news(f) == newst \cup B!Own(y[p], {"_constructor_inner"})
                        \cup B!Own(y[p], B!Before(f) \cap DOMAIN y[p].functions)
<1>1. CountsAs(bs, b)
  BY CountsIs
<1>2. /\ B!ConstructorBuilds(bs, p, oldst)
      /\ \A f \in DOMAIN bs[p].functions : \A u \in bs[p].functions[f] : B!StatementBuilds(bs, p, olds(f), u)
  BY DEF B!BuildsType
<1>3. T \subseteq Objects /\ p \in Objects /\ P \subseteq Objects
  BY TreeHas
<1>4. \A q \in Objects :
        /\ y[q].name = bs[q].name /\ y[q].registered_subtypes = bs[q].registered_subtypes
        /\ DOMAIN y[q].attributes \subseteq DOMAIN bs[q].attributes
        /\ \A a \in DOMAIN y[q].attributes : y[q].attributes[a] = bs[q].attributes[a]
        /\ q \in T => DOMAIN y[q].functions = ReachedOf(bs, R, q)
        /\ \A f \in DOMAIN y[q].functions : y[q].functions[f] = bs[q].functions[f]
        /\ q \in B!Cleaned(bs, b) /\ DOMAIN bs[q].attributes # {} => Plain(bs, R, q) \subseteq DOMAIN y[q].attributes
        /\ q \notin B!Cleaned(bs, b) => DOMAIN y[q].attributes = DOMAIN bs[q].attributes
  BY DEF Leaves
<1> HIDE DEF R, T, old, new
<1>5. ASSUME NEW n, NEW g, <<n, g>> \in old
      PROVE  \E t \in P : <<n, g>> \in B!Makes(bs[t])
  BY <1>5 DEF old
<1>6. ASSUME NEW n, NEW g, NEW t \in P, <<n, g>> \in B!Makes(y[t]) PROVE <<n, g>> \in new
  BY <1>6 DEF new
<1>7. B!ConstructorBuilds(y, p, newst)
  <2> SUFFICES ASSUME NEW a \in B!Lists(y[p])
               PROVE  LET at == y[p].attributes[a]
                      IN /\ <<y[at.of].name, "_init_storage">> \in newst
                         /\ at.key # "" => at.key \in DOMAIN y[at.of].attributes
    BY DEF B!ConstructorBuilds
  <2> DEFINE at == bs[p].attributes[a]
  <2>1. a \in B!Lists(bs[p]) /\ y[p].attributes[a] = at
    BY <1>3, <1>4 DEF B!Lists
  <2>2. /\ <<bs[at.of].name, "_init_storage">> \in oldst
        /\ at.key # "" => at.key \in DOMAIN bs[at.of].attributes
    BY <1>2, <2>1 DEF B!ConstructorBuilds
  <2>3. /\ \A q \in B!Cleaned(bs, b) : bs[q].name = bs[at.of].name => Plain(bs, R, q) # {}
        /\ at.of \in B!Cleaned(bs, b) /\ at.key # "" => at.key \in Plain(bs, R, at.of)
    BY <1>1, <2>1 DEF CountsAs, R
  <2>4. at.of \in Objects
    <3>1. a \in DOMAIN bs[p].attributes /\ at.category = "ARRAY_LIST"
      BY <2>1 DEF B!Lists
    <3>2. <<a, at>> \in B!Attributes
      BY <1>3, <3>1 DEF B!Described, B!Builder, B!Declared
    <3>3. <<a, at>>[2].category = "ARRAY_LIST" => <<a, at>>[2].of \in Objects
      BY <3>2, DataStructuresAssumption
    <3> QED BY <3>1, <3>3
  <2> HIDE DEF at
  <2>5. ASSUME NEW t \in Objects, bs[t].name = bs[at.of].name, DOMAIN bs[t].attributes # {}
        PROVE  DOMAIN y[t].attributes # {}
    BY <1>4, <2>3, <2>5
  <2>6. y[at.of].name = bs[at.of].name
    BY <1>4, <2>4
  <2>7. <<y[at.of].name, "_init_storage">> \in newst
    <3>1. CASE <<bs[at.of].name, "_init_storage">> \in old
      <4>1. PICK t \in P : <<bs[at.of].name, "_init_storage">> \in B!Makes(bs[t])
        BY <1>5, <3>1
      <4>2. t \in Objects /\ bs[at.of].name = bs[t].name /\ DOMAIN bs[t].attributes # {}
        BY <1>3, <4>1, MakesIs
      <4>3. DOMAIN y[t].attributes # {} /\ y[t].name = bs[at.of].name
        BY <1>4, <2>5, <4>2
      <4>4. <<bs[at.of].name, "_init_storage">> \in B!Makes(y[t])
        BY <4>3 DEF B!Makes, B!Own, B!Storage
      <4> QED BY <1>6, <2>6, <4>4
    <3>2. CASE <<bs[at.of].name, "_init_storage">> \in B!Own(bs[p], B!Storage(bs[p]))
      <4>1. bs[at.of].name = bs[p].name /\ DOMAIN bs[p].attributes # {}
        BY <3>2 DEF B!Own, B!Storage
      <4>2. DOMAIN y[p].attributes # {} /\ y[p].name = bs[at.of].name
        BY <1>3, <1>4, <2>5, <4>1
      <4>3. <<bs[at.of].name, "_init_storage">> \in B!Own(y[p], B!Storage(y[p]))
        BY <4>2 DEF B!Own, B!Storage
      <4> QED BY <2>6, <4>3
    <3> QED BY <2>2, <3>1, <3>2
  <2>8. ASSUME at.key # "" PROVE at.key \in DOMAIN y[at.of].attributes
    <3>1. CASE at.of \in B!Cleaned(bs, b)
      BY <1>4, <2>2, <2>3, <2>4, <2>8, <3>1
    <3>2. CASE at.of \notin B!Cleaned(bs, b)
      BY <1>4, <2>2, <2>4, <2>8, <3>2
    <3> QED BY <3>1, <3>2
  <2> QED BY <2>1, <2>7, <2>8
<1>8. ASSUME NEW f \in DOMAIN y[p].functions, NEW u \in y[p].functions[f]
      PROVE  B!StatementBuilds(y, p, news(f), u)
  <2>1. /\ f \in DOMAIN bs[p].functions /\ <<p, f>> \in R
        /\ u \in bs[p].functions[f] /\ u \in Done(bs, R, p)
    BY <1>3, <1>4 DEF ReachedOf, Done, T
  <2>2. B!StatementBuilds(bs, p, olds(f), u)
    BY <1>2, <2>1
  <2>3. u \in B!Uses
    BY <1>3, <2>1, FunctionsAre
  <2>4. CASE u.op = "METHOD_CALL"
    <3>1. <<bs[u.on].name, u.fn>> \in olds(f)
      BY <2>2, <2>4 DEF B!StatementBuilds
    <3>2. u.fn \in B!FnNames /\ u.on \in Objects
      BY <2>3, <2>4 DEF B!Uses
    <3>3. u.fn # "_init_storage" /\ u.fn # "_constructor_inner"
      BY <3>2, DataStructuresAssumption
    <3>4. u.on \in B!Subtypes(bs, p) /\ u.on \in T
      <4>1. u \in B!Calls(B!All(bs, p))
        BY <1>3, <2>1, <2>4, FunctionsAre DEF B!Calls
      <4>2. u.on \in B!Subtypes(bs, p)
        BY <4>1 DEF B!Orderly
      <4> QED BY <3>2, <4>2, TreeClosed DEF T
    <3>5. ASSUME u.fn \in DOMAIN bs[u.on].functions PROVE <<u.on, u.fn>> \in R
      <4> DEFINE v == [u EXCEPT !.in_loop = FALSE]
      <4>1. v \in Done(bs, R, p)
        BY <1>1, <2>1, <2>4 DEF CountsAs, R
      <4>2. v.op = "METHOD_CALL" /\ ~v.in_loop /\ v.on = u.on /\ v.fn = u.fn
        BY <2>3, <2>4 DEF B!Uses
      <4> HIDE DEF v
      <4>3. PICK g \in ReachedOf(bs, R, p) : v \in bs[p].functions[g]
        BY <4>1 DEF Done
      <4>4. <<p, g>> \in R /\ <<u.on, u.fn>> \in B!CalledFrom(bs, <<p, g>>)
        BY <4>2, <4>3 DEF ReachedOf, B!CalledFrom
      <4>5. <<u.on, u.fn>> \in B!Functions(bs)
        BY <3>2, <3>5, FunctionsAre
      <4> QED BY <4>4, <4>5, ReachedHas DEF R
    <3>6. y[u.on].name = bs[u.on].name
      BY <1>4, <3>2
    <3>7. <<bs[u.on].name, u.fn>> \in news(f)
      <4>1. CASE <<bs[u.on].name, u.fn>> \in old
        <5>1. PICK t \in P : <<bs[u.on].name, u.fn>> \in B!Makes(bs[t])
          BY <1>5, <4>1
        <5>2. t \in T /\ bs[u.on].name = bs[t].name /\ u.fn \in DOMAIN bs[t].functions
          BY <1>3, <3>2, <5>1, MakesIs DEF T
        <5>3. t = u.on
          BY <3>4, <5>2 DEF B!Orderly, T
        <5>4. <<t, u.fn>> \in R
          BY <3>5, <5>2, <5>3
        <5>5. <<bs[u.on].name, u.fn>> \in B!Makes(y[t])
          BY <5>1, <5>2, <5>4, MakesStays DEF R, T
        <5> QED BY <1>6, <5>5
      <4>2. CASE <<bs[u.on].name, u.fn>> \in B!Own(bs[p], B!Before(f) \cap DOMAIN bs[p].functions)
        <5>1. bs[u.on].name = bs[p].name /\ u.fn \in B!Before(f) /\ u.fn \in DOMAIN bs[p].functions
          BY <4>2 DEF B!Own
        <5>2. p = u.on
          BY <3>4, <5>1 DEF B!Orderly, T
        <5>3. u.fn \in DOMAIN y[p].functions
          BY <1>3, <1>4, <3>5, <5>1, <5>2 DEF ReachedOf, T
        <5>4. <<bs[u.on].name, u.fn>> \in B!Own(y[p], B!Before(f) \cap DOMAIN y[p].functions)
          BY <3>6, <5>1, <5>2, <5>3 DEF B!Own
        <5> QED BY <5>4
      <4>3. <<bs[u.on].name, u.fn>> \notin B!Own(bs[p], B!Storage(bs[p]))
        BY <3>3 DEF B!Own, B!Storage
      <4>4. <<bs[u.on].name, u.fn>> \notin B!Own(bs[p], {"_constructor_inner"})
        BY <3>3 DEF B!Own
      <4> QED BY <3>1, <4>1, <4>2, <4>3, <4>4
    <3> HIDE DEF news
    <3> QED BY <2>4, <3>6, <3>7 DEF B!StatementBuilds
  <2>5. CASE u.op = "CREATE"
    <3>1. u.on \in DOMAIN bs[p].registered_subtypes /\ <<u.on, "_constructor_inner">> \in olds(f)
      BY <2>2, <2>5 DEF B!StatementBuilds
    <3>4. <<u.on, "_constructor_inner">> \in news(f)
      <4>1. CASE <<u.on, "_constructor_inner">> \in old
        <5>1. PICK t \in P : <<u.on, "_constructor_inner">> \in B!Makes(bs[t])
          BY <1>5, <4>1
        <5>2. <<u.on, "_constructor_inner">> \in B!Makes(y[t])
          BY <5>1, MakesStays
        <5> QED BY <1>6, <5>2
      <4>2. CASE <<u.on, "_constructor_inner">> \notin old
        <5>1. u.on = bs[p].name
          BY <3>1, <4>2 DEF B!Own
        <5>2. <<u.on, "_constructor_inner">> \in B!Own(y[p], {"_constructor_inner"})
          BY <1>3, <1>4, <5>1 DEF B!Own
        <5> QED BY <5>2
      <4> QED BY <4>1, <4>2
    <3>5. u.on \in DOMAIN y[p].registered_subtypes
      BY <1>3, <1>4, <3>1
    <3> HIDE DEF news
    <3> QED BY <2>5, <3>4, <3>5 DEF B!StatementBuilds
  <2>6. CASE u.op \notin {"METHOD_CALL", "CREATE"}
    <3>1. u.on \in DOMAIN bs[p].attributes
      BY <2>2, <2>6 DEF B!StatementBuilds
    <3>2. u.on \in DOMAIN y[p].attributes
      <4>1. CASE p \in B!Cleaned(bs, b)
        <5>1. u.on \in Plain(bs, R, p)
          BY <1>1, <2>1, <2>6, <4>1 DEF CountsAs, R
        <5> QED BY <1>3, <1>4, <3>1, <4>1, <5>1
      <4>2. CASE p \notin B!Cleaned(bs, b)
        BY <1>3, <1>4, <3>1, <4>2
      <4> QED BY <4>1, <4>2
    <3> HIDE DEF news
    <3> QED BY <2>6, <3>2 DEF B!StatementBuilds
  <2> QED BY <2>4, <2>5, <2>6
<1> QED BY <1>7, <1>8 DEF B!BuildsType, new

\* What could be built can be built of what the passes leave.
LEMMA BuildableStays ==
  ASSUME NEW bs, B!Described(bs), NEW b \in Objects, B!Orderly(bs, b), B!Counts(bs, b),
         NEW y, Leaves(y, bs, b), NEW o \in B!Tree(bs, b), B!Builds(bs, o)
  PROVE  B!Builds(y, o)
<1> DEFINE types == B!Walk(B!Registered(bs), o, FALSE)
<1>1. \A q \in Objects : y[q].name = bs[q].name /\ y[q].registered_subtypes = bs[q].registered_subtypes
  BY DEF Leaves
<1>2. B!Registered(y) = B!Registered(bs)
  BY <1>1 DEF B!Registered
<1>3. o \in Objects /\ B!Tree(bs, o) \subseteq B!Tree(bs, b) /\ B!Tree(bs, b) \subseteq Objects
  BY TreeHas, TreeIn
<1>4. types \in Seq(Objects) /\ Elements(types) = B!Tree(bs, o)
  BY <1>3, WalkIn
<1>5. \A i \in DOMAIN types :
        /\ \A j \in 1..(i - 1) : bs[types[j]].name # bs[types[i]].name
        /\ B!BuildsType(bs, types[i], UNION {B!Makes(bs[types[j]]) : j \in 1..(i - 1)})
  BY DEF B!Builds
<1>6. B!Walk(B!Registered(y), o, FALSE) = types
  BY <1>2
<1> HIDE DEF types
<1>7. DOMAIN types = 1..Len(types) /\ Len(types) \in Nat /\ \A i \in DOMAIN types : types[i] \in B!Tree(bs, b)
  BY <1>3, <1>4 DEF Elements
<1>8. ASSUME NEW i \in DOMAIN types
      PROVE  /\ \A j \in 1..(i - 1) : y[types[j]].name # y[types[i]].name
             /\ B!BuildsType(y, types[i], UNION {B!Makes(y[types[j]]) : j \in 1..(i - 1)})
  <2> DEFINE P == {types[j] : j \in 1..(i - 1)}
  <2>1. \A j \in 1..(i - 1) : j \in DOMAIN types
    BY <1>7
  <2>2. P \in SUBSET B!Tree(bs, b) /\ types[i] \in B!Tree(bs, b)
    BY <1>7, <2>1
  <2>3. /\ UNION {B!Makes(bs[types[j]]) : j \in 1..(i - 1)} = UNION {B!Makes(bs[t]) : t \in P}
        /\ UNION {B!Makes(y[types[j]]) : j \in 1..(i - 1)} = UNION {B!Makes(y[t]) : t \in P}
    OBVIOUS
  <2>4. B!BuildsType(bs, types[i], UNION {B!Makes(bs[t]) : t \in P})
    BY <1>5, <2>3
  <2> HIDE DEF P
  <2>5. B!BuildsType(y, types[i], UNION {B!Makes(y[t]) : t \in P})
    BY <2>2, <2>4, TypeStays
  <2>6. \A j \in 1..(i - 1) : y[types[j]].name # y[types[i]].name
    BY <1>1, <1>3, <1>5, <1>7, <2>1
  <2> QED BY <2>3, <2>5, <2>6
<1> QED BY <1>6, <1>8 DEF B!Builds

\* BuilderOptPasses::runAll takes nothing away that build() needs of an orderly tree in which all
\* that is used counts, whichever of the unused attributes the dangling iterator misses.
THEOREM PassesStayBuildable == DSSpec => StaysBuildable
<1> DEFINE Stays(b) ==
       B!RunAll(b) /\ ~aborted' /\ B!Orderly(builders, b) /\ B!Counts(builders, b) =>
         \A o \in B!Tree(builders, b) : B!Builds(builders, o) => B!Builds(builders', o)
<1>1. DSInv => \A b \in Tops : Stays(b)
  <2>1. \A b \in Tops : b \in Objects
    BY DataStructuresAssumption
  <2> QED BY <2>1, RunAllLeaves, BuildableStays DEF DSInv
<1>2. DSInv => [\A b \in Tops : Stays(b)]_(B!vars)
  BY <1>1
<1> QED BY <1>2, GeneratedCode, PTL DEF StaysBuildable, B!StaysBuildable
==============================================================================
