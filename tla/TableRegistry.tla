---------------------------- MODULE TableRegistry ----------------------------
(***************************************************************************)
(* Tables by name and by id: createTablesInternal, which every constructor *)
(* of a data structure calls for its types, TableRegistry, and the         *)
(* thread-local cache through which a record reference finds its table by  *)
(* the id packed into it.  Every operation of the registry is atomic under *)
(* registry_lk; createTablesInternal is several of them under a mutex of   *)
(* its own.  clear() is called when no call is under way, as the           *)
(* benchmarks do; it knows nothing of the caches.                          *)
(***************************************************************************)
EXTENDS Naturals, FiniteSets

CONSTANTS
  Threads, Names,
  Layouts,    \* what tables are made of: the columns, with their types
  IdSpace,    \* how many ids table_id_t has (2^16)
  MaxTables,  \* bound: the tables ever created
  NoTable, NoName, NoLayout, NoThread

ASSUME RegistryAssumption ==
  /\ IdSpace \in Nat \ {0}
  /\ MaxTables \in Nat /\ MaxTables <= IdSpace
  /\ NoTable \notin Nat /\ NoThread \notin Threads
  /\ NoName \notin Names /\ NoLayout \notin Layouts

Ids    == 0..(IdSpace - 1)
Tables == 1..MaxTables    \* the objects, in the order of their creation

VARIABLES
  tables,              \* id -> table
  table_name_map,      \* name -> id, for the names in its domain
  table_id_generator,
  table,               \* the object: its id, name and columns; destroyed by clear
  created,             \* the number of tables created so far
  create_table_m,      \* the thread inside the critical section
  pc, name, columns,   \* createTablesInternal: where the thread is, and its arguments
  ret_table_ptr,       \* its local variable, and what it returns
  cache_map            \* the thread-local cache of RecordReference::getTable

registry == <<tables, table_name_map, table_id_generator, table, created>>
call     == <<create_table_m, pc, name, columns, ret_table_ptr>>
vars     == <<registry, call, cache_map>>

Live    == {x \in 1..created : table[x].live}
NoEntry == [id |-> 0, name |-> NoName, columns |-> NoLayout, live |-> FALSE]

Init ==
  /\ tables = [i \in Ids |-> NoTable]
  /\ table_name_map = [n \in {} |-> 0]
  /\ table_id_generator = 0
  /\ table = [x \in Tables |-> NoEntry]
  /\ created = 0
  /\ create_table_m = NoThread
  /\ pc = [t \in Threads |-> "out"]
  /\ name = [t \in Threads |-> NoName]
  /\ columns = [t \in Threads |-> NoLayout]
  /\ ret_table_ptr = [t \in Threads |-> NoTable]
  /\ cache_map = [t \in Threads |-> [i \in Ids |-> NoTable]]

------------------------------------------------------------------------------
\* TableRegistry::exists and getTable by name.
Exists(n)  == n \in DOMAIN table_name_map
ByName(n)  == IF Exists(n) THEN tables[table_name_map[n]] ELSE NoTable

\* The critical section is open to everybody.
FaultyEnter(t, n, cols) ==
  /\ pc[t] = "out" /\ created < MaxTables
  /\ pc' = [pc EXCEPT ![t] = "exists"]
  /\ name' = [name EXCEPT ![t] = n]
  /\ columns' = [columns EXCEPT ![t] = cols]
  /\ ret_table_ptr' = [ret_table_ptr EXCEPT ![t] = NoTable]
  /\ UNCHANGED <<registry, create_table_m, cache_map>>

Enter(t, n, cols) ==
  /\ pc[t] = "out" /\ create_table_m = NoThread /\ created < MaxTables
  /\ create_table_m' = t
  /\ pc' = [pc EXCEPT ![t] = "exists"]
  /\ name' = [name EXCEPT ![t] = n]
  /\ columns' = [columns EXCEPT ![t] = cols]
  /\ ret_table_ptr' = [ret_table_ptr EXCEPT ![t] = NoTable]
  /\ UNCHANGED <<registry, cache_map>>

CheckExists(t) ==
  /\ pc[t] = "exists"
  /\ pc' = [pc EXCEPT ![t] = IF Exists(name[t]) THEN "get" ELSE "create"]
  /\ UNCHANGED <<registry, create_table_m, name, columns, ret_table_ptr, cache_map>>

\* The branch for a table that exists does not keep what it found.
FaultyGetTable(t) ==
  /\ pc[t] = "get"
  /\ pc' = [pc EXCEPT ![t] = "leave"]
  /\ UNCHANGED <<registry, create_table_m, name, columns, ret_table_ptr, cache_map>>

GetTable(t) ==
  /\ pc[t] = "get"
  /\ ret_table_ptr' = [ret_table_ptr EXCEPT ![t] = ByName(name[t])]
  /\ pc' = [pc EXCEPT ![t] = "leave"]
  /\ UNCHANGED <<registry, create_table_m, name, columns, cache_map>>

\* Ids are handed out by the number of tables there are.
FaultyNextId == table_id_generator' = (Cardinality(Live) + 1) % IdSpace

\* table_id_generator.fetch_add(1) of a uint16_t.
NextId == table_id_generator' = (table_id_generator + 1) % IdSpace

\* TableRegistry::createTable; try_emplace leaves an entry that is there alone.
CreateTable(t) ==
  /\ pc[t] = "create" /\ created < MaxTables
  /\ NextId
  /\ created' = created + 1
  /\ LET id == table_id_generator
         n  == name[t]
     IN /\ table' = [table EXCEPT ![created'] = [id |-> id, name |-> n, columns |-> columns[t],
                                               live |-> TRUE]]
        /\ table_name_map' = IF Exists(n) THEN table_name_map
                             ELSE [m \in DOMAIN table_name_map \cup {n} |->
                                     IF m = n THEN id ELSE table_name_map[m]]
        /\ tables' = IF tables[id] # NoTable THEN tables ELSE [tables EXCEPT ![id] = created']
  /\ ret_table_ptr' = [ret_table_ptr EXCEPT ![t] = created']
  /\ pc' = [pc EXCEPT ![t] = "leave"]
  /\ UNCHANGED <<create_table_m, name, columns, cache_map>>

Leave(t) ==
  /\ pc[t] = "leave"
  /\ pc' = [pc EXCEPT ![t] = "out"]
  /\ create_table_m' = NoThread
  /\ UNCHANGED <<registry, name, columns, ret_table_ptr, cache_map>>

\* TableRegistry::clear: the tables are deleted, the generator goes on from where it is.
Clear ==
  /\ \A t \in Threads : pc[t] = "out"
  /\ tables' = [i \in Ids |-> NoTable]
  /\ table_name_map' = [n \in {} |-> 0]
  /\ table' = [x \in Tables |-> [table[x] EXCEPT !.live = FALSE]]
  /\ ret_table_ptr' = [t \in Threads |-> NoTable]
  /\ UNCHANGED <<table_id_generator, created, create_table_m, pc, name, columns, cache_map>>

\* RecordReference::getTable for a record of a table that exists.  try_emplace does not replace an
\* entry, but an entry that is there is used before the registry is asked.
Resolve(t, x) ==
  /\ x \in Live
  /\ LET id == table[x].id IN
       cache_map' = IF cache_map[t][id] # NoTable THEN cache_map
                    ELSE [cache_map EXCEPT ![t][id] = tables[id]]
  /\ UNCHANGED <<registry, call>>

Next ==
  \/ \E t \in Threads :
       \/ \E n \in Names, cols \in Layouts : Enter(t, n, cols)
       \/ CheckExists(t) \/ GetTable(t) \/ CreateTable(t) \/ Leave(t)
       \/ \E x \in Tables : Resolve(t, x)
  \/ Clear

Spec == Init /\ [][Next]_vars
------------------------------------------------------------------------------
\* Types; the mutex is held exactly by the thread inside createTablesInternal.
TypeOK ==
  /\ tables \in [Ids -> Tables \cup {NoTable}]
  /\ DOMAIN table_name_map \subseteq Names
  /\ table_name_map \in [DOMAIN table_name_map -> Ids]
  /\ table_id_generator \in Ids
  /\ table \in [Tables -> [id : Ids, name : Names \cup {NoName},
                         columns : Layouts \cup {NoLayout}, live : BOOLEAN]]
  /\ created \in 0..MaxTables
  /\ pc \in [Threads -> {"out", "exists", "get", "create", "leave"}]
  /\ name \in [Threads -> Names \cup {NoName}]
  /\ columns \in [Threads -> Layouts \cup {NoLayout}]
  /\ ret_table_ptr \in [Threads -> Tables \cup {NoTable}]
  /\ cache_map \in [Threads -> [Ids -> Tables \cup {NoTable}]]
  /\ \A t \in Threads : create_table_m = t <=> pc[t] # "out"

\* "so that if two DS instances are getting initialized together, we don't create the same table
\* twice": no two tables have one name, and a name leads to its table.
OneTablePerName ==
  /\ \A x, y \in Live : table[x].name = table[y].name => x = y
  /\ \A x \in Live : ByName(table[x].name) = x

\* What createTablesInternal returns is a table of the name it was asked for, and still is when the
\* call has long returned, up to the next clear.
ReturnedTableRight ==
  \A t \in Threads :
    /\ pc[t] = "leave" => ret_table_ptr[t] # NoTable
    /\ ret_table_ptr[t] # NoTable =>
         ret_table_ptr[t] \in Live /\ table[ret_table_ptr[t]].name = name[t]

\* A cache never answers for a table that exists with another one, deleted tables of earlier
\* clears included: no id is used twice.
CachesRight ==
  \A t \in Threads : \A x \in Live : cache_map[t][table[x].id] \in {NoTable, x}
==============================================================================
