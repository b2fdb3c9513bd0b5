# Verification of DCDS

DCDS generates concurrent data structures from declarative descriptions. A
client describes types, attributes and functions with builders; a pass injects
lock statements; an LLVM back end turns every function into machine code that
calls a small transaction runtime. This directory holds the TLA+ models of
that system, the TLC configurations that check them and the TLAPS proofs.

## The system

| Part | State it keeps | Operations | Source |
| --- | --- | --- | --- |
| Transaction runtime | per attempt: status, lock sets, undo log | begin, lock shared and exclusive with upgrade, read, write, insert, end with commit or abort and rollback | `dcds/lib/transaction`, `dcds/lib/codegen/llvm-codegen/functions.cpp` |
| Row store | records, each with an `rw_mutex` and its cells; allocations | insert, update, read, undo | `dcds/lib/storage/table.cpp` |
| Registries | name -> table, id -> table, thread-local caches; name -> transaction manager | create, get, exists, clear | `table-registry.cpp`, `transaction-namespaces.hpp`, `functions.cpp` |
| Indexes | key -> record, a cuckoo map outside the transactions | find, insert, remove | `dcds/include/dcds/indexes` |
| Locks | counters and flags | spin lock, reader-writer lock with try and upgrade | `dcds/include/dcds/util/locks` |
| CC injector | the statement tree, locks placed, traits of names | place a lock, convert it, clone a callee | `dcds/lib/builder/cc-injector.cpp` |
| Builders | types, attributes, functions, statement trees | register types, add attributes and statements, validate, clone | `dcds/lib/builder` |
| Optimisation passes | none; they change the builders | drop functions nobody calls, drop attributes nobody uses | `dcds/lib/builder/builder-opt-passes.cpp` |
| Expressions | an operator and pointers to the operands | result type, visit by the code generator | `dcds/include/dcds/builder/expressions`, `llvm-expression-visitor.cpp` |
| Code generator | LLVM module, functions built so far, blocks, allocated variables | build a type and what it registers, a function and the retry loop around it, constructors | `dcds/lib/codegen` |
| Generated structures | linked lists, stack, FIFO, LRU lists, indexed map, counter | push, pop, touch, insert, lookup | `benchmarks`, `dcds/test` |

How they interact. An outer function begins a transaction, calls the inner
function and ends the transaction, and repeats while `endTxn` says aborted.
The inner function calls the lock entry points where the injector placed lock
statements, and leaves at once when one returns false. Reads and writes go
straight to the record in place; the undo log makes an abort possible. Indexes
are reached without any lock and without an undo entry. Tables are found by
the id packed into a record reference through a thread-local cache. A generated
constructor looks the table of its type up by the name of the type and creates
it where there is none; a list attribute has a table of the element type, made
in the same way. The columns of a new table are those of the type the
constructor was generated from, but of a table that is there they are those of
whoever created it.

What is hard about it:

* attempts of several threads interleave at every lock, read, write, undo and
  release; a lock is one try, a failed try aborts, and aborts are retried at
  once;
* an upgrade gives the shared lock up before it tries for the exclusive one;
* an aborted insertion frees memory that other records may refer to;
* index operations take effect at once and are not undone;
* which accesses are locked is decided at compile time, per function, from
  what the injector believes about names;
* which basic block follows a statement is decided from its place in its own
  block only, and a function the LLVM verifier refuses is only reported;
* builders share the types they register, and the passes count only some of the
  uses of an attribute or a function before they remove it;
* which operand types an expression compiles for is decided in the visit of each
  operator, by a load of a fixed width or by none.

What makes each part correct:

* runtime: the locks say who may use a record, an abort leaves no trace,
  no reference leads to a freed record, attempts look atomic, attempts end;
* registry: one table per name, and every reference leads to the table it was
  made for, whatever is cached;
* reader-writer lock: it excludes as such a lock must, and a waiter nobody
  disturbs gets in;
* injector: no shared record is read or written without its lock, on any path;
* generator: the code does what the statements say;
* passes: what is reached stays, what nobody reaches goes, other builders keep
  what is theirs, and what could be built can still be built;
* instances: a record is laid out as the table it is put into;
* expressions: the code computes the value the operators stand for, in the type
  the expression announces;
* lists: both directions agree, and each list is the sequence it promises;
  LRU lists keep index, list and size in step and evict the oldest.

## Modules

Each component has a module of its own; `MC*` modules hold the finite
instances. Definitions whose names begin with `Faulty` repeat an operation with
a plausible mistake in it. No specification uses them: they document, for each
property, a mistake it catches.

| Module | Models | Specification it implements |
| --- | --- | --- |
| `TxnRuntime` | retry loop, lock entry points, row store, log, commit, abort | `AtomicStore`: private buffers, committed in one step |
| `TableRegistry` | `createTablesInternal`, registry, caches of the threads | |
| `Builders` | builder API, optimisation passes, what `build` makes of a tree of builders | |
| `Instances` | concurrent constructors over the registry, for any generated code | `TableRegistry`, as a use of it |
| `DataStructures` | builders, then the instances of what they built | `Instances`, with the code the builders make |
| `Expressions` | the expression classes and `LLVMExpressionVisitor` | the meaning of the operators |
| `AtomicCtrRwLock` | every atomic operation of the class | `RWLock` |
| `ListHeap`, `LinkedLists` | pointers and functions of the linked lists, stack and FIFO | `NodeSequence` |
| `LruList`, `LruList2` | `insert` of both LRU classes over `ListHeap`, index and locks | `AtomicLru` |
| `CCInjector` | the pass and the execution of its output | |
| `StatementBlocks`, `CodegenFunction` | statement blocks, basic blocks, execution | `StatementTree` |
| `TxnRuntimeProofs` | proofs about `TxnRuntime` | |
| `DataStructuresProofs` | proofs about `TableRegistry`, `Instances` and `Builders` | |
| `AtomicCtrRwLockProofs` | proofs about `AtomicCtrRwLock` | |
| `FunctionProofs` | proofs about `CCInjector`, `CodegenFunction` and `Expressions` | |
| `ListHeapProofs`, `LinkedListsProofs` | proofs about each function of a list, and about the lists | |
| `LruListProofs`, `LruList2Proofs` | proofs about the two modules | |

### TxnRuntime

`pc` is where a thread is in the loop of `buildOneFunction_outer`; `status`,
`exclusive_locks`, `shared_locks` and `log` are the members of `Txn`; `writer`
and `readers` are the `rw_mutex` in each record's metadata; `mem` is the
cells. A cell holds data or a reference, `known` is what the temporaries of an
attempt refer to. Each entry point of `functions.cpp` is one action, except
where others can see it half done: an upgrade, the rollback and the release of
the locks proceed one step at a time.

The function between the calls is any program that obeys the injected locks: it
reads a record it has locked or inserted, writes one it has locked exclusively
or inserted, locks any record it has a reference to but its own new ones, and
stops when a lock call returns false. A program chosen by a client is among
these. Not covered: a program that locks an alias of a record it has inserted
(the rollback frees the record, and the release after it then touches the
freed mutex, `transaction-manager.cpp:74-75`).

`reads` and `committed` are history variables. A read leaves `reads` when an
upgrade gives its lock up: what the code promises for it is less, and
`ReadsStable` and `AtomicStore` promise no more. `mem` keeps whole records;
arrays, `insertNRecord` and reads of constants are left out. `tbb::rw_mutex`
is external; its try calls are taken to fail only when the lock is taken. The
log of a committed attempt is emptied at once, as nothing reads it again.

### TableRegistry

Names are created by threads that run `createTablesInternal` with the columns
of a type; ids come from a counter; references of each table are resolved
through a cache per thread. `clear` runs only while no function does, as all of
its callers have it. Ids do not wrap (`MaxTables <= IdSpace`). A `DenseMap`
keeps the last two values of its key type for itself, so that in the program
the bound is two below the number of ids. Each method of the registry is one
critical section of its lock, hence one action.

### Builders

`builders` maps the `Builder` objects to their name, attributes, functions and
`registered_subtypes`; a subtype registered by two builders is one object. A
function is the set of the uses its statements make of attributes, types and
functions, each with whether it is in a loop, as the passes walk statements
with `for_each_statement`, which does not enter loops, while the generator
does. The order of statements, which neither the passes nor the name lookups of
the generator depend on, is left out. `std::map` iterates by name: `NameOrder`, `FnOrder` and
`AttrOrder` are that order.

The methods of the API are actions, each with the conditions under which it
does not throw or assert; a call that throws changes nothing and is no step.
`CHECK` and `assert` are taken to be enabled: where `runAll` or `build` meets
one that fails, the process ends (`aborted`). `RunAll` is one action that does
all of both passes. `opt_pass_removeUnusedAttributes` erases from the map it
iterates over; erasing the current element leaves the iterator dangling, so
`Removals` lets the loop go on with any of the other unused attributes or miss
them, or end the process. `Build` follows `build_no_jit`: subtypes first, each
once per path, then the type's storage function, constructor and functions,
where every lookup by name must find what was built before.

`Orderly` and `Counts` are the conditions under which the passes keep their
promise; the source states neither. `Orderly`: types in the tree have names of
their own and are registered once, and callees belong to registered types.
`Counts`: every use in a function that is reached is matched by a plain read,
update or call outside loops, the elements of a list keep their key, and every
type that is cleaned and has the name of a list's elements keeps an attribute.
Both are conditions on what the client wrote, and each part was found by
dropping it and reading TLC's counterexample, except for the last: that the
elements themselves keep an attribute is enough in all instances TLC was given,
but the constructor looks for their storage by name (`llvm-codegen.cpp:797`), so
that a list of a type outside the tree is served by a type of that name inside
it. The attempt to prove `StaysBuildable` showed it.

Recursion along `registered_subtypes` is `Walk`, the order in which types are
met: each before those below it (the passes) or after them (`build_no_jit`).
`build_no_jit` and the passes are then folds over that sequence. A type that two
types of the tree register is met twice, as in the code. `Described` is the type
of `builders`: what the API makes, with names that agree and without cycles.

### Instances and DataStructures

`Instances` is about generated code, whoever generated it. `code` maps a builder
to what its module knows of each type: the columns of its table, the types its
functions create, and its list attributes with the type of their elements.
`Deploy` lets the code change until threads begin to create instances of it, and
asks only that it is `WellFormed` then: what it names is in it, as LLVM and the
checks of `build` see to. `DataStructures` runs `Builders` in the place of
`Deploy`; that what `BuildNoJit` makes is `WellFormed` is `InstancesSpec`, which
TLC checks and which is proved for all builders.

`<type>_constructor` looks up the table of the type, creates it through
`createTablesInternal` if there is none, inserts the main record, then does the
same for each list attribute. A function of an instance may create records of
other types (`Create`). The lookup before `<type>_init_storage` is outside the
mutex and is a step of its own, so two constructors can both find no table.
Tables are found by name only. `LayoutAgreement` says what that comes to: a record has
the columns of its table unless the code of another builder knows a type of
that name with other attributes. Lists of primitive values are left out: their
constructor asserts (`llvm-codegen.cpp:795`). The transaction around a constructor is left
out: it takes no lock, and inserts into tables that others use under the locks
of their own records.

### Expressions

A constructor (`Construct`) takes expressions that exist already, as pointers; here
they have numbers. Result types, visits and meanings are recursive over the
operands; each is calculated when an expression is constructed and kept, as neither
expressions nor the visitor change later. `Visit` gives what the visitor returns,
a value, an address or nothing where LLVM or a check refuses; `Meaning` is the
reference. `CompilesRight` compares the two, for the code that loads the result
and for the conditions of IFs and loops and the iterations of FOR, which are not
loaded. The numbers of patterns of i64, i32 and i1 are a parameter (`Half`); i1
has two.
`Supported` is the rule the source does not state: operands of one LLVM type, no
equality of floating-point numbers, `IsNull` of 64-bit variables in memory only,
`IsEven`, conditions and iterations of anything but a variable in memory.
Arithmetic on truth values and their order are outside (`OnTruths`): the
comparison of two i1 is signed, so that true is less than false.

### AtomicCtrRwLock

A call is a load, where the code has one, and exchanges until one succeeds; a
weak exchange may fail for no reason. The class has no user in the repository
yet (records use `tbb::rw_mutex`), so its clients are any threads that unlock
what they hold.

### Lists

`ListHeap` has one operator per generated function. A function holds the list
record exclusively from its first read (`injectCC` makes its one lock
exclusive), so that it is atomic for others; every lock that may fail precedes
the first change, so that an aborted attempt of a list function is one that has
not run. `LinkedLists` calls them in any order.

`LruList` and `LruList2` split `insert` where other threads can get in: the
index lookup without a lock, the lock on the list and its upgrade, the pop, the
index removal, the push, the index insertion, the commit. Their main record is
only ever locked shared. A node that nothing refers to may be used again.
`Workloads` says which thread inserts which keys, so that one run asks about
threads with keys of their own, about a thread alone and about shared keys.

At this commit a client cannot construct `LruList`. Its attribute `list` is a
runtime constant (`lru-list.cpp:65`), its `init` updates `list` without being a
singleton (`lru-list.cpp:82-91`), and the `CHECK` for such an update
(`statement-builder.cpp:150-151`) ends the process. The model starts behind
`init`, with the empty list it was to make, and is of `insert` as written
(`lru-list.cpp:174-245`). `LruList2`, the class the benchmark uses, calls
`setIsSingleton(true)` in its `init` and can be constructed; its `insert` has the
same unlocked lookup, index insertion that may fail after the push, and commit.

In `LruList`, threads that share a key break the correspondence of index and
list (`lru_same_key`), hence `IndexAgreement` and `LruSpec` are about the
workloads without sharing; `BoundedOvershoot` and `ListIntact` hold for all.

`LruList2` starts from the list `init` makes, dummy by dummy (`Initialised`). The
node that the index returned may be evicted before `touch` locks the list
(`lru-list.cpp:347`), and `touch` then follows the pointers of a node outside the
list. `Fitting` is the condition under which this cannot happen: threads have
keys of their own, and either one thread does all the inserts or the list has
room for all keys of all threads. The properties of `lru2` are about fitting
workloads; two of its four workloads fit, and `TypeOK` holds for the
other two as well, which share a key and evict each other's keys.

### CCInjector

A client writes a function: reads, updates, creations, index reads, calls,
returns, branches and loops. The text is flat, a sequence in which each
statement knows the branches it stands in. The pass (`InjectFunction`) is a
function over that sequence whose state is `placed` (`lock_placed`: where the
lock for a name stands), `traits` (`traits_in_scope`) and what it produces: the
lock in front of each statement, and for each call whether its record was
nascent. The recursion of `injectCC_statementBlock` into a block is `InScope`: a
block starts with the locks of the blocks around it, and its own end with it.
Each call gets a clone of its callee, injected for what is known of the record;
`Clones` are these, and `Library` are the functions, of other types, that can be
called, which call each other.

One run of the result follows. `frames` are the functions that run, each with
the values of its variables and the branches it has taken; `held` is how the
transaction holds each record. Attributes, indexes, arguments and return values
may be any record, branches go both ways, and loops run any number of times, so
that a run of the program is among these. A call on no record ends the run.

`Reassign` says whether a client may assign the variable of a CREATE by another
statement; with it, `Guarded` does not hold (`inject_reassign`). Left out: the
exemption of singleton functions from the rule on runtime constants, and
insertions into indexes, which make a record known to others that the pass
still takes for nascent.

### CodegenFunction

Clients write blocks of statements (`StatementBlocks`). The text is flat: a
sequence of statements and of the ends of their blocks, in which each item knows
the block it stands in or ends. The generator is a function over that sequence
(`Generator`): its state carries the basic blocks and the insertion point, as
`IRBuilder` does, and of each statement begun the blocks its end will branch to,
which are local variables of `buildStatement_*` and of `if_then`; `Build` is a
call of `buildStatement` up to the first block of the statement, or from the end
of one. `Verified` is what LLVM's verifier asks of the blocks; execution follows
branches both ways, as conditions depend on data. `Observed` is the next
point of the text the execution comes to, behind branches and stores to the
return value (`Silently`), of which at most `2 * Len(statements) + 7` follow each
other; `StatementTree` says what that point should be.

The rules for functions that can be built, which the source nowhere states, are
`Ends` and `Fits`: a function ends with a return, a branch or a loop; a nested block
does not end with a loop, nor with an IF whose else block goes on; nothing
follows a return, or an IF whose else block returns; and the body of a loop goes
on. `VerifiedExactly` shows that the verifier accepts these and no others.
All list functions of the repository are of this kind; `IndexedMap::insert`,
which is unfinished, is not. What happens to a refused function is not
modelled: the generator prints the verdict and goes on.

## Runs

| Run | What it asks | Instance |
| --- | --- | --- |
| `txn_insert` | insertions, aborted and retried: undo, references | 2 threads, 2 roots, 1 more address, 1 attribute, logs of 2 |
| `txn_two` | locks, stability of reads, atomicity, progress | 2 threads, 2 records, 2 values, logs of 2, fair |
| `registry` | builders, passes, code, then instances made at once, caches, clear | 3 builders (a list, an LRU cache over it or a second list of the same name, nodes), 1 edit before the passes, 2 threads, 3 constructor calls, 4 tables |
| `rwlock` | exclusion, counter, blocking, progress | 3 threads, fair |
| `list` | pointers and sequences of three list classes | 5 nodes |
| `lru` | pushes, evictions, overshoot, retries | 2 threads, capacity 2, 4 keys, 4 nodes, 3 workloads |
| `lru2` | evictions of dummies and keys, touch | 2 threads, 3 dummies, 4 keys, 4 workloads, of which 2 fit |
| `inject` | every small function and path | 3 statements, 2 variables, 2 attributes, 2 types, 4 functions to call, 2 records that others know and 1 new one |
| `codegen` | every small function; every small expression | 5 statements of all types; or 4 expressions, of which the first 2 may be leaves, of 21; 3, 2 and 1 bits |
| `lru_same_key` | finding: a key twice in the list | shared keys |
| `inject_reassign` | finding: an access without a lock | the same, and the variable of a CREATE may be assigned twice |
| `codegen_nested` | finding: statements skipped | 5 statements, IF, return and `PLAIN` |

Why the bounds are enough. Two attempts suffice for each conflict of the
runtime: a lock has one try and a failure has no memory. Two records give lock
orders and upgrades that cross, the third address an insertion that is freed
and used again by another attempt; a log of two has an insertion with a write
to it, or two writes to one cell in the order that matters. Two attributes
change nothing, as locks are per record; the proofs need no such bound. Five
nodes give `touch` a head, a tail, two neighbours and one that is none of
these. Capacity two and four keys evict twice; with two threads the overshoot
reaches its bound. Three threads give the reader-writer lock two upgraders and
a bystander. Three statements are enough to use a name, change what is known of
it and use it again; five are enough for an IF in an IF with something behind
each. Three builders have a type that two others share and a tree two types
deep; one edit before
the passes puts each kind of use, attribute, function or registration where the
skeletons have none, and every skeleton has uses that count and uses that do
not. Instances are made of the skeletons without edits: two threads and three
calls have two constructors of one type race and a third one after a clear. Two operators
have every combination of loaded and unloaded operands, also when one operator is
an operand of the other; the leaves are those where integers wrap around. Symmetry is used for threads, addresses and keys that an instance treats
alike, in runs without liveness properties.

Deadlock is checked in every run of a running system (`txn_*`, `rwlock`, `list`,
`lru`, `lru2`); `inject` and `codegen` execute one function once, or construct
expressions up to the bound, and then stop, and `registry` stops when a check of
the builders ends the process or the calls are used up.

Fairness. `txn_two`: a thread in a call keeps running (weak fairness of its
steps), since every call is a bounded piece of code; callers need not call.
`AttemptEnds` needs no more; that a call returns cannot be promised, since two
attempts may abort each other for ever, and `LoneCallReturns` promises it once
the others are idle. `rwlock`: a thread in a call keeps running, and an exchange
that can succeed again and again does (strong fairness: weak exchanges fail
spuriously but not for ever). Nobody has to release a lock.

## What is proved

### TxnRuntime

For every number of threads, records and attributes and every content of the
cells, from `ConstantsAssumption` alone (finitely many threads, at least one
attribute, the null reference is data, and what is absent is no content):

| Theorem | States |
| --- | --- |
| `TypeCorrect` | `TypeOK` |
| `LocksAgree` | `LockAgreement`: mutexes and lock sets agree, a writer is alone |
| `RollbackIsSafe` | `UndoRestores`: the log and the memory give the committed cells back |
| `NoDanglingReference` | `ReferencesLive`: references in temporaries lead to records |
| `ReadsAreStable` | `ReadsStable`: what is read under a lock still held is committed |
| `CommittedIsClosed` | `CommittedClosed`: committed references lead to committed records |
| `Refinement` | `StoreSpec`: the runtime implements `AtomicStore` |

The argument. None of these is inductive alone. `IInv` joins `TypeOK`,
`LockAgreement` and `UndoRestores` with what they rest on:

* `PhaseInv`: which locks, log entries and references a thread may have at each
  `pc`;
* `LogInv`: a record in the log of an attempt is locked exclusively by it or
  inserted by it; an inserted record is in no other log, is not committed, and
  its insertion is the oldest entry about it;
* `ReferenceInv`: locks are held on committed records only, and a reference
  leads to a committed record or to an insertion of the same attempt;
* `MemoryInv`: what an attempt has written is there, and while it runs refers
  only to committed records and its own;
* `ReadInv`, `ClosedInv`: `ReadsStable` with the locks that keep it,
  `CommittedClosed` with the roots.

Two attempts cannot have a cell in their logs at once (`Owner`), from which the
undo of one leaves the saved values of the other alone. Each conjunct is
preserved by a lemma of its own, one step per action (`LockStep`, `UndoStep`,
`ReferenceStep`, ...), over lemmas on pushing and popping a log. The refinement
maps each action to a stutter or to the one step of `AtomicStore` it stands
for (`ReadObserves`, `WritePuts`, `InsertCreates`, `EndCommitsOrAborts`).

### TableRegistry

For every number of threads, names, column layouts and tables, from
`RegistryAssumption` (what is absent is no value, and fewer tables are created
than there are ids):

| Theorem | States |
| --- | --- |
| `RegistryTypes` | `TypeOK`, and who holds the mutex |
| `NamesAreUnique` | `OneTablePerName` |
| `ReturnsItsTable` | `ReturnedTableRight` |
| `CachesSurviveClear` | `CachesRight` |

`OneTablePerName` is not inductive: a thread between its test and its creation
could make a second table. `IInv` adds `TestHolds` (what a thread found out
before stays so while it has the mutex), `IdsInOrder` (the id of a table is the
number created before it, so that none is used twice, across clears), and
`MapsAgree` (both maps of the registry list the live tables). `CachesInOrder` is
the stronger form of `CachesRight`: an entry of a cache for an id is the one
table ever created with it.

### Instances

For every number of threads, types, column layouts and tables, every order of
attributes and any number of builders with any code that is `WellFormed`, from
`RegistryAssumption` and `InstancesAssumption`:

| Theorem | States |
| --- | --- |
| `InstancesUseRegistry` | `RegistrySpec`: constructors use the registry as `TableRegistry` has it |
| `InstancesTables` | the three properties of the registry, for the composition |
| `InstancesTypes` | `InsTypeOK`: what a constructor found in the registry stays so while it runs |
| `LayoutsAgree` | `LayoutAgreement` |

`IInv` of the registry holds because of the first theorem's step (`UsesRegistry`); `JInv`
adds what is known of a constructor in each phase (`TypeInv`, `FoundInv`), of each
record (`RecordInv`), and that every live table has the columns of a type of its
name in some code (`FromCode`), which is what makes `LayoutAgreement` inductive.
A step of one thread leaves what another has found alone since no step but
`Clear` takes a table away (`KeepsTables`), and `Clear` waits for all
constructors. The chain for a data structure is then: `DataStructures` implements
`Instances`, `Instances` uses the registry as `TableRegistry` has it, and the
registry keeps its promises; `DataStructuresRight` puts the three together.

### Builders and DataStructures

For any finite set of builders, any names, functions and attributes in any
order, any skeletons, statements and attributes that clients may add, and any
number of edits, from `DataStructuresAssumption` and `LayoutsAssumption` besides
those of the registry and the instances:

| Theorem | States |
| --- | --- |
| `GeneratedCode` | `DSInv`: builders stay well described, and code names only what is in it |
| `BuildersImplementInstances` | `InstancesSpec` |
| `PassesKeepReached` | `KeepsReached` |
| `PassesStayBuildable` | `StaysBuildable` |
| `DataStructuresRight` | the properties of instances and registry, for the whole |

`DataStructuresAssumption` says that the orders list the names, that what clients
start from and may add has types (`Described`, `Uses`), and that no client
function has one of the two names that stand for what the generator makes
itself. In the code the function `f` of type `t` is `t_f_inner`, so that only a
client function called `constructor` would meet a generated name; there is none.
`LayoutsAssumption` says that `Layouts`
has the columns of any choice of the attributes. TLC evaluates both on the
instance of `registry`.

The argument.

* The graph. `RegisterKeeps`: registering a type that is not above keeps the types
  without cycles. Then a tree is its root and the trees below (`TreeIs`), its
  depth is less than the number of builders, and `Walk` meets all of the tree
  (`WalkIn`) and nothing before something that registers it (`PreOrder`). The trees are
  least sets and the walks recursive functions; the inductions are on the depth,
  by the least depth at which the claim would be false (`SetInduction`), and
  `Iterates` shows that functions defined by recursion exist.
* The pass over the functions. In an orderly tree a type is registered once, so
  that all calls of its functions are in the one type that registers it, and that
  one is cleaned before (`PreOrder`): a step of the pass cleans what it registers
  of what is not reached (`CleanStep`), and the whole pass the whole tree
  (`PassClears`).
* The attributes. Whatever set the dangling iterator removes is unused
  (`CleaningKeeps`); by `Counts` nothing is unused that a function which is left
  needs, and by the assertion in `AttributeStats` all that is used is there
  (`RunAllLeaves`). `TypeStays` then goes through a build: storage, constructor and
  each function are found under their names as before.
* The code (`BuildIsGood`): a type is built after those before it on the walk, and
  every lookup that succeeds finds one of these or the type itself.

### AtomicCtrRwLock

For every finite, nonempty set of threads (`UnreadAssumption`):

| Theorem | States |
| --- | --- |
| `LockTypes` | `TypeOK`: the counter stays between -1 and the number of threads |
| `CounterIsRight` | `CounterAgreement` |
| `OnlyUpgradesDeadlock` | `OnlyUpgradersBlock` |
| `LockImplements` | `LockSpec`: the lock implements `RWLock` |

The invariant adds to the counter's meaning that a writer is alone
(`WriterAlone`) and that a call is one its thread may make, with the
expectation its exchange is to be held to (`CallsFit`). `SwapAlone` is the heart of
it: an exchange that succeeds finds the lock as the counter says, however old
the load was.

### ListHeap and LinkedLists

For every finite set of nodes that does not contain the null reference
(`NullAssumption`):

| Theorem | States |
| --- | --- |
| `ListTypes` | `TypeOK` |
| `BothDirectionsAgree` | `MirrorImage` |
| `ListImplements` | `SequenceSpec`: the lists implement `NodeSequence` |

`MirrorImage` says what a walk along the pointers meets, and no function walks:
the functions change a few pointers. The invariant is therefore about shapes:
`Linked(h, s)`, `Chain` and `Queue` say, position by position, that the
pointers of a heap spell a sequence `s` of distinct nodes. `ListHeapProofs` has a
lemma for each function on that function's effect on the sequence
(`PushFrontLinks`, `PopBackLinks`, `TouchLinks`, `FifoPopChains`, ...), and
`FollowChain` shows that the walk returns the sequence; where these need an
induction along the list, they take the least position at which the claim would
be false. `TouchLinks` is the longest: a node that is the second or the last one
or has neighbours on both sides.

### LruList

For every finite set of threads and of nodes, any keys and workloads and any
capacity but zero (`LruAssumption`, `NullAssumption`):

| Theorem | States |
| --- | --- |
| `LruTypes` | `TypeOK` |
| `ListStaysIntact` | `ListIntact` |
| `OvershootIsBounded` | `BoundedOvershoot` |
| `IndexAgrees` | `IndexAgreement` |
| `InsertIsAtomic` | `LruSpec`: `insert` implements `AtomicLru` |

The argument. `ShapeInv` and `CountInv` hold for all workloads, `IndexInv` and
`CommitInv` where threads have keys of their own:

* `LockInv`: whoever is past its first change of the list has it exclusively;
* `ListInv`: the list has its shape and its count, and a thread that is to pop
  finds a list as full as when it looked, since every insert that takes a node
  away gives one back before it releases the list;
* `CountInv`: the size, and the threads that have decided to push, stay below
  the capacity and the threads that insert at all. The bound on the size alone
  is not inductive: a decision outlasts the look at the size it was based on;
* `IndexInv`: a key that its thread has not found stays away until that thread
  adds it, and index and list agree but for the key in hand;
* `CommitInv`: what the writer has done to the keys since the last commit.

### LruList2

For every set of threads and of nodes, any keys, and any sequence of at least two
distinct dummies (`Lru2Assumption`, `NullAssumption`); the last three for every
workload that fits:

| Theorem | States |
| --- | --- |
| `Lru2Types` | `TypeOK`, for all workloads |
| `Lru2StaysIntact` | `ListIntact` |
| `TouchIsSafe` | `TouchFindsNode` |
| `Lru2InsertIsAtomic` | `LruSpec`: `insert` implements `AtomicLru` |

`TypeInv` holds for all workloads: `touch` of a node that has left the list spoils
the list but leaves its ends nodes. `FitInv` is for those that fit: `ListInv`
(the shape, and one node less between pop and push), `IndexInv` (index and list
agree but for the key in hand) and `CommitInv` (what the writer has done to the
keys since the last commit). The heart is that no key is evicted that another
thread may have found. It is a matter of counting (`Crowded`, `LastIsDummy`): where several
threads insert, the keys in the list are distinct ones of the workload and the
one to be inserted is not among them, so that a list with room for all has a
dummy; dummies are at the end (`DummiesLast`, which pushes and touches keep), so
that it is a dummy that is popped. `InitialisedLinks` is about the list `init` makes.

### CCInjector

For texts of any length, any attributes, variables and types, any library of
functions and any records, from `InjectorAssumption` (attributes and variables
have different names, as `isValidVarAddition` sees to; the library is written
as clients write):

| Theorem | States |
| --- | --- |
| `LocksSuffice` | `Guarded`, if nothing but a CREATE assigns its variable |

The hypothesis is the condition under which the property holds at all:
`inject_reassign` is the run that drops it.

The argument has three parts.

* The text (`TextShape`): a branch belongs to an earlier statement of its kind,
  and the branches around that are branches around whatever stands in it.
* The pass, by induction over the statements. `Knows` says what the traits come
  to: a nascent variable is that of a CREATE; an attribute taken for constant is
  one; and no attribute has a source, so that a lock for it is never left out
  for another reason. `Covers`: every access seen so far to an attribute that is
  not constant has a lock of its mode in front of it, or of an earlier statement
  in a block around it, unless the record of the function is nascent. A lock
  made exclusive in place keeps what it covered.
* The run, for each frame (`FrameInv`): whoever has come to a statement is in the
  branches it stands in (`InPlace`), what is taken for new is new (`NewIsNew`), and
  the locks in front of the statements passed in these branches are held
  (`HoldsLocks`). Locks are only added and never weakened, so that callers and
  callees leave this alone, and what was held is still held when control jumps
  back to the head of a loop.

### CodegenFunction

For functions of any length and depth, from `StatementsAssumption` (the
statement types are those of the code, and the bound is a number):

| Theorem | States |
| --- | --- |
| `GenTypeCorrect` | `GenTypeOK` |
| `GenVerifiedExactly` | `VerifiedExactly` |
| `GenRunsAsWritten` | `RunsAsWritten`: verified code implements `StatementTree` |

`RunsAsWritten` leaves out the functions of `codegen_nested` (`Escapes`), of which it
does not hold. `GenTypeOK` holds of the control only because verified code cannot leave its
blocks: no block ends without a terminator, and branches lead to blocks there
are. The argument:

* The text (`TextOK`): an item stands in the innermost block that is open before
  it. Complete, every block ends, within the block around it (`BlocksEnd`).
* The labels (`Shape`): the blocks a statement has reserved for its else block and
  for what follows it differ from each other and from those of other statements,
  and the insertion point is a block there is; the block that follows a statement
  is the return block exactly if the statement is last.
* Texts that fit (`Tidy`): blocks that wait for code (`Reserved`) are empty, and
  every other block is complete (`Ended`), but for the one in which the code goes
  on, which is as `Ends` says. At the end of the text nothing waits.
* Texts that do not: at the first item that does not fit, the generator puts an
  instruction behind a terminator, or ends the return block, to which the return
  is still to be added (`MisfitSpoils`). Since generators only add (`Grows`), the code
  stays spoilt.
* `GenInv`: the blocks are those generated from the text, which no longer changes,
  and the control is at an instruction of verified code.

Unlike `Verified`, `Shape` is needed for texts that do not fit as well: a branch of
a refused function leads to a block there is, too (`CodeAimed`).

For `GenRunsAsWritten`, the text must fit and nothing escape (`Faithful`). Then:

* The text has stops (`StopsExist`): the recursion of `Stops` ends, and an arrival at
  an item is one at the statement, or at the end of a body, behind it.
* Each block gets a promise and a rank (`Labels`, item by item through `Build`): the
  promise is the position of the text that whoever enters the block has come to,
  or failure. Instructions keep the promises of their block
  (`Kept`): a statement is the one promised and goes on to its stop, both ways of a
  decision lead to blocks that promise what the text says, and a branch leads to a
  block with the same promise and a higher rank. This fails exactly where an IF
  escapes: the return block promises the end of the function.
* Ranks are bounded (`Highest`), so that silent steps come to an end within the length
  of the orbit that defines `Observed` (`Away`).
* `RInv` is `GenInv`, and of faithful code that runs: after a failed check, only
  the way to the return is left. Under it, each action is a step of `StatementTree` or
  changes nothing a client sees.

Without `RInv` the refinement fails: from a failed check in the middle of the
function, the statements behind it would be executed.

### Expressions

For expressions of any number and depth and integers of any widths, from
`ExpressionsAssumption` (a type has an even number of patterns, i1 has two; a leaf
has a value of its type):

| Theorem | States |
| --- | --- |
| `ExprTypeCorrect` | `ExprTypeOK` |
| `ExpressionsCompileAlways` | `ExpressionsCompile` |

The invariant (`ExprInv`) is that of each expression `Right` holds: it has an answer
exactly if it is supported, which is the address of a register of its type if it is
a variable in memory and such a register otherwise; and the number in the register is
the one that is meant, unless truth values are calculated with. `CompilesRight` is not
inductive without the first part, since the operators see what has not been loaded.
There is a lemma for each kind of operator (`ArithmeticRight`, `NullityRight`, ...);
the one for sums rests on `WrapsAlike`, that adding patterns wraps around as adding
the numbers they stand for does, the one for evenness on `SignedIs`.
`ExprTypeOK`, which no run checks by itself, follows from `Right` too.

### Only model-checked

Liveness (`AttemptEnds`, `LoneCallReturns`, `LoneWaiterServed`), which is out of
the prover's reach. The properties of the runs that expect a violation do not hold:
`TreeSpec` says of all functions what `RunsAsWritten` says of those without an IF
that leaves them.

## Findings

* `lru_same_key` (`llvm-codegen-statement.cpp:410`): two inserts of one key both
  miss it in the unlocked index; the second one's index insertion fails after
  its push, and the function leaves without aborting, so that the push commits.
  The run is of `LruList`, which this commit cannot construct (see above); the
  steps that race are in the `insert` of `LruList2` too (`lru-list.cpp:347-380`).
* `inject_reassign` (`cc-injector.cpp:98`): a variable that once held a new
  record is taken for a new record after it has been assigned again.
* `codegen_nested` (`llvm-codegen-statement.cpp:196`): an IF at the end of a
  nested block, whose else block returns, leaves the function from its then
  branch: in `if (a) { if (b) { x } else { return } } y`, `y` is skipped.

## Not modelled

* `NamespaceRegistry`: each of its functions is one critical section of one lock.
* Spin lock, latch, guards: a flag and wrappers.
* Instructions within a statement other than those of its expressions, variable
  allocation, LLVM optimisation and JIT, export: data, or code outside the
  repository. The names of functions in the LLVM module are pairs here, strings
  put together there.
* Builders: `clone` and `dropFunctionIfExists`, which no code under `src/` uses with
  the passes; hints and flags; printing. No type is registered below itself (the
  passes and `build` would not end).
* Transactions around constructors, default values, offsets of columns.
* `TEMP_VAR_ASSIGN` statements, which no method of the API creates.
* `init` of `LruList`, which the builder refuses at this commit.
* `IndexedMap`: its `insert` ends in `assert(false)`.
* The parser-generated doubly linked list: a copy of the pushes and pops of
  `DoublyLinkedList`.
* Benchmark drivers, YCSB, TPC-C, baselines, utilities: clients or tools.

## State of the work

Done, in this order: `TxnRuntime` with `AtomicStore` and its proofs; the lists
and the LRU lists over them; `AtomicCtrRwLock`; `TableRegistry`; `CCInjector`;
`CodegenFunction`; `Builders`; `DataStructures`; `Expressions`; the proofs about
`TableRegistry`, `AtomicCtrRwLock`, the lists and `LruList`; `Instances`, split
from `DataStructures`, and the proofs about it; the proofs about `LruList2`;
`CCInjector` over flat texts and with callees of any depth, and the proofs about
it; `Builders` without recursive operators, and the proofs about it and
`DataStructures`; `CodegenFunction` over flat texts, and the proofs about it, the
refinement of `StatementTree` last; `Expressions` without recursive operators, and
the proofs about it.

Open, modules: `CCInjector` with insertions into an index; `TxnRuntime` with an
index beside the store, as the LRU lists need it: what can be promised when
index operations are not undone. No theorem is open: every safety and action
property of a passing run has one.

The number of runs is kept small: a question that an existing instance can
answer becomes a property or a workload of that run, not a run of its own.
