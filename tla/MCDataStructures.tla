--------------------------- MODULE MCDataStructures ----------------------------
(* An instance of DataStructures: lists of nodes, and an LRU cache over such a list whose index *)
(* holds the nodes two types down, or a second type named list that shares the type of the      *)
(* nodes.                                                                                       *)
EXTENDS DataStructures, TLC

Attribute(category, type, of, key) ==
  [category |-> category, type |-> type, of |-> of, key |-> key]

Int          == Attribute("PRIMITIVE", "INT64", NoObject, "")
Pointer      == Attribute("COMPOSITE_POINTER", "RECORD_PTR", NoObject, "")
Array(o)     == Attribute("ARRAY_LIST", "RECORD_PTR", o, "")
Indexed(o, k) == Attribute("ARRAY_LIST", "RECORD_PTR", o, k)

Do(op, on)   == [op |-> op, on |-> on, fn |-> "", in_loop |-> FALSE]
CallTo(o, f) == [op |-> "METHOD_CALL", on |-> o, fn |-> f, in_loop |-> FALSE]
InLoop(u)    == [u EXCEPT !.in_loop = TRUE]

Type(n, attributes, functions, subtypes) ==
  [name |-> n, attributes |-> attributes, functions |-> functions, registered_subtypes |-> subtypes]

Node ==
  Type("node", ("next" :> Pointer) @@ ("x" :> Int),
       ("get_x" :> {Do("READ", "x")}) @@ ("set_next" :> {Do("UPDATE", "next")}), <<>>)

List ==
  Type("list", "head" :> Pointer,
       ("push" :> {Do("CREATE", "node"), Do("READ", "head"), Do("UPDATE", "head"),
                   CallTo("N", "set_next")}) @@
       ("find" :> {Do("READ", "head"), CallTo("N", "get_x")}),
       "node" :> "N")

Lru ==
  Type("lru", "m" :> Indexed("N", "x"),
       "touch" :> {Do("READ_INDEXED", "m"), Do("CREATE", "list"), CallTo("A", "push")},
       "list" :> "A")

OtherList ==
  Type("list", ("arr" :> Array("N")) @@ ("head" :> Pointer),
       "find" :> {Do("READ", "head"), Do("READ", "arr"), Do("READ_INDEXED", "arr"),
                  InLoop(CallTo("N", "get_x"))},
       "node" :> "N")

MCObjects    == {"A", "B", "N"}
MCSkeletons  == {("A" :> List) @@ ("N" :> Node) @@ ("B" :> b) : b \in {Lru, OtherList}}
MCNameOrder  == <<"list", "lru", "node">>
MCFnOrder    == <<"find", "get_x", "get_y", "push", "set_next", "set_x", "set_y", "touch">>
MCAttrOrder  == <<"arr", "head", "m", "next", "x", "y">>

MCEdits ==
  {<<"y", Int>>, <<"m", Indexed("N", "x")>>, <<"arr", Array("N")>>, <<"head", Pointer>>}

MCStatements ==
  {Do("READ", "x"), Do("READ", "m"), Do("UPDATE", "y"), Do("UPDATE", "head"),
   Do("READ_INDEXED", "m"), Do("INSERT_INDEXED", "m"), InLoop(Do("READ", "x")),
   Do("CREATE", "node"), CallTo("N", "get_x"), InLoop(CallTo("N", "get_x")),
   CallTo("N", "set_next"), CallTo("A", "find"), CallTo("A", "push")}

\* The columns a type can have.
MCLayouts ==
  {[a \in S |-> IF a \in {"x", "y"} THEN "INT64" ELSE "RECORD_PTR"] :
     S \in SUBSET {"arr", "head", "m", "next", "x", "y"}}

Symmetry == Permutations(Threads)
==============================================================================
