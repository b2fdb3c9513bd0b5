---------------------------- MODULE DataStructures -----------------------------
(***************************************************************************)
(* From the description of a data structure to its instances.  Clients     *)
(* describe types, run the passes and build (Builders); then threads       *)
(* create instances of what was built (Instances).                         *)
(***************************************************************************)
EXTENDS Instances

CONSTANTS Tops, NameOrder, FnOrder, Skeletons, Statements, Edits, MaxEdits,
          MaxRunEdits  \* bound: the edits before instances are created

VARIABLES aborted, edits

B == INSTANCE Builders

\* The orders are those of all names; what there is at the start and what may be added has types, and
\* no function is called as those that LLVMCodegen makes itself.
ASSUME DataStructuresAssumption ==
  /\ IsFiniteSet(Objects) /\ Tops \subseteq Objects
  /\ NameOrder \in Seq(Names) /\ Names = B!TypeNames
  /\ {"_init_storage", "_constructor_inner"} \cap B!FnNames = {}
  /\ \A bs \in Skeletons : B!Described(bs)
  /\ Statements \subseteq B!Uses
  /\ \A e \in B!Attributes :
       /\ e = <<e[1], e[2]>> /\ e[1] \in AttrNames
       /\ e[2].category = "ARRAY_LIST" => e[2].of \in Objects
       /\ e[2].category = "PRIMITIVE" => {"get_" \o e[1], "set_" \o e[1]} \subseteq B!FnNames

\* A type may have any of the attributes.
ASSUME LayoutsAssumption ==
  \A S \in SUBSET AttrNames : \A f \in [S -> {e[2].type : e \in B!Attributes}] :
    (\A a \in S : \E e \in B!Attributes : e[1] = a /\ e[2].type = f[a]) => f \in Layouts

dsvars == <<insvars, aborted, edits>>

DSInit == InsInit /\ B!Init

Describe ==
  /\ ~running /\ B!Next
  /\ UNCHANGED <<vars, creating>>

\* Bound: no call to a builder but createInstance follows, which reads its name and code only; the
\* rest is forgotten.
Run ==
  /\ ~running /\ ~aborted /\ edits <= MaxRunEdits /\ \E b \in Objects : Built(b)
  /\ running' = TRUE
  /\ builders' = [b \in Objects |-> [builders[b] EXCEPT !.attributes = <<>>, !.functions = <<>>,
                                                         !.registered_subtypes = <<>>]]
  /\ UNCHANGED <<vars, code, aborted, edits, init, made, calls>>

DSNext ==
  \/ Describe \/ Run
  \/ Instantiate /\ UNCHANGED <<aborted, edits>>

DSSpec == DSInit /\ [][DSNext]_dsvars
------------------------------------------------------------------------------
\* Builders hand over generated code in which whatever is named is there: what follows is the
\* creation of instances as Instances has it, however the types were described and cleaned.
InstancesSpec == InsSpec

KeepsReached   == B!KeepsReached
StaysBuildable == B!StaysBuildable
==============================================================================
