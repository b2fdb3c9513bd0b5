---------------------------- MODULE FunctionProofs ----------------------------
(***************************************************************************)
(* The functions of a data structure: the locks that are placed into their *)
(* statements, the code that is generated from these, and from the         *)
(* expressions in them.                                                    *)
(*                                                                         *)
(* Guarded, for functions of any length, any library and any records,      *)
(* where nothing else assigns the variable of a CREATE.  First the text: a *)
(* branch belongs to an earlier statement.  Then the pass, statement by    *)
(* statement: what it knows of names (Knows), and that the locks it has    *)
(* placed cover the accesses it has seen (Covers).  Then the run: each     *)
(* function holds the locks of the statements it has passed (FrameInv).    *)
(*                                                                         *)
(* VerifiedExactly, for functions of any length: the labels of the blocks  *)
(* are apart (Shape); the blocks that wait for code are empty and the      *)
(* others complete as long as the text fits (Tidy); a statement that does  *)
(* not fit leaves a terminator inside a block (Spoilt), for good, since    *)
(* the generator only adds (Grows).                                        *)
(*                                                                         *)
(* RunsAsWritten, for functions of any length: each block is for a place   *)
(* in the text (Labels); what it holds leads on from there as the text     *)
(* says (Kept), item by item; branches that follow each other end, since   *)
(* they lead to blocks of higher and higher ranks (Away).                  *)
(*                                                                         *)
(* ExpressionsCompile, for expressions of any depth: each visit is right   *)
(* if its operands are (Right, NodeRight), whatever the widths of integers *)
(* (WrapsAlike).                                                           *)
(***************************************************************************)
EXTENDS CCInjector, CodegenFunction, Expressions, FiniteSetTheorems, SequenceTheorems, WellFoundedInduction, TLAPS

\* A nonempty set of naturals has a least element.
LEMMA LeastNat == ASSUME NEW T, T \subseteq Nat, T # {} PROVE \E x \in T : \A y \in T : x <= y
<1> DEFINE R == OpToRel(<, Nat)
<1>1. \A x, y \in Nat : <<x, y>> \in R <=> x < y
  BY DEF OpToRel
<1>2. IsWellFoundedOn(R, Nat)
  BY NatLessThanWellFounded
<1> HIDE DEF R
<1>3. PICK x \in T : \A y \in T : ~(<<y, x>> \in R)
  BY <1>2, WFMin
<1>4. \A y \in T : ~(y < x)
  BY <1>1, <1>3
<1> QED BY <1>4

\* Induction over the natural numbers, as a fact about sets.
LEMMA SetInduction ==
  ASSUME NEW S, 0 \in S, \A n \in Nat : n \in S => n + 1 \in S
  PROVE Nat \subseteq S
<1> SUFFICES ASSUME Nat \ S # {} PROVE FALSE
  OBVIOUS
<1>1. PICK x \in Nat \ S : \A y \in Nat \ S : x <= y
  BY LeastNat
<1>2. x # 0 /\ x - 1 \in Nat /\ x - 1 \in S
  BY <1>1
<1> QED BY <1>1, <1>2
------------------------------------------------------------------------------
\* What statements are made of.
LEMMA StatementParts ==
  ASSUME NEW st \in Statements
  PROVE /\ st.op = "READ" => st.attr \in Attributes /\ st.to \in Variables
        /\ st.op = "READ_INDEXED" => st.to \in Variables
        /\ st.op = "UPDATE" => st.attr \in Attributes \ Constants
        /\ st.op = "CREATE" => st.to \in Variables /\ st.type \in Types
        /\ st.op = "CALL" => /\ st.on \in Variables /\ st.fn \in DOMAIN Library
                             /\ st.type = Library[st.fn].type /\ st.type \in Types
                             /\ st.to \in Variables \cup {None}
<1> USE InjectorAssumption DEF Plain
<1>1. CASE \E a \in Attributes, v \in Variables : st = READ(a, v)
  BY <1>1 DEF READ
<1>2. CASE \E v \in Variables : st = READ_INDEXED(v)
  BY <1>2 DEF READ_INDEXED
<1>3. CASE \E a \in Attributes \ Constants : st = UPDATE(a)
  BY <1>3 DEF UPDATE
<1>4. CASE \E v \in Variables, f \in DOMAIN Library : st = CREATE(v, Library[f].type)
  BY <1>4 DEF CREATE
<1>5. CASE \E v \in Variables, f \in DOMAIN Library, w \in Variables \cup {None} : st = CALL(v, f, w)
  BY <1>5 DEF CALL
<1>6. CASE st \in {IF_, LOOP, YIELD}
  BY <1>6 DEF IF_, LOOP, YIELD
<1> QED BY <1>1, <1>2, <1>3, <1>4, <1>5, <1>6 DEF Statements

Entries == [st : Statements, in : SUBSET (Nat \X Blocks)]

LEMMA TextTypes ==
  ASSUME NEW text \in Texts
  PROVE /\ Len(text) \in Nat /\ DOMAIN text = 1..Len(text)
        /\ \A i \in 1..Len(text) : text[i].st \in Statements /\ text[i].in \subseteq Nat \X Blocks
<1>1. text \in Seq(Entries)
  BY DEF Texts, Entries
<1>2. Len(text) \in Nat /\ DOMAIN text = 1..Len(text) /\ \A i \in 1..Len(text) : text[i] \in Entries
  BY <1>1, LenProperties, ElementOfSeq
<1> QED BY <1>2 DEF Entries

\* A branch belongs to an earlier statement, and with it stand those around that statement.
Placed(text, i) == \A b \in text[i].in : b[1] \in 1..(i - 1) /\ text[b[1]].in \subseteq text[i].in

LEMMA TextShape == ASSUME NEW text \in Texts, Writable(text) PROVE \A i \in 1..Len(text) : Placed(text, i)
<1> DEFINE N == Len(text)
           Bad == {i \in 1..N : ~Placed(text, i)}
<1> SUFFICES ASSUME Bad # {} PROVE FALSE
  OBVIOUS
<1>1. /\ N \in Nat /\ DOMAIN text = 1..N
      /\ \A i \in 1..N : text[i].in \subseteq Nat \X Blocks
  BY TextTypes
<1>2. PICK i \in Bad : \A j \in Bad : i <= j
  <2>1. Bad \subseteq Nat
    BY <1>1
  <2> HIDE DEF Bad
  <2> QED BY <2>1, LeastNat
<1> HIDE DEF N
<1>3. i \in 1..N /\ ~Placed(text, i) /\ \A j \in 1..(i - 1) : Placed(text, j)
  BY <1>1, <1>2
<1>4. text[i].in \in Contexts(text, i - 1)
  BY <1>1, <1>3 DEF Writable
<1>5. i - 1 # 0
  BY <1>1, <1>3, <1>4 DEF Contexts, Placed
<1> DEFINE n == i - 1
           d == text[n].in
<1>6. n \in 1..N /\ Placed(text, n) /\ \A j \in 1..n : Placed(text, j)
  BY <1>1, <1>3, <1>5
<1>7. CASE text[i].in = d
  BY <1>6, <1>7, <1>3, <1>1 DEF Placed
<1>8. CASE \E b \in d : text[i].in = text[b[1]].in
  BY <1>6, <1>8, <1>3, <1>1 DEF Placed
<1>9. CASE \E x : text[i].in = d \cup {<<n, x>>}
  <2>1. PICK x : text[i].in = d \cup {<<n, x>>}
    BY <1>9
  <2>2. ASSUME NEW b \in text[i].in PROVE b[1] \in 1..(i - 1) /\ text[b[1]].in \subseteq text[i].in
    <3>1. CASE b \in d
      BY <1>6, <1>3, <1>1, <2>1, <3>1 DEF Placed
    <3>2. CASE b = <<n, x>>
      BY <1>6, <2>1, <3>2
    <3> QED BY <2>1, <3>1, <3>2
  <2> QED BY <1>3, <2>2 DEF Placed
<1>10. CASE \E k \in 1..n : <<k, "then">> \in d /\ text[i].in = text[k].in \cup {<<k, "else">>}
  <2>1. PICK k \in 1..n : <<k, "then">> \in d /\ text[i].in = text[k].in \cup {<<k, "else">>}
    BY <1>10
  <2>2. Placed(text, k)
    BY <1>6
  <2>3. ASSUME NEW b \in text[i].in PROVE b[1] \in 1..(i - 1) /\ text[b[1]].in \subseteq text[i].in
    <3>1. CASE b \in text[k].in
      BY <1>6, <1>3, <1>1, <2>1, <2>2, <3>1 DEF Placed
    <3>2. CASE b = <<k, "else">>
      BY <1>6, <2>1, <3>2
    <3> QED BY <2>1, <3>1, <3>2
  <2> QED BY <1>3, <2>3 DEF Placed
<1>11. \/ text[i].in = d
       \/ \E b \in d : text[i].in = text[b[1]].in
       \/ \E x : text[i].in = d \cup {<<n, x>>}
       \/ \E k \in 1..n : <<k, "then">> \in d /\ text[i].in = text[k].in \cup {<<k, "else">>}
  <2> DEFINE opened == CASE text[n].st.op = "IF"   -> {<<n, "then">>}
                         [] text[n].st.op = "LOOP" -> {<<n, "body">>}
                         [] OTHER                  -> {}
             elses == {<<k, "else">> : k \in {j \in 1..n : <<j, "then">> \in d}}
  <2>1. text[i].in \in IF opened # {} THEN {d \cup opened}
                       ELSE {d} \cup {text[b[1]].in : b \in d} \cup {text[b[1]].in \cup {b} : b \in elses}
    BY <1>4, <1>5 DEF Contexts
  <2>2. opened = {} \/ \E x : opened = {<<n, x>>}
    OBVIOUS
  <2> HIDE DEF opened
  <2>3. CASE opened # {}
    BY <2>1, <2>2, <2>3
  <2>4. ASSUME NEW b \in elses, text[i].in = text[b[1]].in \cup {b}
        PROVE \E k \in 1..n : <<k, "then">> \in d /\ text[i].in = text[k].in \cup {<<k, "else">>}
    <3>1. PICK k \in 1..n : <<k, "then">> \in d /\ b = <<k, "else">>
      OBVIOUS
    <3>2. b[1] = k
      BY <3>1
    <3> QED BY <2>4, <3>1, <3>2
  <2> HIDE DEF elses, d
  <2>5. CASE opened = {}
    BY <2>1, <2>4, <2>5
  <2> QED BY <2>3, <2>5
<1> QED BY <1>7, <1>8, <1>9, <1>10, <1>11
------------------------------------------------------------------------------
Modes  == {"none", "shared", "exclusive"}
Traits == [is_nascent : BOOLEAN, is_const : BOOLEAN, source_var : Infos]
Passes(text) ==
  [placed : [Infos -> 0..Len(text)], locks : [1..Len(text) -> Modes],
   nascent : [1..Len(text) -> BOOLEAN], traits : [Infos -> Traits]]

Created(text, v) == \E j \in 1..Len(text) : text[j].st.op = "CREATE" /\ text[j].st.to = v

\* What the pass knows after i statements: where it has placed locks, that attributes are constant
\* only if they are declared so and read from nothing, and that what is nascent has been created.
Knows(s, text, i) ==
  /\ s \in Passes(text)
  /\ \A x \in Infos : s.placed[x] # 0 => s.placed[x] <= i /\ s.locks[s.placed[x]] # "none"
  /\ s.placed[NoInfo] = 0
  /\ \A j \in (i + 1)..Len(text) : s.locks[j] = "none"
  /\ \A T \in Types, a \in Attributes :
       s.traits[<<T, a>>].source_var = NoInfo /\ (s.traits[<<T, a>>].is_const => a \in Constants)
  /\ \A T \in Types, v \in Variables : s.traits[<<T, v>>].is_nascent => Created(text, v)
  /\ \A j \in 1..Len(text) : s.nascent[j] => text[j].st.op = "CALL" /\ Created(text, text[j].st.on)

\* A lock of one of these modes stands in front of j, or before it in a block around it.
Covered(locks, text, j, modes) ==
  \E q \in 1..j : text[q].in \subseteq text[j].in /\ locks[q] \in modes

\* The accesses of the first i statements to a record that others know have their locks.
Covers(locks, text, i) ==
  \A j \in 1..i :
    /\ text[j].st.op = "READ" => \/ text[j].st.attr \in Constants
                                 \/ Covered(locks, text, j, {"shared", "exclusive"})
    /\ text[j].st.op = "UPDATE" => Covered(locks, text, j, {"exclusive"})

\* No lock becomes weaker.
Stronger(text, locks, others) ==
  \A q \in 1..Len(text) : /\ locks[q] # "none" => others[q] # "none"
                          /\ locks[q] = "exclusive" => others[q] = "exclusive"

\* Locks placed in blocks around the statement at i.
Visible(s, text, i) == \A x \in Infos : s.placed[x] # 0 => text[s.placed[x]].in \subseteq text[i].in

LEMMA InfoParts ==
  /\ NoInfo \in Infos
  /\ \A T \in Types, a \in Names : <<T, a>> \in Infos /\ <<T, a>> # NoInfo
  /\ \A T, U \in Types, a \in Attributes, v \in Variables : <<T, a>> # <<U, v>>
BY InjectorAssumption DEF Infos, NoInfo, Names

LEMMA PlaceLockPlaces ==
  ASSUME NEW text \in Texts, NEW i \in 1..Len(text), NEW s, Knows(s, text, i), Visible(s, text, i),
         s.locks[i] = "none", NEW x \in Infos, x # NoInfo, NEW exclusive \in BOOLEAN
  PROVE  LET t == PlaceLock(s, i, x, exclusive) IN
         /\ Knows(t, text, i) /\ Stronger(text, s.locks, t.locks)
         /\ t.traits = s.traits /\ t.nascent = s.nascent
         /\ (~s.traits[x].is_const /\ s.traits[x].source_var = NoInfo) =>
              \E q \in 1..i : text[q].in \subseteq text[i].in /\ t.locks[q] \in {"shared", "exclusive"}
                              /\ (exclusive => t.locks[q] = "exclusive")
<1> DEFINE t == PlaceLock(s, i, x, exclusive)
           mode == IF exclusive THEN "exclusive" ELSE "shared"
           q == s.placed[x]
<1>1. Len(text) \in Nat /\ s \in Passes(text) /\ i \in Nat /\ i <= Len(text)
  BY TextTypes DEF Knows
<1>2. /\ s = [placed |-> s.placed, locks |-> s.locks, nascent |-> s.nascent, traits |-> s.traits]
      /\ s.placed \in [Infos -> 0..Len(text)] /\ s.locks \in [1..Len(text) -> Modes]
      /\ s.nascent \in [1..Len(text) -> BOOLEAN] /\ s.traits \in [Infos -> Traits]
  BY <1>1 DEF Passes
<1>3. q \in 0..Len(text) /\ (q # 0 => q \in 1..i /\ s.locks[q] # "none" /\ text[q].in \subseteq text[i].in)
  BY <1>1, <1>2 DEF Knows, Visible
<1>4. CASE q # 0 /\ exclusive
  <2> DEFINE L == [s.locks EXCEPT ![q] = "exclusive"]
  <2>1. t = [s EXCEPT !.locks[q] = "exclusive"]
    BY <1>4 DEF PlaceLock
  <2>2. t = [placed |-> s.placed, locks |-> L, nascent |-> s.nascent, traits |-> s.traits]
    BY <1>2, <2>1
  <2>3. L \in [1..Len(text) -> Modes] /\ Stronger(text, s.locks, L) /\ L[q] = "exclusive"
    BY <1>1, <1>2, <1>3, <1>4 DEF Modes, Stronger
  <2>4. \A j \in (i + 1)..Len(text) : L[j] = s.locks[j]
    BY <1>1, <1>2, <1>3, <1>4
  <2>5. \A y \in Infos : s.placed[y] # 0 => s.placed[y] \in 1..Len(text) /\ L[s.placed[y]] # "none"
    BY <1>1, <1>2, <2>3 DEF Knows, Stronger
  <2> HIDE DEF L, t
  <2>6. t \in Passes(text)
    BY <1>2, <2>2, <2>3 DEF Passes
  <2>7. Knows(t, text, i)
    BY <2>2, <2>4, <2>5, <2>6 DEF Knows
  <2>8. t.locks = L /\ t.traits = s.traits /\ t.nascent = s.nascent
    BY <2>2
  <2>9. q \in 1..i /\ text[q].in \subseteq text[i].in /\ t.locks[q] \in {"shared", "exclusive"}
        /\ (exclusive => t.locks[q] = "exclusive")
    BY <1>3, <1>4, <2>3, <2>8
  <2> HIDE DEF q
  <2>10. Stronger(text, s.locks, t.locks)
    BY <2>3, <2>8
  <2> QED BY ONLY <2>7, <2>8, <2>9, <2>10 DEF t
<1>5. ASSUME t = s, q # 0 \/ Needless(s, x), q # 0 => ~exclusive
      PROVE /\ Knows(t, text, i) /\ Stronger(text, s.locks, t.locks)
            /\ t.traits = s.traits /\ t.nascent = s.nascent
            /\ (~s.traits[x].is_const /\ s.traits[x].source_var = NoInfo) =>
                 \E p \in 1..i : text[p].in \subseteq text[i].in /\ t.locks[p] \in {"shared", "exclusive"}
                                 /\ (exclusive => t.locks[p] = "exclusive")
  <2>1. q = 0 => s.traits[x].is_const \/ s.traits[x].source_var # NoInfo
    BY <1>5 DEF Needless, Knows
  <2>2. q # 0 => s.locks[q] \in {"shared", "exclusive"}
    BY <1>1, <1>2, <1>3 DEF Modes
  <2> HIDE DEF t, q
  <2> QED BY <1>3, <1>5, <2>1, <2>2 DEF Stronger
<1>6. CASE q = 0 /\ ~Needless(s, x)
  <2> DEFINE L == [s.locks EXCEPT ![i] = mode]
             P == [s.placed EXCEPT ![x] = i]
  <2>1. t = [s EXCEPT !.locks[i] = mode, !.placed[x] = i]
    BY <1>6 DEF PlaceLock, Lock
  <2>2. t = [placed |-> P, locks |-> L, nascent |-> s.nascent, traits |-> s.traits]
    BY <1>2, <2>1
  <2>3. mode \in {"shared", "exclusive"} /\ (exclusive => mode = "exclusive")
    OBVIOUS
  <2> HIDE DEF mode
  <2>4. L \in [1..Len(text) -> Modes] /\ Stronger(text, s.locks, L) /\ L[i] = mode
    BY <1>1, <1>2, <2>3 DEF Modes, Stronger
  <2>5. \A j \in (i + 1)..Len(text) : L[j] = s.locks[j]
    BY <1>1, <1>2
  <2>6. P \in [Infos -> 0..Len(text)] /\ P[NoInfo] = s.placed[NoInfo]
    BY <1>1, <1>2, InfoParts
  <2>7. \A y \in Infos : P[y] # 0 => P[y] <= i /\ L[P[y]] # "none"
    <3> TAKE y \in Infos
    <3>1. CASE y = x
      BY <1>1, <1>2, <2>3, <2>4, <3>1
    <3>2. CASE y # x
      <4>1. P[y] = s.placed[y] /\ s.placed[y] \in 0..Len(text)
        BY <1>2, <3>2
      <4>2. s.placed[y] # 0 => s.placed[y] <= i /\ s.locks[s.placed[y]] # "none"
        BY DEF Knows
      <4> HIDE DEF L, P
      <4> QED BY <1>1, <2>4, <4>1, <4>2 DEF Stronger
    <3> QED BY <3>1, <3>2
  <2> HIDE DEF L, P, t
  <2>8. t \in Passes(text)
    BY <1>2, <2>2, <2>4, <2>6 DEF Passes
  <2>9. Knows(t, text, i)
    BY <2>2, <2>5, <2>6, <2>7, <2>8 DEF Knows
  <2> QED BY <1>1, <2>2, <2>3, <2>4, <2>9 DEF t
<1>7. CASE q # 0 /\ ~exclusive
  BY <1>5, <1>7 DEF PlaceLock
<1>8. CASE q = 0 /\ Needless(s, x)
  BY <1>5, <1>8 DEF PlaceLock
<1> QED BY <1>4, <1>6, <1>7, <1>8

LEMMA InScopeKnows ==
  ASSUME NEW text \in Texts, NEW i \in 1..Len(text), NEW s, Knows(s, text, i - 1)
  PROVE  LET t == InScope(s, text, i) IN
         /\ Knows(t, text, i) /\ Visible(t, text, i) /\ t.locks = s.locks /\ t.locks[i] = "none"
<1> DEFINE t == InScope(s, text, i)
           P == [x \in Infos |-> IF s.placed[x] # 0 /\ text[s.placed[x]].in \subseteq text[i].in
                                 THEN s.placed[x] ELSE 0]
<1>1. Len(text) \in Nat /\ s \in Passes(text) /\ i \in Nat /\ i <= Len(text) /\ i > 0
  BY TextTypes DEF Knows
<1>2. /\ s = [placed |-> s.placed, locks |-> s.locks, nascent |-> s.nascent, traits |-> s.traits]
      /\ s.placed \in [Infos -> 0..Len(text)] /\ s.locks \in [1..Len(text) -> Modes]
      /\ s.nascent \in [1..Len(text) -> BOOLEAN] /\ s.traits \in [Infos -> Traits]
  BY <1>1 DEF Passes
<1>3. t = [placed |-> P, locks |-> s.locks, nascent |-> s.nascent, traits |-> s.traits]
  <2>1. t = [s EXCEPT !.placed = P]
    BY DEF InScope
  <2> HIDE DEF P, t
  <2> QED BY <1>2, <2>1
<1>4. P \in [Infos -> 0..Len(text)]
  BY <1>1, <1>2
<1>5. \A x \in Infos : P[x] # 0 => P[x] = s.placed[x] /\ text[P[x]].in \subseteq text[i].in
  OBVIOUS
<1>6. P[NoInfo] = 0
  BY InfoParts DEF Knows
<1> HIDE DEF P, t
<1>7. t \in Passes(text)
  BY <1>2, <1>3, <1>4 DEF Passes
<1>8. \A x \in Infos : t.placed[x] # 0 => t.placed[x] <= i /\ t.locks[t.placed[x]] # "none"
  BY <1>1, <1>2, <1>3, <1>4, <1>5 DEF Knows
<1>9. \A j \in i..Len(text) : t.locks[j] = "none"
  BY <1>1, <1>3 DEF Knows
<1>10. Knows(t, text, i)
  BY <1>1, <1>3, <1>6, <1>7, <1>8, <1>9 DEF Knows
<1>11. Visible(t, text, i)
  BY <1>3, <1>5 DEF Visible
<1> QED BY <1>1, <1>3, <1>9, <1>10, <1>11 DEF t

\* A step that only changes traits, and changes them right.
LEMMA TraitsKnow ==
  ASSUME NEW text \in Texts, NEW i \in 1..Len(text), NEW s, Knows(s, text, i), NEW F \in [Infos -> Traits],
         \A T \in Types, a \in Attributes :
           F[<<T, a>>].source_var = NoInfo /\ (F[<<T, a>>].is_const => a \in Constants),
         \A T \in Types, v \in Variables : F[<<T, v>>].is_nascent => Created(text, v),
         NEW t, t = [s EXCEPT !.traits = F]
  PROVE  /\ Knows(t, text, i) /\ t.traits = F /\ t.placed = s.placed /\ t.locks = s.locks
         /\ t.nascent = s.nascent
<1>1. s = [placed |-> s.placed, locks |-> s.locks, nascent |-> s.nascent, traits |-> s.traits]
  BY DEF Knows, Passes
<1>2. t = [placed |-> s.placed, locks |-> s.locks, nascent |-> s.nascent, traits |-> F]
  BY <1>1
<1>3. t \in Passes(text)
  BY <1>2 DEF Knows, Passes
<1> QED BY <1>2, <1>3 DEF Knows

\* What one statement's step has to do.
Step(s, t, text, i, nascent) ==
  /\ Knows(t, text, i) /\ Stronger(text, s.locks, t.locks)
  /\ ~nascent /\ text[i].st.op = "READ" =>
       text[i].st.attr \in Constants \/ Covered(t.locks, text, i, {"shared", "exclusive"})
  /\ ~nascent /\ text[i].st.op = "UPDATE" => Covered(t.locks, text, i, {"exclusive"})

LEMMA StrongerSelf == ASSUME NEW text, NEW locks PROVE Stronger(text, locks, locks)
BY DEF Stronger

LEMMA ReadSteps ==
  ASSUME NEW text \in Texts, NEW i \in 1..Len(text), NEW s, Knows(s, text, i), Visible(s, text, i),
         s.locks[i] = "none", NEW type \in Types, NEW nascent \in BOOLEAN, text[i].st.op = "READ"
  PROVE  Step(s, InjectRead(s, i, text[i].st, type, nascent), text, i, nascent)
<1> DEFINE st == text[i].st
           x == <<type, st.attr>>
           d == <<type, st.to>>
           F == [s.traits EXCEPT ![x].is_const = st.attr \in Constants, ![d].source_var = x]
           t == [s EXCEPT !.traits = F]
<1>1. st.attr \in Attributes /\ st.to \in Variables
  BY StatementParts, TextTypes
<1>2. x \in Infos /\ d \in Infos /\ x # d /\ x # NoInfo
  BY <1>1, InfoParts DEF Names
<1>3. s.traits \in [Infos -> Traits]
  BY DEF Knows, Passes
<1>4. /\ F \in [Infos -> Traits] /\ \A y \in Infos : y # x /\ y # d => F[y] = s.traits[y]
      /\ F[x].is_const = (st.attr \in Constants) /\ F[x].source_var = s.traits[x].source_var
      /\ F[x].is_nascent = s.traits[x].is_nascent /\ F[d].is_nascent = s.traits[d].is_nascent
  <2> DEFINE c == st.attr \in Constants
             X == [s.traits[x] EXCEPT !.is_const = c]
             Y == [s.traits[d] EXCEPT !.source_var = x]
  <2>1. c \in BOOLEAN
    OBVIOUS
  <2> HIDE DEF x, d, c
  <2>2. /\ X \in Traits /\ X.is_const = c /\ X.source_var = s.traits[x].source_var
        /\ X.is_nascent = s.traits[x].is_nascent
    BY <1>2, <1>3, <2>1 DEF Traits
  <2>3. Y \in Traits /\ Y.is_nascent = s.traits[d].is_nascent
    BY <1>2, <1>3 DEF Traits
  <2>4. F = [[s.traits EXCEPT ![x] = X] EXCEPT ![d] = Y]
    BY <1>2, <1>3 DEF c
  <2> HIDE DEF X, Y, F
  <2>5. F \in [Infos -> Traits] /\ F[x] = X /\ F[d] = Y /\ \A y \in Infos : y # x /\ y # d => F[y] = s.traits[y]
    BY <1>2, <1>3, <2>2, <2>3, <2>4
  <2> QED BY <2>2, <2>3, <2>5 DEF c
<1> HIDE DEF F
<1>6. ASSUME NEW T \in Types, NEW a \in Attributes
      PROVE F[<<T, a>>].source_var = NoInfo /\ (F[<<T, a>>].is_const => a \in Constants)
  <2>1. <<T, a>> \in Infos /\ <<T, a>> # d
    BY <1>1, InfoParts DEF Names
  <2>2. s.traits[<<T, a>>].source_var = NoInfo /\ (s.traits[<<T, a>>].is_const => a \in Constants)
    BY DEF Knows
  <2>3. CASE <<T, a>> = x
    BY <1>4, <2>2, <2>3
  <2>4. CASE <<T, a>> # x
    BY <1>4, <2>1, <2>2, <2>4
  <2> QED BY <2>3, <2>4
<1>7. ASSUME NEW T \in Types, NEW v \in Variables, F[<<T, v>>].is_nascent PROVE Created(text, v)
  <2>1. <<T, v>> \in Infos /\ <<T, v>> # x
    BY <1>1, InfoParts DEF Names
  <2>2. F[<<T, v>>].is_nascent = s.traits[<<T, v>>].is_nascent
    BY <1>4, <2>1
  <2> QED BY <1>7, <2>2 DEF Knows
<1>8. Knows(t, text, i) /\ t.traits = F /\ t.placed = s.placed /\ t.locks = s.locks /\ t.nascent = s.nascent
  BY <1>4, <1>6, <1>7, TraitsKnow
<1>9. InjectRead(s, i, st, type, nascent) = IF nascent THEN t ELSE PlaceLock(t, i, x, FALSE)
  BY DEF InjectRead, F
<1>10. Visible(t, text, i)
  BY <1>8 DEF Visible
<1> HIDE DEF t, x
<1>11. CASE nascent
  BY <1>8, <1>9, <1>11, StrongerSelf DEF Step
<1>12. CASE ~nascent
  <2> DEFINE u == PlaceLock(t, i, x, FALSE)
  <2>1. /\ Knows(u, text, i) /\ Stronger(text, t.locks, u.locks)
        /\ (~t.traits[x].is_const /\ t.traits[x].source_var = NoInfo) =>
              \E q \in 1..i : text[q].in \subseteq text[i].in /\ u.locks[q] \in {"shared", "exclusive"}
    <3>1. FALSE \in BOOLEAN /\ t.locks[i] = "none"
      BY <1>8
    <3> QED BY <1>2, <1>8, <1>10, <3>1, PlaceLockPlaces
  <2>2. t.traits[x].source_var = NoInfo
    BY <1>1, <1>6, <1>8 DEF x
  <2>3. st.attr \in Constants \/ Covered(u.locks, text, i, {"shared", "exclusive"})
    BY <1>4, <1>8, <2>1, <2>2 DEF Covered
  <2> HIDE DEF u
  <2>4. Step(s, u, text, i, nascent)
    BY <1>8, <1>12, <2>1, <2>3 DEF Step
  <2> QED BY <1>9, <1>12, <2>4 DEF u
<1> QED BY <1>11, <1>12

\* One trait of one name changes.
LEMMA OneTrait ==
  ASSUME NEW F \in [Infos -> Traits], NEW x \in Infos, NEW tr \in Traits
  PROVE  /\ [F EXCEPT ![x] = tr] \in [Infos -> Traits] /\ [F EXCEPT ![x] = tr][x] = tr
         /\ \A y \in Infos : y # x => [F EXCEPT ![x] = tr][y] = F[y]
OBVIOUS

\* What is known of an attribute stays when only the trait of a variable changes, or its nascence.
LEMMA NascenceKnow ==
  ASSUME NEW text \in Texts, NEW i \in 1..Len(text), NEW s, Knows(s, text, i), NEW x \in Infos,
         NEW tr \in Traits, NEW t, t = [s EXCEPT !.traits = [@ EXCEPT ![x] = tr]],
         \/ \E T \in Types, v \in Variables : x = <<T, v>> /\ (tr.is_nascent => Created(text, v))
         \/ /\ ~tr.is_nascent /\ tr.is_const = s.traits[x].is_const
            /\ tr.source_var = s.traits[x].source_var
  PROVE  Knows(t, text, i) /\ t.placed = s.placed /\ t.locks = s.locks /\ t.nascent = s.nascent
<1> DEFINE F == [s.traits EXCEPT ![x] = tr]
<1>1. s.traits \in [Infos -> Traits]
  BY DEF Knows, Passes
<1>2. F \in [Infos -> Traits] /\ F[x] = tr /\ \A y \in Infos : y # x => F[y] = s.traits[y]
  BY <1>1, OneTrait
<1>3. t = [s EXCEPT !.traits = F]
  OBVIOUS
<1> HIDE DEF F
<1>4. ASSUME NEW T \in Types, NEW a \in Attributes
      PROVE F[<<T, a>>].source_var = NoInfo /\ (F[<<T, a>>].is_const => a \in Constants)
  <2>1. <<T, a>> \in Infos /\ \A U \in Types, v \in Variables : <<T, a>> # <<U, v>>
    BY InfoParts DEF Names
  <2>2. s.traits[<<T, a>>].source_var = NoInfo /\ (s.traits[<<T, a>>].is_const => a \in Constants)
    BY DEF Knows
  <2> QED BY <1>2, <2>1, <2>2
<1>5. ASSUME NEW T \in Types, NEW v \in Variables, F[<<T, v>>].is_nascent PROVE Created(text, v)
  <2>1. <<T, v>> \in Infos
    BY InfoParts DEF Names
  <2>2. s.traits[<<T, v>>].is_nascent => Created(text, v)
    BY DEF Knows
  <2>3. CASE <<T, v>> = x
    BY <1>2, <1>5, <2>3
  <2> QED BY <1>2, <1>5, <2>1, <2>2, <2>3
<1> QED BY <1>2, <1>3, <1>4, <1>5, TraitsKnow

LEMMA UpdateSteps ==
  ASSUME NEW text \in Texts, NEW i \in 1..Len(text), NEW s, Knows(s, text, i), Visible(s, text, i),
         s.locks[i] = "none", NEW type \in Types, NEW nascent \in BOOLEAN, text[i].st.op = "UPDATE"
  PROVE  Step(s, InjectUpdate(s, i, text[i].st, type, nascent), text, i, nascent)
<1> DEFINE st == text[i].st
           x == <<type, st.attr>>
           t == IF nascent THEN s ELSE PlaceLock(s, i, x, TRUE)
           tr == [t.traits[x] EXCEPT !.is_nascent = FALSE]
           u == [t EXCEPT !.traits = [@ EXCEPT ![x] = tr]]
<1>1. st.attr \in Attributes \ Constants
  BY StatementParts, TextTypes
<1>2. x \in Infos /\ x # NoInfo
  BY <1>1, InfoParts DEF Names
<1>3. s.traits[x].source_var = NoInfo /\ ~s.traits[x].is_const
  BY <1>1 DEF Knows
<1>4. InjectUpdate(s, i, st, type, nascent) = u
  BY DEF InjectUpdate
<1> HIDE DEF x
<1>5. /\ Knows(t, text, i) /\ Stronger(text, s.locks, t.locks)
      /\ ~nascent => Covered(t.locks, text, i, {"exclusive"})
  <2>1. CASE nascent
    BY <2>1, StrongerSelf
  <2>2. CASE ~nascent
    <3> DEFINE e == TRUE
               w == PlaceLock(s, i, x, e)
    <3>1. e /\ (~nascent => t = w)
      OBVIOUS
    <3>4. e \in BOOLEAN
      OBVIOUS
    <3>5. x \in Infos /\ x # NoInfo
      BY <1>2
    <3> HIDE DEF e
    <3>2. /\ Knows(w, text, i) /\ Stronger(text, s.locks, w.locks)
          /\ w.traits = s.traits /\ w.nascent = s.nascent
          /\ (~s.traits[x].is_const /\ s.traits[x].source_var = NoInfo) =>
               \E q \in 1..i : text[q].in \subseteq text[i].in /\ w.locks[q] \in {"shared", "exclusive"}
                               /\ (e => w.locks[q] = "exclusive")
      BY <3>4, <3>5, PlaceLockPlaces
    <3> HIDE DEF w
    <3>3. t = w
      BY <2>2, <3>1
    <3> HIDE DEF t
    <3> QED BY <1>3, <3>1, <3>2, <3>3 DEF Covered
  <2> QED BY <2>1, <2>2
<1> HIDE DEF t
<1>6. tr \in Traits /\ ~tr.is_nascent /\ tr.is_const = t.traits[x].is_const
      /\ tr.source_var = t.traits[x].source_var
  <2>1. t.traits[x] \in Traits
    BY <1>2, <1>5 DEF Knows, Passes
  <2> QED BY <2>1 DEF Traits
<1> HIDE DEF tr
<1>7. Knows(u, text, i) /\ u.locks = t.locks
  BY <1>2, <1>5, <1>6, NascenceKnow
<1> HIDE DEF u
<1>8. Step(s, u, text, i, nascent)
  BY <1>5, <1>7 DEF Step
<1> QED BY <1>4, <1>8

LEMMA ReadIndexedSteps ==
  ASSUME NEW text \in Texts, NEW i \in 1..Len(text), NEW s, Knows(s, text, i),
         NEW type \in Types, NEW nascent \in BOOLEAN, text[i].st.op = "READ_INDEXED"
  PROVE  Step(s, InjectReadIndexed(s, text[i].st, type), text, i, nascent)
<1> DEFINE v == text[i].st.to
           x == <<type, v>>
           tr == [s.traits[x] EXCEPT !.is_const = TRUE]
           u == [s EXCEPT !.traits = [@ EXCEPT ![x] = tr]]
<1>1. v \in Variables
  BY StatementParts, TextTypes
<1>2. x \in Infos
  BY <1>1, InfoParts DEF Names
<1>3. tr \in Traits /\ tr.is_nascent = s.traits[x].is_nascent
  <2>1. s.traits[x] \in Traits
    BY <1>2 DEF Knows, Passes
  <2> HIDE DEF x
  <2> QED BY <2>1 DEF Traits
<1>4. tr.is_nascent => Created(text, v)
  BY <1>1, <1>3 DEF Knows
<1>5. InjectReadIndexed(s, text[i].st, type) = u
  BY DEF InjectReadIndexed
<1> HIDE DEF tr, v
<1>6. Knows(u, text, i) /\ u.locks = s.locks
  BY <1>1, <1>2, <1>3, <1>4, NascenceKnow
<1> HIDE DEF u
<1> QED BY <1>5, <1>6, StrongerSelf DEF Step

LEMMA CreateSteps ==
  ASSUME NEW text \in Texts, NEW i \in 1..Len(text), NEW s, Knows(s, text, i),
         NEW nascent \in BOOLEAN, text[i].st.op = "CREATE"
  PROVE  Step(s, InjectCreate(s, text[i].st), text, i, nascent)
<1> DEFINE v == text[i].st.to
           type == text[i].st.type
           x == <<type, v>>
           tr == [s.traits[x] EXCEPT !.is_nascent = TRUE]
           u == [s EXCEPT !.traits = [@ EXCEPT ![x] = tr]]
<1>1. v \in Variables /\ type \in Types
  BY StatementParts, TextTypes
<1>2. x \in Infos
  BY <1>1, InfoParts DEF Names
<1>3. tr \in Traits
  <2>1. s.traits[x] \in Traits
    BY <1>2 DEF Knows, Passes
  <2> HIDE DEF x
  <2> QED BY <2>1 DEF Traits
<1>4. Created(text, v)
  BY TextTypes DEF Created
<1>5. InjectCreate(s, text[i].st) = u
  BY DEF InjectCreate
<1> HIDE DEF tr, v, type
<1>6. Knows(u, text, i) /\ u.locks = s.locks
  BY <1>1, <1>2, <1>3, <1>4, NascenceKnow
<1> HIDE DEF u
<1> QED BY <1>5, <1>6, StrongerSelf DEF Step

LEMMA CallSteps ==
  ASSUME NEW text \in Texts, NEW i \in 1..Len(text), NEW s, Knows(s, text, i), Visible(s, text, i),
         s.locks[i] = "none", NEW nascent \in BOOLEAN, text[i].st.op = "CALL"
  PROVE  Step(s, InjectCall(s, i, text[i].st, nascent), text, i, nascent)
<1> DEFINE st == text[i].st
           x == <<st.type, st.on>>
           fresh == s.traits[x].is_nascent
           N == [s.nascent EXCEPT ![i] = fresh]
           t == [s EXCEPT !.nascent = N]
           u == IF nascent \/ fresh THEN t ELSE PlaceLock(t, i, x, FALSE)
<1>1. st.on \in Variables /\ st.type \in Types
  BY StatementParts, TextTypes
<1>2. x \in Infos /\ x # NoInfo
  BY <1>1, InfoParts DEF Names
<1>3. s = [placed |-> s.placed, locks |-> s.locks, nascent |-> s.nascent, traits |-> s.traits]
      /\ s.nascent \in [1..Len(text) -> BOOLEAN] /\ fresh \in BOOLEAN
  <2>1. s.traits[x] \in Traits
    BY <1>2 DEF Knows, Passes
  <2> QED BY <2>1 DEF Knows, Passes, Traits
<1>4. fresh => Created(text, st.on)
  BY <1>1 DEF Knows
<1>5. InjectCall(s, i, st, nascent) = u
  BY <1>3 DEF InjectCall
<1> HIDE DEF N
<1>6. t = [placed |-> s.placed, locks |-> s.locks, nascent |-> N, traits |-> s.traits]
  BY <1>3
<1> HIDE DEF fresh, x
<1>7. N \in [1..Len(text) -> BOOLEAN] /\ N[i] = fresh /\ \A j \in 1..Len(text) : j # i => N[j] = s.nascent[j]
  BY <1>3 DEF N
<1> HIDE DEF t
<1>8. \A j \in 1..Len(text) : N[j] => text[j].st.op = "CALL" /\ Created(text, text[j].st.on)
  <2> TAKE j \in 1..Len(text)
  <2>1. CASE j = i
    BY <1>4, <1>7, <2>1
  <2>2. CASE j # i
    BY <1>7, <2>2 DEF Knows
  <2> QED BY <2>1, <2>2
<1>9. t \in Passes(text)
  BY <1>6, <1>7 DEF Knows, Passes
<1>10. Knows(t, text, i) /\ t.locks = s.locks /\ t.placed = s.placed
  BY <1>6, <1>8, <1>9 DEF Knows
<1>11. Knows(u, text, i) /\ Stronger(text, s.locks, u.locks)
  <2>1. Visible(t, text, i) /\ t.locks[i] = "none" /\ FALSE \in BOOLEAN
    BY <1>10 DEF Visible
  <2> DEFINE w == PlaceLock(t, i, x, FALSE)
  <2>2. Knows(w, text, i) /\ Stronger(text, t.locks, w.locks)
    BY <1>2, <1>10, <2>1, PlaceLockPlaces
  <2> HIDE DEF w
  <2>3. u = t \/ u = w
    BY DEF w
  <2> HIDE DEF u
  <2> QED BY <1>10, <2>2, <2>3, StrongerSelf
<1> HIDE DEF u
<1> QED BY <1>5, <1>11 DEF Step

LEMMA InjectSteps ==
  ASSUME NEW text \in Texts, NEW i \in 1..Len(text), NEW s, Knows(s, text, i), Visible(s, text, i),
         s.locks[i] = "none", NEW type \in Types, NEW nascent \in BOOLEAN
  PROVE  Step(s, Inject(s, i, text[i].st, type, nascent), text, i, nascent)
<1> DEFINE op == text[i].st.op
           t == Inject(s, i, text[i].st, type, nascent)
<1>1. CASE op = "READ"
  BY <1>1, ReadSteps DEF Inject
<1>2. CASE op = "READ_INDEXED"
  BY <1>2, ReadIndexedSteps DEF Inject
<1>3. CASE op = "UPDATE"
  BY <1>3, UpdateSteps DEF Inject
<1>4. CASE op = "CREATE"
  BY <1>4, CreateSteps DEF Inject
<1>5. CASE op = "CALL"
  BY <1>5, CallSteps DEF Inject
<1>6. CASE op \notin {"READ", "READ_INDEXED", "UPDATE", "CREATE", "CALL"}
  <2>1. t = s
    BY <1>6 DEF Inject
  <2> QED BY <1>6, <2>1, StrongerSelf DEF Step
<1> QED BY <1>1, <1>2, <1>3, <1>4, <1>5, <1>6

\* The pass as a sequence of states.
Passing(f, n, text, type, nascent) ==
  f = [i \in 0..n |-> IF i = 0 THEN Empty(text)
                      ELSE Inject(InScope(f[i - 1], text, i), i, text[i].st, type, nascent)]

LEMMA PassSteps ==
  ASSUME NEW text \in Texts, NEW type \in Types, NEW nascent \in BOOLEAN
  PROVE  \E f : /\ f[0] = Empty(text)
                /\ \A i \in 1..Len(text) :
                     f[i] = Inject(InScope(f[i - 1], text, i), i, text[i].st, type, nascent)
                /\ InjectFunction(text, type, nascent) =
                     [locks |-> f[Len(text)].locks, nascent |-> f[Len(text)].nascent]
<1> DEFINE Is(n, f) == Passing(f, n, text, type, nascent)
           Body(p, i) == Inject(InScope(p, text, i), i, text[i].st, type, nascent)
           E == Empty(text)
           N == Len(text)
<1>1. N \in Nat
  BY TextTypes
<1>2. \A n, f : Is(n, f) <=> f = [i \in 0..n |-> IF i = 0 THEN E ELSE Body(f[i - 1], i)]
  BY DEF Passing
<1>3. InjectFunction(text, type, nascent) =
        [locks |-> (CHOOSE f : Is(N, f))[N].locks, nascent |-> (CHOOSE f : Is(N, f))[N].nascent]
  BY DEF InjectFunction, Passing
<1> HIDE DEF Is, Body, E, N
<1>4. \E f : Is(N, f)
  <2> DEFINE S == {n \in Nat : \E f : Is(n, f)}
  <2>1. 0 \in S
    <3> DEFINE f == [i \in 0..0 |-> E]
    <3>1. f = [i \in 0..0 |-> IF i = 0 THEN E ELSE Body(f[i - 1], i)]
      OBVIOUS
    <3> QED BY <1>2, <3>1
  <2>2. ASSUME NEW n \in Nat, n \in S PROVE n + 1 \in S
    <3>1. PICK f : Is(n, f)
      BY <2>2
    <3>2. f = [i \in 0..n |-> IF i = 0 THEN E ELSE Body(f[i - 1], i)]
      BY <1>2, <3>1
    <3> DEFINE m == n + 1
               g == [i \in 0..m |-> IF i = m THEN Body(f[n], m) ELSE f[i]]
    <3>3. \A i \in 0..m : g[i] = IF i = 0 THEN E ELSE Body(g[i - 1], i)
      <4> TAKE i \in 0..m
      <4>1. CASE i = m
        <5>1. i # 0 /\ i - 1 = n /\ i - 1 \in 0..m /\ i - 1 # m
          BY <4>1
        <5> QED BY <4>1, <5>1
      <4>2. CASE i # m
        <5>1. i \in 0..n /\ g[i] = f[i]
          BY <4>2
        <5>2. i # 0 => i - 1 \in 0..m /\ i - 1 # m /\ g[i - 1] = f[i - 1]
          BY <4>2
        <5> HIDE DEF g, m
        <5>3. f[i] = IF i = 0 THEN E ELSE Body(f[i - 1], i)
          BY <3>2, <5>1
        <5> QED BY <5>1, <5>2, <5>3
      <4> QED BY <4>1, <4>2
    <3>4. g = [i \in 0..m |-> IF i = 0 THEN E ELSE Body(g[i - 1], i)]
      <4>1. g = [i \in 0..m |-> g[i]]
        OBVIOUS
      <4> HIDE DEF g, m
      <4> QED BY <3>3, <4>1
    <3>5. m \in Nat
      OBVIOUS
    <3> HIDE DEF g
    <3>6. Is(m, g)
      BY <1>2, <3>4
    <3> HIDE DEF m
    <3>7. m \in S
      BY <3>5, <3>6
    <3> QED BY <3>7 DEF m
  <2>3. N \in S
    <3> HIDE DEF S
    <3> QED BY <1>1, <2>1, <2>2, SetInduction
  <2> QED BY <2>3
<1> DEFINE g == CHOOSE f : Is(N, f)
<1>5. Is(N, g)
  BY <1>4
<1> HIDE DEF g
<1>6. g = [i \in 0..N |-> IF i = 0 THEN E ELSE Body(g[i - 1], i)]
  BY <1>2, <1>5
<1>7. \A i \in 0..N : g[i] = IF i = 0 THEN E ELSE Body(g[i - 1], i)
  BY <1>6
<1>8. g[0] = E /\ \A i \in 1..N : g[i] = Body(g[i - 1], i)
  BY <1>1, <1>7
<1>9. InjectFunction(text, type, nascent) = [locks |-> g[N].locks, nascent |-> g[N].nascent]
  BY <1>3 DEF g
<1> QED BY <1>8, <1>9 DEF E, N, Body

LEMMA EmptyKnows == ASSUME NEW text \in Texts PROVE Knows(Empty(text), text, 0)
<1>1. Len(text) \in Nat /\ DOMAIN text = 1..Len(text)
  BY TextTypes
<1>2. NoTrait \in Traits
  BY InfoParts DEF NoTrait, Traits
<1>3. Empty(text) \in Passes(text)
  BY <1>1, <1>2 DEF Empty, Passes, Modes
<1>4. \A T \in Types, a \in Names : <<T, a>> \in Infos
  BY InfoParts
<1> QED BY <1>1, <1>3, <1>4, InfoParts DEF Empty, Knows, NoTrait, Names

LEMMA CoveredStays ==
  ASSUME NEW text \in Texts, NEW i \in 1..Len(text), NEW locks, NEW others,
         locks \in [1..Len(text) -> Modes], others \in [1..Len(text) -> Modes], Stronger(text, locks, others)
  PROVE  /\ Covered(locks, text, i, {"shared", "exclusive"}) => Covered(others, text, i, {"shared", "exclusive"})
         /\ Covered(locks, text, i, {"exclusive"}) => Covered(others, text, i, {"exclusive"})
<1>1. Len(text) \in Nat /\ \A q \in 1..i : q \in 1..Len(text)
  BY TextTypes
<1>2. \A q \in 1..i : locks[q] \in {"shared", "exclusive"} => others[q] \in {"shared", "exclusive"}
  BY <1>1 DEF Stronger, Modes
<1>3. \A q \in 1..i : locks[q] \in {"exclusive"} => others[q] \in {"exclusive"}
  BY <1>1 DEF Stronger, Modes
<1> QED BY <1>2, <1>3 DEF Covered

\* What the pass makes of a text.
LEMMA Injected ==
  ASSUME NEW text \in Texts, NEW type \in Types, NEW nascent \in BOOLEAN
  PROVE  LET c == InjectFunction(text, type, nascent) IN
         /\ c.locks \in [1..Len(text) -> Modes] /\ c.nascent \in [1..Len(text) -> BOOLEAN]
         /\ ~nascent => Covers(c.locks, text, Len(text))
         /\ \A j \in 1..Len(text) : c.nascent[j] => text[j].st.op = "CALL" /\ Created(text, text[j].st.on)
<1> DEFINE N == Len(text)
           Right(s, i) == Knows(s, text, i) /\ (~nascent => Covers(s.locks, text, i))
<1>1. N \in Nat
  BY TextTypes
<1>2. PICK f : /\ f[0] = Empty(text)
               /\ \A i \in 1..N : f[i] = Inject(InScope(f[i - 1], text, i), i, text[i].st, type, nascent)
               /\ InjectFunction(text, type, nascent) = [locks |-> f[N].locks, nascent |-> f[N].nascent]
  BY PassSteps
<1>3. Right(f[0], 0)
  BY <1>2, EmptyKnows DEF Covers
<1>4. ASSUME NEW i \in 1..N, Right(f[i - 1], i - 1) PROVE Right(f[i], i)
  <2> DEFINE r == f[i - 1]
             s == InScope(r, text, i)
             t == Inject(s, i, text[i].st, type, nascent)
  <2>1. Knows(s, text, i) /\ Visible(s, text, i) /\ s.locks = r.locks /\ s.locks[i] = "none"
    BY <1>4, InScopeKnows
  <2>2. f[i] = t
    BY <1>2
  <2> HIDE DEF s
  <2>3. Step(s, t, text, i, nascent)
    BY <2>1, InjectSteps
  <2> HIDE DEF t, N
  <2>4. s.locks \in [1..Len(text) -> Modes] /\ t.locks \in [1..Len(text) -> Modes]
    BY <2>1, <2>3 DEF Step, Knows, Passes
  <2>5. ASSUME ~nascent, NEW j \in 1..i
        PROVE /\ text[j].st.op = "READ" => \/ text[j].st.attr \in Constants
                                           \/ Covered(t.locks, text, j, {"shared", "exclusive"})
              /\ text[j].st.op = "UPDATE" => Covered(t.locks, text, j, {"exclusive"})
    <3>1. CASE j = i
      BY <2>3, <2>5, <3>1 DEF Step
    <3>2. CASE j # i
      <4>1. j \in 1..(i - 1) /\ j \in 1..Len(text)
        BY <1>1, <3>2 DEF N
      <4>2. Covers(s.locks, text, i - 1)
        BY <1>4, <2>1, <2>5
      <4>3. Stronger(text, s.locks, t.locks)
        BY <2>3 DEF Step
      <4> QED BY <2>4, <4>1, <4>2, <4>3, CoveredStays DEF Covers
    <3> QED BY <3>1, <3>2
  <2>6. ~nascent => Covers(t.locks, text, i)
    BY <2>5 DEF Covers
  <2> QED BY <2>2, <2>3, <2>6 DEF Step
<1> HIDE DEF Right
<1>5. Right(f[N], N)
  <2> DEFINE S == {i \in Nat : i <= N => Right(f[i], i)}
  <2>1. 0 \in S
    BY <1>3
  <2>2. ASSUME NEW n \in Nat, n \in S PROVE n + 1 \in S
    <3> DEFINE m == n + 1
    <3>1. m <= N => Right(f[m], m)
      <4> SUFFICES ASSUME m <= N PROVE Right(f[m], m)
        OBVIOUS
      <4>1. m \in 1..N /\ m - 1 = n /\ Right(f[n], n)
        BY <1>1, <2>2
      <4> HIDE DEF m
      <4> QED BY <1>4, <4>1
    <3>2. m \in Nat
      OBVIOUS
    <3> HIDE DEF m
    <3>3. m \in S
      BY <3>1, <3>2
    <3> QED BY <3>3 DEF m
  <2> HIDE DEF S
  <2>3. N \in S
    BY <1>1, <2>1, <2>2, SetInduction
  <2> QED BY <1>1, <2>3 DEF S
<1>6. /\ f[N].locks \in [1..N -> Modes] /\ f[N].nascent \in [1..N -> BOOLEAN]
      /\ ~nascent => Covers(f[N].locks, text, N)
      /\ \A j \in 1..N : f[N].nascent[j] => text[j].st.op = "CALL" /\ Created(text, text[j].st.on)
  BY <1>5 DEF Right, Knows, Passes
<1> HIDE DEF N
<1> QED BY <1>2, <1>6 DEF N
------------------------------------------------------------------------------
FrameSet ==
  [fn : {Main} \cup DOMAIN Library, nascent : BOOLEAN, at : Nat, locked : BOOLEAN,
   taken : SUBSET (Nat \X Blocks), this : Records, value : [Variables -> Records \cup {Nil}]]

\* Where a function is: in the branches of the statement it is at, and of earlier statements.
InPlace(f, text) ==
  /\ f.at \in 1..(Len(text) + 1) /\ (f.at <= Len(text) => text[f.at].in \subseteq f.taken)
  /\ \A b \in f.taken : b[1] \in 1..Len(text) /\ b[1] < f.at /\ text[b[1]].in \subseteq f.taken

\* It holds the locks of the statements it has passed in these branches.
HoldsLocks(f, text, locks, held_) ==
  \A q \in 1..Len(text) :
    /\ q < f.at \/ (q = f.at /\ f.locked)
    /\ text[q].in \subseteq f.taken /\ locks[q] # "none"
    => held_[f.this] # "none" /\ (locks[q] = "exclusive" => held_[f.this] = "exclusive")

\* What it takes for new is new: its record, and those of variables that a statement creates.
NewIsNew(f, text) ==
  /\ f.fn = Main => ~f.nascent
  /\ f.nascent => f.this \in New
  /\ \A v \in Variables : Created(text, v) => f.value[v] \in New \cup {Nil}

FrameInv(f) ==
  /\ InPlace(f, TextOf(f.fn)) /\ NewIsNew(f, TextOf(f.fn))
  /\ HoldsLocks(f, TextOf(f.fn), CodeOf(f.fn, f.nascent).locks, held)

RunInv ==
  /\ phase \in {"write", "run"} /\ program \in Texts /\ Writable(program)
  /\ held \in [Records -> Modes] /\ frames \in Seq(FrameSet)
  /\ phase = "write" => frames = <<>>
  /\ phase = "run" => \E type \in MainTypes : code = InjectFunction(program, type, FALSE)
  /\ \A k \in 1..Len(frames) : FrameInv(frames[k])

\* The text and the code of a function that runs.
LEMMA RunningCode ==
  ASSUME RunInv, phase = "run", NEW f \in FrameSet, FrameInv(f)
  PROVE  LET text == TextOf(f.fn)
             c    == CodeOf(f.fn, f.nascent)
         IN /\ text \in Texts /\ Writable(text) /\ c.locks \in [1..Len(text) -> Modes]
            /\ c.nascent \in [1..Len(text) -> BOOLEAN]
            /\ ~f.nascent => Covers(c.locks, text, Len(text))
            /\ \A j \in 1..Len(text) :
                 c.nascent[j] => text[j].st.op = "CALL" /\ Created(text, text[j].st.on)
<1>1. f.fn \in {Main} \cup DOMAIN Library /\ f.nascent \in BOOLEAN
  BY DEF FrameSet
<1>2. CASE f.fn = Main
  <2>1. ~f.nascent /\ TextOf(f.fn) = program /\ CodeOf(f.fn, f.nascent) = code
    BY <1>2 DEF FrameInv, NewIsNew, TextOf, CodeOf
  <2>2. PICK type \in MainTypes : code = InjectFunction(program, type, FALSE)
    BY DEF RunInv
  <2>3. program \in Texts /\ Writable(program) /\ type \in Types
    BY InjectorAssumption DEF RunInv
  <2>4. code = InjectFunction(program, type, f.nascent)
    BY <1>1, <2>1, <2>2
  <2> QED BY <1>1, <2>1, <2>3, <2>4, Injected
<1>3. CASE f.fn # Main
  <2>1. f.fn \in DOMAIN Library
    BY <1>1, <1>3
  <2>2. /\ TextOf(f.fn) = Library[f.fn].text
        /\ CodeOf(f.fn, f.nascent) = InjectFunction(Library[f.fn].text, Library[f.fn].type, f.nascent)
    <3>1. TextOf(f.fn) = Library[f.fn].text /\ CodeOf(f.fn, f.nascent) = Clones[f.fn][f.nascent]
      BY <1>3 DEF TextOf, CodeOf
    <3>2. \A h \in DOMAIN Library, n \in BOOLEAN :
            Clones[h][n] = InjectFunction(Library[h].text, Library[h].type, n)
      BY DEF Clones
    <3> QED BY <1>1, <2>1, <3>1, <3>2
  <2>3. Library[f.fn].type \in Types /\ Library[f.fn].text \in Texts /\ Writable(Library[f.fn].text)
    BY <2>1, InjectorAssumption
  <2> QED BY <1>1, <2>2, <2>3, Injected
<1> QED BY <1>2, <1>3

LEMMA Running ==
  ASSUME RunInv, frames # <<>>
  PROVE  /\ phase = "run" /\ Len(frames) \in Nat \ {0} /\ Top \in FrameSet /\ FrameInv(Top)
         /\ Text \in Texts /\ Writable(Text) /\ Len(Text) \in Nat /\ DOMAIN Text = 1..Len(Text)
<1>1. phase = "run" /\ Len(frames) \in Nat \ {0}
  BY EmptySeq, LenProperties DEF RunInv
<1>2. Len(frames) \in 1..Len(frames)
  BY <1>1
<1>3. Top \in FrameSet /\ FrameInv(Top)
  BY <1>2, ElementOfSeq DEF Top, RunInv
<1>4. Text \in Texts /\ Writable(Text)
  BY <1>1, <1>3, RunningCode DEF Text
<1> QED BY <1>1, <1>3, <1>4, TextTypes

\* Where a function goes on.
LEMMA OnwardFrames ==
  ASSUME RunInv, Run, Top.locked \/ Ahead = "none",
         NEW taken, \/ taken = Top.taken
                    \/ \E b \in Blocks : taken = Top.taken \cup {<<Top.at, b>>},
         NEW w \in [Variables -> Records \cup {Nil}],
         \A v \in Variables : Created(Text, v) => w[v] \in New \cup {Nil},
         NEW g \in Onward(taken, w)
  PROVE  g \in FrameSet /\ FrameInv(g)
<1> DEFINE f == Top
           text == Text
           N == Len(text)
           locks == CodeOf(f.fn, f.nascent).locks
<1>1. /\ f \in FrameSet /\ FrameInv(f) /\ text \in Texts /\ Writable(text) /\ N \in Nat
      /\ DOMAIN text = 1..N /\ \A i \in 1..N : Placed(text, i) /\ text[i].in \subseteq Nat \X Blocks
  BY Running, TextShape, TextTypes DEF Run
<1>2. InPlace(f, text) /\ NewIsNew(f, text) /\ HoldsLocks(f, text, locks, held)
  BY <1>1 DEF FrameInv, Text
<1>3. f.at \in 1..N /\ (f.locked \/ locks[f.at] = "none")
  BY <1>2 DEF Run, InPlace, Ahead
<1>4. PICK j \in 1..(N + 1) :
        /\ Follows(text, f.at, taken, j)
        /\ g = LET loops == Ending(text, taken, j)
                   last  == CHOOSE k \in loops : \A l \in loops : l <= k
               IN [f EXCEPT !.locked = FALSE, !.value = w, !.at = IF loops = {} THEN j ELSE last,
                            !.taken = IF loops = {} THEN taken ELSE text[last].in]
  BY DEF Onward
<1> DEFINE loops == Ending(text, taken, j)
           last == CHOOSE k \in loops : \A l \in loops : l <= k
           at_ == IF loops = {} THEN j ELSE last
           taken_ == IF loops = {} THEN taken ELSE text[last].in
<1>5. g = [f EXCEPT !.locked = FALSE, !.value = w, !.at = at_, !.taken = taken_]
  BY <1>4
<1>6. taken \subseteq Nat \X Blocks
  BY <1>1, <1>3 DEF FrameSet
<1>7. \A b \in taken : b[1] \in 1..N /\ b[1] <= f.at /\ text[b[1]].in \subseteq taken
  <2>1. CASE taken = f.taken
    BY <1>2, <1>3, <2>1 DEF InPlace
  <2>2. ASSUME NEW c \in Blocks, taken = f.taken \cup {<<f.at, c>>}, NEW b \in taken
        PROVE b[1] \in 1..N /\ b[1] <= f.at /\ text[b[1]].in \subseteq taken
    <3>1. CASE b \in f.taken
      BY <1>2, <1>3, <2>2, <3>1 DEF InPlace
    <3>2. CASE b = <<f.at, c>>
      BY <1>2, <1>3, <2>2, <3>2 DEF InPlace
    <3> QED BY <2>2, <3>1, <3>2
  <2> QED BY <2>1, <2>2
<1>8. ASSUME NEW q \in 1..N, q < j, text[q].in \subseteq taken, locks[q] # "none"
      PROVE held[f.this] # "none" /\ (locks[q] = "exclusive" => held[f.this] = "exclusive")
  <2>1. q <= f.at
    BY <1>1, <1>3, <1>4, <1>8 DEF Follows
  <2>2. text[q].in \subseteq f.taken
    <3>1. \A b \in text[q].in : b[1] \in 1..(q - 1)
      BY <1>1 DEF Placed
    <3>2. \A c : <<f.at, c>> \notin text[q].in
      <4> TAKE c
      <4>1. <<f.at, c>>[1] = f.at
        OBVIOUS
      <4> QED BY <1>3, <2>1, <3>1, <4>1
    <3> QED BY <1>8, <3>2
  <2>3. q < f.at \/ (q = f.at /\ f.locked)
    BY <1>3, <1>8, <2>1
  <2> HIDE DEF f, text, locks, N
  <2> QED BY <1>2, <1>8, <2>2, <2>3 DEF HoldsLocks, N
<1>9. loops # {} => last \in loops
  <2> SUFFICES ASSUME loops # {} PROVE \E k \in loops : \A l \in loops : l <= k
    OBVIOUS
  <2>1. loops \subseteq 1..N
    BY <1>1 DEF Ending
  <2> DEFINE T == {n \in Nat : \A l \in loops : l <= n}
  <2>2. N \in T /\ T \subseteq Nat
    BY <1>1, <2>1
  <2> HIDE DEF T, loops
  <2>3. PICK n \in T : \A m \in T : n <= m
    BY <2>2, LeastNat
  <2> QED
    <3>1. n \in Nat /\ \A l \in loops : l <= n
      BY <2>3 DEF T
    <3>2. SUFFICES ASSUME n \notin loops PROVE FALSE
      BY <3>1
    <3>3. n # 0 /\ \A l \in loops : l <= n - 1
      <4>1. \A l \in loops : l \in Nat /\ l > 0 /\ l # n /\ l <= n
        BY <1>1, <2>1, <3>1, <3>2
      <4> HIDE DEF N
      <4> QED BY <3>1, <4>1
    <3>4. n - 1 \in T
      BY <3>1, <3>3 DEF T
    <3> QED BY <2>3, <3>1, <3>4
<1> HIDE DEF loops, last
<1>10. loops # {} => /\ last \in 1..N /\ last <= f.at /\ last < j
                     /\ text[last].in \subseteq taken
  <2> SUFFICES ASSUME loops # {} PROVE last \in 1..N /\ last <= f.at /\ last < j /\ text[last].in \subseteq taken
    OBVIOUS
  <2>1. <<last, "body">> \in taken /\ <<last, "body">>[1] = last
    BY <1>9 DEF loops, Ending
  <2>2. last \in 1..N /\ last <= f.at /\ text[last].in \subseteq taken
    BY <1>7, <2>1
  <2> QED BY <1>3, <1>4, <2>2 DEF Follows
<1>11. /\ at_ \in 1..(N + 1) /\ at_ <= j /\ taken_ \subseteq taken
       /\ at_ <= N => text[at_].in \subseteq taken_
  BY <1>1, <1>4, <1>10 DEF Follows
<1>12. \A b \in taken_ : b[1] \in 1..N /\ b[1] < at_ /\ text[b[1]].in \subseteq taken_
  <2>1. CASE loops = {}
    BY <1>3, <1>4, <1>7, <2>1 DEF Follows
  <2>2. CASE loops # {}
    BY <1>1, <1>10, <2>2 DEF Placed
  <2> QED BY <2>1, <2>2
<1> HIDE DEF at_, taken_
<1>13. /\ g = [fn |-> f.fn, nascent |-> f.nascent, at |-> at_, locked |-> FALSE, taken |-> taken_,
               this |-> f.this, value |-> w]
       /\ f.fn \in {Main} \cup DOMAIN Library /\ f.nascent \in BOOLEAN /\ f.this \in Records
  BY <1>1, <1>5 DEF FrameSet
<1> HIDE DEF f, locks
<1>14. g \in FrameSet
  <2>1. at_ \in Nat /\ taken_ \subseteq Nat \X Blocks
    BY <1>1, <1>6, <1>11
  <2> QED BY <1>13, <2>1 DEF FrameSet
<1>15. InPlace(g, text)
  BY <1>11, <1>12, <1>13 DEF InPlace
<1>16. HoldsLocks(g, text, locks, held)
  <2>1. g.at = at_ /\ ~g.locked /\ g.taken = taken_ /\ g.this = f.this
    BY <1>13
  <2>2. SUFFICES ASSUME NEW q \in 1..N, q < at_, text[q].in \subseteq taken_, locks[q] # "none"
                 PROVE held[f.this] # "none" /\ (locks[q] = "exclusive" => held[f.this] = "exclusive")
    BY <2>1 DEF HoldsLocks
  <2>3. q < j /\ text[q].in \subseteq taken
    BY <1>1, <1>4, <1>11, <2>2
  <2> QED BY <1>8, <2>2, <2>3
<1>17. NewIsNew(g, text)
  BY <1>2, <1>13 DEF NewIsNew
<1>18. text = TextOf(g.fn) /\ locks = CodeOf(g.fn, g.nascent).locks
  BY <1>13 DEF Text, locks, f
<1> HIDE DEF text
<1> QED BY <1>14, <1>15, <1>16, <1>17, <1>18 DEF FrameInv

\* A step that takes nothing away from what a function relies on.
LEMMA FramesKeep ==
  ASSUME RunInv, phase = "run", program' = program, code' = code, held' \in [Records -> Modes],
         \A r \in Records : /\ held[r] # "none" => held'[r] # "none"
                            /\ held[r] = "exclusive" => held'[r] = "exclusive",
         NEW f \in FrameSet, FrameInv(f)
  PROVE  FrameInv(f)'
<1> DEFINE text == TextOf(f.fn)
           locks == CodeOf(f.fn, f.nascent).locks
<1>1. text' = text /\ locks' = locks
  BY DEF TextOf, CodeOf
<1>2. f.this \in Records
  BY DEF FrameSet
<1>3. InPlace(f, text) /\ NewIsNew(f, text) /\ HoldsLocks(f, text, locks, held)
  BY DEF FrameInv
<1> HIDE DEF text, locks
<1>4. HoldsLocks(f, text, locks, held')
  BY <1>2, <1>3 DEF HoldsLocks
<1>5. InPlace(f, text)' /\ NewIsNew(f, text)' /\ HoldsLocks(f, text, locks, held)'
  BY <1>1, <1>3, <1>4
<1> QED BY <1>5 DEF FrameInv, text, locks

\* Only frames change.
LEMMA NewFrames ==
  ASSUME RunInv, phase = "run", UNCHANGED <<phase, program, code, held>>, frames' \in Seq(FrameSet),
         \A k \in 1..Len(frames') : FrameInv(frames'[k])
  PROVE  RunInv'
<1>1. \A k \in 1..Len(frames') : frames'[k] \in FrameSet
  BY ElementOfSeq
<1>2. held' \in [Records -> Modes] /\ held' = held
  BY DEF RunInv
<1>3. ASSUME NEW k \in 1..Len(frames') PROVE FrameInv(frames[k])'
  <2> DEFINE f == frames'[k]
  <2>1. FrameInv(f) /\ f \in FrameSet
    BY <1>1, <1>3
  <2>2. InPlace(f, TextOf(f.fn)) /\ NewIsNew(f, TextOf(f.fn))
        /\ HoldsLocks(f, TextOf(f.fn), CodeOf(f.fn, f.nascent).locks, held)
    BY <2>1 DEF FrameInv
  <2> QED BY <2>2, <1>2 DEF FrameInv, TextOf, CodeOf, InPlace, NewIsNew, HoldsLocks, Created
<1> QED BY <1>2, <1>3 DEF RunInv

\* The running function goes on.
LEMMA TopChanges ==
  ASSUME RunInv, frames # <<>>, NEW g \in FrameSet, FrameInv(g)
  PROVE  LET s == [frames EXCEPT ![Len(frames)] = g]
         IN s \in Seq(FrameSet) /\ Len(s) = Len(frames) /\ \A k \in 1..Len(s) : FrameInv(s[k])
<1> DEFINE s == [frames EXCEPT ![Len(frames)] = g]
<1>1. Len(frames) \in Nat \ {0} /\ frames \in Seq(FrameSet)
  BY Running DEF RunInv
<1>2. Len(frames) \in 1..Len(frames)
  BY <1>1
<1>3. s \in Seq(FrameSet) /\ Len(s) = Len(frames) /\ s[Len(frames)] = g
      /\ \A k \in 1..Len(frames) : k # Len(frames) => s[k] = frames[k]
  BY <1>1, <1>2, ExceptSeq
<1> HIDE DEF s
<1>4. \A k \in 1..Len(s) : FrameInv(s[k])
  BY <1>3 DEF RunInv
<1> QED BY <1>3, <1>4 DEF s

LEMMA GoesOn ==
  ASSUME RunInv, Run, Top.locked \/ Ahead = "none",
         NEW taken, \/ taken = Top.taken
                    \/ \E b \in Blocks : taken = Top.taken \cup {<<Top.at, b>>},
         NEW w \in [Variables -> Records \cup {Nil}],
         \A v \in Variables : Created(Text, v) => w[v] \in New \cup {Nil},
         GoOn(taken, w)
  PROVE  RunInv'
<1>1. PICK g \in Onward(taken, w) : frames' = [frames EXCEPT ![Len(frames)] = g]
  BY DEF GoOn
<1>2. g \in FrameSet /\ FrameInv(g)
  BY OnwardFrames
<1>3. frames # <<>> /\ phase = "run"
  BY Running DEF Run
<1>4. frames' \in Seq(FrameSet) /\ \A k \in 1..Len(frames') : FrameInv(frames'[k])
  BY <1>1, <1>2, <1>3, TopChanges
<1> QED BY <1>3, <1>4, NewFrames DEF GoOn

\* The values of the running function, and of the same with one assigned.
LEMMA TopValues ==
  ASSUME RunInv, Run, ~Reassign
  PROVE  /\ St \in Statements /\ Top.value \in [Variables -> Records \cup {Nil}]
         /\ \A v \in Variables : Created(Text, v) => Top.value[v] \in New \cup {Nil}
         /\ \A r \in Records \cup {Nil} :
              /\ St.to \in Variables
              /\ St.op = "CREATE" => r \in New
              => /\ Assign(St.to, r) \in [Variables -> Records \cup {Nil}]
                 /\ \A v \in Variables : Created(Text, v) => Assign(St.to, r)[v] \in New \cup {Nil}
<1>1. /\ Top \in FrameSet /\ FrameInv(Top) /\ Text \in Texts /\ Writable(Text)
      /\ DOMAIN Text = 1..Len(Text) /\ Len(Text) \in Nat
  BY Running DEF Run
<1>2. Top.at \in 1..Len(Text) /\ \A v \in Variables : Created(Text, v) => Top.value[v] \in New \cup {Nil}
  BY <1>1 DEF FrameInv, Text, InPlace, NewIsNew, Run
<1>3. St \in Statements
  BY <1>1, <1>2, TextTypes DEF St
<1>4. Top.value \in [Variables -> Records \cup {Nil}]
  BY <1>1 DEF FrameSet
<1>5. ASSUME NEW r \in Records \cup {Nil}, St.to \in Variables, St.op = "CREATE" => r \in New,
             NEW v \in Variables, Created(Text, v)
      PROVE Assign(St.to, r)[v] \in New \cup {Nil}
  <2>1. CASE v # St.to
    BY <1>2, <1>4, <1>5, <2>1 DEF Assign
  <2>2. CASE v = St.to
    <3>1. PICK j \in 1..Len(Text) : Text[j].st.op = "CREATE" /\ Text[j].st.to = v
      BY <1>5 DEF Created
    <3>2. OnlyCreated(Text, v)
      BY <1>1 DEF Writable
    <3>3. j = Top.at
      BY <1>1, <1>2, <2>2, <3>1, <3>2 DEF OnlyCreated, St
    <3> QED BY <1>4, <1>5, <2>2, <3>1, <3>3 DEF Assign, St
  <2> QED BY <2>1, <2>2
<1>6. \A r \in Records \cup {Nil} : St.to \in Variables => Assign(St.to, r) \in [Variables -> Records \cup {Nil}]
  BY <1>4 DEF Assign
<1> QED BY <1>2, <1>3, <1>4, <1>5, <1>6

\* A function that starts, on a new record if it is taken for that.
LEMMA NewFrame ==
  ASSUME RunInv, NEW f \in {Main} \cup DOMAIN Library, NEW nascent \in BOOLEAN, NEW r \in Records,
         TextOf(f) \in Texts, Writable(TextOf(f)), f = Main => ~nascent, nascent => r \in New,
         NEW w \in Arguments(TextOf(f))
  PROVE  Frame(f, nascent, r, w) \in FrameSet /\ FrameInv(Frame(f, nascent, r, w))
<1> DEFINE g == Frame(f, nascent, r, w)
           text == TextOf(f)
<1>1. g = [fn |-> f, nascent |-> nascent, at |-> 1, locked |-> FALSE, taken |-> {}, this |-> r, value |-> w]
  BY DEF Frame
<1>2. w \in [Variables -> Records \cup {Nil}]
      /\ \A v \in Variables : w[v] # Nil => ~Assigned(text, v)
  BY DEF Arguments
<1>3. Len(text) \in Nat /\ DOMAIN text = 1..Len(text) /\ \A i \in 1..Len(text) : text[i].in \in Contexts(text, i - 1)
  BY TextTypes DEF Writable
<1> HIDE DEF g, text
<1>4. g \in FrameSet
  BY <1>1, <1>2 DEF FrameSet
<1>5. InPlace(g, text)
  <2>1. 1 <= Len(text) => text[1].in = {}
    <3>1. 1 - 1 = 0 /\ Contexts(text, 0) = {{}}
      BY DEF Contexts
    <3>2. 1 <= Len(text) => text[1].in \in Contexts(text, 0)
      BY ONLY <1>3, <3>1
    <3> QED BY <3>1, <3>2
  <2> QED BY <1>1, <1>3, <2>1 DEF InPlace
<1>6. NewIsNew(g, text)
  <2>1. \A v \in Variables : Created(text, v) => w[v] = Nil
    BY <1>2, <1>3 DEF Created, Assigned
  <2> QED BY <1>1, <2>1 DEF NewIsNew
<1>7. HoldsLocks(g, text, CodeOf(g.fn, g.nascent).locks, held)
  BY <1>1, <1>3 DEF HoldsLocks
<1>8. text = TextOf(g.fn)
  BY <1>1 DEF text
<1> QED BY <1>4, <1>5, <1>6, <1>7, <1>8 DEF FrameInv, g

LEMMA NoFrames == <<>> \in Seq(FrameSet) /\ Len(<<>>) = 0
BY EmptySeq

LEMMA InitRuns == Init => RunInv
<1> SUFFICES ASSUME Init PROVE RunInv
  OBVIOUS
<1>1. program \in Texts /\ DOMAIN program = {}
  BY EmptySeq, LenProperties DEF Init, Texts
<1>2. Writable(program)
  BY <1>1 DEF Writable, Declared, OnlyCreated
<1> QED BY <1>1, <1>2, NoFrames DEF Init, RunInv, Modes

LEMMA AddStatementKeeps == ASSUME RunInv, NEW st \in Statements, AddStatement(st) PROVE RunInv'
<1>1. PICK c \in Contexts(program, Len(program)) : program' = Append(program, [st |-> st, in |-> c])
  BY DEF AddStatement
<1>2. program \in Seq(Entries) /\ Len(program) \in Nat /\ DOMAIN program = 1..Len(program)
      /\ \A i \in 1..Len(program) : Placed(program, i) /\ program[i].in \subseteq Nat \X Blocks
  BY TextShape, TextTypes DEF RunInv, Texts, Entries
<1>3. c \subseteq Nat \X Blocks
  <2> DEFINE n == Len(program)
             d == program[n].in
  <2>1. CASE n = 0
    BY <1>1, <2>1 DEF Contexts
  <2>2. CASE n # 0
    <3>1. n \in 1..n /\ d \subseteq Nat \X Blocks /\ \A b \in d : b[1] \in 1..n
      BY <1>2, <2>2 DEF Placed
    <3> HIDE DEF n
    <3>2. \A x \in Blocks : {<<n, x>>} \subseteq Nat \X Blocks
      BY <1>2, <3>1 DEF n
    <3>3. \A k \in 1..n : program[k].in \subseteq Nat \X Blocks /\ <<k, "else">> \in Nat \X Blocks
      BY <1>2 DEF n, Blocks
    <3> DEFINE opened == CASE program[n].st.op = "IF"   -> {<<n, "then">>}
                           [] program[n].st.op = "LOOP" -> {<<n, "body">>}
                           [] OTHER                     -> {}
               elses == {<<k, "else">> : k \in {j \in 1..n : <<j, "then">> \in d}}
    <3>4. c \in IF opened # {} THEN {d \cup opened}
                ELSE {d} \cup {program[b[1]].in : b \in d} \cup {program[b[1]].in \cup {b} : b \in elses}
      BY <1>1, <2>2 DEF Contexts, n
    <3>5. opened \subseteq Nat \X Blocks
      BY <3>2 DEF Blocks
    <3>6. ASSUME NEW b \in elses PROVE b \in Nat \X Blocks /\ b[1] \in 1..n
      <4>1. PICK k \in 1..n : b = <<k, "else">>
        OBVIOUS
      <4>2. b[1] = k
        BY <4>1
      <4> QED BY <3>3, <4>1, <4>2
    <3> HIDE DEF opened, elses, d
    <3> QED BY <3>1, <3>3, <3>4, <3>5, <3>6
  <2> QED BY <2>1, <2>2
<1>4. program' \in Texts
  <2>1. [st |-> st, in |-> c] \in Entries
    BY <1>3 DEF Entries
  <2> HIDE DEF Entries
  <2>2. program' \in Seq(Entries)
    BY <1>1, <1>2, <2>1, AppendProperties
  <2> QED BY <2>2 DEF Texts, Entries
<1> QED BY <1>4, NoFrames DEF AddStatement, RunInv

LEMMA InjectKeeps == ASSUME RunInv, InjectAndRun PROVE RunInv'
<1>1. PICK w \in Arguments(program) : frames' = <<Frame(Main, FALSE, Root, w)>>
  BY DEF InjectAndRun
<1> DEFINE g == Frame(Main, FALSE, Root, w)
<1>2. TextOf(Main) = program /\ Root \in Records
  BY InjectorAssumption DEF TextOf, Records
<1>3. g \in FrameSet /\ FrameInv(g)
  <2> DEFINE e == FALSE
  <2>1. e \in BOOLEAN /\ ~e
    OBVIOUS
  <2> HIDE DEF e
  <2>2. Frame(Main, e, Root, w) \in FrameSet /\ FrameInv(Frame(Main, e, Root, w))
    BY <1>2, <2>1, NewFrame DEF RunInv
  <2> QED BY <2>2 DEF e
<1>4. program' = program /\ held' = held /\ phase' = "run"
      /\ \E type \in MainTypes : code' = InjectFunction(program, type, FALSE)
  BY DEF InjectAndRun
<1>5. /\ g.fn = Main /\ g.at = 1 /\ ~g.locked
  BY DEF Frame
<1> HIDE DEF g
<1>6. FrameInv(g)'
  <2>1. InPlace(g, program) /\ NewIsNew(g, program) /\ Len(program) \in Nat
    BY <1>2, <1>3, <1>5, TextTypes DEF FrameInv, RunInv
  <2>2. HoldsLocks(g, program, code'.locks, held')
    BY <1>5, <2>1 DEF HoldsLocks
  <2>3. TextOf(g.fn)' = program /\ CodeOf(g.fn, g.nascent)' = code'
    BY <1>4, <1>5 DEF TextOf, CodeOf
  <2>4. InPlace(g, program)' /\ NewIsNew(g, program)'
    BY <1>4, <2>1 DEF InPlace, NewIsNew, Created
  <2> QED BY <1>4, <2>1, <2>2, <2>3, <2>4 DEF FrameInv
<1>7. frames' \in Seq(FrameSet) /\ Len(frames') = 1 /\ frames'[1] = g
  <2>1. frames' = <<g>>
    BY <1>1 DEF g
  <2> QED BY <1>3, <2>1
<1>8. \A k \in 1..Len(frames') : FrameInv(frames[k])'
  <2> TAKE k \in 1..Len(frames')
  <2>1. frames'[k] = g
    BY <1>7
  <2> QED BY <1>6, <2>1 DEF FrameInv
<1> QED BY <1>4, <1>7, <1>8 DEF RunInv

\* The code of the running function.
LEMMA TopCode ==
  ASSUME RunInv, Run
  PROVE  /\ Top.at \in 1..Len(Text) /\ Top.this \in Records /\ InPlace(Top, Text) /\ NewIsNew(Top, Text)
         /\ LET c == CodeOf(Top.fn, Top.nascent) IN
            /\ HoldsLocks(Top, Text, c.locks, held)
            /\ c.locks \in [1..Len(Text) -> Modes] /\ c.nascent \in [1..Len(Text) -> BOOLEAN]
            /\ ~Top.nascent => Covers(c.locks, Text, Len(Text))
            /\ \A j \in 1..Len(Text) :
                 c.nascent[j] => Text[j].st.op = "CALL" /\ Created(Text, Text[j].st.on)
<1>1. phase = "run" /\ Top \in FrameSet /\ FrameInv(Top)
  BY Running DEF Run
<1>2. InPlace(Top, Text) /\ NewIsNew(Top, Text) /\ HoldsLocks(Top, Text, CodeOf(Top.fn, Top.nascent).locks, held)
  BY <1>1 DEF FrameInv, Text
<1>3. Top.at \in 1..Len(Text) /\ Top.this \in Records
  BY <1>1, <1>2, Running DEF InPlace, Run, FrameSet
<1> QED BY <1>1, <1>2, <1>3, RunningCode DEF Text

LEMMA RunLockKeeps == ASSUME RunInv, RunLock PROVE RunInv'
<1> DEFINE f == Top
           n == Len(frames)
           mode == Ahead
           g == [f EXCEPT !.locked = TRUE]
<1>1. /\ Run /\ ~f.locked /\ mode # "none" /\ frames # <<>>
      /\ held' = [held EXCEPT ![f.this] = IF @ = "exclusive" THEN @ ELSE mode]
      /\ frames' = [frames EXCEPT ![n].locked = TRUE]
      /\ UNCHANGED <<phase, program, code>>
  BY DEF RunLock, Run
<1>2. /\ phase = "run" /\ n \in Nat \ {0} /\ f \in FrameSet /\ FrameInv(f) /\ frames \in Seq(FrameSet)
      /\ Text \in Texts /\ Len(Text) \in Nat
  BY <1>1, Running DEF RunInv
<1>3. f.at \in 1..Len(Text) /\ f.this \in Records /\ mode \in Modes
  BY <1>1, TopCode DEF Ahead
<1>4. /\ held \in [Records -> Modes] /\ held' \in [Records -> Modes]
      /\ \A r \in Records : /\ held[r] # "none" => held'[r] # "none"
                            /\ held[r] = "exclusive" => held'[r] = "exclusive"
      /\ held'[f.this] # "none" /\ (mode = "exclusive" => held'[f.this] = "exclusive")
  <2>1. held \in [Records -> Modes]
    BY DEF RunInv
  <2> HIDE DEF f, mode
  <2> QED BY <1>1, <1>3, <2>1 DEF Modes
<1>5. ASSUME NEW h \in FrameSet, FrameInv(h) PROVE FrameInv(h)'
  BY <1>1, <1>2, <1>4, <1>5, FramesKeep
<1>6. PICK h : h = [f EXCEPT !.locked = TRUE]
  OBVIOUS
<1>7. h = [fn |-> f.fn, nascent |-> f.nascent, at |-> f.at, locked |-> TRUE, taken |-> f.taken,
           this |-> f.this, value |-> f.value]
  BY <1>2, <1>6 DEF FrameSet
<1>8. h \in FrameSet
  BY <1>2, <1>7 DEF FrameSet
<1>9. FrameInv(h)'
  <2> DEFINE text == Text
             locks == CodeOf(f.fn, f.nascent).locks
  <2>1. InPlace(f, text) /\ NewIsNew(f, text) /\ HoldsLocks(f, text, locks, held) /\ mode = locks[f.at]
        /\ locks \in [1..Len(text) -> Modes]
    BY <1>1, TopCode DEF Ahead
  <2>2. /\ h.fn = f.fn /\ h.nascent = f.nascent /\ h.at = f.at /\ h.taken = f.taken /\ h.this = f.this
        /\ h.value = f.value /\ h.locked
    BY <1>7
  <2>3. text = TextOf(h.fn) /\ locks = CodeOf(h.fn, h.nascent).locks
    BY <2>2 DEF Text
  <2>4. TextOf(h.fn)' = TextOf(h.fn) /\ CodeOf(h.fn, h.nascent)' = CodeOf(h.fn, h.nascent)
    BY <1>1 DEF TextOf, CodeOf
  <2> HIDE DEF f, text, locks, mode
  <2>5. InPlace(h, text) /\ NewIsNew(h, text)
    BY <2>1, <2>2 DEF InPlace, NewIsNew
  <2>6. HoldsLocks(h, text, locks, held')
    <3> SUFFICES ASSUME NEW q \in 1..Len(text), q <= f.at, text[q].in \subseteq f.taken, locks[q] # "none"
                 PROVE held'[f.this] # "none" /\ (locks[q] = "exclusive" => held'[f.this] = "exclusive")
      BY <1>2, <1>3, <2>2 DEF HoldsLocks, text
    <3>1. CASE q = f.at
      BY <1>4, <2>1, <3>1
    <3>2. CASE q # f.at
      <4>1. q < f.at
        BY <1>2, <1>3, <3>2 DEF text
      <4> QED BY <1>3, <1>4, <2>1, <4>1 DEF HoldsLocks
    <3> QED BY <3>1, <3>2
  <2>7. InPlace(h, TextOf(h.fn)') /\ NewIsNew(h, TextOf(h.fn)')
        /\ HoldsLocks(h, TextOf(h.fn)', CodeOf(h.fn, h.nascent)'.locks, held')
    BY <2>3, <2>4, <2>5, <2>6
  <2> QED BY <2>7 DEF FrameInv, InPlace, NewIsNew, HoldsLocks, Created
<1>10. frames' = [frames EXCEPT ![n] = h]
  BY <1>1, <1>2, <1>6 DEF Top
<1> HIDE DEF f, g
<1>11. n \in 1..n
  BY <1>2
<1>12. /\ frames' \in Seq(FrameSet) /\ Len(frames') = n /\ frames'[n] = h
       /\ \A k \in 1..n : k # n => frames'[k] = frames[k]
  BY <1>2, <1>8, <1>10, <1>11, ExceptSeq
<1>13. ASSUME NEW k \in 1..Len(frames') PROVE FrameInv(frames[k])'
  <2>1. PICK x : x = frames'[k]
    OBVIOUS
  <2>2. x = h \/ (x \in FrameSet /\ FrameInv(x))
    <3>1. CASE k = n
      BY <1>12, <2>1, <3>1
    <3>2. CASE k # n
      <4>1. x = frames[k] /\ k \in 1..n
        BY <1>12, <1>13, <2>1, <3>2
      <4> QED BY <1>2, <4>1, ElementOfSeq DEF RunInv
    <3> QED BY <3>1, <3>2
  <2>3. FrameInv(x)'
    BY <1>5, <1>9, <2>2
  <2> QED BY <2>1, <2>3 DEF FrameInv
<1> QED BY <1>1, <1>2, <1>4, <1>12, <1>13 DEF RunInv

LEMMA RunReadKeeps == ASSUME RunInv, ~Reassign, RunRead PROVE RunInv'
<1>1. Run /\ (Top.locked \/ Ahead = "none") /\ St.op \in {"READ", "READ_INDEXED"}
  BY DEF RunRead, At
<1>2. PICK r \in Records \cup {Nil} : GoOn(Top.taken, Assign(St.to, r))
  BY DEF RunRead
<1>3. St.to \in Variables /\ St.op # "CREATE"
  BY <1>1, TopValues, StatementParts
<1> DEFINE w == Assign(St.to, r)
<1>4. w \in [Variables -> Records \cup {Nil}] /\ \A v \in Variables : Created(Text, v) => w[v] \in New \cup {Nil}
  BY <1>1, <1>3, TopValues
<1>5. PICK u, taken : u = w /\ taken = Top.taken
  OBVIOUS
<1> HIDE DEF w
<1> QED BY <1>1, <1>2, <1>4, <1>5, GoesOn DEF w

LEMMA RunUpdateKeeps == ASSUME RunInv, ~Reassign, RunUpdate PROVE RunInv'
<1>1. Run /\ (Top.locked \/ Ahead = "none") /\ GoOn(Top.taken, Top.value)
  BY DEF RunUpdate, At
<1>2. PICK w, taken : w = Top.value /\ taken = Top.taken
  OBVIOUS
<1> QED BY <1>1, <1>2, TopValues, GoesOn

LEMMA RunCreateKeeps == ASSUME RunInv, ~Reassign, RunCreate PROVE RunInv'
<1>1. Run /\ (Top.locked \/ Ahead = "none") /\ St.op = "CREATE"
  BY DEF RunCreate, At
<1>2. PICK r \in New : GoOn(Top.taken, Assign(St.to, r))
  BY DEF RunCreate
<1>3. St.to \in Variables /\ r \in Records \cup {Nil}
  BY <1>1, TopValues, StatementParts DEF Records
<1> DEFINE w == Assign(St.to, r)
<1>4. w \in [Variables -> Records \cup {Nil}] /\ \A v \in Variables : Created(Text, v) => w[v] \in New \cup {Nil}
  BY <1>1, <1>3, TopValues
<1>5. PICK u, taken : u = w /\ taken = Top.taken
  OBVIOUS
<1> HIDE DEF w
<1> QED BY <1>1, <1>2, <1>4, <1>5, GoesOn DEF w

LEMMA RunIfKeeps == ASSUME RunInv, ~Reassign, RunIf PROVE RunInv'
<1>1. Run /\ (Top.locked \/ Ahead = "none")
  BY DEF RunIf, At
<1>2. PICK b \in {"then", "else"} : GoOn(Top.taken \cup {<<Top.at, b>>}, Top.value)
  BY DEF RunIf
<1>3. PICK w, taken : w = Top.value /\ taken = Top.taken \cup {<<Top.at, b>>}
  OBVIOUS
<1>4. b \in Blocks
  BY DEF Blocks
<1> QED BY <1>1, <1>2, <1>3, <1>4, TopValues, GoesOn

LEMMA RunLoopKeeps == ASSUME RunInv, ~Reassign, RunLoop PROVE RunInv'
<1>1. Run /\ (Top.locked \/ Ahead = "none")
  BY DEF RunLoop, At
<1>2. PICK t \in {Top.taken, Top.taken \cup {<<Top.at, "body">>}} : GoOn(t, Top.value)
  BY DEF RunLoop
<1>3. PICK w, taken : w = Top.value /\ taken = t
  OBVIOUS
<1>4. taken = Top.taken \/ \E b \in Blocks : taken = Top.taken \cup {<<Top.at, b>>}
  BY <1>3 DEF Blocks
<1> QED BY <1>1, <1>2, <1>3, <1>4, TopValues, GoesOn

LEMMA RunCallKeeps == ASSUME RunInv, ~Reassign, RunCall PROVE RunInv'
<1> DEFINE fresh == CodeOf(Top.fn, Top.nascent).nascent[Top.at]
           callee == Library[St.fn].text
           r == Top.value[St.on]
<1>1. Run /\ (Top.locked \/ Ahead = "none") /\ St.op = "CALL" /\ r # Nil
      /\ UNCHANGED <<phase, program, code, held>>
  BY DEF RunCall, At
<1>2. PICK u \in (IF St.to = None THEN {Top.value} ELSE {Assign(St.to, x) : x \in Records \cup {Nil}}) :
        \E f \in Onward(Top.taken, u), v \in Arguments(callee) :
          frames' = Append([frames EXCEPT ![Len(frames)] = f], Frame(St.fn, fresh, r, v))
  BY DEF RunCall
<1>3. PICK f \in Onward(Top.taken, u), v \in Arguments(callee) :
         frames' = Append([frames EXCEPT ![Len(frames)] = f], Frame(St.fn, fresh, r, v))
  BY <1>2
<1>4. /\ St \in Statements /\ Top.value \in [Variables -> Records \cup {Nil}]
      /\ St.on \in Variables /\ St.fn \in DOMAIN Library /\ St.to \in Variables \cup {None}
  BY <1>1, TopValues, StatementParts
<1>5. /\ u \in [Variables -> Records \cup {Nil}]
      /\ \A x \in Variables : Created(Text, x) => u[x] \in New \cup {Nil}
  <2>1. CASE St.to = None
    BY <1>1, <1>2, <2>1, TopValues
  <2>2. CASE St.to # None
    BY <1>1, <1>2, <1>4, <2>2, TopValues
  <2> QED BY <2>1, <2>2
<1>6. f \in FrameSet /\ FrameInv(f)
  <2>1. PICK taken : taken = Top.taken
    OBVIOUS
  <2> QED BY <1>1, <1>3, <1>5, <2>1, OnwardFrames
<1>7. frames # <<>> /\ phase = "run"
  BY <1>1, Running DEF Run
<1> DEFINE s == [frames EXCEPT ![Len(frames)] = f]
           g == Frame(St.fn, fresh, r, v)
<1>8. s \in Seq(FrameSet) /\ Len(s) \in Nat /\ \A k \in 1..Len(s) : FrameInv(s[k])
  BY <1>6, <1>7, TopChanges, LenProperties
<1>9. fresh \in BOOLEAN /\ (fresh => r \in New) /\ r \in Records
  <2>2. fresh \in BOOLEAN /\ (fresh => Created(Text, St.on))
    BY <1>1, TopCode DEF St
  <2>3. Created(Text, St.on) => r \in New \cup {Nil}
    BY <1>1, <1>4, TopValues
  <2>4. r \in Records \cup {Nil}
    BY <1>4
  <2> HIDE DEF fresh, r
  <2> QED BY <1>1, <2>2, <2>3, <2>4
<1>10. St.fn # Main /\ TextOf(St.fn) = callee /\ callee \in Texts /\ Writable(callee)
  BY <1>4, InjectorAssumption DEF TextOf
<1>11. g \in FrameSet /\ FrameInv(g)
  <2>1. PICK fn, nascent, x : fn = St.fn /\ nascent = fresh /\ x = r
    OBVIOUS
  <2> HIDE DEF fresh, r
  <2>2. Frame(fn, nascent, x, v) \in FrameSet /\ FrameInv(Frame(fn, nascent, x, v))
    BY <1>3, <1>4, <1>9, <1>10, <2>1, NewFrame
  <2> QED BY <2>1, <2>2
<1> HIDE DEF s, g
<1>12. /\ frames' \in Seq(FrameSet) /\ Len(frames') = Len(s) + 1 /\ frames'[Len(s) + 1] = g
       /\ \A k \in 1..Len(s) : frames'[k] = s[k]
  BY <1>3, <1>8, <1>11, AppendProperties DEF s, g
<1>13. \A k \in 1..Len(frames') : FrameInv(frames'[k])
  <2> TAKE k \in 1..Len(frames')
  <2>1. CASE k = Len(s) + 1
    BY <1>11, <1>12, <2>1
  <2>2. CASE k # Len(s) + 1
    <3>1. k \in 1..Len(s)
      BY <1>8, <1>12, <2>2
    <3> QED BY <1>8, <1>12, <3>1
  <2> QED BY <2>1, <2>2
<1> QED BY <1>1, <1>7, <1>12, <1>13, NewFrames

LEMMA ReturnKeeps == ASSUME RunInv, Return PROVE RunInv'
<1>1. frames # <<>> /\ frames' = Front(frames) /\ UNCHANGED <<phase, program, code, held>>
  BY DEF Return
<1>2. phase = "run" /\ Len(frames) \in Nat \ {0} /\ frames \in Seq(FrameSet)
  BY <1>1, Running DEF RunInv
<1> DEFINE n == Len(frames) - 1
<1>3. n \in 0..Len(frames) /\ frames' = SubSeq(frames, 1, n)
  BY <1>1, <1>2 DEF Front
<1>4. /\ frames' \in Seq(FrameSet) /\ Len(frames') = n
      /\ \A k \in 1..n : frames'[k] = frames[k]
  <2> DEFINE t == SubSeq(frames, 1, n)
  <2>1. n \in Nat /\ \A k \in 1..n : k \in 1..Len(frames) /\ frames[k] \in FrameSet
    BY <1>2, ElementOfSeq
  <2> HIDE DEF n
  <2>2. /\ t \in Seq(FrameSet) /\ Len(t) = IF 1 <= n THEN n - 1 + 1 ELSE 0
        /\ \A k \in 1..(n - 1 + 1) : t[k] = frames[1 + k - 1]
    BY <2>1, SubSeqProperties
  <2> HIDE DEF t
  <2>3. Len(t) = n /\ \A k \in 1..n : t[k] = frames[k]
    BY <2>1, <2>2
  <2>4. frames' = t
    BY <1>3 DEF t
  <2> QED BY <2>2, <2>3, <2>4
<1>5. \A k \in 1..Len(frames') : FrameInv(frames'[k])
  BY <1>2, <1>4 DEF RunInv
<1> QED BY <1>1, <1>2, <1>4, <1>5, NewFrames

LEMMA StutterKeeps == ASSUME RunInv, UNCHANGED vars PROVE RunInv'
<1>1. UNCHANGED <<phase, program, code, frames, held>>
  BY DEF vars
<1>2. ASSUME NEW k \in 1..Len(frames) PROVE FrameInv(frames[k])'
  <2>1. FrameInv(frames[k])
    BY <1>2 DEF RunInv
  <2> QED BY <1>1, <2>1 DEF FrameInv, TextOf, CodeOf, InPlace, NewIsNew, HoldsLocks, Created
<1> QED BY <1>1, <1>2 DEF RunInv, Writable

LEMMA StepKeeps == ASSUME RunInv, ~Reassign, [Next]_vars PROVE RunInv'
BY AddStatementKeeps, InjectKeeps, RunLockKeeps, RunReadKeeps, RunUpdateKeeps, RunCreateKeeps, RunIfKeeps,
   RunLoopKeeps, RunCallKeeps, ReturnKeeps, StutterKeeps DEF Next

\* What a function does to a record that others know is covered by what it holds.
LEMMA RunsGuarded == ASSUME RunInv PROVE Guarded
<1> SUFFICES ASSUME Run, Top.this \notin New, Top.locked \/ Ahead = "none", St.op \in {"READ", "UPDATE"}
             PROVE  /\ St.op = "READ" => St.attr \in Constants \/ held[Top.this] # "none"
                    /\ St.op = "UPDATE" => held[Top.this] = "exclusive"
  BY DEF Guarded, At
<1> DEFINE text == Text
           f == Top
           locks == CodeOf(f.fn, f.nascent).locks
<1>1. /\ f.at \in 1..Len(text) /\ InPlace(f, text) /\ NewIsNew(f, text) /\ HoldsLocks(f, text, locks, held)
      /\ ~f.nascent => Covers(locks, text, Len(text))
  BY TopCode
<1>2. Covers(locks, text, Len(text)) /\ Len(text) \in Nat
  BY <1>1, Running DEF NewIsNew, Run
<1>3. St = text[f.at].st /\ text[f.at].in \subseteq f.taken /\ (f.locked \/ locks[f.at] = "none")
  BY <1>1 DEF St, InPlace, Run, Ahead
<1> HIDE DEF text, f, locks
<1>4. ASSUME NEW q \in 1..f.at, text[q].in \subseteq text[f.at].in, locks[q] # "none"
      PROVE held[f.this] # "none" /\ (locks[q] = "exclusive" => held[f.this] = "exclusive")
  <2>1. q \in 1..Len(text) /\ (q < f.at \/ (q = f.at /\ f.locked)) /\ text[q].in \subseteq f.taken
    BY <1>1, <1>2, <1>3, <1>4
  <2> QED BY <1>1, <1>4, <2>1 DEF HoldsLocks
<1>5. CASE St.op = "READ"
  <2>1. CASE Covered(locks, text, f.at, {"shared", "exclusive"})
    <3>1. held[f.this] # "none"
      BY <1>4, <2>1 DEF Covered
    <3> QED BY <1>5, <3>1 DEF f
  <2> QED BY <1>1, <1>2, <1>3, <1>5, <2>1 DEF Covers
<1>6. CASE St.op = "UPDATE"
  <2>1. Covered(locks, text, f.at, {"exclusive"})
    BY <1>1, <1>2, <1>3, <1>6 DEF Covers
  <2>2. held[f.this] = "exclusive"
    BY <1>4, <2>1 DEF Covered
  <2> QED BY <1>6, <2>2 DEF f
<1> QED BY <1>5, <1>6

\* Where nothing else assigns the variable of a CREATE, a record that others know is read under a lock
\* and written under an exclusive one, on every path of every function the pass has been through
\* (placeLockIfAbsent, the traits, the clones of callees).
THEOREM LocksSuffice == ASSUME ~Reassign PROVE Spec => []Guarded
<1>1. Init => RunInv
  BY InitRuns
<1>2. RunInv /\ [Next]_vars => RunInv'
  BY StepKeeps
<1>3. RunInv => Guarded
  BY RunsGuarded
<1> QED BY <1>1, <1>2, <1>3, PTL DEF Spec

------------------------------------------------------------------------------
\* Induction up to n, as a fact about sets.
LEMMA InductionUpTo ==
  ASSUME NEW n \in Nat, NEW S, 0 \in S, \A i \in 1..n : i - 1 \in S => i \in S
  PROVE 0..n \subseteq S
<1> SUFFICES ASSUME (0..n) \ S # {} PROVE FALSE
  OBVIOUS
<1> DEFINE T == (0..n) \ S
<1>0. T \subseteq Nat /\ T # {}
  OBVIOUS
<1> HIDE DEF T
<1>1. PICK x \in T : \A y \in T : x <= y
  BY <1>0, LeastNat
<1> USE DEF T
<1>2. x # 0 /\ x - 1 \in 0..n /\ x - 1 \in S
  BY <1>1
<1> QED BY <1>1, <1>2

\* A bounded nonempty set of naturals has a greatest element.
LEMMA GreatestNat ==
  ASSUME NEW n \in Nat, NEW T, T \subseteq 0..n, T # {}
  PROVE \E x \in T : \A y \in T : y <= x
<1> DEFINE U == {n - x : x \in T}
<1>1. U \subseteq Nat /\ U # {}
  <2>1. \A x \in T : n - x \in Nat
    OBVIOUS
  <2>2. PICK x \in T : TRUE
    OBVIOUS
  <2>3. n - x \in U
    OBVIOUS
  <2> QED BY <2>1, <2>3
<1> HIDE DEF U
<1>2. PICK u \in U : \A v \in U : u <= v
  BY <1>1, LeastNat
<1> USE DEF U
<1>3. PICK x \in T : u = n - x
  OBVIOUS
<1>4. ASSUME NEW y \in T PROVE y <= x
  <2>1. u <= n - y
    BY <1>2
  <2> QED BY <2>1, <1>3
<1> QED BY <1>4

Iteration(f, n, E, F) == f = [i \in 0..n |-> IF i = 0 THEN E ELSE F[<<f[i - 1], i>>]]

\* A function that is defined by recursion over 0..n exists.
LEMMA Iterates ==
  ASSUME NEW n \in Nat, NEW X, NEW E \in X, NEW F \in [X \X (1..n) -> X]
  PROVE \E f \in [0..n -> X] : Iteration(f, n, E, F)
<1> DEFINE S == {m \in 0..n : \E f \in [0..m -> X] : f[0] = E /\ \A i \in 1..m : f[i] = F[<<f[i - 1], i>>]}
<1>1. 0 \in S
  <2> DEFINE f == [i \in 0..0 |-> E]
  <2>1. f \in [0..0 -> X] /\ f[0] = E
    OBVIOUS
  <2>2. \A i \in 1..0 : f[i] = F[<<f[i - 1], i>>]
    OBVIOUS
  <2> HIDE DEF f
  <2> QED BY <2>1, <2>2
<1>2. ASSUME NEW m \in 1..n, m - 1 \in S PROVE m \in S
  <2>1. PICK f \in [0..(m - 1) -> X] : f[0] = E /\ \A i \in 1..(m - 1) : f[i] = F[<<f[i - 1], i>>]
    BY <1>2
  <2> DEFINE g == [i \in 0..m |-> IF i = m THEN F[<<f[m - 1], m>>] ELSE f[i]]
  <2>2. f[m - 1] \in X /\ F[<<f[m - 1], m>>] \in X
    BY <2>1
  <2>3. g \in [0..m -> X]
    BY <2>2
  <2>4. g[0] = E
    BY <2>1
  <2>5. ASSUME NEW i \in 1..m PROVE g[i] = F[<<g[i - 1], i>>]
    <3>1. g[i - 1] = f[i - 1]
      <4>1. i - 1 \in 0..m /\ i - 1 # m
        OBVIOUS
      <4> QED BY <4>1
    <3>2. CASE i = m
      <4>1. g[m] = F[<<f[m - 1], m>>]
        OBVIOUS
      <4> HIDE DEF g
      <4> QED BY <4>1, <3>1, <3>2
    <3>3. CASE i # m
      <4>1. g[i] = f[i] /\ i \in 1..(m - 1)
        BY <3>3
      <4> HIDE DEF g
      <4> QED BY <4>1, <3>1, <2>1
    <3> QED BY <3>2, <3>3
  <2> HIDE DEF g
  <2> QED BY <2>3, <2>4, <2>5
<1>3. n \in S
  <2> HIDE DEF S
  <2> QED BY <1>1, <1>2, InductionUpTo
<1>4. PICK f \in [0..n -> X] : f[0] = E /\ \A i \in 1..n : f[i] = F[<<f[i - 1], i>>]
  BY <1>3
<1>5. f = [i \in 0..n |-> IF i = 0 THEN E ELSE F[<<f[i - 1], i>>]]
  BY <1>4
<1> QED BY <1>4, <1>5 DEF Iteration
------------------------------------------------------------------------------
(* The text *)

Items == [op : Operations \cup Closers, in : Nat]

\* Every item knows the block that is open before it; what ends a block fits what begins it.
Fitting(i) ==
  /\ In(i) = Current(i - 1)
  /\ Op(i) \in Closers => In(i) # Whole /\ (Op(i) = "ELSE" <=> Op(In(i)) = "IF")

TextOK == statements \in Seq(Items) /\ \A i \in Positions : Fitting(i)

\* The innermost open block is one.
LEMMA CurrentIs ==
  ASSUME NEW n \in Nat
  PROVE /\ Current(n) \in Open(n) /\ Current(n) \in 0..n
        /\ \A b \in Open(n) : b <= Current(n)
<1>1. Open(n) \subseteq 0..n /\ Open(n) # {}
  BY DEF Open, Whole
<1>2. \E b \in Open(n) : \A c \in Open(n) : c <= b
  BY <1>1, GreatestNat
<1> QED BY <1>1, <1>2 DEF Current

\* The parts of a text.
LEMMA TextShape0 ==
  ASSUME TextOK
  PROVE /\ Len(statements) \in Nat /\ Positions = 1..Len(statements)
        /\ \A i \in Positions : Op(i) \in Operations \cup Closers /\ In(i) \in 0..(i - 1)
<1>1. Len(statements) \in Nat /\ Positions = 1..Len(statements)
      /\ \A i \in 1..Len(statements) : statements[i] \in Items
  BY LenProperties, ElementOfSeq DEF TextOK, Positions
<1>2. ASSUME NEW i \in Positions PROVE In(i) \in 0..(i - 1)
  <2>1. i - 1 \in Nat /\ In(i) = Current(i - 1)
    BY <1>1 DEF TextOK, Fitting
  <2> QED BY <2>1, CurrentIs
<1> QED BY <1>1, <1>2 DEF Items, Op

\* A block is ended once, behind its beginning, by what fits it.
LEMMA EndsOfBlocks ==
  ASSUME TextOK, NEW j \in Positions, Op(j) \in Closers
  PROVE /\ In(j) \in 1..(j - 1) /\ In(j) \in Positions /\ Op(In(j)) \in Openers
        /\ \A k \in Positions : Op(k) \in Closers /\ In(k) = In(j) => k = j
        /\ End(In(j)) = j
        /\ Op(j) = "ELSE" <=> Op(In(j)) = "IF"
        /\ Op(j) = "END" <=> EndsIf(j) \/ EndsLoop(j)
<1> DEFINE N == Len(statements)
<1>1. N \in Nat /\ Positions = 1..N /\ \A i \in Positions : In(i) \in 0..(i - 1)
  BY TextShape0
<1>2. \A i \in Positions : Op(i) \in Closers =>
        In(i) \in Open(i - 1) /\ In(i) # Whole /\ (Op(i) = "ELSE" <=> Op(In(i)) = "IF")
  BY <1>1, CurrentIs DEF TextOK, Fitting
<1> HIDE DEF N
<1>3. \A i \in Positions : Op(i) \in Closers =>
        In(i) \in 1..(i - 1) /\ Op(In(i)) \in Openers
        /\ \A k \in 1..(i - 1) : Op(k) \in Closers => In(k) # In(i)
  BY <1>1, <1>2 DEF Open
<1>4. \A k \in Positions : Op(k) \in Closers /\ In(k) = In(j) => k = j
  <2> SUFFICES ASSUME NEW k \in Positions, Op(k) \in Closers, In(k) = In(j), k # j PROVE FALSE
    OBVIOUS
  <2>1. k \in 1..(j - 1) \/ j \in 1..(k - 1)
    BY <1>1
  <2> QED BY <2>1, <1>3
<1>5. End(In(j)) = j
  BY <1>4 DEF End
<1>6. Op(j) = "END" <=> EndsIf(j) \/ EndsLoop(j)
  BY <1>2, <1>3 DEF EndsIf, EndsLoop, Openers, Closers, Loops
<1> QED BY <1>1, <1>2, <1>3, <1>4, <1>5, <1>6

\* In a complete text every block has its end.
LEMMA BlocksEnd ==
  ASSUME TextOK, Complete, NEW b \in Positions, Op(b) \in Openers
  PROVE /\ End(b) \in (b + 1)..Len(statements) /\ End(b) \in Positions
        /\ Op(End(b)) \in Closers /\ In(End(b)) = b
        /\ Op(b) = "IF" <=> Op(End(b)) = "ELSE"
        /\ Op(b) = "IF" => EndsIf(End(End(b))) /\ In(End(End(b))) = End(b)
                           /\ End(End(b)) \in (End(b) + 1)..Len(statements) /\ End(End(b)) \in Positions
        /\ Op(b) = "ELSE" => EndsIf(End(b))
        /\ Op(b) \in Loops => EndsLoop(End(b))
<1> DEFINE N == Len(statements)
<1>1. N \in Nat /\ Positions = 1..N
  BY TextShape0
<1>2. \A c \in Open(N) : c = 0
  BY <1>1, CurrentIs DEF Complete, Open, Whole
<1>3. ASSUME NEW c \in Positions, Op(c) \in Openers
      PROVE /\ End(c) \in (c + 1)..N /\ End(c) \in Positions /\ Op(End(c)) \in Closers /\ In(End(c)) = c
            /\ Op(c) = "IF" <=> Op(End(c)) = "ELSE"
            /\ Op(c) = "ELSE" => EndsIf(End(c))
            /\ Op(c) \in Loops => EndsLoop(End(c))
  <2>1. \E j \in 1..N : Op(j) \in Closers /\ In(j) = c
    BY <1>1, <1>2, <1>3 DEF Open
  <2>2. End(c) \in Positions /\ Op(End(c)) \in Closers /\ In(End(c)) = c
    BY <2>1, <1>1 DEF End
  <2>3. c \in 1..(End(c) - 1) /\ (Op(End(c)) = "ELSE" <=> Op(c) = "IF")
    BY <2>2, EndsOfBlocks
  <2>4. End(c) \in (c + 1)..N
    BY <2>2, <2>3, <1>1
  <2> QED BY <2>2, <2>3, <2>4, <1>3 DEF EndsIf, EndsLoop, Closers, Loops
<1> HIDE DEF N
<1>4. ASSUME Op(b) = "IF"
      PROVE EndsIf(End(End(b))) /\ In(End(End(b))) = End(b)
            /\ End(End(b)) \in (End(b) + 1)..N /\ End(End(b)) \in Positions
  <2>1. Op(End(b)) = "ELSE" /\ End(b) \in Positions
    BY <1>3, <1>4
  <2> QED BY <2>1, <1>3 DEF Openers
<1> QED BY <1>3, <1>4 DEF N

\* What is written stays as it is.
LEMMA PutKeepsText ==
  ASSUME TextOK, NEW op \in Operations \cup Closers, Put(op),
         op \in Closers => Current(Len(statements)) # Whole
                           /\ (op = "ELSE" <=> Op(Current(Len(statements))) = "IF")
  PROVE TextOK'
<1>0. PICK N \in Nat : N = Len(statements)
  BY TextShape0
<1> DEFINE item == [op |-> op, in |-> Current(N)]
<1>1. N \in Nat /\ Positions = 1..N
  BY <1>0, TextShape0
<1>2. Current(N) \in 0..N
  BY <1>1, CurrentIs
<1>3. item \in Items
  BY <1>1, <1>2 DEF Items
<1>4. /\ statements' \in Seq(Items) /\ Len(statements') = N + 1
      /\ \A i \in 1..N : statements'[i] = statements[i]
      /\ statements'[N + 1] = item
  BY <1>0, <1>1, <1>3, AppendProperties DEF Put, TextOK
<1>5. Positions' = 1..(N + 1)
  BY <1>4, LenProperties DEF Positions
<1>6. \A i \in 1..N : Op(i)' = Op(i) /\ In(i)' = In(i)
  BY <1>4 DEF Op, In
<1>7. Op(N + 1)' = op /\ In(N + 1)' = Current(N)
  BY <1>4 DEF Op, In, item
<1> HIDE DEF item
<1>8. ASSUME NEW n \in 0..N PROVE Current(n)' = Current(n)
  <2>1. \A i \in 1..n : Op(i)' = Op(i) /\ In(i)' = In(i)
    BY <1>1, <1>6
  <2>2. Open(n)' = Open(n)
    BY <2>1 DEF Open
  <2> QED BY <2>2 DEF Current
<1>9. ASSUME NEW i \in 1..N PROVE Fitting(i)'
  <2>1. Fitting(i) /\ i - 1 \in 0..N
    BY <1>1 DEF TextOK
  <2>2. Op(i) \in Closers => In(i) \in 1..N
    BY <1>1, EndsOfBlocks
  <2>3. Current(i - 1)' = Current(i - 1)
    BY <2>1, <1>8
  <2>4. Op(i) \in Closers => Op(In(i))' = Op(In(i))
    BY <2>2, <1>6 DEF Op
  <2>5. In(i)' = In(i) /\ Op(i)' = Op(i)
    BY <1>6
  <2>6. Op(i) \in Closers => Op(In(i))' = Op(In(i)) /\ (Op(In(i)))' = Op(In(i))
    BY <2>2, <2>5, <1>6 DEF Op
  <2> QED BY <2>1, <2>3, <2>5, <2>6 DEF Fitting
<1>10. Fitting(N + 1)'
  <2>1. Current(N)' = Current(N)
    BY <1>1, <1>8
  <2>2. In(N + 1)' = Current(N + 1 - 1)'
    BY <1>1, <1>7, <2>1
  <2>3. op \in Closers => Current(N) \in 1..N
    BY <1>0, <1>2 DEF Whole
  <2>4. op \in Closers => Op(In(N + 1))' = Op(Current(N))
    BY <2>3, <1>6, <1>7 DEF Op
  <2> QED BY <1>0, <2>2, <2>4, <1>7 DEF Fitting
<1> QED BY <1>1, <1>4, <1>5, <1>9, <1>10 DEF TextOK

\* The builder keeps the text as it should be.
LEMMA WriteKeepsText ==
  ASSUME TextOK, (\E op \in Operations : PutStatement(op)) \/ EndBlock
  PROVE TextOK'
<1>1. ASSUME NEW op \in Operations, PutStatement(op) PROVE TextOK'
  <2>1. op \notin Closers
    BY StatementsAssumption DEF Loops, Closers
  <2> QED BY <1>1, <2>1, PutKeepsText DEF PutStatement
<1>2. CASE EndBlock
  <2> DEFINE b == Current(Len(statements))
             op == IF Op(b) = "IF" THEN "ELSE" ELSE "END"
  <2>1. op \in Operations \cup Closers /\ b # Whole /\ Put(op) /\ (op = "ELSE" <=> Op(b) = "IF")
    BY <1>2 DEF EndBlock, Closers
  <2> QED BY <2>1, PutKeepsText
<1> QED BY <1>1, <1>2

\* No text at all is one.
LEMMA BlankText == ASSUME Blank PROVE TextOK
<1>1. statements = <<>>
  BY DEF Blank
<1> QED BY <1>1 DEF TextOK, Positions
------------------------------------------------------------------------------
(* The generator's state *)

Points == {Do(i) : i \in Positions} \cup {Iter(i) : i \in Positions}

Instructions ==
  {Exec(p) : p \in Points} \cup {Br(to) : to \in Nat} \cup {StoreFalse, Ret}
  \cup {CondBr(p, yes, no) : p \in Points, yes \in Nat, no \in Nat}

GStates ==
  [code : Seq(Seq(Instructions)), at : Nat, begun : [Positions -> [to : Nat, after : Nat]]]

\* The parts of a state of the generator.
LEMMA CodeParts ==
  ASSUME NEW g \in GStates
  PROVE /\ g.code \in Seq(Seq(Instructions)) /\ g.at \in Nat
        /\ Len(g.code) \in Nat /\ DOMAIN g.code = 1..Len(g.code)
        /\ \A b \in 1..Len(g.code) : g.code[b] \in Seq(Instructions)
        /\ g.begun \in [Positions -> [to : Nat, after : Nat]]
<1>1. g.code \in Seq(Seq(Instructions)) /\ g.begun \in [Positions -> [to : Nat, after : Nat]] /\ g.at \in Nat
  BY DEF GStates
<1> QED BY <1>1, LenProperties, ElementOfSeq

\* What Emit does.
LEMMA EmitIs ==
  ASSUME NEW g \in GStates, NEW x \in Instructions
  PROVE /\ Emit(g, x) \in GStates
        /\ Emit(g, x).at = g.at /\ Emit(g, x).begun = g.begun
        /\ Len(Emit(g, x).code) = Len(g.code)
        /\ \A b \in 1..Len(g.code) :
             Emit(g, x).code[b] = IF b = g.at THEN Append(g.code[b], x) ELSE g.code[b]
<1> DEFINE c == [g.code EXCEPT ![g.at] = Append(@, x)]
           h == Emit(g, x)
<1>1. g.code \in Seq(Seq(Instructions)) /\ Len(g.code) \in Nat /\ DOMAIN g.code = 1..Len(g.code)
      /\ \A b \in 1..Len(g.code) : g.code[b] \in Seq(Instructions)
  BY CodeParts
<1>2. h.code = c /\ h.at = g.at /\ h.begun = g.begun /\ h = [g EXCEPT !.code = c]
  BY DEF Emit, GStates
<1>3. \A b \in 1..Len(g.code) : c[b] = IF b = g.at THEN Append(g.code[b], x) ELSE g.code[b]
  BY <1>1
<1>4. \A b \in 1..Len(g.code) : c[b] \in Seq(Instructions)
  BY <1>1, <1>3, AppendProperties
<1>5. c \in Seq(Seq(Instructions)) /\ Len(c) = Len(g.code)
  <2>1. CASE g.at \in 1..Len(g.code)
    <3>1. Append(g.code[g.at], x) \in Seq(Instructions)
      BY <1>1, <2>1, AppendProperties
    <3>2. c = [g.code EXCEPT ![g.at] = Append(g.code[g.at], x)]
      OBVIOUS
    <3> QED BY <3>1, <3>2, <2>1, <1>1, ExceptSeq
  <2>2. CASE g.at \notin 1..Len(g.code)
    <3>1. c = g.code
      BY <2>2, <1>1
    <3> QED BY <3>1, <1>1
  <2> QED BY <2>1, <2>2
<1> HIDE DEF c
<1> QED BY <1>2, <1>3, <1>5 DEF GStates

\* What NewBlocks does.
LEMMA NewBlocksIs ==
  ASSUME NEW g \in GStates, NEW n \in Nat
  PROVE /\ NewBlocks(g, n) \in GStates
        /\ NewBlocks(g, n).at = g.at /\ NewBlocks(g, n).begun = g.begun
        /\ Len(NewBlocks(g, n).code) = Len(g.code) + n
        /\ \A b \in 1..(Len(g.code) + n) :
             NewBlocks(g, n).code[b] = IF b <= Len(g.code) THEN g.code[b] ELSE <<>>
<1> DEFINE new == [k \in 1..n |-> <<>>]
           c == g.code \o new
           h == NewBlocks(g, n)
<1>1. g.code \in Seq(Seq(Instructions)) /\ Len(g.code) \in Nat
  BY CodeParts
<1>2. h.code = c /\ h.at = g.at /\ h.begun = g.begun /\ h = [g EXCEPT !.code = c]
  BY DEF NewBlocks, GStates
<1>3. new \in Seq(Seq(Instructions)) /\ Len(new) = n
  <2>1. <<>> \in Seq(Instructions)
    OBVIOUS
  <2>2. new \in Seq(Seq(Instructions))
    BY <2>1, IsASeq
  <2>3. DOMAIN new = 1..n
    OBVIOUS
  <2> QED BY <2>2, <2>3, LenProperties
<1>4. \A k \in 1..n : new[k] = <<>>
  OBVIOUS
<1> HIDE DEF new
<1>5. c \in Seq(Seq(Instructions)) /\ Len(c) = Len(g.code) + n
      /\ \A b \in 1..(Len(g.code) + n) : c[b] = IF b <= Len(g.code) THEN g.code[b] ELSE new[b - Len(g.code)]
  BY <1>1, <1>3, ConcatProperties
<1>6. \A b \in 1..(Len(g.code) + n) : c[b] = IF b <= Len(g.code) THEN g.code[b] ELSE <<>>
  <2> TAKE b \in 1..(Len(g.code) + n)
  <2>1. b > Len(g.code) => b - Len(g.code) \in 1..n
    BY <1>1
  <2> QED BY <2>1, <1>1, <1>4, <1>5
<1> HIDE DEF c
<1> QED BY <1>2, <1>5, <1>6 DEF GStates

\* What SetInsertPoint does.
LEMMA SetInsertPointIs ==
  ASSUME NEW g \in GStates, NEW b \in Nat
  PROVE /\ SetInsertPoint(g, b) \in GStates /\ SetInsertPoint(g, b).at = b
        /\ SetInsertPoint(g, b).code = g.code /\ SetInsertPoint(g, b).begun = g.begun
BY DEF SetInsertPoint, GStates

\* What a generator has noted of the statement at i, and nothing else.
Notes(g, h, i, to, after) ==
  /\ h \in GStates /\ h.at = g.at /\ h.code = g.code
  /\ h.begun[i].to = to /\ h.begun[i].after = after
  /\ \A k \in Positions : k # i => h.begun[k] = g.begun[k]

\* What Begin does.
LEMMA BeginIs ==
  ASSUME NEW g \in GStates, NEW i \in Positions, NEW to \in Nat, NEW after \in Nat
  PROVE Notes(g, Begin(g, i, to, after), i, to, after)
<1> DEFINE r == [to |-> to, after |-> after]
           f == [g.begun EXCEPT ![i] = r]
           h == Begin(g, i, to, after)
<1>1. r \in [to : Nat, after : Nat] /\ r.to = to /\ r.after = after
  OBVIOUS
<1>2. h = [g EXCEPT !.begun = f]
  BY DEF Begin, GStates
<1> HIDE DEF r
<1>3. g.begun \in [Positions -> [to : Nat, after : Nat]]
  BY CodeParts
<1>4. f \in [Positions -> [to : Nat, after : Nat]] /\ f[i] = r /\ \A k \in Positions : k # i => f[k] = g.begun[k]
  BY <1>1, <1>3
<1> HIDE DEF f, h
<1>5. h \in GStates /\ h.at = g.at /\ h.code = g.code /\ h.begun = f
  BY <1>2, <1>4 DEF GStates
<1>6. h.begun[i].to = to /\ h.begun[i].after = after /\ \A k \in Positions : k # i => h.begun[k] = g.begun[k]
  BY <1>1, <1>4, <1>5
<1>7. Notes(g, h, i, to, after)
  BY <1>5, <1>6 DEF Notes
<1> QED BY <1>7 DEF h

\* The instructions.
LEMMA InstructionsAre ==
  /\ \A p \in Points : Exec(p) \in Instructions
  /\ \A to \in Nat : Br(to) \in Instructions
  /\ \A p \in Points : \A yes, no \in Nat : CondBr(p, yes, no) \in Instructions
  /\ StoreFalse \in Instructions /\ Ret \in Instructions
  /\ \A i \in Positions : Do(i) \in Points /\ Iter(i) \in Points
BY DEF Instructions, Points

\* The generator before the first statement.
LEMMA StartIs ==
  /\ Start \in GStates /\ Start.at = Entry /\ Len(Start.code) = 2
  /\ Start.code[1] = <<>> /\ Start.code[2] = <<>>
<1> DEFINE c == <<<<>>, <<>>>>
           f == [i \in Positions |-> [to |-> 0, after |-> 0]]
<1>1. c \in Seq(Seq(Instructions)) /\ Len(c) = 2 /\ c[1] = <<>> /\ c[2] = <<>>
  <2>1. <<>> \in Seq(Instructions)
    OBVIOUS
  <2> QED BY <2>1
<1>2. f \in [Positions -> [to : Nat, after : Nat]]
  OBVIOUS
<1>3. Start = [code |-> c, at |-> Entry, begun |-> f] /\ Entry \in Nat
  BY DEF Start, Entry
<1> HIDE DEF c, f
<1>4. Start \in GStates /\ Start.at = Entry /\ Start.code = c
  BY <1>1, <1>2, <1>3 DEF GStates
<1> QED BY <1>1, <1>4

\* Generators only add: blocks, and instructions at the end of blocks.
Grows(g, h) ==
  /\ h \in GStates
  /\ Len(h.code) >= Len(g.code)
  /\ \A b \in 1..Len(g.code) :
       /\ Len(h.code[b]) >= Len(g.code[b])
       /\ \A k \in 1..Len(g.code[b]) : h.code[b][k] = g.code[b][k]

\* Grows is transitive,
LEMMA GrowsOn ==
  ASSUME NEW g \in GStates, NEW h \in GStates, NEW f, Grows(g, h), Grows(h, f)
  PROVE Grows(g, f)
<1>1. /\ Len(g.code) \in Nat /\ Len(h.code) \in Nat /\ Len(f.code) \in Nat
      /\ \A b \in 1..Len(g.code) : Len(g.code[b]) \in Nat
      /\ \A b \in 1..Len(h.code) : Len(h.code[b]) \in Nat
      /\ \A b \in 1..Len(f.code) : Len(f.code[b]) \in Nat
  BY CodeParts, LenProperties DEF Grows
<1>2. ASSUME NEW b \in 1..Len(g.code)
      PROVE Len(f.code[b]) >= Len(g.code[b]) /\ \A k \in 1..Len(g.code[b]) : f.code[b][k] = g.code[b][k]
  <2>1. b \in 1..Len(h.code) /\ b \in 1..Len(f.code)
    BY <1>1 DEF Grows
  <2>2. Len(f.code[b]) >= Len(h.code[b]) /\ Len(h.code[b]) >= Len(g.code[b])
    BY <2>1 DEF Grows
  <2>3. \A k \in 1..Len(g.code[b]) : k \in 1..Len(h.code[b]) /\ h.code[b][k] = g.code[b][k]
    BY <2>1, <2>2, <1>1 DEF Grows
  <2> QED BY <2>1, <2>2, <2>3, <1>1 DEF Grows
<1> QED BY <1>1, <1>2 DEF Grows

\* and reflexive.
LEMMA SelfGrows == ASSUME NEW g \in GStates PROVE Grows(g, g)
<1>1. Len(g.code) \in Nat /\ \A b \in 1..Len(g.code) : Len(g.code[b]) \in Nat
  BY CodeParts, LenProperties
<1> QED BY <1>1 DEF Grows

\* An instruction more,
LEMMA EmitGrows ==
  ASSUME NEW g \in GStates, NEW x \in Instructions
  PROVE Grows(g, Emit(g, x))
<1> DEFINE h == Emit(g, x)
<1>1. Len(g.code) \in Nat /\ \A b \in 1..Len(g.code) : g.code[b] \in Seq(Instructions) /\ Len(g.code[b]) \in Nat
  BY CodeParts, LenProperties
<1>2. h \in GStates /\ Len(h.code) = Len(g.code)
      /\ \A b \in 1..Len(g.code) : h.code[b] = IF b = g.at THEN Append(g.code[b], x) ELSE g.code[b]
  BY EmitIs
<1> HIDE DEF h
<1>3. ASSUME NEW b \in 1..Len(g.code)
      PROVE Len(h.code[b]) >= Len(g.code[b]) /\ \A k \in 1..Len(g.code[b]) : h.code[b][k] = g.code[b][k]
  <2>1. Len(Append(g.code[b], x)) = Len(g.code[b]) + 1
        /\ \A k \in 1..Len(g.code[b]) : Append(g.code[b], x)[k] = g.code[b][k]
    BY <1>1, AppendProperties
  <2>2. CASE b = g.at
    <3>1. h.code[b] = Append(g.code[b], x)
      BY <2>2, <1>2
    <3> QED BY <3>1, <2>1, <1>1
  <2>3. CASE b # g.at
    <3>1. h.code[b] = g.code[b]
      BY <2>3, <1>2
    <3> QED BY <3>1, <1>1
  <2> QED BY <2>2, <2>3
<1> QED BY <1>1, <1>2, <1>3 DEF Grows, h

\* blocks more,
LEMMA NewBlocksGrows ==
  ASSUME NEW g \in GStates, NEW n \in Nat
  PROVE Grows(g, NewBlocks(g, n))
<1>1. Len(g.code) \in Nat /\ \A b \in 1..Len(g.code) : Len(g.code[b]) \in Nat
  BY CodeParts, LenProperties
<1>2. /\ NewBlocks(g, n) \in GStates /\ Len(NewBlocks(g, n).code) = Len(g.code) + n
      /\ \A b \in 1..Len(g.code) : NewBlocks(g, n).code[b] = g.code[b]
  BY <1>1, NewBlocksIs
<1> QED BY <1>1, <1>2 DEF Grows

\* another insertion point,
LEMMA SetInsertPointGrows ==
  ASSUME NEW g \in GStates, NEW b \in Nat
  PROVE Grows(g, SetInsertPoint(g, b))
BY SetInsertPointIs, SelfGrows DEF Grows

\* and what is noted of a statement.
LEMMA BeginGrows ==
  ASSUME NEW g \in GStates, NEW i \in Positions, NEW to \in Nat, NEW after \in Nat
  PROVE Grows(g, Begin(g, i, to, after))
<1> DEFINE h == Begin(g, i, to, after)
<1>1. h \in GStates /\ h.code = g.code
  BY BeginIs DEF Notes
<1> HIDE DEF h
<1>2. Grows(g, h)
  BY <1>1, SelfGrows DEF Grows
<1> QED BY <1>2 DEF h

\* What a generator has begun of an item's statement.
LEMMA BegunIs ==
  ASSUME NEW g \in GStates, NEW i \in Positions
  PROVE g.begun[i].to \in Nat /\ g.begun[i].after \in Nat
BY CodeParts

\* closeCase and closeElseCase only add.
LEMMA CloseGrows ==
  ASSUME NEW g \in GStates, NEW after \in Nat
  PROVE /\ CloseCase(g, after) \in GStates /\ Grows(g, CloseCase(g, after))
        /\ CloseElseCase(g, after) \in GStates /\ Grows(g, CloseElseCase(g, after))
<1>1. Emit(g, Br(after)) \in GStates /\ Grows(g, Emit(g, Br(after)))
  BY InstructionsAre, EmitIs, EmitGrows
<1>2. SetInsertPoint(Emit(g, Br(after)), after) \in GStates
      /\ Grows(Emit(g, Br(after)), SetInsertPoint(Emit(g, Br(after)), after))
  BY <1>1, SetInsertPointIs, SetInsertPointGrows
<1>3. Grows(g, SetInsertPoint(Emit(g, Br(after)), after))
  BY <1>1, <1>2, GrowsOn
<1> QED BY <1>1, <1>2, <1>3, SelfGrows DEF CloseCase, CloseElseCase

\* gen_conditional_abort only adds.
LEMMA AbortGrows ==
  ASSUME NEW g \in GStates, NEW p \in Points
  PROVE ConditionalAbort(g, p) \in GStates /\ Grows(g, ConditionalAbort(g, p))
<1> DEFINE n == Len(g.code)
           g1 == NewBlocks(g, 3)
           g2 == Emit(g1, CondBr(p, n + 2, n + 1))
           g3 == SetInsertPoint(g2, n + 1)
           g4 == Emit(g3, StoreFalse)
           g5 == Emit(g4, Br(ReturnBlock))
           g6 == SetInsertPoint(g5, n + 2)
           g7 == CloseElseCase(g6, n + 3)
<1>0. n \in Nat /\ n + 1 \in Nat /\ n + 2 \in Nat /\ n + 3 \in Nat
  BY CodeParts
<1>1. g1 \in GStates /\ Grows(g, g1)
  BY NewBlocksIs, NewBlocksGrows
<1>2. CondBr(p, n + 2, n + 1) \in Instructions /\ StoreFalse \in Instructions /\ Br(ReturnBlock) \in Instructions
  BY <1>0, InstructionsAre DEF ReturnBlock
<1> HIDE DEF g1
<1>3. g2 \in GStates /\ Grows(g, g2)
  BY <1>1, <1>2, EmitIs, EmitGrows, GrowsOn
<1> HIDE DEF g2
<1>4. g3 \in GStates /\ Grows(g, g3)
  <2>1. g3 \in GStates /\ Grows(g2, g3)
    BY <1>0, <1>3, SetInsertPointIs, SetInsertPointGrows
  <2> QED BY <2>1, <1>3, GrowsOn
<1> HIDE DEF g3
<1>5. g4 \in GStates /\ Grows(g, g4)
  BY <1>4, <1>2, EmitIs, EmitGrows, GrowsOn
<1> HIDE DEF g4
<1>6. g5 \in GStates /\ Grows(g, g5)
  BY <1>5, <1>2, EmitIs, EmitGrows, GrowsOn
<1> HIDE DEF g5
<1>7. g6 \in GStates /\ Grows(g, g6)
  <2>1. g6 \in GStates /\ Grows(g5, g6)
    BY <1>0, <1>6, SetInsertPointIs, SetInsertPointGrows
  <2> QED BY <2>1, <1>6, GrowsOn
<1> HIDE DEF g6
<1>8. g7 \in GStates /\ Grows(g, g7)
  <2>1. g7 \in GStates /\ Grows(g6, g7)
    BY <1>0, <1>7, CloseGrows
  <2> QED BY <2>1, <1>7, GrowsOn
<1>9. ConditionalAbort(g, p) = g7
  BY DEF ConditionalAbort, g1, g2, g3, g4, g5, g6
<1> QED BY <1>8, <1>9

\* So do the begins of statements with blocks,
LEMMA BeginsGrow ==
  ASSUME NEW g \in GStates, NEW i \in Positions
  PROVE /\ BeginIf(g, i) \in GStates /\ Grows(g, BeginIf(g, i))
        /\ BeginDo(g, i) \in GStates /\ Grows(g, BeginDo(g, i))
        /\ BeginLoop(g, i) \in GStates /\ Grows(g, BeginLoop(g, i))
<1> DEFINE n == Len(g.code)
<1>1. n \in Nat
  BY CodeParts
<1> HIDE DEF n
<1>2. Following(i, n + 2) \in Nat /\ Following(i, n + 3) \in Nat
  BY <1>1 DEF Following, ReturnBlock
<1>3. /\ Br(n + 1) \in Instructions /\ CondBr(Do(i), n + 1, n + 2) \in Instructions
      /\ CondBr(Do(i), n + 2, Following(i, n + 3)) \in Instructions
  BY <1>1, <1>2, InstructionsAre
<1>4. ASSUME NEW m \in {1, 2, 3}, NEW x \in Instructions
      PROVE Emit(NewBlocks(g, m), x) \in GStates /\ Grows(g, Emit(NewBlocks(g, m), x))
  <2>1. NewBlocks(g, m) \in GStates /\ Grows(g, NewBlocks(g, m))
    BY NewBlocksIs, NewBlocksGrows
  <2> QED BY <2>1, EmitIs, EmitGrows, GrowsOn
<1>5. ASSUME NEW f \in GStates, Grows(g, f), NEW to \in Nat, NEW after \in Nat, NEW b \in Nat
      PROVE SetInsertPoint(Begin(f, i, to, after), b) \in GStates
            /\ Grows(g, SetInsertPoint(Begin(f, i, to, after), b))
  <2>1. Begin(f, i, to, after) \in GStates /\ Grows(g, Begin(f, i, to, after))
    BY <1>5, BeginIs, BeginGrows, GrowsOn DEF Notes
  <2> QED BY <2>1, SetInsertPointIs, SetInsertPointGrows, GrowsOn
<1>6. BeginIf(g, i) \in GStates /\ Grows(g, BeginIf(g, i))
  <2> DEFINE f == Emit(NewBlocks(g, IF IsLast(i) THEN 2 ELSE 3), CondBr(Do(i), n + 1, n + 2))
  <2>1. f \in GStates /\ Grows(g, f)
    BY <1>3, <1>4
  <2> HIDE DEF f
  <2>2. BeginIf(g, i) = SetInsertPoint(Begin(f, i, n + 2, Following(i, n + 3)), n + 1)
    BY DEF BeginIf, f, n
  <2> QED BY <2>1, <2>2, <1>1, <1>2, <1>5
<1>7. BeginDo(g, i) \in GStates /\ Grows(g, BeginDo(g, i))
  <2> DEFINE f == Emit(NewBlocks(g, IF IsLast(i) THEN 1 ELSE 2), Br(n + 1))
  <2>1. f \in GStates /\ Grows(g, f)
    BY <1>3, <1>4
  <2> HIDE DEF f
  <2>2. BeginDo(g, i) = SetInsertPoint(Begin(f, i, n + 1, Following(i, n + 2)), n + 1)
    BY DEF BeginDo, f, n
  <2>3. n + 1 \in Nat
    BY <1>1
  <2> QED BY <2>1, <2>2, <2>3, <1>2, <1>5
<1>8. BeginLoop(g, i) \in GStates /\ Grows(g, BeginLoop(g, i))
  <2> DEFINE f == Emit(NewBlocks(g, IF IsLast(i) THEN 2 ELSE 3), Br(n + 1))
             e == SetInsertPoint(f, n + 1)
             c == Emit(e, CondBr(Do(i), n + 2, Following(i, n + 3)))
  <2>1. f \in GStates /\ Grows(g, f)
    BY <1>3, <1>4
  <2> HIDE DEF f
  <2>2. e \in GStates /\ Grows(g, e)
    BY <2>1, <1>1, SetInsertPointIs, SetInsertPointGrows, GrowsOn
  <2> HIDE DEF e
  <2>3. c \in GStates /\ Grows(g, c)
    BY <2>2, <1>3, EmitIs, EmitGrows, GrowsOn
  <2> HIDE DEF c
  <2>4. BeginLoop(g, i) = SetInsertPoint(Begin(c, i, n + 1, Following(i, n + 3)), n + 2)
    BY DEF BeginLoop, f, e, c, n
  <2> QED BY <2>3, <2>4, <1>1, <1>2, <1>5
<1> QED BY <1>6, <1>7, <1>8

\* and the ends of their blocks.
LEMMA EndsGrow ==
  ASSUME NEW g \in GStates, NEW i \in Positions
  PROVE /\ In(i) \in Positions =>
             /\ BeginElse(g, i) \in GStates /\ Grows(g, BeginElse(g, i))
             /\ EndDo(g, i) \in GStates /\ Grows(g, EndDo(g, i))
             /\ EndLoop(g, i) \in GStates /\ Grows(g, EndLoop(g, i))
        /\ In(i) \in Positions /\ In(In(i)) \in Positions =>
             EndIf(g, i) \in GStates /\ Grows(g, EndIf(g, i))
<1>1. ASSUME NEW f \in GStates, Grows(g, f), NEW x \in Instructions, NEW b \in Nat
      PROVE SetInsertPoint(Emit(f, x), b) \in GStates /\ Grows(g, SetInsertPoint(Emit(f, x), b))
  <2>1. Emit(f, x) \in GStates /\ Grows(g, Emit(f, x))
    BY <1>1, EmitIs, EmitGrows, GrowsOn
  <2> QED BY <2>1, SetInsertPointIs, SetInsertPointGrows, GrowsOn
<1>2. ASSUME In(i) \in Positions
      PROVE /\ BeginElse(g, i) \in GStates /\ Grows(g, BeginElse(g, i))
            /\ EndDo(g, i) \in GStates /\ Grows(g, EndDo(g, i))
            /\ EndLoop(g, i) \in GStates /\ Grows(g, EndLoop(g, i))
  <2> DEFINE to == g.begun[In(i)].to
             after == g.begun[In(i)].after
  <2>1. to \in Nat /\ after \in Nat
    BY <1>2, BegunIs
  <2> HIDE DEF to, after
  <2>2. /\ Br(to) \in Instructions /\ CondBr(Do(In(i)), to, after) \in Instructions
        /\ Exec(Iter(In(i))) \in Instructions
    BY <1>2, <2>1, InstructionsAre
  <2>3. BeginElse(g, i) \in GStates /\ Grows(g, BeginElse(g, i))
    <3>1. BeginElse(g, i) = SetInsertPoint(CloseCase(g, after), to)
      BY DEF BeginElse, to, after
    <3>2. CloseCase(g, after) \in GStates /\ Grows(g, CloseCase(g, after))
      BY <2>1, CloseGrows
    <3> QED BY <3>1, <3>2, <2>1, SetInsertPointIs, SetInsertPointGrows, GrowsOn
  <2>4. EndDo(g, i) \in GStates /\ Grows(g, EndDo(g, i))
    <3>1. EndDo(g, i) = SetInsertPoint(Emit(g, CondBr(Do(In(i)), to, after)), after)
      BY DEF EndDo, to, after
    <3> QED BY <3>1, <2>1, <2>2, <1>1, SelfGrows
  <2>5. EndLoop(g, i) \in GStates /\ Grows(g, EndLoop(g, i))
    <3> DEFINE f == IF Op(In(i)) = "FOR" THEN Emit(g, Exec(Iter(In(i)))) ELSE g
    <3>1. f \in GStates /\ Grows(g, f)
      BY <2>2, EmitIs, EmitGrows, SelfGrows
    <3> HIDE DEF f
    <3>2. EndLoop(g, i) = SetInsertPoint(Emit(f, Br(to)), after)
      BY DEF EndLoop, to, after, f
    <3> QED BY <3>1, <3>2, <2>1, <2>2, <1>1
  <2> QED BY <2>3, <2>4, <2>5
<1>3. ASSUME In(i) \in Positions, In(In(i)) \in Positions
      PROVE EndIf(g, i) \in GStates /\ Grows(g, EndIf(g, i))
  BY <1>3, BegunIs, CloseGrows DEF EndIf
<1> QED BY <1>2, <1>3

\* The items there are, as Build tells them apart.
LEMMA ItemsAre ==
  ASSUME TextOK, NEW i \in Positions
  PROVE /\ \/ Op(i) \in {"PLAIN", "CHECK", "YIELD", "IF", "DO", "WHILE", "FOR"} /\ ~EndsIf(i) /\ ~EndsLoop(i)
           \/ Op(i) = "ELSE" /\ ~EndsIf(i) /\ ~EndsLoop(i)
           \/ Op(i) = "END" /\ EndsIf(i) /\ ~EndsLoop(i)
           \/ Op(i) = "END" /\ ~EndsIf(i) /\ EndsLoop(i)
        /\ Op(i) \in Closers => In(i) \in Positions /\ In(i) < i
        /\ Op(i) = "ELSE" => Op(In(i)) = "IF"
        /\ EndsIf(i) => In(In(i)) \in Positions /\ Op(In(In(i))) = "IF" /\ Op(In(i)) = "ELSE"
                        /\ In(In(i)) < In(i)
        /\ EndsLoop(i) => Op(In(i)) \in Loops
<1>1. Op(i) \in Operations \cup Closers
  BY TextShape0
<1>2. Op(i) \in Loops \cup {"PLAIN", "CHECK", "YIELD", "IF", "ELSE", "END"}
  BY <1>1, StatementsAssumption DEF Closers
<1>3. Op(i) \in Closers => In(i) \in 1..(i - 1) /\ In(i) \in Positions
                           /\ (Op(i) = "END" <=> EndsIf(i) \/ EndsLoop(i)) /\ (Op(i) = "ELSE" <=> Op(In(i)) = "IF")
  BY EndsOfBlocks
<1>4. ~(EndsIf(i) /\ EndsLoop(i))
  BY DEF EndsIf, EndsLoop, Loops
<1>5. i \in Nat
  BY TextShape0
<1>6. EndsIf(i) => In(In(i)) \in Positions /\ Op(In(In(i))) = "IF" /\ Op(In(i)) = "ELSE" /\ In(In(i)) < In(i)
  <2> SUFFICES ASSUME EndsIf(i) PROVE In(In(i)) \in Positions /\ Op(In(In(i))) = "IF" /\ In(In(i)) < In(i)
    BY DEF EndsIf
  <2>1. In(i) \in Positions /\ Op(In(i)) = "ELSE"
    BY <1>3 DEF EndsIf, Closers
  <2>2. In(In(i)) \in 1..(In(i) - 1) /\ In(In(i)) \in Positions /\ Op(In(In(i))) = "IF"
    BY <2>1, EndsOfBlocks DEF Closers
  <2>3. In(i) \in Nat
    BY <2>1, TextShape0
  <2> QED BY <2>2, <2>3
<1>7. EndsLoop(i) => Op(In(i)) \in Loops
  BY DEF EndsLoop
<1> QED BY <1>2, <1>3, <1>4, <1>5, <1>6, <1>7 DEF Closers, Loops, EndsIf, EndsLoop

\* Which of its cases an item is built by.
LEMMA BuildCases ==
  ASSUME TextOK, NEW i \in Positions, NEW g
  PROVE /\ Op(i) = "PLAIN" => Build(g, i) = Emit(g, Exec(Do(i)))
        /\ Op(i) = "CHECK" => Build(g, i) = ConditionalAbort(g, Do(i))
        /\ Op(i) = "YIELD" => Build(g, i) = Emit(Emit(g, Exec(Do(i))), Br(ReturnBlock))
        /\ Op(i) = "IF" => Build(g, i) = BeginIf(g, i)
        /\ Op(i) = "ELSE" => Build(g, i) = BeginElse(g, i)
        /\ Op(i) = "DO" => Build(g, i) = BeginDo(g, i)
        /\ Op(i) \in {"WHILE", "FOR"} => Build(g, i) = BeginLoop(g, i)
        /\ EndsIf(i) => Build(g, i) = EndIf(g, i)
        /\ EndsLoop(i) => Build(g, i) = IF Op(In(i)) = "DO" THEN EndDo(g, i) ELSE EndLoop(g, i)
<1>1. \/ Op(i) \in {"PLAIN", "CHECK", "YIELD", "IF", "DO", "WHILE", "FOR"} /\ ~EndsIf(i) /\ ~EndsLoop(i)
      \/ Op(i) = "ELSE" /\ ~EndsIf(i) /\ ~EndsLoop(i)
      \/ Op(i) = "END" /\ EndsIf(i) /\ ~EndsLoop(i)
      \/ Op(i) = "END" /\ ~EndsIf(i) /\ EndsLoop(i)
  BY ItemsAre
<1> QED BY <1>1 DEF Build

\* Building an item only adds.
LEMMA BuildGrows ==
  ASSUME TextOK, NEW i \in Positions, NEW g \in GStates
  PROVE Build(g, i) \in GStates /\ Grows(g, Build(g, i))
<1>1. Do(i) \in Points /\ Exec(Do(i)) \in Instructions /\ Br(ReturnBlock) \in Instructions
  BY InstructionsAre DEF ReturnBlock
<1>2. Emit(g, Exec(Do(i))) \in GStates /\ Grows(g, Emit(g, Exec(Do(i))))
  BY <1>1, EmitIs, EmitGrows
<1>3. Emit(Emit(g, Exec(Do(i))), Br(ReturnBlock)) \in GStates
      /\ Grows(g, Emit(Emit(g, Exec(Do(i))), Br(ReturnBlock)))
  BY <1>1, <1>2, EmitIs, EmitGrows, GrowsOn
<1>4. ConditionalAbort(g, Do(i)) \in GStates /\ Grows(g, ConditionalAbort(g, Do(i)))
  BY <1>1, AbortGrows
<1>5. \/ Op(i) \in {"PLAIN", "CHECK", "YIELD", "IF", "DO", "WHILE", "FOR"}
      \/ Op(i) = "ELSE" /\ In(i) \in Positions
      \/ EndsIf(i) /\ In(i) \in Positions /\ In(In(i)) \in Positions
      \/ EndsLoop(i) /\ In(i) \in Positions
  BY ItemsAre DEF Closers
<1> QED BY <1>2, <1>3, <1>4, <1>5, BeginsGrow, EndsGrow, BuildCases

IsGenerator(f) ==
  f = [i \in 0..Len(statements) |-> IF i = 0 THEN Start ELSE Build(f[i - 1], i)]

\* The generator takes the items one after the other.
LEMMA GeneratorIs ==
  ASSUME TextOK
  PROVE /\ Generator[0] = Start
        /\ \A i \in 0..Len(statements) : Generator[i] \in GStates
        /\ \A i \in 1..Len(statements) : Generator[i] = Build(Generator[i - 1], i)
<1>0. PICK N \in Nat : N = Len(statements) /\ Positions = 1..N
  BY TextShape0
<1> DEFINE X == GStates
           F == [q \in X \X (1..N) |-> Build(q[1], q[2])]
           E == Start
<1>1. F \in [X \X (1..N) -> X]
  <2>1. ASSUME NEW p \in X, NEW i \in 1..N PROVE Build(p, i) \in X
    BY <1>0, BuildGrows
  <2> HIDE DEF X
  <2> QED BY <2>1
<1>2. E \in X
  BY StartIs
<1>3. PICK f \in [0..N -> X] : Iteration(f, N, E, F)
  <2> HIDE DEF F, X, E
  <2> QED BY <1>1, <1>2, Iterates
<1>4. ASSUME NEW i \in 0..N PROVE f[i] = IF i = 0 THEN E ELSE Build(f[i - 1], i)
  <2>1. f[i] = IF i = 0 THEN E ELSE F[<<f[i - 1], i>>]
    <3> HIDE DEF F, X, E
    <3> QED BY <1>3 DEF Iteration
  <2>2. i # 0 => F[<<f[i - 1], i>>] = Build(f[i - 1], i)
    <3>1. i # 0 => f[i - 1] \in X /\ i \in 1..N
      <4> HIDE DEF X
      <4> QED OBVIOUS
    <3> HIDE DEF X
    <3> QED BY <3>1
  <2> HIDE DEF F, E
  <2> QED BY <2>1, <2>2
<1>5. f = [i \in 0..N |-> IF i = 0 THEN E ELSE Build(f[i - 1], i)]
  <2>1. f = [i \in 0..N |-> f[i]]
    OBVIOUS
  <2> HIDE DEF F, X, E
  <2> QED BY <1>4, <2>1
<1> DEFINE g == CHOOSE h : IsGenerator(h)
<1>6. IsGenerator(g)
  BY <1>0, <1>5 DEF IsGenerator
<1>7. Generator = g
  BY DEF Generator, IsGenerator
<1> HIDE DEF g, E
<1>8. /\ g[0] = E
      /\ \A i \in 1..N : g[i] = Build(g[i - 1], i)
  <2>1. g = [i \in 0..N |-> IF i = 0 THEN E ELSE Build(g[i - 1], i)]
    BY <1>0, <1>6 DEF IsGenerator, E
  <2>2. 0 \in 0..N /\ \A i \in 1..N : i \in 0..N /\ i # 0
    OBVIOUS
  <2> QED BY <2>1, <2>2
<1> HIDE DEF X
<1> DEFINE S == {i \in 0..N : g[i] \in X}
<1>9. 0 \in S
  BY <1>2, <1>8
<1>10. ASSUME NEW i \in 1..N, i - 1 \in S PROVE i \in S
  <2>1. Build(g[i - 1], i) \in X
    BY <1>0, <1>10, BuildGrows DEF X
  <2> QED BY <2>1, <1>8
<1>11. 0..N \subseteq S
  <2> HIDE DEF S
  <2> QED BY <1>9, <1>10, InductionUpTo
<1> QED BY <1>0, <1>7, <1>8, <1>11 DEF E, X

LeavingOf(f, i) ==
  IF i = 0 THEN "open"
  ELSE IF Op(i) = "YIELD" \/ (EndsIf(i) /\ f[i - 1] = "closed") THEN "closed"
  ELSE IF Op(i) = "END" /\ Final(i) THEN "return"
  ELSE "open"

IsEnds(f) == f = [i \in 0..Len(statements) |-> LeavingOf(f, i)]

\* Each item leaves the insertion point as its kind and the item before have it.
LEMMA EndsIs ==
  ASSUME TextOK
  PROVE /\ Ends[0] = "open"
        /\ \A i \in 0..Len(statements) : Ends[i] \in {"open", "closed", "return"}
        /\ \A i \in 1..Len(statements) :
             /\ Op(i) = "YIELD" => Ends[i] = "closed"
             /\ Op(i) \notin {"YIELD", "END"} => Ends[i] = "open"
             /\ EndsLoop(i) => Ends[i] = IF Final(i) THEN "return" ELSE "open"
             /\ EndsIf(i) => Ends[i] = IF Ends[i - 1] = "closed" THEN "closed"
                                       ELSE IF Final(i) THEN "return" ELSE "open"
<1>0. PICK N \in Nat : N = Len(statements) /\ Positions = 1..N
  BY TextShape0
<1> DEFINE X == {"open", "closed", "return"}
           L(e, i) == IF Op(i) = "YIELD" \/ (EndsIf(i) /\ e = "closed") THEN "closed"
                      ELSE IF Op(i) = "END" /\ Final(i) THEN "return" ELSE "open"
           F == [q \in X \X (1..N) |-> L(q[1], q[2])]
           E == "open"
<1>1. F \in [X \X (1..N) -> X]
  <2>1. ASSUME NEW p \in X, NEW i \in 1..N PROVE L(p, i) \in X
    OBVIOUS
  <2> HIDE DEF X, L
  <2> QED BY <2>1
<1>2. E \in X
  OBVIOUS
<1>3. PICK f \in [0..N -> X] : Iteration(f, N, E, F)
  <2> HIDE DEF F, X, E
  <2> QED BY <1>1, <1>2, Iterates
<1>4. ASSUME NEW i \in 0..N PROVE f[i] = LeavingOf(f, i)
  <2>1. f[i] = IF i = 0 THEN E ELSE F[<<f[i - 1], i>>]
    <3> HIDE DEF F, X, E
    <3> QED BY <1>3 DEF Iteration
  <2>2. i # 0 => F[<<f[i - 1], i>>] = L(f[i - 1], i)
    <3>1. i # 0 => f[i - 1] \in X /\ i \in 1..N
      <4> HIDE DEF X
      <4> QED OBVIOUS
    <3> HIDE DEF X, L
    <3> QED BY <3>1
  <2>3. i # 0 => L(f[i - 1], i) = LeavingOf(f, i)
    BY DEF LeavingOf
  <2> HIDE DEF F, L
  <2> QED BY <2>1, <2>2, <2>3 DEF LeavingOf
<1>5. f = [i \in 0..N |-> LeavingOf(f, i)]
  <2>1. f = [i \in 0..N |-> f[i]]
    OBVIOUS
  <2> HIDE DEF F, X, E
  <2> QED BY <1>4, <2>1
<1> DEFINE g == CHOOSE h : IsEnds(h)
<1>6. IsEnds(g)
  BY <1>0, <1>5 DEF IsEnds
<1>7. Ends = g
  BY DEF Ends, IsEnds, LeavingOf
<1> HIDE DEF g
<1>8. \A i \in 0..N : Ends[i] = LeavingOf(Ends, i)
  BY <1>0, <1>6, <1>7 DEF IsEnds
<1>9. ASSUME NEW i \in 1..N
      PROVE /\ Op(i) = "YIELD" => Ends[i] = "closed"
            /\ Op(i) \notin {"YIELD", "END"} => Ends[i] = "open"
            /\ EndsLoop(i) => Ends[i] = IF Final(i) THEN "return" ELSE "open"
            /\ EndsIf(i) => Ends[i] = IF Ends[i - 1] = "closed" THEN "closed"
                                      ELSE IF Final(i) THEN "return" ELSE "open"
  <2>1. i \in 0..N /\ i # 0 /\ Ends[i] = LeavingOf(Ends, i)
    BY <1>8
  <2>2. EndsIf(i) => Op(i) = "END"
    BY DEF EndsIf
  <2>3. EndsLoop(i) => Op(i) = "END" /\ ~EndsIf(i)
    BY <1>0, ItemsAre
  <2> QED BY <2>1, <2>2, <2>3 DEF LeavingOf
<1>10. \A i \in 0..N : LeavingOf(Ends, i) \in {"open", "closed", "return"}
  BY DEF LeavingOf
<1>11. Ends[0] = "open"
  BY <1>8 DEF LeavingOf
<1> QED BY <1>0, <1>8, <1>9, <1>10, <1>11

------------------------------------------------------------------------------
(* What an item adds to the blocks *)

\* A block of one instruction,
LEMMA AppendToEmpty == \A x : Append(<<>>, x) = <<x>>
OBVIOUS

\* and one of two.
LEMMA AppendToOne ==
  ASSUME NEW x \in Instructions, NEW y \in Instructions
  PROVE Append(<<x>>, y) = <<x, y>>
<1>1. PICK s \in Seq(Instructions) : s = <<x>> /\ Len(s) = 1 /\ s[1] = x
  <2>1. <<x>> \in Seq(Instructions) /\ Len(<<x>>) = 1 /\ <<x>>[1] = x
    OBVIOUS
  <2> QED BY <2>1
<1>2. PICK t \in Seq(Instructions) : t = <<x, y>> /\ Len(t) = 2 /\ t[1] = x /\ t[2] = y
  <2>1. <<x, y>> \in Seq(Instructions) /\ Len(<<x, y>>) = 2 /\ <<x, y>>[1] = x /\ <<x, y>>[2] = y
    OBVIOUS
  <2> QED BY <2>1
<1>3. PICK r \in Seq(Instructions) : r = Append(s, y)
  BY AppendProperties
<1>4. Len(r) = 2 /\ r[1] = x /\ r[2] = y
  BY <1>1, <1>3, AppendProperties
<1>5. r = t
  <2>1. \A i \in 1..2 : r[i] = t[i]
    BY <1>2, <1>4
  <2> QED BY <2>1, <1>2, <1>4, SeqEqual
<1> QED BY <1>1, <1>2, <1>3, <1>5

\* One instruction and then elsewhere.
Adds(g, h, x, b) ==
  /\ h \in GStates /\ h.at = b /\ h.begun = g.begun /\ Len(h.code) = Len(g.code)
  /\ h.code[g.at] = Append(g.code[g.at], x)
  /\ \A c \in 1..Len(g.code) : c # g.at => h.code[c] = g.code[c]

\* An instruction is added,
LEMMA EmitAdds ==
  ASSUME NEW g \in GStates, NEW x \in Instructions, g.at \in 1..Len(g.code)
  PROVE Adds(g, Emit(g, x), x, g.at)
BY EmitIs DEF Adds

\* and the insertion point moved,
LEMMA EmitAndGo ==
  ASSUME NEW g \in GStates, NEW x \in Instructions, NEW b \in Nat, g.at \in 1..Len(g.code)
  PROVE Adds(g, SetInsertPoint(Emit(g, x), b), x, b)
<1> DEFINE e == Emit(g, x)
<1>1. Adds(g, e, x, g.at)
  BY EmitAdds
<1> HIDE DEF e
<1>2. /\ SetInsertPoint(e, b) \in GStates /\ SetInsertPoint(e, b).at = b
      /\ SetInsertPoint(e, b).code = e.code /\ SetInsertPoint(e, b).begun = e.begun
  BY <1>1, SetInsertPointIs DEF Adds
<1>3. Adds(g, SetInsertPoint(e, b), x, b)
  BY <1>1, <1>2 DEF Adds
<1> QED BY <1>3 DEF e

\* New blocks and one instruction.
NewAdds(g, h, x, m) ==
  /\ h \in GStates /\ h.at = g.at /\ h.begun = g.begun /\ Len(h.code) = Len(g.code) + m
  /\ h.code[g.at] = Append(g.code[g.at], x)
  /\ \A c \in 1..Len(g.code) : c # g.at => h.code[c] = g.code[c]
  /\ \A c \in (Len(g.code) + 1)..(Len(g.code) + m) : h.code[c] = <<>>

\* or blocks added before it.
LEMMA NewAndEmit ==
  ASSUME NEW g \in GStates, NEW x \in Instructions, NEW m \in Nat, g.at \in 1..Len(g.code)
  PROVE NewAdds(g, Emit(NewBlocks(g, m), x), x, m)
<1> DEFINE e == NewBlocks(g, m)
           h == Emit(e, x)
<1>0. Len(g.code) \in Nat
  BY CodeParts
<1>1. /\ e \in GStates /\ e.at = g.at /\ e.begun = g.begun /\ Len(e.code) = Len(g.code) + m
      /\ \A c \in 1..(Len(g.code) + m) : e.code[c] = IF c <= Len(g.code) THEN g.code[c] ELSE <<>>
  BY NewBlocksIs
<1> HIDE DEF e
<1>2. /\ h \in GStates /\ h.at = e.at /\ h.begun = e.begun /\ Len(h.code) = Len(e.code)
      /\ \A c \in 1..Len(e.code) : h.code[c] = IF c = e.at THEN Append(e.code[c], x) ELSE e.code[c]
  BY <1>1, EmitIs
<1> HIDE DEF h
<1>3. h.code[g.at] = Append(g.code[g.at], x)
  <2>1. g.at \in 1..Len(e.code) /\ e.code[g.at] = g.code[g.at]
    BY <1>0, <1>1
  <2> QED BY <2>1, <1>1, <1>2
<1>4. \A c \in 1..Len(g.code) : c # g.at => h.code[c] = g.code[c]
  BY <1>0, <1>1, <1>2
<1>5. \A c \in (Len(g.code) + 1)..(Len(g.code) + m) : h.code[c] = <<>>
  BY <1>0, <1>1, <1>2
<1>6. NewAdds(g, h, x, m)
  BY <1>1, <1>2, <1>3, <1>4, <1>5 DEF NewAdds
<1> QED BY <1>6 DEF h, e

\* A block is terminated by its last instruction.
LEMMA TerminatedIs ==
  ASSUME NEW g \in GStates, g.at \in 1..Len(g.code)
  PROVE Terminated(g) <=> LET s == g.code[g.at] IN s # <<>> /\ IsTerminator(s[Len(s)])
BY DEF Terminated, Last

\* A plain statement is one instruction.
LEMMA PlainAdds ==
  ASSUME TextOK, NEW i \in Positions, NEW g \in GStates, g.at \in 1..Len(g.code), Op(i) = "PLAIN"
  PROVE LET h == Build(g, i) IN
        /\ h.at = g.at /\ h.begun = g.begun /\ Len(h.code) = Len(g.code)
        /\ h.code[g.at] = Append(g.code[g.at], Exec(Do(i)))
        /\ \A c \in 1..Len(g.code) : c # g.at => h.code[c] = g.code[c]
<1>1. Exec(Do(i)) \in Instructions
  BY InstructionsAre
<1>2. Adds(g, Emit(g, Exec(Do(i))), Exec(Do(i)), g.at)
  BY <1>1, EmitAdds
<1>3. Build(g, i) = Emit(g, Exec(Do(i)))
  BY BuildCases
<1> QED BY <1>2, <1>3 DEF Adds

\* A return is evaluated and branches to the return block.
LEMMA YieldAdds ==
  ASSUME TextOK, NEW i \in Positions, NEW g \in GStates, g.at \in 1..Len(g.code), Op(i) = "YIELD"
  PROVE LET h == Build(g, i) IN
        /\ h.at = g.at /\ h.begun = g.begun /\ Len(h.code) = Len(g.code)
        /\ h.code[g.at] = Append(Append(g.code[g.at], Exec(Do(i))), Br(ReturnBlock))
        /\ \A c \in 1..Len(g.code) : c # g.at => h.code[c] = g.code[c]
<1> DEFINE e == Emit(g, Exec(Do(i)))
           h == Emit(e, Br(ReturnBlock))
<1>1. Exec(Do(i)) \in Instructions /\ Br(ReturnBlock) \in Instructions
  BY InstructionsAre DEF ReturnBlock
<1>2. Adds(g, e, Exec(Do(i)), g.at)
  BY <1>1, EmitAdds
<1> HIDE DEF e
<1>3. Adds(e, h, Br(ReturnBlock), g.at)
  <2>1. e \in GStates /\ e.at \in 1..Len(e.code) /\ e.at = g.at
    BY <1>2 DEF Adds
  <2> QED BY <1>1, <2>1, EmitAdds
<1>4. Build(g, i) = h
  BY BuildCases DEF e
<1> HIDE DEF h
<1> QED BY <1>2, <1>3, <1>4 DEF Adds

\* A check takes three blocks; the code goes on in the third.
LEMMA CheckAdds ==
  ASSUME TextOK, NEW i \in Positions, NEW g \in GStates, g.at \in 1..Len(g.code), Op(i) = "CHECK"
  PROVE LET h == Build(g, i)
            n == Len(g.code)
        IN /\ h.at = n + 3 /\ h.begun = g.begun /\ Len(h.code) = n + 3
           /\ h.code[g.at] = Append(g.code[g.at], CondBr(Do(i), n + 2, n + 1))
           /\ \A c \in 1..n : c # g.at => h.code[c] = g.code[c]
           /\ h.code[n + 1] = <<StoreFalse, Br(ReturnBlock)>>
           /\ h.code[n + 2] = <<Br(n + 3)>>
           /\ h.code[n + 3] = <<>>
<1> DEFINE p == Do(i)
<1>0. PICK n \in Nat : n = Len(g.code) /\ n + 1 \in Nat /\ n + 2 \in Nat /\ n + 3 \in Nat
  <2>1. Len(g.code) \in Nat
    BY CodeParts
  <2> QED BY <2>1
<1> DEFINE g2 == Emit(NewBlocks(g, 3), CondBr(p, n + 2, n + 1))
           g3 == SetInsertPoint(g2, n + 1)
           g4 == Emit(g3, StoreFalse)
           g5 == SetInsertPoint(Emit(g4, Br(ReturnBlock)), n + 2)
           g6 == SetInsertPoint(Emit(g5, Br(n + 3)), n + 3)
           x2 == CondBr(p, n + 2, n + 1)
<1>1. /\ p \in Points
      /\ x2 \in Instructions /\ StoreFalse \in Instructions
      /\ Br(ReturnBlock) \in Instructions /\ Br(n + 3) \in Instructions
  BY <1>0, InstructionsAre DEF ReturnBlock
<1>a. /\ n + 1 \in 1..(n + 3) /\ n + 2 \in 1..(n + 3) /\ n + 3 \in 1..(n + 3)
      /\ n + 1 # n + 2 /\ n + 3 # n + 1 /\ n + 3 # n + 2
      /\ n + 1 \in (n + 1)..(n + 3) /\ n + 2 \in (n + 1)..(n + 3) /\ n + 3 \in (n + 1)..(n + 3)
      /\ \A c \in 1..n : c \in 1..(n + 3) /\ c # n + 1 /\ c # n + 2
  BY <1>0
<1>2. NewAdds(g, g2, x2, 3)
  BY <1>0, <1>1, NewAndEmit
<1> HIDE DEF g2
<1>3. g2 \in GStates /\ g3 \in GStates /\ g3.at = n + 1 /\ g3.begun = g2.begun /\ g3.code = g2.code
      /\ Len(g2.code) = n + 3
  BY <1>0, <1>2, SetInsertPointIs DEF NewAdds
<1> HIDE DEF g3
<1>4. Adds(g3, g4, StoreFalse, n + 1)
  BY <1>a, <1>1, <1>3, EmitAdds
<1> HIDE DEF g4
<1>5. Adds(g4, g5, Br(ReturnBlock), n + 2)
  <2>1. g4 \in GStates /\ g4.at \in 1..Len(g4.code)
    BY <1>a, <1>3, <1>4 DEF Adds
  <2> QED BY <1>0, <1>1, <2>1, EmitAndGo
<1> HIDE DEF g5
<1>6. Adds(g5, g6, Br(n + 3), n + 3)
  <2>1. g5 \in GStates /\ g5.at \in 1..Len(g5.code)
    BY <1>a, <1>3, <1>4, <1>5 DEF Adds
  <2> QED BY <1>0, <1>1, <2>1, EmitAndGo
<1> HIDE DEF g6
<1>7. /\ Len(g6.code) = n + 3 /\ g6.at = n + 3 /\ g6.begun = g.begun
      /\ Len(g4.code) = n + 3 /\ Len(g5.code) = n + 3
      /\ g3.at = n + 1 /\ g4.at = n + 1 /\ g5.at = n + 2
  BY <1>0, <1>2, <1>3, <1>4, <1>5, <1>6 DEF Adds, NewAdds
<1>8. /\ g4.code[n + 1] = Append(g2.code[n + 1], StoreFalse)
      /\ g5.code[n + 1] = Append(g4.code[n + 1], Br(ReturnBlock))
      /\ g6.code[n + 2] = Append(g5.code[n + 2], Br(n + 3))
      /\ \A c \in 1..(n + 3) : c # n + 1 => g4.code[c] = g2.code[c] /\ g5.code[c] = g4.code[c]
      /\ \A c \in 1..(n + 3) : c # n + 2 => g6.code[c] = g5.code[c]
  BY <1>3, <1>4, <1>5, <1>6, <1>7 DEF Adds
<1>9. /\ g2.code[g.at] = Append(g.code[g.at], x2)
      /\ \A c \in 1..n : c # g.at => g2.code[c] = g.code[c]
      /\ \A c \in (n + 1)..(n + 3) : g2.code[c] = <<>>
  BY <1>0, <1>2 DEF NewAdds
<1>10. g5.code[n + 2] = <<>>
  BY <1>a, <1>8, <1>9
<1>11. Build(g, i) = g6
  <2>1. g5.code[g5.at] = <<>>
    BY <1>7, <1>10
  <2>2. CloseElseCase(g5, n + 3) = g6
    BY <2>1 DEF CloseElseCase, Terminated, g6
  <2> QED BY <1>0, <2>2, BuildCases DEF ConditionalAbort, g2, g3, g4, g5
<1>12. g6.code[n + 1] = <<StoreFalse, Br(ReturnBlock)>>
  <2>1. g6.code[n + 1] = Append(Append(<<>>, StoreFalse), Br(ReturnBlock))
    BY <1>a, <1>8, <1>9
  <2> QED BY <1>1, <2>1, AppendToEmpty, AppendToOne
<1>13. g6.code[n + 2] = <<Br(n + 3)>>
  BY <1>8, <1>10, AppendToEmpty
<1>14. g6.code[n + 3] = <<>>
  BY <1>a, <1>8, <1>9
<1>15. \A c \in 1..n : g6.code[c] = g2.code[c]
  BY <1>a, <1>8
<1>16. g6.code[g.at] = Append(g.code[g.at], x2)
  BY <1>0, <1>9, <1>15
<1> QED BY <1>0, <1>7, <1>9, <1>11, <1>12, <1>13, <1>14, <1>15, <1>16

\* What follows a statement: a new block, or the return block.
NewAfter(i, n) == IF IsLast(i) THEN n ELSE n + 1

\* A branch takes a block for each case, and one behind it unless it is last.
LEMMA IfAdds ==
  ASSUME TextOK, NEW i \in Positions, NEW g \in GStates, g.at \in 1..Len(g.code), Op(i) = "IF"
  PROVE LET h == Build(g, i)
            n == Len(g.code)
        IN /\ h.at = n + 1 /\ Len(h.code) = NewAfter(i, n + 2)
           /\ h.begun[i].to = n + 2 /\ h.begun[i].after = Following(i, n + 3)
           /\ \A k \in Positions : k # i => h.begun[k] = g.begun[k]
           /\ h.code[g.at] = Append(g.code[g.at], CondBr(Do(i), n + 1, n + 2))
           /\ \A c \in 1..n : c # g.at => h.code[c] = g.code[c]
           /\ \A c \in (n + 1)..Len(h.code) : h.code[c] = <<>>
<1>0. PICK n \in Nat : n = Len(g.code) /\ n + 1 \in Nat /\ n + 2 \in Nat /\ n + 3 \in Nat
  <2>1. Len(g.code) \in Nat
    BY CodeParts
  <2> QED BY <2>1
<1> DEFINE m == IF IsLast(i) THEN 2 ELSE 3
           a == Following(i, n + 3)
           x == CondBr(Do(i), n + 1, n + 2)
           f == Emit(NewBlocks(g, m), x)
           b == Begin(f, i, n + 2, a)
           h == SetInsertPoint(b, n + 1)
<1>1. m \in Nat /\ a \in Nat /\ n + m = NewAfter(i, n + 2)
  <2>1. CASE IsLast(i)
    BY <1>0, <2>1 DEF Following, ReturnBlock, NewAfter
  <2>2. CASE ~IsLast(i)
    BY <1>0, <2>2 DEF Following, ReturnBlock, NewAfter
  <2> QED BY <2>1, <2>2
<1>2. x \in Instructions
  BY <1>0, InstructionsAre
<1>3. Build(g, i) = h
  BY <1>0, BuildCases DEF BeginIf
<1> HIDE DEF m, a, x
<1>4. NewAdds(g, f, x, m)
  BY <1>1, <1>2, NewAndEmit
<1> HIDE DEF f
<1>5. /\ b \in GStates /\ b.code = f.code /\ b.begun[i].to = n + 2 /\ b.begun[i].after = a
      /\ \A k \in Positions : k # i => b.begun[k] = f.begun[k]
  <2>1. f \in GStates
    BY <1>4 DEF NewAdds
  <2>2. PICK t \in Nat : t = n + 2
    BY <1>0
  <2>3. b = Begin(f, i, t, a)
    BY <2>2
  <2> HIDE DEF b
  <2>4. Notes(f, b, i, t, a)
    BY <1>1, <2>1, <2>2, <2>3, BeginIs
  <2> QED BY <2>2, <2>4 DEF Notes
<1> HIDE DEF b
<1>6. h.at = n + 1 /\ h.begun = b.begun /\ h.code = b.code
  BY <1>0, <1>5, SetInsertPointIs
<1> HIDE DEF h
<1>7. /\ f.begun = g.begun /\ Len(f.code) = n + m /\ f.code[g.at] = Append(g.code[g.at], x)
      /\ \A c \in 1..n : c # g.at => f.code[c] = g.code[c]
      /\ \A c \in (n + 1)..(n + m) : f.code[c] = <<>>
  BY <1>0, <1>4 DEF NewAdds
<1> QED BY <1>0, <1>1, <1>3, <1>5, <1>6, <1>7 DEF a, x

\* A do-while takes a block for the body, and one behind it unless it is last.
LEMMA DoAdds ==
  ASSUME TextOK, NEW i \in Positions, NEW g \in GStates, g.at \in 1..Len(g.code), Op(i) = "DO"
  PROVE LET h == Build(g, i)
            n == Len(g.code)
        IN /\ h.at = n + 1 /\ Len(h.code) = NewAfter(i, n + 1)
           /\ h.begun[i].to = n + 1 /\ h.begun[i].after = Following(i, n + 2)
           /\ \A k \in Positions : k # i => h.begun[k] = g.begun[k]
           /\ h.code[g.at] = Append(g.code[g.at], Br(n + 1))
           /\ \A c \in 1..n : c # g.at => h.code[c] = g.code[c]
           /\ \A c \in (n + 1)..Len(h.code) : h.code[c] = <<>>
<1>0. PICK n \in Nat : n = Len(g.code) /\ n + 1 \in Nat /\ n + 2 \in Nat /\ n + 3 \in Nat
  <2>1. Len(g.code) \in Nat
    BY CodeParts
  <2> QED BY <2>1
<1> DEFINE m == IF IsLast(i) THEN 1 ELSE 2
           a == Following(i, n + 2)
           x == Br(n + 1)
           f == Emit(NewBlocks(g, m), x)
           b == Begin(f, i, n + 1, a)
           h == SetInsertPoint(b, n + 1)
<1>1. m \in Nat /\ a \in Nat /\ n + m = NewAfter(i, n + 1)
  <2>1. CASE IsLast(i)
    BY <1>0, <2>1 DEF Following, ReturnBlock, NewAfter
  <2>2. CASE ~IsLast(i)
    BY <1>0, <2>2 DEF Following, ReturnBlock, NewAfter
  <2> QED BY <2>1, <2>2
<1>2. x \in Instructions
  BY <1>0, InstructionsAre
<1>3. Build(g, i) = h
  BY <1>0, BuildCases DEF BeginDo
<1> HIDE DEF m, a, x
<1>4. NewAdds(g, f, x, m)
  BY <1>1, <1>2, NewAndEmit
<1> HIDE DEF f
<1>5. /\ b \in GStates /\ b.code = f.code /\ b.begun[i].to = n + 1 /\ b.begun[i].after = a
      /\ \A k \in Positions : k # i => b.begun[k] = f.begun[k]
  <2>1. f \in GStates
    BY <1>4 DEF NewAdds
  <2>2. PICK t \in Nat : t = n + 1
    BY <1>0
  <2>3. b = Begin(f, i, t, a)
    BY <2>2
  <2> HIDE DEF b
  <2>4. Notes(f, b, i, t, a)
    BY <1>1, <2>1, <2>2, <2>3, BeginIs
  <2> QED BY <2>2, <2>4 DEF Notes
<1> HIDE DEF b
<1>6. h.at = n + 1 /\ h.begun = b.begun /\ h.code = b.code
  BY <1>0, <1>5, SetInsertPointIs
<1> HIDE DEF h
<1>7. /\ f.begun = g.begun /\ Len(f.code) = n + m /\ f.code[g.at] = Append(g.code[g.at], x)
      /\ \A c \in 1..n : c # g.at => f.code[c] = g.code[c]
      /\ \A c \in (n + 1)..(n + m) : f.code[c] = <<>>
  BY <1>0, <1>4 DEF NewAdds
<1> QED BY <1>0, <1>1, <1>3, <1>5, <1>6, <1>7 DEF a, x

\* The other loops take one more, for the condition.
LEMMA LoopAdds ==
  ASSUME TextOK, NEW i \in Positions, NEW g \in GStates, g.at \in 1..Len(g.code), Op(i) \in {"WHILE", "FOR"}
  PROVE LET h == Build(g, i)
            n == Len(g.code)
        IN /\ h.at = n + 2 /\ Len(h.code) = NewAfter(i, n + 2)
           /\ h.begun[i].to = n + 1 /\ h.begun[i].after = Following(i, n + 3)
           /\ \A k \in Positions : k # i => h.begun[k] = g.begun[k]
           /\ h.code[g.at] = Append(g.code[g.at], Br(n + 1))
           /\ h.code[n + 1] = <<CondBr(Do(i), n + 2, Following(i, n + 3))>>
           /\ \A c \in 1..n : c # g.at => h.code[c] = g.code[c]
           /\ \A c \in (n + 2)..Len(h.code) : h.code[c] = <<>>
<1>0. PICK n \in Nat : n = Len(g.code) /\ n + 1 \in Nat /\ n + 2 \in Nat /\ n + 3 \in Nat
  <2>1. Len(g.code) \in Nat
    BY CodeParts
  <2> QED BY <2>1
<1> DEFINE m == IF IsLast(i) THEN 2 ELSE 3
           a == Following(i, n + 3)
           x == Br(n + 1)
           y == CondBr(Do(i), n + 2, a)
           f == Emit(NewBlocks(g, m), x)
           e == SetInsertPoint(f, n + 1)
           d == Emit(e, y)
           b == Begin(d, i, n + 1, a)
           h == SetInsertPoint(b, n + 2)
<1>1. m \in Nat /\ (m = 2 \/ m = 3) /\ a \in Nat /\ n + m = NewAfter(i, n + 2)
  <2>1. CASE IsLast(i)
    BY <1>0, <2>1 DEF Following, ReturnBlock, NewAfter
  <2>2. CASE ~IsLast(i)
    BY <1>0, <2>2 DEF Following, ReturnBlock, NewAfter
  <2> QED BY <2>1, <2>2
<1>2. x \in Instructions /\ y \in Instructions
  BY <1>0, <1>1, InstructionsAre
<1>3. Build(g, i) = h
  BY <1>0, BuildCases DEF BeginLoop
<1> HIDE DEF m, a, x, y
<1>a. /\ n + 1 \in 1..(n + m) /\ n + 1 \in (n + 1)..(n + m)
      /\ \A c \in 1..n : c \in 1..(n + m) /\ c # n + 1
      /\ \A c \in (n + 2)..(n + m) : c \in 1..(n + m) /\ c # n + 1 /\ c \in (n + 1)..(n + m)
  BY <1>0, <1>1
<1>4. NewAdds(g, f, x, m)
  BY <1>1, <1>2, NewAndEmit
<1> HIDE DEF f
<1>5. f \in GStates /\ Len(f.code) = n + m /\ e \in GStates /\ e.at = n + 1 /\ e.begun = f.begun /\ e.code = f.code
  BY <1>0, <1>4, SetInsertPointIs DEF NewAdds
<1> HIDE DEF e
<1>6. Adds(e, d, y, n + 1)
  BY <1>a, <1>2, <1>5, EmitAdds
<1> HIDE DEF d
<1>7. /\ b \in GStates /\ b.code = d.code /\ b.begun[i].to = n + 1 /\ b.begun[i].after = a
      /\ \A k \in Positions : k # i => b.begun[k] = d.begun[k]
  <2>1. d \in GStates
    BY <1>6 DEF Adds
  <2>2. PICK t \in Nat : t = n + 1
    BY <1>0
  <2>3. b = Begin(d, i, t, a)
    BY <2>2
  <2> HIDE DEF b
  <2>4. Notes(d, b, i, t, a)
    BY <1>1, <2>1, <2>2, <2>3, BeginIs
  <2> QED BY <2>2, <2>4 DEF Notes
<1> HIDE DEF b
<1>8. h.at = n + 2 /\ h.begun = b.begun /\ h.code = b.code
  BY <1>0, <1>7, SetInsertPointIs
<1> HIDE DEF h
<1>9. /\ f.begun = g.begun /\ f.code[g.at] = Append(g.code[g.at], x)
      /\ \A c \in 1..n : c # g.at => f.code[c] = g.code[c]
      /\ \A c \in (n + 1)..(n + m) : f.code[c] = <<>>
  BY <1>0, <1>4 DEF NewAdds
<1>10. /\ d.begun = f.begun /\ Len(d.code) = n + m /\ d.code[n + 1] = Append(f.code[n + 1], y)
       /\ \A c \in 1..(n + m) : c # n + 1 => d.code[c] = f.code[c]
  BY <1>5, <1>6 DEF Adds
<1>11. h.code[n + 1] = <<y>>
  BY <1>a, <1>7, <1>8, <1>9, <1>10, AppendToEmpty
<1>12. \A c \in 1..n : h.code[c] = f.code[c]
  BY <1>a, <1>7, <1>8, <1>10
<1>13. \A c \in (n + 2)..(n + m) : h.code[c] = <<>>
  BY <1>a, <1>7, <1>8, <1>9, <1>10
<1>14. h.code[g.at] = Append(g.code[g.at], x)
  BY <1>0, <1>9, <1>12
<1>15. Len(h.code) = n + m /\ \A k \in Positions : k # i => h.begun[k] = g.begun[k]
  BY <1>7, <1>8, <1>9, <1>10
<1>16. h.begun[i].to = n + 1 /\ h.begun[i].after = a
  BY <1>7, <1>8
<1>17. \A c \in 1..n : c # g.at => h.code[c] = g.code[c]
  BY <1>9, <1>12
<1> QED BY <1>0, <1>1, <1>3, <1>8, <1>11, <1>13, <1>14, <1>15, <1>16, <1>17 DEF a, x, y

\* The end of a then-block.
LEMMA ElseAdds ==
  ASSUME TextOK, NEW i \in Positions, NEW g \in GStates, g.at \in 1..Len(g.code), Op(i) = "ELSE"
  PROVE LET h == Build(g, i)
            st == g.begun[In(i)]
        IN /\ h.at = st.to /\ h.begun = g.begun /\ Len(h.code) = Len(g.code)
           /\ h.code[g.at] = IF Terminated(g) THEN g.code[g.at] ELSE Append(g.code[g.at], Br(st.after))
           /\ \A c \in 1..Len(g.code) : c # g.at => h.code[c] = g.code[c]
<1> DEFINE to == g.begun[In(i)].to
           after == g.begun[In(i)].after
<1>1. to \in Nat /\ after \in Nat
  BY ItemsAre, BegunIs DEF Closers
<1>2. Br(after) \in Instructions
  BY <1>1, InstructionsAre
<1>3. Build(g, i) = SetInsertPoint(CloseCase(g, after), to)
  BY BuildCases DEF BeginElse
<1> HIDE DEF to, after
<1>4. CASE Terminated(g)
  <2>1. Build(g, i) = SetInsertPoint(g, to)
    BY <1>3, <1>4 DEF CloseCase
  <2> QED BY <2>1, <1>1, <1>4, SetInsertPointIs DEF to, after
<1>5. CASE ~Terminated(g)
  <2>1. Build(g, i) = SetInsertPoint(Emit(g, Br(after)), to)
    BY <1>3, <1>5 DEF CloseCase
  <2>2. Adds(g, Build(g, i), Br(after), to)
    BY <2>1, <1>1, <1>2, EmitAndGo
  <2> QED BY <2>2, <1>5 DEF to, after, Adds
<1> QED BY <1>4, <1>5

\* The end of an else-block.
LEMMA EndIfAdds ==
  ASSUME TextOK, NEW i \in Positions, NEW g \in GStates, g.at \in 1..Len(g.code), EndsIf(i)
  PROVE LET h == Build(g, i)
            st == g.begun[In(In(i))]
        IN /\ h.begun = g.begun /\ Len(h.code) = Len(g.code)
           /\ h.at = IF Terminated(g) THEN g.at ELSE st.after
           /\ h.code[g.at] = IF Terminated(g) THEN g.code[g.at] ELSE Append(g.code[g.at], Br(st.after))
           /\ \A c \in 1..Len(g.code) : c # g.at => h.code[c] = g.code[c]
<1> DEFINE after == g.begun[In(In(i))].after
<1>1. after \in Nat
  BY ItemsAre, BegunIs
<1>2. Br(after) \in Instructions
  BY <1>1, InstructionsAre
<1>3. Build(g, i) = CloseElseCase(g, after)
  BY BuildCases DEF EndIf
<1> HIDE DEF after
<1>4. CASE Terminated(g)
  BY <1>3, <1>4 DEF CloseElseCase
<1>5. CASE ~Terminated(g)
  <2>1. Build(g, i) = SetInsertPoint(Emit(g, Br(after)), after)
    BY <1>3, <1>5 DEF CloseElseCase
  <2>2. Adds(g, Build(g, i), Br(after), after)
    BY <2>1, <1>1, <1>2, EmitAndGo
  <2> QED BY <2>2, <1>5 DEF after, Adds
<1> QED BY <1>4, <1>5

\* The end of the body of a loop.
LEMMA EndLoopAdds ==
  ASSUME TextOK, NEW i \in Positions, NEW g \in GStates, g.at \in 1..Len(g.code), EndsLoop(i)
  PROVE LET h == Build(g, i)
            st == g.begun[In(i)]
        IN /\ h.begun = g.begun /\ Len(h.code) = Len(g.code)
           /\ h.at = st.after
           /\ Op(In(i)) = "DO" => h.code[g.at] = Append(g.code[g.at], CondBr(Do(In(i)), st.to, st.after))
           /\ Op(In(i)) = "WHILE" => h.code[g.at] = Append(g.code[g.at], Br(st.to))
           /\ Op(In(i)) = "FOR" => h.code[g.at] = Append(Append(g.code[g.at], Exec(Iter(In(i)))), Br(st.to))
           /\ \A c \in 1..Len(g.code) : c # g.at => h.code[c] = g.code[c]
<1> DEFINE to == g.begun[In(i)].to
           after == g.begun[In(i)].after
<1>1. In(i) \in Positions /\ Op(In(i)) \in Loops
  BY ItemsAre DEF EndsLoop, Closers
<1>2. to \in Nat /\ after \in Nat
  BY <1>1, BegunIs
<1>3. Br(to) \in Instructions /\ CondBr(Do(In(i)), to, after) \in Instructions /\ Exec(Iter(In(i))) \in Instructions
  BY <1>1, <1>2, InstructionsAre
<1>4. Build(g, i) = IF Op(In(i)) = "DO" THEN EndDo(g, i) ELSE EndLoop(g, i)
  BY BuildCases
<1>5. CASE Op(In(i)) = "DO"
  <2>1. Build(g, i) = SetInsertPoint(Emit(g, CondBr(Do(In(i)), to, after)), after)
    BY <1>4, <1>5 DEF EndDo
  <2> HIDE DEF to, after
  <2>2. Adds(g, Build(g, i), CondBr(Do(In(i)), to, after), after)
    BY <2>1, <1>2, <1>3, EmitAndGo
  <2> QED BY <2>2, <1>5 DEF to, after, Adds
<1>6. CASE Op(In(i)) = "WHILE"
  <2>1. Build(g, i) = SetInsertPoint(Emit(g, Br(to)), after)
    BY <1>4, <1>6 DEF EndLoop
  <2> HIDE DEF to, after
  <2>2. Adds(g, Build(g, i), Br(to), after)
    BY <2>1, <1>2, <1>3, EmitAndGo
  <2> QED BY <2>2, <1>6 DEF to, after, Adds
<1>7. CASE Op(In(i)) = "FOR"
  <2> DEFINE e == Emit(g, Exec(Iter(In(i))))
  <2>1. Build(g, i) = SetInsertPoint(Emit(e, Br(to)), after)
    BY <1>4, <1>7 DEF EndLoop
  <2>2. Adds(g, e, Exec(Iter(In(i))), g.at)
    BY <1>3, EmitAdds
  <2> HIDE DEF to, after, e
  <2>3. Adds(e, Build(g, i), Br(to), after)
    <3>1. e \in GStates /\ e.at \in 1..Len(e.code)
      BY <2>2 DEF Adds
    <3> QED BY <2>1, <3>1, <1>2, <1>3, EmitAndGo
  <2> QED BY <2>2, <2>3, <1>7 DEF to, after, Adds
<1> QED BY <1>1, <1>5, <1>6, <1>7 DEF Loops

Branching == Loops \cup {"IF"}
Heads(i) == {h \in 1..i : Op(h) \in Branching}

\* Where statements with blocks end.
LEMMA FinishIs ==
  ASSUME TextOK, Complete, NEW h \in Positions, Op(h) \in Branching
  PROVE /\ Finish(h) \in Positions /\ End(h) \in Positions /\ h < End(h) /\ End(h) <= Finish(h) /\ h < Finish(h)
        /\ Op(Finish(h)) = "END"
        /\ Op(h) = "IF" => End(h) < Finish(h) /\ Op(End(h)) = "ELSE" /\ In(End(h)) = h
                           /\ EndsIf(Finish(h)) /\ In(In(Finish(h))) = h
        /\ Op(h) \in Loops => EndsLoop(Finish(h)) /\ In(Finish(h)) = h
        /\ IsLast(h) <=> Final(Finish(h))
<1>1. /\ End(h) \in (h + 1)..Len(statements) /\ End(h) \in Positions
      /\ Op(h) = "IF" <=> Op(End(h)) = "ELSE"
      /\ Op(h) = "IF" => EndsIf(End(End(h))) /\ In(End(End(h))) = End(h)
                         /\ End(End(h)) \in (End(h) + 1)..Len(statements) /\ End(End(h)) \in Positions
      /\ Op(h) \in Loops => EndsLoop(End(h))
      /\ In(End(h)) = h
  BY BlocksEnd DEF Branching, Openers
<1>2. Len(statements) \in Nat /\ Positions = 1..Len(statements)
  BY TextShape0
<1>3. Op(h) = "IF" => Finish(h) = End(End(h))
  BY DEF Finish, Loops
<1>4. Op(h) \in Loops => Finish(h) = End(h)
  BY DEF Finish, Loops
<1>5. Op(h) = "IF" \/ Op(h) \in Loops
  BY DEF Branching
<1>6. \A j : EndsIf(j) \/ EndsLoop(j) => Op(j) = "END"
  BY DEF EndsIf, EndsLoop
<1>7. ~(Op(h) = "IF" /\ Op(h) \in Loops)
  BY DEF Loops
<1> QED BY <1>1, <1>2, <1>3, <1>4, <1>5, <1>6, <1>7 DEF IsLast

\* Which statement an end belongs to.
LEMMA EndOf ==
  ASSUME TextOK, Complete, NEW i \in Positions
  PROVE /\ Op(i) = "ELSE" => In(i) \in Heads(i - 1) /\ End(In(i)) = i
        /\ EndsIf(i) => In(In(i)) \in Heads(i - 1) /\ Finish(In(In(i))) = i
                        /\ Op(In(In(i))) = "IF" /\ End(In(In(i))) = In(i) /\ In(i) \in 1..(i - 1)
        /\ EndsLoop(i) => In(i) \in Heads(i - 1) /\ Finish(In(i)) = i
        /\ \A h \in Positions : Op(h) = "IF" /\ End(h) = i => Op(i) = "ELSE" /\ h = In(i)
        /\ \A h \in Positions : Op(h) \in Branching /\ Finish(h) = i =>
             (EndsIf(i) /\ h = In(In(i))) \/ (EndsLoop(i) /\ h = In(i))
<1>1. Positions = 1..Len(statements) /\ Len(statements) \in Nat /\ i \in Nat
  BY TextShape0
<1>2. Op(i) \in Closers => In(i) \in 1..(i - 1) /\ In(i) \in Positions /\ End(In(i)) = i
                           /\ (Op(i) = "ELSE" <=> Op(In(i)) = "IF")
  BY EndsOfBlocks
<1>3. Op(i) = "ELSE" => In(i) \in Heads(i - 1) /\ End(In(i)) = i
  BY <1>2 DEF Heads, Branching, Closers
<1>4. ASSUME EndsIf(i)
      PROVE In(In(i)) \in Heads(i - 1) /\ Finish(In(In(i))) = i /\ Op(In(In(i))) = "IF"
            /\ End(In(In(i))) = In(i) /\ In(i) \in 1..(i - 1)
  <2>1. Op(i) \in Closers /\ Op(In(i)) = "ELSE"
    BY <1>4 DEF EndsIf, Closers
  <2>2. In(i) \in 1..(i - 1) /\ In(i) \in Positions /\ End(In(i)) = i
    BY <2>1, <1>2
  <2>3. In(In(i)) \in 1..(In(i) - 1) /\ In(In(i)) \in Positions /\ End(In(In(i))) = In(i) /\ Op(In(In(i))) = "IF"
    BY <2>1, <2>2, EndsOfBlocks DEF Closers
  <2>4. Finish(In(In(i))) = i
    BY <2>2, <2>3 DEF Finish, Loops
  <2>5. In(In(i)) \in 1..(i - 1)
    BY <1>1, <2>2, <2>3
  <2> QED BY <2>2, <2>3, <2>4, <2>5 DEF Heads, Branching
<1>5. ASSUME EndsLoop(i)
      PROVE In(i) \in Heads(i - 1) /\ Finish(In(i)) = i
  <2>1. Op(i) \in Closers /\ Op(In(i)) \in Loops
    BY <1>5 DEF EndsLoop, Closers
  <2>2. Finish(In(i)) = End(In(i))
    BY <2>1 DEF Finish, Loops
  <2> QED BY <2>1, <2>2, <1>2 DEF Heads, Branching
<1>6. \A h \in Positions : Op(h) = "IF" /\ End(h) = i => Op(i) = "ELSE" /\ h = In(i)
  BY FinishIs DEF Branching
<1>7. \A h \in Positions : Op(h) \in Branching /\ Finish(h) = i =>
             (EndsIf(i) /\ h = In(In(i))) \/ (EndsLoop(i) /\ h = In(i))
  BY FinishIs DEF Branching
<1> QED BY <1>3, <1>4, <1>5, <1>6, <1>7
------------------------------------------------------------------------------
(* Labels *)

\* The blocks that a statement's blocks branch to are there, and its own.
Labelled(g, h) ==
  /\ g.begun[h].to \in 3..Len(g.code)
  /\ g.begun[h].to # g.begun[h].after
  /\ IF IsLast(h) THEN g.begun[h].after = ReturnBlock ELSE g.begun[h].after \in 3..Len(g.code)

Apart(g, h, k) ==
  /\ g.begun[h].to # g.begun[k].to /\ g.begun[h].to # g.begun[k].after
  /\ g.begun[h].after = g.begun[k].after => IsLast(h) /\ IsLast(k)

Shape(g, i) ==
  /\ g \in GStates /\ Len(g.code) >= 2 /\ g.at \in 1..Len(g.code)
  /\ \A h \in Heads(i) : Labelled(g, h)
  /\ \A h, k \in Heads(i) : h # k => Apart(g, h, k)

\* Labels stay in what has grown.
LEMMA ShapeKept ==
  ASSUME NEW i, NEW g, Shape(g, i), NEW h \in GStates, Len(h.code) >= Len(g.code), h.begun = g.begun,
         h.at \in 1..Len(h.code)
  PROVE Shape(h, i)
<1>1. Len(g.code) \in Nat /\ Len(h.code) \in Nat
  BY CodeParts DEF Shape
<1>2. ASSUME NEW k \in Heads(i) PROVE Labelled(h, k)
  <2>1. Labelled(g, k)
    BY DEF Shape
  <2> QED BY <1>1, <2>1 DEF Labelled
<1>3. \A k, l \in Heads(i) : k # l => Apart(h, k, l)
  BY DEF Shape, Apart
<1> QED BY <1>1, <1>2, <1>3 DEF Shape

\* The labels of a new statement are new blocks.
NewLabels(g, h, i) ==
  /\ h.at \in 1..Len(h.code)
  /\ h.begun[i].to \in (Len(g.code) + 1)..Len(h.code)
  /\ h.begun[i].to # h.begun[i].after
  /\ IF IsLast(i) THEN h.begun[i].after = ReturnBlock ELSE h.begun[i].after \in (Len(g.code) + 1)..Len(h.code)

\* A statement begun with labels of its own keeps the labels apart.
LEMMA ShapeOfNew ==
  ASSUME TextOK, NEW i \in Positions, NEW g, Shape(g, i - 1), NEW h \in GStates, Len(h.code) >= Len(g.code),
         \A k \in Positions : k # i => h.begun[k] = g.begun[k], NewLabels(g, h, i)
  PROVE Shape(h, i)
<1>0. /\ h.at \in 1..Len(h.code) /\ h.begun[i].to \in (Len(g.code) + 1)..Len(h.code)
      /\ h.begun[i].to # h.begun[i].after
      /\ IsLast(i) => h.begun[i].after = ReturnBlock
      /\ ~IsLast(i) => h.begun[i].after \in (Len(g.code) + 1)..Len(h.code)
  BY DEF NewLabels
<1>1. Len(g.code) \in Nat /\ Len(h.code) \in Nat /\ Len(g.code) >= 2
  BY CodeParts DEF Shape
<1>2. \A k \in Heads(i - 1) : k \in Positions /\ k # i
  BY TextShape0 DEF Heads
<1>3. \A k \in Heads(i) : k = i \/ k \in Heads(i - 1)
  BY TextShape0 DEF Heads
<1>4. ASSUME NEW k \in Heads(i - 1)
      PROVE Labelled(g, k) /\ Labelled(h, k) /\ h.begun[k] = g.begun[k]
  <2>1. Labelled(g, k) /\ h.begun[k] = g.begun[k]
    BY <1>2 DEF Shape
  <2> QED BY <1>1, <2>1 DEF Labelled
<1>5. Labelled(h, i)
  BY <1>0, <1>1 DEF Labelled
<1>6. ASSUME NEW k \in Heads(i - 1) PROVE Apart(h, k, i) /\ Apart(h, i, k)
  <2>1. Labelled(g, k) /\ h.begun[k] = g.begun[k]
    BY <1>4
  <2>2. h.begun[k].to <= Len(g.code) /\ h.begun[k].to \in Nat
    BY <2>1, <1>1 DEF Labelled
  <2>3. h.begun[k].after <= Len(g.code) /\ h.begun[k].after \in Nat
    BY <2>1, <1>1 DEF Labelled, ReturnBlock
  <2>4. h.begun[k].to >= 3 /\ (~IsLast(k) => h.begun[k].after >= 3) /\ (IsLast(k) => h.begun[k].after = 2)
    BY <2>1, <1>1 DEF Labelled, ReturnBlock
  <2>5. h.begun[i].to > Len(g.code) /\ h.begun[i].to \in Nat /\ (~IsLast(i) => h.begun[i].after > Len(g.code) /\ h.begun[i].after \in Nat)
        /\ (IsLast(i) => h.begun[i].after = 2)
    BY <1>0, <1>1 DEF ReturnBlock
  <2> QED BY <1>1, <2>2, <2>3, <2>4, <2>5 DEF Apart
<1>7. ASSUME NEW k \in Heads(i - 1), NEW l \in Heads(i - 1), k # l PROVE Apart(h, k, l)
  <2>1. Apart(g, k, l)
    BY <1>7 DEF Shape
  <2> QED BY <2>1, <1>4 DEF Apart
<1>8. \A k \in Heads(i) : Labelled(h, k)
  BY <1>3, <1>4, <1>5
<1>9. \A k, l \in Heads(i) : k # l => Apart(h, k, l)
  BY <1>3, <1>6, <1>7
<1> QED BY <1>0, <1>1, <1>8, <1>9 DEF Shape

\* Only statements with blocks are heads.
LEMMA HeadsOfOthers ==
  ASSUME TextOK, NEW i \in Positions, Op(i) \notin Branching
  PROVE Heads(i) = Heads(i - 1)
BY TextShape0 DEF Heads

\* Every item keeps the labels apart;
LEMMA BuildShape ==
  ASSUME TextOK, Complete, NEW i \in Positions, NEW g, Shape(g, i - 1)
  PROVE Shape(Build(g, i), i)
<1> DEFINE h == Build(g, i)
<1>1. g \in GStates /\ g.at \in 1..Len(g.code) /\ Len(g.code) \in Nat
  BY CodeParts DEF Shape
<1>2. h \in GStates /\ Len(h.code) >= Len(g.code)
  BY <1>1, BuildGrows DEF Grows
<1>3. \A k \in Heads(i - 1) : Labelled(g, k)
  BY DEF Shape
<1>4. Len(h.code) \in Nat
  BY <1>2, CodeParts
<1>5. ASSUME Op(i) \notin Branching, h.begun = g.begun, h.at \in 1..Len(h.code) PROVE Shape(h, i)
  BY <1>2, <1>5, ShapeKept, HeadsOfOthers DEF Shape
<1>6. \A k \in Heads(i - 1) : g.begun[k].to \in 1..Len(g.code) /\ g.begun[k].after \in 1..Len(g.code)
  <2> TAKE k \in Heads(i - 1)
  <2>1. Labelled(g, k) /\ Len(g.code) >= 2
    BY <1>3 DEF Shape
  <2> QED BY <1>1, <2>1 DEF Labelled, ReturnBlock
<1>7. CASE Op(i) = "PLAIN"
  <2>1. h.begun = g.begun /\ h.at = g.at /\ Len(h.code) = Len(g.code)
    BY <1>1, <1>7, PlainAdds
  <2> QED BY <1>1, <1>5, <1>7, <2>1 DEF Branching, Loops
<1>8. CASE Op(i) = "YIELD"
  <2>1. h.begun = g.begun /\ h.at = g.at /\ Len(h.code) = Len(g.code)
    BY <1>1, <1>8, YieldAdds
  <2> QED BY <1>1, <1>5, <1>8, <2>1 DEF Branching, Loops
<1>9. CASE Op(i) = "CHECK"
  <2>1. h.begun = g.begun /\ h.at = Len(g.code) + 3 /\ Len(h.code) = Len(g.code) + 3
    BY <1>1, <1>9, CheckAdds
  <2>2. h.at \in 1..Len(h.code)
    BY <1>1, <2>1
  <2> QED BY <1>5, <1>9, <2>1, <2>2 DEF Branching, Loops
<1>10. CASE Op(i) = "ELSE"
  <2>1. h.begun = g.begun /\ h.at = g.begun[In(i)].to /\ Len(h.code) = Len(g.code)
    BY <1>1, <1>10, ElseAdds
  <2>2. In(i) \in Heads(i - 1)
    BY <1>10, EndOf
  <2> QED BY <1>5, <1>6, <1>10, <2>1, <2>2 DEF Branching, Loops
<1>11. CASE EndsIf(i)
  <2>1. h.begun = g.begun /\ (h.at = g.at \/ h.at = g.begun[In(In(i))].after) /\ Len(h.code) = Len(g.code)
    BY <1>1, <1>11, EndIfAdds
  <2>2. In(In(i)) \in Heads(i - 1)
    BY <1>11, EndOf
  <2> QED BY <1>1, <1>5, <1>6, <1>11, <2>1, <2>2 DEF Branching, Loops, EndsIf
<1>12. CASE EndsLoop(i)
  <2>1. h.begun = g.begun /\ h.at = g.begun[In(i)].after /\ Len(h.code) = Len(g.code)
    BY <1>1, <1>12, EndLoopAdds
  <2>2. In(i) \in Heads(i - 1)
    BY <1>12, EndOf
  <2> QED BY <1>5, <1>6, <1>12, <2>1, <2>2 DEF Branching, Loops, EndsLoop
<1> DEFINE n == Len(g.code)
<1>13. CASE Op(i) = "IF"
  <2>1. /\ h.at = n + 1 /\ Len(h.code) = NewAfter(i, n + 2)
        /\ h.begun[i].to = n + 2 /\ h.begun[i].after = Following(i, n + 3)
        /\ \A k \in Positions : k # i => h.begun[k] = g.begun[k]
    BY <1>1, <1>13, IfAdds
  <2> HIDE DEF h
  <2>2. NewLabels(g, h, i)
    <3>1. n >= 2
      BY DEF Shape
    <3>2. CASE IsLast(i)
      BY <1>1, <2>1, <3>1, <3>2 DEF NewAfter, Following, ReturnBlock, NewLabels
    <3>3. CASE ~IsLast(i)
      BY <1>1, <2>1, <3>1, <3>3 DEF NewAfter, Following, NewLabels
    <3> QED BY <3>2, <3>3
  <2>3. Shape(h, i)
    BY <1>2, <2>1, <2>2, ShapeOfNew
  <2> QED BY <2>3 DEF h
<1>14. CASE Op(i) = "DO"
  <2>1. /\ h.at = n + 1 /\ Len(h.code) = NewAfter(i, n + 1)
        /\ h.begun[i].to = n + 1 /\ h.begun[i].after = Following(i, n + 2)
        /\ \A k \in Positions : k # i => h.begun[k] = g.begun[k]
    BY <1>1, <1>14, DoAdds
  <2> HIDE DEF h
  <2>2. NewLabels(g, h, i)
    <3>1. n >= 2
      BY DEF Shape
    <3>2. CASE IsLast(i)
      BY <1>1, <2>1, <3>1, <3>2 DEF NewAfter, Following, ReturnBlock, NewLabels
    <3>3. CASE ~IsLast(i)
      BY <1>1, <2>1, <3>1, <3>3 DEF NewAfter, Following, NewLabels
    <3> QED BY <3>2, <3>3
  <2>3. Shape(h, i)
    BY <1>2, <2>1, <2>2, ShapeOfNew
  <2> QED BY <2>3 DEF h
<1>15. CASE Op(i) \in {"WHILE", "FOR"}
  <2>1. /\ h.at = n + 2 /\ Len(h.code) = NewAfter(i, n + 2)
        /\ h.begun[i].to = n + 1 /\ h.begun[i].after = Following(i, n + 3)
        /\ \A k \in Positions : k # i => h.begun[k] = g.begun[k]
    BY <1>1, <1>15, LoopAdds
  <2> HIDE DEF h
  <2>2. NewLabels(g, h, i)
    <3>1. n >= 2
      BY DEF Shape
    <3>2. CASE IsLast(i)
      BY <1>1, <2>1, <3>1, <3>2 DEF NewAfter, Following, ReturnBlock, NewLabels
    <3>3. CASE ~IsLast(i)
      BY <1>1, <2>1, <3>1, <3>3 DEF NewAfter, Following, NewLabels
    <3> QED BY <3>2, <3>3
  <2>3. Shape(h, i)
    BY <1>2, <2>1, <2>2, ShapeOfNew
  <2> QED BY <2>3 DEF h
<1> QED BY <1>7, <1>8, <1>9, <1>10, <1>11, <1>12, <1>13, <1>14, <1>15, ItemsAre

\* so they are apart after every item.
LEMMA Shapes ==
  ASSUME TextOK, Complete, NEW i \in 0..Len(statements)
  PROVE Shape(Generator[i], i)
<1> DEFINE S == {j \in 0..Len(statements) : Shape(Generator[j], j)}
<1>0. Len(statements) \in Nat /\ Positions = 1..Len(statements)
  BY TextShape0
<1>1. 0 \in S
  <2>1. Generator[0] = Start /\ Heads(0) = {}
    BY GeneratorIs DEF Heads
  <2> QED BY <1>0, <2>1, StartIs DEF Shape, Entry
<1>2. ASSUME NEW j \in 1..Len(statements), j - 1 \in S PROVE j \in S
  <2>1. Generator[j] = Build(Generator[j - 1], j)
    BY GeneratorIs
  <2> QED BY <1>0, <1>2, <2>1, BuildShape
<1> HIDE DEF S
<1>3. 0..Len(statements) \subseteq S
  BY <1>0, <1>1, <1>2, InductionUpTo
<1> QED BY <1>3 DEF S

(* Blocks in the making *)

\* A block that goes on, and a block with its only terminator at its end.
Going(s) == \A k \in 1..Len(s) : ~IsTerminator(s[k])
Ended(s) == s # <<>> /\ \A k \in 1..Len(s) : IsTerminator(s[k]) <=> k = Len(s)

\* Which instructions are terminators.
LEMMA TerminatorsAre ==
  /\ \A p : ~IsTerminator(Exec(p))
  /\ ~IsTerminator(StoreFalse)
  /\ IsTerminator(Ret)
  /\ \A to : IsTerminator(Br(to))
  /\ \A p, yes, no : IsTerminator(CondBr(p, yes, no))
BY DEF IsTerminator, Exec, StoreFalse, Ret, Br, CondBr

\* An empty block goes on.
LEMMA EmptyGoes == Going(<<>>)
BY DEF Going

\* A block goes on until its first terminator.
LEMMA StillGoing ==
  ASSUME NEW s \in Seq(Instructions), NEW x \in Instructions, Going(s)
  PROVE /\ ~IsTerminator(x) => Going(Append(s, x))
        /\ IsTerminator(x) => Ended(Append(s, x))
<1> DEFINE t == Append(s, x)
<1>1. /\ Len(s) \in Nat /\ Len(t) = Len(s) + 1 /\ t # <<>>
      /\ \A k \in 1..Len(s) : t[k] = s[k]
      /\ t[Len(s) + 1] = x
  BY AppendProperties, LenProperties
<1> HIDE DEF t
<1>2. \A k \in 1..Len(t) : k \in 1..Len(s) \/ k = Len(s) + 1
  BY <1>1
<1>3. \A k \in 1..Len(s) : ~IsTerminator(t[k]) /\ k # Len(t)
  BY <1>1 DEF Going
<1>4. ~IsTerminator(x) => Going(t)
  BY <1>1, <1>2, <1>3 DEF Going
<1>5. IsTerminator(x) => Ended(t)
  BY <1>1, <1>2, <1>3 DEF Ended
<1> QED BY <1>4, <1>5 DEF t

\* A complete block does not go on.
LEMMA EndedIs ==
  ASSUME NEW s \in Seq(Instructions), Ended(s)
  PROVE s # <<>> /\ Len(s) \in 1..Len(s) /\ IsTerminator(s[Len(s)]) /\ ~Going(s)
<1>1. Len(s) \in Nat /\ Len(s) # 0 /\ s # <<>>
  BY EmptySeq, LenProperties DEF Ended
<1>2. Len(s) \in 1..Len(s)
  BY <1>1
<1> QED BY <1>1, <1>2 DEF Ended, Going

\* Complete blocks of one and of two instructions.
LEMMA SmallBlocks ==
  /\ \A x : IsTerminator(x) => Ended(<<x>>)
  /\ \A to : Ended(<<StoreFalse, Br(to)>>)
<1>1. ASSUME NEW x, IsTerminator(x) PROVE Ended(<<x>>)
  <2>1. Len(<<x>>) = 1 /\ <<x>> # <<>> /\ <<x>>[1] = x
    OBVIOUS
  <2> QED BY <1>1, <2>1 DEF Ended
<1>2. ASSUME NEW to PROVE Ended(<<StoreFalse, Br(to)>>)
  <2> DEFINE s == <<StoreFalse, Br(to)>>
  <2>1. Len(s) = 2 /\ s # <<>> /\ s[1] = StoreFalse /\ s[2] = Br(to)
    OBVIOUS
  <2> HIDE DEF s
  <2>2. Ended(s)
    BY <2>1, TerminatorsAre DEF Ended
  <2> QED BY <2>2 DEF s
<1> QED BY <1>1, <1>2

------------------------------------------------------------------------------
(* Blocks that wait for code *)

\* Statements whose following block has no code yet, and IFs whose else block has none.
Behind(i) == {h \in Heads(i) : ~IsLast(h) /\ (Finish(h) > i \/ (Finish(h) = i /\ Ends[i] = "closed"))}
Within(i) == {h \in Heads(i) : Op(h) = "IF" /\ End(h) > i}

Reserved(g, i) ==
  {g.begun[h].after : h \in Behind(i)} \cup {g.begun[h].to : h \in Within(i)} \cup {ReturnBlock}

Fitted(i) == \A j \in 1..i : Fits(j)

\* The statements whose next block waits, before an item,
LEMMA BehindBefore ==
  ASSUME TextOK, Complete, NEW i \in Positions, Fits(i)
  PROVE Behind(i - 1) = {h \in Heads(i - 1) : ~IsLast(h) /\ Finish(h) >= i}
<1>1. i \in 1..Len(statements) /\ Positions = 1..Len(statements) /\ Len(statements) \in Nat
  BY TextShape0
<1>2. \A h \in Heads(i - 1) : h \in Positions /\ Op(h) \in Branching
  BY <1>1 DEF Heads
<1>3. \A h \in Heads(i - 1) : Finish(h) \in Nat
  BY <1>1, <1>2, FinishIs
<1>4. ASSUME NEW h \in Heads(i - 1), ~IsLast(h), Finish(h) = i - 1, Ends[i - 1] = "closed" PROVE FALSE
  <2>1. ~Final(i - 1)
    BY <1>2, <1>4, FinishIs
  <2>2. i - 1 + 1 = i
    BY <1>1
  <2>3. Op(i) \notin Closers
    BY <2>1, <2>2 DEF Final
  <2>4. Ends[i - 1] = "open"
    BY <2>3 DEF Fits, Closers, EndsIf
  <2> QED BY <1>4, <2>4
<1>5. \A h \in Heads(i - 1) : Finish(h) > i - 1 <=> Finish(h) >= i
  BY <1>1, <1>3
<1> QED BY <1>4, <1>5 DEF Behind

\* and after it.
LEMMA BehindIs ==
  ASSUME TextOK, Complete, NEW i \in Positions, Fits(i)
  PROVE /\ Op(i) \notin Branching /\ ~EndsIf(i) /\ ~EndsLoop(i) => Behind(i) = Behind(i - 1)
        /\ Op(i) \in Branching => Behind(i) = Behind(i - 1) \cup (IF IsLast(i) THEN {} ELSE {i})
        /\ EndsIf(i) => Behind(i) = IF Ends[i] = "closed" THEN Behind(i - 1) ELSE Behind(i - 1) \ {In(In(i))}
        /\ EndsLoop(i) => Behind(i) = Behind(i - 1) \ {In(i)}
<1>1. i \in 1..Len(statements) /\ Positions = 1..Len(statements) /\ Len(statements) \in Nat
  BY TextShape0
<1>2. \A h \in Heads(i) : h \in Positions /\ Op(h) \in Branching
  BY <1>1 DEF Heads
<1>3. \A h \in Heads(i) : Finish(h) \in Nat /\ h < Finish(h)
  BY <1>1, <1>2, FinishIs
<1>4. Behind(i - 1) = {h \in Heads(i - 1) : ~IsLast(h) /\ Finish(h) >= i}
  BY BehindBefore
<1>5. Heads(i - 1) = Heads(i) \ {i} /\ (i \in Heads(i) <=> Op(i) \in Branching)
  BY <1>1 DEF Heads
<1>6. \A h \in Heads(i) : Finish(h) = i => (EndsIf(i) /\ h = In(In(i))) \/ (EndsLoop(i) /\ h = In(i))
  BY <1>2, EndOf
<1>7. EndsIf(i) \/ EndsLoop(i) => Op(i) \notin Branching
  BY DEF EndsIf, EndsLoop, Branching, Loops
<1>8. \A h \in Heads(i) : Finish(h) >= i <=> Finish(h) > i \/ Finish(h) = i
  BY <1>1, <1>3
<1>9. ASSUME ~EndsIf(i), ~EndsLoop(i)
      PROVE Behind(i) = {h \in Heads(i) : ~IsLast(h) /\ Finish(h) >= i}
  BY <1>6, <1>8, <1>9 DEF Behind
<1>10. ASSUME Op(i) \notin Branching, ~EndsIf(i), ~EndsLoop(i) PROVE Behind(i) = Behind(i - 1)
  BY <1>4, <1>5, <1>9, <1>10
<1>11. ASSUME Op(i) \in Branching
       PROVE Behind(i) = Behind(i - 1) \cup (IF IsLast(i) THEN {} ELSE {i})
  <2>1. i \in Heads(i) /\ Finish(i) >= i
    BY <1>1, <1>3, <1>5, <1>11
  <2> QED BY <1>4, <1>5, <1>7, <1>9, <1>11, <2>1
<1>12. ASSUME EndsIf(i)
       PROVE Behind(i) = IF Ends[i] = "closed" THEN Behind(i - 1) ELSE Behind(i - 1) \ {In(In(i))}
  <2>1. Heads(i) = Heads(i - 1) /\ ~EndsLoop(i)
    BY <1>5, <1>7, <1>12, ItemsAre
  <2>2. Finish(In(In(i))) = i
    BY <1>12, EndOf
  <2>3. CASE Ends[i] = "closed"
    BY <1>4, <1>8, <2>1, <2>3 DEF Behind
  <2>4. CASE Ends[i] # "closed"
    <3>1. Behind(i) = {h \in Heads(i) : ~IsLast(h) /\ Finish(h) > i}
      BY <2>4 DEF Behind
    <3>2. \A h \in Heads(i) : Finish(h) > i <=> Finish(h) >= i /\ h # In(In(i))
      <4>1. ~(i > i)
        BY <1>1
      <4> QED BY <1>6, <1>8, <2>1, <2>2, <4>1
    <3> QED BY <1>4, <2>1, <2>4, <3>1, <3>2
  <2> QED BY <2>3, <2>4
<1>13. ASSUME EndsLoop(i)
       PROVE Behind(i) = Behind(i - 1) \ {In(i)}
  <2>1. Heads(i) = Heads(i - 1) /\ ~EndsIf(i)
    BY <1>5, <1>7, <1>13, ItemsAre
  <2>2. Finish(In(i)) = i
    BY <1>13, EndOf
  <2>3. Ends[i] # "closed"
    BY <1>1, <1>13, EndsIs
  <2>4. Behind(i) = {h \in Heads(i) : ~IsLast(h) /\ Finish(h) > i}
    BY <2>3 DEF Behind
  <2>5. \A h \in Heads(i) : Finish(h) > i <=> Finish(h) >= i /\ h # In(i)
    <3>1. ~(i > i)
      BY <1>1
    <3> QED BY <1>6, <1>8, <2>1, <2>2, <3>1
  <2> QED BY <1>4, <2>1, <2>4, <2>5
<1> QED BY <1>10, <1>11, <1>12, <1>13

\* The branches whose else-block waits.
LEMMA WithinIs ==
  ASSUME TextOK, Complete, NEW i \in Positions
  PROVE /\ Op(i) \notin {"IF", "ELSE"} => Within(i) = Within(i - 1)
        /\ Op(i) = "IF" => Within(i) = Within(i - 1) \cup {i}
        /\ Op(i) = "ELSE" => Within(i) = Within(i - 1) \ {In(i)}
<1>1. i \in 1..Len(statements) /\ Positions = 1..Len(statements) /\ Len(statements) \in Nat
  BY TextShape0
<1>2. \A h \in Heads(i) : h \in Positions /\ Op(h) \in Branching
  BY <1>1 DEF Heads
<1>3. \A h \in Heads(i) : End(h) \in Nat /\ h < End(h)
  BY <1>1, <1>2, FinishIs
<1>4. Heads(i - 1) = Heads(i) \ {i} /\ (i \in Heads(i) <=> Op(i) \in Branching)
  BY <1>1 DEF Heads
<1>5. \A h \in Heads(i) : Op(h) = "IF" /\ End(h) = i => Op(i) = "ELSE" /\ h = In(i)
  BY <1>2, EndOf
<1>6. Op(i) = "ELSE" => End(In(i)) = i
  BY EndOf
<1>7. \A h \in Heads(i) : End(h) > i - 1 <=> End(h) > i \/ End(h) = i
  BY <1>1, <1>3
<1>8. "IF" \in Branching /\ "ELSE" \notin Branching
  BY DEF Branching, Loops
<1>9. ~(i > i)
  BY <1>1
<1>10. Within(i - 1) = {h \in Heads(i) \ {i} : Op(h) = "IF" /\ (End(h) > i \/ End(h) = i)}
  BY <1>4, <1>7 DEF Within
<1>11. ASSUME Op(i) \notin {"IF", "ELSE"} PROVE Within(i) = Within(i - 1)
  BY <1>5, <1>10, <1>11 DEF Within
<1>12. ASSUME Op(i) = "IF" PROVE Within(i) = Within(i - 1) \cup {i}
  <2>1. i \in Heads(i) /\ End(i) > i
    BY <1>1, <1>3, <1>4, <1>8, <1>12
  <2> QED BY <1>5, <1>10, <1>12, <2>1 DEF Within
<1>13. ASSUME Op(i) = "ELSE" PROVE Within(i) = Within(i - 1) \ {In(i)}
  BY <1>5, <1>6, <1>8, <1>9, <1>10, <1>13, <1>4 DEF Within
<1> QED BY <1>11, <1>12, <1>13

\* The blocks that wait are different ones.
LEMMA ReservedIs ==
  ASSUME NEW i \in Nat, NEW g, Shape(g, i)
  PROVE /\ ReturnBlock \in Reserved(g, i) /\ Reserved(g, i) \subseteq 1..Len(g.code)
        /\ \A h \in Heads(i) : g.begun[h].to \in Reserved(g, i) => h \in Within(i)
        /\ \A h \in Heads(i) : ~IsLast(h) /\ g.begun[h].after \in Reserved(g, i) => h \in Behind(i)
<1>1. Len(g.code) \in Nat /\ Len(g.code) >= 2
  BY CodeParts DEF Shape
<1>2. \A h \in Heads(i) : Labelled(g, h)
  BY DEF Shape
<1>3. \A h, k \in Heads(i) : h # k => Apart(g, h, k)
  BY DEF Shape
<1>4. \A h \in Heads(i) : g.begun[h].to \in 3..Len(g.code) /\ g.begun[h].to # g.begun[h].after
                          /\ (IsLast(h) => g.begun[h].after = ReturnBlock)
                          /\ (~IsLast(h) => g.begun[h].after \in 3..Len(g.code))
  BY <1>2 DEF Labelled
<1>5. ReturnBlock \notin 3..Len(g.code) /\ ReturnBlock \in 1..Len(g.code) /\ 3..Len(g.code) \subseteq 1..Len(g.code)
  BY <1>1 DEF ReturnBlock
<1>6. Behind(i) \subseteq Heads(i) /\ Within(i) \subseteq Heads(i) /\ \A h \in Behind(i) : ~IsLast(h)
  BY DEF Behind, Within
<1>7. Reserved(g, i) \subseteq 1..Len(g.code)
  BY <1>4, <1>5, <1>6 DEF Reserved
<1>8. ASSUME NEW h \in Heads(i), g.begun[h].to \in Reserved(g, i) PROVE h \in Within(i)
  <2>1. g.begun[h].to # ReturnBlock
    BY <1>4, <1>5
  <2>2. CASE \E k \in Behind(i) : g.begun[h].to = g.begun[k].after
    <3>1. PICK k \in Behind(i) : g.begun[h].to = g.begun[k].after
      BY <2>2
    <3>2. k \in Heads(i)
      BY <1>6
    <3>3. h # k => g.begun[h].to # g.begun[k].after
      BY <1>3, <3>2 DEF Apart
    <3> QED BY <1>4, <3>1, <3>2, <3>3
  <2>3. CASE \E k \in Within(i) : g.begun[h].to = g.begun[k].to
    <3>1. PICK k \in Within(i) : g.begun[h].to = g.begun[k].to
      BY <2>3
    <3>2. k \in Heads(i)
      BY <1>6
    <3>3. h # k => g.begun[h].to # g.begun[k].to
      BY <1>3, <3>2 DEF Apart
    <3> QED BY <3>1, <3>3
  <2> QED BY <1>8, <2>1, <2>2, <2>3 DEF Reserved
<1>9. ASSUME NEW h \in Heads(i), ~IsLast(h), g.begun[h].after \in Reserved(g, i) PROVE h \in Behind(i)
  <2>1. g.begun[h].after # ReturnBlock
    BY <1>4, <1>5, <1>9
  <2>2. CASE \E k \in Behind(i) : g.begun[h].after = g.begun[k].after
    <3>1. PICK k \in Behind(i) : g.begun[h].after = g.begun[k].after
      BY <2>2
    <3>2. k \in Heads(i)
      BY <1>6
    <3>3. h # k => ~(g.begun[h].after = g.begun[k].after)
      BY <1>3, <3>2, <1>9 DEF Apart
    <3> QED BY <3>1, <3>3
  <2>3. CASE \E k \in Within(i) : g.begun[h].after = g.begun[k].to
    <3>1. PICK k \in Within(i) : g.begun[h].after = g.begun[k].to
      BY <2>3
    <3>2. k \in Heads(i)
      BY <1>6
    <3>3. h # k => g.begun[k].to # g.begun[h].after
      BY <1>3, <3>2 DEF Apart
    <3> QED BY <1>4, <3>1, <3>2, <3>3
  <2> QED BY <1>9, <2>1, <2>2, <2>3 DEF Reserved
<1>10. ReturnBlock \in Reserved(g, i)
  BY DEF Reserved
<1> QED BY <1>7, <1>8, <1>9, <1>10

\* Blocks that wait are empty, the others are complete, but for the one in which the code goes on.
Tidy(g, R, e) ==
  /\ \A b \in R : g.code[b] = <<>>
  /\ \A b \in 1..Len(g.code) : b \notin R /\ b # g.at => Ended(g.code[b])
  /\ e = "open" => g.at \notin R /\ Going(g.code[g.at])
  /\ e = "closed" => g.at \notin R /\ Ended(g.code[g.at])
  /\ e = "return" => g.at = ReturnBlock

\* The blocks that wait are those of the statements.
LEMMA ReservedSame ==
  ASSUME NEW i, NEW j, NEW g, NEW h, h.begun = g.begun, Behind(i) = Behind(j), Within(i) = Within(j)
  PROVE Reserved(h, i) = Reserved(g, j)
BY DEF Reserved

\* Begin of a statement with blocks.
LEMMA ReservedNew ==
  ASSUME TextOK, Complete, NEW i \in Positions, Fits(i), Op(i) \in Branching, NEW g, NEW h,
         \A k \in Positions : k # i => h.begun[k] = g.begun[k]
  PROVE Reserved(h, i) = Reserved(g, i - 1)
                         \cup (IF IsLast(i) THEN {} ELSE {h.begun[i].after})
                         \cup (IF Op(i) = "IF" THEN {h.begun[i].to} ELSE {})
<1>1. Behind(i) = Behind(i - 1) \cup (IF IsLast(i) THEN {} ELSE {i})
  BY BehindIs
<1>2. Within(i) = Within(i - 1) \cup (IF Op(i) = "IF" THEN {i} ELSE {})
  <2>1. Op(i) # "ELSE"
    BY DEF Branching, Loops
  <2>2. CASE Op(i) = "IF"
    BY <2>2, WithinIs
  <2>3. CASE Op(i) # "IF"
    BY <2>1, <2>3, WithinIs
  <2> QED BY <2>2, <2>3
<1>3. \A k \in Heads(i - 1) : k \in Positions /\ k # i
  BY TextShape0 DEF Heads
<1>4. \A k \in Behind(i - 1) \cup Within(i - 1) : h.begun[k] = g.begun[k]
  BY <1>3 DEF Behind, Within
<1>5. {h.begun[k].after : k \in Behind(i)} =
        {g.begun[k].after : k \in Behind(i - 1)} \cup (IF IsLast(i) THEN {} ELSE {h.begun[i].after})
  BY <1>1, <1>4
<1>6. {h.begun[k].to : k \in Within(i)} =
        {g.begun[k].to : k \in Within(i - 1)} \cup (IF Op(i) = "IF" THEN {h.begun[i].to} ELSE {})
  BY <1>2, <1>4
<1> QED BY <1>5, <1>6 DEF Reserved

\* What becomes of the blocks: nothing that waits is touched, one block gets an instruction or is left.
Left(s, f) == (f = "open" /\ Going(s)) \/ (f = "closed" /\ Ended(s))

\* More instructions in the same block.
LEMMA TidyOn ==
  ASSUME NEW g \in GStates, NEW R, NEW e, Tidy(g, R, e), g.at \in 1..Len(g.code),
         NEW h, h.at = g.at, Len(h.code) = Len(g.code),
         \A c \in 1..Len(g.code) : c # g.at => h.code[c] = g.code[c],
         R \subseteq 1..Len(g.code), g.at \notin R,
         NEW f, Left(h.code[g.at], f)
  PROVE Tidy(h, R, f)
<1>1. \A b \in R : h.code[b] = <<>>
  BY DEF Tidy
<1>2. \A b \in 1..Len(h.code) : b \notin R /\ b # h.at => Ended(h.code[b])
  BY DEF Tidy
<1> QED BY <1>1, <1>2 DEF Tidy, Left

\* A block is completed and the code goes on in one that has waited.
LEMMA TidyMove ==
  ASSUME NEW g \in GStates, NEW R, NEW e, Tidy(g, R, e), g.at \in 1..Len(g.code),
         NEW h, Len(h.code) = Len(g.code),
         \A c \in 1..Len(g.code) : c # g.at => h.code[c] = g.code[c],
         Ended(h.code[g.at]), g.at \notin R,
         R \subseteq 1..Len(g.code), h.at \in R, NEW Q, NEW f,
         \/ f = "open" /\ Q = R \ {h.at}
         \/ f = "return" /\ Q = R /\ h.at = ReturnBlock
  PROVE Tidy(h, Q, f)
<1>1. \A b \in R : h.code[b] = <<>>
  BY DEF Tidy
<1>2. Q \subseteq R
  OBVIOUS
<1>3. \A b \in Q : h.code[b] = <<>>
  BY <1>1, <1>2
<1>4. \A b \in 1..Len(h.code) : b \notin Q /\ b # h.at => Ended(h.code[b])
  <2> TAKE b \in 1..Len(h.code)
  <2>1. b \notin Q /\ b # h.at => b \notin R
    OBVIOUS
  <2> QED BY <2>1 DEF Tidy
<1>5. f = "open" => h.at \notin Q /\ Going(h.code[h.at])
  BY <1>1, EmptyGoes
<1> QED BY <1>3, <1>4, <1>5 DEF Tidy

\* The branch from one block to another that has waited, when code needs none.
TidyStep(g, i) == Tidy(Build(g, i), Reserved(Build(g, i), i), Ends[i])

\* Plain statements and returns.
LEMMA TidySimple ==
  ASSUME TextOK, Complete, NEW i \in Positions, Fits(i), NEW g, Shape(g, i - 1),
         Tidy(g, Reserved(g, i - 1), Ends[i - 1]), Op(i) \in {"PLAIN", "YIELD"}
  PROVE TidyStep(g, i)
<1> DEFINE h == Build(g, i)
           R == Reserved(g, i - 1)
<1>1. i \in 1..Len(statements) /\ i - 1 \in Nat
  BY TextShape0
<1>2. g \in GStates /\ g.at \in 1..Len(g.code)
  BY DEF Shape
<1>3. ~EndsIf(i) /\ ~EndsLoop(i) /\ Op(i) \notin Branching /\ Op(i) \notin {"IF", "ELSE"}
  BY DEF EndsIf, EndsLoop, Branching, Loops
<1>4. Ends[i - 1] = "open"
  BY <1>3 DEF Fits
<1>5. Behind(i) = Behind(i - 1) /\ Within(i) = Within(i - 1)
  BY <1>3, BehindIs, WithinIs
<1>6. R \subseteq 1..Len(g.code)
  BY <1>1, ReservedIs
<1>7. g.at \notin R /\ Going(g.code[g.at])
  BY <1>4 DEF Tidy
<1>8. g.code[g.at] \in Seq(Instructions) /\ Exec(Do(i)) \in Instructions /\ Br(ReturnBlock) \in Instructions
  BY <1>2, CodeParts, InstructionsAre DEF ReturnBlock
<1>9. CASE Op(i) = "PLAIN"
  <2>1. /\ h.at = g.at /\ h.begun = g.begun /\ Len(h.code) = Len(g.code)
        /\ h.code[g.at] = Append(g.code[g.at], Exec(Do(i)))
        /\ \A c \in 1..Len(g.code) : c # g.at => h.code[c] = g.code[c]
    BY <1>2, <1>9, PlainAdds
  <2> HIDE DEF h, R
  <2>2. Reserved(h, i) = R
    BY <1>5, <2>1, ReservedSame DEF R
  <2>3. Ends[i] = "open"
    BY <1>1, <1>9, EndsIs
  <2>4. Left(h.code[g.at], "open")
    BY <1>7, <1>8, <2>1, StillGoing, TerminatorsAre DEF Left
  <2>5. Tidy(g, R, "open")
    BY <1>4 DEF R
  <2>6. Tidy(h, R, "open")
    BY <1>2, <1>6, <1>7, <2>1, <2>4, <2>5, TidyOn
  <2> QED BY <2>2, <2>3, <2>6 DEF TidyStep, h
<1>10. CASE Op(i) = "YIELD"
  <2>1. /\ h.at = g.at /\ h.begun = g.begun /\ Len(h.code) = Len(g.code)
        /\ h.code[g.at] = Append(Append(g.code[g.at], Exec(Do(i))), Br(ReturnBlock))
        /\ \A c \in 1..Len(g.code) : c # g.at => h.code[c] = g.code[c]
    BY <1>2, <1>10, YieldAdds
  <2> HIDE DEF h, R
  <2>2. Reserved(h, i) = R
    BY <1>5, <2>1, ReservedSame DEF R
  <2>3. Ends[i] = "closed"
    BY <1>1, <1>10, EndsIs
  <2>4. Left(h.code[g.at], "closed")
    <3> DEFINE s == Append(g.code[g.at], Exec(Do(i)))
    <3>1. s \in Seq(Instructions) /\ Going(s)
      BY <1>7, <1>8, StillGoing, TerminatorsAre, AppendProperties
    <3> HIDE DEF s
    <3>2. Ended(Append(s, Br(ReturnBlock)))
      BY <1>8, <3>1, StillGoing, TerminatorsAre
    <3> QED BY <2>1, <3>2 DEF s, Left
  <2>5. Tidy(g, R, "open")
    BY <1>4 DEF R
  <2>6. Tidy(h, R, "closed")
    BY <1>2, <1>6, <1>7, <2>1, <2>4, <2>5, TidyOn
  <2> QED BY <2>2, <2>3, <2>6 DEF TidyStep, h
<1> QED BY <1>9, <1>10

\* Checks.
LEMMA TidyCheck ==
  ASSUME TextOK, Complete, NEW i \in Positions, Fits(i), NEW g, Shape(g, i - 1),
         Tidy(g, Reserved(g, i - 1), Ends[i - 1]), Op(i) = "CHECK"
  PROVE TidyStep(g, i)
<1> DEFINE h == Build(g, i)
           R == Reserved(g, i - 1)
           n == Len(g.code)
<1>1. i \in 1..Len(statements) /\ i - 1 \in Nat
  BY TextShape0
<1>2. g \in GStates /\ g.at \in 1..n /\ n \in Nat
  BY CodeParts DEF Shape
<1>3. ~EndsIf(i) /\ ~EndsLoop(i) /\ Op(i) \notin Branching /\ Op(i) \notin {"IF", "ELSE"}
  BY DEF EndsIf, EndsLoop, Branching, Loops
<1>4. Ends[i - 1] = "open" /\ Ends[i] = "open"
  BY <1>1, <1>3, EndsIs DEF Fits
<1>5. Behind(i) = Behind(i - 1) /\ Within(i) = Within(i - 1)
  BY <1>3, BehindIs, WithinIs
<1>6. R \subseteq 1..n
  BY <1>1, ReservedIs
<1>7. g.at \notin R /\ Going(g.code[g.at])
  BY <1>4 DEF Tidy
<1>8. /\ h.at = n + 3 /\ h.begun = g.begun /\ Len(h.code) = n + 3
      /\ h.code[g.at] = Append(g.code[g.at], CondBr(Do(i), n + 2, n + 1))
      /\ \A c \in 1..n : c # g.at => h.code[c] = g.code[c]
      /\ h.code[n + 1] = <<StoreFalse, Br(ReturnBlock)>>
      /\ h.code[n + 2] = <<Br(n + 3)>>
      /\ h.code[n + 3] = <<>>
  BY <1>2, CheckAdds
<1>9. Tidy(g, R, "open")
  BY <1>4
<1> HIDE DEF R, h
<1>10. Reserved(h, i) = R
  BY <1>5, <1>8, ReservedSame DEF R
<1> HIDE DEF n
<1>11. Ended(h.code[g.at])
  <2>1. g.code[g.at] \in Seq(Instructions) /\ n + 1 \in Nat /\ n + 2 \in Nat
    BY <1>2, CodeParts DEF n
  <2>2. CondBr(Do(i), n + 2, n + 1) \in Instructions
    BY <2>1, InstructionsAre
  <2> QED BY <1>7, <1>8, <2>1, <2>2, StillGoing, TerminatorsAre
<1>12. \A b \in R : h.code[b] = <<>>
  BY <1>6, <1>7, <1>8, <1>9 DEF Tidy
<1>13. \A b \in 1..Len(h.code) : b \in 1..n \/ b = n + 1 \/ b = n + 2 \/ b = n + 3
  BY <1>2, <1>8
<1>14. Ended(h.code[n + 1]) /\ Ended(h.code[n + 2])
  BY <1>8, SmallBlocks, TerminatorsAre
<1>15. \A b \in 1..n : b \notin R => Ended(h.code[b])
  BY <1>8, <1>9, <1>11 DEF Tidy, n
<1>16. \A b \in 1..Len(h.code) : b \notin R /\ b # h.at => Ended(h.code[b])
  BY <1>8, <1>13, <1>14, <1>15
<1>17. h.at \notin R
  BY <1>2, <1>6, <1>8
<1>18. Going(h.code[h.at])
  BY <1>8, EmptyGoes
<1>19. Tidy(h, R, "open")
  BY <1>12, <1>16, <1>17, <1>18 DEF Tidy
<1> QED BY <1>4, <1>10, <1>19 DEF TidyStep, h

\* A statement that begins leaves its block complete.  Its new blocks are complete or wait, one apart.
NewBlocksTidy(g, h, W) ==
  /\ Len(h.code) >= Len(g.code)
  /\ \A c \in 1..Len(g.code) : c # g.at => h.code[c] = g.code[c]
  /\ Ended(h.code[g.at])
  /\ \A c \in (Len(g.code) + 1)..Len(h.code) : c \notin W /\ c # h.at => Ended(h.code[c])
  /\ \A c \in W : c \in (Len(g.code) + 1)..Len(h.code) /\ h.code[c] = <<>>
  /\ h.at \in (Len(g.code) + 1)..Len(h.code) /\ h.at \notin W /\ h.code[h.at] = <<>>

\* New blocks that wait.
LEMMA TidyNew ==
  ASSUME NEW g \in GStates, NEW R, Tidy(g, R, "open"), g.at \in 1..Len(g.code), R \subseteq 1..Len(g.code),
         NEW h \in GStates, NEW W, NewBlocksTidy(g, h, W)
  PROVE Tidy(h, R \cup W, "open")
<1>1. Len(g.code) \in Nat /\ Len(h.code) \in Nat /\ Len(h.code) >= Len(g.code)
  BY CodeParts DEF NewBlocksTidy
<1>2. /\ \A c \in 1..Len(g.code) : c # g.at => h.code[c] = g.code[c]
      /\ Ended(h.code[g.at])
      /\ \A c \in (Len(g.code) + 1)..Len(h.code) : c \notin W /\ c # h.at => Ended(h.code[c])
      /\ \A c \in W : c \in (Len(g.code) + 1)..Len(h.code) /\ h.code[c] = <<>>
      /\ h.at \in (Len(g.code) + 1)..Len(h.code) /\ h.at \notin W /\ h.code[h.at] = <<>>
  BY DEF NewBlocksTidy
<1>3. /\ \A b \in R : g.code[b] = <<>>
      /\ \A b \in 1..Len(g.code) : b \notin R /\ b # g.at => Ended(g.code[b])
      /\ g.at \notin R
  BY DEF Tidy
<1>4. \A b \in R \cup W : h.code[b] = <<>>
  BY <1>2, <1>3
<1>5. \A b \in 1..Len(h.code) : b \in 1..Len(g.code) \/ b \in (Len(g.code) + 1)..Len(h.code)
  BY <1>1
<1>6. \A b \in 1..Len(g.code) : b \notin R => Ended(h.code[b])
  BY <1>2, <1>3
<1>7. \A b \in 1..Len(h.code) : b \notin R \cup W /\ b # h.at => Ended(h.code[b])
  BY <1>2, <1>5, <1>6
<1>8. h.at \notin R \cup W
  BY <1>1, <1>2
<1>9. Going(h.code[h.at])
  BY <1>2, EmptyGoes
<1> QED BY <1>4, <1>7, <1>8, <1>9 DEF Tidy

\* Begins of statements with blocks.
LEMMA TidyBegin ==
  ASSUME TextOK, Complete, NEW i \in Positions, Fits(i), NEW g, Shape(g, i - 1),
         Tidy(g, Reserved(g, i - 1), Ends[i - 1]), Op(i) \in Branching,
         NEW x \in Instructions, IsTerminator(x), Build(g, i).code[g.at] = Append(g.code[g.at], x),
         Ended(Append(g.code[g.at], x)) =>
           NewBlocksTidy(g, Build(g, i), (IF IsLast(i) THEN {} ELSE {Build(g, i).begun[i].after})
                                         \cup (IF Op(i) = "IF" THEN {Build(g, i).begun[i].to} ELSE {})),
         \A k \in Positions : k # i => Build(g, i).begun[k] = g.begun[k]
  PROVE TidyStep(g, i)
<1> DEFINE h == Build(g, i)
           R == Reserved(g, i - 1)
           W == (IF IsLast(i) THEN {} ELSE {h.begun[i].after}) \cup (IF Op(i) = "IF" THEN {h.begun[i].to} ELSE {})
<1>1. i \in 1..Len(statements) /\ i - 1 \in Nat
  BY TextShape0
<1>2. g \in GStates /\ g.at \in 1..Len(g.code) /\ h \in GStates
  BY BuildGrows DEF Shape
<1>3. Ends[i - 1] = "open" /\ Ends[i] = "open"
  <2>1. Op(i) \notin {"YIELD", "END", "ELSE"} /\ ~EndsIf(i)
    BY DEF Branching, Loops, EndsIf
  <2> QED BY <1>1, <2>1, EndsIs DEF Fits
<1>4. R \subseteq 1..Len(g.code)
  BY <1>1, ReservedIs
<1>5. Reserved(h, i) = R \cup W
  <2>1. \A k \in Positions : k # i => h.begun[k] = g.begun[k]
    OBVIOUS
  <2> HIDE DEF h
  <2>2. Reserved(h, i) = R \cup (IF IsLast(i) THEN {} ELSE {h.begun[i].after})
                           \cup (IF Op(i) = "IF" THEN {h.begun[i].to} ELSE {})
    BY <2>1, ReservedNew
  <2> QED BY <2>2
<1>6. Tidy(g, R, "open")
  BY <1>3
<1>7. NewBlocksTidy(g, h, W)
  <2>1. Going(g.code[g.at]) /\ g.code[g.at] \in Seq(Instructions)
    BY <1>2, <1>6, CodeParts DEF Tidy
  <2> QED BY <2>1, StillGoing
<1> HIDE DEF h, R, W
<1>8. Tidy(h, R \cup W, "open")
  BY <1>2, <1>4, <1>6, <1>7, TidyNew
<1> QED BY <1>3, <1>5, <1>8 DEF TidyStep, h

\* Branches,
LEMMA TidyIf ==
  ASSUME TextOK, Complete, NEW i \in Positions, Fits(i), NEW g, Shape(g, i - 1),
         Tidy(g, Reserved(g, i - 1), Ends[i - 1]), Op(i) = "IF"
  PROVE TidyStep(g, i)
<1> DEFINE h == Build(g, i)
           n == Len(g.code)
           x == CondBr(Do(i), n + 1, n + 2)
           W == (IF IsLast(i) THEN {} ELSE {h.begun[i].after}) \cup (IF Op(i) = "IF" THEN {h.begun[i].to} ELSE {})
<1>1. g \in GStates /\ g.at \in 1..n /\ n \in Nat /\ n + 1 \in Nat /\ n + 2 \in Nat
  <2>1. g \in GStates /\ g.at \in 1..n
    BY DEF Shape
  <2>2. n \in Nat
    BY <2>1, CodeParts
  <2> QED BY <2>1, <2>2
<1>2. x \in Instructions /\ IsTerminator(x) /\ Op(i) \in Branching
  BY <1>1, InstructionsAre, TerminatorsAre DEF Branching, Loops
<1>3. /\ h.at = n + 1 /\ Len(h.code) = NewAfter(i, n + 2)
      /\ h.begun[i].to = n + 2 /\ h.begun[i].after = Following(i, n + 3)
      /\ \A k \in Positions : k # i => h.begun[k] = g.begun[k]
      /\ h.code[g.at] = Append(g.code[g.at], x)
      /\ \A c \in 1..n : c # g.at => h.code[c] = g.code[c]
      /\ \A c \in (n + 1)..Len(h.code) : h.code[c] = <<>>
  BY <1>1, IfAdds
<1> HIDE DEF h, x, n
<1>4. ASSUME Ended(Append(g.code[g.at], x)) PROVE NewBlocksTidy(g, h, W)
  <2>1. Ended(h.code[g.at])
    BY <1>3, <1>4
  <2>2. CASE IsLast(i)
    <3>1. Len(h.code) = n + 2 /\ W = {n + 2}
      BY <1>1, <1>2, <1>3, <2>2 DEF NewAfter, Following
    <3> HIDE DEF W
    <3>2. \A c \in (n + 1)..Len(h.code) : c \notin W /\ c # h.at => FALSE
      BY <1>1, <1>3, <3>1
    <3>3. \A c \in W : c \in (n + 1)..Len(h.code) /\ c \in (n + 1)..Len(h.code)
      BY <1>1, <3>1
    <3>4. h.at \in (n + 1)..Len(h.code) /\ h.at \in (n + 1)..Len(h.code) /\ h.at \notin W /\ Len(h.code) >= n
      BY <1>1, <1>3, <3>1
    <3> QED BY <1>3, <2>1, <3>2, <3>3, <3>4 DEF NewBlocksTidy, n
  <2>3. CASE ~IsLast(i)
    <3>1. Len(h.code) = n + 3 /\ W = {n + 3, n + 2}
      BY <1>1, <1>2, <1>3, <2>3 DEF NewAfter, Following
    <3> HIDE DEF W
    <3>2. \A c \in (n + 1)..Len(h.code) : c \notin W /\ c # h.at => FALSE
      BY <1>1, <1>3, <3>1
    <3>3. \A c \in W : c \in (n + 1)..Len(h.code) /\ c \in (n + 1)..Len(h.code)
      BY <1>1, <3>1
    <3>4. h.at \in (n + 1)..Len(h.code) /\ h.at \in (n + 1)..Len(h.code) /\ h.at \notin W /\ Len(h.code) >= n
      BY <1>1, <1>3, <3>1
    <3> QED BY <1>3, <2>1, <3>2, <3>3, <3>4 DEF NewBlocksTidy, n
  <2> QED BY <2>2, <2>3
<1> QED BY <1>2, <1>3, <1>4, TidyBegin DEF h

\* do-while loops,
LEMMA TidyDo ==
  ASSUME TextOK, Complete, NEW i \in Positions, Fits(i), NEW g, Shape(g, i - 1),
         Tidy(g, Reserved(g, i - 1), Ends[i - 1]), Op(i) = "DO"
  PROVE TidyStep(g, i)
<1> DEFINE h == Build(g, i)
           n == Len(g.code)
           x == Br(n + 1)
           W == (IF IsLast(i) THEN {} ELSE {h.begun[i].after}) \cup (IF Op(i) = "IF" THEN {h.begun[i].to} ELSE {})
<1>1. g \in GStates /\ g.at \in 1..n /\ n \in Nat /\ n + 1 \in Nat /\ n + 2 \in Nat
  <2>1. g \in GStates /\ g.at \in 1..n
    BY DEF Shape
  <2>2. n \in Nat
    BY <2>1, CodeParts
  <2> QED BY <2>1, <2>2
<1>2. x \in Instructions /\ IsTerminator(x) /\ Op(i) \in Branching /\ Op(i) # "IF"
  BY <1>1, InstructionsAre, TerminatorsAre DEF Branching, Loops
<1>3. /\ h.at = n + 1 /\ Len(h.code) = NewAfter(i, n + 1)
      /\ h.begun[i].to = n + 1 /\ h.begun[i].after = Following(i, n + 2)
      /\ \A k \in Positions : k # i => h.begun[k] = g.begun[k]
      /\ h.code[g.at] = Append(g.code[g.at], x)
      /\ \A c \in 1..n : c # g.at => h.code[c] = g.code[c]
      /\ \A c \in (n + 1)..Len(h.code) : h.code[c] = <<>>
  BY <1>1, DoAdds
<1> HIDE DEF h, x, n
<1>4. ASSUME Ended(Append(g.code[g.at], x)) PROVE NewBlocksTidy(g, h, W)
  <2>1. Ended(h.code[g.at])
    BY <1>3, <1>4
  <2>2. CASE IsLast(i)
    <3>1. Len(h.code) = n + 1 /\ W = {}
      BY <1>1, <1>2, <1>3, <2>2 DEF NewAfter, Following
    <3> HIDE DEF W
    <3>2. \A c \in (n + 1)..Len(h.code) : c \notin W /\ c # h.at => FALSE
      BY <1>1, <1>3, <3>1
    <3>3. \A c \in W : c \in (n + 1)..Len(h.code) /\ c \in (n + 1)..Len(h.code)
      BY <1>1, <3>1
    <3>4. h.at \in (n + 1)..Len(h.code) /\ h.at \in (n + 1)..Len(h.code) /\ h.at \notin W /\ Len(h.code) >= n
      BY <1>1, <1>3, <3>1
    <3> QED BY <1>3, <2>1, <3>2, <3>3, <3>4 DEF NewBlocksTidy, n
  <2>3. CASE ~IsLast(i)
    <3>1. Len(h.code) = n + 2 /\ W = {n + 2}
      BY <1>1, <1>2, <1>3, <2>3 DEF NewAfter, Following
    <3> HIDE DEF W
    <3>2. \A c \in (n + 1)..Len(h.code) : c \notin W /\ c # h.at => FALSE
      BY <1>1, <1>3, <3>1
    <3>3. \A c \in W : c \in (n + 1)..Len(h.code) /\ c \in (n + 1)..Len(h.code)
      BY <1>1, <3>1
    <3>4. h.at \in (n + 1)..Len(h.code) /\ h.at \in (n + 1)..Len(h.code) /\ h.at \notin W /\ Len(h.code) >= n
      BY <1>1, <1>3, <3>1
    <3> QED BY <1>3, <2>1, <3>2, <3>3, <3>4 DEF NewBlocksTidy, n
  <2> QED BY <2>2, <2>3
<1> QED BY <1>2, <1>3, <1>4, TidyBegin DEF h

\* and the others.
LEMMA TidyLoop ==
  ASSUME TextOK, Complete, NEW i \in Positions, Fits(i), NEW g, Shape(g, i - 1),
         Tidy(g, Reserved(g, i - 1), Ends[i - 1]), Op(i) \in {"WHILE", "FOR"}
  PROVE TidyStep(g, i)
<1> DEFINE h == Build(g, i)
           n == Len(g.code)
           x == Br(n + 1)
           W == (IF IsLast(i) THEN {} ELSE {h.begun[i].after}) \cup (IF Op(i) = "IF" THEN {h.begun[i].to} ELSE {})
<1>1. g \in GStates /\ g.at \in 1..n /\ n \in Nat /\ n + 1 \in Nat /\ n + 2 \in Nat
  <2>1. g \in GStates /\ g.at \in 1..n
    BY DEF Shape
  <2>2. n \in Nat
    BY <2>1, CodeParts
  <2> QED BY <2>1, <2>2
<1>2. x \in Instructions /\ IsTerminator(x) /\ Op(i) \in Branching /\ Op(i) # "IF"
  BY <1>1, InstructionsAre, TerminatorsAre DEF Branching, Loops
<1>3. /\ h.at = n + 2 /\ Len(h.code) = NewAfter(i, n + 2)
      /\ h.begun[i].to = n + 1 /\ h.begun[i].after = Following(i, n + 3)
      /\ \A k \in Positions : k # i => h.begun[k] = g.begun[k]
      /\ h.code[g.at] = Append(g.code[g.at], x)
      /\ \A c \in 1..n : c # g.at => h.code[c] = g.code[c]
      /\ \A c \in (n + 2)..Len(h.code) : h.code[c] = <<>>
      /\ h.code[n + 1] = <<CondBr(Do(i), n + 2, Following(i, n + 3))>>
  BY <1>1, LoopAdds
<1> HIDE DEF h, x, n
<1>4. ASSUME Ended(Append(g.code[g.at], x)) PROVE NewBlocksTidy(g, h, W)
  <2>1. Ended(h.code[g.at])
    BY <1>3, <1>4
  <2>2. CASE IsLast(i)
    <3>1. Len(h.code) = n + 2 /\ W = {}
      BY <1>1, <1>2, <1>3, <2>2 DEF NewAfter, Following
    <3> HIDE DEF W
    <3>2. \A c \in (n + 1)..Len(h.code) : c \notin W /\ c # h.at => c = n + 1
      BY <1>1, <1>3, <3>1
    <3>3. \A c \in W : c \in (n + 1)..Len(h.code) /\ c \in (n + 2)..Len(h.code)
      BY <1>1, <3>1
    <3>4. h.at \in (n + 1)..Len(h.code) /\ h.at \in (n + 2)..Len(h.code) /\ h.at \notin W /\ Len(h.code) >= n
      BY <1>1, <1>3, <3>1
    <3>5. Ended(h.code[n + 1])
      BY <1>3, SmallBlocks, TerminatorsAre
    <3> QED BY <1>3, <2>1, <3>2, <3>3, <3>4, <3>5 DEF NewBlocksTidy, n
  <2>3. CASE ~IsLast(i)
    <3>1. Len(h.code) = n + 3 /\ W = {n + 3}
      BY <1>1, <1>2, <1>3, <2>3 DEF NewAfter, Following
    <3> HIDE DEF W
    <3>2. \A c \in (n + 1)..Len(h.code) : c \notin W /\ c # h.at => c = n + 1
      BY <1>1, <1>3, <3>1
    <3>3. \A c \in W : c \in (n + 1)..Len(h.code) /\ c \in (n + 2)..Len(h.code)
      BY <1>1, <3>1
    <3>4. h.at \in (n + 1)..Len(h.code) /\ h.at \in (n + 2)..Len(h.code) /\ h.at \notin W /\ Len(h.code) >= n
      BY <1>1, <1>3, <3>1
    <3>5. Ended(h.code[n + 1])
      BY <1>3, SmallBlocks, TerminatorsAre
    <3> QED BY <1>3, <2>1, <3>2, <3>3, <3>4, <3>5 DEF NewBlocksTidy, n
  <2> QED BY <2>2, <2>3
<1> QED BY <1>2, <1>3, <1>4, TidyBegin DEF h

\* A block that goes on has no terminator, a complete one has.
LEMMA TerminatedWhen ==
  ASSUME NEW g \in GStates, g.at \in 1..Len(g.code)
  PROVE /\ Going(g.code[g.at]) => ~Terminated(g)
        /\ Ended(g.code[g.at]) => Terminated(g)
<1> DEFINE s == g.code[g.at]
<1>1. s \in Seq(Instructions)
  BY CodeParts
<1>2. Terminated(g) <=> s # <<>> /\ IsTerminator(s[Len(s)])
  BY TerminatedIs
<1>3. s # <<>> => Len(s) \in 1..Len(s)
  <2>1. Len(s) \in Nat /\ (s # <<>> => Len(s) # 0)
    BY <1>1, EmptySeq, LenProperties
  <2> QED BY <2>1
<1> HIDE DEF s
<1>4. Going(s) => ~Terminated(g)
  BY <1>2, <1>3 DEF Going
<1>5. Ended(s) => Terminated(g)
  BY <1>1, <1>2, EndedIs
<1> QED BY <1>4, <1>5 DEF s

\* Else blocks wait no longer when they begin.
LEMMA ReservedAtElse ==
  ASSUME TextOK, Complete, NEW i \in Positions, Fits(i), Op(i) = "ELSE", NEW g, NEW h,
         Shape(g, i - 1), Shape(h, i), h.begun = g.begun
  PROVE LET to == g.begun[In(i)].to IN
        to \in Reserved(g, i - 1) /\ Reserved(h, i) = Reserved(g, i - 1) \ {to}
<1> DEFINE k == In(i)
           to == g.begun[k].to
<1>1. i \in Nat /\ i - 1 \in Nat /\ i > i - 1 /\ ~(i > i) /\ i \in 1..Len(statements)
  BY TextShape0
<1>2. k \in Heads(i - 1) /\ End(k) = i /\ Op(k) = "IF" /\ k \in Heads(i)
  <2>1. Op(k) = "IF"
    BY ItemsAre
  <2>2. k \in Heads(i - 1) /\ End(k) = i
    BY EndOf
  <2> QED BY <1>1, <2>1, <2>2 DEF Heads
<1>3. k \in Within(i - 1) /\ k \notin Within(i)
  BY <1>1, <1>2 DEF Within
<1>4. Op(i) \notin Branching /\ ~EndsIf(i) /\ ~EndsLoop(i)
  BY DEF Branching, Loops, EndsIf, EndsLoop
<1>5. Within(i) = Within(i - 1) \ {k} /\ Behind(i) = Behind(i - 1)
  BY <1>4, BehindIs, WithinIs
<1>6. to \notin Reserved(h, i)
  <2>1. h.begun[k].to \in Reserved(h, i) => k \in Within(i)
    BY <1>1, <1>2, ReservedIs
  <2> QED BY <1>3, <2>1
<1>7. to \in Reserved(g, i - 1)
  BY <1>3 DEF Reserved
<1> HIDE DEF k
<1>8. Reserved(h, i) \subseteq Reserved(g, i - 1)
  BY <1>5 DEF Reserved
<1>9. Reserved(g, i - 1) \ {to} \subseteq Reserved(h, i)
  BY <1>5 DEF Reserved
<1> QED BY <1>6, <1>7, <1>8, <1>9 DEF k

\* What follows a statement waits no longer when the statement has ended.
Leaving(g, h, i, k) ==
  \/ IsLast(k) /\ h.at = ReturnBlock /\ Reserved(h, i) = Reserved(g, i - 1)
  \/ ~IsLast(k) /\ h.at \in Reserved(g, i - 1) /\ Reserved(h, i) = Reserved(g, i - 1) \ {h.at}

\* The block behind a statement waits no longer at its end.
LEMMA ReservedAtEnd ==
  ASSUME TextOK, Complete, NEW i \in Positions, Fits(i), NEW g, NEW h, NEW k \in Heads(i - 1),
         Finish(k) = i, Ends[i] # "closed", Behind(i) = Behind(i - 1) \ {k}, Within(i) = Within(i - 1),
         Shape(g, i - 1), Shape(h, i), h.begun = g.begun, h.at = g.begun[k].after
  PROVE Leaving(g, h, i, k)
<1>1. i \in Nat /\ i - 1 \in Nat /\ i > i - 1 /\ ~(i > i) /\ i >= i /\ i \in 1..Len(statements)
  BY TextShape0
<1>2. k \in Heads(i)
  BY <1>1 DEF Heads
<1>3. CASE IsLast(k)
  <2>1. k \notin Behind(i - 1)
    BY <1>3 DEF Behind
  <2>2. Behind(i) = Behind(i - 1)
    BY <2>1
  <2>3. Reserved(h, i) = Reserved(g, i - 1)
    BY <2>2, ReservedSame
  <2>4. Labelled(g, k)
    BY DEF Shape
  <2> QED BY <1>3, <2>3, <2>4 DEF Leaving, Labelled
<1>4. CASE ~IsLast(k)
  <2>1. k \in Behind(i - 1) /\ k \notin Behind(i)
    BY <1>1, <1>4, BehindBefore
  <2>2. h.at \in Reserved(g, i - 1)
    BY <2>1 DEF Reserved
  <2>3. h.at \notin Reserved(h, i)
    <3>1. h.begun[k].after \in Reserved(h, i) => k \in Behind(i)
      BY <1>1, <1>2, <1>4, ReservedIs
    <3> QED BY <2>1, <3>1
  <2>4. Reserved(h, i) \subseteq Reserved(g, i - 1)
    BY DEF Reserved
  <2>5. Reserved(g, i - 1) \ {h.at} \subseteq Reserved(h, i)
    BY DEF Reserved
  <2> QED BY <1>4, <2>2, <2>3, <2>4, <2>5 DEF Leaving
<1> QED BY <1>3, <1>4

\* Ends of then-blocks,
LEMMA TidyElse ==
  ASSUME TextOK, Complete, NEW i \in Positions, Fits(i), NEW g, Shape(g, i - 1),
         Tidy(g, Reserved(g, i - 1), Ends[i - 1]), Op(i) = "ELSE"
  PROVE TidyStep(g, i)
<1> DEFINE h == Build(g, i)
           R == Reserved(g, i - 1)
           to == g.begun[In(i)].to
           after == g.begun[In(i)].after
<1>1. i \in 1..Len(statements) /\ i - 1 \in Nat /\ i - 1 \in 0..Len(statements)
  BY TextShape0
<1>2. g \in GStates /\ g.at \in 1..Len(g.code) /\ g.code[g.at] \in Seq(Instructions)
  BY CodeParts DEF Shape
<1>3. (Ends[i - 1] = "open" \/ Ends[i - 1] = "closed") /\ Ends[i] = "open"
  BY <1>1, EndsIs DEF Fits
<1>4. R \subseteq 1..Len(g.code) /\ g.at \notin R
  BY <1>1, <1>3, ReservedIs DEF Tidy
<1>5. /\ h.at = to /\ h.begun = g.begun /\ Len(h.code) = Len(g.code)
      /\ h.code[g.at] = IF Terminated(g) THEN g.code[g.at] ELSE Append(g.code[g.at], Br(after))
      /\ \A c \in 1..Len(g.code) : c # g.at => h.code[c] = g.code[c]
  BY <1>2, ElseAdds
<1>6. Shape(h, i)
  BY BuildShape
<1> HIDE DEF h
<1>7. to \in R /\ Reserved(h, i) = R \ {to}
  BY <1>5, <1>6, ReservedAtElse
<1>8. Br(after) \in Instructions
  <2>1. after \in Nat
    BY <1>2, ItemsAre, BegunIs DEF Closers
  <2> QED BY <2>1, InstructionsAre
<1> HIDE DEF R, to, after
<1>9. Ended(h.code[g.at])
  <2>1. CASE Ends[i - 1] = "open"
    <3>1. Going(g.code[g.at])
      BY <2>1 DEF Tidy
    <3>2. h.code[g.at] = Append(g.code[g.at], Br(after))
      BY <1>2, <1>5, <3>1, TerminatedWhen
    <3> QED BY <1>2, <1>8, <3>1, <3>2, StillGoing, TerminatorsAre
  <2>2. CASE Ends[i - 1] = "closed"
    <3>1. Ended(g.code[g.at])
      BY <2>2 DEF Tidy
    <3>2. h.code[g.at] = g.code[g.at]
      BY <1>2, <1>5, <3>1, TerminatedWhen
    <3> QED BY <3>1, <3>2
  <2> QED BY <1>3, <2>1, <2>2
<1>10. Tidy(g, R, Ends[i - 1])
  BY DEF R
<1>11. Tidy(h, R \ {to}, "open")
  BY <1>2, <1>4, <1>5, <1>7, <1>9, <1>10, TidyMove
<1> QED BY <1>3, <1>7, <1>11 DEF TidyStep, h

\* The block of a statement that ends goes on behind it.
LEMMA TidyLeave ==
  ASSUME NEW i \in Positions, TextOK, Complete, NEW g, Shape(g, i - 1),
         Tidy(g, Reserved(g, i - 1), "open"), NEW h, NEW k \in Positions, Op(k) \in Branching, Finish(k) = i,
         Leaving(g, h, i, k), Len(h.code) = Len(g.code),
         \A c \in 1..Len(g.code) : c # g.at => h.code[c] = g.code[c],
         Ended(h.code[g.at]), Ends[i] = IF Final(i) THEN "return" ELSE "open"
  PROVE Tidy(h, Reserved(h, i), Ends[i])
<1> DEFINE R == Reserved(g, i - 1)
<1>1. i - 1 \in Nat /\ g \in GStates /\ g.at \in 1..Len(g.code)
  BY TextShape0 DEF Shape
<1>2. R \subseteq 1..Len(g.code) /\ ReturnBlock \in R /\ g.at \notin R
  BY <1>1, ReservedIs DEF Tidy
<1>3. IsLast(k) <=> Final(i)
  BY FinishIs
<1> HIDE DEF R
<1>4. CASE IsLast(k)
  <2>1. h.at = ReturnBlock /\ Reserved(h, i) = R /\ Ends[i] = "return"
    BY <1>3, <1>4 DEF Leaving, R
  <2>2. Tidy(g, R, "open")
    BY DEF R
  <2>3. Tidy(h, R, "return")
    BY <1>1, <1>2, <2>1, <2>2, TidyMove
  <2> QED BY <2>1, <2>3
<1>5. CASE ~IsLast(k)
  <2>1. h.at \in R /\ Reserved(h, i) = R \ {h.at} /\ Ends[i] = "open"
    BY <1>3, <1>5 DEF Leaving, R
  <2>2. Tidy(g, R, "open")
    BY DEF R
  <2>3. Tidy(h, R \ {h.at}, "open")
    BY <1>1, <1>2, <2>1, <2>2, TidyMove
  <2> QED BY <2>1, <2>3
<1> QED BY <1>4, <1>5

\* of else-blocks,
LEMMA TidyEndIf ==
  ASSUME TextOK, Complete, NEW i \in Positions, Fits(i), NEW g, Shape(g, i - 1),
         Tidy(g, Reserved(g, i - 1), Ends[i - 1]), EndsIf(i)
  PROVE TidyStep(g, i)
<1> DEFINE h == Build(g, i)
           R == Reserved(g, i - 1)
           k == In(In(i))
           after == g.begun[k].after
<1>1. i \in 1..Len(statements) /\ i - 1 \in Nat /\ i - 1 \in 0..Len(statements)
  BY TextShape0
<1>2. g \in GStates /\ g.at \in 1..Len(g.code) /\ g.code[g.at] \in Seq(Instructions)
  BY CodeParts DEF Shape
<1>3. Ends[i - 1] = "open" \/ Ends[i - 1] = "closed"
  BY <1>1, EndsIs DEF Fits
<1>4. R \subseteq 1..Len(g.code) /\ g.at \notin R
  BY <1>1, <1>3, ReservedIs DEF Tidy
<1>5. /\ h.begun = g.begun /\ Len(h.code) = Len(g.code)
      /\ h.at = IF Terminated(g) THEN g.at ELSE after
      /\ h.code[g.at] = IF Terminated(g) THEN g.code[g.at] ELSE Append(g.code[g.at], Br(after))
      /\ \A c \in 1..Len(g.code) : c # g.at => h.code[c] = g.code[c]
  BY <1>2, EndIfAdds
<1>6. Shape(h, i)
  BY BuildShape
<1>7. k \in Heads(i - 1) /\ Finish(k) = i /\ k \in Positions /\ Op(k) \in Branching
  BY EndOf, ItemsAre DEF Branching
<1>8. Within(i) = Within(i - 1)
  BY WithinIs DEF EndsIf
<1>9. Behind(i) = IF Ends[i] = "closed" THEN Behind(i - 1) ELSE Behind(i - 1) \ {k}
  BY BehindIs
<1>10. Ends[i] = IF Ends[i - 1] = "closed" THEN "closed" ELSE IF Final(i) THEN "return" ELSE "open"
  BY <1>1, EndsIs
<1> HIDE DEF h
<1>11. Br(after) \in Instructions
  <2>1. after \in Nat
    BY <1>2, <1>7, BegunIs
  <2> QED BY <2>1, InstructionsAre
<1> HIDE DEF R, k, after
<1>12. CASE Ends[i - 1] = "closed"
  <2>1. Ended(g.code[g.at])
    BY <1>12 DEF Tidy
  <2>2. h.code[g.at] = g.code[g.at] /\ h.at = g.at
    BY <1>2, <1>5, <2>1, TerminatedWhen
  <2>3. Tidy(g, R, "closed")
    BY <1>12 DEF R
  <2>4. Left(h.code[g.at], "closed")
    BY <2>1, <2>2 DEF Left
  <2>5. Tidy(h, R, "closed")
    BY <1>2, <1>4, <1>5, <2>2, <2>3, <2>4, TidyOn
  <2>6. Ends[i] = "closed" /\ Behind(i) = Behind(i - 1)
    BY <1>9, <1>10, <1>12
  <2>7. Reserved(h, i) = R
    BY <1>5, <1>8, <2>6, ReservedSame DEF R
  <2> QED BY <2>5, <2>6, <2>7 DEF TidyStep, h
<1>13. CASE Ends[i - 1] = "open"
  <2>1. Going(g.code[g.at])
    BY <1>13 DEF Tidy
  <2>2. h.code[g.at] = Append(g.code[g.at], Br(after)) /\ h.at = after
    BY <1>2, <1>5, <2>1, TerminatedWhen
  <2>3. Ended(h.code[g.at])
    BY <1>2, <1>11, <2>1, <2>2, StillGoing, TerminatorsAre
  <2>4. Ends[i] = (IF Final(i) THEN "return" ELSE "open") /\ Ends[i] # "closed"
    BY <1>10, <1>13
  <2>5. Behind(i) = Behind(i - 1) \ {k}
    BY <1>9, <2>4
  <2>6. h.at = g.begun[k].after
    BY <2>2 DEF after
  <2>7. Leaving(g, h, i, k)
    BY <1>5, <1>6, <1>7, <1>8, <2>4, <2>5, <2>6, ReservedAtEnd
  <2>8. Tidy(h, Reserved(h, i), Ends[i])
    BY <1>5, <1>7, <1>13, <2>3, <2>4, <2>7, TidyLeave
  <2> QED BY <2>8 DEF TidyStep, h
<1> QED BY <1>3, <1>12, <1>13

\* and of bodies of loops.
LEMMA TidyEndLoop ==
  ASSUME TextOK, Complete, NEW i \in Positions, Fits(i), NEW g, Shape(g, i - 1),
         Tidy(g, Reserved(g, i - 1), Ends[i - 1]), EndsLoop(i)
  PROVE TidyStep(g, i)
<1> DEFINE h == Build(g, i)
           k == In(i)
           to == g.begun[k].to
           after == g.begun[k].after
<1>1. i \in 1..Len(statements) /\ i - 1 \in Nat
  BY TextShape0
<1>2. g \in GStates /\ g.at \in 1..Len(g.code) /\ g.code[g.at] \in Seq(Instructions)
  BY CodeParts DEF Shape
<1>3. Op(i) # "ELSE" /\ ~EndsIf(i) /\ Op(i) \notin {"IF", "ELSE"}
  BY ItemsAre DEF EndsLoop
<1>4. Ends[i - 1] = "open"
  BY <1>3 DEF Fits
<1>5. /\ h.begun = g.begun /\ Len(h.code) = Len(g.code) /\ h.at = after
      /\ Op(k) = "DO" => h.code[g.at] = Append(g.code[g.at], CondBr(Do(k), to, after))
      /\ Op(k) = "WHILE" => h.code[g.at] = Append(g.code[g.at], Br(to))
      /\ Op(k) = "FOR" => h.code[g.at] = Append(Append(g.code[g.at], Exec(Iter(k))), Br(to))
      /\ \A c \in 1..Len(g.code) : c # g.at => h.code[c] = g.code[c]
  BY <1>2, EndLoopAdds
<1>6. Shape(h, i)
  BY BuildShape
<1>7. k \in Heads(i - 1) /\ Finish(k) = i /\ k \in Positions /\ Op(k) \in Branching /\ Op(k) \in Loops
  BY EndOf, ItemsAre DEF Branching, EndsLoop, Closers
<1>8. Within(i) = Within(i - 1)
  BY <1>3, WithinIs
<1>9. Behind(i) = Behind(i - 1) \ {k}
  BY BehindIs
<1>10. Ends[i] = (IF Final(i) THEN "return" ELSE "open") /\ Ends[i] # "closed"
  BY <1>1, EndsIs
<1> HIDE DEF h
<1>11. Br(to) \in Instructions /\ CondBr(Do(k), to, after) \in Instructions /\ Exec(Iter(k)) \in Instructions
  <2>1. to \in Nat /\ after \in Nat
    BY <1>2, <1>7, BegunIs
  <2> QED BY <1>7, <2>1, InstructionsAre
<1> HIDE DEF k
<1>12. Going(g.code[g.at])
  BY <1>4 DEF Tidy
<1>13. h.at = g.begun[k].after
  BY <1>5
<1> HIDE DEF to, after
<1>14. Ended(h.code[g.at])
  <2>1. CASE Op(k) = "DO"
    BY <1>2, <1>5, <1>11, <1>12, <2>1, StillGoing, TerminatorsAre
  <2>2. CASE Op(k) = "WHILE"
    BY <1>2, <1>5, <1>11, <1>12, <2>2, StillGoing, TerminatorsAre
  <2>3. CASE Op(k) = "FOR"
    <3> DEFINE s == Append(g.code[g.at], Exec(Iter(k)))
    <3>1. s \in Seq(Instructions) /\ Going(s)
      BY <1>2, <1>11, <1>12, StillGoing, TerminatorsAre, AppendProperties
    <3> HIDE DEF s
    <3>2. Ended(Append(s, Br(to)))
      BY <1>11, <3>1, StillGoing, TerminatorsAre
    <3> QED BY <1>5, <2>3, <3>2 DEF s
  <2> QED BY <1>7, <2>1, <2>2, <2>3 DEF Loops
<1>15. Leaving(g, h, i, k)
  BY <1>5, <1>6, <1>7, <1>8, <1>9, <1>10, <1>13, ReservedAtEnd
<1>16. Tidy(h, Reserved(h, i), Ends[i])
  BY <1>4, <1>5, <1>7, <1>10, <1>14, <1>15, TidyLeave
<1> QED BY <1>16 DEF TidyStep, h

\* As long as what comes fits, the blocks are tidy.
LEMMA TidySteps ==
  ASSUME TextOK, Complete, NEW i \in Positions, Fits(i), NEW g, Shape(g, i - 1),
         Tidy(g, Reserved(g, i - 1), Ends[i - 1])
  PROVE TidyStep(g, i)
<1>1. \/ Op(i) \in {"PLAIN", "YIELD"} \/ Op(i) = "CHECK" \/ Op(i) = "IF" \/ Op(i) = "DO"
      \/ Op(i) \in {"WHILE", "FOR"} \/ Op(i) = "ELSE" \/ EndsIf(i) \/ EndsLoop(i)
  BY ItemsAre
<1> QED BY <1>1, TidySimple, TidyCheck, TidyIf, TidyDo, TidyLoop, TidyElse, TidyEndIf, TidyEndLoop

TidyAt(i) == Tidy(Generator[i], Reserved(Generator[i], i), Ends[i])

\* The code is tidy as far as the text fits.
LEMMA TidyWhileFitting ==
  ASSUME TextOK, Complete, NEW n \in 0..Len(statements), Fitted(n)
  PROVE TidyAt(n)
<1> DEFINE S == {j \in 0..n : TidyAt(j)}
<1>0. Len(statements) \in Nat /\ Positions = 1..Len(statements) /\ n \in Nat /\ 1..n \subseteq Positions
  BY TextShape0
<1>1. 0 \in S
  <2>1. Generator[0] = Start /\ Ends[0] = "open"
    BY GeneratorIs, EndsIs
  <2>2. Reserved(Start, 0) = {ReturnBlock}
    BY DEF Reserved, Behind, Within, Heads
  <2>3. \A b \in 1..Len(Start.code) : b = 1 \/ b = 2
    BY StartIs
  <2>4. Tidy(Start, {ReturnBlock}, "open")
    BY <2>3, StartIs, EmptyGoes DEF Tidy, Entry, ReturnBlock
  <2> QED BY <1>0, <2>1, <2>2, <2>4 DEF TidyAt
<1>2. ASSUME NEW j \in 1..n, j - 1 \in S PROVE j \in S
  <2>1. Generator[j] = Build(Generator[j - 1], j) /\ j - 1 \in 0..Len(statements) /\ j \in Positions
    BY <1>0, GeneratorIs
  <2>2. Shape(Generator[j - 1], j - 1) /\ Fits(j)
    BY <2>1, Shapes DEF Fitted
  <2>3. Tidy(Generator[j - 1], Reserved(Generator[j - 1], j - 1), Ends[j - 1])
    BY <1>2 DEF TidyAt
  <2>4. TidyStep(Generator[j - 1], j)
    BY <2>1, <2>2, <2>3, TidySteps
  <2> QED BY <2>1, <2>4 DEF TidyStep, TidyAt
<1> HIDE DEF S
<1>3. 0..n \subseteq S
  BY <1>0, <1>1, <1>2, InductionUpTo
<1> QED BY <1>0, <1>3 DEF S

\* A terminator with something behind it; in the return block a return will follow.
Spoilt(g) ==
  \E b \in 1..Len(g.code) : \E k \in 1..Len(g.code[b]) :
    IsTerminator(g.code[b][k]) /\ (k < Len(g.code[b]) \/ b = ReturnBlock)

\* What is spoilt stays so, as generators only add.
LEMMA SpoiltStays ==
  ASSUME NEW g \in GStates, NEW h, Grows(g, h), Spoilt(g)
  PROVE Spoilt(h)
<1>1. PICK b \in 1..Len(g.code) : \E k \in 1..Len(g.code[b]) :
        IsTerminator(g.code[b][k]) /\ (k < Len(g.code[b]) \/ b = ReturnBlock)
  BY DEF Spoilt
<1>2. PICK k \in 1..Len(g.code[b]) : IsTerminator(g.code[b][k]) /\ (k < Len(g.code[b]) \/ b = ReturnBlock)
  BY <1>1
<1>3. Len(g.code) \in Nat /\ Len(h.code) \in Nat /\ Len(h.code) >= Len(g.code) /\ h \in GStates
  BY CodeParts DEF Grows
<1>4. b \in 1..Len(h.code)
  BY <1>3
<1>5. Len(g.code[b]) \in Nat /\ Len(h.code[b]) \in Nat
  BY <1>3, <1>4, CodeParts, LenProperties
<1>6. Len(h.code[b]) >= Len(g.code[b]) /\ h.code[b][k] = g.code[b][k]
  BY DEF Grows
<1>7. k \in 1..Len(h.code[b]) /\ (k < Len(h.code[b]) \/ b = ReturnBlock)
  BY <1>2, <1>5, <1>6
<1> QED BY <1>2, <1>4, <1>6, <1>7 DEF Spoilt

\* Where a loop or a branch ends in the return block, its block ends.
LEMMA ReturnEnds ==
  ASSUME TextOK, NEW i \in Positions, Ends[i - 1] = "return"
  PROVE Op(i) \in Closers
<1>1. i \in 1..Len(statements) /\ Positions = 1..Len(statements) /\ Len(statements) \in Nat
  BY TextShape0
<1>2. i - 1 # 0
  BY EndsIs
<1>3. i - 1 \in 1..Len(statements) /\ i - 1 + 1 = i /\ i - 1 # Len(statements)
  BY <1>1, <1>2
<1>4. Final(i - 1)
  <2>1. EndsLoop(i - 1) \/ EndsIf(i - 1)
    BY <1>1, <1>3, EndsIs, ItemsAre
  <2> QED BY <1>3, <2>1, EndsIs
<1> QED BY <1>3, <1>4 DEF Final

\* A block with one instruction more.
LEMMA LongerIs ==
  ASSUME NEW s \in Seq(Instructions), NEW x \in Instructions
  PROVE /\ Append(s, x) \in Seq(Instructions) /\ Len(Append(s, x)) > Len(s) /\ Append(s, x) # <<>>
<1>1. Append(s, x) \in Seq(Instructions) /\ Len(Append(s, x)) = Len(s) + 1 /\ Len(s) \in Nat /\ Append(s, x) # <<>>
  BY AppendProperties, LenProperties
<1> QED BY <1>1

\* Code behind a terminator, and a branch from the return block.
LEMMA Spoiling ==
  ASSUME NEW g \in GStates, g.at \in 1..Len(g.code), NEW h, Grows(g, h),
         NEW s \in Seq(Instructions), NEW x \in Instructions,
         h.code[g.at] = s, Len(s) > Len(g.code[g.at]),
         \/ Ended(g.code[g.at])
         \/ g.at = ReturnBlock /\ s = Append(g.code[g.at], x) /\ IsTerminator(x)
         \/ g.at = ReturnBlock /\ \E y \in Instructions : s = Append(Append(g.code[g.at], y), x) /\ IsTerminator(x)
  PROVE Spoilt(h)
<1>1. h \in GStates /\ g.at \in 1..Len(h.code)
  <2>1. Len(g.code) \in Nat /\ Len(h.code) \in Nat /\ Len(h.code) >= Len(g.code)
    BY CodeParts DEF Grows
  <2> QED BY <2>1 DEF Grows
<1>2. g.code[g.at] \in Seq(Instructions) /\ Len(s) \in Nat
  BY CodeParts, LenProperties
<1>3. CASE Ended(g.code[g.at])
  <2>1. Len(g.code[g.at]) \in 1..Len(g.code[g.at]) /\ IsTerminator(g.code[g.at][Len(g.code[g.at])])
    BY <1>2, <1>3, EndedIs
  <2>2. h.code[g.at][Len(g.code[g.at])] = g.code[g.at][Len(g.code[g.at])]
    BY <2>1 DEF Grows
  <2>3. Len(g.code[g.at]) \in 1..Len(s)
    BY <1>2, <2>1
  <2> QED BY <1>1, <2>1, <2>2, <2>3 DEF Spoilt
<1>4. CASE g.at = ReturnBlock /\ \E t \in Seq(Instructions) : s = Append(t, x) /\ IsTerminator(x)
  <2>1. PICK t \in Seq(Instructions) : s = Append(t, x) /\ IsTerminator(x)
    BY <1>4
  <2>2. Len(s) \in 1..Len(s) /\ s[Len(s)] = x
    <3>1. Len(t) \in Nat /\ Len(s) = Len(t) + 1 /\ s[Len(t) + 1] = x
      BY <2>1, AppendProperties, LenProperties
    <3> QED BY <3>1
  <2> QED BY <1>1, <1>4, <2>1, <2>2 DEF Spoilt
<1>5. \A y \in Instructions : Append(g.code[g.at], y) \in Seq(Instructions)
  BY <1>2, AppendProperties
<1> QED BY <1>2, <1>3, <1>4, <1>5

\* What an item adds to the block in which the code has gone on.
Extends(g, h) ==
  \E x \in Instructions :
    \/ h.code[g.at] = Append(g.code[g.at], x)
    \/ \E y \in Instructions : h.code[g.at] = Append(Append(g.code[g.at], y), x)

\* An instruction behind a terminator spoils the code.
LEMMA SpoilingClosed ==
  ASSUME NEW g \in GStates, g.at \in 1..Len(g.code), NEW h, Grows(g, h), Ended(g.code[g.at]), Extends(g, h)
  PROVE Spoilt(h)
<1>1. g.code[g.at] \in Seq(Instructions) /\ Len(g.code[g.at]) \in Nat
  BY CodeParts, LenProperties
<1>2. PICK x \in Instructions :
        \/ h.code[g.at] = Append(g.code[g.at], x)
        \/ \E y \in Instructions : h.code[g.at] = Append(Append(g.code[g.at], y), x)
  BY DEF Extends
<1>3. h.code[g.at] \in Seq(Instructions) /\ Len(h.code[g.at]) > Len(g.code[g.at])
  <2>1. CASE h.code[g.at] = Append(g.code[g.at], x)
    BY <1>1, <2>1, LongerIs
  <2>2. CASE \E y \in Instructions : h.code[g.at] = Append(Append(g.code[g.at], y), x)
    <3>1. PICK y \in Instructions : h.code[g.at] = Append(Append(g.code[g.at], y), x)
      BY <2>2
    <3>2. Append(g.code[g.at], y) \in Seq(Instructions) /\ Len(Append(g.code[g.at], y)) > Len(g.code[g.at])
          /\ Len(Append(g.code[g.at], y)) \in Nat
      BY <1>1, LongerIs, LenProperties
    <3>3. h.code[g.at] \in Seq(Instructions) /\ Len(h.code[g.at]) > Len(Append(g.code[g.at], y))
          /\ Len(h.code[g.at]) \in Nat
      BY <3>1, <3>2, LongerIs, LenProperties
    <3> QED BY <1>1, <3>2, <3>3
  <2> QED BY <1>2, <2>1, <2>2
<1> QED BY <1>3, Spoiling

\* Every item but the ends of the two blocks of an IF adds to the block it finds.
LEMMA MisfitClosed ==
  ASSUME TextOK, NEW i \in Positions, NEW g \in GStates, g.at \in 1..Len(g.code),
         Op(i) # "ELSE", ~EndsIf(i)
  PROVE Extends(g, Build(g, i))
<1> DEFINE h == Build(g, i)
           n == Len(g.code)
<1>1. n \in Nat /\ n + 1 \in Nat /\ n + 2 \in Nat
  <2>1. n \in Nat
    BY CodeParts
  <2> QED BY <2>1
<1> HIDE DEF n
<1>2. /\ Exec(Do(i)) \in Instructions /\ Br(ReturnBlock) \in Instructions /\ Br(n + 1) \in Instructions
      /\ CondBr(Do(i), n + 2, n + 1) \in Instructions /\ CondBr(Do(i), n + 1, n + 2) \in Instructions
  BY <1>1, InstructionsAre DEF ReturnBlock
<1>3. CASE Op(i) = "PLAIN"
  BY <1>2, <1>3, PlainAdds DEF Extends
<1>4. CASE Op(i) = "YIELD"
  BY <1>2, <1>4, YieldAdds DEF Extends
<1>5. CASE Op(i) = "CHECK"
  BY <1>2, <1>5, CheckAdds DEF Extends, n
<1>6. CASE Op(i) = "IF"
  BY <1>2, <1>6, IfAdds DEF Extends, n
<1>7. CASE Op(i) = "DO"
  BY <1>2, <1>7, DoAdds DEF Extends, n
<1>8. CASE Op(i) \in {"WHILE", "FOR"}
  BY <1>2, <1>8, LoopAdds DEF Extends, n
<1>9. CASE EndsLoop(i)
  <2>1. In(i) \in Positions /\ Op(In(i)) \in Loops
    BY <1>9, ItemsAre DEF Closers, EndsLoop
  <2> DEFINE to == g.begun[In(i)].to
             after == g.begun[In(i)].after
  <2>2. to \in Nat /\ after \in Nat
    BY <2>1, BegunIs
  <2>3. Br(to) \in Instructions /\ CondBr(Do(In(i)), to, after) \in Instructions /\ Exec(Iter(In(i))) \in Instructions
    BY <2>1, <2>2, InstructionsAre
  <2> QED BY <1>9, <2>1, <2>3, EndLoopAdds DEF Extends, Loops
<1> QED BY <1>3, <1>4, <1>5, <1>6, <1>7, <1>8, <1>9, ItemsAre

\* A branch is added to the return block when it is not the block to go on in.
LEMMA MisfitReturn ==
  ASSUME TextOK, NEW i \in Positions, NEW g \in GStates, g.at \in 1..Len(g.code), g.at = ReturnBlock,
         g.code[g.at] = <<>>, Op(i) \in Closers
  PROVE Spoilt(Build(g, i))
<1> DEFINE h == Build(g, i)
           s == g.code[g.at]
<1>1. Grows(g, h) /\ s \in Seq(Instructions) /\ Len(s) \in Nat /\ ~Terminated(g)
  BY BuildGrows, CodeParts, LenProperties, EmptyGoes, TerminatedWhen
<1>2. ASSUME NEW x \in Instructions, IsTerminator(x), h.code[g.at] = Append(s, x) PROVE Spoilt(h)
  <2>1. Append(s, x) \in Seq(Instructions) /\ Len(Append(s, x)) > Len(s)
    BY <1>1, LongerIs
  <2> HIDE DEF h
  <2> QED BY <1>1, <1>2, <2>1, Spoiling
<1>3. In(i) \in Positions
  BY ItemsAre
<1>4. CASE Op(i) = "ELSE"
  <2> DEFINE x == Br(g.begun[In(i)].after)
  <2>1. x \in Instructions /\ IsTerminator(x)
    BY <1>3, BegunIs, InstructionsAre, TerminatorsAre
  <2>2. h.code[g.at] = Append(s, x)
    BY <1>1, <1>4, ElseAdds
  <2> HIDE DEF x, h, s
  <2> QED BY <1>2, <2>1, <2>2 DEF h
<1>5. CASE EndsIf(i)
  <2> DEFINE x == Br(g.begun[In(In(i))].after)
  <2>1. x \in Instructions /\ IsTerminator(x)
    BY <1>5, ItemsAre, BegunIs, InstructionsAre, TerminatorsAre
  <2>2. h.code[g.at] = Append(s, x)
    BY <1>1, <1>5, EndIfAdds
  <2> HIDE DEF x, h, s
  <2> QED BY <1>2, <2>1, <2>2 DEF h
<1>6. CASE EndsLoop(i)
  <2> DEFINE to == g.begun[In(i)].to
             after == g.begun[In(i)].after
  <2>1. to \in Nat /\ after \in Nat
    BY <1>3, BegunIs
  <2>2. /\ Br(to) \in Instructions /\ CondBr(Do(In(i)), to, after) \in Instructions /\ Exec(Iter(In(i))) \in Instructions
        /\ IsTerminator(Br(to)) /\ IsTerminator(CondBr(Do(In(i)), to, after))
    BY <1>3, <2>1, InstructionsAre, TerminatorsAre
  <2>3. /\ Op(In(i)) = "DO" => h.code[g.at] = Append(s, CondBr(Do(In(i)), to, after))
        /\ Op(In(i)) = "WHILE" => h.code[g.at] = Append(s, Br(to))
        /\ Op(In(i)) = "FOR" => h.code[g.at] = Append(Append(s, Exec(Iter(In(i)))), Br(to))
    BY <1>6, EndLoopAdds
  <2>4. Op(In(i)) \in {"DO", "WHILE", "FOR"}
    BY <1>6 DEF EndsLoop, Loops
  <2> HIDE DEF to, after, h
  <2>5. CASE Op(In(i)) \in {"DO", "WHILE"}
    BY <1>2, <2>2, <2>3, <2>5 DEF h
  <2>6. CASE Op(In(i)) = "FOR"
    <3> DEFINE y == Exec(Iter(In(i)))
               t == Append(Append(s, y), Br(to))
    <3>1. y \in Instructions /\ h.code[g.at] = t
      BY <2>2, <2>3, <2>6
    <3>2. Append(s, y) \in Seq(Instructions) /\ Len(Append(s, y)) > Len(s) /\ Len(Append(s, y)) \in Nat
      BY <1>1, <3>1, LongerIs, LenProperties
    <3>3. t \in Seq(Instructions) /\ Len(t) > Len(Append(s, y)) /\ Len(t) \in Nat
      BY <2>2, <3>2, LongerIs, LenProperties
    <3>4. Len(t) > Len(s)
      BY <1>1, <3>2, <3>3
    <3>5. \E z \in Instructions : t = Append(Append(s, z), Br(to)) /\ IsTerminator(Br(to))
      BY <2>2, <3>1
    <3> HIDE DEF t, y
    <3>6. Spoilt(h)
      BY <1>1, <2>2, <3>1, <3>3, <3>4, <3>5, Spoiling
    <3> QED BY <3>6 DEF h
  <2> QED BY <2>4, <2>5, <2>6
<1> QED BY <1>4, <1>5, <1>6, ItemsAre DEF Closers

\* What does not fit spoils the code.
LEMMA MisfitSpoils ==
  ASSUME TextOK, Complete, NEW i \in Positions, ~Fits(i), NEW g, Shape(g, i - 1),
         Tidy(g, Reserved(g, i - 1), Ends[i - 1])
  PROVE Spoilt(Build(g, i))
<1>1. i \in 1..Len(statements) /\ i - 1 \in Nat /\ i - 1 \in 0..Len(statements)
  BY TextShape0
<1>2. g \in GStates /\ g.at \in 1..Len(g.code)
  BY DEF Shape
<1>3. Ends[i - 1] \in {"open", "closed", "return"}
  BY <1>1, EndsIs
<1>4. CASE Ends[i - 1] = "closed"
  <2>1. Op(i) # "ELSE" /\ ~EndsIf(i)
    BY <1>4 DEF Fits
  <2>2. Ended(g.code[g.at])
    BY <1>4 DEF Tidy
  <2> QED BY <1>2, <2>1, <2>2, MisfitClosed, SpoilingClosed, BuildGrows
<1>5. CASE Ends[i - 1] = "return"
  <2>1. Op(i) \in Closers
    BY <1>5, ReturnEnds
  <2>2. g.at = ReturnBlock /\ ReturnBlock \in Reserved(g, i - 1)
    BY <1>5, <1>1, ReservedIs DEF Tidy
  <2>3. g.code[g.at] = <<>>
    BY <2>2 DEF Tidy
  <2> QED BY <1>2, <2>1, <2>2, <2>3, MisfitReturn
<1>6. CASE Ends[i - 1] = "open"
  BY <1>6 DEF Fits
<1> QED BY <1>3, <1>4, <1>5, <1>6

\* A text that does not fit spoils the code.
LEMMA MisfitsSpoil ==
  ASSUME TextOK, Complete, ~(\A i \in Positions : Fits(i))
  PROVE Spoilt(Generator[Len(statements)])
<1> DEFINE N == Len(statements)
           T == {i \in Positions : ~Fits(i)}
<1>0. N \in Nat /\ Positions = 1..N
  BY TextShape0
<1>1. T \subseteq Nat /\ T # {}
  BY <1>0
<1>2. PICK m \in T : \A y \in T : m <= y
  BY <1>1, LeastNat
<1>3. m \in 1..N /\ ~Fits(m) /\ m - 1 \in 0..N
  BY <1>0
<1>4. Fitted(m - 1)
  BY <1>0, <1>2, <1>3 DEF Fitted
<1>5. TidyAt(m - 1)
  BY <1>3, <1>4, TidyWhileFitting
<1>6. Spoilt(Generator[m])
  <2>1. Shape(Generator[m - 1], m - 1) /\ Generator[m] = Build(Generator[m - 1], m)
    BY <1>3, Shapes, GeneratorIs
  <2> QED BY <1>0, <1>3, <1>5, <2>1, MisfitSpoils DEF TidyAt
<1> HIDE DEF T
<1> DEFINE S == {i \in 0..N : i < m \/ Spoilt(Generator[i])}
<1>7. 0 \in S
  BY <1>0, <1>3
<1>8. ASSUME NEW j \in 1..N, j - 1 \in S PROVE j \in S
  <2>1. CASE j < m
    BY <1>0, <2>1
  <2>2. CASE j = m
    BY <1>0, <1>6, <2>2
  <2>3. CASE j > m
    <3>1. Spoilt(Generator[j - 1]) /\ j - 1 \in 0..N
      BY <1>0, <1>3, <1>8, <2>3
    <3>2. Generator[j] = Build(Generator[j - 1], j) /\ Generator[j - 1] \in GStates
      BY <3>1, GeneratorIs
    <3>3. Spoilt(Generator[j])
      BY <1>0, <3>1, <3>2, BuildGrows, SpoiltStays
    <3> QED BY <3>3
  <2> QED BY <1>3, <2>1, <2>2, <2>3
<1>9. 0..N \subseteq S
  <2> HIDE DEF S
  <2> QED BY <1>0, <1>7, <1>8, InductionUpTo
<1>10. ~(N < m) /\ N \in 0..N
  BY <1>0, <1>3
<1> QED BY <1>9, <1>10

(* The code of a function *)

GeneratedFrom(g) == Emit(SetInsertPoint(g, ReturnBlock), Ret)

\* The code is what the last item leaves, with the return.
LEMMA GeneratedIs ==
  ASSUME TextOK, Complete, NEW g, g = Generator[Len(statements)]
  PROVE /\ Generated = GeneratedFrom(g).code
        /\ Generated \in Seq(Seq(Instructions)) /\ Len(Generated) = Len(g.code)
        /\ ReturnBlock \in 1..Len(g.code)
        /\ Generated[ReturnBlock] = Append(g.code[ReturnBlock], Ret)
        /\ \A b \in 1..Len(g.code) : b # ReturnBlock => Generated[b] = g.code[b]
<1> DEFINE p == SetInsertPoint(g, ReturnBlock)
           e == Emit(p, Ret)
<1>1. g \in GStates /\ Len(g.code) \in Nat /\ Len(g.code) >= 2
  <2>1. Len(statements) \in 0..Len(statements)
    BY TextShape0
  <2>2. Shape(g, Len(statements))
    BY <2>1, Shapes
  <2> QED BY <2>2, CodeParts DEF Shape
<1>2. p \in GStates /\ p.at = ReturnBlock /\ p.code = g.code
  BY <1>1, SetInsertPointIs DEF ReturnBlock
<1> HIDE DEF p
<1>3. ReturnBlock \in 1..Len(g.code)
  BY <1>1 DEF ReturnBlock
<1>4. Adds(p, e, Ret, ReturnBlock)
  BY <1>2, <1>3, InstructionsAre, EmitAdds
<1>5. Generated = e.code /\ e = GeneratedFrom(g)
  BY DEF Generated, GeneratedFrom, p
<1> HIDE DEF e
<1> QED BY <1>2, <1>3, <1>4, <1>5, CodeParts DEF Adds

\* The verifier accepts complete blocks.
LEMMA VerifiedIs ==
  ASSUME NEW c \in Seq(Seq(Instructions))
  PROVE Verified(c) <=> \A b \in 1..Len(c) : Ended(c[b])
<1>1. DOMAIN c = 1..Len(c) /\ \A b \in 1..Len(c) : c[b] \in Seq(Instructions) /\ DOMAIN c[b] = 1..Len(c[b])
  BY LenProperties, ElementOfSeq
<1> QED BY <1>1 DEF Verified, Ended

\* The verifier refuses spoilt code.
LEMMA SpoiltFails ==
  ASSUME TextOK, Complete, Spoilt(Generator[Len(statements)])
  PROVE ~Verified(Generated)
<1>1. PICK g : g = Generator[Len(statements)]
  OBVIOUS
<1>2. PICK b \in 1..Len(g.code) : \E k \in 1..Len(g.code[b]) :
        IsTerminator(g.code[b][k]) /\ (k < Len(g.code[b]) \/ b = ReturnBlock)
  BY <1>1 DEF Spoilt
<1>3. PICK k \in 1..Len(g.code[b]) : IsTerminator(g.code[b][k]) /\ (k < Len(g.code[b]) \/ b = ReturnBlock)
  BY <1>2
<1>4. /\ Generated \in Seq(Seq(Instructions)) /\ Len(Generated) = Len(g.code)
      /\ Generated[ReturnBlock] = Append(g.code[ReturnBlock], Ret)
      /\ b # ReturnBlock => Generated[b] = g.code[b]
  BY <1>1, GeneratedIs
<1>5. g \in GStates
  BY <1>1, GeneratorIs, TextShape0
<1>6. g.code[b] \in Seq(Instructions) /\ Len(g.code[b]) \in Nat
  BY <1>5, CodeParts, LenProperties
<1>7. k \in 1..Len(Generated[b]) /\ IsTerminator(Generated[b][k]) /\ k # Len(Generated[b])
  <2>1. CASE b # ReturnBlock
    BY <1>3, <1>4, <1>6, <2>1
  <2>2. CASE b = ReturnBlock
    <3>1. Len(Append(g.code[b], Ret)) = Len(g.code[b]) + 1 /\ Append(g.code[b], Ret)[k] = g.code[b][k]
      BY <1>6, InstructionsAre, AppendProperties
    <3>2. Generated[b] = Append(g.code[b], Ret)
      BY <1>4, <2>2
    <3>3. Len(Generated[b]) = Len(g.code[b]) + 1 /\ Generated[b][k] = g.code[b][k]
      BY <3>1, <3>2
    <3> QED BY <1>3, <1>6, <3>3
  <2> QED BY <2>1, <2>2
<1>8. ~Ended(Generated[b])
  BY <1>7 DEF Ended
<1> QED BY <1>4, <1>8, VerifiedIs

\* Nothing waits at the end of the text.
LEMMA NothingWaits ==
  ASSUME TextOK, Complete, NEW g
  PROVE Reserved(g, Len(statements)) = {ReturnBlock}
<1>1. Len(statements) \in Nat /\ Positions = 1..Len(statements)
  BY TextShape0
<1>2. \A h \in Heads(Len(statements)) : h \in Positions /\ Op(h) \in Branching
  BY <1>1 DEF Heads
<1>3. \A h \in Heads(Len(statements)) : ~(Finish(h) > Len(statements)) /\ ~(End(h) > Len(statements))
  BY <1>1, <1>2, FinishIs
<1>4. \A h \in Heads(Len(statements)) : Finish(h) = Len(statements) => IsLast(h)
  BY <1>2, FinishIs DEF Final
<1>5. Behind(Len(statements)) = {} /\ Within(Len(statements)) = {}
  BY <1>3, <1>4 DEF Behind, Within
<1> QED BY <1>5 DEF Reserved

\* The verifier accepts what fits, and nothing else.
LEMMA GeneratedVerified ==
  ASSUME TextOK, Complete
  PROVE Verified(Generated) <=> (\A i \in Positions : Fits(i)) /\ Ends[Len(statements)] # "open"
<1>1. CASE ~(\A i \in Positions : Fits(i))
  BY <1>1, MisfitsSpoil, SpoiltFails
<1>2. CASE \A i \in Positions : Fits(i)
  <2> DEFINE N == Len(statements)
  <2>1. PICK g : g = Generator[N]
    OBVIOUS
  <2>2. N \in 0..N /\ Positions = 1..N
    BY TextShape0
  <2>3. TidyAt(N)
    BY <1>2, <2>2, TidyWhileFitting DEF Fitted
  <2>4. Tidy(g, {ReturnBlock}, Ends[N])
    BY <2>1, <2>3, NothingWaits DEF TidyAt
  <2>5. Shape(g, N)
    BY <2>1, <2>2, Shapes
  <2>6. /\ Generated \in Seq(Seq(Instructions)) /\ Len(Generated) = Len(g.code)
        /\ Generated[ReturnBlock] = Append(g.code[ReturnBlock], Ret)
        /\ \A b \in 1..Len(g.code) : b # ReturnBlock => Generated[b] = g.code[b]
    BY <2>1, GeneratedIs
  <2>7. g \in GStates /\ g.at \in 1..Len(g.code) /\ g.code[g.at] \in Seq(Instructions)
    BY <2>5, CodeParts DEF Shape
  <2>8. Ends[N] \in {"open", "closed", "return"}
    BY <2>2, EndsIs
  <2> HIDE DEF N
  <2>9. CASE Ends[N] = "open"
    <3>1. g.at # ReturnBlock /\ Going(g.code[g.at])
      BY <2>4, <2>9 DEF Tidy
    <3>2. ~Ended(Generated[g.at])
      BY <2>6, <2>7, <3>1, EndedIs
    <3> QED BY <2>6, <2>7, <2>9, <3>2, VerifiedIs DEF N
  <2>10. CASE Ends[N] # "open"
    <3>1. \A b \in 1..Len(g.code) : b # ReturnBlock => Ended(g.code[b])
      BY <2>4, <2>8, <2>10 DEF Tidy
    <3>2. Ended(Generated[ReturnBlock])
      <4>1. g.code[ReturnBlock] = <<>>
        BY <2>4 DEF Tidy
      <4> QED BY <2>6, <4>1, AppendToEmpty, SmallBlocks, TerminatorsAre
    <3>3. \A b \in 1..Len(Generated) : Ended(Generated[b])
      BY <2>6, <3>1, <3>2
    <3> QED BY <1>2, <2>6, <2>10, <3>3, VerifiedIs DEF N
  <2> QED BY <2>9, <2>10
<1> QED BY <1>1, <1>2

------------------------------------------------------------------------------
(* Branches lead to blocks of the function *)

Aimed(x, n) ==
  /\ x.op = "br" => x.to \in 1..n
  /\ x.op = "condbr" => x.yes \in 1..n /\ x.no \in 1..n

BlockAimed(s, n) == \A k \in 1..Len(s) : Aimed(s[k], n)
CodeAimed(g) == \A b \in 1..Len(g.code) : BlockAimed(g.code[b], Len(g.code))

\* Instructions lead to blocks,
LEMMA InstructionsAim ==
  ASSUME NEW n
  PROVE /\ \A p : Aimed(Exec(p), n)
        /\ Aimed(StoreFalse, n) /\ Aimed(Ret, n)
        /\ \A to \in 1..n : Aimed(Br(to), n)
        /\ \A p : \A yes, no \in 1..n : Aimed(CondBr(p, yes, no), n)
BY DEF Aimed, Exec, StoreFalse, Ret, Br, CondBr

\* so do those of small blocks,
LEMMA BlocksAim ==
  ASSUME NEW n \in Nat
  PROVE /\ BlockAimed(<<>>, n)
        /\ \A x : Aimed(x, n) => BlockAimed(<<x>>, n)
        /\ \A x, y : Aimed(x, n) /\ Aimed(y, n) => BlockAimed(<<x, y>>, n)
<1>1. BlockAimed(<<>>, n)
  BY DEF BlockAimed
<1>2. ASSUME NEW x, Aimed(x, n) PROVE BlockAimed(<<x>>, n)
  <2>1. Len(<<x>>) = 1 /\ <<x>>[1] = x
    OBVIOUS
  <2> QED BY <1>2, <2>1 DEF BlockAimed
<1>3. ASSUME NEW x, NEW y, Aimed(x, n), Aimed(y, n) PROVE BlockAimed(<<x, y>>, n)
  <2> DEFINE s == <<x, y>>
  <2>1. Len(s) = 2 /\ s[1] = x /\ s[2] = y
    OBVIOUS
  <2> HIDE DEF s
  <2>2. BlockAimed(s, n)
    BY <1>3, <2>1 DEF BlockAimed
  <2> QED BY <2>2 DEF s
<1> QED BY <1>1, <1>2, <1>3

\* and of longer ones.
LEMMA BlockAimsOn ==
  ASSUME NEW n \in Nat, NEW m \in Nat, m >= n, NEW s \in Seq(Instructions), BlockAimed(s, n)
  PROVE /\ BlockAimed(s, m)
        /\ \A x \in Instructions : Aimed(x, m) => BlockAimed(Append(s, x), m)
<1>1. \A k \in 1..n : k \in 1..m
  OBVIOUS
<1>2. BlockAimed(s, m)
  BY <1>1 DEF BlockAimed, Aimed
<1>3. ASSUME NEW x \in Instructions, Aimed(x, m) PROVE BlockAimed(Append(s, x), m)
  <2> DEFINE t == Append(s, x)
  <2>1. Len(s) \in Nat /\ Len(t) = Len(s) + 1 /\ (\A k \in 1..Len(s) : t[k] = s[k]) /\ t[Len(s) + 1] = x
    BY AppendProperties, LenProperties
  <2>2. \A k \in 1..Len(t) : k \in 1..Len(s) \/ k = Len(s) + 1
    BY <2>1
  <2> HIDE DEF t
  <2>3. BlockAimed(t, m)
    BY <1>2, <1>3, <2>1, <2>2 DEF BlockAimed
  <2> QED BY <2>3 DEF t
<1> QED BY <1>2, <1>3

\* One block of the old ones gets instructions that aim at blocks there are, the new blocks have only such.
LEMMA CodeAimsOn ==
  ASSUME NEW g \in GStates, CodeAimed(g), g.at \in 1..Len(g.code), NEW h \in GStates, Len(h.code) >= Len(g.code),
         \A c \in 1..Len(g.code) : c # g.at => h.code[c] = g.code[c],
         BlockAimed(h.code[g.at], Len(h.code)),
         \A c \in (Len(g.code) + 1)..Len(h.code) : BlockAimed(h.code[c], Len(h.code))
  PROVE CodeAimed(h)
<1>1. Len(g.code) \in Nat /\ Len(h.code) \in Nat /\ \A c \in 1..Len(g.code) : g.code[c] \in Seq(Instructions)
  BY CodeParts
<1>2. \A c \in 1..Len(h.code) : c \in 1..Len(g.code) \/ c \in (Len(g.code) + 1)..Len(h.code)
  BY <1>1
<1>3. \A c \in 1..Len(g.code) : BlockAimed(g.code[c], Len(h.code))
  BY <1>1, BlockAimsOn DEF CodeAimed
<1> QED BY <1>2, <1>3 DEF CodeAimed

\* The branches that an item adds lead to blocks that there are.
LEMMA BuildAims ==
  ASSUME TextOK, Complete, NEW i \in Positions, NEW g, Shape(g, i - 1), CodeAimed(g)
  PROVE CodeAimed(Build(g, i))
<1> DEFINE h == Build(g, i)
           n == Len(g.code)
           m == Len(h.code)
<1>1. g \in GStates /\ g.at \in 1..n /\ n \in Nat /\ n >= 2 /\ g.code[g.at] \in Seq(Instructions)
      /\ BlockAimed(g.code[g.at], n)
  BY CodeParts DEF Shape, CodeAimed
<1>2. h \in GStates /\ Shape(h, i) /\ m \in Nat /\ m >= n
  <2>1. h \in GStates /\ Grows(g, h) /\ Shape(h, i)
    BY <1>1, BuildGrows, BuildShape
  <2> QED BY <2>1, CodeParts DEF Grows
<1>3. n + 1 \in Nat /\ n + 2 \in Nat /\ ReturnBlock \in 1..m
  BY <1>1, <1>2 DEF ReturnBlock
<1>4. \A k \in Heads(i) : h.begun[k].to \in 1..m /\ h.begun[k].after \in 1..m
  <2> TAKE k \in Heads(i)
  <2>1. Labelled(h, k)
    BY <1>2 DEF Shape
  <2> QED BY <1>2, <1>3, <2>1 DEF Labelled
<1>5. Heads(i - 1) \subseteq Heads(i) /\ (Op(i) \in Branching => i \in Heads(i))
  BY TextShape0 DEF Heads
<1> HIDE DEF h, n, m
<1>6. ASSUME NEW x \in Instructions, Aimed(x, m)
      PROVE BlockAimed(Append(g.code[g.at], x), m)
  BY <1>1, <1>2, <1>6, BlockAimsOn
<1>7. ASSUME NEW y \in Instructions, NEW x \in Instructions, Aimed(y, m), Aimed(x, m)
      PROVE BlockAimed(Append(Append(g.code[g.at], y), x), m)
  <2>1. Append(g.code[g.at], y) \in Seq(Instructions) /\ BlockAimed(Append(g.code[g.at], y), m) /\ m >= m
    BY <1>1, <1>2, <1>6, <1>7, AppendProperties
  <2> QED BY <1>2, <1>7, <2>1, BlockAimsOn
<1>8. ASSUME \A c \in 1..n : c # g.at => h.code[c] = g.code[c], BlockAimed(h.code[g.at], m),
             \A c \in (n + 1)..m : BlockAimed(h.code[c], m)
      PROVE CodeAimed(h)
  BY <1>1, <1>2, <1>8, CodeAimsOn DEF n, m
<1>9. BlockAimed(<<>>, m)
  BY <1>2, BlocksAim
<1>10. /\ Exec(Do(i)) \in Instructions /\ Aimed(Exec(Do(i)), m)
       /\ Br(ReturnBlock) \in Instructions /\ Aimed(Br(ReturnBlock), m)
       /\ \A b \in 1..m : Br(b) \in Instructions /\ Aimed(Br(b), m)
       /\ \A p \in Points : \A a, b \in 1..m : CondBr(p, a, b) \in Instructions /\ Aimed(CondBr(p, a, b), m)
       /\ \A k \in Positions : Do(k) \in Points /\ Exec(Iter(k)) \in Instructions /\ Aimed(Exec(Iter(k)), m)
  <2>1. \A b \in 1..m : b \in Nat
    BY <1>2
  <2> QED BY <1>3, <2>1, InstructionsAre, InstructionsAim DEF ReturnBlock
<1>11. ASSUME m = n PROVE \A c \in (n + 1)..m : BlockAimed(h.code[c], m)
  BY <1>1, <1>11
<1>12. CASE Op(i) = "PLAIN"
  <2>1. /\ m = n /\ h.code[g.at] = Append(g.code[g.at], Exec(Do(i)))
        /\ \A c \in 1..n : c # g.at => h.code[c] = g.code[c]
    BY <1>1, <1>12, PlainAdds DEF h, n, m
  <2> QED BY <1>6, <1>8, <1>10, <1>11, <2>1 DEF h
<1>13. CASE Op(i) = "YIELD"
  <2>1. /\ m = n /\ h.code[g.at] = Append(Append(g.code[g.at], Exec(Do(i))), Br(ReturnBlock))
        /\ \A c \in 1..n : c # g.at => h.code[c] = g.code[c]
    BY <1>1, <1>13, YieldAdds DEF h, n, m
  <2> QED BY <1>7, <1>8, <1>10, <1>11, <2>1 DEF h
<1>14. CASE Op(i) = "CHECK"
  <2>1. /\ m = n + 3
        /\ h.code[g.at] = Append(g.code[g.at], CondBr(Do(i), n + 2, n + 1))
        /\ \A c \in 1..n : c # g.at => h.code[c] = g.code[c]
        /\ h.code[n + 1] = <<StoreFalse, Br(ReturnBlock)>>
        /\ h.code[n + 2] = <<Br(n + 3)>>
        /\ h.code[n + 3] = <<>>
    BY <1>1, <1>14, CheckAdds DEF h, n, m
  <2>2. n + 1 \in 1..m /\ n + 2 \in 1..m /\ n + 3 \in 1..m
    BY <1>1, <2>1
  <2>3. \A c \in (n + 1)..m : c = n + 1 \/ c = n + 2 \/ c = n + 3
    BY <1>1, <2>1
  <2>4. BlockAimed(h.code[n + 1], m) /\ BlockAimed(h.code[n + 2], m) /\ BlockAimed(h.code[n + 3], m)
    BY <1>2, <1>9, <1>10, <2>1, <2>2, BlocksAim, InstructionsAim
  <2>5. BlockAimed(h.code[g.at], m)
    BY <1>6, <1>10, <2>1, <2>2
  <2> QED BY <1>8, <2>1, <2>3, <2>4, <2>5 DEF h
<1>15. CASE Op(i) = "IF"
  <2>1. /\ h.at = n + 1 /\ h.begun[i].to = n + 2
        /\ h.code[g.at] = Append(g.code[g.at], CondBr(Do(i), n + 1, n + 2))
        /\ \A c \in 1..n : c # g.at => h.code[c] = g.code[c]
        /\ \A c \in (n + 1)..m : h.code[c] = <<>>
    BY <1>1, <1>15, IfAdds DEF h, n, m
  <2>2. n + 1 \in 1..m /\ n + 2 \in 1..m
    BY <1>2, <1>4, <1>5, <1>15, <2>1 DEF Shape, Branching, m
  <2>3. BlockAimed(h.code[g.at], m)
    BY <1>6, <1>10, <2>1, <2>2
  <2> QED BY <1>8, <1>9, <2>1, <2>3 DEF h
<1>16. CASE Op(i) = "DO"
  <2>1. /\ h.at = n + 1 /\ h.code[g.at] = Append(g.code[g.at], Br(n + 1))
        /\ \A c \in 1..n : c # g.at => h.code[c] = g.code[c]
        /\ \A c \in (n + 1)..m : h.code[c] = <<>>
    BY <1>1, <1>16, DoAdds DEF h, n, m
  <2>2. n + 1 \in 1..m
    BY <1>2, <2>1 DEF Shape, m
  <2>3. BlockAimed(h.code[g.at], m)
    BY <1>6, <1>10, <2>1, <2>2
  <2> QED BY <1>8, <1>9, <2>1, <2>3 DEF h
<1>17. CASE Op(i) \in {"WHILE", "FOR"}
  <2>1. /\ h.at = n + 2 /\ h.begun[i].to = n + 1 /\ h.begun[i].after = Following(i, n + 3)
        /\ h.code[g.at] = Append(g.code[g.at], Br(n + 1))
        /\ h.code[n + 1] = <<CondBr(Do(i), n + 2, Following(i, n + 3))>>
        /\ \A c \in 1..n : c # g.at => h.code[c] = g.code[c]
        /\ \A c \in (n + 2)..m : h.code[c] = <<>>
    BY <1>1, <1>17, LoopAdds DEF h, n, m
  <2>2. n + 1 \in 1..m /\ n + 2 \in 1..m /\ Following(i, n + 3) \in 1..m
    <3>1. i \in Heads(i)
      BY <1>5, <1>17 DEF Branching, Loops
    <3> QED BY <1>2, <1>4, <2>1, <3>1 DEF Shape, m
  <2>3. BlockAimed(h.code[g.at], m)
    BY <1>6, <1>10, <2>1, <2>2
  <2>4. BlockAimed(h.code[n + 1], m)
    BY <1>2, <1>10, <2>1, <2>2, BlocksAim
  <2>5. \A c \in (n + 1)..m : c = n + 1 \/ c \in (n + 2)..m
    BY <1>1, <1>2
  <2> QED BY <1>8, <1>9, <2>1, <2>3, <2>4, <2>5 DEF h
<1>18. CASE Op(i) = "ELSE"
  <2>1. /\ m = n /\ h.begun = g.begun
        /\ \/ h.code[g.at] = g.code[g.at]
           \/ h.code[g.at] = Append(g.code[g.at], Br(g.begun[In(i)].after))
        /\ \A c \in 1..n : c # g.at => h.code[c] = g.code[c]
    BY <1>1, <1>18, ElseAdds DEF h, n, m
  <2>2. g.begun[In(i)].after \in 1..m
    BY <1>4, <1>5, <1>18, <2>1, EndOf
  <2>3. BlockAimed(h.code[g.at], m)
    BY <1>1, <1>6, <1>10, <2>1, <2>2
  <2> QED BY <1>8, <1>11, <2>1, <2>3 DEF h
<1>19. CASE EndsIf(i)
  <2>1. /\ m = n /\ h.begun = g.begun
        /\ \/ h.code[g.at] = g.code[g.at]
           \/ h.code[g.at] = Append(g.code[g.at], Br(g.begun[In(In(i))].after))
        /\ \A c \in 1..n : c # g.at => h.code[c] = g.code[c]
    BY <1>1, <1>19, EndIfAdds DEF h, n, m
  <2>2. g.begun[In(In(i))].after \in 1..m
    BY <1>4, <1>5, <1>19, <2>1, EndOf
  <2>3. BlockAimed(h.code[g.at], m)
    BY <1>1, <1>6, <1>10, <2>1, <2>2
  <2> QED BY <1>8, <1>11, <2>1, <2>3 DEF h
<1>20. CASE EndsLoop(i)
  <2> DEFINE k == In(i)
             to == g.begun[k].to
             after == g.begun[k].after
  <2>1. /\ m = n /\ h.begun = g.begun
        /\ Op(k) = "DO" => h.code[g.at] = Append(g.code[g.at], CondBr(Do(k), to, after))
        /\ Op(k) = "WHILE" => h.code[g.at] = Append(g.code[g.at], Br(to))
        /\ Op(k) = "FOR" => h.code[g.at] = Append(Append(g.code[g.at], Exec(Iter(k))), Br(to))
        /\ \A c \in 1..n : c # g.at => h.code[c] = g.code[c]
    BY <1>1, <1>20, EndLoopAdds DEF h, n, m
  <2>2. k \in Positions /\ Op(k) \in {"DO", "WHILE", "FOR"} /\ k \in Heads(i)
    BY <1>5, <1>20, ItemsAre, EndOf DEF Closers, EndsLoop, Loops
  <2> HIDE DEF k
  <2>3. to \in 1..m /\ after \in 1..m
    BY <1>4, <2>1, <2>2
  <2> HIDE DEF to, after
  <2>4. /\ CondBr(Do(k), to, after) \in Instructions /\ Aimed(CondBr(Do(k), to, after), m)
        /\ Br(to) \in Instructions /\ Aimed(Br(to), m)
        /\ Exec(Iter(k)) \in Instructions /\ Aimed(Exec(Iter(k)), m)
    BY <1>10, <2>2, <2>3
  <2>5. BlockAimed(h.code[g.at], m)
    BY <1>6, <1>7, <2>1, <2>2, <2>4
  <2> QED BY <1>8, <1>11, <2>1, <2>5 DEF h
<1> QED BY <1>12, <1>13, <1>14, <1>15, <1>16, <1>17, <1>18, <1>19, <1>20, ItemsAre

\* So do those after any number of items,
LEMMA GeneratorAims ==
  ASSUME TextOK, Complete, NEW n \in 0..Len(statements)
  PROVE CodeAimed(Generator[n])
<1> DEFINE S == {j \in 0..Len(statements) : CodeAimed(Generator[j])}
<1>0. Len(statements) \in Nat /\ Positions = 1..Len(statements)
  BY TextShape0
<1>1. 0 \in S
  <2>1. Generator[0] = Start
    BY GeneratorIs
  <2>2. \A b \in 1..Len(Start.code) : Start.code[b] = <<>>
    BY StartIs
  <2>3. CodeAimed(Start)
    BY <2>2, StartIs, BlocksAim DEF CodeAimed
  <2> QED BY <1>0, <2>1, <2>3
<1>2. ASSUME NEW j \in 1..Len(statements), j - 1 \in S PROVE j \in S
  <2>1. Generator[j] = Build(Generator[j - 1], j) /\ Shape(Generator[j - 1], j - 1)
    BY <1>2, GeneratorIs, Shapes
  <2> QED BY <1>0, <1>2, <2>1, BuildAims
<1> HIDE DEF S
<1>3. 0..Len(statements) \subseteq S
  BY <1>0, <1>1, <1>2, InductionUpTo
<1> QED BY <1>3 DEF S

\* and those of the whole function.
LEMMA GeneratedAims ==
  ASSUME TextOK, Complete
  PROVE /\ Generated \in Seq(Seq(Instructions)) /\ Len(Generated) \in Nat /\ Entry \in 1..Len(Generated)
        /\ \A b \in 1..Len(Generated) : BlockAimed(Generated[b], Len(Generated))
<1>1. PICK g : g = Generator[Len(statements)]
  OBVIOUS
<1>2. /\ Generated \in Seq(Seq(Instructions)) /\ Len(Generated) = Len(g.code)
      /\ Generated[ReturnBlock] = Append(g.code[ReturnBlock], Ret) /\ ReturnBlock \in 1..Len(g.code)
      /\ \A b \in 1..Len(g.code) : b # ReturnBlock => Generated[b] = g.code[b]
  BY <1>1, GeneratedIs
<1>3. Len(statements) \in 0..Len(statements)
  BY TextShape0
<1>4. CodeAimed(g) /\ g \in GStates /\ Len(g.code) \in Nat /\ Len(g.code) >= 2
  BY <1>1, <1>3, GeneratorAims, Shapes, CodeParts DEF Shape
<1>5. BlockAimed(Generated[ReturnBlock], Len(g.code))
  <2>1. g.code[ReturnBlock] \in Seq(Instructions) /\ BlockAimed(g.code[ReturnBlock], Len(g.code))
    BY <1>2, <1>4, CodeParts DEF CodeAimed
  <2>2. Ret \in Instructions /\ Aimed(Ret, Len(g.code)) /\ Len(g.code) >= Len(g.code)
    BY <1>4, InstructionsAre, InstructionsAim
  <2> QED BY <1>2, <1>4, <2>1, <2>2, BlockAimsOn
<1>6. \A b \in 1..Len(Generated) : BlockAimed(Generated[b], Len(Generated))
  BY <1>2, <1>4, <1>5 DEF CodeAimed
<1>7. Entry \in 1..Len(Generated)
  BY <1>2, <1>4 DEF Entry
<1> QED BY <1>2, <1>4, <1>6, <1>7

------------------------------------------------------------------------------
(* Execution *)

\* Control is at an instruction of code that the verifier has accepted.
InCode ==
  /\ Complete /\ blocks = Generated
  /\ pc # Outside =>
       Verified(blocks) /\ pc \in (Nat \X Nat) /\ pc[1] \in 1..Len(blocks) /\ pc[2] \in 1..Len(blocks[pc[1]])

GenInv == /\ TextOK /\ retval \in BOOLEAN
          /\ \/ blocks = <<>> /\ pc = Outside
             \/ InCode

\* The invariant holds initially,
LEMMA GenInvInit == GenInit => GenInv
BY BlankText DEF GenInit, GenInv

\* The code depends on the text alone.
LEMMA TextStays ==
  ASSUME statements' = statements
  PROVE (TextOK => TextOK') /\ (Complete => Complete') /\ Generated' = Generated
BY DEF TextOK, Complete, Generated, Generator, Fitting, Positions, Op, In, Current, Open, Build,
       ConditionalAbort, CloseElseCase, CloseCase, BeginIf, BeginElse, EndIf, BeginLoop, EndLoop, BeginDo, EndDo,
       Following, IsLast, Final, Finish, End, EndsIf, EndsLoop, Start

\* There are blocks once code is generated.
LEMMA GeneratedSome ==
  ASSUME TextOK, Complete
  PROVE Generated # <<>>
<1>1. Generated \in Seq(Seq(Instructions)) /\ Entry \in 1..Len(Generated)
  BY GeneratedAims
<1>2. Len(<<>>) = 0 /\ Entry = 1
  BY DEF Entry
<1> QED BY <1>1, <1>2

\* What control may face, and where it goes.
LEMMA RunningIs ==
  ASSUME TextOK, InCode, pc # Outside
  PROVE /\ Instruction \in Instructions /\ Aimed(Instruction, Len(blocks))
        /\ IsTerminator(Instruction) <=> pc[2] = Len(blocks[pc[1]])
        /\ Len(blocks[pc[1]]) \in Nat
        /\ \A b \in 1..Len(blocks) : 1 \in 1..Len(blocks[b])
        /\ blocks \in Seq(Seq(Instructions)) /\ blocks[pc[1]] \in Seq(Instructions)
<1>1. /\ blocks \in Seq(Seq(Instructions)) /\ Len(blocks) \in Nat
      /\ \A b \in 1..Len(blocks) : BlockAimed(blocks[b], Len(blocks))
  BY GeneratedAims DEF InCode
<1>2. \A b \in 1..Len(blocks) : Ended(blocks[b])
  BY <1>1, VerifiedIs DEF InCode
<1>3. \A b \in 1..Len(blocks) : blocks[b] \in Seq(Instructions)
  BY <1>1, ElementOfSeq
<1>4. pc[1] \in 1..Len(blocks) /\ pc[2] \in 1..Len(blocks[pc[1]])
  BY DEF InCode
<1>5. Instruction \in Instructions
  BY <1>3, <1>4, ElementOfSeq DEF Instruction
<1>6. Aimed(Instruction, Len(blocks))
  BY <1>1, <1>4 DEF BlockAimed, Instruction
<1>7. IsTerminator(Instruction) <=> pc[2] = Len(blocks[pc[1]])
  BY <1>2, <1>4 DEF Ended, Instruction
<1>8. \A b \in 1..Len(blocks) : 1 \in 1..Len(blocks[b])
  <2> TAKE b \in 1..Len(blocks)
  <2>1. blocks[b] # <<>> /\ blocks[b] \in Seq(Instructions)
    BY <1>2, <1>3 DEF Ended
  <2>2. Len(blocks[b]) \in Nat /\ Len(blocks[b]) # 0
    BY <2>1, EmptySeq, LenProperties
  <2> QED BY <2>2
<1> QED BY <1>1, <1>3, <1>4, <1>5, <1>6, <1>7, <1>8, LenProperties

\* and every step keeps it.
LEMMA GenInvNext == GenInv /\ [GenNext]_genvars => GenInv'
<1> SUFFICES ASSUME GenInv, [GenNext]_genvars PROVE GenInv'
  OBVIOUS
<1>0. TextOK /\ retval \in BOOLEAN
  BY DEF GenInv
<1>1. CASE Write
  <2>1. blocks = <<>> /\ pc = Outside
    BY <1>1, GeneratedSome DEF GenInv, InCode, Write
  <2>2. TextOK'
    BY <1>0, <1>1, WriteKeepsText DEF Write
  <2> QED BY <1>0, <1>1, <2>1, <2>2 DEF GenInv, Write
<1>2. CASE Generate
  <2>1. blocks = <<>> /\ pc = Outside /\ Complete /\ statements' = statements
    BY <1>0, <1>2, GeneratedSome DEF GenInv, InCode, Generate
  <2>2. TextOK' /\ Complete' /\ Generated' = Generated
    BY <1>0, <2>1, TextStays
  <2>3. blocks' = Generated
    BY <1>2 DEF Generate
  <2>4. Generated \in Seq(Seq(Instructions)) /\ Entry \in 1..Len(Generated)
    BY <1>0, <2>1, GeneratedAims
  <2>5. CASE Verified(Generated)
    <3>1. pc' = <<Entry, 1>>
      BY <1>2, <2>5 DEF Generate, GoTo
    <3>2. Generated[Entry] # <<>> /\ Generated[Entry] \in Seq(Instructions)
      BY <2>4, <2>5, VerifiedIs, ElementOfSeq DEF Ended
    <3>3. 1 \in 1..Len(Generated[Entry])
      <4>1. Len(Generated[Entry]) \in Nat /\ Len(Generated[Entry]) # 0
        BY <3>2, EmptySeq, LenProperties
      <4> QED BY <4>1
    <3>4. InCode'
      <4>1. pc' \in (Nat \X Nat) /\ pc'[1] = Entry /\ pc'[2] = 1
        BY <3>1 DEF Entry
      <4> QED BY <2>2, <2>3, <2>4, <2>5, <3>3, <4>1 DEF InCode
    <3> QED BY <1>0, <1>2, <2>2, <3>4 DEF GenInv, Generate
  <2>6. CASE ~Verified(Generated)
    <3>1. pc' = Outside
      BY <1>2, <2>1, <2>6 DEF Generate
    <3> QED BY <1>0, <1>2, <2>2, <2>3, <3>1 DEF GenInv, Generate, InCode, Outside
  <2> QED BY <2>5, <2>6
<1>3. ASSUME statements' = statements, blocks' = blocks, retval' \in BOOLEAN, pc # Outside,
             pc' \in (Nat \X Nat), pc'[1] \in 1..Len(blocks), pc'[2] \in 1..Len(blocks[pc'[1]])
      PROVE GenInv'
  <2>1. InCode
    BY <1>3 DEF GenInv
  <2>2. TextOK' /\ Complete' /\ Generated' = Generated
    BY <1>0, <1>3, <2>1, TextStays DEF InCode
  <2> QED BY <1>3, <2>1, <2>2 DEF InCode, GenInv
<1>4. ASSUME pc # Outside, pc' = <<pc[1], pc[2] + 1>>, ~IsTerminator(Instruction)
      PROVE pc' \in (Nat \X Nat) /\ pc'[1] \in 1..Len(blocks) /\ pc'[2] \in 1..Len(blocks[pc'[1]])
  <2>1. InCode
    BY <1>4 DEF GenInv
  <2>2. pc[1] \in 1..Len(blocks) /\ pc[2] \in 1..Len(blocks[pc[1]]) /\ pc[1] \in Nat /\ pc[2] \in Nat
    BY <1>4, <2>1 DEF InCode
  <2>3. pc[2] # Len(blocks[pc[1]]) /\ Len(blocks[pc[1]]) \in Nat
    BY <1>0, <1>4, <2>1, RunningIs
  <2> QED BY <1>4, <2>2, <2>3
<1>5. ASSUME pc # Outside, NEW b \in 1..Len(blocks), pc' = <<b, 1>>
      PROVE pc' \in (Nat \X Nat) /\ pc'[1] \in 1..Len(blocks) /\ pc'[2] \in 1..Len(blocks[pc'[1]])
  <2>1. InCode
    BY <1>5 DEF GenInv
  <2>2. 1 \in 1..Len(blocks[b]) /\ b \in Nat
    BY <1>0, <1>5, <2>1, RunningIs, LenProperties
  <2> QED BY <1>5, <2>2
<1>6. pc # Outside => Aimed(Instruction, Len(blocks))
  BY <1>0, RunningIs DEF GenInv
<1>7. CASE Execute
  <2>1. pc # Outside /\ ~IsTerminator(Instruction) /\ pc' = <<pc[1], pc[2] + 1>>
    BY <1>7 DEF Execute, Facing, IsTerminator, Advance
  <2> QED BY <1>0, <1>3, <1>4, <1>7, <2>1 DEF Execute
<1>8. CASE Store
  <2>1. pc # Outside /\ ~IsTerminator(Instruction) /\ pc' = <<pc[1], pc[2] + 1>>
    BY <1>8 DEF Store, Facing, IsTerminator, Advance
  <2> QED BY <1>0, <1>3, <1>4, <1>8, <2>1 DEF Store
<1>9. CASE Branch
  <2>1. pc # Outside /\ Instruction.to \in 1..Len(blocks) /\ pc' = <<Instruction.to, 1>>
    BY <1>6, <1>9 DEF Branch, Facing, GoTo, Aimed
  <2> QED BY <1>0, <1>3, <1>5, <1>9, <2>1 DEF Branch
<1>10. CASE Decide
  <2>1. PICK b \in {Instruction.yes, Instruction.no} : pc' = <<b, 1>>
    BY <1>10 DEF Decide, GoTo
  <2>2. pc # Outside /\ b \in 1..Len(blocks)
    BY <1>6, <1>10, <2>1 DEF Decide, Facing, Aimed
  <2> QED BY <1>0, <1>3, <1>5, <1>10, <2>1, <2>2 DEF Decide
<1>11. CASE UNCHANGED genvars
  <2>1. statements' = statements /\ blocks' = blocks /\ pc' = pc /\ retval' = retval
    BY <1>11 DEF genvars
  <2>2. TextOK' /\ (Complete => Complete') /\ Generated' = Generated
    BY <1>0, <2>1, TextStays
  <2> QED BY <2>1, <2>2 DEF GenInv, InCode, Outside
<1> QED BY <1>1, <1>2, <1>7, <1>8, <1>9, <1>10, <1>11 DEF GenNext

\* The text is one of nested blocks, the code is the one generated from it, and the control is at
\* an instruction of verified code, in every reachable state.
THEOREM GenInvAlways == GenSpec => []GenInv
BY GenInvInit, GenInvNext, PTL DEF GenSpec

\* Every item names the block it stands in, and the control never leaves the code: branches lead to
\* blocks there are, and no block ends without a terminator (the generators of statements, verifyFunction).
THEOREM GenTypeCorrect == GenSpec => []GenTypeOK
<1>1. GenInv => GenTypeOK
  <2> SUFFICES ASSUME GenInv PROVE GenTypeOK
    OBVIOUS
  <2>1. \A i \in Positions : Op(i) \in Operations \cup Closers /\ In(i) \in 0..(i - 1)
    BY TextShape0 DEF GenInv
  <2>2. CASE pc = Outside
    BY <2>1, <2>2 DEF GenInv, GenTypeOK
  <2>3. CASE pc # Outside
    <3>1. TextOK /\ InCode
      BY <2>3 DEF GenInv
    <3>2. DOMAIN blocks = 1..Len(blocks) /\ DOMAIN blocks[pc[1]] = 1..Len(blocks[pc[1]])
      BY <2>3, <3>1, RunningIs, LenProperties
    <3> QED BY <2>1, <2>3, <3>1, <3>2 DEF GenInv, GenTypeOK, InCode
  <2> QED BY <2>2, <2>3
<1> QED BY <1>1, GenInvAlways, PTL

\* The verifier accepts the code of a function exactly if its text fits, for functions of any length and
\* depth (closeCase, closeElseCase, the blocks after IFs and loops).
THEOREM GenVerifiedExactly == GenSpec => []VerifiedExactly
<1>1. GenInv => VerifiedExactly
  BY GeneratedVerified DEF GenInv, InCode, VerifiedExactly
<1> QED BY <1>1, GenInvAlways, PTL

(* What a function means *)

\* The definitions of StatementTree are those of the text.
LEMMA TreeWords ==
  /\ \A i : Tree!Op(i) = Op(i) /\ Tree!In(i) = In(i)
  /\ Tree!Positions = Positions
  /\ \A i : Tree!EndsIf(i) <=> EndsIf(i)
  /\ \A i : Tree!Do(i) = Do(i) /\ Tree!Iter(i) = Iter(i)
  /\ Tree!Openers = Openers /\ Tree!Closers = Closers
  /\ Tree!Unbuilt = Unbuilt /\ Tree!Succeeded = Succeeded /\ Tree!Failed = Failed
<1>1. \A i : Tree!Op(i) = Op(i) /\ Tree!In(i) = In(i)
  BY DEF Tree!Op, Op, Tree!In, In
<1>2. Tree!Positions = Positions
  BY DEF Tree!Positions, Positions
<1>3. \A i : Tree!EndsIf(i) <=> EndsIf(i)
  BY <1>1 DEF Tree!EndsIf, EndsIf
<1>4. \A i : Tree!Do(i) = Do(i) /\ Tree!Iter(i) = Iter(i)
  BY DEF Tree!Do, Do, Tree!Iter, Iter
<1>5. Tree!Openers = Openers /\ Tree!Closers = Closers
  BY DEF Tree!Openers, Openers, Tree!Closers, Closers, Tree!Loops, Loops
<1>6. Tree!Unbuilt = Unbuilt /\ Tree!Succeeded = Succeeded /\ Tree!Failed = Failed
  BY DEF Tree!Unbuilt, Unbuilt, Tree!Succeeded, Succeeded, Tree!Failed, Failed
<1> QED BY <1>1, <1>2, <1>3, <1>4, <1>5, <1>6

\* So are the ends of blocks.
LEMMA TreeEnd == \A b : Tree!End(b) = End(b)
BY TreeWords DEF Tree!End, End

\* Where it stops that comes to position j, given the stops behind it.
StopOf(f, j) == IF ~Tree!Passes(j) THEN j ELSE IF Op(j) = "ELSE" THEN f[End(j)] ELSE f[j + 1]
\* The stops of all positions.
IsStops(f) == f = [j \in 1..(Len(statements) + 1) |-> StopOf(f, j)]

\* What is passed.
LEMMA PassesIs ==
  \A j : Tree!Passes(j) <=> j \in Positions /\ (Op(j) \in {"DO", "ELSE"} \/ EndsIf(j))
BY TreeWords DEF Tree!Passes

\* The function of the stops exists: it is made from the end of the text.
LEMMA StopsExist ==
  ASSUME TextOK, Complete
  PROVE \E f : IsStops(f)
<1>0. PICK N \in Nat : N = Len(statements) /\ Positions = 1..N
  BY TextShape0
<1>1. \A j \in 1..N : Op(j) = "ELSE" => End(j) \in (j + 1)..N
  BY <1>0, BlocksEnd DEF Openers
<1>2. \A j \in 1..(N + 1) : Tree!Passes(j) => j \in 1..N
  BY <1>0, PassesIs
<1>3. \A f, j : StopOf(f, j) = IF ~Tree!Passes(j) THEN j ELSE IF Op(j) = "ELSE" THEN f[End(j)] ELSE f[j + 1]
  BY DEF StopOf
<1> DEFINE X == [1..(N + 1) -> 1..(N + 1)]
           E == [j \in 1..(N + 1) |-> j]
           F == [q \in X \X (1..N) |-> [q[1] EXCEPT ![N + 1 - q[2]] = StopOf(q[1], N + 1 - q[2])]]
<1>4. \A f \in X : \A j \in 1..N : StopOf(f, j) \in 1..(N + 1)
  <2> SUFFICES ASSUME NEW f \in X, NEW j \in 1..N PROVE StopOf(f, j) \in 1..(N + 1)
    OBVIOUS
  <2>1. j + 1 \in 1..(N + 1) /\ (Op(j) = "ELSE" => End(j) \in 1..(N + 1))
    BY <1>0, <1>1
  <2>2. f[j + 1] \in 1..(N + 1) /\ (Op(j) = "ELSE" => f[End(j)] \in 1..(N + 1)) /\ j \in 1..(N + 1)
    BY <1>0, <2>1
  <2> HIDE DEF X
  <2> QED BY <1>3, <2>2
<1>5. F \in [X \X (1..N) -> X]
  <2>1. ASSUME NEW f \in X, NEW m \in 1..N PROVE [f EXCEPT ![N + 1 - m] = StopOf(f, N + 1 - m)] \in X
    <3>1. N + 1 - m \in 1..N
      BY <1>0
    <3>2. StopOf(f, N + 1 - m) \in 1..(N + 1)
      BY <1>4, <3>1
    <3> QED BY <3>1, <3>2
  <2> HIDE DEF X
  <2> QED BY <2>1
<1>6. E \in X
  OBVIOUS
<1>7. PICK g \in [0..N -> X] : Iteration(g, N, E, F)
  <2> HIDE DEF F, X, E
  <2> QED BY <1>5, <1>6, Iterates
<1>8. g[0] = E
      /\ \A m \in 1..N : g[m - 1] \in X /\ g[m] = [g[m - 1] EXCEPT ![N + 1 - m] = StopOf(g[m - 1], N + 1 - m)]
  <2>1. \A m \in 0..N : g[m] = IF m = 0 THEN E ELSE F[<<g[m - 1], m>>]
    <3> HIDE DEF F, X, E
    <3> QED BY <1>7 DEF Iteration
  <2>2. g[0] = E
    <3> HIDE DEF F, X, E
    <3>1. 0 \in 0..N
      BY <1>0
    <3> QED BY <2>1, <3>1
  <2>3. ASSUME NEW m \in 1..N PROVE g[m - 1] \in X /\ g[m] = F[<<g[m - 1], m>>]
    <3> HIDE DEF F, X, E
    <3>1. m \in 0..N /\ m - 1 \in 0..N /\ m # 0
      BY <1>0
    <3> QED BY <2>1, <3>1
  <2>4. ASSUME NEW m \in 1..N PROVE F[<<g[m - 1], m>>] = [g[m - 1] EXCEPT ![N + 1 - m] = StopOf(g[m - 1], N + 1 - m)]
    <3>1. g[m - 1] \in X
      BY <2>3
    <3> HIDE DEF X
    <3> QED BY <3>1
  <2> HIDE DEF F, X, E
  <2> QED BY <2>2, <2>3, <2>4
<1> HIDE DEF F
\* The last m positions have their stops after m steps.
<1> DEFINE S == {m \in 0..N : g[m] \in X /\ \A j \in (N + 1 - m)..(N + 1) : j >= 1 => g[m][j] = StopOf(g[m], j)}
<1>9. 0 \in S
  <2>1. \A j \in (N + 1 - 0)..(N + 1) : j = N + 1
    BY <1>0
  <2>2. StopOf(g[0], N + 1) = N + 1
    BY <1>0, <1>2, <1>3
  <2>3. g[0][N + 1] = N + 1
    BY <1>0, <1>8
  <2>4. g[0] \in X /\ 0 \in 0..N
    BY <1>0, <1>6, <1>8
  <2> HIDE DEF X, E
  <2> QED BY <2>1, <2>2, <2>3, <2>4
<1>10. ASSUME NEW m \in 1..N, m - 1 \in S PROVE m \in S
  <2> DEFINE k == N + 1 - m
             p == g[m - 1]
             q == g[m]
  <2>1. k \in 1..N /\ p \in X /\ q = [p EXCEPT ![k] = StopOf(p, k)]
    <3>1. k \in 1..N
      BY <1>0
    <3> HIDE DEF X
    <3> QED BY <1>8, <3>1
  <2>2. \A j \in (k + 1)..(N + 1) : p[j] = StopOf(p, j)
    <3>1. \A j \in (N + 1 - (m - 1))..(N + 1) : j >= 1 => p[j] = StopOf(p, j)
      BY <1>10
    <3>2. \A j \in (k + 1)..(N + 1) : j \in (N + 1 - (m - 1))..(N + 1) /\ j >= 1
      BY <1>0
    <3> QED BY <3>1, <3>2
  <2> HIDE DEF p, q, k
  <2>3. q \in X /\ q[k] = StopOf(p, k) /\ \A j \in 1..(N + 1) : j # k => q[j] = p[j]
    <3>1. StopOf(p, k) \in 1..(N + 1) /\ k \in 1..(N + 1)
      BY <1>0, <1>4, <2>1
    <3> QED BY <2>1, <3>1
  <2>4. ASSUME NEW j \in k..(N + 1) PROVE StopOf(q, j) = StopOf(p, j)
    <3>1. Tree!Passes(j) => j \in 1..N /\ j + 1 \in (k + 1)..(N + 1) /\ (Op(j) = "ELSE" => End(j) \in (k + 1)..(N + 1))
      <4>1. j \in 1..(N + 1)
        BY <1>0, <2>1
      <4> QED BY <1>0, <1>1, <1>2, <2>1, <4>1
    <3>2. \A c \in (k + 1)..(N + 1) : q[c] = p[c]
      BY <1>0, <2>1, <2>3
    <3> QED BY <1>3, <3>1, <3>2
  <2>5. ASSUME NEW j \in k..(N + 1) PROVE q[j] = StopOf(q, j)
    <3>1. j = k \/ (j # k /\ j \in (k + 1)..(N + 1) /\ j \in 1..(N + 1))
      BY <1>0, <2>1
    <3> HIDE DEF X
    <3> QED BY <2>2, <2>3, <2>4, <3>1
  <2>6. m \in 0..N
    BY <1>0
  <2> USE DEF q, k
  <2> HIDE DEF X
  <2> QED BY <2>3, <2>5, <2>6
<1>11. N \in S
  <2>1. 0..N \subseteq S
    <3> HIDE DEF S
    <3> QED BY <1>0, <1>9, <1>10, InductionUpTo
  <2> QED BY <1>0, <2>1
<1> DEFINE f == g[N]
<1>12. f \in X /\ \A j \in 1..(N + 1) : f[j] = StopOf(f, j)
  <2>1. \A j \in 1..(N + 1) : j \in (N + 1 - N)..(N + 1) /\ j >= 1
    BY <1>0
  <2> HIDE DEF X
  <2> QED BY <1>11, <2>1
<1> HIDE DEF f
<1>13. f = [j \in 1..(N + 1) |-> StopOf(f, j)]
  <2>1. f = [j \in 1..(N + 1) |-> f[j]]
    BY <1>12
  <2> HIDE DEF X
  <2> QED BY <1>12, <2>1
<1> QED BY <1>0, <1>13 DEF IsStops

\* Where the control stops, position by position.
LEMMA StopsIs ==
  ASSUME TextOK, Complete, NEW j \in 1..(Len(statements) + 1)
  PROVE Tree!Stops[j] = IF ~Tree!Passes(j) THEN j ELSE IF Op(j) = "ELSE" THEN Tree!Stops[End(j)] ELSE Tree!Stops[j + 1]
<1> DEFINE g == CHOOSE h : IsStops(h)
<1>1. IsStops(g)
  BY StopsExist
<1>2. Tree!Stops = g
  BY TreeWords, TreeEnd DEF Tree!Stops, IsStops, StopOf
<1> HIDE DEF g
<1>3. g[j] = StopOf(g, j)
  BY <1>1 DEF IsStops
<1> QED BY <1>2, <1>3 DEF StopOf

\* The point of control at a position where it stops.
StopPoint(k) ==
  IF k \notin Positions THEN Succeeded
  ELSE IF Op(k) # "END" THEN Do(k)
  ELSE IF Op(In(k)) = "FOR" THEN Iter(In(k)) ELSE Do(In(k))

\* The point where the control stops.
LEMMA ArriveAt == \A j : Tree!Arrive(j) = StopPoint(Tree!Stops[j])
BY TreeWords DEF Tree!Arrive, StopPoint

\* Where control goes that arrives at an item.
LEMMA ArriveIs ==
  ASSUME TextOK, Complete, NEW j \in Positions
  PROVE /\ Op(j) \in {"PLAIN", "CHECK", "YIELD", "IF", "WHILE", "FOR"} => Tree!Arrive(j) = Do(j)
        /\ Op(j) = "DO" \/ EndsIf(j) => Tree!Arrive(j) = Tree!Arrive(j + 1)
        /\ Op(j) = "ELSE" => Tree!Arrive(j) = Tree!Arrive(End(j) + 1)
        /\ EndsLoop(j) => Tree!Arrive(j) = IF Op(In(j)) = "FOR" THEN Iter(In(j)) ELSE Do(In(j))
<1>0. PICK N \in Nat : N = Len(statements) /\ Positions = 1..N
  BY TextShape0
<1>1. Tree!Stops[j] = IF ~Tree!Passes(j) THEN j ELSE IF Op(j) = "ELSE" THEN Tree!Stops[End(j)] ELSE Tree!Stops[j + 1]
  <2>1. j \in 1..(Len(statements) + 1)
    BY <1>0
  <2> QED BY <2>1, StopsIs
<1>2. Tree!Passes(j) <=> Op(j) \in {"DO", "ELSE"} \/ EndsIf(j)
  BY PassesIs
<1>3. CASE Op(j) \in {"PLAIN", "CHECK", "YIELD", "IF", "WHILE", "FOR"}
  <2>1. Tree!Stops[j] = j
    BY <1>1, <1>2, <1>3 DEF EndsIf
  <2> QED BY <1>3, <2>1, ArriveAt DEF StopPoint, EndsIf, EndsLoop
<1>4. CASE Op(j) = "DO" \/ EndsIf(j)
  <2>1. Tree!Stops[j] = Tree!Stops[j + 1]
    BY <1>1, <1>2, <1>4 DEF EndsIf
  <2> QED BY <1>4, <2>1, ArriveAt DEF EndsIf, EndsLoop, Loops
<1>5. CASE Op(j) = "ELSE"
  <2>1. Tree!Stops[j] = Tree!Stops[End(j)]
    BY <1>1, <1>2, <1>5
  <2>2. End(j) \in Positions /\ EndsIf(End(j))
    BY <1>5, BlocksEnd DEF Openers
  <2>3. Tree!Stops[End(j)] = Tree!Stops[End(j) + 1]
    <3>1. End(j) \in 1..(Len(statements) + 1)
      BY <1>0, <2>2
    <3>2. Tree!Passes(End(j)) /\ Op(End(j)) # "ELSE"
      BY <2>2, PassesIs DEF EndsIf
    <3> QED BY <3>1, <3>2, StopsIs
  <2> QED BY <1>5, <2>1, <2>3, ArriveAt DEF EndsIf, EndsLoop
<1>6. CASE EndsLoop(j)
  <2>1. ~EndsIf(j) /\ Op(j) = "END"
    BY <1>6 DEF EndsIf, EndsLoop, Loops
  <2>2. Tree!Stops[j] = j
    BY <1>1, <1>2, <2>1
  <2> QED BY <1>6, <2>1, <2>2, ArriveAt DEF StopPoint
<1> QED BY <1>3, <1>4, <1>5, <1>6

\* Behind the text is the end of the function.
LEMMA ArriveBehind ==
  ASSUME TextOK, Complete
  PROVE Tree!Arrive(Len(statements) + 1) = Succeeded
<1>0. PICK N \in Nat : N = Len(statements) /\ Positions = 1..N
  BY TextShape0
<1>1. Len(statements) + 1 \in 1..(Len(statements) + 1) /\ Len(statements) + 1 \notin Positions
  BY <1>0
<1>2. Tree!Stops[Len(statements) + 1] = Len(statements) + 1
  BY <1>1, StopsIs, PassesIs
<1> QED BY <1>1, <1>2, ArriveAt DEF StopPoint

\* Where control goes from an item.
LEMMA AfterIs ==
  ASSUME NEW j \in Positions
  PROVE /\ \A ok \in BOOLEAN : Tree!After(Iter(j), ok) = Do(j)
        /\ Op(j) = "YIELD" => \A ok \in BOOLEAN : Tree!After(Do(j), ok) = Succeeded
        /\ Op(j) = "PLAIN" => \A ok \in BOOLEAN : Tree!After(Do(j), ok) = Tree!Arrive(j + 1)
        /\ Op(j) = "CHECK" => Tree!After(Do(j), TRUE) = Tree!Arrive(j + 1) /\ Tree!After(Do(j), FALSE) = Failed
        /\ Op(j) \in Branching => Tree!After(Do(j), TRUE) = Tree!Arrive(j + 1)
                                  /\ Tree!After(Do(j), FALSE) = Tree!Arrive(End(j) + 1)
<1>1. Do(j)[1] = j /\ Iter(j)[1] = j /\ Do(j) # Iter(j)
  BY DEF Do, Iter
<1>2. \A p, ok : Tree!After(p, ok) =
        IF p = Iter(p[1]) THEN Do(p[1])
        ELSE IF Op(p[1]) = "YIELD" THEN Succeeded
        ELSE IF Op(p[1]) = "CHECK" /\ ~ok THEN Failed
        ELSE IF Op(p[1]) \in Openers /\ ~ok THEN Tree!Arrive(End(p[1]) + 1)
        ELSE Tree!Arrive(p[1] + 1)
  BY TreeWords, TreeEnd DEF Tree!After
<1>3. \A ok : Tree!After(Iter(j), ok) = Do(j)
  BY <1>1, <1>2
<1>4. \A ok : Tree!After(Do(j), ok) =
        IF Op(j) = "YIELD" THEN Succeeded
        ELSE IF Op(j) = "CHECK" /\ ~ok THEN Failed
        ELSE IF Op(j) \in Openers /\ ~ok THEN Tree!Arrive(End(j) + 1)
        ELSE Tree!Arrive(j + 1)
  BY <1>1, <1>2
<1> QED BY <1>3, <1>4 DEF Openers, Branching, Loops

(* What is to be observed where *)

\* What a block is for: to go on at an item, or to fail (0).
Promise(v) == IF v = 0 THEN Failed ELSE Tree!Arrive(v)

\* What can be observed at an instruction, given what the blocks are for.
Shows(x, L) ==
  IF x.op \in {"exec", "condbr"} THEN x.point
  ELSE IF x.op = "br" THEN Promise(L[x.to])
  ELSE IF x.op = "ret" THEN Succeeded
  ELSE Failed

\* One instruction after the other.
Linked(x, y, L) ==
  /\ x.op = "exec" => Shows(y, L) = Tree!After(x.point, TRUE)
  /\ x.op = "store_false" => y = Br(ReturnBlock)

\* The branches of a condition.
Decides(x, L) ==
  x.op = "condbr" =>
    Promise(L[x.yes]) = Tree!After(x.point, TRUE) /\ Promise(L[x.no]) = Tree!After(x.point, FALSE)

\* A block does what it is for; a block that only branches leads on to one of a higher rank.
Kept(s, b, L, R) ==
  /\ s # <<>> => Shows(s[1], L) = Promise(L[b])
  /\ \A k \in 1..Len(s) : Decides(s[k], L)
  /\ \A k \in 1..Len(s) : k < Len(s) => Linked(s[k], s[k + 1], L)
  /\ s # <<>> => (s[1].op = "br" => R[s[1].to] > R[b])

\* What is to follow in a block.
Expects(s, b, v, L) ==
  IF s = <<>> THEN Promise(L[b]) = v ELSE s[Len(s)].op = "exec" /\ Tree!After(s[Len(s)].point, TRUE) = v

\* An empty block promises nothing wrong.
LEMMA KeptEmpty == \A b, L, R : Kept(<<>>, b, L, R)
BY DEF Kept

\* What is expected follows.
LEMMA KeptOn ==
  ASSUME NEW s \in Seq(Instructions), NEW b, NEW L, NEW R, Kept(s, b, L, R),
         NEW v, Expects(s, b, v, L), NEW x \in Instructions, Shows(x, L) = v, Decides(x, L),
         s = <<>> => (x.op = "br" => R[x.to] > R[b])
  PROVE /\ Append(s, x) \in Seq(Instructions)
        /\ Kept(Append(s, x), b, L, R)
        /\ x.op = "exec" => Expects(Append(s, x), b, Tree!After(x.point, TRUE), L)
<1> DEFINE t == Append(s, x)
<1>1. /\ t \in Seq(Instructions) /\ Len(s) \in Nat /\ Len(t) = Len(s) + 1 /\ t # <<>>
      /\ t[Len(t)] = x /\ \A k \in 1..Len(s) : t[k] = s[k]
      /\ s = <<>> <=> Len(s) = 0
  BY AppendProperties, LenProperties, EmptySeq, LongerIs
<1> HIDE DEF t
<1>2. Shows(t[1], L) = Promise(L[b])
  <2>1. CASE s = <<>>
    BY <1>1, <2>1 DEF Expects
  <2>2. CASE s # <<>>
    <3>1. 1 \in 1..Len(s)
      BY <1>1, <2>2
    <3> QED BY <1>1, <2>2, <3>1 DEF Kept
  <2> QED BY <2>1, <2>2
<1>3. ASSUME NEW k \in 1..Len(t) PROVE Decides(t[k], L)
  <2>1. k \in 1..Len(s) \/ k = Len(t)
    BY <1>1
  <2> QED BY <1>1, <2>1 DEF Kept
<1>4. ASSUME NEW k \in 1..Len(t), k < Len(t) PROVE Linked(t[k], t[k + 1], L)
  <2>1. k \in 1..Len(s) /\ t[k] = s[k]
    BY <1>1, <1>4
  <2>2. CASE k < Len(s)
    <3>1. k + 1 \in 1..Len(s)
      BY <1>1, <2>1, <2>2
    <3> QED BY <1>1, <2>1, <2>2, <3>1 DEF Kept
  <2>3. CASE k = Len(s)
    <3>1. s # <<>> /\ t[k + 1] = x /\ t[k] = s[Len(s)]
      BY <1>1, <2>1, <2>3
    <3>2. s[Len(s)].op = "exec" /\ Tree!After(s[Len(s)].point, TRUE) = v
      BY <3>1 DEF Expects
    <3> QED BY <3>1, <3>2 DEF Linked
  <2> QED BY <1>1, <2>1, <2>2, <2>3
<1>5. t[1].op = "br" => R[t[1].to] > R[b]
  <2>1. CASE s = <<>>
    BY <1>1, <2>1
  <2>2. CASE s # <<>>
    <3>1. 1 \in 1..Len(s)
      BY <1>1, <2>2
    <3> QED BY <1>1, <2>2, <3>1 DEF Kept
  <2> QED BY <2>1, <2>2
<1>6. Kept(t, b, L, R)
  BY <1>2, <1>3, <1>4, <1>5 DEF Kept
<1>7. x.op = "exec" => Expects(t, b, Tree!After(x.point, TRUE), L)
  BY <1>1 DEF Expects
<1> QED BY <1>1, <1>6, <1>7 DEF t

\* L and R are for more blocks what they are for the first n.
Longer(n, L, R, M, Q) == \A c \in 1..n : M[c] = L[c] /\ Q[c] = R[c]

\* Blocks do not care for blocks that they do not lead to.
LEMMA KeptLabels ==
  ASSUME NEW n \in Nat, NEW s \in Seq(Instructions), NEW b \in 1..n, BlockAimed(s, n),
         NEW L, NEW R, NEW M, NEW Q, Longer(n, L, R, M, Q)
  PROVE /\ Kept(s, b, L, R) => Kept(s, b, M, Q)
        /\ \A v : Expects(s, b, v, L) => Expects(s, b, v, M)
<1>0. Len(s) \in Nat /\ (s # <<>> => 1 \in 1..Len(s))
  BY LenProperties, EmptySeq
<1>1. ASSUME NEW x, Aimed(x, n) PROVE Shows(x, M) = Shows(x, L) /\ (Decides(x, L) => Decides(x, M))
                                      /\ (x.op = "br" => Q[x.to] = R[x.to])
  BY <1>1 DEF Aimed, Longer, Shows, Decides
<1>2. \A k \in 1..Len(s) : Aimed(s[k], n)
  BY DEF BlockAimed
<1>3. M[b] = L[b] /\ Q[b] = R[b]
  BY DEF Longer
<1>4. ASSUME Kept(s, b, L, R) PROVE Kept(s, b, M, Q)
  <2>1. s # <<>> => Shows(s[1], M) = Promise(M[b])
    BY <1>0, <1>1, <1>2, <1>3, <1>4 DEF Kept
  <2>2. \A k \in 1..Len(s) : Decides(s[k], M)
    BY <1>1, <1>2, <1>4 DEF Kept
  <2>3. ASSUME NEW k \in 1..Len(s), k < Len(s) PROVE Linked(s[k], s[k + 1], M)
    <3>1. k + 1 \in 1..Len(s)
      BY <1>0, <2>3
    <3>2. Shows(s[k + 1], M) = Shows(s[k + 1], L) /\ Linked(s[k], s[k + 1], L)
      BY <1>1, <1>2, <1>4, <2>3, <3>1 DEF Kept
    <3> QED BY <3>2 DEF Linked
  <2>4. s # <<>> => (s[1].op = "br" => Q[s[1].to] > Q[b])
    BY <1>0, <1>1, <1>2, <1>3, <1>4 DEF Kept
  <2> QED BY <2>1, <2>2, <2>3, <2>4 DEF Kept
<1>5. \A v : Expects(s, b, v, L) => Expects(s, b, v, M)
  BY <1>3 DEF Expects
<1> QED BY <1>4, <1>5

\* Small blocks.
LEMMA KeptOne ==
  ASSUME NEW x \in Instructions, NEW b, NEW L, NEW R, Shows(x, L) = Promise(L[b]), Decides(x, L),
         x.op = "br" => R[x.to] > R[b]
  PROVE Kept(<<x>>, b, L, R)
<1>1. <<>> \in Seq(Instructions) /\ Append(<<>>, x) = <<x>>
  BY AppendToEmpty, EmptySeq
<1>2. Expects(<<>>, b, Promise(L[b]), L)
  BY DEF Expects
<1> QED BY <1>1, <1>2, KeptEmpty, KeptOn

\* What an instruction shows.
LEMMA ShowsAre ==
  ASSUME NEW L
  PROVE /\ \A p : Shows(Exec(p), L) = p
        /\ \A to : Shows(Br(to), L) = Promise(L[to])
        /\ \A p, yes, no : Shows(CondBr(p, yes, no), L) = p
        /\ Shows(StoreFalse, L) = Failed /\ Shows(Ret, L) = Succeeded
        /\ \A p : Decides(Exec(p), L)
        /\ \A to : Decides(Br(to), L)
        /\ Decides(StoreFalse, L) /\ Decides(Ret, L)
        /\ \A p, yes, no : Decides(CondBr(p, yes, no), L) <=>
             Promise(L[yes]) = Tree!After(p, TRUE) /\ Promise(L[no]) = Tree!After(p, FALSE)
BY DEF Shows, Decides, Exec, Br, CondBr, StoreFalse, Ret

\* The block of a check that has failed.
LEMMA KeptFailure ==
  ASSUME NEW b, NEW L, NEW R, L[b] = 0
  PROVE Kept(<<StoreFalse, Br(ReturnBlock)>>, b, L, R)
<1> DEFINE s == <<StoreFalse, Br(ReturnBlock)>>
<1>1. Len(s) = 2 /\ s[1] = StoreFalse /\ s[2] = Br(ReturnBlock) /\ s # <<>>
  OBVIOUS
<1> HIDE DEF s
<1>2. \A k \in 1..Len(s) : k = 1 \/ k = 2
  BY <1>1
<1>3. Linked(StoreFalse, Br(ReturnBlock), L)
  BY DEF Linked, StoreFalse
<1>4. StoreFalse.op # "br" /\ Promise(L[b]) = Failed
  BY DEF StoreFalse, Promise
<1>5. Kept(s, b, L, R)
  <2>1. Shows(s[1], L) = Promise(L[b])
    BY <1>1, <1>4, ShowsAre
  <2>2. \A k \in 1..Len(s) : Decides(s[k], L)
    BY <1>1, <1>2, ShowsAre
  <2>3. \A k \in 1..Len(s) : k < Len(s) => Linked(s[k], s[k + 1], L)
    <3>1. \A k \in 1..Len(s) : k < Len(s) => k = 1
      BY <1>1, <1>2
    <3>2. Linked(s[1], s[1 + 1], L)
      BY <1>1, <1>3
    <3> QED BY <3>1, <3>2
  <2>4. s[1].op # "br"
    BY <1>1, <1>4
  <2> QED BY <2>1, <2>2, <2>3, <2>4 DEF Kept
<1> QED BY <1>5 DEF s

\* Functions that can be built, and whose branches do not leave them instead of a block.
Faithful == TextOK /\ Complete /\ (\A i \in Positions : Fits(i)) /\ ~Escapes

\* The highest rank, of the return block.
Highest == 2 * Len(statements) + 4

\* What the blocks of a statement are for.
Marked(g, k, L, R) ==
  LET st == g.begun[k] IN
  /\ ~IsLast(k) => L[st.after] = Finish(k) + 1 /\ R[st.after] = 2 * (Finish(k) + 1)
  /\ Op(k) = "IF" => L[st.to] = End(k) + 1 /\ R[st.to] = 2 * (End(k) + 1)
  /\ Op(k) = "DO" => L[st.to] = k + 1
  /\ Op(k) \in {"WHILE", "FOR"} => L[st.to] = k /\ R[st.to] = Highest

\* The code goes on with item j.
Awaits(g, j, L, R) ==
  /\ Expects(g.code[g.at], g.at, Tree!Arrive(j), L)
  /\ g.code[g.at] = <<>> => R[g.at] <= 2 * j

\* What the blocks are for after i items: to go on at a position of the text (L), with a rank (R).
Labels(g, i, L, R) ==
  /\ L \in [1..Len(g.code) -> 0..(Len(statements) + 1)] /\ R \in [1..Len(g.code) -> 0..Highest]
  /\ L[Entry] = 1 /\ L[ReturnBlock] = Len(statements) + 1 /\ R[ReturnBlock] = Highest
  /\ \A b \in 1..Len(g.code) : Kept(g.code[b], b, L, R)
  /\ \A k \in Heads(i) : Marked(g, k, L, R)
  /\ Ends[i] = "open" => Awaits(g, i + 1, L, R)

\* What can be left at its end by a branch to the return block is last in the function.
LEMMA LastIs ==
  ASSUME Faithful, NEW k \in Positions, Op(k) \in Branching, IsLast(k),
         Op(k) = "IF" => Ends[End(k) - 1] = "open" \/ Ends[Finish(k)] # "closed"
  PROVE Finish(k) = Len(statements)
<1> SUFFICES ASSUME Finish(k) # Len(statements) PROVE FALSE
  OBVIOUS
<1> DEFINE f == Finish(k)
<1>0. TextOK /\ Complete /\ \A i \in Positions : Fits(i)
  BY DEF Faithful
<1>1. /\ f \in Positions /\ Op(f) = "END" /\ Final(f)
      /\ Op(k) = "IF" => EndsIf(f)
      /\ Op(k) \in Loops => EndsLoop(f)
  BY <1>0, FinishIs
<1>2. Positions = 1..Len(statements) /\ Len(statements) \in Nat
  BY <1>0, TextShape0
<1>3. f + 1 \in Positions /\ Op(f + 1) \in Closers
  BY <1>1, <1>2 DEF Final
<1>4. Fits(f + 1) /\ (f + 1) - 1 = f
  BY <1>0, <1>1, <1>2, <1>3
<1>5. Op(f + 1) = "ELSE" \/ EndsIf(f + 1) \/ EndsLoop(f + 1)
  BY <1>0, <1>3, EndsOfBlocks DEF Closers
<1> HIDE DEF f
<1>6. Ends[f] # "return"
  <2>1. Ends[(f + 1) - 1] # "return"
    BY <1>4, <1>5 DEF Fits
  <2> QED BY <1>4, <2>1
<1>7. /\ EndsLoop(f) => Ends[f] = "return"
      /\ EndsIf(f) => Ends[f] = "closed" \/ Ends[f] = "return"
  BY <1>0, <1>1, <1>2, EndsIs
<1>8. Op(k) = "IF" /\ Ends[f] = "closed"
  BY <1>1, <1>6, <1>7 DEF Branching
<1> USE DEF f
<1>9. Ends[End(k) - 1] = "open"
  BY <1>8
<1> QED BY <1>0, <1>8, <1>9 DEF Faithful, Escapes

\* Where the end of a statement leads.
LEMMA FollowingIs ==
  ASSUME Faithful, NEW k \in Positions, Op(k) \in Branching, NEW g, NEW L, NEW R,
         Labelled(g, k), Marked(g, k, L, R), L[ReturnBlock] = Len(statements) + 1, R[ReturnBlock] = Highest,
         IsLast(k) => Finish(k) = Len(statements)
  PROVE /\ Promise(L[g.begun[k].after]) = Tree!Arrive(Finish(k) + 1)
        /\ R[g.begun[k].after] >= 2 * (Finish(k) + 1)
        /\ ~IsLast(k) => R[g.begun[k].after] = 2 * (Finish(k) + 1)
<1>1. TextOK /\ Complete
  BY DEF Faithful
<1>2. Positions = 1..Len(statements) /\ Len(statements) \in Nat
  BY <1>1, TextShape0
<1>3. Finish(k) \in Positions
  BY <1>1, FinishIs
<1>4. CASE IsLast(k)
  <2>1. g.begun[k].after = ReturnBlock
    BY <1>4 DEF Labelled
  <2> QED BY <1>2, <1>4, <2>1 DEF Promise, Highest
<1>5. CASE ~IsLast(k)
  <2>1. L[g.begun[k].after] = Finish(k) + 1 /\ R[g.begun[k].after] = 2 * (Finish(k) + 1)
    BY <1>5 DEF Marked
  <2> QED BY <1>2, <1>3, <1>5, <2>1 DEF Promise
<1> QED BY <1>4, <1>5

\* Blocks that are added, and one that goes on.
LEMMA LabelsOn ==
  ASSUME TextOK, Complete, NEW i \in Positions, NEW g, Shape(g, i - 1), CodeAimed(g),
         NEW L, NEW R, Labels(g, i - 1, L, R), NEW h, Len(h.code) \in Nat, Len(h.code) >= Len(g.code),
         \A c \in 1..Len(g.code) : c # g.at => h.code[c] = g.code[c],
         NEW M \in [1..Len(h.code) -> 0..(Len(statements) + 1)], NEW Q \in [1..Len(h.code) -> 0..Highest],
         Longer(Len(g.code), L, R, M, Q),
         Kept(h.code[g.at], g.at, M, Q),
         \A c \in (Len(g.code) + 1)..Len(h.code) : Kept(h.code[c], c, M, Q),
         \A k \in Positions : k # i => h.begun[k] = g.begun[k],
         Op(i) \in Branching => Marked(h, i, M, Q),
         Ends[i] = "open" => Awaits(h, i + 1, M, Q)
  PROVE Labels(h, i, M, Q)
<1>0. Positions = 1..Len(statements) /\ Len(statements) \in Nat
  BY TextShape0
<1>1. g \in GStates /\ Len(g.code) \in Nat /\ Len(g.code) >= 2 /\ g.at \in 1..Len(g.code)
  BY CodeParts DEF Shape
<1>2. M[Entry] = 1 /\ M[ReturnBlock] = Len(statements) + 1 /\ Q[ReturnBlock] = Highest
  BY <1>1 DEF Labels, Longer, Entry, ReturnBlock
<1>3. ASSUME NEW b \in 1..Len(h.code) PROVE Kept(h.code[b], b, M, Q)
  <2>1. CASE b \notin 1..Len(g.code)
    <3>1. b \in (Len(g.code) + 1)..Len(h.code)
      BY <1>1, <2>1
    <3> QED BY <3>1
  <2>2. CASE b = g.at
    BY <2>2
  <2>3. CASE b \in 1..Len(g.code) /\ b # g.at
    <3>1. h.code[b] = g.code[b] /\ Kept(g.code[b], b, L, R) /\ BlockAimed(g.code[b], Len(g.code))
      BY <2>3 DEF Labels, CodeAimed
    <3>2. g.code[b] \in Seq(Instructions)
      BY <1>1, <2>3, CodeParts
    <3>3. Kept(g.code[b], b, M, Q)
      BY <1>1, <2>3, <3>1, <3>2, KeptLabels
    <3> QED BY <3>1, <3>3
  <2> QED BY <2>1, <2>2, <2>3
<1>4. ASSUME NEW k \in Heads(i) PROVE Marked(h, k, M, Q)
  <2>1. k \in 1..i /\ Op(k) \in Branching
    BY DEF Heads
  <2>2. CASE k = i
    BY <2>1, <2>2
  <2>3. CASE k # i
    <3>1. k \in Heads(i - 1) /\ k \in Positions
      BY <1>0, <2>1, <2>3 DEF Heads
    <3>2. h.begun[k] = g.begun[k] /\ Marked(g, k, L, R) /\ Labelled(g, k)
      BY <2>3, <3>1 DEF Labels, Shape
    <3>3. g.begun[k].to \in 1..Len(g.code) /\ g.begun[k].after \in 1..Len(g.code)
      BY <1>1, <3>2 DEF Labelled, ReturnBlock
    <3> QED BY <3>2, <3>3 DEF Marked, Longer
  <2> QED BY <2>2, <2>3
<1> QED BY <1>2, <1>3, <1>4 DEF Labels

\* The generator before item i of a function that runs as written.
Stepping(g, i, L, R) ==
  /\ Shape(g, i - 1) /\ CodeAimed(g)
  /\ Tidy(g, Reserved(g, i - 1), Ends[i - 1])
  /\ Labels(g, i - 1, L, R)

\* The parts of what is known before an item.
LEMMA SteppingIs ==
  ASSUME TextOK, NEW i \in Positions, NEW g, NEW L, NEW R, Stepping(g, i, L, R)
  PROVE /\ i \in 1..Len(statements) /\ Len(statements) \in Nat /\ i \in Nat
        /\ g \in GStates /\ Len(g.code) \in Nat /\ g.at \in 1..Len(g.code) /\ Len(g.code) >= 2
        /\ g.code[g.at] \in Seq(Instructions) /\ BlockAimed(g.code[g.at], Len(g.code))
        /\ Kept(g.code[g.at], g.at, L, R)
        /\ L \in [1..Len(g.code) -> 0..(Len(statements) + 1)] /\ R \in [1..Len(g.code) -> 0..Highest]
        /\ L[ReturnBlock] = Len(statements) + 1 /\ R[ReturnBlock] = Highest
        /\ Ends[i - 1] = "open" => Expects(g.code[g.at], g.at, Tree!Arrive(i), L) /\ Going(g.code[g.at])
                                   /\ (g.code[g.at] = <<>> => R[g.at] <= 2 * i)
<1>1. i \in 1..Len(statements) /\ Len(statements) \in Nat /\ i \in Nat /\ (i - 1) + 1 = i
  BY TextShape0
<1>2. g \in GStates /\ Len(g.code) \in Nat /\ g.at \in 1..Len(g.code) /\ Len(g.code) >= 2
      /\ g.code[g.at] \in Seq(Instructions)
  BY CodeParts DEF Stepping, Shape
<1>3. BlockAimed(g.code[g.at], Len(g.code)) /\ Kept(g.code[g.at], g.at, L, R)
  BY <1>2 DEF Stepping, CodeAimed, Labels
<1>4. Ends[i - 1] = "open" => Awaits(g, i, L, R) /\ Going(g.code[g.at])
  BY <1>1 DEF Stepping, Labels, Tidy
<1> QED BY <1>1, <1>2, <1>3, <1>4 DEF Stepping, Labels, Awaits

\* The code of item i in the block in which the code goes on.
LEMMA EmitKept ==
  ASSUME TextOK, NEW i \in Positions, NEW g, NEW L, NEW R, Stepping(g, i, L, R), Ends[i - 1] = "open",
         NEW M, NEW Q, Longer(Len(g.code), L, R, M, Q), NEW x \in Instructions,
         Shows(x, M) = Tree!Arrive(i), Decides(x, M), x.op = "br" => Q[x.to] \in Nat /\ Q[x.to] > 2 * i
  PROVE LET s == Append(g.code[g.at], x) IN
        /\ s \in Seq(Instructions) /\ s # <<>>
        /\ Kept(s, g.at, M, Q)
        /\ x.op = "exec" => Expects(s, g.at, Tree!After(x.point, TRUE), M)
<1> DEFINE t == g.code[g.at]
           b == g.at
<1>1. /\ t \in Seq(Instructions) /\ BlockAimed(t, Len(g.code)) /\ Len(g.code) \in Nat /\ b \in 1..Len(g.code)
      /\ Kept(t, b, L, R) /\ Expects(t, b, Tree!Arrive(i), L) /\ (t = <<>> => R[b] <= 2 * i)
      /\ R[b] \in Nat /\ i \in Nat
  <2>1. R \in [1..Len(g.code) -> 0..Highest] /\ g.at \in 1..Len(g.code) /\ Highest \in Nat
    BY SteppingIs DEF Highest
  <2>2. R[b] \in Nat
    BY <2>1
  <2> QED BY <2>2, SteppingIs
<1> HIDE DEF t, b
<1>2. Kept(t, b, M, Q) /\ Expects(t, b, Tree!Arrive(i), M)
  BY <1>1, KeptLabels
<1>3. t = <<>> => (x.op = "br" => Q[x.to] > Q[b])
  <2>1. Q[b] = R[b]
    BY <1>1 DEF Longer
  <2> QED BY <1>1, <2>1
<1>4. Append(t, x) \in Seq(Instructions) /\ Kept(Append(t, x), b, M, Q)
      /\ (x.op = "exec" => Expects(Append(t, x), b, Tree!After(x.point, TRUE), M))
  BY <1>1, <1>2, <1>3, KeptOn
<1>5. Append(t, x) # <<>>
  BY <1>1, LongerIs
<1> QED BY <1>4, <1>5 DEF t, b

\* No blocks are added.
LEMMA LabelsSame ==
  ASSUME TextOK, Complete, NEW i \in Positions, Op(i) \notin Branching, NEW g, NEW L, NEW R, Stepping(g, i, L, R),
         NEW h, h.begun = g.begun, Len(h.code) = Len(g.code),
         \A c \in 1..Len(g.code) : c # g.at => h.code[c] = g.code[c],
         Kept(h.code[g.at], g.at, L, R),
         Ends[i] = "open" => Awaits(h, i + 1, L, R)
  PROVE Labels(h, i, L, R)
<1>1. /\ Len(g.code) \in Nat
      /\ L \in [1..Len(g.code) -> 0..(Len(statements) + 1)] /\ R \in [1..Len(g.code) -> 0..Highest]
  BY SteppingIs
<1>2. Shape(g, i - 1) /\ CodeAimed(g) /\ Labels(g, i - 1, L, R)
  BY DEF Stepping
<1>3. Longer(Len(g.code), L, R, L, R)
  BY DEF Longer
<1>4. /\ Len(h.code) \in Nat /\ Len(h.code) >= Len(g.code)
      /\ L \in [1..Len(h.code) -> 0..(Len(statements) + 1)] /\ R \in [1..Len(h.code) -> 0..Highest]
      /\ \A c \in (Len(g.code) + 1)..Len(h.code) : Kept(h.code[c], c, L, R)
      /\ \A k \in Positions : k # i => h.begun[k] = g.begun[k]
  BY <1>1
<1> QED BY <1>2, <1>3, <1>4, LabelsOn

\* The next item keeps it so.
LabelsStep(g, i) == \E M, Q : Labels(Build(g, i), i, M, Q)

\* Statements without blocks, but for checks.
LEMMA LabelsPlain ==
  ASSUME Faithful, NEW i \in Positions, NEW g, NEW L, NEW R, Stepping(g, i, L, R), Op(i) = "PLAIN"
  PROVE LabelsStep(g, i)
<1> DEFINE h == Build(g, i)
           x == Exec(Do(i))
<1>0. TextOK /\ Complete /\ Fits(i)
  BY DEF Faithful
<1>1. /\ g \in GStates /\ Len(g.code) \in Nat /\ g.at \in 1..Len(g.code)
      /\ L \in [1..Len(g.code) -> 0..(Len(statements) + 1)] /\ R \in [1..Len(g.code) -> 0..Highest]
  BY <1>0, SteppingIs
<1>2. /\ h.at = g.at /\ h.begun = g.begun /\ Len(h.code) = Len(g.code)
      /\ h.code[g.at] = Append(g.code[g.at], x)
      /\ \A c \in 1..Len(g.code) : c # g.at => h.code[c] = g.code[c]
  BY <1>0, <1>1, PlainAdds
<1>3. Ends[i - 1] = "open"
  BY <1>0 DEF Fits, EndsIf
<1>4. x \in Instructions /\ Shows(x, L) = Tree!Arrive(i) /\ Decides(x, L) /\ x.op = "exec"
      /\ Tree!After(x.point, TRUE) = Tree!Arrive(i + 1)
  <2>1. x \in Instructions
    BY InstructionsAre
  <2>2. Tree!Arrive(i) = Do(i)
    BY <1>0, ArriveIs
  <2>3. Tree!After(Do(i), TRUE) = Tree!Arrive(i + 1)
    BY AfterIs
  <2> QED BY <2>1, <2>2, <2>3, ShowsAre DEF Exec
<1> HIDE DEF h, x
<1>5. Longer(Len(g.code), L, R, L, R)
  BY DEF Longer
<1>6. Kept(h.code[g.at], g.at, L, R) /\ h.code[g.at] # <<>>
      /\ Expects(h.code[g.at], g.at, Tree!Arrive(i + 1), L)
  BY <1>0, <1>2, <1>3, <1>4, <1>5, EmitKept
<1>7. Awaits(h, i + 1, L, R)
  BY <1>2, <1>6 DEF Awaits
<1>8. Labels(h, i, L, R)
  BY <1>0, <1>2, <1>6, <1>7, LabelsSame DEF Branching, Loops
<1> QED BY <1>8 DEF LabelsStep, h

\* A return leads to the end of the function.
LEMMA LabelsYield ==
  ASSUME Faithful, NEW i \in Positions, NEW g, NEW L, NEW R, Stepping(g, i, L, R), Op(i) = "YIELD"
  PROVE LabelsStep(g, i)
<1> DEFINE h == Build(g, i)
           x == Exec(Do(i))
           y == Br(ReturnBlock)
           s == Append(g.code[g.at], x)
<1>0. TextOK /\ Complete /\ Fits(i)
  BY DEF Faithful
<1>1. /\ g \in GStates /\ Len(g.code) \in Nat /\ g.at \in 1..Len(g.code)
      /\ L \in [1..Len(g.code) -> 0..(Len(statements) + 1)] /\ R \in [1..Len(g.code) -> 0..Highest]
      /\ L[ReturnBlock] = Len(statements) + 1 /\ Len(statements) \in Nat /\ i \in 1..Len(statements)
  BY <1>0, SteppingIs
<1>2. /\ h.at = g.at /\ h.begun = g.begun /\ Len(h.code) = Len(g.code)
      /\ h.code[g.at] = Append(s, y)
      /\ \A c \in 1..Len(g.code) : c # g.at => h.code[c] = g.code[c]
  BY <1>0, <1>1, YieldAdds
<1>3. Ends[i - 1] = "open" /\ Ends[i] = "closed"
  BY <1>0, <1>1, EndsIs DEF Fits, EndsIf
<1>4. x \in Instructions /\ Shows(x, L) = Tree!Arrive(i) /\ Decides(x, L) /\ x.op = "exec"
      /\ Tree!After(x.point, TRUE) = Succeeded
  <2>1. x \in Instructions
    BY InstructionsAre
  <2>2. Tree!Arrive(i) = Do(i)
    BY <1>0, ArriveIs
  <2>3. Tree!After(Do(i), TRUE) = Succeeded
    BY AfterIs
  <2> QED BY <2>1, <2>2, <2>3, ShowsAre DEF Exec
<1>5. y \in Instructions /\ Decides(y, L) /\ Shows(y, L) = Succeeded
  <2>1. Promise(L[ReturnBlock]) = Succeeded
    BY <1>0, <1>1, ArriveBehind DEF Promise
  <2>2. y \in Instructions
    BY InstructionsAre DEF ReturnBlock
  <2> QED BY <2>1, <2>2, ShowsAre
<1>6. Longer(Len(g.code), L, R, L, R)
  BY DEF Longer
<1> HIDE DEF h, x
<1>7. s \in Seq(Instructions) /\ s # <<>> /\ Kept(s, g.at, L, R) /\ Expects(s, g.at, Succeeded, L)
  BY <1>0, <1>3, <1>4, <1>6, EmitKept
<1> HIDE DEF s, y
<1>8. Kept(h.code[g.at], g.at, L, R)
  BY <1>2, <1>5, <1>7, KeptOn
<1>9. Labels(h, i, L, R)
  BY <1>0, <1>2, <1>3, <1>8, LabelsSame DEF Branching, Loops
<1> QED BY <1>9 DEF LabelsStep, h

\* The code goes on in a block that has waited.
LEMMA EnterAwaits ==
  ASSUME TextOK, NEW i \in Positions, NEW g, NEW L, NEW R, Stepping(g, i, L, R), Ends[i - 1] \in {"open", "closed"},
         NEW h, h.at \in Reserved(g, i - 1),
         \A c \in 1..Len(g.code) : c # g.at => h.code[c] = g.code[c],
         Promise(L[h.at]) = Tree!Arrive(i + 1), R[h.at] = 2 * (i + 1)
  PROVE Awaits(h, i + 1, L, R)
<1>1. i - 1 \in Nat /\ i \in Nat
  BY SteppingIs
<1>2. g.at \notin Reserved(g, i - 1) /\ g.code[h.at] = <<>>
  BY DEF Stepping, Tidy
<1>3. h.at \in 1..Len(g.code)
  BY <1>1, ReservedIs DEF Stepping
<1>4. h.code[h.at] = <<>>
  BY <1>2, <1>3
<1> QED BY <1>1, <1>4 DEF Awaits, Expects

\* What waits for a statement that is open.
LEMMA HeadIs ==
  ASSUME TextOK, Complete, NEW i \in Positions, NEW g, NEW L, NEW R, Stepping(g, i, L, R), NEW k \in Heads(i - 1)
  PROVE /\ k \in Positions /\ Op(k) \in Branching /\ Labelled(g, k) /\ Marked(g, k, L, R)
        /\ Op(k) = "IF" /\ End(k) = i => g.begun[k].to \in Reserved(g, i - 1)
        /\ Finish(k) = i /\ ~IsLast(k) => g.begun[k].after \in Reserved(g, i - 1)
        /\ g.begun[k].to \in 1..Len(g.code) /\ g.begun[k].after \in 1..Len(g.code)
        /\ R[g.begun[k].to] \in Nat /\ R[g.begun[k].after] \in Nat
<1>1. /\ i \in 1..Len(statements) /\ Len(statements) \in Nat /\ i \in Nat /\ Len(g.code) \in Nat /\ Len(g.code) >= 2
      /\ R \in [1..Len(g.code) -> 0..Highest]
  BY SteppingIs
<1>2. Positions = 1..Len(statements)
  BY TextShape0
<1>3. k \in Positions /\ Op(k) \in Branching
  BY <1>1, <1>2 DEF Heads
<1>4. Labelled(g, k) /\ Marked(g, k, L, R)
  BY DEF Stepping, Shape, Labels
<1>5. Op(k) = "IF" /\ End(k) = i => k \in Within(i - 1)
  BY <1>1 DEF Within
<1>6. Finish(k) = i /\ ~IsLast(k) => k \in Behind(i - 1)
  BY <1>1 DEF Behind
<1>7. g.begun[k].to \in 1..Len(g.code) /\ g.begun[k].after \in 1..Len(g.code)
  BY <1>1, <1>4 DEF Labelled, ReturnBlock
<1>8. 0..Highest \subseteq Nat
  OBVIOUS
<1>9. R[g.begun[k].to] \in Nat /\ R[g.begun[k].after] \in Nat
  BY <1>1, <1>7, <1>8
<1> QED BY <1>3, <1>4, <1>5, <1>6, <1>7, <1>9 DEF Reserved

\* The end of a then-block.
LEMMA LabelsElse ==
  ASSUME Faithful, NEW i \in Positions, NEW g, NEW L, NEW R, Stepping(g, i, L, R), Op(i) = "ELSE"
  PROVE LabelsStep(g, i)
<1> DEFINE h == Build(g, i)
           k == In(i)
           to == g.begun[k].to
           after == g.begun[k].after
           x == Br(after)
<1>0. TextOK /\ Complete /\ Fits(i)
  BY DEF Faithful
<1>1. /\ g \in GStates /\ Len(g.code) \in Nat /\ g.at \in 1..Len(g.code) /\ i \in 1..Len(statements)
      /\ Len(statements) \in Nat /\ i \in Nat /\ g.code[g.at] \in Seq(Instructions)
      /\ Kept(g.code[g.at], g.at, L, R) /\ L[ReturnBlock] = Len(statements) + 1 /\ R[ReturnBlock] = Highest
  BY <1>0, SteppingIs
<1>2. /\ h.at = to /\ h.begun = g.begun /\ Len(h.code) = Len(g.code)
      /\ h.code[g.at] = IF Terminated(g) THEN g.code[g.at] ELSE Append(g.code[g.at], x)
      /\ \A c \in 1..Len(g.code) : c # g.at => h.code[c] = g.code[c]
  BY <1>0, <1>1, ElseAdds
<1>3. (Ends[i - 1] = "open" \/ Ends[i - 1] = "closed") /\ Ends[i] = "open"
  <2>1. i - 1 \in 0..Len(statements)
    BY <1>1
  <2> QED BY <1>0, <1>1, <2>1, EndsIs DEF Fits
<1>4. k \in Heads(i - 1) /\ End(k) = i /\ Op(k) = "IF"
  BY <1>0, EndOf, ItemsAre
<1> HIDE DEF h, k
<1>5. /\ k \in Positions /\ Op(k) \in Branching /\ Labelled(g, k) /\ Marked(g, k, L, R)
      /\ to \in Reserved(g, i - 1) /\ after \in 1..Len(g.code) /\ R[after] \in Nat
  BY <1>0, <1>4, HeadIs
<1>6. Kept(h.code[g.at], g.at, L, R)
  <2>1. CASE Ends[i - 1] = "closed"
    <3>1. Ended(g.code[g.at])
      BY <2>1 DEF Stepping, Tidy
    <3>2. h.code[g.at] = g.code[g.at]
      BY <1>1, <1>2, <3>1, TerminatedWhen
    <3> QED BY <1>1, <3>2
  <2>2. CASE Ends[i - 1] = "open"
    <3>1. Going(g.code[g.at])
      BY <2>2 DEF Stepping, Tidy
    <3>2. h.code[g.at] = Append(g.code[g.at], x)
      BY <1>1, <1>2, <3>1, TerminatedWhen
    <3>3. IsLast(k) => Finish(k) = Len(statements)
      BY <1>4, <1>5, <2>2, LastIs
    <3>4. Promise(L[after]) = Tree!Arrive(Finish(k) + 1) /\ R[after] >= 2 * (Finish(k) + 1)
      BY <1>1, <1>5, <3>3, FollowingIs
    <3>5. Finish(k) = End(i) /\ Finish(k) > i /\ Finish(k) \in Nat
      <4>1. End(k) < Finish(k) /\ Finish(k) \in Positions
        BY <1>0, <1>4, <1>5, FinishIs
      <4> QED BY <1>0, <1>4, <4>1, TextShape0 DEF Finish
    <3>6. Tree!Arrive(i) = Tree!Arrive(Finish(k) + 1)
      BY <1>0, <3>5, ArriveIs
    <3>7. x \in Instructions /\ Shows(x, L) = Tree!Arrive(i) /\ Decides(x, L)
      <4>1. after \in Nat
        BY <1>1, <1>5
      <4> QED BY <3>4, <3>6, <4>1, InstructionsAre, ShowsAre
    <3>8. x.op = "br" => R[x.to] \in Nat /\ R[x.to] > 2 * i
      <4>1. x.to = after
        BY DEF Br
      <4> QED BY <1>1, <1>5, <3>4, <3>5, <4>1
    <3>9. Longer(Len(g.code), L, R, L, R)
      BY DEF Longer
    <3> HIDE DEF x
    <3> QED BY <1>0, <2>2, <3>2, <3>7, <3>8, <3>9, EmitKept
  <2> QED BY <1>3, <2>1, <2>2
<1>7. Awaits(h, i + 1, L, R)
  <2>1. L[to] = i + 1 /\ R[to] = 2 * (i + 1)
    BY <1>4, <1>5 DEF Marked
  <2>2. Promise(L[to]) = Tree!Arrive(i + 1)
    BY <1>1, <2>1 DEF Promise
  <2> QED BY <1>0, <1>2, <1>3, <1>5, <2>1, <2>2, EnterAwaits
<1>8. Labels(h, i, L, R)
  BY <1>0, <1>2, <1>6, <1>7, LabelsSame DEF Branching, Loops
<1> QED BY <1>8 DEF LabelsStep, h

\* The end of an else-block.
LEMMA LabelsEndIf ==
  ASSUME Faithful, NEW i \in Positions, NEW g, NEW L, NEW R, Stepping(g, i, L, R), EndsIf(i)
  PROVE LabelsStep(g, i)
<1> DEFINE h == Build(g, i)
           k == In(In(i))
           after == g.begun[k].after
           x == Br(after)
<1>0. TextOK /\ Complete /\ Fits(i)
  BY DEF Faithful
<1>1. /\ g \in GStates /\ Len(g.code) \in Nat /\ g.at \in 1..Len(g.code) /\ i \in 1..Len(statements)
      /\ Len(statements) \in Nat /\ i \in Nat /\ g.code[g.at] \in Seq(Instructions)
      /\ Kept(g.code[g.at], g.at, L, R) /\ L[ReturnBlock] = Len(statements) + 1 /\ R[ReturnBlock] = Highest
  BY <1>0, SteppingIs
<1>2. /\ h.begun = g.begun /\ Len(h.code) = Len(g.code)
      /\ h.at = IF Terminated(g) THEN g.at ELSE after
      /\ h.code[g.at] = IF Terminated(g) THEN g.code[g.at] ELSE Append(g.code[g.at], x)
      /\ \A c \in 1..Len(g.code) : c # g.at => h.code[c] = g.code[c]
  BY <1>0, <1>1, EndIfAdds
<1>3. Ends[i - 1] = "open" \/ Ends[i - 1] = "closed"
  <2>1. i - 1 \in 0..Len(statements)
    BY <1>1
  <2> QED BY <1>0, <1>1, <2>1, EndsIs DEF Fits
<1>4. k \in Heads(i - 1) /\ Finish(k) = i /\ Op(k) = "IF" /\ Op(i) = "END"
  BY <1>0, EndOf, ItemsAre
<1>5. Ends[i] = IF Ends[i - 1] = "closed" THEN "closed" ELSE IF Final(i) THEN "return" ELSE "open"
  BY <1>0, <1>1, EndsIs
<1> HIDE DEF h, k
<1>6. /\ k \in Positions /\ Op(k) \in Branching /\ Labelled(g, k) /\ Marked(g, k, L, R)
      /\ ~IsLast(k) => after \in Reserved(g, i - 1)
      /\ after \in 1..Len(g.code) /\ R[after] \in Nat
  BY <1>0, <1>4, HeadIs
<1>7. CASE Ends[i - 1] = "closed"
  <2>1. Ended(g.code[g.at])
    BY <1>7 DEF Stepping, Tidy
  <2>2. h.code[g.at] = g.code[g.at]
    BY <1>1, <1>2, <2>1, TerminatedWhen
  <2>3. Kept(h.code[g.at], g.at, L, R) /\ Ends[i] # "open"
    BY <1>1, <1>5, <1>7, <2>2
  <2>4. Labels(h, i, L, R)
    BY <1>0, <1>2, <1>4, <2>3, LabelsSame DEF Branching, Loops
  <2> QED BY <2>4 DEF LabelsStep, h
<1>8. CASE Ends[i - 1] = "open"
  <2>1. Going(g.code[g.at])
    BY <1>8 DEF Stepping, Tidy
  <2>2. h.code[g.at] = Append(g.code[g.at], x) /\ h.at = after
    BY <1>1, <1>2, <2>1, TerminatedWhen
  <2>3. IsLast(k) => Finish(k) = Len(statements)
    <3>1. Ends[Finish(k)] # "closed"
      BY <1>4, <1>5, <1>8
    <3> QED BY <1>6, <3>1, LastIs
  <2>4. Promise(L[after]) = Tree!Arrive(i + 1) /\ R[after] >= 2 * (i + 1) /\ (~IsLast(k) => R[after] = 2 * (i + 1))
    BY <1>1, <1>4, <1>6, <2>3, FollowingIs
  <2>5. x \in Instructions /\ Shows(x, L) = Tree!Arrive(i) /\ Decides(x, L)
    <3>1. after \in Nat
      BY <1>1, <1>6
    <3>2. Tree!Arrive(i) = Tree!Arrive(i + 1)
      BY <1>0, ArriveIs
    <3> QED BY <2>4, <3>1, <3>2, InstructionsAre, ShowsAre
  <2>6. x.op = "br" => R[x.to] \in Nat /\ R[x.to] > 2 * i
    <3>1. x.to = after
      BY DEF Br
    <3> QED BY <1>1, <1>6, <2>4, <3>1
  <2>7. Longer(Len(g.code), L, R, L, R)
    BY DEF Longer
  <2> HIDE DEF x
  <2>8. Kept(h.code[g.at], g.at, L, R)
    BY <1>0, <1>8, <2>2, <2>5, <2>6, <2>7, EmitKept
  <2>9. ASSUME Ends[i] = "open" PROVE Awaits(h, i + 1, L, R)
    <3>1. ~Final(i)
      BY <1>5, <1>8, <2>9
    <3>2. ~IsLast(k)
      BY <1>4, <3>1 DEF IsLast
    <3> QED BY <1>0, <1>2, <1>6, <1>8, <2>2, <2>4, <3>2, EnterAwaits
  <2>10. Labels(h, i, L, R)
    BY <1>0, <1>2, <1>4, <2>8, <2>9, LabelsSame DEF Branching, Loops
  <2> QED BY <2>10 DEF LabelsStep, h
<1> QED BY <1>3, <1>7, <1>8

\* The end of the body of a loop.
LEMMA LabelsEndLoop ==
  ASSUME Faithful, NEW i \in Positions, NEW g, NEW L, NEW R, Stepping(g, i, L, R), EndsLoop(i)
  PROVE LabelsStep(g, i)
<1> DEFINE h == Build(g, i)
           k == In(i)
           to == g.begun[k].to
           after == g.begun[k].after
           b == g.at
<1>0. TextOK /\ Complete /\ Fits(i)
  BY DEF Faithful
<1>1. /\ g \in GStates /\ Len(g.code) \in Nat /\ b \in 1..Len(g.code) /\ i \in 1..Len(statements)
      /\ Len(statements) \in Nat /\ i \in Nat /\ g.code[b] \in Seq(Instructions)
      /\ Kept(g.code[b], b, L, R) /\ L[ReturnBlock] = Len(statements) + 1 /\ R[ReturnBlock] = Highest
  BY <1>0, SteppingIs
<1>2. /\ h.at = after /\ h.begun = g.begun /\ Len(h.code) = Len(g.code)
      /\ Op(k) = "DO" => h.code[b] = Append(g.code[b], CondBr(Do(k), to, after))
      /\ Op(k) = "WHILE" => h.code[b] = Append(g.code[b], Br(to))
      /\ Op(k) = "FOR" => h.code[b] = Append(Append(g.code[b], Exec(Iter(k))), Br(to))
      /\ \A c \in 1..Len(g.code) : c # b => h.code[c] = g.code[c]
  BY <1>0, <1>1, EndLoopAdds
<1>3. Ends[i - 1] = "open" /\ Ends[i] = IF Final(i) THEN "return" ELSE "open"
  <2>1. Op(i) # "ELSE" /\ ~EndsIf(i)
    BY <1>0, ItemsAre
  <2> QED BY <1>0, <1>1, <2>1, EndsIs DEF Fits
<1>4. k \in Heads(i - 1) /\ Finish(k) = i /\ Op(k) \in Loops /\ Op(i) = "END" /\ Op(k) # "IF" /\ End(k) = i
  <2>1. k \in Heads(i - 1) /\ Finish(k) = i
    BY <1>0, EndOf
  <2>2. Op(k) \in Loops /\ Op(i) = "END"
    BY <1>0, ItemsAre
  <2> QED BY <2>1, <2>2 DEF Finish, Loops
<1> HIDE DEF h, k
<1>5. /\ k \in Positions /\ Op(k) \in Branching /\ Labelled(g, k) /\ Marked(g, k, L, R)
      /\ ~IsLast(k) => after \in Reserved(g, i - 1)
      /\ to \in 1..Len(g.code) /\ after \in 1..Len(g.code)
      /\ R[to] \in Nat /\ R[after] \in Nat
  BY <1>0, <1>4, HeadIs
<1>6. IsLast(k) => Finish(k) = Len(statements)
  BY <1>4, <1>5, LastIs
<1>7. Promise(L[after]) = Tree!Arrive(i + 1) /\ (~IsLast(k) => R[after] = 2 * (i + 1))
  BY <1>1, <1>4, <1>5, <1>6, FollowingIs
<1>8. k \in 1..Len(statements) /\ k \in Nat /\ to \in Nat /\ after \in Nat
  <2>1. k \in 1..Len(statements)
    BY <1>0, <1>5, TextShape0
  <2>2. to \in 1..Len(g.code) /\ after \in 1..Len(g.code)
    BY <1>5
  <2> HIDE DEF to, after
  <2> QED BY <1>1, <2>1, <2>2
<1>9. Tree!Arrive(i) = IF Op(k) = "FOR" THEN Iter(k) ELSE Do(k)
  BY <1>0, ArriveIs DEF k
<1>10. Longer(Len(g.code), L, R, L, R)
  BY DEF Longer
<1>a. Do(k) \in Points /\ Iter(k) \in Points
  BY <1>5, InstructionsAre
<1>11. Op(k) \in {"WHILE", "FOR"} => Promise(L[to]) = Do(k) /\ R[to] > 2 * i
  <2> SUFFICES ASSUME Op(k) \in {"WHILE", "FOR"} PROVE Promise(L[to]) = Do(k) /\ R[to] > 2 * i
    OBVIOUS
  <2>1. L[to] = k /\ R[to] = Highest
    BY <1>5 DEF Marked
  <2>2. Promise(L[to]) = Tree!Arrive(k)
    BY <1>8, <2>1 DEF Promise
  <2>3. Tree!Arrive(k) = Do(k)
    BY <1>0, <1>5, ArriveIs
  <2> QED BY <1>1, <2>1, <2>2, <2>3 DEF Highest
<1>12. Br(to) \in Instructions /\ Decides(Br(to), L) /\ Br(to).op = "br" /\ Br(to).to = to
       /\ Shows(Br(to), L) = Promise(L[to])
  BY <1>8, InstructionsAre, ShowsAre DEF Br
<1> HIDE DEF b
<1>13. Kept(h.code[b], b, L, R)
  <2>1. CASE Op(k) = "DO"
    <3> DEFINE x == CondBr(Do(k), to, after)
    <3>1. Promise(L[to]) = Tree!After(Do(k), TRUE)
      <4>1. L[to] = k + 1
        BY <1>5, <2>1 DEF Marked
      <4>2. Promise(L[to]) = Tree!Arrive(k + 1)
        BY <1>8, <4>1 DEF Promise
      <4> QED BY <1>5, <4>2, AfterIs
    <3>2. Promise(L[after]) = Tree!After(Do(k), FALSE)
      BY <1>4, <1>5, <1>7, AfterIs
    <3>3. x \in Instructions /\ Shows(x, L) = Tree!Arrive(i) /\ Decides(x, L) /\ x.op = "condbr"
      <4>1. x \in Instructions
        <5> HIDE DEF to, after
        <5> QED BY <1>8, <1>a, InstructionsAre
      <4>2. Shows(x, L) = Do(k) /\ Decides(x, L)
        <5> HIDE DEF to, after
        <5>1. Shows(x, L) = Do(k)
          BY DEF Shows, CondBr
        <5>2. Decides(x, L) <=> Promise(L[to]) = Tree!After(Do(k), TRUE) /\ Promise(L[after]) = Tree!After(Do(k), FALSE)
          BY DEF Decides, CondBr
        <5> QED BY <3>1, <3>2, <5>1, <5>2
      <4>3. x.op = "condbr"
        BY DEF CondBr
      <4> QED BY <1>9, <2>1, <4>1, <4>2, <4>3
    <3>4. h.code[b] = Append(g.code[b], x)
      BY <1>2, <2>1
    <3> HIDE DEF x
    <3> QED BY <1>0, <1>3, <1>10, <3>3, <3>4, EmitKept DEF b
  <2>2. CASE Op(k) = "WHILE"
    <3>1. Shows(Br(to), L) = Tree!Arrive(i)
      BY <1>9, <1>11, <1>12, <2>2
    <3>2. h.code[b] = Append(g.code[b], Br(to))
      BY <1>2, <2>2
    <3>3. Br(to).op = "br" => R[Br(to).to] \in Nat /\ R[Br(to).to] > 2 * i
      BY <1>5, <1>11, <1>12, <2>2
    <3> QED BY <1>0, <1>3, <1>10, <1>12, <3>1, <3>2, <3>3, EmitKept DEF b
  <2>3. CASE Op(k) = "FOR"
    <3> DEFINE x == Exec(Iter(k))
               s == Append(g.code[b], x)
    <3>1. x \in Instructions /\ Shows(x, L) = Tree!Arrive(i) /\ Decides(x, L) /\ x.op = "exec"
          /\ Tree!After(x.point, TRUE) = Do(k)
      <4>1. x.op = "exec" /\ x.point = Iter(k)
        BY DEF Exec
      <4>2. Tree!After(Iter(k), TRUE) = Do(k)
        BY <1>5, AfterIs
      <4>3. x \in Instructions /\ Shows(x, L) = Iter(k) /\ Decides(x, L)
        BY <1>a, InstructionsAre, ShowsAre
      <4> QED BY <1>9, <2>3, <4>1, <4>2, <4>3
    <3> HIDE DEF x
    <3>2. s \in Seq(Instructions) /\ s # <<>> /\ Kept(s, b, L, R) /\ Expects(s, b, Do(k), L)
      BY <1>0, <1>3, <1>10, <3>1, EmitKept DEF b
    <3>3. h.code[b] = Append(s, Br(to))
      BY <1>2, <2>3 DEF x
    <3>4. Shows(Br(to), L) = Do(k)
      BY <1>11, <1>12, <2>3
    <3> HIDE DEF s
    <3> QED BY <1>12, <3>2, <3>3, <3>4, KeptOn
  <2> QED BY <1>4, <2>1, <2>2, <2>3 DEF Loops
<1>14. ASSUME Ends[i] = "open" PROVE Awaits(h, i + 1, L, R)
  <2>1. ~Final(i)
    BY <1>3, <1>14
  <2>2. ~IsLast(k)
    BY <1>4, <2>1 DEF IsLast
  <2>3. h.at \in Reserved(g, i - 1) /\ Promise(L[h.at]) = Tree!Arrive(i + 1) /\ R[h.at] = 2 * (i + 1)
    BY <1>2, <1>5, <1>7, <2>2
  <2> QED BY <1>0, <1>2, <1>3, <2>3, EnterAwaits DEF b
<1>15. Labels(h, i, L, R)
  BY <1>0, <1>2, <1>4, <1>13, <1>14, LabelsSame DEF Branching, Loops, b
<1> QED BY <1>15 DEF LabelsStep, h

\* What up to three new blocks are for.
Furthered(n, m, L, R, M, Q, v, r) ==
  /\ M \in [1..m -> 0..(Len(statements) + 1)] /\ Q \in [1..m -> 0..Highest]
  /\ Longer(n, L, R, M, Q)
  /\ \A k \in 1..3 : n + k <= m => M[n + k] = v[k] /\ Q[n + k] = r[k]

\* New blocks can be for anything.
LEMMA LabelsFurther ==
  ASSUME NEW n \in Nat, NEW m \in Nat, m >= n, m <= n + 3, Len(statements) \in Nat,
         NEW L \in [1..n -> 0..(Len(statements) + 1)], NEW R \in [1..n -> 0..Highest],
         NEW v \in [1..3 -> 0..(Len(statements) + 1)], NEW r \in [1..3 -> 0..Highest]
  PROVE \E M, Q : Furthered(n, m, L, R, M, Q, v, r)
<1> DEFINE M == [c \in 1..m |-> IF c <= n THEN L[c] ELSE v[c - n]]
           Q == [c \in 1..m |-> IF c <= n THEN R[c] ELSE r[c - n]]
<1>1. ASSUME NEW c \in 1..m
      PROVE (c <= n => c \in 1..n) /\ (~(c <= n) => c - n \in 1..3)
  OBVIOUS
<1>2. M \in [1..m -> 0..(Len(statements) + 1)]
  BY <1>1
<1>3. Q \in [1..m -> 0..Highest]
  BY <1>1
<1>4. Longer(n, L, R, M, Q)
  <2>1. \A c \in 1..n : c \in 1..m /\ c <= n
    OBVIOUS
  <2> QED BY <2>1 DEF Longer
<1>5. ASSUME NEW k \in 1..3, n + k <= m PROVE M[n + k] = v[k] /\ Q[n + k] = r[k]
  <2>1. n + k \in 1..m /\ ~(n + k <= n) /\ (n + k) - n = k
    BY <1>5
  <2> QED BY <2>1
<1> HIDE DEF M, Q
<1>6. Furthered(n, m, L, R, M, Q, v, r)
  BY <1>2, <1>3, <1>4, <1>5 DEF Furthered
<1> QED BY <1>6

\* The new blocks go on with item j.
LEMMA FreshAwaits ==
  ASSUME TextOK, NEW h, NEW j \in Nat, NEW L, NEW R, h.code[h.at] = <<>>,
         Promise(L[h.at]) = Tree!Arrive(j), R[h.at] <= 2 * j
  PROVE Awaits(h, j, L, R)
BY DEF Awaits, Expects

\* A check, with the block for its failure.
LEMMA LabelsCheck ==
  ASSUME Faithful, NEW i \in Positions, NEW g, NEW L, NEW R, Stepping(g, i, L, R), Op(i) = "CHECK"
  PROVE LabelsStep(g, i)
<1> DEFINE h == Build(g, i)
<1>0. TextOK /\ Complete /\ Fits(i)
  BY DEF Faithful
<1>1. /\ g \in GStates /\ Len(g.code) \in Nat /\ g.at \in 1..Len(g.code) /\ i \in 1..Len(statements)
      /\ Len(statements) \in Nat /\ i \in Nat
      /\ L \in [1..Len(g.code) -> 0..(Len(statements) + 1)] /\ R \in [1..Len(g.code) -> 0..Highest]
  BY <1>0, SteppingIs
<1>2. PICK n \in Nat : n = Len(g.code)
  BY <1>1
<1> DEFINE x == CondBr(Do(i), n + 2, n + 1)
<1>3. /\ h.at = n + 3 /\ h.begun = g.begun /\ Len(h.code) = n + 3
      /\ h.code[g.at] = Append(g.code[g.at], x)
      /\ \A c \in 1..n : c # g.at => h.code[c] = g.code[c]
      /\ h.code[n + 1] = <<StoreFalse, Br(ReturnBlock)>>
      /\ h.code[n + 2] = <<Br(n + 3)>>
      /\ h.code[n + 3] = <<>>
  BY <1>0, <1>1, <1>2, CheckAdds
<1>4. Ends[i - 1] = "open"
  BY <1>0 DEF Fits, EndsIf
<1> HIDE DEF h, x
<1> DEFINE v == <<0, i + 1, i + 1>>
           r == <<0, 2 * i + 1, 2 * (i + 1)>>
<1>5. v \in [1..3 -> 0..(Len(statements) + 1)] /\ r \in [1..3 -> 0..Highest]
  <2>1. i + 1 \in 0..(Len(statements) + 1) /\ 2 * i + 1 \in 0..Highest /\ 2 * (i + 1) \in 0..Highest
        /\ 0 \in 0..(Len(statements) + 1) /\ 0 \in 0..Highest
    BY <1>1 DEF Highest
  <2> QED BY <2>1
<1>6. v[1] = 0 /\ v[2] = i + 1 /\ v[3] = i + 1 /\ r[2] = 2 * i + 1 /\ r[3] = 2 * (i + 1)
  OBVIOUS
<1> HIDE DEF v, r
<1>7. PICK M, Q : Furthered(n, n + 3, L, R, M, Q, v, r)
  <2>1. n + 3 \in Nat /\ n + 3 >= n /\ n + 3 <= n + 3
    OBVIOUS
  <2> QED BY <1>1, <1>2, <1>5, <2>1, LabelsFurther
<1>8. /\ M \in [1..(n + 3) -> 0..(Len(statements) + 1)] /\ Q \in [1..(n + 3) -> 0..Highest]
      /\ Longer(n, L, R, M, Q)
      /\ M[n + 1] = 0 /\ M[n + 2] = i + 1 /\ M[n + 3] = i + 1
      /\ Q[n + 2] = 2 * i + 1 /\ Q[n + 3] = 2 * (i + 1)
  <2>1. \A k \in 1..3 : M[n + k] = v[k] /\ Q[n + k] = r[k]
    BY <1>7 DEF Furthered
  <2>2. 1 \in 1..3 /\ 2 \in 1..3 /\ 3 \in 1..3
    OBVIOUS
  <2> QED BY <1>6, <1>7, <2>1, <2>2 DEF Furthered
<1>9. Promise(M[n + 1]) = Failed /\ Promise(M[n + 2]) = Tree!Arrive(i + 1) /\ Promise(M[n + 3]) = Tree!Arrive(i + 1)
  BY <1>1, <1>8 DEF Promise
<1>10. Kept(h.code[g.at], g.at, M, Q)
  <2>1. x \in Instructions
    <3>1. Do(i) \in Points /\ n + 2 \in Nat /\ n + 1 \in Nat
      BY InstructionsAre
    <3> QED BY <3>1, InstructionsAre DEF x
  <2>2. Shows(x, M) = Do(i) /\ x.op = "condbr"
    BY DEF Shows, CondBr, x
  <2>3. Decides(x, M)
    BY <1>9, AfterIs DEF Decides, CondBr, x
  <2>4. Tree!Arrive(i) = Do(i)
    BY <1>0, ArriveIs
  <2> QED BY <1>0, <1>2, <1>3, <1>4, <1>8, <2>1, <2>2, <2>3, <2>4, EmitKept
<1>11. ASSUME NEW c \in (n + 1)..(n + 3) PROVE Kept(h.code[c], c, M, Q)
  <2>1. c = n + 1 \/ c = n + 2 \/ c = n + 3
    OBVIOUS
  <2>2. Kept(h.code[n + 1], n + 1, M, Q)
    BY <1>3, <1>8, KeptFailure
  <2>3. Kept(h.code[n + 2], n + 2, M, Q)
    <3> DEFINE y == Br(n + 3)
    <3>1. y \in Instructions /\ y.op = "br" /\ y.to = n + 3
      <4>1. n + 3 \in Nat
        OBVIOUS
      <4> QED BY <4>1, InstructionsAre DEF Br
    <3>2. Shows(y, M) = Promise(M[n + 2]) /\ Decides(y, M)
      BY <1>9 DEF Shows, Decides, Br
    <3>3. Q[n + 3] > Q[n + 2]
      BY <1>1, <1>8
    <3> HIDE DEF y
    <3>4. Kept(<<y>>, n + 2, M, Q)
      BY <3>1, <3>2, <3>3, KeptOne
    <3> QED BY <1>3, <3>4 DEF y
  <2>4. Kept(h.code[n + 3], n + 3, M, Q)
    BY <1>3, KeptEmpty
  <2> QED BY <2>1, <2>2, <2>3, <2>4
<1>12. Awaits(h, i + 1, M, Q)
  <2>1. i + 1 \in Nat /\ Q[h.at] <= 2 * (i + 1) /\ Promise(M[h.at]) = Tree!Arrive(i + 1) /\ h.code[h.at] = <<>>
    BY <1>1, <1>3, <1>8, <1>9
  <2> QED BY <1>0, <2>1, FreshAwaits
<1>13. Labels(h, i, M, Q)
  <2>1. Len(h.code) \in Nat /\ Len(h.code) >= Len(g.code)
    BY <1>2, <1>3
  <2>2. Shape(g, i - 1) /\ CodeAimed(g) /\ Labels(g, i - 1, L, R) /\ Op(i) \notin Branching
    BY DEF Stepping, Branching, Loops
  <2> QED BY <1>0, <1>2, <1>3, <1>8, <1>10, <1>11, <1>12, <2>1, <2>2, LabelsOn
<1> QED BY <1>13 DEF LabelsStep, h

\* The positions that a statement with blocks leads to.
LEMMA TargetsAre ==
  ASSUME TextOK, Complete, NEW i \in Positions, Op(i) \in Branching
  PROVE /\ i \in Nat /\ i \in 1..Len(statements) /\ Len(statements) \in Nat
        /\ End(i) \in 1..Len(statements) /\ Finish(i) \in 1..Len(statements)
        /\ \A j \in 1..Len(statements) : j \in Nat /\ j + 1 \in 0..(Len(statements) + 1) /\ 2 * (j + 1) \in 0..Highest
                                        /\ Promise(j + 1) = Tree!Arrive(j + 1) /\ Promise(j) = Tree!Arrive(j)
                                        /\ j \in 0..(Len(statements) + 1) /\ Highest > 2 * j
        /\ Highest \in 0..Highest /\ 0 \in 0..Highest /\ 0 \in 0..(Len(statements) + 1) /\ Highest \in Nat
<1>1. Positions = 1..Len(statements) /\ Len(statements) \in Nat
  BY TextShape0
<1>2. End(i) \in 1..Len(statements) /\ Finish(i) \in 1..Len(statements)
  BY <1>1, FinishIs
<1>3. ASSUME NEW j \in 1..Len(statements)
      PROVE j \in Nat /\ j + 1 \in 0..(Len(statements) + 1) /\ 2 * (j + 1) \in 0..Highest /\ j + 1 # 0 /\ j # 0
            /\ j \in 0..(Len(statements) + 1) /\ Highest > 2 * j
  BY <1>1 DEF Highest
<1>4. Highest \in 0..Highest /\ 0 \in 0..Highest /\ 0 \in 0..(Len(statements) + 1) /\ Highest \in Nat
  BY <1>1 DEF Highest
<1> QED BY <1>1, <1>2, <1>3, <1>4 DEF Promise

\* What the new blocks of a statement are for, one by one.
LEMMA FurtheredIs ==
  ASSUME NEW n \in Nat, NEW m \in Nat, n + 1 <= m, NEW L, NEW R, NEW M, NEW Q, NEW v, NEW r,
         Furthered(n, m, L, R, M, Q, v, r)
  PROVE /\ M \in [1..m -> 0..(Len(statements) + 1)] /\ Q \in [1..m -> 0..Highest]
        /\ Longer(n, L, R, M, Q)
        /\ M[n + 1] = v[1] /\ Q[n + 1] = r[1]
        /\ n + 2 <= m => M[n + 2] = v[2] /\ Q[n + 2] = r[2]
        /\ n + 3 <= m => M[n + 3] = v[3] /\ Q[n + 3] = r[3]
<1>1. 1 \in 1..3 /\ 2 \in 1..3 /\ 3 \in 1..3
  OBVIOUS
<1>2. \A k \in 1..3 : n + k <= m => M[n + k] = v[k] /\ Q[n + k] = r[k]
  BY DEF Furthered
<1> QED BY <1>1, <1>2 DEF Furthered

\* The return block is for the end of the function.
LEMMA ReturnLonger ==
  ASSUME TextOK, NEW i \in Positions, NEW g, NEW L, NEW R, Stepping(g, i, L, R),
         NEW M, NEW Q, Longer(Len(g.code), L, R, M, Q)
  PROVE M[ReturnBlock] = Len(statements) + 1 /\ Q[ReturnBlock] = Highest
<1>1. ReturnBlock \in 1..Len(g.code)
  BY SteppingIs DEF ReturnBlock
<1> QED BY <1>1, SteppingIs DEF Longer

\* An IF, with the blocks for its branches and what follows.
LEMMA LabelsIf ==
  ASSUME Faithful, NEW i \in Positions, NEW g, NEW L, NEW R, Stepping(g, i, L, R), Op(i) = "IF"
  PROVE LabelsStep(g, i)
<1> DEFINE h == Build(g, i)
<1>0. TextOK /\ Complete /\ Fits(i) /\ Op(i) \in Branching
  BY DEF Faithful, Branching, Loops
<1>1. /\ g \in GStates /\ Len(g.code) \in Nat /\ g.at \in 1..Len(g.code)
      /\ L \in [1..Len(g.code) -> 0..(Len(statements) + 1)] /\ R \in [1..Len(g.code) -> 0..Highest]
  BY <1>0, SteppingIs
<1>2. PICK n \in Nat : n = Len(g.code) /\ n + 1 \in Nat /\ n + 2 \in Nat /\ n + 3 \in Nat
  BY <1>1
<1>3. PICK m \in Nat : m = NewAfter(i, n + 2) /\ m >= n /\ m <= n + 3 /\ n + 1 <= m /\ n + 2 <= m
                        /\ (~IsLast(i) => n + 3 <= m /\ Following(i, n + 3) = n + 3)
                        /\ (IsLast(i) => Following(i, n + 3) = ReturnBlock)
  <2>1. CASE IsLast(i)
    BY <1>2, <2>1 DEF NewAfter, Following
  <2>2. CASE ~IsLast(i)
    BY <1>2, <2>2 DEF NewAfter, Following
  <2> QED BY <2>1, <2>2
<1> DEFINE x == CondBr(Do(i), n + 1, n + 2)
           a == Following(i, n + 3)
           e == End(i)
           f == Finish(i)
<1>4. /\ h.at = n + 1 /\ Len(h.code) = m /\ h.begun[i].to = n + 2 /\ h.begun[i].after = a
      /\ \A k \in Positions : k # i => h.begun[k] = g.begun[k]
      /\ h.code[g.at] = Append(g.code[g.at], x)
      /\ \A c \in 1..n : c # g.at => h.code[c] = g.code[c]
      /\ \A c \in (n + 1)..m : h.code[c] = <<>>
  BY <1>0, <1>1, <1>2, <1>3, IfAdds
<1>5. Ends[i - 1] = "open"
  BY <1>0 DEF Fits, EndsIf, Branching, Loops
<1> HIDE DEF h, x, a, e, f
<1>6. /\ i \in Nat /\ i \in 1..Len(statements) /\ Len(statements) \in Nat
      /\ e \in 1..Len(statements) /\ f \in 1..Len(statements)
      /\ \A j \in 1..Len(statements) : j \in Nat /\ j + 1 \in 0..(Len(statements) + 1) /\ 2 * (j + 1) \in 0..Highest
                                      /\ Promise(j + 1) = Tree!Arrive(j + 1) /\ Promise(j) = Tree!Arrive(j)
                                      /\ j \in 0..(Len(statements) + 1) /\ Highest > 2 * j
      /\ Highest \in 0..Highest /\ 0 \in 0..Highest /\ 0 \in 0..(Len(statements) + 1) /\ Highest \in Nat
  BY <1>0, TargetsAre DEF e, f
<1> DEFINE vs == <<i + 1, e + 1, f + 1>>
           rs == <<2 * (i + 1), 2 * (e + 1), 2 * (f + 1)>>
<1>v. /\ vs[1] = i + 1 /\ vs[2] = e + 1 /\ vs[3] = f + 1
      /\ rs[1] = 2 * (i + 1) /\ rs[2] = 2 * (e + 1) /\ rs[3] = 2 * (f + 1)
  OBVIOUS
<1>w. vs \in [1..3 -> 0..(Len(statements) + 1)] /\ rs \in [1..3 -> 0..Highest]
  <2>1. \A p, q, s \in 0..(Len(statements) + 1) : <<p, q, s>> \in [1..3 -> 0..(Len(statements) + 1)]
    OBVIOUS
  <2>2. \A p, q, s \in 0..Highest : <<p, q, s>> \in [1..3 -> 0..Highest]
    OBVIOUS
  <2> QED BY <1>6, <2>1, <2>2
<1> HIDE DEF vs, rs
<1>7. PICK M, Q : Furthered(n, m, L, R, M, Q, vs, rs)
  BY <1>1, <1>2, <1>3, <1>6, <1>w, LabelsFurther
<1>8. /\ M \in [1..m -> 0..(Len(statements) + 1)] /\ Q \in [1..m -> 0..Highest]
      /\ Longer(n, L, R, M, Q)
      /\ M[n + 1] = i + 1 /\ Q[n + 1] = 2 * (i + 1)
      /\ n + 2 <= m => M[n + 2] = e + 1 /\ Q[n + 2] = 2 * (e + 1)
      /\ n + 3 <= m => M[n + 3] = f + 1 /\ Q[n + 3] = 2 * (f + 1)
  <2>1. n + 1 <= m /\ n \in Nat /\ m \in Nat
    BY <1>2, <1>3
  <2>2. /\ M \in [1..m -> 0..(Len(statements) + 1)] /\ Q \in [1..m -> 0..Highest]
        /\ Longer(n, L, R, M, Q)
        /\ M[n + 1] = vs[1] /\ Q[n + 1] = rs[1]
        /\ n + 2 <= m => M[n + 2] = vs[2] /\ Q[n + 2] = rs[2]
        /\ n + 3 <= m => M[n + 3] = vs[3] /\ Q[n + 3] = rs[3]
    BY <1>7, <2>1, FurtheredIs
  <2> QED BY <1>v, <2>2
<1>9. Kept(h.code[g.at], g.at, M, Q)
  <2>1. x \in Instructions
    <3>1. Do(i) \in Points
      BY InstructionsAre
    <3> QED BY <1>2, <3>1, InstructionsAre DEF x
  <2>2. Shows(x, M) = Do(i) /\ x.op = "condbr"
    BY DEF Shows, CondBr, x
  <2>3. Decides(x, M)
    <3>1. Promise(M[n + 1]) = Tree!After(Do(i), TRUE)
      BY <1>0, <1>6, <1>8, AfterIs
    <3>2. Promise(M[n + 2]) = Tree!After(Do(i), FALSE)
      <4>1. Promise(M[n + 2]) = Tree!Arrive(e + 1)
        BY <1>3, <1>6, <1>8
      <4> QED BY <1>0, <4>1, AfterIs DEF e
    <3> QED BY <3>1, <3>2 DEF Decides, CondBr, x
  <2>4. Tree!Arrive(i) = Do(i)
    BY <1>0, ArriveIs
  <2> QED BY <1>0, <1>2, <1>4, <1>5, <1>8, <2>1, <2>2, <2>3, <2>4, EmitKept
<1>10. ASSUME NEW c \in (n + 1)..m PROVE Kept(h.code[c], c, M, Q)
  BY <1>4, KeptEmpty
<1>11. Marked(h, i, M, Q)
  <2>1. ~IsLast(i) => M[h.begun[i].after] = f + 1 /\ Q[h.begun[i].after] = 2 * (f + 1)
    BY <1>3, <1>4, <1>8 DEF a
  <2>2. M[h.begun[i].to] = e + 1 /\ Q[h.begun[i].to] = 2 * (e + 1)
    BY <1>3, <1>4, <1>8
  <2> QED BY <2>1, <2>2 DEF Marked, e, f
<1>12. Awaits(h, i + 1, M, Q)
  <2>1. i + 1 \in Nat /\ Q[h.at] <= 2 * (i + 1) /\ Promise(M[h.at]) = Tree!Arrive(i + 1) /\ h.code[h.at] = <<>>
    <3>1. h.at = n + 1 /\ n + 1 <= m /\ M[n + 1] = i + 1 /\ Q[n + 1] = 2 * (i + 1)
      BY <1>3, <1>4, <1>8
    <3>2. h.code[n + 1] = <<>>
      <4>1. n + 1 \in (n + 1)..m
        BY <1>2, <3>1
      <4> QED BY <1>4, <4>1
    <3>3. i + 1 \in Nat /\ 2 * (i + 1) \in Nat /\ Promise(i + 1) = Tree!Arrive(i + 1)
      BY <1>6
    <3> QED BY <3>1, <3>2, <3>3
  <2> QED BY <1>0, <2>1, FreshAwaits
<1>13. Labels(h, i, M, Q)
  <2>1. Len(h.code) \in Nat /\ Len(h.code) >= Len(g.code)
    BY <1>2, <1>3, <1>4
  <2>2. Shape(g, i - 1) /\ CodeAimed(g) /\ Labels(g, i - 1, L, R)
    BY DEF Stepping
  <2>3. /\ \A c \in 1..Len(g.code) : c # g.at => h.code[c] = g.code[c]
        /\ \A k \in Positions : k # i => h.begun[k] = g.begun[k]
        /\ Longer(Len(g.code), L, R, M, Q)
        /\ \A c \in (Len(g.code) + 1)..Len(h.code) : Kept(h.code[c], c, M, Q)
        /\ M \in [1..Len(h.code) -> 0..(Len(statements) + 1)] /\ Q \in [1..Len(h.code) -> 0..Highest]
    BY <1>2, <1>4, <1>8, <1>10
  <2> QED BY <1>0, <1>9, <1>11, <1>12, <2>1, <2>2, <2>3, LabelsOn
<1> QED BY <1>13 DEF LabelsStep, h

\* A DO loop, with the blocks for its body and what follows.
LEMMA LabelsDo ==
  ASSUME Faithful, NEW i \in Positions, NEW g, NEW L, NEW R, Stepping(g, i, L, R), Op(i) = "DO"
  PROVE LabelsStep(g, i)
<1> DEFINE h == Build(g, i)
<1>0. TextOK /\ Complete /\ Fits(i) /\ Op(i) \in Branching
  BY DEF Faithful, Branching, Loops
<1>1. /\ g \in GStates /\ Len(g.code) \in Nat /\ g.at \in 1..Len(g.code)
      /\ L \in [1..Len(g.code) -> 0..(Len(statements) + 1)] /\ R \in [1..Len(g.code) -> 0..Highest]
  BY <1>0, SteppingIs
<1>2. PICK n \in Nat : n = Len(g.code) /\ n + 1 \in Nat /\ n + 2 \in Nat /\ n + 3 \in Nat
  BY <1>1
<1>3. PICK m \in Nat : m = NewAfter(i, n + 1) /\ m >= n /\ m <= n + 3 /\ n + 1 <= m /\ n + 1 <= m
                        /\ (~IsLast(i) => n + 2 <= m /\ Following(i, n + 2) = n + 2)
                        /\ (IsLast(i) => Following(i, n + 2) = ReturnBlock)
  <2>1. CASE IsLast(i)
    BY <1>2, <2>1 DEF NewAfter, Following
  <2>2. CASE ~IsLast(i)
    BY <1>2, <2>2 DEF NewAfter, Following
  <2> QED BY <2>1, <2>2
<1> DEFINE x == Br(n + 1)
           a == Following(i, n + 2)
           e == End(i)
           f == Finish(i)
<1>4. /\ h.at = n + 1 /\ Len(h.code) = m /\ h.begun[i].to = n + 1 /\ h.begun[i].after = a
      /\ \A k \in Positions : k # i => h.begun[k] = g.begun[k]
      /\ h.code[g.at] = Append(g.code[g.at], x)
      /\ \A c \in 1..n : c # g.at => h.code[c] = g.code[c]
      /\ \A c \in (n + 1)..m : h.code[c] = <<>>
  BY <1>0, <1>1, <1>2, <1>3, DoAdds
<1>5. Ends[i - 1] = "open"
  BY <1>0 DEF Fits, EndsIf, Branching, Loops
<1> HIDE DEF h, x, a, e, f
<1>6. /\ i \in Nat /\ i \in 1..Len(statements) /\ Len(statements) \in Nat
      /\ e \in 1..Len(statements) /\ f \in 1..Len(statements)
      /\ \A j \in 1..Len(statements) : j \in Nat /\ j + 1 \in 0..(Len(statements) + 1) /\ 2 * (j + 1) \in 0..Highest
                                      /\ Promise(j + 1) = Tree!Arrive(j + 1) /\ Promise(j) = Tree!Arrive(j)
                                      /\ j \in 0..(Len(statements) + 1) /\ Highest > 2 * j
      /\ Highest \in 0..Highest /\ 0 \in 0..Highest /\ 0 \in 0..(Len(statements) + 1) /\ Highest \in Nat
  BY <1>0, TargetsAre DEF e, f
<1> DEFINE vs == <<i + 1, f + 1, 0>>
           rs == <<2 * (i + 1), 2 * (f + 1), 0>>
<1>v. /\ vs[1] = i + 1 /\ vs[2] = f + 1 /\ vs[3] = 0
      /\ rs[1] = 2 * (i + 1) /\ rs[2] = 2 * (f + 1) /\ rs[3] = 0
  OBVIOUS
<1>w. vs \in [1..3 -> 0..(Len(statements) + 1)] /\ rs \in [1..3 -> 0..Highest]
  <2>1. \A p, q, s \in 0..(Len(statements) + 1) : <<p, q, s>> \in [1..3 -> 0..(Len(statements) + 1)]
    OBVIOUS
  <2>2. \A p, q, s \in 0..Highest : <<p, q, s>> \in [1..3 -> 0..Highest]
    OBVIOUS
  <2> QED BY <1>6, <2>1, <2>2
<1> HIDE DEF vs, rs
<1>7. PICK M, Q : Furthered(n, m, L, R, M, Q, vs, rs)
  BY <1>1, <1>2, <1>3, <1>6, <1>w, LabelsFurther
<1>8. /\ M \in [1..m -> 0..(Len(statements) + 1)] /\ Q \in [1..m -> 0..Highest]
      /\ Longer(n, L, R, M, Q)
      /\ M[n + 1] = i + 1 /\ Q[n + 1] = 2 * (i + 1)
      /\ n + 2 <= m => M[n + 2] = f + 1 /\ Q[n + 2] = 2 * (f + 1)
      /\ n + 3 <= m => M[n + 3] = 0 /\ Q[n + 3] = 0
  <2>1. n + 1 <= m /\ n \in Nat /\ m \in Nat
    BY <1>2, <1>3
  <2>2. /\ M \in [1..m -> 0..(Len(statements) + 1)] /\ Q \in [1..m -> 0..Highest]
        /\ Longer(n, L, R, M, Q)
        /\ M[n + 1] = vs[1] /\ Q[n + 1] = rs[1]
        /\ n + 2 <= m => M[n + 2] = vs[2] /\ Q[n + 2] = rs[2]
        /\ n + 3 <= m => M[n + 3] = vs[3] /\ Q[n + 3] = rs[3]
    BY <1>7, <2>1, FurtheredIs
  <2> QED BY <1>v, <2>2
<1>9. Kept(h.code[g.at], g.at, M, Q)
  <2>1. x \in Instructions
    BY <1>2, InstructionsAre DEF x
  <2>2. Shows(x, M) = Promise(M[n + 1]) /\ Decides(x, M) /\ x.op = "br" /\ x.to = n + 1
    BY DEF Shows, Decides, Br, x
  <2>3. Promise(M[n + 1]) = Tree!Arrive(i)
    <3>1. Tree!Arrive(i) = Tree!Arrive(i + 1)
      BY <1>0, ArriveIs
    <3> QED BY <1>6, <1>8, <3>1
  <2>4. Q[n + 1] \in Nat /\ Q[n + 1] > 2 * i
    BY <1>6, <1>8
  <2> QED BY <1>0, <1>2, <1>4, <1>5, <1>8, <2>1, <2>2, <2>3, <2>4, EmitKept
<1>10. ASSUME NEW c \in (n + 1)..m PROVE Kept(h.code[c], c, M, Q)
  BY <1>4, KeptEmpty
<1>11. Marked(h, i, M, Q)
  <2>1. ~IsLast(i) => M[h.begun[i].after] = f + 1 /\ Q[h.begun[i].after] = 2 * (f + 1)
    BY <1>3, <1>4, <1>8 DEF a
  <2>2. M[h.begun[i].to] = i + 1
    BY <1>4, <1>8
  <2> QED BY <1>0, <2>1, <2>2 DEF Marked, f
<1>12. Awaits(h, i + 1, M, Q)
  <2>1. i + 1 \in Nat /\ Q[h.at] <= 2 * (i + 1) /\ Promise(M[h.at]) = Tree!Arrive(i + 1) /\ h.code[h.at] = <<>>
    <3>1. h.at = n + 1 /\ n + 1 <= m /\ M[n + 1] = i + 1 /\ Q[n + 1] = 2 * (i + 1)
      BY <1>3, <1>4, <1>8
    <3>2. h.code[n + 1] = <<>>
      <4>1. n + 1 \in (n + 1)..m
        BY <1>2, <3>1
      <4> QED BY <1>4, <4>1
    <3>3. i + 1 \in Nat /\ 2 * (i + 1) \in Nat /\ Promise(i + 1) = Tree!Arrive(i + 1)
      BY <1>6
    <3> QED BY <3>1, <3>2, <3>3
  <2> QED BY <1>0, <2>1, FreshAwaits
<1>13. Labels(h, i, M, Q)
  <2>1. Len(h.code) \in Nat /\ Len(h.code) >= Len(g.code)
    BY <1>2, <1>3, <1>4
  <2>2. Shape(g, i - 1) /\ CodeAimed(g) /\ Labels(g, i - 1, L, R)
    BY DEF Stepping
  <2>3. /\ \A c \in 1..Len(g.code) : c # g.at => h.code[c] = g.code[c]
        /\ \A k \in Positions : k # i => h.begun[k] = g.begun[k]
        /\ Longer(Len(g.code), L, R, M, Q)
        /\ \A c \in (Len(g.code) + 1)..Len(h.code) : Kept(h.code[c], c, M, Q)
        /\ M \in [1..Len(h.code) -> 0..(Len(statements) + 1)] /\ Q \in [1..Len(h.code) -> 0..Highest]
    BY <1>2, <1>4, <1>8, <1>10
  <2> QED BY <1>0, <1>9, <1>11, <1>12, <2>1, <2>2, <2>3, LabelsOn
<1> QED BY <1>13 DEF LabelsStep, h

\* A loop, with the blocks for its condition, its body and what follows.
LEMMA LabelsLoop ==
  ASSUME Faithful, NEW i \in Positions, NEW g, NEW L, NEW R, Stepping(g, i, L, R), Op(i) \in {"WHILE", "FOR"}
  PROVE LabelsStep(g, i)
<1> DEFINE h == Build(g, i)
<1>0. TextOK /\ Complete /\ Fits(i) /\ Op(i) \in Branching
  BY DEF Faithful, Branching, Loops
<1>1. /\ g \in GStates /\ Len(g.code) \in Nat /\ g.at \in 1..Len(g.code)
      /\ L \in [1..Len(g.code) -> 0..(Len(statements) + 1)] /\ R \in [1..Len(g.code) -> 0..Highest]
  BY <1>0, SteppingIs
<1>2. PICK n \in Nat : n = Len(g.code) /\ n + 1 \in Nat /\ n + 2 \in Nat /\ n + 3 \in Nat
  BY <1>1
<1>3. PICK m \in Nat : m = NewAfter(i, n + 2) /\ m >= n /\ m <= n + 3 /\ n + 1 <= m /\ n + 2 <= m
                        /\ (~IsLast(i) => n + 3 <= m /\ Following(i, n + 3) = n + 3)
                        /\ (IsLast(i) => Following(i, n + 3) = ReturnBlock)
  <2>1. CASE IsLast(i)
    BY <1>2, <2>1 DEF NewAfter, Following
  <2>2. CASE ~IsLast(i)
    BY <1>2, <2>2 DEF NewAfter, Following
  <2> QED BY <2>1, <2>2
<1> DEFINE x == Br(n + 1)
           a == Following(i, n + 3)
           e == End(i)
           f == Finish(i)
<1>4. /\ h.at = n + 2 /\ Len(h.code) = m /\ h.begun[i].to = n + 1 /\ h.begun[i].after = a
      /\ \A k \in Positions : k # i => h.begun[k] = g.begun[k]
      /\ h.code[g.at] = Append(g.code[g.at], x)
      /\ \A c \in 1..n : c # g.at => h.code[c] = g.code[c]
      /\ h.code[n + 1] = <<CondBr(Do(i), n + 2, a)>>
      /\ \A c \in (n + 2)..m : h.code[c] = <<>>
  BY <1>0, <1>1, <1>2, <1>3, LoopAdds
<1>5. Ends[i - 1] = "open"
  BY <1>0 DEF Fits, EndsIf, Branching, Loops
<1> HIDE DEF h, x, a, e, f
<1>6. /\ i \in Nat /\ i \in 1..Len(statements) /\ Len(statements) \in Nat
      /\ e \in 1..Len(statements) /\ f \in 1..Len(statements)
      /\ \A j \in 1..Len(statements) : j \in Nat /\ j + 1 \in 0..(Len(statements) + 1) /\ 2 * (j + 1) \in 0..Highest
                                      /\ Promise(j + 1) = Tree!Arrive(j + 1) /\ Promise(j) = Tree!Arrive(j)
                                      /\ j \in 0..(Len(statements) + 1) /\ Highest > 2 * j
      /\ Highest \in 0..Highest /\ 0 \in 0..Highest /\ 0 \in 0..(Len(statements) + 1) /\ Highest \in Nat
  BY <1>0, TargetsAre DEF e, f
<1> DEFINE vs == <<i, i + 1, f + 1>>
           rs == <<Highest, 2 * (i + 1), 2 * (f + 1)>>
<1>v. /\ vs[1] = i /\ vs[2] = i + 1 /\ vs[3] = f + 1
      /\ rs[1] = Highest /\ rs[2] = 2 * (i + 1) /\ rs[3] = 2 * (f + 1)
  OBVIOUS
<1>w. vs \in [1..3 -> 0..(Len(statements) + 1)] /\ rs \in [1..3 -> 0..Highest]
  <2>1. \A p, q, s \in 0..(Len(statements) + 1) : <<p, q, s>> \in [1..3 -> 0..(Len(statements) + 1)]
    OBVIOUS
  <2>2. \A p, q, s \in 0..Highest : <<p, q, s>> \in [1..3 -> 0..Highest]
    OBVIOUS
  <2> QED BY <1>6, <2>1, <2>2
<1> HIDE DEF vs, rs
<1>7. PICK M, Q : Furthered(n, m, L, R, M, Q, vs, rs)
  BY <1>1, <1>2, <1>3, <1>6, <1>w, LabelsFurther
<1>8. /\ M \in [1..m -> 0..(Len(statements) + 1)] /\ Q \in [1..m -> 0..Highest]
      /\ Longer(n, L, R, M, Q)
      /\ M[n + 1] = i /\ Q[n + 1] = Highest
      /\ n + 2 <= m => M[n + 2] = i + 1 /\ Q[n + 2] = 2 * (i + 1)
      /\ n + 3 <= m => M[n + 3] = f + 1 /\ Q[n + 3] = 2 * (f + 1)
  <2>1. n + 1 <= m /\ n \in Nat /\ m \in Nat
    BY <1>2, <1>3
  <2>2. /\ M \in [1..m -> 0..(Len(statements) + 1)] /\ Q \in [1..m -> 0..Highest]
        /\ Longer(n, L, R, M, Q)
        /\ M[n + 1] = vs[1] /\ Q[n + 1] = rs[1]
        /\ n + 2 <= m => M[n + 2] = vs[2] /\ Q[n + 2] = rs[2]
        /\ n + 3 <= m => M[n + 3] = vs[3] /\ Q[n + 3] = rs[3]
    BY <1>7, <2>1, FurtheredIs
  <2> QED BY <1>v, <2>2
<1>9. Kept(h.code[g.at], g.at, M, Q)
  <2>1. x \in Instructions
    BY <1>2, InstructionsAre DEF x
  <2>2. Shows(x, M) = Promise(M[n + 1]) /\ Decides(x, M) /\ x.op = "br" /\ x.to = n + 1
    BY DEF Shows, Decides, Br, x
  <2>3. Promise(M[n + 1]) = Tree!Arrive(i)
    BY <1>6, <1>8
  <2>4. Q[n + 1] \in Nat /\ Q[n + 1] > 2 * i
    BY <1>6, <1>8
  <2> QED BY <1>0, <1>2, <1>4, <1>5, <1>8, <2>1, <2>2, <2>3, <2>4, EmitKept
<1>b. Kept(h.code[n + 1], n + 1, M, Q)
  <2> DEFINE y == CondBr(Do(i), n + 2, a)
  <2>1. a \in Nat
    BY <1>2, <1>3 DEF a, ReturnBlock
  <2>2. y \in Instructions
    <3>1. Do(i) \in Points
      BY InstructionsAre
    <3> QED BY <1>2, <2>1, <3>1, InstructionsAre
  <2>3. Shows(y, M) = Do(i) /\ y.op = "condbr"
    BY DEF Shows, CondBr
  <2>4. Promise(M[n + 1]) = Do(i)
    <3>1. Tree!Arrive(i) = Do(i)
      BY <1>0, ArriveIs
    <3> QED BY <1>6, <1>8, <3>1
  <2>5. Promise(M[n + 2]) = Tree!After(Do(i), TRUE)
    BY <1>0, <1>3, <1>6, <1>8, AfterIs
  <2>6. Promise(M[a]) = Tree!After(Do(i), FALSE)
    <3>1. M[a] = f + 1
      <4>1. CASE IsLast(i)
        <5>1. f = Len(statements)
          BY <1>0, <4>1, LastIs DEF f
        <5>2. M[ReturnBlock] = Len(statements) + 1
          BY <1>0, <1>2, <1>8, ReturnLonger
        <5> QED BY <1>3, <4>1, <5>1, <5>2 DEF a
      <4>2. CASE ~IsLast(i)
        BY <1>3, <1>8, <4>2 DEF a
      <4> QED BY <4>1, <4>2
    <3>2. f = e
      BY DEF e, f, Finish, Loops
    <3>3. Promise(M[a]) = Tree!Arrive(e + 1)
      BY <1>6, <3>1, <3>2
    <3> QED BY <1>0, <3>3, AfterIs DEF e
  <2>7. Decides(y, M)
    BY <2>5, <2>6 DEF Decides, CondBr
  <2>8. h.code[n + 1] = <<y>>
    BY <1>4
  <2> HIDE DEF y
  <2>9. Kept(<<y>>, n + 1, M, Q)
    BY <2>2, <2>3, <2>4, <2>7, KeptOne
  <2> QED BY <2>8, <2>9
<1>10. ASSUME NEW c \in (n + 1)..m PROVE Kept(h.code[c], c, M, Q)
  <2>1. c = n + 1 \/ c \in (n + 2)..m
    BY <1>2
  <2> QED BY <1>4, <1>b, <2>1, KeptEmpty
<1>11. Marked(h, i, M, Q)
  <2>1. ~IsLast(i) => M[h.begun[i].after] = f + 1 /\ Q[h.begun[i].after] = 2 * (f + 1)
    BY <1>3, <1>4, <1>8 DEF a
  <2>2. M[h.begun[i].to] = i /\ Q[h.begun[i].to] = Highest
    BY <1>4, <1>8
  <2> QED BY <1>0, <2>1, <2>2 DEF Marked, f
<1>12. Awaits(h, i + 1, M, Q)
  <2>1. i + 1 \in Nat /\ Q[h.at] <= 2 * (i + 1) /\ Promise(M[h.at]) = Tree!Arrive(i + 1) /\ h.code[h.at] = <<>>
    <3>1. h.at = n + 2 /\ n + 2 <= m /\ M[n + 2] = i + 1 /\ Q[n + 2] = 2 * (i + 1)
      BY <1>3, <1>4, <1>8
    <3>2. h.code[n + 2] = <<>>
      <4>1. n + 2 \in (n + 2)..m
        BY <1>2, <3>1
      <4> QED BY <1>4, <4>1
    <3>3. i + 1 \in Nat /\ 2 * (i + 1) \in Nat /\ Promise(i + 1) = Tree!Arrive(i + 1)
      BY <1>6
    <3> QED BY <3>1, <3>2, <3>3
  <2> QED BY <1>0, <2>1, FreshAwaits
<1>13. Labels(h, i, M, Q)
  <2>1. Len(h.code) \in Nat /\ Len(h.code) >= Len(g.code)
    BY <1>2, <1>3, <1>4
  <2>2. Shape(g, i - 1) /\ CodeAimed(g) /\ Labels(g, i - 1, L, R)
    BY DEF Stepping
  <2>3. /\ \A c \in 1..Len(g.code) : c # g.at => h.code[c] = g.code[c]
        /\ \A k \in Positions : k # i => h.begun[k] = g.begun[k]
        /\ Longer(Len(g.code), L, R, M, Q)
        /\ \A c \in (Len(g.code) + 1)..Len(h.code) : Kept(h.code[c], c, M, Q)
        /\ M \in [1..Len(h.code) -> 0..(Len(statements) + 1)] /\ Q \in [1..Len(h.code) -> 0..Highest]
    BY <1>2, <1>4, <1>8, <1>10
  <2> QED BY <1>0, <1>9, <1>11, <1>12, <2>1, <2>2, <2>3, LabelsOn
<1> QED BY <1>13 DEF LabelsStep, h

\* Each item keeps what the blocks are for.
LEMMA LabelsSteps ==
  ASSUME Faithful, NEW i \in Positions, NEW g, NEW L, NEW R, Stepping(g, i, L, R)
  PROVE LabelsStep(g, i)
<1>1. TextOK
  BY DEF Faithful
<1>2. \/ Op(i) \in {"PLAIN", "CHECK", "YIELD", "IF", "DO", "WHILE", "FOR", "ELSE"}
      \/ EndsIf(i) \/ EndsLoop(i)
  BY <1>1, ItemsAre
<1> QED BY <1>2, LabelsPlain, LabelsCheck, LabelsYield, LabelsIf, LabelsDo, LabelsLoop, LabelsElse, LabelsEndIf,
           LabelsEndLoop

\* The first blocks.
LEMMA LabelsStart ==
  ASSUME Faithful
  PROVE \E L, R : Labels(Start, 0, L, R)
<1>0. TextOK /\ Len(statements) \in Nat
  BY TextShape0 DEF Faithful
<1>1. Start.at = Entry /\ Len(Start.code) = 2 /\ Start.code[1] = <<>> /\ Start.code[2] = <<>>
  BY StartIs
<1> DEFINE g == Start
           L == [c \in 1..2 |-> IF c = 1 THEN 1 ELSE Len(statements) + 1]
           R == [c \in 1..2 |-> IF c = 1 THEN 2 ELSE Highest]
<1>2. /\ L \in [1..2 -> 0..(Len(statements) + 1)] /\ R \in [1..2 -> 0..Highest]
      /\ L[1] = 1 /\ L[2] = Len(statements) + 1 /\ R[1] = 2 /\ R[2] = Highest
  <2>1. 2 \in 0..Highest /\ Highest \in 0..Highest /\ 1 \in 0..(Len(statements) + 1) /\ Len(statements) + 1 \in 0..(Len(statements) + 1)
    BY <1>0 DEF Highest
  <2>2. 1 \in 1..2 /\ 2 \in 1..2 /\ 2 # 1
    OBVIOUS
  <2> QED BY <2>1, <2>2
<1> HIDE DEF g, L, R
<1>3. \A b \in 1..2 : Kept(g.code[b], b, L, R)
  <2>1. \A b \in 1..2 : b = 1 \/ b = 2
    OBVIOUS
  <2> QED BY <1>1, <2>1, KeptEmpty DEF g
<1>4. Heads(0) = {}
  BY DEF Heads
<1>5. Awaits(g, 0 + 1, L, R)
  <2>1. Promise(L[1]) = Tree!Arrive(1)
    BY <1>2 DEF Promise
  <2>2. g.at = 1 /\ g.code[1] = <<>>
    BY <1>1 DEF g, Entry
  <2>3. 1 \in Nat /\ R[1] <= 2 * 1 /\ 0 + 1 = 1
    BY <1>2
  <2> QED BY <1>0, <2>1, <2>2, <2>3, FreshAwaits
<1>6. Labels(g, 0, L, R)
  BY <1>1, <1>2, <1>3, <1>4, <1>5 DEF Labels, Entry, ReturnBlock, g
<1> QED BY <1>6 DEF g

\* What the blocks of the generator are for, item by item.
LEMMA LabelsAlways ==
  ASSUME Faithful
  PROVE \A n \in 0..Len(statements) : \E L, R : Labels(Generator[n], n, L, R)
<1>0. TextOK /\ Complete /\ (\A i \in Positions : Fits(i))
  BY DEF Faithful
<1>1. PICK N \in Nat : N = Len(statements) /\ Positions = 1..N
  BY <1>0, TextShape0
<1> DEFINE S == {n \in 0..N : \E L, R : Labels(Generator[n], n, L, R)}
<1>2. 0 \in S
  <2>1. Generator[0] = Start /\ 0 \in 0..N
    BY <1>0, <1>1, GeneratorIs
  <2> QED BY <2>1, LabelsStart
<1>3. ASSUME NEW i \in 1..N, i - 1 \in S PROVE i \in S
  <2>1. PICK L, R : Labels(Generator[i - 1], i - 1, L, R)
    BY <1>3
  <2>2. i - 1 \in 0..Len(statements) /\ i \in Positions /\ i \in 0..N
    BY <1>1
  <2>3. Shape(Generator[i - 1], i - 1) /\ CodeAimed(Generator[i - 1])
    BY <1>0, <2>2, Shapes, GeneratorAims
  <2>4. Tidy(Generator[i - 1], Reserved(Generator[i - 1], i - 1), Ends[i - 1])
    <3>1. Fitted(i - 1)
      BY <1>0, <1>1 DEF Fitted
    <3>2. TidyAt(i - 1)
      BY <1>0, <2>2, <3>1, TidyWhileFitting
    <3> QED BY <3>2 DEF TidyAt
  <2>5. Stepping(Generator[i - 1], i, L, R)
    BY <2>1, <2>3, <2>4 DEF Stepping
  <2>6. LabelsStep(Generator[i - 1], i)
    BY <2>2, <2>5, LabelsSteps
  <2>7. Generator[i] = Build(Generator[i - 1], i)
    BY <1>0, <1>1, GeneratorIs
  <2>8. PICK M, Q : Labels(Build(Generator[i - 1], i), i, M, Q)
    BY <2>6 DEF LabelsStep
  <2>9. Labels(Generator[i], i, M, Q)
    BY <2>7, <2>8
  <2> QED BY <2>2, <2>9
<1>4. 0..N \subseteq S
  <2> HIDE DEF S
  <2> QED BY <1>1, <1>2, <1>3, InductionUpTo
<1> QED BY <1>1, <1>4

\* What the blocks of the code are for.
Meant(c, L, R) ==
  /\ L \in [1..Len(c) -> 0..(Len(statements) + 1)] /\ R \in [1..Len(c) -> 0..Highest]
  /\ L[Entry] = 1
  /\ c[ReturnBlock] = <<Ret>>
  /\ \A b \in 1..Len(c) : Kept(c[b], b, L, R)

\* Blocks that the verifier accepts do what they are for.
LEMMA GeneratedMeans ==
  ASSUME Faithful
  PROVE \E L, R : Meant(Generated, L, R)
<1>0. TextOK /\ Complete /\ (\A i \in Positions : Fits(i))
  BY DEF Faithful
<1>1. PICK N \in Nat : N = Len(statements) /\ Positions = 1..N
  BY <1>0, TextShape0
<1> DEFINE g == Generator[N]
<1>2. PICK L, R : Labels(g, N, L, R)
  BY <1>1, LabelsAlways
<1>3. /\ Len(Generated) = Len(g.code) /\ ReturnBlock \in 1..Len(g.code)
      /\ Generated[ReturnBlock] = Append(g.code[ReturnBlock], Ret)
      /\ \A b \in 1..Len(g.code) : b # ReturnBlock => Generated[b] = g.code[b]
  BY <1>0, <1>1, GeneratedIs
<1>4. g.code[ReturnBlock] = <<>>
  <2>1. N \in 0..Len(statements) /\ Fitted(N)
    BY <1>0, <1>1 DEF Fitted
  <2>2. Tidy(g, Reserved(g, N), Ends[N])
    BY <1>0, <2>1, TidyWhileFitting DEF TidyAt
  <2>3. Reserved(g, N) = {ReturnBlock}
    BY <1>0, <1>1, NothingWaits
  <2> HIDE DEF g
  <2> QED BY <2>2, <2>3 DEF Tidy
<1> HIDE DEF g
<1>5. Generated[ReturnBlock] = <<Ret>>
  BY <1>3, <1>4, AppendToEmpty
<1>6. /\ L \in [1..Len(g.code) -> 0..(Len(statements) + 1)] /\ R \in [1..Len(g.code) -> 0..Highest]
      /\ L[Entry] = 1 /\ L[ReturnBlock] = Len(statements) + 1
      /\ \A b \in 1..Len(g.code) : Kept(g.code[b], b, L, R)
  BY <1>2 DEF Labels
<1>7. Kept(<<Ret>>, ReturnBlock, L, R)
  <2>1. Promise(L[ReturnBlock]) = Succeeded
    BY <1>0, <1>1, <1>6, ArriveBehind DEF Promise
  <2>2. Ret \in Instructions /\ Shows(Ret, L) = Succeeded /\ Decides(Ret, L) /\ Ret.op # "br"
    BY InstructionsAre, ShowsAre DEF Ret
  <2> QED BY <2>1, <2>2, KeptOne
<1>8. \A b \in 1..Len(Generated) : Kept(Generated[b], b, L, R)
  BY <1>3, <1>5, <1>6, <1>7
<1> QED BY <1>3, <1>5, <1>6, <1>8 DEF Meant

(* What the code shows *)

\* Code that the verifier accepts, of a function that runs as written.
Loaded(L, R) == Faithful /\ blocks = Generated /\ Verified(blocks) /\ Meant(blocks, L, R)

\* Where the control can be,
IsAt(s) == s \in Controls /\ s.block \in 1..Len(blocks) /\ s.index \in 1..Len(blocks[s.block])
\* what it faces there,
Here(s) == blocks[s.block][s.index]

\* A failure leads out without anything that the client knows of.
Sound(s) == IsAt(s) /\ (s.ok = FALSE => Here(s) = Br(ReturnBlock) \/ Here(s) = Ret)
\* and what the client will see of it next.
Sees(s, L) == IF s.ok THEN Shows(Here(s), L) ELSE Failed

\* How far the next point is that the client knows of.
Settled(x) == x.op \in {"exec", "condbr", "ret"}
\* The number of silent steps to it, at most.
Away(s, R) ==
  IF Settled(Here(s)) THEN 0
  ELSE IF Here(s) = Br(ReturnBlock) THEN 1
  ELSE IF Here(s).op = "store_false" THEN 2
  ELSE IF s.index = 1 THEN (Highest - R[s.block]) + 2
  ELSE Highest + 3

\* The instruction at the control, and the block it stands in.
LEMMA HereIs ==
  ASSUME NEW L, NEW R, Loaded(L, R), NEW s, IsAt(s)
  PROVE /\ blocks \in Seq(Seq(Instructions)) /\ Len(blocks) \in Nat /\ blocks[s.block] \in Seq(Instructions)
        /\ Len(blocks[s.block]) \in Nat
        /\ Here(s) \in Instructions /\ Aimed(Here(s), Len(blocks))
        /\ IsTerminator(Here(s)) <=> s.index = Len(blocks[s.block])
        /\ \A b \in 1..Len(blocks) : 1 \in 1..Len(blocks[b]) /\ blocks[b] # <<>>
        /\ Kept(blocks[s.block], s.block, L, R)
        /\ blocks[ReturnBlock] = <<Ret>>
<1>0. TextOK /\ Complete /\ blocks = Generated /\ Verified(blocks) /\ Meant(blocks, L, R)
  BY DEF Loaded, Faithful
<1>1. /\ blocks \in Seq(Seq(Instructions)) /\ Len(blocks) \in Nat
      /\ \A b \in 1..Len(blocks) : BlockAimed(blocks[b], Len(blocks))
  BY <1>0, GeneratedAims
<1>2. \A b \in 1..Len(blocks) : Ended(blocks[b])
  BY <1>0, <1>1, VerifiedIs
<1>3. \A b \in 1..Len(blocks) : blocks[b] \in Seq(Instructions)
  BY <1>1, ElementOfSeq
<1>4. s.block \in 1..Len(blocks) /\ s.index \in 1..Len(blocks[s.block])
  BY DEF IsAt
<1>5. Here(s) \in Instructions
  BY <1>3, <1>4, ElementOfSeq DEF Here
<1>6. Aimed(Here(s), Len(blocks))
  BY <1>1, <1>4 DEF BlockAimed, Here
<1>7. IsTerminator(Here(s)) <=> s.index = Len(blocks[s.block])
  BY <1>2, <1>4 DEF Ended, Here
<1>8. \A b \in 1..Len(blocks) : 1 \in 1..Len(blocks[b]) /\ blocks[b] # <<>>
  <2> TAKE b \in 1..Len(blocks)
  <2>1. blocks[b] # <<>> /\ blocks[b] \in Seq(Instructions)
    BY <1>2, <1>3 DEF Ended
  <2>2. Len(blocks[b]) \in Nat /\ Len(blocks[b]) # 0
    BY <2>1, EmptySeq, LenProperties
  <2> QED BY <2>1, <2>2
<1>9. Kept(blocks[s.block], s.block, L, R) /\ blocks[ReturnBlock] = <<Ret>>
  BY <1>0, <1>4 DEF Meant
<1> QED BY <1>1, <1>3, <1>4, <1>5, <1>6, <1>7, <1>8, <1>9, LenProperties

\* What instructions there are.
LEMMA OpsAre ==
  /\ \A x \in Instructions : x.op \in {"exec", "condbr", "ret", "br", "store_false"}
  /\ \A x \in Instructions : x.op = "br" => x = Br(x.to) /\ x.to \in Nat
  /\ \A x \in Instructions : x.op = "store_false" => x = StoreFalse
  /\ \A x \in Instructions : x.op = "ret" => x = Ret
BY DEF Instructions, Exec, CondBr, Br, StoreFalse, Ret

\* Where silent steps lead.
LEMMA SilentlyIs ==
  ASSUME NEW s \in Controls
  PROVE /\ Here(s).op = "br" => Silently[s] = [block |-> Here(s).to, index |-> 1, ok |-> s.ok]
        /\ Here(s).op = "store_false" => Silently[s] = [block |-> s.block, index |-> s.index + 1, ok |-> FALSE]
        /\ Here(s).op \notin {"br", "store_false"} => Silently[s] = s
<1>1. PICK b \in Nat, k \in Nat, o \in BOOLEAN : s = [block |-> b, index |-> k, ok |-> o]
  BY DEF Controls
<1>2. Silently[s] =
        LET i == blocks[s.block][s.index] IN
        CASE i.op = "br"          -> [s EXCEPT !.block = i.to, !.index = 1]
          [] i.op = "store_false" -> [s EXCEPT !.index = @ + 1, !.ok = FALSE]
          [] OTHER                -> s
  BY DEF Silently
<1>3. CASE Here(s).op = "br"
  <2>1. Silently[s] = [s EXCEPT !.block = Here(s).to, !.index = 1]
    BY <1>2, <1>3 DEF Here
  <2> QED BY <1>1, <1>3, <2>1
<1>4. CASE Here(s).op = "store_false"
  <2>1. Silently[s] = [s EXCEPT !.index = @ + 1, !.ok = FALSE]
    BY <1>2, <1>4 DEF Here
  <2> QED BY <1>1, <1>4, <2>1
<1>5. CASE Here(s).op \notin {"br", "store_false"}
  BY <1>2, <1>5 DEF Here
<1> QED BY <1>3, <1>4, <1>5

\* A branch leads to the beginning of a block.
LEMMA BranchOn ==
  ASSUME NEW L, NEW R, Loaded(L, R), NEW s, Sound(s), Here(s).op = "br"
  PROVE LET t == Silently[s] IN
        /\ Sound(t) /\ Sees(t, L) = Sees(s, L)
        /\ Away(s, R) \in 1..(Highest + 3) /\ Away(t, R) \in 0..(Highest + 3) /\ Away(t, R) < Away(s, R)
<1>0. TextOK /\ Len(statements) \in Nat /\ Highest \in Nat /\ Highest >= 4
  BY TextShape0 DEF Loaded, Faithful, Highest
<1>1. s \in Controls /\ IsAt(s) /\ s.block \in 1..Len(blocks) /\ s.index \in 1..Len(blocks[s.block]) /\ s.ok \in BOOLEAN
  BY DEF Sound, IsAt, Controls
<1>2. PICK c : c = Here(s).to
  OBVIOUS
<1>3. c \in 1..Len(blocks) /\ Here(s) = Br(c) /\ Len(blocks) \in Nat /\ c \in Nat
  BY <1>1, <1>2, HereIs, OpsAre DEF Aimed
<1> DEFINE t == Silently[s]
<1>4. t = [block |-> c, index |-> 1, ok |-> s.ok]
  BY <1>1, <1>2, SilentlyIs
<1> HIDE DEF t
<1>5. t.block = c /\ t.index = 1 /\ t.ok = s.ok /\ IsAt(t)
  <2>1. 1 \in 1..Len(blocks[c])
    BY <1>1, <1>3, HereIs
  <2> QED BY <1>1, <1>3, <1>4, <2>1 DEF IsAt, Controls
<1>6. /\ R \in [1..Len(blocks) -> 0..Highest]
      /\ Kept(blocks[c], c, L, R) /\ blocks[c] # <<>> /\ Here(t) = blocks[c][1]
      /\ Kept(blocks[s.block], s.block, L, R) /\ blocks[s.block] # <<>>
      /\ blocks[ReturnBlock] = <<Ret>>
      /\ Here(t) \in Instructions
  <2>1. Meant(blocks, L, R)
    BY DEF Loaded
  <2> QED BY <1>1, <1>3, <1>5, <2>1, HereIs DEF Meant, Here
<1>7. Shows(Here(t), L) = Shows(Here(s), L)
  <2>1. Shows(Here(t), L) = Promise(L[c])
    BY <1>6 DEF Kept
  <2> QED BY <1>3, <2>1, ShowsAre
<1>8. c = ReturnBlock => Here(t) = Ret
  BY <1>6
<1>9. Sound(t)
  <2>1. s.ok = FALSE => c = ReturnBlock
    <3>1. s.ok = FALSE => Br(c) = Br(ReturnBlock) \/ Br(c) = Ret
      BY <1>3 DEF Sound
    <3> QED BY <3>1 DEF Br, Ret
  <2> QED BY <1>5, <1>8, <2>1 DEF Sound
<1>10. Sees(t, L) = Sees(s, L)
  BY <1>5, <1>7 DEF Sees
<1>11. R[c] \in 0..Highest /\ R[s.block] \in 0..Highest
  BY <1>1, <1>3, <1>6
<1>12. ~Settled(Here(s)) /\ Here(s).op # "store_false"
  BY DEF Settled
<1>13. CASE c = ReturnBlock
  <2>1. Away(t, R) = 0
    BY <1>8, <1>13 DEF Away, Settled, Ret
  <2>2. Away(s, R) = 1
    BY <1>3, <1>12, <1>13 DEF Away
  <2> QED BY <1>0, <1>9, <1>10, <2>1, <2>2 DEF t
<1>14. CASE c # ReturnBlock
  <2>1. Here(s) # Br(ReturnBlock)
    BY <1>3, <1>14 DEF Br
  <2>2. Away(s, R) = IF s.index = 1 THEN (Highest - R[s.block]) + 2 ELSE Highest + 3
    BY <1>12, <2>1 DEF Away
  <2>3. Away(t, R) = IF Settled(Here(t)) THEN 0
                     ELSE IF Here(t) = Br(ReturnBlock) THEN 1
                     ELSE IF Here(t).op = "store_false" THEN 2
                     ELSE (Highest - R[c]) + 2
    BY <1>5 DEF Away
  <2>4. s.index = 1 => R[c] > R[s.block]
    <3>1. Here(s) = blocks[s.block][s.index] /\ Here(s).to = c
      BY <1>2 DEF Here
    <3>2. s.index = 1 => blocks[s.block][1].op = "br" /\ blocks[s.block][1].to = c
      BY <3>1
    <3> QED BY <1>6, <3>2 DEF Kept
  <2>5. Away(t, R) \in Nat /\ Away(t, R) <= (Highest - R[c]) + 2
    BY <1>0, <1>11, <2>3
  <2>6. Away(t, R) < Away(s, R) /\ Away(s, R) \in 1..(Highest + 3) /\ Away(t, R) \in 0..(Highest + 3)
    BY <1>0, <1>11, <2>2, <2>4, <2>5
  <2> QED BY <1>9, <1>10, <2>6 DEF t
<1> QED BY <1>13, <1>14

\* What leads to the return block is what follows the store.
LEMMA StoreOn ==
  ASSUME NEW L, NEW R, Loaded(L, R), NEW s, Sound(s), Here(s).op = "store_false"
  PROVE LET t == Silently[s] IN
        /\ Sound(t) /\ Sees(t, L) = Sees(s, L)
        /\ Away(s, R) = 2 /\ Away(t, R) = 1
<1>1. s \in Controls /\ IsAt(s) /\ s.block \in 1..Len(blocks) /\ s.index \in 1..Len(blocks[s.block]) /\ s.ok \in BOOLEAN
      /\ s.block \in Nat /\ s.index \in Nat
  BY DEF Sound, IsAt, Controls
<1> DEFINE t == Silently[s]
<1>2. t = [block |-> s.block, index |-> s.index + 1, ok |-> FALSE]
  BY <1>1, SilentlyIs
<1> HIDE DEF t
<1>3. Here(s) = StoreFalse /\ Len(blocks[s.block]) \in Nat /\ s.index # Len(blocks[s.block])
      /\ Kept(blocks[s.block], s.block, L, R)
  <2>1. Here(s) = StoreFalse
    BY <1>1, HereIs, OpsAre
  <2>2. ~IsTerminator(Here(s))
    BY <2>1, TerminatorsAre
  <2> QED BY <1>1, <2>1, <2>2, HereIs
<1>4. s.index < Len(blocks[s.block]) /\ s.index + 1 \in 1..Len(blocks[s.block])
  BY <1>1, <1>3
<1>5. IsAt(t) /\ t.block = s.block /\ t.index = s.index + 1 /\ t.ok = FALSE
  BY <1>1, <1>2, <1>4 DEF IsAt, Controls
<1>6. Here(t) = Br(ReturnBlock)
  <2>1. Linked(blocks[s.block][s.index], blocks[s.block][s.index + 1], L)
    BY <1>1, <1>3, <1>4 DEF Kept
  <2>2. blocks[s.block][s.index].op = "store_false"
    BY DEF Here
  <2> QED BY <1>5, <2>1, <2>2 DEF Linked, Here
<1>7. Sound(t)
  BY <1>5, <1>6 DEF Sound
<1>8. s.ok = TRUE
  <2>1. StoreFalse # Br(ReturnBlock) /\ StoreFalse # Ret
    BY DEF StoreFalse, Br, Ret
  <2> QED BY <1>1, <1>3, <2>1 DEF Sound
<1>9. Sees(t, L) = Sees(s, L)
  BY <1>3, <1>5, <1>8, ShowsAre DEF Sees
<1>10. Away(s, R) = 2
  <2>1. StoreFalse # Br(ReturnBlock) /\ ~Settled(StoreFalse) /\ StoreFalse.op = "store_false"
    BY DEF StoreFalse, Br, Settled
  <2> QED BY <1>3, <2>1 DEF Away
<1>11. Away(t, R) = 1
  <2>1. ~Settled(Br(ReturnBlock))
    BY DEF Settled, Br
  <2> QED BY <1>6, <2>1 DEF Away
<1> QED BY <1>7, <1>9, <1>10, <1>11 DEF t

\* Silent steps keep what is to be seen, and come nearer to it.
Nearer(s, t, L, R) ==
  /\ Sound(t) /\ Sees(t, L) = Sees(s, L)
  /\ Away(s, R) \in 0..(Highest + 3) /\ Away(t, R) \in 0..(Highest + 3)
  /\ Away(s, R) = 0 => t = s
  /\ Away(s, R) > 0 => Away(t, R) < Away(s, R)

\* Every silent step does so; where there is none, the next point is reached.
LEMMA SilentlyNearer ==
  ASSUME NEW L, NEW R, Loaded(L, R), NEW s, Sound(s)
  PROVE Nearer(s, Silently[s], L, R) /\ (Away(s, R) = 0 <=> Settled(Here(s)))
<1>0. Highest \in Nat /\ Highest >= 4
  <2>1. Len(statements) \in Nat
    BY TextShape0 DEF Loaded, Faithful
  <2> QED BY <2>1 DEF Highest
<1>1. s \in Controls /\ IsAt(s) /\ Here(s) \in Instructions
  BY HereIs DEF Sound, IsAt
<1>2. CASE Here(s).op = "br"
  <2> DEFINE t == Silently[s]
  <2>1. /\ Sound(t) /\ Sees(t, L) = Sees(s, L)
        /\ Away(s, R) \in 1..(Highest + 3) /\ Away(t, R) \in 0..(Highest + 3) /\ Away(t, R) < Away(s, R)
    BY <1>2, BranchOn
  <2> HIDE DEF t
  <2>2. Away(s, R) \in 0..(Highest + 3) /\ Away(s, R) # 0
    BY <1>0, <2>1
  <2>3. ~Settled(Here(s))
    BY <1>2 DEF Settled
  <2>4. Nearer(s, t, L, R)
    BY <2>1, <2>2 DEF Nearer
  <2> QED BY <2>2, <2>3, <2>4 DEF t
<1>3. CASE Here(s).op = "store_false"
  <2> DEFINE t == Silently[s]
  <2>1. /\ Sound(t) /\ Sees(t, L) = Sees(s, L)
        /\ Away(s, R) = 2 /\ Away(t, R) = 1
    BY <1>3, StoreOn
  <2> HIDE DEF t
  <2>2. Away(s, R) \in 0..(Highest + 3) /\ Away(t, R) \in 0..(Highest + 3) /\ Away(s, R) # 0
    BY <1>0, <2>1
  <2>3. ~Settled(Here(s))
    BY <1>3 DEF Settled
  <2>4. Nearer(s, t, L, R)
    BY <2>1, <2>2 DEF Nearer
  <2> QED BY <2>2, <2>3, <2>4 DEF t
<1>4. CASE Here(s).op \in {"exec", "condbr", "ret"}
  <2>1. Silently[s] = s
    BY <1>1, <1>4, SilentlyIs
  <2>2. Away(s, R) = 0 /\ Settled(Here(s))
    BY <1>4 DEF Away, Settled
  <2>3. 0 \in 0..(Highest + 3)
    BY <1>0
  <2> QED BY <2>1, <2>2, <2>3 DEF Nearer
<1> QED BY <1>1, <1>2, <1>3, <1>4, OpsAre

\* The control.
Now == [block |-> pc[1], index |-> pc[2], ok |-> retval]
\* The silent steps from the control.
IsOrbit(f) == f = [n \in 0..(2 * Len(statements) + 7) |-> IF n = 0 THEN Now ELSE Silently[f[n - 1]]]

\* The silent steps from here.
LEMMA OrbitExists ==
  ASSUME NEW L, NEW R, Loaded(L, R), Sound(Now)
  PROVE \E f : IsOrbit(f)
<1> DEFINE K == 2 * Len(statements) + 7
           X == {s \in Controls : Sound(s)}
           F == [q \in X \X (1..K) |-> Silently[q[1]]]
           E == Now
<1>0. K \in Nat
  <2>1. Len(statements) \in Nat
    BY TextShape0 DEF Loaded, Faithful
  <2> QED BY <2>1
<1>1. E \in X
  BY DEF Sound, IsAt
<1>2. \A s \in X : Silently[s] \in X
  BY SilentlyNearer DEF Nearer, Sound, IsAt
<1> HIDE DEF X, K, E
<1>3. F \in [X \X (1..K) -> X]
  BY <1>2
<1>4. \A s \in X : \A m \in 1..K : F[<<s, m>>] = Silently[s]
  OBVIOUS
<1> HIDE DEF F
<1>5. PICK f \in [0..K -> X] : Iteration(f, K, E, F)
  BY <1>0, <1>1, <1>3, Iterates
<1>6. f = [n \in 0..K |-> IF n = 0 THEN E ELSE Silently[f[n - 1]]]
  <2>1. f = [n \in 0..K |-> IF n = 0 THEN E ELSE F[<<f[n - 1], n>>]]
    BY <1>5 DEF Iteration
  <2>2. ASSUME NEW n \in 0..K, n # 0 PROVE F[<<f[n - 1], n>>] = Silently[f[n - 1]]
    <3>1. n \in 1..K /\ n - 1 \in 0..K
      BY <1>0, <2>2
    <3>2. f[n - 1] \in X
      BY <1>5, <3>1
    <3> QED BY <1>4, <3>1, <3>2
  <2>3. \A n \in 0..K : f[n] = IF n = 0 THEN E ELSE Silently[f[n - 1]]
    BY <2>1, <2>2
  <2>4. f = [n \in 0..K |-> f[n]]
    BY <1>5
  <2> QED BY <2>3, <2>4
<1>7. IsOrbit(f)
  BY <1>6 DEF IsOrbit, K, E
<1> QED BY <1>7

\* The silent steps end at a point that the client knows of, and show what can be seen from the start.
LEMMA OrbitEnds ==
  ASSUME NEW L, NEW R, Loaded(L, R), Sound(Now), NEW f, IsOrbit(f)
  PROVE LET e == f[2 * Len(statements) + 7] IN
        Sound(e) /\ Sees(e, L) = Sees(Now, L) /\ Settled(Here(e))
<1> DEFINE K == 2 * Len(statements) + 7
<1>0. K \in Nat /\ K = Highest + 3 /\ Highest \in Nat
  <2>1. Len(statements) \in Nat
    BY TextShape0 DEF Loaded, Faithful
  <2> QED BY <2>1 DEF Highest
<1>1. f = [n \in 0..K |-> IF n = 0 THEN Now ELSE Silently[f[n - 1]]]
  BY DEF IsOrbit
<1> HIDE DEF K
<1>2. f[0] = Now /\ \A n \in 1..K : f[n] = Silently[f[n - 1]] /\ n \in 0..K /\ n # 0
  <2>1. 0 \in 0..K /\ \A n \in 1..K : n \in 0..K /\ n # 0
    BY <1>0
  <2>2. \A n \in 0..K : f[n] = IF n = 0 THEN Now ELSE Silently[f[n - 1]]
    BY <1>1
  <2> QED BY <2>1, <2>2
<1> DEFINE S == {n \in 0..K : /\ Sound(f[n]) /\ Sees(f[n], L) = Sees(Now, L)
                              /\ Away(f[n], R) \in 0..(Highest + 3)
                              /\ Away(f[n], R) = 0 \/ Away(f[n], R) + n <= K}
<1>3. 0 \in S
  <2>1. Away(f[0], R) \in 0..(Highest + 3)
    BY <1>2, SilentlyNearer DEF Nearer
  <2>2. Away(f[0], R) + 0 <= K /\ 0 \in 0..K
    BY <1>0, <2>1
  <2> QED BY <1>2, <2>1, <2>2
<1>4. ASSUME NEW n \in 1..K, n - 1 \in S PROVE n \in S
  <2> DEFINE s == f[n - 1]
             t == f[n]
             u == Away(s, R)
             w == Away(t, R)
  <2>1. Sound(s) /\ Sees(s, L) = Sees(Now, L) /\ (u = 0 \/ u + (n - 1) <= K)
    BY <1>4
  <2>2. t = Silently[s] /\ n \in 0..K
    BY <1>2
  <2> HIDE DEF s, t
  <2>3. Nearer(s, t, L, R)
    BY <2>1, <2>2, SilentlyNearer
  <2>4. Sound(t) /\ Sees(t, L) = Sees(Now, L) /\ u \in 0..(Highest + 3) /\ w \in 0..(Highest + 3)
        /\ (u = 0 => t = s) /\ (u > 0 => w < u)
    BY <2>1, <2>3 DEF Nearer
  <2>5. u = 0 => w = 0
    BY <2>4
  <2> HIDE DEF u, w
  <2>6. w = 0 \/ w + n <= K
    BY <1>0, <2>1, <2>4, <2>5
  <2> USE DEF w, t
  <2> QED BY <2>2, <2>4, <2>6
<1>5. K \in S
  <2> HIDE DEF S
  <2>1. 0..K \subseteq S
    BY <1>0, <1>3, <1>4, InductionUpTo
  <2> QED BY <1>0, <2>1
<1> DEFINE e == f[K]
<1>6. Sound(e) /\ Sees(e, L) = Sees(Now, L) /\ Away(e, R) = 0
  <2>1. /\ Sound(e) /\ Sees(e, L) = Sees(Now, L) /\ Away(e, R) \in 0..(Highest + 3)
        /\ Away(e, R) = 0 \/ Away(e, R) + K <= K
    BY <1>5
  <2> HIDE DEF e
  <2> QED BY <1>0, <2>1
<1> HIDE DEF e
<1>7. Settled(Here(e))
  BY <1>6, SilentlyNearer
<1> QED BY <1>6, <1>7 DEF e, K

\* What the code shows is what it is to show.
LEMMA ObservedIs ==
  ASSUME NEW L, NEW R, Loaded(L, R), Sound(Now), pc # Outside
  PROVE Observed = Sees(Now, L)
<1> DEFINE g == CHOOSE f : IsOrbit(f)
           e == g[2 * Len(statements) + 7]
           i == Here(e)
<1>1. IsOrbit(g)
  BY OrbitExists
<1>2. Observed = IF pc = Outside THEN Unbuilt
                 ELSE IF i.op = "ret" THEN (IF e.ok THEN Succeeded ELSE Failed)
                 ELSE i.point
  BY DEF Observed, IsOrbit, Now, Here
<1> HIDE DEF g
<1>3. Sound(e) /\ Sees(e, L) = Sees(Now, L) /\ Settled(Here(e))
  BY <1>1, OrbitEnds
<1> HIDE DEF e
<1>4. e.ok \in BOOLEAN
  BY <1>3 DEF Sound, IsAt, Controls
<1>5. CASE i.op = "ret"
  <2>1. Shows(i, L) = Succeeded
    BY <1>5 DEF Shows
  <2> QED BY <1>2, <1>3, <1>4, <1>5, <2>1 DEF Sees
<1>6. CASE i.op \in {"exec", "condbr"}
  <2>1. e.ok = TRUE
    <3>1. i # Br(ReturnBlock) /\ i # Ret
      BY <1>6 DEF Br, Ret
    <3> QED BY <1>3, <1>4, <3>1 DEF Sound
  <2>2. Shows(i, L) = i.point
    BY <1>6 DEF Shows
  <2> QED BY <1>2, <1>3, <1>6, <2>1, <2>2 DEF Sees
<1> QED BY <1>3, <1>5, <1>6 DEF Settled

\* What is seen when the code is right (the same in every state).
Seeing ==
  \A L, R, x, ok : Loaded(L, R) /\ Sound(Now) /\ pc # Outside /\ x = blocks[pc[1]][pc[2]] /\ ok = retval =>
    Observed = IF ok THEN Shows(x, L) ELSE Failed

\* It is so in every state.
LEMMA SeeingAlways == Seeing
<1> SUFFICES ASSUME NEW L, NEW R, NEW x, NEW ok, Loaded(L, R), Sound(Now), pc # Outside,
                    x = blocks[pc[1]][pc[2]], ok = retval
             PROVE Observed = IF ok THEN Shows(x, L) ELSE Failed
  BY DEF Seeing
<1>1. Observed = Sees(Now, L)
  BY ObservedIs
<1>2. Now.ok = ok /\ Here(Now) = x
  BY DEF Now, Here
<1> HIDE DEF Now
<1> QED BY <1>1, <1>2 DEF Sees

\* What depends on the text alone stays when the text does.
LEMMA FaithfulStays ==
  ASSUME statements' = statements
  PROVE Faithful' <=> Faithful
BY DEF Faithful, TextOK, Complete, Fitting, Positions, Op, In, Current, Open, Fits, Ends, Escapes, IsLast, Final,
       Finish, End, EndsIf

\* So does what the blocks are for,
LEMMA PromiseStays ==
  ASSUME statements' = statements
  PROVE \A v : Promise(v)' = Promise(v)
BY DEF Promise, Tree!Arrive, Tree!Stops, Tree!Passes, Tree!Positions, Tree!Op, Tree!In, Tree!End, Tree!EndsIf

\* what all of them together are for,
LEMMA MeantStays ==
  ASSUME statements' = statements, NEW c, blocks' = c, NEW L, NEW R
  PROVE Meant(blocks, L, R)' <=> Meant(c, L, R)
BY DEF Meant, Highest, Kept, Shows, Decides, Linked, Promise, Tree!After, Tree!Arrive, Tree!Stops, Tree!Passes,
       Tree!Positions, Tree!Op, Tree!In, Tree!End, Tree!EndsIf

\* and what their instructions show.
LEMMA ShowsStay ==
  ASSUME statements' = statements
  PROVE \A x, L : Shows(x, L)' = Shows(x, L)
BY DEF Shows, Promise, Tree!Arrive, Tree!Stops, Tree!Passes, Tree!Positions, Tree!Op, Tree!In, Tree!End, Tree!EndsIf

\* What is seen in the next state.
LEMMA SeenNext ==
  ASSUME statements' = statements, NEW L, NEW R, Loaded(L, R)', Sound(Now)', pc' # Outside,
         NEW x, NEW ok, x = blocks'[pc'[1]][pc'[2]], ok = retval'
  PROVE Observed' = IF ok THEN Shows(x, L) ELSE Failed
<1>1. Seeing'
  BY SeeingAlways, PTL
<1>2. Observed' = IF ok THEN Shows(x, L)' ELSE Failed
  BY <1>1 DEF Seeing, Outside, Failed
<1> QED BY <1>2, ShowsStay

\* The control of code that runs as written is sound.
RInv ==
  /\ GenInv
  /\ pc = Outside => retval = TRUE
  /\ pc # Outside /\ Faithful => Sound(Now)

\* Code that runs is right, of a function that runs as written.
LEMMA LoadedWhen ==
  ASSUME RInv, pc # Outside
  PROVE /\ ~Escapes => Faithful
        /\ Faithful => \E L, R : Loaded(L, R)
<1>1. TextOK /\ InCode /\ Complete /\ blocks = Generated /\ Verified(blocks)
  BY DEF RInv, GenInv, InCode
<1>2. \A i \in Positions : Fits(i)
  BY <1>1, GeneratedVerified
<1>3. ~Escapes => Faithful
  BY <1>1, <1>2 DEF Faithful
<1>4. ASSUME Faithful PROVE \E L, R : Loaded(L, R)
  <2>1. PICK L, R : Meant(Generated, L, R)
    BY <1>4, GeneratedMeans
  <2>2. Loaded(L, R)
    BY <1>1, <1>4, <2>1 DEF Loaded
  <2> QED BY <2>2
<1> QED BY <1>3, <1>4

\* The control at an instruction, after a step.
LEMMA SoundNext ==
  ASSUME NEW c, blocks' = c, NEW b \in 1..Len(c), NEW k \in 1..Len(c[b]), pc' = <<b, k>>,
         NEW ok \in BOOLEAN, retval' = ok, ok = FALSE => c[b][k] = Br(ReturnBlock) \/ c[b][k] = Ret
  PROVE Sound(Now)' /\ pc' # Outside
<1> DEFINE s == [block |-> b, index |-> k, ok |-> ok]
<1>1. Now' = s
  BY DEF Now
<1>2. s \in Controls /\ s.block = b /\ s.index = k /\ s.ok = ok
  BY DEF Controls
<1> HIDE DEF s
<1>3. IsAt(Now)'
  BY <1>1, <1>2 DEF IsAt, Now, Controls
<1>4. pc'[1] = b /\ pc'[2] = k
  OBVIOUS
<1>5. Sound(Now)'
  BY <1>3, <1>4 DEF Sound, Now, Here, Br, Ret, ReturnBlock
<1>6. b # 0
  OBVIOUS
<1> QED BY <1>5, <1>6 DEF Outside

\* The code and what it is for stay.
LEMMA LoadedNext ==
  ASSUME statements' = statements, NEW c, blocks' = c, NEW L, NEW R,
         Faithful, c = Generated, Verified(c), Meant(c, L, R)
  PROVE Loaded(L, R)'
<1>1. Faithful' /\ Generated' = Generated
  BY FaithfulStays, TextStays
<1>2. Verified(blocks)'
  BY DEF Verified, IsTerminator
<1>3. Meant(blocks, L, R)'
  BY MeantStays
<1> QED BY <1>1, <1>2, <1>3 DEF Loaded

\* A step of the code.
LEMMA StepSeen ==
  ASSUME NEW L, NEW R, Loaded(L, R), statements' = statements, blocks' = blocks,
         NEW b \in 1..Len(blocks), NEW k \in 1..Len(blocks[b]), pc' = <<b, k>>,
         NEW ok \in BOOLEAN, retval' = ok, ok = FALSE => blocks[b][k] = Br(ReturnBlock) \/ blocks[b][k] = Ret
  PROVE Sound(Now)' /\ pc' # Outside /\ Observed' = IF ok THEN Shows(blocks[b][k], L) ELSE Failed
<1>1. PICK c : c = blocks
  OBVIOUS
<1>2. Sound(Now)' /\ pc' # Outside
  BY <1>1, SoundNext
<1>3. Loaded(L, R)'
  BY <1>1, LoadedNext DEF Loaded
<1>4. PICK x : x = c[b][k]
  OBVIOUS
<1>5. x = blocks'[pc'[1]][pc'[2]]
  BY <1>1, <1>4
<1>6. Observed' = IF ok THEN Shows(x, L) ELSE Failed
  BY <1>2, <1>3, <1>5, SeenNext
<1> QED BY <1>1, <1>2, <1>4, <1>6

\* A point is a place in the function.
LEMMA PointsAre ==
  \A p \in Points : p # Unbuilt /\ p # Succeeded /\ p # Failed
BY DEF Points, Do, Iter, Unbuilt, Succeeded, Failed

\* A step of the text.
LEMMA StepIs ==
  ASSUME statements' = statements, NEW p \in Points, Observed = p, NEW ok \in BOOLEAN, Observed' = Tree!After(p, ok)
  PROVE Tree!Step
BY PointsAre, TreeWords DEF Tree!Step

\* Where the control is.
Standing(L, R, b, k) ==
  /\ Loaded(L, R) /\ Sound(Now) /\ pc # Outside
  /\ pc = <<b, k>> /\ b \in Nat /\ k \in Nat /\ b \in 1..Len(blocks) /\ k \in 1..Len(blocks[b])
  /\ Now.block = b /\ Now.index = k /\ Now.ok = retval /\ retval \in BOOLEAN
  /\ Here(Now) = blocks[b][k] /\ Instruction = blocks[b][k]
  /\ Observed = IF retval THEN Shows(blocks[b][k], L) ELSE Failed

\* Where the control is, while the code runs.
LEMMA Stands ==
  ASSUME RInv, Faithful, pc # Outside
  PROVE \E L, R, b, k : Standing(L, R, b, k)
<1>1. PICK L, R : Loaded(L, R)
  BY LoadedWhen
<1>2. Sound(Now) /\ InCode /\ retval \in BOOLEAN
  BY DEF RInv, GenInv
<1>3. PICK b \in Nat, k \in Nat : pc = <<b, k>>
  BY <1>2 DEF InCode
<1>4. b \in 1..Len(blocks) /\ k \in 1..Len(blocks[b])
  BY <1>2, <1>3 DEF InCode
<1>5. Now.block = b /\ Now.index = k /\ Now.ok = retval /\ Instruction = blocks[b][k]
  BY <1>3 DEF Now, Instruction
<1> HIDE DEF Now
<1>6. Here(Now) = blocks[b][k]
  BY <1>5 DEF Here
<1>7. Observed = Sees(Now, L)
  BY <1>1, <1>2, ObservedIs
<1>8. Standing(L, R, b, k)
  BY <1>1, <1>2, <1>3, <1>4, <1>5, <1>6, <1>7 DEF Standing, Sees
<1> QED BY <1>8

\* A step of the text, or one that shows nothing.
Proceeds == Sound(Now)' /\ pc' # Outside /\ (Tree!Step \/ UNCHANGED <<statements, Observed>>)

\* A statement of the client: the control goes on behind it.
LEMMA ExecuteOn ==
  ASSUME NEW L, NEW R, NEW b, NEW k, Standing(L, R, b, k), Execute
  PROVE Proceeds
<1> DEFINE x == blocks[b][k]
<1>1. /\ x.op = "exec" /\ pc' = <<b, k + 1>> /\ statements' = statements /\ blocks' = blocks /\ retval' = retval
  BY DEF Execute, Facing, Advance, Standing
<1>2. /\ IsAt(Now) /\ b \in Nat /\ k \in Nat /\ b \in 1..Len(blocks) /\ k \in 1..Len(blocks[b])
      /\ Here(Now) = x /\ Now.block = b /\ Now.index = k
  BY DEF Standing, Sound
<1>3. /\ x \in Instructions /\ Len(blocks[b]) \in Nat /\ Kept(blocks[b], b, L, R)
      /\ IsTerminator(x) <=> k = Len(blocks[b])
  BY <1>2, HereIs DEF Standing
<1>4. x.point \in Points /\ ~IsTerminator(x)
  BY <1>1, <1>3 DEF Instructions, Exec, Br, CondBr, StoreFalse, Ret, IsTerminator
<1>5. k + 1 \in 1..Len(blocks[b]) /\ k < Len(blocks[b])
  BY <1>2, <1>3, <1>4
<1>6. retval = TRUE
  <2>1. x # Br(ReturnBlock) /\ x # Ret
    BY <1>1 DEF Br, Ret
  <2> QED BY <1>2, <2>1 DEF Standing, Sound
<1>7. Observed = x.point
  BY <1>1, <1>6 DEF Standing, Shows
<1>8. Shows(blocks[b][k + 1], L) = Tree!After(x.point, TRUE)
  BY <1>1, <1>2, <1>3, <1>5 DEF Kept, Linked
<1> HIDE DEF x
<1>9. Sound(Now)' /\ pc' # Outside /\ Observed' = Tree!After(x.point, TRUE)
  <2>1. Sound(Now)' /\ pc' # Outside /\ Observed' = IF TRUE THEN Shows(blocks[b][k + 1], L) ELSE Failed
    BY <1>1, <1>2, <1>5, <1>6, StepSeen DEF Standing
  <2> QED BY <1>8, <2>1
<1>10. Tree!Step
  BY <1>1, <1>4, <1>7, <1>9, StepIs
<1> QED BY <1>9, <1>10 DEF Proceeds

\* A decision leads to what the text says of it.
LEMMA DecideOn ==
  ASSUME NEW L, NEW R, NEW b, NEW k, Standing(L, R, b, k), Decide
  PROVE Proceeds
<1> DEFINE x == blocks[b][k]
<1>1. x.op = "condbr" /\ statements' = statements /\ blocks' = blocks /\ retval' = retval
  BY DEF Decide, Facing, Standing
<1>a. PICK c \in {x.yes, x.no} : pc' = <<c, 1>>
  BY DEF Decide, GoTo, Standing
<1>2. /\ IsAt(Now) /\ b \in 1..Len(blocks) /\ k \in 1..Len(blocks[b])
      /\ Here(Now) = x /\ Now.block = b /\ Now.index = k /\ Loaded(L, R)
  BY DEF Standing, Sound
<1>3. /\ x \in Instructions /\ Kept(blocks[b], b, L, R) /\ Aimed(x, Len(blocks))
      /\ \A d \in 1..Len(blocks) : 1 \in 1..Len(blocks[d]) /\ blocks[d] # <<>>
  BY <1>2, HereIs
<1>4. x.point \in Points
  BY <1>1, <1>3 DEF Instructions, Exec, Br, CondBr, StoreFalse, Ret
<1>5. c \in 1..Len(blocks) /\ 1 \in 1..Len(blocks[c]) /\ blocks[c] # <<>>
  BY <1>1, <1>3 DEF Aimed
<1>6. retval = TRUE
  <2>1. x # Br(ReturnBlock) /\ x # Ret
    BY <1>1 DEF Br, Ret
  <2> QED BY <1>2, <2>1 DEF Standing, Sound
<1>7. Observed = x.point
  BY <1>1, <1>6 DEF Standing, Shows
<1>8. Promise(L[x.yes]) = Tree!After(x.point, TRUE) /\ Promise(L[x.no]) = Tree!After(x.point, FALSE)
  BY <1>1, <1>2, <1>3 DEF Kept, Decides
<1> HIDE DEF x
<1>9. PICK ok \in BOOLEAN : Promise(L[c]) = Tree!After(x.point, ok)
  BY <1>8
<1>10. Shows(blocks[c][1], L) = Promise(L[c])
  BY <1>2, <1>5 DEF Loaded, Meant, Kept
<1>11. Sound(Now)' /\ pc' # Outside /\ Observed' = Tree!After(x.point, ok)
  <2>1. Sound(Now)' /\ pc' # Outside /\ Observed' = IF TRUE THEN Shows(blocks[c][1], L) ELSE Failed
    BY <1>1, <1>a, <1>2, <1>5, <1>6, StepSeen
  <2> QED BY <1>9, <1>10, <2>1
<1>12. Tree!Step
  BY <1>1, <1>4, <1>7, <1>11, StepIs
<1> QED BY <1>11, <1>12 DEF Proceeds

\* A silent step shows nothing new.
LEMMA SilentOn ==
  ASSUME NEW L, NEW R, NEW b, NEW k, Standing(L, R, b, k),
         statements' = statements, blocks' = blocks,
         NEW c, NEW j, NEW ok, pc' = <<c, j>>, retval' = ok,
         Silently[Now] = [block |-> c, index |-> j, ok |-> ok]
  PROVE Proceeds
<1> DEFINE t == Silently[Now]
<1>1. Loaded(L, R) /\ Sound(Now) /\ Observed = Sees(Now, L)
  BY DEF Standing, Sees
<1>2. Sound(t) /\ Sees(t, L) = Sees(Now, L)
  BY <1>1, SilentlyNearer DEF Nearer
<1>3. t.block = c /\ t.index = j /\ t.ok = ok
  OBVIOUS
<1> HIDE DEF t
<1>4. /\ c \in 1..Len(blocks) /\ j \in 1..Len(blocks[c]) /\ ok \in BOOLEAN
      /\ ok = FALSE => blocks[c][j] = Br(ReturnBlock) \/ blocks[c][j] = Ret
      /\ Sees(t, L) = IF ok THEN Shows(blocks[c][j], L) ELSE Failed
  BY <1>2, <1>3 DEF Sound, IsAt, Here, Sees, Controls
<1>5. Sound(Now)' /\ pc' # Outside /\ Observed' = IF ok THEN Shows(blocks[c][j], L) ELSE Failed
  BY <1>1, <1>4, StepSeen
<1>6. Observed' = Observed
  BY <1>1, <1>2, <1>4, <1>5
<1> QED BY <1>5, <1>6 DEF Proceeds

\* Branches and stores are such steps.
LEMMA BranchAndStoreOn ==
  ASSUME NEW L, NEW R, NEW b, NEW k, Standing(L, R, b, k), Branch \/ Store
  PROVE Proceeds
<1>1. Now \in Controls /\ Here(Now) = Instruction /\ Now.block = b /\ Now.index = k /\ Now.ok = retval
      /\ pc = <<b, k>>
  BY DEF Standing, Sound, IsAt
<1>2. CASE Branch
  <2>1. /\ Here(Now).op = "br" /\ pc' = <<Here(Now).to, 1>>
        /\ statements' = statements /\ blocks' = blocks /\ retval' = retval
    BY <1>1, <1>2 DEF Branch, Facing, GoTo
  <2>2. Silently[Now] = [block |-> Here(Now).to, index |-> 1, ok |-> retval]
    BY <1>1, <2>1, SilentlyIs
  <2>3. PICK c, ok : c = Here(Now).to /\ ok = retval
    OBVIOUS
  <2>4. pc' = <<c, 1>> /\ retval' = ok /\ Silently[Now] = [block |-> c, index |-> 1, ok |-> ok]
    BY <2>1, <2>2, <2>3
  <2> QED BY <2>1, <2>4, SilentOn
<1>3. CASE Store
  <2>1. /\ Here(Now).op = "store_false" /\ pc' = <<b, k + 1>>
        /\ statements' = statements /\ blocks' = blocks /\ retval' = FALSE
    BY <1>1, <1>3 DEF Store, Facing, Advance
  <2>2. Silently[Now] = [block |-> b, index |-> k + 1, ok |-> FALSE]
    BY <1>1, <2>1, SilentlyIs
  <2> QED BY <2>1, <2>2, SilentOn
<1> QED BY <1>2, <1>3

\* The other definitions of StatementTree are those of the text, too.
LEMMA TreeTexts ==
  /\ Tree!Complete <=> Complete
  /\ Tree!Blank <=> Blank
  /\ \A op : Tree!PutStatement(op) <=> PutStatement(op)
  /\ Tree!EndBlock <=> EndBlock
<1>1. \A n : Tree!Open(n) = Open(n)
  BY DEF Tree!Open, Open, Tree!Op, Op, Tree!In, In, Tree!Openers, Openers, Tree!Closers, Closers, Tree!Loops, Loops,
         Tree!Whole, Whole
<1>2. \A n : Tree!Current(n) = Current(n)
  BY <1>1 DEF Tree!Current, Current
<1>3. \A op : Tree!Put(op) <=> Put(op)
  BY <1>2 DEF Tree!Put, Put
<1>4. Tree!Count = Count
  <2>1. {i \in Tree!Positions : Tree!Op(i) \notin Tree!Closers} = {i \in Positions : Op(i) \notin Closers}
    BY TreeWords
  <2>2. \A T : Tree!Cardinality(T) = Cardinality(T)
    BY DEF Tree!Cardinality, Cardinality
  <2> QED BY <2>1, <2>2 DEF Tree!Count, Count
<1>5. \A op : Tree!PutStatement(op) <=> PutStatement(op)
  BY <1>3, <1>4 DEF Tree!PutStatement, PutStatement
<1>6. Tree!EndBlock <=> EndBlock
  BY <1>2, <1>3, TreeWords DEF Tree!EndBlock, EndBlock, Tree!Whole, Whole
<1>7. Tree!Complete <=> Complete
  BY <1>2 DEF Tree!Complete, Complete, Tree!Whole, Whole
<1>8. Tree!Blank <=> Blank
  BY DEF Tree!Blank, Blank
<1> QED BY <1>5, <1>6, <1>7, <1>8

\* The steps of the client are those of the text;
LEMMA WriteTree ==
  ASSUME RInv, Write
  PROVE RInv' /\ Tree!Write
<1>1. blocks = <<>> /\ pc = Outside /\ blocks' = blocks /\ pc' = pc /\ retval' = retval
  BY GeneratedSome DEF Write, RInv, GenInv, InCode
<1>2. GenInv'
  BY GenInvNext DEF RInv, GenNext
<1>3. RInv'
  BY <1>1, <1>2 DEF RInv, Outside
<1>4. Observed = Unbuilt /\ Observed' = Unbuilt
  BY <1>1 DEF Observed, Outside, Unbuilt
<1>5. (\E op \in Operations : Tree!PutStatement(op)) \/ Tree!EndBlock
  BY TreeTexts DEF Write
<1> QED BY <1>3, <1>4, <1>5, TreeWords DEF Tree!Write

\* the generated code begins where the text does;
LEMMA GenerateTree ==
  ASSUME RInv, Generate
  PROVE RInv' /\ (~Escapes => Tree!Call \/ UNCHANGED <<statements, Observed>>)
<1>1. /\ blocks = <<>> /\ pc = Outside /\ Complete /\ blocks' = Generated /\ statements' = statements
      /\ retval = TRUE /\ retval' = TRUE /\ TextOK
  BY GeneratedSome DEF Generate, RInv, GenInv, InCode
<1>2. GenInv'
  BY GenInvNext DEF RInv, GenNext
<1>3. Observed = Unbuilt
  BY <1>1 DEF Observed
<1>4. CASE ~Verified(Generated)
  <2>1. pc' = Outside
    BY <1>1, <1>4 DEF Generate
  <2>2. Observed' = Unbuilt
    BY <2>1 DEF Observed, Outside, Unbuilt
  <2>3. RInv'
    BY <1>1, <1>2, <2>1 DEF RInv, Outside
  <2> QED BY <1>1, <1>3, <2>2, <2>3
<1>5. CASE Verified(Generated)
  <2>1. pc' = <<1, 1>>
    BY <1>5 DEF Generate, GoTo, Entry
  <2>2. PICK c : c = Generated
    OBVIOUS
  <2>3. c \in Seq(Seq(Instructions)) /\ 1 \in 1..Len(c)
    BY <1>1, <2>2, GeneratedAims DEF Entry
  <2>4. c[1] # <<>> /\ 1 \in 1..Len(c[1])
    <3>1. c[1] # <<>> /\ c[1] \in Seq(Instructions)
      BY <1>5, <2>2, <2>3, VerifiedIs, ElementOfSeq DEF Ended
    <3>2. Len(c[1]) \in Nat /\ Len(c[1]) # 0
      BY <3>1, EmptySeq, LenProperties
    <3> QED BY <3>1, <3>2
  <2>5. Sound(Now)' /\ pc' # Outside
    BY <1>1, <2>1, <2>2, <2>3, <2>4, SoundNext
  <2>6. RInv'
    BY <1>2, <2>5 DEF RInv, Outside
  <2>7. ASSUME ~Escapes PROVE Tree!Call
    <3>1. Faithful
      BY <1>1, <1>5, <2>7, GeneratedVerified DEF Faithful
    <3>2. PICK L, R : Meant(c, L, R)
      BY <2>2, <3>1, GeneratedMeans
    <3>3. Loaded(L, R)'
      BY <1>1, <1>5, <2>2, <3>1, <3>2, LoadedNext
    <3>4. PICK x : x = c[1][1]
      OBVIOUS
    <3>5. x = blocks'[pc'[1]][pc'[2]]
      BY <1>1, <2>1, <2>2, <3>4
    <3>6. Observed' = IF TRUE THEN Shows(x, L) ELSE Failed
      BY <1>1, <2>5, <3>3, <3>5, SeenNext
    <3>7. Shows(x, L) = Tree!Arrive(1)
      <4>1. Shows(c[1][1], L) = Promise(L[1]) /\ L[1] = 1
        BY <2>3, <2>4, <3>2 DEF Meant, Kept, Entry
      <4> QED BY <3>4, <4>1 DEF Promise
    <3> QED BY <1>1, <1>3, <3>6, <3>7, TreeTexts, TreeWords DEF Tree!Call
  <2> QED BY <2>6, <2>7
<1> QED BY <1>4, <1>5

\* its steps are steps of the text, or show nothing;
LEMMA CodeTree ==
  ASSUME RInv, Execute \/ Branch \/ Decide \/ Store
  PROVE RInv' /\ (~Escapes => Tree!Step \/ UNCHANGED <<statements, Observed>>)
<1>1. pc # Outside /\ statements' = statements
  BY DEF Execute, Branch, Decide, Store, Facing
<1>2. GenInv'
  BY GenInvNext DEF RInv, GenNext
<1>3. pc' # Outside
  <2>1. InCode
    BY <1>1 DEF RInv, GenInv
  <2>2. Aimed(Instruction, Len(blocks)) /\ pc \in Nat \X Nat
    BY <1>1, <2>1, RunningIs DEF RInv, GenInv, InCode
  <2>3. \A b, k : <<b, k>> = Outside => k = 0
    BY DEF Outside
  <2>4. (\E b : pc' = <<b, 1>>) \/ pc' = <<pc[1], pc[2] + 1>>
    BY DEF Execute, Branch, Decide, Store, GoTo, Advance
  <2>5. pc[2] + 1 # 0
    BY <2>2
  <2> QED BY <2>3, <2>4, <2>5
<1>4. CASE Faithful
  <2>1. PICK L, R, b, k : Standing(L, R, b, k)
    BY <1>1, <1>4, Stands
  <2>2. Proceeds
    BY <2>1, ExecuteOn, DecideOn, BranchAndStoreOn
  <2>3. RInv'
    BY <1>2, <2>2 DEF RInv, Outside, Proceeds
  <2> QED BY <2>2, <2>3 DEF Proceeds
<1>5. CASE ~Faithful
  <2>1. ~Faithful'
    BY <1>1, <1>5, FaithfulStays
  <2>2. RInv'
    BY <1>2, <1>3, <2>1 DEF RInv, Outside
  <2>3. Escapes
    BY <1>1, <1>5, LoadedWhen
  <2> QED BY <2>2, <2>3
<1> QED BY <1>4, <1>5

\* and nothing changes by itself.
LEMMA StandsStill ==
  ASSUME RInv, UNCHANGED genvars
  PROVE RInv' /\ UNCHANGED <<statements, Observed>>
<1>1. statements' = statements /\ blocks' = blocks /\ pc' = pc /\ retval' = retval
  BY DEF genvars
<1>2. GenInv'
  BY GenInvNext DEF RInv
<1>3. Faithful' <=> Faithful
  BY <1>1, FaithfulStays
<1>4. Sound(Now) => Sound(Now)'
  BY <1>1 DEF Sound, IsAt, Now, Here, Controls, Br, Ret, ReturnBlock
<1>5. RInv'
  BY <1>1, <1>2, <1>3, <1>4 DEF RInv, Outside
<1>6. Observed' = Observed
  BY <1>1 DEF Observed, Silently, Controls, Outside, Unbuilt, Succeeded, Failed
<1> QED BY <1>1, <1>5, <1>6

\* Every step keeps the invariant, and is one of the text.
LEMMA RInvNext ==
  ASSUME RInv, [GenNext]_genvars
  PROVE RInv' /\ (~Escapes => Tree!Next \/ UNCHANGED <<statements, Observed>>)
BY WriteTree, GenerateTree, CodeTree, StandsStill DEF GenNext, Tree!Next

\* Generated code does what its statements say, for functions of any length and depth, but for those
\* that an IF leaves instead of a block: buildStatement and what it calls implement the text.
THEOREM GenRunsAsWritten == GenSpec => RunsAsWritten
<1>1. GenInit => RInv
  BY GenInvInit DEF GenInit, RInv
<1>2. RInv /\ [GenNext]_genvars => RInv'
  BY RInvNext
<1>3. GenInit => Tree!Init
  <2> SUFFICES ASSUME GenInit PROVE Tree!Init
    OBVIOUS
  <2>1. Observed = Unbuilt /\ Tree!Blank
    BY TreeTexts DEF GenInit, Observed
  <2> QED BY <2>1, TreeWords DEF Tree!Init
<1>4. RInv /\ [GenNext]_genvars => [~Escapes => Tree!Next]_<<statements, Observed>>
  BY RInvNext
<1> QED BY <1>1, <1>2, <1>3, <1>4, PTL DEF GenSpec, RunsAsWritten
------------------------------------------------------------------------------
(* Expressions *)

\* Half the patterns of a type.
LEMMA HalfIs ==
  /\ \A ty \in Integral : Half[ty] \in Nat /\ Half[ty] > 0
  /\ Half["i1"] = 1
BY ExpressionsAssumption

\* Remainders of what is less than two moduli away.
LEMMA Remainders ==
  ASSUME NEW m \in Nat, m > 0
  PROVE /\ \A a \in Int : a % m \in 0..(m - 1)
        /\ \A a \in 0..(m - 1) : a % m = a
        /\ \A a \in m..(2 * m - 1) : a % m = a - m
        /\ \A a \in (-m)..(-1) : a % m = a + m
        /\ \A a \in (-2 * m)..(-m - 1) : a % m = a + 2 * m
OBVIOUS

\* Sums and differences of numbers from which a modulus may have been taken.
LEMMA Wraps ==
  ASSUME NEW h \in Nat, h > 0, NEW m \in Nat, m = 2 * h,
         NEW v \in 0..(m - 1), NEW w \in 0..(m - 1), NEW x \in Int, NEW y \in Int,
         x = IF v >= h THEN v - m ELSE v, y = IF w >= h THEN w - m ELSE w
  PROVE /\ (v + w) % m = (x + y) % m /\ (v - w) % m = (x - y) % m
        /\ (v + w) % m \in 0..(m - 1) /\ (v - w) % m \in 0..(m - 1)
<1>1. /\ \A a \in 0..(m - 1) : a % m = a
      /\ \A a \in m..(2 * m - 1) : a % m = a - m
      /\ \A a \in (-m)..(-1) : a % m = a + m
      /\ \A a \in Int : a % m \in 0..(m - 1)
  BY Remainders
<1>2. x >= -h /\ x < h /\ y >= -h /\ y < h /\ (x = v \/ x = v - m) /\ (y = w \/ y = w - m)
  OBVIOUS
<1>3. \A a \in 0..(2 * m - 2) : a % m = IF a < m THEN a ELSE a - m
  <2> SUFFICES ASSUME NEW a \in 0..(2 * m - 2) PROVE a % m = IF a < m THEN a ELSE a - m
    OBVIOUS
  <2>1. a < m => a \in 0..(m - 1)
    OBVIOUS
  <2>2. ~(a < m) => a \in m..(2 * m - 1)
    OBVIOUS
  <2> QED BY <1>1, <2>1, <2>2
<1>4. \A a \in (-m)..(m - 1) : a % m = IF a < 0 THEN a + m ELSE a
  <2> SUFFICES ASSUME NEW a \in (-m)..(m - 1) PROVE a % m = IF a < 0 THEN a + m ELSE a
    OBVIOUS
  <2>1. a < 0 => a \in (-m)..(-1)
    OBVIOUS
  <2>2. ~(a < 0) => a \in 0..(m - 1)
    OBVIOUS
  <2> QED BY <1>1, <2>1, <2>2
<1>5. v + w \in 0..(2 * m - 2) /\ v - w \in (-m)..(m - 1) /\ x + y \in (-m)..(m - 1) /\ x - y \in (-m)..(m - 1)
  BY <1>2
<1>6. (v + w) % m = (x + y) % m
  <2>1. (v + w) % m = IF v + w < m THEN v + w ELSE v + w - m
    <3>1. PICK a \in 0..(2 * m - 2) : a = v + w
      BY <1>5
    <3>2. a % m = IF a < m THEN a ELSE a - m
      BY <1>3
    <3> QED BY <3>1, <3>2
  <2>2. (x + y) % m = IF x + y < 0 THEN x + y + m ELSE x + y
    BY <1>4, <1>5
  <2>3. (IF v + w < m THEN v + w ELSE v + w - m) = IF x + y < 0 THEN x + y + m ELSE x + y
    BY <1>2
  <2> QED BY <2>1, <2>2, <2>3
<1>7. (v - w) % m = (x - y) % m
  <2>1. (v - w) % m = IF v - w < 0 THEN v - w + m ELSE v - w
    BY <1>4, <1>5
  <2>2. (x - y) % m = IF x - y < 0 THEN x - y + m ELSE x - y
    BY <1>4, <1>5
  <2>3. (IF v - w < 0 THEN v - w + m ELSE v - w) = IF x - y < 0 THEN x - y + m ELSE x - y
    BY <1>2
  <2> QED BY <2>1, <2>2, <2>3
<1>8. v + w \in Int /\ v - w \in Int
  OBVIOUS
<1> QED BY <1>1, <1>6, <1>7, <1>8

\* Adding patterns wraps around as adding their numbers does.
LEMMA WrapsAlike ==
  ASSUME NEW ty \in Integral, NEW v \in Patterns(ty), NEW w \in Patterns(ty)
  PROVE /\ (v + w) % (2 * Half[ty]) = (Signed(v, ty) + Signed(w, ty)) % (2 * Half[ty])
        /\ (v - w) % (2 * Half[ty]) = (Signed(v, ty) - Signed(w, ty)) % (2 * Half[ty])
        /\ (v + w) % (2 * Half[ty]) \in Patterns(ty) /\ (v - w) % (2 * Half[ty]) \in Patterns(ty)
<1>1. PICK h \in Nat : h > 0 /\ h = Half[ty]
  BY HalfIs
<1>2. PICK m \in Nat : m = 2 * h
  BY <1>1
<1>3. m = 2 * Half[ty] /\ Patterns(ty) = 0..(m - 1) /\ v \in 0..(m - 1) /\ w \in 0..(m - 1)
  BY <1>1, <1>2 DEF Patterns
<1>4. Signed(v, ty) = (IF v >= h THEN v - m ELSE v) /\ Signed(w, ty) = (IF w >= h THEN w - m ELSE w)
  BY <1>1, <1>2 DEF Signed
<1>5. Signed(v, ty) \in Int /\ Signed(w, ty) \in Int
  BY <1>3, <1>4
<1>6. PICK x \in Int, y \in Int : x = Signed(v, ty) /\ y = Signed(w, ty)
  BY <1>5
<1>7. x = (IF v >= h THEN v - m ELSE v) /\ y = (IF w >= h THEN w - m ELSE w)
  BY <1>4, <1>6
<1>8. /\ (v + w) % m = (x + y) % m /\ (v - w) % m = (x - y) % m
      /\ (v + w) % m \in 0..(m - 1) /\ (v - w) % m \in 0..(m - 1)
  <2>1. h > 0 /\ m = 2 * h /\ v \in 0..(m - 1) /\ w \in 0..(m - 1)
    BY <1>1, <1>2, <1>3
  <2> HIDE DEF Patterns
  <2> QED BY ONLY h \in Nat, m \in Nat, x \in Int, y \in Int, <2>1, <1>7, Wraps
<1>9. 2 * Half[ty] = m
  BY <1>3
<1> QED BY <1>3, <1>6, <1>8, <1>9, Zenon

\* Patterns are equal, zero, or even if their numbers are.
LEMMA SignedIs ==
  ASSUME NEW ty \in Integral, NEW v \in Patterns(ty), NEW w \in Patterns(ty)
  PROVE /\ Signed(v, ty) \in Int
        /\ v = w <=> Signed(v, ty) = Signed(w, ty)
        /\ v = 0 <=> Signed(v, ty) = 0
        /\ v % 2 = Signed(v, ty) % 2
<1>1. PICK h \in Nat : h > 0 /\ h = Half[ty]
  BY HalfIs
<1>2. v \in 0..(2 * h - 1) /\ w \in 0..(2 * h - 1)
  BY <1>1 DEF Patterns
<1>3. /\ Signed(v, ty) = (IF v >= h THEN v - 2 * h ELSE v)
      /\ Signed(w, ty) = (IF w >= h THEN w - 2 * h ELSE w)
  BY <1>1 DEF Signed
<1>4. (v - 2 * h) % 2 = v % 2
  BY <1>1, <1>2
<1> QED BY <1>1, <1>2, <1>3, <1>4
------------------------------------------------------------------------------
\* An expression of some type, in memory or not, is compiled right: there is an answer exactly if it
\* is supported, and its number is meant if no truth values are calculated with.
Right(memory, type, answer, means) ==
  /\ type \in ValueTypes /\ means \in [number : Int, supported : BOOLEAN, truths : BOOLEAN]
  /\ memory => means.supported
  /\ IF means.supported
     THEN /\ answer = (IF memory THEN Address(DcdsToLLVMType[type], answer.val)
                       ELSE Value(DcdsToLLVMType[type], answer.val))
          /\ answer.val \in Registers(DcdsToLLVMType[type])
          /\ ~means.truths => Number(answer.val, type) = means.number
     ELSE answer = Nothing

\* The types of the machine.
LEMMA TypesAre ==
  /\ \A t \in ValueTypes : DcdsToLLVMType[t] \in LLVMTypes
  /\ \A t \in ValueTypes : DcdsToLLVMType[t] = "i1" <=> t = "BOOL"
  /\ ValueTypes = {"INT64", "RECORD_PTR", "INT32", "BOOL", "DOUBLE", "FLOAT"}
  /\ DcdsToLLVMType["BOOL"] = "i1" /\ DcdsToLLVMType["INT64"] = "i64"
  /\ Registers("i1") = {0, 1}
<1>1. Registers("i1") = {0, 1}
  BY HalfIs DEF Registers, Patterns, Integral
<1> QED BY <1>1 DEF ValueTypes, DcdsToLLVMType, LLVMTypes

\* Registers hold numbers.
LEMMA RegistersAre ==
  ASSUME NEW ty \in LLVMTypes
  PROVE /\ \A v \in Registers(ty) : v \in Int
        /\ ty \in Integral => Registers(ty) = Patterns(ty)
        /\ ty \notin Integral => Registers(ty) = Int
<1>1. ty \in Integral => Half[ty] \in Nat
  BY HalfIs
<1> QED BY <1>1 DEF Registers, Patterns

\* What an operand is used as.
LEMMA LoadedIs ==
  ASSUME NEW memory \in BOOLEAN, NEW type, NEW r, NEW means, Right(memory, type, r, means)
  PROVE LoadValueIfRequired(r, type) = IF means.supported THEN Value(DcdsToLLVMType[type], r.val) ELSE Nothing
<1>1. CASE means.supported /\ memory
  <2>1. r = Address(DcdsToLLVMType[type], r.val)
    BY <1>1 DEF Right
  <2>2. r.kind = "address" /\ r.ty = DcdsToLLVMType[type]
    BY <2>1 DEF Address
  <2> QED BY <1>1, <2>2 DEF LoadValueIfRequired, CreateLoad
<1>2. CASE means.supported /\ ~memory
  <2>1. r = Value(DcdsToLLVMType[type], r.val)
    BY <1>2 DEF Right
  <2>2. r.kind = "value"
    BY <2>1 DEF Value
  <2> QED BY <1>2, <2>1, <2>2 DEF LoadValueIfRequired
<1>3. CASE ~means.supported
  <2>1. r = Nothing
    BY <1>3 DEF Right
  <2> QED BY <1>3, <2>1 DEF LoadValueIfRequired, Nothing
<1>4. means.supported \in BOOLEAN
  BY DEF Right
<1> QED BY <1>1, <1>2, <1>3, <1>4

\* Values are not nothing.
LEMMA AnswersDiffer ==
  \A ty, v : /\ Value(ty, v) # Nothing /\ Address(ty, v) # Nothing /\ Address(ty, v).kind = "address"
             /\ Value(ty, v).kind = "value" /\ Value(ty, v).ty = ty /\ Value(ty, v).val = v
             /\ Address(ty, v).ty = ty /\ Address(ty, v).val = v
             /\ Nothing.kind = "nothing"
BY DEF Value, Address, Nothing

\* Expressions compiled right: one constructed, and one about to be.
ExprRight(i) == Right(expressions[i].op \in Addressed, resultTypes[i], visits[i], meanings[i])
NodeRight(e) ==
  Right(e.op \in Addressed, ResultType(e), Visit(e),
        [number |-> Meaning(e), supported |-> Supported(e), truths |-> OnTruths(e)])

\* What operands are used as.
LEMMA OperandIs ==
  ASSUME NEW x, ExprRight(x)
  PROVE /\ OperandValue(x) = IF meanings[x].supported THEN Value(DcdsToLLVMType[resultTypes[x]], visits[x].val) ELSE Nothing
        /\ meanings[x].number \in Int /\ meanings[x].supported \in BOOLEAN /\ meanings[x].truths \in BOOLEAN
        /\ resultTypes[x] \in ValueTypes /\ DcdsToLLVMType[resultTypes[x]] \in LLVMTypes
        /\ meanings[x].supported =>
             /\ visits[x].val \in Registers(DcdsToLLVMType[resultTypes[x]]) /\ visits[x].val \in Int
             /\ ~meanings[x].truths => Number(visits[x].val, resultTypes[x]) = meanings[x].number
<1>1. Right(expressions[x].op \in Addressed, resultTypes[x], visits[x], meanings[x])
  BY DEF ExprRight
<1>2. (expressions[x].op \in Addressed) \in BOOLEAN
  OBVIOUS
<1>3. OperandValue(x) = IF meanings[x].supported THEN Value(DcdsToLLVMType[resultTypes[x]], visits[x].val) ELSE Nothing
  BY <1>1, <1>2, LoadedIs DEF OperandValue
<1>4. resultTypes[x] \in ValueTypes /\ DcdsToLLVMType[resultTypes[x]] \in LLVMTypes
  BY <1>1, TypesAre DEF Right
<1>5. \A v \in Registers(DcdsToLLVMType[resultTypes[x]]) : v \in Int
  BY <1>4, RegistersAre
<1> QED BY <1>1, <1>3, <1>4, <1>5 DEF Right

\* Sums and differences are compiled right.
LEMMA ArithmeticRight ==
  ASSUME NEW op \in Arithmetic, NEW l, NEW r, ExprRight(l), ExprRight(r),
         NEW e, e = [op |-> op, left |-> l, right |-> r]
  PROVE NodeRight(e)
<1> DEFINE t == resultTypes[l]
           ty == DcdsToLLVMType[t]
           sup == meanings[l].supported /\ meanings[r].supported /\ ty = DcdsToLLVMType[resultTypes[r]]
           tru == meanings[l].truths \/ meanings[r].truths \/ t = "BOOL"
           v == visits[l].val
           w == visits[r].val
           a == meanings[l].number
           b == meanings[r].number
<1>1. e.op = op /\ e.left = l /\ e.right = r
  OBVIOUS
<1>2. /\ op \notin Leafs /\ op \notin Addressed /\ op \notin ConstantOrValue /\ op \in Binary
      /\ op \notin Equality /\ op \notin Ordering /\ op \notin Nullity /\ op # "IsEven"
      /\ op = "Add" \/ op = "Subtract"
  BY DEF Arithmetic, Leafs, Addressed, ConstantOrValue, Binary, Equality, Ordering, Nullity
<1>3. ResultType(e) = t
  BY <1>1, <1>2 DEF ResultType
<1>4. Visit(e) = VisitArithmetic(op, OperandValue(l), OperandValue(r))
  BY <1>1, <1>2 DEF Visit
<1>5. Supported(e) = sup
  BY <1>1, <1>2 DEF Supported
<1>6. OnTruths(e) = tru
  BY <1>1, <1>2 DEF OnTruths
<1>7. Meaning(e) = Wrapped(IF op = "Add" THEN a + b ELSE a - b, t)
  BY <1>1, <1>2, <1>3 DEF Meaning
<1>8. /\ OperandValue(l) = IF meanings[l].supported THEN Value(ty, v) ELSE Nothing
      /\ OperandValue(r) = IF meanings[r].supported THEN Value(DcdsToLLVMType[resultTypes[r]], w) ELSE Nothing
      /\ a \in Int /\ b \in Int /\ t \in ValueTypes /\ ty \in LLVMTypes /\ sup \in BOOLEAN /\ tru \in BOOLEAN
  BY OperandIs
<1>9. Wrapped(IF op = "Add" THEN a + b ELSE a - b, t) \in Int
  BY <1>8, HalfIs DEF Wrapped, Signed
<1>10. CASE ~sup
  <2>1. ~SameType(OperandValue(l), OperandValue(r))
    BY <1>8, <1>10, AnswersDiffer DEF SameType
  <2>2. Visit(e) = Nothing
    BY <1>4, <2>1 DEF VisitArithmetic
  <2> QED BY <1>1, <1>2, <1>3, <1>5, <1>6, <1>7, <1>8, <1>9, <1>10, <2>2 DEF NodeRight, Right
<1>11. CASE sup
  <2>1. /\ v \in Registers(ty) /\ v \in Int /\ w \in Registers(ty) /\ w \in Int
        /\ ~tru => Number(v, t) = a /\ Number(w, resultTypes[r]) = b
    BY <1>11, OperandIs
  <2>2. Visit(e) = Value(ty, IF ty \in Integral THEN (IF op = "Add" THEN v + w ELSE v - w) % (2 * Half[ty])
                             ELSE IF op = "Add" THEN v + w ELSE v - w)
    <3>1. SameType(OperandValue(l), OperandValue(r)) /\ OperandValue(l).ty = ty /\ OperandValue(l).val = v /\ OperandValue(r).val = w
      BY <1>8, <1>11, AnswersDiffer DEF SameType
    <3> QED BY <1>4, <3>1 DEF VisitArithmetic
  <2> DEFINE z == Visit(e).val
  <2>3. Visit(e) = Value(ty, z)
    BY <2>2, AnswersDiffer
  <2>4. z \in Registers(ty) /\ (~tru => Number(z, t) = Meaning(e))
    <3>1. CASE ty \notin Integral
      <4>1. z = IF op = "Add" THEN v + w ELSE v - w
        BY <2>2, <3>1, AnswersDiffer
      <4>2. DcdsToLLVMType[resultTypes[r]] \notin Integral
        BY <1>11, <3>1
      <4>3. ~tru => v = a /\ w = b
        BY <2>1, <3>1, <4>2 DEF Number
      <4>4. Number(z, t) = z /\ Meaning(e) = IF op = "Add" THEN a + b ELSE a - b
        BY <1>7, <3>1 DEF Number, Wrapped
      <4> QED BY <1>8, <2>1, <3>1, <4>1, <4>3, <4>4, RegistersAre
    <3>2. CASE ty \in Integral
      <4>1. z = IF op = "Add" THEN (v + w) % (2 * Half[ty]) ELSE (v - w) % (2 * Half[ty])
        BY <2>2, <3>2, AnswersDiffer
      <4>2. v \in Patterns(ty) /\ w \in Patterns(ty) /\ Registers(ty) = Patterns(ty)
        BY <1>8, <2>1, <3>2, RegistersAre
      <4>3. /\ (v + w) % (2 * Half[ty]) = (Signed(v, ty) + Signed(w, ty)) % (2 * Half[ty])
            /\ (v - w) % (2 * Half[ty]) = (Signed(v, ty) - Signed(w, ty)) % (2 * Half[ty])
            /\ (v + w) % (2 * Half[ty]) \in Patterns(ty) /\ (v - w) % (2 * Half[ty]) \in Patterns(ty)
        BY <3>2, <4>2, WrapsAlike
      <4>4. ASSUME ~tru PROVE Number(z, t) = Meaning(e)
        <5>1. t # "BOOL" /\ resultTypes[r] # "BOOL"
          <6>1. t # "BOOL" /\ ty # "i1"
            BY <4>4, <1>8, TypesAre
          <6>2. resultTypes[r] \in ValueTypes /\ DcdsToLLVMType[resultTypes[r]] # "i1"
            BY <6>1, <1>11, OperandIs
          <6> QED BY <6>1, <6>2, TypesAre
        <5>2. a = Signed(v, ty) /\ b = Signed(w, ty)
          BY <1>11, <2>1, <3>2, <4>4, <5>1 DEF Number
        <5>3. Number(z, t) = Signed(z, ty)
          BY <3>2, <5>1 DEF Number
        <5>4. Meaning(e) = IF op = "Add" THEN Signed((a + b) % (2 * Half[ty]), ty)
                           ELSE Signed((a - b) % (2 * Half[ty]), ty)
          BY <1>7, <3>2 DEF Wrapped
        <5>5. z = IF op = "Add" THEN (a + b) % (2 * Half[ty]) ELSE (a - b) % (2 * Half[ty])
          BY <4>1, <4>3, <5>2, Zenon
        <5> QED BY <5>3, <5>4, <5>5, Zenon
      <4>5. z \in Patterns(ty)
        BY <4>1, <4>3, Zenon
      <4> QED BY <4>2, <4>4, <4>5
    <3> QED BY <3>1, <3>2
  <2> HIDE DEF z
  <2>5. [number |-> Meaning(e), supported |-> Supported(e), truths |-> OnTruths(e)] \in [number : Int, supported : BOOLEAN, truths : BOOLEAN]
    BY <1>5, <1>6, <1>7, <1>8, <1>9
  <2>6. Visit(e).val = z
    BY DEF z
  <2> QED BY <1>1, <1>2, <1>3, <1>5, <1>6, <1>8, <1>11, <2>3, <2>4, <2>5, <2>6 DEF NodeRight, Right
<1> QED BY <1>8, <1>10, <1>11
\* Truth values are compiled right.
LEMMA TruthRight ==
  ASSUME NEW e, e.op \notin Addressed, ResultType(e) = "BOOL",
         NEW p \in BOOLEAN, NEW q \in BOOLEAN, NEW sup \in BOOLEAN, NEW tru \in BOOLEAN,
         Supported(e) = sup, OnTruths(e) = tru, Meaning(e) = IF q THEN 1 ELSE 0,
         Visit(e) = IF sup THEN Bool(p) ELSE Nothing, sup /\ ~tru => p = q
  PROVE NodeRight(e)
<1> DEFINE z == IF p THEN 1 ELSE 0
<1>1. Bool(p) = Value("i1", z) /\ Value("i1", z).val = z
  BY AnswersDiffer DEF Bool
<1>2. z \in Registers("i1") /\ Number(z, "BOOL") = z /\ DcdsToLLVMType["BOOL"] = "i1" /\ "BOOL" \in ValueTypes
  BY TypesAre DEF Number
<1>3. [number |-> Meaning(e), supported |-> Supported(e), truths |-> OnTruths(e)]
        \in [number : Int, supported : BOOLEAN, truths : BOOLEAN]
  OBVIOUS
<1>4. sup /\ ~tru => z = Meaning(e)
  OBVIOUS
<1> HIDE DEF z
<1> QED BY <1>1, <1>2, <1>3, <1>4 DEF NodeRight, Right

\* What comparisons compare.
LEMMA OperandsAre ==
  ASSUME NEW l, NEW r, ExprRight(l), ExprRight(r), meanings[l].supported, meanings[r].supported,
         DcdsToLLVMType[resultTypes[l]] = DcdsToLLVMType[resultTypes[r]],
         NEW ty, ty = DcdsToLLVMType[resultTypes[l]]
  PROVE /\ SameType(OperandValue(l), OperandValue(r)) /\ ty \in LLVMTypes
        /\ OperandValue(l) = Value(ty, visits[l].val) /\ OperandValue(r) = Value(ty, visits[r].val)
        /\ visits[l].val \in Registers(ty) /\ visits[r].val \in Registers(ty)
        /\ visits[l].val \in Int /\ visits[r].val \in Int
        /\ resultTypes[l] = "BOOL" <=> resultTypes[r] = "BOOL"
        /\ resultTypes[l] = "BOOL" <=> ty = "i1"
        /\ ~meanings[l].truths => Number(visits[l].val, resultTypes[l]) = meanings[l].number
        /\ ~meanings[r].truths => Number(visits[r].val, resultTypes[r]) = meanings[r].number
<1>1. /\ OperandValue(l) = Value(ty, visits[l].val) /\ OperandValue(r) = Value(ty, visits[r].val)
      /\ resultTypes[l] \in ValueTypes /\ resultTypes[r] \in ValueTypes
      /\ visits[l].val \in Registers(ty) /\ visits[r].val \in Registers(ty)
      /\ visits[l].val \in Int /\ visits[r].val \in Int /\ ty \in LLVMTypes
      /\ ~meanings[l].truths => Number(visits[l].val, resultTypes[l]) = meanings[l].number
      /\ ~meanings[r].truths => Number(visits[r].val, resultTypes[r]) = meanings[r].number
  BY OperandIs
<1>2. SameType(OperandValue(l), OperandValue(r))
  BY <1>1, AnswersDiffer DEF SameType
<1>3. /\ resultTypes[l] = "BOOL" <=> resultTypes[r] = "BOOL"
      /\ resultTypes[l] = "BOOL" <=> ty = "i1"
  BY <1>1, TypesAre
<1> QED BY <1>1, <1>2, <1>3

\* Without support, nothing comes of a pair of operands.
LEMMA OperandsDiffer ==
  ASSUME NEW l, NEW r, ExprRight(l), ExprRight(r),
         ~(/\ meanings[l].supported /\ meanings[r].supported
           /\ DcdsToLLVMType[resultTypes[l]] = DcdsToLLVMType[resultTypes[r]])
  PROVE ~SameType(OperandValue(l), OperandValue(r))
<1>1. /\ OperandValue(l) = IF meanings[l].supported THEN Value(DcdsToLLVMType[resultTypes[l]], visits[l].val) ELSE Nothing
      /\ OperandValue(r) = IF meanings[r].supported THEN Value(DcdsToLLVMType[resultTypes[r]], visits[r].val) ELSE Nothing
  BY OperandIs
<1> QED BY <1>1, AnswersDiffer DEF SameType

\* Comparisons by order are compiled right,
LEMMA OrderingRight ==
  ASSUME NEW op \in Ordering, NEW l, NEW r, ExprRight(l), ExprRight(r),
         NEW e, e = [op |-> op, left |-> l, right |-> r]
  PROVE NodeRight(e)
<1> DEFINE t == resultTypes[l]
           ty == DcdsToLLVMType[t]
           sup == meanings[l].supported /\ meanings[r].supported /\ ty = DcdsToLLVMType[resultTypes[r]]
           tru == meanings[l].truths \/ meanings[r].truths \/ t = "BOOL"
           a == meanings[l].number
           b == meanings[r].number
           Compared(x, y) == CASE op = "GreaterThan"          -> x > y
                               [] op = "GreaterThanOrEqualTo" -> x >= y
                               [] op = "LessThan"             -> x < y
                               [] op = "LessThanOrEqualTo"    -> x <= y
           v == IF ty \in Integral THEN Signed(visits[l].val, ty) ELSE visits[l].val
           w == IF ty \in Integral THEN Signed(visits[r].val, ty) ELSE visits[r].val
<1>1. e.op = op /\ e.left = l /\ e.right = r
  OBVIOUS
<1>2. /\ op \notin Leafs /\ op \notin Addressed /\ op \notin ConstantOrValue /\ op \in Binary
      /\ op \notin Arithmetic /\ op \notin Equality /\ op \notin Nullity /\ op # "IsEven"
      /\ op = "GreaterThan" \/ op = "GreaterThanOrEqualTo" \/ op = "LessThan" \/ op = "LessThanOrEqualTo"
  BY DEF Arithmetic, Leafs, Addressed, ConstantOrValue, Binary, Equality, Ordering, Nullity
<1>3. ResultType(e) = "BOOL"
  BY <1>1, <1>2 DEF ResultType
<1>4. Visit(e) = VisitOrdering(op, OperandValue(l), OperandValue(r))
  BY <1>1, <1>2 DEF Visit
<1>5. Supported(e) = sup
  BY <1>1, <1>2 DEF Supported
<1>6. OnTruths(e) = tru
  BY <1>1, <1>2 DEF OnTruths
<1>7. a \in Int /\ b \in Int /\ sup \in BOOLEAN /\ tru \in BOOLEAN
  BY OperandIs
<1>8. Meaning(e) = IF Compared(a, b) THEN 1 ELSE 0
  BY <1>1, <1>2, <1>3 DEF Meaning
<1>9. \A x, y \in Int : Compared(x, y) \in BOOLEAN
  <2> TAKE x, y \in Int
  <2>1. (x > y) \in BOOLEAN /\ (x >= y) \in BOOLEAN /\ (x < y) \in BOOLEAN /\ (x <= y) \in BOOLEAN
    OBVIOUS
  <2>2. op = "GreaterThan" => Compared(x, y) = (x > y)
    OBVIOUS
  <2>3. op = "GreaterThanOrEqualTo" => Compared(x, y) = (x >= y)
    OBVIOUS
  <2>4. op = "LessThan" => Compared(x, y) = (x < y)
    OBVIOUS
  <2>5. op = "LessThanOrEqualTo" => Compared(x, y) = (x <= y)
    OBVIOUS
  <2> HIDE DEF Compared
  <2> QED BY <1>2, <2>1, <2>2, <2>3, <2>4, <2>5
<1>10. CASE ~sup
  <2>1. Visit(e) = Nothing
    BY <1>4, <1>10, OperandsDiffer DEF VisitOrdering
  <2>2. Compared(a, b) \in BOOLEAN
    BY <1>7, <1>9
  <2> HIDE DEF Compared, sup, tru
  <2> QED BY <1>1, <1>2, <1>3, <1>5, <1>6, <1>7, <1>8, <1>10, <2>1, <2>2, TruthRight
<1>11. CASE sup
  <2>1. /\ SameType(OperandValue(l), OperandValue(r)) /\ ty \in LLVMTypes
        /\ OperandValue(l) = Value(ty, visits[l].val) /\ OperandValue(r) = Value(ty, visits[r].val)
        /\ visits[l].val \in Registers(ty) /\ visits[r].val \in Registers(ty)
        /\ visits[l].val \in Int /\ visits[r].val \in Int
        /\ t = "BOOL" <=> resultTypes[r] = "BOOL"
        /\ ~meanings[l].truths => Number(visits[l].val, t) = a
        /\ ~meanings[r].truths => Number(visits[r].val, resultTypes[r]) = b
    BY <1>11, OperandsAre
  <2>2. Visit(e) = Bool(Compared(v, w))
    <3>1. OperandValue(l).ty = ty /\ OperandValue(r).ty = ty /\ OperandValue(l).val = visits[l].val /\ OperandValue(r).val = visits[r].val
      BY <2>1, AnswersDiffer
    <3> QED BY <1>4, <2>1, <3>1, Zenon DEF VisitOrdering
  <2>3. v \in Int /\ w \in Int
    BY <2>1, HalfIs DEF Signed
  <2>4. ~tru => v = a /\ w = b
    BY <1>11, <2>1 DEF Number
  <2>5. Compared(a, b) \in BOOLEAN /\ Compared(v, w) \in BOOLEAN
    BY <1>7, <1>9, <2>3
  <2>6. ~tru => Compared(v, w) = Compared(a, b)
    BY <2>4
  <2> HIDE DEF Compared, sup, tru, v, w
  <2> QED BY <1>1, <1>2, <1>3, <1>5, <1>6, <1>7, <1>8, <1>11, <2>2, <2>5, <2>6, TruthRight
<1> QED BY <1>7, <1>10, <1>11

\* those for equality,
LEMMA EqualityRight ==
  ASSUME NEW op \in Equality, NEW l, NEW r, ExprRight(l), ExprRight(r),
         NEW e, e = [op |-> op, left |-> l, right |-> r]
  PROVE NodeRight(e)
<1> DEFINE t == resultTypes[l]
           ty == DcdsToLLVMType[t]
           same == meanings[l].supported /\ meanings[r].supported /\ ty = DcdsToLLVMType[resultTypes[r]]
           sup == same /\ ty \in Integral
           tru == meanings[l].truths \/ meanings[r].truths
           a == meanings[l].number
           b == meanings[r].number
           v == visits[l].val
           w == visits[r].val
           p == (v = w) <=> (op = "Equal")
           q == (a = b) <=> (op = "Equal")
<1>1. e.op = op /\ e.left = l /\ e.right = r
  OBVIOUS
<1>2. /\ op \notin Leafs /\ op \notin Addressed /\ op \notin ConstantOrValue /\ op \in Binary
      /\ op \notin Arithmetic /\ op \notin Ordering /\ op \notin Nullity /\ op # "IsEven"
      /\ op = "Equal" \/ op = "NotEqual"
  BY DEF Arithmetic, Leafs, Addressed, ConstantOrValue, Binary, Equality, Ordering, Nullity
<1>3. ResultType(e) = "BOOL"
  BY <1>1, <1>2 DEF ResultType
<1>4. Visit(e) = VisitEquality(op, OperandValue(l), OperandValue(r))
  BY <1>1, <1>2 DEF Visit
<1>5. Supported(e) = sup
  BY <1>1, <1>2 DEF Supported
<1>6. OnTruths(e) = tru
  BY <1>1, <1>2, OperandIs DEF OnTruths
<1>7. a \in Int /\ b \in Int /\ same \in BOOLEAN /\ sup \in BOOLEAN /\ tru \in BOOLEAN /\ p \in BOOLEAN /\ q \in BOOLEAN
  BY OperandIs
<1>8. Meaning(e) = IF q THEN 1 ELSE 0
  BY <1>1, <1>2, <1>3 DEF Meaning
<1>9. CASE ~same
  <2>1. Visit(e) = Nothing
    BY <1>4, <1>9, OperandsDiffer DEF VisitEquality
  <2>2. ~sup
    BY <1>9
  <2> HIDE DEF p, q, sup, tru
  <2> QED BY <1>1, <1>2, <1>3, <1>5, <1>6, <1>7, <1>8, <2>1, <2>2, TruthRight
<1>10. CASE same
  <2>1. /\ SameType(OperandValue(l), OperandValue(r)) /\ ty \in LLVMTypes
        /\ OperandValue(l) = Value(ty, v) /\ OperandValue(r) = Value(ty, w)
        /\ v \in Registers(ty) /\ w \in Registers(ty) /\ v \in Int /\ w \in Int
        /\ t = "BOOL" <=> resultTypes[r] = "BOOL"
        /\ ~meanings[l].truths => Number(v, t) = a
        /\ ~meanings[r].truths => Number(w, resultTypes[r]) = b
    BY <1>10, OperandsAre
  <2>2. Visit(e) = IF sup THEN Bool(p) ELSE Nothing
    BY <1>4, <1>10, <2>1, AnswersDiffer DEF VisitEquality
  <2>3. ASSUME sup, ~tru PROVE p = q
    <3>1. v \in Patterns(ty) /\ w \in Patterns(ty)
      BY <2>1, <2>3, RegistersAre
    <3>2. v = w <=> Signed(v, ty) = Signed(w, ty)
      BY <2>3, <3>1, SignedIs
    <3>3. CASE t = "BOOL"
      BY <2>1, <2>3, <3>3 DEF Number
    <3>4. CASE t # "BOOL"
      <4>1. a = Signed(v, ty) /\ b = Signed(w, ty)
        BY <1>10, <2>1, <2>3, <3>4 DEF Number
      <4> QED BY <3>2, <4>1
    <3> QED BY <3>3, <3>4
  <2> HIDE DEF p, q, sup, tru
  <2> QED BY <1>1, <1>2, <1>3, <1>5, <1>6, <1>7, <1>8, <2>2, <2>3, TruthRight
<1> QED BY <1>7, <1>9, <1>10
\* and tests for null,
LEMMA NullityRight ==
  ASSUME NEW op \in Nullity, NEW x, ExprRight(x), NEW e, e = [op |-> op, expr |-> x]
  PROVE NodeRight(e)
<1> DEFINE t == resultTypes[x]
           ty == DcdsToLLVMType[t]
           memory == expressions[x].op \in Addressed
           sup == memory /\ ty = "i64"
           tru == meanings[x].truths
           a == meanings[x].number
           v == visits[x].val
           p == (v = 0) <=> (op = "IsNull")
           q == (a = 0) <=> (op = "IsNull")
<1>1. e.op = op /\ e.expr = x
  OBVIOUS
<1>2. /\ op \notin Leafs /\ op \notin Addressed /\ op \notin ConstantOrValue /\ op \notin Binary
      /\ op \notin Arithmetic /\ op \notin Ordering /\ op \notin Equality /\ op # "IsEven"
      /\ op = "IsNull" \/ op = "IsNotNull"
  BY DEF Arithmetic, Leafs, Addressed, ConstantOrValue, Binary, Equality, Ordering, Nullity
<1>3. ResultType(e) = "BOOL"
  BY <1>1, <1>2 DEF ResultType
<1>4. Visit(e) = VisitNullity(op, visits[x])
  BY <1>1, <1>2 DEF Visit
<1>5. Supported(e) = sup
  BY <1>1, <1>2 DEF Supported
<1>6. OnTruths(e) = tru
  BY <1>1, <1>2, OperandIs DEF OnTruths
<1>7. a \in Int /\ sup \in BOOLEAN /\ tru \in BOOLEAN /\ p \in BOOLEAN /\ q \in BOOLEAN
  BY OperandIs
<1>8. Meaning(e) = IF q THEN 1 ELSE 0
  BY <1>1, <1>2, <1>3 DEF Meaning
<1>9. /\ memory => meanings[x].supported /\ visits[x] = Address(ty, v)
      /\ ~memory => visits[x] = Value(ty, v) \/ visits[x] = Nothing
  BY DEF ExprRight, Right
<1>10. Visit(e) = IF sup THEN Bool(p) ELSE Nothing
  <2>1. CASE sup
    <3>1. CreateLoad("i64", visits[x]) = Value("i64", v)
      BY <1>9, <2>1, AnswersDiffer DEF CreateLoad
    <3> QED BY <1>4, <2>1, <3>1, AnswersDiffer DEF VisitNullity
  <2>2. CASE ~sup
    <3>1. CreateLoad("i64", visits[x]) = Nothing
      BY <1>9, <2>2, AnswersDiffer DEF CreateLoad
    <3> QED BY <1>4, <2>2, <3>1 DEF VisitNullity
  <2> QED BY <2>1, <2>2
<1>11. ASSUME sup, ~tru PROVE p = q
  <2>1. ty = "i64" /\ "i64" \in Integral /\ "i64" \in LLVMTypes /\ t # "BOOL"
    BY <1>11, TypesAre DEF Integral, LLVMTypes
  <2>2. v \in Patterns(ty) /\ Number(v, t) = a
    BY <1>9, <1>11, <2>1, OperandIs, RegistersAre
  <2>3. a = Signed(v, ty)
    BY <2>1, <2>2 DEF Number
  <2>4. v = 0 <=> Signed(v, ty) = 0
    BY <2>1, <2>2, SignedIs
  <2> QED BY <2>3, <2>4
<1> HIDE DEF p, q, sup, tru
<1> QED BY <1>1, <1>2, <1>3, <1>5, <1>6, <1>7, <1>8, <1>10, <1>11, TruthRight

\* and for evenness.
LEMMA EvennessRight ==
  ASSUME NEW x, ExprRight(x), NEW e, e = [op |-> "IsEven", expr |-> x], Constructs(e)
  PROVE NodeRight(e)
<1> DEFINE t == resultTypes[x]
           ty == DcdsToLLVMType[t]
           memory == expressions[x].op \in Addressed
           sup == meanings[x].supported /\ ~memory
           tru == meanings[x].truths
           a == meanings[x].number
           v == visits[x].val
           p == v % 2 = 0
           q == a % 2 = 0
<1>1. e.op = "IsEven" /\ e.expr = x
  OBVIOUS
<1>2. /\ "IsEven" \notin Leafs /\ "IsEven" \notin Addressed /\ "IsEven" \notin ConstantOrValue
      /\ "IsEven" \notin Binary /\ "IsEven" \notin Arithmetic /\ "IsEven" \notin Ordering
      /\ "IsEven" \notin Equality /\ "IsEven" \notin Nullity
  BY DEF Arithmetic, Leafs, Addressed, ConstantOrValue, Binary, Equality, Ordering, Nullity
<1>3. ResultType(e) = "BOOL"
  BY <1>1, <1>2 DEF ResultType
<1>4. Visit(e) = VisitIsEven(visits[x])
  BY <1>1, <1>2 DEF Visit
<1>5. Supported(e) = sup
  BY <1>1, <1>2 DEF Supported
<1>6. OnTruths(e) = tru
  BY <1>1, <1>2, OperandIs DEF OnTruths
<1>7. a \in Int /\ sup \in BOOLEAN /\ tru \in BOOLEAN /\ p \in BOOLEAN /\ q \in BOOLEAN
  BY OperandIs
<1>8. Meaning(e) = IF q THEN 1 ELSE 0
  BY <1>1, <1>2, <1>3 DEF Meaning
<1>9. /\ sup => visits[x] = Value(ty, v)
      /\ ~sup => visits[x] = Address(ty, v) \/ visits[x] = Nothing
  BY DEF ExprRight, Right
<1>10. t = "INT64" /\ ty = "i64" /\ ty \in Integral /\ ty \in LLVMTypes
  BY <1>1, TypesAre DEF Constructs, Integral, LLVMTypes
<1>11. Visit(e) = IF sup THEN Bool(p) ELSE Nothing
  BY <1>4, <1>7, <1>9, <1>10, AnswersDiffer DEF VisitIsEven
<1>12. ASSUME sup, ~tru PROVE p = q
  <2>1. v \in Patterns(ty) /\ Number(v, t) = a
    BY <1>10, <1>12, OperandIs, RegistersAre
  <2>2. a = Signed(v, ty)
    BY <1>10, <2>1 DEF Number
  <2>3. v % 2 = Signed(v, ty) % 2
    BY <1>10, <2>1, SignedIs
  <2> QED BY <2>2, <2>3
<1> HIDE DEF p, q, sup, tru
<1> QED BY <1>1, <1>2, <1>3, <1>5, <1>6, <1>7, <1>8, <1>11, <1>12, TruthRight

\* Leaves are compiled right.
LEMMA LeafRight ==
  ASSUME NEW e \in Leaves
  PROVE NodeRight(e)
<1> DEFINE t == e.type
           ty == DcdsToLLVMType[t]
<1>1. /\ e.op \in Leafs /\ t \in ValueTypes /\ e.val \in Int /\ e.val \in Registers(ty)
  BY ExpressionsAssumption
<1>2. e.op \in Addressed \/ e.op \in ConstantOrValue
  BY <1>1 DEF Leafs
<1>3. ~(e.op \in Addressed /\ e.op \in ConstantOrValue)
  BY DEF Addressed, ConstantOrValue
<1>4. e.op \notin Binary /\ e.op \notin Arithmetic /\ e.op \notin Ordering /\ e.op \notin Equality /\ e.op \notin Nullity /\ e.op # "IsEven"
  BY <1>1 DEF Arithmetic, Leafs, Addressed, ConstantOrValue, Binary, Equality, Ordering, Nullity
<1>5. ResultType(e) = t
  BY <1>1, <1>4 DEF ResultType
<1>6. Visit(e) = IF e.op \in Addressed THEN Address(ty, e.val) ELSE Value(ty, e.val)
  BY <1>2, <1>3, <1>4 DEF Visit
<1>7. Supported(e) = TRUE
  BY <1>1, <1>4 DEF Supported
<1>8. OnTruths(e) = FALSE
  BY <1>1, <1>4 DEF OnTruths
<1>9. Meaning(e) = Number(e.val, t)
  <2>1. e.op \notin {"Add", "Subtract", "GreaterThan", "GreaterThanOrEqualTo", "LessThan", "LessThanOrEqualTo",
                     "Equal", "NotEqual", "IsNull", "IsNotNull", "IsEven"}
    BY <1>4 DEF Binary, Arithmetic, Ordering, Equality, Nullity
  <2> QED BY <1>1, <2>1 DEF Meaning
<1>10. Number(e.val, t) \in Int
  BY <1>1, HalfIs DEF Number, Signed
<1>11. Visit(e).val = e.val
  BY <1>6, AnswersDiffer
<1> HIDE DEF t, ty
<1>12. [number |-> Meaning(e), supported |-> Supported(e), truths |-> OnTruths(e)]
         \in [number : Int, supported : BOOLEAN, truths : BOOLEAN]
  BY <1>7, <1>8, <1>9, <1>10
<1> QED BY <1>1, <1>5, <1>6, <1>7, <1>8, <1>9, <1>11, <1>12 DEF NodeRight, Right, t, ty
\* What is kept of expressions.
Nodes    == Leaves \cup [op : Unary, expr : Nat] \cup [op : Binary, left : Nat, right : Nat]
Answers  == [kind : {"value", "address", "nothing"}, ty : LLVMTypes \cup {""}, val : Int]
Meanings == [number : Int, supported : BOOLEAN, truths : BOOLEAN]

\* All expressions constructed are compiled right.
ExprInv ==
  /\ expressions \in Seq(Nodes) /\ resultTypes \in Seq(ValueTypes)
  /\ visits \in Seq(Answers) /\ meanings \in Seq(Meanings)
  /\ Len(resultTypes) = Len(expressions) /\ Len(visits) = Len(expressions)
  /\ Len(meanings) = Len(expressions)
  /\ \A i \in 1..Len(expressions) : ExprRight(i)

\* What is answered, if right.
LEMMA AnswerIs ==
  ASSUME NEW memory, NEW type, NEW answer, NEW means, Right(memory, type, answer, means)
  PROVE /\ type \in ValueTypes /\ means \in Meanings /\ answer \in Answers
        /\ answer # Nothing => /\ answer \in [kind : {"value", "address"}, ty : LLVMTypes, val : Int]
                               /\ answer.val \in Registers(answer.ty)
<1> DEFINE ty == DcdsToLLVMType[type]
           v == answer.val
<1>1. type \in ValueTypes /\ means \in Meanings
  BY DEF Right, Meanings
<1>2. ty \in LLVMTypes /\ (v \in Registers(ty) => v \in Int)
  BY <1>1, TypesAre, RegistersAre
<1>3. \/ v \in Registers(ty) /\ (answer = Address(ty, v) \/ answer = Value(ty, v))
      \/ answer = Nothing
  BY DEF Right
<1> HIDE DEF ty, v
<1>4. ASSUME answer # Nothing
      PROVE answer \in [kind : {"value", "address"}, ty : LLVMTypes, val : Int] /\ answer.ty = ty
  <2>1. v \in Int /\ (answer = Address(ty, v) \/ answer = Value(ty, v))
    BY <1>2, <1>3, <1>4
  <2>2. CASE answer = Address(ty, v)
    BY <1>2, <2>1, <2>2 DEF Address
  <2>3. CASE answer = Value(ty, v)
    BY <1>2, <2>1, <2>3 DEF Value
  <2> QED BY <2>1, <2>2, <2>3
<1>5. answer \in Answers
  <2>1. CASE answer = Nothing
    <3>1. Nothing \in Answers
      BY DEF Nothing, Answers
    <3> QED BY <2>1, <3>1
  <2>2. CASE answer # Nothing
    BY <1>4, <2>2 DEF Answers
  <2> QED BY <2>1, <2>2
<1>6. answer # Nothing => answer.val \in Registers(answer.ty)
  BY <1>3, <1>4 DEF v
<1> QED BY <1>1, <1>4, <1>5, <1>6

\* What is known of an expression that is about to be constructed.
LEMMA NodeKept ==
  ASSUME NEW e, NodeRight(e)
  PROVE /\ ResultType(e) \in ValueTypes /\ Visit(e) \in Answers
        /\ [number |-> Meaning(e), supported |-> Supported(e), truths |-> OnTruths(e)] \in Meanings
BY AnswerIs DEF NodeRight

\* A construction keeps the invariant.
LEMMA ConstructOn ==
  ASSUME ExprInv, NEW e \in Nodes, NodeRight(e), Construct(e)
  PROVE ExprInv'
<1> DEFINE n == Len(expressions)
           m == [number |-> Meaning(e), supported |-> Supported(e), truths |-> OnTruths(e)]
<1>1. PICK t, a : t = ResultType(e) /\ a = Visit(e)
  OBVIOUS
<1>2. t \in ValueTypes /\ a \in Answers /\ m \in Meanings
  BY <1>1, NodeKept
<1>3. /\ expressions' = Append(expressions, e) /\ resultTypes' = Append(resultTypes, t)
      /\ visits' = Append(visits, a) /\ meanings' = Append(meanings, m)
  BY <1>1 DEF Construct
<1>4. Right(e.op \in Addressed, t, a, m)
  BY <1>1 DEF NodeRight
<1> HIDE DEF m
<1>5. /\ expressions \in Seq(Nodes) /\ resultTypes \in Seq(ValueTypes) /\ visits \in Seq(Answers) /\ meanings \in Seq(Meanings)
      /\ n \in Nat /\ Len(resultTypes) = n /\ Len(visits) = n /\ Len(meanings) = n
      /\ \A i \in 1..n : ExprRight(i)
  BY LenProperties DEF ExprInv
<1>6. /\ expressions' \in Seq(Nodes) /\ Len(expressions') = n + 1 /\ expressions'[n + 1] = e
      /\ \A i \in 1..n : expressions'[i] = expressions[i]
  BY <1>3, <1>5, AppendProperties
<1>7. /\ resultTypes' \in Seq(ValueTypes) /\ Len(resultTypes') = n + 1 /\ resultTypes'[n + 1] = t
      /\ \A i \in 1..n : resultTypes'[i] = resultTypes[i]
  BY <1>2, <1>3, <1>5, AppendProperties
<1>8. /\ visits' \in Seq(Answers) /\ Len(visits') = n + 1 /\ visits'[n + 1] = a
      /\ \A i \in 1..n : visits'[i] = visits[i]
  BY <1>2, <1>3, <1>5, AppendProperties
<1>9. /\ meanings' \in Seq(Meanings) /\ Len(meanings') = n + 1 /\ meanings'[n + 1] = m
      /\ \A i \in 1..n : meanings'[i] = meanings[i]
  BY <1>2, <1>3, <1>5, AppendProperties
<1> HIDE DEF n
<1>10. ASSUME NEW i \in 1..(n + 1)
       PROVE Right(expressions'[i].op \in Addressed, resultTypes'[i], visits'[i], meanings'[i])
  <2>1. CASE i = n + 1
    BY <1>4, <1>6, <1>7, <1>8, <1>9, <2>1
  <2>2. CASE i # n + 1
    <3>1. i \in 1..n
      BY <1>5, <2>2
    <3>2. Right(expressions[i].op \in Addressed, resultTypes[i], visits[i], meanings[i])
      BY <1>5, <3>1 DEF ExprRight
    <3> QED BY <1>6, <1>7, <1>8, <1>9, <3>1, <3>2
  <2> QED BY <2>1, <2>2
<1>11. \A i \in 1..(n + 1) : ExprRight(i)'
  BY <1>10 DEF ExprRight, Right, Number, Address, Value, Nothing, Registers, Patterns, Signed
<1> QED BY <1>6, <1>7, <1>8, <1>9, <1>11 DEF ExprInv, Nodes, Answers, Meanings

\* Every construction is compiled right.
LEMMA ExprInvNext ==
  ASSUME ExprInv, [ExprNext]_exprvars
  PROVE ExprInv'
<1>1. Len(expressions) \in Nat /\ DOMAIN expressions = 1..Len(expressions)
  BY LenProperties DEF ExprInv
<1>2. CASE ConstructLeaf
  <2>1. PICK e \in Leaves : Construct(e)
    BY <1>2 DEF ConstructLeaf
  <2> QED BY <2>1, LeafRight, ConstructOn DEF Nodes
<1>3. CASE ConstructUnary
  <2>1. PICK op \in Unary, x \in DOMAIN expressions : Construct([op |-> op, expr |-> x])
    BY <1>3 DEF ConstructUnary
  <2>2. PICK e : e = [op |-> op, expr |-> x]
    OBVIOUS
  <2>3. ExprRight(x) /\ e \in Nodes /\ Constructs(e) /\ Construct(e)
    BY <1>1, <2>1, <2>2 DEF ExprInv, Nodes, Construct
  <2>4. op \in Nullity \/ op = "IsEven"
    BY DEF Unary
  <2>5. NodeRight(e)
    BY <2>2, <2>3, <2>4, NullityRight, EvennessRight
  <2> QED BY <2>3, <2>5, ConstructOn
<1>4. CASE ConstructBinary
  <2>1. PICK op \in Binary, l \in DOMAIN expressions, r \in DOMAIN expressions :
          Construct([op |-> op, left |-> l, right |-> r])
    BY <1>4 DEF ConstructBinary
  <2>2. PICK e : e = [op |-> op, left |-> l, right |-> r]
    OBVIOUS
  <2>3. ExprRight(l) /\ ExprRight(r) /\ e \in Nodes /\ Construct(e)
    BY <1>1, <2>1, <2>2 DEF ExprInv, Nodes
  <2>4. op \in Arithmetic \/ op \in Ordering \/ op \in Equality
    BY DEF Binary
  <2>5. NodeRight(e)
    BY <2>2, <2>3, <2>4, ArithmeticRight, OrderingRight, EqualityRight
  <2> QED BY <2>3, <2>5, ConstructOn
<1>5. CASE UNCHANGED exprvars
  BY <1>5 DEF exprvars, ExprInv, ExprRight, Right, Number, Address, Value, Nothing, Registers, Patterns, Signed,
              Nodes, Answers, Meanings
<1> QED BY <1>2, <1>3, <1>4, <1>5 DEF ExprNext

\* Of every expression that is constructed, what the visitor answers is right.
THEOREM ExprInvAlways == ExprSpec => []ExprInv
<1>1. ExprInit => ExprInv
  BY DEF ExprInit, ExprInv
<1>2. ExprInv /\ [ExprNext]_exprvars => ExprInv'
  BY ExprInvNext
<1> QED BY <1>1, <1>2, PTL DEF ExprSpec

\* Whatever expressions are constructed, a visit answers with a register of an LLVM type or the address
\* of one, or not at all.
THEOREM ExprTypeCorrect == ExprSpec => []ExprTypeOK
<1>1. ASSUME ExprInv PROVE ExprTypeOK
  <2>1. Len(expressions) \in Nat /\ DOMAIN expressions = 1..Len(expressions)
    BY <1>1, LenProperties DEF ExprInv
  <2>2. ASSUME NEW i \in DOMAIN expressions
        PROVE /\ resultTypes[i] \in ValueTypes /\ meanings[i] \in [number : Int, supported : BOOLEAN, truths : BOOLEAN]
              /\ visits[i] # Nothing => /\ visits[i] \in [kind : {"value", "address"}, ty : LLVMTypes, val : Int]
                                        /\ visits[i].val \in Registers(visits[i].ty)
    <3>1. Right(expressions[i].op \in Addressed, resultTypes[i], visits[i], meanings[i])
      BY <1>1, <2>1 DEF ExprInv, ExprRight
    <3> QED BY <3>1, AnswerIs DEF Meanings
  <2> QED BY <1>1, <2>2 DEF ExprInv, ExprTypeOK
<1> QED BY <1>1, ExprInvAlways, PTL

\* Expressions of any depth, over integers of any widths: code is generated for those that are
\* supported and no others, and it computes what they mean (LLVMExpressionVisitor::visit).
THEOREM ExpressionsCompileAlways == ExprSpec => []ExpressionsCompile
<1>1. ASSUME ExprInv PROVE ExpressionsCompile
  <2>1. Len(expressions) \in Nat /\ DOMAIN expressions = 1..Len(expressions)
    BY <1>1, LenProperties DEF ExprInv
  <2> SUFFICES ASSUME NEW i \in DOMAIN expressions PROVE CompilesRight(i)
    BY DEF ExpressionsCompile
  <2> DEFINE t == resultTypes[i]
             ty == DcdsToLLVMType[t]
             v == visits[i].val
             memory == expressions[i].op \in Addressed
  <2>2. ExprRight(i)
    BY <1>1, <2>1 DEF ExprInv
  <2>3. /\ OperandValue(i) = IF meanings[i].supported THEN Value(ty, v) ELSE Nothing
        /\ meanings[i].supported \in BOOLEAN /\ t \in ValueTypes
        /\ meanings[i].supported /\ ~meanings[i].truths => Number(v, t) = meanings[i].number
    BY <2>2, OperandIs
  <2>4. /\ memory => meanings[i].supported
        /\ meanings[i].supported /\ memory => visits[i] = Address(ty, v)
        /\ meanings[i].supported /\ ~memory => visits[i] = Value(ty, v)
        /\ ~meanings[i].supported => visits[i] = Nothing
    BY <2>2 DEF ExprRight, Right
  <2>5. ty = "i1" <=> t = "BOOL"
    BY <2>3, TypesAre
  <2> HIDE DEF t, ty, v, memory
  <2>6. OperandValue(i) # Nothing <=> meanings[i].supported
    BY <2>3, AnswersDiffer
  <2>7. ConditionValue(i) = IF meanings[i].supported /\ t = "BOOL" /\ ~memory THEN OperandValue(i) ELSE Nothing
    BY <2>3, <2>4, <2>5, AnswersDiffer DEF ConditionValue
  <2>8. IterationValue(i, t) = IF memory THEN Nothing ELSE OperandValue(i)
    BY <2>3, <2>4, AnswersDiffer DEF IterationValue, ty
  <2>9. meanings[i].supported => OperandValue(i).ty = ty /\ OperandValue(i).val = v
    BY <2>3, AnswersDiffer
  <2>10. meanings[i].supported /\ ~meanings[i].truths => Number(OperandValue(i).val, t) = meanings[i].number
    BY <2>3, <2>9
  <2> QED BY <2>6, <2>7, <2>8, <2>9, <2>10 DEF CompilesRight, t, ty, memory
<1> QED BY <1>1, ExprInvAlways, PTL
==============================================================================
