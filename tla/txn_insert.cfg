SPECIFICATION Spec
CONSTANTS
  Threads = {t1, t2}
  Records = {r1, r2, r3}
  Roots = {r1, r2}
  Attributes = {a}
  Data = {Null}
  Null = Null
  Absent = Absent
  MaxLog = 2
SYMMETRY Symmetry
INVARIANTS
  TypeOK
  UndoRestores
  ReferencesLive
  CommittedClosed
