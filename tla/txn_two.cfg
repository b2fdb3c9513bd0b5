SPECIFICATION FairSpec
CONSTANTS
  Threads = {t1, t2}
  Records = {r1, r2}
  Roots = {r1, r2}
  Attributes = {a}
  Data = {Null, d}
  Null = Null
  Absent = Absent
  MaxLog = 2
INVARIANTS
  LockAgreement
  ReadsStable
PROPERTIES
  StoreSpec
  AttemptEnds
  LoneCallReturns
