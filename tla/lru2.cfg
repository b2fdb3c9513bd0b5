SPECIFICATION Spec
CONSTANTS
  t1 = t1
  t2 = t2
  k1 = k1
  k2 = k2
  k3 = k3
  k4 = k4
  n1 = n1
  n2 = n2
  n3 = n3
  Threads = {t1, t2}
  Keys = {k1, k2, k3, k4}
  Workloads <- Chosen
  Dummies <- Three
  Nodes = {n1, n2, n3, n4}
  Null = Null
  NoThread = NoThread
  NoKey = NoKey
SYMMETRY Symmetry
INVARIANTS
  TypeOK
  ListIntact
  TouchFindsNode
PROPERTY LruSpec
