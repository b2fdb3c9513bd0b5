SPECIFICATION Spec
CONSTANTS
  LIST = LIST
  NODE = NODE
  get = get
  set = set
  move = move
  grow = grow
  next = next
  n = n
  m = m
  Types = {LIST, NODE}
  MainTypes = {LIST, NODE}
  Attributes = {next, list}
  Constants = {list}
  Variables = {n, m}
  Main = Main
  Library <- MCLibrary
  Known = {root, old}
  Root = root
  New = {new}
  Nil = Nil
  None = None
  MaxSize = 3
  Reassign = TRUE
CHECK_DEADLOCK FALSE
INVARIANT Guarded
