SPECIFICATION DSSpec
CONSTANTS
  Threads = {t1, t2}
  Names = {"list", "lru", "node"}
  Layouts <- MCLayouts
  IdSpace = 4
  MaxTables = 4
  NoTable = NoTable
  NoName = NoName
  NoLayout = NoLayout
  NoThread = NoThread
  Objects <- MCObjects
  Tops = {"A", "B"}
  NameOrder <- MCNameOrder
  FnOrder <- MCFnOrder
  AttrOrder <- MCAttrOrder
  Skeletons <- MCSkeletons
  Statements <- MCStatements
  Edits <- MCEdits
  MaxEdits = 1
  MaxRunEdits = 0
  MaxCalls = 3
  NoObject = NoObject
SYMMETRY Symmetry
INVARIANTS
  InsTypeOK
  OneTablePerName
  ReturnedTableRight
  CachesRight
  LayoutAgreement
PROPERTIES
  RegistrySpec
  InstancesSpec
  KeepsReached
  StaysBuildable
CHECK_DEADLOCK FALSE
