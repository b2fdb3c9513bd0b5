SPECIFICATION EitherSpec
CONSTANTS
  Operations = {"PLAIN", "CHECK", "YIELD", "IF", "WHILE", "FOR", "DO"}
  MaxStatements = 5
  Half <- SmallHalf
  Leaves <- SomeLeaves
  MaxLeaves = 2
  MaxExpressions = 4
CHECK_DEADLOCK FALSE
INVARIANTS
  GenTypeOK
  VerifiedExactly
  ExpressionsCompile
PROPERTY RunsAsWritten
