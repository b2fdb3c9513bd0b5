SPECIFICATION GenSpec
CONSTANTS
  Operations = {"PLAIN", "YIELD", "IF"}
  MaxStatements = 5
CHECK_DEADLOCK FALSE
PROPERTY TreeSpec
