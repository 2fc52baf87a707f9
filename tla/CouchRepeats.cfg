SPECIFICATION Spec
CONSTANTS
  Requests = {r1}
  Kinds = {"edit"}
  Leaves = {a, b}
  MaxRev = 2
  MaxLeafRev = 2
  MaxLen = 3
  Repeats = TRUE
  MaxFaults = 0
PROPERTIES EditsKeepTheRest
CHECK_DEADLOCK FALSE
