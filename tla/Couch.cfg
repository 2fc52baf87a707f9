SPECIFICATION Spec
CONSTANTS
  Requests = {r1, r2}
  Kinds = {"create", "edit", "repair", "delete"}
  Leaves = {a, b}
  MaxRev = 3
  MaxLeafRev = 3
  MaxLen = 2
  Repeats = FALSE
  MaxFaults = 1
SYMMETRY Symmetries
INVARIANTS TypeOK NamedLeavesWereWritten DeletionIsConfirmed
PROPERTIES ActsAtomically
CHECK_DEADLOCK FALSE
