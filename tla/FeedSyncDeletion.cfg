SPECIFICATION Spec
CONSTANTS
  Files = {f1}
  MaxRev = 2
  MaxSeq = 3
  SubBatch = 2
  MaxFaults = 1
INVARIANTS DeletedNotesAreGone
CHECK_DEADLOCK FALSE
