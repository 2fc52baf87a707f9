SPECIFICATION FairSpec
CONSTANTS
  Files = {f1, f2}
  MaxRev = 3
  MaxSeq = 4
  SubBatch = 2
  MaxFaults = 4
INVARIANTS TypeOK CursorLosesNothing DivergenceIsRedelivered
PROPERTIES ReplayKeepsCursor RegressionIsRedelivered LiveFilesConverge
CHECK_DEADLOCK FALSE
