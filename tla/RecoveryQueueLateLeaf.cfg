SPECIFICATION FairSpec
CONSTANTS
  Files = {f1}
  Leaves = {l1, l2}
  MaxRev = 1
  MaxChanges = 2
  BatchSize = 2
  MaxFailures = 2
  BaseBackoff = 1
  MaxBackoff = 2
  Cooldown = 1
  Horizon = 1
  MaxRequests = 0
  MaxFaults = 0
PROPERTIES CompleteFilesAreIndexed
CHECK_DEADLOCK FALSE
