SPECIFICATION FairSpec
CONSTANTS
  Files = {f1}
  Leaves = {l1, l2}
  MaxRev = 2
  MaxChanges = 3
  BatchSize = 1
  MaxFailures = 2
  BaseBackoff = 1
  MaxBackoff = 2
  Cooldown = 1
  Horizon = 1
  MaxRequests = 1
  MaxFaults = 1
INVARIANTS TypeOK AttemptsAreBounded
PROPERTIES PrunedOnlyWhenRecovered BackoffIsKept QueueSettles
CHECK_DEADLOCK FALSE
