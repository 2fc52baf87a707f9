SPECIFICATION FairSpec
CONSTANTS
  Clients = {c1}
  Deployments = {"split"}
  Revives = FALSE
  MaxRev = 3
  Failures = {"crash", "source", "rows", "feed"}
  MaxFaults = 1
INVARIANTS UnprojectedIsPending
PROPERTIES LiveFileConverges CacheConverges
CHECK_DEADLOCK FALSE
