SPECIFICATION Spec
CONSTANTS
  Clients = {c1, c2}
  Deployments = {"all", "split"}
  Revives = TRUE
  MaxRev = 3
  Failures = {"crash", "source", "rows", "feed", "replay"}
  MaxFaults = 1
SYMMETRY ClientSymmetry
INVARIANTS TypeOK VisibleIsCommitted FreshMeansEqual
PROPERTIES NoLostUpdate
CHECK_DEADLOCK FALSE
