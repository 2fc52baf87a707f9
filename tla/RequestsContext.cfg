SPECIFICATION FairSpec
CONSTANTS
  Tasks = {t1, t2}
  None = None
  Kinds = {"context", "write"}
  SeedQueries = TRUE
  MaxRequests = 2
  MaxCommits = 1
  MaxFaults = 0
PROPERTIES ContextsAreAssembled
CHECK_DEADLOCK FALSE
