SPECIFICATION FairSpec
CONSTANTS
  Tasks = {t1, t2}
  None = None
  Kinds = {"read", "query", "search", "context", "write"}
  SeedQueries = FALSE
  MaxRequests = 3
  MaxCommits = 1
  MaxFaults = 1
INVARIANTS TypeOK AnswersAreFresh FreshIsTrue
PROPERTIES RequestsEnd
CHECK_DEADLOCK FALSE
