SPECIFICATION FairSpec
CONSTANTS
  NumNotes = 2
  Parts = {"taken", "renamed", "rejected"}
  Text <- MCText
  Poison = {"rejected"}
  Writers = {"sync"}
  Local = {"sync"}
  Contents <- MCContents
  MaxFailures = 2
  BatchSize = 2
  MaxModel = 2
  MaxWrites = 2
  MaxFaults = 1
INVARIANTS TypeOK RetriesAreBounded BlameIsBounded
PROPERTIES VectorsSettle
CHECK_DEADLOCK FALSE
