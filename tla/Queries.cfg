SPECIFICATION QueriesSpec
CONSTANTS
  t1 = t1
  t2 = t2
  Configs = {c1, c2}
  Invalid = Invalid
  MaxEdits = 3
  MaxSignals = 2
  Policies <- MCPolicies
  Principals = {p1, p2}
  Nobody = Nobody
  Unasked = Unasked
  Tags = {t1, t2}
  Bodies <- MCBodies
  MaxWrites = 3
  Setups <- MCSetups
  Calls <- MCCalls
  Files <- MCFiles
  Notes = {1, 2, 3, 4, 5}
  MaxTraversal = 3
  NoAnswer = NoAnswer
  HubThreshold = 2
  HubFanout = 1
  Ids = {1, 2, 3}
  RrfK = 60
  LeastLimit = 1
  LimitFactor = 2
  FloorLimit = 2
  CeilingLimit = 3
  Texts <- MCTexts
  DateOf <- MCDateOf
  PartOf <- MCPartOf
  NameOf <- MCNameOf
  Spelling <- MCSpelling
  Now = 15
  Today = 10
  MaxRows = 3
  DefaultRows = 2
  PathQuestions <- MCPathQuestions
  LevelQuestions <- MCLevelQuestions
  ContextQuestions <- MCContextQuestions
  SearchQuestions <- MCSearchQuestions
  NoteQuestions <- MCNoteQuestions
  Expressions <- MCExpressions
  Trees <- MCTrees
  TableQuestions <- MCTableQuestions
  BlockQuestions <- MCBlockQuestions
  ChunkQuestions <- MCChunkQuestions
  TitleQuestions <- MCTitleQuestions
  PatchQuestions <- MCPatchQuestions
  Width <- MCWidth
  LevelOf <- MCLevelOf
  LeastBytes = 4
  Unsafe = {"#"}
  Reserved <- MCReserved
  Date <- MCDate
  DefaultBase <- MCDefaultBase
  DefaultTemplate <- MCDefaultTemplate
  Untitled <- MCUntitled
  SlugOf <- MCSlugOf
INVARIANTS SnapshotFollowsFile GraphAnswersRight BundlesFit PlacesAreShares SearchFinds TablesAreRight ChunksKeepTheText NewTextIsPlaced CallsAreAdmitted
PROPERTIES EditsKeepTheirGrounds
CHECK_DEADLOCK FALSE
