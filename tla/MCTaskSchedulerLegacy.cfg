SPECIFICATION Spec
CONSTANTS
  HumanOnly = {}
  Under <- NoUnder
  Tasks = {"r", "a", "b"}
  Calls = {"look", "edit"}
  Parent <- LegacyParent
  MaxDepth = 2
  MaxLive = 3
  MaxSpawned = 2
  Ids <- LegacyIds
  Answers <- LegacyAnswers
  Needs <- LegacyNeeds
  ReadOnly = {"look"}
  RootGrants <- LegacyRoot
  Ceiling <- LegacyCaps
  Requestable <- LegacyCaps
  Coordination = "legacy"
  Fits = {"fits", "packs"}
  MaxTries <- LegacyTries
  Overlap = TRUE
  MayFail = {"tool", "compact"}
  MaxCrashes = 1
  MaxCancels = 0
INVARIANTS
  
  BooksBalance
  NobodyWaitsForNothing
  NoLiveOrphans
PROPERTIES
  TransitionsLegal
CHECK_DEADLOCK FALSE
