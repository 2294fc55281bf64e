SPECIFICATION Spec
CONSTANTS
  HumanOnly = {}
  Under <- NoUnder
  Tasks = {"r", "a", "b"}
  Calls = {"edit", "odd"}
  Parent <- LegacyParent
  MaxDepth = 2
  MaxLive = 3
  MaxSpawned = 2
  Ids <- LegacyIds
  Answers <- GraphAnswers
  Needs <- GraphNeeds
  ReadOnly = {"look"}
  RootGrants <- LegacyRoot
  Ceiling <- LegacyCaps
  Requestable <- LegacyCaps
  Coordination = "ai_graph"
  Fits = {"fits"}
  MaxTries <- GraphTries
  Overlap = FALSE
  MayFail = {}
  MaxCrashes = 0
  MaxCancels = 0
INVARIANTS
  StoreIsRestorable
CHECK_DEADLOCK FALSE
