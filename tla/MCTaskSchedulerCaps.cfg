SPECIFICATION Spec
CONSTANTS
  HumanOnly = {"push"}
  Under <- TwoLevel
  Tasks = {"r", "m", "c", "d"}
  Calls = {"w1", "p1", "p2"}
  Parent <- CapsParent
  MaxDepth = 3
  MaxLive = 4
  MaxSpawned = 3
  Ids <- CapsIds
  Answers <- CapsAnswers
  Needs <- CapsNeeds
  ReadOnly = {"look"}
  RootGrants <- CapsRoot
  Ceiling <- CapsOf
  Requestable <- CapsOf
  Coordination = "legacy"
  Fits = {"fits"}
  MaxTries <- CapsTries
  Overlap = FALSE
  MayFail = {"refuse"}
  MaxCrashes = 1
  MaxCancels = 0
INVARIANTS
  GrantsCovered
  
  
CHECK_DEADLOCK FALSE
