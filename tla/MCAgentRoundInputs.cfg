SPECIFICATION FairSpec
CONSTANTS
  m1 = m1
  o1 = o1
  f1 = f1
  w1 = w1
  Ops = {o1}
  wake <- OneWake
  Inputs <- AllInputs
  Budgets <- AllBudgets
  maxInbox = 1
  maxSummaryAttempts = 1
  Bounds <- HecticOrDeep
INVARIANTS
  InputsConserved
  SourceKeepsUntilRecorded
  NothingStranded
  AlwaysRestorable
PROPERTIES
  TargetsRespected
  BatchResolved
CHECK_DEADLOCK FALSE
