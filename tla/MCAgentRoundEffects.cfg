SPECIFICATION Spec
CONSTANTS
  m1 = m1
  o1 = o1
  f1 = f1
  w1 = w1
  Ops = {o1}
  wake <- OneWake
  Inputs <- AllInputs
  Budgets <- TwoBudgets
  maxInbox = 1
  maxSummaryAttempts = 1
  Bounds <- HecticOnly
INVARIANT
  EffectsRecorded
CHECK_DEADLOCK FALSE
