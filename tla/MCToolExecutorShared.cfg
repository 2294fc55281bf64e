SPECIFICATION Spec
CONSTANTS
  a1 = a1
  a2 = a2
  o1 = o1
  o2 = o2
  o3 = o3
  Agents = {a1, a2}
  Ops = {o1, o2}
  calls <- SharedCalls
  workspace <- SharedWorkspace
  effect <- SharedEffect
  verdict <- SharedVerdict
  MaxCrashes = 1
  MaxPauses = 1
INVARIANTS
  AtMostOnce
  MutationsExclusive
  UnknownBlocksWorkspace
  FailedMeansUntouched
PROPERTIES
  FinishedIsFinal
CHECK_DEADLOCK FALSE
