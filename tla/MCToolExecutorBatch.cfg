SPECIFICATION FairSpec
CONSTANTS
  a1 = a1
  a2 = a2
  o1 = o1
  o2 = o2
  o3 = o3
  Agents = {a1}
  Ops = {o1, o2, o3}
  calls <- BatchCalls
  workspace <- BatchWorkspace
  effect <- BatchEffect
  verdict <- BatchVerdict
  MaxCrashes = 1
  MaxPauses = 0
INVARIANTS
  OutcomeTold
PROPERTIES
  Answered
CHECK_DEADLOCK FALSE
