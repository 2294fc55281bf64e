SPECIFICATION Spec
CONSTANTS
  a1 = a1
  a2 = a2
  o1 = o1
  o2 = o2
  o3 = o3
  Agents = {a1}
  Ops = {o1, o2}
  calls <- WritesCalls
  workspace <- BatchWorkspace
  effect <- SharedEffect
  verdict <- WritesVerdict
  MaxCrashes = 1
  MaxPauses = 1
PROPERTIES
  UnregisteredIsKept
CHECK_DEADLOCK FALSE
