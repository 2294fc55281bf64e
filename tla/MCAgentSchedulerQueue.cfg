SPECIFICATION FairSpec
CONSTANTS
  Agents = {a1, a2}
  Keys = {k1}
  Events = {e1}
  maxConcurrentRuns = 1
  maxBufferedOperations = 1
  maxBufferedEvents = 1
  recentEventLimit = 1
  MaxRuns = 2
  MaxRestarts = 0
  MaxSuspensions = 0
  SavesFail = FALSE
PROPERTIES
  
  EventsDelivered
CHECK_DEADLOCK FALSE
