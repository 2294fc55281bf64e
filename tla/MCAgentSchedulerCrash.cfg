SPECIFICATION Spec
CONSTANTS
  Agents = {a1}
  Keys = {k1, k2}
  Events = {e1}
  maxConcurrentRuns = 1
  maxBufferedOperations = 2
  maxBufferedEvents = 1
  recentEventLimit = 1
  MaxRuns = 2
  MaxRestarts = 1
  MaxSuspensions = 1
  SavesFail = TRUE
INVARIANTS
  TypeOK
  StateMatchesWork
  TimerCoversInstants
  DiskInSync
  EventsConserved
  QueueIsExact
PROPERTIES
  ImplementsDelivery
CHECK_DEADLOCK FALSE
