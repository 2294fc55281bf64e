SPECIFICATION FairSpec
CONSTANTS
  a1 = a1
  a2 = a2
  user = user
  dm = dm
  peers = peers
  team = team
  calls = calls
  Agents = {a1, a2}
  User = user
  members <- TheMembers
  groups = {team, calls}
  mentionedOnly = {calls}
  Worlds <- AllWorlds
INVARIANTS
  MailKept
  SentOnce
  WithinAllocation
  SummariesChain
  NeverFatal
PROPERTIES
  DismissedIsFinal
  
CHECK_DEADLOCK FALSE
