SPECIFICATION RunFairSpec
CONSTANTS
  MaxGen = 3
  AnnounceRetryMax = 2
  MaxTasks = 2
  MaxDisturb = 2
INVARIANTS
  RunTypeOK
  AnnouncedOnce
PROPERTIES
  OutcomeStands
  Told
CHECK_DEADLOCK FALSE
