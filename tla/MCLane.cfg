\* Three tasks; the limit goes up, down or is set again, twice.
CONSTANTS
  Task = {"t1", "t2", "t3"}
  Max0 = 1
  Limits = {1, 2}
  MaxResize = 2
SPECIFICATION FairSpec
CHECK_DEADLOCK FALSE
INVARIANTS
  LaneTypeOK
  NoOrphan
  NoIdlePermit
  PermitsConserved
PROPERTIES
  Fifo
  AdmitsWithinLimit
  NoStarvation
