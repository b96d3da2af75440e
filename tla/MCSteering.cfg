SPECIFICATION SteerFairSpec
CONSTANTS
  r1 = r1
  r2 = r2
  Runs = {r1, r2}
  Stopped = {r2}
  Old = {r2}
  Parent = Parent
  MaxCrash = 1
  MaxStop = 1
  MaxFault = 1
INVARIANTS
  SteerTypeOK
  RoutedKept
PROPERTIES
  MailboxSpec
  TurnsDeliver
CHECK_DEADLOCK FALSE
