\* A message, its resend and an auto turn; a stop, a cancel or send-now.
CONSTANTS
  m1 = m1  m2 = m2  m3 = m3
  k1 = k1  k2 = k2  k3 = k3
  sess = s
  Session = {s}
  Key = {k1, k2, k3}
  NoKey = NoKey
  Cap = 2
  TTL = 1
  MaxRows = 2
  MaxNow = 0
  Sub = {m1, m2}
  KeyOf <- Resend2
  Drain = Drain
  Resume = Resume
  AutoTurn = AutoTurn
  None = None
  MaxStop = 1
  MaxEdit = 1
  MaxAuto = 1
  MaxPause = 0
  MaxCrash = 0
SPECIFICATION FairSpec
CHECK_DEADLOCK FALSE
INVARIANTS
  TypeOK
PROPERTIES
  ServedAfterTurn
