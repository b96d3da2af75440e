\* Two messages and a resend, a HITL pause and a crash; room for one active row.
CONSTANTS
  m1 = m1  m2 = m2  m3 = m3
  k1 = k1  k2 = k2  k3 = k3
  sess = s
  Session = {s}
  Key = {k1, k2, k3}
  NoKey = NoKey
  Cap = 1
  TTL = 1
  MaxRows = 3
  MaxNow = 0
  Sub = {m1, m2, m3}
  KeyOf <- Resend3
  Drain = Drain
  Resume = Resume
  AutoTurn = AutoTurn
  None = None
  MaxStop = 0
  MaxEdit = 0
  MaxAuto = 0
  MaxPause = 1
  MaxCrash = 1
SPECIFICATION Spec
CHECK_DEADLOCK FALSE
INVARIANTS
  FedOnce
PROPERTIES
  NeverIntoParked
