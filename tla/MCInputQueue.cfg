CONSTANTS
  Session = {s1, s2}
  Key = {k1, k2}
  NoKey = NoKey
  Cap = 2
  TTL = 1
  MaxRows = 3
  MaxNow = 1
SPECIFICATION StoreSpec
SYMMETRY Sym
INVARIANTS
  StoreTypeOK
  ActiveKeyUnique
  CapRespected
PROPERTIES
  TerminalFinal
  ClaimInOrder
CHECK_DEADLOCK FALSE
