\* Two workers on one table; a restart may switch shadow mode on or off; "u" is
\* of a kind without a handler.
CONSTANTS
  Key = {"a", "u"}
  Registered = {"a"}
  Worker = {"w1", "w2"}
  Modes = {"exec", "shadow"}
  RestartReplay = TRUE
  MaxAttempts = 2
  MaxGen = 2
  MaxCrash = 1
SPECIFICATION FairSpec
CHECK_DEADLOCK FALSE
INVARIANTS
  EffectTypeOK
  RunsBounded
  DoneTookPlace
  OneRunPerGeneration
PROPERTIES
  NotRepeated
  EffectSettles
