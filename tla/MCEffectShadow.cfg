\* Shadow mode alone.
CONSTANTS
  Key = {"a"}
  Registered = {"a"}
  Worker = {"w1"}
  Modes = {"shadow"}
  RestartReplay = TRUE
  MaxAttempts = 2
  MaxGen = 1
  MaxCrash = 0
SPECIFICATION Spec
CHECK_DEADLOCK FALSE
PROPERTIES
  ShadowMarksDone
