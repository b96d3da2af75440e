SPECIFICATION FlowSpec
CONSTANTS
  a = a  b = b  c1 = c1  c2 = c2
  Steps = {a, b}
  Deps <- MCDeps
  Policy = {a}
  Callers = {c1, c2}
  MaxRetry = 1
  JudgeRetry = 1
  MaxTries = 2
  MaxReplan = 1
  MaxChild = 2
  MaxEdit = 1
  EditSteps <- MCEditSteps
SYMMETRY Symmetry
INVARIANTS FlowTypeOK
PROPERTIES TerminalStands NoChildDropped
CHECK_DEADLOCK FALSE
