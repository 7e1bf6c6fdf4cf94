SPECIFICATION SafetySpec
CONSTANTS
  File = {f1}
  Hour = {1, 2}
  Body = {b1}
  Bad = Bad
  None = None
  ContextFree = FALSE
  MaxLines = 2
  Mishaps = {"rewrite"}
  MaxEvents = 4
INVARIANTS
  FactsFollowRecords
CHECK_DEADLOCK FALSE
