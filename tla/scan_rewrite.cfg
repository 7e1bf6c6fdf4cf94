SPECIFICATION SafetySpec
CONSTANTS
  File = {f1}
  Hour = {1}
  Body = {b1}
  Bad = Bad
  None = None
  ContextFree = TRUE
  MaxLines = 3
  Mishaps = {"rewrite", "torn"}
  MaxEvents = 6
INVARIANTS
  SkippedIsStored
CHECK_DEADLOCK FALSE
