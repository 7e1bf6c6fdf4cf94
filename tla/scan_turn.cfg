SPECIFICATION SafetySpec
CONSTANTS
  File = {f1}
  Hour = {1, 2}
  Body = {b1}
  Bad = Bad
  None = None
  ContextFree = TRUE
  MaxLines = 2
  Mishaps = {"turn"}
  MaxEvents = 3
INVARIANTS
  SkippedIsStored
CHECK_DEADLOCK FALSE
