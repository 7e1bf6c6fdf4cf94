SPECIFICATION SafetySpec
CONSTANTS
  File = {f1}
  Hour = {1}
  Body = {b1}
  Bad = Bad
  None = None
  ContextFree = TRUE
  MaxLines = 2
  Mishaps = {"stop"}
  MaxEvents = 3
INVARIANTS
  ResumesBehindWhatItRead
CHECK_DEADLOCK FALSE
