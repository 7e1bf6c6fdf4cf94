SPECIFICATION Spec
CONSTANTS
  File = {f1}
  Hour = {1, 2}
  Body = {b1}
  Bad = Bad
  None = None
  ContextFree = FALSE
  MaxLines = 2
  Mishaps <- AnythingGoes
  MaxEvents = 4
PROPERTIES
  EventuallyRead
CHECK_DEADLOCK FALSE
