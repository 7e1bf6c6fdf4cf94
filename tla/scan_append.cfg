SPECIFICATION Spec
CONSTANTS
  File = {f1, f2}
  Hour = {1, 2}
  Body = {b1}
  Bad = Bad
  None = None
  ContextFree = TRUE
  MaxLines = 2
  Mishaps <- OnlyGrows
  MaxEvents = 4
INVARIANTS
  SkippedIsStored
  ResumesBehindWhatItRead
  FactsFollowRecords
PROPERTIES
  CompleteIsWhole
  ApplyLosesNothing
  EventuallyMirrored
CHECK_DEADLOCK FALSE
