SPECIFICATION Spec
CONSTANTS
  d1 = d1
  d2 = d2
  Device = {d1}
  Panel = {d1}
  Collector <- Alone
  None = None
  Slack = 1
  MaxPoints = 1
  LastInstant = 3
  LastRevision = 3
  MaxSamples = 2
  Mishaps = {}
  MaxEvents = 0
PROPERTIES
  LossIsSeen
CHECK_DEADLOCK FALSE
