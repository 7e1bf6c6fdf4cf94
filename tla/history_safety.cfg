SPECIFICATION Spec
CONSTANTS
  d1 = d1
  d2 = d2
  Device = {d1}
  Panel = {}
  Collector <- Alone
  None = None
  Slack = 1
  MaxPoints = 1
  LastInstant = 6
  LastRevision = 3
  MaxSamples = 2
  Mishaps = {"lost", "restart", "full"}
  MaxEvents = 1
PROPERTIES
  RecordIsHonest
CHECK_DEADLOCK FALSE
