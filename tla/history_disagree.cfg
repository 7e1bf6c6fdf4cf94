SPECIFICATION Spec
CONSTANTS
  d1 = d1
  d2 = d2
  Device = {d1, d2}
  Panel = {}
  Collector <- Disagree
  None = None
  Slack = 0
  MaxPoints = 9
  LastInstant = 3
  LastRevision = 1
  MaxSamples = 1
  Mishaps = {"lost"}
  MaxEvents = 1
INVARIANTS
  TypeOK
  OffHoldsNothing
PROPERTIES
  ShortestLosesNothing
CHECK_DEADLOCK FALSE
