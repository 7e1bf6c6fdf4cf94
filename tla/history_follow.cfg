SPECIFICATION FairSpec
CONSTANTS
  d1 = d1
  d2 = d2
  Device = {d1}
  Panel = {d1}
  Collector <- Alone
  None = None
  Slack = 0
  MaxPoints = 1
  LastInstant = 1
  LastRevision = 3
  MaxSamples = 1
  Mishaps = {"lost", "restart", "full"}
  MaxEvents = 1
INVARIANTS
  OffHoldsNothing
PROPERTIES
  SwitchIsFollowed
  SettingsArrive
CHECK_DEADLOCK FALSE
