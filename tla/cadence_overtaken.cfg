SPECIFICATION Spec
CONSTANTS
  p1 = p1
  p2 = p2
  Provider = {p1, p2}
  Floor <- TwoFloors
  ManualFloor = 1
  RaisedFloor = 3
  RaisedSpan = 9
  BackoffStart = 2
  BackoffCap = 3
  RetryAfter = {0}
  Lifetime = 3
  Coalesce = 1
  None = None
  LastInstant = 2
  Mishaps = {"request", "elsewhere", "overtaken"}
  MaxEvents = 3
PROPERTIES
  SparesFreshReadings
CHECK_DEADLOCK FALSE
