SPECIFICATION Spec
CONSTANTS
  p1 = p1
  p2 = p2
  Provider = {p1, p2}
  Floor <- TwoFloors
  ManualFloor = 1
  RaisedFloor = 2
  RaisedSpan = 9
  BackoffStart = 3
  BackoffCap = 4
  RetryAfter = {0, 1}
  Lifetime = 1
  Coalesce = 1
  None = None
  LastInstant = 2
  Mishaps = {"request", "elsewhere", "limited", "failed", "offline", "manual", "reset", "restart", "cut", "panicked", "absent", "emptied", "unspawned"}
  MaxEvents = 2
INVARIANTS
  RequestIsOwed
PROPERTIES
  AsksWait
  SparesFreshReadings
CHECK_DEADLOCK FALSE
