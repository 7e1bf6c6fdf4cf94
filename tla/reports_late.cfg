SPECIFICATION ReportsSpec
CONSTANTS
  Device = {d1}
  Subscription = {a, b}
  None = None
  Validity = 2
  LastInstant = 3
  LastGeneration = 2
  Mishaps = {"lost", "late"}
  MaxEvents = 1
PROPERTY LastReadingStays
CHECK_DEADLOCK FALSE
