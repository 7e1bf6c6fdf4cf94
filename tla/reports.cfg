SPECIFICATION ReportsFairSpec
CONSTANTS
  Device = {d1}
  Subscription = {a, b}
  None = None
  Validity = 2
  LastInstant = 3
  LastGeneration = 2
  Mishaps = {"hiccup", "lost", "late", "restart", "signout", "delete"}
  MaxEvents = 2
INVARIANTS
  AccountHoldsReport
PROPERTIES
  NewestWins
  ReadingsArrive
CHECK_DEADLOCK FALSE
