SPECIFICATION Spec
CONSTANTS
  Callers = {c1}
  Slots = {s1, s2}
  Provider = {p1, p2}
  MaxAsks = 3
  SpawnFails = FALSE
  None = None
PROPERTY OwedQuotaIsTakenUp
CHECK_DEADLOCK FALSE
