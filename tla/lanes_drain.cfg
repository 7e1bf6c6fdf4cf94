SPECIFICATION Spec
CONSTANTS
  Callers = {c1}
  Slots = {s1, s2, s3}
  Provider = {p1}
  MaxAsks = 2
  SpawnFails = TRUE
  None = None
INVARIANTS
  TypeOK
  OneCollector
  ShutdownReachesEveryRefresh
  PendingHasAStarter
  ManualIsKept
  RestingShowsNoRefresh
PROPERTY BacklogDrains
CHECK_DEADLOCK FALSE
