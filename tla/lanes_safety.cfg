SPECIFICATION SafetySpec
CONSTANTS
  Callers = {c1, c2}
  Slots = {s1, s2, s3}
  Provider = {p1}
  MaxAsks = 2
  SpawnFails = TRUE
  None = None
SYMMETRY Symmetry
INVARIANTS
  TypeOK
  OneCollector
  ShutdownReachesEveryRefresh
  PendingHasAStarter
  ManualIsKept
  RestingShowsNoRefresh
CHECK_DEADLOCK FALSE
