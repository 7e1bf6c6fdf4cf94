SPECIFICATION SafetySpec
CONSTANTS
  Callers = {c1, c2}
  Slots = {s1, s2}
  Provider = {p1}
  MaxAsks = 2
  SpawnFails = FALSE
  None = None
INVARIANT ResetExcludesRefresh
CHECK_DEADLOCK FALSE
