SPECIFICATION SafetySpec
CONSTANTS
  Device = {d1}
  Hour = {1}
  Rows = {empty, r1}
  Empty = empty
  Refused = {}
  Flight = {f1}
  Now0 = 3
  LastInstant = 4
  LastSerial = 2
  LastGeneration = 2
  LastVersion = 4
  None = None
  MaxStaged = 1
  BatchHours = 1
  Unsendable = {}
  Mishaps = {}
  MaxEvents = 4
INVARIANTS
  EmptiedHoursTravel
CHECK_DEADLOCK FALSE
