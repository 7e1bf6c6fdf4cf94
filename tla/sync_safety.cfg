SPECIFICATION SafetySpec
CONSTANTS
  Device = {d1}
  Hour = {1, 2}
  Rows = {empty, r1, bad}
  Empty = empty
  Refused = {bad}
  Flight = {f1, f2}
  Now0 = 3
  LastInstant = 4
  LastSerial = 2
  LastGeneration = 2
  LastVersion = 5
  None = None
  MaxStaged = 1
  BatchHours = 1
  Unsendable = {}
  Mishaps = {"unreadable", "cache", "cut", "logout", "delete", "toggle"}
  MaxEvents = 4
SYMMETRY Symmetry
INVARIANTS
  TypeOK
  OneReadingPerVersion
  CutHourStaysHome
  DeletedStaysDeleted
PROPERTIES
  KeepsItsLedger
CHECK_DEADLOCK FALSE
