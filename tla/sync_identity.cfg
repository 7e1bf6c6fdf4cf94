SPECIFICATION SafetySpec
CONSTANTS
  Device = {d1, d2}
  Hour = {1, 2}
  Rows = {empty, r1}
  Empty = empty
  Refused = {}
  Flight = {f1}
  Now0 = 3
  LastInstant = 4
  LastSerial = 2
  LastGeneration = 2
  LastVersion = 3
  None = None
  MaxStaged = 1
  BatchHours = 1
  Unsendable = {}
  Mishaps = {"logout"}
  MaxEvents = 3
INVARIANTS
  SentUnderItsOwnIdentity
CHECK_DEADLOCK FALSE
