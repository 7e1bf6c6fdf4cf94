SPECIFICATION Spec
CONSTANTS
  Device = {d1}
  Hour = {1, 2}
  Rows = {empty, r1, big, bad}
  Empty = empty
  Refused = {bad}
  Flight = {f1}
  Now0 = 3
  LastInstant = 4
  LastSerial = 2
  LastGeneration = 2
  LastVersion = 9
  None = None
  MaxStaged = 2
  BatchHours = 1
  Unsendable = {big}
  Mishaps = {"unreadable", "cache", "cut", "delete", "toggle"}
  MaxEvents = 3
INVARIANTS
  SettledIsDelivered
PROPERTIES
  BacklogIsSent
CHECK_DEADLOCK FALSE
