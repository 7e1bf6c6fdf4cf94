SPECIFICATION Spec
CONSTANTS
  None = None
  LastFamily = 2
  LastSerial = 3
  Lane = {full, account}
  Full = full
  Thread = {t1}
  Mishaps = {"lost", "restart"}
  LastEpoch = 3
  MaxEvents = 2
PROPERTIES
  PendingIsRevoked
CHECK_DEADLOCK FALSE
