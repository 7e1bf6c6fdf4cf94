SPECIFICATION Spec
CONSTANTS
  None = None
  LastFamily = 2
  LastSerial = 3
  Lane = {full, account}
  Full = full
  Thread = {t1}
  Mishaps = {"lost", "late"}
  LastEpoch = 3
  MaxEvents = 2
INVARIANTS
  StoredTokenWorks
CHECK_DEADLOCK FALSE
