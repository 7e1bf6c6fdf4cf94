SPECIFICATION Spec
CONSTANTS
  None = None
  LastFamily = 2
  LastSerial = 3
  Lane = {full, account}
  Full = full
  Thread = {t1}
  Mishaps = {"lost", "unheard", "restart", "delete", "cancel", "overlap", "tardy"}
  LastEpoch = 3
  MaxEvents = 2
SYMMETRY Symmetry
INVARIANTS
  TypeOK
  OneLiveFamily
  StoredTokenWorks
PROPERTIES
  NoRevival
CHECK_DEADLOCK FALSE
