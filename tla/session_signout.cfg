SPECIFICATION FairSpec
CONSTANTS
  None = None
  LastFamily = 2
  LastSerial = 2
  Lane = {full, account}
  Full = full
  Thread = {t1}
  Mishaps = {"lost", "delete", "cancel"}
  LastEpoch = 3
  MaxEvents = 2
INVARIANTS
  LiveFamilyIsHeld
PROPERTIES
  PendingIsRevoked
  SignedOutForCause
  SignOutIsDelivered
  LoginEnds
CHECK_DEADLOCK FALSE
