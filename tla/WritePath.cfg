CONSTANTS
  MaxQueue = 2
  MaxFrames = 1
  MaxWrites = 2
  NoDelayMayFail = TRUE
  MaxSends = 5
SPECIFICATION Spec
VIEW View
INVARIANTS
  TypeOK
  OutstandingIsIntact
  WireIsWhole
  LogonComesFirst
CHECK_DEADLOCK FALSE
