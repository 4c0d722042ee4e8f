CONSTANTS
  Messages = {m, n}
  NULL = NULL
  MaxMessages = 3
SPECIFICATION FairSpec
INVARIANTS
  TypeOK
  NoLostWakeup
  ActivationIsNotLost
  EndIsTheEnd
PROPERTIES
  BlockedReadReturns
  TimedReadReturns
