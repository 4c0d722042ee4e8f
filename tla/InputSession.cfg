CONSTANTS
  MaxQueue = 3
  MaxFrames = 1
  MaxWrites = 2
  NoDelayMayFail = TRUE
SPECIFICATION FairSpec
INVARIANTS
  TypeOK
  NeverStranded
  InputBufferHasOneUser
  LoggedOnIsWatched
PROPERTIES
  HealthyIsKept
  LossIsRepaired
  LogoutIsFollowed
CHECK_DEADLOCK FALSE
