SPECIFICATION Spec
CONSTANTS
  m1 = m1
  m2 = m2
  m3 = m3
  NULL = NULL
  one = one
  two = two
  Ends = {one, two}
  Messages = {m1, m2, m3}
  Capacities = {63, 64, 4194305}
SYMMETRY Symmetry
INVARIANTS
  TypeOK
  EveryMessageHasOneOwner
  MessageFits
  StaleWasRead
  FaultsOnlyAfterTerminate
  OneTerminateFreesThePair
CHECK_DEADLOCK FALSE
