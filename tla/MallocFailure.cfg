CONSTANTS
  NULL = NULL
  Items = {a, b}
  Chunks = {c1, c2, c3, c4}
  N = 2
  MallocMayFail = TRUE
  MaxItems = 5
SPECIFICATION Spec
SYMMETRY AddressesAreAlike
INVARIANTS
  EveryChunkHasOneOwner
  IntegrityHolds
  ReadIsInOrder
CHECK_DEADLOCK FALSE
