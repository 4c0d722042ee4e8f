CONSTANTS
  NULL = NULL
  Items = {a, b}
  Chunks = {c1, c2, c3, c4}
  N = 2
  MallocMayFail = FALSE
  MaxItems = 6
SPECIFICATION Spec
SYMMETRY AddressesAreAlike
INVARIANTS
  TypeOK
  EveryChunkHasOneOwner
PROPERTIES
  ImplementsSpscQueue
