CONSTANTS
  NULL = NULL
  Items = {a, b}
  Chunks = {c1, c2, c3, c4}
  N = 2
  MallocMayFail = TRUE
  MaxItems = 4
SPECIFICATION Spec
SYMMETRY AddressesAreAlike
INVARIANT AcceptedIsKept
CHECK_DEADLOCK FALSE
