SPECIFICATION Spec
CONSTANTS
  m1 = m1
  m2 = m2
  m3 = m3
  NULL = NULL
  one = one
  two = two
  Ends = {one, two}
  Messages = {m1, m2, m3}
  Capacities = {63, 4194305}
SYMMETRY Symmetry
INVARIANT ReadIsRecyclable
CHECK_DEADLOCK FALSE
