CONSTANTS
  root = root
  a = a
  b = b
  m1 = m1
  m2 = m2
  Node = {root, a, b}
  Root = root
  Ids = {m1, m2}
  Queries <- MCQueries
  MaxLinks = 2
  MaxPairs = 3
  Unset = Unset
  Freed = Freed
SPECIFICATION Spec
SYMMETRY Symmetry
INVARIANTS Covered NothingStray
PROPERTIES Told Restored
CHECK_DEADLOCK FALSE
