CONSTANTS
  n1 = n1
  n2 = n2
  n3 = n3
  Node = {n1, n2, n3}
  Graphs <- SmallGraphs
  Fields <- BothFields
  Limit = 3
  MaxBegun = 4
SPECIFICATION Spec
INVARIANTS Isolated Complete Verified
CHECK_DEADLOCK FALSE
