CONSTANTS
  Root = Root
  a = a
  b = b
  c = c
  z = z
  Reserved = {}
  MaxLinks = 3
  Ids <- MCIds
  Lists <- MCLists
  Edges <- MCEdges
SPECIFICATION Spec
CONSTRAINT LinkBound
INVARIANTS TypeOK Symmetric EdgesResolve HeadsAreOrphans CallsAreLive
PROPERTIES Implements DeletionEnds
