CONSTANTS
  root = root
  a = a
  b = b
  h1 = h1
  h2 = h2
  Node = {root, a, b}
  Root = root
  Hints = {h1, h2}
  Queries <- MCQueries
  Keys = {0, 1}
  MaxIndices = 1
  ListSize = 2
  MaxHints = 2
  MaxLinks = 3
SPECIFICATION Spec
CONSTRAINT RootHasNoKey
INVARIANTS Usable Owned
