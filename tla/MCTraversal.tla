----------------------------- MODULE MCTraversal -----------------------------
EXTENDS Traversal

CONSTANTS n1, n2, n3

c(a, b) == <<a, "children", b>>
e(a, b) == <<a, "edge", b>>

\* A diamond with an edge back to its top, which makes a cycle, and two links between
\* the lower nodes; a cycle of children with a self loop.
SmallGraphs ==
  {{c(n1, n2), c(n1, n3), c(n2, n3), e(n2, n3), e(n3, n1)},
   {c(n1, n2), c(n2, n2), c(n2, n1)}}

BothFields == {{"children", "edge"}}

=============================================================================
