---------------------------- MODULE MCHierarchy ----------------------------
(* A root and three nodes: enough for a chain, a diamond, a cycle of up to  *)
(* three nodes with or without the root, and an edge between two siblings.  *)
EXTENDS Hierarchy

CONSTANTS a, b, c, z, MaxLinks

MCIds == {Root, a, b, c} \cup Reserved

\* Any one node, or two of them.
MCLists == {{n} : n \in MCIds} \cup {{a, b}}

MCEdges == {<<b, c>>}

\* The graphs explored in full; TLC does not go beyond a larger one.
LinkBound == Cardinality(Links(graph)) <= MaxLinks

=============================================================================
