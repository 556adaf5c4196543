------------------------------- MODULE MCMarkers -------------------------------
EXTENDS Markers, TLC

CONSTANTS root, a, b, m1, m2

Symmetry == Permutations(Node \ {Root})

\* One marker of any kind, or one over the edge fields of a node with a marker on the root.
Marker   == [root : Node, dir : Dirs, watch : BOOLEAN]
Edges(n) == [root |-> n, dir |-> "edges", watch |-> FALSE]
OnRoot   == [root |-> Root, dir |-> "node", watch |-> FALSE]
MCQueries == {(m1 :> d @@ m2 :> Unset) : d \in Marker}
               \cup {(m1 :> Edges(n) @@ m2 :> OnRoot) : n \in Node \ {Root}}
=============================================================================
