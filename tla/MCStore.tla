---------------------------------- MODULE MCStore ----------------------------------
EXTENDS Store

\* "one" refers to a single node, which refers back with "many".
MCBack == "one" :> "many" @@ "many" :> "one"

\* The type of node 3 has no field "many".
MCUndeclared == {<<"many", 3>>}

CONSTANTS MaxArcs, MaxSize   \* arcs; links and arcs together

Bounded ==
  LET arcs == Cardinality(AllArcs(db))
  IN  arcs <= MaxArcs /\ Cardinality(AllLinks(db)) + arcs <= MaxSize

=============================================================================
