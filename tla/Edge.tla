---------------------------------- MODULE Edge ----------------------------------
(***************************************************************************)
(* Edge fields.  A field of a node refers to other nodes; the constraint   *)
(* of the field says whether it holds one reference only, and which field  *)
(* of the destination refers back.  Every destination lists the fields     *)
(* that refer to it, its origins.                                          *)
(*                                                                         *)
(* The operators take a store, a record with the arcs <<field, src, dst>>  *)
(* and the origins <<dst, src, field>>, and give the store afterwards.     *)
(***************************************************************************)
EXTENDS Naturals, FiniteSets, FiniteSetsExt, Sequences, SequencesExt

CONSTANTS
  Fields,
  Single,      \* the fields of which the constraint has the flag S
  Back,        \* the field that refers back, for those with the flag B
  Undeclared   \* <<field, node>>: no constraint for the field and the node's type

ASSUME EdgeAssumption ==
  /\ Single \subseteq Fields
  /\ DOMAIN Back \subseteq Fields /\ \A f \in DOMAIN Back : Back[f] \in Fields

ArcsOf(s, f, n) == {e \in s.arcs : e[1] = f /\ e[2] = n}
Origins(s, n)   == {o \in s.origins : o[1] = n}

\* insert_edge()
InsertEdge(s, f, src, dst) ==
  [s EXCEPT !.arcs = @ \cup {<<f, src, dst>>}, !.origins = @ \cup {<<dst, src, f>>}]

\* Mutant: the origin is forgotten with all of its fields.
RemoveOrigin(s, f, src, dst) == [s EXCEPT !.origins = {o \in @ : o[1] # dst \/ o[2] # src}]

\* remove_origin_ref(): the last field that the origin is listed with is taken to
\* be the one that is removed.
RemoveOriginRef(s, f, src, dst) ==
  LET listed == {o \in Origins(s, dst) : o[2] = src}
  IN  [s EXCEPT !.origins = @ \ (IF Cardinality(listed) = 1 THEN listed ELSE {<<dst, src, f>>})]

\* Edge_Delete(): an arc that is not there, or not listed by its destination, is
\* an error and nothing changes.
RECURSIVE EdgeDelete(_, _, _, _)
EdgeDelete(s, f, src, dst) ==
  LET here == RemoveOriginRef([s EXCEPT !.arcs = @ \ {<<f, src, dst>>}], f, src, dst)
  IN  IF <<f, src, dst>> \notin s.arcs \/ ~\E o \in Origins(s, dst) : o[2] = src THEN s
      ELSE IF f \in DOMAIN Back THEN EdgeDelete(here, Back[f], dst, src)
      ELSE here

DeleteAll(s, arcs) == FoldSet(LAMBDA e, t : EdgeDelete(t, e[1], e[2], e[3]), s, arcs)

\* Edge_ClearField()
ClearField(s, f, n) == DeleteAll(s, ArcsOf(s, f, n))

\* Edge_Add(), with what it returns.  A single reference is cleared before it is
\* known whether the destination can refer back.
RECURSIVE EdgeAdd(_, _, _, _)
EdgeAdd(s, f, src, dst) ==
  LET cleared == IF f \in Single THEN ClearField(s, f, src) ELSE s
      here    == InsertEdge(cleared, f, src, dst)
      there   == EdgeAdd(here, Back[f], dst, src)
  IN  IF <<f, src>> \in Undeclared THEN [store |-> s, err |-> "EINVAL"]
      ELSE IF <<f, src, dst>> \in s.arcs THEN [store |-> s, err |-> "EEXIST"]
      ELSE IF f \notin DOMAIN Back THEN [store |-> here, err |-> "none"]
      ELSE IF there.err \in {"none", "EEXIST"} THEN [store |-> there.store, err |-> "none"]
      ELSE [store |-> EdgeDelete(there.store, f, src, dst), err |-> there.err]

\* deinit_node_metadata_edge(): the arcs to the node, its origins, then its fields.
DropEdges(s, n) ==
  LET in == {<<o[3], o[2], n>> : o \in Origins(s, n)}
      t  == [s EXCEPT !.arcs = @ \ in, !.origins = @ \ Origins(s, n)]
  IN  DeleteAll(t, {e \in t.arcs : e[2] = n})

=============================================================================
