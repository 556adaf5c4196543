------------------------------ MODULE MCFindIndex ------------------------------
(* Three nodes and room for one index: an ordered hint over the descendants of *)
(* the root, and a plain one over the ancestors of a node that can be deleted.  *)
EXTENDS FindIndex, TLC

CONSTANTS root, a, b, h1, h2

Query(r, d, o) == [root |-> r, dir |-> d, ordered |-> o]

MCQueries ==
  {h1 :> Query(root, "descendants", TRUE) @@ h2 :> Query(a, "ancestors", FALSE)}

\* The ordered hint starts from the root, which it therefore never lists under its key.
RootHasNoKey == db.key[Root] = 0
=============================================================================
