---------------------------------- MODULE Store ----------------------------------
(***************************************************************************)
(* The commands that change the nodes, links and edges of a hierarchy,     *)
(* together with what takes subtrees out of memory and with a restart of   *)
(* the server.  Redis runs one command at a time, and its timers between   *)
(* commands, so every command is one step.                                 *)
(*                                                                         *)
(* `harmed` is set where the code goes wrong: it looks up a subtree while  *)
(* it is deleting it, restores a node that another subtree holds, makes a  *)
(* dump without some of the nodes, or one that cannot be loaded.  Nothing  *)
(* is said of what comes after.                                            *)
(***************************************************************************)
EXTENDS Detached

VARIABLE db

Init == db = Empty

NonRoot == Ids \ {Root}

\* SelvaModify_AddHierarchy() of one parent: a parent that is not there is created
\* under the root.
Linked(s, p, c) ==
  LET upserted == Upserted(FindNode(s, c), {c})
      found == FindNode(upserted, p)
      there == IF p \in found.nodes THEN found
               ELSE [Upserted(found, {p}) EXCEPT !.links = @ \cup {<<Root, p>>}]
  IN  [there EXCEPT !.links = @ \cup {<<p, c>>}]

\* SelvaModify_DelHierarchy() of one parent
Unlinked(s, p, c) ==
  LET found == FindNode(s, c)
  IN  IF c \notin Live(found) THEN found
      ELSE [FindNode(found, p) EXCEPT !.links = @ \ {<<p, c>>}]

\* SelvaModify_DelHierarchyNode()
Deleted(s, n, mode) == IF Found(s, n) THEN Del(FindNode(s, n), n, mode, <<>>) ELSE s

\* update_edge(), $add of one id: a destination that is not there becomes a head.
Referred(s, f, a, b) ==
  EdgeAdd(Upserted(FindNode(FindNode(s, a), b), {b}), f, a, b).store

\* update_edge(), $value of one id: the other arcs are deleted first.
Assigned(s, f, a, b) ==
  LET found == FindNode(s, a)
  IN  Referred(DeleteAll(found, {e \in ArcsOf(found, f, a) : e[3] # b}), f, a, b)

\* SelvaHierarchy_CompressCommand(); auto_compress_proc() passes over dummies.
Compressed(s, n) == IF Found(s, n) THEN DetachSubtree(FindNode(s, n), n) ELSE s

\* A restart loads the last dump; what the dump does not hold is gone.
Restarted(s) ==
  [SaveAndLoad(s) EXCEPT !.harmed = @ \/ ~(s.nodes \subseteq Range(Saved(s)))]

-----------------------------------------------------------------------------

\* A command takes the store to another one.
Step(s) == ~db.harmed /\ db' = s

Link(p, c)         == Step(Linked(db, p, c))
Unlink(p, c)       == Step(Unlinked(db, p, c))
Delete(n, mode)    == Step(Deleted(db, n, mode))
Refer(f, a, b)     == Found(db, a) /\ Step(Referred(db, f, a, b))
Unrefer(f, a, b)   == Found(db, a) /\ Step(EdgeDelete(FindNode(db, a), f, a, b))
Assign(f, a, b)    == Found(db, a) /\ Step(Assigned(db, f, a, b))
Clear(f, a)        == Found(db, a) /\ Step(ClearField(FindNode(db, a), f, a))

Compress(n)        == Step(Compressed(db, n))
Touch(n)           == Step(FindNode(db, n))    \* any other command on a node
Restart            == Step(Restarted(db))

Next ==
  \/ \E p \in Ids, c \in NonRoot : p # c /\ (Link(p, c) \/ Unlink(p, c))
  \/ \E n \in Ids, mode \in {"plain", "force"} : Delete(n, mode)
  \/ \E f \in Fields, a, b \in NonRoot : Refer(f, a, b) \/ Unrefer(f, a, b) \/ Assign(f, a, b)
  \/ \E f \in Fields, a \in NonRoot : Clear(f, a)
  \/ \E n \in NonRoot : Compress(n) \/ Touch(n)
  \/ Restart

Spec == Init /\ [][Next]_db

-----------------------------------------------------------------------------

\* What the store holds, in memory or not.
Trees(s)    == Range(s.detached)
AllNodes(s) == Live(s) \cup UNION {t.nodes : t \in Trees(s)}
AllLinks(s) == s.links \cup UNION {t.links : t \in Trees(s)}
AllArcs(s)  == s.arcs \cup UNION {t.arcs : t \in Trees(s)}
Origin(arcs) == {<<e[3], e[2], e[1]>> : e \in arcs}

\* Arcs are between nodes that are there; the origins of a node are the fields that
\* refer to it, no more and no fewer; a single reference is single; and two fields that
\* refer to each other do so in both directions: whatever adding, replacing, deleting
\* and failing came before
\* (Edge_Add(), Edge_Delete(), deinit_node_metadata_edge()).
EdgesAgree ==
  db.harmed \/
    /\ db.arcs \subseteq Fields \X Live(db) \X Live(db)
    /\ db.origins = Origin(db.arcs)
    /\ \A e, d \in AllArcs(db) : e[1] = d[1] /\ e[2] = d[2] /\ e[1] \in Single => e = d
    /\ \A e \in AllArcs(db) : e[1] \in DOMAIN Back => <<Back[e[1]], e[3], e[2]>> \in AllArcs(db)

\* Every dummy can be restored, every detached id belongs to the subtree of one dummy,
\* and no detached node has a twin in memory (detach_subtree(), restore_subtree()).
Recoverable ==
  db.harmed \/
    /\ \A n \in db.dummies : n \in DOMAIN db.detached /\ db.detached[n].head = n
    /\ \A n \in DOMAIN db.detached :
         LET t == db.detached[n]
         IN  t.head \in db.dummies /\ n \in t.nodes \ Live(db)
             /\ \A m \in t.nodes : m \in DOMAIN db.detached /\ db.detached[m] = t

\* Taking subtrees out of memory, bringing them back and restarting leave all nodes,
\* links and arcs as they were.  What they may add is empty nodes that a restored
\* subtree refers to (compress_subtree(), Hierarchy_SubtreeRDBLoad(), Hierarchy_RDBLoad()).
SameGraph(s, t) ==
  /\ AllLinks(t) = AllLinks(s) /\ AllArcs(t) = AllArcs(s)
  /\ AllNodes(s) \subseteq AllNodes(t)
  /\ AllNodes(t) \ AllNodes(s) \subseteq {e[3] : e \in AllArcs(s)}

Kept ==
  db.harmed \/
    \A t \in {Restarted(db)} \cup {Compressed(db, n) : n \in NonRoot}
                            \cup {FindNode(db, n) : n \in NonRoot} :
      t.harmed \/ SameGraph(db, t)

\* Nobody has two parents, and nobody is its own ancestor.
Forest(s) ==
  /\ \A e, d \in AllLinks(s) : e[2] = d[2] => e = d
  /\ \A S \in SUBSET AllNodes(s) :
       S # {} => \E n \in S : \A m \in S : <<m, n>> \notin AllLinks(s)

\* An edge leads from one detached subtree into another one.
Crossed(s) == \E t \in Trees(s), e \in AllArcs(s) : e \in t.arcs /\ e[3] \notin t.nodes
                                                  /\ e[3] \in DOMAIN s.detached

\* The store comes to harm only where a node has several parents or is its own
\* ancestor, or an edge joins two detached subtrees: a tree can be compressed, restored,
\* saved and loaded (verifyDetachableSubtree(), full_dfs()).
HarmHasCause == [][db'.harmed => db.harmed \/ ~Forest(db) \/ Crossed(db)]_db

=============================================================================
