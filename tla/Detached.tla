-------------------------------- MODULE Detached --------------------------------
(***************************************************************************)
(* Subtrees that are taken out of memory.  A subtree is saved as a string  *)
(* and its nodes are deleted; what stays is a dummy in the place of its    *)
(* head and, for each of its ids, a pointer to the string.  Looking up any *)
(* of the ids, or walking over the dummy, brings all of it back.  A dump   *)
(* keeps detached subtrees as they are, and its loading restores each of   *)
(* them and detaches it again.                                             *)
(*                                                                         *)
(* A store is a record: nodes and their links <<parent, child>>, the       *)
(* dummies among them, detached (the subtree that each id is in), arcs and *)
(* origins.  Ids are numbers, in the order the vectors keep them in.       *)
(***************************************************************************)
EXTENDS Edge, Functions, TLC

CONSTANTS Ids, Root

ASSUME IdsAssumption == Ids \subseteq Nat /\ Root \in Ids

Live(s)        == s.nodes \ s.dummies
Children(s, n) == {c \in s.nodes : <<n, c>> \in s.links}
Parents(s, n)  == {p \in s.nodes : <<p, n>> \in s.links}
Order          == SetToSortSeq(Ids, LAMBDA x, y : x < y)
Sorted(S)      == SelectSeq(Order, LAMBDA n : n \in S)

\* A store in which only the root is.
Empty == [nodes |-> {Root}, links |-> {}, dummies |-> {}, detached |-> <<>>,
          arcs |-> {}, origins |-> {}, harmed |-> FALSE]

\* new nodes, with no parents
Upserted(s, S) == [s EXCEPT !.nodes = @ \cup S]

\* Mutant: only the head is removed from the detached ids.
RestoreHead(s, tree) ==
  [s EXCEPT !.nodes = @ \cup tree.nodes, !.dummies = @ \ {tree.head}, !.links = @ \cup tree.links,
            !.detached = Restrict(@, DOMAIN @ \ {tree.head}), !.arcs = @ \cup tree.arcs,
            !.origins = @ \cup {<<e[3], e[2], e[1]>> : e \in tree.arcs}]

\* restore_compressed_subtree(): the load looks up ids in the index only, and takes
\* a dummy that it meets for the head of this very subtree.  Harm is done when the
\* destination of an edge is in another detached subtree.
Restore(s, tree) ==
  LET far == {e[3] : e \in tree.arcs} \ tree.nodes
  IN  [s EXCEPT !.nodes = @ \cup tree.nodes \cup far,
                !.dummies = @ \ (tree.nodes \cup far),
                !.links = @ \cup tree.links,
                !.detached = Restrict(@, DOMAIN @ \ tree.nodes),
                !.arcs = {e \in @ : e[2] \notin tree.nodes} \cup tree.arcs,
                !.origins = @ \cup {<<e[3], e[2], e[1]>> : e \in tree.arcs},
                !.harmed = @ \/ far \cap DOMAIN s.detached # {}]

\* SelvaHierarchy_FindNode(), and whether it finds the node
FindNode(s, n) ==
  IF n \notin Live(s) /\ n \in DOMAIN s.detached THEN Restore(s, s.detached[n]) ELSE s
Found(s, n) == n \in Live(FindNode(s, n))

\* The same while nodes are being detached: what it restores here is the subtree
\* that is being deleted.
FindWhile(mode, s, n) ==
  LET t == FindNode(s, n) IN IF mode = "detach" /\ t # s THEN [t EXCEPT !.harmed = TRUE] ELSE t

\* del_node(): the root stays.
DelNode(s, n) ==
  IF n = Root THEN [s EXCEPT !.links = {e \in @ : e[1] # n}]
  ELSE DropEdges([s EXCEPT !.nodes = @ \ {n}, !.dummies = @ \ {n},
                           !.links = {e \in @ : n \notin {e[1], e[2]}}], n)

\* SelvaModify_DelHierarchyNodeP(), plain, by force, or to detach `tree`
RECURSIVE Del(_, _, _, _)
Del(s, n, mode, tree) ==
  LET kept == IF mode = "detach" THEN [s EXCEPT !.detached = (n :> tree) @@ @] ELSE s
      orphan == [kept EXCEPT !.links = {e \in @ : e[2] # n}]
      DelChild(t, c) ==
        LET found == FindWhile(mode, t, c)
            cut == [found EXCEPT !.links = @ \ {<<n, c>>}]
        IN  IF c \notin Live(found) THEN found
            ELSE IF mode # "plain" \/ (Parents(cut, c) = {} /\ Origins(cut, c) = {})
            THEN Del(cut, c, mode, tree)
            ELSE cut
  IN  DelNode(FoldLeft(DelChild, orphan, Sorted(Children(s, n))), n)

-----------------------------------------------------------------------------

\* bfs() with verifyDetachableSubtreeNodeCb(): every node but the head must come after
\* all of its parents.  Dummies on the way are restored.
RECURSIVE Walk(_, _, _, _)
Walk(s, head, queue, visited) ==
  IF queue = <<>> THEN [store |-> s, nodes |-> visited, tree |-> TRUE]
  ELSE LET n == Head(queue)
           seen == visited \cup Range(queue)
           new == Sorted(Children(s, n) \ seen)
           t == FoldLeft(FindNode, s, new)
       IN  IF n # head /\ ~(Parents(s, n) \subseteq visited)
           THEN [store |-> s, nodes |-> visited, tree |-> FALSE]
           ELSE Walk(t, head, Tail(queue) \o new, visited \cup {n})

\* Mutant: edges from elsewhere are not looked at.
VerifyLinks(s, n) == Walk(s, n, <<n>>, {})

\* verifyDetachableSubtree(): edges into the subtree come from within.
Verify(s, n) ==
  LET w == Walk(s, n, <<n>>, {})
      origins == {o[2] : o \in {o \in w.store.origins : o[1] \in w.nodes}}
  IN  [w EXCEPT !.tree = @ /\ origins \subseteq w.nodes]

\* new_detached_node()
NewDetachedNode(s, n, parents) ==
  LET AddParent(t, p) == LET found == FindWhile("detach", t, p)
                         IN  [found EXCEPT !.links = @ \cup {<<p, n>>}]
      t == FoldLeft(AddParent, Upserted(s, {n}), Sorted(parents))
  IN  [t EXCEPT !.dummies = @ \cup {n}]

\* detach_subtree(), compress_subtree()
DetachSubtree(s, n) ==
  LET v == Verify(s, n)
      tree == [head |-> n, nodes |-> v.nodes,
               links |-> {e \in v.store.links : e[1] \in v.nodes},
               arcs |-> {e \in v.store.arcs : e[2] \in v.nodes}]
  IN  IF v.tree THEN NewDetachedNode(Del(v.store, n, "detach", tree), n, Parents(s, n))
      ELSE v.store

-----------------------------------------------------------------------------

\* full_dfs() from the heads: the nodes in the order in which they are saved
RECURSIVE SaveOrder(_, _, _)
SaveOrder(s, stack, order) ==
  IF stack = <<>> THEN order
  ELSE LET n == Last(stack)
           below == IF n \in Range(order) THEN <<>> ELSE Sorted(Children(s, n))
       IN  SaveOrder(s, Front(stack) \o below,
                     IF n \in Range(order) THEN order ELSE Append(order, n))

\* Mutant: only what the root reaches.
SavedFromRoot(s) == SaveOrder(s, <<Root>>, <<>>)

Saved(s) ==
  FoldLeft(LAMBDA order, head : SaveOrder(s, <<head>>, order), <<>>,
           Sorted({n \in s.nodes : n = Root \/ Parents(s, n) = {}}))

FindOrNew(s, n) == Upserted(FindNode(s, n), {n})

\* load_hierarchy_node(): edges, then children
LoadNode(s, n, arcs, children) ==
  LET t == FoldLeft(FindOrNew, FindOrNew(s, n), Sorted({e[3] : e \in arcs} \cup children))
  IN  [t EXCEPT !.links = @ \cup ({n} \X children),
                !.arcs = @ \cup arcs,
                !.origins = @ \cup {<<e[3], e[2], e[1]>> : e \in arcs}]

\* load_detached_node(): NotLoaded when the subtree cannot be detached again
NotLoaded == [Empty EXCEPT !.nodes = {}, !.harmed = TRUE]

LoadDetached(s, n, tree) ==
  LET t == DetachSubtree(Restore(FindOrNew(s, n), tree), n)
  IN  IF n \in t.dummies THEN t ELSE NotLoaded

\* Hierarchy_RDBSave(), and Hierarchy_RDBLoad() into a new process
SaveAndLoad(s) ==
  FoldLeft(LAMBDA t, n :
             IF t = NotLoaded THEN t
             ELSE IF n \in s.dummies THEN LoadDetached(t, n, s.detached[n])
             ELSE LoadNode(t, n, {e \in s.arcs : e[2] = n}, Children(s, n)),
           Empty, Saved(s))

=============================================================================
