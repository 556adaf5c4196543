------------------------------ MODULE Hierarchy ------------------------------
(***************************************************************************)
(* The node hierarchy of the Selva module: an index of nodes, each with a  *)
(* vector of parents and a vector of children, and the set of heads from   *)
(* which a full traversal starts.  A node also counts the nodes whose edge *)
(* fields point to it (`origins`, the subject of module Edge), because     *)
(* deletion spares a child that is still referenced.                       *)
(*                                                                         *)
(* Redis runs a command to its end before the next one, so the commands of *)
(* selva.modify are one action each.  selva.hierarchy.del recurses through *)
(* the graph it is changing; each iteration of its loops is an action and  *)
(* `calls` is the C stack of SelvaModify_DelHierarchyNodeP.                *)
(***************************************************************************)
EXTENDS Naturals, Sequences, FiniteSets

CONSTANTS
  Ids,        \* every nodeId a command may name
  Root,       \* ROOT_NODE_ID
  Reserved,   \* EMPTY_NODE_ID and HIERARCHY_RDB_EOF: newNode() refuses them
  Lists,      \* the nodeId lists a command may carry
  Edges       \* the <<source, destination>> pairs edge fields may connect

ASSUME RootAssumption == Root \in Ids /\ Root \notin Reserved
ASSUME InputAssumption == Lists \subseteq SUBSET Ids /\ Edges \subseteq Ids \X Ids

VARIABLES
  graph,      \* index, adjacency vectors, heads and edge origins
  calls,      \* activations of DelHierarchyNodeP, the outermost first
  before      \* history: the graph when the running command started

vars == <<graph, calls, before>>

Graphs == [nodes : SUBSET Ids, heads : SUBSET Ids,
           parents : [Ids -> SUBSET Ids], children : [Ids -> SUBSET Ids],
           origins : [Ids -> SUBSET Ids]]

Calls == [node : Ids, todo : SUBSET Ids, force : BOOLEAN]

-----------------------------------------------------------------------------
(* Operations on a graph *)

\* SelvaModify_NewHierarchy: only the root, which is a head for ever.
NewHierarchy ==
  [nodes |-> {Root}, heads |-> {Root},
   parents |-> [n \in Ids |-> {}], children |-> [n \in Ids |-> {}],
   origins |-> [n \in Ids |-> {}]]

MkHeads(g, S) == [g EXCEPT !.heads = @ \cup S]

\* Root is never removed from heads.
RmHeads(g, S) == [g EXCEPT !.heads = @ \ (S \ {Root})]

IndexNew(g, S) == [g EXCEPT !.nodes = @ \cup (S \ Reserved)]

\* Both adjacency vectors of every pair of P \X C, as each caller updates them.
Link(g, P, C) ==
  [g EXCEPT
    !.parents  = [n \in Ids |-> IF n \in C THEN g.parents[n] \cup P ELSE g.parents[n]],
    !.children = [n \in Ids |-> IF n \in P THEN g.children[n] \cup C ELSE g.children[n]]]

Unlink(g, P, C) ==
  [g EXCEPT
    !.parents  = [n \in Ids |-> IF n \in C THEN g.parents[n] \ P ELSE g.parents[n]],
    !.children = [n \in Ids |-> IF n \in P THEN g.children[n] \ C ELSE g.children[n]]]

\* SelvaHierarchy_UpsertNode: a new node starts as an orphan.
UpsertNode(g, n) ==
  IF n \in g.nodes \cup Reserved THEN g ELSE MkHeads(IndexNew(g, {n}), {n})

\* A missing parent is created under the root.  The node leaves the heads as
\* soon as there is a list of parents, whatever then becomes of the list.
CrossInsertParents(g, n, ps) ==
  IF ps = {} THEN g
  ELSE LET made == ps \ (g.nodes \cup Reserved)
           out  == IF g.parents[n] = {} THEN RmHeads(g, {n}) ELSE g
       IN  Link(Link(IndexNew(out, made), {Root}, made), ps \ Reserved, {n})

\* A missing child is created as an orphan and adopted at once.
CrossInsertChildren(g, n, cs) ==
  LET kids    == cs \ Reserved
      adopted == {c \in kids \ g.children[n] : g.parents[c] = {}}
  IN  Link(RmHeads(IndexNew(g, kids), adopted), {n}, kids)

\* Mutant: only the node's own vector is changed.
OneSided(g, n, ps) ==
  LET cut == [g EXCEPT !.parents[n] = @ \ ps]
  IN  IF g.parents[n] # {} /\ cut.parents[n] = {} THEN MkHeads(cut, {n}) ELSE cut

\* crossRemove(RELATIONSHIP_CHILD)
CrossRemoveParents(g, n, ps) ==
  LET cut == Unlink(g, ps, {n})
  IN  IF g.parents[n] # {} /\ cut.parents[n] = {} THEN MkHeads(cut, {n}) ELSE cut

\* Mutant: a child that has lost its last parent is not made a head.
NoNewHeads(g, n, cs) == Unlink(g, {n}, cs)

\* crossRemove(RELATIONSHIP_PARENT)
CrossRemoveChildren(g, n, cs) ==
  LET cut == Unlink(g, {n}, cs)
  IN  MkHeads(cut, {c \in cs \cap g.nodes : cut.parents[c] = {}})

\* Mutant: the edge metadata is freed without visiting the other ends.
KeepsOrigins(g, n) == [g EXCEPT !.nodes = @ \ {n}, !.heads = @ \ {n}]

\* Mutant: the bookkeeping of the node is lost with it.
LosesSlot(g, n) ==
  [g EXCEPT !.nodes = @ \ {n}, !.heads = @ \ {n},
            !.origins = [m \in Ids \ {n} |-> g.origins[m] \ {n}]]

\* The destructor of the edge metadata takes the node out of every origin set.
DestroyNode(g, n) ==
  [g EXCEPT !.nodes = @ \ {n}, !.heads = @ \ {n},
            !.origins = [m \in Ids |-> IF m = n THEN {} ELSE g.origins[m] \ {n}]]

\* del_node: the root only loses its children and fields.
DelNode(g, n) ==
  LET childless == CrossRemoveChildren(g, n, g.children[n])
  IN  IF n = Root THEN childless
      ELSE DestroyNode(CrossRemoveParents(childless, n, childless.parents[n]), n)

-----------------------------------------------------------------------------
(* selva.modify: each triplet of the command is one operation on node n *)

Idle == calls = <<>>

Commit(g) == /\ graph' = g
             /\ before' = g
             /\ UNCHANGED calls

\* The first thing selva.modify does: SetHierarchy() for a node not there yet,
\* under the root unless the N flag is given.
CreateNode(n, noRoot) ==
  /\ Idle
  /\ n \notin graph.nodes \cup Reserved
  /\ Commit(IF noRoot THEN UpsertNode(graph, n)
            ELSE CrossInsertParents(IndexNew(graph, {n}), n, {Root}))

SetParents(n, ps) ==
  /\ Idle /\ n \in graph.nodes /\ ps # {}
  /\ LET g == CrossInsertParents(graph, n, ps)
     IN  Commit(CrossRemoveParents(g, n, g.parents[n] \ ps))

SetChildren(n, cs) ==
  /\ Idle /\ n \in graph.nodes /\ cs # {}
  /\ LET g == CrossInsertChildren(graph, n, cs)
     IN  Commit(CrossRemoveChildren(g, n, g.children[n] \ cs))

AddParents(n, ps) ==
  /\ Idle /\ n \in graph.nodes /\ ps # {}
  /\ Commit(CrossInsertParents(graph, n, ps))

AddChildren(n, cs) ==
  /\ Idle /\ n \in graph.nodes /\ cs # {}
  /\ Commit(CrossInsertChildren(graph, n, cs))

DelParents(n, ps) ==
  /\ Idle /\ n \in graph.nodes /\ ps # {}
  /\ Commit(CrossRemoveParents(graph, n, ps))

DelChildren(n, cs) ==
  /\ Idle /\ n \in graph.nodes /\ cs # {}
  /\ Commit(CrossRemoveChildren(graph, n, cs))

ClearParents(n) ==
  /\ Idle /\ n \in graph.nodes
  /\ Commit(CrossRemoveParents(graph, n, graph.parents[n]))

ClearChildren(n) ==
  /\ Idle /\ n \in graph.nodes
  /\ Commit(CrossRemoveChildren(graph, n, graph.children[n]))

\* update_edge: the destination of an edge is created if it is missing.
AddEdge(src, dst) ==
  /\ Idle /\ src \in graph.nodes /\ dst \notin Reserved
  /\ LET g == UpsertNode(graph, dst)
     IN  Commit([g EXCEPT !.origins[dst] = @ \cup {src}])

DelEdge(src, dst) ==
  /\ Idle /\ src \in graph.origins[dst]
  /\ Commit([graph EXCEPT !.origins[dst] = @ \ {src}])

-----------------------------------------------------------------------------
(* selva.hierarchy.del: SelvaModify_DelHierarchyNodeP *)

\* Mutant: the links to the parents are left for the end.
ParentsLast(g, stack, n, force) ==
  /\ graph' = g
  /\ calls' = Append(stack, [node |-> n, todo |-> g.children[n], force |-> force])

\* The links to the parents go first; then the children are listed once.
Enter(g, stack, n, force) ==
  LET cut == CrossRemoveParents(g, n, g.parents[n])
  IN  /\ graph' = cut
      /\ calls' = Append(stack, [node |-> n, todo |-> cut.children[n], force |-> force])

Del(n, force) ==
  /\ Idle /\ n \in graph.nodes
  /\ Enter(graph, calls, n, force)
  /\ UNCHANGED before

Last == Len(calls)

\* Mutant: the edges that refer to the child are not counted.
NoParents(g, n) == g.parents[n] = {}

Unreferenced(g, n) == g.parents[n] = {} /\ g.origins[n] = {}

\* Mutant: a child deleted by an earlier iteration is not expected.
InsistsOnChild(c) ==
  /\ ~Idle /\ c \in calls[Last].todo \cap graph.nodes
  /\ LET top  == calls[Last]
         rest == [calls EXCEPT ![Last].todo = @ \ {c}]
         cut  == CrossRemoveChildren(graph, top.node, {c})
         goes == top.force \/ Unreferenced(cut, c)
     IN  \/ ~goes /\ graph' = cut /\ calls' = rest
         \/ goes /\ Enter(cut, rest, c, top.force)
  /\ UNCHANGED before

\* One listed child: skipped if an earlier iteration has deleted it, otherwise
\* unlinked, and deleted in turn if nothing keeps it or the deletion is forced.
DelChild(c) ==
  /\ ~Idle /\ c \in calls[Last].todo
  /\ LET top  == calls[Last]
         rest == [calls EXCEPT ![Last].todo = @ \ {c}]
         cut  == CrossRemoveChildren(graph, top.node, {c})
         goes == top.force \/ Unreferenced(cut, c)
     IN  \/ c \notin graph.nodes /\ graph' = graph /\ calls' = rest
         \/ c \in graph.nodes /\ ~goes /\ graph' = cut /\ calls' = rest
         \/ c \in graph.nodes /\ goes /\ Enter(cut, rest, c, top.force)
  /\ UNCHANGED before

\* Every child has been dealt with: the node itself goes and the call returns.
DelReturn ==
  /\ ~Idle /\ calls[Last].todo = {}
  /\ graph' = DelNode(graph, calls[Last].node)
  /\ calls' = SubSeq(calls, 1, Last - 1)
  /\ before' = IF Last = 1 THEN graph' ELSE before

Recursion == DelReturn \/ \E c \in Ids : DelChild(c)

-----------------------------------------------------------------------------

Init == /\ graph = NewHierarchy
        /\ before = graph
        /\ calls = <<>>

Next ==
  \/ \E n \in Ids, noRoot \in BOOLEAN : CreateNode(n, noRoot)
  \/ \E n \in Ids, L \in Lists :
       \/ SetParents(n, L) \/ AddParents(n, L) \/ DelParents(n, L)
       \/ SetChildren(n, L) \/ AddChildren(n, L) \/ DelChildren(n, L)
  \/ \E n \in Ids : ClearParents(n) \/ ClearChildren(n)
  \/ \E e \in Edges : AddEdge(e[1], e[2]) \/ DelEdge(e[1], e[2])
  \/ \E n \in Ids, force \in BOOLEAN : Del(n, force)
  \/ Recursion

\* Nothing obliges a client to send a command; a command once begun is run to
\* its end by the single thread of the server.
Spec == Init /\ [][Next]_vars /\ WF_vars(Recursion)

-----------------------------------------------------------------------------
(* Properties *)

\* Every variable keeps its shape, whatever command runs.
TypeOK == graph \in Graphs /\ calls \in Seq(Calls) /\ before \in Graphs

\* doc/README.md: "every edge must have an existing endpoint. The relationship
\* is always symmetric, if a node has a parent then it's also a child to the
\* parent."  The two vectors are updated separately by six functions and by
\* every step of a recursive deletion.
SymmetricIn(g) ==
  \A p, c \in Ids :
    /\ c \in g.children[p] <=> p \in g.parents[c]
    /\ c \in g.children[p] => p \in g.nodes /\ c \in g.nodes

Symmetric == SymmetricIn(graph)

\* Both ends of an edge exist too: the destructor of a node's edge metadata
\* leaves no origin behind and is run for every node that goes.
EdgesResolveIn(g) ==
  \A n, m \in Ids : m \in g.origins[n] => m \in g.nodes /\ n \in g.nodes

EdgesResolve == EdgesResolveIn(graph)

\* The heads are the nodes without parents, and the root.  A traversal of the
\* whole hierarchy, so also the RDB save, starts from the heads only: a node
\* missing here would not be persisted.
HeadsOf(g) == {n \in g.nodes : g.parents[n] = {}} \cup {Root}

HeadsAreOrphans == graph.heads = HeadsOf(graph)

\* No activation of DelHierarchyNodeP works on a node that a nested one has
\* destroyed, and none is entered twice: "if there is a cycle back to this node
\* from its descendants then we'd loop back here" (hierarchy.c, on why the
\* links to the parents go first).
CallsAreLive ==
  \A i, j \in DOMAIN calls :
    /\ calls[i].node \in graph.nodes
    /\ i # j => calls[i].node # calls[j].node

\* A deletion ends on every graph, cycles and self loops included.
DeletionEnds == ~Idle ~> Idle

\* Seen command by command, the two vectors, the heads and the recursion
\* implement one relation between nodes from which a deletion takes exactly
\* what it promises to take (NodeGraph).
Links(g) == {e \in Ids \X Ids : e[2] \in g.children[e[1]]}

Contract == INSTANCE NodeGraph
              WITH nodes <- before.nodes, links <- Links(before),
                   refs <- {e \in Ids \X Ids : e[1] \in before.origins[e[2]]}

Implements == Contract!Spec

=============================================================================
