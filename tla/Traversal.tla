------------------------------- MODULE Traversal -------------------------------
(***************************************************************************)
(* Traversals of the hierarchy and the labels that keep them from visiting *)
(* a node twice.  The callback of one traversal may start another (a field *)
(* inherited from the ancestors of each node that is found, a filter that  *)
(* looks at its descendants), and all that run at a time share one         *)
(* transaction: the label of a node is the id of the last transaction that *)
(* touched it and one bit, a colour, for each traversal of it.             *)
(*                                                                         *)
(* A word of colours is the set of its bits.  The order in which adjacent  *)
(* nodes are queued depends on their ids and is left open.                 *)
(***************************************************************************)
EXTENDS Naturals, FiniteSets, Sequences

CONSTANTS
  Node,
  Graphs,   \* sets of links <<from, field, to>>, of which the hierarchy is one
  Fields,   \* sets of fields that a traversal may follow
  Limit,    \* colours of a transaction: 63 in the code
  MaxBegun  \* bound on the number of traversals

ASSUME SizeAssumption ==
  /\ IsFiniteSet(Node)
  /\ Graphs \subseteq SUBSET (Node \X {"children", "edge"} \X Node)
  /\ Fields \subseteq SUBSET {"children", "edge"}
  /\ Limit \in Nat \ {0, 1} /\ MaxBegun \in Nat

VARIABLES
  graph,
  trx,        \* trx_state: id, the colours in use and those of ended traversals
  label,      \* trx_label of each node
  stack,      \* the traversals that run, the innermost last
  detachable, \* the head that the last verification accepted, if it did
  begun       \* how many traversals have begun, for the bound

vars == <<graph, trx, label, stack, detachable, begun>>

Nobody == {}  \* no node
Fresh  == [id |-> 0, cl |-> {}]
Fin    == trx.cl = {}

Links(n, fields) == {l \in graph : l[1] = n /\ l[2] \in fields}
Ends(links)      == {l[3] : l \in links}
Parents(n)       == {l[1] : l \in {k \in graph : k[2] = "children" /\ k[3] = n}}
Origins(n)       == {l[1] : l \in {k \in graph : k[2] = "edge" /\ k[3] = n}}

Init ==
  /\ graph \in Graphs
  /\ trx = [id |-> 0, cl |-> {}, ex |-> {}]
  /\ label = [n \in Node |-> Fresh]
  /\ stack = <<>> /\ detachable = Nobody /\ begun = 0

-----------------------------------------------------------------------------
(* Transactions.  A traversal's own label is its transaction and its colour. *)

Room == Cardinality(trx.cl) < Limit

\* What Trx_Begin(), which refuses when there is no room, hands out.
NewTrx == [id |-> trx.id, cl |-> Cardinality(trx.cl)]

\* Mutant: the label of an earlier transaction counts.
VisitedEver(cur, l) == cur.cl \in l.cl

Trx_HasVisited(cur, l) == l.id = cur.id /\ cur.cl \in l.cl

\* Mutant: the colours of other traversals are overwritten.
VisitAlone(cur, l) == [id |-> cur.id, cl |-> {cur.cl}]

\* The label after Trx_Visit(), which says yes unless Trx_HasVisited().
Trx_Visit(cur, l) ==
  IF l.id # cur.id THEN [id |-> cur.id, cl |-> {cur.cl}]
  ELSE [l EXCEPT !.cl = @ \cup {cur.cl}]

Trx_Sync(l) == IF l.id # trx.id THEN [id |-> trx.id, cl |-> {}] ELSE l

\* The last traversal to end begins the next transaction.
Trx_End(cur) ==
  IF trx.ex \cup {cur.cl} = trx.cl
  THEN trx' = [id |-> trx.id + 1, cl |-> {}, ex |-> {}]
  ELSE trx' = [trx EXCEPT !.ex = @ \cup {cur.cl}]

-----------------------------------------------------------------------------
(* Traversals.  `queue` holds the links to follow; `called` counts the calls *)
(* of node_cb and `seen` is history: what this traversal has visited.        *)

NewTraversal(way, head, fields) ==
  [way |-> way, head |-> head, fields |-> fields, cur |-> NewTrx, pc |-> "head",
   at |-> head, queue |-> {}, called |-> [n \in Node |-> 0], seen |-> {},
   origins |-> {}, err |-> FALSE]

Depth == Len(stack)
Top   == stack[Depth]
Pop   == SubSeq(stack, 1, Depth - 1)

\* The callback of verifyDetachableSubtree() starts no traversal.
Verifying == Depth = 2 /\ stack[1].way = "verify"

\* Other code runs: no traversal does, or the innermost is in a callback.
Outside == stack # <<>> => Top.pc \in {"head", "node"} /\ ~Verifying

\* Other code may begin a traversal if there is a colour left.
MayBegin == Outside /\ Room /\ begun < MaxBegun /\ begun' = begun + 1

\* BFS_TRAVERSE visits the head at once, dfs() and full_dfs() when they pop it.
BeginBfs(head, fields) ==
  LET t == NewTraversal("bfs", head, fields)
  IN  /\ MayBegin
      /\ trx' = [trx EXCEPT !.cl = @ \cup {t.cur.cl}]
      /\ label' = [label EXCEPT ![head] = Trx_Visit(t.cur, Trx_Sync(@))]
      /\ stack' = Append(stack, [t EXCEPT !.queue = {<<head, "head", head>>}, !.seen = {head}])
      /\ UNCHANGED <<graph, detachable>>

BeginDfs(head) ==
  LET t == NewTraversal("dfs", head, {"children"})
  IN  /\ MayBegin
      /\ trx' = [trx EXCEPT !.cl = @ \cup {t.cur.cl}]
      /\ label' = [label EXCEPT ![head] = Trx_Sync(@)]
      /\ stack' = Append(stack, [t EXCEPT !.queue = {<<head, "head", head>>}])
      /\ UNCHANGED <<graph, detachable>>

\* SelvaHierarchy_TraverseExpression(): the nodes one step away, by several fields
BeginFlat(head, fields) ==
  LET t == NewTraversal("flat", head, fields)
  IN  /\ MayBegin
      /\ trx' = [trx EXCEPT !.cl = @ \cup {t.cur.cl}]
      /\ stack' = Append(stack, [t EXCEPT !.queue = Links(head, fields)])
      /\ UNCHANGED <<graph, label, detachable>>

\* The next node: BFS has visited it when it was queued, the others do it now and
\* pass over it if it was visited already.
Step ==
  /\ stack # <<>> /\ Top.pc = "loop"
  /\ \E l \in Top.queue :
       LET n    == l[3]
           rest == [Top EXCEPT !.queue = @ \ {l}]
           node == [rest EXCEPT !.pc = "node", !.at = n, !.called[n] = @ + 1]
       IN  \/ /\ Top.way = "bfs"
              /\ stack' = [stack EXCEPT ![Depth] = node] /\ UNCHANGED label
           \/ /\ Top.way \in {"dfs", "flat"} /\ ~Trx_HasVisited(Top.cur, label[n])
              /\ stack' = [stack EXCEPT ![Depth] = [node EXCEPT !.seen = @ \cup {n}]]
              /\ label' = [label EXCEPT ![n] = Trx_Visit(Top.cur, @)]
           \/ /\ Top.way \in {"dfs", "flat"} /\ Trx_HasVisited(Top.cur, label[n])
              /\ stack' = [stack EXCEPT ![Depth] = rest] /\ UNCHANGED label
  /\ UNCHANGED <<graph, trx, detachable, begun>>

\* BFS visits the adjacents of the node at hand that it has not, and queues them; dfs()
\* queues them all.
New(t) ==
  IF t.way = "bfs" THEN {n \in Ends(Links(t.at, t.fields)) : ~Trx_HasVisited(t.cur, label[n])}
  ELSE {}

Queue(t) ==
  [t EXCEPT !.pc = "loop", !.seen = @ \cup New(t),
            !.queue = @ \cup CASE t.way = "bfs"  -> {<<t.head, "next", n>> : n \in New(t)}
                               [] t.way = "dfs"  -> Links(t.at, t.fields)
                               [] t.way = "flat" -> {}]

Visited(t) == [n \in Node |-> IF n \in New(t) THEN Trx_Visit(t.cur, label[n]) ELSE label[n]]

\* A callback returns 0.
Continue ==
  /\ stack # <<>> /\ ~Verifying
  /\ \/ Top.pc = "head" /\ stack' = [stack EXCEPT ![Depth].pc = "loop"] /\ UNCHANGED label
     \/ Top.pc = "node" /\ stack' = [stack EXCEPT ![Depth] = Queue(Top)] /\ label' = Visited(Top)
  /\ UNCHANGED <<graph, trx, detachable, begun>>

\* A callback returns something else, or a subtree that is met cannot be restored.
Stop ==
  /\ stack # <<>> /\ Top.pc \in {"head", "node"} /\ ~Verifying
  /\ Trx_End(Top.cur) /\ stack' = Pop
  /\ UNCHANGED <<graph, label, detachable, begun>>

Finish ==
  /\ stack # <<>> /\ Top.way # "verify" /\ Top.pc = "loop" /\ Top.queue = {}
  /\ Trx_End(Top.cur) /\ stack' = Pop
  /\ UNCHANGED <<graph, label, detachable, begun>>

-----------------------------------------------------------------------------
(* verifyDetachableSubtree(): a traversal within another that only keeps the *)
(* colour with which the callback marks the nodes it has approved.           *)

BeginVerify(head) ==
  LET outer == [NewTraversal("verify", head, {"children"}) EXCEPT !.pc = "loop"]
      inner == [NewTraversal("bfs", head, {"children"}) EXCEPT
                  !.cur.cl = outer.cur.cl + 1, !.queue = {<<head, "head", head>>},
                  !.seen = {head}, !.pc = "loop"]
  IN  /\ Outside /\ Fin /\ begun + 1 < MaxBegun /\ begun' = begun + 2
      /\ trx' = [trx EXCEPT !.cl = {outer.cur.cl, inner.cur.cl}]
      /\ label' = [label EXCEPT ![head] = Trx_Visit(inner.cur, @)]
      /\ stack' = Append(Append(stack, outer), inner)
      /\ detachable' = Nobody /\ UNCHANGED graph

\* Mutant: the parents of the nodes are not looked at.
AllApproved(outer, n) == n \in Node

\* All parents of a node but the head have been approved before it.
Approved(outer, n) ==
  n = outer.head \/ \A p \in Parents(n) : Trx_HasVisited(outer.cur, label[p])

\* The callback remembers whose edges refer to the node, approves of it and goes on.
Approve ==
  /\ Verifying /\ Top.pc = "node"
  /\ LET outer == stack[1]
         n     == Top.at
     IN  /\ Approved(outer, n)
         /\ stack' = <<[outer EXCEPT !.origins = @ \cup Origins(n), !.seen = @ \cup {n}], Queue(Top)>>
         /\ label' = [Visited(Top) EXCEPT ![n] = Trx_Visit(outer.cur, @)]
  /\ UNCHANGED <<graph, trx, detachable, begun>>

\* Or it stops the traversal: a parent has not been approved, or the node is marked.
Refuse ==
  /\ Verifying /\ Top.pc = "node"
  /\ stack' = <<[stack[1] EXCEPT !.origins = @ \cup Origins(Top.at), !.err = TRUE]>>
  /\ Trx_End(Top.cur)
  /\ UNCHANGED <<graph, label, detachable, begun>>

\* Of the nodes that refer to the subtree it asks whether the inner traversal, whose
\* colour is the next after its own, has visited them.
Within(t, n) == label[n].id = t.cur.id /\ t.cur.cl + 1 \in label[n].cl

EndVerify ==
  /\ Depth = 1 /\ Top.way = "verify"
  /\ detachable' = IF ~Top.err /\ \A o \in Top.origins : Within(Top, o) THEN {Top.head} ELSE Nobody
  /\ Trx_End(Top.cur) /\ stack' = Pop
  /\ UNCHANGED <<graph, label, begun>>

-----------------------------------------------------------------------------
(* Labels outside of traversals *)

\* A callback of one step (parents, children, an edge field) or an array stamps nodes.
Stamp(n) ==
  /\ Outside /\ label[n].id # trx.id
  /\ label' = [label EXCEPT ![n] = Trx_Sync(@)]
  /\ UNCHANGED <<graph, trx, stack, detachable, begun>>

\* A node that was not in memory is created or restored: no traversal that runs has
\* met it, for no subtree is compressed while one runs.
Recreate(n) ==
  /\ label[n] # Fresh
  /\ \A i \in 1 .. Depth : n \notin stack[i].seen /\ n \notin Ends(stack[i].queue)
  /\ label' = [label EXCEPT ![n] = Fresh]
  /\ UNCHANGED <<graph, trx, stack, detachable, begun>>

Next ==
  \/ \E n \in Node :
       \/ \E fields \in Fields : BeginBfs(n, fields) \/ BeginFlat(n, fields)
       \/ BeginDfs(n) \/ BeginVerify(n) \/ Stamp(n) \/ Recreate(n)
  \/ Step \/ Continue \/ Stop \/ Finish \/ Approve \/ Refuse \/ EndVerify

Spec == Init /\ [][Next]_vars

-----------------------------------------------------------------------------
(* Properties *)

\* What is reached from a node: in every set that the node is in and the links do not
\* lead out of.
Reach(head, fields) ==
  {n \in Node : \A S \in SUBSET Node :
     (head \in S /\ \A m \in S : Ends(Links(m, fields)) \subseteq S) => n \in S}

ToCall(t) == IF t.way = "flat" THEN Ends(Links(t.head, t.fields)) ELSE Reach(t.head, t.fields)

\* The labels tell of each running traversal exactly what it has visited, however many
\* share them and whatever earlier transactions left in them.
LabelsAgree ==
  \A i \in 1 .. Depth : \A n \in Node :
    Trx_HasVisited(stack[i].cur, label[n]) <=> n \in stack[i].seen

\* Colours are in use only while a traversal runs: none is lost by the ways out of one.
Released == Fin <=> stack = <<>>

Isolated == LabelsAgree /\ Released

\* A traversal that comes to its end has called back once for every node that it
\* reaches, whatever its callbacks have traversed meanwhile, and it never calls twice.
Complete ==
  \A i \in 1 .. Depth :
    LET t == stack[i]
    IN  /\ \A n \in Node : t.called[n] <= 1
        /\ (t.way # "verify" /\ t.pc = "loop" /\ t.queue = {})
             => {n \in Node : t.called[n] = 1} = ToCall(t)

\* A subtree that is accepted for detaching is closed: its nodes have no parents and no
\* edges that refer to them outside of it, the parents of its head aside.
Verified ==
  \A h \in detachable : \A n \in Reach(h, {"children"}) :
    (Parents(n) \subseteq Reach(h, {"children"}) \/ n = h) /\ Origins(n) \subseteq Reach(h, {"children"})

=============================================================================
