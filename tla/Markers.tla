-------------------------------- MODULE Markers --------------------------------
(***************************************************************************)
(* The markers of one subscription.  A marker stands for a traversal; every *)
(* node it visits carries a pointer to it, so that a change of the node     *)
(* finds the subscription.  The graph changes under the markers: they are   *)
(* inherited, cleared from a node onwards, and set again by a refresh, the  *)
(* server's own or the one a client sends after an update event.            *)
(*                                                                          *)
(* A command that names several nodes is the sequence of its steps; the     *)
(* events it defers are sent when it ends.  A command is one action, but    *)
(* for the deletion of a node: it recurses through the graph it is          *)
(* changing, and `calls` is its C stack.                                    *)
(***************************************************************************)
EXTENDS Naturals, Sequences, FiniteSets

CONSTANTS
  Node, Root,
  Ids,                 \* the markers' ids
  Queries,             \* what they stand for together: [root, dir, watch], or Unset
  MaxLinks, MaxPairs,  \* bounds on the graph: links, and links with arcs
  Unset, Freed         \* what an id stands for before and after

Dirs     == {"node", "children", "parents", "descendants", "ancestors", "edge", "edges"}
EdgeDirs == {"edge", "edges"}          \* EDGE_FIELD and BFS_EDGE_FIELD
OneStep  == {"children", "parents", "edge"}

ASSUME MarkersAssumption ==
  /\ Root \in Node
  /\ \A q \in Queries : q \in [Ids -> [root : Node, dir : Dirs, watch : BOOLEAN] \cup {Unset}]

VARIABLES
  db,      \* the graph and its markers
  bidir,   \* whether the edge field is bidirectional
  torn,    \* markers over one step that a command left on nodes, but not on their root
  calls    \* activations of DelHierarchyNodeP, the outermost first

vars == <<db, bidir, torn, calls>>

(***************************************************************************)
(* Traversals.                                                             *)
(***************************************************************************)

Next1(R, n) == {e[2] : e \in {e \in R : e[1] = n}}
Flip(R)     == {<<e[2], e[1]>> : e \in R}

\* What is reached from n is the least set that contains it and is closed under R.
Reach(R, n) ==
  LET closed == {S \in SUBSET Node : n \in S /\ \A e \in R : e[1] \in S => e[2] \in S}
  IN  {m \in Node : \A S \in closed : m \in S}

\* What a marker follows.
Way(s, dir) ==
  IF dir \in {"children", "descendants"} THEN s.links
  ELSE IF dir \in {"parents", "ancestors"} THEN Flip(s.links)
  ELSE IF dir \in EdgeDirs THEN s.arcs ELSE {}

\* The nodes visited from n: the markers always visit the head.
Visits(s, dir, n) ==
  IF n \notin s.nodes THEN {}
  ELSE IF dir \in OneStep THEN {n} \cup Next1(Way(s, dir), n)
  ELSE Reach(Way(s, dir), n)

Live(s)    == {m \in Ids : s.def[m] \notin {Unset, Freed}}
Span(s, m) == Visits(s, s.def[m].dir, s.def[m].root)
On(s, n)   == {m \in Live(s) : n \in s.marks[m]}

(***************************************************************************)
(* Setting, clearing and telling.                                          *)
(***************************************************************************)

Set(s, M, n) == [s EXCEPT !.marks = [m \in Ids |-> IF m \in M THEN @[m] \cup {n} ELSE @[m]]]

\* defer_update_event()
Tell(s, M) == IF M = {} THEN s ELSE [s EXCEPT !.stale = TRUE]

\* DeferHierarchyEvents(), for the markers that watch the fields of the hierarchy.
TellWatchers(s, n) == Tell(s, {m \in On(s, n) : s.def[m].watch})

\* DeferFieldChangeEvents() for each of the nodes N: markers over children or parents
\* say nothing of their root.
TellChanged(s, N) ==
  Tell(s, {m \in Live(s) :
             \E n \in N \cap s.marks[m] :
               /\ s.def[m].watch
               /\ s.def[m].dir \in {"children", "parents"} => s.def[m].root # n})

\* Mutant: nobody is told.
ClearQuietly(s, n) ==
  [s EXCEPT !.marks = [m \in Ids |->
     IF m \in On(s, n) THEN @[m] \ Visits(s, s.def[m].dir, n) ELSE @[m]]]

\* ClearAllMarkers(): along the direction of each, starting from this node.
ClearAll(s, n) ==
  LET M == On(s, n)
      t == [s EXCEPT !.marks = [m \in Ids |->
             (IF m \in M THEN @[m] \ Visits(s, s.def[m].dir, n) ELSE @[m]) \ {n}]]
  IN  Tell(t, M)

\* refreshSubscription()
Refresh(s) ==
  [s EXCEPT !.marks = [m \in Ids |-> IF m \in Live(s) THEN @[m] \cup Span(s, m) ELSE @[m]]]

\* RefreshByMarker()
RefreshBy(s, M) == IF M = {} THEN s ELSE Refresh(s)

\* delete_marker(): each is cleared from the nodes that it visits now, and freed.
DeleteMarkers(s, M) ==
  [s EXCEPT !.marks = [m \in Ids |-> IF m \in M THEN @[m] \ Span(s, m) ELSE @[m]],
            !.def   = [m \in Ids |-> IF m \in M THEN Freed ELSE @[m]]]

(***************************************************************************)
(* Inheritance.                                                            *)
(***************************************************************************)

\* Mutant: what is below the new child is forgotten.
InheritLeaf(s, c, p) ==
  Set(s, {m \in On(s, p) : \/ s.def[m].dir = "descendants"
                           \/ s.def[m].dir = "children" /\ s.def[m].root = p}, c)

\* InheritParent(): a child that has children is left to a refresh.
InheritParent(s, c, p) ==
  IF Next1(s.links, c) # {} THEN Tell(s, On(s, p))
  ELSE Set(s, {m \in On(s, p) : \/ s.def[m].dir = "descendants"
                                \/ s.def[m].dir = "children" /\ s.def[m].root = p}, c)

InheritChild(s, p, c) ==
  IF Next1(Flip(s.links), p) # {} THEN Tell(s, On(s, c))
  ELSE Set(s, {m \in On(s, c) : \/ s.def[m].dir = "ancestors"
                                \/ s.def[m].dir = "parents" /\ s.def[m].root = c}, p)

\* InheritEdge(): a destination that has the field too is left to a refresh.
InheritEdge(s, a, b) ==
  LET heirs == {m \in On(s, a) : \/ s.def[m].dir = "edges"
                                 \/ s.def[m].dir = "edge" /\ s.def[m].root = a}
  IN  Tell(Set(s, heirs, b), {m \in heirs : s.def[m].dir = "edge" \/ b \in s.fields})

(***************************************************************************)
(* The graph.                                                              *)
(***************************************************************************)

InsertLink(s, p, c) ==
  LET t == [s EXCEPT !.links = @ \cup {<<p, c>>}]
  IN  TellWatchers(TellWatchers(InheritChild(InheritParent(t, c, p), p, c), c), p)

\* Mutant: the markers that were cleared are not set again.
CrossRemoveOnly(s, n, R, S) ==
  TellChanged([ClearAll(s, n) EXCEPT !.links = @ \ R], S)

\* crossRemove() of the links R between n and the nodes of S, and removeRelationships().
CrossRemove(s, n, R, S) ==
  LET cut == [ClearAll(s, n) EXCEPT !.links = @ \ R]
  IN  RefreshBy(TellChanged(cut, S), On(s, n))

InsertArc(s, a, b) == [s EXCEPT !.arcs = @ \cup {<<a, b>>}, !.fields = @ \cup {a}]

\* Edge_Add(): the edge back comes first and inherits first.
EdgeAdd(s, a, b) ==
  LET there == InsertArc(s, a, b)
  IN  InheritEdge(IF bidir THEN InheritEdge(InsertArc(there, b, a), b, a) ELSE there, a, b)

\* remove_related_edge_markers(): the subscription's markers on the destination
\* go with an edge that its own edge markers start with.
RemoveRelated(s, a, b) ==
  LET Own(M) == {m \in M : s.def[m].dir \in EdgeDirs /\ s.def[m].root = a}
      gone   == On(s, b) \ Own(On(s, b))
  IN  IF Own(On(s, a)) = {} THEN s ELSE DeleteMarkers(Tell(s, gone), gone)

\* Mutant: the markers are left alone.
DropArcOnly(s, a, b) == [s EXCEPT !.arcs = @ \ {<<a, b>>}]

\* Edge_Delete(): the markers of the source are cleared and nothing sets them again.
DropArc(s, a, b) ==
  IF <<a, b>> \notin s.arcs THEN s
  ELSE [ClearAll(RemoveRelated(s, a, b), a) EXCEPT !.arcs = @ \ {<<a, b>>}]

EdgeDelete(s, a, b) == IF bidir THEN DropArc(DropArc(s, a, b), b, a) ELSE DropArc(s, a, b)

\* The end of del_node().  The root is never destroyed, and keeps its edge fields.
DestroyNode(s, n) ==
  IF n = Root THEN s ELSE
  [s EXCEPT !.nodes = @ \ {n}, !.fields = @ \ {n},
            !.arcs  = {e \in @ : n \notin {e[1], e[2]}},
            !.marks = [m \in Ids |-> @[m] \ {n}]]

(***************************************************************************)
(* The commands.                                                           *)
(***************************************************************************)

\* Bounds: what may still be added, until the last marker is freed.
Room(links, pairs) ==
  /\ \E m \in Ids : db.def[m] # Freed
  /\ Cardinality(db.links) + links <= MaxLinks
  /\ Cardinality(db.links) + Cardinality(db.arcs) + pairs <= MaxPairs

Torn(s) == {m \in Live(s) : /\ s.def[m].dir \in OneStep
                            /\ s.marks[m] # {} /\ s.def[m].root \notin s.marks[m]}

Commit(s) ==
  /\ db' = s /\ torn' = torn \cup Torn(s) /\ UNCHANGED <<bidir, calls>>

Init ==
  /\ db = [nodes |-> {Root}, links |-> {}, arcs |-> {}, fields |-> {}, missing |-> {},
           def |-> [m \in Ids |-> Unset], marks |-> [m \in Ids |-> {}], stale |-> FALSE]
  /\ bidir \in BOOLEAN /\ torn = {} /\ calls = <<>>

\* A new node, under the root or on its own; those who missed it are told.
CreateNode(n, noRoot) ==
  /\ n \notin db.nodes
  /\ IF noRoot THEN Room(0, 0) ELSE Room(1, 1)
  /\ LET s == [db EXCEPT !.nodes = @ \cup {n}, !.missing = @ \ {n},
                         !.stale = @ \/ n \in db.missing]
     IN  Commit(IF noRoot THEN s ELSE InsertLink(s, Root, n))

AddLink(p, c) ==
  /\ p # c /\ {p, c} \subseteq db.nodes /\ <<p, c>> \notin db.links /\ Room(1, 1)
  /\ Commit(TellChanged(InsertLink(db, p, c), {p, c}))

DelParents(n, S) ==
  /\ n \in db.nodes /\ S # {} /\ S \subseteq Next1(Flip(db.links), n)
  /\ Commit(TellChanged(CrossRemove(db, n, S \X {n}, S), {n}))

DelChildren(n, S) ==
  /\ n \in db.nodes /\ S # {} /\ S \subseteq Next1(db.links, n)
  /\ Commit(TellChanged(CrossRemove(db, n, {n} \X S, S), {n}))

AddEdge(a, b) ==
  /\ a # b /\ {a, b} \subseteq db.nodes /\ <<a, b>> \notin db.arcs
  /\ Room(0, IF bidir /\ <<b, a>> \notin db.arcs THEN 2 ELSE 1)
  /\ Commit(TellChanged(EdgeAdd(db, a, b), {a}))

DelEdge(a, b) ==
  /\ <<a, b>> \in db.arcs
  /\ Commit(TellChanged(EdgeDelete(db, a, b), {a}))

\* A new marker is set by the refresh that its client sends next.
AddMarker(m, q) ==
  /\ db.def[m] = Unset /\ q[m] # Unset /\ \A k \in Ids : db.def[k] \in {Unset, q[k]}
  /\ Commit([db EXCEPT !.def[m] = q[m], !.stale = TRUE])

\* A client that finds no node registers its id before it is done.
AddMissing(n) ==
  /\ n \notin db.nodes /\ \E m \in Live(db) : db.def[m].root = n
  /\ Commit([db EXCEPT !.missing = @ \cup {n}])

RefreshCommand ==
  /\ Live(db) # {}
  /\ \A m \in Live(db) : db.def[m].root \in db.nodes \cup db.missing
  /\ Commit([Refresh(db) EXCEPT !.stale = FALSE])

DelMarker(m) ==
  /\ m \in Live(db)
  /\ Commit(DeleteMarkers(db, {m}))

\* destroy_sub()
DelSubscription ==
  /\ Live(db) # {}
  /\ Commit([DeleteMarkers(db, Live(db)) EXCEPT !.missing = {}])

(***************************************************************************)
(* The deletion of a node: SelvaModify_DelHierarchyNodeP().                *)
(***************************************************************************)

Idle == calls = <<>>
Last == Len(calls)

\* The markers and the links to the parents go first; then the children are listed once.
Enter(s, stack, n, force) ==
  LET ps     == Next1(Flip(s.links), n)
      orphan == CrossRemove(ClearAll(s, n), n, ps \X {n}, ps)
  IN  /\ db' = orphan
      /\ calls' = Append(stack, [node |-> n, todo |-> Next1(orphan.links, n), force |-> force])

DelNode(n, force) ==
  /\ n \in db.nodes
  /\ Enter(db, calls, n, force)
  /\ UNCHANGED <<bidir, torn>>

\* One listed child, unless it has gone with another: it goes too when no parent and no
\* edge leads to it any more.
NextChild(c) ==
  /\ c \in calls[Last].todo
  /\ LET top  == calls[Last]
         rest == [calls EXCEPT ![Last].todo = @ \ {c}]
         cut  == CrossRemove(db, top.node, {<<top.node, c>>}, {c})
         goes == top.force \/ Next1(Flip(cut.links), c) \cup Next1(Flip(cut.arcs), c) = {}
     IN  \/ c \notin db.nodes /\ db' = db /\ calls' = rest
         \/ c \in db.nodes /\ ~goes /\ db' = cut /\ calls' = rest
         \/ c \in db.nodes /\ goes /\ Enter(cut, rest, c, top.force)
  /\ UNCHANGED <<bidir, torn>>

Return ==
  /\ calls[Last].todo = {}
  /\ db' = DestroyNode(db, calls[Last].node)
  /\ calls' = SubSeq(calls, 1, Last - 1)
  /\ torn' = IF Last = 1 THEN torn \cup Torn(db') ELSE torn
  /\ UNCHANGED bidir

Command ==
  \/ \E n \in Node, noRoot \in BOOLEAN : CreateNode(n, noRoot)
  \/ \E p, c \in Node : AddLink(p, c) \/ AddEdge(p, c) \/ DelEdge(p, c)
  \/ \E n \in Node : \E S \in SUBSET Node : DelParents(n, S) \/ DelChildren(n, S)
  \/ \E n \in Node, force \in BOOLEAN : DelNode(n, force)
  \/ \E m \in Ids : DelMarker(m) \/ \E q \in Queries : AddMarker(m, q)
  \/ \E n \in Node : AddMissing(n)
  \/ RefreshCommand
  \/ DelSubscription

Next ==
  \/ Idle /\ Command
  \/ ~Idle /\ (Return \/ \E c \in Node : NextChild(c))

Spec == Init /\ [][Next]_vars

(***************************************************************************)
(* Properties.                                                             *)
(***************************************************************************)

\* Every node that a marker visits carries it, unless the client has been told to
\* evaluate its query again (or has just added the marker) and has yet to refresh.
Covered == ~db.stale => \A m \in Live(db) : Span(db, m) \subseteq db.marks[m]

\* No node carries a marker that does not visit it, nor one that was freed: the
\* pointers that ClearAllMarkers() and delete_marker() leave behind are found by
\* following the marker, so the nodes that carry it must stay reachable from its
\* root.  A marker over one step (children, parents, an edge field) may lose its root
\* first, when a node that it visits is deleted and leads back to the root; from then
\* on nothing clears the others.
NothingStray ==
  \A m \in Ids \ (torn \cup Torn(db)) :
    IF m \in Live(db) THEN db.marks[m] \subseteq Span(db, m) ELSE db.marks[m] = {}

\* When the nodes that a marker visits change, its subscription is told, if it
\* watches the fields of the hierarchy and was up to date.
Told ==
  [][\A m \in Live(db) :
       (/\ ~db.stale /\ m \in Live(db)' /\ db.def[m].watch
        /\ Span(db, m) # Span(db, m)')
       => db.stale']_vars

\* Removing links from a node, crossRemove() clears its markers and sets them again:
\* a marker that every node carried is carried by all that it still visits.
Restored ==
  [][(Idle /\ Idle' /\ db'.links # db.links /\ db'.links \subseteq db.links)
     => \A m \in Live(db) :
          Span(db, m) \subseteq db.marks[m] => Span(db, m)' \subseteq db'.marks[m]]_vars

=============================================================================
