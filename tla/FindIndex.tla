------------------------------- MODULE FindIndex -------------------------------
(***************************************************************************)
(* Find indices.  A find command names hints, filters of which the server  *)
(* keeps a control block each; those that look worth it get an index: a    *)
(* marker over the traversal of the query, and the result of the filter on *)
(* the nodes that it visits.  The marker's callback keeps the result up to *)
(* date, or destroys it, and a timer builds it again.                      *)
(*                                                                         *)
(* Which hints are popular is left open.  All indices belong to one        *)
(* subscription, whose markers are refreshed together.  A hint stands for  *)
(* a filter, a head, a direction and, if ordered, the field to order by.   *)
(* A command is one action, but for the deletion of a node: it recurses    *)
(* through the graph it is changing, and `calls` is its C stack.           *)
(***************************************************************************)
EXTENDS Naturals, Sequences, FiniteSets

CONSTANTS
  Node, Root,
  Hints,
  Queries,     \* what they may stand for: [root, dir, ordered]
  Keys,        \* values of the field to order by; 0 before it is set
  MaxIndices, ListSize,   \* find_indices_max, and twice that in the code
  MaxHints,    \* FIND_INDICES_MAX_HINTS
  MaxLinks     \* bound on the links of the graph

ASSUME FindIndexAssumption ==
  /\ Root \in Node /\ 0 \in Keys
  /\ Queries \subseteq [Hints -> [root : Node, dir : {"descendants", "ancestors"}, ordered : BOOLEAN]]
  /\ {MaxIndices, ListSize, MaxHints, MaxLinks} \subseteq Nat

VARIABLES
  db,     \* nodes, links, match (nodes that pass the filter), key, and the control blocks
  list,   \* the hints in top_indices
  query,  \* what the hints stand for
  calls   \* activations of DelHierarchyNodeP, the outermost first

vars == <<db, list, query, calls>>

\* A control block, marks being the nodes with the index's marker.  History: left, nodes
\* that stopped matching when they were listed; graft, a link has led to nodes that
\* have none of the index's markers.
NoBlock == [known |-> FALSE, active |-> FALSE, valid |-> FALSE, marks |-> {}, res |-> {},
            left |-> {}, graft |-> FALSE]

-----------------------------------------------------------------------------
(* Traversals *)

Way(s, dir) == IF dir = "descendants" THEN s.links ELSE {<<e[2], e[1]>> : e \in s.links}

Next1(R, n) == {e[2] : e \in {e \in R : e[1] = n}}

\* What is reached from n is the least set that contains it and is closed under R.
Reach(R, n) ==
  LET closed == {S \in SUBSET Node : n \in S /\ \A e \in R : e[1] \in S => e[2] \in S}
  IN  {m \in Node : \A S \in closed : m \in S}

Visits(s, h, n) == IF n \in s.nodes THEN Reach(Way(s, query[h].dir), n) ELSE {}
Span(s, h)      == Visits(s, h, query[h].root)
On(s, n)        == {h \in Hints : n \in s.index[h].marks}

-----------------------------------------------------------------------------
(* The callback, update_index() *)

\* What Op makes of the control block of each hint.
Each(s, Op(_, _)) == [s EXCEPT !.index = [h \in Hints |-> Op(h, s.index[h])]]

Item(s, h, n) == <<n, IF query[h].ordered THEN s.key[n] ELSE 0>>

\* skip_node(), Selva_SubscriptionFilterMatch(), icb_res_add()
Listing(s, h, N) == {Item(s, h, n) : n \in (N \cap s.match) \ {query[h].root}}
Listed(s, h)     == {i[1] : i \in s.index[h].res}

\* icb_res_destroy()
Emptied(i) == [i EXCEPT !.valid = FALSE, !.res = {}, !.left = {}]

\* Additive events on the nodes N: they are added if they match, and never removed.
Noted(s, N) ==
  LET Added(h, i) ==
        IF i.valid THEN [i EXCEPT !.res = @ \cup Listing(s, h, N \cap i.marks)] ELSE i
  IN  Each(s, Added)

\* ClearAllMarkers(), with its event that destroys the results.
ClearAll(s, n) ==
  LET Cleared(h, i) ==
        IF n \in i.marks THEN [Emptied(i) EXCEPT !.marks = @ \ (Visits(s, h, n) \cup {n})] ELSE i
  IN  Each(s, Cleared)

\* Refreshing the markers of some indices: an event for each node that is visited.
\* Nothing is visited when the head is not there.
Refresh(s, H) ==
  LET Filled(h, i) ==
        LET span == Span(s, h)
        IN  IF h \in H
            THEN [i EXCEPT !.marks = @ \cup span, !.res = @ \cup Listing(s, h, span),
                           !.valid = @ \/ span # {}, !.graft = FALSE]
            ELSE i
  IN  Each(s, Filled)

Active(s) == {h \in Hints : s.index[h].active}

\* RefreshByMarker(): the whole subscription, once for each of the markers
RefreshBy(s, M) == IF M = {} THEN s ELSE Refresh(s, Active(s))

-----------------------------------------------------------------------------
(* The graph *)

\* InheritParent() and InheritChild(): from n to a node m that is now next to it.  If the
\* traversal would go on from m, the markers on n are told instead.
Inherit(s, dir, n, m) ==
  LET leaf == Next1(Way(s, dir), m) = {}
      Heir(h, i) ==
        IF n \notin i.marks \/ query[h].dir # dir THEN i
        ELSE IF leaf THEN [i EXCEPT !.marks = @ \cup {m}]
        ELSE [i EXCEPT !.graft = @ \/ m \notin i.marks]
  IN  Each(IF leaf THEN s ELSE Noted(s, {n}), Heir)

InsertLink(s, p, c) ==
  LET linked == [s EXCEPT !.links = @ \cup {<<p, c>>}]
      heard  == Inherit(Inherit(linked, "descendants", p, c), "ancestors", c, p)
  IN  Noted(heard, {p, c})

\* crossRemove() of the links R between n and the nodes of S
CrossRemove(s, n, R, S) ==
  LET cut == [ClearAll(s, n) EXCEPT !.links = @ \ R]
  IN  RefreshBy(Noted(cut, S), On(s, n))

\* The end of del_node().  The root is never destroyed: without fields it may match.
DestroyNode(s, n, matches) ==
  LET Unmarked(h, i) == [i EXCEPT !.marks = @ \ {n}]
      bare == [s EXCEPT !.match = @ \ {n}, !.key[n] = 0]
  IN  IF n = Root THEN [bare EXCEPT !.match = IF matches THEN @ \cup {n} ELSE @]
      ELSE Each([bare EXCEPT !.nodes = @ \ {n}], Unmarked)

Commit(s) == db' = s /\ UNCHANGED <<list, query, calls>>

Room == Cardinality(db.links) < MaxLinks

\* Its fields are not set yet: the filter may ask for that.
CreateNode(n, matches, noRoot) ==
  /\ n \notin db.nodes /\ (noRoot \/ Room)
  /\ LET s == [db EXCEPT !.nodes = @ \cup {n}, !.match = IF matches THEN @ \cup {n} ELSE @]
     IN  Commit(IF noRoot THEN s ELSE InsertLink(s, Root, n))

AddLink(p, c) ==
  /\ p # c /\ {p, c} \subseteq db.nodes /\ <<p, c>> \notin db.links /\ Room
  /\ Commit(Noted(InsertLink(db, p, c), {p, c}))

DelParent(p, c) ==
  /\ {p, c} \subseteq db.nodes /\ <<p, c>> \in db.links
  /\ Commit(Noted(CrossRemove(db, c, {<<p, c>>}, {p}), {c}))

DelChild(p, c) ==
  /\ {p, c} \subseteq db.nodes /\ <<p, c>> \in db.links
  /\ Commit(Noted(CrossRemove(db, p, {<<p, c>>}, {c}), {p}))

\* Edge_Delete() clears the markers of the source; edges are not kept here.
DelEdge(n) == n \in db.nodes /\ Commit(ClearAll(db, n))

-----------------------------------------------------------------------------
(* selva.hierarchy.del: SelvaModify_DelHierarchyNodeP() *)

Idle == calls = <<>>
Last == Len(calls)

\* The markers and the links to the parents go first; then the children are listed once.
Enter(s, stack, n, force) ==
  LET ps  == Next1(Way(s, "ancestors"), n)
      cut == CrossRemove(ClearAll(s, n), n, ps \X {n}, ps)
  IN  /\ db' = cut
      /\ calls' = Append(stack, [node |-> n, todo |-> Next1(cut.links, n), force |-> force])

DelNode(n, force) ==
  /\ n \in db.nodes
  /\ Enter(db, calls, n, force)
  /\ UNCHANGED <<list, query>>

\* One listed child, that the edges which refer to it may have `kept`.
NextChild(c, kept) ==
  /\ c \in calls[Last].todo
  /\ LET top  == calls[Last]
         rest == [calls EXCEPT ![Last].todo = @ \ {c}]
         cut  == CrossRemove(db, top.node, {<<top.node, c>>}, {c})
         goes == top.force \/ (Next1(Way(cut, "ancestors"), c) = {} /\ ~kept)
     IN  \/ c \notin db.nodes /\ db' = db /\ calls' = rest
         \/ c \in db.nodes /\ ~goes /\ db' = cut /\ calls' = rest
         \/ c \in db.nodes /\ goes /\ Enter(cut, rest, c, top.force)
  /\ UNCHANGED <<list, query>>

Return(matches) ==
  /\ calls[Last].todo = {}
  /\ db' = DestroyNode(db, calls[Last].node, matches)
  /\ calls' = SubSeq(calls, 1, Last - 1)
  /\ UNCHANGED <<list, query>>

-----------------------------------------------------------------------------
(* Fields *)

\* A field that the filter reads: the callback is told when the node matches before or
\* after, and adds it or does nothing.
SetMatch(n) ==
  LET Left(h, i) == [i EXCEPT !.left = IF n \in Listed(db, h) THEN @ \cup {n} ELSE @]
  IN  /\ n \in db.nodes
      /\ IF n \notin db.match THEN Commit(Noted([db EXCEPT !.match = @ \cup {n}], {n}))
         ELSE Commit(Each([db EXCEPT !.match = @ \ {n}], Left))

\* Mutant: ordered results are kept.
Rekeyed(s, n) == Noted(s, {n})

\* The field to order by: ordered results are destroyed.
Reordered(s, n) ==
  LET Moved(h, i) ==
        IF n \in i.marks /\ query[h].ordered /\ n # query[h].root THEN Emptied(i) ELSE i
  IN  Each(Noted(s, {n}), Moved)

\* Nobody is told when the node does not match.
SetKey(n, k) ==
  /\ n \in db.nodes /\ k # db.key[n]
  /\ LET s == [db EXCEPT !.key[n] = k]
     IN  Commit(IF n \in db.match THEN Reordered(s, n) ELSE s)

-----------------------------------------------------------------------------
(* Control blocks *)

\* upsert_icb(), when a command names the hint and there is a marker id left
Find(h) ==
  /\ ~db.index[h].known /\ Cardinality({k \in Hints : db.index[k].known}) < MaxHints
  /\ Commit([db EXCEPT !.index[h].known = TRUE])

\* icb_proc(), when it scores high enough
Consider(h) ==
  /\ db.index[h].known /\ h \notin list /\ Cardinality(list) < ListSize
  /\ list' = list \cup {h} /\ UNCHANGED <<db, query, calls>>

\* Mutant: the marker stays on the nodes.
ForgetMarker(s, h) == [Emptied(s.index[h]) EXCEPT !.active = FALSE, !.graft = FALSE]

\* discard_index(): the marker is cleared from where it leads now, and freed.
Discarded(s, h) ==
  [Emptied(s.index[h]) EXCEPT !.active = FALSE, !.graft = FALSE, !.marks = @ \ Span(s, h)]

\* make_indexing_decission_proc(): when the list is full those below the median are
\* dropped, and some of them destroyed; then the list is gone through in any order,
\* indices are started up to the maximum, and built where they are not valid.
Decide(dropped, destroyed) ==
  LET Drop(h, i) ==
        IF h \in dropped THEN [Discarded(db, h) EXCEPT !.known = h \notin destroyed] ELSE i
      rest  == list \ dropped
      kept  == Each(db, Drop)
      fresh == rest \ Active(kept)
      room  == MaxIndices - Cardinality(Active(kept))
  IN  /\ dropped # {} => Cardinality(list) = ListSize
      /\ 2 * Cardinality(dropped) <= ListSize
      /\ \E start \in SUBSET fresh :
           LET Started(h, i) == [i EXCEPT !.active = @ \/ h \in start]
               s == Each(kept, Started)
           IN  /\ Cardinality(start) <= room
               /\ start = fresh \/ Cardinality(start) = room
               /\ db' = Refresh(s, {h \in rest \cap Active(s) : ~s.index[h].valid})
      /\ list' = rest /\ UNCHANGED <<query, calls>>

\* SelvaFindIndex_DelCommand(): at any time
Delete(h, discard) ==
  /\ db.index[h].known
  /\ db' = [db EXCEPT !.index[h] = [Discarded(db, h) EXCEPT !.known = discard]]
  /\ list' = list \ {h} /\ UNCHANGED <<query, calls>>

-----------------------------------------------------------------------------

Init ==
  /\ query \in Queries /\ list = {} /\ calls = <<>>
  /\ db = [nodes |-> {Root}, links |-> {}, match |-> {}, key |-> [n \in Node |-> 0],
           index |-> [h \in Hints |-> NoBlock]]

Command ==
  \/ \E n \in Node, matches, noRoot \in BOOLEAN : CreateNode(n, matches, noRoot)
  \/ \E p, c \in Node : AddLink(p, c) \/ DelParent(p, c) \/ DelChild(p, c)
  \/ \E n \in Node, force \in BOOLEAN : DelNode(n, force)
  \/ \E n \in Node : DelEdge(n) \/ SetMatch(n) \/ \E k \in Keys : SetKey(n, k)
  \/ \E h \in Hints : Find(h) \/ Consider(h)
  \/ \E h \in Hints, discard \in BOOLEAN : Delete(h, discard)
  \/ \E dropped \in SUBSET list : \E destroyed \in SUBSET dropped : Decide(dropped, destroyed)

Next ==
  \/ Idle /\ Command
  \/ ~Idle /\ \E matches \in BOOLEAN : Return(matches)
  \/ ~Idle /\ \E c \in Node, kept \in BOOLEAN : NextChild(c, kept)

Spec == Init /\ [][Next]_vars

-----------------------------------------------------------------------------
(* Properties *)

\* What a find command takes from a valid index, without traversing, is what it would
\* find: every node that the traversal visits and that matches, once and under its
\* present key, unless a subtree was linked below a marked node without being marked;
\* and no other node, unless one has stopped matching since it was listed
\* (SelvaFindIndex_Traverse(), update_index()).
Usable ==
  \A h \in {h \in Hints : db.index[h].valid} :
    LET index == db.index[h]
        found == Listing(db, h, Span(db, h))
    IN  /\ index.graft \/ found \subseteq index.res
        /\ \A i \in index.res : i \in found \/ i[1] \in index.left

\* Markers call back into a control block: one that does not index any more has none on
\* any node, and every node listed by one that does has its marker, as has the head, so
\* that the deletion of any of them is noticed.  What is indexed is in the list, from
\* which alone it can be dropped, and what is in the list has not been destroyed
\* (discard_index(), destroy_icb(), make_indexing_decission_proc()).
Owned ==
  /\ \A h \in Hints :
       LET index == db.index[h]
       IN  /\ index.active => h \in list
           /\ ~index.active => index.marks = {} /\ ~index.valid
           /\ index.valid => Listed(db, h) \cup {query[h].root} \subseteq index.marks
           /\ h \in list => index.known
  /\ Cardinality(Active(db)) <= MaxIndices

=============================================================================
