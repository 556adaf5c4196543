---------------------------- MODULE FindIndexProofs ----------------------------
(***************************************************************************)
(* What a find command takes from a valid index is what it would find, and *)
(* no marker outlives its index: for any number of nodes, links, hints and *)
(* keys, whatever commands change the graph, and in the middle of a        *)
(* deletion.                                                               *)
(*                                                                         *)
(* A marker is cleared by following it, from the node that changes or from *)
(* the head of its query.  That this finds every node that has it is what  *)
(* Rooted says; the other parts are what makes it inductive.               *)
(***************************************************************************)
EXTENDS FindIndex, TLAPS, FiniteSetTheorems

Blocks == [known : BOOLEAN, active : BOOLEAN, valid : BOOLEAN, marks : SUBSET Node,
           res : SUBSET (Node \X Keys), left : SUBSET Node, graft : BOOLEAN]

States == [nodes : SUBSET Node, links : SUBSET (Node \X Node), match : SUBSET Node,
           key : [Node -> Keys], index : [Hints -> Blocks]]

Activations == [node : Node, todo : SUBSET Node, force : BOOLEAN]

Links(s, h) == Way(s, query[h].dir)
Origin(h)   == query[h].root

-----------------------------------------------------------------------------
(* The inductive invariant *)

TypeOK ==
  /\ db \in States /\ query \in Queries /\ list \in SUBSET Hints /\ IsFiniteSet(list)
  /\ calls \in Seq(Activations)

\* A set with the head that is closed under the links between nodes with the marker
\* holds all of these: each is reached from the head through others.
Rooted(s, h) ==
  \A S \in SUBSET Node :
    (/\ Origin(h) \in S
     /\ \A e \in Links(s, h) :
          (e[1] \in S /\ e[1] \in s.index[h].marks /\ e[2] \in s.index[h].marks) => e[2] \in S)
    => s.index[h].marks \subseteq S

\* No marks without an index, no results without a valid one.
Quiet(s, h) ==
  /\ ~s.index[h].active => s.index[h].marks = {} /\ ~s.index[h].valid
  /\ ~s.index[h].valid => s.index[h].res = {}

Watched(s, h) ==
  s.index[h].valid => Listed(s, h) \cup {Origin(h)} \subseteq s.index[h].marks

\* What has the marker and matches is listed, but for the nodes N, of which the callback
\* has yet to hear.
Complete(s, h, N) ==
  s.index[h].valid => Listing(s, h, s.index[h].marks \ N) \subseteq s.index[h].res

\* The links X are new, and have yet to be told of.
Closed(s, h, X) ==
  (s.index[h].valid /\ ~s.index[h].graft)
  => \A e \in Links(s, h) \ X : e[1] \in s.index[h].marks => e[2] \in s.index[h].marks

\* What is listed matches still, and under this key, or else has been noticed to leave.
Current(s, h) ==
  \A i \in s.index[h].res :
    /\ i[1] # Origin(h)
    /\ i[1] \in s.index[h].left \/ (i[1] \in s.match /\ i = Item(s, h, i[1]))

Good(s, h, N, X) ==
  /\ Rooted(s, h) /\ Quiet(s, h) /\ Watched(s, h)
  /\ Complete(s, h, N) /\ Closed(s, h, X) /\ Current(s, h)
  /\ s.index[h].marks \subseteq s.nodes

Whole(s) == Root \in s.nodes /\ s.links \subseteq s.nodes \X s.nodes

\* A node that is being deleted has no markers, no parents, and no children but those
\* that were listed and are yet to be dealt with.
Leaving(s, c) ==
  /\ On(s, c.node) = {} /\ Next1(Way(s, "ancestors"), c.node) = {}
  /\ Next1(s.links, c.node) \subseteq c.todo

Budget ==
  /\ \A h \in Hints : (h \in Active(db) => h \in list) /\ (h \in list => db.index[h].known)
  /\ Cardinality(Active(db)) <= MaxIndices

Inv ==
  /\ TypeOK /\ Whole(db) /\ Budget
  /\ \A h \in Hints : Good(db, h, {}, {})
  /\ \A i \in DOMAIN calls : Leaving(db, calls[i])

-----------------------------------------------------------------------------
(* Traversals *)

LEMMA ReachLeast ==
  ASSUME NEW R, NEW n, NEW S \in SUBSET Node, n \in S,
         \A e \in R : e[1] \in S => e[2] \in S
  PROVE  Reach(R, n) \subseteq S
BY DEF Reach

LEMMA ReachClosed ==
  ASSUME NEW R \in SUBSET (Node \X Node), NEW n \in Node
  PROVE  /\ Reach(R, n) \in SUBSET Node /\ n \in Reach(R, n)
         /\ \A e \in R : e[1] \in Reach(R, n) => e[2] \in Reach(R, n)
BY DEF Reach

LEMMA QueryType ==
  ASSUME query \in Queries, NEW h \in Hints
  PROVE  /\ query[h] \in [root : Node, dir : {"descendants", "ancestors"}, ordered : BOOLEAN]
         /\ Origin(h) \in Node /\ query[h].dir \in {"descendants", "ancestors"}
<1>1. query[h] \in [root : Node, dir : {"descendants", "ancestors"}, ordered : BOOLEAN]
  BY FindIndexAssumption
<1> QED  BY <1>1 DEF Origin

LEMMA WayType ==
  ASSUME NEW s \in States, NEW dir
  PROVE  Way(s, dir) \in SUBSET (Node \X Node)
BY DEF Way, States

\* A traversal from a node visits what is reached from it.
LEMMA VisitsType ==
  ASSUME NEW s \in States, query \in Queries, NEW h \in Hints, NEW n \in Node
  PROVE  /\ Visits(s, h, n) \in SUBSET Node
         /\ n \in s.nodes => n \in Visits(s, h, n)
         /\ n \notin s.nodes => Visits(s, h, n) = {}
         /\ \A e \in Links(s, h) : e[1] \in Visits(s, h, n) => e[2] \in Visits(s, h, n)
         /\ \A S \in SUBSET Node :
              (n \in S /\ \A e \in Links(s, h) : e[1] \in S => e[2] \in S)
              => Visits(s, h, n) \subseteq S
<1>1. Links(s, h) \in SUBSET (Node \X Node)
  BY WayType DEF Links
<1>2. Visits(s, h, n) = IF n \in s.nodes THEN Reach(Links(s, h), n) ELSE {}
  BY DEF Visits, Links
<1>3. /\ Reach(Links(s, h), n) \in SUBSET Node /\ n \in Reach(Links(s, h), n)
      /\ \A e \in Links(s, h) : e[1] \in Reach(Links(s, h), n) => e[2] \in Reach(Links(s, h), n)
  BY <1>1, ReachClosed
<1>4. \A S \in SUBSET Node :
        (n \in S /\ \A e \in Links(s, h) : e[1] \in S => e[2] \in S)
        => Reach(Links(s, h), n) \subseteq S
  BY ReachLeast
<1> QED  BY <1>2, <1>3, <1>4

\* Marked nodes are visited from the head, if it is there; without it there are none.
LEMMA RootedInSpan ==
  ASSUME NEW s \in States, query \in Queries, NEW h \in Hints, Rooted(s, h),
         s.index[h].marks \subseteq s.nodes
  PROVE  s.index[h].marks \subseteq Span(s, h)
<1>0. s.index[h].marks \in SUBSET Node
  BY DEF States, Blocks
<1>1. Origin(h) \in Node
  BY QueryType
<1>2. CASE Origin(h) \in s.nodes
  <2>1. /\ Span(s, h) \in SUBSET Node /\ Origin(h) \in Span(s, h)
        /\ \A e \in Links(s, h) : e[1] \in Span(s, h) => e[2] \in Span(s, h)
    BY <1>1, <1>2, VisitsType DEF Span, Origin
  <2> QED  BY <2>1 DEF Rooted
<1>3. CASE Origin(h) \notin s.nodes
  <2>1. Node \ s.index[h].marks \in SUBSET Node /\ Origin(h) \in Node \ s.index[h].marks
    BY <1>1, <1>3
  <2>2. s.index[h].marks \subseteq Node \ s.index[h].marks
    BY <2>1 DEF Rooted
  <2> QED  BY <2>2
<1> QED  BY <1>2, <1>3

-----------------------------------------------------------------------------
(* The callback *)

Frame(s, t) ==
  t.nodes = s.nodes /\ t.links = s.links /\ t.match = s.match /\ t.key = s.key

LEMMA ItemType ==
  ASSUME NEW s \in States, NEW h, NEW n \in Node
  PROVE  Item(s, h, n) \in Node \X Keys /\ Item(s, h, n)[1] = n
BY FindIndexAssumption DEF Item, States

LEMMA ListingType ==
  ASSUME NEW s \in States, NEW h, NEW N \in SUBSET Node
  PROVE  Listing(s, h, N) \in SUBSET (Node \X Keys)
BY ItemType DEF Listing

LEMMA ListingParts ==
  ASSUME NEW s \in States, NEW h, NEW N \in SUBSET Node, NEW i
  PROVE  i \in Listing(s, h, N) <=>
           (i[1] \in N /\ i[1] \in s.match /\ i[1] # Origin(h) /\ i = Item(s, h, i[1]))
<1>1. ASSUME i \in Listing(s, h, N)
      PROVE  i[1] \in N /\ i[1] \in s.match /\ i[1] # Origin(h) /\ i = Item(s, h, i[1])
  <2>1. PICK n \in (N \cap s.match) \ {Origin(h)} : i = Item(s, h, n)
    BY <1>1 DEF Listing, Origin
  <2> QED  BY <2>1, ItemType
<1> QED  BY <1>1 DEF Listing, Origin

LEMMA ListingIn ==
  ASSUME NEW s \in States, NEW h, NEW N \in SUBSET Node, NEW i \in Listing(s, h, N)
  PROVE  i[1] \in N /\ i[1] \in s.match /\ i[1] # Origin(h) /\ i = Item(s, h, i[1])
BY ListingParts

LEMMA NotedFacts ==
  ASSUME NEW s \in States, NEW N \in SUBSET Node, NEW t, t = Noted(s, N)
  PROVE  /\ t \in States /\ Frame(s, t)
         /\ \A h \in Hints :
              t.index[h] = IF s.index[h].valid
                           THEN [s.index[h] EXCEPT
                                   !.res = @ \cup Listing(s, h, N \cap s.index[h].marks)]
                           ELSE s.index[h]
<1>1. \A h \in Hints : Listing(s, h, N \cap s.index[h].marks) \in SUBSET (Node \X Keys)
  BY ListingType
<1>2. \A h \in Hints : (IF s.index[h].valid
                        THEN [s.index[h] EXCEPT
                                !.res = @ \cup Listing(s, h, N \cap s.index[h].marks)]
                        ELSE s.index[h]) \in Blocks
  BY <1>1 DEF States, Blocks
<1> QED  BY <1>2 DEF Noted, Each, States, Frame

\* A callback that hears of the nodes M leaves the index good but for the others of N.
LEMMA NotedGood ==
  ASSUME NEW s \in States, query \in Queries, NEW N \in SUBSET Node, NEW M \in SUBSET Node,
         NEW h \in Hints, NEW X, Good(s, h, N, X)
  PROVE  Good(Noted(s, M), h, N \ M, X)
<1> DEFINE t == Noted(s, M)  i == s.index[h]  j == t.index[h]
           new == Listing(s, h, M \cap i.marks)
<1>1. i \in Blocks /\ t \in States /\ Frame(s, t)
  BY NotedFacts DEF States
<1>2. j = IF i.valid THEN [i EXCEPT !.res = @ \cup new] ELSE i
  BY NotedFacts
<1>3. /\ j.active = i.active /\ j.valid = i.valid /\ j.marks = i.marks
      /\ j.left = i.left /\ j.graft = i.graft
      /\ j.res = IF i.valid THEN i.res \cup new ELSE i.res
  BY <1>1, <1>2 DEF Blocks
<1>4. Links(t, h) = Links(s, h)
  BY <1>1 DEF Links, Way, Frame
<1>5. \A n : Item(t, h, n) = Item(s, h, n)
  BY <1>1 DEF Item, Frame
<1>6. \A x \in new : x[1] \in M \cap i.marks /\ x[1] \in s.match /\ x[1] # Origin(h)
                     /\ x = Item(s, h, x[1])
  BY ListingParts, <1>1 DEF Blocks
<1> HIDE DEF t, i, j, new
<1>7. Rooted(t, h) /\ Closed(t, h, X) /\ Quiet(t, h) /\ j.marks \subseteq t.nodes
  BY <1>1, <1>3, <1>4 DEF Good, Rooted, Closed, Quiet, Frame, i, j
<1>8. Watched(t, h)
  BY <1>3, <1>6 DEF Good, Watched, Listed, i, j
<1>9. Current(t, h)
  BY <1>1, <1>3, <1>5, <1>6 DEF Good, Current, Frame, i, j
<1>10. Complete(t, h, N \ M)
  <2> SUFFICES ASSUME j.valid, NEW x \in Listing(t, h, j.marks \ (N \ M))
               PROVE  x \in j.res
    BY DEF Complete, j
  <2>1. /\ x[1] \in i.marks \ (N \ M) /\ x[1] \in s.match /\ x[1] # Origin(h)
        /\ x = Item(s, h, x[1])
    BY ListingParts, <1>1, <1>3, <1>5 DEF Blocks, Frame
  <2>2. CASE x[1] \in M
    BY <1>1, <1>3, <2>1, <2>2, ListingParts DEF Blocks, new
  <2>3. CASE x[1] \notin N
    BY <1>1, <1>3, <2>1, <2>3, ListingParts DEF Blocks, Good, Complete, i
  <2> QED  BY <2>1, <2>2, <2>3
<1> QED  BY <1>7, <1>8, <1>9, <1>10 DEF Good, t, j

-----------------------------------------------------------------------------
(* Clearing *)

LEMMA ClearAllFacts ==
  ASSUME NEW s \in States, query \in Queries, NEW n \in Node, NEW t, t = ClearAll(s, n)
  PROVE  /\ t \in States /\ Frame(s, t)
         /\ \A h \in Hints :
              t.index[h] = IF n \in s.index[h].marks
                           THEN [Emptied(s.index[h]) EXCEPT !.marks = @ \ (Visits(s, h, n) \cup {n})]
                           ELSE s.index[h]
<1>1. ASSUME NEW h \in Hints
      PROVE  [Emptied(s.index[h]) EXCEPT !.marks = @ \ (Visits(s, h, n) \cup {n})] \in Blocks
  <2>1. s.index[h] \in Blocks
    BY DEF States
  <2>2. Emptied(s.index[h]) \in Blocks
    BY <2>1 DEF Blocks, Emptied
  <2> QED  BY <2>2 DEF Blocks
<1>2. \A h \in Hints : (IF n \in s.index[h].marks
                        THEN [Emptied(s.index[h]) EXCEPT !.marks = @ \ (Visits(s, h, n) \cup {n})]
                        ELSE s.index[h]) \in Blocks
  BY <1>1 DEF States
<1> QED  BY <1>2 DEF ClearAll, Each, States, Frame

\* The nodes that are still marked are reached without those that are not.
LEMMA ClearAllGood ==
  ASSUME NEW s \in States, query \in Queries, NEW n \in Node, n \in s.nodes,
         NEW h \in Hints, Good(s, h, {}, {})
  PROVE  Good(ClearAll(s, n), h, {}, {}) /\ n \notin ClearAll(s, n).index[h].marks
<1> DEFINE t == ClearAll(s, n)  i == s.index[h]  j == t.index[h]  V == Visits(s, h, n) \cup {n}
<1>1. i \in Blocks /\ t \in States /\ Frame(s, t)
  BY ClearAllFacts DEF States
<1>2. j = IF n \in i.marks THEN [Emptied(i) EXCEPT !.marks = @ \ V] ELSE i
  BY ClearAllFacts
<1>3. Links(t, h) = Links(s, h) /\ \A m : Item(t, h, m) = Item(s, h, m)
  BY <1>1 DEF Links, Way, Frame, Item
<1>4. V \in SUBSET Node /\ n \in V /\ \A e \in Links(s, h) : e[1] \in V => e[2] \in V
  BY VisitsType
<1> HIDE DEF t, j, i, V
<1>5. CASE n \notin i.marks
  <2>1. j = i
    BY <1>2, <1>5
  <2>2. Good(t, h, {}, {})
    BY <1>1, <1>3, <2>1
    DEF Good, Rooted, Closed, Quiet, Watched, Listed, Complete, Listing, Current, Frame, i, j
  <2> QED  BY <1>5, <2>1, <2>2 DEF t, j
<1>6. CASE n \in i.marks
  <2>1. /\ j.active = i.active /\ j.valid = FALSE /\ j.marks = i.marks \ V /\ j.res = {}
    BY <1>1, <1>2, <1>6 DEF Emptied, Blocks
  <2>2. Rooted(t, h)
    <3> SUFFICES ASSUME NEW S \in SUBSET Node, Origin(h) \in S,
                        \A e \in Links(s, h) :
                          (e[1] \in S /\ e[1] \in j.marks /\ e[2] \in j.marks) => e[2] \in S
                 PROVE  j.marks \subseteq S
      BY <1>3 DEF Rooted, j
    <3>1. S \cup V \in SUBSET Node /\ Origin(h) \in S \cup V
      BY <1>4
    <3>2. \A e \in Links(s, h) :
            (e[1] \in S \cup V /\ e[1] \in i.marks /\ e[2] \in i.marks) => e[2] \in S \cup V
      BY <1>4, <2>1
    <3>3. i.marks \subseteq S \cup V
      BY <3>1, <3>2 DEF Good, Rooted, i
    <3> QED  BY <3>3, <2>1
  <2>3. Good(t, h, {}, {})
    BY <1>1, <2>1, <2>2
    DEF Good, Closed, Quiet, Watched, Complete, Current, Frame, i, j
  <2> QED  BY <1>4, <2>1, <2>3 DEF t, j
<1> QED  BY <1>5, <1>6

\* An index that does not mark a node does not miss its links.
LEMMA CutGood ==
  ASSUME NEW s \in States, query \in Queries, NEW h \in Hints, Good(s, h, {}, {}),
         NEW n \in Node, n \notin s.index[h].marks,
         NEW R \in SUBSET (Node \X Node), \A e \in R : (e[1] = n \/ e[2] = n)
  PROVE  Good([s EXCEPT !.links = @ \ R], h, {}, {})
<1> DEFINE t == [s EXCEPT !.links = @ \ R]
<1>1. /\ t \in States /\ t.index = s.index /\ t.nodes = s.nodes /\ t.match = s.match
      /\ t.key = s.key /\ t.links = s.links \ R
  BY DEF States
<1> HIDE DEF t
<1>2. /\ Links(t, h) \subseteq Links(s, h)
      /\ \A e \in Links(s, h) \ Links(t, h) : (e[1] = n \/ e[2] = n)
  BY <1>1 DEF Links, Way, States
<1>3. \A m : Item(t, h, m) = Item(s, h, m)
  BY <1>1 DEF Item
<1>4. Rooted(t, h)
  <2> SUFFICES ASSUME NEW S \in SUBSET Node, Origin(h) \in S,
                      \A e \in Links(t, h) :
                        (e[1] \in S /\ e[1] \in s.index[h].marks /\ e[2] \in s.index[h].marks)
                        => e[2] \in S
               PROVE  s.index[h].marks \subseteq S
    BY <1>1 DEF Rooted
  <2>1. \A e \in Links(s, h) :
          (e[1] \in S /\ e[1] \in s.index[h].marks /\ e[2] \in s.index[h].marks) => e[2] \in S
    BY <1>2
  <2> QED  BY <2>1 DEF Good, Rooted
<1>5. Closed(t, h, {})
  BY <1>1, <1>2 DEF Good, Closed
<1>6. Quiet(t, h) /\ Watched(t, h) /\ Complete(t, h, {}) /\ Current(t, h)
  BY <1>1, <1>3 DEF Good, Quiet, Watched, Listed, Complete, Listing, Current
<1> QED  BY <1>1, <1>4, <1>5, <1>6 DEF Good, t

-----------------------------------------------------------------------------
(* Refreshing *)

LEMMA RefreshFacts ==
  ASSUME NEW s \in States, query \in Queries, NEW H, NEW t, t = Refresh(s, H)
  PROVE  /\ t \in States /\ Frame(s, t)
         /\ \A h \in Hints :
              IF h \in H
              THEN /\ t.index[h].known = s.index[h].known
                   /\ t.index[h].active = s.index[h].active
                   /\ t.index[h].left = s.index[h].left
                   /\ t.index[h].marks = s.index[h].marks \cup Span(s, h)
                   /\ t.index[h].res = s.index[h].res \cup Listing(s, h, Span(s, h))
                   /\ t.index[h].valid <=> (s.index[h].valid \/ Span(s, h) # {})
                   /\ ~t.index[h].graft
              ELSE t.index[h] = s.index[h]
<1> DEFINE Fill(h) == IF h \in H
                      THEN [s.index[h] EXCEPT
                              !.marks = @ \cup Span(s, h),
                              !.res = @ \cup Listing(s, h, Span(s, h)),
                              !.valid = @ \/ Span(s, h) # {}, !.graft = FALSE]
                      ELSE s.index[h]
<1>1. ASSUME NEW h \in Hints
      PROVE  /\ Fill(h) \in Blocks
             /\ IF h \in H
                THEN /\ Fill(h).known = s.index[h].known
                     /\ Fill(h).active = s.index[h].active
                     /\ Fill(h).left = s.index[h].left
                     /\ Fill(h).marks = s.index[h].marks \cup Span(s, h)
                     /\ Fill(h).res = s.index[h].res \cup Listing(s, h, Span(s, h))
                     /\ Fill(h).valid <=> (s.index[h].valid \/ Span(s, h) # {})
                     /\ ~Fill(h).graft
                ELSE Fill(h) = s.index[h]
  <2>1. Span(s, h) \in SUBSET Node
    BY VisitsType, QueryType DEF Span, Origin
  <2>2. Listing(s, h, Span(s, h)) \in SUBSET (Node \X Keys)
    BY <2>1, ListingType
  <2>3. s.index[h] \in Blocks
    BY DEF States
  <2> HIDE DEF Span
  <2>4. CASE h \in H
    BY <2>1, <2>2, <2>3, <2>4 DEF Blocks
  <2>5. CASE h \notin H
    BY <2>3, <2>5
  <2> QED  BY <2>4, <2>5
<1>2. t = [s EXCEPT !.index = [h \in Hints |-> Fill(h)]]
  BY DEF Refresh, Each
<1> HIDE DEF Fill
<1>3. t \in States /\ Frame(s, t) /\ \A h \in Hints : t.index[h] = Fill(h)
  BY <1>1, <1>2 DEF States, Frame
<1> QED  BY <1>1, <1>3

\* Afterwards the nodes that are marked and those that are visited are the same.
LEMMA RefreshGood ==
  ASSUME NEW s \in States, query \in Queries, Whole(s), NEW h \in Hints, Good(s, h, {}, {}),
         NEW H, h \in H => s.index[h].active
  PROVE  Good(Refresh(s, H), h, {}, {})
<1> DEFINE t == Refresh(s, H)  i == s.index[h]  j == t.index[h]  span == Span(s, h)
<1>1. i \in Blocks /\ t \in States /\ Frame(s, t)
  BY RefreshFacts DEF States
<1>2. IF h \in H
      THEN /\ j.active = i.active /\ j.marks = i.marks \cup span /\ j.left = i.left
           /\ j.res = i.res \cup Listing(s, h, span)
           /\ j.valid <=> (i.valid \/ span # {})
           /\ ~j.graft
      ELSE j = i
  BY RefreshFacts
<1>3. Links(t, h) = Links(s, h) /\ \A m : Item(t, h, m) = Item(s, h, m)
  BY <1>1 DEF Links, Way, Frame, Item
<1>4. /\ span \in SUBSET Node /\ Origin(h) \in Node
      /\ Origin(h) \in s.nodes => Origin(h) \in span
      /\ Origin(h) \notin s.nodes => span = {}
      /\ \A e \in Links(s, h) : e[1] \in span => e[2] \in span
      /\ \A S \in SUBSET Node :
           (Origin(h) \in S /\ \A e \in Links(s, h) : e[1] \in S => e[2] \in S)
           => span \subseteq S
  BY VisitsType, QueryType DEF Span, Origin
<1>5. i.marks \subseteq span
  BY RootedInSpan DEF Good
<1>6. span \subseteq s.nodes
  <2>1. CASE Origin(h) \in s.nodes
    <3>1. \A e \in Links(s, h) : e[1] \in s.nodes => e[2] \in s.nodes
      BY DEF Links, Way, Whole
    <3> QED  BY <1>4, <2>1, <3>1 DEF States
  <2> QED  BY <1>4, <2>1
<1>7. \A x : x \in Listing(s, h, span) <=>
               (x[1] \in span /\ x[1] \in s.match /\ x[1] # Origin(h) /\ x = Item(s, h, x[1]))
  BY <1>4, ListingParts
<1>8. \A x : x \in Listing(t, h, j.marks \ {}) <=>
               (/\ x[1] \in j.marks /\ x[1] \in t.match /\ x[1] # Origin(h)
                /\ x = Item(t, h, x[1]))
  <2>1. j.marks \ {} \in SUBSET Node
    BY <1>1 DEF States, Blocks
  <2> HIDE DEF t
  <2> QED  BY <1>1, <2>1, ListingParts
<1> HIDE DEF t, j, i, span
<1>9. CASE h \notin H
  <2>1. j = i
    BY <1>2, <1>9
  <2>2. Good(t, h, {}, {})
    BY <1>1, <1>3, <2>1
    DEF Good, Rooted, Closed, Quiet, Watched, Listed, Complete, Listing, Current, Frame, i, j
  <2> QED  BY <2>2 DEF t
<1>10. CASE h \in H
  <2>1. /\ j.active = i.active /\ j.marks = span /\ j.left = i.left /\ ~j.graft
        /\ j.valid <=> (i.valid \/ span # {})
        /\ j.res = i.res \cup Listing(s, h, span)
    BY <1>2, <1>5, <1>10
  <2>2. Origin(h) \in i.marks => span # {}
    BY <1>5
  <2>3. Origin(h) \in s.nodes <=> span # {}
    BY <1>4
  <2>4. Rooted(t, h)
    <3> SUFFICES ASSUME NEW S \in SUBSET Node, Origin(h) \in S, span # {},
                        \A e \in Links(s, h) :
                          (e[1] \in S /\ e[1] \in span /\ e[2] \in span) => e[2] \in S
                 PROVE  span \subseteq S
      BY <1>3, <2>1 DEF Rooted, j
    <3>1. S \cap span \in SUBSET Node /\ Origin(h) \in S \cap span
      BY <1>4, <2>3
    <3>2. \A e \in Links(s, h) : e[1] \in S \cap span => e[2] \in S \cap span
      BY <1>4
    <3> QED  BY <1>4, <3>1, <3>2
  <2>5. Closed(t, h, {}) /\ j.marks \subseteq t.nodes
    BY <1>1, <1>3, <1>4, <1>6, <2>1 DEF Closed, Frame, j
  <2>6. i.active
    BY <1>10 DEF i
  <2>7. Quiet(t, h)
    <3>1. ~j.valid => j.res = {}
      <4> SUFFICES ASSUME ~j.valid  PROVE j.res = {}
        OBVIOUS
      <4>1. ~i.valid /\ span = {}
        BY <2>1
      <4>2. i.res = {}
        BY <4>1 DEF Good, Quiet, i
      <4>3. Listing(s, h, span) = {}
        BY <4>1, <1>7
      <4> QED  BY <2>1, <4>2, <4>3
    <3> QED  BY <2>1, <2>6, <3>1 DEF Quiet, j
  <2>8. Watched(t, h)
    <3>1. \A x \in i.res : x[1] \in i.marks
      BY DEF Good, Quiet, Watched, Listed, i
    <3>2. \A x \in j.res : x[1] \in span
      BY <1>5, <1>7, <2>1, <3>1
    <3>3. j.valid => Origin(h) \in span
      <4>1. i.valid => Origin(h) \in i.marks
        BY DEF Good, Watched, i
      <4> QED  BY <1>5, <2>1, <2>3, <4>1, <1>4
    <3> QED  BY <2>1, <3>2, <3>3 DEF Watched, Listed, j
  <2>9. Complete(t, h, {})
    BY <1>1, <1>3, <1>7, <1>8, <2>1 DEF Complete, Frame, j
  <2>10. Current(t, h)
    BY <1>1, <1>3, <1>7, <2>1 DEF Good, Current, Frame, i, j
  <2> QED  BY <2>4, <2>5, <2>7, <2>8, <2>9, <2>10 DEF Good, t, j
<1> QED  BY <1>9, <1>10

-----------------------------------------------------------------------------
(* Steps on a state *)

\* The invariant, but for the stack and the list.
Fine(s) == s \in States /\ Whole(s) /\ \A h \in Hints : Good(s, h, {}, {})

\* Same indices, whatever they hold.
Flags(s, t) ==
  \A h \in Hints : t.index[h].known = s.index[h].known /\ t.index[h].active = s.index[h].active

Marks(s, t) == \A h \in Hints : t.index[h].marks = s.index[h].marks

LEMMA NotedFine ==
  ASSUME query \in Queries, NEW s, Fine(s), NEW N \in SUBSET Node, NEW t, t = Noted(s, N)
  PROVE  Fine(t) /\ Frame(s, t) /\ Flags(s, t) /\ Marks(s, t)
<1>1. t \in States /\ Frame(s, t)
  BY NotedFacts DEF Fine
<1>2. ASSUME NEW h \in Hints
      PROVE  Good(t, h, {}, {}) /\ t.index[h].known = s.index[h].known
             /\ t.index[h].active = s.index[h].active /\ t.index[h].marks = s.index[h].marks
  <2>1. Good(t, h, {} \ N, {})
    BY NotedGood DEF Fine
  <2>2. {} \ N = {}
    OBVIOUS
  <2>3. s.index[h] \in Blocks
    BY DEF Fine, States
  <2>4. t.index[h] = IF s.index[h].valid
                     THEN [s.index[h] EXCEPT
                             !.res = @ \cup Listing(s, h, N \cap s.index[h].marks)]
                     ELSE s.index[h]
    BY NotedFacts DEF Fine
  <2>5. /\ t.index[h].known = s.index[h].known
        /\ t.index[h].active = s.index[h].active /\ t.index[h].marks = s.index[h].marks
    BY <2>3, <2>4 DEF Blocks
  <2> QED  BY <2>1, <2>2, <2>5
<1> QED  BY <1>1, <1>2 DEF Fine, Whole, Frame, Flags, Marks

LEMMA ClearAllFine ==
  ASSUME query \in Queries, NEW s, Fine(s), NEW n \in Node, n \in s.nodes \/ On(s, n) = {},
         NEW t, t = ClearAll(s, n)
  PROVE  /\ Fine(t) /\ Frame(s, t) /\ Flags(s, t) /\ On(t, n) = {}
         /\ On(s, n) = {} => Marks(s, t)
         /\ \A m \in Node : On(s, m) = {} => On(t, m) = {}
<1>1. t \in States /\ Frame(s, t)
  BY ClearAllFacts DEF Fine
<1>2. ASSUME NEW h \in Hints
      PROVE  /\ Good(t, h, {}, {}) /\ n \notin t.index[h].marks
             /\ t.index[h].known = s.index[h].known /\ t.index[h].active = s.index[h].active
             /\ t.index[h].marks \subseteq s.index[h].marks
             /\ On(s, n) = {} => t.index[h].marks = s.index[h].marks
  <2>1. s.index[h] \in Blocks
    BY DEF Fine, States
  <2>2. t.index[h] = IF n \in s.index[h].marks
                     THEN [Emptied(s.index[h]) EXCEPT !.marks = @ \ (Visits(s, h, n) \cup {n})]
                     ELSE s.index[h]
    BY ClearAllFacts DEF Fine
  <2>3. CASE n \in s.index[h].marks
    <3>1. On(s, n) # {} /\ n \in s.nodes
      BY <2>3 DEF On
    <3>2. Good(t, h, {}, {}) /\ n \notin t.index[h].marks
      BY <3>1, ClearAllGood DEF Fine
    <3>3. /\ t.index[h].known = s.index[h].known /\ t.index[h].active = s.index[h].active
          /\ t.index[h].marks \subseteq s.index[h].marks
      BY <2>1, <2>2, <2>3 DEF Emptied, Blocks
    <3> QED  BY <3>1, <3>2, <3>3
  <2>4. CASE n \notin s.index[h].marks
    <3>1. t.index[h] = s.index[h]
      BY <2>2, <2>4
    <3>2. Good(t, h, {}, {})
      BY <1>1, <3>1
      DEF Fine, Good, Rooted, Closed, Quiet, Watched, Listed, Complete, Listing, Current, Frame,
          Links, Way, Item
    <3> QED  BY <2>4, <3>1, <3>2
  <2> QED  BY <2>3, <2>4
<1> QED  BY <1>1, <1>2 DEF Fine, Whole, Frame, Flags, Marks, On

LEMMA RefreshFine ==
  ASSUME query \in Queries, NEW s, Fine(s), NEW H, \A h \in H \cap Hints : s.index[h].active,
         NEW t, t = Refresh(s, H)
  PROVE  Fine(t) /\ Frame(s, t) /\ Flags(s, t)
<1>1. t \in States /\ Frame(s, t)
  BY RefreshFacts DEF Fine
<1>2. ASSUME NEW h \in Hints  PROVE Good(t, h, {}, {})
  BY RefreshGood DEF Fine
<1>3. Flags(s, t)
  BY RefreshFacts DEF Flags, Fine
<1> QED  BY <1>1, <1>2, <1>3 DEF Fine, Whole, Frame

Bare(s, n)   == On(s, n) = {}
Cut(s, t, R) == t.links = s.links \ R

\* Links go from a node whose markers have been cleared: what is refreshed then is good,
\* and nothing is if there were none.
LEMMA CrossRemoveFine ==
  ASSUME query \in Queries, NEW s, Fine(s), NEW n \in Node, n \in s.nodes \/ On(s, n) = {},
         NEW R \in SUBSET (Node \X Node), \A e \in R : (e[1] = n \/ e[2] = n),
         NEW S \in SUBSET Node, NEW t, t = CrossRemove(s, n, R, S)
  PROVE  /\ Fine(t) /\ Flags(s, t)
         /\ t.nodes = s.nodes /\ Cut(s, t, R) /\ t.match = s.match /\ t.key = s.key
         /\ Bare(s, n) => Marks(s, t)
<1> DEFINE clear == ClearAll(s, n)
           cut   == [clear EXCEPT !.links = @ \ R]
           told  == Noted(cut, S)
<1>1. /\ Fine(clear) /\ Frame(s, clear) /\ Flags(s, clear) /\ On(clear, n) = {}
      /\ On(s, n) = {} => Marks(s, clear)
  BY ClearAllFine
<1> HIDE DEF clear
<1>2. /\ cut \in States /\ cut.index = clear.index /\ cut.nodes = s.nodes
      /\ cut.match = s.match /\ cut.key = s.key /\ cut.links = s.links \ R
  BY <1>1 DEF Fine, States, Frame
<1>3. \A h \in Hints : Good(cut, h, {}, {})
  BY <1>1, CutGood DEF Fine, On
<1> HIDE DEF cut
<1>4. Fine(cut)
  BY <1>2, <1>3 DEF Fine, Whole
<1>5. Fine(told) /\ Frame(cut, told) /\ Flags(cut, told) /\ Marks(cut, told)
  BY <1>4, NotedFine
<1> HIDE DEF told
<1>6. t = IF On(s, n) = {} THEN told ELSE Refresh(told, Active(told))
  BY DEF CrossRemove, RefreshBy, told, cut, clear
<1>7. CASE On(s, n) = {}
  BY <1>1, <1>2, <1>5, <1>6, <1>7 DEF Frame, Flags, Marks, Bare, Cut
<1>8. CASE On(s, n) # {}
  <2>1. \A h \in Active(told) \cap Hints : told.index[h].active
    BY DEF Active
  <2>2. Fine(t) /\ Frame(told, t) /\ Flags(told, t)
    BY <1>5, <1>6, <1>8, <2>1, RefreshFine
  <2> QED  BY <1>1, <1>2, <1>5, <1>8, <2>2 DEF Frame, Flags, Bare, Cut
<1> QED  BY <1>7, <1>8

LEMMA CrossRemoveUnmarked ==
  ASSUME query \in Queries, NEW s, Fine(s), NEW n \in Node, On(s, n) = {},
         NEW R \in SUBSET (Node \X Node), \A e \in R : (e[1] = n \/ e[2] = n),
         NEW S \in SUBSET Node
  PROVE  /\ Fine(CrossRemove(s, n, R, S)) /\ Flags(s, CrossRemove(s, n, R, S))
         /\ Marks(s, CrossRemove(s, n, R, S))
         /\ CrossRemove(s, n, R, S).nodes = s.nodes
         /\ Cut(s, CrossRemove(s, n, R, S), R)
<1>1. PICK t : t = CrossRemove(s, n, R, S)
  OBVIOUS
<1>2. Fine(t)
  BY <1>1, CrossRemoveFine
<1>3. Flags(s, t)
  BY <1>1, CrossRemoveFine
<1>4. t.nodes = s.nodes
  BY <1>1, CrossRemoveFine
<1>5. Cut(s, t, R)
  BY <1>1, CrossRemoveFine
<1>6. Bare(s, n)
  BY DEF Bare
<1>7. Marks(s, t)
  BY <1>1, <1>6, CrossRemoveFine
<1> QED  BY <1>1, <1>2, <1>3, <1>4, <1>5, <1>7

-----------------------------------------------------------------------------
(* A new link *)

LEMMA LinkedGood ==
  ASSUME NEW s \in States, query \in Queries, NEW h \in Hints, Good(s, h, {}, {}),
         NEW p \in Node, NEW c \in Node, NEW t, t = [s EXCEPT !.links = @ \cup {<<p, c>>}],
         NEW x, x = IF query[h].dir = "descendants" THEN <<p, c>> ELSE <<c, p>>
  PROVE  Good(t, h, {}, {x}) /\ x \in Links(t, h)
<1>1. /\ t \in States /\ t.index = s.index /\ t.nodes = s.nodes /\ t.match = s.match
      /\ t.key = s.key /\ t.links = s.links \cup {<<p, c>>}
  BY DEF States
<1>2. Links(t, h) = Links(s, h) \cup {x}
  <2>1. CASE query[h].dir = "descendants"
    BY <1>1, <2>1 DEF Links, Way
  <2>2. CASE query[h].dir # "descendants"
    <3>1. /\ Links(t, h) = {<<e[2], e[1]>> : e \in s.links \cup {<<p, c>>}}
          /\ Links(s, h) = {<<e[2], e[1]>> : e \in s.links} /\ x = <<c, p>>
      BY <1>1, <2>2 DEF Links, Way
    <3>2. <<p, c>>[1] = p /\ <<p, c>>[2] = c
      OBVIOUS
    <3>3. ASSUME NEW y  PROVE y \in Links(t, h) <=> y \in Links(s, h) \cup {x}
      BY <3>1, <3>2, Zenon
    <3> QED  BY <3>3
  <2> QED  BY <2>1, <2>2
<1>3. \A m : Item(t, h, m) = Item(s, h, m)
  BY <1>1 DEF Item
<1>4. Rooted(t, h)
  <2> SUFFICES ASSUME NEW S \in SUBSET Node, Origin(h) \in S,
                      \A e \in Links(t, h) :
                        (e[1] \in S /\ e[1] \in s.index[h].marks /\ e[2] \in s.index[h].marks)
                        => e[2] \in S
               PROVE  s.index[h].marks \subseteq S
    BY <1>1 DEF Rooted
  <2>1. \A e \in Links(s, h) :
          (e[1] \in S /\ e[1] \in s.index[h].marks /\ e[2] \in s.index[h].marks) => e[2] \in S
    BY <1>2
  <2> QED  BY <2>1 DEF Good, Rooted
<1>5. Closed(t, h, {x})
  BY <1>1, <1>2 DEF Good, Closed
<1>6. Quiet(t, h) /\ Watched(t, h)
  BY <1>1 DEF Good, Quiet, Watched, Listed
<1>7. \A N : Listing(t, h, N) = Listing(s, h, N)
  BY <1>1, <1>3 DEF Listing
<1>8. Complete(t, h, {}) /\ Current(t, h)
  BY <1>1, <1>3, <1>7 DEF Good, Complete, Current
<1> QED  BY <1>1, <1>2, <1>4, <1>5, <1>6, <1>8 DEF Good

Heard(s, dir, n, m) == IF Next1(Way(s, dir), m) = {} THEN s ELSE Noted(s, {n})

\* What becomes of a control block that has heard.
Heir(s, dir, n, m, h, i) ==
  IF n \notin i.marks \/ query[h].dir # dir THEN i
  ELSE IF Next1(Way(s, dir), m) = {} THEN [i EXCEPT !.marks = @ \cup {m}]
  ELSE [i EXCEPT !.graft = @ \/ m \notin i.marks]

LEMMA HeirType ==
  ASSUME NEW s, NEW dir, NEW n, NEW m \in Node, NEW h, NEW i \in Blocks
  PROVE  /\ Heir(s, dir, n, m, h, i) \in Blocks
         /\ Heir(s, dir, n, m, h, i).known = i.known
         /\ Heir(s, dir, n, m, h, i).active = i.active
         /\ query[h].dir # dir => Heir(s, dir, n, m, h, i) = i
<1>1. CASE n \notin i.marks \/ query[h].dir # dir
  BY <1>1 DEF Heir
<1>2. CASE n \in i.marks /\ query[h].dir = dir /\ Next1(Way(s, dir), m) = {}
  BY <1>2 DEF Heir, Blocks
<1>3. CASE n \in i.marks /\ query[h].dir = dir /\ Next1(Way(s, dir), m) # {}
  <2>1. Heir(s, dir, n, m, h, i) = [i EXCEPT !.graft = @ \/ m \notin i.marks]
    BY <1>3 DEF Heir
  <2> QED  BY <1>3, <2>1 DEF Blocks
<1> QED  BY <1>1, <1>2, <1>3

LEMMA InheritFacts ==
  ASSUME NEW s \in States, NEW dir, NEW n \in Node, NEW m \in Node,
         NEW t, t = Inherit(s, dir, n, m),
         NEW u, u = Heard(s, dir, n, m)
  PROVE  /\ t \in States /\ u \in States /\ Frame(s, t) /\ Frame(s, u)
         /\ \A h \in Hints : t.index[h] = Heir(s, dir, n, m, h, u.index[h])
<1>1. u \in States /\ Frame(s, u)
  <2>1. Noted(s, {n}) \in States /\ Frame(s, Noted(s, {n}))
    BY NotedFacts
  <2> QED  BY <2>1 DEF Frame, Heard
<1>2. t = [u EXCEPT !.index = [h \in Hints |-> Heir(s, dir, n, m, h, u.index[h])]]
  BY DEF Inherit, Each, Heard, Heir
<1>3. \A h \in Hints : Heir(s, dir, n, m, h, u.index[h]) \in Blocks
  BY <1>1, HeirType DEF States
<1>4. t \in States /\ Frame(u, t)
      /\ \A h \in Hints : t.index[h] = Heir(s, dir, n, m, h, u.index[h])
  BY <1>1, <1>2, <1>3 DEF States, Frame
<1> QED  BY <1>1, <1>4 DEF Frame

LEMMA NotedFlags ==
  ASSUME NEW s \in States, NEW N \in SUBSET Node, NEW t, t = Noted(s, N)
  PROVE  t \in States /\ Frame(s, t) /\ Flags(s, t)
<1>1. t \in States /\ Frame(s, t)
  BY NotedFacts
<1>2. ASSUME NEW h \in Hints
      PROVE  t.index[h].known = s.index[h].known /\ t.index[h].active = s.index[h].active
  <2>1. s.index[h] \in Blocks
    BY DEF States
  <2>2. t.index[h] = IF s.index[h].valid
                     THEN [s.index[h] EXCEPT
                             !.res = @ \cup Listing(s, h, N \cap s.index[h].marks)]
                     ELSE s.index[h]
    BY NotedFacts
  <2> QED  BY <2>1, <2>2 DEF Blocks
<1> QED  BY <1>1, <1>2 DEF Flags

LEMMA InheritFlags ==
  ASSUME NEW s \in States, NEW dir, NEW n \in Node, NEW m \in Node,
         NEW t, t = Inherit(s, dir, n, m)
  PROVE  t \in States /\ Frame(s, t) /\ Flags(s, t)
<1>1. PICK u : u = Heard(s, dir, n, m)
  OBVIOUS
<1>2. /\ t \in States /\ u \in States /\ Frame(s, t)
      /\ \A h \in Hints : t.index[h] = Heir(s, dir, n, m, h, u.index[h])
  BY <1>1, InheritFacts
<1>5. Flags(u, t)
  <2>1. \A h \in Hints : u.index[h] \in Blocks
    BY <1>2 DEF States
  <2> QED  BY <1>2, <2>1, HeirType DEF Flags
<1>3. Flags(s, Noted(s, {n}))
  BY NotedFlags
<1>4. Flags(s, u)
  BY <1>1, <1>3 DEF Flags, Heard
<1> QED  BY <1>2, <1>4, <1>5 DEF Flags

LEMMA GoodMore ==
  ASSUME NEW s \in States, NEW h \in Hints, NEW N \in SUBSET Node, NEW M \in SUBSET Node,
         NEW X, Good(s, h, N, X), N \subseteq M
  PROVE  Good(s, h, M, X)
<1>1. s.index[h].marks \in SUBSET Node
  BY DEF States, Blocks
<1>2. Complete(s, h, M)
  BY <1>1, ListingParts DEF Good, Complete
<1> QED  BY <1>2 DEF Good

\* Inheriting along the links of the other direction is at most an event.
LEMMA InheritOther ==
  ASSUME NEW s \in States, query \in Queries, NEW dir, NEW n \in Node, NEW m \in Node,
         NEW h \in Hints, query[h].dir # dir,
         NEW N \in SUBSET Node, NEW X, Good(s, h, N, X)
  PROVE  Good(Inherit(s, dir, n, m), h, N, X)
<1> DEFINE t == Inherit(s, dir, n, m)
           u == Heard(s, dir, n, m)
<1>0. t = Inherit(s, dir, n, m) /\ u = Heard(s, dir, n, m)
  OBVIOUS
<1> HIDE DEF t, u
<1>1. /\ t \in States /\ u \in States /\ Frame(s, t) /\ Frame(s, u)
      /\ t.index[h] = u.index[h]
  <2>1. /\ t \in States /\ u \in States /\ Frame(s, t) /\ Frame(s, u)
        /\ t.index[h] = Heir(s, dir, n, m, h, u.index[h])
    BY <1>0, InheritFacts
  <2>2. u.index[h] \in Blocks
    BY <2>1 DEF States
  <2> QED  BY <2>1, <2>2, HeirType
<1>2. Good(u, h, N, X)
  <2>1. Good(Noted(s, {n}), h, N \ {n}, X)
    BY NotedGood
  <2>2. Noted(s, {n}) \in States
    BY NotedFacts
  <2>3. Good(Noted(s, {n}), h, N, X)
    BY <2>1, <2>2, GoodMore
  <2> QED  BY <1>0, <2>3 DEF Heard
<1>3. Good(t, h, N, X)
  BY <1>1, <1>2
  DEF Good, Rooted, Closed, Quiet, Watched, Listed, Complete, Listing, Current, Frame, Links, Way,
      Item
<1> QED  BY <1>3 DEF t

\* Inheriting along the new link: a leaf gets the marker and the callback has yet to hear
\* of it; a node that leads on does not, and then the link is a graft.
LEMMA InheritOwn ==
  ASSUME NEW s \in States, query \in Queries, NEW n \in Node, NEW m \in Node, m \in s.nodes,
         NEW h \in Hints, <<n, m>> \in Links(s, h), Good(s, h, {}, {<<n, m>>})
  PROVE  Good(Inherit(s, query[h].dir, n, m), h, {m}, {})
<1> DEFINE leaf == Next1(Way(s, query[h].dir), m) = {}
           t == Inherit(s, query[h].dir, n, m)
           u == Heard(s, query[h].dir, n, m)
           i == u.index[h]
           j == t.index[h]
<1>0. t = Inherit(s, query[h].dir, n, m) /\ u = Heard(s, query[h].dir, n, m)
  OBVIOUS
<1> HIDE DEF t, u
<1>1. /\ t \in States /\ u \in States /\ Frame(s, t) /\ Frame(s, u)
      /\ j.known = i.known /\ j.active = i.active /\ j.valid = i.valid
      /\ j.res = i.res /\ j.left = i.left
      /\ IF n \notin i.marks
         THEN j = i
         ELSE IF leaf
         THEN j.marks = i.marks \cup {m} /\ j.graft = i.graft
         ELSE j.marks = i.marks /\ (j.graft <=> (i.graft \/ m \notin i.marks))
  <2>1. /\ t \in States /\ u \in States /\ Frame(s, t) /\ Frame(s, u)
        /\ j = Heir(s, query[h].dir, n, m, h, i)
    BY <1>0, InheritFacts
  <2>2. i \in Blocks
    BY <2>1 DEF States
  <2> HIDE DEF i, j
  <2>3. CASE n \notin i.marks
    BY <2>1, <2>3 DEF Heir
  <2>4. CASE n \in i.marks /\ leaf
    BY <2>1, <2>2, <2>4 DEF Heir, Blocks
  <2>5. CASE n \in i.marks /\ ~leaf
    <3>1. j = [i EXCEPT !.graft = @ \/ m \notin i.marks]
      BY <2>1, <2>5 DEF Heir
    <3> QED  BY <2>1, <2>2, <2>5, <3>1 DEF Blocks
  <2> QED  BY <2>3, <2>4, <2>5
<1>2. Good(u, h, {}, {<<n, m>>})
  <2>1. Good(Noted(s, {n}), h, {} \ {n}, {<<n, m>>})
    BY NotedGood
  <2>2. {} \ {n} = {} /\ Good(s, h, {}, {<<n, m>>})
    OBVIOUS
  <2> QED  BY <1>0, <2>1, <2>2 DEF Heard
<1>3. /\ Links(t, h) = Links(u, h) /\ Links(u, h) = Links(s, h)
      /\ leaf => \A e \in Links(t, h) : e[1] # m
      /\ \A y : Item(t, h, y) = Item(u, h, y)
  <2>1. Links(t, h) = Links(u, h) /\ Links(u, h) = Links(s, h)
    BY <1>1 DEF Links, Way, Frame
  <2>2. leaf => \A e \in Links(s, h) : e[1] # m
    BY DEF Links, Next1
  <2>3. \A y : Item(t, h, y) = Item(u, h, y)
    BY <1>1 DEF Item, Frame
  <2> QED  BY <2>1, <2>2, <2>3
<1>4. i \in Blocks /\ j \in Blocks
  BY <1>1 DEF States
<1>5. i.active \/ i.marks = {}
  BY <1>2 DEF Good, Quiet
<1> HIDE DEF leaf, i, j
<1>6. Rooted(t, h)
  <2> SUFFICES ASSUME NEW S \in SUBSET Node, Origin(h) \in S,
                      \A e \in Links(t, h) :
                        (e[1] \in S /\ e[1] \in j.marks /\ e[2] \in j.marks) => e[2] \in S
               PROVE  j.marks \subseteq S
    BY DEF Rooted, j
  <2>1. i.marks \subseteq j.marks
    BY <1>1
  <2>2. \A e \in Links(u, h) :
          (e[1] \in S /\ e[1] \in i.marks /\ e[2] \in i.marks) => e[2] \in S
    BY <1>3, <2>1
  <2>3. i.marks \subseteq S
    BY <1>2, <2>2 DEF Good, Rooted, i
  <2>4. CASE j.marks = i.marks
    BY <2>3, <2>4
  <2>5. CASE n \in i.marks /\ j.marks = i.marks \cup {m}
    BY <1>3, <2>3, <2>5
  <2> QED  BY <1>1, <2>4, <2>5
<1>7. Closed(t, h, {})
  <2> SUFFICES ASSUME j.valid, ~j.graft, NEW e \in Links(t, h), e[1] \in j.marks
               PROVE  e[2] \in j.marks
    BY DEF Closed, j
  <2>1. i.valid /\ ~i.graft
    BY <1>1, <1>4 DEF Blocks
  <2>2. e \in Links(u, h) /\ (e # <<n, m>> /\ e[1] \in i.marks => e[2] \in i.marks)
    BY <1>2, <1>3, <2>1 DEF Good, Closed, i
  <2>3. CASE n \notin i.marks
    BY <1>1, <2>2, <2>3
  <2>4. CASE n \in i.marks /\ leaf
    BY <1>1, <1>3, <2>2, <2>4
  <2>5. CASE n \in i.marks /\ ~leaf
    BY <1>1, <2>2, <2>5
  <2> QED  BY <2>3, <2>4, <2>5
<1>8. Quiet(t, h) /\ Watched(t, h) /\ Current(t, h)
  BY <1>1, <1>2, <1>3, <1>5 DEF Good, Quiet, Watched, Listed, Current, Frame, i, j
<1>9. Complete(t, h, {m})
  <2> SUFFICES ASSUME j.valid, NEW x \in Listing(t, h, j.marks \ {m})
               PROVE  x \in j.res
    BY DEF Complete, j
  <2>1. j.marks \ {m} \in SUBSET Node
    BY <1>4 DEF Blocks
  <2>2. /\ x[1] \in j.marks \ {m} /\ x[1] \in u.match /\ x[1] # Origin(h)
        /\ x = Item(u, h, x[1])
    BY <1>1, <1>3, <2>1, ListingParts DEF Frame
  <2>3. x[1] \in i.marks
    BY <1>1, <2>2
  <2>4. i.marks \ {} \in SUBSET Node
    BY <1>4 DEF Blocks
  <2>5. x \in Listing(u, h, i.marks \ {})
    BY <1>1, <2>2, <2>3, <2>4, ListingParts
  <2> QED  BY <1>1, <1>2, <2>5 DEF Good, Complete, i
<1>10. j.marks \subseteq t.nodes
  BY <1>1, <1>2 DEF Good, Frame, i
<1> QED  BY <1>6, <1>7, <1>8, <1>9, <1>10 DEF Good, t, j

LEMMA InsertLinkFine ==
  ASSUME query \in Queries, NEW s, Fine(s), NEW p \in Node, NEW c \in Node, {p, c} \subseteq s.nodes,
         NEW t, t = InsertLink(s, p, c)
  PROVE  Fine(t) /\ Flags(s, t) /\ t.nodes = s.nodes
<1> DEFINE linked == [s EXCEPT !.links = @ \cup {<<p, c>>}]
           down   == Inherit(linked, "descendants", p, c)
           heard  == Inherit(down, "ancestors", c, p)
<1>1. /\ linked \in States /\ linked.index = s.index /\ linked.nodes = s.nodes
      /\ linked.links = s.links \cup {<<p, c>>}
  BY DEF Fine, States
<1>2. \A h \in Hints :
        LET x == IF query[h].dir = "descendants" THEN <<p, c>> ELSE <<c, p>>
        IN  Good(linked, h, {}, {x}) /\ x \in Links(linked, h)
  BY LinkedGood DEF Fine
<1> HIDE DEF linked
<1>3. down \in States /\ Frame(linked, down) /\ Flags(linked, down)
  BY <1>1, InheritFlags
<1>4. ASSUME NEW h \in Hints, query[h].dir = "descendants"
      PROVE  Good(down, h, {c}, {})
  BY <1>1, <1>2, <1>4, InheritOwn
<1>5. ASSUME NEW h \in Hints, query[h].dir # "descendants"
      PROVE  Good(down, h, {}, {<<c, p>>}) /\ <<c, p>> \in Links(down, h)
  <2>1. Good(linked, h, {}, {<<c, p>>}) /\ <<c, p>> \in Links(linked, h)
    BY <1>2, <1>5
  <2>2. Good(down, h, {}, {<<c, p>>})
    BY <1>1, <1>5, <2>1, InheritOther
  <2>3. Links(down, h) = Links(linked, h)
    BY <1>3 DEF Links, Way, Frame
  <2> QED  BY <2>1, <2>2, <2>3
<1>6. down.nodes = s.nodes
  BY <1>1, <1>3 DEF Frame
<1> HIDE DEF down
<1>7. heard \in States /\ Frame(down, heard) /\ Flags(down, heard)
  BY <1>3, InheritFlags
<1>8. ASSUME NEW h \in Hints
      PROVE  Good(heard, h, {p, c}, {})
  <2>1. CASE query[h].dir = "descendants"
    <3>1. Good(heard, h, {c}, {})
      BY <1>3, <1>4, <2>1, InheritOther
    <3> QED  BY <1>7, <3>1, GoodMore
  <2>2. CASE query[h].dir # "descendants"
    <3>1. query[h].dir = "ancestors"
      BY <2>2, QueryType
    <3>2. Good(heard, h, {p}, {})
      BY <1>3, <1>5, <1>6, <3>1, InheritOwn
    <3> QED  BY <1>7, <3>2, GoodMore
  <2> QED  BY <2>1, <2>2
<1> HIDE DEF heard
<1>9. t = Noted(heard, {p, c})
  BY DEF InsertLink, heard, down, linked
<1>10. t \in States /\ Frame(heard, t) /\ Flags(heard, t)
  BY <1>7, <1>9, NotedFlags
<1>11. ASSUME NEW h \in Hints
       PROVE  Good(t, h, {}, {})
  <2>1. Good(t, h, {p, c} \ {p, c}, {})
    BY <1>7, <1>8, <1>9, NotedGood
  <2>2. {p, c} \ {p, c} = {}
    OBVIOUS
  <2> QED  BY <2>1, <2>2
<1>12. Whole(t)
  BY <1>1, <1>3, <1>7, <1>10 DEF Fine, Whole, Frame
<1> QED  BY <1>1, <1>3, <1>7, <1>10, <1>11, <1>12 DEF Fine, Frame, Flags

-----------------------------------------------------------------------------
(* Nodes and fields *)

\* What is listed is marked.
LEMMA ListedMarked ==
  ASSUME NEW s, NEW h, Quiet(s, h), Watched(s, h)
  PROVE  \A x \in s.index[h].res : x[1] \in s.index[h].marks
BY DEF Quiet, Watched, Listed

\* What happens to the fields of a node without markers is no index's business.
LEMMA UnmarkedGood ==
  ASSUME query \in Queries, NEW s, Fine(s), NEW n \in Node,
         \A h \in Hints : n \notin s.index[h].marks,
         NEW t, t \in States, t.links = s.links, s.nodes \ {n} \subseteq t.nodes,
         \A m \in Node : m # n => (m \in t.match <=> m \in s.match) /\ t.key[m] = s.key[m],
         \A h \in Hints : t.index[h] = s.index[h]
  PROVE  \A h \in Hints : Good(t, h, {}, {})
<1> SUFFICES ASSUME NEW h \in Hints  PROVE Good(t, h, {}, {})
  OBVIOUS
<1> DEFINE j == s.index[h]
<1>1. Good(s, h, {}, {}) /\ t.index[h] = j /\ n \notin j.marks /\ j \in Blocks /\ s \in States
  BY DEF Fine, States
<1>2. Links(t, h) = Links(s, h)
  BY DEF Links, Way
<1>3. \A m \in Node : m # n => Item(t, h, m) = Item(s, h, m)
  BY DEF Item
<1> HIDE DEF j
<1>4. Rooted(t, h) /\ Quiet(t, h) /\ Watched(t, h) /\ Closed(t, h, {}) /\ j.marks \subseteq t.nodes
  BY <1>1, <1>2 DEF Good, Rooted, Quiet, Watched, Listed, Closed, j
<1>5. \A x \in j.res : x[1] \in j.marks /\ x[1] \in Node /\ x[1] # n
  <2>1. \A x \in j.res : x[1] \in j.marks
    BY <1>1, ListedMarked DEF Good, j
  <2> QED  BY <1>1, <2>1 DEF Blocks
<1>6. Current(t, h)
  BY <1>1, <1>3, <1>5 DEF Good, Current, j
<1>7. Complete(t, h, {})
  <2> SUFFICES ASSUME j.valid, NEW x \in Listing(t, h, j.marks \ {})
               PROVE  x \in j.res
    BY <1>1 DEF Complete
  <2>1. j.marks \ {} \in SUBSET Node
    BY <1>1 DEF Blocks
  <2>2. /\ x[1] \in j.marks \ {} /\ x[1] \in t.match /\ x[1] # Origin(h)
        /\ x = Item(t, h, x[1])
    BY <2>1, ListingParts
  <2>3. x[1] \in Node /\ x[1] # n
    BY <1>1, <2>1, <2>2
  <2>4. x[1] \in s.match /\ x = Item(s, h, x[1])
    BY <1>3, <2>2, <2>3
  <2>5. x \in Listing(s, h, j.marks \ {})
    BY <1>1, <2>1, <2>2, <2>4, ListingParts
  <2> QED  BY <1>1, <2>5 DEF Good, Complete, j
<1> QED  BY <1>1, <1>4, <1>6, <1>7 DEF Good

LEMMA DestroyFine ==
  ASSUME query \in Queries, NEW s, Fine(s), NEW n \in Node, On(s, n) = {},
         Next1(s.links, n) = {}, Next1(Way(s, "ancestors"), n) = {}, NEW matches \in BOOLEAN,
         NEW t, t = DestroyNode(s, n, matches)
  PROVE  Fine(t) /\ Flags(s, t) /\ Marks(s, t) /\ t.links = s.links
<1> DEFINE bare == [s EXCEPT !.match = @ \ {n}, !.key[n] = 0]
<1>1. /\ s \in States /\ Whole(s) /\ s.links \in SUBSET (Node \X Node)
      /\ \A h \in Hints : n \notin s.index[h].marks
  BY DEF Fine, On, States
<1>2. /\ bare \in States /\ bare.links = s.links /\ bare.nodes = s.nodes
      /\ bare.match = s.match \ {n} /\ bare.index = s.index
      /\ \A m \in Node : m # n => bare.key[m] = s.key[m]
  BY <1>1, FindIndexAssumption DEF States
<1>3. CASE n = Root
  <2>1. t = [bare EXCEPT !.match = IF matches THEN @ \cup {n} ELSE @]
    BY <1>3 DEF DestroyNode
  <2> HIDE DEF bare
  <2>2. /\ t \in States /\ t.links = s.links /\ t.nodes = s.nodes /\ t.index = s.index
        /\ \A m \in Node : m # n => (m \in t.match <=> m \in s.match) /\ t.key[m] = s.key[m]
    BY <1>2, <2>1 DEF States
  <2>3. \A h \in Hints : Good(t, h, {}, {})
    BY <1>1, <2>2, UnmarkedGood
  <2>4. Whole(t)
    BY <1>1, <2>2 DEF Whole
  <2> QED  BY <2>2, <2>3, <2>4 DEF Fine, Flags, Marks
<1>4. CASE n # Root
  <2> DEFINE Unmarked(h) == [s.index[h] EXCEPT !.marks = @ \ {n}]
             u == [bare EXCEPT !.nodes = @ \ {n}]
  <2>1. \A h \in Hints : s.index[h] \in Blocks /\ s.index[h].marks \ {n} = s.index[h].marks
    BY <1>1 DEF States
  <2>2. \A h \in Hints : Unmarked(h) = s.index[h]
    BY <2>1 DEF Blocks
  <2>3. u.index = s.index
    BY <1>2
  <2>4. t = [u EXCEPT !.index = [h \in Hints |-> Unmarked(h)]]
    BY <1>4, <2>3 DEF DestroyNode, Each
  <2> HIDE DEF bare, Unmarked
  <2>5. /\ u \in States /\ u.links = s.links /\ u.nodes = s.nodes \ {n} /\ u.match = s.match \ {n}
        /\ \A m \in Node : m # n => u.key[m] = s.key[m]
    BY <1>2 DEF States
  <2> HIDE DEF u
  <2>6. \A h \in Hints : Unmarked(h) \in Blocks
    BY <2>1, <2>2
  <2>7. /\ t \in States /\ t.links = s.links /\ t.nodes = s.nodes \ {n} /\ t.match = s.match \ {n}
        /\ \A m \in Node : m # n => t.key[m] = s.key[m]
        /\ \A h \in Hints : t.index[h] = Unmarked(h)
    BY <2>4, <2>5, <2>6 DEF States
  <2>8. \A h \in Hints : t.index[h] = s.index[h]
    BY <2>2, <2>7
  <2>9. \A m \in Node : m # n => (m \in t.match <=> m \in s.match) /\ t.key[m] = s.key[m]
    BY <2>7
  <2>10. \A h \in Hints : Good(t, h, {}, {})
    BY <1>1, <2>7, <2>8, <2>9, UnmarkedGood
  <2>11. Whole(t)
    <3>1. \A e \in s.links : e[1] # n
      BY DEF Next1
    <3>2. \A e \in s.links : <<e[2], e[1]>> \in Way(s, "ancestors")
      BY DEF Way
    <3>3. \A e \in s.links : e[2] # n
      <4> SUFFICES ASSUME NEW e \in s.links, e[2] = n  PROVE FALSE
        OBVIOUS
      <4> DEFINE x == <<e[2], e[1]>>
      <4>1. x \in Way(s, "ancestors") /\ x[1] = n
        BY <3>2
      <4> HIDE DEF x
      <4>2. x[2] \in Next1(Way(s, "ancestors"), n)
        BY <4>1 DEF Next1
      <4> QED  BY <4>2
    <3> QED  BY <1>1, <1>4, <2>7, <3>1, <3>3 DEF Whole
  <2> QED  BY <2>7, <2>8, <2>10, <2>11 DEF Fine, Flags, Marks
<1> QED  BY <1>3, <1>4

Matching(s, n, N) == [s EXCEPT !.nodes = @ \cup N, !.match = @ \cup {n}]

\* A node that now matches is, for the callback, a node to hear of; so is a new one.
LEMMA MatchingFine ==
  ASSUME query \in Queries, NEW s, Fine(s), NEW n \in Node, NEW N \in SUBSET Node,
         NEW t, t = Matching(s, n, N)
  PROVE  /\ t \in States /\ Whole(t) /\ Flags(s, t) /\ t.nodes = s.nodes \cup N
         /\ \A h \in Hints : Good(t, h, {n}, {})
<1>1. /\ t \in States /\ t.index = s.index /\ t.links = s.links /\ t.key = s.key
      /\ t.nodes = s.nodes \cup N /\ t.match = s.match \cup {n} /\ s \in States
  BY DEF Fine, States, Matching
<1>2. ASSUME NEW h \in Hints
      PROVE  Good(t, h, {n}, {})
  <2> DEFINE j == s.index[h]
  <2>1. Good(s, h, {}, {}) /\ t.index[h] = j /\ j \in Blocks
    BY <1>1 DEF Fine, States
  <2>2. Links(t, h) = Links(s, h) /\ \A m : Item(t, h, m) = Item(s, h, m)
    BY <1>1 DEF Links, Way, Item
  <2> HIDE DEF j
  <2>3. Rooted(t, h) /\ Quiet(t, h) /\ Watched(t, h) /\ Closed(t, h, {}) /\ j.marks \subseteq t.nodes
    BY <1>1, <2>1, <2>2 DEF Good, Rooted, Quiet, Watched, Listed, Closed, j
  <2>4. Current(t, h)
    BY <1>1, <2>1, <2>2 DEF Good, Current, j
  <2>5. Complete(t, h, {n})
    <3> SUFFICES ASSUME j.valid, NEW x \in Listing(t, h, j.marks \ {n})
                 PROVE  x \in j.res
      BY <2>1 DEF Complete
    <3>1. j.marks \ {} \in SUBSET Node /\ j.marks \ {n} \in SUBSET Node
      BY <2>1 DEF Blocks
    <3>2. /\ x[1] \in j.marks \ {n} /\ x[1] \in t.match /\ x[1] # Origin(h)
          /\ x = Item(t, h, x[1])
      <4>1. PICK M : M = j.marks \ {n}
        OBVIOUS
      <4>2. t \in States /\ M \in SUBSET Node /\ x \in Listing(t, h, M)
        BY <1>1, <3>1, <4>1
      <4>3. x[1] \in M /\ x[1] \in t.match /\ x[1] # Origin(h) /\ x = Item(t, h, x[1])
        BY <4>2, ListingIn
      <4> QED  BY <4>1, <4>3
    <3>3. x \in Listing(s, h, j.marks \ {})
      BY <1>1, <2>2, <3>1, <3>2, ListingParts
    <3> QED  BY <2>1, <3>3 DEF Good, Complete, j
  <2> QED  BY <2>1, <2>3, <2>4, <2>5 DEF Good
<1>3. Whole(t)
  BY <1>1 DEF Fine, Whole
<1>4. Flags(s, t)
  BY <1>1 DEF Flags
<1> QED  BY <1>1, <1>2, <1>3, <1>4

\* A new node has no markers, so there is nothing to hear.
LEMMA NewNodeFine ==
  ASSUME query \in Queries, NEW s, Fine(s), NEW n \in Node, n \notin s.nodes, NEW matches \in BOOLEAN,
         NEW t, t = [s EXCEPT !.nodes = @ \cup {n},
                              !.match = IF matches THEN @ \cup {n} ELSE @]
  PROVE  Fine(t) /\ Flags(s, t) /\ t.nodes = s.nodes \cup {n}
<1>1. CASE matches
  <2>1. t = [s EXCEPT !.nodes = @ \cup {n}, !.match = @ \cup {n}]
    BY <1>1 DEF Fine, States
  <2>2. /\ t \in States /\ Whole(t) /\ Flags(s, t) /\ t.nodes = s.nodes \cup {n}
        /\ \A h \in Hints : Good(t, h, {n}, {})
    <3>1. t = Matching(s, n, {n}) /\ {n} \in SUBSET Node
      BY <2>1 DEF Matching
    <3> QED  BY <3>1, MatchingFine
  <2>3. t.index = s.index
    BY <2>1 DEF Fine, States
  <2>4. ASSUME NEW h \in Hints
        PROVE  Good(t, h, {}, {})
    <3>1. s.index[h].marks \ {} = s.index[h].marks \ {n}
      BY DEF Fine, Good
    <3> QED  BY <2>2, <2>3, <3>1 DEF Good, Complete
  <2> QED  BY <2>2, <2>4 DEF Fine
<1>2. CASE ~matches
  <2>1. /\ t \in States /\ t.index = s.index /\ t.links = s.links /\ t.key = s.key
        /\ t.nodes = s.nodes \cup {n} /\ t.match = s.match
    BY <1>2 DEF Fine, States
  <2>2. ASSUME NEW h \in Hints
        PROVE  Good(t, h, {}, {})
    BY <2>1
    DEF Fine, Good, Rooted, Closed, Quiet, Watched, Listed, Complete, Listing, Current, Links, Way,
        Item
  <2> QED  BY <2>1, <2>2 DEF Fine, Whole, Flags
<1> QED  BY <1>1, <1>2

\* A node that stops matching is remembered by the indices that list it.
LEMMA LeftFine ==
  ASSUME query \in Queries, NEW s, Fine(s), NEW n \in Node,
         NEW t, t = [s EXCEPT !.match = @ \ {n},
                       !.index = [h \in Hints |->
                         [s.index[h] EXCEPT !.left = IF n \in Listed(s, h) THEN @ \cup {n} ELSE @]]]
  PROVE  Fine(t) /\ Flags(s, t) /\ Marks(s, t) /\ t.nodes = s.nodes /\ t.links = s.links
<1> DEFINE Noticed(h) == [s.index[h] EXCEPT !.left = IF n \in Listed(s, h) THEN @ \cup {n} ELSE @]
<1>1. t = [s EXCEPT !.match = @ \ {n}, !.index = [h \in Hints |-> Noticed(h)]]
  OBVIOUS
<1>2. ASSUME NEW h \in Hints
      PROVE  /\ Noticed(h) \in Blocks
             /\ Noticed(h).known = s.index[h].known /\ Noticed(h).active = s.index[h].active
             /\ Noticed(h).valid = s.index[h].valid /\ Noticed(h).marks = s.index[h].marks
             /\ Noticed(h).res = s.index[h].res /\ Noticed(h).graft = s.index[h].graft
             /\ Noticed(h).left = IF n \in Listed(s, h) THEN s.index[h].left \cup {n}
                                  ELSE s.index[h].left
  <2>1. s.index[h] \in Blocks
    BY DEF Fine, States
  <2> QED  BY <2>1 DEF Blocks
<1> HIDE DEF Noticed
<1>3. \A h \in Hints : Noticed(h) \in Blocks
  BY <1>2
<1>4. /\ t \in States /\ t.nodes = s.nodes /\ t.links = s.links /\ t.key = s.key
      /\ t.match = s.match \ {n} /\ \A h \in Hints : t.index[h] = Noticed(h)
  <2>1. s \in States
    BY DEF Fine
  <2>2. [h \in Hints |-> Noticed(h)] \in [Hints -> Blocks]
    BY <1>3
  <2>3. /\ t \in States /\ t.nodes = s.nodes /\ t.links = s.links /\ t.key = s.key
        /\ t.match = s.match \ {n} /\ t.index = [h \in Hints |-> Noticed(h)]
    BY <1>1, <2>1, <2>2 DEF States
  <2> QED  BY <2>3
<1>5. ASSUME NEW h \in Hints
      PROVE  Good(t, h, {}, {})
  <2> DEFINE j == s.index[h]  k == t.index[h]
  <2>1. /\ k.active = j.active /\ k.valid = j.valid /\ k.marks = j.marks /\ k.res = j.res
        /\ k.graft = j.graft
        /\ k.left = IF n \in Listed(s, h) THEN j.left \cup {n} ELSE j.left
    <3>1. k = Noticed(h)
      BY <1>4
    <3> HIDE DEF k
    <3> QED  BY <1>2, <3>1
  <2>2. Good(s, h, {}, {}) /\ j \in Blocks /\ s \in States
    BY DEF Fine, States
  <2>3. Links(t, h) = Links(s, h) /\ \A m : Item(t, h, m) = Item(s, h, m)
    BY <1>4 DEF Links, Way, Item
  <2> HIDE DEF j, k
  <2>4. /\ Rooted(t, h) /\ Quiet(t, h) /\ Watched(t, h) /\ Closed(t, h, {})
        /\ k.marks \subseteq t.nodes
    <3>4. /\ Rooted(s, h) /\ Quiet(s, h) /\ Watched(s, h) /\ Closed(s, h, {})
          /\ j.marks \subseteq s.nodes
      BY <2>2 DEF Good, j
    <3>1. Rooted(t, h) /\ k.marks \subseteq t.nodes
      <4>1. Rooted(t, h)
        BY <2>1, <2>3, <3>4 DEF Rooted, j, k
      <4> QED  BY <1>4, <2>1, <3>4, <4>1
    <3>2. Quiet(t, h) /\ Watched(t, h)
      <4>1. Quiet(t, h)
        BY <2>1, <3>4 DEF Quiet, j, k
      <4>2. Listed(t, h) = Listed(s, h)
        BY <2>1 DEF Listed, j, k
      <4> QED  BY <2>1, <3>4, <4>1, <4>2 DEF Watched, j, k
    <3>3. Closed(t, h, {})
      BY <2>1, <2>3, <3>4 DEF Closed, j, k
    <3> QED  BY <3>1, <3>2, <3>3
  <2>5. Current(t, h)
    <3> SUFFICES ASSUME NEW x \in j.res
                 PROVE  /\ x[1] # Origin(h)
                        /\ x[1] \in k.left \/ (x[1] \in t.match /\ x = Item(t, h, x[1]))
      BY <2>1 DEF Current, k
    <3>1. /\ x[1] # Origin(h)
          /\ x[1] \in j.left \/ (x[1] \in s.match /\ x = Item(s, h, x[1]))
      BY <2>2 DEF Good, Current, j
    <3>2. x[1] \in Listed(s, h)
      BY DEF Listed, j
    <3> QED  BY <1>4, <2>1, <2>3, <3>1, <3>2
  <2>6. Complete(t, h, {})
    <3> SUFFICES ASSUME k.valid, NEW x \in Listing(t, h, k.marks \ {})
                 PROVE  x \in k.res
      BY DEF Complete, k
    <3>1. j.marks \ {} \in SUBSET Node
      BY <2>2 DEF Blocks
    <3>2. t \in States
      BY <1>4
    <3>3. /\ x[1] \in j.marks \ {} /\ x[1] \in t.match /\ x[1] # Origin(h)
          /\ x = Item(t, h, x[1])
      <4>1. PICK M : M = j.marks \ {}
        OBVIOUS
      <4>2. M \in SUBSET Node /\ x \in Listing(t, h, M)
        BY <2>1, <3>1, <4>1
      <4>3. x[1] \in M /\ x[1] \in t.match /\ x[1] # Origin(h) /\ x = Item(t, h, x[1])
        BY <3>2, <4>2, ListingIn
      <4> QED  BY <4>1, <4>3
    <3>4. x \in Listing(s, h, j.marks \ {})
      BY <1>4, <2>2, <2>3, <3>1, <3>3, ListingParts
    <3> QED  BY <2>1, <2>2, <3>4 DEF Good, Complete, j
  <2> QED  BY <2>4, <2>5, <2>6 DEF Good, k
<1>6. Flags(s, t) /\ Marks(s, t)
  BY <1>2, <1>4 DEF Flags, Marks
<1> QED  BY <1>4, <1>5, <1>6 DEF Fine, Whole

\* With the key of a node, only the place of that node changes.
LEMMA RekeyedGood ==
  ASSUME query \in Queries, NEW s, Fine(s), NEW n \in Node, NEW k \in Keys,
         NEW t, t = [s EXCEPT !.key[n] = k], NEW h \in Hints,
         n \in s.index[h].marks /\ query[h].ordered /\ n # Origin(h) => n \notin s.match
  PROVE  Good(t, h, {}, {})
<1> DEFINE j == s.index[h]
<1>1. /\ t \in States /\ t.index = s.index /\ t.links = s.links /\ t.nodes = s.nodes
      /\ t.match = s.match /\ \A m \in Node : m # n => t.key[m] = s.key[m]
  BY DEF Fine, States
<1>2. Good(s, h, {}, {}) /\ t.index[h] = j /\ j \in Blocks /\ s \in States
  BY <1>1 DEF Fine, States
<1>3. Links(t, h) = Links(s, h)
  BY <1>1 DEF Links, Way
<1> HIDE DEF j
<1>4. \A m \in Node : m # n \/ ~query[h].ordered => Item(t, h, m) = Item(s, h, m)
  BY <1>1 DEF Item
<1>5. /\ Rooted(t, h) /\ Quiet(t, h) /\ Watched(t, h) /\ Closed(t, h, {})
      /\ j.marks \subseteq t.nodes
  BY <1>1, <1>2, <1>3 DEF Good, Rooted, Quiet, Watched, Listed, Closed, j
<1>6. \A m \in j.marks : m \in s.match /\ m # Origin(h) => Item(t, h, m) = Item(s, h, m)
  BY <1>2, <1>4 DEF j, Blocks
<1>7. \A x \in j.res : x[1] \in j.marks
  BY <1>2, ListedMarked DEF Good, j
<1>8. Current(t, h)
  BY <1>1, <1>2, <1>6, <1>7 DEF Good, Current, j
<1>9. Complete(t, h, {})
  <2> SUFFICES ASSUME j.valid, NEW x \in Listing(t, h, j.marks \ {})
               PROVE  x \in j.res
    BY <1>2 DEF Complete
  <2>1. j.marks \ {} \in SUBSET Node
    BY <1>2 DEF Blocks
  <2>2. t \in States
    BY <1>1
  <2>3. /\ x[1] \in j.marks \ {} /\ x[1] \in t.match /\ x[1] # Origin(h)
        /\ x = Item(t, h, x[1])
    <3>1. PICK M : M = j.marks \ {}
      OBVIOUS
    <3>2. M \in SUBSET Node /\ x \in Listing(t, h, M)
      BY <2>1, <3>1
    <3>3. x[1] \in M /\ x[1] \in t.match /\ x[1] # Origin(h) /\ x = Item(t, h, x[1])
      BY <2>2, <3>2, ListingIn
    <3> QED  BY <3>1, <3>3
  <2>4. x \in Listing(s, h, j.marks \ {})
    BY <1>1, <1>2, <1>6, <2>1, <2>3, ListingParts
  <2> QED  BY <1>2, <2>4 DEF Good, Complete, j
<1> QED  BY <1>2, <1>5, <1>8, <1>9 DEF Good

\* An index without results is good if the nodes with its marker are.
LEMMA EmptyGood ==
  ASSUME NEW s \in States, NEW h \in Hints, Rooted(s, h), s.index[h].marks \subseteq s.nodes,
         ~s.index[h].active => s.index[h].marks = {},
         ~s.index[h].valid, s.index[h].res = {}
  PROVE  Good(s, h, {}, {})
BY DEF Good, Quiet, Watched, Complete, Closed, Current

LEMMA ReorderedFine ==
  ASSUME query \in Queries, NEW s, Fine(s), NEW n \in Node, NEW k \in Keys, n \in s.match,
         NEW t, t = Reordered([s EXCEPT !.key[n] = k], n)
  PROVE  Fine(t) /\ Flags(s, t) /\ Marks(s, t) /\ t.nodes = s.nodes /\ t.links = s.links
<1> DEFINE keyed == [s EXCEPT !.key[n] = k]
           noted == Noted(keyed, {n})
           Moved(h) == IF n \in noted.index[h].marks /\ query[h].ordered /\ n # query[h].root
                       THEN Emptied(noted.index[h]) ELSE noted.index[h]
<1>1. /\ keyed \in States /\ keyed.index = s.index /\ keyed.links = s.links
      /\ keyed.nodes = s.nodes /\ keyed.match = s.match
  BY DEF Fine, States
<1>2. \A h \in Hints :
        ~(n \in s.index[h].marks /\ query[h].ordered /\ n # Origin(h)) => Good(keyed, h, {}, {})
  BY RekeyedGood
<1>3. \A h \in Hints : Links(keyed, h) = Links(s, h)
  BY <1>1 DEF Links, Way
<1> HIDE DEF keyed
<1>4. /\ noted \in States /\ Frame(keyed, noted) /\ Flags(keyed, noted) /\ Marks(keyed, noted)
  <2>1. /\ noted \in States /\ Frame(keyed, noted) /\ Flags(keyed, noted)
    BY <1>1, NotedFlags
  <2>2. Marks(keyed, noted)
    <3> SUFFICES ASSUME NEW h \in Hints  PROVE noted.index[h].marks = keyed.index[h].marks
      BY DEF Marks
    <3>1. keyed.index[h] \in Blocks
      BY <1>1 DEF States
    <3>2. noted.index[h] = IF keyed.index[h].valid
                           THEN [keyed.index[h] EXCEPT
                                   !.res = @ \cup Listing(keyed, h, {n} \cap keyed.index[h].marks)]
                           ELSE keyed.index[h]
      BY <1>1, NotedFacts
    <3> QED  BY <3>1, <3>2 DEF Blocks
  <2> QED  BY <2>1, <2>2
<1>5. ASSUME NEW h \in Hints, ~(n \in s.index[h].marks /\ query[h].ordered /\ n # Origin(h))
      PROVE  Good(noted, h, {}, {})
  <2>1. Good(noted, h, {} \ {n}, {})
    BY <1>1, <1>2, <1>5, NotedGood
  <2>2. {} \ {n} = {}
    OBVIOUS
  <2> QED  BY <2>1, <2>2
<1>6. t = [noted EXCEPT !.index = [h \in Hints |-> Moved(h)]]
  BY DEF Reordered, Each, noted, keyed
<1> HIDE DEF noted
<1>7. ASSUME NEW h \in Hints
      PROVE  /\ Moved(h) \in Blocks /\ Moved(h).known = noted.index[h].known
             /\ Moved(h).active = noted.index[h].active /\ Moved(h).marks = noted.index[h].marks
             /\ n \in noted.index[h].marks /\ query[h].ordered /\ n # query[h].root
                => Moved(h).valid = FALSE /\ Moved(h).res = {}
             /\ ~(n \in noted.index[h].marks /\ query[h].ordered /\ n # query[h].root)
                => Moved(h) = noted.index[h]
  <2>1. noted.index[h] \in Blocks
    BY <1>4 DEF States
  <2> QED  BY <2>1 DEF Blocks, Emptied
<1> HIDE DEF Moved
<1>8. \A h \in Hints : Moved(h) \in Blocks
  BY <1>7
<1>9. t \in States /\ Frame(noted, t) /\ \A h \in Hints : t.index[h] = Moved(h)
  BY <1>4, <1>6, <1>8 DEF States, Frame
<1>10. Flags(s, t) /\ Marks(s, t) /\ t.nodes = s.nodes /\ t.links = s.links
  <2>1. t.nodes = s.nodes /\ t.links = s.links
    BY <1>1, <1>4, <1>9 DEF Frame
  <2>2. Flags(noted, t) /\ Marks(noted, t)
    BY <1>7, <1>9 DEF Flags, Marks
  <2> QED  BY <1>1, <1>4, <2>1, <2>2 DEF Flags, Marks
<1>11. ASSUME NEW h \in Hints
       PROVE  Good(t, h, {}, {})
  <2>1. /\ s.index[h].marks = noted.index[h].marks /\ t.index[h].marks = s.index[h].marks
        /\ t.index[h].active = s.index[h].active
    BY <1>1, <1>4, <1>10 DEF Marks, Flags
  <2>2. Links(t, h) = Links(s, h) /\ Links(noted, h) = Links(s, h)
    BY <1>3, <1>4, <1>9 DEF Links, Way, Frame
  <2>3. Good(s, h, {}, {})
    BY DEF Fine
  <2>4. CASE n \in s.index[h].marks /\ query[h].ordered /\ n # Origin(h)
    <3>1. ~t.index[h].valid /\ t.index[h].res = {}
      BY <1>7, <1>9, <2>1, <2>4 DEF Origin
    <3>2. Rooted(t, h)
      BY <2>1, <2>2, <2>3 DEF Good, Rooted
    <3> QED  BY <1>9, <1>10, <2>1, <2>3, <3>1, <3>2, EmptyGood DEF Good, Quiet
  <2>5. CASE ~(n \in s.index[h].marks /\ query[h].ordered /\ n # Origin(h))
    <3>1. t.index[h] = noted.index[h]
      BY <1>7, <1>9, <2>1, <2>5 DEF Origin
    <3>2. Good(noted, h, {}, {})
      BY <1>5, <2>5
    <3> QED
      BY <1>9, <2>2, <3>1, <3>2
      DEF Good, Rooted, Closed, Quiet, Watched, Listed, Complete, Listing, Current, Frame, Item
  <2> QED  BY <2>4, <2>5
<1> QED  BY <1>9, <1>10, <1>11 DEF Fine, Whole

-----------------------------------------------------------------------------
(* Commands *)

\* Most commands change the state alone, and no index starts or stops.
LEMMA CommitInv ==
  ASSUME Inv, calls = <<>>, UNCHANGED <<list, query, calls>>, Fine(db'), Flags(db, db')
  PROVE  Inv'
<1>1. Active(db') = Active(db)
  BY DEF Active, Flags
<1>2. TypeOK' /\ Whole(db')
  BY DEF Inv, TypeOK, Fine
<1>3. Budget'
  BY <1>1 DEF Inv, Budget, Flags
<1>4. \A h \in Hints : Good(db, h, {}, {})'
  BY DEF Fine, Good, Rooted, Quiet, Watched, Listed, Complete, Listing, Item, Closed, Current,
         Links, Way, Origin
<1>5. \A i \in DOMAIN calls' : Leaving(db', calls'[i])
  OBVIOUS
<1> QED  BY <1>2, <1>3, <1>4, <1>5 DEF Inv

LEMMA FineNow == Inv => Fine(db) /\ query \in Queries /\ db \in States /\ Root \in Node
BY FindIndexAssumption DEF Inv, TypeOK, Fine

LEMMA CreateNodeInv ==
  ASSUME Inv, calls = <<>>, NEW n \in Node, NEW matches \in BOOLEAN, NEW noRoot \in BOOLEAN,
         CreateNode(n, matches, noRoot)
  PROVE  Inv'
<1> DEFINE s == [db EXCEPT !.nodes = @ \cup {n}, !.match = IF matches THEN @ \cup {n} ELSE @]
<1>1. Fine(s) /\ Flags(db, s) /\ s.nodes = db.nodes \cup {n}
  BY FineNow, NewNodeFine DEF CreateNode
<1>2. db' = (IF noRoot THEN s ELSE InsertLink(s, Root, n)) /\ UNCHANGED <<list, query, calls>>
  BY DEF CreateNode, Commit
<1> HIDE DEF s
<1>3. CASE noRoot
  BY <1>1, <1>2, <1>3, CommitInv
<1>4. CASE ~noRoot
  <2>1. {Root, n} \subseteq s.nodes
    BY <1>1 DEF Inv, Whole
  <2>2. Fine(db') /\ Flags(s, db')
    BY <1>1, <1>2, <1>4, <2>1, FineNow, InsertLinkFine
  <2>3. Flags(db, db')
    BY <1>1, <2>2 DEF Flags
  <2> QED  BY <1>2, <2>2, <2>3, CommitInv
<1> QED  BY <1>3, <1>4

LEMMA AddLinkInv ==
  ASSUME Inv, calls = <<>>, NEW p \in Node, NEW c \in Node, AddLink(p, c)
  PROVE  Inv'
<1> DEFINE s == InsertLink(db, p, c)
<1>1. {p, c} \subseteq db.nodes /\ db' = Noted(s, {p, c}) /\ UNCHANGED <<list, query, calls>>
  BY DEF AddLink, Commit
<1>2. Fine(s) /\ Flags(db, s)
  BY <1>1, FineNow, InsertLinkFine
<1> HIDE DEF s
<1>3. Fine(db') /\ Flags(s, db')
  BY <1>1, <1>2, FineNow, NotedFine
<1>4. Flags(db, db')
  BY <1>2, <1>3 DEF Flags
<1> QED  BY <1>1, <1>3, <1>4, CommitInv

\* One link goes, seen from the node n at one of its ends.
LEMMA UnlinkInv ==
  ASSUME Inv, calls = <<>>, NEW n \in Node, NEW m \in Node, n \in db.nodes,
         NEW e \in Node \X Node, (e[1] = n \/ e[2] = n),
         db' = Noted(CrossRemove(db, n, {e}, {m}), {n}), UNCHANGED <<list, query, calls>>
  PROVE  Inv'
<1> DEFINE s == CrossRemove(db, n, {e}, {m})
<1>1. Fine(s) /\ Flags(db, s)
  <2>1. {e} \in SUBSET (Node \X Node) /\ {m} \in SUBSET Node /\ \A x \in {e} : (x[1] = n \/ x[2] = n)
    OBVIOUS
  <2> QED  BY <2>1, FineNow, CrossRemoveFine
<1> HIDE DEF s
<1>2. Fine(db') /\ Flags(s, db')
  BY <1>1, FineNow, NotedFine DEF s
<1>3. Flags(db, db')
  BY <1>1, <1>2 DEF Flags
<1> QED  BY <1>2, <1>3, CommitInv

LEMMA LinkInv ==
  ASSUME Inv, calls = <<>>, NEW p \in Node, NEW c \in Node,
         AddLink(p, c) \/ DelParent(p, c) \/ DelChild(p, c)
  PROVE  Inv'
<1>1. <<p, c>> \in Node \X Node /\ <<p, c>>[1] = p /\ <<p, c>>[2] = c
  OBVIOUS
<1>2. CASE DelParent(p, c)
  <2>1. /\ c \in db.nodes /\ db' = Noted(CrossRemove(db, c, {<<p, c>>}, {p}), {c})
        /\ UNCHANGED <<list, query, calls>>
    BY <1>2 DEF DelParent, Commit
  <2> QED  BY <1>1, <2>1, UnlinkInv
<1>3. CASE DelChild(p, c)
  <2>1. /\ p \in db.nodes /\ db' = Noted(CrossRemove(db, p, {<<p, c>>}, {c}), {p})
        /\ UNCHANGED <<list, query, calls>>
    BY <1>3 DEF DelChild, Commit
  <2> QED  BY <1>1, <2>1, UnlinkInv
<1> QED  BY <1>2, <1>3, AddLinkInv

LEMMA DelEdgeInv ==
  ASSUME Inv, calls = <<>>, NEW n \in Node, DelEdge(n)
  PROVE  Inv'
<1>1. Fine(ClearAll(db, n)) /\ Flags(db, ClearAll(db, n))
  BY FineNow, ClearAllFine DEF DelEdge
<1> QED  BY <1>1, CommitInv DEF DelEdge, Commit

LEMMA SetMatchInv ==
  ASSUME Inv, calls = <<>>, NEW n \in Node, SetMatch(n)
  PROVE  Inv'
<1>0. UNCHANGED <<list, query, calls>> /\ n \in db.nodes
  BY DEF SetMatch, Commit
<1>1. CASE n \notin db.match
  <2> DEFINE s == [db EXCEPT !.match = @ \cup {n}]
  <2>1. s = [db EXCEPT !.nodes = @ \cup {}, !.match = @ \cup {n}]
    BY FineNow DEF States
  <2>2. s \in States /\ Whole(s) /\ Flags(db, s) /\ \A h \in Hints : Good(s, h, {n}, {})
    <3>1. {} \in SUBSET Node /\ s = Matching(db, n, {})
      BY <2>1 DEF Matching
    <3> HIDE DEF s
    <3> QED  BY <3>1, FineNow, MatchingFine
  <2>3. db' = Noted(s, {n})
    BY <1>1 DEF SetMatch, Commit
  <2> HIDE DEF s
  <2>4. db' \in States /\ Frame(s, db') /\ Flags(s, db')
    BY <2>2, <2>3, NotedFlags
  <2>5. ASSUME NEW h \in Hints
        PROVE  Good(db', h, {}, {})
    <3>1. Good(Noted(s, {n}), h, {n} \ {n}, {})
      BY <2>2, FineNow, NotedGood
    <3>2. {n} \ {n} = {}
      OBVIOUS
    <3> QED  BY <2>3, <3>1, <3>2
  <2>6. Fine(db') /\ Flags(db, db')
    BY <2>2, <2>4, <2>5 DEF Fine, Whole, Frame, Flags
  <2> QED  BY <1>0, <2>6, CommitInv
<1>2. CASE n \in db.match
  <2>1. db' = [db EXCEPT !.match = @ \ {n},
                 !.index = [h \in Hints |->
                   [db.index[h] EXCEPT !.left = IF n \in Listed(db, h) THEN @ \cup {n} ELSE @]]]
    BY <1>2, FineNow DEF SetMatch, Commit, Each, States
  <2>2. Fine(db') /\ Flags(db, db')
    BY <2>1, FineNow, LeftFine
  <2> QED  BY <1>0, <2>2, CommitInv
<1> QED  BY <1>1, <1>2

LEMMA SetKeyInv ==
  ASSUME Inv, calls = <<>>, NEW n \in Node, NEW k \in Keys, SetKey(n, k)
  PROVE  Inv'
<1>0. UNCHANGED <<list, query, calls>>
  BY DEF SetKey, Commit
<1>1. CASE n \in db.match
  <2>1. db' = Reordered([db EXCEPT !.key[n] = k], n)
    BY <1>1 DEF SetKey, Commit
  <2>2. Fine(db') /\ Flags(db, db')
    BY <1>1, <2>1, FineNow, ReorderedFine
  <2> QED  BY <1>0, <2>2, CommitInv
<1>2. CASE n \notin db.match
  <2>1. db' = [db EXCEPT !.key[n] = k]
    BY <1>2 DEF SetKey, Commit
  <2>2. \A h \in Hints : Good(db', h, {}, {})
    BY <1>2, <2>1, FineNow, RekeyedGood
  <2>3. Fine(db') /\ Flags(db, db')
    BY <2>1, <2>2, FineNow DEF Fine, States, Whole, Flags
  <2> QED  BY <1>0, <2>3, CommitInv
<1> QED  BY <1>1, <1>2

-----------------------------------------------------------------------------
(* Deletions *)

\* While a deletion runs links and markers only go.
Less(s, t) == t.links \subseteq s.links /\ \A m \in Node : On(s, m) = {} => On(t, m) = {}

LEMMA LeavingLess ==
  ASSUME NEW s, NEW t, Less(s, t), NEW c \in Activations, Leaving(s, c)
  PROVE  Leaving(t, c)
<1>1. c.node \in Node
  BY DEF Activations
<1>2. Next1(t.links, c.node) \subseteq Next1(s.links, c.node)
  BY DEF Less, Next1
<1>3. Way(t, "ancestors") \subseteq Way(s, "ancestors")
  BY DEF Less, Way
<1>4. Next1(Way(t, "ancestors"), c.node) \subseteq Next1(Way(s, "ancestors"), c.node)
  BY <1>3 DEF Next1
<1> QED  BY <1>1, <1>2, <1>4 DEF Leaving, Less

\* Between two commands or two steps of a deletion.
Midway(s, stack) ==
  /\ Fine(s) /\ stack \in Seq(Activations)
  /\ \A i \in DOMAIN stack : Leaving(s, stack[i])

LEMMA EnterMidway ==
  ASSUME query \in Queries, NEW s, NEW stack, Midway(s, stack), NEW n \in Node, n \in s.nodes,
         NEW force \in BOOLEAN, Enter(s, stack, n, force)
  PROVE  Midway(db', calls') /\ Flags(s, db')
<1> DEFINE clear == ClearAll(s, n)
           ps    == Next1(Way(s, "ancestors"), n)
           cut   == CrossRemove(clear, n, ps \X {n}, ps)
           frame == [node |-> n, todo |-> Next1(cut.links, n), force |-> force]
<1>1. /\ db' = cut /\ calls' = Append(stack, frame)
  BY DEF Enter
<1>2. s \in States /\ Fine(s)
  BY DEF Midway, Fine
<1>3. ps \in SUBSET Node
  BY <1>2, WayType DEF Next1
<1>4. /\ Fine(clear) /\ Frame(s, clear) /\ Flags(s, clear) /\ On(clear, n) = {}
      /\ \A m \in Node : On(s, m) = {} => On(clear, m) = {}
  BY <1>2, ClearAllFine
<1> HIDE DEF clear
<1>5. ps \X {n} \in SUBSET (Node \X Node) /\ \A e \in ps \X {n} : (e[1] = n \/ e[2] = n)
  BY <1>3
<1>6. /\ Fine(cut) /\ Flags(clear, cut) /\ Marks(clear, cut) /\ cut.links = clear.links \ (ps \X {n})
  <2> HIDE DEF ps
  <2>1. Fine(cut)
    BY <1>3, <1>4, <1>5, CrossRemoveUnmarked
  <2>2. Flags(clear, cut)
    BY <1>3, <1>4, <1>5, CrossRemoveUnmarked
  <2>3. Marks(clear, cut)
    BY <1>3, <1>4, <1>5, CrossRemoveUnmarked
  <2>4. Cut(clear, cut, ps \X {n})
    BY <1>3, <1>4, <1>5, CrossRemoveUnmarked
  <2> QED  BY <2>1, <2>2, <2>3, <2>4 DEF Cut
<1>7. Next1(Way(cut, "ancestors"), n) = {}
  <2> SUFFICES ASSUME NEW e \in Way(cut, "ancestors"), e[1] = n  PROVE FALSE
    BY DEF Next1
  <2>1. PICK l \in cut.links : e = <<l[2], l[1]>>
    BY DEF Way
  <2>2. l \in s.links /\ l \notin ps \X {n} /\ l[2] = n
    BY <1>4, <1>6, <2>1 DEF Frame
  <2>3. l \in Node \X Node
    BY <1>2, <2>2 DEF States
  <2>4. e \in Way(s, "ancestors") /\ e[2] = l[1]
    BY <2>1, <2>2 DEF Way
  <2>5. l[1] \in ps
    BY <2>4 DEF Next1
  <2> QED  BY <2>2, <2>3, <2>5
<1>8. Less(s, cut)
  BY <1>4, <1>6 DEF Less, Frame, Marks, On
<1>9. On(cut, n) = {}
  BY <1>4, <1>6 DEF Marks, On
<1> HIDE DEF cut, ps
<1>10. frame \in Activations
  <2>1. cut.links \in SUBSET (Node \X Node)
    BY <1>6 DEF Fine, States
  <2>2. Next1(cut.links, n) \in SUBSET Node
    BY <2>1 DEF Next1
  <2> QED  BY <2>2 DEF Activations
<1>11. Leaving(cut, frame)
  BY <1>7, <1>9 DEF Leaving
<1> HIDE DEF frame
<1>12. \A i \in DOMAIN stack : Leaving(cut, stack[i])
  <2>1. \A i \in DOMAIN stack : stack[i] \in Activations
    BY DEF Midway
  <2> QED  BY <1>8, <2>1, LeavingLess DEF Midway
<1>13. calls' \in Seq(Activations) /\ \A i \in DOMAIN calls' : Leaving(cut, calls'[i])
  BY <1>1, <1>10, <1>11, <1>12 DEF Midway
<1>14. Flags(s, cut)
  BY <1>4, <1>6 DEF Flags
<1> QED  BY <1>1, <1>6, <1>13, <1>14 DEF Midway

LEMMA NextChildMidway ==
  ASSUME query \in Queries, Midway(db, calls), calls # <<>>,
         NEW c \in Node, NEW kept \in BOOLEAN, NextChild(c, kept)
  PROVE  Midway(db', calls') /\ Flags(db, db')
<1> DEFINE top  == calls[Last]
           rest == [calls EXCEPT ![Last].todo = @ \ {c}]
           cut  == CrossRemove(db, top.node, {<<top.node, c>>}, {c})
<1>1. /\ Fine(db) /\ calls \in Seq(Activations) /\ Last \in DOMAIN calls
      /\ top \in Activations /\ Leaving(db, top) /\ db \in States
  BY DEF Midway, Last, Fine
<1>2. /\ rest \in Seq(Activations) /\ DOMAIN rest = DOMAIN calls
      /\ \A i \in DOMAIN rest : i # Last => rest[i] = calls[i]
      /\ rest[Last].node = top.node /\ rest[Last].todo = top.todo \ {c}
  <2>1. [top EXCEPT !.todo = @ \ {c}] \in Activations
    BY <1>1 DEF Activations
  <2>2. rest = [calls EXCEPT ![Last] = [top EXCEPT !.todo = @ \ {c}]]
    OBVIOUS
  <2> HIDE DEF rest
  <2> QED  BY <1>1, <2>1, <2>2 DEF Activations
<1>3. top.node \in Node /\ top.force \in BOOLEAN
  BY <1>1 DEF Activations
<1> HIDE DEF rest, top
<1>4. /\ Fine(cut) /\ Flags(db, cut) /\ Marks(db, cut) /\ cut.nodes = db.nodes
      /\ cut.links = db.links \ {<<top.node, c>>}
  <2>1. {<<top.node, c>>} \in SUBSET (Node \X Node) /\ {c} \in SUBSET Node
        /\ \A e \in {<<top.node, c>>} : (e[1] = top.node \/ e[2] = top.node)
    BY <1>3
  <2>2. On(db, top.node) = {}
    BY <1>1 DEF Leaving
  <2>3. Fine(cut)
    BY <1>1, <1>3, <2>1, <2>2, CrossRemoveUnmarked
  <2>4. Flags(db, cut)
    BY <1>1, <1>3, <2>1, <2>2, CrossRemoveUnmarked
  <2>5. Marks(db, cut)
    BY <1>1, <1>3, <2>1, <2>2, CrossRemoveUnmarked
  <2>6. cut.nodes = db.nodes
    BY <1>1, <1>3, <2>1, <2>2, CrossRemoveUnmarked
  <2>7. Cut(db, cut, {<<top.node, c>>})
    BY <1>1, <1>3, <2>1, <2>2, CrossRemoveUnmarked
  <2> QED  BY <2>3, <2>4, <2>5, <2>6, <2>7 DEF Cut
<1> HIDE DEF cut
<1>5. Less(db, cut)
  BY <1>4 DEF Less, Marks, On
<1>6. ASSUME NEW s \in {db, cut}, s = cut \/ c \notin db.nodes
      PROVE  \A i \in DOMAIN rest : Leaving(s, rest[i])
  <2>1. Less(db, s)
    BY <1>5, <1>6 DEF Less
  <2>2. ASSUME NEW i \in DOMAIN rest  PROVE Leaving(s, rest[i])
    <3>1. calls[i] \in Activations /\ Leaving(db, calls[i])
      BY <1>1, <1>2 DEF Midway
    <3>2. Leaving(s, calls[i])
      BY <2>1, <3>1, LeavingLess
    <3>3. CASE i # Last
      BY <1>2, <3>2, <3>3
    <3>4. CASE i = Last
      <4>1. <<top.node, c>> \notin s.links
        BY <1>1, <1>4, <1>6 DEF Fine, Whole
      <4>2. c \notin Next1(s.links, top.node)
        <5>1. s.links \in SUBSET (Node \X Node)
          BY <1>1, <1>4, <1>6 DEF Fine, States
        <5> QED  BY <4>1, <5>1 DEF Next1
      <4>3. Leaving(s, top)
        BY <3>2, <3>4 DEF top
      <4> QED  BY <1>2, <3>4, <4>2, <4>3 DEF Leaving
    <3> QED  BY <3>3, <3>4
  <2> QED  BY <2>2
<1>7. CASE c \notin db.nodes /\ db' = db /\ calls' = rest
  BY <1>1, <1>2, <1>6, <1>7 DEF Midway, Flags
<1>8. Midway(cut, rest)
  BY <1>2, <1>4, <1>6 DEF Midway
<1>9. CASE c \in db.nodes /\ db' = cut /\ calls' = rest
  BY <1>4, <1>8, <1>9
<1>10. CASE c \in db.nodes /\ Enter(cut, rest, c, top.force)
  <2>1. Midway(db', calls') /\ Flags(cut, db')
    BY <1>3, <1>4, <1>8, <1>10, EnterMidway
  <2> QED  BY <1>4, <2>1 DEF Flags
<1> QED  BY <1>7, <1>9, <1>10 DEF NextChild, rest, top, cut

LEMMA ReturnMidway ==
  ASSUME query \in Queries, Midway(db, calls), calls # <<>>,
         NEW matches \in BOOLEAN, Return(matches)
  PROVE  Midway(db', calls') /\ Flags(db, db')
<1> DEFINE top == calls[Last]
<1>1. /\ Fine(db) /\ calls \in Seq(Activations) /\ Last \in Nat /\ Last > 0 /\ Last = Len(calls)
      /\ top \in Activations /\ Leaving(db, top) /\ top.node \in Node /\ top.todo = {}
  <2>1. Fine(db) /\ calls \in Seq(Activations)
    BY DEF Midway
  <2>2. Last \in Nat /\ Last > 0 /\ Last = Len(calls) /\ Last \in DOMAIN calls
    BY <2>1 DEF Last
  <2>3. top \in Activations /\ Leaving(db, top) /\ top.todo = {}
    BY <2>1, <2>2 DEF Midway, Return
  <2> QED  BY <2>1, <2>2, <2>3 DEF Activations
<1>2. db' = DestroyNode(db, top.node, matches) /\ calls' = SubSeq(calls, 1, Last - 1)
  BY DEF Return
<1> HIDE DEF top
<1>3. Fine(db') /\ Flags(db, db') /\ Marks(db, db') /\ db'.links = db.links
  BY <1>1, <1>2, DestroyFine DEF Leaving
<1>4. Less(db, db')
  BY <1>3 DEF Less, Marks, On
<1>5. /\ calls' \in Seq(Activations)
      /\ \A i \in DOMAIN calls' : i \in DOMAIN calls /\ calls'[i] = calls[i]
  BY <1>1, <1>2
<1>6. ASSUME NEW i \in DOMAIN calls'  PROVE Leaving(db', calls'[i])
  <2>1. calls[i] \in Activations /\ Leaving(db, calls[i]) /\ calls'[i] = calls[i]
    BY <1>1, <1>5, <1>6 DEF Midway
  <2> QED  BY <1>4, <2>1, LeavingLess
<1> QED  BY <1>3, <1>5, <1>6 DEF Midway

LEMMA DeletionInv ==
  ASSUME Inv, UNCHANGED <<list, query>>, Midway(db', calls'), Flags(db, db')
  PROVE  Inv'
<1>1. Active(db') = Active(db)
  BY DEF Active, Flags
<1>2. TypeOK' /\ Whole(db')
  BY DEF Inv, TypeOK, Midway, Fine
<1>3. Budget'
  BY <1>1 DEF Inv, Budget, Flags
<1>4. \A h \in Hints : Good(db, h, {}, {})'
  BY DEF Midway, Fine, Good, Rooted, Quiet, Watched, Listed, Complete, Listing, Item, Closed,
         Current, Links, Way, Origin
<1>5. (\A i \in DOMAIN calls : Leaving(db, calls[i]))'
  BY DEF Midway, Leaving, On, Next1, Way
<1> QED  BY <1>2, <1>3, <1>4, <1>5 DEF Inv

LEMMA RecursionInv ==
  ASSUME Inv,
         \/ \E n \in Node, force \in BOOLEAN : DelNode(n, force)
         \/ calls # <<>> /\ \E matches \in BOOLEAN : Return(matches)
         \/ calls # <<>> /\ \E c \in Node, kept \in BOOLEAN : NextChild(c, kept)
  PROVE  Inv'
<1>1. Midway(db, calls) /\ query \in Queries
  BY FineNow DEF Inv, TypeOK, Midway
<1>2. CASE \E n \in Node, force \in BOOLEAN : DelNode(n, force)
  <2>1. PICK n \in Node, force \in BOOLEAN : DelNode(n, force)
    BY <1>2
  <2>2. n \in db.nodes /\ Enter(db, calls, n, force) /\ UNCHANGED <<list, query>>
    BY <2>1 DEF DelNode
  <2> QED  BY <1>1, <2>2, EnterMidway, DeletionInv
<1>3. CASE calls # <<>> /\ \E matches \in BOOLEAN : Return(matches)
  BY <1>1, <1>3, ReturnMidway, DeletionInv DEF Return
<1>4. CASE calls # <<>> /\ \E c \in Node, kept \in BOOLEAN : NextChild(c, kept)
  BY <1>1, <1>4, NextChildMidway, DeletionInv DEF NextChild
<1> QED  BY <1>2, <1>3, <1>4

-----------------------------------------------------------------------------
(* Control blocks *)

LEMMA SameGood ==
  ASSUME NEW s \in States, NEW t \in States, Frame(s, t), NEW h \in Hints, Good(s, h, {}, {}),
         t.index[h].marks = s.index[h].marks, t.index[h].valid = s.index[h].valid,
         t.index[h].res = s.index[h].res, t.index[h].left = s.index[h].left,
         t.index[h].graft = s.index[h].graft, s.index[h].active => t.index[h].active
  PROVE  Good(t, h, {}, {})
<1>1. Links(t, h) = Links(s, h)
  BY DEF Links, Way, Frame
<1>2. \A m : Item(t, h, m) = Item(s, h, m)
  BY DEF Item, Frame
<1>3. \A N : Listing(t, h, N) = Listing(s, h, N)
  BY <1>2 DEF Listing, Frame
<1>4. Rooted(t, h) /\ Closed(t, h, {})
  BY <1>1 DEF Good, Rooted, Closed
<1>5. Quiet(t, h) /\ Watched(t, h) /\ Complete(t, h, {})
  BY <1>3 DEF Good, Quiet, Watched, Listed, Complete
<1>6. Current(t, h)
  BY <1>2 DEF Good, Current, Frame
<1> QED  BY <1>4, <1>5, <1>6 DEF Good, Frame

\* Without markers and results there is nothing to be wrong.
LEMMA BlankGood ==
  ASSUME NEW s \in States, NEW h \in Hints, s.index[h].marks = {}, s.index[h].res = {},
         ~s.index[h].valid
  PROVE  Good(s, h, {}, {})
BY DEF Good, Rooted, Quiet, Watched, Complete, Closed, Current

\* Clearing the marker from where it leads now leaves it on no node.
LEMMA DiscardedFacts ==
  ASSUME query \in Queries, NEW s, Fine(s), NEW h \in Hints, NEW known \in BOOLEAN,
         NEW d, d = [Discarded(s, h) EXCEPT !.known = known]
  PROVE  /\ d \in Blocks /\ d.marks = {} /\ d.res = {} /\ ~d.valid /\ ~d.active
         /\ d.known = known
<1>1. s.index[h] \in Blocks /\ Emptied(s.index[h]) \in Blocks
      /\ Emptied(s.index[h]).marks = s.index[h].marks
      /\ Emptied(s.index[h]).res = {} /\ Emptied(s.index[h]).valid = FALSE
  <2>1. s.index[h] \in Blocks
    BY DEF Fine, States
  <2> QED  BY <2>1 DEF Blocks, Emptied
<1>2. s.index[h].marks \subseteq Span(s, h)
  BY RootedInSpan DEF Fine, Good
<1>3. s.index[h].marks \ Span(s, h) = {}
  BY <1>2
<1> DEFINE e == Emptied(s.index[h])
<1>4. d = [[e EXCEPT !.active = FALSE, !.graft = FALSE, !.marks = @ \ Span(s, h)]
           EXCEPT !.known = known]
  BY DEF Discarded
<1> HIDE DEF e
<1>5. e \in Blocks /\ e.marks \ Span(s, h) = {} /\ e.res = {} /\ e.valid = FALSE
  BY <1>1, <1>3 DEF e
<1> QED  BY <1>4, <1>5 DEF Blocks

LEMMA BlocksInv ==
  ASSUME Inv, calls = <<>>, UNCHANGED <<query, calls>>, Fine(db'), Budget',
         list' \in SUBSET Hints, IsFiniteSet(list')
  PROVE  Inv'
<1>1. TypeOK' /\ Whole(db')
  BY DEF Inv, TypeOK, Fine
<1>2. \A h \in Hints : Good(db, h, {}, {})'
  BY DEF Fine, Good, Rooted, Quiet, Watched, Listed, Complete, Listing, Item, Closed, Current,
         Links, Way, Origin
<1> QED  BY <1>1, <1>2 DEF Inv

LEMMA FindInv ==
  ASSUME Inv, calls = <<>>, NEW h \in Hints, Find(h)
  PROVE  Inv'
<1>1. /\ db' = [db EXCEPT !.index[h].known = TRUE] /\ UNCHANGED <<list, query, calls>>
      /\ db \in States
  BY FineNow DEF Find, Commit
<1>2. /\ db' \in States /\ Frame(db, db')
      /\ db'.index[h] = [db.index[h] EXCEPT !.known = TRUE]
      /\ \A g \in Hints : g # h => db'.index[g] = db.index[g]
  <2>0. db.index[h] \in Blocks
    BY <1>1 DEF States
  <2>1. [db.index[h] EXCEPT !.known = TRUE] \in Blocks
    BY <2>0 DEF Blocks
  <2>2. db' = [db EXCEPT !.index = [db.index EXCEPT ![h] = [db.index[h] EXCEPT !.known = TRUE]]]
    BY <1>1
  <2>3. PICK i : i = [db.index EXCEPT ![h] = [db.index[h] EXCEPT !.known = TRUE]]
    OBVIOUS
  <2>4. /\ i \in [Hints -> Blocks] /\ i[h] = [db.index[h] EXCEPT !.known = TRUE]
        /\ \A g \in Hints : g # h => i[g] = db.index[g]
    BY <1>1, <2>1, <2>3 DEF States
  <2>5. db' = [db EXCEPT !.index = i]
    BY <2>2, <2>3
  <2>6. db' \in States /\ Frame(db, db') /\ db'.index = i
    BY <1>1, <2>4, <2>5 DEF States, Frame
  <2> QED  BY <2>4, <2>6
<1>3. \A g \in Hints :
        /\ db'.index[g].marks = db.index[g].marks /\ db'.index[g].valid = db.index[g].valid
        /\ db'.index[g].res = db.index[g].res /\ db'.index[g].left = db.index[g].left
        /\ db'.index[g].graft = db.index[g].graft /\ db'.index[g].active = db.index[g].active
        /\ db.index[g].known => db'.index[g].known
  BY <1>1, <1>2 DEF States, Blocks
<1>4. ASSUME NEW g \in Hints
      PROVE  Good(db', g, {}, {})
  <2>1. PICK t : t = db'
    OBVIOUS
  <2>2. Good(db, g, {}, {}) /\ db \in States /\ t \in States /\ Frame(db, t)
    BY <1>1, <1>2, <2>1 DEF Inv
  <2>3. /\ t.index[g].marks = db.index[g].marks /\ t.index[g].valid = db.index[g].valid
        /\ t.index[g].res = db.index[g].res /\ t.index[g].left = db.index[g].left
        /\ t.index[g].graft = db.index[g].graft
        /\ (db.index[g].active => t.index[g].active)
    BY <1>3, <2>1
  <2>4. Good(t, g, {}, {})
    BY ONLY g \in Hints, <2>2, <2>3, SameGood
  <2> QED  BY <2>1, <2>4
<1>5. Fine(db')
  BY <1>2, <1>4 DEF Inv, Fine, Whole, Frame
<1>6. Active(db') = Active(db)
  BY <1>3 DEF Active
<1>7. Budget'
  BY <1>1, <1>3, <1>6 DEF Inv, Budget, TypeOK
<1> QED  BY <1>1, <1>5, <1>7, BlocksInv DEF Inv, TypeOK

LEMMA ConsiderInv ==
  ASSUME Inv, calls = <<>>, NEW h \in Hints, Consider(h)
  PROVE  Inv'
<1>1. IsFiniteSet(list') /\ list' \in SUBSET Hints
  BY FS_AddElement DEF Inv, TypeOK, Consider
<1>2. Fine(db')
  BY FineNow DEF Consider
<1>3. Budget'
  BY DEF Inv, Budget, Active, Consider
<1> QED  BY <1>1, <1>2, <1>3, BlocksInv DEF Consider

\* The hints D are discarded.
Dropping(s, D, known) ==
  [s EXCEPT !.index = [h \in Hints |-> IF h \in D THEN [Discarded(s, h) EXCEPT !.known = known[h]]
                                       ELSE s.index[h]]]

Dropped(s, t, D, known) ==
  /\ \A h \in Hints : h \in Active(t) <=> h \in Active(s) /\ h \notin D
  /\ \A h \in D : t.index[h].known = known[h]
  /\ \A h \in Hints \ D : t.index[h].known = s.index[h].known

LEMMA DropFine ==
  ASSUME query \in Queries, NEW s, Fine(s), NEW D \in SUBSET Hints, NEW known \in [D -> BOOLEAN],
         NEW t, t = Dropping(s, D, known)
  PROVE  Fine(t) /\ Dropped(s, t, D, known)
<1> DEFINE Block(h) == IF h \in D THEN [Discarded(s, h) EXCEPT !.known = known[h]]
                       ELSE s.index[h]
<1>1. s \in States /\ \A h \in Hints : s.index[h] \in Blocks
  BY DEF Fine, States
<1>2. \A h \in D : /\ Block(h) \in Blocks /\ Block(h).marks = {} /\ Block(h).res = {}
                   /\ ~Block(h).valid /\ ~Block(h).active /\ Block(h).known = known[h]
  <2> SUFFICES ASSUME NEW h \in D
               PROVE  /\ Block(h) \in Blocks /\ Block(h).marks = {} /\ Block(h).res = {}
                      /\ ~Block(h).valid /\ ~Block(h).active /\ Block(h).known = known[h]
    OBVIOUS
  <2>1. Block(h) = [Discarded(s, h) EXCEPT !.known = known[h]] /\ known[h] \in BOOLEAN
    OBVIOUS
  <2> HIDE DEF Block
  <2>2. h \in Hints
    OBVIOUS
  <2>3. PICK d, k : d = Block(h) /\ k = known[h]
    OBVIOUS
  <2>4. d = [Discarded(s, h) EXCEPT !.known = k] /\ k \in BOOLEAN
    BY <2>1, <2>3
  <2>5. d \in Blocks /\ d.marks = {} /\ d.res = {} /\ ~d.valid /\ ~d.active /\ d.known = k
    BY <2>2, <2>4, DiscardedFacts
  <2> QED  BY <2>3, <2>5
<1>3. \A h \in Hints \ D : Block(h) = s.index[h]
  OBVIOUS
<1>4. t = [s EXCEPT !.index = [h \in Hints |-> Block(h)]]
  BY DEF Dropping
<1> HIDE DEF Block
<1>5. \A h \in Hints : Block(h) \in Blocks
  BY <1>1, <1>2, <1>3
<1>6. t \in States /\ Frame(s, t) /\ \A h \in Hints : t.index[h] = Block(h)
  BY <1>1, <1>4, <1>5 DEF States, Frame
<1>7. ASSUME NEW h \in Hints  PROVE Good(t, h, {}, {})
  <2>1. CASE h \in D
    BY <1>2, <1>6, <2>1, BlankGood
  <2>2. CASE h \notin D
    <3>1. t.index[h] = s.index[h]
      BY <1>3, <1>6, <2>2
    <3> QED  BY <1>1, <1>6, <3>1, SameGood DEF Fine
  <2> QED  BY <2>1, <2>2
<1>8. \A h \in Hints : h \in Active(t) <=> h \in Active(s) /\ h \notin D
  BY <1>2, <1>3, <1>6 DEF Active
<1>9. \A h \in D : t.index[h].known = known[h]
  BY <1>2, <1>6
<1>10. \A h \in Hints \ D : t.index[h].known = s.index[h].known
  BY <1>3, <1>6
<1>11. Fine(t)
  BY <1>6, <1>7 DEF Fine, Whole, Frame
<1> QED  BY <1>8, <1>9, <1>10, <1>11 DEF Dropped

LEMMA DeleteInv ==
  ASSUME Inv, calls = <<>>, NEW h \in Hints, NEW discard \in BOOLEAN, Delete(h, discard)
  PROVE  Inv'
<1> DEFINE known == [g \in {h} |-> discard]
<1>1. /\ db' = [db EXCEPT !.index[h] = [Discarded(db, h) EXCEPT !.known = discard]]
      /\ list' = list \ {h} /\ UNCHANGED <<query, calls>> /\ db \in States
  BY FineNow DEF Delete
<1>2. known \in [{h} -> BOOLEAN] /\ {h} \in SUBSET Hints /\ known[h] = discard
  OBVIOUS
<1> HIDE DEF known
<1>3. db' = Dropping(db, {h}, known)
  <2>1. [db.index EXCEPT ![h] = [Discarded(db, h) EXCEPT !.known = discard]]
        = [g \in Hints |-> IF g \in {h} THEN [Discarded(db, g) EXCEPT !.known = known[g]]
                           ELSE db.index[g]]
    BY <1>1, <1>2 DEF States
  <2> QED  BY <1>1, <2>1 DEF Dropping
<1>3a. Fine(db) /\ query \in Queries
  BY FineNow DEF Inv, TypeOK
<1>3c. PICK t : t = Dropping(db, {h}, known) /\ db' = t
  BY <1>3
<1>4. /\ Fine(t)
      /\ \A g \in Hints : g \in Active(t) <=> g \in Active(db) /\ g \notin {h}
      /\ \A g \in {h} : t.index[g].known = known[g]
      /\ \A g \in Hints \ {h} : t.index[g].known = db.index[g].known
  <2> DEFINE D == {h}
  <2>1. D \in SUBSET Hints /\ known \in [D -> BOOLEAN] /\ t = Dropping(db, D, known)
    BY <1>2, <1>3c
  <2> HIDE DEF D
  <2>2. Fine(t) /\ Dropped(db, t, D, known)
    BY <1>3a, <2>1, DropFine
  <2> QED  BY <2>2 DEF D, Dropped
<1>4a. Active(db') \subseteq Active(db)
  BY <1>3c, <1>4 DEF Active
<1>5. IsFiniteSet(list') /\ list' \in SUBSET Hints
  BY <1>1, FS_Subset DEF Inv, TypeOK
<1>6. Cardinality(Active(db')) <= MaxIndices
  <2>1. IsFiniteSet(Active(db))
    BY FS_Subset DEF Inv, TypeOK, Budget, Active
  <2>2. Cardinality(Active(db')) <= Cardinality(Active(db))
    BY <1>4a, <2>1, FS_Subset
  <2>3. Cardinality(Active(db')) \in Nat /\ Cardinality(Active(db)) \in Nat
    BY <1>4a, <2>1, FS_Subset, FS_CardinalityType
  <2> QED  BY <2>2, <2>3, FindIndexAssumption DEF Inv, Budget
<1>7. Budget'
  <2>1. ASSUME NEW g \in Hints
        PROVE  /\ g \in Active(db') => g \in list'
               /\ g \in list' => db'.index[g].known
    <3>1. /\ g \in Active(db) => g \in list
          /\ g \in list => db.index[g].known
      BY DEF Inv, Budget
    <3>2. g \in Active(db') => g \in Active(db) /\ g # h
      BY <1>3c, <1>4
    <3> QED  BY <1>1, <1>3c, <1>4, <3>1, <3>2
  <2> QED  BY <1>6, <2>1 DEF Budget
<1>8. Fine(db')
  BY <1>3c, <1>4
<1> QED  BY <1>1, <1>5, <1>7, <1>8, BlocksInv

LEMMA DecideInv ==
  ASSUME Inv, calls = <<>>, NEW dropped \in SUBSET list, NEW destroyed \in SUBSET dropped,
         Decide(dropped, destroyed)
  PROVE  Inv'
<1> DEFINE known == [h \in dropped |-> h \notin destroyed]
           rest  == list \ dropped
<1>0. Fine(db) /\ query \in Queries /\ db \in States /\ list \in SUBSET Hints
  BY FineNow DEF Inv, TypeOK
<1>1. /\ known \in [dropped -> BOOLEAN] /\ dropped \in SUBSET Hints
      /\ \A h \in dropped : known[h] = (h \notin destroyed)
  BY <1>0
<1> HIDE DEF known
<1>2. PICK kept : kept = Dropping(db, dropped, known)
  OBVIOUS
<1>3. list' = rest /\ UNCHANGED <<query, calls>>
  BY DEF Decide
<1>4. /\ Fine(kept)
      /\ \A h \in Hints : h \in Active(kept) <=> h \in Active(db) /\ h \notin dropped
      /\ \A h \in dropped : kept.index[h].known = known[h]
      /\ \A h \in Hints \ dropped : kept.index[h].known = db.index[h].known
  <2>1. Fine(kept) /\ Dropped(db, kept, dropped, known)
    BY <1>0, <1>1, <1>2, DropFine
  <2> QED  BY <2>1 DEF Dropped
<1>4a. PICK start \in SUBSET (rest \ Active(kept)) :
         /\ Cardinality(start) <= MaxIndices - Cardinality(Active(kept))
         /\ \E s : /\ s = [kept EXCEPT !.index =
                               [h \in Hints |-> [kept.index[h] EXCEPT !.active = @ \/ h \in start]]]
                   /\ db' = Refresh(s, {h \in rest \cap Active(s) : ~s.index[h].valid})
  <2> DEFINE Drop(h, i) == IF h \in dropped
                           THEN [Discarded(db, h) EXCEPT !.known = h \notin destroyed] ELSE i
  <2>1. Each(db, Drop) = [db EXCEPT !.index = [h \in Hints |-> Drop(h, db.index[h])]]
    BY DEF Each
  <2>2. ASSUME NEW h \in Hints
        PROVE  Drop(h, db.index[h]) = IF h \in dropped
                                      THEN [Discarded(db, h) EXCEPT !.known = known[h]]
                                      ELSE db.index[h]
    BY <1>1
  <2>3. kept = Each(db, Drop)
    BY <1>2, <2>1, <2>2 DEF Dropping
  <2>4. PICK start \in SUBSET (rest \ Active(Each(db, Drop))) :
          LET Started(h, i) == [i EXCEPT !.active = @ \/ h \in start]
              s == Each(Each(db, Drop), Started)
          IN  /\ Cardinality(start) <= MaxIndices - Cardinality(Active(Each(db, Drop)))
              /\ db' = Refresh(s, {h \in rest \cap Active(s) : ~s.index[h].valid})
    BY Zenon DEF Decide
  <2> HIDE DEF Drop
  <2>5. [kept EXCEPT !.index = [h \in Hints |-> [kept.index[h] EXCEPT !.active = @ \/ h \in start]]]
        = LET Started(h, i) == [i EXCEPT !.active = @ \/ h \in start] IN  Each(kept, Started)
    BY DEF Each
  <2> QED  BY <2>3, <2>4, <2>5, Zenon
<1> DEFINE Started(h) == [kept.index[h] EXCEPT !.active = @ \/ h \in start]
           s == [kept EXCEPT !.index = [h \in Hints |-> Started(h)]]
<1>5. ASSUME NEW h \in Hints
      PROVE  /\ Started(h) \in Blocks /\ Started(h).known = kept.index[h].known
             /\ Started(h).marks = kept.index[h].marks /\ Started(h).valid = kept.index[h].valid
             /\ Started(h).res = kept.index[h].res /\ Started(h).left = kept.index[h].left
             /\ Started(h).graft = kept.index[h].graft
             /\ Started(h).active <=> (kept.index[h].active \/ h \in start)
  <2>1. kept.index[h] \in Blocks
    BY <1>4 DEF Fine, States
  <2> QED  BY <2>1 DEF Blocks
<1>5a. db' = Refresh(s, {h \in rest \cap Active(s) : ~s.index[h].valid})
  BY <1>4a
<1> HIDE DEF Started
<1>6. s \in States /\ Frame(kept, s) /\ \A h \in Hints : s.index[h] = Started(h)
  <2>1. kept \in States /\ \A h \in Hints : Started(h) \in Blocks
    BY <1>4, <1>5 DEF Fine
  <2> QED  BY <2>1 DEF States, Frame
<1> HIDE DEF s
<1>8. \A h \in Hints : Good(s, h, {}, {})
  BY <1>4, <1>5, <1>6, SameGood DEF Fine
<1>9. Fine(s)
  BY <1>4, <1>6, <1>8 DEF Fine, Whole, Frame
<1>10. Fine(db') /\ Flags(s, db')
  <2> DEFINE H == {h \in rest \cap Active(s) : ~s.index[h].valid}
  <2>1. \A h \in H \cap Hints : s.index[h].active
    BY DEF Active
  <2>2. db' = Refresh(s, H)
    BY <1>5a
  <2> HIDE DEF H
  <2> QED  BY <1>0, <1>9, <2>1, <2>2, RefreshFine
<1>11. Active(db') = Active(kept) \cup start
  <2>1. start \subseteq Hints
    BY <1>0
  <2> QED  BY <1>5, <1>6, <1>10, <2>1 DEF Active, Flags
<1>12. \A h \in Hints : h \in Active(db) => h \in list
  BY DEF Inv, Budget
<1>13. IsFiniteSet(list') /\ list' \in SUBSET Hints
  BY <1>3, FS_Subset DEF Inv, TypeOK
<1>14. Cardinality(Active(db')) <= MaxIndices
  <2>1. IsFiniteSet(Active(kept)) /\ IsFiniteSet(start)
    <3>1. Active(kept) \subseteq list /\ start \subseteq list
      BY <1>4, <1>12 DEF Active
    <3> QED  BY <3>1, FS_Subset DEF Inv, TypeOK
  <2>3. /\ Cardinality(Active(kept) \cup start)
             = Cardinality(Active(kept)) + Cardinality(start)
               - Cardinality(Active(kept) \cap start)
        /\ IsFiniteSet(Active(kept) \cap start)
    BY <2>1, FS_Union, FS_Intersection
  <2>4. /\ Cardinality(Active(kept)) \in Nat /\ Cardinality(start) \in Nat
        /\ Cardinality(Active(kept) \cap start) \in Nat
    BY <2>1, <2>3, FS_CardinalityType
  <2>5. Cardinality(start) <= MaxIndices - Cardinality(Active(kept))
    BY <1>4a
  <2> QED  BY <1>11, <2>3, <2>4, <2>5, FindIndexAssumption
<1>15. Budget'
  <2>1. \A h \in Hints : h \in Active(db') => h \in list'
    BY <1>3, <1>4, <1>11, <1>12
  <2>2. ASSUME NEW h \in Hints, h \in list'
        PROVE  db'.index[h].known
    <3>1. db.index[h].known /\ h \notin dropped
      BY <1>3, <2>2 DEF Inv, Budget
    <3> QED  BY <1>4, <1>5, <1>6, <1>10, <3>1 DEF Flags
  <2> QED  BY <1>14, <2>1, <2>2 DEF Budget
<1> QED  BY <1>3, <1>10, <1>13, <1>15, BlocksInv

-----------------------------------------------------------------------------
(* The theorems *)

LEMMA InitInv == Init => Inv
<1> SUFFICES ASSUME Init  PROVE Inv
  OBVIOUS
<1>1. db \in States
  BY FindIndexAssumption DEF Init, States, Blocks, NoBlock
<1>2. \A h \in Hints : /\ db.index[h].marks = {} /\ db.index[h].res = {} /\ ~db.index[h].valid
                       /\ ~db.index[h].active
  BY DEF Init, NoBlock
<1>3. \A h \in Hints : Good(db, h, {}, {})
  BY <1>1, <1>2, BlankGood
<1>4. TypeOK /\ Whole(db)
  BY <1>1, FS_EmptySet DEF Init, TypeOK, Whole
<1>5. Active(db) = {}
  BY <1>2 DEF Active
<1>6. Cardinality(Active(db)) <= MaxIndices
  BY <1>5, FS_EmptySet, FindIndexAssumption
<1>7. Budget
  BY <1>5, <1>6 DEF Budget, Init
<1>8. \A i \in DOMAIN calls : Leaving(db, calls[i])
  BY DEF Init
<1> QED  BY <1>3, <1>4, <1>7, <1>8 DEF Inv

LEMMA NextInv == Inv /\ [Next]_vars => Inv'
<1> SUFFICES ASSUME Inv, [Next]_vars  PROVE Inv'
  OBVIOUS
<1>1. CASE Next
  <2>1. CASE Idle /\ Command
    <3>1. calls = <<>>
      BY <2>1 DEF Idle
    <3>2. CASE \E n \in Node, matches, noRoot \in BOOLEAN : CreateNode(n, matches, noRoot)
      BY <3>1, <3>2, CreateNodeInv
    <3>3. CASE \E p, c \in Node : AddLink(p, c) \/ DelParent(p, c) \/ DelChild(p, c)
      BY <3>1, <3>3, LinkInv
    <3>4. CASE \E n \in Node, force \in BOOLEAN : DelNode(n, force)
      BY <3>4, RecursionInv
    <3>5. CASE \E n \in Node : DelEdge(n) \/ SetMatch(n) \/ \E k \in Keys : SetKey(n, k)
      BY <3>1, <3>5, DelEdgeInv, SetMatchInv, SetKeyInv
    <3>6. CASE \E h \in Hints : Find(h) \/ Consider(h)
      BY <3>1, <3>6, FindInv, ConsiderInv
    <3>7. CASE \E h \in Hints, discard \in BOOLEAN : Delete(h, discard)
      BY <3>1, <3>7, DeleteInv
    <3>8. CASE \E dropped \in SUBSET list : \E destroyed \in SUBSET dropped : Decide(dropped, destroyed)
      BY <3>1, <3>8, DecideInv
    <3> QED  BY <2>1, <3>2, <3>3, <3>4, <3>5, <3>6, <3>7, <3>8 DEF Command
  <2>2. CASE \/ ~Idle /\ \E matches \in BOOLEAN : Return(matches)
             \/ ~Idle /\ \E c \in Node, kept \in BOOLEAN : NextChild(c, kept)
    BY <2>2, RecursionInv DEF Idle
  <2> QED  BY <1>1, <2>1, <2>2 DEF Next
<1>2. CASE UNCHANGED vars
  BY <1>2
  DEF vars, Inv, TypeOK, Whole, Budget, Active, Good, Rooted, Quiet, Watched, Listed, Complete,
      Listing, Item, Closed, Current, Links, Way, Origin, Leaving, On, Next1
<1> QED  BY <1>1, <1>2

THEOREM Invariance == Spec => []Inv
BY InitInv, NextInv, PTL DEF Spec

\* SelvaFindIndex_Traverse(), update_index(): whatever happened since a valid index was
\* built, what a find command takes from it is what it would find by traversing.
THEOREM FoundIsUsable == Spec => []Usable
<1>1. Inv => Usable
  <2> SUFFICES ASSUME Inv, NEW h \in Hints, db.index[h].valid
               PROVE  LET found == Listing(db, h, Span(db, h))
                      IN  /\ db.index[h].graft \/ found \subseteq db.index[h].res
                          /\ \A i \in db.index[h].res : i \in found \/ i[1] \in db.index[h].left
    BY DEF Usable
  <2> DEFINE j == db.index[h]
  <2>1. db \in States /\ Good(db, h, {}, {}) /\ j \in Blocks /\ query \in Queries
    BY DEF Inv, TypeOK, States
  <2>2. j.marks \subseteq Span(db, h)
    BY <2>1, RootedInSpan DEF Good
  <2>3. Span(db, h) \in SUBSET Node
    BY <2>1, QueryType, VisitsType DEF Span, Origin
  <2>4. ASSUME ~j.graft  PROVE Listing(db, h, Span(db, h)) \subseteq j.res
    <3>1. Origin(h) \in j.marks /\ Origin(h) \in Node
      BY <2>1, QueryType DEF Good, Watched
    <3>2. \A e \in Links(db, h) : e[1] \in j.marks => e[2] \in j.marks
      BY <2>1, <2>4 DEF Good, Closed
    <3>3. j.marks \in SUBSET Node
      BY <2>1 DEF Blocks
    <3>4. Span(db, h) \subseteq j.marks
      BY <2>1, <3>1, <3>2, <3>3, VisitsType DEF Span, Origin
    <3>5. Span(db, h) \subseteq j.marks \ {}
      BY <3>4
    <3>6. Listing(db, h, Span(db, h)) \subseteq Listing(db, h, j.marks \ {})
      BY <3>5 DEF Listing
    <3> QED  BY <2>1, <3>6 DEF Good, Complete
  <2>5. ASSUME NEW i \in j.res, i[1] \notin j.left  PROVE i \in Listing(db, h, Span(db, h))
    <3>1. i[1] \in j.marks
      BY <2>1, ListedMarked DEF Good
    <3>2. i[1] # Origin(h) /\ i[1] \in db.match /\ i = Item(db, h, i[1])
      BY <2>1, <2>5 DEF Good, Current
    <3> QED  BY <2>1, <2>2, <2>3, <3>1, <3>2, ListingParts
  <2> QED  BY <2>4, <2>5
<1> QED  BY <1>1, Invariance, PTL

\* discard_index(), destroy_icb(), make_indexing_decission_proc(): an index that is gone
\* has left no marker behind, whose callback would find a control block that was freed.
THEOREM NoMarkerIsLost == Spec => []Owned
<1>1. Inv => Owned
  BY DEF Inv, Owned, Budget, Active, Good, Quiet, Watched, Origin
<1> QED  BY <1>1, Invariance, PTL

=============================================================================
