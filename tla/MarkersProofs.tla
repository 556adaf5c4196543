----------------------------- MODULE MarkersProofs -----------------------------
(***************************************************************************)
(* What the markers of a subscription promise, for any number of nodes,    *)
(* links, arcs and markers, whatever commands change the graph, and in the *)
(* middle of a deletion: no node that a marker visits is without it unless *)
(* the client has been told, none has a marker that does not visit it, and *)
(* nothing changes under a marker unheard.                                 *)
(*                                                                         *)
(* A marker is cleared by following it.  That this finds every node that   *)
(* has it is what Held says: the marked nodes are tied to the root of the  *)
(* marker through each other.  Each operation keeps that, or lets go of    *)
(* the root of a marker over one step, which is then torn.                 *)
(***************************************************************************)
EXTENDS Markers, TLAPS, FiniteSetTheorems

Marker == [root : Node, dir : Dirs, watch : BOOLEAN]

States == [nodes : SUBSET Node, links : SUBSET (Node \X Node), arcs : SUBSET (Node \X Node),
           fields : SUBSET Node, missing : SUBSET Node,
           def : [Ids -> Marker \cup {Unset, Freed}], marks : [Ids -> SUBSET Node],
           stale : BOOLEAN]

Activations == [node : Node, todo : SUBSET Node, force : BOOLEAN]

-----------------------------------------------------------------------------
(* A relation R, a node r and a set M of nodes: a marker, without the rest  *)

Star(R, r) == {r} \cup Next1(R, r)

\* What is visited from n.
Seen(dir, R, n) == IF dir \in OneStep THEN Star(R, n) ELSE Reach(R, n)

\* A set with r that is closed under R between nodes of M holds all of them: each is
\* reached from r through others.
Tight(R, r, M) ==
  \A S \in SUBSET Node :
    (r \in S /\ \A e \in R : (e[1] \in S /\ e[1] \in M /\ e[2] \in M) => e[2] \in S)
    => M \subseteq S

Held(dir, R, r, M) ==
  /\ dir \in OneStep => M \subseteq Star(R, r)
  /\ dir \notin OneStep => Tight(R, r, M)

\* Over one step nothing is said once r has gone from M.
HeldBy(dir, R, r, M) ==
  /\ dir \in OneStep /\ (r \in M \/ M = {}) => M \subseteq Star(R, r)
  /\ dir \notin OneStep => Tight(R, r, M)

Touches(R, n) == \A e \in R : e[1] = n \/ e[2] = n

LEMMA ReachLeast ==
  ASSUME NEW R, NEW n, NEW S \in SUBSET Node, n \in S,
         \A e \in R : e[1] \in S => e[2] \in S
  PROVE  Reach(R, n) \subseteq S
BY DEF Reach

LEMMA ReachClosed ==
  ASSUME NEW R \in SUBSET (Node \X Node), NEW n \in Node
  PROVE  /\ Reach(R, n) \in SUBSET Node /\ n \in Reach(R, n)
         /\ \A e \in R : e[1] \in Reach(R, n) => e[2] \in Reach(R, n)
BY DEF Reach

LEMMA StarType ==
  ASSUME NEW R \in SUBSET (Node \X Node), NEW n \in Node
  PROVE  /\ Star(R, n) \in SUBSET Node /\ n \in Star(R, n)
         /\ \A x : x \in Star(R, n) <=> x = n \/ <<n, x>> \in R
<1>1. \A e \in R : e = <<e[1], e[2]>> /\ e[1] \in Node /\ e[2] \in Node
  OBVIOUS
<1>2. \A x : x \in Star(R, n) <=> x = n \/ <<n, x>> \in R
  BY <1>1 DEF Star, Next1
<1>3. Star(R, n) \in SUBSET Node
  BY <1>1 DEF Star, Next1
<1>4. n \in Star(R, n)
  BY DEF Star
<1> QED  BY <1>2, <1>3, <1>4

LEMMA SeenType ==
  ASSUME NEW dir, NEW R \in SUBSET (Node \X Node), NEW n \in Node
  PROVE  Seen(dir, R, n) \in SUBSET Node /\ n \in Seen(dir, R, n)
BY ReachClosed, StarType DEF Seen

\* What is visited stays where R stays.
LEMMA SeenWithin ==
  ASSUME NEW dir, NEW N \in SUBSET Node, NEW R \in SUBSET (N \X N), NEW n \in N
  PROVE  Seen(dir, R, n) \subseteq N
<1>1. \A e \in R : e[1] \in N /\ e[2] \in N
  OBVIOUS
<1>2. Reach(R, n) \subseteq N
  BY <1>1, ReachLeast
<1>3. Star(R, n) \subseteq N
  BY <1>1 DEF Star, Next1
<1> QED  BY <1>2, <1>3 DEF Seen

LEMMA TightSeen ==
  ASSUME NEW R \in SUBSET (Node \X Node), NEW r \in Node, NEW M \in SUBSET Node, Tight(R, r, M)
  PROVE  M \subseteq Reach(R, r) /\ (r \notin M => M = {})
<1>1. M \subseteq Reach(R, r)
  BY ReachClosed DEF Tight
<1>2. ASSUME r \notin M  PROVE M = {}
  <2>1. Node \ M \in SUBSET Node /\ r \in Node \ M
    BY <1>2
  <2>2. M \subseteq Node \ M
    BY <2>1 DEF Tight
  <2> QED  BY <2>2
<1> QED  BY <1>1, <1>2

LEMMA HeldSeen ==
  ASSUME NEW dir, NEW R \in SUBSET (Node \X Node), NEW r \in Node, NEW M \in SUBSET Node,
         HeldBy(dir, R, r, M), dir \in OneStep => r \in M \/ M = {}
  PROVE  M \subseteq Seen(dir, R, r) /\ (r \notin M => M = {})
BY TightSeen DEF HeldBy, Seen

\* The nodes that are left are reached without those that have gone.
LEMMA TightCleared ==
  ASSUME NEW R \in SUBSET (Node \X Node), NEW r \in Node, NEW M \in SUBSET Node,
         NEW n \in Node, Tight(R, r, M), NEW Q \in SUBSET R, Touches(R \ Q, n),
         NEW V \in SUBSET Node, n \in V, \A e \in R : e[1] \in V => e[2] \in V
  PROVE  Tight(Q, r, M \ V)
<1> SUFFICES ASSUME NEW S \in SUBSET Node, r \in S,
                    \A e \in Q : (e[1] \in S /\ e[1] \in M \ V /\ e[2] \in M \ V) => e[2] \in S
             PROVE  M \ V \subseteq S
  BY DEF Tight
<1>1. S \cup V \in SUBSET Node /\ r \in S \cup V
  OBVIOUS
<1>2. \A e \in R : (e[1] \in S \cup V /\ e[1] \in M /\ e[2] \in M) => e[2] \in S \cup V
  BY DEF Touches
<1>3. M \subseteq S \cup V
  BY <1>1, <1>2 DEF Tight
<1> QED  BY <1>3

LEMMA TightCut ==
  ASSUME NEW R \in SUBSET (Node \X Node), NEW r \in Node, NEW M \in SUBSET Node,
         NEW n \in Node, n \notin M, Tight(R, r, M), NEW Q \in SUBSET R, Touches(R \ Q, n)
  PROVE  Tight(Q, r, M)
<1> SUFFICES ASSUME NEW S \in SUBSET Node, r \in S,
                    \A e \in Q : (e[1] \in S /\ e[1] \in M /\ e[2] \in M) => e[2] \in S
             PROVE  M \subseteq S
  BY DEF Tight
<1>1. \A e \in R : (e[1] \in S /\ e[1] \in M /\ e[2] \in M) => e[2] \in S
  BY DEF Touches
<1> QED  BY <1>1 DEF Tight

\* Clearing M from n onwards, and cutting some of R at n.
LEMMA HeldCleared ==
  ASSUME NEW dir, NEW R \in SUBSET (Node \X Node), NEW r \in Node, NEW M \in SUBSET Node,
         NEW n \in M, NEW Q \in SUBSET R, Touches(R \ Q, n)
  PROVE  /\ HeldBy(dir, R, r, M) => HeldBy(dir, Q, r, M \ (Seen(dir, R, n) \cup {n}))
         /\ Held(dir, R, r, M) => Held(dir, Q, r, M \ (Seen(dir, R, n) \cup {n}))
<1> DEFINE V == Seen(dir, R, n) \cup {n}
<1>0. V \in SUBSET Node /\ n \in V /\ n \in Node
  BY SeenType
<1>1. CASE dir \in OneStep
  <2>1. V = Star(R, n)
    BY <1>1, StarType DEF Seen
  <2> HIDE DEF V
  <2>2. ASSUME M \subseteq Star(R, r)
        PROVE  M \ V \subseteq Star(Q, r)
    <3>1. CASE n = r
      BY <2>1, <2>2, <3>1
    <3>2. CASE n # r
      <4> SUFFICES ASSUME NEW x \in M \ V  PROVE x \in Star(Q, r)
        OBVIOUS
      <4>1. x = r \/ <<r, x>> \in R
        BY <2>2, StarType
      <4>2. x # n
        BY <1>0
      <4>3. <<r, x>> \in R => <<r, x>> \in Q
        BY <3>2, <4>2 DEF Touches
      <4> QED  BY <4>1, <4>3, StarType
    <3> QED  BY <3>1, <3>2
  <2>3. (r \in M \ V \/ M \ V = {}) => (r \in M \/ M \ V = {})
    OBVIOUS
  <2> QED  BY <1>1, <2>2, <2>3 DEF Held, HeldBy, V
<1>2. CASE dir \notin OneStep
  <2>1. V = Reach(R, n) /\ \A e \in R : e[1] \in V => e[2] \in V
    BY <1>0, <1>2, ReachClosed DEF Seen
  <2> HIDE DEF V
  <2>2. Tight(R, r, M) => Tight(Q, r, M \ V)
    BY <1>0, <2>1, TightCleared
  <2> QED  BY <1>2, <2>2 DEF Held, HeldBy, V
<1> QED  BY <1>1, <1>2

LEMMA HeldCut ==
  ASSUME NEW dir, NEW R \in SUBSET (Node \X Node), NEW r \in Node, NEW M \in SUBSET Node,
         NEW n \in Node, n \notin M, NEW Q \in SUBSET R, Touches(R \ Q, n)
  PROVE  /\ HeldBy(dir, R, r, M) => HeldBy(dir, Q, r, M)
         /\ Held(dir, R, r, M) /\ (dir \in OneStep => r \in M \/ M = {}) => Held(dir, Q, r, M)
<1>1. CASE dir \in OneStep
  <2>1. ASSUME M \subseteq Star(R, r), r \in M \/ M = {}
        PROVE  M \subseteq Star(Q, r)
    <3> SUFFICES ASSUME NEW x \in M  PROVE x \in Star(Q, r)
      OBVIOUS
    <3>1. x = r \/ <<r, x>> \in R
      BY <2>1, StarType
    <3>2. x # n /\ r # n
      BY <2>1
    <3>3. <<r, x>> \in R => <<r, x>> \in Q
      BY <3>2 DEF Touches
    <3> QED  BY <3>1, <3>3, StarType
  <2> QED  BY <1>1, <2>1 DEF Held, HeldBy
<1>2. CASE dir \notin OneStep
  BY <1>2, TightCut DEF Held, HeldBy
<1> QED  BY <1>1, <1>2

LEMMA HeldGrown ==
  ASSUME NEW dir, NEW R, NEW r, NEW M, NEW Q, R \subseteq Q, Held(dir, R, r, M)
  PROVE  Held(dir, Q, r, M)
BY DEF Held, Star, Next1, Tight

\* One more node is next to one of M.
LEMMA HeldAdded ==
  ASSUME NEW dir, NEW R \in SUBSET (Node \X Node), NEW r \in Node, NEW M \in SUBSET Node,
         Held(dir, R, r, M), NEW x \in M, NEW y \in Node, <<x, y>> \in R,
         dir \in OneStep => x = r
  PROVE  Held(dir, R, r, M \cup {y})
<1>1. dir \in OneStep => M \cup {y} \subseteq Star(R, r)
  BY StarType DEF Held
<1>2. ASSUME Tight(R, r, M)  PROVE Tight(R, r, M \cup {y})
  <2> SUFFICES ASSUME NEW S \in SUBSET Node, r \in S,
                      \A e \in R : (e[1] \in S /\ e[1] \in M \cup {y} /\ e[2] \in M \cup {y})
                                   => e[2] \in S
               PROVE  M \cup {y} \subseteq S
    BY DEF Tight
  <2>1. M \subseteq S
    BY <1>2 DEF Tight
  <2>2. y \in S
    <3> DEFINE e == <<x, y>>
    <3>1. e \in R /\ e[1] = x /\ e[2] = y
      OBVIOUS
    <3> QED  BY <2>1, <3>1
  <2> QED  BY <2>1, <2>2
<1> QED  BY <1>1, <1>2 DEF Held

LEMMA HeldRefreshed ==
  ASSUME NEW dir, NEW R \in SUBSET (Node \X Node), NEW r \in Node, NEW M \in SUBSET Node,
         Held(dir, R, r, M)
  PROVE  Held(dir, R, r, M \cup Seen(dir, R, r))
<1>1. CASE dir \in OneStep
  BY <1>1 DEF Held, Seen
<1>2. CASE dir \notin OneStep
  <2> DEFINE V == Reach(R, r)
  <2>1. V \in SUBSET Node /\ r \in V /\ \A e \in R : e[1] \in V => e[2] \in V
    BY ReachClosed
  <2>2. M \subseteq V
    BY <1>2, TightSeen DEF Held
  <2>3. \A S \in SUBSET Node : (r \in S /\ \A e \in R : e[1] \in S => e[2] \in S) => V \subseteq S
    BY ReachLeast
  <2> HIDE DEF V
  <2>4. Tight(R, r, V)
    <3> SUFFICES ASSUME NEW S \in SUBSET Node, r \in S,
                        \A e \in R : (e[1] \in S /\ e[1] \in V /\ e[2] \in V) => e[2] \in S
                 PROVE  V \subseteq S
      BY DEF Tight
    <3>1. S \cap V \in SUBSET Node /\ r \in S \cap V
      BY <2>1
    <3>2. \A e \in R : e[1] \in S \cap V => e[2] \in S \cap V
      BY <2>1
    <3> QED  BY <2>3, <3>1, <3>2
  <2>5. M \cup Seen(dir, R, r) = V
    BY <1>2, <2>2 DEF Seen, V
  <2> QED  BY <1>2, <2>4, <2>5 DEF Held
<1> QED  BY <1>1, <1>2

-----------------------------------------------------------------------------
(* What is visited, when R changes *)

LEMMA SeenShrinks ==
  ASSUME NEW dir, NEW R \in SUBSET (Node \X Node), NEW r \in Node, NEW Q \in SUBSET R
  PROVE  Seen(dir, Q, r) \subseteq Seen(dir, R, r)
<1>1. Star(Q, r) \subseteq Star(R, r)
  BY DEF Star, Next1
<1>2. Reach(Q, r) \subseteq Reach(R, r)
  BY ReachClosed, ReachLeast
<1> QED  BY <1>1, <1>2 DEF Seen

\* A node that is not visited may lose any of its links.
LEMMA SeenCut ==
  ASSUME NEW dir, NEW R \in SUBSET (Node \X Node), NEW r \in Node, NEW n \in Node,
         n \notin Seen(dir, R, r), NEW Q \in SUBSET R, Touches(R \ Q, n)
  PROVE  Seen(dir, Q, r) = Seen(dir, R, r)
<1>1. Seen(dir, Q, r) \subseteq Seen(dir, R, r)
  BY SeenShrinks
<1>2. CASE dir \in OneStep
  <2>1. n # r
    BY SeenType
  <2>2. Star(R, r) \subseteq Star(Q, r)
    <3> SUFFICES ASSUME NEW x \in Star(R, r)  PROVE x \in Star(Q, r)
      OBVIOUS
    <3>1. x # n /\ (x = r \/ <<r, x>> \in R)
      BY <1>2, StarType DEF Seen
    <3>2. <<r, x>> \in R => <<r, x>> \in Q
      BY <2>1, <3>1 DEF Touches
    <3> QED  BY <3>1, <3>2, StarType
  <2> QED  BY <1>1, <1>2, <2>2 DEF Seen
<1>3. CASE dir \notin OneStep
  <2>1. /\ Reach(Q, r) \in SUBSET Node /\ r \in Reach(Q, r)
        /\ \A e \in Q : e[1] \in Reach(Q, r) => e[2] \in Reach(Q, r)
    BY ReachClosed
  <2>2. n \notin Reach(R, r)
    BY <1>3 DEF Seen
  <2>3. \A e \in R : e[1] \in Reach(R, r) => e[2] \in Reach(R, r)
    BY ReachClosed
  <2>4. Reach(Q, r) \subseteq Reach(R, r)
    BY <1>1, <1>3 DEF Seen
  <2>5. \A e \in R : e[1] \in Reach(Q, r) => e[2] \in Reach(Q, r)
    BY <2>1, <2>2, <2>3, <2>4 DEF Touches
  <2>6. Reach(R, r) \subseteq Reach(Q, r)
    BY <2>1, <2>5, ReachLeast
  <2> QED  BY <1>3, <2>4, <2>6 DEF Seen
<1> QED  BY <1>2, <1>3

\* Nothing more is visited when no link of X starts where the traversal passes.
LEMMA SeenSame ==
  ASSUME NEW dir, NEW R \in SUBSET (Node \X Node), NEW r \in Node,
         NEW X \in SUBSET (Node \X Node),
         \A e \in X : e[1] \notin Seen(dir, R, r) \/ (dir \in OneStep /\ e[1] # r)
  PROVE  Seen(dir, R \cup X, r) = Seen(dir, R, r)
<1>0. R \cup X \in SUBSET (Node \X Node) /\ R \in SUBSET (R \cup X)
  OBVIOUS
<1>1. Seen(dir, R, r) \subseteq Seen(dir, R \cup X, r)
  BY <1>0, SeenShrinks
<1>2. CASE dir \in OneStep
  <2>1. \A e \in X : e[1] # r
    BY SeenType
  <2>2. Star(R \cup X, r) \subseteq Star(R, r)
    BY <2>1 DEF Star, Next1
  <2> QED  BY <1>1, <1>2, <2>2 DEF Seen
<1>3. CASE dir \notin OneStep
  <2>1. /\ Reach(R, r) \in SUBSET Node /\ r \in Reach(R, r)
        /\ \A e \in R : e[1] \in Reach(R, r) => e[2] \in Reach(R, r)
    BY ReachClosed
  <2>2. \A e \in X : e[1] \notin Reach(R, r)
    BY <1>3 DEF Seen
  <2>3. Reach(R \cup X, r) \subseteq Reach(R, r)
    BY <2>1, <2>2, ReachLeast
  <2>4. Seen(dir, R, r) = Reach(R, r) /\ Seen(dir, R \cup X, r) = Reach(R \cup X, r)
    BY <1>3 DEF Seen
  <2> QED  BY <1>1, <2>3, <2>4
<1> QED  BY <1>2, <1>3

\* One link more, to a node from which the traversal does not go on, or over one step.
LEMMA SeenLeaf ==
  ASSUME NEW dir, NEW R \in SUBSET (Node \X Node), NEW r \in Node, NEW x \in Node, NEW y \in Node,
         x # y, dir \in OneStep \/ Next1(R \cup {<<x, y>>}, y) = {}
  PROVE  Seen(dir, R \cup {<<x, y>>}, r) \subseteq Seen(dir, R, r) \cup {y}
<1>1. CASE dir \in OneStep
  <2>1. Star(R \cup {<<x, y>>}, r) \subseteq Star(R, r) \cup {y}
    BY DEF Star, Next1
  <2> QED  BY <1>1, <2>1 DEF Seen
<1>2. CASE dir \notin OneStep
  <2>1. /\ Reach(R, r) \in SUBSET Node /\ r \in Reach(R, r)
        /\ \A e \in R : e[1] \in Reach(R, r) => e[2] \in Reach(R, r)
    BY ReachClosed
  <2>2. \A e \in R \cup {<<x, y>>} : e[1] # y
    BY <1>2 DEF Next1
  <2> DEFINE V == Reach(R, r) \cup {y}
  <2>3. V \in SUBSET Node /\ r \in V
    BY <2>1
  <2>4. \A e \in R \cup {<<x, y>>} : e[1] \in V => e[2] \in V
    BY <2>1, <2>2
  <2> HIDE DEF V
  <2>5. Reach(R \cup {<<x, y>>}, r) \subseteq V
    BY <2>3, <2>4, ReachLeast
  <2> QED  BY <1>2, <2>5 DEF Seen, V
<1> QED  BY <1>1, <1>2

-----------------------------------------------------------------------------
(* The inductive invariant *)

Origin(s, m)  == s.def[m].root
Follows(s, m) == Way(s, s.def[m].dir)

Whole(s) ==
  /\ Root \in s.nodes
  /\ s.links \subseteq s.nodes \X s.nodes /\ s.arcs \subseteq s.nodes \X s.nodes
  /\ \A e \in s.arcs : e[1] \in s.fields
  /\ \A m \in Ids : s.marks[m] \subseteq s.nodes

\* A marker that is not torn, before and after a command, and in the middle of one.
Kept(s, m) ==
  /\ m \notin Live(s) => s.marks[m] = {}
  /\ m \in Live(s) => /\ Held(s.def[m].dir, Follows(s, m), Origin(s, m), s.marks[m])
                      /\ s.marks[m] = {} \/ Origin(s, m) \in s.nodes

Tied(s, m) ==
  /\ m \notin Live(s) => s.marks[m] = {}
  /\ m \in Live(s) => HeldBy(s.def[m].dir, Follows(s, m), Origin(s, m), s.marks[m])

\* Nobody has been told: every marker covers what it visits, and one whose root is not
\* there waits for it.
Fresh(s) ==
  ~s.stale => \A m \in Live(s) : /\ Span(s, m) \subseteq s.marks[m]
                                 /\ Origin(s, m) \in s.nodes \cup s.missing

\* Whoever watches is told when the nodes change that its marker visits.
Heard(s, t) ==
  \A m \in Live(s) \cap Live(t) :
    (~s.stale /\ s.def[m].watch /\ Span(s, m) # Span(t, m)) => t.stale

\* A node that is being deleted has no markers, no parents, and no children but those
\* that were listed and are yet to be dealt with.
Leaving(s, c) ==
  /\ On(s, c.node) = {} /\ Next1(Flip(s.links), c.node) = {}
  /\ Next1(s.links, c.node) \subseteq c.todo

TypeOK ==
  /\ db \in States /\ bidir \in BOOLEAN /\ torn \in SUBSET Ids /\ calls \in Seq(Activations)

Inv ==
  /\ TypeOK /\ Whole(db) /\ Fresh(db)
  /\ \A m \in Ids \ torn : Tied(db, m)
  /\ calls = <<>> => Torn(db) \subseteq torn
  /\ \A i \in DOMAIN calls : Leaving(db, calls[i])

-----------------------------------------------------------------------------
(* States *)

LEMMA LiveType ==
  ASSUME NEW s \in States, NEW m \in Live(s)
  PROVE  /\ m \in Ids /\ s.def[m] \in Marker /\ Origin(s, m) \in Node /\ s.def[m].dir \in Dirs
         /\ s.marks[m] \in SUBSET Node
<1>1. m \in Ids /\ s.def[m] \in Marker
  BY DEF Live, States
<1>2. s.marks[m] \in SUBSET Node
  BY <1>1 DEF States
<1> QED  BY <1>1, <1>2 DEF Marker, Origin

LEMMA WayType ==
  ASSUME NEW s \in States, NEW dir
  PROVE  Way(s, dir) \in SUBSET (Node \X Node)
BY DEF Way, Flip, States

LEMMA WayWhole ==
  ASSUME NEW s \in States, Whole(s), NEW dir
  PROVE  Way(s, dir) \in SUBSET (s.nodes \X s.nodes)
BY DEF Way, Flip, Whole

LEMMA VisitsSeen ==
  ASSUME NEW s, NEW dir, NEW n
  PROVE  /\ n \in s.nodes => Visits(s, dir, n) = Seen(dir, Way(s, dir), n)
         /\ n \notin s.nodes => Visits(s, dir, n) = {}
BY DEF Visits, Seen, Star

LEMMA SpanSeen ==
  ASSUME NEW s \in States, NEW m \in Live(s)
  PROVE  /\ Origin(s, m) \in s.nodes => Span(s, m) = Seen(s.def[m].dir, Follows(s, m), Origin(s, m))
         /\ Origin(s, m) \notin s.nodes => Span(s, m) = {}
         /\ Follows(s, m) \in SUBSET (Node \X Node)
BY VisitsSeen, WayType DEF Span, Origin, Follows

\* Marked nodes are visited, and without the root none is marked.
LEMMA TiedInSpan ==
  ASSUME NEW s \in States, Whole(s), NEW m \in Live(s), Tied(s, m), m \notin Torn(s)
  PROVE  s.marks[m] \subseteq Span(s, m)
<1> DEFINE dir == s.def[m].dir  R == Follows(s, m)  r == Origin(s, m)  M == s.marks[m]
<1>1. r \in Node /\ M \in SUBSET Node /\ R \in SUBSET (Node \X Node) /\ m \in Ids
  BY LiveType, SpanSeen
<1>2. dir \in OneStep => r \in M \/ M = {}
  BY DEF Torn, Origin
<1>3. HeldBy(dir, R, r, M)
  BY DEF Tied
<1>4. M \subseteq s.nodes
  BY <1>1 DEF Whole
<1>5. r \in s.nodes => Span(s, m) = Seen(dir, R, r)
  BY SpanSeen
<1> HIDE DEF dir, R, r, M
<1>6. M \subseteq Seen(dir, R, r) /\ (r \notin M => M = {})
  BY <1>1, <1>2, <1>3, HeldSeen
<1>7. M \subseteq Span(s, m)
  BY <1>4, <1>5, <1>6
<1> QED  BY <1>7 DEF M

LEMMA KeptInSpan ==
  ASSUME NEW s \in States, NEW m \in Live(s), Kept(s, m)
  PROVE  s.marks[m] \subseteq Span(s, m)
<1> DEFINE dir == s.def[m].dir  R == Follows(s, m)  r == Origin(s, m)  M == s.marks[m]
<1>1. r \in Node /\ M \in SUBSET Node /\ R \in SUBSET (Node \X Node)
  BY LiveType, SpanSeen
<1>2. Held(dir, R, r, M) /\ (M = {} \/ r \in s.nodes)
  BY DEF Kept
<1>3. r \in s.nodes => Span(s, m) = Seen(dir, R, r)
  BY SpanSeen
<1> HIDE DEF dir, R, r, M
<1>4. M \subseteq Seen(dir, R, r)
  BY <1>1, <1>2, TightSeen DEF Held, Seen
<1>5. M \subseteq Span(s, m)
  BY <1>2, <1>3, <1>4
<1> QED  BY <1>5 DEF M

\* A marker that is tied and not torn is kept.
LEMMA TiedKept ==
  ASSUME NEW s \in States, Whole(s), NEW m \in Ids, Tied(s, m), m \notin Torn(s)
  PROVE  Kept(s, m)
<1>1. CASE m \in Live(s)
  <2> DEFINE dir == s.def[m].dir  R == Follows(s, m)  r == Origin(s, m)  M == s.marks[m]
  <2>1. r \in Node /\ M \in SUBSET Node /\ R \in SUBSET (Node \X Node)
    BY <1>1, LiveType, SpanSeen
  <2>2. dir \in OneStep => r \in M \/ M = {}
    BY <1>1 DEF Torn, Origin
  <2>3. HeldBy(dir, R, r, M)
    BY <1>1 DEF Tied
  <2>4. M \subseteq s.nodes
    BY DEF Whole
  <2>5. Kept(s, m) <=> Held(dir, R, r, M) /\ (M = {} \/ r \in s.nodes)
    BY <1>1 DEF Kept
  <2> HIDE DEF dir, R, r, M
  <2>6. r \notin M => M = {}
    BY <2>1, <2>2, <2>3, HeldSeen
  <2>7. Held(dir, R, r, M)
    BY <2>2, <2>3 DEF Held, HeldBy
  <2> QED  BY <2>4, <2>5, <2>6, <2>7
<1>2. CASE m \notin Live(s)
  BY <1>2 DEF Tied, Kept
<1> QED  BY <1>1, <1>2

LEMMA KeptTied ==
  ASSUME NEW s, NEW m, Kept(s, m)
  PROVE  Tied(s, m)
BY DEF Kept, Tied, Held, HeldBy

LEMMA HeardTrans ==
  ASSUME NEW s, NEW u, NEW t, Heard(s, u), Heard(u, t), u.stale => t.stale,
         \A m \in Live(t) : m \in Live(u) /\ m \in Live(s) /\ u.def[m] = s.def[m]
  PROVE  Heard(s, t)
<1> SUFFICES ASSUME NEW m \in Live(s) \cap Live(t), ~s.stale, s.def[m].watch,
                    Span(s, m) # Span(t, m)
             PROVE  t.stale
  BY DEF Heard
<1>1. CASE Span(s, m) # Span(u, m)
  BY <1>1 DEF Heard
<1>2. CASE Span(u, m) # Span(t, m) /\ ~u.stale
  BY <1>2 DEF Heard
<1> QED  BY <1>1, <1>2

-----------------------------------------------------------------------------
(* Telling *)

\* Nothing but the news that the subscription is stale.
Louder(s, t) ==
  /\ t \in States
  /\ t.nodes = s.nodes /\ t.links = s.links /\ t.arcs = s.arcs /\ t.fields = s.fields
  /\ t.missing = s.missing /\ t.def = s.def /\ t.marks = s.marks
  /\ s.stale => t.stale

LEMMA TellFacts ==
  ASSUME NEW s \in States, NEW M
  PROVE  Louder(s, Tell(s, M)) /\ (M # {} => Tell(s, M).stale)
BY DEF Tell, Louder, States

LEMMA TellChangedFacts ==
  ASSUME NEW s \in States, NEW N
  PROVE  /\ Louder(s, TellChanged(s, N))
         /\ \A n \in N : \A m \in On(s, n) :
              s.def[m].watch /\ s.def[m].dir \notin {"children", "parents"} => TellChanged(s, N).stale
<1> DEFINE M == {m \in Live(s) :
                   \E n \in N \cap s.marks[m] :
                     /\ s.def[m].watch
                     /\ s.def[m].dir \in {"children", "parents"} => s.def[m].root # n}
<1>1. TellChanged(s, N) = Tell(s, M)
  BY DEF TellChanged
<1>2. \A n \in N : \A m \in On(s, n) :
        s.def[m].watch /\ s.def[m].dir \notin {"children", "parents"} => M # {}
  BY DEF On
<1> HIDE DEF M
<1> QED  BY <1>1, <1>2, TellFacts

LEMMA TellWatchersFacts ==
  ASSUME NEW s \in States, NEW n
  PROVE  /\ Louder(s, TellWatchers(s, n))
         /\ \A m \in On(s, n) : s.def[m].watch => TellWatchers(s, n).stale
<1>1. \A m \in On(s, n) : s.def[m].watch => {k \in On(s, n) : s.def[k].watch} # {}
  OBVIOUS
<1> QED  BY <1>1, TellFacts DEF TellWatchers

LEMMA LouderGood ==
  ASSUME NEW s \in States, NEW t, Louder(s, t)
  PROVE  /\ Live(t) = Live(s) /\ Torn(t) = Torn(s) /\ \A m : Span(t, m) = Span(s, m)
         /\ \A n : On(t, n) = On(s, n)
         /\ Whole(s) => Whole(t)
         /\ Fresh(s) => Fresh(t)
         /\ Heard(s, t)
         /\ \A m : (Kept(s, m) => Kept(t, m)) /\ (Tied(s, m) => Tied(t, m))
<1>1. Live(t) = Live(s)
  BY DEF Louder, Live
<1>2. \A dir : Way(t, dir) = Way(s, dir)
  BY DEF Louder, Way
<1>3. \A m : Span(t, m) = Span(s, m)
  BY <1>2 DEF Louder, Span, Visits
<1>4. \A m : Origin(t, m) = Origin(s, m) /\ Follows(t, m) = Follows(s, m)
  BY <1>2 DEF Louder, Origin, Follows
<1>5. Torn(t) = Torn(s)
  BY <1>1 DEF Louder, Torn
<1>6. \A n : On(t, n) = On(s, n)
  BY <1>1 DEF Louder, On
<1>7. Whole(s) => Whole(t)
  BY DEF Louder, Whole
<1>8. Fresh(s) => Fresh(t)
  BY <1>1, <1>3, <1>4 DEF Louder, Fresh
<1>9. Heard(s, t)
  BY <1>3 DEF Heard
<1>10. \A m : (Kept(s, m) => Kept(t, m)) /\ (Tied(s, m) => Tied(t, m))
  BY <1>1, <1>4 DEF Louder, Kept, Tied
<1> QED  BY <1>1, <1>3, <1>5, <1>6, <1>7, <1>8, <1>9, <1>10

-----------------------------------------------------------------------------
(* Clearing a node, and cutting what is next to it *)

CutAt(s, t, n) ==
  /\ t \in States
  /\ t.nodes = s.nodes /\ t.fields = s.fields /\ t.missing = s.missing /\ t.def = s.def
  /\ t.links \subseteq s.links /\ Touches(s.links \ t.links, n)
  /\ t.arcs \subseteq s.arcs /\ Touches(s.arcs \ t.arcs, n)
  /\ \A m \in Live(s) :
       n \in s.marks[m] => t.marks[m] = s.marks[m] \ (Visits(s, s.def[m].dir, n) \cup {n})
  /\ \A m \in Live(s) : n \notin s.marks[m] => t.marks[m] = s.marks[m]
  /\ \A m \in Ids \ Live(s) : t.marks[m] \subseteq s.marks[m]
  /\ s.stale \/ On(s, n) # {} => t.stale

LEMMA CutWay ==
  ASSUME NEW s \in States, NEW n \in Node, NEW t, CutAt(s, t, n), NEW dir
  PROVE  Way(t, dir) \in SUBSET Way(s, dir) /\ Touches(Way(s, dir) \ Way(t, dir), n)
<1>1. Flip(t.links) \subseteq Flip(s.links)
  BY DEF CutAt, Flip
<1>2. Touches(Flip(s.links) \ Flip(t.links), n)
  <2> SUFFICES ASSUME NEW e \in s.links, <<e[2], e[1]>> \notin Flip(t.links)
               PROVE  <<e[2], e[1]>>[1] = n \/ <<e[2], e[1]>>[2] = n
    BY DEF Touches, Flip
  <2>1. e \notin t.links
    BY DEF Flip
  <2> QED  BY <2>1 DEF CutAt, Touches
<1>3. Touches({}, n)
  BY DEF Touches
<1> QED  BY <1>1, <1>2, <1>3 DEF Way, CutAt

LEMMA CutLive ==
  ASSUME NEW s, NEW n, NEW t, CutAt(s, t, n)
  PROVE  Live(t) = Live(s)
BY DEF CutAt, Live

LEMMA CutWhole ==
  ASSUME NEW s \in States, Whole(s), NEW n \in Node, NEW t, CutAt(s, t, n)
  PROVE  Whole(t)
<1>1. ASSUME NEW m \in Ids  PROVE t.marks[m] \subseteq s.marks[m]
  BY DEF CutAt
<1>2. ASSUME NEW m \in Ids  PROVE t.marks[m] \subseteq t.nodes
  BY <1>1 DEF CutAt, Whole
<1> QED  BY <1>2 DEF CutAt, Whole

\* The node has no markers afterwards, and the other nodes no more than before.
LEMMA CutOn ==
  ASSUME NEW s \in States, NEW n \in Node, NEW t, CutAt(s, t, n)
  PROVE  /\ On(t, n) = {}
         /\ \A k \in Node : On(t, k) \subseteq On(s, k)
         /\ On(s, n) = {} => \A m \in Live(s) : t.marks[m] = s.marks[m]
<1>1. Live(t) = Live(s)
  BY CutLive
<1>2. ASSUME NEW m \in Live(s)
      PROVE  n \notin t.marks[m] /\ t.marks[m] \subseteq s.marks[m]
  BY DEF CutAt
<1>3. On(s, n) = {} => \A m \in Live(s) : n \notin s.marks[m]
  BY DEF On
<1>4. On(s, n) = {} => \A m \in Live(s) : t.marks[m] = s.marks[m]
  BY <1>3 DEF CutAt
<1>5. On(t, n) = {}
  BY <1>1, <1>2 DEF On
<1>6. \A k \in Node : On(t, k) \subseteq On(s, k)
  BY <1>1, <1>2 DEF On
<1> QED  BY <1>4, <1>5, <1>6

LEMMA CutHeld ==
  ASSUME NEW s \in States, Whole(s), NEW n \in Node, NEW t, CutAt(s, t, n), NEW m \in Ids
  PROVE  /\ Tied(s, m) => Tied(t, m)
         /\ Kept(s, m) /\ m \notin Torn(s) => Kept(t, m)
<1>1. CASE m \notin Live(s)
  <2>1. m \notin Live(t) /\ t.marks[m] \subseteq s.marks[m]
    <3>1. m \notin Live(t)
      BY <1>1, CutLive
    <3> QED  BY <1>1, <3>1 DEF CutAt
  <2> QED  BY <1>1, <2>1 DEF Tied, Kept
<1>2. CASE m \in Live(s)
  <2> DEFINE dir == s.def[m].dir  R == Follows(s, m)  r == Origin(s, m)  M == s.marks[m]
             Q == Follows(t, m)  L == t.marks[m]
  <2>1. r \in Node /\ M \in SUBSET Node /\ R \in SUBSET (Node \X Node)
    BY <1>2, LiveType, SpanSeen
  <2>2. m \in Live(t) /\ t.def[m].dir = dir /\ Origin(t, m) = r
    <3>1. m \in Live(t)
      BY <1>2, CutLive
    <3>2. t.def = s.def
      BY DEF CutAt
    <3> QED  BY <3>1, <3>2 DEF Origin
  <2>3. Q \in SUBSET R /\ Touches(R \ Q, n)
    BY <2>2, CutWay DEF Follows
  <2>4. n \in M => n \in s.nodes
    BY DEF Whole
  <2>5. n \in M => L = M \ (Seen(dir, R, n) \cup {n})
    BY <1>2, <2>4, VisitsSeen DEF CutAt, Follows
  <2>6. n \notin M => L = M
    BY <1>2 DEF CutAt
  <2>7. m \notin Torn(s) => (dir \in OneStep => r \in M \/ M = {})
    BY <1>2 DEF Torn, Origin
  <2>8. Tied(s, m) <=> HeldBy(dir, R, r, M)
    BY <1>2 DEF Tied
  <2>9. Tied(t, m) <=> HeldBy(dir, Q, r, L)
    BY <2>2 DEF Tied
  <2>10. Kept(s, m) <=> Held(dir, R, r, M) /\ (M = {} \/ r \in s.nodes)
    BY <1>2 DEF Kept
  <2>11. Kept(t, m) <=> Held(dir, Q, r, L) /\ (L = {} \/ r \in s.nodes)
    BY <2>2 DEF Kept, CutAt
  <2> HIDE DEF dir, R, r, M, Q, L
  <2>12. CASE n \in M
    <3>1. /\ HeldBy(dir, R, r, M) => HeldBy(dir, Q, r, L)
          /\ Held(dir, R, r, M) => Held(dir, Q, r, L)
      <4>1. /\ HeldBy(dir, R, r, M) => HeldBy(dir, Q, r, M \ (Seen(dir, R, n) \cup {n}))
            /\ Held(dir, R, r, M) => Held(dir, Q, r, M \ (Seen(dir, R, n) \cup {n}))
        BY <2>1, <2>3, <2>12, HeldCleared
      <4> QED  BY <2>5, <2>12, <4>1
    <3>2. L \subseteq M
      BY <2>5, <2>12
    <3> QED  BY <2>8, <2>9, <2>10, <2>11, <3>1, <3>2
  <2>13. CASE n \notin M
    <3>1. /\ HeldBy(dir, R, r, M) => HeldBy(dir, Q, r, L)
          /\ Held(dir, R, r, M) /\ (dir \in OneStep => r \in M \/ M = {}) => Held(dir, Q, r, L)
      BY <2>1, <2>3, <2>6, <2>13, HeldCut
    <3> QED  BY <2>6, <2>7, <2>8, <2>9, <2>10, <2>11, <2>13, <3>1
  <2> QED  BY <2>12, <2>13
<1> QED  BY <1>1, <1>2

\* Whoever visits the node is told; the others do not notice.
LEMMA CutSpan ==
  ASSUME NEW s \in States, Whole(s), NEW n \in Node, NEW t, CutAt(s, t, n), NEW m \in Live(s)
  PROVE  /\ Span(t, m) \subseteq Span(s, m)
         /\ n \notin Span(s, m) => Span(t, m) = Span(s, m)
<1> DEFINE dir == s.def[m].dir  R == Follows(s, m)  r == Origin(s, m)  Q == Follows(t, m)
<1>1. r \in Node /\ R \in SUBSET (Node \X Node)
  BY LiveType, SpanSeen
<1>2. m \in Live(t) /\ t.def[m].dir = dir /\ Origin(t, m) = r /\ t \in States /\ t.nodes = s.nodes
  <2>1. m \in Live(t)
    BY CutLive
  <2>2. t.def = s.def /\ t \in States /\ t.nodes = s.nodes
    BY DEF CutAt
  <2> QED  BY <2>1, <2>2 DEF Origin
<1>3. Q \in SUBSET R /\ Touches(R \ Q, n)
  BY <1>2, CutWay DEF Follows
<1>4. /\ r \in s.nodes => Span(s, m) = Seen(dir, R, r) /\ Span(t, m) = Seen(dir, Q, r)
      /\ r \notin s.nodes => Span(s, m) = {} /\ Span(t, m) = {}
  BY <1>2, SpanSeen
<1> HIDE DEF dir, R, r, Q
<1>5. Seen(dir, Q, r) \subseteq Seen(dir, R, r)
  BY <1>1, <1>3, SeenShrinks
<1>6. n \notin Seen(dir, R, r) => Seen(dir, Q, r) = Seen(dir, R, r)
  BY <1>1, <1>3, SeenCut
<1> QED  BY <1>4, <1>5, <1>6

LEMMA CutFresh ==
  ASSUME NEW s \in States, Whole(s), NEW n \in Node, NEW t, CutAt(s, t, n), Fresh(s)
  PROVE  Fresh(t) /\ Heard(s, t)
<1>1. ASSUME NEW m \in Live(s), ~t.stale
      PROVE  /\ t.marks[m] = s.marks[m] /\ Span(s, m) \subseteq s.marks[m]
             /\ Origin(t, m) \in t.nodes \cup t.missing /\ Span(t, m) = Span(s, m)
  <2>1. ~s.stale /\ On(s, n) = {}
    BY <1>1 DEF CutAt
  <2>2. Span(s, m) \subseteq s.marks[m] /\ Origin(s, m) \in s.nodes \cup s.missing
    BY <2>1 DEF Fresh
  <2>3. n \notin s.marks[m]
    BY <2>1 DEF On
  <2>4. Span(t, m) = Span(s, m)
    BY <2>2, <2>3, CutSpan
  <2>5. t.marks[m] = s.marks[m] /\ Origin(t, m) = Origin(s, m) /\ t.nodes = s.nodes
        /\ t.missing = s.missing
    BY <2>3 DEF CutAt, Origin
  <2> QED  BY <2>2, <2>4, <2>5
<1>2. Live(t) = Live(s)
  BY CutLive
<1> QED  BY <1>1, <1>2 DEF Fresh, Heard

LEMMA CutLouder ==
  ASSUME NEW s \in States, NEW n, NEW u, CutAt(s, u, n), NEW t, Louder(u, t)
  PROVE  CutAt(s, t, n)
BY DEF CutAt, Louder

LEMMA ClearAllFacts ==
  ASSUME NEW s \in States, NEW n \in Node, NEW t, t = ClearAll(s, n)
  PROVE  CutAt(s, t, n) /\ t.links = s.links /\ t.arcs = s.arcs
<1> DEFINE Left(m) == (IF m \in On(s, n) THEN s.marks[m] \ Visits(s, s.def[m].dir, n)
                       ELSE s.marks[m]) \ {n}
           v == [s EXCEPT !.marks = [m \in Ids |-> Left(m)]]
<1>1. t = Tell(v, On(s, n))
  BY DEF ClearAll
<1>2. \A m \in Ids : Left(m) \in SUBSET Node /\ Left(m) \subseteq s.marks[m]
  BY DEF States
<1>3. \A m \in Live(s) : n \in s.marks[m] =>
        Left(m) = s.marks[m] \ (Visits(s, s.def[m].dir, n) \cup {n})
  BY DEF On
<1>4. \A m \in Live(s) : n \notin s.marks[m] => Left(m) = s.marks[m]
  BY DEF On
<1> HIDE DEF Left
<1>5. /\ v \in States /\ v.nodes = s.nodes /\ v.fields = s.fields /\ v.missing = s.missing
      /\ v.def = s.def /\ v.links = s.links /\ v.arcs = s.arcs /\ v.stale = s.stale
      /\ \A m \in Ids : v.marks[m] = Left(m)
  BY <1>2 DEF States
<1>6. Louder(v, t) /\ (On(s, n) # {} => t.stale)
  BY <1>1, <1>5, TellFacts
<1> HIDE DEF v
<1>7. Live(s) \subseteq Ids /\ \A R : R \ R = {} /\ Touches({}, n)
  BY DEF Live, Touches
<1> QED  BY <1>2, <1>3, <1>4, <1>5, <1>6, <1>7 DEF CutAt, Louder

-----------------------------------------------------------------------------
(* Steps of a command *)

\* Between two steps, the markers K being those that are not torn.
Fine(s, K) == s \in States /\ Whole(s) /\ Fresh(s) /\ \A m \in K : Kept(s, m)

Onward(s, t) ==
  /\ Heard(s, t) /\ (s.stale => t.stale)
  /\ \A m \in Live(t) : m \in Live(s) /\ t.def[m] = s.def[m]

\* No link goes.
LinksStay(s, t) == s.links \subseteq t.links

LEMMA OnwardTrans ==
  ASSUME NEW s, NEW u, NEW t, Onward(s, u), Onward(u, t)
  PROVE  Onward(s, t)
<1>1. \A m \in Live(t) : m \in Live(u) /\ m \in Live(s) /\ u.def[m] = s.def[m] /\ t.def[m] = s.def[m]
  BY DEF Onward
<1>2. Heard(s, t)
  BY <1>1, HeardTrans DEF Onward
<1> QED  BY <1>1, <1>2 DEF Onward

LEMMA LouderFine ==
  ASSUME NEW K, NEW s, Fine(s, K), NEW t, Louder(s, t)
  PROVE  Fine(t, K) /\ Onward(s, t)
<1>1. s \in States
  BY DEF Fine
<1>2. Fine(t, K)
  BY <1>1, LouderGood DEF Fine, Louder
<1>3. Onward(s, t)
  BY <1>1, LouderGood DEF Onward, Louder
<1> QED  BY <1>2, <1>3

LEMMA CutFine ==
  ASSUME NEW K \in SUBSET Ids, NEW s, Fine(s, K), K \cap Torn(s) = {},
         NEW n \in Node, NEW t, CutAt(s, t, n)
  PROVE  Fine(t, K) /\ Onward(s, t)
<1>1. s \in States /\ Whole(s) /\ Fresh(s)
  BY DEF Fine
<1>2. t \in States /\ Whole(t) /\ Fresh(t) /\ Heard(s, t)
  BY <1>1, CutWhole, CutFresh DEF CutAt
<1>3. \A m \in K : Kept(t, m)
  BY <1>1, CutHeld DEF Fine
<1>4. Live(t) = Live(s) /\ t.def = s.def /\ (s.stale => t.stale)
  <2>1. t.def = s.def /\ (s.stale => t.stale)
    BY DEF CutAt
  <2> QED  BY <2>1, CutLive
<1> QED  BY <1>2, <1>3, <1>4 DEF Fine, Onward

\* The markers change, the graph does not.
Regraphed(s, t) ==
  /\ t \in States
  /\ t.nodes = s.nodes /\ t.links = s.links /\ t.arcs = s.arcs /\ t.fields = s.fields
  /\ t.missing = s.missing

LEMMA SameSpan ==
  ASSUME NEW s, NEW t, Regraphed(s, t), NEW m, t.def[m] = s.def[m]
  PROVE  Span(t, m) = Span(s, m) /\ Follows(t, m) = Follows(s, m) /\ Origin(t, m) = Origin(s, m)
<1>1. \A dir : Way(t, dir) = Way(s, dir)
  BY DEF Regraphed, Way
<1>2. \A dir, n : Visits(t, dir, n) = Visits(s, dir, n)
  BY <1>1 DEF Regraphed, Visits
<1> QED  BY <1>1, <1>2 DEF Span, Follows, Origin

LEMMA RefreshFacts ==
  ASSUME NEW s \in States, NEW t, t = Refresh(s)
  PROVE  /\ Regraphed(s, t) /\ t.def = s.def /\ t.stale = s.stale
         /\ \A m \in Live(s) : t.marks[m] = s.marks[m] \cup Span(s, m)
         /\ \A m \in Ids \ Live(s) : t.marks[m] = s.marks[m]
<1> DEFINE Set1(m) == IF m \in Live(s) THEN s.marks[m] \cup Span(s, m) ELSE s.marks[m]
<1>1. ASSUME NEW m \in Live(s)  PROVE Span(s, m) \in SUBSET Node
  <2>1. Origin(s, m) \in s.nodes => Span(s, m) \in SUBSET Node
    BY LiveType, SpanSeen, SeenType
  <2> QED  BY <2>1, SpanSeen
<1>2. \A m \in Ids : Set1(m) \in SUBSET Node
  BY <1>1 DEF States
<1>3. t = [s EXCEPT !.marks = [m \in Ids |-> Set1(m)]]
  BY DEF Refresh
<1>4. Live(s) \subseteq Ids
  BY DEF Live
<1>5. /\ \A m \in Live(s) : Set1(m) = s.marks[m] \cup Span(s, m)
      /\ \A m \in Ids \ Live(s) : Set1(m) = s.marks[m]
  OBVIOUS
<1> HIDE DEF Set1
<1>6. /\ Regraphed(s, t) /\ t.def = s.def /\ t.stale = s.stale
      /\ \A m \in Ids : t.marks[m] = Set1(m)
  BY <1>2, <1>3 DEF Regraphed, States
<1> QED  BY <1>4, <1>5, <1>6

\* A refresh covers what is visited, whether the subscription was stale or not.
LEMMA RefreshGood ==
  ASSUME NEW s \in States, Whole(s), NEW t, t = Refresh(s)
  PROVE  /\ Whole(t) /\ Live(t) = Live(s) /\ \A m : Span(t, m) = Span(s, m)
         /\ \A m \in Live(s) : Span(s, m) \subseteq t.marks[m]
         /\ \A m \in Ids : Kept(s, m) => Kept(t, m)
<1>1. /\ Regraphed(s, t) /\ t.def = s.def /\ t.stale = s.stale
      /\ \A m \in Live(s) : t.marks[m] = s.marks[m] \cup Span(s, m)
      /\ \A m \in Ids \ Live(s) : t.marks[m] = s.marks[m]
  BY RefreshFacts
<1>2. Live(t) = Live(s) /\ \A m : Span(t, m) = Span(s, m)
  BY <1>1, SameSpan DEF Live
<1>3. ASSUME NEW m \in Live(s)  PROVE Span(s, m) \subseteq s.nodes
  <2>1. ASSUME Origin(s, m) \in s.nodes  PROVE Span(s, m) \subseteq s.nodes
    <3>1. Follows(s, m) \in SUBSET (s.nodes \X s.nodes) /\ s.nodes \in SUBSET Node
      BY WayWhole DEF Follows, States
    <3>2. Seen(s.def[m].dir, Follows(s, m), Origin(s, m)) \subseteq s.nodes
      BY <2>1, <3>1, SeenWithin
    <3> QED  BY <2>1, <3>2, SpanSeen
  <2> QED  BY <2>1, SpanSeen
<1>4. Whole(t)
  <2>1. ASSUME NEW m \in Ids  PROVE t.marks[m] \subseteq s.nodes
    BY <1>1, <1>3 DEF Whole
  <2> QED  BY <1>1, <2>1 DEF Whole, Regraphed
<1>5. ASSUME NEW m \in Ids, Kept(s, m)  PROVE Kept(t, m)
  <2>1. CASE m \in Live(s)
    <3> DEFINE dir == s.def[m].dir  R == Follows(s, m)  r == Origin(s, m)  M == s.marks[m]
               L == t.marks[m]
    <3>1. r \in Node /\ M \in SUBSET Node /\ R \in SUBSET (Node \X Node)
      BY <2>1, LiveType, SpanSeen
    <3>2. Held(dir, R, r, M) /\ (M = {} \/ r \in s.nodes)
      BY <1>5, <2>1 DEF Kept
    <3>3. Kept(t, m) <=> Held(dir, R, r, L) /\ (L = {} \/ r \in s.nodes)
      <4>1. Follows(t, m) = R /\ Origin(t, m) = r /\ t.def[m].dir = dir /\ t.nodes = s.nodes
        BY <1>1, SameSpan DEF Regraphed
      <4> QED  BY <1>2, <2>1, <4>1 DEF Kept
    <3>4. /\ r \in s.nodes => L = M \cup Seen(dir, R, r)
          /\ r \notin s.nodes => L = M
      BY <1>1, <2>1, SpanSeen
    <3> HIDE DEF dir, R, r, M, L
    <3>5. Held(dir, R, r, M \cup Seen(dir, R, r))
      BY <3>1, <3>2, HeldRefreshed
    <3> QED  BY <3>2, <3>3, <3>4, <3>5
  <2>2. CASE m \notin Live(s)
    BY <1>1, <1>2, <1>5, <2>2 DEF Kept
  <2> QED  BY <2>1, <2>2
<1> QED  BY <1>1, <1>2, <1>4, <1>5

LEMMA RefreshFine ==
  ASSUME NEW K \in SUBSET Ids, NEW s, Fine(s, K), NEW t, t = Refresh(s)
  PROVE  Fine(t, K) /\ Onward(s, t) /\ \A m \in Live(t) : Span(t, m) \subseteq t.marks[m]
<1>1. s \in States /\ Whole(s) /\ Fresh(s)
  BY DEF Fine
<1>2. /\ Whole(t) /\ Live(t) = Live(s) /\ \A m : Span(t, m) = Span(s, m)
      /\ \A m \in Live(s) : Span(s, m) \subseteq t.marks[m]
      /\ \A m \in Ids : Kept(s, m) => Kept(t, m)
  BY <1>1, RefreshGood
<1>3. Regraphed(s, t) /\ t.def = s.def /\ t.stale = s.stale
  BY <1>1, RefreshFacts
<1>4. Fresh(t)
  BY <1>1, <1>2, <1>3 DEF Fresh, Regraphed, Origin
<1>5. Onward(s, t)
  BY <1>2, <1>3 DEF Onward, Heard
<1> QED  BY <1>1, <1>2, <1>3, <1>4, <1>5 DEF Fine, Regraphed

\* After the last step of a command, which may let go of the root of a marker in K.
Loose(s, K) == s \in States /\ Whole(s) /\ Fresh(s) /\ \A m \in K : Tied(s, m)

LEMMA FineLoose ==
  ASSUME NEW K, NEW s, Fine(s, K)
  PROVE  Loose(s, K)
BY KeptTied DEF Fine, Loose

LEMMA LouderLoose ==
  ASSUME NEW K, NEW s, Loose(s, K), NEW t, Louder(s, t)
  PROVE  Loose(t, K) /\ Onward(s, t)
<1>1. s \in States
  BY DEF Loose
<1>2. Loose(t, K)
  BY <1>1, LouderGood DEF Loose, Louder
<1>3. Onward(s, t)
  BY <1>1, LouderGood DEF Onward, Louder
<1> QED  BY <1>2, <1>3

LEMMA CutLoose ==
  ASSUME NEW K \in SUBSET Ids, NEW s, Loose(s, K), NEW n \in Node, NEW t, CutAt(s, t, n)
  PROVE  Loose(t, K) /\ Onward(s, t)
<1>1. s \in States /\ Whole(s) /\ Fresh(s)
  BY DEF Loose
<1>2. t \in States /\ Whole(t) /\ Fresh(t) /\ Heard(s, t)
  BY <1>1, CutWhole, CutFresh DEF CutAt
<1>3. \A m \in K : Tied(t, m)
  BY <1>1, CutHeld DEF Loose
<1>4. Live(t) = Live(s) /\ t.def = s.def /\ (s.stale => t.stale)
  <2>1. t.def = s.def /\ (s.stale => t.stale)
    BY DEF CutAt
  <2> QED  BY <2>1, CutLive
<1> QED  BY <1>2, <1>3, <1>4 DEF Loose, Onward

-----------------------------------------------------------------------------
(* crossRemove() *)

\* Without the refresh.
Crossed(s, n, R, S) == TellChanged([ClearAll(s, n) EXCEPT !.links = @ \ R], S)

LEMMA CrossedCut ==
  ASSUME NEW s \in States, NEW n \in Node, NEW R, Touches(R, n), NEW S,
         NEW u, u = Crossed(s, n, R, S)
  PROVE  /\ CutAt(s, u, n) /\ u.links = s.links \ R /\ u.arcs = s.arcs
         /\ CrossRemove(s, n, R, S) = RefreshBy(u, On(s, n))
<1>1. PICK v : v = ClearAll(s, n)
  OBVIOUS
<1>2. CutAt(s, v, n) /\ v.links = s.links /\ v.arcs = s.arcs /\ v \in States
  <2>1. CutAt(s, v, n) /\ v.links = s.links /\ v.arcs = s.arcs
    BY <1>1, ClearAllFacts
  <2> QED  BY <2>1 DEF CutAt
<1>3. PICK w : w = [v EXCEPT !.links = @ \ R]
  OBVIOUS
<1>4. /\ w \in States /\ w.nodes = v.nodes /\ w.fields = v.fields /\ w.missing = v.missing
      /\ w.def = v.def /\ w.links = s.links \ R /\ w.arcs = v.arcs /\ w.stale = v.stale
      /\ w.marks = v.marks
  BY <1>2, <1>3 DEF States
<1>5. Touches(s.links \ w.links, n)
  BY <1>4 DEF Touches
<1>6. CutAt(s, w, n)
  BY <1>2, <1>4, <1>5 DEF CutAt
<1>7. u = TellChanged(w, S)
  BY <1>1, <1>3 DEF Crossed
<1>8. Louder(w, u)
  BY <1>4, <1>7, TellChangedFacts
<1>9. CutAt(s, u, n)
  BY <1>6, <1>8, CutLouder
<1>10. CrossRemove(s, n, R, S) = RefreshBy(u, On(s, n))
  BY <1>1, <1>3, <1>7 DEF CrossRemove
<1> QED  BY <1>2, <1>4, <1>8, <1>9, <1>10 DEF Louder

\* What every node carried is carried by all that are still visited.
Restores(s, t) ==
  \A m \in Live(s) : Span(s, m) \subseteq s.marks[m] => Span(t, m) \subseteq t.marks[m]

\* What was covered is covered, by a refresh if anything was cleared.
LEMMA CrossRemoveFine ==
  ASSUME NEW K \in SUBSET Ids, NEW s, Fine(s, K), K \cap Torn(s) = {},
         NEW n \in Node, NEW R, Touches(R, n), NEW S, NEW t, t = CrossRemove(s, n, R, S)
  PROVE  Fine(t, K) /\ Onward(s, t) /\ Live(t) = Live(s) /\ Restores(s, t)
<1>1. s \in States /\ Whole(s)
  BY DEF Fine
<1>2. PICK u : u = Crossed(s, n, R, S)
  OBVIOUS
<1>3. CutAt(s, u, n) /\ t = RefreshBy(u, On(s, n))
  BY <1>1, <1>2, CrossedCut
<1>4. Fine(u, K) /\ Onward(s, u) /\ Live(u) = Live(s)
  BY <1>3, CutFine, CutLive
<1>5. CASE On(s, n) = {}
  <2>1. t = u
    BY <1>3, <1>5 DEF RefreshBy
  <2>2. \A m \in Live(s) : u.marks[m] = s.marks[m] /\ Span(u, m) \subseteq Span(s, m)
    BY <1>1, <1>3, <1>5, CutOn, CutSpan
  <2>3. Restores(s, t)
    BY <2>1, <2>2 DEF Restores
  <2> QED  BY <1>4, <2>1, <2>3
<1>6. CASE On(s, n) # {}
  <2>1. t = Refresh(u)
    BY <1>3, <1>6 DEF RefreshBy
  <2>2. Fine(t, K) /\ Onward(u, t) /\ \A m \in Live(t) : Span(t, m) \subseteq t.marks[m]
    BY <1>4, <2>1, RefreshFine
  <2>3. Live(t) = Live(u)
    BY <1>4, <2>1, RefreshGood DEF Fine
  <2>4. Onward(s, t)
    BY <1>4, <2>2, OnwardTrans
  <2>5. Restores(s, t)
    BY <1>4, <2>2, <2>3 DEF Restores
  <2> QED  BY <1>4, <2>2, <2>3, <2>4, <2>5
<1> QED  BY <1>5, <1>6

\* Without markers there is nothing to refresh.
LEMMA CrossRemoveUnmarked ==
  ASSUME NEW s \in States, NEW n \in Node, On(s, n) = {}, NEW R, Touches(R, n), NEW S,
         NEW t, t = CrossRemove(s, n, R, S)
  PROVE  CutAt(s, t, n) /\ t.links = s.links \ R /\ t.arcs = s.arcs
<1>1. PICK u : u = Crossed(s, n, R, S)
  OBVIOUS
<1>2. /\ CutAt(s, u, n) /\ u.links = s.links \ R /\ u.arcs = s.arcs
      /\ t = RefreshBy(u, On(s, n))
  BY <1>1, CrossedCut
<1>3. t = u
  BY <1>2 DEF RefreshBy
<1> QED  BY <1>2, <1>3

-----------------------------------------------------------------------------
(* Deletion of markers and of edges *)

LEMMA DeleteMarkersFine ==
  ASSUME NEW K \in SUBSET Ids, NEW s, Fine(s, K), NEW M, M \subseteq Live(s),
         NEW t, t = DeleteMarkers(s, M)
  PROVE  Fine(t, K) /\ Onward(s, t) /\ Torn(t) \subseteq Torn(s)
         /\ Regraphed(s, t) /\ Live(t) = Live(s) \ M
<1>1. s \in States /\ Whole(s) /\ Fresh(s) /\ M \subseteq Ids
  BY DEF Fine, Live
<1>2. /\ Regraphed(s, t) /\ t.stale = s.stale
      /\ \A m \in M : t.def[m] = Freed /\ t.marks[m] = s.marks[m] \ Span(s, m)
      /\ \A m \in Ids \ M : t.def[m] = s.def[m] /\ t.marks[m] = s.marks[m]
  <2> DEFINE D == [m \in Ids |-> IF m \in M THEN Freed ELSE s.def[m]]
             L == [m \in Ids |-> IF m \in M THEN s.marks[m] \ Span(s, m) ELSE s.marks[m]]
  <2>1. D \in [Ids -> Marker \cup {Unset, Freed}] /\ L \in [Ids -> SUBSET Node]
    BY <1>1 DEF States
  <2>2. t = [s EXCEPT !.marks = L, !.def = D]
    BY DEF DeleteMarkers
  <2>3. /\ \A m \in M : D[m] = Freed /\ L[m] = s.marks[m] \ Span(s, m)
        /\ \A m \in Ids \ M : D[m] = s.def[m] /\ L[m] = s.marks[m]
    BY <1>1
  <2> HIDE DEF D, L
  <2>4. Regraphed(s, t) /\ t.stale = s.stale /\ t.def = D /\ t.marks = L
    BY <1>1, <2>1, <2>2 DEF Regraphed, States
  <2> QED  BY <2>3, <2>4
<1>3. Live(t) = Live(s) \ M
  BY <1>1, <1>2 DEF Live
<1>4. \A m \in Live(t) : Span(t, m) = Span(s, m) /\ Follows(t, m) = Follows(s, m)
                        /\ Origin(t, m) = Origin(s, m) /\ t.marks[m] = s.marks[m] /\ t.def[m] = s.def[m]
  <2> SUFFICES ASSUME NEW m \in Live(t)
               PROVE  Span(t, m) = Span(s, m) /\ Follows(t, m) = Follows(s, m)
                      /\ Origin(t, m) = Origin(s, m) /\ t.marks[m] = s.marks[m]
                      /\ t.def[m] = s.def[m]
    OBVIOUS
  <2>1. m \in Ids \ M
    BY <1>3 DEF Live
  <2>2. t.def[m] = s.def[m] /\ t.marks[m] = s.marks[m]
    BY <1>2, <2>1
  <2> QED  BY <1>2, <2>2, SameSpan
<1>5. Whole(t)
  <2>1. \A m \in Ids : t.marks[m] \subseteq s.marks[m]
    BY <1>2
  <2> QED  BY <1>1, <1>2, <2>1 DEF Whole, Regraphed
<1>6. Fresh(t)
  BY <1>1, <1>2, <1>3, <1>4 DEF Fresh, Regraphed
<1>7. ASSUME NEW m \in K  PROVE Kept(t, m)
  <2>0. Kept(s, m) /\ m \in Ids
    BY DEF Fine
  <2>1. CASE m \in Live(t)
    <3>1. m \in Live(s) /\ t.nodes = s.nodes
      BY <1>2, <1>3, <2>1 DEF Regraphed
    <3> QED  BY <1>4, <2>0, <2>1, <3>1 DEF Kept
  <2>2. CASE m \in M
    <3>1. s.marks[m] \subseteq Span(s, m)
      BY <1>1, <2>0, <2>2, KeptInSpan
    <3>2. t.marks[m] = {}
      BY <1>2, <2>2, <3>1
    <3> QED  BY <1>3, <2>2, <3>2 DEF Kept
  <2>3. CASE m \notin Live(s) /\ m \notin M
    BY <1>2, <1>3, <2>0, <2>3 DEF Kept
  <2> QED  BY <1>3, <2>1, <2>2, <2>3
<1>8. Onward(s, t)
  BY <1>2, <1>3, <1>4 DEF Onward, Heard
<1>9. Torn(t) \subseteq Torn(s)
  BY <1>3, <1>4 DEF Torn
<1> QED  BY <1>2, <1>3, <1>5, <1>6, <1>7, <1>8, <1>9 DEF Fine, Regraphed

LEMMA RemoveRelatedFine ==
  ASSUME NEW K \in SUBSET Ids, NEW s, Fine(s, K), NEW a, NEW b, NEW t, t = RemoveRelated(s, a, b)
  PROVE  Fine(t, K) /\ Onward(s, t) /\ Torn(t) \subseteq Torn(s) /\ LinksStay(s, t)
<1> DEFINE Own(M) == {m \in M : s.def[m].dir \in EdgeDirs /\ s.def[m].root = a}
           gone   == On(s, b) \ Own(On(s, b))
<1>1. CASE Own(On(s, a)) = {}
  <2>1. t = s
    BY <1>1 DEF RemoveRelated
  <2>2. Louder(s, s) /\ s \in States
    BY DEF Louder, Fine
  <2> QED  BY <2>1, <2>2, LouderFine DEF LinksStay
<1>2. CASE Own(On(s, a)) # {}
  <2>1. t = DeleteMarkers(Tell(s, gone), gone)
    BY <1>2 DEF RemoveRelated
  <2>2. gone \subseteq Live(s)
    BY DEF On
  <2> HIDE DEF gone
  <2>3. PICK u : u = Tell(s, gone)
    OBVIOUS
  <2>4. Louder(s, u) /\ s \in States
    BY <2>3, TellFacts DEF Fine
  <2>5. Fine(u, K) /\ Onward(s, u) /\ Live(u) = Live(s) /\ Torn(u) = Torn(s)
    BY <2>4, LouderFine, LouderGood
  <2>6. t = DeleteMarkers(u, gone) /\ gone \subseteq Live(u)
    BY <2>1, <2>2, <2>3, <2>5
  <2>7. Fine(t, K) /\ Onward(u, t) /\ Torn(t) \subseteq Torn(u)
    BY <2>5, <2>6, DeleteMarkersFine
  <2>8. Onward(s, t)
    BY <2>5, <2>7, OnwardTrans
  <2>9. Regraphed(u, t)
    BY <2>5, <2>6, DeleteMarkersFine
  <2>10. LinksStay(s, t)
    BY <2>4, <2>9 DEF Louder, Regraphed, LinksStay
  <2> QED  BY <2>5, <2>7, <2>8, <2>10
<1> QED  BY <1>1, <1>2

\* The markers on the source are cleared; they are kept if no root had gone before.
LEMMA DropArcFine ==
  ASSUME NEW K \in SUBSET Ids, NEW s, Fine(s, K), NEW a \in Node, NEW b \in Node,
         NEW t, t = DropArc(s, a, b)
  PROVE  /\ Loose(t, K) /\ Onward(s, t) /\ LinksStay(s, t)
         /\ K \cap Torn(s) = {} => Fine(t, K)
<1>1. CASE <<a, b>> \notin s.arcs
  <2>1. t = s
    BY <1>1 DEF DropArc
  <2>2. Louder(s, s) /\ s \in States
    BY DEF Louder, Fine
  <2> QED  BY <2>1, <2>2, LouderFine, FineLoose DEF LinksStay
<1>2. CASE <<a, b>> \in s.arcs
  <2>1. PICK u : u = RemoveRelated(s, a, b)
    OBVIOUS
  <2>2. Fine(u, K) /\ Onward(s, u) /\ Torn(u) \subseteq Torn(s) /\ u \in States /\ LinksStay(s, u)
    BY <2>1, RemoveRelatedFine DEF Fine
  <2>3. PICK v : v = ClearAll(u, a)
    OBVIOUS
  <2>4. CutAt(u, v, a) /\ v.links = u.links /\ v.arcs = u.arcs /\ v \in States
    <3>1. CutAt(u, v, a) /\ v.links = u.links /\ v.arcs = u.arcs
      BY <2>2, <2>3, ClearAllFacts
    <3> QED  BY <3>1 DEF CutAt
  <2>5. t = [v EXCEPT !.arcs = @ \ {<<a, b>>}]
    BY <1>2, <2>1, <2>3 DEF DropArc
  <2>6. /\ t \in States /\ t.nodes = v.nodes /\ t.fields = v.fields /\ t.missing = v.missing
        /\ t.def = v.def /\ t.links = v.links /\ t.arcs = u.arcs \ {<<a, b>>}
        /\ t.stale = v.stale /\ t.marks = v.marks
    BY <2>4, <2>5 DEF States
  <2>7. Touches(u.arcs \ t.arcs, a)
    BY <2>6 DEF Touches
  <2>8. CutAt(u, t, a)
    BY <2>4, <2>6, <2>7 DEF CutAt
  <2>9. Loose(t, K) /\ Onward(u, t)
    BY <2>2, <2>8, FineLoose, CutLoose
  <2>10. Onward(s, t)
    BY <2>2, <2>9, OnwardTrans
  <2>11. ASSUME K \cap Torn(s) = {}  PROVE Fine(t, K)
    <3>1. K \cap Torn(u) = {}
      BY <2>2, <2>11
    <3> QED  BY <2>2, <2>8, <3>1, CutFine
  <2>12. LinksStay(s, t)
    BY <2>2, <2>4, <2>6 DEF LinksStay
  <2> QED  BY <2>9, <2>10, <2>11, <2>12
<1> QED  BY <1>1, <1>2

LEMMA EdgeDeleteLoose ==
  ASSUME NEW K \in SUBSET Ids, NEW s, Fine(s, K), K \cap Torn(s) = {}, NEW a \in Node,
         NEW b \in Node, NEW t, t = EdgeDelete(s, a, b)
  PROVE  Loose(t, K) /\ Onward(s, t) /\ LinksStay(s, t)
<1>1. PICK u : u = DropArc(s, a, b)
  OBVIOUS
<1>2. Fine(u, K) /\ Loose(u, K) /\ Onward(s, u) /\ LinksStay(s, u)
  BY <1>1, DropArcFine
<1>3. CASE bidir
  <2>1. t = DropArc(u, b, a)
    BY <1>1, <1>3 DEF EdgeDelete
  <2>2. Loose(t, K) /\ Onward(u, t) /\ LinksStay(u, t)
    BY <1>2, <2>1, DropArcFine
  <2> QED  BY <1>2, <2>2, OnwardTrans DEF LinksStay
<1>4. CASE ~bidir
  BY <1>1, <1>2, <1>4 DEF EdgeDelete
<1> QED  BY <1>3, <1>4

-----------------------------------------------------------------------------
(* Inheritance *)

\* The marker m is on x, and goes on to what is now next to it: D is the direction along
\* the new link, O the one over one step.
Heir(s, m, x, D, O) ==
  m \in On(s, x) /\ (s.def[m].dir = D \/ (s.def[m].dir = O /\ s.def[m].root = x))

\* What is on x is set on y, or the subscription is told.
Inherits(s, t, x, y, D, O) ==
  /\ Regraphed(s, t) /\ t.def = s.def /\ (s.stale => t.stale)
  /\ \A m \in Ids : \/ t.marks[m] = s.marks[m]
                    \/ Heir(s, m, x, D, O) /\ t.marks[m] = s.marks[m] \cup {y}
  /\ ~t.stale => \A m \in Ids : Heir(s, m, x, D, O) =>
                   y \in t.marks[m] /\ (s.def[m].dir = D => Next1(Way(s, D), y) = {})

LEMMA SetFacts ==
  ASSUME NEW s \in States, NEW M, NEW n \in Node, NEW t, t = Set(s, M, n)
  PROVE  /\ Regraphed(s, t) /\ t.def = s.def /\ t.stale = s.stale
         /\ \A m \in Ids : (m \in M => t.marks[m] = s.marks[m] \cup {n})
                         /\ (m \notin M => t.marks[m] = s.marks[m])
<1> DEFINE L == [m \in Ids |-> IF m \in M THEN s.marks[m] \cup {n} ELSE s.marks[m]]
<1>1. L \in [Ids -> SUBSET Node]
  BY DEF States
<1>2. t = [s EXCEPT !.marks = L]
  BY DEF Set
<1>3. \A m \in Ids : (m \in M => L[m] = s.marks[m] \cup {n}) /\ (m \notin M => L[m] = s.marks[m])
  OBVIOUS
<1> HIDE DEF L
<1>4. Regraphed(s, t) /\ t.def = s.def /\ t.stale = s.stale /\ t.marks = L
  BY <1>1, <1>2 DEF Regraphed, States
<1> QED  BY <1>3, <1>4

LEMMA TellInherits ==
  ASSUME NEW s \in States, NEW x, NEW y, NEW D, NEW O, NEW t, t = Tell(s, On(s, x))
  PROVE  Inherits(s, t, x, y, D, O)
<1>1. Louder(s, t) /\ (On(s, x) # {} => t.stale)
  BY TellFacts
<1>2. Regraphed(s, t) /\ t.def = s.def /\ (s.stale => t.stale) /\ t.marks = s.marks
  BY <1>1 DEF Louder, Regraphed
<1>3. \A m : Heir(s, m, x, D, O) => t.stale
  BY <1>1 DEF Heir
<1> QED  BY <1>2, <1>3 DEF Inherits

LEMMA SetInherits ==
  ASSUME NEW s \in States, NEW x, NEW y \in Node, NEW D, NEW O, NEW M,
         \A m \in Ids : m \in M <=> Heir(s, m, x, D, O), Next1(Way(s, D), y) = {},
         NEW t, t = Set(s, M, y)
  PROVE  Inherits(s, t, x, y, D, O)
<1>1. /\ Regraphed(s, t) /\ t.def = s.def /\ t.stale = s.stale
      /\ \A m \in Ids : (m \in M => t.marks[m] = s.marks[m] \cup {y})
                      /\ (m \notin M => t.marks[m] = s.marks[m])
  BY SetFacts
<1> QED  BY <1>1 DEF Inherits

LEMMA InheritParentFacts ==
  ASSUME NEW s \in States, NEW c \in Node, NEW p, NEW t, t = InheritParent(s, c, p)
  PROVE  Inherits(s, t, p, c, "descendants", "children")
<1> DEFINE M == {m \in On(s, p) : \/ s.def[m].dir = "descendants"
                                  \/ s.def[m].dir = "children" /\ s.def[m].root = p}
<1>1. \A m \in Ids : m \in M <=> Heir(s, m, p, "descendants", "children")
  BY DEF Heir
<1>2. Way(s, "descendants") = s.links
  BY DEF Way
<1>3. CASE Next1(s.links, c) # {}
  <2>1. t = Tell(s, On(s, p))
    BY <1>3 DEF InheritParent
  <2> QED  BY <2>1, TellInherits
<1>4. CASE Next1(s.links, c) = {}
  <2>1. t = Set(s, M, c)
    BY <1>4 DEF InheritParent
  <2> HIDE DEF M
  <2> QED  BY <1>1, <1>2, <1>4, <2>1, SetInherits
<1> QED  BY <1>3, <1>4

LEMMA InheritChildFacts ==
  ASSUME NEW s \in States, NEW p \in Node, NEW c, NEW t, t = InheritChild(s, p, c)
  PROVE  Inherits(s, t, c, p, "ancestors", "parents")
<1> DEFINE M == {m \in On(s, c) : \/ s.def[m].dir = "ancestors"
                                  \/ s.def[m].dir = "parents" /\ s.def[m].root = c}
<1>1. \A m \in Ids : m \in M <=> Heir(s, m, c, "ancestors", "parents")
  BY DEF Heir
<1>2. Way(s, "ancestors") = Flip(s.links)
  BY DEF Way
<1>3. CASE Next1(Flip(s.links), p) # {}
  <2>1. t = Tell(s, On(s, c))
    BY <1>3 DEF InheritChild
  <2> QED  BY <2>1, TellInherits
<1>4. CASE Next1(Flip(s.links), p) = {}
  <2>1. t = Set(s, M, p)
    BY <1>4 DEF InheritChild
  <2> HIDE DEF M
  <2> QED  BY <1>1, <1>2, <1>4, <2>1, SetInherits
<1> QED  BY <1>3, <1>4

\* Where the destination has the field, nobody inherits unheard.
LEMMA InheritEdgeFacts ==
  ASSUME NEW s \in States, Whole(s), NEW a, NEW b \in Node, NEW t, t = InheritEdge(s, a, b)
  PROVE  /\ Inherits(s, t, a, b, "edges", "edge")
         /\ ~t.stale /\ b \in s.fields => \A m \in Ids : ~Heir(s, m, a, "edges", "edge")
<1> DEFINE M == {m \in On(s, a) : \/ s.def[m].dir = "edges"
                                  \/ s.def[m].dir = "edge" /\ s.def[m].root = a}
           T == {m \in M : s.def[m].dir = "edge" \/ b \in s.fields}
<1>1. \A m \in Ids : m \in M <=> Heir(s, m, a, "edges", "edge")
  BY DEF Heir
<1>2. PICK u : u = Set(s, M, b)
  OBVIOUS
<1>3. t = Tell(u, T)
  BY <1>2 DEF InheritEdge
<1>4. \A m : m \in T <=> m \in M /\ (s.def[m].dir = "edge" \/ b \in s.fields)
  OBVIOUS
<1> HIDE DEF M, T
<1>5. /\ Regraphed(s, u) /\ u.def = s.def /\ u.stale = s.stale
      /\ \A m \in Ids : (m \in M => u.marks[m] = s.marks[m] \cup {b})
                      /\ (m \notin M => u.marks[m] = s.marks[m])
  BY <1>2, SetFacts
<1>6. Louder(u, t) /\ (T # {} => t.stale)
  BY <1>3, <1>5, TellFacts DEF Regraphed
<1>7. Regraphed(s, t) /\ t.def = s.def /\ (s.stale => t.stale) /\ t.marks = u.marks
  BY <1>5, <1>6 DEF Louder, Regraphed
<1>8. b \notin s.fields => Next1(Way(s, "edges"), b) = {}
  BY DEF Whole, Way, Next1, EdgeDirs
<1>9. ~t.stale => \A m \in Ids : m \in M => b \notin s.fields
  BY <1>4, <1>6
<1> QED  BY <1>1, <1>5, <1>7, <1>8, <1>9 DEF Inherits

LEMMA InheritsGood ==
  ASSUME NEW s \in States, Whole(s), NEW x \in Node, NEW y \in s.nodes, NEW D, NEW O, NEW t,
         Inherits(s, t, x, y, D, O), D \notin OneStep, O \in OneStep,
         Way(s, O) = Way(s, D), <<x, y>> \in Way(s, D)
  PROVE  /\ Whole(t) /\ \A m \in Ids : Kept(s, m) => Kept(t, m)
         /\ t \in States /\ Live(t) = Live(s) /\ \A m : Span(t, m) = Span(s, m)
         /\ \A m \in Ids : s.marks[m] \subseteq t.marks[m]
<1>1. /\ Regraphed(s, t) /\ t.def = s.def
      /\ \A m \in Ids : \/ t.marks[m] = s.marks[m]
                        \/ Heir(s, m, x, D, O) /\ t.marks[m] = s.marks[m] \cup {y}
  BY DEF Inherits
<1>2. Live(t) = Live(s) /\ t \in States
  BY <1>1 DEF Live, Regraphed
<1>3. \A m : Span(t, m) = Span(s, m) /\ Follows(t, m) = Follows(s, m) /\ Origin(t, m) = Origin(s, m)
  BY <1>1, SameSpan
<1>4. Whole(t)
  <2>1. \A m \in Ids : t.marks[m] \subseteq s.nodes
    BY <1>1 DEF Whole
  <2> QED  BY <1>1, <2>1 DEF Whole, Regraphed
<1>5. ASSUME NEW m \in Ids, Kept(s, m)  PROVE Kept(t, m)
  <2>1. CASE t.marks[m] = s.marks[m]
    BY <1>1, <1>2, <1>3, <1>5, <2>1 DEF Kept, Regraphed
  <2>2. CASE Heir(s, m, x, D, O) /\ t.marks[m] = s.marks[m] \cup {y}
    <3> DEFINE dir == s.def[m].dir  R == Follows(s, m)  r == Origin(s, m)  M == s.marks[m]
    <3>1. m \in Live(s) /\ x \in M /\ (dir = D \/ (dir = O /\ r = x))
      BY <2>2 DEF Heir, On, Origin
    <3>2. r \in Node /\ M \in SUBSET Node /\ R \in SUBSET (Node \X Node) /\ y \in Node
      BY <3>1, LiveType, SpanSeen DEF States
    <3>3. Held(dir, R, r, M) /\ (M = {} \/ r \in s.nodes)
      BY <1>5, <3>1 DEF Kept
    <3>4. R = Way(s, D) /\ (dir \in OneStep => x = r)
      BY <3>1 DEF Follows
    <3>5. Kept(t, m) <=> Held(dir, R, r, M \cup {y}) /\ (M \cup {y} = {} \/ r \in s.nodes)
      BY <1>1, <1>2, <1>3, <2>2, <3>1 DEF Kept, Regraphed
    <3> HIDE DEF dir, R, r, M
    <3>6. Held(dir, R, r, M \cup {y})
      BY <3>1, <3>2, <3>3, <3>4, HeldAdded
    <3>7. r \in s.nodes
      BY <3>1, <3>3
    <3> QED  BY <3>5, <3>6, <3>7
  <2> QED  BY <1>1, <2>1, <2>2
<1>6. \A m \in Ids : s.marks[m] \subseteq t.marks[m]
  BY <1>1
<1> QED  BY <1>2, <1>3, <1>4, <1>5, <1>6

-----------------------------------------------------------------------------
(* New links *)

\* The marker goes on along a link of X.
Leads(s, m, M, e) == e[1] \in M /\ (s.def[m].dir \in OneStep => Origin(s, m) = e[1])

\* With new links X, of which the marker m takes none, it visits the same nodes.
LEMMA SpanUnmoved ==
  ASSUME NEW s \in States, NEW m \in Live(s), NEW t \in States, t.nodes = s.nodes,
         t.def[m] = s.def[m], m \in Live(t), NEW X \in SUBSET (Node \X Node),
         Follows(t, m) = Follows(s, m) \cup X,
         NEW M, Span(s, m) \subseteq M, \A e \in X : ~Leads(s, m, M, e)
  PROVE  Span(t, m) = Span(s, m)
<1> DEFINE dir == s.def[m].dir  R == Follows(s, m)  r == Origin(s, m)
<1>1. r \in Node /\ R \in SUBSET (Node \X Node)
  BY LiveType, SpanSeen
<1>2. t.def[m].dir = dir /\ Origin(t, m) = r
  BY DEF Origin
<1>3. /\ r \in s.nodes => Span(s, m) = Seen(dir, R, r) /\ Span(t, m) = Seen(dir, R \cup X, r)
      /\ r \notin s.nodes => Span(s, m) = {} /\ Span(t, m) = {}
  BY <1>2, SpanSeen
<1>4. \A e \in X : e[1] \notin M \/ (dir \in OneStep /\ e[1] # r)
  BY DEF Leads
<1> HIDE DEF dir, R, r
<1>5. CASE r \in s.nodes
  <2>1. \A e \in X : e[1] \notin Seen(dir, R, r) \/ (dir \in OneStep /\ e[1] # r)
    BY <1>3, <1>4, <1>5
  <2>2. Seen(dir, R \cup X, r) = Seen(dir, R, r)
    BY <1>1, <2>1, SeenSame
  <2> QED  BY <1>3, <1>5, <2>2
<1> QED  BY <1>3, <1>5

LEMMA SpanMoved ==
  ASSUME NEW s \in States, NEW m \in Live(s), NEW t \in States, t.nodes = s.nodes,
         t.def[m] = s.def[m], m \in Live(t), NEW x \in Node, NEW y \in Node, x # y,
         Follows(t, m) = Follows(s, m) \cup {<<x, y>>},
         NEW M, Span(s, m) \subseteq M,
         Leads(s, m, M, <<x, y>>) =>
           s.def[m].dir \in OneStep \/ Next1(Follows(t, m), y) = {}
  PROVE  /\ Span(t, m) \subseteq M \cup {y}
         /\ ~Leads(s, m, M, <<x, y>>) => Span(t, m) = Span(s, m)
<1> DEFINE dir == s.def[m].dir  R == Follows(s, m)  r == Origin(s, m)  X == {<<x, y>>}
<1>1. r \in Node /\ R \in SUBSET (Node \X Node) /\ X \in SUBSET (Node \X Node)
  BY LiveType, SpanSeen
<1>2. t.def[m].dir = dir /\ Origin(t, m) = r
  BY DEF Origin
<1>3. /\ r \in s.nodes => Span(s, m) = Seen(dir, R, r) /\ Span(t, m) = Seen(dir, R \cup X, r)
      /\ r \notin s.nodes => Span(s, m) = {} /\ Span(t, m) = {}
  BY <1>2, SpanSeen
<1>4. ASSUME ~Leads(s, m, M, <<x, y>>)  PROVE Span(t, m) = Span(s, m)
  <2>1. \A e \in X : ~Leads(s, m, M, e)
    BY <1>4
  <2> QED  BY <1>1, <2>1, SpanUnmoved
<1>5. ASSUME Leads(s, m, M, <<x, y>>)  PROVE Span(t, m) \subseteq M \cup {y}
  <2>1. dir \in OneStep \/ Next1(R \cup {<<x, y>>}, y) = {}
    BY <1>5
  <2> HIDE DEF dir, R, r
  <2>2. Seen(dir, R \cup {<<x, y>>}, r) \subseteq Seen(dir, R, r) \cup {y}
    BY <1>1, <2>1, SeenLeaf
  <2> QED  BY <1>3, <2>2
<1> QED  BY <1>4, <1>5

Linked(s, p, c) == [s EXCEPT !.links = @ \cup {<<p, c>>}]

\* The graph has new links, the markers do not change.
Grown(s, l) ==
  /\ l \in States /\ l.nodes = s.nodes /\ l.missing = s.missing
  /\ l.def = s.def /\ l.marks = s.marks /\ l.stale = s.stale

LinkedWays(s, l, p, c) ==
  /\ \A dir \in {"children", "descendants"} : Way(l, dir) = Way(s, dir) \cup {<<p, c>>}
  /\ \A dir \in {"parents", "ancestors"} : Way(l, dir) = Way(s, dir) \cup {<<c, p>>}
  /\ \A dir \in {"node", "edge", "edges"} : Way(l, dir) = Way(s, dir)

LEMMA LinkedFacts ==
  ASSUME NEW s \in States, NEW p \in Node, NEW c \in Node, NEW l, l = Linked(s, p, c)
  PROVE  /\ Grown(s, l) /\ l.arcs = s.arcs /\ l.fields = s.fields
         /\ Live(l) = Live(s) /\ Torn(l) = Torn(s)
         /\ <<p, c>> \in Way(l, "descendants") /\ <<c, p>> \in Way(l, "ancestors")
         /\ LinkedWays(s, l, p, c)
<1>1. /\ l \in States /\ l.nodes = s.nodes /\ l.arcs = s.arcs /\ l.fields = s.fields
      /\ l.missing = s.missing /\ l.def = s.def /\ l.marks = s.marks /\ l.stale = s.stale
      /\ l.links = s.links \cup {<<p, c>>}
  BY DEF Linked, States
<1>2. Live(l) = Live(s)
  BY <1>1 DEF Live
<1>3. Torn(l) = Torn(s)
  BY <1>1, <1>2 DEF Torn
<1>4. \A dir \in {"children", "descendants"} : Way(l, dir) = Way(s, dir) \cup {<<p, c>>}
  BY <1>1 DEF Way
<1>5. Flip(l.links) = Flip(s.links) \cup {<<c, p>>}
  <2>1. <<p, c>> \in l.links /\ <<p, c>>[1] = p /\ <<p, c>>[2] = c
    BY <1>1
  <2>2. <<c, p>> \in Flip(l.links)
    BY <2>1 DEF Flip
  <2>3. Flip(s.links) \subseteq Flip(l.links)
    BY <1>1 DEF Flip
  <2>4. Flip(l.links) \subseteq Flip(s.links) \cup {<<c, p>>}
    BY <1>1 DEF Flip
  <2> QED  BY <2>2, <2>3, <2>4
<1>6. \A dir \in {"parents", "ancestors"} : Way(l, dir) = Way(s, dir) \cup {<<c, p>>}
  BY <1>5 DEF Way
<1>7. \A dir \in {"node", "edge", "edges"} : Way(l, dir) = Way(s, dir)
  BY <1>1 DEF Way, EdgeDirs
<1>8. <<p, c>> \in Way(l, "descendants") /\ <<c, p>> \in Way(l, "ancestors")
  BY <1>4, <1>6
<1>9. LinkedWays(s, l, p, c)
  BY <1>4, <1>6, <1>7 DEF LinkedWays
<1>10. Grown(s, l)
  BY <1>1 DEF Grown
<1> QED  BY <1>1, <1>2, <1>3, <1>8, <1>9, <1>10

\* A marker is kept when what it follows grows.
LEMMA GrownKept ==
  ASSUME NEW s, NEW l, Live(l) = Live(s), l.def = s.def, l.marks = s.marks,
         l.nodes = s.nodes, NEW m, Follows(s, m) \subseteq Follows(l, m), Kept(s, m)
  PROVE  Kept(l, m)
<1>1. CASE m \in Live(s)
  <2>1. Origin(l, m) = Origin(s, m)
    BY DEF Origin
  <2>2. Held(s.def[m].dir, Follows(l, m), Origin(s, m), s.marks[m])
    BY <1>1, HeldGrown DEF Kept
  <2> QED  BY <1>1, <2>1, <2>2 DEF Kept
<1>2. CASE m \notin Live(s)
  BY <1>2 DEF Kept
<1> QED  BY <1>1, <1>2

\* One more link <<x, y>> in front of the marker m, and what is on x inherited by y.
LEMMA Gained ==
  ASSUME NEW s \in States, NEW m \in Live(s), Span(s, m) \subseteq s.marks[m],
         NEW u \in States, u.nodes = s.nodes, u.def = s.def, m \in Live(u),
         u.marks[m] = s.marks[m], NEW x \in Node, NEW y \in Node, x # y,
         Follows(u, m) = Follows(s, m) \cup {<<x, y>>},
         NEW D, NEW O, D \notin OneStep, O \in OneStep, Way(u, O) = Way(u, D),
         s.def[m].dir \in {D, O}, NEW t, Inherits(u, t, x, y, D, O), ~t.stale
  PROVE  Span(u, m) \subseteq t.marks[m]
<1> DEFINE dir == s.def[m].dir  M == s.marks[m]
<1>0. m \in Ids
  BY DEF Live
<1>1. Heir(u, m, x, D, O) <=> Leads(s, m, M, <<x, y>>)
  BY DEF Heir, Leads, On, Origin
<1>2. M \subseteq t.marks[m]
  BY <1>0 DEF Inherits
<1>3. Heir(u, m, x, D, O) => y \in t.marks[m] /\ (dir = D => Next1(Way(u, D), y) = {})
  BY <1>0 DEF Inherits
<1>4. Follows(u, m) = Way(u, D)
  BY DEF Follows
<1> HIDE DEF dir, M
<1>5. Leads(s, m, M, <<x, y>>) => s.def[m].dir \in OneStep \/ Next1(Follows(u, m), y) = {}
  BY <1>1, <1>3, <1>4 DEF dir
<1>6. Span(s, m) \subseteq M
  BY DEF M
<1>7. /\ Span(u, m) \subseteq M \cup {y}
      /\ ~Leads(s, m, M, <<x, y>>) => Span(u, m) = Span(s, m)
  BY <1>5, <1>6, SpanMoved
<1> QED  BY <1>1, <1>2, <1>3, <1>6, <1>7

LEMMA LinkedSpan ==
  ASSUME NEW s \in States, NEW p \in Node, NEW c \in Node
  PROVE  \A m \in Live(s) :
           Span(s, m) \subseteq s.marks[m] /\ Span(Linked(s, p, c), m) # Span(s, m)
           => p \in s.marks[m] \/ c \in s.marks[m]
<1>0. PICK l : l = Linked(s, p, c)
  OBVIOUS
<1>5. Grown(s, l) /\ Live(l) = Live(s)
  BY <1>0, LinkedFacts
<1>6. LinkedWays(s, l, p, c)
  BY <1>0, LinkedFacts
<1> SUFFICES ASSUME NEW m \in Live(s), Span(s, m) \subseteq s.marks[m], Span(l, m) # Span(s, m)
             PROVE  p \in s.marks[m] \/ c \in s.marks[m]
  BY <1>0
<1>1. /\ l \in States /\ l.nodes = s.nodes /\ l.def = s.def /\ m \in Live(l)
      /\ LinkedWays(s, l, p, c)
  BY <1>5, <1>6 DEF Grown
<1>2. PICK X \in SUBSET (Node \X Node) :
        /\ Follows(l, m) = Follows(s, m) \cup X /\ \A e \in X : e[1] \in {p, c}
  <2>1. CASE s.def[m].dir \in {"children", "descendants"}
    <3>1. {<<p, c>>} \in SUBSET (Node \X Node) /\ \A e \in {<<p, c>>} : e[1] \in {p, c}
      OBVIOUS
    <3> QED  BY <1>1, <2>1, <3>1 DEF Follows, LinkedWays
  <2>2. CASE s.def[m].dir \in {"parents", "ancestors"}
    <3>1. {<<c, p>>} \in SUBSET (Node \X Node) /\ \A e \in {<<c, p>>} : e[1] \in {p, c}
      OBVIOUS
    <3> QED  BY <1>1, <2>2, <3>1 DEF Follows, LinkedWays
  <2>3. CASE s.def[m].dir \in {"node", "edge", "edges"}
    <3>1. Follows(l, m) = Follows(s, m) \cup {}
      BY <1>1, <2>3 DEF Follows, LinkedWays
    <3>2. {} \in SUBSET (Node \X Node) /\ \A e \in {} : e[1] \in {p, c}
      OBVIOUS
    <3> QED  BY <3>1, <3>2
  <2> QED  BY <2>1, <2>2, <2>3, LiveType DEF Dirs
<1>3. p \notin s.marks[m] /\ c \notin s.marks[m] => \A e \in X : ~Leads(s, m, s.marks[m], e)
  BY <1>2 DEF Leads
<1>4. p \notin s.marks[m] /\ c \notin s.marks[m] => Span(l, m) = Span(s, m)
  BY <1>1, <1>2, <1>3, SpanUnmoved
<1> QED  BY <1>4

\* insertParents() and insertChildren() of one link.
LEMMA InsertLinkFine ==
  ASSUME NEW K \in SUBSET Ids, NEW s, Fine(s, K), NEW p \in s.nodes, NEW c \in s.nodes, p # c,
         NEW t, t = InsertLink(s, p, c)
  PROVE  Fine(t, K) /\ Onward(s, t) /\ Live(t) = Live(s) /\ LinksStay(s, t)
<1>0. s \in States /\ Whole(s) /\ Fresh(s) /\ p \in Node /\ c \in Node
  BY DEF Fine, States
<1>1. PICK l : l = Linked(s, p, c)
  OBVIOUS
<1>2. PICK t1 : t1 = InheritParent(l, c, p)
  OBVIOUS
<1>3. PICK t2 : t2 = InheritChild(t1, p, c)
  OBVIOUS
<1>4. PICK t3 : t3 = TellWatchers(t2, c)
  OBVIOUS
<1>5. t = TellWatchers(t3, p)
  BY <1>1, <1>2, <1>3, <1>4 DEF InsertLink, Linked
<1>6. /\ l \in States /\ l.nodes = s.nodes /\ l.arcs = s.arcs /\ l.fields = s.fields
      /\ l.missing = s.missing /\ l.def = s.def /\ l.marks = s.marks /\ l.stale = s.stale
      /\ Live(l) = Live(s)
      /\ <<p, c>> \in Way(l, "descendants") /\ <<c, p>> \in Way(l, "ancestors")
  <2>1. /\ Grown(s, l) /\ l.arcs = s.arcs /\ l.fields = s.fields /\ Live(l) = Live(s)
        /\ <<p, c>> \in Way(l, "descendants") /\ <<c, p>> \in Way(l, "ancestors")
    BY <1>0, <1>1, LinkedFacts
  <2> QED  BY <2>1 DEF Grown
<1>25. LinkedWays(s, l, p, c)
  BY <1>0, <1>1, LinkedFacts
<1>7. /\ \A dir \in {"children", "descendants"} : Way(l, dir) = Way(s, dir) \cup {<<p, c>>}
      /\ \A dir \in {"parents", "ancestors"} : Way(l, dir) = Way(s, dir) \cup {<<c, p>>}
      /\ \A dir \in {"node", "edge", "edges"} : Way(l, dir) = Way(s, dir)
  BY <1>25 DEF LinkedWays
<1>8. Whole(l)
  <2>1. l.links \subseteq s.nodes \X s.nodes
    BY <1>0, <1>1 DEF Linked, Whole, States
  <2> QED  BY <1>0, <1>6, <2>1 DEF Whole
<1>9. \A m \in K : Kept(l, m)
  <2> SUFFICES ASSUME NEW m \in K  PROVE Kept(l, m)
    OBVIOUS
  <2>1. CASE m \in Live(s)
    <3>1. s.def[m].dir \in Dirs
      BY <1>0, <2>1, LiveType
    <3>2. Follows(s, m) \subseteq Follows(l, m)
      BY <1>6, <1>7, <3>1 DEF Follows, Dirs
    <3> QED  BY <1>6, <3>2, GrownKept DEF Fine
  <2>2. CASE m \notin Live(s)
    BY <1>6, <2>2 DEF Kept, Fine
  <2> QED  BY <2>1, <2>2
<1>10. Inherits(l, t1, p, c, "descendants", "children")
  BY <1>0, <1>2, <1>6, InheritParentFacts
<1>11. Way(l, "children") = Way(l, "descendants") /\ Way(l, "parents") = Way(l, "ancestors")
  BY DEF Way
<1>12. /\ Whole(t1) /\ \A m \in K : Kept(t1, m)
       /\ t1 \in States /\ Live(t1) = Live(s) /\ \A m : Span(t1, m) = Span(l, m)
       /\ \A m \in Ids : s.marks[m] \subseteq t1.marks[m]
  <2>1. c \in l.nodes
    BY <1>6
  <2>2. "descendants" \notin OneStep /\ "children" \in OneStep
    BY DEF OneStep
  <2>3. /\ Whole(t1) /\ \A m \in Ids : Kept(l, m) => Kept(t1, m)
        /\ t1 \in States /\ Live(t1) = Live(l) /\ \A m : Span(t1, m) = Span(l, m)
        /\ \A m \in Ids : l.marks[m] \subseteq t1.marks[m]
    BY <1>0, <1>6, <1>8, <1>10, <1>11, <2>1, <2>2, InheritsGood
  <2> QED  BY <1>6, <1>9, <2>3
<1>13. Inherits(t1, t2, c, p, "ancestors", "parents")
  BY <1>0, <1>3, <1>12, InheritChildFacts
<1>14. t1.nodes = s.nodes /\ t1.missing = s.missing /\ t1.def = s.def /\ (s.stale => t1.stale)
       /\ \A dir : Way(t1, dir) = Way(l, dir)
  BY <1>6, <1>10 DEF Inherits, Regraphed, Way
<1>15. /\ Whole(t2) /\ \A m \in K : Kept(t2, m)
       /\ t2 \in States /\ Live(t2) = Live(s) /\ \A m : Span(t2, m) = Span(l, m)
       /\ \A m \in Ids : s.marks[m] \subseteq t2.marks[m]
  <2>1. p \in t1.nodes
    BY <1>14
  <2>2. "ancestors" \notin OneStep /\ "parents" \in OneStep
    BY DEF OneStep
  <2>3. <<c, p>> \in Way(t1, "ancestors") /\ Way(t1, "parents") = Way(t1, "ancestors")
    BY <1>6, <1>11, <1>14
  <2>4. /\ Whole(t2) /\ \A m \in Ids : Kept(t1, m) => Kept(t2, m)
        /\ t2 \in States /\ Live(t2) = Live(t1) /\ \A m : Span(t2, m) = Span(t1, m)
        /\ \A m \in Ids : t1.marks[m] \subseteq t2.marks[m]
    BY <1>0, <1>12, <1>13, <2>1, <2>2, <2>3, InheritsGood
  <2> QED  BY <1>12, <2>4
<1>16. t2.nodes = s.nodes /\ t2.missing = s.missing /\ t2.def = s.def /\ (t1.stale => t2.stale)
  BY <1>13, <1>14 DEF Inherits, Regraphed
<1>17. ASSUME ~t2.stale, NEW m \in Live(s)
       PROVE  Span(t2, m) \subseteq t2.marks[m] /\ Origin(t2, m) \in t2.nodes \cup t2.missing
  <2>1. ~s.stale /\ ~t1.stale /\ ~l.stale
    BY <1>6, <1>14, <1>16, <1>17
  <2>2. Span(s, m) \subseteq s.marks[m] /\ Origin(s, m) \in s.nodes \cup s.missing
    BY <1>0, <2>1 DEF Fresh
  <2>3. Origin(t2, m) \in t2.nodes \cup t2.missing
    BY <1>16, <2>2 DEF Origin
  <2>4. m \in Ids /\ m \in Live(l) /\ m \in Live(t1)
    BY <1>6, <1>12 DEF Live
  <2>5. CASE s.def[m].dir \in {"children", "descendants"}
    <3>1. Follows(l, m) = Follows(s, m) \cup {<<p, c>>} /\ l.marks[m] = s.marks[m]
      BY <1>6, <1>7, <2>5 DEF Follows
    <3>2. "descendants" \notin OneStep /\ "children" \in OneStep
      BY DEF OneStep
    <3>3. s.def[m].dir \in {"descendants", "children"}
      BY <2>5
    <3>4. Span(l, m) \subseteq t1.marks[m]
      BY <1>0, <1>6, <1>10, <1>11, <2>1, <2>2, <2>4, <3>1, <3>2, <3>3, Gained
    <3>5. t1.marks[m] \subseteq t2.marks[m]
      BY <1>13, <2>4 DEF Inherits
    <3> QED  BY <1>15, <2>3, <3>4, <3>5
  <2>6. CASE s.def[m].dir \in {"parents", "ancestors"}
    <3>1. t1.marks[m] = s.marks[m]
      BY <1>6, <1>10, <2>4, <2>6 DEF Inherits, Heir
    <3>2. Follows(t1, m) = Follows(s, m) \cup {<<c, p>>}
      BY <1>7, <1>14, <2>6 DEF Follows
    <3>3. "ancestors" \notin OneStep /\ "parents" \in OneStep
      BY DEF OneStep
    <3>4. s.def[m].dir \in {"ancestors", "parents"} /\ Way(t1, "parents") = Way(t1, "ancestors")
      BY <1>11, <1>14, <2>6
    <3>5. Span(t1, m) \subseteq t2.marks[m]
      BY <1>0, <1>12, <1>13, <1>14, <1>17, <2>2, <2>4, <3>1, <3>2, <3>3, <3>4, Gained
    <3> QED  BY <1>12, <1>15, <2>3, <3>5
  <2>7. CASE s.def[m].dir \in {"node", "edge", "edges"}
    <3>1. Follows(l, m) = Follows(s, m) \cup {}
      BY <1>6, <1>7, <2>7 DEF Follows
    <3>2. Span(l, m) = Span(s, m)
      <4>1. {} \in SUBSET (Node \X Node) /\ \A e \in {} : ~Leads(s, m, s.marks[m], e)
        OBVIOUS
      <4>2. l \in States /\ l.nodes = s.nodes /\ l.def[m] = s.def[m]
        BY <1>6
      <4> QED  BY <1>0, <2>2, <2>4, <3>1, <4>1, <4>2, SpanUnmoved
    <3> QED  BY <1>15, <2>2, <2>3, <2>4, <3>2
  <2> QED  BY <1>0, <2>5, <2>6, <2>7, LiveType DEF Dirs
<1>18. Fine(t2, K)
  BY <1>15, <1>17 DEF Fine, Fresh
<1>19. /\ Fine(t3, K) /\ Onward(t2, t3) /\ Louder(t2, t3) /\ t3 \in States
       /\ \A m \in On(t2, c) : t2.def[m].watch => t3.stale
  BY <1>4, <1>15, <1>18, TellWatchersFacts, LouderFine DEF Louder
<1>20. /\ Fine(t, K) /\ Onward(t3, t) /\ Louder(t3, t)
       /\ \A m \in On(t3, p) : t3.def[m].watch => t.stale
  BY <1>5, <1>19, TellWatchersFacts, LouderFine
<1>21. Live(t) = Live(s) /\ t.def = s.def /\ \A m : Span(t, m) = Span(l, m)
  <2>1. Live(t3) = Live(t2) /\ \A m : Span(t3, m) = Span(t2, m)
    BY <1>15, <1>19, LouderGood
  <2>2. Live(t) = Live(t3) /\ \A m : Span(t, m) = Span(t3, m)
    BY <1>19, <1>20, LouderGood
  <2> QED  BY <1>15, <1>16, <1>19, <1>20, <2>1, <2>2 DEF Louder
<1>22. s.stale => t.stale
  BY <1>14, <1>16, <1>19, <1>20 DEF Louder
<1>23. ASSUME NEW m \in Live(s), ~s.stale, s.def[m].watch, Span(s, m) # Span(t, m)
       PROVE  t.stale
  <2>1. Span(s, m) \subseteq s.marks[m] /\ Span(l, m) # Span(s, m) /\ m \in Ids
    BY <1>0, <1>21, <1>23 DEF Fresh, Live
  <2>2. p \in s.marks[m] \/ c \in s.marks[m]
    BY <1>0, <1>1, <2>1, LinkedSpan
  <2>3. m \in On(t2, p) \/ m \in On(t2, c)
    BY <1>15, <2>1, <2>2 DEF On
  <2>4. On(t3, p) = On(t2, p)
    BY <1>15, <1>19, LouderGood
  <2> QED  BY <1>16, <1>19, <1>20, <1>23, <2>3, <2>4 DEF Louder
<1>24. Onward(s, t)
  BY <1>21, <1>22, <1>23 DEF Onward, Heard
<1>26. LinksStay(s, t)
  <2>1. LinksStay(s, l)
    BY <1>0, <1>1 DEF Linked, LinksStay, States
  <2>2. t1.links = l.links /\ t2.links = t1.links /\ t3.links = t2.links /\ t.links = t3.links
    BY <1>10, <1>13, <1>19, <1>20 DEF Inherits, Regraphed, Louder
  <2> QED  BY <2>1, <2>2 DEF LinksStay
<1> QED  BY <1>20, <1>21, <1>24, <1>26

-----------------------------------------------------------------------------
(* New arcs *)

ArcWays(s, l, X) ==
  /\ \A dir \in EdgeDirs : Way(l, dir) = Way(s, dir) \cup X
  /\ \A dir \in Dirs \ EdgeDirs : Way(l, dir) = Way(s, dir)

Arced(s, l, a, b) ==
  l.links = s.links /\ l.arcs = s.arcs \cup {<<a, b>>} /\ l.fields = s.fields \cup {a}

LEMMA ArcFacts ==
  ASSUME NEW s \in States, NEW a \in Node, NEW b \in Node, NEW l, l = InsertArc(s, a, b)
  PROVE  /\ Grown(s, l) /\ Live(l) = Live(s) /\ Arced(s, l, a, b)
         /\ ArcWays(s, l, {<<a, b>>})
<1>1. /\ l \in States /\ l.nodes = s.nodes /\ l.missing = s.missing /\ l.links = s.links
      /\ l.def = s.def /\ l.marks = s.marks /\ l.stale = s.stale
      /\ l.arcs = s.arcs \cup {<<a, b>>} /\ l.fields = s.fields \cup {a}
  <2> DEFINE A == s.arcs \cup {<<a, b>>}  F == s.fields \cup {a}
  <2>1. A \in SUBSET (Node \X Node) /\ F \in SUBSET Node
    BY DEF States
  <2>2. l = [s EXCEPT !.arcs = A, !.fields = F]
    BY DEF InsertArc
  <2> HIDE DEF A, F
  <2>3. /\ l \in States /\ l.nodes = s.nodes /\ l.missing = s.missing /\ l.links = s.links
        /\ l.def = s.def /\ l.marks = s.marks /\ l.stale = s.stale
        /\ l.arcs = A /\ l.fields = F
    BY <2>1, <2>2 DEF States
  <2> QED  BY <2>3 DEF A, F
<1>2. Live(l) = Live(s)
  BY <1>1 DEF Live
<1>3. \A dir \in EdgeDirs : Way(l, dir) = Way(s, dir) \cup {<<a, b>>}
  BY <1>1 DEF Way, EdgeDirs
<1>4. \A dir \in Dirs \ EdgeDirs : Way(l, dir) = Way(s, dir)
  BY <1>1 DEF Way, EdgeDirs
<1>5. Grown(s, l)
  BY <1>1 DEF Grown
<1>6. ArcWays(s, l, {<<a, b>>})
  BY <1>3, <1>4 DEF ArcWays
<1>7. Arced(s, l, a, b)
  BY <1>1 DEF Arced
<1> QED  BY <1>2, <1>5, <1>6, <1>7

LEMMA ArcWhole ==
  ASSUME NEW s \in States, Whole(s), NEW a \in s.nodes, NEW b \in s.nodes,
         NEW l, l = InsertArc(s, a, b)
  PROVE  Whole(l)
<1>1. a \in Node /\ b \in Node
  BY DEF States
<1>2. Grown(s, l) /\ Arced(s, l, a, b)
  BY <1>1, ArcFacts
<1>3. \A e \in l.arcs : e[1] \in l.fields /\ e \in s.nodes \X s.nodes
  BY <1>2 DEF Whole, Arced
<1> QED  BY <1>2, <1>3 DEF Whole, Grown, Arced

LEMMA ArcKept ==
  ASSUME NEW s \in States, NEW l, Grown(s, l), Live(l) = Live(s), NEW X, ArcWays(s, l, X),
         NEW m, Kept(s, m)
  PROVE  Kept(l, m)
<1>1. CASE m \in Live(s)
  <2>1. s.def[m].dir \in Dirs
    BY <1>1, LiveType
  <2>2. Way(s, s.def[m].dir) \subseteq Way(l, s.def[m].dir)
    BY <2>1 DEF ArcWays
  <2>3. Follows(s, m) \subseteq Follows(l, m)
    BY <2>2 DEF Follows, Grown
  <2> QED  BY <2>3, GrownKept DEF Grown
<1>2. CASE m \notin Live(s)
  BY <1>2 DEF Kept, Grown
<1> QED  BY <1>1, <1>2

LEMMA ArcSpan ==
  ASSUME NEW s \in States, NEW l, Grown(s, l), Live(l) = Live(s),
         NEW X \in SUBSET (Node \X Node), ArcWays(s, l, X),
         NEW m \in Live(s), Span(s, m) \subseteq s.marks[m],
         \A e \in X : s.def[m].dir \in EdgeDirs => ~Leads(s, m, s.marks[m], e)
  PROVE  Span(l, m) = Span(s, m)
<1>1. l \in States /\ l.nodes = s.nodes /\ l.def[m] = s.def[m] /\ m \in Live(l)
  BY DEF Grown
<1>2. s.def[m].dir \in Dirs
  BY LiveType
<1>3. CASE s.def[m].dir \in EdgeDirs
  <2>1. Follows(l, m) = Follows(s, m) \cup X
    BY <1>1, <1>3 DEF ArcWays, Follows
  <2>2. \A e \in X : ~Leads(s, m, s.marks[m], e)
    BY <1>3
  <2> QED  BY <1>1, <2>1, <2>2, SpanUnmoved
<1>4. CASE s.def[m].dir \notin EdgeDirs
  <2>1. Follows(l, m) = Follows(s, m) \cup {}
    BY <1>1, <1>2, <1>4 DEF ArcWays, Follows
  <2>2. {} \in SUBSET (Node \X Node) /\ \A e \in {} : ~Leads(s, m, s.marks[m], e)
    OBVIOUS
  <2> QED  BY <1>1, <2>1, <2>2, SpanUnmoved
<1> QED  BY <1>3, <1>4

\* Whoever notices the new edges of a carries a marker of its edges there, or is told.
Noticed(s, t, a) ==
  /\ t.def = s.def /\ Live(t) = Live(s) /\ (s.stale => t.stale)
  /\ \A m \in Live(s) : ~s.stale /\ Span(t, m) # Span(s, m)
       => t.stale \/ (m \in On(t, a) /\ s.def[m].dir \in EdgeDirs)

LEMMA EdgeWays ==
  ASSUME NEW s, NEW e, e \in s.arcs
  PROVE  /\ e \in Way(s, "edges") /\ Way(s, "edge") = Way(s, "edges")
         /\ "edges" \notin OneStep /\ "edge" \in OneStep /\ EdgeDirs = {"edge", "edges"}
BY DEF Way, EdgeDirs, OneStep

\* An edge of one direction.
LEMMA EdgeAddOne ==
  ASSUME NEW K \in SUBSET Ids, NEW s, Fine(s, K), NEW a \in s.nodes, NEW b \in s.nodes, a # b,
         NEW l, l = InsertArc(s, a, b), NEW t, t = InheritEdge(l, a, b)
  PROVE  Fine(t, K) /\ Noticed(s, t, a) /\ LinksStay(s, t)
<1>0. s \in States /\ Whole(s) /\ Fresh(s) /\ a \in Node /\ b \in Node
  BY DEF Fine, States
<1>1. /\ Grown(s, l) /\ Live(l) = Live(s) /\ Arced(s, l, a, b)
      /\ ArcWays(s, l, {<<a, b>>})
  BY <1>0, ArcFacts
<1>2. Whole(l) /\ l \in States
  BY <1>0, <1>1, ArcWhole DEF Grown
<1>3. \A m \in K : Kept(l, m)
  BY <1>0, <1>1, ArcKept DEF Fine
<1>4. Inherits(l, t, a, b, "edges", "edge")
  BY <1>0, <1>2, InheritEdgeFacts
<1>5. /\ <<a, b>> \in Way(l, "edges") /\ Way(l, "edge") = Way(l, "edges")
      /\ "edges" \notin OneStep /\ "edge" \in OneStep /\ EdgeDirs = {"edge", "edges"}
  <2>1. <<a, b>> \in l.arcs
    BY <1>1 DEF Arced
  <2> QED  BY <2>1, EdgeWays
<1>6. /\ Whole(t) /\ \A m \in Ids : Kept(l, m) => Kept(t, m)
      /\ t \in States /\ Live(t) = Live(l) /\ \A m : Span(t, m) = Span(l, m)
      /\ \A m \in Ids : l.marks[m] \subseteq t.marks[m]
  <2>1. b \in l.nodes
    BY <1>1 DEF Grown
  <2> QED  BY <1>0, <1>2, <1>4, <1>5, <2>1, InheritsGood
<1>7. t.nodes = s.nodes /\ t.missing = s.missing /\ t.def = s.def /\ (s.stale => t.stale)
  BY <1>1, <1>4 DEF Inherits, Regraphed, Grown
<1>8. ASSUME NEW m \in Live(s), Span(s, m) \subseteq s.marks[m], s.def[m].dir \notin EdgeDirs
      PROVE  Span(l, m) = Span(s, m)
  BY <1>0, <1>1, <1>8, ArcSpan
<1>9. ASSUME ~t.stale, NEW m \in Live(s)
      PROVE  Span(t, m) \subseteq t.marks[m] /\ Origin(t, m) \in t.nodes \cup t.missing
  <2>1. Span(s, m) \subseteq s.marks[m] /\ Origin(s, m) \in s.nodes \cup s.missing
    BY <1>0, <1>7, <1>9 DEF Fresh
  <2>2. m \in Ids /\ l.marks[m] = s.marks[m] /\ s.marks[m] \subseteq t.marks[m]
    BY <1>1, <1>6 DEF Live, Grown
  <2>3. CASE s.def[m].dir \in EdgeDirs
    <3>1. Follows(l, m) = Follows(s, m) \cup {<<a, b>>}
      BY <1>1, <2>3 DEF ArcWays, Follows, Grown
    <3>2. l.nodes = s.nodes /\ l.def = s.def /\ m \in Live(l)
      BY <1>1 DEF Grown
    <3>3. s.def[m].dir \in {"edges", "edge"}
      BY <1>5, <2>3
    <3>4. Span(l, m) \subseteq t.marks[m]
      BY <1>0, <1>2, <1>4, <1>5, <1>9, <2>1, <2>2, <3>1, <3>2, <3>3, Gained
    <3> QED  BY <1>6, <1>7, <2>1, <3>4 DEF Origin
  <2>4. CASE s.def[m].dir \notin EdgeDirs
    BY <1>6, <1>7, <1>8, <2>1, <2>2, <2>4 DEF Origin
  <2> QED  BY <2>3, <2>4
<1>10. Fine(t, K)
  <2>1. Fresh(t)
    BY <1>1, <1>6, <1>9 DEF Fresh
  <2> QED  BY <1>3, <1>6, <2>1 DEF Fine
<1>11. ASSUME NEW m \in Live(s), ~s.stale, Span(t, m) # Span(s, m)
       PROVE  m \in On(t, a) /\ s.def[m].dir \in EdgeDirs
  <2>1. Span(s, m) \subseteq s.marks[m] /\ Span(l, m) # Span(s, m) /\ m \in Ids
    BY <1>0, <1>6, <1>11 DEF Fresh, Live
  <2>2. s.def[m].dir \in EdgeDirs
    BY <1>8, <2>1
  <2>3. \A e \in {<<a, b>>} : a \notin s.marks[m] => ~Leads(s, m, s.marks[m], e)
    BY DEF Leads
  <2>4. a \in s.marks[m]
    <3>1. {<<a, b>>} \in SUBSET (Node \X Node)
      BY <1>0
    <3> QED  BY <1>0, <1>1, <2>1, <2>3, <3>1, ArcSpan
  <2>5. s.marks[m] \subseteq t.marks[m]
    BY <1>1, <1>6, <2>1 DEF Grown
  <2> QED  BY <1>1, <1>6, <2>2, <2>4, <2>5 DEF On
<1>12. Noticed(s, t, a)
  BY <1>1, <1>6, <1>7, <1>11 DEF Noticed
<1>13. LinksStay(s, t)
  BY <1>1, <1>4 DEF Arced, Inherits, Regraphed, LinksStay
<1> QED  BY <1>10, <1>12, <1>13

\* An edge and the edge back: where both have the field, nobody inherits unheard.
LEMMA EdgeAddBoth ==
  ASSUME NEW K \in SUBSET Ids, NEW s, Fine(s, K), NEW a \in s.nodes, NEW b \in s.nodes, a # b,
         NEW w, w = InsertArc(s, a, b), NEW l, l = InsertArc(w, b, a),
         NEW v, v = InheritEdge(l, b, a), NEW t, t = InheritEdge(v, a, b)
  PROVE  Fine(t, K) /\ Noticed(s, t, a) /\ LinksStay(s, t)
<1> DEFINE X == {<<a, b>>, <<b, a>>}
<1>0. s \in States /\ Whole(s) /\ Fresh(s) /\ a \in Node /\ b \in Node /\ X \in SUBSET (Node \X Node)
  <2>1. s \in States /\ Whole(s) /\ Fresh(s) /\ a \in Node /\ b \in Node
    BY DEF Fine, States
  <2> QED  BY <2>1
<1>1. Grown(s, w) /\ Live(w) = Live(s) /\ Arced(s, w, a, b) /\ ArcWays(s, w, {<<a, b>>})
  BY <1>0, ArcFacts
<1>2. Whole(w) /\ w \in States /\ a \in w.nodes /\ b \in w.nodes
  BY <1>0, <1>1, ArcWhole DEF Grown
<1>3. Grown(w, l) /\ Live(l) = Live(w) /\ Arced(w, l, b, a) /\ ArcWays(w, l, {<<b, a>>})
  BY <1>0, <1>2, ArcFacts
<1>4. Whole(l) /\ l \in States /\ a \in l.nodes /\ b \in l.nodes
  BY <1>2, <1>3, ArcWhole DEF Grown
<1>5. Grown(s, l) /\ Live(l) = Live(s)
  BY <1>1, <1>3 DEF Grown
<1>6. ArcWays(s, l, X)
  <2>1. \A dir \in EdgeDirs : Way(l, dir) = Way(s, dir) \cup X
    BY <1>1, <1>3 DEF ArcWays
  <2>2. \A dir \in Dirs \ EdgeDirs : Way(l, dir) = Way(s, dir)
    BY <1>1, <1>3 DEF ArcWays
  <2> QED  BY <2>1, <2>2 DEF ArcWays
<1>7. <<a, b>> \in l.arcs /\ <<b, a>> \in l.arcs /\ a \in l.fields /\ b \in l.fields
  BY <1>1, <1>3 DEF Arced
<1> HIDE DEF X
<1>8. \A m \in K : Kept(l, m)
  BY <1>0, <1>5, <1>6, ArcKept DEF Fine
<1>9. /\ Inherits(l, v, b, a, "edges", "edge")
      /\ ~v.stale => \A m \in Ids : ~Heir(l, m, b, "edges", "edge")
  BY <1>0, <1>4, <1>7, InheritEdgeFacts
<1>10. /\ <<b, a>> \in Way(l, "edges") /\ <<a, b>> \in Way(l, "edges")
       /\ Way(l, "edge") = Way(l, "edges")
       /\ "edges" \notin OneStep /\ "edge" \in OneStep /\ EdgeDirs = {"edge", "edges"}
  BY <1>7, EdgeWays
<1>11. /\ Whole(v) /\ \A m \in Ids : Kept(l, m) => Kept(v, m)
       /\ v \in States /\ Live(v) = Live(l) /\ \A m : Span(v, m) = Span(l, m)
       /\ \A m \in Ids : l.marks[m] \subseteq v.marks[m]
  BY <1>0, <1>4, <1>9, <1>10, InheritsGood
<1>12. /\ v.nodes = l.nodes /\ v.fields = l.fields /\ v.missing = l.missing /\ v.def = l.def
       /\ v.arcs = l.arcs /\ (l.stale => v.stale)
       /\ ~v.stale => v.marks = l.marks
  <2>1. Regraphed(l, v) /\ v.def = l.def /\ (l.stale => v.stale)
    BY <1>9 DEF Inherits
  <2>2. ASSUME ~v.stale  PROVE v.marks = l.marks
    <3>1. \A m \in Ids : v.marks[m] = l.marks[m]
      BY <1>9, <2>2 DEF Inherits
    <3> QED  BY <1>4, <1>11, <3>1 DEF States
  <2> QED  BY <2>1, <2>2 DEF Regraphed
<1>13. /\ Inherits(v, t, a, b, "edges", "edge")
       /\ ~t.stale => \A m \in Ids : ~Heir(v, m, a, "edges", "edge")
  BY <1>0, <1>7, <1>11, <1>12, InheritEdgeFacts
<1>14. <<a, b>> \in Way(v, "edges") /\ Way(v, "edge") = Way(v, "edges") /\ b \in v.nodes
  BY <1>4, <1>7, <1>12, EdgeWays
<1>15. /\ Whole(t) /\ \A m \in Ids : Kept(v, m) => Kept(t, m)
       /\ t \in States /\ Live(t) = Live(v) /\ \A m : Span(t, m) = Span(v, m)
       /\ \A m \in Ids : v.marks[m] \subseteq t.marks[m]
  BY <1>0, <1>10, <1>11, <1>13, <1>14, InheritsGood
<1>16. /\ t.nodes = s.nodes /\ t.missing = s.missing /\ t.def = s.def
       /\ (v.stale => t.stale) /\ (s.stale => t.stale)
  BY <1>5, <1>12, <1>13 DEF Inherits, Regraphed, Grown
<1>17. ASSUME NEW m \in Live(s), Span(s, m) \subseteq s.marks[m], ~v.stale,
              s.def[m].dir \in EdgeDirs => ~Leads(s, m, s.marks[m], <<a, b>>)
       PROVE  Span(l, m) = Span(s, m)
  <2>1. m \in Ids /\ l.marks[m] = s.marks[m] /\ l.def[m] = s.def[m] /\ m \in Live(l)
    BY <1>5 DEF Live, Grown
  <2>2. ~Heir(l, m, b, "edges", "edge")
    BY <1>9, <1>17, <2>1
  <2>3. s.def[m].dir \in EdgeDirs => ~Leads(s, m, s.marks[m], <<b, a>>)
    BY <1>10, <2>1, <2>2 DEF Heir, Leads, On, Origin
  <2>4. \A e \in X : s.def[m].dir \in EdgeDirs => ~Leads(s, m, s.marks[m], e)
    BY <1>17, <2>3 DEF X
  <2> QED  BY <1>0, <1>5, <1>6, <1>17, <2>4, ArcSpan
<1>18. ASSUME ~t.stale, NEW m \in Live(s)
       PROVE  Span(t, m) \subseteq t.marks[m] /\ Origin(t, m) \in t.nodes \cup t.missing
  <2>1. Span(s, m) \subseteq s.marks[m] /\ Origin(s, m) \in s.nodes \cup s.missing /\ ~v.stale
    BY <1>0, <1>16, <1>18 DEF Fresh
  <2>2. m \in Ids /\ v.marks[m] = s.marks[m] /\ v.def[m] = s.def[m] /\ m \in Live(v)
    BY <1>5, <1>11, <1>12, <2>1 DEF Live, Grown
  <2>3. ~Heir(v, m, a, "edges", "edge")
    BY <1>13, <1>18, <2>2
  <2>4. s.def[m].dir \in EdgeDirs => ~Leads(s, m, s.marks[m], <<a, b>>)
    BY <1>10, <2>2, <2>3 DEF Heir, Leads, On, Origin
  <2>5. Span(l, m) = Span(s, m)
    BY <1>17, <2>1, <2>4
  <2>6. v.marks[m] \subseteq t.marks[m]
    BY <1>15, <2>2
  <2> QED  BY <1>11, <1>15, <1>16, <2>1, <2>2, <2>5, <2>6 DEF Origin
<1>19. Fine(t, K)
  <2>1. Fresh(t)
    BY <1>5, <1>11, <1>15, <1>18 DEF Fresh
  <2> QED  BY <1>8, <1>11, <1>15, <2>1 DEF Fine
<1>20. ASSUME NEW m \in Live(s), ~s.stale, Span(t, m) # Span(s, m), ~t.stale
       PROVE  m \in On(t, a) /\ s.def[m].dir \in EdgeDirs
  <2>1. Span(s, m) \subseteq s.marks[m] /\ Span(l, m) # Span(s, m) /\ m \in Ids /\ ~v.stale
    BY <1>0, <1>11, <1>15, <1>16, <1>20 DEF Fresh, Live
  <2>2. s.def[m].dir \in EdgeDirs /\ Leads(s, m, s.marks[m], <<a, b>>)
    BY <1>17, <2>1
  <2>3. a \in s.marks[m]
    BY <2>2 DEF Leads
  <2>4. s.marks[m] \subseteq t.marks[m]
    BY <1>5, <1>11, <1>15, <2>1 DEF Grown
  <2> QED  BY <1>5, <1>11, <1>15, <2>2, <2>3, <2>4 DEF On
<1>21. Noticed(s, t, a)
  BY <1>5, <1>11, <1>15, <1>16, <1>20 DEF Noticed
<1>22. LinksStay(s, t)
  BY <1>1, <1>3, <1>9, <1>13 DEF Arced, Inherits, Regraphed, LinksStay
<1> QED  BY <1>19, <1>21, <1>22

\* Edge_Add(), and the event for the field.
LEMMA EdgeAddFine ==
  ASSUME NEW K \in SUBSET Ids, NEW s, Fine(s, K), NEW a \in s.nodes, NEW b \in s.nodes, a # b,
         NEW t, t = TellChanged(EdgeAdd(s, a, b), {a})
  PROVE  Fine(t, K) /\ Onward(s, t) /\ Live(t) = Live(s) /\ LinksStay(s, t)
<1>1. PICK u : u = EdgeAdd(s, a, b)
  OBVIOUS
<1>2. Fine(u, K) /\ Noticed(s, u, a) /\ LinksStay(s, u)
  <2>1. PICK w : w = InsertArc(s, a, b)
    OBVIOUS
  <2>2. CASE bidir
    <3>1. PICK l : l = InsertArc(w, b, a)
      OBVIOUS
    <3>2. PICK v : v = InheritEdge(l, b, a)
      OBVIOUS
    <3>3. u = InheritEdge(v, a, b)
      BY <1>1, <2>1, <2>2, <3>1, <3>2 DEF EdgeAdd
    <3> QED  BY <2>1, <3>1, <3>2, <3>3, EdgeAddBoth
  <2>3. CASE ~bidir
    <3>1. u = InheritEdge(w, a, b)
      BY <1>1, <2>1, <2>3 DEF EdgeAdd
    <3> QED  BY <2>1, <3>1, EdgeAddOne
  <2> QED  BY <2>2, <2>3
<1>3. t = TellChanged(u, {a}) /\ u \in States
  BY <1>1, <1>2 DEF Fine
<1>4. /\ Louder(u, t)
      /\ \A m \in On(u, a) :
           u.def[m].watch /\ u.def[m].dir \notin {"children", "parents"} => t.stale
  BY <1>3, TellChangedFacts
<1>5. Fine(t, K) /\ Onward(u, t)
  BY <1>2, <1>4, LouderFine
<1>6. u.def = s.def /\ Live(u) = Live(s) /\ (s.stale => u.stale)
  BY <1>2 DEF Noticed
<1>7. t.def = u.def /\ Live(t) = Live(u) /\ (u.stale => t.stale) /\ \A m : Span(t, m) = Span(u, m)
  BY <1>3, <1>4, LouderGood DEF Louder
<1>8. Heard(s, t)
  <2> SUFFICES ASSUME NEW m \in Live(s), ~s.stale, s.def[m].watch, Span(s, m) # Span(t, m)
               PROVE  t.stale
    BY DEF Heard
  <2>1. u.stale \/ (m \in On(u, a) /\ s.def[m].dir \in EdgeDirs)
    BY <1>2, <1>7 DEF Noticed
  <2>2. s.def[m].dir \in EdgeDirs => s.def[m].dir \notin {"children", "parents"}
    BY DEF EdgeDirs
  <2> QED  BY <1>4, <1>6, <1>7, <2>1, <2>2
<1>9. Onward(s, t)
  BY <1>6, <1>7, <1>8 DEF Onward
<1>10. LinksStay(s, t)
  BY <1>2, <1>4 DEF Louder, LinksStay
<1> QED  BY <1>5, <1>6, <1>7, <1>9, <1>10

-----------------------------------------------------------------------------
(* The commands *)

\* What a command, or a step of a deletion, must do.
Good == Inv' /\ Heard(db, db')

LEMMA IdleFine ==
  ASSUME Inv, calls = <<>>, NEW K, K = Ids \ torn
  PROVE  K \in SUBSET Ids /\ Fine(db, K) /\ K \cap Torn(db) = {}
<1>1. db \in States /\ Whole(db) /\ Fresh(db) /\ Torn(db) \subseteq torn
  BY DEF Inv, TypeOK
<1>2. \A m \in K : Tied(db, m) /\ m \in Ids /\ m \notin Torn(db)
  BY <1>1 DEF Inv
<1>3. \A m \in K : Kept(db, m)
  BY <1>1, <1>2, TiedKept
<1> QED  BY <1>1, <1>2, <1>3 DEF Fine

LEMMA CommitGood ==
  ASSUME Inv, calls = <<>>, NEW s, Loose(s, Ids \ torn), Heard(db, s), Commit(s)
  PROVE  Good
<1>1. db' = s /\ torn' = torn \cup Torn(s) /\ bidir' = bidir /\ calls' = <<>>
  BY DEF Commit
<1>2. Torn(s) \in SUBSET Ids
  BY DEF Torn, Live
<1>3. TypeOK'
  <2>1. <<>> \in Seq(Activations)
    OBVIOUS
  <2>2. torn' \in SUBSET Ids /\ bidir' \in BOOLEAN
    BY <1>1, <1>2 DEF Inv, TypeOK
  <2> QED  BY <1>1, <2>1, <2>2 DEF TypeOK, Loose
<1>4. Whole(db') /\ Fresh(db') /\ \A m \in Ids \ torn' : Tied(db', m)
  BY <1>1 DEF Loose
<1>5. Torn(db') \subseteq torn' /\ DOMAIN calls' = {}
  BY <1>1
<1> QED  BY <1>1, <1>3, <1>4, <1>5 DEF Good, Inv

LEMMA OnwardGood ==
  ASSUME Inv, calls = <<>>, NEW K, K = Ids \ torn, NEW s, Fine(s, K), Onward(db, s), Commit(s)
  PROVE  Good
BY FineLoose, CommitGood DEF Onward

LEMMA NodeAdded ==
  ASSUME NEW K \in SUBSET Ids, NEW s, Fine(s, K), NEW n \in Node, n \notin s.nodes,
         NEW t, t = [s EXCEPT !.nodes = @ \cup {n}, !.missing = @ \ {n},
                              !.stale = @ \/ n \in s.missing]
  PROVE  Fine(t, K) /\ Onward(s, t) /\ LinksStay(s, t) /\ n \in t.nodes /\ Root \in t.nodes \ {n}
<1>0. s \in States /\ Whole(s) /\ Fresh(s)
  BY DEF Fine
<1>1. /\ t \in States /\ t.nodes = s.nodes \cup {n} /\ t.links = s.links /\ t.arcs = s.arcs
      /\ t.fields = s.fields /\ t.def = s.def /\ t.marks = s.marks
      /\ t.missing = s.missing \ {n} /\ t.stale = (s.stale \/ n \in s.missing)
  <2> DEFINE N == s.nodes \cup {n}  L == s.missing \ {n}  T == s.stale \/ n \in s.missing
  <2>1. N \in SUBSET Node /\ L \in SUBSET Node /\ T \in BOOLEAN
    BY <1>0 DEF States
  <2>2. t = [s EXCEPT !.nodes = N, !.missing = L, !.stale = T]
    OBVIOUS
  <2> HIDE DEF N, L, T
  <2>3. /\ t \in States /\ t.nodes = N /\ t.links = s.links /\ t.arcs = s.arcs
        /\ t.fields = s.fields /\ t.def = s.def /\ t.marks = s.marks
        /\ t.missing = L /\ t.stale = T
    BY <1>0, <2>1, <2>2 DEF States
  <2> QED  BY <2>3 DEF N, L, T
<1>2. Live(t) = Live(s) /\ \A dir : Way(t, dir) = Way(s, dir)
  BY <1>1 DEF Live, Way
<1>3. \A m : Follows(t, m) = Follows(s, m) /\ Origin(t, m) = Origin(s, m)
  BY <1>1, <1>2 DEF Follows, Origin
<1>4. Whole(t)
  BY <1>0, <1>1 DEF Whole
<1>5. \A m \in K : Kept(t, m)
  BY <1>1, <1>2, <1>3 DEF Fine, Kept
<1>6. ASSUME NEW m \in Live(s), Origin(s, m) # n  PROVE Span(t, m) = Span(s, m)
  <2>1. Origin(t, m) \in t.nodes <=> Origin(s, m) \in s.nodes
    BY <1>1, <1>3, <1>6
  <2>2. m \in Live(t) /\ t.def[m] = s.def[m]
    BY <1>1, <1>2
  <2>3. /\ Origin(s, m) \in s.nodes =>
             Span(s, m) = Seen(s.def[m].dir, Follows(s, m), Origin(s, m))
        /\ Origin(s, m) \notin s.nodes => Span(s, m) = {}
    BY <1>0, SpanSeen
  <2>4. /\ Origin(t, m) \in t.nodes =>
             Span(t, m) = Seen(t.def[m].dir, Follows(t, m), Origin(t, m))
        /\ Origin(t, m) \notin t.nodes => Span(t, m) = {}
    BY <1>1, <2>2, SpanSeen
  <2> QED  BY <1>3, <2>1, <2>2, <2>3, <2>4
<1>7. ASSUME NEW m \in Live(s), ~s.stale, Origin(s, m) = n  PROVE t.stale
  <2>1. Origin(s, m) \in s.nodes \cup s.missing
    BY <1>0, <1>7 DEF Fresh
  <2> QED  BY <1>1, <1>7, <2>1
<1>8. ASSUME ~t.stale, NEW m \in Live(s)
      PROVE  Span(t, m) \subseteq t.marks[m] /\ Origin(t, m) \in t.nodes \cup t.missing
  <2>1. ~s.stale
    BY <1>1, <1>8
  <2>2. Span(s, m) \subseteq s.marks[m] /\ Origin(s, m) \in s.nodes \cup s.missing
        /\ Origin(s, m) # n
    BY <1>0, <1>7, <1>8, <2>1 DEF Fresh
  <2> QED  BY <1>1, <1>3, <1>6, <2>2
<1>9. Fine(t, K)
  <2>1. Fresh(t)
    BY <1>2, <1>8 DEF Fresh
  <2> QED  BY <1>1, <1>4, <1>5, <2>1 DEF Fine
<1>10. Onward(s, t)
  <2>1. Heard(s, t)
    BY <1>6, <1>7 DEF Heard
  <2> QED  BY <1>1, <1>2, <2>1 DEF Onward
<1>11. LinksStay(s, t) /\ n \in t.nodes /\ Root \in t.nodes \ {n}
  BY <1>0, <1>1 DEF LinksStay, Whole
<1> QED  BY <1>9, <1>10, <1>11

LEMMA CreateNodeGood ==
  ASSUME Inv, calls = <<>>, NEW n \in Node, NEW noRoot \in BOOLEAN, CreateNode(n, noRoot)
  PROVE  Good /\ LinksStay(db, db')
<1>1. PICK K : K = Ids \ torn
  OBVIOUS
<1>2. K \in SUBSET Ids /\ Fine(db, K)
  BY <1>1, IdleFine
<1>3. PICK s : s = [db EXCEPT !.nodes = @ \cup {n}, !.missing = @ \ {n},
                              !.stale = @ \/ n \in db.missing]
  OBVIOUS
<1>4. n \notin db.nodes /\ Commit(IF noRoot THEN s ELSE InsertLink(s, Root, n))
  BY <1>3 DEF CreateNode
<1>5. Fine(s, K) /\ Onward(db, s) /\ LinksStay(db, s) /\ n \in s.nodes /\ Root \in s.nodes \ {n}
  BY <1>2, <1>3, <1>4, NodeAdded
<1>6. CASE noRoot
  <2>1. Commit(s)
    BY <1>4, <1>6
  <2> QED  BY <1>1, <1>5, <2>1, OnwardGood DEF Commit
<1>7. CASE ~noRoot
  <2>1. PICK t : t = InsertLink(s, Root, n)
    OBVIOUS
  <2>2. Commit(t)
    BY <1>4, <1>7, <2>1
  <2>3. Fine(t, K) /\ Onward(s, t) /\ LinksStay(s, t)
    BY <1>2, <1>5, <2>1, InsertLinkFine
  <2>4. Onward(db, t) /\ LinksStay(db, t)
    BY <1>5, <2>3, OnwardTrans DEF LinksStay
  <2> QED  BY <1>1, <2>2, <2>3, <2>4, OnwardGood DEF Commit
<1> QED  BY <1>6, <1>7

LEMMA AddLinkGood ==
  ASSUME Inv, calls = <<>>, NEW p \in Node, NEW c \in Node, AddLink(p, c)
  PROVE  Good /\ LinksStay(db, db')
<1>1. PICK K : K = Ids \ torn
  OBVIOUS
<1>2. K \in SUBSET Ids /\ Fine(db, K)
  BY <1>1, IdleFine
<1>3. PICK u : u = InsertLink(db, p, c)
  OBVIOUS
<1>4. PICK t : t = TellChanged(u, {p, c})
  OBVIOUS
<1>5. p # c /\ p \in db.nodes /\ c \in db.nodes /\ Commit(t)
  BY <1>3, <1>4 DEF AddLink
<1>6. Fine(u, K) /\ Onward(db, u) /\ LinksStay(db, u)
  BY <1>2, <1>3, <1>5, InsertLinkFine
<1>7. Louder(u, t)
  BY <1>4, <1>6, TellChangedFacts DEF Fine
<1>8. Fine(t, K) /\ Onward(db, t) /\ LinksStay(db, t)
  BY <1>6, <1>7, LouderFine, OnwardTrans DEF LinksStay, Louder
<1> QED  BY <1>1, <1>5, <1>8, OnwardGood DEF Commit

LEMMA DelLinksGood ==
  ASSUME Inv, calls = <<>>, NEW n \in Node, NEW R, Touches(R, n), NEW S, NEW N,
         Commit(TellChanged(CrossRemove(db, n, R, S), N))
  PROVE  Good /\ Restores(db, db')
<1>1. PICK K : K = Ids \ torn
  OBVIOUS
<1>2. K \in SUBSET Ids /\ Fine(db, K) /\ K \cap Torn(db) = {}
  BY <1>1, IdleFine
<1>3. PICK u : u = CrossRemove(db, n, R, S)
  OBVIOUS
<1>4. Fine(u, K) /\ Onward(db, u) /\ Live(u) = Live(db) /\ Restores(db, u)
  BY <1>2, <1>3, CrossRemoveFine
<1>5. PICK t : t = TellChanged(u, N)
  OBVIOUS
<1>6. Louder(u, t) /\ u \in States
  BY <1>4, <1>5, TellChangedFacts DEF Fine
<1>7. Fine(t, K) /\ Onward(db, t)
  BY <1>4, <1>6, LouderFine, OnwardTrans
<1>8. t.marks = u.marks /\ \A m : Span(t, m) = Span(u, m)
  BY <1>6, LouderGood DEF Louder
<1>9. Commit(t)
  BY <1>3, <1>5
<1>10. db' = t
  BY <1>9 DEF Commit
<1>11. Restores(db, t)
  BY <1>4, <1>8 DEF Restores
<1> QED  BY <1>1, <1>7, <1>9, <1>10, <1>11, OnwardGood

LEMMA AddEdgeGood ==
  ASSUME Inv, calls = <<>>, NEW a \in Node, NEW b \in Node, AddEdge(a, b)
  PROVE  Good /\ LinksStay(db, db')
<1>1. PICK K : K = Ids \ torn
  OBVIOUS
<1>2. K \in SUBSET Ids /\ Fine(db, K)
  BY <1>1, IdleFine
<1>3. PICK t : t = TellChanged(EdgeAdd(db, a, b), {a})
  OBVIOUS
<1>4. a # b /\ a \in db.nodes /\ b \in db.nodes /\ Commit(t)
  BY <1>3 DEF AddEdge
<1>5. Fine(t, K) /\ Onward(db, t) /\ LinksStay(db, t)
  BY <1>2, <1>3, <1>4, EdgeAddFine
<1> QED  BY <1>1, <1>4, <1>5, OnwardGood DEF Commit

LEMMA DelEdgeGood ==
  ASSUME Inv, calls = <<>>, NEW a \in Node, NEW b \in Node, DelEdge(a, b)
  PROVE  Good /\ LinksStay(db, db')
<1>1. PICK K : K = Ids \ torn
  OBVIOUS
<1>2. K \in SUBSET Ids /\ Fine(db, K) /\ K \cap Torn(db) = {}
  BY <1>1, IdleFine
<1>3. PICK u : u = EdgeDelete(db, a, b)
  OBVIOUS
<1>4. PICK t : t = TellChanged(u, {a})
  OBVIOUS
<1>5. Commit(t)
  BY <1>3, <1>4 DEF DelEdge
<1>6. Loose(u, K) /\ Onward(db, u) /\ LinksStay(db, u)
  BY <1>2, <1>3, EdgeDeleteLoose
<1>7. Louder(u, t)
  BY <1>4, <1>6, TellChangedFacts DEF Loose
<1>8. Loose(t, K) /\ Onward(db, t) /\ LinksStay(db, t)
  BY <1>6, <1>7, LouderLoose, OnwardTrans DEF LinksStay, Louder
<1>9. db' = t /\ Heard(db, t)
  BY <1>5, <1>8 DEF Commit, Onward
<1> QED  BY <1>1, <1>5, <1>8, <1>9, CommitGood

LEMMA AddMarkerGood ==
  ASSUME Inv, calls = <<>>, NEW m \in Ids, NEW q \in Queries, AddMarker(m, q)
  PROVE  Good /\ LinksStay(db, db')
<1>1. PICK K : K = Ids \ torn
  OBVIOUS
<1>2. K \in SUBSET Ids /\ Fine(db, K) /\ db \in States /\ Whole(db)
  BY <1>1, IdleFine DEF Fine
<1>3. PICK s : s = [db EXCEPT !.def[m] = q[m], !.stale = TRUE]
  OBVIOUS
<1>4. db.def[m] = Unset /\ q[m] # Unset /\ Commit(s)
  BY <1>3 DEF AddMarker
<1>5. /\ s \in States /\ s.nodes = db.nodes /\ s.links = db.links /\ s.arcs = db.arcs
      /\ s.fields = db.fields /\ s.missing = db.missing /\ s.marks = db.marks /\ s.stale
      /\ \A k \in Ids \ {m} : s.def[k] = db.def[k]
  <2> DEFINE D == [db.def EXCEPT ![m] = q[m]]
  <2>1. q[m] \in Marker \cup {Unset}
    BY MarkersAssumption DEF Marker
  <2>2. D \in [Ids -> Marker \cup {Unset, Freed}] /\ \A k \in Ids \ {m} : D[k] = db.def[k]
    BY <1>2, <2>1 DEF States
  <2>3. s = [db EXCEPT !.def = D, !.stale = TRUE]
    BY <1>3
  <2> HIDE DEF D
  <2>4. /\ s \in States /\ s.nodes = db.nodes /\ s.links = db.links /\ s.arcs = db.arcs
        /\ s.fields = db.fields /\ s.missing = db.missing /\ s.marks = db.marks /\ s.stale = TRUE
        /\ s.def = D
    BY <1>2, <2>2, <2>3 DEF States
  <2> QED  BY <2>2, <2>4
<1>6. m \notin Live(db) /\ Live(s) \ {m} = Live(db)
  BY <1>4, <1>5 DEF Live
<1>7. ASSUME NEW k \in K  PROVE Kept(s, k)
  <2>1. Kept(db, k) /\ k \in Ids
    BY <1>1, <1>2 DEF Fine
  <2>2. CASE k = m
    <3>1. s.marks[k] = {}
      BY <1>5, <1>6, <2>1, <2>2 DEF Kept
    <3>2. Held(s.def[k].dir, Follows(s, k), Origin(s, k), {})
      BY DEF Held, Tight
    <3> QED  BY <3>1, <3>2 DEF Kept
  <2>3. CASE k # m
    <3>1. s.def[k] = db.def[k] /\ (k \in Live(s) <=> k \in Live(db))
      BY <1>5, <1>6, <2>1, <2>3
    <3>2. Regraphed(db, s)
      BY <1>5 DEF Regraphed
    <3>3. Follows(s, k) = Follows(db, k) /\ Origin(s, k) = Origin(db, k)
      BY <3>1, <3>2, SameSpan
    <3> QED  BY <1>5, <2>1, <3>1, <3>3 DEF Kept
  <2> QED  BY <2>2, <2>3
<1>8. Fine(s, K)
  <2>1. Whole(s)
    BY <1>2, <1>5 DEF Whole
  <2> QED  BY <1>5, <1>7, <2>1 DEF Fine, Fresh
<1>9. Heard(db, s) /\ LinksStay(db, s)
  BY <1>5 DEF Heard, LinksStay
<1>10. Loose(s, Ids \ torn)
  BY <1>1, <1>8, FineLoose
<1>11. db' = s
  BY <1>4 DEF Commit
<1> QED  BY <1>4, <1>9, <1>10, <1>11, CommitGood

LEMMA AddMissingGood ==
  ASSUME Inv, calls = <<>>, NEW n \in Node, AddMissing(n)
  PROVE  Good /\ LinksStay(db, db')
<1>1. PICK K : K = Ids \ torn
  OBVIOUS
<1>2. K \in SUBSET Ids /\ Fine(db, K) /\ db \in States /\ Whole(db) /\ Fresh(db)
  BY <1>1, IdleFine DEF Fine
<1>3. PICK s : s = [db EXCEPT !.missing = @ \cup {n}]
  OBVIOUS
<1>4. Commit(s)
  BY <1>3 DEF AddMissing
<1>5. /\ s \in States /\ s.nodes = db.nodes /\ s.links = db.links /\ s.arcs = db.arcs
      /\ s.fields = db.fields /\ s.marks = db.marks /\ s.stale = db.stale /\ s.def = db.def
      /\ s.missing = db.missing \cup {n}
  BY <1>2, <1>3 DEF States
<1>6. Live(s) = Live(db) /\ \A dir : Way(s, dir) = Way(db, dir)
  BY <1>5 DEF Live, Way
<1>7. \A m : Span(s, m) = Span(db, m) /\ Follows(s, m) = Follows(db, m)
             /\ Origin(s, m) = Origin(db, m)
  BY <1>5, <1>6 DEF Span, Visits, Follows, Origin
<1>8. Whole(s)
  BY <1>2, <1>5 DEF Whole
<1>9. Fresh(s)
  BY <1>2, <1>5, <1>6, <1>7 DEF Fresh
<1>10. \A m \in K : Kept(s, m)
  BY <1>2, <1>5, <1>6, <1>7 DEF Fine, Kept
<1>11. Heard(db, s) /\ LinksStay(db, s)
  BY <1>5, <1>7 DEF Heard, LinksStay
<1>12. Loose(s, Ids \ torn)
  BY <1>1, <1>5, <1>8, <1>9, <1>10, KeptTied DEF Loose
<1>13. db' = s
  BY <1>4 DEF Commit
<1> QED  BY <1>4, <1>11, <1>12, <1>13, CommitGood

LEMMA RefreshCommandGood ==
  ASSUME Inv, calls = <<>>, RefreshCommand
  PROVE  Good /\ LinksStay(db, db')
<1>1. PICK K : K = Ids \ torn
  OBVIOUS
<1>2. K \in SUBSET Ids /\ Fine(db, K) /\ db \in States /\ Whole(db)
  BY <1>1, IdleFine DEF Fine
<1>3. PICK u : u = Refresh(db)
  OBVIOUS
<1>4. PICK s : s = [u EXCEPT !.stale = FALSE]
  OBVIOUS
<1>5. Commit(s) /\ \A m \in Live(db) : db.def[m].root \in db.nodes \cup db.missing
  BY <1>3, <1>4 DEF RefreshCommand
<1>6. Regraphed(db, u) /\ u.def = db.def
  BY <1>2, <1>3, RefreshFacts
<1>7. /\ Whole(u) /\ Live(u) = Live(db) /\ \A m : Span(u, m) = Span(db, m)
      /\ \A m \in Live(db) : Span(db, m) \subseteq u.marks[m]
      /\ \A m \in Ids : Kept(db, m) => Kept(u, m)
  BY <1>2, <1>3, RefreshGood
<1>8. /\ s \in States /\ s.nodes = u.nodes /\ s.links = u.links /\ s.arcs = u.arcs
      /\ s.fields = u.fields /\ s.marks = u.marks /\ s.def = u.def /\ s.missing = u.missing
  BY <1>4, <1>6 DEF Regraphed, States
<1>9. Live(s) = Live(u) /\ \A dir : Way(s, dir) = Way(u, dir)
  BY <1>8 DEF Live, Way
<1>10. \A m : Span(s, m) = Span(u, m) /\ Follows(s, m) = Follows(u, m)
              /\ Origin(s, m) = Origin(u, m)
  BY <1>8, <1>9 DEF Span, Visits, Follows, Origin
<1>11. Whole(s)
  BY <1>7, <1>8 DEF Whole
<1>12. Fresh(s)
  BY <1>5, <1>6, <1>7, <1>8, <1>9, <1>10 DEF Fresh, Regraphed, Origin
<1>13. \A m \in K : Kept(u, m)
  BY <1>2, <1>7 DEF Fine
<1>14. \A m \in K : Kept(s, m)
  BY <1>8, <1>9, <1>10, <1>13 DEF Kept
<1>15. Heard(db, s) /\ LinksStay(db, s)
  BY <1>6, <1>7, <1>8, <1>10 DEF Heard, LinksStay, Regraphed
<1>16. Loose(s, Ids \ torn)
  BY <1>1, <1>8, <1>11, <1>12, <1>14, KeptTied DEF Loose
<1>17. db' = s
  BY <1>5 DEF Commit
<1> QED  BY <1>5, <1>15, <1>16, <1>17, CommitGood

LEMMA DelMarkerGood ==
  ASSUME Inv, calls = <<>>, NEW m \in Ids, DelMarker(m)
  PROVE  Good /\ LinksStay(db, db')
<1>1. PICK K : K = Ids \ torn
  OBVIOUS
<1>2. K \in SUBSET Ids /\ Fine(db, K)
  BY <1>1, IdleFine
<1>3. PICK s : s = DeleteMarkers(db, {m})
  OBVIOUS
<1>4. {m} \subseteq Live(db) /\ Commit(s)
  BY <1>3 DEF DelMarker
<1>5. Fine(s, K) /\ Onward(db, s) /\ Regraphed(db, s)
  BY <1>2, <1>3, <1>4, DeleteMarkersFine
<1>6. LinksStay(db, s) /\ db' = s
  BY <1>4, <1>5 DEF Regraphed, LinksStay, Commit
<1> QED  BY <1>1, <1>4, <1>5, <1>6, OnwardGood

LEMMA DelSubscriptionGood ==
  ASSUME Inv, calls = <<>>, DelSubscription
  PROVE  Good /\ LinksStay(db, db')
<1>1. PICK K : K = Ids \ torn
  OBVIOUS
<1>2. K \in SUBSET Ids /\ Fine(db, K)
  BY <1>1, IdleFine
<1>3. PICK u : u = DeleteMarkers(db, Live(db))
  OBVIOUS
<1>4. PICK s : s = [u EXCEPT !.missing = {}]
  OBVIOUS
<1>5. Commit(s)
  BY <1>3, <1>4 DEF DelSubscription
<1>6. Fine(u, K) /\ Regraphed(db, u) /\ Live(u) = Live(db) \ Live(db)
  BY <1>2, <1>3, DeleteMarkersFine
<1>7. /\ s \in States /\ s.nodes = u.nodes /\ s.links = u.links /\ s.arcs = u.arcs
      /\ s.fields = u.fields /\ s.marks = u.marks /\ s.def = u.def
  BY <1>4, <1>6 DEF Regraphed, States
<1>8. Live(s) = {} /\ Live(u) = {}
  BY <1>6, <1>7 DEF Live
<1>9. Whole(s)
  BY <1>6, <1>7 DEF Fine, Whole
<1>10. \A m \in K : Tied(s, m)
  BY <1>6, <1>7, <1>8 DEF Fine, Kept, Tied
<1>11. Loose(s, Ids \ torn)
  BY <1>1, <1>7, <1>8, <1>9, <1>10 DEF Loose, Fresh
<1>12. Heard(db, s) /\ LinksStay(db, s)
  BY <1>6, <1>7, <1>8 DEF Heard, LinksStay, Regraphed
<1>13. db' = s
  BY <1>5 DEF Commit
<1> QED  BY <1>5, <1>11, <1>12, <1>13, CommitGood

-----------------------------------------------------------------------------
(* The deletion of a node *)

LEMMA NoLinks ==
  ASSUME NEW R \in SUBSET (Node \X Node), NEW n
  PROVE  /\ Next1(R, n) = {} <=> \A e \in R : e[1] # n
         /\ Next1(Flip(R), n) = {} <=> \A e \in R : e[2] # n
<1>1. Next1(R, n) = {} <=> \A e \in R : e[1] # n
  BY DEF Next1
<1>2. ASSUME Next1(Flip(R), n) = {}, NEW e \in R, e[2] = n  PROVE FALSE
  <2> DEFINE f == <<e[2], e[1]>>
  <2>1. f \in Flip(R) /\ f[1] = n
    BY <1>2 DEF Flip
  <2>2. f[2] \in Next1(Flip(R), n)
    BY <2>1 DEF Next1
  <2> QED  BY <1>2, <2>2
<1>3. ASSUME \A e \in R : e[2] # n, NEW f \in Flip(R)  PROVE f[1] # n
  BY <1>3 DEF Flip
<1>4. (\A e \in R : e[2] # n) => Next1(Flip(R), n) = {}
  BY <1>3 DEF Next1
<1> QED  BY <1>1, <1>2, <1>4

LEMMA CutLeaving ==
  ASSUME NEW s \in States, NEW n \in Node, NEW t, CutAt(s, t, n),
         NEW c \in Activations, Leaving(s, c)
  PROVE  Leaving(t, c)
<1>1. c.node \in Node
  BY DEF Activations
<1>2. On(t, c.node) = {}
  BY <1>1, CutOn DEF Leaving
<1>3. t.links \subseteq s.links
  BY DEF CutAt
<1>4. Flip(t.links) \subseteq Flip(s.links)
  BY <1>3 DEF Flip
<1>5. Next1(t.links, c.node) \subseteq c.todo /\ Next1(Flip(t.links), c.node) = {}
  BY <1>3, <1>4 DEF Leaving, Next1
<1> QED  BY <1>2, <1>5 DEF Leaving

\* An activation begins: its node has no markers and no parents.
LEMMA EnterGood ==
  ASSUME NEW K \in SUBSET Ids, NEW s, Loose(s, K), NEW n \in Node, NEW force \in BOOLEAN,
         NEW stack \in Seq(Activations), \A i \in DOMAIN stack : Leaving(s, stack[i]),
         Enter(s, stack, n, force)
  PROVE  /\ Loose(db', K) /\ Onward(s, db')
         /\ calls' \in Seq(Activations) /\ calls' # <<>>
         /\ \A i \in DOMAIN calls' : Leaving(db', calls'[i])
<1>0. s \in States
  BY DEF Loose
<1>1. PICK v : v = ClearAll(s, n)
  OBVIOUS
<1>2. CutAt(s, v, n) /\ v.links = s.links /\ v.arcs = s.arcs
  BY <1>0, <1>1, ClearAllFacts
<1>3. v \in States /\ On(v, n) = {}
  BY <1>0, <1>2, CutOn DEF CutAt
<1>4. PICK ps : ps = Next1(Flip(s.links), n)
  OBVIOUS
<1>5. PICK R : R = ps \X {n}
  OBVIOUS
<1>6. Touches(R, n)
  BY <1>5 DEF Touches
<1>7. PICK t : t = CrossRemove(v, n, R, ps)
  OBVIOUS
<1>8. CutAt(v, t, n) /\ t.links = v.links \ R /\ t.arcs = v.arcs
  BY <1>3, <1>6, <1>7, CrossRemoveUnmarked
<1>9. t \in States /\ On(t, n) = {}
  BY <1>3, <1>8, CutOn DEF CutAt
<1>10. PICK a : a = [node |-> n, todo |-> Next1(t.links, n), force |-> force]
  OBVIOUS
<1>11. db' = t /\ calls' = Append(stack, a)
  BY <1>1, <1>4, <1>5, <1>7, <1>10 DEF Enter
<1>12. Loose(t, K) /\ Onward(s, t)
  <2>1. Loose(v, K) /\ Onward(s, v)
    BY <1>2, CutLoose
  <2>2. Loose(t, K) /\ Onward(v, t)
    BY <1>8, <2>1, CutLoose
  <2> QED  BY <2>1, <2>2, OnwardTrans
<1>13. Next1(Flip(t.links), n) = {}
  <2>1. t.links \in SUBSET (Node \X Node) /\ t.links = s.links \ R
    BY <1>2, <1>8, <1>9 DEF States
  <2>2. ASSUME NEW e \in t.links, e[2] = n  PROVE FALSE
    <3> DEFINE f == <<e[2], e[1]>>
    <3>1. e \in s.links /\ e \notin R /\ e = <<e[1], n>>
      BY <2>1, <2>2
    <3>2. f \in Flip(s.links) /\ f[1] = n /\ f[2] = e[1]
      BY <2>2, <3>1 DEF Flip
    <3>3. e[1] \in ps
      BY <1>4, <3>2 DEF Next1
    <3> QED  BY <1>5, <3>1, <3>3
  <2> QED  BY <2>1, <2>2, NoLinks
<1>14. a \in Activations /\ Leaving(t, a)
  <2>1. Next1(t.links, n) \in SUBSET Node
    BY <1>9 DEF States, Next1
  <2>2. a \in Activations /\ a.node = n /\ a.todo = Next1(t.links, n)
    BY <1>10, <2>1 DEF Activations
  <2> QED  BY <1>9, <1>13, <2>2 DEF Leaving
<1>15. \A i \in DOMAIN stack : Leaving(t, stack[i])
  <2> SUFFICES ASSUME NEW i \in DOMAIN stack  PROVE Leaving(t, stack[i])
    OBVIOUS
  <2>1. stack[i] \in Activations
    OBVIOUS
  <2>2. Leaving(v, stack[i])
    BY <1>0, <1>2, <2>1, CutLeaving
  <2> QED  BY <1>3, <1>8, <2>1, <2>2, CutLeaving
<1>16. /\ calls' \in Seq(Activations) /\ calls' # <<>>
       /\ \A i \in DOMAIN calls' : Leaving(t, calls'[i])
  <2>1. calls' \in Seq(Activations) /\ calls' # <<>>
    BY <1>11, <1>14
  <2>2. \A i \in DOMAIN calls' : calls'[i] = a \/ (i \in DOMAIN stack /\ calls'[i] = stack[i])
    BY <1>11
  <2> QED  BY <1>14, <1>15, <2>1, <2>2
<1> QED  BY <1>11, <1>12, <1>16

LEMMA DelNodeGood ==
  ASSUME Inv, calls = <<>>, NEW n \in Node, NEW force \in BOOLEAN, DelNode(n, force)
  PROVE  Good /\ calls' # <<>>
<1>1. PICK K : K = Ids \ torn
  OBVIOUS
<1>2. K \in SUBSET Ids /\ Loose(db, K)
  BY <1>1, IdleFine, FineLoose
<1>3. Enter(db, calls, n, force) /\ bidir' = bidir /\ torn' = torn
  BY DEF DelNode
<1>4. calls \in Seq(Activations) /\ \A i \in DOMAIN calls : Leaving(db, calls[i])
  BY DEF Inv, TypeOK
<1>5. /\ Loose(db', K) /\ Onward(db, db')
      /\ calls' \in Seq(Activations) /\ calls' # <<>>
      /\ \A i \in DOMAIN calls' : Leaving(db', calls'[i])
  BY <1>2, <1>3, <1>4, EnterGood
<1>6. TypeOK'
  BY <1>3, <1>5 DEF Inv, TypeOK, Loose
<1>7. Inv'
  BY <1>1, <1>3, <1>5, <1>6 DEF Inv, Loose
<1> QED  BY <1>5, <1>7 DEF Good, Onward

\* A listed child is taken off the list.
TakenOff(stack, rest, i, c) ==
  /\ rest \in Seq(Activations) /\ DOMAIN rest = DOMAIN stack
  /\ i \in DOMAIN stack /\ stack[i] \in Activations
  /\ rest[i].node = stack[i].node /\ rest[i].todo = stack[i].todo \ {c}
  /\ \A k \in DOMAIN stack : k # i => rest[k] = stack[k]

LEMMA ChangedSeq ==
  ASSUME NEW A, NEW stack \in Seq(A), NEW i \in DOMAIN stack, NEW a \in A,
         NEW rest, rest = [stack EXCEPT ![i] = a]
  PROVE  rest \in Seq(A)
OBVIOUS

LEMMA RestType ==
  ASSUME NEW stack \in Seq(Activations), stack # <<>>, NEW c,
         NEW rest, rest = [stack EXCEPT ![Len(stack)].todo = @ \ {c}]
  PROVE  TakenOff(stack, rest, Len(stack), c)
<1>1. PICK i : i = Len(stack)
  OBVIOUS
<1>2. i \in DOMAIN stack /\ stack[i] \in Activations
  BY <1>1
<1>3. PICK a : a = [stack[i] EXCEPT !.todo = @ \ {c}]
  OBVIOUS
<1>4. a \in Activations /\ a.node = stack[i].node /\ a.todo = stack[i].todo \ {c}
  BY <1>2, <1>3 DEF Activations
<1>5. rest = [stack EXCEPT ![i] = a]
  BY <1>1, <1>3
<1>6. DOMAIN rest = DOMAIN stack /\ rest[i] = a /\ \A k \in DOMAIN stack : k # i => rest[k] = stack[k]
  BY <1>2, <1>5
<1>7. rest \in Seq(Activations)
  <2>1. i \in DOMAIN stack /\ a \in Activations /\ rest = [stack EXCEPT ![i] = a]
    BY <1>2, <1>4, <1>5
  <2> QED  BY ONLY <2>1, stack \in Seq(Activations), ChangedSeq
<1> QED  BY <1>1, <1>2, <1>4, <1>6, <1>7 DEF TakenOff

LEMMA StepGood ==
  ASSUME Inv, Loose(db', Ids \ torn), Heard(db, db'), bidir' = bidir, torn' = torn,
         calls' \in Seq(Activations), calls' # <<>>,
         \A i \in DOMAIN calls' : Leaving(db', calls'[i])
  PROVE  Good
<1>1. TypeOK'
  BY DEF Inv, TypeOK, Loose
<1>2. Inv'
  BY <1>1 DEF Inv, Loose
<1> QED  BY <1>2 DEF Good

LEMMA NextChildGood ==
  ASSUME Inv, calls # <<>>, NEW c \in Node, NextChild(c)
  PROVE  Good
<1>1. PICK K : K = Ids \ torn
  OBVIOUS
<1>2. K \in SUBSET Ids /\ Loose(db, K) /\ db \in States /\ Whole(db)
  BY <1>1 DEF Inv, TypeOK, Loose
<1>3. calls \in Seq(Activations) /\ \A i \in DOMAIN calls : Leaving(db, calls[i])
  BY DEF Inv, TypeOK
<1>4. PICK rest : rest = [calls EXCEPT ![Last].todo = @ \ {c}]
  OBVIOUS
<1>5. /\ rest \in Seq(Activations) /\ DOMAIN rest = DOMAIN calls
      /\ Last \in DOMAIN calls /\ calls[Last] \in Activations
      /\ rest[Last].node = calls[Last].node /\ rest[Last].todo = calls[Last].todo \ {c}
      /\ \A i \in DOMAIN calls : i # Last => rest[i] = calls[i]
  <2>1. TakenOff(calls, rest, Last, c)
    BY <1>3, <1>4, RestType DEF Last
  <2> QED  BY <2>1 DEF TakenOff
<1>6. PICK n : n = calls[Last].node
  OBVIOUS
<1>7. PICK R : R = {<<n, c>>}
  OBVIOUS
<1>8. n \in Node /\ calls[Last].force \in BOOLEAN /\ Leaving(db, calls[Last])
  BY <1>3, <1>5, <1>6 DEF Activations
<1>9. PICK cut : cut = CrossRemove(db, n, R, {c})
  OBVIOUS
<1>10. PICK goes \in BOOLEAN :
         goes = (calls[Last].force
                 \/ Next1(Flip(cut.links), c) \cup Next1(Flip(cut.arcs), c) = {})
  BY <1>8
<1>11. /\ \/ c \notin db.nodes /\ db' = db /\ calls' = rest
          \/ c \in db.nodes /\ db' = cut /\ calls' = rest
          \/ Enter(cut, rest, c, calls[Last].force)
       /\ bidir' = bidir /\ torn' = torn
  BY <1>4, <1>6, <1>7, <1>9 DEF NextChild
<1>12. CutAt(db, cut, n) /\ cut.links = db.links \ R
  <2>1. On(db, n) = {} /\ Touches(R, n)
    BY <1>6, <1>7, <1>8 DEF Leaving, Touches
  <2> QED  BY <1>2, <1>8, <1>9, <2>1, CrossRemoveUnmarked
<1>13. Loose(cut, K) /\ Onward(db, cut)
  BY <1>2, <1>8, <1>12, CutLoose
<1>14. \A i \in DOMAIN rest : Leaving(cut, rest[i])
  <2> SUFFICES ASSUME NEW i \in DOMAIN calls  PROVE Leaving(cut, rest[i])
    BY <1>5
  <2>1. calls[i] \in Activations /\ Leaving(db, calls[i])
    BY <1>3
  <2>2. Leaving(cut, calls[i])
    BY <1>2, <1>8, <1>12, <2>1, CutLeaving
  <2>3. CASE i # Last
    BY <1>5, <2>2, <2>3
  <2>4. CASE i = Last
    <3>1. c \notin Next1(cut.links, n)
      <4>1. \A e \in cut.links : e = <<e[1], e[2]>>
        BY <1>2, <1>12 DEF States
      <4>2. <<n, c>> \notin cut.links
        BY <1>7, <1>12
      <4> QED  BY <4>1, <4>2 DEF Next1
    <3>2. Leaving(cut, calls[Last])
      BY <2>2, <2>4
    <3>3. Next1(cut.links, n) \subseteq calls[Last].todo \ {c}
      BY <1>6, <3>1, <3>2 DEF Leaving
    <3> QED  BY <1>5, <1>6, <2>4, <3>2, <3>3 DEF Leaving
  <2> QED  BY <2>3, <2>4
<1>15. CASE c \notin db.nodes /\ db' = db /\ calls' = rest
  <2>1. \A i \in DOMAIN rest : Leaving(db, rest[i])
    <3> SUFFICES ASSUME NEW i \in DOMAIN calls  PROVE Leaving(db, rest[i])
      BY <1>5
    <3>1. Leaving(db, calls[i])
      BY <1>3
    <3>2. CASE i # Last
      BY <1>5, <3>1, <3>2
    <3>3. CASE i = Last
      <4>1. c \notin Next1(db.links, n)
        BY <1>2, <1>15 DEF Whole, Next1
      <4>2. Next1(db.links, n) \subseteq calls[Last].todo \ {c}
        BY <1>6, <1>8, <4>1 DEF Leaving
      <4> QED  BY <1>5, <1>6, <1>8, <3>3, <4>2 DEF Leaving
    <3> QED  BY <3>2, <3>3
  <2>2. Heard(db, db')
    BY <1>15 DEF Heard
  <2>3. calls' # <<>>
    BY <1>5, <1>15
  <2> QED  BY <1>1, <1>2, <1>5, <1>11, <1>15, <2>1, <2>2, <2>3, StepGood
<1>16. CASE db' = cut /\ calls' = rest
  <2>1. calls' # <<>>
    BY <1>5, <1>16
  <2> QED  BY <1>1, <1>5, <1>11, <1>13, <1>14, <1>16, <2>1, StepGood DEF Onward
<1>17. CASE Enter(cut, rest, c, calls[Last].force)
  <2>1. /\ Loose(db', K) /\ Onward(cut, db')
        /\ calls' \in Seq(Activations) /\ calls' # <<>>
        /\ \A i \in DOMAIN calls' : Leaving(db', calls'[i])
    <3>1. PICK f : f = calls[Last].force
      OBVIOUS
    <3>2. f \in BOOLEAN /\ Enter(cut, rest, c, f)
      BY <1>8, <1>17, <3>1
    <3>3. K \in SUBSET Ids /\ Loose(cut, K) /\ rest \in Seq(Activations)
      BY <1>2, <1>5, <1>13
    <3> QED  BY ONLY <1>14, <3>2, <3>3, c \in Node, EnterGood
  <2>2. Onward(db, db')
    BY <1>13, <2>1, OnwardTrans
  <2> QED  BY <1>1, <1>11, <2>1, <2>2, StepGood DEF Onward
<1> QED  BY <1>11, <1>15, <1>16, <1>17

\* Nothing leads to the node or from it but arcs, and it has no markers.
LEMMA DestroyFine ==
  ASSUME NEW K \in SUBSET Ids, NEW s, Loose(s, K), NEW n \in Node, On(s, n) = {},
         Next1(s.links, n) = {}, Next1(Flip(s.links), n) = {}, NEW t, t = DestroyNode(s, n)
  PROVE  /\ Loose(t, K) /\ Onward(s, t) /\ t.links = s.links
         /\ \A k \in Node : On(t, k) \subseteq On(s, k)
<1>0. s \in States /\ Whole(s) /\ Fresh(s)
  BY DEF Loose
<1>1. CASE n = Root
  <2>1. t = s
    BY <1>1 DEF DestroyNode
  <2>2. Louder(s, s)
    BY <1>0 DEF Louder
  <2> QED  BY <2>1, <2>2, LouderLoose
<1>2. CASE n # Root
  <2> DEFINE A == {e \in s.arcs : n \notin {e[1], e[2]}}
             N == s.nodes \ {n}
             F == s.fields \ {n}
             L == [m \in Ids |-> s.marks[m] \ {n}]
  <2>1. A \in SUBSET s.arcs /\ Touches(s.arcs \ A, n) /\ \A e \in A : e[1] # n /\ e[2] # n
    BY DEF Touches
  <2>2. L \in [Ids -> SUBSET Node] /\ \A m \in Ids : L[m] = s.marks[m] \ {n}
    BY <1>0 DEF States
  <2>3. t = [s EXCEPT !.nodes = N, !.fields = F, !.arcs = A, !.marks = L]
    BY <1>2 DEF DestroyNode
  <2>4. PICK u : u = [s EXCEPT !.arcs = A, !.marks = L]
    OBVIOUS
  <2>18. N \in SUBSET Node /\ F \in SUBSET Node /\ A \in SUBSET (Node \X Node)
    BY <1>0, <2>1 DEF States
  <2>19. L \in [Ids -> SUBSET Node]
    BY <2>2
  <2> HIDE DEF A, L, N, F
  <2>5. /\ u \in States /\ u.nodes = s.nodes /\ u.links = s.links /\ u.arcs = A
        /\ u.fields = s.fields /\ u.missing = s.missing /\ u.def = s.def /\ u.marks = L
        /\ u.stale = s.stale
    BY <1>0, <2>1, <2>2, <2>4 DEF States
  <2>6. /\ t \in States /\ t.nodes = s.nodes \ {n} /\ t.links = s.links /\ t.arcs = A
        /\ t.fields = s.fields \ {n} /\ t.missing = s.missing /\ t.def = s.def /\ t.marks = L
        /\ t.stale = s.stale
    <3>1. /\ t \in States /\ t.nodes = N /\ t.links = s.links /\ t.arcs = A
          /\ t.fields = F /\ t.missing = s.missing /\ t.def = s.def /\ t.marks = L
          /\ t.stale = s.stale
      BY <1>0, <2>3, <2>18, <2>19 DEF States
    <3> QED  BY <3>1 DEF N, F
  <2>7. \A m \in Live(s) : m \in Ids /\ n \notin s.marks[m] /\ L[m] = s.marks[m]
    <3>1. \A m \in Live(s) : m \in Ids /\ n \notin s.marks[m]
      BY DEF On, Live
    <3> QED  BY <2>2, <3>1
  <2>8. CutAt(s, u, n)
    <3>1. Touches(s.links \ u.links, n)
      BY <2>5 DEF Touches
    <3> QED  BY <2>1, <2>2, <2>5, <2>7, <3>1 DEF CutAt
  <2>9. Loose(u, K) /\ Onward(s, u)
    BY <2>8, CutLoose
  <2>10. Live(t) = Live(u) /\ Live(u) = Live(s) /\ \A dir : Way(t, dir) = Way(u, dir)
    BY <2>5, <2>6 DEF Live, Way
  <2>11. \A m : Follows(t, m) = Follows(u, m) /\ Origin(t, m) = Origin(u, m)
    BY <2>5, <2>6, <2>10 DEF Follows, Origin
  <2>12. Whole(t)
    <3>1. \A e \in s.links : e[1] # n /\ e[2] # n
      BY <1>0, NoLinks DEF States
    <3>2. t.links \subseteq t.nodes \X t.nodes
      BY <1>0, <2>6, <3>1 DEF Whole
    <3>3. t.arcs \subseteq t.nodes \X t.nodes /\ \A e \in t.arcs : e[1] \in t.fields
      BY <1>0, <2>1, <2>6 DEF Whole
    <3>4. \A m \in Ids : t.marks[m] \subseteq t.nodes
      BY <1>0, <2>2, <2>6 DEF Whole
    <3>5. Root \in t.nodes
      BY <1>0, <1>2, <2>6 DEF Whole
    <3> QED  BY <3>2, <3>3, <3>4, <3>5 DEF Whole
  <2>13. \A m \in K : Tied(t, m)
    BY <2>5, <2>6, <2>9, <2>10, <2>11 DEF Loose, Tied
  <2>14. ASSUME NEW m \in Live(s), ~s.stale
         PROVE  /\ Span(t, m) = Span(u, m) /\ Span(u, m) \subseteq u.marks[m]
                /\ Origin(t, m) \in t.nodes \cup t.missing
    <3>1. Span(u, m) \subseteq u.marks[m] /\ Origin(u, m) \in u.nodes \cup u.missing
          /\ m \in Live(u) /\ m \in Live(t)
      BY <2>5, <2>9, <2>10, <2>14 DEF Loose, Fresh
    <3>2. Origin(u, m) \in Node /\ Follows(u, m) \in SUBSET (Node \X Node)
      BY <2>5, <3>1, LiveType, SpanSeen
    <3>3. ASSUME Origin(u, m) = n  PROVE n \notin s.nodes
      <4>1. n \in u.nodes => n \in Span(u, m)
        BY <2>5, <3>1, <3>2, <3>3, SpanSeen, SeenType
      <4>2. n \notin u.marks[m]
        BY <2>2, <2>5, <2>7
      <4> QED  BY <2>5, <3>1, <4>1, <4>2
    <3>4. Origin(t, m) \in t.nodes <=> Origin(u, m) \in u.nodes
      BY <2>5, <2>6, <2>11, <3>3
    <3>5. t.def[m] = u.def[m]
      BY <2>5, <2>6
    <3>6. /\ Origin(u, m) \in u.nodes =>
               Span(u, m) = Seen(u.def[m].dir, Follows(u, m), Origin(u, m))
          /\ Origin(u, m) \notin u.nodes => Span(u, m) = {}
      BY <2>5, <3>1, SpanSeen
    <3>7. /\ Origin(t, m) \in t.nodes =>
               Span(t, m) = Seen(t.def[m].dir, Follows(t, m), Origin(t, m))
          /\ Origin(t, m) \notin t.nodes => Span(t, m) = {}
      BY <2>6, <3>1, SpanSeen
    <3>8. Span(t, m) = Span(u, m)
      BY <2>11, <3>4, <3>5, <3>6, <3>7
    <3>9. Origin(t, m) \in t.nodes \cup t.missing
      BY <2>5, <2>6, <2>11, <3>1, <3>4
    <3> QED  BY <3>1, <3>8, <3>9
  <2>15. Loose(t, K)
    <3>1. Fresh(t)
      BY <2>5, <2>6, <2>10, <2>14 DEF Fresh
    <3> QED  BY <2>6, <2>12, <2>13, <3>1 DEF Loose
  <2>16. Onward(s, t)
    <3>1. Heard(s, t)
      BY <2>5, <2>6, <2>9, <2>10, <2>14 DEF Onward, Heard
    <3> QED  BY <2>6, <2>10, <3>1 DEF Onward
  <2>17. \A k \in Node : On(t, k) \subseteq On(s, k)
    BY <2>6, <2>7, <2>10 DEF On
  <2> QED  BY <2>6, <2>15, <2>16, <2>17
<1> QED  BY <1>1, <1>2

LEMMA ReturnGood ==
  ASSUME Inv, calls # <<>>, Return
  PROVE  Good
<1>1. PICK K : K = Ids \ torn
  OBVIOUS
<1>2. K \in SUBSET Ids /\ Loose(db, K) /\ db \in States
  BY <1>1 DEF Inv, TypeOK, Loose
<1>3. calls \in Seq(Activations) /\ \A i \in DOMAIN calls : Leaving(db, calls[i])
  BY DEF Inv, TypeOK
<1>4. Last \in DOMAIN calls /\ Last \in Nat /\ calls[Last] \in Activations
  BY <1>3 DEF Last
<1>5. PICK n : n = calls[Last].node
  OBVIOUS
<1>6. /\ calls[Last].todo = {} /\ db' = DestroyNode(db, n)
      /\ calls' = SubSeq(calls, 1, Last - 1)
      /\ torn' = (IF Last = 1 THEN torn \cup Torn(db') ELSE torn) /\ bidir' = bidir
  BY <1>5 DEF Return
<1>7. /\ n \in Node /\ On(db, n) = {}
      /\ Next1(db.links, n) = {} /\ Next1(Flip(db.links), n) = {}
  BY <1>3, <1>4, <1>5, <1>6 DEF Activations, Leaving
<1>8. /\ Loose(db', K) /\ Onward(db, db') /\ db'.links = db.links
      /\ \A k \in Node : On(db', k) \subseteq On(db, k)
  BY <1>2, <1>6, <1>7, DestroyFine
<1>9. /\ calls' \in Seq(Activations) /\ Len(calls') = Last - 1
      /\ \A i \in DOMAIN calls' : i \in DOMAIN calls /\ calls'[i] = calls[i]
  <2>1. calls' = SubSeq(calls, 1, Last - 1) /\ Last \in 1..Len(calls)
    BY <1>3, <1>4, <1>6
  <2>2. /\ calls' \in Seq(Activations)
        /\ \A i \in DOMAIN calls' : i \in DOMAIN calls /\ calls'[i] = calls[i]
    BY <1>3, <1>4, <2>1
  <2>3. Len(calls') = Last - 1
    BY <1>3, <1>4, <2>1
  <2> QED  BY <2>2, <2>3
<1>10. \A i \in DOMAIN calls' : Leaving(db', calls'[i])
  <2> SUFFICES ASSUME NEW i \in DOMAIN calls'  PROVE Leaving(db', calls'[i])
    OBVIOUS
  <2>1. i \in DOMAIN calls /\ calls'[i] = calls[i] /\ calls[i] \in Activations
    BY <1>3, <1>9
  <2>2. Leaving(db, calls[i]) /\ calls[i].node \in Node
    BY <1>3, <2>1 DEF Activations
  <2> QED  BY <1>8, <2>1, <2>2 DEF Leaving
<1>11. torn \subseteq torn' /\ torn' \in SUBSET Ids
  <2>1. Torn(db') \in SUBSET Ids
    BY DEF Torn, Live
  <2> QED  BY <1>6, <2>1 DEF Inv, TypeOK
<1>12. calls' = <<>> => Torn(db') \subseteq torn'
  BY <1>4, <1>6, <1>9
<1>13. Loose(db', Ids \ torn')
  BY <1>1, <1>8, <1>11 DEF Loose
<1>14. TypeOK'
  BY <1>6, <1>9, <1>11, <1>13 DEF Inv, TypeOK, Loose
<1>15. Inv'
  BY <1>10, <1>12, <1>13, <1>14 DEF Inv, Loose
<1> QED  BY <1>8, <1>15 DEF Good, Onward

-----------------------------------------------------------------------------
(* The specification *)

LEMMA InitInv == Init => Inv
<1> SUFFICES ASSUME Init  PROVE Inv
  OBVIOUS
<1>1. db = [nodes |-> {Root}, links |-> {}, arcs |-> {}, fields |-> {}, missing |-> {},
            def |-> [m \in Ids |-> Unset], marks |-> [m \in Ids |-> {}], stale |-> FALSE]
      /\ bidir \in BOOLEAN /\ torn = {} /\ calls = <<>>
  BY DEF Init
<1>2. /\ db.nodes = {Root} /\ db.links = {} /\ db.arcs = {} /\ db.stale = FALSE
      /\ \A m \in Ids : db.def[m] = Unset /\ db.marks[m] = {}
  BY <1>1
<1>3. db \in States
  BY <1>1, MarkersAssumption DEF States
<1>4. TypeOK
  BY <1>1, <1>3 DEF TypeOK
<1>5. Live(db) = {}
  BY <1>2 DEF Live
<1>6. Whole(db) /\ Fresh(db) /\ Torn(db) = {} /\ \A m \in Ids : Tied(db, m)
  BY <1>2, <1>5 DEF Whole, Fresh, Torn, Tied
<1>7. DOMAIN calls = {}
  BY <1>1
<1>8. calls = <<>> => Torn(db) \subseteq torn
  BY <1>6
<1>9. \A m \in Ids \ torn : Tied(db, m)
  BY <1>6
<1> QED  BY <1>4, <1>6, <1>7, <1>8, <1>9 DEF Inv

\* Removed links aside, a command keeps them; and who removes them restores the markers.
Heeds == calls' # <<>> \/ LinksStay(db, db') \/ Restores(db, db')

LEMMA TouchesProduct ==
  ASSUME NEW n, NEW S
  PROVE  Touches(S \X {n}, n) /\ Touches({n} \X S, n)
BY DEF Touches

LEMMA CommandGood ==
  ASSUME Inv, calls = <<>>, Command
  PROVE  Good /\ Heeds
<1>1. CASE \E n \in Node, noRoot \in BOOLEAN : CreateNode(n, noRoot)
  BY <1>1, CreateNodeGood DEF Heeds
<1>2. CASE \E p, c \in Node : AddLink(p, c) \/ AddEdge(p, c) \/ DelEdge(p, c)
  BY <1>2, AddLinkGood, AddEdgeGood, DelEdgeGood DEF Heeds
<1>3. CASE \E n \in Node : \E S \in SUBSET Node : DelParents(n, S) \/ DelChildren(n, S)
  <2>1. PICK n \in Node, S \in SUBSET Node : DelParents(n, S) \/ DelChildren(n, S)
    BY <1>3
  <2>2. CASE DelParents(n, S)
    <3>1. Commit(TellChanged(CrossRemove(db, n, S \X {n}, S), {n}))
      BY <2>2 DEF DelParents
    <3> QED  BY <3>1, TouchesProduct, DelLinksGood DEF Heeds
  <2>3. CASE DelChildren(n, S)
    <3>1. Commit(TellChanged(CrossRemove(db, n, {n} \X S, S), {n}))
      BY <2>3 DEF DelChildren
    <3> QED  BY <3>1, TouchesProduct, DelLinksGood DEF Heeds
  <2> QED  BY <2>1, <2>2, <2>3
<1>4. CASE \E n \in Node, force \in BOOLEAN : DelNode(n, force)
  BY <1>4, DelNodeGood DEF Heeds
<1>5. CASE \E m \in Ids : DelMarker(m) \/ \E q \in Queries : AddMarker(m, q)
  BY <1>5, DelMarkerGood, AddMarkerGood DEF Heeds
<1>6. CASE \E n \in Node : AddMissing(n)
  BY <1>6, AddMissingGood DEF Heeds
<1>7. CASE RefreshCommand
  BY <1>7, RefreshCommandGood DEF Heeds
<1>8. CASE DelSubscription
  BY <1>8, DelSubscriptionGood DEF Heeds
<1> QED  BY <1>1, <1>2, <1>3, <1>4, <1>5, <1>6, <1>7, <1>8 DEF Command

LEMMA NextGood == Inv /\ [Next]_vars => Good /\ (Idle => Heeds)
<1> SUFFICES ASSUME Inv, [Next]_vars  PROVE Good /\ (Idle => Heeds)
  OBVIOUS
<1>1. CASE Idle /\ Command
  BY <1>1, CommandGood DEF Idle
<1>2. CASE ~Idle /\ (Return \/ \E c \in Node : NextChild(c))
  BY <1>2, ReturnGood, NextChildGood DEF Idle
<1>3. CASE UNCHANGED vars
  <2>1. db' = db /\ bidir' = bidir /\ torn' = torn /\ calls' = calls
    BY <1>3 DEF vars
  <2>2. Inv'
    BY <2>1 DEF Inv, TypeOK
  <2> QED  BY <2>1, <2>2 DEF Good, Heard, Heeds, LinksStay
<1> QED  BY <1>1, <1>2, <1>3 DEF Next

THEOREM Invariance == Spec => []Inv
<1>1. Inv /\ [Next]_vars => Inv'
  BY NextGood DEF Good
<1> QED  BY <1>1, InitInv, PTL DEF Spec

\* SelvaSubscriptions_InheritParent() and its like, ClearAllMarkers(), the refreshes: a
\* node that a marker visits carries it, so that its changes are noticed, unless the
\* client has been told to evaluate its query again.
THEOREM VisitedIsMarked == Spec => []Covered
<1>1. Inv => Covered
  BY DEF Inv, Fresh, Covered
<1> QED  BY <1>1, Invariance, PTL

\* clear_node_sub(), do_sub_marker_removal(): following a marker finds every node that
\* carries it, so that none keeps a pointer to it when it is cleared or freed.
THEOREM MarkedIsVisited == Spec => []NothingStray
<1>1. Inv => NothingStray
  <2> SUFFICES ASSUME Inv, NEW m \in Ids \ (torn \cup Torn(db))
               PROVE  IF m \in Live(db) THEN db.marks[m] \subseteq Span(db, m)
                                        ELSE db.marks[m] = {}
    BY DEF NothingStray
  <2>1. db \in States /\ Whole(db) /\ Tied(db, m)
    BY DEF Inv, TypeOK
  <2>2. m \in Live(db) => db.marks[m] \subseteq Span(db, m)
    BY <2>1, TiedInSpan
  <2>3. m \notin Live(db) => db.marks[m] = {}
    BY <2>1 DEF Tied
  <2> QED  BY <2>2, <2>3
<1> QED  BY <1>1, Invariance, PTL

\* DeferHierarchyEvents(), DeferFieldChangeEvents(), SelvaSubscriptions_DeferMissingAccessorEvents():
\* what a marker visits never changes unheard.
THEOREM ChangesAreTold == Spec => Told
<1>1. Inv /\ [Next]_vars =>
        [\A m \in Live(db) :
           (/\ ~db.stale /\ m \in Live(db)' /\ db.def[m].watch
            /\ Span(db, m) # Span(db, m)')
           => db.stale']_vars
  BY NextGood DEF Good, Heard
<1> QED  BY <1>1, Invariance, PTL DEF Spec, Told

\* crossRemove(): what it clears to remove links, it sets again on all that is still
\* visited.
THEOREM ClearedIsRestored == Spec => Restored
<1>1. Inv /\ [Next]_vars =>
        [(Idle /\ Idle' /\ db'.links # db.links /\ db'.links \subseteq db.links)
         => \A m \in Live(db) :
              Span(db, m) \subseteq db.marks[m] => Span(db, m)' \subseteq db'.marks[m]]_vars
  BY NextGood DEF Heeds, Idle, LinksStay, Restores
<1> QED  BY <1>1, Invariance, PTL DEF Spec, Restored

=============================================================================
