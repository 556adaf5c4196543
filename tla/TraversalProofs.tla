--------------------------- MODULE TraversalProofs ---------------------------
(***************************************************************************)
(* Traversals that run at a time and share labels do not disturb each      *)
(* other, each calls back once for every node that it reaches, and what    *)
(* verifyDetachableSubtree() accepts is closed: for every graph, any       *)
(* number of nodes and of traversals, and any limit of colours.            *)
(*                                                                         *)
(* The labels are dealt with once: they say of each running traversal what *)
(* it has seen (Isolated).  What a traversal does depends on the labels by *)
(* that alone, so that the rest is about one traversal at a time (Walk),   *)
(* and about the two of a verification.                                    *)
(***************************************************************************)
EXTENDS Traversal, FiniteSetTheorems, TLAPS

Labels     == [id : Nat, cl : SUBSET Nat]
Colours    == [id : Nat, cl : Nat]
Arrows     == Node \X {"children", "edge", "head", "next"} \X Node
Traversals ==
  [way : {"bfs", "dfs", "flat", "verify"}, head : Node, fields : SUBSET {"children", "edge"},
   cur : Colours, pc : {"head", "loop", "node"}, at : Node, queue : SUBSET Arrows,
   called : [Node -> {0, 1}], seen : SUBSET Node, origins : SUBSET Node, err : BOOLEAN]

-----------------------------------------------------------------------------
(* The inductive invariant *)

GraphTyped == graph \in SUBSET (Node \X {"children", "edge"} \X Node)

\* The colours of a transaction are handed out in order; while one is left in use, a
\* traversal has it.
TrxTyped ==
  /\ trx \in [id : Nat, cl : SUBSET Nat, ex : SUBSET Nat]
  /\ \E k \in Nat : trx.cl = 0 .. k - 1
  /\ trx.ex \subseteq trx.cl /\ (trx.ex = trx.cl => trx.cl = {})

\* No label is ahead of the transaction, and none has a colour that is still to come.
LabelsTyped ==
  /\ label \in [Node -> Labels]
  /\ \A n \in Node : label[n].id <= trx.id /\ (label[n].id = trx.id => label[n].cl \subseteq trx.cl)

\* The traversals that run have the colours in use, each its own.
StackTyped ==
  /\ stack \in Seq(Traversals)
  /\ \A i \in 1 .. Depth : stack[i].cur.id = trx.id /\ stack[i].cur.cl \in trx.cl \ trx.ex
  /\ \A k \in trx.cl \ trx.ex : \E i \in 1 .. Depth : stack[i].cur.cl = k
  /\ \A i, j \in 1 .. Depth : stack[i].cur.cl = stack[j].cur.cl => i = j

Shared == GraphTyped /\ TrxTyped /\ LabelsTyped /\ StackTyped /\ LabelsAgree

\* What a traversal has met, what it has called back for, and the node that is being
\* called back for, whose adjacent nodes are still to be looked at.
Met(t)     == t.seen \cup Ends(t.queue)
Called(t)  == {n \in Node : t.called[n] = 1}
Pending(t) == IF t.pc = "node" THEN {t.at} ELSE {}

\* A bfs calls back later for what it has seen, the others at once; all they have met is
\* to be called back for; and what follows after a node they were called back for is met.
Walk(t) ==
  /\ t.way = "bfs" => /\ t.seen = Called(t) \cup Ends(t.queue) /\ Called(t) \cap Ends(t.queue) = {}
                      /\ t.queue \subseteq {<<t.head, "head", t.head>>}
                                            \cup {<<t.head, "next", n>> : n \in Node \ {t.head}}
  /\ t.way \in {"dfs", "flat"} => t.seen = Called(t)
  /\ t.way # "verify" => Met(t) \subseteq ToCall(t) /\ Pending(t) \subseteq Called(t)
  /\ t.way = "flat" => ToCall(t) \subseteq Met(t)
  /\ t.way \in {"bfs", "dfs"} =>
       /\ t.head \in Met(t)
       /\ \A n \in Called(t) \ Pending(t) : Ends(Links(n, t.fields)) \subseteq Met(t)

Walks == \A i \in 1 .. Depth : Walk(stack[i])

\* The outer traversal of a verification has approved of nodes that have no parents but
\* approved ones, the head aside, and knows who refers to them.
Approves(t) ==
  /\ t.pc = "loop" /\ t.fields = {"children"} /\ t.queue = {}
  /\ \A n \in t.seen : (n = t.head \/ Parents(n) \subseteq t.seen) /\ Origins(n) \subseteq t.origins

\* The inner one reaches what the outer one then has approved of.
Inner(t, u) ==
  /\ u.way = "bfs" /\ u.head = t.head /\ u.fields = {"children"}
  /\ u.cur = [t.cur EXCEPT !.cl = @ + 1]
  /\ ~t.err /\ t.seen = Called(u) \ Pending(u) /\ u.pc # "head"

\* When it has come to its end, the outer one asks only for nodes that it has reached.
Outer(t) ==
  ~t.err => /\ t.seen = Reach(t.head, {"children"})
            /\ \A n \in Node : Within(t, n) => n \in t.seen

Verifies ==
  /\ \A i \in 1 .. Depth : stack[i].way = "verify" => i = 1 /\ Depth <= 2 /\ Approves(stack[i])
  /\ Depth = 2 /\ stack[1].way = "verify" => Inner(stack[1], stack[2])
  /\ Depth = 1 /\ stack[1].way = "verify" => Outer(stack[1])

IInv == Shared /\ Walks /\ Verifies /\ detachable \subseteq Node /\ Verified

-----------------------------------------------------------------------------
(* Labels and colours *)

\* A label that fits the transaction tr.
Fitting(l, tr) == l \in Labels /\ l.id <= tr.id /\ (l.id = tr.id => l.cl \subseteq tr.cl)

LEMMA SyncLabel ==
  ASSUME trx.id \in Nat, NEW l, Fitting(l, trx), NEW d \in Colours, d.id = trx.id
  PROVE  /\ Fitting(Trx_Sync(l), trx)
         /\ Trx_HasVisited(d, Trx_Sync(l)) <=> Trx_HasVisited(d, l)
BY DEF Fitting, Labels, Colours, Trx_Sync, Trx_HasVisited

LEMMA VisitLabel ==
  ASSUME NEW tr, tr.id \in Nat, NEW l, Fitting(l, tr),
         NEW d \in Colours, NEW cur \in Colours, d.id = tr.id, cur.id = tr.id
  PROVE  /\ cur.cl \in tr.cl => Fitting(Trx_Visit(cur, l), tr)
         /\ Trx_HasVisited(d, Trx_Visit(cur, l)) <=> Trx_HasVisited(d, l) \/ d.cl = cur.cl
<1>1. CASE l.id # tr.id
  <2>1. Trx_Visit(cur, l) = [id |-> cur.id, cl |-> {cur.cl}]
    BY <1>1 DEF Trx_Visit
  <2> QED  BY <1>1, <2>1 DEF Fitting, Labels, Colours, Trx_HasVisited
<1>2. CASE l.id = tr.id
  <2>1. Trx_Visit(cur, l) = [l EXCEPT !.cl = @ \cup {cur.cl}]
    BY <1>2 DEF Trx_Visit
  <2>2. [l EXCEPT !.cl = @ \cup {cur.cl}] \in Labels
    BY DEF Fitting, Labels, Colours
  <2> QED  BY <1>2, <2>1, <2>2 DEF Fitting, Labels, Colours, Trx_HasVisited
<1> QED  BY <1>1, <1>2

LEMMA FitsAll == ASSUME LabelsTyped, NEW n \in Node PROVE Fitting(label[n], trx)
BY DEF LabelsTyped, Fitting

\* The next colour is one that no label of this transaction has.
LEMMA NextColour ==
  ASSUME TrxTyped
  PROVE  /\ NewTrx \in Colours /\ NewTrx.id = trx.id /\ NewTrx.cl \notin trx.cl
         /\ \E k \in Nat : /\ trx.cl = 0 .. k - 1 /\ NewTrx.cl = k
                         /\ trx.cl \cup {NewTrx.cl} = 0 .. (k + 1) - 1
<1>1. PICK k \in Nat : trx.cl = 0 .. k - 1
  BY DEF TrxTyped
<1>2. Cardinality(trx.cl) = k
  BY <1>1, FS_Interval
<1>3. k \notin 0 .. k - 1 /\ (0 .. k - 1) \cup {k} = 0 .. (k + 1) - 1
  BY <1>1
<1> QED  BY <1>1, <1>2, <1>3 DEF NewTrx, Colours, TrxTyped

\* A label of this transaction does not have the next colour, wherever it comes from.
LEMMA NextUnseen ==
  ASSUME TrxTyped, LabelsTyped, NEW n \in Node
  PROVE  ~Trx_HasVisited(NewTrx, label[n])
BY NextColour DEF LabelsTyped, Trx_HasVisited

-----------------------------------------------------------------------------
(* What all traversals share: one lemma for each way in which the stack changes *)

\* The traversals stay, and go on.
LEMMA SameShared ==
  ASSUME Shared, graph' = graph, trx' = trx, stack' \in Seq(Traversals), Len(stack') = Depth,
         \A i \in 1 .. Depth : stack'[i].cur = stack[i].cur,
         label' \in [Node -> Labels], \A n \in Node : Fitting(label'[n], trx),
         \A i \in 1 .. Depth : \A n \in Node :
           Trx_HasVisited(stack[i].cur, label'[n]) <=> n \in stack'[i].seen
  PROVE  Shared'
<1>1. Depth' = Depth
  BY DEF Depth
<1>2. GraphTyped' /\ TrxTyped'
  BY DEF Shared, GraphTyped, TrxTyped
<1>3. LabelsTyped'
  BY DEF LabelsTyped, Fitting
<1>4. StackTyped'
  <2>1. \A i \in 1 .. Depth : stack[i].cur.id = trx.id /\ stack[i].cur.cl \in trx.cl \ trx.ex
    BY DEF Shared, StackTyped
  <2>2. \A k \in trx.cl \ trx.ex : \E i \in 1 .. Depth : stack[i].cur.cl = k
    BY DEF Shared, StackTyped
  <2>3. \A k \in trx.cl \ trx.ex : \E i \in 1 .. Depth : stack'[i].cur.cl = k
    BY <2>2
  <2>4. \A i, j \in 1 .. Depth : stack[i].cur.cl = stack[j].cur.cl => i = j
    BY DEF Shared, StackTyped
  <2> QED  BY <1>1, <2>1, <2>3, <2>4 DEF StackTyped
<1>5. LabelsAgree'
  BY <1>1 DEF LabelsAgree
<1> QED  BY <1>2, <1>3, <1>4, <1>5 DEF Shared

\* A traversal begins.
LEMMA PushShared ==
  ASSUME Shared, graph' = graph, trx' = [trx EXCEPT !.cl = @ \cup {NewTrx.cl}],
         NEW t \in Traversals, t.cur = NewTrx, stack' = Append(stack, t),
         label' \in [Node -> Labels], \A n \in Node : Fitting(label'[n], trx'),
         \A d \in Colours : d.id = trx.id => \A n \in Node :
           Trx_HasVisited(d, label'[n]) <=>
             Trx_HasVisited(d, label[n]) \/ (d.cl = NewTrx.cl /\ n \in t.seen)
  PROVE  Shared'
<1> USE DEF Depth
<1>1. /\ stack \in Seq(Traversals) /\ Len(stack) \in Nat /\ Len(stack') = Len(stack) + 1
      /\ stack' \in Seq(Traversals) /\ stack'[Len(stack) + 1] = t
      /\ \A i \in 1 .. Len(stack) : stack'[i] = stack[i] /\ stack[i] \in Traversals
  BY DEF Shared, StackTyped
<1>2. /\ trx'.id = trx.id /\ trx'.cl = trx.cl \cup {NewTrx.cl} /\ trx'.ex = trx.ex
      /\ NewTrx.cl \notin trx.cl /\ trx.ex \subseteq trx.cl /\ NewTrx.id = trx.id /\ NewTrx \in Colours
  BY NextColour DEF Shared, TrxTyped
<1>3. TrxTyped'
  <2>1. trx' \in [id : Nat, cl : SUBSET Nat, ex : SUBSET Nat]
    BY <1>2 DEF Shared, TrxTyped, Colours
  <2>2. \E k \in Nat : trx'.cl = 0 .. k - 1
    <3>1. PICK k \in Nat : trx.cl \cup {NewTrx.cl} = 0 .. (k + 1) - 1
      BY NextColour DEF Shared
    <3>2. k + 1 \in Nat
      OBVIOUS
    <3> QED  BY <1>2, <3>1, <3>2
  <2> QED  BY <1>2, <2>1, <2>2 DEF TrxTyped
<1>4. GraphTyped' /\ LabelsTyped'
  BY DEF Shared, GraphTyped, LabelsTyped, Fitting
<1>5. StackTyped'
  <2>1. ASSUME NEW i \in 1 .. Len(stack')
        PROVE  stack'[i].cur.id = trx'.id /\ stack'[i].cur.cl \in trx'.cl \ trx'.ex
    <3>1. CASE i = Len(stack) + 1  BY <1>1, <1>2, <3>1
    <3>2. CASE i \in 1 .. Len(stack)  BY <1>1, <1>2, <3>2 DEF Shared, StackTyped
    <3> QED  BY <1>1, <3>1, <3>2
  <2>2. ASSUME NEW k \in trx'.cl \ trx'.ex  PROVE \E i \in 1 .. Len(stack') : stack'[i].cur.cl = k
    <3>1. CASE k = NewTrx.cl  BY <1>1, <3>1
    <3>2. CASE k # NewTrx.cl
      <4>1. PICK i \in 1 .. Len(stack) : stack[i].cur.cl = k
        BY <1>2, <2>2, <3>2 DEF Shared, StackTyped
      <4>2. i \in 1 .. Len(stack') /\ stack'[i].cur.cl = k
        BY <1>1, <4>1
      <4> QED  BY <4>2
    <3> QED  BY <3>1, <3>2
  <2>3. ASSUME NEW i \in 1 .. Len(stack'), NEW j \in 1 .. Len(stack'),
               stack'[i].cur.cl = stack'[j].cur.cl
        PROVE  i = j
    <3>1. \A k \in 1 .. Len(stack) : stack'[k].cur.cl # NewTrx.cl
      BY <1>1, <1>2 DEF Shared, StackTyped
    <3>2. CASE i \in 1 .. Len(stack) /\ j \in 1 .. Len(stack)
      BY <1>1, <2>3, <3>2 DEF Shared, StackTyped
    <3>3. CASE i = Len(stack) + 1 \/ j = Len(stack) + 1
      BY <1>1, <2>3, <3>1, <3>3
    <3> QED  BY <1>1, <3>2, <3>3
  <2> QED  BY <1>1, <2>1, <2>2, <2>3 DEF StackTyped
<1>6. LabelsAgree'
  <2> SUFFICES ASSUME NEW i \in 1 .. Len(stack'), NEW n \in Node
               PROVE  Trx_HasVisited(stack'[i].cur, label'[n]) <=> n \in stack'[i].seen
    BY DEF LabelsAgree
  <2>1. CASE i = Len(stack) + 1
    <3>1. ~Trx_HasVisited(NewTrx, label[n])
      BY NextUnseen DEF Shared
    <3> QED  BY <1>1, <1>2, <2>1, <3>1
  <2>2. CASE i \in 1 .. Len(stack)
    <3>1. /\ stack[i].cur \in Colours /\ stack[i].cur.id = trx.id
          /\ stack[i].cur.cl # NewTrx.cl
      BY <1>1, <1>2, <2>2 DEF Shared, StackTyped, Traversals
    <3>2. Trx_HasVisited(stack[i].cur, label[n]) <=> n \in stack[i].seen
      BY <2>2 DEF Shared, LabelsAgree
    <3> QED  BY <1>1, <2>2, <3>1, <3>2
  <2> QED  BY <1>1, <2>1, <2>2
<1> QED  BY <1>3, <1>4, <1>5, <1>6 DEF Shared

\* The innermost traversal ends; the others may note it.
LEMMA PopShared ==
  ASSUME Shared, stack # <<>>, graph' = graph, label' = label, Trx_End(Top.cur),
         stack' \in Seq(Traversals), Len(stack') = Depth - 1,
         \A i \in 1 .. Depth - 1 :
           stack'[i].cur = stack[i].cur /\ stack'[i].seen = stack[i].seen
  PROVE  Shared'
<1> DEFINE k == Top.cur.cl
<1>1. /\ Depth \in Nat \ {0} /\ Depth' = Depth - 1 /\ Depth \in 1 .. Depth
      /\ Top.cur = stack[Depth].cur /\ k \in trx.cl /\ k \notin trx.ex
  BY DEF Shared, StackTyped, Depth, Top
<1>2. /\ trx \in [id : Nat, cl : SUBSET Nat, ex : SUBSET Nat] /\ trx.ex \subseteq trx.cl
  BY DEF Shared, TrxTyped
<1>3. CASE trx.ex \cup {k} = trx.cl
  <2>1. trx' = [id |-> trx.id + 1, cl |-> {}, ex |-> {}]
    BY <1>3 DEF Trx_End
  <2>2. TrxTyped'
    <3>1. {} = 0 .. 0 - 1
      OBVIOUS
    <3> QED  BY <1>2, <2>1, <3>1 DEF TrxTyped
  <2>3. Depth = 1
    <3>1. ASSUME Depth # 1 PROVE FALSE
      <4>1. 1 \in 1 .. Depth /\ Depth # 1
        BY <1>1, <3>1
      <4>2. stack[1].cur.cl \in trx.cl \ trx.ex /\ stack[1].cur.cl # k
        BY <1>1, <4>1 DEF Shared, StackTyped
      <4> QED  BY <1>3, <4>2
    <3> QED  BY <3>1
  <2>4. LabelsTyped'
    BY <1>2, <2>1 DEF Shared, LabelsTyped, Labels
  <2>5. StackTyped'
    BY <1>1, <2>1, <2>3 DEF StackTyped
  <2>6. LabelsAgree'
    BY <1>1, <2>3 DEF LabelsAgree
  <2> QED  BY <2>2, <2>4, <2>5, <2>6 DEF Shared, GraphTyped
<1>4. CASE trx.ex \cup {k} # trx.cl
  <2>1. /\ trx' = [trx EXCEPT !.ex = @ \cup {k}]
        /\ trx'.id = trx.id /\ trx'.cl = trx.cl /\ trx'.ex = trx.ex \cup {k}
    BY <1>2, <1>4 DEF Trx_End
  <2>2. TrxTyped'
    <3>1. trx' \in [id : Nat, cl : SUBSET Nat, ex : SUBSET Nat]
      BY <1>1, <1>2, <2>1
    <3>2. \E m \in Nat : trx'.cl = 0 .. m - 1
      BY <2>1 DEF Shared, TrxTyped
    <3> QED  BY <1>1, <1>2, <1>4, <2>1, <3>1, <3>2 DEF TrxTyped
  <2>3. LabelsTyped'
    BY <2>1 DEF Shared, LabelsTyped
  <2>4. StackTyped'
    <3>1. ASSUME NEW i \in 1 .. Depth - 1
          PROVE  /\ stack'[i].cur.id = trx'.id /\ stack'[i].cur.cl \in trx'.cl \ trx'.ex
      <4>1. i \in 1 .. Depth /\ i # Depth
        BY <1>1
      <4> QED  BY <1>1, <2>1, <4>1 DEF Shared, StackTyped
    <3>2. ASSUME NEW c \in trx'.cl \ trx'.ex
          PROVE  \E i \in 1 .. Depth - 1 : stack'[i].cur.cl = c
      <4>1. PICK i \in 1 .. Depth : stack[i].cur.cl = c
        BY <2>1 DEF Shared, StackTyped
      <4>2. i # Depth
        BY <1>1, <2>1, <4>1
      <4>3. i \in 1 .. Depth - 1
        BY <1>1, <4>1, <4>2
      <4> QED  BY <4>1, <4>3
    <3>3. \A i, j \in 1 .. Depth - 1 : stack'[i].cur.cl = stack'[j].cur.cl => i = j
      <4>1. 1 .. Depth - 1 \subseteq 1 .. Depth
        BY <1>1
      <4> QED  BY <4>1 DEF Shared, StackTyped
    <3> QED  BY <1>1, <3>1, <3>2, <3>3 DEF StackTyped
  <2>5. LabelsAgree'
    <3>1. 1 .. Depth - 1 \subseteq 1 .. Depth
      BY <1>1
    <3> QED  BY <1>1, <3>1 DEF Shared, LabelsAgree
  <2> QED  BY <2>2, <2>3, <2>4, <2>5 DEF Shared, GraphTyped
<1> QED  BY <1>3, <1>4

\* Trx_Fin() holds exactly when no traversal runs.
LEMMA SharedIsolated == Shared => Isolated
<1> SUFFICES ASSUME Shared PROVE Released
  BY DEF Shared, Isolated
<1>1. Depth \in Nat /\ (stack = <<>> <=> Depth = 0)
  BY DEF Shared, StackTyped, Depth
<1>2. ASSUME trx.cl = {} PROVE Depth = 0
  <2>1. \A i \in 1 .. Depth : FALSE
    BY <1>2 DEF Shared, StackTyped
  <2> QED  BY <1>1, <2>1
<1>3. ASSUME Depth = 0 PROVE trx.cl = {}
  <2>1. trx.cl \ trx.ex = {}
    BY <1>1, <1>3 DEF Shared, StackTyped
  <2> QED  BY <2>1 DEF Shared, TrxTyped
<1> QED  BY <1>1, <1>2, <1>3 DEF Released, Fin

-----------------------------------------------------------------------------
(* One traversal *)

LEMMA ReachFacts ==
  ASSUME GraphTyped, NEW h \in Node, NEW fields
  PROVE  /\ Reach(h, fields) \subseteq Node /\ h \in Reach(h, fields)
         /\ \A n \in Reach(h, fields) : Ends(Links(n, fields)) \subseteq Reach(h, fields)
         /\ \A S \in SUBSET Node :
              h \in S /\ (\A n \in S : Ends(Links(n, fields)) \subseteq S) => Reach(h, fields) \subseteq S
<1>1. \A n : Ends(Links(n, fields)) \subseteq Node
  BY DEF GraphTyped, Ends, Links
<1>2. Reach(h, fields) \subseteq Node /\ h \in Reach(h, fields)
  BY DEF Reach
<1>3. ASSUME NEW n \in Reach(h, fields), NEW m \in Ends(Links(n, fields))  PROVE m \in Reach(h, fields)
  BY <1>1, <1>3 DEF Reach
<1>4. ASSUME NEW S \in SUBSET Node, h \in S, \A n \in S : Ends(Links(n, fields)) \subseteq S
      PROVE  Reach(h, fields) \subseteq S
  BY <1>4 DEF Reach
<1> QED  BY <1>2, <1>3, <1>4

\* A traversal of any way that has come to its end has called back for what it reaches.
LEMMA WalkComplete ==
  ASSUME GraphTyped, NEW t \in Traversals, Walk(t), t.way # "verify", t.pc = "loop", t.queue = {}
  PROVE  Called(t) = ToCall(t)
<1>1. /\ t.head \in Node /\ t.seen \subseteq Node /\ t.way \in {"bfs", "dfs", "flat"}
  BY DEF Traversals
<1>2. Met(t) = t.seen /\ Called(t) = t.seen /\ Pending(t) = {}
  BY <1>1 DEF Walk, Met, Pending, Ends
<1>3. CASE t.way = "flat"
  BY <1>2, <1>3 DEF Walk
<1>4. CASE t.way \in {"bfs", "dfs"}
  <2>1. ToCall(t) = Reach(t.head, t.fields) /\ t.seen \subseteq ToCall(t)
    BY <1>2, <1>4 DEF ToCall, Walk
  <2>2. t.head \in t.seen /\ \A n \in t.seen : Ends(Links(n, t.fields)) \subseteq t.seen
    BY <1>2, <1>4 DEF Walk
  <2>3. Reach(t.head, t.fields) \subseteq t.seen
    BY <1>1, <2>2, ReachFacts
  <2> QED  BY <1>2, <2>1, <2>3
<1> QED  BY <1>1, <1>3, <1>4

LEMMA EndsFacts ==
  ASSUME NEW links
  PROVE  /\ \A n : n \in Ends(links) <=> \E l \in links : l[3] = n
         /\ \A l \in links : l[3] \in Ends(links)
         /\ \A more : Ends(links \cup more) = Ends(links) \cup Ends(more)
         /\ \A less : Ends(links \ less) \subseteq Ends(links)
BY DEF Ends

\* A traversal that has just begun.
LEMMA NewWalk ==
  ASSUME GraphTyped, NEW t \in Traversals, t.way # "verify", t.pc # "node", Called(t) = {},
         \/ /\ t.way = "bfs" /\ t.seen = {t.head} /\ t.queue = {<<t.head, "head", t.head>>}
         \/ /\ t.way = "dfs" /\ t.seen = {} /\ t.queue = {<<t.head, "head", t.head>>}
         \/ /\ t.way = "flat" /\ t.seen = {} /\ t.queue = Links(t.head, t.fields)
  PROVE  Walk(t)
<1>1. t.head \in Node /\ Pending(t) = {}
  BY DEF Traversals, Pending
<1>2. CASE t.way = "flat"
  BY <1>1, <1>2 DEF Walk, Met, ToCall
<1>3. CASE t.way \in {"bfs", "dfs"}
  <2>1. Ends(t.queue) = {t.head} /\ Met(t) = {t.head} /\ ToCall(t) = Reach(t.head, t.fields)
    <3>1. t.queue = {<<t.head, "head", t.head>>} /\ t.seen \subseteq {t.head}
      BY <1>3
    <3>2. Ends(t.queue) = {t.head}
      BY <3>1 DEF Ends
    <3>3. ToCall(t) = Reach(t.head, t.fields)
      BY <1>3 DEF ToCall
    <3> QED  BY <3>1, <3>2, <3>3 DEF Met
  <2>2. t.head \in Reach(t.head, t.fields)
    BY <1>1, ReachFacts
  <2> QED  BY <1>1, <1>3, <2>1, <2>2 DEF Walk
<1> QED  BY <1>2, <1>3 DEF Traversals

Without(t, l)  == [t EXCEPT !.queue = @ \ {l}]
CallBack(t, l) == [Without(t, l) EXCEPT !.pc = "node", !.at = l[3], !.called[l[3]] = @ + 1]

LEMMA WithoutFields ==
  ASSUME NEW t \in Traversals, NEW l
  PROVE  LET u == Without(t, l)
         IN  /\ u \in Traversals /\ u.queue = t.queue \ {l}
             /\ u.way = t.way /\ u.head = t.head /\ u.fields = t.fields /\ u.cur = t.cur
             /\ u.pc = t.pc /\ u.at = t.at /\ u.called = t.called /\ u.seen = t.seen
             /\ u.origins = t.origins /\ u.err = t.err
BY DEF Traversals, Without

\* The node that is called back for, the first time.
LEMMA CallBackFields ==
  ASSUME NEW t \in Traversals, NEW l \in t.queue, l[3] \notin Called(t)
  PROVE  LET u == CallBack(t, l)
         IN  /\ u \in Traversals /\ l[3] \in Node /\ u.pc = "node" /\ u.at = l[3]
             /\ Called(u) = Called(t) \cup {l[3]} /\ Pending(u) = {l[3]}
             /\ u.queue = t.queue \ {l} /\ u.seen = t.seen
             /\ u.way = t.way /\ u.head = t.head /\ u.fields = t.fields /\ u.cur = t.cur
             /\ u.origins = t.origins /\ u.err = t.err
<1> DEFINE w == Without(t, l)
           n == l[3]
<1>1. n \in Node /\ t.called \in [Node -> {0, 1}] /\ t.called[n] = 0
  BY DEF Traversals, Arrows, Called
<1>2. /\ w \in Traversals /\ w.queue = t.queue \ {l}
      /\ w.way = t.way /\ w.head = t.head /\ w.fields = t.fields /\ w.cur = t.cur
      /\ w.called = t.called /\ w.seen = t.seen /\ w.origins = t.origins /\ w.err = t.err
  BY WithoutFields
<1>3. CallBack(t, l) = [w EXCEPT !.pc = "node", !.at = n, !.called = [t.called EXCEPT ![n] = 1]]
  <2>1. CallBack(t, l) = [w EXCEPT !.pc = "node", !.at = n,
                                   !.called = [w.called EXCEPT ![n] = w.called[n] + 1]]
    BY DEF CallBack
  <2>2. w.called[n] + 1 = 1
    BY <1>1, <1>2
  <2> HIDE DEF w, n
  <2> QED  BY <1>2, <2>1, <2>2
<1>4. [t.called EXCEPT ![n] = 1] \in [Node -> {0, 1}]
  BY <1>1
<1> HIDE DEF w
<1>5. LET u == CallBack(t, l)
      IN  /\ u \in Traversals /\ u.pc = "node" /\ u.at = n /\ u.called = [t.called EXCEPT ![n] = 1]
          /\ u.queue = w.queue /\ u.seen = w.seen /\ u.way = w.way /\ u.head = w.head
          /\ u.fields = w.fields /\ u.cur = w.cur /\ u.origins = w.origins /\ u.err = w.err
  BY <1>1, <1>2, <1>3, <1>4 DEF Traversals
<1>6. Called(CallBack(t, l)) = Called(t) \cup {n}
  BY <1>1, <1>5 DEF Called
<1> QED  BY <1>1, <1>2, <1>5, <1>6 DEF Pending

\* dfs() and the flat traversals pass over a node that they have visited.
LEMMA PassOverWalk ==
  ASSUME NEW t \in Traversals, Walk(t), t.way \in {"dfs", "flat"}, NEW l \in t.queue,
         l[3] \in t.seen
  PROVE  Walk(Without(t, l))
<1> DEFINE u == Without(t, l)
<1>1. /\ u.queue = t.queue \ {l} /\ u.way = t.way /\ u.head = t.head /\ u.fields = t.fields
      /\ u.called = t.called /\ u.seen = t.seen /\ u.pc = t.pc /\ u.at = t.at
  BY WithoutFields
<1> HIDE DEF u
<1>2. Met(u) = Met(t)
  BY <1>1 DEF Met, Ends
<1>3. Called(u) = Called(t) /\ Pending(u) = Pending(t) /\ ToCall(u) = ToCall(t)
  BY <1>1 DEF Called, Pending, ToCall
<1>4. Walk(u)
  BY <1>1, <1>2, <1>3 DEF Walk
<1> QED  BY <1>4 DEF u

LEMMA StepBfsWalk ==
  ASSUME NEW t \in Traversals, Walk(t), t.way = "bfs", t.pc = "loop", NEW l \in t.queue
  PROVE  /\ Walk(CallBack(t, l)) /\ l[3] \notin Called(t)
         /\ CallBack(t, l).seen = t.seen
<1> DEFINE u == CallBack(t, l)
           n == l[3]
<1>1. /\ t.seen = Called(t) \cup Ends(t.queue) /\ Called(t) \cap Ends(t.queue) = {}
      /\ n \in Ends(t.queue)
  BY DEF Walk, Ends
<1>2. /\ Called(u) = Called(t) \cup {n} /\ Pending(u) = {n} /\ Pending(t) = {}
      /\ u.queue = t.queue \ {l} /\ u.seen = t.seen
      /\ u.way = t.way /\ u.head = t.head /\ u.fields = t.fields
  BY <1>1, CallBackFields DEF Pending
\* No other link of the queue ends in this node.
<1>3. Ends(u.queue) = Ends(t.queue) \ {n}
  <2>1. \A m \in t.queue : m # l => m[3] # n
    <3>1. t.queue \subseteq {<<t.head, "head", t.head>>}
                             \cup {<<t.head, "next", k>> : k \in Node \ {t.head}}
      BY DEF Walk
    <3> QED  BY <3>1
  <2> HIDE DEF u
  <2> QED  BY <1>2, <2>1 DEF Ends
<1> HIDE DEF u
<1>4. Met(u) = t.seen /\ Met(t) = t.seen /\ ToCall(u) = ToCall(t)
  BY <1>1, <1>2, <1>3 DEF Met, ToCall
<1>5. u.seen = Called(u) \cup Ends(u.queue) /\ Called(u) \cap Ends(u.queue) = {}
  BY <1>1, <1>2, <1>3
<1>6. /\ u.queue \subseteq {<<t.head, "head", t.head>>}
                           \cup {<<t.head, "next", k>> : k \in Node \ {t.head}}
      /\ Met(t) \subseteq ToCall(t) /\ t.head \in Met(t)
      /\ \A m \in Called(t) : Ends(Links(m, t.fields)) \subseteq Met(t)
  <2>1. u.queue \subseteq t.queue
    BY <1>2
  <2> QED  BY <1>2, <2>1 DEF Walk
<1>7. Walk(u)
  <2>1. u.way = "bfs" /\ Pending(u) \subseteq Called(u) /\ Met(u) \subseteq ToCall(u) /\ u.head \in Met(u)
    BY <1>2, <1>4, <1>6
  <2>2. \A m \in Called(u) \ Pending(u) : Ends(Links(m, u.fields)) \subseteq Met(u)
    BY <1>2, <1>4, <1>6
  <2>3. u.queue \subseteq {<<u.head, "head", u.head>>}
                           \cup {<<u.head, "next", k>> : k \in Node \ {u.head}}
    BY <1>2, <1>6
  <2> QED  BY <1>5, <2>1, <2>2, <2>3 DEF Walk
<1> QED  BY <1>1, <1>2, <1>7 DEF u

SeeAndCall(t, l) == [CallBack(t, l) EXCEPT !.seen = @ \cup {l[3]}]

LEMMA StepDfsWalk ==
  ASSUME NEW t \in Traversals, Walk(t), t.way \in {"dfs", "flat"}, t.pc = "loop",
         NEW l \in t.queue, l[3] \notin t.seen
  PROVE  LET u == SeeAndCall(t, l)
         IN  /\ Walk(u) /\ u \in Traversals /\ u.cur = t.cur /\ u.seen = t.seen \cup {l[3]}
             /\ u.way = t.way /\ l[3] \in Node
<1> DEFINE u == SeeAndCall(t, l)
           v == CallBack(t, l)
           n == l[3]
<1>1. t.seen = Called(t) /\ n \notin Called(t) /\ n \in Ends(t.queue)
  BY DEF Walk, Ends
<1>2. /\ v \in Traversals /\ n \in Node /\ v.pc = "node" /\ v.at = n
      /\ Called(v) = Called(t) \cup {n} /\ v.queue = t.queue \ {l} /\ v.seen = t.seen
      /\ v.way = t.way /\ v.head = t.head /\ v.fields = t.fields /\ v.cur = t.cur
  BY <1>1, CallBackFields
<1>3. /\ u \in Traversals /\ u.seen = v.seen \cup {n} /\ u.pc = v.pc /\ u.at = v.at
      /\ u.called = v.called /\ u.queue = v.queue /\ u.way = v.way /\ u.head = v.head
      /\ u.fields = v.fields /\ u.cur = v.cur
  <2> HIDE DEF v
  <2> QED  BY <1>2 DEF SeeAndCall, Traversals, v
<1>4. /\ u.seen = t.seen \cup {n} /\ Called(u) = Called(t) \cup {n} /\ Pending(u) = {n}
      /\ Pending(t) = {} /\ u.queue = t.queue \ {l}
      /\ u.way = t.way /\ u.head = t.head /\ u.fields = t.fields
  <2> HIDE DEF u, v
  <2> QED  BY <1>2, <1>3 DEF Called, Pending
<1> HIDE DEF u, v
<1>5. Met(u) = Met(t) /\ ToCall(u) = ToCall(t)
  <2>1. Ends(t.queue) = Ends(u.queue) \cup {n}
    BY <1>4 DEF Ends
  <2> QED  BY <1>4, <2>1 DEF Met, ToCall
<1>6. /\ Met(t) \subseteq ToCall(t)
      /\ t.way = "flat" => ToCall(t) \subseteq Met(t)
      /\ t.way = "dfs" => /\ t.head \in Met(t)
                         /\ \A m \in Called(t) : Ends(Links(m, t.fields)) \subseteq Met(t)
  BY <1>4 DEF Walk
<1>7. Walk(u)
  <2>1. /\ u.seen = Called(u) /\ Pending(u) \subseteq Called(u) /\ Met(u) \subseteq ToCall(u)
        /\ u.way \in {"dfs", "flat"}
        /\ u.way = "flat" => ToCall(u) \subseteq Met(u)
    BY <1>1, <1>4, <1>5, <1>6
  <2>2. u.way = "dfs" =>
          /\ u.head \in Met(u)
          /\ \A m \in Called(u) \ Pending(u) : Ends(Links(m, u.fields)) \subseteq Met(u)
    <3>1. Called(u) \ Pending(u) = Called(t)
      BY <1>1, <1>4
    <3> QED  BY <1>4, <1>5, <1>6, <3>1
  <2>3. u.way # "bfs" /\ u.way # "verify"
    BY <2>1
  <2> QED  BY <2>1, <2>2, <2>3 DEF Walk
<1> QED  BY <1>2, <1>3, <1>4, <1>7 DEF u

LEMMA HeadWalk ==
  ASSUME NEW t \in Traversals, Walk(t), t.pc = "head"
  PROVE  LET u == [t EXCEPT !.pc = "loop"]
         IN  /\ Walk(u) /\ u \in Traversals /\ u.cur = t.cur /\ u.seen = t.seen /\ u.way = t.way
<1> DEFINE u == [t EXCEPT !.pc = "loop"]
<1>1. /\ u \in Traversals /\ u.pc = "loop" /\ u.cur = t.cur /\ u.seen = t.seen /\ u.way = t.way
      /\ u.queue = t.queue /\ u.head = t.head /\ u.fields = t.fields /\ u.called = t.called
  BY DEF Traversals
<1> HIDE DEF u
<1>2. /\ Called(u) = Called(t) /\ Met(u) = Met(t) /\ ToCall(u) = ToCall(t)
      /\ Pending(u) = {} /\ Pending(t) = {}
  BY <1>1 DEF Called, Met, ToCall, Pending
<1>3. Walk(u)
  BY <1>1, <1>2 DEF Walk
<1> QED  BY <1>1, <1>3 DEF u

\* After a callback: what follows after the node is queued, and by bfs visited, unless it
\* was visited before.
LEMMA QueueWalk ==
  ASSUME GraphTyped, NEW t \in Traversals, Walk(t), t.way # "verify", t.pc = "node",
         \A n \in Node : Trx_HasVisited(t.cur, label[n]) <=> n \in t.seen
  PROVE  LET u == Queue(t)
         IN  /\ Walk(u) /\ u \in Traversals /\ u.cur = t.cur /\ u.seen = t.seen \cup New(t)
             /\ New(t) \subseteq Node /\ u.way = t.way /\ u.head = t.head /\ u.fields = t.fields
             /\ u.pc = "loop" /\ Called(u) = Called(t)
<1> DEFINE u == Queue(t)
           more == CASE t.way = "bfs"  -> {<<t.head, "next", n>> : n \in New(t)}
                     [] t.way = "dfs"  -> Links(t.at, t.fields)
                     [] t.way = "flat" -> {}
           next == Ends(Links(t.at, t.fields))
<1>1. /\ t.way \in {"bfs", "dfs", "flat"} /\ t.at \in Node /\ t.head \in Node
      /\ t.at \in Called(t) /\ Pending(t) = {t.at} /\ next \subseteq Node
  BY DEF Traversals, Walk, Pending, GraphTyped, Ends, Links
<1>2. New(t) \subseteq Node /\ New(t) = IF t.way = "bfs" THEN next \ t.seen ELSE {}
  BY <1>1 DEF New
<1>3. more \in SUBSET Arrows
  <2>1. Links(t.at, t.fields) \in SUBSET Arrows
    BY DEF GraphTyped, Links, Arrows
  <2>2. {<<t.head, "next", n>> : n \in New(t)} \in SUBSET Arrows
    BY <1>1, <1>2 DEF Arrows
  <2> QED  BY <1>1, <2>1, <2>2
<1>4. /\ u \in Traversals /\ u.pc = "loop" /\ u.seen = t.seen \cup New(t)
      /\ u.queue = t.queue \cup more /\ u.cur = t.cur /\ u.way = t.way /\ u.head = t.head
      /\ u.fields = t.fields /\ u.called = t.called
  <2>1. u = [t EXCEPT !.pc = "loop", !.seen = @ \cup New(t), !.queue = @ \cup more]
    BY DEF Queue
  <2> HIDE DEF more, u
  <2> QED  BY <1>2, <1>3, <2>1 DEF Traversals
<1>5. /\ t.way = "bfs" => Ends(more) = New(t)
      /\ t.way = "dfs" => Ends(more) = next
      /\ t.way = "flat" => Ends(more) = {}
  <2>1. CASE t.way = "bfs"
    <3>1. more = {<<t.head, "next", n>> : n \in New(t)}
      BY <2>1
    <3> HIDE DEF more
    <3>2. ASSUME NEW n \in New(t) PROVE n \in Ends(more)
      <4>1. <<t.head, "next", n>> \in more /\ <<t.head, "next", n>>[3] = n
        BY <3>1
      <4> QED  BY <4>1, EndsFacts
    <3>3. ASSUME NEW l \in more PROVE l[3] \in New(t)
      BY <3>1
    <3>4. Ends(more) = New(t)
      BY <3>2, <3>3 DEF Ends
    <3> QED  BY <2>1, <3>4
  <2>2. CASE t.way = "dfs"
    <3>1. more = Links(t.at, t.fields)
      BY <2>2
    <3> QED  BY <2>2, <3>1
  <2>3. CASE t.way = "flat"
    <3>1. more = {}
      BY <2>3
    <3> HIDE DEF more
    <3> QED  BY <2>3, <3>1 DEF Ends
  <2> QED  BY <1>1, <2>1, <2>2, <2>3
<1> HIDE DEF u, more, next
<1>6. /\ Ends(u.queue) = Ends(t.queue) \cup Ends(more) /\ Called(u) = Called(t)
      /\ Pending(u) = {} /\ ToCall(u) = ToCall(t)
      /\ Met(u) = Met(t) \cup Ends(more) \cup New(t)
  BY <1>4 DEF Ends, Called, Pending, ToCall, Met
<1>7. Met(t) \subseteq ToCall(t) /\ Called(t) \subseteq t.seen
  BY <1>1 DEF Walk
<1>8. t.way \in {"bfs", "dfs"} => next \subseteq ToCall(t)
  <2> SUFFICES ASSUME t.way \in {"bfs", "dfs"} PROVE next \subseteq ToCall(t)
    OBVIOUS
  <2>1. ToCall(t) = Reach(t.head, t.fields) /\ t.at \in ToCall(t)
    BY <1>1, <1>7 DEF ToCall, Met
  <2> QED  BY <1>1, <2>1, ReachFacts DEF next
<1>9. Met(u) \subseteq ToCall(u)
  BY <1>1, <1>2, <1>5, <1>6, <1>7, <1>8
<1>10. t.way = "flat" => ToCall(u) \subseteq Met(u)
  BY <1>6 DEF Walk
<1>11. ASSUME t.way \in {"bfs", "dfs"}
       PROVE  /\ u.head \in Met(u)
              /\ \A n \in Called(u) : Ends(Links(n, u.fields)) \subseteq Met(u)
  <2>1. u.head \in Met(u)
    BY <1>4, <1>6, <1>11 DEF Walk
  <2>2. next \subseteq Met(u)
    BY <1>2, <1>5, <1>6, <1>11 DEF Met
  <2>3. \A n \in Called(t) \ {t.at} : Ends(Links(n, t.fields)) \subseteq Met(t)
    BY <1>1, <1>11 DEF Walk
  <2> QED  BY <1>4, <1>6, <2>1, <2>2, <2>3 DEF next
<1>12. ASSUME t.way = "bfs"
       PROVE  /\ u.seen = Called(u) \cup Ends(u.queue) /\ Called(u) \cap Ends(u.queue) = {}
              /\ u.queue \subseteq {<<u.head, "head", u.head>>}
                                    \cup {<<u.head, "next", n>> : n \in Node \ {u.head}}
  <2>1. /\ t.seen = Called(t) \cup Ends(t.queue) /\ Called(t) \cap Ends(t.queue) = {}
        /\ t.queue \subseteq {<<t.head, "head", t.head>>}
                              \cup {<<t.head, "next", n>> : n \in Node \ {t.head}}
        /\ t.head \in t.seen
    BY <1>12 DEF Walk, Met
  <2>2. more \subseteq {<<t.head, "next", n>> : n \in Node \ {t.head}}
    BY <1>2, <1>12, <2>1 DEF more
  <2>3. u.seen = Called(u) \cup Ends(u.queue) /\ Called(u) \cap Ends(u.queue) = {}
    <3>1. /\ u.seen = t.seen \cup New(t) /\ Ends(u.queue) = Ends(t.queue) \cup New(t)
          /\ Called(u) = Called(t) /\ New(t) \cap t.seen = {}
      BY <1>2, <1>4, <1>5, <1>6, <1>12
    <3> QED  BY <2>1, <3>1
  <2> QED  BY <1>4, <2>1, <2>2, <2>3
<1>13. t.way \in {"dfs", "flat"} => u.seen = Called(u)
  BY <1>2, <1>4, <1>6 DEF Walk
<1>14. Walk(u)
  BY <1>1, <1>4, <1>6, <1>9, <1>10, <1>11, <1>12, <1>13 DEF Walk
<1> QED  BY <1>2, <1>4, <1>6, <1>14 DEF u

-----------------------------------------------------------------------------
(* What a step leaves alone *)

LEMMA SameGraph ==
  ASSUME graph' = graph
  PROVE  /\ GraphTyped => GraphTyped'
         /\ \A t : Walk(t) => Walk(t)'
         /\ \A h, fields : Reach(h, fields)' = Reach(h, fields)
         /\ \A n : Parents(n)' = Parents(n) /\ Origins(n)' = Origins(n)
<1>1. \A n, fields : Links(n, fields)' = Links(n, fields)
  BY DEF Links
<1>2. \A h, fields : Reach(h, fields)' = Reach(h, fields)
  BY <1>1 DEF Reach, Ends
<1>3. \A t : ToCall(t)' = ToCall(t)
  BY <1>1, <1>2 DEF ToCall, Ends
<1>4. ASSUME NEW t, Walk(t) PROVE Walk(t)'
  BY <1>1, <1>3, <1>4 DEF Walk, Met, Called, Pending, Ends
<1> QED  BY <1>2, <1>4 DEF GraphTyped, Parents, Origins

LEMMA SameWalks ==
  ASSUME graph' = graph, \A i \in 1 .. Len(stack') : Walk(stack'[i])
  PROVE  Walks'
<1>1. \A n, fields : Links(n, fields)' = Links(n, fields)
  BY DEF Links
<1>2. \A h, fields : Reach(h, fields)' = Reach(h, fields)
  BY <1>1 DEF Reach, Ends
<1>3. \A t : ToCall(t)' = ToCall(t)
  BY <1>1, <1>2 DEF ToCall, Ends
<1>4. ASSUME NEW i \in 1 .. Len(stack') PROVE Walk(stack[i])'
  BY <1>1, <1>3, <1>4 DEF Walk, Met, Called, Pending, Ends
<1> QED  BY <1>4 DEF Walks, Depth

LEMMA SameVerified ==
  ASSUME detachable \subseteq Node, Verified, graph' = graph,
         detachable' = detachable \/ detachable' = {}
  PROVE  detachable' \subseteq Node /\ Verified'
BY SameGraph DEF Verified

\* While other code may run, or an ordinary callback returns, nothing is being verified.
LEMMA NoVerify ==
  ASSUME Shared, Verifies,
         Outside \/ (stack # <<>> /\ Top.pc \in {"head", "node"} /\ ~Verifying)
  PROVE  \A i \in 1 .. Depth : stack[i].way # "verify"
<1> SUFFICES ASSUME NEW i \in 1 .. Depth, stack[i].way = "verify" PROVE FALSE
  OBVIOUS
<1>1. i = 1 /\ Depth \in {1, 2} /\ stack[1].pc = "loop" /\ stack # <<>>
  <2>1. i = 1 /\ Depth <= 2 /\ stack[1].pc = "loop"
    BY DEF Verifies, Approves
  <2>2. stack \in Seq(Traversals) /\ Depth = Len(stack) /\ Len(stack) \in Nat
    BY DEF Shared, StackTyped, Depth
  <2> QED  BY <2>1, <2>2
<1>2. Top.pc \in {"head", "node"} /\ ~Verifying
  BY <1>1 DEF Outside
<1> QED  BY <1>1, <1>2 DEF Top, Verifying

LEMMA NothingVerified ==
  ASSUME Len(stack') \in Nat, \A i \in 1 .. Len(stack') : stack'[i].way # "verify"
  PROVE  Verifies'
BY DEF Verifies, Depth

\* The innermost traversal goes on, and only its colour is handed out.
LEMMA TopStep ==
  ASSUME IInv, stack # <<>>, UNCHANGED <<graph, trx, detachable>>,
         NEW t \in Traversals, stack' = [stack EXCEPT ![Depth] = t], t.cur = Top.cur, Walk(t),
         label' \in [Node -> Labels], \A n \in Node : Fitting(label'[n], trx),
         Top.seen \subseteq t.seen,
         \A d \in Colours : d.id = trx.id => \A n \in Node :
           Trx_HasVisited(d, label'[n]) <=>
             Trx_HasVisited(d, label[n]) \/ (d.cl = Top.cur.cl /\ n \in t.seen),
         Verifies'
  PROVE  IInv'
<1>1. /\ Shared /\ stack \in Seq(Traversals) /\ Depth \in Nat \ {0} /\ Depth = Len(stack)
      /\ Top = stack[Depth] /\ Depth \in 1 .. Depth
  BY DEF IInv, Shared, StackTyped, Depth, Top
<1>2. /\ stack' \in Seq(Traversals) /\ Len(stack') = Depth /\ stack'[Depth] = t
      /\ \A i \in 1 .. Depth : i # Depth => stack'[i] = stack[i]
  BY <1>1
<1>3. ASSUME NEW i \in 1 .. Depth, NEW n \in Node
      PROVE  Trx_HasVisited(stack[i].cur, label'[n]) <=> n \in stack'[i].seen
  <2>1. /\ stack[i].cur \in Colours /\ stack[i].cur.id = trx.id
        /\ stack[i].cur.cl = Top.cur.cl => i = Depth
        /\ Trx_HasVisited(stack[i].cur, label[n]) <=> n \in stack[i].seen
    <3>1. stack[i] \in Traversals
      BY <1>1
    <3>2. stack[i].cur \in Colours
      BY <3>1 DEF Traversals
    <3>3. /\ stack[i].cur.id = trx.id
          /\ stack[i].cur.cl = stack[Depth].cur.cl => i = Depth
      BY <1>1 DEF Shared, StackTyped
    <3>4. Trx_HasVisited(stack[i].cur, label[n]) <=> n \in stack[i].seen
      BY <1>1 DEF Shared, LabelsAgree
    <3> QED  BY <1>1, <3>2, <3>3, <3>4
  <2>2. CASE i = Depth
    BY <1>1, <1>2, <2>1, <2>2
  <2>3. CASE i # Depth
    BY <1>1, <1>2, <2>1, <2>3
  <2> QED  BY <2>2, <2>3
<1>4. Shared'
  BY <1>1, <1>2, <1>3, SameShared
<1>5. \A i \in 1 .. Len(stack') : Walk(stack'[i])
  BY <1>1, <1>2 DEF IInv, Walks
<1> QED  BY <1>4, <1>5, SameWalks, SameVerified DEF IInv

\* A traversal begins, in a callback of another or by itself.
LEMMA PushStep ==
  ASSUME IInv, MayBegin, UNCHANGED <<graph, detachable>>,
         trx' = [trx EXCEPT !.cl = @ \cup {NewTrx.cl}],
         NEW t \in Traversals, t.cur = NewTrx, Walk(t), t.way # "verify", stack' = Append(stack, t),
         label' \in [Node -> Labels], \A n \in Node : Fitting(label'[n], trx'),
         \A d \in Colours : d.id = trx.id => \A n \in Node :
           Trx_HasVisited(d, label'[n]) <=>
             Trx_HasVisited(d, label[n]) \/ (d.cl = NewTrx.cl /\ n \in t.seen)
  PROVE  IInv'
<1>1. Shared'
  BY PushShared DEF IInv
<1>2. /\ stack \in Seq(Traversals) /\ Len(stack') = Len(stack) + 1 /\ Depth = Len(stack)
      /\ Len(stack) \in Nat /\ stack'[Len(stack) + 1] = t
      /\ \A i \in 1 .. Len(stack) : stack'[i] = stack[i]
  BY DEF IInv, Shared, StackTyped, Depth
<1>3. \A i \in 1 .. Len(stack') : i \in 1 .. Len(stack) \/ i = Len(stack) + 1
  BY <1>2
<1>4. Walks'
  BY <1>2, <1>3, SameWalks DEF IInv, Walks
<1>5. \A i \in 1 .. Depth : stack[i].way # "verify"
  BY NoVerify DEF IInv, MayBegin
<1>6. Verifies'
  BY <1>2, <1>3, <1>5, NothingVerified
<1> QED  BY <1>1, <1>4, <1>6, SameVerified DEF IInv

-----------------------------------------------------------------------------
(* The steps *)

LEMMA InitIInv == Init => IInv
<1> SUFFICES ASSUME Init PROVE IInv
  OBVIOUS
<1>1. GraphTyped
  BY SizeAssumption DEF Init, GraphTyped
<1>2. TrxTyped
  <2>1. {} = 0 .. 0 - 1
    OBVIOUS
  <2> QED  BY <2>1 DEF Init, TrxTyped
<1>3. LabelsTyped
  BY DEF Init, LabelsTyped, Fresh, Labels
<1>4. stack = <<>> /\ Depth = 0 /\ trx.cl = {} /\ 1 .. 0 = {}
  BY DEF Init, Depth
<1>5. StackTyped /\ LabelsAgree /\ Walks
  BY <1>4 DEF StackTyped, LabelsAgree, Walks
<1>6. Verifies /\ detachable \subseteq Node /\ Verified
  BY <1>4 DEF Init, Verifies, Verified, Nobody
<1> QED  BY <1>1, <1>2, <1>3, <1>5, <1>6 DEF IInv, Shared

\* A traversal of which no more is said than that it begins, and what it may begin with.
IsNew(t, way, head, fields) ==
  /\ t \in Traversals /\ Called(t) = {} /\ t.cur = NewTrx /\ t.way = way /\ t.head = head
  /\ t.fields = fields /\ t.pc = "head" /\ t.origins = {} /\ ~t.err

LEMMA NewTyped ==
  ASSUME TrxTyped, NEW way \in {"bfs", "dfs", "flat", "verify"}, NEW head \in Node,
         NEW fields \in SUBSET {"children", "edge"}
  PROVE  LET t == NewTraversal(way, head, fields)
         IN  IsNew(t, way, head, fields) /\ t.queue = {} /\ t.seen = {}
<1> DEFINE none == [n \in Node |-> 0]
<1>1. NewTrx \in Colours /\ none \in [Node -> {0, 1}] /\ {n \in Node : none[n] = 1} = {}
  BY NextColour
<1>2. NewTraversal(way, head, fields) =
        [way |-> way, head |-> head, fields |-> fields, cur |-> NewTrx, pc |-> "head",
         at |-> head, queue |-> {}, called |-> none, seen |-> {}, origins |-> {}, err |-> FALSE]
  BY DEF NewTraversal
<1> HIDE DEF none
<1> QED  BY <1>1, <1>2 DEF Traversals, Called, IsNew

LEMMA NewQueueTyped ==
  ASSUME NEW t, NEW way, NEW head, NEW fields, IsNew(t, way, head, fields), t.seen = {},
         NEW queue \in SUBSET Arrows
  PROVE  LET u == [t EXCEPT !.queue = queue]
         IN  IsNew(u, way, head, fields) /\ u.queue = queue /\ u.seen = {}
BY DEF IsNew, Traversals, Called

LEMMA LinksTyped ==
  ASSUME GraphTyped, NEW n \in Node, NEW fields
  PROVE  Links(n, fields) \in SUBSET Arrows /\ {<<n, "head", n>>} \in SUBSET Arrows
BY DEF GraphTyped, Links, Arrows

\* A label that fits the transaction fits it with one more colour.
LEMMA FitsMore ==
  ASSUME TrxTyped, LabelsTyped, trx' = [trx EXCEPT !.cl = @ \cup {NewTrx.cl}]
  PROVE  /\ trx'.id = trx.id /\ trx'.id \in Nat /\ NewTrx.cl \in trx'.cl
         /\ NewTrx \in Colours /\ NewTrx.id = trx.id
         /\ \A n \in Node : Fitting(label[n], trx) /\ Fitting(label[n], trx')
         /\ \A l : Fitting(l, trx) => Fitting(l, trx')
BY NextColour DEF TrxTyped, LabelsTyped, Fitting

LEMMA BeginBfsIInv ==
  ASSUME IInv, NEW head \in Node, NEW fields \in Fields, BeginBfs(head, fields)
  PROVE  IInv'
<1> DEFINE t == [NewTraversal("bfs", head, fields) EXCEPT !.queue = {<<head, "head", head>>},
                                                          !.seen = {head}]
<1>1. fields \in SUBSET {"children", "edge"} /\ GraphTyped /\ TrxTyped /\ LabelsTyped
  BY SizeAssumption DEF IInv, Shared
<1>2. /\ t \in Traversals /\ Called(t) = {} /\ t.cur = NewTrx /\ t.way = "bfs" /\ t.head = head
      /\ t.queue = {<<head, "head", head>>} /\ t.seen = {head} /\ t.pc = "head"
  <2>1. IsNew(NewTraversal("bfs", head, fields), "bfs", head, fields)
    BY <1>1, NewTyped
  <2>2. {<<head, "head", head>>} \in SUBSET Arrows /\ {head} \in SUBSET Node
    BY <1>1, LinksTyped
  <2>3. IsNew(t, "bfs", head, fields) /\ t.queue = {<<head, "head", head>>} /\ t.seen = {head}
    <3> DEFINE b == NewTraversal("bfs", head, fields)
    <3>1. IsNew(b, "bfs", head, fields)
      BY <2>1
    <3> HIDE DEF b
    <3>2. LET u == [b EXCEPT !.queue = {<<head, "head", head>>}, !.seen = {head}]
          IN  /\ IsNew(u, "bfs", head, fields) /\ u.queue = {<<head, "head", head>>}
              /\ u.seen = {head}
      BY <2>2, <3>1 DEF IsNew, Traversals, Called
    <3> QED  BY <3>2 DEF b
  <2> HIDE DEF t
  <2> QED  BY <2>3 DEF IsNew
<1>3. /\ MayBegin /\ UNCHANGED <<graph, detachable>> /\ stack' = Append(stack, t)
      /\ trx' = [trx EXCEPT !.cl = @ \cup {NewTrx.cl}]
      /\ label' = [label EXCEPT ![head] = Trx_Visit(NewTrx, Trx_Sync(@))]
  <2>1. NewTraversal("bfs", head, fields).cur = NewTrx
    BY DEF NewTraversal
  <2> QED  BY <2>1 DEF BeginBfs
<1> HIDE DEF t
<1>4. Walk(t)
  BY <1>1, <1>2, NewWalk
<1>5. /\ trx'.id = trx.id /\ trx'.id \in Nat /\ NewTrx.cl \in trx'.cl
      /\ NewTrx \in Colours /\ NewTrx.id = trx.id
      /\ \A n \in Node : Fitting(label[n], trx) /\ Fitting(label[n], trx')
      /\ \A l : Fitting(l, trx) => Fitting(l, trx')
  BY <1>1, <1>3, FitsMore
<1> DEFINE l == Trx_Sync(label[head])
<1>6. Fitting(l, trx') /\ \A d \in Colours : d.id = trx.id =>
                            (Trx_HasVisited(d, l) <=> Trx_HasVisited(d, label[head]))
  BY <1>5, SyncLabel
<1>7. label' = [label EXCEPT ![head] = Trx_Visit(NewTrx, l)] /\ label \in [Node -> Labels]
  BY <1>1, <1>3 DEF LabelsTyped
<1> HIDE DEF l
<1>8. Fitting(Trx_Visit(NewTrx, l), trx')
  BY <1>5, <1>6, VisitLabel
<1>9. ASSUME NEW d \in Colours, d.id = trx.id
      PROVE  Trx_HasVisited(d, Trx_Visit(NewTrx, l)) <=>
               Trx_HasVisited(d, label[head]) \/ d.cl = NewTrx.cl
  BY <1>5, <1>6, <1>9, VisitLabel
<1>10. /\ label' \in [Node -> Labels] /\ \A n \in Node : Fitting(label'[n], trx')
       /\ \A d \in Colours : d.id = trx.id => \A n \in Node :
            Trx_HasVisited(d, label'[n]) <=>
              Trx_HasVisited(d, label[n]) \/ (d.cl = NewTrx.cl /\ n \in t.seen)
  <2>1. Trx_Visit(NewTrx, l) \in Labels
    BY <1>8 DEF Fitting
  <2> QED  BY <1>2, <1>5, <1>7, <1>8, <1>9, <2>1
<1> QED  BY <1>2, <1>3, <1>4, <1>10, PushStep

LEMMA BeginDfsIInv == ASSUME IInv, NEW head \in Node, BeginDfs(head) PROVE IInv'
<1> DEFINE t == [NewTraversal("dfs", head, {"children"}) EXCEPT !.queue = {<<head, "head", head>>}]
<1>1. GraphTyped /\ TrxTyped /\ LabelsTyped
  BY DEF IInv, Shared
<1>2. /\ t \in Traversals /\ Called(t) = {} /\ t.cur = NewTrx /\ t.way = "dfs" /\ t.head = head
      /\ t.queue = {<<head, "head", head>>} /\ t.seen = {} /\ t.pc = "head"
  <2> DEFINE b == NewTraversal("dfs", head, {"children"})
  <2>1. IsNew(b, "dfs", head, {"children"}) /\ b.seen = {}
    BY <1>1, NewTyped
  <2>2. IsNew(t, "dfs", head, {"children"}) /\ t.queue = {<<head, "head", head>>} /\ t.seen = {}
    BY <1>1, <2>1, NewQueueTyped, LinksTyped
  <2> HIDE DEF t
  <2> QED  BY <2>2 DEF IsNew
<1>3. /\ MayBegin /\ UNCHANGED <<graph, detachable>> /\ stack' = Append(stack, t)
      /\ trx' = [trx EXCEPT !.cl = @ \cup {NewTrx.cl}]
      /\ label' = [label EXCEPT ![head] = Trx_Sync(@)]
  <2> DEFINE b == NewTraversal("dfs", head, {"children"})
  <2>1. b.cur = NewTrx
    BY DEF NewTraversal
  <2> QED  BY <2>1 DEF BeginDfs
<1> HIDE DEF t
<1>4. Walk(t)
  BY <1>1, <1>2, NewWalk
<1>5. /\ trx'.id = trx.id /\ trx'.id \in Nat /\ NewTrx \in Colours /\ NewTrx.id = trx.id
      /\ \A n \in Node : Fitting(label[n], trx) /\ Fitting(label[n], trx')
      /\ \A l : Fitting(l, trx) => Fitting(l, trx')
  BY <1>1, <1>3, FitsMore
<1>6. /\ Fitting(Trx_Sync(label[head]), trx') /\ Trx_Sync(label[head]) \in Labels
      /\ \A d \in Colours : d.id = trx.id =>
           (Trx_HasVisited(d, Trx_Sync(label[head])) <=> Trx_HasVisited(d, label[head]))
  <2>1. Fitting(Trx_Sync(label[head]), trx)
    BY <1>5, SyncLabel
  <2>2. \A d \in Colours : d.id = trx.id =>
           (Trx_HasVisited(d, Trx_Sync(label[head])) <=> Trx_HasVisited(d, label[head]))
    BY <1>5, SyncLabel
  <2> QED  BY <1>5, <2>1, <2>2 DEF Fitting
<1>7. /\ label' \in [Node -> Labels] /\ \A n \in Node : Fitting(label'[n], trx')
      /\ \A d \in Colours : d.id = trx.id => \A n \in Node :
           Trx_HasVisited(d, label'[n]) <=>
             Trx_HasVisited(d, label[n]) \/ (d.cl = NewTrx.cl /\ n \in t.seen)
  BY <1>1, <1>2, <1>3, <1>5, <1>6 DEF LabelsTyped
<1> QED  BY <1>2, <1>3, <1>4, <1>7, PushStep

LEMMA BeginFlatIInv ==
  ASSUME IInv, NEW head \in Node, NEW fields \in Fields, BeginFlat(head, fields)
  PROVE  IInv'
<1> DEFINE t == [NewTraversal("flat", head, fields) EXCEPT !.queue = Links(head, fields)]
<1>1. fields \in SUBSET {"children", "edge"} /\ GraphTyped /\ TrxTyped /\ LabelsTyped
  BY SizeAssumption DEF IInv, Shared
<1>2. /\ t \in Traversals /\ Called(t) = {} /\ t.cur = NewTrx /\ t.way = "flat" /\ t.head = head
      /\ t.fields = fields /\ t.queue = Links(head, fields) /\ t.seen = {} /\ t.pc = "head"
  <2> DEFINE b == NewTraversal("flat", head, fields)
  <2>1. IsNew(b, "flat", head, fields) /\ b.seen = {}
    BY <1>1, NewTyped
  <2>2. IsNew(t, "flat", head, fields) /\ t.queue = Links(head, fields) /\ t.seen = {}
    BY <1>1, <2>1, NewQueueTyped, LinksTyped
  <2> HIDE DEF t
  <2> QED  BY <2>2 DEF IsNew
<1>3. /\ MayBegin /\ UNCHANGED <<graph, label, detachable>> /\ stack' = Append(stack, t)
      /\ trx' = [trx EXCEPT !.cl = @ \cup {NewTrx.cl}]
  <2>1. NewTraversal("flat", head, fields).cur = NewTrx
    BY DEF NewTraversal
  <2> QED  BY <2>1 DEF BeginFlat
<1> HIDE DEF t
<1>4. Walk(t)
  BY <1>1, <1>2, NewWalk
<1>5. \A n \in Node : Fitting(label[n], trx')
  BY <1>1, <1>3, FitsMore
<1> QED  BY <1>1, <1>2, <1>3, <1>4, <1>5, PushStep DEF LabelsTyped

LEMMA TopFacts ==
  ASSUME Shared, stack # <<>>
  PROVE  /\ stack \in Seq(Traversals) /\ Depth = Len(stack) /\ Depth \in Nat \ {0}
         /\ Depth \in 1 .. Depth /\ Top = stack[Depth] /\ Top \in Traversals
         /\ Top.cur \in Colours /\ Top.cur.id = trx.id /\ Top.cur.cl \in trx.cl
         /\ \A n \in Node : Trx_HasVisited(Top.cur, label[n]) <=> n \in Top.seen
         /\ trx.id \in Nat /\ label \in [Node -> Labels] /\ \A n \in Node : Fitting(label[n], trx)
<1>1. /\ stack \in Seq(Traversals) /\ Depth = Len(stack) /\ Depth \in Nat \ {0}
      /\ Depth \in 1 .. Depth /\ Top = stack[Depth]
  BY DEF Shared, StackTyped, Depth, Top
<1>2. Top \in Traversals /\ Top.cur \in Colours
  <2>1. Top \in Traversals
    BY <1>1
  <2> QED  BY <2>1 DEF Traversals
<1>3. Top.cur.id = trx.id /\ Top.cur.cl \in trx.cl
  BY <1>1 DEF Shared, StackTyped
<1>4. \A n \in Node : Trx_HasVisited(Top.cur, label[n]) <=> n \in Top.seen
  BY <1>1 DEF Shared, LabelsAgree
<1>5. trx.id \in Nat /\ label \in [Node -> Labels] /\ \A n \in Node : Fitting(label[n], trx)
  BY FitsAll DEF Shared, TrxTyped, LabelsTyped
<1> QED  BY <1>1, <1>2, <1>3, <1>4, <1>5

\* Only the inner traversal of a verification goes on, until it has come to its end.
LEMMA TopVerifies ==
  ASSUME Shared, Verifies, graph' = graph, stack # <<>>, NEW t \in Traversals,
         stack' = [stack EXCEPT ![Depth] = t], Top.way # "verify", t.way = Top.way,
         Depth = 2 /\ stack[1].way = "verify" => Inner(stack[1], t)
  PROVE  Verifies'
<1>1. /\ stack \in Seq(Traversals) /\ Depth = Len(stack) /\ Depth \in Nat \ {0}
      /\ Top = stack[Depth]
  BY TopFacts
<1>2. /\ Depth' = Depth /\ stack'[Depth] = t
      /\ \A i \in 1 .. Depth : i # Depth => stack'[i] = stack[i]
  BY <1>1 DEF Depth
<1>3. ASSUME NEW i \in 1 .. Depth, stack'[i].way = "verify"
      PROVE  i = 1 /\ Depth <= 2 /\ Approves(stack[i])'
  <2>1. i # Depth /\ stack'[i] = stack[i]
    BY <1>1, <1>2, <1>3
  <2>2. i = 1 /\ Depth <= 2 /\ Approves(stack[i])
    BY <1>3, <2>1 DEF Verifies
  <2>3. Approves(stack'[i])
    BY <2>1, <2>2
  <2> QED  BY <2>2, <2>3, SameGraph DEF Approves
<1>4. Depth = 2 /\ stack'[1].way = "verify" => Inner(stack'[1], stack'[2])
  <2> SUFFICES ASSUME Depth = 2, stack'[1].way = "verify" PROVE Inner(stack'[1], stack'[2])
    OBVIOUS
  <2>1. stack'[1] = stack[1] /\ stack'[2] = t
    BY <1>2
  <2> QED  BY <2>1
<1>5. Depth = 1 => stack'[1].way # "verify"
  BY <1>1, <1>2
<1> QED  BY <1>2, <1>3, <1>4, <1>5 DEF Verifies, Inner, Called, Pending

\* The label of one node that the innermost traversal visits.
LEMMA VisitOne ==
  ASSUME Shared, stack # <<>>, NEW n \in Node,
         label' = [label EXCEPT ![n] = Trx_Visit(Top.cur, @)]
  PROVE  /\ label' \in [Node -> Labels] /\ \A m \in Node : Fitting(label'[m], trx)
         /\ \A d \in Colours : d.id = trx.id => \A m \in Node :
              Trx_HasVisited(d, label'[m]) <=>
                Trx_HasVisited(d, label[m]) \/ (d.cl = Top.cur.cl /\ m = n)
<1>1. /\ Top.cur \in Colours /\ Top.cur.id = trx.id /\ Top.cur.cl \in trx.cl
      /\ trx.id \in Nat /\ label \in [Node -> Labels] /\ \A m \in Node : Fitting(label[m], trx)
  BY TopFacts
<1>2. Fitting(Trx_Visit(Top.cur, label[n]), trx)
  BY <1>1, VisitLabel
<1>3. \A d \in Colours : d.id = trx.id =>
        (Trx_HasVisited(d, Trx_Visit(Top.cur, label[n])) <=>
           Trx_HasVisited(d, label[n]) \/ d.cl = Top.cur.cl)
  BY <1>1, VisitLabel
<1>4. Trx_Visit(Top.cur, label[n]) \in Labels
  BY <1>2 DEF Fitting
<1> QED  BY <1>1, <1>2, <1>3, <1>4

LEMMA StepIInv == ASSUME IInv, Step PROVE IInv'
<1>1. /\ Shared /\ Verifies /\ GraphTyped /\ stack # <<>> /\ Top.pc = "loop"
      /\ UNCHANGED <<graph, trx, detachable>>
  BY DEF IInv, Shared, Step
<1>2. /\ stack \in Seq(Traversals) /\ Depth = Len(stack) /\ Depth \in Nat \ {0}
      /\ Depth \in 1 .. Depth /\ Top = stack[Depth] /\ Top \in Traversals
      /\ Top.cur \in Colours /\ Top.cur.id = trx.id /\ Top.cur.cl \in trx.cl
      /\ \A n \in Node : Trx_HasVisited(Top.cur, label[n]) <=> n \in Top.seen
      /\ label \in [Node -> Labels] /\ \A n \in Node : Fitting(label[n], trx)
  BY <1>1, TopFacts
<1>3. Walk(Top)
  BY <1>2 DEF IInv, Walks
\* What the innermost traversal has seen, its label says already.
<1>4. \A d \in Colours : d.id = trx.id => \A n \in Node :
        Trx_HasVisited(d, label[n]) <=>
          Trx_HasVisited(d, label[n]) \/ (d.cl = Top.cur.cl /\ n \in Top.seen)
  BY <1>2 DEF Trx_HasVisited
<1>5. PICK l \in Top.queue :
        \/ /\ Top.way = "bfs"
           /\ stack' = [stack EXCEPT ![Depth] = CallBack(Top, l)] /\ UNCHANGED label
        \/ /\ Top.way \in {"dfs", "flat"} /\ ~Trx_HasVisited(Top.cur, label[l[3]])
           /\ stack' = [stack EXCEPT ![Depth] = SeeAndCall(Top, l)]
           /\ label' = [label EXCEPT ![l[3]] = Trx_Visit(Top.cur, @)]
        \/ /\ Top.way \in {"dfs", "flat"} /\ Trx_HasVisited(Top.cur, label[l[3]])
           /\ stack' = [stack EXCEPT ![Depth] = Without(Top, l)] /\ UNCHANGED label
  BY DEF Step, CallBack, SeeAndCall, Without
<1>6. l[3] \in Node
  BY <1>2 DEF Traversals, Arrows
<1>7. CASE /\ Top.way = "bfs"
           /\ stack' = [stack EXCEPT ![Depth] = CallBack(Top, l)] /\ UNCHANGED label
  <2> DEFINE t == CallBack(Top, l)
  <2>1. Walk(t) /\ l[3] \notin Called(Top) /\ t.seen = Top.seen
    BY <1>1, <1>2, <1>3, <1>7, StepBfsWalk
  <2>2. /\ t \in Traversals /\ t.way = Top.way /\ t.cur = Top.cur /\ t.head = Top.head
        /\ t.fields = Top.fields /\ t.pc = "node"
        /\ Called(t) = Called(Top) \cup {l[3]} /\ Pending(t) = {l[3]}
    BY <1>2, <2>1, CallBackFields
  <2> HIDE DEF t
  <2>3. Depth = 2 /\ stack[1].way = "verify" => Inner(stack[1], t)
    <3> SUFFICES ASSUME Depth = 2, stack[1].way = "verify" PROVE Inner(stack[1], t)
      OBVIOUS
    <3>1. Inner(stack[1], Top)
      BY <1>1, <1>2 DEF Verifies
    <3>2. Pending(Top) = {}
      BY <1>1 DEF Pending
    <3> QED  BY <2>1, <2>2, <3>1, <3>2 DEF Inner
  <2>4. Verifies'
    BY <1>1, <1>7, <2>2, <2>3, TopVerifies DEF t
  <2> QED  BY <1>1, <1>2, <1>4, <1>7, <2>1, <2>2, <2>4, TopStep DEF t
<1>8. CASE /\ Top.way \in {"dfs", "flat"} /\ ~Trx_HasVisited(Top.cur, label[l[3]])
           /\ stack' = [stack EXCEPT ![Depth] = SeeAndCall(Top, l)]
           /\ label' = [label EXCEPT ![l[3]] = Trx_Visit(Top.cur, @)]
  <2> DEFINE t == SeeAndCall(Top, l)
  <2>1. /\ Walk(t) /\ t \in Traversals /\ t.cur = Top.cur /\ t.seen = Top.seen \cup {l[3]}
        /\ t.way = Top.way
    BY <1>1, <1>2, <1>3, <1>6, <1>8, StepDfsWalk
  <2> HIDE DEF t
  <2>2. Depth = 2 /\ stack[1].way = "verify" => Inner(stack[1], t)
    BY <1>1, <1>2, <1>8 DEF Verifies, Inner
  <2>3. Verifies'
    BY <1>1, <1>8, <2>1, <2>2, TopVerifies DEF t
  <2>4. /\ label' \in [Node -> Labels] /\ \A m \in Node : Fitting(label'[m], trx)
        /\ \A d \in Colours : d.id = trx.id => \A m \in Node :
             Trx_HasVisited(d, label'[m]) <=>
               Trx_HasVisited(d, label[m]) \/ (d.cl = Top.cur.cl /\ m = l[3])
    BY <1>1, <1>6, <1>8, VisitOne
  <2>5. \A d \in Colours : d.id = trx.id => \A m \in Node :
          Trx_HasVisited(d, label'[m]) <=>
            Trx_HasVisited(d, label[m]) \/ (d.cl = Top.cur.cl /\ m \in t.seen)
    BY <1>4, <2>1, <2>4
  <2> QED  BY <1>1, <1>8, <2>1, <2>3, <2>4, <2>5, TopStep DEF t
<1>9. CASE /\ Top.way \in {"dfs", "flat"} /\ Trx_HasVisited(Top.cur, label[l[3]])
           /\ stack' = [stack EXCEPT ![Depth] = Without(Top, l)] /\ UNCHANGED label
  <2> DEFINE t == Without(Top, l)
  <2>1. Walk(t)
    BY <1>2, <1>3, <1>6, <1>9, PassOverWalk
  <2>2. t \in Traversals /\ t.cur = Top.cur /\ t.seen = Top.seen /\ t.way = Top.way
    BY <1>2, WithoutFields
  <2> HIDE DEF t
  <2>3. Depth = 2 /\ stack[1].way = "verify" => Inner(stack[1], t)
    BY <1>1, <1>2, <1>9 DEF Verifies, Inner
  <2>4. Verifies'
    BY <1>1, <1>9, <2>2, <2>3, TopVerifies DEF t
  <2> QED  BY <1>1, <1>2, <1>4, <1>9, <2>1, <2>2, <2>4, TopStep DEF t
<1> QED  BY <1>5, <1>7, <1>8, <1>9

\* The labels after the adjacent nodes of a node have been visited.
LEMMA VisitMany ==
  ASSUME Shared, stack # <<>>, New(Top) \subseteq Node
  PROVE  /\ Visited(Top) \in [Node -> Labels] /\ \A m \in Node : Fitting(Visited(Top)[m], trx)
         /\ \A d \in Colours : d.id = trx.id => \A m \in Node :
              Trx_HasVisited(d, Visited(Top)[m]) <=>
                Trx_HasVisited(d, label[m]) \/ (d.cl = Top.cur.cl /\ m \in New(Top))
<1>1. /\ Top.cur \in Colours /\ Top.cur.id = trx.id /\ Top.cur.cl \in trx.cl
      /\ trx.id \in Nat /\ label \in [Node -> Labels] /\ \A m \in Node : Fitting(label[m], trx)
  BY TopFacts
<1>2. ASSUME NEW m \in Node
      PROVE  Fitting(Trx_Visit(Top.cur, label[m]), trx) /\ Trx_Visit(Top.cur, label[m]) \in Labels
  <2>1. Fitting(Trx_Visit(Top.cur, label[m]), trx)
    BY <1>1, VisitLabel
  <2> QED  BY <2>1 DEF Fitting
<1>3. ASSUME NEW m \in Node, NEW d \in Colours, d.id = trx.id
      PROVE  Trx_HasVisited(d, Trx_Visit(Top.cur, label[m])) <=>
               Trx_HasVisited(d, label[m]) \/ d.cl = Top.cur.cl
  BY <1>1, <1>3, VisitLabel
<1>4. Visited(Top) = [n \in Node |-> IF n \in New(Top) THEN Trx_Visit(Top.cur, label[n]) ELSE label[n]]
  BY DEF Visited
<1> QED  BY <1>1, <1>2, <1>3, <1>4

LEMMA ContinueIInv == ASSUME IInv, Continue PROVE IInv'
<1>1. /\ Shared /\ Verifies /\ GraphTyped /\ stack # <<>> /\ ~Verifying
      /\ Top.pc \in {"head", "node"} /\ UNCHANGED <<graph, trx, detachable>>
  BY DEF IInv, Shared, Continue
<1>2. /\ stack \in Seq(Traversals) /\ Depth = Len(stack) /\ Depth \in Nat \ {0}
      /\ Depth \in 1 .. Depth /\ Top = stack[Depth] /\ Top \in Traversals
      /\ \A n \in Node : Trx_HasVisited(Top.cur, label[n]) <=> n \in Top.seen
      /\ Top.cur \in Colours /\ Top.cur.id = trx.id
      /\ label \in [Node -> Labels] /\ \A n \in Node : Fitting(label[n], trx)
  BY <1>1, TopFacts
<1>3. Walk(Top) /\ \A i \in 1 .. Depth : stack[i].way # "verify"
  BY <1>1, <1>2, NoVerify DEF IInv, Walks
<1>4. /\ Top.way # "verify"
      /\ \A t : Depth = 2 /\ stack[1].way = "verify" => Inner(stack[1], t)
  BY <1>2, <1>3
<1>5. \A d \in Colours : d.id = trx.id => \A n \in Node :
        Trx_HasVisited(d, label[n]) <=>
          Trx_HasVisited(d, label[n]) \/ (d.cl = Top.cur.cl /\ n \in Top.seen)
  BY <1>2 DEF Trx_HasVisited
<1>6. CASE Top.pc = "head"
  <2> DEFINE t == [Top EXCEPT !.pc = "loop"]
  <2>1. /\ Walk(t) /\ t \in Traversals /\ t.cur = Top.cur /\ t.seen = Top.seen /\ t.way = Top.way
    BY <1>2, <1>3, <1>6, HeadWalk
  <2>2. label' = label /\ stack' = [stack EXCEPT ![Depth] = t]
    BY <1>2, <1>6 DEF Continue
  <2> HIDE DEF t
  <2>3. Verifies'
    BY <1>1, <1>4, <2>1, <2>2, TopVerifies
  <2> QED  BY <1>1, <1>2, <1>5, <2>1, <2>2, <2>3, TopStep
<1>7. CASE Top.pc = "node"
  <2> DEFINE t == Queue(Top)
  <2>1. /\ Walk(t) /\ t \in Traversals /\ t.cur = Top.cur /\ t.seen = Top.seen \cup New(Top)
        /\ New(Top) \subseteq Node /\ t.way = Top.way
    BY <1>1, <1>2, <1>3, <1>7, QueueWalk
  <2>2. label' = Visited(Top) /\ stack' = [stack EXCEPT ![Depth] = t]
    BY <1>7 DEF Continue
  <2> HIDE DEF t
  <2>3. Verifies'
    BY <1>1, <1>4, <2>1, <2>2, TopVerifies
  <2>4. /\ label' \in [Node -> Labels] /\ \A m \in Node : Fitting(label'[m], trx)
        /\ \A d \in Colours : d.id = trx.id => \A m \in Node :
             Trx_HasVisited(d, label'[m]) <=>
               Trx_HasVisited(d, label[m]) \/ (d.cl = Top.cur.cl /\ m \in New(Top))
    BY <1>1, <2>1, <2>2, VisitMany
  <2>5. \A d \in Colours : d.id = trx.id => \A m \in Node :
          Trx_HasVisited(d, label'[m]) <=>
            Trx_HasVisited(d, label[m]) \/ (d.cl = Top.cur.cl /\ m \in t.seen)
    BY <1>5, <2>1, <2>4
  <2> QED  BY <1>1, <2>1, <2>2, <2>3, <2>4, <2>5, TopStep
<1> QED  BY <1>1, <1>6, <1>7

LEMMA PopFacts ==
  ASSUME Shared, stack # <<>>
  PROVE  /\ Pop \in Seq(Traversals) /\ Len(Pop) = Depth - 1
         /\ \A i \in 1 .. Depth - 1 : Pop[i] = stack[i] /\ i \in 1 .. Depth
BY TopFacts DEF Pop

\* A traversal ends, whether it has come to its end or not.
LEMMA PopStep ==
  ASSUME IInv, stack # <<>>, UNCHANGED <<graph, label>>, Trx_End(Top.cur), stack' = Pop,
         Verifies', detachable' \subseteq Node, Verified'
  PROVE  IInv'
<1>1. Shared
  BY DEF IInv
<1>2. /\ Pop \in Seq(Traversals) /\ Len(Pop) = Depth - 1
      /\ \A i \in 1 .. Depth - 1 : Pop[i] = stack[i] /\ i \in 1 .. Depth
  BY <1>1, PopFacts
<1>3. Shared'
  BY <1>1, <1>2, PopShared
<1>4. Walks'
  BY <1>2, SameWalks DEF IInv, Walks
<1> QED  BY <1>3, <1>4 DEF IInv

LEMMA StopIInv == ASSUME IInv, Stop PROVE IInv'
<1>1. /\ Shared /\ Verifies /\ stack # <<>> /\ Top.pc \in {"head", "node"} /\ ~Verifying
      /\ UNCHANGED <<graph, label, detachable>> /\ Trx_End(Top.cur) /\ stack' = Pop
  BY DEF IInv, Stop
<1>2. /\ Len(Pop) = Depth - 1 /\ Depth \in Nat \ {0}
      /\ \A i \in 1 .. Depth - 1 : Pop[i] = stack[i] /\ i \in 1 .. Depth
  BY <1>1, PopFacts, TopFacts
<1>3. \A i \in 1 .. Depth : stack[i].way # "verify"
  BY <1>1, NoVerify
<1>4. Verifies'
  BY <1>1, <1>2, <1>3, NothingVerified
<1> QED  BY <1>1, <1>4, PopStep, SameVerified DEF IInv

\* The inner traversal of a verification comes to its end: the nodes that have its colour
\* are those it reaches, and the outer one has approved of each.
LEMMA InnerEnds ==
  ASSUME Shared, NEW t \in Traversals, NEW u \in Traversals, Walk(u), Inner(t, u),
         u.pc = "loop", u.queue = {},
         \A n \in Node : Trx_HasVisited(u.cur, label[n]) <=> n \in u.seen
  PROVE  Outer(t)
<1>1. /\ u.way = "bfs" /\ u.head = t.head /\ u.fields = {"children"} /\ t.seen = Called(u)
      /\ u.cur.id = t.cur.id /\ u.cur.cl = t.cur.cl + 1
  BY DEF Inner, Pending, Traversals, Colours
<1>2. Called(u) = Reach(t.head, {"children"})
  BY <1>1, WalkComplete DEF Shared, ToCall
<1>3. u.seen = Called(u)
  BY <1>1 DEF Walk, Ends
<1>4. \A n \in Node : Within(t, n) => n \in u.seen
  BY <1>1 DEF Within, Trx_HasVisited
<1> QED  BY <1>1, <1>2, <1>3, <1>4 DEF Outer

LEMMA FinishIInv == ASSUME IInv, Finish PROVE IInv'
<1>1. /\ Shared /\ Verifies /\ stack # <<>> /\ Top.way # "verify" /\ Top.pc = "loop"
      /\ Top.queue = {} /\ UNCHANGED <<graph, label, detachable>> /\ Trx_End(Top.cur)
      /\ stack' = Pop
  BY DEF IInv, Finish
<1>2. /\ Len(Pop) = Depth - 1 /\ Depth \in Nat \ {0} /\ Depth \in 1 .. Depth
      /\ \A i \in 1 .. Depth - 1 : Pop[i] = stack[i] /\ i \in 1 .. Depth
      /\ Top = stack[Depth] /\ Top \in Traversals /\ stack \in Seq(Traversals) /\ Depth = Len(stack)
      /\ \A n \in Node : Trx_HasVisited(Top.cur, label[n]) <=> n \in Top.seen
  BY <1>1, PopFacts, TopFacts
<1>3. Depth' = Depth - 1
  BY <1>1, <1>2 DEF Depth
<1>4. ASSUME NEW i \in 1 .. Depth - 1, stack'[i].way = "verify"
      PROVE  i = 1 /\ Depth <= 2 /\ Approves(stack[i])'
  <2>1. stack'[i] = stack[i] /\ i = 1 /\ Depth <= 2 /\ Approves(stack[i])
    BY <1>1, <1>2, <1>4 DEF Verifies
  <2>2. Approves(stack'[i])
    BY <2>1
  <2> QED  BY <1>1, <2>1, <2>2, SameGraph DEF Approves
<1>5. ASSUME Depth - 1 = 1, stack'[1].way = "verify" PROVE Outer(stack[1])'
  <2>1. Depth = 2 /\ stack'[1] = stack[1] /\ stack[1] \in Traversals /\ Top = stack[2]
    <3>1. Depth \in Nat /\ Depth - 1 = 1
      BY <1>2, <1>5
    <3>2. Depth = 2 /\ 1 \in 1 .. Depth - 1 /\ 1 \in 1 .. Depth
      BY <3>1
    <3>3. \A i \in 1 .. Len(stack) : stack[i] \in Traversals
      BY <1>2
    <3>4. stack[1] \in Traversals
      BY <1>2, <3>2, <3>3
    <3> QED  BY <1>1, <1>2, <3>2, <3>4
  <2>2. Inner(stack[1], Top) /\ Walk(Top)
    BY <1>1, <1>2, <1>5, <2>1 DEF Verifies, IInv, Walks
  <2>3. Outer(stack'[1])
    BY <1>1, <1>2, <2>1, <2>2, InnerEnds
  <2> QED  BY <1>1, <2>3, SameGraph DEF Outer, Within
<1>6. Verifies'
  <2>1. ~(Depth - 1 = 2 /\ stack'[1].way = "verify")
    BY <1>2, <1>4
  <2> QED  BY <1>2, <1>3, <1>4, <1>5, <2>1 DEF Verifies
<1> QED  BY <1>1, <1>6, PopStep, SameVerified DEF IInv

\* Steps that change no more than the label of a node.
LEMMA LabelStep ==
  ASSUME IInv, UNCHANGED <<graph, trx, stack, detachable>>, label' \in [Node -> Labels],
         \A n \in Node : Fitting(label'[n], trx),
         \A i \in 1 .. Depth : \A n \in Node :
           Trx_HasVisited(stack[i].cur, label'[n]) <=> n \in stack[i].seen,
         \A t : \A n \in Node : Within(t, n)' /\ t.cur.id = trx.id => Within(t, n)
  PROVE  IInv'
<1>1. /\ Shared /\ Verifies /\ stack \in Seq(Traversals) /\ Depth = Len(stack) /\ Depth' = Depth
  BY DEF IInv, Shared, StackTyped, Depth
<1>2. Shared'
  BY <1>1, SameShared
<1>3. Walks'
  BY <1>1, SameWalks DEF IInv, Walks
<1>4. ASSUME NEW i \in 1 .. Depth, stack[i].way = "verify"
      PROVE  i = 1 /\ Depth <= 2 /\ Approves(stack[i])'
  BY <1>1, <1>4, SameGraph DEF Verifies, Approves
<1>5. ASSUME Depth = 2, stack[1].way = "verify" PROVE Inner(stack[1], stack[2])'
  BY <1>1, <1>5 DEF Verifies, Inner, Called, Pending
<1>6. ASSUME Depth = 1, stack[1].way = "verify" PROVE Outer(stack[1])'
  <2>1. Outer(stack[1]) /\ stack[1].cur.id = trx.id
    BY <1>1, <1>6 DEF Verifies, Shared, StackTyped
  <2>2. \A n \in Node : Within(stack[1], n)' => Within(stack[1], n)
    BY <2>1
  <2> QED  BY <2>1, <2>2, SameGraph DEF Outer
<1>7. Verifies'
  BY <1>1, <1>4, <1>5, <1>6 DEF Verifies
<1> QED  BY <1>2, <1>3, <1>7, SameVerified DEF IInv

LEMMA StampIInv == ASSUME IInv, NEW n \in Node, Stamp(n) PROVE IInv'
<1>1. /\ label[n].id # trx.id /\ label' = [label EXCEPT ![n] = Trx_Sync(@)]
      /\ UNCHANGED <<graph, trx, stack, detachable>>
  BY DEF Stamp
<1>2. /\ label \in [Node -> Labels] /\ stack \in Seq(Traversals) /\ Depth = Len(stack)
      /\ trx.id \in Nat /\ \A m \in Node : Fitting(label[m], trx)
      /\ \A i \in 1 .. Depth : stack[i].cur.id = trx.id
      /\ \A i \in 1 .. Depth : \A m \in Node :
           Trx_HasVisited(stack[i].cur, label[m]) <=> m \in stack[i].seen
  BY FitsAll DEF IInv, Shared, TrxTyped, LabelsTyped, StackTyped, LabelsAgree, Depth
<1>3. Trx_Sync(label[n]) = [id |-> trx.id, cl |-> {}]
  BY <1>1 DEF Trx_Sync
<1>4. Trx_Sync(label[n]) \in Labels /\ Fitting(Trx_Sync(label[n]), trx)
  BY <1>2, <1>3 DEF Labels, Fitting
<1>5. /\ label' \in [Node -> Labels] /\ \A m \in Node : Fitting(label'[m], trx)
      /\ label'[n] = [id |-> trx.id, cl |-> {}] /\ \A m \in Node : m # n => label'[m] = label[m]
  BY <1>1, <1>2, <1>3, <1>4
<1>6. ASSUME NEW i \in 1 .. Depth, NEW m \in Node
      PROVE  Trx_HasVisited(stack[i].cur, label'[m]) <=> m \in stack[i].seen
  <2>1. ~Trx_HasVisited(stack[i].cur, label[n]) /\ ~Trx_HasVisited(stack[i].cur, label'[n])
    BY <1>1, <1>2, <1>5 DEF Trx_HasVisited
  <2> QED  BY <1>2, <1>5, <2>1
<1>7. \A t : \A m \in Node : Within(t, m)' /\ t.cur.id = trx.id => Within(t, m)
  BY <1>5 DEF Within
<1> QED  BY <1>1, <1>5, <1>6, <1>7, LabelStep

LEMMA RecreateIInv == ASSUME IInv, NEW n \in Node, Recreate(n) PROVE IInv'
<1>1. /\ \A i \in 1 .. Depth : n \notin stack[i].seen
      /\ label' = [label EXCEPT ![n] = Fresh] /\ UNCHANGED <<graph, trx, stack, detachable>>
  BY DEF Recreate
<1>2. /\ label \in [Node -> Labels] /\ trx.id \in Nat /\ \A m \in Node : Fitting(label[m], trx)
      /\ \A i \in 1 .. Depth : \A m \in Node :
           Trx_HasVisited(stack[i].cur, label[m]) <=> m \in stack[i].seen
  BY FitsAll DEF IInv, Shared, TrxTyped, LabelsTyped, LabelsAgree
<1>3. Fresh \in Labels /\ Fitting(Fresh, trx) /\ Fresh.cl = {}
  BY <1>2 DEF Fresh, Labels, Fitting
<1> HIDE DEF Fresh
<1>4. /\ label' \in [Node -> Labels] /\ \A m \in Node : Fitting(label'[m], trx)
      /\ label'[n].cl = {} /\ \A m \in Node : m # n => label'[m] = label[m]
  BY <1>1, <1>2, <1>3
<1>5. \A i \in 1 .. Depth : \A m \in Node :
        Trx_HasVisited(stack[i].cur, label'[m]) <=> m \in stack[i].seen
  BY <1>1, <1>2, <1>4 DEF Trx_HasVisited
<1>6. \A t : \A m \in Node : Within(t, m)' /\ t.cur.id = trx.id => Within(t, m)
  BY <1>4 DEF Within
<1> QED  BY <1>1, <1>4, <1>5, <1>6, LabelStep

-----------------------------------------------------------------------------
(* Verification of subtrees *)

LEMMA OriginsTyped ==
  ASSUME GraphTyped, NEW n  PROVE Origins(n) \in SUBSET Node /\ Parents(n) \in SUBSET Node
BY DEF GraphTyped, Origins, Parents

\* The two traversals of a verification.
LEMMA VerifyFacts ==
  ASSUME IInv, Verifying, Top.pc = "node"
  PROVE  /\ Shared /\ stack # <<>> /\ Depth = 2 /\ Len(stack) = 2 /\ Top = stack[2]
         /\ stack[1] \in Traversals /\ Top \in Traversals /\ stack[1].way = "verify"
         /\ Approves(stack[1]) /\ Inner(stack[1], Top) /\ Walk(Top)
         /\ Top.at \in Node /\ Top.at \in Called(Top) /\ Pending(Top) = {Top.at}
         /\ stack[1].cur \in Colours /\ stack[1].cur.id = trx.id /\ stack[1].cur.cl \in trx.cl
         /\ stack[1].cur.cl # Top.cur.cl
         /\ \A n \in Node : Trx_HasVisited(stack[1].cur, label[n]) <=> n \in stack[1].seen
<1>1. /\ Shared /\ Verifies /\ Walks /\ Depth = 2 /\ stack[1].way = "verify"
  BY DEF IInv, Verifying
<1>2. /\ stack \in Seq(Traversals) /\ Len(stack) = 2 /\ stack # <<>> /\ Top = stack[2]
      /\ 1 \in 1 .. Depth /\ 2 \in 1 .. Depth
  <2>1. stack \in Seq(Traversals) /\ Len(stack) = 2
    BY <1>1 DEF Shared, StackTyped, Depth
  <2>2. stack # <<>>
    BY <2>1
  <2> QED  BY <1>1, <2>1, <2>2 DEF Top
<1>3. stack[1] \in Traversals /\ Top \in Traversals
  <2>1. \A i \in 1 .. Len(stack) : stack[i] \in Traversals
    BY <1>2
  <2>2. 1 \in 1 .. 2 /\ 2 \in 1 .. 2
    OBVIOUS
  <2> QED  BY <1>2, <2>1, <2>2
<1>4. Approves(stack[1]) /\ Inner(stack[1], Top) /\ Walk(Top)
  BY <1>1, <1>2 DEF Verifies, Walks
<1>5. Top.at \in Node /\ Pending(Top) = {Top.at} /\ Pending(Top) \subseteq Called(Top)
  BY <1>3, <1>4 DEF Traversals, Pending, Walk, Inner
<1>6. /\ stack[1].cur.id = trx.id /\ stack[1].cur.cl \in trx.cl
      /\ stack[1].cur.cl # stack[2].cur.cl
      /\ \A n \in Node : Trx_HasVisited(stack[1].cur, label[n]) <=> n \in stack[1].seen
  BY <1>1, <1>2 DEF Shared, StackTyped, LabelsAgree
<1>7. stack[1].cur \in Colours
  BY <1>3 DEF Traversals
<1> QED  BY <1>1, <1>2, <1>3, <1>4, <1>5, <1>6, <1>7

LEMMA RefuseIInv == ASSUME IInv, Refuse PROVE IInv'
<1> DEFINE t == [stack[1] EXCEPT !.origins = @ \cup Origins(Top.at), !.err = TRUE]
<1>1. /\ Verifying /\ Top.pc = "node" /\ stack' = <<t>> /\ Trx_End(Top.cur)
      /\ UNCHANGED <<graph, label, detachable>>
  BY DEF Refuse
<1>2. /\ Shared /\ GraphTyped /\ stack # <<>> /\ Depth = 2 /\ stack[1] \in Traversals
      /\ stack[1].way = "verify" /\ Approves(stack[1])
  BY <1>1, VerifyFacts DEF Shared
<1>3. /\ t \in Traversals /\ t.cur = stack[1].cur /\ t.seen = stack[1].seen /\ t.way = "verify"
      /\ t.pc = stack[1].pc /\ t.fields = stack[1].fields /\ t.queue = stack[1].queue
      /\ t.head = stack[1].head /\ stack[1].origins \subseteq t.origins /\ t.err
  BY <1>2, OriginsTyped DEF Traversals
<1> HIDE DEF t
<1>4. /\ stack' \in Seq(Traversals) /\ Len(stack') = 1 /\ stack'[1] = t
      /\ \A i \in 1 .. 1 : i = 1
  BY <1>1, <1>3
<1>5. Shared'
  BY <1>1, <1>2, <1>3, <1>4, PopShared
<1>6. Walk(t)
  BY <1>3 DEF Walk
<1>7. Walks'
  BY <1>1, <1>4, <1>6, SameWalks
<1>8. Verifies'
  <2>1. Approves(t)
    BY <1>2, <1>3 DEF Approves
  <2>2. Approves(stack[1])' /\ Outer(stack[1])'
    BY <1>1, <1>3, <1>4, <2>1, SameGraph DEF Approves, Outer
  <2> QED  BY <1>4, <2>2 DEF Verifies, Depth
<1> QED  BY <1>1, <1>5, <1>7, <1>8, SameVerified DEF IInv

LEMMA ApproveIInv == ASSUME IInv, Approve PROVE IInv'
<1> DEFINE o == stack[1]
           n == Top.at
           t == [o EXCEPT !.origins = @ \cup Origins(n), !.seen = @ \cup {n}]
           u == Queue(Top)
<1>1. /\ Verifying /\ Top.pc = "node" /\ Approved(o, n) /\ stack' = <<t, u>>
      /\ label' = [Visited(Top) EXCEPT ![n] = Trx_Visit(o.cur, @)]
      /\ UNCHANGED <<graph, trx, detachable>>
  BY DEF Approve
<1>2. /\ Shared /\ GraphTyped /\ stack # <<>> /\ Depth = 2 /\ Len(stack) = 2 /\ Top = stack[2]
      /\ o \in Traversals /\ Top \in Traversals /\ o.way = "verify"
      /\ Approves(o) /\ Inner(o, Top) /\ Walk(Top)
      /\ n \in Node /\ n \in Called(Top) /\ Pending(Top) = {n}
      /\ o.cur \in Colours /\ o.cur.id = trx.id /\ o.cur.cl \in trx.cl /\ o.cur.cl # Top.cur.cl
      /\ \A m \in Node : Trx_HasVisited(o.cur, label[m]) <=> m \in o.seen
  BY <1>1, VerifyFacts DEF Shared
<1>3. /\ Top.cur \in Colours /\ Top.cur.id = trx.id /\ trx.id \in Nat
      /\ \A m \in Node : Trx_HasVisited(Top.cur, label[m]) <=> m \in Top.seen
  BY <1>2, TopFacts
<1>4. /\ t \in Traversals /\ t.cur = o.cur /\ t.seen = o.seen \cup {n} /\ t.way = "verify"
      /\ t.pc = o.pc /\ t.fields = o.fields /\ t.queue = o.queue /\ t.head = o.head
      /\ t.origins = o.origins \cup Origins(n) /\ t.err = o.err
  <2>1. Origins(n) \in SUBSET Node
    BY <1>2, OriginsTyped
  <2> HIDE DEF o, n
  <2> QED  BY <1>2, <2>1 DEF Traversals
<1>5. /\ Walk(u) /\ u \in Traversals /\ u.cur = Top.cur /\ u.seen = Top.seen \cup New(Top)
      /\ New(Top) \subseteq Node /\ u.way = Top.way /\ u.head = Top.head /\ u.fields = Top.fields
      /\ u.pc = "loop" /\ Called(u) = Called(Top)
  <2>1. Top.way # "verify"
    BY <1>2 DEF Inner
  <2> QED  BY <1>1, <1>2, <1>3, <2>1, QueueWalk
<1> DEFINE l == Visited(Top)
<1>6. /\ l \in [Node -> Labels] /\ \A m \in Node : Fitting(l[m], trx)
      /\ \A d \in Colours : d.id = trx.id => \A m \in Node :
           Trx_HasVisited(d, l[m]) <=>
             Trx_HasVisited(d, label[m]) \/ (d.cl = Top.cur.cl /\ m \in New(Top))
  BY <1>2, <1>5, VisitMany
<1>7. label' = [l EXCEPT ![n] = Trx_Visit(o.cur, l[n])]
  BY <1>1
<1> HIDE DEF o, n, t, u, l
<1>8. /\ Fitting(Trx_Visit(o.cur, l[n]), trx) /\ Trx_Visit(o.cur, l[n]) \in Labels
      /\ \A d \in Colours : d.id = trx.id =>
           (Trx_HasVisited(d, Trx_Visit(o.cur, l[n])) <=>
              Trx_HasVisited(d, l[n]) \/ d.cl = o.cur.cl)
  <2>1. Fitting(Trx_Visit(o.cur, l[n]), trx)
    BY <1>2, <1>3, <1>6, VisitLabel
  <2>2. \A d \in Colours : d.id = trx.id =>
           (Trx_HasVisited(d, Trx_Visit(o.cur, l[n])) <=>
              Trx_HasVisited(d, l[n]) \/ d.cl = o.cur.cl)
    BY <1>2, <1>3, <1>6, VisitLabel
  <2> QED  BY <2>1, <2>2 DEF Fitting
<1>9. /\ label' \in [Node -> Labels] /\ \A m \in Node : Fitting(label'[m], trx)
      /\ \A d \in Colours : d.id = trx.id => \A m \in Node :
           Trx_HasVisited(d, label'[m]) <=>
             \/ Trx_HasVisited(d, label[m]) \/ (d.cl = Top.cur.cl /\ m \in New(Top))
             \/ (d.cl = o.cur.cl /\ m = n)
  BY <1>2, <1>6, <1>7, <1>8
<1>10. /\ stack' \in Seq(Traversals) /\ Len(stack') = 2 /\ stack'[1] = t /\ stack'[2] = u
       /\ \A i \in 1 .. 2 : i = 1 \/ i = 2
  BY <1>1, <1>4, <1>5
<1>11. /\ \A m \in Node : Trx_HasVisited(o.cur, label'[m]) <=> m \in t.seen
       /\ \A m \in Node : Trx_HasVisited(Top.cur, label'[m]) <=> m \in u.seen
  BY <1>2, <1>3, <1>4, <1>5, <1>9
<1>12. Shared'
  <2>1. \A i \in 1 .. Depth : /\ stack'[i].cur = stack[i].cur
                              /\ \A m \in Node : Trx_HasVisited(stack[i].cur, label'[m]) <=>
                                                   m \in stack'[i].seen
    BY <1>2, <1>4, <1>5, <1>10, <1>11 DEF o
  <2> QED  BY <1>1, <1>2, <1>9, <1>10, <2>1, SameShared
<1>13. Walks'
  <2>1. Walk(t)
    BY <1>4 DEF Walk
  <2> QED  BY <1>1, <1>5, <1>10, <2>1, SameWalks
<1>14. Approves(t)
  <2>1. n = o.head \/ Parents(n) \subseteq o.seen
    BY <1>1, <1>2, OriginsTyped DEF Approved
  <2> QED  BY <1>2, <1>4, <2>1 DEF Approves
<1>15. Inner(t, u)
  <2>1. Pending(u) = {}
    BY <1>5 DEF Pending
  <2> QED  BY <1>2, <1>4, <1>5, <2>1 DEF Inner
<1>16. Verifies'
  <2>1. Approves(stack[1])'
    BY <1>1, <1>10, <1>14, SameGraph DEF Approves
  <2>2. Inner(stack[1], stack[2])'
    BY <1>10, <1>15 DEF Inner, Called, Pending
  <2>3. stack'[2].way # "verify"
    BY <1>10, <1>15 DEF Inner
  <2> QED  BY <1>10, <2>1, <2>2, <2>3 DEF Verifies, Depth
<1> QED  BY <1>1, <1>12, <1>13, <1>16, SameVerified DEF IInv

\* What is accepted: the nodes that were approved of, which are all that are reached, and
\* which no others refer to.
LEMMA EndVerifyIInv == ASSUME IInv, EndVerify PROVE IInv'
<1> DEFINE t == stack[1]
           reach == Reach(t.head, {"children"})
<1>1. /\ Depth = 1 /\ Top = t /\ t.way = "verify" /\ Trx_End(Top.cur) /\ stack' = Pop
      /\ detachable' = IF ~t.err /\ \A o \in t.origins : Within(t, o) THEN {t.head} ELSE {}
      /\ UNCHANGED <<graph, label>>
  BY DEF EndVerify, Nobody, Top
<1>2. Shared /\ Verifies /\ GraphTyped /\ stack # <<>>
  <2>1. Shared /\ Verifies /\ GraphTyped
    BY DEF IInv, Shared
  <2>2. stack # <<>>
    <3>1. Len(stack) = 1
      BY <1>1 DEF Depth
    <3>2. Len(<<>>) = 0
      OBVIOUS
    <3> QED  BY <3>1, <3>2
  <2> QED  BY <2>1, <2>2
<1>3. t \in Traversals /\ Approves(t) /\ Outer(t) /\ Len(Pop) = 0
  BY <1>1, <1>2, PopFacts, TopFacts DEF Verifies
<1>4. t.head \in Node /\ t.origins \subseteq Node
  BY <1>3 DEF Traversals
<1>5. Verifies'
  BY <1>1, <1>3, NothingVerified
<1>6. ASSUME ~t.err, \A o \in t.origins : Within(t, o), NEW n \in reach
      PROVE  (Parents(n) \subseteq reach \/ n = t.head) /\ Origins(n) \subseteq reach
  <2>1. t.seen = reach /\ \A m \in Node : Within(t, m) => m \in reach
    BY <1>3, <1>6 DEF Outer
  <2>2. (n = t.head \/ Parents(n) \subseteq t.seen) /\ Origins(n) \subseteq t.origins
    BY <1>3, <1>6, <2>1 DEF Approves
  <2> QED  BY <1>4, <1>6, <2>1, <2>2
<1>7. detachable' \subseteq Node /\ Verified'
  <2>1. ASSUME NEW h \in detachable', NEW n \in Reach(h, {"children"})
        PROVE  /\ (Parents(n) \subseteq Reach(h, {"children"}) \/ n = h)
               /\ Origins(n) \subseteq Reach(h, {"children"})
    BY <1>1, <1>6, <2>1
  <2> HIDE DEF t
  <2> QED  BY <1>1, <1>4, <2>1, SameGraph DEF Verified
<1> QED  BY <1>1, <1>2, <1>5, <1>7, PopStep

LEMMA BeginVerifyIInv == ASSUME IInv, NEW head \in Node, BeginVerify(head) PROVE IInv'
<1> DEFINE a == NewTraversal("verify", head, {"children"})
           b == NewTraversal("bfs", head, {"children"})
           o == [a EXCEPT !.pc = "loop"]
           u == [b EXCEPT !.cur.cl = o.cur.cl + 1, !.queue = {<<head, "head", head>>},
                          !.seen = {head}, !.pc = "loop"]
<1>1. /\ Outside /\ Fin /\ trx' = [trx EXCEPT !.cl = {o.cur.cl, u.cur.cl}]
      /\ label' = [label EXCEPT ![head] = Trx_Visit(u.cur, @)]
      /\ stack' = Append(Append(stack, o), u) /\ detachable' = {} /\ UNCHANGED graph
  BY DEF BeginVerify, Nobody
<1>2. Shared /\ GraphTyped /\ TrxTyped /\ LabelsTyped /\ stack = <<>> /\ trx.cl = {}
  BY <1>1, SharedIsolated DEF IInv, Shared, Isolated, Released, Fin
\* The two colours are the first of the transaction.
<1>3. NewTrx \in Colours /\ NewTrx.id = trx.id /\ NewTrx.cl = 0 /\ trx.id \in Nat
  <2>1. PICK k \in Nat : {} = 0 .. k - 1 /\ NewTrx.cl = k
    BY <1>2, NextColour
  <2>2. k = 0
    <3>1. ASSUME k # 0 PROVE 0 \in 0 .. k - 1
      BY <3>1
    <3> QED  BY <2>1, <3>1
  <2> QED  BY <1>2, <2>1, <2>2, NextColour DEF TrxTyped
<1>4. IsNew(a, "verify", head, {"children"}) /\ a.queue = {} /\ a.seen = {}
  BY <1>2, NewTyped
<1>5. IsNew(b, "bfs", head, {"children"})
  BY <1>2, NewTyped
<1> HIDE DEF a, b
<1>6. /\ o \in Traversals /\ o.way = "verify" /\ o.head = head /\ o.fields = {"children"}
      /\ o.pc = "loop" /\ o.queue = {} /\ o.seen = {} /\ ~o.err /\ o.cur = NewTrx
  BY <1>4 DEF IsNew, Traversals
<1> HIDE DEF o
<1> DEFINE c == [NewTrx EXCEPT !.cl = 1]
<1>7. c \in Colours /\ c.id = trx.id /\ c.cl = 1 /\ c = [o.cur EXCEPT !.cl = @ + 1]
  BY <1>3, <1>6 DEF Colours
<1>8. u = [b EXCEPT !.cur = c, !.queue = {<<head, "head", head>>}, !.seen = {head}, !.pc = "loop"]
  <2>1. u = [b EXCEPT !.cur = [b.cur EXCEPT !.cl = o.cur.cl + 1], !.queue = {<<head, "head", head>>},
                      !.seen = {head}, !.pc = "loop"]
    OBVIOUS
  <2>2. b.cur = NewTrx /\ o.cur.cl + 1 = 1
    BY <1>3, <1>5, <1>6 DEF IsNew
  <2> HIDE DEF u
  <2> QED  BY <2>1, <2>2
<1> HIDE DEF c, u
<1>9. /\ u \in Traversals /\ Called(u) = {} /\ u.way = "bfs" /\ u.head = head
      /\ u.fields = {"children"} /\ u.pc = "loop" /\ u.seen = {head} /\ u.cur = c
      /\ u.queue = {<<head, "head", head>>}
  <2>1. {<<head, "head", head>>} \in SUBSET Arrows
    BY <1>2, LinksTyped
  <2> QED  BY <1>5, <1>7, <1>8, <2>1 DEF IsNew, Traversals, Called
<1>10. /\ stack' \in Seq(Traversals) /\ Len(stack') = 2 /\ stack'[1] = o /\ stack'[2] = u
       /\ \A i \in 1 .. 2 : i = 1 \/ i = 2
  BY <1>1, <1>2, <1>6, <1>9
<1>11. /\ trx' \in [id : Nat, cl : SUBSET Nat, ex : SUBSET Nat] /\ trx'.id = trx.id
       /\ trx'.cl = {0, 1} /\ trx'.ex = {}
  <2>1. trx \in [id : Nat, cl : SUBSET Nat, ex : SUBSET Nat] /\ trx.ex = {}
    BY <1>2 DEF TrxTyped
  <2>2. o.cur.cl = 0 /\ u.cur.cl = 1
    BY <1>3, <1>6, <1>7, <1>9
  <2>3. trx' = [trx EXCEPT !.cl = {0, 1}]
    BY <1>1, <2>2
  <2> QED  BY <2>1, <2>3
<1>12. TrxTyped'
  <2>1. {0, 1} = 0 .. 2 - 1
    OBVIOUS
  <2> QED  BY <1>11, <2>1 DEF TrxTyped
\* No label has one of them yet.
<1>13. \A m \in Node : /\ Fitting(label[m], trx')
                       /\ ~Trx_HasVisited(NewTrx, label[m]) /\ ~Trx_HasVisited(c, label[m])
  BY <1>2, <1>3, <1>7, <1>11 DEF LabelsTyped, Fitting, Trx_HasVisited
<1>14. /\ Fitting(Trx_Visit(c, label[head]), trx') /\ Trx_Visit(c, label[head]) \in Labels
       /\ ~Trx_HasVisited(NewTrx, Trx_Visit(c, label[head]))
       /\ Trx_HasVisited(c, Trx_Visit(c, label[head]))
  <2>1. /\ trx'.id \in Nat /\ c.id = trx'.id /\ NewTrx.id = trx'.id /\ c.cl \in trx'.cl
        /\ Fitting(label[head], trx') /\ c.cl # NewTrx.cl
    BY <1>3, <1>7, <1>11, <1>13
  <2>2. /\ Fitting(Trx_Visit(c, label[head]), trx')
        /\ \A d \in {NewTrx, c} : Trx_HasVisited(d, Trx_Visit(c, label[head])) <=>
                                   Trx_HasVisited(d, label[head]) \/ d.cl = c.cl
    <3>1. ASSUME NEW d \in {NewTrx, c}
          PROVE  /\ Fitting(Trx_Visit(c, label[head]), trx')
                 /\ Trx_HasVisited(d, Trx_Visit(c, label[head])) <=>
                      Trx_HasVisited(d, label[head]) \/ d.cl = c.cl
      <4>1. d \in Colours /\ d.id = trx'.id
        BY <1>3, <1>7, <2>1
      <4>2. c \in Colours
        BY <1>7
      <4>3. Fitting(Trx_Visit(c, label[head]), trx')
        BY <2>1, <4>1, <4>2, VisitLabel
      <4>4. Trx_HasVisited(d, Trx_Visit(c, label[head])) <=>
              Trx_HasVisited(d, label[head]) \/ d.cl = c.cl
        BY <2>1, <4>1, <4>2, VisitLabel
      <4> QED  BY <4>3, <4>4
    <3> QED  BY <3>1
  <2>3. /\ ~Trx_HasVisited(NewTrx, Trx_Visit(c, label[head]))
        /\ Trx_HasVisited(c, Trx_Visit(c, label[head]))
    BY <1>13, <2>1, <2>2
  <2> QED  BY <2>2, <2>3 DEF Fitting
<1>15. /\ label' \in [Node -> Labels] /\ \A m \in Node : Fitting(label'[m], trx')
       /\ \A m \in Node : ~Trx_HasVisited(NewTrx, label'[m])
       /\ \A m \in Node : Trx_HasVisited(c, label'[m]) <=> m = head
  BY <1>1, <1>2, <1>9, <1>13, <1>14 DEF LabelsTyped
<1>16. Shared'
  <2>1. GraphTyped' /\ LabelsTyped'
    BY <1>1, <1>2, <1>15 DEF GraphTyped, LabelsTyped, Fitting
  <2>2. StackTyped'
    <3>1. o.cur.id = trx.id /\ o.cur.cl = 0 /\ u.cur.id = trx.id /\ u.cur.cl = 1
      BY <1>3, <1>6, <1>7, <1>9
    <3>2. \A k \in {0, 1} \ {} : \E i \in 1 .. 2 : stack'[i].cur.cl = k
      BY <1>10, <3>1
    <3>3. \A i, j \in 1 .. 2 : stack'[i].cur.cl = stack'[j].cur.cl => i = j
      BY <1>10, <3>1
    <3>4. \A i \in 1 .. 2 : stack'[i].cur.id = trx.id /\ stack'[i].cur.cl \in {0, 1} \ {}
      BY <1>10, <3>1
    <3> QED  BY <1>10, <1>11, <3>2, <3>3, <3>4 DEF StackTyped, Depth
  <2>3. LabelsAgree'
    BY <1>6, <1>9, <1>10, <1>15 DEF LabelsAgree, Depth
  <2> QED  BY <1>12, <2>1, <2>2, <2>3 DEF Shared
<1>17. Walks'
  <2>1. Walk(o)
    BY <1>6 DEF Walk
  <2>2. Walk(u)
    BY <1>2, <1>9, NewWalk
  <2> QED  BY <1>1, <1>10, <2>1, <2>2, SameWalks
<1>18. Verifies'
  <2>1. Approves(stack[1])'
    BY <1>6, <1>10 DEF Approves
  <2>2. Inner(stack[1], stack[2])'
    <3>1. Pending(u) = {}
      BY <1>9 DEF Pending
    <3>2. Inner(o, u)
      BY <1>6, <1>7, <1>9, <3>1 DEF Inner
    <3> QED  BY <1>10, <3>2 DEF Inner, Called, Pending
  <2> QED  BY <1>9, <1>10, <2>1, <2>2 DEF Verifies, Depth
<1> QED  BY <1>1, <1>16, <1>17, <1>18 DEF IInv, Verified

-----------------------------------------------------------------------------
(* The theorems *)

LEMMA NextIInv == IInv /\ [Next]_vars => IInv'
<1> SUFFICES ASSUME IInv, [Next]_vars PROVE IInv'
  OBVIOUS
<1>1. ASSUME NEW n \in Node, NEW fields \in Fields, BeginBfs(n, fields) PROVE IInv'
  BY <1>1, BeginBfsIInv
<1>2. ASSUME NEW n \in Node, NEW fields \in Fields, BeginFlat(n, fields) PROVE IInv'
  BY <1>2, BeginFlatIInv
<1>3. ASSUME NEW n \in Node, BeginDfs(n) PROVE IInv'
  BY <1>3, BeginDfsIInv
<1>4. ASSUME NEW n \in Node, BeginVerify(n) PROVE IInv'
  BY <1>4, BeginVerifyIInv
<1>5. ASSUME NEW n \in Node, Stamp(n) PROVE IInv'
  BY <1>5, StampIInv
<1>6. ASSUME NEW n \in Node, Recreate(n) PROVE IInv'
  BY <1>6, RecreateIInv
<1>7. CASE Step      BY <1>7, StepIInv
<1>8. CASE Continue  BY <1>8, ContinueIInv
<1>9. CASE Stop      BY <1>9, StopIInv
<1>10. CASE Finish   BY <1>10, FinishIInv
<1>11. CASE Approve  BY <1>11, ApproveIInv
<1>12. CASE Refuse   BY <1>12, RefuseIInv
<1>13. CASE EndVerify  BY <1>13, EndVerifyIInv
<1>14. CASE UNCHANGED vars
  <2>1. UNCHANGED <<graph, trx, label, stack, detachable>>
    BY <1>14 DEF vars
  <2>2. /\ label \in [Node -> Labels] /\ \A n \in Node : Fitting(label[n], trx)
        /\ \A i \in 1 .. Depth : \A n \in Node :
             Trx_HasVisited(stack[i].cur, label[n]) <=> n \in stack[i].seen
    BY FitsAll DEF IInv, Shared, LabelsTyped, LabelsAgree
  <2>3. \A t : \A n \in Node : Within(t, n)' /\ t.cur.id = trx.id => Within(t, n)
    BY <2>1 DEF Within
  <2> QED  BY <2>1, <2>2, <2>3, LabelStep
<1> QED
  BY <1>1, <1>2, <1>3, <1>4, <1>5, <1>6, <1>7, <1>8, <1>9, <1>10, <1>11, <1>12, <1>13, <1>14 DEF Next

LEMMA Invariance == Spec => []IInv
<1>1. Init => IInv                  BY InitIInv
<1>2. IInv /\ [Next]_vars => IInv'  BY NextIInv
<1> QED  BY <1>1, <1>2, PTL DEF Spec

\* However many traversals run within each other, of whatever kinds, whether they come to
\* their end or are stopped, Trx_HasVisited() answers each of them for itself alone; and
\* Trx_End() has given back every colour, so that the next transaction begins, exactly when
\* no traversal runs.
THEOREM LabelsIsolate == Spec => []Isolated
<1>1. IInv => Isolated
  BY SharedIsolated DEF IInv
<1> QED  BY <1>1, Invariance, PTL

\* bfs, dfs() and the traversals of one step call node_cb once for every node that they
\* reach and for no other, whatever graph they are given and whatever their callbacks
\* traverse meanwhile.
THEOREM AllCalledOnce == Spec => []Complete
<1>1. IInv => Complete
  <2> SUFFICES ASSUME IInv, NEW i \in 1 .. Depth
               PROVE  /\ \A n \in Node : stack[i].called[n] <= 1
                      /\ (stack[i].way # "verify" /\ stack[i].pc = "loop" /\ stack[i].queue = {})
                           => Called(stack[i]) = ToCall(stack[i])
    BY DEF Complete, Called
  <2>1. stack[i] \in Traversals /\ Walk(stack[i]) /\ GraphTyped
    BY DEF IInv, Shared, StackTyped, Walks, Depth
  <2>2. \A n \in Node : stack[i].called[n] \in {0, 1}
    BY <2>1 DEF Traversals
  <2> QED  BY <2>1, <2>2, WalkComplete
<1> QED  BY <1>1, Invariance, PTL

\* A subtree that verifyDetachableSubtree() accepts can be detached: no node outside of it
\* is a parent of one of its nodes, the head aside, or refers to one by an edge.  It says so
\* having looked at the parents of each node when it met it, and at the labels in the end.
THEOREM DetachedClosed == Spec => []Verified
<1>1. IInv => Verified
  BY DEF IInv
<1> QED  BY <1>1, Invariance, PTL

=============================================================================
