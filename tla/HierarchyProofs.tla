--------------------------- MODULE HierarchyProofs ---------------------------
(***************************************************************************)
(* The adjacency vectors, the heads and the C stack of a deletion, proved  *)
(* for every set of ids, every list a command may carry and every graph;   *)
(* and then the contract: seen command by command, the two vectors, the    *)
(* heads and the recursive deletion implement NodeGraph.                   *)
(***************************************************************************)
EXTENDS Hierarchy, SequenceTheorems, TLAPS

-----------------------------------------------------------------------------
(* What each operation on a graph preserves *)

Sound(g) == g \in Graphs /\ SymmetricIn(g) /\ EdgesResolveIn(g) /\ Root \in g.nodes

\* Linking nodes that are indexed keeps a graph sound.
LEMMA LinkSound ==
  ASSUME NEW g, Sound(g), NEW P \in SUBSET g.nodes, NEW C \in SUBSET g.nodes
  PROVE  Sound(Link(g, P, C))
  BY DEF Sound, Graphs, SymmetricIn, EdgesResolveIn, Link

LEMMA UnlinkSound ==
  ASSUME NEW g, Sound(g), NEW P \in SUBSET Ids, NEW C \in SUBSET Ids
  PROVE  Sound(Unlink(g, P, C))
  BY DEF Sound, Graphs, SymmetricIn, EdgesResolveIn, Unlink

\* The members of the index are only added to, heads are free.
LEMMA IndexNewSound ==
  ASSUME NEW g, Sound(g), NEW S \in SUBSET Ids
  PROVE  /\ Sound(IndexNew(g, S))
         /\ IndexNew(g, S).nodes = g.nodes \cup (S \ Reserved)
         /\ IndexNew(g, S).parents = g.parents
         /\ IndexNew(g, S).origins = g.origins
         /\ IndexNew(g, S).heads = g.heads
  BY DEF Sound, Graphs, SymmetricIn, EdgesResolveIn, IndexNew

LEMMA HeadsSound ==
  ASSUME NEW g, Sound(g), NEW S \in SUBSET Ids
  PROVE  /\ Sound(MkHeads(g, S)) /\ Sound(RmHeads(g, S))
         /\ MkHeads(g, S).parents = g.parents /\ RmHeads(g, S).parents = g.parents
         /\ MkHeads(g, S).nodes = g.nodes /\ RmHeads(g, S).nodes = g.nodes
         /\ MkHeads(g, S).origins = g.origins /\ RmHeads(g, S).origins = g.origins
  BY DEF Sound, Graphs, SymmetricIn, EdgesResolveIn, MkHeads, RmHeads

LEMMA UpsertSound ==
  ASSUME NEW g, Sound(g), NEW n \in Ids
  PROVE  /\ Sound(UpsertNode(g, n))
         /\ UpsertNode(g, n).nodes = g.nodes \cup ({n} \ Reserved)
         /\ UpsertNode(g, n).origins = g.origins
  <1>1. CASE n \in g.nodes \cup Reserved
    BY <1>1 DEF UpsertNode, Sound
  <1>2. CASE n \notin g.nodes \cup Reserved
    <2> DEFINE in == IndexNew(g, {n})
    <2>1. Sound(in) /\ in.nodes = g.nodes \cup {n} /\ in.origins = g.origins
      BY <1>2, IndexNewSound
    <2>2. /\ Sound(MkHeads(in, {n})) /\ MkHeads(in, {n}).nodes = in.nodes
          /\ MkHeads(in, {n}).origins = in.origins
      <3> HIDE DEF in
      <3> QED BY <2>1, HeadsSound
    <2> HIDE DEF in
    <2> QED BY <1>2, <2>1, <2>2 DEF UpsertNode, in
  <1>3. QED BY <1>1, <1>2

LEMMA InsertParentsSound ==
  ASSUME NEW g, Sound(g), NEW n \in g.nodes, NEW ps \in SUBSET Ids
  PROVE  Sound(CrossInsertParents(g, n, ps))
  <1> DEFINE made == ps \ (g.nodes \cup Reserved)
             out  == IF g.parents[n] = {} THEN RmHeads(g, {n}) ELSE g
             in   == IndexNew(out, made)
             adopted == Link(in, {Root}, made)
  <1>1. CASE ps = {}
    BY <1>1 DEF CrossInsertParents
  <1>2. CASE ps # {}
    <2>1. n \in Ids /\ Root \in Ids /\ made \in SUBSET Ids
      BY RootAssumption DEF Sound, Graphs
    <2>2. Sound(out) /\ out.nodes = g.nodes
      BY <2>1, HeadsSound
    <2>3. Sound(in) /\ in.nodes = g.nodes \cup made
      <3> HIDE DEF out
      <3> QED BY <2>1, <2>2, IndexNewSound
    <2>4. Sound(adopted) /\ adopted.nodes = in.nodes
      <3>1. made \in SUBSET in.nodes /\ {Root} \in SUBSET in.nodes
        BY <2>3 DEF Sound
      <3> HIDE DEF in, made
      <3>2. Sound(adopted)
        BY <2>3, <3>1, LinkSound
      <3>3. adopted.nodes = in.nodes
        BY <2>3 DEF Link, Sound, Graphs
      <3> QED BY <3>2, <3>3
    <2>5. ps \ Reserved \in SUBSET adopted.nodes /\ {n} \in SUBSET adopted.nodes
      BY <2>3, <2>4
    <2>6. Sound(Link(adopted, ps \ Reserved, {n}))
      <3> HIDE DEF adopted
      <3> QED BY <2>4, <2>5, LinkSound
    <2> QED BY <1>2, <2>6 DEF CrossInsertParents
  <1>3. QED BY <1>1, <1>2

LEMMA InsertChildrenSound ==
  ASSUME NEW g, Sound(g), NEW n \in g.nodes, NEW cs \in SUBSET Ids
  PROVE  Sound(CrossInsertChildren(g, n, cs))
  <1> DEFINE kids    == cs \ Reserved
             adopted == {c \in kids \ g.children[n] : g.parents[c] = {}}
             in      == IndexNew(g, kids)
             out     == RmHeads(in, adopted)
  <1>1. kids \in SUBSET Ids /\ adopted \in SUBSET Ids
    OBVIOUS
  <1>2. Sound(in) /\ in.nodes = g.nodes \cup kids
    BY <1>1, IndexNewSound
  <1>3. Sound(out) /\ out.nodes = in.nodes
    <2> HIDE DEF in, adopted
    <2> QED BY <1>1, <1>2, HeadsSound
  <1>4. kids \in SUBSET out.nodes /\ {n} \in SUBSET out.nodes
    BY <1>2, <1>3
  <1>5. Sound(Link(out, {n}, kids))
    <2> HIDE DEF out, kids
    <2> QED BY <1>3, <1>4, LinkSound
  <1> QED BY <1>5 DEF CrossInsertChildren

\* h is g without the links from the nodes of P down to the nodes of C: the
\* index and the edges are as they were, and no other parent vector shrinks.
Cuts(g, h, P, C) ==
  /\ Sound(h) /\ h.nodes = g.nodes /\ h.origins = g.origins
  /\ \A m \in Ids : h.parents[m] = IF m \in C THEN g.parents[m] \ P ELSE g.parents[m]

LEMMA RemoveParentsSound ==
  ASSUME NEW g, Sound(g), NEW n \in Ids, NEW ps \in SUBSET Ids
  PROVE  Cuts(g, CrossRemoveParents(g, n, ps), ps, {n})
  <1> DEFINE cut == Unlink(g, ps, {n})
  <1>1. Sound(cut)
    BY UnlinkSound
  <1>2. /\ cut.nodes = g.nodes /\ cut.origins = g.origins
        /\ cut.parents = [m \in Ids |-> IF m = n THEN g.parents[m] \ ps ELSE g.parents[m]]
    BY DEF Unlink, Sound, Graphs
  <1>3. /\ Sound(MkHeads(cut, {n})) /\ MkHeads(cut, {n}).nodes = cut.nodes
        /\ MkHeads(cut, {n}).parents = cut.parents /\ MkHeads(cut, {n}).origins = cut.origins
    <2> HIDE DEF cut
    <2> QED BY <1>1, HeadsSound
  <1>4. CrossRemoveParents(g, n, ps) \in {cut, MkHeads(cut, {n})}
    BY DEF CrossRemoveParents
  <1> HIDE DEF cut
  <1>5. Cuts(g, cut, ps, {n}) /\ Cuts(g, MkHeads(cut, {n}), ps, {n})
    BY <1>1, <1>2, <1>3 DEF Cuts
  <1> QED BY <1>4, <1>5

LEMMA RemoveChildrenSound ==
  ASSUME NEW g, Sound(g), NEW n \in Ids, NEW cs \in SUBSET Ids
  PROVE  Cuts(g, CrossRemoveChildren(g, n, cs), {n}, cs)
  <1> DEFINE cut  == Unlink(g, {n}, cs)
             made == {c \in cs \cap g.nodes : cut.parents[c] = {}}
  <1>1. Sound(cut) /\ made \in SUBSET Ids
    BY UnlinkSound
  <1>2. /\ cut.nodes = g.nodes /\ cut.origins = g.origins
        /\ cut.parents = [m \in Ids |-> IF m \in cs THEN g.parents[m] \ {n} ELSE g.parents[m]]
    BY DEF Unlink, Sound, Graphs
  <1>3. /\ Sound(MkHeads(cut, made)) /\ MkHeads(cut, made).nodes = cut.nodes
        /\ MkHeads(cut, made).parents = cut.parents /\ MkHeads(cut, made).origins = cut.origins
    <2> HIDE DEF cut, made
    <2> QED BY <1>1, HeadsSound
  <1>4. CrossRemoveChildren(g, n, cs) = MkHeads(cut, made)
    BY DEF CrossRemoveChildren
  <1> HIDE DEF cut, made
  <1>5. Cuts(g, MkHeads(cut, made), {n}, cs)
    BY <1>2, <1>3 DEF Cuts
  <1> QED BY <1>4, <1>5

\* What most callers need of the two removals.
LEMMA RemovalsSound ==
  ASSUME NEW g, Sound(g), NEW n \in Ids, NEW ms \in SUBSET Ids
  PROVE  /\ Sound(CrossRemoveParents(g, n, ms)) /\ CrossRemoveParents(g, n, ms).nodes = g.nodes
         /\ Sound(CrossRemoveChildren(g, n, ms)) /\ CrossRemoveChildren(g, n, ms).nodes = g.nodes
  <1>1. Sound(CrossRemoveParents(g, n, ms)) /\ CrossRemoveParents(g, n, ms).nodes = g.nodes
    BY RemoveParentsSound DEF Cuts
  <1>2. Sound(CrossRemoveChildren(g, n, ms)) /\ CrossRemoveChildren(g, n, ms).nodes = g.nodes
    BY RemoveChildrenSound DEF Cuts
  <1> QED BY <1>1, <1>2

\* A node that has lost all of its links can be destroyed, except the root.
LEMMA DestroySound ==
  ASSUME NEW g, Sound(g), NEW n \in Ids \ {Root}, g.parents[n] = {}, g.children[n] = {}
  PROVE  /\ Sound(DestroyNode(g, n)) /\ DestroyNode(g, n).nodes = g.nodes \ {n}
         /\ DestroyNode(g, n).parents = g.parents
  BY DEF Sound, Graphs, SymmetricIn, EdgesResolveIn, DestroyNode

LEMMA DelNodeSound ==
  ASSUME NEW g, Sound(g), NEW n \in Ids
  PROVE  /\ Sound(DelNode(g, n))
         /\ DelNode(g, n).nodes = g.nodes \ ({n} \ {Root})
         /\ \A m \in Ids : g.parents[m] = {} => DelNode(g, n).parents[m] = {}
  <1> DEFINE A == CrossRemoveChildren(g, n, g.children[n])
             B == CrossRemoveParents(A, n, A.parents[n])
  <1>1. g.children[n] \in SUBSET Ids
    BY DEF Sound, Graphs
  <1>2. Cuts(g, A, {n}, g.children[n])
    BY <1>1, RemoveChildrenSound
  <1> HIDE DEF A
  <1>3. Sound(A) /\ A.parents[n] \in SUBSET Ids
    BY <1>2 DEF Cuts, Sound, Graphs
  <1>4. Cuts(A, B, A.parents[n], {n})
    BY <1>3, RemoveParentsSound
  <1> HIDE DEF B
  <1> USE DEF Cuts
  <1>5. \A m \in Ids : n \notin B.parents[m]
    <2> SUFFICES ASSUME NEW m \in Ids, n \in B.parents[m] PROVE FALSE
      OBVIOUS
    <2>1. n \in A.parents[m]
      BY <1>4
    <2>2. n \in g.parents[m] /\ m \notin g.children[n]
      BY <1>2, <2>1
    <2> QED BY <2>2 DEF Sound, SymmetricIn
  <1>6. B.parents[n] = {} /\ B.children[n] = {}
    <2>1. B.parents[n] = {}
      BY <1>4
    <2>2. \A c \in Ids : c \notin B.children[n]
      BY <1>4, <1>5 DEF Sound, SymmetricIn
    <2>3. B.children[n] \subseteq Ids
      BY <1>4 DEF Sound, Graphs
    <2> QED BY <2>1, <2>2, <2>3
  <1>7. CASE n = Root
    BY <1>2, <1>7 DEF DelNode, A
  <1>8. CASE n # Root
    <2>3. Sound(B) /\ n \in Ids \ {Root}
      BY <1>4, <1>8
    <2> HIDE DEF Cuts
    <2>1. /\ Sound(DestroyNode(B, n)) /\ DestroyNode(B, n).nodes = B.nodes \ {n}
          /\ DestroyNode(B, n).parents = B.parents
      BY <1>6, <2>3, DestroySound
    <2>2. DelNode(g, n) = DestroyNode(B, n)
      BY <1>8 DEF DelNode, A, B
    <2> DEFINE r == DestroyNode(B, n)
    <2> HIDE DEF r
    <2>4. /\ Sound(r) /\ r.nodes = B.nodes \ {n}
          /\ \A m \in Ids : r.parents[m] = B.parents[m]
      BY <2>1 DEF r
    <2>5. /\ B.nodes = g.nodes
          /\ \A m \in Ids : g.parents[m] = {} => B.parents[m] = {}
      BY <1>2, <1>4 DEF Cuts
    <2>6. DelNode(g, n) = r
      BY <2>2 DEF r
    <2> QED BY <1>8, <2>4, <2>5, <2>6
  <1> QED BY <1>7, <1>8

-----------------------------------------------------------------------------
(* The inductive invariant *)

\* The node of an activation has no parents any more, so it is below no node
\* and in no list of children made since: no other activation can reach it.
Apart(g, stack) ==
  \A i \in 1..Len(stack) :
    /\ stack[i].node \in g.nodes
    /\ g.parents[stack[i].node] = {}
    /\ \A j \in i..Len(stack) :
         /\ stack[i].node \notin stack[j].todo
         /\ i # j => stack[i].node # stack[j].node

IInv == /\ Sound(graph)
        /\ calls \in Seq(Calls) /\ before \in Graphs
        /\ Apart(graph, calls)

\* With no command running the part about the stack holds trivially.
LEMMA CommitKeeps ==
  ASSUME IInv, Idle, NEW g, Sound(g), Commit(g)
  PROVE  IInv'
  <1>1. graph' = g /\ before' = g /\ calls' = <<>>
    BY DEF Commit, Idle
  <1>2. calls' \in Seq(Calls) /\ Len(calls') = 0
    BY <1>1
  <1>3. Apart(graph', calls')
    BY <1>2 DEF Apart
  <1>4. Sound(graph') /\ before' \in Graphs
    BY <1>1 DEF Sound
  <1> QED BY <1>2, <1>3, <1>4 DEF IInv, Sound, Graphs, SymmetricIn, EdgesResolveIn, Apart

\* Entering DelHierarchyNodeP for a node that no activation is working on.
LEMMA EnterKeeps ==
  ASSUME NEW g, Sound(g), NEW stack \in Seq(Calls), Apart(g, stack),
         NEW n \in g.nodes, NEW force \in BOOLEAN,
         \A i \in 1..Len(stack) : stack[i].node # n,
         Enter(g, stack, n, force)
  PROVE  Sound(graph') /\ calls' \in Seq(Calls) /\ Apart(graph', calls')
  <1> DEFINE cut == CrossRemoveParents(g, n, g.parents[n])
             new == [node |-> n, todo |-> cut.children[n], force |-> force]
  <1>1. n \in Ids /\ g.parents[n] \in SUBSET Ids
    BY DEF Sound, Graphs
  <1>2. Cuts(g, cut, g.parents[n], {n})
    BY <1>1, RemoveParentsSound
  <1>3. graph' = cut /\ calls' = Append(stack, new)
    BY DEF Enter
  <1> HIDE DEF cut
  <1> USE DEF Cuts
  <1>4. new \in Calls
    BY <1>1, <1>2 DEF Calls, Sound, Graphs
  <1>5. \A m \in Ids : cut.parents[m] = {} => m \notin new.todo
    BY <1>1, <1>2 DEF Sound, SymmetricIn
  <1>6. cut.parents[n] = {} /\ \A m \in Ids : g.parents[m] = {} => cut.parents[m] = {}
    BY <1>1, <1>2
  <1>7. new.node = n
    OBVIOUS
  <1> HIDE DEF new
  <1>8. /\ calls' \in Seq(Calls) /\ Len(calls') = Len(stack) + 1
        /\ calls'[Len(stack) + 1] = new
        /\ \A i \in 1..Len(stack) : calls'[i] = stack[i] /\ stack[i].node \in Ids
    <2>1. /\ calls' \in Seq(Calls) /\ Len(calls') = Len(stack) + 1
          /\ calls'[Len(stack) + 1] = new
          /\ \A i \in 1..Len(stack) : calls'[i] = stack[i]
      BY <1>3, <1>4, AppendProperties
    <2>2. \A i \in 1..Len(stack) : stack[i] \in Calls
      BY ElementOfSeq
    <2> QED BY <2>1, <2>2 DEF Calls
  <1>9. Apart(graph', calls')
    <2> SUFFICES ASSUME NEW i \in 1..Len(calls')
                 PROVE  /\ calls'[i].node \in graph'.nodes
                        /\ graph'.parents[calls'[i].node] = {}
                        /\ \A j \in i..Len(calls') :
                             /\ calls'[i].node \notin calls'[j].todo
                             /\ i # j => calls'[i].node # calls'[j].node
      BY DEF Apart
    <2>1. CASE i = Len(stack) + 1
      BY <2>1, <1>1, <1>2, <1>3, <1>5, <1>6, <1>7, <1>8
    <2>2. CASE i \in 1..Len(stack)
      <3>1. /\ stack[i].node \in g.nodes /\ g.parents[stack[i].node] = {}
            /\ calls'[i] = stack[i] /\ stack[i].node \in Ids
        BY <2>2, <1>8 DEF Apart
      <3>2. stack[i].node \notin new.todo /\ stack[i].node # n
        BY <2>2, <3>1, <1>5, <1>6
      <3>3. ASSUME NEW j \in i..Len(calls')
            PROVE  /\ calls'[i].node \notin calls'[j].todo
                   /\ i # j => calls'[i].node # calls'[j].node
        <4>1. CASE j = Len(stack) + 1
          BY <4>1, <3>1, <3>2, <1>7, <1>8
        <4>2. CASE j \in i..Len(stack)
          BY <2>2, <4>2, <3>1, <1>8 DEF Apart
        <4> QED BY <4>1, <4>2, <1>8, <2>2
      <3> QED BY <3>1, <3>3, <1>2, <1>3, <1>6
    <2> QED BY <2>1, <2>2, <1>8
  <1> QED BY <1>2, <1>3, <1>8, <1>9

\* rest is stack with fewer activations and less to do, over the graph h.
Shrinks(h, stack, rest) ==
  /\ Len(rest) \in Nat /\ Len(stack) \in Nat /\ Len(rest) <= Len(stack)
  /\ \A i \in 1..Len(rest) :
       /\ rest[i].node = stack[i].node /\ rest[i].todo \subseteq stack[i].todo
       /\ stack[i].node \in h.nodes /\ h.parents[stack[i].node] = {}

\* Cutting links and shrinking a list of children leave the activations apart.
LEMMA ApartShrinks ==
  ASSUME NEW g, NEW h, NEW stack, NEW rest, Apart(g, stack), Shrinks(h, stack, rest)
  PROVE  Apart(h, rest)
  <1> USE DEF Shrinks
  <1> SUFFICES ASSUME NEW i \in 1..Len(rest)
               PROVE  /\ rest[i].node \in h.nodes
                      /\ h.parents[rest[i].node] = {}
                      /\ \A j \in i..Len(rest) :
                           /\ rest[i].node \notin rest[j].todo
                           /\ i # j => rest[i].node # rest[j].node
    BY DEF Apart
  <1>1. i \in 1..Len(stack) /\ \A j \in i..Len(rest) : j \in i..Len(stack) /\ j \in 1..Len(rest)
    OBVIOUS
  <1>2. /\ g.parents[stack[i].node] = {}
        /\ \A j \in i..Len(stack) :
             /\ stack[i].node \notin stack[j].todo
             /\ i # j => stack[i].node # stack[j].node
    BY <1>1 DEF Apart
  <1> QED BY <1>1, <1>2

-----------------------------------------------------------------------------
(* Every command and every step of a deletion keeps the invariant *)

LEMMA InitIInv == Init => IInv
  <1> SUFFICES ASSUME Init PROVE IInv
    OBVIOUS
  <1>1. Sound(graph) /\ before \in Graphs
    BY RootAssumption DEF Init, NewHierarchy, Sound, Graphs, SymmetricIn, EdgesResolveIn
  <1>2. calls \in Seq(Calls) /\ Len(calls) = 0
    BY DEF Init
  <1>3. Apart(graph, calls)
    BY <1>2 DEF Apart
  <1> QED BY <1>1, <1>2, <1>3 DEF IInv

\* selva.modify on the parents, the children and the edges of a node.
LEMMA ModifyKeeps ==
  ASSUME IInv,
         \/ \E n \in Ids, noRoot \in BOOLEAN : CreateNode(n, noRoot)
         \/ \E n \in Ids, L \in Lists :
              \/ SetParents(n, L) \/ AddParents(n, L) \/ DelParents(n, L)
              \/ SetChildren(n, L) \/ AddChildren(n, L) \/ DelChildren(n, L)
         \/ \E n \in Ids : ClearParents(n) \/ ClearChildren(n)
         \/ \E e \in Edges : AddEdge(e[1], e[2]) \/ DelEdge(e[1], e[2])
  PROVE  IInv'
  <1> USE DEF IInv
  <1>1. ASSUME NEW n \in Ids, NEW noRoot \in BOOLEAN, CreateNode(n, noRoot) PROVE IInv'
    <2>1. Sound(UpsertNode(graph, n))
      BY UpsertSound
    <2>2. Sound(CrossInsertParents(IndexNew(graph, {n}), n, {Root}))
      <3> DEFINE in == IndexNew(graph, {n})
      <3>1. Sound(in) /\ n \in in.nodes
        BY <1>1, IndexNewSound DEF CreateNode
      <3>2. {Root} \in SUBSET Ids
        BY RootAssumption
      <3> HIDE DEF in
      <3>3. Sound(CrossInsertParents(in, n, {Root}))
        BY <3>1, <3>2, InsertParentsSound
      <3> QED BY <3>3 DEF in
    <2> DEFINE g == IF noRoot THEN UpsertNode(graph, n)
                    ELSE CrossInsertParents(IndexNew(graph, {n}), n, {Root})
    <2>3. Sound(g)
      BY <2>1, <2>2
    <2>4. Idle /\ Commit(g)
      BY <1>1 DEF CreateNode
    <2> HIDE DEF g
    <2> QED BY <2>3, <2>4, CommitKeeps
  <1>2. ASSUME NEW n \in Ids, NEW L \in Lists,
               \/ SetParents(n, L) \/ AddParents(n, L) \/ DelParents(n, L)
               \/ SetChildren(n, L) \/ AddChildren(n, L) \/ DelChildren(n, L)
        PROVE  IInv'
    <2> DEFINE P == CrossInsertParents(graph, n, L)
               C == CrossInsertChildren(graph, n, L)
    <2>1. L \in SUBSET Ids /\ Idle /\ n \in graph.nodes
      BY <1>2, InputAssumption
           DEF SetParents, AddParents, DelParents, SetChildren, AddChildren, DelChildren
    <2>2. Sound(P) /\ P.parents[n] \ L \in SUBSET Ids
      <3>1. Sound(P)
        BY <2>1, InsertParentsSound
      <3> HIDE DEF P
      <3> QED BY <3>1 DEF Sound, Graphs
    <2>3. Sound(C) /\ C.children[n] \ L \in SUBSET Ids
      <3>1. Sound(C)
        BY <2>1, InsertChildrenSound
      <3> HIDE DEF C
      <3> QED BY <3>1 DEF Sound, Graphs
    <2>4. CASE SetParents(n, L)
      <3>1. Commit(CrossRemoveParents(P, n, P.parents[n] \ L))
        BY <2>4 DEF SetParents
      <3> HIDE DEF P
      <3>2. Sound(CrossRemoveParents(P, n, P.parents[n] \ L))
        BY <2>2, RemovalsSound
      <3> QED BY <2>1, <3>1, <3>2, CommitKeeps
    <2>5. CASE SetChildren(n, L)
      <3>1. Commit(CrossRemoveChildren(C, n, C.children[n] \ L))
        BY <2>5 DEF SetChildren
      <3> HIDE DEF C
      <3>2. Sound(CrossRemoveChildren(C, n, C.children[n] \ L))
        BY <2>3, RemovalsSound
      <3> QED BY <2>1, <3>1, <3>2, CommitKeeps
    <2>6. CASE AddParents(n, L)
      BY <2>1, <2>2, <2>6, CommitKeeps DEF AddParents
    <2>7. CASE AddChildren(n, L)
      BY <2>1, <2>3, <2>7, CommitKeeps DEF AddChildren
    <2>8. CASE DelParents(n, L)
      <3>1. Sound(CrossRemoveParents(graph, n, L))
        BY <2>1, RemovalsSound
      <3> QED BY <2>1, <2>8, <3>1, CommitKeeps DEF DelParents
    <2>9. CASE DelChildren(n, L)
      <3>1. Sound(CrossRemoveChildren(graph, n, L))
        BY <2>1, RemovalsSound
      <3> QED BY <2>1, <2>9, <3>1, CommitKeeps DEF DelChildren
    <2> QED BY <1>2, <2>4, <2>5, <2>6, <2>7, <2>8, <2>9
  <1>3. ASSUME NEW n \in Ids, ClearParents(n) PROVE IInv'
    <2> DEFINE old == graph.parents[n]
               cut == CrossRemoveParents(graph, n, old)
    <2>1. old \in SUBSET Ids /\ Idle
      BY <1>3 DEF Sound, Graphs, ClearParents
    <2>2. Commit(cut)
      BY <1>3 DEF ClearParents
    <2> HIDE DEF old
    <2>3. Sound(cut)
      BY <2>1, RemovalsSound
    <2> HIDE DEF cut, IInv
    <2> QED BY <2>1, <2>2, <2>3, CommitKeeps
  <1>4. ASSUME NEW n \in Ids, ClearChildren(n) PROVE IInv'
    <2> DEFINE old == graph.children[n]
               cut == CrossRemoveChildren(graph, n, old)
    <2>1. old \in SUBSET Ids /\ Idle
      BY <1>4 DEF Sound, Graphs, ClearChildren
    <2>2. Commit(cut)
      BY <1>4 DEF ClearChildren
    <2> HIDE DEF old
    <2>3. Sound(cut)
      BY <2>1, RemovalsSound
    <2> HIDE DEF cut, IInv
    <2> QED BY <2>1, <2>2, <2>3, CommitKeeps
  <1>5. ASSUME NEW src \in Ids, NEW dst \in Ids, AddEdge(src, dst) PROVE IInv'
    <2> DEFINE u == UpsertNode(graph, dst)
               g == [u EXCEPT !.origins[dst] = @ \cup {src}]
    <2>1. Sound(u) /\ src \in u.nodes /\ dst \in u.nodes
      <3>1. Sound(graph) /\ src \in graph.nodes /\ dst \notin Reserved
        BY <1>5 DEF AddEdge
      <3>2. Sound(u) /\ u.nodes = graph.nodes \cup ({dst} \ Reserved)
        BY <3>1, UpsertSound
      <3> HIDE DEF u, g, IInv
      <3> QED BY <3>1, <3>2
    <2>2. Idle /\ Commit(g)
      BY <1>5 DEF AddEdge
    <2> HIDE DEF u
    <2> HIDE DEF IInv
    <2>3. Sound(g)
      <3>1. u.nodes \subseteq Ids /\ u.origins \in [Ids -> SUBSET Ids]
        BY <2>1 DEF Sound, Graphs
      <3>2. /\ g \in Graphs /\ g.nodes = u.nodes
            /\ g.parents = u.parents /\ g.children = u.children
        BY <2>1 DEF Sound, Graphs
      <3>3. \A n \in Ids : g.origins[n] = u.origins[n] \cup (IF n = dst THEN {src} ELSE {})
        BY <2>1, <3>1 DEF Sound, Graphs
      <3> HIDE DEF g
      <3> QED BY <2>1, <3>2, <3>3 DEF Sound, SymmetricIn, EdgesResolveIn
    <2> HIDE DEF g
    <2> QED BY <2>2, <2>3, CommitKeeps
  <1>6. ASSUME NEW src \in Ids, NEW dst \in Ids, DelEdge(src, dst) PROVE IInv'
    <2> DEFINE g == [graph EXCEPT !.origins[dst] = @ \ {src}]
    <2>1. Idle /\ Commit(g)
      BY <1>6 DEF DelEdge
    <2>2. Sound(g)
      BY DEF Sound, Graphs, SymmetricIn, EdgesResolveIn
    <2> HIDE DEF g, IInv
    <2> QED BY <2>1, <2>2, CommitKeeps
  <1>7. \A e \in Edges : e[1] \in Ids /\ e[2] \in Ids
    BY InputAssumption
  <1> HIDE DEF IInv
  <1> QED BY <1>1, <1>2, <1>3, <1>4, <1>5, <1>6, <1>7

\* A deletion begins.
LEMMA DelKeeps ==
  ASSUME IInv, NEW n \in Ids, NEW force \in BOOLEAN, Del(n, force)
  PROVE  IInv'
  <1>1. Sound(graph) /\ calls \in Seq(Calls) /\ Apart(graph, calls) /\ n \in graph.nodes
        /\ Enter(graph, calls, n, force) /\ before' = before
        /\ \A i \in 1..Len(calls) : calls[i].node # n
    BY DEF IInv, Del, Idle
  <1>2. Sound(graph') /\ calls' \in Seq(Calls) /\ Apart(graph', calls')
    BY <1>1, EnterKeeps
  <1> QED BY <1>1, <1>2 DEF IInv, Sound, Graphs, SymmetricIn, EdgesResolveIn, Apart

\* One child of the innermost activation.
LEMMA DelChildKeeps ==
  ASSUME IInv, NEW c \in Ids, DelChild(c)
  PROVE  IInv'
  <1> DEFINE top  == calls[Last]
             new  == [top EXCEPT !.todo = @ \ {c}]
             rest == [calls EXCEPT ![Last].todo = @ \ {c}]
             cut  == CrossRemoveChildren(graph, top.node, {c})
  <1>1. /\ Sound(graph) /\ calls \in Seq(Calls) /\ Apart(graph, calls)
        /\ calls # <<>> /\ c \in top.todo /\ before' = before
    BY DEF IInv, DelChild, Idle
  <1>2. Last \in 1..Len(calls) /\ top \in Calls
    <2>1. Last \in 1..Len(calls)
      BY <1>1 DEF Last
    <2> QED BY <1>1, <2>1, ElementOfSeq
  <1>3. /\ rest \in Seq(Calls) /\ Len(rest) = Len(calls)
        /\ \A i \in 1..Len(calls) : /\ rest[i].node = calls[i].node
                                    /\ rest[i].todo \subseteq calls[i].todo
    <2>1. new \in Calls /\ rest = [calls EXCEPT ![Last] = new]
      BY <1>2 DEF Calls
    <2>2. new.node = top.node /\ new.todo \subseteq top.todo
      BY <1>2 DEF Calls
    <2> HIDE DEF new
    <2> DEFINE ex == [calls EXCEPT ![Last] = new]
    <2>3. /\ ex \in Seq(Calls) /\ Len(ex) = Len(calls)
          /\ \A i \in 1..Len(calls) : ex[i] = IF i = Last THEN new ELSE calls[i]
      BY <1>1, <1>2, <2>1, ExceptSeq
    <2>4. rest = ex
      BY <2>1
    <2> HIDE DEF ex, rest
    <2>5. /\ \A i \in 1..Len(calls) : i # Last => rest[i] = calls[i]
          /\ rest[Last] = new
      BY <1>2, <2>3, <2>4
    <2>6. \A i \in 1..Len(calls) : /\ rest[i].node = calls[i].node
                                   /\ rest[i].todo \subseteq calls[i].todo
      BY <2>2, <2>5
    <2> QED BY <2>3, <2>4, <2>6
  <1>4. \A i \in 1..Len(calls) : /\ calls[i].node \in Ids
                                 /\ calls[i].node \in graph.nodes
                                 /\ graph.parents[calls[i].node] = {}
                                 /\ calls[i].node # c
    <2>1. \A i \in 1..Len(calls) : calls[i] \in Calls
      BY <1>1, ElementOfSeq
    <2>2. \A i \in 1..Len(calls) : Last \in i..Len(calls)
      BY <1>1, <1>2 DEF Last
    <2> QED BY <1>1, <2>1, <2>2 DEF Apart, Calls
  <1>5. /\ Sound(cut) /\ cut.nodes = graph.nodes
        /\ \A m \in Ids : graph.parents[m] = {} => cut.parents[m] = {}
    <2>1. top.node \in Ids /\ {c} \in SUBSET Ids
      BY <1>2 DEF Calls
    <2>2. Cuts(graph, cut, {top.node}, {c})
      BY <1>1, <2>1, RemoveChildrenSound
    <2> HIDE DEF cut
    <2> QED BY <2>2 DEF Cuts
  <1>6. Apart(graph, rest) /\ Apart(cut, rest)
    <2>1. Len(rest) \in Nat /\ Len(calls) \in Nat /\ Len(rest) <= Len(calls)
      BY <1>1, <1>3
    <2> HIDE DEF cut, rest
    <2>2. \A i \in 1..Len(rest) :
            /\ rest[i].node = calls[i].node /\ rest[i].todo \subseteq calls[i].todo
            /\ calls[i].node \in graph.nodes /\ calls[i].node \in cut.nodes
            /\ graph.parents[calls[i].node] = {} /\ cut.parents[calls[i].node] = {}
      BY <1>3, <1>4, <1>5
    <2>3. Shrinks(graph, calls, rest) /\ Shrinks(cut, calls, rest)
      BY <2>1, <2>2 DEF Shrinks
    <2> QED BY <1>1, <2>3, ApartShrinks
  <1>7. Sound(graph') /\ calls' \in Seq(Calls) /\ Apart(graph', calls')
    <2>1. CASE graph' = graph /\ calls' = rest
      <3> HIDE DEF rest
      <3> QED BY <2>1, <1>1, <1>3, <1>6 DEF Sound, Graphs, SymmetricIn, EdgesResolveIn, Apart
    <2>2. CASE graph' = cut /\ calls' = rest
      <3> HIDE DEF rest, cut
      <3> QED BY <2>2, <1>3, <1>5, <1>6 DEF Sound, Graphs, SymmetricIn, EdgesResolveIn, Apart
    <2>3. CASE c \in graph.nodes /\ Enter(cut, rest, c, top.force)
      <3>1. top.force \in BOOLEAN /\ c \in cut.nodes
        BY <1>2, <1>5, <2>3 DEF Calls
      <3>2. \A i \in 1..Len(rest) : rest[i].node # c
        BY <1>3, <1>4
      <3>3. Enter(cut, rest, c, top.force)
        BY <2>3
      <3> HIDE DEF cut, rest, top
      <3> QED BY <1>3, <1>5, <1>6, <3>1, <3>2, <3>3, EnterKeeps
    <2> QED BY <2>1, <2>2, <2>3 DEF DelChild
  <1>8. before' \in Graphs
    BY <1>1 DEF IInv
  <1> QED BY <1>7, <1>8 DEF IInv, Sound, Graphs, SymmetricIn, EdgesResolveIn, Apart

\* The innermost activation destroys its node and returns.
LEMMA DelReturnKeeps ==
  ASSUME IInv, DelReturn
  PROVE  IInv'
  <1> DEFINE n    == calls[Last].node
             g    == DelNode(graph, n)
             rest == SubSeq(calls, 1, Last - 1)
  <1>1. /\ Sound(graph) /\ calls \in Seq(Calls) /\ Apart(graph, calls) /\ calls # <<>>
        /\ graph' = g /\ calls' = rest /\ before' \in {g, before}
    BY DEF IInv, DelReturn, Idle
  <1>2. Last \in 1..Len(calls) /\ Last = Len(calls)
    BY <1>1 DEF Last
  <1>3. \A i \in 1..Len(calls) : calls[i] \in Calls
    BY <1>1, ElementOfSeq
  <1>4. /\ rest \in Seq(Calls) /\ Len(rest) = Len(calls) - 1
        /\ \A i \in 1..Len(rest) : rest[i] = calls[i]
    <2>1. \A i \in 1..(Last - 1) : calls[i] \in Calls
      BY <1>2, <1>3
    <2>2. 1 \in Int /\ Last - 1 \in Int
      BY <1>2
    <2>3. /\ rest \in Seq(Calls)
          /\ Len(rest) = IF 1 <= Last - 1 THEN (Last - 1) - 1 + 1 ELSE 0
          /\ \A i \in 1..((Last - 1) - 1 + 1) : rest[i] = calls[1 + i - 1]
      BY <2>1, <2>2, SubSeqProperties
    <2> HIDE DEF rest
    <2> QED BY <1>2, <2>3
  <1>5. n \in Ids
    BY <1>2, <1>3 DEF Calls
  <1>6. /\ Sound(g) /\ g.nodes = graph.nodes \ ({n} \ {Root})
        /\ \A m \in Ids : graph.parents[m] = {} => g.parents[m] = {}
    BY <1>1, <1>5, DelNodeSound
  <1>7. Apart(g, rest)
    <2>1. \A i \in 1..Len(rest) :
            /\ calls[i].node \in Ids /\ calls[i].node \in graph.nodes
            /\ graph.parents[calls[i].node] = {} /\ calls[i].node # n
      <3> SUFFICES ASSUME NEW i \in 1..Len(rest)
                   PROVE  /\ calls[i].node \in Ids /\ calls[i].node \in graph.nodes
                          /\ graph.parents[calls[i].node] = {} /\ calls[i].node # n
        OBVIOUS
      <3>1. i \in 1..Len(calls) /\ Last \in i..Len(calls) /\ i # Last
        BY <1>2, <1>4
      <3> QED BY <1>1, <1>3, <3>1 DEF Apart, Calls
    <2>2. Len(rest) \in Nat /\ Len(calls) \in Nat /\ Len(rest) <= Len(calls)
      BY <1>1, <1>2, <1>4
    <2>4. Apart(graph, calls)
      BY <1>1
    <2> HIDE DEF g, rest, n
    <2>3. \A i \in 1..Len(rest) :
            /\ rest[i].node = calls[i].node /\ rest[i].todo \subseteq calls[i].todo
            /\ calls[i].node \in g.nodes
            /\ g.parents[calls[i].node] = {}
      BY <1>4, <1>6, <2>1
    <2>5. Shrinks(g, calls, rest)
      BY <2>2, <2>3 DEF Shrinks
    <2> QED BY <2>4, <2>5, ApartShrinks
  <1>8. before' \in Graphs /\ Sound(graph')
    <2> HIDE DEF g
    <2>1. g \in Graphs
      BY <1>6 DEF Sound
    <2> QED BY <1>1, <1>6, <2>1 DEF IInv, Sound, Graphs, SymmetricIn, EdgesResolveIn
  <1> HIDE DEF g, rest
  <1>9. Apart(graph', calls') /\ calls' \in Seq(Calls)
    BY <1>1, <1>4, <1>7 DEF Apart
  <1> QED BY <1>8, <1>9 DEF IInv

-----------------------------------------------------------------------------
(* The theorems *)

LEMMA NextKeeps == IInv /\ [Next]_vars => IInv'
  <1> SUFFICES ASSUME IInv, [Next]_vars PROVE IInv'
    OBVIOUS
  <1>1. ASSUME NEW n \in Ids, NEW force \in BOOLEAN, Del(n, force) PROVE IInv'
    BY <1>1, DelKeeps
  <1>2. ASSUME NEW c \in Ids, DelChild(c) PROVE IInv'
    BY <1>2, DelChildKeeps
  <1>3. CASE DelReturn
    BY <1>3, DelReturnKeeps
  <1>4. CASE UNCHANGED vars
    BY <1>4 DEF vars, IInv, Sound, Graphs, SymmetricIn, EdgesResolveIn, Apart
  <1> QED BY <1>1, <1>2, <1>3, <1>4, ModifyKeeps DEF Next, Recursion

LEMMA Inductive == Spec => []IInv
  BY InitIInv, NextKeeps, PTL DEF Spec

\* Every variable keeps its shape for every graph and every command.
THEOREM TypeCorrect == Spec => []TypeOK
  <1>1. IInv => TypeOK
    BY DEF IInv, Sound, TypeOK
  <1> QED BY <1>1, Inductive, PTL

\* The parent and the child vectors always tell the same relation, and no link
\* has an end outside the index, in the middle of a deletion too.
THEOREM AlwaysSymmetric == Spec => []Symmetric
  <1>1. IInv => Symmetric
    BY DEF IInv, Sound, Symmetric
  <1> QED BY <1>1, Inductive, PTL

\* No edge is left with an end that has been destroyed.
THEOREM EdgesAlwaysResolve == Spec => []EdgesResolve
  <1>1. IInv => EdgesResolve
    BY DEF IInv, Sound, EdgesResolve
  <1> QED BY <1>1, Inductive, PTL

\* A recursive deletion never works on a node it has already destroyed, and
\* never enters one node twice, whatever cycles the graph has.
THEOREM DeletionNeverLoopsBack == Spec => []CallsAreLive
  <1>1. IInv => CallsAreLive
    <2> SUFFICES ASSUME IInv, NEW i \in DOMAIN calls, NEW j \in DOMAIN calls
                 PROVE  /\ calls[i].node \in graph.nodes
                        /\ i # j => calls[i].node # calls[j].node
      BY DEF CallsAreLive
    <2>1. i \in 1..Len(calls) /\ j \in 1..Len(calls)
      BY DEF IInv
    <2>2. j \in i..Len(calls) \/ i \in j..Len(calls)
      BY <2>1
    <2> QED BY <2>1, <2>2 DEF IInv, Apart
  <1> QED BY <1>1, Inductive, PTL

-----------------------------------------------------------------------------
(* The heads, when no command can name an id that newNode() refuses *)

Headed(g) == g.heads = HeadsOf(g)

LEMMA RemoveParentsHeaded ==
  ASSUME NEW g, Sound(g), Headed(g), NEW n \in g.nodes, NEW ps \in SUBSET Ids
  PROVE  Headed(CrossRemoveParents(g, n, ps))
  <1> DEFINE cut == Unlink(g, ps, {n})
  <1>1. n \in Ids
    BY DEF Sound, Graphs
  <1>2. /\ cut.nodes = g.nodes /\ cut.heads = g.heads
        /\ cut.parents = [m \in Ids |-> IF m = n THEN g.parents[m] \ ps ELSE g.parents[m]]
    BY DEF Unlink, Sound, Graphs
  <1>3. /\ MkHeads(cut, {n}).heads = g.heads \cup {n}
        /\ MkHeads(cut, {n}).nodes = g.nodes /\ MkHeads(cut, {n}).parents = cut.parents
    BY <1>2 DEF MkHeads, Unlink, Sound, Graphs
  <1>4. g.nodes \subseteq Ids /\ g.heads = {m \in g.nodes : g.parents[m] = {}} \cup {Root}
    BY DEF Sound, Graphs, Headed, HeadsOf
  <1> HIDE DEF cut
  <1>5. CASE g.parents[n] # {} /\ cut.parents[n] = {}
    <2>1. CrossRemoveParents(g, n, ps) = MkHeads(cut, {n})
      BY <1>5 DEF CrossRemoveParents, cut
    <2>2. g.heads \cup {n} = {m \in g.nodes : cut.parents[m] = {}} \cup {Root}
      <3>1. \A m \in g.nodes : cut.parents[m] = {} <=> g.parents[m] = {} \/ m = n
        BY <1>2, <1>4, <1>5
      <3> DEFINE H == g.heads \cup {n}
                 K == {m \in g.nodes : cut.parents[m] = {}} \cup {Root}
      <3>2. \A m : m \in H <=> m \in K
        BY <1>4, <3>1
      <3> HIDE DEF H, K
      <3>3. H = K
        BY <3>2
      <3> QED BY <3>3 DEF H, K
    <2>3. Headed(MkHeads(cut, {n}))
      BY <1>3, <2>2 DEF Headed, HeadsOf
    <2> QED BY <2>1, <2>3
  <1>6. CASE ~(g.parents[n] # {} /\ cut.parents[n] = {})
    <2>1. CrossRemoveParents(g, n, ps) = cut
      BY <1>6 DEF CrossRemoveParents, cut
    <2>2. g.parents[n] = {} <=> cut.parents[n] = {}
      BY <1>1, <1>2, <1>6
    <2>3. g.heads = {m \in g.nodes : cut.parents[m] = {}} \cup {Root}
      BY <1>1, <1>2, <1>4, <2>2
    <2> QED BY <1>2, <2>1, <2>3 DEF Headed, HeadsOf
  <1> QED BY <1>5, <1>6

LEMMA RemoveChildrenHeaded ==
  ASSUME NEW g, Sound(g), Headed(g), NEW n \in Ids, NEW cs \in SUBSET Ids
  PROVE  Headed(CrossRemoveChildren(g, n, cs))
  <1> DEFINE cut  == Unlink(g, {n}, cs)
             made == {c \in cs \cap g.nodes : cut.parents[c] = {}}
  <1>1. /\ cut.nodes = g.nodes /\ cut.heads = g.heads
        /\ cut.parents = [m \in Ids |-> IF m \in cs THEN g.parents[m] \ {n} ELSE g.parents[m]]
    BY DEF Unlink, Sound, Graphs
  <1>2. /\ MkHeads(cut, made).heads = g.heads \cup made
        /\ MkHeads(cut, made).nodes = g.nodes /\ MkHeads(cut, made).parents = cut.parents
    BY <1>1 DEF MkHeads, Unlink, Sound, Graphs
  <1>3. g.nodes \subseteq Ids /\ g.heads = {m \in g.nodes : g.parents[m] = {}} \cup {Root}
    BY DEF Sound, Graphs, Headed, HeadsOf
  <1>4. CrossRemoveChildren(g, n, cs) = MkHeads(cut, made)
    BY DEF CrossRemoveChildren
  <1> HIDE DEF cut
  <1>5. g.heads \cup made = {m \in g.nodes : cut.parents[m] = {}} \cup {Root}
    BY <1>1, <1>3
  <1> HIDE DEF made
  <1> QED BY <1>2, <1>4, <1>5 DEF Headed, HeadsOf

\* The node that is given parents may be new, and then not a head yet.
LEMMA InsertParentsHeaded ==
  ASSUME Reserved = {},
         NEW g, Sound(g), NEW n \in g.nodes, NEW ps \in SUBSET Ids, ps # {},
         Headed(g) \/ (g.parents[n] = {} /\ g.heads = HeadsOf(g) \ {n} /\ n # Root)
  PROVE  Headed(CrossInsertParents(g, n, ps))
  <1> DEFINE made == ps \ g.nodes
             r    == CrossInsertParents(g, n, ps)
  <1>1. /\ n \in Ids /\ g.nodes \subseteq Ids /\ Root \in g.nodes
        /\ \A m \in made : m \in Ids /\ g.parents[m] = {}
        /\ g.heads \ ({n} \ {Root}) = ({m \in g.nodes : g.parents[m] = {}} \ {n}) \cup {Root}
        /\ g.parents[n] # {} => Headed(g)
    <2>1. g.nodes \subseteq Ids /\ g.parents \in [Ids -> SUBSET Ids] /\ Root \in g.nodes
      BY DEF Sound, Graphs
    <2>2. \A m \in made : m \in Ids /\ g.parents[m] = {}
      BY <2>1 DEF Sound, SymmetricIn
    <2> QED BY <2>1, <2>2 DEF Headed, HeadsOf
  <1>2. /\ r.heads = IF g.parents[n] = {} THEN g.heads \ ({n} \ {Root}) ELSE g.heads
        /\ r.nodes = g.nodes \cup made
        /\ \A m \in Ids :
             r.parents[m] = IF m = n THEN g.parents[m] \cup ps
                            ELSE IF m \in made THEN g.parents[m] \cup {Root}
                            ELSE g.parents[m]
    <2> DEFINE out == IF g.parents[n] = {} THEN RmHeads(g, {n}) ELSE g
               in  == IndexNew(out, made)
               one == Link(in, {Root}, made)
    <2>1. /\ out \in Graphs /\ out.nodes = g.nodes /\ out.parents = g.parents
          /\ out.heads = IF g.parents[n] = {} THEN g.heads \ ({n} \ {Root}) ELSE g.heads
      BY <1>1 DEF Sound, Graphs, RmHeads
    <2>2. /\ in \in Graphs /\ in.nodes = g.nodes \cup made /\ in.parents = g.parents
          /\ in.heads = out.heads
      <3> HIDE DEF out
      <3> QED BY <2>1 DEF IndexNew, Graphs
    <2>3. /\ one \in Graphs /\ one.nodes = in.nodes /\ one.heads = in.heads
          /\ one.parents = [m \in Ids |-> IF m \in made THEN g.parents[m] \cup {Root}
                                          ELSE g.parents[m]]
      <3> HIDE DEF in
      <3> QED BY <2>2, RootAssumption DEF Link, Graphs
    <2>4. r = Link(one, ps, {n})
      BY DEF CrossInsertParents
    <2> HIDE DEF one, r
    <2>5. /\ r.nodes = one.nodes /\ r.heads = one.heads
          /\ r.parents = [m \in Ids |-> IF m \in {n} THEN one.parents[m] \cup ps
                                        ELSE one.parents[m]]
      BY <2>3, <2>4 DEF Link, Graphs
    <2> HIDE DEF in, out
    <2>6. n \notin made
      OBVIOUS
    <2> HIDE DEF made
    <2>7. r.heads = out.heads /\ r.nodes = g.nodes \cup made
      BY <2>2, <2>3, <2>5
    <2>8. \A m \in Ids :
            r.parents[m]
              = IF m = n THEN g.parents[m] \cup ps
                ELSE IF m \in made THEN g.parents[m] \cup {Root}
                ELSE g.parents[m]
      <3> SUFFICES ASSUME NEW m \in Ids
                   PROVE  r.parents[m] = IF m = n THEN g.parents[m] \cup ps
                                         ELSE IF m \in made THEN g.parents[m] \cup {Root}
                                         ELSE g.parents[m]
        OBVIOUS
      <3>1. r.parents[m] = IF m = n THEN one.parents[m] \cup ps ELSE one.parents[m]
        BY <2>5
      <3>2. one.parents[m] = IF m \in made THEN g.parents[m] \cup {Root} ELSE g.parents[m]
        BY <2>3
      <3> QED BY <2>6, <3>1, <3>2
    <2> QED BY <2>1, <2>7, <2>8
  <1> HIDE DEF r
  <1>3. r.heads = {m \in r.nodes : r.parents[m] = {}} \cup {Root}
    <2>1. {m \in r.nodes : r.parents[m] = {}} = {m \in g.nodes : g.parents[m] = {}} \ {n}
      <3>1. \A m \in r.nodes :
              r.parents[m] = {} <=> m \in g.nodes /\ g.parents[m] = {} /\ m # n
        BY <1>1, <1>2
      <3>2. g.nodes \subseteq r.nodes
        BY <1>2
      <3> QED BY <3>1, <3>2
    <2>2. r.heads = ({m \in g.nodes : g.parents[m] = {}} \ {n}) \cup {Root}
      BY <1>1, <1>2 DEF Headed, HeadsOf
    <2> QED BY <2>1, <2>2
  <1> QED BY <1>3 DEF r, Headed, HeadsOf

LEMMA InsertChildrenHeaded ==
  ASSUME Reserved = {},
         NEW g, Sound(g), Headed(g), NEW n \in g.nodes, NEW cs \in SUBSET Ids
  PROVE  Headed(CrossInsertChildren(g, n, cs))
  <1> DEFINE adopted == {c \in cs \ g.children[n] : g.parents[c] = {}}
             in      == IndexNew(g, cs)
             out     == RmHeads(in, adopted)
             r       == CrossInsertChildren(g, n, cs)
  <1>1. /\ in \in Graphs /\ in.nodes = g.nodes \cup cs
        /\ in.parents = g.parents /\ in.heads = g.heads
    BY DEF IndexNew, Sound, Graphs
  <1>2. /\ out \in Graphs /\ out.nodes = g.nodes \cup cs /\ out.parents = g.parents
        /\ out.heads = g.heads \ (adopted \ {Root})
    <2> HIDE DEF in
    <2> QED BY <1>1 DEF RmHeads, Graphs
  <1>3. r = Link(out, {n}, cs)
    BY DEF CrossInsertChildren
  <1> HIDE DEF out, r
  <1>4. /\ r.nodes = g.nodes \cup cs /\ r.heads = g.heads \ (adopted \ {Root})
        /\ r.parents = [m \in Ids |-> IF m \in cs THEN g.parents[m] \cup {n} ELSE g.parents[m]]
    BY <1>2, <1>3 DEF Link, Graphs
  <1>5. /\ g.nodes \subseteq Ids /\ n \in Ids
        /\ \A c \in cs : g.parents[c] = {} => c \in adopted
        /\ g.heads = {m \in g.nodes : g.parents[m] = {}} \cup {Root}
    BY DEF Sound, Graphs, SymmetricIn, Headed, HeadsOf
  <1>6. r.heads = {m \in r.nodes : r.parents[m] = {}} \cup {Root}
    BY <1>4, <1>5
  <1> QED BY <1>6 DEF r, Headed, HeadsOf

LEMMA UpsertHeaded ==
  ASSUME NEW g, Sound(g), Headed(g), NEW n \in Ids
  PROVE  Headed(UpsertNode(g, n))
  <1>1. n \notin g.nodes => g.parents[n] = {}
    BY DEF Sound, Graphs, SymmetricIn
  <1> QED BY <1>1 DEF Sound, Graphs, Headed, HeadsOf, UpsertNode, MkHeads, IndexNew

LEMMA DelNodeHeaded ==
  ASSUME NEW g, Sound(g), Headed(g), NEW n \in g.nodes
  PROVE  Headed(DelNode(g, n))
  <1> DEFINE A == CrossRemoveChildren(g, n, g.children[n])
             B == CrossRemoveParents(A, n, A.parents[n])
  <1>1. g.children[n] \in SUBSET Ids /\ n \in Ids
    BY DEF Sound, Graphs
  <1>2. Sound(A) /\ Headed(A) /\ A.nodes = g.nodes
    <2> DEFINE cs == g.children[n]
    <2> HIDE DEF cs
    <2>1. cs \in SUBSET Ids
      BY <1>1 DEF cs
    <2>2. /\ Sound(CrossRemoveChildren(g, n, cs))
          /\ CrossRemoveChildren(g, n, cs).nodes = g.nodes
      BY <1>1, <2>1, RemovalsSound
    <2>3. Headed(CrossRemoveChildren(g, n, cs))
      BY <1>1, <2>1, RemoveChildrenHeaded
    <2> QED BY <2>2, <2>3 DEF cs
  <1>3. A.parents[n] \in SUBSET Ids /\ n \in A.nodes
    BY <1>2 DEF Sound, Graphs
  <1> HIDE DEF A
  <1>4. Sound(B) /\ Headed(B)
    <2> DEFINE ps == A.parents[n]
    <2> HIDE DEF ps
    <2>1. ps \in SUBSET Ids /\ n \in A.nodes
      BY <1>3 DEF ps
    <2>2. Sound(CrossRemoveParents(A, n, ps))
      BY <1>1, <1>2, <2>1, RemovalsSound
    <2>3. Headed(CrossRemoveParents(A, n, ps))
      BY <1>2, <2>1, RemoveParentsHeaded
    <2> QED BY <2>2, <2>3 DEF ps
  <1> HIDE DEF B
  <1>5. n # Root => Headed(DestroyNode(B, n))
    BY <1>4 DEF Sound, Graphs, Headed, HeadsOf, DestroyNode
  <1> QED BY <1>2, <1>5 DEF DelNode, A, B

LEMMA EnterHeaded ==
  ASSUME NEW g, Sound(g), Headed(g), NEW n \in g.nodes, NEW stack, NEW force,
         Enter(g, stack, n, force)
  PROVE  Headed(graph')
  <1>1. g.parents[n] \in SUBSET Ids
    BY DEF Sound, Graphs
  <1>2. Headed(CrossRemoveParents(g, n, g.parents[n]))
    BY <1>1, RemoveParentsHeaded
  <1> QED BY <1>2 DEF Enter, Headed, HeadsOf

HeadedInv == IInv /\ Headed(graph)

\* Every command and every step of a deletion keeps the heads right.
LEMMA NextHeaded ==
  ASSUME Reserved = {}, HeadedInv, [Next]_vars
  PROVE  Headed(graph')
  <1>1. Sound(graph) /\ Headed(graph) /\ graph.nodes \subseteq Ids
    BY DEF HeadedInv, IInv, Sound, Graphs
  <1>2. ASSUME NEW n \in Ids, NEW noRoot \in BOOLEAN, CreateNode(n, noRoot)
        PROVE  Headed(graph')
    <2> DEFINE in == IndexNew(graph, {n})
    <2>1. /\ Sound(in) /\ in.nodes = graph.nodes \cup {n} /\ in.parents = graph.parents
          /\ in.heads = graph.heads
      BY <1>1, IndexNewSound
    <2>2. n # Root /\ graph.parents[n] = {} /\ n \notin graph.nodes
      BY <1>1, <1>2 DEF CreateNode, Sound, Graphs, SymmetricIn
    <2> HIDE DEF in
    <2>3. in.heads = HeadsOf(in) \ {n} /\ in.parents[n] = {} /\ n \in in.nodes
      BY <1>1, <2>1, <2>2 DEF Headed, HeadsOf
    <2>4. Headed(CrossInsertParents(in, n, {Root}))
      BY <2>1, <2>2, <2>3, RootAssumption, InsertParentsHeaded
    <2>5. Headed(UpsertNode(graph, n))
      BY <1>1, UpsertHeaded
    <2> QED BY <1>2, <2>4, <2>5 DEF CreateNode, Commit, in, Headed, HeadsOf
  <1>3. ASSUME NEW n \in Ids, NEW L \in Lists,
               SetParents(n, L) \/ AddParents(n, L) \/ DelParents(n, L)
        PROVE  Headed(graph')
    <2> DEFINE P == CrossInsertParents(graph, n, L)
    <2>1. L \in SUBSET Ids /\ L # {} /\ n \in graph.nodes
      BY <1>3, InputAssumption DEF SetParents, AddParents, DelParents
    <2>2. Sound(P) /\ Headed(P) /\ n \in P.nodes
      <3>1. Sound(P) /\ Headed(P)
        BY <1>1, <2>1, InsertParentsSound, InsertParentsHeaded
      <3>2. n \in P.nodes
        BY <1>1, <2>1 DEF CrossInsertParents, Link, IndexNew, RmHeads, Sound, Graphs
      <3> QED BY <3>1, <3>2
    <2> HIDE DEF P
    <2>3. Headed(CrossRemoveParents(P, n, P.parents[n] \ L))
      <3>1. P.parents[n] \ L \in SUBSET Ids
        BY <1>1, <2>1, <2>2 DEF Sound, Graphs
      <3> QED BY <2>2, <3>1, RemoveParentsHeaded
    <2>4. Headed(CrossRemoveParents(graph, n, L))
      BY <1>1, <2>1, RemoveParentsHeaded
    <2> QED BY <1>3, <2>2, <2>3, <2>4
          DEF SetParents, AddParents, DelParents, Commit, P, Headed, HeadsOf
  <1>4. ASSUME NEW n \in Ids, NEW L \in Lists,
               SetChildren(n, L) \/ AddChildren(n, L) \/ DelChildren(n, L)
        PROVE  Headed(graph')
    <2> DEFINE C == CrossInsertChildren(graph, n, L)
    <2>1. L \in SUBSET Ids /\ n \in graph.nodes
      BY <1>4, InputAssumption DEF SetChildren, AddChildren, DelChildren
    <2>2. Sound(C) /\ Headed(C)
      BY <1>1, <2>1, InsertChildrenSound, InsertChildrenHeaded
    <2> HIDE DEF C
    <2>3. Headed(CrossRemoveChildren(C, n, C.children[n] \ L))
      <3>1. C.children[n] \ L \in SUBSET Ids
        BY <2>2 DEF Sound, Graphs
      <3> QED BY <2>2, <3>1, RemoveChildrenHeaded
    <2>4. Headed(CrossRemoveChildren(graph, n, L))
      BY <1>1, <2>1, RemoveChildrenHeaded
    <2> QED BY <1>4, <2>2, <2>3, <2>4
          DEF SetChildren, AddChildren, DelChildren, Commit, C, Headed, HeadsOf
  <1>5. ASSUME NEW n \in Ids, ClearParents(n) \/ ClearChildren(n) PROVE Headed(graph')
    <2>1. /\ n \in graph.nodes
          /\ graph.parents[n] \in SUBSET Ids /\ graph.children[n] \in SUBSET Ids
      BY <1>1, <1>5 DEF ClearParents, ClearChildren, Sound, Graphs
    <2>2. /\ Headed(CrossRemoveParents(graph, n, graph.parents[n]))
          /\ Headed(CrossRemoveChildren(graph, n, graph.children[n]))
      BY <1>1, <2>1, RemoveParentsHeaded, RemoveChildrenHeaded
    <2> QED BY <1>5, <2>2 DEF ClearParents, ClearChildren, Commit, Headed, HeadsOf
  <1>6. ASSUME NEW src \in Ids, NEW dst \in Ids, AddEdge(src, dst) \/ DelEdge(src, dst)
        PROVE  Headed(graph')
    <2> DEFINE u == UpsertNode(graph, dst)
    <2>1. Sound(u) /\ Headed(u)
      BY <1>1, UpsertSound, UpsertHeaded
    <2>2. CASE AddEdge(src, dst)
      <3>1. graph' = [u EXCEPT !.origins[dst] = @ \cup {src}]
        BY <2>2 DEF AddEdge, Commit
      <3> HIDE DEF u
      <3> QED BY <2>1, <3>1 DEF Sound, Graphs, Headed, HeadsOf
    <2>3. CASE DelEdge(src, dst)
      BY <1>1, <2>3 DEF DelEdge, Commit, Sound, Graphs, Headed, HeadsOf
    <2> QED BY <1>6, <2>2, <2>3
  <1>7. ASSUME NEW n \in Ids, NEW force \in BOOLEAN, Del(n, force) PROVE Headed(graph')
    BY <1>1, <1>7, EnterHeaded DEF Del
  <1>8. ASSUME NEW c \in Ids, DelChild(c) PROVE Headed(graph')
    <2> DEFINE cut == CrossRemoveChildren(graph, calls[Last].node, {c})
    <2>1. calls[Last].node \in Ids
      <3>1. calls \in Seq(Calls) /\ Last \in 1..Len(calls)
        BY <1>8 DEF HeadedInv, IInv, DelChild, Idle, Last
      <3>2. calls[Last] \in Calls
        BY <3>1, ElementOfSeq
      <3> QED BY <3>2 DEF Calls
    <2>2. Sound(cut) /\ Headed(cut) /\ cut.nodes = graph.nodes
      <3> DEFINE top == calls[Last].node
      <3>1. top \in Ids /\ {c} \in SUBSET Ids
        BY <2>1
      <3> HIDE DEF top
      <3>2. /\ Sound(CrossRemoveChildren(graph, top, {c}))
            /\ CrossRemoveChildren(graph, top, {c}).nodes = graph.nodes
        BY <1>1, <3>1, RemovalsSound
      <3>3. Headed(CrossRemoveChildren(graph, top, {c}))
        BY <1>1, <3>1, RemoveChildrenHeaded
      <3> QED BY <3>2, <3>3 DEF top
    <2> HIDE DEF cut
    <2>3. \/ graph' = graph
          \/ graph' = cut
          \/ c \in graph.nodes /\ \E stack, force : Enter(cut, stack, c, force)
      BY <1>8 DEF DelChild, cut
    <2> QED BY <1>1, <2>2, <2>3, EnterHeaded DEF Headed, HeadsOf
  <1>9. CASE DelReturn
    <2>1. calls[Last].node \in graph.nodes
      <3>1. calls \in Seq(Calls) /\ Last \in 1..Len(calls)
        BY <1>9 DEF HeadedInv, IInv, DelReturn, Idle, Last
      <3> QED BY <3>1 DEF HeadedInv, IInv, Apart
    <2>2. Headed(DelNode(graph, calls[Last].node))
      BY <1>1, <2>1, DelNodeHeaded
    <2> QED BY <1>9, <2>2 DEF DelReturn, Headed, HeadsOf
  <1>10. CASE UNCHANGED vars
    BY <1>1, <1>10 DEF vars, Headed, HeadsOf
  <1>11. \A e \in Edges : e[1] \in Ids /\ e[2] \in Ids
    BY InputAssumption
  <1> QED BY <1>2, <1>3, <1>4, <1>5, <1>6, <1>7, <1>8, <1>9, <1>10, <1>11
        DEF Next, Recursion

\* A traversal that starts from the heads misses no node that is its own top:
\* the heads are the nodes without parents and the root, in every state of every
\* command, as long as no command names an id that newNode() refuses.
THEOREM HeadsAlwaysOrphans ==
  ASSUME Reserved = {}
  PROVE  Spec => []HeadsAreOrphans
  <1>1. Init => HeadedInv
    BY InitIInv DEF Init, NewHierarchy, HeadedInv, Headed, HeadsOf
  <1>2. HeadedInv /\ [Next]_vars => HeadedInv'
    BY NextKeeps, NextHeaded DEF HeadedInv, Headed, HeadsOf
  <1>3. HeadedInv => HeadsAreOrphans
    BY DEF HeadedInv, Headed, HeadsAreOrphans
  <1> QED BY <1>1, <1>2, <1>3, PTL DEF Spec

-----------------------------------------------------------------------------
(* The contract's relations, read from a sound graph *)

Refs(g) == {e \in Ids \X Ids : e[1] \in g.origins[e[2]]}

LEMMA Relations ==
  ASSUME NEW g, Sound(g)
  PROVE  /\ Links(g) \in SUBSET (Ids \X Ids) /\ Refs(g) \in SUBSET (Ids \X Ids)
         /\ \A p, c \in Ids : /\ <<p, c>> \in Links(g) <=> p \in g.parents[c]
                              /\ <<p, c>> \in Refs(g) <=> p \in g.origins[c]
                              /\ <<p, c>> \in Links(g) => p \in g.nodes /\ c \in g.nodes
                              /\ <<p, c>> \in Refs(g) => p \in g.nodes /\ c \in g.nodes
         /\ \A m \in Ids : /\ g.parents[m] \subseteq g.nodes /\ g.children[m] \subseteq g.nodes
                           /\ g.origins[m] \subseteq g.nodes
         /\ g.nodes \subseteq Ids
  BY DEF Sound, SymmetricIn, EdgesResolveIn, Links, Refs, Graphs

LEMMA LinksOf ==
  ASSUME NEW g, Sound(g), NEW n \in Ids
  PROVE  /\ Contract!ParentsOf(Links(g), n) = g.parents[n]
         /\ Contract!ParentsOf(Refs(g), n) = g.origins[n]
<1>1. /\ \A p \in Ids : <<p, n>> \in Links(g) <=> p \in g.parents[n]
      /\ \A p \in Ids : <<p, n>> \in Refs(g) <=> p \in g.origins[n]
      /\ g.parents[n] \subseteq Ids /\ g.origins[n] \subseteq Ids
  BY Relations
<1> QED  BY <1>1 DEF Contract!ParentsOf

\* The parents of a node, and the edges to it, are all there is to a graph.
LEMMA SameLinks ==
  ASSUME NEW g, Sound(g), NEW R \in SUBSET (Ids \X Ids),
         \A p, c \in Ids : p \in g.parents[c] <=> <<p, c>> \in R
  PROVE  Links(g) = R
<1>1. \A p, c \in Ids : <<p, c>> \in Links(g) <=> <<p, c>> \in R
  BY Relations
<1>2. Links(g) \in SUBSET (Ids \X Ids)
  BY Relations
<1> QED  BY <1>1, <1>2

LEMMA SameRefs ==
  ASSUME NEW g, Sound(g), NEW R \in SUBSET (Ids \X Ids),
         \A p, c \in Ids : p \in g.origins[c] <=> <<p, c>> \in R
  PROVE  Refs(g) = R
<1>1. \A p, c \in Ids : <<p, c>> \in Refs(g) <=> <<p, c>> \in R
  BY Relations
<1>2. Refs(g) \in SUBSET (Ids \X Ids)
  BY Relations
<1> QED  BY <1>1, <1>2

LEMMA BelowFacts ==
  ASSUME NEW R \in SUBSET (Ids \X Ids), NEW n \in Ids
  PROVE  /\ n \in Contract!Below(R, n) /\ Contract!Below(R, n) \subseteq Ids
         /\ \A p, c \in Ids : p \in Contract!Below(R, n) /\ <<p, c>> \in R => c \in Contract!Below(R, n)
         /\ \A S \in SUBSET Ids :
              (n \in S /\ \A e \in R : e[1] \in S => e[2] \in S) => Contract!Below(R, n) \subseteq S
<1> DEFINE B == Contract!Below(R, n)
<1>1. \A m : m \in B <=> m \in Ids /\ \A S \in SUBSET Ids :
                (n \in S /\ \A e \in R : e[1] \in S => e[2] \in S) => m \in S
  BY DEF Contract!Below
<1> HIDE DEF B
<1>2. \A p, c \in Ids : p \in B /\ <<p, c>> \in R => c \in B
  <2> SUFFICES ASSUME NEW p \in Ids, NEW c \in Ids, p \in B, <<p, c>> \in R,
                      NEW S \in SUBSET Ids, n \in S, \A e \in R : e[1] \in S => e[2] \in S
               PROVE  c \in S
    BY <1>1
  <2>1. p \in S
    BY <1>1
  <2> QED  BY <2>1
<1>3. n \in B /\ B \subseteq Ids
  BY <1>1
<1>4. \A S \in SUBSET Ids : (n \in S /\ \A e \in R : e[1] \in S => e[2] \in S) => B \subseteq S
  BY <1>1
<1> QED  BY <1>2, <1>3, <1>4 DEF B

-----------------------------------------------------------------------------
(* What the operations do to the parents of each node *)

LEMMA InsertParentsEffect ==
  ASSUME NEW g, Sound(g), NEW n \in g.nodes, NEW ps \in SUBSET Ids, NEW h,
         h = CrossInsertParents(g, n, ps)
  PROVE  /\ Sound(h) /\ h.nodes = g.nodes \cup (ps \ Reserved) /\ h.origins = g.origins
         /\ \A p, c \in Ids :
              p \in h.parents[c] <=> \/ p \in g.parents[c]
                                     \/ p = Root /\ c \in ps \ (g.nodes \cup Reserved)
                                     \/ p \in ps \ Reserved /\ c = n
<1> DEFINE made == ps \ (g.nodes \cup Reserved)
           out  == IF g.parents[n] = {} THEN RmHeads(g, {n}) ELSE g
           in   == IndexNew(out, made)
           adopted == Link(in, {Root}, made)
<1>0. Sound(h)
  BY InsertParentsSound
<1>1. CASE ps = {}
  BY <1>0, <1>1 DEF CrossInsertParents
<1>2. CASE ps # {}
  <2>1. n \in Ids /\ Root \in Ids /\ made \in SUBSET Ids /\ g \in Graphs
    BY RootAssumption DEF Sound, Graphs
  <2>2. out.nodes = g.nodes /\ out.parents = g.parents /\ out.origins = g.origins /\ Sound(out)
    BY <2>1, HeadsSound
  <2> HIDE DEF out
  <2>3. in.nodes = g.nodes \cup made /\ in.parents = g.parents /\ in.origins = g.origins /\ Sound(in)
    BY <2>1, <2>2, IndexNewSound
  <2> HIDE DEF in
  <2>4. adopted.nodes = in.nodes /\ adopted.origins = in.origins
        /\ adopted.parents = [m \in Ids |-> IF m \in made THEN in.parents[m] \cup {Root} ELSE in.parents[m]]
    BY <2>3 DEF Link, Sound, Graphs
  <2>5. adopted \in Graphs
    BY <2>1, <2>3 DEF Link, Sound, Graphs
  <2>6. h = Link(adopted, ps \ Reserved, {n})
    BY <1>2 DEF CrossInsertParents, in, out
  <2> HIDE DEF adopted
  <2>7. h.nodes = adopted.nodes /\ h.origins = adopted.origins
        /\ h.parents = [m \in Ids |-> IF m = n THEN adopted.parents[m] \cup (ps \ Reserved)
                                               ELSE adopted.parents[m]]
    BY <2>5, <2>6 DEF Link, Graphs
  <2>8. h.nodes = g.nodes \cup (ps \ Reserved)
    BY <2>3, <2>4, <2>7
  <2>9. \A p, c \in Ids :
          p \in h.parents[c] <=> \/ p \in g.parents[c]
                                 \/ p = Root /\ c \in made
                                 \/ p \in ps \ Reserved /\ c = n
    BY <2>3, <2>4, <2>7
  <2> QED  BY <1>0, <2>3, <2>4, <2>7, <2>8, <2>9
<1> QED  BY <1>1, <1>2

LEMMA InsertChildrenEffect ==
  ASSUME NEW g, Sound(g), NEW n \in g.nodes, NEW cs \in SUBSET Ids, NEW h,
         h = CrossInsertChildren(g, n, cs)
  PROVE  /\ Sound(h) /\ h.nodes = g.nodes \cup (cs \ Reserved) /\ h.origins = g.origins
         /\ \A p, c \in Ids :
              p \in h.parents[c] <=> p \in g.parents[c] \/ (p = n /\ c \in cs \ Reserved)
<1> DEFINE kids    == cs \ Reserved
           adopted == {c \in kids \ g.children[n] : g.parents[c] = {}}
           in      == IndexNew(g, kids)
           out     == RmHeads(in, adopted)
<1>0. Sound(h)
  BY InsertChildrenSound
<1>1. kids \in SUBSET Ids /\ adopted \in SUBSET Ids /\ n \in Ids
  BY DEF Sound, Graphs
<1>2. in.nodes = g.nodes \cup kids /\ in.parents = g.parents /\ in.origins = g.origins /\ Sound(in)
  BY <1>1, IndexNewSound
<1> HIDE DEF in, adopted
<1>3. out.nodes = in.nodes /\ out.parents = in.parents /\ out.origins = in.origins /\ Sound(out)
  BY <1>1, <1>2, HeadsSound
<1>4. h = Link(out, {n}, kids)
  BY DEF CrossInsertChildren, in, adopted
<1> HIDE DEF out
<1>5. h.nodes = out.nodes /\ h.origins = out.origins
      /\ h.parents = [m \in Ids |-> IF m \in kids THEN out.parents[m] \cup {n} ELSE out.parents[m]]
  BY <1>3, <1>4 DEF Link, Sound, Graphs
<1>6. \A p, c \in Ids : p \in h.parents[c] <=> p \in g.parents[c] \/ (p = n /\ c \in kids)
  BY <1>2, <1>3, <1>5
<1>7. h.nodes = g.nodes \cup (cs \ Reserved) /\ h.origins = g.origins
  BY <1>2, <1>3, <1>5
<1> QED  BY <1>0, <1>6, <1>7

LEMMA UpsertEffect ==
  ASSUME NEW g, Sound(g), NEW n \in Ids
  PROVE  UpsertNode(g, n).parents = g.parents
<1> DEFINE in == IndexNew(g, {n})
<1>1. Sound(in) /\ in.parents = g.parents
  BY IndexNewSound
<1> HIDE DEF in
<1>2. MkHeads(in, {n}).parents = in.parents
  BY <1>1, HeadsSound
<1> QED  BY <1>1, <1>2 DEF UpsertNode, in

\* A node without links is all that del_node takes.
LEMMA DelNodeEffect ==
  ASSUME NEW g, Sound(g), NEW n \in Ids, g.parents[n] = {}, g.children[n] = {}, NEW h,
         h = DelNode(g, n)
  PROVE  /\ Sound(h) /\ h.nodes = g.nodes \ ({n} \ {Root})
         /\ \A m \in Ids : h.parents[m] = g.parents[m]
         /\ \A m, s \in Ids : s \in h.origins[m] <=> s \in g.origins[m] /\ s \in h.nodes /\ m \in h.nodes
<1> DEFINE A == CrossRemoveChildren(g, n, {})
           B == CrossRemoveParents(A, n, A.parents[n])
<1>1. Sound(h) /\ h.nodes = g.nodes \ ({n} \ {Root})
  BY DelNodeSound
<1>2. Cuts(g, A, {n}, {})
  BY RemoveChildrenSound
<1>3. DelNode(g, n) = IF n = Root THEN A ELSE DestroyNode(B, n)
  BY DEF DelNode
<1> HIDE DEF A
<1>4. Sound(A) /\ A.nodes = g.nodes /\ A.origins = g.origins /\ \A m \in Ids : A.parents[m] = g.parents[m]
  BY <1>2 DEF Cuts
<1>5. A.parents[n] \in SUBSET Ids
  BY <1>4 DEF Sound, Graphs
<1>6. Cuts(A, B, A.parents[n], {n})
  BY <1>4, <1>5, RemoveParentsSound
<1> HIDE DEF B
<1>7. Sound(B) /\ B.nodes = g.nodes /\ B.origins = g.origins /\ \A m \in Ids : B.parents[m] = g.parents[m]
  BY <1>4, <1>6 DEF Cuts
<1>8. \A m, s \in Ids : s \in g.origins[m] => s \in g.nodes /\ m \in g.nodes
  BY Relations
<1>9. CASE n = Root
  BY <1>1, <1>3, <1>4, <1>8, <1>9
<1>10. CASE n # Root
  <2>1. h = DestroyNode(B, n)
    BY <1>3, <1>10
  <2>2. h.parents = B.parents
        /\ h.origins = [m \in Ids |-> IF m = n THEN {} ELSE B.origins[m] \ {n}]
    BY <1>7, <2>1 DEF DestroyNode, Sound, Graphs
  <2>3. \A m, s \in Ids : s \in h.origins[m] <=> s \in g.origins[m] /\ s \in h.nodes /\ m \in h.nodes
    BY <1>1, <1>7, <1>8, <1>10, <2>2
  <2> QED  BY <1>1, <1>7, <2>2, <2>3
<1> QED  BY <1>9, <1>10

-----------------------------------------------------------------------------
(* The commands of selva.modify are steps of the contract *)

\* Between two commands clients see the graph as it is, without reserved ids.
Shown == before = graph /\ Sound(graph) /\ graph.nodes \cap Reserved = {}

\* A graph that a command commits, by what it is to the one before.
Commits(h) == Sound(h) /\ graph' = h /\ before' = h /\ calls' = calls /\ h.nodes \cap Reserved = {}

LEMMA CreateMaps ==
  ASSUME Shown, NEW n \in Ids, NEW noRoot \in BOOLEAN, CreateNode(n, noRoot)
  PROVE  Contract!Create /\ \E h : Commits(h)
<1> DEFINE g == graph
           in == IndexNew(g, {n})
           u  == UpsertNode(g, n)
           c  == CrossInsertParents(in, n, {Root})
<1>1. Sound(g) /\ before = g /\ n \in Ids \ (g.nodes \cup Reserved) /\ Root \in g.nodes
  BY DEF Shown, CreateNode, Sound
<1>2. graph' = (IF noRoot THEN u ELSE c) /\ before' = graph'
  BY DEF CreateNode, Commit
<1>3. Sound(in) /\ in.nodes = g.nodes \cup {n} /\ in.parents = g.parents /\ in.origins = g.origins
  BY <1>1, IndexNewSound
<1>4. Sound(u) /\ u.nodes = g.nodes \cup {n} /\ u.origins = g.origins /\ u.parents = g.parents
  BY <1>1, UpsertSound, UpsertEffect
<1> HIDE DEF in, u
<1>5. /\ Sound(c) /\ c.nodes = in.nodes \cup ({Root} \ Reserved) /\ c.origins = in.origins
      /\ \A p, m \in Ids :
           p \in c.parents[m] <=> \/ p \in in.parents[m]
                                  \/ p = Root /\ m \in {Root} \ (in.nodes \cup Reserved)
                                  \/ p \in {Root} \ Reserved /\ m = n
  BY <1>1, <1>3, InsertParentsEffect, RootAssumption
<1> HIDE DEF c, g
<1> DEFINE h == graph'
           R == IF noRoot THEN Links(g) ELSE Links(g) \cup {<<Root, n>>}
<1>6. Sound(h) /\ h.nodes = g.nodes \cup {n} /\ h.origins = g.origins
  BY <1>1, <1>2, <1>3, <1>4, <1>5
<1>7. Links(g) \in SUBSET (Ids \X Ids) /\ \A p, m \in Ids : <<p, m>> \in Links(g) <=> p \in g.parents[m]
  BY <1>1, Relations
<1>8. R \in SUBSET (Ids \X Ids)
  BY <1>7, RootAssumption
<1>9. ASSUME NEW p \in Ids, NEW m \in Ids PROVE p \in h.parents[m] <=> <<p, m>> \in R
  <2>1. CASE noRoot
    BY <1>2, <1>4, <1>7, <2>1
  <2>2. CASE ~noRoot
    <3>1. p \in h.parents[m] <=> p \in g.parents[m] \/ (p = Root /\ m = n)
      BY <1>1, <1>2, <1>3, <1>5, <2>2, RootAssumption
    <3> QED  BY <1>7, <2>2, <3>1
  <2> QED  BY <2>1, <2>2
<1> HIDE DEF h
<1>10. Links(h) = R
  <2> HIDE DEF R
  <2> QED  BY <1>6, <1>8, <1>9, SameLinks
<1>11. Refs(h) = Refs(g)
  BY <1>6 DEF Refs
<1>12. Contract!Create
  <2>1. before'.nodes = before.nodes \cup {n} /\ n \in Ids \ (before.nodes \cup Reserved)
        /\ Links(before') \in {Links(before), Links(before) \cup {<<Root, n>>}}
        /\ Refs(before') = Refs(before)
    BY <1>1, <1>2, <1>6, <1>10, <1>11 DEF h
  <2> QED  BY <2>1 DEF Contract!Create, Refs
<1>13. h.nodes \cap Reserved = {}
  BY <1>1, <1>6 DEF Shown, g
<1>14. Commits(h)
  BY <1>2, <1>6, <1>13 DEF Commits, CreateNode, Commit, h
<1> QED  BY <1>12, <1>14


LEMMA ParentsMaps ==
  ASSUME Shown, NEW n \in Ids, NEW ps \in Lists, SetParents(n, ps) \/ AddParents(n, ps)
  PROVE  /\ \E only \in BOOLEAN : Contract!Parents(n, ps, only)
         /\ \E h : Commits(h)
<1> DEFINE g == graph
           i == CrossInsertParents(g, n, ps)
           c == CrossRemoveParents(i, n, i.parents[n] \ ps)
           good == ps \ Reserved
           made == good \ g.nodes
<1>1. Sound(g) /\ before = g /\ n \in g.nodes /\ ps \in SUBSET Ids /\ g.nodes \cap Reserved = {}
  BY InputAssumption DEF Shown, SetParents, AddParents
<1>2. PICK only \in BOOLEAN : Commit(IF only THEN c ELSE i)
  BY DEF SetParents, AddParents
<1>3. /\ Sound(i) /\ i.nodes = g.nodes \cup good /\ i.origins = g.origins
      /\ \A p, m \in Ids :
           p \in i.parents[m] <=> \/ p \in g.parents[m]
                                  \/ p = Root /\ m \in ps \ (g.nodes \cup Reserved)
                                  \/ p \in good /\ m = n
  BY <1>1, InsertParentsEffect
<1> HIDE DEF i
<1>4. i.parents[n] \ ps \in SUBSET Ids
  BY <1>3 DEF Sound, Graphs
<1>5. Cuts(i, c, i.parents[n] \ ps, {n})
  BY <1>3, <1>4, RemoveParentsSound
<1> HIDE DEF c, g
<1> DEFINE h == IF only THEN c ELSE i
           kept == IF only THEN {e \in Links(g) : e[2] # n} ELSE Links(g)
           R == ({Root} \X made) \cup (good \X {n}) \cup kept
<1>6. Sound(h) /\ h.nodes = g.nodes \cup good /\ h.origins = g.origins
  BY <1>3, <1>5 DEF Cuts
<1>7. /\ Links(g) \in SUBSET (Ids \X Ids)
      /\ \A p, m \in Ids : /\ <<p, m>> \in Links(g) <=> p \in g.parents[m]
                           /\ p \in g.parents[m] => p \in g.nodes
  BY <1>1, Relations
<1>8. R \in SUBSET (Ids \X Ids)
  BY <1>1, <1>7, RootAssumption
<1>9. ASSUME NEW p \in Ids, NEW m \in Ids PROVE p \in h.parents[m] <=> <<p, m>> \in R
  <2>1. <<p, m>> \in R <=> \/ p = Root /\ m \in made
                           \/ p \in good /\ m = n
                           \/ p \in g.parents[m] /\ (only => m # n)
    BY <1>7
  <2>2. m \in made => m # n
    BY <1>1
  <2>3. CASE only
    <3>1. p \in c.parents[m] <=> p \in i.parents[m] /\ (m = n => p \in ps)
      BY <1>5 DEF Cuts
    <3>2. p \in g.parents[m] /\ p \in ps => p \in good
      BY <1>1, <1>7
    <3> QED  BY <1>3, <2>1, <2>2, <2>3, <3>1, <3>2
  <2>4. CASE ~only
    BY <1>3, <2>1, <2>4
  <2> QED  BY <2>3, <2>4
<1> HIDE DEF h
<1>10. Links(h) = R
  <2> HIDE DEF R
  <2> QED  BY <1>6, <1>8, <1>9, SameLinks
<1>11. Refs(h) = Refs(g)
  BY <1>6 DEF Refs
<1>12. graph' = h /\ before' = h /\ calls' = calls
  BY <1>2 DEF Commit, h
<1>13. Contract!Parents(n, ps, only)
  <2>1. /\ before'.nodes = before.nodes \cup (good \ before.nodes) /\ n \in before.nodes
        /\ Links(before') = ({Root} \X (good \ before.nodes)) \cup (good \X {n})
                              \cup (IF only THEN {e \in Links(before) : e[2] # n} ELSE Links(before))
        /\ Refs(before') = Refs(before)
    BY <1>1, <1>6, <1>10, <1>11, <1>12
  <2> QED  BY <2>1 DEF Contract!Parents, Refs
<1>14. Commits(h)
  BY <1>1, <1>6, <1>12 DEF Commits
<1> QED  BY <1>13, <1>14

LEMMA ChildrenMaps ==
  ASSUME Shown, NEW n \in Ids, NEW cs \in Lists, SetChildren(n, cs) \/ AddChildren(n, cs)
  PROVE  /\ \E only \in BOOLEAN : Contract!Children(n, cs, only)
         /\ \E h : Commits(h)
<1> DEFINE g == graph
           i == CrossInsertChildren(g, n, cs)
           c == CrossRemoveChildren(i, n, i.children[n] \ cs)
           good == cs \ Reserved
<1>1. Sound(g) /\ before = g /\ n \in g.nodes /\ cs \in SUBSET Ids /\ g.nodes \cap Reserved = {}
  BY InputAssumption DEF Shown, SetChildren, AddChildren
<1>2. PICK only \in BOOLEAN : Commit(IF only THEN c ELSE i)
  BY DEF SetChildren, AddChildren
<1>3. /\ Sound(i) /\ i.nodes = g.nodes \cup good /\ i.origins = g.origins
      /\ \A p, m \in Ids : p \in i.parents[m] <=> p \in g.parents[m] \/ (p = n /\ m \in good)
  BY <1>1, InsertChildrenEffect
<1> HIDE DEF i
<1>4. i.children[n] \ cs \in SUBSET Ids
  BY <1>3 DEF Sound, Graphs
<1>5. Cuts(i, c, {n}, i.children[n] \ cs)
  BY <1>3, <1>4, RemoveChildrenSound
<1> HIDE DEF c, g
<1> DEFINE h == IF only THEN c ELSE i
           kept == IF only THEN {e \in Links(g) : e[1] # n} ELSE Links(g)
           R == ({n} \X good) \cup kept
<1>6. Sound(h) /\ h.nodes = g.nodes \cup good /\ h.origins = g.origins
  BY <1>3, <1>5 DEF Cuts
<1>7. /\ Links(g) \in SUBSET (Ids \X Ids)
      /\ \A p, m \in Ids : /\ <<p, m>> \in Links(g) <=> p \in g.parents[m]
                           /\ p \in g.parents[m] => m \in g.nodes
  BY <1>1, Relations
<1>8. R \in SUBSET (Ids \X Ids)
  BY <1>1, <1>7 DEF Sound, Graphs
<1>9. ASSUME NEW p \in Ids, NEW m \in Ids PROVE p \in h.parents[m] <=> <<p, m>> \in R
  <2>1. <<p, m>> \in R <=> \/ p = n /\ m \in good
                           \/ p \in g.parents[m] /\ (only => p # n)
    BY <1>7
  <2>3. CASE only
    <3>1. p \in c.parents[m] <=> p \in i.parents[m] /\ (p = n => m \notin i.children[n] \ cs)
      BY <1>5 DEF Cuts
    <3>2. n \in Ids /\ (m \in i.children[n] <=> n \in i.parents[m])
      BY <1>3 DEF Sound, SymmetricIn, Graphs
    <3>3. p \in g.parents[m] /\ m \in cs => m \in good
      BY <1>1, <1>7
    <3> QED  BY <1>3, <2>1, <2>3, <3>1, <3>2, <3>3
  <2>4. CASE ~only
    BY <1>3, <2>1, <2>4
  <2> QED  BY <2>3, <2>4
<1> HIDE DEF h
<1>10. Links(h) = R
  <2> HIDE DEF R
  <2> QED  BY <1>6, <1>8, <1>9, SameLinks
<1>11. Refs(h) = Refs(g)
  BY <1>6 DEF Refs
<1>12. graph' = h /\ before' = h /\ calls' = calls
  BY <1>2 DEF Commit, h
<1>13. Contract!Children(n, cs, only)
  <2>1. /\ before'.nodes = before.nodes \cup good /\ n \in before.nodes
        /\ Links(before') = ({n} \X good)
                              \cup (IF only THEN {e \in Links(before) : e[1] # n} ELSE Links(before))
        /\ Refs(before') = Refs(before)
    BY <1>1, <1>6, <1>10, <1>11, <1>12
  <2> QED  BY <2>1 DEF Contract!Children, Refs
<1>14. Commits(h)
  BY <1>1, <1>6, <1>12 DEF Commits
<1> QED  BY <1>13, <1>14

\* Whatever takes links from one node alone is a Disconnect.
LEMMA CutMaps ==
  ASSUME Shown, NEW n \in graph.nodes, NEW P, NEW C, P = {n} \/ C = {n}, NEW h,
         Cuts(graph, h, P, C), Commit(h)
  PROVE  Contract!Disconnect /\ Commits(h)
<1>1. /\ Sound(graph) /\ before = graph /\ Sound(h) /\ h.nodes = graph.nodes /\ h.origins = graph.origins
      /\ graph' = h /\ before' = h /\ calls' = calls
      /\ \A m \in Ids : h.parents[m] = IF m \in C THEN graph.parents[m] \ P ELSE graph.parents[m]
  BY DEF Shown, Cuts, Commit
<1>2. /\ Links(h) \in SUBSET (Ids \X Ids) /\ Links(graph) \in SUBSET (Ids \X Ids)
      /\ \A p, m \in Ids : /\ <<p, m>> \in Links(h) <=> p \in h.parents[m]
                           /\ <<p, m>> \in Links(graph) <=> p \in graph.parents[m]
  BY <1>1, Relations
<1>3. Links(h) \subseteq Links(graph) /\ \A e \in Links(graph) \ Links(h) : n \in {e[1], e[2]}
  <2>1. ASSUME NEW p \in Ids, NEW m \in Ids
        PROVE  /\ <<p, m>> \in Links(h) => <<p, m>> \in Links(graph)
               /\ <<p, m>> \in Links(graph) /\ <<p, m>> \notin Links(h) => n \in {p, m}
    BY <1>1, <1>2
  <2> QED  BY <1>2, <2>1
<1>4. before'.nodes = before.nodes /\ Refs(before') = Refs(before) /\ n \in before.nodes
      /\ Links(before') \subseteq Links(before)
      /\ \A e \in Links(before) \ Links(before') : n \in {e[1], e[2]}
  BY <1>1, <1>3 DEF Refs
<1>5. Contract!Disconnect
  BY <1>4 DEF Contract!Disconnect, Refs
<1> QED  BY <1>1, <1>5 DEF Commits, Shown

LEMMA DisconnectMaps ==
  ASSUME Shown,
         \/ \E n \in Ids, L \in Lists : DelParents(n, L) \/ DelChildren(n, L)
         \/ \E n \in Ids : ClearParents(n) \/ ClearChildren(n)
  PROVE  Contract!Disconnect /\ \E h : Commits(h)
<1>1. PICK n \in Ids, S \in SUBSET Ids :
        n \in graph.nodes /\ \/ Commit(CrossRemoveParents(graph, n, S))
                             \/ Commit(CrossRemoveChildren(graph, n, S))
  <2>1. CASE \E n \in Ids, L \in Lists : DelParents(n, L) \/ DelChildren(n, L)
    BY <2>1, InputAssumption DEF DelParents, DelChildren
  <2>2. CASE \E n \in Ids : ClearParents(n) \/ ClearChildren(n)
    <3>1. \A n \in Ids : graph.parents[n] \in SUBSET Ids /\ graph.children[n] \in SUBSET Ids
      BY DEF Shown, Sound, Graphs
    <3> QED  BY <2>2, <3>1 DEF ClearParents, ClearChildren
  <2> QED  BY <2>1, <2>2
<1>2. Cuts(graph, CrossRemoveParents(graph, n, S), S, {n})
      /\ Cuts(graph, CrossRemoveChildren(graph, n, S), {n}, S)
  BY RemoveParentsSound, RemoveChildrenSound DEF Shown
<1> QED  BY <1>1, <1>2, CutMaps

LEMMA EdgeMaps ==
  ASSUME Shown, NEW s \in Ids, NEW d \in Ids, AddEdge(s, d) \/ DelEdge(s, d)
  PROVE  (Contract!Refer \/ Contract!Forget) /\ \E h : Commits(h)
<1>1. Sound(graph) /\ before = graph /\ graph.nodes \cap Reserved = {}
  BY DEF Shown
<1>2. CASE AddEdge(s, d)
  <2> DEFINE u == UpsertNode(graph, d)
             h == [u EXCEPT !.origins[d] = @ \cup {s}]
  <2>1. s \in graph.nodes /\ d \in Ids \ Reserved /\ Commit(h)
    BY <1>2 DEF AddEdge
  <2>2. /\ Sound(u) /\ u.nodes = graph.nodes \cup {d} /\ u.origins = graph.origins
        /\ u.parents = graph.parents
    BY <1>1, <2>1, UpsertSound, UpsertEffect
  <2> HIDE DEF u
  <2>3. h \in Graphs /\ h.nodes = u.nodes /\ h.parents = u.parents /\ h.children = u.children
        /\ h.origins = [m \in Ids |-> IF m = d THEN u.origins[m] \cup {s} ELSE u.origins[m]]
    BY <2>1, <2>2 DEF Sound, Graphs
  <2> HIDE DEF h
  <2>4. Sound(h)
    BY <2>1, <2>2, <2>3 DEF Sound, SymmetricIn, EdgesResolveIn
  <2>5. /\ Refs(graph) \in SUBSET (Ids \X Ids) /\ Links(graph) \in SUBSET (Ids \X Ids)
        /\ \A p, m \in Ids : /\ <<p, m>> \in Links(graph) <=> p \in graph.parents[m]
                             /\ <<p, m>> \in Refs(graph) <=> p \in graph.origins[m]
    BY <1>1, Relations
  <2>6. Links(h) = Links(graph)
    <3>1. \A p, m \in Ids : p \in h.parents[m] <=> <<p, m>> \in Links(graph)
      BY <2>2, <2>3, <2>5
    <3> QED  BY <2>4, <2>5, <3>1, SameLinks
  <2>7. Refs(h) = Refs(graph) \cup {<<s, d>>}
    <3> DEFINE R == Refs(graph) \cup {<<s, d>>}
    <3>1. R \in SUBSET (Ids \X Ids)
      BY <2>5
    <3>2. \A m \in Ids : h.origins[m] = IF m = d THEN graph.origins[m] \cup {s} ELSE graph.origins[m]
      BY <2>2, <2>3
    <3>4. \A p, m \in Ids : p \in h.origins[m] <=> <<p, m>> \in R
      BY <2>5, <3>2
    <3> HIDE DEF R
    <3>3. Refs(h) = R
      BY <2>4, <3>1, <3>4, SameRefs
    <3> QED  BY <3>3 DEF R
  <2>8. graph' = h /\ before' = h /\ calls' = calls
    BY <2>1 DEF Commit
  <2>9. Contract!Refer
    <3>1. /\ s \in before.nodes /\ before'.nodes = before.nodes \cup {d}
          /\ Refs(before') = Refs(before) \cup {<<s, d>>} /\ Links(before') = Links(before)
      BY <1>1, <2>1, <2>2, <2>3, <2>6, <2>7, <2>8
    <3> QED  BY <2>1, <3>1 DEF Contract!Refer, Refs
  <2>10. Commits(h)
    BY <1>1, <2>1, <2>2, <2>3, <2>4, <2>8 DEF Commits
  <2> QED  BY <2>9, <2>10
<1>3. CASE DelEdge(s, d)
  <2> DEFINE h == [graph EXCEPT !.origins[d] = @ \ {s}]
  <2>1. s \in graph.origins[d] /\ Commit(h)
    BY <1>3 DEF DelEdge
  <2>2. h \in Graphs /\ h.nodes = graph.nodes /\ h.parents = graph.parents /\ h.children = graph.children
        /\ h.origins = [m \in Ids |-> IF m = d THEN graph.origins[m] \ {s} ELSE graph.origins[m]]
    BY <1>1 DEF Sound, Graphs
  <2> HIDE DEF h
  <2>3. Sound(h)
    BY <1>1, <2>2 DEF Sound, SymmetricIn, EdgesResolveIn
  <2>4. /\ Refs(graph) \in SUBSET (Ids \X Ids) /\ Links(graph) \in SUBSET (Ids \X Ids)
        /\ \A p, m \in Ids : /\ <<p, m>> \in Links(graph) <=> p \in graph.parents[m]
                             /\ <<p, m>> \in Refs(graph) <=> p \in graph.origins[m]
    BY <1>1, Relations
  <2>5. Links(h) = Links(graph)
    BY <2>2, <2>3, <2>4, SameLinks
  <2>6. Refs(h) = Refs(graph) \ {<<s, d>>}
    <3> DEFINE R == Refs(graph) \ {<<s, d>>}
    <3>1. R \in SUBSET (Ids \X Ids)
      BY <2>4
    <3>2. \A p, m \in Ids : p \in h.origins[m] <=> <<p, m>> \in R
      BY <2>2, <2>4
    <3> HIDE DEF R
    <3>3. Refs(h) = R
      BY <2>3, <3>1, <3>2, SameRefs
    <3> QED  BY <3>3 DEF R
  <2>7. graph' = h /\ before' = h /\ calls' = calls
    BY <2>1 DEF Commit
  <2>8. Contract!Forget
    <3>1. /\ <<s, d>> \in Refs(before) /\ before'.nodes = before.nodes
          /\ Refs(before') = Refs(before) \ {<<s, d>>} /\ Links(before') = Links(before)
      BY <1>1, <2>1, <2>2, <2>4, <2>5, <2>6, <2>7
    <3> QED  BY <3>1 DEF Contract!Forget, Refs
  <2>9. Commits(h)
    BY <1>1, <2>2, <2>3, <2>7 DEF Commits
  <2> QED  BY <2>8, <2>9
<1> QED  BY <1>2, <1>3

-----------------------------------------------------------------------------
(* How far a deletion has come *)

Entered(stack) == {stack[i].node : i \in 1 .. Len(stack)}

\* The nodes of bare have been entered, and those that have been left again are gone or,
\* like the root, without links.  Every link that is cut was a link of one of them.
Stripped(was, g, stack, bare) ==
  /\ g.nodes \subseteq was.nodes /\ bare \subseteq was.nodes
  /\ Entered(stack) \subseteq bare /\ was.nodes \ g.nodes \subseteq bare
  /\ bare \subseteq (was.nodes \ g.nodes) \cup Entered(stack) \cup {Root}
  /\ \A d \in bare : g.parents[d] = {} /\ (d \in Entered(stack) \/ g.children[d] = {})
  /\ \A m \in Ids : /\ g.parents[m] \subseteq was.parents[m]
                    /\ \A p \in was.parents[m] \ g.parents[m] : p \in bare \/ m \in bare
  /\ \A m, s \in Ids : s \in g.origins[m] <=> s \in was.origins[m] /\ s \in g.nodes /\ m \in g.nodes

\* An activation has still to do what children its node has left, and nothing but its children.
Frames(was, g, stack, force) ==
  \A i \in 1 .. Len(stack) :
    /\ stack[i].force = force
    /\ g.children[stack[i].node] \subseteq stack[i].todo
    /\ stack[i].todo \subseteq was.children[stack[i].node]

\* Forced, whatever loses a parent is entered, and only what is below n is.
Forced(was, g, n, bare) ==
  /\ \A m \in Ids : was.parents[m] # g.parents[m] => m \in bare
  /\ bare \subseteq Contract!Below(Links(was), n)

\* Otherwise a node is entered after all of its parents, and when no edge refers to it; one
\* that has lost all of its parents and is not entered has been referred to from the beginning.
Spared(was, g, n, bare) ==
  /\ \A d \in bare \ {n} :
       was.parents[d] # {} /\ was.parents[d] \subseteq bare /\ was.origins[d] \cap g.nodes = {}
  /\ \A s \in was.nodes \ bare : was.parents[s] # {} /\ g.parents[s] = {} => was.origins[s] # {}

\* The deletion of n began with the graph was, and has come to the graph g.
Walk(was, g, stack, n, force, bare) ==
  /\ n \in bare /\ Stripped(was, g, stack, bare) /\ Frames(was, g, stack, force)
  /\ force => Forced(was, g, n, bare)
  /\ ~force => Spared(was, g, n, bare)

LEMMA FewerChildren ==
  ASSUME NEW g, Sound(g), NEW h, Sound(h), \A m \in Ids : h.parents[m] \subseteq g.parents[m]
  PROVE  \A p \in Ids : h.children[p] \subseteq g.children[p]
<1> SUFFICES ASSUME NEW p \in Ids, NEW c \in h.children[p] PROVE c \in g.children[p]
  OBVIOUS
<1>1. c \in Ids
  BY DEF Sound, Graphs
<1>2. p \in h.parents[c]
  BY <1>1 DEF Sound, SymmetricIn
<1>3. p \in g.parents[c]
  BY <1>1, <1>2
<1> QED  BY <1>1, <1>3 DEF Sound, SymmetricIn

-----------------------------------------------------------------------------
(* The stack of activations *)

\* The stack after one child of the innermost activation has been dealt with.
Handled(stack, c) == [stack EXCEPT ![Len(stack)].todo = @ \ {c}]

Rest(stack, rest, c) ==
  /\ Len(rest) = Len(stack) /\ Entered(rest) = Entered(stack)
  /\ \A i \in 1 .. Len(stack) :
       /\ rest[i].node = stack[i].node /\ rest[i].force = stack[i].force
       /\ rest[i].todo = IF i = Len(stack) THEN stack[i].todo \ {c} ELSE stack[i].todo

LEMMA RestFacts ==
  ASSUME NEW stack \in Seq(Calls), stack # <<>>, NEW c, NEW rest,
         rest = Handled(stack, c)
  PROVE  rest \in Seq(Calls) /\ Rest(stack, rest, c)
<1> DEFINE L == Len(stack)
           new == [stack[L] EXCEPT !.todo = @ \ {c}]
<1>1. L \in 1 .. Len(stack) /\ L \in Nat
  OBVIOUS
<1>2. stack[L] \in Calls
  BY <1>1, ElementOfSeq
<1>3. new \in Calls /\ new.node = stack[L].node /\ new.force = stack[L].force
      /\ new.todo = stack[L].todo \ {c}
  BY <1>2 DEF Calls
<1>4. rest = [stack EXCEPT ![L] = new]
  BY DEF Handled
<1> HIDE DEF new
<1>5. /\ rest \in Seq(Calls) /\ Len(rest) = Len(stack)
      /\ \A i \in 1 .. Len(stack) : rest[i] = IF i = L THEN new ELSE stack[i]
  <2> DEFINE ex == [stack EXCEPT ![L] = new]
  <2>1. /\ ex \in Seq(Calls) /\ Len(ex) = Len(stack)
        /\ \A i \in 1 .. Len(stack) : ex[i] = IF i = L THEN new ELSE stack[i]
    BY <1>1, <1>3, ExceptSeq
  <2>2. rest = ex
    BY <1>4
  <2> HIDE DEF ex
  <2> QED  BY <2>1, <2>2
<1>9. /\ rest[L] = new
      /\ \A i \in 1 .. Len(stack) : i # L => rest[i] = stack[i]
  BY <1>1, <1>5
<1>6. \A i \in 1 .. Len(stack) :
        /\ rest[i].node = stack[i].node /\ rest[i].force = stack[i].force
        /\ rest[i].todo = IF i = Len(stack) THEN stack[i].todo \ {c} ELSE stack[i].todo
  <2> SUFFICES ASSUME NEW i \in 1 .. Len(stack)
               PROVE  /\ rest[i].node = stack[i].node /\ rest[i].force = stack[i].force
                      /\ rest[i].todo = IF i = Len(stack) THEN stack[i].todo \ {c} ELSE stack[i].todo
    OBVIOUS
  <2>1. CASE i = L
    BY <1>3, <1>9, <2>1
  <2>2. CASE i # L
    BY <1>9, <2>2
  <2> QED  BY <2>1, <2>2
<1>7. Entered(rest) = Entered(stack)
  <2>1. Len(rest) = Len(stack) /\ \A i \in 1 .. Len(stack) : rest[i].node = stack[i].node
    BY <1>5, <1>6
  <2> QED  BY <2>1 DEF Entered
<1> QED  BY <1>5, <1>6, <1>7 DEF Rest

Pushed(stack, e, more) ==
  /\ more \in Seq(Calls) /\ Len(more) = Len(stack) + 1 /\ Len(stack) \in Nat
  /\ more[Len(more)] = e
  /\ \A i \in 1 .. Len(stack) : more[i] = stack[i]
  /\ Entered(more) = Entered(stack) \cup {e.node}

LEMMA PushFacts ==
  ASSUME NEW stack \in Seq(Calls), NEW e \in Calls, NEW more, more = Append(stack, e)
  PROVE  Pushed(stack, e, more)
<1>1. /\ more \in Seq(Calls) /\ Len(more) = Len(stack) + 1 /\ Len(stack) \in Nat
      /\ more[Len(more)] = e
      /\ \A i \in 1 .. Len(stack) : more[i] = stack[i]
  BY AppendProperties
<1>2. Entered(more) = Entered(stack) \cup {e.node}
  <2>1. \A i \in 1 .. Len(more) : i \in 1 .. Len(stack) \/ i = Len(more)
    BY <1>1
  <2>2. Len(more) \in 1 .. Len(more) /\ \A i \in 1 .. Len(stack) : i \in 1 .. Len(more)
    BY <1>1
  <2> QED  BY <1>1, <2>1, <2>2 DEF Entered
<1> QED  BY <1>1, <1>2 DEF Pushed

Popped(stack, rest) ==
  /\ rest \in Seq(Calls) /\ Len(rest) = Len(stack) - 1
  /\ \A i \in 1 .. Len(rest) : rest[i] = stack[i] /\ i \in 1 .. Len(stack)
  /\ Entered(stack) = Entered(rest) \cup {stack[Len(stack)].node}

LEMMA PopFacts ==
  ASSUME NEW stack \in Seq(Calls), stack # <<>>, NEW rest, rest = SubSeq(stack, 1, Len(stack) - 1)
  PROVE  Popped(stack, rest)
<1> DEFINE L == Len(stack)
<1>1. L \in 1 .. L /\ L \in Nat /\ 1 \in Int /\ L - 1 \in Int
  OBVIOUS
<1>2. \A i \in 1 .. L - 1 : stack[i] \in Calls
  BY <1>1, ElementOfSeq
<1>3. /\ rest \in Seq(Calls)
      /\ Len(rest) = IF 1 <= L - 1 THEN (L - 1) - 1 + 1 ELSE 0
      /\ \A i \in 1 .. (L - 1) - 1 + 1 : rest[i] = stack[1 + i - 1]
  BY <1>1, <1>2, SubSeqProperties
<1>4. Len(rest) = L - 1 /\ \A i \in 1 .. Len(rest) : rest[i] = stack[i] /\ i \in 1 .. L
  <2>1. Len(rest) = L - 1
    <3>1. Len(rest) = IF 1 <= L - 1 THEN (L - 1) - 1 + 1 ELSE 0
      BY <1>3
    <3>2. L \in Nat /\ L >= 1
      BY <1>1
    <3> HIDE DEF L
    <3> QED  BY <3>1, <3>2
  <2> SUFFICES ASSUME NEW i \in 1 .. Len(rest) PROVE rest[i] = stack[i] /\ i \in 1 .. L
    BY <2>1
  <2>2. i \in 1 .. (L - 1) - 1 + 1 /\ 1 + i - 1 = i /\ i \in 1 .. L
    BY <1>1, <2>1
  <2>3. rest[i] = stack[1 + i - 1]
    BY <1>3, <2>2
  <2> QED  BY <2>2, <2>3
<1>5. Entered(stack) = Entered(rest) \cup {stack[L].node}
  <2>1. \A i \in 1 .. L : i \in 1 .. Len(rest) \/ i = L
    BY <1>1, <1>4
  <2> QED  BY <1>1, <1>4, <2>1 DEF Entered
<1> QED  BY <1>3, <1>4, <1>5 DEF Popped

-----------------------------------------------------------------------------
(* Each step of a deletion takes it on *)

LEMMA DelWalks ==
  ASSUME NEW g, Sound(g), NEW n \in g.nodes, NEW force \in BOOLEAN, NEW h,
         h = CrossRemoveParents(g, n, g.parents[n]), NEW stack,
         stack = Append(<<>>, [node |-> n, todo |-> h.children[n], force |-> force])
  PROVE  Walk(g, h, stack, n, force, {n}) /\ stack[1].node = n /\ stack[1].force = force
<1> DEFINE e == [node |-> n, todo |-> h.children[n], force |-> force]
<1>1. n \in Ids /\ g.parents[n] \in SUBSET Ids
  BY DEF Sound, Graphs
<1>2. Cuts(g, h, g.parents[n], {n})
  BY <1>1, RemoveParentsSound
<1>3. /\ Sound(h) /\ h.nodes = g.nodes /\ h.origins = g.origins /\ h.parents[n] = {}
      /\ \A m \in Ids : m # n => h.parents[m] = g.parents[m]
      /\ \A m \in Ids : h.parents[m] \subseteq g.parents[m]
  BY <1>1, <1>2 DEF Cuts
<1>4. e \in Calls
  <2>1. h.children[n] \in SUBSET Ids
    BY <1>1, <1>3 DEF Sound, Graphs
  <2> QED  BY <1>1, <2>1 DEF Calls
<1>5. e.node = n /\ e.todo = h.children[n] /\ e.force = force
  OBVIOUS
<1> HIDE DEF e
<1>6. stack = <<e>> /\ Len(stack) = 1 /\ stack[1] = e
  BY DEF e
<1>7. Entered(stack) = {n}
  BY <1>5, <1>6 DEF Entered
<1>8. \A m, s \in Ids : s \in g.origins[m] => s \in g.nodes /\ m \in g.nodes
  BY Relations
<1>9. Stripped(g, h, stack, {n})
  BY <1>1, <1>3, <1>7, <1>8 DEF Stripped
<1>10. Frames(g, h, stack, force)
  <2>1. h.children[n] \subseteq g.children[n]
    BY <1>1, <1>3, FewerChildren
  <2>2. \A i \in 1 .. Len(stack) : stack[i] = e
    BY <1>6
  <2> QED  BY <1>5, <2>1, <2>2 DEF Frames
<1>11. Forced(g, h, n, {n})
  <2>1. Links(g) \in SUBSET (Ids \X Ids)
    BY <1>1, Relations
  <2>2. n \in Contract!Below(Links(g), n)
    BY <2>1, <1>1, BelowFacts
  <2>3. \A m \in Ids : g.parents[m] # h.parents[m] => m \in {n}
    BY <1>3
  <2> QED  BY <2>2, <2>3 DEF Forced
<1>12. Spared(g, h, n, {n})
  <2>1. \A s \in g.nodes \ {n} : g.parents[s] = h.parents[s]
    BY <1>3, Relations
  <2> QED  BY <2>1 DEF Spared
<1> QED  BY <1>5, <1>6, <1>9, <1>10, <1>11, <1>12 DEF Walk

\* h is g after some links to c have been cut.
Lessens(g, h, c) ==
  /\ Sound(h) /\ h.nodes = g.nodes /\ h.origins = g.origins
  /\ \A m \in Ids : h.parents[m] \subseteq g.parents[m] /\ (m # c => h.parents[m] = g.parents[m])

\* A link from a node that has been entered is cut, ...
LEMMA StrippedLess ==
  ASSUME NEW was, Sound(was), NEW g, Sound(g), NEW stack, NEW bare, Stripped(was, g, stack, bare),
         NEW c \in g.nodes, NEW h, Lessens(g, h, c), g.parents[c] \ h.parents[c] \subseteq bare,
         NEW more, Entered(more) = Entered(stack)
  PROVE  Stripped(was, h, more, bare)
<1>1. c \in Ids /\ g.nodes \subseteq Ids /\ was.nodes \subseteq Ids /\ bare \subseteq Ids
  BY Relations DEF Stripped
<1>2. \A p \in Ids : h.children[p] \subseteq g.children[p]
  BY FewerChildren DEF Lessens
<1>3. /\ h.nodes \subseteq was.nodes /\ bare \subseteq was.nodes
      /\ Entered(more) \subseteq bare /\ was.nodes \ h.nodes \subseteq bare
      /\ bare \subseteq (was.nodes \ h.nodes) \cup Entered(more) \cup {Root}
  BY DEF Stripped, Lessens
<1>4. \A d \in bare : h.parents[d] = {} /\ (d \in Entered(more) \/ h.children[d] = {})
  BY <1>1, <1>2 DEF Stripped, Lessens
<1>5. \A m \in Ids : /\ h.parents[m] \subseteq was.parents[m]
                     /\ \A p \in was.parents[m] \ h.parents[m] : p \in bare \/ m \in bare
  BY DEF Stripped, Lessens
<1>6. \A m, s \in Ids : s \in h.origins[m] <=> s \in was.origins[m] /\ s \in h.nodes /\ m \in h.nodes
  BY DEF Stripped, Lessens
<1> QED  BY <1>3, <1>4, <1>5, <1>6 DEF Stripped

\* ... or all links to a node that is entered for it.
LEMMA StrippedMore ==
  ASSUME NEW was, Sound(was), NEW g, Sound(g), NEW stack, NEW bare, Stripped(was, g, stack, bare),
         NEW c \in g.nodes, NEW h, Lessens(g, h, c), h.parents[c] = {},
         NEW more, Entered(more) = Entered(stack) \cup {c}
  PROVE  Stripped(was, h, more, bare \cup {c})
<1>1. c \in Ids /\ g.nodes \subseteq Ids /\ was.nodes \subseteq Ids /\ bare \subseteq Ids
  BY Relations DEF Stripped
<1>2. \A p \in Ids : h.children[p] \subseteq g.children[p]
  BY FewerChildren DEF Lessens
<1>3. /\ h.nodes \subseteq was.nodes /\ bare \cup {c} \subseteq was.nodes
      /\ Entered(more) \subseteq bare \cup {c} /\ was.nodes \ h.nodes \subseteq bare \cup {c}
      /\ bare \cup {c} \subseteq (was.nodes \ h.nodes) \cup Entered(more) \cup {Root}
  BY DEF Stripped, Lessens
<1>4. \A d \in bare \cup {c} : h.parents[d] = {} /\ (d \in Entered(more) \/ h.children[d] = {})
  <2>1. \A d \in bare : h.parents[d] = {} /\ (d \in Entered(more) \/ h.children[d] = {})
    BY <1>1, <1>2 DEF Stripped, Lessens
  <2> QED  BY <2>1
<1>5. \A m \in Ids : /\ h.parents[m] \subseteq was.parents[m]
                     /\ \A p \in was.parents[m] \ h.parents[m] : p \in bare \cup {c} \/ m \in bare \cup {c}
  BY DEF Stripped, Lessens
<1>6. \A m, s \in Ids : s \in h.origins[m] <=> s \in was.origins[m] /\ s \in h.nodes /\ m \in h.nodes
  BY DEF Stripped, Lessens
<1> QED  BY <1>3, <1>4, <1>5, <1>6 DEF Stripped

\* The child at hand and the activation that it is a child of.
AtChild(was, g, stack, n, force, bare, c) ==
  /\ Sound(was) /\ Sound(g) /\ Apart(g, stack)
  /\ stack \in Seq(Calls) /\ stack # <<>>
  /\ n = stack[1].node /\ force \in BOOLEAN
  /\ Walk(was, g, stack, n, force, bare)
  /\ c \in stack[Len(stack)].todo

LEMMA AtChildFacts ==
  ASSUME NEW was, NEW g, NEW stack, NEW n, NEW force, NEW bare, NEW c,
         AtChild(was, g, stack, n, force, bare, c), NEW top, top = stack[Len(stack)].node
  PROVE  /\ Len(stack) \in 1 .. Len(stack) /\ n \in Ids /\ top \in Ids /\ c \in Ids /\ bare \in SUBSET Ids
         /\ top \in bare /\ c \in was.children[top] /\ top \in was.parents[c]
         /\ c \notin Entered(stack) /\ n \in Entered(stack)
         /\ \A i \in 1 .. Len(stack) : stack[i].node \in Ids /\ (i # Len(stack) => stack[i].node # top)
<1>1. Len(stack) \in 1 .. Len(stack) /\ 1 \in 1 .. Len(stack) /\ \A i \in 1 .. Len(stack) : stack[i] \in Calls
  BY ElementOfSeq DEF AtChild
<1>2. \A i \in 1 .. Len(stack) : Len(stack) \in i .. Len(stack)
  BY <1>1
<1>3. \A i \in 1 .. Len(stack) : stack[i].node # c /\ (i # Len(stack) => stack[i].node # top)
  BY <1>2 DEF AtChild, Apart
<1>4. n \in Ids /\ top \in Ids /\ c \in Ids /\ \A i \in 1 .. Len(stack) : stack[i].node \in Ids
  BY <1>1 DEF AtChild, Calls
<1>5. top \in Entered(stack) /\ n \in Entered(stack) /\ c \notin Entered(stack)
  BY <1>1, <1>3 DEF Entered, AtChild
<1>6. top \in bare /\ bare \in SUBSET Ids /\ c \in was.children[top]
  BY <1>1, <1>5, Relations DEF AtChild, Walk, Stripped, Frames
<1>7. top \in was.parents[c]
  BY <1>4, <1>6 DEF AtChild, Sound, SymmetricIn
<1> QED  BY <1>1, <1>3, <1>4, <1>5, <1>6, <1>7

\* The child has been deleted by an earlier iteration.
LEMMA SkipWalks ==
  ASSUME NEW was, NEW g, NEW stack, NEW n, NEW force, NEW bare, NEW c,
         AtChild(was, g, stack, n, force, bare, c), c \notin g.nodes, NEW rest,
         rest = Handled(stack, c)
  PROVE  Walk(was, g, rest, n, force, bare)
<1>1. Rest(stack, rest, c)
  <2>1. stack \in Seq(Calls) /\ stack # <<>>
    BY DEF AtChild
  <2> QED  BY <2>1, RestFacts
<1>2. \A i \in 1 .. Len(stack) : c \notin g.children[stack[i].node]
  <2>1. \A i \in 1 .. Len(stack) : stack[i].node \in Ids
    BY AtChildFacts
  <2> QED  BY <2>1, Relations DEF AtChild
<1>3. Frames(was, g, rest, force)
  <2>1. Frames(was, g, stack, force)
    BY DEF AtChild, Walk
  <2>2. ASSUME NEW i \in 1 .. Len(stack)
        PROVE  /\ rest[i].force = force
               /\ g.children[rest[i].node] \subseteq rest[i].todo
               /\ rest[i].todo \subseteq was.children[rest[i].node]
    BY <1>1, <1>2, <2>1 DEF Frames, Rest
  <2>3. Len(rest) = Len(stack)
    BY <1>1 DEF Rest
  <2> QED  BY <2>2, <2>3 DEF Frames
<1>4. Stripped(was, g, rest, bare)
  BY <1>1 DEF AtChild, Walk, Stripped, Rest
<1> QED  BY <1>3, <1>4 DEF AtChild, Walk

\* The child is taken from its parent and stays: something else refers to it.
LEMMA LeaveWalks ==
  ASSUME NEW was, NEW g, NEW stack, NEW n, NEW force, NEW bare, NEW c,
         AtChild(was, g, stack, n, force, bare, c), c \in g.nodes, NEW rest, rest = Handled(stack, c),
         NEW top, top = stack[Len(stack)].node, NEW cut, cut = CrossRemoveChildren(g, top, {c}),
         ~(force \/ Unreferenced(cut, c))
  PROVE  Walk(was, cut, rest, n, force, bare)
<1>1. /\ Len(stack) \in 1 .. Len(stack) /\ n \in Ids /\ top \in Ids /\ c \in Ids /\ bare \in SUBSET Ids
      /\ top \in bare /\ c \in was.children[top] /\ top \in was.parents[c]
      /\ \A i \in 1 .. Len(stack) : stack[i].node \in Ids /\ (i # Len(stack) => stack[i].node # top)
  BY AtChildFacts
<1>2. /\ Sound(was) /\ Sound(g) /\ stack \in Seq(Calls) /\ stack # <<>> /\ n \in bare
      /\ Stripped(was, g, stack, bare) /\ Frames(was, g, stack, force) /\ Spared(was, g, n, bare)
  BY DEF AtChild, Walk
<1>3. Rest(stack, rest, c)
  BY <1>2, RestFacts
<1>4. Cuts(g, cut, {top}, {c})
  <2>1. {c} \in SUBSET Ids
    BY <1>1
  <2> QED  BY <1>1, <1>2, <2>1, RemoveChildrenSound
<1>5. /\ Sound(cut) /\ cut.nodes = g.nodes /\ cut.origins = g.origins
      /\ \A m \in Ids : cut.parents[m] \subseteq g.parents[m] /\ (m # c => cut.parents[m] = g.parents[m])
      /\ g.parents[c] \ cut.parents[c] \subseteq {top} /\ top \notin cut.parents[c]
  BY <1>1, <1>4 DEF Cuts
<1>6. Stripped(was, cut, rest, bare)
  <2>1. Entered(rest) = Entered(stack) /\ g.parents[c] \ cut.parents[c] \subseteq bare
    BY <1>1, <1>3, <1>5 DEF Rest
  <2>2. Lessens(g, cut, c)
    BY <1>5 DEF Lessens
  <2> QED  BY <1>2, <2>1, <2>2, StrippedLess
<1>7. Frames(was, cut, rest, force)
  <2>1. ASSUME NEW i \in 1 .. Len(stack)
        PROVE  /\ rest[i].force = force
               /\ cut.children[rest[i].node] \subseteq rest[i].todo
               /\ rest[i].todo \subseteq was.children[rest[i].node]
    <3>1. /\ stack[i].force = force /\ g.children[stack[i].node] \subseteq stack[i].todo
          /\ stack[i].todo \subseteq was.children[stack[i].node]
      BY <1>2 DEF Frames
    <3>2. cut.children[stack[i].node] \subseteq g.children[stack[i].node]
      BY <1>1, <1>2, <1>5, FewerChildren
    <3>3. c \notin cut.children[top]
      BY <1>1, <1>5 DEF Sound, SymmetricIn
    <3>4. /\ rest[i].node = stack[i].node /\ rest[i].force = stack[i].force
          /\ rest[i].todo = IF i = Len(stack) THEN stack[i].todo \ {c} ELSE stack[i].todo
      BY <1>3 DEF Rest
    <3> QED  BY <3>1, <3>2, <3>3, <3>4
  <2>2. Len(rest) = Len(stack)
    BY <1>3 DEF Rest
  <2> QED  BY <2>1, <2>2 DEF Frames
<1>8. Spared(was, cut, n, bare)
  <2>1. \A d \in bare \ {n} :
          was.parents[d] # {} /\ was.parents[d] \subseteq bare /\ was.origins[d] \cap cut.nodes = {}
    BY <1>2, <1>5 DEF Spared
  <2>2. ASSUME NEW s \in was.nodes \ bare, was.parents[s] # {}, cut.parents[s] = {}
        PROVE  was.origins[s] # {}
    <3>1. CASE s = c
      <4>1. cut.origins[c] # {}
        BY <2>2, <3>1 DEF Unreferenced
      <4>2. PICK x \in cut.origins[c] : TRUE
        BY <4>1
      <4>3. x \in Ids
        BY <1>1, <1>5, Relations
      <4> QED  BY <1>1, <1>2, <1>5, <3>1, <4>2, <4>3 DEF Stripped
    <3>2. CASE s # c
      <4>1. s \in Ids
        BY <1>2, Relations
      <4>2. g.parents[s] = {}
        BY <1>5, <2>2, <3>2, <4>1
      <4> QED  BY <1>2, <2>2, <4>2 DEF Spared
    <3> QED  BY <3>1, <3>2
  <2> QED  BY <2>1, <2>2 DEF Spared
<1>9. ~force
  OBVIOUS
<1> QED  BY <1>2, <1>6, <1>7, <1>8, <1>9 DEF Walk

\* The activation that deletes c, as it begins its walk over the children.
Activation(c, h, force) == [node |-> c, todo |-> h.children[c], force |-> force]

\* The child is taken from its parent and deleted in turn.
Enters(g, stack, force, c, cut, h, more) ==
  /\ c \in g.nodes
  /\ cut = CrossRemoveChildren(g, stack[Len(stack)].node, {c})
  /\ force \/ Unreferenced(cut, c)
  /\ h = CrossRemoveParents(cut, c, cut.parents[c])
  /\ more = Append(Handled(stack, c), Activation(c, h, force))

LEMMA EnterWalks ==
  ASSUME NEW was, NEW g, NEW stack, NEW n, NEW force, NEW bare, NEW c,
         AtChild(was, g, stack, n, force, bare, c),
         NEW cut, NEW h, NEW more, Enters(g, stack, force, c, cut, h, more)
  PROVE  /\ Walk(was, h, more, n, force, bare \cup {c})
         /\ more[1].node = stack[1].node /\ more[1].force = stack[1].force
<1> DEFINE top  == stack[Len(stack)].node
           rest == Handled(stack, c)
           e    == [node |-> c, todo |-> h.children[c], force |-> force]
<1>1. /\ c \in g.nodes /\ cut = CrossRemoveChildren(g, top, {c}) /\ (force \/ Unreferenced(cut, c))
      /\ h = CrossRemoveParents(cut, c, cut.parents[c])
  BY DEF Enters
<1>2. more = Append(rest, e)
  BY DEF Enters, Activation
<1>3. /\ Len(stack) \in 1 .. Len(stack) /\ n \in Ids /\ top \in Ids /\ c \in Ids /\ bare \in SUBSET Ids
      /\ top \in bare /\ c \in was.children[top] /\ top \in was.parents[c]
      /\ c \notin Entered(stack) /\ n \in Entered(stack)
      /\ \A i \in 1 .. Len(stack) : stack[i].node \in Ids /\ (i # Len(stack) => stack[i].node # top)
  BY AtChildFacts
<1>4. /\ Sound(was) /\ Sound(g) /\ stack \in Seq(Calls) /\ stack # <<>> /\ n \in bare /\ force \in BOOLEAN
      /\ Stripped(was, g, stack, bare) /\ Frames(was, g, stack, force)
  BY DEF AtChild, Walk
<1>5. rest \in Seq(Calls) /\ Rest(stack, rest, c)
  BY <1>4, RestFacts
<1> HIDE DEF top, rest
<1>6. /\ Sound(cut) /\ cut.nodes = g.nodes /\ cut.origins = g.origins
      /\ \A m \in Ids : cut.parents[m] = IF m = c THEN g.parents[m] \ {top} ELSE g.parents[m]
  <2>1. {c} \in SUBSET Ids
    BY <1>3
  <2>2. Cuts(g, cut, {top}, {c})
    BY <1>1, <1>3, <1>4, <2>1, RemoveChildrenSound
  <2> QED  BY <1>3, <2>2 DEF Cuts
<1>7. /\ Sound(h) /\ h.nodes = g.nodes /\ h.origins = g.origins /\ h.parents[c] = {}
      /\ \A m \in Ids : h.parents[m] \subseteq g.parents[m] /\ (m # c => h.parents[m] = g.parents[m])
  <2>1. cut.parents[c] \in SUBSET Ids
    BY <1>3, <1>6 DEF Sound, Graphs
  <2>2. Cuts(cut, h, cut.parents[c], {c})
    BY <1>1, <1>3, <1>6, <2>1, RemoveParentsSound
  <2> QED  BY <1>3, <1>6, <2>2 DEF Cuts
<1>8. e \in Calls /\ e.node = c /\ e.todo = h.children[c] /\ e.force = force
  <2>1. h.children[c] \in SUBSET Ids
    BY <1>3, <1>7 DEF Sound, Graphs
  <2> QED  BY <1>3, <1>4, <2>1 DEF Calls
<1> HIDE DEF e
<1>9. /\ Len(more) = Len(stack) + 1 /\ Len(stack) \in Nat /\ more[Len(more)] = e
      /\ \A i \in 1 .. Len(stack) : more[i] = rest[i]
      /\ Entered(more) = Entered(stack) \cup {c}
  <2>1. /\ Len(more) = Len(rest) + 1 /\ Len(rest) \in Nat /\ more[Len(more)] = e
        /\ \A i \in 1 .. Len(rest) : more[i] = rest[i]
        /\ Entered(more) = Entered(rest) \cup {e.node}
    <3>1. Pushed(rest, e, more)
      BY <1>5, <1>8, <1>2, PushFacts
    <3> QED  BY <3>1 DEF Pushed
  <2>2. Len(rest) = Len(stack) /\ Entered(rest) = Entered(stack)
    BY <1>5 DEF Rest
  <2> QED  BY <1>8, <2>1, <2>2
<1>10. Stripped(was, h, more, bare \cup {c})
  <2>1. Lessens(g, h, c)
    BY <1>7 DEF Lessens
  <2>2. h.parents[c] = {} /\ Entered(more) = Entered(stack) \cup {c}
    BY <1>7, <1>9
  <2>3. Sound(was) /\ Sound(g) /\ Stripped(was, g, stack, bare)
    BY <1>4
  <2> QED  BY <1>1, <2>1, <2>2, <2>3, StrippedMore
<1>11. \A i \in 1 .. Len(stack) :
         /\ more[i].node = stack[i].node /\ more[i].force = stack[i].force
         /\ more[i].todo = IF i = Len(stack) THEN stack[i].todo \ {c} ELSE stack[i].todo
  BY <1>5, <1>9 DEF Rest
<1>12. Frames(was, h, more, force)
  <2>1. \A p \in Ids : h.children[p] \subseteq g.children[p] /\ g.children[p] \subseteq was.children[p]
    <3>1. \A m \in Ids : g.parents[m] \subseteq was.parents[m]
      BY <1>4 DEF Stripped
    <3> QED  BY <1>4, <1>7, <3>1, FewerChildren
  <2>2. ASSUME NEW i \in 1 .. Len(stack)
        PROVE  /\ more[i].force = force
               /\ h.children[more[i].node] \subseteq more[i].todo
               /\ more[i].todo \subseteq was.children[more[i].node]
    <3>1. /\ stack[i].force = force /\ g.children[stack[i].node] \subseteq stack[i].todo
          /\ stack[i].todo \subseteq was.children[stack[i].node]
      BY <1>4 DEF Frames
    <3>2. \A p \in Ids : c \notin h.children[p]
      BY <1>3, <1>7 DEF Sound, SymmetricIn
    <3>3. stack[i].node \in Ids
      BY <1>3
    <3>4. c \notin h.children[stack[i].node] /\ h.children[stack[i].node] \subseteq stack[i].todo
      BY <2>1, <3>1, <3>2, <3>3
    <3>5. /\ more[i].node = stack[i].node /\ more[i].force = force
          /\ more[i].todo = IF i = Len(stack) THEN stack[i].todo \ {c} ELSE stack[i].todo
      BY <1>11, <3>1
    <3> QED  BY <3>1, <3>4, <3>5
  <2>3. e.force = force /\ h.children[e.node] \subseteq e.todo /\ e.todo \subseteq was.children[e.node]
    <3>1. h.children[c] \subseteq was.children[c]
      BY <1>3, <2>1
    <3> QED  BY <1>8, <3>1
  <2>4. \A i \in 1 .. Len(more) : i \in 1 .. Len(stack) \/ i = Len(more)
    <3>1. Len(more) = Len(stack) + 1 /\ Len(stack) \in Nat
      BY <1>9
    <3> QED  BY <3>1
  <2> SUFFICES ASSUME NEW i \in 1 .. Len(more)
               PROVE  /\ more[i].force = force
                      /\ h.children[more[i].node] \subseteq more[i].todo
                      /\ more[i].todo \subseteq was.children[more[i].node]
    BY DEF Frames
  <2>5. i \in 1 .. Len(stack) \/ i = Len(more)
    BY <2>4
  <2>6. CASE i \in 1 .. Len(stack)
    BY <2>2, <2>6
  <2>7. CASE i = Len(more)
    <3>1. more[i] = e
      BY <1>9, <2>7
    <3> QED  BY <2>3, <3>1
  <2> QED  BY <2>5, <2>6, <2>7
<1>13. /\ more[1].node = stack[1].node /\ more[1].force = stack[1].force
       /\ n \in bare \cup {c}
  <2>1. 1 \in 1 .. Len(stack)
    BY <1>3
  <2> QED  BY <1>4, <1>11, <2>1
<1>14. CASE force
  <2>1. Forced(was, g, n, bare)
    BY <1>14 DEF AtChild, Walk
  <2>2. \A m \in Ids : was.parents[m] # h.parents[m] => m \in bare \cup {c}
    BY <1>7, <2>1 DEF Forced
  <2>3. c \in Contract!Below(Links(was), n)
    <3>1. Links(was) \in SUBSET (Ids \X Ids) /\ <<top, c>> \in Links(was)
      BY <1>3, <1>4, Relations
    <3>2. top \in Contract!Below(Links(was), n)
      BY <1>3, <2>1 DEF Forced
    <3> QED  BY <1>3, <3>1, <3>2, BelowFacts
  <2>4. Forced(was, h, n, bare \cup {c})
    BY <2>1, <2>2, <2>3 DEF Forced
  <2> QED  BY <1>10, <1>12, <1>14, <1>13, <2>4 DEF Walk
<1>15. CASE ~force
  <2>1. Spared(was, g, n, bare)
    BY <1>15 DEF AtChild, Walk
  <2>2. cut.parents[c] = {} /\ cut.origins[c] = {}
    BY <1>1, <1>15 DEF Unreferenced
  <2>3. was.parents[c] \subseteq bare \/ c \in bare
    <3> SUFFICES ASSUME c \notin bare, NEW p \in was.parents[c] PROVE p \in bare
      OBVIOUS
    <3>1. CASE p \in g.parents[c]
      BY <1>3, <1>6, <2>2, <3>1
    <3>2. CASE p \notin g.parents[c]
      BY <1>3, <1>4, <3>2 DEF Stripped
    <3> QED  BY <3>1, <3>2
  <2>4. was.origins[c] \cap h.nodes = {}
    <3> SUFFICES ASSUME NEW s \in was.origins[c], s \in h.nodes PROVE FALSE
      OBVIOUS
    <3>1. s \in Ids
      BY <1>3, <1>4, Relations
    <3> QED  BY <1>1, <1>3, <1>4, <1>6, <1>7, <2>2, <3>1 DEF Stripped
  <2>5. \A d \in (bare \cup {c}) \ {n} :
          /\ was.parents[d] # {} /\ was.parents[d] \subseteq bare \cup {c}
          /\ was.origins[d] \cap h.nodes = {}
    BY <1>3, <1>7, <2>1, <2>3, <2>4 DEF Spared
  <2>6. \A s \in was.nodes \ (bare \cup {c}) :
          was.parents[s] # {} /\ h.parents[s] = {} => was.origins[s] # {}
    <3> SUFFICES ASSUME NEW s \in was.nodes \ (bare \cup {c}), was.parents[s] # {}, h.parents[s] = {}
                 PROVE  was.origins[s] # {}
      OBVIOUS
    <3>1. s \in Ids /\ s # c
      BY <1>4, Relations
    <3>2. g.parents[s] = {}
      BY <1>7, <3>1
    <3> QED  BY <2>1, <3>2 DEF Spared
  <2>7. Spared(was, h, n, bare \cup {c})
    BY <2>5, <2>6 DEF Spared
  <2> QED  BY <1>10, <1>12, <1>15, <1>13, <2>7 DEF Walk
<1> QED  BY <1>4, <1>14, <1>15

\* An activation has nothing left to do: its node goes, which by now has no links.
LEMMA ReturnWalks ==
  ASSUME NEW was, Sound(was), NEW g, Sound(g), NEW stack \in Seq(Calls), stack # <<>>, Apart(g, stack),
         NEW n, NEW force, NEW bare, Walk(was, g, stack, n, force, bare),
         stack[Len(stack)].todo = {}, NEW h, h = DelNode(g, stack[Len(stack)].node),
         NEW rest, rest = SubSeq(stack, 1, Len(stack) - 1)
  PROVE  Walk(was, h, rest, n, force, bare)
<1> DEFINE top == stack[Len(stack)].node
<1>1. Len(stack) \in 1 .. Len(stack) /\ stack[Len(stack)] \in Calls /\ Len(stack) \in Len(stack) .. Len(stack)
  BY ElementOfSeq
<1>2. top \in Ids /\ top \in g.nodes /\ g.parents[top] = {}
  BY <1>1 DEF Calls, Apart
<1>3. Stripped(was, g, stack, bare) /\ Frames(was, g, stack, force) /\ n \in bare
  BY DEF Walk
<1>4. g.children[top] = {}
  BY <1>1, <1>3 DEF Frames
<1>5. /\ rest \in Seq(Calls) /\ Len(rest) = Len(stack) - 1
      /\ \A i \in 1 .. Len(rest) : rest[i] = stack[i] /\ i \in 1 .. Len(stack)
      /\ Entered(stack) = Entered(rest) \cup {top}
  <2>1. Popped(stack, rest)
    BY PopFacts
  <2> QED  BY <2>1 DEF Popped
<1> HIDE DEF top
<1>6. /\ Sound(h) /\ h.nodes = g.nodes \ ({top} \ {Root})
      /\ \A m \in Ids : h.parents[m] = g.parents[m]
      /\ \A m, s \in Ids : s \in h.origins[m] <=> s \in g.origins[m] /\ s \in h.nodes /\ m \in h.nodes
  <2>1. h = DelNode(g, top)
    BY DEF top
  <2> QED  BY <1>2, <1>4, <2>1, DelNodeEffect
<1>7. \A p \in Ids : h.children[p] \subseteq g.children[p]
  BY <1>6, FewerChildren
<1>8. Stripped(was, h, rest, bare)
  <2>1. /\ h.nodes \subseteq was.nodes /\ bare \subseteq was.nodes
        /\ Entered(rest) \subseteq bare /\ was.nodes \ h.nodes \subseteq bare
        /\ bare \subseteq (was.nodes \ h.nodes) \cup Entered(rest) \cup {Root}
    BY <1>2, <1>3, <1>5, <1>6 DEF Stripped
  <2>2. ASSUME NEW d \in bare PROVE h.parents[d] = {} /\ (d \in Entered(rest) \/ h.children[d] = {})
    <3>1. d \in Ids
      BY <1>3, Relations DEF Stripped
    <3>2. g.parents[d] = {} /\ (d \in Entered(stack) \/ g.children[d] = {})
      BY <1>3 DEF Stripped
    <3> QED  BY <1>4, <1>5, <1>6, <1>7, <3>1, <3>2
  <2>3. \A m \in Ids : /\ h.parents[m] \subseteq was.parents[m]
                       /\ \A p \in was.parents[m] \ h.parents[m] : p \in bare \/ m \in bare
    BY <1>3, <1>6 DEF Stripped
  <2>4. \A m, s \in Ids : s \in h.origins[m] <=> s \in was.origins[m] /\ s \in h.nodes /\ m \in h.nodes
    BY <1>3, <1>6 DEF Stripped
  <2> QED  BY <2>1, <2>2, <2>3, <2>4 DEF Stripped
<1>9. Frames(was, h, rest, force)
  <2> SUFFICES ASSUME NEW i \in 1 .. Len(rest)
               PROVE  /\ rest[i].force = force
                      /\ h.children[rest[i].node] \subseteq rest[i].todo
                      /\ rest[i].todo \subseteq was.children[rest[i].node]
    BY DEF Frames
  <2>1. rest[i] = stack[i] /\ i \in 1 .. Len(stack) /\ stack[i].node \in Ids
    BY <1>5, ElementOfSeq DEF Calls
  <2> QED  BY <1>3, <1>7, <2>1 DEF Frames
<1>10. force => Forced(was, h, n, bare)
  BY <1>6 DEF Walk, Forced
<1>11. ~force => Spared(was, h, n, bare)
  <2> SUFFICES ASSUME ~force PROVE Spared(was, h, n, bare)
    OBVIOUS
  <2>1. Spared(was, g, n, bare)
    BY DEF Walk
  <2>2. \A s \in was.nodes \ bare : s \in Ids
    BY Relations
  <2> QED  BY <1>6, <2>1, <2>2 DEF Spared
<1> QED  BY <1>3, <1>8, <1>9, <1>10, <1>11 DEF Walk

\* The contract's deletion of n, from one graph to another.
Deletes(was, h, n, force, root) ==
  LET gone == was.nodes \ h.nodes
      bare == gone \cup root
  IN  /\ n \in bare /\ Root \notin gone
      /\ h.nodes \subseteq was.nodes
      /\ Links(h) = Links(was) \ Contract!Touching(Links(was), bare)
      /\ Refs(h) = Refs(was) \ Contract!Touching(Refs(was), gone)
      /\ force => bare = Contract!Below(Links(was), n)
      /\ ~force =>
           /\ \A d \in bare \ {n} :
                /\ Contract!ParentsOf(Links(was), d) # {}
                /\ Contract!ParentsOf(Links(was), d) \subseteq bare
                /\ Contract!ParentsOf(Refs(was), d) \subseteq gone
           /\ \A s \in was.nodes \ bare :
                (Contract!ParentsOf(Links(was), s) # {} /\ Contract!ParentsOf(Links(h), s) = {})
                  => Contract!ParentsOf(Refs(was), s) # {}

LEMMA DeletesIsDelete ==
  ASSUME NEW n \in Ids, NEW force \in BOOLEAN,
         NEW root \in SUBSET {Root}, Deletes(before, before', n, force, root)
  PROVE  Contract!Delete(n, force)
<1>1. /\ Links(before') = Links(before)' /\ Refs(before') = Refs(before)'
      /\ Refs(before) = {e \in Ids \X Ids : e[1] \in before.origins[e[2]]}
  BY DEF Links, Refs
<1> QED  BY <1>1 DEF Deletes, Contract!Delete, Refs

\* When the outermost activation has returned the contract's deletion has been made.
LEMMA WalkDeletes ==
  ASSUME NEW was, Sound(was), NEW h, Sound(h),
         NEW n \in Ids, NEW force \in BOOLEAN, NEW stack, Len(stack) = 0, NEW bare,
         Walk(was, h, stack, n, force, bare)
  PROVE  \E root \in SUBSET {Root} : Deletes(was, h, n, force, root)
<1> DEFINE gone == was.nodes \ h.nodes
           root == bare \cap {Root}
<1>1. /\ h.nodes \subseteq was.nodes /\ bare \subseteq was.nodes /\ gone \subseteq bare
      /\ Entered(stack) = {}
      /\ \A d \in bare : h.parents[d] = {} /\ h.children[d] = {}
      /\ \A m \in Ids : /\ h.parents[m] \subseteq was.parents[m]
                        /\ \A p \in was.parents[m] \ h.parents[m] : p \in bare \/ m \in bare
      /\ \A m, s \in Ids : s \in h.origins[m] <=> s \in was.origins[m] /\ s \in h.nodes /\ m \in h.nodes
  <2>1. Entered(stack) = {}
    BY DEF Entered
  <2> QED  BY <2>1 DEF Walk, Stripped
<1>2. bare = gone \cup root /\ root \in SUBSET {Root} /\ n \in bare /\ Root \notin gone
  BY <1>1 DEF Walk, Stripped, Sound
<1>3. /\ Links(was) \in SUBSET (Ids \X Ids) /\ Refs(was) \in SUBSET (Ids \X Ids)
      /\ Links(h) \in SUBSET (Ids \X Ids) /\ Refs(h) \in SUBSET (Ids \X Ids)
      /\ was.nodes \subseteq Ids
      /\ \A p, c \in Ids : /\ <<p, c>> \in Links(was) <=> p \in was.parents[c]
                           /\ <<p, c>> \in Refs(was) <=> p \in was.origins[c]
                           /\ <<p, c>> \in Links(h) <=> p \in h.parents[c]
                           /\ <<p, c>> \in Refs(h) <=> p \in h.origins[c]
                           /\ p \in was.origins[c] => p \in was.nodes /\ c \in was.nodes
  BY Relations
<1>4. \A p, c \in Ids : p \in h.parents[c] => p \notin bare /\ c \notin bare
  <2> SUFFICES ASSUME NEW p \in Ids, NEW c \in Ids, p \in h.parents[c]
               PROVE  p \notin bare /\ c \notin bare
    OBVIOUS
  <2>1. c \in h.children[p]
    BY DEF Sound, SymmetricIn
  <2> QED  BY <1>1, <2>1
<1> HIDE DEF gone, root
<1>5. Links(h) = Links(was) \ Contract!Touching(Links(was), bare)
  <2>1. ASSUME NEW p \in Ids, NEW c \in Ids
        PROVE  <<p, c>> \in Links(h) <=> <<p, c>> \in Links(was) /\ p \notin bare /\ c \notin bare
    BY <1>1, <1>3, <1>4
  <2>2. \A e \in Ids \X Ids : e \in Links(h) <=> e \in Links(was) /\ e[1] \notin bare /\ e[2] \notin bare
    BY <2>1
  <2> QED  BY <1>3, <2>2 DEF Contract!Touching
<1>6. Refs(h) = Refs(was) \ Contract!Touching(Refs(was), gone)
  <2>1. ASSUME NEW p \in Ids, NEW c \in Ids
        PROVE  <<p, c>> \in Refs(h) <=> <<p, c>> \in Refs(was) /\ p \notin gone /\ c \notin gone
    BY <1>1, <1>3 DEF gone
  <2>2. \A e \in Ids \X Ids : e \in Refs(h) <=> e \in Refs(was) /\ e[1] \notin gone /\ e[2] \notin gone
    BY <2>1
  <2> QED  BY <1>3, <2>2 DEF Contract!Touching
<1>7. ASSUME force PROVE bare = Contract!Below(Links(was), n)
  <2>1. Forced(was, h, n, bare)
    BY <1>7 DEF Walk
  <2>2. \A e \in Links(was) : e[1] \in bare => e[2] \in bare
    <3>1. ASSUME NEW p \in Ids, NEW c \in Ids, <<p, c>> \in Links(was), p \in bare PROVE c \in bare
      <4>1. p \in was.parents[c] /\ p \notin h.parents[c]
        BY <1>3, <1>4, <3>1
      <4> QED  BY <2>1, <4>1 DEF Forced
    <3> QED  BY <1>3, <3>1
  <2>3. bare \in SUBSET Ids
    BY <1>1, <1>3
  <2>4. Contract!Below(Links(was), n) \subseteq bare
    <3>1. Links(was) \in SUBSET (Ids \X Ids)
      BY <1>3
    <3>2. \A S \in SUBSET Ids :
            (n \in S /\ \A e \in Links(was) : e[1] \in S => e[2] \in S)
              => Contract!Below(Links(was), n) \subseteq S
      BY <3>1, BelowFacts
    <3> QED  BY <1>2, <2>2, <2>3, <3>2
  <2> QED  BY <2>1, <2>4 DEF Forced
<1>8. ASSUME ~force
      PROVE  /\ \A d \in bare \ {n} :
                  /\ Contract!ParentsOf(Links(was), d) # {} /\ Contract!ParentsOf(Links(was), d) \subseteq bare
                  /\ Contract!ParentsOf(Refs(was), d) \subseteq gone
             /\ \A s \in was.nodes \ bare :
                  (Contract!ParentsOf(Links(was), s) # {} /\ Contract!ParentsOf(Links(h), s) = {})
                    => Contract!ParentsOf(Refs(was), s) # {}
  <2>1. Spared(was, h, n, bare)
    BY <1>8 DEF Walk
  <2>2. \A m \in Ids : /\ Contract!ParentsOf(Links(was), m) = was.parents[m]
                       /\ Contract!ParentsOf(Links(h), m) = h.parents[m]
                       /\ Contract!ParentsOf(Refs(was), m) = was.origins[m]
                       /\ was.origins[m] \subseteq was.nodes
    BY LinksOf, Relations
  <2>3. ASSUME NEW d \in bare \ {n}
        PROVE  /\ Contract!ParentsOf(Links(was), d) # {} /\ Contract!ParentsOf(Links(was), d) \subseteq bare
               /\ Contract!ParentsOf(Refs(was), d) \subseteq gone
    <3>1. d \in Ids
      BY <1>1, <1>3
    <3>2. was.parents[d] # {} /\ was.parents[d] \subseteq bare /\ was.origins[d] \cap h.nodes = {}
      BY <2>1 DEF Spared
    <3>3. was.origins[d] \subseteq gone
      BY <2>2, <3>1, <3>2 DEF gone
    <3> QED  BY <2>2, <3>1, <3>2, <3>3
  <2>4. ASSUME NEW s \in was.nodes \ bare, Contract!ParentsOf(Links(was), s) # {},
               Contract!ParentsOf(Links(h), s) = {}
        PROVE  Contract!ParentsOf(Refs(was), s) # {}
    <3>1. s \in Ids
      BY <1>3
    <3> QED  BY <2>1, <2>2, <2>4, <3>1 DEF Spared
  <2> QED  BY <2>3, <2>4
<1>9. Deletes(was, h, n, force, root)
  <2>1. bare = gone \cup root /\ gone = was.nodes \ h.nodes
    BY <1>2 DEF gone
  <2> HIDE DEF Deletes
  <2>2. n \in gone \cup root /\ Root \notin gone /\ h.nodes \subseteq was.nodes
    BY <1>1, <1>2, <2>1
  <2>3. /\ Links(h) = Links(was) \ Contract!Touching(Links(was), gone \cup root)
        /\ Refs(h) = Refs(was) \ Contract!Touching(Refs(was), gone)
    BY <1>5, <1>6, <2>1
  <2>4. force => gone \cup root = Contract!Below(Links(was), n)
    BY <1>7, <2>1
  <2>5. ~force =>
           /\ \A d \in (gone \cup root) \ {n} :
                /\ Contract!ParentsOf(Links(was), d) # {}
                /\ Contract!ParentsOf(Links(was), d) \subseteq gone \cup root
                /\ Contract!ParentsOf(Refs(was), d) \subseteq gone
           /\ \A s \in was.nodes \ (gone \cup root) :
                (Contract!ParentsOf(Links(was), s) # {} /\ Contract!ParentsOf(Links(h), s) = {})
                  => Contract!ParentsOf(Refs(was), s) # {}
    BY <1>8, <2>1
  <2> QED  BY <2>1, <2>2, <2>3, <2>4, <2>5 DEF Deletes
<1> QED  BY <1>2, <1>9

-----------------------------------------------------------------------------
(* The refinement *)

\* Between commands the graph is what clients see; during one it has been reached from
\* there by a deletion that has not come to its end.
RInv ==
  /\ IInv /\ Sound(before) /\ before.nodes \cap Reserved = {}
  /\ Idle => before = graph
  /\ ~Idle => \E bare : Walk(before, graph, calls, calls[1].node, calls[1].force, bare)

LEMMA InitRInv == Init => RInv /\ Contract!Init
<1> SUFFICES ASSUME Init PROVE RInv /\ Contract!Init
  OBVIOUS
<1>1. IInv /\ before = graph /\ Idle /\ before = NewHierarchy
  BY InitIInv DEF Init, Idle
<1>2. before.nodes = {Root} /\ Links(before) = {} /\ Refs(before) = {}
  BY <1>1, RootAssumption DEF NewHierarchy, Links, Refs
<1>3. RInv
  BY <1>1, <1>2, RootAssumption DEF RInv, IInv
<1>4. Contract!Init
  BY <1>2 DEF Contract!Init, Refs
<1> QED  BY <1>3, <1>4

\* A command of selva.modify is one step of the contract.
LEMMA ModifyRefines ==
  ASSUME RInv, IInv',
         \/ \E n \in Ids, noRoot \in BOOLEAN : CreateNode(n, noRoot)
         \/ \E n \in Ids, L \in Lists :
              \/ SetParents(n, L) \/ AddParents(n, L) \/ DelParents(n, L)
              \/ SetChildren(n, L) \/ AddChildren(n, L) \/ DelChildren(n, L)
         \/ \E n \in Ids : ClearParents(n) \/ ClearChildren(n)
         \/ \E e \in Edges : AddEdge(e[1], e[2]) \/ DelEdge(e[1], e[2])
  PROVE  RInv' /\ Contract!Next
<1>1. Idle
  BY DEF CreateNode, SetParents, AddParents, DelParents, SetChildren, AddChildren, DelChildren,
         ClearParents, ClearChildren, AddEdge, DelEdge
<1>2. Shown
  BY <1>1 DEF RInv, IInv, Shown
<1>3. Contract!Next /\ \E h : Commits(h)
  <2>1. ASSUME NEW n \in Ids, NEW noRoot \in BOOLEAN, CreateNode(n, noRoot)
        PROVE  Contract!Next /\ \E h : Commits(h)
    BY <1>2, <2>1, CreateMaps DEF Contract!Next
  <2>2. ASSUME NEW n \in Ids, NEW L \in Lists, SetParents(n, L) \/ AddParents(n, L)
        PROVE  Contract!Next /\ \E h : Commits(h)
    <3>1. n \in before.nodes
      BY <1>2, <2>2 DEF Shown, SetParents, AddParents
    <3> QED  BY <1>2, <2>2, <3>1, ParentsMaps DEF Contract!Next
  <2>3. ASSUME NEW n \in Ids, NEW L \in Lists, SetChildren(n, L) \/ AddChildren(n, L)
        PROVE  Contract!Next /\ \E h : Commits(h)
    <3>1. n \in before.nodes
      BY <1>2, <2>3 DEF Shown, SetChildren, AddChildren
    <3> QED  BY <1>2, <2>3, <3>1, ChildrenMaps DEF Contract!Next
  <2>4. CASE \/ \E n \in Ids, L \in Lists : DelParents(n, L) \/ DelChildren(n, L)
             \/ \E n \in Ids : ClearParents(n) \/ ClearChildren(n)
    BY <1>2, <2>4, DisconnectMaps DEF Contract!Next
  <2>5. ASSUME NEW e \in Edges, AddEdge(e[1], e[2]) \/ DelEdge(e[1], e[2])
        PROVE  Contract!Next /\ \E h : Commits(h)
    <3>1. e[1] \in Ids /\ e[2] \in Ids
      BY InputAssumption
    <3> QED  BY <1>2, <2>5, <3>1, EdgeMaps DEF Contract!Next
  <2> QED  BY <2>1, <2>2, <2>3, <2>4, <2>5
<1>4. PICK h : Commits(h)
  BY <1>3
<1>5. RInv'
  <2>1. /\ graph' = h /\ before' = h /\ Idle' /\ Sound(h) /\ h.nodes \cap Reserved = {}
    BY <1>1, <1>4 DEF Commits, Idle
  <2> QED  BY <2>1 DEF RInv
<1> QED  BY <1>3, <1>5

\* A deletion is one step of the contract when it returns, and none before.
LEMMA DelRefines ==
  ASSUME RInv, IInv', NEW n \in Ids, NEW force \in BOOLEAN, Del(n, force)
  PROVE  RInv' /\ before' = before
<1> DEFINE h == CrossRemoveParents(graph, n, graph.parents[n])
<1>1. /\ Idle /\ n \in graph.nodes /\ before' = before /\ before = graph /\ Sound(graph)
      /\ graph' = h
      /\ calls' = Append(<<>>, [node |-> n, todo |-> h.children[n], force |-> force])
  BY DEF RInv, IInv, Del, Enter, Idle
<1> HIDE DEF h
<1>2. Walk(graph, h, calls', n, force, {n}) /\ calls'[1].node = n /\ calls'[1].force = force
  BY <1>1, DelWalks DEF h
<1>3. Walk(before', graph', calls', calls'[1].node, calls'[1].force, {n})
  BY <1>1, <1>2
<1>4. Sound(before') /\ before'.nodes \cap Reserved = {} /\ ~Idle'
  BY <1>1 DEF RInv, Idle
<1> QED  BY <1>1, <1>3, <1>4 DEF RInv

LEMMA DelChildRefines ==
  ASSUME RInv, IInv', NEW c \in Ids, DelChild(c)
  PROVE  RInv' /\ before' = before
<1> DEFINE top  == calls[Last].node
           n    == calls[1].node
           force == calls[1].force
           rest == Handled(calls, c)
           cut  == CrossRemoveChildren(graph, top, {c})
           h    == CrossRemoveParents(cut, c, cut.parents[c])
           more == Append(rest, Activation(c, h, calls[Last].force))
<1>1. /\ ~Idle /\ calls # <<>> /\ c \in calls[Len(calls)].todo /\ before' = before /\ Last = Len(calls)
      /\ Sound(before) /\ Sound(graph) /\ Apart(graph, calls) /\ calls \in Seq(Calls)
      /\ before.nodes \cap Reserved = {}
  BY DEF RInv, IInv, DelChild, Idle, Last
<1>2. \/ c \notin graph.nodes /\ graph' = graph /\ calls' = rest
      \/ /\ c \in graph.nodes /\ ~(calls[Last].force \/ Unreferenced(cut, c))
         /\ graph' = cut /\ calls' = rest
      \/ /\ c \in graph.nodes /\ (calls[Last].force \/ Unreferenced(cut, c))
         /\ graph' = h /\ calls' = more
  BY DEF DelChild, Enter, Handled, Activation, Last
<1>3. PICK bare : Walk(before, graph, calls, n, force, bare)
  BY <1>1 DEF RInv
<1>4. 1 \in 1 .. Len(calls) /\ Len(calls) \in 1 .. Len(calls) /\ calls[1] \in Calls
  <2>1. 1 \in 1 .. Len(calls) /\ Len(calls) \in 1 .. Len(calls)
    BY <1>1
  <2> QED  BY <1>1, <2>1, ElementOfSeq
<1>5. force \in BOOLEAN /\ calls[Last].force = force
  BY <1>1, <1>3, <1>4 DEF Walk, Frames, Calls
<1>6. AtChild(before, graph, calls, n, force, bare, c)
  BY <1>1, <1>3, <1>5 DEF AtChild
<1>7. \E b : Walk(before, graph', calls', calls'[1].node, calls'[1].force, b)
  <2>1. rest[1].node = n /\ rest[1].force = force
    <3>1. Rest(calls, rest, c)
      BY <1>1, RestFacts
    <3> QED  BY <1>4, <3>1 DEF Rest
  <2> HIDE DEF n, force, rest
  <2>2. CASE c \notin graph.nodes /\ graph' = graph /\ calls' = rest
    <3>1. Walk(before, graph, rest, n, force, bare)
      BY <1>6, <2>2, SkipWalks DEF rest
    <3> QED  BY <2>1, <2>2, <3>1
  <2>3. CASE /\ c \in graph.nodes /\ ~(calls[Last].force \/ Unreferenced(cut, c))
             /\ graph' = cut /\ calls' = rest
    <3>1. Walk(before, cut, rest, n, force, bare)
      BY <1>1, <1>5, <1>6, <2>3, LeaveWalks DEF rest
    <3> QED  BY <2>1, <2>3, <3>1
  <2>4. CASE /\ c \in graph.nodes /\ (calls[Last].force \/ Unreferenced(cut, c))
             /\ graph' = h /\ calls' = more
    <3>1. more = Append(Handled(calls, c), Activation(c, h, force))
      BY <1>5 DEF rest
    <3>2. Enters(graph, calls, force, c, cut, h, more)
      BY <1>1, <1>5, <2>4, <3>1 DEF Enters
    <3> HIDE DEF cut, h, more
    <3>3. /\ Walk(before, h, more, n, force, bare \cup {c})
          /\ more[1].node = calls[1].node /\ more[1].force = calls[1].force
      BY <1>6, <3>2, EnterWalks
    <3> QED  BY <2>4, <3>3 DEF n, force
  <2> QED  BY <1>2, <2>2, <2>3, <2>4
<1>8. ~Idle'
  <2>1. Len(calls') > 0
    <3>1. Rest(calls, rest, c) /\ rest \in Seq(Calls)
      BY <1>1, RestFacts
    <3>2. Len(rest) = Len(calls) /\ Len(calls) > 0 /\ Len(calls) \in Nat
      BY <1>1, <1>4, <3>1 DEF Rest
    <3> HIDE DEF rest, h, cut
    <3>3. Len(more) = Len(rest) + 1
      BY <3>1
    <3> HIDE DEF more
    <3> QED  BY <1>2, <3>2, <3>3
  <2> QED  BY <2>1 DEF Idle
<1>9. Sound(before') /\ before'.nodes \cap Reserved = {}
  BY <1>1
<1> QED  BY <1>1, <1>7, <1>8, <1>9 DEF RInv

LEMMA DelReturnRefines ==
  ASSUME RInv, IInv', DelReturn
  PROVE  RInv' /\ (before' = before \/ Contract!Next)
<1> DEFINE n     == calls[1].node
           force == calls[1].force
           h     == DelNode(graph, calls[Len(calls)].node)
           rest  == SubSeq(calls, 1, Len(calls) - 1)
<1>1. /\ ~Idle /\ calls # <<>> /\ calls[Len(calls)].todo = {} /\ graph' = h /\ calls' = rest
      /\ before' = IF Len(calls) = 1 THEN h ELSE before
      /\ Sound(before) /\ Sound(graph) /\ Apart(graph, calls) /\ calls \in Seq(Calls)
      /\ before.nodes \cap Reserved = {} /\ Sound(graph')
  BY DEF RInv, IInv, DelReturn, Idle, Last
<1>2. PICK bare : Walk(before, graph, calls, n, force, bare)
  BY <1>1 DEF RInv
<1>3. 1 \in 1 .. Len(calls) /\ Len(calls) \in Nat /\ calls[1] \in Calls
  <2>1. 1 \in 1 .. Len(calls) /\ Len(calls) \in Nat
    BY <1>1
  <2> QED  BY <1>1, <2>1, ElementOfSeq
<1>4. n \in Ids /\ force \in BOOLEAN
  BY <1>3 DEF Calls
<1>5. Walk(before, h, rest, n, force, bare)
  BY <1>1, <1>2, ReturnWalks
<1>6. Popped(calls, rest)
  BY <1>1, PopFacts
<1> HIDE DEF h, n, force, rest
<1>7. CASE Len(calls) = 1
  <2>1. before' = h /\ graph' = h /\ Idle' /\ Len(rest) = 0
    <3>1. Len(rest) = 0 /\ rest \in Seq(Calls)
      BY <1>6, <1>7 DEF Popped
    <3>2. rest = <<>>
      BY <3>1
    <3> QED  BY <1>1, <1>7, <3>1, <3>2 DEF Idle
  <2>2. PICK m \in Ids, f \in BOOLEAN : m = n /\ f = force
    BY <1>4
  <2>6. Contract!Delete(m, f)
    <3>1. Sound(h)
      BY <1>1, <2>1
    <3>2. \E root \in SUBSET {Root} : Deletes(before, h, n, force, root)
      BY <1>1, <1>4, <1>5, <2>1, <3>1, WalkDeletes
    <3>3. PICK root \in SUBSET {Root} : Deletes(before, before', m, f, root)
      BY <2>1, <2>2, <3>2
    <3> QED  BY <3>3, DeletesIsDelete
  <2>3. n \in before.nodes /\ h.nodes \subseteq before.nodes
    BY <1>5 DEF Walk, Stripped
  <2>4. Contract!Next
    <3>1. m \in before.nodes
      BY <2>2, <2>3
    <3> QED  BY <2>6, <3>1 DEF Contract!Next
  <2>5. RInv'
    <3>1. Sound(before') /\ before'.nodes \cap Reserved = {} /\ before' = graph'
      BY <1>1, <2>1, <2>3
    <3> QED  BY <2>1, <3>1 DEF RInv
  <2> QED  BY <2>4, <2>5
<1>8. CASE Len(calls) # 1
  <2>1. before' = before /\ Len(rest) > 0 /\ 1 \in 1 .. Len(rest)
    BY <1>1, <1>3, <1>6, <1>8 DEF Popped
  <2>2. rest[1] = calls[1]
    BY <1>6, <2>1 DEF Popped
  <2>3. Walk(before', graph', calls', calls'[1].node, calls'[1].force, bare)
    BY <1>1, <1>5, <2>1, <2>2 DEF n, force
  <2>4. ~Idle' /\ Sound(before') /\ before'.nodes \cap Reserved = {}
    BY <1>1, <2>1 DEF Idle
  <2> QED  BY <2>1, <2>3, <2>4 DEF RInv
<1> QED  BY <1>7, <1>8

LEMMA NextRefines ==
  RInv /\ [Next]_vars =>
    RInv' /\ [Contract!Next]_<<before.nodes, Links(before),
                                {e \in Ids \X Ids : e[1] \in before.origins[e[2]]}>>
<1> SUFFICES ASSUME RInv, [Next]_vars
             PROVE  RInv' /\ (Contract!Next \/ before' = before)
  <2>1. before' = before =>
          /\ before'.nodes = before.nodes /\ Links(before') = Links(before)
          /\ {e \in Ids \X Ids : e[1] \in before'.origins[e[2]]}
               = {e \in Ids \X Ids : e[1] \in before.origins[e[2]]}
    OBVIOUS
  <2> QED  BY <2>1
<1>1. IInv'
  BY NextKeeps DEF RInv
<1>2. ASSUME NEW n \in Ids, NEW force \in BOOLEAN, Del(n, force) PROVE RInv' /\ before' = before
  BY <1>1, <1>2, DelRefines
<1>3. ASSUME NEW c \in Ids, DelChild(c) PROVE RInv' /\ before' = before
  BY <1>1, <1>3, DelChildRefines
<1>4. CASE DelReturn
  BY <1>1, <1>4, DelReturnRefines
<1>5. CASE UNCHANGED vars
  <2>1. graph' = graph /\ calls' = calls /\ before' = before
    BY <1>5 DEF vars
  <2>2. RInv'
    BY <1>1, <2>1 DEF RInv, Idle
  <2> QED  BY <2>1, <2>2
<1> QED  BY <1>1, <1>2, <1>3, <1>4, <1>5, ModifyRefines DEF Next, Recursion

\* The two vectors of each node, the heads, the lookups and the recursion of selva.modify
\* and selva.hierarchy.del (hierarchy.c) implement one relation between nodes, from which
\* each command takes and to which it adds exactly what it promises: a deletion, however
\* the graph it walks changes under it, what is below the node if it is forced, and
\* otherwise only what nothing else refers to.
THEOREM KeepsContract == Spec => Implements
<1> QED  BY InitRInv, NextRefines, PTL DEF Spec, Implements, Contract!Spec

=============================================================================
