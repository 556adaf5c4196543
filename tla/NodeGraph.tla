------------------------------ MODULE NodeGraph ------------------------------
(***************************************************************************)
(* What the hierarchy promises, one command at a time: a set of nodes, one *)
(* parent/child relation and one relation for the edge fields.  Both ends  *)
(* of a pair exist, nodes come into being when a command names them, and   *)
(* only a deletion takes nodes away.                                       *)
(***************************************************************************)
CONSTANTS Ids, Root, Reserved, Lists

VARIABLES nodes, links, refs

ParentsOf(R, n)  == {p \in Ids : <<p, n>> \in R}
Touching(R, S)   == {e \in R : e[1] \in S \/ e[2] \in S}

\* The nodes reachable from n over R: the least set with n that R does not lead out of.
Below(R, n) ==
  {m \in Ids : \A S \in SUBSET Ids :
     (n \in S /\ \A e \in R : e[1] \in S => e[2] \in S) => m \in S}

Init == nodes = {Root} /\ links = {} /\ refs = {}

\* A new node, under the root or on its own.
Create ==
  \E n \in Ids \ (nodes \cup Reserved) :
    /\ nodes' = nodes \cup {n}
    /\ links' \in {links, links \cup {<<Root, n>>}}
    /\ UNCHANGED refs

\* ps become parents of n (the missing ones as children of the root), and with
\* `only` they become its only parents.
Parents(n, ps, only) ==
  LET good == ps \ Reserved
      kept == IF only THEN {e \in links : e[2] # n} ELSE links
      made == good \ nodes
  IN  /\ n \in nodes
      /\ nodes' = nodes \cup made
      /\ links' = ({Root} \X made) \cup (good \X {n}) \cup kept
      /\ UNCHANGED refs

Children(n, cs, only) ==
  LET good == cs \ Reserved
      kept == IF only THEN {e \in links : e[1] # n} ELSE links
  IN  /\ n \in nodes
      /\ nodes' = nodes \cup good
      /\ links' = ({n} \X good) \cup kept
      /\ UNCHANGED refs

Disconnect ==
  /\ links' \subseteq links
  /\ \E n \in nodes : \A e \in links \ links' : n \in {e[1], e[2]}
  /\ UNCHANGED <<nodes, refs>>

Refer ==
  \E s \in nodes, d \in Ids \ Reserved :
    /\ nodes' = nodes \cup {d}
    /\ refs' = refs \cup {<<s, d>>}
    /\ UNCHANGED links

Forget ==
  /\ \E e \in refs : refs' = refs \ {e}
  /\ UNCHANGED <<nodes, links>>

\* The deletion of n strips the nodes of `bare` of every link and edge, and all
\* of them but the root are gone; nothing else changes.
\*  - Forced, bare is all that was below n.
\*  - Otherwise a node is stripped only once all of its parents have been and
\*    every node whose edges refer to it is gone; and one that is left behind
\*    without a parent was referred to by an edge when the deletion began.
Delete(n, force) ==
  \E root \in SUBSET {Root} :
    LET gone == nodes \ nodes'
        bare == gone \cup root
    IN  /\ n \in bare /\ Root \notin gone
        /\ nodes' \subseteq nodes
        /\ links' = links \ Touching(links, bare)
        /\ refs' = refs \ Touching(refs, gone)
        /\ force => bare = Below(links, n)
        /\ ~force =>
             /\ \A d \in bare \ {n} :
                  /\ ParentsOf(links, d) # {} /\ ParentsOf(links, d) \subseteq bare
                  /\ ParentsOf(refs, d) \subseteq gone
             /\ \A s \in nodes \ bare :
                  (ParentsOf(links, s) # {} /\ ParentsOf(links', s) = {})
                    => ParentsOf(refs, s) # {}

Next ==
  \/ Create \/ Disconnect \/ Refer \/ Forget
  \/ \E n \in nodes, L \in Lists, only \in BOOLEAN :
       Parents(n, L, only) \/ Children(n, L, only)
  \/ \E n \in nodes, force \in BOOLEAN : Delete(n, force)

Spec == Init /\ [][Next]_<<nodes, links, refs>>

=============================================================================
