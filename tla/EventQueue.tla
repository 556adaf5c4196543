------------------------------ MODULE EventQueue ------------------------------
(***************************************************************************)
(* What publishing subscription events asynchronously promises: every      *)
(* event that was accepted waits in one bounded FIFO queue and is taken    *)
(* from its head exactly once, to be published.                            *)
(***************************************************************************)
EXTENDS Naturals, Sequences

CONSTANTS Queues, Events, Capacity, Readers, Nothing

VARIABLES
  queued,   \* queued[q]: the events waiting in q, the oldest first
  inHand    \* inHand[r]: the event that reader r is publishing, or Nothing

Init == queued = [q \in Queues |-> <<>>] /\ inHand = [r \in Readers |-> Nothing]

Accept(q, e) ==
  /\ Len(queued[q]) < Capacity
  /\ queued' = [queued EXCEPT ![q] = Append(@, e)]
  /\ UNCHANGED inHand

Take(q, r) ==
  /\ queued[q] # <<>> /\ inHand[r] = Nothing
  /\ queued' = [queued EXCEPT ![q] = Tail(@)]
  /\ inHand' = [inHand EXCEPT ![r] = Head(queued[q])]

\* Published, or given up.
Finish(r) ==
  /\ inHand[r] # Nothing
  /\ inHand' = [inHand EXCEPT ![r] = Nothing]
  /\ UNCHANGED queued

Next == \/ \E q \in Queues, e \in Events : Accept(q, e)
        \/ \E q \in Queues, r \in Readers : Take(q, r)
        \/ \E r \in Readers : Finish(r)

Spec == Init /\ [][Next]_<<queued, inHand>>

=============================================================================
