------------------------------- MODULE AsyncTask -------------------------------
(***************************************************************************)
(* Publishing of subscription events by worker threads.  The main thread   *)
(* of the server puts an event in the ring buffer of one of the workers;   *)
(* the worker of that ring copies it out and sends a PUBLISH to the server *)
(* over a connection of its own.  A worker ends after some minutes or too  *)
(* many failures, and the next event sent starts another in its place.     *)
(*                                                                         *)
(* The two sides share the ring's indices and thread_ids[] without a lock. *)
(* Each read or write of these, and each copy of a slot, is a step; the    *)
(* steps take effect in program order, as they do on x86-64.               *)
(***************************************************************************)
EXTENDS Naturals, Sequences, FiniteSets

CONSTANTS
  Workers,     \* ASYNC_TASK_HIREDIS_WORKER_COUNT: the queues are 0..Workers-1
  RingLength,  \* ASYNC_TASK_RING_BUF_LENGTH: the slots of a ring
  MaxReconn,   \* WORKER_MAX_RECONN
  Events,      \* events to publish; one may be sent again and again
  Triggers,    \* those of type SUB_TRIGGER, the others are SUB_UPDATE
  Spares,      \* names for the threads a queue may have at a time
  LateStore    \* may a worker end before its creator has stored its id?

ASSUME SizeAssumption == /\ Workers \in Nat \ {0} /\ RingLength \in Nat \ {0, 1}
                         /\ MaxReconn \in Nat /\ Triggers \subseteq Events

Queues == 0 .. Workers - 1
Slots  == 0 .. RingLength - 1
None   == "none"

\* A thread is named by the queue it was created for.
Threads == Queues \X Spares

VARIABLES
  ids,      \* thread_ids[q] # 0
  thread,   \* the worker threads
  ring,     \* queue_mem: an event or None in every slot
  rd, wr,   \* m_read and m_write of every queue
  next,     \* queue_idx, the round robin over the queues
  main      \* the main thread in SelvaModify_SendAsyncTask

vars == <<ids, thread, ring, rd, wr, next, main>>

After(s) == (s + 1) % RingLength
Full(q)  == After(wr[q]) = rd[q]
Empty(q) == rd[q] = wr[q]

InRing(q) ==
  [k \in 1 .. (wr[q] + RingLength - rd[q]) % RingLength
     |-> ring[q][(rd[q] + k - 1) % RingLength]]

Alive(t)  == thread[t].pc # None
NewThread == [pc |-> "start", event |-> None, up |-> FALSE, retries |-> 0]
NoThread  == [NewThread EXCEPT !.pc = None]
InHand(t) == IF thread[t].pc = "publish" THEN thread[t].event ELSE None

-----------------------------------------------------------------------------
(* The main thread: SelvaModify_SendAsyncTask *)

Idle == [pc |-> "idle", event |-> None, q |-> 0, first |-> 0, full |-> {}]

Send(e) ==
  /\ main.pc = "idle"
  /\ main' = [Idle EXCEPT !.pc = "look", !.event = e]
  /\ UNCHANGED <<ids, thread, ring, rd, wr, next>>

\* Past the last worker the first queue to try is drawn.
LookOn(q) == IF q + 1 < Workers THEN [main EXCEPT !.pc = "look", !.q = q + 1]
             ELSE [main EXCEPT !.pc = "first", !.q = 0]

\* A worker that is thought to run is left alone.
Look ==
  /\ main.pc = "look" /\ ids[main.q]
  /\ main' = LookOn(main.q)
  /\ UNCHANGED <<ids, thread, ring, rd, wr, next>>

\* pthread_create: the new thread may run before its id is stored.
Create ==
  /\ main.pc = "look" /\ ~ids[main.q]
  /\ \E s \in Spares :
       /\ s = CHOOSE u \in Spares : ~Alive(<<main.q, u>>)
       /\ thread' = [thread EXCEPT ![<<main.q, s>>] = NewThread]
  /\ main' = [main EXCEPT !.pc = "store"]
  /\ UNCHANGED <<ids, ring, rd, wr, next>>

CreateFails ==
  /\ main.pc = "look" /\ ~ids[main.q]
  /\ main' = LookOn(main.q)
  /\ UNCHANGED <<ids, thread, ring, rd, wr, next>>

Store ==
  /\ main.pc = "store"
  /\ ids' = [ids EXCEPT ![main.q] = TRUE]
  /\ main' = LookOn(main.q)
  /\ UNCHANGED <<thread, ring, rd, wr, next>>

\* next_queue_idx()
Draw == next' = (next + 1) % Workers

\* Mutant: the event is dropped if the first queue is full.
OnlyFirst ==
  /\ main.pc = "first" /\ Draw
  /\ main' = IF Full(next) THEN [main EXCEPT !.pc = "missed", !.full = {next}]
             ELSE [main EXCEPT !.pc = "write", !.q = next]
  /\ UNCHANGED <<ids, thread, ring, rd, wr>>

\* The queue whose turn it is, if it has room.
TryFirst ==
  /\ main.pc = "first" /\ Draw
  /\ main' = IF Full(next)
             THEN [main EXCEPT !.pc = "scan", !.first = next, !.full = {next}]
             ELSE [main EXCEPT !.pc = "write", !.q = next]
  /\ UNCHANGED <<ids, thread, ring, rd, wr>>

\* Otherwise the others in turn; back at the first one the event is dropped.
Scan ==
  /\ main.pc = "scan" /\ Draw
  /\ main' = IF next = main.first THEN [main EXCEPT !.pc = "missed"]
             ELSE IF Full(next) THEN [main EXCEPT !.full = @ \cup {next}]
             ELSE [main EXCEPT !.pc = "write", !.q = next, !.first = 0, !.full = {}]
  /\ UNCHANGED <<ids, thread, ring, rd, wr>>

\* missed_publishes++
Miss ==
  /\ main.pc = "missed"
  /\ main' = Idle
  /\ UNCHANGED <<ids, thread, ring, rd, wr, next>>

\* queue_alloc_get() and the copy; an event fits in one slot.
Write ==
  /\ main.pc = "write" /\ ~Full(main.q)
  /\ ring' = [ring EXCEPT ![main.q][wr[main.q]] = main.event]
  /\ main' = [main EXCEPT !.pc = "commit"]
  /\ UNCHANGED <<ids, thread, rd, wr, next>>

\* Mutant: the index does not wrap.
CommitPastTheEnd ==
  /\ main.pc = "commit"
  /\ wr' = [wr EXCEPT ![main.q] = @ + 1]
  /\ main' = Idle
  /\ UNCHANGED <<ids, thread, ring, rd, next>>

\* queue_alloc_commit()
Commit ==
  /\ main.pc = "commit"
  /\ wr' = [wr EXCEPT ![main.q] = After(@)]
  /\ main' = Idle
  /\ UNCHANGED <<ids, thread, ring, rd, next>>

InCall == \/ Look \/ Create \/ CreateFails \/ Store
          \/ TryFirst \/ Scan \/ Miss \/ Write \/ Commit

-----------------------------------------------------------------------------
(* A worker thread: SelvaModify_AsyncTaskWorkerMain *)

Step(t, s) == thread' = [thread EXCEPT ![t] = s]

\* The first connection, or the end of the thread.
Connect(t) ==
  /\ thread[t].pc = "start"
  /\ Step(t, [thread[t] EXCEPT !.pc = "loop", !.up = TRUE])
  /\ UNCHANGED <<ids, ring, rd, wr, next, main>>

ConnectFails(t) ==
  /\ thread[t].pc = "start"
  /\ Step(t, [thread[t] EXCEPT !.pc = "error"])
  /\ UNCHANGED <<ids, ring, rd, wr, next, main>>

\* Mutant: the thread gives its place away before it has ended.
ExpireEarly(t) ==
  /\ thread[t].pc = "loop"
  /\ ids' = [ids EXCEPT ![t[1]] = FALSE]
  /\ Step(t, [NewThread EXCEPT !.pc = "error"])
  /\ UNCHANGED <<ring, rd, wr, next, main>>

\* WORKER_RESTART_PERIOD has passed.
Expire(t) ==
  /\ thread[t].pc = "loop"
  /\ Step(t, [NewThread EXCEPT !.pc = "error"])
  /\ UNCHANGED <<ids, ring, rd, wr, next, main>>

\* queue_peek() and the copy of the slot that it finds
Peek(t) ==
  /\ thread[t].pc = "loop" /\ ~Empty(t[1])
  /\ Step(t, [thread[t] EXCEPT !.pc = "skip", !.event = ring[t[1]][rd[t[1]]]])
  /\ UNCHANGED <<ids, ring, rd, wr, next, main>>

\* Mutant: the queue is cleared, with what has come in since.
SkipAll(t) ==
  /\ thread[t].pc = "skip"
  /\ Step(t, [thread[t] EXCEPT !.pc = "publish"])
  /\ rd' = [rd EXCEPT ![t[1]] = wr[t[1]]]
  /\ UNCHANGED <<ids, ring, wr, next, main>>

\* queue_skip()
Skip(t) ==
  /\ thread[t].pc = "skip"
  /\ Step(t, [thread[t] EXCEPT !.pc = "publish"])
  /\ rd' = IF Empty(t[1]) THEN rd ELSE [rd EXCEPT ![t[1]] = After(@)]
  /\ UNCHANGED <<ids, ring, wr, next, main>>

\* RETRY: one more failure, the connection is closed; too many of them, counted
\* over the life of the thread, and the event is given up with the thread.
Fail(t) ==
  /\ thread[t].pc = "publish"
  /\ LET n == thread[t].retries + 1
     IN  Step(t, IF n > MaxReconn THEN [NewThread EXCEPT !.pc = "error"]
                 ELSE [thread[t] EXCEPT !.up = FALSE, !.retries = n])
  /\ UNCHANGED <<ids, ring, rd, wr, next, main>>

Reconnect(t) ==
  /\ thread[t].pc = "publish" /\ ~thread[t].up
  /\ Step(t, [thread[t] EXCEPT !.up = TRUE])
  /\ UNCHANGED <<ids, ring, rd, wr, next, main>>

\* The reply of PUBLISH.  Only a trigger resets the count of failures.
Publish(t) ==
  /\ thread[t].pc = "publish" /\ thread[t].up
  /\ Step(t, [thread[t] EXCEPT !.pc = "loop", !.event = None,
                               !.retries = IF thread[t].event \in Triggers THEN 0 ELSE @])
  /\ UNCHANGED <<ids, ring, rd, wr, next, main>>

\* Mutant: the id of a thread that has ended is kept.
EndUnseen(t) ==
  /\ thread[t].pc = "error"
  /\ Step(t, NoThread)
  /\ UNCHANGED <<ids, ring, rd, wr, next, main>>

\* thread_ids[q] = 0, the last thing a thread does to shared state.
End(t) ==
  /\ thread[t].pc = "error"
  /\ LateStore \/ ~(main.pc = "store" /\ main.q = t[1])
  /\ ids' = [ids EXCEPT ![t[1]] = FALSE]
  /\ Step(t, NoThread)
  /\ UNCHANGED <<ring, rd, wr, next, main>>

Work(t) == \/ Connect(t) \/ ConnectFails(t) \/ Expire(t) \/ Peek(t) \/ Skip(t)
           \/ Fail(t) \/ Reconnect(t) \/ Publish(t) \/ End(t)

-----------------------------------------------------------------------------

Init == /\ ids = [q \in Queues |-> FALSE]
        /\ thread = [t \in Threads |-> NoThread]
        /\ ring = [q \in Queues |-> [s \in Slots |-> None]]
        /\ rd = [q \in Queues |-> 0] /\ wr = [q \in Queues |-> 0]
        /\ next = 0 /\ main = Idle

Next == \/ \E e \in Events : Send(e)
        \/ InCall
        \/ \E t \in Threads : Work(t)

\* The operating system runs every thread, and a call of the main thread goes on
\* to its end.  Nothing is assumed of the connection here.
Spec == /\ Init /\ [][Next]_vars
        /\ WF_vars(InCall) /\ \A t \in Threads : WF_vars(Work(t))

-----------------------------------------------------------------------------
(* Properties *)

Pcs == {None, "start", "loop", "skip", "publish", "error"}

\* Every index stays in the ring, every event is one, every count is bounded.
TypeOK ==
  /\ ids \in [Queues -> BOOLEAN]
  /\ thread \in [Threads -> [pc : Pcs, event : Events \cup {None},
                             up : BOOLEAN, retries : 0 .. MaxReconn]]
  /\ ring \in [Queues -> [Slots -> Events \cup {None}]]
  /\ rd \in [Queues -> Slots] /\ wr \in [Queues -> Slots]
  /\ next \in Queues
  /\ main \in [pc : {"idle", "look", "store", "first", "scan", "missed", "write", "commit"},
               event : Events \cup {None}, q : Queues, first : Queues, full : SUBSET Queues]

\* The rings are safe for one reader each: at no time are two threads alive that
\* read the same one, however late a thread ends or its id is stored.
OneConsumer ==
  \A t, u \in Threads : (t # u /\ Alive(t) /\ Alive(u)) => t[1] # u[1]

\* An event is counted as missed only if every queue was found full by this call.
MissedWhenFull == main.pc = "missed" => main.full = Queues

\* Two indices read and written without a lock make a FIFO queue: no event is
\* overwritten, read twice, or read before it is whole.
Fifo == INSTANCE EventQueue
          WITH queued <- [q \in Queues |-> InRing(q)], inHand <- [t \in Threads |-> InHand(t)],
               Readers <- Threads, Nothing <- None,
               Capacity <- RingLength - 1

Implements == Fifo!Spec

\* While events keep coming, threads can be created and the server accepts the
\* connection of a worker again and again, no event waits in a ring for ever,
\* whenever workers end: somebody notices and starts another.
EventsGoOn  == []<>(main.pc = "idle") /\ []<>(main.pc # "idle")
ThreadsGoOn(q) == SF_vars(Create /\ main.q = q)
ServerUp(q)    == \A t \in {q} \X Spares : SF_vars(Connect(t)) /\ SF_vars(Peek(t))

QueueServed ==
  \A q \in Queues :
    (EventsGoOn /\ ThreadsGoOn(q) /\ ServerUp(q)) =>
      (<>[]Empty(q) \/ []<><<rd'[q] # rd[q]>>_vars)

=============================================================================
