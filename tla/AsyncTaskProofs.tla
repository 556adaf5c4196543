---------------------------- MODULE AsyncTaskProofs ----------------------------
(***************************************************************************)
(* Proofs about AsyncTask for any number of workers, rings of any length,  *)
(* any events, and threads that end before or after their id is stored;    *)
(* and then the ring as an implementation of EventQueue, a FIFO queue with *)
(* no lock, for any number of queues, length of the rings and threads.     *)
(***************************************************************************)
EXTENDS AsyncTask, Integers, SequenceTheorems, TLAPS

\* The round robin and the indices of a ring wrap around.
LEMMA Wraps ==
  ASSUME NEW n \in Nat \ {0}, NEW x \in 0 .. n - 1
  PROVE  (x + 1) % n = IF x + 1 = n THEN 0 ELSE x + 1
  OBVIOUS

LEMMA DrawWraps ==
  ASSUME next \in Queues, Draw
  PROVE  next' \in Queues /\ next' = IF next + 1 = Workers THEN 0 ELSE next + 1
  <1>1. next' = IF next + 1 = Workers THEN 0 ELSE next + 1
    BY SizeAssumption, Wraps DEF Draw, Queues
  <1> QED BY <1>1, SizeAssumption DEF Queues

LEMMA AfterWraps ==
  ASSUME NEW s \in Slots
  PROVE  After(s) \in Slots /\ After(s) = IF s + 1 = RingLength THEN 0 ELSE s + 1
  <1>1. After(s) = IF s + 1 = RingLength THEN 0 ELSE s + 1
    BY SizeAssumption, Wraps DEF After, Slots
  <1> QED BY <1>1, SizeAssumption DEF Slots

-----------------------------------------------------------------------------
(* Types *)

Maybe == Events \cup {None}

ThreadStates == [pc : Pcs, event : Maybe, up : BOOLEAN, retries : 0 .. MaxReconn]

MainStates ==
  [pc : {"idle", "look", "store", "first", "scan", "missed", "write", "commit"},
   event : Maybe, q : Queues, first : Queues, full : SUBSET Queues]

LEMMA Starts ==
  /\ Idle \in MainStates /\ NewThread \in ThreadStates /\ NoThread \in ThreadStates
  /\ [NewThread EXCEPT !.pc = "error"] \in ThreadStates
  /\ \A e \in Events : [Idle EXCEPT !.pc = "look", !.event = e] \in MainStates
  <1>1. 0 \in Queues /\ 0 \in 0 .. MaxReconn
    BY SizeAssumption DEF Queues
  <1>2. Idle \in MainStates /\ \A e \in Events : [Idle EXCEPT !.pc = "look", !.event = e] \in MainStates
    BY <1>1 DEF Idle, MainStates, Maybe
  <1>3. NewThread \in ThreadStates
    BY <1>1 DEF NewThread, ThreadStates, Maybe, Pcs
  <1>4. \A pc \in Pcs : [NewThread EXCEPT !.pc = pc] \in ThreadStates
    BY <1>3 DEF ThreadStates
  <1>5. None \in Pcs /\ "error" \in Pcs
    BY DEF Pcs
  <1> QED BY <1>2, <1>3, <1>4, <1>5 DEF NoThread

LEMMA InitTypes == Init => TypeOK
  <1> SUFFICES ASSUME Init PROVE TypeOK
    OBVIOUS
  <1>1. 0 \in Queues /\ 0 \in Slots
    BY SizeAssumption DEF Queues, Slots
  <1>2. thread \in [Threads -> ThreadStates] /\ main \in MainStates
    BY Starts DEF Init
  <1> QED BY <1>1, <1>2 DEF Init, TypeOK, ThreadStates, MainStates, Maybe

LEMMA MainTypes ==
  ASSUME TypeOK, InCall \/ \E e \in Events : Send(e)
  PROVE  TypeOK'
  <1> USE DEF TypeOK
  <1>0. main \in MainStates
    BY DEF MainStates, Maybe
  <1>1. ASSUME NEW e \in Events, Send(e) PROVE TypeOK'
    <2>1. main' \in MainStates
      BY <1>1, Starts DEF Send
    <2> QED BY <1>1, <2>1 DEF Send, MainStates, Maybe
  <1>2. Idle \in MainStates
    BY Starts
  <1>3. LookOn(main.q) \in MainStates
    <2>1. main.q + 1 < Workers => main.q + 1 \in Queues
      BY <1>0, SizeAssumption DEF MainStates, Queues
    <2>2. 0 \in Queues
      BY SizeAssumption DEF Queues
    <2>3. CASE main.q + 1 < Workers
      BY <1>0, <2>1, <2>3 DEF LookOn, MainStates
    <2>4. CASE ~(main.q + 1 < Workers)
      BY <1>0, <2>2, <2>4 DEF LookOn, MainStates
    <2> QED BY <2>3, <2>4
  <1>4. NewThread \in ThreadStates
    BY Starts
  <1> HIDE DEF TypeOK
  <1>14. ASSUME TypeOK, main' \in MainStates, UNCHANGED <<thread, ring, rd, wr, next>>,
                ids' \in [Queues -> BOOLEAN]
         PROVE  TypeOK'
    BY <1>14 DEF TypeOK, MainStates, Maybe
  <1>5. CASE Look
    BY <1>3, <1>5, <1>14 DEF Look, TypeOK
  <1>6. CASE CreateFails
    BY <1>3, <1>6, <1>14 DEF CreateFails, TypeOK
  <1>7. CASE Store
    <2>1. UNCHANGED <<thread, ring, rd, wr, next>> /\ main' \in MainStates
      BY <1>3, <1>7 DEF Store
    <2>2. ids' = [ids EXCEPT ![main.q] = TRUE]
      BY <1>7 DEF Store
    <2>3. ids' \in [Queues -> BOOLEAN]
      BY <2>2 DEF TypeOK
    <2> QED BY <1>14, <2>1, <2>3
  <1> USE DEF TypeOK
  <1>8. CASE Create
    <2>1. thread' \in [Threads -> ThreadStates]
      BY <1>4, <1>8 DEF Create, ThreadStates, Maybe
    <2>2. main' \in MainStates
      BY <1>0, <1>8 DEF Create, MainStates
    <2>3. UNCHANGED <<ids, ring, rd, wr, next>>
      BY <1>8 DEF Create
    <2> QED BY <2>1, <2>2, <2>3 DEF ThreadStates, MainStates, Maybe
  <1>9. CASE TryFirst
    <2>1. next' \in Queues
      BY <1>9, DrawWraps DEF TryFirst
    <2> QED BY <1>9, <2>1 DEF TryFirst
  <1>10. CASE Scan
    <2>1. next' \in Queues
      BY <1>10, DrawWraps DEF Scan
    <2>3. 0 \in Queues
      BY SizeAssumption DEF Queues
    <2>2. main' \in MainStates
      BY <1>0, <1>10, <2>3 DEF Scan, MainStates
    <2> QED BY <1>10, <2>1, <2>2 DEF Scan, MainStates, Maybe
  <1>11. CASE Miss
    BY <1>2, <1>11 DEF Miss, MainStates, Maybe
  <1>12. CASE Write
    BY <1>12 DEF Write
  <1>13. CASE Commit
    BY <1>2, <1>13, AfterWraps DEF Commit, MainStates, Maybe
  <1> QED BY <1>1, <1>5, <1>6, <1>7, <1>8, <1>9, <1>10, <1>11, <1>12, <1>13 DEF InCall

LEMMA WorkTypes ==
  ASSUME TypeOK, NEW t \in Threads, Work(t)
  PROVE  TypeOK'
  <1> USE DEF TypeOK
  <1>1. /\ t[1] \in Queues /\ thread[t] \in ThreadStates
        /\ NoThread \in ThreadStates /\ [NewThread EXCEPT !.pc = "error"] \in ThreadStates
    BY Starts DEF Threads, ThreadStates, Maybe
  <1>2. ASSUME NEW s \in ThreadStates, Step(t, s)
        PROVE  thread' \in [Threads -> ThreadStates]
    BY <1>2 DEF Step, ThreadStates, Maybe
  <1>3. thread' \in [Threads -> ThreadStates]
    <2>1. CASE Connect(t) \/ ConnectFails(t)
      BY <1>1, <1>2, <2>1 DEF Connect, ConnectFails, ThreadStates, Pcs
    <2>2. CASE Expire(t) \/ End(t)
      BY <1>1, <1>2, <2>2 DEF Expire, End
    <2>3. CASE Peek(t)
      <3>1. ring[t[1]][rd[t[1]]] \in Maybe
        BY <1>1 DEF Maybe
      <3>2. [thread[t] EXCEPT !.pc = "skip", !.event = ring[t[1]][rd[t[1]]]] \in ThreadStates
        BY <1>1, <3>1 DEF ThreadStates, Pcs
      <3> QED BY <1>2, <2>3, <3>2 DEF Peek
    <2>4. CASE Skip(t)
      <3>1. [thread[t] EXCEPT !.pc = "publish"] \in ThreadStates
        BY <1>1 DEF ThreadStates, Pcs
      <3> QED BY <1>2, <2>4, <3>1 DEF Skip
    <2>5. CASE Fail(t)
      <3> DEFINE n == thread[t].retries + 1
      <3>1. n \in Nat /\ (~(n > MaxReconn) => n \in 0 .. MaxReconn)
        BY <1>1, SizeAssumption DEF ThreadStates
      <3> HIDE DEF n
      <3>2. ~(n > MaxReconn) => [thread[t] EXCEPT !.up = FALSE, !.retries = n] \in ThreadStates
        BY <1>1, <3>1 DEF ThreadStates
      <3>3. CASE n > MaxReconn
        BY <1>1, <1>2, <2>5, <3>3 DEF Fail, n
      <3>4. CASE ~(n > MaxReconn)
        BY <1>2, <2>5, <3>2, <3>4 DEF Fail, n
      <3> QED BY <3>3, <3>4
    <2>6. CASE Reconnect(t)
      BY <1>1, <1>2, <2>6 DEF Reconnect, ThreadStates
    <2>7. CASE Publish(t)
      <3> DEFINE n == IF thread[t].event \in Triggers THEN 0 ELSE thread[t].retries
      <3>1. n \in 0 .. MaxReconn
        BY <1>1, SizeAssumption DEF ThreadStates
      <3> HIDE DEF n
      <3>2. [thread[t] EXCEPT !.pc = "loop", !.event = None, !.retries = n] \in ThreadStates
        BY <1>1, <3>1 DEF ThreadStates, Pcs, Maybe
      <3> QED BY <1>2, <2>7, <3>2 DEF Publish, n
    <2> QED BY <2>1, <2>2, <2>3, <2>4, <2>5, <2>6, <2>7 DEF Work
  <1>4. ids' \in [Queues -> BOOLEAN]
    BY <1>1 DEF Work, Connect, ConnectFails, Expire, Peek, Skip, Fail, Reconnect, Publish, End
  <1>5. rd' \in [Queues -> Slots]
    <2>1. After(rd[t[1]]) \in Slots
      BY <1>1, AfterWraps
    <2>2. rd' = rd \/ rd' = [rd EXCEPT ![t[1]] = After(@)]
      BY DEF Work, Connect, ConnectFails, Expire, Peek, Skip, Fail, Reconnect, Publish, End
    <2> QED BY <1>1, <2>1, <2>2
  <1>6. UNCHANGED <<ring, wr, next, main>>
    BY DEF Work, Connect, ConnectFails, Expire, Peek, Skip, Fail, Reconnect, Publish, End
  <1> QED BY <1>3, <1>4, <1>5, <1>6 DEF ThreadStates, Maybe

LEMMA NextTypes == TypeOK /\ [Next]_vars => TypeOK'
  <1>1. CASE UNCHANGED vars
    BY <1>1 DEF vars, TypeOK
  <1> QED BY <1>1, MainTypes, WorkTypes DEF Next

\* Whatever the threads do, every index stays in its ring and every count within
\* its bound (async_task.c).
THEOREM TypeCorrect == Spec => []TypeOK
  BY InitTypes, NextTypes, PTL DEF Spec

-----------------------------------------------------------------------------
(* One consumer for each ring *)

\* A thread is created only if its queue is thought to have none.  That cannot
\* be relied on between pthread_create and the store of the id, but then the
\* main thread looks at no other queue; and the id is cleared by the thread
\* alone, as it ends.
Claimed(q) == ids[q] \/ (main.pc = "store" /\ main.q = q)

Consumers == /\ OneConsumer
             /\ \A t \in Threads : Alive(t) => Claimed(t[1])

LEMMA InitConsumers == Init => Consumers
  BY DEF Init, Consumers, OneConsumer, Alive, NoThread, NewThread

\* A step of the main thread.  pthread_create finds a queue that nobody claims.
LEMMA MainConsumers ==
  ASSUME TypeOK, Consumers, InCall \/ \E e \in Events : Send(e)
  PROVE  Consumers'
  <1>1. CASE thread' = thread /\ \A q \in Queues : Claimed(q) => Claimed(q)'
    BY <1>1 DEF Consumers, OneConsumer, Alive, Threads
  <1>2. CASE Create
    <2>1. PICK s \in Spares : /\ ~ids[main.q] /\ main.pc = "look"
                              /\ thread' = [thread EXCEPT ![<<main.q, s>>] = NewThread]
                              /\ main' = [main EXCEPT !.pc = "store"] /\ ids' = ids
      BY <1>2 DEF Create
    <2>2. \A t \in Threads : t[1] = main.q => ~Alive(t)
      BY <2>1 DEF Consumers, Claimed
    <2>3. <<main.q, s>> \in Threads /\ <<main.q, s>>[1] = main.q
      BY DEF TypeOK, Threads
    <2>4. \A t \in Threads \ {<<main.q, s>>} : thread'[t] = thread[t]
      BY <2>1 DEF TypeOK
    <2>5. main'.pc = "store" /\ main'.q = main.q
      BY <2>1 DEF TypeOK
    <2>6. \A t \in Threads : Alive(t)' => (Alive(t) /\ Claimed(t[1])) \/ t = <<main.q, s>>
      BY <2>4 DEF Alive, Consumers
    <2>7. \A q : Claimed(q) => Claimed(q)'
      BY <2>1, <2>5 DEF Claimed
    <2>8. \A q : q = main.q => Claimed(q)'
      BY <2>5 DEF Claimed
    <2>9. OneConsumer'
      BY <2>2, <2>3, <2>6 DEF Consumers, OneConsumer
    <2>10. \A t \in Threads : Alive(t)' => Claimed(t[1])'
      BY <2>3, <2>6, <2>7, <2>8
    <2> QED BY <2>9, <2>10 DEF Consumers
  <1>3. CASE Store
    <2>1. \A q \in Queues : Claimed(q) => Claimed(q)'
      BY <1>3 DEF Store, Claimed, TypeOK
    <2> QED BY <1>1, <1>3, <2>1 DEF Store
  <1>4. CASE ~Create /\ ~Store
    <2>1. thread' = thread /\ ids' = ids /\ main.pc # "store"
      BY <1>4 DEF InCall, Send, Look, CreateFails, TryFirst, Scan, Miss, Write, Commit
    <2> QED BY <1>1, <2>1 DEF Claimed
  <1> QED BY <1>2, <1>3, <1>4

LEMMA WorkConsumers ==
  ASSUME TypeOK, Consumers, NEW t \in Threads, Work(t)
  PROVE  Consumers'
  <1>1. Alive(t) /\ main' = main
    BY DEF Alive, Work, Connect, ConnectFails, Expire, Peek, Skip, Fail, Reconnect, Publish, End, None
  <1>2. \A w \in Threads \ {t} : thread'[w] = thread[w]
    BY DEF TypeOK, Step,
           Work, Connect, ConnectFails, Expire, Peek, Skip, Fail, Reconnect, Publish, End
  <1>3. \A w \in Threads : Alive(w)' => Alive(w)
    BY <1>1, <1>2 DEF Alive
  <1>4. CASE End(t)
    <2>1. ~Alive(t)'
      BY <1>4 DEF End, Step, Alive, NoThread, NewThread, TypeOK
    <2>2. \A w \in Threads \ {t} : Alive(w) => w[1] # t[1]
      BY <1>1 DEF Consumers, OneConsumer
    <2>3. \A q \in Queues \ {t[1]} : Claimed(q) => Claimed(q)'
      BY <1>1, <1>4 DEF End, Claimed, TypeOK
    <2> QED BY <1>3, <2>1, <2>2, <2>3 DEF Consumers, OneConsumer, Threads
  <1>5. CASE ~End(t)
    <2>1. ids' = ids
      BY <1>5 DEF Work, Connect, ConnectFails, Expire, Peek, Skip, Fail, Reconnect, Publish
    <2> QED BY <1>1, <1>3, <2>1 DEF Consumers, OneConsumer, Claimed
  <1> QED BY <1>4, <1>5

LEMMA NextConsumers == TypeOK /\ Consumers /\ [Next]_vars => Consumers'
  <1>1. CASE UNCHANGED vars
    BY <1>1 DEF vars, Consumers, OneConsumer, Claimed, Alive
  <1> QED BY <1>1, MainConsumers, WorkConsumers DEF Next

\* No two threads ever read the same ring, even when a thread may end before its
\* creator has stored its id (async_task.c:277).
THEOREM OneConsumerAlways == Spec => []OneConsumer
  <1>1. Consumers => OneConsumer
    BY DEF Consumers
  <1> QED BY <1>1, TypeCorrect, InitConsumers, NextConsumers, PTL DEF Spec

-----------------------------------------------------------------------------
(* An event is dropped only when every queue was found full *)

\* The queues from first on, up to and without the one whose turn it is.
Tried(first, turn) == IF first < turn THEN first .. turn - 1 ELSE Queues \ (turn .. first - 1)

Scanned == /\ main.pc = "scan" => main.full = Tried(main.first, next)
           /\ MissedWhenFull

LEMMA InitScanned == Init => Scanned
  BY DEF Init, Scanned, MissedWhenFull, Idle

LEMMA NextScanned == TypeOK /\ Scanned /\ [Next]_vars => Scanned'
  <1> SUFFICES ASSUME TypeOK, Scanned, [Next]_vars PROVE Scanned'
    OBVIOUS
  <1>1. CASE TryFirst
    <2>1. next' = IF next + 1 = Workers THEN 0 ELSE next + 1
      BY <1>1, DrawWraps DEF TryFirst, TypeOK
    <2>2. {next} = Tried(next, next')
      BY <2>1, SizeAssumption DEF Tried, Queues, TypeOK
    <2>3. \/ main'.pc = "scan" /\ main'.first = next /\ main'.full = {next}
          \/ main'.pc = "write"
      BY <1>1 DEF TryFirst, TypeOK
    <2> QED BY <2>2, <2>3 DEF Scanned, MissedWhenFull
  <1>2. CASE Scan
    <2>1. next' = IF next + 1 = Workers THEN 0 ELSE next + 1
      BY <1>2, DrawWraps DEF Scan, TypeOK
    <2>2. main.full = Tried(main.first, next) /\ main.first \in Queues /\ next \in Queues
      BY <1>2 DEF Scan, Scanned, TypeOK
    <2>3. \A q \in Queues : Tried(q, q) = Queues
      <3> SUFFICES ASSUME NEW q \in Queues PROVE Tried(q, q) = Queues
        OBVIOUS
      <3>1. q \in Int /\ ~(q < q) /\ q .. q - 1 = {}
        BY SizeAssumption DEF Queues
      <3> QED BY <3>1 DEF Tried
    <2>4. next # main.first => Tried(main.first, next) \cup {next} = Tried(main.first, next')
      BY <2>1, <2>2, SizeAssumption DEF Tried, Queues
    <2>5. \/ next = main.first /\ main'.pc = "missed" /\ main'.full = main.full
          \/ /\ next # main.first /\ main'.pc = "scan"
             /\ main'.first = main.first /\ main'.full = main.full \cup {next}
          \/ main'.pc = "write"
      <3>1. CASE next = main.first
        BY <1>2, <3>1 DEF Scan, TypeOK
      <3>2. CASE next # main.first /\ Full(next)
        <4>1. main' = [main EXCEPT !.full = @ \cup {next}]
          BY <1>2, <3>2 DEF Scan
        <4>2. main.pc = "scan"
          BY <1>2 DEF Scan
        <4> QED BY <3>2, <4>1, <4>2 DEF TypeOK
      <3>3. CASE next # main.first /\ ~Full(next)
        <4>1. main' = [main EXCEPT !.pc = "write", !.q = next, !.first = 0, !.full = {}]
          BY <1>2, <3>3 DEF Scan
        <4> QED BY <4>1 DEF TypeOK
      <3> QED BY <3>1, <3>2, <3>3
    <2> QED BY <2>2, <2>3, <2>4, <2>5 DEF Scanned, MissedWhenFull
  <1>3. CASE ~TryFirst /\ ~Scan
    <2>1. \/ main' = main /\ next' = next
          \/ main'.pc \notin {"scan", "missed"}
      <3>1. CASE \E t \in Threads : Work(t)
        BY <3>1 DEF Work, Connect, ConnectFails, Expire, Peek, Skip, Fail, Reconnect, Publish, End
      <3>2. ASSUME NEW pc, pc \notin {"scan", "missed"}
            PROVE  [main EXCEPT !.pc = pc].pc \notin {"scan", "missed"}
        BY <3>2 DEF TypeOK
      <3>3. LookOn(main.q).pc \notin {"scan", "missed"}
        BY DEF LookOn, TypeOK
      <3>4. CASE InCall
        <4>1. CASE Look \/ CreateFails \/ Store
          BY <3>3, <4>1 DEF Look, CreateFails, Store
        <4>2. CASE Create
          BY <3>2, <4>2 DEF Create
        <4>3. CASE Miss \/ Commit
          BY <4>3 DEF Miss, Commit, Idle
        <4>4. CASE Write
          BY <3>2, <4>4 DEF Write
        <4> QED BY <1>3, <3>4, <4>1, <4>2, <4>3, <4>4 DEF InCall
      <3>5. CASE \E e \in Events : Send(e)
        BY <3>5 DEF Send, Idle
      <3> QED BY <3>1, <3>4, <3>5 DEF Next, vars
    <2> QED BY <2>1 DEF Scanned, MissedWhenFull
  <1> QED BY <1>1, <1>2, <1>3

\* One call tries every queue once, whatever next_queue_idx() starts from.
THEOREM MissedOnlyWhenFull == Spec => []MissedWhenFull
  <1>1. Scanned => MissedWhenFull
    BY DEF Scanned
  <1> QED BY <1>1, TypeCorrect, InitScanned, NextScanned, PTL DEF Spec

-----------------------------------------------------------------------------
(* A ring m that is read at r and written at w *)

Contents(m, r, w) ==
  [k \in 1 .. (w + RingLength - r) % RingLength |-> m[(r + k - 1) % RingLength]]

\* The number of events it holds and the place of the kth.
Held(r, w)  == IF r <= w THEN w - r ELSE w + RingLength - r
Place(r, k) == IF r + k - 1 < RingLength THEN r + k - 1 ELSE r + k - 1 - RingLength

LEMMA ModTwice ==
  ASSUME NEW n \in Nat \ {0}, NEW x \in 0 .. n + n - 1
  PROVE  x % n = IF x < n THEN x ELSE x - n
  OBVIOUS

LEMMA HeldIs ==
  ASSUME NEW r \in Slots, NEW w \in Slots
  PROVE  /\ (w + RingLength - r) % RingLength = Held(r, w)
         /\ Held(r, w) \in 0 .. RingLength - 1
  <1> DEFINE x == w + RingLength - r
  <1>1. x \in 0 .. RingLength + RingLength - 1 /\ RingLength \in Nat \ {0}
    BY SizeAssumption DEF Slots
  <1>2. Held(r, w) = (IF x < RingLength THEN x ELSE x - RingLength)
        /\ Held(r, w) \in 0 .. RingLength - 1
    BY SizeAssumption DEF Slots, Held
  <1> HIDE DEF x
  <1>3. x % RingLength = IF x < RingLength THEN x ELSE x - RingLength
    BY <1>1, ModTwice
  <1> QED BY <1>2, <1>3 DEF x

LEMMA PlaceIs ==
  ASSUME NEW r \in Slots, NEW k \in 1 .. RingLength
  PROVE  (r + k - 1) % RingLength = Place(r, k) /\ Place(r, k) \in Slots
  <1> DEFINE x == r + k - 1
  <1>1. x \in 0 .. RingLength + RingLength - 1 /\ RingLength \in Nat \ {0}
    BY SizeAssumption DEF Slots
  <1>2. Place(r, k) = (IF x < RingLength THEN x ELSE x - RingLength) /\ Place(r, k) \in Slots
    BY SizeAssumption DEF Slots, Place
  <1> HIDE DEF x
  <1>3. x % RingLength = IF x < RingLength THEN x ELSE x - RingLength
    BY <1>1, ModTwice
  <1> QED BY <1>2, <1>3 DEF x

LEMMA ContentsAre ==
  ASSUME NEW m \in [Slots -> Maybe], NEW r \in Slots, NEW w \in Slots
  PROVE  /\ Contents(m, r, w) \in Seq(Maybe)
         /\ Len(Contents(m, r, w)) = Held(r, w)
         /\ \A k \in 1 .. Held(r, w) : Contents(m, r, w)[k] = m[Place(r, k)]
  <1> DEFINE n == Held(r, w)
             s == Contents(m, r, w)
  <1>1. n \in Nat /\ n < RingLength
    BY HeldIs, SizeAssumption
  <1>2. /\ s = [k \in 1 .. n |-> m[(r + k - 1) % RingLength]]
    BY HeldIs DEF Contents
  <1>3. \A k \in 1 .. n : k \in 1 .. RingLength
    BY <1>1, SizeAssumption
  <1>4. \A k \in 1 .. n : s[k] = m[Place(r, k)] /\ Place(r, k) \in Slots
    <2> HIDE DEF n
    <2> QED BY <1>2, <1>3, PlaceIs
  <1>5. DOMAIN s = 1 .. n /\ s \in [1 .. n -> Maybe]
    <2> HIDE DEF n
    <2>1. DOMAIN s = 1 .. n /\ s = [k \in 1 .. n |-> s[k]]
      BY <1>2
    <2> HIDE DEF s
    <2>2. \A k \in 1 .. n : s[k] \in Maybe
      BY <1>4
    <2> QED BY <2>1, <2>2
  <1> HIDE DEF n, s
  <1>6. s \in Seq(Maybe)
    BY <1>1, <1>5, SeqDef
  <1>7. Len(s) = n
    <2>1. Len(s) \in Nat /\ 1 .. Len(s) = 1 .. n
      BY <1>5, <1>6, LenProperties
    <2> QED BY <1>1, <2>1
  <1> QED BY <1>4, <1>6, <1>7 DEF n, s

LEMMA WriteHidden ==
  ASSUME NEW m \in [Slots -> Maybe], NEW r \in Slots, NEW w \in Slots, NEW e \in Maybe
  PROVE  Contents([m EXCEPT ![w] = e], r, w) = Contents(m, r, w)
  <1> DEFINE h == [m EXCEPT ![w] = e]
  <1>1. h \in [Slots -> Maybe] /\ \A s \in Slots : s # w => h[s] = m[s]
    OBVIOUS
  <1> HIDE DEF h
  <1>2. \A k \in 1 .. Held(r, w) : Place(r, k) # w /\ Place(r, k) \in Slots
    BY SizeAssumption DEF Held, Place, Slots
  <1>3. /\ Contents(h, r, w) \in Seq(Maybe) /\ Len(Contents(h, r, w)) = Held(r, w)
        /\ \A k \in 1 .. Held(r, w) : Contents(h, r, w)[k] = h[Place(r, k)]
    BY <1>1, ContentsAre
  <1>4. /\ Contents(m, r, w) \in Seq(Maybe) /\ Len(Contents(m, r, w)) = Held(r, w)
        /\ \A k \in 1 .. Held(r, w) : Contents(m, r, w)[k] = m[Place(r, k)]
    BY ContentsAre
  <1>5. Contents(h, r, w) = Contents(m, r, w)
    BY <1>1, <1>2, <1>3, <1>4, SeqEqual
  <1> QED BY <1>5 DEF h

\* A write becomes visible when the index moves past it.
LEMMA CommitAppends ==
  ASSUME NEW m \in [Slots -> Maybe], NEW r \in Slots, NEW w \in Slots, After(w) # r
  PROVE  /\ Contents(m, r, After(w)) = Append(Contents(m, r, w), m[w])
         /\ Len(Contents(m, r, w)) < RingLength - 1
  <1> DEFINE old == Contents(m, r, w)
             new == Contents(m, r, After(w))
             app == Append(old, m[w])
  <1>1. After(w) \in Slots /\ After(w) = IF w + 1 = RingLength THEN 0 ELSE w + 1
    BY AfterWraps
  <1>2. /\ Held(r, After(w)) = Held(r, w) + 1 /\ Held(r, w) \in Nat
        /\ Held(r, w) < RingLength - 1 /\ Place(r, Held(r, w) + 1) = w
    BY <1>1, SizeAssumption DEF Held, Place, Slots
  <1>3. /\ old \in Seq(Maybe) /\ Len(old) = Held(r, w)
        /\ \A k \in 1 .. Held(r, w) : old[k] = m[Place(r, k)]
    BY ContentsAre
  <1>4. /\ new \in Seq(Maybe) /\ Len(new) = Held(r, After(w))
        /\ \A k \in 1 .. Held(r, After(w)) : new[k] = m[Place(r, k)]
    BY <1>1, ContentsAre
  <1> HIDE DEF old, new
  <1>5. /\ app \in Seq(Maybe) /\ Len(app) = Len(old) + 1
        /\ \A k \in 1 .. Len(old) : app[k] = old[k]
        /\ app[Len(old) + 1] = m[w]
    BY <1>3, AppendProperties
  <1> HIDE DEF app
  <1>6. \A k \in 1 .. Len(new) : new[k] = app[k]
    BY <1>2, <1>3, <1>4, <1>5
  <1>7. new = app
    BY <1>2, <1>3, <1>4, <1>5, <1>6, SeqEqual
  <1> QED BY <1>2, <1>3, <1>7 DEF old, new, app

LEMMA SkipTails ==
  ASSUME NEW m \in [Slots -> Maybe], NEW r \in Slots, NEW w \in Slots, r # w
  PROVE  /\ Contents(m, r, w) # <<>> /\ Head(Contents(m, r, w)) = m[r]
         /\ Contents(m, After(r), w) = Tail(Contents(m, r, w))
  <1> DEFINE old == Contents(m, r, w)
             new == Contents(m, After(r), w)
  <1>1. After(r) \in Slots /\ After(r) = IF r + 1 = RingLength THEN 0 ELSE r + 1
    BY AfterWraps
  <1>2. /\ Held(After(r), w) = Held(r, w) - 1 /\ Held(r, w) \in Nat \ {0}
        /\ Held(r, w) < RingLength /\ Place(r, 1) = r
    BY <1>1, SizeAssumption DEF Held, Place, Slots
  <1>3. \A k \in 1 .. Held(r, w) - 1 : Place(After(r), k) = Place(r, k + 1)
    BY <1>1, SizeAssumption DEF Held, Place, Slots
  <1>4. /\ old \in Seq(Maybe) /\ Len(old) = Held(r, w)
        /\ \A k \in 1 .. Held(r, w) : old[k] = m[Place(r, k)]
    BY ContentsAre
  <1>5. /\ new \in Seq(Maybe) /\ Len(new) = Held(After(r), w)
        /\ \A k \in 1 .. Held(After(r), w) : new[k] = m[Place(After(r), k)]
    BY <1>1, ContentsAre
  <1> HIDE DEF old, new
  <1>6. old # <<>> /\ Head(old) = m[r]
    BY <1>2, <1>4
  <1>7. /\ Tail(old) \in Seq(Maybe) /\ Len(Tail(old)) = Len(old) - 1
        /\ \A k \in 1 .. Len(Tail(old)) : Tail(old)[k] = old[k + 1]
    BY <1>4, <1>6, HeadTailProperties
  <1>8. \A k \in 1 .. Len(new) : new[k] = Tail(old)[k]
    BY <1>2, <1>3, <1>4, <1>5, <1>7
  <1>9. new = Tail(old)
    BY <1>2, <1>4, <1>5, <1>7, <1>8, SeqEqual
  <1> QED BY <1>6, <1>9 DEF old, new

-----------------------------------------------------------------------------
(* What the main thread and the workers know between their steps *)

\* Room found stays until it is used, for readers only make more.
MainKnows ==
  /\ main.pc # "idle" => main.event \in Events
  /\ main.pc \in {"write", "commit"} => ~Full(main.q)
  /\ main.pc = "commit" => ring[main.q][wr[main.q]] = main.event

\* The slot a worker has copied stays at the head of its ring until it skips it.
WorkerKnows(t) ==
  thread[t].pc = "skip" =>
    ~Empty(t[1]) /\ thread[t].event = ring[t[1]][rd[t[1]]]

Knowledge == MainKnows /\ \A t \in Threads : WorkerKnows(t)

LEMMA InitKnowledge == Init => Knowledge
  BY DEF Init, Knowledge, MainKnows, WorkerKnows, Idle, NoThread, NewThread, None

\* The workers' part depends on the threads and the rings alone.
LEMMA SameWorkers ==
  ASSUME Knowledge, UNCHANGED <<thread, ring, rd, wr>>
  PROVE  \A t \in Threads : WorkerKnows(t)'
  BY DEF Knowledge, WorkerKnows, Empty

LEMMA MainKnowledge ==
  ASSUME TypeOK, Knowledge, InCall \/ \E e \in Events : Send(e)
  PROVE  Knowledge'
  <1>0. main.event \in Maybe /\ main.q \in Queues /\ main \in MainStates
    BY DEF TypeOK, Maybe, MainStates
  <1>1. CASE \E e \in Events : Send(e)
    <2>1. PICK e \in Events : Send(e)
      BY <1>1
    <2>2. main'.pc = "look" /\ main'.event \in Events
      BY <2>1 DEF Send, Idle
    <2>3. UNCHANGED <<thread, ring, rd, wr>>
      BY <2>1 DEF Send
    <2> QED BY <2>2, <2>3, SameWorkers DEF Knowledge, MainKnows
  <1>2. CASE Look \/ CreateFails \/ Store
    <2>1. LookOn(main.q).pc \in {"look", "first"} /\ LookOn(main.q).event = main.event
      BY <1>0 DEF LookOn, MainStates
    <2>2. main'.pc \in {"look", "first"} /\ main'.event = main.event /\ main.pc # "idle"
      BY <1>2, <2>1 DEF Look, CreateFails, Store
    <2>3. UNCHANGED <<thread, ring, rd, wr>>
      BY <1>2 DEF Look, CreateFails, Store
    <2> QED BY <2>2, <2>3, SameWorkers DEF Knowledge, MainKnows
  <1>3. CASE Create
    <2>1. /\ main'.pc = "store" /\ main'.event = main.event /\ main.pc = "look"
          /\ UNCHANGED <<ring, rd, wr>>
      BY <1>0, <1>3 DEF Create, MainStates
    <2>2. \A t \in Threads : thread'[t] = thread[t] \/ thread'[t].pc = "start"
      BY <1>3 DEF Create, NewThread, TypeOK
    <2>3. \A t \in Threads : WorkerKnows(t)'
      BY <2>1, <2>2 DEF Knowledge, WorkerKnows, Empty
    <2> QED BY <2>1, <2>3 DEF Knowledge, MainKnows
  <1>4. CASE TryFirst \/ Scan
    <2>1. /\ main'.event = main.event /\ main.pc # "idle"
          /\ main'.pc \in {"scan", "missed"} \/ (main'.pc = "write" /\ main'.q = next /\ ~Full(next))
      <3>1. CASE TryFirst
        BY <1>0, <3>1 DEF TryFirst, MainStates
      <3>2. CASE Scan
        BY <1>0, <3>2 DEF Scan, MainStates
      <3> QED BY <1>4, <3>1, <3>2
    <2>2. UNCHANGED <<thread, ring, rd, wr>>
      BY <1>4 DEF TryFirst, Scan
    <2> QED BY <2>1, <2>2, SameWorkers DEF Knowledge, MainKnows, Full
  <1>5. CASE Miss
    BY <1>5, SameWorkers DEF Miss, Idle, Knowledge, MainKnows
  <1>6. CASE Write
    <2> DEFINE q == main.q
    <2>1. /\ main'.pc = "commit" /\ main'.event = main.event /\ main'.q = q
          /\ main.pc = "write" /\ ~Full(q) /\ UNCHANGED <<thread, rd, wr>>
      BY <1>0, <1>6 DEF Write, MainStates
    <2>2. /\ \A p \in Queues \ {q} : ring'[p] = ring[p]
          /\ ring'[q][wr[q]] = main.event
          /\ \A s \in Slots \ {wr[q]} : ring'[q][s] = ring[q][s]
      BY <1>0, <1>6 DEF Write, TypeOK
    <2> HIDE DEF q
    <2>3. MainKnows'
      BY <2>1, <2>2 DEF Knowledge, MainKnows, Full
    <2>4. ASSUME NEW t \in Threads PROVE WorkerKnows(t)'
      <3>1. t[1] \in Queues /\ rd[t[1]] \in Slots
        BY DEF Threads, TypeOK
      <3>2. ~Empty(t[1]) => ring'[t[1]][rd[t[1]]] = ring[t[1]][rd[t[1]]]
        BY <2>2, <3>1 DEF Empty
      <3> QED BY <2>1, <3>2 DEF Knowledge, WorkerKnows, Empty
    <2> QED BY <2>3, <2>4 DEF Knowledge
  <1>7. CASE Commit
    <2> DEFINE q == main.q
    <2>1. /\ main'.pc = "idle" /\ UNCHANGED <<thread, ring, rd>> /\ ~Full(q)
      BY <1>7 DEF Commit, Idle, Knowledge, MainKnows
    <2>2. /\ \A p \in Queues \ {q} : wr'[p] = wr[p]
          /\ wr'[q] = After(wr[q])
      BY <1>0, <1>7 DEF Commit, TypeOK
    <2> HIDE DEF q
    <2>3. ASSUME NEW t \in Threads PROVE WorkerKnows(t)'
      <3>1. t[1] \in Queues
        BY DEF Threads
      <3>2. ~Empty(t[1]) => ~Empty(t[1])'
        BY <2>1, <2>2, <3>1 DEF Empty, Full
      <3> QED BY <2>1, <3>2 DEF Knowledge, WorkerKnows
    <2> QED BY <2>1, <2>3 DEF Knowledge, MainKnows
  <1> QED BY <1>1, <1>2, <1>3, <1>4, <1>5, <1>6, <1>7 DEF InCall

LEMMA WorkKnowledge ==
  ASSUME TypeOK, Consumers, Knowledge, NEW t \in Threads, Work(t)
  PROVE  Knowledge'
  <1>1. UNCHANGED <<ring, wr, main>> /\ t[1] \in Queues
    BY DEF Work, Connect, ConnectFails, Expire, Peek, Skip, Fail, Reconnect, Publish, End, Threads
  <1>2. \A u \in Threads \ {t} : thread'[u] = thread[u]
    BY DEF TypeOK, Step,
           Work, Connect, ConnectFails, Expire, Peek, Skip, Fail, Reconnect, Publish, End
  <1>3. CASE Peek(t)
    <2>1. /\ rd' = rd /\ ~Empty(t[1])
          /\ thread'[t].pc = "skip" /\ thread'[t].event = ring[t[1]][rd[t[1]]]
      BY <1>3 DEF Peek, Step, TypeOK
    <2>2. ASSUME NEW u \in Threads PROVE WorkerKnows(u)'
      <3>1. CASE u = t
        BY <3>1, <1>1, <2>1 DEF WorkerKnows, Empty
      <3>2. CASE u # t
        BY <3>2, <1>1, <1>2, <2>1 DEF Knowledge, WorkerKnows, Empty
      <3> QED BY <3>1, <3>2
    <2> QED BY <1>1, <2>1, <2>2 DEF Knowledge, MainKnows, Full
  <1>4. CASE Skip(t)
    <2>1. thread[t].pc = "skip" /\ ~Empty(t[1]) /\ thread'[t].pc = "publish"
      BY <1>4 DEF Skip, Step, TypeOK, Knowledge, WorkerKnows
    <2>2. /\ \A p \in Queues \ {t[1]} : rd'[p] = rd[p]
          /\ rd'[t[1]] = After(rd[t[1]])
      BY <1>1, <1>4, <2>1 DEF Skip, TypeOK
    <2>3. \A u \in Threads \ {t} : thread[u].pc = "skip" => u[1] # t[1]
      BY <2>1 DEF Consumers, OneConsumer, Alive, None
    <2>4. ASSUME NEW u \in Threads PROVE WorkerKnows(u)'
      <3>1. CASE u = t
        BY <3>1, <2>1 DEF WorkerKnows
      <3>2. CASE u # t
        <4>1. u[1] \in Queues
          BY DEF Threads
        <4> QED BY <3>2, <4>1, <1>1, <1>2, <2>2, <2>3 DEF Knowledge, WorkerKnows, Empty
      <3> QED BY <3>1, <3>2
    <2>5. \A q \in Queues : ~Full(q) => ~Full(q)'
      <3>1. ~Full(t[1])'
        <4>1. rd[t[1]] \in Slots /\ wr[t[1]] \in Slots /\ rd[t[1]] # wr[t[1]]
          BY <1>1, <2>1 DEF TypeOK, Empty
        <4>2. \A a, b \in Slots : a # b => After(a) # After(b)
          BY AfterWraps, SizeAssumption DEF Slots
        <4> QED BY <1>1, <2>2, <4>1, <4>2 DEF Full
      <3>2. \A q \in Queues \ {t[1]} : ~Full(q) => ~Full(q)'
        BY <1>1, <2>2 DEF Full
      <3> QED BY <3>1, <3>2
    <2>6. MainKnows'
      BY <1>1, <2>5 DEF Knowledge, MainKnows, TypeOK
    <2> QED BY <2>4, <2>6 DEF Knowledge
  <1>5. CASE ~Peek(t) /\ ~Skip(t)
    <2>1. rd' = rd
      BY <1>5 DEF Work, Connect, ConnectFails, Expire, Fail, Reconnect, Publish, End
    <2>2. thread'[t].pc # "skip"
      <3>1. thread[t] \in ThreadStates /\ \A s : Step(t, s) => thread'[t] = s
        BY DEF TypeOK, ThreadStates, Maybe, Step
      <3>2. CASE Connect(t) \/ ConnectFails(t)
        BY <3>1, <3>2 DEF Connect, ConnectFails, ThreadStates
      <3>5. CASE Publish(t)
        BY <3>1, <3>5 DEF Publish, ThreadStates
      <3>3. CASE Expire(t) \/ End(t)
        BY <3>1, <3>3 DEF Expire, End, NoThread, NewThread, None
      <3>4. CASE Fail(t) \/ Reconnect(t)
        BY <3>1, <3>4 DEF Fail, Reconnect, NewThread, ThreadStates
      <3> QED BY <1>5, <3>2, <3>3, <3>4, <3>5 DEF Work
    <2>3. \A u \in Threads : WorkerKnows(u)'
      BY <1>1, <1>2, <2>1, <2>2 DEF Knowledge, WorkerKnows, Empty
    <2> QED BY <1>1, <2>1, <2>3 DEF Knowledge, MainKnows, Full
  <1> QED BY <1>3, <1>4, <1>5

-----------------------------------------------------------------------------
(* The refinement *)

\* The state of EventQueue that AsyncTask stands for.
Queued == [q \in Queues |-> InRing(q)]
Hands  == [t \in Threads |-> InHand(t)]

LEMMA QueuedAre ==
  /\ \A q \in Queues : Queued[q] = Contents(ring[q], rd[q], wr[q])
  /\ \A q \in Queues : Queued'[q] = Contents(ring'[q], rd'[q], wr'[q])
  BY DEF Queued, InRing, Contents

\* A step that leaves what every ring holds and what every worker has in hand.
LEMMA Stutters ==
  ASSUME \A q \in Queues : Queued'[q] = Queued[q], \A t \in Threads : InHand(t)' = InHand(t)
  PROVE  Queued' = Queued /\ Hands' = Hands
  BY DEF Queued, Hands

LEMMA InitMaps == Init => Fifo!Init
  <1> SUFFICES ASSUME Init PROVE Fifo!Init
    OBVIOUS
  <1>1. \A q \in Queues : InRing(q) = <<>>
    <2> SUFFICES ASSUME NEW q \in Queues PROVE InRing(q) = <<>>
      OBVIOUS
    <2>1. TypeOK /\ rd[q] = 0 /\ wr[q] = 0 /\ ring[q] \in [Slots -> Maybe] /\ 0 \in Slots
      BY InitTypes, SizeAssumption DEF Init, TypeOK, Maybe, Slots
    <2>2. /\ Contents(ring[q], 0, 0) \in Seq(Maybe)
          /\ Len(Contents(ring[q], 0, 0)) = Held(0, 0)
      BY <2>1, ContentsAre
    <2>3. Held(0, 0) = 0
      BY SizeAssumption DEF Held
    <2>4. InRing(q) = Contents(ring[q], 0, 0)
      BY <2>1 DEF InRing, Contents
    <2> QED BY <2>2, <2>3, <2>4, EmptySeq
  <1>2. \A t \in Threads : InHand(t) = None
    BY DEF Init, InHand, NoThread, NewThread, None
  <1> QED BY <1>1, <1>2 DEF Fifo!Init

\* What the main thread commits is accepted by the queue, all else is hidden.
LEMMA MainMaps ==
  ASSUME TypeOK, Consumers, Knowledge, InCall \/ \E e \in Events : Send(e)
  PROVE  \/ Queued' = Queued /\ Hands' = Hands
         \/ \E q \in Queues, e \in Events : Fifo!Accept(q, e)
  <1>1. main.q \in Queues /\ main.event \in Maybe
    BY DEF TypeOK, Maybe
  <1>2. \A q \in Queues : ring[q] \in [Slots -> Maybe] /\ rd[q] \in Slots /\ wr[q] \in Slots
    BY DEF TypeOK, Maybe
  <1>3. \A t \in Threads : InHand(t)' = InHand(t)
    <2>1. CASE Create
      <3>1. PICK s \in Spares : thread' = [thread EXCEPT ![<<main.q, s>>] = NewThread]
        BY <2>1 DEF Create
      <3> DEFINE new == <<main.q, s>>
      <3>2. new \in Threads /\ ~Alive(new)
        BY <1>1, <2>1 DEF Create, Threads, Consumers, Claimed
      <3> HIDE DEF new
      <3>3. /\ thread'[new] = NewThread
            /\ \A t \in Threads \ {new} : thread'[t] = thread[t]
        BY <3>1, <3>2 DEF TypeOK, new
      <3> QED BY <3>2, <3>3 DEF InHand, NewThread, Alive, None
    <2>2. CASE ~Create
      <3>1. thread' = thread
        BY <2>2 DEF InCall, Send, Look, CreateFails, Store, TryFirst, Scan, Miss, Write, Commit
      <3> QED BY <3>1 DEF InHand
    <2> QED BY <2>1, <2>2
  <1>4. CASE Write
    <2>1. \A q \in Queues :
            ring'[q] = IF q = main.q THEN [ring[q] EXCEPT ![wr[q]] = main.event] ELSE ring[q]
      BY <1>4 DEF Write, TypeOK
    <2>2. rd' = rd /\ wr' = wr
      BY <1>4 DEF Write
    <2>3. \A q \in Queues : Queued'[q] = Queued[q]
      <3> SUFFICES ASSUME NEW q \in Queues PROVE Queued'[q] = Queued[q]
        OBVIOUS
      <3> DEFINE m == ring[q]
      <3>1. m \in [Slots -> Maybe] /\ rd[q] \in Slots /\ wr[q] \in Slots
        BY <1>2
      <3>2. ring'[q] = [m EXCEPT ![wr[q]] = main.event] \/ ring'[q] = m
        BY <2>1
      <3> HIDE DEF m
      <3>3. Contents([m EXCEPT ![wr[q]] = main.event], rd[q], wr[q]) = Contents(m, rd[q], wr[q])
        BY <1>1, <3>1, WriteHidden
      <3>4. Contents(ring'[q], rd'[q], wr'[q]) = Contents(m, rd[q], wr[q])
        BY <2>2, <3>2, <3>3
      <3> QED BY <3>4, QueuedAre DEF m
    <2> QED BY <1>3, <2>3, Stutters
  <1>5. CASE Commit
    <2> DEFINE p == main.q
               e == main.event
    <2>1. /\ After(wr[p]) # rd[p] /\ e = ring[p][wr[p]] /\ e \in Events /\ p \in Queues
      BY <1>1, <1>5 DEF Commit, Knowledge, MainKnows, Full
    <2>2. /\ ring' = ring /\ rd' = rd
          /\ \A q \in Queues : wr'[q] = IF q = p THEN After(wr[q]) ELSE wr[q]
      BY <1>5 DEF Commit, TypeOK
    <2> HIDE DEF p, e
    <2>3. Queued'[p] = Append(Queued[p], e) /\ Len(Queued[p]) < RingLength - 1
      BY <1>2, <2>1, <2>2, QueuedAre, CommitAppends
    <2>4. \A q \in Queues \ {p} : Queued'[q] = Queued[q]
      BY <2>2, QueuedAre
    <2>5. Queued' = [Queued EXCEPT ![p] = Append(@, e)]
      BY <2>1, <2>3, <2>4 DEF Queued
    <2>6. Hands' = Hands
      BY <1>3 DEF Hands
    <2>7. Fifo!Accept(p, e)
      BY <2>3, <2>5, <2>6 DEF Fifo!Accept, Queued, Hands
    <2> QED BY <2>1, <2>7
  <1>6. CASE ~Write /\ ~Commit
    <2>1. UNCHANGED <<ring, rd, wr>>
      BY <1>6 DEF InCall, Send, Look, Create, CreateFails, Store, TryFirst, Scan, Miss
    <2>2. \A q \in Queues : Queued'[q] = Queued[q]
      BY <2>1, QueuedAre
    <2> QED BY <1>3, <2>2, Stutters
  <1> QED BY <1>4, <1>5, <1>6

\* What a worker skips is taken from the queue, what it is rid of is finished.
LEMMA WorkMaps ==
  ASSUME TypeOK, Consumers, Knowledge, NEW t \in Threads, Work(t)
  PROVE  \/ Queued' = Queued /\ Hands' = Hands
         \/ \E q \in Queues, u \in Threads : Fifo!Take(q, u)
         \/ \E u \in Threads : Fifo!Finish(u)
  <1>1. t[1] \in Queues /\ UNCHANGED <<ring, wr>> /\ thread[t] \in ThreadStates
    BY DEF Work, Connect, ConnectFails, Expire, Peek, Skip, Fail, Reconnect, Publish, End,
           Threads, TypeOK, ThreadStates, Maybe
  <1>2. \A u \in Threads \ {t} : InHand(u)' = InHand(u)
    BY DEF TypeOK, Step, InHand,
           Work, Connect, ConnectFails, Expire, Peek, Skip, Fail, Reconnect, Publish, End
  <1>3. CASE Skip(t)
    <2> DEFINE q == t[1]
    <2>1. /\ thread[t].pc = "skip" /\ rd[q] # wr[q] /\ thread[t].event = ring[q][rd[q]]
          /\ ring[q] \in [Slots -> Maybe] /\ rd[q] \in Slots /\ wr[q] \in Slots
      BY <1>1, <1>3 DEF Skip, Knowledge, WorkerKnows, Empty, TypeOK, Maybe
    <2>2. InHand(t) = None /\ InHand(t)' = thread[t].event
      BY <1>3, <2>1 DEF Skip, Step, InHand, TypeOK
    <2>3. \A p \in Queues : rd'[p] = IF p = q THEN After(rd[p]) ELSE rd[p]
      BY <1>3, <2>1 DEF Skip, Empty, TypeOK
    <2> HIDE DEF q
    <2>4. q \in Queues
      BY <1>1 DEF q
    <2>5. Queued[q] # <<>> /\ Head(Queued[q]) = thread[t].event /\ Queued'[q] = Tail(Queued[q])
      <3>1. Queued[q] = Contents(ring[q], rd[q], wr[q])
        BY <2>4, QueuedAre
      <3>2. Queued'[q] = Contents(ring[q], After(rd[q]), wr[q])
        BY <1>1, <2>3, <2>4, QueuedAre
      <3> QED BY <2>1, <3>1, <3>2, SkipTails
    <2>6. \A p \in Queues \ {q} : Queued'[p] = Queued[p]
      BY <1>1, <2>3, QueuedAre
    <2>7. Queued' = [Queued EXCEPT ![q] = Tail(@)]
      BY <2>4, <2>5, <2>6 DEF Queued
    <2>8. Hands[t] = None /\ Hands' = [Hands EXCEPT ![t] = Head(Queued[q])]
      BY <1>2, <2>2, <2>5 DEF Hands
    <2>9. Fifo!Take(q, t)
      BY <2>5, <2>7, <2>8 DEF Fifo!Take, Queued, Hands
    <2> QED BY <2>4, <2>9
  <1>4. CASE ~Skip(t)
    <2>1. UNCHANGED <<ring, rd, wr>>
      BY <1>1, <1>4 DEF Work, Connect, ConnectFails, Expire, Peek, Fail, Reconnect, Publish, End
    <2>2. Queued' = Queued
      BY <2>1, QueuedAre DEF Queued
    <2>3. InHand(t)' = InHand(t) \/ InHand(t)' = None
      <3>1. \A s : Step(t, s) => thread'[t] = s
        BY DEF TypeOK, Step
      <3>2. CASE Connect(t) \/ ConnectFails(t) \/ Peek(t)
        BY <1>1, <3>1, <3>2 DEF Connect, ConnectFails, Peek, InHand, ThreadStates
      <3>3. CASE Expire(t) \/ End(t)
        BY <3>1, <3>3 DEF Expire, End, InHand, NoThread, NewThread, None
      <3>4. CASE Fail(t)
        BY <1>1, <3>1, <3>4 DEF Fail, InHand, NewThread, ThreadStates
      <3>5. CASE Reconnect(t) \/ Publish(t)
        BY <1>1, <3>1, <3>5 DEF Reconnect, Publish, InHand, ThreadStates
      <3> QED BY <1>4, <3>2, <3>3, <3>4, <3>5 DEF Work
    <2>4. CASE InHand(t)' = InHand(t)
      BY <1>2, <2>2, <2>4 DEF Hands
    <2>5. CASE InHand(t)' = None /\ InHand(t) # None
      <3>1. Hands[t] # None
        BY <2>5 DEF Hands
      <3>2. \A u \in Threads : Hands'[u] = IF u = t THEN None ELSE Hands[u]
        BY <1>2, <2>5 DEF Hands
      <3>3. Hands' = [Hands EXCEPT ![t] = None]
        BY <3>2 DEF Hands
      <3> QED BY <2>2, <3>1, <3>3 DEF Fifo!Finish, Queued, Hands
    <2> QED BY <2>3, <2>4, <2>5
  <1> QED BY <1>3, <1>4

LEMMA NextMaps ==
  TypeOK /\ Consumers /\ Knowledge /\ [Next]_vars => [Fifo!Next]_<<Queued, Hands>>
  <1>1. CASE UNCHANGED vars
    BY <1>1 DEF vars, Queued, Hands, InRing, InHand
  <1> QED BY <1>1, MainMaps, WorkMaps DEF Next, Fifo!Next

LEMMA NextKnowledge == TypeOK /\ Consumers /\ Knowledge /\ [Next]_vars => Knowledge'
  <1>1. CASE UNCHANGED vars
    BY <1>1 DEF vars, Knowledge, MainKnows, WorkerKnows, Full, Empty
  <1> QED BY <1>1, MainKnowledge, WorkKnowledge DEF Next

LEMMA AlwaysKnown == Spec => [](TypeOK /\ Consumers /\ Knowledge)
  BY TypeCorrect, InitConsumers, NextConsumers, InitKnowledge, NextKnowledge, PTL DEF Spec

\* Without a lock between them, the main thread and the worker of a ring keep it
\* a FIFO queue: nothing is lost, overwritten, read twice or before it is whole.
THEOREM RingIsQueue == Spec => Implements
  <1> DEFINE state == <<[q \in Queues |-> InRing(q)], [t \in Threads |-> InHand(t)]>>
  <1>1. [Fifo!Next]_<<Queued, Hands>> => [Fifo!Next]_state
    BY DEF Queued, Hands
  <1>2. Fifo!Init /\ [][Fifo!Next]_state => Implements
    BY DEF Implements, Fifo!Spec
  <1> HIDE DEF state
  <1> QED BY <1>1, <1>2, AlwaysKnown, InitMaps, NextMaps, PTL DEF Spec

=============================================================================
