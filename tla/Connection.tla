------------------------------ MODULE Connection ------------------------------
(***************************************************************************)
(* A connection of a client to one server: commands are queued, drained in *)
(* batches, retried when the server is busy, queued again when the link is *)
(* lost under them.  The connection destroys itself when it has been idle  *)
(* for a while, and hands its commands to a new one when it is given up.   *)
(*                                                                         *)
(* JavaScript runs one callback at a time.  A callback of process.nextTick *)
(* runs before any timer, reply or socket event.                           *)
(***************************************************************************)
EXTENDS Naturals, Sequences, FiniteSets

CONSTANTS
  Commands,   \* commands a client issues, each once
  Limit,      \* 5e3, the length of a batch
  Channels,   \* channels that are subscribed to
  MaxDrops,   \* bound on the number of times a socket is lost
  MaxBusy,    \* bound on the number of times the server answers BUSY
  MaxHard     \* bound on the number of hard disconnects

ASSUME LimitAssumption == /\ Limit \in Nat \ {0}
                          /\ MaxDrops \in Nat /\ MaxBusy \in Nat /\ MaxHard \in {0, 1}

VARIABLES
  queue,      \* connection.queue
  drained,    \* queueBeingDrained
  pc,         \* where the drain of the queue is
  batch,      \* the argument of drainQueue, then that of execBatch
  rest,       \* nextQ
  inProgress, \* queueInProgress
  active,     \* activeCounter
  timer,      \* destroyTimer is set
  up,         \* clientsConnected
  connected, isDc, isDestroyed,
  channels,   \* subscriptions
  issued,     \* commands given to the connection
  settled,    \* those whose promise is resolved or rejected
  runs,       \* how often the server has executed each
  ghost,      \* the batch in flight on a connection that was given up
  count       \* events so far, for the bounds

work  == <<drained, pc, batch, rest, inProgress>>
life  == <<active, timer>>
link  == <<up, connected, isDc, isDestroyed>>
log   == <<issued, settled, runs>>
vars  == <<queue, work, life, link, channels, log, ghost, count>>

Clients == {"subscriber", "publisher"}

\* A connection as the constructor makes it, with commands handed to it.
Fresh(handed) ==
  /\ queue' = handed /\ drained' = <<>> /\ pc' = "none" /\ batch' = <<>> /\ rest' = <<>>
  /\ inProgress' = FALSE /\ up' = {} /\ connected' = FALSE /\ isDc' = FALSE
  /\ isDestroyed' = FALSE /\ timer' = FALSE /\ active' = Cardinality(channels)

Init ==
  /\ queue = <<>> /\ drained = <<>> /\ pc = "none" /\ batch = <<>> /\ rest = <<>>
  /\ inProgress = FALSE /\ active = 0 /\ timer = FALSE
  /\ up = {} /\ connected = FALSE /\ isDc = FALSE /\ isDestroyed = FALSE
  /\ channels = {} /\ issued = {} /\ settled = {} /\ runs = [c \in Commands |-> 0]
  /\ ghost = <<>> /\ count = [drops |-> 0, busy |-> 0, hard |-> 0]

-----------------------------------------------------------------------------
(* addActive, removeActive, destroyIfIdle *)

\* Mutant: the timer runs on.
KeepsTimer == active' = active + 1 /\ timer' = timer

AddActive    == active' = active + 1 /\ timer' = FALSE
IdleNow(a)   == a = 0 /\ (connected \/ isDc) /\ ~isDestroyed
RemoveActive == active' = active - 1 /\ timer' = (timer \/ IdleNow(active - 1))

-----------------------------------------------------------------------------
(* Draining the queue *)

\* drainQueue(connection, q).  The empty q stands for an absent one: the
\* connection's own queue is taken when the tick comes.
Drain(q) ==
  /\ inProgress' = TRUE /\ pc' = "tick" /\ batch' = q

\* command()
Issue(c) ==
  /\ c \notin issued /\ ~isDestroyed
  /\ issued' = issued \cup {c} /\ queue' = Append(queue, c)
  /\ IF ~inProgress /\ connected THEN Drain(<<>>) /\ AddActive
     ELSE UNCHANGED <<pc, batch, inProgress, life>>
  /\ UNCHANGED <<drained, rest, link, channels, settled, runs, ghost, count>>

\* The tick finds the connection up: a batch is cut off and sent.
Tick ==
  /\ pc = "tick" /\ connected /\ ~isDestroyed
  /\ LET q    == IF batch = <<>> THEN queue ELSE batch
         full == Len(q) >= Limit
     IN  /\ queue' = IF batch = <<>> THEN <<>> ELSE queue
         /\ drained' = q
         /\ batch' = IF full THEN SubSeq(q, 1, Limit) ELSE q
         /\ rest' = IF full THEN SubSeq(q, Limit, Len(q)) ELSE <<>>
  /\ pc' = "sent"
  /\ UNCHANGED <<inProgress, life, link, channels, log, ghost, count>>

\* The tick finds it disconnected; the count that Drain's caller took stays.
TickInVain ==
  /\ pc = "tick" /\ ~connected
  /\ inProgress' = FALSE /\ pc' = "none" /\ batch' = <<>>
  /\ UNCHANGED <<queue, drained, rest, life, link, channels, log, ghost, count>>

\* queueDone(), with what has been put on the queue in the meantime.
Done(q) ==
  /\ queue' = q /\ drained' = <<>> /\ rest' = <<>>
  /\ IF rest # <<>> \/ q # <<>>
     THEN Drain(rest) /\ active' = active /\ timer' = FALSE
     ELSE RemoveActive /\ inProgress' = FALSE /\ pc' = "none" /\ batch' = <<>>

\* The commands at some places of the batch, in order.
Of(places) ==
  LET Nth(k) == CHOOSE i \in places : Cardinality({j \in places : j <= i}) = k
  IN  [k \in 1 .. Cardinality(places) |-> batch[Nth(k)]]

\* The commands that the replies answer, for places that have none.
Known(unanswered) == {batch[i] : i \in DOMAIN batch \ unanswered}

\* Mutant: one refused command and the whole batch is sent again.
SendsAllAgain(busy, lost) ==
  /\ settled' = settled \cup Known(busy \cup lost)
  /\ IF busy = {} THEN Done(queue \o Of(lost))
     ELSE /\ queue' = queue \o Of(lost) /\ pc' = "wait"
          /\ UNCHANGED <<batch, drained, rest, inProgress, life>>

\* The callback of batch.exec: of the batch, the commands at the places in
\* busy were refused and those in lost have no known outcome.
Exec(busy, lost) ==
  /\ settled' = settled \cup Known(busy \cup lost)
  /\ IF busy = {} THEN Done(queue \o Of(lost))
     ELSE /\ queue' = queue \o Of(lost) /\ pc' = "wait" /\ batch' = Of(busy)
          /\ UNCHANGED <<drained, rest, inProgress, life>>

Ran(places) ==
  runs' = [c \in Commands |-> runs[c] + Cardinality({i \in places : batch[i] = c})]

Count(key, max) == count[key] < max /\ count' = [count EXCEPT ![key] = @ + 1]

Reply ==
  /\ pc = "sent"
  /\ Exec({}, {}) /\ Ran(DOMAIN batch)
  /\ UNCHANGED <<link, channels, issued, ghost, count>>

\* A script of another client keeps the server busy for some of the batch.
ReplyBusy ==
  /\ pc = "sent" /\ Count("busy", MaxBusy)
  /\ \E B \in SUBSET DOMAIN batch \ {{}} : Exec(B, {}) /\ Ran(DOMAIN batch \ B)
  /\ UNCHANGED <<link, channels, issued, ghost>>

\* Mutant: without a connection the batch is forgotten.
RetryConnectedOnly ==
  /\ pc = "wait"
  /\ IF connected THEN pc' = "sent" /\ UNCHANGED batch
     ELSE pc' = "none" /\ batch' = <<>>
  /\ UNCHANGED <<queue, drained, rest, inProgress, life, link, channels, log, ghost, count>>

\* Ten seconds later: the batch is sent again, or put back on the queue.  The
\* promise of the batch is never settled then, and the drain never ends.
Retry ==
  /\ pc = "wait"
  /\ IF connected THEN pc' = "sent" /\ UNCHANGED <<queue, batch>>
     ELSE queue' = queue \o batch /\ pc' = "none" /\ batch' = <<>>
  /\ UNCHANGED <<drained, rest, inProgress, life, link, channels, log, ghost, count>>

-----------------------------------------------------------------------------
(* The sockets: startRedisClient *)

\* retry_strategy of one client; what was in flight on the publisher is flushed
\* with UNCERTAIN_STATE after it.
Lose(t) ==
  /\ pc # "tick" /\ t \in up /\ ~isDestroyed /\ Count("drops", MaxDrops)
  /\ up' = up \ {t} /\ connected' = FALSE
  /\ isDc' = (isDc \/ connected)
  /\ IF t = "publisher" /\ pc = "sent"
     THEN \E known \in 0 .. Len(batch) - 1 : \E ran \in known .. Len(batch) :
            Exec({}, known + 1 .. Len(batch)) /\ Ran(1 .. ran)
     ELSE UNCHANGED <<queue, work, life, settled, runs>>
  /\ UNCHANGED <<isDestroyed, channels, issued, ghost>>

\* Mutant: the queue is not drained on 'connect'.
ReadyOnly(t) ==
  /\ pc # "tick" /\ t \notin up /\ ~isDestroyed
  /\ up' = up \cup {t}
  /\ connected' = (up' = Clients)
  /\ timer' = (timer \/ (up' = Clients /\ active = 0))
  /\ UNCHANGED <<queue, work, active, isDc, isDestroyed, channels, log, ghost, count>>

\* 'ready' of one client; with the other one up too, 'connect' is emitted, whose
\* listener calls destroyIfIdle and drains a queue that is not empty.
Ready(t) ==
  /\ pc # "tick" /\ t \notin up /\ ~isDestroyed
  /\ up' = up \cup {t}
  /\ connected' = (up' = Clients)
  /\ IF up' = Clients /\ queue # <<>> /\ ~inProgress THEN Drain(<<>>) /\ AddActive
     ELSE /\ timer' = (timer \/ (up' = Clients /\ active = 0))
          /\ UNCHANGED <<pc, batch, inProgress, active>>
  /\ UNCHANGED <<queue, drained, rest, isDc, isDestroyed, channels, log, ghost, count>>

\* destroy(), three seconds after the connection fell idle
IdleDestroy ==
  /\ pc # "tick" /\ timer
  /\ isDestroyed' = TRUE /\ timer' = FALSE
  /\ UNCHANGED <<queue, work, active, up, connected, isDc, channels, log, ghost, count>>

\* hardDisconnect(): too many retries, no heartbeat or a corrupt client.  The
\* connection is destroyed; a new one gets what getConnectionState collects.
HardDisconnect ==
  /\ pc # "tick" /\ ~isDestroyed /\ Count("hard", MaxHard)
  /\ Fresh(drained \o queue)
  /\ ghost' = IF pc = "sent" THEN batch ELSE <<>>
  /\ UNCHANGED <<channels, log>>

\* The replies that still come in on the old connection, before it quits.
GhostReply ==
  /\ pc # "tick" /\ ghost # <<>>
  /\ \E n \in 0 .. Len(ghost) :
       /\ settled' = settled \cup {ghost[i] : i \in 1 .. n}
       /\ runs' = [c \in Commands |-> runs[c] + Cardinality({i \in 1 .. n : ghost[i] = c})]
  /\ ghost' = <<>>
  /\ UNCHANGED <<queue, work, life, link, channels, issued, count>>

\* subscribe() and unsubscribe() of a channel by its only user
Subscribe(ch) ==
  /\ ch \notin channels /\ ~isDestroyed
  /\ channels' = channels \cup {ch} /\ AddActive
  /\ UNCHANGED <<queue, work, link, log, ghost, count>>

Unsubscribe(ch) ==
  /\ ch \in channels /\ ~isDestroyed
  /\ channels' = channels \ {ch} /\ RemoveActive
  /\ UNCHANGED <<queue, work, link, log, ghost, count>>

-----------------------------------------------------------------------------

Next == \/ \E c \in Commands : Issue(c)
        \/ Tick \/ TickInVain \/ Reply \/ ReplyBusy \/ Retry
        \/ \E t \in Clients : Lose(t) \/ Ready(t)
        \/ IdleDestroy \/ HardDisconnect \/ GhostReply
        \/ \E ch \in Channels : Subscribe(ch) \/ Unsubscribe(ch)

\* The event loop runs what is due, and the client reconnects for ever.
Fairness == /\ WF_vars(Tick \/ TickInVain) /\ WF_vars(Reply) /\ WF_vars(Retry)
            /\ \A t \in Clients : WF_vars(Ready(t))

Spec == Init /\ [][Next]_vars /\ Fairness

-----------------------------------------------------------------------------
(* Properties *)

TypeOK ==
  /\ {queue, drained, batch, rest, ghost} \subseteq Seq(Commands)
  /\ pc \in {"none", "tick", "sent", "wait"}
  /\ inProgress \in BOOLEAN /\ timer \in BOOLEAN
  /\ active \in Nat
  /\ up \subseteq Clients
  /\ {connected, isDc, isDestroyed} \subseteq BOOLEAN
  /\ channels \subseteq Channels
  /\ settled \subseteq issued /\ issued \subseteq Commands
  /\ runs \in [Commands -> Nat]

\* The commands the connection will still do something about.
Held == UNION {{s[i] : i \in DOMAIN s} : s \in {queue, batch, rest}}

\* client/README.md: "queues commands if disconnected".  Whatever is lost, a
\* command that was not answered is still in the hands of a living connection.
NothingLost == isDestroyed \/ issued \subseteq settled \cup Held

\* Only a connection with nothing in flight and no subscription is destroyed
\* for being idle: the count of users that starts the timer misses none of them.
IdleIsIdle == timer => pc = "none" /\ ~inProgress /\ channels = {}

\* A command that was answered is not executed again, however often batches are
\* refused or their link is lost; a hard disconnect may send it again.
AnsweredOnce == [][\A c \in settled : runs'[c] = runs[c] \/ count.hard > 0]_vars

\* When the link stops failing every command is answered at last, unless the
\* server was ever busy or the idle timer destroys the connection.
Served ==
  [](count.busy = 0) => \A c \in Commands : c \in issued ~> (c \in settled \/ isDestroyed)

=============================================================================
