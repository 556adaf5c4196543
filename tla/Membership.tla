------------------------------- MODULE Membership -------------------------------
(***************************************************************************)
(* Who is subscribed.  Clients write themselves into the Redis server of a *)
(* subscription manager and announce it; the manager, a client of the same *)
(* server, keeps a copy in memory.  It learns of changes from messages     *)
(* and, every five seconds, by reading everything again, and it awaits a   *)
(* reply between what it reads and what it does about it.                  *)
(*                                                                         *)
(* One subscription.  A connection executes its commands in order, and the *)
(* replies to the manager come in order.                                   *)
(***************************************************************************)
EXTENDS Naturals, Sequences

CONSTANTS
  Clients,    \* instances of SelvaClient, each with its uuid
  MaxEvents   \* bound on the number of subscriptions, unsubscriptions and faults

ASSUME BoundsAssumption == MaxEvents \in Nat

VARIABLES
  phase,      \* of a client's Observable
  left,       \* a destroyed Observable of the client is still attached
  hb,         \* clientHb[uuid].counter of the client's connection
  up,         \* the clients that are connected
  crashed,    \* those that are gone for good
  outbox,     \* commands of a client that are not yet executed
  redis,      \* CLIENTS, SUBSCRIPTIONS and the set of the channel
  inbox,      \* messages published and not yet received by the manager
  listening,  \* the manager's subscribe commands have been executed
  handlers,   \* how often addListeners() has run
  memory,     \* subsManager.clients and subsManager.subscriptions[channel]
  replies,    \* replies that the manager has not yet received
  checking,   \* an updateSubscriptionData() is under way
  count       \* subscriptions, unsubscriptions and faults so far, for the bound

clientSide == <<phase, left, hb, up, crashed, outbox>>
wire       == <<inbox, replies>>
manager    == <<listening, handlers, memory, checking>>
vars       == <<clientSide, redis, wire, manager, count>>


NoSub == [there |-> FALSE, clients |-> {}]

\* Some clients have been subscribed for a while.
Init ==
  \E S \in SUBSET Clients :
    /\ phase = [c \in Clients |-> IF c \in S THEN "on" ELSE "off"] /\ left = {}
    /\ hb = [c \in Clients |-> IF c \in S THEN 1 ELSE 0]
    /\ up = Clients /\ crashed = {} /\ outbox = [c \in Clients |-> <<>>]
    /\ redis = [beats |-> [c \in Clients |-> IF c \in S THEN "fresh" ELSE "none"],
                entry |-> S # {}, members |-> S]
    /\ inbox = <<>> /\ replies = <<>>
    /\ listening = TRUE /\ handlers = 1 /\ checking = FALSE
    /\ memory = [known |-> S, sub |-> [there |-> S # {}, clients |-> S]]
    /\ count = 0

-----------------------------------------------------------------------------
(* The clients *)

Event == count < MaxEvents /\ count' = count + 1

Send(c, commands) == outbox' = [outbox EXCEPT ![c] = @ \o commands]

\* subscribe(), start(), up to the call of getServer()
Subscribe(c) ==
  /\ Event /\ phase[c] = "off" /\ c \notin crashed
  /\ phase' = [phase EXCEPT ![c] = "starting"]
  /\ UNCHANGED <<left, hb, up, crashed, outbox, redis, wire, manager>>

\* The rest of startInner(): nothing there asks whether the Observable was
\* destroyed in the meantime.
Start(c) ==
  /\ phase[c] \in {"starting", "doomed"}
  /\ phase' = [phase EXCEPT ![c] = IF @ = "doomed" THEN "off" ELSE "on"]
  /\ left' = IF phase[c] = "doomed" THEN left \cup {c} ELSE left
  /\ hb' = [hb EXCEPT ![c] = @ + 1]
  /\ Send(c, (IF hb[c] > 0 THEN <<>> ELSE IF c \in up THEN <<"beat">> ELSE <<"hset">>)
             \o <<"announce">>)
  /\ UNCHANGED <<up, crashed, redis, wire, manager, count>>

\* unsubscribe(), destroy() before the Observable has a connection
Abandon(c) ==
  /\ Event /\ phase[c] = "starting"
  /\ phase' = [phase EXCEPT ![c] = "doomed"]
  /\ UNCHANGED <<left, hb, up, crashed, outbox, redis, wire, manager>>

\* removeConnectionState(): what the Observable still has on the queue goes
Withdrawn(c) ==
  IF c \in up THEN outbox[c]
  ELSE SelectSeq(outbox[c], LAMBDA m : m # "announce")

\* unsubscribe(), destroy(), stopClientHb()
Unsubscribe(c) ==
  /\ Event /\ phase[c] = "on"
  /\ phase' = [phase EXCEPT ![c] = "off"]
  /\ hb' = [hb EXCEPT ![c] = @ - 1]
  /\ outbox' = [outbox EXCEPT ![c] = Withdrawn(c)
                  \o (IF hb[c] = 1 THEN <<"stop">> ELSE <<>>) \o <<"leave">>]
  /\ UNCHANGED <<left, up, crashed, redis, wire, manager>>

Lose(c) ==
  /\ Event /\ c \in up
  /\ up' = up \ {c}
  /\ UNCHANGED <<phase, left, hb, crashed, outbox, redis, wire, manager>>

\* Every Observable that is attached announces itself again, and counts as one
\* more user of the heartbeat.
Reconnect(c) ==
  /\ c \notin up \cup crashed
  /\ up' = up \cup {c}
  /\ LET observables == (IF phase[c] = "on" THEN 1 ELSE 0) + (IF c \in left THEN 1 ELSE 0)
     IN  /\ hb' = [hb EXCEPT ![c] = @ + observables]
         /\ Send(c, IF observables = 0 THEN <<>> ELSE <<"announce">>)
  /\ UNCHANGED <<phase, left, crashed, redis, wire, manager, count>>

\* The client's process ends.
Crash(c) ==
  /\ Event /\ c \notin crashed
  /\ crashed' = crashed \cup {c} /\ up' = up \ {c} /\ left' = left \ {c}
  /\ phase' = [phase EXCEPT ![c] = "off"] /\ hb' = [hb EXCEPT ![c] = 0]
  /\ outbox' = [outbox EXCEPT ![c] = <<>>]
  /\ UNCHANGED <<redis, wire, manager>>

-----------------------------------------------------------------------------
(* The Redis server of the manager *)

Publish(kind, c) ==
  inbox' = IF listening THEN Append(inbox, [kind |-> kind, client |-> c]) ELSE inbox

Pass(c, kind, r) ==
  /\ redis' = r
  /\ IF kind = "hset" THEN UNCHANGED inbox ELSE Publish(kind, c)

\* What a client has put on its queue at once is one batch: "announce" is SADD,
\* HSETNX and PUBLISH, "leave" SREM and PUBLISH, "beat" HSET and PUBLISH, "stop"
\* HDEL and PUBLISH.
ExecClient(c) ==
  /\ c \in up /\ outbox[c] # <<>>
  /\ LET m == Head(outbox[c])
     IN  \/ m \in {"hset", "beat"} /\ Pass(c, m, [redis EXCEPT !.beats[c] = "fresh"])
         \/ m = "stop"     /\ Pass(c, m, [redis EXCEPT !.beats[c] = "none"])
         \/ m = "announce" /\ Pass(c, m, [redis EXCEPT !.members = @ \cup {c}, !.entry = TRUE])
         \/ m = "leave"    /\ Pass(c, m, [redis EXCEPT !.members = @ \ {c}])
  /\ outbox' = [outbox EXCEPT ![c] = Tail(@)]
  /\ UNCHANGED <<phase, left, hb, up, crashed, replies, manager, count>>

\* setHeartbeat(), every second; only those beats that change anything
Beat(c) ==
  /\ hb[c] > 0 /\ c \in up
  /\ c \notin memory.known \/ redis.beats[c] # "fresh"
  /\ \A i \in DOMAIN inbox : inbox[i] # [kind |-> "beat", client |-> c]
  /\ Pass(c, "beat", [redis EXCEPT !.beats[c] = "fresh"])
  /\ UNCHANGED <<clientSide, replies, manager, count>>

\* Ten seconds without a heartbeat.
Age(c) ==
  /\ redis.beats[c] = "fresh" /\ (hb[c] = 0 \/ c \notin up)
  /\ redis' = [redis EXCEPT !.beats[c] = "old"]
  /\ UNCHANGED <<clientSide, wire, manager, count>>

-----------------------------------------------------------------------------
(* The manager.  Its commands are executed when they are given, and what takes *)
(* time is the way of the reply: a message may be late, too.                   *)

\* What a handler waits for: the client it is about, whether it holds the
\* Subscription that is in memory, and what it has read.
Query(op, c, held, data) == [op |-> op, clients |-> c, held |-> held, data |-> data]
Read(fields)             == [f \in fields |-> redis[f]]

\* What is done for one message, as often as there are listeners.
ForEach(query) == replies' = replies \o [i \in 1 .. handlers |-> query]

Beats(clients, v) == [c \in Clients |-> IF c \in clients THEN v ELSE redis.beats[c]]

\* The `message` listener of addListeners().  The subscriptions of a client in
\* subsManager.clients are never filled, so that STOP_HEARTBEAT removes none.
Receive ==
  /\ inbox # <<>> /\ inbox' = Tail(inbox)
  /\ LET kind == Head(inbox).kind
         c == {Head(inbox).client}
         there == memory.sub.there
     IN  \/ /\ kind = "stop"
            /\ memory' = [memory EXCEPT !.known = @ \ c] /\ UNCHANGED <<redis, replies>>
         \/ /\ kind = "beat"
            /\ memory' = [memory EXCEPT !.known = @ \cup c]
            /\ redis' = [redis EXCEPT !.beats = Beats(c, "fresh")] /\ UNCHANGED replies
         \/ /\ kind = "announce" /\ there
            /\ memory' = [memory EXCEPT !.sub.clients = @ \cup c] /\ UNCHANGED <<redis, replies>>
         \/ /\ kind = "announce" /\ ~there
            /\ ForEach(Query("add", c, FALSE, Read({"entry", "members"})))
            /\ UNCHANGED <<redis, memory>>
         \/ /\ kind = "leave"
            /\ ForEach(Query("remove", c, there, Read({"members"}))) /\ UNCHANGED <<redis, memory>>
  /\ UNCHANGED <<clientSide, listening, handlers, checking, count>>

\* A handler goes on with its reply.
Resume(op) == replies # <<>> /\ Head(replies).op = op
Answer     == Head(replies).data

\* removeSubscription(): HDEL of the entry and DEL of the set.  A Subscription that
\* is made later is not the one a handler holds.
RemoveSubscription ==
  /\ memory' = [memory EXCEPT !.sub = NoSub]
  /\ redis' = [redis EXCEPT !.entry = FALSE, !.members = {}]
  /\ replies' = [i \in DOMAIN Tail(replies) |-> [replies[i + 1] EXCEPT !.held = FALSE]]

\* addClientSubscription() after its await
AddClient ==
  /\ Resume("add") /\ replies' = Tail(replies)
  /\ memory' = IF ~Answer.entry \/ Answer.members = {} THEN memory
               ELSE IF memory.sub.there
               THEN [memory EXCEPT !.sub.clients = @ \cup Head(replies).clients]
               ELSE [memory EXCEPT !.sub = [there |-> TRUE, clients |-> Answer.members]]
  /\ UNCHANGED <<clientSide, redis, inbox, listening, handlers, checking, count>>

\* removeClientSubscription() after its await
RemoveClient ==
  /\ Resume("remove")
  /\ LET c == Head(replies).clients
     IN  IF Answer.members \subseteq c THEN RemoveSubscription
         ELSE /\ redis' = [redis EXCEPT !.members = @ \ (Answer.members \cap c)]
              /\ memory' = IF Head(replies).held
                           THEN [memory EXCEPT !.sub.clients = @ \ c] ELSE memory
              /\ replies' = Tail(replies)
  /\ UNCHANGED <<clientSide, inbox, listening, handlers, checking, count>>

\* updateSubscriptionData(), every five seconds
Check ==
  /\ ~checking /\ checking' = TRUE
  /\ replies' = Append(replies, Query("check", {}, FALSE, Read({"entry", "beats"})))
  /\ UNCHANGED <<clientSide, redis, inbox, listening, handlers, memory, count>>

\* Mutant: a client that has timed out is removed from Redis only.
CheckClientsInRedis ==
  /\ Resume("check")
  /\ LET old == {c \in Clients : Answer.beats[c] = "old"}
         fresh == {c \in Clients : Answer.beats[c] = "fresh"}
     IN  /\ memory' = [memory EXCEPT !.known = @ \cup fresh]
         /\ redis' = [redis EXCEPT !.beats = Beats(old, "none")]
  /\ replies' = IF Answer.entry
                THEN Append(Tail(replies), Query("members", {}, FALSE, Read({"members"})))
                ELSE Tail(replies)
  /\ checking' = Answer.entry
  /\ UNCHANGED <<clientSide, inbox, listening, handlers, count>>

\* Its first await: clients that have timed out are forgotten.
CheckClients ==
  /\ Resume("check")
  /\ LET old == {c \in Clients : Answer.beats[c] = "old"}
         fresh == {c \in Clients : Answer.beats[c] = "fresh"}
     IN  /\ memory' = [memory EXCEPT !.known = (@ \cup fresh) \ old]
         /\ redis' = [redis EXCEPT !.beats = Beats(old, "none")]
  /\ replies' = IF Answer.entry
                THEN Append(Tail(replies), Query("members", {}, FALSE, Read({"members"})))
                ELSE Tail(replies)
  /\ checking' = Answer.entry
  /\ UNCHANGED <<clientSide, inbox, listening, handlers, count>>

\* Mutant: a subscription that is not in memory is left to its announcement.
CheckMembersKnown ==
  /\ Resume("members") /\ checking' = FALSE
  /\ LET gone == Answer.members \ memory.known
         stay == memory.sub.clients \ gone
     IN  \/ stay = {} /\ memory.sub.there /\ RemoveSubscription
         \/ /\ stay # {} \/ ~memory.sub.there
            /\ memory' = [memory EXCEPT !.sub.clients = stay]
            /\ redis' = [redis EXCEPT !.members = @ \ gone]
            /\ replies' = Tail(replies)
  /\ UNCHANGED <<clientSide, inbox, listening, handlers, count>>

\* Its second await: members that are not known are removed, and with the last
\* of them the subscription; one that is not in memory is added.
CheckMembers ==
  /\ Resume("members") /\ checking' = FALSE
  /\ LET members == Answer.members
         gone == members \ memory.known
         stay == IF memory.sub.there THEN memory.sub.clients \ gone ELSE members \ gone
     IN  \/ stay = {} /\ memory.sub.there /\ RemoveSubscription
         \/ /\ stay = {} /\ ~memory.sub.there
            /\ redis' = [redis EXCEPT !.entry = FALSE, !.members = @ \ gone]
            /\ replies' = Tail(replies) /\ UNCHANGED memory
         \/ /\ stay # {}
            /\ memory' = [memory EXCEPT !.sub = [there |-> TRUE, clients |-> stay]]
            /\ redis' = [redis EXCEPT !.members = @ \ gone]
            /\ replies' = Tail(replies)
  /\ UNCHANGED <<clientSide, inbox, listening, handlers, count>>

\* The worker dies and another one starts.
Restart ==
  /\ Event
  /\ listening' = FALSE /\ handlers' = 1 /\ checking' = FALSE
  /\ memory' = [known |-> {}, sub |-> NoSub]
  /\ inbox' = <<>> /\ replies' = <<>>
  /\ UNCHANGED <<clientSide, redis>>

\* The server executes the subscribe commands of addListeners().
Listen ==
  /\ ~listening /\ listening' = TRUE
  /\ UNCHANGED <<clientSide, redis, wire, handlers, memory, checking, count>>

\* The connection to the registry comes back: `connect` is emitted again, and
\* createSubscriptionManager() adds its listeners once more.
ConnectAgain ==
  /\ Event /\ listening /\ handlers = 1
  /\ handlers' = handlers + 1
  /\ UNCHANGED <<clientSide, redis, wire, listening, memory, checking>>

-----------------------------------------------------------------------------

ClientNext(c) ==
  \/ Subscribe(c) \/ Start(c) \/ Abandon(c) \/ Unsubscribe(c) \/ Beat(c)
  \/ Lose(c) \/ Reconnect(c) \/ Crash(c) \/ Age(c)

Resumed == AddClient \/ RemoveClient \/ CheckClients \/ CheckMembers

\* What a connected client sends is executed at once: nobody sees the client but
\* through the server.
Quiet == \A c \in up : outbox[c] = <<>>

Next == \/ \E c \in Clients : ExecClient(c)
        \/ Quiet /\ \E c \in Clients : ClientNext(c)
        \/ Quiet /\ (Receive \/ Resumed \/ Check \/ Listen \/ Restart \/ ConnectAgain)

Due(c) == Start(c) \/ ExecClient(c) \/ Reconnect(c)

Spec ==
  /\ Init /\ [][Next]_vars
  /\ WF_vars(Quiet /\ Receive) /\ WF_vars(Quiet /\ Resumed)
  /\ WF_vars(Quiet /\ Check) /\ WF_vars(Quiet /\ Listen)
  /\ \A c \in Clients : WF_vars(Due(c)) /\ WF_vars(Quiet /\ Beat(c)) /\ WF_vars(Quiet /\ Age(c))

-----------------------------------------------------------------------------
(* Properties *)

Recorded == redis.entry /\ redis.members # {}

\* What Redis goes on recording as subscribed the manager serves in the end:
\* restarts, announcements that nobody heard and handlers that run twice are made
\* good by the revalidation.
RecordedIsServed == <>[]Recorded => <>[](memory.sub.there)

NobodyWants == \A c \in Clients : phase[c] = "off" /\ c \notin left

\* A client that only the memory of the manager lists.  No revalidation visits it:
\* updateSubscriptionData() goes through what Redis lists.
Ghost == memory.sub.clients \ redis.members # {}

\* A subscription that nobody wants any more, its clients gone in whatever way, is
\* forgotten in Redis and in memory, unless a ghost holds it.
Forgotten ==
  <>[]NobodyWants => <>[](~redis.entry /\ ~memory.sub.there) \/ <>[]Ghost
=============================================================================
