-------------------------------- MODULE Servers --------------------------------
(***************************************************************************)
(* A server, its Redis process, the registry, and the clients that look    *)
(* servers up.  The server registers itself with every measurement of its  *)
(* process; the registry's manager drops it when it has been silent for    *)
(* eight seconds; the clients each keep a view of the registry, from its   *)
(* messages and from reading it when they connect and every fifteen        *)
(* seconds.                                                                *)
(*                                                                         *)
(* Commands given together (sadd and hmset, srem and del) run as one batch. *)
(* A client has its replies and its messages from two sockets, so that     *)
(* either may come first.  The manager runs beside the registry: a message *)
(* is there before it polls again, a second later.                         *)
(***************************************************************************)
EXTENDS Naturals, Sequences

CONSTANTS
  Clients,     \* those who look servers up
  MaxFaults    \* bound on the faults: exits of the process, silences of a server that
               \* runs, lost connections of clients, new starts after a crash

ASSUME ServersAssumption == MaxFaults \in Nat

VARIABLES
  pm,        \* the ProcessManager: [child, restarting, destroyed]
  life,      \* the server: up, leaving or left (in destroy()), gone, dying (signal), crashed
  beat,      \* updateRegistry() in flight: [at, isNew]
  registry,  \* [listed, info, old]: the set of servers, and the hash of this one
  manager,   \* updateFromStats() in flight: [at, info, old]
  known,     \* whether the server is in the manager's view
  views,     \* of each client: [up, has, inbox, sync, relapsed]; sync is the reading of
             \* the registry under way: what started it and what it has come to
  waiting,   \* clients whose getServer() has found nothing yet
  last,      \* the last message about the server since it was last taken off the registry
  count      \* faults so far, for the bound

vars == <<pm, life, beat, registry, manager, known, views, waiting, last, count>>
server == <<pm, life, beat>>
told   == <<known, views, last>>

Alive == life = "up" /\ pm.child /\ pm.destroyed = "no"

Fault == count < MaxFaults /\ count' = count + 1

NewPM   == [child |-> TRUE, restarting |-> FALSE, destroyed |-> "no"]
NoPM    == [NewPM EXCEPT !.child = FALSE]
Idle    == [at |-> "none", isNew |-> FALSE]
Resting == [at |-> "none", info |-> "none", old |-> FALSE]
Empty   == [listed |-> FALSE, info |-> "none", old |-> FALSE]
NoSync  == [by |-> "timer", at |-> "none"]

\* The clients have just connected to an empty registry.
Init ==
  /\ pm = NewPM /\ life = "up" /\ beat = Idle
  /\ registry = Empty /\ manager = Resting /\ known = FALSE
  /\ views = [c \in Clients |-> [up |-> TRUE, has |-> FALSE, inbox |-> <<>>, relapsed |-> FALSE,
                                 sync |-> [by |-> "connect", at |-> "asked"]]]
  /\ waiting = {} /\ last = "none"
  /\ count = 0

\* To everyone who is connected.
Publish(event) ==
  /\ last' = event /\ known' = (event = "new")
  /\ views' = [c \in Clients |->
       IF views[c].up THEN [views[c] EXCEPT !.inbox = Append(@, event)] ELSE views[c]]

-----------------------------------------------------------------------------
(* The process: processManager.ts *)

\* exitHandler()
Exit ==
  /\ pm.child /\ Fault
  /\ pm' = [pm EXCEPT !.child = FALSE, !.restarting = TRUE]
  /\ UNCHANGED <<life, beat, registry, manager, told, waiting>>

\* The restart timer.  The fifth attempt without a success throws, and ends the
\* server; which attempt this is, is left open.
Restart ==
  /\ pm.restarting
  /\ \/ pm' = NoPM /\ life' = "crashed" /\ beat' = Idle
     \/ pm' = [pm EXCEPT !.child = TRUE, !.restarting = FALSE] /\ UNCHANGED <<life, beat>>
  /\ UNCHANGED <<registry, manager, told, waiting, count>>

\* Mutant: the exit of the process that is killed is handled.
KillHandled ==
  [pm EXCEPT !.child = FALSE, !.restarting = @ \/ pm.child,
             !.destroyed = IF pm.child THEN "running" ELSE "between"]

\* destroy(): a restart that is due is not cancelled.
Killed ==
  [pm EXCEPT !.child = FALSE, !.destroyed = IF pm.child THEN "running" ELSE "between"]

-----------------------------------------------------------------------------
(* The server: updateRegistry.ts, index.ts *)

Blocked == life # "up" \/ pm.destroyed # "no"

\* A measurement: is the server listed?
Beat ==
  /\ Alive /\ beat = Idle
  /\ beat' = [at |-> "asked", isNew |-> ~registry.listed]
  /\ UNCHANGED <<pm, life, registry, manager, told, waiting, count>>

\* Mutant: destroy() is not noticed after the first await.
WriteAnyway ==
  /\ beat.at = "asked"
  /\ beat' = IF beat.isNew THEN [beat EXCEPT !.at = "written"] ELSE Idle
  /\ registry' = [listed |-> TRUE, info |-> "full", old |-> FALSE]
  /\ UNCHANGED <<pm, life, manager, told, waiting, count>>

Write ==
  /\ beat.at = "asked"
  /\ IF Blocked THEN beat' = Idle /\ UNCHANGED registry
     ELSE /\ beat' = IF beat.isNew THEN [beat EXCEPT !.at = "written"] ELSE Idle
          /\ registry' = [listed |-> TRUE, info |-> "full", old |-> FALSE]
  /\ UNCHANGED <<pm, life, manager, told, waiting, count>>

\* Only a server that was not listed is announced.
Announce ==
  /\ beat.at = "written" /\ beat' = Idle
  /\ IF ~Blocked THEN Publish("new") ELSE UNCHANGED told
  /\ UNCHANGED <<pm, life, registry, manager, waiting, count>>

\* The server's destroy(), and the removal it waits for, for one second at most.
Destroy ==
  /\ life = "up" /\ life' = "leaving"
  /\ UNCHANGED <<pm, beat, registry, manager, told, waiting, count>>

\* Mutant: the hash is kept.
UnlistOnly ==
  /\ life = "leaving" /\ life' = "left"
  /\ registry' = [registry EXCEPT !.listed = FALSE] /\ last' = "none"
  /\ UNCHANGED <<pm, beat, manager, known, views, waiting, count>>

Unlist ==
  /\ life = "leaving" /\ life' = "left"
  /\ registry' = Empty /\ last' = "none"
  /\ UNCHANGED <<pm, beat, manager, known, views, waiting, count>>

Leave ==
  /\ life = "left" /\ life' = "gone" /\ pm' = Killed
  /\ Publish("remove")
  /\ UNCHANGED <<beat, registry, manager, waiting, count>>

LeaveUnheard ==
  /\ life \in {"leaving", "left"} /\ life' = "gone" /\ pm' = Killed
  /\ UNCHANGED <<beat, registry, manager, told, waiting, count>>

\* SIGINT or SIGTERM: the process is stopped, and four seconds later the server.
Signal ==
  /\ life = "up" /\ life' = "dying" /\ pm' = Killed
  /\ UNCHANGED <<beat, registry, manager, told, waiting, count>>

Crash ==
  /\ life \in {"up", "dying"} /\ life' = "crashed" /\ pm' = NoPM /\ beat' = Idle
  /\ UNCHANGED <<registry, manager, told, waiting, count>>

\* startRedis() shuts down what is left on its port.
Start ==
  /\ life = "crashed" /\ Fault
  /\ life' = "up" /\ pm' = NewPM
  /\ UNCHANGED <<beat, registry, manager, told, waiting>>

-----------------------------------------------------------------------------
(* The registry's manager: updateFromStats() *)

\* Eight seconds without a measurement; a server that runs is seldom that slow.
Age ==
  /\ registry.info # "none" /\ ~registry.old
  /\ registry' = [registry EXCEPT !.old = TRUE]
  /\ IF Alive THEN Fault ELSE UNCHANGED count
  /\ UNCHANGED <<server, manager, told, waiting>>

\* A server that has been measured lately is left alone.
Poll ==
  /\ manager = Resting /\ known /\ (registry.info = "none" \/ registry.old)
  /\ manager' = [at |-> "read", info |-> registry.info, old |-> registry.old]
  /\ UNCHANGED <<server, registry, told, waiting, count>>

\* Mutant: the entry of a server that timed out is kept.
OnlyTells ==
  /\ manager.at = "read"
  /\ manager' = IF manager.old THEN [manager EXCEPT !.at = "removed"] ELSE Resting
  /\ UNCHANGED <<server, registry, told, waiting, count>>

\* A server without statistics gets some; a silent one is taken off the registry.
Judge ==
  /\ manager.at = "read"
  /\ IF manager.info = "none"
     THEN /\ registry' = [registry EXCEPT !.info = IF @ = "none" THEN "bare" ELSE @, !.old = FALSE]
          /\ manager' = Resting /\ UNCHANGED last
     ELSE registry' = Empty /\ last' = "none" /\ manager' = [manager EXCEPT !.at = "removed"]
  /\ UNCHANGED <<server, known, views, waiting, count>>

\* The message names the server by what was read; without a host nobody heeds it.
Tell ==
  /\ manager.at = "removed" /\ manager' = Resting
  /\ IF manager.info = "full" THEN Publish("remove") ELSE UNCHANGED told
  /\ UNCHANGED <<server, registry, waiting, count>>

\* Every fifteen seconds the manager reads the registry as every client does.
ManagerSync ==
  /\ registry.listed /\ ~known /\ known' = TRUE
  /\ UNCHANGED <<server, registry, manager, views, waiting, last, count>>

-----------------------------------------------------------------------------
(* The views of the clients: connectRegistry/, getServer.ts *)

View(c, w) ==
  /\ views' = [views EXCEPT ![c] = w]
  /\ UNCHANGED <<server, registry, manager, known, last>>

\* updateServerListeners(): those who wait look again.
Wake(c, has) == waiting' = IF has THEN waiting \ {c} ELSE waiting

\* Mutant: those who wait are not told of a new server.
ReceiveQuietly(c) ==
  /\ views[c].inbox # <<>>
  /\ View(c, [views[c] EXCEPT !.inbox = Tail(@), !.relapsed = FALSE,
                              !.has = Head(views[c].inbox) = "new"])
  /\ UNCHANGED <<waiting, count>>

Receive(c) ==
  /\ views[c].inbox # <<>>
  /\ LET has == Head(views[c].inbox) = "new"
     IN  /\ View(c, [views[c] EXCEPT !.inbox = Tail(@), !.has = has, !.relapsed = FALSE])
         /\ Wake(c, has)
  /\ UNCHANGED count

\* The end of getInitialRegistryServers(): only the one at connection wakes anyone.
Finish(c, w) ==
  /\ View(c, [w EXCEPT !.sync = NoSync])
  /\ IF w.sync.by = "connect" THEN Wake(c, w.has) ELSE UNCHANGED waiting
  /\ UNCHANGED count

\* Mutant: once connected, the registry is not read again.
ReadOnce(c) ==
  /\ views[c].up /\ views[c].sync.at = "asked"
  /\ IF ~registry.listed THEN Finish(c, views[c])
     ELSE View(c, [views[c] EXCEPT !.sync.at = "read"]) /\ UNCHANGED <<waiting, count>>

\* The commands, at connection and every fifteen seconds.  A server that leaves the
\* registry between smembers and hmget has no address and is not added.
SyncRead(c) ==
  /\ views[c].up /\ views[c].sync.at # "read"
  /\ IF ~registry.listed THEN Finish(c, views[c])
     ELSE View(c, [views[c] EXCEPT !.sync.at = "read"]) /\ UNCHANGED <<waiting, count>>

\* The reply: addServer(), whatever has happened to the server since.
SyncAdd(c) ==
  /\ views[c].sync.at = "read"
  /\ Finish(c, [views[c] EXCEPT !.has = TRUE,
                                !.relapsed = @ \/ (~views[c].has /\ ~registry.listed)])

\* clear(); the commands whose reply is lost are sent again with those of the next
\* connection, and read the same.
Disconnect(c) ==
  /\ views[c].up /\ Fault
  /\ View(c, [up |-> FALSE, has |-> FALSE, inbox |-> <<>>, sync |-> NoSync, relapsed |-> FALSE])
  /\ UNCHANGED waiting

Connect(c) ==
  /\ ~views[c].up
  /\ View(c, [views[c] EXCEPT !.up = TRUE, !.sync = [by |-> "connect", at |-> "asked"]])
  /\ UNCHANGED <<waiting, count>>

\* getServer(), when the view does not have the server
GetServer(c) ==
  /\ c \notin waiting /\ ~views[c].has
  /\ waiting' = waiting \cup {c}
  /\ UNCHANGED <<server, registry, manager, told, count>>

-----------------------------------------------------------------------------

Next ==
  \/ Exit \/ Restart
  \/ Beat \/ Write \/ Announce
  \/ Destroy \/ Unlist \/ Leave \/ LeaveUnheard \/ Signal \/ Crash \/ Start
  \/ Age \/ Poll \/ Judge \/ Tell \/ ManagerSync
  \/ \E c \in Clients : \/ Receive(c) \/ SyncRead(c) \/ SyncAdd(c)
                        \/ Disconnect(c) \/ Connect(c) \/ GetServer(c)

\* Timers fire, replies and messages come in, clients connect again, and a server
\* that does not run is silent for eight seconds in the end.
Fairness ==
  /\ WF_vars(Restart) /\ WF_vars(Beat \/ Write \/ Announce)
  /\ WF_vars(Unlist \/ Leave \/ LeaveUnheard) /\ WF_vars(life = "dying" /\ Crash)
  /\ WF_vars(~Alive /\ Age) /\ WF_vars(Poll \/ Judge \/ Tell) /\ WF_vars(ManagerSync)
  /\ \A c \in Clients :
       WF_vars(Receive(c)) /\ WF_vars(SyncRead(c) \/ SyncAdd(c)) /\ WF_vars(Connect(c))

Spec == Init /\ [][Next]_vars /\ Fairness

-----------------------------------------------------------------------------
(* Properties *)

\* Each part is well typed, and the set of servers and the hashes agree, whoever of
\* the server and the manager writes last.
TypeOK ==
  /\ pm \in [child : BOOLEAN, restarting : BOOLEAN,
             destroyed : {"no", "running", "between"}]
  /\ ~(pm.child /\ pm.restarting)
  /\ life \in {"up", "leaving", "left", "gone", "dying", "crashed"}
  /\ beat \in [at : {"none", "asked", "written"}, isNew : BOOLEAN]
  /\ registry \in [listed : BOOLEAN, info : {"none", "bare", "full"}, old : BOOLEAN]
  /\ registry.listed <=> registry.info = "full"
  /\ manager \in [at : {"none", "read", "removed"}, info : {"none", "bare", "full"}, old : BOOLEAN]
  /\ \A c \in Clients : views[c].inbox # <<>> => views[c].up
  /\ waiting \subseteq Clients

\* A process that was running when it was destroyed is not started again; one that was
\* about to be restarted is.
StaysDown == pm.destroyed = "running" => ~pm.child /\ ~pm.restarting

\* A server that is leaving and off the registry does not come back, although a
\* measurement of it may be in the middle of updateRegistry().
NotBack ==
  [][~registry.listed /\ life \in {"leaving", "left", "gone"} => ~registry.listed']_vars

\* A server that keeps running is found: it is in the view of every client that stays
\* connected, whatever the manager, a slow measurement or a late message has done.
Found ==
  \A c \in Clients :
    <>[](Alive /\ views[c].up) => <>[](registry.listed /\ views[c].has)

\* Whoever waits for a server gets it, if the last that was said of it is that it is
\* new.  Otherwise nobody wakes them: not a measurement that read the set before the
\* manager removed the server, nor the reading of the registry every fifteen seconds.
Answered ==
  \A c \in Clients :
    <>[](Alive /\ views[c].up /\ last = "new") => []<>(c \notin waiting)

\* A server that has stopped is taken off the registry; and once its removal has been
\* the last said of it, off every view, unless a reply that was read before the removal
\* has put it back.
Forgotten ==
  <>[](life \in {"gone", "crashed"}) =>
    /\ <>[]~registry.listed
    /\ \A c \in Clients :
         <>[](last = "remove") => <>[](views[c].has => views[c].relapsed)

=============================================================================
