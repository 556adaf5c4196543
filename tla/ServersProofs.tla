---------------------------- MODULE ServersProofs ----------------------------
(***************************************************************************)
(* What holds of the registration of servers, for any number of clients    *)
(* and of faults: the registry's entry of a server is whole or absent, a   *)
(* process that was killed stays down, and a server that has left stays    *)
(* off the registry.                                                       *)
(***************************************************************************)
EXTENDS Servers, TLAPS

Events == {"new", "remove"}

View0 == [up : BOOLEAN, has : BOOLEAN, inbox : Seq(Events), relapsed : BOOLEAN,
          sync : [by : {"timer", "connect"}, at : {"none", "asked", "read"}]]

PMs      == [child : BOOLEAN, restarting : BOOLEAN, destroyed : {"no", "running", "between"}]
Beats    == [at : {"none", "asked", "written"}, isNew : BOOLEAN]
Entries  == [listed : BOOLEAN, info : {"none", "bare", "full"}, old : BOOLEAN]
Managers == [at : {"none", "read", "removed"}, info : {"none", "bare", "full"}, old : BOOLEAN]

\* The invariant in three parts, of which most steps disturb one.
ServerTyped ==
  /\ pm \in PMs /\ ~(pm.child /\ pm.restarting)
  /\ life \in {"up", "leaving", "left", "gone", "dying", "crashed"}
  /\ beat \in Beats

RegistryTyped ==
  /\ registry \in Entries /\ (registry.listed <=> registry.info = "full")
  /\ manager \in Managers

ViewsTyped ==
  /\ views \in [Clients -> View0] /\ \A c \in Clients : views[c].inbox # <<>> => views[c].up
  /\ known \in BOOLEAN /\ last \in Events \cup {"none"}

Typed == ServerTyped /\ RegistryTyped /\ ViewsTyped /\ waiting \subseteq Clients /\ count \in Nat

-----------------------------------------------------------------------------
(* Views *)

LEMMA PublishTyped ==
  ASSUME ViewsTyped, NEW event \in Events, Publish(event)
  PROVE  ViewsTyped'
<1> DEFINE told1(v) == [v EXCEPT !.inbox = Append(@, event)]
<1>1. ASSUME NEW v \in View0  PROVE told1(v) \in View0 /\ told1(v).up = v.up
  <2>1. v.inbox \in Seq(Events)
    BY <1>1 DEF View0
  <2>2. Append(v.inbox, event) \in Seq(Events)
    BY <2>1
  <2> DEFINE more == Append(v.inbox, event)
  <2>3. told1(v) = [v EXCEPT !.inbox = more]
    OBVIOUS
  <2> HIDE DEF more, told1
  <2>4. more \in Seq(Events)
    BY <2>2 DEF more
  <2> QED  BY <1>1, <2>3, <2>4 DEF View0
<1>2. views' = [c \in Clients |-> IF views[c].up THEN told1(views[c]) ELSE views[c]]
  BY DEF Publish
<1>3. \A c \in Clients : views[c] \in View0 /\ (views[c].inbox # <<>> => views[c].up)
  BY DEF ViewsTyped
<1>4. /\ views' \in [Clients -> View0]
      /\ \A c \in Clients : views'[c].inbox # <<>> => views'[c].up
  <2> HIDE DEF told1
  <2> QED  BY <1>1, <1>2, <1>3
<1>5. known' \in BOOLEAN /\ last' \in Events
  BY DEF Publish
<1> QED  BY <1>4, <1>5 DEF ViewsTyped

\* A step of one client keeps the views typed if its own view is.
LEMMA ViewTyped ==
  ASSUME ViewsTyped, NEW c \in Clients, NEW w \in View0, View(c, w), w.inbox # <<>> => w.up
  PROVE  ViewsTyped'
BY DEF ViewsTyped, View

LEMMA InitTyped == Init => Typed
<1> SUFFICES ASSUME Init PROVE Typed
  OBVIOUS
<1>1. [up |-> TRUE, has |-> FALSE, inbox |-> <<>>, relapsed |-> FALSE,
       sync |-> [by |-> "connect", at |-> "asked"]] \in View0
  BY DEF View0
<1>2. ViewsTyped
  BY <1>1 DEF Init, ViewsTyped
<1>3. ServerTyped
  BY DEF Init, ServerTyped, PMs, Beats, NewPM, Idle
<1>4. RegistryTyped
  BY DEF Init, RegistryTyped, Entries, Managers, Resting, Empty
<1> QED
  BY <1>2, <1>3, <1>4 DEF Init, Typed

-----------------------------------------------------------------------------
(* The steps *)

\* The steps of the process and the server, but for what they publish.
LEMMA ServerStepTyped ==
  ASSUME ServerTyped,
         \/ Exit \/ Restart \/ Beat \/ Write \/ Announce \/ Destroy \/ Unlist \/ Leave
         \/ LeaveUnheard \/ Signal \/ Crash \/ Start
  PROVE  ServerTyped'
<1> USE DEF ServerTyped, PMs, Beats
<1>1. CASE Exit  BY <1>1 DEF Exit
<1>2. CASE Restart
  <2>1. CASE pm' = NoPM /\ life' = "crashed" /\ beat' = Idle
    BY <2>1 DEF NoPM, NewPM, Idle
  <2>2. CASE /\ pm' = [pm EXCEPT !.child = TRUE, !.restarting = FALSE]
             /\ UNCHANGED <<life, beat>>
    BY <2>2
  <2> QED  BY <1>2, <2>1, <2>2 DEF Restart
<1>3. CASE Beat  BY <1>3 DEF Beat
<1>4. CASE Write
  <2>1. Idle \in Beats /\ [beat EXCEPT !.at = "written"] \in Beats
    BY DEF Idle
  <2>2. \/ beat' = Idle
        \/ beat' = [beat EXCEPT !.at = "written"]
    BY <1>4 DEF Write
  <2>3. beat' \in Beats
    <3> HIDE DEF Beats
    <3> QED  BY <2>1, <2>2
  <2> QED  BY <1>4, <2>3 DEF Write
<1>5. CASE Announce  BY <1>5 DEF Announce, Idle
<1>6. CASE Destroy \/ Unlist  BY <1>6 DEF Destroy, Unlist
<1>7. CASE Leave \/ LeaveUnheard \/ Signal  BY <1>7 DEF Leave, LeaveUnheard, Signal, Killed
<1>8. CASE Crash  BY <1>8 DEF Crash, NoPM, NewPM, Idle
<1>9. CASE Start  BY <1>9 DEF Start, NewPM
<1> QED  BY <1>1, <1>2, <1>3, <1>4, <1>5, <1>6, <1>7, <1>8, <1>9

LEMMA RegistryStepTyped ==
  ASSUME RegistryTyped, Write \/ Unlist \/ Age \/ Poll \/ Judge \/ Tell
  PROVE  RegistryTyped'
<1> USE DEF RegistryTyped, Entries, Managers
<1>1. CASE Write
  <2>1. CASE registry' = registry  BY <1>1, <2>1 DEF Write
  <2>2. CASE registry' = [listed |-> TRUE, info |-> "full", old |-> FALSE]
    BY <1>1, <2>2 DEF Write
  <2> QED  BY <1>1, <2>1, <2>2 DEF Write
<1>2. CASE Unlist  BY <1>2 DEF Unlist, Empty
<1>3. CASE Age  BY <1>3 DEF Age
<1>4. CASE Poll  BY <1>4 DEF Poll
<1>5. CASE Judge
  <2> DEFINE bare == [registry EXCEPT !.info = IF @ = "none" THEN "bare" ELSE @, !.old = FALSE]
  <2>1. bare \in Entries /\ (bare.listed <=> bare.info = "full")
    OBVIOUS
  <2>2. Empty \in Entries /\ ~Empty.listed /\ Empty.info # "full"
    BY DEF Empty
  <2>3. Resting \in Managers /\ [manager EXCEPT !.at = "removed"] \in Managers
    BY DEF Resting
  <2>4. \/ registry' = bare /\ manager' = Resting
        \/ registry' = Empty /\ manager' = [manager EXCEPT !.at = "removed"]
    BY <1>5 DEF Judge
  <2> HIDE DEF bare, Entries, Managers
  <2> QED  BY <2>1, <2>2, <2>3, <2>4
<1>6. CASE Tell  BY <1>6 DEF Tell, Resting
<1> QED  BY <1>1, <1>2, <1>3, <1>4, <1>5, <1>6

\* The steps of the server and of the manager, those that publish included.
LEMMA PublicTyped ==
  ASSUME Typed,
         \/ Exit \/ Restart \/ Beat \/ Write \/ Announce \/ Destroy \/ Unlist \/ Leave
         \/ LeaveUnheard \/ Signal \/ Crash \/ Start
         \/ Age \/ Poll \/ Judge \/ Tell \/ ManagerSync
  PROVE  Typed'
<1> USE DEF Fault
<1>1. ServerTyped'
  <2>1. CASE Age \/ Poll \/ Judge \/ Tell \/ ManagerSync
    BY <2>1 DEF Typed, ServerTyped, Age, Poll, Judge, Tell, ManagerSync, server
  <2> QED  BY <2>1, ServerStepTyped DEF Typed
<1>2. RegistryTyped'
  <2>1. CASE \/ Exit \/ Restart \/ Beat \/ Announce \/ Destroy \/ Leave \/ LeaveUnheard
             \/ Signal \/ Crash \/ Start \/ ManagerSync
    BY <2>1 DEF Typed, RegistryTyped, Exit, Restart, Beat, Announce, Destroy, Leave,
                LeaveUnheard, Signal, Crash, Start, ManagerSync
  <2> QED  BY <2>1, RegistryStepTyped DEF Typed
<1>3. waiting' \subseteq Clients /\ count' \in Nat
  BY DEF Typed, Exit, Restart, Beat, Write, Announce, Destroy, Unlist, Leave, LeaveUnheard,
         Signal, Crash, Start, Age, Poll, Judge, Tell, ManagerSync
<1>4. ViewsTyped'
  <2>1. CASE Publish("new") \/ Publish("remove")
    BY <2>1, PublishTyped DEF Typed, Events
  <2>2. CASE UNCHANGED told
    BY <2>2 DEF Typed, ViewsTyped, told
  <2>3. CASE Unlist \/ Judge
    BY <2>3 DEF Typed, ViewsTyped, Unlist, Judge
  <2>4. CASE ManagerSync
    BY <2>4 DEF Typed, ViewsTyped, ManagerSync
  <2> QED
    BY <2>1, <2>2, <2>3, <2>4
    DEF Exit, Restart, Beat, Write, Announce, Destroy, Leave, LeaveUnheard, Signal, Crash, Start,
        Age, Poll, Tell
<1> QED  BY <1>1, <1>2, <1>3, <1>4 DEF Typed

\* The steps of one client.
LEMMA ClientTyped ==
  ASSUME Typed, NEW c \in Clients,
         \/ Receive(c) \/ SyncRead(c) \/ SyncAdd(c)
         \/ Disconnect(c) \/ Connect(c) \/ GetServer(c)
  PROVE  Typed'
<1>0. /\ views[c] \in View0 /\ (views[c].inbox # <<>> => views[c].up)
      /\ NoSync \in [by : {"timer", "connect"}, at : {"none", "asked", "read"}]
  BY DEF Typed, ViewsTyped, NoSync
\* What a client's step that replaces its view has to show.
<1>1. ASSUME NEW w \in View0, View(c, w), w.inbox # <<>> => w.up,
             waiting' \subseteq Clients, count' \in Nat
      PROVE  Typed'
  BY <1>1, ViewTyped DEF View, server, Typed, ServerTyped, RegistryTyped
<1>2. ASSUME NEW w \in View0, Finish(c, w), w.inbox # <<>> => w.up  PROVE Typed'
  <2>1. [w EXCEPT !.sync = NoSync] \in View0
    BY <1>0 DEF View0
  <2>2. waiting' \subseteq Clients /\ count' \in Nat
    BY <1>2 DEF Finish, Wake, Typed, TypeOK
  <2> QED  BY <1>1, <1>2, <2>1, <2>2 DEF Finish, View0
<1>3. CASE Receive(c)
  <2> DEFINE w == [views[c] EXCEPT !.inbox = Tail(@), !.has = Head(views[c].inbox) = "new",
                                   !.relapsed = FALSE]
  <2>1. w \in View0 /\ w.up = views[c].up /\ views[c].inbox # <<>>
    <3>1. views[c].inbox # <<>> /\ Tail(views[c].inbox) \in Seq(Events)
      BY <1>0, <1>3 DEF Receive, View0
    <3>2. ASSUME NEW v \in View0, NEW q \in Seq(Events), NEW b \in BOOLEAN
          PROVE  LET u == [v EXCEPT !.inbox = q, !.has = b, !.relapsed = FALSE]
                 IN  u \in View0 /\ u.up = v.up
      BY DEF View0
    <3> DEFINE q == Tail(views[c].inbox)
               b == Head(views[c].inbox) = "new"
    <3>3. w = [views[c] EXCEPT !.inbox = q, !.has = b, !.relapsed = FALSE] /\ b \in BOOLEAN
      OBVIOUS
    <3>4. views[c] \in View0 /\ q \in Seq(Events)
      BY <1>0, <3>1
    <3> HIDE DEF w, q, b
    <3> QED  BY <3>1, <3>2, <3>3, <3>4
  <2>2. View(c, w) /\ waiting' \subseteq Clients /\ count' \in Nat
    BY <1>3 DEF Receive, Wake, Typed
  <2> HIDE DEF w
  <2> QED  BY <1>0, <1>1, <2>1, <2>2
<1>4. ASSUME View(c, [views[c] EXCEPT !.sync.at = "read"]), UNCHANGED <<waiting, count>>
      PROVE  Typed'
  <2>1. [views[c] EXCEPT !.sync.at = "read"] \in View0
    BY <1>0 DEF View0
  <2> QED  BY <1>0, <1>1, <1>4, <2>1 DEF View0, Typed
<1>5. CASE SyncRead(c)
  BY <1>0, <1>2, <1>4, <1>5 DEF SyncRead
<1>6. CASE SyncAdd(c)
  <2> DEFINE w == [views[c] EXCEPT !.has = TRUE,
                     !.relapsed = @ \/ (~views[c].has /\ ~registry.listed)]
  <2>1. w \in View0 /\ w.up = views[c].up /\ w.inbox = views[c].inbox
    BY <1>0 DEF View0
  <2>2. Finish(c, w)
    BY <1>6 DEF SyncAdd
  <2> HIDE DEF w
  <2> QED  BY <1>0, <1>2, <2>1, <2>2
<1>7. CASE Disconnect(c)
  <2> DEFINE w == [up |-> FALSE, has |-> FALSE, inbox |-> <<>>, sync |-> NoSync,
                   relapsed |-> FALSE]
  <2>1. w \in View0 /\ w.inbox = <<>>
    BY <1>0 DEF View0
  <2> QED  BY <1>1, <1>7, <2>1 DEF Disconnect, Fault, Typed
<1>8. CASE Connect(c)
  <2> DEFINE w == [views[c] EXCEPT !.up = TRUE, !.sync = [by |-> "connect", at |-> "asked"]]
  <2>1. w \in View0 /\ w.up
    BY <1>0 DEF View0
  <2> QED  BY <1>1, <1>8, <2>1 DEF Connect, Typed
<1>9. CASE GetServer(c)
  BY <1>9 DEF GetServer, server, told, Typed, ServerTyped, RegistryTyped, ViewsTyped
<1> QED  BY <1>3, <1>5, <1>6, <1>7, <1>8, <1>9

LEMMA StepTyped == Typed /\ [Next]_vars => Typed'
<1> SUFFICES ASSUME Typed, [Next]_vars PROVE Typed'
  OBVIOUS
<1>1. CASE UNCHANGED vars
  BY <1>1 DEF vars, Typed, ServerTyped, RegistryTyped, ViewsTyped
<1> QED  BY <1>1, PublicTyped, ClientTyped DEF Next

LEMMA Typing == Spec => []Typed
<1> QED  BY InitTyped, StepTyped, PTL DEF Spec

-----------------------------------------------------------------------------
(* Theorems *)

\* Whoever of the server and the manager writes last (updateRegistry.ts,
\* updateFromStats()), a server is in the set of servers exactly if its hash is whole,
\* and only those who are connected have messages.
THEOREM TypeCorrect == Spec => []TypeOK
<1>1. Typed => TypeOK
  BY DEF Typed, ServerTyped, RegistryTyped, ViewsTyped, TypeOK, PMs, Beats, Entries, Managers
<1> QED  BY <1>1, Typing, PTL

\* processManager.ts: destroy() of a running process leaves nothing that starts it
\* again.
THEOREM KilledStaysDown == Spec => []StaysDown
<1>1. Init => StaysDown
  BY DEF Init, StaysDown, NewPM
<1>2. Typed /\ StaysDown /\ [Next]_vars => StaysDown'
  <2> SUFFICES ASSUME Typed, StaysDown, [Next]_vars PROVE StaysDown'
    OBVIOUS
  <2> USE DEF StaysDown, Typed, ServerTyped, PMs
  <2>1. CASE pm' = pm  BY <2>1
  <2>2. CASE Exit  BY <2>2 DEF Exit
  <2>3. CASE Restart  BY <2>3 DEF Restart, NoPM, NewPM
  <2>4. CASE Leave \/ LeaveUnheard \/ Signal
    BY <2>4 DEF Leave, LeaveUnheard, Signal, Killed
  <2>5. CASE Crash \/ Start  BY <2>5 DEF Crash, Start, NoPM, NewPM
  <2> QED
    BY <2>1, <2>2, <2>3, <2>4, <2>5
    DEF Next, vars, server, View, Beat, Write, Announce, Destroy, Unlist, Age, Poll, Judge,
        Tell, ManagerSync, Receive, SyncRead, SyncAdd, Finish, Disconnect, Connect, GetServer
<1> QED  BY <1>1, <1>2, Typing, PTL DEF Spec

\* updateRegistry.ts looks again, after its first await, at whether destroy() has run:
\* nothing else writes the set of servers, so a server that has left stays off it.
THEOREM LeftStaysOff == Spec => NotBack
<1>1. Typed /\ [Next]_vars =>
        [~registry.listed /\ life \in {"leaving", "left", "gone"} => ~registry.listed']_vars
  <2> SUFFICES ASSUME Typed, [Next]_vars, ~registry.listed,
                      life \in {"leaving", "left", "gone"}
               PROVE  ~registry.listed'
    OBVIOUS
  <2>1. CASE registry' = registry  BY <2>1
  <2>2. CASE Write  BY <2>2 DEF Write, Blocked
  <2>3. CASE Unlist  BY <2>3 DEF Unlist, Empty
  <2>4. CASE Age  BY <2>4 DEF Age, Typed, RegistryTyped, Entries
  <2>5. CASE Judge
    <3>1. CASE registry' = Empty  BY <3>1 DEF Empty
    <3>2. CASE registry' = [registry EXCEPT !.info = IF @ = "none" THEN "bare" ELSE @,
                                            !.old = FALSE]
      BY <3>2 DEF Typed, RegistryTyped, Entries
    <3> QED  BY <2>5, <3>1, <3>2 DEF Judge
  <2> QED
    BY <2>1, <2>2, <2>3, <2>4, <2>5
    DEF Next, vars, server, View, Exit, Restart, Beat, Announce, Destroy, Leave, LeaveUnheard,
        Signal, Crash, Start, Poll, Tell, ManagerSync, Receive, SyncRead, SyncAdd, Finish,
        Disconnect, Connect, GetServer
<1> QED  BY <1>1, Typing, PTL DEF Spec, NotBack

=============================================================================
