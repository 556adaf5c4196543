-------------------------------- MODULE Updates --------------------------------
(***************************************************************************)
(* How a change of the data reaches a subscriber.  The origin publishes an *)
(* event for a marked subscription; the subscription manager stages it,    *)
(* evaluates the query, stores result, version and patch in its cache and  *)
(* publishes the version; the observable of the client fetches the patch   *)
(* or the whole result from the cache.  One subscription, one subscriber.  *)
(*                                                                         *)
(* A result stands for its version, which is its hash.                     *)
(***************************************************************************)
EXTENDS Naturals, Sequences

CONSTANTS
  MaxResult,   \* the results of the query are 1..MaxResult
  MaxErrors,   \* bound on the calls and commands that fail
  MaxDrops,    \* bound on the lost connections
  MaxMoves,    \* bound on the lost connections and the changes of the result together
  Prompt       \* are SUBSCRIBE and PSUBSCRIBE executed before anything else?

ASSUME BoundsAssumption ==
  /\ MaxResult \in Nat \ {0} /\ MaxErrors \in Nat /\ MaxDrops \in Nat
  /\ MaxMoves \in Nat /\ Prompt \in BOOLEAN

Results == 1 .. MaxResult
None    == 0            \* no version yet; every `if (version)` tests for it
Failed  == MaxResult + 1  \* the result { ___$error___ }
Wrong   == MaxResult + 2  \* what a patch makes of a value it was not made for
NoDiff  == [old |-> None, new |-> None, from |-> None]
NoJob   == [pc |-> "none", payload |-> None, from |-> None, prev |-> None]

VARIABLES
  result,     \* what the query would return now
  changes,    \* how often it has changed
  marked,     \* the nodes that it depends on bear the subscription's markers
  events,     \* update events on the way to the manager
  link,       \* the manager's subscriber connection with the origin
  sub,        \* the manager's Subscription
  job,        \* its sendUpdate, where it awaits something
  cache,      \* channel, channel_version and channel_diff of CACHE
  messages,   \* published on the channel and not yet received
  client,     \* the Observable's version and cache, and its connection
  requests,   \* its hmget calls that are not yet answered
  returned,   \* ghost: the result has become an earlier one
  mishaps,    \* ghost: what has happened so far that can lose an update
  count       \* errors and drops so far, for the bounds

manager == <<sub, job>>
origin  == <<result, changes, marked, events, link, returned>>
ghosts  == <<mishaps, count>>
vars    == <<origin, manager, cache, messages, client, requests, ghosts>>

\* addSubscription() for a channel that is not in CACHE: addUpdate() was called,
\* and PSUBSCRIBE goes over another socket than the evaluation.
Added ==
  /\ sub = [staged |-> TRUE, busy |-> FALSE, again |-> FALSE, version |-> None]
  /\ job = NoJob
  /\ cache = [value |-> None, version |-> None, diff |-> NoDiff]
  /\ link = IF Prompt THEN "open" ELSE "opening"

\* The end of start(): SUBSCRIBE is sent over one socket, hmget over the other.
Started ==
  /\ client = [up |-> TRUE, hears |-> Prompt, version |-> None, cache |-> None]
  /\ requests = <<[versions |-> <<>>, reply |-> <<>>]>>

Init ==
  /\ Added /\ Started
  /\ result = 1 /\ changes = 0 /\ marked = FALSE /\ events = 0 /\ messages = <<>>
  /\ returned = FALSE /\ mishaps = {} /\ count = [errors |-> 0, drops |-> 0]

\* A failure and a lost connection, with the mishaps that they are.
Err(m) ==
  /\ count.errors < MaxErrors /\ count' = [count EXCEPT !.errors = @ + 1]
  /\ mishaps' = mishaps \cup m

Lose(m) ==
  /\ count.drops < MaxDrops /\ changes + count.drops < MaxMoves
  /\ count' = [count EXCEPT !.drops = @ + 1]
  /\ mishaps' = mishaps \cup m

\* The manager will evaluate the query again without another event.
Due == \/ sub.staged \/ events > 0 \/ link = "lost"
       \/ (sub.busy /\ sub.again) \/ job.pc \in {"get", "wait"}

\* The client will read the cache again without another message.
Asking == \E i \in DOMAIN requests : requests[i].reply = <<>>

-----------------------------------------------------------------------------
(* The origin *)

\* Results are numbered as they first come.  The new one may depend on nodes that
\* bear no markers yet.
Change ==
  /\ changes + count.drops < MaxMoves /\ changes' = changes + 1
  /\ result' \in Results \ {result} /\ result' <= changes + 2
  /\ returned' = (returned \/ result' < result)
  /\ marked' \in {marked, FALSE}
  /\ LET told == marked /\ link = "open"
     IN  /\ events' = IF told THEN events + 1 ELSE events
         /\ mishaps' = IF told \/ Due THEN mishaps ELSE mishaps \cup {"unannounced"}
  /\ UNCHANGED <<link, manager, cache, messages, client, requests, count>>

\* The origin executes PSUBSCRIBE.
Psubscribe ==
  /\ link = "opening" /\ link' = "open"
  /\ UNCHANGED <<result, changes, marked, events, returned, manager, cache, messages,
                 client, requests, ghosts>>

\* The manager loses the origin, which has no markers after a restart.
Cut ==
  /\ link # "lost" /\ link' = "lost" /\ events' = 0 /\ marked' \in {marked, FALSE}
  /\ Lose({})
  /\ UNCHANGED <<result, changes, returned, manager, cache, messages, client, requests>>

\* reconnectListener(): every subscription of the origin is updated.
Relink ==
  /\ link = "lost" /\ link' = "open"
  /\ sub' = [sub EXCEPT !.staged = TRUE]
  /\ UNCHANGED <<result, changes, marked, events, returned, job, cache, messages, client,
                 requests, ghosts>>

-----------------------------------------------------------------------------
(* The subscription manager *)

\* listener(): addUpdate(), which does nothing more for a staged subscription
Event ==
  /\ events > 0 /\ events' = events - 1
  /\ sub' = [sub EXCEPT !.staged = TRUE]
  /\ UNCHANGED <<result, changes, marked, link, returned, job, cache, messages, client,
                 requests, ghosts>>

\* The beginning of sendUpdate(), up to the call of client.get().
Begin(s) ==
  /\ sub' = [s EXCEPT !.busy = TRUE]
  /\ job' = [NoJob EXCEPT !.pc = "get", !.from = s.version]

\* Mutant: a subscription that is being processed is not sent again.
SkipBusy ==
  /\ sub.staged
  /\ LET s == [sub EXCEPT !.staged = FALSE]
     IN  IF sub.busy THEN sub' = s /\ UNCHANGED job ELSE Begin(s)
  /\ UNCHANGED <<origin, cache, messages, client, requests, ghosts>>

\* sendUpdates()
SendUpdates ==
  /\ sub.staged
  /\ LET s == [sub EXCEPT !.staged = FALSE]
     IN  IF sub.busy THEN sub' = [s EXCEPT !.again = TRUE] /\ UNCHANGED job
         ELSE Begin(s)
  /\ UNCHANGED <<origin, cache, messages, client, requests, ghosts>>

\* client.get() reads first and adds its markers afterwards.
Read ==
  /\ job.pc = "get" /\ link # "lost"
  /\ job' = [job EXCEPT !.pc = "mark", !.payload = result]
  /\ UNCHANGED <<origin, sub, cache, messages, client, requests, ghosts>>

Mark ==
  /\ job.pc = "mark" /\ link # "lost"
  /\ marked' = TRUE
  /\ job' = [job EXCEPT !.pc = "got"]
  /\ UNCHANGED <<result, changes, events, link, returned, sub, cache, messages, client,
                 requests, ghosts>>

\* A marker that cannot be added or refreshed is logged, and the result returned.
MarkFails ==
  /\ job.pc = "mark" /\ Err({})
  /\ job' = [job EXCEPT !.pc = "got"]
  /\ UNCHANGED <<origin, sub, cache, messages, client, requests>>

\* client.get() throws: a subscription that has a version keeps it, the others
\* get the error as their result.
ReadFails ==
  /\ job.pc = "get"
  /\ IF job.from # None
     THEN job' = NoJob /\ sub' = [sub EXCEPT !.busy = FALSE]
     ELSE job' = [job EXCEPT !.pc = "got", !.payload = Failed] /\ UNCHANGED sub
  /\ UNCHANGED <<origin, cache, messages, client, requests>>
  /\ Err(IF Due' THEN {} ELSE {"failed"})

\* What sendUpdate() ends with.
Finish ==
  IF sub.again THEN job' = [NoJob EXCEPT !.pc = "wait"] /\ UNCHANGED sub
  ELSE job' = NoJob /\ sub' = [sub EXCEPT !.busy = FALSE]

Unchanged ==
  /\ job.pc = "got" /\ job.from = job.payload
  /\ Finish
  /\ UNCHANGED <<origin, cache, messages, client, requests, ghosts>>

\* subscription.version is set before anything is stored.
Changed ==
  /\ job.pc = "got" /\ job.from # job.payload
  /\ sub' = [sub EXCEPT !.version = job.payload]
  /\ job' = [job EXCEPT !.pc = IF job.from = None THEN "store" ELSE "prev"]
  /\ UNCHANGED <<origin, cache, messages, client, requests, ghosts>>

\* hget of the result in the cache, to make the patch from
ReadPrev ==
  /\ job.pc = "prev"
  /\ job' = IF cache.value = None THEN [job EXCEPT !.pc = "store", !.from = None]
            ELSE [job EXCEPT !.pc = "store", !.prev = cache.value]
  /\ UNCHANGED <<origin, sub, cache, messages, client, requests, ghosts>>

\* Without the result before, there is no patch.
ReadPrevFails ==
  /\ job.pc = "prev" /\ Err({"unpatched"})
  /\ job' = [job EXCEPT !.pc = "store", !.from = None]
  /\ UNCHANGED <<origin, sub, cache, messages, client, requests>>

\* hmset; without a patch the last one stays
Stored ==
  [value |-> job.payload, version |-> job.payload,
   diff |-> IF job.from = None THEN cache.diff
            ELSE [old |-> job.prev, new |-> job.payload, from |-> job.from]]

Store ==
  /\ job.pc = "store"
  /\ cache' = Stored
  /\ job' = [job EXCEPT !.pc = "publish"]
  /\ UNCHANGED <<origin, sub, messages, client, requests, ghosts>>

\* What is published while the client does not listen is lost.
Publish ==
  /\ job.pc = "publish"
  /\ LET m == IF job.from = None THEN <<job.payload>> ELSE <<job.payload, job.from>>
     IN  messages' = IF client.hears THEN Append(messages, m) ELSE messages
  /\ mishaps' = IF client.hears \/ Asking THEN mishaps ELSE mishaps \cup {"unheard"}
  /\ Finish
  /\ UNCHANGED <<origin, cache, client, requests, count>>

\* The catch of sendUpdates(): the update that came in meanwhile is dropped, and
\* the version that was set stays.
Reject ==
  /\ job' = NoJob /\ sub' = [sub EXCEPT !.busy = FALSE, !.again = FALSE]
  /\ UNCHANGED <<origin, messages, client, requests>>

\* One of the commands is rejected; the hmset may have been executed all the same.
StoreFails ==
  /\ job.pc = "store" /\ cache' \in {cache, Stored}
  /\ Err(IF cache' = Stored THEN {"unpublished"} ELSE {"unstored"})
  /\ Reject

PublishFails ==
  /\ job.pc = "publish" /\ Err({"unpublished"})
  /\ Reject /\ UNCHANGED cache

\* After 100 ms the update that came in meanwhile is sent.
Again ==
  /\ job.pc = "wait"
  /\ Begin([sub EXCEPT !.again = FALSE])
  /\ UNCHANGED <<origin, cache, messages, client, requests, ghosts>>

Manage == \/ Event \/ SendUpdates \/ Read \/ Mark \/ Unchanged \/ Changed
          \/ ReadPrev \/ Store \/ Publish \/ Again \/ Psubscribe \/ Relink

-----------------------------------------------------------------------------
(* The observable *)

\* getValue(versions): of the patch if there is something to patch
Get(versions) ==
  LET patched == client.version # None /\ Len(versions) = 2
  IN  [versions |-> IF patched THEN versions ELSE <<>>, reply |-> <<>>]

\* The server executes SUBSCRIBE.
Subscribe ==
  /\ client.up /\ ~client.hears
  /\ client' = [client EXCEPT !.hears = TRUE]
  /\ UNCHANGED <<origin, manager, cache, messages, requests, ghosts>>

\* Mutant: the version is taken from the message.
ReceiveVersion ==
  /\ messages # <<>> /\ messages' = Tail(messages)
  /\ LET versions == Head(messages)
     IN  IF versions[1] = client.version THEN UNCHANGED <<client, requests, mishaps>>
         ELSE /\ requests' = Append(requests, Get(<<>>))
              /\ client' = [client EXCEPT !.version = versions[1]] /\ UNCHANGED mishaps
  /\ UNCHANGED <<origin, manager, cache, count>>

\* A message on the channel: a version that it has already is ignored, although
\* a reply that was made before may be under way.
Receive ==
  /\ messages # <<>> /\ messages' = Tail(messages)
  /\ LET versions == Head(messages)
     IN  IF versions[1] = client.version
         THEN /\ mishaps' = IF requests = <<>> \/ Asking THEN mishaps
                            ELSE mishaps \cup {"ignored"}
              /\ UNCHANGED requests
         ELSE requests' = Append(requests, Get(versions)) /\ UNCHANGED mishaps
  /\ UNCHANGED <<origin, manager, cache, client, count>>

\* The server executes the calls in their order.
Execute ==
  /\ client.up
  /\ \E i \in DOMAIN requests :
       /\ requests[i].reply = <<>> /\ \A j \in 1 .. i - 1 : requests[j].reply # <<>>
       /\ requests' = [requests EXCEPT ![i].reply = <<cache>>]
  /\ UNCHANGED <<origin, manager, cache, messages, client, ghosts>>

Apply(diff, value) == IF value = diff.old THEN diff.new ELSE Wrong

\* The reply of the whole result, which may not be there yet.
Whole ==
  /\ requests # <<>> /\ Head(requests).reply # <<>>
  /\ Head(requests).versions = <<>>
  /\ LET got == Head(requests).reply[1]
     IN  client' = IF got.value \in {None, Failed} THEN client
                   ELSE [client EXCEPT !.version = got.version, !.cache = got.value]
  /\ requests' = Tail(requests)
  /\ UNCHANGED <<origin, manager, cache, messages, ghosts>>

\* Mutant: the patch is applied whatever version the client has by now.
PatchBlindly ==
  /\ requests # <<>> /\ Head(requests).reply # <<>>
  /\ Head(requests).versions # <<>>
  /\ LET got == Head(requests).reply[1]
     IN  client' = [client EXCEPT !.version = got.version, !.cache = Apply(got.diff, @)]
  /\ requests' = Tail(requests)
  /\ UNCHANGED <<origin, manager, cache, messages, ghosts>>

\* The reply of a patch: it is applied if it leads from the version the client
\* has to the one it was told about; otherwise the whole result is asked for.
Patch ==
  /\ requests # <<>> /\ Head(requests).reply # <<>>
  /\ Head(requests).versions # <<>>
  /\ LET got == Head(requests).reply[1]
         to  == Head(requests).versions
         fits == /\ got.diff.from = to[2] /\ got.version = to[1]
                 /\ client.version = got.diff.from
     IN  IF fits
         THEN /\ client' = [client EXCEPT !.version = got.version,
                                          !.cache = Apply(got.diff, @)]
              /\ requests' = Tail(requests)
         ELSE /\ requests' = Append(Tail(requests), Get(<<>>)) /\ UNCHANGED client
  /\ UNCHANGED <<origin, manager, cache, messages, ghosts>>

\* hmget is rejected: emitError(), and no second call.
GetFails ==
  /\ client.up /\ requests # <<>> /\ Head(requests).reply = <<>>
  /\ requests' = Tail(requests)
  /\ Err(IF Asking' THEN {} ELSE {"refused"})
  /\ UNCHANGED <<origin, manager, cache, messages, client>>

\* The connection is lost with one of its sockets or both: the calls of the
\* publisher that were not answered are made again after it is back, what was on
\* the way to the subscriber is gone.
Drop ==
  /\ client.up
  /\ \E sockets \in {{"publisher"}, {"subscriber"}, {"publisher", "subscriber"}} :
       /\ requests' = IF "publisher" \notin sockets THEN requests
                      ELSE [i \in DOMAIN requests |-> [requests[i] EXCEPT !.reply = <<>>]]
       /\ messages' = IF "subscriber" \notin sockets THEN messages ELSE <<>>
       /\ client' = [client EXCEPT !.up = FALSE,
                                !.hears = client.hears /\ "subscriber" \notin sockets]
       /\ Lose(IF messages' = messages \/ Asking' THEN {} ELSE {"unheard"})
  /\ UNCHANGED <<origin, manager, cache>>

\* Both are ready, the subscriber after its channels are subscribed again;
\* reconnect() announces the subscription again, and the manager has it.
Reconnect ==
  /\ ~client.up
  /\ client' = [client EXCEPT !.up = TRUE, !.hears = TRUE]
  /\ UNCHANGED <<origin, manager, cache, messages, requests, ghosts>>

Observe == Subscribe \/ Receive \/ Execute \/ Whole \/ Patch \/ Reconnect

Fail == \/ MarkFails \/ ReadFails \/ ReadPrevFails \/ StoreFails \/ PublishFails
        \/ GetFails \/ Drop \/ Cut

-----------------------------------------------------------------------------

Next == Change \/ Manage \/ Observe \/ Fail

\* Every callback that is due is run, every call is answered and every
\* connection comes back.
Spec == Init /\ [][Next]_vars /\ WF_vars(Manage) /\ WF_vars(Observe)

-----------------------------------------------------------------------------
(* Properties *)

Versions == 0 .. MaxResult + 1

TypeOK ==
  /\ result \in Results /\ changes \in Nat /\ marked \in BOOLEAN /\ events \in Nat
  /\ link \in {"opening", "open", "lost"} /\ returned \in BOOLEAN
  /\ sub \in [staged : BOOLEAN, busy : BOOLEAN, again : BOOLEAN, version : Versions]
  /\ job \in [pc : {"none", "get", "mark", "got", "prev", "store", "publish", "wait"},
              payload : Versions, from : Versions, prev : Versions]
  /\ cache \in [value : Versions, version : Versions,
                diff : [old : Versions, new : Versions, from : Versions]]
  /\ client.version \in Versions
  /\ \A i \in DOMAIN requests : Len(requests[i].versions) \in {0, 2}
  /\ job.pc # "none" => sub.busy

\* Patches, versions and results travel separately, and the version is set
\* before the result is stored: all the same a subscriber never shows a patch
\* applied to a result that it was not made from.  Once the result has been an
\* earlier one again, this needs that no result was left unstored and none was
\* stored without its patch: then the versions alone do not tell a patch from
\* another with the same versions.
PatchFits ==
  \/ client.cache = client.version
  \/ returned /\ mishaps \cap {"unstored", "unpatched"} # {}

\* A subscriber never goes back to an older result, whatever replies and
\* messages cross each other.
NeverBack == [][~returned' => client'.version >= client.version]_vars

\* docs/api.md: "Executes the query and subscribes to future changes".  When the
\* data stop changing, the subscriber has the last result.
UpToDate   == client.version = result
Subscribed == <>[]UpToDate

\* The same, as long as none of these happens:
\*   unannounced  a change causes no event (the query was read but not yet
\*                marked, its markers failed, PSUBSCRIBE was not yet executed)
\*                and no evaluation is due
\*   failed       an evaluation fails and no other is due
\*   unstored     a result is not stored, although its version is taken as sent
\*   unpublished  its message is not published
\*   unheard      nobody hears the message, and no call will read the cache
\*   ignored      a message is ignored while a reply made before is under way
\*   refused      the call that a message caused is rejected
\* Nothing else in this model loses one: not the staging and the reruns of the
\* manager, the loss of an origin, a stale patch or a call that is made again.
Converges == [](mishaps \subseteq {"unpatched"}) => Subscribed

=============================================================================
