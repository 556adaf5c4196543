# Selva in TLA+

Specifications of the parts of [Selva](../src) whose correctness depends on the
order in which things happen: what a sequence of graph commands makes of the
node hierarchy and of the markers on its nodes, what is left of subtrees that go
out of memory and come back, what nested traversals do to each other's labels,
what two threads do to a ring buffer without a lock, what a client does with its
commands when the connection comes and goes, how a change of the data finds its
way to a subscriber, who counts as subscribed, and which servers are believed to
run. The modules are translated from the source; `PROJECT.json` gives the lines
behind every definition.

`M` below stands for `src/server/modules/selva/module`.

## 1. The system

Selva is a graph database for real-time applications. A Redis module written in
C holds the data, a TypeScript server supervises the Redis processes and
evaluates subscriptions, and a TypeScript client talks to all of them.

| Component | Source | State | Operations | What is hard | What makes it correct | Here |
|---|---|---|---|---|---|---|
| Node hierarchy | `M/hierarchy/hierarchy.c`, `M/modify.c` | index of nodes, parents and children vectors, heads | create, set/add/delete/clear parents and children, upsert by edge, recursive delete | deletion recurses through the graph it changes; cycles; a fact kept in several places | links are symmetric and resolve, heads are the orphans, a deletion ends and removes what it should | `Hierarchy`, `NodeGraph`, `HierarchyProofs` |
| Edge fields | `M/edge/*.c`, `M/modify.c` | arcs per field, origins per destination, constraints | add, assign, delete, clear, drop with a node | bidirectional fields call back; a failure in the middle | both ends agree, a single reference is single | `Edge`, `Store`; whether a node has an edge also in `Hierarchy` |
| Detached subtrees, save, load | `M/hierarchy/hierarchy_detached.c`, `hierarchy_inactive.c`, the second half of `hierarchy.c` | detached index, compressed trees, dummy nodes | compress, detach, restore on access, RDB save and load | a subtree is replaced by a dummy under traversals; what is outside of it points in | nothing is lost by detaching and restoring, or by saving and loading | `Detached`, `Store` |
| Traversals | the traversals of `M/hierarchy/hierarchy.c`, `lib/util/trx.c` | visited labels in the nodes, the transaction and its colours | begin, visit, nest, end; verify a subtree | nested traversals share one word of labels | a node is visited once per traversal, and every node is | `Traversal`, `TraversalProofs` |
| Subscription markers | `M/subscriptions.c`, its callers in `hierarchy.c` and `edge.c` | markers per subscription and node, deferred events | add, refresh, inherit, clear, delete, defer, send | markers follow the graph as it changes; a refresh of one traversal repairs another | a change of a marked node yields an event | `Markers`, `MarkersProofs` |
| Find indices | `M/find_index/*.c`, `lib/util/poptop.c` | index control blocks, result sets, timers | create, refresh, use, discard | a result set kept up to date by the callbacks of markers | an index equals the traversal it stands for | `FindIndex`, `FindIndexProofs` |
| Asynchronous tasks | `M/async_task.c`, `lib/util/queue_r.c` | rings, indices, thread ids | send an event, publish it, restart a worker | shared memory without locks, threads that end, a connection that fails | FIFO, one reader per ring, no event waits for ever | `AsyncTask`, `EventQueue`, `AsyncTaskProofs` |
| Queries, objects, RPN, aliases | `M/find.c`, `aggregate.c`, `rpn/rpn.c`, `selva_object/`, ... | field values | read, filter, aggregate | nothing interleaves; the subject is data | results are right | not modelled |
| Subscription updates | `src/server/src/server/subscriptionManager/update/`, `originListeners.ts`, `src/client/src/observable/`, `get/` | staged subscriptions, versions, cache, messages, observables | stage, evaluate, store, publish, fetch, patch | everything is asynchronous and nothing is acknowledged | a subscriber shows results that existed, in order, and the last one in the end | `Updates`, `UpdatesProofs` |
| Membership of subscriptions | `subscriptionManager/{addListeners,addSubscription,removeSubscription,updateSubscriptionData,worker}.ts`, `src/client/src/observable/` | subscriptions and their clients, in memory and in Redis | subscribe, unsubscribe, heartbeat, revalidate, restart | handlers await between reading and writing | a live client's subscription stays, an abandoned one goes | `Membership` |
| Client connection | `src/client/src/connection/*.ts`, `hardDisconnect.ts` | queue, batch, counters, timers, sockets | command, drain, retry, reconnect, destroy | callbacks, timers and sockets in any order | no command is lost, none is repeated, an idle connection goes | `Connection`, `ConnectionProofs` |
| Registry and discovery | `registryManager/index.ts`, `updateRegistry.ts`, `src/client/src/connectRegistry/`, `getServer.ts` | registered servers, a client's view of them | register, time out, announce, synchronise | a slow server against its time-out; two sockets | views converge to the registry | `Servers`, `ServersProofs` |
| Process supervision | `processManager.ts`, `redisManager.ts` | child process, restart timer and count | start, exit, restart, destroy | a restart pending when it is destroyed | a destroyed process stays dead | `Servers` |
| Schema, set, query parser, timeseries, backups | `src/client/src/{schema,set}`, `src/query-ast-parser`, `postgresManager.ts`, `backups.ts` | - | - | conversion of data, I/O of other services | - | not modelled |

How they interact: a client sends commands over its *connections*; `selva.modify`
and `selva.hierarchy.del` change the *hierarchy*; *markers* on the changed nodes
defer events, which are sent to the rings of the *asynchronous tasks* at the end
of the command; a worker PUBLISHes them; the *subscription manager*, which is a
Redis client of the origin, stages and evaluates the subscription, writes the
result to its cache and publishes the version; the *observable* of the client
fetches result or patch. The *registry* tells everybody where the others are.

The hazards of this code, each at its line with the properties that watch over
it, are listed under `hazards` in `PROJECT.json`.

## 2. The modules

### Hierarchy, NodeGraph (core of the data)

`graph` holds what the C structures hold: `nodes` the index, `parents` and
`children` the two vectors of each node, `heads`, and `origins`, for each node the
nodes whose edge field refers to it. Redis runs a command to its end, so a
triplet of `selva.modify` is one action: `CreateNode` (SetHierarchy of a new
node), `Set`/`Add`/`DelParents`, `Set`/`Add`/`DelChildren`, `ClearParents`,
`ClearChildren`, `AddEdge`, `DelEdge`. They are composed of the static functions
of the code under their names (`CrossInsertParents`, `CrossRemoveChildren`, ...),
with their early returns and implicit creations.

`selva.hierarchy.del` is the exception: `SelvaModify_DelHierarchyNodeP` recurses
through a graph that its own steps change, and whether that goes well is the
question. `calls` is its C stack, with the ids each activation has copied and not
yet dealt with; `Del` enters it, `DelChild` is one iteration of the loop over the
children (in any order: the order of the vector depends on the ids), `DelReturn`
is `del_node` and the return. `before` is history: the graph as the running
command found it.

`NodeGraph` is the contract, one command at a time and without any of the
caching: a set of nodes, one relation of links, one of edges. Its `Delete` says
what a deletion may take: forced, exactly what is below the node; otherwise a
node goes only after all of its parents and everything whose edges refer to it,
and a node left without parents was referred to by an edge when the deletion
began. `Hierarchy!Implements` maps one to the other, with `before` as the state
seen by clients. (`src/server/modules/selva/doc/README.md:68` says that a node left
orphan is destroyed. A child that an edge referred to when the deletion began may
be left without a parent; the contract states what holds.)

`Reserved` stands for the two ids that `newNode` refuses. Ids are otherwise
arbitrary. One edge field per node is modelled, as deletion only asks whether
there is an edge (`Edge_Refcount`).

### Edge, Detached, Store (what is kept of the data)

Three layers over one record, the *store*: nodes and links, arcs
`<<field, source, destination>>` and origins `<<destination, source, field>>`,
the dummies in place of detached subtrees and, for each detached id, the subtree
that it is in. `Edge` has the functions of `edge.c` on it (`EdgeAdd`,
`EdgeDelete`, which call themselves for the field that refers back, `ClearField`,
`DropEdges` for a node that goes); the constraints of the fields are constants,
and `Undeclared` names the types without one, so that adding the reference back
fails in the middle. `Detached` has the deletion in its three modes, the
verification of a subtree and its detaching, the restoring of it by looking up
an id or walking over a dummy, and the dump and its loading, node by node in the
order of the traversal. `Store` makes commands of them: `Link`, `Unlink`, `Delete`,
`Refer`, `Assign`, `Unrefer`, `Clear`, `Compress` (by command or by the timer),
`Touch` (any command that looks up a node) and `Restart`. Commands of several
ids are sequences of these. Redis runs a command to its end, so each is one step;
the recursion that `Hierarchy` takes apart is a recursive operator here.

`harmed` marks the states in which the code has gone wrong: a subtree is looked
up while it is being deleted for detaching, a restored node is held by another
detached subtree as well, a dump is made that leaves out nodes (a cycle that no
head reaches) or that cannot be loaded. Nothing is said of what comes after;
`HarmHasCause` says that it takes a node with two parents or in a cycle, or an
edge between two detached subtrees, so that on trees without such edges the other
properties hold without a proviso.

Not modelled: compression to disk; which nodes are inactive (any subtree may be
compressed); compressing the root, which aborts (`new_detached_node` finds the
root still there); metadata of fields and edges; changing the constraints.

### Traversal

The labels with which traversals remember where they have been: `label` is each
node's `trx_label`, `trx` the `trx_state` of the hierarchy, `stack` the traversals
that run, the innermost last, as the callback of one starts the next. A label is
the id of a transaction and a set of bits, one for each traversal of it.
`BeginBfs`, `BeginDfs`, `BeginFlat` enter a traversal, `Step` takes the next node
off its queue and calls back, `Continue` or `Stop` is what the callback returns,
`Finish` the end; between the call and its return other traversals may begin and
end. `BeginVerify`, `Approve`, `Refuse`, `EndVerify` are
`verifyDetachableSubtree()`, two traversals at a time of which one is driven by
the other. `Stamp` and `Recreate` are what happens to labels elsewhere. The queue
is a set: its order depends on the ids of the nodes. The limit of colours, 63, is
a constant; a traversal that finds none left is refused, and colours come back
only when all traversals have ended.

Not modelled: the traversal from all heads (one depth-first traversal under one
colour), filters of edges (they are links that are not there), field selectors
that fail, the age of labels.

### Markers

One subscription in the origin. `db` holds the graph, `def` what each marker
stands for (a root, one of seven directions, whether it watches the fields of
the hierarchy), `marks` the nodes whose metadata point to it, `missing` the ids
that were not found, and `stale`, whether an event has been sent (or a marker
added) since the markers were last refreshed. The commands change the graph and
the markers as the code does: inheritance by a new child or arc, clearing from a
node onwards and setting again by a refresh of what the root visits, clearing
before a deletion, missing nodes that come into being. The events that a command
defers are sent when it ends, which is the same step. Only a deletion is taken apart, as in
`Hierarchy`: `DelNode` enters it, `NextChild` is one iteration of its loop, `Return` the end
of an activation, and `calls` its C stack; between those the markers are cleared and told
over a graph that is half deleted, and the other commands wait until `calls` is empty.
What a marker visits, `Reach`, is the least closed set. `torn` is history: the markers over
one step that have been on nodes but no longer on their root, since nothing finds
the former from the latter; only those may leave pointers behind.

Not modelled: trigger markers, which are on no node; aliases, filters of a marker,
markers over expressions or single references; several subscriptions, which share
nothing but the nodes; compression, which refuses nodes with markers.

### FindIndex

`db` is the graph (`nodes`, `links`), the nodes that pass the filter (`match`), the
values of the field to order by, and for each hint its control block: whether it is
known, its flags `active` and `valid`, the nodes with its marker and its result set, a set
of nodes with the key that each was listed under. `list` is `top_indices`. The
graph commands are those of `Markers` for markers along the descendants or the ancestors,
with `update_index()` as the callback: `Noted` (an addition), `ClearAll` (which destroys),
`Refresh`; it is called at once, not at the end of the command. The deletion of a node is
taken apart here too (`DelNode`, `NextChild`, `Return`, the stack `calls`); whether an edge keeps a
child is left open, as edges are not kept here. `SetMatch` and `SetKey`
change the fields that the filter and the order read. `Find`, `Consider`, `Decide` and
`Delete` are `upsert_icb()`, the timer of a block, the timer of the hierarchy and
`selva.index.del`. Popularity is left open: any known hint may enter the list, and any
half of a full list may be dropped.

`Usable` says that a valid index answers a find as a traversal would. It is not so in
two cases, which history keeps apart. A node with children that is linked below an
indexed one inherits no marker and is not listed until the next refresh (`graft`;
`InheritParent`, `subscriptions.c:1202`), although `M/doc/hierarchy/indexing.md` says
of a valid index that it "contains all the nodeIds that should be there". A node that
stops matching the filter is not taken out (`left`), and find does not apply a filter
again that equals the hint (`find.c:2037`); if it is ordered, the node is listed twice once
it matches again with another key. `Owned` says that the callback's pointer to its control
block is never left behind.

Not modelled: the averages that make the scores, the choice between several indices of a
query (`pick_icb.c`), expression traversals, hints with a filter that does not compile
(their blocks are destroyed), permanent hints other than as popular ones. A block that
never exceeds the threshold never enters the list and is never destroyed, so that
`FIND_INDICES_MAX_HINTS` ids can be used up.

### AsyncTask, EventQueue

`main` is the main thread inside `SelvaModify_SendAsyncTask`, `thread` the worker
threads, `ids` the array `thread_ids` (whether an entry is zero), `ring`, `rd`,
`wr` the queues, `next` the round robin. Each access to something shared is a
step: looking at a thread id, creating the thread, storing its id; drawing a
queue and testing it; copying the event, committing the index; peeking,
skipping; publishing, failing, reconnecting; the end of the thread. Steps take
effect in program order (no compiler or processor reordering: the indices are
plain variables, and this is what x86-64 and the present call structure give).
`Spares` names the threads that a queue may have at a time, so that two *could*
exist. An event fits one slot, as it does in the build.

`LateStore` says whether a worker may run to its end before `pthread_create`'s
caller stores the id. The runs take it as FALSE: each way to end a worker but one
sleeps first or follows network I/O. With TRUE, `QueueServed` fails: the zero
the worker has written is overwritten by the id, and the queue is never served
again (hazard `async_task.c:277`).

`EventQueue` is what is promised: per queue a bounded FIFO and at most one event
in each reader's hands.

### Connection

One connection of a client to one server, its two sockets included. JavaScript
runs one callback at a time, so an action is a callback; `process.nextTick` runs
before any other callback, so no socket or timer action is enabled while
`pc = "tick"`. `queue`, `drained`, `inProgress`, `active`, `timer`, `connected`,
`isDc`, `isDestroyed` are the fields of the same or a similar name; `batch` and
`rest` are what only closures hold, the arguments of the drain in progress. The
server executes commands in order; when the publisher's socket is lost, any
prefix of the batch has been executed and any shorter one answered (`Lose`).
`ghost` is the batch of a connection given up by a hard disconnect, whose replies
still come in.

Not modelled: heartbeats (they only lead to `HardDisconnect`, which may happen
at any time), several users of a connection and the transfer of one user's
state, `info` and `xgroup`, which bypass the batch; a batch that loses its link
after some of its commands were answered with BUSY.

### Updates

One subscription and one subscriber, from `Change` in the origin to `Patch` in the
observable. A result is identified with its version, which is its hash. `sub` has
the fields of `Subscription` (staged, beingProcessed, processNext, version), `job`
is the running `sendUpdate` with its local variables, at the point where it
awaits something; `cache` is what the hash CACHE holds; `messages` and `requests`
are what is under way to and from the client. Each side has two sockets, and what
is sent over one may overtake what is sent over the other: at the start the
client's SUBSCRIBE (`client.hears`) may be executed after its first `hmget`, and the
manager's PSUBSCRIBE (`link`) after the first evaluation. `Prompt` puts both first.

What may fail, and what the code does then:

* `MarkFails`: a marker is not added or refreshed; it is logged, and the result returned
  (`get/index.ts:218`, `executeGetOperations/index.ts:323`);
* `ReadFails`: `client.get()` throws; nothing is retried until the next event;
* `ReadPrevFails`: the result before cannot be read; there is no patch;
* `StoreFails`, `PublishFails`: `sendUpdate` is rejected, and the catch in `addUpdate.ts:22`
  drops the update that came in meanwhile (`processNext`), although the version was set
  before. A rejected `hmset` may have been executed all the same;
* `GetFails`: an `hmget` of the client is rejected and not made again;
* `Drop`: the client loses its publisher, its subscriber or both; `Cut`: the manager loses
  the origin, which may have been restarted and then has no markers. Both come back
  (`Reconnect`, `Relink`).

The ghost `mishaps` records the ways in which an update has been lost so far:

| Mishap | Where |
|---|---|
| `unannounced` | the result changes while it causes no event that the manager hears: before its markers are set, after they could not be, or before PSUBSCRIBE; and no other evaluation is due |
| `failed` | an evaluation fails, and no other is due |
| `unstored` | a result is not stored; its version is set, so that the same result counts as sent |
| `unpublished` | a result is stored and its message not published |
| `unheard` | the client is not subscribed, yet or any more, and no call of it is going to read the cache; `Observable.reconnect` does not ask for the result |
| `ignored` | a message with the version that the client shows is ignored while a reply with another result is under way |
| `refused` | a call that is rejected is the last that would have read the cache |

"Due" (`Due`) and "going to read" (`Asking`) are the other half of the claim: a change
before the markers are set, a failed evaluation or a message that nobody hears is
harmless as long as the subscription is staged, a rerun is noted, an event is on its way,
or a call is not yet answered. `Converges` says that the subscriber ends with the last result unless one of
the seven has happened, that is, that the rest of the machine (staging, reruns, stale
patches, calls made again, the loss of the origin) loses nothing. Each of the seven
is needed: with any one of them excused TLC finds a subscriber that stays behind. `unpatched`, a result stored
without its patch, loses nothing.

`PatchFits` has an exception of its own. The data go from result 1 to 2 and back to 1,
whose `hmset` fails, and again to 2: the patch now in the cache is named from 1 to 2,
but was made from the 2 that was still stored. A client that is at 1 and asks, upon the
first message, for the patch from 1 to 2 gets this one; all versions match, and it
shows the result 1 under the version 2. The same may happen after a result was stored
without its patch. `Clean` histories and those in which no result comes back have no such case
(section 4).

Taken for granted: an evaluation reads the data at one moment, though its commands are several; when
the model starts, `addUpdate` has been called (a first query of CACHE that fails,
`addSubscription.ts:70`, is not retried by anyone). Not modelled: triggers, schema
subscriptions, `$ignore` results, `refreshAt`, the removal of the subscription, a subscription
that CACHE already has with its tree (`addSubscription.ts:81`), the change of an origin for a replica
(`originListeners.ts:85`) and its lag, the move to another manager, a restart of the manager or a loss of its
Redis, hard disconnects, and commands that overtake those that are sent again after a
disconnect.

### Membership

One subscription: its clients on one side, with the life of an observable
(`phase`), the counter of their heartbeats, the commands not yet executed and
the connection; the Redis server of the subscription manager in the middle
(`redis`: the hash of heartbeats, the entry of the subscription, the set of its
clients); the manager's worker on the other, with its copy in `memory`, the
messages (`inbox`) and replies it has not yet received. Each handler of
`addListeners.ts` and `updateSubscriptionData.ts` that awaits a reply is two steps:
`Receive` or `Check` sends the query, whose answer is read there and then and travels
in `replies`; `AddClient`, `RemoveClient`, `CheckClients`, `CheckMembers`
act on it. Clients lose connections and come back, crash, age; the worker dies
and starts again, and adds its listeners twice when the registry connects
again (`ConnectAgain`).

What the model shows and the code does: the heartbeats of a client do not stop
after a reconnect, as `observable/index.ts:115` counts once more; the list of a
client's subscriptions that the message to stop heartbeats uses is never filled
(`addListeners.ts:22`); an observable that is destroyed during its `getServer()`
is started all the same (`observable/index.ts:470`), which `left` records; and a
subscription may be lost for a client that keeps its heartbeats, so that no
property says of every subscribed client that it is served, only of every one
that Redis goes on recording.

Not modelled: the registry's record of which manager has the subscription, hard
disconnects, and the move to another manager.

### Servers

One server with its process and its process manager (`pm`, `life`), the
registration that each measurement makes (`beat`), the registry's set and hash
(`registry`), the registry manager's loop (`manager`, `known`), and clients with
their `views` and the requests that wait for a server (`waiting`). `Exit` and
`Restart` are the process manager; `Beat`, `Write`, `Announce` are
`updateRegistry()` with an await between each two; `Unlist`, `Leave`, `Signal`,
`Crash`, `Start` the ways out and back in; `Poll`, `Judge`, `Tell` the manager,
which removes what has been silent for eight seconds; `Receive`, `SyncRead`,
`SyncAdd`, `Disconnect`, `Connect`, `GetServer` the client, whose messages and
replies come over two sockets. Commands that are given together are one batch.
`relapsed` is history: a reply older than the removal has put the server back.

What the model shows and the code does: `destroy()` between a crash of the process and its
restart does not cancel the restart (`StaysDown` is about the other case); a
server too slow for the time-out registers again without announcing itself, when
`sismember` was answered before its removal, so that only the reading every
fifteen seconds brings it back, and that wakes no request that waits; a server
that crashes between its removal and the announcement stays in every view until
the connection is lost.

Not modelled: the order of replicas and managers by load, a replica that moves to
another origin, the loss or move of the registry, the measurement loop that each
restart adds, the count of restarts (any may be the last).

## 3. What is checked

| Run | Asks | Bounds | Distinct states |
|---|---|---|---|
| `hierarchy` | every property of `Hierarchy`, the contract, termination of deletions | root and 3 nodes, at most 3 links at once, 1 possible edge | 36,134 |
| `store` | both ends of edges agree; every detached subtree can be restored and nothing is lost; what it takes to do harm | root and 3 nodes, 3 fields, at most 3 arcs, 4 links and arcs | 32,960 |
| `traversal` | labels tell traversals apart; each visits every node once; a verified subtree is closed | 3 nodes, 2 graphs, 3 colours, 4 traversals | 775,530 |
| `markers` | markers cover what they visit and nothing else; changes are told | root and 2 nodes, 2 markers, 2 links, 3 links and arcs | 550,381 |
| `find_index` | a valid index is what its query finds; no marker outlives its index | root and 2 nodes, 3 links, 2 hints, room for one index, 2 keys | 338,778 |
| `async` | FIFO refinement and types, one reader, misses only when full, service | 2 queues of 3 slots, 1 event sent again and again, 1 reconnect | 213,255 |
| `connection` | nothing lost, nothing repeated, idleness, service | 2 commands, 1 channel, 2 lost sockets, 1 busy answer, 1 hard disconnect; the batch limit is not reached | 34,248 |
| `connection_limit` | finds `NothingLost` violated when the limit is reached | 3 commands, limit 2, 1 lost socket | - |
| `updates` | patches fit, results never go back, convergence | 3 results that may come back, 1 failed command, 1 lost connection, 3 changes and lost connections together | 1,141,805 |
| `updates_marker` | finds `Subscribed` violated | 2 results, 1 change, no error, no lost connection, `Prompt` | - |
| `membership` | what is recorded is served, what nobody wants is forgotten | 2 clients, 2 subscriptions, unsubscriptions or faults between them, after any start | 51,041 |
| `servers` | a destroyed process stays down, a leaving server does not come back, a running one is found, a stopped one forgotten | 1 server, 1 client, 2 faults | 571,419 |

Why the bounds are enough. *hierarchy*: three nodes and the root give chains,
diamonds, self loops, cycles of two and three nodes with or without the root, a
child shared with a node outside of the deletion, and an edge between siblings;
`LinkBound` cuts off denser graphs, and deletion, which only removes links, never
crosses it, so the liveness check is not affected by the cut. *async*: a ring of
`RingLength` slots holds one event less, so both the empty, partly filled and full
ring and the wrap of the index occur; two queues are needed for the round robin
and for a dead worker next to a live one; one event, no trigger, keeps the liveness
check small, and that two different events keep their order is what the theorem
`RingIsQueue` proves; one reconnect is the smallest number
with which both the retry and the giving up happen. *connection*: two commands
can be in one batch, in two, or one of them queued while the other is in flight;
two lost sockets take both sockets down, or one twice. *updates*: three changes make a
patch that is overtaken by two newer results, and a result that comes back twice;
one failure or one lost connection is enough for every mishap, and the exception of
`PatchFits` for a result that was not stored occurs (that for one stored without its patch takes
four changes, explored once). *store*: three nodes make a
subtree with an inner node and a node outside of it, a diamond with the root and
a cycle; one pair of fields is the smallest that has a single and a multiple
reference and both directions; the type without a field makes the reference back
fail. One more arc or link with fewer of the others finds nothing new (37,377 states).
*traversal*: the graphs have a diamond, a cycle, a self loop and two links between the
same nodes; with three colours an outer traversal nests two or starts two one
after the other, and the next is refused; four traversals let a second
transaction meet the labels of the first. Three traversals in each of two
transactions, over more graphs, find nothing new. *markers*: two nodes and the root have
a node between the root of a marker and what it visits; two markers let the
refresh of one disturb the other (only edges make that possible, so the second
marker is of one kind, next to one over edges). Other second markers (760,771 states) find nothing new, nor do
denser graphs with one marker or two.
*find_index*: the root and two nodes make a chain below an index, a diamond, and a
subtree to link; the ordered hint starts from the root, the plain one from a node that
can be deleted, and one place for an index makes a list of two, of which one is dropped; the key of
the root, under which nobody lists it, is not set (`RootHasNoKey`; 675,540 states without that). With
the kinds of hints exchanged, or room for two indices, nothing new is found.
*membership*: two events make a subscription and an unsubscription race, or
either with a fault; three were explored once for `RecordedIsServed`. *servers*: clients do
not interact, so that one is enough; two faults are a silence of the server during which the
client loses its connection, or an exit and a crash.

The two runs that end in a violation show disagreements between the code and
what its documentation says; they are described under `findings` in
`PROJECT.json`. What else was met without a run of its own: with the batch limit
within reach, `AnsweredOnce` fails too, since `q.slice(i)` keeps the last command
of the batch; a drain whose tick finds the connection down keeps the count of
active users (`drainQueue.ts:126`), so that the connection is never idle again;
and an idle connection can be destroyed with commands in its queue
(`connection/index.ts:584`).

Every property of a passing run has a mutant: an operator next to the definition
it replaces (marked *Mutant*) with a plausible bug, under which TLC finds that
property violated.

### Fairness

* `Hierarchy`: a deletion once begun goes on (the server's one thread does not
  stop in the middle of a command). No command need ever come.
* `AsyncTask`: every thread and the running call of the main thread go on. What
  `QueueServed` needs beyond this is in its antecedent, not in `Spec`: events
  keep coming, threads can be created, and the connections of the queue's
  workers succeed again and again. Without new events a dead worker is not
  replaced: that is how the code works.
* `Connection`: due callbacks run, the server answers, a lost socket comes
  back at last (`retry_strategy` never gives up; the bound on losses makes it stay).
  No fairness for issuing, idle destruction or hard disconnects. `Served` excludes
  a busy server: a batch that waits for a busy server when the connection is lost
  returns to the queue, but its promise is never settled and the queue is not
  drained again until the connection is replaced.
* `Updates`: due callbacks run, commands are executed and answered, lost connections come
  back. Nothing need fail and the data need not change; that failures and changes end is a bound
  of the run (a result that goes on changing is never caught up with, and `Subscribed` asks
  for nothing then).
* `Membership`: due callbacks run, queries are answered, a restarted worker comes to
  listen, the revalidation comes every five seconds, connected clients send
  heartbeats and those that do not grow old. Nobody need subscribe, and nothing need fail.
  `Forgotten` leaves out a client that only the manager's memory lists: the
  revalidation goes through what Redis lists.
* `Servers`: timers fire, replies and messages come in, clients connect again, a
  server that does not run is silent for eight seconds in the end. None for
  measurements ending in time, for faults or for new starts. `Found` and `Answered`
  are about clients that stay connected while the server keeps running.
* `Store`, `Traversal`, `Markers`, `FindIndex`: safety only, so none.

## 4. What is proved

`HierarchyProofs` (TLAPS, no assumption beyond those named in `Hierarchy`):

| Theorem | Says |
|---|---|
| `TypeCorrect` | `Spec => []TypeOK` |
| `AlwaysSymmetric` | the two vectors of every link agree and resolve |
| `EdgesAlwaysResolve` | no edge origin refers to a node that is gone |
| `DeletionNeverLoopsBack` | no activation of a deletion is entered twice or outlives its node |
| `HeadsAlwaysOrphans` | if no id is reserved, heads are the orphans and the root |

for any finite or infinite set of ids, any lists, any edges. `Reserved = {}` in the last
one is needed: setting the parents of an orphan to a list of nothing but
reserved ids takes it out of the heads and gives it no parent
(`hierarchy.c:934`).

The argument. None of these facts is inductive alone. Removing a node in
`DelReturn` keeps links symmetric only if the node was in the index and its
links are removed on both sides; that a node on the stack is still indexed needs
that a nested activation never deletes it; and that holds because `Enter` cuts
the links to the parents first: *a node on the stack has no parents*, so it is
nobody's child, so no deeper activation lists it among its children. `IInv`
joins `Sound(graph)` (the graph is well-typed, its links symmetric, its edges
resolve and the root is indexed), the types of `calls` and `before`, and
`Apart(graph, calls)`: every node on the stack is indexed and has no parents, no
activation from it upwards has it to do, and no two share it. `IInv` says no more
of the ids an activation still has `todo` than that they are ids, for the code
looks each up again (`ENOENT: there might have been a circular link`). `Inductive` shows `Spec => []IInv`; lemmas about the graph
operations (`Link`, `Unlink`, the four cross functions, `DelNode`) say what each
preserves, and the step lemmas apply them once per action. The heads are proved
on top of `IInv` by a second induction.

`AsyncTaskProofs` (TLAPS, from `SizeAssumption` alone: at
least one worker, rings of at least two slots):

| Theorem | Says |
|---|---|
| `TypeCorrect` | `Spec => []TypeOK`: indices stay in their rings |
| `OneConsumerAlways` | no two living threads read the same ring |
| `MissedOnlyWhenFull` | an event is dropped only after this call found every queue full |
| `RingIsQueue` | `Spec => Implements`: the rings refine the FIFO queues of `EventQueue` |

for any number of workers, rings of any length, any set of events, and
whatever `LateStore` is: a thread that ends before its id is stored breaks
service (`QueueServed`), but none of these. The proofs assume, as the model does,
that the reads and writes of one thread take effect in program order.

The argument. *One consumer*: `Consumers` adds that a living thread's queue is
claimed, by its id or by the main thread between `pthread_create` and the store;
`Create` needs a queue with neither. *Misses*: `Scanned` says that the queues
found full during a scan are those from the first tried to the one whose turn
it is, around the end; when the two meet these are all. *The queue*: `Knowledge`
is what each side may rely on between two of its steps although the other runs.
The main thread relies on the room it found (readers only make more), a worker on
the slot it copied staying at the head until it skips it (the writer never writes
the slot at `rd` of a ring that is not empty, and no other reader exists, which is
why `Consumers` is part of the induction). Three lemmas about the contents of a
ring, with the modular arithmetic of its indices, then give the refinement: a
write is invisible, a commit appends, a skip takes the head.

The second half of `HierarchyProofs`, from the same assumptions:

| Theorem | Says |
|---|---|
| `KeepsContract` | `Spec => Implements`: seen command by command, the hierarchy implements `NodeGraph` |

The argument. A command of `selva.modify` is one step on both sides; the lemmas
`CreateMaps`, `ParentsMaps`, `ChildrenMaps`, `DisconnectMaps`, `EdgeMaps` say what
it makes of the two relations, starting from the links and origins that each of the
functions of the code leaves. A deletion is many steps here and one there, the
last, so that the invariant must say at each point how far it has come: `RInv`
adds to `IInv` that, between the graph `was` at the beginning and the graph `g` now,
there is a set `bare` of nodes that have been entered (`Walk`). `Stripped`: those of
`bare` that have been left again are gone, or are the root and have no links; every link that is cut
was a link of one of them, every origin that has disappeared belonged to a node that is gone.
`Frames`: an activation still has on its list all the children that its node has, and
only children that it had, which is why the list of ids copied
at the beginning is good enough although the graph changes under the loop.
`Forced`: whatever has lost a parent is in `bare`, which
stays below `n`; so that at the end `bare` is closed under links and is all of what
is below. `Spared`, the deletion without `force`: a node is entered only when its parents
are in `bare` and those whose edges referred to it are gone, and one that has been left
behind without a parent was referred to at the beginning. TLC finds
`RInv` true in the 36,134 states of the run `hierarchy`. `NodeGraph!Below` is the least closed set,
not a recursive function, so that it can be reasoned about.

`TraversalProofs` (from `SizeAssumption` of `Traversal`):

| Theorem | Says |
|---|---|
| `LabelsIsolate` | a node carries the label of a running traversal only if that traversal has visited it |
| `AllCalledOnce` | no node is called back for twice, and at the end every node reached has been |
| `DetachedClosed` | a subtree that was found detachable is closed under parents, its head's aside, and under edges into it |

for any graph, any number of traversals and of colours, at any depth of nesting. The
invariant has four parts. `Shared`: the
running traversals have different colours, all in use and below the number handed out,
no label is ahead of the transaction, and a label of the present transaction has only
colours that were handed out; a colour that is
given is therefore on no node, whatever `Stamp` and `Recreate` did. `Walks`: for each
traversal, what it has met, what it has called back for and what its queue still holds
cover the links it has followed. `Verifies` and `Verified`: what the outer traversal of a verification has
approved of, node by node, the inner one reaches, and both together are what the verdict
needs. TLC finds it true in the 775,530 states of the run `traversal`.

`UpdatesProofs` (from the assumptions of `Updates`):

| Theorem | Says |
|---|---|
| `TypeCorrect` | `Spec => []TypeOK` |
| `PatchesFit` | a patch is applied only to the result it was made from, unless a result has come back and one was left unstored or without its patch |
| `NoWayBack` | as long as no result has come back (`returned`), the client never replaces a result by an older one |

for any number of results, failures, lost connections, messages and calls. Both are about the copies
of the cache, the one that is there and those that replies carry (`Copies`), and the pairs of versions that
a call is or may be made with (`Pairs`). *Patches*, two cases. While every result was stored with its patch
(`Clean`), the patch of each copy leads from the version that it names to the version of the copy (`Exact`),
so that the check of the client's version is enough; this holds because the version of the subscription is
that of the cache but for the steps between the two assignments (`JobExact`). Once a store has failed that is
false: a patch may be made from an older result than it names. But as long as no result has come back, versions
have an order, and no version anywhere, and no pair, falls into the gap between the result the patch was made from and
the one it makes (`Gaps`: `Rises`, `Skips`, `Misses`); a patch that names a version inside of its gap fits nobody.
*Order*: as long as no result has come back, `JobOrdered` and `ClientOrdered` put every version that is somewhere on
the way in one line: that of the client, the replies in the order of the calls (an answered
call is never behind an unanswered one), the cache, the job, the data. A failed evaluation counts as older than
every result (`Rank`). TLC finds all of this but the types true within the bounds of the run `updates`.

`ConnectionProofs` (from the assumptions of `Connection`):

| Theorem | Says |
|---|---|
| `TypeCorrect` | `Spec => []TypeOK` |
| `IdleAlwaysIdle` | the timer of an idle connection runs only without channels and drains |
| `NothingLostBelow` | `Spec /\ []Short => []NothingLost` |
| `AnsweredOnceBelow` | `Spec /\ []Short => AnsweredOnce` |
| `FewAreKept` | with fewer commands than a batch and no hard disconnect, `Spec => [](NothingLost /\ Short)` |

The first two hold without a condition (`IInv`: every channel and every drain is counted,
so that the count is zero only when there are none). The others do not: a queue that
reaches the length of a batch loses commands and repeats one, as the run `connection_limit` and section 3 show. `Short` says that the
queue is shorter than a batch (5000 commands); it is about one variable of the code, and whether
it holds depends on how fast commands come. `FewAreKept` shows that it can: as each command
is in one place at a time, fewer commands than `Limit` keep the queue `Short`. A hard disconnect may put a command that a late
answer has settled back on the queue, so that it is left out there, not in the other two.
Under `Short` the invariant `Below` holds: a batch is all of the queue and what is in flight is in
`queueBeingDrained` too (`Whole`), what is not answered is held (`Kept`), and
before any hard disconnect nothing is held twice (`Apart`). TLC finds `IInv`, and `Below` where `Short` has held,
true in the 34,248 states of the run `connection`.

`ServersProofs` (from the assumptions of `Servers`):

| Theorem | Says |
|---|---|
| `TypeCorrect` | `Spec => []TypeOK`, with it that a server is in the set exactly if its hash is whole |
| `KilledStaysDown` | a process destroyed while it ran is not started again |
| `LeftStaysOff` | a server that leaves and is off the registry does not come back |

for any set of clients and any bounds. `Typed` is inductive: besides the types it says that a child
and a pending restart exclude each other, and that set and hash agree, to which the batches
of `Write` and `Unlist` are the key.

`MarkersProofs` (from `MarkersAssumption`):

| Theorem | Says |
|---|---|
| `Invariance` | the inductive invariant `Inv` |
| `VisitedIsMarked` | `Spec => []Covered`: unless a refresh is due, what a marker visits carries it |
| `MarkedIsVisited` | `Spec => []NothingStray`: what carries a marker is visited by it, but for torn markers |
| `ChangesAreTold` | `Spec => Told`: no step changes what an up-to-date marker visits in silence |
| `ClearedIsRestored` | `Spec => Restored`: removing links takes no marker from a node that it still visits |

for any nodes, any number of markers of the seven directions, and any graph, cycles and
self loops included. Neither `Covered` nor `NothingStray` is inductive. A marker is cleared by following it from
the node at hand, and freed by following it from its root, so that one which has lost its way
through the middle would stay on what is behind. What keeps `NothingStray` is a stronger fact,
`Tied`: every node that carries the marker is reached from its root *through nodes that carry it*. Clearing from
a node takes with it all that was tied through that node; a new child or arc is marked only from a marked node; a refresh
ties everything that it marks. For markers over one step it says that the marked nodes are next to the root as
long as the root has the marker; a deletion may take it from the root first, which is what `torn` records. `Fresh` joins `Covered` to what
makes it last: as long as nothing is due, the root of a marker is there or its id
is registered as missing, so that its creation is noticed. `Leaving` is about the deletion: a node on
the C stack has no markers, no parents, and no children but those that its activation
has yet to deal with. So nothing is inherited from it, its own `crossRemove()` refreshes nothing, and the end of
`del_node()` cuts neither links nor markers.
`Told` and `Restored` are proved for each step from the same invariant.

`FindIndexProofs` (from `FindIndexAssumption`):

| Theorem | Says |
|---|---|
| `Invariance` | the inductive invariant `Inv` |
| `FoundIsUsable` | `Spec => []Usable`: a valid index holds what its query would find |
| `NoMarkerIsLost` | `Spec => []Owned`: no node carries the marker of a control block that does not index |

for any nodes, hints, keys, bounds and graphs. `Usable` speaks of what a traversal would visit, the code only ever of what is
marked, so that the two must be tied to each other: `Rooted`, the marked nodes are reached from the head through
marked nodes, and `Closed`, a link from a marked node leads to a marked one unless a subtree was grafted. Together they say that
the marked nodes are the visited ones. `Complete` and `Current` relate the results to the
marked nodes: those that match are listed, and what is listed matches under its present key or has left. `Watched` is
why the callback is never late: what is listed, and the head, are marked. While a command
is under way these hold but for the nodes and links it has yet to tell of, which are parameters of `Complete` and `Closed`;
each function of the code is a lemma that says which of them it takes away. A marker is freed after
clearing it from where it leads *now* (`discard_index()`), which finds all of its nodes by `Rooted` again.
A deletion keeps `Leaving`, as in `MarkersProofs`.

Model-checked only:

* Liveness under fairness, which is out of the prover's reach: `DeletionEnds`,
  `QueueServed`, `Served`, `Converges`, `RecordedIsServed`, `Found`, `Answered`, both `Forgotten`.
* `Membership`, of which all that is claimed is liveness.
* `EdgesAgree`, `Recoverable`, `Kept` and `HarmHasCause` of `Store`. A deletion, a compression, a
  save and a load are one command each there, written as recursive operators, which the prover does not
  take; what such a recursion computes is shown by induction over the data, which is out of its reach as
  well, and `harmed` is defined by what happens in the middle of it. The same deletion is proved about in
  `Hierarchy`, `Markers` and `FindIndex`, and the verification of a subtree in `Traversal`, where they are taken
  apart into steps.

## 5. Plan

Modelled: the hierarchy and its contract, the store with edges and detached
subtrees, traversals, markers, find indices, asynchronous tasks and their contract, the
connection, updates, membership, servers. Proved: the safety of all of these but for
the store and membership, and the two refinements. What could come next:

1. `Store`: `EdgesAgree`. `EdgeAdd` and `EdgeDelete` call themselves at most once, for
   the field that refers back; written as two operators they can be proved about, once the
   deletion is taken apart into steps as in the other modules.
2. `Recoverable`, with compression as the deletion that it is and the traversals of `Traversal`.
3. `Membership`: a type invariant, and that every reply that is awaited belongs to the worker that runs.

Modules that are proved about declare no RECURSIVE operator, take their
parameters as CONSTANTS with named assumptions, and have one action per
operation and invariants that are conjunctions of named parts.

### Not modelled

* *Queries, filter expressions, objects, aliases, containers, the query parser*:
  sequential code over data, of which each call is one command or less. The
  containers are sets and sequences in the modules that use them.
* *Schema and set operations of the client, timeseries, backups, start-up*:
  conversion of data, and the input and output of other services.
* *Triggers* in `sendUpdate` (they share only two counters with the evaluation of a
  subscription; a second one for a node leaves `beingProcessed` set, line 46) and *several
  subscription managers* (two that claim a subscription both read its previous owner
  before either writes, `updateRegistrySubscriptions.ts:20`).
* Vendored code (jemalloc, deflate and others), which is most of the repository's lines.

## 6. Running

In this directory, with TLC and TLAPS on the path:

    tlc -config hierarchy.cfg MCHierarchy.tla
    tlapm HierarchyProofs.tla
    tlapm AsyncTaskProofs.tla
    tlapm TraversalProofs.tla
    tlapm UpdatesProofs.tla
    tlapm ConnectionProofs.tla
    tlapm ServersProofs.tla
    tlapm MarkersProofs.tla
    tlapm FindIndexProofs.tla

The other modules with `MC` in front (`MCStore`, `MCTraversal`, `MCMarkers`, `MCFindIndex`,
`MCAsyncTask`, `MCConnection`, `MCUpdates`, `MCMembership`, `MCServers`) go with
the `.cfg` files in the same way; they hold the model values and small sets that
those refer to. Each of the proof modules is checked in one to four minutes. `store`, `markers`, `find_index`, `async` and `servers` take two to five minutes each on two cores.
