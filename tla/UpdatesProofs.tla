---------------------------- MODULE UpdatesProofs ----------------------------
(***************************************************************************)
(* A subscriber shows no patch applied to a result it was not made from,   *)
(* and no older result after a newer one: for any number of results, of    *)
(* failures, of lost connections, of messages and of calls on the way.     *)
(*                                                                         *)
(* Both rest on the copies of the cache, the one that is there and those   *)
(* that replies carry.  As long as every result was stored with its patch, *)
(* a copy's patch leads from the version it names to the copy's.  It need  *)
(* not once a store or a patch has failed; but as long as no result has    *)
(* returned, versions have an order, no version and no message falls into  *)
(* the gap that a patch bridges, and a patch that does not fit is told by  *)
(* its versions.                                                           *)
(***************************************************************************)
EXTENDS Updates, TLAPS

Diffs  == [old : Versions, new : Versions, from : Versions]
Caches == [value : Versions, version : Versions, diff : Diffs]
Real(v) == v \notin {None, Failed}

\* What is stored together: value and version, and patches of results only.
Sane(c) ==
  /\ c \in Caches /\ c.value = c.version
  /\ c.diff.from # None => Real(c.version) /\ Real(c.diff.new)

\* A version with, perhaps, the one that a patch leads from.
IsMessage(m) == m \in Seq(Versions) /\ Len(m) \in {1, 2} /\ (Len(m) = 2 => m[2] # None)

Messages == {m \in Seq(Versions) : IsMessage(m)}
Replies  == {r \in Seq(Caches) : r = <<>> \/ (Len(r) = 1 /\ Sane(r[1]))}
Requests == [versions : {v \in Seq(Versions) : v = <<>> \/ (IsMessage(v) /\ Len(v) = 2)},
             reply : Replies]
Clients  == [up : BOOLEAN, hears : BOOLEAN, version : Versions, cache : Versions \cup {Wrong}]
Subs     == [staged : BOOLEAN, busy : BOOLEAN, again : BOOLEAN, version : Versions]

-----------------------------------------------------------------------------
(* The inductive invariant *)

OriginTyped ==
  /\ result \in Results /\ changes \in Nat /\ marked \in BOOLEAN /\ events \in Nat
  /\ link \in {"opening", "open", "lost"} /\ returned \in BOOLEAN

JobTyped ==
  /\ sub \in Subs
  /\ job \in [pc : {"none", "get", "mark", "got", "prev", "store", "publish", "wait"},
              payload : Versions, from : Versions, prev : Versions]
  /\ job.pc # "none" => sub.busy

ClientTyped ==
  client \in Clients /\ messages \in Seq(Messages) /\ requests \in Seq(Requests)

\* What the job knows of the subscription and of the cache.
JobFits ==
  /\ job.pc \in {"get", "mark", "got"} => job.from = sub.version
  /\ job.pc \in {"mark", "got", "prev", "store", "publish"} => job.payload # None
  /\ job.pc \in {"prev", "store", "publish"} => job.payload = sub.version
  /\ job.pc = "prev" => job.from # None
  /\ job.pc = "store" /\ job.from # None => job.prev = cache.value
  /\ job.pc \in {"mark", "got", "prev", "store"} /\ job.payload = Failed =>
       job.from = None /\ cache.version = None
  /\ sub.version = None => cache.version = None

\* The copies of the cache, and the pairs of versions that a call can be made with.
Answered == {i \in DOMAIN requests : requests[i].reply # <<>>}
Copies   == {cache} \cup {requests[i].reply[1] : i \in Answered}
Pairs    == {messages[i] : i \in {j \in DOMAIN messages : Len(messages[j]) = 2}}
            \cup {requests[i].versions : i \in {j \in DOMAIN requests : requests[j].versions # <<>>}}

\* Every result was stored, with its patch.
Clean == mishaps \cap {"unstored", "unpatched"} = {}

\* Then the version of the subscription is that of the cache, but for the steps between
\* the assignment of the one and of the other; those know the version in between.
JobExact ==
  /\ job.pc \in {"none", "get", "mark", "got", "publish", "wait"} => cache.value = sub.version
  /\ job.pc \in {"prev", "store"} => cache.value = job.from

Exact(c) == c.diff.from # None => c.diff.old = c.diff.from /\ c.diff.new = c.version

\* How far a version is: an error comes before every result.
Rank(v) == IF v = Failed THEN None ELSE v

\* Of the calls, a first part is answered, with versions that do not fall; none is
\* below low or above high.
InOrder(calls, low, high) ==
  \A i \in DOMAIN calls :
    calls[i].reply # <<>> =>
      /\ low <= Rank(calls[i].reply[1].version) /\ Rank(calls[i].reply[1].version) <= high
      /\ \A j \in 1 .. i - 1 :
           /\ calls[j].reply # <<>>
           /\ Rank(calls[j].reply[1].version) <= Rank(calls[i].reply[1].version)

\* While results do not return, each has its place in one order: what the client has,
\* the replies on the way in the order of the calls, the cache, the job and the data.
ClientOrdered ==
  /\ client.version # Failed /\ client.version <= Rank(cache.version)
  /\ InOrder(requests, client.version, Rank(cache.version))

JobOrdered ==
  /\ Rank(cache.version) <= Rank(sub.version) /\ Rank(sub.version) <= result
  /\ job.pc \in {"mark", "got"} =>
       Rank(sub.version) <= Rank(job.payload) /\ Rank(job.payload) <= result
  /\ job.pc \in {"prev", "store"} /\ job.from # None =>
       Rank(cache.version) <= Rank(job.from) /\ Rank(job.from) < Rank(job.payload)

\* The gap of a patch: it begins at the result the patch was made from, which may be
\* older than the version it names, and ends at the result it makes.
Rises(c)     == /\ Rank(c.diff.old) <= Rank(c.diff.from) /\ Rank(c.diff.from) < c.diff.new
                /\ c.diff.new <= Rank(c.version)
Skips(c, v)  == Rank(v) <= Rank(c.diff.old) \/ c.diff.new <= Rank(v)
Misses(c, m) == Rank(m[1]) <= c.diff.new \/ c.diff.new <= Rank(m[2])

Gaps ==
  /\ \A c \in Copies : c.diff.from # None =>
       /\ Rises(c) /\ Skips(c, client.version)
       /\ \A d \in Copies : Skips(c, d.version)
       /\ \A m \in Pairs : Misses(c, m)
       /\ job.pc = "publish" /\ job.from # None => Misses(c, <<job.payload, job.from>>)
  /\ \A m \in Pairs : Rank(m[1]) <= Rank(sub.version)

Typed == OriginTyped /\ JobTyped /\ ClientTyped
Fits  == Clean => JobExact /\ \A c \in Copies : Exact(c)
Rising == ~returned => JobOrdered /\ ClientOrdered /\ Gaps

IInv == Typed /\ Sane(cache) /\ JobFits /\ PatchFits /\ Fits /\ Rising

-----------------------------------------------------------------------------
(* Calls and their replies *)

LEMMA Numbers ==
  /\ Versions \subseteq Nat /\ Results \subseteq Versions /\ None \in Versions
  /\ Failed \in Versions \ Results /\ Failed # None /\ None \notin Results
  /\ \A v \in Versions : Rank(v) \in Versions
  /\ \A v \in Results : Rank(v) = v
BY BoundsAssumption DEF Versions, Results, None, Failed, Rank

LEMMA ReplyTyped ==
  ASSUME NEW q \in Requests, q.reply # <<>>
  PROVE  Sane(q.reply[1])
BY DEF Requests, Replies

LEMMA AppendTyped ==
  ASSUME NEW S, NEW s \in Seq(S), NEW e \in S
  PROVE  /\ Append(s, e) \in Seq(S)
         /\ \A i \in DOMAIN Append(s, e) :
              (i \in DOMAIN s /\ Append(s, e)[i] = s[i]) \/ Append(s, e)[i] = e
OBVIOUS

LEMMA AppendInOrder ==
  ASSUME NEW calls \in Seq(Requests), NEW low, NEW high, InOrder(calls, low, high),
         NEW q \in Requests, q.reply = <<>>
  PROVE  InOrder(Append(calls, q), low, high)
BY DEF InOrder

LEMMA TailInOrder ==
  ASSUME NEW calls \in Seq(Requests), calls # <<>>, NEW low, NEW high,
         InOrder(calls, low, high)
  PROVE  /\ InOrder(Tail(calls), low, high)
         /\ LET first == Head(calls).reply
            IN  first # <<>> => InOrder(Tail(calls), Rank(first[1].version), high)
<1> DEFINE rest == Tail(calls)
<1>1. /\ rest \in Seq(Requests) /\ Len(rest) = Len(calls) - 1 /\ Len(calls) \in Nat \ {0}
      /\ \A i \in 1 .. Len(rest) : rest[i] = calls[i + 1] /\ i + 1 \in DOMAIN calls
      /\ DOMAIN rest = 1 .. Len(rest)
  OBVIOUS
<1>2. ASSUME NEW i \in DOMAIN rest, rest[i].reply # <<>>
      PROVE  /\ low <= Rank(rest[i].reply[1].version) /\ Rank(rest[i].reply[1].version) <= high
             /\ Rank(Head(calls).reply[1].version) <= Rank(rest[i].reply[1].version)
             /\ \A j \in 1 .. i - 1 :
                  /\ rest[j].reply # <<>>
                  /\ Rank(rest[j].reply[1].version) <= Rank(rest[i].reply[1].version)
  <2> HIDE DEF rest
  <2>1. calls[i + 1].reply # <<>> /\ rest[i] = calls[i + 1] /\ i \in Nat /\ i > 0
    BY <1>1, <1>2
  <2>2. 1 \in 1 .. (i + 1) - 1 /\ Head(calls) = calls[1]
    BY <1>1, <2>1
  <2>3. ASSUME NEW j \in 1 .. i - 1
        PROVE  rest[j] = calls[j + 1] /\ j + 1 \in 1 .. (i + 1) - 1
    BY <1>1, <1>2, <2>1
  <2> QED  BY <1>1, <2>1, <2>2, <2>3 DEF InOrder
<1> HIDE DEF rest
<1>3. InOrder(rest, low, high)
  BY <1>2 DEF InOrder
<1>4. InOrder(rest, Rank(Head(calls).reply[1].version), high)
  BY <1>2 DEF InOrder
<1> QED  BY <1>3, <1>4 DEF rest

LEMMA ExecuteInOrder ==
  ASSUME NEW calls \in Seq(Requests), NEW low, NEW c, Sane(c),
         low <= Rank(c.version), InOrder(calls, low, Rank(c.version)),
         NEW i \in DOMAIN calls, calls[i].reply = <<>>, \A j \in 1 .. i - 1 : calls[j].reply # <<>>
  PROVE  InOrder([calls EXCEPT ![i].reply = <<c>>], low, Rank(c.version))
<1> DEFINE new == [calls EXCEPT ![i].reply = <<c>>]
<1>1. /\ DOMAIN new = DOMAIN calls /\ DOMAIN calls = 1 .. Len(calls) /\ Len(calls) \in Nat
      /\ new[i].reply = <<c>> /\ <<c>> # <<>> /\ new[i].reply[1] = c
      /\ \A j \in DOMAIN calls : j # i => new[j] = calls[j]
  <2>1. /\ DOMAIN new = DOMAIN calls /\ new[i] = [calls[i] EXCEPT !.reply = <<c>>]
        /\ \A j \in DOMAIN calls : j # i => new[j] = calls[j]
    OBVIOUS
  <2>2. calls[i] \in Requests
    OBVIOUS
  <2>3. [calls[i] EXCEPT !.reply = <<c>>].reply = <<c>>
    BY <2>2 DEF Requests
  <2>4. DOMAIN calls = 1 .. Len(calls) /\ Len(calls) \in Nat /\ <<c>> # <<>> /\ <<c>>[1] = c
    OBVIOUS
  <2> HIDE DEF new
  <2> QED  BY <2>1, <2>3, <2>4
<1>2. Rank(c.version) \in Nat
  BY Numbers DEF Sane, Caches
<1>3. ASSUME NEW j \in DOMAIN new, new[j].reply # <<>>
      PROVE  /\ low <= Rank(new[j].reply[1].version)
             /\ Rank(new[j].reply[1].version) <= Rank(c.version)
             /\ \A k \in 1 .. j - 1 :
                  /\ new[k].reply # <<>>
                  /\ Rank(new[k].reply[1].version) <= Rank(new[j].reply[1].version)
  <2> HIDE DEF new
  <2>1. CASE j = i
    <3>1. \A k \in 1 .. i - 1 : k \in DOMAIN calls /\ k # i
      BY <1>1
    <3> QED  BY <1>1, <1>2, <2>1, <3>1 DEF InOrder
  <2>2. CASE j # i
    <3>1. calls[j].reply # <<>> /\ new[j] = calls[j] /\ j \in DOMAIN calls
      BY <1>1, <1>3, <2>2
    <3>2. ASSUME NEW k \in 1 .. j - 1  PROVE k \in DOMAIN calls /\ calls[k].reply # <<>>
      BY <1>1, <1>3, <3>1 DEF InOrder
    <3> QED  BY <1>1, <1>2, <3>1, <3>2 DEF InOrder
  <2> QED  BY <2>1, <2>2
<1> HIDE DEF new
<1>4. InOrder(new, low, Rank(c.version))
  BY <1>3 DEF InOrder
<1> QED  BY <1>4 DEF new

\* The copies of the cache and the pairs of versions, element by element.
LEMMA Elements ==
  /\ \A c : c \in Copies <=>
       c = cache \/ \E i \in DOMAIN requests : requests[i].reply # <<>> /\ c = requests[i].reply[1]
  /\ \A m : m \in Pairs <=>
       \/ \E i \in DOMAIN messages : Len(messages[i]) = 2 /\ m = messages[i]
       \/ \E i \in DOMAIN requests : requests[i].versions # <<>> /\ m = requests[i].versions
BY DEF Copies, Answered, Pairs

LEMMA ElementsNext ==
  /\ \A c : c \in Copies' <=>
       \/ c = cache'
       \/ \E i \in DOMAIN requests' : requests'[i].reply # <<>> /\ c = requests'[i].reply[1]
  /\ \A m : m \in Pairs' <=>
       \/ \E i \in DOMAIN messages' : Len(messages'[i]) = 2 /\ m = messages'[i]
       \/ \E i \in DOMAIN requests' : requests'[i].versions # <<>> /\ m = requests'[i].versions
BY DEF Copies, Answered, Pairs

LEMMA ElementsTyped ==
  ASSUME ClientTyped, Sane(cache)
  PROVE  /\ \A c \in Copies : Sane(c)
         /\ \A m \in Pairs : /\ m \in Seq(Versions) /\ Len(m) = 2 /\ m[2] # None
                             /\ m[1] \in Versions /\ m[2] \in Versions
<1>1. ASSUME NEW c \in Copies PROVE Sane(c)
  <2>1. CASE c = cache  BY <2>1
  <2>2. ASSUME NEW i \in DOMAIN requests, requests[i].reply # <<>>, c = requests[i].reply[1]
        PROVE  Sane(c)
    <3>1. requests[i] \in Requests
      BY DEF ClientTyped
    <3> QED  BY <2>2, <3>1, ReplyTyped
  <2> QED  BY <1>1, <2>1, <2>2, Elements
<1>2. ASSUME NEW m \in Pairs PROVE IsMessage(m) /\ Len(m) = 2
  <2>1. ASSUME NEW i \in DOMAIN messages, Len(messages[i]) = 2, m = messages[i]
        PROVE  IsMessage(m) /\ Len(m) = 2
    <3>1. messages[i] \in Messages
      BY DEF ClientTyped
    <3> QED  BY <2>1, <3>1 DEF Messages
  <2>2. ASSUME NEW i \in DOMAIN requests, requests[i].versions # <<>>, m = requests[i].versions
        PROVE  IsMessage(m) /\ Len(m) = 2
    <3>1. requests[i] \in Requests
      BY DEF ClientTyped
    <3> QED  BY <2>2, <3>1 DEF Requests
  <2> QED  BY <1>2, <2>1, <2>2, Elements
<1>3. ASSUME NEW m \in Pairs
      PROVE  m \in Seq(Versions) /\ Len(m) = 2 /\ m[2] # None /\ m[1] \in Versions /\ m[2] \in Versions
  <2>1. m \in Seq(Versions) /\ Len(m) = 2 /\ m[2] # None
    BY <1>2, <1>3 DEF IsMessage
  <2>2. 1 \in DOMAIN m /\ 2 \in DOMAIN m
    BY <2>1
  <2>3. \A i \in DOMAIN m : m[i] \in Versions
    BY <2>1
  <2> QED  BY <2>1, <2>2, <2>3
<1> QED  BY <1>1, <1>3

\* While results do not return, no copy is newer than the cache.
LEMMA CopiesOrdered ==
  ASSUME ClientOrdered, ClientTyped, NEW c \in Copies, Sane(cache)
  PROVE  client.version <= Rank(c.version) /\ Rank(c.version) <= Rank(cache.version)
<1>1. Rank(cache.version) \in Nat
  BY Numbers DEF Sane, Caches
<1>2. CASE c = cache
  BY <1>1, <1>2 DEF ClientOrdered
<1>3. CASE c # cache
  <2>1. PICK i \in DOMAIN requests : requests[i].reply # <<>> /\ c = requests[i].reply[1]
    BY <1>3, Elements
  <2> QED  BY <2>1 DEF ClientOrdered, InOrder
<1> QED  BY <1>2, <1>3

-----------------------------------------------------------------------------
(* Initial states *)

LEMMA InitIInv == Init => IInv
<1> SUFFICES ASSUME Init PROVE IInv
  OBVIOUS
<1> USE Numbers
<1>1. OriginTyped
  <2>1. 1 \in Results
    BY BoundsAssumption DEF Results
  <2>2. marked \in BOOLEAN /\ returned \in BOOLEAN
    BY Zenon DEF Init
  <2>3. result = 1 /\ changes \in Nat /\ events \in Nat /\ link \in {"opening", "open", "lost"}
    BY DEF Init, Added
  <2> QED  BY <2>1, <2>2, <2>3 DEF OriginTyped
<1>2. JobTyped
  BY DEF Init, Added, JobTyped, Subs, NoJob
<1>3. ClientTyped
  <2>1. client.hears \in BOOLEAN
    BY BoundsAssumption, Zenon DEF Init, Started
  <2>2. client \in Clients
    BY <2>1 DEF Init, Started, Clients
  <2>3. [versions |-> <<>>, reply |-> <<>>] \in Requests
    BY DEF Requests, Replies
  <2>4. requests \in Seq(Requests)
    BY <2>3 DEF Init, Started
  <2>5. messages \in Seq(Messages)
    BY DEF Init
  <2> QED  BY <2>2, <2>4, <2>5 DEF ClientTyped
<1>4. Sane(cache) /\ cache.diff.from = None /\ cache.value = None /\ cache.version = None
  BY DEF Init, Added, Sane, Caches, Diffs, NoDiff
<1>5. JobFits /\ PatchFits /\ JobExact
  BY <1>4 DEF Init, Added, Started, JobFits, PatchFits, JobExact, NoJob
<1>6. Copies = {cache} /\ Pairs = {}
  BY DEF Init, Started, Copies, Answered, Pairs
<1>7. JobOrdered
  <2>1. Rank(cache.version) = 0 /\ Rank(sub.version) = 0 /\ result = 1 /\ job.pc = "none"
    BY <1>4 DEF Init, Added, Rank, NoJob, None
  <2> QED  BY <2>1 DEF JobOrdered
<1>8. ClientOrdered
  <2>1. InOrder(requests, client.version, Rank(cache.version))
    BY DEF Init, Started, InOrder
  <2>2. Rank(cache.version) = 0 /\ client.version = 0 /\ Failed # 0
    BY <1>4 DEF Init, Started, Rank, None
  <2> QED  BY <2>1, <2>2 DEF ClientOrdered
<1>9. Fits /\ Gaps
  BY <1>4, <1>5, <1>6 DEF Fits, Exact, Gaps
<1> QED  BY <1>1, <1>2, <1>3, <1>4, <1>5, <1>7, <1>8, <1>9 DEF IInv, Typed, Rising

-----------------------------------------------------------------------------
(* The origin and the manager *)

\* What a step of the origin or of the manager has to show that leaves the cache, the
\* client and its calls alone.  It may publish the job's versions.
LEMMA ManagerStep ==
  ASSUME IInv, UNCHANGED <<cache, client, requests>>, OriginTyped', JobTyped', JobFits',
         messages' \in Seq(Messages), mishaps \subseteq mishaps', returned => returned',
         Clean' => JobExact', ~returned' => JobOrdered', job' = job \/ job'.pc # "publish",
         ~returned => Rank(sub.version) <= Rank(sub'.version),
         \A m \in Pairs' :
           \/ m \in Pairs
           \/ m = <<job.payload, job.from>> /\ job.pc = "publish" /\ job.from # None
  PROVE  IInv'
<1> USE Numbers
<1>1. Copies' = Copies /\ ClientTyped' /\ Sane(cache') /\ PatchFits'
  BY DEF IInv, Typed, Copies, Answered, ClientTyped, PatchFits
<1>2. Fits'
  BY <1>1 DEF IInv, Fits, Clean, Exact
<1>3. ASSUME ~returned' PROVE ClientOrdered' /\ Gaps'
  <2>1. JobOrdered /\ ClientOrdered /\ Gaps /\ JobFits /\ ~returned
    BY <1>3 DEF IInv, Rising
  <2>2. ClientOrdered'
    BY <2>1 DEF ClientOrdered
  <2>3. ASSUME NEW c \in Copies', c.diff.from # None
        PROVE  /\ Rises(c) /\ Skips(c, client'.version)
               /\ \A d \in Copies' : Skips(c, d.version)
               /\ \A m \in Pairs' : Misses(c, m)
               /\ job'.pc = "publish" /\ job'.from # None => Misses(c, <<job'.payload, job'.from>>)
    BY <1>1, <2>1, <2>3 DEF Gaps
  <2>4. ASSUME NEW m \in Pairs' PROVE Rank(m[1]) <= Rank(sub'.version)
    <3>1. Rank(m[1]) <= Rank(sub.version) /\ Rank(m[1]) \in Nat
      <4>1. CASE m \in Pairs
        BY <2>1, <4>1, ElementsTyped DEF Gaps, IInv, Typed
      <4>2. CASE m = <<job.payload, job.from>> /\ job.pc = "publish"
        <5>1. m[1] = job.payload
          BY <4>2
        <5>2. job.payload = sub.version /\ sub.version \in Versions
          BY <2>1, <4>2 DEF JobFits, IInv, Typed, JobTyped, Subs
        <5>3. Rank(sub.version) \in Nat
          BY <5>2
        <5> QED  BY <5>1, <5>2, <5>3
      <4> QED  BY <2>4, <4>1, <4>2
    <3>2. Rank(sub.version) \in Nat /\ Rank(sub'.version) \in Nat
      BY DEF IInv, Typed, JobTyped, Subs
    <3> QED  BY <2>1, <3>1, <3>2
  <2> QED  BY <2>2, <2>3, <2>4 DEF Gaps
<1> QED  BY <1>1, <1>2, <1>3 DEF IInv, Typed, Rising

LEMMA OriginTypes ==
  ASSUME IInv, Change \/ Psubscribe \/ Cut
  PROVE  /\ OriginTyped' /\ (~returned' => ~returned /\ result' >= result)
         /\ mishaps \subseteq mishaps'
<1> USE Numbers
<1>1. OriginTyped /\ result \in Nat /\ result >= result
  BY DEF IInv, Typed, OriginTyped
<1>2. CASE Change
  <2>1. result' \in Results /\ result' \in Nat /\ changes' \in Nat
    BY <1>1, <1>2 DEF Change, OriginTyped
  <2>2. marked' \in {marked, FALSE} /\ returned' = (returned \/ result' < result) /\ link' = link
    BY <1>2 DEF Change
  <2>3. marked' \in BOOLEAN /\ returned' \in BOOLEAN
    BY <1>1, <2>2, Zenon DEF OriginTyped
  <2>4. events' \in Nat /\ mishaps \subseteq mishaps'
    BY <1>1, <1>2 DEF Change, OriginTyped
  <2>5. ~returned' => ~returned /\ ~(result' < result)
    BY <2>2, Zenon
  <2> QED  BY <1>1, <2>1, <2>2, <2>3, <2>4, <2>5 DEF OriginTyped
<1>3. CASE Psubscribe
  BY <1>1, <1>3 DEF Psubscribe, OriginTyped, ghosts
<1>4. CASE Cut
  <2>1. marked' \in {marked, FALSE}
    BY <1>4 DEF Cut
  <2>2. marked' \in BOOLEAN
    BY <1>1, <2>1, Zenon DEF OriginTyped
  <2> QED  BY <1>1, <1>4, <2>2 DEF Cut, Lose, OriginTyped
<1> QED  BY <1>2, <1>3, <1>4

LEMMA OriginIInv == ASSUME IInv, Change \/ Psubscribe \/ Cut PROVE IInv'
<1> USE Numbers
<1>1. UNCHANGED <<sub, job, cache, messages, client, requests>>
  <2>1. CASE Change      BY <2>1 DEF Change, manager
  <2>2. CASE Psubscribe  BY <2>2 DEF Psubscribe, manager
  <2>3. CASE Cut         BY <2>3 DEF Cut, manager
  <2> QED  BY <2>1, <2>2, <2>3
<1>2. OriginTyped' /\ (~returned' => ~returned /\ result' >= result) /\ mishaps \subseteq mishaps'
  BY OriginTypes
<1>3. JobTyped' /\ JobFits' /\ messages' \in Seq(Messages) /\ Pairs' = Pairs
  <2>1. JobTyped' /\ JobFits'
    BY <1>1 DEF IInv, Typed, JobTyped, JobFits
  <2> QED  BY <1>1, <2>1 DEF IInv, Typed, ClientTyped, Pairs
<1>4. Clean' => JobExact'
  <2>1. Clean' => JobExact
    BY <1>2 DEF IInv, Fits, Clean
  <2> QED  BY <1>1, <2>1 DEF JobExact
<1>5. ~returned' => JobOrdered'
  <2> SUFFICES ASSUME ~returned' PROVE JobOrdered'
    OBVIOUS
  <2>1. JobOrdered /\ result' >= result
    BY <1>2 DEF IInv, Rising
  <2>2. result \in Nat /\ result' \in Nat /\ sub.version \in Versions /\ job.payload \in Versions
    BY <1>2 DEF IInv, Typed, OriginTyped, JobTyped, Subs
  <2>3. Rank(sub.version) \in Nat /\ Rank(job.payload) \in Nat
    BY <2>2
  <2>4. Rank(sub.version) <= result' /\ (Rank(job.payload) <= result => Rank(job.payload) <= result')
    BY <2>1, <2>2, <2>3 DEF JobOrdered
  <2> QED  BY <1>1, <2>1, <2>4 DEF JobOrdered
<1>6. Rank(sub.version) <= Rank(sub'.version)
  <2>1. Rank(sub.version) \in Nat
    BY DEF IInv, Typed, JobTyped, Subs
  <2> QED  BY <1>1, <2>1
<1>7. returned => returned'
  BY <1>2
<1>8. UNCHANGED <<cache, client, requests>> /\ job' = job
  BY <1>1
<1> QED  BY <1>2, <1>3, <1>4, <1>5, <1>6, <1>7, <1>8, ManagerStep

\* The same for a step of the manager, with what all of them leave.
LEMMA JobStep ==
  ASSUME IInv, UNCHANGED <<result, returned, cache, client, requests>>,
         JobTyped', JobFits', mishaps \subseteq mishaps', Clean' => JobExact',
         ~returned => JobOrdered', ~returned => Rank(sub.version) <= Rank(sub'.version),
         job' = job \/ job'.pc # "publish", OriginTyped', messages' = messages
  PROVE  IInv'
<1>1. Pairs' = Pairs /\ messages' \in Seq(Messages)
  BY DEF Pairs, IInv, Typed, ClientTyped
<1> QED  BY <1>1, ManagerStep

\* Begin() starts with what has been stored, and the ends leave it.
LEMMA BeginFits ==
  ASSUME JobTyped, JobFits, job.pc \in {"none", "wait"}, UNCHANGED <<cache, result>>,
         NEW s \in Subs, s.version = sub.version, Begin(s)
  PROVE  /\ JobTyped' /\ JobFits' /\ job'.pc = "get" /\ sub'.version = sub.version
         /\ (JobExact => JobExact') /\ (JobOrdered => JobOrdered')
<1>1. /\ job' = [pc |-> "get", payload |-> None, from |-> s.version, prev |-> None]
      /\ sub' = [s EXCEPT !.busy = TRUE]
  BY DEF Begin, NoJob
<1>2. sub' \in Subs /\ sub'.version = sub.version /\ sub'.busy
  BY <1>1 DEF Subs
<1>3. JobTyped'
  BY <1>1, <1>2, Numbers DEF JobTyped, Subs
<1>4. JobFits'
  BY <1>1, <1>2 DEF JobFits, JobTyped
<1>5. (JobExact => JobExact') /\ (JobOrdered => JobOrdered')
  BY <1>1, <1>2 DEF JobExact, JobOrdered
<1> QED  BY <1>1, <1>2, <1>3, <1>4, <1>5

\* The ends of sendUpdate(): done, or waiting for the next one.
LEMMA EndFits ==
  ASSUME JobTyped, JobFits, UNCHANGED <<cache, result>>, sub' \in Subs,
         sub'.version = sub.version, job' = NoJob \/ (job' = [NoJob EXCEPT !.pc = "wait"] /\ sub'.busy)
  PROVE  /\ JobTyped' /\ JobFits' /\ job'.pc \in {"none", "wait"}
         /\ (cache.value = sub.version => JobExact') /\ (JobOrdered => JobOrdered')
<1>1. \/ job' = [pc |-> "none", payload |-> None, from |-> None, prev |-> None]
      \/ job' = [pc |-> "wait", payload |-> None, from |-> None, prev |-> None] /\ sub'.busy
  BY DEF NoJob
<1>2. JobTyped' /\ job'.pc \in {"none", "wait"}
  BY <1>1, Numbers DEF JobTyped
<1>3. JobFits'
  BY <1>1 DEF JobFits
<1>4. (cache.value = sub.version => JobExact') /\ (JobOrdered => JobOrdered')
  BY <1>1 DEF JobExact, JobOrdered
<1> QED  BY <1>2, <1>3, <1>4

LEMMA FinishEnds ==
  ASSUME JobTyped, job.pc # "none", Finish
  PROVE  /\ sub' \in Subs /\ sub'.version = sub.version
         /\ job' = NoJob \/ (job' = [NoJob EXCEPT !.pc = "wait"] /\ sub'.busy)
BY DEF Finish, JobTyped, Subs

\* What a step of the manager starts from.
LEMMA Facts ==
  ASSUME IInv
  PROVE  /\ OriginTyped /\ JobTyped /\ JobFits /\ ClientTyped /\ Sane(cache) /\ sub \in Subs
         /\ (Clean => JobExact) /\ (~returned => JobOrdered /\ ClientOrdered /\ Gaps)
         /\ result \in Nat /\ Rank(result) = result /\ result # None /\ result # Failed
         /\ Rank(sub.version) \in Nat /\ Rank(sub.version) <= Rank(sub.version)
         /\ Rank(job.payload) \in Nat /\ Rank(job.from) \in Nat /\ Rank(cache.version) \in Nat
         /\ \A m : mishaps' = mishaps \cup m => mishaps \subseteq mishaps' /\ (Clean' => Clean)
<1>1. /\ OriginTyped /\ JobTyped /\ JobFits /\ ClientTyped /\ Sane(cache) /\ sub \in Subs
      /\ (Clean => JobExact) /\ (~returned => JobOrdered /\ ClientOrdered /\ Gaps)
  BY DEF IInv, Typed, JobTyped, Fits, Rising
<1>2. result \in Nat /\ Rank(result) = result /\ result # None /\ result # Failed
  BY <1>1, Numbers DEF OriginTyped
<1>3. /\ sub.version \in Versions /\ job.payload \in Versions /\ job.from \in Versions
      /\ cache.version \in Versions
  BY <1>1 DEF Subs, JobTyped, Sane, Caches
<1>4. /\ Rank(sub.version) \in Nat /\ Rank(job.payload) \in Nat /\ Rank(job.from) \in Nat
      /\ Rank(cache.version) \in Nat
  BY <1>3, Numbers
<1>5. Rank(sub.version) <= Rank(sub.version)
  BY <1>4
<1>6. \A m : mishaps' = mishaps \cup m => mishaps \subseteq mishaps' /\ (Clean' => Clean)
  BY DEF Clean
<1> QED  BY <1>1, <1>2, <1>4, <1>5, <1>6

\* An event, and every subscription of an origin that has come back.
LEMMA StagedIInv == ASSUME IInv, Event \/ Relink PROVE IInv'
<1>1. /\ UNCHANGED <<result, marked, changes, returned, job, cache, messages, client, requests, mishaps>>
      /\ sub' = [sub EXCEPT !.staged = TRUE]
  BY DEF Event, Relink, ghosts
<1>2. events' \in Nat /\ link' \in {"opening", "open", "lost"}
  <2>1. CASE Event   BY <2>1, Facts DEF Event, OriginTyped
  <2>2. CASE Relink  BY <2>2, Facts DEF Relink, OriginTyped
  <2> QED  BY <2>1, <2>2
<1>3. OriginTyped'
  BY <1>1, <1>2, Facts DEF OriginTyped
<1>4. sub' \in Subs /\ sub'.version = sub.version /\ sub'.busy = sub.busy
  BY <1>1, Facts DEF Subs
<1>5. JobTyped' /\ JobFits'
  BY <1>1, <1>4, Facts DEF JobTyped, JobFits
<1>6. (Clean' => JobExact') /\ (~returned => JobOrdered')
  BY <1>1, <1>4, Facts DEF JobExact, JobOrdered, Clean
<1> QED  BY <1>1, <1>3, <1>4, <1>5, <1>6, Facts, JobStep

LEMMA BeginIInv == ASSUME IInv, SendUpdates \/ Again PROVE IInv'
<1>1. UNCHANGED <<result, marked, changes, events, link, returned, cache, messages, client,
                  requests, mishaps>>
  BY DEF SendUpdates, Again, origin, ghosts
<1>2. OriginTyped' /\ (Clean' => JobExact)
  BY <1>1, Facts DEF OriginTyped, Clean
\* It begins now.
<1>3. ASSUME NEW s \in Subs, s.version = sub.version, job.pc \in {"none", "wait"}, Begin(s)
      PROVE  IInv'
  <2>1. /\ JobTyped' /\ JobFits' /\ job'.pc = "get" /\ sub'.version = sub.version
        /\ (JobExact => JobExact') /\ (JobOrdered => JobOrdered')
    BY <1>1, <1>3, Facts, BeginFits
  <2> QED  BY <1>1, <1>2, <2>1, Facts, JobStep
<1>4. CASE Again
  <2>1. [sub EXCEPT !.again = FALSE] \in Subs /\ [sub EXCEPT !.again = FALSE].version = sub.version
    BY Facts DEF Subs
  <2> QED  BY <1>3, <1>4, <2>1 DEF Again
<1>5. CASE SendUpdates
  <2> DEFINE s == [sub EXCEPT !.staged = FALSE]
  <2>1. s \in Subs /\ s.version = sub.version /\ s.busy = sub.busy
    BY Facts DEF Subs
  <2>2. CASE sub.busy
    <3>1. sub' = [s EXCEPT !.again = TRUE] /\ job' = job
      BY <1>5, <2>2 DEF SendUpdates
    <3> HIDE DEF s
    <3>2. sub' \in Subs /\ sub'.version = sub.version /\ sub'.busy
      BY <2>1, <2>2, <3>1 DEF Subs
    <3>3. JobTyped' /\ JobFits'
      BY <1>1, <3>1, <3>2, Facts DEF JobTyped, JobFits
    <3>4. (Clean' => JobExact') /\ (~returned => JobOrdered')
      BY <1>1, <1>2, <3>1, <3>2, Facts DEF JobExact, JobOrdered
    <3> QED  BY <1>1, <1>2, <3>1, <3>2, <3>3, <3>4, Facts, JobStep
  <2>3. CASE ~sub.busy
    <3>1. Begin(s) /\ job.pc = "none"
      BY <1>5, <2>3, Facts DEF SendUpdates, JobTyped
    <3> HIDE DEF s
    <3> QED  BY <1>3, <2>1, <3>1
  <2> QED  BY <2>2, <2>3
<1> QED  BY <1>4, <1>5

\* The evaluation of the query.
LEMMA EvaluateIInv == ASSUME IInv, Read \/ Mark \/ MarkFails \/ ReadFails PROVE IInv'
<1> USE Facts
<1>1. /\ UNCHANGED <<result, changes, events, link, returned, cache, messages, client, requests>>
      /\ marked' = marked \/ marked' = TRUE
  BY DEF Read, Mark, MarkFails, ReadFails, origin
<1>2. \E m : mishaps' = mishaps \cup m
  <2>1. CASE Read \/ Mark
    <3>1. mishaps' = mishaps \cup {}
      BY <2>1 DEF Read, Mark, ghosts
    <3> QED  BY <3>1
  <2>2. CASE MarkFails  BY <2>2 DEF MarkFails, Err
  <2>3. CASE ReadFails
    <3>1. mishaps' = mishaps \cup (IF Due' THEN {} ELSE {"failed"})
      BY <2>3 DEF ReadFails, Err
    <3> QED  BY <3>1
  <2> QED  BY <2>1, <2>2, <2>3
<1>3. mishaps \subseteq mishaps' /\ (Clean' => JobExact)
  BY <1>2
<1>4. OriginTyped'
  <2>1. marked' \in BOOLEAN
    BY Zenon, <1>1 DEF OriginTyped
  <2> QED  BY <1>1, <2>1 DEF OriginTyped
<1>5. ASSUME JobTyped', JobFits', Clean' => JobExact', ~returned => JobOrdered',
             sub'.version = sub.version, job'.pc # "publish"
      PROVE  IInv'
  BY <1>1, <1>3, <1>4, <1>5, JobStep
<1>6. CASE Read
  <2>1. job.pc = "get" /\ job' = [job EXCEPT !.pc = "mark", !.payload = result] /\ sub' = sub
    BY <1>6 DEF Read
  <2>2. result \in Versions
    BY Numbers DEF OriginTyped
  <2>3. JobTyped' /\ job'.pc = "mark" /\ job'.payload = result /\ job'.from = job.from
    BY <2>1, <2>2 DEF JobTyped
  <2>4. JobFits' /\ (Clean' => JobExact')
    BY <1>1, <1>3, <2>1, <2>3 DEF JobFits, JobExact
  <2>5. ~returned => JobOrdered'
    BY <1>1, <2>1, <2>3 DEF JobOrdered
  <2> QED  BY <1>5, <2>1, <2>3, <2>4, <2>5
<1>7. CASE Mark \/ MarkFails
  <2>1. job.pc = "mark" /\ job' = [job EXCEPT !.pc = "got"] /\ sub' = sub
    BY <1>7 DEF Mark, MarkFails
  <2>2. JobTyped' /\ job'.pc = "got" /\ job'.payload = job.payload /\ job'.from = job.from
    BY <2>1 DEF JobTyped
  <2>3. JobFits' /\ (Clean' => JobExact')
    BY <1>1, <1>3, <2>1, <2>2 DEF JobFits, JobExact
  <2>4. ~returned => JobOrdered'
    BY <1>1, <2>1, <2>2 DEF JobOrdered
  <2> QED  BY <1>5, <2>1, <2>2, <2>3, <2>4
<1>8. CASE ReadFails
  <2>1. job.pc = "get" /\ job.from = sub.version
    BY <1>8 DEF ReadFails, JobFits
  <2>2. CASE job.from # None
    <3>1. job' = NoJob /\ sub' = [sub EXCEPT !.busy = FALSE]
      BY <1>8, <2>2 DEF ReadFails
    <3>2. sub' \in Subs /\ sub'.version = sub.version
      BY <3>1 DEF Subs
    <3>3. /\ JobTyped' /\ JobFits' /\ job'.pc \in {"none", "wait"}
          /\ (cache.value = sub.version => JobExact') /\ (JobOrdered => JobOrdered')
      BY <1>1, <3>1, <3>2, EndFits
    <3>4. Clean' => JobExact'
      BY <1>3, <2>1, <3>3 DEF JobExact
    <3> QED  BY <1>5, <3>2, <3>3, <3>4
  <2>3. CASE job.from = None
    <3>1. job' = [job EXCEPT !.pc = "got", !.payload = Failed] /\ sub' = sub
      BY <1>8, <2>3 DEF ReadFails
    <3>2. JobTyped' /\ job'.pc = "got" /\ job'.payload = Failed /\ job'.from = None
      BY <2>1, <2>3, <3>1, Numbers DEF JobTyped
    <3>3. JobFits' /\ (Clean' => JobExact')
      BY <1>1, <1>3, <2>1, <2>3, <3>1, <3>2, Numbers DEF JobFits, JobExact
    <3>4. ~returned => JobOrdered'
      <4>1. Rank(Failed) = 0 /\ Rank(sub'.version) = 0
        BY <2>1, <2>3, <3>1 DEF Rank, None
      <4> QED  BY <1>1, <3>1, <3>2, <4>1 DEF JobOrdered
    <3> QED  BY <1>5, <3>1, <3>2, <3>3, <3>4
  <2> QED  BY <2>2, <2>3
<1> QED  BY <1>6, <1>7, <1>8

\* What is done with the result: nothing, or it becomes the version of the
\* subscription and the result before is read.
LEMMA DecideIInv ==
  ASSUME IInv, Unchanged \/ Changed \/ ReadPrev \/ ReadPrevFails PROVE IInv'
<1> USE Facts
<1>1. UNCHANGED <<origin, cache, messages, client, requests>>
  BY DEF Unchanged, Changed, ReadPrev, ReadPrevFails
<1>2. OriginTyped' /\ result' = result /\ returned' = returned
  BY <1>1 DEF origin, OriginTyped
<1>3. mishaps \subseteq mishaps' /\ (Clean' => JobExact)
  <2>1. CASE Unchanged \/ Changed \/ ReadPrev
    <3>1. mishaps' = mishaps
      BY <2>1 DEF Unchanged, Changed, ReadPrev, ghosts
    <3> QED  BY <3>1 DEF Clean
  <2>2. CASE ReadPrevFails  BY <2>2 DEF ReadPrevFails, Err
  <2> QED  BY <2>1, <2>2
<1>4. ASSUME JobTyped', JobFits', Clean' => JobExact', ~returned => JobOrdered',
             ~returned => Rank(sub.version) <= Rank(sub'.version), job'.pc # "publish"
      PROVE  IInv'
  BY <1>1, <1>2, <1>3, <1>4, JobStep
<1>5. CASE Unchanged
  <2>1. job.pc = "got" /\ Finish
    BY <1>5 DEF Unchanged
  <2>2. /\ sub' \in Subs /\ sub'.version = sub.version
        /\ job' = NoJob \/ (job' = [NoJob EXCEPT !.pc = "wait"] /\ sub'.busy)
    BY <2>1, FinishEnds
  <2>3. /\ JobTyped' /\ JobFits' /\ job'.pc \in {"none", "wait"}
        /\ (cache.value = sub.version => JobExact') /\ (JobOrdered => JobOrdered')
    BY <1>1, <1>2, <2>2, EndFits
  <2>4. Clean' => JobExact'
    BY <1>3, <2>1, <2>3 DEF JobExact
  <2> QED  BY <1>4, <2>2, <2>3, <2>4
<1>6. CASE Changed
  <2> DEFINE at == IF job.from = None THEN "store" ELSE "prev"
  <2>1. /\ job.pc = "got" /\ job.from = sub.version /\ job.from # job.payload
        /\ sub' = [sub EXCEPT !.version = job.payload] /\ job' = [job EXCEPT !.pc = at]
    BY <1>6 DEF Changed, JobFits
  <2>2. /\ sub' \in Subs /\ sub'.version = job.payload /\ sub'.busy = sub.busy
        /\ JobTyped' /\ job'.pc = at /\ job'.payload = job.payload /\ job'.from = job.from
    BY <2>1 DEF JobTyped, Subs
  <2>3. JobFits'
    BY <1>1, <2>1, <2>2 DEF JobFits
  <2>4. Clean' => JobExact'
    BY <1>1, <1>3, <2>1, <2>2 DEF JobExact
  <2>5. ASSUME ~returned
        PROVE  JobOrdered' /\ Rank(sub.version) <= Rank(sub'.version)
    <3>1. /\ Rank(cache.version) <= Rank(job.from) /\ Rank(job.from) <= Rank(job.payload)
          /\ Rank(job.payload) <= result
      BY <2>1, <2>5 DEF JobOrdered
    <3>2. job.from # None => Rank(job.from) < Rank(job.payload)
      <4>1. job.payload # None /\ (job.payload = Failed => job.from = None)
        BY <2>1 DEF JobFits
      <4>2. job.payload \in Nat /\ job.from \in Nat
        BY Numbers DEF JobTyped
      <4> QED  BY <2>1, <3>1, <4>1, <4>2 DEF Rank, None
    <3>3. Rank(cache.version) <= Rank(job.payload)
      BY <3>1
    <3> QED  BY <1>1, <1>2, <2>1, <2>2, <3>1, <3>2, <3>3 DEF JobOrdered
  <2> QED  BY <1>4, <2>2, <2>3, <2>4, <2>5
<1>7. CASE ReadPrev \/ ReadPrevFails
  <2>1. job.pc = "prev" /\ sub' = sub /\ job.from # None /\ cache.value \in Versions
    BY <1>7 DEF ReadPrev, ReadPrevFails, JobFits, Sane, Caches
  <2>2. \/ job' = [job EXCEPT !.pc = "store", !.from = None]
             /\ (cache.value = None \/ ReadPrevFails)
        \/ job' = [job EXCEPT !.pc = "store", !.prev = cache.value]
    BY <1>7 DEF ReadPrev, ReadPrevFails
  <2>3. /\ JobTyped' /\ job'.pc = "store" /\ job'.payload = job.payload
        /\ \/ job'.from = None /\ (cache.value = None \/ ReadPrevFails)
           \/ job'.from = job.from /\ job'.prev = cache.value
    <3>1. job.from \in Versions /\ None \in Versions
      BY Numbers DEF JobTyped
    <3>2. CASE job' = [job EXCEPT !.pc = "store", !.from = None]
                 /\ (cache.value = None \/ ReadPrevFails)
      BY <2>1, <3>1, <3>2 DEF JobTyped
    <3>3. CASE job' = [job EXCEPT !.pc = "store", !.prev = cache.value]
      BY <2>1, <3>3 DEF JobTyped
    <3> QED  BY <2>2, <3>2, <3>3
  <2>4. JobFits'
    BY <1>1, <2>1, <2>3 DEF JobFits
  <2>5. Clean' => JobExact'
    <3>1. ReadPrevFails => ~Clean'
      BY DEF ReadPrevFails, Err, Clean
    <3> QED  BY <1>1, <1>3, <2>1, <2>3, <3>1 DEF JobExact
  <2>6. ~returned => JobOrdered'
    BY <1>1, <1>2, <2>1, <2>3 DEF JobOrdered
  <2> QED  BY <1>4, <2>1, <2>3, <2>4, <2>5, <2>6
<1> QED  BY <1>5, <1>6, <1>7

\* A message names the version that is stored and the one its patch leads from.
LEMMA PublishIInv == ASSUME IInv, Publish \/ PublishFails PROVE IInv'
<1> USE Facts
<1> DEFINE m == IF job.from = None THEN <<job.payload>> ELSE <<job.payload, job.from>>
<1>1. /\ UNCHANGED <<origin, cache, client, requests>> /\ job.pc = "publish"
      /\ messages' = messages \/ messages' = Append(messages, m)
  BY DEF Publish, PublishFails, Reject
<1>2. OriginTyped' /\ result' = result /\ returned' = returned
  BY <1>1 DEF origin, OriginTyped
<1>3. mishaps \subseteq mishaps' /\ (Clean' => JobExact)
  <2>1. \E n : mishaps' = mishaps \cup n
    <3>1. CASE Publish
      <4>1. mishaps' = mishaps \cup (IF client.hears \/ Asking THEN {} ELSE {"unheard"})
        BY <3>1 DEF Publish
      <4> QED  BY <4>1
    <3>2. CASE PublishFails  BY <3>2 DEF PublishFails, Err
    <3> QED  BY <3>1, <3>2
  <2> QED  BY <2>1
<1>4. m \in Messages /\ job.payload \in Versions /\ job.from \in Versions
  BY DEF JobTyped, Messages, IsMessage
<1>5. /\ sub' \in Subs /\ sub'.version = sub.version
      /\ job' = NoJob \/ (job' = [NoJob EXCEPT !.pc = "wait"] /\ sub'.busy)
  <2>1. CASE Publish
    BY <1>1, <2>1, FinishEnds DEF Publish
  <2>2. CASE PublishFails
    BY <2>2 DEF PublishFails, Reject, Subs
  <2> QED  BY <2>1, <2>2
<1>6. /\ JobTyped' /\ JobFits' /\ job'.pc \in {"none", "wait"}
      /\ (cache.value = sub.version => JobExact') /\ (JobOrdered => JobOrdered')
  BY <1>1, <1>2, <1>5, EndFits
<1>7. Clean' => JobExact'
  BY <1>1, <1>3, <1>6 DEF JobExact
<1>8. ASSUME NEW p \in Pairs'
      PROVE  \/ p \in Pairs
             \/ p = <<job.payload, job.from>> /\ job.from # None
  <2>1. CASE \E i \in DOMAIN requests' : requests'[i].versions # <<>> /\ p = requests'[i].versions
    BY <1>1, <2>1, Elements
  <2>2. ASSUME NEW i \in DOMAIN messages', Len(messages'[i]) = 2, p = messages'[i]
        PROVE  \/ p \in Pairs
               \/ p = <<job.payload, job.from>> /\ job.from # None
    <3>1. (i \in DOMAIN messages /\ messages'[i] = messages[i]) \/ messages'[i] = m
      <4>1. messages \in Seq(Messages)
        BY DEF ClientTyped
      <4>2. \A k \in DOMAIN Append(messages, m) :
              (k \in DOMAIN messages /\ Append(messages, m)[k] = messages[k])
              \/ Append(messages, m)[k] = m
        BY <1>4, <4>1, AppendTyped
      <4> HIDE DEF m
      <4> QED  BY <1>1, <2>2, <4>2
    <3>2. CASE i \in DOMAIN messages /\ messages'[i] = messages[i]
      BY <2>2, <3>2, Elements
    <3>3. CASE messages'[i] = m
      BY <1>4, <2>2, <3>3
    <3> QED  BY <3>1, <3>2, <3>3
  <2> QED  BY <1>8, <2>1, <2>2, ElementsNext
<1>9. messages' \in Seq(Messages)
  <2>1. messages \in Seq(Messages)
    BY DEF ClientTyped
  <2>2. Append(messages, m) \in Seq(Messages)
    BY <1>4, <2>1, AppendTyped
  <2> HIDE DEF m
  <2> QED  BY <1>1, <2>1, <2>2
<1>10. /\ UNCHANGED <<cache, client, requests>> /\ (returned => returned')
       /\ (~returned' => JobOrdered') /\ (~returned => Rank(sub.version) <= Rank(sub'.version))
  BY <1>1, <1>2, <1>5, <1>6
<1> HIDE DEF m
<1> QED  BY <1>1, <1>2, <1>3, <1>6, <1>7, <1>8, <1>9, <1>10, ManagerStep

-----------------------------------------------------------------------------
(* The cache *)

\* Value, version and patch are stored together, whatever becomes of the job.
LEMMA StoreStep ==
  ASSUME IInv, job.pc = "store", cache' = Stored,
         UNCHANGED <<origin, messages, client, requests>>, mishaps \subseteq mishaps',
         sub'.version = sub.version, JobTyped',
         \/ job'.pc = "publish" /\ job'.payload = job.payload /\ job'.from = job.from
         \/ job'.pc = "none"
  PROVE  IInv'
<1> USE Facts
<1>1. /\ job.payload = sub.version /\ job.payload \in Versions /\ job.payload # None
      /\ (job.from # None => job.prev = cache.value) /\ (job.payload = Failed => job.from = None)
      /\ (job.payload = Failed => cache.version = None)
      /\ job.prev \in Versions /\ job.from \in Versions
  BY DEF JobFits, JobTyped
<1>2. /\ OriginTyped' /\ ClientTyped' /\ PatchFits' /\ (Clean' => Clean)
      /\ result' = result /\ returned' = returned
  BY DEF IInv, origin, OriginTyped, ClientTyped, PatchFits, Clean
<1>3. /\ Sane(cache') /\ cache'.value = job.payload /\ cache'.version = job.payload
      /\ cache'.diff = IF job.from = None THEN cache.diff
                       ELSE [old |-> job.prev, new |-> job.payload, from |-> job.from]
  <2>1. /\ cache'.value = job.payload /\ cache'.version = job.payload
        /\ cache'.diff = IF job.from = None THEN cache.diff
                         ELSE [old |-> job.prev, new |-> job.payload, from |-> job.from]
    BY DEF Stored
  <2>2. cache'.diff \in Diffs
    BY <1>1, <2>1 DEF Sane, Caches, Diffs
  <2>3. cache' \in Caches
    BY <1>1, <2>1, <2>2 DEF Stored, Caches
  <2>4. cache'.diff.from # None => Real(cache'.version) /\ Real(cache'.diff.new)
    BY <1>1, <2>1 DEF Sane, Real
  <2> QED  BY <2>1, <2>3, <2>4 DEF Sane
<1>4. JobFits'
  BY <1>1 DEF JobFits
<1>5. Copies' \subseteq Copies \cup {cache'} /\ cache \in Copies /\ Pairs' = Pairs
  BY DEF Copies, Answered, Pairs
<1>6. Fits'
  <2> SUFFICES ASSUME Clean' PROVE JobExact' /\ \A c \in Copies' : Exact(c)
    BY DEF Fits
  <2>1. cache.value = job.from /\ \A c \in Copies : Exact(c)
    BY <1>2 DEF IInv, Fits, JobExact
  <2>2. JobExact'
    BY <1>1, <1>3 DEF JobExact
  <2>3. Exact(cache')
    <3>1. CASE job.from = None
      BY <1>3, <2>1, <3>1 DEF Exact, Sane, Real
    <3>2. CASE job.from # None
      BY <1>1, <1>3, <2>1, <3>2 DEF Exact
    <3> QED  BY <3>1, <3>2
  <2> QED  BY <1>5, <2>1, <2>2, <2>3
<1>7. ASSUME ~returned PROVE JobOrdered' /\ ClientOrdered' /\ Gaps'
  <2>1. JobOrdered /\ ClientOrdered /\ Gaps
    BY <1>7
  <2>2. /\ Rank(cache.version) <= Rank(job.payload)
        /\ job.from # None => /\ Rank(cache.version) <= Rank(job.from)
                              /\ Rank(job.from) < Rank(job.payload)
                              /\ Rank(job.payload) = job.payload
    BY <1>1, <2>1 DEF JobOrdered, Rank
  <2>3. JobOrdered'
    BY <1>1, <1>2, <1>3, <2>1, <2>2 DEF JobOrdered
  <2>4. client.version \in Nat /\ Rank(client.version) = client.version
    BY <2>1, Numbers DEF ClientTyped, Clients, ClientOrdered, Rank
  <2>5. ClientOrdered'
    <3>1. \A i \in DOMAIN requests :
            requests[i].reply # <<>> => Rank(requests[i].reply[1].version) \in Nat
      <4>1. \A i \in DOMAIN requests : requests[i] \in Requests
        BY DEF ClientTyped
      <4> QED  BY <4>1, ReplyTyped, Numbers DEF Sane, Caches
    <3>2. InOrder(requests, client.version, Rank(job.payload))
      <4>1. InOrder(requests, client.version, Rank(cache.version))
        BY <2>1 DEF ClientOrdered
      <4>2. ASSUME NEW n \in Nat, n <= Rank(cache.version) PROVE n <= Rank(job.payload)
        BY <2>2, <4>2
      <4> QED  BY <3>1, <4>1, <4>2 DEF InOrder
    <3> QED  BY <1>3, <2>1, <2>2, <2>4, <3>2 DEF ClientOrdered
\* No copy is newer than the cache was.
  <2>6. \A c \in Copies :
          /\ Sane(c) /\ Rank(c.version) \in Nat /\ c.diff.new \in Nat /\ Rank(c.diff.old) \in Nat
          /\ client.version <= Rank(c.version) /\ Rank(c.version) <= Rank(cache.version)
    <3>1. \A c \in Copies : Sane(c)
      BY ElementsTyped
    <3> QED  BY <2>1, <3>1, CopiesOrdered, Numbers DEF Sane, Caches, Diffs
  <2>7. \A m \in Pairs : Rank(m[1]) \in Nat /\ Rank(m[2]) \in Nat /\ Rank(m[1]) <= Rank(job.payload)
    <3>1. \A m \in Pairs : m[1] \in Versions /\ m[2] \in Versions
      BY ElementsTyped
    <3> QED  BY <1>1, <2>1, <3>1, Numbers DEF Gaps
\* The patches that there were.
  <2>8. ASSUME NEW c \in Copies, c.diff.from # None
        PROVE  /\ c.diff.new <= Rank(job.payload)
               /\ Skips(c, client.version) /\ \A m \in Pairs : Misses(c, m)
               /\ \A d \in Copies' : Skips(c, d.version)
               /\ job.from # None => Misses(c, <<job.payload, job.from>>)
    <3>1. /\ Rises(c) /\ Skips(c, client.version) /\ (\A d \in Copies : Skips(c, d.version))
          /\ \A m \in Pairs : Misses(c, m)
      BY <2>1, <2>8 DEF Gaps
    <3>2. c.diff.new <= Rank(cache.version) /\ c.diff.new <= Rank(job.payload)
      BY <2>2, <2>6, <3>1 DEF Rises
    <3>3. Skips(c, cache'.version)
      BY <1>3, <3>2 DEF Skips
    <3>4. job.from # None => c.diff.new <= Rank(job.from)
      BY <2>2, <2>6, <3>2
    <3>5. job.from # None => Misses(c, <<job.payload, job.from>>)
      BY <3>4 DEF Misses
    <3> QED  BY <1>5, <3>1, <3>2, <3>3, <3>5
\* The new one.
  <2>9. ASSUME cache'.diff.from # None
        PROVE  /\ Rises(cache') /\ Skips(cache', client.version)
               /\ \A d \in Copies' : Skips(cache', d.version)
               /\ \A m \in Pairs : Misses(cache', m)
               /\ job.from # None => Misses(cache', <<job.payload, job.from>>)
    <3>1. CASE job.from = None
      <4>1. cache'.diff = cache.diff /\ cache.diff.from # None
        BY <1>3, <2>9, <3>1
      <4>2. Rises(cache)
        BY <1>5, <2>1, <4>1 DEF Gaps
      <4>3. Rises(cache')
        BY <1>3, <1>5, <2>8, <4>1, <4>2 DEF Rises
      <4> QED  BY <1>5, <2>8, <3>1, <4>1, <4>3 DEF Skips, Misses
    <3>2. CASE job.from # None
      <4>1. /\ cache'.diff.old = cache.value /\ cache'.diff.new = job.payload
            /\ cache'.diff.from = job.from /\ cache.value = cache.version
        BY <1>1, <1>3, <3>2 DEF Sane
      <4>2. Rises(cache')
        BY <1>3, <2>2, <3>2, <4>1 DEF Rises
      <4>3. Skips(cache', client.version)
        BY <2>1, <2>4, <4>1 DEF Skips, ClientOrdered
      <4>4. \A d \in Copies' : Skips(cache', d.version)
        <5>1. \A d \in Copies : Skips(cache', d.version)
          BY <2>6, <4>1 DEF Skips
        <5>2. Skips(cache', cache'.version)
          BY <1>3, <2>2, <3>2, <4>1 DEF Skips
        <5> QED  BY <1>5, <5>1, <5>2
      <4>5. \A m \in Pairs : Misses(cache', m)
        BY <2>2, <2>7, <3>2, <4>1 DEF Misses
      <4>6. Misses(cache', <<job.payload, job.from>>)
        BY <2>2, <3>2, <4>1 DEF Misses
      <4> QED  BY <4>2, <4>3, <4>4, <4>5, <4>6
    <3> QED  BY <3>1, <3>2
  <2>10. Gaps'
    <3>1. ASSUME NEW c \in Copies', c.diff.from # None
          PROVE  /\ Rises(c) /\ Skips(c, client'.version)
                 /\ \A d \in Copies' : Skips(c, d.version)
                 /\ \A m \in Pairs' : Misses(c, m)
                 /\ job'.pc = "publish" /\ job'.from # None =>
                      Misses(c, <<job'.payload, job'.from>>)
      <4>1. client' = client
        OBVIOUS
      <4>2. CASE c \in Copies
        <5>1. Rises(c)
          BY <2>1, <3>1, <4>2 DEF Gaps
        <5> QED  BY <1>5, <2>8, <3>1, <4>1, <4>2, <5>1
      <4>3. CASE c = cache'
        BY <1>5, <2>9, <3>1, <4>1, <4>3
      <4> QED  BY <1>5, <3>1, <4>2, <4>3
    <3>2. \A m \in Pairs' : Rank(m[1]) <= Rank(sub'.version)
      BY <1>1, <1>5, <2>7
    <3> QED  BY <3>1, <3>2 DEF Gaps
  <2> QED  BY <2>3, <2>5, <2>10
<1> QED  BY <1>2, <1>3, <1>4, <1>6, <1>7 DEF IInv, Typed, Rising

LEMMA StoreIInv == ASSUME IInv, Store \/ StoreFails PROVE IInv'
<1> USE Facts
<1>1. /\ UNCHANGED <<origin, messages, client, requests>> /\ job.pc = "store"
      /\ mishaps \subseteq mishaps'
  BY DEF Store, StoreFails, Reject, Err, ghosts
<1>2. CASE Store
  <2>1. job' = [job EXCEPT !.pc = "publish"] /\ sub' = sub /\ cache' = Stored
    BY <1>2 DEF Store
  <2>2. /\ JobTyped' /\ job'.pc = "publish" /\ job'.payload = job.payload
        /\ job'.from = job.from
    BY <1>1, <2>1 DEF JobTyped
  <2> QED  BY <1>1, <2>1, <2>2, StoreStep
<1>3. CASE StoreFails
  <2>1. /\ job' = NoJob /\ sub' = [sub EXCEPT !.busy = FALSE, !.again = FALSE]
        /\ cache' = cache \/ cache' = Stored
    BY <1>3 DEF StoreFails, Reject
  <2>2. sub' \in Subs /\ sub'.version = sub.version
    BY <2>1 DEF Subs
  <2>3. JobTyped' /\ job'.pc = "none"
    BY <2>1, <2>2, Numbers DEF JobTyped, NoJob
  <2>4. CASE cache' = Stored
    BY <1>1, <2>2, <2>3, <2>4, StoreStep
  <2>5. CASE cache' = cache /\ cache' # Stored
    <3>1. ~Clean'
      BY <1>3, <2>5 DEF StoreFails, Err, Clean
    <3>2. UNCHANGED <<cache, result, returned>> /\ OriginTyped'
      BY <1>1, <2>5 DEF origin, OriginTyped
    <3>3. JobFits' /\ (JobOrdered => JobOrdered')
      BY <2>1, <2>2, <3>2, EndFits
    <3>4. ~returned => JobOrdered'
      BY <3>3
    <3> QED  BY <1>1, <2>2, <2>3, <3>1, <3>2, <3>3, <3>4, JobStep
  <2> QED  BY <2>1, <2>4, <2>5
<1> QED  BY <1>2, <1>3

-----------------------------------------------------------------------------
(* The observable *)

\* What a step of the observable has to show.
LEMMA ClientStep ==
  ASSUME IInv, UNCHANGED <<origin, manager, cache>>, mishaps \subseteq mishaps', ClientTyped',
         PatchFits', ~returned => ClientOrdered', Copies' \subseteq Copies, Pairs' \subseteq Pairs,
         client'.version = client.version \/ \E d \in Copies : client'.version = d.version
  PROVE  IInv'
<1>1. /\ OriginTyped' /\ JobTyped' /\ JobFits' /\ Sane(cache') /\ returned' = returned
      /\ sub' = sub /\ job' = job
  BY DEF IInv, Typed, OriginTyped, JobTyped, JobFits, origin, manager
<1>2. Fits'
  <2>1. Clean' => Clean
    BY DEF Clean
  <2> QED  BY <1>1, <2>1 DEF IInv, Fits, JobExact
<1>3. ASSUME ~returned PROVE JobOrdered' /\ Gaps'
  <2>1. JobOrdered /\ Gaps
    BY <1>3 DEF IInv, Rising
  <2>2. JobOrdered'
    BY <1>1, <2>1 DEF JobOrdered, origin
  <2>3. ASSUME NEW c \in Copies', c.diff.from # None
        PROVE  /\ Rises(c) /\ Skips(c, client'.version)
               /\ \A d \in Copies' : Skips(c, d.version)
               /\ \A m \in Pairs' : Misses(c, m)
               /\ job.pc = "publish" /\ job.from # None => Misses(c, <<job.payload, job.from>>)
    BY <2>1, <2>3 DEF Gaps
  <2>4. \A m \in Pairs' : Rank(m[1]) <= Rank(sub.version)
    BY <2>1 DEF Gaps
  <2> QED  BY <1>1, <2>2, <2>3, <2>4 DEF Gaps
<1> QED  BY <1>1, <1>2, <1>3 DEF IInv, Typed, Rising

\* Calls bring nothing in but what was on the way or is in the cache.
LEMMA NothingNew ==
  ASSUME cache' = cache,
         \A i \in DOMAIN messages' : \E j \in DOMAIN messages : messages'[i] = messages[j],
         \A i \in DOMAIN requests' :
           /\ \/ requests'[i].reply \in {<<>>, <<cache>>}
              \/ \E j \in DOMAIN requests : requests'[i].reply = requests[j].reply
           /\ \/ requests'[i].versions = <<>>
              \/ \E j \in DOMAIN requests : requests'[i].versions = requests[j].versions
              \/ \E j \in DOMAIN messages : Len(messages[j]) = 2 /\ requests'[i].versions = messages[j]
  PROVE  Copies' \subseteq Copies /\ Pairs' \subseteq Pairs
<1>1. ASSUME NEW c \in Copies' PROVE c \in Copies
  <2>1. CASE c = cache  BY <2>1, Elements
  <2>2. CASE c # cache
    <3>1. PICK i \in DOMAIN requests' : requests'[i].reply # <<>> /\ c = requests'[i].reply[1]
      BY <2>2, ElementsNext
    <3>2. requests'[i].reply # <<cache>>
      BY <2>2, <3>1
    <3>3. PICK j \in DOMAIN requests : requests'[i].reply = requests[j].reply
      BY <3>1, <3>2
    <3> QED  BY <3>1, <3>3, Elements
  <2> QED  BY <2>1, <2>2
<1>2. ASSUME NEW m \in Pairs' PROVE m \in Pairs
  <2>1. CASE \E i \in DOMAIN messages' : Len(messages'[i]) = 2 /\ m = messages'[i]
    BY <2>1, Elements
  <2>2. CASE \E i \in DOMAIN requests' : requests'[i].versions # <<>> /\ m = requests'[i].versions
    BY <2>2, Elements
  <2> QED  BY <2>1, <2>2, ElementsNext
<1> QED  BY <1>1, <1>2

LEMMA GetTyped ==
  ASSUME NEW v, v = <<>> \/ IsMessage(v)
  PROVE  /\ Get(v) \in Requests /\ Get(v).reply = <<>>
         /\ Get(v).versions = <<>> \/ (Get(v).versions = v /\ Len(v) = 2)
<1>1. ASSUME NEW w, w = <<>> \/ (IsMessage(w) /\ Len(w) = 2)
      PROVE  [versions |-> w, reply |-> <<>>] \in Requests
  <2>1. <<>> \in Replies
    BY DEF Replies
  <2>2. w \in Seq(Versions)
    <3>1. CASE w = <<>>  BY <3>1
    <3>2. CASE IsMessage(w)  BY <3>2 DEF IsMessage
    <3> QED  BY <1>1, <3>1, <3>2
  <2> QED  BY <1>1, <2>1, <2>2 DEF Requests
<1>2. Get(v) = [versions |-> IF client.version # None /\ Len(v) = 2 THEN v ELSE <<>>,
                reply |-> <<>>]
  BY DEF Get
<1> QED  BY <1>1, <1>2

LEMMA ReceiveIInv == ASSUME IInv, Receive PROVE IInv'
<1> DEFINE m == Head(messages)
           q == Get(m)
<1>1. /\ ClientTyped /\ UNCHANGED <<origin, manager, cache, client>>
      /\ messages # <<>> /\ messages' = Tail(messages) /\ mishaps \subseteq mishaps'
      /\ requests' = requests \/ requests' = Append(requests, q)
  BY Facts DEF Receive
<1>2. messages' \in Seq(Messages) /\ IsMessage(m) /\ m = messages[1] /\ 1 \in DOMAIN messages
  BY <1>1 DEF ClientTyped, Messages
<1>3. q \in Requests /\ q.reply = <<>> /\ (q.versions = <<>> \/ (q.versions = m /\ Len(m) = 2))
  BY <1>2, GetTyped
<1> HIDE DEF q, m
<1>4. requests \in Seq(Requests) /\ requests' \in Seq(Requests)
  <2>1. requests \in Seq(Requests)
    BY <1>1 DEF ClientTyped
  <2>2. Append(requests, q) \in Seq(Requests)
    BY <1>3, <2>1
  <2> QED  BY <1>1, <2>1, <2>2
<1>5. ClientTyped' /\ PatchFits'
  BY <1>1, <1>2, <1>4 DEF IInv, ClientTyped, PatchFits, origin
<1>6. ~returned => ClientOrdered'
  BY <1>1, <1>3, Facts, AppendInOrder DEF ClientOrdered, ClientTyped
<1>7. Copies' \subseteq Copies /\ Pairs' \subseteq Pairs
  <2>1. ASSUME NEW i \in DOMAIN messages'
        PROVE  \E j \in DOMAIN messages : messages'[i] = messages[j]
    <3>1. i + 1 \in DOMAIN messages /\ messages'[i] = messages[i + 1]
      BY <1>1 DEF ClientTyped
    <3> QED  BY <3>1
  <2>2. ASSUME NEW i \in DOMAIN requests'
        PROVE  \/ i \in DOMAIN requests /\ requests'[i] = requests[i]
               \/ requests'[i] = q
    <3>1. \A k \in DOMAIN Append(requests, q) :
            (k \in DOMAIN requests /\ Append(requests, q)[k] = requests[k])
            \/ Append(requests, q)[k] = q
      BY <1>3, <1>4, AppendTyped
    <3> QED  BY <1>1, <3>1
  <2>3. ASSUME NEW i \in DOMAIN requests'
        PROVE  /\ \/ requests'[i].reply \in {<<>>, <<cache>>}
                  \/ \E j \in DOMAIN requests : requests'[i].reply = requests[j].reply
               /\ \/ requests'[i].versions = <<>>
                  \/ \E j \in DOMAIN requests : requests'[i].versions = requests[j].versions
                  \/ \E j \in DOMAIN messages : Len(messages[j]) = 2 /\ requests'[i].versions = messages[j]
    BY <1>2, <1>3, <2>2
  <2> QED  BY <1>1, <2>1, <2>3, NothingNew
<1> QED  BY <1>1, <1>5, <1>6, <1>7, ClientStep

LEMMA ExecuteIInv == ASSUME IInv, Execute PROVE IInv'
<1>1. /\ ClientTyped /\ Sane(cache) /\ UNCHANGED <<origin, manager, cache, messages, client>>
      /\ mishaps' = mishaps
  BY Facts DEF Execute, ghosts
<1>2. PICK i \in DOMAIN requests :
        /\ requests[i].reply = <<>> /\ \A j \in 1 .. i - 1 : requests[j].reply # <<>>
        /\ requests' = [requests EXCEPT ![i].reply = <<cache>>]
  BY DEF Execute
<1>3. /\ requests[i] \in Requests /\ requests \in Seq(Requests)
      /\ requests' = [requests EXCEPT ![i] = [requests[i] EXCEPT !.reply = <<cache>>]]
  BY <1>1, <1>2 DEF ClientTyped
<1>4. /\ [requests[i] EXCEPT !.reply = <<cache>>] \in Requests
      /\ [requests[i] EXCEPT !.reply = <<cache>>].reply = <<cache>>
      /\ [requests[i] EXCEPT !.reply = <<cache>>].versions = requests[i].versions
  <2>1. <<cache>> \in Replies
    BY <1>1 DEF Replies, Sane
  <2> QED  BY <1>3, <2>1 DEF Requests
<1>5. requests' \in Seq(Requests)
  BY <1>3, <1>4
<1>6. ClientTyped' /\ PatchFits'
  BY <1>1, <1>5 DEF IInv, ClientTyped, PatchFits, origin
<1>7. ~returned => ClientOrdered'
  BY <1>1, <1>2, Facts, ExecuteInOrder DEF ClientOrdered, ClientTyped
<1>8. Copies' \subseteq Copies /\ Pairs' \subseteq Pairs
  <2>1. ASSUME NEW j \in DOMAIN requests'
        PROVE  /\ j \in DOMAIN requests
               /\ requests'[j].reply = <<cache>> \/ requests'[j].reply = requests[j].reply
               /\ requests'[j].versions = requests[j].versions
    <3>1. CASE j = i   BY <1>3, <1>4, <3>1
    <3>2. CASE j # i   BY <1>3, <3>2
    <3> QED  BY <3>1, <3>2
  <2>2. \A j \in DOMAIN messages' : \E k \in DOMAIN messages : messages'[j] = messages[k]
    BY <1>1
  <2>3. ASSUME NEW j \in DOMAIN requests'
        PROVE  /\ \/ requests'[j].reply \in {<<>>, <<cache>>}
                  \/ \E k \in DOMAIN requests : requests'[j].reply = requests[k].reply
               /\ \E k \in DOMAIN requests : requests'[j].versions = requests[k].versions
    BY <2>1
  <2> QED  BY <1>1, <2>2, <2>3, NothingNew
<1> QED  BY <1>1, <1>6, <1>7, <1>8, ClientStep

\* The first call and its reply.
LEMMA FirstCall ==
  ASSUME IInv, requests # <<>>, Head(requests).reply # <<>>
  PROVE  LET got == Head(requests).reply[1]
         IN  /\ Sane(got) /\ Head(requests) \in Requests /\ Tail(requests) \in Seq(Requests)
             /\ got \in Copies
             /\ Head(requests).versions # <<>> => Head(requests).versions \in Pairs
             /\ ~returned =>
                  /\ client.version # Failed
                  /\ client.version <= Rank(got.version) /\ Rank(got.version) <= Rank(cache.version)
                  /\ client.version <= Rank(cache.version)
                  /\ InOrder(Tail(requests), client.version, Rank(cache.version))
                  /\ InOrder(Tail(requests), Rank(got.version), Rank(cache.version))
<1>1. requests \in Seq(Requests)
  BY DEF IInv, Typed, ClientTyped
<1>2. /\ Head(requests) = requests[1] /\ 1 \in DOMAIN requests /\ Head(requests) \in Requests
      /\ Tail(requests) \in Seq(Requests)
  BY <1>1
<1>3. Sane(Head(requests).reply[1])
  BY <1>2, ReplyTyped
<1>4. /\ Head(requests).reply[1] \in Copies
      /\ Head(requests).versions # <<>> => Head(requests).versions \in Pairs
  BY <1>2, Elements
<1>5. ASSUME ~returned
      PROVE  /\ client.version # Failed /\ client.version <= Rank(cache.version)
             /\ InOrder(requests, client.version, Rank(cache.version))
  BY <1>5, Facts DEF ClientOrdered
<1>6. ASSUME ~returned
      PROVE  /\ client.version <= Rank(Head(requests).reply[1].version)
             /\ Rank(Head(requests).reply[1].version) <= Rank(cache.version)
  BY <1>2, <1>5, <1>6 DEF InOrder
<1>7. ASSUME ~returned
      PROVE  /\ InOrder(Tail(requests), client.version, Rank(cache.version))
             /\ InOrder(Tail(requests), Rank(Head(requests).reply[1].version), Rank(cache.version))
  BY <1>1, <1>5, <1>7, TailInOrder
<1> QED  BY <1>2, <1>3, <1>4, <1>5, <1>6, <1>7

\* The first call is taken off, and perhaps the whole result asked for.
LEMMA TailNew ==
  ASSUME ClientTyped, requests # <<>>, UNCHANGED <<cache, messages>>,
         \/ requests' = Tail(requests)
         \/ \E q \in Requests :
              q.reply = <<>> /\ q.versions = <<>> /\ requests' = Append(Tail(requests), q)
  PROVE  Copies' \subseteq Copies /\ Pairs' \subseteq Pairs
<1>1. Tail(requests) \in Seq(Requests) /\ requests \in Seq(Requests)
  BY DEF ClientTyped
<1>2. \A i \in DOMAIN Tail(requests) :
        i + 1 \in DOMAIN requests /\ Tail(requests)[i] = requests[i + 1]
  BY <1>1
<1>3. ASSUME NEW i \in DOMAIN requests'
      PROVE  \/ \E j \in DOMAIN requests : requests'[i] = requests[j]
             \/ requests'[i].reply = <<>> /\ requests'[i].versions = <<>>
  <2>1. CASE requests' = Tail(requests)
    BY <1>2, <2>1
  <2>2. ASSUME NEW q \in Requests, q.reply = <<>>, q.versions = <<>>,
               requests' = Append(Tail(requests), q)
        PROVE  \/ \E j \in DOMAIN requests : requests'[i] = requests[j]
               \/ requests'[i].reply = <<>> /\ requests'[i].versions = <<>>
    <3>1. (i \in DOMAIN Tail(requests) /\ requests'[i] = Tail(requests)[i]) \/ requests'[i] = q
      BY <1>1, <2>2
    <3> QED  BY <1>2, <2>2, <3>1
  <2> QED  BY <2>1, <2>2
<1>4. ASSUME NEW i \in DOMAIN requests'
      PROVE  /\ \/ requests'[i].reply \in {<<>>, <<cache>>}
                \/ \E j \in DOMAIN requests : requests'[i].reply = requests[j].reply
             /\ \/ requests'[i].versions = <<>>
                \/ \E j \in DOMAIN requests : requests'[i].versions = requests[j].versions
  BY <1>3
<1>5. \A i \in DOMAIN messages' : \E j \in DOMAIN messages : messages'[i] = messages[j]
  OBVIOUS
<1> QED  BY <1>4, <1>5, NothingNew

LEMMA WholeIInv == ASSUME IInv, Whole PROVE IInv'
<1> USE Numbers
<1> DEFINE got == Head(requests).reply[1]
<1>1. /\ ClientTyped /\ PatchFits /\ UNCHANGED <<origin, manager, cache, messages>>
      /\ mishaps' = mishaps
      /\ requests # <<>> /\ Head(requests).reply # <<>> /\ requests' = Tail(requests)
      /\ client' = IF got.value \in {None, Failed} THEN client
                   ELSE [client EXCEPT !.version = got.version, !.cache = got.value]
  BY Facts DEF IInv, Whole, ghosts
<1>2. /\ Sane(got) /\ Tail(requests) \in Seq(Requests) /\ got \in Copies
      /\ ~returned =>
           /\ client.version # Failed
           /\ Rank(got.version) <= Rank(cache.version) /\ client.version <= Rank(cache.version)
           /\ InOrder(Tail(requests), client.version, Rank(cache.version))
           /\ InOrder(Tail(requests), Rank(got.version), Rank(cache.version))
  BY <1>1, FirstCall
<1>3. Copies' \subseteq Copies /\ Pairs' \subseteq Pairs
  BY <1>1, TailNew
<1> HIDE DEF got
<1>4. /\ client' \in Clients
      /\ \/ client' = client
         \/ /\ client'.version = got.version /\ client'.cache = got.version
            /\ Rank(got.version) = got.version /\ got.version # Failed
  <2>1. CASE got.value \in {None, Failed}
    BY <1>1, <2>1 DEF ClientTyped
  <2>2. CASE got.value \notin {None, Failed}
    <3>1. got.value = got.version /\ got.version \in Versions /\ Rank(got.version) = got.version
      BY <1>2, <2>2 DEF Sane, Caches, Rank
    <3> QED  BY <1>1, <2>2, <3>1 DEF ClientTyped, Clients
  <2> QED  BY <2>1, <2>2
<1>5. ClientTyped' /\ PatchFits'
  BY <1>1, <1>2, <1>4 DEF ClientTyped, PatchFits, origin
<1>6. ~returned => ClientOrdered'
  BY <1>1, <1>2, <1>4 DEF ClientOrdered
<1>7. client'.version = client.version \/ \E d \in Copies : client'.version = d.version
  BY <1>2, <1>4
<1> QED  BY <1>1, <1>3, <1>5, <1>6, <1>7, ClientStep

\* The check of the versions is enough: what they let through is a patch from the
\* client's result to the reply's.
LEMMA PatchLeads ==
  ASSUME IInv, NEW got \in Copies, Sane(got), NEW to \in Pairs,
         got.diff.from = to[2], got.version = to[1], client.version = got.diff.from
  PROVE  /\ Real(got.version) /\ client.version # None
         /\ \/ got.diff.old = client.cache /\ got.diff.new = got.version
            \/ returned /\ ~Clean
<1> USE Numbers
<1>1. to[2] # None /\ Real(got.version) /\ Real(got.diff.new)
  BY Facts, ElementsTyped DEF Sane
<1>2. CASE returned /\ ~Clean
  BY <1>1, <1>2
<1>3. CASE ~returned \/ Clean
  <2>1. client.cache = client.version
    BY <1>3 DEF IInv, PatchFits, Clean
  <2>2. CASE Clean
    BY <1>1, <2>1, <2>2 DEF IInv, Fits, Exact
  <2>3. CASE ~returned
    <3>1. Rises(got) /\ Skips(got, client.version) /\ Misses(got, to) /\ client.version # Failed
      BY <1>1, <2>3, Facts DEF Gaps, ClientOrdered
    <3>2. /\ got.diff.old \in Versions /\ got.diff.new \in Versions /\ got.version \in Versions
          /\ client.version \in Versions
      BY Facts DEF Sane, Caches, Diffs, ClientTyped, Clients
    <3>3. /\ got.diff.old \in Nat /\ got.diff.new \in Nat /\ got.version \in Nat
          /\ client.version \in Nat /\ Rank(got.diff.old) \in Nat
          /\ Rank(client.version) = client.version /\ Rank(got.version) = got.version
          /\ Rank(got.diff.old) \in {0, got.diff.old} /\ client.version # 0
      BY <1>1, <3>1, <3>2 DEF Rank, Real, None
    <3>4. Rank(got.diff.old) = client.version
      BY <3>1, <3>3 DEF Rises, Skips
    <3>5. got.diff.new = got.version
      BY <3>1, <3>3 DEF Rises, Misses
    <3> QED  BY <1>1, <2>1, <3>3, <3>4, <3>5
  <2> QED  BY <1>3, <2>2, <2>3
<1> QED  BY <1>2, <1>3

LEMMA PatchIInv == ASSUME IInv, Patch PROVE IInv'
<1> USE Numbers
<1> DEFINE got == Head(requests).reply[1]
           to  == Head(requests).versions
           q   == Get(<<>>)
           fits == /\ got.diff.from = to[2] /\ got.version = to[1]
                   /\ client.version = got.diff.from
<1>1. /\ ClientTyped /\ PatchFits /\ UNCHANGED <<origin, manager, cache, messages>>
      /\ mishaps' = mishaps /\ returned' = returned
      /\ requests # <<>> /\ Head(requests).reply # <<>> /\ to # <<>>
      /\ IF fits
         THEN /\ client' = [client EXCEPT !.version = got.version,
                                          !.cache = Apply(got.diff, @)]
              /\ requests' = Tail(requests)
         ELSE /\ requests' = Append(Tail(requests), q) /\ UNCHANGED client
  BY Facts DEF IInv, Patch, ghosts, origin
<1>2. /\ Sane(got) /\ Tail(requests) \in Seq(Requests) /\ got \in Copies /\ to \in Pairs
      /\ ~returned =>
           /\ client.version # Failed
           /\ Rank(got.version) <= Rank(cache.version) /\ client.version <= Rank(cache.version)
           /\ InOrder(Tail(requests), client.version, Rank(cache.version))
           /\ InOrder(Tail(requests), Rank(got.version), Rank(cache.version))
  BY <1>1, FirstCall
<1>3. q \in Requests /\ q.reply = <<>> /\ q.versions = <<>>
  BY GetTyped
<1> HIDE DEF got, to, q
<1>4. CASE fits
  <2>1. /\ client' = [client EXCEPT !.version = got.version, !.cache = Apply(got.diff, @)]
        /\ requests' = Tail(requests)
    BY <1>1, <1>4
  <2>2. /\ Real(got.version)
        /\ \/ got.diff.old = client.cache /\ got.diff.new = got.version
           \/ returned /\ ~Clean
    BY <1>2, <1>4, PatchLeads
  <2>3. Apply(got.diff, client.cache) \in Versions \cup {Wrong} /\ got.version \in Versions
    BY <1>2 DEF Apply, Sane, Caches, Diffs
  <2>4. /\ client' \in Clients /\ client'.version = got.version
        /\ client'.cache = Apply(got.diff, client.cache)
    BY <1>1, <2>1, <2>3 DEF ClientTyped, Clients
  <2>5. ClientTyped' /\ PatchFits'
    <3>1. ClientTyped'
      BY <1>1, <1>2, <2>1, <2>4 DEF ClientTyped
    <3> QED  BY <1>1, <2>2, <2>4, <3>1 DEF PatchFits, Apply, Clean
  <2>6. ~returned => ClientOrdered'
    BY <1>1, <1>2, <2>1, <2>2, <2>4 DEF ClientOrdered, Rank, Real
  <2>7. Copies' \subseteq Copies /\ Pairs' \subseteq Pairs
    BY <1>1, <2>1, TailNew
  <2> QED  BY <1>1, <1>2, <2>4, <2>5, <2>6, <2>7, ClientStep
<1>5. CASE ~fits
  <2>1. requests' = Append(Tail(requests), q) /\ client' = client
    BY <1>1, <1>5
  <2> HIDE DEF fits
  <2>2. ClientTyped' /\ PatchFits'
    BY <1>1, <1>2, <1>3, <2>1 DEF ClientTyped, PatchFits
  <2>3. ~returned => ClientOrdered'
    BY <1>1, <1>2, <1>3, <2>1, AppendInOrder DEF ClientOrdered
  <2>4. Copies' \subseteq Copies /\ Pairs' \subseteq Pairs
    BY <1>1, <1>3, <2>1, TailNew
  <2> QED  BY <1>1, <2>1, <2>2, <2>3, <2>4, ClientStep
<1> QED  BY <1>4, <1>5

\* SUBSCRIBE is executed, or the connection is back.
LEMMA ListenIInv == ASSUME IInv, Subscribe \/ Reconnect PROVE IInv'
<1>1. /\ ClientTyped /\ UNCHANGED <<origin, manager, cache, messages, requests, mishaps>>
      /\ \/ client' = [client EXCEPT !.hears = TRUE]
         \/ client' = [client EXCEPT !.up = TRUE, !.hears = TRUE]
  BY Facts DEF Subscribe, Reconnect, ghosts
<1>2. client' \in Clients /\ client'.version = client.version /\ client'.cache = client.cache
  BY <1>1 DEF ClientTyped, Clients
<1>3. ClientTyped' /\ PatchFits'
  BY <1>1, <1>2 DEF IInv, ClientTyped, PatchFits, origin
<1>4. ~returned => ClientOrdered'
  BY <1>1, <1>2, Facts DEF ClientOrdered
<1>5. Copies' = Copies /\ Pairs' = Pairs
  BY <1>1 DEF Copies, Answered, Pairs
<1> QED  BY <1>1, <1>2, <1>3, <1>4, <1>5, ClientStep

LEMMA GetFailsIInv == ASSUME IInv, GetFails PROVE IInv'
<1>1. /\ ClientTyped /\ UNCHANGED <<origin, manager, cache, messages, client>>
      /\ requests # <<>> /\ requests' = Tail(requests) /\ mishaps \subseteq mishaps'
  BY Facts DEF GetFails, Err
<1>2. ClientTyped' /\ PatchFits'
  BY <1>1 DEF IInv, ClientTyped, PatchFits, Clean, origin
<1>3. ~returned => ClientOrdered'
  BY <1>1, Facts, TailInOrder DEF ClientOrdered, ClientTyped
<1>4. Copies' \subseteq Copies /\ Pairs' \subseteq Pairs
  BY <1>1, TailNew
<1> QED  BY <1>1, <1>2, <1>3, <1>4, ClientStep

\* The calls of the publisher are made again, from the beginning.
LEMMA DropIInv == ASSUME IInv, Drop PROVE IInv'
<1> DEFINE Unanswered == [i \in DOMAIN requests |-> [requests[i] EXCEPT !.reply = <<>>]]
<1>1. PICK sockets :
        /\ requests' = IF "publisher" \notin sockets THEN requests ELSE Unanswered
        /\ messages' = IF "subscriber" \notin sockets THEN messages ELSE <<>>
        /\ client' = [client EXCEPT !.up = FALSE,
                                    !.hears = client.hears /\ "subscriber" \notin sockets]
  BY DEF Drop
<1>2. ClientTyped /\ UNCHANGED <<origin, manager, cache>> /\ mishaps \subseteq mishaps'
  BY Facts DEF Drop, Lose
<1>3. /\ client' \in Clients /\ client'.version = client.version
      /\ client'.cache = client.cache
  <2>1. client \in Clients
    BY <1>2 DEF ClientTyped
  <2>2. (client.hears /\ "subscriber" \notin sockets) \in BOOLEAN
    BY Zenon, <2>1
  <2> QED  BY <1>1, <2>1, <2>2 DEF Clients
<1>4. ASSUME NEW q \in Requests
      PROVE  /\ [q EXCEPT !.reply = <<>>] \in Requests /\ [q EXCEPT !.reply = <<>>].reply = <<>>
             /\ [q EXCEPT !.reply = <<>>].versions = q.versions
  <2>1. <<>> \in Replies
    BY DEF Replies
  <2> QED  BY <2>1 DEF Requests
<1>5. requests \in Seq(Requests) /\ DOMAIN requests = 1 .. Len(requests) /\ Len(requests) \in Nat
  BY <1>2 DEF ClientTyped
<1>6. /\ DOMAIN Unanswered = DOMAIN requests
      /\ \A i \in DOMAIN requests :
           /\ Unanswered[i] \in Requests /\ Unanswered[i].reply = <<>>
           /\ Unanswered[i].versions = requests[i].versions
  <2>1. \A i \in DOMAIN requests : Unanswered[i] = [requests[i] EXCEPT !.reply = <<>>]
    OBVIOUS
  <2>2. \A i \in DOMAIN requests : requests[i] \in Requests
    BY <1>5
  <2>3. DOMAIN Unanswered = DOMAIN requests
    OBVIOUS
  <2> QED  BY <1>4, <2>1, <2>2, <2>3
<1>7. Unanswered \in Seq(Requests)
  BY <1>5, <1>6
<1> HIDE DEF Unanswered
<1>8. requests' = requests \/ requests' = Unanswered
  BY <1>1
<1>9. ClientTyped' /\ PatchFits'
  <2>1. messages' \in Seq(Messages)
    BY <1>1, <1>2 DEF ClientTyped
  <2> QED  BY <1>2, <1>3, <1>5, <1>7, <1>8, <2>1 DEF IInv, ClientTyped, PatchFits, Clean, origin
<1>10. ~returned => ClientOrdered'
  <2>1. InOrder(Unanswered, client.version, Rank(cache.version))
    BY <1>6 DEF InOrder
  <2> QED  BY <1>2, <1>3, <1>8, <2>1, Facts DEF ClientOrdered
<1>11. Copies' \subseteq Copies /\ Pairs' \subseteq Pairs
  <2>1. \A i \in DOMAIN messages' : \E j \in DOMAIN messages : messages'[i] = messages[j]
    BY <1>1
  <2>2. ASSUME NEW i \in DOMAIN requests'
        PROVE  /\ \/ requests'[i].reply \in {<<>>, <<cache>>}
                  \/ \E j \in DOMAIN requests : requests'[i].reply = requests[j].reply
               /\ \E j \in DOMAIN requests : requests'[i].versions = requests[j].versions
    BY <1>6, <1>8
  <2> QED  BY <1>2, <2>1, <2>2, NothingNew
<1> QED  BY <1>2, <1>3, <1>9, <1>10, <1>11, ClientStep

LEMMA StepIInv == IInv /\ [Next]_vars => IInv'
<1> SUFFICES ASSUME IInv, [Next]_vars PROVE IInv'
  OBVIOUS
<1>1. CASE UNCHANGED vars
  <2>1. UNCHANGED <<origin, manager, cache, messages, client, requests, mishaps>>
    BY <1>1 DEF vars, ghosts
  <2>2. Copies' = Copies /\ Pairs' = Pairs /\ ClientTyped' /\ PatchFits'
    BY <2>1, Facts DEF Copies, Answered, Pairs, IInv, ClientTyped, PatchFits, origin
  <2>3. ~returned => ClientOrdered'
    BY <2>1, Facts DEF ClientOrdered
  <2> QED  BY <2>1, <2>2, <2>3, ClientStep
<1>2. CASE Change  BY <1>2, OriginIInv
<1>3. CASE Manage
  BY <1>3, OriginIInv, StagedIInv, BeginIInv, EvaluateIInv, DecideIInv, StoreIInv, PublishIInv
  DEF Manage
<1>4. CASE Observe
  BY <1>4, ListenIInv, ReceiveIInv, ExecuteIInv, WholeIInv, PatchIInv DEF Observe
<1>5. CASE Fail
  BY <1>5, OriginIInv, EvaluateIInv, DecideIInv, StoreIInv, PublishIInv, GetFailsIInv, DropIInv
  DEF Fail
<1> QED  BY <1>1, <1>2, <1>3, <1>4, <1>5 DEF Next

LEMMA Invariance == Spec => []IInv
<1> QED  BY InitIInv, StepIInv, PTL DEF Spec

-----------------------------------------------------------------------------
(* Theorems *)

\* The state of the manager, the cache and the observable is well typed.
THEOREM TypeCorrect == Spec => []TypeOK
<1>1. IInv => TypeOK
  <2> SUFFICES ASSUME IInv PROVE TypeOK
    OBVIOUS
  <2>1. cache \in Caches /\ client.version \in Versions
    BY Facts DEF Sane, ClientTyped, Clients
  <2>2. \A i \in DOMAIN requests : Len(requests[i].versions) \in {0, 2}
    <3> SUFFICES ASSUME NEW i \in DOMAIN requests PROVE Len(requests[i].versions) \in {0, 2}
      OBVIOUS
    <3>1. requests[i] \in Requests
      BY Facts DEF ClientTyped
    <3> QED  BY <3>1 DEF Requests
  <2> QED  BY <2>1, <2>2, Facts DEF TypeOK, Caches, Diffs, OriginTyped, JobTyped, Subs
<1> QED  BY <1>1, Invariance, PTL

\* Observable (client/src/observable/index.ts): the check of the three versions before
\* applyPatch() lets no patch through that was made from another result than the
\* client's, although version, patch and result reach it apart from each other, replies
\* and messages are lost, calls are made again and the manager sets the version before
\* it stores the result; except after a result has returned and one was stored without
\* its patch, or not at all.
THEOREM PatchesFit == Spec => []PatchFits
<1>1. IInv => PatchFits
  BY DEF IInv
<1> QED  BY <1>1, Invariance, PTL

\* The replies come in the order of the calls and the cache only moves on: whatever the
\* messages say meanwhile, no result is replaced by one before it.
THEOREM NoWayBack == Spec => NeverBack
<1>1. IInv /\ [Next]_vars => [~returned' => client'.version >= client.version]_vars
  <2> SUFFICES ASSUME IInv, [Next]_vars, ~returned'
               PROVE  client'.version >= client.version
    OBVIOUS
  <2>1. client.version \in Nat
    BY Numbers, Facts DEF ClientTyped, Clients
  <2>2. CASE Whole \/ Patch
    <3> DEFINE got == Head(requests).reply[1]
    <3>1. requests # <<>> /\ Head(requests).reply # <<>> /\ returned' = returned
      BY <2>2 DEF Whole, Patch, origin
    <3>2. Sane(got) /\ client.version <= Rank(got.version)
      BY <3>1, FirstCall
    <3>3. client' = client \/ client'.version = got.version
      <4>1. client \in Clients
        BY Facts DEF ClientTyped
      <4> QED  BY <2>2, <4>1 DEF Whole, Patch, Clients
    <3> HIDE DEF got
    <3>4. got.version \in Nat /\ Rank(got.version) <= got.version
      <4>1. got.version \in Nat
        BY <3>2, Numbers DEF Sane, Caches
      <4>2. Rank(got.version) \in {0, got.version}
        BY DEF Rank, None
      <4> QED  BY <4>1, <4>2
    <3>5. Rank(got.version) \in Nat
      BY <3>2, Numbers DEF Sane, Caches
    <3> QED  BY <2>1, <3>2, <3>3, <3>4, <3>5
  <2>3. CASE client'.version = client.version
    BY <2>1, <2>3
  <2>4. CASE Subscribe \/ Reconnect \/ Drop
    <3>1. client \in Clients
      BY Facts DEF ClientTyped
    <3> QED  BY <2>3, <2>4, <3>1 DEF Subscribe, Reconnect, Drop, Clients
  <2>5. CASE client' = client
    BY <2>3, <2>5
  <2>6. CASE Change \/ Manage \/ Fail \/ Receive \/ Execute
    <3>1. client' = client \/ Drop
      BY <2>6 DEF Change, Manage, Fail, Event, SendUpdates, Read, Mark, Unchanged, Changed,
         ReadPrev, Store, Publish, Again, Psubscribe, Relink, MarkFails, ReadFails,
         ReadPrevFails, StoreFails, PublishFails, Reject, GetFails, Cut, Receive, Execute
    <3> QED  BY <2>4, <2>5, <3>1
  <2>7. CASE UNCHANGED vars
    BY <2>5, <2>7 DEF vars
  <2> QED  BY <2>2, <2>4, <2>6, <2>7 DEF Next, Observe
<1> QED  BY <1>1, Invariance, PTL DEF Spec, NeverBack

=============================================================================
