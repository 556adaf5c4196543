--------------------------- MODULE ConnectionProofs ---------------------------
(***************************************************************************)
(* The connection of a client never idles out under somebody who uses it,  *)
(* and, as long as the queue does not grow to the length of a batch, loses *)
(* no command and has none executed again that was answered: for any       *)
(* commands and channels, and however often the link fails, the server is  *)
(* busy and the connection is given up.                                    *)
(***************************************************************************)
EXTENDS Connection, FiniteSetTheorems, SequenceTheorems, TLAPS

-----------------------------------------------------------------------------
(* The inductive invariant *)

\* Whatever is held was issued.
Typed ==
  /\ queue \in Seq(issued) /\ drained \in Seq(issued) /\ batch \in Seq(issued)
  /\ rest \in Seq(issued) /\ ghost \in Seq(issued)
  /\ settled \subseteq issued /\ issued \subseteq Commands
  /\ pc \in {"none", "tick", "sent", "wait"}
  /\ inProgress \in BOOLEAN /\ timer \in BOOLEAN /\ active \in Nat
  /\ up \subseteq Clients /\ connected \in BOOLEAN /\ isDc \in BOOLEAN /\ isDestroyed \in BOOLEAN
  /\ channels \subseteq Channels /\ IsFiniteSet(channels)
  /\ runs \in [Commands -> Nat] /\ count \in [drops : Nat, busy : Nat, hard : Nat]

\* Every channel and every drain has been counted.  A drain that comes to nothing is never
\* taken off, so that there may be more.
Counted ==
  /\ active >= Cardinality(channels) + IF inProgress THEN 1 ELSE 0
  /\ pc # "none" => inProgress
  /\ timer => active = 0

IInv == Typed /\ Counted

\* The queue has not grown to the length of a batch.
Short == Len(queue) < Limit

\* Then a batch is all of the queue, and what is in flight is in queueBeingDrained too.
Whole ==
  /\ rest = <<>> /\ (pc \in {"none", "tick"} => batch = <<>>)
  /\ Range(batch) \subseteq Range(drained)

Kept == isDestroyed \/ issued \subseteq settled \cup Range(queue) \cup Range(batch)

\* Until it is given up for a new connection, each command is in one place only.
Apart ==
  count.hard = 0 =>
    /\ ghost = <<>> /\ IsInjective(queue) /\ IsInjective(batch)
    /\ Range(queue) \cap Range(batch) = {}
    /\ settled \cap (Range(queue) \cup Range(batch)) = {}

Below == Whole /\ Kept /\ Apart

-----------------------------------------------------------------------------
(* Sequences *)

LEMMA ConcatFacts ==
  ASSUME NEW S, NEW s \in Seq(S), NEW t \in Seq(S)
  PROVE  /\ s \o t \in Seq(S) /\ Range(s \o t) = Range(s) \cup Range(t)
         /\ Range(s) \subseteq S /\ Range(<<>>) = {}
         /\ (IsInjective(s) /\ IsInjective(t) /\ Range(s) \cap Range(t) = {} => IsInjective(s \o t))
<1>1. /\ s \o t \in Seq(S) /\ Len(s \o t) = Len(s) + Len(t)
      /\ Len(s) \in Nat /\ Len(t) \in Nat
      /\ DOMAIN s = 1 .. Len(s) /\ DOMAIN t = 1 .. Len(t) /\ DOMAIN (s \o t) = 1 .. Len(s) + Len(t)
      /\ \A i \in 1 .. Len(s) : (s \o t)[i] = s[i] /\ s[i] \in S
      /\ \A i \in 1 .. Len(t) : (s \o t)[Len(s) + i] = t[i]
  OBVIOUS
<1> DEFINE u == s \o t
<1> HIDE DEF u
<1>2. ASSUME NEW i \in DOMAIN u
      PROVE  \/ i \in DOMAIN s /\ u[i] = s[i]
             \/ i - Len(s) \in DOMAIN t /\ u[i] = t[i - Len(s)]
  <2>1. CASE i <= Len(s)
    BY <1>1, <2>1 DEF u
  <2>2. CASE i > Len(s)
    <3>1. i - Len(s) \in 1 .. Len(t) /\ Len(s) + (i - Len(s)) = i
      BY <1>1, <2>2 DEF u
    <3> QED  BY <1>1, <3>1 DEF u
  <2> QED  BY <1>1, <2>1, <2>2 DEF u
<1>3. Range(u) \subseteq Range(s) \cup Range(t)
  BY <1>2 DEF Range
<1>4. Range(s) \subseteq Range(u)
  <2>1. \A i \in DOMAIN s : i \in DOMAIN u /\ u[i] = s[i]
    BY <1>1 DEF u
  <2> QED  BY <2>1 DEF Range
<1>5. Range(t) \subseteq Range(u)
  <2>1. \A i \in DOMAIN t : Len(s) + i \in DOMAIN u /\ u[Len(s) + i] = t[i]
    BY <1>1 DEF u
  <2> QED  BY <2>1 DEF Range
<1>6. ASSUME IsInjective(s), IsInjective(t), Range(s) \cap Range(t) = {}  PROVE IsInjective(u)
  <2> SUFFICES ASSUME NEW i \in DOMAIN u, NEW j \in DOMAIN u, u[i] = u[j]  PROVE i = j
    BY DEF IsInjective
  <2>1. \A k \in DOMAIN s, l \in DOMAIN t : s[k] # t[l]
    BY <1>6 DEF Range
  <2>2. i \in Int /\ j \in Int /\ Len(s) \in Int
    BY <1>1 DEF u
  <2>3. CASE i \in DOMAIN s /\ u[i] = s[i]
    BY <1>2, <1>6, <2>1, <2>3 DEF IsInjective
  <2>4. CASE i - Len(s) \in DOMAIN t /\ u[i] = t[i - Len(s)]
    <3>1. j - Len(s) \in DOMAIN t /\ u[j] = t[j - Len(s)]
      BY <1>2, <2>1, <2>4
    <3>2. i - Len(s) = j - Len(s)
      BY <1>6, <2>4, <3>1 DEF IsInjective
    <3> QED  BY <2>2, <3>2
  <2> QED  BY <1>2, <2>3, <2>4
<1>7. Range(s) \subseteq S /\ Range(<<>>) = {}
  BY <1>1 DEF Range
<1> QED  BY <1>1, <1>3, <1>4, <1>5, <1>6, <1>7 DEF u

LEMMA AppendFacts ==
  ASSUME NEW S, NEW s \in Seq(S), NEW c \in S
  PROVE  /\ Append(s, c) \in Seq(S) /\ Range(Append(s, c)) = Range(s) \cup {c}
         /\ (IsInjective(s) /\ c \notin Range(s) => IsInjective(Append(s, c)))
<1>1. <<c>> \in Seq(S) /\ Append(s, c) = s \o <<c>>
  OBVIOUS
<1>2. Range(<<c>>) = {c} /\ IsInjective(<<c>>)
  <2>1. DOMAIN <<c>> = {1} /\ <<c>>[1] = c
    OBVIOUS
  <2> QED  BY <2>1 DEF Range, IsInjective
<1>3. \A t \in Seq(S) : /\ s \o t \in Seq(S) /\ Range(s \o t) = Range(s) \cup Range(t)
                          /\ (IsInjective(s) /\ IsInjective(t) /\ Range(s) \cap Range(t) = {}
                                => IsInjective(s \o t))
  BY ConcatFacts
<1> QED  BY <1>1, <1>2, <1>3

LEMMA SeqGrows == ASSUME NEW S, NEW T, S \subseteq T, NEW s \in Seq(S) PROVE s \in Seq(T)
OBVIOUS

\* The k-th of some numbers is the one that k of them do not exceed.
LEMMA Ranks ==
  ASSUME NEW n \in Nat, NEW S \in SUBSET (1 .. n)
  PROVE  LET rank(i) == Cardinality({j \in S : j <= i})
         IN  /\ IsFiniteSet(S) /\ Cardinality(S) \in Nat
             /\ \A i \in S : rank(i) \in 1 .. Cardinality(S)
             /\ \A i, j \in S : rank(i) = rank(j) => i = j
             /\ \A k \in 1 .. Cardinality(S) : \E i \in S : rank(i) = k
<1> DEFINE upto(i) == {j \in S : j <= i}
           rank == [i \in S |-> Cardinality(upto(i))]
<1>1. IsFiniteSet(S) /\ Cardinality(S) \in Nat
  <2>1. IsFiniteSet(1 .. n)
    BY FS_Interval
  <2> QED  BY <2>1, FS_Subset, FS_CardinalityType
<1>2. ASSUME NEW i \in S
      PROVE  IsFiniteSet(upto(i)) /\ rank[i] \in 1 .. Cardinality(S)
  <2>1. upto(i) \in SUBSET S /\ i \in upto(i)
    OBVIOUS
  <2>2. IsFiniteSet(upto(i)) /\ Cardinality(upto(i)) <= Cardinality(S)
    BY <1>1, <2>1, FS_Subset
  <2>3. Cardinality(upto(i)) \in Nat /\ Cardinality(upto(i)) # 0
    BY <2>1, <2>2, FS_CardinalityType, FS_EmptySet
  <2> QED  BY <1>1, <2>2, <2>3
<1>3. ASSUME NEW i \in S, NEW j \in S, i < j  PROVE rank[i] # rank[j]
  <2>0. S \subseteq Int
    OBVIOUS
  <2>1. upto(i) \in SUBSET upto(j) /\ j \in upto(j) /\ j \notin upto(i)
    <3>1. \A k \in S : k <= i => k <= j
      BY <1>3, <2>0
    <3>2. j <= j /\ ~(j <= i)
      BY <1>3, <2>0
    <3> QED  BY <3>1, <3>2
  <2>2. Cardinality(upto(j)) # Cardinality(upto(i))
    <3> HIDE DEF upto
    <3> QED  BY <1>2, <2>1, FS_Subset
  <2> QED  BY <2>2
<1>4. \A i, j \in S : rank[i] = rank[j] => i = j
  <2>1. \A i, j \in S : i < j \/ j < i \/ i = j
    OBVIOUS
  <2> HIDE DEF rank
  <2> QED  BY <1>3, <2>1
<1>5. rank \in Injection(S, 1 .. Cardinality(S))
  <2>1. rank \in [S -> 1 .. Cardinality(S)]
    BY <1>2
  <2> HIDE DEF rank
  <2> QED  BY <1>4, <2>1 DEF Injection, IsInjective
<1>6. rank \in Surjection(S, 1 .. Cardinality(S))
  <2>1. IsFiniteSet(1 .. Cardinality(S)) /\ Cardinality(1 .. Cardinality(S)) = Cardinality(S)
    BY <1>1, FS_Interval
  <2> HIDE DEF rank
  <2> QED  BY <1>5, <2>1, FS_Injection
<1>7. \A k \in 1 .. Cardinality(S) : \E i \in S : rank[i] = k
  BY <1>6 DEF Surjection
<1> QED  BY <1>1, <1>2, <1>4, <1>7

\* Of() keeps what it is asked for, and each place once.
LEMMA OfFacts ==
  ASSUME NEW S, batch \in Seq(S), NEW places \in SUBSET DOMAIN batch
  PROVE  /\ Of(places) \in Seq(S)
         /\ Range(Of(places)) = {batch[i] : i \in places}
         /\ (IsInjective(batch) => IsInjective(Of(places)))
         /\ (places = {} => Of(places) = <<>>)
<1> DEFINE rank(i) == Cardinality({j \in places : j <= i})
           Nth(k) == CHOOSE i \in places : rank(i) = k
           n == Cardinality(places)
<1>1. DOMAIN batch = 1 .. Len(batch) /\ Len(batch) \in Nat
  OBVIOUS
<1>2. /\ n \in Nat /\ \A i \in places : rank(i) \in 1 .. n
      /\ \A i, j \in places : rank(i) = rank(j) => i = j
      /\ \A k \in 1 .. n : \E i \in places : rank(i) = k
  BY <1>1, Ranks
<1>3. Of(places) = [k \in 1 .. n |-> batch[Nth(k)]]
  BY DEF Of
<1> HIDE DEF rank, n
<1>4. \A k \in 1 .. n : Nth(k) \in places /\ rank(Nth(k)) = k
  BY <1>2
<1>5. \A i \in places : Nth(rank(i)) = i
  BY <1>2, <1>4
<1> HIDE DEF Nth
<1>6. \A i \in places : batch[i] \in S
  BY <1>1
<1>7. Of(places) \in Seq(S) /\ DOMAIN Of(places) = 1 .. n
  BY <1>2, <1>3, <1>4, <1>6
<1>8. Range(Of(places)) = {batch[i] : i \in places}
  <2>1. Range(Of(places)) = {batch[Nth(k)] : k \in 1 .. n}
    BY <1>3, <1>7 DEF Range
  <2>2. \A k \in 1 .. n : Nth(k) \in places
    BY <1>4
  <2>3. \A i \in places : rank(i) \in 1 .. n /\ Nth(rank(i)) = i
    BY <1>2, <1>5
  <2> QED  BY <2>1, <2>2, <2>3
<1>9. ASSUME IsInjective(batch) PROVE IsInjective(Of(places))
  <2>1. \A k, l \in 1 .. n : Nth(k) = Nth(l) => k = l
    BY <1>4
  <2>2. \A i, j \in places : batch[i] = batch[j] => i = j
    BY <1>9 DEF IsInjective
  <2>3. \A k, l \in 1 .. n : batch[Nth(k)] = batch[Nth(l)] => k = l
    BY <1>4, <2>1, <2>2
  <2>4. \A k \in 1 .. n : Of(places)[k] = batch[Nth(k)]
    BY <1>3
  <2> QED  BY <1>7, <2>3, <2>4 DEF IsInjective
<1>10. ASSUME places = {} PROVE Of(places) = <<>>
  <2>1. n = 0
    BY <1>10, FS_EmptySet DEF n
  <2> QED  BY <1>7, <2>1
<1> QED  BY <1>7, <1>8, <1>9, <1>10

-----------------------------------------------------------------------------
(* What the parts of a step do to the invariant *)

LEMMA InitIInv == Init => IInv /\ Below
<1> SUFFICES ASSUME Init PROVE IInv /\ Below
  OBVIOUS
<1>1. IsFiniteSet({}) /\ Cardinality({}) = 0 /\ <<>> \in Seq({}) /\ DOMAIN <<>> = {}
  BY FS_EmptySet
<1>2. Typed /\ Counted
  <2>1. /\ runs \in [Commands -> Nat] /\ count \in [drops : Nat, busy : Nat, hard : Nat]
        /\ IsFiniteSet(channels) /\ Cardinality(channels) = 0
    BY <1>1 DEF Init
  <2>2. Typed
    BY <1>1, <2>1 DEF Init, Typed
  <2>3. Counted
    BY <2>1 DEF Init, Counted
  <2> QED  BY <2>2, <2>3
<1>3. Range(<<>>) = {} /\ IsInjective(<<>>)
  BY <1>1 DEF Range, IsInjective
<1>4. Below
  BY <1>3 DEF Init, Below, Whole, Kept, Apart
<1> QED  BY <1>2, <1>4 DEF IInv

\* What remains of what is held when more is issued.
LEMMA TypedSteps ==
  ASSUME Typed
  PROVE  /\ \A c \in Commands : /\ queue \in Seq(issued \cup {c}) /\ drained \in Seq(issued \cup {c})
                                /\ batch \in Seq(issued \cup {c}) /\ rest \in Seq(issued \cup {c})
                                /\ ghost \in Seq(issued \cup {c})
                                /\ Append(queue, c) \in Seq(issued \cup {c})
         /\ \A s, t \in Seq(issued) : s \o t \in Seq(issued)
         /\ <<>> \in Seq(issued) /\ active + 1 \in Nat
         /\ IsFiniteSet(channels) /\ Cardinality(channels) \in Nat
         /\ \A key \in {"drops", "busy", "hard"} : \A max :
              Count(key, max) => count' \in [drops : Nat, busy : Nat, hard : Nat]
<1>1. ASSUME NEW c \in Commands
      PROVE  /\ queue \in Seq(issued \cup {c}) /\ drained \in Seq(issued \cup {c})
             /\ batch \in Seq(issued \cup {c}) /\ rest \in Seq(issued \cup {c})
             /\ ghost \in Seq(issued \cup {c})
             /\ Append(queue, c) \in Seq(issued \cup {c})
  <2>1. /\ queue \in Seq(issued \cup {c}) /\ drained \in Seq(issued \cup {c})
        /\ batch \in Seq(issued \cup {c}) /\ rest \in Seq(issued \cup {c})
        /\ ghost \in Seq(issued \cup {c})
    BY SeqMonotonic DEF Typed
  <2>2. Append(queue, c) \in Seq(issued \cup {c})
    BY <2>1, AppendProperties
  <2> QED  BY <2>1, <2>2
<1>2. \A s, t \in Seq(issued) : s \o t \in Seq(issued)
  BY ConcatProperties
<1>3. <<>> \in Seq(issued) /\ active + 1 \in Nat
  BY DEF Typed
<1>4. IsFiniteSet(channels) /\ Cardinality(channels) \in Nat
  BY FS_CardinalityType DEF Typed
<1>5. ASSUME NEW key \in {"drops", "busy", "hard"}, NEW max, Count(key, max)
      PROVE  count' \in [drops : Nat, busy : Nat, hard : Nat]
  <2>1. count' = [count EXCEPT ![key] = count[key] + 1]
    BY <1>5 DEF Count
  <2>2. count \in [drops : Nat, busy : Nat, hard : Nat]
    BY DEF Typed
  <2>3. CASE key = "drops"  BY <2>1, <2>2, <2>3
  <2>4. CASE key = "busy"   BY <2>1, <2>2, <2>4
  <2>5. CASE key = "hard"   BY <2>1, <2>2, <2>5
  <2> QED  BY <2>3, <2>4, <2>5
<1> QED  BY <1>1, <1>2, <1>3, <1>4, <1>5

LEMMA RanFacts ==
  ASSUME runs \in [Commands -> Nat], NEW places \in SUBSET DOMAIN batch, NEW S, batch \in Seq(S),
         Ran(places)
  PROVE  /\ runs' \in [Commands -> Nat]
         /\ \A c \in Commands : c \notin Range(batch) => runs'[c] = runs[c]
<1> DEFINE of(c) == {i \in places : batch[i] = c}
<1>1. ASSUME NEW c \in Commands
      PROVE  Cardinality(of(c)) \in Nat /\ (c \notin Range(batch) => Cardinality(of(c)) = 0)
  <2>1. DOMAIN batch = 1 .. Len(batch) /\ Len(batch) \in Nat
    OBVIOUS
  <2>2. IsFiniteSet(DOMAIN batch) /\ of(c) \in SUBSET DOMAIN batch
    BY <2>1, FS_Interval
  <2>3. IsFiniteSet(of(c))
    BY <2>2, FS_Subset
  <2>4. c \notin Range(batch) => of(c) = {}
    BY DEF Range
  <2> HIDE DEF of
  <2> QED  BY <2>3, <2>4, FS_CardinalityType, FS_EmptySet
<1>2. runs' = [c \in Commands |-> runs[c] + Cardinality(of(c))]
  BY DEF Ran
<1> HIDE DEF of
<1>3. \A c \in Commands : runs[c] \in Nat
  OBVIOUS
<1> QED  BY <1>1, <1>2, <1>3

\* The parts of the state that the end of a batch replaces.
Held0 == /\ queue \in Seq(issued) /\ drained \in Seq(issued) /\ batch \in Seq(issued)
         /\ rest \in Seq(issued)
         /\ pc \in {"none", "tick", "sent", "wait"} /\ inProgress \in BOOLEAN
         /\ timer \in BOOLEAN /\ active \in Nat

LEMMA DoneIInv ==
  ASSUME IInv, pc = "sent", issued' = issued, channels' = channels, NEW q \in Seq(issued), Done(q)
  PROVE  Held0' /\ Counted'
<1>1. /\ Typed /\ Counted /\ inProgress /\ Cardinality(channels) \in Nat
      /\ <<>> \in Seq(issued)
  BY TypedSteps DEF IInv, Counted
<1>2. active \in Nat /\ timer \in BOOLEAN /\ rest \in Seq(issued)
  BY <1>1 DEF Typed
<1>3. active >= Cardinality(channels) + 1 /\ ~timer
  BY <1>1, <1>2 DEF Counted
<1>4. CASE rest # <<>> \/ q # <<>>
  <2>1. /\ queue' = q /\ drained' = <<>> /\ rest' = <<>> /\ inProgress' = TRUE /\ pc' = "tick"
        /\ batch' = rest /\ active' = active /\ timer' = FALSE
    BY <1>4 DEF Done, Drain
  <2> QED  BY <1>1, <1>2, <1>3, <2>1 DEF Held0, Counted
<1>5. CASE ~(rest # <<>> \/ q # <<>>)
  <2>1. /\ queue' = q /\ drained' = <<>> /\ rest' = <<>> /\ inProgress' = FALSE /\ pc' = "none"
        /\ batch' = <<>> /\ active' = active - 1 /\ timer' = (timer \/ IdleNow(active - 1))
    BY <1>5 DEF Done, RemoveActive
  <2>2. timer' = IdleNow(active - 1) /\ (IdleNow(active - 1) <=> active - 1 = 0 /\ (connected \/ isDc) /\ ~isDestroyed)
    BY <1>3, <2>1 DEF IdleNow
  <2>3. timer' \in BOOLEAN /\ (timer' => active' = 0)
    BY <2>1, <2>2
  <2>4. active' \in Nat /\ active' >= Cardinality(channels)
    BY <1>1, <1>2, <1>3, <2>1
  <2>5. Held0'
    BY <1>1, <2>1, <2>3, <2>4 DEF Held0
  <2>6. Counted'
    BY <1>1, <2>1, <2>3, <2>4 DEF Counted
  <2> QED  BY <2>5, <2>6
<1> QED  BY <1>4, <1>5

LEMMA ExecIInv ==
  ASSUME IInv, pc = "sent", issued' = issued, channels' = channels,
         NEW busy \in SUBSET DOMAIN batch, NEW lost \in SUBSET DOMAIN batch, Exec(busy, lost)
  PROVE  Held0' /\ Counted' /\ settled' \subseteq issued
<1>1. /\ Typed /\ Counted /\ batch \in Seq(issued) /\ queue \in Seq(issued)
      /\ settled \subseteq issued
  BY DEF IInv, Typed
<1>2. Of(busy) \in Seq(issued) /\ Of(lost) \in Seq(issued)
  BY <1>1, OfFacts
<1>3. queue \o Of(lost) \in Seq(issued)
  BY <1>1, <1>2, TypedSteps
<1>4. settled' \subseteq issued
  <2>1. \A i \in DOMAIN batch : batch[i] \in issued
    BY <1>1
  <2> QED  BY <1>1, <2>1 DEF Exec, Known
<1>5. CASE busy = {}
  BY <1>3, <1>4, <1>5, DoneIInv DEF Exec
<1>6. CASE busy # {}
  <2>1. /\ queue' = queue \o Of(lost) /\ pc' = "wait" /\ batch' = Of(busy)
        /\ UNCHANGED <<drained, rest, inProgress, active, timer>>
    BY <1>6 DEF Exec, life
  <2> QED  BY <1>1, <1>2, <1>3, <1>4, <2>1 DEF Held0, Counted, Typed
<1> QED  BY <1>5, <1>6

-----------------------------------------------------------------------------
(* Steps: what is typed and counted *)

\* Steps that leave the count of users alone.
LEMMA SameCount ==
  ASSUME IInv, Typed', active' = active, channels' = channels,
         inProgress' => inProgress, pc' # "none" => inProgress', timer' => active = 0
  PROVE  IInv'
<1>1. /\ active \in Nat /\ Cardinality(channels) \in Nat /\ inProgress \in BOOLEAN
      /\ active >= Cardinality(channels) + IF inProgress THEN 1 ELSE 0
  BY TypedSteps DEF IInv, Typed, Counted
<1>2. inProgress' \in BOOLEAN
  BY DEF Typed
<1>3. active >= Cardinality(channels) + IF inProgress' THEN 1 ELSE 0
  BY <1>1, <1>2
<1> QED  BY <1>3 DEF IInv, Counted

LEMMA IssueIInv == ASSUME IInv, NEW c \in Commands, Issue(c) PROVE IInv'
<1>1. /\ Typed /\ Counted /\ issued' = issued \cup {c} /\ queue' = Append(queue, c)
      /\ UNCHANGED <<drained, rest, up, connected, isDc, isDestroyed, channels, settled, runs, ghost, count>>
  BY DEF IInv, Issue, link
<1>2. /\ queue' \in Seq(issued') /\ drained' \in Seq(issued') /\ batch \in Seq(issued')
      /\ rest' \in Seq(issued') /\ ghost' \in Seq(issued') /\ <<>> \in Seq(issued')
  BY <1>1, TypedSteps
<1>3. CASE ~inProgress /\ connected
  <2>1. /\ inProgress' = TRUE /\ pc' = "tick" /\ batch' = <<>> /\ active' = active + 1 /\ timer' = FALSE
    BY <1>3 DEF Issue, Drain, AddActive
  <2>2. Typed'
    <3>1. active' \in Nat /\ settled' \subseteq issued' /\ issued' \subseteq Commands
      BY <1>1, <2>1 DEF Typed
    <3>2. batch' \in Seq(issued') /\ timer' \in BOOLEAN /\ inProgress' \in BOOLEAN
          /\ pc' \in {"none", "tick", "sent", "wait"}
      BY <1>2, <2>1
    <3>3. /\ up' \subseteq Clients /\ connected' \in BOOLEAN /\ isDc' \in BOOLEAN
          /\ isDestroyed' \in BOOLEAN /\ channels' \subseteq Channels /\ IsFiniteSet(channels')
          /\ runs' \in [Commands -> Nat] /\ count' \in [drops : Nat, busy : Nat, hard : Nat]
      BY <1>1, Zenon DEF Typed
    <3> QED  BY <1>2, <3>1, <3>2, <3>3 DEF Typed
  <2>3. Cardinality(channels) \in Nat /\ active >= Cardinality(channels)
    BY <1>1, <1>3, TypedSteps DEF Counted
  <2>4. active \in Nat
    BY <1>1 DEF Typed
  <2>5. active' >= Cardinality(channels') + IF inProgress' THEN 1 ELSE 0
    BY <1>1, <2>1, <2>3, <2>4
  <2> QED  BY <2>1, <2>2, <2>5 DEF IInv, Counted
<1>4. CASE ~(~inProgress /\ connected)
  <2>1. UNCHANGED <<pc, batch, inProgress, active, timer>>
    BY <1>4 DEF Issue, life
  <2>2. Typed'
    BY <1>1, <1>2, <2>1 DEF Typed
  <2> QED  BY <1>1, <2>1, <2>2, SameCount DEF Counted
<1> QED  BY <1>3, <1>4

LEMMA TickIInv == ASSUME IInv, Tick PROVE IInv'
<1> DEFINE q == IF batch = <<>> THEN queue ELSE batch
<1>1. /\ Typed /\ Counted /\ pc = "tick" /\ pc' = "sent" /\ inProgress
      /\ UNCHANGED <<inProgress, active, timer, up, connected, isDc, isDestroyed, channels,
                     issued, settled, runs, ghost, count>>
  BY DEF IInv, Counted, Tick, life, link, log
<1>2. /\ queue' = IF batch = <<>> THEN <<>> ELSE queue
      /\ drained' = q
      /\ batch' = IF Len(q) >= Limit THEN SubSeq(q, 1, Limit) ELSE q
      /\ rest' = IF Len(q) >= Limit THEN SubSeq(q, Limit, Len(q)) ELSE <<>>
  BY DEF Tick
<1>3. q \in Seq(issued) /\ queue \in Seq(issued) /\ <<>> \in Seq(issued)
  BY <1>1 DEF Typed
<1> HIDE DEF q
<1>4. ASSUME Len(q) >= Limit
      PROVE  SubSeq(q, 1, Limit) \in Seq(issued) /\ SubSeq(q, Limit, Len(q)) \in Seq(issued)
  <2>1. Limit \in Nat \ {0} /\ Len(q) \in Nat /\ \A i \in 1 .. Len(q) : q[i] \in issued
    BY <1>3, LimitAssumption
  <2>2. (\A i \in 1 .. Limit : q[i] \in issued) /\ (\A i \in Limit .. Len(q) : q[i] \in issued)
    BY <1>4, <2>1
  <2>3. SubSeq(q, 1, Limit) \in Seq(issued)
    BY <2>1, <2>2, SubSeqProperties
  <2>4. SubSeq(q, Limit, Len(q)) \in Seq(issued)
    BY <2>1, <2>2, SubSeqProperties
  <2> QED  BY <2>3, <2>4
<1>5. /\ queue' \in Seq(issued) /\ drained' \in Seq(issued) /\ batch' \in Seq(issued)
      /\ rest' \in Seq(issued)
  BY <1>2, <1>3, <1>4
<1>6. Typed'
  BY <1>1, <1>5 DEF Typed
<1> QED  BY <1>1, <1>6, SameCount DEF Counted

LEMMA TickInVainIInv == ASSUME IInv, TickInVain PROVE IInv'
<1>1. /\ Typed /\ Counted /\ inProgress' = FALSE /\ pc' = "none" /\ batch' = <<>>
      /\ UNCHANGED <<queue, drained, rest, active, timer, up, connected, isDc, isDestroyed, channels,
                     issued, settled, runs, ghost, count>>
  BY DEF IInv, TickInVain, life, link, log
<1>2. Typed'
  BY <1>1, TypedSteps DEF Typed
<1> QED  BY <1>1, <1>2, SameCount DEF Counted

\* The end of a batch, however it ends.
LEMMA ExecStep ==
  ASSUME IInv, pc = "sent", UNCHANGED <<channels, issued, ghost>>,
         NEW busy \in SUBSET DOMAIN batch, NEW lost \in SUBSET DOMAIN batch, Exec(busy, lost),
         NEW places \in SUBSET DOMAIN batch, Ran(places),
         up' \subseteq Clients, connected' \in BOOLEAN, isDc' \in BOOLEAN, isDestroyed' \in BOOLEAN,
         count' \in [drops : Nat, busy : Nat, hard : Nat]
  PROVE  IInv'
<1>1. Held0' /\ Counted' /\ settled' \subseteq issued
  BY ExecIInv
<1>2. runs' \in [Commands -> Nat]
  <2>1. runs \in [Commands -> Nat] /\ batch \in Seq(issued)
    BY DEF IInv, Typed
  <2> QED  BY <2>1, RanFacts
<1>3. /\ issued \subseteq Commands /\ ghost \in Seq(issued)
      /\ channels \subseteq Channels /\ IsFiniteSet(channels)
  BY DEF IInv, Typed
<1>4. Typed'
  BY <1>1, <1>2, <1>3 DEF Typed, Held0
<1> QED  BY <1>1, <1>4 DEF IInv

LEMMA ReplyIInv == ASSUME IInv, Reply PROVE IInv'
<1>1. /\ pc = "sent" /\ Exec({}, {}) /\ Ran(DOMAIN batch)
      /\ UNCHANGED <<channels, issued, ghost, up, connected, isDc, isDestroyed, count>>
  BY DEF Reply, link
<1>2. /\ up \subseteq Clients /\ connected \in BOOLEAN /\ isDc \in BOOLEAN /\ isDestroyed \in BOOLEAN
      /\ count \in [drops : Nat, busy : Nat, hard : Nat]
  BY DEF IInv, Typed
<1> QED  BY <1>1, <1>2, ExecStep

LEMMA ReplyBusyIInv == ASSUME IInv, ReplyBusy PROVE IInv'
<1>1. /\ pc = "sent" /\ Count("busy", MaxBusy)
      /\ UNCHANGED <<channels, issued, ghost, up, connected, isDc, isDestroyed>>
  BY DEF ReplyBusy, link
<1>2. PICK B \in SUBSET DOMAIN batch : Exec(B, {}) /\ Ran(DOMAIN batch \ B)
  BY DEF ReplyBusy
<1>3. /\ up \subseteq Clients /\ connected \in BOOLEAN /\ isDc \in BOOLEAN /\ isDestroyed \in BOOLEAN
      /\ Typed
  BY DEF IInv, Typed
<1>4. count' \in [drops : Nat, busy : Nat, hard : Nat]
  BY <1>1, <1>3, TypedSteps
<1>5. {} \in SUBSET DOMAIN batch /\ DOMAIN batch \ B \in SUBSET DOMAIN batch
  OBVIOUS
<1> QED  BY <1>1, <1>2, <1>3, <1>4, <1>5, ExecStep

LEMMA RetryIInv == ASSUME IInv, Retry PROVE IInv'
<1>1. /\ Typed /\ Counted /\ pc = "wait" /\ inProgress
      /\ UNCHANGED <<drained, rest, inProgress, active, timer, up, connected, isDc, isDestroyed,
                     channels, issued, settled, runs, ghost, count>>
  BY DEF IInv, Counted, Retry, life, link, log
<1>2. queue \o batch \in Seq(issued) /\ <<>> \in Seq(issued)
  BY <1>1, TypedSteps DEF Typed
<1>3. /\ queue' \in Seq(issued) /\ batch' \in Seq(issued) /\ pc' \in {"none", "sent"}
  BY <1>1, <1>2 DEF Retry, Typed
<1>4. Typed'
  BY <1>1, <1>3 DEF Typed
<1> QED  BY <1>1, <1>4, SameCount DEF Counted

LEMMA LoseIInv == ASSUME IInv, NEW t \in Clients, Lose(t) PROVE IInv'
<1>1. /\ Typed /\ Counted /\ Count("drops", MaxDrops)
      /\ up' = up \ {t} /\ connected' = FALSE /\ isDc' = (isDc \/ connected)
      /\ UNCHANGED <<isDestroyed, channels, issued, ghost>>
  BY DEF IInv, Lose
<1>2. /\ up' \subseteq Clients /\ connected' \in BOOLEAN /\ isDc' \in BOOLEAN /\ isDestroyed' \in BOOLEAN
      /\ count' \in [drops : Nat, busy : Nat, hard : Nat]
  BY <1>1, TypedSteps DEF Typed
<1>3. CASE t = "publisher" /\ pc = "sent"
  <2>0. PICK known \in 0 .. Len(batch) - 1 : \E ran \in known .. Len(batch) :
          Exec({}, known + 1 .. Len(batch)) /\ Ran(1 .. ran)
    BY <1>3 DEF Lose
  <2>1. PICK ran \in known .. Len(batch) : Exec({}, known + 1 .. Len(batch)) /\ Ran(1 .. ran)
    BY <2>0
  <2>2. DOMAIN batch = 1 .. Len(batch) /\ Len(batch) \in Nat
    BY <1>1 DEF Typed
  <2>3. known + 1 .. Len(batch) \in SUBSET DOMAIN batch /\ 1 .. ran \in SUBSET DOMAIN batch
    BY <2>2
  <2>4. {} \in SUBSET DOMAIN batch
    OBVIOUS
  <2> QED  BY <1>1, <1>2, <1>3, <2>1, <2>3, <2>4, ExecStep
<1>4. CASE ~(t = "publisher" /\ pc = "sent")
  <2>1. UNCHANGED <<queue, drained, pc, batch, rest, inProgress, active, timer, settled, runs>>
    BY <1>4 DEF Lose, work, life
  <2>2. Typed'
    BY <1>1, <1>2, <2>1 DEF Typed
  <2> QED  BY <1>1, <2>1, <2>2, SameCount DEF Counted
<1> QED  BY <1>3, <1>4

LEMMA ReadyIInv == ASSUME IInv, NEW t \in Clients, Ready(t) PROVE IInv'
<1>1. /\ Typed /\ Counted /\ up' = up \cup {t} /\ connected' = (up' = Clients)
      /\ UNCHANGED <<queue, drained, rest, isDc, isDestroyed, channels, issued, settled, runs,
                     ghost, count>>
  BY DEF IInv, Ready, log
<1>2. CASE up' = Clients /\ queue # <<>> /\ ~inProgress
  <2>1. /\ inProgress' = TRUE /\ pc' = "tick" /\ batch' = <<>> /\ active' = active + 1 /\ timer' = FALSE
    BY <1>2 DEF Ready, Drain, AddActive
  <2>2. Typed'
    BY <1>1, <2>1, TypedSteps DEF Typed
  <2>3. Cardinality(channels) \in Nat /\ active >= Cardinality(channels) /\ active \in Nat
    BY <1>1, <1>2, TypedSteps DEF Counted, Typed
  <2>4. active' >= Cardinality(channels') + IF inProgress' THEN 1 ELSE 0
    BY <1>1, <2>1, <2>3
  <2> QED  BY <2>1, <2>2, <2>4 DEF IInv, Counted
<1>3. CASE ~(up' = Clients /\ queue # <<>> /\ ~inProgress)
  <2>1. /\ timer' = (timer \/ (up' = Clients /\ active = 0))
        /\ UNCHANGED <<pc, batch, inProgress, active>>
    BY <1>3 DEF Ready
  <2>2. timer' \in BOOLEAN /\ (timer' => active = 0)
    BY <1>1, <2>1 DEF Counted
  <2>3. Typed'
    BY <1>1, <2>1, <2>2 DEF Typed
  <2> QED  BY <1>1, <2>1, <2>2, <2>3, SameCount DEF Counted
<1> QED  BY <1>2, <1>3

LEMMA IdleDestroyIInv == ASSUME IInv, IdleDestroy PROVE IInv'
<1>1. /\ Typed /\ Counted /\ isDestroyed' = TRUE /\ timer' = FALSE
      /\ UNCHANGED <<queue, drained, pc, batch, rest, inProgress, active, up, connected, isDc,
                     channels, issued, settled, runs, ghost, count>>
  BY DEF IInv, IdleDestroy, work, log
<1>2. Typed'
  BY <1>1 DEF Typed
<1> QED  BY <1>1, <1>2, SameCount DEF Counted

\* A new connection counts the channels that it takes over.
LEMMA HardDisconnectIInv == ASSUME IInv, HardDisconnect PROVE IInv'
<1>1. /\ Typed /\ Count("hard", MaxHard) /\ queue' = drained \o queue /\ drained' = <<>>
      /\ pc' = "none" /\ batch' = <<>> /\ rest' = <<>> /\ inProgress' = FALSE /\ up' = {}
      /\ connected' = FALSE /\ isDc' = FALSE /\ isDestroyed' = FALSE /\ timer' = FALSE
      /\ active' = Cardinality(channels)
      /\ ghost' = IF pc = "sent" THEN batch ELSE <<>>
      /\ UNCHANGED <<channels, issued, settled, runs>>
  BY DEF IInv, HardDisconnect, Fresh, log
<1>2. /\ queue' \in Seq(issued) /\ <<>> \in Seq(issued) /\ Cardinality(channels) \in Nat
      /\ ghost' \in Seq(issued) /\ count' \in [drops : Nat, busy : Nat, hard : Nat]
  BY <1>1, TypedSteps DEF Typed
<1>3. Typed'
  BY <1>1, <1>2 DEF Typed
<1>4. Counted'
  <2>1. active' >= Cardinality(channels') + IF inProgress' THEN 1 ELSE 0
    BY <1>1, <1>2
  <2> QED  BY <1>1, <2>1 DEF Counted
<1> QED  BY <1>3, <1>4 DEF IInv

LEMMA GhostReplyIInv == ASSUME IInv, GhostReply PROVE IInv'
<1>1. /\ Typed /\ Counted /\ ghost' = <<>>
      /\ UNCHANGED <<queue, drained, pc, batch, rest, inProgress, active, timer, up, connected, isDc,
                     isDestroyed, channels, issued, count>>
  BY DEF IInv, GhostReply, work, life, link
<1>2. PICK n \in 0 .. Len(ghost) :
        /\ settled' = settled \cup {ghost[i] : i \in 1 .. n}
        /\ runs' = [c \in Commands |-> runs[c] + Cardinality({i \in 1 .. n : ghost[i] = c})]
  BY DEF GhostReply
<1>3. settled' \subseteq issued
  <2>1. Len(ghost) \in Nat /\ \A i \in 1 .. Len(ghost) : ghost[i] \in issued
    BY <1>1 DEF Typed
  <2>2. \A i \in 1 .. n : ghost[i] \in issued
    BY <2>1
  <2> QED  BY <1>1, <1>2, <2>2 DEF Typed
<1>4. runs' \in [Commands -> Nat]
  <2> DEFINE of(c) == {i \in 1 .. n : ghost[i] = c}
  <2>1. ASSUME NEW c \in Commands PROVE Cardinality(of(c)) \in Nat
    <3>1. IsFiniteSet(1 .. n) /\ of(c) \in SUBSET (1 .. n)
      <4>1. n \in Int
        BY <1>1 DEF Typed
      <4> QED  BY <4>1, FS_Interval
    <3> HIDE DEF of
    <3> QED  BY <3>1, FS_Subset, FS_CardinalityType
  <2>2. runs \in [Commands -> Nat] /\ runs' = [c \in Commands |-> runs[c] + Cardinality(of(c))]
    BY <1>1, <1>2 DEF Typed
  <2> HIDE DEF of
  <2> QED  BY <2>1, <2>2
<1>5. Typed'
  BY <1>1, <1>3, <1>4, TypedSteps DEF Typed
<1> QED  BY <1>1, <1>5, SameCount DEF Counted

LEMMA SubscribeIInv == ASSUME IInv, NEW ch \in Channels, Subscribe(ch) PROVE IInv'
<1>1. /\ Typed /\ Counted /\ ch \notin channels /\ channels' = channels \cup {ch}
      /\ active' = active + 1 /\ timer' = FALSE
      /\ UNCHANGED <<queue, drained, pc, batch, rest, inProgress, up, connected, isDc, isDestroyed,
                     issued, settled, runs, ghost, count>>
  BY DEF IInv, Subscribe, AddActive, work, link, log
<1>2. IsFiniteSet(channels') /\ Cardinality(channels') = Cardinality(channels) + 1
  BY <1>1, TypedSteps, FS_AddElement
<1>3. Typed'
  <2>1. /\ queue' \in Seq(issued') /\ drained' \in Seq(issued') /\ batch' \in Seq(issued')
        /\ rest' \in Seq(issued') /\ ghost' \in Seq(issued')
        /\ settled' \subseteq issued' /\ issued' \subseteq Commands
    BY <1>1, Zenon DEF Typed
  <2>2. /\ pc' \in {"none", "tick", "sent", "wait"} /\ inProgress' \in BOOLEAN
        /\ up' \subseteq Clients /\ connected' \in BOOLEAN /\ isDc' \in BOOLEAN
        /\ isDestroyed' \in BOOLEAN
        /\ runs' \in [Commands -> Nat] /\ count' \in [drops : Nat, busy : Nat, hard : Nat]
    BY <1>1, Zenon DEF Typed
  <2>3. active \in Nat /\ channels \subseteq Channels
    BY <1>1, Zenon DEF Typed
  <2>4. active' \in Nat /\ timer' \in BOOLEAN /\ channels' \subseteq Channels
    <3>1. active' = active + 1 /\ timer' = FALSE /\ channels' = channels \cup {ch}
      BY <1>1
    <3>2. active' \in Nat
      BY <2>3, <3>1
    <3>3. channels' \subseteq Channels
      BY <2>3, <3>1
    <3> QED  BY <3>1, <3>2, <3>3
  <2> QED  BY <1>2, <2>1, <2>2, <2>4 DEF Typed
<1>4. Counted'
  <2>1. /\ active \in Nat /\ Cardinality(channels) \in Nat /\ inProgress \in BOOLEAN
        /\ active >= Cardinality(channels) + IF inProgress THEN 1 ELSE 0
    BY <1>1, TypedSteps DEF Typed, Counted
  <2>2. active' >= Cardinality(channels') + IF inProgress' THEN 1 ELSE 0
    BY <1>1, <1>2, <2>1
  <2> QED  BY <1>1, <2>2 DEF Counted
<1> QED  BY <1>3, <1>4 DEF IInv

LEMMA UnsubscribeIInv == ASSUME IInv, NEW ch \in Channels, Unsubscribe(ch) PROVE IInv'
<1>1. /\ Typed /\ Counted /\ ch \in channels /\ channels' = channels \ {ch}
      /\ active' = active - 1 /\ timer' = (timer \/ IdleNow(active - 1))
      /\ UNCHANGED <<queue, drained, pc, batch, rest, inProgress, up, connected, isDc, isDestroyed,
                     issued, settled, runs, ghost, count>>
  BY DEF IInv, Unsubscribe, RemoveActive, work, link, log
<1>2. IsFiniteSet(channels') /\ Cardinality(channels') = Cardinality(channels) - 1
  BY <1>1, TypedSteps, FS_RemoveElement
<1>3. /\ active \in Nat /\ Cardinality(channels) \in Nat /\ inProgress \in BOOLEAN
      /\ active >= Cardinality(channels) + IF inProgress THEN 1 ELSE 0
      /\ Cardinality(channels) # 0
  BY <1>1, TypedSteps, FS_EmptySet DEF Typed, Counted
<1>4. /\ active # 0 /\ active' \in Nat
      /\ active' >= Cardinality(channels') + IF inProgress' THEN 1 ELSE 0
  BY <1>1, <1>2, <1>3
<1>5. timer' \in BOOLEAN /\ (timer' => active' = 0)
  <2>1. ~timer /\ timer \in BOOLEAN
    BY <1>1, <1>4 DEF Counted, Typed
  <2>2. IdleNow(active - 1) \in BOOLEAN /\ (IdleNow(active - 1) => active - 1 = 0)
    BY DEF IdleNow
  <2> QED  BY <1>1, <2>1, <2>2
<1>6. Typed'
  BY <1>1, <1>2, <1>4, <1>5 DEF Typed
<1> QED  BY <1>1, <1>4, <1>5, <1>6 DEF IInv, Counted

LEMMA NextIInv == IInv /\ [Next]_vars => IInv'
<1> SUFFICES ASSUME IInv, [Next]_vars PROVE IInv'
  OBVIOUS
<1>1. ASSUME NEW c \in Commands, Issue(c) PROVE IInv'  BY <1>1, IssueIInv
<1>2. CASE Tick         BY <1>2, TickIInv
<1>3. CASE TickInVain   BY <1>3, TickInVainIInv
<1>4. CASE Reply        BY <1>4, ReplyIInv
<1>5. CASE ReplyBusy    BY <1>5, ReplyBusyIInv
<1>6. CASE Retry        BY <1>6, RetryIInv
<1>7. ASSUME NEW t \in Clients, Lose(t) PROVE IInv'   BY <1>7, LoseIInv
<1>8. ASSUME NEW t \in Clients, Ready(t) PROVE IInv'  BY <1>8, ReadyIInv
<1>9. CASE IdleDestroy      BY <1>9, IdleDestroyIInv
<1>10. CASE HardDisconnect  BY <1>10, HardDisconnectIInv
<1>11. CASE GhostReply      BY <1>11, GhostReplyIInv
<1>12. ASSUME NEW ch \in Channels, Subscribe(ch) PROVE IInv'    BY <1>12, SubscribeIInv
<1>13. ASSUME NEW ch \in Channels, Unsubscribe(ch) PROVE IInv'  BY <1>13, UnsubscribeIInv
<1>14. CASE UNCHANGED vars
  BY <1>14 DEF vars, work, life, link, log, IInv, Typed, Counted
<1> QED
  BY <1>1, <1>2, <1>3, <1>4, <1>5, <1>6, <1>7, <1>8, <1>9, <1>10, <1>11, <1>12, <1>13, <1>14 DEF Next

-----------------------------------------------------------------------------
(* Steps: what is lost and what is executed again, while the queue is short *)

\* What the end of a batch leaves: the commands with an answer are settled, the others are
\* held still, each in one place.
LEMMA ExecBelow ==
  ASSUME IInv, Below, pc = "sent", UNCHANGED <<issued, ghost>>, isDestroyed' = isDestroyed,
         count'.hard = count.hard,
         NEW busy \in SUBSET DOMAIN batch, NEW lost \in SUBSET DOMAIN batch, busy \cap lost = {},
         Exec(busy, lost)
  PROVE  Below'
<1> DEFINE q == queue \o Of(lost)
           at(places) == {batch[i] : i \in places}
           known == DOMAIN batch \ (busy \cup lost)
<1>1. /\ batch \in Seq(issued) /\ queue \in Seq(issued) /\ rest = <<>>
      /\ Range(batch) \subseteq Range(drained)
  BY DEF IInv, Typed, Below, Whole
<1>2. /\ Of(busy) \in Seq(issued) /\ Range(Of(busy)) = at(busy)
      /\ Of(lost) \in Seq(issued) /\ Range(Of(lost)) = at(lost)
      /\ (IsInjective(batch) => IsInjective(Of(busy)) /\ IsInjective(Of(lost)))
      /\ (busy = {} => Of(busy) = <<>>)
  BY <1>1, OfFacts
<1>3. /\ q \in Seq(issued) /\ Range(q) = Range(queue) \cup at(lost) /\ Range(<<>>) = {}
      /\ (IsInjective(queue) /\ IsInjective(Of(lost)) /\ Range(queue) \cap at(lost) = {}
            => IsInjective(q))
  BY <1>1, <1>2, ConcatFacts
<1>4. Range(batch) = at(known) \cup at(busy) \cup at(lost)
  BY DEF Range
<1>5. IsInjective(batch) => /\ at(known) \cap at(busy) = {} /\ at(known) \cap at(lost) = {}
                            /\ at(busy) \cap at(lost) = {}
  <2> SUFFICES ASSUME IsInjective(batch)
               PROVE  /\ at(known) \cap at(busy) = {} /\ at(known) \cap at(lost) = {}
                      /\ at(busy) \cap at(lost) = {}
    OBVIOUS
  <2>1. \A i, j \in DOMAIN batch : batch[i] = batch[j] => i = j
    BY DEF IsInjective
  <2> QED  BY <2>1
<1>6. /\ settled' = settled \cup at(known)
      /\ rest' = <<>> /\ queue' = q
      /\ Range(batch') = at(busy) /\ (IsInjective(batch) => IsInjective(batch'))
      /\ pc' \in {"none", "tick"} => batch' = <<>>
      /\ at(busy) = {} \/ UNCHANGED drained
  <2>1. settled' = settled \cup at(known)
    BY DEF Exec, Known
  <2>2. CASE busy = {}
    <3>1. queue' = q /\ rest' = <<>> /\ batch' = <<>>
      BY <1>1, <2>2 DEF Exec, Done, Drain
    <3>2. IsInjective(<<>>) /\ at(busy) = {}
      BY <2>2 DEF IsInjective
    <3> HIDE DEF q, at, known
    <3> QED  BY <1>3, <2>1, <3>1, <3>2
  <2>3. CASE busy # {}
    <3>1. queue' = q /\ rest' = rest /\ batch' = Of(busy) /\ pc' = "wait" /\ drained' = drained
      BY <2>3 DEF Exec
    <3> HIDE DEF q, at, known
    <3> QED  BY <1>1, <1>2, <2>1, <3>1
  <2> QED  BY <2>2, <2>3
<1> HIDE DEF q, at, known
<1>7. Whole'
  <2>1. Range(batch') \subseteq Range(drained')
    BY <1>1, <1>4, <1>6
  <2> QED  BY <1>6, <2>1 DEF Whole
<1>8. Kept'
  BY <1>3, <1>4, <1>6 DEF Below, Kept
<1>9. Apart'
  <2> SUFFICES ASSUME count.hard = 0
               PROVE  /\ ghost' = <<>> /\ IsInjective(queue') /\ IsInjective(batch')
                      /\ Range(queue') \cap Range(batch') = {}
                      /\ settled' \cap (Range(queue') \cup Range(batch')) = {}
    BY DEF Apart
  <2>1. /\ ghost = <<>> /\ IsInjective(queue) /\ IsInjective(batch)
        /\ Range(queue) \cap Range(batch) = {}
        /\ settled \cap (Range(queue) \cup Range(batch)) = {}
    BY DEF Below, Apart
  <2>2. at(known) \cap at(busy) = {} /\ at(known) \cap at(lost) = {} /\ at(busy) \cap at(lost) = {}
    BY <1>5, <2>1
  <2>3. IsInjective(queue')
    BY <1>2, <1>3, <1>4, <1>6, <2>1
  <2> QED  BY <1>3, <1>4, <1>6, <2>1, <2>2, <2>3
<1> QED  BY <1>7, <1>8, <1>9 DEF Below

\* Steps that move nothing.
LEMMA SameBelow ==
  ASSUME Below, UNCHANGED <<queue, drained, batch, rest, issued, settled, ghost>>,
         isDestroyed => isDestroyed', count'.hard = count.hard,
         pc' \in {"none", "tick"} => batch = <<>>
  PROVE  Below'
BY DEF Below, Whole, Kept, Apart

LEMMA IssueBelow == ASSUME IInv, Below, NEW c \in Commands, Issue(c) PROVE Below'
<1>1. /\ c \notin issued /\ issued' = issued \cup {c} /\ queue' = Append(queue, c)
      /\ UNCHANGED <<drained, rest, isDestroyed, settled, ghost, count>>
  BY DEF Issue, link
<1>2. /\ pc' \in {"none", "tick"} => batch' = <<>>
      /\ batch' = batch
  <2>1. CASE ~inProgress /\ connected
    <3>1. pc' = "tick" /\ batch' = <<>> /\ batch = <<>>
      BY <2>1 DEF Issue, Drain, IInv, Typed, Counted, Below, Whole
    <3> QED  BY <3>1
  <2>2. CASE ~(~inProgress /\ connected)
    BY <2>2 DEF Issue, Below, Whole
  <2> QED  BY <2>1, <2>2
<1>3. /\ Range(queue) \subseteq issued /\ Range(batch) \subseteq issued /\ settled \subseteq issued
  <2>1. queue \in Seq(issued) /\ batch \in Seq(issued) /\ settled \subseteq issued
    BY DEF IInv, Typed
  <2> QED  BY <2>1, ConcatFacts
<1>4. /\ Range(queue') = Range(queue) \cup {c}
      /\ IsInjective(queue) => IsInjective(queue')
  <2>1. queue \in Seq(issued \cup {c})
    BY TypedSteps DEF IInv
  <2> QED  BY <1>1, <1>3, <2>1, AppendFacts
<1>5. Whole'
  BY <1>1, <1>2 DEF Below, Whole
<1>6. Kept'
  BY <1>1, <1>2, <1>4 DEF Below, Kept
<1>7. Apart'
  BY <1>1, <1>2, <1>3, <1>4 DEF Below, Apart
<1> QED  BY <1>5, <1>6, <1>7 DEF Below

\* A short queue is sent whole.
LEMMA TickBelow == ASSUME IInv, Below, Short, Tick PROVE Below'
<1>1. /\ pc' = "sent" /\ batch = <<>> /\ UNCHANGED <<isDestroyed, issued, settled, ghost, count>>
  BY DEF Tick, link, log, Below, Whole
<1>2. queue' = <<>> /\ drained' = queue /\ batch' = queue /\ rest' = <<>>
  <2>1. ~(Len(queue) >= Limit)
    BY LimitAssumption DEF Short, IInv, Typed
  <2> QED  BY <1>1, <2>1 DEF Tick
<1>3. Range(<<>>) = {} /\ IsInjective(<<>>)
  BY DEF Range, IsInjective
<1>4. Whole'
  BY <1>1, <1>2 DEF Whole
<1>5. Kept'
  BY <1>1, <1>2, <1>3 DEF Below, Kept
<1>6. Apart'
  BY <1>1, <1>2, <1>3 DEF Below, Apart
<1> QED  BY <1>4, <1>5, <1>6 DEF Below

LEMMA TickInVainBelow == ASSUME Below, TickInVain PROVE Below'
<1>1. /\ pc = "tick" /\ batch = <<>> /\ batch' = <<>> /\ pc' = "none"
      /\ UNCHANGED <<queue, drained, rest, isDestroyed, issued, settled, ghost, count>>
  BY DEF TickInVain, link, log, Below, Whole
<1> QED  BY <1>1, SameBelow

LEMMA RepliesBelow == ASSUME IInv, Below, Reply \/ ReplyBusy PROVE Below'
<1>1. /\ pc = "sent" /\ UNCHANGED <<issued, ghost, isDestroyed>> /\ count'.hard = count.hard
      /\ \E B \in SUBSET DOMAIN batch : Exec(B, {})
  <2>1. CASE Reply
    BY <2>1 DEF Reply, link
  <2>2. CASE ReplyBusy
    <3>1. count'.hard = count.hard
      BY <2>2 DEF ReplyBusy, Count, IInv, Typed
    <3> QED  BY <2>2, <3>1 DEF ReplyBusy, link
  <2> QED  BY <2>1, <2>2
<1>2. PICK B \in SUBSET DOMAIN batch : Exec(B, {})
  BY <1>1
<1>3. {} \in SUBSET DOMAIN batch /\ B \cap {} = {}
  OBVIOUS
<1> QED  BY <1>1, <1>2, <1>3, ExecBelow

LEMMA RetryBelow == ASSUME IInv, Below, Retry PROVE Below'
<1>1. UNCHANGED <<drained, rest, isDestroyed, issued, settled, ghost, count>>
  BY DEF Retry, link, log
<1>2. CASE connected
  <2>1. pc' = "sent" /\ UNCHANGED <<queue, batch>>
    BY <1>2 DEF Retry
  <2> QED  BY <1>1, <2>1, SameBelow
<1>3. CASE ~connected
  <2>1. queue' = queue \o batch /\ pc' = "none" /\ batch' = <<>>
    BY <1>3 DEF Retry
  <2>2. queue \in Seq(issued) /\ batch \in Seq(issued)
    BY DEF IInv, Typed
  <2>3. /\ Range(queue') = Range(queue) \cup Range(batch) /\ Range(<<>>) = {} /\ IsInjective(<<>>)
        /\ (IsInjective(queue) /\ IsInjective(batch) /\ Range(queue) \cap Range(batch) = {}
              => IsInjective(queue'))
    <3>1. IsInjective(<<>>)
      BY DEF IsInjective
    <3> QED  BY <2>1, <2>2, <3>1, ConcatFacts
  <2>4. Whole'
    BY <1>1, <2>1, <2>3 DEF Below, Whole
  <2>5. Kept'
    BY <1>1, <2>1, <2>3 DEF Below, Kept
  <2>6. Apart'
    BY <1>1, <2>1, <2>3 DEF Below, Apart
  <2> QED  BY <2>4, <2>5, <2>6 DEF Below
<1> QED  BY <1>2, <1>3

LEMMA LoseBelow == ASSUME IInv, Below, NEW t \in Clients, Lose(t) PROVE Below'
<1>1. UNCHANGED <<isDestroyed, issued, ghost>> /\ count'.hard = count.hard /\ pc # "tick"
  BY DEF Lose, Count, IInv, Typed
<1>2. CASE t = "publisher" /\ pc = "sent"
  <2>1. PICK known \in 0 .. Len(batch) - 1 : Exec({}, known + 1 .. Len(batch))
    BY <1>2 DEF Lose
  <2>2. DOMAIN batch = 1 .. Len(batch) /\ Len(batch) \in Nat
    BY DEF IInv, Typed
  <2>3. /\ known + 1 .. Len(batch) \in SUBSET DOMAIN batch /\ {} \in SUBSET DOMAIN batch
        /\ {} \cap (known + 1 .. Len(batch)) = {}
    BY <2>2
  <2> QED  BY <1>1, <1>2, <2>1, <2>3, ExecBelow
<1>3. CASE ~(t = "publisher" /\ pc = "sent")
  <2>1. UNCHANGED <<queue, drained, pc, batch, rest, settled>>
    BY <1>3 DEF Lose, work
  <2> QED  BY <1>1, <2>1, SameBelow DEF Below, Whole
<1> QED  BY <1>2, <1>3

LEMMA ReadyBelow == ASSUME IInv, Below, NEW t \in Clients, Ready(t) PROVE Below'
<1>1. UNCHANGED <<queue, drained, rest, isDestroyed, issued, settled, ghost, count>>
  BY DEF Ready, log
<1>2. batch' = batch /\ (pc' \in {"none", "tick"} => batch = <<>>)
  <2>1. CASE up' = Clients /\ queue # <<>> /\ ~inProgress
    <3>1. batch' = <<>> /\ batch = <<>>
      BY <2>1 DEF Ready, Drain, IInv, Typed, Counted, Below, Whole
    <3> QED  BY <3>1
  <2>2. CASE ~(up' = Clients /\ queue # <<>> /\ ~inProgress)
    BY <2>2 DEF Ready, Below, Whole
  <2> QED  BY <2>1, <2>2
<1> QED  BY <1>1, <1>2, SameBelow

\* What was being drained is queued on the new connection, answered or not.
LEMMA HardDisconnectBelow == ASSUME IInv, Below, HardDisconnect PROVE Below'
<1>1. /\ queue' = drained \o queue /\ drained' = <<>> /\ pc' = "none" /\ batch' = <<>>
      /\ rest' = <<>> /\ UNCHANGED <<issued, settled>> /\ ~isDestroyed
  BY DEF HardDisconnect, Fresh, log
<1>2. count'.hard # 0
  <2>1. count \in [drops : Nat, busy : Nat, hard : Nat]
    BY DEF IInv, Typed
  <2>2. count' = [count EXCEPT !.hard = count.hard + 1]
    BY DEF HardDisconnect, Count
  <2>3. count'.hard = count.hard + 1 /\ count.hard \in Nat
    BY <2>1, <2>2
  <2> QED  BY <2>3
<1>3. Range(queue') = Range(drained) \cup Range(queue) /\ Range(<<>>) = {}
  <2>1. queue \in Seq(issued) /\ drained \in Seq(issued)
    BY DEF IInv, Typed
  <2> QED  BY <1>1, <2>1, ConcatFacts
<1>4. Whole'
  BY <1>1, <1>3 DEF Whole
<1>5. Kept'
  BY <1>1, <1>3 DEF Below, Whole, Kept
<1> QED  BY <1>2, <1>4, <1>5 DEF Below, Apart

LEMMA GhostReplyBelow == ASSUME Below, GhostReply PROVE Below'
<1>1. /\ ghost # <<>> /\ ghost' = <<>> /\ settled \subseteq settled'
      /\ UNCHANGED <<queue, drained, pc, batch, rest, isDestroyed, issued, count>>
  BY DEF GhostReply, work, link
<1>2. count.hard # 0
  BY <1>1 DEF Below, Apart
<1> QED  BY <1>1, <1>2 DEF Below, Whole, Kept, Apart

LEMMA NextBelow == IInv /\ Below /\ Short /\ [Next]_vars => Below'
<1> SUFFICES ASSUME IInv, Below, Short, [Next]_vars PROVE Below'
  OBVIOUS
<1>1. ASSUME NEW c \in Commands, Issue(c) PROVE Below'  BY <1>1, IssueBelow
<1>2. CASE Tick                BY <1>2, TickBelow
<1>3. CASE TickInVain          BY <1>3, TickInVainBelow
<1>4. CASE Reply \/ ReplyBusy  BY <1>4, RepliesBelow
<1>5. CASE Retry               BY <1>5, RetryBelow
<1>6. ASSUME NEW t \in Clients, Lose(t) PROVE Below'   BY <1>6, LoseBelow
<1>7. ASSUME NEW t \in Clients, Ready(t) PROVE Below'  BY <1>7, ReadyBelow
<1>8. CASE IdleDestroy
  <2>1. UNCHANGED <<queue, drained, pc, batch, rest, issued, settled, ghost, count>> /\ isDestroyed'
    BY <1>8 DEF IdleDestroy, work, log
  <2> QED  BY <2>1, SameBelow DEF Below, Whole
<1>9. CASE HardDisconnect  BY <1>9, HardDisconnectBelow
<1>10. CASE GhostReply     BY <1>10, GhostReplyBelow
<1>11. ASSUME NEW ch \in Channels, Subscribe(ch) \/ Unsubscribe(ch) PROVE Below'
  <2>1. UNCHANGED <<queue, drained, pc, batch, rest, issued, settled, ghost, count, isDestroyed>>
    BY <1>11 DEF Subscribe, Unsubscribe, work, link, log
  <2> QED  BY <2>1, SameBelow DEF Below, Whole
<1>12. CASE UNCHANGED vars
  <2>1. UNCHANGED <<queue, drained, pc, batch, rest, issued, settled, ghost, count, isDestroyed>>
    BY <1>12 DEF vars, work, link, log
  <2> QED  BY <2>1, SameBelow DEF Below, Whole
<1> QED
  BY <1>1, <1>2, <1>3, <1>4, <1>5, <1>6, <1>7, <1>8, <1>9, <1>10, <1>11, <1>12 DEF Next

-----------------------------------------------------------------------------
(* Steps: what is executed again *)

Once == \A c \in settled : runs'[c] = runs[c] \/ count.hard > 0

LEMMA NextOnce == IInv /\ Below /\ [Next]_vars => Once
<1> SUFFICES ASSUME IInv, Below, [Next]_vars, NEW c \in settled, ~(count.hard > 0)
             PROVE  runs'[c] = runs[c]
  BY DEF Once
<1>1. /\ c \in Commands /\ count.hard = 0 /\ runs \in [Commands -> Nat] /\ batch \in Seq(issued)
  BY DEF IInv, Typed
<1>2. c \notin Range(batch) /\ ghost = <<>>
  BY <1>1 DEF Below, Apart
<1>3. \A places \in SUBSET DOMAIN batch : Ran(places) => runs'[c] = runs[c]
  BY <1>1, <1>2, RanFacts
<1>4. DOMAIN batch = 1 .. Len(batch) /\ Len(batch) \in Nat
  BY <1>1
<1>5. ASSUME NEW k \in Commands, Issue(k) PROVE runs' = runs
  BY <1>5 DEF Issue
<1>6. CASE Tick \/ TickInVain \/ Retry \/ IdleDestroy \/ HardDisconnect
  BY <1>6 DEF Tick, TickInVain, Retry, IdleDestroy, HardDisconnect, log
<1>7. CASE Reply
  BY <1>3, <1>7 DEF Reply
<1>8. CASE ReplyBusy
  <2>1. PICK B : Ran(DOMAIN batch \ B)
    BY <1>8 DEF ReplyBusy
  <2>2. DOMAIN batch \ B \in SUBSET DOMAIN batch
    OBVIOUS
  <2> QED  BY <1>3, <2>1, <2>2
<1>9. ASSUME NEW t \in Clients, Lose(t) PROVE runs'[c] = runs[c]
  <2>1. CASE t = "publisher" /\ pc = "sent"
    <3>1. PICK known \in 0 .. Len(batch) - 1 :
            \E ran \in known .. Len(batch) : Exec({}, known + 1 .. Len(batch)) /\ Ran(1 .. ran)
      BY <1>9, <2>1 DEF Lose
    <3>2. PICK ran \in known .. Len(batch) : Ran(1 .. ran)
      BY <3>1
    <3>3. 1 .. ran \in SUBSET DOMAIN batch
      BY <1>4
    <3> QED  BY <1>3, <3>2, <3>3
  <2>2. CASE ~(t = "publisher" /\ pc = "sent")
    BY <1>9, <2>2 DEF Lose
  <2> QED  BY <2>1, <2>2
<1>10. ASSUME NEW t \in Clients, Ready(t) PROVE runs' = runs
  BY <1>10 DEF Ready, log
<1>11. ~GhostReply
  BY <1>2 DEF GhostReply
<1>12. ASSUME NEW ch \in Channels, Subscribe(ch) \/ Unsubscribe(ch) PROVE runs' = runs
  BY <1>12 DEF Subscribe, Unsubscribe, log
<1>13. CASE UNCHANGED vars
  BY <1>13 DEF vars, log
<1> QED
  BY <1>5, <1>6, <1>7, <1>8, <1>9, <1>10, <1>11, <1>12, <1>13 DEF Next

-----------------------------------------------------------------------------
(* The theorems *)

LEMMA Invariance == Spec => []IInv
<1>1. Init => IInv  BY InitIInv
<1> QED  BY <1>1, NextIInv, PTL DEF Spec

LEMMA BelowInvariance == Spec /\ []Short => []Below
<1>1. Init => Below  BY InitIInv
<1> QED  BY <1>1, NextBelow, Invariance, PTL DEF Spec

\* The queues hold commands that were issued, and activeCounter never falls below zero.
THEOREM TypeCorrect == Spec => []TypeOK
<1>1. IInv => TypeOK
  <2> SUFFICES ASSUME Typed PROVE TypeOK
    BY DEF IInv
  <2>1. /\ queue \in Seq(Commands) /\ drained \in Seq(Commands) /\ batch \in Seq(Commands)
        /\ rest \in Seq(Commands) /\ ghost \in Seq(Commands)
    BY SeqMonotonic DEF Typed
  <2> QED  BY <2>1 DEF Typed, TypeOK
<1> QED  BY <1>1, Invariance, PTL

\* destroyIfIdle() starts its timer, and lets it run, only while no drain is under way and
\* no channel is subscribed to: addActive() and removeActive() may leave the count too
\* high, as after a tick in vain, but never too low.
THEOREM IdleAlwaysIdle == Spec => []IdleIsIdle
<1>1. IInv => IdleIsIdle
  <2> SUFFICES ASSUME IInv, timer PROVE pc = "none" /\ ~inProgress /\ channels = {}
    BY DEF IdleIsIdle
  <2>1. /\ active = 0 /\ IsFiniteSet(channels) /\ Cardinality(channels) \in Nat
        /\ inProgress \in BOOLEAN /\ active >= Cardinality(channels) + IF inProgress THEN 1 ELSE 0
        /\ pc # "none" => inProgress
    BY TypedSteps DEF IInv, Typed, Counted
  <2>2. ~inProgress /\ Cardinality(channels) = 0
    BY <2>1
  <2> QED  BY <2>1, <2>2, FS_EmptySet
<1> QED  BY <1>1, Invariance, PTL

\* As long as the queue is shorter than a batch, a command that was not answered stays in
\* the queue or in the batch, whatever drainQueue() and execBatch() meet: lost links, a
\* busy server, a connection that is given up for another.
THEOREM NothingLostBelow == Spec /\ []Short => []NothingLost
<1>1. Below => NothingLost
  <2>1. Range(queue) \subseteq Held /\ Range(batch) \subseteq Held
    BY DEF Range, Held
  <2> QED  BY <2>1 DEF Below, Kept, NothingLost
<1> QED  BY <1>1, BelowInvariance, PTL

\* As long as the queue is shorter than a batch and the connection is not given up, the
\* server executes no command again that it has answered.
THEOREM AnsweredOnceBelow == Spec /\ []Short => AnsweredOnce
<1>1. IInv /\ Below /\ [Next]_vars => [\A c \in settled : runs'[c] = runs[c] \/ count.hard > 0]_vars
  BY NextOnce DEF Once
<1> QED  BY <1>1, Invariance, BelowInvariance, PTL DEF Spec, AnsweredOnce

\* The queue is short, for one, while there are fewer commands than a batch holds and the
\* connection is not given up: nothing is ever issued twice.
THEOREM FewAreKept ==
  ASSUME IsFiniteSet(Commands), Cardinality(Commands) < Limit, MaxHard = 0
  PROVE  Spec => [](NothingLost /\ Short)
<1> DEFINE First == count.hard = 0
<1>1. IInv /\ Below /\ First => Short
  <2> SUFFICES ASSUME IInv, Below, First PROVE Short
    OBVIOUS
  <2>1. queue \in Seq(Commands) /\ IsInjective(queue)
    BY SeqMonotonic DEF IInv, Typed, Below, Apart
  <2>2. /\ Len(queue) \in Nat /\ DOMAIN queue = 1 .. Len(queue)
        /\ queue \in [1 .. Len(queue) -> Commands]
    BY <2>1, LenProperties
  <2>3. queue \in Injection(1 .. Len(queue), Commands)
    BY <2>1, <2>2 DEF Injection
  <2>4. Cardinality(1 .. Len(queue)) <= Cardinality(Commands)
    BY <2>3, FS_Injection
  <2>5. Cardinality(1 .. Len(queue)) = Len(queue)
    BY <2>2, FS_Interval
  <2>6. Cardinality(Commands) \in Nat /\ Limit \in Nat
    BY FS_CardinalityType, LimitAssumption
  <2> QED  BY <2>2, <2>4, <2>5, <2>6 DEF Short
<1>2. Init => First
  BY DEF Init
<1>3. IInv /\ First /\ [Next]_vars => First'
  <2> SUFFICES ASSUME IInv, First, [Next]_vars PROVE First'
    OBVIOUS
  <2>1. count \in [drops : Nat, busy : Nat, hard : Nat]
    BY DEF IInv, Typed
  <2>2. ~HardDisconnect
    BY DEF HardDisconnect, Count
  <2>3. \A max : Count("drops", max) \/ Count("busy", max) => count'.hard = 0
    BY <2>1 DEF Count
  <2>4. ASSUME NEW c \in Commands, Issue(c) PROVE First'
    BY <2>4 DEF Issue
  <2>5. CASE Tick \/ TickInVain \/ Reply \/ Retry \/ IdleDestroy \/ GhostReply
    BY <2>5 DEF Tick, TickInVain, Reply, Retry, IdleDestroy, GhostReply
  <2>6. CASE ReplyBusy
    BY <2>3, <2>6 DEF ReplyBusy
  <2>7. ASSUME NEW t \in Clients, Lose(t) PROVE First'
    BY <2>3, <2>7 DEF Lose
  <2>8. ASSUME NEW t \in Clients, Ready(t) PROVE First'
    BY <2>8 DEF Ready
  <2>9. ASSUME NEW ch \in Channels, Subscribe(ch) \/ Unsubscribe(ch) PROVE First'
    BY <2>9 DEF Subscribe, Unsubscribe
  <2>10. CASE UNCHANGED vars
    BY <2>10 DEF vars
  <2> QED  BY <2>2, <2>4, <2>5, <2>6, <2>7, <2>8, <2>9, <2>10 DEF Next
<1>4. Below => NothingLost
  <2>1. Range(queue) \subseteq Held /\ Range(batch) \subseteq Held
    BY DEF Range, Held
  <2> QED  BY <2>1 DEF Below, Kept, NothingLost
<1>5. Init => Below
  BY InitIInv
<1> HIDE DEF First
<1>6. Spec => []First
  BY <1>2, <1>3, Invariance, PTL DEF Spec
<1>7. Spec => []Below
  BY <1>1, <1>5, <1>6, NextBelow, Invariance, PTL DEF Spec
<1> QED  BY <1>1, <1>4, <1>6, <1>7, Invariance, PTL

=============================================================================
