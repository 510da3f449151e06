----------------------------- MODULE WatchProofs -----------------------------
(***************************************************************************)
(* Whatever breaks, is late, restarted or asked for again: the watch half  *)
(* of the client counts its responses exactly, no resume token promises    *)
(* more than is on disk, its timers match its state, and what it stores    *)
(* never goes back.                                                        *)
(***************************************************************************)
EXTENDS Watch, StreamProofs

Fields ==
  {"targets", "agg", "updates", "online", "timer", "failures", "stream", "up", "down", "srv"}

Disk == [content : [Target -> Version], token : [Target -> Version], version : Version]

(* A function from some of the targets. *)
Partial(f, T) == DOMAIN f \subseteq Target /\ f \in [DOMAIN f -> T]

Call(srv) ==
  /\ srv = [sent |-> srv.sent, owed |-> srv.owed, version |-> srv.version]
  /\ Partial(srv.sent, Version) /\ Partial(srv.owed, Version) /\ srv.version \in Version

RemoteStore(r) ==
  /\ DOMAIN r = Fields
  /\ Partial(r.targets, View) /\ Partial(r.agg, TargetState) /\ Partial(r.updates, Version)
  /\ r.online \in OnlineState /\ r.timer \in BOOLEAN /\ r.failures \in Nat
  /\ r.stream \in StreamRecord
  /\ r.up \in Seq(Request) /\ r.down \in Seq(Change)
  /\ Call(r.srv)

Types ==
  /\ RemoteStore(ws)
  /\ disk \in Disk
  /\ history \in Seq(Target) /\ now \in Version /\ denied \subseteq Target
  /\ listens \in 0..MaxListens /\ faults \in 0..MaxFaults /\ restarts \in 0..MaxRestarts

(* A call that is not open holds nothing. *)
Quiet(r) ==
  /\ r.agg = empty /\ r.updates = empty
  /\ r.up = <<>> /\ r.down = <<>> /\ r.srv = noCall

ClosedIsQuiet == ~IsOpen(ws.stream) => Quiet(ws)

(* AsOf in the history h. *)
Latest(h, t, v) == Max({0} \cup {i \in 1..v : h[i] = t})

(* TokenIsHonest, of tokens that the backend has given. *)
TokensAreHonest ==
  /\ \A t \in Target :
       disk.token[t] <= now /\ disk.content[t] >= Latest(history, t, disk.token[t])
  /\ \A t \in DOMAIN ws.targets :
       /\ ws.targets[t].token <= now
       /\ disk.content[t] >= Latest(history, t, ws.targets[t].token)

(* Nobody has seen a version that is not there yet. *)
VersionsAreKnown ==
  /\ \A i \in DOMAIN ws.up : ws.up[i].version <= now
  /\ \A i \in DOMAIN ws.down : ws.down[i].version <= now
  /\ \A t \in DOMAIN ws.srv.sent : ws.srv.sent[t] <= now
  /\ ws.srv.version <= now

isWatch(m, t) == m.kind = "watch" /\ m.target = t

isUnwatch(m, t) == m.kind = "unwatch" /\ m.target = t

isResponse(m, t) == m.kind \in {"added", "removed"} /\ m.target = t

isDocument(m, t) == m.kind = "document" /\ m.target = t

(* The backend says nothing of a target that it refuses, and refuses no    *)
(* other; the client does not count it as active.                          *)
RefusalsAreFinal ==
  /\ \A i \in DOMAIN ws.down :
       /\ ws.down[i].kind = "failed" => ws.down[i].target \in denied
       /\ ws.down[i].kind \notin {"failed", "snapshot"} => ws.down[i].target \notin denied
  /\ DOMAIN ws.srv.sent \cap denied = {} /\ DOMAIN ws.srv.owed \cap denied = {}
  /\ IsOpen(ws.stream) => \A t \in denied \cap DOMAIN ws.targets : stateOf(ws, t).outstanding > 0

(* Documents come in the order of their versions, ... *)
DocumentsGrow ==
  \A i \in DOMAIN ws.down : ws.down[i].kind = "document" =>
    LET t == ws.down[i].target
    IN  /\ t \in DOMAIN ws.updates => ws.updates[t] <= ws.down[i].version
        /\ \A j \in DOMAIN ws.down : j < i /\ isDocument(ws.down[j], t) =>
             ws.down[j].version <= ws.down[i].version

(* ... and none is newer than the call. *)
CallGrows ==
  /\ \A i \in DOMAIN ws.down : ws.down[i].kind = "document" =>
       ws.down[i].version <= Latest(history, ws.down[i].target, ws.srv.version)
  /\ \A t \in DOMAIN ws.updates : ws.updates[t] <= Latest(history, t, ws.srv.version)

(* The backend watches a target that is listened to, or will be asked to,  *)
(* however often the target went and came.                                 *)
TargetsAreAskedFor ==
  IsOpen(ws.stream) => \A t \in DOMAIN ws.targets \ denied :
    /\ t \in DOMAIN ws.srv.sent \/ \E i \in DOMAIN ws.up : isWatch(ws.up[i], t)
    /\ \A i \in DOMAIN ws.up : isUnwatch(ws.up[i], t) =>
         \E j \in DOMAIN ws.up : i < j /\ isWatch(ws.up[j], t)

(* No request about t is on its way, and no response to one from k on.     *)
Answered(r, t, k) ==
  /\ \A i \in DOMAIN r.up : r.up[i].target # t
  /\ \A j \in DOMAIN r.down : j >= k => ~isResponse(r.down[j], t)

(* When message k is handled, what t matches at v is at hand: stored,      *)
(* pending, or on its way.                                                 *)
Has(r, d, h, t, v, k) ==
  \/ d.content[t] >= Latest(h, t, v)
  \/ t \in DOMAIN r.updates /\ r.updates[t] >= Latest(h, t, v)
  \/ \E j \in DOMAIN r.down :
       /\ j < k /\ isDocument(r.down[j], t) /\ r.down[j].version >= Latest(h, t, v)
       /\ Answered(r, t, j)

(* A request asks for what is lacking. *)
RequestsAreHonest ==
  \A i \in DOMAIN ws.up : ws.up[i].kind = "watch" =>
    disk.content[ws.up[i].target] >= Latest(history, ws.up[i].target, ws.up[i].version)

(* A snapshot that will find a target active finds all of its content. *)
SnapshotsAreHonest ==
  \A k \in DOMAIN ws.down : ws.down[k].kind = "snapshot" =>
    \A t \in DOMAIN ws.targets \ denied :
      Answered(ws, t, k) => Has(ws, disk, history, t, ws.down[k].version, k)

(* The backend has sent what it believes it has. *)
BackendIsHonest ==
  \A t \in DOMAIN ws.srv.sent \cap DOMAIN ws.targets :
    Answered(ws, t, Len(ws.down) + 1) =>
      Has(ws, disk, history, t, ws.srv.sent[t], Len(ws.down) + 1)

(* All that is said of messages on their way. *)
Wire ==
  /\ ClosedIsQuiet /\ VersionsAreKnown /\ OutstandingIsExact
  /\ RefusalsAreFinal /\ DocumentsGrow /\ CallGrows /\ TargetsAreAskedFor
  /\ RequestsAreHonest /\ SnapshotsAreHonest /\ BackendIsHonest

IInv == Types /\ TimersHold /\ TokensAreHonest /\ Wire

-----------------------------------------------------------------------------
(* Functions from some of the targets. *)

LEMMA EmptyIsPartial ==
  /\ DOMAIN empty = {} /\ \A T : Partial(empty, T)
  /\ \A f, T : Partial(f, T) => (f = empty <=> DOMAIN f = {})
BY DEF empty, Partial

LEMMA WithIsPartial ==
  ASSUME NEW T, NEW f, Partial(f, T), NEW t \in Target, NEW x \in T
  PROVE  /\ Partial(with(f, t, x), T) /\ DOMAIN with(f, t, x) = DOMAIN f \cup {t}
         /\ with(f, t, x)[t] = x
         /\ \A s \in DOMAIN f : s # t => with(f, t, x)[s] = f[s]
BY DEF with, Partial

LEMMA WithoutIsPartial ==
  ASSUME NEW T, NEW f, Partial(f, T), NEW t
  PROVE  /\ Partial(without(f, t), T) /\ DOMAIN without(f, t) = DOMAIN f \ {t}
         /\ \A s \in DOMAIN f : s # t => without(f, t)[s] = f[s]
BY DEF without, Partial, Restrict

-----------------------------------------------------------------------------
(* What a target matches. *)

LEMMA LatestIs ==
  ASSUME NEW h, NEW t, NEW v \in Nat
  PROVE  /\ Latest(h, t, v) \in Nat /\ Latest(h, t, v) <= v
         /\ Latest(h, t, v) # 0 => h[Latest(h, t, v)] = t /\ Latest(h, t, v) \in 1..v
         /\ \A i \in 1..v : h[i] = t => i <= Latest(h, t, v)
PROOF
<1>. DEFINE S == {0} \cup {i \in 1..v : h[i] = t}
<1>1. S \in SUBSET Nat /\ S # {} /\ \A x \in S : x <= v
  OBVIOUS
<1>2. Max(S) \in S /\ \A y \in S : y <= Max(S)
  BY <1>1, MaxIsGreatest
<1>. QED
  BY <1>1, <1>2 DEF Latest

LEMMA AsOfIsLatest == \A t, v : AsOf(t, v) = Latest(history, t, v)
BY DEF AsOf, Latest

(* Whoever has what t matched at v lacks nothing up to w, unless t changed *)
(* in between.                                                             *)
LEMMA LatestGrows ==
  ASSUME NEW h, NEW t, NEW v \in Nat, NEW w \in Nat, v <= w
  PROVE  /\ Latest(h, t, v) <= Latest(h, t, w)
         /\ Latest(h, t, w) <= v => Latest(h, t, w) = Latest(h, t, v)
PROOF
<1>1. /\ Latest(h, t, v) \in Nat /\ Latest(h, t, v) <= v
      /\ Latest(h, t, v) # 0 => h[Latest(h, t, v)] = t /\ Latest(h, t, v) \in 1..v
      /\ \A i \in 1..v : h[i] = t => i <= Latest(h, t, v)
  BY LatestIs
<1>2. /\ Latest(h, t, w) \in Nat /\ Latest(h, t, w) <= w
      /\ Latest(h, t, w) # 0 => h[Latest(h, t, w)] = t /\ Latest(h, t, w) \in 1..w
      /\ \A i \in 1..w : h[i] = t => i <= Latest(h, t, w)
  BY LatestIs
<1>. QED
  BY <1>1, <1>2

(* A new version changes nothing about the past. *)
LEMMA LatestStays ==
  ASSUME NEW h \in Seq(Target), NEW s \in Target, NEW t, NEW v \in 0..Len(h)
  PROVE  Latest(Append(h, s), t, v) = Latest(h, t, v)
PROOF
<1>1. \A i \in 1..v : Append(h, s)[i] = h[i]
  OBVIOUS
<1>. QED
  BY <1>1 DEF Latest

-----------------------------------------------------------------------------
(* Counting messages. *)

Places(msgs, t, kinds) == {i \in DOMAIN msgs : msgs[i].target = t /\ msgs[i].kind \in kinds}

LEMMA CountIsPlaces ==
  \A msgs, t, kinds : count(msgs, t, kinds) = Cardinality(Places(msgs, t, kinds))
BY DEF count, Places

LEMMA CountType ==
  ASSUME NEW T, NEW q \in Seq(T), NEW t, NEW kinds
  PROVE  /\ IsFiniteSet(Places(q, t, kinds)) /\ count(q, t, kinds) \in Nat
         /\ count(q, t, kinds) = 0 <=> \A i \in DOMAIN q : q[i].target = t => q[i].kind \notin kinds
PROOF
<1>1. IsFiniteSet(DOMAIN q)
  BY FS_Interval
<1>2. IsFiniteSet(Places(q, t, kinds))
  BY <1>1, FS_Subset DEF Places
<1>3. Cardinality(Places(q, t, kinds)) = 0 <=> Places(q, t, kinds) = {}
  BY <1>2, FS_EmptySet
<1>4. Cardinality(Places(q, t, kinds)) \in Nat
  BY <1>2, FS_CardinalityType
<1>. QED
  BY <1>2, <1>3, <1>4, CountIsPlaces DEF Places

(* The same number of places, moved by n. *)
Shifted(A, n) == {i + n : i \in A}

LEMMA CountShifted ==
  ASSUME NEW A \in SUBSET Nat, IsFiniteSet(A), NEW n \in Int
  PROVE  IsFiniteSet(Shifted(A, n)) /\ Cardinality(Shifted(A, n)) = Cardinality(A)
PROOF
<1>. DEFINE B == Shifted(A, n)
            f == [i \in A |-> i + n]
<1>1. f \in Bijection(A, B)
  <2>1. f \in [A -> B] /\ (\A a, b \in A : f[a] = f[b] => a = b)
    BY DEF Shifted
  <2>2. \A b \in B : \E a \in A : f[a] = b
    BY DEF Shifted
  <2>. QED
    BY <2>1, <2>2 DEF Bijection, Injection, Surjection, IsInjective
<1>2. ExistsBijection(A, B)
  BY <1>1 DEF ExistsBijection
<1>. QED
  BY <1>2, FS_Bijection

LEMMA CountTail ==
  ASSUME NEW T, NEW q \in Seq(T), q # <<>>, NEW t, NEW kinds
  PROVE  count(q, t, kinds) = count(Tail(q), t, kinds) +
           (IF Head(q).target = t /\ Head(q).kind \in kinds THEN 1 ELSE 0)
PROOF
<1>. DEFINE A == Places(Tail(q), t, kinds)
            B == Shifted(A, 1)
            P == Places(q, t, kinds)
<1>1. /\ Head(q) = q[1] /\ Tail(q) \in Seq(T) /\ Len(q) \in Nat
      /\ DOMAIN q = 1..Len(q) /\ DOMAIN Tail(q) = 1..(Len(q) - 1) /\ 1 \in DOMAIN q
      /\ \A i \in DOMAIN Tail(q) : Tail(q)[i] = q[i + 1] /\ i + 1 \in DOMAIN q
      /\ \A i \in DOMAIN q : i # 1 => i - 1 \in DOMAIN Tail(q) /\ Tail(q)[i - 1] = q[i]
  BY TailPositions
<1>2. IsFiniteSet(A) /\ IsFiniteSet(P) /\ Cardinality(A) \in Nat
  BY <1>1, CountType, FS_CardinalityType
<1>3. A \in SUBSET Nat
  BY <1>1 DEF Places, Shifted
<1>4. IsFiniteSet(B) /\ Cardinality(B) = Cardinality(A)
  <2>. HIDE DEF A
  <2>. QED
    BY <1>2, <1>3, CountShifted
<1>5. 1 \notin B
  BY <1>1 DEF Places, Shifted
<1>6. \A i \in P : i = 1 \/ i \in B
  <2>. SUFFICES ASSUME NEW i \in P, i # 1 PROVE i \in B
    OBVIOUS
  <2>1. i - 1 \in A /\ i = (i - 1) + 1
    BY <1>1 DEF Places, Shifted
  <2>. QED
    BY <2>1 DEF Shifted
<1>7. B \subseteq P
  BY <1>1 DEF Places, Shifted
<1>8. 1 \in P <=> Head(q).target = t /\ Head(q).kind \in kinds
  BY <1>1 DEF Places, Shifted
<1>. HIDE DEF A, B, P
<1>9. CASE 1 \in P
  <2>1. P = B \cup {1}
    BY <1>6, <1>7, <1>9
  <2>2. Cardinality(P) = Cardinality(B) + 1
    BY <2>1, <1>4, <1>5, FS_AddElement
  <2>. QED
    BY <1>4, <1>8, <1>9, <2>2, CountIsPlaces DEF A, P
<1>10. CASE 1 \notin P
  <2>1. P = B
    BY <1>6, <1>7, <1>10
  <2>. QED
    BY <1>2, <1>4, <1>8, <1>10, <2>1, CountIsPlaces DEF A, P
<1>. QED
  BY <1>9, <1>10

LEMMA CountConcat ==
  ASSUME NEW T, NEW p \in Seq(T), NEW q \in Seq(T), NEW t, NEW kinds
  PROVE  count(p \o q, t, kinds) = count(p, t, kinds) + count(q, t, kinds)
PROOF
<1>. DEFINE A == Places(p, t, kinds)
            B == Places(q, t, kinds)
            C == Shifted(B, Len(p))
            P == Places(p \o q, t, kinds)
<1>1. /\ p \o q \in Seq(T) /\ Len(p) \in Nat /\ Len(q) \in Nat
      /\ DOMAIN p = 1..Len(p) /\ DOMAIN q = 1..Len(q)
      /\ \A i \in DOMAIN p : i \in DOMAIN (p \o q) /\ (p \o q)[i] = p[i]
      /\ \A i \in DOMAIN q : Len(p) + i \in DOMAIN (p \o q) /\ (p \o q)[Len(p) + i] = q[i]
      /\ \A i \in DOMAIN (p \o q) : i \in DOMAIN p \/ i - Len(p) \in DOMAIN q
      /\ DOMAIN (p \o q) = 1..(Len(p) + Len(q))
  BY ConcatPositions
<1>2. IsFiniteSet(A) /\ IsFiniteSet(B) /\ B \in SUBSET Nat
  <2>1. B \in SUBSET Nat
    BY <1>1 DEF Places, Shifted
  <2>. QED
    BY <2>1, CountType
<1>3. IsFiniteSet(C) /\ Cardinality(C) = Cardinality(B)
  <2>. HIDE DEF B
  <2>. QED
    BY <1>1, <1>2, CountShifted
<1>4. A \cap C = {}
  BY <1>1 DEF Places, Shifted
<1>5. A \cup C \subseteq P
  <2>1. A \subseteq P
    BY <1>1 DEF Places, Shifted
  <2>2. \A i \in B : i + Len(p) \in P
    <3>. SUFFICES ASSUME NEW i \in B PROVE i + Len(p) \in P
      OBVIOUS
    <3>1. i + Len(p) = Len(p) + i /\ i \in DOMAIN q
      BY <1>1 DEF Places, Shifted
    <3>. QED
      BY <1>1, <3>1 DEF Places
  <2>. QED
    BY <2>1, <2>2 DEF Shifted
<1>6. P \subseteq A \cup C
  <2>. SUFFICES ASSUME NEW i \in P, i \notin A PROVE i \in C
    OBVIOUS
  <2>1. i - Len(p) \in DOMAIN q /\ i = (i - Len(p)) + Len(p) /\ i = Len(p) + (i - Len(p))
    BY <1>1 DEF Places, Shifted
  <2>2. i - Len(p) \in B
    BY <1>1, <2>1 DEF Places
  <2>. QED
    BY <2>1, <2>2 DEF Shifted
<1>7. Cardinality(P) = Cardinality(A) + Cardinality(B)
  <2>. HIDE DEF A, B, C, P
  <2>1. P = A \cup C /\ Cardinality(A \cap C) = 0
    BY <1>4, <1>5, <1>6, FS_EmptySet
  <2>2. Cardinality(A) \in Nat /\ Cardinality(B) \in Nat
    BY <1>2, FS_CardinalityType
  <2>3. Cardinality(A \cup C) = Cardinality(A) + Cardinality(C) - Cardinality(A \cap C)
    BY <1>2, <1>3, FS_Union
  <2>. QED
    BY <1>3, <2>1, <2>2, <2>3
<1>. QED
  BY <1>7, CountIsPlaces

-----------------------------------------------------------------------------
(* The online state and the stream.                                        *)

(* s has the targets of r, at the tokens of r. *)
SameTokens(r, s) ==
  /\ DOMAIN s.targets = DOMAIN r.targets
  /\ \A t \in DOMAIN r.targets : s.targets[t].token = r.targets[t].token

SameWire(r, s) ==
  /\ s.agg = r.agg /\ s.updates = r.updates
  /\ s.up = r.up /\ s.down = r.down /\ s.srv = r.srv

(* The timer of the online state and the failures match the state. *)
OnlineMatches(r) ==
  /\ r.timer => r.online = "Unknown" /\ r.failures < kMaxWatchStreamFailures
  /\ r.online = "Online" => r.failures = 0

(* TimersHold of r. *)
TimersAt(r) ==
  /\ Matches(r.stream)
  /\ r.stream.idle => r.targets = empty
  /\ IsStarted(r.stream) \/ r.targets = empty
  /\ OnlineMatches(r)
  /\ r.timer => IsStarted(r.stream)

LEMMA TimersAtIsTimersHold == RemoteStore(ws) => (TimersAt(ws) <=> TimersHold)
BY DEF TimersAt, TimersHold, OnlineMatches, Matches, RemoteStore

LEMMA ViewChanges ==
  ASSUME NEW v \in View, NEW c \in BOOLEAN, NEW d \in BOOLEAN
  PROVE  /\ [v EXCEPT !.current = c, !.raised = d] \in View
         /\ [v EXCEPT !.current = c, !.raised = d].token = v.token
BY DEF View

LEMMA SetAndBroadcastIs ==
  ASSUME NEW r, RemoteStore(r), NEW x \in OnlineState
  PROVE  LET s == SetAndBroadcast(r, x)
         IN  /\ RemoteStore(s) /\ s.online = x
             /\ SameTokens(r, s) /\ SameWire(r, s) /\ s.stream = r.stream
             /\ s.timer = r.timer /\ s.failures = r.failures
             /\ s.targets = empty <=> r.targets = empty
PROOF
<1>. DEFINE s == SetAndBroadcast(r, x)
            f == [t \in DOMAIN r.targets |->
                   IF x = "Offline"
                   THEN [r.targets[t] EXCEPT !.current = FALSE, !.raised = TRUE]
                   ELSE r.targets[t]]
<1>1. CASE x = r.online
  BY <1>1 DEF SetAndBroadcast, SameTokens, SameWire
<1>2. CASE x # r.online
  <2>1. /\ s = [r EXCEPT !.online = x, !.targets = f]
        /\ DOMAIN r = Fields /\ DOMAIN f = DOMAIN r.targets
    BY <1>2, Zenon DEF SetAndBroadcast, RemoteStore
  <2>2. \A t \in DOMAIN r.targets : r.targets[t] \in View
    BY DEF RemoteStore, Partial
  <2>3. \A t \in DOMAIN r.targets : f[t] \in View /\ f[t].token = r.targets[t].token
    BY <2>2, ViewChanges
  <2>4. Partial(f, View)
    BY <2>1, <2>3 DEF RemoteStore, Partial
  <2>. HIDE DEF f, s
  <2>5. /\ DOMAIN s = Fields /\ s.online = x /\ s.targets = f /\ s.agg = r.agg
        /\ s.updates = r.updates /\ s.up = r.up /\ s.down = r.down /\ s.srv = r.srv
        /\ s.stream = r.stream /\ s.timer = r.timer /\ s.failures = r.failures
    BY <2>1 DEF Fields
  <2>6. RemoteStore(s)
    BY <2>4, <2>5 DEF RemoteStore
  <2>7. s.targets = empty <=> r.targets = empty
    BY <2>1, <2>4, <2>5, EmptyIsPartial DEF RemoteStore
  <2>. QED
    BY <2>1, <2>3, <2>5, <2>6, <2>7 DEF SameTokens, SameWire, s
<1>. QED
  BY <1>1, <1>2

LEMMA UpdateStateIs ==
  ASSUME NEW r, RemoteStore(r), NEW x \in OnlineState
  PROVE  LET s == UpdateState(r, x)
         IN  /\ RemoteStore(s) /\ s.online = x /\ OnlineMatches(s)
             /\ SameTokens(r, s) /\ SameWire(r, s) /\ s.stream = r.stream
             /\ ~s.timer /\ s.failures = 0
             /\ s.targets = empty <=> r.targets = empty
PROOF
<1>. DEFINE q == [r EXCEPT !.timer = FALSE, !.failures = 0]
<1>1. /\ DOMAIN q = Fields /\ q.timer = FALSE /\ q.failures = 0
      /\ q.online = r.online /\ q.targets = r.targets /\ q.agg = r.agg
      /\ q.updates = r.updates /\ q.up = r.up /\ q.down = r.down /\ q.srv = r.srv
      /\ q.stream = r.stream
  BY DEF RemoteStore, Fields
<1>2. UpdateState(r, x) = SetAndBroadcast(q, x)
  BY DEF UpdateState
<1>. HIDE DEF q
<1>3. RemoteStore(q)
  <2>1. q.timer \in BOOLEAN
    BY <1>1, Zenon
  <2>2. q.failures \in Nat
    BY <1>1
  <2>. QED
    BY <1>1, <2>1, <2>2 DEF RemoteStore
<1>. DEFINE s == SetAndBroadcast(q, x)
<1>4. /\ RemoteStore(s) /\ s.online = x
      /\ SameTokens(q, s) /\ SameWire(q, s) /\ s.stream = q.stream
      /\ s.timer = q.timer /\ s.failures = q.failures
      /\ s.targets = empty <=> q.targets = empty
  BY <1>3, SetAndBroadcastIs
<1>. HIDE DEF s
<1>5. /\ RemoteStore(s) /\ s.online = x /\ OnlineMatches(s)
      /\ SameTokens(r, s) /\ SameWire(r, s) /\ s.stream = r.stream
      /\ ~s.timer /\ s.failures = 0
      /\ s.targets = empty <=> r.targets = empty
  BY <1>1, <1>4 DEF SameTokens, SameWire, OnlineMatches
<1>. QED
  BY <1>2, <1>5 DEF s

LEMMA HandleWatchStreamStartIs ==
  ASSUME NEW r, RemoteStore(r), OnlineMatches(r)
  PROVE  LET s == HandleWatchStreamStart(r)
         IN  /\ RemoteStore(s) /\ OnlineMatches(s)
             /\ SameTokens(r, s) /\ SameWire(r, s) /\ s.stream = r.stream
             /\ s.targets = empty <=> r.targets = empty
PROOF
<1>. DEFINE q == [r EXCEPT !.timer = TRUE]
<1>1. CASE r.failures # 0
  BY <1>1 DEF HandleWatchStreamStart, SameTokens, SameWire
<1>2. CASE r.failures = 0
  <2>1. /\ DOMAIN q = Fields /\ q.timer = TRUE /\ q.failures = r.failures
        /\ q.online = r.online /\ q.targets = r.targets /\ q.agg = r.agg
        /\ q.updates = r.updates /\ q.up = r.up /\ q.down = r.down /\ q.srv = r.srv
        /\ q.stream = r.stream
    BY DEF RemoteStore, Fields
  <2>2. HandleWatchStreamStart(r) = SetAndBroadcast(q, "Unknown")
    BY <1>2 DEF HandleWatchStreamStart
  <2>. HIDE DEF q
  <2>3. RemoteStore(q) /\ "Unknown" \in OnlineState
    BY <2>1 DEF RemoteStore, OnlineState
  <2>. DEFINE s == SetAndBroadcast(q, "Unknown")
  <2>4. /\ RemoteStore(s) /\ s.online = "Unknown"
        /\ SameTokens(q, s) /\ SameWire(q, s) /\ s.stream = q.stream
        /\ s.timer = q.timer /\ s.failures = q.failures
        /\ s.targets = empty <=> q.targets = empty
    BY <2>3, SetAndBroadcastIs
  <2>. HIDE DEF s
  <2>5. OnlineMatches(s)
    BY <1>2, <2>1, <2>4, WatchAssumption DEF OnlineMatches
  <2>6. /\ SameTokens(r, s) /\ SameWire(r, s) /\ s.stream = r.stream
        /\ s.targets = empty <=> r.targets = empty
    BY <2>1, <2>4 DEF SameTokens, SameWire
  <2>. QED
    BY <2>2, <2>4, <2>5, <2>6 DEF s
<1>. QED
  BY <1>1, <1>2

LEMMA HandleWatchStreamFailureIs ==
  ASSUME NEW r, RemoteStore(r), OnlineMatches(r)
  PROVE  LET s == HandleWatchStreamFailure(r)
         IN  /\ RemoteStore(s) /\ OnlineMatches(s)
             /\ SameTokens(r, s) /\ SameWire(r, s) /\ s.stream = r.stream
             /\ s.targets = empty <=> r.targets = empty
PROOF
<1>. DEFINE failed == [r EXCEPT !.failures = @ + 1]
            off == [failed EXCEPT !.timer = FALSE]
<1>0. {"Unknown", "Offline"} \subseteq OnlineState
  BY DEF OnlineState
<1>1. CASE r.online = "Online"
  <2>. DEFINE s == SetAndBroadcast(r, "Unknown")
  <2>1. HandleWatchStreamFailure(r) = s
    BY <1>1 DEF HandleWatchStreamFailure
  <2>2. /\ RemoteStore(s) /\ s.online = "Unknown"
        /\ SameTokens(r, s) /\ SameWire(r, s) /\ s.stream = r.stream
        /\ s.timer = r.timer /\ s.failures = r.failures
        /\ s.targets = empty <=> r.targets = empty
    BY <1>0, SetAndBroadcastIs
  <2>. HIDE DEF s
  <2>3. OnlineMatches(s)
    BY <1>1, <2>2 DEF OnlineMatches
  <2>. QED
    BY <2>1, <2>2, <2>3
<1>2. /\ DOMAIN failed = Fields /\ failed.timer = r.timer /\ failed.failures = r.failures + 1
      /\ failed.online = r.online /\ failed.targets = r.targets /\ failed.agg = r.agg
      /\ failed.updates = r.updates /\ failed.up = r.up /\ failed.down = r.down
      /\ failed.srv = r.srv /\ failed.stream = r.stream
  BY DEF RemoteStore, Fields
<1>3. r.failures + 1 \in Nat /\ r.failures \in Nat
  BY DEF RemoteStore
<1>. HIDE DEF failed
<1>4. RemoteStore(failed)
  BY <1>2, <1>3 DEF RemoteStore
<1>5. CASE r.online # "Online" /\ failed.failures >= kMaxWatchStreamFailures
  <2>1. /\ DOMAIN off = Fields /\ off.timer = FALSE /\ off.failures = failed.failures
        /\ off.online = r.online /\ off.targets = r.targets /\ off.agg = r.agg
        /\ off.updates = r.updates /\ off.up = r.up /\ off.down = r.down
        /\ off.srv = r.srv /\ off.stream = r.stream
    BY <1>2 DEF Fields
  <2>2. HandleWatchStreamFailure(r) = SetAndBroadcast(off, "Offline")
    BY <1>5 DEF HandleWatchStreamFailure, failed
  <2>. HIDE DEF off
  <2>3. RemoteStore(off)
    BY <1>4, <2>1 DEF RemoteStore
  <2>. DEFINE s == SetAndBroadcast(off, "Offline")
  <2>4. /\ RemoteStore(s) /\ s.online = "Offline"
        /\ SameTokens(off, s) /\ SameWire(off, s) /\ s.stream = off.stream
        /\ s.timer = off.timer /\ s.failures = off.failures
        /\ s.targets = empty <=> off.targets = empty
    BY <1>0, <2>3, SetAndBroadcastIs
  <2>. HIDE DEF s
  <2>5. /\ OnlineMatches(s) /\ SameTokens(r, s) /\ SameWire(r, s) /\ s.stream = r.stream
        /\ s.targets = empty <=> r.targets = empty
    BY <2>1, <2>4 DEF OnlineMatches, SameTokens, SameWire
  <2>. QED
    BY <2>2, <2>4, <2>5 DEF s
<1>6. CASE r.online # "Online" /\ ~(failed.failures >= kMaxWatchStreamFailures)
  <2>1. HandleWatchStreamFailure(r) = failed
    BY <1>6 DEF HandleWatchStreamFailure, failed
  <2>2. failed.failures < kMaxWatchStreamFailures
    BY <1>2, <1>3, <1>6, WatchAssumption
  <2>3. /\ OnlineMatches(failed) /\ SameTokens(r, failed) /\ SameWire(r, failed)
        /\ failed.stream = r.stream /\ (failed.targets = empty <=> r.targets = empty)
    BY <1>2, <1>6, <2>2 DEF OnlineMatches, SameTokens, SameWire
  <2>. QED
    BY <1>4, <2>1, <2>3
<1>. QED
  BY <1>1, <1>5, <1>6

-----------------------------------------------------------------------------
(* Streams that close, start and restart.                                  *)

(* Nothing is left of the call; the targets stay. *)
Reset(r, s) ==
  /\ RemoteStore(s) /\ TimersAt(s)
  /\ SameTokens(r, s) /\ Quiet(s) /\ ~IsOpen(s.stream)

LEMMA NoCallIsACall == Call(noCall) /\ 0 \in Version
PROOF
<1>1. 0 \in Version
  BY WatchAssumption DEF Version
<1>. QED
  BY <1>1, EmptyIsPartial DEF Call, noCall

LEMMA ClosedIs ==
  ASSUME NEW r, RemoteStore(r), Matches(r.stream), NEW graceful \in BOOLEAN
  PROVE  LET s == closed(r, graceful)
         IN  /\ RemoteStore(s) /\ Quiet(s) /\ Matches(s.stream) /\ ~s.stream.idle
             /\ ~IsStarted(s.stream) /\ ~IsOpen(s.stream)
             /\ s.targets = r.targets /\ s.online = r.online /\ s.timer = r.timer
             /\ s.failures = r.failures
PROOF
<1>. DEFINE s == closed(r, graceful)
<1>1. /\ DOMAIN s = Fields /\ Quiet(s) /\ s.stream = Close(r.stream, graceful)
      /\ s.targets = r.targets /\ s.online = r.online /\ s.timer = r.timer
      /\ s.failures = r.failures
  BY DEF closed, RemoteStore, Fields, Quiet
<1>. HIDE DEF s
<1>2. /\ Matches(s.stream) /\ ~s.stream.idle /\ ~IsStarted(s.stream) /\ ~IsOpen(s.stream)
  BY <1>1, CloseMatches
<1>3. RemoteStore(s)
  BY <1>1, <1>2, EmptyIsPartial, NoCallIsACall DEF RemoteStore, Quiet, Matches
<1>. QED
  BY <1>1, <1>2, <1>3 DEF s

LEMMA StartWatchStreamIs ==
  ASSUME NEW r, RemoteStore(r), OnlineMatches(r), Matches(r.stream), ~IsStarted(r.stream)
  PROVE  LET s == StartWatchStream(r)
         IN  /\ RemoteStore(s) /\ TimersAt(s) /\ SameTokens(r, s) /\ ~IsOpen(s.stream)
             /\ Quiet(r) => Quiet(s)
PROOF
<1>. DEFINE q == [r EXCEPT !.agg = empty, !.updates = empty, !.stream = Start(@)]
<1>1. /\ DOMAIN q = Fields /\ q.agg = empty /\ q.updates = empty /\ q.stream = Start(r.stream)
      /\ q.up = r.up /\ q.down = r.down /\ q.srv = r.srv /\ q.targets = r.targets
      /\ q.online = r.online /\ q.timer = r.timer /\ q.failures = r.failures
  BY DEF RemoteStore, Fields
<1>2. StartWatchStream(r) = HandleWatchStreamStart(q)
  BY DEF StartWatchStream
<1>. HIDE DEF q
<1>3. /\ Matches(q.stream) /\ IsStarted(q.stream) /\ ~IsOpen(q.stream) /\ ~q.stream.idle
  BY <1>1, StartMatches
<1>4. RemoteStore(q)
  BY <1>1, <1>3, EmptyIsPartial DEF RemoteStore, Matches
<1>5. OnlineMatches(q)
  BY <1>1 DEF OnlineMatches
<1>. DEFINE s == HandleWatchStreamStart(q)
<1>6. /\ RemoteStore(s) /\ OnlineMatches(s)
      /\ SameTokens(q, s) /\ SameWire(q, s) /\ s.stream = q.stream
  BY <1>4, <1>5, HandleWatchStreamStartIs
<1>. HIDE DEF s
<1>7. TimersAt(s) /\ ~IsOpen(s.stream)
  BY <1>3, <1>6 DEF TimersAt
<1>8. SameTokens(r, s) /\ (Quiet(r) => Quiet(s))
  BY <1>1, <1>6 DEF SameTokens, SameWire, Quiet
<1>. QED
  BY <1>2, <1>6, <1>7, <1>8 DEF s

LEMMA OnWatchStreamCloseIs ==
  ASSUME NEW r, RemoteStore(r), TimersAt(r)
  PROVE  Reset(r, OnWatchStreamClose(r))
PROOF
<1>. DEFINE q == closed(r, FALSE)
            f == HandleWatchStreamFailure(q)
<1>1. /\ RemoteStore(q) /\ Quiet(q) /\ Matches(q.stream) /\ ~q.stream.idle
      /\ ~IsStarted(q.stream) /\ ~IsOpen(q.stream)
      /\ q.targets = r.targets /\ q.online = r.online /\ q.timer = r.timer
      /\ q.failures = r.failures
  BY ClosedIs DEF TimersAt
<1>2. OnlineMatches(q) /\ SameTokens(r, q)
  BY <1>1 DEF TimersAt, OnlineMatches, SameTokens
<1>3. OnWatchStreamClose(r) =
        IF ShouldStartWatchStream(q) THEN StartWatchStream(f) ELSE UpdateState(q, "Unknown")
  BY DEF OnWatchStreamClose
<1>. HIDE DEF q
<1>4. CASE ShouldStartWatchStream(q)
  <2>1. /\ RemoteStore(f) /\ OnlineMatches(f)
        /\ SameTokens(q, f) /\ SameWire(q, f) /\ f.stream = q.stream
    BY <1>1, <1>2, HandleWatchStreamFailureIs
  <2>. HIDE DEF f
  <2>2. Quiet(f) /\ Matches(f.stream) /\ ~IsStarted(f.stream) /\ SameTokens(r, f)
    BY <1>1, <1>2, <2>1 DEF Quiet, SameWire, SameTokens
  <2>3. /\ RemoteStore(StartWatchStream(f)) /\ TimersAt(StartWatchStream(f))
        /\ SameTokens(f, StartWatchStream(f)) /\ ~IsOpen(StartWatchStream(f).stream)
        /\ Quiet(StartWatchStream(f))
    BY <2>1, <2>2, StartWatchStreamIs
  <2>. QED
    BY <1>3, <1>4, <2>2, <2>3 DEF Reset, SameTokens
<1>5. CASE ~ShouldStartWatchStream(q)
  <2>. DEFINE s == UpdateState(q, "Unknown")
  <2>1. /\ RemoteStore(s) /\ OnlineMatches(s)
        /\ SameTokens(q, s) /\ SameWire(q, s) /\ s.stream = q.stream
        /\ ~s.timer
        /\ s.targets = empty <=> q.targets = empty
    BY <1>1, UpdateStateIs DEF OnlineState
  <2>. HIDE DEF s
  <2>2. s.targets = empty
    BY <1>1, <1>5, <2>1 DEF ShouldStartWatchStream
  <2>3. TimersAt(s) /\ Quiet(s) /\ SameTokens(r, s) /\ ~IsOpen(s.stream)
    BY <1>1, <1>2, <2>1, <2>2 DEF TimersAt, Quiet, SameWire, SameTokens
  <2>. QED
    BY <1>3, <1>5, <2>1, <2>3 DEF Reset, s
<1>. QED
  BY <1>4, <1>5

(* Stop leaves a stream that is not started, and no timer. *)
LEMMA StopIs ==
  ASSUME NEW r, RemoteStore(r), TimersAt(r), ~IsOpen(r.stream) => Quiet(r)
  PROVE  LET s == Stop(r)
         IN  /\ RemoteStore(s) /\ Quiet(s) /\ Matches(s.stream) /\ ~s.stream.idle
             /\ ~IsStarted(s.stream) /\ ~IsOpen(s.stream)
             /\ OnlineMatches(s) /\ ~s.timer
             /\ SameTokens(r, s) /\ (s.targets = empty <=> r.targets = empty)
PROOF
<1>1. CASE IsStarted(r.stream)
  <2>. DEFINE q == closed(r, TRUE)
              s == UpdateState(q, "Unknown")
  <2>1. /\ RemoteStore(q) /\ Quiet(q) /\ Matches(q.stream) /\ ~q.stream.idle
        /\ ~IsStarted(q.stream) /\ ~IsOpen(q.stream) /\ q.targets = r.targets
    BY ClosedIs DEF TimersAt
  <2>2. Stop(r) = s
    BY <1>1 DEF Stop
  <2>. HIDE DEF q
  <2>3. /\ RemoteStore(s) /\ OnlineMatches(s)
        /\ SameTokens(q, s) /\ SameWire(q, s) /\ s.stream = q.stream
        /\ ~s.timer
        /\ s.targets = empty <=> q.targets = empty
    BY <2>1, UpdateStateIs DEF OnlineState
  <2>. HIDE DEF s
  <2>4. Quiet(s) /\ SameTokens(r, s)
    BY <2>1, <2>3 DEF Quiet, SameWire, SameTokens
  <2>. QED
    BY <2>1, <2>2, <2>3, <2>4
<1>2. CASE ~IsStarted(r.stream)
  <2>1. ~IsOpen(r.stream) /\ ~r.stream.idle /\ ~r.timer
    BY <1>2 DEF IsStarted, IsOpen, TimersAt, Matches, TimersMatch
  <2>. QED
    BY <1>2, <2>1 DEF Stop, TimersAt, SameTokens
<1>. QED
  BY <1>1, <1>2

LEMMA RestartNetworkIs ==
  ASSUME NEW r, RemoteStore(r), TimersAt(r), ~IsOpen(r.stream) => Quiet(r)
  PROVE  Reset(r, RestartNetwork(r))
PROOF
<1>. DEFINE p == Stop(r)
            q == UpdateState(p, "Unknown")
            s == [q EXCEPT !.stream = InhibitBackoff(@)]
            u == UpdateState(s, "Unknown")
<1>0. "Unknown" \in OnlineState
  BY DEF OnlineState
<1>1. /\ RemoteStore(p) /\ Quiet(p) /\ Matches(p.stream) /\ ~IsStarted(p.stream)
      /\ SameTokens(r, p)
  BY StopIs
<1>2. RestartNetwork(r) = IF ShouldStartWatchStream(s) THEN StartWatchStream(s) ELSE u
  BY DEF RestartNetwork
<1>. HIDE DEF p
<1>3. /\ RemoteStore(q) /\ OnlineMatches(q) /\ ~q.timer
      /\ SameTokens(p, q) /\ SameWire(p, q) /\ q.stream = p.stream
  BY <1>0, <1>1, UpdateStateIs
<1>. HIDE DEF q
<1>4. /\ DOMAIN s = Fields /\ s.stream = InhibitBackoff(q.stream) /\ s.targets = q.targets
      /\ s.agg = q.agg /\ s.updates = q.updates /\ s.up = q.up /\ s.down = q.down
      /\ s.srv = q.srv /\ s.online = q.online /\ s.timer = q.timer /\ s.failures = q.failures
  BY <1>3 DEF RemoteStore, Fields
<1>. HIDE DEF s
<1>5. Matches(s.stream) /\ ~IsStarted(s.stream) /\ ~IsOpen(s.stream) /\ ~s.stream.idle
  BY <1>1, <1>3, <1>4, InhibitBackoffMatches
<1>6. RemoteStore(s)
  BY <1>3, <1>4, <1>5 DEF RemoteStore, Matches
<1>7. OnlineMatches(s) /\ Quiet(s) /\ SameTokens(r, s)
  BY <1>1, <1>3, <1>4 DEF OnlineMatches, Quiet, SameWire, SameTokens
<1>8. CASE ShouldStartWatchStream(s)
  <2>1. /\ RemoteStore(StartWatchStream(s)) /\ TimersAt(StartWatchStream(s))
        /\ SameTokens(s, StartWatchStream(s)) /\ ~IsOpen(StartWatchStream(s).stream)
        /\ Quiet(StartWatchStream(s))
    BY <1>5, <1>6, <1>7, StartWatchStreamIs
  <2>. QED
    BY <1>2, <1>7, <1>8, <2>1 DEF Reset, SameTokens
<1>9. CASE ~ShouldStartWatchStream(s)
  <2>1. /\ RemoteStore(u) /\ OnlineMatches(u)
        /\ SameTokens(s, u) /\ SameWire(s, u) /\ u.stream = s.stream
        /\ ~u.timer /\ (u.targets = empty <=> s.targets = empty)
    BY <1>0, <1>6, UpdateStateIs
  <2>. HIDE DEF u
  <2>2. s.targets = empty
    BY <1>5, <1>9 DEF ShouldStartWatchStream
  <2>3. TimersAt(u) /\ Quiet(u) /\ SameTokens(r, u) /\ ~IsOpen(u.stream)
    BY <1>5, <1>7, <2>1, <2>2 DEF TimersAt, Quiet, SameWire, SameTokens
  <2>. QED
    BY <1>2, <1>9, <2>1, <2>3 DEF Reset
<1>. QED
  BY <1>8, <1>9

-----------------------------------------------------------------------------
(* Requests that are sent.                                                 *)

LEMMA TargetStateChanges ==
  ASSUME NEW s \in TargetState, NEW n \in Nat, NEW c \in BOOLEAN
  PROVE  /\ [s EXCEPT !.outstanding = n] \in TargetState
         /\ [s EXCEPT !.outstanding = n].outstanding = n
         /\ [s EXCEPT !.changed = c] \in TargetState
         /\ [s EXCEPT !.changed = c].outstanding = s.outstanding
         /\ [s EXCEPT !.current = c] \in TargetState
         /\ [s EXCEPT !.current = c].outstanding = s.outstanding
BY DEF TargetState

LEMMA StateOfType ==
  ASSUME NEW r, Partial(r.agg, TargetState), NEW t
  PROVE  stateOf(r, t) \in TargetState /\ stateOf(r, t).outstanding \in Nat
PROOF
<1>1. newTargetState \in TargetState
  BY DEF newTargetState, TargetState
<1>2. stateOf(r, t) \in TargetState
  BY <1>1 DEF stateOf, Partial
<1>. QED
  BY <1>2 DEF TargetState

(* s is r with the requests, which are about ts. *)
IsSent(s, r, ts, requests) ==
  /\ RemoteStore(s) /\ s.up = r.up \o requests
  /\ s.targets = r.targets /\ s.updates = r.updates /\ s.down = r.down
  /\ s.srv = r.srv /\ s.online = r.online /\ s.timer = r.timer
  /\ s.failures = r.failures
  /\ s.stream = CancelIdleCheck(r.stream)
  /\ Matches(s.stream) /\ ~s.stream.idle
  /\ IsStarted(s.stream) <=> IsStarted(r.stream)
  /\ IsOpen(s.stream) <=> IsOpen(r.stream)
  /\ \A t \in Target : stateOf(s, t).outstanding =
       IF t \in ts THEN stateOf(r, t).outstanding + 1 ELSE stateOf(r, t).outstanding

LEMMA SentIs ==
  ASSUME NEW r, RemoteStore(r), Matches(r.stream), NEW ts, ts \subseteq Target,
         NEW requests, requests \in Seq(Request), NEW s, s = sent(r, ts, requests)
  PROVE  IsSent(s, r, ts, requests)
PROOF
<1>. DEFINE f == [t \in DOMAIN r.agg \cup ts |->
                   IF t \in ts THEN [stateOf(r, t) EXCEPT !.outstanding = @ + 1] ELSE r.agg[t]]
            q == [r EXCEPT !.agg = f]
<1>1. RecordPendingTargetRequest(r, ts) = q
  BY DEF RecordPendingTargetRequest
<1>2. s = [q EXCEPT !.up = q.up \o requests, !.stream = CancelIdleCheck(q.stream)]
  BY <1>1 DEF sent
<1>3. /\ DOMAIN q = Fields /\ q.agg = f /\ q.up = r.up /\ q.targets = r.targets
      /\ q.updates = r.updates /\ q.down = r.down /\ q.srv = r.srv /\ q.online = r.online
      /\ q.timer = r.timer /\ q.failures = r.failures /\ q.stream = r.stream
  BY DEF RemoteStore, Fields
<1>4. Partial(r.agg, TargetState)
  BY DEF RemoteStore
<1>5. \A t \in ts : /\ f[t] \in TargetState
                    /\ f[t].outstanding = stateOf(r, t).outstanding + 1
  <2>. TAKE t \in ts
  <2>1. stateOf(r, t) \in TargetState /\ stateOf(r, t).outstanding + 1 \in Nat
    BY <1>4, StateOfType
  <2>. DEFINE s0 == stateOf(r, t)
              n == stateOf(r, t).outstanding + 1
  <2>2. f[t] = [s0 EXCEPT !.outstanding = n]
    OBVIOUS
  <2>3. s0 \in TargetState /\ n \in Nat
    BY <2>1
  <2>. HIDE DEF f, s0, n
  <2>4. /\ [s0 EXCEPT !.outstanding = n] \in TargetState
        /\ [s0 EXCEPT !.outstanding = n].outstanding = n
    BY <2>3 DEF TargetState
  <2>5. f[t] \in TargetState /\ f[t].outstanding = n
    BY <2>2, <2>4, Zenon
  <2>. QED
    BY <2>5 DEF n
<1>6. DOMAIN f = DOMAIN r.agg \cup ts /\ \A t \in DOMAIN r.agg \ ts : f[t] = r.agg[t]
  OBVIOUS
<1>7. Partial(f, TargetState)
  <2>1. \A t \in DOMAIN r.agg : r.agg[t] \in TargetState
    BY <1>4 DEF Partial
  <2>2. \A t \in DOMAIN f : f[t] \in TargetState
    BY <1>5, <1>6, <2>1
  <2>. QED
    BY <1>4, <1>6, <2>2 DEF Partial
<1>. HIDE DEF f, q
<1>8. /\ DOMAIN s = Fields /\ s.agg = f /\ s.up = r.up \o requests /\ s.targets = r.targets
      /\ s.updates = r.updates /\ s.down = r.down /\ s.srv = r.srv /\ s.online = r.online
      /\ s.timer = r.timer /\ s.failures = r.failures /\ s.stream = CancelIdleCheck(r.stream)
  BY <1>2, <1>3 DEF Fields
<1>9. /\ Matches(s.stream) /\ ~s.stream.idle
      /\ IsStarted(s.stream) = IsStarted(r.stream) /\ IsOpen(s.stream) = IsOpen(r.stream)
  BY <1>8, CancelIdleMatches
<1>10. r.up \o requests \in Seq(Request)
  BY DEF RemoteStore
<1>11. RemoteStore(s)
  BY <1>7, <1>8, <1>9, <1>10 DEF RemoteStore, Matches
<1>12. \A t \in Target : stateOf(s, t).outstanding =
         IF t \in ts THEN stateOf(r, t).outstanding + 1 ELSE stateOf(r, t).outstanding
  BY <1>5, <1>6, <1>8 DEF stateOf
<1>. QED
  BY <1>8, <1>9, <1>11, <1>12 DEF IsSent

-----------------------------------------------------------------------------
(* What a step keeps of the messages on their way.                         *)

LEMMA HistoryIs ==
  ASSUME Types
  PROVE  now \in Nat /\ now \in Version /\ DOMAIN history = 1..now /\ Version \subseteq Nat
BY DEF Types, now, Version

LEMMA ChangeShape ==
  ASSUME NEW m \in Change
  PROVE  m.target \in Target /\ m.version \in Version /\ m.version \in Nat
BY DEF Change, Version

(* An active target waits for nothing. *)
LEMMA ActiveIsAnswered ==
  ASSUME IInv, NEW t \in Target \ denied, stateOf(ws, t).outstanding = 0, NEW k
  PROVE  Answered(ws, t, k)
PROOF
<1>1. ws.up \in Seq(Request) /\ ws.down \in Seq(Change)
  BY DEF IInv, Types, RemoteStore
<1>2. /\ count(ws.up, t, {"watch", "unwatch"}) \in Nat
      /\ count(ws.up, t, {"watch", "unwatch"}) = 0 <=>
           \A i \in DOMAIN ws.up : ws.up[i].target = t => ws.up[i].kind \notin {"watch", "unwatch"}
  BY <1>1, CountType
<1>3. /\ count(ws.down, t, {"added", "removed"}) \in Nat
      /\ count(ws.down, t, {"added", "removed"}) = 0 <=>
           \A i \in DOMAIN ws.down : ws.down[i].target = t => ws.down[i].kind \notin {"added", "removed"}
  BY <1>1, CountType
<1>4. 0 = count(ws.up, t, {"watch", "unwatch"}) + count(ws.down, t, {"added", "removed"})
  BY DEF IInv, Wire, OutstandingIsExact
<1>5. \A i \in DOMAIN ws.up : ws.up[i].kind \in {"watch", "unwatch"}
  <2>1. \A m \in Request : m.kind \in {"watch", "unwatch"}
    BY DEF Request
  <2>. QED
    BY <1>1, <2>1
<1>. QED
  BY <1>2, <1>3, <1>4, <1>5 DEF Answered, isResponse

(* A step that leaves no call. *)
LEMMA QuietKeeps ==
  ASSUME Types', Quiet(ws'), ~IsOpen(ws'.stream)
  PROVE  Wire'
PROOF
<1>1. /\ ws'.agg = empty /\ ws'.updates = empty /\ ws'.up = <<>> /\ ws'.down = <<>>
      /\ DOMAIN ws'.srv.sent = {} /\ DOMAIN ws'.srv.owed = {} /\ ws'.srv.version = 0
  BY EmptyIsPartial DEF Quiet, noCall
<1>2. DOMAIN ws'.up = {} /\ DOMAIN ws'.down = {} /\ DOMAIN ws'.updates = {} /\ DOMAIN ws'.agg = {}
  BY <1>1, EmptyIsPartial
<1>3. now' \in Nat
  BY DEF Types, Version
<1>4. OutstandingIsExact'
  <2>. SUFFICES ASSUME NEW t \in Target
                PROVE  stateOf(ws', t).outstanding =
                         count(ws'.up, t, {"watch", "unwatch"})
                           + count(ws'.down, t, {"added", "removed"})
    BY DEF OutstandingIsExact
  <2>1. <<>> \in Seq(Change) /\ DOMAIN <<>> = {}
    OBVIOUS
  <2>2. \A kinds : count(<<>>, t, kinds) = 0
    BY <2>1, CountType
  <2>3. stateOf(ws', t).outstanding = 0
    BY <1>2 DEF stateOf, newTargetState
  <2>. QED
    BY <1>1, <2>2, <2>3
<1>5. ClosedIsQuiet' /\ RefusalsAreFinal' /\ TargetsAreAskedFor'
  BY <1>1, <1>2 DEF ClosedIsQuiet, RefusalsAreFinal, TargetsAreAskedFor
<1>6. VersionsAreKnown' /\ DocumentsGrow' /\ CallGrows'
  BY <1>1, <1>2, <1>3 DEF VersionsAreKnown, DocumentsGrow, CallGrows
<1>7. RequestsAreHonest' /\ SnapshotsAreHonest' /\ BackendIsHonest'
  BY <1>1, <1>2 DEF RequestsAreHonest, SnapshotsAreHonest, BackendIsHonest
<1>. QED
  BY <1>4, <1>5, <1>6, <1>7 DEF Wire

(* A step that leaves the call alone. *)
LEMMA SameWireKeeps ==
  ASSUME IInv, UNCHANGED <<disk, history, denied>>, SameWire(ws, ws'),
         IsOpen(ws'.stream) = IsOpen(ws.stream), DOMAIN ws'.targets \subseteq DOMAIN ws.targets
  PROVE  Wire'
PROOF
<1>1. /\ ws'.agg = ws.agg /\ ws'.updates = ws.updates /\ ws'.up = ws.up /\ ws'.down = ws.down
      /\ ws'.srv = ws.srv /\ now' = now
  BY DEF SameWire, now
<1>2. Wire
  BY DEF IInv
<1>3. \A t : stateOf(ws', t) = stateOf(ws, t)
  BY <1>1 DEF stateOf
<1>4. ClosedIsQuiet' /\ OutstandingIsExact' /\ RefusalsAreFinal' /\ TargetsAreAskedFor'
  <2>1. ClosedIsQuiet'
    BY <1>1, <1>2 DEF Wire, ClosedIsQuiet, Quiet
  <2>2. OutstandingIsExact'
    BY <1>1, <1>2, <1>3 DEF Wire, OutstandingIsExact
  <2>3. RefusalsAreFinal'
    BY <1>1, <1>2, <1>3 DEF Wire, RefusalsAreFinal
  <2>4. TargetsAreAskedFor'
    BY <1>1, <1>2 DEF Wire, TargetsAreAskedFor
  <2>. QED
    BY <2>1, <2>2, <2>3, <2>4
<1>5. VersionsAreKnown' /\ DocumentsGrow' /\ CallGrows' /\ RequestsAreHonest'
  <2>1. VersionsAreKnown' /\ RequestsAreHonest'
    BY <1>1, <1>2 DEF Wire, VersionsAreKnown, RequestsAreHonest
  <2>2. DocumentsGrow' /\ CallGrows'
    BY <1>1, <1>2 DEF Wire, DocumentsGrow, CallGrows
  <2>. QED
    BY <2>1, <2>2
<1>6. \A t, k : Answered(ws', t, k) = Answered(ws, t, k)
  BY <1>1 DEF Answered
<1>7. \A t, v, k : Has(ws', disk', history', t, v, k) = Has(ws, disk, history, t, v, k)
  BY <1>1, <1>6 DEF Has
<1>8. SnapshotsAreHonest' /\ BackendIsHonest'
  <2>1. SnapshotsAreHonest'
    BY <1>1, <1>2, <1>6, <1>7 DEF Wire, SnapshotsAreHonest
  <2>2. BackendIsHonest'
    BY <1>1, <1>2, <1>6, <1>7 DEF Wire, BackendIsHonest
  <2>. QED
    BY <2>1, <2>2
<1>. QED
  BY <1>4, <1>5, <1>8 DEF Wire

(* Targets that keep their tokens. *)
LEMMA TokensKeep ==
  ASSUME TokensAreHonest, UNCHANGED <<disk, history>>,
         DOMAIN ws'.targets \subseteq DOMAIN ws.targets,
         \A t \in DOMAIN ws'.targets : ws'.targets[t].token = ws.targets[t].token
  PROVE  TokensAreHonest'
BY DEF TokensAreHonest, now

(* A step that sends requests about the targets ts, one about each. *)
LEMMA SentKeeps ==
  ASSUME IInv, UNCHANGED <<history, denied>>, disk'.content = disk.content,
         NEW requests \in Seq(Request), NEW ts \in SUBSET Target,
         IsOpen(ws'.stream), ws'.up = ws.up \o requests, ws'.down = ws.down,
         ws'.updates = ws.updates, ws'.srv = ws.srv,
         \A t \in Target : stateOf(ws', t).outstanding =
           IF t \in ts THEN stateOf(ws, t).outstanding + 1 ELSE stateOf(ws, t).outstanding,
         \A i \in DOMAIN requests : requests[i].target \in ts /\ requests[i].version <= now,
         \A i \in DOMAIN requests : requests[i].kind = "watch" =>
           disk.content[requests[i].target]
             >= Latest(history, requests[i].target, requests[i].version),
         \A t \in ts : count(requests, t, {"watch", "unwatch"}) = 1,
         \A t \in DOMAIN ws'.targets :
           \/ t \in ts /\ \A i \in DOMAIN requests :
                            requests[i].target = t => requests[i].kind = "watch"
           \/ t \notin ts /\ t \in DOMAIN ws.targets /\ IsOpen(ws.stream),
         DOMAIN ws'.targets \subseteq Target
  PROVE  Wire'
PROOF
<1>1. /\ ws.up \in Seq(Request) /\ ws.down \in Seq(Change) /\ Wire /\ now' = now
      /\ Partial(ws.agg, TargetState)
  BY DEF IInv, Types, RemoteStore, now
<1>. DEFINE n == Len(ws.up)
<1>2. /\ ws'.up \in Seq(Request) /\ n \in Nat
      /\ DOMAIN ws.up = 1..n
      /\ \A i \in DOMAIN ws.up : i \in DOMAIN ws'.up /\ ws'.up[i] = ws.up[i]
      /\ \A i \in DOMAIN requests : n + i \in DOMAIN ws'.up /\ ws'.up[n + i] = requests[i]
      /\ \A i \in DOMAIN requests : i \in Nat /\ i >= 1
      /\ \A i \in DOMAIN ws'.up :
           \/ i \in DOMAIN ws.up /\ ws'.up[i] = ws.up[i]
           \/ i \in Nat /\ i > n /\ i - n \in DOMAIN requests /\ ws'.up[i] = requests[i - n]
  <2>1. /\ ws.up \o requests \in Seq(Request) /\ Len(ws.up) \in Nat /\ Len(requests) \in Nat
        /\ DOMAIN ws.up = 1..Len(ws.up) /\ DOMAIN requests = 1..Len(requests)
        /\ \A i \in DOMAIN ws.up :
             i \in DOMAIN (ws.up \o requests) /\ (ws.up \o requests)[i] = ws.up[i]
        /\ \A i \in DOMAIN requests :
             /\ Len(ws.up) + i \in DOMAIN (ws.up \o requests)
             /\ (ws.up \o requests)[Len(ws.up) + i] = requests[i]
        /\ \A i \in DOMAIN (ws.up \o requests) :
             i \in DOMAIN ws.up \/ i - Len(ws.up) \in DOMAIN requests
        /\ DOMAIN (ws.up \o requests) = 1..(Len(ws.up) + Len(requests))
    BY <1>1, ConcatPositions
  <2>2. \A i \in DOMAIN ws'.up : i - n \in DOMAIN requests =>
          i \in Nat /\ i > n /\ ws'.up[i] = requests[i - n]
    <3>. SUFFICES ASSUME NEW i \in DOMAIN ws'.up, i - n \in DOMAIN requests
                  PROVE  i \in Nat /\ i > n /\ ws'.up[i] = requests[i - n]
      OBVIOUS
    <3>1. i \in 1..(n + Len(requests)) /\ i - n \in 1..Len(requests) /\ n + (i - n) = i
      BY <2>1
    <3>. QED
      BY <2>1, <3>1
  <2>. QED
    BY <2>1, <2>2
<1>. HIDE DEF n
(* Each of ts has a request. *)
<1>3. \A t \in ts : \E i \in DOMAIN requests : requests[i].target = t
  <2>. TAKE t \in ts
  <2>1. count(requests, t, {"watch", "unwatch"}) # 0
    OBVIOUS
  <2>. QED
    BY <2>1, CountType
<1>4. \A t \in ts : \A k : ~Answered(ws', t, k)
  <2>. TAKE t \in ts
  <2>1. PICK i \in DOMAIN requests : requests[i].target = t
    BY <1>3
  <2>2. n + i \in DOMAIN ws'.up /\ ws'.up[n + i].target = t
    BY <1>2, <2>1
  <2>. QED
    BY <2>2 DEF Answered
<1>5. \A t, k : t \notin ts => (Answered(ws', t, k) <=> Answered(ws, t, k))
  BY <1>2 DEF Answered
<1>6. \A t, v, k : t \notin ts =>
        (Has(ws, disk, history, t, v, k) => Has(ws', disk', history', t, v, k))
  BY <1>5 DEF Has
<1>7. OutstandingIsExact'
  <2>. SUFFICES ASSUME NEW t \in Target \ denied
                PROVE  stateOf(ws', t).outstanding =
                         count(ws'.up, t, {"watch", "unwatch"})
                           + count(ws'.down, t, {"added", "removed"})
    BY DEF OutstandingIsExact
  <2>. DEFINE a == count(ws.up, t, {"watch", "unwatch"})
              b == count(requests, t, {"watch", "unwatch"})
              c == count(ws.down, t, {"added", "removed"})
  <2>1. count(ws'.up, t, {"watch", "unwatch"}) = a + b
    BY <1>1, CountConcat
  <2>2. stateOf(ws, t).outstanding = a + c
    BY <1>1 DEF Wire, OutstandingIsExact
  <2>3. a \in Nat /\ b \in Nat /\ c \in Nat
    BY <1>1, CountType
  <2>4. b = IF t \in ts THEN 1 ELSE 0
    <3>1. CASE t \in ts
      BY <3>1
    <3>2. CASE t \notin ts
      BY <3>2, CountType
    <3>. QED
      BY <3>1, <3>2
  <2>5. count(ws'.down, t, {"added", "removed"}) = c
    OBVIOUS
  <2>6. stateOf(ws', t).outstanding = stateOf(ws, t).outstanding + b
    <3>1. stateOf(ws, t).outstanding \in Nat
      BY <1>1, StateOfType
    <3>. HIDE DEF b
    <3>. QED
      BY <2>4, <3>1
  <2>. HIDE DEF a, b, c
  <2>. QED
    BY <2>1, <2>2, <2>3, <2>5, <2>6
<1>8. RefusalsAreFinal'
  <2>1. \A t \in denied \cap DOMAIN ws'.targets : stateOf(ws', t).outstanding > 0
    <3>. SUFFICES ASSUME NEW t \in denied \cap DOMAIN ws'.targets
                  PROVE  stateOf(ws', t).outstanding > 0
      OBVIOUS
    <3>1. t \in Target /\ stateOf(ws, t).outstanding \in Nat
      BY <1>1, StateOfType
    <3>2. CASE t \in ts
      BY <3>1, <3>2
    <3>3. CASE t \notin ts
      BY <1>1, <3>1, <3>3 DEF Wire, RefusalsAreFinal
    <3>. QED
      BY <3>2, <3>3
  <2>. QED
    BY <1>1, <2>1 DEF Wire, RefusalsAreFinal
<1>9. VersionsAreKnown' /\ RequestsAreHonest'
  <2>1. VersionsAreKnown'
    BY <1>1, <1>2 DEF Wire, VersionsAreKnown
  <2>2. RequestsAreHonest'
    BY <1>1, <1>2 DEF Wire, RequestsAreHonest
  <2>. QED
    BY <2>1, <2>2
<1>10. DocumentsGrow' /\ CallGrows'
  BY <1>1 DEF Wire, DocumentsGrow, CallGrows
<1>11. TargetsAreAskedFor'
  <2>. SUFFICES ASSUME NEW t \in DOMAIN ws'.targets \ denied
                PROVE  /\ \/ t \in DOMAIN ws'.srv.sent
                          \/ \E i \in DOMAIN ws'.up : isWatch(ws'.up[i], t)
                       /\ \A i \in DOMAIN ws'.up : isUnwatch(ws'.up[i], t) =>
                            \E j \in DOMAIN ws'.up : i < j /\ isWatch(ws'.up[j], t)
    BY DEF TargetsAreAskedFor
  <2>2. CASE t \in ts
    <3>1. PICK i \in DOMAIN requests : isWatch(requests[i], t)
      BY <1>3, <2>2 DEF isWatch
    <3>2. n + i \in DOMAIN ws'.up /\ isWatch(ws'.up[n + i], t) /\ n + i > n
      BY <1>2, <3>1
    <3>3. \A j \in DOMAIN ws'.up : isUnwatch(ws'.up[j], t) => j <= n
      <4>. SUFFICES ASSUME NEW j \in DOMAIN ws'.up, isUnwatch(ws'.up[j], t),
                           j - n \in DOMAIN requests, ws'.up[j] = requests[j - n]
                    PROVE  FALSE
        BY <1>2
      <4>. QED
        BY <2>2 DEF isUnwatch
    <3>4. \A j \in DOMAIN ws'.up : isUnwatch(ws'.up[j], t) => j < n + i
      BY <1>2, <3>2, <3>3
    <3>. QED
      BY <3>2, <3>4
  <2>3. CASE t \notin ts
    <3>1. /\ t \in DOMAIN ws.srv.sent \/ \E i \in DOMAIN ws.up : isWatch(ws.up[i], t)
          /\ \A i \in DOMAIN ws.up : isUnwatch(ws.up[i], t) =>
               \E j \in DOMAIN ws.up : i < j /\ isWatch(ws.up[j], t)
      BY <1>1, <2>3 DEF Wire, TargetsAreAskedFor
    <3>2. \A i \in DOMAIN ws'.up : isUnwatch(ws'.up[i], t) => i \in DOMAIN ws.up
      BY <1>2, <2>3 DEF isUnwatch
    <3>. QED
      BY <1>2, <3>1, <3>2
  <2>. QED
    BY <2>2, <2>3
<1>12. SnapshotsAreHonest' /\ BackendIsHonest'
  <2>1. SnapshotsAreHonest'
    BY <1>1, <1>4, <1>5, <1>6 DEF Wire, SnapshotsAreHonest
  <2>2. BackendIsHonest'
    BY <1>1, <1>4, <1>5, <1>6 DEF Wire, BackendIsHonest
  <2>. QED
    BY <2>1, <2>2
<1>. QED
  BY <1>7, <1>8, <1>9, <1>10, <1>11, <1>12 DEF Wire, ClosedIsQuiet

(* A step that handles a message: a document of an active target becomes a *)
(* pending update, and no update is dropped that is not stored.            *)
LEMMA ReceiveKeeps ==
  ASSUME IInv, UNCHANGED <<history, denied>>, Types', ws.down # <<>>,
         ws'.down = Tail(ws.down), ws'.up = ws.up, ws'.srv = ws.srv, ws'.stream = ws.stream,
         DOMAIN ws'.targets \subseteq DOMAIN ws.targets,
         \A t \in Target : disk'.content[t] >= disk.content[t],
         \A t \in DOMAIN ws'.updates :
           \/ t \in DOMAIN ws.updates /\ ws'.updates[t] = ws.updates[t]
           \/ isDocument(Head(ws.down), t) /\ ws'.updates[t] = Head(ws.down).version,
         \A t \in DOMAIN ws.updates :
           t \in DOMAIN ws'.updates \/ disk'.content[t] >= ws.updates[t],
         \A t \in DOMAIN ws.targets \ denied :
           isDocument(Head(ws.down), t) /\ stateOf(ws, t).outstanding = 0 =>
             t \in DOMAIN ws'.updates /\ ws'.updates[t] = Head(ws.down).version,
         \A t \in Target \ denied : stateOf(ws', t).outstanding =
           stateOf(ws, t).outstanding - IF isResponse(Head(ws.down), t) THEN 1 ELSE 0,
         \A t \in denied \cap DOMAIN ws'.targets :
           stateOf(ws', t).outstanding = stateOf(ws, t).outstanding
  PROVE  Wire'
PROOF
<1>1. /\ ws.up \in Seq(Request) /\ ws.down \in Seq(Change) /\ Wire /\ now' = now
      /\ Partial(ws.agg, TargetState) /\ Partial(ws.updates, Version)
      /\ DOMAIN ws.targets \subseteq Target /\ disk.content \in [Target -> Version]
      /\ disk'.content \in [Target -> Version] /\ Version \subseteq Nat
      /\ Partial(ws'.updates, Version) /\ now \in Nat
  <2>1. RemoteStore(ws) /\ Types /\ Wire /\ Version \subseteq Nat /\ now' = now
    BY DEF IInv, Types, now, Version
  <2>2. /\ ws.up \in Seq(Request) /\ ws.down \in Seq(Change) /\ Partial(ws.agg, TargetState)
        /\ Partial(ws.updates, Version) /\ DOMAIN ws.targets \subseteq Target
    BY <2>1 DEF RemoteStore, Partial
  <2>3. /\ disk.content \in [Target -> Version] /\ disk'.content \in [Target -> Version]
        /\ now \in Nat
    BY <2>1 DEF Types, Disk
  <2>4. Partial(ws'.updates, Version)
    BY DEF Types, RemoteStore
  <2>. QED
    BY <2>1, <2>2, <2>3, <2>4
<1>. DEFINE m == Head(ws.down)
            up == ws.up
            down == ws.down
<1>2. /\ down # <<>> /\ down \in Seq(Change)
      /\ m = down[1] /\ m \in Change /\ ws'.down \in Seq(Change)
      /\ Len(down) \in Nat /\ Len(ws'.down) = Len(down) - 1
      /\ DOMAIN down = 1..Len(down) /\ DOMAIN ws'.down = 1..(Len(down) - 1) /\ 1 \in DOMAIN down
      /\ \A i \in DOMAIN ws'.down : ws'.down[i] = down[i + 1] /\ i + 1 \in DOMAIN down
      /\ \A i \in DOMAIN down : i # 1 => i - 1 \in DOMAIN ws'.down /\ ws'.down[i - 1] = down[i]
  BY <1>1, TailPositions
<1>3. \A i \in DOMAIN down : down[i].target \in Target /\ down[i].version \in Nat
  BY <1>2, ChangeShape
<1>4. Len(ws'.down) + 1 = Len(down) /\ Len(down) + 1 = (Len(ws'.down) + 1) + 1
      /\ Len(ws'.down) + 1 \in Nat
  BY <1>2
<1>. HIDE DEF m, down
<1>5. \A t : \A k \in Nat \ {0} : Answered(ws', t, k) <=> Answered(ws, t, k + 1)
  <2>. SUFFICES ASSUME NEW t, NEW k \in Nat \ {0}
                PROVE  Answered(ws', t, k) <=> Answered(ws, t, k + 1)
    OBVIOUS
  <2>1. ASSUME Answered(ws', t, k) PROVE Answered(ws, t, k + 1)
    <3>. SUFFICES ASSUME NEW j \in DOMAIN down, j >= k + 1
                  PROVE  ~isResponse(down[j], t)
      BY <2>1 DEF Answered, down
    <3>1. j # 1 /\ j - 1 >= k
      BY <1>2
    <3>. QED
      BY <1>2, <2>1, <3>1 DEF Answered
  <2>2. ASSUME Answered(ws, t, k + 1) PROVE Answered(ws', t, k)
    <3>. SUFFICES ASSUME NEW j \in DOMAIN ws'.down, j >= k
                  PROVE  ~isResponse(ws'.down[j], t)
      BY <2>2 DEF Answered
    <3>1. j + 1 >= k + 1
      BY <1>2
    <3>. QED
      BY <1>2, <2>2, <3>1 DEF Answered, down
  <2>. QED
    BY <2>1, <2>2
(* A pending update may be overwritten by a newer one.                     *)
<1>6. \A t \in DOMAIN ws.updates :
        \/ t \in DOMAIN ws'.updates /\ ws'.updates[t] >= ws.updates[t]
        \/ disk'.content[t] >= ws.updates[t]
  <2>. TAKE t \in DOMAIN ws.updates
  <2>1. ws.updates[t] \in Nat
    BY <1>1 DEF Partial
  <2>2. isDocument(m, t) => m.version >= ws.updates[t]
    BY <1>1, <1>2, <1>3, <2>1 DEF Wire, DocumentsGrow, isDocument, down
  <2>. QED
    BY <2>1, <2>2 DEF m
<1>7. ASSUME NEW t \in DOMAIN ws.targets \ denied, NEW v \in Nat, NEW k \in Nat, k >= 1,
             Has(ws, disk, history, t, v, k + 1)
      PROVE  Has(ws', disk', history', t, v, k)
  <2>0. /\ Latest(history, t, v) \in Nat /\ history' = history /\ t \in Target
        /\ disk.content[t] \in Nat /\ disk'.content[t] \in Nat
        /\ \A s \in DOMAIN ws.updates : ws.updates[s] \in Nat
        /\ \A s \in DOMAIN ws'.updates : ws'.updates[s] \in Nat
    BY <1>1, LatestIs DEF Partial
  <2>. DEFINE l == Latest(history, t, v)
  <2>. HIDE DEF l
  <2>1. CASE disk.content[t] >= l
    <3>1. disk'.content[t] >= l
      BY <2>0, <2>1 DEF l
    <3>. QED
      BY <2>0, <3>1 DEF Has, l
  <2>2. CASE t \in DOMAIN ws.updates /\ ws.updates[t] >= l
    <3>1. (t \in DOMAIN ws'.updates /\ ws'.updates[t] >= l) \/ disk'.content[t] >= l
      BY <1>6, <2>0, <2>2 DEF l
    <3>. QED
      BY <2>0, <3>1 DEF Has, l
  <2>3. ASSUME NEW j \in DOMAIN down, j < k + 1, isDocument(down[j], t), down[j].version >= l,
               Answered(ws, t, j)
        PROVE  Has(ws', disk', history', t, v, k)
    <3>1. CASE j = 1
      <4>1. Answered(ws, t, 1)
        BY <2>3, <3>1
      <4>2. stateOf(ws, t).outstanding = 0
        <5>1. count(up, t, {"watch", "unwatch"}) = 0
          BY <1>1, <4>1, CountType DEF Answered
        <5>2. count(down, t, {"added", "removed"}) = 0
          <6>1. \A i \in DOMAIN down : ~isResponse(down[i], t)
            BY <1>2, <4>1 DEF Answered, down
          <6>2. down \in Seq(Change)
            BY <1>1 DEF down
          <6>. QED
            BY <6>1, <6>2, CountType DEF isResponse
        <5>. QED
          BY <1>1, <2>0, <5>1, <5>2 DEF Wire, OutstandingIsExact, down
      <4>3. t \in DOMAIN ws'.updates /\ ws'.updates[t] = m.version
        BY <1>2, <2>3, <3>1, <4>2 DEF m
      <4>4. ws'.updates[t] >= l
        BY <1>2, <2>3, <3>1, <4>3
      <4>. QED
        BY <2>0, <4>3, <4>4 DEF Has, l
    <3>2. CASE j # 1
      <4>. DEFINE i == j - 1
      <4>1. i \in DOMAIN ws'.down /\ ws'.down[i] = down[j] /\ i \in Nat /\ i + 1 = j /\ i < k
        BY <1>2, <2>3, <3>2
      <4>. HIDE DEF i
      <4>2. Answered(ws', t, i)
        BY <1>5, <2>3, <4>1
      <4>. QED
        BY <2>0, <2>3, <4>1, <4>2 DEF Has, l
    <3>. QED
      BY <3>1, <3>2
  <2>. QED
    BY <1>7, <2>1, <2>2, <2>3 DEF Has, l, down
<1>8. OutstandingIsExact'
  <2>. SUFFICES ASSUME NEW t \in Target \ denied
                PROVE  stateOf(ws', t).outstanding =
                         count(up, t, {"watch", "unwatch"})
                           + count(ws'.down, t, {"added", "removed"})
    BY DEF OutstandingIsExact
  <2>. DEFINE a == count(up, t, {"watch", "unwatch"})
              b == count(down, t, {"added", "removed"})
              c == count(ws'.down, t, {"added", "removed"})
              d == IF isResponse(m, t) THEN 1 ELSE 0
  <2>1. a \in Nat /\ b \in Nat /\ c \in Nat
    BY <1>1, <1>2, CountType
  <2>2. b = c + d
    BY <1>1, CountTail DEF isResponse, m, down
  <2>3. stateOf(ws, t).outstanding = a + b
    BY <1>1 DEF Wire, OutstandingIsExact, down
  <2>4. stateOf(ws', t).outstanding = stateOf(ws, t).outstanding - d
    BY DEF m
  <2>5. d \in Nat
    OBVIOUS
  <2>. HIDE DEF a, b, c, d
  <2>6. stateOf(ws', t).outstanding = a + c
    BY <2>1, <2>2, <2>3, <2>4, <2>5
  <2>. QED
    BY <2>6 DEF a, c
<1>9. RefusalsAreFinal'
  <2>1. \A i \in DOMAIN ws'.down :
          /\ ws'.down[i].kind = "failed" => ws'.down[i].target \in denied
          /\ ws'.down[i].kind \notin {"failed", "snapshot"} => ws'.down[i].target \notin denied
    BY <1>1, <1>2 DEF Wire, RefusalsAreFinal, down
  <2>2. \A t \in denied \cap DOMAIN ws'.targets :
          IsOpen(ws.stream) => stateOf(ws', t).outstanding > 0
    BY <1>1 DEF Wire, RefusalsAreFinal
  <2>3. DOMAIN ws.srv.sent \cap denied = {} /\ DOMAIN ws.srv.owed \cap denied = {}
    BY <1>1 DEF Wire, RefusalsAreFinal
  <2>. QED
    BY <2>1, <2>2, <2>3 DEF RefusalsAreFinal
<1>10. VersionsAreKnown' /\ RequestsAreHonest'
  <2>1. VersionsAreKnown'
    BY <1>1, <1>2 DEF Wire, VersionsAreKnown, down
  <2>2. RequestsAreHonest'
    <3>. SUFFICES ASSUME NEW i \in DOMAIN up, up[i].kind = "watch"
                  PROVE  disk'.content[up[i].target]
                           >= Latest(history, up[i].target, up[i].version)
      BY DEF RequestsAreHonest
    <3>. DEFINE t == up[i].target
                l == Latest(history, t, up[i].version)
    <3>1. \A q \in Request : q.target \in Target /\ q.version \in Version
      BY DEF Request
    <3>2. t \in Target /\ up[i].version \in Nat
      <4>1. up[i] \in Request
        BY <1>1
      <4>. QED
        BY <1>1, <3>1, <4>1
    <3>3. l \in Nat /\ disk.content[t] \in Nat /\ disk'.content[t] \in Nat
      BY <1>1, <3>2, LatestIs
    <3>4. disk.content[t] >= l
      BY <1>1 DEF Wire, RequestsAreHonest
    <3>5. disk'.content[t] >= disk.content[t]
      BY <3>2
    <3>. HIDE DEF t, l
    <3>6. disk'.content[t] >= l
      BY <3>3, <3>4, <3>5
    <3>. QED
      BY <3>6 DEF t, l
  <2>. QED
    BY <2>1, <2>2
<1>11. DocumentsGrow'
  <2>. SUFFICES ASSUME NEW i \in DOMAIN ws'.down, ws'.down[i].kind = "document"
                PROVE  /\ ws'.down[i].target \in DOMAIN ws'.updates =>
                            ws'.updates[ws'.down[i].target] <= ws'.down[i].version
                       /\ \A j \in DOMAIN ws'.down :
                            j < i /\ isDocument(ws'.down[j], ws'.down[i].target) =>
                              ws'.down[j].version <= ws'.down[i].version
    BY DEF DocumentsGrow
  <2>. DEFINE t == ws'.down[i].target
  <2>1. i + 1 \in DOMAIN down /\ down[i + 1] = ws'.down[i] /\ i + 1 > 1 /\ i \in Nat
    BY <1>2
  <2>2. /\ t \in DOMAIN ws.updates => ws.updates[t] <= ws'.down[i].version
        /\ \A j \in DOMAIN down : j < i + 1 /\ isDocument(down[j], t) =>
             down[j].version <= ws'.down[i].version
    BY <1>1, <2>1 DEF Wire, DocumentsGrow, down
  <2>3. t \in DOMAIN ws'.updates => ws'.updates[t] <= ws'.down[i].version
    <3>1. CASE t \in DOMAIN ws.updates /\ ws'.updates[t] = ws.updates[t]
      BY <2>2, <3>1
    <3>2. CASE isDocument(m, t) /\ ws'.updates[t] = m.version
      <4>1. 1 \in DOMAIN down /\ m = down[1] /\ 1 < i + 1
        BY <1>2, <2>1
      <4>. QED
        BY <2>2, <3>2, <4>1
    <3>. QED
      BY <3>1, <3>2 DEF m
  <2>4. \A j \in DOMAIN ws'.down : j < i => j + 1 < i + 1 /\ down[j + 1] = ws'.down[j]
                                         /\ j + 1 \in DOMAIN down
    BY <1>2, <2>1
  <2>. QED
    BY <2>2, <2>3, <2>4
<1>12. CallGrows'
  <2>1. \A i \in DOMAIN ws'.down : ws'.down[i].kind = "document" =>
          ws'.down[i].version <= Latest(history, ws'.down[i].target, ws.srv.version)
    BY <1>1, <1>2 DEF Wire, CallGrows, down
  <2>2. \A t \in DOMAIN ws'.updates : ws'.updates[t] <= Latest(history, t, ws.srv.version)
    <3>1. \A t : isDocument(m, t) => m.version <= Latest(history, t, ws.srv.version)
      BY <1>1, <1>2 DEF Wire, CallGrows, isDocument, down
    <3>. QED
      BY <1>1, <3>1 DEF Wire, CallGrows, m
  <2>. QED
    BY <2>1, <2>2 DEF CallGrows
<1>13. TargetsAreAskedFor'
  BY <1>1 DEF Wire, TargetsAreAskedFor
<1>14. SnapshotsAreHonest'
  <2>. SUFFICES ASSUME NEW k \in DOMAIN ws'.down, ws'.down[k].kind = "snapshot",
                       NEW t \in DOMAIN ws'.targets \ denied, Answered(ws', t, k)
                PROVE  Has(ws', disk', history', t, ws'.down[k].version, k)
    BY DEF SnapshotsAreHonest
  <2>1. /\ k \in Nat /\ k >= 1 /\ k + 1 \in DOMAIN down /\ down[k + 1] = ws'.down[k]
        /\ ws'.down[k].version \in Nat
    BY <1>2, <1>3
  <2>2. Answered(ws, t, k + 1)
    BY <1>5, <2>1
  <2>3. Has(ws, disk, history, t, ws'.down[k].version, k + 1)
    BY <1>1, <2>1, <2>2 DEF Wire, SnapshotsAreHonest, down
  <2>. QED
    BY <1>7, <2>1, <2>3
<1>15. BackendIsHonest'
  <2>. DEFINE k == Len(ws'.down) + 1
  <2>. SUFFICES ASSUME NEW t \in DOMAIN ws.srv.sent \cap DOMAIN ws'.targets, Answered(ws', t, k)
                PROVE  Has(ws', disk', history', t, ws.srv.sent[t], k)
    BY DEF BackendIsHonest
  <2>1. k \in Nat /\ k >= 1 /\ Len(down) + 1 = k + 1
    BY <1>2, <1>4
  <2>. HIDE DEF k
  <2>2. Answered(ws, t, k + 1)
    BY <1>5, <2>1
  <2>3. Has(ws, disk, history, t, ws.srv.sent[t], k + 1)
    BY <1>1, <2>1, <2>2 DEF Wire, BackendIsHonest, down
  <2>4. t \notin denied
    BY <1>1 DEF Wire, RefusalsAreFinal
  <2>5. ws.srv.sent[t] \in Nat
    BY <1>1 DEF IInv, Types, RemoteStore, Call, Partial
  <2>. QED
    BY <1>7, <2>1, <2>3, <2>4, <2>5
<1>16. ClosedIsQuiet'
  <2>1. IsOpen(ws.stream)
    BY <1>1 DEF Wire, ClosedIsQuiet, Quiet
  <2>. QED
    BY <2>1 DEF ClosedIsQuiet
<1>. QED
  BY <1>8, <1>9, <1>10, <1>11, <1>12, <1>13, <1>14, <1>15, <1>16 DEF Wire

-----------------------------------------------------------------------------
(* What the backend does.                                                  *)

(* A list with more at its end. *)
LEMMA MorePositions ==
  ASSUME NEW T, NEW p \in Seq(T), NEW q \in Seq(T), NEW r, r = p \o q
  PROVE  /\ r \in Seq(T) /\ Len(r) = Len(p) + Len(q) /\ Len(p) \in Nat /\ Len(q) \in Nat
         /\ DOMAIN p = 1..Len(p) /\ DOMAIN q = 1..Len(q) /\ DOMAIN r = 1..Len(r)
         /\ \A i \in DOMAIN p : i \in DOMAIN r /\ r[i] = p[i]
         /\ \A i \in DOMAIN q : Len(p) + i \in DOMAIN r /\ r[Len(p) + i] = q[i]
         /\ \A i \in DOMAIN r :
              \/ i \in DOMAIN p /\ r[i] = p[i]
              \/ i > Len(p) /\ i - Len(p) \in DOMAIN q /\ r[i] = q[i - Len(p)]
PROOF
<1>1. /\ p \o q \in Seq(T) /\ Len(p \o q) = Len(p) + Len(q)
      /\ Len(p) \in Nat /\ Len(q) \in Nat
      /\ DOMAIN p = 1..Len(p) /\ DOMAIN q = 1..Len(q)
      /\ DOMAIN (p \o q) = 1..(Len(p) + Len(q))
      /\ \A i \in DOMAIN p : i \in DOMAIN (p \o q) /\ (p \o q)[i] = p[i]
      /\ \A i \in DOMAIN q : Len(p) + i \in DOMAIN (p \o q) /\ (p \o q)[Len(p) + i] = q[i]
      /\ \A i \in DOMAIN (p \o q) : i \in DOMAIN p \/ i - Len(p) \in DOMAIN q
  BY ConcatPositions
<1>2. \A i \in DOMAIN r : i - Len(p) \in DOMAIN q => i > Len(p) /\ r[i] = q[i - Len(p)]
  <2>. SUFFICES ASSUME NEW i \in DOMAIN r, i - Len(p) \in DOMAIN q
                PROVE  i > Len(p) /\ r[i] = q[i - Len(p)]
    OBVIOUS
  <2>1. i \in 1..(Len(p) + Len(q)) /\ i - Len(p) \in 1..Len(q) /\ Len(p) + (i - Len(p)) = i
    BY <1>1
  <2>. QED
    BY <1>1, <2>1
<1>. QED
  BY <1>1, <1>2

(* Of a target to which nothing is answered. *)
LEMMA SaidKeeps ==
  ASSUME IInv, UNCHANGED <<disk, history>>, ws'.updates = ws.updates,
         NEW said \in Seq(Change), ws'.down = ws.down \o said,
         NEW t, \A i \in DOMAIN said : ~isResponse(said[i], t),
         (\E i \in DOMAIN ws'.up : ws'.up[i].target = t)
           <=> (\E i \in DOMAIN ws.up : ws.up[i].target = t)
  PROVE  /\ \A k : Answered(ws', t, k) <=> Answered(ws, t, k)
         /\ \A v, k : Has(ws, disk, history, t, v, k) => Has(ws', disk', history', t, v, k)
PROOF
<1>1. ws.down \in Seq(Change)
  BY DEF IInv, Types, RemoteStore
<1>2. /\ \A i \in DOMAIN ws.down : i \in DOMAIN ws'.down /\ ws'.down[i] = ws.down[i]
      /\ \A i \in DOMAIN ws'.down :
           \/ i \in DOMAIN ws.down /\ ws'.down[i] = ws.down[i]
           \/ i - Len(ws.down) \in DOMAIN said /\ ws'.down[i] = said[i - Len(ws.down)]
  BY <1>1, MorePositions
<1>3. \A k : Answered(ws', t, k) <=> Answered(ws, t, k)
  <2>1. (\A i \in DOMAIN ws'.up : ws'.up[i].target # t)
          <=> (\A i \in DOMAIN ws.up : ws.up[i].target # t)
    OBVIOUS
  <2>2. \A k : (\A j \in DOMAIN ws'.down : j >= k => ~isResponse(ws'.down[j], t))
                 <=> (\A j \in DOMAIN ws.down : j >= k => ~isResponse(ws.down[j], t))
    BY <1>2
  <2>. QED
    BY <2>1, <2>2 DEF Answered
<1>. QED
  BY <1>2, <1>3 DEF Has

LEMMA CountOne ==
  ASSUME NEW T, NEW x \in T, NEW t, NEW kinds
  PROVE  count(<<x>>, t, kinds) = IF x.target = t /\ x.kind \in kinds THEN 1 ELSE 0
PROOF
<1>. DEFINE q == <<x>>
<1>1. q \in Seq(T) /\ q # <<>> /\ Head(q) = x /\ Tail(q) = <<>>
  OBVIOUS
<1>2. <<>> \in Seq(T) /\ DOMAIN <<>> = {}
  OBVIOUS
<1>3. count(<<>>, t, kinds) = 0
  BY <1>2, CountType
<1>. HIDE DEF q
<1>4. count(q, t, kinds) = count(Tail(q), t, kinds) +
        (IF Head(q).target = t /\ Head(q).kind \in kinds THEN 1 ELSE 0)
  BY <1>1, CountTail
<1>. QED
  BY <1>1, <1>3, <1>4 DEF q

LEMMA ChangeIsChange ==
  ASSUME Types, NEW t \in Target, NEW v \in Version,
         NEW kind \in {"added", "removed", "failed", "document", "current", "snapshot"}
  PROVE  /\ change(kind, t, v) \in Change /\ change(kind, t, v).kind = kind
         /\ change(kind, t, v).target = t /\ change(kind, t, v).version = v
BY DEF change, Change

(* The backend handles a request about t. *)
LEMMA AnswerKeeps ==
  ASSUME IInv, UNCHANGED <<disk, history, denied>>, ws.up # <<>>,
         NEW t, t = Head(ws.up).target, NEW said \in Seq(Change),
         ws'.up = Tail(ws.up), ws'.down = ws.down \o said, ws'.targets = ws.targets,
         ws'.agg = ws.agg, ws'.updates = ws.updates, ws'.stream = ws.stream,
         ws'.srv.version = ws.srv.version,
         DOMAIN ws'.srv.owed \subseteq DOMAIN ws.srv.owed \cup {t},
         DOMAIN ws'.srv.sent \subseteq DOMAIN ws.srv.sent \cup {t},
         \A s \in DOMAIN ws.srv.sent : s # t =>
           s \in DOMAIN ws'.srv.sent /\ ws'.srv.sent[s] = ws.srv.sent[s],
         \/ /\ t \in denied /\ ws'.srv = ws.srv
            /\ \A i \in DOMAIN said : said[i] = change("failed", t, 0)
         \/ /\ t \notin denied
            /\ \E kind \in {"added", "removed"} : said = <<change(kind, t, 0)>>
            /\ t \in DOMAIN ws'.srv.sent <=> Head(ws.up).kind = "watch"
            /\ Head(ws.up).kind = "watch" => ws'.srv.sent[t] = Head(ws.up).version
  PROVE  Wire'
PROOF
<1>1. /\ ws.up \in Seq(Request) /\ ws.down \in Seq(Change) /\ Wire /\ now' = now
      /\ Partial(ws.agg, TargetState) /\ now \in Nat /\ Types
      /\ DOMAIN ws.srv.sent \subseteq Target /\ DOMAIN ws.targets \subseteq Target
      /\ IsOpen(ws.stream)
  <2>1. IsOpen(ws.stream)
    BY DEF IInv, Wire, ClosedIsQuiet, Quiet
  <2>. QED
    BY <2>1, HistoryIs DEF IInv, Types, RemoteStore, Call, Partial, now
<1>. DEFINE up == ws.up
            down == ws.down
            m == Head(ws.up)
<1>2. /\ up \in Seq(Request) /\ m = up[1] /\ m \in Request /\ ws'.up \in Seq(Request)
      /\ Len(up) \in Nat /\ DOMAIN up = 1..Len(up) /\ 1 \in DOMAIN up
      /\ \A i \in DOMAIN ws'.up : ws'.up[i] = up[i + 1] /\ i + 1 \in DOMAIN up /\ i \in Nat
      /\ \A i \in DOMAIN up : i # 1 => i - 1 \in DOMAIN ws'.up /\ ws'.up[i - 1] = up[i]
  BY <1>1, TailPositions
<1>3. t \in Target /\ m.version \in Version /\ m.kind \in {"watch", "unwatch"} /\ m.version <= now
  <2>1. \A q \in Request : q.target \in Target /\ q.version \in Version
                             /\ q.kind \in {"watch", "unwatch"}
    BY DEF Request
  <2>. QED
    BY <1>1, <1>2, <2>1 DEF Wire, VersionsAreKnown
<1>. HIDE DEF m, up, down
<1>4. /\ ws'.down \in Seq(Change) /\ Len(ws'.down) = Len(down) + Len(said)
      /\ Len(down) \in Nat /\ Len(said) \in Nat /\ DOMAIN down = 1..Len(down)
      /\ \A i \in DOMAIN down : i \in DOMAIN ws'.down /\ ws'.down[i] = down[i]
      /\ \A i \in DOMAIN said : Len(down) + i \in DOMAIN ws'.down /\ ws'.down[Len(down) + i] = said[i]
      /\ \A i \in DOMAIN ws'.down :
           \/ i \in DOMAIN down /\ ws'.down[i] = down[i]
           \/ i > Len(down) /\ i - Len(down) \in DOMAIN said /\ ws'.down[i] = said[i - Len(down)]
  <2>1. ws'.down = down \o said /\ down \in Seq(Change)
    BY <1>1 DEF down
  <2>. QED
    BY <2>1, MorePositions
(* What is said. *)
<1>5. \A i \in DOMAIN said :
        /\ said[i].target = t /\ said[i].version = 0
        /\ t \in denied => said[i].kind = "failed"
        /\ t \notin denied => said[i].kind \in {"added", "removed"}
  <2>1. 0 \in Version
    BY NoCallIsACall
  <2>2. \A kind \in {"added", "removed", "failed"} :
          /\ change(kind, t, 0).kind = kind /\ change(kind, t, 0).target = t
          /\ change(kind, t, 0).version = 0
    BY DEF change
  <2>3. CASE t \in denied
    BY <2>2, <2>3
  <2>4. CASE t \notin denied
    <3>1. PICK kind \in {"added", "removed"} : said = <<change(kind, t, 0)>>
      BY <2>4
    <3>2. \A i \in DOMAIN said : said[i] = change(kind, t, 0)
      BY <3>1
    <3>. QED
      BY <2>2, <2>4, <3>2
  <2>. QED
    BY <2>3, <2>4
<1>6. \A s : s # t => \A i \in DOMAIN said : ~isResponse(said[i], s)
  BY <1>5 DEF isResponse
<1>7. ASSUME NEW s, s # t
      PROVE  /\ \A k : Answered(ws', s, k) <=> Answered(ws, s, k)
             /\ \A v, k : Has(ws, disk, history, s, v, k) => Has(ws', disk', history', s, v, k)
  <2>1. (\E i \in DOMAIN ws'.up : ws'.up[i].target = s)
          <=> (\E i \in DOMAIN ws.up : ws.up[i].target = s)
    <3>1. ASSUME NEW i \in DOMAIN ws'.up, ws'.up[i].target = s
          PROVE  \E j \in DOMAIN ws.up : ws.up[j].target = s
      BY <1>2, <3>1 DEF up
    <3>2. ASSUME NEW i \in DOMAIN ws.up, ws.up[i].target = s
          PROVE  \E j \in DOMAIN ws'.up : ws'.up[j].target = s
      <4>1. i # 1
        BY <1>2, <1>7, <3>2 DEF up, m
      <4>. QED
        BY <1>2, <3>2, <4>1 DEF up
    <3>. QED
      BY <3>1, <3>2
  <2>. QED
    BY <1>6, <1>7, <2>1, SaidKeeps
(* A response to t is the last message. *)
<1>8. ASSUME t \notin denied
      PROVE  /\ Len(ws'.down) \in DOMAIN ws'.down /\ isResponse(ws'.down[Len(ws'.down)], t)
             /\ Len(ws'.down) = Len(down) + 1
  <2>1. Len(said) = 1 /\ DOMAIN said = {1}
    <3>1. PICK kind \in {"added", "removed"} : said = <<change(kind, t, 0)>>
      BY <1>8
    <3>. QED
      BY <3>1
  <2>2. isResponse(said[1], t)
    BY <1>5, <1>8, <2>1 DEF isResponse
  <2>3. Len(ws'.down) = Len(down) + 1
    BY <1>4, <2>1
  <2>4. Len(down) + 1 \in DOMAIN ws'.down /\ ws'.down[Len(down) + 1] = said[1]
    BY <1>4, <2>1
  <2>. QED
    BY <2>2, <2>3, <2>4
<1>9. OutstandingIsExact'
  <2>. SUFFICES ASSUME NEW s \in Target \ denied
                PROVE  stateOf(ws', s).outstanding =
                         count(ws'.up, s, {"watch", "unwatch"})
                           + count(ws'.down, s, {"added", "removed"})
    BY DEF OutstandingIsExact
  <2>. DEFINE a == count(ws.up, s, {"watch", "unwatch"})
              b == count(ws.down, s, {"added", "removed"})
              c == count(ws'.up, s, {"watch", "unwatch"})
              d == count(said, s, {"added", "removed"})
              e == count(ws'.down, s, {"added", "removed"})
  <2>1. stateOf(ws', s).outstanding = a + b
    BY <1>1 DEF Wire, OutstandingIsExact, stateOf
  <2>2. a = c + IF m.target = s /\ m.kind \in {"watch", "unwatch"} THEN 1 ELSE 0
    BY <1>1, CountTail DEF m
  <2>3. e = b + d
    BY <1>1, CountConcat
  <2>4. d = IF s = t THEN 1 ELSE 0
    <3>1. CASE s = t
      <4>1. PICK kind \in {"added", "removed"} : said = <<change(kind, t, 0)>>
        BY <3>1
      <4>2. 0 \in Version
        BY NoCallIsACall
      <4>3. change(kind, t, 0) \in Change /\ change(kind, t, 0).target = t
            /\ change(kind, t, 0).kind = kind
        BY <1>1, <1>3, <4>2, ChangeIsChange
      <4>. QED
        BY <3>1, <4>1, <4>3, CountOne
    <3>2. CASE s # t
      BY <1>5, <3>2, CountType
    <3>. QED
      BY <3>1, <3>2
  <2>5. m.target = t
    BY DEF m
  <2>6. a \in Nat /\ b \in Nat /\ c \in Nat /\ d \in Nat
    BY <1>1, <1>2, CountType
  <2>. HIDE DEF a, b, c, d, e
  <2>7. stateOf(ws', s).outstanding = c + e
    BY <1>3, <2>1, <2>2, <2>3, <2>4, <2>5, <2>6
  <2>. QED
    BY <2>7 DEF c, e
<1>10. RefusalsAreFinal'
  <2>1. \A i \in DOMAIN ws'.down :
          /\ ws'.down[i].kind = "failed" => ws'.down[i].target \in denied
          /\ ws'.down[i].kind \notin {"failed", "snapshot"} => ws'.down[i].target \notin denied
    <3>. TAKE i \in DOMAIN ws'.down
    <3>1. CASE i \in DOMAIN down /\ ws'.down[i] = down[i]
      BY <1>1, <3>1 DEF Wire, RefusalsAreFinal, down
    <3>2. CASE i - Len(down) \in DOMAIN said /\ ws'.down[i] = said[i - Len(down)]
      BY <1>5, <3>2
    <3>. QED
      BY <1>4, <3>1, <3>2
  <2>2. \A s : stateOf(ws', s) = stateOf(ws, s)
    BY DEF stateOf
  <2>3. DOMAIN ws'.srv.sent \cap denied = {} /\ DOMAIN ws'.srv.owed \cap denied = {}
    BY <1>1 DEF Wire, RefusalsAreFinal
  <2>4. \A s \in denied \cap DOMAIN ws.targets : stateOf(ws, s).outstanding > 0
    BY <1>1 DEF Wire, RefusalsAreFinal
  <2>. QED
    BY <2>1, <2>2, <2>3, <2>4 DEF RefusalsAreFinal
<1>11. VersionsAreKnown' /\ RequestsAreHonest'
  <2>1. \A i \in DOMAIN ws'.up : ws'.up[i].version <= now
    BY <1>1, <1>2 DEF Wire, VersionsAreKnown, up
  <2>2. \A i \in DOMAIN ws'.down : ws'.down[i].version <= now
    <3>. TAKE i \in DOMAIN ws'.down
    <3>1. CASE i \in DOMAIN down /\ ws'.down[i] = down[i]
      BY <1>1, <3>1 DEF Wire, VersionsAreKnown, down
    <3>2. CASE i - Len(down) \in DOMAIN said /\ ws'.down[i] = said[i - Len(down)]
      BY <1>1, <1>5, <3>2
    <3>. QED
      BY <1>4, <3>1, <3>2
  <2>3. \A s \in DOMAIN ws'.srv.sent : ws'.srv.sent[s] <= now
    <3>1. \A s \in DOMAIN ws.srv.sent : ws.srv.sent[s] <= now
      BY <1>1 DEF Wire, VersionsAreKnown
    <3>. QED
      BY <1>3, <3>1 DEF m
  <2>4. ws'.srv.version <= now
    BY <1>1 DEF Wire, VersionsAreKnown
  <2>5. RequestsAreHonest'
    BY <1>1, <1>2 DEF Wire, RequestsAreHonest, up
  <2>. QED
    BY <1>1, <2>1, <2>2, <2>3, <2>4, <2>5 DEF VersionsAreKnown
<1>12. DocumentsGrow' /\ CallGrows'
  <2>1. \A i \in DOMAIN ws'.down : ws'.down[i].kind = "document" =>
          i \in DOMAIN down /\ ws'.down[i] = down[i]
    BY <1>4, <1>5
  <2>2. DocumentsGrow'
    BY <1>1, <2>1 DEF Wire, DocumentsGrow, isDocument, down
  <2>3. CallGrows'
    BY <1>1, <2>1 DEF Wire, CallGrows, down
  <2>. QED
    BY <2>2, <2>3
<1>13. TargetsAreAskedFor'
  <2>. SUFFICES ASSUME NEW s \in DOMAIN ws.targets \ denied
                PROVE  /\ \/ s \in DOMAIN ws'.srv.sent
                          \/ \E i \in DOMAIN ws'.up : isWatch(ws'.up[i], s)
                       /\ \A i \in DOMAIN ws'.up : isUnwatch(ws'.up[i], s) =>
                            \E j \in DOMAIN ws'.up : i < j /\ isWatch(ws'.up[j], s)
    BY DEF TargetsAreAskedFor
  <2>1. /\ s \in DOMAIN ws.srv.sent \/ \E i \in DOMAIN up : isWatch(up[i], s)
        /\ \A i \in DOMAIN up : isUnwatch(up[i], s) =>
             \E j \in DOMAIN up : i < j /\ isWatch(up[j], s)
    BY <1>1 DEF Wire, TargetsAreAskedFor, up
  <2>2. ASSUME NEW i \in DOMAIN ws'.up, isUnwatch(ws'.up[i], s)
        PROVE  \E j \in DOMAIN ws'.up : i < j /\ isWatch(ws'.up[j], s)
    <3>1. PICK j \in DOMAIN up : i + 1 < j /\ isWatch(up[j], s)
      BY <1>2, <2>1, <2>2
    <3>2. j # 1 /\ i < j - 1
      BY <1>2, <3>1
    <3>. QED
      BY <1>2, <3>1, <3>2
  <2>3. s \in DOMAIN ws'.srv.sent \/ \E i \in DOMAIN ws'.up : isWatch(ws'.up[i], s)
    <3>1. CASE s = t /\ m.kind = "watch"
      BY <3>1 DEF m
    <3>2. CASE s = t /\ m.kind = "unwatch"
      <4>1. PICK j \in DOMAIN up : 1 < j /\ isWatch(up[j], s)
        <5>1. isUnwatch(up[1], s)
          BY <1>2, <3>2 DEF isUnwatch, m
        <5>. QED
          BY <1>2, <2>1, <5>1
      <4>2. j # 1
        BY <4>1
      <4>3. j - 1 \in DOMAIN ws'.up /\ ws'.up[j - 1] = up[j]
        BY <1>2, <4>2
      <4>. QED
        BY <4>1, <4>3
    <3>3. CASE s # t
      <4>1. CASE s \in DOMAIN ws.srv.sent
        BY <3>3, <4>1
      <4>2. ASSUME NEW i \in DOMAIN up, isWatch(up[i], s)
            PROVE  \E j \in DOMAIN ws'.up : isWatch(ws'.up[j], s)
        <5>1. i # 1
          BY <1>2, <3>3, <4>2 DEF isWatch, m
        <5>. QED
          BY <1>2, <4>2, <5>1
      <4>. QED
        BY <2>1, <4>1, <4>2
    <3>. QED
      BY <1>3, <3>1, <3>2, <3>3
  <2>. QED
    BY <2>2, <2>3
<1>14. SnapshotsAreHonest'
  <2>. SUFFICES ASSUME NEW k \in DOMAIN ws'.down, ws'.down[k].kind = "snapshot",
                       NEW s \in DOMAIN ws.targets \ denied, Answered(ws', s, k)
                PROVE  Has(ws', disk', history', s, ws'.down[k].version, k)
    BY DEF SnapshotsAreHonest
  <2>1. k \in DOMAIN down /\ down[k] = ws'.down[k]
    BY <1>4, <1>5
  <2>2. s # t
    <3>. SUFFICES ASSUME s = t PROVE FALSE
      OBVIOUS
    <3>1. Len(ws'.down) >= k
      BY <1>4, <2>1
    <3>. QED
      BY <1>8, <3>1 DEF Answered
  <2>. QED
    BY <1>1, <1>7, <2>1, <2>2 DEF Wire, SnapshotsAreHonest, down
<1>15. BackendIsHonest'
  <2>. DEFINE k == Len(ws'.down) + 1
  <2>. SUFFICES ASSUME NEW s \in DOMAIN ws'.srv.sent \cap DOMAIN ws.targets, Answered(ws', s, k)
                PROVE  Has(ws', disk', history', s, ws'.srv.sent[s], k)
    BY DEF BackendIsHonest
  <2>1. CASE s = t
    <3>1. t \notin denied
      BY <1>1, <2>1 DEF Wire, RefusalsAreFinal
    <3>2. m.kind = "watch" /\ ws'.srv.sent[t] = m.version
      BY <2>1, <3>1 DEF m
    <3>3. disk.content[t] >= Latest(history, t, m.version)
      BY <1>1, <1>2, <3>2 DEF Wire, RequestsAreHonest, up, m
    <3>. QED
      BY <2>1, <3>2, <3>3 DEF Has
  <2>2. CASE s # t
    <3>1. s \in DOMAIN ws.srv.sent /\ ws'.srv.sent[s] = ws.srv.sent[s]
      BY <2>2
    <3>2. Answered(ws, s, k)
      BY <1>7, <2>2
    <3>3. Answered(ws, s, Len(down) + 1)
      <4>1. \A j \in DOMAIN down : ~(j >= Len(down) + 1)
        BY <1>4
      <4>. QED
        BY <3>2, <4>1 DEF Answered, down
    <3>4. Has(ws, disk, history, s, ws.srv.sent[s], Len(down) + 1)
      BY <1>1, <3>1, <3>3 DEF Wire, BackendIsHonest, down
    <3>5. Has(ws, disk, history, s, ws.srv.sent[s], k)
      <4>1. \A j \in DOMAIN down : j < k
        BY <1>4
      <4>. QED
        BY <3>4, <4>1 DEF Has, down
    <3>. QED
      BY <1>7, <2>2, <3>1, <3>5
  <2>. QED
    BY <2>1, <2>2
<1>. QED
  BY <1>1, <1>9, <1>10, <1>11, <1>12, <1>13, <1>14, <1>15 DEF Wire, ClosedIsQuiet

(* The documents and the calls of a target current are finitely many. *)
LEMMA NewsAreFinite ==
  ASSUME Types, NEW v \in 1..now
  PROVE  /\ lacking(v) \subseteq Target /\ reached(v) \subseteq Target
         /\ IsFiniteSet({change("document", t, AsOf(t, v)) : t \in lacking(v)})
         /\ IsFiniteSet({change("current", t, v) : t \in reached(v)})
PROOF
<1>1. lacking(v) \subseteq Target /\ reached(v) \subseteq Target
  BY DEF Types, RemoteStore, Call, Partial, lacking, reached
<1>2. IsFiniteSet(lacking(v)) /\ IsFiniteSet(reached(v))
  BY <1>1, FS_Subset, WatchAssumption
<1>. DEFINE D == {change("document", t, AsOf(t, v)) : t \in lacking(v)}
            C == {change("current", t, v) : t \in reached(v)}
<1>3. IsFiniteSet(D)
  <2>. DEFINE f == [t \in lacking(v) |-> change("document", t, AsOf(t, v))]
  <2>1. f \in Surjection(lacking(v), D)
    BY DEF Surjection
  <2>. HIDE DEF D, f
  <2>. QED
    BY <1>2, <2>1, FS_Surjection
<1>4. IsFiniteSet(C)
  <2>. DEFINE f == [t \in reached(v) |-> change("current", t, v)]
  <2>1. f \in Surjection(reached(v), C)
    BY DEF Surjection
  <2>. HIDE DEF C, f
  <2>. QED
    BY <1>2, <2>1, FS_Surjection
<1>. QED
  BY <1>1, <1>3, <1>4

LEMMA NewsAre ==
  ASSUME Types, NEW v \in 1..now, ws.srv.sent # empty
  PROVE  /\ news(v) \in Seq(Change)
         /\ \A i \in DOMAIN news(v) :
              \/ \E t \in lacking(v) : news(v)[i] = change("document", t, AsOf(t, v))
              \/ \E t \in reached(v) : news(v)[i] = change("current", t, v)
              \/ i = Len(news(v)) /\ news(v)[i].kind = "snapshot" /\ news(v)[i].version = v
         /\ \A t \in lacking(v) : \E i \in DOMAIN news(v) :
              news(v)[i] = change("document", t, AsOf(t, v)) /\ i < Len(news(v))
         /\ Len(news(v)) >= 1
         /\ news(v)[Len(news(v))].kind = "snapshot" /\ news(v)[Len(news(v))].version = v
PROOF
<1>. DEFINE D == {change("document", t, AsOf(t, v)) : t \in lacking(v)}
            C == {change("current", t, v) : t \in reached(v)}
            any == CHOOSE t \in Target : TRUE
            s == change("snapshot", any, v)
            p == SetToSeq(D)
            q == SetToSeq(C)
<1>1. news(v) = (p \o q) \o <<s>>
  BY DEF news
<1>2. v \in Version /\ v \in Nat
  BY HistoryIs, WatchAssumption DEF Version
<1>3. any \in Target
  <2>1. \E t : t \in Target
    BY EmptyIsPartial DEF Types, RemoteStore, Call, Partial
  <2>. QED
    BY <2>1
<1>4. s \in Change /\ s.kind = "snapshot" /\ s.version = v
  <2>. HIDE DEF any
  <2>. QED
    BY <1>2, <1>3, ChangeIsChange
<1>5. D \subseteq Change /\ C \subseteq Change
  <2>1. lacking(v) \subseteq Target /\ reached(v) \subseteq Target
    BY NewsAreFinite
  <2>2. \A t \in Target : AsOf(t, v) \in Version
    <3>. TAKE t \in Target
    <3>1. Latest(history, t, v) \in Nat /\ Latest(history, t, v) <= v
      BY <1>2, LatestIs
    <3>. QED
      BY <1>2, <3>1, AsOfIsLatest, WatchAssumption DEF Version
  <2>3. \A t \in Target : change("document", t, AsOf(t, v)) \in Change
    BY <2>2, ChangeIsChange
  <2>4. \A t \in Target : change("current", t, v) \in Change
    BY <1>2, ChangeIsChange
  <2>. QED
    BY <2>1, <2>3, <2>4
<1>6. /\ p \in Seq(D) /\ \A x \in D : \E i \in DOMAIN p : p[i] = x
      /\ q \in Seq(C)
  <2>1. IsFiniteSet(D) /\ IsFiniteSet(C)
    BY NewsAreFinite
  <2>. HIDE DEF D, C
  <2>. QED
    BY <2>1, SetToSeqMembers
<1>7. /\ \A x \in D : \E t \in lacking(v) : x = change("document", t, AsOf(t, v))
      /\ \A x \in C : \E t \in reached(v) : x = change("current", t, v)
      /\ \A t \in lacking(v) : change("document", t, AsOf(t, v)) \in D
  OBVIOUS
<1>. HIDE DEF D, C, s, p, q
<1>8. p \in Seq(Change) /\ q \in Seq(Change) /\ <<s>> \in Seq(Change)
      /\ (\A i \in DOMAIN p : p[i] \in D) /\ (\A i \in DOMAIN q : q[i] \in C)
  BY <1>4, <1>5, <1>6
<1>. DEFINE r == p \o q
            z == <<s>>
            n == r \o z
<1>9. /\ r \in Seq(Change) /\ DOMAIN p = 1..Len(p) /\ Len(p) \in Nat /\ Len(q) \in Nat
      /\ Len(r) = Len(p) + Len(q) /\ DOMAIN r = 1..Len(r)
      /\ \A i \in DOMAIN p : i \in DOMAIN r /\ r[i] = p[i]
      /\ \A i \in DOMAIN r : \/ i \in DOMAIN p /\ r[i] = p[i]
                             \/ i - Len(p) \in DOMAIN q /\ r[i] = q[i - Len(p)]
  BY <1>8, MorePositions
<1>10. Len(z) = 1 /\ DOMAIN z = {1} /\ z[1] = s /\ z \in Seq(Change)
  BY <1>8
<1>. HIDE DEF r, z
<1>16. n = r \o z
  OBVIOUS
<1>. HIDE DEF n
<1>11. /\ n \in Seq(Change) /\ Len(n) = Len(r) + Len(z) /\ Len(r) \in Nat
       /\ \A i \in DOMAIN r : i \in DOMAIN n /\ n[i] = r[i]
       /\ \A i \in DOMAIN z : Len(r) + i \in DOMAIN n /\ n[Len(r) + i] = z[i]
       /\ \A i \in DOMAIN n : \/ i \in DOMAIN r /\ n[i] = r[i]
                              \/ i - Len(r) \in DOMAIN z /\ n[i] = z[i - Len(r)]
       /\ DOMAIN n = 1..Len(n)
  <2>1. r \in Seq(Change) /\ z \in Seq(Change)
    BY <1>9, <1>10
  <2>. QED
    BY <2>1, <1>16, MorePositions
<1>12. Len(n) = Len(r) + 1 /\ n[Len(n)] = s /\ Len(n) >= 1
  BY <1>10, <1>11
<1>13. \A i \in DOMAIN r : r[i] \in D \/ r[i] \in C
  BY <1>8, <1>9
<1>14. \A i \in DOMAIN n : n[i] \in D \/ n[i] \in C \/ (i = Len(n) /\ n[i] = s)
  <2>. TAKE i \in DOMAIN n
  <2>1. CASE i \in DOMAIN r /\ n[i] = r[i]
    BY <1>13, <2>1
  <2>2. CASE i - Len(r) \in DOMAIN z /\ n[i] = z[i - Len(r)]
    <3>1. i - Len(r) = 1 /\ i \in Nat
      BY <1>10, <1>11, <2>2
    <3>2. i = Len(n)
      BY <1>11, <1>12, <3>1
    <3>. QED
      BY <1>12, <3>2
  <2>. QED
    BY <1>11, <2>1, <2>2
<1>15. \A x \in D : \E i \in DOMAIN n : n[i] = x /\ i < Len(n)
  <2>. TAKE x \in D
  <2>1. PICK i \in DOMAIN p : p[i] = x
    BY <1>6
  <2>2. i \in DOMAIN r /\ r[i] = x
    BY <1>9, <2>1
  <2>3. i \in DOMAIN n /\ n[i] = x /\ i <= Len(r)
    BY <1>9, <1>11, <2>2
  <2>. QED
    BY <1>11, <1>12, <2>3
<1>17. news(v) = n
  BY <1>1, <1>16 DEF r, z
<1>18. /\ \A i \in DOMAIN n :
            \/ \E t \in lacking(v) : n[i] = change("document", t, AsOf(t, v))
            \/ \E t \in reached(v) : n[i] = change("current", t, v)
            \/ i = Len(n) /\ n[i].kind = "snapshot" /\ n[i].version = v
  BY <1>4, <1>7, <1>14
<1>19. \A t \in lacking(v) : \E i \in DOMAIN n :
         n[i] = change("document", t, AsOf(t, v)) /\ i < Len(n)
  BY <1>7, <1>15
<1>. QED
  BY <1>4, <1>11, <1>12, <1>17, <1>18, <1>19

LEMMA BackendSendsKeeps ==
  ASSUME IInv, NEW v \in 1..now, BackendSends(v)
  PROVE  IInv'
PROOF
<1>1. /\ ws.up \in Seq(Request) /\ ws.down \in Seq(Change) /\ Wire /\ RemoteStore(ws) /\ Types
      /\ Partial(ws.agg, TargetState) /\ Partial(ws.srv.sent, Version) /\ Partial(ws.srv.owed, Version)
      /\ ws.srv.version \in Version /\ Version \subseteq Nat /\ v \in Version
      /\ DOMAIN ws.targets \subseteq Target /\ ws.srv.sent # empty
      /\ now \in Nat /\ v \in Nat
      /\ disk.content \in [Target -> Version] /\ Partial(ws.updates, Version)
  <2>1. Types /\ now \in Nat /\ now \in Version /\ Version \subseteq Nat
    BY HistoryIs DEF IInv
  <2>2. v \in Version /\ v \in Nat
    BY <2>1, WatchAssumption DEF Version
  <2>3. RemoteStore(ws) /\ Call(ws.srv) /\ disk \in Disk /\ Wire /\ ws.srv.sent # empty
    BY DEF IInv, Types, RemoteStore, BackendSends
  <2>4. disk.content \in [Target -> Version]
    BY <2>3 DEF Disk
  <2>. QED
    BY <2>1, <2>2, <2>3, <2>4 DEF RemoteStore, Call, Partial
<1>. DEFINE said == news(v)
            srv == [sent |-> [t \in DOMAIN ws.srv.sent |-> v],
                    owed |-> Restrict(ws.srv.owed, DOMAIN ws.srv.owed \ reached(v)),
                    version |-> v]
<1>24. IsOpen(ws.stream)
  BY <1>1, EmptyIsPartial DEF Wire, ClosedIsQuiet, Quiet, noCall
<1>2. /\ ws' = [ws EXCEPT !.down = ws.down \o said, !.srv = srv]
      /\ UNCHANGED <<disk, history, denied, listens, faults, restarts>>
      /\ \A t \in DOMAIN ws.srv.sent : v >= ws.srv.sent[t]
  BY DEF BackendSends, bounds
<1>3. /\ srv.version = v /\ DOMAIN srv.sent = DOMAIN ws.srv.sent
      /\ \A t \in DOMAIN srv.sent : srv.sent[t] = v
      /\ DOMAIN srv.owed \subseteq DOMAIN ws.srv.owed
      /\ \A t \in DOMAIN srv.owed : srv.owed[t] = ws.srv.owed[t]
      /\ Call(srv)
  <2>1. /\ srv.version = v /\ DOMAIN srv.sent = DOMAIN ws.srv.sent
        /\ \A t \in DOMAIN srv.sent : srv.sent[t] = v
        /\ Partial(srv.sent, Version)
    BY <1>1 DEF Partial
  <2>2. /\ DOMAIN srv.owed \subseteq DOMAIN ws.srv.owed
        /\ \A t \in DOMAIN srv.owed : srv.owed[t] = ws.srv.owed[t]
        /\ Partial(srv.owed, Version)
    BY <1>1 DEF Partial, Restrict
  <2>3. srv = [sent |-> srv.sent, owed |-> srv.owed, version |-> srv.version]
    OBVIOUS
  <2>. HIDE DEF srv
  <2>. QED
    BY <1>1, <2>1, <2>2, <2>3 DEF Call
<1>4. /\ said \in Seq(Change)
      /\ \A i \in DOMAIN said :
           \/ \E t \in lacking(v) : said[i] = change("document", t, AsOf(t, v))
           \/ \E t \in reached(v) : said[i] = change("current", t, v)
           \/ i = Len(said) /\ said[i].kind = "snapshot" /\ said[i].version = v
      /\ \A t \in lacking(v) : \E i \in DOMAIN said :
           said[i] = change("document", t, AsOf(t, v)) /\ i < Len(said)
      /\ Len(said) >= 1 /\ said[Len(said)].kind = "snapshot" /\ said[Len(said)].version = v
  BY <1>1, NewsAre
<1>. HIDE DEF said, srv
<1>5. /\ DOMAIN ws' = Fields /\ ws'.down = ws.down \o said /\ ws'.srv = srv
      /\ ws'.up = ws.up /\ ws'.targets = ws.targets /\ ws'.agg = ws.agg
      /\ ws'.updates = ws.updates /\ ws'.online = ws.online /\ ws'.timer = ws.timer
      /\ ws'.failures = ws.failures /\ ws'.stream = ws.stream
  BY <1>1, <1>2 DEF RemoteStore, Fields
<1>6. /\ ws'.down \in Seq(Change) /\ Len(ws'.down) = Len(ws.down) + Len(said)
      /\ Len(ws.down) \in Nat /\ Len(said) \in Nat /\ DOMAIN ws.down = 1..Len(ws.down)
      /\ DOMAIN said = 1..Len(said) /\ DOMAIN ws'.down = 1..Len(ws'.down)
      /\ \A i \in DOMAIN ws.down : i \in DOMAIN ws'.down /\ ws'.down[i] = ws.down[i]
      /\ \A i \in DOMAIN said :
           Len(ws.down) + i \in DOMAIN ws'.down /\ ws'.down[Len(ws.down) + i] = said[i]
      /\ \A i \in DOMAIN ws'.down :
           \/ i \in DOMAIN ws.down /\ ws'.down[i] = ws.down[i]
           \/ /\ i > Len(ws.down) /\ i - Len(ws.down) \in DOMAIN said
              /\ ws'.down[i] = said[i - Len(ws.down)]
  BY <1>1, <1>4, <1>5, MorePositions
<1>7. Types'
  <2>1. RemoteStore(ws')
    BY <1>1, <1>3, <1>5, <1>6 DEF RemoteStore
  <2>. QED
    BY <1>1, <1>2, <2>1 DEF Types, now
<1>8. TimersHold' /\ TokensAreHonest'
  <2>1. TimersHold'
    BY <1>5 DEF IInv, TimersHold
  <2>2. TokensAreHonest'
    BY <1>2, <1>5, TokensKeep DEF IInv
  <2>. QED
    BY <2>1, <2>2
(* What is said. *)
<1>9. \A i \in DOMAIN said :
        \/ /\ said[i].kind = "document" /\ said[i].target \in lacking(v)
           /\ said[i].version = Latest(history, said[i].target, v)
        \/ said[i].kind = "current" /\ said[i].target \in reached(v) /\ said[i].version = v
        \/ said[i].kind = "snapshot" /\ i = Len(said) /\ said[i].version = v
  <2>1. \A kind, t, x : /\ change(kind, t, x).kind = kind /\ change(kind, t, x).target = t
                        /\ change(kind, t, x).version = x
    BY DEF change
  <2>. QED
    BY <1>4, <2>1, AsOfIsLatest
<1>10. \A t, i : i \in DOMAIN said => ~isResponse(said[i], t)
  BY <1>9 DEF isResponse
<1>11. \A t : /\ \A k : Answered(ws', t, k) <=> Answered(ws, t, k)
              /\ \A x, k : Has(ws, disk, history, t, x, k) => Has(ws', disk', history', t, x, k)
  BY <1>1, <1>2, <1>4, <1>5, <1>10, SaidKeeps DEF IInv
<1>12. lacking(v) \subseteq DOMAIN ws.srv.sent /\ reached(v) \subseteq DOMAIN ws.srv.owed
  BY DEF lacking, reached
<1>13. \A t : Latest(history, t, v) \in Nat /\ Latest(history, t, v) <= v /\ v <= now
  BY <1>1, LatestIs
<1>14. OutstandingIsExact'
  <2>. SUFFICES ASSUME NEW t \in Target \ denied
                PROVE  stateOf(ws', t).outstanding =
                         count(ws'.up, t, {"watch", "unwatch"})
                           + count(ws'.down, t, {"added", "removed"})
    BY <1>2 DEF OutstandingIsExact
  <2>1. stateOf(ws', t) = stateOf(ws, t)
    BY <1>5 DEF stateOf
  <2>2. stateOf(ws, t).outstanding = count(ws.up, t, {"watch", "unwatch"})
                                       + count(ws.down, t, {"added", "removed"})
    BY <1>1 DEF Wire, OutstandingIsExact
  <2>3. count(said, t, {"added", "removed"}) = 0
    <3>1. \A i \in DOMAIN said : said[i].kind \notin {"added", "removed"}
      BY <1>9
    <3>. QED
      BY <1>4, <3>1, CountType
  <2>4. /\ count(ws.down \o said, t, {"added", "removed"})
             = count(ws.down, t, {"added", "removed"}) + count(said, t, {"added", "removed"})
        /\ count(ws.down, t, {"added", "removed"}) \in Nat
    BY <1>1, <1>4, CountConcat, CountType
  <2>. QED
    BY <1>5, <2>1, <2>2, <2>3, <2>4
<1>15. RefusalsAreFinal'
  <2>1. DOMAIN ws.srv.sent \cap denied = {} /\ DOMAIN ws.srv.owed \cap denied = {}
    BY <1>1 DEF Wire, RefusalsAreFinal
  <2>2. \A i \in DOMAIN said : said[i].kind = "snapshot" \/
          (said[i].kind # "failed" /\ said[i].target \notin denied)
    BY <1>9, <1>12, <2>1
  <2>3. \A i \in DOMAIN ws'.down :
          /\ ws'.down[i].kind = "failed" => ws'.down[i].target \in denied
          /\ ws'.down[i].kind \notin {"failed", "snapshot"} => ws'.down[i].target \notin denied
    <3>. TAKE i \in DOMAIN ws'.down
    <3>1. CASE i \in DOMAIN ws.down /\ ws'.down[i] = ws.down[i]
      BY <1>1, <3>1 DEF Wire, RefusalsAreFinal
    <3>2. CASE i - Len(ws.down) \in DOMAIN said /\ ws'.down[i] = said[i - Len(ws.down)]
      BY <2>2, <3>2
    <3>. QED
      BY <1>6, <3>1, <3>2
  <2>4. \A t : stateOf(ws', t) = stateOf(ws, t)
    BY <1>5 DEF stateOf
  <2>5. IsOpen(ws.stream) => \A t \in denied \cap DOMAIN ws.targets : stateOf(ws, t).outstanding > 0
    BY <1>1 DEF Wire, RefusalsAreFinal
  <2>. QED
    BY <1>2, <1>3, <1>5, <2>1, <2>3, <2>4, <2>5 DEF RefusalsAreFinal
<1>16. VersionsAreKnown' /\ RequestsAreHonest'
  <2>1. \A i \in DOMAIN said : said[i].version <= now
    <3>. TAKE i \in DOMAIN said
    <3>1. said[i].version = v \/ said[i].version = Latest(history, said[i].target, v)
      BY <1>9
    <3>. QED
      BY <1>1, <1>13, <3>1
  <2>2. \A i \in DOMAIN ws'.down : ws'.down[i].version <= now
    <3>. TAKE i \in DOMAIN ws'.down
    <3>1. CASE i \in DOMAIN ws.down /\ ws'.down[i] = ws.down[i]
      BY <1>1, <3>1 DEF Wire, VersionsAreKnown
    <3>2. CASE i - Len(ws.down) \in DOMAIN said /\ ws'.down[i] = said[i - Len(ws.down)]
      BY <2>1, <3>2
    <3>. QED
      BY <1>6, <3>1, <3>2
  <2>3. VersionsAreKnown'
    <3>1. now' = now
      BY <1>2 DEF now
    <3>. QED
      BY <1>1, <1>3, <1>5, <1>13, <2>2, <3>1 DEF Wire, VersionsAreKnown
  <2>4. RequestsAreHonest'
    BY <1>1, <1>2, <1>5 DEF Wire, RequestsAreHonest
  <2>. QED
    BY <2>3, <2>4
(* What is said is newer than what the call has said before.               *)
<1>17. \A t : /\ Latest(history, t, ws.srv.version) \in Nat
              /\ Latest(history, t, ws.srv.version) <= Latest(history, t, v)
  <2>1. ws.srv.version \in Nat /\ ws.srv.version <= v
    BY <1>1 DEF BackendSends
  <2>. QED
    BY <1>1, <2>1, LatestIs, LatestGrows
<1>18. CallGrows'
  <2>1. \A i \in DOMAIN ws'.down : ws'.down[i].kind = "document" =>
          ws'.down[i].version <= Latest(history, ws'.down[i].target, v)
    <3>. SUFFICES ASSUME NEW i \in DOMAIN ws'.down, ws'.down[i].kind = "document"
                  PROVE  ws'.down[i].version <= Latest(history, ws'.down[i].target, v)
      OBVIOUS
    <3>0. ws'.down[i].version \in Nat
      BY <1>6, ChangeShape
    <3>1. CASE i \in DOMAIN ws.down /\ ws'.down[i] = ws.down[i]
      <4>1. ws'.down[i].version <= Latest(history, ws'.down[i].target, ws.srv.version)
        BY <1>1, <3>1 DEF Wire, CallGrows
      <4>. QED
        BY <1>13, <1>17, <3>0, <4>1
    <3>2. CASE i - Len(ws.down) \in DOMAIN said /\ ws'.down[i] = said[i - Len(ws.down)]
      BY <1>9, <1>13, <3>2
    <3>. QED
      BY <1>6, <3>1, <3>2
  <2>2. \A t \in DOMAIN ws.updates : ws.updates[t] <= Latest(history, t, v)
    <3>. TAKE t \in DOMAIN ws.updates
    <3>1. ws.updates[t] \in Nat
      BY <1>1 DEF Partial
    <3>2. ws.updates[t] <= Latest(history, t, ws.srv.version)
      BY <1>1 DEF Wire, CallGrows
    <3>. QED
      BY <1>13, <1>17, <3>1, <3>2
  <2>. QED
    BY <1>2, <1>3, <1>5, <2>1, <2>2 DEF CallGrows
<1>19. DocumentsGrow'
  <2>. SUFFICES ASSUME NEW i \in DOMAIN ws'.down, ws'.down[i].kind = "document"
                PROVE  /\ ws'.down[i].target \in DOMAIN ws.updates =>
                            ws.updates[ws'.down[i].target] <= ws'.down[i].version
                       /\ \A j \in DOMAIN ws'.down :
                            j < i /\ isDocument(ws'.down[j], ws'.down[i].target) =>
                              ws'.down[j].version <= ws'.down[i].version
    BY <1>5 DEF DocumentsGrow
  <2>1. CASE i \in DOMAIN ws.down /\ ws'.down[i] = ws.down[i]
    <3>1. \A j \in DOMAIN ws'.down : j < i => j \in DOMAIN ws.down /\ ws'.down[j] = ws.down[j]
      BY <1>6, <2>1
    <3>. QED
      BY <1>1, <2>1, <3>1 DEF Wire, DocumentsGrow
  <2>2. CASE i - Len(ws.down) \in DOMAIN said /\ ws'.down[i] = said[i - Len(ws.down)]
    <3>. DEFINE t == ws'.down[i].target
    <3>1. ws'.down[i].version = Latest(history, t, v)
      BY <1>9, <2>2
    <3>. HIDE DEF t
    <3>2. t \in DOMAIN ws.updates => ws.updates[t] <= Latest(history, t, v)
      BY <1>2, <1>3, <1>5, <1>18 DEF CallGrows
    <3>3. \A j \in DOMAIN ws'.down : isDocument(ws'.down[j], t) =>
            ws'.down[j].version <= Latest(history, t, v)
      BY <1>2, <1>3, <1>5, <1>18 DEF CallGrows, isDocument
    <3>. QED
      BY <3>1, <3>2, <3>3 DEF t
  <2>. QED
    BY <1>6, <2>1, <2>2
<1>20. TargetsAreAskedFor' /\ ClosedIsQuiet'
  <2>1. TargetsAreAskedFor'
    BY <1>1, <1>2, <1>3, <1>5 DEF Wire, TargetsAreAskedFor
  <2>. QED
    BY <1>5, <1>24, <2>1 DEF ClosedIsQuiet
(* Afterwards a target that is watched has it all.                         *)
<1>21. ASSUME NEW t \in DOMAIN ws.srv.sent \cap DOMAIN ws.targets,
              Answered(ws, t, Len(ws.down) + 1), NEW k \in Nat, k >= Len(ws'.down)
       PROVE  Has(ws', disk', history', t, v, k)
  <2>1. CASE t \in lacking(v)
    <3>1. PICK i \in DOMAIN said : said[i] = change("document", t, AsOf(t, v)) /\ i < Len(said)
      BY <1>4, <2>1
    <3>. DEFINE j == Len(ws.down) + i
    <3>2. j \in DOMAIN ws'.down /\ ws'.down[j] = said[i] /\ j < k /\ j > Len(ws.down) /\ j \in Nat
      BY <1>6, <1>21, <3>1
    <3>3. isDocument(said[i], t) /\ said[i].version = Latest(history, t, v)
      BY <3>1, AsOfIsLatest DEF isDocument, change
    <3>. HIDE DEF j
    <3>4. Answered(ws', t, j)
      <4>1. Answered(ws, t, j)
        BY <1>6, <1>21, <3>2 DEF Answered
      <4>. QED
        BY <1>11, <4>1
    <3>. QED
      BY <1>2, <1>13, <3>2, <3>3, <3>4 DEF Has
  <2>2. CASE t \notin lacking(v)
    <3>1. /\ ws.srv.sent[t] \in Nat /\ ws.srv.sent[t] <= v
          /\ ~(Latest(history, t, v) > ws.srv.sent[t])
      BY <1>1, <1>2, <2>2, AsOfIsLatest DEF lacking, Partial
    <3>2. Latest(history, t, v) = Latest(history, t, ws.srv.sent[t])
      BY <1>1, <1>13, <3>1, LatestGrows
    <3>3. Has(ws, disk, history, t, ws.srv.sent[t], Len(ws.down) + 1)
      BY <1>1, <1>21 DEF Wire, BackendIsHonest
    <3>4. Has(ws, disk, history, t, v, k)
      <4>1. \A j \in DOMAIN ws.down : j < k
        BY <1>4, <1>6, <1>21
      <4>. QED
        BY <3>2, <3>3, <4>1 DEF Has
    <3>. QED
      BY <1>11, <3>4
  <2>. QED
    BY <2>1, <2>2
<1>22. BackendIsHonest'
  <2>. SUFFICES ASSUME NEW t \in DOMAIN ws.srv.sent \cap DOMAIN ws.targets,
                       Answered(ws', t, Len(ws'.down) + 1)
                PROVE  Has(ws', disk', history', t, v, Len(ws'.down) + 1)
    BY <1>3, <1>5 DEF BackendIsHonest
  <2>1. Answered(ws, t, Len(ws.down) + 1)
    <3>1. \A i \in DOMAIN ws.down : ~(i >= Len(ws.down) + 1)
      BY <1>6
    <3>. QED
      BY <1>11, <3>1 DEF Answered
  <2>2. Len(ws'.down) + 1 \in Nat /\ Len(ws'.down) + 1 >= Len(ws'.down)
    BY <1>6
  <2>. QED
    BY <1>21, <2>1, <2>2
<1>23. SnapshotsAreHonest'
  <2>. SUFFICES ASSUME NEW k \in DOMAIN ws'.down, ws'.down[k].kind = "snapshot",
                       NEW t \in DOMAIN ws.targets \ denied, Answered(ws', t, k)
                PROVE  Has(ws', disk', history', t, ws'.down[k].version, k)
    BY <1>2, <1>5 DEF SnapshotsAreHonest
  <2>1. Answered(ws, t, k)
    BY <1>11
  <2>2. CASE k \in DOMAIN ws.down /\ ws'.down[k] = ws.down[k]
    BY <1>1, <1>11, <2>1, <2>2 DEF Wire, SnapshotsAreHonest
  <2>3. CASE k > Len(ws.down) /\ k - Len(ws.down) \in DOMAIN said
             /\ ws'.down[k] = said[k - Len(ws.down)]
    <3>1. k - Len(ws.down) = Len(said) /\ ws'.down[k].version = v
      BY <1>9, <2>3
    <3>2. k \in Nat /\ k >= Len(ws'.down)
      BY <1>6, <3>1
    <3>3. t \in DOMAIN ws.srv.sent
      BY <1>1, <1>24, <2>1 DEF Wire, TargetsAreAskedFor, Answered, isWatch
    <3>4. Answered(ws, t, Len(ws.down) + 1)
      <4>1. \A i \in DOMAIN ws.down : ~(i >= Len(ws.down) + 1)
        BY <1>6
      <4>. QED
        BY <2>1, <4>1 DEF Answered
    <3>. QED
      BY <1>21, <3>1, <3>2, <3>3, <3>4
  <2>. QED
    BY <1>6, <2>2, <2>3
<1>. QED
  BY <1>7, <1>8, <1>14, <1>15, <1>16, <1>18, <1>19, <1>20, <1>22, <1>23 DEF IInv, Wire

LEMMA BackendChangesKeeps ==
  ASSUME IInv, NEW t \in Target, BackendChanges(t)
  PROVE  IInv'
PROOF
<1>1. /\ history' = Append(history, t) /\ now < MaxVersion
      /\ ws' = ws /\ disk' = disk /\ denied' = denied
      /\ UNCHANGED <<listens, faults, restarts>>
  BY DEF BackendChanges, bounds
<1>2. /\ Types /\ Wire /\ TokensAreHonest /\ now \in Nat /\ now \in Version /\ Version \subseteq Nat
      /\ history \in Seq(Target) /\ now = Len(history)
  BY HistoryIs DEF IInv, Types, now
<1>3. history' \in Seq(Target) /\ now' = now + 1 /\ now' \in Version
  <2>1. Append(history, t) \in Seq(Target) /\ Len(Append(history, t)) = Len(history) + 1
    BY <1>2
  <2>2. now' = now + 1
    BY <1>1, <1>2, <2>1 DEF now
  <2>. QED
    BY <1>1, <1>2, <2>1, <2>2, WatchAssumption DEF Version
<1>4. Types'
  BY <1>1, <1>2, <1>3 DEF Types
<1>5. \A s : \A v \in Nat : v <= now => Latest(history', s, v) = Latest(history, s, v)
  <2>. SUFFICES ASSUME NEW s, NEW v \in Nat, v <= now
                PROVE  Latest(Append(history, t), s, v) = Latest(history, s, v)
    BY <1>1
  <2>1. v \in 0..Len(history)
    BY <1>2
  <2>. QED
    BY <1>2, <2>1, LatestStays
<1>6. /\ \A s \in Target : disk.token[s] \in Nat
      /\ \A s \in DOMAIN ws.targets : ws.targets[s].token \in Nat
      /\ \A i \in DOMAIN ws.up : ws.up[i].version \in Nat
      /\ \A i \in DOMAIN ws.down : ws.down[i].version \in Nat
      /\ \A s \in DOMAIN ws.srv.sent : ws.srv.sent[s] \in Nat
      /\ ws.srv.version \in Nat
  <2>1. \A s \in Target : disk.token[s] \in Nat
    BY <1>2 DEF Types, Disk
  <2>2. \A s \in DOMAIN ws.targets : ws.targets[s].token \in Nat
    <3>1. \A s \in DOMAIN ws.targets : ws.targets[s] \in View
      BY <1>2 DEF Types, RemoteStore, Partial
    <3>. QED
      BY <1>2, <3>1 DEF View
  <2>3. \A i \in DOMAIN ws.up : ws.up[i].version \in Nat
    <3>1. \A q \in Request : q.version \in Nat
      BY <1>2 DEF Request
    <3>. QED
      BY <1>2, <3>1 DEF Types, RemoteStore
  <2>4. \A i \in DOMAIN ws.down : ws.down[i].version \in Nat
    BY <1>2, ChangeShape DEF Types, RemoteStore
  <2>5. (\A s \in DOMAIN ws.srv.sent : ws.srv.sent[s] \in Nat) /\ ws.srv.version \in Nat
    BY <1>2 DEF Types, RemoteStore, Call, Partial
  <2>. QED
    BY <2>1, <2>2, <2>3, <2>4, <2>5
<1>7. VersionsAreKnown /\ now' \in Nat
  BY <1>2, <1>3 DEF Wire
<1>8. TokensAreHonest'
  BY <1>1, <1>2, <1>3, <1>5, <1>6 DEF TokensAreHonest
<1>9. VersionsAreKnown'
  BY <1>1, <1>2, <1>3, <1>6, <1>7 DEF VersionsAreKnown
<1>10. TimersHold' /\ ClosedIsQuiet' /\ OutstandingIsExact' /\ RefusalsAreFinal'
       /\ DocumentsGrow' /\ TargetsAreAskedFor'
  <2>1. TimersHold' /\ ClosedIsQuiet' /\ DocumentsGrow'
    BY <1>1 DEF IInv, Wire, TimersHold, ClosedIsQuiet, DocumentsGrow
  <2>2. OutstandingIsExact' /\ RefusalsAreFinal' /\ TargetsAreAskedFor'
    BY <1>1 DEF IInv, Wire, OutstandingIsExact, RefusalsAreFinal, TargetsAreAskedFor
  <2>. QED
    BY <2>1, <2>2
<1>11. CallGrows' /\ RequestsAreHonest'
  <2>1. CallGrows'
    BY <1>1, <1>2, <1>5, <1>6, <1>7 DEF Wire, CallGrows, VersionsAreKnown
  <2>2. RequestsAreHonest'
    BY <1>1, <1>2, <1>5, <1>6, <1>7 DEF Wire, RequestsAreHonest, VersionsAreKnown
  <2>. QED
    BY <2>1, <2>2
<1>12. \A s, k : \A v \in Nat : v <= now =>
         (Has(ws', disk', history', s, v, k) <=> Has(ws, disk, history, s, v, k))
  BY <1>1, <1>5 DEF Has
<1>13. SnapshotsAreHonest' /\ BackendIsHonest'
  <2>1. SnapshotsAreHonest'
    BY <1>1, <1>2, <1>6, <1>7, <1>12 DEF Wire, SnapshotsAreHonest, VersionsAreKnown
  <2>2. BackendIsHonest'
    BY <1>1, <1>2, <1>6, <1>7, <1>12 DEF Wire, BackendIsHonest, VersionsAreKnown
  <2>. QED
    BY <2>1, <2>2
<1>. QED
  BY <1>4, <1>8, <1>9, <1>10, <1>11, <1>13 DEF IInv, Wire

(* What is answered to a request. *)
LEMMA AnswerIs ==
  ASSUME IInv, BackendWatches \/ BackendUnwatches
  PROVE  IInv'
PROOF
<1>. DEFINE t == Head(ws.up).target
            m == Head(ws.up)
<1>1. /\ ws.up # <<>> /\ ws.up \in Seq(Request) /\ ws.down \in Seq(Change)
      /\ RemoteStore(ws) /\ Types /\ Call(ws.srv)
      /\ Version \subseteq Nat /\ now \in Nat /\ now \in Version
      /\ UNCHANGED <<disk, history, denied, listens, faults, restarts>>
  BY HistoryIs DEF IInv, Types, RemoteStore, BackendWatches, BackendUnwatches, bounds
<1>2. /\ m \in Request /\ Tail(ws.up) \in Seq(Request)
      /\ t \in Target /\ m.version \in Version
  <2>1. m \in Request /\ Tail(ws.up) \in Seq(Request)
    BY <1>1, TailPositions
  <2>. QED
    BY <2>1 DEF Request
<1>3. 0 \in Version
  BY NoCallIsACall
<1>. HIDE DEF m, t
<1>4. \A kind \in {"added", "removed", "failed"} : change(kind, t, 0) \in Change
  BY <1>1, <1>2, <1>3, ChangeIsChange
<1>. DEFINE watched == [ws.srv EXCEPT !.sent = with(@, t, m.version), !.owed = with(@, t, now)]
            unwatched == [ws.srv EXCEPT !.sent = without(@, t), !.owed = without(@, t)]
<1>5. /\ Call(watched) /\ watched.version = ws.srv.version
      /\ DOMAIN watched.sent = DOMAIN ws.srv.sent \cup {t}
      /\ DOMAIN watched.owed = DOMAIN ws.srv.owed \cup {t}
      /\ watched.sent[t] = m.version
      /\ \A s \in DOMAIN ws.srv.sent : s # t => watched.sent[s] = ws.srv.sent[s]
  <2>. DEFINE a == ws.srv.sent
              b == ws.srv.owed
              c == ws.srv.version
  <2>1. watched = [sent |-> with(a, t, m.version), owed |-> with(b, t, now), version |-> c]
    <3>1. ws.srv = [sent |-> a, owed |-> b, version |-> c]
      BY <1>1 DEF Call
    <3>2. watched = [ws.srv EXCEPT !.sent = with(a, t, m.version), !.owed = with(b, t, now)]
      OBVIOUS
    <3>. HIDE DEF a, b, c, watched
    <3>3. watched = [[sent |-> a, owed |-> b, version |-> c]
                       EXCEPT !.sent = with(a, t, m.version), !.owed = with(b, t, now)]
      BY <3>1, <3>2, Zenon
    <3>. QED
      BY <3>3
  <2>2. /\ Partial(with(a, t, m.version), Version)
        /\ Partial(with(b, t, now), Version)
        /\ DOMAIN with(a, t, m.version) = DOMAIN a \cup {t} /\ with(a, t, m.version)[t] = m.version
        /\ \A s \in DOMAIN a : s # t => with(a, t, m.version)[s] = a[s]
        /\ DOMAIN with(b, t, now) = DOMAIN b \cup {t}
    <3>1. Partial(a, Version) /\ Partial(b, Version)
      BY <1>1 DEF Call
    <3>. DEFINE x == m.version
                n == now
    <3>4. x \in Version /\ n \in Version /\ t \in Target
      BY <1>1, <1>2
    <3>. HIDE DEF a, b, c, x, n, watched, unwatched
    <3>2. /\ Partial(with(a, t, x), Version)
          /\ DOMAIN with(a, t, x) = DOMAIN a \cup {t} /\ with(a, t, x)[t] = x
          /\ \A s \in DOMAIN a : s # t => with(a, t, x)[s] = a[s]
      BY <3>4, <3>1 DEF with, Partial
    <3>3. Partial(with(b, t, n), Version) /\ DOMAIN with(b, t, n) = DOMAIN b \cup {t}
      BY <3>4, <3>1 DEF with, Partial
    <3>. QED
      BY <3>2, <3>3 DEF x, n
  <2>. HIDE DEF watched
  <2>. QED
    BY <1>1, <2>1, <2>2 DEF Call
<1>6. /\ Call(unwatched) /\ unwatched.version = ws.srv.version
      /\ DOMAIN unwatched.sent = DOMAIN ws.srv.sent \ {t}
      /\ DOMAIN unwatched.owed = DOMAIN ws.srv.owed \ {t}
      /\ \A s \in DOMAIN ws.srv.sent : s # t => unwatched.sent[s] = ws.srv.sent[s]
  <2>. DEFINE a == ws.srv.sent
              b == ws.srv.owed
              c == ws.srv.version
  <2>1. unwatched = [sent |-> without(a, t), owed |-> without(b, t), version |-> c]
    <3>1. ws.srv = [sent |-> a, owed |-> b, version |-> c]
      BY <1>1 DEF Call
    <3>2. unwatched = [ws.srv EXCEPT !.sent = without(a, t), !.owed = without(b, t)]
      OBVIOUS
    <3>. HIDE DEF a, b, c, unwatched
    <3>3. unwatched = [[sent |-> a, owed |-> b, version |-> c]
                         EXCEPT !.sent = without(a, t), !.owed = without(b, t)]
      BY <3>1, <3>2, Zenon
    <3>. QED
      BY <3>3
  <2>2. /\ Partial(without(a, t), Version) /\ Partial(without(b, t), Version)
        /\ DOMAIN without(a, t) = DOMAIN a \ {t} /\ DOMAIN without(b, t) = DOMAIN b \ {t}
        /\ \A s \in DOMAIN a : s # t => without(a, t)[s] = a[s]
    <3>1. Partial(a, Version) /\ Partial(b, Version)
      BY <1>1 DEF Call
    <3>. HIDE DEF a, b
    <3>2. /\ Partial(without(a, t), Version) /\ DOMAIN without(a, t) = DOMAIN a \ {t}
          /\ \A s \in DOMAIN a : s # t => without(a, t)[s] = a[s]
      BY <3>1, WithoutIsPartial
    <3>3. Partial(without(b, t), Version) /\ DOMAIN without(b, t) = DOMAIN b \ {t}
      BY <3>1, WithoutIsPartial
    <3>. QED
      BY <3>2, <3>3
  <2>. HIDE DEF unwatched
  <2>. QED
    BY <1>1, <2>1, <2>2 DEF Call
<1>. DEFINE Replied(said, srv) ==
              ws' = [ws EXCEPT !.up = Tail(ws.up), !.down = ws.down \o said, !.srv = srv]
<1>7. ASSUME NEW said \in Seq(Change), NEW srv, Call(srv), Replied(said, srv),
             srv.version = ws.srv.version,
             DOMAIN srv.owed \subseteq DOMAIN ws.srv.owed \cup {t},
             DOMAIN srv.sent \subseteq DOMAIN ws.srv.sent \cup {t},
             \A s \in DOMAIN ws.srv.sent : s # t =>
               s \in DOMAIN srv.sent /\ srv.sent[s] = ws.srv.sent[s],
             \/ /\ t \in denied /\ srv = ws.srv
                /\ \A i \in DOMAIN said : said[i] = change("failed", t, 0)
             \/ /\ t \notin denied
                /\ \E kind \in {"added", "removed"} : said = <<change(kind, t, 0)>>
                /\ t \in DOMAIN srv.sent <=> m.kind = "watch"
                /\ m.kind = "watch" => srv.sent[t] = m.version
      PROVE  IInv'
  <2>1. /\ DOMAIN ws' = Fields /\ ws'.up = Tail(ws.up) /\ ws'.down = ws.down \o said
        /\ ws'.srv = srv /\ ws'.targets = ws.targets /\ ws'.agg = ws.agg
        /\ ws'.updates = ws.updates /\ ws'.online = ws.online /\ ws'.timer = ws.timer
        /\ ws'.failures = ws.failures /\ ws'.stream = ws.stream
    BY <1>1, <1>7 DEF RemoteStore, Fields
  <2>2. RemoteStore(ws')
    <3>1. ws.down \o said \in Seq(Change)
      BY <1>1, <1>7
    <3>. QED
      BY <1>1, <1>2, <1>7, <2>1, <3>1 DEF RemoteStore
  <2>3. Types'
    BY <1>1, <2>2 DEF Types, now
  <2>4. TimersHold' /\ TokensAreHonest'
    <3>1. TimersHold'
      BY <2>1 DEF IInv, TimersHold
    <3>2. TokensAreHonest'
      BY <1>1, <2>1, TokensKeep DEF IInv
    <3>. QED
      BY <3>1, <3>2
  <2>5. Wire'
    <3>1. t = Head(ws.up).target /\ m = Head(ws.up)
      BY DEF t, m
    <3>. QED
      BY <1>1, <1>7, <2>1, <3>1, AnswerKeeps
  <2>. QED
    BY <2>3, <2>4, <2>5 DEF IInv
<1>8. ws.down \o <<>> = ws.down
  BY <1>1
<1>9. CASE t \in denied
  <2>1. \E said \in {<<>>, <<change("failed", t, 0)>>} : Replied(said, ws.srv)
    <3>1. CASE BackendWatches
      <4>1. ws' = [ws EXCEPT !.up = Tail(ws.up), !.down = Append(ws.down, change("failed", t, 0))]
        BY <1>9, <3>1 DEF BackendWatches, t
      <4>2. Append(ws.down, change("failed", t, 0)) = ws.down \o <<change("failed", t, 0)>>
        BY <1>1, <1>4
      <4>3. Replied(<<change("failed", t, 0)>>, ws.srv)
        BY <1>1, <4>1, <4>2 DEF RemoteStore, Fields
      <4>. QED
        BY <4>3
    <3>2. CASE BackendUnwatches
      <4>1. ws' = [ws EXCEPT !.up = Tail(ws.up)]
        BY <1>9, <3>2 DEF BackendUnwatches, t
      <4>2. Replied(<<>>, ws.srv)
        BY <1>1, <1>8, <4>1 DEF RemoteStore, Fields
      <4>. QED
        BY <4>2
    <3>. QED
      BY <3>1, <3>2
  <2>2. PICK said \in {<<>>, <<change("failed", t, 0)>>} : Replied(said, ws.srv)
    BY <2>1
  <2>3. said \in Seq(Change) /\ \A i \in DOMAIN said : said[i] = change("failed", t, 0)
    <3>1. CASE said = <<>>
      BY <3>1
    <3>2. CASE said = <<change("failed", t, 0)>>
      BY <1>4, <3>2
    <3>. QED
      BY <2>2, <3>1, <3>2
  <2>. HIDE DEF Replied
  <2>. QED
    BY <1>1, <1>7, <1>9, <2>2, <2>3
<1>10. CASE t \notin denied /\ BackendWatches
  <2>1. ws' = [ws EXCEPT !.up = Tail(ws.up), !.down = Append(ws.down, change("added", t, 0)),
                         !.srv = watched]
    BY <1>1, <1>10 DEF BackendWatches, t, m
  <2>2. Append(ws.down, change("added", t, 0)) = ws.down \o <<change("added", t, 0)>>
    BY <1>1, <1>4
  <2>3. Replied(<<change("added", t, 0)>>, watched) /\ m.kind = "watch"
    BY <1>10, <2>1, <2>2 DEF BackendWatches, m
  <2>5. <<change("added", t, 0)>> \in Seq(Change)
    BY <1>4
  <2>. HIDE DEF Replied, watched
  <2>. QED
    BY <1>5, <1>7, <1>10, <2>3, <2>5
<1>11. CASE t \notin denied /\ BackendUnwatches
  <2>1. ws' = [ws EXCEPT !.up = Tail(ws.up), !.down = Append(ws.down, change("removed", t, 0)),
                         !.srv = unwatched]
    BY <1>1, <1>11 DEF BackendUnwatches, t, m
  <2>2. Append(ws.down, change("removed", t, 0)) = ws.down \o <<change("removed", t, 0)>>
    BY <1>1, <1>4
  <2>3. Replied(<<change("removed", t, 0)>>, unwatched) /\ m.kind # "watch"
    BY <1>11, <2>1, <2>2 DEF BackendUnwatches, m
  <2>5. <<change("removed", t, 0)>> \in Seq(Change)
    BY <1>4
  <2>. HIDE DEF Replied, unwatched
  <2>. QED
    BY <1>6, <1>7, <1>11, <2>3, <2>5
<1>. QED
  BY <1>9, <1>10, <1>11

-----------------------------------------------------------------------------
(* Steps after which no stream is open.                                    *)

LEMMA TimersAtNext == RemoteStore(ws') => (TimersAt(ws') <=> TimersHold')
BY DEF TimersAt, TimersHold, OnlineMatches, Matches, RemoteStore

LEMMA IInvIs ==
  ASSUME IInv
  PROVE  /\ RemoteStore(ws) /\ TimersAt(ws) /\ (~IsOpen(ws.stream) => Quiet(ws))
         /\ Types /\ TokensAreHonest /\ Wire /\ Matches(ws.stream)
         /\ Partial(ws.targets, View)
BY TimersAtIsTimersHold DEF IInv, Types, Wire, ClosedIsQuiet, TimersAt, RemoteStore

LEMMA ResetKeeps ==
  ASSUME IInv, Reset(ws, ws'), UNCHANGED <<disk, history, denied>>,
         listens' \in 0..MaxListens, faults' \in 0..MaxFaults, restarts' \in 0..MaxRestarts
  PROVE  IInv'
PROOF
<1>1. RemoteStore(ws') /\ TimersAt(ws') /\ SameTokens(ws, ws') /\ Quiet(ws') /\ ~IsOpen(ws'.stream)
  BY DEF Reset
<1>2. Types'
  BY <1>1 DEF IInv, Types, now
<1>3. TimersHold'
  BY <1>1, TimersAtNext
<1>4. TokensAreHonest'
  BY <1>1, TokensKeep DEF IInv, SameTokens
<1>5. Wire'
  BY <1>1, <1>2, QuietKeeps
<1>. QED
  BY <1>2, <1>3, <1>4, <1>5 DEF IInv

LEMMA BoundsAre ==
  ASSUME Types
  PROVE  /\ listens \in 0..MaxListens /\ faults \in 0..MaxFaults /\ restarts \in 0..MaxRestarts
         /\ listens < MaxListens => listens + 1 \in 0..MaxListens
         /\ faults < MaxFaults => faults + 1 \in 0..MaxFaults
         /\ restarts < MaxRestarts => restarts + 1 \in 0..MaxRestarts
BY WatchAssumption DEF Types

LEMMA ConnectivityChangeKeeps == IInv /\ ConnectivityChange => IInv'
PROOF
<1>. SUFFICES ASSUME IInv, ConnectivityChange PROVE IInv'
  OBVIOUS
<1>1. Reset(ws, ws')
  BY IInvIs, RestartNetworkIs DEF ConnectivityChange
<1>. QED
  BY <1>1, IInvIs, BoundsAre, ResetKeeps DEF ConnectivityChange

LEMMA CloseKeeps == IInv /\ (CredentialsFail \/ WatchStreamBreaks) => IInv'
PROOF
<1>. SUFFICES ASSUME IInv, CredentialsFail \/ WatchStreamBreaks PROVE IInv'
  OBVIOUS
<1>1. Reset(ws, ws')
  BY IInvIs, OnWatchStreamCloseIs DEF CredentialsFail, WatchStreamBreaks
<1>. QED
  BY <1>1, IInvIs, BoundsAre, ResetKeeps DEF CredentialsFail, WatchStreamBreaks

LEMMA WatchStreamIdleKeeps == IInv /\ WatchStreamIdle => IInv'
PROOF
<1>. SUFFICES ASSUME IInv, WatchStreamIdle PROVE IInv'
  OBVIOUS
<1>1. /\ RemoteStore(ws') /\ Quiet(ws') /\ Matches(ws'.stream) /\ ~ws'.stream.idle
      /\ ~IsStarted(ws'.stream) /\ ~IsOpen(ws'.stream)
      /\ OnlineMatches(ws') /\ ~ws'.timer
      /\ SameTokens(ws, ws') /\ (ws'.targets = empty <=> ws.targets = empty)
  BY IInvIs, StopIs DEF WatchStreamIdle
<1>2. ws'.targets = empty
  BY <1>1, IInvIs DEF WatchStreamIdle, TimersAt
<1>3. Reset(ws, ws')
  BY <1>1, <1>2 DEF Reset, TimersAt
<1>. QED
  BY <1>3, IInvIs, BoundsAre, ResetKeeps DEF WatchStreamIdle, bounds

LEMMA NewRemoteStoreIs ==
  RemoteStore(noRemoteStore) /\ TimersAt(noRemoteStore) /\ Quiet(noRemoteStore)
    /\ ~IsOpen(noRemoteStore.stream) /\ DOMAIN noRemoteStore.targets = {}
PROOF
<1>. DEFINE r == noRemoteStore
<1>1. /\ DOMAIN r = Fields /\ r.targets = empty /\ r.agg = empty /\ r.updates = empty
      /\ r.online = "Unknown" /\ r.timer = FALSE /\ r.failures = 0 /\ r.stream = NewStream
      /\ r.up = <<>> /\ r.down = <<>> /\ r.srv = noCall
  BY DEF noRemoteStore, Fields
<1>. HIDE DEF r
<1>2. Quiet(r) /\ ~IsOpen(r.stream) /\ DOMAIN r.targets = {}
  BY <1>1, EmptyIsPartial, NewStreamMatches DEF Quiet
<1>3. TimersAt(r)
  BY <1>1, NewStreamMatches, Zenon DEF TimersAt, OnlineMatches, NewStream
<1>4. RemoteStore(r)
  <2>1. r.online \in OnlineState /\ r.failures \in Nat /\ r.up \in Seq(Request) /\ r.down \in Seq(Change)
    BY <1>1 DEF OnlineState
  <2>2. r.timer \in BOOLEAN
    BY <1>1, Zenon
  <2>3. Partial(r.targets, View) /\ Partial(r.agg, TargetState) /\ Partial(r.updates, Version)
        /\ Call(r.srv) /\ r.stream \in StreamRecord
    BY <1>1, EmptyIsPartial, NoCallIsACall, NewStreamMatches DEF Matches
  <2>. QED
    BY <1>1, <2>1, <2>2, <2>3 DEF RemoteStore
<1>. QED
  BY <1>2, <1>3, <1>4 DEF r

LEMMA CrashKeeps == IInv /\ Crash => IInv'
PROOF
<1>. SUFFICES ASSUME IInv, Crash PROVE IInv'
  OBVIOUS
<1>1. /\ ws' = noRemoteStore
      /\ UNCHANGED <<disk, history, denied>>
      /\ listens' \in 0..MaxListens /\ faults' \in 0..MaxFaults /\ restarts' \in 0..MaxRestarts
  BY IInvIs, BoundsAre DEF Crash
<1>2. RemoteStore(ws') /\ TimersAt(ws') /\ Quiet(ws') /\ ~IsOpen(ws'.stream)
      /\ DOMAIN ws'.targets = {}
  BY <1>1, NewRemoteStoreIs
<1>3. Types'
  BY <1>1, <1>2 DEF IInv, Types, now
<1>4. TimersHold' /\ TokensAreHonest'
  <2>1. TokensAreHonest'
    BY <1>1, <1>2, TokensKeep DEF IInv
  <2>. QED
    BY <1>2, <2>1, TimersAtNext
<1>5. Wire'
  BY <1>2, <1>3, QuietKeeps
<1>. QED
  BY <1>3, <1>4, <1>5 DEF IInv

(* Only the stream changes, and it is not opened or closed.                *)
LEMMA StreamStepKeeps ==
  ASSUME IInv, NEW s, ws' = [ws EXCEPT !.stream = s], UNCHANGED <<disk, history, denied, bounds>>,
         Matches(s), s.idle => ws.stream.idle, IsStarted(s) = IsStarted(ws.stream),
         IsOpen(s) = IsOpen(ws.stream)
  PROVE  IInv'
PROOF
<1>1. /\ DOMAIN ws' = Fields /\ ws'.stream = s /\ SameWire(ws, ws')
      /\ ws'.targets = ws.targets /\ ws'.online = ws.online /\ ws'.timer = ws.timer
      /\ ws'.failures = ws.failures
  BY IInvIs DEF RemoteStore, Fields, SameWire
<1>2. RemoteStore(ws')
  BY <1>1, IInvIs DEF RemoteStore, SameWire, Matches
<1>3. Types'
  BY <1>2, IInvIs DEF Types, now, bounds
<1>4. TimersHold'
  BY <1>1, <1>2, IInvIs, TimersAtNext DEF TimersAt, OnlineMatches
<1>5. TokensAreHonest'
  BY <1>1, IInvIs, TokensKeep
<1>6. Wire'
  BY <1>1, SameWireKeeps
<1>. QED
  BY <1>3, <1>4, <1>5, <1>6 DEF IInv

LEMMA CredentialsArriveLateKeeps == IInv /\ CredentialsArriveLate => IInv'
PROOF
<1>. SUFFICES ASSUME IInv, CredentialsArriveLate PROVE IInv'
  OBVIOUS
<1>. DEFINE s == LateCredentials(ws.stream)
<1>1. /\ ws' = [ws EXCEPT !.stream = s] /\ ws.stream.late > 0
      /\ UNCHANGED <<disk, history, denied, bounds>>
  BY DEF CredentialsArriveLate
<1>2. /\ Matches(s) /\ IsStarted(s) = IsStarted(ws.stream)
      /\ IsOpen(s) = IsOpen(ws.stream) /\ s.idle = ws.stream.idle
  BY <1>1, IInvIs, LateMatches
<1>. HIDE DEF s
<1>. QED
  BY <1>1, <1>2, StreamStepKeeps

LEMMA WatchBackoffElapsedKeeps == IInv /\ WatchBackoffElapsed => IInv'
PROOF
<1>. SUFFICES ASSUME IInv, WatchBackoffElapsed PROVE IInv'
  OBVIOUS
<1>. DEFINE s == BackoffElapsed(ws.stream)
<1>1. /\ ws' = [ws EXCEPT !.stream = s] /\ ws.stream.backoff
      /\ UNCHANGED <<disk, history, denied, bounds>>
  BY DEF WatchBackoffElapsed
<1>2. /\ Matches(s) /\ IsStarted(s) /\ ~IsOpen(s) /\ ~s.idle
  BY <1>1, IInvIs, BackoffElapsedMatches
<1>3. IsStarted(ws.stream) /\ ~IsOpen(ws.stream)
  BY <1>1, IInvIs DEF Matches, TimersMatch, IsStarted, IsOpen
<1>. HIDE DEF s
<1>4. IsStarted(s) = IsStarted(ws.stream) /\ IsOpen(s) = IsOpen(ws.stream)
  BY <1>2, <1>3 DEF IsStarted, IsOpen
<1>. QED
  BY <1>1, <1>2, <1>4, StreamStepKeeps

LEMMA OnlineStateTimeoutKeeps == IInv /\ OnlineStateTimeout => IInv'
PROOF
<1>. SUFFICES ASSUME IInv, OnlineStateTimeout PROVE IInv'
  OBVIOUS
<1>. DEFINE q == [ws EXCEPT !.timer = FALSE]
<1>1. /\ ws' = SetAndBroadcast(q, "Offline") /\ UNCHANGED <<disk, history, denied, bounds>>
  BY DEF OnlineStateTimeout
<1>2. /\ DOMAIN q = Fields /\ q.timer = FALSE /\ q.failures = ws.failures
      /\ q.online = ws.online /\ q.targets = ws.targets /\ q.agg = ws.agg
      /\ q.updates = ws.updates /\ q.up = ws.up /\ q.down = ws.down /\ q.srv = ws.srv
      /\ q.stream = ws.stream
  BY IInvIs DEF RemoteStore, Fields
<1>. HIDE DEF q
<1>3. RemoteStore(q)
  <2>1. q.timer \in BOOLEAN
    BY <1>2, Zenon
  <2>. QED
    BY <1>2, <2>1, IInvIs DEF RemoteStore
<1>4. "Offline" \in OnlineState
  BY DEF OnlineState
<1>5. /\ RemoteStore(ws') /\ ws'.online = "Offline"
      /\ SameTokens(q, ws') /\ SameWire(q, ws') /\ ws'.stream = q.stream
      /\ ws'.timer = q.timer /\ ws'.failures = q.failures
      /\ (ws'.targets = empty <=> q.targets = empty)
  BY <1>1, <1>3, <1>4, SetAndBroadcastIs
<1>6. SameTokens(ws, ws') /\ SameWire(ws, ws')
  BY <1>2, <1>5 DEF SameTokens, SameWire
<1>7. Types'
  BY <1>1, <1>5, IInvIs DEF Types, now, bounds
<1>8. TimersHold'
  BY <1>2, <1>5, IInvIs, TimersAtNext DEF TimersAt, OnlineMatches
<1>9. TokensAreHonest'
  BY <1>1, <1>6, IInvIs, TokensKeep DEF SameTokens
<1>10. Wire'
  BY <1>1, <1>2, <1>5, <1>6, SameWireKeeps DEF SameTokens
<1>. QED
  BY <1>7, <1>8, <1>9, <1>10 DEF IInv

-----------------------------------------------------------------------------
(* Steps that ask for targets.                                             *)

LEMMA AddListenerKeeps == \A t \in Target : IInv /\ AddListener(t) => IInv'
PROOF
<1>. SUFFICES ASSUME NEW t \in Target, IInv, AddListener(t) PROVE IInv'
  OBVIOUS
<1>. DEFINE view == [newView(t) EXCEPT !.raised = firstEvent(newView(t), disk.content[t], ws.online)]
            f == with(ws.targets, t, view)
            r == [ws EXCEPT !.targets = f]
<1>1. /\ ws' = Listen(r, t) /\ t \notin DOMAIN ws.targets
      /\ UNCHANGED <<disk, history, denied>>
      /\ listens' \in 0..MaxListens /\ faults' \in 0..MaxFaults /\ restarts' \in 0..MaxRestarts
  BY IInvIs, BoundsAre DEF AddListener
<1>2. view \in View /\ view.token = disk.token[t]
  <2>1. disk.token[t] \in Version
    BY IInvIs DEF Types, Disk
  <2>2. newView(t) \in View /\ newView(t).token = disk.token[t]
    BY <2>1 DEF newView, View
  <2>3. firstEvent(newView(t), disk.content[t], ws.online) \in BOOLEAN
    BY <2>2 DEF firstEvent, View
  <2>. QED
    BY <2>2, <2>3 DEF View
<1>. HIDE DEF view
<1>3. /\ Partial(f, View) /\ DOMAIN f = DOMAIN ws.targets \cup {t} /\ f[t] = view
      /\ \A s \in DOMAIN ws.targets : f[s] = ws.targets[s]
  BY <1>1, <1>2, IInvIs DEF with, Partial
<1>. HIDE DEF f
<1>4. /\ DOMAIN r = Fields /\ r.targets = f /\ r.agg = ws.agg /\ r.updates = ws.updates
      /\ r.online = ws.online /\ r.timer = ws.timer /\ r.failures = ws.failures
      /\ r.stream = ws.stream /\ r.up = ws.up /\ r.down = ws.down /\ r.srv = ws.srv
  BY IInvIs DEF RemoteStore, Fields
<1>. HIDE DEF r
<1>5. RemoteStore(r) /\ OnlineMatches(r) /\ Matches(r.stream) /\ r.targets # empty
  <2>1. RemoteStore(r)
    BY <1>3, <1>4, IInvIs DEF RemoteStore
  <2>. QED
    BY <1>3, <1>4, <2>1, IInvIs, EmptyIsPartial DEF TimersAt, OnlineMatches
<1>6. \A x : /\ DOMAIN x.targets = DOMAIN f
             /\ \A s \in DOMAIN f : x.targets[s].token = f[s].token
             => \A s \in DOMAIN x.targets :
                  /\ s \in Target
                  /\ s = t => x.targets[s].token = disk.token[t]
                  /\ s # t => s \in DOMAIN ws.targets /\ x.targets[s].token = ws.targets[s].token
  BY <1>2, <1>3 DEF Partial
<1>7. ASSUME SameTokens(r, ws') PROVE TokensAreHonest'
  <2>1. \A s \in DOMAIN ws'.targets :
          /\ s \in Target
          /\ s = t => ws'.targets[s].token = disk.token[t]
          /\ s # t => s \in DOMAIN ws.targets /\ ws'.targets[s].token = ws.targets[s].token
    BY <1>4, <1>6, <1>7 DEF SameTokens
  <2>. QED
    BY <1>1, <2>1, IInvIs DEF TokensAreHonest, now
<1>8. ASSUME RemoteStore(ws') PROVE Types'
  BY <1>1, <1>8, IInvIs DEF Types, now
<1>9. CASE ~IsStarted(ws.stream)
  <2>1. ws' = StartWatchStream(r) /\ ~IsOpen(ws.stream)
    BY <1>1, <1>4, <1>5, <1>9 DEF Listen, ShouldStartWatchStream, IsStarted, IsOpen
  <2>2. Quiet(r)
    BY <1>4, <2>1, IInvIs DEF Quiet
  <2>3. /\ RemoteStore(ws') /\ TimersAt(ws') /\ SameTokens(r, ws') /\ ~IsOpen(ws'.stream)
        /\ Quiet(ws')
    BY <1>4, <1>5, <1>9, <2>1, <2>2, StartWatchStreamIs
  <2>. QED
    BY <1>7, <1>8, <2>3, QuietKeeps, TimersAtNext DEF IInv
<1>10. CASE IsStarted(ws.stream) /\ ~IsOpen(ws.stream)
  <2>1. ws' = r
    BY <1>1, <1>4, <1>10 DEF Listen, ShouldStartWatchStream
  <2>2. Quiet(r) /\ ~r.stream.idle
    BY <1>4, <1>10, IInvIs DEF Quiet, Matches, TimersMatch, IsOpen
  <2>3. TimersAt(r) /\ SameTokens(r, r)
    BY <1>4, <1>5, <1>10, <2>2, IInvIs DEF TimersAt, SameTokens
  <2>. QED
    BY <1>4, <1>5, <1>7, <1>8, <1>10, <2>1, <2>2, <2>3, QuietKeeps, TimersAtNext DEF IInv
<1>11. CASE IsOpen(ws.stream)
  <2>. DEFINE requests == <<watch(t, disk.token[t])>>
  <2>1. ws' = sent(r, {t}, requests)
    <3>1. ws' = SendWatchRequest(r, <<t>>)
      BY <1>1, <1>4, <1>11 DEF Listen, ShouldStartWatchStream, IsStarted, IsOpen
    <3>2. Range(<<t>>) = {t}
      BY DEF Range
    <3>3. [i \in DOMAIN <<t>> |-> watch(<<t>>[i], r.targets[<<t>>[i]].token)]
            = <<watch(t, r.targets[t].token)>>
      OBVIOUS
    <3>4. r.targets[t].token = disk.token[t]
      BY <1>2, <1>3, <1>4
    <3>. QED
      BY <3>1, <3>2, <3>3, <3>4 DEF SendWatchRequest
  <2>2. disk.token[t] \in Version /\ disk.token[t] <= now
        /\ disk.content[t] >= Latest(history, t, disk.token[t])
    BY IInvIs DEF Types, Disk, TokensAreHonest
  <2>3. /\ watch(t, disk.token[t]) \in Request /\ watch(t, disk.token[t]).target = t
        /\ watch(t, disk.token[t]).kind = "watch"
        /\ watch(t, disk.token[t]).version = disk.token[t]
    BY <2>2 DEF watch, Request
  <2>4. /\ requests \in Seq(Request) /\ \A i \in DOMAIN requests : requests[i] = watch(t, disk.token[t])
        /\ count(requests, t, {"watch", "unwatch"}) = 1
    BY <2>3, CountOne
  <2>. HIDE DEF requests
  <2>5. /\ RemoteStore(ws') /\ ws'.up = r.up \o requests
        /\ ws'.targets = r.targets /\ ws'.updates = r.updates /\ ws'.down = r.down
        /\ ws'.srv = r.srv /\ ws'.online = r.online /\ ws'.timer = r.timer
        /\ ws'.failures = r.failures
        /\ Matches(ws'.stream) /\ ~ws'.stream.idle
        /\ (IsStarted(ws'.stream) <=> IsStarted(r.stream))
        /\ (IsOpen(ws'.stream) <=> IsOpen(r.stream))
        /\ \A s \in Target : stateOf(ws', s).outstanding =
             IF s \in {t} THEN stateOf(r, s).outstanding + 1 ELSE stateOf(r, s).outstanding
    <3>1. {t} \subseteq Target
      OBVIOUS
    <3>2. IsSent(ws', r, {t}, requests)
      BY <1>5, <2>1, <2>4, <3>1, SentIs
    <3>. QED
      BY <3>2 DEF IsSent
  <2>6. TimersAt(ws') /\ SameTokens(r, ws') /\ IsOpen(ws'.stream)
    BY <1>4, <1>5, <1>11, <2>5, IInvIs DEF TimersAt, OnlineMatches, SameTokens, IsStarted, IsOpen
  <2>7. \A s : stateOf(r, s) = stateOf(ws, s)
    BY <1>4 DEF stateOf
  <2>8. Wire'
    <3>1. \A s \in DOMAIN ws'.targets :
            \/ s \in {t} /\ \A i \in DOMAIN requests :
                              requests[i].target = s => requests[i].kind = "watch"
            \/ s \notin {t} /\ s \in DOMAIN ws.targets /\ IsOpen(ws.stream)
      BY <1>3, <1>4, <1>11, <2>3, <2>4, <2>5
    <3>2. DOMAIN ws'.targets \subseteq Target
      BY <2>5 DEF RemoteStore, Partial
    <3>3. \A i \in DOMAIN requests : requests[i].target \in {t} /\ requests[i].version <= now
      BY <2>2, <2>3, <2>4
    <3>4. \A i \in DOMAIN requests : requests[i].kind = "watch" =>
            disk.content[requests[i].target]
              >= Latest(history, requests[i].target, requests[i].version)
      BY <2>2, <2>3, <2>4
    <3>5. \A s \in {t} : count(requests, s, {"watch", "unwatch"}) = 1
      BY <2>4
    <3>6. \A s \in Target : stateOf(ws', s).outstanding =
            IF s \in {t} THEN stateOf(ws, s).outstanding + 1 ELSE stateOf(ws, s).outstanding
      BY <2>5, <2>7
    <3>7. /\ ws'.up = ws.up \o requests /\ ws'.down = ws.down /\ ws'.updates = ws.updates
          /\ ws'.srv = ws.srv /\ {t} \in SUBSET Target
      BY <1>4, <2>5
    <3>. QED
      BY <1>1, <2>4, <2>6, <3>1, <3>2, <3>3, <3>4, <3>5, <3>6, <3>7, SentKeeps
  <2>. QED
    BY <1>7, <1>8, <2>5, <2>6, <2>8, TimersAtNext DEF IInv
<1>. QED
  BY <1>9, <1>10, <1>11

(* Of a target that is not listened to any more only its token is kept.    *)
LEMMA RemoveListenerKeeps == \A t \in Target : IInv /\ RemoveListener(t) => IInv'
PROOF
<1>. SUFFICES ASSUME NEW t \in Target, IInv, RemoveListener(t) PROVE IInv'
  OBVIOUS
<1>. DEFINE f == without(ws.targets, t)
            r == [ws EXCEPT !.targets = f]
            token == ws.targets[t].token
<1>1. /\ ws' = StopListening(r, t) /\ t \in DOMAIN ws.targets
      /\ disk' = [disk EXCEPT !.token[t] = token]
      /\ UNCHANGED <<history, denied, listens, faults, restarts>>
  BY DEF RemoveListener, ReleaseTarget, bounds
<1>2. token \in Version /\ token <= now /\ disk.content[t] >= Latest(history, t, token)
  <2>1. ws.targets[t] \in View
    BY <1>1, IInvIs DEF Partial
  <2>. QED
    BY <1>1, <2>1, IInvIs DEF View, TokensAreHonest
<1>. HIDE DEF token
<1>3. /\ disk' \in Disk /\ disk'.content = disk.content /\ disk'.version = disk.version
      /\ disk'.token[t] = token
      /\ \A s \in Target : s # t => disk'.token[s] = disk.token[s]
  BY <1>1, <1>2, IInvIs DEF Types, Disk
<1>4. /\ Partial(f, View) /\ DOMAIN f = DOMAIN ws.targets \ {t}
      /\ \A s \in DOMAIN f : f[s] = ws.targets[s]
  BY IInvIs DEF without, Partial, Restrict
<1>. HIDE DEF f
<1>5. /\ DOMAIN r = Fields /\ r.targets = f /\ r.agg = ws.agg /\ r.updates = ws.updates
      /\ r.online = ws.online /\ r.timer = ws.timer /\ r.failures = ws.failures
      /\ r.stream = ws.stream /\ r.up = ws.up /\ r.down = ws.down /\ r.srv = ws.srv
  BY IInvIs DEF RemoteStore, Fields
<1>. HIDE DEF r
<1>6. RemoteStore(r) /\ OnlineMatches(r) /\ Matches(r.stream)
  <2>1. RemoteStore(r)
    BY <1>4, <1>5, IInvIs DEF RemoteStore
  <2>. QED
    BY <1>5, <2>1, IInvIs DEF TimersAt, OnlineMatches
<1>7. ASSUME SameTokens(r, ws') PROVE TokensAreHonest'
  <2>1. \A s \in DOMAIN ws'.targets :
          s \in DOMAIN ws.targets /\ ws'.targets[s].token = ws.targets[s].token
    BY <1>4, <1>5, <1>7 DEF SameTokens
  <2>2. now' = now /\ history' = history
    BY <1>1 DEF now
  <2>. QED
    BY <1>2, <1>3, <2>1, <2>2, IInvIs DEF TokensAreHonest
<1>8. ASSUME RemoteStore(ws') PROVE Types'
  BY <1>1, <1>3, <1>8, IInvIs DEF Types, now
<1>9. CASE ~IsOpen(ws.stream) /\ f # empty
  <2>1. ws' = r
    BY <1>1, <1>5, <1>9 DEF StopListening
  <2>2. Quiet(r) /\ ~r.stream.idle /\ IsStarted(r.stream)
    <3>1. ws.targets # empty
      BY <1>1, EmptyIsPartial
    <3>. QED
      BY <1>5, <1>9, <3>1, IInvIs DEF Quiet, Matches, TimersMatch, IsOpen, TimersAt
  <2>3. TimersAt(r) /\ SameTokens(r, r)
    BY <1>5, <1>6, <1>9, <2>2, IInvIs DEF TimersAt, SameTokens
  <2>. QED
    BY <1>5, <1>6, <1>7, <1>8, <1>9, <2>1, <2>2, <2>3, QuietKeeps, TimersAtNext DEF IInv
<1>10. CASE ~IsOpen(ws.stream) /\ f = empty
  <2>1. ws' = UpdateState(r, "Unknown")
    BY <1>1, <1>5, <1>10 DEF StopListening
  <2>2. /\ RemoteStore(ws') /\ OnlineMatches(ws')
        /\ SameTokens(r, ws') /\ SameWire(r, ws') /\ ws'.stream = r.stream
        /\ ~ws'.timer
        /\ ws'.targets = empty <=> r.targets = empty
    BY <1>6, <2>1, UpdateStateIs DEF OnlineState
  <2>3. Quiet(ws') /\ TimersAt(ws')
    BY <1>5, <1>6, <1>10, <2>2, IInvIs DEF Quiet, SameWire, TimersAt
  <2>. QED
    BY <1>5, <1>7, <1>8, <1>10, <2>2, <2>3, QuietKeeps, TimersAtNext DEF IInv
<1>11. CASE IsOpen(ws.stream)
  <2>. DEFINE requests == <<unwatch(t)>>
              s == sent(r, {t}, requests)
  <2>1. 0 \in Version /\ 0 <= now
    BY IInvIs, HistoryIs, NoCallIsACall
  <2>2. /\ unwatch(t) \in Request /\ unwatch(t).target = t /\ unwatch(t).version = 0
        /\ unwatch(t).kind = "unwatch"
    BY <2>1 DEF unwatch, Request
  <2>3. /\ requests \in Seq(Request) /\ \A i \in DOMAIN requests : requests[i] = unwatch(t)
        /\ count(requests, t, {"watch", "unwatch"}) = 1
    BY <2>2, CountOne
  <2>4. ws' = IF s.targets # empty THEN s
              ELSE IF IsOpen(s.stream) THEN [s EXCEPT !.stream = MarkIdle(s.stream)]
              ELSE UpdateState(s, "Unknown")
    BY <1>1, <1>5, <1>11 DEF StopListening, SendUnwatchRequest
  <2>. HIDE DEF requests
  <2>5. /\ RemoteStore(s) /\ s.up = r.up \o requests
        /\ s.targets = r.targets /\ s.updates = r.updates /\ s.down = r.down
        /\ s.srv = r.srv /\ s.online = r.online /\ s.timer = r.timer
        /\ s.failures = r.failures
        /\ Matches(s.stream) /\ ~s.stream.idle
        /\ (IsStarted(s.stream) <=> IsStarted(r.stream))
        /\ (IsOpen(s.stream) <=> IsOpen(r.stream))
        /\ \A x \in Target : stateOf(s, x).outstanding =
             IF x \in {t} THEN stateOf(r, x).outstanding + 1 ELSE stateOf(r, x).outstanding
    <3>1. {t} \subseteq Target
      OBVIOUS
    <3>2. IsSent(s, r, {t}, requests)
      BY <1>6, <2>3, <3>1, SentIs
    <3>. QED
      BY <3>2 DEF IsSent
  <2>. HIDE DEF s
  <2>6. IsOpen(s.stream) /\ IsStarted(s.stream)
    BY <1>5, <1>11, <2>5 DEF IsOpen, IsStarted
  <2>7. /\ RemoteStore(ws') /\ ws'.up = s.up /\ ws'.agg = s.agg
        /\ ws'.targets = s.targets /\ ws'.updates = s.updates /\ ws'.down = s.down
        /\ ws'.srv = s.srv /\ ws'.online = s.online /\ ws'.timer = s.timer
        /\ ws'.failures = s.failures
        /\ Matches(ws'.stream) /\ IsOpen(ws'.stream) /\ IsStarted(ws'.stream)
        /\ ws'.stream.idle => s.targets = empty
    <3>1. CASE s.targets # empty
      BY <2>4, <2>5, <2>6, <3>1
    <3>2. CASE s.targets = empty
      <4>. DEFINE x == MarkIdle(s.stream)
      <4>1. Matches(x) /\ IsOpen(x) /\ IsStarted(x)
        BY <2>5, <2>6, MarkIdleMatches
      <4>. HIDE DEF x
      <4>2. ws' = [s EXCEPT !.stream = x]
        BY <2>4, <2>6, <3>2 DEF x
      <4>3. /\ DOMAIN ws' = Fields /\ ws'.stream = x /\ ws'.up = s.up /\ ws'.agg = s.agg
            /\ ws'.targets = s.targets /\ ws'.updates = s.updates /\ ws'.down = s.down
            /\ ws'.srv = s.srv /\ ws'.online = s.online /\ ws'.timer = s.timer
            /\ ws'.failures = s.failures
        BY <2>5, <4>2 DEF RemoteStore, Fields
      <4>4. RemoteStore(ws')
        BY <2>5, <4>1, <4>3 DEF RemoteStore, Matches
      <4>. QED
        BY <3>2, <4>1, <4>3, <4>4
    <3>. QED
      BY <3>1, <3>2
  <2>8. TimersAt(ws') /\ SameTokens(r, ws')
    BY <1>5, <1>6, <2>5, <2>7, IInvIs DEF TimersAt, OnlineMatches, SameTokens
  <2>9. Wire'
    <3>1. \A x \in DOMAIN ws'.targets :
            \/ x \in {t} /\ \A i \in DOMAIN requests :
                              requests[i].target = x => requests[i].kind = "watch"
            \/ x \notin {t} /\ x \in DOMAIN ws.targets /\ IsOpen(ws.stream)
      BY <1>4, <1>5, <1>11, <2>5, <2>7
    <3>2. DOMAIN ws'.targets \subseteq Target
      BY <2>7 DEF RemoteStore, Partial
    <3>3. \A i \in DOMAIN requests : requests[i].target \in {t} /\ requests[i].version <= now
      BY <2>1, <2>2, <2>3
    <3>4. \A i \in DOMAIN requests : requests[i].kind = "watch" =>
            disk.content[requests[i].target]
              >= Latest(history, requests[i].target, requests[i].version)
      BY <2>2, <2>3
    <3>5. \A x \in {t} : count(requests, x, {"watch", "unwatch"}) = 1
      BY <2>3
    <3>6. \A x \in Target : stateOf(ws', x).outstanding =
            IF x \in {t} THEN stateOf(ws, x).outstanding + 1 ELSE stateOf(ws, x).outstanding
      <4>1. \A x : stateOf(r, x) = stateOf(ws, x) /\ stateOf(ws', x) = stateOf(s, x)
        BY <1>5, <2>7 DEF stateOf
      <4>. QED
        BY <2>5, <4>1
    <3>7. /\ ws'.up = ws.up \o requests /\ ws'.down = ws.down /\ ws'.updates = ws.updates
          /\ ws'.srv = ws.srv /\ {t} \in SUBSET Target /\ disk'.content = disk.content
          /\ UNCHANGED <<history, denied>>
      BY <1>1, <1>3, <1>5, <2>5, <2>7
    <3>. QED
      BY <2>3, <2>7, <3>1, <3>2, <3>3, <3>4, <3>5, <3>6, <3>7, SentKeeps
  <2>. QED
    BY <1>7, <1>8, <2>7, <2>8, <2>9, TimersAtNext DEF IInv
<1>. QED
  BY <1>9, <1>10, <1>11

(* When the stream opens, each target is asked for once.                   *)
LEMMA CredentialsArriveKeeps == IInv /\ CredentialsArrive => IInv'
PROOF
<1>. SUFFICES ASSUME IInv, CredentialsArrive PROVE IInv'
  OBVIOUS
<1>. DEFINE S == DOMAIN ws.targets
            r == [ws EXCEPT !.stream = OnStreamStart(ws.stream)]
<1>1. /\ ws.stream.token /\ \E ts \in SetToSeqs(S) : ws' = SendWatchRequest(r, ts)
      /\ UNCHANGED <<disk, history, denied, listens, faults, restarts>>
  BY DEF CredentialsArrive, bounds
<1>2. PICK ts \in SetToSeqs(S) : ws' = SendWatchRequest(r, ts)
  BY <1>1
<1>3. S \subseteq Target /\ IsFiniteSet(S)
  <2>1. S \subseteq Target
    BY IInvIs DEF Partial
  <2>. QED
    BY <2>1, FS_Subset, WatchAssumption
<1>4. /\ ts \in Seq(S) /\ Range(ts) = S
      /\ \A i, j \in DOMAIN ts : ts[i] = ts[j] => i = j
  BY <1>3, SetToSeqsMembers
<1>. DEFINE token(t) == ws.targets[t].token
            requests == [i \in DOMAIN ts |-> watch(ts[i], token(ts[i]))]
<1>5. /\ DOMAIN r = Fields /\ r.stream = OnStreamStart(ws.stream) /\ r.targets = ws.targets
      /\ r.agg = ws.agg /\ r.updates = ws.updates /\ r.online = ws.online /\ r.timer = ws.timer
      /\ r.failures = ws.failures /\ r.up = ws.up /\ r.down = ws.down /\ r.srv = ws.srv
  BY IInvIs DEF RemoteStore, Fields
<1>6. ws' = sent(r, S, requests)
  BY <1>2, <1>4, <1>5 DEF SendWatchRequest
<1>. HIDE DEF r
<1>7. /\ Matches(r.stream) /\ IsOpen(r.stream) /\ IsStarted(r.stream) /\ RemoteStore(r)
  <2>1. Matches(r.stream) /\ IsOpen(r.stream) /\ IsStarted(r.stream)
    BY <1>1, <1>5, IInvIs, OnStreamStartMatches
  <2>. QED
    BY <1>5, <2>1, IInvIs DEF RemoteStore, Matches
<1>8. \A t \in S : /\ token(t) \in Version /\ token(t) <= now
                   /\ disk.content[t] >= Latest(history, t, token(t))
  <2>1. \A t \in S : ws.targets[t] \in View
    BY IInvIs DEF Partial
  <2>. QED
    BY <2>1, IInvIs DEF View, TokensAreHonest
<1>9. /\ requests \in Seq(Request) /\ DOMAIN requests = DOMAIN ts
      /\ \A i \in DOMAIN ts : /\ requests[i].kind = "watch" /\ requests[i].target = ts[i]
                              /\ requests[i].version = token(ts[i])
                              /\ ts[i] \in S
  <2>. HIDE DEF token
  <2>1. \A i \in DOMAIN ts : ts[i] \in S
    BY <1>4
  <2>2. \A t \in S : /\ watch(t, token(t)) \in Request /\ watch(t, token(t)).kind = "watch"
                     /\ watch(t, token(t)).target = t /\ watch(t, token(t)).version = token(t)
    BY <1>3, <1>8 DEF watch, Request
  <2>3. Len(ts) \in Nat /\ DOMAIN ts = 1..Len(ts)
    BY <1>4
  <2>4. requests \in [1..Len(ts) -> Request]
    BY <2>1, <2>2, <2>3
  <2>5. requests \in Seq(Request)
    <3>. HIDE DEF requests
    <3>. QED
      BY <2>3, <2>4
  <2>. QED
    BY <2>1, <2>2, <2>5
<1>10. \A t \in S : count(requests, t, {"watch", "unwatch"}) = 1
  <2>. HIDE DEF requests, token
  <2>. TAKE t \in S
  <2>1. PICK i \in DOMAIN ts : ts[i] = t
    BY <1>4 DEF Range
  <2>2. Places(requests, t, {"watch", "unwatch"}) = {i}
    BY <1>4, <1>9, <2>1 DEF Places
  <2>. QED
    BY <2>2, FS_Singleton, CountIsPlaces
<1>. HIDE DEF requests
<1>11. /\ RemoteStore(ws') /\ ws'.up = r.up \o requests
       /\ ws'.targets = r.targets /\ ws'.updates = r.updates /\ ws'.down = r.down
       /\ ws'.srv = r.srv /\ ws'.online = r.online /\ ws'.timer = r.timer
       /\ ws'.failures = r.failures
       /\ Matches(ws'.stream) /\ ~ws'.stream.idle
       /\ (IsStarted(ws'.stream) <=> IsStarted(r.stream))
       /\ (IsOpen(ws'.stream) <=> IsOpen(r.stream))
       /\ \A t \in Target : stateOf(ws', t).outstanding =
            IF t \in S THEN stateOf(r, t).outstanding + 1 ELSE stateOf(r, t).outstanding
  <2>1. IsSent(ws', r, S, requests)
    BY <1>3, <1>6, <1>7, <1>9, SentIs
  <2>. QED
    BY <2>1 DEF IsSent
<1>12. IsOpen(ws'.stream) /\ IsStarted(ws'.stream)
  BY <1>7, <1>11 DEF IsOpen, IsStarted
<1>13. Types'
  BY <1>1, <1>11, IInvIs DEF Types, now
<1>14. TimersHold'
  BY <1>5, <1>11, <1>12, IInvIs, TimersAtNext DEF TimersAt, OnlineMatches
<1>15. TokensAreHonest'
  BY <1>1, <1>5, <1>11, IInvIs, TokensKeep
<1>16. Wire'
  <2>. HIDE DEF S, token
  <2>1. \A t \in Target : stateOf(ws', t).outstanding =
          IF t \in S THEN stateOf(ws, t).outstanding + 1 ELSE stateOf(ws, t).outstanding
    <3>1. \A t : stateOf(r, t) = stateOf(ws, t)
      BY <1>5 DEF stateOf
    <3>. QED
      BY <1>11, <3>1
  <2>2. \A i \in DOMAIN requests : requests[i].target \in S /\ requests[i].version <= now
    BY <1>8, <1>9
  <2>3. \A i \in DOMAIN requests : requests[i].kind = "watch" =>
          disk.content[requests[i].target]
            >= Latest(history, requests[i].target, requests[i].version)
    BY <1>8, <1>9
  <2>4. \A t \in DOMAIN ws'.targets :
          \/ t \in S /\ \A i \in DOMAIN requests :
                          requests[i].target = t => requests[i].kind = "watch"
          \/ t \notin S /\ t \in DOMAIN ws.targets /\ IsOpen(ws.stream)
    BY <1>5, <1>9, <1>11 DEF S
  <2>5. DOMAIN ws'.targets \subseteq Target
    BY <1>3, <1>5, <1>11 DEF S
  <2>6. /\ ws'.up = ws.up \o requests /\ ws'.down = ws.down /\ ws'.updates = ws.updates
        /\ ws'.srv = ws.srv /\ S \in SUBSET Target /\ disk'.content = disk.content
        /\ UNCHANGED <<history, denied>>
    BY <1>1, <1>3, <1>5, <1>11
  <2>. QED
    BY <1>9, <1>10, <1>12, <2>1, <2>2, <2>3, <2>4, <2>5, <2>6, SentKeeps
<1>. QED
  BY <1>13, <1>14, <1>15, <1>16 DEF IInv

-----------------------------------------------------------------------------
(* What the client does with a message.                                    *)

(* r is RemoteStore with the first message taken. *)
Received(r) ==
  /\ RemoteStore(r)
  /\ r.down = Tail(ws.down) /\ r.up = ws.up /\ r.srv = ws.srv /\ r.stream = ws.stream
  /\ r.online = "Online" /\ ~r.timer /\ r.failures = 0
  /\ DOMAIN r.targets \subseteq DOMAIN ws.targets

LEMMA InformedIs ==
  ASSUME IInv, ws.down # <<>>
  PROVE  /\ Received(informed) /\ SameTokens(ws, informed)
         /\ informed.agg = ws.agg /\ informed.updates = ws.updates
         /\ \A t : stateOf(informed, t) = stateOf(ws, t)
PROOF
<1>. DEFINE r == [ws EXCEPT !.down = Tail(ws.down)]
<1>1. /\ DOMAIN r = Fields /\ r.down = Tail(ws.down) /\ r.up = ws.up /\ r.srv = ws.srv
      /\ r.stream = ws.stream /\ r.targets = ws.targets /\ r.agg = ws.agg
      /\ r.updates = ws.updates /\ r.online = ws.online /\ r.timer = ws.timer
      /\ r.failures = ws.failures
  BY IInvIs DEF RemoteStore, Fields
<1>2. informed = UpdateState(r, "Online")
  BY DEF informed
<1>. HIDE DEF r
<1>3. Tail(ws.down) \in Seq(Change)
  BY IInvIs, TailPositions DEF RemoteStore
<1>4. RemoteStore(r)
  BY <1>1, <1>3, IInvIs DEF RemoteStore
<1>. DEFINE s == UpdateState(r, "Online")
<1>5. /\ RemoteStore(s) /\ s.online = "Online" /\ SameTokens(r, s) /\ SameWire(r, s)
      /\ s.stream = r.stream /\ ~s.timer /\ s.failures = 0
  BY <1>4, UpdateStateIs DEF OnlineState
<1>. HIDE DEF s
<1>6. /\ Received(s) /\ SameTokens(ws, s) /\ s.agg = ws.agg /\ s.updates = ws.updates
  BY <1>1, <1>5 DEF Received, SameTokens, SameWire
<1>7. \A t : stateOf(s, t) = stateOf(ws, t)
  BY <1>6 DEF stateOf
<1>. QED
  BY <1>2, <1>6, <1>7 DEF s

(* Of the first message. *)
LEMMA MessageIs ==
  ASSUME IInv, ws.down # <<>>
  PROVE  /\ message \in Change /\ message.target \in Target
         /\ message.version \in Version /\ message.version \in Nat /\ message.version <= now
         /\ message.kind = "failed" => message.target \in denied
         /\ message.kind \notin {"failed", "snapshot"} => message.target \notin denied
         /\ IsOpen(ws.stream)
PROOF
<1>1. ws.down \in Seq(Change) /\ Wire
  BY IInvIs DEF RemoteStore
<1>2. message = ws.down[1] /\ message \in Change /\ 1 \in DOMAIN ws.down
  BY <1>1, TailPositions DEF message
<1>3. /\ message.version <= now
      /\ message.kind = "failed" => message.target \in denied
      /\ message.kind \notin {"failed", "snapshot"} => message.target \notin denied
  BY <1>1, <1>2 DEF Wire, VersionsAreKnown, RefusalsAreFinal
<1>4. IsOpen(ws.stream)
  BY <1>1 DEF Wire, ClosedIsQuiet, Quiet
<1>. QED
  BY <1>2, <1>3, <1>4, ChangeShape

(* A response that is on its way is expected. *)
LEMMA ResponseIsExpected ==
  ASSUME IInv, ws.down # <<>>, message.kind \in {"added", "removed"}
  PROVE  stateOf(ws, message.target).outstanding - 1 \in Nat
PROOF
<1>. DEFINE t == message.target
            kinds == {"added", "removed"}
<1>1. t \in Target \ denied /\ ws.up \in Seq(Request) /\ ws.down \in Seq(Change)
  BY MessageIs, IInvIs DEF RemoteStore
<1>2. count(ws.down, t, kinds) = count(Tail(ws.down), t, kinds) + 1
  <2>1. count(ws.down, t, kinds) = count(Tail(ws.down), t, kinds) +
          (IF Head(ws.down).target = t /\ Head(ws.down).kind \in kinds THEN 1 ELSE 0)
    BY <1>1, CountTail
  <2>. QED
    BY <2>1 DEF message
<1>3. count(Tail(ws.down), t, kinds) \in Nat /\ count(ws.up, t, {"watch", "unwatch"}) \in Nat
  <2>1. Tail(ws.down) \in Seq(Change)
    BY <1>1, TailPositions
  <2>. QED
    BY <1>1, <2>1, CountType
<1>4. stateOf(ws, t).outstanding = count(ws.up, t, {"watch", "unwatch"}) + count(ws.down, t, kinds)
  BY <1>1 DEF IInv, Wire, OutstandingIsExact
<1>. QED
  BY <1>2, <1>3, <1>4

(* Whatever the message says, the stream and the timers are as before. *)
LEMMA ReceivedMatches ==
  ASSUME IInv, ws.down # <<>>, Received(ws'), disk' \in Disk, UNCHANGED <<history, denied, bounds>>
  PROVE  TimersHold' /\ Types'
PROOF
<1>1. /\ RemoteStore(ws') /\ ws'.stream = ws.stream /\ ws'.online = "Online" /\ ~ws'.timer
      /\ ws'.failures = 0 /\ DOMAIN ws'.targets \subseteq DOMAIN ws.targets
  BY DEF Received
<1>2. ws.targets = empty => ws'.targets = empty
  BY <1>1, IInvIs, EmptyIsPartial DEF RemoteStore
<1>3. IsStarted(ws.stream)
  BY MessageIs DEF IsOpen, IsStarted
<1>4. TimersAt(ws')
  BY <1>1, <1>2, <1>3, IInvIs DEF TimersAt, OnlineMatches
<1>. QED
  BY <1>1, <1>4, IInvIs, TimersAtNext DEF Types, now, bounds

(* s is r, but that n responses are outstanding of t. *)
StateChanges(s, r, t, n) ==
  /\ Received(s) /\ s.targets = r.targets /\ s.updates = r.updates
  /\ stateOf(s, t).outstanding = n
  /\ \A u : u # t => stateOf(s, u) = stateOf(r, u)

LEMMA WithStateIs ==
  ASSUME NEW r, Received(r), NEW t, t \in Target, NEW x, x \in TargetState,
         NEW s, s = [r EXCEPT !.agg = with(r.agg, t, x)]
  PROVE  StateChanges(s, r, t, x.outstanding)
PROOF
<1>1. RemoteStore(r) /\ Partial(r.agg, TargetState)
  BY DEF Received, RemoteStore
<1>. DEFINE f == with(r.agg, t, x)
<1>2. /\ Partial(f, TargetState) /\ DOMAIN f = DOMAIN r.agg \cup {t} /\ f[t] = x
      /\ \A u \in DOMAIN r.agg : u # t => f[u] = r.agg[u]
  BY <1>1 DEF with, Partial
<1>. HIDE DEF f
<1>3. /\ DOMAIN s = Fields /\ s.agg = f /\ s.targets = r.targets /\ s.updates = r.updates
      /\ s.up = r.up /\ s.down = r.down /\ s.srv = r.srv /\ s.stream = r.stream
      /\ s.online = r.online /\ s.timer = r.timer /\ s.failures = r.failures
  BY <1>1 DEF RemoteStore, Fields, f
<1>4. Received(s)
  <2>1. RemoteStore(s)
    BY <1>1, <1>2, <1>3 DEF RemoteStore
  <2>. QED
    BY <1>3, <2>1 DEF Received
<1>5. /\ stateOf(s, t).outstanding = x.outstanding
      /\ \A u : u # t => stateOf(s, u) = stateOf(r, u)
  BY <1>2, <1>3 DEF stateOf
<1>. QED
  BY <1>3, <1>4, <1>5 DEF StateChanges

LEMMA WithoutStateIs ==
  ASSUME NEW r, Received(r), NEW t, NEW s, s = [r EXCEPT !.agg = without(r.agg, t)]
  PROVE  StateChanges(s, r, t, 0)
PROOF
<1>1. RemoteStore(r) /\ Partial(r.agg, TargetState)
  BY DEF Received, RemoteStore
<1>. DEFINE f == without(r.agg, t)
<1>2. /\ Partial(f, TargetState) /\ DOMAIN f = DOMAIN r.agg \ {t}
      /\ \A u \in DOMAIN r.agg : u # t => f[u] = r.agg[u]
  BY <1>1 DEF without, Partial, Restrict
<1>. HIDE DEF f
<1>3. /\ DOMAIN s = Fields /\ s.agg = f /\ s.targets = r.targets /\ s.updates = r.updates
      /\ s.up = r.up /\ s.down = r.down /\ s.srv = r.srv /\ s.stream = r.stream
      /\ s.online = r.online /\ s.timer = r.timer /\ s.failures = r.failures
  BY <1>1 DEF RemoteStore, Fields, f
<1>4. Received(s)
  <2>1. RemoteStore(s)
    BY <1>1, <1>2, <1>3 DEF RemoteStore
  <2>. QED
    BY <1>3, <2>1 DEF Received
<1>5. /\ stateOf(s, t).outstanding = 0
      /\ \A u : u # t => stateOf(s, u) = stateOf(r, u)
  BY <1>2, <1>3 DEF stateOf, newTargetState
<1>. QED
  BY <1>3, <1>4, <1>5 DEF StateChanges

(* What the message changes is the state of its target alone. *)
LEMMA StateChangeKeeps ==
  ASSUME IInv, ws.down # <<>>, message.kind \in {"added", "removed", "current"}, NEW n,
         n = stateOf(ws, message.target).outstanding - IF message.kind = "current" THEN 0 ELSE 1,
         StateChanges(ws', informed, message.target, n),
         UNCHANGED <<disk, history, denied, bounds>>
  PROVE  IInv'
PROOF
<1>. DEFINE t == message.target
<1>1. t \notin denied
  BY MessageIs
<1>2. /\ Received(informed) /\ SameTokens(ws, informed)
      /\ informed.updates = ws.updates /\ \A u : stateOf(informed, u) = stateOf(ws, u)
  BY InformedIs
<1>3. /\ Received(ws') /\ ws'.targets = informed.targets /\ ws'.updates = ws.updates
      /\ stateOf(ws', t).outstanding = n
      /\ \A u : u # t => stateOf(ws', u) = stateOf(ws, u)
  BY <1>2 DEF StateChanges
<1>4. disk' \in Disk
  BY IInvIs DEF Types
<1>5. TimersHold' /\ Types'
  BY <1>3, <1>4, ReceivedMatches
<1>6. TokensAreHonest'
  BY <1>2, <1>3, IInvIs, TokensKeep DEF SameTokens
<1>7. Wire'
  <2>1. /\ ws'.down = Tail(ws.down) /\ ws'.up = ws.up /\ ws'.srv = ws.srv
        /\ ws'.stream = ws.stream /\ DOMAIN ws'.targets \subseteq DOMAIN ws.targets
    BY <1>3 DEF Received
  <2>2. \A u \in Target : disk'.content[u] >= disk.content[u]
    BY IInvIs DEF Types, Disk, Version
  <2>3. \A u : ~isDocument(Head(ws.down), u)
    BY DEF isDocument, message
  <2>4. \A u \in Target \ denied : stateOf(ws', u).outstanding =
          stateOf(ws, u).outstanding - IF isResponse(Head(ws.down), u) THEN 1 ELSE 0
    <3>. SUFFICES ASSUME NEW u \in Target \ denied
                  PROVE  stateOf(ws', u).outstanding =
                           stateOf(ws, u).outstanding - IF isResponse(Head(ws.down), u) THEN 1 ELSE 0
      OBVIOUS
    <3>1. stateOf(ws, u).outstanding \in Nat
      BY IInvIs, StateOfType DEF RemoteStore
    <3>2. isResponse(Head(ws.down), u) <=> u = t /\ message.kind # "current"
      BY DEF isResponse, message
    <3>. HIDE DEF t
    <3>3. n = stateOf(ws, t).outstanding - IF message.kind = "current" THEN 0 ELSE 1
      BY DEF t
    <3>. QED
      BY <1>3, <3>1, <3>2, <3>3
  <2>5. \A u \in denied \cap DOMAIN ws'.targets :
          stateOf(ws', u).outstanding = stateOf(ws, u).outstanding
    BY <1>1, <1>3
  <2>. QED
    BY <1>3, <1>5, <2>1, <2>2, <2>3, <2>4, <2>5, ReceiveKeeps
<1>. QED
  BY <1>5, <1>6, <1>7 DEF IInv

LEMMA OnTargetChangeKeeps == IInv /\ OnTargetChange => IInv'
PROOF
<1>. SUFFICES ASSUME IInv, OnTargetChange PROVE IInv'
  OBVIOUS
<1>. DEFINE t == message.target
            r == informed
            s == stateOf(r, t)
            n == s.outstanding
<1>1. ws.down # <<>> /\ UNCHANGED <<disk, history, denied, bounds>>
  BY DEF OnTargetChange, received
<1>2. /\ Received(r) /\ t \in Target /\ s = stateOf(ws, t)
      /\ s \in TargetState /\ n \in Nat
  <2>1. Received(r) /\ t \in Target /\ s = stateOf(ws, t)
    BY <1>1, InformedIs, MessageIs
  <2>. QED
    BY <2>1, IInvIs, StateOfType DEF RemoteStore
<1>. HIDE DEF r, t
<1>3. CASE message.kind = "added" /\ ws' = TargetAdded(r, t)
  <2>. DEFINE x == [s EXCEPT !.outstanding = n - 1]
              y == IF x.outstanding = 0 THEN [x EXCEPT !.changed = FALSE] ELSE x
  <2>1. n - 1 \in Nat
    BY <1>1, <1>2, <1>3, ResponseIsExpected DEF t
  <2>2. x \in TargetState /\ x.outstanding = n - 1
    BY <1>2, <2>1, TargetStateChanges
  <2>3. y \in TargetState /\ y.outstanding = n - 1
    <3>. HIDE DEF x
    <3>. QED
      BY <2>1, <2>2, TargetStateChanges
  <2>4. ws' = [r EXCEPT !.agg = with(r.agg, t, y)]
    BY <1>3 DEF TargetAdded
  <2>. HIDE DEF x, y
  <2>5. StateChanges(ws', r, t, n - 1)
    BY <1>2, <2>3, <2>4, WithStateIs
  <2>. QED
    BY <1>1, <1>2, <1>3, <2>5, StateChangeKeeps DEF r, t
<1>4. CASE message.kind = "removed" /\ ws' = TargetRemoved(r, t)
  <2>. DEFINE x == [s EXCEPT !.outstanding = n - 1]
  <2>1. n - 1 \in Nat
    BY <1>1, <1>2, <1>4, ResponseIsExpected DEF t
  <2>2. x \in TargetState /\ x.outstanding = n - 1
    BY <1>2, <2>1, TargetStateChanges
  <2>3. ws' = [r EXCEPT !.agg = IF x.outstanding = 0 THEN without(r.agg, t) ELSE with(r.agg, t, x)]
    BY <1>4 DEF TargetRemoved
  <2>. HIDE DEF x
  <2>4. StateChanges(ws', r, t, n - 1)
    <3>1. CASE n - 1 = 0
      <4>1. ws' = [r EXCEPT !.agg = without(r.agg, t)]
        BY <2>2, <2>3, <3>1
      <4>2. StateChanges(ws', r, t, 0)
        BY <1>2, <4>1, WithoutStateIs
      <4>. QED
        BY <3>1, <4>2
    <3>2. CASE n - 1 # 0
      <4>1. ws' = [r EXCEPT !.agg = with(r.agg, t, x)]
        BY <2>2, <2>3, <3>2
      <4>. QED
        BY <1>2, <2>2, <4>1, WithStateIs
    <3>. QED
      BY <3>1, <3>2
  <2>. QED
    BY <1>1, <1>2, <1>4, <2>4, StateChangeKeeps DEF r, t
<1>5. CASE message.kind = "current" /\ ws' = TargetCurrent(r, t)
  <2>. DEFINE x == [s EXCEPT !.current = TRUE]
  <2>1. x \in TargetState /\ x.outstanding = n
    BY <1>2, TargetStateChanges
  <2>2. ws' = IF IsActiveTarget(r, t) THEN [r EXCEPT !.agg = with(r.agg, t, x)] ELSE r
    BY <1>5 DEF TargetCurrent
  <2>. HIDE DEF x
  <2>3. StateChanges(ws', r, t, n)
    <3>1. CASE IsActiveTarget(r, t)
      BY <1>2, <2>1, <2>2, <3>1, WithStateIs
    <3>2. CASE ~IsActiveTarget(r, t)
      BY <1>2, <2>2, <3>2 DEF StateChanges
    <3>. QED
      BY <3>1, <3>2
  <2>4. n = stateOf(ws, t).outstanding - IF message.kind = "current" THEN 0 ELSE 1
    BY <1>2, <1>5
  <2>. QED
    BY <1>1, <1>5, <2>3, <2>4, StateChangeKeeps DEF r, t
<1>. QED
  BY <1>3, <1>4, <1>5 DEF OnTargetChange, received, message, r, t

LEMMA OnDocumentChangeKeeps == IInv /\ OnDocumentChange => IInv'
PROOF
<1>. SUFFICES ASSUME IInv, OnDocumentChange PROVE IInv'
  OBVIOUS
<1>. DEFINE t == message.target
            v == message.version
            r == informed
<1>1. /\ ws.down # <<>> /\ message.kind = "document" /\ ws' = HandleDocumentChange(r, t, v)
      /\ UNCHANGED <<disk, history, denied, bounds>>
  BY DEF OnDocumentChange, received, message
<1>2. /\ t \in Target \ denied /\ v \in Version
      /\ Received(r) /\ SameTokens(ws, r)
      /\ r.updates = ws.updates /\ \A u : stateOf(r, u) = stateOf(ws, u)
  BY <1>1, InformedIs, MessageIs
<1>3. /\ \A u : isDocument(Head(ws.down), u) <=> u = t
      /\ \A u : ~isResponse(Head(ws.down), u)
      /\ Head(ws.down).version = v
  BY <1>1 DEF isDocument, isResponse, message
<1>. HIDE DEF r, t, v
<1>4. /\ Received(ws') /\ ws'.targets = r.targets
      /\ IF IsActiveTarget(r, t)
         THEN /\ DOMAIN ws'.updates = DOMAIN ws.updates \cup {t} /\ ws'.updates[t] = v
              /\ \A u \in DOMAIN ws.updates : u # t => ws'.updates[u] = ws.updates[u]
         ELSE ws'.updates = ws.updates
      /\ \A u : stateOf(ws', u).outstanding = stateOf(ws, u).outstanding
  <2>1. CASE ~IsActiveTarget(r, t)
    BY <1>1, <1>2, <2>1 DEF HandleDocumentChange
  <2>2. CASE IsActiveTarget(r, t)
    <3>. DEFINE x == [stateOf(r, t) EXCEPT !.changed = TRUE]
                q == [r EXCEPT !.agg = with(r.agg, t, x)]
                f == with(r.updates, t, v)
    <3>1. x \in TargetState /\ x.outstanding = stateOf(ws, t).outstanding
      <4>1. stateOf(r, t) \in TargetState
        BY <1>2, StateOfType DEF Received, RemoteStore
      <4>. QED
        BY <1>2, <4>1, TargetStateChanges
    <3>. HIDE DEF x
    <3>2. StateChanges(q, r, t, x.outstanding)
      BY <1>2, <3>1, WithStateIs
    <3>3. ws' = [q EXCEPT !.updates = f]
      BY <1>1, <2>2 DEF HandleDocumentChange, x
    <3>. HIDE DEF q
    <3>4. /\ Received(q) /\ q.targets = r.targets
          /\ \A u : stateOf(q, u).outstanding = stateOf(ws, u).outstanding
      BY <1>2, <3>1, <3>2 DEF StateChanges
    <3>5. /\ Partial(f, Version) /\ DOMAIN f = DOMAIN ws.updates \cup {t} /\ f[t] = v
          /\ \A u \in DOMAIN ws.updates : u # t => f[u] = ws.updates[u]
      BY <1>2 DEF Received, RemoteStore, with, Partial
    <3>. HIDE DEF f
    <3>6. /\ DOMAIN ws' = Fields /\ ws'.updates = f /\ ws'.targets = q.targets /\ ws'.agg = q.agg
          /\ ws'.up = q.up /\ ws'.down = q.down /\ ws'.srv = q.srv /\ ws'.stream = q.stream
          /\ ws'.online = q.online /\ ws'.timer = q.timer /\ ws'.failures = q.failures
      BY <3>3, <3>4 DEF Received, RemoteStore, Fields
    <3>7. Received(ws')
      <4>1. RemoteStore(ws')
        BY <3>4, <3>5, <3>6 DEF Received, RemoteStore
      <4>. QED
        BY <3>4, <3>6, <4>1 DEF Received
    <3>8. \A u : stateOf(ws', u) = stateOf(q, u)
      BY <3>6 DEF stateOf
    <3>. QED
      BY <2>2, <3>4, <3>5, <3>6, <3>7, <3>8
  <2>. QED
    BY <2>1, <2>2
<1>5. disk' \in Disk
  BY <1>1, IInvIs DEF Types
<1>6. TimersHold' /\ Types'
  BY <1>1, <1>4, <1>5, ReceivedMatches
<1>7. TokensAreHonest'
  BY <1>1, <1>2, <1>4, IInvIs, TokensKeep DEF SameTokens
<1>8. Wire'
  <2>1. /\ ws'.down = Tail(ws.down) /\ ws'.up = ws.up /\ ws'.srv = ws.srv
        /\ ws'.stream = ws.stream /\ DOMAIN ws'.targets \subseteq DOMAIN ws.targets
    BY <1>4 DEF Received
  <2>2. \A u \in Target : disk'.content[u] >= disk.content[u]
    BY <1>1, IInvIs DEF Types, Disk, Version
  <2>3. \A u \in DOMAIN ws'.updates :
          \/ u \in DOMAIN ws.updates /\ ws'.updates[u] = ws.updates[u]
          \/ isDocument(Head(ws.down), u) /\ ws'.updates[u] = Head(ws.down).version
    BY <1>3, <1>4
  <2>4. \A u \in DOMAIN ws.updates : u \in DOMAIN ws'.updates
    BY <1>4
  <2>5. \A u \in DOMAIN ws.targets \ denied :
          isDocument(Head(ws.down), u) /\ stateOf(ws, u).outstanding = 0 =>
            u \in DOMAIN ws'.updates /\ ws'.updates[u] = Head(ws.down).version
    <3>1. DOMAIN r.targets = DOMAIN ws.targets
      BY <1>2 DEF SameTokens
    <3>. QED
      BY <1>2, <1>3, <1>4, <3>1 DEF IsActiveTarget
  <2>6. \A u \in Target \ denied : stateOf(ws', u).outstanding =
          stateOf(ws, u).outstanding - IF isResponse(Head(ws.down), u) THEN 1 ELSE 0
    <3>1. \A u : stateOf(ws, u).outstanding \in Nat
      BY IInvIs, StateOfType DEF RemoteStore
    <3>. QED
      BY <1>3, <1>4, <3>1
  <2>. QED
    BY <1>1, <1>4, <1>6, <2>1, <2>2, <2>3, <2>4, <2>5, <2>6, ReceiveKeeps
<1>. QED
  BY <1>6, <1>7, <1>8 DEF IInv

(* The message is for nobody, or too late. *)
LEMMA InformedKeeps ==
  ASSUME IInv, ws.down # <<>>, message.kind \in {"failed", "snapshot"}, ws' = informed,
         UNCHANGED <<disk, history, denied, bounds>>
  PROVE  IInv'
PROOF
<1>1. /\ Received(ws') /\ SameTokens(ws, ws') /\ ws'.updates = ws.updates
      /\ \A u : stateOf(ws', u) = stateOf(ws, u)
  BY InformedIs
<1>2. disk' \in Disk
  BY IInvIs DEF Types
<1>3. TimersHold' /\ Types'
  BY <1>1, <1>2, ReceivedMatches
<1>4. TokensAreHonest'
  BY <1>1, IInvIs, TokensKeep DEF SameTokens
<1>5. Wire'
  <2>1. /\ ws'.down = Tail(ws.down) /\ ws'.up = ws.up /\ ws'.srv = ws.srv
        /\ ws'.stream = ws.stream /\ DOMAIN ws'.targets \subseteq DOMAIN ws.targets
    BY <1>1 DEF Received
  <2>2. \A u \in Target : disk'.content[u] >= disk.content[u]
    BY IInvIs DEF Types, Disk, Version
  <2>3. \A u : ~isDocument(Head(ws.down), u) /\ ~isResponse(Head(ws.down), u)
    BY DEF isDocument, isResponse, message
  <2>4. \A u \in Target \ denied : stateOf(ws', u).outstanding =
          stateOf(ws, u).outstanding - IF isResponse(Head(ws.down), u) THEN 1 ELSE 0
    <3>1. \A u : stateOf(ws, u).outstanding \in Nat
      BY IInvIs, StateOfType DEF RemoteStore
    <3>. QED
      BY <1>1, <2>3, <3>1
  <2>. QED
    BY <1>1, <1>3, <2>1, <2>2, <2>3, <2>4, ReceiveKeeps
<1>. QED
  BY <1>3, <1>4, <1>5 DEF IInv

LEMMA OnTargetErrorKeeps == IInv /\ OnTargetError => IInv'
PROOF
<1>. SUFFICES ASSUME IInv, OnTargetError PROVE IInv'
  OBVIOUS
<1>. DEFINE t == message.target
            r == informed
<1>1. /\ ws.down # <<>> /\ message.kind = "failed" /\ UNCHANGED <<history, denied, bounds>>
      /\ IF t \in DOMAIN ws.targets
         THEN /\ ReleaseTarget(t)
              /\ ws' = [r EXCEPT !.targets = without(r.targets, t), !.agg = without(r.agg, t)]
         ELSE ws' = r /\ disk' = disk
  BY DEF OnTargetError, received, message
<1>2. CASE t \notin DOMAIN ws.targets
  BY <1>1, <1>2, InformedKeeps
<1>3. CASE t \in DOMAIN ws.targets
  <2>1. /\ t \in Target \cap denied
        /\ Received(r) /\ SameTokens(ws, r)
        /\ r.agg = ws.agg /\ r.updates = ws.updates /\ \A u : stateOf(r, u) = stateOf(ws, u)
    BY <1>1, InformedIs, MessageIs
  <2>. DEFINE token == ws.targets[t].token
              f == without(r.targets, t)
              q == [r EXCEPT !.agg = without(r.agg, t)]
  <2>2. token \in Version /\ token <= now /\ disk.content[t] >= Latest(history, t, token)
    <3>1. ws.targets[t] \in View
      BY <1>3, IInvIs DEF Partial
    <3>. QED
      BY <1>3, <3>1, IInvIs DEF View, TokensAreHonest
  <2>3. StateChanges(q, r, t, 0)
    BY <2>1, WithoutStateIs
  <2>4. ws' = [q EXCEPT !.targets = f]
    BY <1>1, <1>3
  <2>. HIDE DEF r, q
  <2>5. /\ Received(q) /\ q.targets = r.targets /\ q.updates = ws.updates
        /\ \A u : u # t => stateOf(q, u) = stateOf(ws, u)
    BY <2>1, <2>3 DEF StateChanges
  <2>6. /\ Partial(f, View) /\ DOMAIN f = DOMAIN ws.targets \ {t}
        /\ \A u \in DOMAIN f : f[u] = r.targets[u]
    BY <2>1 DEF Received, RemoteStore, SameTokens, without, Partial, Restrict
  <2>. HIDE DEF f
  <2>7. /\ DOMAIN ws' = Fields /\ ws'.updates = q.updates /\ ws'.targets = f /\ ws'.agg = q.agg
        /\ ws'.up = q.up /\ ws'.down = q.down /\ ws'.srv = q.srv /\ ws'.stream = q.stream
        /\ ws'.online = q.online /\ ws'.timer = q.timer /\ ws'.failures = q.failures
    BY <2>4, <2>5 DEF Received, RemoteStore, Fields
  <2>8. Received(ws')
    <3>1. RemoteStore(ws')
      BY <2>5, <2>6, <2>7 DEF Received, RemoteStore
    <3>. QED
      BY <2>5, <2>6, <2>7, <3>1 DEF Received
  <2>9. \A u : u # t => stateOf(ws', u) = stateOf(ws, u)
    <3>1. \A u : stateOf(ws', u) = stateOf(q, u)
      BY <2>7 DEF stateOf
    <3>. QED
      BY <2>5, <3>1
  <2>10. /\ disk' \in Disk /\ disk'.content = disk.content
         /\ \A u \in Target : disk'.token[u] = IF u = t THEN token ELSE disk.token[u]
    <3>. HIDE DEF token
    <3>1. disk' = [disk EXCEPT !.token[t] = token]
      BY <1>1, <1>3 DEF ReleaseTarget, token
    <3>2. disk \in Disk /\ t \in Target
      BY <2>1, IInvIs DEF Types
    <3>. HIDE DEF t
    <3>. QED
      BY <2>2, <3>1, <3>2 DEF Disk
  <2>11. TimersHold' /\ Types'
    BY <1>1, <2>8, <2>10, ReceivedMatches
  <2>12. TokensAreHonest'
    <3>1. now' = now /\ history' = history
      BY <1>1 DEF now
    <3>2. \A u \in Target : disk'.token[u] <= now /\ disk'.content[u] >= Latest(history, u, disk'.token[u])
      BY <2>2, <2>10, IInvIs DEF TokensAreHonest
    <3>3. \A u \in DOMAIN ws'.targets : u \in DOMAIN ws.targets /\ ws'.targets[u].token = ws.targets[u].token
      BY <2>1, <2>6, <2>7 DEF SameTokens
    <3>. QED
      BY <2>10, <3>1, <3>2, <3>3, IInvIs DEF TokensAreHonest
  <2>13. Wire'
    <3>1. /\ ws'.down = Tail(ws.down) /\ ws'.up = ws.up /\ ws'.srv = ws.srv
          /\ ws'.stream = ws.stream /\ DOMAIN ws'.targets \subseteq DOMAIN ws.targets
      BY <2>8 DEF Received
    <3>2. \A u \in Target : disk'.content[u] >= disk.content[u]
      BY <2>10, IInvIs DEF Types, Disk, Version
    <3>3. \A u : ~isDocument(Head(ws.down), u) /\ ~isResponse(Head(ws.down), u)
      BY <1>1 DEF isDocument, isResponse, message
    <3>4. \A u \in Target \ denied : stateOf(ws', u).outstanding =
            stateOf(ws, u).outstanding - IF isResponse(Head(ws.down), u) THEN 1 ELSE 0
      <4>1. \A u : stateOf(ws, u).outstanding \in Nat
        BY IInvIs, StateOfType DEF RemoteStore
      <4>. QED
        BY <2>1, <2>9, <3>3, <4>1
    <3>5. \A u \in denied \cap DOMAIN ws'.targets :
            stateOf(ws', u).outstanding = stateOf(ws, u).outstanding
      BY <2>6, <2>7, <2>9
    <3>6. ws'.updates = ws.updates
      BY <2>5, <2>7
    <3>. QED
      BY <1>1, <2>11, <3>1, <3>2, <3>3, <3>4, <3>5, <3>6, ReceiveKeeps
  <2>. QED
    BY <2>11, <2>12, <2>13 DEF IInv
<1>. QED
  BY <1>2, <1>3

(* What a snapshot stores is not older than what was stored, than what is  *)
(* pending, or, of a target that it is for, than what the token promises.  *)
LEMMA NewContentIs ==
  ASSUME IInv
  PROVE  \A t \in Target :
           /\ newContent(t) \in Version /\ newContent(t) >= disk.content[t]
           /\ t \in DOMAIN ws.updates => newContent(t) >= ws.updates[t]
PROOF
<1>. TAKE t \in Target
<1>1. disk.content[t] \in Version
  BY IInvIs DEF Types, Disk
<1>2. ASSUME t \in DOMAIN ws.updates
      PROVE  /\ newContent(t) \in Version /\ newContent(t) >= disk.content[t]
             /\ newContent(t) >= ws.updates[t]
  <2>1. ws.updates[t] \in Version
    BY <1>2, IInvIs DEF RemoteStore, Partial
  <2>. DEFINE S == {ws.updates[t], disk.content[t]}
  <2>2. S \in SUBSET Nat /\ S # {} /\ MaxVersion \in Nat /\ \A x \in S : x <= MaxVersion
    BY <1>1, <2>1, WatchAssumption DEF Version
  <2>3. Max(S) \in S /\ \A x \in S : x <= Max(S)
    BY <2>2, MaxIsGreatest
  <2>4. newContent(t) = Max(S)
    BY <1>2 DEF newContent
  <2>. QED
    BY <1>1, <2>1, <2>3, <2>4 DEF Version
<1>3. ASSUME t \notin DOMAIN ws.updates PROVE newContent(t) = disk.content[t]
  BY <1>3 DEF newContent
<1>. QED
  BY <1>1, <1>2, <1>3 DEF Version

LEMMA ChangedHaveAll ==
  ASSUME IInv, received("snapshot"), NEW t \in changed
  PROVE  /\ t \in Target \cap DOMAIN ws.targets
         /\ newContent(t) >= Latest(history, t, message.version)
PROOF
<1>1. /\ ws.down # <<>> /\ message.kind = "snapshot" /\ IsOpen(ws.stream)
      /\ message.version \in Nat
  <2>1. ws.down # <<>> /\ message.kind = "snapshot"
    BY DEF received, message
  <2>. QED
    BY <2>1, MessageIs
<1>2. t \in DOMAIN ws.targets /\ stateOf(ws, t).outstanding = 0 /\ t \in Target
  BY IInvIs DEF changed, IsActiveTarget, Partial
<1>3. t \notin denied
  BY <1>1, <1>2, IInvIs DEF Wire, RefusalsAreFinal
<1>4. Answered(ws, t, 1)
  BY <1>2, <1>3, ActiveIsAnswered
<1>5. 1 \in DOMAIN ws.down /\ ws.down[1] = message /\ DOMAIN ws.down = 1..Len(ws.down)
  <2>1. ws.down \in Seq(Change)
    BY IInvIs DEF RemoteStore
  <2>. QED
    BY <1>1, <2>1, TailPositions DEF message
<1>6. Has(ws, disk, history, t, message.version, 1)
  BY <1>1, <1>2, <1>3, <1>4, <1>5, IInvIs DEF Wire, SnapshotsAreHonest
<1>7. ~(\E j \in DOMAIN ws.down : j < 1)
  BY <1>5
<1>8. \/ disk.content[t] >= Latest(history, t, message.version)
      \/ t \in DOMAIN ws.updates /\ ws.updates[t] >= Latest(history, t, message.version)
  BY <1>6, <1>7 DEF Has
<1>9. /\ newContent(t) \in Nat /\ disk.content[t] \in Nat
      /\ Latest(history, t, message.version) \in Nat
      /\ t \in DOMAIN ws.updates => ws.updates[t] \in Nat
  <2>1. newContent(t) \in Version /\ disk.content[t] \in Version
    BY <1>2, NewContentIs, IInvIs DEF Types, Disk
  <2>2. t \in DOMAIN ws.updates => ws.updates[t] \in Version
    BY IInvIs DEF RemoteStore, Partial
  <2>. QED
    BY <1>1, <2>1, <2>2, LatestIs DEF Version
<1>10. /\ newContent(t) >= disk.content[t]
       /\ t \in DOMAIN ws.updates => newContent(t) >= ws.updates[t]
  BY <1>2, NewContentIs
<1>. QED
  BY <1>2, <1>8, <1>9, <1>10

LEMMA ViewMoves ==
  ASSUME NEW x, x \in View, NEW v, v \in Version, NEW c, c \in BOOLEAN
  PROVE  /\ [x EXCEPT !.token = v, !.current = c] \in View
         /\ [x EXCEPT !.token = v, !.current = c].token = v
         /\ [x EXCEPT !.raised = c] \in View
         /\ [x EXCEPT !.raised = c].token = x.token
BY DEF View

(* RemoteStore with a snapshot raised. *)
LEMMA RaisedIs ==
  ASSUME IInv, received("snapshot"), NEW aged, RaiseWatchSnapshot(message.version, aged)
  PROVE  /\ Received(ws') /\ ws'.updates = empty
         /\ \A t : stateOf(ws', t).outstanding = stateOf(ws, t).outstanding
         /\ \A t \in DOMAIN ws'.targets : ws'.targets[t].token =
              IF t \in changed THEN message.version ELSE ws.targets[t].token
PROOF
<1>. DEFINE v == message.version
            r == informed
            view(t) == IF t \in changed
                       THEN [ws.targets[t] EXCEPT !.token = v, !.current = ws.agg[t].current]
                       ELSE ws.targets[t]
            raised(t) == view(t).raised \/ firstEvent(view(t), newContent(t), "Online")
            f == [t \in DOMAIN r.targets |-> [view(t) EXCEPT !.raised = raised(t)]]
            g == [t \in DOMAIN r.agg |-> IF t \in changed THEN [r.agg[t] EXCEPT !.changed = FALSE]
                                         ELSE r.agg[t]]
<1>1. ws' = [r EXCEPT !.targets = f, !.agg = g, !.updates = empty]
  BY DEF RaiseWatchSnapshot
<1>2. /\ ws.down # <<>> /\ v \in Version
      /\ Received(r) /\ SameTokens(ws, r) /\ r.agg = ws.agg
  <2>1. ws.down # <<>>
    BY DEF received
  <2>. QED
    BY <2>1, InformedIs, MessageIs
<1>3. /\ DOMAIN r.targets = DOMAIN ws.targets /\ DOMAIN ws.targets \subseteq Target
      /\ \A t \in DOMAIN ws.targets : ws.targets[t] \in View
      /\ DOMAIN ws.agg \subseteq Target /\ \A t \in DOMAIN ws.agg : ws.agg[t] \in TargetState
  BY <1>2, IInvIs DEF SameTokens, Partial, RemoteStore
<1>. HIDE DEF r, v
<1>4. \A t \in DOMAIN ws.targets : /\ f[t] \in View
                                   /\ f[t].token = IF t \in changed THEN v ELSE ws.targets[t].token
  <2>. SUFFICES ASSUME NEW t \in DOMAIN ws.targets
                PROVE  /\ f[t] \in View
                       /\ f[t].token = IF t \in changed THEN v ELSE ws.targets[t].token
    OBVIOUS
  <2>1. t \in changed => ws.agg[t].current \in BOOLEAN
    BY <1>3 DEF changed, TargetState
  <2>2. /\ view(t) \in View
        /\ view(t).token = IF t \in changed THEN v ELSE ws.targets[t].token
    <3>1. CASE t \in changed
      <4>. DEFINE c == ws.agg[t].current
      <4>1. c \in BOOLEAN /\ ws.targets[t] \in View
        BY <1>3, <2>1, <3>1
      <4>2. view(t) = [ws.targets[t] EXCEPT !.token = v, !.current = c]
        BY <3>1
      <4>. HIDE DEF c, view
      <4>3. /\ [ws.targets[t] EXCEPT !.token = v, !.current = c] \in View
            /\ [ws.targets[t] EXCEPT !.token = v, !.current = c].token = v
        BY <1>2, <4>1 DEF View
      <4>. QED
        BY <3>1, <4>2, <4>3
    <3>2. CASE t \notin changed
      BY <1>3, <3>2
    <3>. QED
      BY <3>1, <3>2
  <2>3. f[t] = [view(t) EXCEPT !.raised = raised(t)]
    BY <1>3
  <2>4. raised(t) \in BOOLEAN
    OBVIOUS
  <2>. HIDE DEF view, raised, f
  <2>5. /\ [view(t) EXCEPT !.raised = raised(t)] \in View
        /\ [view(t) EXCEPT !.raised = raised(t)].token = view(t).token
    BY <1>2, <2>2, <2>4, ViewMoves
  <2>. QED
    BY <2>2, <2>3, <2>5, Zenon
<1>5. \A t \in DOMAIN ws.agg : g[t] \in TargetState /\ g[t].outstanding = ws.agg[t].outstanding
  <2>. TAKE t \in DOMAIN ws.agg
  <2>1. ws.agg[t] \in TargetState /\ FALSE \in BOOLEAN
    BY <1>3
  <2>2. /\ [ws.agg[t] EXCEPT !.changed = FALSE] \in TargetState
        /\ [ws.agg[t] EXCEPT !.changed = FALSE].outstanding = ws.agg[t].outstanding
    BY <2>1 DEF TargetState
  <2>3. g[t] = IF t \in changed THEN [ws.agg[t] EXCEPT !.changed = FALSE] ELSE ws.agg[t]
    BY <1>2
  <2>. HIDE DEF g
  <2>. QED
    BY <2>1, <2>2, <2>3
<1>6. DOMAIN f = DOMAIN ws.targets /\ DOMAIN g = DOMAIN ws.agg
  BY <1>2, <1>3
<1>7. Partial(f, View)
  <2>. HIDE DEF f, g
  <2>1. \A t \in DOMAIN f : f[t] \in View
    BY <1>4, <1>6
  <2>2. f \in [DOMAIN f -> View]
    <3>1. f = [t \in DOMAIN f |-> f[t]]
      BY DEF f
    <3>. QED
      BY <2>1, <3>1
  <2>. QED
    BY <1>3, <1>6, <2>2 DEF Partial
<1>8. Partial(g, TargetState)
  <2>. HIDE DEF f, g
  <2>1. \A t \in DOMAIN g : g[t] \in TargetState
    BY <1>5, <1>6
  <2>2. g \in [DOMAIN g -> TargetState]
    <3>1. g = [t \in DOMAIN g |-> g[t]]
      BY DEF g
    <3>. QED
      BY <2>1, <3>1
  <2>. QED
    BY <1>3, <1>6, <2>2 DEF Partial
<1>. HIDE DEF f, g
<1>9. /\ DOMAIN ws' = Fields /\ ws'.updates = empty /\ ws'.targets = f /\ ws'.agg = g
      /\ ws'.up = r.up /\ ws'.down = r.down /\ ws'.srv = r.srv /\ ws'.stream = r.stream
      /\ ws'.online = r.online /\ ws'.timer = r.timer /\ ws'.failures = r.failures
  BY <1>1, <1>2 DEF Received, RemoteStore, Fields
<1>10. Received(ws')
  <2>1. RemoteStore(ws')
    BY <1>2, <1>7, <1>8, <1>9, EmptyIsPartial DEF Received, RemoteStore
  <2>. QED
    BY <1>2, <1>6, <1>9, <2>1 DEF Received
<1>11. \A t : stateOf(ws', t).outstanding = stateOf(ws, t).outstanding
  BY <1>5, <1>6, <1>9 DEF stateOf
<1>. QED
  BY <1>4, <1>6, <1>9, <1>10, <1>11 DEF v

LEMMA OnSnapshotKeeps == IInv /\ OnSnapshot => IInv'
PROOF
<1>. SUFFICES ASSUME IInv, OnSnapshot PROVE IInv'
  OBVIOUS
<1>. DEFINE v == message.version
<1>1. /\ ws.down # <<>> /\ message.kind = "snapshot" /\ received("snapshot")
      /\ v \in Version /\ v <= now
      /\ UNCHANGED <<history, denied, bounds>>
  <2>1. /\ ws.down # <<>> /\ message.kind = "snapshot" /\ received("snapshot")
        /\ UNCHANGED <<history, denied, bounds>>
    BY DEF OnSnapshot, received, message
  <2>. QED
    BY <2>1, MessageIs
<1>2. CASE ~isNewSnapshot(v)
  BY <1>1, <1>2, InformedKeeps DEF OnSnapshot
<1>3. CASE isNewSnapshot(v)
  <2>1. PICK aged \in SUBSET changed : RaiseWatchSnapshot(v, aged)
    BY <1>3 DEF OnSnapshot
  <2>2. /\ Received(ws') /\ ws'.updates = empty
        /\ \A t : stateOf(ws', t).outstanding = stateOf(ws, t).outstanding
        /\ \A t \in DOMAIN ws'.targets : ws'.targets[t].token =
             IF t \in changed THEN v ELSE ws.targets[t].token
    BY <1>1, <2>1, RaisedIs
  <2>3. /\ DOMAIN ws'.targets \subseteq DOMAIN ws.targets /\ DOMAIN ws.targets \subseteq Target
    BY <2>2, IInvIs DEF Received, Partial
  <2>4. \A t \in Target : /\ newContent(t) \in Version /\ newContent(t) >= disk.content[t]
                          /\ t \in DOMAIN ws.updates => newContent(t) >= ws.updates[t]
    BY NewContentIs
  <2>5. \A t \in changed : newContent(t) >= Latest(history, t, v)
    BY <1>1, ChangedHaveAll
  <2>6. disk' = [content |-> [t \in Target |-> newContent(t)],
                 token |-> [t \in Target |-> IF t \in persisted(aged) THEN v ELSE disk.token[t]],
                 version |-> v]
    BY <2>1 DEF RaiseWatchSnapshot
  <2>7. /\ \A t \in Target : disk'.content[t] = newContent(t)
        /\ \A t \in Target : disk'.token[t] = IF t \in persisted(aged) THEN v ELSE disk.token[t]
        /\ persisted(aged) \subseteq changed
    BY <2>6 DEF persisted
  <2>8. disk' \in Disk
    <3>1. \A t \in Target : disk.token[t] \in Version
      BY IInvIs DEF Types, Disk
    <3>. HIDE DEF v
    <3>. QED
      BY <1>1, <2>4, <2>6, <3>1 DEF Disk
  <2>9. TimersHold' /\ Types'
    BY <1>1, <2>2, <2>8, ReceivedMatches
  <2>10. \A t \in Target, w \in Version :
           disk.content[t] >= Latest(history, t, w) => newContent(t) >= Latest(history, t, w)
    <3>. SUFFICES ASSUME NEW t \in Target, NEW w \in Version,
                         disk.content[t] >= Latest(history, t, w)
                  PROVE  newContent(t) >= Latest(history, t, w)
      OBVIOUS
    <3>1. disk.content[t] \in Nat /\ newContent(t) \in Nat /\ w \in Nat
      BY <2>4, IInvIs DEF Types, Disk, Version
    <3>2. Latest(history, t, w) \in Nat
      BY <3>1, LatestIs
    <3>. QED
      BY <2>4, <3>1, <3>2
  <2>11. TokensAreHonest'
    <3>1. now' = now /\ history' = history
      BY <1>1 DEF now
    <3>2. ASSUME NEW t \in Target
          PROVE  disk'.token[t] <= now /\ disk'.content[t] >= Latest(history, t, disk'.token[t])
      <4>1. disk.token[t] \in Version /\ disk.token[t] <= now
            /\ disk.content[t] >= Latest(history, t, disk.token[t])
        BY IInvIs DEF TokensAreHonest, Types, Disk
      <4>. QED
        BY <1>1, <2>5, <2>7, <2>10, <4>1
    <3>3. ASSUME NEW t \in DOMAIN ws'.targets
          PROVE  /\ ws'.targets[t].token <= now
                 /\ disk'.content[t] >= Latest(history, t, ws'.targets[t].token)
      <4>1. t \in Target /\ t \in DOMAIN ws.targets
        BY <2>3
      <4>2. ws.targets[t].token \in Version /\ ws.targets[t].token <= now
            /\ disk.content[t] >= Latest(history, t, ws.targets[t].token)
        BY <4>1, IInvIs DEF TokensAreHonest, Partial, View
      <4>. QED
        BY <1>1, <2>2, <2>5, <2>7, <2>10, <4>1, <4>2
    <3>. QED
      BY <3>1, <3>2, <3>3 DEF TokensAreHonest
  <2>12. Wire'
    <3>1. /\ ws'.down = Tail(ws.down) /\ ws'.up = ws.up /\ ws'.srv = ws.srv
          /\ ws'.stream = ws.stream
      BY <2>2 DEF Received
    <3>2. \A u \in Target : disk'.content[u] >= disk.content[u]
      BY <2>4, <2>7
    <3>3. \A u : ~isDocument(Head(ws.down), u) /\ ~isResponse(Head(ws.down), u)
      BY <1>1 DEF isDocument, isResponse, message
    <3>4. \A u \in Target \ denied : stateOf(ws', u).outstanding =
            stateOf(ws, u).outstanding - IF isResponse(Head(ws.down), u) THEN 1 ELSE 0
      <4>1. \A u : stateOf(ws, u).outstanding \in Nat
        BY IInvIs, StateOfType DEF RemoteStore
      <4>. QED
        BY <2>2, <3>3, <4>1
    <3>5. \A u \in denied \cap DOMAIN ws'.targets :
            stateOf(ws', u).outstanding = stateOf(ws, u).outstanding
      BY <2>2
    <3>6. DOMAIN ws'.updates = {}
      BY <2>2, EmptyIsPartial
    <3>7. \A u \in DOMAIN ws.updates : disk'.content[u] >= ws.updates[u]
      <4>1. DOMAIN ws.updates \subseteq Target
        BY IInvIs DEF RemoteStore, Partial
      <4>. QED
        BY <2>4, <2>7, <4>1
    <3>. QED
      BY <1>1, <2>3, <2>9, <3>1, <3>2, <3>3, <3>4, <3>5, <3>6, <3>7, ReceiveKeeps
  <2>. QED
    BY <2>9, <2>11, <2>12 DEF IInv
<1>. QED
  BY <1>2, <1>3

-----------------------------------------------------------------------------
(* The invariant.                                                          *)

LEMMA InitHolds == Init => IInv
PROOF
<1>. SUFFICES ASSUME Init PROVE IInv
  OBVIOUS
<1>1. /\ ws = noRemoteStore /\ denied \subseteq Target /\ listens = 0 /\ faults = 0 /\ restarts = 0
      /\ disk = [content |-> [t \in Target |-> 0], token |-> [t \in Target |-> 0], version |-> 0]
  BY DEF Init
<1>2. PICK t \in Target : history = <<t>>
  BY DEF Init
<1>3. /\ RemoteStore(ws) /\ TimersAt(ws) /\ Quiet(ws) /\ ~IsOpen(ws.stream)
      /\ DOMAIN ws.targets = {}
  BY <1>1, NewRemoteStoreIs
<1>4. history \in Seq(Target) /\ now = 1 /\ 0 \in Version /\ 1 \in Version
  <2>1. MaxVersion \in Nat /\ MaxVersion >= 1
    BY WatchAssumption
  <2>. QED
    BY <1>2, <2>1 DEF now, Version
<1>5. disk \in Disk
  BY <1>1, <1>4 DEF Disk
<1>6. Types
  <2>1. /\ listens \in 0..MaxListens /\ faults \in 0..MaxFaults /\ restarts \in 0..MaxRestarts
    BY <1>1, WatchAssumption
  <2>. QED
    BY <1>1, <1>3, <1>4, <1>5, <2>1 DEF Types
<1>7. TimersHold
  BY <1>3, TimersAtIsTimersHold
<1>8. TokensAreHonest
  <2>1. \A s : Latest(history, s, 0) = 0
    <3>. SUFFICES ASSUME NEW s PROVE Latest(history, s, 0) = 0
      OBVIOUS
    <3>1. Latest(history, s, 0) \in Nat /\ Latest(history, s, 0) <= 0
      BY LatestIs
    <3>. QED
      BY <3>1
  <2>2. \A s \in Target : disk.token[s] = 0 /\ disk.content[s] = 0
    BY <1>1
  <2>. QED
    BY <1>3, <1>4, <2>1, <2>2 DEF TokensAreHonest
<1>9. Wire
  <2>1. /\ ws.agg = empty /\ ws.updates = empty /\ ws.up = <<>> /\ ws.down = <<>>
        /\ DOMAIN ws.srv.sent = {} /\ DOMAIN ws.srv.owed = {} /\ ws.srv.version = 0
    BY <1>3, EmptyIsPartial DEF Quiet, noCall
  <2>2. DOMAIN ws.up = {} /\ DOMAIN ws.down = {} /\ DOMAIN ws.updates = {} /\ DOMAIN ws.agg = {}
    BY <2>1, EmptyIsPartial
  <2>3. OutstandingIsExact
    <3>. SUFFICES ASSUME NEW s \in Target
                  PROVE  stateOf(ws, s).outstanding =
                           count(ws.up, s, {"watch", "unwatch"})
                             + count(ws.down, s, {"added", "removed"})
      BY DEF OutstandingIsExact
    <3>1. <<>> \in Seq(Change) /\ DOMAIN <<>> = {}
      OBVIOUS
    <3>2. \A kinds : count(<<>>, s, kinds) = 0
      BY <3>1, CountType
    <3>3. stateOf(ws, s).outstanding = 0
      BY <2>2 DEF stateOf, newTargetState
    <3>. QED
      BY <2>1, <3>2, <3>3
  <2>4. ClosedIsQuiet /\ RefusalsAreFinal /\ TargetsAreAskedFor
    BY <1>3, <2>1, <2>2 DEF ClosedIsQuiet, RefusalsAreFinal, TargetsAreAskedFor
  <2>5. VersionsAreKnown /\ DocumentsGrow /\ CallGrows
    BY <1>4, <2>1, <2>2 DEF VersionsAreKnown, DocumentsGrow, CallGrows
  <2>6. RequestsAreHonest /\ SnapshotsAreHonest /\ BackendIsHonest
    BY <2>1, <2>2 DEF RequestsAreHonest, SnapshotsAreHonest, BackendIsHonest
  <2>. QED
    BY <2>3, <2>4, <2>5, <2>6 DEF Wire
<1>. QED
  BY <1>6, <1>7, <1>8, <1>9 DEF IInv

LEMMA StutterKeeps == IInv /\ UNCHANGED vars => IInv'
PROOF
<1>. SUFFICES ASSUME IInv, UNCHANGED vars PROVE IInv'
  OBVIOUS
<1>1. /\ ws' = ws /\ disk' = disk /\ history' = history /\ denied' = denied
      /\ listens' = listens /\ faults' = faults /\ restarts' = restarts
  BY DEF vars, bounds
<1>2. Types' /\ TimersHold'
  BY <1>1 DEF IInv, Types, now, TimersHold
<1>3. TokensAreHonest'
  BY <1>1 DEF IInv, TokensAreHonest, now
<1>4. Wire'
  BY <1>1, SameWireKeeps DEF SameWire
<1>. QED
  BY <1>2, <1>3, <1>4 DEF IInv

LEMMA NextKeeps == IInv /\ Next => IInv'
PROOF
<1>. SUFFICES ASSUME IInv, Next PROVE IInv'
  OBVIOUS
<1>1. CASE Client
  <2>1. CASE Receive
    BY <2>1, OnTargetChangeKeeps, OnDocumentChangeKeeps, OnTargetErrorKeeps, OnSnapshotKeeps
      DEF Receive
  <2>2. CASE ~Receive
    BY <1>1, <2>2, CredentialsArriveKeeps, CredentialsArriveLateKeeps, WatchBackoffElapsedKeeps,
       WatchStreamIdleKeeps, OnlineStateTimeoutKeeps DEF Client
  <2>. QED
    BY <2>1, <2>2
<1>2. CASE Backend
  BY <1>2, AnswerIs, BackendSendsKeeps DEF Backend
<1>3. CASE Environment
  BY <1>3, AddListenerKeeps, RemoveListenerKeeps, BackendChangesKeeps, ConnectivityChangeKeeps,
     CrashKeeps, CloseKeeps DEF Environment
<1>. QED
  BY <1>1, <1>2, <1>3 DEF Next

(* The invariant holds in every state that the client reaches.             *)
THEOREM Invariance == Spec => []IInv
PROOF
<1>1. IInv /\ [Next]_vars => IInv'
  BY NextKeeps, StutterKeeps
<1>. QED
  BY InitHolds, <1>1, PTL DEF Spec

-----------------------------------------------------------------------------
(* What follows from it.                                                   *)

(* Every variable is of its kind: however often a target is removed and    *)
(* added again, it is never owed a negative number of responses, and no    *)
(* message is about what nobody knows                                      *)
(* (TargetState::RecordTargetResponse, WatchChangeAggregator).             *)
THEOREM TypeCorrect == Spec => []TypeOK
PROOF
<1>1. IInv => TypeOK
  <2>. SUFFICES ASSUME IInv PROVE TypeOK
    OBVIOUS
  <2>1. RemoteStore(ws) /\ Types
    BY IInvIs
  <2>2. \A f, T : Partial(f, T) => IsPartial(f, T)
    BY DEF Partial, IsPartial
  <2>3. /\ IsPartial(ws.targets, View) /\ IsPartial(ws.agg, TargetState)
        /\ IsPartial(ws.updates, Version)
        /\ IsPartial(ws.srv.sent, Version) /\ IsPartial(ws.srv.owed, Version)
    BY <2>1, <2>2 DEF RemoteStore, Call
  <2>. QED
    BY <2>1, <2>3 DEF TypeOK, RemoteStore, Call, Types, Disk
<1>. QED
  BY Invariance, <1>1, PTL

(* The timers of the stream and of the online state run only where the     *)
(* assertions of remote_store.cc, stream.cc and online_state_tracker.cc    *)
(* expect them, and listeners have a stream, whatever was closed,          *)
(* restarted or late.                                                      *)
THEOREM TimersAreRight == Spec => []TimersHold
PROOF
<1>1. IInv => TimersHold
  BY DEF IInv
<1>. QED
  BY Invariance, <1>1, PTL

(* A target counts as active exactly when every request about it has been  *)
(* answered (WatchChangeAggregator::RecordPendingTargetRequest).           *)
THEOREM ResponsesAreCounted == Spec => []OutstandingIsExact
PROOF
<1>1. IInv => OutstandingIsExact
  BY DEF IInv, Wire
<1>. QED
  BY Invariance, <1>1, PTL

(* Whoever resumes at a token misses nothing: what is on disk is the       *)
(* content of the token's snapshot or newer, whatever was lost, ignored,   *)
(* out of date or refused (LocalStore::ApplyRemoteEvent, ReleaseTarget).   *)
THEOREM TokensKeepTheirPromise == Spec => []TokenIsHonest
PROOF
<1>1. IInv => TokenIsHonest
  <2>1. IInv => DOMAIN ws.targets \subseteq Target
    BY IInvIs DEF Partial
  <2>. QED
    BY <2>1, AsOfIsLatest DEF IInv, TokensAreHonest, TokenIsHonest
<1>. QED
  BY Invariance, <1>1, PTL

(* No step takes what is stored back to an older version, even when a new  *)
(* call is answered by a backend that lags                                 *)
(* (RemoteStore::OnWatchStreamChange, LocalStore::ApplyRemoteEvent).       *)
THEOREM NothingGoesBack == Spec => VersionsMoveForward
PROOF
<1>. DEFINE Forward == /\ disk'.version >= disk.version
                       /\ \A t \in Target : disk'.content[t] >= disk.content[t]
<1>1. IInv /\ disk' = disk => Forward
  BY IInvIs DEF Types, Disk, Version
<1>2. \A t : IInv /\ ReleaseTarget(t) => Forward
  BY IInvIs DEF ReleaseTarget, Types, Disk, Version
<1>3. ASSUME IInv, OnSnapshot PROVE Forward
  <2>1. CASE ~isNewSnapshot(message.version)
    BY <1>1, <1>3, <2>1 DEF OnSnapshot
  <2>2. CASE isNewSnapshot(message.version)
    <3>1. PICK aged \in SUBSET changed : RaiseWatchSnapshot(message.version, aged)
      BY <1>3, <2>2 DEF OnSnapshot
    <3>2. /\ disk'.version = message.version
          /\ \A t \in Target : disk'.content[t] = newContent(t)
      BY <3>1 DEF RaiseWatchSnapshot
    <3>. QED
      BY <1>3, <2>2, <3>2, NewContentIs DEF isNewSnapshot
  <2>. QED
    BY <2>1, <2>2
<1>4. ASSUME IInv, Next PROVE Forward
  <2>1. CASE OnSnapshot
    BY <1>3, <1>4, <2>1
  <2>2. CASE OnTargetError
    BY <1>1, <1>2, <1>4, <2>2 DEF OnTargetError
  <2>3. CASE \E t \in Target : RemoveListener(t)
    BY <1>2, <1>4, <2>3 DEF RemoveListener
  <2>4. CASE ~OnSnapshot /\ ~OnTargetError /\ ~\E t \in Target : RemoveListener(t)
    <3>1. disk' = disk
      <4>1. CASE Client
        BY <2>4, <4>1 DEF Client, Receive, CredentialsArrive, CredentialsArriveLate,
          WatchBackoffElapsed, WatchStreamIdle, OnlineStateTimeout, OnTargetChange,
          OnDocumentChange
      <4>2. CASE Backend
        BY <4>2 DEF Backend, BackendWatches, BackendUnwatches, BackendSends
      <4>3. CASE Environment
        BY <2>4, <4>3 DEF Environment, AddListener, BackendChanges, ConnectivityChange, Crash,
          CredentialsFail, WatchStreamBreaks
      <4>. QED
        BY <1>4, <4>1, <4>2, <4>3 DEF Next
    <3>. QED
      BY <1>1, <1>4, <3>1
  <2>. QED
    BY <2>1, <2>2, <2>3, <2>4
<1>5. IInv /\ [Next]_vars => [Forward]_vars
  BY <1>4
<1>. QED
  BY Invariance, <1>5, PTL DEF Spec, VersionsMoveForward
=============================================================================
