-------------------------- MODULE WritePipelineProofs --------------------------
(***************************************************************************)
(* Whatever breaks, restarts or changes the user: the pipeline holds the   *)
(* oldest writes of the user who is signed in, every answer finds its      *)
(* write and its writer, and the client keeps the promise of WriteQueue.   *)
(***************************************************************************)
EXTENDS WritePipeline, StreamProofs, SequenceTheorems

Store ==
  [pipeline : Seq(Batch), stream : StreamRecord, handshake : BOOLEAN,
   up : Seq(Write \cup {0}), down : Seq(Message)]

(* The ids of a queue grow. *)
Ordered(q) == \A i, j \in DOMAIN q : i < j => q[i].id < q[j].id

(* r sends the oldest writes of the queue q. *)
Heads(r, q) ==
  /\ Len(r.pipeline) <= Len(q) /\ Len(r.pipeline) <= kMaxPendingWrites
  /\ \A i \in 1..Len(r.pipeline) : r.pipeline[i] = q[i]

unfinished(r) == \A i \in DOMAIN r.down : r.down[i].kind = "response"

(* The call before its handshake, ... *)
Greeting(r) ==
  \/ r.up = <<>> /\ r.down = <<>>
  \/ r.up = <<0>> /\ r.down = <<>>
  \/ r.up = <<>> /\ r.down = <<response(0)>>

(* ... and after it: first come the writes that are answered, then those   *)
(* that are asked for, unless the call is over.                            *)
Sent(r) ==
  /\ Len(r.down) <= Len(r.pipeline)
  /\ \A i \in DOMAIN r.down : r.down[i].write = r.pipeline[i].write
  /\ \A i \in DOMAIN r.down : r.down[i].kind = "finish" => i = Len(r.down)
  /\ unfinished(r) => /\ Len(r.down) + Len(r.up) = Len(r.pipeline)
                      /\ \A i \in DOMAIN r.up : r.up[i] = r.pipeline[Len(r.down) + i].write

CallMatches(r) ==
  /\ ~IsOpen(r.stream) => r.up = <<>> /\ r.down = <<>> /\ ~r.handshake
  /\ IF r.handshake THEN Sent(r) ELSE Greeting(r)

(* RemoteStore is sound, but may lack a stream. *)
Sound(r, q) ==
  /\ r \in Store /\ Heads(r, q) /\ CallMatches(r)
  /\ Matches(r.stream)
  /\ r.stream.idle => r.pipeline = <<>> /\ r.handshake

Served(r) == IsStarted(r.stream) \/ r.pipeline = <<>>

(* How many of u's writes have been answered. *)
answered(u) == written[u] - Len(queue[u])

(* The queue of a user holds the writes since the last one answered.       *)
QueuesAreInOrder ==
  \A u \in User :
    /\ Ordered(queue[u])
    /\ \A i \in DOMAIN queue[u] : queue[u][i].id < next_batch_id
    /\ Len(queue[u]) <= written[u]
    /\ \A i \in DOMAIN queue[u] : queue[u][i].write = answered(u) + i

(* What was answered has been decided, what was not made has not.          *)
DecisionsAreInOrder ==
  \A u \in User, w \in Write :
    /\ w <= answered(u) => outcome[u][w] # "none"
    /\ w > written[u] => outcome[u][w] = "none"

(* Nothing changes a decision while its response is on its way.            *)
ResponsesAreTrue ==
  rs.handshake => \A i \in DOMAIN rs.down :
    outcome[user][rs.down[i].write] =
      IF rs.down[i].kind = "response" THEN "applied" ELSE "rejected"

(* A writer is told of a write once it has left the queue. *)
ToldAfterAnswer ==
  \A u \in User, w \in Write : told[u][w] # "nothing" => w <= answered(u)

(* The writes decided on this call, whose answers are on their way.        *)
heard(u) == IF u = user /\ rs.handshake THEN Len(rs.down) ELSE 0

(* Only a write that will be decided again may be newer than the one that  *)
(* stands.                                                                 *)
NewestStands ==
  \A u \in User, w \in Write :
    outcome[u][w] = "applied" => value[u] >= w \/ w > answered(u) + heard(u)

IInv ==
  /\ TypeOK
  /\ QueuesAreInOrder
  /\ Sound(rs, queue[user])
  /\ Served(rs)
  /\ CallbackIsForItsWrite
  /\ DecisionsAreInOrder
  /\ ResponsesAreTrue
  /\ AnswersAreTrue
  /\ ToldAfterAnswer
  /\ NewestStands

-----------------------------------------------------------------------------
(* Lists. *)

LEMMA PrefixPositions ==
  ASSUME NEW T, NEW p \in Seq(T), NEW q \in Seq(T)
  PROVE  IsPrefix(p, q) <=> /\ Len(p) <= Len(q)
                            /\ \A i \in 1..Len(p) : p[i] = q[i]
PROOF
<1>1. CASE Len(p) <= Len(q)
  <2>. DEFINE a == SubSeq(p, 1, Len(p))
              b == SubSeq(q, 1, Len(p))
  <2>1. a \in Seq(T) /\ Len(a) = Len(p) /\ \A i \in 1..Len(p) : a[i] = p[i]
    OBVIOUS
  <2>2. b \in Seq(T) /\ Len(b) = Len(p) /\ \A i \in 1..Len(p) : b[i] = q[i]
    BY <1>1
  <2>. HIDE DEF a, b
  <2>3. a = b <=> \A i \in 1..Len(p) : p[i] = q[i]
    BY <2>1, <2>2, SeqEqual
  <2>4. IsPrefix(p, q) <=> a = b
    BY <1>1 DEF IsPrefix, a, b
  <2>. QED
    BY <1>1, <2>3, <2>4
<1>2. CASE ~(Len(p) <= Len(q))
  BY <1>2 DEF IsPrefix
<1>. QED
  BY <1>1, <1>2

LEMMA BatchFields ==
  ASSUME NEW q \in Seq(Batch), NEW i \in DOMAIN q
  PROVE  q[i] \in Batch /\ q[i].id \in Nat \ {0} /\ q[i].write \in Write
PROOF
<1>1. q[i] \in Batch
  OBVIOUS
<1>. QED
  BY <1>1 DEF Batch

LEMMA Requests ==
  ASSUME NEW q \in Seq(Batch)
  PROVE  /\ requests(q) \in Seq(Write) /\ Len(requests(q)) = Len(q)
         /\ DOMAIN requests(q) = DOMAIN q
         /\ \A i \in DOMAIN q : requests(q)[i] = q[i].write
PROOF
<1>1. \A i \in DOMAIN q : q[i].write \in Write
  BY BatchFields
<1>. QED
  BY <1>1 DEF requests

(* The batches before an id are the first n. *)
LEMMA BeforeIs ==
  ASSUME NEW q \in Seq(Batch), NEW id \in Nat, NEW n \in Nat, n <= Len(q),
         \A i \in DOMAIN q : q[i].id < id <=> i <= n
  PROVE  before(q, id) = n
PROOF
<1>1. {i \in DOMAIN q : q[i].id < id} = 1..n
  OBVIOUS
<1>2. Cardinality(1..n) = n
  BY FS_Interval
<1>. QED
  BY <1>1, <1>2 DEF before

(* RemoveMutationBatch of the oldest batch. *)
LEMMA RemoveOldest ==
  ASSUME NEW q \in Seq(Batch), Ordered(q), q # <<>>
  PROVE  removed(q, Head(q)) = Tail(q)
PROOF
<1>1. q[1] \in Batch /\ q[1].id \in Nat /\ Head(q) = q[1] /\ 1 \in DOMAIN q
  BY BatchFields
<1>2. \A i \in DOMAIN q : q[i].id \in Nat
  BY BatchFields
<1>3. \A i \in DOMAIN q : q[i].id < q[1].id <=> i <= 0
  BY <1>1, <1>2 DEF Ordered
<1>4. before(q, q[1].id) = 0
  BY <1>1, <1>3, BeforeIs
<1>5. removed(q, Head(q)) = SubSeq(q, 1, 0) \o SubSeq(q, 2, Len(q))
  <2>1. removed(q, Head(q)) = RemoveAt(q, 0 + 1)
    BY <1>1, <1>4, Zenon DEF removed
  <2>2. 0 + 1 = 1 /\ (0 + 1) - 1 = 0 /\ (0 + 1) + 1 = 2
    OBVIOUS
  <2>. QED
    BY <2>1, <2>2, Zenon DEF RemoveAt
<1>6. SubSeq(q, 1, 0) = <<>>
  OBVIOUS
<1>7. SubSeq(q, 2, Len(q)) \in Seq(Batch)
  OBVIOUS
<1>8. Tail(q) = SubSeq(q, 2, Len(q))
  BY TailIsSubSeq
<1>. QED
  BY <1>5, <1>6, <1>7, <1>8, ConcatEmptySeq

-----------------------------------------------------------------------------
(* RemoteStore. *)

LEMMA StoreShape ==
  ASSUME NEW r \in Store
  PROVE  /\ r = [pipeline |-> r.pipeline, stream |-> r.stream, handshake |-> r.handshake,
                 up |-> r.up, down |-> r.down]
         /\ r.pipeline \in Seq(Batch) /\ r.stream \in StreamRecord
         /\ r.handshake \in BOOLEAN /\ r.up \in Seq(Write \cup {0}) /\ r.down \in Seq(Message)
BY DEF Store

(* The stream of r is s now, ... *)
LEMMA NewStreamOf ==
  ASSUME NEW r \in Store, NEW s
  PROVE  [r EXCEPT !.stream = s] =
           [pipeline |-> r.pipeline, stream |-> s, handshake |-> r.handshake,
            up |-> r.up, down |-> r.down]
PROOF
<1>1. [r EXCEPT !.stream = s] =
        [[pipeline |-> r.pipeline, stream |-> r.stream, handshake |-> r.handshake,
          up |-> r.up, down |-> r.down] EXCEPT !.stream = s]
  BY StoreShape, Zenon
<1>. QED
  BY <1>1

(* ... or its pipeline is p, too. *)
LEMMA NewPipelineOf ==
  ASSUME NEW r \in Store, NEW p, NEW s
  PROVE  [r EXCEPT !.pipeline = p, !.stream = s] =
           [pipeline |-> p, stream |-> s, handshake |-> r.handshake,
            up |-> r.up, down |-> r.down]
PROOF
<1>. DEFINE a == [r EXCEPT !.pipeline = p]
<1>1. [r EXCEPT !.pipeline = p, !.stream = s] = [a EXCEPT !.stream = s]
  OBVIOUS
<1>2. a = [[pipeline |-> r.pipeline, stream |-> r.stream, handshake |-> r.handshake,
            up |-> r.up, down |-> r.down] EXCEPT !.pipeline = p]
  BY StoreShape, Zenon
<1>. HIDE DEF a
<1>3. a = [pipeline |-> p, stream |-> r.stream, handshake |-> r.handshake,
           up |-> r.up, down |-> r.down]
  BY <1>2
<1>4. [a EXCEPT !.stream = s] =
        [[pipeline |-> p, stream |-> r.stream, handshake |-> r.handshake,
          up |-> r.up, down |-> r.down] EXCEPT !.stream = s]
  BY <1>3, Zenon
<1>. QED
  BY <1>1, <1>4

(* What a call that only sends leaves behind. *)
IsFilled(s, r, q) ==
  /\ Sound(s, q) /\ Served(s)
  /\ s.handshake = r.handshake /\ s.down = r.down

LEMMA StartIfNeeded ==
  ASSUME NEW r, NEW q, Sound(r, q)
  PROVE  IsFilled(startIfNeeded(r), r, q)
PROOF
<1>1. r \in Store /\ Matches(r.stream)
  BY DEF Sound
<1>2. CASE ShouldStartWriteStream(r)
  <2>. DEFINE s == Start(r.stream)
  <2>1. ~IsStarted(r.stream) /\ ~IsOpen(r.stream)
    BY <1>2 DEF ShouldStartWriteStream, IsStarted, IsOpen
  <2>2. Matches(s) /\ IsStarted(s) /\ ~IsOpen(s) /\ ~s.idle
    BY <1>1, <2>1, StartMatches
  <2>3. startIfNeeded(r) = [r EXCEPT !.stream = s]
    BY <1>2 DEF startIfNeeded
  <2>. HIDE DEF s
  <2>4. startIfNeeded(r) = [pipeline |-> r.pipeline, stream |-> s, handshake |-> r.handshake,
                            up |-> r.up, down |-> r.down]
    BY <1>1, <2>3, NewStreamOf
  <2>. DEFINE t == startIfNeeded(r)
  <2>5. /\ t.pipeline = r.pipeline /\ t.stream = s /\ t.handshake = r.handshake
        /\ t.up = r.up /\ t.down = r.down
    BY <2>4
  <2>6. t \in Store
    BY <1>1, <2>2, <2>4, StoreShape DEF Store, Matches
  <2>. HIDE DEF t
  <2>7. Heads(t, q)
    BY <2>5 DEF Sound, Heads
  <2>8. r.up = <<>> /\ r.down = <<>> /\ ~r.handshake
    BY <2>1 DEF Sound, CallMatches
  <2>9. CallMatches(t)
    BY <2>5, <2>8 DEF CallMatches, Greeting
  <2>10. Sound(t, q) /\ Served(t)
    BY <2>2, <2>5, <2>6, <2>7, <2>9 DEF Sound, Served
  <2>. QED
    BY <2>5, <2>10 DEF IsFilled, t
<1>3. CASE ~ShouldStartWriteStream(r)
  BY <1>3 DEF startIfNeeded, ShouldStartWriteStream, IsFilled, Served
<1>. QED
  BY <1>2, <1>3

(* closed, before the stream is started again: nothing is on its way. *)
IsClosed(s, r) ==
  /\ s \in Store /\ Matches(s.stream) /\ ~IsStarted(s.stream) /\ ~IsOpen(s.stream)
  /\ ~s.stream.idle /\ ~s.handshake /\ s.up = <<>> /\ s.down = <<>>
  /\ s.pipeline = r.pipeline

LEMMA ClosedIsClosed ==
  ASSUME NEW r \in Store, Matches(r.stream), NEW graceful \in BOOLEAN
  PROVE  IsClosed(closed(r, graceful), r)
PROOF
<1>. DEFINE s == Close(r.stream, graceful)
<1>1. Matches(s) /\ ~IsStarted(s) /\ ~IsOpen(s) /\ ~s.idle
  BY CloseMatches
<1>2. closed(r, graceful) = [r EXCEPT !.stream = s, !.handshake = FALSE, !.up = <<>>, !.down = <<>>]
  BY DEF closed
<1>. HIDE DEF s
<1>3. closed(r, graceful) =
        [[pipeline |-> r.pipeline, stream |-> r.stream, handshake |-> r.handshake,
          up |-> r.up, down |-> r.down]
           EXCEPT !.stream = s, !.handshake = FALSE, !.up = <<>>, !.down = <<>>]
  BY <1>2, StoreShape, Zenon
<1>4. closed(r, graceful) =
        [pipeline |-> r.pipeline, stream |-> s, handshake |-> FALSE, up |-> <<>>, down |-> <<>>]
  BY <1>3
<1>. QED
  BY <1>1, <1>4, StoreShape DEF IsClosed, Store, Matches

(* With any pipeline, and the backoff inhibited or not, it is sound. *)
LEMMA ClosedIsSound ==
  ASSUME NEW r \in Store, NEW s, IsClosed(s, r), NEW q, Heads(s, q)
  PROVE  Sound(s, q)
BY DEF IsClosed, Sound, CallMatches, Greeting

IsFresh(t, q) == Sound(t, q) /\ ~t.handshake /\ t.down = <<>> /\ ~IsOpen(t.stream)

LEMMA InhibitedIsFresh ==
  ASSUME NEW r, NEW s, IsClosed(s, r), NEW p \in Seq(Batch), NEW q,
         Len(p) <= Len(q), Len(p) <= kMaxPendingWrites, \A i \in 1..Len(p) : p[i] = q[i]
  PROVE  IsFresh([s EXCEPT !.pipeline = p, !.stream = InhibitBackoff(@)], q)
PROOF
<1>. DEFINE i == InhibitBackoff(s.stream)
            t == [s EXCEPT !.pipeline = p, !.stream = InhibitBackoff(@)]
<1>1. s \in Store /\ Matches(i) /\ ~IsStarted(i) /\ ~IsOpen(i) /\ ~i.idle
  BY InhibitBackoffMatches DEF IsClosed
<1>2. t = [s EXCEPT !.pipeline = p, !.stream = i]
  BY Zenon
<1>. HIDE DEF i, t
<1>3. t = [pipeline |-> p, stream |-> i, handshake |-> s.handshake, up |-> s.up, down |-> s.down]
  BY <1>1, <1>2, NewPipelineOf
<1>4. /\ t.pipeline = p /\ t.stream = i /\ ~t.handshake /\ t.up = <<>> /\ t.down = <<>>
  BY <1>3 DEF IsClosed
<1>5. t \in Store
  BY <1>1, <1>3, StoreShape DEF Store, Matches
<1>. HIDE DEF t
<1>6. Heads(t, q)
  BY <1>4 DEF Heads
<1>7. CallMatches(t)
  BY <1>4 DEF CallMatches, Greeting
<1>8. Sound(t, q)
  BY <1>1, <1>4, <1>5, <1>6, <1>7 DEF Sound
<1>. QED
  BY <1>1, <1>4, <1>8 DEF IsFresh, t

-----------------------------------------------------------------------------
(* FillWritePipeline. *)

(* The requests of r when the batches are added to the pipeline. *)
LEMMA SentMore ==
  ASSUME NEW r \in Store, NEW s \in Store, NEW batches \in Seq(Batch), Sent(r),
         s.pipeline = r.pipeline \o batches, s.down = r.down,
         s.up = r.up \o requests(batches)
  PROVE  Sent(s)
PROOF
<1>. DEFINE n == Len(r.pipeline)
            m == Len(r.down)
            k == Len(r.up)
            b == requests(batches)
<1>1. r.pipeline \in Seq(Batch) /\ r.up \in Seq(Write \cup {0}) /\ r.down \in Seq(Message)
  BY StoreShape
<1>2. /\ b \in Seq(Write \cup {0}) /\ Len(b) = Len(batches) /\ DOMAIN b = DOMAIN batches
      /\ \A i \in DOMAIN batches : b[i] = batches[i].write
  BY Requests
<1>3. s.up = r.up \o b /\ DOMAIN b = 1..Len(b) /\ Len(b) \in Nat
  BY <1>2
<1>. HIDE DEF b
<1>4. /\ Len(s.pipeline) = n + Len(batches) /\ n \in Nat /\ Len(batches) \in Nat
      /\ DOMAIN r.pipeline = 1..n /\ DOMAIN batches = 1..Len(batches)
      /\ \A i \in 1..n : s.pipeline[i] = r.pipeline[i]
      /\ \A i \in 1..Len(batches) : s.pipeline[n + i] = batches[i]
  BY <1>1, ConcatPositions
<1>5. b \in Seq(Write \cup {0})
  BY <1>2
<1>6. /\ Len(r.up \o b) = Len(r.up) + Len(b) /\ Len(r.up) \in Nat /\ DOMAIN r.up = 1..Len(r.up)
      /\ DOMAIN (r.up \o b) = 1..(Len(r.up) + Len(b))
      /\ \A i \in DOMAIN r.up : (r.up \o b)[i] = r.up[i]
      /\ \A i \in DOMAIN b : (r.up \o b)[Len(r.up) + i] = b[i]
  BY <1>1, <1>5, ConcatPositions
<1>7. /\ Len(s.up) = k + Len(b) /\ k \in Nat /\ DOMAIN s.up = 1..(k + Len(b))
      /\ DOMAIN r.up = 1..k
      /\ \A i \in 1..k : s.up[i] = r.up[i]
      /\ \A i \in 1..Len(b) : s.up[k + i] = b[i]
  BY <1>3, <1>6, Zenon
<1>8. m \in Nat /\ DOMAIN r.down = 1..m /\ m <= n /\ DOMAIN s.down = 1..m /\ Len(s.down) = m
  BY <1>1 DEF Sent
<1>9. /\ Len(s.up) = k + Len(b) /\ k \in Nat /\ m \in Nat /\ n \in Nat /\ Len(b) \in Nat
      /\ Len(s.pipeline) = n + Len(b) /\ Len(batches) = Len(b)
  BY <1>3, <1>2, <1>4, <1>7, <1>8
<1>. HIDE DEF n, m, k
<1>10. m <= Len(s.pipeline) /\ \A i \in 1..m : i \in 1..n
  BY <1>4, <1>8, <1>9
<1>11. \A i \in 1..m : s.down[i].write = s.pipeline[i].write
  BY <1>4, <1>8, <1>10 DEF Sent, m
<1>12. \A i \in 1..m : s.down[i].kind = "finish" => i = m
  BY <1>8 DEF Sent, m
<1>13. ASSUME unfinished(s)
      PROVE  /\ m + Len(s.up) = Len(s.pipeline)
             /\ \A i \in DOMAIN s.up : s.up[i] = s.pipeline[m + i].write
  <2>1. unfinished(r)
    BY <1>13 DEF unfinished
  <2>2. m + k = n /\ \A i \in 1..k : r.up[i] = r.pipeline[m + i].write
    BY <1>7, <2>1 DEF Sent, n, m, k
  <2>3. ASSUME NEW i \in 1..(k + Len(b))
        PROVE  s.up[i] = s.pipeline[m + i].write
    <3>1. CASE i <= k
      <4>1. i \in 1..k /\ m + i \in 1..n
        BY <1>9, <2>2, <3>1
      <4>. QED
        BY <1>4, <1>7, <2>2, <4>1
    <3>2. CASE i > k
      <4>1. i - k \in 1..Len(batches) /\ k + (i - k) = i /\ n + (i - k) = m + i
        BY <1>9, <2>2, <3>2
      <4>2. s.up[k + (i - k)] = b[i - k] /\ b[i - k] = batches[i - k].write
        BY <1>3, <1>2, <1>7, <1>9, <4>1, Zenon
      <4>3. s.pipeline[n + (i - k)] = batches[i - k]
        BY <1>4, <4>1
      <4>. QED
        BY <4>1, <4>2, <4>3
    <3>3. i <= k \/ i > k
      BY <1>9
    <3>. QED
      BY <3>1, <3>2, <3>3, Zenon
  <2>. QED
    <3>1. m + Len(s.up) = Len(s.pipeline)
      <4>1. m + k = n
        BY <2>2
      <4>. DEFINE x == Len(s.up)
                  y == Len(s.pipeline)
                  z == Len(b)
      <4>2. x = k + z /\ y = n + z /\ k \in Nat /\ m \in Nat /\ n \in Nat /\ z \in Nat
        BY <1>9
      <4>. HIDE DEF x, y, z
      <4>3. m + x = y
        BY <4>1, <4>2
      <4>. QED
        BY <4>3 DEF x, y
    <3>. QED
      BY <1>7, <2>3, <3>1, Zenon
<1>. QED
  BY <1>8, <1>10, <1>11, <1>12, <1>13 DEF Sent, m

(* added is of r with the batches at the end of its pipeline. *)
IsAdded(s, r, batches, q) ==
  /\ Sound(s, q) /\ s.pipeline = r.pipeline \o batches
  /\ IsOpen(s.stream) = IsOpen(r.stream)
  /\ s.handshake = r.handshake /\ s.down = r.down

LEMMA AddedIsAdded ==
  ASSUME NEW r, NEW q \in Seq(Batch), NEW batches \in Seq(Batch), Sound(r, q),
         Len(r.pipeline) + Len(batches) <= Len(q),
         Len(r.pipeline) + Len(batches) <= kMaxPendingWrites,
         \A i \in 1..Len(batches) : batches[i] = q[Len(r.pipeline) + i]
  PROVE  IsAdded(added(r, batches), r, batches, q)
PROOF
<1>. DEFINE p == r.pipeline \o batches
            n == Len(r.pipeline)
<1>1. r \in Store /\ Matches(r.stream) /\ r.pipeline \in Seq(Batch)
  BY StoreShape DEF Sound
<1>2. /\ p \in Seq(Batch) /\ Len(p) = n + Len(batches) /\ n \in Nat /\ Len(batches) \in Nat
      /\ \A i \in 1..n : p[i] = r.pipeline[i]
      /\ \A i \in 1..Len(batches) : p[n + i] = batches[i]
  BY <1>1, ConcatPositions
<1>3. \A i \in 1..Len(p) : p[i] = q[i]
  <2>1. TAKE i \in 1..Len(p)
  <2>2. CASE i <= n
    BY <1>2, <2>2 DEF Sound, Heads
  <2>3. CASE i > n
    <3>1. i - n \in 1..Len(batches) /\ n + (i - n) = i
      BY <1>2, <2>3
    <3>. QED
      BY <1>2, <3>1
  <2>. QED
    BY <1>2, <2>2, <2>3
<1>. HIDE DEF p
<1>4. CASE IsOpen(r.stream) /\ r.handshake /\ batches # <<>>
  <2>. DEFINE c == CancelIdleCheck(r.stream)
              u == r.up \o requests(batches)
              s == added(r, batches)
              a == [r EXCEPT !.pipeline = p]
  <2>1. s = [a EXCEPT !.up = @ \o requests(batches), !.stream = CancelIdleCheck(@)]
    BY <1>4, Zenon DEF added, p
  <2>2. a = [[pipeline |-> r.pipeline, stream |-> r.stream, handshake |-> r.handshake,
              up |-> r.up, down |-> r.down] EXCEPT !.pipeline = p]
    BY <1>1, StoreShape, Zenon
  <2>. HIDE DEF a, s
  <2>3. a = [pipeline |-> p, stream |-> r.stream, handshake |-> r.handshake,
             up |-> r.up, down |-> r.down]
    BY <2>2
  <2>4. s = [a EXCEPT !.up = u, !.stream = c]
    BY <2>1, <2>3
  <2>. HIDE DEF u, c
  <2>. DEFINE b == [a EXCEPT !.up = u]
  <2>5. s = [b EXCEPT !.stream = c]
    BY <2>4
  <2>6. b = [[pipeline |-> p, stream |-> r.stream, handshake |-> r.handshake,
              up |-> r.up, down |-> r.down] EXCEPT !.up = u]
    BY <2>3, Zenon
  <2>. HIDE DEF b
  <2>7. b = [pipeline |-> p, stream |-> r.stream, handshake |-> r.handshake,
             up |-> u, down |-> r.down]
    BY <2>6
  <2>8. s = [[pipeline |-> p, stream |-> r.stream, handshake |-> r.handshake,
              up |-> u, down |-> r.down] EXCEPT !.stream = c]
    BY <2>5, <2>7, Zenon
  <2>9. s = [pipeline |-> p, stream |-> c, handshake |-> r.handshake, up |-> u, down |-> r.down]
    BY <2>8
  <2>10. /\ s.pipeline = p /\ s.stream = c /\ s.handshake = r.handshake
         /\ s.up = u /\ s.down = r.down
    BY <2>9
  <2>11. Matches(c) /\ ~c.idle /\ IsOpen(c) = IsOpen(r.stream)
    BY <1>1, CancelIdleMatches DEF c
  <2>12. u \in Seq(Write \cup {0})
    BY <1>1, StoreShape, Requests, ConcatPositions DEF u
  <2>13. s \in Store
    BY <1>1, <1>2, <2>9, <2>11, <2>12, StoreShape DEF Store, Matches
  <2>14. Heads(s, q)
    BY <1>2, <1>3, <2>10 DEF Heads
  <2>15. Sent(r)
    BY <1>4 DEF Sound, CallMatches
  <2>16. Sent(s)
    BY <1>1, <2>10, <2>13, <2>15, SentMore DEF p, u
  <2>17. CallMatches(s)
    BY <1>4, <2>10, <2>11, <2>16 DEF CallMatches
  <2>18. Sound(s, q)
    BY <2>10, <2>11, <2>13, <2>14, <2>17 DEF Sound
  <2>. QED
    BY <2>10, <2>11, <2>18 DEF IsAdded, s, p
<1>5. CASE ~(IsOpen(r.stream) /\ r.handshake /\ batches # <<>>)
  <2>. DEFINE s == added(r, batches)
  <2>1. s = [r EXCEPT !.pipeline = p]
    BY <1>5 DEF added, p
  <2>. HIDE DEF s
  <2>2. s = [[pipeline |-> r.pipeline, stream |-> r.stream, handshake |-> r.handshake,
              up |-> r.up, down |-> r.down] EXCEPT !.pipeline = p]
    BY <1>1, <2>1, StoreShape, Zenon
  <2>3. s = [pipeline |-> p, stream |-> r.stream, handshake |-> r.handshake,
             up |-> r.up, down |-> r.down]
    BY <2>2
  <2>4. /\ s.pipeline = p /\ s.stream = r.stream /\ s.handshake = r.handshake
        /\ s.up = r.up /\ s.down = r.down
    BY <2>3
  <2>5. s \in Store
    BY <1>1, <1>2, <2>3, StoreShape DEF Store
  <2>6. Heads(s, q)
    BY <1>2, <1>3, <2>4 DEF Heads
  <2>7. batches = <<>> => p = r.pipeline
    BY <1>1, ConcatEmptySeq DEF p
  <2>8. r.handshake => IsOpen(r.stream)
    BY DEF Sound, CallMatches
  <2>9. CallMatches(s)
    <3>1. CASE r.handshake
      <4>1. p = r.pipeline
        BY <1>5, <2>7, <2>8, <3>1
      <4>2. s = r
        BY <1>1, <2>3, <4>1, StoreShape
      <4>. QED
        BY <4>2 DEF Sound
    <3>2. CASE ~r.handshake
      BY <2>4, <3>2 DEF Sound, CallMatches, Greeting
    <3>. QED
      BY <3>1, <3>2
  <2>10. s.stream.idle => s.pipeline = <<>> /\ s.handshake
    BY <1>5, <2>4, <2>7, <2>8 DEF Sound
  <2>11. Sound(s, q)
    BY <1>1, <2>4, <2>5, <2>6, <2>9, <2>10 DEF Sound
  <2>. QED
    BY <2>4, <2>11 DEF IsAdded, s, p
<1>. QED
  BY <1>4, <1>5

(* Where the pipeline ends in the queue: the batches after its last one. *)
LEMMA AfterLast ==
  ASSUME NEW q \in Seq(Batch), Ordered(q), NEW p \in Seq(Batch), Len(p) <= Len(q),
         \A i \in 1..Len(p) : p[i] = q[i]
  PROVE  batchesAfter(q, IF p = <<>> THEN 0 ELSE Last(p).id) = SubSeq(q, Len(p) + 1, Len(q))
PROOF
<1>. DEFINE last == IF p = <<>> THEN 0 ELSE Last(p).id
            n == Len(p)
<1>1. \A i \in DOMAIN q : q[i].id \in Nat \ {0}
  BY BatchFields
<1>2. n \in Nat /\ Len(q) \in Nat /\ DOMAIN q = 1..Len(q) /\ n <= Len(q)
  OBVIOUS
<1>3. CASE p = <<>>
  <2>1. last = 0 /\ n = 0
    BY <1>3
  <2>. HIDE DEF last, n
  <2>2. \A i \in DOMAIN q : q[i].id < last + 1 <=> i <= n
    BY <1>1, <1>2, <2>1
  <2>3. last + 1 \in Nat
    BY <2>1
  <2>4. before(q, last + 1) = n
    BY <1>2, <2>2, <2>3, BeforeIs
  <2>. QED
    BY <2>4 DEF batchesAfter, last, n
<1>4. CASE p # <<>>
  <2>1. n \in DOMAIN q /\ last = q[n].id
    <3>1. n \in 1..Len(p) /\ n \in DOMAIN q
      BY <1>4
    <3>2. last = p[n].id
      BY <1>4 DEF Last
    <3>3. p[n] = q[n]
      BY <3>1
    <3>. QED
      BY <3>1, <3>2, <3>3
  <2>. HIDE DEF last, n
  <2>2. last \in Nat
    BY <1>1, <2>1
  <2>3. ASSUME NEW i \in DOMAIN q
        PROVE  q[i].id < last + 1 <=> i <= n
    <3>1. CASE i < n
      <4>1. q[i].id < last
        BY <2>1, <3>1 DEF Ordered
      <4>. QED
        BY <1>1, <1>2, <2>2, <3>1, <4>1
    <3>2. CASE i = n
      BY <1>2, <2>1, <2>2, <3>2
    <3>3. CASE i > n
      <4>1. last < q[i].id
        BY <1>2, <2>1, <3>3 DEF Ordered
      <4>2. q[i].id \in Nat
        BY <1>1
      <4>. QED
        BY <1>2, <2>2, <3>3, <4>1, <4>2
    <3>. QED
      BY <1>2, <3>1, <3>2, <3>3
  <2>4. last + 1 \in Nat
    BY <2>2
  <2>5. before(q, last + 1) = n
    BY <1>2, <2>3, <2>4, BeforeIs
  <2>. QED
    BY <2>5 DEF batchesAfter, last, n
<1>. QED
  BY <1>3, <1>4

(* FillWritePipeline takes as many of them as there is room for. *)
LEMMA FillIsFilled ==
  ASSUME NEW r, NEW q \in Seq(Batch), Ordered(q), Sound(r, q),
         IsOpen(r.stream) /\ q = <<>> => r.handshake
  PROVE  IsFilled(FillWritePipeline(r, q), r, q)
PROOF
<1>. DEFINE p == r.pipeline
            n == Len(p)
            last == IF p = <<>> THEN 0 ELSE Last(p).id
            more == batchesAfter(q, last)
            k == Min({Len(more), room(r)})
            batches == SubSeq(more, 1, k)
            s == added(r, batches)
            t == IF s.pipeline = <<>> THEN [s EXCEPT !.stream = MarkIdle(@)] ELSE s
<1>1. /\ r \in Store /\ p \in Seq(Batch) /\ n \in Nat /\ Len(q) \in Nat
      /\ n <= Len(q) /\ n <= kMaxPendingWrites
      /\ \A i \in 1..n : p[i] = q[i]
  BY StoreShape DEF Sound, Heads
<1>2. more = SubSeq(q, n + 1, Len(q))
  <2>1. n <= Len(q) /\ \A i \in 1..Len(p) : p[i] = q[i]
    BY <1>1
  <2>. QED
    BY <1>1, <2>1, AfterLast
<1>3. FillWritePipeline(r, q) = startIfNeeded(t)
  BY DEF FillWritePipeline
<1>. HIDE DEF more
<1>4. /\ more \in Seq(Batch) /\ Len(more) = Len(q) - n
      /\ \A i \in 1..Len(more) : more[i] = q[n + i]
  <2>1. \A i \in (n + 1)..Len(q) : q[i] \in Batch
    BY <1>1
  <2>. HIDE DEF n
  <2>2. /\ more \in Seq(Batch)
        /\ Len(more) = IF n + 1 <= Len(q) THEN Len(q) - (n + 1) + 1 ELSE 0
        /\ \A i \in 1..(Len(q) - (n + 1) + 1) : more[i] = q[(n + 1) + i - 1]
    BY <1>1, <1>2, <2>1, SubSeqProperties
  <2>3. Len(more) = Len(q) - n
    BY <1>1, <2>2
  <2>4. \A i \in 1..Len(more) : more[i] = q[n + i]
    <3>1. TAKE i \in 1..Len(more)
    <3>2. i \in 1..(Len(q) - (n + 1) + 1) /\ (n + 1) + i - 1 = n + i
      BY <1>1, <2>3
    <3>. QED
      BY <2>2, <3>2
  <2>. QED
    BY <2>2, <2>3, <2>4
<1>5. k \in Nat /\ k <= Len(more) /\ k <= kMaxPendingWrites - n
  <2>1. Len(more) \in Nat /\ room(r) = kMaxPendingWrites - n /\ room(r) \in Nat
    BY <1>1, <1>4, WritePipelineAssumption DEF room
  <2>. QED
    BY <2>1, MinIsLeast
<1>. HIDE DEF k
<1>6. /\ batches \in Seq(Batch) /\ Len(batches) = k
      /\ \A i \in 1..k : batches[i] = more[i]
  BY <1>4, <1>5
<1>. HIDE DEF batches
<1>7. \A i \in 1..Len(batches) : batches[i] = q[Len(r.pipeline) + i]
  <2>1. \A i \in 1..k : i \in 1..Len(more)
    BY <1>4, <1>5
  <2>. QED
    BY <1>4, <1>6, <2>1
<1>8. Len(r.pipeline) + Len(batches) <= Len(q) /\ Len(r.pipeline) + Len(batches) <= kMaxPendingWrites
  BY <1>1, <1>4, <1>5, <1>6, WritePipelineAssumption
<1>9. IsAdded(s, r, batches, q)
  BY <1>6, <1>7, <1>8, AddedIsAdded
<1>. HIDE DEF s
<1>10. Sound(t, q) /\ t.handshake = r.handshake /\ t.down = r.down
  <2>1. CASE s.pipeline = <<>>
    <3>. DEFINE m == MarkIdle(s.stream)
    <3>1. s \in Store /\ Matches(m) /\ IsOpen(m) = IsOpen(s.stream)
      BY <1>9, MarkIdleMatches DEF IsAdded, Sound
    <3>2. t = [s EXCEPT !.stream = m]
      BY <2>1
    <3>3. m.idle => s.handshake
      <4>1. CASE IsOpen(s.stream)
        <5>1. p = <<>> /\ batches = <<>>
          <6>1. p \o batches = <<>> /\ Len(p \o batches) = Len(p) + Len(batches)
            <7>1. p \o batches = <<>>
              BY <1>9, <2>1 DEF IsAdded
            <7>2. Len(p \o batches) = Len(p) + Len(batches)
              BY <1>1, <1>6, ConcatPositions
            <7>. QED
              BY <7>1, <7>2
          <6>2. Len(p) + Len(batches) = 0
            BY <6>1
          <6>. QED
            BY <1>1, <1>6, <6>2
        <5>2. k = 0 /\ n = 0
          BY <1>6, <5>1
        <5>3. q = <<>>
          <6>1. k \in {Len(more), kMaxPendingWrites - n}
            <7>1. Len(more) \in Nat /\ room(r) = kMaxPendingWrites - n /\ room(r) \in Nat
              BY <1>1, <1>4, WritePipelineAssumption DEF room
            <7>. QED
              BY <7>1, MinIsLeast DEF k
          <6>2. Len(q) = 0
            BY <1>1, <1>4, <5>2, <6>1, WritePipelineAssumption
          <6>. QED
            BY <6>2
        <5>. QED
          BY <1>9, <4>1, <5>3 DEF IsAdded
      <4>2. CASE ~IsOpen(s.stream)
        BY <1>9, <4>2 DEF MarkIdle, IsAdded, Sound
      <4>. QED
        BY <4>1, <4>2
    <3>. HIDE DEF m, t
    <3>4. t = [pipeline |-> s.pipeline, stream |-> m, handshake |-> s.handshake,
               up |-> s.up, down |-> s.down]
      BY <3>1, <3>2, NewStreamOf
    <3>5. /\ t.pipeline = s.pipeline /\ t.stream = m /\ t.handshake = s.handshake
          /\ t.up = s.up /\ t.down = s.down
      BY <3>4
    <3>6. t \in Store
      BY <3>1, <3>4, StoreShape DEF Store, Matches
    <3>7. Heads(t, q)
      BY <1>9, <3>5 DEF IsAdded, Sound, Heads
    <3>8. CallMatches(t)
      BY <1>9, <3>1, <3>5
         DEF IsAdded, Sound, CallMatches, Sent, Greeting, unfinished
    <3>9. Sound(t, q)
      BY <2>1, <3>1, <3>3, <3>5, <3>6, <3>7, <3>8 DEF Sound
    <3>. QED
      BY <1>9, <3>5, <3>9 DEF IsAdded
  <2>2. CASE s.pipeline # <<>>
    BY <1>9, <2>2 DEF IsAdded
  <2>. QED
    BY <2>1, <2>2
<1>. HIDE DEF t
<1>. QED
  BY <1>3, <1>10, StartIfNeeded DEF IsFilled

-----------------------------------------------------------------------------
(* The calls that close the stream. *)

(* A new call is about to be made, or none is needed. *)
IsRestarted(s, q) == Sound(s, q) /\ Served(s) /\ ~s.handshake /\ s.down = <<>>

LEMMA FilledFresh ==
  ASSUME NEW r, NEW q \in Seq(Batch), Ordered(q), IsFresh(r, q)
  PROVE  IsRestarted(FillWritePipeline(r, q), q)
BY FillIsFilled DEF IsFresh, IsRestarted, IsFilled

LEMMA OnWriteStreamCloseRestarts ==
  ASSUME NEW r, NEW q, Sound(r, q)
  PROVE  IsRestarted(OnWriteStreamClose(r), q)
PROOF
<1>. DEFINE s == closed(r, FALSE)
<1>1. r \in Store /\ IsClosed(s, r)
  BY ClosedIsClosed DEF Sound
<1>. HIDE DEF s
<1>2. Heads(s, q)
  BY <1>1 DEF Sound, Heads, IsClosed
<1>3. Sound(s, q)
  BY <1>1, <1>2, ClosedIsSound
<1>4. IsFilled(startIfNeeded(s), s, q)
  BY <1>3, StartIfNeeded
<1>. QED
  BY <1>1, <1>4 DEF OnWriteStreamClose, IsRestarted, IsFilled, IsClosed, s

LEMMA StopCloses ==
  ASSUME NEW r, NEW q, Sound(r, q)
  PROVE  IsClosed(Stop(r), r)
PROOF
<1>1. CASE IsStarted(r.stream)
  BY <1>1, ClosedIsClosed DEF Stop, Sound
<1>2. CASE ~IsStarted(r.stream)
  <2>1. ~IsOpen(r.stream) /\ ~r.stream.idle
    BY <1>2 DEF Sound, Matches, TimersMatch, IsStarted, IsOpen
  <2>2. Stop(r) = r
    BY <1>2 DEF Stop
  <2>. QED
    BY <1>2, <2>1, <2>2 DEF Sound, CallMatches, IsClosed
<1>. QED
  BY <1>1, <1>2

LEMMA StopWhenIdle ==
  ASSUME NEW r, NEW q, Sound(r, q), r.pipeline = <<>>
  PROVE  IsRestarted(Stop(r), q)
PROOF
<1>1. IsClosed(Stop(r), r) /\ r \in Store
  BY StopCloses DEF Sound
<1>2. Heads(Stop(r), q)
  BY <1>1 DEF Sound, Heads, IsClosed
<1>3. Sound(Stop(r), q)
  BY <1>1, <1>2, ClosedIsSound
<1>. QED
  BY <1>1, <1>3 DEF IsRestarted, IsClosed, Served

LEMMA RestartNetworkRestarts ==
  ASSUME NEW r, NEW p, Sound(r, p), NEW q \in Seq(Batch), Ordered(q)
  PROVE  IsRestarted(RestartNetwork(r, q), q)
PROOF
<1>. DEFINE s == Stop(r)
            t == [s EXCEPT !.pipeline = <<>>, !.stream = InhibitBackoff(@)]
<1>1. IsClosed(s, r)
  BY StopCloses
<1>. HIDE DEF s
<1>2. /\ <<>> \in Seq(Batch) /\ Len(<<>>) <= Len(q) /\ Len(<<>>) <= kMaxPendingWrites
      /\ \A i \in 1..Len(<<>>) : <<>>[i] = q[i]
  BY WritePipelineAssumption
<1>3. IsFresh(t, q)
  BY <1>1, <1>2, InhibitedIsFresh
<1>4. RestartNetwork(r, q) = FillWritePipeline(t, q)
  BY DEF RestartNetwork, s
<1>. HIDE DEF t
<1>. QED
  BY <1>3, <1>4, FilledFresh

LEMMA TailOrdered ==
  ASSUME NEW q \in Seq(Batch), Ordered(q), q # <<>>
  PROVE  Tail(q) \in Seq(Batch) /\ Ordered(Tail(q))
PROOF
<1>1. /\ Tail(q) \in Seq(Batch) /\ DOMAIN q = 1..Len(q) /\ DOMAIN Tail(q) = 1..(Len(q) - 1)
      /\ Len(q) \in Nat
      /\ \A i \in DOMAIN Tail(q) : Tail(q)[i] = q[i + 1] /\ i + 1 \in DOMAIN q
  BY TailPositions
<1>2. ASSUME NEW i \in DOMAIN Tail(q), NEW j \in DOMAIN Tail(q), i < j
      PROVE  Tail(q)[i].id < Tail(q)[j].id
  <2>1. i + 1 < j + 1 /\ i + 1 \in DOMAIN q /\ j + 1 \in DOMAIN q
    BY <1>1, <1>2
  <2>2. q[i + 1].id < q[j + 1].id
    BY <2>1 DEF Ordered
  <2>. QED
    BY <1>1, <2>2
<1>. QED
  BY <1>1, <1>2 DEF Ordered

(* The pipeline without its first batch leads the queue without it. *)
LEMMA HeadsOfTails ==
  ASSUME NEW p \in Seq(Batch), NEW q \in Seq(Batch), p # <<>>,
         Len(p) <= Len(q), Len(p) <= kMaxPendingWrites, \A i \in 1..Len(p) : p[i] = q[i]
  PROVE  /\ q # <<>> /\ Head(q) = Head(p) /\ Tail(p) \in Seq(Batch)
         /\ Len(Tail(p)) <= Len(Tail(q)) /\ Len(Tail(p)) <= kMaxPendingWrites
         /\ \A i \in 1..Len(Tail(p)) : Tail(p)[i] = Tail(q)[i]
PROOF
<1>1. /\ Head(p) = p[1] /\ Len(p) \in Nat /\ 1 \in DOMAIN p /\ DOMAIN p = 1..Len(p)
      /\ Tail(p) \in Seq(Batch) /\ Len(Tail(p)) = Len(p) - 1
      /\ DOMAIN Tail(p) = 1..(Len(p) - 1)
      /\ \A i \in DOMAIN Tail(p) : Tail(p)[i] = p[i + 1] /\ i + 1 \in DOMAIN p
  BY TailPositions
<1>2. q # <<>>
  BY <1>1
<1>3. /\ Head(q) = q[1] /\ Len(q) \in Nat /\ Len(Tail(q)) = Len(q) - 1
      /\ DOMAIN Tail(q) = 1..(Len(q) - 1)
      /\ \A i \in DOMAIN Tail(q) : Tail(q)[i] = q[i + 1]
  BY <1>2, TailPositions
<1>4. Len(Tail(p)) <= Len(Tail(q)) /\ Len(Tail(p)) <= kMaxPendingWrites /\ 1 \in 1..Len(p)
  BY <1>1, <1>3, WritePipelineAssumption
<1>5. ASSUME NEW i \in 1..Len(Tail(p))
      PROVE  Tail(p)[i] = Tail(q)[i]
  <2>1. i \in DOMAIN Tail(p) /\ i \in DOMAIN Tail(q)
    BY <1>1, <1>3
  <2>2. Tail(p)[i] = p[i + 1] /\ i + 1 \in 1..Len(p) /\ Tail(q)[i] = q[i + 1]
    BY <1>1, <1>3, <2>1
  <2>. QED
    BY <2>2
<1>. QED
  BY <1>1, <1>2, <1>3, <1>4, <1>5

LEMMA HandleWriteErrorRestarts ==
  ASSUME NEW r, NEW q \in Seq(Batch), Ordered(q), Sound(r, q), r.pipeline # <<>>
  PROVE  IsRestarted(HandleWriteError(r, Tail(q)), Tail(q))
PROOF
<1>. DEFINE s == closed(r, FALSE)
            p == Tail(r.pipeline)
            t == [s EXCEPT !.pipeline = p, !.stream = InhibitBackoff(@)]
            f == FillWritePipeline(t, Tail(q))
<1>1. r \in Store /\ IsClosed(s, r) /\ r.pipeline \in Seq(Batch)
  BY ClosedIsClosed, StoreShape DEF Sound
<1>2. /\ q # <<>> /\ p \in Seq(Batch)
      /\ Len(p) <= Len(Tail(q)) /\ Len(p) <= kMaxPendingWrites
      /\ \A i \in 1..Len(p) : p[i] = Tail(q)[i]
  BY <1>1, HeadsOfTails DEF Sound, Heads
<1>3. HandleWriteError(r, Tail(q)) = startIfNeeded(f)
  BY <1>1, Zenon DEF HandleWriteError, IsClosed
<1>. HIDE DEF s, p
<1>4. IsFresh(t, Tail(q))
  BY <1>1, <1>2, InhibitedIsFresh
<1>. HIDE DEF t
<1>5. Tail(q) \in Seq(Batch) /\ Ordered(Tail(q))
  BY <1>2, TailOrdered
<1>6. IsRestarted(f, Tail(q))
  BY <1>4, <1>5, FilledFresh
<1>. HIDE DEF f
<1>7. IsFilled(startIfNeeded(f), f, Tail(q))
  BY <1>6, StartIfNeeded DEF IsRestarted
<1>. QED
  BY <1>3, <1>6, <1>7 DEF IsRestarted, IsFilled

LEMMA NoRemoteStoreIsFresh ==
  ASSUME NEW q \in Seq(Batch)
  PROVE  IsFresh(noRemoteStore, q)
PROOF
<1>. DEFINE r == noRemoteStore
<1>1. /\ r.pipeline = <<>> /\ r.stream = NewStream /\ ~r.handshake /\ r.up = <<>> /\ r.down = <<>>
  BY DEF noRemoteStore
<1>2. Matches(r.stream) /\ ~IsOpen(r.stream) /\ ~r.stream.idle
  BY <1>1, NewStreamMatches DEF NewStream
<1>3. r \in Store
  <2>1. NewStream \in StreamRecord
    BY NewStreamMatches DEF Matches
  <2>. QED
    BY <2>1 DEF noRemoteStore, Store
<1>. HIDE DEF r
<1>4. Heads(r, q)
  BY <1>1, WritePipelineAssumption DEF Heads
<1>5. CallMatches(r)
  BY <1>1 DEF CallMatches, Greeting
<1>6. Sound(r, q)
  BY <1>2, <1>3, <1>4, <1>5 DEF Sound
<1>. QED
  BY <1>1, <1>2, <1>6 DEF IsFresh, r

-----------------------------------------------------------------------------
(* The invariant. *)

LEMMA InitInv == Init => IInv
PROOF
<1>. SUFFICES ASSUME Init PROVE IInv
  OBVIOUS
<1>. USE DEF Init
<1>1. MaxWrites \in Nat /\ MaxFaults \in Nat /\ MaxRestarts \in Nat
  BY WritePipelineAssumption
<1>2. IsFresh(noRemoteStore, <<>>)
  <2>1. <<>> \in Seq(Batch)
    OBVIOUS
  <2>. QED
    BY <2>1, NoRemoteStoreIsFresh
<1>3. Sound(rs, queue[user])
  BY <1>2 DEF IsFresh
<1>4. TypeOK
  <2>1. rs \in Store
    BY <1>3 DEF Sound
  <2>. QED
    BY <1>1, <2>1 DEF TypeOK, Store
<1>5. Served(rs) /\ ~rs.handshake
  BY DEF noRemoteStore, Served
<1>6. \A u \in User : answered(u) = 0 /\ DOMAIN queue[u] = {}
  BY DEF answered
<1>7. QueuesAreInOrder
  BY <1>6 DEF QueuesAreInOrder, Ordered
<1>8. CallbackIsForItsWrite
  BY DEF CallbackIsForItsWrite
<1>9. DecisionsAreInOrder
  BY <1>1, <1>6 DEF DecisionsAreInOrder, Write
<1>10. ResponsesAreTrue /\ AnswersAreTrue /\ ToldAfterAnswer /\ NewestStands
  BY <1>5 DEF ResponsesAreTrue, AnswersAreTrue, ToldAfterAnswer, NewestStands
<1>. QED
  BY <1>3, <1>4, <1>5, <1>7, <1>8, <1>9, <1>10 DEF IInv

LEMMA Types ==
  ASSUME TypeOK
  PROVE  /\ \A u \in User : queue[u] \in Seq(Batch)
         /\ rs \in Store /\ user \in User /\ queue[user] \in Seq(Batch)
         /\ \A u \in User : written[u] \in Nat /\ written[u] <= MaxWrites
         /\ \A u \in User : answered(u) \in Int /\ Len(queue[u]) \in Nat
         /\ \A u \in User, w \in Write :
              /\ outcome[u][w] \in {"none", "applied", "rejected"}
              /\ told[u][w] \in {"nothing", "ok", "failed"}
              /\ value[u] \in Nat
         /\ MaxWrites \in Nat
PROOF
<1>1. MaxWrites \in Nat
  BY WritePipelineAssumption
<1>2. \A u \in User : queue[u] \in Seq(Batch)
  BY DEF TypeOK
<1>3. \A u \in User : Len(queue[u]) \in Nat
  BY <1>2
<1>4. \A u \in User : written[u] \in Nat /\ written[u] <= MaxWrites
  BY <1>1 DEF TypeOK
<1>5. rs \in Store /\ user \in User
  BY DEF TypeOK, Store
<1>6. \A u \in User, w \in Write :
        /\ outcome[u][w] \in {"none", "applied", "rejected"}
        /\ told[u][w] \in {"nothing", "ok", "failed"}
        /\ value[u] \in Nat
  BY <1>1 DEF TypeOK
<1>. QED
  BY <1>1, <1>2, <1>3, <1>4, <1>5, <1>6 DEF answered

(* The answers on their way are counted by a number. *)
LEMMA HeardIsNumber ==
  ASSUME TypeOK
  PROVE  \A u \in User : heard(u) \in Nat
PROOF
<1>1. rs.down \in Seq(Message)
  BY Types, StoreShape
<1>. QED
  BY <1>1 DEF heard

(* Any restart, of the network, the user or the app, and every step of the *)
(* stream alone: no write is made, decided or answered.                    *)
LEMMA QueueKept ==
  ASSUME IInv, UNCHANGED <<queue, outcome, value, told, written>>,
         user' \in User, next_batch_id' \in Nat \ {0},
         \A u \in User : \A i \in DOMAIN queue[u] : queue[u][i].id < next_batch_id',
         mutation_callbacks' \in {mutation_callbacks, [u \in User |-> {}]},
         Sound(rs', queue[user']), Served(rs'),
         rs'.handshake => rs'.down = <<>> \/ (user' = user /\ rs.handshake /\ rs'.down = rs.down),
         faults' \in 0..MaxFaults, restarts' \in 0..MaxRestarts
  PROVE  IInv'
PROOF
<1>. USE DEF IInv
<1>1. TypeOK'
  <2>1. rs' \in Store
    BY DEF Sound
  <2>2. mutation_callbacks' \in [User -> SUBSET Batch]
    BY DEF TypeOK
  <2>. QED
    BY <2>1, <2>2 DEF TypeOK, Store
<1>2. \A u \in User : answered(u)' = answered(u)
  BY DEF answered
<1>3. QueuesAreInOrder'
  BY <1>2 DEF QueuesAreInOrder
<1>4. Sound(rs, queue[user])' /\ Served(rs)'
  OBVIOUS
<1>5. CallbackIsForItsWrite'
  BY DEF CallbackIsForItsWrite
<1>6. DecisionsAreInOrder' /\ AnswersAreTrue' /\ ToldAfterAnswer'
  BY <1>2 DEF DecisionsAreInOrder, AnswersAreTrue, ToldAfterAnswer
<1>7. ResponsesAreTrue'
  BY DEF ResponsesAreTrue
<1>8. NewestStands'
  <2>1. \A u \in User : heard(u) \in Nat /\ heard(u)' \in Nat
    <3>1. rs'.down \in Seq(Message)
      BY StoreShape DEF Sound
    <3>2. \A u \in User : heard(u)' \in Nat
      BY <3>1 DEF heard
    <3>. QED
      BY <3>2, HeardIsNumber
  <2>2. \A u \in User : heard(u)' <= heard(u)
    <3>1. TAKE u \in User
    <3>2. CASE u = user' /\ rs'.handshake /\ rs'.down # <<>>
      BY <2>1, <3>2 DEF heard
    <3>3. CASE ~(u = user' /\ rs'.handshake /\ rs'.down # <<>>)
      <4>1. heard(u)' = 0
        BY <3>3 DEF heard
      <4>. QED
        BY <2>1, <4>1
    <3>. QED
      BY <3>2, <3>3
  <2>3. ASSUME NEW u \in User, NEW w \in Write, outcome[u][w] = "applied"
        PROVE  value[u] >= w \/ w > answered(u) + heard(u)'
    <3>1. value[u] >= w \/ w > answered(u) + heard(u)
      BY <2>3 DEF NewestStands
    <3>2. answered(u) \in Int /\ w \in Int
      BY Types DEF Write
    <3>. QED
      BY <2>1, <2>2, <3>1, <3>2
  <2>. QED
    BY <1>2, <2>3 DEF NewestStands
<1>. QED
  BY <1>1, <1>3, <1>4, <1>5, <1>6, <1>7, <1>8

LEMMA OnlyStream ==
  ASSUME IInv, UNCHANGED <<local, server, told, written>>,
         Sound(rs', queue[user]), Served(rs'),
         rs'.handshake => rs'.down = <<>> \/ (rs.handshake /\ rs'.down = rs.down),
         faults' \in 0..MaxFaults, restarts' \in 0..MaxRestarts
  PROVE  IInv'
PROOF
<1>1. /\ UNCHANGED <<queue, outcome, value, told, written, user, next_batch_id>>
      /\ mutation_callbacks' = mutation_callbacks
  BY DEF local, server
<1>2. user' \in User /\ next_batch_id' \in Nat \ {0}
  BY <1>1 DEF IInv, TypeOK
<1>3. \A u \in User : \A i \in DOMAIN queue[u] : queue[u][i].id < next_batch_id'
  BY <1>1 DEF IInv, QueuesAreInOrder
<1>4. Sound(rs', queue[user'])
  BY <1>1
<1>. QED
  BY <1>1, <1>2, <1>3, <1>4, QueueKept

(* The call goes on over another state of the same stream. *)
LEMMA StreamMoves ==
  ASSUME NEW r, NEW q, Sound(r, q), Served(r), NEW x, Matches(x),
         IsOpen(x) = IsOpen(r.stream), IsStarted(r.stream) => IsStarted(x),
         x.idle => r.stream.idle
  PROVE  IsFilled([r EXCEPT !.stream = x], r, q)
PROOF
<1>. DEFINE t == [r EXCEPT !.stream = x]
<1>1. r \in Store
  BY DEF Sound
<1>2. t = [pipeline |-> r.pipeline, stream |-> x, handshake |-> r.handshake,
           up |-> r.up, down |-> r.down]
  BY <1>1, NewStreamOf
<1>. HIDE DEF t
<1>3. /\ t.pipeline = r.pipeline /\ t.stream = x /\ t.handshake = r.handshake
      /\ t.up = r.up /\ t.down = r.down
  BY <1>2
<1>4. t \in Store
  BY <1>1, <1>2, StoreShape DEF Store, Matches
<1>5. Heads(t, q)
  BY <1>3 DEF Sound, Heads
<1>6. CallMatches(t)
  BY <1>3 DEF Sound, CallMatches, Sent, Greeting, unfinished
<1>7. Sound(t, q) /\ Served(t)
  BY <1>3, <1>4, <1>5, <1>6 DEF Sound, Served
<1>. QED
  BY <1>3, <1>7 DEF IsFilled, t

LEMMA CredentialsArriveInv ==
  ASSUME IInv, CredentialsArrive
  PROVE  IInv'
PROOF
<1>. DEFINE x == OnStreamStart(rs.stream)
            a == [rs EXCEPT !.stream = x]
            q == queue[user]
<1>1. rs \in Store /\ Matches(rs.stream) /\ rs.stream.token /\ Sound(rs, q)
  BY DEF IInv, Sound, CredentialsArrive
<1>2. ~IsOpen(rs.stream)
  BY <1>1 DEF Matches, TimersMatch, IsOpen
<1>3. Matches(x) /\ IsOpen(x) /\ IsStarted(x) /\ ~x.idle
  BY <1>1, OnStreamStartMatches
<1>4. rs' = [a EXCEPT !.up = <<0>>]
  BY DEF CredentialsArrive
<1>. HIDE DEF x
<1>5. a = [pipeline |-> rs.pipeline, stream |-> x, handshake |-> rs.handshake,
           up |-> rs.up, down |-> rs.down]
  BY <1>1, NewStreamOf
<1>. HIDE DEF a
<1>6. rs' = [[pipeline |-> rs.pipeline, stream |-> x, handshake |-> rs.handshake,
              up |-> rs.up, down |-> rs.down] EXCEPT !.up = <<0>>]
  BY <1>4, <1>5, Zenon
<1>7. rs' = [pipeline |-> rs.pipeline, stream |-> x, handshake |-> rs.handshake,
             up |-> <<0>>, down |-> rs.down]
  BY <1>6
<1>8. /\ rs'.pipeline = rs.pipeline /\ rs'.stream = x /\ rs'.handshake = rs.handshake
      /\ rs'.up = <<0>> /\ rs'.down = rs.down
  BY <1>7
<1>9. rs.down = <<>> /\ ~rs.handshake
  BY <1>1, <1>2 DEF Sound, CallMatches
<1>10. rs' \in Store
  <2>1. <<0>> \in Seq(Write \cup {0})
    OBVIOUS
  <2>. QED
    BY <1>1, <1>3, <1>7, <2>1, StoreShape DEF Store, Matches
<1>11. Heads(rs', q)
  BY <1>1, <1>8 DEF Sound, Heads
<1>12. CallMatches(rs')
  BY <1>3, <1>8, <1>9 DEF CallMatches, Greeting
<1>13. Sound(rs', q) /\ Served(rs')
  BY <1>3, <1>8, <1>10, <1>11, <1>12 DEF Sound, Served
<1>14. faults' \in 0..MaxFaults /\ restarts' \in 0..MaxRestarts
  BY DEF CredentialsArrive, bounds, IInv, TypeOK
<1>15. UNCHANGED <<local, server, told, written>>
  BY DEF CredentialsArrive, bounds
<1>. QED
  BY <1>8, <1>9, <1>13, <1>14, <1>15, OnlyStream

LEMMA CredentialsArriveLateInv ==
  ASSUME IInv, CredentialsArriveLate
  PROVE  IInv'
PROOF
<1>. DEFINE x == LateCredentials(rs.stream)
<1>1. Matches(rs.stream) /\ rs.stream.late > 0 /\ Sound(rs, queue[user]) /\ Served(rs)
  BY DEF IInv, Sound, CredentialsArriveLate
<1>2. /\ Matches(x) /\ IsOpen(x) = IsOpen(rs.stream) /\ IsStarted(x) = IsStarted(rs.stream)
      /\ x.idle = rs.stream.idle
  BY <1>1, LateMatches
<1>3. rs' = [rs EXCEPT !.stream = x]
  BY DEF CredentialsArriveLate
<1>. HIDE DEF x
<1>4. IsFilled(rs', rs, queue[user])
  BY <1>1, <1>2, <1>3, StreamMoves
<1>5. faults' \in 0..MaxFaults /\ restarts' \in 0..MaxRestarts
  BY DEF CredentialsArriveLate, bounds, IInv, TypeOK
<1>6. UNCHANGED <<local, server, told, written>>
  BY DEF CredentialsArriveLate, bounds
<1>. QED
  BY <1>4, <1>5, <1>6, OnlyStream DEF IsFilled

LEMMA WriteBackoffElapsedInv ==
  ASSUME IInv, WriteBackoffElapsed
  PROVE  IInv'
PROOF
<1>. DEFINE x == BackoffElapsed(rs.stream)
<1>1. Matches(rs.stream) /\ rs.stream.backoff /\ Sound(rs, queue[user]) /\ Served(rs)
  BY DEF IInv, Sound, WriteBackoffElapsed
<1>2. Matches(x) /\ ~IsOpen(x) /\ IsStarted(x) /\ ~x.idle
  BY <1>1, BackoffElapsedMatches
<1>3. ~IsOpen(rs.stream)
  BY <1>1 DEF Matches, TimersMatch, IsOpen
<1>4. IsOpen(x) = IsOpen(rs.stream)
  BY <1>2, <1>3 DEF IsOpen
<1>5. rs' = [rs EXCEPT !.stream = x]
  BY DEF WriteBackoffElapsed
<1>. HIDE DEF x
<1>6. IsFilled(rs', rs, queue[user])
  BY <1>1, <1>2, <1>4, <1>5, StreamMoves
<1>7. faults' \in 0..MaxFaults /\ restarts' \in 0..MaxRestarts
  BY DEF WriteBackoffElapsed, bounds, IInv, TypeOK
<1>8. UNCHANGED <<local, server, told, written>>
  BY DEF WriteBackoffElapsed, bounds
<1>. QED
  BY <1>6, <1>7, <1>8, OnlyStream DEF IsFilled

LEMMA WriteStreamIdleInv ==
  ASSUME IInv, WriteStreamIdle
  PROVE  IInv'
PROOF
<1>1. Sound(rs, queue[user]) /\ rs.pipeline = <<>>
  BY DEF IInv, Sound, WriteStreamIdle
<1>2. IsRestarted(rs', queue[user])
  BY <1>1, StopWhenIdle DEF WriteStreamIdle
<1>3. faults' \in 0..MaxFaults /\ restarts' \in 0..MaxRestarts
  BY DEF WriteStreamIdle, bounds, IInv, TypeOK
<1>4. UNCHANGED <<local, server, told, written>>
  BY DEF WriteStreamIdle, bounds
<1>. QED
  BY <1>2, <1>3, <1>4, OnlyStream DEF IsRestarted

LEMMA CallFailsInv ==
  ASSUME IInv, CredentialsFail \/ WriteStreamBreaks
  PROVE  IInv'
PROOF
<1>1. Sound(rs, queue[user]) /\ rs' = OnWriteStreamClose(rs)
  BY DEF IInv, CredentialsFail, WriteStreamBreaks
<1>2. IsRestarted(rs', queue[user])
  BY <1>1, OnWriteStreamCloseRestarts
<1>3. faults' \in 0..MaxFaults /\ restarts' \in 0..MaxRestarts
  <2>1. faults \in Nat /\ MaxFaults \in Nat /\ faults < MaxFaults /\ faults' = faults + 1
    BY WritePipelineAssumption DEF IInv, TypeOK, CredentialsFail, WriteStreamBreaks
  <2>2. restarts' \in 0..MaxRestarts
    BY DEF IInv, TypeOK, CredentialsFail, WriteStreamBreaks
  <2>. QED
    BY <2>1, <2>2
<1>4. UNCHANGED <<local, server, told, written>>
  BY DEF CredentialsFail, WriteStreamBreaks
<1>. QED
  BY <1>2, <1>3, <1>4, OnlyStream DEF IsRestarted

LEMMA ConnectivityChangeInv ==
  ASSUME IInv, ConnectivityChange
  PROVE  IInv'
PROOF
<1>1. /\ Sound(rs, queue[user]) /\ queue[user] \in Seq(Batch) /\ Ordered(queue[user])
      /\ rs' = RestartNetwork(rs, queue[user])
  BY Types DEF IInv, QueuesAreInOrder, ConnectivityChange
<1>2. IsRestarted(rs', queue[user])
  BY <1>1, RestartNetworkRestarts
<1>3. faults' \in 0..MaxFaults /\ restarts' \in 0..MaxRestarts
  <2>1. restarts \in Nat /\ MaxRestarts \in Nat /\ restarts < MaxRestarts /\ restarts' = restarts + 1
    BY WritePipelineAssumption DEF IInv, TypeOK, ConnectivityChange
  <2>2. faults' \in 0..MaxFaults
    BY DEF IInv, TypeOK, ConnectivityChange
  <2>. QED
    BY <2>1, <2>2
<1>4. UNCHANGED <<local, server, told, written>>
  BY DEF ConnectivityChange
<1>. QED
  BY <1>2, <1>3, <1>4, OnlyStream DEF IsRestarted

(* LoadNextBatchIdFromDb is beyond every id on disk. *)
LEMMA LoadNextIsNew ==
  ASSUME TypeOK, QueuesAreInOrder
  PROVE  /\ loadNextBatchId \in Nat \ {0}
         /\ \A u \in User : \A i \in DOMAIN queue[u] : queue[u][i].id < loadNextBatchId
PROOF
<1>. DEFINE ids == {0} \cup UNION {{queue[u][i].id : i \in DOMAIN queue[u]} : u \in User}
<1>1. \A u \in User : \A i \in DOMAIN queue[u] : queue[u][i].id \in Nat
  <2>1. TAKE u \in User
  <2>2. TAKE i \in DOMAIN queue[u]
  <2>. QED
    BY Types, BatchFields
<1>2. ids \in SUBSET Nat /\ 0 \in ids
  BY <1>1
<1>3. next_batch_id \in Nat /\ \A x \in ids : x <= next_batch_id
  <2>1. next_batch_id \in Nat /\ 0 <= next_batch_id
    BY DEF TypeOK
  <2>2. ASSUME NEW u \in User, NEW i \in DOMAIN queue[u]
        PROVE  queue[u][i].id <= next_batch_id
    BY <1>1, <2>1, <2>2 DEF QueuesAreInOrder
  <2>. QED
    BY <2>1, <2>2
<1>4. \A u \in User : \A i \in DOMAIN queue[u] : queue[u][i].id \in ids
  OBVIOUS
<1>5. loadNextBatchId = 1 + Max(ids)
  BY DEF loadNextBatchId
<1>. HIDE DEF ids
<1>6. Max(ids) \in ids /\ \A x \in ids : x <= Max(ids)
  BY <1>2, <1>3, MaxIsGreatest
<1>7. Max(ids) \in Nat
  BY <1>2, <1>6
<1>8. ASSUME NEW u \in User, NEW i \in DOMAIN queue[u]
      PROVE  queue[u][i].id < loadNextBatchId
  BY <1>1, <1>4, <1>5, <1>6, <1>7
<1>. QED
  BY <1>5, <1>7, <1>8

LEMMA HandleCredentialChangeInv ==
  ASSUME IInv, HandleCredentialChange
  PROVE  IInv'
PROOF
<1>1. user' \in User /\ rs' = RestartNetwork(rs, queue[user'])
  BY DEF HandleCredentialChange
<1>2. Sound(rs, queue[user]) /\ queue[user'] \in Seq(Batch) /\ Ordered(queue[user'])
  BY <1>1, Types DEF IInv, QueuesAreInOrder
<1>3. IsRestarted(rs', queue[user'])
  BY <1>1, <1>2, RestartNetworkRestarts
<1>4. /\ next_batch_id' \in Nat \ {0}
      /\ \A u \in User : \A i \in DOMAIN queue[u] : queue[u][i].id < next_batch_id'
  BY LoadNextIsNew DEF IInv, HandleCredentialChange
<1>5. faults' \in 0..MaxFaults /\ restarts' \in 0..MaxRestarts
  <2>1. restarts \in Nat /\ MaxRestarts \in Nat /\ restarts < MaxRestarts /\ restarts' = restarts + 1
    BY WritePipelineAssumption DEF IInv, TypeOK, HandleCredentialChange
  <2>2. faults' \in 0..MaxFaults
    BY DEF IInv, TypeOK, HandleCredentialChange
  <2>. QED
    BY <2>1, <2>2
<1>6. UNCHANGED <<queue, outcome, value, told, written>> /\ mutation_callbacks' = mutation_callbacks
  BY DEF HandleCredentialChange, server
<1>. QED
  BY <1>1, <1>3, <1>4, <1>5, <1>6, QueueKept DEF IsRestarted

LEMMA CrashInv ==
  ASSUME IInv, Crash
  PROVE  IInv'
PROOF
<1>1. /\ user' = user /\ user \in User /\ queue[user] \in Seq(Batch) /\ Ordered(queue[user])
      /\ rs' = FillWritePipeline(noRemoteStore, queue[user])
  BY Types DEF IInv, QueuesAreInOrder, Crash
<1>2. IsRestarted(rs', queue[user'])
  BY <1>1, NoRemoteStoreIsFresh, FilledFresh
<1>3. /\ next_batch_id' \in Nat \ {0}
      /\ \A u \in User : \A i \in DOMAIN queue[u] : queue[u][i].id < next_batch_id'
  BY LoadNextIsNew DEF IInv, Crash
<1>4. faults' \in 0..MaxFaults /\ restarts' \in 0..MaxRestarts
  <2>1. restarts \in Nat /\ MaxRestarts \in Nat /\ restarts < MaxRestarts /\ restarts' = restarts + 1
    BY WritePipelineAssumption DEF IInv, TypeOK, Crash
  <2>2. faults' \in 0..MaxFaults
    BY DEF IInv, TypeOK, Crash
  <2>. QED
    BY <2>1, <2>2
<1>5. /\ UNCHANGED <<queue, outcome, value, told, written>>
      /\ mutation_callbacks' \in {mutation_callbacks, [u \in User |-> {}]}
  BY DEF Crash, server
<1>. QED
  BY <1>1, <1>2, <1>3, <1>4, <1>5, QueueKept DEF IsRestarted

(* The only response before the handshake is its own. *)
LEMMA OnWriteStreamHandshakeCompleteInv ==
  ASSUME IInv, OnWriteStreamHandshakeComplete
  PROVE  IInv'
PROOF
<1>. DEFINE q == queue[user]
            p == rs.pipeline
            d == Tail(rs.down)
            u == rs.up \o requests(p)
<1>1. rs \in Store /\ Sound(rs, q) /\ Served(rs) /\ Matches(rs.stream)
  BY DEF IInv, Sound
<1>2. rs.down # <<>> /\ ~rs.handshake
  BY DEF OnWriteStreamHandshakeComplete, received
<1>3. rs.up = <<>> /\ rs.down = <<response(0)>> /\ IsOpen(rs.stream)
  BY <1>1, <1>2 DEF Sound, CallMatches, Greeting
<1>4. p \in Seq(Batch) /\ requests(p) \in Seq(Write)
  BY <1>1, StoreShape, Requests
<1>5. u = requests(p) /\ d = <<>>
  <2>1. u = requests(p)
    BY <1>3, <1>4, ConcatEmptySeq
  <2>2. d = <<>>
    BY <1>3
  <2>. QED
    BY <2>1, <2>2
<1>6. rs' = [rs EXCEPT !.handshake = TRUE, !.down = d, !.up = u]
  BY DEF OnWriteStreamHandshakeComplete
<1>. HIDE DEF u, d
<1>. DEFINE a == [rs EXCEPT !.handshake = TRUE, !.down = d]
<1>7. rs' = [a EXCEPT !.up = u]
  BY <1>6
<1>8. a = [[pipeline |-> p, stream |-> rs.stream, handshake |-> rs.handshake,
            up |-> rs.up, down |-> rs.down] EXCEPT !.handshake = TRUE, !.down = <<>>]
  BY <1>1, <1>5, StoreShape, Zenon
<1>. HIDE DEF a
<1>9. a = [pipeline |-> p, stream |-> rs.stream, handshake |-> TRUE,
           up |-> rs.up, down |-> <<>>]
  BY <1>8
<1>10. rs' = [[pipeline |-> p, stream |-> rs.stream, handshake |-> TRUE,
               up |-> rs.up, down |-> <<>>] EXCEPT !.up = u]
  BY <1>7, <1>9, Zenon
<1>11. rs' = [pipeline |-> p, stream |-> rs.stream, handshake |-> TRUE, up |-> u, down |-> <<>>]
  BY <1>10
<1>12. /\ rs'.pipeline = p /\ rs'.stream = rs.stream /\ rs'.handshake = TRUE
       /\ rs'.up = requests(p) /\ rs'.down = <<>>
  BY <1>5, <1>11
<1>13. rs' \in Store
  <2>1. requests(p) \in Seq(Write \cup {0}) /\ <<>> \in Seq(Message)
    BY <1>4
  <2>. QED
    BY <1>1, <1>4, <1>5, <1>11, <2>1, StoreShape DEF Store
<1>14. Heads(rs', q)
  BY <1>1, <1>12 DEF Sound, Heads
<1>15. Sent(rs')
  <2>1. /\ DOMAIN rs'.up = 1..Len(p) /\ Len(rs'.up) = Len(p) /\ Len(p) \in Nat
        /\ \A i \in 1..Len(p) : rs'.up[i] = p[i].write
    BY <1>4, <1>12, Requests
  <2>2. Len(rs'.down) = 0 /\ DOMAIN rs'.down = {}
    BY <1>12
  <2>. QED
    BY <1>12, <2>1, <2>2 DEF Sent
<1>16. CallMatches(rs')
  BY <1>3, <1>12, <1>15 DEF CallMatches
<1>17. Sound(rs', q) /\ Served(rs')
  BY <1>1, <1>2, <1>12, <1>13, <1>14, <1>16 DEF Sound, Served
<1>18. faults' \in 0..MaxFaults /\ restarts' \in 0..MaxRestarts
  BY DEF OnWriteStreamHandshakeComplete, bounds, IInv, TypeOK
<1>19. UNCHANGED <<local, server, told, written>>
  BY DEF OnWriteStreamHandshakeComplete, bounds
<1>. QED
  BY <1>12, <1>17, <1>18, <1>19, OnlyStream

LEMMA BackendGreetsInv ==
  ASSUME IInv, BackendGreets
  PROVE  IInv'
PROOF
<1>. DEFINE q == queue[user]
            u == Tail(rs.up)
            d == Append(rs.down, response(0))
<1>1. rs \in Store /\ Sound(rs, q) /\ Served(rs) /\ Matches(rs.stream)
  BY DEF IInv, Sound
<1>2. rs.up # <<>> /\ Head(rs.up) = 0 /\ unfinished(rs)
  <2>1. rs.down \in Seq(Message) /\ \A i \in DOMAIN rs.down : rs.down[i] \in Message
    BY <1>1, StoreShape
  <2>. QED
    BY <2>1 DEF BackendGreets, backendHas, unfinished, Message
<1>3. ~rs.handshake
  <2>1. SUFFICES ASSUME rs.handshake PROVE FALSE
    OBVIOUS
  <2>2. Sent(rs)
    BY <1>1, <2>1 DEF Sound, CallMatches
  <2>3. /\ Len(rs.down) + Len(rs.up) = Len(rs.pipeline)
        /\ \A i \in DOMAIN rs.up : rs.up[i] = rs.pipeline[Len(rs.down) + i].write
    BY <1>2, <2>2 DEF Sent
  <2>4. rs.up \in Seq(Write \cup {0}) /\ rs.down \in Seq(Message) /\ rs.pipeline \in Seq(Batch)
    BY <1>1, StoreShape
  <2>5. 1 \in DOMAIN rs.up /\ Head(rs.up) = rs.up[1]
    BY <1>2, <2>4
  <2>6. Len(rs.down) + 1 \in DOMAIN rs.pipeline
    <3>. DEFINE m == Len(rs.down)
                k == Len(rs.up)
                n == Len(rs.pipeline)
    <3>1. m \in Nat /\ k \in Nat /\ n \in Nat /\ k >= 1 /\ DOMAIN rs.pipeline = 1..n
      BY <2>4, <2>5
    <3>2. m + k = n
      BY <2>3
    <3>. HIDE DEF m, k, n
    <3>3. m + 1 \in 1..n
      BY <3>1, <3>2
    <3>. QED
      BY <3>1, <3>3 DEF m
  <2>7. 0 \in Write
    BY <1>2, <2>3, <2>4, <2>5, <2>6, BatchFields
  <2>. QED
    BY <2>7 DEF Write
<1>4. rs.up = <<0>> /\ rs.down = <<>> /\ IsOpen(rs.stream)
  BY <1>1, <1>2, <1>3 DEF Sound, CallMatches, Greeting
<1>5. u = <<>> /\ d = <<response(0)>>
  BY <1>4
<1>6. rs' = [rs EXCEPT !.up = u, !.down = d]
  BY DEF BackendGreets
<1>. HIDE DEF u, d
<1>7. rs' = [[pipeline |-> rs.pipeline, stream |-> rs.stream, handshake |-> rs.handshake,
              up |-> rs.up, down |-> rs.down] EXCEPT !.up = u, !.down = d]
  BY <1>1, <1>6, StoreShape, Zenon
<1>8. rs' = [pipeline |-> rs.pipeline, stream |-> rs.stream, handshake |-> rs.handshake,
             up |-> <<>>, down |-> <<response(0)>>]
  BY <1>5, <1>7
<1>9. /\ rs'.pipeline = rs.pipeline /\ rs'.stream = rs.stream /\ rs'.handshake = rs.handshake
      /\ rs'.up = <<>> /\ rs'.down = <<response(0)>>
  BY <1>8
<1>10. rs' \in Store
  <2>1. <<>> \in Seq(Write \cup {0}) /\ <<response(0)>> \in Seq(Message)
    BY DEF Message, response
  <2>. QED
    BY <1>1, <1>8, <2>1, StoreShape DEF Store
<1>11. Heads(rs', q)
  BY <1>1, <1>9 DEF Sound, Heads
<1>12. CallMatches(rs')
  BY <1>3, <1>4, <1>9 DEF CallMatches, Greeting
<1>13. Sound(rs', q) /\ Served(rs')
  BY <1>1, <1>9, <1>10, <1>11, <1>12 DEF Sound, Served
<1>14. faults' \in 0..MaxFaults /\ restarts' \in 0..MaxRestarts
  BY DEF BackendGreets, bounds, IInv, TypeOK
<1>15. UNCHANGED <<local, server, told, written>>
  BY DEF BackendGreets, bounds
<1>. QED
  BY <1>3, <1>9, <1>13, <1>14, <1>15, OnlyStream

(* The bound of all writes bounds those of every user. *)
LEMMA RoomToWrite ==
  ASSUME TypeOK, Cardinality({c \in User \X Write : c[2] <= written[c[1]]}) < MaxWrites
  PROVE  written[user] < MaxWrites
PROOF
<1>1. MaxWrites \in Nat /\ user \in User /\ written[user] \in Nat /\ written[user] <= MaxWrites
  BY Types
<1>. SUFFICES ASSUME written[user] = MaxWrites PROVE FALSE
  BY <1>1
<1>. DEFINE S == {c \in User \X Write : c[2] <= written[c[1]]}
            T == {user} \X Write
<1>2. IsFiniteSet(Write) /\ Cardinality(Write) = MaxWrites
  BY <1>1, FS_Interval DEF Write
<1>3. IsFiniteSet({user}) /\ Cardinality({user}) = 1
  BY FS_Singleton
<1>4. Cardinality(T) = 1 * MaxWrites
  BY <1>2, <1>3, FS_Product
<1>5. IsFiniteSet(S)
  <2>1. IsFiniteSet(User \X Write)
    BY <1>2, FS_Product, WritePipelineAssumption
  <2>2. S \in SUBSET (User \X Write)
    OBVIOUS
  <2>. QED
    BY <2>1, <2>2, FS_Subset
<1>6. T \in SUBSET S
  BY <1>1 DEF Write
<1>7. Cardinality(T) <= Cardinality(S) /\ Cardinality(S) \in Nat
  BY <1>5, <1>6, FS_Subset, FS_CardinalityType
<1>8. Cardinality(S) < MaxWrites
  OBVIOUS
<1>. HIDE DEF S, T
<1>. QED
  BY <1>1, <1>4, <1>7, <1>8

LEMMA WriteMutationsInv ==
  ASSUME IInv, WriteMutations
  PROVE  IInv'
PROOF
<1>. DEFINE batch == [id |-> next_batch_id, write |-> written[user] + 1]
            q == queue[user]
            n == Len(q)
            p == Append(q, batch)
<1>1. /\ TypeOK /\ user \in User /\ user' = user /\ q \in Seq(Batch) /\ n \in Nat
      /\ next_batch_id \in Nat \ {0} /\ next_batch_id' = next_batch_id + 1
      /\ written[user] \in Nat
      /\ UNCHANGED <<outcome, value, told, faults, restarts>>
  BY Types DEF IInv, TypeOK, WriteMutations, server
<1>2. written[user] < MaxWrites
  BY <1>1, RoomToWrite DEF WriteMutations
<1>3. /\ queue' = [queue EXCEPT ![user] = p] /\ written' = [written EXCEPT ![user] = @ + 1]
      /\ rs' = FillWritePipeline(rs, p)
  BY DEF WriteMutations
<1>4. batch \in Batch /\ batch.id = next_batch_id /\ batch.write = written[user] + 1
  BY <1>1, <1>2, Types DEF Batch, Write
<1>. HIDE DEF batch
<1>5. /\ p \in Seq(Batch) /\ Len(p) = n + 1 /\ DOMAIN p = 1..(n + 1) /\ DOMAIN q = 1..n
      /\ \A i \in 1..n : p[i] = q[i]
      /\ p[n + 1] = batch
  BY <1>1, <1>4
<1>6. /\ queue' \in [User -> Seq(Batch)] /\ queue'[user] = p
      /\ \A u \in User \ {user} : queue'[u] = queue[u]
  BY <1>1, <1>3, <1>5 DEF TypeOK
<1>7. /\ written' \in [User -> 0..MaxWrites] /\ written'[user] = written[user] + 1
      /\ \A u \in User \ {user} : written'[u] = written[u]
  <2>1. written[user] + 1 \in 0..MaxWrites
    BY <1>1, <1>2, Types
  <2>. QED
    BY <1>1, <1>3, <2>1 DEF TypeOK
<1>. HIDE DEF p
<1>8. /\ Ordered(q) /\ \A i \in 1..n : q[i].id < next_batch_id
      /\ n <= written[user] /\ \A i \in 1..n : q[i].write = answered(user) + i
  BY <1>1, <1>5 DEF IInv, QueuesAreInOrder
<1>9. \A u \in User : answered(u)' = answered(u) /\ answered(u) \in Int
  <2>1. TAKE u \in User
  <2>2. answered(u) \in Int
    BY <1>1, Types
  <2>3. CASE u = user
    <3>1. answered(u)' = (written[user] + 1) - (n + 1)
      <4>1. answered(u)' = written'[user] - Len(queue'[user])
        BY <2>3 DEF answered
      <4>2. Len(queue'[user]) = n + 1 /\ written'[user] = written[user] + 1
        BY <1>5, <1>6, <1>7
      <4>3. answered(u)' = written'[user] - (n + 1)
        BY <4>1, <4>2
      <4>. QED
        BY <4>2, <4>3
    <3>2. answered(u) = written[user] - n
      BY <2>3 DEF answered
    <3>. HIDE DEF n
    <3>. QED
      BY <1>1, <2>2, <3>1, <3>2
  <2>4. CASE u # user
    BY <1>6, <1>7, <2>2, <2>4 DEF answered
  <2>. QED
    BY <2>3, <2>4
<1>10. Ordered(p) /\ \A i \in 1..(n + 1) : p[i].id < next_batch_id + 1
  <2>1. \A i \in 1..n : q[i].id \in Nat
    BY <1>1, <1>5, BatchFields
  <2>. HIDE DEF q, n
  <2>2. \A i \in 1..(n + 1) : i \in 1..n \/ i = n + 1
    BY <1>1
  <2>3. \A i \in 1..(n + 1) : p[i].id < next_batch_id + 1
    BY <1>1, <1>4, <1>5, <1>8, <2>1, <2>2
  <2>4. ASSUME NEW i \in 1..(n + 1), NEW j \in 1..(n + 1), i < j
        PROVE  p[i].id < p[j].id
    <3>1. i \in 1..n
      BY <1>1, <2>4
    <3>2. CASE j \in 1..n
      <4>1. q[i].id < q[j].id
        BY <1>5, <1>8, <2>4, <3>1, <3>2 DEF Ordered
      <4>. QED
        BY <1>5, <3>1, <3>2, <4>1
    <3>3. CASE j = n + 1
      BY <1>4, <1>5, <1>8, <3>1, <3>3
    <3>. QED
      BY <2>2, <3>2, <3>3
  <2>. QED
    BY <1>5, <2>3, <2>4 DEF Ordered
<1>11. QueuesAreInOrder'
  <2>1. ASSUME NEW u \in User
        PROVE  /\ Ordered(queue'[u])
               /\ \A i \in DOMAIN queue'[u] : queue'[u][i].id < next_batch_id'
               /\ Len(queue'[u]) <= written'[u]
               /\ \A i \in DOMAIN queue'[u] : queue'[u][i].write = answered(u)' + i
    <3>1. CASE u = user
      <4>1. Len(p) <= written[user] + 1
        <5>. HIDE DEF n
        <5>. QED
          BY <1>1, <1>5, <1>8
      <4>2. answered(u)' = written[user] - n
        BY <1>9, <3>1 DEF answered
      <4>3. ASSUME NEW i \in 1..(n + 1)
            PROVE  p[i].write = answered(u)' + i
        <5>1. CASE i \in 1..n
          BY <1>5, <1>8, <1>9, <3>1, <5>1
        <5>2. CASE i = n + 1
          <6>. HIDE DEF n
          <6>. QED
            BY <1>1, <1>4, <1>5, <4>2, <5>2
        <5>. QED
          BY <1>1, <5>1, <5>2
      <4>. QED
        BY <1>1, <1>5, <1>6, <1>7, <1>10, <3>1, <4>1, <4>3
    <3>2. CASE u # user
      <4>1. queue'[u] = queue[u] /\ written'[u] = written[u] /\ answered(u)' = answered(u)
        BY <1>6, <1>7, <1>9, <3>2
      <4>2. \A i \in DOMAIN queue[u] : queue[u][i].id < next_batch_id /\ queue[u][i].id \in Nat
        <5>1. queue[u] \in Seq(Batch)
          BY <1>1, Types
        <5>. QED
          BY <5>1, BatchFields DEF IInv, QueuesAreInOrder
      <4>3. \A i \in DOMAIN queue[u] : queue[u][i].id < next_batch_id'
        BY <1>1, <4>2
      <4>. QED
        BY <4>1, <4>3 DEF IInv, QueuesAreInOrder
    <3>. QED
      BY <3>1, <3>2
  <2>. QED
    BY <2>1 DEF QueuesAreInOrder
<1>12. IsFilled(rs', rs, p)
  <2>1. Sound(rs, q)
    BY DEF IInv
  <2>2. rs.pipeline \in Seq(Batch)
    BY <2>1, StoreShape DEF Sound
  <2>3. Len(rs.pipeline) <= n /\ Len(rs.pipeline) <= kMaxPendingWrites /\ Len(rs.pipeline) \in Nat
        /\ \A i \in 1..Len(rs.pipeline) : rs.pipeline[i] = q[i]
    BY <2>1, <2>2 DEF Sound, Heads
  <2>4. Len(rs.pipeline) <= Len(p) /\ \A i \in 1..Len(rs.pipeline) : i \in 1..n
    <3>. HIDE DEF n
    <3>. QED
      BY <1>1, <1>5, <2>3
  <2>5. Heads(rs, p)
    BY <1>5, <2>3, <2>4 DEF Heads
  <2>6. Sound(rs, p)
    BY <2>1, <2>5 DEF Sound
  <2>7. p # <<>>
    BY <1>5
  <2>. QED
    BY <1>3, <1>5, <1>10, <2>6, <2>7, FillIsFilled
<1>13. Sound(rs, queue[user])' /\ Served(rs)'
  BY <1>1, <1>6, <1>12 DEF IsFilled
<1>14. mutation_callbacks' =
         [mutation_callbacks EXCEPT ![user] =
            IF \E c \in @ : c.id = batch.id THEN @ ELSE @ \cup {batch}]
  BY DEF WriteMutations, batch
<1>15. /\ mutation_callbacks' \in [User -> SUBSET Batch]
       /\ mutation_callbacks'[user] \subseteq mutation_callbacks[user] \cup {batch}
       /\ \A u \in User \ {user} : mutation_callbacks'[u] = mutation_callbacks[u]
  <2>1. mutation_callbacks \in [User -> SUBSET Batch]
    BY <1>1 DEF TypeOK
  <2>. DEFINE s == IF \E c \in mutation_callbacks[user] : c.id = batch.id
                   THEN mutation_callbacks[user] ELSE mutation_callbacks[user] \cup {batch}
  <2>2. mutation_callbacks' = [mutation_callbacks EXCEPT ![user] = s]
    BY <1>14
  <2>3. s \in SUBSET Batch /\ s \subseteq mutation_callbacks[user] \cup {batch}
    BY <1>1, <1>4, <2>1
  <2>. HIDE DEF s
  <2>. QED
    BY <1>1, <2>1, <2>2, <2>3
<1>16. CallbackIsForItsWrite'
  <2>1. ToSet(p) = ToSet(q) \cup {batch}
    <3>. HIDE DEF n
    <3>1. \A i \in 1..(n + 1) : i \in 1..n \/ i = n + 1
      BY <1>1
    <3>2. \A i \in 1..n : i \in 1..(n + 1)
      BY <1>1
    <3>3. n + 1 \in 1..(n + 1)
      BY <1>1
    <3>. QED
      BY <1>5, <3>1, <3>2, <3>3 DEF ToSet
  <2>2. mutation_callbacks[user] \subseteq ToSet(q)
    BY <1>1 DEF IInv, CallbackIsForItsWrite
  <2>. QED
    BY <1>6, <1>15, <2>1, <2>2 DEF IInv, CallbackIsForItsWrite
<1>17. TypeOK'
  <2>1. rs' \in Store
    BY <1>13 DEF Sound
  <2>2. next_batch_id' \in Nat \ {0}
    BY <1>1
  <2>. QED
    BY <1>1, <1>6, <1>7, <1>15, <2>1, <2>2 DEF TypeOK, Store
<1>18. DecisionsAreInOrder'
  <2>1. \A u \in User : written'[u] \in Nat /\ written[u] \in Nat /\ written[u] <= written'[u]
    BY <1>1, <1>7, Types
  <2>2. \A w \in Write : w \in Nat
    BY DEF Write
  <2>3. \A u \in User, w \in Write : w > written'[u] => w > written[u]
    BY <2>1, <2>2
  <2>. QED
    BY <1>1, <1>9, <2>3 DEF IInv, DecisionsAreInOrder
<1>19. ResponsesAreTrue'
  BY <1>1, <1>12 DEF IInv, ResponsesAreTrue, IsFilled
<1>20. AnswersAreTrue' /\ ToldAfterAnswer'
  BY <1>1, <1>9 DEF IInv, AnswersAreTrue, ToldAfterAnswer
<1>21. NewestStands'
  <2>1. \A u \in User : heard(u)' = heard(u)
    BY <1>1, <1>12 DEF heard, IsFilled
  <2>. QED
    BY <1>1, <1>9, <2>1 DEF IInv, NewestStands
<1>. QED
  BY <1>11, <1>13, <1>16, <1>17, <1>18, <1>19, <1>20, <1>21 DEF IInv

-----------------------------------------------------------------------------
(* The first answer on its way. *)

LEMMA FirstAnswer ==
  ASSUME IInv, rs.handshake, rs.down # <<>>
  PROVE  /\ rs.pipeline \in Seq(Batch) /\ rs.pipeline # <<>> /\ queue[user] # <<>>
         /\ Head(rs.pipeline) = queue[user][1]
         /\ removed(queue[user], Head(rs.pipeline)) = Tail(queue[user])
         /\ Head(rs.pipeline).write = answered(user) + 1
         /\ Head(rs.pipeline).write = Head(rs.down).write
         /\ Head(rs.pipeline).write \in Write
         /\ outcome[user][Head(rs.pipeline).write] =
              IF Head(rs.down).kind = "response" THEN "applied" ELSE "rejected"
PROOF
<1>. DEFINE p == rs.pipeline
            q == queue[user]
            d == rs.down
<1>1. TypeOK /\ user \in User /\ q \in Seq(Batch) /\ Ordered(q) /\ Sound(rs, q)
  BY Types DEF IInv, QueuesAreInOrder
<1>2. rs \in Store /\ Heads(rs, q) /\ Sent(rs)
  BY <1>1 DEF Sound, CallMatches
<1>3. p \in Seq(Batch) /\ d \in Seq(Message)
  BY <1>2, StoreShape
<1>4. Head(d) = d[1] /\ 1 \in DOMAIN d /\ Len(d) \in Nat /\ Len(d) >= 1
  BY <1>3
<1>5. Len(d) <= Len(p) /\ d[1].write = p[1].write
  BY <1>2, <1>4 DEF Sent
<1>6. p # <<>> /\ Len(p) \in Nat /\ Len(p) >= 1
  BY <1>3, <1>4, <1>5
<1>7. Head(p) = p[1] /\ 1 \in 1..Len(p) /\ 1 \in DOMAIN p
  BY <1>3, <1>6
<1>8. Len(p) <= Len(q) /\ p[1] = q[1]
  BY <1>2, <1>7 DEF Heads
<1>9. q # <<>> /\ 1 \in DOMAIN q /\ Head(q) = q[1]
  BY <1>1, <1>6, <1>8
<1>10. removed(q, Head(q)) = Tail(q)
  BY <1>1, <1>9, RemoveOldest
<1>11. q[1].write = answered(user) + 1
  BY <1>1, <1>9 DEF IInv, QueuesAreInOrder
<1>12. p[1].write \in Write
  BY <1>3, <1>7, BatchFields
<1>13. outcome[user][d[1].write] = IF d[1].kind = "response" THEN "applied" ELSE "rejected"
  BY <1>4 DEF IInv, ResponsesAreTrue
<1>. QED
  BY <1>3, <1>4, <1>5, <1>6, <1>7, <1>8, <1>9, <1>10, <1>11, <1>12, <1>13

(* The callbacks under the id of the oldest batch are its own. *)
LEMMA NotifyOwn ==
  ASSUME IInv, queue[user] # <<>>, NEW result \in {"ok", "failed"},
         NotifyUser(queue[user][1], result)
  PROVE  /\ told' \in [User -> [Write -> {"nothing", "ok", "failed"}]]
         /\ mutation_callbacks' \in [User -> SUBSET Batch]
         /\ \A u \in User, w \in Write :
              \/ told'[u][w] = told[u][w]
              \/ u = user /\ w = queue[user][1].write /\ told'[u][w] = result
         /\ mutation_callbacks'[user] \subseteq ToSet(Tail(queue[user]))
         /\ \A u \in User \ {user} : mutation_callbacks'[u] = mutation_callbacks[u]
PROOF
<1>. DEFINE q == queue[user]
            b == q[1]
            called == {c \in mutation_callbacks[user] : c.id = b.id}
            f == [w \in Write |-> IF \E c \in called : c.write = w THEN result ELSE told[user][w]]
<1>1. /\ user \in User /\ q \in Seq(Batch) /\ Ordered(q)
      /\ mutation_callbacks \in [User -> SUBSET Batch]
      /\ told \in [User -> [Write -> {"nothing", "ok", "failed"}]]
      /\ mutation_callbacks[user] \subseteq ToSet(q)
  BY Types DEF IInv, TypeOK, QueuesAreInOrder, CallbackIsForItsWrite
<1>2. 1 \in DOMAIN q /\ DOMAIN q = 1..Len(q) /\ Len(q) \in Nat
  BY <1>1
<1>3. \A i \in DOMAIN q : q[i].id \in Nat /\ (q[i].id = b.id => i = 1)
  <2>1. TAKE i \in DOMAIN q
  <2>2. q[i].id \in Nat /\ b.id \in Nat
    BY <1>1, <1>2, BatchFields
  <2>3. i # 1 => b.id < q[i].id
    BY <1>1, <1>2 DEF Ordered
  <2>. QED
    BY <2>2, <2>3
<1>4. \A c \in called : c = b
  BY <1>1, <1>3 DEF ToSet
<1>5. f \in [Write -> {"nothing", "ok", "failed"}]
  BY <1>1
<1>6. told' = [told EXCEPT ![user] = f]
  BY DEF NotifyUser
<1>7. \A w \in Write : f[w] = told[user][w] \/ (w = b.write /\ f[w] = result)
  BY <1>4
<1>. HIDE DEF f
<1>8. /\ told' \in [User -> [Write -> {"nothing", "ok", "failed"}]]
      /\ \A u \in User, w \in Write :
           \/ told'[u][w] = told[u][w]
           \/ u = user /\ w = b.write /\ told'[u][w] = result
  BY <1>1, <1>5, <1>6, <1>7
<1>9. mutation_callbacks' = [mutation_callbacks EXCEPT ![user] = mutation_callbacks[user] \ called]
  BY DEF NotifyUser
<1>10. mutation_callbacks[user] \ called \in SUBSET Batch
  BY <1>1
<1>11. mutation_callbacks[user] \ called \subseteq ToSet(Tail(q))
  <2>1. ASSUME NEW c \in mutation_callbacks[user], c.id # b.id
        PROVE  c \in ToSet(Tail(q))
    <3>1. PICK i \in DOMAIN q : c = q[i]
      BY <1>1 DEF ToSet
    <3>2. i # 1
      BY <2>1, <3>1
    <3>3. i - 1 \in DOMAIN Tail(q) /\ Tail(q)[i - 1] = q[i]
      BY <1>1, <3>2, TailPositions
    <3>. QED
      BY <3>1, <3>3 DEF ToSet
  <2>. QED
    BY <2>1
<1>. HIDE DEF called
<1>12. /\ mutation_callbacks' \in [User -> SUBSET Batch]
       /\ mutation_callbacks'[user] = mutation_callbacks[user] \ called
       /\ \A u \in User \ {user} : mutation_callbacks'[u] = mutation_callbacks[u]
  BY <1>1, <1>9, <1>10
<1>. QED
  BY <1>8, <1>11, <1>12

(* A write is answered, whatever happens to the stream. *)
LEMMA AnsweredInv ==
  ASSUME IInv, rs.handshake, rs.down # <<>>, NEW result \in {"ok", "failed"},
         result = "ok" <=> Head(rs.down).kind = "response",
         queue' = [queue EXCEPT ![user] = removed(queue[user], Head(rs.pipeline))],
         NotifyUser(Head(rs.pipeline), result),
         UNCHANGED <<next_batch_id, user, outcome, value, written, faults, restarts>>,
         Sound(rs', Tail(queue[user])), Served(rs'),
         rs'.handshake => rs'.down = Tail(rs.down)
  PROVE  IInv'
PROOF
<1>. DEFINE q == queue[user]
            n == Len(q)
            t == Tail(q)
            w0 == q[1].write
<1>1. /\ TypeOK /\ user \in User /\ q \in Seq(Batch) /\ n \in Nat /\ Ordered(q)
      /\ written[user] \in Nat /\ answered(user) \in Int
  BY Types DEF IInv, QueuesAreInOrder
<1>2. /\ q # <<>> /\ Head(rs.pipeline) = q[1]
      /\ removed(q, Head(rs.pipeline)) = t
      /\ w0 = answered(user) + 1 /\ w0 = Head(rs.down).write /\ w0 \in Write
      /\ outcome[user][w0] = IF Head(rs.down).kind = "response" THEN "applied" ELSE "rejected"
  BY FirstAnswer
<1>3. /\ t \in Seq(Batch) /\ Len(t) = n - 1 /\ DOMAIN t = 1..(n - 1) /\ DOMAIN q = 1..n
      /\ \A i \in DOMAIN t : t[i] = q[i + 1] /\ i + 1 \in DOMAIN q
      /\ n >= 1
  BY <1>1, <1>2, TailPositions
<1>4. /\ queue' \in [User -> Seq(Batch)] /\ queue'[user] = t
      /\ \A u \in User \ {user} : queue'[u] = queue[u]
  BY <1>1, <1>2, <1>3 DEF TypeOK
<1>5. /\ told' \in [User -> [Write -> {"nothing", "ok", "failed"}]]
      /\ mutation_callbacks' \in [User -> SUBSET Batch]
      /\ \A u \in User, w \in Write :
           \/ told'[u][w] = told[u][w]
           \/ u = user /\ w = w0 /\ told'[u][w] = result
      /\ mutation_callbacks'[user] \subseteq ToSet(t)
      /\ \A u \in User \ {user} : mutation_callbacks'[u] = mutation_callbacks[u]
  BY <1>2, NotifyOwn
<1>. HIDE DEF t, w0
<1>6. /\ answered(user)' = answered(user) + 1
      /\ \A u \in User \ {user} : answered(u)' = answered(u)
      /\ \A u \in User : answered(u) \in Int
  <2>1. answered(user)' = written[user] - Len(t)
    BY <1>4 DEF answered
  <2>2. answered(user) = written[user] - n
    BY DEF answered
  <2>3. answered(user)' = answered(user) + 1
    <3>. HIDE DEF n
    <3>. QED
      BY <1>1, <1>3, <2>1, <2>2
  <2>4. \A u \in User \ {user} : answered(u)' = answered(u)
    BY <1>4 DEF answered
  <2>. QED
    BY <1>1, <2>3, <2>4, Types
<1>7. QueuesAreInOrder'
  <2>1. Ordered(t)
    BY <1>1, <1>2, TailOrdered DEF t
  <2>2. ASSUME NEW u \in User
        PROVE  /\ Ordered(queue'[u])
               /\ \A i \in DOMAIN queue'[u] : queue'[u][i].id < next_batch_id'
               /\ Len(queue'[u]) <= written'[u]
               /\ \A i \in DOMAIN queue'[u] : queue'[u][i].write = answered(u)' + i
    <3>1. CASE u = user
      <4>1. \A i \in DOMAIN t : t[i].id < next_batch_id
        BY <1>1, <1>3 DEF IInv, QueuesAreInOrder
      <4>2. n <= written[user]
        BY <1>1 DEF IInv, QueuesAreInOrder
      <4>3. Len(t) <= written[user]
        <5>. HIDE DEF n
        <5>. QED
          BY <1>1, <1>3, <4>2
      <4>4. ASSUME NEW i \in DOMAIN t
            PROVE  t[i].write = (answered(user) + 1) + i
        <5>1. t[i].write = q[i + 1].write /\ i + 1 \in DOMAIN q /\ i \in Int
          BY <1>1, <1>3
        <5>2. q[i + 1].write = answered(user) + (i + 1)
          BY <1>1, <5>1 DEF IInv, QueuesAreInOrder
        <5>. QED
          BY <1>1, <5>1, <5>2
      <4>. QED
        BY <1>4, <1>6, <2>1, <3>1, <4>1, <4>3, <4>4
    <3>2. CASE u # user
      BY <1>4, <1>6, <3>2 DEF IInv, QueuesAreInOrder
    <3>. QED
      BY <3>1, <3>2
  <2>. QED
    BY <2>2 DEF QueuesAreInOrder
<1>8. Sound(rs, queue[user])' /\ Served(rs)'
  BY <1>4 DEF t
<1>9. CallbackIsForItsWrite'
  BY <1>4, <1>5 DEF IInv, CallbackIsForItsWrite
<1>10. TypeOK'
  <2>1. rs' \in Store
    BY <1>8 DEF Sound
  <2>. QED
    BY <1>1, <1>4, <1>5, <2>1 DEF TypeOK, Store
<1>11. \A w \in Write : w \in Nat
  BY DEF Write
<1>12. DecisionsAreInOrder'
  <2>1. ASSUME NEW u \in User, NEW w \in Write, w <= answered(u)'
        PROVE  outcome[u][w] # "none"
    <3>1. CASE u = user /\ w = w0
      BY <1>2, <3>1
    <3>2. CASE ~(u = user /\ w = w0)
      <4>1. w <= answered(u)
        BY <1>2, <1>6, <1>11, <2>1, <3>2
      <4>. QED
        BY <4>1 DEF IInv, DecisionsAreInOrder
    <3>. QED
      BY <3>1, <3>2
  <2>. QED
    BY <2>1 DEF IInv, DecisionsAreInOrder
<1>13. ResponsesAreTrue'
  <2>1. SUFFICES ASSUME rs'.handshake, NEW i \in DOMAIN rs'.down
                 PROVE  outcome[user][rs'.down[i].write] =
                          IF rs'.down[i].kind = "response" THEN "applied" ELSE "rejected"
    BY DEF ResponsesAreTrue
  <2>2. rs'.down = Tail(rs.down) /\ rs.down \in Seq(Message)
    BY <1>1, <2>1, Types, StoreShape
  <2>3. i + 1 \in DOMAIN rs.down /\ rs'.down[i] = rs.down[i + 1]
    BY <2>1, <2>2, TailPositions
  <2>. QED
    BY <2>3 DEF IInv, ResponsesAreTrue
<1>14. AnswersAreTrue'
  <2>1. ASSUME NEW u \in User, NEW w \in Write
        PROVE  /\ told'[u][w] = "ok" => outcome[u][w] = "applied"
               /\ told'[u][w] = "failed" => outcome[u][w] = "rejected"
    <3>1. CASE told'[u][w] = told[u][w]
      BY <3>1 DEF IInv, AnswersAreTrue
    <3>2. CASE u = user /\ w = w0 /\ told'[u][w] = result
      BY <1>2, <3>2
    <3>. QED
      BY <1>5, <3>1, <3>2
  <2>. QED
    BY <2>1 DEF AnswersAreTrue
<1>15. ToldAfterAnswer'
  <2>1. ASSUME NEW u \in User, NEW w \in Write, told'[u][w] # "nothing"
        PROVE  w <= answered(u)'
    <3>1. CASE told'[u][w] = told[u][w]
      <4>1. w <= answered(u)
        BY <2>1, <3>1 DEF IInv, ToldAfterAnswer
      <4>2. answered(u) <= answered(u)' /\ answered(u)' \in Int
        BY <1>6
      <4>. QED
        BY <1>6, <1>11, <4>1, <4>2
    <3>2. CASE u = user /\ w = w0
      BY <1>2, <1>6, <1>11, <3>2
    <3>. QED
      BY <1>5, <3>1, <3>2
  <2>. QED
    BY <2>1 DEF ToldAfterAnswer
<1>16. NewestStands'
  <2>1. rs.down \in Seq(Message) /\ Len(rs.down) \in Nat /\ Len(Tail(rs.down)) = Len(rs.down) - 1
        /\ Len(rs.down) >= 1
    BY <1>1, Types, StoreShape, TailPositions
  <2>2. heard(user) = Len(rs.down) /\ heard(user)' \in {0, Len(rs.down) - 1}
    BY <2>1 DEF heard
  <2>3. \A u \in User \ {user} : heard(u) = 0 /\ heard(u)' = 0
    BY DEF heard
  <2>4. ASSUME NEW u \in User, NEW w \in Write, outcome[u][w] = "applied"
        PROVE  value[u] >= w \/ w > answered(u)' + heard(u)'
    <3>1. value[u] >= w \/ w > answered(u) + heard(u)
      BY <2>4 DEF IInv, NewestStands
    <3>2. CASE u = user
      <4>. DEFINE m == Len(rs.down)
      <4>1. m \in Nat /\ m >= 1 /\ heard(user) = m /\ heard(user)' \in {0, m - 1}
        BY <2>1, <2>2
      <4>. HIDE DEF m
      <4>2. answered(user)' + heard(user)' <= answered(user) + heard(user)
        BY <1>1, <1>6, <4>1
      <4>3. heard(user)' \in Int /\ answered(user)' \in Int
        BY <1>1, <1>6, <4>1
      <4>. QED
        BY <1>1, <1>11, <3>1, <3>2, <4>1, <4>2, <4>3
    <3>3. CASE u # user
      BY <1>6, <2>3, <3>1, <3>3
    <3>. QED
      BY <3>2, <3>3
  <2>. QED
    BY <2>4 DEF NewestStands
<1>. QED
  BY <1>7, <1>8, <1>9, <1>10, <1>12, <1>13, <1>14, <1>15, <1>16 DEF IInv

LEMMA OnWriteStreamMutationResultInv ==
  ASSUME IInv, OnWriteStreamMutationResult
  PROVE  IInv'
PROOF
<1>. DEFINE q == queue[user]
            p == Tail(rs.pipeline)
            d == Tail(rs.down)
            r == [rs EXCEPT !.pipeline = Tail(@), !.down = Tail(@)]
<1>1. /\ rs.handshake /\ rs.down # <<>> /\ Head(rs.down).kind = "response"
      /\ Sound(rs, q) /\ q \in Seq(Batch) /\ Ordered(q) /\ rs \in Store
  BY Types DEF IInv, QueuesAreInOrder, OnWriteStreamMutationResult, received
<1>2. /\ rs.pipeline \in Seq(Batch) /\ rs.pipeline # <<>> /\ q # <<>>
      /\ removed(q, Head(rs.pipeline)) = Tail(q)
  BY <1>1, FirstAnswer
<1>3. rs' = FillWritePipeline(r, Tail(q))
  BY <1>2 DEF OnWriteStreamMutationResult
<1>4. /\ Len(rs.pipeline) <= Len(q) /\ Len(rs.pipeline) <= kMaxPendingWrites
      /\ \A i \in 1..Len(rs.pipeline) : rs.pipeline[i] = q[i]
  BY <1>1 DEF Sound, Heads
<1>5. /\ p \in Seq(Batch) /\ Len(p) <= Len(Tail(q)) /\ Len(p) <= kMaxPendingWrites
      /\ \A i \in 1..Len(p) : p[i] = Tail(q)[i]
  BY <1>1, <1>2, <1>4, HeadsOfTails
<1>6. Tail(q) \in Seq(Batch) /\ Ordered(Tail(q))
  BY <1>1, <1>2, TailOrdered
<1>7. rs.down \in Seq(Message) /\ rs.up \in Seq(Write \cup {0})
  BY <1>1, StoreShape
<1>8. /\ d \in Seq(Message) /\ Len(d) = Len(rs.down) - 1 /\ DOMAIN d = 1..(Len(rs.down) - 1)
      /\ Len(rs.down) \in Nat /\ Head(rs.down) = rs.down[1] /\ 1 \in DOMAIN rs.down
      /\ \A i \in DOMAIN d : d[i] = rs.down[i + 1] /\ i + 1 \in DOMAIN rs.down
      /\ \A i \in DOMAIN rs.down : i # 1 => i - 1 \in DOMAIN d /\ d[i - 1] = rs.down[i]
  BY <1>1, <1>7, TailPositions
<1>9. /\ Len(p) = Len(rs.pipeline) - 1 /\ DOMAIN p = 1..(Len(rs.pipeline) - 1)
      /\ Len(rs.pipeline) \in Nat
      /\ \A i \in DOMAIN p : p[i] = rs.pipeline[i + 1]
  BY <1>2, TailPositions
<1>10. r = [rs EXCEPT !.pipeline = p, !.down = d]
  BY Zenon
<1>. HIDE DEF p, d, r
<1>. DEFINE a == [rs EXCEPT !.pipeline = p]
<1>11. r = [a EXCEPT !.down = d]
  BY <1>10
<1>12. a = [[pipeline |-> rs.pipeline, stream |-> rs.stream, handshake |-> rs.handshake,
             up |-> rs.up, down |-> rs.down] EXCEPT !.pipeline = p]
  BY <1>1, StoreShape, Zenon
<1>. HIDE DEF a
<1>13. a = [pipeline |-> p, stream |-> rs.stream, handshake |-> rs.handshake,
            up |-> rs.up, down |-> rs.down]
  BY <1>12
<1>14. r = [[pipeline |-> p, stream |-> rs.stream, handshake |-> rs.handshake,
             up |-> rs.up, down |-> rs.down] EXCEPT !.down = d]
  BY <1>11, <1>13, Zenon
<1>15. r = [pipeline |-> p, stream |-> rs.stream, handshake |-> rs.handshake,
            up |-> rs.up, down |-> d]
  BY <1>14
<1>16. /\ r.pipeline = p /\ r.stream = rs.stream /\ r.handshake = rs.handshake
       /\ r.up = rs.up /\ r.down = d
  BY <1>15
<1>17. r \in Store
  BY <1>1, <1>5, <1>8, <1>15, StoreShape DEF Store
<1>18. Heads(r, Tail(q))
  BY <1>5, <1>16 DEF Heads
<1>19. Sent(r)
  <2>. DEFINE m == Len(rs.down)
              n == Len(rs.pipeline)
              k == Len(rs.up)
  <2>1. Sent(rs)
    BY <1>1 DEF Sound, CallMatches
  <2>2. /\ m \in Nat /\ n \in Nat /\ k \in Nat /\ m <= n
        /\ Len(p) = n - 1 /\ Len(d) = m - 1 /\ DOMAIN d = 1..(m - 1) /\ DOMAIN p = 1..(n - 1)
        /\ DOMAIN rs.up = 1..k
    BY <1>7, <1>8, <1>9, <2>1 DEF Sent
  <2>3. \A i \in DOMAIN rs.down : /\ rs.down[i].write = rs.pipeline[i].write
                                  /\ rs.down[i].kind = "finish" => i = m
    BY <2>1 DEF Sent
  <2>4. unfinished(rs) => m + k = n /\ \A i \in 1..k : rs.up[i] = rs.pipeline[m + i].write
    BY <2>1, <2>2 DEF Sent
  <2>. HIDE DEF m, n, k
  <2>5. Len(d) <= Len(p)
    BY <2>2
  <2>6. \A i \in DOMAIN d : d[i].write = p[i].write
    <3>1. TAKE i \in DOMAIN d
    <3>2. i \in DOMAIN p
      BY <2>2
    <3>. QED
      BY <1>8, <1>9, <2>3, <3>2
  <2>7. \A i \in DOMAIN d : d[i].kind = "finish" => i = Len(d)
    <3>1. TAKE i \in DOMAIN d
    <3>2. d[i].kind = "finish" => i + 1 = m
      BY <1>8, <2>3
    <3>. QED
      BY <2>2, <3>2
  <2>8. ASSUME unfinished(r)
        PROVE  /\ Len(d) + k = Len(p)
               /\ \A i \in 1..k : rs.up[i] = p[Len(d) + i].write
    <3>1. unfinished(rs)
      <4>1. ASSUME NEW i \in DOMAIN rs.down
            PROVE  rs.down[i].kind = "response"
        BY <1>1, <1>8, <1>16, <2>8 DEF unfinished
      <4>. QED
        BY <4>1 DEF unfinished
    <3>2. m + k = n /\ \A i \in 1..k : rs.up[i] = rs.pipeline[m + i].write
      BY <2>4, <3>1
    <3>3. \A i \in 1..k : Len(d) + i \in DOMAIN p /\ (Len(d) + i) + 1 = m + i
      <4>1. m >= 1
        BY <1>8 DEF m
      <4>. QED
        BY <2>2, <3>2, <4>1
    <3>4. Len(d) + k = Len(p)
      BY <2>2, <3>2
    <3>. QED
      BY <1>9, <3>2, <3>3, <3>4
  <2>. QED
    BY <1>16, <2>2, <2>5, <2>6, <2>7, <2>8 DEF Sent, k
<1>20. CallMatches(r)
  BY <1>1, <1>16, <1>19 DEF Sound, CallMatches
<1>21. ~rs.stream.idle
  BY <1>1, <1>2 DEF Sound
<1>22. Sound(r, Tail(q))
  BY <1>1, <1>16, <1>17, <1>18, <1>20, <1>21 DEF Sound
<1>23. IsFilled(rs', r, Tail(q))
  BY <1>1, <1>3, <1>6, <1>16, <1>22, FillIsFilled
<1>24. NotifyUser(Head(rs.pipeline), "ok")
       /\ queue' = [queue EXCEPT ![user] = removed(queue[user], Head(rs.pipeline))]
  BY DEF OnWriteStreamMutationResult
<1>25. UNCHANGED <<next_batch_id, user, outcome, value, written, faults, restarts>>
  BY DEF OnWriteStreamMutationResult, server, bounds
<1>26. rs'.down = Tail(rs.down)
  BY <1>16, <1>23 DEF IsFilled, d
<1>27. Sound(rs', Tail(queue[user])) /\ Served(rs')
  BY <1>23 DEF IsFilled
<1>. QED
  BY <1>1, <1>24, <1>25, <1>26, <1>27, AnsweredInv

LEMMA OnWriteRejectedInv ==
  ASSUME IInv, OnWriteRejected
  PROVE  IInv'
PROOF
<1>. DEFINE q == queue[user]
<1>1. /\ rs.down # <<>> /\ Head(rs.down).kind = "finish"
      /\ Sound(rs, q) /\ q \in Seq(Batch) /\ Ordered(q)
  BY Types DEF IInv, QueuesAreInOrder, OnWriteRejected, received
<1>2. rs.handshake
  <2>1. SUFFICES ASSUME ~rs.handshake PROVE FALSE
    OBVIOUS
  <2>2. rs.down = <<response(0)>>
    BY <1>1, <2>1 DEF Sound, CallMatches, Greeting
  <2>. QED
    BY <1>1, <2>2 DEF response
<1>3. rs.pipeline # <<>> /\ removed(q, Head(rs.pipeline)) = Tail(q)
  BY <1>1, <1>2, FirstAnswer
<1>4. rs' = HandleWriteError(rs, Tail(q))
  BY <1>3 DEF OnWriteRejected
<1>5. IsRestarted(rs', Tail(q))
  BY <1>1, <1>3, <1>4, HandleWriteErrorRestarts
<1>6. NotifyUser(Head(rs.pipeline), "failed")
      /\ queue' = [queue EXCEPT ![user] = removed(queue[user], Head(rs.pipeline))]
  BY DEF OnWriteRejected
<1>7. UNCHANGED <<next_batch_id, user, outcome, value, written, faults, restarts>>
  BY DEF OnWriteRejected, server, bounds
<1>8. Sound(rs', Tail(queue[user])) /\ Served(rs') /\ ~rs'.handshake
  BY <1>5 DEF IsRestarted
<1>9. "failed" = "ok" <=> Head(rs.down).kind = "response"
  BY <1>1
<1>. QED
  BY <1>1, <1>2, <1>6, <1>7, <1>8, <1>9, AnsweredInv

-----------------------------------------------------------------------------
(* The backend decides on the first write that is not answered. *)

LEMMA BackendHasNext ==
  ASSUME IInv, backendHas(FALSE)
  PROVE  /\ rs.handshake /\ unfinished(rs) /\ rs.up # <<>> /\ rs.up \in Seq(Write \cup {0})
         /\ Len(rs.down) + 1 \in DOMAIN rs.pipeline /\ Len(rs.down) + 1 \in DOMAIN queue[user]
         /\ Head(rs.up) = rs.pipeline[Len(rs.down) + 1].write
         /\ Head(rs.up) = queue[user][Len(rs.down) + 1].write
         /\ Head(rs.up) = answered(user) + (Len(rs.down) + 1)
         /\ Head(rs.up) \in Write
         /\ \A i \in DOMAIN rs.down : /\ i \in DOMAIN queue[user]
                                      /\ rs.down[i].write = queue[user][i].write
                                      /\ rs.down[i].write = answered(user) + i
                                      /\ rs.down[i].kind = "response"
         /\ rs.down \in Seq(Message) /\ Len(rs.down) \in Nat /\ DOMAIN rs.down = 1..Len(rs.down)
PROOF
<1>. DEFINE q == queue[user]
            m == Len(rs.down)
            k == Len(rs.up)
            n == Len(rs.pipeline)
<1>1. /\ Sound(rs, q) /\ q \in Seq(Batch) /\ rs \in Store /\ user \in User
      /\ answered(user) \in Int
  BY Types DEF IInv
<1>2. /\ rs.down \in Seq(Message) /\ rs.up \in Seq(Write \cup {0}) /\ rs.pipeline \in Seq(Batch)
  BY <1>1, StoreShape
<1>3. /\ m \in Nat /\ k \in Nat /\ n \in Nat /\ Len(q) \in Nat
      /\ DOMAIN rs.down = 1..m /\ DOMAIN rs.up = 1..k /\ DOMAIN rs.pipeline = 1..n
      /\ DOMAIN q = 1..Len(q)
  BY <1>1, <1>2
<1>4. rs.up # <<>> /\ Head(rs.up) # 0 /\ unfinished(rs)
  <2>1. \A i \in DOMAIN rs.down : rs.down[i].kind \in {"response", "finish"}
    <3>1. \A i \in DOMAIN rs.down : rs.down[i] \in Message
      BY <1>2
    <3>. QED
      BY <3>1 DEF Message
  <2>. QED
    BY <2>1 DEF backendHas, unfinished
<1>5. rs.handshake
  BY <1>1, <1>4 DEF Sound, CallMatches, Greeting
<1>6. Sent(rs)
  BY <1>1, <1>5 DEF Sound, CallMatches
<1>7. m + k = n /\ \A i \in 1..k : rs.up[i] = rs.pipeline[m + i].write
  BY <1>3, <1>4, <1>6 DEF Sent
<1>8. Head(rs.up) = rs.up[1] /\ k >= 1
  BY <1>2, <1>4
<1>9. /\ n <= Len(q) /\ \A i \in 1..n : rs.pipeline[i] = q[i]
  BY <1>1 DEF Sound, Heads
<1>10. \A i \in DOMAIN rs.down : rs.down[i].write = rs.pipeline[i].write /\ rs.down[i].kind = "response"
  BY <1>4, <1>6 DEF Sent, unfinished
<1>11. \A i \in DOMAIN q : q[i].write = answered(user) + i
  BY <1>1 DEF IInv, QueuesAreInOrder
<1>. HIDE DEF m, n, k, q
<1>12. m + 1 \in 1..n /\ 1 \in 1..k /\ m <= n
  BY <1>3, <1>7, <1>8
<1>13. \A i \in 1..n : i \in DOMAIN q /\ rs.pipeline[i] = q[i]
  BY <1>3, <1>9
<1>14. Head(rs.up) = rs.pipeline[m + 1].write /\ rs.pipeline[m + 1] \in Batch
  BY <1>2, <1>3, <1>7, <1>8, <1>12
<1>15. Head(rs.up) \in Write
  BY <1>14 DEF Batch
<1>16. Head(rs.up) = q[m + 1].write /\ m + 1 \in DOMAIN q /\ q[m + 1].write = answered(user) + (m + 1)
  BY <1>11, <1>12, <1>13, <1>14
<1>17. ASSUME NEW i \in DOMAIN rs.down
       PROVE  /\ i \in DOMAIN q /\ rs.down[i].write = q[i].write
              /\ rs.down[i].write = answered(user) + i /\ rs.down[i].kind = "response"
  <2>1. i \in 1..n
    BY <1>3, <1>12
  <2>. QED
    BY <1>10, <1>11, <1>13, <2>1
<1>. QED
  BY <1>2, <1>3, <1>4, <1>5, <1>12, <1>14, <1>15, <1>16, <1>17 DEF m, q

LEMMA DecidedInv ==
  ASSUME IInv, backendHas(FALSE), NEW o \in {"applied", "rejected"},
         NEW m \in Message, NEW u1 \in {Tail(rs.up), <<>>},
         m.write = Head(rs.up),
         IF o = "applied" THEN m.kind = "response" /\ u1 = Tail(rs.up)
                          ELSE m.kind = "finish" /\ u1 = <<>>,
         outcome' = [outcome EXCEPT ![user][Head(rs.up)] = o],
         value' = IF o = "applied" THEN [value EXCEPT ![user] = Head(rs.up)] ELSE value,
         rs' = [rs EXCEPT !.up = u1, !.down = Append(@, m)],
         UNCHANGED <<local, told, bounds>>
  PROVE  IInv'
PROOF
<1>. DEFINE q == queue[user]
            n == Len(rs.down)
            w0 == Head(rs.up)
            d == Append(rs.down, m)
<1>1. /\ TypeOK /\ user \in User /\ q \in Seq(Batch) /\ rs \in Store /\ Sound(rs, q) /\ Served(rs)
      /\ answered(user) \in Int
  BY Types DEF IInv
<1>2. /\ rs.handshake /\ unfinished(rs) /\ rs.up # <<>> /\ rs.up \in Seq(Write \cup {0})
      /\ n + 1 \in DOMAIN rs.pipeline /\ w0 = rs.pipeline[n + 1].write
      /\ w0 = answered(user) + (n + 1) /\ w0 \in Write
      /\ n \in Nat /\ rs.down \in Seq(Message) /\ DOMAIN rs.down = 1..n
      /\ n + 1 \in DOMAIN q
      /\ \A i \in DOMAIN rs.down : /\ rs.down[i].write = answered(user) + i
                                   /\ rs.down[i].kind = "response"
  BY BackendHasNext
<1>3. /\ queue' = queue /\ next_batch_id' = next_batch_id /\ user' = user /\ told' = told
      /\ mutation_callbacks' = mutation_callbacks /\ written' = written
      /\ faults' = faults /\ restarts' = restarts
  BY DEF local, bounds
<1>4. /\ d \in Seq(Message) /\ Len(d) = n + 1 /\ DOMAIN d = 1..(n + 1)
      /\ \A i \in 1..n : d[i] = rs.down[i]
      /\ d[n + 1] = m
  BY <1>2
<1>5. u1 \in Seq(Write \cup {0})
  <2>1. Tail(rs.up) \in Seq(Write \cup {0}) /\ <<>> \in Seq(Write \cup {0})
    BY <1>2, HeadTailProperties
  <2>. QED
    BY <2>1
<1>. HIDE DEF w0
<1>6. rs' = [rs EXCEPT !.up = u1, !.down = d]
  BY Zenon
<1>. HIDE DEF d
<1>. DEFINE a == [rs EXCEPT !.up = u1]
<1>7. rs' = [a EXCEPT !.down = d]
  BY <1>6
<1>8. a = [[pipeline |-> rs.pipeline, stream |-> rs.stream, handshake |-> rs.handshake,
            up |-> rs.up, down |-> rs.down] EXCEPT !.up = u1]
  BY <1>1, StoreShape, Zenon
<1>. HIDE DEF a
<1>9. a = [pipeline |-> rs.pipeline, stream |-> rs.stream, handshake |-> rs.handshake,
           up |-> u1, down |-> rs.down]
  BY <1>8
<1>10. rs' = [[pipeline |-> rs.pipeline, stream |-> rs.stream, handshake |-> rs.handshake,
               up |-> u1, down |-> rs.down] EXCEPT !.down = d]
  BY <1>7, <1>9, Zenon
<1>11. rs' = [pipeline |-> rs.pipeline, stream |-> rs.stream, handshake |-> rs.handshake,
              up |-> u1, down |-> d]
  BY <1>10
<1>12. /\ rs'.pipeline = rs.pipeline /\ rs'.stream = rs.stream /\ rs'.handshake = rs.handshake
       /\ rs'.up = u1 /\ rs'.down = d
  <2>. DEFINE z == rs'
  <2>1. z = [pipeline |-> rs.pipeline, stream |-> rs.stream, handshake |-> rs.handshake,
             up |-> u1, down |-> d]
    BY <1>11
  <2>. HIDE DEF z
  <2>2. /\ z.pipeline = rs.pipeline /\ z.stream = rs.stream /\ z.handshake = rs.handshake
        /\ z.up = u1 /\ z.down = d
    BY <2>1
  <2>. QED
    BY <2>2 DEF z
<1>13. rs' \in Store
  BY <1>1, <1>4, <1>5, <1>11, StoreShape DEF Store
<1>14. Heads(rs', q)
  BY <1>1, <1>12 DEF Sound, Heads
<1>15. Sent(rs')
  <2>. DEFINE k == Len(rs.up)
              l == Len(rs.pipeline)
  <2>1. Sent(rs)
    BY <1>1, <1>2 DEF Sound, CallMatches
  <2>2. k \in Nat /\ DOMAIN rs.up = 1..k /\ k >= 1
    BY <1>2
  <2>3. l \in Nat /\ DOMAIN rs.pipeline = 1..l
    BY <1>1, StoreShape
  <2>4. n + k = l /\ \A i \in 1..k : rs.up[i] = rs.pipeline[n + i].write
    BY <1>2, <2>1, <2>2 DEF Sent
  <2>5. \A i \in 1..n : rs.down[i].write = rs.pipeline[i].write
    BY <1>2, <2>1 DEF Sent
  <2>6. o = "applied" => /\ Len(u1) = k - 1 /\ DOMAIN u1 = 1..(k - 1)
                         /\ \A i \in 1..(k - 1) : u1[i] = rs.up[i + 1]
    BY <1>2, <2>2
  <2>. HIDE DEF k, l, n
  <2>7. \A i \in 1..(n + 1) : i \in 1..n \/ i = n + 1
    BY <1>2
  <2>8. n + 1 <= l
    BY <1>2, <2>2, <2>3, <2>4
  <2>9. \A i \in 1..(n + 1) : d[i].write = rs.pipeline[i].write
    BY <1>2, <1>4, <2>5, <2>7 DEF w0
  <2>10. \A i \in 1..(n + 1) : d[i].kind = "finish" => i = n + 1
    BY <1>2, <1>4, <2>7
  <2>11. ASSUME unfinished(rs')
         PROVE  /\ (n + 1) + Len(u1) = l
                /\ \A i \in DOMAIN u1 : u1[i] = rs.pipeline[(n + 1) + i].write
    <3>1. m.kind = "response"
      <4>1. n + 1 \in 1..(n + 1)
        BY <1>2
      <4>. QED
        BY <1>4, <1>12, <2>11, <4>1 DEF unfinished
    <3>2. o = "applied"
      BY <3>1
    <3>3. ASSUME NEW i \in 1..(k - 1)
          PROVE  u1[i] = rs.pipeline[(n + 1) + i].write
      <4>1. i + 1 \in 1..k /\ n + (i + 1) = (n + 1) + i
        BY <1>2, <2>2
      <4>2. u1[i] = rs.up[i + 1] /\ rs.up[i + 1] = rs.pipeline[n + (i + 1)].write
        BY <2>4, <2>6, <3>2, <4>1
      <4>. QED
        BY <4>1, <4>2
    <3>4. (n + 1) + (k - 1) = l
      BY <1>2, <2>2, <2>3, <2>4
    <3>. QED
      BY <2>6, <3>2, <3>3, <3>4
  <2>. QED
    <3>1. /\ Len(rs'.down) = n + 1 /\ DOMAIN rs'.down = 1..(n + 1) /\ Len(rs'.pipeline) = l
          /\ rs'.down = d /\ rs'.up = u1 /\ rs'.pipeline = rs.pipeline
      BY <1>4, <1>12 DEF l
    <3>2. Len(rs'.down) <= Len(rs'.pipeline)
      BY <2>8, <3>1, Zenon
    <3>3. \A i \in DOMAIN rs'.down : rs'.down[i].write = rs'.pipeline[i].write
      BY <2>9, <3>1, Zenon
    <3>4. \A i \in DOMAIN rs'.down : rs'.down[i].kind = "finish" => i = Len(rs'.down)
      BY <2>10, <3>1, Zenon
    <3>5. unfinished(rs') =>
            /\ Len(rs'.down) + Len(rs'.up) = Len(rs'.pipeline)
            /\ \A i \in DOMAIN rs'.up : rs'.up[i] = rs'.pipeline[Len(rs'.down) + i].write
      BY <2>11, <3>1, Zenon
    <3>. QED
      BY <3>2, <3>3, <3>4, <3>5, Zenon DEF Sent
<1>16. IsOpen(rs.stream)
  BY <1>1, <1>2 DEF Sound, CallMatches
<1>17. CallMatches(rs')
  BY <1>2, <1>12, <1>15, <1>16 DEF CallMatches
<1>18. Sound(rs, queue[user])' /\ Served(rs)'
  BY <1>1, <1>3, <1>12, <1>13, <1>14, <1>17 DEF Sound, Served
<1>19. /\ outcome' \in [User -> [Write -> {"none", "applied", "rejected"}]]
       /\ \A u \in User, w \in Write :
            outcome'[u][w] = IF u = user /\ w = w0 THEN o ELSE outcome[u][w]
  <2>1. outcome \in [User -> [Write -> {"none", "applied", "rejected"}]]
    BY <1>1 DEF TypeOK
  <2>. DEFINE f == [outcome[user] EXCEPT ![w0] = o]
  <2>2. outcome' = [outcome EXCEPT ![user] = f]
    BY DEF w0
  <2>3. /\ f \in [Write -> {"none", "applied", "rejected"}]
        /\ \A w \in Write : f[w] = IF w = w0 THEN o ELSE outcome[user][w]
    BY <1>1, <2>1
  <2>. HIDE DEF f
  <2>. DEFINE z == outcome'
  <2>4. z = [outcome EXCEPT ![user] = f]
    BY <2>2
  <2>. HIDE DEF z
  <2>5. /\ z \in [User -> [Write -> {"none", "applied", "rejected"}]]
        /\ \A u \in User : z[u] = IF u = user THEN f ELSE outcome[u]
    BY <1>1, <2>1, <2>3, <2>4
  <2>6. \A u \in User, w \in Write :
          z[u][w] = IF u = user /\ w = w0 THEN o ELSE outcome[u][w]
    BY <2>3, <2>5
  <2>. QED
    BY <2>5, <2>6 DEF z
<1>20. /\ value' \in [User -> 0..MaxWrites]
       /\ \A u \in User : value'[u] = IF u = user /\ o = "applied" THEN w0 ELSE value[u]
  <2>1. value \in [User -> 0..MaxWrites]
    BY <1>1 DEF TypeOK
  <2>2. w0 \in 0..MaxWrites
    BY <1>1, <1>2, Types DEF Write
  <2>3. value' = IF o = "applied" THEN [value EXCEPT ![user] = w0] ELSE value
    BY DEF w0
  <2>. QED
    BY <1>1, <2>1, <2>2, <2>3
<1>21. TypeOK'
  <2>1. rs' \in Store
    BY <1>13
  <2>. QED
    BY <1>1, <1>3, <1>19, <1>20, <2>1 DEF TypeOK, Store
<1>22. \A u \in User : answered(u)' = answered(u) /\ answered(u) \in Int
  BY <1>1, <1>3, Types DEF answered
<1>23. \A w \in Write : w \in Nat
  BY DEF Write
<1>24. QueuesAreInOrder' /\ CallbackIsForItsWrite'
  BY <1>3, <1>22 DEF IInv, QueuesAreInOrder, CallbackIsForItsWrite
<1>25. DecisionsAreInOrder'
  <2>1. w0 <= written[user]
    <3>1. n + 1 <= Len(q) /\ Len(q) <= written[user] /\ Len(q) \in Nat
      BY <1>1, <1>2 DEF IInv, QueuesAreInOrder
    <3>2. answered(user) = written[user] - Len(q) /\ written[user] \in Nat
      BY <1>1, Types DEF answered
    <3>. HIDE DEF q, n
    <3>. QED
      BY <1>2, <3>1, <3>2
  <2>2. \A u \in User, w \in Write : w > written[u] => ~(u = user /\ w = w0)
    BY <1>1, <1>2, <1>23, <2>1, Types
  <2>3. \A u \in User, w \in Write : w <= answered(u) => outcome'[u][w] # "none"
    BY <1>19 DEF IInv, DecisionsAreInOrder
  <2>. QED
    BY <1>3, <1>19, <1>22, <2>2, <2>3 DEF IInv, DecisionsAreInOrder
<1>26. ResponsesAreTrue'
  <2>1. ASSUME NEW i \in 1..(n + 1)
        PROVE  outcome'[user][d[i].write] =
                 IF d[i].kind = "response" THEN "applied" ELSE "rejected"
    <3>1. CASE i \in 1..n
      <4>1. d[i] = rs.down[i] /\ d[i].write = answered(user) + i /\ d[i].kind = "response"
        BY <1>2, <1>4, <3>1
      <4>2. d[i].write # w0
        BY <1>1, <1>2, <3>1, <4>1
      <4>3. d[i].write \in Write
        <5>1. rs.down[i] \in Message
          BY <1>2, <3>1
        <5>2. rs.down[i].write \in Write \cup {0} /\ rs.down[i].write = rs.pipeline[i].write
          BY <1>1, <1>2, <3>1, <5>1 DEF Message, Sound, CallMatches, Sent
        <5>3. i \in DOMAIN rs.pipeline /\ rs.pipeline \in Seq(Batch)
          <6>1. rs.pipeline \in Seq(Batch)
            BY <1>1, StoreShape
          <6>2. DOMAIN rs.pipeline = 1..Len(rs.pipeline) /\ Len(rs.pipeline) \in Nat
            BY <6>1
          <6>. HIDE DEF n
          <6>. QED
            BY <1>2, <3>1, <6>1, <6>2
        <5>. QED
          BY <4>1, <5>2, <5>3, BatchFields
      <4>4. outcome[user][rs.down[i].write] = "applied"
        BY <1>2, <3>1, <4>1 DEF IInv, ResponsesAreTrue
      <4>. QED
        BY <1>1, <1>19, <4>1, <4>2, <4>3, <4>4
    <3>2. CASE i = n + 1
      <4>1. outcome'[user][w0] = o
        BY <1>1, <1>2, <1>19
      <4>2. d[i].write = w0 /\ d[i].kind = m.kind
        BY <1>4, <3>2 DEF w0
      <4>. QED
        BY <4>1, <4>2
    <3>. QED
      BY <1>2, <3>1, <3>2
  <2>. QED
    BY <1>3, <1>4, <1>12, <2>1 DEF ResponsesAreTrue
<1>27. AnswersAreTrue' /\ ToldAfterAnswer'
  <2>1. told[user][w0] = "nothing"
    <3>1. ~(w0 <= answered(user))
      BY <1>1, <1>2, <1>23
    <3>. QED
      BY <1>1, <1>2, <3>1 DEF IInv, ToldAfterAnswer
  <2>2. AnswersAreTrue'
    BY <1>3, <1>19, <2>1 DEF IInv, AnswersAreTrue
  <2>3. ToldAfterAnswer'
    BY <1>3, <1>22 DEF IInv, ToldAfterAnswer
  <2>. QED
    BY <2>2, <2>3
<1>28. NewestStands'
  <2>1. heard(user) = n /\ heard(user)' = n + 1
    BY <1>2, <1>3, <1>4, <1>12 DEF heard
  <2>2. \A u \in User \ {user} : heard(u) = 0 /\ heard(u)' = 0
    BY <1>3 DEF heard
  <2>3. ASSUME NEW u \in User, NEW w \in Write, outcome'[u][w] = "applied"
        PROVE  value'[u] >= w \/ w > answered(u)' + heard(u)'
    <3>1. CASE u # user
      BY <1>19, <1>20, <1>22, <2>2, <2>3, <3>1 DEF IInv, NewestStands
    <3>2. CASE u = user /\ w > w0
      <4>1. w0 = answered(user) + (n + 1)
        BY <1>2
      <4>2. answered(u)' = answered(user) /\ heard(u)' = n + 1
        <5>1. u = user' /\ answered(u)' = answered(u)
          BY <1>3, <1>22, <3>2
        <5>. QED
          BY <1>3, <2>1, <3>2, <5>1
      <4>. HIDE DEF n
      <4>. QED
        BY <3>2, <4>1, <4>2
    <3>3. CASE u = user /\ ~(w > w0) /\ o = "applied"
      BY <1>2, <1>20, <1>23, <3>3
    <3>4. CASE u = user /\ ~(w > w0) /\ o = "rejected"
      <4>1. w # w0 /\ outcome[u][w] = "applied" /\ value'[u] = value[u]
        BY <1>2, <1>19, <1>20, <2>3, <3>4
      <4>2. value[u] >= w \/ w > answered(u) + heard(u)
        BY <4>1 DEF IInv, NewestStands
      <4>3. ~(w > answered(u) + heard(u))
        BY <1>1, <1>2, <1>23, <2>1, <3>4, <4>1
      <4>. QED
        BY <4>1, <4>2, <4>3
    <3>. QED
      BY <3>1, <3>2, <3>3, <3>4
  <2>. QED
    BY <2>3 DEF NewestStands
<1>. QED
  BY <1>18, <1>21, <1>24, <1>25, <1>26, <1>27, <1>28 DEF IInv

LEMMA BackendDecidesInv ==
  ASSUME IInv, BackendApplies \/ BackendRejects
  PROVE  IInv'
PROOF
<1>1. backendHas(FALSE) /\ Head(rs.up) \in Write
  BY BackendHasNext DEF BackendApplies, BackendRejects
<1>2. response(Head(rs.up)) \in Message /\ finish(Head(rs.up)) \in Message
  BY <1>1 DEF Message, response, finish
<1>3. CASE BackendApplies
  BY <1>1, <1>2, <1>3, DecidedInv DEF BackendApplies, response
<1>4. CASE BackendRejects
  BY <1>1, <1>2, <1>4, DecidedInv DEF BackendRejects, finish
<1>. QED
  BY <1>3, <1>4

-----------------------------------------------------------------------------
(* The invariant holds in every state. *)

LEMMA NextInv ==
  ASSUME IInv, [Next]_vars
  PROVE  IInv'
PROOF
<1>1. CASE WriteMutations
  BY <1>1, WriteMutationsInv
<1>2. CASE HandleCredentialChange
  BY <1>2, HandleCredentialChangeInv
<1>3. CASE ConnectivityChange
  BY <1>3, ConnectivityChangeInv
<1>4. CASE Crash
  BY <1>4, CrashInv
<1>5. CASE CredentialsArrive
  BY <1>5, CredentialsArriveInv
<1>6. CASE CredentialsFail \/ WriteStreamBreaks
  BY <1>6, CallFailsInv
<1>7. CASE CredentialsArriveLate
  BY <1>7, CredentialsArriveLateInv
<1>8. CASE WriteBackoffElapsed
  BY <1>8, WriteBackoffElapsedInv
<1>9. CASE WriteStreamIdle
  BY <1>9, WriteStreamIdleInv
<1>10. CASE OnWriteStreamHandshakeComplete
  BY <1>10, OnWriteStreamHandshakeCompleteInv
<1>11. CASE OnWriteStreamMutationResult
  BY <1>11, OnWriteStreamMutationResultInv
<1>12. CASE OnWriteRejected
  BY <1>12, OnWriteRejectedInv
<1>13. CASE BackendGreets
  BY <1>13, BackendGreetsInv
<1>14. CASE BackendApplies \/ BackendRejects
  BY <1>14, BackendDecidesInv
<1>15. CASE UNCHANGED vars
  <2>1. /\ UNCHANGED <<local, server, told, written>> /\ UNCHANGED bounds
        /\ rs' = rs
    BY <1>15 DEF vars, bounds
  <2>2. Sound(rs', queue[user]) /\ Served(rs')
    BY <2>1 DEF IInv
  <2>3. faults' \in 0..MaxFaults /\ restarts' \in 0..MaxRestarts
    BY <2>1 DEF bounds, IInv, TypeOK
  <2>. QED
    BY <2>1, <2>2, <2>3, OnlyStream
<1>. QED
  BY <1>1, <1>2, <1>3, <1>4, <1>5, <1>6, <1>7, <1>8, <1>9, <1>10, <1>11, <1>12, <1>13, <1>14,
     <1>15 DEF Next, System, Environment

THEOREM Invariance == Spec => []IInv
PROOF
<1>1. IInv /\ [Next]_vars => IInv'
  BY NextInv
<1>. QED
  BY <1>1, InitInv, PTL DEF Spec

(* Every variable is of its kind, whatever breaks.                         *)
THEOREM TypeCorrect == Spec => []TypeOK
PROOF
<1>1. IInv => TypeOK
  BY DEF IInv
<1>. QED
  BY <1>1, Invariance, PTL

(* The pipeline holds the oldest batches on disk of the user who is signed *)
(* in, at most as many as it may, for any number of writes and users.      *)
THEOREM PipelineFollowsQueue == Spec => []PipelineIsQueuePrefix
PROOF
<1>1. IInv => PipelineIsQueuePrefix
  <2>1. SUFFICES ASSUME IInv PROVE PipelineIsQueuePrefix
    OBVIOUS
  <2>2. Heads(rs, queue[user]) /\ rs.pipeline \in Seq(Batch) /\ queue[user] \in Seq(Batch)
    BY <2>1, Types, StoreShape DEF IInv, Sound
  <2>. QED
    BY <2>2, PrefixPositions DEF Heads, PipelineIsQueuePrefix
<1>. QED
  BY <1>1, Invariance, PTL

(* Callbacks stored under ids that are used again still belong to their    *)
(* own writes.                                                             *)
THEOREM CallbacksFindTheirWrite == Spec => []CallbackIsForItsWrite
PROOF
<1>1. IInv => CallbackIsForItsWrite
  BY DEF IInv
<1>. QED
  BY <1>1, Invariance, PTL

(* What a writer is told is what the backend decided, and stays so.        *)
THEOREM AnswersStayTrue == Spec => []AnswersAreTrue
PROOF
<1>1. IInv => AnswersAreTrue
  BY DEF IInv
<1>. QED
  BY <1>1, Invariance, PTL

(* The assertions of stream.cc and remote_store.cc on timers hold, and the *)
(* idle timer stops no stream that is needed.                              *)
THEOREM TimersAreRight == Spec => []TimersHold
PROOF
<1>1. IInv => TimersHold
  BY DEF IInv, Sound, Served, Matches, TimersHold
<1>. QED
  BY <1>1, Invariance, PTL

(* Once a user's queue is empty, no older write stands where a newer one   *)
(* was accepted, however often each was sent.                              *)
THEOREM QuietIsNewest == Spec => []QuietMeansNewest
PROOF
<1>1. IInv => QuietMeansNewest
  <2>1. SUFFICES ASSUME IInv, NEW u \in User, queue[u] = <<>>,
                        NEW w \in Write, outcome[u][w] = "applied"
                 PROVE  value[u] >= w
    BY DEF QuietMeansNewest
  <2>2. value[u] >= w \/ w > answered(u) + heard(u)
    BY <2>1 DEF IInv, NewestStands
  <2>3. ~(w > written[u])
    BY <2>1 DEF IInv, DecisionsAreInOrder
  <2>4. written[u] \in Nat /\ answered(u) = written[u] /\ w \in Nat
    BY <2>1, Types DEF IInv, answered, Write
  <2>5. heard(u) \in Nat
    BY HeardIsNumber, <2>1 DEF IInv
  <2>. QED
    BY <2>2, <2>3, <2>4, <2>5
<1>. QED
  BY <1>1, Invariance, PTL

(* A response, which names no write, is for the first one of the pipeline. *)
THEOREM ResponsesFindTheirWrite == Spec => []ResponseIsForFront
PROOF
<1>1. IInv => ResponseIsForFront
  <2>. SUFFICES ASSUME IInv PROVE ResponseIsForFront
    OBVIOUS
  <2>. DEFINE about == [i \in DOMAIN rs.down |-> rs.down[i].write]
              finished == {i \in DOMAIN rs.down : rs.down[i].kind = "finish"}
              n == Len(rs.down)
              b == requests(rs.pipeline)
  <2>1. /\ rs \in Store /\ Sound(rs, queue[user]) /\ rs.pipeline \in Seq(Batch)
        /\ rs.up \in Seq(Write \cup {0}) /\ rs.down \in Seq(Message)
    BY Types, StoreShape DEF IInv
  <2>2. n \in Nat /\ DOMAIN rs.down = 1..n /\ \A i \in 1..n : rs.down[i] \in Message
    BY <2>1
  <2>3. about \in Seq(Write \cup {0}) /\ Len(about) = n /\ \A i \in 1..n : about[i] = rs.down[i].write
    BY <2>2 DEF Message
  <2>4. /\ b \in Seq(Write \cup {0}) /\ Len(b) = Len(rs.pipeline) /\ DOMAIN b = DOMAIN rs.pipeline
        /\ \A i \in DOMAIN rs.pipeline : b[i] = rs.pipeline[i].write
    BY <2>1, Requests
  <2>5. unfinished(rs) <=> finished = {}
    BY <2>2 DEF unfinished, Message
  <2>6. CASE ~rs.handshake
    <3>1. Greeting(rs)
      BY <2>1, <2>6 DEF Sound, CallMatches
    <3>2. finished = {} /\ \A i \in DOMAIN rs.down : about[i] = 0
      BY <3>1 DEF Greeting, response
    <3>. QED
      BY <2>6, <3>2 DEF ResponseIsForFront
  <2>7. CASE rs.handshake
    <3>1. Sent(rs)
      BY <2>1, <2>7 DEF Sound, CallMatches
    <3>2. n <= Len(rs.pipeline) /\ Len(rs.pipeline) \in Nat /\ DOMAIN rs.pipeline = 1..Len(rs.pipeline)
          /\ \A i \in 1..n : rs.down[i].write = rs.pipeline[i].write
      BY <2>1, <2>2, <3>1 DEF Sent
    <3>3. IsPrefix(about, b)
      <4>1. \A i \in 1..n : about[i] = b[i]
        BY <2>2, <2>3, <2>4, <3>2
      <4>. HIDE DEF about, b, n
      <4>. QED
        BY <2>3, <2>4, <3>2, <4>1, PrefixPositions
    <3>4. finished # {} => finished = {n}
      BY <2>2, <3>1 DEF Sent
    <3>5. ASSUME finished = {}
          PROVE  about \o rs.up = b
      <4>1. /\ n + Len(rs.up) = Len(rs.pipeline)
            /\ \A i \in DOMAIN rs.up : rs.up[i] = rs.pipeline[n + i].write
        BY <2>5, <3>1, <3>5 DEF Sent
      <4>. DEFINE c == about \o rs.up
      <4>. HIDE DEF about, b, finished
      <4>2. /\ c \in Seq(Write \cup {0}) /\ Len(c) = n + Len(rs.up)
            /\ DOMAIN rs.up = 1..Len(rs.up) /\ Len(rs.up) \in Nat
            /\ \A i \in DOMAIN about : c[i] = about[i]
            /\ \A i \in DOMAIN rs.up : c[n + i] = rs.up[i]
            /\ DOMAIN about = 1..n
        <5>1. Len(about) = n
          BY <2>3
        <5>2. about \in Seq(Write \cup {0}) /\ rs.up \in Seq(Write \cup {0})
          BY <2>1, <2>3
        <5>3. /\ c \in Seq(Write \cup {0}) /\ Len(c) = Len(about) + Len(rs.up)
              /\ DOMAIN rs.up = 1..Len(rs.up) /\ Len(rs.up) \in Nat
              /\ \A i \in DOMAIN about : c[i] = about[i]
              /\ \A i \in DOMAIN rs.up : c[Len(about) + i] = rs.up[i]
              /\ DOMAIN about = 1..Len(about)
          BY <5>2, ConcatPositions
        <5>. QED
          BY <5>1, <5>3, Zenon
      <4>. HIDE DEF c, n
      <4>3. ASSUME NEW i \in 1..Len(b)
            PROVE  c[i] = b[i]
        <5>1. i \in DOMAIN rs.pipeline /\ b[i] = rs.pipeline[i].write
          BY <2>4, <3>2
        <5>2. CASE i <= n
          <6>1. i \in 1..n
            BY <2>2, <5>2
          <6>. QED
            BY <2>3, <3>2, <4>2, <5>1, <6>1
        <5>3. CASE i > n
          <6>1. i - n \in 1..Len(rs.up) /\ n + (i - n) = i
            BY <2>2, <2>4, <3>2, <4>1, <4>2, <5>3
          <6>2. c[n + (i - n)] = rs.up[i - n] /\ rs.up[i - n] = rs.pipeline[n + (i - n)].write
            BY <4>1, <4>2, <6>1
          <6>. QED
            BY <5>1, <6>1, <6>2
        <5>. QED
          BY <2>2, <5>2, <5>3
      <4>4. c = b
        BY <2>4, <4>1, <4>2, <4>3, SeqEqual
      <4>. QED
        BY <4>4 DEF c
    <3>. QED
      BY <2>7, <3>3, <3>4, <3>5, Zenon DEF ResponseIsForFront
  <2>. QED
    BY <2>6, <2>7
<1>. QED
  BY <1>1, Invariance, PTL

-----------------------------------------------------------------------------
(* The promise of WriteQueue, step by step. *)

LEMMA RequestsOfMore ==
  ASSUME NEW q \in Seq(Batch), NEW batch \in Batch
  PROVE  requests(Append(q, batch)) = Append(requests(q), batch.write)
PROOF
<1>. DEFINE p == Append(q, batch)
            a == requests(p)
            b == Append(requests(q), batch.write)
            n == Len(q)
<1>1. /\ p \in Seq(Batch) /\ n \in Nat /\ Len(p) = n + 1 /\ DOMAIN p = 1..(n + 1)
      /\ DOMAIN q = 1..n /\ \A i \in 1..n : p[i] = q[i]
      /\ p[n + 1] = batch
  OBVIOUS
<1>2. batch.write \in Write
  BY DEF Batch
<1>3. /\ requests(q) \in Seq(Write) /\ Len(requests(q)) = n
      /\ \A i \in 1..n : requests(q)[i] = q[i].write
  BY <1>1, Requests
<1>4. /\ b \in Seq(Write) /\ Len(b) = n + 1
      /\ \A i \in 1..n : b[i] = requests(q)[i]
      /\ b[n + 1] = batch.write
  BY <1>1, <1>2, <1>3
<1>5. /\ a \in Seq(Write) /\ Len(a) = n + 1
      /\ \A i \in 1..(n + 1) : a[i] = p[i].write
  BY <1>1, Requests
<1>. HIDE DEF a, b, n, p
<1>6. \A i \in 1..(n + 1) : i \in 1..n \/ i = n + 1
  BY <1>1
<1>7. \A i \in 1..(n + 1) : a[i] = b[i]
  BY <1>1, <1>3, <1>4, <1>5, <1>6
<1>8. a = b
  BY <1>4, <1>5, <1>7, SeqEqual
<1>. QED
  BY <1>8 DEF a, b, p

LEMMA RequestsOfTail ==
  ASSUME NEW q \in Seq(Batch), q # <<>>
  PROVE  /\ requests(q) # <<>> /\ Head(requests(q)) = q[1].write
         /\ requests(Tail(q)) = Tail(requests(q))
PROOF
<1>. DEFINE n == Len(q)
            t == Tail(q)
            r == requests(q)
            a == requests(t)
            b == Tail(r)
<1>1. /\ t \in Seq(Batch) /\ n \in Nat /\ n >= 1 /\ Len(t) = n - 1 /\ DOMAIN q = 1..n
      /\ DOMAIN t = 1..(n - 1) /\ \A i \in 1..(n - 1) : t[i] = q[i + 1]
  BY TailPositions
<1>2. r \in Seq(Write) /\ Len(r) = n /\ \A i \in 1..n : r[i] = q[i].write
  BY <1>1, Requests
<1>3. a \in Seq(Write) /\ Len(a) = n - 1 /\ \A i \in 1..(n - 1) : a[i] = t[i].write
  BY <1>1, Requests
<1>. HIDE DEF n, t, r, a
<1>4. r # <<>> /\ Head(r) = r[1] /\ 1 \in 1..n
  BY <1>1, <1>2
<1>5. b \in Seq(Write) /\ Len(b) = n - 1 /\ \A i \in 1..(n - 1) : b[i] = r[i + 1]
  BY <1>1, <1>2, <1>4, TailPositions
<1>. HIDE DEF b
<1>6. \A i \in 1..(n - 1) : i + 1 \in 1..n
  BY <1>1
<1>7. \A i \in 1..(n - 1) : a[i] = b[i]
  BY <1>1, <1>2, <1>3, <1>5, <1>6
<1>8. a = b
  BY <1>3, <1>5, <1>7, SeqEqual
<1>. QED
  BY <1>2, <1>4, <1>8 DEF a, b, r, t


LEMMA MakesOne ==
  ASSUME IInv, WriteMutations
  PROVE  Promise!Make(user)
PROOF
<1>. DEFINE w == written[user] + 1
            q == queue[user]
            batch == [id |-> next_batch_id, write |-> w]
            pending == [u \in User |-> requests(queue[u])]
<1>1. /\ TypeOK /\ user \in User /\ q \in Seq(Batch) /\ Len(q) \in Nat
      /\ written[user] \in Nat /\ answered(user) \in Int
      /\ next_batch_id \in Nat \ {0} /\ queue \in [User -> Seq(Batch)]
  BY Types DEF IInv, TypeOK
<1>2. written[user] < MaxWrites /\ MaxWrites \in Nat
  BY <1>1, RoomToWrite, Types DEF WriteMutations
<1>3. w \in Write /\ batch \in Batch
  BY <1>1, <1>2 DEF Write, Batch
<1>4. queue' = [queue EXCEPT ![user] = Append(q, batch)] /\ outcome' = outcome
  BY DEF WriteMutations, server
<1>5. /\ pending[user] = requests(q) /\ DOMAIN pending[user] = DOMAIN q
      /\ \A i \in DOMAIN q : pending[user][i] = answered(user) + i
  BY <1>1, Requests DEF IInv, QueuesAreInOrder
<1>6. answered(user) = written[user] - Len(q) /\ DOMAIN q = 1..Len(q)
  BY <1>1 DEF answered
<1>7. outcome[user][w] = "none"
  BY <1>1, <1>3 DEF IInv, DecisionsAreInOrder
<1>8. \A i \in DOMAIN pending[user] : pending[user][i] < w
  <2>1. TAKE i \in DOMAIN pending[user]
  <2>2. i \in 1..Len(q) /\ pending[user][i] = answered(user) + i
    BY <1>5, <1>6
  <2>. HIDE DEF q, pending
  <2>. QED
    BY <1>1, <1>6, <2>2
<1>9. ASSUME NEW v \in 1..(w - 1)
      PROVE  outcome[user][v] # "none" \/ \E i \in DOMAIN pending[user] : pending[user][i] = v
  <2>1. v \in Nat /\ v <= written[user] /\ v \in Write
    BY <1>1, <1>2 DEF Write
  <2>2. CASE v <= answered(user)
    BY <1>1, <2>1, <2>2 DEF IInv, DecisionsAreInOrder
  <2>3. CASE ~(v <= answered(user))
    <3>. HIDE DEF q, pending
    <3>1. v - answered(user) \in 1..Len(q) /\ answered(user) + (v - answered(user)) = v
      <4>. DEFINE a == answered(user)
                  m == Len(q)
      <4>1. a \in Int /\ m \in Nat /\ a = written[user] - m /\ written[user] \in Nat
        BY <1>1, <1>6
      <4>. HIDE DEF a, m
      <4>2. v - a \in 1..m /\ a + (v - a) = v
        BY <2>1, <2>3, <4>1 DEF a
      <4>. QED
        BY <4>2 DEF a, m
    <3>2. pending[user][v - answered(user)] = v
      BY <1>5, <1>6, <3>1
    <3>. QED
      BY <1>5, <1>6, <3>1, <3>2
  <2>. QED
    BY <2>2, <2>3
<1>10. pending' = [pending EXCEPT ![user] = Append(@, w)]
  <2>1. requests(Append(q, batch)) = Append(requests(q), w)
    BY <1>1, <1>3, RequestsOfMore
  <2>2. \A u \in User : queue'[u] = IF u = user THEN Append(q, batch) ELSE queue[u]
    BY <1>1, <1>4
  <2>3. \A u \in User : requests(queue'[u]) = IF u = user THEN Append(requests(q), w)
                                              ELSE requests(queue[u])
    BY <2>1, <2>2, Zenon
  <2>. QED
    BY <1>1, <2>3, Zenon
<1>. HIDE DEF pending, w
<1>. QED
  BY <1>3, <1>4, <1>7, <1>8, <1>9, <1>10 DEF Promise!Make, Promise!Write, Write, pending

LEMMA DecidesOne ==
  ASSUME IInv, backendHas(FALSE), NEW o \in {"applied", "rejected"},
         outcome' = [outcome EXCEPT ![user][Head(rs.up)] = o], queue' = queue
  PROVE  Promise!Decide(user)
PROOF
<1>. DEFINE q == queue[user]
            n == Len(rs.down)
            pending == [u \in User |-> requests(queue[u])]
<1>1. /\ user \in User /\ q \in Seq(Batch)
      /\ pending[user] = requests(q) /\ DOMAIN pending[user] = DOMAIN q
      /\ \A i \in DOMAIN q : pending[user][i] = q[i].write
  BY Types, Requests DEF IInv
<1>2. /\ rs.handshake /\ n \in Nat /\ DOMAIN rs.down = 1..n
      /\ n + 1 \in DOMAIN q /\ Head(rs.up) = q[n + 1].write
      /\ \A i \in 1..n : /\ i \in DOMAIN q
                         /\ rs.down[i].write = q[i].write
                         /\ rs.down[i].kind = "response"
  BY BackendHasNext
<1>3. n + 1 \in DOMAIN pending[user] /\ pending[user][n + 1] = Head(rs.up)
  BY <1>1, <1>2
<1>4. ASSUME NEW j \in 1..((n + 1) - 1)
      PROVE  outcome[user][pending[user][j]] # "none"
  <2>1. j \in 1..n
    BY <1>2
  <2>2. outcome[user][rs.down[j].write] = "applied"
    BY <1>2, <2>1 DEF IInv, ResponsesAreTrue
  <2>. QED
    BY <1>1, <1>2, <2>1, <2>2
<1>5. pending' = pending
  BY Zenon
<1>. HIDE DEF pending
<1>6. outcome' = [outcome EXCEPT ![user][pending[user][n + 1]] = o]
  BY <1>3
<1>. HIDE DEF n
<1>. QED
  BY <1>3, <1>4, <1>5, <1>6 DEF Promise!Decide, pending

LEMMA AnswersOne ==
  ASSUME IInv, OnWriteStreamMutationResult \/ OnWriteRejected
  PROVE  Promise!Answer(user)
PROOF
<1>. DEFINE q == queue[user]
            pending == [u \in User |-> requests(queue[u])]
<1>1. rs.down # <<>> /\ rs.handshake
  <2>1. rs.down # <<>> /\ (~rs.handshake => Head(rs.down).kind = "finish")
    BY DEF OnWriteStreamMutationResult, OnWriteRejected, received
  <2>2. ~rs.handshake => rs.down = <<response(0)>>
    BY <2>1 DEF IInv, Sound, CallMatches, Greeting
  <2>3. Head(<<response(0)>>).kind # "finish"
    BY DEF response
  <2>. QED
    BY <2>1, <2>2, <2>3
<1>2. /\ TypeOK /\ user \in User /\ q \in Seq(Batch) /\ queue \in [User -> Seq(Batch)]
      /\ outcome' = outcome
  BY Types DEF IInv, TypeOK, OnWriteStreamMutationResult, OnWriteRejected, server
<1>3. /\ q # <<>> /\ removed(q, Head(rs.pipeline)) = Tail(q)
      /\ Head(rs.pipeline) = q[1]
      /\ outcome[user][q[1].write] # "none"
  BY <1>1, FirstAnswer
<1>4. queue' = [queue EXCEPT ![user] = Tail(q)]
  BY <1>3 DEF OnWriteStreamMutationResult, OnWriteRejected
<1>5. /\ requests(q) # <<>> /\ Head(requests(q)) = q[1].write
      /\ requests(Tail(q)) = Tail(requests(q))
  BY <1>2, <1>3, RequestsOfTail
<1>6. pending[user] = requests(q)
  BY <1>2
<1>7. pending' = [pending EXCEPT ![user] = Tail(@)]
  <2>1. \A u \in User : queue'[u] = IF u = user THEN Tail(q) ELSE queue[u]
    BY <1>2, <1>4
  <2>2. \A u \in User : requests(queue'[u]) = IF u = user THEN Tail(requests(q))
                                              ELSE requests(queue[u])
    BY <1>5, <2>1, Zenon
  <2>. QED
    BY <1>2, <2>2, Zenon
<1>. HIDE DEF pending
<1>8. pending[user] # <<>> /\ outcome[user][Head(pending[user])] # "none"
  BY <1>3, <1>5, <1>6
<1>. QED
  BY <1>2, <1>7, <1>8 DEF Promise!Answer, pending

LEMMA StepImplements ==
  ASSUME IInv, [Next]_vars
  PROVE  [Promise!Next]_Promise!writeQueueVars
PROOF
<1>1. user \in User
  BY DEF IInv, TypeOK
<1>2. CASE WriteMutations
  BY <1>1, <1>2, MakesOne DEF Promise!Next
<1>3. CASE BackendApplies \/ BackendRejects
  <2>1. backendHas(FALSE) /\ queue' = queue
    BY <1>3 DEF BackendApplies, BackendRejects, local
  <2>2. \/ outcome' = [outcome EXCEPT ![user][Head(rs.up)] = "applied"]
        \/ outcome' = [outcome EXCEPT ![user][Head(rs.up)] = "rejected"]
    BY <1>3 DEF BackendApplies, BackendRejects
  <2>3. Promise!Decide(user)
    BY <2>1, <2>2, DecidesOne
  <2>. QED
    BY <1>1, <2>3 DEF Promise!Next
<1>4. CASE OnWriteStreamMutationResult \/ OnWriteRejected
  BY <1>1, <1>4, AnswersOne DEF Promise!Next
<1>5. CASE UNCHANGED <<queue, outcome>>
  BY <1>5 DEF Promise!writeQueueVars
<1>. QED
  BY <1>2, <1>3, <1>4, <1>5
     DEF Next, System, Environment, vars, local, server, HandleCredentialChange, ConnectivityChange,
         Crash, CredentialsArrive, CredentialsFail, CredentialsArriveLate, WriteBackoffElapsed,
         WriteStreamIdle, WriteStreamBreaks, OnWriteStreamHandshakeComplete, BackendGreets

(* The client keeps the promise of WriteQueue over every crash, break and  *)
(* change of user: what may happen at once there, happens in steps here.   *)
THEOREM KeepsPromise == Spec => ImplementsWriteQueue
PROOF
<1>1. Init => Promise!Init
  <2>1. requests(<<>>) = <<>>
    BY DEF requests
  <2>. QED
    BY <2>1 DEF Init, Promise!Init, Promise!Write, Write
<1>2. IInv /\ [Next]_vars => [Promise!Next]_Promise!writeQueueVars
  BY StepImplements
<1>. QED
  BY <1>1, <1>2, Invariance, PTL DEF Spec, ImplementsWriteQueue, Promise!Spec
=============================================================================
