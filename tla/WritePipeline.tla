--------------------------- MODULE WritePipeline ----------------------------
(***************************************************************************)
(* How a write leaves the device: SyncEngine, LocalStore's mutation queue  *)
(* on disk, RemoteStore's write pipeline, the write stream, the backend.   *)
(* The client's steps run one at a time on its worker queue; between any   *)
(* two of them the connection may break, the user or the network may       *)
(* change, and the app may be killed.                                      *)
(***************************************************************************)
EXTENDS Stream, Sequences, SequencesExt, FiniteSets, FiniteSetsExt

CONSTANTS
  User,
  MaxWrites,           \* bound: the writes of all users together
  kMaxPendingWrites,   \* the capacity of the write pipeline (10)
  MaxFaults,           \* bound: connections or credentials that fail
  MaxRestarts          \* bound: network or user changes, and crashes

ASSUME WritePipelineAssumption ==
  /\ User # {} /\ IsFiniteSet(User)
  /\ {MaxWrites, MaxFaults, MaxRestarts} \subseteq Nat
  /\ kMaxPendingWrites \in Nat \ {0}

VARIABLES
  queue,               \* per user: the mutation batches on disk, in order
  next_batch_id,       \* of the current user's LevelDbMutationQueue
  mutation_callbacks,  \* per user: the batches whose writer waits
  user,                \* current_user_
  rs,                  \* RemoteStore's pipeline, its stream and its messages
  outcome,             \* the backend: what it last did with each write
  value,               \* the backend, per user: the write applied last
  told,                \* what the writer was told
  written, faults, restarts

local == <<queue, next_batch_id, mutation_callbacks, user>>
server == <<outcome, value>>
bounds == <<written, faults, restarts>>
vars == <<local, rs, server, told, bounds>>

Write == 1..MaxWrites

(* A batch carries one write; ids of batches are used again once no batch  *)
(* is left on disk.                                                        *)
Batch == [id : Nat \ {0}, write : Write]

-----------------------------------------------------------------------------
(* RemoteStore, the half that sends.  Requests on their way are in up: 0   *)
(* is the handshake, n a write.  Answers on their way are in down: a       *)
(* response to either, or the end of the call because of a write.          *)

Message == [kind : {"response", "finish"}, write : Write \cup {0}]

response(w) == [kind |-> "response", write |-> w]
finish(w) == [kind |-> "finish", write |-> w]

noRemoteStore ==
  [pipeline |-> <<>>, stream |-> NewStream, handshake |-> FALSE,
   up |-> <<>>, down |-> <<>>]

requests(batches) == [i \in DOMAIN batches |-> batches[i].write]

(* Seek: how many batches come before the key of the id. *)
before(q, id) == Cardinality({i \in DOMAIN q : q[i].id < id})

(* NextMutationBatchAfterBatchId, again and again. *)
batchesAfter(q, id) == SubSeq(q, before(q, id + 1) + 1, Len(q))

ShouldStartWriteStream(r) == ~IsStarted(r.stream) /\ r.pipeline # <<>>

startIfNeeded(r) ==
  IF ShouldStartWriteStream(r) THEN [r EXCEPT !.stream = Start(@)] ELSE r

(* CanAddToWritePipeline: how often it will say yes. *)
room(r) == kMaxPendingWrites - Len(r.pipeline)

(* Mutant: a batch is sent before the handshake is complete. *)
added_early(r, batches) ==
  LET s == [r EXCEPT !.pipeline = @ \o batches]
  IN  IF IsOpen(r.stream) /\ batches # <<>>
      THEN [s EXCEPT !.up = @ \o requests(batches), !.stream = CancelIdleCheck(@)]
      ELSE s

(* AddToWritePipeline for each of the batches. *)
added(r, batches) ==
  LET s == [r EXCEPT !.pipeline = @ \o batches]
  IN  IF IsOpen(r.stream) /\ r.handshake /\ batches # <<>>
      THEN [s EXCEPT !.up = @ \o requests(batches), !.stream = CancelIdleCheck(@)]
      ELSE s

FillWritePipeline(r, q) ==
  LET last == IF r.pipeline = <<>> THEN 0 ELSE Last(r.pipeline).id
      more == batchesAfter(q, last)
      s == added(r, SubSeq(more, 1, Min({Len(more), room(r)})))
  IN  startIfNeeded(IF s.pipeline = <<>> THEN [s EXCEPT !.stream = MarkIdle(@)] ELSE s)

closed(r, graceful) ==
  [r EXCEPT !.stream = Close(@, graceful), !.handshake = FALSE,
            !.up = <<>>, !.down = <<>>]

(* Stream::Stop and the callback OnWriteStreamClose(OK). *)
Stop(r) == IF IsStarted(r.stream) THEN closed(r, TRUE) ELSE r

(* Mutant: the stream is not started again. *)
OnWriteStreamClose_over(r) == closed(r, FALSE)

(* OnWriteStreamClose with an error that leaves the writes alone. *)
OnWriteStreamClose(r) == startIfNeeded(closed(r, FALSE))

(* OnWriteStreamClose with an error that condemns the first write; q is    *)
(* the queue without it.                                                   *)
HandleWriteError(r, q) ==
  LET s == closed(r, FALSE)
  IN  startIfNeeded(FillWritePipeline(
        [s EXCEPT !.pipeline = Tail(@), !.stream = InhibitBackoff(@)], q))

(* Mutant: the pipeline is kept when the streams restart. *)
RestartNetwork_pipelineKept(r, q) ==
  LET s == Stop(r)
  IN  FillWritePipeline([s EXCEPT !.stream = InhibitBackoff(@)], q)

(* RestartNetwork, with DisableNetworkInternal and EnableNetwork. *)
RestartNetwork(r, q) ==
  LET s == Stop(r)
  IN  FillWritePipeline([s EXCEPT !.pipeline = <<>>, !.stream = InhibitBackoff(@)], q)

-----------------------------------------------------------------------------
(* SyncEngine and LocalStore. *)

(* LoadNextBatchIdFromDb: one more than any batch of any user. *)
loadNextBatchId ==
  1 + Max({0} \cup UNION {{queue[u][i].id : i \in DOMAIN queue[u]} : u \in User})

(* Mutant: the callback is kept after the call. *)
NotifyUser_kept(batch, result) ==
  /\ told' = [told EXCEPT ![user] =
       [w \in Write |-> IF \E c \in mutation_callbacks[user] :
                             c.id = batch.id /\ c.write = w
                        THEN result ELSE @[w]]]
  /\ UNCHANGED mutation_callbacks

(* The callback stored under the id of the batch, if there is one, hears   *)
(* of the result and is removed.                                           *)
NotifyUser(batch, result) ==
  LET called == {c \in mutation_callbacks[user] : c.id = batch.id}
  IN  /\ told' = [told EXCEPT ![user] =
           [w \in Write |-> IF \E c \in called : c.write = w THEN result ELSE @[w]]]
      /\ mutation_callbacks' = [mutation_callbacks EXCEPT ![user] = @ \ called]

(* RemoveMutationBatch. *)
removed(q, batch) == RemoveAt(q, before(q, batch.id) + 1)

WriteMutations ==
  /\ Cardinality({c \in User \X Write : c[2] <= written[c[1]]}) < MaxWrites
  /\ LET batch == [id |-> next_batch_id, write |-> written[user] + 1]
         q == Append(queue[user], batch)
     IN  /\ queue' = [queue EXCEPT ![user] = q]
         /\ mutation_callbacks' = [mutation_callbacks EXCEPT ![user] =
              IF \E c \in @ : c.id = batch.id THEN @ ELSE @ \cup {batch}]
         /\ rs' = FillWritePipeline(rs, q)
  /\ next_batch_id' = next_batch_id + 1
  /\ written' = [written EXCEPT ![user] = @ + 1]
  /\ UNCHANGED <<user, server, told, faults, restarts>>

(* HandleCredentialChange: another user's queue, and new streams. *)
HandleCredentialChange ==
  /\ restarts < MaxRestarts
  /\ \E u \in User \ {user} :
       /\ user' = u
       /\ rs' = RestartNetwork(rs, queue[u])
  /\ next_batch_id' = loadNextBatchId
  /\ restarts' = restarts + 1
  /\ UNCHANGED <<queue, mutation_callbacks, server, told, written, faults>>

(* The connectivity monitor reports a network, or the same user signs in   *)
(* again.                                                                  *)
ConnectivityChange ==
  /\ restarts < MaxRestarts
  /\ rs' = RestartNetwork(rs, queue[user])
  /\ restarts' = restarts + 1
  /\ UNCHANGED <<local, server, told, written, faults>>

(* Mutant: the queue is only in memory. *)
Crash_queueLost ==
  /\ restarts < MaxRestarts
  /\ queue' = [u \in User |-> <<>>]
  /\ mutation_callbacks' = [u \in User |-> {}]
  /\ next_batch_id' = 1
  /\ rs' = noRemoteStore
  /\ restarts' = restarts + 1
  /\ UNCHANGED <<user, server, told, written, faults>>

(* The app is killed and started again: FirestoreClient::Initialize. *)
Crash ==
  /\ restarts < MaxRestarts
  /\ mutation_callbacks' = [u \in User |-> {}]
  /\ next_batch_id' = loadNextBatchId
  /\ rs' = FillWritePipeline(noRemoteStore, queue[user])
  /\ restarts' = restarts + 1
  /\ UNCHANGED <<queue, user, server, told, written, faults>>

-----------------------------------------------------------------------------
(* The write stream. *)

(* GetToken answers: the stream opens and OnWriteStreamOpen greets.        *)
CredentialsArrive ==
  /\ rs.stream.token
  /\ rs' = [rs EXCEPT !.stream = OnStreamStart(@), !.up = <<0>>]
  /\ UNCHANGED <<local, server, told, bounds>>

(* GetToken answers with an error. *)
CredentialsFail ==
  /\ rs.stream.token
  /\ faults < MaxFaults
  /\ rs' = OnWriteStreamClose(rs)
  /\ faults' = faults + 1
  /\ UNCHANGED <<local, server, told, written, restarts>>

(* GetToken answers a start that has been closed. *)
CredentialsArriveLate ==
  /\ rs.stream.late > 0
  /\ rs' = [rs EXCEPT !.stream = LateCredentials(@)]
  /\ UNCHANGED <<local, server, told, bounds>>

WriteBackoffElapsed ==
  /\ rs.stream.backoff
  /\ rs' = [rs EXCEPT !.stream = BackoffElapsed(@)]
  /\ UNCHANGED <<local, server, told, bounds>>

(* The stream was idle for kIdleTimeout. *)
WriteStreamIdle ==
  /\ rs.stream.idle
  /\ rs' = Stop(rs)
  /\ UNCHANGED <<local, server, told, bounds>>

(* Mutant: a transient error condemns the first write, too. *)
WriteStreamBreaks_condemns ==
  /\ IsOpen(rs.stream) /\ rs.handshake /\ rs.pipeline # <<>>
  /\ faults < MaxFaults
  /\ LET batch == Head(rs.pipeline)
         q == removed(queue[user], batch)
     IN  /\ queue' = [queue EXCEPT ![user] = q]
         /\ NotifyUser(batch, "failed")
         /\ rs' = HandleWriteError(rs, q)
  /\ faults' = faults + 1
  /\ UNCHANGED <<next_batch_id, user, server, written, restarts>>

(* The connection breaks, or the backend ends the call with an error that  *)
(* IsPermanentWriteError calls transient; what was on its way is lost.     *)
WriteStreamBreaks ==
  /\ IsOpen(rs.stream)
  /\ faults < MaxFaults
  /\ rs' = OnWriteStreamClose(rs)
  /\ faults' = faults + 1
  /\ UNCHANGED <<local, server, told, written, restarts>>

received(kind) == rs.down # <<>> /\ Head(rs.down).kind = kind

(* Mutant: the pipeline is sent in the wrong order. *)
OnWriteStreamHandshakeComplete_reversed ==
  /\ received("response")
  /\ ~rs.handshake
  /\ rs' = [rs EXCEPT !.handshake = TRUE, !.down = Tail(@),
                      !.up = @ \o Reverse(requests(rs.pipeline))]
  /\ UNCHANGED <<local, server, told, bounds>>

OnWriteStreamHandshakeComplete ==
  /\ received("response")
  /\ ~rs.handshake
  /\ rs' = [rs EXCEPT !.handshake = TRUE, !.down = Tail(@),
                      !.up = @ \o requests(rs.pipeline)]
  /\ UNCHANGED <<local, server, told, bounds>>

(* The response answers the first write of the pipeline: the writer hears  *)
(* of it, the batch leaves the disk and the next one enters the pipeline.  *)
OnWriteStreamMutationResult ==
  /\ received("response")
  /\ rs.handshake
  /\ LET batch == Head(rs.pipeline)
         q == removed(queue[user], batch)
     IN  /\ queue' = [queue EXCEPT ![user] = q]
         /\ NotifyUser(batch, "ok")
         /\ rs' = FillWritePipeline(
                    [rs EXCEPT !.pipeline = Tail(@), !.down = Tail(@)], q)
  /\ UNCHANGED <<next_batch_id, user, server, bounds>>

(* The backend has ended the call because of the first write. *)
OnWriteRejected ==
  /\ received("finish")
  /\ LET batch == Head(rs.pipeline)
         q == removed(queue[user], batch)
     IN  /\ queue' = [queue EXCEPT ![user] = q]
         /\ NotifyUser(batch, "failed")
         /\ rs' = HandleWriteError(rs, q)
  /\ UNCHANGED <<next_batch_id, user, server, bounds>>

-----------------------------------------------------------------------------
(* The backend.  It handles the requests of a call in order, answers each  *)
(* or ends the call, and handles none of a call that is over.              *)

(* It has a request of the call that is going on. *)
backendHas(greeting) ==
  /\ rs.up # <<>>
  /\ \A i \in DOMAIN rs.down : rs.down[i].kind # "finish"
  /\ greeting <=> Head(rs.up) = 0

BackendGreets ==
  /\ backendHas(TRUE)
  /\ rs' = [rs EXCEPT !.up = Tail(@), !.down = Append(@, response(0))]
  /\ UNCHANGED <<local, server, told, bounds>>

BackendApplies ==
  /\ backendHas(FALSE)
  /\ LET w == Head(rs.up)
     IN  /\ outcome' = [outcome EXCEPT ![user][w] = "applied"]
         /\ value' = [value EXCEPT ![user] = w]
         /\ rs' = [rs EXCEPT !.up = Tail(@), !.down = Append(@, response(w))]
  /\ UNCHANGED <<local, told, bounds>>

BackendRejects ==
  /\ backendHas(FALSE)
  /\ LET w == Head(rs.up)
     IN  /\ outcome' = [outcome EXCEPT ![user][w] = "rejected"]
         /\ rs' = [rs EXCEPT !.up = <<>>, !.down = Append(@, finish(w))]
  /\ UNCHANGED <<local, value, told, bounds>>

-----------------------------------------------------------------------------
Init ==
  /\ queue = [u \in User |-> <<>>]
  /\ next_batch_id = 1
  /\ mutation_callbacks = [u \in User |-> {}]
  /\ user \in User
  /\ rs = noRemoteStore
  /\ outcome = [u \in User |-> [w \in Write |-> "none"]]
  /\ value = [u \in User |-> 0]
  /\ told = [u \in User |-> [w \in Write |-> "nothing"]]
  /\ written = [u \in User |-> 0]
  /\ faults = 0
  /\ restarts = 0

(* The client's own steps, and those of the backend. *)
System ==
  \/ CredentialsArrive \/ CredentialsArriveLate \/ WriteBackoffElapsed
  \/ WriteStreamIdle
  \/ OnWriteStreamHandshakeComplete \/ OnWriteStreamMutationResult
  \/ OnWriteRejected
  \/ BackendGreets \/ BackendApplies \/ BackendRejects

Environment ==
  \/ WriteMutations \/ HandleCredentialChange \/ ConnectivityChange \/ Crash
  \/ CredentialsFail \/ WriteStreamBreaks

Next == System \/ Environment

Spec == Init /\ [][Next]_vars

(* Every answer and every timer comes in the end, and the backend handles  *)
(* what reaches it.                                                        *)
Fairness ==
  /\ WF_vars(CredentialsArrive)
  /\ WF_vars(WriteBackoffElapsed)
  /\ WF_vars(WriteStreamIdle)
  /\ WF_vars(OnWriteStreamHandshakeComplete \/ OnWriteStreamMutationResult \/ OnWriteRejected)
  /\ WF_vars(BackendGreets \/ BackendApplies \/ BackendRejects)

FairSpec == Spec /\ Fairness

-----------------------------------------------------------------------------
(* Every variable is of its kind.                                          *)
TypeOK ==
  /\ queue \in [User -> Seq(Batch)]
  /\ next_batch_id \in Nat \ {0}
  /\ mutation_callbacks \in [User -> SUBSET Batch]
  /\ user \in User
  /\ rs \in [pipeline : Seq(Batch), stream : StreamRecord, handshake : BOOLEAN,
             up : Seq(Write \cup {0}), down : Seq(Message)]
  /\ outcome \in [User -> [Write -> {"none", "applied", "rejected"}]]
  /\ value \in [User -> 0..MaxWrites]
  /\ told \in [User -> [Write -> {"nothing", "ok", "failed"}]]
  /\ written \in [User -> 0..MaxWrites]
  /\ faults \in 0..MaxFaults
  /\ restarts \in 0..MaxRestarts

(* Whatever closed, restarted or changed the user, the pipeline holds the  *)
(* oldest batches on disk of the user who is signed in, and no others: no  *)
(* write goes out under another user's credentials, none is skipped, and   *)
(* never are there more than the pipeline's capacity                       *)
(* (RemoteStore::FillWritePipeline, HandleCredentialChange).               *)
PipelineIsQueuePrefix ==
  /\ IsPrefix(rs.pipeline, queue[user])
  /\ Len(rs.pipeline) <= kMaxPendingWrites

(* A response names no write; the client takes it for the first one of the *)
(* pipeline, and asserts there is one.  It is right: the responses and the *)
(* requests on their way are for the pipeline's writes in their order, and *)
(* a call that is ended is ended because of the first write not answered   *)
(* (RemoteStore::OnWriteStreamMutationResult, HandleWriteError).           *)
ResponseIsForFront ==
  LET about == [i \in DOMAIN rs.down |-> rs.down[i].write]
      finished == {i \in DOMAIN rs.down : rs.down[i].kind = "finish"}
  IN  IF rs.handshake
      THEN /\ finished = {} => about \o rs.up = requests(rs.pipeline)
           /\ finished # {} => /\ finished = {Len(rs.down)}
                              /\ IsPrefix(about, requests(rs.pipeline))
      ELSE finished = {} /\ \A i \in DOMAIN rs.down : about[i] = 0

(* A writer who is told that the write was made, or failed, is told what   *)
(* the backend decided last, and nothing can change it afterwards          *)
(* (SyncEngine::HandleSuccessfulWrite, HandleRejectedWrite).               *)
AnswersAreTrue ==
  \A u \in User : \A w \in Write :
    /\ told[u][w] = "ok" => outcome[u][w] = "applied"
    /\ told[u][w] = "failed" => outcome[u][w] = "rejected"

(* Ids of batches are used again after a restart or a change of user, and  *)
(* callbacks are stored under them; still every callback belongs to a      *)
(* batch on disk, so that none is stored over another or called for a      *)
(* stranger's write (SyncEngine::NotifyUser, LoadNextBatchIdFromDb).       *)
CallbackIsForItsWrite ==
  \A u \in User : mutation_callbacks[u] \subseteq ToSet(queue[u])

(* Once a user's queue is empty, no older write of the user stands where   *)
(* the backend accepted a newer one, although all writes of the pipeline   *)
(* are sent again after every break, the applied ones too                  *)
(* (RemoteStore::OnWriteStreamHandshakeComplete).  It may be a newer one   *)
(* that stands: applied, its response lost, and rejected the second time.  *)
QuietMeansNewest ==
  \A u \in User : queue[u] = <<>> =>
    \A w \in Write : outcome[u][w] = "applied" => value[u] >= w

(* What stream.cc and remote_store.cc assert of timers: see TimersMatch;   *)
(* and the idle timer never stops a stream that is still needed            *)
(* (RemoteStore::OnWriteStreamClose).                                      *)
TimersHold ==
  /\ TimersMatch(rs.stream)
  /\ rs.stream.idle => rs.pipeline = <<>>
  /\ IsStarted(rs.stream) \/ rs.pipeline = <<>>

(* With the backend answering and the failures over, the writes of the     *)
(* user who stays signed in are all answered, and the connection is given  *)
(* back (RemoteStore::OnWriteStreamClose, Stream::MarkIdle).               *)
QueueDrains == <>[](queue[user] = <<>> /\ ~IsStarted(rs.stream))

(* The client keeps the promise of WriteQueue: in order, at least once,    *)
(* answered in order, over crashes, breaks and changes of user.            *)
Promise == INSTANCE WriteQueue WITH pending <- [u \in User |-> requests(queue[u])]

ImplementsWriteQueue == Promise!Spec
=============================================================================
