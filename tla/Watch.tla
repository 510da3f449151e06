------------------------------- MODULE Watch --------------------------------
(***************************************************************************)
(* How a change of the server reaches a listener: EventManager, SyncEngine *)
(* and LocalStore, RemoteStore's watch half with its WatchChangeAggregator *)
(* and OnlineStateTracker, the watch stream, the backend.  The client's    *)
(* steps run one at a time on its worker queue; between any two of them a  *)
(* screen may come or go, the connection may break, the network may change *)
(* and the app may be killed.                                              *)
(*                                                                         *)
(* What a query matches is one content with a version; a resume token is   *)
(* the version of the snapshot it came with.  Local writes, limbo          *)
(* documents, existence filters and garbage collection are left out.       *)
(***************************************************************************)
EXTENDS Stream, Sequences, SequencesExt, FiniteSetsExt, Functions

CONSTANTS
  Target,        \* the queries that screens listen to
  kMaxWatchStreamFailures,   \* failures until the client is offline (1)
  MaxListens,    \* bound: listeners added
  MaxVersion,    \* bound: changes of the server
  MaxFaults,     \* bound: connections or credentials that fail
  MaxRestarts    \* bound: network changes and crashes

ASSUME WatchAssumption ==
  /\ {MaxListens, MaxVersion, MaxFaults, MaxRestarts} \subseteq Nat /\ MaxVersion >= 1
  /\ kMaxWatchStreamFailures \in Nat \ {0}
  /\ IsFiniteSet(Target)

VARIABLES
  ws,        \* RemoteStore: targets, aggregator, online state, stream, messages
  disk,      \* LocalStore: contents, resume tokens, last snapshot version
  history,   \* the backend: which target each version changed
  denied,    \* the backend: targets whose watch it refuses
  listens, faults, restarts

bounds == <<listens, faults, restarts>>
vars == <<ws, disk, history, denied, bounds>>

Version == 0..MaxVersion
now == Len(history)

(* The version of what t matches in the snapshot at v. *)
AsOf(t, v) == Max({0} \cup {i \in 1..v : history[i] = t})

-----------------------------------------------------------------------------
(* OnlineStateTracker.  r is RemoteStore, with the view of each target.    *)

OnlineState == {"Unknown", "Online", "Offline"}

(* View::ApplyOnlineStateChange and QueryListener::OnOnlineStateChanged:   *)
(* offline, no view is current and every listener has its first event.     *)
SetAndBroadcast(r, state) ==
  IF state = r.online THEN r
  ELSE [r EXCEPT !.online = state,
                 !.targets = [t \in DOMAIN @ |->
                   IF state = "Offline"
                   THEN [@[t] EXCEPT !.current = FALSE, !.raised = TRUE]
                   ELSE @[t]]]

UpdateState(r, state) ==
  SetAndBroadcast([r EXCEPT !.timer = FALSE, !.failures = 0], state)

HandleWatchStreamStart(r) ==
  IF r.failures # 0 THEN r
  ELSE SetAndBroadcast([r EXCEPT !.timer = TRUE], "Unknown")

(* Mutant: the timer runs on after a failure. *)
HandleWatchStreamFailure_timerKept(r) ==
  IF r.online = "Online" THEN SetAndBroadcast(r, "Unknown")
  ELSE SetAndBroadcast([r EXCEPT !.failures = @ + 1], "Offline")

HandleWatchStreamFailure(r) ==
  LET failed == [r EXCEPT !.failures = @ + 1]
  IN  CASE r.online = "Online" -> SetAndBroadcast(r, "Unknown")
        [] r.online # "Online" /\ failed.failures >= kMaxWatchStreamFailures ->
             SetAndBroadcast([failed EXCEPT !.timer = FALSE], "Offline")
        [] OTHER -> failed

-----------------------------------------------------------------------------
(* WatchChangeAggregator.  agg holds a state for every target with         *)
(* requests on this stream: outstanding responses, whether the backend has *)
(* called it current, whether documents have changed since the last        *)
(* snapshot.  updates are the pending document updates.                    *)

newTargetState == [outstanding |-> 0, current |-> FALSE, changed |-> FALSE]

TargetState == [outstanding : Nat, current : BOOLEAN, changed : BOOLEAN]

stateOf(r, t) == IF t \in DOMAIN r.agg THEN r.agg[t] ELSE newTargetState

(* f with t mapped to x. *)
with(f, t, x) == [s \in DOMAIN f \cup {t} |-> IF s = t THEN x ELSE f[s]]

without(f, t) == Restrict(f, DOMAIN f \ {t})

empty == [t \in {} |-> 0]

(* Mutant: a target counts although responses are outstanding. *)
IsActiveTarget_early(r, t) == t \in DOMAIN r.targets

(* Listened to, with no response outstanding. *)
IsActiveTarget(r, t) == t \in DOMAIN r.targets /\ stateOf(r, t).outstanding = 0

(* For each of the targets ts. *)
RecordPendingTargetRequest(r, ts) ==
  [r EXCEPT !.agg = [t \in DOMAIN @ \cup ts |->
    IF t \in ts THEN [stateOf(r, t) EXCEPT !.outstanding = @ + 1] ELSE @[t]]]

(* Added: the pending changes of a target that is not pending any more are *)
(* forgotten.                                                              *)
TargetAdded(r, t) ==
  LET s == [stateOf(r, t) EXCEPT !.outstanding = @ - 1]
  IN  [r EXCEPT !.agg = with(@, t, IF s.outstanding = 0 THEN [s EXCEPT !.changed = FALSE] ELSE s)]

(* Mutant: the first removal that is confirmed ends the target. *)
TargetRemoved_atOnce(r, t) == [r EXCEPT !.agg = without(@, t)]

TargetRemoved(r, t) ==
  LET s == [stateOf(r, t) EXCEPT !.outstanding = @ - 1]
  IN  [r EXCEPT !.agg = IF s.outstanding = 0 THEN without(@, t) ELSE with(@, t, s)]

TargetCurrent(r, t) ==
  IF IsActiveTarget(r, t)
  THEN [r EXCEPT !.agg = with(@, t, [stateOf(r, t) EXCEPT !.current = TRUE])]
  ELSE r

HandleDocumentChange(r, t, v) ==
  IF IsActiveTarget(r, t)
  THEN [r EXCEPT !.agg = with(@, t, [stateOf(r, t) EXCEPT !.changed = TRUE]),
                 !.updates = with(@, t, v)]
  ELSE r

-----------------------------------------------------------------------------
(* RemoteStore, the half that listens.  Requests on their way are in up;   *)
(* what the backend has sent is in down.  srv is the backend's side of the *)
(* call: how far each target has been sent and whether it is current, and  *)
(* the version of the last snapshot.                                       *)

watch(t, token) == [kind |-> "watch", target |-> t, version |-> token]
unwatch(t) == [kind |-> "unwatch", target |-> t, version |-> 0]

Request == [kind : {"watch", "unwatch"}, target : Target, version : Version]

change(kind, t, v) == [kind |-> kind, target |-> t, version |-> v]

(* A snapshot is for all targets; its target means nothing. *)
Change == [kind : {"added", "removed", "failed", "document", "current", "snapshot"},
           target : Target, version : Version]

noCall == [sent |-> empty, owed |-> empty, version |-> 0]

noRemoteStore ==
  [targets |-> empty, agg |-> empty, updates |-> empty,
   online |-> "Unknown", timer |-> FALSE, failures |-> 0,
   stream |-> NewStream, up |-> <<>>, down |-> <<>>, srv |-> noCall]

(* Requests about the targets ts. *)
sent(r, ts, requests) ==
  [RecordPendingTargetRequest(r, ts) EXCEPT
     !.up = @ \o requests, !.stream = CancelIdleCheck(@)]

(* For the targets listed in ts. *)
SendWatchRequest(r, ts) ==
  sent(r, Range(ts), [i \in DOMAIN ts |-> watch(ts[i], r.targets[ts[i]].token)])

SendUnwatchRequest(r, t) == sent(r, {t}, <<unwatch(t)>>)

ShouldStartWatchStream(r) == ~IsStarted(r.stream) /\ r.targets # empty

StartWatchStream(r) ==
  HandleWatchStreamStart(
    [r EXCEPT !.agg = empty, !.updates = empty, !.stream = Start(@)])

(* Close and CleanUpWatchStreamState. *)
closed(r, graceful) ==
  [r EXCEPT !.stream = Close(@, graceful), !.agg = empty, !.updates = empty,
            !.up = <<>>, !.down = <<>>, !.srv = noCall]

(* Stream::Stop, with OnWatchStreamClose(OK) if the stream was started. *)
Stop(r) == IF IsStarted(r.stream) THEN UpdateState(closed(r, TRUE), "Unknown") ELSE r

(* OnWatchStreamClose with an error. *)
OnWatchStreamClose(r) ==
  LET s == closed(r, FALSE)
  IN  IF ShouldStartWatchStream(s)
      THEN StartWatchStream(HandleWatchStreamFailure(s))
      ELSE UpdateState(s, "Unknown")

(* Mutant: nothing is asked for on a stream that is open. *)
Listen_unasked(r, t) ==
  IF ShouldStartWatchStream(r) THEN StartWatchStream(r) ELSE r

Listen(r, t) ==
  CASE ShouldStartWatchStream(r) -> StartWatchStream(r)
    [] IsOpen(r.stream) -> SendWatchRequest(r, <<t>>)
    [] OTHER -> r

(* Of a target that has just been erased. *)
StopListening(r, t) ==
  LET s == IF IsOpen(r.stream) THEN SendUnwatchRequest(r, t) ELSE r
  IN  CASE s.targets # empty -> s
        [] s.targets = empty /\ IsOpen(s.stream) -> [s EXCEPT !.stream = MarkIdle(@)]
        [] OTHER -> UpdateState(s, "Unknown")

(* RestartNetwork, with DisableNetworkInternal and EnableNetwork. *)
RestartNetwork(r) ==
  LET stopped == UpdateState(Stop(r), "Unknown")
      s == [stopped EXCEPT !.stream = InhibitBackoff(@)]
  IN  IF ShouldStartWatchStream(s) THEN StartWatchStream(s) ELSE UpdateState(s, "Unknown")

-----------------------------------------------------------------------------
(* A screen's listener: EventManager, SyncEngine, LocalStore. *)

(* ShouldRaiseInitialEvent. *)
firstEvent(view, content, online) == view.current \/ content > 0 \/ online = "Offline"

(* AllocateTarget: the listener starts from what is on disk. *)
newView(t) == [token |-> disk.token[t], current |-> FALSE, raised |-> FALSE]

AddListener(t) ==
  /\ t \notin DOMAIN ws.targets
  /\ listens < MaxListens
  /\ LET view == [newView(t) EXCEPT !.raised = firstEvent(newView(t), disk.content[t], ws.online)]
     IN  ws' = Listen([ws EXCEPT !.targets = with(@, t, view)], t)
  /\ listens' = listens + 1
  /\ UNCHANGED <<disk, history, denied, faults, restarts>>

(* The target's latest token is persisted. *)
ReleaseTarget(t) == disk' = [disk EXCEPT !.token[t] = ws.targets[t].token]

RemoveListener(t) ==
  /\ t \in DOMAIN ws.targets
  /\ ReleaseTarget(t)
  /\ ws' = StopListening([ws EXCEPT !.targets = without(@, t)], t)
  /\ UNCHANGED <<history, denied, bounds>>

(* The connectivity monitor reports a network, or the user has changed. *)
ConnectivityChange ==
  /\ restarts < MaxRestarts
  /\ ws' = RestartNetwork(ws)
  /\ restarts' = restarts + 1
  /\ UNCHANGED <<disk, history, denied, listens, faults>>

(* The app is killed and started again, with no listener yet. *)
Crash ==
  /\ restarts < MaxRestarts
  /\ ws' = noRemoteStore
  /\ restarts' = restarts + 1
  /\ UNCHANGED <<disk, history, denied, listens, faults>>

-----------------------------------------------------------------------------
(* The watch stream. *)

(* GetToken answers: the stream opens, and OnWatchStreamOpen asks for all  *)
(* targets, in the order of a hash table.                                  *)
CredentialsArrive ==
  /\ ws.stream.token
  /\ \E ts \in SetToSeqs(DOMAIN ws.targets) :
       ws' = SendWatchRequest([ws EXCEPT !.stream = OnStreamStart(@)], ts)
  /\ UNCHANGED <<disk, history, denied, bounds>>

(* GetToken answers with an error. *)
CredentialsFail ==
  /\ ws.stream.token
  /\ faults < MaxFaults
  /\ ws' = OnWatchStreamClose(ws)
  /\ faults' = faults + 1
  /\ UNCHANGED <<disk, history, denied, listens, restarts>>

(* GetToken answers a start that has been closed. *)
CredentialsArriveLate ==
  /\ ws.stream.late > 0
  /\ ws' = [ws EXCEPT !.stream = LateCredentials(@)]
  /\ UNCHANGED <<disk, history, denied, bounds>>

WatchBackoffElapsed ==
  /\ ws.stream.backoff
  /\ ws' = [ws EXCEPT !.stream = BackoffElapsed(@)]
  /\ UNCHANGED <<disk, history, denied, bounds>>

(* The stream was idle for kIdleTimeout. *)
WatchStreamIdle ==
  /\ ws.stream.idle
  /\ ws' = Stop(ws)
  /\ UNCHANGED <<disk, history, denied, bounds>>

(* The backend did not answer for kOnlineStateTimeout. *)
OnlineStateTimeout ==
  /\ ws.timer
  /\ ws' = SetAndBroadcast([ws EXCEPT !.timer = FALSE], "Offline")
  /\ UNCHANGED <<disk, history, denied, bounds>>

(* The connection breaks; what was on its way is lost. *)
WatchStreamBreaks ==
  /\ IsOpen(ws.stream)
  /\ faults < MaxFaults
  /\ ws' = OnWatchStreamClose(ws)
  /\ faults' = faults + 1
  /\ UNCHANGED <<disk, history, denied, listens, restarts>>

-----------------------------------------------------------------------------
(* OnWatchStreamChange: any message means the client is online. *)

received(kind) == ws.down # <<>> /\ Head(ws.down).kind = kind

message == Head(ws.down)

informed == UpdateState([ws EXCEPT !.down = Tail(@)], "Online")

OnTargetChange ==
  /\ \/ received("added") /\ ws' = TargetAdded(informed, message.target)
     \/ received("removed") /\ ws' = TargetRemoved(informed, message.target)
     \/ received("current") /\ ws' = TargetCurrent(informed, message.target)
  /\ UNCHANGED <<disk, history, denied, bounds>>

OnDocumentChange ==
  /\ received("document")
  /\ ws' = HandleDocumentChange(informed, message.target, message.version)
  /\ UNCHANGED <<disk, history, denied, bounds>>

(* ProcessTargetError: the listener hears of the error and is removed. *)
OnTargetError ==
  /\ received("failed")
  /\ LET t == message.target
     IN  IF t \in DOMAIN ws.targets
         THEN /\ ReleaseTarget(t)
              /\ ws' = [informed EXCEPT !.targets = without(@, t), !.agg = without(@, t)]
         ELSE ws' = informed /\ UNCHANGED disk
  /\ UNCHANGED <<history, denied, bounds>>

(* The targets of the remote event that the aggregator creates. *)
changed == {t \in DOMAIN ws.agg : IsActiveTarget(ws, t)}

(* What ApplyRemoteEvent stores: no older version over a newer one. *)
newContent(t) ==
  IF t \in DOMAIN ws.updates THEN Max({ws.updates[t], disk.content[t]}) ELSE disk.content[t]

(* ShouldPersistTargetData: the first token, one with data, an aged one. *)
persisted(aged) ==
  {t \in changed : ws.targets[t].token = 0 \/ ws.agg[t].changed \/ t \in aged}

(* RaiseWatchSnapshot and ApplyRemoteEvent. *)
RaiseWatchSnapshot(v, aged) ==
  /\ disk' = [content |-> [t \in Target |-> newContent(t)],
              token |-> [t \in Target |-> IF t \in persisted(aged) THEN v ELSE disk.token[t]],
              version |-> v]
  /\ LET view(t) == IF t \in changed
                    THEN [ws.targets[t] EXCEPT !.token = v, !.current = ws.agg[t].current]
                    ELSE ws.targets[t]
     IN  ws' = [informed EXCEPT
           !.targets = [t \in DOMAIN @ |-> [view(t) EXCEPT !.raised =
                           @ \/ firstEvent(view(t), newContent(t), "Online")]],
           !.agg = [t \in DOMAIN @ |-> IF t \in changed THEN [@[t] EXCEPT !.changed = FALSE]
                                       ELSE @[t]],
           !.updates = empty]

(* Mutant: a snapshot older than the last one is raised. *)
isNewSnapshot_always(v) == TRUE

isNewSnapshot(v) == v >= disk.version

OnSnapshot ==
  /\ received("snapshot")
  /\ IF isNewSnapshot(message.version)
     THEN \E aged \in SUBSET changed : RaiseWatchSnapshot(message.version, aged)
     ELSE ws' = informed /\ UNCHANGED disk
  /\ UNCHANGED <<history, denied, bounds>>

-----------------------------------------------------------------------------
(* The backend. *)

BackendChanges(t) ==
  /\ now < MaxVersion
  /\ history' = Append(history, t)
  /\ UNCHANGED <<ws, disk, denied, bounds>>

(* It adds a target, or says why it does not. *)
BackendWatches ==
  /\ ws.up # <<>> /\ Head(ws.up).kind = "watch"
  /\ LET t == Head(ws.up).target
         token == Head(ws.up).version
     IN  ws' = IF t \in denied
               THEN [ws EXCEPT !.up = Tail(@), !.down = Append(@, change("failed", t, 0))]
               ELSE [ws EXCEPT !.up = Tail(@), !.down = Append(@, change("added", t, 0)),
                               !.srv.sent = with(@, t, token), !.srv.owed = with(@, t, now)]
  /\ UNCHANGED <<disk, history, denied, bounds>>

(* A target that it has refused cannot be removed. *)
BackendUnwatches ==
  /\ ws.up # <<>> /\ Head(ws.up).kind = "unwatch"
  /\ LET t == Head(ws.up).target
     IN  ws' = IF t \in denied
               THEN [ws EXCEPT !.up = Tail(@)]
               ELSE [ws EXCEPT !.up = Tail(@), !.down = Append(@, change("removed", t, 0)),
                               !.srv.sent = without(@, t), !.srv.owed = without(@, t)]
  /\ UNCHANGED <<disk, history, denied, bounds>>

(* What the targets lack up to version v, which of them are current then,  *)
(* having reached the version at which they were added, and a snapshot for *)
(* all.                                                                    *)
lacking(v) == {t \in DOMAIN ws.srv.sent : AsOf(t, v) > ws.srv.sent[t]}

reached(v) == {t \in DOMAIN ws.srv.owed : v >= ws.srv.owed[t]}

news(v) ==
  SetToSeq({change("document", t, AsOf(t, v)) : t \in lacking(v)})
    \o SetToSeq({change("current", t, v) : t \in reached(v)})
    \o <<change("snapshot", CHOOSE t \in Target : TRUE, v)>>

(* v may lag behind what the client has seen of other targets on an        *)
(* earlier call.                                                           *)
BackendSends(v) ==
  /\ ws.srv.sent # empty
  /\ \A t \in DOMAIN ws.srv.sent : v >= ws.srv.sent[t]
  /\ v > ws.srv.version \/ (v = ws.srv.version /\ reached(v) # {})
  /\ ws' = [ws EXCEPT !.down = @ \o news(v),
                      !.srv = [sent |-> [t \in DOMAIN @.sent |-> v],
                               owed |-> Restrict(@.owed, DOMAIN @.owed \ reached(v)),
                               version |-> v]]
  /\ UNCHANGED <<disk, history, denied, bounds>>

-----------------------------------------------------------------------------
Init ==
  /\ ws = noRemoteStore
  /\ disk = [content |-> [t \in Target |-> 0], token |-> [t \in Target |-> 0], version |-> 0]
  /\ \E t \in Target : history = <<t>>
  /\ denied \in SUBSET Target
  /\ listens = 0
  /\ faults = 0
  /\ restarts = 0

Receive == OnTargetChange \/ OnDocumentChange \/ OnTargetError \/ OnSnapshot

Client ==
  \/ CredentialsArrive \/ CredentialsArriveLate \/ WatchBackoffElapsed
  \/ WatchStreamIdle \/ OnlineStateTimeout
  \/ Receive

Backend ==
  \/ BackendWatches \/ BackendUnwatches
  \/ \E v \in 1..now : BackendSends(v)

Environment ==
  \/ \E t \in Target : AddListener(t) \/ RemoveListener(t) \/ BackendChanges(t)
  \/ ConnectivityChange \/ Crash \/ CredentialsFail \/ WatchStreamBreaks

Next == Client \/ Backend \/ Environment

Spec == Init /\ [][Next]_vars

(* Every answer of GetToken and every timer comes in the end, messages     *)
(* that arrive are handled, and the backend answers.                       *)
Fairness ==
  /\ WF_vars(CredentialsArrive)
  /\ WF_vars(WatchBackoffElapsed)
  /\ WF_vars(WatchStreamIdle)
  /\ WF_vars(OnlineStateTimeout)
  /\ WF_vars(Receive)
  /\ WF_vars(Backend)

FairSpec == Spec /\ Fairness

-----------------------------------------------------------------------------
View == [token : Version, current : BOOLEAN, raised : BOOLEAN]

(* f gives members of T to some members of Target. *)
IsPartial(f, T) == DOMAIN f \subseteq Target /\ \A t \in DOMAIN f : f[t] \in T

(* Every variable is of its kind; above all, no target is owed a negative  *)
(* number of responses (TargetState::RecordTargetResponse).                *)
TypeOK ==
  /\ IsPartial(ws.targets, View)
  /\ IsPartial(ws.agg, TargetState)
  /\ IsPartial(ws.updates, Version)
  /\ ws.online \in OnlineState
  /\ ws.timer \in BOOLEAN /\ ws.failures \in Nat
  /\ ws.stream \in StreamRecord
  /\ ws.up \in Seq(Request) /\ ws.down \in Seq(Change)
  /\ IsPartial(ws.srv.sent, Version) /\ IsPartial(ws.srv.owed, Version)
  /\ ws.srv.version \in Version
  /\ disk \in [content : [Target -> Version], token : [Target -> Version], version : Version]
  /\ history \in Seq(Target) /\ denied \subseteq Target
  /\ listens \in 0..MaxListens /\ faults \in 0..MaxFaults /\ restarts \in 0..MaxRestarts

(* The number of messages of the given kinds about t. *)
count(msgs, t, kinds) ==
  Cardinality({i \in DOMAIN msgs : msgs[i].target = t /\ msgs[i].kind \in kinds})

(* A target counts as active exactly when every request about it has been  *)
(* answered: what arrives between a removal and its confirmation, or       *)
(* before a target is added again, is for a listener that is gone          *)
(* (WatchChangeAggregator::RecordPendingTargetRequest, HandleTargetChange).*)
OutstandingIsExact ==
  \A t \in Target \ denied :
    stateOf(ws, t).outstanding =
      count(ws.up, t, {"watch", "unwatch"}) + count(ws.down, t, {"added", "removed"})

(* Whoever resumes at a token, now or after a crash, misses nothing: the   *)
(* content on disk is that of the token's snapshot or a newer one, even    *)
(* when snapshots were lost, ignored or raised while the target was being  *)
(* removed (LocalStore::ApplyRemoteEvent, ReleaseTarget).                  *)
TokenIsHonest ==
  \A t \in Target :
    /\ disk.content[t] >= AsOf(t, disk.token[t])
    /\ t \in DOMAIN ws.targets => disk.content[t] >= AsOf(t, ws.targets[t].token)

(* What the assertions of remote_store.cc, stream.cc and                   *)
(* online_state_tracker.cc expect: see TimersMatch; the idle timer never   *)
(* stops a stream with listeners; listeners have a stream, whatever was    *)
(* closed or restarted; the timer of the online state runs only while a    *)
(* stream is started, the state is Unknown and too little has failed to    *)
(* stop it; and online, nothing has failed.                                *)
TimersHold ==
  /\ TimersMatch(ws.stream)
  /\ ws.stream.idle => ws.targets = empty
  /\ IsStarted(ws.stream) \/ ws.targets = empty
  /\ ws.timer => /\ ws.online = "Unknown" /\ IsStarted(ws.stream)
                 /\ ws.failures < kMaxWatchStreamFailures
  /\ ws.online = "Online" => ws.failures = 0

(* The last snapshot and the contents never go back to an older version,   *)
(* even when a new call is answered by a backend that lags                 *)
(* (RemoteStore::OnWatchStreamChange, LocalStore::ApplyRemoteEvent).       *)
VersionsMoveForward ==
  [][/\ disk'.version >= disk.version
     /\ \A t \in Target : disk'.content[t] >= disk.content[t]]_vars

(* With the backend answering and the failures over, every listener that   *)
(* stays has been given the content as it is now and knows it is current,  *)
(* and one that the backend refuses has been told so                       *)
(* (RemoteStore::OnWatchStreamOpen, ProcessTargetError).                   *)
WatchConverges ==
  <>[]\A t \in DOMAIN ws.targets :
        /\ t \notin denied
        /\ ws.targets[t].current /\ ws.targets[t].raised
        /\ disk.content[t] = AsOf(t, now)
=============================================================================
