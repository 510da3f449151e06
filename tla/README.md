# Wins Pool: a TLA+ model of the draft, the standings and the Firestore client

Wins Pool is an iOS app in which a few friends share an NBA "wins pool": they
join a pool by a link, draft the thirty teams in a fixed order, and from then on
watch the wins of their teams add up. There is no server code. Every device
reads and writes the same Firestore document directly, so the rules of the draft
hold only if the devices' transactions, queued writes and stale screens leave
them intact. After the draft each device fetches the league's standings by itself,
from several places at once, and tells its user who won and who passed him. The
app relies on the Firestore client, C++ code that is linked into it, for everything
that happens between a call and the server: writes that are queued and sent again,
listeners that survive broken connections. And its screens share one delegate and
hand listeners over to each other. These four are what this project is about.

## The system

The app's own code is the Swift under `src/NBA Wins Pool, Inc./NBAWinsPool/`;
everything under `Pods` is vendored. Paths below are relative to the former; the
Firestore client's are relative to `Pods/FirebaseFirestore/Firestore/core/src/`.

| Part | State | Operations | Talks to |
|---|---|---|---|
| Pool document (`Pool.swift`) | members by id, picks by number, size | `addMember`, `currentPick`, `isComplete`, `teamsRemaining` | none, a value |
| Pool store (`FirebaseInterface.swift`) | the documents of collection `pools` | `createPool`, `joinPool`, `leavePool`, `pickTeam`, `didNotifyTurn`, listeners | Firestore |
| Firestore client: transactions (`core/transaction*.cc`) | running transactions | look up, commit, retry | the server; callbacks into the app |
| Firestore client: writes (`core/sync_engine.cc`, `remote/remote_store.cc`, `remote/write_stream.cc`, `local/leveldb_mutation_queue.cc`) | the queue on disk, the pipeline, callbacks | write, send, acknowledge, reject, restart | the server; callbacks into the app |
| Firestore client: listeners (`remote/remote_event.cc`, `remote/watch_stream.cc`, `remote/online_state_tracker.cc`, `local/local_store.cc`) | targets, resume tokens, cached contents, the online state | listen, unlisten, aggregate, raise a snapshot | the server; events for the app |
| Firestore client: streams (`remote/stream.cc`) | state, backoff, idle timer, credentials awaited | start, close, back off, idle | both halves above |
| Pools screen (`PoolsViewController.swift`) | last list of pools | invite, leave, open the draft | the store; turn notifications |
| Draft and pick screens (`DraftViewController.swift`, `PickViewController.swift`) | a snapshot of one pool; the team to confirm | select, confirm, back | the store; turn notifications |
| Links (`AppDelegate.swift`) | none | open url, which joins | the store |
| Turn notifications (`UNUserNotificationCenterExtension.swift`) | `didNotifyMember` of a pick | ask, write the flag, alert | called by every listener |
| Standings (`Teams.swift`, `NBA.swift`, `Backend.swift`, `Team.swift`) | a record for each team, saved in user defaults | `getStandings`, `updateTeamWithId`, `save`, `load` | the NBA's server, the store, notifications, a delegate |
| Refresh (`AppDelegate.swift`) | a timer, a background task | launch, become active, resign, refresh | the standings |
| Members and teams screens | a snapshot of one pool | show, become the delegate | the standings, the store |

What is hard here: transactions that conflict, are retried and lose their reply;
two devices after the same seat; a button that can be tapped twice; decisions
taken on a snapshot and carried out later; a draft that is dealt again while
screens and writes of the first deal are still around; writes that wait in a
queue, over a crash too; a turn alert that depends on a write, its callback and
a listener being there; refreshes of the standings that overlap and overtake each
other; an app that iOS may end in the middle of one; a connection that breaks between
a write and its response, or between a listener and its confirmation; a user who
signs out with writes in the queue; events that are posted for a screen the user has
left. `PROJECT.json` lists these hazards line by line, with the
properties that cover them.

## The modules

    Pool          the document and the pure operations on it
     |- PoolStore       what the store promises: whole operations on the latest document
     |   '- DraftDay         whole drafts with the draft orders of the code
     |- WinsPool        devices, transactions, queues and screens; implements PoolStore
     '- Standings       one device's refreshes, records, ranks and alerts
    Stream        the state machine of a connection to the backend
     |- WritePipeline   how a local write reaches the server; implements WriteQueue
     '- Watch           how a change of the server reaches a listener
    WriteQueue    what the client promises about writes
    Screens       the screens of one device, their delegate and their listeners
    MCPoolStore, MCDraftDay, MCWinsPool, MCStandings,
    MCWritePipeline, MCWatch, MCScreens    instances for TLC

    PoolProofs    what the operations of Pool yield; used by
     |- PoolStoreProofs      theorems on PoolStore and DraftDay
     '- WinsPoolProofs       theorems on WinsPool
    StreamProofs  what the calls of Stream leave behind; used by
     |- WritePipelineProofs  theorems on WritePipeline
     '- WatchProofs          theorems on Watch
    StandingsProofs, ScreensProofs    theorems on Standings and Screens

### Pool

A pool is a record with the fields of the Swift structure (`size`,
`idToMember`, `numberToPick`), a member and a team are model values, and a nil
`teamId` is `NoTeam`. `addMember` yields the set of pools it may leave behind,
one for each outcome of `shuffled()`. The number of picks (30) and the draft
orders are constants.

Two fields are history that the code does not have: `deal` counts how often the
draft order was dealt, and `mixed` says that a pick of this deal was confirmed
on a screen that still showed an earlier one. They only serve to state
properties: no guard of the devices' steps reads them.

### PoolStore

Variables `doc` and `created`, one action for each write of
`FirebaseInterface.swift`, each applied at once to the latest document.
`leavePool` appears as two actions, since which of the two writes is made
depends on what the leaver's screen showed. `pickTeam` has exactly the guards of
the code, the turn; that the team is free is part of what a *caller* on the same
deal guarantees, and so the action allows a taken team only with `mixed`.
`MaxDeal` bounds the re-deals.

### WinsPool

The same document with everything that lies between it and a finger.

| Variable | Stands for |
|---|---|
| `doc` | the document on the server |
| `link` | whether the pool was created and its link shared |
| `txn` | the transactions in flight: phase, the document read, retries left, whether the screen still waits |
| `writes` | each device's queue of local writes |
| `screen`, `shown`, `pickVC` | the screen on top, the latest snapshot given to it, the pick to confirm |
| `notified` | the turn alerts shown |
| `leaves`, `crashes` | bounds |

A transaction looks the document up, runs the guards of the update block on it,
and commits against the version read: any change of the document in between
makes it `stale`, and it starts again while it has retries left. A commit may be
applied and its reply lost, which the runner treats like any other error that is
not permanent. An error set by the update block ends the transaction. Local
writes show in the device's own snapshots at once (`written` is used both for
that and for the server) and are sent in order. A crash loses the screens, the
callbacks and the transactions, but not the queue and not a commit that is
already on its way.

Each user step is guarded by what his screen shows, not by the document:
`leavePool` chooses between deleting the pool and leaving it on the snapshot,
`selectTeam` offers the snapshot's teams, `confirmPressed` uses the pool with
which the confirmation screen was opened.

### DraftDay

The real constants: thirty teams and the four orders of `sizeToDraftOrder`. The
team picked is always the lowest one left, which leaves one path through each
draft up to the names of the members.

### Standings

One device and the league. `played` holds the league's table after each game. A
call of `getStandings` is `sent`, `answered` (with the table of that moment),
waiting for its `pools`, or `running`; calls overlap, fail, and arrive in any
order. The app's main queue runs one block at a time, so while the loop over the
teams runs (`main`) nothing else does, except that the app may be ended. The loop
takes the teams one by one, in any order: `notifyTeam` shows the alert,
`updateTeamWithId` sets the record and saves all of them, and `notifyRanks` compares
the ranks with those taken before the loop and calls the completion block.

| Variable | Stands for |
|---|---|
| `app`, `scheduled`, `signedIn` | the life cycle in `AppDelegate`, the refresh scheduled with iOS, `currentMember` |
| `request`, `main` | the calls in flight, the loop that runs |
| `idToTeam`, `saved` | the records in memory and in the user defaults |
| `teamAlert`, `rankAlert` | the notification shown for each team and each pool |
| `torn`, `newest` | history: a refresh was cut short; the newest table applied |

The launch, becoming active, the timer and the background refresh are the callers.
A rank is the index in the list sorted by percentage; percentages are compared by
cross-multiplication, which agrees with the code's division of small integers, and
members that are level stay in the order in which the dictionary lists them, chosen
anew for every answer of `getPools` (`sorted` keeps equal elements in order). The
member's pools are constants, taken from the documents of module `Pool`.

### Stream

`remote/stream.cc` as operators from the stream before a call to the stream after
it. Delays are left out: a timer that is set may fire at any moment, which covers
every choice of the backoff's delays. The stream is open as soon as credentials are
there, since `GrpcStream::Start` does not wait for the server. An answer of `GetToken`
to a start that was closed meanwhile is counted in `late` and does nothing.

### WritePipeline and WriteQueue

`WritePipeline` follows a local write (`didNotifyTurn`, `createPool`, `leavePool`)
through `SyncEngine`, the mutation queue on disk, `RemoteStore`'s pipeline and the
write stream to the backend, and the answer back to the completion block.

| Variable | Stands for |
|---|---|
| `queue`, `next_batch_id` | the batches on disk of each user, the next id |
| `mutation_callbacks`, `user` | completion blocks by user and batch, `current_user_` |
| `rs` | the pipeline, the stream, `handshake_complete_`, requests and responses on their way |
| `outcome`, `value` | the backend: what it last did with each write, which one it applied last |
| `told` | history: what the completion block was told |

A break loses what is on its way in both directions: the backend may have applied a
write whose response is lost. The backend handles the requests of a call in order and
none of a call that is over, and ends a call with an error only, never with OK. A call
ended because of a write is the permanent error of `IsPermanentWriteError`; every other
error is a break. A batch carries one write.

`WriteQueue` is the promise: per user, writes are decided in order, each at least
once, and answered in order after the server has decided on them. The refinement
mapping forgets everything but the queue on disk and the outcomes.

### Watch

`Watch` follows a change of the server to a screen's listener. What a query matches
is one content with a version, a resume token is the version of its snapshot, and a
view is its token, whether it is current, and whether the listener has had its first
event. The aggregator's `outstanding` count, which tells messages of an earlier
listen from those of the present one, is modelled as in the code. The backend adds
and removes targets in the order of the requests, may refuse some for good
(`denied`), and sends snapshots that may lag behind what the client saw on an earlier
connection, or come before a target is current.

### Screens

The main queue of one device: taps, UIKit's appearance callbacks, new records,
posted events, and behind it the client's worker queue that adds and removes
listeners. A transition calls `viewWillDisappear` of the old screen,
`viewWillAppear` of the new one and, when the animation is over, `viewDidDisappear`
of the old one, with anything else of the main queue in between except taps. Removing
a listener mutes it at once and takes effect on the worker queue later, as in
`QueryListenerRegistration::Remove`. Records are counted, the pool has versions.

## What the runs check

| Run | Instance | Shows |
|---|---|---|
| `pool_store` | 3 members, sizes 2 and 3, 4 picks, one re-deal | `PicksInOrder`, `FullPoolIsDealt`, `TeamsUnique`, `CompleteIsWholeLeague`, `MadePickIsFinal` |
| `draft_day` | 6 members, sizes 2, 3, 5, 6, 30 picks | every round has every member once (so shares are even and nobody picks three times in a row), somebody can pick until the draft is complete, nobody ever has to make pick 30 |
| `draft_race` | 2 devices, 3 picks, 2 transactions, 1 retry | `WinsPool` implements `PoolStore`; a pick reported as made is in the document |
| `last_seat` | 3 devices and a pool for 2, 2 transactions, 1 retry | implements `PoolStore`; dealt once |
| `crash` | 2 devices, 2 picks, one leave, one crash, 1 retry | implements `PoolStore`; late turn writes are harmless; a flag means an alert as long as nothing crashed |
| `liveness` | 2 devices, 2 picks, 1 retry | every transaction ends; a turn is noticed or passes |
| `standings` | 2 teams, 2 games, 2 calls in flight | tables are never mixed; alerts of answers that were not overtaken are true; no change of one's own team goes unannounced while the pools can be read; a rank is announced only if the member's standing to somebody changed |
| `standings_live` | 2 teams, 1 game, 2 calls | every refresh ends; the table catches up with the league |
| `failed_pick` | 2 devices, 3 picks, 1 retry | violated: a pick is reported as failed although it was made |
| `write_pipeline` | 2 users, 3 writes, a pipeline for 2, 2 failures, 2 restarts | implements `WriteQueue`; the pipeline is the oldest part of the present user's queue; responses and callbacks find their write; what a writer is told is what was decided last; no older write ends up over a newer one; no assertion about timers fails; the queue drains |
| `watch` | 2 targets, 2 listens, 2 versions, 1 failure, 1 restart | a target counts exactly when nothing about it is outstanding; no resume token is ahead of the contents; versions never go back; no assertion about timers fails; every listener that stays gets the newest content |
| `screens` | 7 screens, a pool that fills and is left, 4 listeners, 1 new record | the visible screen's listener is the only one; the pools and teams screens show the newest records; hidden screens are not touched; a screen that listens catches up |

`PoolStore`, `WinsPool`, `Standings`, `WritePipeline`, `Watch` and `Screens` state a
`TypeOK`. All are proved; the one of `PoolStore` is checked in `pool_store` too.

*Bounds.* Two devices are enough for every race of the draft, since only one
member has the turn; three are needed for the last seat. Three picks in the order
1, 1, 2 are picks 8 to 10 of the order for two: a member with two picks in a
row, for whom a second tap could be taken for the second pick, and a pick that
fills in the last one. One retry suffices to reach a retried success, a retried
refusal and exhaustion (the code has five). One leave is enough for a second deal
with everything of the first one still around. `MaxDeal`, `MaxLeaves` and
`MaxCrashes` are bounds of the model alone.

For the standings, two calls are enough for one answer to overtake another, and two
games for a win and a loss between two refreshes (the alert then has to choose). In
the league both teams have played equally often, but not in the table of a device
that was stopped halfway, where one of them may also have no record yet. Ending the
app is not bounded. `standings_live` uses a pool that is not drafted: alerts have no effect on
progress.

For the client, three writes and a pipeline for two make one wait for a place; two
failures and two restarts (of the network, the user or the app) allow a failure during
the recovery from another. Two listens on two targets are enough to listen to one of
them twice, or to two at once; `kMaxWatchStreamFailures` is the code's. The symmetry of
users or targets is not used, because these runs check liveness. Four listeners let the
user go to any screen and back, or log out and in, and a record may change at any point
of it.

The crash run has two picks, so a draft is dealt again before its first pick or after
its last; deals that replace half a draft are in `pool_store`, with four picks.

*Deadlock* is checked in the runs of `WinsPool` and `Standings`; a deleted pool ends the runs of
`PoolStore` and `DraftDay`, and in the others the bounds do: a client with nothing to send,
nothing to hear and nobody at the screen rests.

*Fairness* is assumed only of the client: each transaction goes on
(`TransactionRunner` backs off and runs again), a device with a network sends
its queue, and a listener gets the latest snapshot. Users owe nothing. In
`Standings` the timer fires while the app is active, the main queue serves each
block that waits for it (strong fairness, since another block's loop can come
first), and requests are answered again and again, though any one may fail. In
`WritePipeline` and `Watch` every answer of `GetToken` and every timer that is set
comes in the end (the worker queue runs all that is posted to it), messages that have
arrived are handled, and the backend handles what reaches it; failures are bounded. In
`Screens` the two queues and UIKit go on, and neither the user nor the world has to.

*Finding.* A pick whose commit is acknowledged too late is retried, refused by
its own effect, and announced as "Failed to Make Pick". It is in `PROJECT.json` with
its lines.

*Exceptions the properties make.* Where the code does not do what one would wish, the
property says so, and the hazard has a note:

- joining a full pool succeeds silently and adds nobody (`Pool.swift:34`);
- a table of the league that arrives after a newer one can turn a loss into the
  alert "Won!", so `AlertIsTrue` is about answers that were not overtaken;
- coming back from the teams screen, the members screen loses the delegate and may show
  old records until it is left, so `VisibleRecordsAreNewest` exempts it;
- a write that was applied, lost its response and is refused when it is sent again is
  reported as failed, so `AnswersAreTrue` is about the last decision;
- a listener that comes and goes before the stream opens takes the timer of the online
  state with it: with a silent backend the state then stays Unknown. `WatchConverges`
  assumes a backend that answers;
- a target added again before its removal is confirmed keeps the mark `current_`, so
  that a view may count as synced before it is; the app does not read `isFromCache`.

## What is proved

Every safety property of the passing runs, every action property and both refinements are
also theorems: they hold for every value of the constants, where a run shows them on one
instance. Each module of proofs has one theorem
for each property of the runs, and, where the model is one with many steps, an inductive
invariant `IInv` with a lemma per action. TLC checked each `IInv` as an invariant on the
instances above before it was proved (in `WinsPoolProofs`, with the positions in a queue that `At`
ranges over cut to those the instance reaches).

The assumptions are those that TLC evaluates in every run: as many teams as picks, at
least two, and orders that name seats of the pool (`PoolAssumption`); markers such as
`NoPool`, `NoRecord` and `NoAlert` that are not what they mark (`StoreAssumption`,
`DeviceAssumption`, `StandingsAssumption`); bounds that are numbers, with at least one listen
and one version (`ScreensAssumption`, `WatchAssumption`); finite sets of targets and users
(`WatchAssumption`, `WritePipelineAssumption`). The proofs hold for every such bound,
hence for behaviours of any length and with any number of crashes, failures, games or deals.

### The pool store: `PoolStoreProofs`, on `PoolProofs`

`PoolProofs` states what each operation of `Pool` yields. `TypeOK` is then inductive by
itself. `PicksInOrder` is inductive with it: the current pick is the first open one, so the
made picks are exactly those below it (`MadeBelowCurrent`), and the pick fills in the last
one with it because a map from all but one of the picks cannot cover all teams
(`TeamForLastPick`), which is where `first` of the remaining teams is known not to be nil.
`TeamsUnique` needs both: below the current pick teams are distinct, the chosen team is not
among them, and the team filled in is neither. A complete draft is then an injection from
the picks into the teams, hence onto (`WholeLeagueDrafted`). `FullPoolIsDealt` follows the
cardinality of the member set. `MadePicksAreFinal` uses the order once more: the thirtieth
pick is open when the twenty-ninth fills it in.

`CompletePoolHasNoTurn` is a consequence of the order of picks: the turn notifications that
`getStandings` asks for are never given, since it asks for complete pools only.

Of whole drafts: somebody can always make the next pick (`NextPickIsSomebodys`), for any
order. That rounds are fair depends on the order: `RoundsAreFair` shows it of every order in
which each round names each seat once, since the shuffle is a bijection, and
`DraftsAreFair` of the table in `Pool.swift`, of which `DraftOrdersAreBalanced` goes through
all 36 rounds.

### Devices and transactions: `WinsPoolProofs`

`IInv` says what everything that is still in flight may say about the document:

| Part | Why it is needed |
|---|---|
| `CreatedOnce` | the write that creates the pool is the first of its device, so no later one can be overwritten by it |
| `DocumentIsSound` | the picks of the document are in order, which only holds if commits are |
| `ShownIsPast`, `ScreensAreSound` | what a screen shows is an earlier version, and the team that was chosen on it cannot be taken by anybody else while the deal lasts |
| `TransactionsAreSound` | a transaction about to commit has read the present document; one that went well is in it |
| `LeavesPayForDeals` | every deal but the first is paid for by somebody who left, counting those whose leave is still queued |
| `NotifyIsSound`, `FlagMeansAlert` | a turn write in a queue asks for a pick of its own member, in a deal that was |

The second and third rows are the argument of the draft: a screen may be old, but the picks
below the number chosen are made and stay as they are, so the guard on the turn is enough to
keep teams unique. From `IInv` follow `NeverDealtForFree` (that is `DealtOnce`),
`MadePicksAreRecorded`, `NoPickIsPartial` and `FlagsMeanAlerts`, and `Implements`: a commit is the
store's operation on the latest document, a write sent is the store's write, everything else
stutters. With it the invariants of `PoolStore` hold for the devices.

### Standings: `StandingsProofs`

The core is `LoopIsSound`, that what the loop has behind it holds the records of its table,
with `SavedIsHeld`, that memory and user defaults agree at any moment in which the app runs
(so the app may end at any of them), and `SavedIsReal`, that outside a loop they hold a whole
table. Hence `TablesAreReal`. `AlertsAreTrue` needs `RecordsAreKnown` and `LeagueGrows`: no
record held is newer than the latest table applied, and tables only grow.
`ChangesAreAnnounced` is `NewsIsOut`, about the moment between the alert and the update.
`RankAlertsHaveReasons` needs `RanksAreFromBefore`, and that the second ranking uses the
dictionary order of the first. `TypeCorrect` contains that the call whose loop runs is the only
one that is running.

What is not claimed is that an announced rank is at most the number of members: that a
member is not ahead of himself needs his sums to be numbers, and a sum over a set is a
recursive function, of which the prover cannot show that it exists.

### Screens: `ScreensProofs`

`Stage` says how far a transition is and what is left of each of the two screens at that
point: listeners and the delegate that go in `viewDidDisappear` are still there, those that go
in `viewWillDisappear` are not. `ClientIsSound` is about the worker queue alone: a listener not
removed listens or will, one that was removed stops or will, in whatever order the queue holds
the operations. `HeldIsUnmuted` ties the two, `DelegateIsDrawn` the delegate to the records.
`OneListenerIsLeft`, `RecordsAreNewest` and `LeftScreensAreStill` follow.

### Listeners: `WatchProofs`, on `StreamProofs`

`StreamProofs` shows for each call of a stream which timers and callbacks it leaves behind.
`IInv` is `Types`, `TimersHold`, `TokensAreHonest` and `Wire`. `OutstandingIsExact` is inductive
only with `ClosedIsQuiet`: a call that is closed leaves no message. The hard part is
`TokenIsHonest`, because a token is saved together with documents that came earlier, and a
target may be removed and added again in between. `Has` says that at the moment in which
message k is handled, what the target matches is stored, pending, or on its way before k,
and that no request or response about it is in between; requests, snapshots and the
backend's own belief are honest in that sense (`RequestsAreHonest`, `SnapshotsAreHonest`,
`BackendIsHonest`), because documents arrive in the order of their versions
(`DocumentsGrow`, `CallGrows`) and a refused target is never spoken of again
(`RefusalsAreFinal`). `NothingGoesBack` is a property of steps, from the types alone.

### Writes: `WritePipelineProofs`, on `StreamProofs`

`Sound` relates the queue of the user, the pipeline and the messages of the call: the
pipeline is the head of the queue (`Heads`); before the handshake there is one greeting on
its way, or its answer (`Greeting`); after it, what is answered and what is asked for are
together the pipeline, in order (`Sent`). A stream that is idle has nothing to send. The
rest of `IInv` numbers the writes: the queue holds those since the last one answered
(`QueuesAreInOrder`), those answered have been decided (`DecisionsAreInOrder`), no decision
changes while its response is on its way (`ResponsesAreTrue`), nobody is told before
(`ToldAfterAnswer`), and only a write that will be decided again may be newer than the value
that stands (`NewestStands`). The last one is why a write that is sent again does no harm:
everything after it is sent again too.

There are many ways to fill the pipeline and to close a stream: `FillIsFilled` is about every
call that only sends more, and a lemma `...Restarts` about each call that closes the stream
and may start it again, whatever the state before. `QueueKept` is about all steps that
leave the queue and the backend alone, `AnsweredInv` and `DecidedInv` about the two that do
not. `KeepsPromise` is the refinement: writing is `Make`, a decision of the backend `Decide`,
an answer that is handled `Answer`, and all else stutters.

### Only model-checked

All liveness, since fairness and `ENABLED` are out of the prover's reach:
`TransactionEnds`, `TurnIsNoticed`, `RefreshEnds`, `CatchesUp`, `QueueDrains`, `WatchConverges`,
`ListenerCatchesUp`. And the counterexample of `failed_pick`.

## What is not modelled

- Several pools on one device: they share nothing but the list.
- In `WinsPool` a queued write reaches the server once. That it may be sent again is in
  `WritePipeline`; the writes of this app set a value and are the same when repeated.
- Of the Firestore client: the overlay of local writes on documents, limbo resolution,
  existence filters, target resets, stream tokens, garbage collection, gRPC below the
  stream, the parsing of messages, `waitForPendingWrites`, and a backend that ends a
  call with OK.
- Interrupted transitions between screens, and a completion block that pops a screen
  during one.
- Signing in and out during a draft, and the change of a member's display name (the listener's
  query compares it).
- Layout, wording, URL parsing; the table of the league's team numbers
  (`toTeamId`) and the parsing of its counts: an answer lists every team, with
  numbers.
- Pools that change during a refresh of the standings.
- The rest of `Pods` (BoringSSL, gRPC, abseil, leveldb, nanopb, FirebaseUI and the other
  SDKs): third-party code that the app only links, by far the most lines of the
  repository.

## Plan

Of the properties that a prover without fairness can reach, none is left. Of the proofs, those of `WatchProofs` and `WritePipelineProofs`
are long, because the model's records are updated in several calls one after the other; a
lemma that states which fields each of these calls leaves alone would shorten both. Of the
model, the next parts would be limbo resolution and existence filters of the listeners, and
several pools on one device.
