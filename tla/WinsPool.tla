------------------------------ MODULE WinsPool ------------------------------
(***************************************************************************)
(* One pool as the app really shares it: the document on the Firestore     *)
(* server, and on every device the Firestore client (transactions that     *)
(* retry, a queue of local writes that survives a crash, listeners that    *)
(* lag) under the view controllers a user walks through.                   *)
(*                                                                         *)
(* The users' steps are createPool, invite, joinPool, leavePool, openDraft,*)
(* selectTeam, confirmPressed and back; all others are the system's.       *)
(***************************************************************************)
EXTENDS Pool, Sequences

CONSTANTS
  NoPool,
  Device,          \* installations of the app
  currentMember,   \* who is signed in on each
  Txn,             \* identities for the transactions in flight
  kRetryCount,     \* how often the client runs a transaction again (5)
  MaxLeaves,       \* bound: how often anyone asks to leave
  MaxCrashes       \* bound: how often any device loses the running app

ASSUME DeviceAssumption ==
  /\ NoPool \notin PoolDocument
  /\ currentMember \in [Device -> Member]
  /\ {kRetryCount, MaxLeaves, MaxCrashes} \subseteq Nat

VARIABLES
  doc,        \* the document on the server, or NoPool
  link,       \* "none", then "created" with the pool, then "shared" with all
  txn,        \* the transactions
  writes,     \* per device: local writes not yet acknowledged, in order
  screen,     \* per device: the view controller on top
  shown,      \* per device: the latest snapshot of the pool it was given
  pickVC,     \* per device: the pick PickViewController would confirm
  notified,   \* per device: turn alerts shown
  leaves, crashes

userVars == <<screen, shown, pickVC>>
bounds == <<leaves, crashes>>
vars == <<doc, link, txn, writes, userVars, notified, bounds>>

-----------------------------------------------------------------------------
(* Local writes.  A write is queued on the device, shows at once in the    *)
(* device's own snapshots, and reaches the server later, in order.         *)

set(s) == [kind |-> "set", size |-> s]
leave == [kind |-> "leave"]
delete == [kind |-> "delete"]

(* didNotifyTurn for pick n, and whether the app that asked still runs.    *)
(* History: the deal of the snapshot that asked.                           *)
notify(n, k, live) == [kind |-> "notify", number |-> n, deal |-> k, live |-> live]

queued(d) == {writes[d][i] : i \in DOMAIN writes[d]}

(* The pool p after the writes ws of member m.  Updating a document that   *)
(* does not exist is rejected and leaves it so.  The order is immaterial:  *)
(* a set can only be the first, and after a delete nothing has effect.     *)
written(p, m, ws) ==
  LET base == IF \E s \in Size : set(s) \in ws
              THEN newPool(CHOOSE s \in Size : set(s) \in ws, m)
              ELSE p
      left == IF leave \in ws THEN removeMember(base, m) ELSE base
  IN  IF base = NoPool \/ delete \in ws
      THEN NoPool
      ELSE setNotified(left, {w.number : w \in {v \in ws : v.kind = "notify"}})

(* What a listener of device d may show of the document. *)
snapshot(d) == written(doc, currentMember[d], queued(d))

-----------------------------------------------------------------------------
(* Transactions: TransactionRunner and the two update blocks. *)

noTxn == [phase |-> "idle"]

Phase == {"lookup", "commit", "stale", "ok", "failed"}

(* caller: PickViewController is "waiting" for the result, or has "left"   *)
(* the stack, or "crashed" with the app.  read is the document as looked   *)
(* up.  History: deal, that of the caller's snapshot, and applied, whether *)
(* the server has committed it.                                            *)
TxnRecord ==
  [phase : Phase, dev : Device, op : {"join", "pick"},
   teamId : Team \cup {NoTeam}, number : PickNumber \cup {0}, deal : Nat,
   caller : {"waiting", "left", "crashed"}, retriesLeft : 0..kRetryCount,
   read : PoolDocument \cup {NoPool}, applied : BOOLEAN]

started(d, op, t, n, k) ==
  [phase |-> "lookup", dev |-> d, op |-> op, teamId |-> t, number |-> n,
   deal |-> k, caller |-> "waiting", retriesLeft |-> kRetryCount,
   read |-> NoPool, applied |-> FALSE]

(* Mutant: pickTeam does not compare the draft position. *)
admitted_anyNumber(p, t) ==
  /\ p # NoPool
  /\ t.op = "pick" => \E n \in PickNumber : isTurnOf(p, currentMember[t.dev], n)

(* The guards of the update blocks, on the document p just read. *)
admitted(p, t) ==
  /\ p # NoPool
  /\ t.op = "pick" => isTurnOf(p, currentMember[t.dev], t.number)

(* The documents that the update of transaction t may make. *)
outcomes(t) ==
  LET noteDeal(p) == [p EXCEPT !.mixed = @ \/ t.deal # doc.deal]
  IN  IF t.op = "join"
      THEN addMember(t.read, currentMember[t.dev])
      ELSE {noteDeal(setTeams(doc, update)) :
              update \in pickUpdates(t.read, t.number, t.teamId)}

(* The result goes to the completion block, if there still is one. *)
ended(t, result) ==
  IF t.caller = "crashed" THEN noTxn
  ELSE [t EXCEPT !.phase = result, !.read = NoPool]

(* Mutant: the retries are not counted. *)
retried_forever(t) ==
  IF t.caller = "crashed" THEN noTxn
  ELSE [t EXCEPT !.phase = "lookup", !.read = NoPool]

(* HandleTransactionError for an error that may be retried. *)
retried(t) ==
  IF t.caller = "crashed" THEN noTxn
  ELSE IF t.retriesLeft > 0
  THEN [t EXCEPT !.phase = "lookup", !.retriesLeft = @ - 1, !.read = NoPool]
  ELSE ended(t, "failed")

(* Mutant: an update is sent without its precondition. *)
outdated_ignored(t, p) == t

(* A write to the document fails the precondition of those who read it. *)
outdated(t, p) ==
  IF t.phase = "commit" /\ p # doc
  THEN [t EXCEPT !.phase = "stale", !.read = NoPool]
  ELSE t

outdatedAll(p) == [x \in Txn |-> outdated(txn[x], p)]

(* Mutant: a guard of an update block returns without setting the error. *)
refused_silently(t) == ended(t, "ok")

(* An error that an update block sets is not retried. *)
refused(t) == ended(t, "failed")

Lookup(x) ==
  /\ txn[x].phase = "lookup"
  /\ txn' = [txn EXCEPT ![x] = IF admitted(doc, @)
                               THEN [@ EXCEPT !.phase = "commit", !.read = doc]
                               ELSE refused(@)]
  /\ UNCHANGED <<doc, link, writes, userVars, notified, bounds>>

LookupUnavailable(x) ==
  /\ txn[x].phase = "lookup"
  /\ txn' = [txn EXCEPT ![x] = retried(@)]
  /\ UNCHANGED <<doc, link, writes, userVars, notified, bounds>>

(* The server applies the update, and the reply arrives or is lost. *)
Commit(x) ==
  /\ txn[x].phase = "commit"
  /\ doc' \in outcomes(txn[x])
  /\ \E result \in {ended(txn[x], "ok"), retried([txn[x] EXCEPT !.applied = TRUE])} :
       txn' = [outdatedAll(doc') EXCEPT ![x] = result]
  /\ UNCHANGED <<link, writes, userVars, notified, bounds>>

(* The precondition failed, or the request never reached the server. *)
CommitFailed(x) ==
  /\ txn[x].phase \in {"commit", "stale"}
  /\ txn' = [txn EXCEPT ![x] = retried(@)]
  /\ UNCHANGED <<doc, link, writes, userVars, notified, bounds>>

noPick == [teamId |-> NoTeam, number |-> 0, deal |-> 0]

(* A PickViewController of d leaves the navigation stack. *)
popped(d) ==
  [x \in Txn |-> IF txn[x] # noTxn /\ txn[x].dev = d /\ txn[x].op = "pick"
                    /\ txn[x].caller = "waiting"
                 THEN [txn[x] EXCEPT !.caller = "left"]
                 ELSE txn[x]]

(* The completion block: a pick that went well pops its view controller,   *)
(* everything else is at most an alert.                                    *)
Completion(x) ==
  LET d == txn[x].dev
      pops == txn[x].phase = "ok" /\ txn[x].op = "pick" /\ txn[x].caller = "waiting"
  IN  /\ txn[x].phase \in {"ok", "failed"}
      /\ txn' = [(IF pops THEN popped(d) ELSE txn) EXCEPT ![x] = noTxn]
      /\ screen' = IF pops THEN [screen EXCEPT ![d] = "draft"] ELSE screen
      /\ pickVC' = IF pops THEN [pickVC EXCEPT ![d] = noPick] ELSE pickVC
      /\ UNCHANGED <<doc, link, writes, shown, notified, bounds>>

-----------------------------------------------------------------------------
(* The rest of the client: the write queue, the listeners, the alerts. *)

(* Mutant: the completion block of didNotifyTurn tests the wrong way round. *)
alerts_onError(w) ==
  IF w.kind = "notify" /\ w.live /\ doc = NoPool THEN {<<w.deal, w.number>>} ELSE {}

(* addNotification in the completion block of didNotifyTurn. *)
alerts(w) ==
  IF w.kind = "notify" /\ w.live /\ doc # NoPool THEN {<<w.deal, w.number>>} ELSE {}

(* Acknowledged, the write leaves the queue and its completion block runs. *)
SendWrite(d) ==
  LET w == Head(writes[d])
  IN  /\ writes[d] # <<>>
      /\ doc' = written(doc, currentMember[d], {w})
      /\ writes' = [writes EXCEPT ![d] = Tail(@)]
      /\ txn' = outdatedAll(doc')
      /\ notified' = [notified EXCEPT ![d] = @ \cup alerts(w)]
      /\ UNCHANGED <<link, userVars, bounds>>

(* addDraftPickNotification: the write that snapshot p makes d ask for. *)
turnWrites(d, p) ==
  {notify(n, p.deal, TRUE) :
     n \in {k \in PickNumber : /\ isTurnOf(p, currentMember[d], k)
                              /\ ~p.numberToPick[k].didNotifyMember}}

(* Mutant: the listener only redraws. *)
withTurnWrite_never(d, p) == writes

withTurnWrite(d, p) ==
  IF turnWrites(d, p) = {}
  THEN writes
  ELSE [writes EXCEPT ![d] = Append(@, CHOOSE w \in turnWrites(d, p) : TRUE)]

(* What PoolsViewController shows of p: the pools that list the member. *)
listed(d, p) == IF p # NoPool /\ currentMember[d] \in p.idToMember THEN p ELSE NoPool

(* The listeners.  The one of a single pool ignores a pool that has gone.  *)
(* While PickViewController is on top there is no listener.                *)
Deliver(d) ==
  LET p == IF screen[d] = "pools" THEN listed(d, snapshot(d)) ELSE snapshot(d)
  IN  /\ screen[d] # "pick"
      /\ screen[d] = "draft" => p # NoPool
      /\ shown' = [shown EXCEPT ![d] = p]
      /\ writes' = IF p = NoPool THEN writes ELSE withTurnWrite(d, p)
      /\ UNCHANGED <<doc, link, txn, screen, pickVC, notified, bounds>>

(* The app is killed and started again.  The queue is on disk, but nobody  *)
(* waits for its writes any more; a commit on its way may still arrive.    *)
Crash(d) ==
  /\ crashes < MaxCrashes
  /\ crashes' = crashes + 1
  /\ txn' = [x \in Txn |->
                IF txn[x] = noTxn \/ txn[x].dev # d THEN txn[x]
                ELSE IF txn[x].phase = "commit"
                THEN [txn[x] EXCEPT !.caller = "crashed"]
                ELSE noTxn]
  /\ writes' = [writes EXCEPT ![d] =
                  [i \in DOMAIN @ |-> IF @[i].kind = "notify"
                                      THEN notify(@[i].number, @[i].deal, FALSE)
                                      ELSE @[i]]]
  /\ screen' = [screen EXCEPT ![d] = "pools"]
  /\ shown' = [shown EXCEPT ![d] = NoPool]
  /\ pickVC' = [pickVC EXCEPT ![d] = noPick]
  /\ UNCHANGED <<doc, link, notified, leaves>>

-----------------------------------------------------------------------------
(* The users. *)

createPool(d, s) ==
  /\ link = "none"
  /\ link' = "created"
  /\ writes' = [writes EXCEPT ![d] = Append(@, set(s))]
  /\ UNCHANGED <<doc, txn, userVars, notified, bounds>>

(* The cell's button of a pool that is not full. *)
invite(d) ==
  /\ screen[d] = "pools" /\ shown[d] # NoPool
  /\ ~isFull(shown[d])
  /\ link' = "shared"
  /\ UNCHANGED <<doc, txn, writes, userVars, notified, bounds>>

(* Opening the link that was shared. *)
joinPool(d, x) ==
  /\ link = "shared"
  /\ txn[x] = noTxn
  /\ txn' = [txn EXCEPT ![x] = started(d, "join", NoTeam, 0, 0)]
  /\ UNCHANGED <<doc, link, writes, userVars, notified, bounds>>

(* Swiping the pool away: what to write is decided on the snapshot shown. *)
leavePool(d) ==
  /\ screen[d] = "pools" /\ shown[d] # NoPool
  /\ leaves < MaxLeaves
  /\ leaves' = leaves + 1
  /\ writes' = [writes EXCEPT ![d] =
                  Append(@, IF shown[d].idToMember = {currentMember[d]}
                            THEN delete ELSE leave)]
  /\ UNCHANGED <<doc, link, txn, userVars, notified, crashes>>

(* The same button of a full pool whose draft is not over. *)
openDraft(d) ==
  /\ screen[d] = "pools" /\ shown[d] # NoPool
  /\ isFull(shown[d]) /\ ~isComplete(shown[d])
  /\ screen' = [screen EXCEPT ![d] = "draft"]
  /\ UNCHANGED <<doc, link, txn, writes, shown, pickVC, notified, bounds>>

(* Rows can be chosen on the member's own turn, as far as the snapshot     *)
(* shows, and are the teams that the snapshot leaves.                      *)
selectTeam(d, t) ==
  /\ screen[d] = "draft"
  /\ t \in teamsRemaining(shown[d])
  /\ \E n \in PickNumber :
       /\ isTurnOf(shown[d], currentMember[d], n)
       /\ pickVC' = [pickVC EXCEPT ![d] =
                       [teamId |-> t, number |-> n, deal |-> shown[d].deal]]
  /\ screen' = [screen EXCEPT ![d] = "pick"]
  /\ UNCHANGED <<doc, link, txn, writes, shown, notified, bounds>>

(* The button stays enabled: a second tap starts a second transaction. *)
confirmPressed(d, x) ==
  /\ screen[d] = "pick"
  /\ txn[x] = noTxn
  /\ txn' = [txn EXCEPT ![x] = started(d, "pick", pickVC[d].teamId,
                                       pickVC[d].number, pickVC[d].deal)]
  /\ UNCHANGED <<doc, link, writes, userVars, notified, bounds>>

backFromPick(d) ==
  /\ screen[d] = "pick"
  /\ screen' = [screen EXCEPT ![d] = "draft"]
  /\ pickVC' = [pickVC EXCEPT ![d] = noPick]
  /\ txn' = popped(d)
  /\ UNCHANGED <<doc, link, writes, shown, notified, bounds>>

(* PoolsViewController's new listener is first given what the client has. *)
backFromDraft(d) ==
  /\ screen[d] = "draft"
  /\ screen' = [screen EXCEPT ![d] = "pools"]
  /\ shown' = [shown EXCEPT ![d] = listed(d, @)]
  /\ UNCHANGED <<doc, link, txn, writes, pickVC, notified, bounds>>

-----------------------------------------------------------------------------

Init ==
  /\ doc = NoPool
  /\ link = "none"
  /\ txn = [x \in Txn |-> noTxn]
  /\ writes = [d \in Device |-> <<>>]
  /\ screen = [d \in Device |-> "pools"]
  /\ shown = [d \in Device |-> NoPool]
  /\ pickVC = [d \in Device |-> noPick]
  /\ notified = [d \in Device |-> {}]
  /\ leaves = 0
  /\ crashes = 0

TxnStep(x) ==
  \/ Lookup(x) \/ LookupUnavailable(x)
  \/ Commit(x) \/ CommitFailed(x)
  \/ Completion(x)

UserStep(d) ==
  \/ \E s \in Size : createPool(d, s)
  \/ invite(d)
  \/ \E x \in Txn : joinPool(d, x) \/ confirmPressed(d, x)
  \/ leavePool(d)
  \/ openDraft(d)
  \/ \E t \in Team : selectTeam(d, t)
  \/ backFromPick(d)
  \/ backFromDraft(d)

Next ==
  \/ \E x \in Txn : TxnStep(x)
  \/ \E d \in Device : SendWrite(d) \/ Deliver(d) \/ Crash(d) \/ UserStep(d)

Spec == Init /\ [][Next]_vars

-----------------------------------------------------------------------------

(* Every variable has its shape; a write queue holds what its device asked *)
(* for.                                                                    *)
Mutation ==
  {set(s) : s \in Size} \cup {leave, delete}
    \cup {notify(n, k, l) : n \in PickNumber, k \in 0..(MaxLeaves + 1), l \in BOOLEAN}

TypeOK ==
  /\ doc \in PoolDocument \cup {NoPool}
  /\ link \in {"none", "created", "shared"}
  /\ \A x \in Txn : txn[x] \in TxnRecord \cup {noTxn}
  /\ \A d \in Device : queued(d) \subseteq Mutation
  /\ screen \in [Device -> {"pools", "draft", "pick"}]
  /\ shown \in [Device -> PoolDocument \cup {NoPool}]
  /\ \A d \in Device : notified[d] \subseteq Nat \X PickNumber
  /\ leaves \in 0..MaxLeaves /\ crashes \in 0..MaxCrashes

(* FirebaseInterface keeps the promise of PoolStore: however transactions  *)
(* and queued writes interleave, retry and get lost, the document changes  *)
(* by whole operations on its latest version, and a team that a user chose *)
(* on a snapshot of this deal is still free when the pick commits.         *)
Store == INSTANCE PoolStore WITH
  created <- link # "none" /\ \A d \in Device, s \in Size : set(s) \notin queued(d),
  MaxDeal <- MaxLeaves + 1

ImplementsPoolStore == Store!Spec

(* A pick reported as made is in the document, for as long as the deal it  *)
(* was made in lasts.                                                      *)
MadePickIsRecorded ==
  \A x \in Txn :
    /\ txn[x].phase = "ok" /\ txn[x].op = "pick"
    /\ doc # NoPool /\ txn[x].deal = doc.deal
    => doc.numberToPick[txn[x].number].teamId = txn[x].teamId

(* The draft order is dealt again only when somebody left: a join that is  *)
(* retried, repeated or late never shuffles a draft that has begun.        *)
DealtOnce == doc # NoPool => doc.deal <= leaves + 1

(* A turn write that arrives late still finds its pick: otherwise it would *)
(* create one that has nothing but didNotifyMember, and the pool could no  *)
(* longer be decoded by anybody.                                           *)
NoPartialPick ==
  doc # NoPool =>
    \A d \in Device : \A w \in {v \in queued(d) : v.kind = "notify"} :
      w.number \in DOMAIN doc.numberToPick

(* While no app is killed, a pick is flagged didNotifyMember only if       *)
(* somebody was alerted: its owner, or, by a write that came after the     *)
(* draft was dealt again, the owner of that number in the earlier deal.    *)
FlagMeansAlert ==
  crashes = 0 /\ doc # NoPool =>
    \A n \in DOMAIN doc.numberToPick :
      doc.numberToPick[n].didNotifyMember =>
        \E d \in Device, k \in 1..doc.deal :
          /\ <<k, n>> \in notified[d]
          /\ k = doc.deal => currentMember[d] = doc.numberToPick[n].member

-----------------------------------------------------------------------------

(* The client runs what it has queued as long as there is a network, and   *)
(* the runner backs off and goes on; no user has to do anything.           *)
Fairness ==
  /\ \A x \in Txn : WF_vars(TxnStep(x))
  /\ \A d \in Device : WF_vars(SendWrite(d)) /\ WF_vars(Deliver(d))

FairSpec == Spec /\ Fairness

(* Every transaction ends and its completion block is called. *)
TransactionEnds == \A x \in Txn : txn[x] # noTxn ~> txn[x] = noTxn

(* A turn does not go unnoticed: it is flagged, and so alerted, or it      *)
(* passes, unless the member left the pool or keeps every device on the    *)
(* confirmation screen, where nothing listens.                             *)
unflaggedTurn(n) ==
  doc # NoPool /\ isCurrentPick(doc, n) /\ ~doc.numberToPick[n].didNotifyMember

listening(m) == \E d \in Device : currentMember[d] = m /\ screen[d] # "pick"

TurnIsNoticed ==
  \A n \in PickNumber, m \in Member :
    unflaggedTurn(n) /\ doc.numberToPick[n].member = m
      ~> \/ ~unflaggedTurn(n)
         \/ m \notin doc.idToMember
         \/ ~listening(m)

-----------------------------------------------------------------------------

(* PickViewController says "Failed to Make Pick" only of a pick that was   *)
(* not made.                                                               *)
FailedPickWasNotMade ==
  \A x \in Txn :
    txn[x].phase = "failed" /\ txn[x].op = "pick" => ~txn[x].applied
=============================================================================
