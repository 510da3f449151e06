------------------------------ MODULE Screens -------------------------------
(***************************************************************************)
(* The screens of one device: which of them is the delegate of Teams.shared*)
(* and hears of new records, which listens to the pool, and what each of   *)
(* them shows while the user walks through the app.                        *)
(*                                                                         *)
(* The main queue runs the user's taps, UIKit's appearance callbacks, new  *)
(* records and the events of listeners one at a time; the Firestore client *)
(* adds and removes listeners on its worker queue and posts their events   *)
(* to the main queue.  A transition calls viewWillDisappear of the old     *)
(* screen, viewWillAppear of the new one and, when the animation is over,  *)
(* viewDidDisappear of the old one; until then taps do nothing.            *)
(*                                                                         *)
(* There is one pool, in versions.                                         *)
(***************************************************************************)
EXTENDS Naturals, Sequences, SequencesExt, FiniteSetsExt

CONSTANTS
  status,       \* per version: the pool is "open", "drafting" or "complete"
  MaxListens,   \* bound: listeners added
  MaxRecords    \* bound: updates of the records

MaxVersion == Len(status)

ASSUME ScreensAssumption ==
  /\ status \in Seq({"open", "drafting", "complete"}) /\ MaxVersion > 0
  /\ MaxListens \in Nat \ {0} /\ MaxRecords \in Nat

Screen == {"Pools", "Create", "Members", "Teams", "Draft", "Pick", "Login"}

VARIABLES
  stack,         \* the screens, the visible one last
  transition,    \* UIKit's callbacks still to come
  signedIn,      \* Auth.auth().currentUser is not nil
  delegate,      \* of Teams.shared, or "nobody"
  listener,      \* per screen: its ListenerRegistration, or nil
  pool,          \* per screen: the version it holds, or 0
  records,       \* how often a record has changed
  drawn,         \* per screen: how many of these changes it has drawn
  client         \* the Firestore client

app == <<stack, transition, signedIn, delegate, listener, pool>>
vars == <<app, records, drawn, client>>

nil == 0

top == Last(stack)

settled == transition = <<>>

-----------------------------------------------------------------------------
(* The Firestore client: what its worker queue has to run, who listens,    *)
(* what is posted to the main queue, whom it has muted, what it knows.     *)

Listener == 1..MaxListens

noClient ==
  [worker |-> <<>>, listening |-> {}, posted |-> <<>>, muted |-> {},
   screen |-> <<>>, version |-> 1]

event(id, v) == [listener |-> id, version |-> v]

(* addSnapshotListener, called by a screen. *)
added(c, s) ==
  [c EXCEPT !.screen = Append(@, s),
            !.worker = Append(@, [op |-> "add", listener |-> Len(c.screen) + 1])]

(* Mutant: the listener is muted, but stays in the client. *)
removed_muted(c, id) == [c EXCEPT !.muted = @ \cup {id}]

(* QueryListenerRegistration::Remove. *)
removed(c, id) ==
  [c EXCEPT !.muted = @ \cup {id},
            !.worker = Append(@, [op |-> "remove", listener |-> id])]

(* Mutant: a new listener waits for the next change. *)
AddQueryListener_silent ==
  /\ client.worker # <<>> /\ Head(client.worker).op = "add"
  /\ LET id == Head(client.worker).listener
     IN  client' = [client EXCEPT !.worker = Tail(@), !.listening = @ \cup {id}]
  /\ UNCHANGED <<app, records, drawn>>

(* The new listener is given what is known; the pool is in the cache.      *)
AddQueryListener ==
  /\ client.worker # <<>> /\ Head(client.worker).op = "add"
  /\ LET id == Head(client.worker).listener
     IN  client' = [client EXCEPT !.worker = Tail(@), !.listening = @ \cup {id},
                                  !.posted = Append(@, event(id, client.version))]
  /\ UNCHANGED <<app, records, drawn>>

RemoveQueryListener ==
  /\ client.worker # <<>> /\ Head(client.worker).op = "remove"
  /\ client' = [client EXCEPT !.worker = Tail(@),
                              !.listening = @ \ {Head(client.worker).listener}]
  /\ UNCHANGED <<app, records, drawn>>

(* The pool changes: everyone who listens is told. *)
OnViewSnapshots ==
  /\ client.version < MaxVersion
  /\ LET v == client.version + 1
     IN  client' = [client EXCEPT !.version = v,
           !.posted = @ \o SetToSeq({event(id, v) : id \in client.listening})]
  /\ UNCHANGED <<app, records, drawn>>

(* Mutant: nothing is muted. *)
isMuted_never(id) == FALSE

(* Remove was called, even if the event was posted before. *)
isMuted(id) == id \in client.muted

(* The posted block runs: the screen's closure takes the pool and draws    *)
(* it, unless the listener is muted.                                       *)
OnEvent ==
  /\ client.posted # <<>>
  /\ LET e == Head(client.posted)
         s == client.screen[e.listener]
     IN  IF isMuted(e.listener)
         THEN UNCHANGED <<pool, drawn>>
         ELSE /\ pool' = [pool EXCEPT ![s] = e.version]
              /\ drawn' = [drawn EXCEPT ![s] = records]
  /\ client' = [client EXCEPT !.posted = Tail(@)]
  /\ UNCHANGED <<stack, transition, signedIn, delegate, listener, records>>

-----------------------------------------------------------------------------
(* Appearance callbacks. *)

(* Which screens add a listener when they appear. *)
listens(s) ==
  CASE s = "Pools"   -> signedIn
    [] s = "Members" -> status[pool["Members"]] = "open"
    [] s = "Draft"   -> TRUE
    [] OTHER         -> FALSE

showsRecords == {"Pools", "Members", "Teams"}

viewWillAppear(s) ==
  /\ delegate' = IF s \in showsRecords THEN s ELSE delegate
  /\ drawn' = [drawn EXCEPT ![s] = records]
  /\ IF listens(s)
     THEN /\ client' = added(client, s)
          /\ listener' = [listener EXCEPT ![s] = Len(client'.screen)]
     ELSE UNCHANGED <<client, listener>>

(* listener?.remove() and listener = nil. *)
removeListener(s) ==
  /\ client' = IF listener[s] = nil THEN client ELSE removed(client, listener[s])
  /\ listener' = [listener EXCEPT ![s] = nil]

(* The screens that let go of the delegate and of their listener when they *)
(* are about to disappear.                                                 *)
onWillDisappear == {"Pools", "Members"}

(* Mutant: the members screen lets go once more. *)
onDidDisappear_members == {"Teams", "Draft", "Members"}

(* Those that let go when they have disappeared: the teams screen of the   *)
(* delegate, whoever that is by now, the draft screen of its listener.     *)
onDidDisappear == {"Teams", "Draft"}

viewWillDisappear(s) ==
  /\ IF s \in onWillDisappear
     THEN delegate' = "nobody" /\ removeListener(s)
     ELSE UNCHANGED <<delegate, listener, client>>
  /\ UNCHANGED drawn

viewDidDisappear(s) ==
  /\ IF s \in onDidDisappear
     THEN /\ delegate' = IF s \in showsRecords THEN "nobody" ELSE delegate
          /\ removeListener(s)
     ELSE UNCHANGED <<delegate, listener, client>>
  /\ UNCHANGED drawn

(* UIKit calls the next one. *)
Appearance ==
  /\ ~settled
  /\ LET s == Head(transition).screen
     IN  CASE Head(transition).callback = "viewWillDisappear" -> viewWillDisappear(s)
           [] Head(transition).callback = "viewWillAppear"    -> viewWillAppear(s)
           [] OTHER                                           -> viewDidDisappear(s)
  /\ transition' = Tail(transition)
  /\ UNCHANGED <<stack, signedIn, pool, records>>

-----------------------------------------------------------------------------
(* The user, and the records. *)

call(callback, s) == [callback |-> callback, screen |-> s]

transitionTo(s) ==
  /\ settled
  /\ Len(client.screen) < MaxListens
  /\ transition' = <<call("viewWillDisappear", top), call("viewWillAppear", s),
                     call("viewDidDisappear", top)>>

(* A new screen s, with version v of the pool, or none. *)
push(s, v) ==
  /\ transitionTo(s)
  /\ stack' = Append(stack, s)
  /\ pool' = [pool EXCEPT ![s] = v]
  /\ UNCHANGED <<delegate, listener, records, drawn, client>>

pop ==
  /\ transitionTo(stack[Len(stack) - 1])
  /\ stack' = Front(stack)
  /\ UNCHANGED <<delegate, listener, pool, records, drawn, client>>

openCreate == top = "Pools" /\ push("Create", 0) /\ UNCHANGED signedIn

openMembers ==
  /\ top = "Pools" /\ pool["Pools"] # 0
  /\ push("Members", pool["Pools"])
  /\ UNCHANGED signedIn

openTeams == top = "Members" /\ push("Teams", pool["Members"]) /\ UNCHANGED signedIn

openDraft ==
  /\ top = "Pools" /\ pool["Pools"] # 0 /\ status[pool["Pools"]] = "drafting"
  /\ push("Draft", pool["Pools"])
  /\ UNCHANGED signedIn

selectTeam ==
  /\ top = "Draft" /\ status[pool["Draft"]] = "drafting"
  /\ push("Pick", pool["Draft"])
  /\ UNCHANGED signedIn

(* Back, the cross, or the end of what the screen was for. *)
back == top \notin {"Pools", "Login"} /\ pop /\ UNCHANGED signedIn

(* At launch with nobody signed in. *)
presentLogin == top = "Pools" /\ ~signedIn /\ push("Login", 0) /\ UNCHANGED signedIn

(* signOut may fail; the login is presented all the same. *)
logOutPressed ==
  /\ top = "Pools" /\ signedIn
  /\ signedIn' \in BOOLEAN
  /\ transitionTo("Login")
  /\ stack' = Append(stack, "Login")
  /\ pool' = [pool EXCEPT !["Pools"] = 0]
  /\ UNCHANGED <<delegate, listener, records, drawn, client>>

logIn == top = "Login" /\ pop /\ signedIn' = TRUE

(* Teams.updateTeamWithId: the delegate draws. *)
updateTeamWithId ==
  /\ records < MaxRecords
  /\ records' = records + 1
  /\ drawn' = IF delegate = "nobody" THEN drawn ELSE [drawn EXCEPT ![delegate] = records']
  /\ UNCHANGED <<app, client>>

-----------------------------------------------------------------------------
Init ==
  /\ stack = <<"Pools">>
  /\ transition = <<call("viewWillAppear", "Pools")>>
  /\ signedIn \in BOOLEAN
  /\ delegate = "nobody"
  /\ listener = [s \in Screen |-> nil]
  /\ pool = [s \in Screen |-> 0]
  /\ records = 0
  /\ drawn = [s \in Screen |-> 0]
  /\ client = noClient

User ==
  \/ openCreate \/ openMembers \/ openTeams \/ openDraft \/ selectTeam \/ back
  \/ presentLogin \/ logOutPressed \/ logIn

Worker == AddQueryListener \/ RemoveQueryListener

Next == User \/ Appearance \/ updateTeamWithId \/ Worker \/ OnViewSnapshots \/ OnEvent

Spec == Init /\ [][Next]_vars

(* The queues and UIKit go on; the user need not, nor the world.           *)
FairSpec == Spec /\ WF_vars(Appearance) /\ WF_vars(Worker) /\ WF_vars(OnEvent)

-----------------------------------------------------------------------------
(* Every variable is of its kind, and the pools screen is at the bottom.   *)
TypeOK ==
  /\ stack \in Seq(Screen) /\ stack # <<>> /\ Head(stack) = "Pools"
  /\ transition \in Seq([callback : {"viewWillDisappear", "viewWillAppear", "viewDidDisappear"},
                          screen : Screen])
  /\ signedIn \in BOOLEAN
  /\ delegate \in Screen \cup {"nobody"}
  /\ listener \in [Screen -> Listener \cup {nil}]
  /\ pool \in [Screen -> 0..MaxVersion]
  /\ records \in 0..MaxRecords
  /\ drawn \in [Screen -> 0..MaxRecords]
  /\ client.listening \subseteq Listener /\ client.muted \subseteq Listener

(* Once a transition is over and the client has done what it was asked,    *)
(* the visible screen's listener is the only one there is: no screen on    *)
(* the way back has been cut off, and none that was left still costs reads *)
(* or raises alerts (viewWillAppear, viewWillDisappear, viewDidDisappear;  *)
(* FirestoreClient::RemoveListener).                                       *)
OnlyTopListens ==
  settled /\ client.worker = <<>> => client.listening = {listener[top]} \ {nil}

(* Whatever way the user came, the pools screen and the teams screen show  *)
(* the newest records, and no hidden screen is the delegate.  The members  *)
(* screen is exempt: coming back from the teams screen, it becomes the     *)
(* delegate before the teams screen lets go of it, and it may then show    *)
(* old records until it is left (TeamsViewController.viewDidDisappear).    *)
VisibleRecordsAreNewest ==
  settled =>
    /\ top \in {"Pools", "Teams"} => delegate = top /\ drawn[top] = records
    /\ delegate \in {top, "nobody"}

(* A screen that the user has left is not touched again, although events   *)
(* for it may wait on the main queue when its listener is removed          *)
(* (AsyncEventListener::Mute).                                             *)
HiddenScreensAreStill ==
  [][\A s \in Screen : settled /\ pool'[s] # pool[s] => s \in {top, top'}]_vars

(* A screen that listens and stays has the pool as the client knows it in  *)
(* the end, even if it changed between the tap and the new listener        *)
(* (EventManager::AddQueryListener, AsyncEventListener::OnEvent).          *)
ListenerCatchesUp ==
  <>[](settled /\ listener[top] # nil => pool[top] = client.version)
=============================================================================
