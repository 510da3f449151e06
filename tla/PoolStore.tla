----------------------------- MODULE PoolStore ------------------------------
(***************************************************************************)
(* What FirebaseInterface.swift promises about one document of the "pools" *)
(* collection: it changes by whole operations, each one applied to the     *)
(* latest document.  There are no transactions, retries, queues or devices *)
(* here; module WinsPool has them and is shown to implement this one.      *)
(***************************************************************************)
EXTENDS Pool

CONSTANTS
  NoPool,    \* the document does not exist
  MaxDeal    \* bound: no operation that could deal again once this is reached

ASSUME StoreAssumption ==
  /\ NoPool \notin PoolDocument
  /\ MaxDeal \in Nat

VARIABLES
  doc,       \* the document on the server
  created    \* whether it was ever written: its id is a fresh UUID

storeVars == <<doc, created>>

Init ==
  /\ doc = NoPool
  /\ created = FALSE

createPool(m, s) ==
  /\ ~created
  /\ doc' = newPool(s, m)
  /\ created' = TRUE

joinPool(m) ==
  /\ doc # NoPool
  /\ doc' \in addMember(doc, m)
  /\ UNCHANGED created

(* leavePool, when the pool has other members. *)
leavePool(m) ==
  /\ doc # NoPool
  /\ doc.deal < MaxDeal
  /\ doc' = removeMember(doc, m)
  /\ UNCHANGED created

(* leavePool, when the leaver saw no other member. *)
deletePool ==
  /\ doc # NoPool
  /\ doc' = NoPool
  /\ UNCHANGED created

(* pickTeam.  The guards compare the turn only: that the team is available *)
(* was decided on the snapshot the user looked at, which for a snapshot of *)
(* an earlier deal says nothing about this one.                            *)
pickTeam(m, n, t) ==
  /\ doc # NoPool
  /\ isTurnOf(doc, m, n)
  /\ \E update \in pickUpdates(doc, n, t) :
       \/ t \in teamsRemaining(doc) /\ doc' = setTeams(doc, update)
       \/ doc.deal > 1 /\ doc' = [setTeams(doc, update) EXCEPT !.mixed = TRUE]
  /\ UNCHANGED created

(* Mutant: the write does not require the pick to be there. *)
didNotifyTurn_createsPick(n) ==
  /\ doc # NoPool
  /\ doc' = [doc EXCEPT !.numberToPick =
                [k \in DOMAIN @ \cup {n} |->
                   IF k = n THEN [didNotifyMember |-> TRUE] ELSE @[k]]]
  /\ UNCHANGED created

didNotifyTurn(n) ==
  /\ doc # NoPool
  /\ n \in DOMAIN doc.numberToPick
  /\ doc' = setNotified(doc, {n})
  /\ UNCHANGED created

Next ==
  \/ \E m \in Member :
       \/ \E s \in Size : createPool(m, s)
       \/ joinPool(m)
       \/ leavePool(m)
       \/ \E n \in PickNumber, t \in Team : pickTeam(m, n, t)
  \/ deletePool
  \/ \E n \in PickNumber : didNotifyTurn(n)

Spec == Init /\ [][Next]_storeVars

-----------------------------------------------------------------------------

(* The document is absent or a pool that Pool's decoder accepts. *)
TypeOK ==
  /\ doc \in PoolDocument \cup {NoPool}
  /\ created \in BOOLEAN

(* currentPick scans for the first open pick and isComplete looks at the   *)
(* last one only; they agree because picks are made in order and because   *)
(* pickTeam makes the last two together.                                   *)
PicksInOrder ==
  doc # NoPool =>
    /\ \A n \in madePicks(doc) : 1..n \subseteq madePicks(doc)
    /\ NumPicks - 1 \in madePicks(doc) => isComplete(doc)

(* A pool never has more members than seats, and a full one has a draft    *)
(* that is dealt to its present members, whoever left and joined before:   *)
(* leavePool keeps the leaver's picks, addMember deals again on refilling. *)
FullPoolIsDealt ==
  doc # NoPool =>
    /\ Cardinality(doc.idToMember) <= doc.size
    /\ isFull(doc) =>
         /\ DOMAIN doc.numberToPick # {}
         /\ \A n \in PickNumber : doc.numberToPick[n].member \in doc.idToMember

(* No team is drafted twice, although pickTeam never checks the team, as   *)
(* long as no pick came from the screen of an earlier deal.                *)
TeamsUnique ==
  doc # NoPool /\ ~doc.mixed =>
    \A i, j \in madePicks(doc) :
      doc.numberToPick[i].teamId = doc.numberToPick[j].teamId => i = j

(* A complete draft has handed out the whole league. *)
CompleteIsWholeLeague ==
  doc # NoPool /\ ~doc.mixed /\ isComplete(doc) => teamsRemaining(doc) = {}

(* Within a deal no operation changes whose pick it is, or a made pick. *)
KeepsMadePicks ==
  doc # NoPool /\ doc' # NoPool /\ doc'.deal = doc.deal =>
    \A n \in DOMAIN doc.numberToPick :
      /\ n \in DOMAIN doc'.numberToPick
      /\ doc'.numberToPick[n].member = doc.numberToPick[n].member
      /\ n \in madePicks(doc) =>
           doc'.numberToPick[n].teamId = doc.numberToPick[n].teamId

MadePickIsFinal == [][KeepsMadePicks]_storeVars
=============================================================================
