------------------------------ MODULE DraftDay ------------------------------
(***************************************************************************)
(* A whole draft with the draft orders that Pool.swift really contains:    *)
(* thirty picks, pools of two, three, five or six.  Which team a member    *)
(* picks plays no part here, so it is always the lowest one left.          *)
(***************************************************************************)
EXTENDS PoolStore

(* Mutant: two neighbouring seats of the order for three are swapped. *)
draftOrders_swapped ==
  [s \in {3} |-> <<1,2,2, 3,3,1, 2,1,3, 3,2,1, 1,2,3, 3,2,1, 1,2,3, 3,2,1, 2,1,3, 3,2,1>>]

(* Pool.sizeToDraftOrder. *)
draftOrders ==
  [s \in {2, 3, 5, 6} |->
     CASE s = 2 -> <<1,2, 2,1, 2,1, 2,1, 1,2, 2,1, 1,2, 2,1, 1,2, 2,1, 1,2, 2,1, 1,2, 2,1, 2,1>>
       [] s = 3 -> <<1,2,3, 3,2,1, 2,1,3, 3,2,1, 1,2,3, 3,2,1, 1,2,3, 3,2,1, 2,1,3, 3,2,1>>
       [] s = 5 -> <<1,2,3,4,5, 5,4,3,2,1, 1,2,3,5,4, 5,4,3,2,1, 4,2,3,1,5, 5,4,3,2,1>>
       [] s = 6 -> <<1,2,3,4,5,6, 6,5,4,3,2,1, 5,2,4,3,6,1, 5,6,4,2,3,1, 6,5,4,3,2,1>>]

pickLowest(m) ==
  /\ doc # NoPool
  /\ \E n \in PickNumber, t \in teamsRemaining(doc) :
       /\ \A u \in teamsRemaining(doc) : t <= u
       /\ pickTeam(m, n, t)

DraftNext ==
  \E m \in Member :
    \/ \E s \in Size : createPool(m, s)
    \/ joinPool(m)
    \/ pickLowest(m)

DraftSpec == Init /\ [][DraftNext]_storeVars

-----------------------------------------------------------------------------

picksOf(m, numbers) == {n \in numbers : doc.numberToPick[n].member = m}

(* The draft goes in rounds: in every run of `size' picks that starts a    *)
(* round each member picks once, whatever the shuffle was.                 *)
EveryRoundHasEveryone ==
  doc # NoPool /\ doc.deal > 0 =>
    \A r \in 0..(NumPicks \div doc.size - 1), m \in doc.idToMember :
      Cardinality(picksOf(m, (r * doc.size + 1)..((r + 1) * doc.size))) = 1

(* Until the draft is complete some member of the pool can make the next  *)
(* pick, and it is never the thirtieth, which nobody has to make.          *)
SomebodyCanPick ==
  doc # NoPool /\ doc.deal > 0 /\ ~isComplete(doc) =>
    \E m \in doc.idToMember, n \in 1..(NumPicks - 1) : isTurnOf(doc, m, n)
=============================================================================
