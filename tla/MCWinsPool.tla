----------------------------- MODULE MCWinsPool -----------------------------
(***************************************************************************)
(* Instances of WinsPool: a pool for two, of two or three people who each  *)
(* have one device, and a draft cut to two or three picks.  The orders are *)
(* picks 1-2 and 8-10 of the order for two in Pool.swift; in the latter    *)
(* the same member picks twice in a row.                                   *)
(***************************************************************************)
EXTENDS WinsPool, TLC

CONSTANTS ann, bob, cat, hawks, nets, suns, t1, t2

Two == {ann, bob}
Three == {ann, bob, cat}
TwoTeams == {hawks, nets}
ThreeTeams == {hawks, nets, suns}
OneTxn == {t1}
TwoTxns == {t1, t2}

OwnDevice == [m \in Member |-> m]

TwoPicks == 2 :> <<1, 2>>
ThreePicks == 2 :> <<1, 1, 2>>

MCSymmetry == Permutations(Member) \cup Permutations(Team) \cup Permutations(Txn)
=============================================================================
