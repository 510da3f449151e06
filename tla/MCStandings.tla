----------------------------- MODULE MCStandings -----------------------------
(***************************************************************************)
(* Instances of Standings: a league of two teams; ann and bob have drafted *)
(* them in one pool and wait for their first pick in another.              *)
(***************************************************************************)
EXTENDS Standings, TLC

CONSTANTS ann, bob, hawks, nets, r1, r2

Two == {ann, bob}
TwoTeams == {hawks, nets}
TwoRequests == {r1, r2}

TwoPicks == 2 :> <<1, 2>>

pick(m, t) == [member |-> m, teamId |-> t, didNotifyMember |-> TRUE]
pool(picks) ==
  [size |-> 2, idToMember |-> Two, numberToPick |-> picks, deal |-> 1, mixed |-> FALSE]

drafted == pool(<<pick(ann, hawks), pick(bob, nets)>>)
undrafted == pool(<<pick(ann, NoTeam), pick(bob, NoTeam)>>)
BothPools == {drafted, undrafted}
UndraftedPool == {undrafted}

MCSymmetry == Permutations(Request)
=============================================================================
