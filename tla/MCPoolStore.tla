---------------------------- MODULE MCPoolStore -----------------------------
(* PoolStore on small instances: the draft orders are those of the code cut *)
(* to four picks.                                                           *)
EXTENDS PoolStore, TLC

CONSTANTS ann, bob, cat, hawks, nets, suns, jazz

MCMember == {ann, bob, cat}
MCTeam == {hawks, nets, suns, jazz}
MCDraftOrder == (2 :> <<1, 2, 2, 1>>) @@ (3 :> <<1, 2, 3, 3>>)

MCSymmetry == Permutations(MCTeam) \cup Permutations(MCMember)
=============================================================================
