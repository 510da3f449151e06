----------------------------- MODULE MCScreens ------------------------------
(* Screens for TLC: a pool that fills and loses a member. *)
EXTENDS Screens

OpenFullOpen == <<"open", "drafting", "open">>
=============================================================================
