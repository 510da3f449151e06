------------------------------ MODULE MCWatch -------------------------------
(* Watch for TLC. *)
EXTENDS Watch
=============================================================================
