----------------------------- MODULE MCDraftDay -----------------------------
(* The constants of the code: thirty teams, numbered, and its draft orders. *)
(* Members a to f; the shuffles are one up to symmetry.                     *)
EXTENDS DraftDay, TLC

CONSTANTS a, b, c, d, e, f

MCMember == {a, b, c, d, e, f}
MCTeam == 1..30
MCSymmetry == Permutations(MCMember)
=============================================================================
