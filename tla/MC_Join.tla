------------------------------- MODULE MC_Join -------------------------------
(* Bounded instances of Join. *)
EXTENDS Join
=============================================================================
