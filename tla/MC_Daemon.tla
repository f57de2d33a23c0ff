----------------------------- MODULE MC_Daemon ------------------------------
(* Instances of Daemon.  The networks are interchangeable.                 *)
EXTENDS Daemon, TLC

Symmetry == Permutations(Ssids)
=============================================================================
