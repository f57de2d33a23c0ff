----------------------------- MODULE MC_Reorder -----------------------------
(* Instances of Reorder: 16 sequence numbers and windows of up to 4 slots, *)
(* with frame numbers that pass the wrap at 16.                            *)
EXTENDS Reorder
=============================================================================
