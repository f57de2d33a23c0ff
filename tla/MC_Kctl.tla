------------------------------ MODULE MC_Kctl -------------------------------
(* Instances of Kctl: the selectors of rtwd and the GUI and one of the     *)
(* diagnostic tools on two device instances with every fault, and connect  *)
(* and stop alone with an RX thread that hangs.                            *)
EXTENDS Kctl
=============================================================================
