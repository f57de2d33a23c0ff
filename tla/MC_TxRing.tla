----------------------------- MODULE MC_TxRing ------------------------------
(* A ring small enough to fill up and wrap several times.                  *)
EXTENDS TxRing
=============================================================================
