------------------------------ MODULE FwImage -------------------------------
(***************************************************************************)
(* The firmware image and how it is cut up: the parameters of the          *)
(* download.                                                               *)
(***************************************************************************)
EXTENDS Integers, Sequences

CONSTANTS
  Size,       \* Size[s]: the length of section s, dmem, imem, emem in this
              \* order; a last section of length 0 is not there
  MaxSize,    \* max_size, the length of a chunk
  MaxFaults   \* bound: pages damaged in one download

ASSUME FwImageConstants ==
  /\ Size \in Seq(Nat) /\ Len(Size) = 3 /\ Size[1] > 0 /\ Size[2] > 0
  /\ MaxSize \in Nat \ {0} /\ MaxFaults \in Nat

Sections == {s \in 1 .. 3 : Size[s] > 0}
=============================================================================
