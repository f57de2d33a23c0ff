------------------------------ MODULE TxQueue -------------------------------
(***************************************************************************)
(* What the BE transmit ring promises the network stack: a bounded FIFO    *)
(* queue of frames.  A frame is its CCMP packet number, 0 for a management *)
(* frame, which is not encrypted.  Packet numbers are consecutive in the   *)
(* order of transmission: none is repeated, and a frame dropped on a full  *)
(* ring consumes none.                                                     *)
(***************************************************************************)
EXTENDS Integers, Sequences

CONSTANT Capacity

VARIABLES
  queue,   \* the frames the chip has been told of and not yet sent
  lastPn   \* packet number of the latest data frame put in the queue

Init == queue = <<>> /\ lastPn = 0

Put(frame) ==
  /\ Len(queue) < Capacity
  /\ frame \in {0, lastPn + 1}
  /\ queue' = Append(queue, frame)
  /\ lastPn' = IF frame = 0 THEN lastPn ELSE frame

Send ==
  /\ queue # <<>>
  /\ queue' = Tail(queue)
  /\ UNCHANGED lastPn

Next == Send \/ \E frame \in {0, lastPn + 1} : Put(frame)

Spec == Init /\ [][Next]_<<queue, lastPn>>
=============================================================================
