------------------------------- MODULE TxRing -------------------------------
(***************************************************************************)
(* The BE transmit ring of RTW88Ethernet: two producers, the output thread *)
(* (outputPacket, txEthFrame) and the RX thread's ADDBA responder          *)
(* (txAction), the chip that consumes the ring, and stopData, which takes  *)
(* the buffer pool away.                                                   *)
(*                                                                         *)
(* A slot holds the packet number of the data frame in it, Mgmt for an     *)
(* action frame, or Torn while a producer is writing it.                   *)
(***************************************************************************)
EXTENDS Integers, Sequences

CONSTANTS
  BeLen,    \* fBeLen, the number of ring slots
  MaxPn     \* bound: the number of data frames offered

ASSUME TxRingConstants == BeLen \in Nat /\ BeLen > 1 /\ MaxPn \in Nat

Slots == 0 .. BeLen - 1
Producers == {"output", "action"}
Mgmt == 0
Torn == -1

VARIABLES
  pc,         \* pc[p]: where producer p is
  slot,       \* slot[p]: the slot producer p reserved
  fTxLock,    \* the holder of fTxLock, or "free"
  fBeWp,
  fCcmpPn,
  buf,        \* buf[i]: the contents of slot i of the pool and of its BD
  hwWp,       \* the chip's write index: the latest doorbell
  hwrd,       \* the chip's read index
  hwBusy,     \* 1 while the chip reads slot hwrd
  fDataMode, fRunning,   \* 0 or 1
  fTxPoolV,   \* 1: the pool, 0: nullptr
  rxLive      \* 1 until the RX thread has exited

prodVars == <<pc, slot, fTxLock, fBeWp, fCcmpPn, buf>>
hwVars   == <<hwrd, hwBusy>>
linkVars == <<fDataMode, fRunning, fTxPoolV, rxLive>>
vars == <<prodVars, hwWp, hwVars, linkVars>>

PCs == {"idle", "lock", "reserve", "fill", "bd", "publish", "bell", "panic"}

TypeOK ==
  /\ pc \in [Producers -> PCs]
  /\ slot \in [Producers -> Slots]
  /\ fTxLock \in Producers \cup {"free"}
  /\ fBeWp \in Slots /\ hwWp \in Slots /\ hwrd \in Slots
  /\ fCcmpPn \in Nat \ {0}
  /\ buf \in [Slots -> Nat \cup {Torn}]
  /\ hwBusy \in {0, 1}
  /\ fDataMode \in {0, 1} /\ fRunning \in {0, 1}
  /\ fTxPoolV \in {0, 1} /\ rxLive \in {0, 1}

(* startData has taken the ring over at the chip's current index.          *)
Init ==
  /\ pc = [p \in Producers |-> "idle"]
  /\ fTxLock = "free"
  /\ fBeWp \in Slots /\ hwWp = fBeWp /\ hwrd = fBeWp /\ hwBusy = 0
  /\ slot = [p \in Producers |-> fBeWp]
  /\ fCcmpPn = 1
  /\ buf = [i \in Slots |-> Torn]
  /\ fDataMode = 1 /\ fRunning = 1 /\ fTxPoolV = 1 /\ rxLive = 1
-----------------------------------------------------------------------------
\* Mutant: the index does not wrap.
NextSlot_NoWrap(i) == i + 1

(* The slot after i.                                                       *)
NextSlot(i) == (i + 1) % BeLen

Goto(p, l) == pc' = [pc EXCEPT ![p] = l]

(* outputPacket tests fDataMode and fRunning, before it takes the lock.    *)
outputPacket ==
  /\ pc["output"] = "idle" /\ fDataMode = 1 /\ fRunning = 1
  /\ fCcmpPn <= MaxPn
  /\ Goto("output", "lock")
  /\ UNCHANGED <<slot, fTxLock, fBeWp, fCcmpPn, buf, hwWp, hwVars, linkVars>>

(* txAction, on the RX thread, tests fRunning only.                        *)
txAction ==
  /\ pc["action"] = "idle" /\ rxLive = 1 /\ fRunning = 1
  /\ Goto("action", "lock")
  /\ UNCHANGED <<slot, fTxLock, fBeWp, fCcmpPn, buf, hwWp, hwVars, linkVars>>

\* Mutant: the producers do not exclude each other.
Lock_Missing(p) ==
  /\ pc[p] = "lock"
  /\ fTxLock' = p
  /\ Goto(p, "reserve")
  /\ UNCHANGED <<slot, fBeWp, fCcmpPn, buf, hwWp, hwVars, linkVars>>

(* IOLockLock(fTxLock).                                                    *)
Lock(p) ==
  /\ pc[p] = "lock" /\ fTxLock = "free"
  /\ fTxLock' = p
  /\ Goto(p, "reserve")
  /\ UNCHANGED <<slot, fBeWp, fCcmpPn, buf, hwWp, hwVars, linkVars>>

\* Mutant: the ring counts as full only when it has wrapped completely.
Full_Late == FALSE

(* The ring is full when one slot is left.                                 *)
Full == NextSlot(fBeWp) = hwrd

\* Mutant: the lock is kept when the ring is full.
Reserve_KeepLock(p) ==
  /\ pc[p] = "reserve"
  /\ \/ /\ Full
        /\ Goto(p, "idle")
        /\ UNCHANGED slot
     \/ /\ ~Full
        /\ slot' = [slot EXCEPT ![p] = fBeWp]
        /\ Goto(p, "fill")
  /\ UNCHANGED <<fTxLock, fBeWp, fCcmpPn, buf, hwWp, hwVars, linkVars>>

(* Read fBeWp and the chip's index; drop the frame on a full ring.         *)
Reserve(p) ==
  /\ pc[p] = "reserve"
  /\ \/ /\ Full
        /\ fTxLock' = "free"
        /\ Goto(p, "idle")
        /\ UNCHANGED slot
     \/ /\ ~Full
        /\ slot' = [slot EXCEPT ![p] = fBeWp]
        /\ Goto(p, "fill")
        /\ UNCHANGED fTxLock
  /\ UNCHANGED <<fBeWp, fCcmpPn, buf, hwWp, hwVars, linkVars>>

(* The first write into the slot's buffer; a panic when stopData has       *)
(* cleared fTxPoolV.                                                       *)
Fill(p) ==
  /\ pc[p] = "fill"
  /\ \/ /\ fTxPoolV = 1
        /\ buf' = [buf EXCEPT ![slot[p]] = Torn]
        /\ Goto(p, "bd")
     \/ /\ fTxPoolV = 0
        /\ Goto(p, "panic")
        /\ UNCHANGED buf
  /\ UNCHANGED <<slot, fTxLock, fBeWp, fCcmpPn, hwWp, hwVars, linkVars>>

(* The rest of the frame, with fCcmpPn++ for a data frame, its descriptor  *)
(* and its BD.                                                             *)
WriteBd(p) ==
  /\ pc[p] = "bd"
  /\ buf' = [buf EXCEPT ![slot[p]] = IF p = "output" THEN fCcmpPn ELSE Mgmt]
  /\ fCcmpPn' = IF p = "output" THEN fCcmpPn + 1 ELSE fCcmpPn
  /\ Goto(p, "publish")
  /\ UNCHANGED <<slot, fTxLock, fBeWp, hwWp, hwVars, linkVars>>

(* __sync_synchronize(), then fBeWp = next.                                *)
Publish(p) ==
  /\ pc[p] = "publish"
  /\ fBeWp' = NextSlot(slot[p])
  /\ Goto(p, "bell")
  /\ UNCHANGED <<slot, fTxLock, fCcmpPn, buf, hwWp, hwVars, linkVars>>

(* The doorbell, and IOLockUnlock(fTxLock).                                *)
Doorbell(p) ==
  /\ pc[p] = "bell"
  /\ hwWp' = fBeWp
  /\ fTxLock' = "free"
  /\ Goto(p, "idle")
  /\ UNCHANGED <<slot, fBeWp, fCcmpPn, buf, hwVars, linkVars>>
-----------------------------------------------------------------------------
(* The chip starts to fetch the frame at its read index.                   *)
HwFetch ==
  /\ hwBusy = 0 /\ hwrd # hwWp
  /\ hwBusy' = 1
  /\ UNCHANGED <<prodVars, hwWp, hwrd, linkVars>>

(* The chip has sent it, and frees the slot.                               *)
HwSent ==
  /\ hwBusy = 1
  /\ hwBusy' = 0
  /\ hwrd' = NextSlot(hwrd)
  /\ UNCHANGED <<prodVars, hwWp, linkVars>>

(* enable and disable of the interface.                                    *)
SetRunning(r) ==
  /\ fRunning' = r
  /\ UNCHANGED <<prodVars, hwWp, hwVars, fDataMode, fTxPoolV, rxLive>>

(* stopData waits for the RX thread to exit, up to its ceiling, and sets   *)
(* fDataMode = false.                                                      *)
StopData(clean) ==
  /\ fDataMode = 1
  /\ clean = 1 => pc["action"] = "idle"
  /\ fDataMode' = 0
  /\ rxLive' = 1 - clean
  /\ UNCHANGED <<prodVars, hwWp, hwVars, fRunning, fTxPoolV>>

(* stopData: fTxPoolV = nullptr, without fTxLock.                          *)
DropPool ==
  /\ fDataMode = 0
  /\ fTxPoolV' = 0
  /\ UNCHANGED <<prodVars, hwWp, hwVars, fDataMode, fRunning, rxLive>>

Produce(p) == Lock(p) \/ Reserve(p) \/ Fill(p) \/ WriteBd(p) \/ Publish(p) \/ Doorbell(p)

Next ==
  \/ outputPacket \/ txAction
  \/ \E p \in Producers : Produce(p)
  \/ HwFetch \/ HwSent
  \/ \E r \in {0, 1} : SetRunning(r) \/ StopData(r)
  \/ DropPool

Spec == Init /\ [][Next]_vars

(* The kernel schedules a thread that holds the lock.  Nothing is assumed  *)
(* of who gets it next, nor of the chip.                                   *)
FairSpec == Spec /\ \A p \in Producers : WF_vars(Produce(p))
-----------------------------------------------------------------------------
(* Slot i lies in the cyclic range from a up to, not including, b.         *)
Between(i, a, b) == IF a <= b THEN a <= i /\ i < b ELSE a <= i \/ i < b

(* Every slot the chip has been told of holds a whole frame, and no        *)
(* producer is about to write one of them.                                 *)
QueuedIsWhole ==
  \A i \in Slots : Between(i, hwrd, hwWp) =>
    /\ buf[i] # Torn
    /\ \A p \in Producers : pc[p] \in {"fill", "bd"} => slot[p] # i

(* The slots of the ring between the chip's read index and the doorbell.   *)
Queued == (hwWp - hwrd) % BeLen

(* A packet number in the ring that no doorbell has covered yet.           *)
PnInHand == IF pc["output"] \in {"publish", "bell"} THEN 1 ELSE 0

(* The frames in those slots, in the order the chip will read them.        *)
ringQueue == [k \in 1 .. Queued |-> buf[(hwrd + k - 1) % BeLen]]

(* The latest packet number the chip has been told of.                     *)
ringPn == fCcmpPn - 1 - PnInHand

TQ == INSTANCE TxQueue WITH
        Capacity <- BeLen - 1, queue <- ringQueue, lastPn <- ringPn

(* The ring implements the FIFO queue of module TxQueue.                   *)
ImplementsQueue == TQ!Spec

(* fTxLock is always given back, also when the ring is full and the chip   *)
(* sends nothing, unless the machine has panicked.                         *)
LockIsReleased ==
  fTxLock # "free" ~> (fTxLock = "free" \/ \E p \in Producers : pc[p] = "panic")
=============================================================================
