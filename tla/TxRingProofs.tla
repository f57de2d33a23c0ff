---------------------------- MODULE TxRingProofs ----------------------------
(***************************************************************************)
(* Proofs about the BE transmit ring, for rings of every length.           *)
(***************************************************************************)
EXTENDS TxRing, SequenceTheorems, TLAPS

Held == {"reserve", "fill", "bd", "publish", "bell", "panic"}

(* Whoever is past IOLockLock holds fTxLock.                               *)
LockInv == \A p \in Producers : pc[p] \in Held => fTxLock = p

(* The indices: the doorbell lags fBeWp by at most the slot in hand, and   *)
(* the slot in hand is the one the doorbell will cover next, never the     *)
(* last free one.                                                          *)
IndexInv ==
  /\ (\A p \in Producers : pc[p] # "bell") => fBeWp = hwWp
  /\ \A p \in Producers :
       /\ pc[p] \in {"fill", "bd", "publish", "bell"} =>
            slot[p] = hwWp /\ NextSlot(hwWp) # hwrd
       /\ pc[p] = "bell" => fBeWp = NextSlot(hwWp)

(* The chip reads only a slot it was told of.                              *)
BusyInv == hwBusy = 1 => hwrd # hwWp

(* Whole frames in the queue, and in the hand of a producer about to ring. *)
WholeInv ==
  /\ \A i \in Slots : Between(i, hwrd, hwWp) => buf[i] # Torn
  /\ \A p \in Producers : pc[p] \in {"publish", "bell"} => buf[slot[p]] # Torn

IInv == TypeOK /\ LockInv /\ IndexInv /\ BusyInv /\ WholeInv

(* NextSlot stays in the ring and wraps at its end.                        *)
LEMMA NextSlotValue ==
  ASSUME NEW i \in Slots
  PROVE  /\ NextSlot(i) \in Slots
         /\ NextSlot(i) = IF i = BeLen - 1 THEN 0 ELSE i + 1
  <1>1. CASE i = BeLen - 1
    BY <1>1, TxRingConstants DEF NextSlot, Slots
  <1>2. CASE i # BeLen - 1
    BY <1>2, TxRingConstants DEF NextSlot, Slots
  <1>. QED BY <1>1, <1>2

(* A doorbell adds exactly one slot to the chip's range.                   *)
LEMMA RangeGrows ==
  ASSUME NEW i \in Slots, NEW a \in Slots, NEW b \in Slots,
         NextSlot(b) # a, Between(i, a, NextSlot(b))
  PROVE  Between(i, a, b) \/ i = b
  BY NextSlotValue, TxRingConstants DEF Slots, Between

(* The chip's advance removes one slot and adds none.                      *)
LEMMA RangeShrinks ==
  ASSUME NEW i \in Slots, NEW a \in Slots, NEW b \in Slots,
         a # b, Between(i, NextSlot(a), b)
  PROVE  Between(i, a, b)
  BY NextSlotValue, TxRingConstants DEF Slots, Between

(* The slot the doorbell will cover next is not in the chip's range.       *)
LEMMA EndOutside ==
  ASSUME NEW a \in Slots, NEW b \in Slots
  PROVE  ~Between(b, a, b)
  BY TxRingConstants DEF Slots, Between

(* NextSlot is injective.                                                  *)
LEMMA NextSlotInjective ==
  ASSUME NEW a \in Slots, NEW b \in Slots, NextSlot(a) = NextSlot(b)
  PROVE  a = b
  BY NextSlotValue, TxRingConstants DEF Slots

(* The ring starts empty and nobody holds a slot.                          *)
LEMMA InitInv == Init => IInv
  <1>. SUFFICES ASSUME Init PROVE IInv
    OBVIOUS
  <1>1. TypeOK
    BY TxRingConstants DEF Init, TypeOK, Slots, Producers, PCs, Torn
  <1>2. LockInv /\ IndexInv /\ BusyInv
    BY DEF Init, LockInv, IndexInv, BusyInv, Producers, Held
  <1>3. WholeInv
    BY DEF Init, WholeInv, Between, Slots, Producers
  <1>. QED BY <1>1, <1>2, <1>3 DEF IInv

(* Every step preserves the inductive invariant.                           *)
LEMMA InvStep == IInv /\ [Next]_vars => IInv'
  <1>. SUFFICES ASSUME IInv, [Next]_vars PROVE IInv'
    OBVIOUS
  <1>. USE DEF IInv
  <1>1. CASE outputPacket
    BY <1>1 DEF outputPacket, TypeOK, LockInv, IndexInv, BusyInv, WholeInv, Goto,
         Producers, PCs, Held, hwVars, linkVars
  <1>2. CASE txAction
    BY <1>2 DEF txAction, TypeOK, LockInv, IndexInv, BusyInv, WholeInv, Goto,
         Producers, PCs, Held, hwVars, linkVars
  <1>3. ASSUME NEW p \in Producers, Lock(p) PROVE IInv'
    BY <1>3 DEF Lock, TypeOK, LockInv, IndexInv, BusyInv, WholeInv, Goto,
         Producers, PCs, Held, hwVars, linkVars
  <1>4. ASSUME NEW p \in Producers, Reserve(p) PROVE IInv'
    BY <1>4 DEF Reserve, Full, TypeOK, LockInv, IndexInv, BusyInv, WholeInv, Goto,
         Producers, PCs, Held, hwVars, linkVars
  <1>5. ASSUME NEW p \in Producers, Fill(p) PROVE IInv'
    BY <1>5, EndOutside DEF Fill, TypeOK, LockInv, IndexInv, BusyInv, WholeInv, Goto,
         Producers, PCs, Held, hwVars, linkVars, Torn
  <1>6. ASSUME NEW p \in Producers, WriteBd(p) PROVE IInv'
    BY <1>6 DEF WriteBd, TypeOK, LockInv, IndexInv, BusyInv, WholeInv, Goto,
         Producers, PCs, Held, hwVars, linkVars, Torn, Mgmt
  <1>7. ASSUME NEW p \in Producers, Publish(p) PROVE IInv'
    BY <1>7, NextSlotValue DEF Publish, TypeOK, LockInv, IndexInv, BusyInv, WholeInv, Goto,
         Producers, PCs, Held, hwVars, linkVars
  <1>8. ASSUME NEW p \in Producers, Doorbell(p) PROVE IInv'
    BY <1>8, RangeGrows, NextSlotValue DEF Doorbell, TypeOK, LockInv, IndexInv, BusyInv,
         WholeInv, Goto, Producers, PCs, Held, hwVars, linkVars
  <1>9. CASE HwFetch
    BY <1>9 DEF HwFetch, TypeOK, LockInv, IndexInv, BusyInv, WholeInv, prodVars, linkVars
  <1>10. CASE HwSent
    BY <1>10, RangeShrinks, NextSlotValue, NextSlotInjective DEF HwSent, TypeOK, LockInv,
         IndexInv, BusyInv, WholeInv, prodVars, linkVars
  <1>11. ASSUME NEW r \in {0, 1}, SetRunning(r) \/ StopData(r) PROVE IInv'
    BY <1>11 DEF SetRunning, StopData, TypeOK, LockInv, IndexInv, BusyInv, WholeInv,
         prodVars, hwVars
  <1>12. CASE DropPool
    BY <1>12 DEF DropPool, TypeOK, LockInv, IndexInv, BusyInv, WholeInv, prodVars, hwVars
  <1>13. CASE UNCHANGED vars
    BY <1>13 DEF TypeOK, LockInv, IndexInv, BusyInv, WholeInv, vars, prodVars, hwVars,
         linkVars
  <1>. QED
    BY <1>1, <1>2, <1>3, <1>4, <1>5, <1>6, <1>7, <1>8, <1>9, <1>10, <1>11, <1>12, <1>13
       DEF Next, Produce

(* The inductive invariant holds in every reachable state.                 *)
LEMMA Invariance == Spec => []IInv
  BY InitInv, InvStep, PTL DEF Spec

(* The ring's type invariant, for every ring length.                       *)
THEOREM RingTypes == Spec => []TypeOK
  BY Invariance, PTL DEF IInv

(* The chip is never told of a slot that is half written or that a         *)
(* producer is about to write: mutual exclusion by fTxLock, one slot kept  *)
(* free and the doorbell after the data are enough, whatever stopData and  *)
(* the chip do.                                                            *)
THEOREM WholeFrames == Spec => []QueuedIsWhole
  <1>1. IInv => QueuedIsWhole
    BY EndOutside DEF IInv, QueuedIsWhole, WholeInv, IndexInv, TypeOK
  <1>. QED BY Invariance, <1>1, PTL
-----------------------------------------------------------------------------
(* The ring implements the queue.                                          *)

(* The frame that the next doorbell covers: the latest packet number, or   *)
(* none.                                                                   *)
PnInv ==
  /\ pc["output"] \in {"publish", "bell"} =>
       fCcmpPn > 1 /\ buf[slot["output"]] = fCcmpPn - 1
  /\ pc["action"] \in {"publish", "bell"} => buf[slot["action"]] = Mgmt

RInv == IInv /\ PnInv

(* The modulus of what the ring computes with, less than twice its length. *)
LEMMA ModValue ==
  ASSUME NEW x \in Int, -BeLen < x, x < 2 * BeLen
  PROVE  x % BeLen = IF x < 0 THEN x + BeLen ELSE IF x < BeLen THEN x ELSE x - BeLen
  <1>1. CASE x < 0
    BY <1>1, TxRingConstants
  <1>2. CASE x >= 0 /\ x < BeLen
    BY <1>2, TxRingConstants
  <1>3. CASE x >= BeLen
    BY <1>3, TxRingConstants
  <1>. QED BY <1>1, <1>2, <1>3, TxRingConstants

(* The chip's range holds at most BeLen - 1 slots, and its k-th slot is a  *)
(* slot of the ring, never the one the doorbell covers next.               *)
LEMMA RangeSlots ==
  ASSUME NEW a \in Slots, NEW b \in Slots
  PROVE  /\ (b - a) % BeLen \in 0 .. BeLen - 1
         /\ (b - a) % BeLen = 0 <=> a = b
         /\ \A k \in 1 .. ((b - a) % BeLen) :
              (a + k - 1) % BeLen \in Slots /\ (a + k - 1) % BeLen # b
  <1>1. (b - a) % BeLen = IF b < a THEN b - a + BeLen ELSE b - a
    BY ModValue, TxRingConstants DEF Slots
  <1>2. ASSUME NEW k \in 1 .. ((b - a) % BeLen)
        PROVE  (a + k - 1) % BeLen = IF a + k - 1 < BeLen THEN a + k - 1 ELSE a + k - 1 - BeLen
    BY <1>1, ModValue, TxRingConstants DEF Slots
  <1>. QED BY <1>1, <1>2, TxRingConstants DEF Slots

(* A doorbell makes the range one slot longer, at its end.                 *)
LEMMA DoorbellSlots ==
  ASSUME NEW a \in Slots, NEW b \in Slots, NextSlot(b) # a
  PROVE  /\ (b - a) % BeLen < BeLen - 1
         /\ (NextSlot(b) - a) % BeLen = ((b - a) % BeLen) + 1
         /\ (a + ((b - a) % BeLen)) % BeLen = b
  <1>1. (b - a) % BeLen = IF b < a THEN b - a + BeLen ELSE b - a
    BY ModValue, TxRingConstants DEF Slots
  <1>2. NextSlot(b) \in Slots
    BY NextSlotValue
  <1>3. (NextSlot(b) - a) % BeLen
          = IF NextSlot(b) < a THEN NextSlot(b) - a + BeLen ELSE NextSlot(b) - a
    BY <1>2, ModValue, TxRingConstants DEF Slots
  <1>4. (a + ((b - a) % BeLen)) % BeLen = b
    BY <1>1, ModValue, TxRingConstants DEF Slots
  <1>. QED BY <1>1, <1>3, <1>4, NextSlotValue, TxRingConstants DEF Slots

(* The chip's advance takes the first slot off the range.                  *)
LEMMA SentSlots ==
  ASSUME NEW a \in Slots, NEW b \in Slots, a # b
  PROVE  /\ (b - NextSlot(a)) % BeLen = ((b - a) % BeLen) - 1
         /\ \A k \in 1 .. ((b - a) % BeLen) - 1 :
              (NextSlot(a) + k - 1) % BeLen = (a + (k + 1) - 1) % BeLen
  <1>1. (b - a) % BeLen = IF b < a THEN b - a + BeLen ELSE b - a
    BY ModValue, TxRingConstants DEF Slots
  <1>2. NextSlot(a) \in Slots
    BY NextSlotValue
  <1>3. (b - NextSlot(a)) % BeLen
          = IF b < NextSlot(a) THEN b - NextSlot(a) + BeLen ELSE b - NextSlot(a)
    BY <1>2, ModValue, TxRingConstants DEF Slots
  <1>4. (b - NextSlot(a)) % BeLen = ((b - a) % BeLen) - 1
    BY <1>1, <1>3, NextSlotValue, TxRingConstants DEF Slots
  <1>5. ASSUME NEW k \in 1 .. ((b - a) % BeLen) - 1
        PROVE  (NextSlot(a) + k - 1) % BeLen = (a + (k + 1) - 1) % BeLen
    <2>1. (NextSlot(a) + k - 1) % BeLen
            = IF NextSlot(a) + k - 1 < BeLen THEN NextSlot(a) + k - 1
              ELSE NextSlot(a) + k - 1 - BeLen
      BY <1>1, <1>2, ModValue, TxRingConstants DEF Slots
    <2>2. (a + (k + 1) - 1) % BeLen
            = IF a + k < BeLen THEN a + k ELSE a + k - BeLen
      BY <1>1, ModValue, TxRingConstants DEF Slots
    <2>. QED BY <1>1, <2>1, <2>2, NextSlotValue, TxRingConstants DEF Slots
  <1>. QED BY <1>4, <1>5

(* The frame in hand stays what WriteBd put there.                         *)
LEMMA PnStep == IInv /\ PnInv /\ [Next]_vars => PnInv'
  <1>. SUFFICES ASSUME IInv, PnInv, [Next]_vars PROVE PnInv'
    OBVIOUS
  <1>. USE DEF PnInv
  <1>1. CASE outputPacket \/ txAction
    BY <1>1 DEF outputPacket, txAction, IInv, TypeOK, Goto, Producers, PCs
  <1>2. ASSUME NEW p \in Producers, Lock(p) \/ Reserve(p) PROVE PnInv'
    BY <1>2 DEF Lock, Reserve, IInv, TypeOK, LockInv, Held, Goto, Producers, PCs
  <1>3. ASSUME NEW p \in Producers, Fill(p) PROVE PnInv'
    BY <1>3 DEF Fill, IInv, TypeOK, LockInv, Held, Goto, Producers, PCs
  <1>4. ASSUME NEW p \in Producers, WriteBd(p) PROVE PnInv'
    BY <1>4 DEF WriteBd, IInv, TypeOK, LockInv, Held, Goto, Producers, PCs
  <1>5. ASSUME NEW p \in Producers, Publish(p) \/ Doorbell(p) PROVE PnInv'
    BY <1>5 DEF Publish, Doorbell, IInv, TypeOK, Goto, Producers, PCs
  <1>6. CASE HwFetch \/ HwSent \/ DropPool \/ UNCHANGED vars
    BY <1>6 DEF HwFetch, HwSent, DropPool, vars, prodVars
  <1>7. ASSUME NEW r \in {0, 1}, SetRunning(r) \/ StopData(r) PROVE PnInv'
    BY <1>7 DEF SetRunning, StopData, prodVars
  <1>. QED
    BY <1>1, <1>2, <1>3, <1>4, <1>5, <1>6, <1>7 DEF Next, Produce

(* A step that leaves the chip's range, the frames in it and the packet    *)
(* numbers it has been told of alone changes nothing of the queue.         *)
LEMMA QueueSame ==
  ASSUME TypeOK, UNCHANGED <<hwWp, hwrd>>,
         \A i \in Slots : i # hwWp => buf'[i] = buf[i]
  PROVE  ringQueue' = ringQueue
  BY RangeSlots DEF TypeOK, ringQueue, Queued

(* A function on 1 .. n is a sequence of length n.                         *)
LEMMA FcnIsSeq ==
  ASSUME NEW S, NEW n \in Nat, NEW s \in [1 .. n -> S]
  PROVE  s \in Seq(S) /\ Len(s) = n
  OBVIOUS

(* A sequence that has one element more than s and agrees with it on the   *)
(* others is s with that element appended.                                 *)
LEMMA IsAppend ==
  ASSUME NEW S, NEW n \in Nat, NEW s \in [1 .. n -> S], NEW t \in [1 .. n + 1 -> S],
         \A k \in 1 .. n : t[k] = s[k]
  PROVE  t = Append(s, t[n + 1])
  <1>1. s \in Seq(S) /\ Len(s) = n /\ t \in Seq(S) /\ Len(t) = n + 1
    BY FcnIsSeq
  <1>2. t[n + 1] \in S
    OBVIOUS
  <1>3. /\ Append(s, t[n + 1]) \in Seq(S) /\ Len(Append(s, t[n + 1])) = n + 1
        /\ \A k \in 1 .. n : Append(s, t[n + 1])[k] = s[k]
        /\ Append(s, t[n + 1])[n + 1] = t[n + 1]
    BY <1>1, <1>2, AppendProperties
  <1>. QED BY <1>1, <1>3, SeqEqual

(* A sequence that is s moved up by one is the tail of s.                  *)
LEMMA IsTail ==
  ASSUME NEW S, NEW n \in Nat, n > 0, NEW s \in [1 .. n -> S], NEW t \in [1 .. n - 1 -> S],
         \A k \in 1 .. n - 1 : t[k] = s[k + 1]
  PROVE  s # <<>> /\ t = Tail(s)
  <1>1. s \in Seq(S) /\ Len(s) = n /\ t \in Seq(S) /\ Len(t) = n - 1
    BY FcnIsSeq
  <1>2. s # <<>>
    BY <1>1, EmptySeq
  <1>3. /\ Tail(s) \in Seq(S) /\ Len(Tail(s)) = n - 1
        /\ \A k \in 1 .. n - 1 : Tail(s)[k] = s[k + 1]
    BY <1>1, <1>2, HeadTailProperties
  <1>. QED BY <1>1, <1>2, <1>3, SeqEqual

(* The doorbell puts the frame in the slot hwWp at the end of the queue.   *)
LEMMA QueuePut ==
  ASSUME TypeOK, UNCHANGED <<hwrd, buf>>, NextSlot(hwWp) # hwrd, hwWp' = NextSlot(hwWp)
  PROVE  /\ ringQueue' = Append(ringQueue, buf[hwWp])
         /\ Len(ringQueue) < BeLen - 1
  <1>. DEFINE n == (hwWp - hwrd) % BeLen
              S == Nat \cup {Torn}
  <1>1. n \in Nat /\ Queued = n /\ Queued' = n + 1 /\ n < BeLen - 1
    <2>1. hwWp \in Slots /\ hwrd \in Slots
      BY DEF TypeOK
    <2>2. Queued = n /\ Queued' = (NextSlot(hwWp) - hwrd) % BeLen
      BY DEF Queued
    <2>3. n \in 0 .. BeLen - 1
      BY <2>1, RangeSlots
    <2>4. n < BeLen - 1 /\ (NextSlot(hwWp) - hwrd) % BeLen = n + 1
      BY <2>1, DoorbellSlots
    <2>. QED BY <2>2, <2>3, <2>4, TxRingConstants
  <1>2. (hwrd + (n + 1) - 1) % BeLen = hwWp
    <2>1. hwrd + (n + 1) - 1 = hwrd + n
      BY <1>1, TxRingConstants DEF TypeOK, Slots
    <2>2. hwWp \in Slots /\ hwrd \in Slots
      BY DEF TypeOK
    <2>3. (hwrd + n) % BeLen = hwWp
      BY <2>2, DoorbellSlots
    <2>. HIDE DEF n
    <2>. QED BY <2>1, <2>3
  <1>3. ringQueue = [k \in 1 .. n |-> buf[(hwrd + k - 1) % BeLen]]
    BY <1>1 DEF ringQueue
  <1>4. ringQueue' = [k \in 1 .. n + 1 |-> buf[(hwrd + k - 1) % BeLen]]
    BY <1>1 DEF ringQueue
  <1>5. \A k \in 1 .. n : buf[(hwrd + k - 1) % BeLen] \in S
    BY RangeSlots DEF TypeOK
  <1>6. buf[hwWp] \in S
    BY DEF TypeOK
  <1>. HIDE DEF n, S
  <1>7. ringQueue \in [1 .. n -> S] /\ Len(ringQueue) = n
    BY <1>1, <1>3, <1>5, FcnIsSeq
  <1>8. ringQueue' \in [1 .. n + 1 -> S]
    BY <1>1, <1>2, <1>4, <1>5, <1>6
  <1>9. \A k \in 1 .. n : ringQueue'[k] = ringQueue[k]
    BY <1>1, <1>3, <1>4
  <1>10. ringQueue'[n + 1] = buf[hwWp]
    BY <1>1, <1>2, <1>4
  <1>. QED BY <1>1, <1>7, <1>8, <1>9, <1>10, IsAppend

(* The chip's advance takes the first frame off the queue.                 *)
LEMMA QueueSend ==
  ASSUME TypeOK, UNCHANGED <<hwWp, buf>>, hwrd # hwWp, hwrd' = NextSlot(hwrd)
  PROVE  ringQueue # <<>> /\ ringQueue' = Tail(ringQueue)
  <1>. DEFINE n == (hwWp - hwrd) % BeLen
              S == Nat \cup {Torn}
  <1>1. n \in Nat /\ n > 0 /\ Queued = n /\ Queued' = n - 1
    BY SentSlots, RangeSlots DEF TypeOK, Queued
  <1>2. \A k \in 1 .. n - 1 : (NextSlot(hwrd) + k - 1) % BeLen = (hwrd + (k + 1) - 1) % BeLen
    BY SentSlots DEF TypeOK
  <1>3. ringQueue = [k \in 1 .. n |-> buf[(hwrd + k - 1) % BeLen]]
    BY <1>1 DEF ringQueue
  <1>4. ringQueue' = [k \in 1 .. n - 1 |-> buf[(NextSlot(hwrd) + k - 1) % BeLen]]
    BY <1>1 DEF ringQueue
  <1>5. \A k \in 1 .. n : buf[(hwrd + k - 1) % BeLen] \in S
    BY RangeSlots DEF TypeOK
  <1>. HIDE DEF n, S
  <1>6. ringQueue \in [1 .. n -> S]
    BY <1>1, <1>3, <1>5
  <1>7. \A k \in 1 .. n - 1 : k + 1 \in 1 .. n
    BY <1>1
  <1>8. \A k \in 1 .. n - 1 : ringQueue'[k] = ringQueue[k + 1]
    BY <1>2, <1>3, <1>4, <1>7
  <1>9. ringQueue' \in [1 .. n - 1 -> S]
    BY <1>4, <1>6, <1>7, <1>8
  <1>. QED BY <1>1, <1>6, <1>8, <1>9, IsTail

(* Every step of the ring is a step of the queue, or none: the doorbell    *)
(* puts a frame, the end of a transmission sends one, and what producers   *)
(* do before the doorbell cannot be seen.                                  *)
LEMMA QueueStep == RInv /\ [Next]_vars => [TQ!Next]_<<ringQueue, ringPn>>
  <1>. SUFFICES ASSUME RInv, [Next]_vars PROVE [TQ!Next]_<<ringQueue, ringPn>>
    OBVIOUS
  <1>. USE DEF RInv, IInv
  <1>1. CASE outputPacket \/ txAction
    <2>1. ringQueue' = ringQueue
      BY <1>1, QueueSame DEF outputPacket, txAction, hwVars
    <2>2. ringPn' = ringPn
      BY <1>1 DEF outputPacket, txAction, ringPn, PnInHand, Goto, TypeOK, Producers, PCs
    <2>. QED BY <2>1, <2>2
  <1>2. ASSUME NEW p \in Producers, Lock(p) \/ Reserve(p) \/ Publish(p)
        PROVE  UNCHANGED <<ringQueue, ringPn>>
    <2>1. ringQueue' = ringQueue
      BY <1>2, QueueSame DEF Lock, Reserve, Publish, hwVars
    <2>2. ringPn' = ringPn
      BY <1>2 DEF Lock, Reserve, Publish, ringPn, PnInHand, Goto, TypeOK, Producers, PCs
    <2>. QED BY <2>1, <2>2
  <1>3. ASSUME NEW p \in Producers, Fill(p) \/ WriteBd(p)
        PROVE  UNCHANGED <<ringQueue, ringPn>>
    <2>1. slot[p] = hwWp /\ UNCHANGED <<hwWp, hwrd>>
      BY <1>3 DEF Fill, WriteBd, IndexInv, hwVars
    <2>2. \A i \in Slots : i # hwWp => buf'[i] = buf[i]
      BY <1>3, <2>1 DEF Fill, WriteBd, TypeOK
    <2>3. ringQueue' = ringQueue
      BY <2>1, <2>2, QueueSame
    <2>4. ringPn' = ringPn
      BY <1>3 DEF Fill, WriteBd, ringPn, PnInHand, Goto, TypeOK, Producers, PCs
    <2>. QED BY <2>3, <2>4
  <1>4. ASSUME NEW p \in Producers, Doorbell(p) PROVE TQ!Next
    <2>1. /\ UNCHANGED <<hwrd, buf, fCcmpPn>>
          /\ NextSlot(hwWp) # hwrd /\ hwWp' = NextSlot(hwWp) /\ slot[p] = hwWp
      BY <1>4 DEF Doorbell, IndexInv, hwVars
    <2>2. ringQueue' = Append(ringQueue, buf[hwWp]) /\ Len(ringQueue) < BeLen - 1
      BY <2>1, QueuePut
    <2>3. CASE p = "output"
      <3>1. buf[hwWp] = fCcmpPn - 1 /\ buf[hwWp] # 0
        BY <1>4, <2>1, <2>3 DEF Doorbell, PnInv, TypeOK
      <3>2. ringPn = fCcmpPn - 2 /\ ringPn' = fCcmpPn - 1
        BY <1>4, <2>1, <2>3 DEF Doorbell, ringPn, PnInHand, Goto, TypeOK, Producers, PCs
      <3>3. buf[hwWp] = ringPn + 1
        BY <3>1, <3>2 DEF TypeOK
      <3>. QED BY <2>2, <3>1, <3>2, <3>3 DEF TQ!Next, TQ!Put
    <2>4. CASE p = "action"
      <3>1. buf[hwWp] = 0
        BY <1>4, <2>1, <2>4 DEF Doorbell, PnInv, Mgmt
      <3>2. ringPn' = ringPn
        BY <1>4, <2>1, <2>4 DEF Doorbell, ringPn, PnInHand, Goto, TypeOK, Producers, PCs
      <3>. QED BY <2>2, <3>1, <3>2 DEF TQ!Next, TQ!Put
    <2>. QED BY <2>3, <2>4 DEF Producers
  <1>5. CASE HwSent
    <2>1. UNCHANGED <<hwWp, buf, pc, fCcmpPn>> /\ hwrd # hwWp /\ hwrd' = NextSlot(hwrd)
      BY <1>5 DEF HwSent, BusyInv, prodVars
    <2>2. ringPn' = ringPn
      BY <2>1 DEF ringPn, PnInHand
    <2>. QED BY <2>1, <2>2, QueueSend DEF TQ!Next, TQ!Send
  <1>6. CASE HwFetch \/ DropPool \/ UNCHANGED vars
    BY <1>6 DEF HwFetch, DropPool, vars, prodVars, hwVars, ringQueue, Queued, ringPn, PnInHand
  <1>7. ASSUME NEW r \in {0, 1}, SetRunning(r) \/ StopData(r)
        PROVE  UNCHANGED <<ringQueue, ringPn>>
    BY <1>7 DEF SetRunning, StopData, prodVars, hwVars, ringQueue, Queued, ringPn, PnInHand
  <1>. QED
    BY <1>1, <1>2, <1>3, <1>4, <1>5, <1>6, <1>7 DEF Next, Produce

(* The ring is a FIFO queue of at most BeLen - 1 frames with consecutive   *)
(* packet numbers: for rings of every length and any number of frames,     *)
(* whatever the two producers, the chip and stopData interleave, no frame  *)
(* is lost, doubled or overtaken in the ring, and no packet number is      *)
(* used twice or skipped.                                                  *)
THEOREM RingImplementsQueue == Spec => ImplementsQueue
  <1>1. Init => RInv
    BY InitInv DEF RInv, PnInv, Init, Producers
  <1>2. RInv /\ [Next]_vars => RInv'
    BY InvStep, PnStep DEF RInv
  <1>3. Init => TQ!Init
    <2>. SUFFICES ASSUME Init PROVE TQ!Init
      OBVIOUS
    <2>1. Queued = 0
      BY RangeSlots DEF Init, Queued
    <2>2. ringQueue = <<>>
      <3>1. ringQueue = [k \in 1 .. 0 |-> buf[(hwrd + k - 1) % BeLen]]
        BY <2>1 DEF ringQueue
      <3>. QED BY <3>1
    <2>3. ringPn = 0
      <3>1. pc["output"] = "idle" /\ fCcmpPn = 1
        BY DEF Init, Producers
      <3>2. PnInHand = 0
        BY <3>1 DEF PnInHand
      <3>. QED BY <3>1, <3>2 DEF ringPn
    <2>. QED BY <2>2, <2>3 DEF TQ!Init
  <1>. QED BY <1>1, <1>2, <1>3, QueueStep, PTL DEF Spec, ImplementsQueue, TQ!Spec
=============================================================================
