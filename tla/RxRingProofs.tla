---------------------------- MODULE RxRingProofs ----------------------------
(***************************************************************************)
(* Proofs about the RX ring, for rings of every length, any access points  *)
(* and any traffic.                                                        *)
(***************************************************************************)
EXTENDS RxRing, FiniteSetTheorems, SequenceTheorems, TLAPS

Drains == {"drain", "jdrain", "rxslots"}
Reading == Drains \cup {"release", "wait", "jrelease", "jwait", "joined", "rxloop"}
Chan == Channels \cup {0}
Frame == [id : Nat, from : AP \cup {Junk}, at : Chan]
Entry == [bssid : AP, channel : Chan]

(* The steps from slot a on to slot b.                                     *)
Dist(a, b) == (b - a) % N

RxTypes ==
  /\ todo \in Seq(Channels) /\ tuned \in Chan /\ nets \in Seq(Entry)
  /\ hw \in Slots /\ host \in Slots /\ ring \in [Slots -> Frame]
  /\ rp \in Slots \cup {AllOnes} /\ seen \in Slots \cup {AllOnes}
  /\ sent \in Nat /\ read \in Nat /\ igi \in Nat /\ lapped \in {0, 1}

(* A loop holds AllOnes only of a dead device, and then its snapshot is    *)
(* AllOnes as well: no slot outside of the ring is read.                   *)
DeadInv ==
  /\ dead \in BOOLEAN
  /\ seen = AllOnes => dead
  /\ rp = AllOnes => dead /\ (pc \in Drains => seen = AllOnes)

(* A loop that reads the ring of a device that answers, or that it saw     *)
(* answer when it took its snapshot.                                       *)
Live == \/ pc \in Reading /\ ~dead
        \/ pc \in Drains /\ seen # AllOnes

(* The slots from the read pointer to the chip's index were received on    *)
(* the channel the radio is on.  A chip that went round the ring once and  *)
(* passed the loop's snapshot has filled every slot since.                 *)
PlaceInv ==
  Live =>
    /\ rp \in Slots /\ (pc \in Drains => seen \in Slots)
    /\ \A i \in Slots : Dist(rp, i) < Dist(rp, hw) => ring[i].at = tuned
    /\ pc \in Drains /\ Dist(rp, hw) < Dist(rp, seen) => \A i \in Slots : ring[i].at = tuned

(* While the chip has not gone past the host's index: going round the ring *)
(* from there one meets the read pointer, the snapshot and the chip's      *)
(* index in this order, and the slots from the read pointer to the chip's  *)
(* index hold the frames after the last one read, in sequence.             *)
PendingInv ==
  Live /\ lapped = 0 =>
    /\ Dist(host, rp) <= Dist(host, hw)
    /\ pc \in Drains => Dist(rp, seen) <= Dist(rp, hw)
    /\ sent = read + Dist(rp, hw)
    /\ \A i \in Slots : Dist(rp, i) < Dist(rp, hw) => ring[i].id = read + 1 + Dist(rp, i)

OrderInv == PlaceInv /\ PendingInv

RxInv == RxTypes /\ DeadInv /\ OrderInv

(* The distance around the ring, in plain arithmetic.                      *)
LEMMA DistValue ==
  ASSUME NEW a \in Slots, NEW b \in Slots
  PROVE  Dist(a, b) = IF a <= b THEN b - a ELSE b - a + N
  <1>1. CASE a <= b
    BY <1>1, RxConstants DEF Dist, Slots
  <1>2. CASE b < a
    BY <1>2, RxConstants DEF Dist, Slots
  <1>. QED BY <1>1, <1>2, RxConstants DEF Slots

(* The slot after i.                                                       *)
LEMMA Next1Value ==
  ASSUME NEW i \in Slots
  PROVE  /\ Next1(i) \in Slots
         /\ Next1(i) = IF i = N - 1 THEN 0 ELSE i + 1
  <1>1. CASE i = N - 1
    BY <1>1, RxConstants DEF Next1, Slots
  <1>2. CASE i # N - 1
    BY <1>2, RxConstants DEF Next1, Slots
  <1>. QED BY <1>1, <1>2

(* startData's reduction to the ring leaves a slot alone.                  *)
LEMMA SlotModN ==
  ASSUME NEW i \in Slots
  PROVE  i % N = i
  BY RxConstants DEF Slots

(* AllOnes is no slot.                                                     *)
LEMMA AllOnesOutside == AllOnes \notin Slots
  BY RxConstants DEF Slots, AllOnes

(* The chip receives a frame into the slot at its index, which no slot     *)
(* between the read pointer and that index is: the host's index lies       *)
(* behind the read pointer and the chip stops short of it.                 *)
LEMMA RangeGrows ==
  ASSUME NEW h \in Slots, NEW r \in Slots, NEW w \in Slots,
         Dist(h, r) <= Dist(h, w), Next1(w) # h
  PROVE  /\ Dist(r, Next1(w)) = Dist(r, w) + 1
         /\ Dist(h, r) <= Dist(h, Next1(w))
         /\ \A i \in Slots : Dist(r, i) < Dist(r, Next1(w)) <=> Dist(r, i) < Dist(r, w) \/ i = w
  <1>0. /\ h \in Nat /\ r \in Nat /\ w \in Nat /\ N \in Nat
        /\ h < N /\ r < N /\ w < N
    BY RxConstants DEF Slots
  <1>1. Next1(w) \in Slots /\ Next1(w) = IF w = N - 1 THEN 0 ELSE w + 1
    BY Next1Value
  <1>2. /\ Dist(h, r) = IF h <= r THEN r - h ELSE r - h + N
        /\ Dist(h, w) = IF h <= w THEN w - h ELSE w - h + N
        /\ Dist(r, w) = IF r <= w THEN w - r ELSE w - r + N
        /\ Dist(r, Next1(w)) = IF r <= Next1(w) THEN Next1(w) - r ELSE Next1(w) - r + N
        /\ Dist(h, Next1(w)) = IF h <= Next1(w) THEN Next1(w) - h ELSE Next1(w) - h + N
    BY <1>1, DistValue
  <1>3. ASSUME NEW i \in Slots
        PROVE  Dist(r, i) < Dist(r, Next1(w)) <=> Dist(r, i) < Dist(r, w) \/ i = w
    <2>1. Dist(r, i) = IF r <= i THEN i - r ELSE i - r + N
      BY DistValue
    <2>2. i \in Nat /\ i < N
      BY RxConstants DEF Slots
    <2>3. CASE w = N - 1
      BY <1>0, <1>1, <1>2, <2>1, <2>2, <2>3
    <2>4. CASE w # N - 1
      BY <1>0, <1>1, <1>2, <2>1, <2>2, <2>4
    <2>. QED BY <2>3, <2>4
  <1>. QED BY <1>1, <1>2, <1>3, RxConstants DEF Slots

(* A chip whose index comes round to slot r has just filled the last slot  *)
(* that was missing.                                                       *)
LEMMA RangeWraps ==
  ASSUME NEW r \in Slots, NEW w \in Slots, Next1(w) = r
  PROVE  /\ Dist(r, Next1(w)) = 0
         /\ \A i \in Slots : Dist(r, i) < Dist(r, w) \/ i = w
  <1>0. r \in Nat /\ w \in Nat /\ N \in Nat /\ r < N /\ w < N
    BY RxConstants DEF Slots
  <1>1. r = IF w = N - 1 THEN 0 ELSE w + 1
    BY Next1Value
  <1>2. /\ Dist(r, w) = IF r <= w THEN w - r ELSE w - r + N
        /\ Dist(r, r) = IF r <= r THEN r - r ELSE r - r + N
    BY DistValue
  <1>3. ASSUME NEW i \in Slots, i # w PROVE Dist(r, i) < Dist(r, w)
    <2>1. Dist(r, i) = IF r <= i THEN i - r ELSE i - r + N
      BY DistValue
    <2>2. i \in Nat /\ i < N
      BY RxConstants DEF Slots
    <2>3. CASE w = N - 1
      BY <1>0, <1>1, <1>2, <1>3, <2>1, <2>2, <2>3
    <2>4. CASE w # N - 1
      BY <1>0, <1>1, <1>2, <1>3, <2>1, <2>2, <2>4
    <2>. QED BY <2>3, <2>4
  <1>. QED BY <1>0, <1>2, <1>3

(* Reading a slot moves the pointer by one, towards the snapshot.          *)
LEMMA RangeShrinks ==
  ASSUME NEW h \in Slots, NEW r \in Slots, NEW w \in Slots, NEW s \in Slots,
         Dist(h, r) <= Dist(h, w), Dist(r, s) <= Dist(r, w), r # s
  PROVE  /\ Dist(r, r) = 0 /\ Dist(r, w) > 0
         /\ Dist(Next1(r), w) = Dist(r, w) - 1
         /\ Dist(h, Next1(r)) <= Dist(h, w)
         /\ Dist(Next1(r), s) <= Dist(Next1(r), w)
         /\ \A i \in Slots : Dist(Next1(r), i) < Dist(Next1(r), w) =>
              Dist(r, i) < Dist(r, w) /\ Dist(r, i) = Dist(Next1(r), i) + 1
  <1>1. PICK t \in Slots : t = Next1(r) /\ t = IF r = N - 1 THEN 0 ELSE r + 1
    BY Next1Value
  <1>2. /\ Dist(h, r) = IF h <= r THEN r - h ELSE r - h + N
        /\ Dist(h, w) = IF h <= w THEN w - h ELSE w - h + N
        /\ Dist(r, w) = IF r <= w THEN w - r ELSE w - r + N
        /\ Dist(r, s) = IF r <= s THEN s - r ELSE s - r + N
        /\ Dist(r, r) = IF r <= r THEN r - r ELSE r - r + N
    BY DistValue
  <1>3. /\ Dist(t, w) = IF t <= w THEN w - t ELSE w - t + N
        /\ Dist(t, s) = IF t <= s THEN s - t ELSE s - t + N
        /\ Dist(h, t) = IF h <= t THEN t - h ELSE t - h + N
    BY <1>1, DistValue
  <1>4. Dist(r, r) = 0 /\ Dist(r, w) > 0
    BY <1>2, RxConstants DEF Slots
  <1>n. /\ h \in Nat /\ r \in Nat /\ w \in Nat /\ s \in Nat /\ N \in Nat
        /\ h < N /\ r < N /\ w < N /\ s < N
    BY RxConstants DEF Slots
  <1>5. Dist(t, w) = Dist(r, w) - 1
    <2>1. CASE r = N - 1
      BY <1>n, <1>1, <1>2, <1>3, <1>4, <2>1
    <2>2. CASE r # N - 1
      BY <1>n, <1>1, <1>2, <1>3, <1>4, <2>2
    <2>. QED BY <2>1, <2>2
  <1>6. Dist(h, t) <= Dist(h, w)
    <2>1. CASE r = N - 1
      BY <1>n, <1>1, <1>2, <1>3, <1>4, <2>1
    <2>2. CASE r # N - 1
      BY <1>n, <1>1, <1>2, <1>3, <1>4, <2>2
    <2>. QED BY <2>1, <2>2
  <1>7. Dist(t, s) <= Dist(t, w)
    <2>1. CASE r = N - 1
      BY <1>n, <1>1, <1>2, <1>3, <1>4, <2>1
    <2>2. CASE r # N - 1
      BY <1>n, <1>1, <1>2, <1>3, <1>4, <2>2
    <2>. QED BY <2>1, <2>2
  <1>8. ASSUME NEW i \in Slots, Dist(t, i) < Dist(t, w)
        PROVE  Dist(r, i) < Dist(r, w) /\ Dist(r, i) = Dist(t, i) + 1
    <2>1. Dist(r, i) = IF r <= i THEN i - r ELSE i - r + N
      BY DistValue
    <2>2. Dist(t, i) = IF t <= i THEN i - t ELSE i - t + N
      BY DistValue
    <2>3. i # r
      BY <1>1, <1>3, <1>8, <2>2, RxConstants DEF Slots
    <2>4. Dist(r, i) = Dist(t, i) + 1
      BY <1>1, <2>1, <2>2, <2>3, RxConstants DEF Slots
    <2>5. Dist(t, i) \in Int /\ Dist(t, w) \in Int /\ Dist(r, w) \in Int
      BY <1>2, <1>3, <2>2, RxConstants DEF Slots
    <2>. QED BY <1>8, <1>5, <2>4, <2>5
  <1>. QED BY <1>1, <1>4, <1>5, <1>6, <1>7, <1>8

(* Distances are natural numbers, and nothing lies between a slot and      *)
(* itself.                                                                 *)
LEMMA RangeEmpty ==
  ASSUME NEW h \in Slots, NEW w \in Slots
  PROVE  Dist(h, w) \in Nat /\ Dist(w, w) = 0
  <1>1. /\ Dist(h, w) = IF h <= w THEN w - h ELSE w - h + N
        /\ Dist(w, w) = IF w <= w THEN w - w ELSE w - w + N
    BY DistValue
  <1>. QED BY <1>1, RxConstants DEF Slots

(* A nonempty set of numbers has a least one.                              *)
LEMMA LeastExists ==
  ASSUME NEW T \in SUBSET Nat, T # {}
  PROVE  \E i \in T : \A j \in T : i <= j
  <1>1. PICK x \in T : \A y \in T : ~(<<y, x>> \in OpToRel(<, Nat))
    BY NatLessThanWellFounded, WFMin
  <1>2. \A y \in T : ~(y < x)
    BY <1>1 DEF OpToRel
  <1>. QED BY <1>2

(* find_by_ssid gives an entry of the list that has this SSID.             *)
LEMMA FoundIsListed ==
  ASSUME nets \in Seq(Entry), NEW s, NEW n \in FindBySsid(s)
  PROVE  \E i \in DOMAIN nets : n = nets[i] /\ SsidOf[nets[i].bssid] = s
  <1>. DEFINE match == {i \in DOMAIN nets : SsidOf[nets[i].bssid] = s /\ s # Hidden}
  <1>1. match # {} /\ n = nets[CHOOSE i \in match : \A j \in match : i <= j]
    BY DEF FindBySsid
  <1>2. match \in SUBSET Nat
    BY LenProperties
  <1>3. \E i \in match : \A j \in match : i <= j
    BY <1>1, <1>2, LeastExists
  <1>4. (CHOOSE i \in match : \A j \in match : i <= j) \in match
    BY <1>3
  <1>. QED BY <1>1, <1>4

(* add_net keeps the list a list of entries.                               *)
LEMMA AddNetType ==
  ASSUME nets \in Seq(Entry), tuned \in Chan, NEW a \in AP
  PROVE  AddNet(a) \in Seq(Entry)
  BY AppendProperties DEF AddNet, Entry

(* Reading the slot at rp: a loop reads inside the ring.                   *)
LEMMA ReadsInRing ==
  ASSUME RxTypes, DeadInv, pc \in Drains, rp # seen
  PROVE  rp \in Slots /\ ring[rp] \in Frame
  BY DEF RxTypes, DeadInv

(* Every step keeps the types.                                             *)
LEMMA TypesStep == RxTypes /\ DeadInv /\ [Next]_vars => RxTypes'
  <1>. SUFFICES ASSUME RxTypes, DeadInv, [Next]_vars PROVE RxTypes'
    OBVIOUS
  <1>0. HwIdx \in Slots \cup {AllOnes} /\ 0 \in Slots
    BY RxConstants DEF RxTypes, HwIdx, Slots
  <1>1. ASSUME NEW a \in AP \cup {Junk}, Receive(a) PROVE RxTypes'
    <2>1. [id |-> sent + 1, from |-> a, at |-> tuned] \in Frame
      BY DEF RxTypes, Frame
    <2>. QED
      BY <1>1, <2>1, Next1Value DEF Receive, RxTypes, scanVars, dataVars, hostVars
  <1>2. CASE Die
    BY <1>2 DEF Die, RxTypes, scanVars, dataVars, hostVars
  <1>3. ASSUME NEW chans \in Requests, NEW ok \in BOOLEAN, Begin(chans, ok) PROVE RxTypes'
    BY <1>3, RxConstants, EmptySeq DEF Begin, RxTypes, chip, dataVars
  <1>4. CASE Tune
    <2>1. Head(todo) \in Chan /\ Tail(todo) \in Seq(Channels)
      BY <1>4, HeadTailProperties DEF Tune, RxTypes, Chan
    <2>. QED BY <1>4, <2>1 DEF Tune, set_channel_rf, RxTypes, chip, dataVars
  <1>5. CASE Skip \/ Release \/ Snapshot \/ DrainEnd
    BY <1>0, <1>5, AllOnesOutside DEF Skip, Release, Snapshot, DrainEnd, SetHostIdx, DeadInv,
         RxTypes, chip, dataVars, scanVars
  <1>6. CASE ParseSlot
    <2>1. rp \in Slots /\ ring[rp] \in Frame
      BY <1>6, ReadsInRing DEF ParseSlot, Drains
    <2>2. nets' \in Seq(Entry)
      BY <1>6, <2>1, AddNetType DEF ParseSlot, RxTypes, Frame
    <2>3. read' \in Nat
      BY <1>6, <2>1 DEF ParseSlot, Frame
    <2>. QED BY <1>6, <2>1, <2>2, <2>3, Next1Value DEF ParseSlot, RxTypes, chip, dataVars
  <1>7. ASSUME NEW a \in AP, NEW n \in FindBySsid(SsidOf[a]), JoinSkip(n) PROVE RxTypes'
    <2>1. n \in Entry
      BY FoundIsListed, ElementOfSeq, LenProperties DEF RxTypes
    <2>2. n.channel \in Chan
      BY <2>1 DEF Entry
    <2>. QED
      BY <1>0, <1>7, <2>2, EmptySeq DEF JoinSkip, set_channel_rf, RxTypes, chip, dataVars
  <1>8. CASE JoinSkipAgain \/ JoinRelease \/ JoinResume \/ JoinSnapshot \/ JoinPollEnd \/ JoinFails
    BY <1>0, <1>8, AllOnesOutside DEF JoinSkipAgain, JoinRelease, JoinResume, JoinSnapshot,
         JoinPollEnd, JoinFails, SetHostIdx, DeadInv, RxTypes, chip, scanVars, dataVars
  <1>9. ASSUME NEW wanted \in BOOLEAN, JoinSlot(wanted) PROVE RxTypes'
    <2>1. rp \in Slots /\ ring[rp] \in Frame
      BY <1>9, ReadsInRing DEF JoinSlot, Drains
    <2>2. read' \in Nat
      BY <1>9, <2>1 DEF JoinSlot, Frame
    <2>. QED
      BY <1>0, <1>9, <2>1, <2>2, Next1Value
         DEF JoinSlot, SetHostIdx, RxTypes, chip, scanVars, dataVars
  <1>10. ASSUME NEW gain \in Gains, StartData(gain) PROVE RxTypes'
    <2>1. HwIdx % N \in Slots
      BY <1>0, RxConstants DEF Slots, AllOnes
    <2>. QED BY <1>10, <2>1, RxConstants DEF StartData, RxTypes, chip, scanVars
  <1>11. CASE RxSnapshot \/ RxDone \/ DataStopped \/ StopData
    BY <1>0, <1>11, RxConstants DEF RxSnapshot, RxDone, DataStopped, StopData, RxTypes, chip,
         scanVars, dataVars, hostVars
  <1>12. CASE RxSlot
    <2>1. rp \in Slots /\ ring[rp] \in Frame
      BY <1>12, ReadsInRing DEF RxSlot, MoreSlots, Drains
    <2>2. read' \in Nat
      BY <1>12, <2>1 DEF RxSlot, Frame
    <2>. QED BY <1>12, <2>1, <2>2, Next1Value DEF RxSlot, RxTypes, chip, scanVars
  <1>13. ASSUME NEW fa \in {"notdue", "low", "some", "high"}, RxPassEnd(fa) PROVE RxTypes'
    <2>1. igi' \in Nat
      BY <1>13, RxConstants DEF RxPassEnd, NextGain, RxTypes
    <2>. QED
      BY <1>0, <1>13, <2>1, AllOnesOutside
         DEF RxPassEnd, SetHostIdx, DeadInv, RxTypes, chip, scanVars
  <1>14. CASE UNCHANGED vars
    BY <1>14 DEF vars, RxTypes, chip, scanVars, dataVars, hostVars
  <1>. QED
    BY <1>1, <1>2, <1>3, <1>4, <1>5, <1>6, <1>7, <1>8, <1>9, <1>10, <1>11, <1>12, <1>13, <1>14
       DEF Next, ScanStep, JoinStep, RxStep, Finished

(* Every step keeps what is known of a dead device.                        *)
LEMMA DeadStep == RxTypes /\ DeadInv /\ [Next]_vars => DeadInv'
  <1>. SUFFICES ASSUME RxTypes, DeadInv, [Next]_vars PROVE DeadInv'
    OBVIOUS
  <1>. USE AllOnesOutside DEF DeadInv, Drains
  <1>0. (HwIdx = AllOnes => dead) /\ (dead => HwIdx = AllOnes) /\ 0 # AllOnes
    BY DEF HwIdx, AllOnes, RxTypes
  <1>1. ASSUME NEW a \in AP \cup {Junk}, Receive(a) PROVE DeadInv'
    BY <1>1 DEF Receive, hostVars
  <1>2. CASE Die
    BY <1>2 DEF Die, hostVars
  <1>3. ASSUME NEW chans \in Requests, NEW ok \in BOOLEAN, Begin(chans, ok) PROVE DeadInv'
    BY <1>3 DEF Begin, chip
  <1>4. CASE Tune \/ Skip \/ Release \/ Snapshot \/ DrainEnd
    BY <1>0, <1>4 DEF Tune, Skip, Release, Snapshot, DrainEnd, chip
  <1>5. CASE ParseSlot
    BY <1>5, ReadsInRing, Next1Value DEF ParseSlot, chip
  <1>6. ASSUME NEW n, JoinSkip(n) PROVE DeadInv'
    BY <1>0, <1>6 DEF JoinSkip, chip
  <1>7. CASE JoinSkipAgain \/ JoinRelease \/ JoinResume \/ JoinSnapshot \/ JoinPollEnd \/ JoinFails
    BY <1>0, <1>7 DEF JoinSkipAgain, JoinRelease, JoinResume, JoinSnapshot, JoinPollEnd,
         JoinFails, chip
  <1>8. ASSUME NEW wanted \in BOOLEAN, JoinSlot(wanted) PROVE DeadInv'
    BY <1>0, <1>8, ReadsInRing, Next1Value DEF JoinSlot, chip
  <1>9. ASSUME NEW gain \in Gains, StartData(gain) PROVE DeadInv'
    <2>1. HwIdx % N \in Slots
      BY RxConstants DEF HwIdx, RxTypes, Slots, AllOnes
    <2>. QED BY <1>0, <1>9, <2>1 DEF StartData, chip
  <1>10. CASE RxSnapshot \/ RxDone \/ DataStopped \/ StopData
    BY <1>0, <1>10 DEF RxSnapshot, RxDone, DataStopped, StopData, chip, hostVars
  <1>11. CASE RxSlot
    BY <1>11, ReadsInRing, Next1Value DEF RxSlot, MoreSlots, chip
  <1>12. ASSUME NEW fa \in {"notdue", "low", "some", "high"}, RxPassEnd(fa) PROVE DeadInv'
    BY <1>0, <1>12 DEF RxPassEnd, chip
  <1>13. CASE UNCHANGED vars
    BY <1>13 DEF vars, chip, hostVars
  <1>. QED
    BY <1>1, <1>2, <1>3, <1>4, <1>5, <1>6, <1>7, <1>8, <1>9, <1>10, <1>11, <1>12, <1>13
       DEF Next, ScanStep, JoinStep, RxStep, Finished

(* A slot that a live loop reads was received on the channel of the radio, *)
(* and so were the ones after it.                                          *)
LEMMA SlotPlace ==
  ASSUME RxInv, Live, pc \in Drains, rp # seen,
         rp' = Next1(rp), UNCHANGED <<hw, ring, dead, tuned>>
  PROVE  /\ rp \in Slots /\ rp' \in Slots /\ seen \in Slots
         /\ ring[rp].at = tuned
         /\ \A i \in Slots : Dist(rp', i) < Dist(rp', hw) => ring[i].at = tuned
         /\ Dist(rp', hw) < Dist(rp', seen) => \A i \in Slots : ring[i].at = tuned
  <1>1. /\ rp \in Slots /\ hw \in Slots /\ seen \in Slots
        /\ \A i \in Slots : Dist(rp, i) < Dist(rp, hw) => ring[i].at = tuned
        /\ Dist(rp, hw) < Dist(rp, seen) => \A i \in Slots : ring[i].at = tuned
    BY DEF RxInv, OrderInv, PlaceInv, RxTypes
  <1>2. rp' \in Slots
    BY <1>1, Next1Value
  <1>3. /\ Dist(rp, rp) = 0 /\ Dist(rp, hw) \in Nat /\ Dist(rp, seen) \in Nat
        /\ Dist(rp', hw) \in Nat /\ Dist(rp', seen) \in Nat
    BY <1>1, <1>2, RangeEmpty
  <1>4. CASE Dist(rp, hw) < Dist(rp, seen)
    BY <1>1, <1>2, <1>4
  <1>5. CASE Dist(rp, seen) <= Dist(rp, hw)
    <2>1. /\ Dist(rp, hw) > 0
          /\ Dist(rp', seen) <= Dist(rp', hw)
          /\ \A i \in Slots : Dist(rp', i) < Dist(rp', hw) => Dist(rp, i) < Dist(rp, hw)
      BY <1>1, <1>3, <1>5, RangeShrinks
    <2>2. ~(Dist(rp', hw) < Dist(rp', seen))
      BY <1>3, <2>1
    <2>3. ring[rp].at = tuned
      BY <1>1, <1>3, <2>1
    <2>. QED BY <1>1, <1>2, <2>1, <2>2, <2>3
  <1>. QED BY <1>3, <1>4, <1>5

(* A slot that a live loop reads holds the frame after the last one read,  *)
(* and the frames after it are the ones still pending.                     *)
LEMMA SlotRead ==
  ASSUME RxInv, Live, lapped = 0, pc \in Drains, rp # seen,
         rp' = Next1(rp), read' = ring[rp].id, UNCHANGED <<hw, ring, dead, sent, tuned>>
  PROVE  /\ read' = read + 1
         /\ Dist(host, rp') <= Dist(host, hw)
         /\ Dist(rp', seen) <= Dist(rp', hw)
         /\ sent = read' + Dist(rp', hw)
         /\ \A i \in Slots : Dist(rp', i) < Dist(rp', hw) =>
              ring[i].id = read' + 1 + Dist(rp', i)
  <1>1. /\ rp \in Slots /\ hw \in Slots /\ host \in Slots /\ seen \in Slots
        /\ Dist(host, rp) <= Dist(host, hw) /\ Dist(rp, seen) <= Dist(rp, hw)
        /\ sent = read + Dist(rp, hw) /\ read \in Nat
        /\ \A i \in Slots : Dist(rp, i) < Dist(rp, hw) => ring[i].id = read + 1 + Dist(rp, i)
    BY DEF RxInv, OrderInv, PlaceInv, PendingInv, RxTypes
  <1>2. rp' \in Slots
    BY <1>1, Next1Value
  <1>3. /\ Dist(rp, rp) = 0 /\ Dist(rp, hw) > 0
        /\ Dist(rp', hw) = Dist(rp, hw) - 1
        /\ Dist(host, rp') <= Dist(host, hw)
        /\ Dist(rp', seen) <= Dist(rp', hw)
        /\ \A i \in Slots : Dist(rp', i) < Dist(rp', hw) =>
             Dist(rp, i) < Dist(rp, hw) /\ Dist(rp, i) = Dist(rp', i) + 1
    BY <1>1, RangeShrinks
  <1>4. /\ Dist(rp, hw) \in Nat /\ Dist(rp', hw) \in Nat
        /\ \A i \in Slots : Dist(rp', i) \in Nat
    BY <1>1, <1>2, RangeEmpty
  <1>5. ring[rp].id = read + 1
    <2>1. ring[rp].id = read + 1 + 0
      BY <1>1, <1>3, <1>4
    <2>. QED BY <1>1, <2>1
  <1>6. read' = read + 1
    BY <1>5
  <1>7. ASSUME NEW i \in Slots, Dist(rp', i) < Dist(rp', hw)
        PROVE  ring[i].id = read' + 1 + Dist(rp', i)
    <2>1. ring[i].id = read + 1 + (Dist(rp', i) + 1)
      BY <1>1, <1>3, <1>7
    <2>. QED BY <1>1, <1>4, <1>6, <2>1
  <1>8. sent = read' + Dist(rp', hw)
    BY <1>1, <1>3, <1>4, <1>6
  <1>. QED BY <1>3, <1>6, <1>7, <1>8

(* A loop that starts at the chip's index has nothing pending.             *)
LEMMA FreshStart ==
  ASSUME RxTypes, ~dead', rp' = hw, read' = sent, UNCHANGED <<hw, host, sent>>,
         pc' \notin Drains
  PROVE  OrderInv'
  <1>1. /\ hw \in Slots /\ host \in Slots /\ sent \in Nat
        /\ Dist(hw, hw) = 0 /\ Dist(host, hw) \in Nat
        /\ \A i \in Slots : Dist(hw, i) \in Nat
    BY RangeEmpty DEF RxTypes
  <1>. QED BY <1>1 DEF OrderInv, PlaceInv, PendingInv

(* Handing the slots read back to the chip keeps the order of the indices. *)
LEMMA HandBack ==
  ASSUME RxInv, Live' => Live, UNCHANGED <<hw, rp, ring, dead, sent, tuned, read, lapped>>,
         SetHostIdx(rp) \/ UNCHANGED host, pc' \notin Drains
  PROVE  OrderInv'
  <1>. SUFFICES ASSUME Live' PROVE OrderInv'
    BY DEF OrderInv, PlaceInv, PendingInv
  <1>1. rp \in Slots /\ hw \in Slots /\ host \in Slots
    BY DEF RxInv, RxTypes, OrderInv, PlaceInv
  <1>2. Dist(rp, rp) = 0 /\ Dist(rp, hw) \in Nat
    BY <1>1, RangeEmpty
  <1>3. lapped = 0 => Dist(host', rp) <= Dist(host', hw)
    BY <1>2 DEF RxInv, OrderInv, PendingInv, SetHostIdx
  <1>4. PendingInv'
    BY <1>3 DEF RxInv, OrderInv, PendingInv
  <1>5. PlaceInv'
    BY <1>1 DEF RxInv, OrderInv, PlaceInv
  <1>. QED BY <1>4, <1>5 DEF OrderInv

(* A snapshot of the chip's index lies ahead of the read pointer.          *)
LEMMA TakeSnapshot ==
  ASSUME RxInv, pc \in Reading, seen' = HwIdx,
         UNCHANGED <<hw, host, rp, ring, dead, sent, tuned, read, lapped>>
  PROVE  OrderInv'
  <1>1. CASE dead
    BY <1>1 DEF RxInv, DeadInv, OrderInv, PlaceInv, PendingInv, Live, HwIdx
  <1>2. CASE ~dead
    <2>1. Live /\ seen' = hw /\ hw \in Slots /\ rp \in Slots
      BY <1>2 DEF Live, HwIdx, RxInv, RxTypes, OrderInv, PlaceInv
    <2>2. Dist(rp, hw) \in Nat
      BY <2>1, RangeEmpty
    <2>3. PendingInv'
      BY <2>1, <2>2 DEF RxInv, OrderInv, PendingInv
    <2>4. PlaceInv'
      BY <2>1, <2>2 DEF RxInv, OrderInv, PlaceInv
    <2>. QED BY <2>3, <2>4 DEF OrderInv
  <1>. QED BY <1>1, <1>2 DEF RxInv, DeadInv

(* A received frame goes where the chip's index is.                        *)
LEMMA FramePlace ==
  ASSUME RxInv, NEW a \in AP \cup {Junk}, Receive(a)
  PROVE  PlaceInv'
  <1>. SUFFICES ASSUME Live' PROVE PlaceInv'
    BY DEF PlaceInv
  <1>1. Live /\ UNCHANGED <<rp, seen, pc, tuned>>
    BY DEF Live, Receive, hostVars, scanVars
  <1>2. /\ rp \in Slots /\ hw \in Slots /\ hw' = Next1(hw)
        /\ pc \in Drains => seen \in Slots
        /\ \A i \in Slots : Dist(rp, i) < Dist(rp, hw) => ring[i].at = tuned
        /\ pc \in Drains /\ Dist(rp, hw) < Dist(rp, seen) => \A i \in Slots : ring[i].at = tuned
    BY <1>1 DEF RxInv, RxTypes, OrderInv, PlaceInv, Receive
  <1>3. \A i \in Slots : (i = hw \/ ring[i].at = tuned) => ring'[i].at = tuned
    BY <1>2 DEF Receive, RxInv, RxTypes
  <1>4. /\ Dist(rp, rp) = 0 /\ Dist(rp, hw) \in Nat
        /\ \A i \in Slots : Dist(rp, i) \in Nat
    BY <1>2, RangeEmpty
  <1>5. CASE Next1(hw) = rp
    <2>1. \A i \in Slots : Dist(rp, i) < Dist(rp, hw) \/ i = hw
      BY <1>2, <1>5, RangeWraps
    <2>2. \A i \in Slots : ring'[i].at = tuned
      BY <1>2, <1>3, <2>1
    <2>. QED BY <1>1, <1>2, <2>2 DEF PlaceInv
  <1>6. CASE Next1(hw) # rp
    <2>1. /\ Dist(rp, hw') = Dist(rp, hw) + 1
          /\ \A i \in Slots : Dist(rp, i) < Dist(rp, hw') <=> Dist(rp, i) < Dist(rp, hw) \/ i = hw
      BY <1>2, <1>4, <1>6, RangeGrows
    <2>2. \A i \in Slots : Dist(rp, i) < Dist(rp, hw') => ring'[i].at = tuned
      BY <1>2, <1>3, <2>1
    <2>3. pc \in Drains /\ Dist(rp, hw') < Dist(rp, seen) => \A i \in Slots : ring'[i].at = tuned
      BY <1>2, <1>3, <1>4, <2>1
    <2>. QED BY <1>1, <1>2, <2>2, <2>3 DEF PlaceInv
  <1>. QED BY <1>5, <1>6

(* A received frame goes behind the pending ones.                          *)
LEMMA FramePending ==
  ASSUME RxInv, NEW a \in AP \cup {Junk}, Receive(a)
  PROVE  PendingInv'
  <1>. SUFFICES ASSUME Live', lapped' = 0 PROVE PendingInv'
    BY DEF PendingInv
  <1>1. Live /\ lapped = 0 /\ UNCHANGED <<host, rp, read, seen, pc, tuned>>
    BY DEF Live, Receive, hostVars, scanVars
  <1>2. /\ rp \in Slots /\ hw \in Slots /\ host \in Slots /\ sent \in Nat /\ read \in Nat
        /\ Dist(host, rp) <= Dist(host, hw) /\ sent = read + Dist(rp, hw)
        /\ pc \in Drains => seen \in Slots /\ Dist(rp, seen) <= Dist(rp, hw)
        /\ \A i \in Slots : Dist(rp, i) < Dist(rp, hw) => ring[i].id = read + 1 + Dist(rp, i)
    BY <1>1 DEF RxInv, RxTypes, OrderInv, PlaceInv, PendingInv
  <1>3. /\ hw' = Next1(hw) /\ Next1(hw) # host /\ sent' = sent + 1
        /\ ring' = [ring EXCEPT ![hw] = [id |-> sent + 1, from |-> a, at |-> tuned]]
    BY DEF Receive
  <1>4. /\ Dist(rp, hw') = Dist(rp, hw) + 1
        /\ Dist(host, rp) <= Dist(host, hw')
        /\ \A i \in Slots : Dist(rp, i) < Dist(rp, hw') <=> Dist(rp, i) < Dist(rp, hw) \/ i = hw
    BY <1>2, <1>3, RangeGrows
  <1>5. Dist(rp, hw) \in Nat /\ \A i \in Slots : Dist(rp, i) \in Nat
    BY <1>2, RangeEmpty
  <1>6. sent' = read + Dist(rp, hw')
    BY <1>2, <1>3, <1>4, <1>5
  <1>7. pc \in Drains => Dist(rp, seen) <= Dist(rp, hw')
    BY <1>2, <1>4, <1>5
  <1>8. ASSUME NEW i \in Slots, Dist(rp, i) < Dist(rp, hw')
        PROVE  ring'[i].id = read + 1 + Dist(rp, i)
    <2>1. CASE i = hw
      <3>1. ring'[i].id = sent + 1
        BY <1>2, <1>3, <2>1 DEF RxInv, RxTypes
      <3>. QED BY <1>2, <1>5, <2>1, <3>1
    <2>2. CASE i # hw
      <3>1. ring'[i] = ring[i]
        BY <1>2, <1>3, <2>2 DEF RxInv, RxTypes
      <3>. QED BY <1>2, <1>4, <1>8, <2>2, <3>1
    <2>. QED BY <2>1, <2>2
  <1>. QED BY <1>1, <1>4, <1>6, <1>7, <1>8 DEF PendingInv

(* Every step keeps the pending frames in sequence.                        *)
LEMMA OrderStep == RxInv /\ [Next]_vars => OrderInv'
  <1>. SUFFICES ASSUME RxInv, [Next]_vars PROVE OrderInv'
    OBVIOUS
  <1>. USE DEF Drains, Reading
  <1>1. ASSUME NEW a \in AP \cup {Junk}, Receive(a) PROVE OrderInv'
    BY <1>1, FramePlace, FramePending DEF OrderInv
  <1>2. CASE Die \/ StopData \/ UNCHANGED vars
    BY <1>2 DEF Die, StopData, vars, hostVars, scanVars, chip, RxInv, OrderInv, PlaceInv, PendingInv, Live
  <1>3. ASSUME NEW chans \in Requests, NEW ok \in BOOLEAN, Begin(chans, ok) PROVE OrderInv'
    BY <1>3 DEF Begin, OrderInv, PlaceInv, PendingInv, Live
  <1>4. CASE Tune \/ JoinFails \/ RxDone \/ DataStopped
    BY <1>4 DEF Tune, JoinFails, RxDone, DataStopped, OrderInv, PlaceInv, PendingInv, Live
  <1>5. CASE Skip \/ JoinSkipAgain
    <2>1. CASE dead
      BY <1>5, <2>1 DEF Skip, JoinSkipAgain, chip, OrderInv, PlaceInv, PendingInv, Live
    <2>2. CASE ~dead
      BY <1>5, <2>2, FreshStart DEF Skip, JoinSkipAgain, HwIdx, chip, RxInv
    <2>. QED BY <2>1, <2>2
  <1>6. ASSUME NEW n, JoinSkip(n) PROVE OrderInv'
    <2>1. CASE dead
      BY <1>6, <2>1 DEF JoinSkip, chip, OrderInv, PlaceInv, PendingInv, Live
    <2>2. CASE ~dead
      BY <1>6, <2>2, FreshStart DEF JoinSkip, HwIdx, chip, RxInv
    <2>. QED BY <2>1, <2>2
  <1>7. ASSUME NEW gain \in Gains, StartData(gain) PROVE OrderInv'
    <2>1. CASE dead
      BY <1>7, <2>1 DEF StartData, chip, OrderInv, PlaceInv, PendingInv, Live
    <2>2. CASE ~dead
      <3>1. hw % N = hw
        BY SlotModN DEF RxInv, RxTypes
      <3>. QED BY <1>7, <2>2, <3>1, FreshStart DEF StartData, HwIdx, chip, RxInv
    <2>. QED BY <2>1, <2>2
  <1>8. CASE Release \/ JoinRelease \/ JoinResume \/ DrainEnd \/ JoinPollEnd
    <2>1. Live' => Live
      BY <1>8 DEF Release, JoinRelease, JoinResume, DrainEnd, JoinPollEnd, Live, chip
    <2>. QED
      BY <1>8, <2>1, HandBack
         DEF Release, JoinRelease, JoinResume, DrainEnd, JoinPollEnd, chip, scanVars
  <1>9. ASSUME NEW fa \in {"notdue", "low", "some", "high"}, RxPassEnd(fa) PROVE OrderInv'
    <2>1. Live' => Live
      BY <1>9 DEF RxPassEnd, Live, chip
    <2>. QED BY <1>9, <2>1, HandBack DEF RxPassEnd, chip, scanVars
  <1>10. CASE Snapshot \/ JoinSnapshot \/ RxSnapshot
    BY <1>10, TakeSnapshot DEF Snapshot, JoinSnapshot, RxSnapshot, chip, scanVars
  <1>11. CASE ParseSlot \/ RxSlot
    <2>. SUFFICES ASSUME Live' PROVE OrderInv'
      BY DEF OrderInv, PlaceInv, PendingInv
    <2>1. /\ Live /\ pc \in Drains /\ rp # seen /\ rp' = Next1(rp) /\ read' = ring[rp].id
          /\ UNCHANGED <<hw, ring, dead, sent, tuned, host, seen, pc, lapped>>
      BY <1>11 DEF ParseSlot, RxSlot, MoreSlots, Live, chip, scanVars
    <2>2. PlaceInv'
      BY <2>1, SlotPlace DEF PlaceInv
    <2>3. PendingInv'
      BY <2>1, SlotRead DEF PendingInv
    <2>. QED BY <2>2, <2>3 DEF OrderInv
  <1>12. ASSUME NEW wanted \in BOOLEAN, JoinSlot(wanted) PROVE OrderInv'
    <2>. SUFFICES ASSUME Live' PROVE OrderInv'
      BY DEF OrderInv, PlaceInv, PendingInv
    <2>1. /\ Live /\ pc \in Drains /\ rp # seen /\ rp' = Next1(rp) /\ read' = ring[rp].id
          /\ UNCHANGED <<hw, ring, dead, sent, tuned, lapped>>
      BY <1>12 DEF JoinSlot, Live, chip, scanVars
    <2>2. CASE wanted
      <3>1. pc' = "joined" /\ host' = rp'
        BY <1>12, <2>1, <2>2 DEF JoinSlot, SetHostIdx, Live
      <3>2. rp' \in Slots /\ hw \in Slots
        BY <2>1, SlotPlace DEF RxInv, RxTypes
      <3>3. Dist(rp', rp') = 0 /\ Dist(rp', hw) \in Nat
        BY <3>2, RangeEmpty
      <3>4. PlaceInv'
        BY <2>1, <3>1, SlotPlace DEF PlaceInv
      <3>5. PendingInv'
        BY <2>1, <3>1, <3>3, SlotRead DEF PendingInv
      <3>. QED BY <3>4, <3>5 DEF OrderInv
    <2>3. CASE ~wanted
      <3>1. UNCHANGED <<host, pc, seen>>
        BY <1>12, <2>3 DEF JoinSlot
      <3>2. PlaceInv'
        BY <2>1, <3>1, SlotPlace DEF PlaceInv
      <3>3. PendingInv'
        BY <2>1, <3>1, SlotRead DEF PendingInv
      <3>. QED BY <3>2, <3>3 DEF OrderInv
    <2>. QED BY <2>2, <2>3
  <1>. QED
    BY <1>1, <1>2, <1>3, <1>4, <1>5, <1>6, <1>7, <1>8, <1>9, <1>10, <1>11, <1>12
       DEF Next, ScanStep, JoinStep, RxStep, Finished

(* The invariant holds at the start and in every reachable state.          *)
LEMMA RxInvariance == Spec => []RxInv
  <1>1. Init => RxInv
    <2>. SUFFICES ASSUME Init PROVE RxInv
      OBVIOUS
    <2>1. Empty \in Frame /\ 0 \in Slots
      BY RxConstants DEF Empty, Frame, Chan, Slots
    <2>2. RxTypes
      BY <2>1, RxConstants, EmptySeq DEF Init, RxTypes, Chan
    <2>3. rp # AllOnes /\ seen # AllOnes
      BY DEF Init, AllOnes
    <2>4. DeadInv
      BY <2>3, Zenon DEF Init, DeadInv
    <2>5. OrderInv
      BY DEF Init, OrderInv, PlaceInv, PendingInv, Live, Drains, Reading
    <2>. QED BY <2>2, <2>4, <2>5 DEF RxInv
  <1>2. RxInv /\ [Next]_vars => RxInv'
    BY TypesStep, DeadStep, OrderStep DEF RxInv
  <1>. QED BY <1>1, <1>2, PTL DEF Spec
-----------------------------------------------------------------------------
(* Each loop parses every frame that arrived since it started reading      *)
(* exactly once and in order, for rings of every length, as long as the    *)
(* chip has not gone past the host's index since.                          *)
THEOREM FramesOnce == Spec => EachFrameOnce
  <1>1. RxInv /\ [Next]_vars =>
          [rp' # rp /\ pc \in {"drain", "jdrain", "rxslots"} /\ seen \in Slots /\ lapped = 0
             => read' = read + 1]_vars
    <2>. SUFFICES ASSUME RxInv, Next, rp' # rp, pc \in Drains, seen \in Slots, lapped = 0
                  PROVE  read' = read + 1
      BY DEF Drains
    <2>1. Live
      BY AllOnesOutside DEF Live
    <2>2. ParseSlot \/ RxSlot \/ \E wanted \in BOOLEAN : JoinSlot(wanted)
      BY DEF Next, Drains, Receive, Die, Begin, ScanStep, Tune, Skip, Release, Snapshot,
           DrainEnd, JoinStep, JoinSkip, JoinSkipAgain, JoinRelease, JoinResume, JoinSnapshot,
           JoinPollEnd, JoinFails, StartData, RxStep, RxSnapshot, RxPassEnd, RxDone, StopData,
           DataStopped, Finished, hostVars, vars
    <2>3. /\ rp # seen /\ rp' = Next1(rp) /\ read' = ring[rp].id
          /\ UNCHANGED <<hw, ring, dead, sent, tuned>>
      BY <2>2 DEF ParseSlot, RxSlot, MoreSlots, JoinSlot, chip, scanVars
    <2>. QED BY <2>1, <2>3, SlotRead
  <1>. QED BY <1>1, RxInvariance, PTL DEF Spec, EachFrameOnce

(* The gain control's bounds, whatever gain it starts from.                *)
THEOREM GainBounded == Spec => GainInRange
  <1>1. RxInv /\ [Next]_vars =>
          [pc = "rxslots" /\ igi' # igi
             => igi' <= Cap /\ (igi \in Target .. Cap => igi' >= Target)]_vars
    <2>. SUFFICES ASSUME RxInv, Next, pc = "rxslots", igi' # igi
                  PROVE  igi' <= Cap /\ (igi \in Target .. Cap => igi' >= Target)
      OBVIOUS
    <2>1. PICK fa \in {"notdue", "low", "some", "high"} : RxPassEnd(fa)
      BY DEF Next, Receive, Die, Begin, ScanStep, Tune, Skip, Release, Snapshot, ParseSlot,
           DrainEnd, JoinStep, JoinSkip, JoinSkipAgain, JoinRelease, JoinResume, JoinSnapshot,
           JoinSlot, JoinPollEnd, JoinFails, StartData, RxStep, RxSnapshot, RxSlot, RxDone,
           StopData, DataStopped, Finished, dataVars, vars
    <2>2. igi' = NextGain(fa)
      BY <2>1 DEF RxPassEnd
    <2>. QED BY <2>2, RxConstants DEF NextGain, RxInv, RxTypes
  <1>. QED BY <1>1, RxInvariance, PTL DEF Spec, GainInRange
-----------------------------------------------------------------------------
(* The list of a scan.                                                     *)

BssidsDistinct == \A i, j \in DOMAIN nets : nets[i].bssid = nets[j].bssid => i = j

ListedWasHeard == \A i \in DOMAIN nets : \E p \in heard : p[1] = nets[i].bssid

HeardIsListed == \A p \in heard : \E i \in DOMAIN nets : nets[i].bssid = p[1]

(* The list is a set of access points heard, all of them while it has      *)
(* room, each with a channel it was heard on.                              *)
ListInv ==
  /\ IsFiniteSet(heard)
  /\ Len(nets) <= NetsMax
  /\ BssidsDistinct /\ ListedWasHeard
  /\ Len(nets) < NetsMax => HeardIsListed
  /\ ~dead => \A i \in DOMAIN nets : <<nets[i].bssid, nets[i].channel>> \in heard

(* A step that empties the list and forgets what was heard.                *)
LEMMA ListEmpty ==
  ASSUME nets' = <<>>, heard' = {}
  PROVE  ListInv'
  <1>1. DOMAIN nets' = {} /\ Len(nets') = 0
    OBVIOUS
  <1>. QED BY <1>1, FS_EmptySet, RxConstants
           DEF ListInv, BssidsDistinct, ListedWasHeard, HeardIsListed

(* parse_frame of a beacon or probe response.                              *)
LEMMA ListAdds ==
  ASSUME RxTypes, ListInv, NEW a \in AP, NEW c \in Chan, ~dead' => ~dead /\ c = tuned,
         nets' = AddNet(a), heard' = heard \cup {<<a, c>>}
  PROVE  ListInv'
  <1>1. nets \in Seq(Entry) /\ DOMAIN nets = 1 .. Len(nets) /\ Len(nets) \in Nat
    BY LenProperties DEF RxTypes
  <1>2. IsFiniteSet(heard')
    BY FS_AddElement DEF ListInv
  <1>3. CASE Listed(a) \/ Len(nets) >= NetsMax
    <2>1. nets' = nets
      BY <1>3 DEF AddNet
    <2>2. ListedWasHeard'
      BY <2>1 DEF ListInv, ListedWasHeard
    <2>3. Len(nets) < NetsMax => HeardIsListed'
      BY <1>1, <1>3, <2>1, RxConstants DEF ListInv, HeardIsListed, Listed
    <2>. QED BY <1>2, <2>1, <2>2, <2>3 DEF ListInv, BssidsDistinct
  <1>4. CASE ~Listed(a) /\ ~(Len(nets) >= NetsMax)
    <2>. DEFINE e == [bssid |-> a, channel |-> tuned]
    <2>1. nets' = Append(nets, e) /\ Len(nets) < NetsMax
      BY <1>1, <1>4, RxConstants DEF AddNet
    <2>2. e \in Entry /\ e.bssid = a /\ e.channel = tuned
      BY DEF Entry, RxTypes
    <2>. HIDE DEF e
    <2>3. /\ Len(nets') = Len(nets) + 1 /\ DOMAIN nets' = 1 .. Len(nets) + 1
          /\ \A i \in 1 .. Len(nets) : nets'[i] = nets[i]
          /\ nets'[Len(nets) + 1] = e
      BY <1>1, <2>1, <2>2, AppendProperties, LenProperties
    <2>4. BssidsDistinct'
      BY <1>1, <1>4, <2>2, <2>3 DEF BssidsDistinct, ListInv, Listed
    <2>5. ListedWasHeard'
      <3>. SUFFICES ASSUME NEW i \in DOMAIN nets' PROVE \E p \in heard' : p[1] = nets'[i].bssid
        BY DEF ListedWasHeard
      <3>1. CASE i \in 1 .. Len(nets)
        BY <1>1, <2>3, <3>1 DEF ListedWasHeard, ListInv
      <3>2. CASE i = Len(nets) + 1
        <4>1. <<a, c>> \in heard' /\ <<a, c>>[1] = nets'[i].bssid
          BY <2>2, <2>3, <3>2
        <4>. QED BY <4>1
      <3>. QED BY <1>1, <2>3, <3>1, <3>2
    <2>6. HeardIsListed'
      BY <1>1, <2>1, <2>2, <2>3 DEF HeardIsListed, ListInv
    <2>7. ~dead' => \A i \in DOMAIN nets' : <<nets'[i].bssid, nets'[i].channel>> \in heard'
      BY <1>1, <2>2, <2>3 DEF ListInv
    <2>. QED BY <1>1, <1>2, <2>1, <2>3, <2>4, <2>5, <2>6, <2>7, RxConstants DEF ListInv
  <1>. QED BY <1>3, <1>4

(* Every step keeps the list so.                                           *)
LEMMA ListStep == RxInv /\ ListInv /\ [Next]_vars => ListInv'
  <1>. SUFFICES ASSUME RxInv, ListInv, [Next]_vars PROVE ListInv'
    OBVIOUS
  <1>1. ASSUME UNCHANGED <<nets, heard>>, ~dead' => ~dead PROVE ListInv'
    BY <1>1 DEF ListInv, BssidsDistinct, ListedWasHeard, HeardIsListed
  <1>2. ASSUME NEW chans \in Requests, NEW ok \in BOOLEAN, Begin(chans, ok) PROVE ListInv'
    BY <1>2, ListEmpty DEF Begin
  <1>3. ASSUME NEW n, JoinSkip(n) PROVE ListInv'
    BY <1>3, ListEmpty DEF JoinSkip
  <1>4. CASE ParseSlot
    <2>1. rp \in Slots /\ ring[rp] \in Frame
      BY <1>4, ReadsInRing DEF ParseSlot, Drains, RxInv
    <2>2. CASE ring[rp].from = Junk
      BY <1>1, <1>4, <2>2 DEF ParseSlot, chip
    <2>3. CASE ring[rp].from # Junk
      <3>1. ring[rp].from \in AP /\ ring[rp].at \in Chan
        BY <2>1, <2>3 DEF Frame
      <3>2. /\ nets' = AddNet(ring[rp].from)
            /\ heard' = heard \cup {<<ring[rp].from, ring[rp].at>>}
        BY <1>4, <2>3 DEF ParseSlot
      <3>3. ~dead' => ~dead /\ ring[rp].at = tuned
        <4>. SUFFICES ASSUME ~dead' PROVE ~dead /\ ring[rp].at = tuned
          OBVIOUS
        <4>1. /\ ~dead /\ pc \in Drains /\ rp # seen /\ rp' = Next1(rp)
              /\ read' = ring[rp].id /\ UNCHANGED <<hw, ring, dead, sent, tuned>>
          BY <1>4 DEF ParseSlot, chip, Drains
        <4>2. Live
          BY <4>1 DEF Live, Reading
        <4>. QED BY <4>1, <4>2, SlotPlace
      <3>. QED BY <3>1, <3>2, <3>3, ListAdds DEF RxInv
    <2>. QED BY <2>2, <2>3
  <1>5. CASE Die \/ \E a \in AP \cup {Junk} : Receive(a)
    BY <1>1, <1>5 DEF Die, Receive, scanVars
  <1>6. CASE Tune \/ Skip \/ Release \/ Snapshot \/ DrainEnd
    BY <1>1, <1>6 DEF Tune, Skip, Release, Snapshot, DrainEnd, chip, scanVars
  <1>7. CASE \/ JoinSkipAgain \/ JoinRelease \/ JoinResume \/ JoinSnapshot \/ JoinPollEnd
             \/ JoinFails \/ \E wanted \in BOOLEAN : JoinSlot(wanted)
    BY <1>1, <1>7 DEF JoinSkipAgain, JoinRelease, JoinResume, JoinSnapshot, JoinPollEnd,
         JoinFails, JoinSlot, chip, scanVars
  <1>8. CASE RxStep \/ StopData \/ \E gain \in Gains : StartData(gain)
    BY <1>1, <1>8 DEF RxStep, RxSnapshot, RxSlot, RxPassEnd, RxDone, DataStopped, StopData,
         StartData, chip, scanVars
  <1>9. CASE UNCHANGED vars
    BY <1>1, <1>9 DEF vars, chip, scanVars
  <1>. QED
    BY <1>2, <1>3, <1>4, <1>5, <1>6, <1>7, <1>8, <1>9 DEF Next, ScanStep, JoinStep, Finished

(* What is known of the list holds in every reachable state.               *)
LEMMA ListInvariance == Spec => []ListInv
  <1>1. Init => ListInv
    <2>. SUFFICES ASSUME Init PROVE ListInv
      OBVIOUS
    <2>1. heard = {} /\ DOMAIN nets = {} /\ Len(nets) = 0
      BY DEF Init
    <2>. QED BY <2>1, FS_EmptySet, RxConstants
             DEF ListInv, BssidsDistinct, ListedWasHeard, HeardIsListed
  <1>. QED BY <1>1, ListStep, RxInvariance, PTL DEF Spec

(* associate is given an access point of the network asked for, on a       *)
(* channel where this very scan received it: the frames a retuned radio    *)
(* left in the ring never carry the wrong channel into the list, also when *)
(* the chip laps the host.                                                 *)
THEOREM FoundIsHeard == Spec => []FoundWhereHeard
  <1>1. RxInv /\ ListInv => FoundWhereHeard
    <2>. SUFFICES ASSUME RxInv, ListInv, ~dead, NEW a \in AP, NEW n \in FindBySsid(SsidOf[a])
                  PROVE  SsidOf[n.bssid] = SsidOf[a] /\ <<n.bssid, n.channel>> \in heard
      BY DEF FoundWhereHeard
    <2>1. PICK i \in DOMAIN nets : n = nets[i] /\ SsidOf[nets[i].bssid] = SsidOf[a]
      BY FoundIsListed DEF RxInv, RxTypes
    <2>. QED BY <2>1 DEF ListInv
  <1>. QED BY <1>1, RxInvariance, ListInvariance, PTL

(* The list is exactly the set of access points heard, unless there are    *)
(* more of them than g_nets holds, and then it is full.                    *)
THEOREM ListIsHeard == Spec => []ListIsWhatWasHeard
  <1>1. RxInv /\ ListInv => ListIsWhatWasHeard
    <2>. SUFFICES ASSUME RxInv, ListInv PROVE ListIsWhatWasHeard
      OBVIOUS
    <2>. DEFINE f == [i \in DOMAIN nets |-> nets[i].bssid]
                g == [p \in heard |-> p[1]]
    <2>1. DOMAIN nets = 1 .. Len(nets) /\ Len(nets) \in Nat
      BY LenProperties DEF RxInv, RxTypes
    <2>2. IsFiniteSet(DOMAIN nets) /\ Cardinality(DOMAIN nets) = Len(nets)
      <3>1. /\ IsFiniteSet(1 .. Len(nets))
            /\ Cardinality(1 .. Len(nets)) = IF 1 > Len(nets) THEN 0 ELSE Len(nets) - 1 + 1
        BY <2>1, FS_Interval
      <3>. QED BY <2>1, <3>1
    <2>3. IsInjective(f)
      BY DEF IsInjective, ListInv, BssidsDistinct
    <2>4. f \in Surjection(DOMAIN nets, listedAps) /\ f \in Injection(DOMAIN nets, listedAps)
      <3>1. f \in [DOMAIN nets -> listedAps]
        BY DEF listedAps
      <3>2. \A t \in listedAps : \E i \in DOMAIN nets : f[i] = t
        BY DEF listedAps
      <3>. HIDE DEF f
      <3>. QED BY <2>3, <3>1, <3>2 DEF Surjection, Injection
    <2>5. IsFiniteSet(listedAps) /\ Cardinality(listedAps) = Len(nets)
      BY <2>2, <2>4, FS_Surjection
    <2>6. g \in Surjection(heard, heardAps)
      BY DEF Surjection, heardAps
    <2>7. IsFiniteSet(heardAps) /\ Cardinality(heardAps) \in Nat
      BY <2>6, FS_Surjection, FS_CardinalityType DEF ListInv
    <2>8. listedAps \subseteq heardAps
      BY DEF ListInv, ListedWasHeard, listedAps, heardAps
    <2>9. Len(nets) < NetsMax => listedAps = heardAps
      BY <2>8 DEF ListInv, HeardIsListed, listedAps, heardAps
    <2>10. Cardinality(listedAps) = Cardinality(heardAps) => listedAps = heardAps
      BY <2>7, <2>8, FS_Subset
    <2>11. Cardinality(listedAps) <= Cardinality(heardAps)
      BY <2>7, <2>8, FS_Subset
    <2>12. Len(nets) <= NetsMax
      BY DEF ListInv
    <2>. HIDE DEF f
    <2>13. Cardinality(heardAps) <= NetsMax => listedAps = heardAps
      BY <2>1, <2>5, <2>7, <2>9, <2>10, <2>11, <2>12, RxConstants
    <2>14. Cardinality(heardAps) > NetsMax => Len(nets) = NetsMax
      <3>1. Len(nets) < NetsMax => Cardinality(heardAps) = Len(nets)
        BY <2>5, <2>9, Zenon
      <3>2. NetsMax \in Nat
        BY RxConstants
      <3>3. \A c \in Nat : \A l \in Nat :
              l <= NetsMax /\ (l < NetsMax => c = l) /\ c > NetsMax => l = NetsMax
        BY <3>2
      <3>. QED BY <2>1, <2>7, <2>12, <3>1, <3>3
    <2>. QED BY <2>3, <2>8, <2>13, <2>14 DEF ListIsWhatWasHeard, f
  <1>. QED BY <1>1, RxInvariance, ListInvariance, PTL
=============================================================================
