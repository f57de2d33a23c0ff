------------------------------- MODULE RxRing -------------------------------
(***************************************************************************)
(* The RX ring of core/trx.c and the three loops that read it one after    *)
(* the other: the active scan of core/scan.c, the listeners of the join    *)
(* (core/assoc.c, core/wpa.c) and the data path's RX thread with its gain  *)
(* control (server/RTW88Server.cpp).  The chip keeps filling the ring      *)
(* meanwhile, and may stop answering at any time: its index then reads as  *)
(* all ones, which is no slot of the ring.  The control lock keeps the     *)
(* loops apart, but for an RX thread that stopData gave up on, which Kctl  *)
(* has and this module does not.                                           *)
(*                                                                         *)
(* A frame is abstracted to the access point that sent it (Junk for what   *)
(* parse_frame drops), the channel the radio was on and a serial number;   *)
(* the last two are seen only by the properties.                           *)
(***************************************************************************)
EXTENDS Integers, Sequences, FiniteSets, Functions

CONSTANTS
  AP,          \* access points (their BSSIDs)
  SsidOf,      \* the SSID of each, or Hidden
  Hears,       \* the pairs <<access point, tuned channel>> that are received;
               \* on 2.4 GHz channels overlap
  Channels,    \* channels
  Requests,    \* the sequences of channels a scan is asked for
  Hidden, Junk,
  N,           \* RX ring depth (g_rx_n: 64 down to 8)
  NetsMax,     \* entries of g_nets (128)
  Iters,       \* drains per channel (ms_per / 50)
  Polls,       \* polls of one wait for a frame of the join (ms / 5)
  Target, Cap, \* gain control: where it settles (0x32), its upper limit (0x3e)
  Gains,       \* gains the AGC tables may have left in the chip
  MaxFrames,   \* bound: frames the chip receives
  MaxScans,    \* bound: calls of scan_networks
  MaxWaits     \* bound: waits of one join

(* What the 12 bits of the chip's index read as on a dead device.          *)
AllOnes == 4095

ASSUME RxConstants ==
  /\ N \in Nat /\ N > 1 /\ N <= AllOnes /\ NetsMax \in Nat \ {0}
  /\ Iters \in Nat \ {0} /\ Polls \in Nat \ {0}
  /\ Target \in Nat /\ Cap \in Nat /\ Target < Cap /\ Gains \subseteq Nat
  /\ MaxFrames \in Nat /\ MaxScans \in Nat /\ MaxWaits \in Nat
  /\ Requests \subseteq Seq(Channels) \ {<<>>}
  /\ Hears \subseteq AP \X Channels
  /\ DOMAIN SsidOf = AP /\ Junk \notin AP

VARIABLES
  pc,       \* where the loop that owns the ring is; "idle" when none runs
  todo,     \* channels not scanned yet
  tuned,    \* the channel the radio is on; 0 before the first set_channel
  iter,     \* drains done on this channel, polls done in this wait
  rp, seen, \* the host's read pointer and its snapshot of the chip's index,
            \* a local variable that is 0 outside the loops
  nets,     \* g_nets[0 .. g_nnets-1]
  waits,    \* waits done by this join
  rxStop,   \* fRxStop
  got,      \* rxLoop: this pass read a slot
  igi,      \* the gain, REG 0xc50[6:0], as rxLoop last wrote or found it
  hw, host, \* RTK_PCI_RXBD_IDX_MPDUQ: the chip's index, the host's index
  ring,     \* the RX data slots
  dead,     \* the device no longer answers
  sent,     \* frames received by the chip so far
  scans,    \* calls made so far
  read,     \* ghost: serial number of the last frame parsed or skipped
  heard,    \* ghost: <<access point, channel it was received on>>, parsed in
            \* this call
  lapped    \* ghost, 0 or 1: the chip went past the host's index since the
            \* loop that reads the ring took its read pointer

chip     == <<hw, ring, dead, sent>>
scanVars == <<todo, tuned, nets, scans, heard>>
dataVars == <<rxStop, got, igi>>
hostVars == <<pc, iter, rp, seen, waits, read>>
vars == <<chip, host, scanVars, dataVars, hostVars, lapped>>

Slots  == 0 .. N - 1
Next1(i)  == (i + 1) % N
Empty  == [id |-> 0, from |-> Junk, at |-> 0]

(* trx_reset leaves both indices at 0 and the slots unread.                *)
Init ==
  /\ pc = "idle" /\ todo = <<>> /\ tuned = 0 /\ iter = 0
  /\ rp = 0 /\ seen = 0 /\ nets = <<>> /\ waits = 0
  /\ rxStop = FALSE /\ got = FALSE /\ igi = Target
  /\ hw = 0 /\ host = 0 /\ ring = [i \in Slots |-> Empty] /\ dead = FALSE
  /\ sent = 0 /\ scans = 0 /\ read = 0 /\ heard = {} /\ lapped = 0

-----------------------------------------------------------------------------
(* The chip writes a received frame to the slot at its index and advances. *)
(* When that meets the host's index the ring is full, and the sources      *)
(* disagree: trx.c has a burst dropped silently, the RX thread has the     *)
(* chip lap the host and overwrite what is unread.  Both may happen here.  *)
(* Only a scan looks at who sent a frame; for the other loops Junk stands  *)
(* for every frame.                                                        *)
Receive(a) ==
  /\ sent < MaxFrames /\ ~dead
  /\ tuned # 0 /\ (a = Junk \/ (waits = 0 /\ <<a, tuned>> \in Hears))
  /\ ring' = [ring EXCEPT ![hw] = [id |-> sent + 1, from |-> a, at |-> tuned]]
  /\ hw' = Next1(hw) /\ sent' = sent + 1
  /\ lapped' = IF Next1(hw) = host THEN 1 ELSE lapped
  /\ UNCHANGED <<dead, host, scanVars, dataVars, hostVars>>

(* The device falls off the bus or loses power.                            *)
Die ==
  /\ ~dead /\ pc # "idle"
  /\ dead' = TRUE
  /\ UNCHANGED <<hw, ring, sent, host, scanVars, dataVars, hostVars, lapped>>

(* trx_rx_hw_idx: bits 16 to 27 of the index register.                     *)
HwIdx == IF dead THEN AllOnes ELSE hw

(* trx_rx_set_host_idx: the low half of the register; a dead device loses  *)
(* the write.                                                              *)
SetHostIdx(i) == host' = IF dead THEN host ELSE i

-----------------------------------------------------------------------------
(* scan_networks: the list is emptied first; without an RX ring or with    *)
(* the interrupt refused the call returns at once.                         *)
Begin(chans, ok) ==
  /\ pc = "idle" /\ scans < MaxScans
  /\ scans' = scans + 1 /\ nets' = <<>> /\ heard' = {} /\ waits' = 0
  /\ pc' = IF ok THEN "tune" ELSE "idle"
  /\ todo' = IF ok THEN chans ELSE <<>>
  /\ UNCHANGED <<chip, host, dataVars, tuned, iter, rp, seen, read, lapped>>

(* The RF part of set_channel tunes the radio; baseband and TX filter      *)
(* settings decide how well a frame is heard, which Hears leaves open.     *)
set_channel_rf(c) == tuned' = c

(* The next channel of the request.                                        *)
Tune ==
  /\ pc = "tune" /\ todo # <<>>
  /\ set_channel_rf(Head(todo)) /\ todo' = Tail(todo) /\ iter' = 0
  /\ pc' = "skip"
  /\ UNCHANGED <<chip, host, dataVars, nets, scans, heard, rp, seen, waits, read, lapped>>

\* Mutant: the frames of the channel before are not skipped.
Skip_Keep ==
  /\ pc = "skip"
  /\ pc' = "release"
  /\ UNCHANGED <<chip, host, scanVars, dataVars, iter, rp, seen, waits, read, lapped>>

(* The read pointer starts at the chip's index: what is in the ring was    *)
(* received on the channel before.                                         *)
Skip ==
  /\ pc = "skip"
  /\ rp' = HwIdx /\ read' = sent /\ lapped' = 0
  /\ pc' = "release"
  /\ UNCHANGED <<chip, host, scanVars, dataVars, iter, seen, waits>>

(* The skipped slots are released, then the probe request is sent.         *)
Release ==
  /\ pc = "release"
  /\ SetHostIdx(rp) /\ pc' = "wait"
  /\ UNCHANGED <<chip, scanVars, dataVars, iter, rp, seen, waits, read, lapped>>

\* Mutant: the slots are handed back before they are read.
Snapshot_Release ==
  /\ pc = "wait"
  /\ seen' = HwIdx /\ SetHostIdx(HwIdx) /\ pc' = "drain"
  /\ UNCHANGED <<chip, scanVars, dataVars, iter, rp, waits, read, lapped>>

(* hw_irq_wait returned, by interrupt or after 50 ms; drain reads the      *)
(* chip's index once.                                                      *)
Snapshot ==
  /\ pc = "wait"
  /\ seen' = HwIdx
  /\ pc' = "drain"
  /\ UNCHANGED <<chip, host, scanVars, dataVars, iter, rp, waits, read, lapped>>

Listed(a) == \E i \in DOMAIN nets : nets[i].bssid = a

\* Mutant: entries are matched by SSID.
AddNet_BySsid(a) ==
  IF \/ \E i \in DOMAIN nets : SsidOf[nets[i].bssid] = SsidOf[a]
     \/ Len(nets) >= NetsMax
  THEN nets
  ELSE Append(nets, [bssid |-> a, channel |-> tuned])

(* add_net: one entry per BSSID; the channel is the one tuned to.  The     *)
(* count of beacons is left out.                                           *)
AddNet(a) ==
  IF Listed(a) \/ Len(nets) >= NetsMax
  THEN nets
  ELSE Append(nets, [bssid |-> a, channel |-> tuned])

(* parse_frame of the slot at rp: beacons and probe responses are entered, *)
(* everything else (errors, other types and lengths) is dropped.           *)
ParseSlot ==
  /\ pc = "drain" /\ rp # seen
  /\ LET f == ring[rp]
     IN /\ read' = f.id
        /\ nets' = IF f.from = Junk THEN nets ELSE AddNet(f.from)
        /\ heard' = IF f.from = Junk THEN heard ELSE heard \cup {<<f.from, f.at>>}
  /\ rp' = Next1(rp)
  /\ UNCHANGED <<chip, host, dataVars, pc, todo, tuned, iter, seen, scans, waits, lapped>>

\* Mutant: a drain that found nothing is not counted.
DrainEnd_OnlyFound ==
  /\ pc = "drain" /\ rp = seen
  /\ SetHostIdx(rp) /\ iter' = IF nets = <<>> THEN iter ELSE iter + 1
  /\ pc' = IF iter' < Iters THEN "wait" ELSE IF todo # <<>> THEN "tune" ELSE "idle"
  /\ seen' = 0
  /\ UNCHANGED <<chip, scanVars, dataVars, rp, waits, read, lapped>>

(* The drain ends at the snapshot and hands the slots back to the chip;    *)
(* after the last drain of the last channel the interrupt is disabled.     *)
DrainEnd ==
  /\ pc = "drain" /\ rp = seen
  /\ SetHostIdx(rp) /\ iter' = iter + 1
  /\ pc' = IF iter' < Iters THEN "wait" ELSE IF todo # <<>> THEN "tune" ELSE "idle"
  /\ seen' = 0
  /\ UNCHANGED <<chip, scanVars, dataVars, rp, waits, read, lapped>>

(* find_by_ssid: the first entry with this SSID, hidden entries skipped.   *)
FindBySsid(s) ==
  LET match == {i \in DOMAIN nets : SsidOf[nets[i].bssid] = s /\ s # Hidden}
  IN IF match = {} THEN {} ELSE {nets[CHOOSE i \in match : \A j \in match : i <= j]}

-----------------------------------------------------------------------------
(* The join of a network that was found.  wait_mgmt_resp, listen_eapol and *)
(* wpa_handshake start at the chip's index; tuning to the network's        *)
(* channel comes first.  The list is not read again before the next scan   *)
(* empties it.                                                             *)
JoinSkip(n) ==
  /\ pc = "idle" /\ waits < MaxWaits
  /\ set_channel_rf(n.channel) /\ nets' = <<>> /\ heard' = {}
  /\ rp' = HwIdx /\ read' = sent /\ lapped' = 0 /\ iter' = 0 /\ waits' = 1
  /\ pc' = "jrelease"
  /\ UNCHANGED <<chip, host, dataVars, todo, scans, seen>>

(* The next of those waits.                                                *)
JoinSkipAgain ==
  /\ pc = "joined" /\ waits < MaxWaits
  /\ rp' = HwIdx /\ read' = sent /\ lapped' = 0 /\ iter' = 0 /\ waits' = waits + 1
  /\ pc' = "jrelease"
  /\ UNCHANGED <<chip, host, scanVars, dataVars, seen>>

JoinRelease ==
  /\ pc = "jrelease"
  /\ SetHostIdx(rp) /\ pc' = "jwait"
  /\ UNCHANGED <<chip, scanVars, dataVars, iter, rp, seen, waits, read, lapped>>

(* A later recv_eapol resumes where the one before stopped.                *)
JoinResume ==
  /\ pc = "joined" /\ waits < MaxWaits
  /\ iter' = 0 /\ waits' = waits + 1 /\ pc' = "jwait"
  /\ UNCHANGED <<chip, host, scanVars, dataVars, rp, seen, read, lapped>>

JoinSnapshot ==
  /\ pc = "jwait"
  /\ seen' = HwIdx /\ pc' = "jdrain"
  /\ UNCHANGED <<chip, host, scanVars, dataVars, iter, rp, waits, read, lapped>>

(* One slot: the frame the caller waits for ends the call at once, with    *)
(* the slots up to it handed back; everything else is passed over.         *)
JoinSlot(wanted) ==
  /\ pc = "jdrain" /\ rp # seen
  /\ read' = ring[rp].id /\ rp' = Next1(rp)
  /\ IF wanted THEN SetHostIdx(Next1(rp)) /\ pc' = "joined" /\ seen' = 0
               ELSE UNCHANGED <<host, pc, seen>>
  /\ UNCHANGED <<chip, scanVars, dataVars, iter, waits, lapped>>

(* The snapshot is reached; the call gives up after its last poll.         *)
JoinPollEnd ==
  /\ pc = "jdrain" /\ rp = seen
  /\ SetHostIdx(rp) /\ iter' = iter + 1
  /\ pc' = IF iter' < Polls THEN "jwait" ELSE "joined"
  /\ seen' = 0
  /\ UNCHANGED <<chip, scanVars, dataVars, rp, waits, read, lapped>>

(* associate returns without a connection.                                 *)
JoinFails ==
  /\ pc = "joined"
  /\ pc' = "idle"
  /\ UNCHANGED <<chip, host, scanVars, dataVars, iter, rp, seen, waits, read, lapped>>

-----------------------------------------------------------------------------
(* startData takes the ring over at the chip's index, reduced to the ring; *)
(* the host's index stays where the join left it.  rxLoop reads the gain   *)
(* from the chip in its first pass.                                        *)
StartData(gain) ==
  /\ pc = "joined"
  /\ rp' = HwIdx % N /\ read' = sent /\ lapped' = 0
  /\ igi' = gain /\ rxStop' = FALSE /\ pc' = "rxloop"
  /\ UNCHANGED <<chip, host, scanVars, got, iter, seen, waits>>

(* A pass of rxLoop begins with one read of the chip's index.              *)
RxSnapshot ==
  /\ pc = "rxloop" /\ ~rxStop
  /\ seen' = HwIdx /\ got' = FALSE /\ pc' = "rxslots"
  /\ UNCHANGED <<chip, host, scanVars, rxStop, igi, iter, rp, waits, read, lapped>>

\* Mutant: the stop flag is tested once per pass.
MoreSlots_NoStop == rp # seen

MoreSlots == rp # seen /\ ~rxStop

(* A slot is dropped (CRC or ICV error, impossible length) or its frame    *)
(* goes to rxFrame, which Reorder models.                                  *)
RxSlot ==
  /\ pc = "rxslots" /\ MoreSlots
  /\ read' = ring[rp].id /\ rp' = Next1(rp) /\ got' = TRUE
  /\ UNCHANGED <<chip, host, scanVars, rxStop, igi, pc, iter, seen, waits, lapped>>

\* Mutant: the step by two is not capped.
NextGain_NoCap(fa) ==
  IF fa = "high" /\ igi < Cap THEN igi + 2
  ELSE IF fa = "some" /\ igi < Cap THEN igi + 1
  ELSE IF igi > Target THEN igi - 1
  ELSE IF igi < Target THEN igi + 1 ELSE igi

(* Gain control, every 2 s: many false alarms (more than 750, more than    *)
(* 250) raise the gain register, few let it drift to the target.           *)
NextGain(fa) ==
  LET step == IF fa = "high" /\ igi < Cap THEN igi + 2
              ELSE IF fa = "some" /\ igi < Cap THEN igi + 1
              ELSE IF igi > Target THEN igi - 1
              ELSE IF igi < Target THEN igi + 1 ELSE igi
  IN IF step > Cap THEN Cap ELSE step

(* The rest of the pass: the slots are released when there were any, and   *)
(* the gain is adjusted when it is time to.                                *)
RxPassEnd(fa) ==
  /\ pc = "rxslots" /\ ~MoreSlots
  /\ IF got THEN SetHostIdx(rp) ELSE UNCHANGED host
  /\ igi' = IF fa = "notdue" THEN igi ELSE NextGain(fa)
  /\ pc' = "rxloop" /\ seen' = 0 /\ got' = FALSE
  /\ UNCHANGED <<chip, scanVars, rxStop, iter, rp, waits, read, lapped>>

(* The thread leaves its loop and sets fRxDone.                            *)
RxDone ==
  /\ pc = "rxloop" /\ rxStop
  /\ pc' = "rxdone"
  /\ UNCHANGED <<chip, host, scanVars, dataVars, iter, rp, seen, waits, read, lapped>>

(* stopData, on the thread of a disconnect: it raises fRxStop ...          *)
StopData ==
  /\ pc \in {"rxloop", "rxslots"} /\ ~rxStop
  /\ rxStop' = TRUE
  /\ UNCHANGED <<chip, host, scanVars, got, igi, hostVars, lapped>>

(* ... and returns when fRxDone is set.  The thread that does not end      *)
(* within ten seconds is Kctl's.  The next connection sets all of the      *)
(* data path's state again.                                                *)
DataStopped ==
  /\ pc = "rxdone"
  /\ pc' = "idle" /\ rxStop' = FALSE /\ igi' = Target
  /\ UNCHANGED <<chip, host, scanVars, got, iter, rp, seen, waits, read, lapped>>

-----------------------------------------------------------------------------
ScanStep == Tune \/ Skip \/ Release \/ Snapshot \/ ParseSlot \/ DrainEnd

JoinStep ==
  \/ \E a \in AP : \E n \in FindBySsid(SsidOf[a]) : JoinSkip(n)
  \/ JoinSkipAgain \/ JoinRelease \/ JoinResume \/ JoinSnapshot
  \/ \E wanted \in BOOLEAN : JoinSlot(wanted)
  \/ JoinPollEnd \/ JoinFails

RxStep ==
  \/ RxSnapshot \/ RxSlot \/ RxDone \/ DataStopped
  \/ \E fa \in {"notdue", "low", "some", "high"} : RxPassEnd(fa)

(* The program between calls, when no frame and no call is left.           *)
Finished == pc = "idle" /\ scans = MaxScans /\ UNCHANGED vars

Next ==
  \/ \E a \in AP \cup {Junk} : Receive(a)
  \/ Die
  \/ \E chans \in Requests, ok \in BOOLEAN : Begin(chans, ok)
  \/ ScanStep
  \/ JoinStep
  \/ \E gain \in Gains : StartData(gain)
  \/ RxStep
  \/ StopData
  \/ Finished

Spec == Init /\ [][Next]_vars

(* A scan runs on its caller's thread and each of its waits is bounded;    *)
(* the RX thread is scheduled by the kernel.                               *)
FairSpec == Spec /\ WF_vars(ScanStep) /\ WF_vars(RxStep)

-----------------------------------------------------------------------------
(* Each loop parses every frame that arrived since it started reading      *)
(* exactly once and in the order of arrival, although the chip fills the   *)
(* ring meanwhile and one wait of the handshake resumes where the one      *)
(* before stopped (recv_eapol's "do NOT snap to the live hw index"): the   *)
(* loop skips no slot, reads none twice and hands none back unread, as     *)
(* long as the chip has not gone past the host's index since.  What a dead *)
(* device's index makes the loops read is left out.                        *)
EachFrameOnce ==
  [][rp' # rp /\ pc \in {"drain", "jdrain", "rxslots"} /\ seen \in Slots /\ lapped = 0
       => read' = read + 1]_vars

(* What find_by_ssid gives to associate is the BSSID of an access point of *)
(* that network and a channel on which that access point was received in   *)
(* this call, whatever was still in the ring when the radio was retuned,   *)
(* and whether or not the chip laps the host.                              *)
FoundWhereHeard ==
  ~dead => \A a \in AP : \A n \in FindBySsid(SsidOf[a]) :
             SsidOf[n.bssid] = SsidOf[a] /\ <<n.bssid, n.channel>> \in heard

(* The access points in the list, and those heard in this call.            *)
listedAps == {nets[i].bssid : i \in DOMAIN nets}
heardAps  == {p[1] : p \in heard}

(* The list has one entry per access point heard in this call and misses   *)
(* an access point only when g_nets is full; nothing of an earlier scan is *)
(* in it.                                                                  *)
ListIsWhatWasHeard ==
  /\ IsInjective([i \in DOMAIN nets |-> nets[i].bssid])
  /\ listedAps \subseteq heardAps
  /\ Cardinality(heardAps) <= NetsMax => listedAps = heardAps
  /\ Cardinality(heardAps) > NetsMax => Len(nets) = NetsMax

(* scan_networks returns, and with it the control lock it is called under  *)
(* is released, whatever the chip receives meanwhile.  A device that dies  *)
(* between the skip and a drain is excepted: its index never meets the     *)
(* read pointer.                                                           *)
ScanEnds == pc \in {"tune", "skip", "release", "wait", "drain"} ~> (pc = "idle" \/ dead)

(* stopData's wait for the RX thread ends, even when the device died and   *)
(* its index never meets the read pointer ("It tests fRxStop every pass    *)
(* [...] so this resolves within one poll iteration").                     *)
RxStops == rxStop /\ pc \in {"rxloop", "rxslots"} ~> pc = "idle"

(* Whatever gain the AGC tables left and whatever false alarms are         *)
(* counted, what rxLoop writes is at most Cap, and from within             *)
(* Target .. Cap it stays there ("Self-correcting + bounded, so a wrong    *)
(* start can't run away").                                                 *)
GainInRange ==
  [][pc = "rxslots" /\ igi' # igi
       => igi' <= Cap /\ (igi \in Target .. Cap => igi' >= Target)]_vars

(* The RX thread's comment: "drain the HW RX ring, deliver frames": a full *)
(* ring does not stay full while the data path runs.                       *)
RingIsReleased ==
  pc \in {"rxloop", "rxslots"} /\ Next1(hw) = host
    ~> (Next1(hw) # host \/ rxStop \/ dead)
=============================================================================
