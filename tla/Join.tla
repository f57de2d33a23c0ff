-------------------------------- MODULE Join --------------------------------
(***************************************************************************)
(* Joining a network: authentication and association (core/assoc.c) and    *)
(* the WPA2 4-way handshake (core/wpa.c), against an access point, over a  *)
(* channel that loses frames, and through an RX ring whose contents the    *)
(* station skips whenever it snaps its read index to the chip's.           *)
(*                                                                         *)
(* A pairwise key is named by the ANonce it was derived from; 0 is a key   *)
(* the access point does not share.  A frame carries only the fields that  *)
(* either side looks at.  One silence stands for 500 ms.                   *)
(***************************************************************************)
EXTENDS Integers, Sequences

CONSTANTS
  AuthTries, AssocTries,   \* 6 and 6
  M1Wait,        \* silences until "no EAPOL M1 received" (4)
  MaxTimeouts,   \* silences that the M3 loop may spend (8)
  MaxIters,      \* iterations of the M3 loop (30)
  M4Window,      \* retransmitted M3s that are answered (3)
  ApRetries,     \* how often the access point repeats M1 and M3
  Passphrases,   \* subset of {"right", "wrong", "none"}
  FaultModes,    \* the sets of faults a join may meet: "reject": the access
                 \* point turns us down; "nogtk": an M3 without a usable GTK;
                 \* "noise": an EAPOL-Key frame whose MIC is under another
                 \* key; "untimed": either side may be slow, so that answers
                 \* come after their deadlines
  MaxLoss,       \* bound: frames lost
  MaxSess        \* bound: associations the access point starts

ASSUME JoinConstants ==
  /\ {AuthTries, AssocTries, M1Wait, MaxTimeouts, MaxIters, M4Window} \subseteq Nat \ {0}
  /\ {ApRetries, MaxLoss, MaxSess} \subseteq Nat
  /\ Passphrases \subseteq {"right", "wrong", "none"}

VARIABLES
  pc,               \* the station: the step of associate or wpa_handshake
  pass,
  faults,           \* of FaultModes
  t,                \* the loop counter of the retries and of the M4 window
  timeouts, iters,
  replay, anonce, g_gtk, g_gtk_len, g_wpa_done, rc,
  cam,              \* the keys install_keys wrote
  ap, apSess, apCtr, apTry,   \* the access point: state, ANonce, replay
                    \* counter, repetitions of the message it waits on
  up, air, ring,    \* frames to the access point, to us, in our RX ring
  quiet,            \* silences since the access point's latest message
  losses

link  == <<up, air, ring, quiet, losses>>
apVars == <<ap, apSess, apCtr, apTry>>
keys  == <<replay, anonce, g_gtk, g_gtk_len>>
loop  == <<t, timeouts, iters>>
out   == <<g_wpa_done, rc, cam>>
vars == <<pc, pass, faults, loop, keys, out, apVars, link>>

Frame(kind, n, ctr, key) == [kind |-> kind, n |-> n, ctr |-> ctr, key |-> key]
Kinds == {"auth", "assoc", "reject", "m1", "m2", "m3", "m3bare", "m4", "noise"}
FrameSet == [kind : Kinds, n : 0 .. MaxSess, ctr : Nat, key : -1 .. MaxSess]
NoKeys == [tk |-> 0, gtk |-> 0]

(* A length left by an earlier handshake may still be there; the key       *)
(* itself was wiped.                                                       *)
Init ==
  /\ pc = "auth" /\ pass \in Passphrases /\ faults \in FaultModes
  /\ t = 0 /\ timeouts = 0 /\ iters = 0
  /\ replay = 0 /\ anonce = 0 /\ g_gtk = 0 /\ g_gtk_len \in {0, 16}
  /\ g_wpa_done = 0 /\ rc = 0 /\ cam = NoKeys
  /\ ap = "idle" /\ apSess = 0 /\ apCtr = 0 /\ apTry = 0
  /\ up = <<>> /\ air = <<>> /\ ring = <<>> /\ quiet = 0 /\ losses = 0
-----------------------------------------------------------------------------
Untimed == "untimed" \in faults

(* The access point.                                                       *)

Answer(frames) == air' = air \o frames /\ quiet' = 0

ApOf(kind, n, ctr) ==
  Frame(kind, n, ctr, IF kind \in {"m3", "m3bare"} THEN n ELSE 0)

M3Kind == {"m3"} \cup (IF "nogtk" \in faults THEN {"m3bare"} ELSE {})

(* It answers authentication and association requests, not before a prompt *)
(* station has snapped its read index; an association starts a handshake   *)
(* with a fresh ANonce.  It takes an M2 or an M4 only with its latest      *)
(* replay counter and a MIC under its own key.                             *)
ApRecv ==
  /\ up # <<>> /\ (pc \notin {"authsnap", "assocsnap"} \/ Untimed)
  /\ up' = Tail(up)
  /\ LET f == Head(up) IN
     \/ /\ f.kind = "auth"
        /\ \/ Answer(<<Frame("auth", 0, 0, 0)>>)
           \/ "reject" \in faults /\ Answer(<<Frame("reject", 0, 0, 0)>>)
        /\ UNCHANGED apVars
     \/ /\ f.kind = "assoc"
        /\ \/ /\ apSess < MaxSess
              /\ ap' = "m1" /\ apSess' = apSess + 1 /\ apCtr' = apCtr + 1 /\ apTry' = 0
              /\ Answer(<<Frame("assoc", 0, 0, 0), ApOf("m1", apSess', apCtr')>>)
           \/ /\ "reject" \in faults
              /\ Answer(<<Frame("reject", 0, 0, 0)>>)
              /\ UNCHANGED apVars
     \/ /\ f.kind = "m2" /\ ap = "m1" /\ f.ctr = apCtr /\ f.key = apSess
        /\ ap' = "m3" /\ apCtr' = apCtr + 1 /\ apTry' = 0
        /\ \E k \in M3Kind : Answer(<<ApOf(k, apSess, apCtr')>>)
        /\ UNCHANGED apSess
     \/ /\ f.kind = "m4" /\ ap = "m3" /\ f.ctr = apCtr /\ f.key = apSess
        /\ ap' = "open"
        /\ UNCHANGED <<apSess, apCtr, apTry, air, quiet>>
     \/ /\ f.kind \in {"m2", "m4"}
        /\ ~(ap = (IF f.kind = "m2" THEN "m1" ELSE "m3") /\ f.ctr = apCtr /\ f.key = apSess)
        /\ UNCHANGED <<apVars, air, quiet>>
  /\ UNCHANGED <<pc, pass, faults, loop, keys, out, ring, losses>>

(* It repeats an unanswered message with a new replay counter: soon the    *)
(* first time, but not before a prompt station has read its ring and       *)
(* computed its PMK, and after a second from then on.                      *)
ApDue ==
  /\ ap \in {"m1", "m3"} /\ apTry < ApRetries
  /\ quiet >= IF apTry = 0 THEN 0 ELSE 2

ApRetry ==
  /\ ApDue /\ up = <<>> /\ air = <<>>
  /\ (pc # "pbkdf2" /\ ring = <<>>) \/ Untimed
  /\ apTry' = apTry + 1 /\ apCtr' = apCtr + 1
  /\ \E k \in IF ap = "m1" THEN {"m1"} ELSE M3Kind : Answer(<<ApOf(k, apSess, apCtr')>>)
  /\ UNCHANGED <<pc, pass, faults, loop, keys, out, ap, apSess, up, ring, losses>>

(* A frame on its way to us reaches the ring, or a frame is lost.          *)
Arrive ==
  /\ air # <<>>
  /\ air' = Tail(air) /\ ring' = Append(ring, Head(air))
  /\ UNCHANGED <<pc, pass, faults, loop, keys, out, apVars, up, quiet, losses>>

Lose ==
  /\ losses < MaxLoss /\ losses' = losses + 1
  /\ \/ air # <<>> /\ air' = Tail(air) /\ UNCHANGED up
     \/ up # <<>> /\ up' = Tail(up) /\ UNCHANGED air
  /\ UNCHANGED <<pc, pass, faults, loop, keys, out, apVars, ring, quiet>>

Noise ==
  /\ "noise" \in faults /\ losses < MaxLoss /\ losses' = losses + 1
  /\ ring' = Append(ring, Frame("noise", 0, apCtr, -1))
  /\ UNCHANGED <<pc, pass, faults, loop, keys, out, apVars, up, air, quiet>>
-----------------------------------------------------------------------------
(* The station.                                                            *)

(* The KCK and TK derive_ptk gives for an ANonce.                          *)
Ptk(n) == IF pass = "right" THEN n ELSE 0

Send(f) == up' = Append(up, f)

Finish(r) == pc' = "done" /\ rc' = r /\ UNCHANGED <<g_wpa_done, cam>>

(* Nothing more comes before the deadline.                                 *)
Silent == ring = <<>> /\ (Untimed \/ (up = <<>> /\ air = <<>> /\ ~ApDue))
Pause == quiet' = IF quiet < 2 THEN quiet + 1 ELSE 2

(* associate sends a request; wait_mgmt_resp then snaps the read index.    *)
SendRequest ==
  /\ pc \in {"auth", "assoc"}
  /\ Send(Frame(pc, 0, 0, 0))
  /\ pc' = (IF pc = "auth" THEN "authsnap" ELSE "assocsnap") /\ t' = t + 1
  /\ UNCHANGED <<pass, faults, timeouts, iters, keys, out, apVars, air, ring, quiet, losses>>

(* The snaps: every frame already in the ring is skipped.  wpa_handshake   *)
(* resets the group key and snaps after PBKDF2.                            *)
Snap ==
  /\ \/ pc = "authsnap" /\ pc' = "authwait" /\ UNCHANGED <<t, g_gtk, g_gtk_len>>
     \/ pc = "assocsnap" /\ pc' = "assocwait" /\ UNCHANGED <<t, g_gtk, g_gtk_len>>
     \/ pc = "pbkdf2" /\ pc' = "m1" /\ t' = 0 /\ g_gtk' = 0 /\ g_gtk_len' = 0
  /\ ring' = <<>>
  /\ UNCHANGED <<pass, faults, timeouts, iters, replay, anonce, out, apVars, up, air, quiet, losses>>

Read(kinds) == ring # <<>> /\ Head(ring).kind \in kinds /\ ring' = Tail(ring)

(* wait_mgmt_resp has found a response.  The associated station goes on to *)
(* the handshake, or only listens if it has no passphrase.                 *)
Response ==
  /\ \/ /\ pc = "authwait" /\ Read({"auth"})
        /\ pc' = "assoc" /\ t' = 0 /\ UNCHANGED out
     \/ /\ pc = "assocwait" /\ Read({"assoc"})
        /\ pc' = IF pass = "none" THEN "listen" ELSE "pbkdf2"
        /\ UNCHANGED <<t, out>>
     \/ /\ pc \in {"authwait", "assocwait"} /\ Read({"reject"})
        /\ Finish(IF pc = "authwait" THEN -1 ELSE -2)
        /\ UNCHANGED t
  /\ UNCHANGED <<pass, faults, timeouts, iters, keys, apVars, up, air, quiet, losses>>

(* A frame that the current wait does not look at.                         *)
Skip ==
  /\ \/ pc = "authwait" /\ Read(Kinds \ {"auth", "reject"})
     \/ pc = "assocwait" /\ Read(Kinds \ {"assoc", "reject"})
     \/ pc \in {"m1", "m3", "m4"} /\ Read({"auth", "assoc", "reject"})
  /\ UNCHANGED <<pc, pass, faults, loop, keys, out, apVars, up, air, quiet, losses>>

\* Mutant: a request is repeated for ever.
NoResponse_Endless ==
  /\ pc \in {"authwait", "assocwait"} /\ Silent /\ Pause
  /\ pc' = (IF pc = "authwait" THEN "auth" ELSE "assoc") /\ t' = 0
  /\ UNCHANGED <<pass, faults, timeouts, iters, keys, out, apVars, up, air, ring, losses>>

(* No response in time: the next try, or give up.                          *)
NoResponse ==
  /\ pc \in {"authwait", "assocwait"} /\ Silent /\ Pause
  /\ IF t < (IF pc = "authwait" THEN AuthTries ELSE AssocTries)
       THEN pc' = (IF pc = "authwait" THEN "auth" ELSE "assoc") /\ UNCHANGED out
       ELSE Finish(IF pc = "authwait" THEN -1 ELSE -3)
  /\ UNCHANGED <<pass, faults, loop, keys, apVars, up, air, ring, losses>>

(* listen_eapol changes nothing.                                           *)
listen_eapol ==
  /\ pc = "listen"
  /\ Finish(0)
  /\ ring' = <<>>
  /\ UNCHANGED <<pass, faults, loop, keys, apVars, up, air, quiet, losses>>

M2 == Frame("m2", 0, replay', Ptk(anonce'))

(* The first EAPOL-Key frame, whichever it is, counts as M1.               *)
RecvM1 ==
  /\ pc = "m1" /\ Read({"m1", "m3", "m3bare", "noise"})
  /\ replay' = Head(ring).ctr /\ anonce' = Head(ring).n
  /\ Send(M2)
  /\ pc' = "m3" /\ timeouts' = 0 /\ iters' = 0
  /\ UNCHANGED <<pass, faults, t, g_gtk, g_gtk_len, out, apVars, air, quiet, losses>>

NoM1 ==
  /\ pc = "m1" /\ Silent /\ Pause
  /\ t' = t + 1
  /\ IF t + 1 < M1Wait THEN UNCHANGED <<pc, out>> ELSE Finish(-2)
  /\ UNCHANGED <<pass, faults, timeouts, iters, keys, apVars, up, air, ring, losses>>

(* The M3 loop bounds the silences and all iterations.                     *)
MoreM3 == timeouts < MaxTimeouts /\ iters < MaxIters

\* Mutant: a repeated M1 is answered with the counter of the first one.
RepeatedM1_OldCounter ==
  /\ pc = "m3" /\ MoreM3 /\ Read({"m1"})
  /\ iters' = iters + 1
  /\ UNCHANGED <<replay, anonce>>
  /\ Send(M2)
  /\ UNCHANGED <<pc, pass, faults, t, timeouts, g_gtk, g_gtk_len, out, apVars, air, quiet, losses>>

(* An M1 in the M3 loop: M2 again, with this M1's replay counter.          *)
RepeatedM1 ==
  /\ pc = "m3" /\ MoreM3 /\ Read({"m1"})
  /\ iters' = iters + 1
  /\ replay' = Head(ring).ctr
  /\ UNCHANGED anonce
  /\ Send(M2)
  /\ UNCHANGED <<pc, pass, faults, t, timeouts, g_gtk, g_gtk_len, out, apVars, air, quiet, losses>>

(* A silence in the M3 loop: the latest M2 again.                          *)
NoM3 ==
  /\ pc = "m3" /\ MoreM3 /\ Silent /\ Pause
  /\ iters' = iters + 1 /\ timeouts' = timeouts + 1
  /\ UNCHANGED <<replay, anonce>>
  /\ Send(M2)
  /\ UNCHANGED <<pc, pass, faults, t, g_gtk, g_gtk_len, out, apVars, air, ring, losses>>

(* The MIC of an EAPOL-Key frame is the one under our KCK.                 *)
MicOk(f) == f.key = Ptk(anonce) /\ f.key # 0

(* A MIC that is not ours.                                                 *)
BadMic ==
  /\ pc = "m3" /\ MoreM3 /\ Read({"m3", "m3bare", "noise"}) /\ ~MicOk(Head(ring))
  /\ iters' = iters + 1
  /\ UNCHANGED <<pc, pass, faults, t, timeouts, keys, out, apVars, up, air, quiet, losses>>

M4 == Frame("m4", 0, replay', Ptk(anonce))

\* Mutant: a handshake whose M3 has no usable GTK goes on.
RecvM3_NoGtk ==
  /\ pc = "m3" /\ MoreM3 /\ Read({"m3", "m3bare", "noise"}) /\ MicOk(Head(ring))
  /\ iters' = iters + 1 /\ replay' = Head(ring).ctr
  /\ g_gtk' = (IF Head(ring).kind = "m3" THEN 1 ELSE 0) /\ g_gtk_len' = 16
  /\ Send(M4) /\ pc' = "m4" /\ t' = 0
  /\ UNCHANGED <<pass, faults, timeouts, anonce, out, apVars, air, quiet, losses>>

(* The verified M3: extract_gtk, then M4.  Without a GTK the handshake     *)
(* fails.                                                                  *)
RecvM3 ==
  /\ pc = "m3" /\ MoreM3 /\ Read({"m3", "m3bare", "noise"}) /\ MicOk(Head(ring))
  /\ iters' = iters + 1 /\ replay' = Head(ring).ctr
  /\ \/ /\ Head(ring).kind = "m3"
        /\ g_gtk' = 1 /\ g_gtk_len' = 16
        /\ Send(M4) /\ pc' = "m4" /\ t' = 0
        /\ UNCHANGED out
     \/ /\ Head(ring).kind # "m3"
        /\ Finish(-5)
        /\ UNCHANGED <<g_gtk, g_gtk_len, up, t>>
  /\ UNCHANGED <<pass, faults, timeouts, anonce, apVars, air, quiet, losses>>

NoValidM3 ==
  /\ pc = "m3" /\ ~MoreM3
  /\ Finish(-4)
  /\ UNCHANGED <<pass, faults, loop, keys, apVars, link>>

(* The window after M4: a repeated M3 gets another M4.                     *)
Window ==
  /\ pc = "m4" /\ t < M4Window /\ Read({"m1", "m3", "m3bare", "noise"})
  /\ t' = t + 1
  /\ LET f == Head(ring) IN
     \/ f.kind # "m1" /\ MicOk(f) /\ replay' = f.ctr /\ Send(M4)
     \/ ~(f.kind # "m1" /\ MicOk(f)) /\ UNCHANGED <<replay, up>>
  /\ UNCHANGED <<pc, pass, faults, timeouts, iters, anonce, g_gtk, g_gtk_len, out, apVars, air, quiet, losses>>

(* install_keys: the pairwise key, and the group key if there is one.      *)
install_keys == [tk |-> Ptk(anonce), gtk |-> IF g_gtk_len >= 16 THEN g_gtk ELSE 0]

(* The window closes: install_keys, and the caller goes on to              *)
(* media_connect.                                                          *)
Complete ==
  /\ pc = "m4" /\ (t = M4Window \/ ring = <<>>)
  /\ g_wpa_done' = 1
  /\ cam' = install_keys
  /\ pc' = "done"
  /\ UNCHANGED <<pass, faults, loop, keys, rc, apVars, link>>

Station ==
  \/ SendRequest \/ Snap \/ Response \/ Skip \/ NoResponse \/ listen_eapol
  \/ RecvM1 \/ NoM1 \/ RepeatedM1 \/ NoM3 \/ BadMic \/ RecvM3 \/ NoValidM3
  \/ Window \/ Complete

Air == ApRecv \/ ApRetry \/ Arrive \/ Lose \/ Noise

Next == Station \/ Air

Spec == Init /\ [][Next]_vars

(* The station's loops run on a clock; frames in the air arrive or are     *)
(* lost, and requests are answered or ignored.                             *)
FairSpec == Spec /\ WF_vars(Station) /\ WF_vars(Air)
-----------------------------------------------------------------------------
(* A completed handshake has installed the pairwise key of the access      *)
(* point's current session and its group key, and the access point opens   *)
(* its port only for a station that has that key.                          *)
KeysAgree ==
  /\ g_wpa_done = 1 => pass = "right" /\ cam = [tk |-> apSess, gtk |-> 1]
  /\ ap = "open" => anonce = apSess /\ g_gtk = 1

(* One lost frame, besides the M1 that the station skips while it computes *)
(* the PMK, does not fail a join with the right passphrase at a prompt     *)
(* access point that accepts us.                                           *)
SurvivesLoss == pass = "right" /\ faults = {} => rc = 0

(* However the frames are lost, late or wrong, the join ends.              *)
JoinEnds == <>(pc = "done")
=============================================================================
