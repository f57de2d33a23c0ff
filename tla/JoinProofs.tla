----------------------------- MODULE JoinProofs -----------------------------
(***************************************************************************)
(* Proofs about the join, for any retry limits, losses, delays, faults and *)
(* number of associations.                                                 *)
(***************************************************************************)
EXTENDS Join, SequenceTheorems, TLAPS

(* The frames in a queue.                                                  *)
Items(q) == {q[i] : i \in 1 .. Len(q)}

PreAssoc == {"auth", "authsnap", "authwait", "assoc", "assocsnap", "assocwait"}
Steps == PreAssoc \cup {"listen", "pbkdf2", "m1", "m3", "m4", "done"}

(* No association request follows an M2 or an M4 in the queue.             *)
Ordered(q) ==
  \A i, j \in 1 .. Len(q) : i < j /\ q[i].kind \in {"m2", "m4"} => q[j].kind # "assoc"

JoinTypes ==
  /\ pc \in Steps /\ pass \in {"right", "wrong", "none"}
  /\ up \in Seq(FrameSet) /\ air \in Seq(FrameSet) /\ ring \in Seq(FrameSet)
  /\ ap \in {"idle", "m1", "m3", "open"}
  /\ apSess \in 0 .. MaxSess /\ apCtr \in Nat
  /\ replay \in Nat /\ anonce \in 0 .. MaxSess

(* The station sends no association request any more, and none is on its   *)
(* way: the access point's session, and with it its ANonce, is settled.    *)
NoMoreAssoc ==
  pc \notin PreAssoc /\ \A f \in Items(up) : f.kind # "assoc"

M3s == {f \in Items(air) \cup Items(ring) : f.kind \in {"m3", "m3bare"}}
M4s == {f \in Items(up) : f.kind = "m4"}

(* Somebody has seen a proof that the other side has the key.              *)
Proven ==
  \/ ap \in {"m3", "open"} \/ pc = "m4" \/ g_wpa_done = 1
  \/ M3s # {} \/ M4s # {}

(* Requests are only sent before the handshake, and queues keep their      *)
(* order.                                                                  *)
OrderInv ==
  /\ Ordered(up)
  /\ pc \in PreAssoc => \A f \in Items(up) : f.kind \in {"auth", "assoc"}

(* What a MIC on its way to us or from us proves.                          *)
MicInv ==
  /\ ap # "idle" => apSess > 0
  /\ \A f \in Items(air) \cup Items(ring) :
       f.key = IF f.kind \in {"m3", "m3bare"} THEN apSess
               ELSE IF f.kind = "noise" THEN -1 ELSE 0
  /\ \A f \in Items(up) : f.kind = "m2" /\ f.key # 0 => pass = "right"

ProvenInv == Proven => NoMoreAssoc /\ pass = "right" /\ apSess > 0

(* The keys of a station that has sent M4.                                 *)
KeyInv ==
  /\ pc = "m4" \/ M4s # {} \/ ap = "open" =>
       pc \in {"m4", "done"} /\ anonce = apSess /\ g_gtk = 1 /\ g_gtk_len = 16
  /\ g_wpa_done = 1 => pc = "done" /\ cam = [tk |-> apSess, gtk |-> 1]

JInv == JoinTypes /\ OrderInv /\ MicInv /\ ProvenInv /\ KeyInv
-----------------------------------------------------------------------------
(* The frames of a queue that grows at its end, shrinks at its head, or    *)
(* takes one or two frames.                                                *)
LEMMA ItemsAppend ==
  ASSUME NEW S, NEW q \in Seq(S), NEW e \in S
  PROVE  Append(q, e) \in Seq(S) /\ Items(Append(q, e)) = Items(q) \cup {e}
  <1>1. /\ Append(q, e) \in Seq(S) /\ Len(Append(q, e)) = Len(q) + 1
        /\ \A i \in 1 .. Len(q) : Append(q, e)[i] = q[i]
        /\ Append(q, e)[Len(q) + 1] = e /\ Len(q) \in Nat
    BY AppendProperties, LenProperties
  <1>2. Items(Append(q, e)) \subseteq Items(q) \cup {e}
    BY <1>1 DEF Items
  <1>3. ASSUME NEW f \in Items(q) PROVE f \in Items(Append(q, e))
    <2>1. PICK i \in 1 .. Len(q) : f = q[i]
      BY DEF Items
    <2>2. i \in 1 .. Len(Append(q, e)) /\ f = Append(q, e)[i]
      BY <1>1, <2>1
    <2>. QED BY <2>2 DEF Items
  <1>4. e \in Items(Append(q, e))
    <2>1. Len(q) + 1 \in 1 .. Len(Append(q, e))
      BY <1>1
    <2>. QED BY <1>1, <2>1 DEF Items
  <1>. QED BY <1>1, <1>2, <1>3, <1>4

(* The same for the tail of a queue.                                       *)
LEMMA ItemsTail ==
  ASSUME NEW S, NEW q \in Seq(S), q # <<>>
  PROVE  /\ Tail(q) \in Seq(S) /\ Items(Tail(q)) \subseteq Items(q)
         /\ Head(q) \in Items(q) /\ Head(q) \in S
  <1>1. /\ Tail(q) \in Seq(S) /\ Len(Tail(q)) = Len(q) - 1 /\ Head(q) \in S
        /\ \A i \in 1 .. Len(Tail(q)) : Tail(q)[i] = q[i + 1]
        /\ Len(q) \in Nat /\ Len(q) > 0 /\ Head(q) = q[1]
    BY HeadTailProperties, EmptySeq, LenProperties
  <1>2. Head(q) \in Items(q)
    BY <1>1 DEF Items
  <1>3. ASSUME NEW f \in Items(Tail(q)) PROVE f \in Items(q)
    <2>1. PICK i \in 1 .. Len(Tail(q)) : f = Tail(q)[i]
      BY DEF Items
    <2>2. i + 1 \in 1 .. Len(q) /\ f = q[i + 1]
      BY <1>1, <2>1
    <2>. QED BY <2>2 DEF Items
  <1>. QED BY <1>1, <1>2, <1>3

(* The same for frames the access point adds.                              *)
LEMMA ItemsConcat ==
  ASSUME NEW S, NEW q \in Seq(S), NEW r \in Seq(S)
  PROVE  q \o r \in Seq(S) /\ Items(q \o r) \subseteq Items(q) \cup Items(r)
  <1>1. /\ q \o r \in Seq(S) /\ Len(q \o r) = Len(q) + Len(r)
        /\ \A i \in 1 .. Len(q) + Len(r) :
             (q \o r)[i] = IF i <= Len(q) THEN q[i] ELSE r[i - Len(q)]
        /\ Len(q) \in Nat /\ Len(r) \in Nat
    BY ConcatProperties, LenProperties
  <1>2. ASSUME NEW f \in Items(q \o r) PROVE f \in Items(q) \cup Items(r)
    <2>1. PICK i \in 1 .. Len(q) + Len(r) : f = (q \o r)[i]
      BY <1>1 DEF Items
    <2>2. CASE i <= Len(q)
      BY <1>1, <2>1, <2>2 DEF Items
    <2>3. CASE i > Len(q)
      <3>1. i - Len(q) \in 1 .. Len(r) /\ f = r[i - Len(q)]
        BY <1>1, <2>1, <2>3
      <3>. QED BY <3>1 DEF Items
    <2>. QED BY <1>1, <2>2, <2>3
  <1>. QED BY <1>1, <1>2

(* Sequences of no, one and two frames.                                    *)
LEMMA ItemsShort ==
  ASSUME NEW S, NEW e \in S, NEW g \in S
  PROVE  /\ <<>> \in Seq(S) /\ Items(<<>>) = {}
         /\ <<e>> \in Seq(S) /\ Items(<<e>>) = {e}
         /\ <<e, g>> \in Seq(S) /\ Items(<<e, g>>) = {e, g}
  <1>1. Items(<<>>) = {}
    BY DEF Items
  <1>2. Items(<<e>>) = {e}
    BY DEF Items
  <1>3. Items(<<e, g>>) = {e, g}
    BY DEF Items
  <1>. QED BY <1>1, <1>2, <1>3

(* An M2 or M4 goes to the end of the queue, a request only behind other   *)
(* requests.                                                               *)
LEMMA OrderedAppend ==
  ASSUME NEW S, NEW q \in Seq(S), NEW e \in S, Ordered(q),
         e.kind # "assoc" \/ \A f \in Items(q) : f.kind \in {"auth", "assoc"}
  PROVE  Ordered(Append(q, e))
  <1>1. /\ Len(Append(q, e)) = Len(q) + 1 /\ Len(q) \in Nat
        /\ \A i \in 1 .. Len(q) : Append(q, e)[i] = q[i]
        /\ Append(q, e)[Len(q) + 1] = e
    BY AppendProperties, LenProperties
  <1>2. SUFFICES ASSUME NEW i \in 1 .. Len(q) + 1, NEW j \in 1 .. Len(q) + 1, i < j,
                        Append(q, e)[i].kind \in {"m2", "m4"}
                 PROVE  Append(q, e)[j].kind # "assoc"
    BY <1>1 DEF Ordered
  <1>3. i \in 1 .. Len(q) /\ q[i].kind \in {"m2", "m4"} /\ q[i] \in Items(q)
    BY <1>1, <1>2 DEF Items
  <1>4. CASE j \in 1 .. Len(q)
    BY <1>1, <1>2, <1>3, <1>4 DEF Ordered
  <1>5. CASE j = Len(q) + 1
    BY <1>1, <1>3, <1>5
  <1>. QED BY <1>1, <1>4, <1>5

(* Taking the head off keeps the order, and behind an M2 or M4 there is no *)
(* request.                                                                *)
LEMMA OrderedTail ==
  ASSUME NEW S, NEW q \in Seq(S), q # <<>>, Ordered(q)
  PROVE  /\ Ordered(Tail(q))
         /\ Head(q).kind \in {"m2", "m4"} => \A f \in Items(Tail(q)) : f.kind # "assoc"
  <1>1. /\ Len(Tail(q)) = Len(q) - 1 /\ Len(q) \in Nat /\ Len(q) > 0 /\ Head(q) = q[1]
        /\ \A i \in 1 .. Len(Tail(q)) : Tail(q)[i] = q[i + 1] /\ i + 1 \in 1 .. Len(q)
    <2>1. Len(q) \in Nat /\ Len(q) > 0 /\ Head(q) = q[1]
      BY EmptySeq, LenProperties
    <2>2. Len(Tail(q)) = Len(q) - 1 /\ \A i \in 1 .. Len(Tail(q)) : Tail(q)[i] = q[i + 1]
      BY HeadTailProperties
    <2>. QED BY <2>1, <2>2
  <1>2. ASSUME NEW i \in 1 .. Len(Tail(q)), NEW j \in 1 .. Len(Tail(q)), i < j,
               Tail(q)[i].kind \in {"m2", "m4"}
        PROVE  Tail(q)[j].kind # "assoc"
    <2>1. q[i + 1].kind \in {"m2", "m4"} /\ i + 1 < j + 1
      BY <1>1, <1>2
    <2>2. q[j + 1].kind # "assoc"
      BY <1>1, <2>1 DEF Ordered
    <2>. QED BY <1>1, <2>2
  <1>3. ASSUME Head(q).kind \in {"m2", "m4"}, NEW i \in 1 .. Len(Tail(q))
        PROVE  Tail(q)[i].kind # "assoc"
    <2>1. 1 \in 1 .. Len(q) /\ 1 < i + 1 /\ q[1].kind \in {"m2", "m4"}
      BY <1>1, <1>3
    <2>2. q[i + 1].kind # "assoc"
      BY <1>1, <2>1 DEF Ordered
    <2>. QED BY <1>1, <2>2
  <1>4. Ordered(Tail(q))
    BY <1>2 DEF Ordered
  <1>. QED BY <1>3, <1>4 DEF Items
-----------------------------------------------------------------------------
(* A step of the station that sends nothing.                               *)
LEMMA StationQuiet ==
  ASSUME JInv, UNCHANGED <<pass, ap, apSess, air, up>>,
         Items(ring') \subseteq Items(ring),
         pc' \in PreAssoc => pc \in PreAssoc
  PROVE  OrderInv' /\ MicInv' /\ M3s' \subseteq M3s /\ M4s' = M4s
  <1>1. OrderInv' /\ M3s' \subseteq M3s /\ M4s' = M4s
    BY DEF JInv, OrderInv, M3s, M4s
  <1>2. MicInv'
    BY DEF JInv, MicInv
  <1>. QED BY <1>1, <1>2

(* A step of the station that sends frame e.                               *)
LEMMA StationSends ==
  ASSUME JInv, NEW e \in FrameSet, UNCHANGED <<pass, ap, apSess, air>>,
         up' = Append(up, e), Items(ring') \subseteq Items(ring),
         \/ pc \in PreAssoc /\ e.kind \in {"auth", "assoc"}
         \/ pc' \notin PreAssoc /\ e.kind \in {"m2", "m4"},
         pc' \in PreAssoc => pc \in PreAssoc,
         e.kind = "m2" /\ e.key # 0 => pass = "right"
  PROVE  /\ OrderInv' /\ MicInv' /\ M3s' \subseteq M3s
         /\ M4s' \subseteq M4s \cup {e} /\ (e.kind # "m4" => M4s' \subseteq M4s)
         /\ up' \in Seq(FrameSet) /\ Items(up') = Items(up) \cup {e}
  <1>1. up' \in Seq(FrameSet) /\ Items(up') = Items(up) \cup {e}
    BY ItemsAppend DEF JInv, JoinTypes
  <1>2. Ordered(up')
    BY OrderedAppend DEF JInv, JoinTypes, OrderInv
  <1>3. OrderInv'
    BY <1>1, <1>2 DEF JInv, OrderInv
  <1>4. MicInv'
    BY <1>1 DEF JInv, MicInv
  <1>5. /\ M3s' \subseteq M3s /\ M4s' \subseteq M4s \cup {e}
        /\ (e.kind # "m4" => M4s' \subseteq M4s)
    BY <1>1 DEF M3s, M4s
  <1>. QED BY <1>1, <1>3, <1>4, <1>5

(* A proof of the key settles the session: no request comes after it.      *)
LEMMA ProvenKeeps ==
  ASSUME JInv, Proven' => Proven, UNCHANGED <<pass, apSess>>,
         pc' \in PreAssoc => pc \in PreAssoc,
         \A f \in Items(up') : f \in Items(up) \/ f.kind # "assoc" \/ pc \in PreAssoc
  PROVE  ProvenInv'
  BY DEF JInv, ProvenInv, NoMoreAssoc

(* A frame whose MIC is ours is an M3 of the current session.              *)
LEMMA MicProves ==
  ASSUME JInv, ring # <<>>, MicOk(Head(ring))
  PROVE  /\ Head(ring).kind \in {"m3", "m3bare"} /\ Head(ring) \in M3s
         /\ anonce = apSess /\ pass = "right" /\ Proven
  <1>1. Head(ring) \in Items(ring) /\ Head(ring) \in FrameSet
    BY ItemsTail DEF JInv, JoinTypes
  <1>2. Ptk(anonce) \in Nat
    BY DEF Ptk, JInv, JoinTypes
  <1>3. Head(ring).key = Ptk(anonce) /\ Head(ring).key # 0
    BY DEF MicOk
  <1>4. Head(ring).kind \in {"m3", "m3bare"} /\ Head(ring).key = apSess
    BY <1>1, <1>2, <1>3 DEF JInv, MicInv
  <1>5. pass = "right" /\ anonce = apSess
    BY <1>3, <1>4 DEF Ptk
  <1>. QED BY <1>1, <1>4, <1>5 DEF M3s, Proven

(* The steps of the station keep the invariant.                            *)
LEMMA StationStep == JInv /\ Station => JInv'
  <1>. SUFFICES ASSUME JInv, Station PROVE JInv'
    OBVIOUS
  <1>. USE DEF apVars, out, keys, loop, link, Steps, PreAssoc
  <1>0. ring # <<>> => /\ Tail(ring) \in Seq(FrameSet) /\ Items(Tail(ring)) \subseteq Items(ring)
                       /\ Head(ring) \in FrameSet /\ Head(ring) \in Items(ring)
    BY ItemsTail DEF JInv, JoinTypes
  <1>1. CASE SendRequest
    <2>. DEFINE e == Frame(pc, 0, 0, 0)
    <2>1. e \in FrameSet /\ e.kind = pc /\ e.kind \in {"auth", "assoc"}
      BY <1>1, JoinConstants DEF SendRequest, Frame, FrameSet, Kinds
    <2>2. up' = Append(up, e) /\ UNCHANGED <<pass, ap, apSess, apCtr, air, ring>>
      BY <1>1 DEF SendRequest, Send
    <2>. HIDE DEF e
    <2>3. pc \in PreAssoc /\ pc' \in {"authsnap", "assocsnap"}
      BY <1>1 DEF SendRequest
    <2>4. /\ OrderInv' /\ MicInv' /\ M3s' \subseteq M3s /\ M4s' \subseteq M4s
          /\ up' \in Seq(FrameSet) /\ Items(up') = Items(up) \cup {e}
      BY <2>1, <2>2, <2>3, StationSends
    <2>5. JoinTypes'
      BY <1>1, <2>2, <2>3, <2>4 DEF SendRequest, JInv, JoinTypes
    <2>6. Proven' => Proven
      BY <1>1, <2>2, <2>3, <2>4 DEF SendRequest, Proven
    <2>7. ProvenInv'
      BY <2>2, <2>3, <2>4, <2>6, ProvenKeeps
    <2>8. KeyInv'
      BY <1>1, <2>2, <2>3, <2>4 DEF SendRequest, JInv, KeyInv
    <2>. QED BY <2>4, <2>5, <2>7, <2>8 DEF JInv
  <1>2. CASE Snap \/ Response \/ Skip \/ NoResponse \/ listen_eapol \/ NoM1 \/ BadMic \/ NoValidM3
    <2>1. UNCHANGED <<pass, ap, apSess, apCtr, air, up, g_wpa_done, cam, replay, anonce>>
      BY <1>2 DEF Snap, Response, Skip, NoResponse, listen_eapol, NoM1, BadMic, NoValidM3, Finish
    <2>2. ring' \in Seq(FrameSet) /\ Items(ring') \subseteq Items(ring)
      <3>1. ring' = ring \/ ring' = <<>> \/ (ring # <<>> /\ ring' = Tail(ring))
        BY <1>2 DEF Snap, Response, Skip, NoResponse, listen_eapol, NoM1, BadMic, NoValidM3, Read
      <3>2. <<>> \in Seq(FrameSet) /\ Items(<<>>) = {}
        BY DEF Items
      <3>. QED BY <1>0, <3>1, <3>2 DEF JInv, JoinTypes
    <2>3. pc' \in Steps /\ (pc' \in PreAssoc => pc \in PreAssoc)
      BY <1>2 DEF Snap, Response, Skip, NoResponse, listen_eapol, NoM1, BadMic, NoValidM3,
           Finish, JInv, JoinTypes
    <2>4. OrderInv' /\ MicInv' /\ M3s' \subseteq M3s /\ M4s' = M4s
      BY <2>1, <2>2, <2>3, StationQuiet
    <2>5. JoinTypes'
      BY <2>1, <2>2, <2>3 DEF JInv, JoinTypes
    <2>6. pc' = "m4" => pc = "m4"
      BY <1>2 DEF Snap, Response, Skip, NoResponse, listen_eapol, NoM1, BadMic, NoValidM3, Finish
    <2>7. ProvenInv'
      BY <2>1, <2>3, <2>4, <2>6, ProvenKeeps DEF Proven
    <2>8. KeyInv'
      BY <1>2, <2>1, <2>4, <2>6 DEF Snap, Response, Skip, NoResponse, listen_eapol, NoM1, BadMic,
           NoValidM3, Finish, JInv, KeyInv
    <2>. QED BY <2>4, <2>5, <2>7, <2>8 DEF JInv
  <1>3. CASE RecvM1 \/ RepeatedM1 \/ NoM3
    <2>. DEFINE e == Frame("m2", 0, replay', Ptk(anonce'))
    <2>1. ring' \in Seq(FrameSet) /\ Items(ring') \subseteq Items(ring)
      BY <1>0, <1>3 DEF RecvM1, RepeatedM1, NoM3, Read, JInv, JoinTypes
    <2>2. /\ UNCHANGED <<pass, ap, apSess, apCtr, air, g_gtk, g_gtk_len, g_wpa_done, cam>>
          /\ pc \in {"m1", "m3"} /\ pc' = "m3" /\ up' = Append(up, e)
          /\ replay' \in Nat /\ anonce' \in 0 .. MaxSess
          /\ pc = "m3" => UNCHANGED anonce
      BY <1>0, <1>3 DEF RecvM1, RepeatedM1, NoM3, Read, Send, M2, FrameSet, JInv, JoinTypes
    <2>3. Ptk(anonce') \in -1 .. MaxSess /\ (Ptk(anonce') # 0 => pass = "right")
      BY <2>2, JoinConstants DEF Ptk
    <2>4. e \in FrameSet /\ e.kind = "m2" /\ e.key = Ptk(anonce')
      BY <2>2, <2>3, JoinConstants DEF Frame, FrameSet, Kinds
    <2>. HIDE DEF e
    <2>5. /\ OrderInv' /\ MicInv' /\ M3s' \subseteq M3s /\ M4s' \subseteq M4s
          /\ up' \in Seq(FrameSet) /\ Items(up') = Items(up) \cup {e}
      BY <2>1, <2>2, <2>3, <2>4, StationSends
    <2>6. JoinTypes'
      BY <2>1, <2>2, <2>5 DEF JInv, JoinTypes
    <2>7. ProvenInv'
      BY <2>2, <2>4, <2>5, ProvenKeeps DEF Proven
    <2>8. KeyInv'
      BY <2>2, <2>5 DEF JInv, KeyInv
    <2>. QED BY <2>5, <2>6, <2>7, <2>8 DEF JInv
  <1>4. CASE RecvM3 \/ Window
    <2>. DEFINE e == Frame("m4", 0, replay', Ptk(anonce))
    <2>1. /\ ring # <<>> /\ ring' \in Seq(FrameSet) /\ Items(ring') \subseteq Items(ring)
          /\ UNCHANGED <<pass, ap, apSess, apCtr, air, anonce, g_wpa_done, cam>>
          /\ pc \in {"m3", "m4"} /\ replay' \in Nat
      BY <1>0, <1>4 DEF RecvM3, Window, Read, Finish, FrameSet, JInv, JoinTypes
    <2>2. CASE up' = up /\ (pc' = "done" \/ (pc' = "m4" /\ pc = "m4"))
               /\ UNCHANGED <<g_gtk, g_gtk_len>>
      <3>1. OrderInv' /\ MicInv' /\ M3s' \subseteq M3s /\ M4s' = M4s
        BY <2>1, <2>2, StationQuiet
      <3>2. JoinTypes'
        BY <2>1, <2>2 DEF JInv, JoinTypes
      <3>3. ProvenInv'
        BY <2>1, <2>2, <3>1, ProvenKeeps DEF Proven
      <3>4. KeyInv'
        BY <2>1, <2>2, <3>1 DEF JInv, KeyInv
      <3>. QED BY <3>1, <3>2, <3>3, <3>4 DEF JInv
    <2>3. CASE up' = Append(up, e) /\ pc' = "m4" /\ MicOk(Head(ring))
               /\ (pc = "m3" => g_gtk' = 1 /\ g_gtk_len' = 16)
               /\ (pc = "m4" => UNCHANGED <<g_gtk, g_gtk_len>>)
      <3>1. anonce = apSess /\ pass = "right" /\ Proven
        BY <2>1, <2>3, MicProves
      <3>2. Ptk(anonce) \in -1 .. MaxSess
        BY JoinConstants DEF Ptk, JInv, JoinTypes
      <3>3. e \in FrameSet /\ e.kind = "m4"
        BY <2>1, <3>2, JoinConstants DEF Frame, FrameSet, Kinds
      <3>. HIDE DEF e
      <3>4. /\ OrderInv' /\ MicInv' /\ up' \in Seq(FrameSet) /\ Items(up') = Items(up) \cup {e}
        BY <2>1, <2>3, <3>3, StationSends
      <3>5. JoinTypes'
        BY <2>1, <2>3, <3>4 DEF JInv, JoinTypes
      <3>6. ProvenInv'
        BY <2>1, <2>3, <3>1, <3>3, <3>4, ProvenKeeps
      <3>7. g_wpa_done # 1
        BY <2>1 DEF JInv, KeyInv
      <3>8. KeyInv'
        BY <2>1, <2>3, <3>1, <3>7 DEF JInv, KeyInv
      <3>. QED BY <3>4, <3>5, <3>6, <3>8 DEF JInv
    <2>4. CASE RecvM3
      <3>1. pc = "m3" /\ MicOk(Head(ring))
        BY <2>4 DEF RecvM3
      <3>2. \/ up' = Append(up, e) /\ pc' = "m4" /\ g_gtk' = 1 /\ g_gtk_len' = 16
            \/ up' = up /\ pc' = "done" /\ UNCHANGED <<g_gtk, g_gtk_len>>
        BY <2>4 DEF RecvM3, Send, M4, Finish
      <3>3. CASE up' = Append(up, e) /\ pc' = "m4" /\ g_gtk' = 1 /\ g_gtk_len' = 16
        BY <2>3, <3>1, <3>3
      <3>4. CASE up' = up /\ pc' = "done" /\ UNCHANGED <<g_gtk, g_gtk_len>>
        BY <2>2, <3>4
      <3>. QED BY <3>2, <3>3, <3>4
    <2>5. CASE Window
      <3>1. UNCHANGED <<g_gtk, g_gtk_len, pc>> /\ pc = "m4"
        BY <2>5 DEF Window
      <3>2. up' = up \/ (up' = Append(up, e) /\ MicOk(Head(ring)))
        BY <2>5 DEF Window, Send, M4
      <3>. QED BY <2>2, <2>3, <3>1, <3>2
    <2>. QED BY <1>4, <2>4, <2>5
  <1>5. CASE Complete
    <2>1. /\ UNCHANGED <<pass, ap, apSess, apCtr, air, up, ring, replay, anonce, g_gtk, g_gtk_len>>
          /\ pc = "m4" /\ pc' = "done" /\ cam' = install_keys /\ g_wpa_done' = 1
      BY <1>5 DEF Complete
    <2>2. OrderInv' /\ MicInv' /\ M3s' \subseteq M3s /\ M4s' = M4s
      BY <2>1, StationQuiet
    <2>3. JoinTypes'
      BY <2>1 DEF JInv, JoinTypes
    <2>4. ProvenInv'
      BY <2>1, <2>2, ProvenKeeps DEF Proven
    <2>5. anonce = apSess /\ g_gtk = 1 /\ g_gtk_len = 16 /\ pass = "right"
      BY <2>1 DEF JInv, KeyInv, ProvenInv, Proven
    <2>6. cam' = [tk |-> apSess, gtk |-> 1]
      BY <2>1, <2>5 DEF install_keys, Ptk
    <2>7. KeyInv'
      BY <2>1, <2>2, <2>5, <2>6 DEF JInv, KeyInv
    <2>. QED BY <2>2, <2>3, <2>4, <2>7 DEF JInv
  <1>. QED BY <1>1, <1>2, <1>3, <1>4, <1>5 DEF Station

(* A step of the access point or of the channel that leaves the access     *)
(* point's session alone and adds only frames of it.                       *)
LEMMA ChannelKeeps ==
  ASSUME JInv, UNCHANGED <<pc, pass, apSess, ap, anonce, replay, g_gtk, g_gtk_len, g_wpa_done, cam>>,
         apCtr' \in Nat,
         up' = up \/ (up # <<>> /\ up' = Tail(up)),
         air' \in Seq(FrameSet), ring' \in Seq(FrameSet),
         \A f \in Items(air') \cup Items(ring') :
           \/ f \in Items(air) \cup Items(ring)
           \/ f.kind \in {"m3", "m3bare"} /\ f.key = apSess /\ ap = "m3"
           \/ f.kind = "noise" /\ f.key = -1
           \/ f.kind \notin {"m3", "m3bare", "noise"} /\ f.key = 0
  PROVE  JInv'
  <1>1. up' \in Seq(FrameSet) /\ Items(up') \subseteq Items(up) /\ Ordered(up')
    <2>1. up \in Seq(FrameSet) /\ Ordered(up)
      BY DEF JInv, JoinTypes, OrderInv
    <2>2. CASE up' = up
      BY <2>1, <2>2
    <2>3. CASE up # <<>> /\ up' = Tail(up)
      BY <2>1, <2>3, ItemsTail, OrderedTail
    <2>. QED BY <2>2, <2>3
  <1>2. OrderInv'
    BY <1>1 DEF JInv, OrderInv
  <1>3. MicInv'
    BY <1>1 DEF JInv, MicInv
  <1>4. M4s' \subseteq M4s /\ (M3s' # {} => M3s # {} \/ ap = "m3")
    BY <1>1 DEF M3s, M4s
  <1>5. ProvenInv'
    BY <1>1, <1>4, ProvenKeeps DEF Proven
  <1>6. KeyInv'
    BY <1>4 DEF JInv, KeyInv
  <1>7. JoinTypes'
    BY <1>1 DEF JInv, JoinTypes
  <1>. QED BY <1>2, <1>3, <1>5, <1>6, <1>7 DEF JInv

(* The access point's messages are frames; only an M3 has a MIC.           *)
LEMMA ApFrames ==
  ASSUME NEW k \in Kinds, NEW n \in 0 .. MaxSess, NEW c \in Nat
  PROVE  /\ ApOf(k, n, c) \in FrameSet /\ ApOf(k, n, c).kind = k
         /\ ApOf(k, n, c).key = IF k \in {"m3", "m3bare"} THEN n ELSE 0
         /\ Frame(k, 0, 0, 0) \in FrameSet /\ Frame(k, 0, 0, 0).kind = k
         /\ Frame(k, 0, 0, 0).key = 0
  <1>1. /\ 0 \in 0 .. MaxSess /\ 0 \in -1 .. MaxSess /\ n \in -1 .. MaxSess
    BY JoinConstants
  <1>2. Frame(k, 0, 0, 0) \in FrameSet
    BY <1>1 DEF Frame, FrameSet
  <1>3. ApOf(k, n, c) \in FrameSet
    BY <1>1 DEF ApOf, Frame, FrameSet
  <1>. QED BY <1>2, <1>3 DEF ApOf, Frame

(* What the air holds after an answer.                                     *)
LEMMA AnswerOne ==
  ASSUME JInv, NEW e \in FrameSet, Answer(<<e>>)
  PROVE  air' \in Seq(FrameSet) /\ Items(air') \subseteq Items(air) \cup {e}
  <1>1. <<e>> \in Seq(FrameSet) /\ Items(<<e>>) = {e}
    BY ItemsShort, Zenon
  <1>2. air' = air \o <<e>> /\ air \in Seq(FrameSet)
    BY DEF Answer, JInv, JoinTypes
  <1>3. /\ air \o <<e>> \in Seq(FrameSet)
        /\ Items(air \o <<e>>) \subseteq Items(air) \cup Items(<<e>>)
    BY <1>1, <1>2, ItemsConcat
  <1>. QED BY <1>1, <1>2, <1>3

(* A queue of two frames.                                                  *)
LEMMA PairOfFrames ==
  ASSUME NEW e \in FrameSet, NEW g \in FrameSet
  PROVE  <<e, g>> \in Seq(FrameSet) /\ Items(<<e, g>>) = {e, g}
  <1>1. <<e, g>> \in Seq(FrameSet)
    OBVIOUS
  <1>2. Items(<<e, g>>) = {e, g}
    BY DEF Items
  <1>. QED BY <1>1, <1>2, Zenon

(* The same for an answer of two frames.                                   *)
LEMMA AnswerTwo ==
  ASSUME JInv, NEW e \in FrameSet, NEW g \in FrameSet, Answer(<<e, g>>)
  PROVE  air' \in Seq(FrameSet) /\ Items(air') \subseteq Items(air) \cup {e, g}
  <1>1. <<e, g>> \in Seq(FrameSet) /\ Items(<<e, g>>) = {e, g}
    BY PairOfFrames, Zenon
  <1>2. air' = air \o <<e, g>> /\ air \in Seq(FrameSet)
    BY DEF Answer, JInv, JoinTypes
  <1>3. /\ air \o <<e, g>> \in Seq(FrameSet)
        /\ Items(air \o <<e, g>>) \subseteq Items(air) \cup Items(<<e, g>>)
    BY <1>1, <1>2, ItemsConcat
  <1>. QED BY <1>1, <1>2, <1>3

(* A session more, within the bound.                                       *)
LEMMA OneMoreSession ==
  ASSUME NEW m \in Nat, NEW x \in 0 .. m, x < m, NEW y \in Nat
  PROVE  x + 1 \in 0 .. m /\ x + 1 > 0 /\ y + 1 \in Nat
  OBVIOUS

(* An association: the request still in the queue shows that nobody has    *)
(* proved the key of an earlier session yet, so a new session harms        *)
(* nothing.                                                                *)
LEMMA NewSession ==
  ASSUME JInv, up # <<>>, up' = Tail(up), Head(up).kind = "assoc", apSess < MaxSess,
         ap' = "m1", apSess' = apSess + 1, apCtr' = apCtr + 1,
         Answer(<<Frame("assoc", 0, 0, 0), ApOf("m1", apSess', apCtr')>>),
         UNCHANGED <<pc, pass, keys, out, ring>>
  PROVE  JInv'
  <1>. USE DEF keys, out
  <1>. DEFINE e == Frame("assoc", 0, 0, 0)
              g == ApOf("m1", apSess', apCtr')
  <1>1. apSess' \in 0 .. MaxSess /\ apSess' > 0 /\ apCtr' \in Nat
    <2>1. /\ apSess \in 0 .. MaxSess /\ apCtr \in Nat /\ MaxSess \in Nat /\ apSess < MaxSess
          /\ apSess' = apSess + 1 /\ apCtr' = apCtr + 1
      BY JoinConstants, Zenon DEF JInv, JoinTypes
    <2>. QED BY <2>1, OneMoreSession, Zenon
  <1>2. /\ e \in FrameSet /\ e.kind = "assoc" /\ e.key = 0
        /\ g \in FrameSet /\ g.kind = "m1" /\ g.key = 0
    BY <1>1, ApFrames DEF Kinds
  <1>3. Answer(<<e, g>>)
    OBVIOUS
  <1>. HIDE DEF e, g
  <1>4. air' \in Seq(FrameSet) /\ Items(air') \subseteq Items(air) \cup {e, g}
    BY <1>2, <1>3, AnswerTwo
  <1>5. /\ up' \in Seq(FrameSet) /\ Items(up') \subseteq Items(up) /\ Ordered(up')
        /\ Head(up) \in Items(up)
    BY ItemsTail, OrderedTail DEF JInv, JoinTypes, OrderInv
  <1>6. ~Proven
    BY <1>5 DEF JInv, ProvenInv, NoMoreAssoc
  <1>7. M3s' = {} /\ M4s' = {}
    BY <1>2, <1>4, <1>5, <1>6 DEF Proven, M3s, M4s
  <1>8. JoinTypes'
    BY <1>1, <1>4, <1>5 DEF JInv, JoinTypes
  <1>9. OrderInv'
    BY <1>5 DEF JInv, OrderInv
  <1>10. MicInv'
    BY <1>1, <1>2, <1>4, <1>5, <1>6 DEF JInv, MicInv, Proven, M3s
  <1>11. ProvenInv' /\ KeyInv'
    BY <1>6, <1>7 DEF ProvenInv, KeyInv, Proven
  <1>. QED BY <1>8, <1>9, <1>10, <1>11 DEF JInv

(* An M2 with the right MIC: the station has the key of this session, and  *)
(* behind its M2 there is no request that could start another one.         *)
LEMMA M2Accepted ==
  ASSUME JInv, up # <<>>, up' = Tail(up), Head(up).kind = "m2", ap = "m1",
         Head(up).key = apSess, ap' = "m3", apCtr' = apCtr + 1,
         NEW k \in {"m3", "m3bare"}, Answer(<<ApOf(k, apSess, apCtr')>>),
         UNCHANGED <<pc, pass, keys, out, ring, apSess>>
  PROVE  JInv'
  <1>. USE DEF keys, out
  <1>. DEFINE e == ApOf(k, apSess, apCtr')
  <1>1. apSess \in 0 .. MaxSess /\ apSess > 0 /\ apCtr' \in Nat
    BY DEF JInv, JoinTypes, MicInv
  <1>2. e \in FrameSet /\ e.kind = k /\ e.key = apSess
    BY <1>1, ApFrames DEF Kinds
  <1>3. Answer(<<e>>)
    OBVIOUS
  <1>. HIDE DEF e
  <1>4. air' \in Seq(FrameSet) /\ Items(air') \subseteq Items(air) \cup {e}
    BY <1>2, <1>3, AnswerOne
  <1>5. /\ up' \in Seq(FrameSet) /\ Items(up') \subseteq Items(up) /\ Ordered(up')
        /\ Head(up) \in Items(up) /\ \A f \in Items(up') : f.kind # "assoc"
    BY ItemsTail, OrderedTail DEF JInv, JoinTypes, OrderInv
  <1>6. pass = "right" /\ pc \notin PreAssoc
    BY <1>1, <1>5 DEF JInv, MicInv, OrderInv
  <1>7. M4s' \subseteq M4s
    BY <1>5 DEF M4s
  <1>8. JoinTypes'
    BY <1>1, <1>4, <1>5 DEF JInv, JoinTypes
  <1>9. OrderInv'
    BY <1>5 DEF JInv, OrderInv
  <1>10. MicInv'
    BY <1>1, <1>2, <1>4, <1>5 DEF JInv, MicInv
  <1>11. ProvenInv'
    BY <1>1, <1>5, <1>6 DEF ProvenInv, NoMoreAssoc
  <1>12. KeyInv'
    BY <1>7 DEF JInv, KeyInv
  <1>. QED BY <1>8, <1>9, <1>10, <1>11, <1>12 DEF JInv

(* An M4 with the right MIC opens the port.                                *)
LEMMA M4Accepted ==
  ASSUME JInv, up # <<>>, up' = Tail(up), Head(up).kind = "m4", ap = "m3", ap' = "open",
         UNCHANGED <<pc, pass, keys, out, ring, air, apSess, apCtr>>
  PROVE  JInv'
  <1>. USE DEF keys, out
  <1>1. /\ up' \in Seq(FrameSet) /\ Items(up') \subseteq Items(up) /\ Ordered(up')
        /\ Head(up) \in Items(up)
    BY ItemsTail, OrderedTail DEF JInv, JoinTypes, OrderInv
  <1>2. Head(up) \in M4s /\ M4s' \subseteq M4s /\ M3s' = M3s
    BY <1>1 DEF M4s, M3s
  <1>3. JoinTypes' /\ OrderInv' /\ MicInv'
    BY <1>1 DEF JInv, JoinTypes, OrderInv, MicInv
  <1>4. ProvenInv'
    BY <1>1, <1>2, ProvenKeeps DEF Proven
  <1>5. KeyInv'
    BY <1>2 DEF JInv, KeyInv
  <1>. QED BY <1>3, <1>4, <1>5 DEF JInv

(* The steps of the access point and of the channel keep the invariant.    *)
LEMMA AirStep == JInv /\ Air => JInv'
  <1>. SUFFICES ASSUME JInv, Air PROVE JInv'
    OBVIOUS
  <1>. USE DEF apVars, out, keys, loop
  <1>1. CASE ApRecv
    <2>. DEFINE f == Head(up)
    <2>1. /\ up # <<>> /\ up' = Tail(up) /\ UNCHANGED <<pc, pass, keys, out, ring>>
          /\ apCtr \in Nat /\ ring \in Seq(FrameSet) /\ air \in Seq(FrameSet)
      BY <1>1 DEF ApRecv, JInv, JoinTypes
    <2>2. ASSUME NEW k \in {"auth", "reject"}, Answer(<<Frame(k, 0, 0, 0)>>), UNCHANGED apVars
          PROVE  JInv'
      <3>1. /\ Frame(k, 0, 0, 0) \in FrameSet /\ Frame(k, 0, 0, 0).kind = k
            /\ Frame(k, 0, 0, 0).key = 0
        BY ApFrames, JoinConstants DEF Kinds
      <3>2. air' \in Seq(FrameSet) /\ Items(air') \subseteq Items(air) \cup {Frame(k, 0, 0, 0)}
        BY <2>2, <3>1, AnswerOne
      <3>. QED BY <2>1, <2>2, <3>1, <3>2, ChannelKeeps
    <2>3. ASSUME UNCHANGED <<apVars, air>> PROVE JInv'
      BY <2>1, <2>3, ChannelKeeps
    <2>4. CASE f.kind = "auth"
      BY <1>1, <2>2, <2>4 DEF ApRecv
    <2>5. CASE f.kind = "assoc"
      BY <1>1, <2>1, <2>2, <2>5, NewSession DEF ApRecv
    <2>6. CASE f.kind = "m2"
      <3>1. CASE UNCHANGED <<apVars, air, quiet>>
        BY <2>3, <3>1
      <3>2. CASE /\ ap = "m1" /\ f.key = apSess /\ ap' = "m3" /\ apCtr' = apCtr + 1
                 /\ UNCHANGED apSess /\ \E k \in M3Kind : Answer(<<ApOf(k, apSess, apCtr')>>)
        <4>1. PICK k \in {"m3", "m3bare"} : Answer(<<ApOf(k, apSess, apCtr')>>)
          BY <3>2 DEF M3Kind
        <4>. QED BY <2>1, <2>6, <3>2, <4>1, M2Accepted
      <3>. QED BY <1>1, <2>6, <3>1, <3>2 DEF ApRecv
    <2>7. CASE f.kind = "m4"
      BY <1>1, <2>1, <2>3, <2>7, M4Accepted DEF ApRecv
    <2>. QED BY <1>1, <2>4, <2>5, <2>6, <2>7 DEF ApRecv
  <1>2. CASE ApRetry
    <2>1. /\ UNCHANGED <<pc, pass, keys, out, ap, apSess, up, ring>> /\ ap \in {"m1", "m3"}
          /\ apCtr' = apCtr + 1 /\ apCtr' \in Nat /\ apSess \in 0 .. MaxSess
          /\ ring \in Seq(FrameSet)
      BY <1>2 DEF ApRetry, ApDue, JInv, JoinTypes
    <2>2. PICK k \in {"m1", "m3", "m3bare"} :
            Answer(<<ApOf(k, apSess, apCtr')>>) /\ (k # "m1" => ap = "m3")
      BY <1>2, <2>1 DEF ApRetry, M3Kind
    <2>. DEFINE e == ApOf(k, apSess, apCtr')
    <2>3. e \in FrameSet /\ e.kind = k /\ e.key = IF k = "m1" THEN 0 ELSE apSess
      BY <2>1, ApFrames DEF Kinds
    <2>4. air' \in Seq(FrameSet) /\ Items(air') \subseteq Items(air) \cup {e}
      BY <2>2, <2>3, AnswerOne
    <2>. HIDE DEF e
    <2>. QED BY <2>1, <2>2, <2>3, <2>4, ChannelKeeps
  <1>3. CASE Arrive
    <2>1. /\ air # <<>> /\ air' = Tail(air) /\ ring' = Append(ring, Head(air))
          /\ UNCHANGED <<pc, pass, keys, out, apVars, up>>
          /\ air \in Seq(FrameSet) /\ ring \in Seq(FrameSet) /\ apCtr \in Nat
      BY <1>3 DEF Arrive, JInv, JoinTypes
    <2>2. /\ air' \in Seq(FrameSet) /\ Items(air') \subseteq Items(air)
          /\ Head(air) \in Items(air) /\ Head(air) \in FrameSet
      BY <2>1, ItemsTail
    <2>3. ring' \in Seq(FrameSet) /\ Items(ring') = Items(ring) \cup {Head(air)}
      BY <2>1, <2>2, ItemsAppend
    <2>. QED BY <2>1, <2>2, <2>3, ChannelKeeps
  <1>4. CASE Lose
    <2>1. /\ UNCHANGED <<pc, pass, keys, out, apVars, ring>>
          /\ up' = up \/ (up # <<>> /\ up' = Tail(up))
          /\ air' = air \/ (air # <<>> /\ air' = Tail(air))
          /\ air \in Seq(FrameSet) /\ ring \in Seq(FrameSet) /\ apCtr \in Nat
      BY <1>4 DEF Lose, JInv, JoinTypes
    <2>2. air' \in Seq(FrameSet) /\ Items(air') \subseteq Items(air)
      BY <2>1, ItemsTail
    <2>. QED BY <2>1, <2>2, ChannelKeeps
  <1>5. CASE Noise
    <2>. DEFINE e == Frame("noise", 0, apCtr, -1)
    <2>1. /\ UNCHANGED <<pc, pass, keys, out, apVars, up, air>> /\ ring' = Append(ring, e)
          /\ air \in Seq(FrameSet) /\ ring \in Seq(FrameSet) /\ apCtr \in Nat
      BY <1>5 DEF Noise, JInv, JoinTypes
    <2>2. e \in FrameSet /\ e.kind = "noise" /\ e.key = -1
      BY <2>1, JoinConstants DEF Frame, FrameSet, Kinds
    <2>. HIDE DEF e
    <2>3. ring' \in Seq(FrameSet) /\ Items(ring') = Items(ring) \cup {e}
      BY <2>1, <2>2, ItemsAppend
    <2>. QED BY <2>1, <2>2, <2>3, ChannelKeeps
  <1>. QED BY <1>1, <1>2, <1>3, <1>4, <1>5 DEF Air

(* The inductive invariant behind the theorems.                            *)
LEMMA JoinInduction ==
  /\ Init => JInv
  /\ JInv /\ [Next]_vars => JInv'
  <1>1. Init => JInv
    <2>. SUFFICES ASSUME Init PROVE JInv
      OBVIOUS
    <2>1. <<>> \in Seq(FrameSet) /\ Items(<<>>) = {}
      BY DEF Items
    <2>2. JoinTypes
      BY <2>1, JoinConstants DEF Init, JoinTypes, Steps, PreAssoc
    <2>3. Ordered(<<>>)
      BY DEF Ordered
    <2>4. OrderInv /\ MicInv
      BY <2>1, <2>3 DEF Init, OrderInv, MicInv
    <2>5. M3s = {} /\ M4s = {}
      BY <2>1 DEF Init, M3s, M4s
    <2>6. ProvenInv /\ KeyInv
      BY <2>5 DEF Init, ProvenInv, KeyInv, Proven
    <2>. QED BY <2>2, <2>4, <2>6 DEF JInv
  <1>2. JInv /\ [Next]_vars => JInv'
    <2>1. JInv /\ UNCHANGED vars => JInv'
      BY DEF vars, loop, keys, out, apVars, link, JInv, JoinTypes, OrderInv, MicInv, ProvenInv,
           NoMoreAssoc, Proven, KeyInv, M3s, M4s
    <2>. QED BY <2>1, StationStep, AirStep DEF Next
  <1>. QED BY <1>1, <1>2

(* However frames are lost, late, repeated or wrong and however slow       *)
(* either side is, a handshake that completes has installed the pairwise   *)
(* key of the access point's current session and its group key, and the    *)
(* access point opens its port only for a station that has them.           *)
THEOREM BothHaveTheKey == Spec => []KeysAgree
  <1>1. JInv => KeysAgree
    BY DEF JInv, KeysAgree, KeyInv, ProvenInv, Proven
  <1>. QED BY <1>1, JoinInduction, PTL DEF Spec
-----------------------------------------------------------------------------
(* A join with the right passphrase at a prompt access point.              *)
Prompt == pass = "right" /\ faults = {}

(* What is on its way: nothing, one frame to the access point, or one      *)
(* frame to us, in the air or in our ring.                                 *)
Nothing(u, a, r) == u = <<>> /\ a = <<>> /\ r = <<>>
OneUp(u, a, r, f) == u = <<f>> /\ a = <<>> /\ r = <<>>
OneDown(u, a, r, f) ==
  u = <<>> /\ ((a = <<f>> /\ r = <<>>) \/ (a = <<>> /\ r = <<f>>))

AuthFrame == Frame("auth", 0, 0, 0)
AssocFrame == Frame("assoc", 0, 0, 0)
M1Now == ApOf("m1", apSess, apCtr)
M2Now == Frame("m2", 0, replay, apSess)
M3Now == ApOf("m3", apSess, apCtr)

(* Only M1s of abandoned associations; these, the answer to the request    *)
(* and at most the new M1 m behind it; these and the answer.               *)
OldM1s(q) == \A i \in 1 .. Len(q) : q[i].kind = "m1"
Answered(q, m) ==
  \E k \in 1 .. Len(q) :
    /\ q[k] = AssocFrame /\ \A i \in 1 .. k - 1 : q[i].kind = "m1"
    /\ Len(q) = k \/ (Len(q) = k + 1 /\ q[k + 1] = m)
AnswerLast(q) ==
  Len(q) > 0 /\ q[Len(q)] = AssocFrame /\ \A i \in 1 .. Len(q) - 1 : q[i].kind = "m1"

(* The sends of the current request that nobody has paid for with a loss.  *)
AuthInv ==
  /\ ap = "idle"
  /\ \/ Nothing(up, air, ring) /\ t <= losses
     \/ OneUp(up, air, ring, AuthFrame) /\ t <= losses + 1 /\ pc # "auth"
     \/ OneDown(up, air, ring, AuthFrame) /\ t <= losses + 1 /\ pc = "authwait"

Unanswered == up = <<>> /\ OldM1s(air) /\ OldM1s(ring) /\ t <= losses
Requested ==
  /\ up = <<AssocFrame>> /\ OldM1s(air) /\ OldM1s(ring)
  /\ t <= losses + 1 /\ pc # "assoc"
Accepted ==
  /\ up = <<>> /\ pc = "assocwait" /\ ap = "m1" /\ apTry = 0 /\ t <= losses + 1
  /\ \/ OldM1s(ring) /\ Answered(air, M1Now)
     \/ Answered(ring, M1Now) /\ air = <<>>
     \/ AnswerLast(ring) /\ air = <<M1Now>>
AssocInv == ap \in {"idle", "m1"} /\ (Unanswered \/ Requested \/ Accepted)

(* PBKDF2 may cost the first M1.                                           *)
PmkInv ==
  /\ ap = "m1" /\ apTry = 0
  /\ Nothing(up, air, ring) \/ OneDown(up, air, ring, M1Now)

(* Every silence and every repetition after the first is paid for: a lost  *)
(* frame costs two silences, after which the access point repeats its      *)
(* message.                                                                *)
M1Inv ==
  /\ ap = "m1"
  /\ \/ Nothing(up, air, ring) /\ apTry = 0 /\ t = 0
     \/ /\ Nothing(up, air, ring) /\ losses >= 1 /\ apTry <= losses
        /\ t <= 2 * losses - 2 + quiet
     \/ OneDown(up, air, ring, M1Now) /\ apTry <= losses + 1 /\ t <= 2 * losses

(* The handshake advances; the access point repeats M1; or it has nothing  *)
(* from us that it takes.                                                  *)
Advancing ==
  /\ \/ ap = "m1" /\ OneUp(up, air, ring, M2Now) /\ replay = apCtr
     \/ ap = "m3" /\ OneDown(up, air, ring, M3Now)
  /\ apTry <= losses + 1 /\ timeouts <= 2 * losses /\ iters <= timeouts + losses
Repeating ==
  /\ ap = "m1" /\ OneDown(up, air, ring, M1Now) /\ losses >= 1
  /\ apTry <= losses + 1 /\ timeouts <= 2 * losses /\ iters <= timeouts + losses - 1
Stalled ==
  /\ Nothing(up, air, ring) \/ OneUp(up, air, ring, M2Now)
  /\ losses >= 1
  /\ apTry <= losses /\ timeouts <= 2 * losses - 2 + quiet /\ iters <= timeouts + losses - 1
M3Inv ==
  /\ ap \in {"m1", "m3"} /\ anonce = apSess /\ apSess > 0
  /\ Advancing \/ Repeating \/ (Stalled /\ (up # <<>> => ap = "m3" \/ replay # apCtr))

Counters ==
  /\ t \in Nat /\ timeouts \in Nat /\ iters \in Nat /\ apTry \in Nat
  /\ quiet \in 0 .. 2 /\ losses \in 0 .. MaxLoss
Phases ==
  /\ rc = 0 /\ pc # "listen"
  /\ pc \in {"auth", "authsnap", "authwait"} => AuthInv
  /\ pc \in {"assoc", "assocsnap", "assocwait"} => AssocInv
  /\ pc = "pbkdf2" => PmkInv
  /\ pc = "m1" => M1Inv
  /\ pc = "m3" => M3Inv
LossInv == Counters /\ (Prompt => Phases)
-----------------------------------------------------------------------------
(* The counters keep their ranges.                                         *)
LEMMA CountersStep ==
  ASSUME Counters, Next
  PROVE  Counters'
  <1>. USE DEF loop, link, apVars, Pause
  <1>0. MaxLoss \in Nat
    BY JoinConstants
  <1>1. CASE SendRequest \/ Snap \/ Response \/ Skip \/ listen_eapol
    BY <1>1 DEF SendRequest, Snap, Response, Skip, listen_eapol, Counters
  <1>2. CASE NoResponse \/ NoM1 \/ NoM3
    BY <1>2 DEF NoResponse, NoM1, NoM3, Counters
  <1>3. CASE RecvM1 \/ RepeatedM1 \/ BadMic \/ RecvM3 \/ NoValidM3 \/ Window \/ Complete
    BY <1>3 DEF RecvM1, RepeatedM1, BadMic, RecvM3, NoValidM3, Window, Complete, Counters
  <1>4. CASE ApRecv
    <2>1. \A s : Answer(s) => quiet' = 0
      BY DEF Answer
    <2>2. UNCHANGED <<t, timeouts, iters, losses>>
      BY <1>4 DEF ApRecv
    <2>3. apTry' = apTry \/ apTry' = 0
      BY <1>4 DEF ApRecv, apVars
    <2>4. quiet' = quiet \/ quiet' = 0
      BY <1>4, <2>1 DEF ApRecv
    <2>. QED BY <2>2, <2>3, <2>4 DEF Counters
  <1>5. CASE ApRetry
    BY <1>5 DEF ApRetry, Answer, Counters
  <1>6. CASE Arrive \/ Lose \/ Noise
    BY <1>0, <1>6 DEF Arrive, Lose, Noise, Counters
  <1>. QED BY <1>1, <1>2, <1>3, <1>4, <1>5, <1>6 DEF Next, Station, Air

(* Queues of no frame and of one frame.                                    *)
LEMMA OneFrame ==
  ASSUME NEW f
  PROVE  /\ <<f>> # <<>> /\ Head(<<f>>) = f /\ Tail(<<f>>) = <<>>
         /\ Append(<<>>, f) = <<f>> /\ <<>> \o <<f>> = <<f>>
  <1>1. <<f>> # <<>> /\ Head(<<f>>) = f /\ Tail(<<f>>) = <<>> /\ Append(<<>>, f) = <<f>>
    OBVIOUS
  <1>2. <<f>> \in Seq({f})
    OBVIOUS
  <1>3. <<>> \o <<f>> = <<f>>
    BY <1>2, ConcatEmptySeq, Zenon
  <1>. QED BY <1>1, <1>3, Zenon

(* A frame to us arrives or is lost, a frame to the access point is lost,  *)
(* and where the only frame is when somebody reads one.                    *)
LEMMA OnlyFrame ==
  ASSUME NEW u, NEW a, NEW r, NEW f
  PROVE  /\ Nothing(u, a, r) => u = <<>> /\ a = <<>> /\ r = <<>>
         /\ OneUp(u, a, r, f) => u # <<>> /\ Head(u) = f /\ a = <<>> /\ r = <<>>
                                 /\ Nothing(Tail(u), a, r)
         /\ OneDown(u, a, r, f) => u = <<>>
         /\ OneDown(u, a, r, f) /\ a # <<>> =>
              OneDown(u, Tail(a), Append(r, Head(a)), f) /\ Nothing(u, Tail(a), r)
         /\ OneDown(u, a, r, f) /\ r # <<>> => Head(r) = f /\ Nothing(u, a, Tail(r))
         /\ OneDown(u, a, r, f) => a # <<>> \/ r # <<>>
         /\ OneDown(u, a, r, f) => Nothing(u, a, <<>>) \/ OneDown(u, a, <<>>, f)
  BY OneFrame, Zenon DEF Nothing, OneUp, OneDown

(* Sending a frame when nothing is on its way.                             *)
LEMMA FirstFrame ==
  ASSUME NEW u, NEW a, NEW r, NEW f, Nothing(u, a, r)
  PROVE  OneUp(Append(u, f), a, r, f) /\ OneDown(u, a \o <<f>>, r, f)
  BY OneFrame, Zenon DEF Nothing, OneUp, OneDown

(* Old M1s and the answer behind them, when a frame is taken from the      *)
(* head of their queue q, which leaves p.                                  *)
LEMMA AnswerShift ==
  ASSUME NEW q, NEW p, NEW m, Len(q) \in Nat, Len(q) > 0, Len(p) = Len(q) - 1,
         \A i \in 1 .. Len(p) : p[i] = q[i + 1],
         Len(p) = 0 => p = <<>>, Len(p) = 1 => p = <<p[1]>>
  PROVE  /\ OldM1s(q) => q[1].kind = "m1" /\ OldM1s(p)
         /\ Answered(q, m) =>
              \/ q[1].kind = "m1" /\ Answered(p, m)
              \/ q[1] = AssocFrame /\ p \in {<<>>, <<m>>}
         /\ AnswerLast(q) =>
              \/ q[1].kind = "m1" /\ AnswerLast(p)
              \/ q[1] = AssocFrame /\ p = <<>>
  <1>. DEFINE n == Len(q)
  <1>1. Len(p) \in Nat /\ Len(p) = n - 1
    OBVIOUS
  <1>2. ASSUME OldM1s(q) PROVE q[1].kind = "m1" /\ OldM1s(p)
    BY <1>2 DEF OldM1s
  <1>3. ASSUME Answered(q, m)
        PROVE  \/ q[1].kind = "m1" /\ Answered(p, m)
               \/ q[1] = AssocFrame /\ p \in {<<>>, <<m>>}
    <2>1. PICK k \in 1 .. Len(q) :
            /\ q[k] = AssocFrame /\ \A i \in 1 .. k - 1 : q[i].kind = "m1"
            /\ Len(q) = k \/ (Len(q) = k + 1 /\ q[k + 1] = m)
      BY <1>3 DEF Answered
    <2>2. CASE k = 1
      <3>1. CASE Len(q) = 1
        BY <2>1, <2>2, <3>1
      <3>2. CASE Len(q) = 2 /\ q[2] = m
        <4>1. Len(p) = 1 /\ 1 \in 1 .. Len(p)
          BY <3>2
        <4>2. p[1] = q[1 + 1]
          BY <4>1
        <4>. QED BY <2>1, <2>2, <3>2, <4>1, <4>2
      <3>. QED BY <2>1, <2>2, <3>1, <3>2
    <2>3. CASE k > 1
      <3>. DEFINE j == k - 1
      <3>1. j \in 1 .. Len(p) /\ j + 1 = k /\ (j + 1) + 1 = k + 1
        BY <2>1, <2>3
      <3>2. p[j] = AssocFrame
        BY <2>1, <3>1
      <3>3. Len(p) = j \/ (Len(p) = j + 1 /\ p[j + 1] = m)
        <4>1. CASE Len(q) = k
          BY <3>1, <4>1
        <4>2. CASE Len(q) = k + 1 /\ q[k + 1] = m
          <5>1. Len(p) = j + 1 /\ j + 1 \in 1 .. Len(p)
            BY <3>1, <4>2
          <5>2. p[j + 1] = q[(j + 1) + 1]
            BY <5>1
          <5>. QED BY <3>1, <4>2, <5>1, <5>2
        <4>. QED BY <2>1, <4>1, <4>2
      <3>4. ASSUME NEW i \in 1 .. j - 1 PROVE p[i].kind = "m1"
        <4>1. i + 1 \in 1 .. k - 1 /\ i \in 1 .. Len(p)
          BY <2>1, <3>1
        <4>2. p[i] = q[i + 1] /\ q[i + 1].kind = "m1"
          BY <2>1, <4>1
        <4>. QED BY <4>2
      <3>. HIDE DEF j
      <3>5. Answered(p, m)
        BY <3>1, <3>2, <3>3, <3>4 DEF Answered
      <3>6. 1 \in 1 .. k - 1
        BY <2>1, <2>3
      <3>. QED BY <2>1, <3>5, <3>6
    <2>. QED BY <2>2, <2>3
  <1>4. ASSUME AnswerLast(q)
        PROVE  \/ q[1].kind = "m1" /\ AnswerLast(p)
               \/ q[1] = AssocFrame /\ p = <<>>
    <2>1. CASE Len(q) = 1
      BY <1>4, <2>1 DEF AnswerLast
    <2>2. CASE Len(q) > 1
      <3>1. q[1].kind = "m1" /\ Len(p) > 0
        BY <1>4, <2>2 DEF AnswerLast
      <3>2. p[Len(p)] = AssocFrame
        <4>1. Len(p) \in 1 .. Len(p) /\ Len(p) + 1 = Len(q)
          BY <2>2
        <4>2. p[Len(p)] = q[Len(p) + 1]
          BY <4>1
        <4>. QED BY <1>4, <4>1, <4>2 DEF AnswerLast
      <3>3. ASSUME NEW i \in 1 .. Len(p) - 1 PROVE p[i].kind = "m1"
        <4>1. i + 1 \in 1 .. Len(q) - 1 /\ i \in 1 .. Len(p)
          BY <1>1
        <4>2. p[i] = q[i + 1] /\ q[i + 1].kind = "m1"
          BY <1>4, <4>1 DEF AnswerLast
        <4>. QED BY <4>2
      <3>. QED BY <3>1, <3>2, <3>3 DEF AnswerLast
    <2>. QED BY <2>1, <2>2
  <1>. QED BY <1>2, <1>3, <1>4, Zenon

(* The same for the head and the tail of a queue.                          *)
LEMMA AnswerTail ==
  ASSUME NEW q \in Seq(FrameSet), q # <<>>, NEW m
  PROVE  /\ OldM1s(q) => Head(q).kind = "m1" /\ OldM1s(Tail(q))
         /\ Answered(q, m) =>
              \/ Head(q).kind = "m1" /\ Answered(Tail(q), m)
              \/ Head(q) = AssocFrame /\ Tail(q) \in {<<>>, <<m>>}
         /\ AnswerLast(q) =>
              \/ Head(q).kind = "m1" /\ AnswerLast(Tail(q))
              \/ Head(q) = AssocFrame /\ Tail(q) = <<>>
  <1>1. /\ Tail(q) \in Seq(FrameSet) /\ Len(Tail(q)) = Len(q) - 1
        /\ \A i \in 1 .. Len(Tail(q)) : Tail(q)[i] = q[i + 1]
        /\ Len(q) \in Nat /\ Len(q) > 0 /\ Head(q) = q[1]
    BY HeadTailProperties, EmptySeq, LenProperties
  <1>. DEFINE p == Tail(q)
  <1>2. p \in Seq(FrameSet)
    BY <1>1
  <1>. HIDE DEF p
  <1>3. Len(p) = 0 => p = <<>>
    BY <1>2, EmptySeq
  <1>4. Len(p) = 1 => p = <<p[1]>>
    BY <1>2
  <1>. USE DEF p
  <1>. QED BY <1>1, <1>3, <1>4, AnswerShift, Zenon

(* The same when a frame arrives in the ring.                              *)
LEMMA AnswerArrives ==
  ASSUME NEW q \in Seq(FrameSet), NEW f \in FrameSet
  PROVE  /\ OldM1s(q) /\ f.kind = "m1" => OldM1s(Append(q, f))
         /\ OldM1s(q) /\ f = AssocFrame => AnswerLast(Append(q, f))
         /\ AnswerLast(q) => Answered(Append(q, f), f)
  <1>1. /\ Len(Append(q, f)) = Len(q) + 1 /\ Len(q) \in Nat
        /\ \A i \in 1 .. Len(q) : Append(q, f)[i] = q[i]
        /\ Append(q, f)[Len(q) + 1] = f
    BY AppendProperties, LenProperties
  <1>2. OldM1s(q) /\ f.kind = "m1" => OldM1s(Append(q, f))
    BY <1>1 DEF OldM1s
  <1>3. OldM1s(q) /\ f = AssocFrame => AnswerLast(Append(q, f))
    BY <1>1 DEF OldM1s, AnswerLast
  <1>4. AnswerLast(q) => Answered(Append(q, f), f)
    BY <1>1 DEF AnswerLast, Answered
  <1>. QED BY <1>2, <1>3, <1>4

(* The access point's answer to a request.                                 *)
LEMMA AnswerSent ==
  ASSUME NEW q \in Seq(FrameSet), NEW m \in FrameSet, AssocFrame \in FrameSet, OldM1s(q)
  PROVE  Answered(q \o <<AssocFrame, m>>, m)
  <1>. DEFINE s == <<AssocFrame, m>>
              r == q \o s
  <1>1. s \in Seq(FrameSet) /\ Len(s) = 2 /\ s[1] = AssocFrame /\ s[2] = m
    OBVIOUS
  <1>. HIDE DEF s
  <1>2. /\ Len(r) = Len(q) + Len(s)
        /\ \A i \in 1 .. Len(q) + Len(s) : r[i] = IF i <= Len(q) THEN q[i] ELSE s[i - Len(q)]
    BY <1>1, ConcatProperties, Zenon
  <1>. HIDE DEF r
  <1>3. Len(q) \in Nat
    BY LenProperties
  <1>. DEFINE k == Len(q) + 1
  <1>4. k \in 1 .. Len(r) /\ Len(r) = k + 1
    BY <1>1, <1>2, <1>3
  <1>5. r[k] = AssocFrame /\ r[k + 1] = m
    BY <1>1, <1>2, <1>3
  <1>6. \A i \in 1 .. k - 1 : r[i].kind = "m1"
    BY <1>1, <1>2, <1>3 DEF OldM1s
  <1>7. Answered(r, m)
    BY <1>4, <1>5, <1>6 DEF Answered
  <1>. QED BY <1>7 DEF r, s
-----------------------------------------------------------------------------
(* What the frames of a prompt join carry.                                 *)
LEMMA FramesCarry ==
  /\ AuthFrame.kind = "auth" /\ AssocFrame.kind = "assoc"
  /\ M1Now.kind = "m1" /\ M1Now.n = apSess /\ M1Now.ctr = apCtr
  /\ M2Now.kind = "m2" /\ M2Now.ctr = replay /\ M2Now.key = apSess
  /\ M3Now.kind = "m3" /\ M3Now.key = apSess
  BY DEF AuthFrame, AssocFrame, M1Now, M2Now, M3Now, ApOf, Frame

(* The requests.                                                           *)
LEMMA LossSendRequest ==
  ASSUME Counters, Phases, SendRequest
  PROVE  Phases'
  <1>. USE DEF out, apVars
  <1>1. CASE pc = "auth"
    <2>1. Nothing(up, air, ring) /\ t <= losses /\ ap = "idle"
      BY <1>1 DEF Phases, AuthInv
    <2>2. /\ up' = Append(up, AuthFrame) /\ UNCHANGED <<air, ring, ap, rc, losses>>
          /\ pc' = "authsnap" /\ t' = t + 1
      BY <1>1 DEF SendRequest, Send, AuthFrame
    <2>3. OneUp(up', air', ring', AuthFrame)
      BY <2>1, <2>2, FirstFrame, Zenon
    <2>4. t' <= losses' + 1
      BY <2>1, <2>2 DEF Counters
    <2>5. AuthInv'
      BY <2>1, <2>2, <2>3, <2>4 DEF AuthInv
    <2>. QED BY <2>2, <2>5 DEF Phases
  <1>2. CASE pc = "assoc"
    <2>1. up = <<>> /\ OldM1s(air) /\ OldM1s(ring) /\ t <= losses /\ ap \in {"idle", "m1"}
      BY <1>2 DEF Phases, AssocInv, Unanswered, Requested, Accepted
    <2>2. /\ up' = Append(up, AssocFrame) /\ UNCHANGED <<air, ring, ap, rc, losses>>
          /\ pc' = "assocsnap" /\ t' = t + 1
      BY <1>2 DEF SendRequest, Send, AssocFrame
    <2>3. up' = <<AssocFrame>>
      BY <2>1, <2>2, OneFrame, Zenon
    <2>4. t' <= losses' + 1
      BY <2>1, <2>2 DEF Counters
    <2>5. AssocInv'
      BY <2>1, <2>2, <2>3, <2>4 DEF AssocInv, Requested
    <2>. QED BY <2>2, <2>5 DEF Phases
  <1>. QED BY <1>1, <1>2 DEF SendRequest

(* The snaps: at a request nothing is lost with the ring, after PBKDF2 at  *)
(* most the first M1.                                                      *)
LEMMA LossSnap ==
  ASSUME Counters, Phases, Snap
  PROVE  Phases'
  <1>. USE DEF out, apVars
  <1>0. UNCHANGED <<up, air, ap, apTry, apSess, apCtr, rc, losses, quiet>> /\ ring' = <<>>
    BY DEF Snap
  <1>1. CASE pc = "authsnap"
    <2>1. pc' = "authwait" /\ t' = t /\ ap = "idle"
      BY <1>1 DEF Snap, Phases, AuthInv
    <2>2. \/ Nothing(up, air, ring) /\ t <= losses
          \/ OneUp(up, air, ring, AuthFrame) /\ t <= losses + 1
      BY <1>1 DEF Phases, AuthInv
    <2>3. ring = <<>>
      BY <2>2, OnlyFrame, Zenon
    <2>4. AuthInv'
      BY <1>0, <2>1, <2>2, <2>3 DEF AuthInv
    <2>. QED BY <1>0, <2>1, <2>4 DEF Phases
  <1>2. CASE pc = "assocsnap"
    <2>1. pc' = "assocwait" /\ t' = t /\ ap \in {"idle", "m1"}
      BY <1>2 DEF Snap, Phases, AssocInv
    <2>2. Unanswered \/ Requested
      BY <1>2 DEF Phases, AssocInv, Accepted
    <2>3. OldM1s(ring')
      BY <1>0 DEF OldM1s
    <2>4. Unanswered' \/ Requested'
      BY <1>0, <2>1, <2>2, <2>3 DEF Unanswered, Requested
    <2>. QED BY <1>0, <2>1, <2>4 DEF Phases, AssocInv
  <1>3. CASE pc = "pbkdf2"
    <2>1. /\ pc' = "m1" /\ t' = 0 /\ ap = "m1" /\ apTry = 0 /\ losses \in Nat
          /\ Nothing(up, air, ring) \/ OneDown(up, air, ring, M1Now)
      BY <1>3, JoinConstants DEF Snap, Phases, PmkInv, Counters
    <2>2. Nothing(up, air, <<>>) \/ OneDown(up, air, <<>>, M1Now)
      BY <2>1, OnlyFrame, Zenon DEF Nothing
    <2>3. M1Now' = M1Now
      BY <1>0 DEF M1Now
    <2>4. Nothing(up', air', ring') \/ OneDown(up', air', ring', M1Now')
      BY <1>0, <2>2, <2>3, Zenon
    <2>5. apTry' <= losses' + 1 /\ t' <= 2 * losses'
      BY <1>0, <2>1
    <2>6. M1Inv'
      BY <1>0, <2>1, <2>4, <2>5 DEF M1Inv
    <2>. QED BY <1>0, <2>1, <2>6 DEF Phases
  <1>. QED BY <1>1, <1>2, <1>3 DEF Snap

(* The responses: no rejection is among them, and behind the answer to the *)
(* association request there is at most the first M1.                      *)
LEMMA LossResponse ==
  ASSUME JInv, Counters, Phases, Prompt, Response
  PROVE  Phases'
  <1>. USE DEF apVars
  <1>0. /\ UNCHANGED <<up, air, ap, apTry, apSess, apCtr, losses>> /\ ring # <<>> /\ ring' = Tail(ring)
        /\ ring \in Seq(FrameSet)
    BY DEF Response, Read, JInv, JoinTypes
  <1>1. CASE pc = "authwait"
    <2>1. OneDown(up, air, ring, AuthFrame) /\ ap = "idle"
      BY <1>0, <1>1, OnlyFrame, Zenon DEF Phases, AuthInv
    <2>2. Nothing(up, air, Tail(ring)) /\ Head(ring) = AuthFrame
      BY <1>0, <2>1, OnlyFrame, Zenon
    <2>3. Head(ring).kind = "auth"
      BY <2>2, FramesCarry
    <2>4. pc' = "assoc" /\ t' = 0 /\ UNCHANGED rc
      BY <1>1, <2>3 DEF Response, Read, out
    <2>5. up' = <<>> /\ air' = <<>> /\ ring' = <<>>
      BY <1>0, <2>2, Zenon DEF Nothing
    <2>6. OldM1s(<<>>)
      BY DEF OldM1s
    <2>7. t' <= losses'
      BY <1>0, <2>4, JoinConstants DEF Counters
    <2>8. Unanswered'
      BY <2>5, <2>6, <2>7, Zenon DEF Unanswered
    <2>. QED BY <1>0, <2>1, <2>4, <2>8 DEF Phases, AssocInv
  <1>2. CASE pc = "assocwait"
    <2>1. Head(ring).kind \in {"assoc", "reject"}
      BY <1>2 DEF Response, Read
    <2>2. Unanswered \/ Requested \/ Accepted
      BY <1>2 DEF Phases, AssocInv
    <2>3. ~OldM1s(ring)
      BY <1>0, <2>1, AnswerTail
    <2>4. Accepted
      BY <2>2, <2>3 DEF Unanswered, Requested
    <2>5. \/ Answered(ring, M1Now) /\ air = <<>>
          \/ AnswerLast(ring) /\ air = <<M1Now>>
      BY <2>3, <2>4 DEF Accepted
    <2>6. /\ Head(ring) = AssocFrame
          /\ (air = <<>> /\ Tail(ring) \in {<<>>, <<M1Now>>}) \/ (air = <<M1Now>> /\ Tail(ring) = <<>>)
      BY <1>0, <2>1, <2>5, AnswerTail
    <2>7. pc' = "pbkdf2" /\ UNCHANGED rc
      BY <1>2, <2>6, FramesCarry DEF Response, Read, out, Prompt
    <2>8. M1Now' = M1Now
      BY <1>0 DEF M1Now
    <2>9. Nothing(up', air', ring') \/ OneDown(up', air', ring', M1Now')
      BY <1>0, <2>4, <2>6, <2>8 DEF Accepted, Nothing, OneDown
    <2>10. PmkInv'
      BY <1>0, <2>4, <2>9 DEF PmkInv, Accepted
    <2>. QED BY <2>7, <2>10 DEF Phases
  <1>. QED BY <1>1, <1>2 DEF Response

(* The skipped frames: only old M1s in the wait for an association         *)
(* response.                                                               *)
LEMMA LossSkip ==
  ASSUME JInv, Counters, Phases, Skip
  PROVE  Phases'
  <1>. USE DEF apVars, out, loop, keys
  <1>0. /\ UNCHANGED <<pc, up, air, ap, apTry, apSess, apCtr, t, losses, rc>>
        /\ ring # <<>> /\ ring' = Tail(ring) /\ ring \in Seq(FrameSet)
    BY DEF Skip, Read, JInv, JoinTypes
  <1>1. CASE pc = "authwait"
    <2>0. AuthInv
      BY <1>1 DEF Phases
    <2>1. Head(ring) = AuthFrame
      BY <1>0, <2>0, OnlyFrame DEF AuthInv
    <2>. QED BY <1>1, <2>1, FramesCarry DEF Skip, Read
  <1>2. CASE pc = "assocwait"
    <2>1. Head(ring).kind # "assoc"
      BY <1>2 DEF Skip, Read
    <2>2. M1Now' = M1Now
      BY <1>0 DEF M1Now
    <2>3. /\ OldM1s(ring) => OldM1s(ring')
          /\ Answered(ring, M1Now) => Answered(ring', M1Now)
          /\ AnswerLast(ring) => AnswerLast(ring')
      BY <1>0, <2>1, AnswerTail, FramesCarry
    <2>4. Unanswered \/ Requested \/ Accepted
      BY <1>2 DEF Phases, AssocInv
    <2>5. Unanswered' \/ Requested' \/ Accepted'
      BY <1>0, <2>2, <2>3, <2>4 DEF Unanswered, Requested, Accepted
    <2>6. AssocInv'
      BY <1>0, <1>2, <2>5 DEF Phases, AssocInv
    <2>. QED BY <1>0, <1>2, <2>6 DEF Phases
  <1>3. CASE pc = "m1"
    <2>1. Head(ring) = M1Now
      BY <1>0, <1>3, OnlyFrame, Zenon DEF Phases, M1Inv
    <2>. QED BY <1>3, <2>1, FramesCarry DEF Skip, Read
  <1>4. CASE pc = "m3"
    <2>0. M3Inv
      BY <1>4 DEF Phases
    <2>1. Head(ring) = M1Now \/ Head(ring) = M3Now
      BY <1>0, <2>0, OnlyFrame DEF M3Inv, Advancing, Repeating, Stalled
    <2>. QED BY <1>4, <2>1, FramesCarry DEF Skip, Read
  <1>5. CASE pc = "m4"
    BY <1>0, <1>5 DEF Phases
  <1>. QED BY <1>1, <1>2, <1>3, <1>4, <1>5 DEF Skip

(* For a prompt join silence means that nothing is on its way and that the *)
(* access point is not about to repeat its message.                        *)
LEMMA SilentMeans ==
  ASSUME Prompt, Silent
  PROVE  up = <<>> /\ air = <<>> /\ ring = <<>> /\ ~ApDue
  BY DEF Prompt, Silent, Untimed

(* The retry limits a station and an access point need for MaxLoss losses. *)
Survivable ==
  /\ MaxLoss < AuthTries /\ MaxLoss < AssocTries /\ MaxLoss < ApRetries
  /\ 2 * MaxLoss < M1Wait /\ 2 * MaxLoss < MaxTimeouts /\ 3 * MaxLoss < MaxIters

(* A silent wait for a response has cost a loss for every try so far.      *)
LEMMA LossNoResponse ==
  ASSUME Counters, Phases, Prompt, Survivable, NoResponse
  PROVE  Phases'
  <1>. USE DEF apVars, out, loop
  <1>0. /\ UNCHANGED <<up, air, ring, ap, apTry, t, losses>>
        /\ up = <<>> /\ air = <<>> /\ ring = <<>>
    BY SilentMeans DEF NoResponse
  <1>1. CASE pc = "authwait"
    <2>1. Nothing(up, air, ring) /\ t <= losses /\ ap = "idle"
      BY <1>0, <1>1, OneFrame, Zenon DEF Phases, AuthInv, OneUp, OneDown
    <2>2. t < AuthTries
      BY <2>1, JoinConstants DEF Counters, Survivable
    <2>3. pc' = "auth" /\ UNCHANGED rc
      BY <1>1, <2>2 DEF NoResponse
    <2>4. AuthInv'
      BY <1>0, <2>1 DEF AuthInv
    <2>. QED BY <2>3, <2>4 DEF Phases
  <1>2. CASE pc = "assocwait"
    <2>1. ~Requested
      BY <1>0 DEF Requested
    <2>2. ~Accepted
      BY <1>0 DEF Accepted, Answered, AnswerLast
    <2>3. Unanswered /\ ap \in {"idle", "m1"}
      BY <1>2, <2>1, <2>2 DEF Phases, AssocInv
    <2>4. t < AssocTries
      BY <2>3, JoinConstants DEF Counters, Survivable, Unanswered
    <2>5. pc' = "assoc" /\ UNCHANGED rc
      BY <1>2, <2>4 DEF NoResponse
    <2>6. AssocInv'
      BY <1>0, <2>3 DEF AssocInv, Unanswered
    <2>. QED BY <2>5, <2>6 DEF Phases
  <1>. QED BY <1>1, <1>2 DEF NoResponse

(* The M1 that the station answers is the access point's latest.           *)
LEMMA LossRecvM1 ==
  ASSUME JInv, Counters, Phases, Prompt, RecvM1
  PROVE  Phases'
  <1>. USE DEF apVars, out
  <1>0. /\ UNCHANGED <<pass, air, ap, apTry, apSess, apCtr, losses, rc>> /\ pc = "m1" /\ pc' = "m3"
        /\ ring # <<>> /\ ring' = Tail(ring)
        /\ replay' = Head(ring).ctr /\ anonce' = Head(ring).n
        /\ timeouts' = 0 /\ iters' = 0 /\ losses \in Nat
    BY JoinConstants DEF RecvM1, Read, Counters
  <1>1. OneDown(up, air, ring, M1Now) /\ apTry <= losses + 1 /\ ap = "m1"
    BY <1>0, OnlyFrame, Zenon DEF Phases, M1Inv
  <1>2. Head(ring) = M1Now /\ Nothing(up, air, ring')
    BY <1>0, <1>1, OnlyFrame, Zenon
  <1>3. replay' = apCtr /\ anonce' = apSess
    BY <1>0, <1>2, FramesCarry
  <1>4. up' = Append(up, M2Now')
    BY <1>0, <1>3 DEF RecvM1, Send, M2, M2Now, Ptk, Prompt
  <1>5. OneUp(up', air', ring', M2Now')
    BY <1>0, <1>2, <1>4, FirstFrame, Zenon
  <1>6. apSess > 0
    BY <1>1 DEF JInv, MicInv
  <1>7. apTry' <= losses' + 1 /\ timeouts' <= 2 * losses' /\ iters' <= timeouts' + losses'
    BY <1>0, <1>1
  <1>8. M3Inv'
    BY <1>0, <1>1, <1>3, <1>5, <1>6, <1>7 DEF M3Inv, Advancing
  <1>. QED BY <1>0, <1>8 DEF Phases

(* Silence in a handshake: the access point has repeated its message, and  *)
(* less than a second has passed since.                                    *)
LEMMA NotDue ==
  ASSUME Counters, Survivable, ~ApDue, ap \in {"m1", "m3"}, apTry <= losses
  PROVE  apTry >= 1 /\ quiet < 2
  BY JoinConstants DEF Counters, Survivable, ApDue

(* A silence in the wait for M1.                                           *)
LEMMA LossNoM1 ==
  ASSUME Counters, Phases, Prompt, Survivable, NoM1
  PROVE  Phases'
  <1>. USE DEF apVars, out
  <1>0. /\ UNCHANGED <<up, air, ring, ap, apTry, losses>> /\ pc = "m1" /\ t' = t + 1
        /\ quiet' = (IF quiet < 2 THEN quiet + 1 ELSE 2) /\ losses \in Nat
        /\ up = <<>> /\ air = <<>> /\ ring = <<>> /\ ~ApDue
    BY SilentMeans, JoinConstants DEF NoM1, Pause, Counters
  <1>1. Nothing(up, air, ring) /\ ap = "m1" /\ apTry <= losses
    BY <1>0, OneFrame DEF Phases, M1Inv, OneDown, Nothing
  <1>2. apTry >= 1 /\ quiet < 2
    BY <1>0, <1>1, NotDue
  <1>3. losses >= 1 /\ t <= 2 * losses - 2 + quiet
    BY <1>0, <1>2, OneFrame DEF Phases, M1Inv, OneDown
  <1>4. t' <= 2 * losses' - 2 + quiet' /\ t + 1 < M1Wait
    BY <1>0, <1>2, <1>3, JoinConstants DEF Counters, Survivable
  <1>5. UNCHANGED <<pc, rc>>
    BY <1>4 DEF NoM1
  <1>6. M1Inv'
    BY <1>0, <1>1, <1>3, <1>4 DEF M1Inv
  <1>. QED BY <1>0, <1>5, <1>6 DEF Phases

(* The M3 loop is never left for want of an M3.                            *)
LEMMA LossNoValidM3 ==
  ASSUME Counters, Phases, Survivable, pc = "m3"
  PROVE  MoreM3
  <1>1. M3Inv
    BY DEF Phases
  <1>2. timeouts <= 2 * losses /\ iters <= timeouts + losses
    <2>1. timeouts \in Nat /\ iters \in Nat /\ losses \in Nat /\ quiet \in 0 .. 2
      BY JoinConstants DEF Counters
    <2>2. CASE Repeating
      BY <2>1, <2>2 DEF Repeating
    <2>3. CASE Stalled
      BY <2>1, <2>3 DEF Stalled
    <2>. QED BY <1>1, <2>2, <2>3 DEF M3Inv, Advancing
  <1>. QED BY <1>2, JoinConstants DEF MoreM3, Counters, Survivable

(* A repeated M1 in the M3 loop: the new M2 is the one the access point    *)
(* waits for.                                                              *)
LEMMA LossRepeatedM1 ==
  ASSUME Counters, Phases, Prompt, RepeatedM1
  PROVE  Phases'
  <1>. USE DEF apVars, out
  <1>0. /\ UNCHANGED <<pc, pass, air, ap, apTry, apSess, apCtr, losses, rc, anonce, timeouts>>
        /\ pc = "m3" /\ ring # <<>> /\ ring' = Tail(ring) /\ Head(ring).kind = "m1"
        /\ replay' = Head(ring).ctr /\ iters' = iters + 1
    BY DEF RepeatedM1, Read
  <1>1. M3Inv
    BY <1>0 DEF Phases
  <1>2. Repeating
    BY <1>0, <1>1, OnlyFrame, FramesCarry DEF M3Inv, Advancing, Stalled
  <1>3. Head(ring) = M1Now /\ Nothing(up, air, ring')
    BY <1>0, <1>2, OnlyFrame, Zenon DEF Repeating
  <1>4. replay' = apCtr
    BY <1>0, <1>3, FramesCarry
  <1>5. up' = Append(up, M2Now')
    BY <1>0, <1>1 DEF RepeatedM1, Send, M2, M2Now, Ptk, Prompt, M3Inv
  <1>6. OneUp(up', air', ring', M2Now')
    BY <1>0, <1>3, <1>5, FirstFrame, Zenon
  <1>7. apTry' <= losses' + 1 /\ timeouts' <= 2 * losses' /\ iters' <= timeouts' + losses'
    <2>1. apTry <= losses + 1 /\ timeouts <= 2 * losses /\ iters <= timeouts + losses - 1
      BY <1>2 DEF Repeating
    <2>2. timeouts \in Nat /\ iters \in Nat /\ losses \in Nat
      BY JoinConstants DEF Counters
    <2>3. iters + 1 <= timeouts + losses
      BY <2>1, <2>2
    <2>. QED BY <1>0, <2>1, <2>3
  <1>8. Advancing'
    BY <1>0, <1>2, <1>4, <1>6, <1>7 DEF Advancing, Repeating
  <1>9. M3Inv'
    BY <1>0, <1>1, <1>8 DEF M3Inv
  <1>. QED BY <1>0, <1>9 DEF Phases

(* A silence in the M3 loop: the M2 that goes out again is the one the     *)
(* access point waits for, or one that it will drop.                       *)
LEMMA LossNoM3 ==
  ASSUME Counters, Phases, Prompt, Survivable, NoM3
  PROVE  Phases'
  <1>. USE DEF apVars, out
  <1>0. /\ UNCHANGED <<pc, pass, air, ring, ap, apTry, apSess, apCtr, losses, rc, anonce, replay>>
        /\ pc = "m3" /\ iters' = iters + 1 /\ timeouts' = timeouts + 1
        /\ quiet' = (IF quiet < 2 THEN quiet + 1 ELSE 2)
        /\ up = <<>> /\ air = <<>> /\ ring = <<>> /\ ~ApDue
    BY SilentMeans DEF NoM3, Pause
  <1>1. M3Inv
    BY <1>0 DEF Phases
  <1>2. Stalled /\ Nothing(up, air, ring)
    BY <1>0, <1>1, OneFrame DEF M3Inv, Advancing, Repeating, OneUp, OneDown, Nothing
  <1>3. quiet < 2
    BY <1>0, <1>1, <1>2, NotDue DEF M3Inv, Stalled
  <1>4. up' = Append(up, M2Now')
    BY <1>0, <1>1 DEF NoM3, Send, M2, M2Now, Ptk, Prompt, M3Inv
  <1>5. OneUp(up', air', ring', M2Now')
    BY <1>0, <1>2, <1>4, FirstFrame, Zenon
  <1>6. /\ losses' >= 1 /\ apTry' <= losses' /\ timeouts' <= 2 * losses' - 2 + quiet'
        /\ iters' <= timeouts' + losses' - 1
    BY <1>0, <1>2, <1>3, JoinConstants DEF Stalled, Counters
  <1>7. Stalled'
    BY <1>5, <1>6 DEF Stalled
  <1>8. apTry' <= losses' + 1 /\ timeouts' <= 2 * losses' /\ iters' <= timeouts' + losses'
    BY <1>0, <1>3, <1>6, JoinConstants DEF Counters
  <1>9. ap' = "m1" /\ replay' = apCtr' => Advancing'
    BY <1>5, <1>8 DEF Advancing
  <1>10. M3Inv'
    BY <1>0, <1>1, <1>7, <1>9 DEF M3Inv
  <1>. QED BY <1>0, <1>10 DEF Phases

(* The frames the M3 loop checks are M3s under our key.                    *)
LEMMA LossMicOk ==
  ASSUME Phases, Prompt, pc = "m3", Read({"m3", "m3bare", "noise"})
  PROVE  MicOk(Head(ring)) /\ Head(ring).kind = "m3"
  <1>0. ring # <<>> /\ Head(ring).kind # "m1"
    BY DEF Read
  <1>1. M3Inv
    BY DEF Phases
  <1>2. Head(ring) = M3Now
    BY <1>0, <1>1, OnlyFrame, FramesCarry DEF M3Inv, Advancing, Repeating, Stalled
  <1>. QED BY <1>1, <1>2, FramesCarry DEF MicOk, Ptk, Prompt, M3Inv

(* Hence the station ends the M3 loop with M4.                             *)
LEMMA LossM3 ==
  ASSUME Phases, Prompt, BadMic \/ RecvM3
  PROVE  Phases'
  <1>1. pc = "m3" /\ Read({"m3", "m3bare", "noise"})
    BY DEF BadMic, RecvM3
  <1>2. MicOk(Head(ring)) /\ Head(ring).kind = "m3"
    BY <1>1, LossMicOk
  <1>3. pc' = "m4" /\ UNCHANGED rc
    BY <1>2 DEF BadMic, RecvM3, out
  <1>. QED BY <1>3 DEF Phases

(* The steps of the station.                                               *)
LEMMA LossStation ==
  ASSUME JInv, Counters, Phases, Prompt, Survivable, Station
  PROVE  Phases'
  <1>1. CASE listen_eapol \/ NoValidM3
    BY <1>1, LossNoValidM3 DEF listen_eapol, NoValidM3, Phases
  <1>2. CASE Window
    BY <1>2 DEF Window, Phases, out
  <1>3. CASE Complete
    BY <1>3 DEF Complete, Phases
  <1>. QED BY <1>1, <1>2, <1>3, LossSendRequest, LossSnap, LossResponse, LossSkip,
         LossNoResponse, LossRecvM1, LossNoM1, LossRepeatedM1, LossNoM3, LossM3 DEF Station
-----------------------------------------------------------------------------
(* The steps that leave the station alone.                                 *)
AirKeeps == UNCHANGED <<pc, pass, rc, t, timeouts, iters, replay, anonce>>

(* A frame arrives in our ring.                                            *)
LEMMA LossArrive ==
  ASSUME JInv, Phases, Arrive
  PROVE  Phases'
  <1>. USE DEF apVars, out, loop, keys
  <1>0. /\ AirKeeps /\ UNCHANGED <<ap, apTry, apSess, apCtr, up, quiet, losses>>
        /\ air # <<>> /\ air' = Tail(air) /\ ring' = Append(ring, Head(air))
        /\ air \in Seq(FrameSet) /\ ring \in Seq(FrameSet) /\ Head(air) \in FrameSet
    BY ItemsTail DEF Arrive, AirKeeps, JInv, JoinTypes
  <1>1. M1Now' = M1Now /\ M2Now' = M2Now /\ M3Now' = M3Now
    BY <1>0 DEF M1Now, M2Now, M3Now, AirKeeps
  <1>2. /\ ~Nothing(up, air, ring)
        /\ ~OneUp(up, air, ring, AuthFrame) /\ ~OneUp(up, air, ring, M2Now)
        /\ OneDown(up, air, ring, AuthFrame) => OneDown(up', air', ring', AuthFrame)
        /\ OneDown(up, air, ring, M1Now) => OneDown(up', air', ring', M1Now')
        /\ OneDown(up, air, ring, M3Now) => OneDown(up', air', ring', M3Now')
    BY <1>0, <1>1, OnlyFrame
  <1>3. AuthInv => AuthInv'
    BY <1>0, <1>2 DEF AuthInv, AirKeeps
  <1>4. PmkInv => PmkInv'
    BY <1>0, <1>2 DEF PmkInv, AirKeeps
  <1>5. M1Inv => M1Inv'
    BY <1>0, <1>2 DEF M1Inv, AirKeeps
  <1>6. M3Inv => M3Inv'
    BY <1>0, <1>2 DEF M3Inv, Advancing, Repeating, Stalled, AirKeeps
  <1>7. AssocInv => AssocInv'
    <2>1. OldM1s(air) /\ OldM1s(ring) => OldM1s(air') /\ OldM1s(ring')
      BY <1>0, AnswerTail, AnswerArrives
    <2>2. Unanswered \/ Requested => Unanswered' \/ Requested'
      BY <1>0, <2>1 DEF Unanswered, Requested, AirKeeps
    <2>3. ASSUME OldM1s(ring), Answered(air, M1Now)
          PROVE  \/ OldM1s(ring') /\ Answered(air', M1Now)
                 \/ AnswerLast(ring') /\ air' \in {<<>>, <<M1Now>>}
      BY <1>0, <2>3, AnswerTail, AnswerArrives
    <2>4. AnswerLast(ring') => Answered(ring', M1Now)
      BY <1>0, AppendProperties, LenProperties DEF AnswerLast, Answered
    <2>5. ASSUME AnswerLast(ring), air = <<M1Now>>
          PROVE  Answered(ring', M1Now) /\ air' = <<>>
      BY <1>0, <2>5, OneFrame, AnswerArrives
    <2>6. Accepted => Accepted'
      BY <1>0, <1>1, <2>3, <2>4, <2>5 DEF Accepted, AirKeeps
    <2>. QED BY <1>0, <2>2, <2>6 DEF AssocInv
  <1>. QED BY <1>0, <1>3, <1>4, <1>5, <1>6, <1>7 DEF Phases, AirKeeps

(* A frame is lost: one more try, repetition or pair of silences is paid   *)
(* for.                                                                    *)
LEMMA LossLose ==
  ASSUME JInv, Counters, Phases, Lose
  PROVE  Phases'
  <1>. USE DEF apVars, out, loop, keys
  <1>0. /\ AirKeeps /\ UNCHANGED <<ap, apTry, apSess, apCtr, ring, quiet>>
        /\ losses' = losses + 1 /\ losses \in Nat /\ quiet \in Nat
        /\ \/ air # <<>> /\ air' = Tail(air) /\ UNCHANGED up
           \/ up # <<>> /\ up' = Tail(up) /\ UNCHANGED air
        /\ air \in Seq(FrameSet) /\ ring \in Seq(FrameSet)
    <2>1. air \in Seq(FrameSet) /\ ring \in Seq(FrameSet)
      BY DEF JInv, JoinTypes
    <2>2. losses \in Nat /\ quiet \in Nat
      BY JoinConstants DEF Counters
    <2>3. AirKeeps /\ UNCHANGED <<ap, apTry, apSess, apCtr, ring, quiet>>
      BY DEF Lose, AirKeeps
    <2>. QED BY <2>1, <2>2, <2>3 DEF Lose
  <1>1. M1Now' = M1Now /\ M2Now' = M2Now /\ M3Now' = M3Now
    BY <1>0 DEF M1Now, M2Now, M3Now, AirKeeps
  <1>2. /\ ~Nothing(up, air, ring)
        /\ \A f : OneUp(up, air, ring, f) \/ OneDown(up, air, ring, f) => Nothing(up', air', ring')
    <2>1. ~Nothing(up, air, ring)
      BY <1>0 DEF Nothing
    <2>2. ASSUME NEW f, OneUp(up, air, ring, f) PROVE Nothing(up', air', ring')
      <3>1. air = <<>> /\ Nothing(Tail(up), air, ring)
        BY <2>2, OnlyFrame, Zenon
      <3>2. up' = Tail(up) /\ air' = air /\ ring' = ring
        BY <1>0, <3>1
      <3>. QED BY <3>1, <3>2, Zenon
    <2>3. ASSUME NEW f, OneDown(up, air, ring, f) PROVE Nothing(up', air', ring')
      <3>1. up = <<>>
        BY <2>3, OnlyFrame, Zenon
      <3>2. air # <<>> /\ air' = Tail(air) /\ up' = up /\ ring' = ring
        BY <1>0, <3>1
      <3>3. Nothing(up, Tail(air), ring)
        BY <2>3, <3>2, OnlyFrame, Zenon
      <3>. QED BY <3>2, <3>3, Zenon
    <2>. QED BY <2>1, <2>2, <2>3, Zenon
  <1>3. AuthInv => AuthInv'
    BY <1>0, <1>2, JoinConstants DEF AuthInv, AirKeeps, Counters
  <1>4. PmkInv => PmkInv'
    BY <1>0, <1>2 DEF PmkInv, AirKeeps
  <1>5. M1Inv => M1Inv'
    <2>. SUFFICES ASSUME M1Inv PROVE M1Inv'
      OBVIOUS
    <2>1. apTry <= losses + 1 /\ t <= 2 * losses /\ OneDown(up, air, ring, M1Now) /\ ap = "m1"
      BY <1>2 DEF M1Inv
    <2>2. losses' >= 1 /\ apTry <= losses' /\ t <= 2 * losses' - 2 + quiet
      BY <1>0, <2>1 DEF Counters
    <2>. QED BY <1>0, <1>2, <2>1, <2>2 DEF M1Inv, AirKeeps
  <1>6. M3Inv => M3Inv'
    <2>. SUFFICES ASSUME M3Inv PROVE M3Inv'
      OBVIOUS
    <2>1. Nothing(up', air', ring')
      BY <1>2 DEF M3Inv, Advancing, Repeating, Stalled
    <2>2. /\ apTry <= losses + 1 /\ timeouts <= 2 * losses /\ iters <= timeouts + losses
      BY <1>0 DEF M3Inv, Advancing, Repeating, Stalled, Counters
    <2>3. /\ losses' >= 1 /\ apTry <= losses' /\ timeouts <= 2 * losses' - 2 + quiet
          /\ iters <= timeouts + losses' - 1
      BY <1>0, <2>2 DEF Counters
    <2>4. Stalled'
      BY <1>0, <2>1, <2>3 DEF Stalled, AirKeeps
    <2>. QED BY <1>0, <2>1, <2>4 DEF M3Inv, Nothing, AirKeeps
  <1>7. AssocInv => AssocInv'
    <2>. SUFFICES ASSUME AssocInv PROVE AssocInv'
      OBVIOUS
    <2>0. t <= losses' \/ t <= losses + 1
      BY <1>0 DEF AssocInv, Unanswered, Requested, Accepted, Counters
    <2>1. t' <= losses' /\ t' <= losses' + 1
      BY <1>0, <2>0 DEF Counters, AirKeeps
    <2>2. CASE up # <<>> /\ up' = Tail(up) /\ UNCHANGED air
      <3>1. Requested
        BY <2>2 DEF AssocInv, Unanswered, Accepted
      <3>2. up' = <<>>
        BY <2>2, <3>1, OneFrame DEF Requested
      <3>. QED BY <1>0, <2>1, <2>2, <3>1, <3>2 DEF AssocInv, Unanswered, Requested, AirKeeps
    <2>3. CASE air # <<>> /\ air' = Tail(air) /\ UNCHANGED up
      <3>1. OldM1s(air) => OldM1s(air')
        BY <1>0, <2>3, AnswerTail
      <3>2. CASE Unanswered \/ Requested
        BY <1>0, <2>1, <2>3, <3>1, <3>2 DEF AssocInv, Unanswered, Requested, AirKeeps
      <3>3. OldM1s(<<>>) /\ OldM1s(<<M1Now>>)
        BY FramesCarry DEF OldM1s
      <3>4. CASE Accepted /\ Answered(air, M1Now) /\ OldM1s(ring)
        <4>1. Answered(air', M1Now) \/ OldM1s(air')
          BY <1>0, <2>3, <3>3, <3>4, AnswerTail
        <4>2. Unanswered' \/ Accepted'
          BY <1>0, <1>1, <2>1, <2>3, <3>4, <4>1 DEF Unanswered, Accepted, AirKeeps
        <4>. QED BY <1>0, <3>4, <4>2 DEF AssocInv, Accepted
      <3>5. CASE Accepted /\ AnswerLast(ring) /\ air = <<M1Now>>
        <4>1. air' = <<>> /\ Answered(ring, M1Now)
          BY <1>0, <2>3, <3>5, OneFrame, LenProperties DEF AnswerLast, Answered
        <4>2. Accepted'
          BY <1>0, <1>1, <2>1, <2>3, <3>5, <4>1 DEF Accepted, AirKeeps
        <4>. QED BY <1>0, <3>5, <4>2 DEF AssocInv, Accepted
      <3>. QED BY <2>3, <3>2, <3>4, <3>5 DEF AssocInv, Accepted
    <2>. QED BY <1>0, <2>2, <2>3
  <1>. QED BY <1>0, <1>3, <1>4, <1>5, <1>6, <1>7 DEF Phases, AirKeeps

(* The access point repeats its message.                                   *)
LEMMA LossApRetry ==
  ASSUME JInv, Counters, Phases, Prompt, ApRetry
  PROVE  Phases'
  <1>. USE DEF apVars, out, loop, keys
  <1>. DEFINE k == IF ap = "m1" THEN "m1" ELSE "m3"
  <1>0. /\ AirKeeps /\ UNCHANGED <<ap, apSess, up, ring, losses>> /\ ap \in {"m1", "m3"}
        /\ pc # "pbkdf2" /\ up = <<>> /\ air = <<>> /\ ring = <<>>
        /\ apTry' = apTry + 1 /\ losses \in Nat
    BY JoinConstants DEF ApRetry, ApDue, AirKeeps, Prompt, Untimed, Counters
  <1>1. Answer(<<ApOf(k, apSess, apCtr')>>)
    BY <1>0 DEF ApRetry, M3Kind, Prompt
  <1>2. k = "m1" \/ k = "m3"
    OBVIOUS
  <1>. DEFINE e == ApOf(k, apSess, apCtr')
  <1>3. air' = air \o <<e>>
    BY <1>1 DEF Answer
  <1>4. (ap = "m1" => e = M1Now') /\ (ap = "m3" => e = M3Now')
    BY <1>0 DEF M1Now, M3Now
  <1>. HIDE DEF e
  <1>5. Nothing(up, air, ring)
    BY <1>0 DEF Nothing
  <1>6. OneDown(up', air', ring', e) /\ air' = <<e>>
    BY <1>0, <1>3, <1>5, FirstFrame, OneFrame, Zenon
  <1>. HIDE DEF k
  <1>7. ~AuthInv
    BY <1>0 DEF AuthInv
  <1>8. AssocInv => AssocInv'
    <2>. SUFFICES ASSUME AssocInv PROVE AssocInv'
      OBVIOUS
    <2>1. Unanswered /\ ap = "m1"
      BY <1>0 DEF AssocInv, Requested, Accepted, Answered, AnswerLast
    <2>2. OldM1s(<<e>>)
      <3>1. e.kind = "m1"
        BY <1>4, <2>1 DEF M1Now, ApOf, Frame
      <3>. QED BY <3>1 DEF OldM1s
    <2>3. Unanswered'
      BY <1>0, <1>6, <2>1, <2>2, Zenon DEF Unanswered, AirKeeps
    <2>. QED BY <1>0, <2>3 DEF AssocInv
  <1>9. M1Inv => M1Inv'
    <2>. SUFFICES ASSUME M1Inv PROVE M1Inv'
      OBVIOUS
    <2>1. apTry <= losses /\ t <= 2 * losses /\ ap = "m1"
      BY <1>0, <1>5, OneFrame, JoinConstants DEF M1Inv, Counters, OneDown
    <2>2. apTry' <= losses' + 1 /\ t' <= 2 * losses'
      BY <1>0, <2>1 DEF Counters, AirKeeps
    <2>3. OneDown(up', air', ring', M1Now') /\ ap' = "m1"
      BY <1>0, <1>4, <1>6, <2>1
    <2>. QED BY <2>2, <2>3 DEF M1Inv
  <1>10. M3Inv => M3Inv'
    <2>. SUFFICES ASSUME M3Inv PROVE M3Inv'
      OBVIOUS
    <2>1. Stalled
      BY <1>0, OneFrame DEF M3Inv, Advancing, Repeating, OneUp, OneDown
    <2>2. /\ losses' >= 1 /\ apTry' <= losses' + 1 /\ timeouts' <= 2 * losses'
          /\ iters' <= timeouts' + losses' - 1 /\ iters' <= timeouts' + losses'
      <3>1. /\ losses >= 1 /\ apTry <= losses /\ timeouts <= 2 * losses - 2 + quiet
            /\ iters <= timeouts + losses - 1
        BY <2>1 DEF Stalled
      <3>. QED BY <1>0, <3>1 DEF Counters, AirKeeps
    <2>3. CASE ap = "m1"
      <3>1. OneDown(up', air', ring', M1Now') /\ ap' = "m1"
        BY <1>0, <1>4, <1>6, <2>3
      <3>2. Repeating'
        BY <2>2, <3>1 DEF Repeating
      <3>. QED BY <1>0, <3>2 DEF M3Inv, AirKeeps
    <2>4. CASE ap = "m3"
      <3>1. OneDown(up', air', ring', M3Now') /\ ap' = "m3"
        BY <1>0, <1>4, <1>6, <2>4
      <3>2. Advancing'
        BY <2>2, <3>1 DEF Advancing
      <3>. QED BY <1>0, <3>2 DEF M3Inv, AirKeeps
    <2>. QED BY <1>0, <2>3, <2>4
  <1>. QED BY <1>0, <1>7, <1>8, <1>9, <1>10 DEF Phases, AirKeeps

(* The access point receives a frame.                                      *)
LEMMA LossApRecv ==
  ASSUME JInv, Counters, Phases, Prompt, ApRecv
  PROVE  Phases'
  <1>. USE DEF apVars, out, loop, keys
  <1>0. /\ AirKeeps /\ UNCHANGED <<ring, losses>> /\ up # <<>> /\ up' = Tail(up)
        /\ pc \notin {"authsnap", "assocsnap"} /\ losses \in Nat
        /\ air \in Seq(FrameSet)
    BY JoinConstants DEF ApRecv, AirKeeps, Prompt, Untimed, Counters, JInv, JoinTypes
  <1>1. \A s : Answer(s) => air' = air \o s
    BY DEF Answer
  <1>2. ~PmkInv /\ ~M1Inv
    BY <1>0 DEF PmkInv, M1Inv, Nothing, OneDown
  <1>3. CASE pc \in {"auth", "authwait"}
    <2>0. AuthInv
      BY <1>3 DEF Phases
    <2>1. OneUp(up, air, ring, AuthFrame) /\ pc = "authwait" /\ t <= losses + 1 /\ ap = "idle"
      BY <1>0, <1>3, <2>0 DEF AuthInv, Nothing, OneDown
    <2>2. Head(up).kind = "auth" /\ Nothing(up', air, ring)
      BY <1>0, <2>1, OnlyFrame, FramesCarry
    <2>3. UNCHANGED ap /\ Answer(<<AuthFrame>>)
      BY <2>2 DEF ApRecv, Prompt, AuthFrame
    <2>4. OneDown(up', air', ring', AuthFrame)
      BY <1>0, <1>1, <2>2, <2>3, FirstFrame, Zenon
    <2>5. AuthInv'
      BY <1>0, <2>1, <2>3, <2>4 DEF AuthInv, AirKeeps
    <2>. QED BY <1>0, <1>3, <2>5 DEF Phases, AirKeeps
  <1>4. CASE pc \in {"assoc", "assocwait"}
    <2>0. AssocInv
      BY <1>4 DEF Phases
    <2>1. Requested
      BY <1>0, <2>0 DEF AssocInv, Unanswered, Accepted
    <2>2. up' = <<>> /\ Head(up).kind = "assoc" /\ pc = "assocwait"
      BY <1>0, <1>4, <2>1, OneFrame, FramesCarry DEF Requested
    <2>3. /\ ap' = "m1" /\ apTry' = 0 /\ apSess < MaxSess
          /\ apSess' = apSess + 1 /\ apCtr' = apCtr + 1
      BY <2>2 DEF ApRecv, Prompt
    <2>4. Answer(<<AssocFrame, M1Now'>>)
      BY <2>2 DEF ApRecv, Prompt, AssocFrame, M1Now
    <2>5. apSess' \in 0 .. MaxSess /\ apCtr' \in Nat
      <3>1. apSess \in 0 .. MaxSess /\ apCtr \in Nat /\ MaxSess \in Nat
        BY JoinConstants, Zenon DEF JInv, JoinTypes
      <3>. QED BY <2>3, <3>1, OneMoreSession, Zenon
    <2>6. M1Now' \in FrameSet /\ AssocFrame \in FrameSet
      BY <2>5, ApFrames, JoinConstants DEF M1Now, AssocFrame, Kinds
    <2>7. Answered(air', M1Now')
      <3>1. air' = air \o <<AssocFrame, M1Now'>> /\ OldM1s(air)
        BY <1>1, <2>1, <2>4, Zenon DEF Requested
      <3>. QED BY <1>0, <2>6, <3>1, AnswerSent, Zenon
    <2>8. Accepted'
      BY <1>0, <2>1, <2>2, <2>3, <2>7 DEF Requested, Accepted, AirKeeps
    <2>. QED BY <1>0, <1>4, <2>3, <2>8 DEF Phases, AssocInv, AirKeeps
  <1>5. CASE pc = "m3"
    <2>0. M3Inv
      BY <1>5 DEF Phases
    <2>1. OneUp(up, air, ring, M2Now) /\ (Advancing \/ Stalled)
      BY <1>0, <2>0 DEF M3Inv, Advancing, Repeating, Stalled, Nothing, OneDown
    <2>2. /\ Head(up).kind = "m2" /\ Head(up).ctr = replay /\ Head(up).key = apSess
          /\ Nothing(up', air, ring)
      BY <1>0, <2>1, OnlyFrame, FramesCarry
    <2>3. CASE ap = "m1" /\ replay = apCtr
      <3>1. ap' = "m3" /\ apTry' = 0 /\ UNCHANGED apSess
        BY <2>2, <2>3 DEF ApRecv
      <3>2. Answer(<<M3Now'>>)
        BY <2>2, <2>3, <3>1 DEF ApRecv, M3Kind, Prompt, M3Now
      <3>3. OneDown(up', air', ring', M3Now')
        BY <1>0, <1>1, <2>2, <3>2, FirstFrame, Zenon
      <3>4. Advancing
        BY <1>0, <2>0, <2>3 DEF M3Inv, Repeating, Nothing, OneDown
      <3>5. /\ apTry' <= losses' + 1 /\ timeouts' <= 2 * losses'
            /\ iters' <= timeouts' + losses'
        BY <1>0, <3>1, <3>4 DEF Advancing, AirKeeps
      <3>6. M3Inv'
        BY <1>0, <2>0, <3>1, <3>3, <3>5 DEF M3Inv, Advancing, AirKeeps
      <3>. QED BY <1>0, <1>5, <3>6 DEF Phases, AirKeeps
    <2>4. CASE ~(ap = "m1" /\ replay = apCtr)
      <3>1. UNCHANGED <<ap, apTry, apSess, apCtr, air, quiet>>
        BY <2>2, <2>4 DEF ApRecv
      <3>2. Stalled
        BY <2>1, <2>4, <1>0 DEF Advancing, OneDown
      <3>3. Nothing(up', air', ring')
        BY <1>0, <2>2, <3>1, Zenon
      <3>4. Stalled' /\ up' = <<>>
        BY <1>0, <3>1, <3>2, <3>3 DEF Stalled, AirKeeps, Nothing
      <3>5. M3Inv'
        BY <1>0, <2>0, <3>1, <3>4 DEF M3Inv, AirKeeps
      <3>. QED BY <1>0, <1>5, <3>5 DEF Phases, AirKeeps
    <2>. QED BY <2>3, <2>4
  <1>6. CASE pc \notin {"auth", "authwait", "assoc", "assocwait", "m3"}
    BY <1>0, <1>2, <1>6 DEF Phases, AirKeeps
  <1>. QED BY <1>3, <1>4, <1>5, <1>6

(* One step.                                                               *)
LEMMA LossStep ==
  ASSUME JInv, LossInv, Survivable, [Next]_vars
  PROVE  LossInv'
  <1>1. CASE UNCHANGED vars
    BY <1>1 DEF vars, loop, keys, out, apVars, link, LossInv, Counters, Prompt, Phases, AuthInv,
         AssocInv, Unanswered, Requested, Accepted, PmkInv, M1Inv, M3Inv, Advancing, Repeating,
         Stalled, M1Now, M2Now, M3Now
  <1>2. CASE Next
    <2>1. Counters'
      BY <1>2, CountersStep DEF LossInv
    <2>2. UNCHANGED <<pass, faults>>
      <3>1. CASE Air
        BY <3>1 DEF Air, ApRecv, ApRetry, Arrive, Lose, Noise
      <3>2. CASE Station
        BY <3>2 DEF Station, SendRequest, Snap, Response, Skip, NoResponse, listen_eapol, RecvM1,
             NoM1, RepeatedM1, NoM3, BadMic, RecvM3, NoValidM3, Window, Complete
      <3>. QED BY <1>2, <3>1, <3>2 DEF Next
    <2>3. ASSUME Prompt PROVE Phases'
      <3>1. Counters /\ Phases
        BY <2>3 DEF LossInv
      <3>2. ~Noise
        BY <2>3 DEF Noise, Prompt
      <3>. QED BY <1>2, <2>3, <3>1, <3>2, LossStation, LossApRecv, LossApRetry, LossArrive,
             LossLose DEF Next, Air
    <2>. QED BY <2>1, <2>2, <2>3 DEF LossInv, Prompt
  <1>. QED BY <1>1, <1>2

(* Lost frames do not fail a join with the right passphrase at a prompt    *)
(* access point that accepts us, as long as they are fewer than the tries  *)
(* of a request and the repetitions of an M1 or M3, two silences for each  *)
(* fit in the wait for M1 and in the M3 loop, and three iterations for     *)
(* each in that loop.  The code's limits allow one, besides the M1 that    *)
(* the station skips while it computes the PMK.                            *)
THEOREM LossesSurvived ==
  ASSUME Survivable
  PROVE  Spec => []SurvivesLoss
  <1>1. Init => LossInv
    BY JoinConstants DEF Init, LossInv, Counters, Phases, AuthInv, Nothing
  <1>2. JInv /\ LossInv /\ [Next]_vars => LossInv'
    BY LossStep
  <1>3. LossInv => SurvivesLoss
    BY DEF LossInv, Prompt, Phases, SurvivesLoss
  <1>. QED BY <1>1, <1>2, <1>3, JoinInduction, PTL DEF Spec
=============================================================================
