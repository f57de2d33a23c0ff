-------------------------------- MODULE H2C ---------------------------------
(***************************************************************************)
(* The two ways the host commands the firmware: 32-byte H2C packets, which *)
(* all go through trx.c's one packet buffer and the H2C ring (fw_handshake *)
(* in h2c.c, rtw_do_iqk in phy.c), and the four mailboxes of media.c.  The *)
(* statics of the driver outlive the firmware, which every bring-up loads  *)
(* anew.  The host sleeps for 2 ms after posting a packet and does not     *)
(* look whether the chip has fetched it.                                   *)
(***************************************************************************)
EXTENDS Integers, Sequences, SequencesExt

VARIABLES
  chip,      \* the power state of the chip (Power)
  running,   \* the firmware runs (FwDownload)
  rings,     \* the buffers of trx.c (Bringup)
  h2cPc,     \* where the bring-up or the join is
  buf,       \* what g_pkt_vaddr holds
  bds,       \* H2C descriptors the chip has not fetched
  box_num,   \* static box_num of h2c_command
  ex,        \* REG_HMEBOXn_EX
  lo,        \* REG_HMEBOXn
  full,      \* REG_HMETFR: boxes the firmware has not taken
  posted,    \* ghost: packets posted to this firmware
  fetched,   \* ghost: packets it got
  overslept, \* ghost: 1 if the host went on before the chip had fetched a packet
  taken      \* ghost: <<EX, box>> pairs it took from mailboxes

pktVars == <<buf, bds, posted, fetched, overslept>>
boxVars == <<box_num, ex, lo, full, taken>>
h2cVars == <<h2cPc, pktVars, boxVars>>

Boxes == 0 .. 3
Cmds  == {"media", "ra"}
None  == "none"

H2CInit ==
  /\ h2cPc = "down"
  /\ buf = None /\ bds = 0
  /\ box_num = 0 /\ ex = [b \in Boxes |-> None] /\ lo = [b \in Boxes |-> None] /\ full = {}
  /\ posted = <<>> /\ fetched = <<>> /\ overslept = 0 /\ taken = {}

-----------------------------------------------------------------------------
(* A power-up clears the rings and mailboxes of the chip, the statics of   *)
(* the driver stay.                                                        *)
H2CReset ==
  /\ bds' = 0 /\ buf' = None /\ posted' = <<>> /\ fetched' = <<>> /\ overslept' = 0
  /\ taken' = {} /\ full' = {}
  /\ ex' = [b \in Boxes |-> None] /\ lo' = [b \in Boxes |-> None]
  /\ UNCHANGED <<h2cPc, box_num>>

(* trx_reset clears the indices of the rings; what is left in the buffer   *)
(* is out of reach.                                                        *)
RingReset ==
  /\ bds' = 0 /\ buf' = None /\ posted' = <<>> /\ fetched' = <<>> /\ overslept' = 0
  /\ UNCHANGED <<h2cPc, boxVars>>

(* trx_tx_h2c: the packet is copied to the shared buffer, the descriptor   *)
(* points there, the doorbell hands it to the chip.                        *)
Post(p) ==
  IF rings = "ok"
  THEN buf' = p /\ bds' = bds + 1 /\ posted' = Append(posted, p)
  ELSE UNCHANGED <<buf, bds, posted>>

\* Mutant: no sleep between the two packets.
GeneralInfo_NoSleep ==
  /\ h2cPc = "general" /\ h2cPc' = "phydm"
  /\ Post("general_info")
  /\ UNCHANGED <<fetched, overslept, boxVars>>

(* fw_handshake, first packet.                                             *)
GeneralInfo ==
  /\ h2cPc = "general" /\ h2cPc' = "general_sleep"
  /\ Post("general_info")
  /\ UNCHANGED <<fetched, overslept, boxVars>>

(* fw_handshake, second packet.                                            *)
PhydmInfo ==
  /\ h2cPc = "phydm" /\ h2cPc' = "phydm_sleep"
  /\ Post("phydm_info")
  /\ UNCHANGED <<fetched, overslept, boxVars>>

(* The 2 ms sleeps, and the polling after the IQK packet, end whether the  *)
(* chip has fetched the packet or not.                                     *)
Wake ==
  /\ \/ h2cPc = "general_sleep" /\ h2cPc' = "phydm"
     \/ h2cPc = "phydm_sleep" /\ h2cPc' = "ready"
     \/ h2cPc = "iqk_poll" /\ h2cPc' = "tuned"
  /\ overslept' = IF bds > 0 /\ chip = "act" THEN 1 ELSE overslept
  /\ UNCHANGED <<buf, bds, posted, fetched, boxVars>>

(* associate: on a 5 GHz channel rtw_do_iqk sends its packet (its serial   *)
(* number is data); on 2.4 GHz nothing is sent.                            *)
Iqk(five) ==
  /\ h2cPc = "ready"
  /\ IF five
     THEN Post("iqk") /\ h2cPc' = "iqk_poll"
     ELSE h2cPc' = "tuned" /\ UNCHANGED <<buf, bds, posted>>
  /\ UNCHANGED <<fetched, overslept, boxVars>>

(* The chip fetches one descriptor: it reads what the buffer holds now.    *)
Fetch ==
  /\ bds > 0 /\ chip = "act"
  /\ bds' = bds - 1 /\ fetched' = Append(fetched, buf)
  /\ UNCHANGED <<h2cPc, buf, posted, overslept, boxVars>>

-----------------------------------------------------------------------------
(* h2c_command waits up to 100 ms for the box and then writes it, whether  *)
(* the firmware took the last command or not.                              *)
Sending(c) == h2cPc = IF c = "media" THEN "tuned" ELSE "ra"
BoxPc(c) == IF c = "media" THEN "media_box" ELSE "ra_box"

\* Mutant: the dword that triggers the firmware goes first.
WriteEx_TriggerFirst(c) ==
  /\ Sending(c)
  /\ lo' = [lo EXCEPT ![box_num] = c] /\ full' = full \cup {box_num}
  /\ h2cPc' = BoxPc(c)
  /\ UNCHANGED <<pktVars, box_num, ex, taken>>

(* The upper dword goes first ...                                          *)
WriteEx(c) ==
  /\ Sending(c)
  /\ ex' = [ex EXCEPT ![box_num] = c]
  /\ h2cPc' = BoxPc(c)
  /\ UNCHANGED <<pktVars, box_num, lo, full, taken>>

(* ... the lower one triggers the firmware; media_connect sends the        *)
(* media status, then the rate adaptation.                                 *)
WriteBox(c) ==
  /\ h2cPc = BoxPc(c)
  /\ lo' = [lo EXCEPT ![box_num] = c] /\ full' = full \cup {box_num}
  /\ box_num' = (box_num + 1) % 4
  /\ h2cPc' = IF c = "media" THEN "ra" ELSE "done"
  /\ UNCHANGED <<pktVars, ex, taken>>

(* The firmware takes a box.                                               *)
Take(b) ==
  /\ b \in full /\ chip = "act" /\ running = 1
  /\ full' = full \ {b} /\ taken' = taken \cup {<<ex[b], lo[b]>>}
  /\ UNCHANGED <<h2cPc, pktVars, box_num, ex, lo>>

H2CStep ==
  \/ GeneralInfo \/ PhydmInfo \/ Wake
  \/ \E five \in BOOLEAN : Iqk(five)
  \/ \E c \in Cmds : WriteEx(c) \/ WriteBox(c)

H2CChip == Fetch \/ \E b \in Boxes : Take(b)
-----------------------------------------------------------------------------
(* As long as the chip fetches each packet while the host sleeps after it, *)
(* the firmware gets the packets that were posted, each once, whole and in *)
(* order, although they share one buffer that nothing guards.              *)
PacketsIntact == overslept = 0 => IsPrefix(fetched, posted)

(* The firmware never takes a mailbox whose two halves belong to different *)
(* commands, whenever it looks.                                            *)
MailboxWhole == \A p \in taken : p[1] = p[2] /\ p[1] # None
=============================================================================
