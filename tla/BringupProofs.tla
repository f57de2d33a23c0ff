--------------------------- MODULE BringupProofs ----------------------------
(***************************************************************************)
(* Proofs about the bring-up, for any firmware image, any number of        *)
(* operations and of tunes, any efuse and any set of channels.  The        *)
(* inductive invariant has a part per stage; the parts of the firmware     *)
(* download and of the mailboxes rest on that of the power-on: once it has *)
(* succeeded the chip does not lose its power and come up again unnoticed. *)
(***************************************************************************)
EXTENDS Bringup, SequenceTheorems, FiniteSetTheorems, WellFoundedInduction, TLAPS

-----------------------------------------------------------------------------
(* Control: which stages go with which places in the calls.                *)
Stages == {"idle", "power", "rings", "fw", "mac", "efuse", "phy", "handshake",
           "coex", "tune", "join", "up", "free"}
Early == {"down", "general", "general_sleep", "phydm", "phydm_sleep", "ready"}
Late == {"iqk_poll", "tuned", "media_box", "ra", "ra_box", "done"}
Posting == {"fw", "mac", "efuse", "phy", "handshake", "coex", "tune", "join"}

(* The calls that are under way belong to the stage.                       *)
ControlInv ==
  /\ stage \in Stages
  /\ pwPc \in {"idle", "pre", "switch", "seq", "poll2", "sys", "done"}
  /\ stage # "power" => pwPc \in {"idle", "done"}
  /\ stage \notin {"power", "idle"} => pwPc = "done"
  /\ op = "connect" /\ stage \notin {"idle", "power", "free"} => pwRet = 0
  /\ h2cPc \in Early \cup Late
  /\ stage \in {"power", "rings", "fw", "mac", "efuse", "phy", "handshake", "coex", "tune"} => h2cPc \in Early
  /\ stage \in {"coex", "tune"} => h2cPc = "ready"
  /\ stage = "join" => op = "connect" /\ h2cPc # "down"
  /\ h2cPc \in Late => stage \in {"join", "up", "free", "idle"} /\ pwPc = "done" /\ pwRet = 0

(* The download runs in its stage; no firmware runs before it ends.        *)
DownloadInv ==
  /\ running \in {0, 1}
  /\ fwPc \in {"idle", "start", "chunk", "kick", "poll", "copy", "end", "boot", "done", "panic"}
  /\ stage \in {"power", "rings"} => fwPc = "start"
  /\ stage \notin {"power", "rings", "fw"} => fwPc \in {"idle", "start"}
  /\ fwPc \notin {"done", "idle"} => running = 0
  /\ running = 1 => pwPc = "done"

(* The power-on: a chip that comes up while the enable sequence runs came  *)
(* up in this call and has no request to go down; once bit 0 of 0x05 is    *)
(* written it is set until the chip has come up, and then it has.          *)
UpForGood == fresh = 1 /\ chip # "off" /\ (chip = "act" => 1 \notin apfm)
PowerInv ==
  /\ chip \in {"off", "act", "dead"} /\ pwrOn \in {0, 1} /\ idx \in Nat \ {0}
  /\ pwPc \in {"seq", "poll2"} /\ pwrOn = 1 =>
       /\ chip = "act" => fresh = 1 /\ 1 \notin apfm
       /\ idx >= 19 /\ chip = "off" => 0 \in apfm
       /\ idx >= 20 => UpForGood
       /\ pwPc = "poll2" => idx # 18
  /\ pwPc = "sys" => UpForGood /\ poweron = 1
  /\ pwPc = "done" /\ pwRet = 0 => UpForGood /\ poweron = 1

(* The registers that the download borrows.                                *)
Borrowed == F!PageRegs \ F!SavedRegs
RegInv ==
  /\ reg \in [F!Registers -> {"run", "dl", "junk"}]
  /\ bckp \in [F!SavedRegs -> {"run", "dl", "junk"}]
  /\ pageBckp \in [F!PageRegs -> {"run", "dl", "junk"}]
  /\ fresh = 1 /\ chip = "act" /\ fwPc = "start" => reg = F!Running
  /\ pwPc = "done" /\ pwRet = 0 /\ chip = "act" =>
       /\ fwPc \in {"chunk", "kick", "poll", "copy", "end"} => \A r \in F!SavedRegs : bckp[r] = "run"
       /\ fwPc \in {"chunk", "copy", "end"} => \A r \in Borrowed : reg[r] = "run"
       /\ fwPc \in {"kick", "poll"} => \A r \in Borrowed : pageBckp[r] = "run"
       /\ fwPc = "boot" \/ running = 1 => reg = F!Running

(* The memories: what the checksum says of the section under way, and that *)
(* the sections before it are whole.  A chip that may still come up late   *)
(* has seen nothing but the first chunk.                                   *)
Whole(s) == \A i \in 1 .. Size[s] : mem[s][i] = "ok"
Loading == {"chunk", "kick", "poll", "copy"}
LoopInv ==
  /\ sec \in 1 .. 4 /\ mem_offset \in Nat /\ first_part \in {0, 1}
  /\ acc \in {0, 1} /\ sts \in {0, 1}
  /\ DOMAIN mem = 1 .. 3 /\ \A s \in 1 .. 3 : DOMAIN mem[s] = 1 .. Size[s]
  /\ fwPc \in Loading =>
       /\ sec \in Sections /\ mem_offset <= Size[sec]
       /\ first_part = 1 => mem_offset = 0
LateInv ==
  chip = "off" /\ 0 \in apfm =>
    /\ running = 0
    /\ fwPc \in {"idle", "start", "chunk", "kick", "poll", "done", "panic"}
    /\ fwPc \in Loading => sec = 1 /\ first_part = 1
MemInv ==
  chip = "act" =>
    /\ fwPc \in Loading =>
         /\ \A s \in Sections : s < sec => Whole(s)
         /\ first_part = 0 => sts = acc
         /\ first_part = 0 /\ acc = 0 => \A i \in 1 .. mem_offset : mem[sec][i] = "ok"
    /\ fwPc \in {"end", "boot"} \/ running = 1 => \A s \in Sections : Whole(s)

(* The transmit filter: the snapshot, once valid, is the table's; until    *)
(* then a loaded base band holds the table's filter.                       *)
FilterInv ==
  /\ g_ch_param_valid \in {0, 1}
  /\ g_ch_param_valid = 1 => g_ch_param = "table"
  /\ chip = "act" /\ bb = "loaded" =>
       /\ g_ch_param_valid = 0 => filter = "table"
       /\ tuned \in 1 .. 13 => filter = "table"

(* The grants.                                                             *)
GrantInv ==
  /\ cxPc \in 1 .. 5
  /\ gnt \in [{"wlbb", "wlrf", "btbb", "btrf"} -> {"pta", "high"}]

(* The packets: as long as the chip keeps up it has all but the one        *)
(* descriptor under way, whose packet is in the buffer, and where the next *)
(* is posted none is under way.                                            *)
Packets == {H!None, "general_info", "phydm_info", "iqk"}
PacketInv ==
  /\ posted \in Seq(Packets) /\ fetched \in Seq(Packets) /\ buf \in Packets /\ bds \in Nat
  /\ chip \in {"off", "act", "dead"}
  /\ chip # "act" => fetched = <<>>
  /\ overslept = 0 /\ chip = "act" => \/ bds = 0 /\ posted = fetched
                                      \/ bds = 1 /\ posted = Append(fetched, buf)
  /\ rings # "ok" => bds = 0
  /\ overslept = 0 /\ chip = "act" /\ stage \in Posting /\ h2cPc \in {"general", "phydm", "ready"} => bds = 0

(* The mailboxes: a full box is whole; after a power-up all are empty, and *)
(* each command of the join finds its box empty.                           *)
Last == (box_num + 3) % 4
BoxInv ==
  /\ box_num \in H!Boxes /\ full \subseteq H!Boxes
  /\ ex \in [H!Boxes -> H!Cmds \cup {H!None}] /\ lo \in [H!Boxes -> H!Cmds \cup {H!None}]
  /\ fresh = 1 /\ h2cPc \in Early \cup {"iqk_poll", "tuned", "media_box"} => full = {}
  /\ chip = "act" =>
       /\ \A b \in full : ex[b] = lo[b] /\ lo[b] # H!None
       /\ h2cPc = "media_box" => ex[box_num] = "media"
       /\ h2cPc \in {"ra", "ra_box"} => full \subseteq {Last}
       /\ h2cPc = "ra_box" => ex[box_num] = "ra"
  /\ MailboxWhole

IInv ==
  /\ ControlInv /\ DownloadInv /\ PowerInv /\ RegInv /\ LoopInv /\ LateInv /\ MemInv
  /\ FilterInv /\ GrantInv /\ PacketInv /\ BoxInv
-----------------------------------------------------------------------------
(* The steps, one lemma per part.                                          *)

(* Every step keeps ControlInv: the calls begin and end with their stages. *)
LEMMA ControlStep ==
  ASSUME ControlInv, [Next]_vars
  PROVE  ControlInv'
<1> USE DEF ControlInv, Stages, Early, Late
<1>1. CASE Begin
  BY <1>1 DEF Begin, P!rtw_mac_power_on
<1>2. CASE PreCfg
  BY <1>2 DEF PreCfg, P!rtw_mac_pre_system_cfg, Stay, opVars, h2cVars
<1>3. CASE Power
  <2>1. stage = "power" /\ UNCHANGED <<stage, op, h2cPc>>
    BY <1>3 DEF Power, Stay, opVars, h2cVars
  <2>2. pwPc \notin {"idle", "done"} /\ pwPc' \in {"pre", "switch", "seq", "poll2", "sys", "done"}
    BY <1>3 DEF Power, P!PowerStep, P!rtw_mac_power_switch, P!rtw_sub_pwr_seq_parser, P!Already, P!SeqDone,
       P!Return, P!rtw_pwr_cmd_polling, P!rtw_mac_init_system_cfg
  <2> QED BY <2>1, <2>2
<1>4. CASE PowerDone
  BY <1>4 DEF PowerDone, Goto, Then, powerVars, h2cVars
<1>5. CASE trx_init
  BY <1>5 DEF trx_init, Goto, Then, powerVars, h2cVars, H!RingReset
<1>6. CASE Firmware
  BY <1>6 DEF Firmware, Goto, Then, Stay, opVars, powerVars, h2cVars, H!RingReset
<1>7. CASE mac_init
  BY <1>7 DEF mac_init, Goto, Then, powerVars, h2cVars
<1>8. CASE Efuse
  BY <1>8 DEF Efuse, Goto, Then, Stay, opVars, powerVars, h2cVars
<1>9. CASE phy_set_param
  BY <1>9 DEF phy_set_param, Goto, Then, powerVars, h2cVars
<1>10. CASE fw_handshake
  BY <1>10 DEF fw_handshake, Goto, Stay, opVars, powerVars, h2cVars, H!H2CStep, H!GeneralInfo, H!PhydmInfo,
     H!Wake, H!Iqk, H!WriteEx, H!WriteBox, H!Sending, H!BoxPc, H!Cmds
<1>11. CASE coex_wifi_antenna
  BY <1>11 DEF coex_wifi_antenna, Goto, Stay, opVars, powerVars, h2cVars
<1>12. CASE Tune
  BY <1>12 DEF Tune, powerVars, h2cVars
<1>13. CASE ScanDone
  BY <1>13 DEF ScanDone, Goto, powerVars, h2cVars
<1>14. CASE Associate
  BY <1>14 DEF Associate, Goto, Stay, opVars, powerVars, h2cVars, H!H2CStep, H!GeneralInfo, H!PhydmInfo,
     H!Wake, H!Iqk, H!WriteEx, H!WriteBox, H!Sending, H!BoxPc, H!Cmds
<1>15. CASE trx_free
  BY <1>15 DEF trx_free, Goto, powerVars, H!RingReset
<1>16. CASE ChipWorks
  BY <1>16 DEF ChipWorks, Stay, opVars, powerVars, H!H2CChip, H!Fetch, H!Take
<1>17. CASE ChipUp
  BY <1>17 DEF ChipUp, Stay, opVars, P!PowerUp, P!callVars, H!H2CReset
<1>18. CASE ChipLost
  BY <1>18 DEF ChipLost, Stay, opVars, P!PowerDown, P!Die, P!callVars, H!H2CReset
<1>19. CASE Finished \/ UNCHANGED vars
  BY <1>19 DEF Finished, vars, opVars, powerVars, h2cVars
<1> QED
  BY <1>1, <1>2, <1>3, <1>4, <1>5, <1>6, <1>7, <1>8, <1>9, <1>10, <1>11, <1>12, <1>13, <1>14, <1>15,
     <1>16, <1>17, <1>18, <1>19 DEF Next

(* Every step keeps DownloadInv: only the last step of a download makes    *)
(* its firmware count as running.                                          *)
LEMMA DownloadStep ==
  ASSUME ControlInv, DownloadInv, [Next]_vars
  PROVE  DownloadInv'
<1> USE DEF DownloadInv
<1>1. CASE Begin
  BY <1>1 DEF Begin, F!FwBegin
<1>2. CASE PreCfg \/ Power
  BY <1>2 DEF PreCfg, Power, Stay, opVars, fwVars
<1>3. CASE PowerDone \/ trx_init
  BY <1>3 DEF PowerDone, trx_init, Goto, Then, fwVars, powerVars
<1>4. CASE Firmware
  <2>1. CASE F!FwStep /\ Stay
    BY <1>4, <2>1 DEF Firmware, Stay, opVars, powerVars, ControlInv, F!FwStep, F!download_firmware, F!WritePage, F!Kick, F!Poll,
       F!iddma_download_firmware, F!check_fw_checksum, F!EndFlow, F!download_firmware_validate, F!FwLost, F!Fail
  <2>2. CASE F!FwReturn /\ Goto(Then(fwRet, "mac"))
    BY <1>4, <2>2 DEF Firmware, Goto, Then, powerVars, F!FwReturn
  <2> QED BY <1>4, <2>1, <2>2 DEF Firmware
<1>5. CASE mac_init
  BY <1>5 DEF mac_init, Goto, Then, powerVars, F!mac_init
<1>6. CASE Efuse \/ phy_set_param \/ fw_handshake \/ coex_wifi_antenna
  BY <1>6 DEF Efuse, phy_set_param, fw_handshake, coex_wifi_antenna, Goto, Then, Stay, opVars, fwVars, powerVars
<1>7. CASE Tune \/ ScanDone \/ Associate \/ trx_free
  BY <1>7 DEF Tune, ScanDone, Associate, trx_free, Goto, Stay, opVars, fwVars, powerVars
<1>8. CASE ChipWorks
  BY <1>8 DEF ChipWorks, Stay, opVars, fwVars, powerVars
<1>9. CASE ChipUp \/ ChipLost
  BY <1>9 DEF ChipUp, ChipLost, Stay, opVars, F!FwReset, P!PowerUp, P!PowerDown, P!Die, P!callVars
<1>10. CASE Finished \/ UNCHANGED vars
  BY <1>10 DEF Finished, vars, opVars, fwVars, powerVars
<1> QED
  BY <1>1, <1>2, <1>3, <1>4, <1>5, <1>6, <1>7, <1>8, <1>9, <1>10 DEF Next

(* An entry does not write to bits 0 and 1 of 0x05.                        *)
Spares(e) == e.cmd = "write" /\ e.off = 5 => e.mask \cap {0, 1} = {} /\ e.val = {}

(* The enable sequence: 25 entries; the 18th sets bit 0 of 0x05, the 19th  *)
(* polls it clear, and no other entry writes to bits 0 and 1.              *)
LEMMA EnableFlow ==
  /\ Len(P!card_enable_flow) = 25
  /\ P!card_enable_flow[18] = P!Wr(5, P!All, {0}, {0})
  /\ P!card_enable_flow[19] = P!Po(5, P!All, {0}, {})
  /\ \A i \in 1 .. 25 : i # 18 => Spares(P!card_enable_flow[i])
<1>1. Len(P!trans_carddis_to_cardemu) = 6 /\ Len(P!trans_cardemu_to_act) = 19
  BY DEF P!trans_carddis_to_cardemu, P!trans_cardemu_to_act
<1>2. PICK S : P!trans_carddis_to_cardemu \in Seq(S) /\ P!trans_cardemu_to_act \in Seq(S)
  <2> DEFINE S == {P!trans_carddis_to_cardemu[i] : i \in 1 .. 6} \cup {P!trans_cardemu_to_act[i] : i \in 1 .. 19}
  <2>1. P!trans_carddis_to_cardemu \in Seq(S) /\ P!trans_cardemu_to_act \in Seq(S)
    BY <1>1 DEF P!trans_carddis_to_cardemu, P!trans_cardemu_to_act
  <2> HIDE DEF S
  <2> QED BY <2>1
<1>3. /\ P!trans_cardemu_to_act[12] = P!Wr(5, P!All, {0}, {0})
      /\ P!trans_cardemu_to_act[13] = P!Po(5, P!All, {0}, {})
  BY DEF P!trans_cardemu_to_act
<1>4. \A i \in 1 .. 6 : Spares(P!trans_carddis_to_cardemu[i])
  BY DEF Spares, P!trans_carddis_to_cardemu, P!Wr, P!Po
<1>5. \A i \in 1 .. 19 : i # 12 => Spares(P!trans_cardemu_to_act[i])
  BY SMTT(60) DEF Spares, P!trans_cardemu_to_act, P!Wr, P!Po, P!Delay
<1>6. /\ Len(P!card_enable_flow) = 25
      /\ \A i \in 1 .. 6 : P!card_enable_flow[i] = P!trans_carddis_to_cardemu[i]
      /\ \A i \in 7 .. 25 : P!card_enable_flow[i] = P!trans_cardemu_to_act[i - 6]
  <2> DEFINE a == P!trans_carddis_to_cardemu
             b == P!trans_cardemu_to_act
  <2>1. /\ Len(P!card_enable_flow) = Len(a) + Len(b)
        /\ \A i \in 1 .. Len(a) + Len(b) : P!card_enable_flow[i] = IF i <= Len(a) THEN a[i] ELSE b[i - Len(a)]
    BY <1>2, ConcatProperties, Zenon DEF P!card_enable_flow
  <2> QED BY <1>1, <2>1
<1>7. /\ P!card_enable_flow[18] = P!trans_cardemu_to_act[12]
      /\ P!card_enable_flow[19] = P!trans_cardemu_to_act[13]
  BY <1>6
<1>8. \A i \in 1 .. 25 : i \in 1 .. 6 \/ (i \in 7 .. 25 /\ i - 6 \in 1 .. 19 /\ (i # 18 => i - 6 # 12))
  OBVIOUS
<1>9. \A i \in 1 .. 25 : i # 18 => Spares(P!card_enable_flow[i])
  BY <1>4, <1>5, <1>6, <1>8, Zenon
<1> QED BY <1>3, <1>6, <1>7, <1>9

(* The entry under way, when the chip is to be powered on.                 *)
LEMMA EnableEntry ==
  ASSUME pwrOn = 1, idx \in Nat \ {0}
  PROVE  /\ idx = 18 => /\ P!Entry.cmd = "write" /\ P!Entry.off = 5 /\ "pci" \in P!Entry.intf
                        /\ P!Entry.mask = {0} /\ P!Entry.val = {0}
         /\ idx = 19 => /\ P!Entry.cmd = "poll" /\ P!Entry.off = 5 /\ "pci" \in P!Entry.intf
                        /\ P!Entry.mask = {0} /\ P!Entry.val = {}
         /\ idx <= Len(P!Sequence) /\ idx # 18 => Spares(P!Entry)
         /\ idx > Len(P!Sequence) => idx >= 20
<1>1. P!Sequence = P!card_enable_flow /\ P!Entry = P!card_enable_flow[idx]
  BY DEF P!Entry, P!Sequence
<1>2. idx = 18 => P!Entry = P!Wr(5, P!All, {0}, {0})
  BY <1>1, EnableFlow
<1>3. idx = 19 => P!Entry = P!Po(5, P!All, {0}, {})
  BY <1>1, EnableFlow
<1>4. Len(P!Sequence) = 25
  BY <1>1, EnableFlow, Zenon
<1>5. idx <= Len(P!Sequence) /\ idx # 18 => Spares(P!Entry)
  <2>1. idx <= 25 => idx \in 1 .. 25
    OBVIOUS
  <2> QED BY <1>1, <1>4, <2>1, EnableFlow, Zenon
<1>6. idx > Len(P!Sequence) => idx >= 20
  BY <1>4
<1>7. /\ P!Wr(5, P!All, {0}, {0}).cmd = "write" /\ P!Wr(5, P!All, {0}, {0}).off = 5
      /\ "pci" \in P!Wr(5, P!All, {0}, {0}).intf
      /\ P!Wr(5, P!All, {0}, {0}).mask = {0} /\ P!Wr(5, P!All, {0}, {0}).val = {0}
  BY DEF P!Wr, P!All
<1>8. /\ P!Po(5, P!All, {0}, {}).cmd = "poll" /\ P!Po(5, P!All, {0}, {}).off = 5
      /\ "pci" \in P!Po(5, P!All, {0}, {}).intf
      /\ P!Po(5, P!All, {0}, {}).mask = {0} /\ P!Po(5, P!All, {0}, {}).val = {}
  BY DEF P!Po, P!All
<1> QED BY <1>2, <1>3, <1>5, <1>6, <1>7, <1>8, Zenon

(* A poll of 0x05 reads what it holds.                                     *)
LEMMA PollOf05 ==
  ASSUME NEW e, e.off = 5
  PROVE  P!PollReads(e) = {P!Read05 \cap e.mask}
  BY DEF P!PollReads

(* A step of the power call keeps PowerInv.                                *)
LEMMA PowerCall ==
  ASSUME PowerInv, P!PowerStep
  PROVE  PowerInv'
<1> USE DEF PowerInv, UpForGood
<1>1. CASE P!rtw_mac_power_switch
  BY <1>1 DEF P!rtw_mac_power_switch, P!cur_pwr, P!Already, P!Return, P!chipVars
<1>2. CASE P!rtw_sub_pwr_seq_parser
  <2>1. pwPc = "seq" /\ chip' = chip /\ fresh' = fresh
    BY <1>2 DEF P!rtw_sub_pwr_seq_parser
  <2>2. CASE idx <= Len(P!Sequence) /\ idx' = idx + 1 /\ UNCHANGED <<apfm, pwPc, pwrOn, attempt, poweron, pwRet>>
             /\ "pci" \notin P!Entry.intf
    <3>1. pwrOn = 1 => idx # 18 /\ idx # 19
      BY <2>2, EnableEntry
    <3> QED BY <2>1, <2>2, <3>1
  <2>3. CASE /\ idx <= Len(P!Sequence) /\ P!Entry.cmd = "write"
             /\ apfm' = IF P!Entry.off = \h05 /\ chip # "dead"
                          THEN (apfm \ P!Entry.mask) \cup P!Entry.val ELSE apfm
             /\ idx' = idx + 1 /\ UNCHANGED <<pwPc, pwrOn, attempt, poweron, pwRet>>
    <3>1. CASE pwrOn = 0
      BY <2>1, <2>3, <3>1
    <3>2. CASE pwrOn = 1 /\ idx = 18
      <4>1. apfm' = IF chip # "dead" THEN (apfm \ {0}) \cup {0} ELSE apfm
        BY <2>3, <3>2, EnableEntry
      <4> QED BY <2>1, <2>3, <3>2, <4>1
    <3>3. CASE pwrOn = 1 /\ idx # 18
      <4>1. Spares(P!Entry) /\ idx # 19
        BY <2>3, <3>3, EnableEntry
      <4>2. (0 \in apfm' <=> 0 \in apfm) /\ (1 \in apfm' <=> 1 \in apfm)
        BY <2>3, <4>1 DEF Spares
      <4> QED BY <2>1, <2>3, <3>3, <4>1, <4>2
    <3> QED BY <3>1, <3>2, <3>3
  <2>4. CASE /\ idx <= Len(P!Sequence)
             /\ \E v \in P!PollReads(P!Entry) :
                  IF v = P!Entry.val THEN idx' = idx + 1 /\ UNCHANGED pwPc
                                     ELSE pwPc' = "poll2" /\ UNCHANGED idx
             /\ P!Entry.cmd = "poll" /\ UNCHANGED <<apfm, pwrOn, attempt, poweron, pwRet>>
    <3>1. CASE pwrOn = 1 /\ idx = 19
      <4>1. P!PollReads(P!Entry) = {P!Read05 \cap {0}} /\ P!Entry.val = {}
        <5>1. P!Entry.off = 5 /\ P!Entry.mask = {0} /\ P!Entry.val = {}
          BY <3>1, EnableEntry
        <5> QED BY <5>1, PollOf05
      <4>2. idx' = idx + 1 => 0 \notin P!Read05
        BY <2>4, <4>1
      <4> QED BY <2>1, <2>4, <3>1, <4>2 DEF P!Read05, P!Byte
    <3>2. CASE pwrOn = 1 /\ idx # 19
      <4>1. idx # 18
        BY <2>4, <3>2, EnableEntry
      <4> QED BY <2>1, <2>4, <3>2, <4>1
    <3> QED BY <2>1, <2>4, <3>1, <3>2
  <2>5. CASE idx > Len(P!Sequence) /\ P!SeqDone(0) /\ UNCHANGED apfm
    <3>1. pwrOn = 1 => idx >= 20
      BY <2>5, EnableEntry
    <3> QED BY <2>1, <2>5, <3>1 DEF P!SeqDone
  <2> QED BY <1>2, <2>2, <2>3, <2>4, <2>5 DEF P!rtw_sub_pwr_seq_parser
<1>3. CASE P!rtw_pwr_cmd_polling
  <2>1. pwPc = "poll2" /\ UNCHANGED <<chip, apfm, fresh>>
    BY <1>3 DEF P!rtw_pwr_cmd_polling, P!chipVars
  <2>2. PICK v \in P!PollReads(P!Entry) :
          IF v = P!Entry.val
          THEN pwPc' = "seq" /\ idx' = idx + 1 /\ UNCHANGED <<pwrOn, attempt, poweron, pwRet>>
          ELSE P!SeqDone(1)
    BY <1>3 DEF P!rtw_pwr_cmd_polling
  <2>3. CASE v # P!Entry.val
    BY <2>1, <2>2, <2>3 DEF P!SeqDone, P!Return
  <2>4. CASE v = P!Entry.val
    <3>1. CASE pwrOn = 1 /\ idx = 19
      <4>1. P!PollReads(P!Entry) = {P!Read05 \cap {0}} /\ P!Entry.val = {}
        <5>1. P!Entry.off = 5 /\ P!Entry.mask = {0} /\ P!Entry.val = {}
          BY <3>1, EnableEntry
        <5> QED BY <5>1, PollOf05
      <4>2. 0 \notin P!Read05
        BY <2>2, <2>4, <4>1
      <4> QED BY <2>1, <2>2, <2>4, <3>1, <4>2 DEF P!Read05, P!Byte
    <3>2. CASE pwrOn = 1 /\ idx = 18
      BY <2>1, <3>2
    <3>3. CASE pwrOn = 0 \/ idx \notin {18, 19}
      BY <2>1, <2>2, <2>4, <3>3
    <3> QED BY <3>1, <3>2, <3>3
  <2> QED BY <2>3, <2>4
<1>4. CASE P!rtw_mac_init_system_cfg
  BY <1>4 DEF P!rtw_mac_init_system_cfg, P!Return, P!chipVars
<1> QED BY <1>1, <1>2, <1>3, <1>4 DEF P!PowerStep

(* Every step keeps PowerInv: the chip that the call has found up stays up *)
(* or is gone.                                                             *)
LEMMA PowerStays ==
  ASSUME ControlInv, PowerInv, [Next]_vars
  PROVE  PowerInv'
<1>1. CASE Begin
  BY <1>1 DEF Begin, P!rtw_mac_power_on, P!chipVars, PowerInv
<1>2. CASE PreCfg
  BY <1>2 DEF PreCfg, P!rtw_mac_pre_system_cfg, P!chipVars, PowerInv
<1>3. CASE Power
  BY <1>3, PowerCall DEF Power
<1>4. CASE ChipUp
  BY <1>4 DEF ChipUp, P!PowerUp, P!callVars, PowerInv, UpForGood
<1>5. CASE ChipLost
  BY <1>5 DEF ChipLost, P!PowerDown, P!Die, P!callVars, PowerInv, UpForGood
<1>6. CASE UNCHANGED powerVars
  BY <1>6 DEF powerVars, PowerInv, UpForGood
<1> QED
  <2>1. \/ Begin \/ PreCfg \/ Power \/ ChipUp \/ ChipLost \/ UNCHANGED powerVars
    BY DEF Next, PowerDone, trx_init, Firmware, mac_init, Efuse, phy_set_param, fw_handshake, coex_wifi_antenna,
       Tune, ScanDone, Associate, trx_free, ChipWorks, Finished, vars
  <2> QED BY <2>1, <1>1, <1>2, <1>3, <1>4, <1>5, <1>6

(* The steps that concern the firmware: all others leave its variables and *)
(* those of the power-on alone.                                            *)
LEMMA FwFrame ==
  ASSUME [Next]_vars
  PROVE  \/ Begin \/ PreCfg \/ Power \/ ChipUp \/ ChipLost
         \/ stage = "fw" /\ UNCHANGED powerVars /\ (F!FwStep \/ F!FwReturn)
         \/ stage = "mac" /\ UNCHANGED powerVars /\ F!mac_init
         \/ UNCHANGED powerVars /\ UNCHANGED fwVars
  BY DEF Next, PowerDone, trx_init, Firmware, mac_init, Efuse, phy_set_param, fw_handshake, coex_wifi_antenna,
     Tune, ScanDone, Associate, trx_free, ChipWorks, Finished, vars

(* Every step keeps RegInv: what a successful power-on left in the         *)
(* registers is what is saved and brought back.                            *)
LEMMA RegStep ==
  ASSUME ControlInv, DownloadInv, PowerInv, RegInv, [Next]_vars
  PROVE  RegInv'
<1>1. CASE Begin
  BY <1>1 DEF Begin, P!rtw_mac_power_on, F!FwBegin, F!regVars, RegInv
<1>2. CASE PreCfg
  BY <1>2 DEF PreCfg, P!rtw_mac_pre_system_cfg, P!chipVars, fwVars, RegInv
<1>3. CASE Power
  <2>1. UNCHANGED <<reg, bckp, pageBckp, fwPc, running>> /\ fwPc = "start" /\ running = 0
    BY <1>3 DEF Power, fwVars, DownloadInv
  <2>2. UNCHANGED <<chip, fresh>>
    BY <1>3 DEF Power, P!PowerStep, P!rtw_mac_power_switch, P!rtw_sub_pwr_seq_parser, P!rtw_pwr_cmd_polling,
       P!rtw_mac_init_system_cfg, P!chipVars
  <2> QED BY <2>1, <2>2 DEF RegInv
<1>4. CASE ChipUp
  <2>1. ~(pwPc = "done" /\ pwRet = 0) /\ UNCHANGED <<pwPc, pwRet, bckp, pageBckp>> /\ reg' = F!Running
    BY <1>4 DEF ChipUp, P!PowerUp, P!callVars, F!FwReset, PowerInv, UpForGood
  <2> QED BY <2>1 DEF RegInv, F!Running
<1>5. CASE ChipLost
  <2>1. chip' # "act" /\ UNCHANGED <<bckp, pageBckp>> /\ reg' = F!Running
    BY <1>5 DEF ChipLost, P!PowerDown, P!Die, F!FwReset
  <2> QED BY <2>1 DEF RegInv, F!Running
<1>6. CASE stage = "fw" /\ UNCHANGED powerVars /\ (F!FwStep \/ F!FwReturn)
  <2> USE DEF RegInv, F!Up, F!Registers, F!Running, Borrowed
  <2>0. pwPc = "done" /\ UNCHANGED <<chip, pwPc, pwRet, fresh>>
    BY <1>6 DEF powerVars, ControlInv
  <2>1. CASE F!download_firmware
    <3>1. /\ bckp' = [r \in F!SavedRegs |-> F!Read(r)] /\ reg' = F!Written(F!SavedRegs, "dl")
          /\ fwPc = "start" /\ fwPc' = "chunk" /\ running = 0 /\ UNCHANGED <<pageBckp, running>>
      BY <2>1 DEF F!download_firmware, DownloadInv
    <3>2. pwRet = 0 /\ chip = "act" => reg = F!Running
      BY <2>0, <3>1 DEF PowerInv, UpForGood
    <3> QED BY <2>0, <3>1, <3>2 DEF F!Read, F!Written
  <2>2. CASE F!WritePage
    BY <2>0, <2>2 DEF F!WritePage, F!Fail, F!Read, F!Written, DownloadInv
  <2>3. CASE F!Kick
    BY <2>0, <2>3 DEF F!Kick, F!RestorePage, F!Fail, DownloadInv
  <2>4. CASE F!Poll
    BY <2>0, <2>4 DEF F!Poll, F!RestorePage, F!Fail, DownloadInv
  <2>5. CASE F!iddma_download_firmware
    BY <2>0, <2>5 DEF F!iddma_download_firmware, F!regVars, F!Fail, DownloadInv
  <2>6. CASE F!check_fw_checksum
    BY <2>0, <2>6 DEF F!check_fw_checksum, F!regVars, DownloadInv
  <2>7. CASE F!EndFlow
    BY <2>0, <2>7 DEF F!EndFlow, DownloadInv
  <2>8. CASE F!download_firmware_validate
    BY <2>0, <2>8 DEF F!download_firmware_validate, F!regVars, F!Fail, DownloadInv
  <2>9. CASE F!FwLost
    BY <2>0, <2>9 DEF F!FwLost, F!regVars, F!Fail, DownloadInv
  <2>10. CASE F!FwReturn
    BY <2>0, <2>10 DEF F!FwReturn
  <2> QED BY <1>6, <2>1, <2>2, <2>3, <2>4, <2>5, <2>6, <2>7, <2>8, <2>9, <2>10 DEF F!FwStep
<1>7. CASE stage = "mac" /\ UNCHANGED powerVars /\ F!mac_init
  BY <1>7 DEF powerVars, F!mac_init, F!Written, F!MacRegs, F!Running, F!Registers, F!SavedRegs, RegInv, DownloadInv
<1>8. CASE UNCHANGED powerVars /\ UNCHANGED fwVars
  BY <1>8 DEF powerVars, fwVars, RegInv
<1> QED BY FwFrame, <1>1, <1>2, <1>3, <1>4, <1>5, <1>6, <1>7, <1>8

(* The sizes of the sections.                                              *)
LEMMA SectionSizes ==
  /\ \A s \in 1 .. 3 : Size[s] \in Nat
  /\ 1 \in Sections /\ 2 \in Sections /\ Sections \subseteq 1 .. 3
  /\ MaxSize \in Nat
<1>0. /\ Size \in Seq(Nat) /\ Len(Size) = 3 /\ Size[1] > 0 /\ Size[2] > 0 /\ MaxSize \in Nat
  BY FwImageConstants, Zenon
<1>1. \A s \in 1 .. 3 : Size[s] \in Nat
  <2>1. \A s \in 1 .. Len(Size) : Size[s] \in Nat
    BY <1>0, ElementOfSeq, Zenon
  <2> QED BY <1>0, <2>1, Zenon
<1> QED BY <1>0, <1>1 DEF Sections

(* The next chunk ends within the section.                                 *)
LEMMA ChunkFits ==
  ASSUME sec \in Sections, mem_offset \in Nat, mem_offset <= Size[sec]
  PROVE  /\ mem_offset + F!ChunkLen \in Nat
         /\ mem_offset + F!ChunkLen <= Size[sec]
<1>1. Size[sec] \in Nat /\ MaxSize \in Nat
  BY SectionSizes
<1> QED BY <1>1 DEF F!ChunkLen

(* The DDMA engine has copied a chunk: new is the section after it, bad    *)
(* tells whether a unit of the chunk is damaged.                           *)
Copy(new, bad) ==
  /\ DOMAIN new = 1 .. Size[sec] /\ bad \in {0, 1}
  /\ \A i \in 1 .. Size[sec] : i <= mem_offset => new[i] = mem[sec][i]
  /\ bad = 0 => \A i \in 1 .. Size[sec] : i > mem_offset /\ i <= mem_offset + F!ChunkLen => new[i] = "ok"
  /\ mem' = [mem EXCEPT ![sec] = new] /\ acc' = F!Damaged(bad) /\ sts' = acc'
  /\ first_part' = 0 /\ mem_offset' = mem_offset + F!ChunkLen /\ fwPc' = "chunk"

(* The DDMA engine copies the chunk, or the download fails.                *)
LEMMA CopyDone ==
  ASSUME F!iddma_download_firmware, sec \in Sections, mem_offset \in Nat, mem_offset <= Size[sec]
  PROVE  \/ fwPc' = "done" /\ UNCHANGED <<acc, sts, mem, first_part, mem_offset>>
         \/ \E new, bad : Copy(new, bad)
<1> DEFINE upto == mem_offset + F!ChunkLen
           new == [i \in 1 .. Size[sec] |->
                     IF i > mem_offset /\ i <= upto THEN F!Copied(i) ELSE mem[sec][i]]
           bad == IF \A i \in mem_offset + 1 .. upto : F!Copied(i) = "ok" THEN 0 ELSE 1
<1>1. CASE F!Fail /\ UNCHANGED <<F!ddma, first_part, mem_offset>>
  BY <1>1 DEF F!Fail, F!ddma
<1>2. CASE ~(F!Fail /\ UNCHANGED <<F!ddma, first_part, mem_offset>>)
  <2>1. /\ mem' = [mem EXCEPT ![sec] = new]
        /\ acc' = F!Damaged(bad) /\ sts' = acc'
        /\ first_part' = 0 /\ mem_offset' = mem_offset + F!ChunkLen /\ fwPc' = "chunk"
    BY <1>2, Zenon DEF F!iddma_download_firmware
  <2>2. DOMAIN new = 1 .. Size[sec] /\ bad \in {0, 1}
    OBVIOUS
  <2>3. \A i \in 1 .. Size[sec] : i <= mem_offset => new[i] = mem[sec][i]
    BY SectionSizes
  <2>4. bad = 0 => \A i \in 1 .. Size[sec] : i > mem_offset /\ i <= mem_offset + F!ChunkLen => new[i] = "ok"
    BY SectionSizes, ChunkFits
  <2>5. Copy(new, bad)
    BY <2>1, <2>2, <2>3, <2>4, Zenon DEF Copy
  <2> HIDE DEF new, bad
  <2> QED BY <2>5
<1> QED BY <1>1, <1>2

(* Every step keeps LoopInv: the loops stay within the sections.           *)
LEMMA LoopStep ==
  ASSUME ControlInv, DownloadInv, LoopInv, [Next]_vars
  PROVE  LoopInv'
<1> USE DEF LoopInv, Loading
<1>1. CASE Begin
  BY <1>1 DEF Begin, F!FwBegin, F!loopVars, F!Empty
<1>2. CASE PreCfg \/ Power
  BY <1>2 DEF PreCfg, Power, fwVars
<1>3. CASE ChipUp \/ ChipLost
  BY <1>3 DEF ChipUp, ChipLost, F!FwReset, F!loopVars, F!Empty
<1>4. CASE stage = "fw" /\ UNCHANGED powerVars /\ (F!FwStep \/ F!FwReturn)
  <2>1. CASE F!download_firmware
    BY <2>1, SectionSizes DEF F!download_firmware
  <2>2. CASE F!WritePage
    BY <2>2 DEF F!WritePage, F!loopVars, F!ddma, F!Fail
  <2>3. CASE F!Kick
    BY <2>3 DEF F!Kick, F!loopVars, F!ddma, F!Fail
  <2>4. CASE F!Poll
    BY <2>4 DEF F!Poll, F!loopVars, F!ddma, F!Fail
  <2>5. CASE F!iddma_download_firmware
    <3>1. fwPc = "copy" /\ UNCHANGED sec
      BY <2>5 DEF F!iddma_download_firmware
    <3>2. CASE fwPc' = "done" /\ UNCHANGED <<acc, sts, mem, first_part, mem_offset>>
      BY <3>1, <3>2
    <3>3. CASE \E new, bad : Copy(new, bad)
      <4>1. PICK new, bad : Copy(new, bad)
        BY <3>3
      <4>2. mem_offset' \in Nat /\ mem_offset' <= Size[sec]
        BY <3>1, <4>1, ChunkFits DEF Copy
      <4>3. acc' \in {0, 1}
        BY <4>1 DEF Copy, F!Damaged
      <4>4. DOMAIN mem' = 1 .. 3 /\ \A s \in 1 .. 3 : DOMAIN mem'[s] = 1 .. Size[s]
        BY <4>1 DEF Copy
      <4> QED BY <3>1, <4>1, <4>2, <4>3, <4>4 DEF Copy
    <3> QED BY <2>5, <3>1, <3>2, <3>3, CopyDone
  <2>6. CASE F!check_fw_checksum
    BY <2>6, SectionSizes DEF F!check_fw_checksum, F!NextSec, F!loopVars, Sections
  <2>7. CASE F!EndFlow \/ F!download_firmware_validate \/ F!FwLost
    BY <2>7 DEF F!EndFlow, F!download_firmware_validate, F!FwLost, F!loopVars, F!ddma, F!Fail
  <2>8. CASE F!FwReturn
    BY <2>8 DEF F!FwReturn, F!Empty
  <2> QED BY <1>4, <2>1, <2>2, <2>3, <2>4, <2>5, <2>6, <2>7, <2>8 DEF F!FwStep
<1>5. CASE stage = "mac" /\ UNCHANGED powerVars /\ F!mac_init
  BY <1>5 DEF F!mac_init, F!loopVars, F!ddma
<1>6. CASE UNCHANGED powerVars /\ UNCHANGED fwVars
  BY <1>6 DEF fwVars
<1> QED BY FwFrame, <1>1, <1>2, <1>3, <1>4, <1>5, <1>6

(* Every step keeps LateInv: a chip that loses its power keeps no request  *)
(* to come up, and one that is off is given nothing but the first chunk.   *)
LEMMA LateStep ==
  ASSUME ControlInv, DownloadInv, LateInv, [Next]_vars
  PROVE  LateInv'
<1> USE DEF LateInv, Loading
<1>1. CASE Begin
  BY <1>1 DEF Begin, F!FwBegin
<1>2. CASE PreCfg \/ Power
  BY <1>2 DEF PreCfg, Power, fwVars, DownloadInv
<1>3. CASE ChipUp
  BY <1>3 DEF ChipUp, P!PowerUp
<1>4. CASE ChipLost
  BY <1>4 DEF ChipLost, P!PowerDown, P!Die
<1>5. CASE stage = "fw" /\ UNCHANGED powerVars /\ (F!FwStep \/ F!FwReturn)
  <2>1. UNCHANGED <<chip, apfm>>
    BY <1>5 DEF powerVars
  <2>2. CASE F!FwStep
    BY <2>1, <2>2 DEF F!FwStep, F!download_firmware, F!WritePage, F!Kick, F!Poll,
       F!iddma_download_firmware, F!check_fw_checksum, F!EndFlow, F!download_firmware_validate, F!FwLost, F!Fail,
       F!Up, F!loopVars, DownloadInv
  <2>3. CASE F!FwReturn
    BY <2>1, <2>3 DEF F!FwReturn
  <2> QED BY <1>5, <2>2, <2>3
<1>6. CASE stage = "mac" /\ UNCHANGED powerVars /\ F!mac_init
  BY <1>6 DEF powerVars, F!mac_init, F!loopVars
<1>7. CASE UNCHANGED powerVars /\ UNCHANGED fwVars
  BY <1>7 DEF powerVars, fwVars
<1> QED BY FwFrame, <1>1, <1>2, <1>3, <1>4, <1>5, <1>6, <1>7

(* Every step keeps MemInv: a checksum that is right vouches for all       *)
(* chunks of its section, and a section is left behind only with it.       *)
LEMMA MemStep ==
  ASSUME ControlInv, DownloadInv, LoopInv, LateInv, MemInv, [Next]_vars
  PROVE  MemInv'
<1>1. CASE Begin
  BY <1>1 DEF Begin, F!FwBegin, MemInv, Loading
<1>2. CASE PreCfg \/ Power
  <2>1. UNCHANGED <<fwPc, sec, mem_offset, first_part, acc, sts, mem, running>> /\ fwPc = "start" /\ running = 0
    BY <1>2 DEF PreCfg, Power, fwVars, DownloadInv
  <2> QED BY <2>1 DEF MemInv, Loading
<1>3. CASE ChipUp
  <2>1. chip = "off" /\ 0 \in apfm
    BY <1>3 DEF ChipUp, P!PowerUp
  <2>2. UNCHANGED <<fwPc, sec, first_part, running>>
    BY <1>3 DEF ChipUp, F!FwReset, F!loopVars
  <2>3. \A s \in Sections : ~(s < 1)
    BY SectionSizes
  <2> QED BY <2>1, <2>2, <2>3 DEF LateInv, MemInv, Loading
<1>4. CASE ChipLost
  BY <1>4 DEF ChipLost, P!PowerDown, P!Die, MemInv
<1>5. CASE stage = "fw" /\ UNCHANGED powerVars /\ (F!FwStep \/ F!FwReturn)
  <2>0. UNCHANGED chip
    BY <1>5 DEF powerVars
  <2> SUFFICES ASSUME chip = "act" PROVE MemInv'
    BY <2>0 DEF MemInv
  <2>1. CASE F!download_firmware
    <3>1. sec' = 1 /\ first_part' = 1 /\ fwPc' = "chunk" /\ running' = 0
      BY <2>1 DEF F!download_firmware, DownloadInv
    <3>2. \A s \in Sections : ~(s < 1)
      BY SectionSizes
    <3> QED BY <3>1, <3>2 DEF MemInv, Loading
  <2>2. CASE F!WritePage \/ F!Kick \/ F!Poll
    <3>1. /\ fwPc \in Loading /\ fwPc' \in Loading \cup {"done", "panic"} /\ running' = 0
          /\ UNCHANGED <<sec, mem_offset, first_part, acc, sts, mem>>
      BY <2>2 DEF F!WritePage, F!Kick, F!Poll, F!Fail, F!loopVars, F!ddma, Loading, DownloadInv
    <3> QED BY <3>1 DEF MemInv, Whole, Loading
  <2>3. CASE F!iddma_download_firmware
    <3>1. fwPc = "copy" /\ UNCHANGED sec /\ running' = 0
      BY <2>3 DEF F!iddma_download_firmware, DownloadInv
    <3>2. CASE fwPc' = "done"
      BY <3>1, <3>2 DEF MemInv, Loading
    <3>3. CASE \E new, bad : Copy(new, bad)
      <4>1. PICK new, bad : Copy(new, bad)
        BY <3>3
      <4>2. sec \in Sections /\ sec \in 1 .. 3 /\ mem_offset \in Nat /\ mem_offset' \in Nat
            /\ mem_offset' <= Size[sec] /\ Size[sec] \in Nat
        BY <3>1, <4>1, ChunkFits, SectionSizes DEF LoopInv, Loading, Copy
      <4>3. \A s \in Sections : s < sec => mem'[s] = mem[s]
        BY <4>1, <4>2, SectionSizes DEF LoopInv, Copy
      <4>4. \A s \in Sections : s < sec => Whole(s)'
        BY <3>1, <4>3 DEF MemInv, Loading, Whole
      <4>5. mem'[sec] = new
        BY <4>1, <4>2 DEF LoopInv, Copy
      <4>6. acc' = 0 => bad = 0 /\ (first_part = 0 => acc = 0)
        BY <4>1 DEF Copy, F!Damaged, LoopInv
      <4>7. acc' = 0 => \A i \in 1 .. mem_offset : mem[sec][i] = "ok"
        BY <3>1, <4>6 DEF MemInv, LoopInv, Loading
      <4>8. acc' = 0 => \A i \in 1 .. mem_offset' : new[i] = "ok"
        BY <4>1, <4>2, <4>6, <4>7 DEF Copy
      <4>9. fwPc' = "chunk" /\ sts' = acc'
        BY <4>1 DEF Copy
      <4>10. acc' = 0 => \A i \in 1 .. mem_offset' : mem'[sec'][i] = "ok"
        BY <3>1, <4>5, <4>8
      <4>11. \A s \in Sections : s < sec' => Whole(s)'
        BY <3>1, <4>4
      <4> QED BY <3>1, <4>9, <4>10, <4>11 DEF MemInv, Loading
    <3> QED BY <2>3, <3>1, <3>2, <3>3, CopyDone DEF LoopInv, Loading
  <2>4. CASE F!check_fw_checksum
    <3>1. fwPc = "chunk" /\ mem_offset = Size[sec] /\ UNCHANGED <<mem, acc>> /\ running' = 0
      BY <2>4 DEF F!check_fw_checksum, DownloadInv
    <3>2. CASE sts = 1 /\ fwPc' = "done"
      BY <3>1, <3>2 DEF MemInv, Loading
    <3>3. CASE sts = 0 /\ sec' = F!NextSec /\ first_part' = 1 /\ fwPc' = IF F!NextSec = 4 THEN "end" ELSE "chunk"
      <4>1. sec \in Sections /\ Size[sec] \in Nat /\ Size[sec] > 0
        BY <3>1, SectionSizes DEF LoopInv, Loading, Sections
      <4>2. first_part = 0 /\ acc = 0
        BY <3>1, <3>3, <4>1 DEF LoopInv, MemInv, Loading
      <4>3. Whole(sec)
        BY <3>1, <4>2 DEF MemInv, Loading, Whole
      <4>4. \A s \in Sections : s <= sec => Whole(s)
        BY <3>1, <4>1, <4>3, SectionSizes DEF MemInv, Loading
      <4>5. \A s \in Sections : s < F!NextSec => s <= sec
        BY <4>1, SectionSizes DEF F!NextSec, Sections
      <4>6. \A s \in Sections : s < 4
        BY SectionSizes
      <4>7. \A s \in Sections : s < sec' => Whole(s)'
        BY <3>1, <3>3, <4>4, <4>5 DEF Whole
      <4> QED BY <3>1, <3>3, <4>6, <4>7 DEF MemInv, Loading
    <3> QED BY <2>4, <3>2, <3>3 DEF F!check_fw_checksum
  <2>5. CASE F!EndFlow \/ F!download_firmware_validate
    <3>1. fwPc \in {"end", "boot"} /\ fwPc' \in {"boot", "done"} /\ UNCHANGED mem
      BY <2>5 DEF F!EndFlow, F!download_firmware_validate, F!Fail, F!ddma
    <3> QED BY <3>1 DEF MemInv, Loading, Whole
  <2>6. CASE F!FwLost
    BY <2>6 DEF F!FwLost, F!Up
  <2>7. CASE F!FwReturn
    <3>1. fwPc' = "idle" /\ running' = running /\ (running = 1 => mem' = mem)
      BY <2>7 DEF F!FwReturn
    <3> QED BY <3>1 DEF MemInv, Loading, Whole
  <2> QED BY <1>5, <2>1, <2>2, <2>3, <2>4, <2>5, <2>6, <2>7 DEF F!FwStep
<1>6. CASE stage = "mac" /\ UNCHANGED powerVars /\ F!mac_init
  BY <1>6 DEF powerVars, F!mac_init, F!loopVars, F!ddma, MemInv, Whole
<1>7. CASE UNCHANGED powerVars /\ UNCHANGED fwVars
  BY <1>7 DEF powerVars, fwVars, MemInv, Whole
<1> QED BY FwFrame, <1>1, <1>2, <1>3, <1>4, <1>5, <1>6, <1>7

(* Every step keeps FilterInv: the snapshot is taken before channel 14 can *)
(* have replaced the table's filter.                                       *)
LEMMA FilterStep ==
  ASSUME FilterInv, [Next]_vars
  PROVE  FilterInv'
<1> USE DEF FilterInv
<1>1. CASE Begin
  BY <1>1 DEF Begin, P!rtw_mac_power_on, P!chipVars, phyVars, chanVars
<1>2. CASE PreCfg
  BY <1>2 DEF PreCfg, P!rtw_mac_pre_system_cfg, P!chipVars, Y!PhyReset, C!ChannelOff, phyVars, chanVars
<1>3. CASE Power
  BY <1>3 DEF Power, P!PowerStep, P!rtw_mac_power_switch, P!rtw_sub_pwr_seq_parser, P!rtw_pwr_cmd_polling,
     P!rtw_mac_init_system_cfg, P!chipVars, phyVars, chanVars
<1>4. CASE phy_set_param
  BY <1>4 DEF phy_set_param, Y!phy_set_param, C!ChannelLoaded, C!chanVars, powerVars
<1>5. CASE Tune
  <2>1. UNCHANGED <<chip, bb>> /\ \E c \in Channels : C!set_channel(c)
    BY <1>5 DEF Tune, powerVars, phyVars
  <2>2. PICK c \in Channels : C!set_channel(c)
    BY <2>1
  <2>3. CASE chip = "act" /\ bb = "loaded"
    <3>1. C!Live = filter
      BY <2>3 DEF C!Live
    <3>2. g_ch_param' = "table" /\ g_ch_param_valid' = 1
      BY <2>2, <2>3, <3>1 DEF C!set_channel, C!Snapshot, C!Implausible
    <3>3. tuned' = c /\ filter' = CASE c = 14 -> "ch14" [] c < 14 -> g_ch_param' [] OTHER -> filter
      BY <2>2, <2>3 DEF C!set_channel
    <3>4. c \in 1 .. 13 => filter' = g_ch_param'
      BY <3>3
    <3> QED BY <2>1, <3>2, <3>3, <3>4
  <2>4. CASE ~(chip = "act" /\ bb = "loaded")
    <3>1. C!Live \in C!Implausible
      BY <2>4 DEF C!Live, C!Implausible
    <3> QED BY <2>1, <2>2, <2>4, <3>1 DEF C!set_channel, C!Snapshot
  <2> QED BY <2>3, <2>4
<1>6. CASE ChipUp \/ ChipLost
  BY <1>6 DEF ChipUp, ChipLost, Y!PhyReset, C!ChannelReset, C!ChannelOff
<1>7. CASE UNCHANGED powerVars /\ UNCHANGED phyVars /\ UNCHANGED chanVars
  BY <1>7 DEF powerVars, phyVars, chanVars
<1> QED
  <2>1. \/ Begin \/ PreCfg \/ Power \/ phy_set_param \/ Tune \/ ChipUp \/ ChipLost
        \/ UNCHANGED powerVars /\ UNCHANGED phyVars /\ UNCHANGED chanVars
    BY DEF Next, PowerDone, trx_init, Firmware, mac_init, Efuse, fw_handshake, coex_wifi_antenna,
       ScanDone, Associate, trx_free, ChipWorks, Finished, vars
  <2> QED BY <2>1, <1>1, <1>2, <1>3, <1>4, <1>5, <1>6, <1>7

(* A grant is kept by every step that leaves the chip its power.           *)
KeepsGrants == chip' = chip => \A f \in {"wlbb", "wlrf"} : gnt[f] = "high" => gnt'[f] = "high"

(* Every step keeps GrantInv and the grants: a field is only set on top of *)
(* what was read.                                                          *)
LEMMA GrantStep ==
  ASSUME GrantInv, [Next]_vars
  PROVE  GrantInv' /\ KeepsGrants
<1> USE DEF GrantInv, KeepsGrants
<1>1. CASE Begin
  BY <1>1 DEF Begin
<1>2. CASE coex_wifi_antenna /\ C!coex_wifi_antenna
  <2>1. cxPc \in 1 .. 4 /\ cxPc' = cxPc + 1
    BY <1>2 DEF C!coex_wifi_antenna
  <2>2. PICK ready \in {0, 1} : C!indirect_write(cxPc, ready)
    BY <1>2 DEF C!coex_wifi_antenna
  <2>3. gnt' = gnt \/ gnt' = [gnt EXCEPT ![C!Fields[cxPc]] = C!Wanted[cxPc]]
    BY <2>2 DEF C!indirect_write
  <2>4. \/ C!Fields[cxPc] = "wlbb" /\ C!Wanted[cxPc] = "high"
        \/ C!Fields[cxPc] = "wlrf" /\ C!Wanted[cxPc] = "high"
        \/ C!Fields[cxPc] = "btbb" /\ C!Wanted[cxPc] = "pta"
        \/ C!Fields[cxPc] = "btrf" /\ C!Wanted[cxPc] = "pta"
    BY <2>1 DEF C!Fields, C!Wanted
  <2>5. GrantInv'
    BY <2>1, <2>3, <2>4
  <2>6. KeepsGrants
    BY <2>3, <2>4
  <2> QED BY <2>5, <2>6
<1>3. CASE ChipUp
  BY <1>3 DEF ChipUp, P!PowerUp, C!ChannelReset, C!NoGrant
<1>4. CASE ChipLost
  BY <1>4 DEF ChipLost, P!PowerDown, P!Die, C!ChannelReset, C!NoGrant
<1>5. CASE UNCHANGED coexVars
  BY <1>5 DEF coexVars
<1> QED
  <2>1. \/ Begin \/ (coex_wifi_antenna /\ C!coex_wifi_antenna) \/ ChipUp \/ ChipLost \/ UNCHANGED coexVars
    BY DEF Next, PreCfg, Power, PowerDone, trx_init, Firmware, mac_init, Efuse, phy_set_param, fw_handshake,
       coex_wifi_antenna, Tune, ScanDone, Associate, trx_free, ChipWorks, Finished, vars
  <2> QED BY <2>1, <1>1, <1>2, <1>3, <1>4, <1>5

(* A command of the handshake or of the join keeps PacketInv: a packet is  *)
(* posted only where none is under way.                                    *)
LEMMA PacketCommand ==
  ASSUME PacketInv, H!H2CStep, stage \in Posting, UNCHANGED <<stage, chip, rings>>
  PROVE  PacketInv'
<1> USE DEF PacketInv, Packets
<1>1. ASSUME NEW p \in Packets, H!Post(p), overslept = 0 /\ chip = "act" => bds = 0, UNCHANGED <<fetched, overslept>>,
             h2cPc' \notin {"general", "phydm", "ready"}
      PROVE  PacketInv'
  <2>1. CASE rings = "ok"
    <3>1. buf' = p /\ bds' = bds + 1 /\ posted' = Append(posted, p)
      BY <1>1, <2>1 DEF H!Post
    <3>2. posted' \in Seq(Packets)
      BY <1>1, <3>1
    <3> QED BY <1>1, <2>1, <3>1, <3>2
  <2>2. CASE rings # "ok"
    BY <1>1, <2>2 DEF H!Post
  <2> QED BY <2>1, <2>2
<1>2. CASE H!GeneralInfo
  BY <1>1, <1>2 DEF H!GeneralInfo
<1>3. CASE H!PhydmInfo
  BY <1>1, <1>3 DEF H!PhydmInfo
<1>4. CASE H!Wake
  BY <1>4 DEF H!Wake, H!pktVars
<1>5. CASE \E five \in BOOLEAN : H!Iqk(five)
  <2>1. CASE H!Post("iqk") /\ h2cPc' = "iqk_poll"
    BY <1>1, <1>5, <2>1 DEF H!Iqk
  <2>2. CASE h2cPc' = "tuned" /\ UNCHANGED <<buf, bds, posted>>
    BY <1>5, <2>2 DEF H!Iqk
  <2> QED BY <1>5, <2>1, <2>2 DEF H!Iqk
<1>6. CASE \E c \in H!Cmds : H!WriteEx(c) \/ H!WriteBox(c)
  BY <1>6 DEF H!WriteEx, H!WriteBox, H!BoxPc, H!pktVars
<1> QED BY <1>2, <1>3, <1>4, <1>5, <1>6 DEF H!H2CStep

(* Every step keeps PacketInv.                                             *)
LEMMA PacketStep ==
  ASSUME ControlInv, PacketInv, [Next]_vars
  PROVE  PacketInv'
<1> USE DEF PacketInv, Posting
<1>1. CASE Begin
  BY <1>1 DEF Begin, P!rtw_mac_power_on, P!chipVars, pktVars
<1>2. CASE PreCfg
  BY <1>2 DEF PreCfg, P!rtw_mac_pre_system_cfg, P!chipVars, Stay, opVars, h2cVars, pktVars
<1>3. CASE Power
  BY <1>3 DEF Power, P!PowerStep, P!rtw_mac_power_switch, P!rtw_sub_pwr_seq_parser, P!rtw_pwr_cmd_polling,
     P!rtw_mac_init_system_cfg, P!chipVars, Stay, opVars, h2cVars, pktVars
<1>4. CASE PowerDone
  BY <1>4 DEF PowerDone, Goto, Then, powerVars, h2cVars, pktVars
<1>5. CASE H!RingReset /\ UNCHANGED powerVars
  BY <1>5 DEF H!RingReset, powerVars, Packets
<1>6. CASE trx_init /\ rings' # "ok"
  BY <1>6 DEF trx_init, Goto, Then, powerVars, h2cVars, pktVars
<1>7. CASE /\ UNCHANGED <<rings, powerVars, h2cVars>>
           /\ stage' \notin Posting \/ stage \in Posting
  BY <1>7 DEF powerVars, h2cVars, pktVars
<1>8. CASE stage \in {"handshake", "join"} /\ H!H2CStep /\ Stay /\ UNCHANGED <<rings, powerVars>>
  BY <1>8, PacketCommand DEF Stay, opVars, powerVars
<1>9. CASE ChipWorks
  <2>1. UNCHANGED <<stage, rings, chip, h2cPc, buf, posted, overslept>>
    BY <1>9 DEF ChipWorks, Stay, opVars, powerVars, H!H2CChip, H!Fetch, H!Take, H!pktVars
  <2>2. CASE H!Fetch
    <3>1. bds > 0 /\ chip = "act" /\ bds' = bds - 1 /\ fetched' = Append(fetched, buf)
      BY <2>2 DEF H!Fetch
    <3>2. overslept = 0 => bds = 1 /\ posted = Append(fetched, buf)
      BY <3>1
    <3>3. fetched' \in Seq(Packets) /\ bds' \in Nat /\ rings = "ok"
      BY <3>1
    <3> QED BY <2>1, <3>1, <3>2, <3>3
  <2>3. CASE UNCHANGED <<bds, fetched>>
    BY <2>1, <2>3
  <2> QED BY <1>9, <2>2, <2>3 DEF ChipWorks, H!H2CChip, H!Take, H!pktVars
<1>10. CASE ChipUp
  BY <1>10 DEF ChipUp, P!PowerUp, H!H2CReset, Packets
<1>11. CASE ChipLost
  BY <1>11 DEF ChipLost, P!PowerDown, P!Die, H!H2CReset, Packets
<1> QED
  <2>1. CASE PowerDone \/ trx_init \/ Firmware \/ mac_init
    BY <2>1, <1>4, <1>5, <1>6, <1>7 DEF trx_init, Firmware, mac_init, Stay, Goto, opVars
  <2>2. CASE Efuse \/ phy_set_param \/ coex_wifi_antenna \/ Tune \/ ScanDone
    BY <2>2, <1>7 DEF Efuse, phy_set_param, coex_wifi_antenna, Tune, ScanDone
  <2>3. CASE fw_handshake \/ Associate
    BY <2>3, <1>7, <1>8 DEF fw_handshake, Associate
  <2>4. CASE trx_free
    BY <2>4, <1>5 DEF trx_free
  <2>5. CASE Finished \/ UNCHANGED vars
    BY <2>5, <1>7 DEF Finished, vars, opVars
  <2> QED BY <2>1, <2>2, <2>3, <2>4, <2>5, <1>1, <1>2, <1>3, <1>9, <1>10, <1>11 DEF Next

(* The four boxes in turn: the last one is not this one.                   *)
LEMMA BoxTurn ==
  ASSUME NEW n \in H!Boxes
  PROVE  /\ (n + 3) % 4 # n /\ (n + 1) % 4 \in H!Boxes
         /\ (((n + 1) % 4) + 3) % 4 = n
  BY DEF H!Boxes

(* A command of the join keeps BoxInv: it writes to an empty box, upper    *)
(* half first.                                                             *)
LEMMA BoxCommand ==
  ASSUME BoxInv, H!H2CStep, UNCHANGED <<chip, fresh>>, h2cPc \in Early \cup Late,
         h2cPc \in Late => fresh = 1
  PROVE  BoxInv'
<1> USE DEF BoxInv, Early, Late
<1>1. CASE H!GeneralInfo \/ H!PhydmInfo \/ H!Wake \/ \E five \in BOOLEAN : H!Iqk(five)
  <2>1. /\ UNCHANGED <<box_num, ex, lo, full, taken>>
        /\ h2cPc \in Early \cup {"iqk_poll"} /\ h2cPc' \in Early \cup {"iqk_poll", "tuned"}
    BY <1>1 DEF H!GeneralInfo, H!PhydmInfo, H!Wake, H!Iqk, H!boxVars
  <2> QED BY <2>1 DEF Last, MailboxWhole, H!MailboxWhole
<1>2. CASE H!WriteEx("media")
  <2>1. /\ h2cPc = "tuned" /\ h2cPc' = "media_box" /\ ex' = [ex EXCEPT ![box_num] = "media"]
        /\ UNCHANGED <<box_num, lo, full, taken>>
    BY <1>2 DEF H!WriteEx, H!Sending, H!BoxPc
  <2>2. full = {}
    BY <2>1
  <2> QED BY <2>1, <2>2 DEF H!Cmds, MailboxWhole, H!MailboxWhole
<1>3. CASE H!WriteEx("ra")
  <2>1. /\ h2cPc = "ra" /\ h2cPc' = "ra_box" /\ ex' = [ex EXCEPT ![box_num] = "ra"]
        /\ UNCHANGED <<box_num, lo, full, taken>>
    BY <1>3 DEF H!WriteEx, H!Sending, H!BoxPc
  <2>2. chip = "act" => box_num \notin full
    BY <2>1, BoxTurn DEF Last
  <2>3. chip = "act" => \A b \in full : ex'[b] = ex[b]
    BY <2>1, <2>2
  <2> QED BY <2>1, <2>2, <2>3 DEF H!Cmds, Last, MailboxWhole, H!MailboxWhole
<1>4. CASE H!WriteBox("media")
  <2>1. /\ h2cPc = "media_box" /\ h2cPc' = "ra" /\ lo' = [lo EXCEPT ![box_num] = "media"]
        /\ full' = full \cup {box_num} /\ box_num' = (box_num + 1) % 4
        /\ UNCHANGED <<ex, taken>>
    BY <1>4 DEF H!WriteBox, H!BoxPc
  <2>2. full = {}
    BY <2>1
  <2>3. box_num' \in H!Boxes /\ Last' = box_num
    BY <2>1, BoxTurn DEF Last
  <2> QED BY <2>1, <2>2, <2>3 DEF H!Cmds, H!None, MailboxWhole, H!MailboxWhole
<1>5. CASE H!WriteBox("ra")
  <2>1. /\ h2cPc = "ra_box" /\ h2cPc' = "done" /\ lo' = [lo EXCEPT ![box_num] = "ra"]
        /\ full' = full \cup {box_num} /\ box_num' = (box_num + 1) % 4
        /\ UNCHANGED <<ex, taken>>
    BY <1>5 DEF H!WriteBox, H!BoxPc
  <2>2. box_num' \in H!Boxes
    BY <2>1, BoxTurn
  <2>3. chip = "act" => \A b \in full' : ex[b] = lo'[b] /\ lo'[b] # H!None
    BY <2>1 DEF H!None
  <2> QED BY <2>1, <2>2, <2>3 DEF H!Cmds, MailboxWhole, H!MailboxWhole
<1> QED BY <1>1, <1>2, <1>3, <1>4, <1>5 DEF H!H2CStep, H!Cmds

(* Every step keeps BoxInv: a power-up empties the boxes before a join     *)
(* fills them.                                                             *)
LEMMA BoxStep ==
  ASSUME ControlInv, PowerInv, BoxInv, [Next]_vars
  PROVE  BoxInv'
<1>1. CASE Begin
  BY <1>1 DEF Begin, P!rtw_mac_power_on, P!chipVars, boxVars, BoxInv, Last, MailboxWhole, H!MailboxWhole
<1>2. CASE UNCHANGED <<chip, fresh, h2cPc, boxVars>>
  BY <1>2 DEF boxVars, BoxInv, Last, MailboxWhole, H!MailboxWhole
<1>3. CASE H!H2CStep /\ UNCHANGED powerVars
  BY <1>3, BoxCommand DEF powerVars, ControlInv, PowerInv, UpForGood
<1>4. CASE ChipWorks
  <2>1. UNCHANGED <<chip, fresh, h2cPc, box_num, ex, lo>>
    BY <1>4 DEF ChipWorks, powerVars, H!H2CChip, H!Fetch, H!Take, H!boxVars
  <2>2. CASE H!Fetch
    BY <2>2, <2>1, <1>2 DEF H!Fetch, H!boxVars, boxVars
  <2>3. CASE \E b \in H!Boxes : H!Take(b)
    <3>1. PICK b \in full : /\ chip = "act" /\ full' = full \ {b}
                            /\ taken' = taken \cup {<<ex[b], lo[b]>>}
      BY <2>3 DEF H!Take
    <3>2. ex[b] = lo[b] /\ lo[b] # H!None
      BY <3>1 DEF BoxInv
    <3>3. MailboxWhole'
      BY <3>1, <3>2 DEF BoxInv, MailboxWhole, H!MailboxWhole
    <3> QED BY <2>1, <3>1, <3>3 DEF BoxInv, Last
  <2> QED BY <1>4, <2>2, <2>3 DEF ChipWorks, H!H2CChip
<1>5. CASE ChipUp
  <2>1. h2cPc \notin Late /\ UNCHANGED h2cPc /\ chip = "off"
    BY <1>5 DEF ChipUp, P!PowerUp, H!H2CReset, ControlInv, PowerInv, UpForGood
  <2>2. /\ full' = {} /\ taken' = {} /\ box_num' = box_num
        /\ ex' = [b \in H!Boxes |-> H!None] /\ lo' = [b \in H!Boxes |-> H!None]
    BY <1>5 DEF ChipUp, H!H2CReset
  <2> QED BY <2>1, <2>2 DEF BoxInv, Late, MailboxWhole, H!MailboxWhole
<1>6. CASE ChipLost
  <2>1. chip' # "act"
    BY <1>6 DEF ChipLost, P!PowerDown, P!Die
  <2>2. /\ full' = {} /\ taken' = {} /\ box_num' = box_num
        /\ ex' = [b \in H!Boxes |-> H!None] /\ lo' = [b \in H!Boxes |-> H!None]
    BY <1>6 DEF ChipLost, H!H2CReset
  <2> QED BY <2>1, <2>2 DEF BoxInv, MailboxWhole, H!MailboxWhole
<1> QED
  <2>1. CASE PreCfg \/ Power
    BY <2>1, <1>2 DEF PreCfg, Power, P!rtw_mac_pre_system_cfg, P!PowerStep, P!rtw_mac_power_switch,
       P!rtw_sub_pwr_seq_parser, P!rtw_pwr_cmd_polling, P!rtw_mac_init_system_cfg, P!chipVars, h2cVars
  <2>2. CASE trx_init \/ Firmware \/ trx_free
    BY <2>2, <1>2 DEF trx_init, Firmware, trx_free, H!RingReset, H!boxVars, boxVars, h2cVars, powerVars
  <2>3. CASE PowerDone \/ mac_init \/ Efuse \/ phy_set_param \/ coex_wifi_antenna \/ Tune \/ ScanDone
             \/ Finished \/ UNCHANGED vars
    BY <2>3, <1>2 DEF PowerDone, mac_init, Efuse, phy_set_param, coex_wifi_antenna, Tune, ScanDone, Finished,
       vars, h2cVars, powerVars
  <2>4. CASE fw_handshake \/ Associate
    BY <2>4, <1>2, <1>3 DEF fw_handshake, Associate, h2cVars, powerVars
  <2> QED BY <2>1, <2>2, <2>3, <2>4, <1>1, <1>4, <1>5, <1>6 DEF Next
-----------------------------------------------------------------------------
(* The start of the driver satisfies all parts.                            *)
LEMMA InitHolds ==
  ASSUME Init
  PROVE  IInv
<1>1. ControlInv /\ DownloadInv /\ PowerInv
  BY DEF Init, P!PowerInit, F!FwInit, H!H2CInit, ControlInv, DownloadInv, PowerInv, UpForGood, Stages, Early, Late
<1>2. RegInv
  BY DEF Init, P!PowerInit, F!FwInit, RegInv, F!Running, F!Registers
<1>3. LoopInv /\ LateInv /\ MemInv
  BY DEF Init, F!FwInit, F!Empty, LoopInv, LateInv, MemInv, Loading
<1>4. FilterInv /\ GrantInv
  BY DEF Init, Y!PhyInit, C!ChannelInit, C!NoGrant, FilterInv, GrantInv
<1>5. PacketInv
  BY DEF Init, P!PowerInit, H!H2CInit, PacketInv, Packets, Posting
<1>6. BoxInv
  BY DEF Init, P!PowerInit, H!H2CInit, BoxInv, H!Boxes, Early, Late, MailboxWhole, H!MailboxWhole
<1> QED BY <1>1, <1>2, <1>3, <1>4, <1>5, <1>6 DEF IInv

(* The bring-up keeps its inductive invariant.                             *)
LEMMA Invariance == Spec => []IInv
<1>1. Init => IInv
  BY InitHolds
<1>2. IInv /\ [Next]_vars => IInv'
  BY ControlStep, DownloadStep, PowerStays, RegStep, LoopStep, LateStep, MemStep, FilterStep, GrantStep,
     PacketStep, BoxStep DEF IInv
<1> QED BY <1>1, <1>2, PTL DEF Spec

(* A power-on that reports success went through a power-up of its own      *)
(* (pwr.c: rtw_mac_power_on), whatever the chip held, answered late or     *)
(* missed before.                                                          *)
THEOREM PowerOnFresh == Spec => []PowerOnIsFresh
<1>1. IInv => PowerOnIsFresh
  BY DEF IInv, PowerInv, UpForGood, PowerOnIsFresh, P!PowerOnIsFresh
<1> QED BY <1>1, Invariance, PTL

(* A firmware that counts as running is in memory whole (fwdownload.c),    *)
(* for every image and every length of a chunk.                            *)
THEOREM FirmwareWhole == Spec => []RunningIsWhole
<1>1. IInv => RunningIsWhole
  BY DEF IInv, MemInv, Whole, RunningIsWhole, F!RunningIsWhole, F!Up, F!Sections, Sections
<1> QED BY <1>1, Invariance, PTL

(* After a power-on that succeeded, a successful download leaves the       *)
(* registers it borrowed as it found them (fwdownload.c).                  *)
THEOREM RegistersBack == Spec => []RegistersRestored
<1>1. IInv => RegistersRestored
  BY DEF IInv, DownloadInv, RegInv, RegistersRestored
<1> QED BY <1>1, Invariance, PTL

(* On channels 1 to 13 the transmit filter is the table's (channel.c),     *)
(* across channel 14, failed bring-ups and any number of operations.       *)
THEOREM FilterStays == Spec => []FilterIsTable
<1>1. IInv => FilterIsTable
  BY DEF IInv, FilterInv, FilterIsTable, C!FilterIsTable
<1> QED BY <1>1, Invariance, PTL

(* An antenna grant stays through the later writes of coex.c.              *)
THEOREM GrantsKept == Spec => GrantStays
<1>1. IInv /\ [Next]_vars => [chip' = chip => \A f \in {"wlbb", "wlrf"} : gnt[f] = "high" => gnt'[f] = "high"]_vars
  BY GrantStep DEF IInv, KeepsGrants
<1> QED BY <1>1, Invariance, PTL DEF Spec, GrantStays

(* The firmware gets the packets that were posted, each once, whole and in *)
(* order (h2c.c, trx.c), through a buffer that nothing guards, as long as  *)
(* it fetches each while the host sleeps.                                  *)
THEOREM PacketsWhole == Spec => []PacketsIntact
<1>1. ASSUME PacketInv PROVE PacketsIntact
  <2>. SUFFICES ASSUME overslept = 0 PROVE H!IsPrefix(fetched, posted)
    BY DEF PacketsIntact, H!PacketsIntact
  <2>1. posted \in Seq(Packets) /\ fetched \in Seq(Packets) /\ buf \in Packets
    BY <1>1 DEF PacketInv
  <2>2. fetched = <<>> \/ posted = fetched \/ posted = Append(fetched, buf)
    BY <1>1 DEF PacketInv
  <2>3. Len(fetched) <= Len(posted) /\ \A i \in 1 .. Len(fetched) : fetched[i] = posted[i]
    BY <2>1, <2>2
  <2> QED BY <2>1, <2>3 DEF H!IsPrefix
<1> QED BY <1>1, Invariance, PTL DEF IInv

(* The firmware takes whole mailboxes only (media.c: h2c_command), though  *)
(* the host writes to a box whether the last command was taken or not.     *)
THEOREM MailboxesWhole == Spec => []MailboxWhole
<1>1. IInv => MailboxWhole
  BY DEF IInv, BoxInv
<1> QED BY <1>1, Invariance, PTL

-----------------------------------------------------------------------------
(* The conditional tables.  The engine of phy.c is a loop, in Phy a        *)
(* recursive function: what such a function computes follows from that it  *)
(* exists (IterationExists) and from an induction over its steps (UpTo).   *)

(* A nonempty set of naturals has a least element.                         *)
LEMMA LeastExists ==
  ASSUME NEW S \in SUBSET Nat, S # {}
  PROVE  \E x \in S : \A y \in S : x <= y
  <1>1. PICK x \in S : \A y \in S : ~(<<y, x>> \in OpToRel(<, Nat))
    BY NatLessThanWellFounded, WFMin
  <1>2. \A y \in S : ~(y < x)
    BY <1>1 DEF OpToRel
  <1>3. \A y \in S : x <= y
    BY <1>2
  <1>. QED BY <1>3

(* r iterates the step function Fn from a, n times.                        *)
Iterates(r, n, S, a, Fn) ==
  r \in [0 .. n -> S] /\ r[0] = a /\ \A i \in 1 .. n : r[i] = Fn[i][r[i - 1]]

(* One iteration more.                                                     *)
LEMMA IterateOnce ==
  ASSUME NEW n \in Nat, NEW N \in Nat, n < N, NEW S, NEW a \in S, NEW Fn \in [1 .. N -> [S -> S]],
         NEW r, Iterates(r, n, S, a, Fn)
  PROVE  \E q : Iterates(q, n + 1, S, a, Fn)
  <1>. DEFINE q == [i \in 0 .. n + 1 |-> IF i = n + 1 THEN Fn[n + 1][r[n]] ELSE r[i]]
  <1>1. r \in [0 .. n -> S] /\ r[0] = a /\ \A i \in 1 .. n : r[i] = Fn[i][r[i - 1]]
    BY DEF Iterates
  <1>2. n + 1 \in 1 .. N /\ r[n] \in S
    BY <1>1
  <1>3. Fn[n + 1][r[n]] \in S
    BY <1>2
  <1>4. \A i \in 0 .. n : q[i] = r[i]
    OBVIOUS
  <1>5. q[n + 1] = Fn[n + 1][r[n]]
    OBVIOUS
  <1>6. q \in [0 .. n + 1 -> S]
    BY <1>1, <1>3
  <1>. HIDE DEF q
  <1>7. q[0] = a
    BY <1>1, <1>4
  <1>8. ASSUME NEW i \in 1 .. n + 1 PROVE q[i] = Fn[i][q[i - 1]]
    <2>1. CASE i = n + 1
      BY <1>4, <1>5, <2>1
    <2>2. CASE i \in 1 .. n
      <3>1. q[i] = r[i] /\ q[i - 1] = r[i - 1]
        BY <1>4, <2>2
      <3>. QED BY <1>1, <2>2, <3>1
    <2>. QED BY <2>1, <2>2
  <1>. QED BY <1>6, <1>7, <1>8 DEF Iterates

(* The iteration exists.                                                   *)
LEMMA IterationExists ==
  ASSUME NEW N \in Nat, NEW S, NEW a \in S, NEW Fn \in [1 .. N -> [S -> S]]
  PROVE  \E r : Iterates(r, N, S, a, Fn)
  <1>. DEFINE Bad == {n \in 0 .. N : ~\E r : Iterates(r, n, S, a, Fn)}
  <1>1. SUFFICES ASSUME Bad # {} PROVE FALSE
    BY DEF Bad
  <1>0. Bad \in SUBSET Nat
    OBVIOUS
  <1>2. PICK n \in Bad : \A y \in Bad : n <= y
    BY <1>0, <1>1, LeastExists, Zenon
  <1>3. n # 0
    <2>1. [i \in 0 .. 0 |-> a] \in [0 .. 0 -> S] /\ [i \in 0 .. 0 |-> a][0] = a
      OBVIOUS
    <2>2. Iterates([i \in 0 .. 0 |-> a], 0, S, a, Fn)
      BY <2>1 DEF Iterates
    <2>. QED BY <2>2
  <1>4. n - 1 \in 0 .. N /\ n - 1 < N /\ (n - 1) + 1 = n /\ n - 1 \in Nat
    BY <1>3
  <1>5. n - 1 \notin Bad
    BY <1>2, <1>4
  <1>6. PICK r : Iterates(r, n - 1, S, a, Fn)
    BY <1>4, <1>5
  <1>7. \E q : Iterates(q, (n - 1) + 1, S, a, Fn)
    BY <1>4, <1>6, IterateOnce
  <1>. QED BY <1>2, <1>4, <1>7

(* A property of naturals that holds of 0 and is handed on holds of all    *)
(* up to N: B is the set of those that have it.                            *)
LEMMA UpTo ==
  ASSUME NEW N \in Nat, NEW B \in SUBSET (0 .. N), 0 \in B,
         \A i \in 1 .. N : i - 1 \in B => i \in B
  PROVE  B = 0 .. N
  <1>. DEFINE Bad == (0 .. N) \ B
  <1>1. SUFFICES ASSUME Bad # {} PROVE FALSE
    OBVIOUS
  <1>0. Bad \in SUBSET Nat
    OBVIOUS
  <1>2. PICK n \in Bad : \A y \in Bad : n <= y
    BY <1>0, <1>1, LeastExists, Zenon
  <1>3. n # 0 /\ n \in 1 .. N /\ n - 1 \in 0 .. N
    BY <1>2
  <1>4. n - 1 \in B
    BY <1>2, <1>3
  <1>. QED BY <1>2, <1>3, <1>4

(* The types of the table engine.                                          *)
CondSet == [cut : Nat, pkg : Nat, intf : Nat, rfe : Nat]
BlockSet == [conds : Seq(CondSet), n : Nat]
EntrySet == [k : {"if", "elif", "neg", "cfg", "else", "endif"}, br : Nat, cond : CondSet]
ParseState == [matched : {0, 1}, skipped : {0, 1}, pos : CondSet, done : Seq(Nat)]

(* es are the entries of block b, which has n conditions, branch by        *)
(* branch.                                                                 *)
EntriesOf(es, b, n) ==
  /\ es \in Seq(EntrySet) /\ Len(es) = 3 * n + 3
  /\ \A i \in 1 .. n :
       /\ es[3 * i - 2].k \in {"if", "elif"} /\ es[3 * i - 2].cond = b.conds[i]
       /\ es[3 * i - 1].k = "neg" /\ es[3 * i].k = "cfg" /\ es[3 * i].br = i
  /\ es[3 * n + 1].k = "else" /\ es[3 * n + 3].k = "endif"
  /\ es[3 * n + 2].k = "cfg" /\ es[3 * n + 2].br = n + 1

(* So are those of Phy.                                                    *)
LEMMA EntriesAre ==
  ASSUME NEW b \in BlockSet, Len(b.conds) \in Nat, Len(b.conds) > 0
  PROVE  EntriesOf(Y!Entries(b), b, Len(b.conds))
  <1>. DEFINE n == Len(b.conds)
              es == Y!Entries(b)
  <1>0. n \in Nat /\ n > 0
    OBVIOUS
  <1>1. es = [k \in 1 .. 3 * (n + 1) |-> Y!Branch(b, (k + 2) \div 3)[1 + ((k + 2) % 3)]]
    BY DEF Y!Entries
  <1>. HIDE DEF es
  <1>2. ASSUME NEW i \in 1 .. n + 1
        PROVE  /\ es[3 * i - 2] = Y!Branch(b, i)[1] /\ es[3 * i - 1] = Y!Branch(b, i)[2]
               /\ es[3 * i] = Y!Branch(b, i)[3]
    <2>1. 3 * i - 2 \in 1 .. 3 * (n + 1) /\ ((3 * i - 2) + 2) \div 3 = i /\ 1 + (((3 * i - 2) + 2) % 3) = 1
      OBVIOUS
    <2>2. 3 * i - 1 \in 1 .. 3 * (n + 1) /\ ((3 * i - 1) + 2) \div 3 = i /\ 1 + (((3 * i - 1) + 2) % 3) = 2
      OBVIOUS
    <2>3. 3 * i \in 1 .. 3 * (n + 1) /\ (3 * i + 2) \div 3 = i /\ 1 + ((3 * i + 2) % 3) = 3
      OBVIOUS
    <2>4. \A k \in 1 .. 3 * (n + 1) : es[k] = Y!Branch(b, (k + 2) \div 3)[1 + ((k + 2) % 3)]
      BY <1>1, Zenon
    <2>. QED BY <2>1, <2>2, <2>3, <2>4, Zenon
  <1>3. ASSUME NEW i \in 1 .. n
        PROVE  /\ Y!Branch(b, i)[1].k \in {"if", "elif"} /\ Y!Branch(b, i)[1].cond = b.conds[i]
               /\ Y!Branch(b, i)[2].k = "neg"
               /\ Y!Branch(b, i)[3].k = "cfg" /\ Y!Branch(b, i)[3].br = i
    BY DEF Y!Branch, Y!Entry
  <1>4. /\ Y!Branch(b, n + 1)[1].k = "else" /\ Y!Branch(b, n + 1)[3].k = "endif"
        /\ Y!Branch(b, n + 1)[2].k = "cfg" /\ Y!Branch(b, n + 1)[2].br = n + 1
    BY DEF Y!Branch, Y!Entry
  <1>5. ASSUME NEW i \in 1 .. n + 1, NEW j \in 1 .. 3
        PROVE  Y!Branch(b, i)[j] \in EntrySet
    <2>1. Y!None \in CondSet
      BY DEF CondSet, Y!None, Y!Cond
    <2>2. CASE i \in 1 .. n
      <3>1. b.conds[i] \in CondSet /\ i \in Nat
        BY <2>2 DEF BlockSet
      <3>2. /\ Y!Entry(IF i = 1 THEN "if" ELSE "elif", i, b.conds[i]) \in EntrySet
            /\ Y!Entry("neg", i, Y!None) \in EntrySet /\ Y!Entry("cfg", i, Y!None) \in EntrySet
        BY <2>1, <3>1 DEF Y!Entry, EntrySet
      <3>. QED BY <2>2, <3>2 DEF Y!Branch
    <2>3. CASE i = n + 1
      <3>1. /\ Y!Entry("else", i, Y!None) \in EntrySet /\ Y!Entry("cfg", i, Y!None) \in EntrySet
            /\ Y!Entry("endif", i, Y!None) \in EntrySet
        BY <2>1, <2>3 DEF Y!Entry, EntrySet
      <3>. QED BY <2>3, <3>1 DEF Y!Branch
    <2>. QED BY <2>2, <2>3
  <1>6. ASSUME NEW k \in 1 .. 3 * (n + 1) PROVE es[k] \in EntrySet
    <2>1. (k + 2) \div 3 \in 1 .. n + 1 /\ 1 + ((k + 2) % 3) \in 1 .. 3
      OBVIOUS
    <2>. QED BY <1>1, <1>5, <2>1
  <1>7. es \in Seq(EntrySet) /\ Len(es) = 3 * n + 3
    <2>1. es \in [1 .. 3 * (n + 1) -> EntrySet]
      BY <1>1, <1>6
    <2>. QED BY <2>1
  <1>8. /\ es[3 * n + 1] = Y!Branch(b, n + 1)[1] /\ es[3 * n + 2] = Y!Branch(b, n + 1)[2]
        /\ es[3 * n + 3] = Y!Branch(b, n + 1)[3]
    <2>1. 3 * (n + 1) - 2 = 3 * n + 1 /\ 3 * (n + 1) - 1 = 3 * n + 2 /\ 3 * (n + 1) = 3 * n + 3
          /\ n + 1 \in 1 .. n + 1
      OBVIOUS
    <2>. QED BY <1>2, <2>1
  <1>9. ASSUME NEW i \in 1 .. n
         PROVE /\ es[3 * i - 2].k \in {"if", "elif"} /\ es[3 * i - 2].cond = b.conds[i]
              /\ es[3 * i - 1].k = "neg" /\ es[3 * i].k = "cfg" /\ es[3 * i].br = i
    <2>1. i \in 1 .. n + 1
      OBVIOUS
    <2>2. /\ es[3 * i - 2] = Y!Branch(b, i)[1] /\ es[3 * i - 1] = Y!Branch(b, i)[2]
          /\ es[3 * i] = Y!Branch(b, i)[3]
      BY <1>2, <2>1, Zenon
    <2>3. /\ Y!Branch(b, i)[1].k \in {"if", "elif"} /\ Y!Branch(b, i)[1].cond = b.conds[i]
          /\ Y!Branch(b, i)[2].k = "neg"
          /\ Y!Branch(b, i)[3].k = "cfg" /\ Y!Branch(b, i)[3].br = i
      BY <1>3, Zenon
    <2>. QED BY <2>2, <2>3
  <1>. QED BY <1>4, <1>7, <1>8, <1>9 DEF EntriesOf, es

(* One entry of each kind.                                                 *)
LEMMA ParseKinds ==
  ASSUME NEW st \in ParseState, NEW e \in EntrySet, NEW drv, NEW x, x = Y!ParseEntry(st, e, drv)
  PROVE  /\ x \in ParseState
         /\ e.k = "endif" => x.matched = 1 /\ x.skipped = 0 /\ x.done = st.done
         /\ e.k = "else" => x.matched = 1 - st.skipped /\ x.skipped = st.skipped /\ x.done = st.done
         /\ e.k \in {"if", "elif"} =>
              x.skipped = st.skipped /\ x.pos = e.cond /\ x.done = st.done
         /\ e.k = "neg" /\ st.skipped = 1 => x.matched = 0 /\ x.skipped = 1 /\ x.done = st.done
         /\ e.k = "neg" /\ st.skipped = 0 /\ Y!check_positive(st.pos, drv) =>
              x.matched = 1 /\ x.skipped = 1 /\ x.done = st.done
         /\ e.k = "neg" /\ st.skipped = 0 /\ ~Y!check_positive(st.pos, drv) =>
              x.matched = 0 /\ x.skipped = 0 /\ x.done = st.done
         /\ e.k = "cfg" /\ st.matched = 1 => x.skipped = st.skipped /\ x.done = Append(st.done, e.br)
         /\ e.k = "cfg" /\ st.matched = 0 => x.skipped = st.skipped /\ x.done = st.done
  <1>. USE DEF ParseState, EntrySet
  <1>1. CASE e.k = "endif"
    BY <1>1 DEF Y!ParseEntry
  <1>2. CASE e.k = "else"
    BY <1>2 DEF Y!ParseEntry, Y!ElseMatches
  <1>3. CASE e.k \in {"if", "elif"}
    BY <1>3 DEF Y!ParseEntry
  <1>4. CASE e.k = "neg"
    BY <1>4 DEF Y!ParseEntry
  <1>5. CASE e.k = "cfg"
    <2>1. st.matched = 0 \/ st.matched = 1
      OBVIOUS
    <2>2. CASE st.matched = 1
      <3>. DEFINE d == Append(st.done, e.br)
      <3>1. x = [st EXCEPT !.done = d]
        BY <1>5, <2>2 DEF Y!ParseEntry
      <3>2. d \in Seq(Nat)
        OBVIOUS
      <3>. HIDE DEF d
      <3>3. x \in ParseState /\ x.skipped = st.skipped /\ x.done = d
        BY <3>1, <3>2
      <3>. QED BY <1>5, <2>2, <3>3 DEF d
    <2>3. CASE st.matched = 0
      BY <1>5, <2>3 DEF Y!ParseEntry
    <2>. QED BY <2>1, <2>2, <2>3
  <1>. QED BY <1>1, <1>2, <1>3, <1>4, <1>5

(* The first branch whose condition holds of drv.                          *)
FirstOf(b, drv) ==
  LET ok == {i \in 1 .. Len(b.conds) : Y!check_positive(b.conds[i], drv)} IN
  IF ok = {} THEN Len(b.conds) + 1 ELSE CHOOSE i \in ok : \A j \in ok : i <= j

(* It is what it says.                                                     *)
LEMMA FirstIs ==
  ASSUME NEW b \in BlockSet, NEW drv, NEW n \in Nat, n = Len(b.conds), NEW f, f = FirstOf(b, drv)
  PROVE  /\ f \in 1 .. n + 1 /\ (f <= n => Y!check_positive(b.conds[f], drv))
         /\ \A i \in 1 .. n : i < f => ~Y!check_positive(b.conds[i], drv)
  <1>. DEFINE ok == {i \in 1 .. n : Y!check_positive(b.conds[i], drv)}
  <1>1. f = IF ok = {} THEN n + 1 ELSE CHOOSE i \in ok : \A j \in ok : i <= j
    BY DEF FirstOf
  <1>2. CASE ok = {}
    BY <1>1, <1>2
  <1>3. CASE ok # {}
    <2>1. ok \in SUBSET Nat
      OBVIOUS
    <2>2. \E x \in ok : \A y \in ok : x <= y
      BY <1>3, <2>1, LeastExists, Zenon
    <2>3. f \in ok /\ \A y \in ok : f <= y
      BY <1>1, <1>3, <2>2
    <2>. QED BY <2>3
  <1>. QED BY <1>2, <1>3

(* The three entries of branch i, from state s0.                           *)
LEMMA BranchParsed ==
  ASSUME NEW s0 \in ParseState, NEW e1 \in EntrySet, NEW e2 \in EntrySet, NEW e3 \in EntrySet, NEW drv,
         e1.k \in {"if", "elif"}, e2.k = "neg", e3.k = "cfg", NEW x,
         x = Y!ParseEntry(Y!ParseEntry(Y!ParseEntry(s0, e1, drv), e2, drv), e3, drv)
  PROVE  /\ s0.skipped = 1 => x.skipped = 1 /\ x.done = s0.done
         /\ s0.skipped = 0 /\ Y!check_positive(e1.cond, drv) =>
              x.skipped = 1 /\ x.done = Append(s0.done, e3.br)
         /\ s0.skipped = 0 /\ ~Y!check_positive(e1.cond, drv) => x.skipped = 0 /\ x.done = s0.done
  <1>. DEFINE s1 == Y!ParseEntry(s0, e1, drv)
              s2 == Y!ParseEntry(s1, e2, drv)
  <1>1. s1 \in ParseState /\ s1.skipped = s0.skipped /\ s1.pos = e1.cond /\ s1.done = s0.done
    BY ParseKinds
  <1>. HIDE DEF s1
  <1>2. /\ s2 \in ParseState /\ s2.done = s0.done
        /\ s0.skipped = 1 => s2.matched = 0 /\ s2.skipped = 1
        /\ s0.skipped = 0 /\ Y!check_positive(e1.cond, drv) => s2.matched = 1 /\ s2.skipped = 1
        /\ s0.skipped = 0 /\ ~Y!check_positive(e1.cond, drv) => s2.matched = 0 /\ s2.skipped = 0
    <2>1. s0.skipped \in {0, 1}
      BY DEF ParseState
    <2>. QED BY <1>1, <2>1, ParseKinds
  <1>3. x = Y!ParseEntry(s2, e3, drv)
    BY DEF s1
  <1>. HIDE DEF s2
  <1>4. /\ x.skipped = s2.skipped /\ (s2.matched = 1 => x.done = Append(s2.done, e3.br))
        /\ s2.matched = 0 => x.done = s2.done
    <2>1. s2.matched \in {0, 1}
      BY <1>2 DEF ParseState
    <2>. QED BY <1>2, <1>3, <2>1, ParseKinds
  <1>. QED BY <1>2, <1>4

(* The end of a block, from state s0.                                      *)
LEMMA ElseParsed ==
  ASSUME NEW s0 \in ParseState, NEW e1 \in EntrySet, NEW e2 \in EntrySet, NEW e3 \in EntrySet, NEW drv,
         e1.k = "else", e2.k = "cfg", e3.k = "endif", NEW x,
         x = Y!ParseEntry(Y!ParseEntry(Y!ParseEntry(s0, e1, drv), e2, drv), e3, drv)
  PROVE  /\ x.matched = 1 /\ x.skipped = 0
         /\ x.done = IF s0.skipped = 1 THEN s0.done ELSE Append(s0.done, e2.br)
  <1>. DEFINE s1 == Y!ParseEntry(s0, e1, drv)
              s2 == Y!ParseEntry(s1, e2, drv)
  <1>0. s0.skipped \in {0, 1}
    BY DEF ParseState
  <1>1. s1 \in ParseState /\ s1.matched = 1 - s0.skipped /\ s1.done = s0.done
    BY ParseKinds
  <1>. HIDE DEF s1
  <1>2. s2 \in ParseState /\ s2.done = IF s0.skipped = 1 THEN s0.done ELSE Append(s0.done, e2.br)
    <2>1. s1.matched = IF s0.skipped = 1 THEN 0 ELSE 1
      BY <1>0, <1>1
    <2>2. CASE s0.skipped = 1
      BY <1>1, <2>1, <2>2, ParseKinds
    <2>3. CASE s0.skipped = 0
      BY <1>1, <2>1, <2>3, ParseKinds
    <2>. QED BY <1>0, <2>2, <2>3
  <1>3. x = Y!ParseEntry(s2, e3, drv)
    BY DEF s1
  <1>. HIDE DEF s2
  <1>4. x.matched = 1 /\ x.skipped = 0 /\ x.done = s2.done
    BY <1>2, <1>3, ParseKinds
  <1>. QED BY <1>2, <1>4

(* r are the states in which the engine is after each of the entries es.   *)
Runs(r, es, a, drv) ==
  r = [i \in 0 .. Len(es) |-> IF i = 0 THEN a ELSE Y!ParseEntry(r[i - 1], es[i], drv)]

(* There are such states: the recursive function of ParseBlock exists.     *)
LEMMA EntriesRun ==
  ASSUME NEW es \in Seq(EntrySet), NEW a \in ParseState, NEW drv
  PROVE  \E r : Runs(r, es, a, drv)
  <1>. DEFINE L == Len(es)
              G(s, i) == Y!ParseEntry(s, es[i], drv)
              Fn == [i \in 1 .. L |-> [s \in ParseState |-> G(s, i)]]
  <1>0. L \in Nat
    BY LenProperties
  <1>1. ASSUME NEW i \in 1 .. L, NEW s \in ParseState PROVE G(s, i) \in ParseState
    <2>1. es[i] \in EntrySet
      BY ElementOfSeq
    <2>. QED BY <2>1, ParseKinds
  <1>2. SUFFICES \E r : r = [i \in 0 .. L |-> IF i = 0 THEN a ELSE G(r[i - 1], i)]
    BY DEF Runs
  <1>. HIDE DEF L, G
  <1>3. Fn \in [1 .. L -> [ParseState -> ParseState]]
    BY <1>1
  <1>4. PICK q : Iterates(q, L, ParseState, a, Fn)
    BY <1>0, <1>3, IterationExists, Zenon
  <1>5. /\ q \in [0 .. L -> ParseState] /\ q[0] = a
        /\ \A i \in 1 .. L : q[i] = Fn[i][q[i - 1]]
    BY <1>4, Zenon DEF Iterates
  <1>6. \A i \in 1 .. L : q[i] = G(q[i - 1], i)
    <2>. TAKE i \in 1 .. L
    <2>1. i - 1 \in 0 .. L
      BY <1>0
    <2>2. q[i - 1] \in ParseState
      BY <1>5, <2>1
    <2>. QED BY <1>5, <2>2
  <1>7. q = [i \in 0 .. L |-> IF i = 0 THEN a ELSE G(q[i - 1], i)]
    <2>. DEFINE p == [i \in 0 .. L |-> IF i = 0 THEN a ELSE G(q[i - 1], i)]
    <2>1. ASSUME NEW i \in 0 .. L PROVE q[i] = p[i]
      <3>1. CASE i = 0
        BY <1>5, <3>1
      <3>2. CASE i # 0
        <4>1. i \in 1 .. L
          BY <1>0, <3>2
        <4>. QED BY <1>6, <3>2, <4>1
      <3>. QED BY <3>1, <3>2
    <2>2. DOMAIN p = 0 .. L /\ DOMAIN q = 0 .. L
      BY <1>5
    <2>3. p = [i \in DOMAIN p |-> p[i]] /\ q = [i \in DOMAIN q |-> q[i]]
      BY <1>5
    <2>. HIDE DEF p
    <2>4. q = p
      BY <2>1, <2>2, <2>3
    <2>. QED BY <2>4 DEF p
  <1>. QED BY <1>7, Zenon

(* R is the engine's state after each of the entries es.                   *)
Stepped(R, es, a, drv) ==
  /\ R \in [0 .. Len(es) -> ParseState] /\ R[0] = a
  /\ \A i \in 1 .. Len(es) : R[i] = Y!ParseEntry(R[i - 1], es[i], drv)

(* Each comes from the one before by ParseEntry.                           *)
LEMMA EntriesParsed ==
  ASSUME NEW es \in Seq(EntrySet), NEW a \in ParseState, NEW drv, NEW R, Runs(R, es, a, drv)
  PROVE  Stepped(R, es, a, drv)
  <1>. DEFINE L == Len(es)
              G(s, i) == Y!ParseEntry(s, es[i], drv)
  <1>0. L \in Nat
    BY LenProperties
  <1>1. ASSUME NEW i \in 1 .. L, NEW s \in ParseState PROVE G(s, i) \in ParseState
    <2>1. es[i] \in EntrySet
      BY ElementOfSeq
    <2>. QED BY <2>1, ParseKinds
  <1>8. R = [i \in 0 .. L |-> IF i = 0 THEN a ELSE G(R[i - 1], i)]
    BY Zenon DEF Runs
  <1>. HIDE DEF L, G
  <1>9. 0 \in 0 .. L /\ \A i \in 1 .. L : i \in 0 .. L /\ i # 0
    BY <1>0
  <1>10. R[0] = a /\ \A i \in 1 .. L : R[i] = G(R[i - 1], i)
    BY <1>8, <1>9
  <1>11. R \in [0 .. L -> ParseState]
    <2>. DEFINE B == {i \in 0 .. L : R[i] \in ParseState}
    <2>1. 0 \in B
      BY <1>9, <1>10
    <2>2. ASSUME NEW i \in 1 .. L, i - 1 \in B PROVE i \in B
      BY <1>1, <1>9, <1>10, <2>2
    <2>3. B = 0 .. L
      BY <1>0, <2>1, <2>2, UpTo, Zenon
    <2>4. \A i \in 0 .. L : R[i] \in ParseState
      BY <2>3
    <2>5. DOMAIN R = 0 .. L /\ R = [i \in 0 .. L |-> R[i]]
      BY <1>8
    <2>. QED BY <2>4, <2>5
  <1>. QED BY <1>10, <1>11 DEF L, G, Stepped

(* A block that is entered matched and not skipped is left so, and of its  *)
(* branches the first whose condition holds has been applied, once.        *)
LEMMA BlockParsed ==
  ASSUME NEW b \in BlockSet, NEW drv, NEW x, x = Y!ParseBlock(b, drv)[1][0]
  PROVE  x.matched = 1 /\ x.skipped = 0 /\ x.done = <<FirstOf(b, drv)>>
  <1>. DEFINE n == Len(b.conds)
              es == Y!Entries(b)
              a == [matched |-> 1, skipped |-> 0, pos |-> Y!None, done |-> <<>>]
              f == FirstOf(b, drv)
              R == CHOOSE r : r = [i \in 0 .. Len(es) |->
                               IF i = 0 THEN a ELSE Y!ParseEntry(r[i - 1], es[i], drv)]
  <1>1. x = R[Len(es)]
    BY DEF Y!ParseBlock
  <1>2. n \in Nat
    BY LenProperties DEF BlockSet
  <1>3. Y!None \in CondSet
    BY DEF Y!None, Y!Cond, CondSet
  <1>4. a \in ParseState /\ a.matched = 1 /\ a.skipped = 0 /\ a.done = <<>>
    BY <1>3 DEF ParseState
  <1>. HIDE DEF a
  <1>5. es \in Seq(EntrySet) /\ Len(es) \in Nat
    <2>1. CASE n = 0
      <3>1. es = <<Y!Entry("cfg", 1, Y!None)>>
        BY <2>1 DEF Y!Entries
      <3>2. Y!Entry("cfg", 1, Y!None) \in EntrySet
        BY <1>3 DEF Y!Entry, EntrySet
      <3>. QED BY <3>1, <3>2
    <2>2. CASE n > 0
      BY <1>2, <2>2, EntriesAre DEF EntriesOf
    <2>. QED BY <1>2, <2>1, <2>2
  <1>6. /\ R \in [0 .. Len(es) -> ParseState] /\ R[0] = a
        /\ \A i \in 1 .. Len(es) : R[i] = Y!ParseEntry(R[i - 1], es[i], drv)
    <2>. HIDE DEF es
    <2>1. a \in ParseState /\ es \in Seq(EntrySet)
      BY <1>4, <1>5, Zenon
    <2>2. Runs(R, es, a, drv)
      <3>1. \E r : r = [i \in 0 .. Len(es) |-> IF i = 0 THEN a ELSE Y!ParseEntry(r[i - 1], es[i], drv)]
        <4>1. \E r : Runs(r, es, a, drv)
          BY <2>1, EntriesRun, Zenon
        <4>. QED BY <4>1, Zenon DEF Runs
      <3>. QED BY <3>1, Zenon DEF Runs
    <2>. HIDE DEF R
    <2>3. Stepped(R, es, a, drv)
      BY <2>1, <2>2, EntriesParsed, Zenon
    <2>. QED BY <2>3, Zenon DEF Stepped
  <1>. HIDE DEF R
  <1>7. /\ f \in 1 .. n + 1 /\ (f <= n => Y!check_positive(b.conds[f], drv))
        /\ \A i \in 1 .. n : i < f => ~Y!check_positive(b.conds[i], drv)
    BY <1>2, FirstIs, Zenon
  <1>8. CASE n = 0
    <2>1. es = <<Y!Entry("cfg", 1, Y!None)>>
      BY <1>8 DEF Y!Entries
    <2>2. Len(es) = 1 /\ es[1] = Y!Entry("cfg", 1, Y!None)
      BY <2>1
    <2>3. es[1] \in EntrySet /\ es[1].k = "cfg" /\ es[1].br = 1
      BY <1>3, <2>2 DEF Y!Entry, EntrySet
    <2>4. x = Y!ParseEntry(a, es[1], drv)
      BY <1>1, <1>6, <2>2
    <2>5. x = [a EXCEPT !.done = Append(a.done, 1)]
      BY <1>4, <2>3, <2>4 DEF Y!ParseEntry
    <2>6. x.matched = 1 /\ x.skipped = 0 /\ x.done = Append(<<>>, 1)
      BY <1>4, <2>5 DEF ParseState
    <2>7. f = 1
      BY <1>7, <1>8
    <2>. QED BY <2>6, <2>7
  <1>9. CASE n > 0
    <2>0. EntriesOf(es, b, n)
      BY <1>2, <1>9, EntriesAre, Zenon
    <2>. HIDE DEF es, f, n
    <2>1. /\ es \in Seq(EntrySet) /\ Len(es) = 3 * n + 3
          /\ \A i \in 1 .. n :
               /\ es[3 * i - 2].k \in {"if", "elif"} /\ es[3 * i - 2].cond = b.conds[i]
               /\ es[3 * i - 1].k = "neg" /\ es[3 * i].k = "cfg" /\ es[3 * i].br = i
          /\ es[3 * n + 1].k = "else" /\ es[3 * n + 3].k = "endif"
          /\ es[3 * n + 2].k = "cfg" /\ es[3 * n + 2].br = n + 1
      BY <2>0, Zenon DEF EntriesOf
    <2>2. ASSUME NEW i \in 1 .. n + 1
          PROVE  /\ R[3 * (i - 1)] \in ParseState
                 /\ es[3 * i - 2] \in EntrySet /\ es[3 * i - 1] \in EntrySet /\ es[3 * i] \in EntrySet
                 /\ R[3 * i] = Y!ParseEntry(Y!ParseEntry(Y!ParseEntry(R[3 * (i - 1)], es[3 * i - 2], drv),
                                               es[3 * i - 1], drv), es[3 * i], drv)
      <3>1. /\ 3 * (i - 1) \in 0 .. Len(es) /\ 3 * i - 2 \in 1 .. Len(es) /\ 3 * i - 1 \in 1 .. Len(es)
            /\ 3 * i \in 1 .. Len(es)
            /\ (3 * i - 2) - 1 = 3 * (i - 1) /\ (3 * i - 1) - 1 = 3 * i - 2 /\ 3 * i - 1 = 3 * i - 1
        BY <1>2, <2>1
      <3>2. es[3 * i - 2] \in EntrySet /\ es[3 * i - 1] \in EntrySet /\ es[3 * i] \in EntrySet
        BY <1>5, <3>1, ElementOfSeq, Zenon
      <3>3. R[3 * (i - 1)] \in ParseState
        BY <1>6, <3>1, Zenon
      <3>4. /\ R[3 * i - 2] = Y!ParseEntry(R[3 * (i - 1)], es[3 * i - 2], drv)
            /\ R[3 * i - 1] = Y!ParseEntry(R[3 * i - 2], es[3 * i - 1], drv)
            /\ R[3 * i] = Y!ParseEntry(R[3 * i - 1], es[3 * i], drv)
        BY <1>6, <3>1, Zenon
      <3>. QED BY <3>2, <3>3, <3>4, Zenon
    <2>. DEFINE B == {i \in 0 .. n : /\ R[3 * i].skipped = (IF f <= i THEN 1 ELSE 0)
                                     /\ R[3 * i].done = (IF f <= i THEN <<f>> ELSE <<>>)}
    <2>3. 0 \in B
      BY <1>2, <1>4, <1>6, <1>7
    <2>4. ASSUME NEW i \in 1 .. n, i - 1 \in B PROVE i \in B
      <3>. DEFINE s0 == R[3 * (i - 1)]
                  s3 == R[3 * i]
                  e1 == es[3 * i - 2]
                  e2 == es[3 * i - 1]
                  e3 == es[3 * i]
      <3>1. /\ s0 \in ParseState /\ e1 \in EntrySet /\ e2 \in EntrySet /\ e3 \in EntrySet
            /\ s3 = Y!ParseEntry(Y!ParseEntry(Y!ParseEntry(s0, e1, drv), e2, drv), e3, drv)
        <4>1. i \in 1 .. n + 1
          BY <1>2
        <4>. QED BY <2>2, <4>1, Zenon
      <3>2. /\ e1.k \in {"if", "elif"} /\ e1.cond = b.conds[i] /\ e2.k = "neg" /\ e3.k = "cfg"
            /\ e3.br = i
        BY <2>1, Zenon
      <3>3. /\ s0.skipped = (IF f <= i - 1 THEN 1 ELSE 0)
            /\ s0.done = (IF f <= i - 1 THEN <<f>> ELSE <<>>)
        BY <2>4
      <3>. HIDE DEF s0, s3, e1, e2, e3
      <3>4. /\ s0.skipped = 1 => s3.skipped = 1 /\ s3.done = s0.done
            /\ s0.skipped = 0 /\ Y!check_positive(b.conds[i], drv) =>
                 s3.skipped = 1 /\ s3.done = Append(s0.done, i)
            /\ s0.skipped = 0 /\ ~Y!check_positive(b.conds[i], drv) =>
                 s3.skipped = 0 /\ s3.done = s0.done
        BY <3>1, <3>2, BranchParsed
      <3>5. CASE f <= i - 1
        <4>1. f <= i
          BY <1>2, <1>7, <3>5
        <4>. QED BY <3>3, <3>4, <3>5, <4>1 DEF s3
      <3>6. CASE f = i
        <4>1. ~(f <= i - 1) /\ f <= i /\ f <= n
          BY <1>2, <3>6
        <4>2. Y!check_positive(b.conds[i], drv)
          BY <1>7, <3>6, <4>1
        <4>3. s3.skipped = 1 /\ s3.done = <<f>>
          BY <3>3, <3>4, <3>6, <4>1, <4>2
        <4>. QED BY <4>1, <4>3 DEF s3
      <3>7. CASE f > i
        <4>1. ~(f <= i - 1) /\ ~(f <= i) /\ ~Y!check_positive(b.conds[i], drv)
          BY <1>2, <1>7, <3>7
        <4>2. s3.skipped = 0 /\ s3.done = <<>>
          BY <3>3, <3>4, <4>1
        <4>. QED BY <4>1, <4>2 DEF s3
      <3>. QED BY <1>2, <1>7, <3>5, <3>6, <3>7
    <2>5. B = 0 .. n
      BY <1>2, <2>3, <2>4, UpTo, Zenon
    <2>6. /\ R[3 * n].skipped = (IF f <= n THEN 1 ELSE 0)
          /\ R[3 * n].done = (IF f <= n THEN <<f>> ELSE <<>>)
      BY <1>2, <2>5
    <2>7. /\ R[3 * n] \in ParseState
          /\ es[3 * n + 1] \in EntrySet /\ es[3 * n + 2] \in EntrySet /\ es[3 * n + 3] \in EntrySet
          /\ R[3 * n + 3] = Y!ParseEntry(Y!ParseEntry(Y!ParseEntry(R[3 * n], es[3 * n + 1], drv),
                                es[3 * n + 2], drv), es[3 * n + 3], drv)
      <3>1. /\ n + 1 \in 1 .. n + 1 /\ 3 * ((n + 1) - 1) = 3 * n /\ 3 * (n + 1) - 2 = 3 * n + 1
            /\ 3 * (n + 1) - 1 = 3 * n + 2 /\ 3 * (n + 1) = 3 * n + 3
        BY <1>2
      <3>2. /\ R[3 * ((n + 1) - 1)] \in ParseState
            /\ es[3 * (n + 1) - 2] \in EntrySet /\ es[3 * (n + 1) - 1] \in EntrySet /\ es[3 * (n + 1)] \in EntrySet
            /\ R[3 * (n + 1)] = Y!ParseEntry(Y!ParseEntry(Y!ParseEntry(R[3 * ((n + 1) - 1)], es[3 * (n + 1) - 2], drv),
                                               es[3 * (n + 1) - 1], drv), es[3 * (n + 1)], drv)
        BY <2>2, <3>1, Zenon
      <3>. QED BY <3>1, <3>2, Zenon
    <2>8. /\ x.matched = 1 /\ x.skipped = 0
          /\ x.done = IF R[3 * n].skipped = 1 THEN R[3 * n].done ELSE Append(R[3 * n].done, n + 1)
      <3>1. x = R[3 * n + 3]
        BY <1>1, <2>1
      <3>. QED BY <2>1, <2>7, <3>1, ElseParsed
    <2>9. CASE f <= n
      BY <2>6, <2>8, <2>9 DEF f
    <2>10. CASE f = n + 1
      <3>1. ~(f <= n)
        BY <1>2, <2>10
      <3>. QED BY <2>6, <2>8, <2>10, <3>1 DEF f
    <2>. QED BY <1>2, <1>7, <2>9, <2>10
  <1>. QED BY <1>2, <1>8, <1>9

(* The settings of a block, counted.                                       *)
LEMMA CountedOnce ==
  ASSUME NEW n \in Nat, NEW k \in Nat, NEW d, NEW f, d = <<f>>
  PROVE  n + Len(d) * k \in Nat
  <1>1. Len(d) = 1
    OBVIOUS
  <1>. QED BY <1>1

(* Between two blocks.                                                     *)
TableState == [matched : {1}, skipped : {0}, all : Seq(Seq(Nat)), n : Nat]

(* A block of a table adds the branch it applied.                          *)
LEMMA BlockAdds ==
  ASSUME NEW st \in TableState, NEW b \in BlockSet, NEW drv, NEW x, x = Y!NextBlock(st, b, drv)
  PROVE  x \in TableState /\ x.all = Append(st.all, <<FirstOf(b, drv)>>)
  <1>. DEFINE r == Y!ParseBlock(b, drv)[1][0]
              f == FirstOf(b, drv)
  <1>1. st.matched = 1 /\ st.skipped = 0 /\ st.all \in Seq(Seq(Nat)) /\ st.n \in Nat
    BY DEF TableState
  <1>2. x = [matched |-> r.matched, skipped |-> r.skipped,
             all |-> Append(st.all, r.done), n |-> st.n + Len(r.done) * b.n]
    BY <1>1 DEF Y!NextBlock
  <1>3. r.matched = 1 /\ r.skipped = 0 /\ r.done = <<f>>
    BY BlockParsed, Zenon
  <1>4. f \in Nat
    <2>1. Len(b.conds) \in Nat
      BY LenProperties DEF BlockSet
    <2>2. f \in 1 .. Len(b.conds) + 1
      BY <2>1, FirstIs, Zenon
    <2>. QED BY <2>1, <2>2
  <1>5. b.n \in Nat
    BY DEF BlockSet
  <1>. HIDE DEF r, f
  <1>6. r.done \in Seq(Nat)
    BY <1>3, <1>4
  <1>7. st.n + Len(r.done) * b.n \in Nat
    BY <1>1, <1>3, <1>5, CountedOnce, Zenon
  <1>. DEFINE k == st.n + Len(r.done) * b.n
              d == Append(st.all, r.done)
  <1>8. d \in Seq(Seq(Nat))
    BY <1>1, <1>6, AppendProperties, Zenon
  <1>9. x = [matched |-> 1, skipped |-> 0, all |-> d, n |-> k]
    BY <1>2, <1>3
  <1>10. d = Append(st.all, <<f>>)
    BY <1>3
  <1>11. k \in Nat
    BY <1>7
  <1>. HIDE DEF k, d
  <1>. QED BY <1>8, <1>9, <1>10, <1>11 DEF TableState, f

(* The states of the engine between the blocks of table t.                 *)
TableRuns(r, t, a, drv) ==
  r = [i \in 0 .. Len(t) |-> IF i = 0 THEN a ELSE Y!NextBlock(r[i - 1], t[i], drv)]
TableStepped(R, t, a, drv) ==
  /\ R \in [0 .. Len(t) -> TableState] /\ R[0] = a
  /\ \A i \in 1 .. Len(t) : R[i] = Y!NextBlock(R[i - 1], t[i], drv)

(* There are such states.                                                  *)
LEMMA TableRun ==
  ASSUME NEW t \in Seq(BlockSet), NEW a \in TableState, NEW drv
  PROVE  \E r : TableRuns(r, t, a, drv)
  <1>. DEFINE L == Len(t)
              G(s, i) == Y!NextBlock(s, t[i], drv)
              Fn == [i \in 1 .. L |-> [s \in TableState |-> G(s, i)]]
  <1>0. L \in Nat
    BY LenProperties
  <1>1. ASSUME NEW i \in 1 .. L, NEW s \in TableState PROVE G(s, i) \in TableState
    <2>1. t[i] \in BlockSet
      BY ElementOfSeq
    <2>. QED BY <2>1, BlockAdds
  <1>2. SUFFICES \E r : r = [i \in 0 .. L |-> IF i = 0 THEN a ELSE G(r[i - 1], i)]
    BY DEF TableRuns
  <1>. HIDE DEF L, G
  <1>3. Fn \in [1 .. L -> [TableState -> TableState]]
    BY <1>1
  <1>4. PICK q : Iterates(q, L, TableState, a, Fn)
    BY <1>0, <1>3, IterationExists, Zenon
  <1>5. /\ q \in [0 .. L -> TableState] /\ q[0] = a
        /\ \A i \in 1 .. L : q[i] = Fn[i][q[i - 1]]
    BY <1>4, Zenon DEF Iterates
  <1>6. \A i \in 1 .. L : q[i] = G(q[i - 1], i)
    <2>. TAKE i \in 1 .. L
    <2>1. i - 1 \in 0 .. L
      BY <1>0
    <2>2. q[i - 1] \in TableState
      BY <1>5, <2>1
    <2>. QED BY <1>5, <2>2
  <1>7. q = [i \in 0 .. L |-> IF i = 0 THEN a ELSE G(q[i - 1], i)]
    <2>. DEFINE p == [i \in 0 .. L |-> IF i = 0 THEN a ELSE G(q[i - 1], i)]
    <2>1. ASSUME NEW i \in 0 .. L PROVE q[i] = p[i]
      <3>1. CASE i = 0
        BY <1>5, <3>1
      <3>2. CASE i # 0
        <4>1. i \in 1 .. L
          BY <1>0, <3>2
        <4>. QED BY <1>6, <3>2, <4>1
      <3>. QED BY <3>1, <3>2
    <2>2. DOMAIN p = 0 .. L /\ DOMAIN q = 0 .. L
      BY <1>5
    <2>3. p = [i \in DOMAIN p |-> p[i]] /\ q = [i \in DOMAIN q |-> q[i]]
      BY <1>5
    <2>. HIDE DEF p
    <2>4. q = p
      BY <2>1, <2>2, <2>3
    <2>. QED BY <2>4 DEF p
  <1>. QED BY <1>7, Zenon

(* They are what the engine does, block by block.                          *)
LEMMA TableParsed ==
  ASSUME NEW t \in Seq(BlockSet), NEW a \in TableState, NEW drv, NEW R, TableRuns(R, t, a, drv)
  PROVE  TableStepped(R, t, a, drv)
  <1>. DEFINE L == Len(t)
              G(s, i) == Y!NextBlock(s, t[i], drv)
  <1>0. L \in Nat
    BY LenProperties
  <1>1. ASSUME NEW i \in 1 .. L, NEW s \in TableState PROVE G(s, i) \in TableState
    <2>1. t[i] \in BlockSet
      BY ElementOfSeq
    <2>. QED BY <2>1, BlockAdds
  <1>8. R = [i \in 0 .. L |-> IF i = 0 THEN a ELSE G(R[i - 1], i)]
    BY Zenon DEF TableRuns
  <1>. HIDE DEF L, G
  <1>9. 0 \in 0 .. L /\ \A i \in 1 .. L : i \in 0 .. L /\ i # 0
    BY <1>0
  <1>10. R[0] = a /\ \A i \in 1 .. L : R[i] = G(R[i - 1], i)
    BY <1>8, <1>9
  <1>11. R \in [0 .. L -> TableState]
    <2>. DEFINE B == {i \in 0 .. L : R[i] \in TableState}
    <2>1. 0 \in B
      BY <1>9, <1>10
    <2>2. ASSUME NEW i \in 1 .. L, i - 1 \in B PROVE i \in B
      BY <1>1, <1>9, <1>10, <2>2
    <2>3. B = 0 .. L
      BY <1>0, <2>1, <2>2, UpTo, Zenon
    <2>4. \A i \in 0 .. L : R[i] \in TableState
      BY <2>3
    <2>5. DOMAIN R = 0 .. L /\ R = [i \in 0 .. L |-> R[i]]
      BY <1>8
    <2>. QED BY <2>4, <2>5
  <1>. QED BY <1>10, <1>11 DEF L, G, TableStepped

(* One more element of a sequence given by its elements.                   *)
LEMMA OneMoreElement ==
  ASSUME NEW i \in Nat, i > 0, NEW V, NEW g \in [1 .. i -> V], NEW s, s = [j \in 1 .. i - 1 |-> g[j]]
  PROVE  Append(s, g[i]) = [j \in 1 .. i |-> g[j]]
  <1>1. s \in Seq(V) /\ Len(s) = i - 1
    <2>1. s \in [1 .. i - 1 -> V] /\ i - 1 \in Nat
      OBVIOUS
    <2>. QED BY <2>1
  <1>. DEFINE q == Append(s, g[i])
              p == [j \in 1 .. i |-> g[j]]
  <1>2. q \in Seq(V) /\ Len(q) = i
    BY <1>1
  <1>3. p \in Seq(V) /\ Len(p) = i
    OBVIOUS
  <1>4. ASSUME NEW j \in 1 .. i PROVE q[j] = p[j]
    <2>1. CASE j = i
      BY <1>1, <2>1
    <2>2. CASE j \in 1 .. i - 1
      BY <1>1, <2>2
    <2>. QED BY <2>1, <2>2
  <1>. HIDE DEF q, p
  <1>5. q = p
    BY <1>2, <1>3, <1>4, SeqEqual, Zenon
  <1>. QED BY <1>5 DEF q, p

(* Of a table every block has been applied once, its first branch.         *)
LEMMA TableApplied ==
  ASSUME NEW t \in Seq(BlockSet), NEW drv
  PROVE  Y!rtw_parse_tbl_phy_cond(t, drv).all = [i \in 1 .. Len(t) |-> <<FirstOf(t[i], drv)>>]
  <1>. DEFINE L == Len(t)
              a == [matched |-> 1, skipped |-> 0, all |-> <<>>, n |-> 0]
              R == CHOOSE r : r = [i \in 0 .. Len(t) |->
                               IF i = 0 THEN a ELSE Y!NextBlock(r[i - 1], t[i], drv)]
              g == [i \in 1 .. L |-> <<FirstOf(t[i], drv)>>]
  <1>0. L \in Nat
    BY LenProperties
  <1>1. Y!rtw_parse_tbl_phy_cond(t, drv) = R[L]
    BY DEF Y!rtw_parse_tbl_phy_cond
  <1>2. a \in TableState /\ a.all = <<>>
    BY DEF TableState
  <1>. HIDE DEF a
  <1>3. TableStepped(R, t, a, drv)
    <2>1. TableRuns(R, t, a, drv)
      <3>1. \E r : r = [i \in 0 .. Len(t) |-> IF i = 0 THEN a ELSE Y!NextBlock(r[i - 1], t[i], drv)]
        <4>1. \E r : TableRuns(r, t, a, drv)
          BY <1>2, TableRun, Zenon
        <4>. QED BY <4>1, Zenon DEF TableRuns
      <3>. QED BY <3>1, Zenon DEF TableRuns
    <2>. HIDE DEF R
    <2>. QED BY <1>2, <2>1, TableParsed, Zenon
  <1>. HIDE DEF R
  <1>4. /\ R \in [0 .. L -> TableState] /\ R[0] = a
        /\ \A i \in 1 .. L : R[i] = Y!NextBlock(R[i - 1], t[i], drv)
    BY <1>3, Zenon DEF TableStepped
  <1>5. ASSUME NEW i \in 1 .. L PROVE R[i].all = Append(R[i - 1].all, g[i])
    <2>1. t[i] \in BlockSet
      BY ElementOfSeq
    <2>2. i - 1 \in 0 .. L
      BY <1>0
    <2>3. R[i - 1] \in TableState /\ R[i] = Y!NextBlock(R[i - 1], t[i], drv)
      BY <1>4, <2>2, Zenon
    <2>4. R[i].all = Append(R[i - 1].all, <<FirstOf(t[i], drv)>>)
      <3>. DEFINE s0 == R[i - 1]
                  s1 == R[i]
                  b == t[i]
      <3>1. s0 \in TableState /\ b \in BlockSet /\ s1 = Y!NextBlock(s0, b, drv)
        BY <2>1, <2>3, Zenon
      <3>. HIDE DEF s0, s1, b
      <3>2. s1.all = Append(s0.all, <<FirstOf(b, drv)>>)
        BY <3>1, BlockAdds
      <3>. QED BY <3>2 DEF s0, s1, b
    <2>. QED BY <2>4
  <1>6. g = [i \in 1 .. L |-> g[i]]
    OBVIOUS
  <1>. HIDE DEF g, L
  <1>. DEFINE B == {i \in 0 .. L : R[i].all = [j \in 1 .. i |-> g[j]]}
  <1>7. 0 \in B
    <2>1. R[0].all = <<>>
      BY <1>2, <1>4
    <2>2. <<>> = [j \in 1 .. 0 |-> g[j]]
      OBVIOUS
    <2>. QED BY <1>0, <2>1, <2>2
  <1>8. ASSUME NEW i \in 1 .. L, i - 1 \in B PROVE i \in B
    <2>. DEFINE s == R[i - 1].all
                h == [j \in 1 .. i |-> g[j]]
                V == {g[j] : j \in 1 .. i}
    <2>1. s = [j \in 1 .. i - 1 |-> g[j]]
      BY <1>8
    <2>2. i \in Nat /\ i > 0 /\ i \in 1 .. i
      BY <1>0
    <2>3. h \in [1 .. i -> V] /\ h[i] = g[i] /\ \A j \in 1 .. i - 1 : h[j] = g[j]
      BY <2>2
    <2>4. h = [j \in 1 .. i |-> h[j]]
      OBVIOUS
    <2>5. Append(s, h[i]) = [j \in 1 .. i |-> h[j]]
      <3>1. s = [j \in 1 .. i - 1 |-> h[j]]
        BY <2>1, <2>3
      <3>2. i \in Nat /\ i > 0 /\ h \in [1 .. i -> V]
        BY <2>2, <2>3
      <3>. HIDE DEF s, h, V
      <3>. QED BY <3>1, <3>2, OneMoreElement
    <2>. HIDE DEF s, h, V
    <2>6. R[i].all = h
      BY <1>5, <2>3, <2>4, <2>5 DEF s
    <2>. QED BY <1>0, <2>6 DEF h
  <1>9. B = 0 .. L
    BY <1>0, <1>7, <1>8, UpTo, Zenon
  <1>10. R[L].all = [j \in 1 .. L |-> g[j]]
    <2>1. L \in 0 .. L
      BY <1>0
    <2>2. L \in B
      BY <1>9, <2>1, Zenon
    <2>. QED BY <2>2, Zenon
  <1>. QED BY <1>1, <1>6, <1>10 DEF g, L

(* Blocks.                                                                 *)
LEMMA BlocksAre ==
  /\ \A n \in Nat : Y!Plain(n) \in BlockSet
  /\ \A n \in Nat : Y!Block(Y!Rfe45, n) \in BlockSet
  /\ \A n \in Nat : Y!Block(Y!Rfe54, n) \in BlockSet
  /\ \A n \in Nat : Y!Block(<<Y!Cond(2, 0, 4, 0)>>, n) \in BlockSet
  /\ \A n \in Nat : Y!Block(<<Y!Cond(0, 1, 0, 5)>>, n) \in BlockSet
  <1>1. \A c \in Nat, p \in Nat, m \in Nat, r \in Nat : Y!Cond(c, p, m, r) \in CondSet
    BY DEF Y!Cond, CondSet
  <1>2. /\ Y!Cond(0, 1, 0, 4) \in CondSet /\ Y!Cond(0, 1, 0, 5) \in CondSet
        /\ Y!Cond(0, 0, 4, 0) \in CondSet /\ Y!Cond(2, 0, 4, 0) \in CondSet
    BY <1>1
  <1>3. /\ <<>> \in Seq(CondSet) /\ Y!Rfe45 \in Seq(CondSet) /\ Y!Rfe54 \in Seq(CondSet)
        /\ <<Y!Cond(2, 0, 4, 0)>> \in Seq(CondSet) /\ <<Y!Cond(0, 1, 0, 5)>> \in Seq(CondSet)
    BY <1>2 DEF Y!Rfe45, Y!Rfe54
  <1>4. \A s \in Seq(CondSet), n \in Nat : Y!Block(s, n) \in BlockSet
    BY DEF Y!Block, BlockSet
  <1>. QED BY <1>3, <1>4, Zenon DEF Y!Plain

(* A run of split blocks.                                                  *)
LEMMA SplitIs ==
  ASSUME NEW s \in Seq(Nat)
  PROVE  Y!Split(s) \in Seq(BlockSet)
  <1>1. Len(s) \in Nat /\ DOMAIN s = 1 .. Len(s) /\ \A i \in 1 .. Len(s) : s[i] \in Nat
    BY LenProperties, ElementOfSeq
  <1>2. Y!Split(s) = [i \in 1 .. Len(s) |-> Y!Block(Y!Rfe54, s[i])]
    BY <1>1 DEF Y!Split
  <1>3. \A i \in 1 .. Len(s) : Y!Block(Y!Rfe54, s[i]) \in BlockSet
    BY <1>1, BlocksAre, Zenon
  <1>4. Y!Split(s) \in [1 .. Len(s) -> BlockSet]
    BY <1>2, <1>3
  <1>. QED BY <1>1, <1>4

(* The tables are sequences of blocks.                                     *)
LEMMA TablesAre ==
  /\ Y!rtw8821c_mac \in Seq(BlockSet) /\ Y!rtw8821c_agc \in Seq(BlockSet)
  /\ Y!rtw8821c_agc_btg_type2 \in Seq(BlockSet) /\ Y!rtw8821c_bb \in Seq(BlockSet)
  /\ Y!rtw8821c_rf_a \in Seq(BlockSet) /\ <<>> \in Seq(BlockSet)
  <1>1. <<>> \in Seq(BlockSet)
    OBVIOUS
  <1>2. Y!rtw8821c_mac \in Seq(BlockSet)
    <2>1. Y!Plain(138) \in BlockSet
      BY BlocksAre
    <2>. QED BY <2>1 DEF Y!rtw8821c_mac
  <1>3. Y!rtw8821c_agc_btg_type2 \in Seq(BlockSet)
    <2>1. Y!Block(Y!Rfe45, 128) \in BlockSet
      BY BlocksAre
    <2>. QED BY <2>1 DEF Y!rtw8821c_agc_btg_type2
  <1>4. Y!rtw8821c_agc \in Seq(BlockSet)
    <2>1. /\ Y!agc_1 \in BlockSet /\ Y!agc_2 \in BlockSet /\ Y!agc_3 \in BlockSet /\ Y!agc_4 \in BlockSet
          /\ Y!agc_5 \in BlockSet /\ Y!agc_6 \in BlockSet /\ Y!agc_7 \in BlockSet
      BY BlocksAre DEF Y!agc_1, Y!agc_2, Y!agc_3, Y!agc_4, Y!agc_5, Y!agc_6, Y!agc_7
    <2>. QED BY <2>1 DEF Y!rtw8821c_agc
  <1>5. Y!rtw8821c_bb \in Seq(BlockSet)
    <2>1. /\ Y!bb_800 \in BlockSet /\ Y!bb_8cc \in BlockSet /\ Y!bb_8d0 \in BlockSet /\ Y!bb_a00 \in BlockSet
          /\ Y!bb_c00 \in BlockSet /\ Y!bb_cb0 \in BlockSet /\ Y!bb_cb8 \in BlockSet
      BY BlocksAre DEF Y!bb_800, Y!bb_8cc, Y!bb_8d0, Y!bb_a00, Y!bb_c00, Y!bb_cb0, Y!bb_cb8
    <2>2. /\ Y!bb_e00 \in BlockSet /\ Y!bb_1900 \in BlockSet /\ Y!bb_1c00 \in BlockSet
          /\ Y!bb_c60 \in BlockSet /\ Y!bb_1b00 \in BlockSet /\ Y!bb_1bdc \in BlockSet
          /\ Y!bb_1b80 \in BlockSet
      BY BlocksAre DEF Y!bb_e00, Y!bb_1900, Y!bb_1c00, Y!bb_c60, Y!bb_1b00, Y!bb_1bdc, Y!bb_1b80
    <2>. QED BY <2>1, <2>2 DEF Y!rtw8821c_bb
  <1>6. \A s, u : s \in Seq(BlockSet) /\ u \in Seq(BlockSet) => s \o u \in Seq(BlockSet)
    BY ConcatProperties, Zenon
  <1>7. /\ \A a \in Nat : Y!Split(<<a>>) \in Seq(BlockSet)
        /\ \A a \in Nat, b \in Nat : Y!Split(<<a, b>>) \in Seq(BlockSet)
        /\ \A a \in Nat, b \in Nat, c \in Nat : Y!Split(<<a, b, c>>) \in Seq(BlockSet)
        /\ \A a \in Nat, b \in Nat, c \in Nat, d \in Nat : Y!Split(<<a, b, c, d>>) \in Seq(BlockSet)
    <2>1. /\ \A a \in Nat : <<a>> \in Seq(Nat)
          /\ \A a \in Nat, b \in Nat : <<a, b>> \in Seq(Nat)
          /\ \A a \in Nat, b \in Nat, c \in Nat : <<a, b, c>> \in Seq(Nat)
          /\ \A a \in Nat, b \in Nat, c \in Nat, d \in Nat : <<a, b, c, d>> \in Seq(Nat)
      OBVIOUS
    <2>. QED BY <2>1, SplitIs, Zenon
  <1>8. /\ Y!rf_1 \in Seq(BlockSet) /\ Y!rf_2 \in Seq(BlockSet) /\ Y!rf_3 \in Seq(BlockSet)
        /\ Y!rf_4 \in Seq(BlockSet) /\ Y!rf_5 \in Seq(BlockSet) /\ Y!rf_6 \in Seq(BlockSet)
        /\ Y!rf_7 \in Seq(BlockSet) /\ Y!rf_8 \in Seq(BlockSet) /\ Y!rf_9 \in Seq(BlockSet)
    BY <1>7 DEF Y!rf_1, Y!rf_2, Y!rf_3, Y!rf_4, Y!rf_5, Y!rf_6, Y!rf_7, Y!rf_8, Y!rf_9
  <1>9. /\ Y!rf_12 \in Seq(BlockSet) /\ Y!rf_13 \in Seq(BlockSet) /\ Y!rf_14 \in Seq(BlockSet)
        /\ Y!rf_15 \in Seq(BlockSet) /\ Y!rf_16 \in Seq(BlockSet) /\ Y!rf_17 \in Seq(BlockSet)
        /\ Y!rf_18 \in Seq(BlockSet) /\ Y!rf_19 \in Seq(BlockSet) /\ Y!rf_20 \in Seq(BlockSet)
        /\ Y!rf_21 \in Seq(BlockSet)
    BY <1>7 DEF Y!rf_12, Y!rf_13, Y!rf_14, Y!rf_15, Y!rf_16, Y!rf_17, Y!rf_18, Y!rf_19, Y!rf_20, Y!rf_21
  <1>10. Y!rf_22 \in Seq(BlockSet)
    <2>1. <<5, 5, 5, 4, 4, 4>> \in Seq(Nat)
      OBVIOUS
    <2>. QED BY <2>1, SplitIs, Zenon DEF Y!rf_22
  <1>11. <<Y!Plain(1)>> \in Seq(BlockSet) /\ <<Y!Plain(6)>> \in Seq(BlockSet)
    <2>1. Y!Plain(1) \in BlockSet /\ Y!Plain(6) \in BlockSet
      BY BlocksAre
    <2>. QED BY <2>1
  <1>12. Y!rf_10 \in Seq(BlockSet) /\ Y!rf_11 \in Seq(BlockSet)
    <2>1. /\ Y!Split(<<5, 19, 2>>) \in Seq(BlockSet) /\ Y!Split(<<2>>) \in Seq(BlockSet)
          /\ Y!Split(<<1>>) \in Seq(BlockSet) /\ Y!Split(<<1, 1, 3>>) \in Seq(BlockSet)
      BY <1>7
    <2>. QED BY <1>6, <1>11, <2>1, Zenon DEF Y!rf_10, Y!rf_11
  <1>13. Y!rtw8821c_rf_a \in Seq(BlockSet)
    <2>. DEFINE p == Y!rf_1 \o Y!rf_2 \o Y!rf_3 \o Y!rf_4 \o Y!rf_5 \o Y!rf_6 \o Y!rf_7 \o Y!rf_8
                q == p \o Y!rf_9 \o Y!rf_10 \o Y!rf_11 \o Y!rf_12 \o Y!rf_13 \o Y!rf_14 \o Y!rf_15
    <2>1. p \in Seq(BlockSet)
      BY <1>6, <1>8, Zenon
    <2>2. Y!rtw8821c_rf_a = q \o Y!rf_16 \o Y!rf_17 \o Y!rf_18 \o Y!rf_19 \o Y!rf_20 \o Y!rf_21 \o Y!rf_22
      BY Zenon DEF Y!rtw8821c_rf_a
    <2>. HIDE DEF p
    <2>3. q \in Seq(BlockSet)
      BY <1>6, <1>8, <1>9, <1>12, <2>1, Zenon
    <2>. HIDE DEF q
    <2>. QED BY <1>6, <1>9, <1>10, <2>2, <2>3, Zenon
  <1>. QED BY <1>1, <1>2, <1>3, <1>4, <1>5, <1>13

(* Whatever the RFE type, each table that is loaded is a sequence of       *)
(* blocks.                                                                 *)
LEMMA LoadedAre ==
  ASSUME NEW r, NEW t \in DOMAIN Y!NotLoaded
  PROVE  t \in DOMAIN Y!Loaded(r) /\ Y!Loaded(r)[t] \in Seq(BlockSet)
  <1>. DEFINE T == Seq(BlockSet)
              btg == IF r \in {2, 4} THEN Y!rtw8821c_agc_btg_type2 ELSE <<>>
  <1>1. t \in {"mac", "bb", "agc", "agcB", "rf"}
    BY DEF Y!NotLoaded
  <1>2. /\ Y!rtw8821c_mac \in T /\ Y!rtw8821c_agc \in T /\ Y!rtw8821c_bb \in T
        /\ Y!rtw8821c_rf_a \in T /\ btg \in T
    BY TablesAre, Zenon
  <1>3. Y!Loaded(r) = [mac |-> Y!rtw8821c_mac, bb |-> Y!rtw8821c_bb, agc |-> Y!rtw8821c_agc,
                       agcB |-> btg, rf |-> Y!rtw8821c_rf_a]
    BY DEF Y!Loaded
  <1>. HIDE DEF T, btg
  <1>4. t \in DOMAIN Y!Loaded(r) /\ Y!Loaded(r)[t] \in T
    BY <1>1, <1>2, <1>3
  <1>. QED BY <1>4 DEF T

(* ap is, for each table of tbl, one version of each block: that of drv.   *)
OneVersion(tbl, ap, drv) ==
  \A t \in DOMAIN tbl : ap[t] = [i \in 1 .. Len(tbl[t]) |-> <<FirstOf(tbl[t][i], drv)>>]

(* TablesOneVersion, with what it depends on as parameters.                *)
LEMMA OneVersionIs ==
  TablesOneVersion = (bb = "loaded" => OneVersion(Y!Loaded(phy_cond.rfe), applied, phy_cond))
  BY Zenon DEF TablesOneVersion, Y!TablesOneVersion, Y!FirstBranch, OneVersion, FirstOf

(* The same of the next state.                                             *)
LEMMA OneVersionNext ==
  TablesOneVersion' = (bb' = "loaded" => OneVersion(Y!Loaded(phy_cond'.rfe), applied', phy_cond'))
  BY Zenon DEF TablesOneVersion, Y!TablesOneVersion, Y!FirstBranch, OneVersion, FirstOf, Y!Loaded

(* Every step keeps TablesOneVersion: the tables are loaded as a whole.    *)
LEMMA TablesStep ==
  ASSUME TablesOneVersion, [Next]_vars
  PROVE  TablesOneVersion'
<1>1. CASE UNCHANGED phyVars
  BY <1>1, OneVersionIs, OneVersionNext DEF phyVars
<1>2. CASE bb' = "reset"
  BY <1>2, OneVersionNext
<1>3. CASE \E ok \in BOOLEAN : Y!phy_set_param(ok)
  <2>. DEFINE drv == Y!rtw_phy_setup_phy_cond
              tbl == Y!Loaded(rfe)
              p == [t \in DOMAIN Y!NotLoaded |-> Y!rtw_parse_tbl_phy_cond(tbl[t], drv)]
  <2>1. phy_cond' = drv /\ applied' = [t \in DOMAIN p |-> p[t].all]
    BY <1>3 DEF Y!phy_set_param
  <2>2. drv.rfe = rfe
    BY DEF Y!rtw_phy_setup_phy_cond, Y!Cond
  <2>. HIDE DEF drv
  <2>3. ASSUME NEW t \in DOMAIN Y!NotLoaded
        PROVE  applied'[t] = [i \in 1 .. Len(tbl[t]) |-> <<FirstOf(tbl[t][i], drv)>>]
    <3>1. applied'[t] = Y!rtw_parse_tbl_phy_cond(tbl[t], drv).all
      BY <2>1
    <3>2. tbl[t] \in Seq(BlockSet)
      BY LoadedAre, Zenon
    <3>. QED BY <3>1, <3>2, TableApplied, Zenon
  <2>4. DOMAIN Y!NotLoaded = DOMAIN tbl
    BY DEF Y!NotLoaded, Y!Loaded
  <2>5. OneVersion(tbl, applied', drv)
    BY <2>3, <2>4, Zenon DEF OneVersion
  <2>. HIDE DEF tbl
  <2>6. Y!Loaded(phy_cond'.rfe) = tbl
    BY <2>1, <2>2 DEF tbl
  <2>. QED BY <2>1, <2>5, <2>6, OneVersionNext
<1> QED
  <2>1. UNCHANGED phyVars \/ bb' = "reset" \/ \E ok \in BOOLEAN : Y!phy_set_param(ok)
    BY DEF Next, Begin, PreCfg, Power, phy_set_param, Tune, ChipUp, ChipLost, PowerDone, trx_init, Firmware,
       mac_init, Efuse, fw_handshake, coex_wifi_antenna, ScanDone, Associate, trx_free, ChipWorks, Finished,
       vars, Y!PhyReset
  <2> QED BY <2>1, <1>1, <1>2, <1>3

(* Whenever the base band has its tables, each block of each of them was   *)
(* applied once, by the first branch whose condition holds of this chip    *)
(* (phy.c: rtw_parse_tbl_phy_cond): the flags never leak into the next     *)
(* block, for any efuse and so for any RFE type.                           *)
THEOREM TablesAreOneVersion == Spec => []TablesOneVersion
<1>1. Init => TablesOneVersion
  BY DEF Init, Y!PhyInit, TablesOneVersion, Y!TablesOneVersion
<1> QED BY <1>1, TablesStep, PTL DEF Spec

-----------------------------------------------------------------------------
(* The efuse.  The decoder of efuse.c is a loop in a loop; its state is    *)
(* related to the reference by the set of headers it has visited, a chain  *)
(* from 0 on, and by the words these have placed.                          *)

(* The types of the decoder, word i of the run at p, the words of that run *)
(* up to the n-th, and those of the runs at S.                             *)
MapSet == [0 .. PhySize - 1 -> 0 .. 255]
EfState == [phy : Nat, log : [0 .. LogSize - 1 -> 0 .. 255], err : {0, 1}]
WordSet == [from : Nat, to : Nat]
WordAt(m, p, i) == [from |-> E!DataAt(m, p, i), to |-> E!Target(m, p, i)]
FirstWords(m, p, n) == {j \in E!Words(m, p) : j < n}
WordsOf(m, p, n) == {WordAt(m, p, i) : i \in FirstWords(m, p, n)}
PlacedBy(m, S) == UNION {{WordAt(m, p, i) : i \in E!Words(m, p)} : p \in S}

(* The word passes the guard of the decoder.                               *)
Accepted(w) == w.from < E!Limit /\ w.to < LogSize

(* The size of the part of the map that is decoded.                        *)
LEMMA LimitIs ==
  PhySize \in Nat /\ LogSize \in Nat /\ E!Limit \in Nat /\ E!Limit < PhySize
  BY EfuseConstants DEF E!Limit

(* The header at p, typed.                                                 *)
LEMMA HeaderTyped ==
  ASSUME NEW m \in MapSet, NEW p \in 0 .. E!Limit - 1
  PROVE  E!HdrLen(m[p]) \in {1, 2} /\ E!blk_idx(m[p], m[p + 1]) \in Nat
  <1>1. m[p] \in 0 .. 255 /\ m[p + 1] \in 0 .. 255
    <2>1. p \in 0 .. PhySize - 1 /\ p + 1 \in 0 .. PhySize - 1
      BY LimitIs
    <2>. QED BY <2>1 DEF MapSet
  <1>2. E!HdrLen(m[p]) \in {1, 2}
    BY DEF E!HdrLen
  <1>. DEFINE h == m[p]
              g == m[p + 1]
  <1>3. E!blk_idx(h, g) \in Nat
    <2>1. h \div 16 \in Nat /\ h \div 32 \in Nat /\ g \div 16 \in Nat
      BY <1>1
    <2>2. (g \div 16) * 8 + (h \div 32) \in Nat
      BY <2>1
    <2>. QED BY <2>1, <2>2 DEF E!blk_idx
  <1>. QED BY <1>2, <1>3

(* The place of word i of its block.                                       *)
LEMMA TargetIs ==
  ASSUME NEW m \in MapSet, NEW p \in 0 .. E!Limit - 1, NEW i \in 0 .. 3
  PROVE  /\ E!Target(m, p, i) \in Nat /\ E!Target(m, p, i) % 2 = 0
         /\ E!block_idx_to_logical_idx(E!blk_idx(m[p], m[p + 1]), i) = E!Target(m, p, i)
  <1>. DEFINE b == E!blk_idx(m[p], m[p + 1])
  <1>4. E!Target(m, p, i) = 8 * b + 2 * i /\ E!block_idx_to_logical_idx(b, i) = b * 8 + i * 2
    BY DEF E!Target, E!block_idx_to_logical_idx
  <1>5. b \in Nat
    BY HeaderTyped, Zenon
  <1>. HIDE DEF b
  <1>6. 8 * b + 2 * i \in Nat /\ (8 * b + 2 * i) % 2 = 0 /\ b * 8 + i * 2 = 8 * b + 2 * i
    BY <1>5
  <1>. QED BY <1>4, <1>6 DEF b

(* Cardinality is that of FiniteSets.                                      *)
LEMMA CardIs ==
  ASSUME NEW S PROVE E!Cardinality(S) = Cardinality(S)
  BY DEF E!Cardinality, Cardinality

(* The words of a run lie one after the other.                             *)
LEMMA DataFollows ==
  ASSUME NEW m \in MapSet, NEW p \in 0 .. E!Limit - 1
  PROVE  /\ E!DataAt(m, p, 0) = p + E!HdrLen(m[p])
         /\ \A i \in 0 .. 4 : E!DataAt(m, p, i) \in Nat
         /\ \A i \in 0 .. 3 : i \in E!Words(m, p) => E!DataAt(m, p, i + 1) = E!DataAt(m, p, i) + 2
         /\ \A i \in 0 .. 3 : i \notin E!Words(m, p) => E!DataAt(m, p, i + 1) = E!DataAt(m, p, i)
         /\ E!DataAt(m, p, 4) = E!RunEnd(m, p)
  <1>. DEFINE S(i) == {j \in E!Words(m, p) : j < i}
              c(i) == Cardinality(S(i))
              a == p + E!HdrLen(m[p])
  <1>1. a \in Nat
    <2>1. E!HdrLen(m[p]) \in {1, 2}
      BY DEF E!HdrLen
    <2>. QED BY <2>1
  <1>2. \A i : E!DataAt(m, p, i) = a + 2 * c(i)
    BY CardIs DEF E!DataAt
  <1>3. E!RunEnd(m, p) = a + 2 * Cardinality(E!Words(m, p))
    BY CardIs DEF E!RunEnd
  <1>4. E!Words(m, p) \subseteq 0 .. 3
    BY DEF E!Words
  <1>5. \A i : IsFiniteSet(S(i))
    <2>1. IsFiniteSet(0 .. 3)
      <3>1. 0 \in Int /\ 3 \in Int
        OBVIOUS
      <3>. QED BY <3>1, FS_Interval, Zenon
    <2>2. \A i : S(i) \subseteq 0 .. 3
      BY <1>4
    <2>. QED BY <2>1, <2>2, FS_Subset
  <1>6. \A i : c(i) \in Nat
    BY <1>5, FS_CardinalityType
  <1>7. c(0) = 0
    <2>1. S(0) = {}
      BY <1>4
    <2>. QED BY <2>1, FS_EmptySet
  <1>8. ASSUME NEW i \in 0 .. 3, i \in E!Words(m, p) PROVE c(i + 1) = c(i) + 1
    <2>1. S(i + 1) = S(i) \cup {i} /\ i \notin S(i)
      BY <1>4, <1>8
    <2>2. IsFiniteSet(S(i))
      BY <1>5
    <2>. HIDE DEF S
    <2>3. Cardinality(S(i) \cup {i}) = Cardinality(S(i)) + 1
      BY <2>1, <2>2, FS_AddElement, Zenon
    <2>. QED BY <2>1, <2>3, Zenon
  <1>9. ASSUME NEW i \in 0 .. 3, i \notin E!Words(m, p) PROVE c(i + 1) = c(i)
    <2>1. S(i + 1) = S(i)
      BY <1>4, <1>9
    <2>. QED BY <2>1
  <1>10. c(4) = Cardinality(E!Words(m, p))
    <2>1. S(4) = E!Words(m, p)
      BY <1>4
    <2>. QED BY <2>1
  <1>. HIDE DEF c, a
  <1>11. E!DataAt(m, p, 0) = a /\ \A i \in 0 .. 4 : E!DataAt(m, p, i) \in Nat
    BY <1>1, <1>2, <1>6, <1>7
  <1>12. \A i \in 0 .. 3 : i \in E!Words(m, p) => E!DataAt(m, p, i + 1) = E!DataAt(m, p, i) + 2
    <2>. SUFFICES ASSUME NEW i \in 0 .. 3, i \in E!Words(m, p)
                  PROVE  E!DataAt(m, p, i + 1) = E!DataAt(m, p, i) + 2
      OBVIOUS
    <2>1. c(i) \in Nat /\ c(i + 1) = c(i) + 1
      BY <1>6, <1>8
    <2>2. E!DataAt(m, p, i + 1) = a + 2 * c(i + 1) /\ E!DataAt(m, p, i) = a + 2 * c(i)
      BY <1>2
    <2>. QED BY <1>1, <2>1, <2>2
  <1>13. \A i \in 0 .. 3 : i \notin E!Words(m, p) => E!DataAt(m, p, i + 1) = E!DataAt(m, p, i)
    BY <1>2, <1>9
  <1>14. E!DataAt(m, p, 4) = E!RunEnd(m, p)
    BY <1>2, <1>3, <1>10
  <1>. QED BY <1>11, <1>12, <1>13, <1>14 DEF a

(* The logical map, given the words ws placed so far: every byte has the    *)
(* value of the last word placed there, or is erased.                      *)
LogIs(log, m, ws) ==
  \A k \in 0 .. LogSize - 1 :
    \/ log[k] = 255 /\ \A w \in ws : w.to # k - (k % 2)
    \/ \E w \in ws : /\ w.to = k - (k % 2) /\ log[k] = m[w.from + (k % 2)]
                    /\ \A v \in ws : v.to = w.to => v.from <= w.from

(* The two bytes of a word.                                                *)
LEMMA PairOf ==
  ASSUME NEW k \in Nat, NEW t \in Nat, t % 2 = 0, k = t \/ k = t + 1
  PROVE  t = k - (k % 2)
  <1>1. CASE k = t
    BY <1>1
  <1>2. CASE k = t + 1
    <2>1. (t + 1) % 2 = 1
      OBVIOUS
    <2>. QED BY <1>2, <2>1
  <1>. QED BY <1>1, <1>2

(* One word more, behind all the others.                                   *)
LEMMA WordWritten ==
  ASSUME NEW m, NEW ws \in SUBSET WordSet, NEW log \in [0 .. LogSize - 1 -> 0 .. 255], LogIs(log, m, ws),
         NEW w \in WordSet, w.to % 2 = 0, \A v \in ws : v.from <= w.from,
         NEW new, new = [log EXCEPT ![w.to] = m[w.from], ![w.to + 1] = m[w.from + 1]]
  PROVE  LogIs(new, m, ws \cup {w})
  <1>. DEFINE Q == ws \cup {w}
  <1>0. w.to \in Nat /\ w.from \in Nat /\ LogSize \in Nat /\ \A v \in ws : v.from \in Nat /\ v.to \in Nat
    BY LimitIs DEF WordSet
  <1>1. SUFFICES ASSUME NEW k \in 0 .. LogSize - 1
        PROVE \/ new[k] = 255 /\ \A u \in Q : u.to # k - (k % 2)
              \/ \E u \in Q : /\ u.to = k - (k % 2) /\ new[k] = m[u.from + (k % 2)]
                              /\ \A v \in Q : v.to = u.to => v.from <= u.from
    BY DEF LogIs
  <1>2. CASE w.to = k - (k % 2)
    <2>1. (k = w.to /\ k % 2 = 0) \/ (k = w.to + 1 /\ k % 2 = 1)
      BY <1>0, <1>2
    <2>2. new[k] = m[w.from + (k % 2)]
      <3>1. CASE k = w.to /\ k % 2 = 0
        <4>1. new[k] = m[w.from] /\ w.from + (k % 2) = w.from
          BY <1>0, <3>1
        <4>. QED BY <4>1
      <3>2. CASE k = w.to + 1 /\ k % 2 = 1
        <4>1. new[k] = m[w.from + 1]
          BY <1>0, <3>2
        <4>. QED BY <3>2, <4>1
      <3>. QED BY <2>1, <3>1, <3>2
    <2>3. \A v \in Q : v.to = w.to => v.from <= w.from
      BY <1>0
    <2>. QED BY <1>2, <2>2, <2>3
  <1>3. CASE w.to # k - (k % 2)
    <2>1. k # w.to /\ k # w.to + 1
      <3>1. k \in Nat /\ w.to \in Nat
        BY <1>0
      <3>. QED BY <1>3, <3>1, PairOf, Zenon
    <2>2. new[k] = log[k]
      BY <2>1
    <2>3. CASE log[k] = 255 /\ \A u \in ws : u.to # k - (k % 2)
      BY <1>3, <2>2, <2>3
    <2>4. CASE \E u \in ws : /\ u.to = k - (k % 2) /\ log[k] = m[u.from + (k % 2)]
                            /\ \A v \in ws : v.to = u.to => v.from <= u.from
      <3>1. PICK u \in ws : /\ u.to = k - (k % 2) /\ log[k] = m[u.from + (k % 2)]
                           /\ \A v \in ws : v.to = u.to => v.from <= u.from
        BY <2>4
      <3>2. \A v \in Q : v.to = u.to => v.from <= u.from
        BY <1>3, <3>1
      <3>. QED BY <2>2, <3>1, <3>2
    <2>. QED BY <2>3, <2>4 DEF LogIs
  <1>. QED BY <1>2, <1>3

(* Replacing two fields of the decoder's record.                           *)
LEMMA StateExcept ==
  ASSUME NEW S, NEW R, R = [phy : Nat, log : S, err : {0, 1}],
         NEW st \in R, NEW l \in S, NEW q \in Nat, NEW x, x = [st EXCEPT !.log = l, !.phy = q]
  PROVE  /\ x \in R
         /\ x.err = st.err /\ x.phy = q /\ x.log = l
  OBVIOUS

(* One word of a run.                                                      *)
LEMMA WordKinds ==
  ASSUME NEW m \in MapSet, NEW st \in EfState, NEW blk, NEW en, NEW i,
         NEW li \in Nat, li = E!block_idx_to_logical_idx(blk, i), NEW x, x = E!Word(m, st, blk, en, i)
  PROVE  /\ x \in EfState
         /\ st.err = 1 \/ ~E!Present(en, i) => x = st
         /\ st.err = 0 /\ E!Present(en, i) /\ ~(st.phy < E!Limit /\ li < LogSize) => x.err = 1
         /\ st.err = 0 /\ E!Present(en, i) /\ st.phy < E!Limit /\ li < LogSize =>
              /\ x.err = 0 /\ x.phy = st.phy + 2
              /\ x.log = [st.log EXCEPT ![li] = m[st.phy], ![li + 1] = m[st.phy + 1]]
  <1>0. /\ st.phy \in Nat /\ st.log \in [0 .. LogSize - 1 -> 0 .. 255] /\ st.err \in {0, 1}
        /\ LogSize \in Nat /\ E!Limit \in Nat
    BY LimitIs DEF EfState
  <1>1. CASE st.err = 1 \/ ~E!Present(en, i)
    BY <1>0, <1>1 DEF E!Word
  <1>2. CASE st.err = 0 /\ E!Present(en, i) /\ ~(st.phy < E!Limit /\ li < LogSize)
    <2>1. st.phy + 1 > E!Limit \/ li + 1 > LogSize
      BY <1>0, <1>2
    <2>2. x = [st EXCEPT !.err = 1]
      BY <1>2, <2>1 DEF E!Word
    <2>3. x = [phy |-> st.phy, log |-> st.log, err |-> 1]
      BY <2>2 DEF EfState
    <2>4. x \in EfState /\ x.err = 1
      BY <1>0, <2>3 DEF EfState
    <2>. QED BY <1>2, <2>4
  <1>3. CASE st.err = 0 /\ E!Present(en, i) /\ st.phy < E!Limit /\ li < LogSize
    <2>. DEFINE l == [st.log EXCEPT ![li] = m[st.phy], ![li + 1] = m[st.phy + 1]]
    <2>1. ~(st.phy + 1 > E!Limit \/ li + 1 > LogSize)
      BY <1>0, <1>3
    <2>2. x = [st EXCEPT !.log = l, !.phy = st.phy + 2]
      BY <1>3, <2>1 DEF E!Word
    <2>3. m[st.phy] \in 0 .. 255 /\ m[st.phy + 1] \in 0 .. 255
      <3>1. st.phy \in 0 .. PhySize - 1 /\ st.phy + 1 \in 0 .. PhySize - 1
        BY <1>0, <1>3, LimitIs
      <3>. QED BY <3>1 DEF MapSet
    <2>4. l \in [0 .. LogSize - 1 -> 0 .. 255]
      BY <1>0, <2>3
    <2>. DEFINE q == st.phy + 2
    <2>6. q \in Nat
      BY <1>0
    <2>. HIDE DEF l, q
    <2>7. x = [st EXCEPT !.log = l, !.phy = q]
      BY <2>2, Zenon DEF q
    <2>. DEFINE S == [0 .. LogSize - 1 -> 0 .. 255]
    <2>8. EfState = [phy : Nat, log : S, err : {0, 1}] /\ l \in S
      BY <2>4 DEF EfState
    <2>. HIDE DEF S
    <2>5. x \in EfState /\ x.err = st.err /\ x.phy = q /\ x.log = l
      BY <2>6, <2>7, <2>8, StateExcept
    <2>. QED BY <1>3, <2>5 DEF l, q
  <1>. QED BY <1>0, <1>1, <1>2, <1>3

(* A word that does not fit.                                               *)
LEMMA WordTooFar ==
  ASSUME NEW m \in MapSet, NEW st \in EfState, NEW blk, NEW en, NEW i, st.err = 0, E!Present(en, i),
         NEW li \in Nat, li = E!block_idx_to_logical_idx(blk, i), ~(st.phy < E!Limit /\ li < LogSize)
  PROVE  E!Word(m, st, blk, en, i).err = 1
  <1>1. st.phy \in Nat /\ LogSize \in Nat /\ E!Limit \in Nat
    BY LimitIs DEF EfState
  <1>2. st.phy + 1 > E!Limit \/ li + 1 > LogSize
    BY <1>1
  <1>3. E!Word(m, st, blk, en, i) = [st EXCEPT !.err = 1]
    BY <1>2 DEF E!Word
  <1>. QED BY <1>3 DEF EfState

(* x is st with a word placed at li.                                       *)
Places(x, m, st, li) ==
  /\ x.err = 0 /\ x.phy = st.phy + 2
  /\ x.log = [st.log EXCEPT ![li] = m[st.phy], ![li + 1] = m[st.phy + 1]]

(* A word that fits.                                                       *)
LEMMA WordPlaced ==
  ASSUME NEW m \in MapSet, NEW st \in EfState, NEW blk, NEW en, NEW i, st.err = 0, E!Present(en, i),
         NEW li \in Nat, li = E!block_idx_to_logical_idx(blk, i), st.phy < E!Limit /\ li < LogSize
  PROVE  Places(E!Word(m, st, blk, en, i), m, st, li)
  BY WordKinds DEF Places

(* The states after each of the four words of a run.                       *)
RunRuns(r, m, a, blk, en) ==
  r = [i \in 0 .. 4 |-> IF i = 0 THEN a ELSE E!Word(m, r[i - 1], blk, en, i - 1)]
RunStepped(R, m, a, blk, en) ==
  /\ R \in [0 .. 4 -> EfState] /\ R[0] = a
  /\ \A i \in 1 .. 4 : R[i] = E!Word(m, R[i - 1], blk, en, i - 1)

(* A word keeps the state in its type.                                     *)
LEMMA WordTyped ==
  ASSUME NEW m \in MapSet, NEW st \in EfState, NEW blk \in Nat, NEW en, NEW i \in 1 .. 4
  PROVE  E!Word(m, st, blk, en, i - 1) \in EfState
  <1>1. E!block_idx_to_logical_idx(blk, i - 1) \in Nat
    <2>1. blk * 8 + (i - 1) * 2 \in Nat
      OBVIOUS
    <2>. QED BY <2>1 DEF E!block_idx_to_logical_idx
  <1>. QED BY <1>1, WordKinds, Zenon

(* There are such states.                                                  *)
LEMMA RunRun ==
  ASSUME NEW m \in MapSet, NEW a \in EfState, NEW blk \in Nat, NEW en
  PROVE  \E r : RunRuns(r, m, a, blk, en)
  <1>. DEFINE G(s, i) == E!Word(m, s, blk, en, i - 1)
              Fn == [i \in 1 .. 4 |-> [s \in EfState |-> G(s, i)]]
  <1>1. ASSUME NEW i \in 1 .. 4, NEW s \in EfState PROVE G(s, i) \in EfState
    BY WordTyped, Zenon
  <1>2. SUFFICES \E r : r = [i \in 0 .. 4 |-> IF i = 0 THEN a ELSE G(r[i - 1], i)]
    BY Zenon DEF RunRuns
  <1>. HIDE DEF G
  <1>3. Fn \in [1 .. 4 -> [EfState -> EfState]] /\ 4 \in Nat
    BY <1>1
  <1>4. PICK q : Iterates(q, 4, EfState, a, Fn)
    BY <1>3, IterationExists, Zenon
  <1>5. /\ q \in [0 .. 4 -> EfState] /\ q[0] = a
        /\ \A i \in 1 .. 4 : q[i] = Fn[i][q[i - 1]]
    BY <1>4, Zenon DEF Iterates
  <1>6. \A i \in 1 .. 4 : q[i] = G(q[i - 1], i)
    <2>. TAKE i \in 1 .. 4
    <2>1. i - 1 \in 0 .. 4
      OBVIOUS
    <2>2. q[i - 1] \in EfState
      BY <1>5, <2>1
    <2>. QED BY <1>5, <2>2
  <1>7. q = [i \in 0 .. 4 |-> IF i = 0 THEN a ELSE G(q[i - 1], i)]
    <2>. DEFINE p == [i \in 0 .. 4 |-> IF i = 0 THEN a ELSE G(q[i - 1], i)]
    <2>1. ASSUME NEW i \in 0 .. 4 PROVE q[i] = p[i]
      <3>1. CASE i = 0
        BY <1>5, <3>1
      <3>2. CASE i # 0
        <4>1. i \in 1 .. 4
          BY <3>2
        <4>. QED BY <1>6, <3>2, <4>1
      <3>. QED BY <3>1, <3>2
    <2>2. DOMAIN p = 0 .. 4 /\ DOMAIN q = 0 .. 4
      BY <1>5
    <2>3. p = [i \in DOMAIN p |-> p[i]] /\ q = [i \in DOMAIN q |-> q[i]]
      BY <1>5
    <2>. HIDE DEF p
    <2>4. q = p
      BY <2>1, <2>2, <2>3
    <2>. QED BY <2>4 DEF p
  <1>. QED BY <1>7, Zenon

(* Each comes from the one before by Word.                                 *)
LEMMA RunParsed ==
  ASSUME NEW m \in MapSet, NEW a \in EfState, NEW blk \in Nat, NEW en, NEW R, RunRuns(R, m, a, blk, en)
  PROVE  RunStepped(R, m, a, blk, en)
  <1>. DEFINE G(s, i) == E!Word(m, s, blk, en, i - 1)
  <1>1. ASSUME NEW i \in 1 .. 4, NEW s \in EfState PROVE G(s, i) \in EfState
    BY WordTyped, Zenon
  <1>8. R = [i \in 0 .. 4 |-> IF i = 0 THEN a ELSE G(R[i - 1], i)]
    BY Zenon DEF RunRuns
  <1>. HIDE DEF G
  <1>9. 0 \in 0 .. 4 /\ 4 \in Nat /\ \A i \in 1 .. 4 : i \in 0 .. 4 /\ i # 0
    OBVIOUS
  <1>10. R[0] = a /\ \A i \in 1 .. 4 : R[i] = G(R[i - 1], i)
    BY <1>8, <1>9
  <1>11. R \in [0 .. 4 -> EfState]
    <2>. DEFINE B == {i \in 0 .. 4 : R[i] \in EfState}
    <2>1. 0 \in B
      BY <1>9, <1>10
    <2>2. ASSUME NEW i \in 1 .. 4, i - 1 \in B PROVE i \in B
      BY <1>1, <1>9, <1>10, <2>2
    <2>3. B = 0 .. 4
      BY <1>9, <2>1, <2>2, UpTo, Zenon
    <2>4. \A i \in 0 .. 4 : R[i] \in EfState
      BY <2>3
    <2>5. DOMAIN R = 0 .. 4 /\ R = [i \in 0 .. 4 |-> R[i]]
      BY <1>8
    <2>. QED BY <2>4, <2>5
  <1>. QED BY <1>10, <1>11 DEF G, RunStepped

(* What a run does after its first n words, from the words ws on: it has   *)
(* met a word that does not fit, or it has placed them.                    *)
RunBad(m, p) == \E i \in E!Words(m, p) : ~Accepted(WordAt(m, p, i))
RunOk(x, m, p, ws, n) ==
  /\ x.err = 0 /\ x.phy = E!DataAt(m, p, n)
  /\ \A i \in FirstWords(m, p, n) : Accepted(WordAt(m, p, i))
  /\ LogIs(x.log, m, ws \cup WordsOf(m, p, n))
  /\ \A v \in ws \cup WordsOf(m, p, n) : v.from <= x.phy
RunTo(x, m, p, ws, n) == (x.err = 1 /\ RunBad(m, p)) \/ RunOk(x, m, p, ws, n)

(* A word that is there.                                                   *)
LEMMA WordThere ==
  ASSUME NEW m \in MapSet, NEW p \in 0 .. E!Limit - 1, NEW ws \in SUBSET WordSet, NEW i \in 0 .. 3,
         i \in E!Words(m, p), NEW st \in EfState, RunOk(st, m, p, ws, i),
         NEW x, x = E!Word(m, st, E!blk_idx(m[p], m[p + 1]), E!word_en(m[p], m[p + 1]), i)
  PROVE  RunTo(x, m, p, ws, i + 1)
  <1>. DEFINE li == E!Target(m, p, i)
              en == E!word_en(m[p], m[p + 1])
              blk == E!blk_idx(m[p], m[p + 1])
              f == E!DataAt(m, p, i)
              w == WordAt(m, p, i)
              Q == ws \cup WordsOf(m, p, i)
  <1>0. /\ st.err = 0 /\ st.phy = f /\ \A j \in FirstWords(m, p, i) : Accepted(WordAt(m, p, j))
        /\ LogIs(st.log, m, Q) /\ \A v \in Q : v.from <= st.phy
    BY DEF RunOk
  <1>1. E!Present(en, i)
    BY DEF E!Words
  <1>2. li \in Nat /\ li % 2 = 0 /\ li = E!block_idx_to_logical_idx(blk, i)
    BY TargetIs, Zenon
  <1>3. f \in Nat /\ E!DataAt(m, p, i + 1) = f + 2
    <2>1. i \in 0 .. 4
      OBVIOUS
    <2>. QED BY <2>1, DataFollows, Zenon
  <1>4. w \in WordSet /\ w.from = f /\ w.to = li
    BY <1>2, <1>3 DEF WordAt, WordSet
  <1>5. Accepted(w) <=> st.phy < E!Limit /\ li < LogSize
    BY <1>0, <1>4 DEF Accepted
  <1>6. CASE ~Accepted(w)
    <2>1. x.err = 1
      <3>1. x = E!Word(m, st, blk, en, i)
        OBVIOUS
      <3>2. ~(st.phy < E!Limit /\ li < LogSize)
        BY <1>5, <1>6
      <3>3. st.err = 0
        BY <1>0, Zenon
      <3>. HIDE DEF li, en, blk
      <3>4. E!Word(m, st, blk, en, i).err = 1
        BY <1>1, <1>2, <3>2, <3>3, WordTooFar, Zenon
      <3>. QED BY <3>1, <3>4, Zenon
    <2>. QED BY <1>6, <2>1 DEF RunTo, RunBad
  <1>7. CASE Accepted(w)
    <2>1. /\ x.err = 0 /\ x.phy = st.phy + 2
          /\ x.log = [st.log EXCEPT ![li] = m[st.phy], ![li + 1] = m[st.phy + 1]]
      <3>1. x = E!Word(m, st, blk, en, i)
        OBVIOUS
      <3>2. st.phy < E!Limit /\ li < LogSize
        BY <1>5, <1>7
      <3>3. st.err = 0
        BY <1>0, Zenon
      <3>. HIDE DEF li, en, blk
      <3>4. Places(E!Word(m, st, blk, en, i), m, st, li)
        BY <1>1, <1>2, <3>2, <3>3, WordPlaced, Zenon
      <3>. QED BY <3>1, <3>4, Zenon DEF Places
    <2>2. FirstWords(m, p, i + 1) = FirstWords(m, p, i) \cup {i}
      BY DEF FirstWords, E!Words
    <2>3. ws \cup WordsOf(m, p, i + 1) = Q \cup {w}
      BY <2>2 DEF WordsOf
    <2>4. Q \in SUBSET WordSet
      <3>1. ASSUME NEW j \in 0 .. 3 PROVE WordAt(m, p, j) \in WordSet
        <4>1. E!Target(m, p, j) \in Nat
          BY TargetIs, Zenon
        <4>2. j \in 0 .. 4
          OBVIOUS
        <4>3. E!DataAt(m, p, j) \in Nat
          BY <4>2, DataFollows, Zenon
        <4>. QED BY <4>1, <4>3 DEF WordAt, WordSet
      <3>2. FirstWords(m, p, i) \subseteq 0 .. 3
        BY DEF FirstWords, E!Words
      <3>. QED BY <3>1, <3>2 DEF WordsOf
    <2>5. st.log \in [0 .. LogSize - 1 -> 0 .. 255]
      BY DEF EfState
    <2>. HIDE DEF li, f, w, Q
    <2>6. LogIs(x.log, m, Q \cup {w})
      <3>1. x.log = [st.log EXCEPT ![w.to] = m[w.from], ![w.to + 1] = m[w.from + 1]]
        BY <1>0, <1>4, <2>1
      <3>2. w.to % 2 = 0 /\ \A v \in Q : v.from <= w.from
        BY <1>0, <1>2, <1>4
      <3>. DEFINE l0 == st.log
                  l1 == x.log
      <3>3. /\ l0 \in [0 .. LogSize - 1 -> 0 .. 255] /\ LogIs(l0, m, Q) /\ w \in WordSet
            /\ l1 = [l0 EXCEPT ![w.to] = m[w.from], ![w.to + 1] = m[w.from + 1]]
        BY <1>0, <1>4, <2>5, <3>1, Zenon
      <3>. HIDE DEF l0, l1
      <3>4. LogIs(l1, m, Q \cup {w})
        BY <2>4, <3>2, <3>3, WordWritten, Zenon
      <3>. QED BY <3>4 DEF l1
    <2>7. \A v \in Q \cup {w} : v.from <= x.phy
      <3>1. \A v \in Q : v.from \in Nat
        BY <2>4 DEF WordSet
      <3>. QED BY <1>0, <1>3, <1>4, <2>1, <3>1
    <2>8. \A j \in FirstWords(m, p, i + 1) : Accepted(WordAt(m, p, j))
      BY <1>0, <1>7, <2>2 DEF w
    <2>9. x.phy = E!DataAt(m, p, i + 1)
      BY <1>0, <1>3, <2>1
    <2>. QED BY <2>1, <2>3, <2>6, <2>7, <2>8, <2>9, Zenon DEF RunTo, RunOk
  <1>. QED BY <1>6, <1>7

(* A word that is absent.                                                  *)
LEMMA WordAbsent ==
  ASSUME NEW m \in MapSet, NEW p \in 0 .. E!Limit - 1, NEW ws, NEW i \in 0 .. 3,
         i \notin E!Words(m, p), NEW st, RunOk(st, m, p, ws, i)
  PROVE  RunOk(st, m, p, ws, i + 1)
  <1>1. FirstWords(m, p, i + 1) = FirstWords(m, p, i)
    BY DEF FirstWords, E!Words
  <1>2. E!DataAt(m, p, i + 1) = E!DataAt(m, p, i)
    BY DataFollows, Zenon
  <1>. QED BY <1>1, <1>2, Zenon DEF RunOk, WordsOf

(* A whole run.                                                            *)
LEMMA RunDone ==
  ASSUME NEW m \in MapSet, NEW st \in EfState, NEW p \in 0 .. E!Limit - 1, st.phy = p, st.err = 0,
         NEW ws \in SUBSET WordSet, LogIs(st.log, m, ws), \A v \in ws : v.from <= p,
         NEW x, x = E!Run(m, st)
  PROVE  x \in EfState /\ RunTo(x, m, p, ws, 4)
  <1>. DEFINE blk == E!blk_idx(m[p], m[p + 1])
              en == E!word_en(m[p], m[p + 1])
              a == [st EXCEPT !.phy = @ + E!HdrLen(m[p])]
              R == CHOOSE r : r = [i \in 0 .. 4 |-> IF i = 0 THEN a ELSE E!Word(m, r[i - 1], blk, en, i - 1)]
  <1>1. x = R[4]
    BY DEF E!Run
  <1>2. blk \in Nat /\ E!HdrLen(m[p]) \in {1, 2}
    BY HeaderTyped, Zenon
  <1>3. a \in EfState /\ a.phy = p + E!HdrLen(m[p]) /\ a.log = st.log /\ a.err = 0
    <2>. DEFINE q == p + E!HdrLen(m[p])
    <2>1. q \in Nat
      BY <1>2
    <2>2. a = [st EXCEPT !.phy = q]
      OBVIOUS
    <2>. HIDE DEF q, a
    <2>3. a = [phy |-> q, log |-> st.log, err |-> 0] /\ st.log \in [0 .. LogSize - 1 -> 0 .. 255]
      BY <2>2 DEF EfState
    <2>4. a \in EfState /\ a.phy = q /\ a.log = st.log /\ a.err = 0
      BY <2>1, <2>3 DEF EfState
    <2>. QED BY <2>4 DEF q
  <1>. HIDE DEF a, blk, en
  <1>4. RunStepped(R, m, a, blk, en)
    <2>1. RunRuns(R, m, a, blk, en)
      <3>1. \E r : RunRuns(r, m, a, blk, en)
        BY <1>2, <1>3, RunRun, Zenon
      <3>2. \E r : r = [i \in 0 .. 4 |-> IF i = 0 THEN a ELSE E!Word(m, r[i - 1], blk, en, i - 1)]
        BY <3>1, Zenon DEF RunRuns
      <3>. QED BY <3>2, Zenon DEF RunRuns
    <2>. HIDE DEF R
    <2>. QED BY <1>2, <1>3, <2>1, RunParsed, Zenon
  <1>. HIDE DEF R
  <1>5. /\ R \in [0 .. 4 -> EfState] /\ R[0] = a
        /\ \A i \in 1 .. 4 : R[i] = E!Word(m, R[i - 1], blk, en, i - 1)
    BY <1>4, Zenon DEF RunStepped
  <1>6. RunTo(R[0], m, p, ws, 0)
    <2>1. FirstWords(m, p, 0) = {}
      BY DEF FirstWords, E!Words
    <2>2. ws \cup WordsOf(m, p, 0) = ws
      BY <2>1 DEF WordsOf
    <2>3. E!DataAt(m, p, 0) = a.phy
      BY <1>3, DataFollows, Zenon
    <2>4. \A v \in ws : v.from <= a.phy
      BY <1>2, <1>3 DEF WordSet
    <2>5. RunOk(a, m, p, ws, 0)
      BY <1>3, <2>1, <2>2, <2>3, <2>4 DEF RunOk
    <2>. QED BY <1>5, <2>5 DEF RunTo
  <1>. DEFINE B == {i \in 0 .. 4 : RunTo(R[i], m, p, ws, i)}
  <1>7. ASSUME NEW i \in 1 .. 4, i - 1 \in B PROVE i \in B
    <2>. DEFINE j == i - 1
                s == R[j]
                y == R[i]
    <2>1. j \in 0 .. 3 /\ j + 1 = i /\ j \in 0 .. 4 /\ i \in 0 .. 4
      OBVIOUS
    <2>2. s \in EfState /\ y = E!Word(m, s, blk, en, j)
      BY <1>5, <2>1
    <2>3. RunTo(s, m, p, ws, j)
      BY <1>7
    <2>. HIDE DEF s, j
    <2>6. RunTo(y, m, p, ws, j + 1)
      <3>. HIDE DEF y
      <3>1. CASE s.err = 1 /\ RunBad(m, p)
        <4>1. y = s
          BY <2>2, <3>1 DEF E!Word
        <4>. QED BY <3>1, <4>1 DEF RunTo
      <3>2. CASE RunOk(s, m, p, ws, j) /\ j \in E!Words(m, p)
        BY <2>1, <2>2, <3>2, WordThere DEF blk, en
      <3>3. CASE RunOk(s, m, p, ws, j) /\ j \notin E!Words(m, p)
        <4>1. ~E!Present(en, j)
          BY <2>1, <3>3 DEF E!Words, en
        <4>2. y = s
          BY <2>2, <4>1 DEF E!Word
        <4>3. RunOk(s, m, p, ws, j + 1)
          BY <2>1, <3>3, WordAbsent
        <4>. QED BY <4>2, <4>3 DEF RunTo
      <3>. QED BY <2>3, <3>1, <3>2, <3>3 DEF RunTo
    <2>. QED BY <2>1, <2>6
  <1>8. 0 \in B /\ 4 \in Nat
    BY <1>6
  <1>9. B = 0 .. 4
    BY <1>7, <1>8, UpTo, Zenon
  <1>10. 4 \in 0 .. 4
    OBVIOUS
  <1>11. RunTo(R[4], m, p, ws, 4)
    BY <1>9, <1>10, Zenon
  <1>. QED BY <1>1, <1>5, <1>10, <1>11

(* The positions that could be a header.                                   *)
ValidAt(m) == {p \in 0 .. E!Limit - 1 : ~E!invalid_efuse_header(m[p], m[p + 1])}
(* The headers: they hold 0, with a header the end of its run, and lie in  *)
(* every set of valid positions that does.                                 *)
LEMMA HeadersAre ==
  ASSUME NEW m \in MapSet
  PROVE  /\ E!Headers(m) \subseteq ValidAt(m)
         /\ 0 \in ValidAt(m) => 0 \in E!Headers(m)
         /\ \A p \in E!Headers(m) : E!RunEnd(m, p) \in ValidAt(m) => E!RunEnd(m, p) \in E!Headers(m)
         /\ \A S \in SUBSET ValidAt(m) :
              (/\ 0 \in ValidAt(m) => 0 \in S
               /\ \A p \in S : E!RunEnd(m, p) \in ValidAt(m) => E!RunEnd(m, p) \in S)
              => E!Headers(m) \subseteq S
  <1>. DEFINE V == ValidAt(m)
              next == [p \in V |-> E!RunEnd(m, p)]
              Closed(S) == \A q \in {0} \cup {next[p] : p \in S} : q \in V => q \in S
  <1>1. E!Headers(m) = {p \in V : \A S \in SUBSET V : Closed(S) => p \in S}
    BY DEF E!Headers, ValidAt
  <1>2. \A S \in SUBSET V : Closed(S) <=>
            (0 \in V => 0 \in S) /\ \A p \in S : E!RunEnd(m, p) \in V => E!RunEnd(m, p) \in S
    <2>. TAKE S \in SUBSET V
    <2>1. \A p \in S : next[p] = E!RunEnd(m, p)
      OBVIOUS
    <2>. HIDE DEF next, V
    <2>. QED BY <2>1
  <1>. HIDE DEF Closed, V
  <1>. QED BY <1>1, <1>2 DEF V

(* What has been decoded when the engine stands at st: the runs at Vis, a  *)
(* chain of headers from 0 on that ends at st.phy.                         *)
Chain(st, m, Vis) ==
  /\ Vis \subseteq E!Headers(m)
  /\ \A p \in Vis : E!RunEnd(m, p) <= st.phy
  /\ 0 \in ValidAt(m) => 0 \in Vis \cup {st.phy}
  /\ \A p \in Vis : E!RunEnd(m, p) \in ValidAt(m) => E!RunEnd(m, p) \in Vis \cup {st.phy}
  /\ st.phy \in ValidAt(m) => st.phy \in E!Headers(m)
Decoded(st, m, Vis) ==
  /\ \A w \in PlacedBy(m, Vis) : Accepted(w)
  /\ \A w \in PlacedBy(m, Vis) : w.from <= st.phy
  /\ LogIs(st.log, m, PlacedBy(m, Vis))
DecodeInv(st, m) ==
  \/ st.err = 1 /\ \E p \in E!Headers(m) : RunBad(m, p)
  \/ st.err = 0 /\ \E Vis : Chain(st, m, Vis) /\ Decoded(st, m, Vis)
Stopped(st, m) == st.err = 1 \/ st.phy \notin ValidAt(m)

(* The words placed are typed.                                             *)
LEMMA PlacedTyped ==
  ASSUME NEW m \in MapSet, NEW S \in SUBSET ValidAt(m)
  PROVE  PlacedBy(m, S) \in SUBSET WordSet
  <1>1. ASSUME NEW p \in 0 .. E!Limit - 1, NEW j \in 0 .. 3 PROVE WordAt(m, p, j) \in WordSet
    <2>1. E!Target(m, p, j) \in Nat
      BY TargetIs, Zenon
    <2>2. j \in 0 .. 4
      OBVIOUS
    <2>3. E!DataAt(m, p, j) \in Nat
      BY <2>2, DataFollows, Zenon
    <2>. QED BY <2>1, <2>3 DEF WordAt, WordSet
  <1>2. \A p : E!Words(m, p) \subseteq 0 .. 3
    BY DEF E!Words
  <1>3. S \subseteq 0 .. E!Limit - 1
    BY DEF ValidAt
  <1>. QED BY <1>1, <1>2, <1>3 DEF PlacedBy

(* One more run placed.                                                    *)
LEMMA PlacedMore ==
  ASSUME NEW m, NEW S, NEW p
  PROVE  PlacedBy(m, S \cup {p}) = PlacedBy(m, S) \cup WordsOf(m, p, 4)
  <1>1. FirstWords(m, p, 4) = E!Words(m, p)
    BY DEF FirstWords, E!Words
  <1>2. PlacedBy(m, S \cup {p}) = PlacedBy(m, S) \cup {WordAt(m, p, i) : i \in E!Words(m, p)}
    BY DEF PlacedBy
  <1>. QED BY <1>1, <1>2 DEF WordsOf

(* A run that begins at a header goes on to the next.                      *)
LEMMA RunEndAfter ==
  ASSUME NEW m \in MapSet, NEW p \in 0 .. E!Limit - 1
  PROVE  E!RunEnd(m, p) \in Nat /\ E!RunEnd(m, p) > p
  <1>. DEFINE c == Cardinality(E!Words(m, p))
              h == E!HdrLen(m[p])
  <1>1. c \in Nat
    <2>1. 0 \in Int /\ 3 \in Int
      OBVIOUS
    <2>2. IsFiniteSet(0 .. 3)
      BY <2>1, FS_Interval, Zenon
    <2>3. E!Words(m, p) \subseteq 0 .. 3
      BY DEF E!Words
    <2>4. IsFiniteSet(E!Words(m, p))
      BY <2>2, <2>3, FS_Subset, Zenon
    <2>. QED BY <2>4, FS_CardinalityType, Zenon
  <1>2. h \in {1, 2}
    BY HeaderTyped, Zenon
  <1>3. E!RunEnd(m, p) = (p + h) + 2 * c
    BY CardIs DEF E!RunEnd
  <1>. HIDE DEF c, h
  <1>. QED BY <1>1, <1>2, <1>3

(* One round of the loop.                                                  *)
LEMMA RoundDecodes ==
  ASSUME NEW m \in MapSet, NEW st \in EfState, DecodeInv(st, m), NEW x, x = E!NextRun(m, st)
  PROVE  /\ x \in EfState /\ DecodeInv(x, m)
         /\ Stopped(st, m) => x = st
         /\ ~Stopped(st, m) => x.err = 1 \/ x.phy > st.phy
  <1>0. st.phy \in Nat /\ st.err \in {0, 1} /\ E!Limit \in Nat /\ st.log \in [0 .. LogSize - 1 -> 0 .. 255]
    BY LimitIs DEF EfState
  <1>1. CASE Stopped(st, m)
    <2>1. x = st
      BY <1>0, <1>1 DEF Stopped, ValidAt, E!NextRun
    <2>. QED BY <1>1, <2>1
  <1>2. CASE ~Stopped(st, m)
    <2>. DEFINE p == st.phy
    <2>1. st.err = 0 /\ p \in ValidAt(m)
      BY <1>0, <1>2 DEF Stopped
    <2>2. p \in 0 .. E!Limit - 1 /\ x = E!Run(m, st)
      BY <1>0, <2>1 DEF ValidAt, E!NextRun
    <2>3. PICK Vis : Chain(st, m, Vis) /\ Decoded(st, m, Vis)
      BY <2>1 DEF DecodeInv
    <2>. DEFINE ws == PlacedBy(m, Vis)
    <2>4. p \in E!Headers(m) /\ Vis \subseteq E!Headers(m)
      BY <2>1, <2>3 DEF Chain
    <2>5. E!Headers(m) \subseteq ValidAt(m)
      BY HeadersAre, Zenon
    <2>6. ws \in SUBSET WordSet
      <3>1. Vis \in SUBSET ValidAt(m)
        BY <2>4, <2>5
      <3>. QED BY <3>1, PlacedTyped, Zenon
    <2>7. LogIs(st.log, m, ws) /\ \A v \in ws : v.from <= p
      BY <2>3 DEF Decoded
    <2>8. x \in EfState /\ RunTo(x, m, p, ws, 4)
      <3>. HIDE DEF ws
      <3>. QED BY <2>1, <2>2, <2>6, <2>7, RunDone
    <2>9. CASE x.err = 1 /\ RunBad(m, p)
      BY <1>2, <2>4, <2>8, <2>9 DEF DecodeInv
    <2>10. CASE RunOk(x, m, p, ws, 4)
      <3>1. /\ x.err = 0 /\ x.phy = E!RunEnd(m, p) /\ E!RunEnd(m, p) \in Nat /\ E!RunEnd(m, p) > p
        BY <2>2, <2>10, DataFollows, RunEndAfter DEF RunOk
      <3>. DEFINE New == Vis \cup {p}
      <3>2. PlacedBy(m, New) = ws \cup WordsOf(m, p, 4)
        BY PlacedMore, Zenon
      <3>3. Decoded(x, m, New)
        <4>1. \A w \in ws : Accepted(w)
          BY <2>3 DEF Decoded
        <4>2. \A w \in WordsOf(m, p, 4) : Accepted(w)
          BY <2>10 DEF RunOk, WordsOf
        <4>3. LogIs(x.log, m, PlacedBy(m, New)) /\ \A v \in PlacedBy(m, New) : v.from <= x.phy
          BY <2>10, <3>2 DEF RunOk
        <4>. HIDE DEF ws, New
        <4>. QED BY <3>2, <4>1, <4>2, <4>3 DEF Decoded
      <3>4. Chain(x, m, New)
        <4>1. New \subseteq E!Headers(m)
          BY <2>4
        <4>2. \A q \in New : E!RunEnd(m, q) <= x.phy
          <5>1. \A q \in Vis : E!RunEnd(m, q) \in Nat /\ E!RunEnd(m, q) <= p
            <6>1. \A q \in Vis : q \in 0 .. E!Limit - 1
              BY <2>4, <2>5 DEF ValidAt
            <6>2. \A q \in Vis : E!RunEnd(m, q) \in Nat
              BY <6>1, RunEndAfter, Zenon
            <6>. QED BY <2>3, <6>2 DEF Chain
          <5>. QED BY <1>0, <3>1, <5>1
        <4>3. 0 \in ValidAt(m) => 0 \in New \cup {x.phy}
          BY <2>3 DEF Chain
        <4>4. \A q \in New : E!RunEnd(m, q) \in ValidAt(m) => E!RunEnd(m, q) \in New \cup {x.phy}
          BY <2>3, <3>1 DEF Chain
        <4>5. x.phy \in ValidAt(m) => x.phy \in E!Headers(m)
          BY <2>4, <3>1, HeadersAre
        <4>. QED BY <4>1, <4>2, <4>3, <4>4, <4>5 DEF Chain
      <3>. QED BY <1>2, <2>8, <3>1, <3>3, <3>4 DEF DecodeInv
    <2>. QED BY <2>8, <2>9, <2>10 DEF RunTo
  <1>. QED BY <1>1, <1>2

(* The states after each round of the loop.                                *)
DumpRuns(r, m, a) == r = [i \in 0 .. E!Limit |-> IF i = 0 THEN a ELSE E!NextRun(m, r[i - 1])]
DumpStepped(R, m, a) ==
  /\ R \in [0 .. E!Limit -> EfState] /\ R[0] = a
  /\ \A i \in 1 .. E!Limit : R[i] = E!NextRun(m, R[i - 1])
DecodeStates(m) == {s \in EfState : DecodeInv(s, m)}

(* There are such states.                                                  *)
LEMMA DumpRun ==
  ASSUME NEW m \in MapSet, NEW a \in DecodeStates(m)
  PROVE  \E r : DumpRuns(r, m, a)
  <1>. DEFINE L == E!Limit
              S == DecodeStates(m)
              G(s) == E!NextRun(m, s)
              Fn == [i \in 1 .. L |-> [s \in S |-> G(s)]]
  <1>0. L \in Nat
    BY LimitIs, Zenon
  <1>1. ASSUME NEW s \in S PROVE G(s) \in S
    <2>1. s \in EfState /\ DecodeInv(s, m)
      BY DEF DecodeStates
    <2>2. G(s) \in EfState /\ DecodeInv(G(s), m)
      BY <2>1, RoundDecodes, Zenon
    <2>. QED BY <2>2 DEF DecodeStates
  <1>2. SUFFICES \E r : r = [i \in 0 .. L |-> IF i = 0 THEN a ELSE G(r[i - 1])]
    BY Zenon DEF DumpRuns
  <1>. HIDE DEF G, L, S
  <1>3. Fn \in [1 .. L -> [S -> S]]
    BY <1>1
  <1>4. PICK q : Iterates(q, L, S, a, Fn)
    BY <1>0, <1>3, IterationExists, Zenon DEF S
  <1>5. q \in [0 .. L -> S] /\ q[0] = a /\ \A i \in 1 .. L : q[i] = Fn[i][q[i - 1]]
    BY <1>4, Zenon DEF Iterates
  <1>6. \A i \in 1 .. L : q[i] = G(q[i - 1])
    <2>. TAKE i \in 1 .. L
    <2>1. i - 1 \in 0 .. L
      BY <1>0
    <2>2. q[i - 1] \in S
      BY <1>5, <2>1
    <2>. QED BY <1>5, <2>2
  <1>7. q = [i \in 0 .. L |-> IF i = 0 THEN a ELSE G(q[i - 1])]
    <2>. DEFINE p == [i \in 0 .. L |-> IF i = 0 THEN a ELSE G(q[i - 1])]
    <2>1. ASSUME NEW i \in 0 .. L PROVE q[i] = p[i]
      <3>1. CASE i = 0
        BY <1>5, <3>1
      <3>2. CASE i # 0
        <4>1. i \in 1 .. L
          BY <1>0, <3>2
        <4>. QED BY <1>6, <3>2, <4>1
      <3>. QED BY <3>1, <3>2
    <2>2. DOMAIN p = 0 .. L /\ DOMAIN q = 0 .. L
      BY <1>5
    <2>3. p = [i \in DOMAIN p |-> p[i]] /\ q = [i \in DOMAIN q |-> q[i]]
      BY <1>5
    <2>. HIDE DEF p
    <2>4. q = p
      BY <2>1, <2>2, <2>3
    <2>. QED BY <2>4 DEF p
  <1>. QED BY <1>7, Zenon

(* After round n the decoder has stopped, or is n bytes into the map: so   *)
(* it has stopped after Limit rounds.                                      *)
LEMMA DumpEnds ==
  ASSUME NEW m \in MapSet, NEW a \in DecodeStates(m), NEW R, DumpRuns(R, m, a), NEW x, x = R[E!Limit]
  PROVE  x \in EfState /\ DecodeInv(x, m) /\ Stopped(x, m)
  <1>. DEFINE L == E!Limit
              S == DecodeStates(m)
              G(s) == E!NextRun(m, s)
  <1>0. L \in Nat
    BY LimitIs, Zenon
  <1>1. ASSUME NEW s \in S
        PROVE  /\ G(s) \in S /\ (Stopped(s, m) => Stopped(G(s), m))
               /\ ~Stopped(s, m) => Stopped(G(s), m) \/ G(s).phy > s.phy
    <2>1. s \in EfState /\ DecodeInv(s, m)
      BY DEF DecodeStates
    <2>2. /\ G(s) \in EfState /\ DecodeInv(G(s), m)
          /\ Stopped(s, m) => G(s) = s
          /\ ~Stopped(s, m) => G(s).err = 1 \/ G(s).phy > s.phy
      BY <2>1, RoundDecodes, Zenon
    <2>3. G(s) \in S
      BY <2>2 DEF DecodeStates
    <2>4. Stopped(s, m) => Stopped(G(s), m)
      BY <2>2, Zenon
    <2>5. G(s).err = 1 => Stopped(G(s), m)
      BY DEF Stopped
    <2>. QED BY <2>2, <2>3, <2>4, <2>5, Zenon
  <1>2. R = [i \in 0 .. L |-> IF i = 0 THEN a ELSE G(R[i - 1])]
    BY Zenon DEF DumpRuns
  <1>3. \A s \in S : s.phy \in Nat
    BY DEF DecodeStates, EfState
  <1>. HIDE DEF G, L, S
  <1>4. 0 \in 0 .. L /\ \A i \in 1 .. L : i \in 0 .. L /\ i # 0
    BY <1>0
  <1>5. R[0] = a /\ \A i \in 1 .. L : R[i] = G(R[i - 1])
    BY <1>2, <1>4
  <1>. DEFINE B == {i \in 0 .. L : R[i] \in S /\ (Stopped(R[i], m) \/ R[i].phy >= i)}
  <1>6. 0 \in B
    <2>1. a \in S /\ a.phy >= 0
      BY <1>3 DEF S
    <2>. QED BY <1>4, <1>5, <2>1
  <1>7. ASSUME NEW i \in 1 .. L, i - 1 \in B PROVE i \in B
    <2>. DEFINE s == R[i - 1]
    <2>1. s \in S /\ (Stopped(s, m) \/ s.phy >= i - 1)
      BY <1>7
    <2>2. R[i] = G(s) /\ i \in 0 .. L
      BY <1>4, <1>5
    <2>. HIDE DEF s
    <2>3. G(s) \in S /\ (Stopped(G(s), m) \/ (G(s).phy > s.phy /\ s.phy >= i - 1))
      <3>1. /\ G(s) \in S /\ (Stopped(s, m) => Stopped(G(s), m))
            /\ ~Stopped(s, m) => Stopped(G(s), m) \/ G(s).phy > s.phy
        BY <1>1, <2>1, Zenon
      <3>2. CASE Stopped(s, m)
        BY <3>1, <3>2
      <3>3. CASE ~Stopped(s, m)
        BY <2>1, <3>1, <3>3
      <3>. QED BY <3>2, <3>3
    <2>4. Stopped(G(s), m) \/ G(s).phy >= i
      <3>1. G(s).phy \in Nat /\ s.phy \in Nat
        BY <1>3, <2>1, <2>3, Zenon
      <3>. QED BY <2>3, <3>1
    <2>. QED BY <2>2, <2>3, <2>4
  <1>8. B = 0 .. L
    BY <1>0, <1>6, <1>7, UpTo, Zenon
  <1>9. L \in 0 .. L
    BY <1>0
  <1>10. x \in S /\ (Stopped(x, m) \/ x.phy >= L)
    <2>1. R[L] \in S /\ (Stopped(R[L], m) \/ R[L].phy >= L)
      BY <1>8, <1>9, Zenon
    <2>. QED BY <2>1 DEF L
  <1>11. x.phy \in Nat /\ (x.phy >= L => x.phy \notin 0 .. L - 1)
    BY <1>0, <1>3, <1>10
  <1>12. x.phy >= L => Stopped(x, m)
    BY <1>11 DEF Stopped, ValidAt, L
  <1>. QED BY <1>10, <1>12 DEF S, DecodeStates

(* What the reference says of map m, of a logical map and of a result.     *)
LastOf(W) == {w \in W : \A v \in W : v.to = w.to => v.from <= w.from}
Means(m, log, err) ==
  /\ err = 0 <=> \A w \in E!Placed(m) : E!Fits(w) \/ E!Straddles(w)
  /\ err = 0 => log = [k \in 0 .. LogSize - 1 |->
       IF \E w \in LastOf(E!Placed(m)) : w.to = k - (k % 2)
         THEN m[(CHOOSE w \in LastOf(E!Placed(m)) : w.to = k - (k % 2)).from + (k % 2)]
         ELSE E!Erased]

(* A logical map that is right byte by byte is the map of the reference.   *)
LEMMA LogMeans ==
  ASSUME NEW m, NEW W \in SUBSET WordSet, NEW log \in [0 .. LogSize - 1 -> 0 .. 255], LogIs(log, m, W),
         NEW k \in 0 .. LogSize - 1
  PROVE  log[k] = IF \E w \in LastOf(W) : w.to = k - (k % 2)
                    THEN m[(CHOOSE w \in LastOf(W) : w.to = k - (k % 2)).from + (k % 2)]
                    ELSE E!Erased
  <1>0. \A w \in W : w.from \in Nat
    BY DEF WordSet
  <1>1. CASE log[k] = 255 /\ \A w \in W : w.to # k - (k % 2)
    BY <1>1 DEF LastOf, E!Erased
  <1>2. CASE \E w \in W : /\ w.to = k - (k % 2) /\ log[k] = m[w.from + (k % 2)]
                          /\ \A v \in W : v.to = w.to => v.from <= w.from
    <2>1. PICK w \in W : /\ w.to = k - (k % 2) /\ log[k] = m[w.from + (k % 2)]
                         /\ \A v \in W : v.to = w.to => v.from <= w.from
      BY <1>2
    <2>. DEFINE u == CHOOSE v \in LastOf(W) : v.to = k - (k % 2)
    <2>2. w \in LastOf(W) /\ w.to = k - (k % 2)
      BY <2>1 DEF LastOf
    <2>3. u \in LastOf(W) /\ u.to = k - (k % 2)
      BY <2>2
    <2>. HIDE DEF u
    <2>4. u.from <= w.from /\ w.from <= u.from /\ u.from \in Nat /\ w.from \in Nat
      BY <1>0, <2>1, <2>2, <2>3 DEF LastOf
    <2>5. u.from = w.from
      BY <2>4
    <2>. QED BY <2>1, <2>2, <2>5 DEF u
  <1>. QED BY <1>1, <1>2 DEF LogIs

(* The guard lets the words pass that fit and those that straddle: a word  *)
(* goes to an even place of a map of even size.                            *)
LEMMA AcceptedIs ==
  ASSUME NEW m \in MapSet, NEW p \in 0 .. E!Limit - 1, NEW i \in 0 .. 3
  PROVE  LET w == WordAt(m, p, i) IN Accepted(w) <=> E!Fits(w) \/ E!Straddles(w)
  <1>. DEFINE w == WordAt(m, p, i)
              f == E!DataAt(m, p, i)
              li == E!Target(m, p, i)
  <1>1. li \in Nat /\ li % 2 = 0
    BY TargetIs, Zenon
  <1>2. f \in Nat
    <2>1. i \in 0 .. 4
      OBVIOUS
    <2>. QED BY <2>1, DataFollows, Zenon
  <1>3. w.from = f /\ w.to = li
    BY DEF WordAt
  <1>. HIDE DEF f, li, w
  <1>4. LogSize \in Nat /\ LogSize % 2 = 0 /\ E!Limit \in Nat
    BY LimitIs, EfuseConstants
  <1>5. li < LogSize <=> li + 1 < LogSize
    BY <1>1, <1>4
  <1>6. f < E!Limit <=> f + 1 < E!Limit \/ f + 1 = E!Limit
    BY <1>2, <1>4
  <1>7. Accepted(w) <=> E!Fits(w) \/ E!Straddles(w)
    BY <1>3, <1>5, <1>6 DEF Accepted, E!Fits, E!Straddles
  <1>. QED BY <1>7 DEF w

(* So of the words a map places.                                           *)
LEMMA AcceptedAll ==
  ASSUME NEW m \in MapSet
  PROVE  (\A w \in E!Placed(m) : Accepted(w)) <=> \A w \in E!Placed(m) : E!Fits(w) \/ E!Straddles(w)
  <1>1. ASSUME NEW w \in E!Placed(m) PROVE Accepted(w) <=> E!Fits(w) \/ E!Straddles(w)
    <2>1. E!Placed(m) = PlacedBy(m, E!Headers(m)) /\ E!Headers(m) \subseteq 0 .. E!Limit - 1
      BY DEF E!Placed, PlacedBy, WordAt, E!Headers
    <2>2. PICK p \in 0 .. E!Limit - 1 : \E i \in E!Words(m, p) : w = WordAt(m, p, i)
      BY <2>1 DEF PlacedBy
    <2>3. PICK i \in 0 .. 3 : w = WordAt(m, p, i)
      BY <2>2 DEF E!Words
    <2>. QED BY <2>3, AcceptedIs, Zenon
  <1>. QED BY <1>1, Zenon

(* The decoder computes what the reference says.                           *)
LEMMA DumpDecodes ==
  ASSUME NEW m \in MapSet, NEW d, d = E!dump_logical_efuse_map(m)
  PROVE  Means(m, d.log, d.err)
  <1>. DEFINE L == E!Limit
              a == [phy |-> 0, log |-> E!Blank, err |-> 0]
              R == CHOOSE r : r = [i \in 0 .. E!Limit |-> IF i = 0 THEN a ELSE E!NextRun(m, r[i - 1])]
              H0 == E!Headers(m)
  <1>1. d = R[E!Limit]
    BY DEF E!dump_logical_efuse_map
  <1>2. a \in DecodeStates(m)
    <2>1. a \in EfState /\ a.phy = 0 /\ a.err = 0 /\ a.log = E!Blank
      BY LimitIs DEF EfState, E!Blank, E!Erased
    <2>. HIDE DEF a
    <2>2. PlacedBy(m, {}) = {}
      BY DEF PlacedBy
    <2>3. Decoded(a, m, {})
      <3>1. \A k \in 0 .. LogSize - 1 : E!Blank[k] = 255
        BY DEF E!Blank, E!Erased
      <3>. QED BY <2>1, <2>2, <3>1 DEF Decoded, LogIs
    <2>4. Chain(a, m, {})
      BY <2>1, HeadersAre DEF Chain
    <2>. QED BY <2>1, <2>3, <2>4 DEF DecodeStates, DecodeInv
  <1>. HIDE DEF a
  <1>3. DumpRuns(R, m, a)
    <2>1. \E r : DumpRuns(r, m, a)
      BY <1>2, DumpRun, Zenon
    <2>2. \E r : r = [i \in 0 .. E!Limit |-> IF i = 0 THEN a ELSE E!NextRun(m, r[i - 1])]
      BY <2>1, Zenon DEF DumpRuns
    <2>. QED BY <2>2, Zenon DEF DumpRuns
  <1>. HIDE DEF R
  <1>4. d \in EfState /\ DecodeInv(d, m) /\ Stopped(d, m)
    BY <1>1, <1>2, <1>3, DumpEnds
  <1>5. E!Placed(m) = PlacedBy(m, H0)
    BY DEF E!Placed, PlacedBy, WordAt
  <1>6. CASE d.err = 1
    <2>1. PICK p \in H0 : RunBad(m, p)
      BY <1>4, <1>6 DEF DecodeInv
    <2>2. PICK i \in E!Words(m, p) : ~Accepted(WordAt(m, p, i))
      BY <2>1 DEF RunBad
    <2>3. WordAt(m, p, i) \in PlacedBy(m, H0)
      BY DEF PlacedBy
    <2>4. ~(d.err = 0) /\ ~\A w \in E!Placed(m) : Accepted(w)
      BY <1>5, <1>6, <2>2, <2>3
    <2>. QED BY <2>4, AcceptedAll, Zenon DEF Means
  <1>7. CASE d.err = 0
    <2>1. PICK Vis : Chain(d, m, Vis) /\ Decoded(d, m, Vis)
      BY <1>4, <1>7 DEF DecodeInv
    <2>2. d.phy \notin ValidAt(m)
      BY <1>4, <1>7 DEF Stopped
    <2>3. Vis \in SUBSET ValidAt(m) /\ Vis \subseteq H0
      BY <2>1, HeadersAre DEF Chain
    <2>4. (0 \in ValidAt(m) => 0 \in Vis) /\ \A p \in Vis : E!RunEnd(m, p) \in ValidAt(m) => E!RunEnd(m, p) \in Vis
      BY <2>1, <2>2 DEF Chain
    <2>5. H0 \subseteq Vis
      BY <2>3, <2>4, HeadersAre
    <2>6. Vis = H0
      BY <2>3, <2>5
    <2>. DEFINE W == E!Placed(m)
    <2>7. W = PlacedBy(m, Vis)
      BY <1>5, <2>6
    <2>8. W \in SUBSET WordSet
      BY <2>3, <2>7, PlacedTyped, Zenon
    <2>9. (\A w \in W : Accepted(w)) /\ LogIs(d.log, m, W)
      BY <2>1, <2>7 DEF Decoded
    <2>10. d.log \in [0 .. LogSize - 1 -> 0 .. 255]
      BY <1>4 DEF EfState
    <2>. DEFINE g == [k \in 0 .. LogSize - 1 |->
                       IF \E w \in LastOf(W) : w.to = k - (k % 2)
                         THEN m[(CHOOSE w \in LastOf(W) : w.to = k - (k % 2)).from + (k % 2)]
                         ELSE E!Erased]
    <2>11. ASSUME NEW k \in 0 .. LogSize - 1 PROVE d.log[k] = g[k]
      <3>. HIDE DEF W
      <3>1. d.log[k] = IF \E w \in LastOf(W) : w.to = k - (k % 2)
                         THEN m[(CHOOSE w \in LastOf(W) : w.to = k - (k % 2)).from + (k % 2)]
                         ELSE E!Erased
        BY <2>8, <2>9, <2>10, LogMeans, Zenon
      <3>. QED BY <3>1, Zenon
    <2>12. DOMAIN g = 0 .. LogSize - 1 /\ g = [k \in 0 .. LogSize - 1 |-> g[k]]
      BY Zenon
    <2>13. d.log = g
      <3>. HIDE DEF g
      <3>. QED BY <2>10, <2>11, <2>12
    <2>. QED BY <1>7, <2>9, <2>13, AcceptedAll, Zenon DEF Means
  <1>. QED BY <1>4, <1>6, <1>7 DEF EfState

(* EfuseDecodes, with what it depends on as parameters.                    *)
LEMMA MeansIs ==
  EfuseDecodes = (efPc = "done" /\ phy_map # E!NoMap => Means(phy_map, log_map, efRet))
  BY Zenon DEF EfuseDecodes, E!EfuseDecodes, Means, LastOf

(* The same of the next state.                                             *)
LEMMA MeansNext ==
  EfuseDecodes' = (efPc' = "done" /\ phy_map' # E!NoMap => Means(phy_map', log_map', efRet'))
  BY Zenon DEF EfuseDecodes, E!EfuseDecodes, Means, LastOf, E!Placed, E!Headers, E!Words, E!DataAt, E!Target, E!RunEnd

(* The maps exist only between the read and the end of the stage.          *)
EfuseInv ==
  /\ EfuseDecodes
  /\ efPc \in {"idle", "dump", "done"}
  /\ efPc # "done" => phy_map = E!NoMap
  /\ efPc = "done" => stage = "efuse"

(* Every step keeps it.                                                    *)
LEMMA EfuseStep ==
  ASSUME EfuseInv, [Next]_vars
  PROVE  EfuseInv'
<1> USE DEF EfuseInv
<1>1. CASE UNCHANGED efuseVars /\ (stage' = stage \/ stage # "efuse")
  BY <1>1, MeansIs, MeansNext DEF efuseVars
<1>2. CASE stage # "efuse" /\ E!EfuseBegin
  BY <1>2, MeansNext DEF E!EfuseBegin
<1>3. CASE E!efuse_read /\ stage = "efuse" /\ stage' = stage
  <2>1. efPc = "dump" /\ efPc' = "done" /\ phy_map = E!NoMap
    BY <1>3 DEF E!efuse_read
  <2>2. CASE UNCHANGED phy_map
    BY <1>3, <2>1, <2>2, MeansNext
  <2>3. CASE phy_map' # phy_map
    <3>1. PICK m \in E!dump_physical_efuse_map :
            /\ phy_map' = m /\ log_map' = E!dump_logical_efuse_map(m).log
            /\ efRet' = E!dump_logical_efuse_map(m).err
      BY <1>3, <2>3 DEF E!efuse_read
    <3>2. m \in MapSet
      <4>1. m \in Maps \/ m = [i \in 0 .. PhySize - 1 |-> 255]
        BY DEF E!dump_physical_efuse_map, E!Erased
      <4>2. [i \in 0 .. PhySize - 1 |-> 255] \in MapSet
        BY DEF MapSet
      <4>3. Maps \subseteq MapSet
        BY EfuseConstants, Zenon DEF MapSet
      <4>. QED BY <4>1, <4>2, <4>3, Zenon
    <3>3. Means(m, E!dump_logical_efuse_map(m).log, E!dump_logical_efuse_map(m).err)
      BY <3>2, DumpDecodes, Zenon
    <3>. QED BY <1>3, <2>1, <3>1, <3>3, MeansNext
  <2>. QED BY <2>2, <2>3
<1>4. CASE E!EfuseFree
  BY <1>4, MeansNext DEF E!EfuseFree
<1> QED
  <2>1. \/ UNCHANGED efuseVars /\ (stage' = stage \/ stage # "efuse")
        \/ stage # "efuse" /\ E!EfuseBegin
        \/ E!efuse_read /\ stage = "efuse" /\ stage' = stage
        \/ E!EfuseFree
    BY DEF Next, Begin, PreCfg, Power, phy_set_param, Tune, ChipUp, ChipLost, PowerDone, trx_init, Firmware,
       mac_init, Efuse, fw_handshake, coex_wifi_antenna, ScanDone, Associate, trx_free, ChipWorks, Finished,
       vars, Stay, opVars
  <2> QED BY <2>1, <1>1, <1>2, <1>3, <1>4

(* The logical map has in every byte the value of the last run that        *)
(* programs it, or 0xff, and the read fails exactly when a run does not    *)
(* fit (efuse.c: dump_logical_efuse_map), for every content of the efuse   *)
(* and every size of the maps.                                             *)
THEOREM EfuseIsDecoded == Spec => []EfuseDecodes
<1>1. Init => EfuseInv
  <2>. SUFFICES ASSUME Init PROVE EfuseInv
    OBVIOUS
  <2>1. efPc = "idle" /\ phy_map = E!NoMap
    BY DEF Init, E!EfuseInit
  <2>. QED BY <2>1, MeansIs DEF EfuseInv
<1>2. EfuseInv => EfuseDecodes
  BY DEF EfuseInv
<1> QED BY <1>1, <1>2, EfuseStep, PTL DEF Spec
=============================================================================
