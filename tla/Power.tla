------------------------------- MODULE Power --------------------------------
(***************************************************************************)
(* rtw_mac_power_on (core/pwr.c): the power sequences of the 8821C run     *)
(* over PCI against a chip that may be on already, may answer a poll late  *)
(* or never, and may drop off the bus.                                     *)
(*                                                                         *)
(* Of the registers only 0x05, APFM, is state: it carries the requests to  *)
(* power up (bit 0) and down (bit 1), which the chip clears when it has    *)
(* done it, and bit 2, card disable.  What the chip does is external.      *)
(***************************************************************************)
EXTENDS Integers, Sequences

VARIABLES
  chip,      \* "off" (REG_CR reads 0xea), "act", or "dead": off the bus, all reads 0xff
  apfm,      \* the bits set in 0x05
  pwPc,      \* where the call is: "idle", "pre", "switch", "seq", "poll2", "sys", "done"
  pwrOn,     \* the argument of rtw_mac_power_switch
  attempt,   \* 1, or 2: after the power-off of a chip found on
  idx,       \* the entry of the sequence
  poweron,   \* RTW_FLAG_POWERON
  pwRet,     \* 0, or 1 for any error
  fresh      \* ghost: the chip came up during this call

chipVars == <<chip, apfm>>
callVars == <<pwPc, pwrOn, attempt, idx, poweron, pwRet>>
powerVars == <<chipVars, callVars, fresh>>

-----------------------------------------------------------------------------
(* The entries of the tables: register, interfaces, command, mask, value.  *)
All == {"sdio", "usb", "pci"}
Byte == 0 .. 7
Wr(off, intf, mask, val) == [off |-> off, intf |-> intf, cmd |-> "write", mask |-> mask, val |-> val]
Po(off, intf, mask, val) == [off |-> off, intf |-> intf, cmd |-> "poll", mask |-> mask, val |-> val]
Delay(intf) == [off |-> 1, intf |-> intf, cmd |-> "delay", mask |-> {}, val |-> {}]

trans_carddis_to_cardemu ==
  << Wr(\h86, {"sdio"}, {0}, {}), Po(\h86, {"sdio"}, {1}, {1}), Wr(\h4A, {"usb"}, {0}, {}),
     Wr(\h05, All, {3, 4, 7}, {}), Wr(\h300, {"pci"}, Byte, {}), Wr(\h301, {"pci"}, Byte, {}) >>

trans_cardemu_to_act ==
  << Wr(\h20, {"usb", "sdio"}, {0}, {0}), Delay({"usb", "sdio"}), Wr(\h00, {"usb", "sdio"}, {5}, {}),
     Wr(\h05, All, {4, 3, 2}, {}), Wr(\h75, {"pci"}, {0}, {0}), Po(\h06, All, {1}, {1}),
     Wr(\h75, {"pci"}, {0}, {}), Wr(\h06, All, {0}, {0}), Wr(\h05, All, {7}, {}),
     Wr(\h05, All, {4, 3}, {}), Wr(\h10C3, {"usb"}, {0}, {0}), Wr(\h05, All, {0}, {0}),
     Po(\h05, All, {0}, {}), Wr(\h20, All, {3}, {3}), Wr(\h74, {"pci"}, {5}, {5}),
     Wr(\h22, {"pci"}, {1}, {}), Wr(\h62, {"pci"}, {7, 6, 5}, {7, 6, 5}),
     Wr(\h61, {"pci"}, {7, 6, 5}, {}), Wr(\h7C, All, {1}, {}) >>

trans_act_to_cardemu ==
  << Wr(\h93, All, {3}, {}), Wr(\h1F, All, Byte, {}), Wr(\h49, All, {1}, {}), Wr(\h06, All, {0}, {0}),
     Wr(\h02, All, {1}, {}), Wr(\h10C3, {"usb"}, {0}, {}), Wr(\h05, All, {1}, {1}),
     Po(\h05, All, {1}, {}), Wr(\h20, All, {3}, {}), Wr(\h00, {"usb", "sdio"}, {5}, {5}) >>

trans_cardemu_to_carddis ==
  << Wr(\h07, {"usb", "sdio"}, Byte, {5}), Wr(\h67, All, {5}, {}), Wr(\h05, {"pci"}, {2}, {2}),
     Wr(\h4A, {"usb"}, {0}, {}), Wr(\h67, {"sdio"}, {5}, {}), Wr(\h67, {"sdio"}, {4}, {}),
     Wr(\h4F, {"sdio"}, {0}, {}), Wr(\h67, {"sdio"}, {1}, {}), Wr(\h46, {"sdio"}, {6}, {6}),
     Wr(\h67, {"sdio"}, {2}, {}), Wr(\h46, {"sdio"}, {7}, {7}), Wr(\h62, {"sdio"}, {4}, {4}),
     Wr(\h81, All, {7, 6}, {}), Wr(\h05, {"usb", "sdio"}, {3, 4}, {3}), Wr(\h86, {"sdio"}, {0}, {0}),
     Po(\h86, {"sdio"}, {1}, {}), Wr(\h90, {"usb", "pci"}, {1}, {}), Wr(\h44, {"sdio"}, Byte, {}),
     Wr(\h40, {"sdio"}, Byte, {7, 4}), Wr(\h41, {"sdio"}, Byte, {}), Wr(\h42, {"sdio"}, Byte, {2}) >>

card_enable_flow == trans_carddis_to_cardemu \o trans_cardemu_to_act
card_disable_flow == trans_act_to_cardemu \o trans_cardemu_to_carddis
Sequence == IF pwrOn = 1 THEN card_enable_flow ELSE card_disable_flow
-----------------------------------------------------------------------------
(* At load the chip may be off, disabled, or on: left so by the firmware   *)
(* of the machine or by another driver.                                    *)
PowerInit ==
  /\ chip \in {"off", "act"} /\ apfm \in IF chip = "off" THEN {{}, {2}} ELSE {{}}
  /\ pwPc = "idle" /\ pwrOn = 1 /\ attempt = 1 /\ idx = 1
  /\ poweron = 0 /\ pwRet = 0 /\ fresh = 0

(* The call starts on a zeroed rtw_dev.                                    *)
rtw_mac_power_on ==
  /\ pwPc \in {"idle", "done"}
  /\ pwPc' = "pre" /\ pwrOn' = 1 /\ attempt' = 1 /\ idx' = 1
  /\ poweron' = 0 /\ pwRet' = 0 /\ fresh' = 0
  /\ UNCHANGED chipVars

(* Pin muxes, and BB and RF off.  Nothing of it fails over PCI.            *)
rtw_mac_pre_system_cfg ==
  /\ pwPc = "pre" /\ pwPc' = "switch" /\ pwrOn' = 1
  /\ UNCHANGED <<chipVars, attempt, idx, poweron, pwRet, fresh>>

(* The power state as REG_CR tells it.                                     *)
cur_pwr == IF chip = "off" THEN 0 ELSE 1

(* The call returns; its locals are gone.                                  *)
Return(r) == pwPc' = "done" /\ pwRet' = r /\ pwrOn' = 1 /\ attempt' = 1

\* Mutant: a chip that is still on after the power-off counts as powered on.
Already_Success ==
  \/ pwrOn = 0 /\ pwPc' = "pre" /\ attempt' = 2 /\ UNCHANGED <<pwrOn, pwRet>>
  \/ pwrOn = 1 /\ attempt = 1 /\ pwrOn' = 0 /\ UNCHANGED <<pwPc, attempt, pwRet>>
  \/ pwrOn = 1 /\ attempt = 2 /\ pwPc' = "sys" /\ UNCHANGED <<pwrOn, attempt, pwRet>>

(* -EALREADY: the first time the chip is powered off, with the result of   *)
(* that ignored, and the configuration starts over; then it is an error.   *)
Already ==
  \/ pwrOn = 0 /\ pwPc' = "pre" /\ attempt' = 2 /\ UNCHANGED <<pwrOn, pwRet>>
  \/ pwrOn = 1 /\ attempt = 1 /\ pwrOn' = 0 /\ UNCHANGED <<pwPc, attempt, pwRet>>
  \/ pwrOn = 1 /\ attempt = 2 /\ Return(1)

(* rtw_mac_power_switch up to its sequence.                                *)
rtw_mac_power_switch ==
  /\ pwPc = "switch"
  /\ \/ cur_pwr = pwrOn /\ Already /\ UNCHANGED <<idx, poweron>>
     \/ /\ cur_pwr # pwrOn
        /\ pwPc' = "seq" /\ idx' = 1 /\ poweron' = IF pwrOn = 0 THEN 0 ELSE poweron
        /\ UNCHANGED <<pwrOn, attempt, pwRet>>
  /\ UNCHANGED <<chipVars, fresh>>

(* ... and from it: the result of a power-off is ignored.                  *)
SeqDone(r) ==
  /\ idx' = 1
  /\ \/ pwrOn = 0 /\ pwPc' = "pre" /\ attempt' = 2 /\ UNCHANGED <<pwrOn, poweron, pwRet>>
     \/ pwrOn = 1 /\ r = 0 /\ pwPc' = "sys" /\ poweron' = 1 /\ UNCHANGED <<pwrOn, attempt, pwRet>>
     \/ pwrOn = 1 /\ r # 0 /\ Return(r) /\ UNCHANGED poweron
-----------------------------------------------------------------------------
Entry == Sequence[idx]
Read05 == IF chip = "dead" THEN Byte ELSE apfm

\* What a poll of e may read: of 0x05 what it holds, of others the chip's choice.
PollReads(e) ==
  IF e.off = \h05 THEN {Read05 \cap e.mask}
  ELSE IF chip = "dead" THEN {e.mask} ELSE SUBSET e.mask

(* rtw_sub_pwr_seq_parser: entries of other interfaces are skipped (every  *)
(* entry is for all cuts); otherwise a read-modify-write, or a poll.  A    *)
(* poll that fails toggles PFM_WOWL and is tried once more.                *)
rtw_sub_pwr_seq_parser ==
  /\ pwPc = "seq"
  /\ \/ /\ idx <= Len(Sequence) /\ "pci" \notin Entry.intf
        /\ idx' = idx + 1 /\ UNCHANGED <<apfm, pwPc, pwrOn, attempt, poweron, pwRet>>
     \/ /\ idx <= Len(Sequence) /\ "pci" \in Entry.intf /\ Entry.cmd = "write"
        /\ apfm' = IF Entry.off = \h05 /\ chip # "dead"
                     THEN (apfm \ Entry.mask) \cup Entry.val ELSE apfm
        /\ idx' = idx + 1 /\ UNCHANGED <<pwPc, pwrOn, attempt, poweron, pwRet>>
     \/ /\ idx <= Len(Sequence) /\ "pci" \in Entry.intf /\ Entry.cmd = "poll"
        /\ \E v \in PollReads(Entry) :
             IF v = Entry.val THEN idx' = idx + 1 /\ UNCHANGED pwPc
                              ELSE pwPc' = "poll2" /\ UNCHANGED idx
        /\ UNCHANGED <<apfm, pwrOn, attempt, poweron, pwRet>>
     \/ idx > Len(Sequence) /\ SeqDone(0) /\ UNCHANGED apfm
  /\ UNCHANGED <<chip, fresh>>

(* rtw_pwr_cmd_polling, second round.                                      *)
rtw_pwr_cmd_polling ==
  /\ pwPc = "poll2"
  /\ \E v \in PollReads(Entry) :
       IF v = Entry.val
       THEN pwPc' = "seq" /\ idx' = idx + 1 /\ UNCHANGED <<pwrOn, attempt, poweron, pwRet>>
       ELSE SeqDone(1)
  /\ UNCHANGED <<chipVars, fresh>>

(* Platform reset, function enables, no boot from flash.                   *)
rtw_mac_init_system_cfg ==
  /\ pwPc = "sys" /\ Return(0)
  /\ UNCHANGED <<chipVars, idx, poweron, fresh>>

PowerStep ==
  \/ rtw_mac_power_switch \/ rtw_sub_pwr_seq_parser
  \/ rtw_pwr_cmd_polling \/ rtw_mac_init_system_cfg
-----------------------------------------------------------------------------
(* The chip answers a request, at any time after it.  It drops the other   *)
(* request: one to power down that reached it while it was off, one to     *)
(* power up that reached it while it was on.                               *)
PowerUp ==
  /\ chip = "off" /\ 0 \in apfm /\ 2 \notin apfm
  /\ chip' = "act" /\ apfm' = apfm \ {0, 1} /\ fresh' = 1
  /\ UNCHANGED callVars

PowerDown ==
  /\ chip = "act" /\ 1 \in apfm
  /\ chip' = "off" /\ apfm' = apfm \ {0, 1}
  /\ UNCHANGED <<callVars, fresh>>

(* The device drops off the bus.                                           *)
Die ==
  /\ chip # "dead" /\ chip' = "dead"
  /\ UNCHANGED <<apfm, callVars, fresh>>
-----------------------------------------------------------------------------
(* A power-on that reports success has taken the chip through a power-up   *)
(* of its own: not found on from before, with the old firmware and         *)
(* registers, not still going down, not gone.                              *)
PowerOnIsFresh == pwPc = "done" /\ pwRet = 0 => fresh = 1 /\ poweron = 1 /\ chip # "off"
=============================================================================
