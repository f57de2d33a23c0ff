------------------------------ MODULE Bringup -------------------------------
(***************************************************************************)
(* The bring-up of the chip as server/kctl.c runs it for a connect and for *)
(* a scan: power, rings, firmware, MAC, efuse, PHY, firmware handshake,    *)
(* coexistence, tuning, and the commands of a join.  A connect stops at    *)
(* the first stage that fails; a scan (and the bring-up selector) goes on  *)
(* whatever fails.  Each stage is a module of its own; here they share one *)
(* chip, which may power up or down late or drop off the bus in any of     *)
(* them, and the statics of the driver, which outlive every operation.     *)
(***************************************************************************)
EXTENDS FwImage

CONSTANTS
  PhySize, PtctSize, LogSize, RfeOffset, Maps,   \* the efuse
  Channels,      \* the channels to tune to
  MaxOps,        \* bound: operations
  MaxTunes       \* bound: tunes of one operation

ASSUME EfuseConstants ==
  /\ PhySize \in Nat /\ PtctSize \in 1 .. PhySize /\ LogSize \in Nat /\ LogSize % 2 = 0
  /\ Maps \subseteq [0 .. PhySize - 1 -> 0 .. 255]

VARIABLES
  stage, op, ops, tunes,
  rings,         \* trx.c: "ok", "unset" (g_pkt_size is 0), "null" (size set, no buffer)
  chip, apfm, pwPc, pwrOn, attempt, idx, poweron, pwRet, fresh,
  fwPc, sec, mem_offset, first_part, bckp, pageBckp, reg, page, bcnValid, acc, sts, mem,
  mcufw, running, fwRet, faults,
  efPc, phy_map, log_map, efRet, rfe,
  bb, phy_cond, applied,
  filter, tuned, g_ch_param, g_ch_param_valid, gnt, cxPc,
  h2cPc, buf, bds, box_num, ex, lo, full, posted, fetched, overslept, taken

P == INSTANCE Power
F == INSTANCE FwDownload
E == INSTANCE Efuse
Y == INSTANCE Phy
C == INSTANCE Channel
H == INSTANCE H2C

opVars == <<stage, op, ops, tunes>>
powerVars == <<chip, apfm, pwPc, pwrOn, attempt, idx, poweron, pwRet, fresh>>
fwVars == <<fwPc, sec, mem_offset, first_part, bckp, pageBckp, reg, page, bcnValid, acc, sts, mem,
            mcufw, running, fwRet, faults>>
efuseVars == <<efPc, phy_map, log_map, efRet, rfe>>
phyVars == <<bb, phy_cond, applied>>
chanVars == <<filter, tuned, g_ch_param, g_ch_param_valid>>
coexVars == <<gnt, cxPc>>
pktVars == <<buf, bds, posted, fetched, overslept>>
boxVars == <<box_num, ex, lo, full, taken>>
h2cVars == <<h2cPc, pktVars, boxVars>>
vars == <<opVars, rings, powerVars, fwVars, efuseVars, phyVars, chanVars, coexVars, h2cVars>>

Init ==
  /\ stage = "idle" /\ op = "scan" /\ ops = 0 /\ tunes = 0 /\ rings = "unset"
  /\ P!PowerInit /\ F!FwInit /\ E!EfuseInit /\ Y!PhyInit /\ C!ChannelInit /\ H!H2CInit
-----------------------------------------------------------------------------
(* The stages.  A connect gives up on a result r other than 0.             *)
Then(r, next) == IF op = "connect" /\ r # 0 THEN "free" ELSE next
Goto(next) == stage' = next /\ UNCHANGED <<op, ops, tunes>>
Stay == UNCHANGED opVars

(* An operation starts: the old rings are halted and rtw_dev is zeroed.    *)
Begin ==
  /\ stage \in {"idle", "up"} /\ ops < MaxOps
  /\ stage' = "power" /\ op' \in {"scan", "connect"} /\ ops' = ops + 1 /\ tunes' = 0
  /\ P!rtw_mac_power_on /\ F!FwBegin /\ E!EfuseBegin
  /\ h2cPc' = "general" /\ cxPc' = 1
  /\ UNCHANGED <<rings, phyVars, chanVars, gnt, pktVars, boxVars>>

(* Power: the configuration before it turns BB and RF off.                 *)
PreCfg ==
  /\ stage = "power" /\ P!rtw_mac_pre_system_cfg
  /\ IF chip = "act" THEN Y!PhyReset /\ C!ChannelOff ELSE UNCHANGED <<phyVars, chanVars>>
  /\ Stay /\ UNCHANGED <<rings, fwVars, efuseVars, coexVars, h2cVars>>

Power ==
  /\ stage = "power" /\ P!PowerStep /\ Stay
  /\ UNCHANGED <<rings, fwVars, efuseVars, phyVars, chanVars, coexVars, h2cVars>>

PowerDone ==
  /\ stage = "power" /\ pwPc = "done" /\ Goto(Then(pwRet, "rings"))
  /\ UNCHANGED <<rings, powerVars, fwVars, efuseVars, phyVars, chanVars, coexVars, h2cVars>>

(* trx_init: the buffers are allocated once.  When the first allocation    *)
(* fails nothing changes; when a later one does, the size stays set.       *)
trx_init ==
  /\ stage = "rings"
  /\ rings' \in IF rings = "ok" THEN {"ok"} ELSE {"ok", "null", rings}
  /\ IF rings' = "ok" THEN H!RingReset ELSE UNCHANGED h2cVars
  /\ Goto(Then(IF rings' = "ok" THEN 0 ELSE 1, "fw"))
  /\ UNCHANGED <<powerVars, fwVars, efuseVars, phyVars, chanVars, coexVars>>

(* A download that succeeds ends with trx_reset.                           *)
Firmware ==
  /\ stage = "fw"
  /\ \/ F!FwStep /\ Stay /\ UNCHANGED h2cVars
     \/ F!FwReturn /\ Goto(Then(fwRet, "mac")) /\ IF fwRet = 0 THEN H!RingReset ELSE UNCHANGED h2cVars
  /\ UNCHANGED <<rings, powerVars, efuseVars, phyVars, chanVars, coexVars>>

(* mac_init: its polls succeed only on a chip that is up.                  *)
mac_init ==
  /\ stage = "mac" /\ F!mac_init
  /\ \E r \in {0, 1} : (r = 0 => chip = "act") /\ Goto(Then(r, "efuse"))
  /\ UNCHANGED <<rings, powerVars, efuseVars, phyVars, chanVars, coexVars, h2cVars>>

Efuse ==
  /\ stage = "efuse"
  /\ \/ E!efuse_read /\ Stay
     \/ efPc = "done" /\ Goto(Then(efRet, "phy")) /\ E!EfuseFree
  /\ UNCHANGED <<rings, powerVars, fwVars, phyVars, chanVars, coexVars, h2cVars>>

phy_set_param ==
  /\ stage = "phy"
  /\ \E ok \in BOOLEAN : Y!phy_set_param(ok) /\ Goto(Then(IF ok THEN 0 ELSE 1, "handshake"))
  /\ C!ChannelLoaded
  /\ UNCHANGED <<rings, powerVars, fwVars, efuseVars, coexVars, h2cVars>>

fw_handshake ==
  /\ stage = "handshake"
  /\ \/ h2cPc # "ready" /\ H!H2CStep /\ Stay
     \/ h2cPc = "ready" /\ Goto("coex") /\ UNCHANGED h2cVars
  /\ UNCHANGED <<rings, powerVars, fwVars, efuseVars, phyVars, chanVars, coexVars>>

coex_wifi_antenna ==
  /\ stage = "coex"
  /\ \/ C!coex_wifi_antenna /\ Stay
     \/ cxPc = 5 /\ Goto("tune") /\ UNCHANGED coexVars
  /\ UNCHANGED <<rings, powerVars, fwVars, efuseVars, phyVars, chanVars, h2cVars>>

(* The scan tunes to one channel after another.                            *)
Tune ==
  /\ stage = "tune" /\ tunes < MaxTunes
  /\ \E c \in Channels : C!set_channel(c)
  /\ tunes' = tunes + 1 /\ UNCHANGED <<stage, op, ops>>
  /\ UNCHANGED <<rings, powerVars, fwVars, efuseVars, phyVars, coexVars, h2cVars>>

(* A connect goes on to the join, if the scan found the network.           *)
ScanDone ==
  /\ stage = "tune" /\ tunes > 0
  /\ \/ op = "connect" /\ Goto("join")
     \/ Goto("free")
  /\ UNCHANGED <<rings, powerVars, fwVars, efuseVars, phyVars, chanVars, coexVars, h2cVars>>

(* The commands of a join, which may fail between any two of them.         *)
Associate ==
  /\ stage = "join"
  /\ \/ h2cPc # "done" /\ H!H2CStep /\ Stay
     \/ h2cPc = "done" /\ Goto("up") /\ UNCHANGED h2cVars
     \/ h2cPc # "done" /\ Goto("free") /\ UNCHANGED h2cVars
  /\ UNCHANGED <<rings, powerVars, fwVars, efuseVars, phyVars, chanVars, coexVars>>

(* trx_free halts the rings and takes bus mastering away.                  *)
trx_free ==
  /\ stage = "free" /\ Goto("idle") /\ H!RingReset
  /\ UNCHANGED <<rings, powerVars, fwVars, efuseVars, phyVars, chanVars, coexVars>>
-----------------------------------------------------------------------------
(* The chip: it fetches and takes what it was given, powers up or down     *)
(* when asked, at its time, or is gone.  What a chip without power or off  *)
(* the bus holds can no more be seen.                                      *)
ChipWorks ==
  /\ stage # "idle" /\ H!H2CChip /\ Stay
  /\ UNCHANGED <<rings, powerVars, fwVars, efuseVars, phyVars, chanVars, coexVars>>

ChipUp ==
  /\ P!PowerUp /\ F!FwReset /\ Y!PhyReset /\ C!ChannelReset /\ H!H2CReset
  /\ Stay /\ UNCHANGED <<rings, efuseVars>>

ChipLost ==
  /\ P!PowerDown \/ P!Die
  /\ F!FwReset /\ Y!PhyReset /\ C!ChannelReset /\ H!H2CReset
  /\ Stay /\ UNCHANGED <<rings, efuseVars>>

(* The driver rests between operations, or the kernel has stopped.         *)
Finished ==
  /\ (ops = MaxOps /\ stage \in {"idle", "up"}) \/ fwPc = "panic"
  /\ UNCHANGED vars

Next ==
  \/ Begin \/ PreCfg \/ Power \/ PowerDone \/ trx_init \/ Firmware \/ mac_init \/ Efuse
  \/ phy_set_param \/ fw_handshake \/ coex_wifi_antenna \/ Tune \/ ScanDone \/ Associate \/ trx_free
  \/ ChipWorks \/ ChipUp \/ ChipLost \/ Finished

Spec == Init /\ [][Next]_vars
-----------------------------------------------------------------------------
(* The properties of the stages hold on the chip they share.               *)

(* A power-on that reports success went through a power-up of its own      *)
(* (pwr.c), also after a power-down that the chip answered too late.       *)
PowerOnIsFresh == P!PowerOnIsFresh

(* A firmware that counts as running is in memory whole (fwdownload.c),    *)
(* whatever was damaged, left over or powered up in between.               *)
RunningIsWhole == F!RunningIsWhole

(* The efuse is decoded to what its runs say, or refused (efuse.c).        *)
EfuseDecodes == E!EfuseDecodes

(* Of every block of the radio tables one version is applied (phy.c).      *)
TablesOneVersion == Y!TablesOneVersion

(* The CCK filter of channels 1 to 13 is the table's (channel.c), across   *)
(* channel 14, failed bring-ups and operations.                            *)
FilterIsTable == C!FilterIsTable

(* The firmware gets the packets that were posted, if it fetches them in   *)
(* time (h2c.c, trx.c).                                                    *)
PacketsIntact == H!PacketsIntact

(* The firmware takes whole mailboxes only (media.c).                      *)
MailboxWhole == H!MailboxWhole

(* A grant that WiFi has got stays through the later writes to the same    *)
(* register (coex.c), whichever of them finds the mailbox not ready, while *)
(* the chip keeps its power.                                               *)
GrantStays ==
  [][chip' = chip => \A f \in {"wlbb", "wlrf"} : gnt[f] = "high" => gnt'[f] = "high"]_vars

(* After a power-on that succeeded, a successful download leaves every     *)
(* register it borrowed, for itself and for each page, as it found it.     *)
(* (A scan goes on after a power-on that failed, and may then save what    *)
(* an earlier, failed download left.)                                      *)
RegistersRestored == running = 1 /\ pwRet = 0 /\ chip = "act" => reg = F!Running

(* No page is written through a buffer that is not there: the writers of   *)
(* trx.c return when the "rings not allocated".                            *)
NoNullPage == fwPc # "panic"
=============================================================================
