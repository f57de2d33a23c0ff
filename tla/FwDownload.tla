----------------------------- MODULE FwDownload -----------------------------
(***************************************************************************)
(* The firmware download (core/fwdownload.c) against the chip: the host    *)
(* puts one chunk at a time into the chip's TX buffer as a beacon page,    *)
(* the DDMA engine copies it to its place and adds it to a checksum, and   *)
(* after each section the checksum is read.  The transfer of a page may    *)
(* damage it; every poll may time out.  A chip that is not up loses every  *)
(* write, and the download fails.                                          *)
(***************************************************************************)
EXTENDS FwImage, FiniteSets

Bank(s) == IF s = 1 THEN "dmem" ELSE "imem"
\* The sixth register, H2CQ_CSR, is "saved" as a constant, which is written back.
SavedRegs == {"TXDMA_PQ_MAP", "CR", "FIFOPAGE_INFO_1", "RQPN_CTRL_2", "BCN_CTRL"}
PageRegs == {"BCN_CTRL", "FWHW_TXQ_CTRL", "CR_1"}
Registers == SavedRegs \cup PageRegs

VARIABLES
  chip,        \* the power state of the chip (Power)
  rings,       \* the buffers of trx.c (Bringup)
  fwPc,
  sec, mem_offset, first_part,   \* the locals of the download loops
  bckp, pageBckp,   \* the saved registers, of the download and of a page
  reg,         \* reg[r]: "run", "dl" as the download needs it, or "junk"
  page,        \* the chunk in the TX buffer: [sec, off, len, ok]
  bcnValid,    \* 1: the chip has taken the page
  acc, sts,    \* the checksum is damaged; BIT_DDMACH0_CHKSUM_STS
  mem,         \* mem[s][i]: unit i of section s is "none", "ok" or "bad"
  mcufw,       \* bits of REG_MCUFW_CTRL
  running,     \* RTW_FLAG_FW_RUNNING
  fwRet,         \* 0, or 1 for any error
  faults

loopVars == <<sec, mem_offset, first_part>>
regVars  == <<bckp, pageBckp, reg>>
pageVars == <<page, bcnValid>>
ddma     == <<acc, sts, mem>>
fwVars == <<fwPc, loopVars, regVars, pageVars, ddma, mcufw, running, fwRet, faults>>

Bits == {"MCUFWDL_EN", "dmem_DW_OK", "dmem_CHKSUM_OK", "imem_DW_OK", "imem_CHKSUM_OK", "FW_DW_RDY"}
NoChunk == [sec |-> 0, off |-> 0, len |-> 0, ok |-> 0]
Empty == [s \in 1 .. 3 |-> [i \in 1 .. Size[s] |-> "none"]]
Running == [r \in Registers |-> "run"]

FwInit ==
  /\ fwPc = "idle" /\ sec = 1 /\ mem_offset = 0 /\ first_part = 1
  /\ bckp = [r \in SavedRegs |-> "run"] /\ pageBckp = [r \in PageRegs |-> "run"]
  /\ reg = Running
  /\ page = NoChunk /\ bcnValid = 0
  /\ acc = 1 /\ sts = 1 /\ mem = Empty
  /\ mcufw = Bits /\ running = 0 /\ fwRet = 0
  /\ faults = 0
-----------------------------------------------------------------------------
(* The registers as the host reads and writes them.                        *)
Up == chip = "act"
Read(r) == IF Up THEN reg[r] ELSE "junk"
Written(S, v) == [r \in Registers |-> IF r \in S /\ Up THEN v ELSE reg[r]]

(* Save the registers, set them for the download, stop the CPU and begin:  *)
(* of REG_MCUFW_CTRL only bits 13:11 survive.                              *)
download_firmware ==
  /\ fwPc = "start"
  /\ bckp' = [r \in SavedRegs |-> Read(r)]
  /\ reg' = Written(SavedRegs, "dl")
  /\ IF Up THEN mcufw' = {"MCUFWDL_EN"} /\ sts' = 0
           ELSE UNCHANGED <<mcufw, sts>>
  /\ sec' = 1 /\ mem_offset' = 0 /\ first_part' = 1
  /\ fwPc' = "chunk"
  /\ UNCHANGED <<pageBckp, pageVars, acc, mem, running, fwRet, faults>>

(* The failure exit leaves the saved registers as they are, and lets the   *)
(* CPU go.                                                                 *)
Fail ==
  /\ fwPc' = "done" /\ fwRet' = 1
  /\ IF Up THEN mcufw' = mcufw \ {"MCUFWDL_EN"} ELSE UNCHANGED mcufw

(* The length of the next chunk.                                           *)
ChunkLen == IF Size[sec] - mem_offset >= MaxSize THEN MaxSize ELSE Size[sec] - mem_offset

(* rtw_fw_write_data_rsvd_page up to the kick: save its registers and      *)
(* clear the valid bit.  malloc may fail before.                           *)
WritePage ==
  /\ fwPc = "chunk" /\ mem_offset < Size[sec]
  /\ \/ /\ pageBckp' = [r \in PageRegs |-> Read(r)]
        /\ reg' = Written(PageRegs, "dl")
        /\ bcnValid' = IF Up THEN 0 ELSE bcnValid
        /\ fwPc' = "kick"
        /\ UNCHANGED <<mcufw, fwRet>>
     \/ Fail /\ UNCHANGED <<pageBckp, reg, bcnValid>>
  /\ UNCHANGED <<loopVars, bckp, page, ddma, running, faults>>

RestorePage ==
  reg' = [r \in Registers |-> IF r \in PageRegs /\ Up THEN pageBckp[r] ELSE reg[r]]

(* trx_write_data_rsvd_page hands the page to the beacon queue; the chip   *)
(* takes it now, whole or damaged, or too late for the poll.  Without its  *)
(* buffer it refuses the page while g_pkt_size is still 0, and writes to   *)
(* address 0 once an earlier trx_init has set the size and then failed.    *)
Kick ==
  /\ fwPc = "kick"
  /\ \/ /\ rings = "ok" /\ Up
        /\ \E ok \in {0, 1} :
             /\ ok = 1 \/ faults < MaxFaults
             /\ faults' = faults + 1 - ok
             /\ page' = [sec |-> sec, off |-> mem_offset, len |-> ChunkLen, ok |-> ok]
        /\ bcnValid' = 1 /\ fwPc' = "poll"
        /\ UNCHANGED <<reg, mcufw, fwRet>>
     \/ rings = "ok" /\ fwPc' = "poll" /\ UNCHANGED <<page, bcnValid, faults, reg, mcufw, fwRet>>
     \/ rings = "unset" /\ RestorePage /\ Fail /\ UNCHANGED <<page, bcnValid, faults>>
     \/ rings = "null" /\ fwPc' = "panic" /\ UNCHANGED <<page, bcnValid, faults, reg, mcufw, fwRet>>
  /\ UNCHANGED <<loopVars, bckp, pageBckp, ddma, running>>

(* Poll for the valid bit, and restore the registers of the page.          *)
Poll ==
  /\ fwPc = "poll" /\ Up
  /\ RestorePage
  /\ \/ bcnValid = 1 /\ fwPc' = "copy" /\ UNCHANGED <<mcufw, fwRet>>
     \/ bcnValid = 0 /\ Fail
  /\ bcnValid' = 0
  /\ UNCHANGED <<loopVars, bckp, pageBckp, page, ddma, running, faults>>

(* The DDMA engine takes the first ChunkLen units of the TX buffer.        *)
Copied(i) ==
  IF page.sec = sec /\ page.off = mem_offset /\ i - mem_offset <= page.len /\ page.ok = 1
    THEN "ok" ELSE "bad"

\* Mutant: every chunk starts the checksum anew.
Damaged_NoCont(bad) == bad

(* CHKSUM_CONT, on all chunks but the first, adds to the checksum.         *)
Damaged(bad) == IF first_part = 1 THEN bad ELSE IF acc = 1 THEN 1 ELSE bad

(* iddma_download_firmware: wait for the engine, copy, wait again.         *)
iddma_download_firmware ==
  /\ fwPc = "copy" /\ Up
  /\ LET upto == mem_offset + ChunkLen
         new == [i \in 1 .. Size[sec] |->
                   IF i > mem_offset /\ i <= upto THEN Copied(i) ELSE mem[sec][i]]
         bad == IF \A i \in mem_offset + 1 .. upto : Copied(i) = "ok" THEN 0 ELSE 1
     IN /\ \/ /\ mem' = [mem EXCEPT ![sec] = new]
              /\ acc' = Damaged(bad) /\ sts' = acc'
              /\ first_part' = 0 /\ mem_offset' = upto
              /\ fwPc' = "chunk"
              /\ UNCHANGED <<mcufw, fwRet>>
           \/ Fail /\ UNCHANGED <<ddma, first_part, mem_offset>>
  /\ UNCHANGED <<sec, regVars, pageVars, running, faults>>

NextSec == IF sec < 3 /\ Size[sec + 1] > 0 THEN sec + 1 ELSE 4

(* After a section: check_fw_checksum, then the next section, whose loop   *)
(* resets the status.                                                      *)
check_fw_checksum ==
  /\ fwPc = "chunk" /\ Up /\ mem_offset = Size[sec]
  /\ \/ /\ sts = 0
        /\ mcufw' = mcufw \cup {Bank(sec) \o "_DW_OK", Bank(sec) \o "_CHKSUM_OK"}
        /\ sec' = NextSec /\ mem_offset' = 0 /\ first_part' = 1 /\ sts' = 0
        /\ fwPc' = IF NextSec = 4 THEN "end" ELSE "chunk"
        /\ UNCHANGED fwRet
     \/ /\ sts = 1
        /\ mcufw' = ((mcufw \cup {Bank(sec) \o "_DW_OK"}) \ {Bank(sec) \o "_CHKSUM_OK"}) \ {"MCUFWDL_EN"}
        /\ fwPc' = "done" /\ fwRet' = 1
        /\ UNCHANGED <<loopVars, sts>>
  /\ UNCHANGED <<regVars, pageVars, acc, mem, running, faults>>

SumsOk == {"dmem_CHKSUM_OK", "imem_CHKSUM_OK"} \subseteq mcufw

\* Mutant: the registers are not restored.
EndFlow_NoRestore ==
  /\ fwPc = "end" /\ Up
  /\ mcufw' = IF SumsOk THEN (mcufw \cup {"FW_DW_RDY"}) \ {"MCUFWDL_EN"} ELSE mcufw
  /\ fwPc' = "boot"
  /\ UNCHANGED <<loopVars, regVars, pageVars, ddma, running, fwRet, faults>>

(* Restore the registers, declare the firmware ready, start the CPU.       *)
EndFlow ==
  /\ fwPc = "end" /\ Up
  /\ reg' = [r \in Registers |-> IF r \in SavedRegs THEN bckp[r] ELSE reg[r]]
  /\ mcufw' = IF SumsOk THEN (mcufw \cup {"FW_DW_RDY"}) \ {"MCUFWDL_EN"} ELSE mcufw
  /\ fwPc' = "boot"
  /\ UNCHANGED <<loopVars, bckp, pageBckp, pageVars, ddma, running, fwRet, faults>>

(* download_firmware_validate: the firmware comes up, only if it is        *)
(* declared ready, or the poll times out.                                  *)
download_firmware_validate ==
  /\ fwPc = "boot" /\ Up
  /\ \/ /\ "FW_DW_RDY" \in mcufw
        /\ running' = 1 /\ fwPc' = "done"
        /\ UNCHANGED <<mcufw, fwRet>>
     \/ Fail /\ UNCHANGED running
  /\ UNCHANGED <<loopVars, regVars, pageVars, ddma, faults>>

(* A chip that is not up: whatever the polls before it read, the firmware  *)
(* does not report itself ready.                                           *)
FwLost ==
  /\ ~Up /\ \/ fwPc \in {"poll", "copy", "end", "boot"}
            \/ fwPc = "chunk" /\ mem_offset = Size[sec]
  /\ Fail
  /\ UNCHANGED <<loopVars, regVars, pageVars, ddma, running, faults>>

(* kdev_init zeroes the flags; the next download starts from the top, and  *)
(* what an earlier one left in the memories does not count.                *)
FwBegin ==
  /\ fwPc' = "start" /\ running' = 0 /\ fwRet' = 0 /\ mem' = Empty
  /\ UNCHANGED <<loopVars, regVars, pageVars, acc, sts, mcufw, faults>>

FwStep ==
  \/ download_firmware \/ WritePage \/ Kick \/ Poll \/ iddma_download_firmware
  \/ check_fw_checksum \/ EndFlow \/ download_firmware_validate \/ FwLost

(* The call returns: its locals are gone, and so is what a failed download *)
(* left in the buffer and the memories of the chip.                        *)
FwReturn ==
  /\ fwPc = "done" /\ fwPc' = "idle"
  /\ sec' = 1 /\ mem_offset' = 0 /\ first_part' = 1
  /\ bckp' = [r \in SavedRegs |-> "run"] /\ pageBckp' = [r \in PageRegs |-> "run"]
  /\ page' = NoChunk /\ bcnValid' = 0 /\ acc' = 1 /\ sts' = 1
  /\ mem' = IF running = 1 THEN mem ELSE Empty
  /\ fwRet' = 0 /\ faults' = 0 /\ UNCHANGED <<reg, mcufw, running>>

(* Power that comes or goes resets the registers, the contents of the      *)
(* memories are lost, and a checksum begun before is worthless.            *)
(* REG_MCUFW_CTRL is taken to hold the most an earlier download can leave. *)
FwReset ==
  /\ reg' = Running /\ mem' = Empty /\ page' = NoChunk /\ bcnValid' = 0
  /\ acc' = 1 /\ sts' = 1 /\ mcufw' = Bits
  /\ UNCHANGED <<fwPc, loopVars, bckp, pageBckp, running, fwRet, faults>>

(* mac_init writes four of the saved registers again.                      *)
MacRegs == {"TXDMA_PQ_MAP", "CR", "FIFOPAGE_INFO_1", "RQPN_CTRL_2"}
mac_init ==
  /\ reg' = Written(MacRegs, "run")
  /\ UNCHANGED <<fwPc, loopVars, bckp, pageBckp, pageVars, ddma, mcufw, running, fwRet, faults>>
-----------------------------------------------------------------------------
(* A firmware that counts as running is in memory whole and undamaged:     *)
(* every unit of every section, whichever page was damaged and whatever an *)
(* earlier download left in REG_MCUFW_CTRL.                                *)
RunningIsWhole ==
  running = 1 /\ Up => \A s \in Sections : \A i \in 1 .. Size[s] : mem[s][i] = "ok"
=============================================================================
