-------------------------------- MODULE Kctl --------------------------------
(***************************************************************************)
(* The in-kernel control plane of the RTL8821CE kext (server/kctl.c), the  *)
(* life cycle of a device instance (RTW88Server::start/stop), and the DMA  *)
(* state of the chip that both manipulate.                                 *)
(*                                                                         *)
(* Every control-plane selector runs under the fCtlLock of the instance it *)
(* was opened on: op[i] is the operation that holds the lock of instance i *)
(* ("none" when it is free) and stage[i] the next thing it does.  There is *)
(* one lock per instance, but kctl.c, trx.c and g_dev are static: a        *)
(* dispatcher that waited in ctlLock() across stop() works on whatever is  *)
(* published by then, concurrently with start() and with the operations of *)
(* the next instance.  Concurrent with them run the RX poll threads of the *)
(* published interfaces and those that stopData gave up waiting for.       *)
(***************************************************************************)
EXTENDS Integers

CONSTANTS
  Ops,       \* the control-plane operations that clients invoke
  Faults,    \* the faults that may happen: "stage" (a bring-up stage fails),
             \* "alloc" (an allocation fails), "datastart" (hw_data_start
             \* fails), "hang" (the RX thread outlives stopData's ceiling),
             \* "dead" (the device falls off the bus)
  MaxInst,   \* bound: number of device instances (start() calls)
  MaxHung    \* bound: no connect begins with this many abandoned RX threads

AllOps == {"connect", "scan", "begin", "chunk", "disconnect", "stop",
           "poweron", "bringup", "datastop"}

(* The selectors of the diagnostic tools: they take no data path down.     *)
DiagOps == {"poweron", "bringup", "datastop"}

ASSUME KctlConstants ==
  /\ Ops \subseteq AllOps
  /\ MaxInst \in Nat \ {0}
  /\ MaxHung \in Nat

Instances == 1 .. MaxInst

VARIABLES
  inst,            \* number of the latest published instance, 0 before any
  up,              \* the instance that clients can open, 0: none
  g_dev,           \* the published instance (g_dev and g_kmmio), 0: none
  mem,             \* mem[i]: instance i with its DMA pool and BAR mapping
  op, stage,       \* the holder of instance i's fCtlLock and where it is
  blocked,         \* an operation whose dispatcher waits in ctlLock()
  fEth,            \* fEth[i] = 1: an interface with a running RX thread
  eth,             \* eth[i]: the RX thread that the operation on lock i joins
  from,            \* from[i]: the instance that thread belongs to
  hung,            \* hung[i]: abandoned RX threads of instance i
  fDataStopClean,
  dead,            \* 1: the device does not answer any more
  busMaster,       \* PCI bus mastering, 0 or 1
  cr,              \* REG_CR, 0 or 1: the MAC's TRX DMA engines run
  rxBase, txBase,  \* the instance the ring base registers point into, 0: none
  trxOwner,        \* the instance trx.c's cached handles belong to;
                   \* 0 while g_trx_alloced = 0
  g_rx_ok,
  g_cur_connected,
  g_scan_active,
  mishaps          \* history: what happened that properties make exceptions of

lifeVars == <<inst, up, g_dev, mem>>
ctlVars  == <<op, stage, blocked>>
dataVars == <<fEth, eth, from, hung, fDataStopClean>>
devVars  == <<dead, busMaster, cr, rxBase, txBase>>
trxVars  == <<trxOwner, g_rx_ok>>
connVars == <<g_cur_connected, g_scan_active>>
vars == <<lifeVars, ctlVars, dataVars, devVars, trxVars, connVars, mishaps>>

Stages == {"idle", "deauth", "stopdata", "join", "halt", "enable", "power",
           "rings", "program", "sweep", "search", "assoc", "data",
           "release", "unpublish", "free", "spin"}

(* The three ways out of what the locks and the teardowns protect.         *)
(*   overlap:    operations of two instances, or an operation and start(), *)
(*               ran at the same time, or a dispatcher was left waiting    *)
(*               when start() failed and left its instance published       *)
(*   diagnostic: a diagnostic selector ran under the present connection    *)
(*   datastart:  hw_data_start failed and nothing was torn down since      *)
Mishaps == {"overlap", "diagnostic", "datastart"}

(* The types, and that a lock is held exactly while its operation is under *)
(* way.                                                                    *)
TypeOK ==
  /\ inst \in 0 .. MaxInst
  /\ up \in {0, inst}
  /\ g_dev \in {0, inst}
  /\ mem \in [Instances -> {"unused", "held", "freed"}]
  /\ op \in [Instances -> Ops \cup {"none"}]
  /\ stage \in [Instances -> Stages]
  /\ \A i \in Instances : op[i] = "none" <=> stage[i] = "idle"
  /\ blocked \in [Instances -> Ops \cup {"none"}]
  /\ fEth \in [Instances -> {0, 1}]
  /\ eth \in [Instances -> {"none", "stopping", "exited"}]
  /\ from \in [Instances -> 0 .. MaxInst]
  /\ hung \in [Instances -> Nat]
  /\ fDataStopClean \in [Instances -> {0, 1}]
  /\ dead \in {0, 1}
  /\ busMaster \in {0, 1}
  /\ cr \in {0, 1}
  /\ rxBase \in 0 .. MaxInst
  /\ txBase \in 0 .. MaxInst
  /\ trxOwner \in 0 .. MaxInst
  /\ g_rx_ok \in {0, 1}
  /\ g_cur_connected \in {0, 1}
  /\ g_scan_active \in {0, 1}
  /\ mishaps \subseteq Mishaps

Init ==
  /\ inst = 0 /\ up = 0 /\ g_dev = 0
  /\ mem = [i \in Instances |-> "unused"]
  /\ op = [i \in Instances |-> "none"]
  /\ stage = [i \in Instances |-> "idle"]
  /\ blocked = [i \in Instances |-> "none"]
  /\ fEth = [i \in Instances |-> 0]
  /\ eth = [i \in Instances |-> "none"]
  /\ from = [i \in Instances |-> 0]
  /\ hung = [i \in Instances |-> 0]
  /\ fDataStopClean = [i \in Instances |-> 1]
  /\ dead = 0 /\ busMaster = 0 /\ cr = 0 /\ rxBase = 0 /\ txBase = 0
  /\ trxOwner = 0 /\ g_rx_ok = 0
  /\ g_cur_connected = 0 /\ g_scan_active = 0
  /\ mishaps = {}

probed == g_dev # 0

(* Register accesses reach the chip.                                       *)
alive == probed /\ dead = 0

connected == g_cur_connected = 1

scanActive == g_scan_active = 1

Idle == \A i \in Instances : op[i] = "none"

Unless(m, ok) == IF ok THEN {} ELSE {m}
-----------------------------------------------------------------------------
\* Mutant: an operation that ends does not drop the lock.
Goto_NoUnlock(i, s) ==
  /\ stage' = [stage EXCEPT ![i] = s]
  /\ UNCHANGED <<op, blocked>>

(* The operation on lock i goes on to stage s; "idle" drops the lock.      *)
Goto(i, s) ==
  /\ stage' = [stage EXCEPT ![i] = s]
  /\ op' = [op EXCEPT ![i] = IF s = "idle" THEN "none" ELSE @]
  /\ UNCHANGED blocked

(* hw_power(mem, bm): a no-op once the device is unpublished.              *)
hw_power(bm) == busMaster' = IF alive THEN bm ELSE busMaster

(* trx_free halts DMA: RX ring length and base 0, REG_CR 0, bus mastering  *)
(* off.  The TX ring bases stay programmed.                                *)
trx_free ==
  /\ hw_power(0)
  /\ cr' = IF alive THEN 0 ELSE cr
  /\ rxBase' = IF alive THEN 0 ELSE rxBase
  /\ UNCHANGED <<dead, txBase>>

(* RTW88Server::start, which takes no lock: it turns bus mastering on and, *)
(* unless the BAR cannot be mapped ("nobar"), publishes a new instance.    *)
(* When a lock cannot be allocated ("nolock") it fails with the instance   *)
(* published, though no client can open it and the object goes away.       *)
Start(r) ==
  /\ up = 0 /\ inst < MaxInst
  /\ r # "ok" => "alloc" \in Faults
  /\ dead' = 0 /\ busMaster' = 1
  /\ \/ r = "nobar" /\ UNCHANGED lifeVars
     \/ /\ r # "nobar"
        /\ inst' = inst + 1
        /\ g_dev' = inst + 1
        /\ up' = IF r = "ok" THEN inst + 1 ELSE 0
        /\ mem' = [mem EXCEPT ![inst + 1] = IF r = "ok" THEN "held" ELSE "freed"]
  /\ mishaps' = mishaps \cup
       Unless("overlap",
              Idle /\ (r = "nolock" => \A i \in Instances : blocked[i] = "none"))
  /\ UNCHANGED <<ctlVars, dataVars, cr, rxBase, txBase, trxVars, connVars>>

\* Mutant: a streamed scan does not tear the previous connection down.
FirstStage_ScanInPlace(o) ==
  CASE o = "disconnect" -> "deauth"
    [] o \in {"poweron", "bringup"} -> "power"
    [] o = "begin" -> "enable"
    [] o = "chunk" -> "sweep"
    [] OTHER -> "stopdata"

FirstStage(o) ==
  CASE o = "disconnect" -> "deauth"
    [] o \in {"poweron", "bringup"} -> "power"
    [] o = "chunk" -> "sweep"
    [] OTHER -> "stopdata"

(* A dispatcher enters ctlLock() while an operation is in progress.  It    *)
(* has read its owner pointer already, so it runs even if the operation it *)
(* waits for is stop().                                                    *)
Block(i, o) ==
  /\ up = i /\ op[i] # "none" /\ blocked[i] = "none" /\ o # "stop"
  /\ blocked' = [blocked EXCEPT ![i] = o]
  /\ UNCHANGED <<lifeVars, op, stage, dataVars, devVars, trxVars, connVars, mishaps>>

(* An operation takes the fCtlLock of its instance, and looks no further:  *)
(* not at whether the instance was stopped, nor at other instances' locks. *)
Begin(i, o) ==
  /\ op[i] = "none"
  /\ up = i \/ blocked[i] = o
  /\ o = "connect" /\ probed => hung[inst] < MaxHung
  /\ op' = [op EXCEPT ![i] = o]
  /\ stage' = [stage EXCEPT ![i] = FirstStage(o)]
  /\ blocked' = [blocked EXCEPT ![i] = IF @ = o THEN "none" ELSE @]
  /\ mishaps' = mishaps \cup Unless("overlap", Idle)
                        \cup Unless("diagnostic", ~(connected /\ o \in DiagOps))
  /\ UNCHANGED <<lifeVars, dataVars, devVars, trxVars, connVars>>

(* rtw_kctl_disconnect's deauthentication frame: sent on the MGMT ring     *)
(* through trx.c's packet buffer when connected; no state changes.         *)
Deauth(i) ==
  /\ stage[i] = "deauth"
  /\ Goto(i, "stopdata")
  /\ UNCHANGED <<lifeVars, dataVars, devVars, trxVars, connVars, mishaps>>
-----------------------------------------------------------------------------
AfterStop(o) == IF o = "datastop" THEN "idle" ELSE "halt"

(* Whose interface dataStop takes down: stop() and the data-stop selector  *)
(* call their own instance, the control plane the published one.           *)
Target(i) == IF op[i] \in {"stop", "datastop"} THEN i ELSE g_dev

HasEth(t) == t # 0 /\ fEth[t] = 1

(* dataStop: take the interface down and tell its RX thread to stop.       *)
DataStop(i) ==
  /\ stage[i] = "stopdata"
  /\ \/ /\ HasEth(Target(i))
        /\ fEth' = [fEth EXCEPT ![Target(i)] = 0]
        /\ eth' = [eth EXCEPT ![i] = "stopping"]
        /\ from' = [from EXCEPT ![i] = Target(i)]
        /\ Goto(i, "join")
     \/ /\ ~HasEth(Target(i))
        /\ Goto(i, AfterStop(op[i]))
        /\ UNCHANGED <<fEth, eth, from>>
  /\ UNCHANGED <<lifeVars, hung, fDataStopClean, devVars, trxVars, connVars, mishaps>>

(* stopData saw fRxDone within its ceiling: a clean stop.                  *)
Join(i) ==
  /\ stage[i] = "join" /\ eth[i] = "exited"
  /\ eth' = [eth EXCEPT ![i] = "none"]
  /\ from' = [from EXCEPT ![i] = 0]
  /\ Goto(i, AfterStop(op[i]))
  /\ UNCHANGED <<lifeVars, fEth, hung, fDataStopClean, devVars, trxVars, connVars,
                 mishaps>>

\* Mutant: stopData waits for the RX thread without a ceiling.
JoinTimeout_Never(i) == FALSE /\ i = i

(* The ceiling passed: the thread is abandoned, and remembered for stop(). *)
JoinTimeout(i) ==
  /\ "hang" \in Faults
  /\ stage[i] = "join" /\ eth[i] = "stopping"
  /\ eth' = [eth EXCEPT ![i] = "none"]
  /\ from' = [from EXCEPT ![i] = 0]
  /\ hung' = [hung EXCEPT ![from[i]] = @ + 1]
  /\ fDataStopClean' = [fDataStopClean EXCEPT ![from[i]] = 0]
  /\ Goto(i, AfterStop(op[i]))
  /\ UNCHANGED <<lifeVars, fEth, devVars, trxVars, connVars, mishaps>>

(* The RX thread leaves rxLoop after it sees fRxStop.                      *)
RxExit(i) ==
  /\ eth[i] = "stopping"
  /\ eth' = [eth EXCEPT ![i] = "exited"]
  /\ UNCHANGED <<lifeVars, ctlVars, fEth, from, hung, fDataStopClean,
                 devVars, trxVars, connVars, mishaps>>

(* An abandoned RX thread leaves rxLoop at last.                           *)
HungExit(i) ==
  /\ hung[i] > 0
  /\ hung' = [hung EXCEPT ![i] = @ - 1]
  /\ UNCHANGED <<lifeVars, ctlVars, fEth, eth, from, fDataStopClean,
                 devVars, trxVars, connVars, mishaps>>

HaltTo(o) ==
  CASE o = "disconnect" -> "idle" [] o = "stop" -> "unpublish" [] OTHER -> "enable"

(* The mishaps that a teardown makes good.                                 *)
Healed == mishaps \ {"diagnostic", "datastart"}

\* Mutant: only disconnect and stop clear g_cur_connected.
Halt_StaleConnected(i) ==
  /\ stage[i] = "halt"
  /\ trx_free
  /\ g_cur_connected' = IF op[i] \in {"disconnect", "stop"} THEN 0 ELSE g_cur_connected
  /\ g_scan_active' = IF op[i] = "disconnect" THEN g_scan_active ELSE 0
  /\ mishaps' = Healed
  /\ Goto(i, HaltTo(op[i]))
  /\ UNCHANGED <<lifeVars, dataVars, trxVars>>

\* Mutant: a connect does not clear g_scan_active.
Halt_StaleScan(i) ==
  /\ stage[i] = "halt"
  /\ trx_free
  /\ g_cur_connected' = 0
  /\ g_scan_active' = IF op[i] \in {"disconnect", "connect"} THEN g_scan_active ELSE 0
  /\ mishaps' = Healed
  /\ Goto(i, HaltTo(op[i]))
  /\ UNCHANGED <<lifeVars, dataVars, trxVars>>

\* Mutant: stop() leaves the chip running.
Halt_StopRunning(i) ==
  /\ stage[i] = "halt"
  /\ IF op[i] = "stop" THEN UNCHANGED devVars ELSE trx_free
  /\ g_cur_connected' = 0
  /\ g_scan_active' = IF op[i] = "disconnect" THEN g_scan_active ELSE 0
  /\ mishaps' = Healed
  /\ Goto(i, HaltTo(op[i]))
  /\ UNCHANGED <<lifeVars, dataVars, trxVars>>

(* trx_free after the data path stopped, with the flags each operation     *)
(* clears.                                                                 *)
Halt(i) ==
  /\ stage[i] = "halt"
  /\ trx_free
  /\ g_cur_connected' = 0
  /\ g_scan_active' = IF op[i] = "disconnect" THEN g_scan_active ELSE 0
  /\ mishaps' = Healed
  /\ Goto(i, HaltTo(op[i]))
  /\ UNCHANGED <<lifeVars, dataVars, trxVars>>

(* The operations in a loop that reads the RX ring up to the chip's index, *)
(* with a read pointer that they took from it.                             *)
Receiving ==
  {j \in Instances : /\ stage[j] \in {"sweep", "search", "assoc"}
                     /\ op[j] = "chunk" => scanActive
                     /\ alive /\ g_rx_ok = 1}

(* The device is gone for those in S while they look at the ring: the      *)
(* index reads all ones, which no read pointer ever meets.                 *)
Spin(st, S) == [j \in Instances |-> IF j \in S THEN "spin" ELSE st[j]]

(* stop() unpublishes the device.                                          *)
Unpublish(i) ==
  /\ stage[i] = "unpublish"
  /\ g_dev' = 0
  /\ \E S \in SUBSET Receiving : stage' = [Spin(stage, S) EXCEPT ![i] = "free"]
  /\ UNCHANGED <<inst, up, mem, op, blocked, dataVars, devVars, trxVars, connVars,
                 mishaps>>

(* The device falls off the bus, taking its DMA engines with it.           *)
Die ==
  /\ "dead" \in Faults /\ alive
  /\ dead' = 1
  /\ busMaster' = 0 /\ cr' = 0 /\ rxBase' = 0 /\ txBase' = 0
  /\ \E S \in SUBSET Receiving : stage' = Spin(stage, S)
  /\ UNCHANGED <<lifeVars, op, blocked, dataVars, trxVars, connVars, mishaps>>

\* Mutant: stop() releases the memory whether or not the RX thread exited.
Free_Always(i) ==
  /\ stage[i] = "free"
  /\ mem' = [mem EXCEPT ![i] = "freed"]
  /\ trxOwner' = 0 /\ g_rx_ok' = 0
  /\ up' = 0
  /\ Goto(i, "idle")
  /\ UNCHANGED <<inst, g_dev, dataVars, devVars, connVars, mishaps>>

(* The end of stop(): release the DMA pool and the BAR mapping and reset   *)
(* trx.c, unless an RX thread may still use them.                          *)
Free(i) ==
  /\ stage[i] = "free"
  /\ \/ /\ fDataStopClean[i] = 1
        /\ mem' = [mem EXCEPT ![i] = "freed"]
        /\ trxOwner' = 0 /\ g_rx_ok' = 0
     \/ /\ fDataStopClean[i] = 0
        /\ UNCHANGED <<mem, trxVars>>
  /\ up' = 0
  /\ Goto(i, "idle")
  /\ UNCHANGED <<inst, g_dev, dataVars, devVars, connVars, mishaps>>
-----------------------------------------------------------------------------
(* hw_power(1, 1) before the bring-up.                                     *)
Enable(i) ==
  /\ stage[i] = "enable"
  /\ hw_power(1)
  /\ Goto(i, "power")
  /\ UNCHANGED <<lifeVars, dataVars, dead, cr, rxBase, txBase, trxVars, connVars,
                 mishaps>>

(* rtw_mac_power_on resets the MAC.  Only connect looks at the result.     *)
PowerOn(i, ok) ==
  /\ stage[i] = "power"
  /\ ok \/ "stage" \in Faults \/ ~alive
  /\ \/ ok /\ cr' = IF alive THEN 0 ELSE cr
     \/ ~ok /\ cr' \in IF alive THEN {cr, 0} ELSE {cr}
  /\ Goto(i, CASE op[i] = "poweron" -> "idle"
               [] op[i] = "connect" /\ ~ok -> "release"
               [] OTHER -> "rings")
  /\ UNCHANGED <<lifeVars, dataVars, dead, busMaster, rxBase, txBase, trxVars,
                 connVars, mishaps>>

(* regWriteDma arms a ring base register from a DMA handle; a handle that  *)
(* is not of the instance's own table is refused and the base stays.       *)
regWriteDma(owner, base) == IF alive /\ owner = inst THEN inst ELSE base

(* What trx_init's allocations can leave: everything, no RX ring, or not   *)
(* even the TX ring with its packet buffer and pool.                       *)
AllocResults ==
  IF ~probed THEN {"none"}
  ELSE IF "alloc" \in Faults THEN {"full", "txonly", "none"}
  ELSE {"full"}

(* trx_init: allocate once, then trx_reset programs the ring registers.    *)
(* A handle of another instance does not resolve and its register write is *)
(* silently dropped.  Only connect looks at the result.                    *)
Rings(i, r) ==
  /\ stage[i] = "rings"
  /\ IF trxOwner # 0 THEN r = "full" ELSE r \in AllocResults
  /\ trxOwner' = IF trxOwner = 0 /\ r \in {"full", "txonly"} THEN inst ELSE trxOwner
  /\ g_rx_ok' = CASE trxOwner # 0 -> g_rx_ok
                  [] trxOwner = 0 /\ r = "full" -> 1
                  [] trxOwner = 0 /\ r = "txonly" -> 0
                  [] OTHER -> g_rx_ok
  /\ txBase' = regWriteDma(trxOwner', txBase)
  /\ rxBase' = IF g_rx_ok' = 1 THEN regWriteDma(trxOwner', rxBase) ELSE rxBase
  /\ Goto(i, IF op[i] = "connect" /\ trxOwner' = 0 THEN "release" ELSE "program")
  /\ UNCHANGED <<lifeVars, dataVars, dead, busMaster, cr, connVars, mishaps>>

(* mac_init turns the MAC's DMA engines on (MAC_TRX_ENABLE); its other     *)
(* registers are chip configuration.                                       *)
mac_init == cr' = 1

(* The chip can fetch the firmware only through a live TX ring.            *)
TxWorks == alive /\ busMaster = 1 /\ txBase = inst

(* download_firmware, mac_init (which enables REG_CR), efuse_read,         *)
(* phy_set_param, fw_handshake and coex_wifi_antenna.  Only connect looks  *)
(* at the results.                                                         *)
Program(i, ok) ==
  /\ stage[i] = "program"
  /\ IF ok THEN TxWorks ELSE "stage" \in Faults \/ ~TxWorks
  /\ \/ ok /\ mac_init
     \/ ~ok /\ cr' \in IF alive THEN {cr, 1} ELSE {cr}
  /\ g_scan_active' = IF op[i] = "begin" THEN 1 ELSE g_scan_active
  /\ Goto(i, CASE op[i] = "bringup" -> "release"
               [] op[i] = "connect" -> IF ok THEN "search" ELSE "release"
               [] OTHER -> "sweep")
  /\ UNCHANGED <<lifeVars, dataVars, dead, busMaster, rxBase, txBase, trxVars,
                 g_cur_connected, mishaps>>

(* scan_networks returns: for a scan, and for each chunk of a streamed     *)
(* scan that is active; end is the chunk's RTW_SCAN_F_END flag.  When the  *)
(* device goes in the middle it does not return (Die).                     *)
Sweep(i, end) ==
  /\ stage[i] = "sweep"
  /\ Goto(i, IF op[i] = "scan" \/ (end /\ scanActive) THEN "release" ELSE "idle")
  /\ UNCHANGED <<lifeVars, dataVars, devVars, trxVars, connVars, mishaps>>

(* The chip can receive: what a scan result or an association needs.       *)
RxWorks == TxWorks /\ cr = 1 /\ rxBase = inst

(* scan_networks and find_by_ssid: found or not.  A network may have been  *)
(* found before the device went.                                           *)
Search(i, found) ==
  /\ stage[i] = "search"
  /\ found => RxWorks \/ dead = 1
  /\ Goto(i, IF found THEN "assoc" ELSE "release")
  /\ UNCHANGED <<lifeVars, dataVars, devVars, trxVars, connVars, mishaps>>

(* associate returns, with the 4-way handshake: ok is associated && wpa.   *)
(* When the device goes while it waits for a frame it does not (Die).      *)
Associate(i, ok) ==
  /\ stage[i] = "assoc"
  /\ Goto(i, IF ok THEN "data" ELSE "release")
  /\ UNCHANGED <<lifeVars, dataVars, devVars, trxVars, connVars, mishaps>>

(* dataStart refuses a second interface, and startData a ring handle that  *)
(* is not one of this instance.                                            *)
CanStartData == probed /\ fEth[inst] = 0 /\ trxOwner = inst /\ g_rx_ok = 1

(* hw_data_start resolves the ring handles in the published instance,      *)
(* publishes the interface and starts its RX thread; a failure is only     *)
(* logged.                                                                 *)
DataStart(i, ok) ==
  /\ stage[i] = "data"
  /\ IF ok THEN CanStartData ELSE "datastart" \in Faults \/ ~CanStartData
  /\ fEth' = IF ok THEN [fEth EXCEPT ![inst] = 1] ELSE fEth
  /\ g_cur_connected' = IF ok THEN 1 ELSE g_cur_connected
  /\ mishaps' = mishaps \cup Unless("datastart", ok)
  /\ Goto(i, "idle")
  /\ UNCHANGED <<lifeVars, eth, from, hung, fDataStopClean, devVars, trxVars,
                 g_scan_active>>

(* trx_free at the end of an operation that leaves no connection.          *)
Release(i) ==
  /\ stage[i] = "release"
  /\ trx_free
  /\ g_scan_active' = IF op[i] \in {"begin", "chunk"} THEN 0 ELSE g_scan_active
  /\ Goto(i, "idle")
  /\ UNCHANGED <<lifeVars, dataVars, trxVars, g_cur_connected, mishaps>>
-----------------------------------------------------------------------------
(* A step of the operation that holds the fCtlLock of instance i.          *)
Step(i) ==
  \/ Deauth(i) \/ DataStop(i) \/ Join(i) \/ JoinTimeout(i) \/ Halt(i)
  \/ Unpublish(i) \/ Free(i) \/ Enable(i) \/ Release(i)
  \/ \E ok \in BOOLEAN : \/ PowerOn(i, ok) \/ Program(i, ok)
                         \/ Associate(i, ok) \/ DataStart(i, ok)
  \/ \E r \in {"full", "txonly", "none"} : Rings(i, r)
  \/ \E end \in BOOLEAN : Sweep(i, end)
  \/ \E found \in BOOLEAN : Search(i, found)

Next ==
  \/ \E r \in {"ok", "nolock", "nobar"} : Start(r)
  \/ Die
  \/ \E i \in Instances :
       \/ \E o \in Ops : Block(i, o) \/ Begin(i, o)
       \/ Step(i)
       \/ RxExit(i)
       \/ HungExit(i)

Spec == Init /\ [][Next]_vars

(* The kernel schedules the thread that runs an operation; nothing is      *)
(* assumed of the RX thread.                                               *)
FairSpec == Spec /\ \A i \in Instances : WF_vars(Step(i))
-----------------------------------------------------------------------------
Serial == "overlap" \notin mishaps

(* The device is running for a published interface.                        *)
DataPathLive ==
  /\ probed /\ fEth[inst] = 1
  /\ busMaster = 1 /\ cr = 1 /\ rxBase = inst /\ txBase = inst
  /\ trxOwner = inst /\ g_rx_ok = 1 /\ mem[inst] = "held"

(* "Connected", the state rtw_kctl_status reports, means that the data     *)
(* path runs; it may be stale only inside the operation that tears it      *)
(* down.  In particular the deauthentication frame of a disconnect never   *)
(* goes through released buffers.  Nothing notices a device that fell off  *)
(* the bus; and the diagnostic selectors stop a data path behind its back. *)
ConnectedIsLive ==
  Serial /\ "diagnostic" \notin mishaps /\ connected =>
    \/ DataPathLive
    \/ dead = 1
    \/ \E i \in Instances : stage[i] \in {"join", "halt"}

(* There is an RX thread of instance i, also one that stopData waits for   *)
(* or gave up waiting for.                                                 *)
HasThread(i) ==
  \/ fEth[i] = 1 \/ hung[i] > 0
  \/ \E j \in Instances : eth[j] # "none" /\ from[j] = i

(* An RX thread never runs over a DMA pool or BAR mapping that stop()      *)
(* released, as long as operations of two instances do not overlap.        *)
NoUseAfterFree ==
  Serial => \A i \in Instances : HasThread(i) => mem[i] = "held"

(* A streamed scan and a connection exclude each other, so the END of one  *)
(* client's scan never halts the DMA of another client's connection.       *)
ScanExcludesConnection == Serial => ~(scanActive /\ connected)

(* The chip cannot write memory that nobody watches: a connect or a scan   *)
(* never resets the MAC under a live data path (no RX thread is running,   *)
(* the RX ring is detached and the DMA engines are stopped), and with no   *)
(* connection and no streamed scan a free control plane leaves the chip    *)
(* unable to write, but after a hw_data_start that failed.                 *)
ChipIsQuiet ==
  Serial =>
    /\ \A i \in Instances :
         stage[i] = "power" /\ op[i] \notin DiagOps =>
           fEth[inst] = 0 /\ eth[i] = "none" /\ rxBase = 0 /\ cr = 0
    /\ Idle /\ ~connected /\ ~scanActive /\ "datastart" \notin mishaps
         => ~(busMaster = 1 /\ cr = 1)

(* DMA memory is released only when the chip can no longer reach it and    *)
(* no RX thread of its instance is left.                                   *)
FreeOnlyWhenQuiet ==
  [][\A i \in Instances :
       Serial /\ mem[i] = "held" /\ mem'[i] = "freed" =>
         busMaster = 0 /\ cr = 0 /\ rxBase # i /\ ~HasThread(i)]_vars

(* Every control-plane operation finishes, whatever the RX thread does and *)
(* whichever instances overlap, unless the device goes while it is in a    *)
(* loop that follows the chip's index.                                     *)
OpsFinish ==
  \A i \in Instances : op[i] # "none" ~> (op[i] = "none" \/ stage[i] = "spin")
-----------------------------------------------------------------------------
(* What a comment of the code states and the code does not keep.           *)

(* trx.c's cached handles never belong to an earlier instance.             *)
RingsAreCurrent == probed /\ trxOwner # 0 => trxOwner = inst
=============================================================================
