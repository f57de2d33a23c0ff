------------------------------- MODULE Daemon -------------------------------
(***************************************************************************)
(* rtwd, the control daemon: its accept loop, which runs one command of a  *)
(* client at a time, its auto-connect thread, the kext that both drive,    *)
(* and what outlives a crash of the daemon: the config file, the radio-off *)
(* flag file and the state of the kext.                                    *)
(*                                                                         *)
(* A kext operation runs under g_kext_lock and is one step, except that a  *)
(* streamed scan holds the lock across its chunks.  g_user_off and         *)
(* g_radio_off are plain variables that both threads read unlocked.        *)
(***************************************************************************)
EXTENDS Integers, FiniteSets

CONSTANTS
  Ssids,        \* the networks, all in range
  NoSsid,       \* no network
  MaxNets,      \* RTW88_MAX_NETWORKS
  NChunks,      \* the chunks of a streamed scan
  MaxCmds,      \* bound: commands that clients send
  MaxCrashes,   \* bound: crashes of the daemon
  MaxFaults     \* bound: calls that fail (rtw_hw_open, a connect, a scan
                \* chunk, config_save, the open or unlink of the flag file)

ASSUME DaemonConstants ==
  /\ NoSsid \notin Ssids /\ MaxNets \in Nat
  /\ NChunks \in Nat \ {0}
  /\ MaxCmds \in Nat /\ MaxCrashes \in Nat /\ MaxFaults \in Nat

VARIABLES
  g_user_off, g_radio_off,
  nets,           \* the SSIDs in g_cfg
  kext_lock,      \* the holder of g_kext_lock, or "free"
  pc, ssid,       \* the accept loop: what it does next, and for which network
  chunk, begun, ended,   \* the locals of cmd_scan, the flags 0 or 1
  apc, assid,     \* the auto-connect thread
  disk,           \* the SSIDs in the config file
  flag,           \* 1: the radio-off flag file exists
  unsaved,        \* history: 1 if the flag file did not take the last setting
  conn,           \* the network the kext reports, NoSsid when not connected
  scanActive,     \* g_scan_active of the kext, 0 or 1
  wish,           \* the latest command of a user that was carried out
  cmds, crashes, faults

policy   == <<g_user_off, g_radio_off>>
scanVars == <<chunk, begun, ended>>
mainVars == <<pc, ssid>>
autoVars == <<apc, assid>>
diskVars == <<disk, flag, unsaved>>
kextVars == <<conn, scanActive>>
counts   == <<cmds, crashes>>
vars == <<policy, nets, kext_lock, mainVars, scanVars, autoVars, diskVars,
          kextVars, wish, counts, faults>>

Init ==
  /\ disk \in {n \in SUBSET Ssids : Cardinality(n) <= MaxNets} /\ flag \in {0, 1} /\ unsaved = 0
  /\ g_user_off = flag /\ g_radio_off = flag /\ nets = disk
  /\ kext_lock = "free" /\ pc = "idle" /\ ssid = NoSsid
  /\ chunk = 0 /\ begun = 0 /\ ended = 0
  /\ apc = "sleep" /\ assid = NoSsid
  /\ conn = NoSsid /\ scanActive = 0
  /\ wish = IF flag = 1 THEN "off" ELSE "none"
  /\ cmds = 0 /\ crashes = 0 /\ faults = 0
-----------------------------------------------------------------------------
KextFree == kext_lock = "free"

(* A call works, or it fails while faults are left.                        *)
Outcome(works) ==
  /\ works \/ faults < MaxFaults
  /\ faults' = IF works THEN faults ELSE faults + 1

(* hw_kctl_connect takes any connection and any scan down first.           *)
KextConnect(s, ok) ==
  /\ conn' = IF ok THEN s ELSE NoSsid
  /\ scanActive' = 0

(* hw_kctl_disconnect leaves g_scan_active alone.                          *)
KextDisconnect ==
  /\ conn' = NoSsid
  /\ UNCHANGED scanActive
-----------------------------------------------------------------------------
(* A command line of a client.                                             *)
Command == pc = "idle" /\ cmds < MaxCmds /\ cmds' = cmds + 1 /\ UNCHANGED <<crashes, faults>>

Goto(l) == pc' = l

\* Mutant: an explicit connect re-arms auto-connect before the radio test.
cmd_connect_EarlyRearm(s) ==
  /\ Command
  /\ g_user_off' = 0
  /\ \/ g_radio_off = 1 /\ UNCHANGED mainVars
     \/ g_radio_off = 0 /\ Goto("kconnect") /\ ssid' = s
  /\ UNCHANGED <<g_radio_off, nets, kext_lock, scanVars, autoVars, diskVars, kextVars, wish>>

(* cmd_connect up to the kext call: refused while the radio is off.        *)
cmd_connect(s) ==
  /\ Command
  /\ \/ g_radio_off = 1 /\ UNCHANGED <<g_user_off, mainVars>>
     \/ g_radio_off = 0 /\ g_user_off' = 0 /\ Goto("kconnect") /\ ssid' = s
  /\ UNCHANGED <<g_radio_off, nets, kext_lock, scanVars, autoVars, diskVars, kextVars, wish>>

(* kconnect, for a client; nosave: do not remember the network.            *)
kconnect(open, ok, nosave) ==
  /\ pc = "kconnect" /\ KextFree /\ Outcome(open /\ ok)
  /\ \/ /\ open /\ KextConnect(ssid, ok)
        /\ Goto(IF ok /\ ~nosave THEN "set" ELSE "idle")
        /\ wish' = "connect"
     \/ ~open /\ Goto("idle") /\ UNCHANGED <<kextVars, wish>>
  /\ UNCHANGED <<policy, nets, kext_lock, ssid, scanVars, autoVars, diskVars, counts>>

(* config_set_network, unless the list is full.                            *)
config_set_network ==
  /\ pc = "set" /\ UNCHANGED faults
  /\ nets' = IF ssid \in nets \/ Cardinality(nets) < MaxNets THEN nets \cup {ssid} ELSE nets
  /\ Goto("save")
  /\ UNCHANGED <<policy, kext_lock, ssid, scanVars, autoVars, diskVars, kextVars, wish, counts>>

(* cmd_forget: config_forget_network.                                      *)
cmd_forget(s) ==
  /\ Command
  /\ nets' = nets \ {s}
  /\ Goto(IF s \in nets THEN "save" ELSE "idle")
  /\ UNCHANGED <<policy, kext_lock, ssid, scanVars, autoVars, diskVars, kextVars, wish>>

(* config_save: the rename replaces the file, or nothing changes.          *)
config_save(ok) ==
  /\ pc = "save" /\ Outcome(ok)
  /\ disk' = IF ok THEN nets ELSE disk
  /\ Goto("idle")
  /\ UNCHANGED <<policy, nets, kext_lock, ssid, scanVars, autoVars, flag, unsaved, kextVars, wish, counts>>

(* cmd_disconnect: the flag first, then the kext.                          *)
cmd_disconnect ==
  /\ Command
  /\ g_user_off' = 1
  /\ Goto("kdisc")
  /\ UNCHANGED <<g_radio_off, nets, kext_lock, ssid, scanVars, autoVars, diskVars, kextVars, wish>>

(* The kext call of cmd_disconnect and of power off.                       *)
kdisconnect(open) ==
  /\ pc = "kdisc" /\ KextFree /\ Outcome(open)
  /\ \/ open /\ KextDisconnect /\ wish' = IF g_radio_off = 1 THEN "off" ELSE "disconnect"
     \/ ~open /\ UNCHANGED <<kextVars, wish>>
  /\ Goto("idle")
  /\ UNCHANGED <<policy, nets, kext_lock, ssid, scanVars, autoVars, diskVars, counts>>

(* cmd_power: three stores each way, the third in the flag file, whose     *)
(* failure nobody looks at.  Off goes on to the kext.                      *)
cmd_power_off1 ==
  /\ Command
  /\ g_radio_off' = 1
  /\ Goto("off2")
  /\ UNCHANGED <<g_user_off, nets, kext_lock, ssid, scanVars, autoVars, diskVars, kextVars, wish>>

cmd_power_off2 ==
  /\ pc = "off2" /\ UNCHANGED faults
  /\ g_user_off' = 1
  /\ Goto("off3")
  /\ UNCHANGED <<g_radio_off, nets, kext_lock, ssid, scanVars, autoVars, diskVars, kextVars, wish, counts>>

cmd_power_off3(ok) ==
  /\ pc = "off3" /\ Outcome(ok)
  /\ \/ ok /\ flag' = 1 /\ unsaved' = 0
     \/ ~ok /\ unsaved' = 1 /\ UNCHANGED flag
  /\ Goto("kdisc")
  /\ UNCHANGED <<policy, nets, kext_lock, ssid, scanVars, autoVars, disk, kextVars, wish, counts>>

cmd_power_on1 ==
  /\ Command
  /\ g_radio_off' = 0
  /\ Goto("on2")
  /\ UNCHANGED <<g_user_off, nets, kext_lock, ssid, scanVars, autoVars, diskVars, kextVars, wish>>

cmd_power_on2 ==
  /\ pc = "on2" /\ UNCHANGED faults
  /\ g_user_off' = 0
  /\ Goto("on3")
  /\ UNCHANGED <<g_radio_off, nets, kext_lock, ssid, scanVars, autoVars, diskVars, kextVars, wish, counts>>

cmd_power_on3(ok) ==
  /\ pc = "on3" /\ Outcome(ok)
  /\ \/ ok /\ flag' = 0 /\ unsaved' = 0
     \/ ~ok /\ unsaved' = 1 /\ UNCHANGED flag
  /\ wish' = "on"
  /\ Goto("idle")
  /\ UNCHANGED <<policy, nets, kext_lock, ssid, scanVars, autoVars, disk, kextVars, counts>>
-----------------------------------------------------------------------------
(* cmd_scan takes g_kext_lock for the whole streamed scan.                 *)
cmd_scan ==
  /\ Command /\ g_radio_off = 0 /\ KextFree
  /\ kext_lock' = "main"
  /\ chunk' = 0 /\ begun' = 0 /\ ended' = 0
  /\ Goto("chunks")
  /\ UNCHANGED <<policy, nets, ssid, autoVars, diskVars, kextVars, wish>>

(* One hw_kctl_scan_chunk call of the loop: BEGIN with the first chunk     *)
(* takes any connection down, END with the last one ends the scan.         *)
ScanChunk(ok) ==
  /\ pc = "chunks" /\ chunk < NChunks /\ Outcome(ok)
  /\ chunk' = chunk + 1
  /\ \/ /\ ok
        /\ begun' = 1
        /\ ended' = IF chunk + 1 = NChunks THEN 1 ELSE ended
        /\ conn' = IF chunk = 0 THEN NoSsid ELSE conn
        /\ scanActive' = IF chunk + 1 = NChunks THEN 0
                         ELSE IF chunk = 0 THEN 1 ELSE scanActive
     \/ ~ok /\ UNCHANGED <<begun, ended, kextVars>>
  /\ UNCHANGED <<policy, nets, kext_lock, mainVars, autoVars, diskVars, wish, counts>>

\* Mutant: no explicit END after a failed last chunk.
ScanEnd_Never(ok) ==
  /\ pc = "chunks" /\ chunk = NChunks
  /\ ok /\ UNCHANGED faults
  /\ kext_lock' = "free" /\ Goto("idle")
  /\ UNCHANGED <<policy, nets, ssid, scanVars, autoVars, diskVars, kextVars, wish, counts>>

(* After the loop: an explicit END if the last chunk's call failed.        *)
ScanEnd(ok) ==
  /\ pc = "chunks" /\ chunk = NChunks
  /\ Outcome(ok)
  /\ \/ begun = 1 /\ ended = 0 /\ scanActive' = IF ok THEN 0 ELSE scanActive
     \/ ~(begun = 1 /\ ended = 0) /\ ok /\ UNCHANGED scanActive
  /\ kext_lock' = "free" /\ Goto("idle")
  /\ UNCHANGED <<policy, nets, ssid, scanVars, autoVars, diskVars, conn, wish, counts>>

MainStep ==
  \/ \E open, ok, nosave \in BOOLEAN : kconnect(open, ok, nosave)
  \/ config_set_network
  \/ \E ok \in BOOLEAN : config_save(ok) \/ kdisconnect(ok) \/ ScanChunk(ok) \/ ScanEnd(ok)
  \/ cmd_power_off2 \/ cmd_power_on2
  \/ \E ok \in BOOLEAN : cmd_power_off3(ok) \/ cmd_power_on3(ok)
-----------------------------------------------------------------------------
AutoFrame == UNCHANGED <<policy, nets, kext_lock, mainVars, scanVars, diskVars, wish, counts>>

\* Mutant: the thread looks only at the radio switch.
AutoWake_IgnoresUser ==
  /\ apc = "sleep" /\ UNCHANGED faults
  /\ g_radio_off = 0 /\ nets # {}
  /\ apc' = "status"
  /\ UNCHANGED <<assid, kextVars>> /\ AutoFrame

(* auto_connect_thread wakes up.                                           *)
AutoWake ==
  /\ apc = "sleep" /\ UNCHANGED faults
  /\ g_user_off = 0 /\ g_radio_off = 0 /\ nets # {}
  /\ apc' = "status"
  /\ UNCHANGED <<assid, kextVars>> /\ AutoFrame

\* Mutant: the kext's answer is taken the wrong way round.
AutoStatus_Inverted(open) ==
  /\ apc = "status" /\ KextFree /\ Outcome(open)
  /\ apc' = IF open /\ conn = NoSsid THEN "sleep" ELSE "scan"
  /\ UNCHANGED <<assid, kextVars>> /\ AutoFrame

(* Already connected?  Then sleep again.                                   *)
AutoStatus(open) ==
  /\ apc = "status" /\ KextFree /\ Outcome(open)
  /\ apc' = IF open /\ conn # NoSsid THEN "sleep" ELSE "scan"
  /\ UNCHANGED <<assid, kextVars>> /\ AutoFrame

(* hw_kctl_scan takes any connection and any streamed scan down.           *)
AutoScan(open) ==
  /\ apc = "scan" /\ KextFree /\ Outcome(open)
  /\ \/ /\ open
        /\ conn' = NoSsid /\ scanActive' = 0
        /\ apc' = "pick"
     \/ ~open /\ apc' = "sleep" /\ UNCHANGED kextVars
  /\ UNCHANGED assid /\ AutoFrame

(* Copy the strongest saved network out under g_cfg_lock.  Which one that  *)
(* is depends on the beacon counts.                                        *)
AutoPick(s) ==
  /\ apc = "pick" /\ UNCHANGED faults
  /\ \/ s \in nets /\ assid' = s /\ apc' = "check"
     \/ nets = {} /\ apc' = "sleep" /\ UNCHANGED assid
  /\ UNCHANGED kextVars /\ AutoFrame

(* The second look at g_user_off, and at nothing else.                     *)
AutoCheck ==
  /\ apc = "check" /\ UNCHANGED faults
  /\ apc' = IF g_user_off = 1 THEN "sleep" ELSE "kconnect"
  /\ UNCHANGED <<assid, kextVars>> /\ AutoFrame

AutoConnect(open, ok) ==
  /\ apc = "kconnect" /\ KextFree /\ Outcome(open /\ ok)
  /\ \/ open /\ KextConnect(assid, ok)
     \/ ~open /\ ~ok /\ UNCHANGED kextVars
  /\ apc' = "sleep"
  /\ UNCHANGED assid /\ AutoFrame

AutoStep ==
  \/ AutoWake
  \/ \E open \in BOOLEAN : AutoStatus(open) \/ AutoScan(open)
  \/ \E s \in Ssids : AutoPick(s)
  \/ AutoCheck
  \/ \E open, ok \in BOOLEAN : AutoConnect(open, ok)

(* rtwd_daemon_main loads the config file and the radio switch, which also *)
(* pauses auto-connect.                                                    *)
LoadState == nets' = disk /\ g_radio_off' = flag /\ g_user_off' = flag

(* The daemon dies and launchd starts it again.  The kext stays as it is.  *)
Restart ==
  /\ crashes < MaxCrashes /\ crashes' = crashes + 1
  /\ LoadState /\ unsaved' = 0
  /\ kext_lock' = "free" /\ pc' = "idle" /\ ssid' = NoSsid
  /\ chunk' = 0 /\ begun' = 0 /\ ended' = 0
  /\ apc' = "sleep" /\ assid' = NoSsid
  /\ UNCHANGED <<disk, flag, kextVars, wish, cmds, faults>>

Next ==
  \/ \E s \in Ssids : cmd_connect(s) \/ cmd_forget(s)
  \/ cmd_disconnect \/ cmd_power_off1 \/ cmd_power_on1 \/ cmd_scan
  \/ MainStep \/ AutoStep
  \/ Restart

Spec == Init /\ [][Next]_vars

(* Both threads are scheduled.                                             *)
FairSpec == Spec /\ WF_vars(MainStep) /\ WF_vars(AutoStep)
-----------------------------------------------------------------------------
(* Between commands the radio switch is the one on disk, also after a      *)
(* crash at any point of cmd_power, unless the flag file could not be      *)
(* created or removed by the last cmd_power, which reports success all the *)
(* same.  A radio that is off always has auto-connect paused, also after   *)
(* such a failure: the thread's second look tests only g_user_off.         *)
RadioSwitch ==
  pc = "idle" => /\ g_radio_off = flag \/ unsaved = 1
                 /\ g_radio_off = 1 => g_user_off = 1

(* A streamed scan never outlives cmd_scan, also if one call fails, the    *)
(* one that carries END included.                                          *)
ScanQuiesced == kext_lock = "free" /\ crashes = 0 /\ faults < 2 => scanActive = 0

(* The auto-connect thread works only for an armed daemon: once it is      *)
(* paused for good it comes to rest and touches the kext no more.          *)
PausedComesToRest ==
  <>[](g_user_off = 1) => <>[](apc = "sleep")

(* An armed daemon with saved networks connects in the end, whatever       *)
(* happened before.                                                        *)
ArmedConnects ==
  []<>(g_user_off = 1 \/ g_radio_off = 1 \/ nets = {} \/ conn # NoSsid)
-----------------------------------------------------------------------------
(* What a comment states and the code does not keep.                       *)

(* After a deliberate disconnect auto-connect does not join again.         *)
DisconnectSticks == pc = "idle" /\ wish = "disconnect" /\ g_user_off = 1 => conn = NoSsid
=============================================================================
