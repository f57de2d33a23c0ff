---------------------------- MODULE DaemonProofs ----------------------------
(***************************************************************************)
(* Proofs about the control daemon, for any networks, any number of        *)
(* commands, crashes, faults and scan chunks.                              *)
(***************************************************************************)
EXTENDS Daemon, TLAPS

(* The radio switch in memory, in the flag file and the pause of           *)
(* auto-connect, also between the three stores of cmd_power.               *)
SwitchInv ==
  /\ g_radio_off \in {0, 1} /\ g_user_off \in {0, 1} /\ flag \in {0, 1}
  /\ pc \notin {"off2", "off3", "on2", "on3"} =>
       (g_radio_off = flag \/ unsaved = 1) /\ (g_radio_off = 1 => g_user_off = 1)
  /\ pc \in {"off2", "off3"} => g_radio_off = 1
  /\ pc = "off3" => g_user_off = 1
  /\ pc \in {"on2", "on3"} => g_radio_off = 0

(* cmd_scan holds the lock, and with no crash and one fault at most, a     *)
(* scan that the kext holds active is one that cmd_scan has begun and not  *)
(* ended, and past the last chunk the fault is spent.                      *)
ScanInv ==
  /\ faults \in Nat /\ crashes \in Nat /\ chunk \in Nat
  /\ kext_lock \in {"free", "main"}
  /\ kext_lock = "main" <=> pc = "chunks"
  /\ scanActive \in {0, 1}
  /\ pc = "chunks" /\ chunk < NChunks => ended = 0
  /\ crashes = 0 /\ faults < 2 /\ scanActive = 1 =>
       /\ pc = "chunks" /\ begun = 1 /\ ended = 0
       /\ chunk = NChunks => faults = 1

(* Both hold at the start.                                                 *)
LEMMA DaemonInit == Init => SwitchInv /\ ScanInv
  BY DaemonConstants DEF Init, SwitchInv, ScanInv

(* Every step keeps the switch consistent.                                 *)
LEMMA SwitchStep == SwitchInv /\ [Next]_vars => SwitchInv'
  <1>. SUFFICES ASSUME SwitchInv, [Next]_vars PROVE SwitchInv'
    OBVIOUS
  <1>. USE DEF SwitchInv, Goto, Command
  <1>1. ASSUME NEW s \in Ssids, cmd_connect(s) \/ cmd_forget(s) PROVE SwitchInv'
    BY <1>1 DEF cmd_connect, cmd_forget, diskVars, policy, mainVars
  <1>2. CASE cmd_disconnect \/ cmd_power_off1 \/ cmd_power_on1 \/ cmd_scan
    BY <1>2 DEF cmd_disconnect, cmd_power_off1, cmd_power_on1, cmd_scan, diskVars, policy
  <1>3. ASSUME NEW open \in BOOLEAN, NEW ok \in BOOLEAN, NEW nosave \in BOOLEAN,
               kconnect(open, ok, nosave)
        PROVE  SwitchInv'
    BY <1>3 DEF kconnect, policy, diskVars
  <1>4. CASE config_set_network
    BY <1>4 DEF config_set_network, policy, diskVars
  <1>5. ASSUME NEW ok \in BOOLEAN,
               config_save(ok) \/ kdisconnect(ok) \/ ScanChunk(ok) \/ ScanEnd(ok)
        PROVE  SwitchInv'
    BY <1>5 DEF config_save, kdisconnect, ScanChunk, ScanEnd, policy, diskVars, mainVars
  <1>6. CASE cmd_power_off2 \/ cmd_power_on2
    BY <1>6 DEF cmd_power_off2, cmd_power_on2, policy, diskVars
  <1>10. ASSUME NEW ok \in BOOLEAN, cmd_power_off3(ok) \/ cmd_power_on3(ok) PROVE SwitchInv'
    BY <1>10 DEF cmd_power_off3, cmd_power_on3, policy
  <1>7. CASE AutoStep
    BY <1>7 DEF AutoStep, AutoWake, AutoStatus, AutoScan, AutoPick, AutoCheck, AutoConnect,
         AutoFrame, policy, mainVars, diskVars
  <1>8. CASE Restart
    BY <1>8 DEF Restart, LoadState, diskVars
  <1>9. CASE UNCHANGED vars
    BY <1>9 DEF vars, policy, mainVars, diskVars
  <1>. QED BY <1>1, <1>2, <1>3, <1>4, <1>5, <1>6, <1>7, <1>8, <1>9, <1>10 DEF Next, MainStep

(* Every step keeps what is known of a streamed scan.                      *)
LEMMA ScanStep == ScanInv /\ [Next]_vars => ScanInv'
  <1>. SUFFICES ASSUME ScanInv, [Next]_vars PROVE ScanInv'
    OBVIOUS
  <1>. USE DaemonConstants DEF ScanInv, Goto, Command, counts, scanVars, kextVars
  <1>1. ASSUME NEW s \in Ssids, cmd_connect(s) \/ cmd_forget(s) PROVE ScanInv'
    BY <1>1 DEF cmd_connect, cmd_forget, mainVars
  <1>2. CASE cmd_disconnect \/ cmd_power_off1 \/ cmd_power_on1
    BY <1>2 DEF cmd_disconnect, cmd_power_off1, cmd_power_on1
  <1>3. CASE cmd_scan
    BY <1>3 DEF cmd_scan, KextFree
  <1>4. ASSUME NEW open \in BOOLEAN, NEW ok \in BOOLEAN, NEW nosave \in BOOLEAN,
               kconnect(open, ok, nosave)
        PROVE  ScanInv'
    BY <1>4 DEF kconnect, KextConnect, Outcome, KextFree
  <1>5. CASE config_set_network
    BY <1>5 DEF config_set_network
  <1>6. ASSUME NEW ok \in BOOLEAN, config_save(ok) \/ kdisconnect(ok) PROVE ScanInv'
    BY <1>6 DEF config_save, kdisconnect, KextDisconnect, Outcome, KextFree
  <1>7. ASSUME NEW ok \in BOOLEAN, ScanChunk(ok) PROVE ScanInv'
    <2>1. CASE ok
      BY <1>7, <2>1 DEF ScanChunk, Outcome, mainVars
    <2>2. CASE ~ok
      BY <1>7, <2>2 DEF ScanChunk, Outcome, mainVars
    <2>. QED BY <2>1, <2>2
  <1>8. ASSUME NEW ok \in BOOLEAN, ScanEnd(ok) PROVE ScanInv'
    BY <1>8 DEF ScanEnd, Outcome
  <1>9. CASE cmd_power_off2 \/ cmd_power_on2
    BY <1>9 DEF cmd_power_off2, cmd_power_on2
  <1>13. ASSUME NEW ok \in BOOLEAN, cmd_power_off3(ok) \/ cmd_power_on3(ok) PROVE ScanInv'
    BY <1>13 DEF cmd_power_off3, cmd_power_on3, Outcome
  <1>10. CASE AutoStep
    BY <1>10 DEF AutoStep, AutoWake, AutoStatus, AutoScan, AutoPick, AutoCheck, AutoConnect,
         AutoFrame, KextConnect, Outcome, KextFree, mainVars
  <1>11. CASE Restart
    BY <1>11 DEF Restart
  <1>12. CASE UNCHANGED vars
    BY <1>12 DEF vars, mainVars
  <1>. QED
    BY <1>1, <1>2, <1>3, <1>4, <1>5, <1>6, <1>7, <1>8, <1>9, <1>10, <1>11, <1>12, <1>13
       DEF Next, MainStep

(* The radio switch survives a crash between any two stores of cmd_power,  *)
(* unless the last cmd_power could not create or remove the flag file, and *)
(* a radio that is off keeps auto-connect paused, also then.               *)
THEOREM SwitchSurvives == Spec => []RadioSwitch
  <1>1. SwitchInv => RadioSwitch
    BY DEF SwitchInv, RadioSwitch
  <1>. QED BY DaemonInit, SwitchStep, <1>1, PTL DEF Spec

(* A streamed scan of any number of chunks is ended before cmd_scan gives  *)
(* the kext up, whichever single call of it fails.                         *)
THEOREM ScanEnds == Spec => []ScanQuiesced
  <1>1. ScanInv => ScanQuiesced
    BY DEF ScanInv, ScanQuiesced
  <1>. QED BY DaemonInit, ScanStep, <1>1, PTL DEF Spec
=============================================================================
