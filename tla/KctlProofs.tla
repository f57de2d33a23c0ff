----------------------------- MODULE KctlProofs -----------------------------
(***************************************************************************)
(* Machine-checked proofs about Kctl, for every set of operations that     *)
(* clients invoke, every set of faults and any number of instances.        *)
(***************************************************************************)
EXTENDS Kctl, TLAPS

(* At most one operation is in progress.                                   *)
OneOp == \A i, j \in Instances : op[i] # "none" /\ op[j] # "none" => i = j

(* Who is published: a started instance holds its memory, and is published *)
(* until stop() gets to its end; an instance that was published without    *)
(* having started has nobody to work on it.                                *)
InstanceInv ==
  /\ up # 0 => mem[up] = "held" /\ (probed \/ stage[up] = "free")
  /\ up = 0 /\ probed => Idle /\ \A i \in Instances : blocked[i] = "none"
  /\ \A i \in Instances : i > inst => /\ mem[i] = "unused" /\ hung[i] = 0
                                         /\ op[i] = "none" /\ blocked[i] = "none"

(* Where an operation can be, and the RX threads with it.                  *)
ControlAt(i) ==
  /\ blocked[i] # "stop"
  /\ op[i] = "stop" => i = up
  /\ stage[i] \in {"unpublish", "free"} => op[i] = "stop"
  /\ stage[i] = "free" => ~probed
  /\ fEth[i] = 1 => i = up /\ probed
  /\ eth[i] # "none" <=> stage[i] = "join"
  /\ stage[i] = "join" => from[i] = up /\ up # 0 /\ probed
  /\ stage[i] \in {"join", "halt", "unpublish", "free"} => \A j \in Instances : fEth[j] = 0

ControlInv == \A i \in Instances : ControlAt(i)

(* Abandoned threads keep the memory of their instance from being freed.   *)
HungInv ==
  \A i \in Instances : hung[i] > 0 => mem[i] = "held" /\ fDataStopClean[i] = 0

(* The stages between the teardown of a connect or a scan and its end.     *)
Bringup == {"enable", "power", "rings", "program", "sweep", "search", "assoc",
            "data", "release"}

(* The operations that tear down what was there before they bring up.      *)
FreshOps == {"connect", "scan", "begin"}

(* Which operations come to which stages.                                  *)
PathAt(i) ==
  /\ stage[i] \in {"enable", "power", "rings", "program"} =>
       op[i] \in FreshOps \cup {"poweron", "bringup"}
  /\ stage[i] = "enable" => op[i] \in FreshOps
  /\ stage[i] = "sweep" => op[i] \in {"scan", "begin", "chunk"}
  /\ stage[i] \in {"search", "assoc", "data"} => op[i] = "connect"
  /\ op[i] = "poweron" => stage[i] = "power"
  /\ op[i] = "bringup" => stage[i] \in {"power", "rings", "program", "release"}
  /\ op[i] = "datastop" => stage[i] \in {"stopdata", "join"}
  /\ op[i] = "chunk" => stage[i] \in {"sweep", "release", "spin"}

PathInv == \A i \in Instances : PathAt(i)

(* A bring-up runs without a connection, and a connect's without a         *)
(* streamed scan.                                                          *)
ScanInv ==
  /\ ~(scanActive /\ connected)
  /\ \A i \in Instances :
       /\ stage[i] \in Bringup /\ op[i] \in FreshOps => ~connected
       /\ stage[i] \in Bringup /\ op[i] = "connect" => ~scanActive

(* A device that is unpublished, dead or whose stop() is past trx_free is  *)
(* off, and an armed RX ring is the ring of the published instance.        *)
OffInv ==
  /\ ~probed \/ up = 0 \/ dead = 1 => cr = 0 /\ rxBase = 0
  /\ dead = 1 => busMaster = 0
  /\ \A i \in Instances :
       stage[i] \in {"unpublish", "free"} => busMaster = 0 /\ cr = 0 /\ rxBase = 0
  /\ rxBase # 0 => rxBase = inst /\ trxOwner = inst /\ g_rx_ok = 1

(* The stages that are reached without the connection having been closed.  *)
ConnInv ==
  connected =>
    /\ probed /\ up # 0
    /\ \A i \in Instances :
         \/ stage[i] \in {"idle", "deauth", "stopdata", "join", "halt", "spin"}
         \/ op[i] \in DiagOps
         \/ op[i] = "chunk" /\ stage[i] = "sweep"

(* A connection has a running chip below it, until its teardown gets to    *)
(* trx_free.                                                               *)
LiveInv ==
  connected /\ dead = 0 /\ "diagnostic" \notin mishaps =>
    /\ busMaster = 1 /\ cr = 1 /\ rxBase = inst /\ txBase = inst
    /\ \A i \in Instances : op[i] \notin DiagOps
    /\ fEth[inst] = 1 \/ \E i \in Instances : stage[i] \in {"join", "halt"}

(* What associate was done with is still there at hw_data_start.           *)
AssocInv ==
  \A i \in Instances : stage[i] \in {"assoc", "data"} => RxWorks \/ dead = 1

(* A bring-up starts from a halted chip with no RX thread.                 *)
FreshAt(i) ==
  /\ stage[i] \in Bringup /\ op[i] \in FreshOps => fEth[inst] = 0
  /\ stage[i] \in {"enable", "power"} /\ op[i] \in FreshOps => rxBase = 0 /\ cr = 0
  /\ stage[i] = "sweep" /\ op[i] = "begin" => scanActive

FreshInv == \A i \in Instances : FreshAt(i)

(* The operation on lock i may have the chip running on its own account.   *)
Using(i) ==
  /\ stage[i] \in Bringup
  /\ op[i] # "poweron"
  /\ op[i] = "chunk" => stage[i] = "release"

(* A chip that runs has a connection, a streamed scan, a bring-up or a     *)
(* failed data start to account for it.                                    *)
QuietInv ==
  ~connected /\ ~scanActive /\ "datastart" \notin mishaps
    /\ (\A i \in Instances : ~Using(i)) => ~(busMaster = 1 /\ cr = 1)

(* What holds while operations of different instances do not overlap.      *)
SerialInv ==
  /\ OneOp /\ InstanceInv /\ ControlInv /\ HungInv /\ PathInv /\ ScanInv /\ OffInv
  /\ ConnInv /\ LiveInv /\ AssocInv /\ FreshInv /\ QuietInv

IInv == TypeOK /\ (Serial => SerialInv)

(* Counting one entry of a table of counters up or down.                   *)
LEMMA CountStep ==
  ASSUME NEW S, NEW f \in [S -> Nat], NEW x
  PROVE  /\ [f EXCEPT ![x] = f[x] + 1] \in [S -> Nat]
         /\ x \in S /\ f[x] > 0 => [f EXCEPT ![x] = f[x] - 1] \in [S -> Nat]
<1>1. CASE x \in S
  <2>1. f[x] \in Nat
    BY <1>1
  <2>2. f[x] + 1 \in Nat /\ (f[x] > 0 => f[x] - 1 \in Nat)
    BY <2>1
  <2> QED BY <2>2
<1>2. CASE x \notin S
  <2>1. [f EXCEPT ![x] = f[x] + 1] = f
    BY <1>2
  <2> QED BY <1>2, <2>1
<1> QED BY <1>1, <1>2

(* Every initial state of the control plane satisfies the invariant.       *)
LEMMA InitInv == Init => IInv
  BY KctlConstants DEF Init, IInv, SerialInv, TypeOK, probed, connected, scanActive, Idle,
     Instances,
     OneOp, InstanceInv, ControlInv, HungInv, ScanInv, OffInv, ConnInv, LiveInv, AssocInv,
     FreshInv, FreshAt, PathInv, PathAt, QuietInv, ControlAt, Using, Bringup, Stages

(* A step of an operation to another stage keeps the types of the locks.   *)
LEMMA GotoTypes ==
  ASSUME TypeOK, NEW i \in Instances, stage[i] # "idle", NEW s \in Stages, Goto(i, s)
  PROVE  /\ op' \in [Instances -> Ops \cup {"none"}]
         /\ stage' \in [Instances -> Stages]
         /\ \A j \in Instances : op'[j] = "none" <=> stage'[j] = "idle"
         /\ blocked' = blocked
  BY DEF TypeOK, Goto

(* A step of an operation to another stage, lock by lock.                  *)
LEMMA GotoAt ==
  ASSUME TypeOK, NEW i \in Instances, NEW s, Goto(i, s)
  PROVE  /\ stage'[i] = s
         /\ op'[i] = IF s = "idle" THEN "none" ELSE op[i]
         /\ \A k \in Instances : k # i => stage'[k] = stage[k] /\ op'[k] = op[k]
  BY DEF TypeOK, Goto

(* The type invariant is preserved by each action.                         *)
LEMMA TypeStep == TypeOK /\ [Next]_vars => TypeOK'
<1> SUFFICES ASSUME TypeOK, [Next]_vars PROVE TypeOK'
  OBVIOUS
<1> USE KctlConstants DEF TypeOK, Instances, Stages, Mishaps, probed, lifeVars, ctlVars, dataVars,
        devVars, trxVars, connVars
<1>1. ASSUME NEW r \in {"ok", "nolock", "nobar"}, Start(r) PROVE TypeOK'
  <2>1. mishaps' \subseteq Mishaps
    BY <1>1, Zenon DEF Start, Unless, Mishaps
  <2>2. inst + 1 \in 1 .. MaxInst
    BY <1>1 DEF Start
  <2>3. CASE r = "nobar"
    BY <1>1, <2>1, <2>3 DEF Start
  <2>4. CASE r # "nobar"
    <3>1. inst' = inst + 1 /\ g_dev' = inst + 1 /\ up' \in {0, inst + 1}
      BY <1>1, <2>4 DEF Start
    <3>2. mem' \in [Instances -> {"unused", "held", "freed"}]
      <4>1. PICK v \in {"held", "freed"} : mem' = [mem EXCEPT ![inst + 1] = v]
        BY <1>1, <2>4 DEF Start
      <4> HIDE DEF Instances
      <4> QED BY <4>1
    <3> QED BY <1>1, <2>1, <2>2, <3>1, <3>2, SMTT(20) DEF Start
  <2> QED BY <2>3, <2>4
<1>2. CASE Die
  <2>1. PICK S \in SUBSET Receiving : stage' = Spin(stage, S)
    BY <1>2 DEF Die
  <2>2. \A j \in S : stage[j] # "idle"
    BY DEF Receiving
  <2>3. stage' \in [Instances -> Stages]
        /\ \A j \in Instances : stage'[j] = "idle" <=> stage[j] = "idle"
    BY <2>1, <2>2 DEF Spin
  <2> QED BY <1>2, <2>3 DEF Die
<1>3. ASSUME NEW i \in Instances, NEW o \in Ops, Block(i, o) PROVE TypeOK'
  BY <1>3 DEF Block
<1>4. ASSUME NEW i \in Instances, NEW o \in Ops, Begin(i, o) PROVE TypeOK'
  <2>1. mishaps' \subseteq Mishaps
    BY <1>4, Zenon DEF Begin, Unless, Mishaps
  <2>2. FirstStage(o) \in Stages \ {"idle"} /\ o # "none"
    BY DEF FirstStage, AllOps
  <2>3. /\ op' = [op EXCEPT ![i] = o] /\ stage' = [stage EXCEPT ![i] = FirstStage(o)]
        /\ blocked' \in [Instances -> Ops \cup {"none"}]
        /\ UNCHANGED <<lifeVars, dataVars, devVars, trxVars, connVars>>
    BY <1>4 DEF Begin
  <2> HIDE DEF Mishaps, Stages, Instances
  <2> QED BY <2>1, <2>2, <2>3
<1>5. ASSUME NEW i \in Instances, Deauth(i) PROVE TypeOK'
  BY <1>5 DEF Deauth, Goto
<1>6. ASSUME NEW i \in Instances, DataStop(i) PROVE TypeOK'
  <2>1. Target(i) \in 0 .. MaxInst
    BY <1>6 DEF Target
  <2>2. /\ fEth' \in [Instances -> {0, 1}]
        /\ eth' \in [Instances -> {"none", "stopping", "exited"}]
        /\ from' \in [Instances -> 0 .. MaxInst]
    <3>1. CASE HasEth(Target(i))
      <4>1. /\ fEth' = [fEth EXCEPT ![Target(i)] = 0]
            /\ eth' = [eth EXCEPT ![i] = "stopping"]
            /\ from' = [from EXCEPT ![i] = Target(i)]
        BY <1>6, <3>1, Zenon DEF DataStop
      <4> QED BY <1>6, <2>1, <4>1
    <3>2. CASE ~HasEth(Target(i))
      BY <1>6, <3>2 DEF DataStop
    <3> QED BY <3>1, <3>2
  <2>3. Goto(i, "join") \/ Goto(i, AfterStop(op[i]))
    BY <1>6, Zenon DEF DataStop
  <2>4. /\ op' \in [Instances -> Ops \cup {"none"}]
        /\ stage' \in [Instances -> Stages]
        /\ \A j \in Instances : op'[j] = "none" <=> stage'[j] = "idle"
        /\ blocked' = blocked
    BY <1>6, <2>3, GotoTypes DEF DataStop, AfterStop
  <2> QED BY <1>6, <2>2, <2>4 DEF DataStop
<1>7. ASSUME NEW i \in Instances, Join(i) PROVE TypeOK'
  BY <1>7 DEF Join, Goto, AfterStop
<1>8. ASSUME NEW i \in Instances, JoinTimeout(i) PROVE TypeOK'
  <2>1. hung' = [hung EXCEPT ![from[i]] = hung[from[i]] + 1]
    BY <1>8 DEF JoinTimeout
  <2>2. hung' \in [Instances -> Nat]
    BY <2>1, CountStep
  <2> QED BY <1>8, <2>2 DEF JoinTimeout, Goto, AfterStop
<1>9. ASSUME NEW i \in Instances, Halt(i) PROVE TypeOK'
  BY <1>9 DEF Halt, Goto, trx_free, hw_power, HaltTo, Healed
<1>10. ASSUME NEW i \in Instances, Unpublish(i) PROVE TypeOK'
  <2>1. PICK S \in SUBSET Receiving : stage' = [Spin(stage, S) EXCEPT ![i] = "free"]
    BY <1>10 DEF Unpublish
  <2>2. \A j \in S : stage[j] # "idle"
    BY DEF Receiving
  <2>3. stage' \in [Instances -> Stages]
        /\ \A j \in Instances : stage'[j] = "idle" <=> stage[j] = "idle"
    BY <1>10, <2>1, <2>2 DEF Spin, Unpublish
  <2> QED BY <1>10, <2>3 DEF Unpublish
<1>11. ASSUME NEW i \in Instances, Free(i) PROVE TypeOK'
  BY <1>11, SMTT(20) DEF Free, Goto
<1>12. ASSUME NEW i \in Instances, Enable(i) PROVE TypeOK'
  BY <1>12 DEF Enable, Goto, hw_power
<1>13. ASSUME NEW i \in Instances, Release(i) PROVE TypeOK'
  BY <1>13 DEF Release, Goto, trx_free, hw_power
<1>14. ASSUME NEW i \in Instances, NEW ok \in BOOLEAN, PowerOn(i, ok) PROVE TypeOK'
  BY <1>14 DEF PowerOn, Goto
<1>15. ASSUME NEW i \in Instances, NEW ok \in BOOLEAN, Program(i, ok) PROVE TypeOK'
  BY <1>15 DEF Program, mac_init, Goto
<1>16. ASSUME NEW i \in Instances, NEW ok \in BOOLEAN, Associate(i, ok) PROVE TypeOK'
  BY <1>16 DEF Associate, Goto
<1>17. ASSUME NEW i \in Instances, NEW ok \in BOOLEAN, DataStart(i, ok) PROVE TypeOK'
  BY <1>17, SMTT(20) DEF DataStart, Goto, CanStartData, Unless
<1>18. ASSUME NEW i \in Instances, NEW ok \in BOOLEAN, Sweep(i, ok) PROVE TypeOK'
  BY <1>18 DEF Sweep, Goto
<1>19. ASSUME NEW i \in Instances, NEW ok \in BOOLEAN, Search(i, ok) PROVE TypeOK'
  BY <1>19 DEF Search, Goto
<1>20. ASSUME NEW i \in Instances, NEW r \in {"full", "txonly", "none"}, Rings(i, r) PROVE TypeOK'
  BY <1>20 DEF Rings, regWriteDma, Goto
<1>21. ASSUME NEW i \in Instances, RxExit(i) PROVE TypeOK'
  BY <1>21 DEF RxExit
<1>22. ASSUME NEW i \in Instances, HungExit(i) PROVE TypeOK'
  <2>1. hung' = [hung EXCEPT ![i] = hung[i] - 1] /\ hung[i] > 0
    BY <1>22 DEF HungExit
  <2>2. hung' \in [Instances -> Nat]
    BY <1>22, <2>1, CountStep
  <2> QED BY <1>22, <2>2 DEF HungExit
<1>23. CASE UNCHANGED vars
  BY <1>23 DEF vars
<1> HIDE KctlConstants DEF TypeOK, Instances, Stages, Mishaps, probed, lifeVars, ctlVars,
   dataVars, devVars, trxVars, connVars
<1>24. ASSUME NEW i \in Instances, Step(i) PROVE TypeOK'
  BY <1>24, <1>5, <1>6, <1>7, <1>8, <1>9, <1>10, <1>11, <1>12, <1>13, <1>14, <1>15, <1>16, <1>17,
     <1>18, <1>19, <1>20 DEF Step
<1> QED BY <1>1, <1>2, <1>3, <1>4, <1>21, <1>22, <1>23, <1>24 DEF Next

(* The history of overlaps only grows.                                     *)
LEMMA SerialBefore == [Next]_vars /\ Serial' => Serial
<1> SUFFICES ASSUME [Next]_vars, Serial' PROVE Serial
  OBVIOUS
<1> USE DEF Serial
<1>1. ASSUME NEW r \in {"ok", "nolock", "nobar"}, Start(r) PROVE Serial
  BY <1>1 DEF Start
<1>2. CASE Die
  BY <1>2 DEF Die
<1>3. ASSUME NEW i \in Instances, NEW o \in Ops, Block(i, o) PROVE Serial
  BY <1>3 DEF Block
<1>4. ASSUME NEW i \in Instances, NEW o \in Ops, Begin(i, o) PROVE Serial
  BY <1>4 DEF Begin
<1>5. ASSUME NEW i \in Instances, Deauth(i) PROVE Serial
  BY <1>5 DEF Deauth
<1>6. ASSUME NEW i \in Instances, DataStop(i) PROVE Serial
  BY <1>6 DEF DataStop
<1>7. ASSUME NEW i \in Instances, Join(i) PROVE Serial
  BY <1>7 DEF Join
<1>8. ASSUME NEW i \in Instances, JoinTimeout(i) PROVE Serial
  BY <1>8 DEF JoinTimeout
<1>9. ASSUME NEW i \in Instances, Halt(i) PROVE Serial
  BY <1>9 DEF Halt, Healed
<1>10. ASSUME NEW i \in Instances, Unpublish(i) PROVE Serial
  BY <1>10 DEF Unpublish
<1>11. ASSUME NEW i \in Instances, Free(i) PROVE Serial
  BY <1>11 DEF Free
<1>12. ASSUME NEW i \in Instances, Enable(i) PROVE Serial
  BY <1>12 DEF Enable
<1>13. ASSUME NEW i \in Instances, Release(i) PROVE Serial
  BY <1>13 DEF Release
<1>14. ASSUME NEW i \in Instances, NEW ok \in BOOLEAN, PowerOn(i, ok) PROVE Serial
  BY <1>14 DEF PowerOn
<1>15. ASSUME NEW i \in Instances, NEW ok \in BOOLEAN, Program(i, ok) PROVE Serial
  BY <1>15 DEF Program
<1>16. ASSUME NEW i \in Instances, NEW ok \in BOOLEAN, Associate(i, ok) PROVE Serial
  BY <1>16 DEF Associate
<1>17. ASSUME NEW i \in Instances, NEW ok \in BOOLEAN, DataStart(i, ok) PROVE Serial
  BY <1>17 DEF DataStart
<1>18. ASSUME NEW i \in Instances, NEW ok \in BOOLEAN, Sweep(i, ok) PROVE Serial
  BY <1>18 DEF Sweep
<1>19. ASSUME NEW i \in Instances, NEW ok \in BOOLEAN, Search(i, ok) PROVE Serial
  BY <1>19 DEF Search
<1>20. ASSUME NEW i \in Instances, NEW r \in {"full", "txonly", "none"}, Rings(i, r) PROVE Serial
  BY <1>20 DEF Rings
<1>21. ASSUME NEW i \in Instances, RxExit(i) PROVE Serial
  BY <1>21 DEF RxExit
<1>22. ASSUME NEW i \in Instances, HungExit(i) PROVE Serial
  BY <1>22 DEF HungExit
<1>23. CASE UNCHANGED vars
  BY <1>23 DEF vars
<1>24. ASSUME NEW i \in Instances, Step(i) PROVE Serial
  BY <1>24, <1>5, <1>6, <1>7, <1>8, <1>9, <1>10, <1>11, <1>12, <1>13, <1>14, <1>15, <1>16, <1>17,
     <1>18, <1>19, <1>20 DEF Step
<1> QED BY <1>1, <1>2, <1>3, <1>4, <1>21, <1>22, <1>23, <1>24 DEF Next

(* What the death of the device does: some of the loops that follow its    *)
(* index spin.                                                             *)
Dies ==
  /\ stage' \in [Instances -> Stages]
  /\ \A j \in Instances :
       stage'[j] = stage[j] \/ (stage'[j] = "spin" /\ stage[j] \in {"sweep", "search", "assoc"})
  /\ dead' = 1 /\ busMaster' = 0 /\ cr' = 0 /\ rxBase' = 0 /\ probed
  /\ UNCHANGED <<lifeVars, op, blocked, dataVars, trxVars, connVars, mishaps>>

(* When the device dies some of the loops that follow its index spin.      *)
LEMMA DieStages ==
  ASSUME TypeOK, Die
  PROVE  Dies
<1>1. PICK S \in SUBSET Receiving : stage' = Spin(stage, S)
  BY DEF Die
<1>2. \A j \in S : stage[j] \in {"sweep", "search", "assoc"}
  BY DEF Receiving
<1>3. /\ stage' \in [Instances -> Stages]
      /\ \A j \in Instances :
           stage'[j] = stage[j] \/ (stage'[j] = "spin" /\ stage[j] \in {"sweep", "search", "assoc"})
  BY <1>1, <1>2 DEF Spin, TypeOK, Stages
<1> QED BY <1>3 DEF Die, alive, Dies

(* What the unpublishing of a device does when nobody else is using it.    *)
Unpublishes(i) ==
  /\ stage[i] = "unpublish" /\ stage'[i] = "free" /\ g_dev' = 0
  /\ \A k \in Instances : k # i => stage'[k] = stage[k]
  /\ UNCHANGED <<inst, up, mem, op, blocked, dataVars, devVars, trxVars, connVars, mishaps>>

(* A stop() that overlaps with nothing unpublishes the device under nobody. *)
LEMMA UnpublishStages ==
  ASSUME TypeOK, OneOp, NEW i \in Instances, Unpublish(i)
  PROVE  Unpublishes(i)
<1>1. PICK S \in SUBSET Receiving : stage' = [Spin(stage, S) EXCEPT ![i] = "free"]
  BY DEF Unpublish
<1>2. S = {}
  BY DEF Receiving, OneOp, TypeOK, Unpublish
<1>3. Spin(stage, S) = stage
  BY <1>2 DEF Spin, TypeOK
<1> QED BY <1>1, <1>3 DEF Unpublish, Unpublishes, TypeOK


(* dataStop takes down the interface of the instance that is up.           *)
StopsEth(i) ==
  /\ stage[i] = "stopdata" /\ up # 0 /\ probed /\ fEth[up] = 1
  /\ fEth' = [fEth EXCEPT ![up] = 0]
  /\ eth' = [eth EXCEPT ![i] = "stopping"]
  /\ from' = [from EXCEPT ![i] = up]
  /\ Goto(i, "join")
  /\ UNCHANGED <<lifeVars, hung, fDataStopClean, devVars, trxVars, connVars, mishaps>>

(* dataStop finds no interface.                                            *)
NoEth(i) ==
  /\ stage[i] = "stopdata"
  /\ op[i] = "datastop" \/ \A j \in Instances : fEth[j] = 0
  /\ Goto(i, AfterStop(op[i]))
  /\ UNCHANGED <<lifeVars, dataVars, devVars, trxVars, connVars, mishaps>>

(* dataStop takes the interface of the instance that is up, or there is    *)
(* none it knows of.                                                       *)
LEMMA DataStopCases ==
  ASSUME TypeOK, ControlInv, NEW i \in Instances, DataStop(i)
  PROVE  StopsEth(i) \/ NoEth(i)
<1>1. Target(i) \in 0 .. MaxInst
  BY KctlConstants DEF Target, TypeOK, Instances
<1>2. CASE HasEth(Target(i))
  <2>1. Target(i) = up /\ up # 0 /\ probed /\ fEth[up] = 1
    BY <1>1, <1>2 DEF HasEth, ControlInv, ControlAt, Instances
  <2> QED BY <1>2, <2>1, Zenon DEF DataStop, StopsEth
<1>3. CASE ~HasEth(Target(i))
  <2>1. op[i] = "datastop" \/ \A j \in Instances : fEth[j] = 0
    BY <1>3 DEF HasEth, Target, TypeOK, ControlInv, ControlAt, probed, Instances
  <2> QED BY <1>3, <2>1, Zenon DEF DataStop, NoEth, dataVars
<1> QED BY <1>2, <1>3


(* Without an overlap at most one lock is held.                            *)
LEMMA OneOpStep ==
  ASSUME TypeOK, TypeOK', SerialInv, [Next]_vars, Serial'
  PROVE  OneOp'
<1>d. Die => Dies
  BY DieStages
<1>u. ASSUME NEW i \in Instances, Unpublish(i) PROVE Unpublishes(i)
  BY <1>u, UnpublishStages DEF SerialInv
<1> USE KctlConstants, SerialBefore DEF SerialInv, TypeOK, Instances, Stages, probed, OneOp,
        Serial, Idle,
        lifeVars, ctlVars, dataVars, devVars, trxVars, connVars
<1>1. ASSUME NEW r \in {"ok", "nolock", "nobar"}, Start(r) PROVE OneOp'
  BY <1>1 DEF Start, Unless
<1>2. CASE Die
  BY <1>2, <1>d DEF Dies
<1>3. ASSUME NEW i \in Instances, NEW o \in Ops, Block(i, o) PROVE OneOp'
  BY <1>3 DEF Block
<1>4. ASSUME NEW i \in Instances, NEW o \in Ops, Begin(i, o) PROVE OneOp'
  BY <1>4 DEF Begin, FirstStage, AllOps, DiagOps, Unless
<1>5. ASSUME NEW i \in Instances, Deauth(i) PROVE OneOp'
  BY <1>5 DEF Deauth, Goto
<1>6. ASSUME NEW i \in Instances, DataStop(i) PROVE OneOp'
  <2>1. CASE StopsEth(i) BY <1>6, <2>1 DEF StopsEth, Goto
  <2>2. CASE NoEth(i) BY <1>6, <2>2 DEF NoEth, Goto, AfterStop
  <2> QED BY <1>6, <2>1, <2>2, DataStopCases
<1>7. ASSUME NEW i \in Instances, Join(i) PROVE OneOp'
  BY <1>7 DEF Join, Goto, AfterStop
<1>8. ASSUME NEW i \in Instances, JoinTimeout(i) PROVE OneOp'
  BY <1>8 DEF JoinTimeout, Goto, AfterStop
<1>9. ASSUME NEW i \in Instances, Halt(i) PROVE OneOp'
  BY <1>9 DEF Halt, Goto, trx_free, hw_power, HaltTo, Healed
<1>10. ASSUME NEW i \in Instances, Unpublish(i) PROVE OneOp'
  BY <1>10, <1>u, SMTT(20) DEF Unpublishes
<1>11. ASSUME NEW i \in Instances, Free(i) PROVE OneOp'
  BY <1>11 DEF Free, Goto
<1>12. ASSUME NEW i \in Instances, Enable(i) PROVE OneOp'
  BY <1>12 DEF Enable, Goto, hw_power
<1>13. ASSUME NEW i \in Instances, Release(i) PROVE OneOp'
  BY <1>13 DEF Release, Goto, trx_free, hw_power
<1>14. ASSUME NEW i \in Instances, NEW ok \in BOOLEAN, PowerOn(i, ok) PROVE OneOp'
  BY <1>14 DEF PowerOn, Goto
<1>15. ASSUME NEW i \in Instances, NEW ok \in BOOLEAN, Program(i, ok) PROVE OneOp'
  BY <1>15 DEF Program, mac_init, Goto
<1>16. ASSUME NEW i \in Instances, NEW ok \in BOOLEAN, Associate(i, ok) PROVE OneOp'
  BY <1>16 DEF Associate, Goto
<1>17. ASSUME NEW i \in Instances, NEW ok \in BOOLEAN, DataStart(i, ok) PROVE OneOp'
  BY <1>17 DEF DataStart, Goto, CanStartData, Unless
<1>18. ASSUME NEW i \in Instances, NEW ok \in BOOLEAN, Sweep(i, ok) PROVE OneOp'
  BY <1>18 DEF Sweep, Goto
<1>19. ASSUME NEW i \in Instances, NEW ok \in BOOLEAN, Search(i, ok) PROVE OneOp'
  BY <1>19 DEF Search, Goto
<1>20. ASSUME NEW i \in Instances, NEW r \in {"full", "txonly", "none"}, Rings(i, r) PROVE OneOp'
  BY <1>20 DEF Rings, regWriteDma, Goto
<1>21. ASSUME NEW i \in Instances, RxExit(i) PROVE OneOp'
  BY <1>21 DEF RxExit
<1>22. ASSUME NEW i \in Instances, HungExit(i) PROVE OneOp'
  BY <1>22 DEF HungExit
<1>23. CASE UNCHANGED vars
  BY <1>23 DEF vars
<1> HIDE KctlConstants, SerialBefore DEF SerialInv, TypeOK, Instances, Stages, probed, OneOp,
   Serial, Idle, lifeVars, ctlVars, dataVars, devVars, trxVars, connVars
<1>24. ASSUME NEW i \in Instances, Step(i) PROVE OneOp'
  BY <1>24, <1>5, <1>6, <1>7, <1>8, <1>9, <1>10, <1>11, <1>12, <1>13, <1>14, <1>15, <1>16, <1>17,
     <1>18, <1>19, <1>20 DEF Step
<1> QED BY <1>1, <1>2, <1>3, <1>4, <1>21, <1>22, <1>23, <1>24 DEF Next

(* Each action keeps what is said of the instances.                        *)
LEMMA InstanceStep ==
  ASSUME TypeOK, TypeOK', SerialInv, [Next]_vars, Serial'
  PROVE  InstanceInv'
<1>d. Die => Dies
  BY DieStages
<1>u. ASSUME NEW i \in Instances, Unpublish(i) PROVE Unpublishes(i)
  BY <1>u, UnpublishStages DEF SerialInv
<1> USE KctlConstants, SerialBefore DEF SerialInv, TypeOK, Instances, Stages, probed, OneOp,
        Serial, Idle, InstanceInv, ControlInv, ControlAt, HungInv,
        lifeVars, ctlVars, dataVars, devVars, trxVars, connVars
<1>1. ASSUME NEW r \in {"ok", "nolock", "nobar"}, Start(r) PROVE InstanceInv'
  BY <1>1 DEF Start, Unless
<1>2. CASE Die
  BY <1>2, <1>d DEF Dies
<1>3. ASSUME NEW i \in Instances, NEW o \in Ops, Block(i, o) PROVE InstanceInv'
  BY <1>3 DEF Block
<1>4. ASSUME NEW i \in Instances, NEW o \in Ops, Begin(i, o) PROVE InstanceInv'
  BY <1>4 DEF Begin, FirstStage, AllOps, DiagOps, Unless
<1>5. ASSUME NEW i \in Instances, Deauth(i) PROVE InstanceInv'
  BY <1>5 DEF Deauth, Goto
<1>6. ASSUME NEW i \in Instances, DataStop(i) PROVE InstanceInv'
  <2>1. CASE StopsEth(i) BY <1>6, <2>1 DEF StopsEth, Goto
  <2>2. CASE NoEth(i) BY <1>6, <2>2 DEF NoEth, Goto, AfterStop
  <2> QED BY <1>6, <2>1, <2>2, DataStopCases
<1>7. ASSUME NEW i \in Instances, Join(i) PROVE InstanceInv'
  BY <1>7 DEF Join, Goto, AfterStop
<1>8. ASSUME NEW i \in Instances, JoinTimeout(i) PROVE InstanceInv'
  BY <1>8 DEF JoinTimeout, Goto, AfterStop
<1>9. ASSUME NEW i \in Instances, Halt(i) PROVE InstanceInv'
  BY <1>9 DEF Halt, Goto, trx_free, hw_power, HaltTo, Healed
<1>10. ASSUME NEW i \in Instances, Unpublish(i) PROVE InstanceInv'
  BY <1>10, <1>u, SMTT(20) DEF Unpublishes
<1>11. ASSUME NEW i \in Instances, Free(i) PROVE InstanceInv'
  BY <1>11 DEF Free, Goto
<1>12. ASSUME NEW i \in Instances, Enable(i) PROVE InstanceInv'
  BY <1>12 DEF Enable, Goto, hw_power
<1>13. ASSUME NEW i \in Instances, Release(i) PROVE InstanceInv'
  BY <1>13 DEF Release, Goto, trx_free, hw_power
<1>14. ASSUME NEW i \in Instances, NEW ok \in BOOLEAN, PowerOn(i, ok) PROVE InstanceInv'
  BY <1>14 DEF PowerOn, Goto
<1>15. ASSUME NEW i \in Instances, NEW ok \in BOOLEAN, Program(i, ok) PROVE InstanceInv'
  BY <1>15 DEF Program, mac_init, Goto
<1>16. ASSUME NEW i \in Instances, NEW ok \in BOOLEAN, Associate(i, ok) PROVE InstanceInv'
  BY <1>16 DEF Associate, Goto
<1>17. ASSUME NEW i \in Instances, NEW ok \in BOOLEAN, DataStart(i, ok) PROVE InstanceInv'
  BY <1>17 DEF DataStart, Goto, CanStartData, Unless
<1>18. ASSUME NEW i \in Instances, NEW ok \in BOOLEAN, Sweep(i, ok) PROVE InstanceInv'
  BY <1>18 DEF Sweep, Goto
<1>19. ASSUME NEW i \in Instances, NEW ok \in BOOLEAN, Search(i, ok) PROVE InstanceInv'
  BY <1>19 DEF Search, Goto
<1>20. ASSUME NEW i \in Instances, NEW r \in {"full", "txonly", "none"}, Rings(i, r) PROVE InstanceInv'
  BY <1>20 DEF Rings, regWriteDma, Goto
<1>21. ASSUME NEW i \in Instances, RxExit(i) PROVE InstanceInv'
  BY <1>21 DEF RxExit
<1>22. ASSUME NEW i \in Instances, HungExit(i) PROVE InstanceInv'
  BY <1>22 DEF HungExit
<1>23. CASE UNCHANGED vars
  BY <1>23 DEF vars
<1> HIDE KctlConstants, SerialBefore DEF SerialInv, TypeOK, Instances, Stages, probed, OneOp,
   Serial, Idle, InstanceInv, ControlInv, ControlAt, HungInv, lifeVars, ctlVars, dataVars,
   devVars, trxVars, connVars
<1>24. ASSUME NEW i \in Instances, Step(i) PROVE InstanceInv'
  BY <1>24, <1>5, <1>6, <1>7, <1>8, <1>9, <1>10, <1>11, <1>12, <1>13, <1>14, <1>15, <1>16, <1>17,
     <1>18, <1>19, <1>20 DEF Step
<1> QED BY <1>1, <1>2, <1>3, <1>4, <1>21, <1>22, <1>23, <1>24 DEF Next

(* Each action keeps what is said of the stages and the RX threads.        *)
LEMMA ControlStep ==
  ASSUME TypeOK, TypeOK', SerialInv, [Next]_vars, Serial'
  PROVE  ControlInv'
<1>d. Die => Dies
  BY DieStages
<1>u. ASSUME NEW i \in Instances, Unpublish(i) PROVE Unpublishes(i)
  BY <1>u, UnpublishStages DEF SerialInv
<1> USE KctlConstants, SerialBefore DEF SerialInv, TypeOK, Instances, Stages, probed, OneOp,
        Serial, Idle, InstanceInv, ControlInv, ControlAt,
        lifeVars, ctlVars, dataVars, devVars, trxVars, connVars
<1>1. ASSUME NEW r \in {"ok", "nolock", "nobar"}, Start(r) PROVE ControlInv'
  BY <1>1 DEF Start, Unless
<1>2. CASE Die
  <2>1. Dies
    BY <1>2, <1>d
  <2>2. UNCHANGED <<blocked, op, up, g_dev, fEth, eth, from>>
    BY <2>1 DEF Dies
  <2>3. ASSUME NEW k \in Instances
        PROVE  \/ stage'[k] = stage[k]
               \/ stage'[k] = "spin" /\ stage[k] \in {"sweep", "search", "assoc"}
    BY <2>1 DEF Dies
  <2>4. ASSUME NEW k \in Instances PROVE ControlAt(k)'
    <3>1. ControlAt(k)
      OBVIOUS
    <3> HIDE DEF TypeOK, SerialInv, ControlInv
    <3> QED BY <2>2, <2>3, <3>1
  <2> HIDE DEF ControlAt
  <2> QED BY <2>4
<1>3. ASSUME NEW i \in Instances, NEW o \in Ops, Block(i, o) PROVE ControlInv'
  BY <1>3 DEF Block
<1>4. ASSUME NEW i \in Instances, NEW o \in Ops, Begin(i, o) PROVE ControlInv'
  BY <1>4 DEF Begin, FirstStage, AllOps, DiagOps, Unless
<1>5. ASSUME NEW i \in Instances, Deauth(i) PROVE ControlInv'
  BY <1>5 DEF Deauth, Goto
<1>6. ASSUME NEW i \in Instances, DataStop(i) PROVE ControlInv'
  <2>1. CASE StopsEth(i) BY <1>6, <2>1 DEF StopsEth, Goto
  <2>2. CASE NoEth(i) BY <1>6, <2>2 DEF NoEth, Goto, AfterStop
  <2> QED BY <1>6, <2>1, <2>2, DataStopCases
<1>7. ASSUME NEW i \in Instances, Join(i) PROVE ControlInv'
  BY <1>7 DEF Join, Goto, AfterStop
<1>8. ASSUME NEW i \in Instances, JoinTimeout(i) PROVE ControlInv'
  BY <1>8 DEF JoinTimeout, Goto, AfterStop
<1>9. ASSUME NEW i \in Instances, Halt(i) PROVE ControlInv'
  BY <1>9 DEF Halt, Goto, trx_free, hw_power, HaltTo, Healed
<1>10. ASSUME NEW i \in Instances, Unpublish(i) PROVE ControlInv'
  BY <1>10, <1>u, SMTT(20) DEF Unpublishes
<1>11. ASSUME NEW i \in Instances, Free(i) PROVE ControlInv'
  BY <1>11 DEF Free, Goto
<1>12. ASSUME NEW i \in Instances, Enable(i) PROVE ControlInv'
  BY <1>12 DEF Enable, Goto, hw_power
<1>13. ASSUME NEW i \in Instances, Release(i) PROVE ControlInv'
  BY <1>13 DEF Release, Goto, trx_free, hw_power
<1>14. ASSUME NEW i \in Instances, NEW ok \in BOOLEAN, PowerOn(i, ok) PROVE ControlInv'
  BY <1>14 DEF PowerOn, Goto
<1>15. ASSUME NEW i \in Instances, NEW ok \in BOOLEAN, Program(i, ok) PROVE ControlInv'
  BY <1>15 DEF Program, mac_init, Goto
<1>16. ASSUME NEW i \in Instances, NEW ok \in BOOLEAN, Associate(i, ok) PROVE ControlInv'
  BY <1>16 DEF Associate, Goto
<1>17. ASSUME NEW i \in Instances, NEW ok \in BOOLEAN, DataStart(i, ok) PROVE ControlInv'
  BY <1>17, SMTT(20) DEF DataStart, Goto, CanStartData, Unless
<1>18. ASSUME NEW i \in Instances, NEW ok \in BOOLEAN, Sweep(i, ok) PROVE ControlInv'
  BY <1>18 DEF Sweep, Goto
<1>19. ASSUME NEW i \in Instances, NEW ok \in BOOLEAN, Search(i, ok) PROVE ControlInv'
  BY <1>19 DEF Search, Goto
<1>20. ASSUME NEW i \in Instances, NEW r \in {"full", "txonly", "none"}, Rings(i, r) PROVE ControlInv'
  BY <1>20 DEF Rings, regWriteDma, Goto
<1>21. ASSUME NEW i \in Instances, RxExit(i) PROVE ControlInv'
  BY <1>21 DEF RxExit
<1>22. ASSUME NEW i \in Instances, HungExit(i) PROVE ControlInv'
  BY <1>22 DEF HungExit
<1>23. CASE UNCHANGED vars
  BY <1>23 DEF vars
<1> HIDE KctlConstants, SerialBefore DEF SerialInv, TypeOK, Instances, Stages, probed, OneOp,
   Serial, Idle, InstanceInv, ControlInv, ControlAt, lifeVars, ctlVars, dataVars, devVars,
   trxVars, connVars
<1>24. ASSUME NEW i \in Instances, Step(i) PROVE ControlInv'
  BY <1>24, <1>5, <1>6, <1>7, <1>8, <1>9, <1>10, <1>11, <1>12, <1>13, <1>14, <1>15, <1>16, <1>17,
     <1>18, <1>19, <1>20 DEF Step
<1> QED BY <1>1, <1>2, <1>3, <1>4, <1>21, <1>22, <1>23, <1>24 DEF Next

(* Each action keeps what is said of the abandoned threads.                *)
LEMMA HungStep ==
  ASSUME TypeOK, TypeOK', SerialInv, [Next]_vars, Serial'
  PROVE  HungInv'
<1>d. Die => Dies
  BY DieStages
<1>u. ASSUME NEW i \in Instances, Unpublish(i) PROVE Unpublishes(i)
  BY <1>u, UnpublishStages DEF SerialInv
<1> USE KctlConstants, SerialBefore DEF SerialInv, TypeOK, Instances, Stages, probed, OneOp,
        Serial, Idle, InstanceInv, ControlInv, ControlAt, HungInv,
        lifeVars, ctlVars, dataVars, devVars, trxVars, connVars
<1>1. ASSUME NEW r \in {"ok", "nolock", "nobar"}, Start(r) PROVE HungInv'
  BY <1>1 DEF Start, Unless
<1>2. CASE Die
  BY <1>2, <1>d DEF Dies
<1>3. ASSUME NEW i \in Instances, NEW o \in Ops, Block(i, o) PROVE HungInv'
  BY <1>3 DEF Block
<1>4. ASSUME NEW i \in Instances, NEW o \in Ops, Begin(i, o) PROVE HungInv'
  BY <1>4 DEF Begin, FirstStage, AllOps, DiagOps, Unless
<1>5. ASSUME NEW i \in Instances, Deauth(i) PROVE HungInv'
  BY <1>5 DEF Deauth, Goto
<1>6. ASSUME NEW i \in Instances, DataStop(i) PROVE HungInv'
  <2>1. CASE StopsEth(i) BY <1>6, <2>1 DEF StopsEth, Goto
  <2>2. CASE NoEth(i) BY <1>6, <2>2 DEF NoEth, Goto, AfterStop
  <2> QED BY <1>6, <2>1, <2>2, DataStopCases
<1>7. ASSUME NEW i \in Instances, Join(i) PROVE HungInv'
  BY <1>7 DEF Join, Goto, AfterStop
<1>8. ASSUME NEW i \in Instances, JoinTimeout(i) PROVE HungInv'
  BY <1>8 DEF JoinTimeout, Goto, AfterStop
<1>9. ASSUME NEW i \in Instances, Halt(i) PROVE HungInv'
  BY <1>9 DEF Halt, Goto, trx_free, hw_power, HaltTo, Healed
<1>10. ASSUME NEW i \in Instances, Unpublish(i) PROVE HungInv'
  BY <1>10, <1>u, SMTT(20) DEF Unpublishes
<1>11. ASSUME NEW i \in Instances, Free(i) PROVE HungInv'
  BY <1>11 DEF Free, Goto
<1>12. ASSUME NEW i \in Instances, Enable(i) PROVE HungInv'
  BY <1>12 DEF Enable, Goto, hw_power
<1>13. ASSUME NEW i \in Instances, Release(i) PROVE HungInv'
  BY <1>13 DEF Release, Goto, trx_free, hw_power
<1>14. ASSUME NEW i \in Instances, NEW ok \in BOOLEAN, PowerOn(i, ok) PROVE HungInv'
  BY <1>14 DEF PowerOn, Goto
<1>15. ASSUME NEW i \in Instances, NEW ok \in BOOLEAN, Program(i, ok) PROVE HungInv'
  BY <1>15 DEF Program, mac_init, Goto
<1>16. ASSUME NEW i \in Instances, NEW ok \in BOOLEAN, Associate(i, ok) PROVE HungInv'
  BY <1>16 DEF Associate, Goto
<1>17. ASSUME NEW i \in Instances, NEW ok \in BOOLEAN, DataStart(i, ok) PROVE HungInv'
  BY <1>17 DEF DataStart, Goto, CanStartData, Unless
<1>18. ASSUME NEW i \in Instances, NEW ok \in BOOLEAN, Sweep(i, ok) PROVE HungInv'
  BY <1>18 DEF Sweep, Goto
<1>19. ASSUME NEW i \in Instances, NEW ok \in BOOLEAN, Search(i, ok) PROVE HungInv'
  BY <1>19 DEF Search, Goto
<1>20. ASSUME NEW i \in Instances, NEW r \in {"full", "txonly", "none"}, Rings(i, r) PROVE HungInv'
  BY <1>20 DEF Rings, regWriteDma, Goto
<1>21. ASSUME NEW i \in Instances, RxExit(i) PROVE HungInv'
  BY <1>21 DEF RxExit
<1>22. ASSUME NEW i \in Instances, HungExit(i) PROVE HungInv'
  BY <1>22 DEF HungExit
<1>23. CASE UNCHANGED vars
  BY <1>23 DEF vars
<1> HIDE KctlConstants, SerialBefore DEF SerialInv, TypeOK, Instances, Stages, probed, OneOp,
   Serial, Idle, InstanceInv, ControlInv, ControlAt, HungInv, lifeVars, ctlVars, dataVars,
   devVars, trxVars, connVars
<1>24. ASSUME NEW i \in Instances, Step(i) PROVE HungInv'
  BY <1>24, <1>5, <1>6, <1>7, <1>8, <1>9, <1>10, <1>11, <1>12, <1>13, <1>14, <1>15, <1>16, <1>17,
     <1>18, <1>19, <1>20 DEF Step
<1> QED BY <1>1, <1>2, <1>3, <1>4, <1>21, <1>22, <1>23, <1>24 DEF Next

(* Each action keeps to the paths of the operations.                       *)
LEMMA PathStep ==
  ASSUME TypeOK, TypeOK', SerialInv, [Next]_vars, Serial'
  PROVE  PathInv'
<1>d. Die => Dies
  BY DieStages
<1>u. ASSUME NEW i \in Instances, Unpublish(i) PROVE Unpublishes(i)
  BY <1>u, UnpublishStages DEF SerialInv
<1>o. \A i \in Instances : stage[i] # "idle" => op[i] \in AllOps
  BY KctlConstants DEF TypeOK
<1> USE KctlConstants, SerialBefore DEF SerialInv, TypeOK, Instances, Stages, probed, OneOp,
        Serial, Idle, ControlInv, ControlAt, PathInv, PathAt, FreshOps, AllOps,
        lifeVars, ctlVars, dataVars, devVars, trxVars, connVars
<1>1. ASSUME NEW r \in {"ok", "nolock", "nobar"}, Start(r) PROVE PathInv'
  BY <1>1 DEF Start, Unless
<1>2. CASE Die
  BY <1>2, <1>d DEF Dies
<1>3. ASSUME NEW i \in Instances, NEW o \in Ops, Block(i, o) PROVE PathInv'
  BY <1>3 DEF Block
<1>4. ASSUME NEW i \in Instances, NEW o \in Ops, Begin(i, o) PROVE PathInv'
  BY <1>4 DEF Begin, FirstStage, AllOps, DiagOps, Unless
<1>5. ASSUME NEW i \in Instances, Deauth(i) PROVE PathInv'
  <2>1. PathAt(i) /\ stage[i] = "deauth" /\ \A k \in Instances : PathAt(k)
    BY <1>5 DEF Deauth
  <2>3. op[i] \in AllOps
    BY <1>o, <2>1, Zenon
  <2>2. Goto(i, "stopdata")
    BY <1>5, Zenon DEF Deauth
  <2> HIDE DEF SerialInv, TypeOK, PathInv
  <2>8. /\ \/ stage'[i] = "stopdata" /\ op'[i] = op[i]
        /\ \A k \in Instances : k # i => stage'[k] = stage[k] /\ op'[k] = op[k]
    BY <2>2, GotoAt
  <2>9. ASSUME NEW k \in Instances PROVE PathAt(k)'
    <3>1. CASE k = i
      BY <2>1, <2>3, <2>8, <3>1 DEF AfterStop, HaltTo
    <3>2. CASE k # i
      BY <2>1, <2>8, <3>2
    <3> QED BY <3>1, <3>2
  <2> HIDE DEF PathAt
  <2> QED BY <2>9 DEF PathInv
<1>6. ASSUME NEW i \in Instances, DataStop(i) PROVE PathInv'
  <2>1. PathAt(i) /\ stage[i] = "stopdata" /\ \A k \in Instances : PathAt(k)
    BY <1>6 DEF DataStop
  <2>3. op[i] \in AllOps
    BY <1>o, <2>1, Zenon
  <2>2. Goto(i, "join") \/ Goto(i, AfterStop(op[i]))
    BY <1>6, Zenon DEF DataStop
  <2> HIDE DEF SerialInv, TypeOK, PathInv
  <2>8. /\ \/ stage'[i] = "join" /\ op'[i] = op[i]
           \/ stage'[i] = AfterStop(op[i]) /\ op'[i] = IF AfterStop(op[i]) = "idle" THEN "none" ELSE op[i]
        /\ \A k \in Instances : k # i => stage'[k] = stage[k] /\ op'[k] = op[k]
    BY <2>2, GotoAt
  <2>9. ASSUME NEW k \in Instances PROVE PathAt(k)'
    <3>1. CASE k = i
      BY <2>1, <2>3, <2>8, <3>1 DEF AfterStop, HaltTo
    <3>2. CASE k # i
      BY <2>1, <2>8, <3>2
    <3> QED BY <3>1, <3>2
  <2> HIDE DEF PathAt
  <2> QED BY <2>9 DEF PathInv
<1>7. ASSUME NEW i \in Instances, Join(i) PROVE PathInv'
  BY <1>7 DEF Join, Goto, AfterStop
<1>8. ASSUME NEW i \in Instances, JoinTimeout(i) PROVE PathInv'
  BY <1>8 DEF JoinTimeout, Goto, AfterStop
<1>9. ASSUME NEW i \in Instances, Halt(i) PROVE PathInv'
  <2>1. PathAt(i) /\ stage[i] = "halt" /\ \A k \in Instances : PathAt(k)
    BY <1>9 DEF Halt
  <2>3. op[i] \in AllOps
    BY <1>o, <2>1, Zenon
  <2>2. Goto(i, HaltTo(op[i]))
    BY <1>9, Zenon DEF Halt
  <2> HIDE DEF SerialInv, TypeOK, PathInv
  <2>8. /\ \/ stage'[i] = HaltTo(op[i]) /\ op'[i] = IF HaltTo(op[i]) = "idle" THEN "none" ELSE op[i]
        /\ \A k \in Instances : k # i => stage'[k] = stage[k] /\ op'[k] = op[k]
    BY <2>2, GotoAt
  <2>9. ASSUME NEW k \in Instances PROVE PathAt(k)'
    <3>1. CASE k = i
      BY <2>1, <2>3, <2>8, <3>1 DEF AfterStop, HaltTo
    <3>2. CASE k # i
      BY <2>1, <2>8, <3>2
    <3> QED BY <3>1, <3>2
  <2> HIDE DEF PathAt
  <2> QED BY <2>9 DEF PathInv
<1>10. ASSUME NEW i \in Instances, Unpublish(i) PROVE PathInv'
  <2>1. ASSUME NEW k \in Instances, k = i PROVE PathAt(k)'
    BY <1>10, SMTT(20), <1>u, <2>1 DEF Unpublishes
  <2>2. ASSUME NEW k \in Instances, k # i PROVE PathAt(k)'
    BY <1>10, SMTT(20), <1>u, <2>2 DEF Unpublishes
  <2> HIDE DEF PathAt
  <2> QED BY <2>1, <2>2
<1>11. ASSUME NEW i \in Instances, Free(i) PROVE PathInv'
  BY <1>11 DEF Free, Goto
<1>12. ASSUME NEW i \in Instances, Enable(i) PROVE PathInv'
  BY <1>12 DEF Enable, Goto, hw_power
<1>13. ASSUME NEW i \in Instances, Release(i) PROVE PathInv'
  BY <1>13 DEF Release, Goto, trx_free, hw_power
<1>14. ASSUME NEW i \in Instances, NEW ok \in BOOLEAN, PowerOn(i, ok) PROVE PathInv'
  BY <1>14 DEF PowerOn, Goto
<1>15. ASSUME NEW i \in Instances, NEW ok \in BOOLEAN, Program(i, ok) PROVE PathInv'
  BY <1>15 DEF Program, mac_init, Goto
<1>16. ASSUME NEW i \in Instances, NEW ok \in BOOLEAN, Associate(i, ok) PROVE PathInv'
  BY <1>16 DEF Associate, Goto
<1>17. ASSUME NEW i \in Instances, NEW ok \in BOOLEAN, DataStart(i, ok) PROVE PathInv'
  BY <1>17 DEF DataStart, Goto, CanStartData, Unless
<1>18. ASSUME NEW i \in Instances, NEW ok \in BOOLEAN, Sweep(i, ok) PROVE PathInv'
  BY <1>18 DEF Sweep, Goto
<1>19. ASSUME NEW i \in Instances, NEW ok \in BOOLEAN, Search(i, ok) PROVE PathInv'
  BY <1>19 DEF Search, Goto
<1>20. ASSUME NEW i \in Instances, NEW r \in {"full", "txonly", "none"}, Rings(i, r) PROVE PathInv'
  BY <1>20 DEF Rings, regWriteDma, Goto
<1>21. ASSUME NEW i \in Instances, RxExit(i) PROVE PathInv'
  BY <1>21 DEF RxExit
<1>22. ASSUME NEW i \in Instances, HungExit(i) PROVE PathInv'
  BY <1>22 DEF HungExit
<1>23. CASE UNCHANGED vars
  BY <1>23 DEF vars
<1> HIDE KctlConstants, SerialBefore DEF SerialInv, TypeOK, Instances, Stages, probed, OneOp,
   Serial, Idle, ControlInv, ControlAt, PathInv, PathAt, FreshOps, AllOps, lifeVars, ctlVars,
   dataVars, devVars, trxVars, connVars
<1>24. ASSUME NEW i \in Instances, Step(i) PROVE PathInv'
  BY <1>24, <1>5, <1>6, <1>7, <1>8, <1>9, <1>10, <1>11, <1>12, <1>13, <1>14, <1>15, <1>16, <1>17,
     <1>18, <1>19, <1>20 DEF Step
<1> QED BY <1>1, <1>2, <1>3, <1>4, <1>21, <1>22, <1>23, <1>24 DEF Next

(* Each action keeps what is said of scans and connections.                *)
LEMMA ScanStep ==
  ASSUME TypeOK, TypeOK', SerialInv, [Next]_vars, Serial'
  PROVE  ScanInv'
<1>d. Die => Dies
  BY DieStages
<1>u. ASSUME NEW i \in Instances, Unpublish(i) PROVE Unpublishes(i)
  BY <1>u, UnpublishStages DEF SerialInv
<1> USE KctlConstants, SerialBefore DEF SerialInv, TypeOK, Instances, Stages, probed, OneOp,
        Serial, Idle, InstanceInv, ControlInv, ControlAt, connected, scanActive, alive, Bringup,
        FreshOps, DiagOps, AllOps, PathInv, PathAt, ScanInv,
        lifeVars, ctlVars, dataVars, devVars, trxVars, connVars
<1>1. ASSUME NEW r \in {"ok", "nolock", "nobar"}, Start(r) PROVE ScanInv'
  BY <1>1 DEF Start, Unless
<1>2. CASE Die
  BY <1>2, <1>d DEF Dies
<1>3. ASSUME NEW i \in Instances, NEW o \in Ops, Block(i, o) PROVE ScanInv'
  BY <1>3 DEF Block
<1>4. ASSUME NEW i \in Instances, NEW o \in Ops, Begin(i, o) PROVE ScanInv'
  BY <1>4 DEF Begin, FirstStage, AllOps, DiagOps, Unless
<1>5. ASSUME NEW i \in Instances, Deauth(i) PROVE ScanInv'
  BY <1>5 DEF Deauth, Goto
<1>6. ASSUME NEW i \in Instances, DataStop(i) PROVE ScanInv'
  <2>1. CASE StopsEth(i) BY <1>6, <2>1 DEF StopsEth, Goto
  <2>2. CASE NoEth(i) BY <1>6, <2>2 DEF NoEth, Goto, AfterStop
  <2> QED BY <1>6, <2>1, <2>2, DataStopCases
<1>7. ASSUME NEW i \in Instances, Join(i) PROVE ScanInv'
  BY <1>7 DEF Join, Goto, AfterStop
<1>8. ASSUME NEW i \in Instances, JoinTimeout(i) PROVE ScanInv'
  BY <1>8 DEF JoinTimeout, Goto, AfterStop
<1>9. ASSUME NEW i \in Instances, Halt(i) PROVE ScanInv'
  BY <1>9 DEF Halt, Goto, trx_free, hw_power, HaltTo, Healed
<1>10. ASSUME NEW i \in Instances, Unpublish(i) PROVE ScanInv'
  BY <1>10, <1>u, SMTT(20) DEF Unpublishes
<1>11. ASSUME NEW i \in Instances, Free(i) PROVE ScanInv'
  BY <1>11 DEF Free, Goto
<1>12. ASSUME NEW i \in Instances, Enable(i) PROVE ScanInv'
  BY <1>12 DEF Enable, Goto, hw_power
<1>13. ASSUME NEW i \in Instances, Release(i) PROVE ScanInv'
  BY <1>13 DEF Release, Goto, trx_free, hw_power
<1>14. ASSUME NEW i \in Instances, NEW ok \in BOOLEAN, PowerOn(i, ok) PROVE ScanInv'
  BY <1>14 DEF PowerOn, Goto
<1>15. ASSUME NEW i \in Instances, NEW ok \in BOOLEAN, Program(i, ok) PROVE ScanInv'
  BY <1>15 DEF Program, mac_init, Goto
<1>16. ASSUME NEW i \in Instances, NEW ok \in BOOLEAN, Associate(i, ok) PROVE ScanInv'
  BY <1>16 DEF Associate, Goto
<1>17. ASSUME NEW i \in Instances, NEW ok \in BOOLEAN, DataStart(i, ok) PROVE ScanInv'
  BY <1>17 DEF DataStart, Goto, CanStartData, Unless
<1>18. ASSUME NEW i \in Instances, NEW ok \in BOOLEAN, Sweep(i, ok) PROVE ScanInv'
  BY <1>18 DEF Sweep, Goto
<1>19. ASSUME NEW i \in Instances, NEW ok \in BOOLEAN, Search(i, ok) PROVE ScanInv'
  BY <1>19 DEF Search, Goto
<1>20. ASSUME NEW i \in Instances, NEW r \in {"full", "txonly", "none"}, Rings(i, r) PROVE ScanInv'
  BY <1>20 DEF Rings, regWriteDma, Goto
<1>21. ASSUME NEW i \in Instances, RxExit(i) PROVE ScanInv'
  BY <1>21 DEF RxExit
<1>22. ASSUME NEW i \in Instances, HungExit(i) PROVE ScanInv'
  BY <1>22 DEF HungExit
<1>23. CASE UNCHANGED vars
  BY <1>23 DEF vars
<1> HIDE KctlConstants, SerialBefore DEF SerialInv, TypeOK, Instances, Stages, probed, OneOp,
   Serial, Idle, InstanceInv, ControlInv, ControlAt, connected, scanActive, alive, Bringup,
   FreshOps, DiagOps, AllOps, PathInv, PathAt, ScanInv, lifeVars, ctlVars, dataVars, devVars,
   trxVars, connVars
<1>24. ASSUME NEW i \in Instances, Step(i) PROVE ScanInv'
  BY <1>24, <1>5, <1>6, <1>7, <1>8, <1>9, <1>10, <1>11, <1>12, <1>13, <1>14, <1>15, <1>16, <1>17,
     <1>18, <1>19, <1>20 DEF Step
<1> QED BY <1>1, <1>2, <1>3, <1>4, <1>21, <1>22, <1>23, <1>24 DEF Next

(* Each action keeps what is said of a device that is off.                 *)
LEMMA OffStep ==
  ASSUME TypeOK, TypeOK', SerialInv, [Next]_vars, Serial'
  PROVE  OffInv'
<1>d. Die => Dies
  BY DieStages
<1>u. ASSUME NEW i \in Instances, Unpublish(i) PROVE Unpublishes(i)
  BY <1>u, UnpublishStages DEF SerialInv
<1> USE KctlConstants, SerialBefore DEF SerialInv, TypeOK, Instances, Stages, probed, OneOp,
        Serial, Idle, InstanceInv, ControlInv, ControlAt, connected, scanActive, alive, Bringup,
        FreshOps, DiagOps, AllOps, OffInv, TxWorks,
        lifeVars, ctlVars, dataVars, devVars, trxVars, connVars
<1>1. ASSUME NEW r \in {"ok", "nolock", "nobar"}, Start(r) PROVE OffInv'
  BY <1>1 DEF Start, Unless
<1>2. CASE Die
  BY <1>2, <1>d DEF Dies
<1>3. ASSUME NEW i \in Instances, NEW o \in Ops, Block(i, o) PROVE OffInv'
  BY <1>3 DEF Block
<1>4. ASSUME NEW i \in Instances, NEW o \in Ops, Begin(i, o) PROVE OffInv'
  BY <1>4 DEF Begin, FirstStage, AllOps, DiagOps, Unless
<1>5. ASSUME NEW i \in Instances, Deauth(i) PROVE OffInv'
  BY <1>5 DEF Deauth, Goto
<1>6. ASSUME NEW i \in Instances, DataStop(i) PROVE OffInv'
  <2>1. CASE StopsEth(i) BY <1>6, <2>1 DEF StopsEth, Goto
  <2>2. CASE NoEth(i) BY <1>6, <2>2 DEF NoEth, Goto, AfterStop
  <2> QED BY <1>6, <2>1, <2>2, DataStopCases
<1>7. ASSUME NEW i \in Instances, Join(i) PROVE OffInv'
  BY <1>7 DEF Join, Goto, AfterStop
<1>8. ASSUME NEW i \in Instances, JoinTimeout(i) PROVE OffInv'
  BY <1>8 DEF JoinTimeout, Goto, AfterStop
<1>9. ASSUME NEW i \in Instances, Halt(i) PROVE OffInv'
  BY <1>9 DEF Halt, Goto, trx_free, hw_power, HaltTo, Healed
<1>10. ASSUME NEW i \in Instances, Unpublish(i) PROVE OffInv'
  BY <1>10, <1>u, SMTT(20) DEF Unpublishes
<1>11. ASSUME NEW i \in Instances, Free(i) PROVE OffInv'
  BY <1>11 DEF Free, Goto
<1>12. ASSUME NEW i \in Instances, Enable(i) PROVE OffInv'
  BY <1>12 DEF Enable, Goto, hw_power
<1>13. ASSUME NEW i \in Instances, Release(i) PROVE OffInv'
  BY <1>13 DEF Release, Goto, trx_free, hw_power
<1>14. ASSUME NEW i \in Instances, NEW ok \in BOOLEAN, PowerOn(i, ok) PROVE OffInv'
  BY <1>14 DEF PowerOn, Goto
<1>15. ASSUME NEW i \in Instances, NEW ok \in BOOLEAN, Program(i, ok) PROVE OffInv'
  BY <1>15 DEF Program, mac_init, Goto
<1>16. ASSUME NEW i \in Instances, NEW ok \in BOOLEAN, Associate(i, ok) PROVE OffInv'
  BY <1>16 DEF Associate, Goto
<1>17. ASSUME NEW i \in Instances, NEW ok \in BOOLEAN, DataStart(i, ok) PROVE OffInv'
  BY <1>17 DEF DataStart, Goto, CanStartData, Unless
<1>18. ASSUME NEW i \in Instances, NEW ok \in BOOLEAN, Sweep(i, ok) PROVE OffInv'
  BY <1>18 DEF Sweep, Goto
<1>19. ASSUME NEW i \in Instances, NEW ok \in BOOLEAN, Search(i, ok) PROVE OffInv'
  BY <1>19 DEF Search, Goto
<1>20. ASSUME NEW i \in Instances, NEW r \in {"full", "txonly", "none"}, Rings(i, r) PROVE OffInv'
  BY <1>20 DEF Rings, regWriteDma, Goto
<1>21. ASSUME NEW i \in Instances, RxExit(i) PROVE OffInv'
  BY <1>21 DEF RxExit
<1>22. ASSUME NEW i \in Instances, HungExit(i) PROVE OffInv'
  BY <1>22 DEF HungExit
<1>23. CASE UNCHANGED vars
  BY <1>23 DEF vars
<1> HIDE KctlConstants, SerialBefore DEF SerialInv, TypeOK, Instances, Stages, probed, OneOp,
   Serial, Idle, InstanceInv, ControlInv, ControlAt, connected, scanActive, alive, Bringup,
   FreshOps, DiagOps, AllOps, OffInv, TxWorks, lifeVars, ctlVars, dataVars, devVars, trxVars,
   connVars
<1>24. ASSUME NEW i \in Instances, Step(i) PROVE OffInv'
  BY <1>24, <1>5, <1>6, <1>7, <1>8, <1>9, <1>10, <1>11, <1>12, <1>13, <1>14, <1>15, <1>16, <1>17,
     <1>18, <1>19, <1>20 DEF Step
<1> QED BY <1>1, <1>2, <1>3, <1>4, <1>21, <1>22, <1>23, <1>24 DEF Next

(* Each action keeps what is said of the stages under a connection.        *)
LEMMA ConnStep ==
  ASSUME TypeOK, TypeOK', SerialInv, [Next]_vars, Serial'
  PROVE  ConnInv'
<1>d. Die => Dies
  BY DieStages
<1>u. ASSUME NEW i \in Instances, Unpublish(i) PROVE Unpublishes(i)
  BY <1>u, UnpublishStages DEF SerialInv
<1> USE KctlConstants, SerialBefore DEF SerialInv, TypeOK, Instances, Stages, probed, OneOp,
        Serial, Idle, InstanceInv, ControlInv, ControlAt, connected, scanActive, alive, Bringup,
        FreshOps, DiagOps, AllOps, PathInv, PathAt, ScanInv, ConnInv,
        lifeVars, ctlVars, dataVars, devVars, trxVars, connVars
<1>1. ASSUME NEW r \in {"ok", "nolock", "nobar"}, Start(r) PROVE ConnInv'
  BY <1>1 DEF Start, Unless
<1>2. CASE Die
  BY <1>2, <1>d DEF Dies
<1>3. ASSUME NEW i \in Instances, NEW o \in Ops, Block(i, o) PROVE ConnInv'
  BY <1>3 DEF Block
<1>4. ASSUME NEW i \in Instances, NEW o \in Ops, Begin(i, o) PROVE ConnInv'
  BY <1>4 DEF Begin, FirstStage, AllOps, DiagOps, Unless
<1>5. ASSUME NEW i \in Instances, Deauth(i) PROVE ConnInv'
  BY <1>5 DEF Deauth, Goto
<1>6. ASSUME NEW i \in Instances, DataStop(i) PROVE ConnInv'
  <2>1. CASE StopsEth(i) BY <1>6, <2>1 DEF StopsEth, Goto
  <2>2. CASE NoEth(i) BY <1>6, <2>2 DEF NoEth, Goto, AfterStop
  <2> QED BY <1>6, <2>1, <2>2, DataStopCases
<1>7. ASSUME NEW i \in Instances, Join(i) PROVE ConnInv'
  BY <1>7 DEF Join, Goto, AfterStop
<1>8. ASSUME NEW i \in Instances, JoinTimeout(i) PROVE ConnInv'
  BY <1>8 DEF JoinTimeout, Goto, AfterStop
<1>9. ASSUME NEW i \in Instances, Halt(i) PROVE ConnInv'
  BY <1>9 DEF Halt, Goto, trx_free, hw_power, HaltTo, Healed
<1>10. ASSUME NEW i \in Instances, Unpublish(i) PROVE ConnInv'
  <2>1. Unpublishes(i)
    BY <1>10, <1>u
  <2>2. ~connected
    <3>1. stage[i] = "unpublish" /\ op[i] = "stop"
      BY <2>1 DEF Unpublishes
    <3> HIDE DEF TypeOK, InstanceInv, ControlInv, OneOp, ScanInv, PathInv
    <3> QED BY <3>1
  <2>3. ~connected'
    BY <2>1, <2>2 DEF Unpublishes
  <2> QED BY <2>3
<1>11. ASSUME NEW i \in Instances, Free(i) PROVE ConnInv'
  BY <1>11 DEF Free, Goto
<1>12. ASSUME NEW i \in Instances, Enable(i) PROVE ConnInv'
  BY <1>12 DEF Enable, Goto, hw_power
<1>13. ASSUME NEW i \in Instances, Release(i) PROVE ConnInv'
  BY <1>13 DEF Release, Goto, trx_free, hw_power
<1>14. ASSUME NEW i \in Instances, NEW ok \in BOOLEAN, PowerOn(i, ok) PROVE ConnInv'
  BY <1>14 DEF PowerOn, Goto
<1>15. ASSUME NEW i \in Instances, NEW ok \in BOOLEAN, Program(i, ok) PROVE ConnInv'
  BY <1>15 DEF Program, mac_init, Goto
<1>16. ASSUME NEW i \in Instances, NEW ok \in BOOLEAN, Associate(i, ok) PROVE ConnInv'
  BY <1>16 DEF Associate, Goto
<1>17. ASSUME NEW i \in Instances, NEW ok \in BOOLEAN, DataStart(i, ok) PROVE ConnInv'
  BY <1>17 DEF DataStart, Goto, CanStartData, Unless
<1>18. ASSUME NEW i \in Instances, NEW ok \in BOOLEAN, Sweep(i, ok) PROVE ConnInv'
  BY <1>18 DEF Sweep, Goto
<1>19. ASSUME NEW i \in Instances, NEW ok \in BOOLEAN, Search(i, ok) PROVE ConnInv'
  BY <1>19 DEF Search, Goto
<1>20. ASSUME NEW i \in Instances, NEW r \in {"full", "txonly", "none"}, Rings(i, r) PROVE ConnInv'
  BY <1>20 DEF Rings, regWriteDma, Goto
<1>21. ASSUME NEW i \in Instances, RxExit(i) PROVE ConnInv'
  BY <1>21 DEF RxExit
<1>22. ASSUME NEW i \in Instances, HungExit(i) PROVE ConnInv'
  BY <1>22 DEF HungExit
<1>23. CASE UNCHANGED vars
  BY <1>23 DEF vars
<1> HIDE KctlConstants, SerialBefore DEF SerialInv, TypeOK, Instances, Stages, probed, OneOp,
   Serial, Idle, InstanceInv, ControlInv, ControlAt, connected, scanActive, alive, Bringup,
   FreshOps, DiagOps, AllOps, PathInv, PathAt, ScanInv, ConnInv, lifeVars, ctlVars, dataVars,
   devVars, trxVars, connVars
<1>24. ASSUME NEW i \in Instances, Step(i) PROVE ConnInv'
  BY <1>24, <1>5, <1>6, <1>7, <1>8, <1>9, <1>10, <1>11, <1>12, <1>13, <1>14, <1>15, <1>16, <1>17,
     <1>18, <1>19, <1>20 DEF Step
<1> QED BY <1>1, <1>2, <1>3, <1>4, <1>21, <1>22, <1>23, <1>24 DEF Next

(* Each action keeps what is said of a connection.                         *)
LEMMA LiveStep ==
  ASSUME TypeOK, TypeOK', SerialInv, [Next]_vars, Serial'
  PROVE  LiveInv'
<1>d. Die => Dies
  BY DieStages
<1>u. ASSUME NEW i \in Instances, Unpublish(i) PROVE Unpublishes(i)
  BY <1>u, UnpublishStages DEF SerialInv
<1>o. PathInv /\ ConnInv /\ LiveInv
  BY DEF SerialInv
<1> USE KctlConstants, SerialBefore DEF SerialInv, TypeOK, Instances, Stages, probed, OneOp,
        Serial, Idle, InstanceInv, ControlInv, ControlAt, connected, scanActive, alive, Bringup,
        FreshOps, DiagOps, AllOps, OffInv, PathInv, PathAt, ConnInv, LiveInv, AssocInv, RxWorks,
        TxWorks,
        lifeVars, ctlVars, dataVars, devVars, trxVars, connVars
<1>1. ASSUME NEW r \in {"ok", "nolock", "nobar"}, Start(r) PROVE LiveInv'
  BY <1>1 DEF Start, Unless
<1>2. CASE Die
  BY <1>2, <1>d DEF Dies
<1>3. ASSUME NEW i \in Instances, NEW o \in Ops, Block(i, o) PROVE LiveInv'
  BY <1>3 DEF Block
<1>4. ASSUME NEW i \in Instances, NEW o \in Ops, Begin(i, o) PROVE LiveInv'
  BY <1>4 DEF Begin, FirstStage, AllOps, DiagOps, Unless
<1>5. ASSUME NEW i \in Instances, Deauth(i) PROVE LiveInv'
  BY <1>5 DEF Deauth, Goto
<1>6. ASSUME NEW i \in Instances, DataStop(i) PROVE LiveInv'
  <2>1. CASE StopsEth(i) BY <1>6, <2>1 DEF StopsEth, Goto
  <2>2. CASE NoEth(i)
    <3>1. UNCHANGED <<inst, fEth, dead, busMaster, cr, rxBase, txBase, mishaps, g_cur_connected>>
      BY <2>2 DEF NoEth
    <3>2. SUFFICES ASSUME connected, dead = 0, "diagnostic" \notin mishaps
                   PROVE  LiveInv'
      BY <3>1
    <3>3. op[i] \notin DiagOps
      BY <3>2
    <3>4. stage'[i] = "halt" /\ op' = op
      BY <2>2, <3>3 DEF NoEth, Goto, AfterStop
    <3> QED BY <3>1, <3>2, <3>4
  <2> QED BY <1>6, <2>1, <2>2, DataStopCases
<1>7. ASSUME NEW i \in Instances, Join(i) PROVE LiveInv'
  BY <1>7 DEF Join, Goto, AfterStop
<1>8. ASSUME NEW i \in Instances, JoinTimeout(i) PROVE LiveInv'
  BY <1>8 DEF JoinTimeout, Goto, AfterStop
<1>9. ASSUME NEW i \in Instances, Halt(i) PROVE LiveInv'
  BY <1>9 DEF Halt, Goto, trx_free, hw_power, HaltTo, Healed
<1>10. ASSUME NEW i \in Instances, Unpublish(i) PROVE LiveInv'
  BY <1>10, <1>u, SMTT(20) DEF Unpublishes
<1>11. ASSUME NEW i \in Instances, Free(i) PROVE LiveInv'
  BY <1>11 DEF Free, Goto
<1>12. ASSUME NEW i \in Instances, Enable(i) PROVE LiveInv'
  BY <1>12 DEF Enable, Goto, hw_power
<1>13. ASSUME NEW i \in Instances, Release(i) PROVE LiveInv'
  <2>1. stage[i] = "release" /\ UNCHANGED <<dead, mishaps, g_cur_connected>>
    BY <1>13 DEF Release, trx_free
  <2>2. ~connected \/ op[i] \in DiagOps
    <3> HIDE DEF SerialInv, TypeOK, InstanceInv, ControlInv, OneOp, OffInv, LiveInv, AssocInv
    <3> QED BY <1>o, <2>1
  <2>3. ~(connected /\ dead = 0 /\ "diagnostic" \notin mishaps)
    <3> HIDE DEF SerialInv, TypeOK, InstanceInv, ControlInv, OneOp, OffInv, PathInv, ConnInv,
       AssocInv
    <3> QED BY <1>o, <2>2
  <2>4. ~(connected /\ dead = 0 /\ "diagnostic" \notin mishaps)'
    BY <2>1, <2>3
  <2> QED BY <2>4
<1>14. ASSUME NEW i \in Instances, NEW ok \in BOOLEAN, PowerOn(i, ok) PROVE LiveInv'
  <2>1. stage[i] = "power" /\ UNCHANGED <<dead, mishaps, g_cur_connected>>
    BY <1>14 DEF PowerOn
  <2>2. ~connected \/ op[i] \in DiagOps
    <3> HIDE DEF SerialInv, TypeOK, InstanceInv, ControlInv, OneOp, OffInv, LiveInv, AssocInv
    <3> QED BY <1>o, <2>1
  <2>3. ~(connected /\ dead = 0 /\ "diagnostic" \notin mishaps)
    <3> HIDE DEF SerialInv, TypeOK, InstanceInv, ControlInv, OneOp, OffInv, PathInv, ConnInv,
       AssocInv
    <3> QED BY <1>o, <2>2
  <2>4. ~(connected /\ dead = 0 /\ "diagnostic" \notin mishaps)'
    BY <2>1, <2>3
  <2> QED BY <2>4
<1>15. ASSUME NEW i \in Instances, NEW ok \in BOOLEAN, Program(i, ok) PROVE LiveInv'
  BY <1>15 DEF Program, mac_init, Goto
<1>16. ASSUME NEW i \in Instances, NEW ok \in BOOLEAN, Associate(i, ok) PROVE LiveInv'
  BY <1>16 DEF Associate, Goto
<1>17. ASSUME NEW i \in Instances, NEW ok \in BOOLEAN, DataStart(i, ok) PROVE LiveInv'
  <2>1. /\ stage[i] = "data" /\ op[i] = "connect"
        /\ UNCHANGED <<inst, dead, busMaster, cr, rxBase, txBase>>
        /\ \A j \in Instances : op'[j] = "none"
    BY <1>17 DEF DataStart, Goto
  <2>2. RxWorks \/ dead = 1
    BY <2>1
  <2>3. CASE ok
    <3>1. fEth'[inst] = 1
      BY <1>17, <2>3 DEF DataStart, CanStartData
    <3> HIDE DEF SerialInv, TypeOK, AssocInv, OneOp, InstanceInv, ControlInv, OffInv, PathInv,
       ConnInv
    <3> QED BY <2>1, <2>2, <3>1
  <2>4. CASE ~ok
    <3>1. ~connected'
      BY <1>17, <2>1, <2>4 DEF DataStart
    <3> QED BY <3>1
  <2> QED BY <2>3, <2>4
<1>18. ASSUME NEW i \in Instances, NEW ok \in BOOLEAN, Sweep(i, ok) PROVE LiveInv'
  BY <1>18 DEF Sweep, Goto
<1>19. ASSUME NEW i \in Instances, NEW ok \in BOOLEAN, Search(i, ok) PROVE LiveInv'
  BY <1>19 DEF Search, Goto
<1>20. ASSUME NEW i \in Instances, NEW r \in {"full", "txonly", "none"}, Rings(i, r) PROVE LiveInv'
  BY <1>20 DEF Rings, regWriteDma, Goto
<1>21. ASSUME NEW i \in Instances, RxExit(i) PROVE LiveInv'
  BY <1>21 DEF RxExit
<1>22. ASSUME NEW i \in Instances, HungExit(i) PROVE LiveInv'
  BY <1>22 DEF HungExit
<1>23. CASE UNCHANGED vars
  BY <1>23 DEF vars
<1> HIDE KctlConstants, SerialBefore DEF SerialInv, TypeOK, Instances, Stages, probed, OneOp,
   Serial, Idle, InstanceInv, ControlInv, ControlAt, connected, scanActive, alive, Bringup,
   FreshOps, DiagOps, AllOps, OffInv, PathInv, PathAt, ConnInv, LiveInv, AssocInv, RxWorks,
   TxWorks, lifeVars, ctlVars, dataVars, devVars, trxVars, connVars
<1>24. ASSUME NEW i \in Instances, Step(i) PROVE LiveInv'
  BY <1>24, <1>5, <1>6, <1>7, <1>8, <1>9, <1>10, <1>11, <1>12, <1>13, <1>14, <1>15, <1>16, <1>17,
     <1>18, <1>19, <1>20 DEF Step
<1> QED BY <1>1, <1>2, <1>3, <1>4, <1>21, <1>22, <1>23, <1>24 DEF Next

(* Each action keeps the chip running under an association.                *)
LEMMA AssocStep ==
  ASSUME TypeOK, TypeOK', SerialInv, [Next]_vars, Serial'
  PROVE  AssocInv'
<1>d. Die => Dies
  BY DieStages
<1>u. ASSUME NEW i \in Instances, Unpublish(i) PROVE Unpublishes(i)
  BY <1>u, UnpublishStages DEF SerialInv
<1> USE KctlConstants, SerialBefore DEF SerialInv, TypeOK, Instances, Stages, probed, OneOp,
        Serial, Idle, InstanceInv, ControlInv, ControlAt, connected, scanActive, alive, Bringup,
        FreshOps, DiagOps, AllOps, PathInv, PathAt, AssocInv, RxWorks, TxWorks,
        lifeVars, ctlVars, dataVars, devVars, trxVars, connVars
<1>1. ASSUME NEW r \in {"ok", "nolock", "nobar"}, Start(r) PROVE AssocInv'
  BY <1>1 DEF Start, Unless
<1>2. CASE Die
  BY <1>2, <1>d DEF Dies
<1>3. ASSUME NEW i \in Instances, NEW o \in Ops, Block(i, o) PROVE AssocInv'
  BY <1>3 DEF Block
<1>4. ASSUME NEW i \in Instances, NEW o \in Ops, Begin(i, o) PROVE AssocInv'
  BY <1>4 DEF Begin, FirstStage, AllOps, DiagOps, Unless
<1>5. ASSUME NEW i \in Instances, Deauth(i) PROVE AssocInv'
  BY <1>5 DEF Deauth, Goto
<1>6. ASSUME NEW i \in Instances, DataStop(i) PROVE AssocInv'
  <2>1. CASE StopsEth(i) BY <1>6, <2>1 DEF StopsEth, Goto
  <2>2. CASE NoEth(i) BY <1>6, <2>2 DEF NoEth, Goto, AfterStop
  <2> QED BY <1>6, <2>1, <2>2, DataStopCases
<1>7. ASSUME NEW i \in Instances, Join(i) PROVE AssocInv'
  BY <1>7 DEF Join, Goto, AfterStop
<1>8. ASSUME NEW i \in Instances, JoinTimeout(i) PROVE AssocInv'
  BY <1>8 DEF JoinTimeout, Goto, AfterStop
<1>9. ASSUME NEW i \in Instances, Halt(i) PROVE AssocInv'
  BY <1>9 DEF Halt, Goto, trx_free, hw_power, HaltTo, Healed
<1>10. ASSUME NEW i \in Instances, Unpublish(i) PROVE AssocInv'
  BY <1>10, <1>u, SMTT(20) DEF Unpublishes
<1>11. ASSUME NEW i \in Instances, Free(i) PROVE AssocInv'
  BY <1>11 DEF Free, Goto
<1>12. ASSUME NEW i \in Instances, Enable(i) PROVE AssocInv'
  BY <1>12 DEF Enable, Goto, hw_power
<1>13. ASSUME NEW i \in Instances, Release(i) PROVE AssocInv'
  BY <1>13 DEF Release, Goto, trx_free, hw_power
<1>14. ASSUME NEW i \in Instances, NEW ok \in BOOLEAN, PowerOn(i, ok) PROVE AssocInv'
  BY <1>14 DEF PowerOn, Goto
<1>15. ASSUME NEW i \in Instances, NEW ok \in BOOLEAN, Program(i, ok) PROVE AssocInv'
  BY <1>15 DEF Program, mac_init, Goto
<1>16. ASSUME NEW i \in Instances, NEW ok \in BOOLEAN, Associate(i, ok) PROVE AssocInv'
  BY <1>16 DEF Associate, Goto
<1>17. ASSUME NEW i \in Instances, NEW ok \in BOOLEAN, DataStart(i, ok) PROVE AssocInv'
  BY <1>17 DEF DataStart, Goto, CanStartData, Unless
<1>18. ASSUME NEW i \in Instances, NEW ok \in BOOLEAN, Sweep(i, ok) PROVE AssocInv'
  BY <1>18 DEF Sweep, Goto
<1>19. ASSUME NEW i \in Instances, NEW ok \in BOOLEAN, Search(i, ok) PROVE AssocInv'
  BY <1>19 DEF Search, Goto
<1>20. ASSUME NEW i \in Instances, NEW r \in {"full", "txonly", "none"}, Rings(i, r) PROVE AssocInv'
  BY <1>20 DEF Rings, regWriteDma, Goto
<1>21. ASSUME NEW i \in Instances, RxExit(i) PROVE AssocInv'
  BY <1>21 DEF RxExit
<1>22. ASSUME NEW i \in Instances, HungExit(i) PROVE AssocInv'
  BY <1>22 DEF HungExit
<1>23. CASE UNCHANGED vars
  BY <1>23 DEF vars
<1> HIDE KctlConstants, SerialBefore DEF SerialInv, TypeOK, Instances, Stages, probed, OneOp,
   Serial, Idle, InstanceInv, ControlInv, ControlAt, connected, scanActive, alive, Bringup,
   FreshOps, DiagOps, AllOps, PathInv, PathAt, AssocInv, RxWorks, TxWorks, lifeVars, ctlVars,
   dataVars, devVars, trxVars, connVars
<1>24. ASSUME NEW i \in Instances, Step(i) PROVE AssocInv'
  BY <1>24, <1>5, <1>6, <1>7, <1>8, <1>9, <1>10, <1>11, <1>12, <1>13, <1>14, <1>15, <1>16, <1>17,
     <1>18, <1>19, <1>20 DEF Step
<1> QED BY <1>1, <1>2, <1>3, <1>4, <1>21, <1>22, <1>23, <1>24 DEF Next

(* Each action keeps what is said of a bring-up.                           *)
LEMMA FreshStep ==
  ASSUME TypeOK, TypeOK', SerialInv, [Next]_vars, Serial'
  PROVE  FreshInv'
<1>d. Die => Dies
  BY DieStages
<1>u. ASSUME NEW i \in Instances, Unpublish(i) PROVE Unpublishes(i)
  BY <1>u, UnpublishStages DEF SerialInv
<1>o. \A i \in Instances : stage[i] # "idle" => op[i] \in AllOps
  BY KctlConstants DEF TypeOK
<1> USE KctlConstants, SerialBefore DEF SerialInv, TypeOK, Instances, Stages, probed, OneOp,
        Serial, Idle, InstanceInv, ControlInv, ControlAt, connected, scanActive, alive, Bringup,
        FreshOps, DiagOps, AllOps, PathInv, PathAt, OffInv, FreshInv, FreshAt,
        lifeVars, ctlVars, dataVars, devVars, trxVars, connVars
<1>1. ASSUME NEW r \in {"ok", "nolock", "nobar"}, Start(r) PROVE FreshInv'
  BY <1>1 DEF Start, Unless
<1>2. CASE Die
  BY <1>2, <1>d DEF Dies
<1>3. ASSUME NEW i \in Instances, NEW o \in Ops, Block(i, o) PROVE FreshInv'
  BY <1>3 DEF Block
<1>4. ASSUME NEW i \in Instances, NEW o \in Ops, Begin(i, o) PROVE FreshInv'
  <2>1. /\ op' = [op EXCEPT ![i] = o] /\ stage' = [stage EXCEPT ![i] = FirstStage(o)]
        /\ UNCHANGED <<inst, fEth, rxBase, cr, g_scan_active>>
    BY <1>4 DEF Begin
  <2>2. FirstStage(o) \in Bringup => o \notin FreshOps
    <3> HIDE DEF SerialInv, TypeOK
    <3> QED BY DEF FirstStage
  <2>3. ASSUME NEW k \in Instances PROVE FreshAt(k)'
    <3>1. CASE k = i
      <4>1. op'[k] = o /\ stage'[k] = FirstStage(o)
        BY <2>1, <3>1
      <4>2. stage'[k] \in Bringup => op'[k] \notin FreshOps
        BY <2>2, <4>1
      <4> HIDE DEF SerialInv, TypeOK
      <4> QED BY <4>2
    <3>2. CASE k # i
      <4>1. FreshAt(k) /\ op'[k] = op[k] /\ stage'[k] = stage[k]
        BY <2>1, <3>2, SMTT(20)
      <4> HIDE DEF SerialInv, TypeOK
      <4> QED BY <2>1, <4>1
    <3> QED BY <3>1, <3>2
  <2> HIDE DEF FreshAt
  <2> QED BY <2>3
<1>5. ASSUME NEW i \in Instances, Deauth(i) PROVE FreshInv'
  BY <1>5 DEF Deauth, Goto
<1>6. ASSUME NEW i \in Instances, DataStop(i) PROVE FreshInv'
  <2>1. CASE StopsEth(i) BY <1>6, <2>1 DEF StopsEth, Goto
  <2>2. CASE NoEth(i) BY <1>6, <2>2 DEF NoEth, Goto, AfterStop
  <2> QED BY <1>6, <2>1, <2>2, DataStopCases
<1>7. ASSUME NEW i \in Instances, Join(i) PROVE FreshInv'
  BY <1>7 DEF Join, Goto, AfterStop
<1>8. ASSUME NEW i \in Instances, JoinTimeout(i) PROVE FreshInv'
  BY <1>8 DEF JoinTimeout, Goto, AfterStop
<1>9. ASSUME NEW i \in Instances, Halt(i) PROVE FreshInv'
  <2>1. FreshAt(i) /\ stage[i] = "halt" /\ \A k \in Instances : FreshAt(k)
    BY <1>9 DEF Halt
  <2>3. op[i] \in AllOps
    BY <1>o, <2>1, Zenon
  <2>2. Goto(i, HaltTo(op[i]))
    BY <1>9, Zenon DEF Halt
  <2>b. inst \in Instances
    BY <1>9 DEF Halt
  <2>a. /\ UNCHANGED <<inst, fEth>>
        /\ op[i] \in FreshOps => rxBase' = 0 /\ cr' = 0
        /\ \A j \in Instances : fEth[j] = 0
        /\ \A k \in Instances : k # i => op[k] = "none" /\ stage[k] = "idle"
        /\ PathAt(i)
    BY <1>9 DEF Halt, trx_free
  <2> HIDE DEF SerialInv, TypeOK, FreshInv
  <2>8. /\ \/ stage'[i] = HaltTo(op[i]) /\ op'[i] = IF HaltTo(op[i]) = "idle" THEN "none" ELSE op[i]
        /\ \A k \in Instances : k # i => stage'[k] = stage[k] /\ op'[k] = op[k]
    BY <2>2, GotoAt
  <2>9. ASSUME NEW k \in Instances PROVE FreshAt(k)'
    <3>1. CASE k = i
      BY <2>1, <2>3, <2>8, <3>1, <2>a, <2>b DEF AfterStop, HaltTo
    <3>2. CASE k # i
      BY <2>1, <2>8, <3>2, <2>a, <2>b
    <3> QED BY <3>1, <3>2
  <2> HIDE DEF FreshAt
  <2> QED BY <2>9 DEF FreshInv
<1>10. ASSUME NEW i \in Instances, Unpublish(i) PROVE FreshInv'
  BY <1>10, <1>u, SMTT(20) DEF Unpublishes
<1>11. ASSUME NEW i \in Instances, Free(i) PROVE FreshInv'
  BY <1>11 DEF Free, Goto
<1>12. ASSUME NEW i \in Instances, Enable(i) PROVE FreshInv'
  BY <1>12 DEF Enable, Goto, hw_power
<1>13. ASSUME NEW i \in Instances, Release(i) PROVE FreshInv'
  BY <1>13 DEF Release, Goto, trx_free, hw_power
<1>14. ASSUME NEW i \in Instances, NEW ok \in BOOLEAN, PowerOn(i, ok) PROVE FreshInv'
  BY <1>14 DEF PowerOn, Goto
<1>15. ASSUME NEW i \in Instances, NEW ok \in BOOLEAN, Program(i, ok) PROVE FreshInv'
  BY <1>15 DEF Program, mac_init, Goto
<1>16. ASSUME NEW i \in Instances, NEW ok \in BOOLEAN, Associate(i, ok) PROVE FreshInv'
  BY <1>16 DEF Associate, Goto
<1>17. ASSUME NEW i \in Instances, NEW ok \in BOOLEAN, DataStart(i, ok) PROVE FreshInv'
  BY <1>17 DEF DataStart, Goto, CanStartData, Unless
<1>18. ASSUME NEW i \in Instances, NEW ok \in BOOLEAN, Sweep(i, ok) PROVE FreshInv'
  BY <1>18 DEF Sweep, Goto
<1>19. ASSUME NEW i \in Instances, NEW ok \in BOOLEAN, Search(i, ok) PROVE FreshInv'
  BY <1>19 DEF Search, Goto
<1>20. ASSUME NEW i \in Instances, NEW r \in {"full", "txonly", "none"}, Rings(i, r) PROVE FreshInv'
  BY <1>20 DEF Rings, regWriteDma, Goto
<1>21. ASSUME NEW i \in Instances, RxExit(i) PROVE FreshInv'
  BY <1>21 DEF RxExit
<1>22. ASSUME NEW i \in Instances, HungExit(i) PROVE FreshInv'
  BY <1>22 DEF HungExit
<1>23. CASE UNCHANGED vars
  BY <1>23 DEF vars
<1> HIDE KctlConstants, SerialBefore DEF SerialInv, TypeOK, Instances, Stages, probed, OneOp,
   Serial, Idle, InstanceInv, ControlInv, ControlAt, connected, scanActive, alive, Bringup,
   FreshOps, DiagOps, AllOps, PathInv, PathAt, OffInv, FreshInv, FreshAt, lifeVars, ctlVars,
   dataVars, devVars, trxVars, connVars
<1>24. ASSUME NEW i \in Instances, Step(i) PROVE FreshInv'
  BY <1>24, <1>5, <1>6, <1>7, <1>8, <1>9, <1>10, <1>11, <1>12, <1>13, <1>14, <1>15, <1>16, <1>17,
     <1>18, <1>19, <1>20 DEF Step
<1> QED BY <1>1, <1>2, <1>3, <1>4, <1>21, <1>22, <1>23, <1>24 DEF Next

(* Each action keeps what is said of the running chip.                     *)
LEMMA QuietStep ==
  ASSUME TypeOK, TypeOK', SerialInv, [Next]_vars, Serial'
  PROVE  QuietInv'
<1>d. Die => Dies
  BY DieStages
<1>u. ASSUME NEW i \in Instances, Unpublish(i) PROVE Unpublishes(i)
  BY <1>u, UnpublishStages DEF SerialInv
<1> USE KctlConstants, SerialBefore DEF SerialInv, TypeOK, Instances, Stages, probed, OneOp,
        Serial, Idle, InstanceInv, ControlInv, ControlAt, connected, scanActive, alive, Bringup,
        FreshOps, DiagOps, AllOps, PathInv, PathAt, ScanInv, FreshInv, FreshAt, OffInv, ConnInv,
        QuietInv, Using, TxWorks,
        lifeVars, ctlVars, dataVars, devVars, trxVars, connVars
<1>1. ASSUME NEW r \in {"ok", "nolock", "nobar"}, Start(r) PROVE QuietInv'
  BY <1>1 DEF Start, Unless
<1>2. CASE Die
  BY <1>2, <1>d DEF Dies
<1>3. ASSUME NEW i \in Instances, NEW o \in Ops, Block(i, o) PROVE QuietInv'
  BY <1>3 DEF Block
<1>4. ASSUME NEW i \in Instances, NEW o \in Ops, Begin(i, o) PROVE QuietInv'
  BY <1>4 DEF Begin, FirstStage, AllOps, DiagOps, Unless
<1>5. ASSUME NEW i \in Instances, Deauth(i) PROVE QuietInv'
  BY <1>5 DEF Deauth, Goto
<1>6. ASSUME NEW i \in Instances, DataStop(i) PROVE QuietInv'
  <2>1. CASE StopsEth(i) BY <1>6, <2>1 DEF StopsEth, Goto
  <2>2. CASE NoEth(i) BY <1>6, <2>2 DEF NoEth, Goto, AfterStop
  <2> QED BY <1>6, <2>1, <2>2, DataStopCases
<1>7. ASSUME NEW i \in Instances, Join(i) PROVE QuietInv'
  BY <1>7 DEF Join, Goto, AfterStop
<1>8. ASSUME NEW i \in Instances, JoinTimeout(i) PROVE QuietInv'
  BY <1>8 DEF JoinTimeout, Goto, AfterStop
<1>9. ASSUME NEW i \in Instances, Halt(i) PROVE QuietInv'
  BY <1>9 DEF Halt, Goto, trx_free, hw_power, HaltTo, Healed
<1>10. ASSUME NEW i \in Instances, Unpublish(i) PROVE QuietInv'
  BY <1>10, <1>u, SMTT(20) DEF Unpublishes
<1>11. ASSUME NEW i \in Instances, Free(i) PROVE QuietInv'
  BY <1>11 DEF Free, Goto
<1>12. ASSUME NEW i \in Instances, Enable(i) PROVE QuietInv'
  BY <1>12 DEF Enable, Goto, hw_power
<1>13. ASSUME NEW i \in Instances, Release(i) PROVE QuietInv'
  BY <1>13 DEF Release, Goto, trx_free, hw_power
<1>14. ASSUME NEW i \in Instances, NEW ok \in BOOLEAN, PowerOn(i, ok) PROVE QuietInv'
  BY <1>14 DEF PowerOn, Goto
<1>15. ASSUME NEW i \in Instances, NEW ok \in BOOLEAN, Program(i, ok) PROVE QuietInv'
  BY <1>15 DEF Program, mac_init, Goto
<1>16. ASSUME NEW i \in Instances, NEW ok \in BOOLEAN, Associate(i, ok) PROVE QuietInv'
  BY <1>16 DEF Associate, Goto
<1>17. ASSUME NEW i \in Instances, NEW ok \in BOOLEAN, DataStart(i, ok) PROVE QuietInv'
  BY <1>17 DEF DataStart, Goto, CanStartData, Unless
<1>18. ASSUME NEW i \in Instances, NEW ok \in BOOLEAN, Sweep(i, ok) PROVE QuietInv'
  BY <1>18 DEF Sweep, Goto
<1>19. ASSUME NEW i \in Instances, NEW ok \in BOOLEAN, Search(i, ok) PROVE QuietInv'
  BY <1>19 DEF Search, Goto
<1>20. ASSUME NEW i \in Instances, NEW r \in {"full", "txonly", "none"}, Rings(i, r) PROVE QuietInv'
  BY <1>20 DEF Rings, regWriteDma, Goto
<1>21. ASSUME NEW i \in Instances, RxExit(i) PROVE QuietInv'
  BY <1>21 DEF RxExit
<1>22. ASSUME NEW i \in Instances, HungExit(i) PROVE QuietInv'
  BY <1>22 DEF HungExit
<1>23. CASE UNCHANGED vars
  BY <1>23 DEF vars
<1> HIDE KctlConstants, SerialBefore DEF SerialInv, TypeOK, Instances, Stages, probed, OneOp,
   Serial, Idle, InstanceInv, ControlInv, ControlAt, connected, scanActive, alive, Bringup,
   FreshOps, DiagOps, AllOps, PathInv, PathAt, ScanInv, FreshInv, FreshAt, OffInv, ConnInv,
   QuietInv, Using, TxWorks, lifeVars, ctlVars, dataVars, devVars, trxVars, connVars
<1>24. ASSUME NEW i \in Instances, Step(i) PROVE QuietInv'
  BY <1>24, <1>5, <1>6, <1>7, <1>8, <1>9, <1>10, <1>11, <1>12, <1>13, <1>14, <1>15, <1>16, <1>17,
     <1>18, <1>19, <1>20 DEF Step
<1> QED BY <1>1, <1>2, <1>3, <1>4, <1>21, <1>22, <1>23, <1>24 DEF Next

(* The inductive step: every part is kept while operations do not overlap. *)
LEMMA InvStep == IInv /\ [Next]_vars => IInv'
<1> SUFFICES ASSUME IInv, [Next]_vars PROVE IInv'
  OBVIOUS
<1>1. TypeOK /\ TypeOK'
  BY TypeStep DEF IInv
<1>2. ASSUME Serial' PROVE SerialInv'
  <2>1. Serial
    BY <1>2, SerialBefore
  <2>2. SerialInv
    BY <2>1 DEF IInv
  <2>3. OneOp' /\ InstanceInv' /\ ControlInv' /\ HungInv'
    BY <1>1, <1>2, <2>2, OneOpStep, InstanceStep, ControlStep, HungStep
  <2>4. PathInv' /\ ScanInv' /\ OffInv' /\ ConnInv'
    BY <1>1, <1>2, <2>2, PathStep, ScanStep, OffStep, ConnStep
  <2>5. LiveInv' /\ AssocInv' /\ FreshInv' /\ QuietInv'
    BY <1>1, <1>2, <2>2, LiveStep, AssocStep, FreshStep, QuietStep
  <2> QED BY <2>3, <2>4, <2>5 DEF SerialInv
<1> QED BY <1>1, <1>2 DEF IInv

(* The inductive invariant holds of every behaviour.                       *)
LEMMA Invariance == Spec => []IInv
  BY InitInv, InvStep, PTL DEF Spec

(* The types of the control plane; and whatever overlaps, a lock is held   *)
(* exactly while the operation that took it is under way.                  *)
THEOREM TypeCorrect == Spec => []TypeOK
<1>1. IInv => TypeOK
  BY DEF IInv
<1> QED BY <1>1, Invariance, PTL

(* As long as operations of two instances do not overlap, no RX thread,    *)
(* running, being joined or abandoned by stopData, runs over memory that   *)
(* RTW88Server::stop released.                                             *)
THEOREM MemorySafety == Spec => []NoUseAfterFree
<1>1. IInv => NoUseAfterFree
  <2> SUFFICES ASSUME TypeOK, SerialInv, NEW i \in Instances, HasThread(i)
               PROVE  mem[i] = "held"
    BY DEF IInv, NoUseAfterFree
  <2>1. hung[i] > 0 => mem[i] = "held"
    BY DEF SerialInv, HungInv
  <2>2. fEth[i] = 1 => i = up
    BY DEF SerialInv, ControlInv, ControlAt
  <2>3. (\E j \in Instances : eth[j] # "none" /\ from[j] = i) => i = up
    BY DEF SerialInv, ControlInv, ControlAt
  <2>4. i = up => mem[i] = "held"
    BY DEF SerialInv, InstanceInv, Instances
  <2> QED BY <2>1, <2>2, <2>3, <2>4 DEF HasThread
<1> QED BY <1>1, Invariance, PTL

(* As long as operations of two instances do not overlap, a streamed scan  *)
(* (rtw_kctl_scan_chunk) and a connection never coexist.                   *)
THEOREM ScanExclusion == Spec => []ScanExcludesConnection
<1>1. IInv => ScanExcludesConnection
  BY DEF IInv, SerialInv, ScanInv, ScanExcludesConnection
<1> QED BY <1>1, Invariance, PTL

(* As long as operations of two instances do not overlap,                  *)
(* RTW88Server::stop releases DMA memory only when the chip is quiesced    *)
(* and no RX thread of the instance is left.                               *)
THEOREM QuietRelease == Spec => FreeOnlyWhenQuiet
<1> DEFINE Quiet(i) == Serial /\ mem[i] = "held" /\ mem'[i] = "freed" =>
             busMaster = 0 /\ cr = 0 /\ rxBase # i /\ ~HasThread(i)
<1>1. IInv /\ [Next]_vars => \A i \in Instances : Quiet(i)
  <2> SUFFICES ASSUME IInv, [Next]_vars, NEW i \in Instances, Serial,
                      mem[i] = "held", mem'[i] = "freed"
               PROVE  busMaster = 0 /\ cr = 0 /\ rxBase # i /\ ~HasThread(i)
    OBVIOUS
  <2>1. TypeOK /\ SerialInv
    BY DEF IInv
  <2>2. ASSUME NEW r \in {"ok", "nolock", "nobar"}, Start(r) PROVE FALSE
    <3>1. i = inst + 1 => mem[i] = "unused"
      BY <2>1 DEF SerialInv, InstanceInv, TypeOK, Instances
    <3>2. i # inst + 1 => mem'[i] = mem[i]
      BY <2>1, <2>2 DEF Start, TypeOK, lifeVars
    <3> QED BY <3>1, <3>2
  <2>3. PICK j \in Instances : Free(j)
    BY <2>2 DEF Next, Step, Block, Begin, Deauth, DataStop, Join, JoinTimeout,
       Halt, Enable, PowerOn, Program, Associate, DataStart, Rings, Sweep, Unpublish, Die,
       Search, Release, RxExit, HungExit, lifeVars, vars
  <2>4. i = j /\ stage[i] = "free" /\ fDataStopClean[i] = 1
    BY <2>1, <2>3 DEF Free, TypeOK, trxVars
  <2>5. busMaster = 0 /\ cr = 0 /\ rxBase = 0
    BY <2>1, <2>4 DEF SerialInv, OffInv
  <2>6. fEth[i] = 0 /\ hung[i] = 0
    BY <2>1, <2>4 DEF SerialInv, HungInv, ControlInv, ControlAt, TypeOK
  <2>7. \A k \in Instances : eth[k] = "none"
    BY <2>1, <2>4 DEF SerialInv, OneOp, ControlInv, ControlAt, TypeOK
  <2> QED BY <2>5, <2>6, <2>7 DEF HasThread, Instances
<1>2. IInv /\ [Next]_vars => [\A i \in Instances : Quiet(i)]_vars
  BY <1>1
<1>3. Spec => [][\A i \in Instances : Quiet(i)]_vars
  BY <1>2, Invariance, PTL DEF Spec
<1> QED BY <1>3 DEF FreeOnlyWhenQuiet

(* As long as operations of two instances do not overlap and no diagnostic *)
(* selector ran under the connection, whatever the faults, a connection    *)
(* that is reported has a running data path on the current instance, or    *)
(* the device is gone, or its teardown is in progress.                     *)
THEOREM ConnectionLives == Spec => []ConnectedIsLive
<1>1. IInv => ConnectedIsLive
  <2> SUFFICES ASSUME TypeOK, SerialInv, "diagnostic" \notin mishaps, connected,
                      dead = 0, \A i \in Instances : stage[i] \notin {"join", "halt"}
               PROVE  DataPathLive
    BY DEF IInv, ConnectedIsLive, TypeOK
  <2>1. probed /\ up # 0 /\ up = inst
    BY DEF SerialInv, ConnInv, TypeOK
  <2>2. busMaster = 1 /\ cr = 1 /\ rxBase = inst /\ txBase = inst /\ fEth[inst] = 1
    BY DEF SerialInv, LiveInv
  <2>3. trxOwner = inst /\ g_rx_ok = 1
    BY <2>1, <2>2 DEF SerialInv, OffInv
  <2>4. mem[inst] = "held"
    BY <2>1 DEF SerialInv, InstanceInv
  <2> QED BY <2>1, <2>2, <2>3, <2>4 DEF DataPathLive
<1> QED BY <1>1, Invariance, PTL

(* As long as operations of two instances do not overlap, the chip is      *)
(* halted before each power-on of a connect or a scan, and it writes       *)
(* memory only for a connection, a streamed scan, an operation in progress *)
(* or after a hw_data_start that failed.                                   *)
THEOREM ChipQuiesces == Spec => []ChipIsQuiet
<1>1. IInv => ChipIsQuiet
  <2> SUFFICES ASSUME TypeOK, SerialInv PROVE ChipIsQuiet
    BY DEF IInv, ChipIsQuiet
  <2>1. ASSUME NEW i \in Instances, stage[i] = "power", op[i] \notin DiagOps
        PROVE  fEth[inst] = 0 /\ eth[i] = "none" /\ rxBase = 0 /\ cr = 0
    <3>1. op[i] \in FreshOps
      BY <2>1 DEF SerialInv, PathInv, PathAt, DiagOps
    <3> QED BY <2>1, <3>1 DEF SerialInv, FreshInv, FreshAt, ControlInv, ControlAt, Bringup
  <2>2. ASSUME Idle, ~connected, ~scanActive, "datastart" \notin mishaps
        PROVE  ~(busMaster = 1 /\ cr = 1)
    BY <2>2 DEF SerialInv, QuietInv, Using, Idle, TypeOK, Bringup
  <2> QED BY <2>1, <2>2 DEF ChipIsQuiet
<1> QED BY <1>1, Invariance, PTL
=============================================================================
