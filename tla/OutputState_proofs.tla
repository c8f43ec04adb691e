------------------------- MODULE OutputState_proofs -------------------------
(***************************************************************************)
(* Proofs about OutputState: for every deque capacity and every choice of  *)
(* interfaces, as long as nobody stores the word blindly (NoBlindStore),   *)
(* the low-level tasks exclude each other and the word implements          *)
(* ExclusiveOutput; when somebody does, the one step which can lose their  *)
(* exclusion is named.                                                     *)
(***************************************************************************)
EXTENDS OutputState, TLAPS

USE DEF Owners, States, OutTasks, Serves, UsbProtocols, Sockets, UsbOut,
        AfterLoop, OutPcs, Z21Pcs, DccPcs, UsbPcs, HttpdPcs, WsPcs, Aborts

-----------------------------------------------------------------------------
(* Inv is inductive: one lemma per group of actions.                       *)

LEMMA InitInv == Init => Inv
BY OutputStateAssumption
   DEF Init, Inv, TypeOK, OnlyOwnerActive, HandOver, Active

\* Low-level tasks. Only OutStore writes the word; the task which does so is
\* the only active one, because two tasks never serve the same owner.
LEMMA OutStep ==
    ASSUME Inv, NEW t \in OutTasks, OutTask(t) \/ OutFlagged
    PROVE  Inv'
<1> USE DEF Inv, TypeOK, OnlyOwnerActive, HandOver, Active, OutGoto, z21Vars,
            wsVars
<1>1. CASE OutSwitch(t) BY <1>1 DEF OutSwitch
<1>2. CASE OutPark(t) BY <1>2 DEF OutPark
<1>3. CASE OutResume(t) BY <1>3 DEF OutResume
<1>4. CASE OutFinish(t) BY <1>4 DEF OutFinish
<1>5. CASE OutStop(t) BY <1>5 DEF OutStop
<1>6. CASE OutStore(t) BY <1>6 DEF OutStore
<1>7. CASE OutFlagged BY <1>7 DEF OutFlagged
<1>. QED BY <1>1, <1>2, <1>3, <1>4, <1>5, <1>6, <1>7 DEF OutTask

\* The Z21 service. A patient client never meets Suspend, so trackPower claims
\* the word by compare-exchange or leaves it alone.
LEMMA Z21StepInv ==
    ASSUME Inv, NoBlindStore,
           \/ \E s \in {"DCCOperations", "DCCService"} : TrackPowerOn(s)
           \/ TrackPowerOff
           \/ Z21Step
    PROVE  Inv'
<1> USE DEF Inv, TypeOK, OnlyOwnerActive, HandOver, Active, wsVars, NoBlindStore
<1>1. ASSUME NEW s \in {"DCCOperations", "DCCService"}, TrackPowerOn(s)
      PROVE  Inv'
      BY <1>1 DEF TrackPowerOn, Programming
<1>2. CASE TrackPowerOff BY <1>2 DEF TrackPowerOff
<1>3. CASE Z21WaitSuspended BY <1>3 DEF Z21WaitSuspended
<1>4. CASE Z21Clear BY <1>4 DEF Z21Clear
<1>5. CASE Z21WaitOut BY <1>5 DEF Z21WaitOut
<1>6. CASE Z21Claim BY <1>6 DEF Z21Claim
<1>7. CASE Z21Resume BY <1>7 DEF Z21Resume
<1>8. CASE Z21Push BY <1>8, OutputStateAssumption DEF Z21Push
<1>9. CASE Z21Off BY <1>9 DEF Z21Off
<1>. QED BY <1>1, <1>2, <1>3, <1>4, <1>5, <1>6, <1>7, <1>8, <1>9 DEF Z21Step

\* The DCC service task.
LEMMA DccStep ==
    ASSUME Inv, DccTask
    PROVE  Inv'
<1> USE DEF Inv, TypeOK, OnlyOwnerActive, HandOver, Active, DccGoto, Wake,
            z21Vars, wsVars
<1>1. CASE DccSwitch BY <1>1 DEF DccSwitch
<1>2. CASE DccPark BY <1>2 DEF DccPark
<1>3. CASE DccResume BY <1>3 DEF DccResume
<1>4. CASE DccOperations BY <1>4 DEF DccOperations
<1>5. CASE DccPoll BY <1>5 DEF DccPoll
<1>6. CASE DccWaitOut BY <1>6 DEF DccWaitOut
<1>7. CASE DccCleanup BY <1>7, OutputStateAssumption DEF DccCleanup
<1>8. CASE DccServiceLoop BY <1>8 DEF DccServiceLoop
<1>9. CASE DccServiceWait BY <1>9 DEF DccServiceWait
<1>10. CASE DccServiceClaim BY <1>10 DEF DccServiceClaim
<1>11. CASE DccServiceResume BY <1>11 DEF DccServiceResume
<1>12. CASE DccServe BY <1>12, OutputStateAssumption DEF DccServe
<1>13. CASE DccDrain BY <1>13 DEF DccDrain
<1>. QED BY <1>1, <1>2, <1>3, <1>4, <1>5, <1>6, <1>7, <1>8, <1>9, <1>10,
            <1>11, <1>12, <1>13 DEF DccTask

\* USB protocol tasks claim Suspended only, when no low-level task is active.
LEMMA UsbStep ==
    ASSUME Inv, NEW p \in UsbProtocols, UsbEntry(p) \/ UsbTask(p) \/ UsbFinish(p)
    PROVE  Inv'
<1> USE DEF Inv, TypeOK, OnlyOwnerActive, HandOver, Active, UsbGoto, Wake,
            z21Vars, wsVars
<1>1. CASE UsbEntry(p) BY <1>1 DEF UsbEntry
<1>2. CASE UsbClaim(p) BY <1>2 DEF UsbClaim
<1>3. CASE UsbWake(p) BY <1>3 DEF UsbWake
<1>4. CASE UsbPark(p) BY <1>4 DEF UsbPark
<1>5. CASE UsbFinish(p) BY <1>5 DEF UsbFinish
<1>. QED BY <1>1, <1>2, <1>3, <1>4, <1>5 DEF UsbTask

\* WebSocket services: only OtaClose gives the word back, and only from OTA,
\* which no low-level task serves.
LEMMA WsStep ==
    ASSUME Inv,
           \/ \E w \in Sockets : SocketClaim(w) \/ WsTask(w) \/ WsFinish(w)
           \/ OtaClose
    PROVE  Inv'
<1> USE DEF Inv, TypeOK, OnlyOwnerActive, HandOver, Active, WsGoto, HttpdGoto,
            Wake, z21Vars
<1>1. ASSUME NEW w \in Sockets, SocketClaim(w) PROVE Inv'
      BY <1>1 DEF SocketClaim
<1>2. ASSUME NEW w \in Sockets, SocketWakeTask(w) PROVE Inv'
      BY <1>2 DEF SocketWakeTask
<1>3. ASSUME NEW w \in Sockets, SocketWakeOut(w) PROVE Inv'
      BY <1>3 DEF SocketWakeOut
<1>4. ASSUME NEW w \in Sockets, WsSwitch(w) PROVE Inv' BY <1>4 DEF WsSwitch
<1>5. ASSUME NEW w \in Sockets, WsPark(w) PROVE Inv' BY <1>5 DEF WsPark
<1>6. ASSUME NEW w \in Sockets, WsFinish(w) PROVE Inv' BY <1>6 DEF WsFinish
<1>7. CASE OtaClose BY <1>7 DEF OtaClose
<1>. QED BY <1>1, <1>2, <1>3, <1>4, <1>5, <1>6, <1>7 DEF WsTask

LEMMA RebootStep ==
    ASSUME Inv, Reboot
    PROVE  Inv'
BY OutputStateAssumption
   DEF Reboot, Inv, TypeOK, OnlyOwnerActive, HandOver, Active

LEMMA StutterStep ==
    ASSUME Inv, UNCHANGED vars
    PROVE  Inv'
BY DEF vars, Inv, TypeOK, OnlyOwnerActive, HandOver, Active

LEMMA NextInv ==
    ASSUME Inv, NoBlindStore, [Next]_vars
    PROVE  Inv'
<1>1. CASE UNCHANGED vars BY <1>1, StutterStep
<1>2. CASE Reboot BY <1>2, RebootStep
<1>3. CASE ShortCircuit BY <1>3 DEF ShortCircuit, NoBlindStore
<1>4. ASSUME NEW t \in OutTasks, OutTask(t) PROVE Inv' BY <1>4, OutStep
<1>5. CASE OutFlagged BY <1>5, OutStep
<1>6. ASSUME \/ \E s \in {"DCCOperations", "DCCService"} : TrackPowerOn(s)
             \/ TrackPowerOff
             \/ Z21Step
      PROVE  Inv'
      BY <1>6, Z21StepInv
<1>7. CASE DccTask BY <1>7, DccStep
<1>8. ASSUME NEW p \in UsbProtocols, UsbEntry(p) \/ UsbTask(p) \/ UsbFinish(p)
      PROVE  Inv'
      BY <1>8, UsbStep
<1>9. ASSUME \/ \E w \in Sockets : SocketClaim(w) \/ WsTask(w) \/ WsFinish(w)
             \/ OtaClose
      PROVE  Inv'
      BY <1>9, WsStep
<1>. QED BY <1>1, <1>2, <1>3, <1>4, <1>5, <1>6, <1>7, <1>8, <1>9
         DEF Next, Running

LEMMA InvExclusive == Inv => Exclusive
BY DEF Inv, OnlyOwnerActive, Exclusive

-----------------------------------------------------------------------------
(* Every step maps to a step of ExclusiveOutput, or to a stutter.          *)

MappedNext == [Arbiter!Next]_(Arbiter!vars)

LEMMA InitMapped == Init => Arbiter!Init
BY DEF Init, Arbiter!Init, Owner, Driving

\* Low-level tasks: OutResume is Drive, OutStop is Leave, OutStore is Release.
LEMMA OutMapped ==
    ASSUME Inv, NEW t \in OutTasks, OutTask(t) \/ OutFlagged
    PROVE  MappedNext
<1> USE DEF Inv, TypeOK, OnlyOwnerActive, HandOver, Active, Driving, OutGoto,
            Owner, MappedNext, Arbiter!vars
<1>1. CASE OutSwitch(t) BY <1>1 DEF OutSwitch
<1>2. CASE OutPark(t) BY <1>2 DEF OutPark
<1>3. CASE OutResume(t)
  <2>1. CASE \E u \in OutTasks \ {t} : Driving(u)
        BY <1>3, <2>1 DEF OutResume
  <2>2. CASE ~ \E u \in OutTasks \ {t} : Driving(u)
    <3>1. out[t] = "resume" /\ out' = [out EXCEPT ![t] = "run"] /\ state' = state
          BY <1>3, <2>2 DEF OutResume
    <3>2. Owner \in Serves[t] /\ Owner' = Owner
          BY <3>1
    <3>3. {u \in OutTasks : Driving(u)}'
            = {u \in OutTasks : Driving(u)} \cup {t}
          BY <3>1
    <3>4. Arbiter!Drive(t) BY <3>2, <3>3 DEF Arbiter!Drive
    <3>. QED BY <3>4 DEF Arbiter!Next
  <2>. QED BY <2>1, <2>2
<1>4. CASE OutFinish(t) BY <1>4 DEF OutFinish
<1>5. CASE OutStop(t)
  <2>1. /\ out[t] = "stop" /\ state' = state
        /\ \E to \in {"switch", "store"} : out' = [out EXCEPT ![t] = to]
        BY <1>5 DEF OutStop
  <2>2. {u \in OutTasks : Driving(u)}' = {u \in OutTasks : Driving(u)} \ {t}
        BY <2>1
  <2>3. Arbiter!Leave(t) BY <2>1, <2>2 DEF Arbiter!Leave
  <2>. QED BY <2>3 DEF Arbiter!Next
<1>6. CASE OutStore(t)
  <2>1. /\ out[t] = "store" /\ state' = "Suspended"
        /\ out' = [out EXCEPT ![t] = "switch"]
        BY <1>6 DEF OutStore
  <2>2. {u \in OutTasks : Driving(u)} = {}
        BY <2>1
  <2>3. {u \in OutTasks : Driving(u)}' = {}
        BY <2>1, <2>2
  <2>4. Arbiter!Release BY <2>1, <2>2, <2>3 DEF Arbiter!Release
  <2>. QED BY <2>4 DEF Arbiter!Next
<1>7. CASE OutFlagged BY <1>7 DEF OutFlagged
<1>. QED BY <1>1, <1>2, <1>3, <1>4, <1>5, <1>6, <1>7 DEF OutTask

\* Steps of anybody else leave the low-level tasks where they drive. They
\* either keep the owner or claim the output while nobody owns it; OtaClose
\* gives it back.
LEMMA OthersMapped ==
    ASSUME Inv, NoBlindStore,
           Z21Step \/ TrackPowerOff \/ DccTask \/ OtaClose
           \/ (\E s \in {"DCCOperations", "DCCService"} : TrackPowerOn(s))
           \/ (\E p \in UsbProtocols : UsbEntry(p) \/ UsbTask(p) \/ UsbFinish(p))
           \/ (\E w \in Sockets : SocketClaim(w) \/ WsTask(w) \/ WsFinish(w))
    PROVE  MappedNext
<1> USE DEF Inv, TypeOK, OnlyOwnerActive, HandOver, Active, Driving
<1>1. {t \in OutTasks : Driving(t)}' = {t \in OutTasks : Driving(t)}
  <2>1. \/ UNCHANGED out
        \/ \E t \in OutTasks : Wake(t)
        BY DEF Z21Step, Z21WaitSuspended, Z21Clear, Z21WaitOut, Z21Claim,
           Z21Resume, Z21Push, Z21Off, TrackPowerOff, TrackPowerOn, DccTask,
           DccSwitch, DccPark, DccResume, DccOperations, DccPoll, DccWaitOut,
           DccCleanup, DccServiceLoop, DccServiceWait, DccServiceClaim,
           DccServiceResume, DccServe, DccDrain, OtaClose, UsbEntry, UsbTask,
           UsbClaim, UsbWake, UsbPark, UsbFinish, SocketClaim, WsTask,
           SocketWakeTask, SocketWakeOut, WsSwitch, WsPark, WsFinish
  <2>. QED BY <2>1 DEF Wake
<1>2. \/ Owner' = Owner
      \/ Owner = "none" /\ Owner' \in Owners
      \/ Owner = "OTA" /\ Owner' = "none"
  <2>1. \/ state' = state
        \/ state = "Suspended" /\ state' \in Owners
        \/ state = "DCCOperations" /\ state' = "Suspend"
        \/ state = "OTA" /\ state' = "Suspended"
        BY DEF Z21Step, Z21WaitSuspended, Z21Clear, Z21WaitOut, Z21Claim,
           Z21Resume, Z21Push, Z21Off, TrackPowerOff, TrackPowerOn, DccTask,
           DccSwitch, DccPark, DccResume, DccOperations, DccPoll, DccWaitOut,
           DccCleanup, DccServiceLoop, DccServiceWait, DccServiceClaim,
           DccServiceResume, DccServe, DccDrain, OtaClose, UsbEntry, UsbTask,
           UsbClaim, UsbWake, UsbPark, UsbFinish, SocketClaim, WsTask,
           SocketWakeTask, SocketWakeOut, WsSwitch, WsPark, WsFinish,
           NoBlindStore
  <2>. QED BY <2>1 DEF Owner
<1>3. Owner = "OTA" => {t \in OutTasks : Driving(t)} = {}
      BY DEF Owner
<1>4. CASE Owner' = Owner BY <1>1, <1>4 DEF MappedNext, Arbiter!vars
<1>5. CASE Owner = "none" /\ Owner' \in Owners
      BY <1>1, <1>5 DEF MappedNext, Arbiter!Next, Arbiter!Acquire
<1>6. CASE Owner = "OTA" /\ Owner' = "none"
      BY <1>1, <1>3, <1>6 DEF MappedNext, Arbiter!Next, Arbiter!Release
<1>. QED BY <1>2, <1>4, <1>5, <1>6

LEMMA RebootMapped ==
    ASSUME Reboot
    PROVE  MappedNext
<1>1. Owner' = "none" BY DEF Reboot, Owner
<1>2. {t \in OutTasks : Driving(t)}' = {} BY DEF Reboot, Driving
<1>. QED BY <1>1, <1>2 DEF MappedNext, Arbiter!Next, Arbiter!Restart

LEMMA NextMapped ==
    ASSUME Inv, NoBlindStore, [Next]_vars
    PROVE  MappedNext
<1>1. CASE UNCHANGED vars
      BY <1>1 DEF vars, MappedNext, Arbiter!vars, Owner, Driving
<1>2. CASE Reboot BY <1>2, RebootMapped
<1>3. CASE Running
      BY <1>3, OutMapped, OthersMapped DEF Running, ShortCircuit, NoBlindStore
<1>. QED BY <1>1, <1>2, <1>3 DEF Next

-----------------------------------------------------------------------------
(* Blind stores: the step which loses the order, for every choice of       *)
(* Inputs. TypeOK holds there as well; it needs to know that a CV access   *)
(* under way is still in the deque.                                        *)

Typed ==
    /\ TypeOK
    /\ dcc \in {"svcWait", "svcClaim", "svcResume", "serve"} => cv > 0

\* TypeOK and the queued access survive every step, whoever takes it.
LEMMA NextTyped ==
    ASSUME Typed, [Next]_vars
    PROVE  Typed'
<1> USE DEF Typed, TypeOK, z21Vars, wsVars
<1>1. CASE UNCHANGED vars BY <1>1 DEF vars
<1>2. CASE Reboot BY <1>2, OutputStateAssumption DEF Reboot
<1>3. ASSUME NEW t \in OutTasks, OutTask(t) PROVE Typed'
  <2> USE DEF OutGoto
  <2>1. CASE OutSwitch(t) \/ OutPark(t) \/ OutFinish(t) \/ OutStop(t)
        BY <2>1 DEF OutSwitch, OutPark, OutFinish, OutStop
  <2>2. CASE OutResume(t) BY <2>2 DEF OutResume
  <2>3. CASE OutStore(t) BY <2>3 DEF OutStore
  <2>. QED BY <1>3, <2>1, <2>2, <2>3 DEF OutTask
<1>4. CASE OutFlagged \/ ShortCircuit
      BY <1>4 DEF OutFlagged, ShortCircuit, OutGoto
<1>5. CASE \/ \E s \in {"DCCOperations", "DCCService"} : TrackPowerOn(s)
           \/ TrackPowerOff
      BY <1>5 DEF TrackPowerOn, TrackPowerOff
<1>6. CASE Z21Step
  <2>1. CASE Z21WaitSuspended \/ Z21Clear \/ Z21WaitOut \/ Z21Off
        BY <2>1 DEF Z21WaitSuspended, Z21Clear, Z21WaitOut, Z21Off
  <2>2. CASE Z21Claim BY <2>2 DEF Z21Claim
  <2>3. CASE Z21Resume BY <2>3 DEF Z21Resume
  <2>4. CASE Z21Push BY <2>4, OutputStateAssumption DEF Z21Push
  <2>. QED BY <1>6, <2>1, <2>2, <2>3, <2>4 DEF Z21Step
<1>7. CASE DccTask
  <2> USE DEF DccGoto, Wake
  <2>1. CASE DccSwitch \/ DccPark \/ DccResume \/ DccOperations \/ DccPoll \/ DccWaitOut
        BY <2>1 DEF DccSwitch, DccPark, DccResume, DccOperations, DccPoll, DccWaitOut
  <2>2. CASE DccCleanup BY <2>2, OutputStateAssumption DEF DccCleanup
  <2>3. CASE DccServiceLoop BY <2>3 DEF DccServiceLoop
  <2>4. CASE DccServiceWait \/ DccServiceResume \/ DccDrain
        BY <2>4 DEF DccServiceWait, DccServiceResume, DccDrain
  <2>5. CASE DccServiceClaim BY <2>5 DEF DccServiceClaim
  <2>6. CASE DccServe BY <2>6, OutputStateAssumption DEF DccServe
  <2>. QED BY <1>7, <2>1, <2>2, <2>3, <2>4, <2>5, <2>6 DEF DccTask
<1>8. ASSUME NEW p \in UsbProtocols, UsbEntry(p) \/ UsbTask(p) \/ UsbFinish(p)
      PROVE  Typed'
      BY <1>8 DEF UsbEntry, UsbTask, UsbClaim, UsbWake, UsbPark, UsbFinish, UsbGoto, Wake
<1>9. ASSUME NEW w \in Sockets, SocketClaim(w) \/ WsTask(w) \/ WsFinish(w)
      PROVE  Typed'
      BY <1>9 DEF SocketClaim, WsTask, SocketWakeTask, SocketWakeOut, WsSwitch, WsPark,
         WsFinish, WsGoto, HttpdGoto, Wake
<1>10. CASE OtaClose BY <1>10 DEF OtaClose, WsGoto
<1>. QED BY <1>1, <1>2, <1>3, <1>4, <1>5, <1>6, <1>7, <1>8, <1>9, <1>10
         DEF Next, Running

\* The order survives the low-level tasks: none but the owner's leaves its idle
\* switch, and only the one at work stores the word.
LEMMA OutOrderly ==
    ASSUME TypeOK, Orderly, NEW t \in OutTasks, OutTask(t) \/ OutFlagged
    PROVE  Orderly'
<1> USE DEF TypeOK, Orderly, Exclusive, HardwareFree, Active, OutGoto
<1>1. CASE OutSwitch(t) BY <1>1 DEF OutSwitch
<1>2. CASE OutPark(t) BY <1>2 DEF OutPark
<1>3. CASE OutResume(t)
  <2>1. ~ \E u \in OutTasks \ {t} : Driving(u)
        BY <1>3 DEF OutResume, Driving
  <2>. QED BY <1>3, <2>1 DEF OutResume
<1>4. CASE OutFinish(t) BY <1>4 DEF OutFinish
<1>5. CASE OutStop(t) BY <1>5 DEF OutStop
<1>6. CASE OutStore(t) BY <1>6 DEF OutStore
<1>7. CASE OutFlagged BY <1>7 DEF OutFlagged
<1>. QED BY <1>1, <1>2, <1>3, <1>4, <1>5, <1>6, <1>7 DEF OutTask

\* Nobody else starts or ends a low-level task's work, or meets a foreign one.
LEMMA OthersActive ==
    ASSUME TypeOK,
           \/ Z21Step \/ TrackPowerOff \/ DccTask \/ OtaClose \/ ShortCircuit
           \/ \E s \in {"DCCOperations", "DCCService"} : TrackPowerOn(s)
           \/ \E p \in UsbProtocols : UsbEntry(p) \/ UsbTask(p) \/ UsbFinish(p)
           \/ \E w \in Sockets : SocketClaim(w) \/ WsTask(w) \/ WsFinish(w)
    PROVE  /\ \A t \in OutTasks : Active(t)' <=> Active(t)
           /\ HardwareFree => HardwareFree'
<1>1. \/ UNCHANGED out
      \/ \E t \in OutTasks : Wake(t)
      BY DEF Z21Step, Z21WaitSuspended, Z21Clear, Z21WaitOut, Z21Claim, Z21Resume,
         Z21Push, Z21Off, TrackPowerOff, TrackPowerOn, DccTask, DccSwitch, DccPark,
         DccResume, DccOperations, DccPoll, DccWaitOut, DccCleanup, DccServiceLoop,
         DccServiceWait, DccServiceClaim, DccServiceResume, DccServe, DccDrain, OtaClose,
         UsbEntry, UsbTask, UsbClaim, UsbWake, UsbPark, UsbFinish, SocketClaim, WsTask,
         SocketWakeTask, SocketWakeOut, WsSwitch, WsPark, WsFinish, ShortCircuit
<1>2. abort' \in {abort, "trackPower", "serviceLoop", "otaClose"}
      BY DEF Z21Step, Z21WaitSuspended, Z21Clear, Z21WaitOut, Z21Claim, Z21Resume,
         Z21Push, Z21Off, TrackPowerOff, TrackPowerOn, DccTask, DccSwitch, DccPark,
         DccResume, DccOperations, DccPoll, DccWaitOut, DccCleanup, DccServiceLoop,
         DccServiceWait, DccServiceClaim, DccServiceResume, DccServe, DccDrain, OtaClose,
         UsbEntry, UsbTask, UsbClaim, UsbWake, UsbPark, UsbFinish, SocketClaim, WsTask,
         SocketWakeTask, SocketWakeOut, WsSwitch, WsPark, WsFinish, ShortCircuit
<1>3. \A t \in OutTasks : Active(t)' <=> Active(t)
      BY <1>1 DEF TypeOK, Active, Wake
<1>. QED BY <1>2, <1>3 DEF HardwareFree

\* The word changes under a low-level task at work in few ways: a flag is set, the
\* hand-over between the modes of DCC, and "Clear errors".
LEMMA OthersWord ==
    ASSUME TypeOK,
           \/ Z21Step \/ TrackPowerOff \/ DccTask \/ OtaClose \/ ShortCircuit
           \/ \E s \in {"DCCOperations", "DCCService"} : TrackPowerOn(s)
           \/ \E p \in UsbProtocols : UsbEntry(p) \/ UsbTask(p) \/ UsbFinish(p)
           \/ \E w \in Sockets : SocketClaim(w) \/ WsTask(w) \/ WsFinish(w)
    PROVE  \/ state' \in {state, "ShortCircuit"}
           \/ state \in {"Suspended", "OTA"}
           \/ state \in {"DCCOperations", "DCCService"} /\ state' = "Suspend"
           \/ Z21Clear
BY DEF Z21Step, Z21WaitSuspended, Z21WaitOut, Z21Claim, Z21Resume,
   Z21Push, Z21Off, TrackPowerOff, TrackPowerOn, DccTask, DccSwitch, DccPark,
   DccResume, DccOperations, DccPoll, DccWaitOut, DccCleanup, DccServiceLoop,
   DccServiceWait, DccServiceClaim, DccServiceResume, DccServe, DccDrain, OtaClose,
   UsbEntry, UsbTask, UsbClaim, UsbWake, UsbPark, UsbFinish, SocketClaim, WsTask,
   SocketWakeTask, SocketWakeOut, WsSwitch, WsPark, WsFinish, ShortCircuit, z21Vars, wsVars

LEMMA OthersOrderly ==
    ASSUME TypeOK, Orderly,
           \/ Z21Step \/ TrackPowerOff \/ DccTask \/ OtaClose \/ ShortCircuit
           \/ \E s \in {"DCCOperations", "DCCService"} : TrackPowerOn(s)
           \/ \E p \in UsbProtocols : UsbEntry(p) \/ UsbTask(p) \/ UsbFinish(p)
           \/ \E w \in Sockets : SocketClaim(w) \/ WsTask(w) \/ WsFinish(w)
    PROVE  Orderly' \/ (Z21Clear /\ \E t \in OutTasks : Active(t))
<1>1. /\ \A t \in OutTasks : Active(t)' <=> Active(t)
      /\ HardwareFree'
      BY OthersActive DEF Orderly
<1>2. CASE \A t \in OutTasks : ~Active(t)
      BY <1>1, <1>2 DEF Orderly, Exclusive
<1>3. ASSUME NEW t \in OutTasks, Active(t), ~Z21Clear
      PROVE  Orderly'
  <2>1. \A u \in OutTasks : Active(u) => u = t
        BY <1>3 DEF Orderly, Exclusive
  <2>2. \/ state \in Serves[t]
        \/ state = "ShortCircuit"
        \/ t = "dcc" /\ state = "Suspend"
        BY <1>3 DEF Orderly
  <2>3. \/ state' \in {state, "ShortCircuit"}
        \/ state \in {"Suspended", "OTA"}
        \/ state \in {"DCCOperations", "DCCService"} /\ state' = "Suspend"
        BY <1>3, OthersWord
  <2>4. \/ state' \in Serves[t]
        \/ state' = "ShortCircuit"
        \/ t = "dcc" /\ state' = "Suspend"
        BY <2>2, <2>3
  <2>. QED BY <1>1, <2>1, <2>4 DEF Orderly, Exclusive
<1>. QED BY <1>2, <1>3

\* One step, whoever takes it.
LEMMA NextOrderly ==
    ASSUME TypeOK, Orderly, [Next]_vars
    PROVE  Orderly' \/ (Z21Clear /\ \E t \in OutTasks : Active(t))
<1>1. CASE UNCHANGED vars
      BY <1>1 DEF vars, Orderly, Exclusive, HardwareFree, Active
<1>2. CASE Reboot BY <1>2 DEF Reboot, Orderly, Exclusive, HardwareFree, Active
<1>3. CASE Running BY <1>3, OutOrderly, OthersOrderly DEF Running
<1>. QED BY <1>1, <1>2, <1>3 DEF Next

-----------------------------------------------------------------------------
(* The theorems.                                                           *)

\* The types hold whatever the environment does.
THEOREM AlwaysTyped == Spec => []TypeOK
<1>1. Init => Typed
      BY OutputStateAssumption DEF Init, Typed, TypeOK
<1>2. Typed /\ [Next]_vars => Typed' BY NextTyped
<1>3. Typed => TypeOK BY DEF Typed
<1>. QED BY <1>1, <1>2, <1>3, PTL DEF Spec

\* The firmware starts in order, and whoever asks for the output, with power off, short
\* circuits and impatient clients, the order is lost in one way only: "Clear errors"
\* stores Suspended while a low-level task is at work.
THEOREM OrderKept == Spec => Orderly /\ OrderLostByClearing
<1> DEFINE Kept == Orderly /\ ~Orderly' => Z21Clear /\ \E t \in OutTasks : Active(t)
<1>1. Init => Orderly
      BY DEF Init, Orderly, Exclusive, HardwareFree, Active
<1>2. TypeOK /\ [Next]_vars => [Kept]_vars BY NextOrderly
<1>. QED BY <1>1, <1>2, AlwaysTyped, PTL DEF Spec, OrderLostByClearing

\* Without blind stores the invariant holds: types, the low-level task at work
\* is the owner's, and Suspend is only ever the DCC service task's hand-over.
THEOREM Invariance == NoBlindStore => (Spec => []Inv)
<1> SUFFICES ASSUME NoBlindStore PROVE Spec => []Inv
    OBVIOUS
<1>1. Init => Inv BY InitInv
<1>2. Inv /\ [Next]_vars => Inv' BY NextInv
<1>. QED BY <1>1, <1>2, PTL DEF Spec

\* Without blind stores two low-level tasks are never at work at once, whoever
\* asks for the output in whatever order.
THEOREM MutualExclusion == NoBlindStore => (Spec => []Exclusive)
<1> SUFFICES ASSUME NoBlindStore PROVE Spec => []Exclusive
    OBVIOUS
<1>1. Spec => []Inv BY Invariance
<1>. QED BY <1>1, InvExclusive, PTL

\* Without blind stores the word and the low-level tasks implement
\* ExclusiveOutput.
THEOREM Refinement == NoBlindStore => (Spec => ImplementsArbiter)
<1> SUFFICES ASSUME NoBlindStore PROVE Spec => ImplementsArbiter
    OBVIOUS
<1>1. Init => Arbiter!Init BY InitMapped
<1>2. Inv /\ [Next]_vars => [Arbiter!Next]_(Arbiter!vars)
      BY NextMapped DEF MappedNext
<1>3. Spec => []Inv BY Invariance
<1>. QED BY <1>1, <1>2, <1>3, PTL DEF Spec, ImplementsArbiter, Arbiter!Spec

\* Whatever is switched and whoever asks: a short circuit leaves the word only
\* when a client clears it, a low-level task stores Suspended over it, or the
\* firmware restarts.
THEOREM ErrorsStay == Spec => ErrorsKept
<1> DEFINE Stays == state = "ShortCircuit" /\ state' # "ShortCircuit"
                      => z21 = "clear" \/ abort # "none" \/ \E t \in OutTasks : out[t] = "store"
<1>1. ASSUME Next PROVE Stays
  <2> USE DEF z21Vars, wsVars
  <2>1. ASSUME NEW t \in OutTasks, OutTask(t) PROVE Stays
    BY <2>1 DEF OutTask, OutSwitch, OutPark, OutResume, OutFinish, OutStop, OutStore,
       OutGoto
  <2>2. CASE \/ OutFlagged \/ TrackPowerOff \/ Z21Step
             \/ \E s \in {"DCCOperations", "DCCService"} : TrackPowerOn(s)
    BY <2>2 DEF OutFlagged, TrackPowerOff, TrackPowerOn, Z21Step, Z21WaitSuspended,
       Z21Clear, Z21WaitOut, Z21Claim, Z21Resume, Z21Push, Z21Off
  <2>3. CASE DccTask
    BY <2>3 DEF DccTask, DccSwitch, DccPark, DccResume, DccOperations, DccPoll,
       DccWaitOut, DccCleanup, DccServiceLoop, DccServiceWait, DccServiceClaim,
       DccServiceResume, DccServe, DccDrain
  <2>4. ASSUME NEW p \in UsbProtocols, UsbEntry(p) \/ UsbTask(p) \/ UsbFinish(p)
        PROVE  Stays
    BY <2>4 DEF UsbEntry, UsbTask, UsbClaim, UsbWake, UsbPark, UsbFinish
  <2>5. CASE \/ OtaClose \/ ShortCircuit
             \/ \E w \in Sockets : SocketClaim(w) \/ WsTask(w) \/ WsFinish(w)
    BY <2>5 DEF OtaClose, ShortCircuit, SocketClaim, WsTask, SocketWakeTask,
       SocketWakeOut, WsSwitch, WsPark, WsFinish
  <2>6. CASE Reboot BY <2>6 DEF Reboot
  <2>. QED BY <1>1, <2>1, <2>2, <2>3, <2>4, <2>5, <2>6 DEF Next, Running
<1>2. [Next]_vars => [Stays]_vars BY <1>1
<1>. QED BY <1>2, PTL DEF Spec, ErrorsKept

=============================================================================
