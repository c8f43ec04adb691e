---------------------------- MODULE OutputState ----------------------------
(***************************************************************************)
(* The arbitration of the output hardware: the atomic word `state`         *)
(* (config.hpp), the low-level tasks out::track::{dcc,decup,mdu} and       *)
(* out::zusi which it starts and stops, and everybody who writes it: the   *)
(* Z21 service, the DCC service task, the USB protocol tasks, the          *)
(* WebSocket services and the ADC task.                                    *)
(*                                                                         *)
(* A task is a program counter.  "suspended" is FreeRTOS' eSuspended; a    *)
(* task which has decided to suspend itself and has not yet done so is     *)
(* "parking", and vTaskResume on it has no effect.  A failed assert aborts *)
(* the firmware, which then restarts.                                      *)
(***************************************************************************)
EXTENDS Integers, FiniteSets

CONSTANTS
    Inputs,         \* what the environment may do, a subset of AllInputs
    PatientClient,  \* TRUE if the Z21 clients await a CV result before the
                    \* next request
    CvCapacity      \* capacity of dcc::Service::_cv_request_deque

UsbProtocols == {"DCC_EIN", "DECUP_EIN", "SUSIV2"}
Sockets == {"ZUSI", "MDUZsu", "OTA"}
AllInputs == UsbProtocols \cup Sockets \cup
             {"trackPowerOn", "trackPowerOff", "cvAccess", "shortCircuit"}

ASSUME OutputStateAssumption ==
    /\ Inputs \subseteq AllInputs
    /\ PatientClient \in BOOLEAN
    /\ CvCapacity \in Nat \ {0}

\* The values of `state` which name an owner (DECUPZpp, DECUPZsu and MDUZpp
\* are declared as well, but nothing in the firmware ever stores them).
Owners == {"DCCOperations", "DCCService", "MDUZsu", "ZUSI",
           "DCC_EIN", "DECUP_EIN", "MDU_EIN", "SUSIV2", "OTA"}
States == Owners \cup {"Suspended", "Suspend", "ShortCircuit"}

OutTasks == {"dcc", "decup", "mdu", "zusi"}

\* The states in which a low-level task leaves its idle switch.
Serves == [dcc   |-> {"DCCOperations", "DCC_EIN", "DCCService"},
           decup |-> {"DECUP_EIN"},
           mdu   |-> {"MDUZsu", "MDU_EIN"},
           zusi  |-> {"SUSIV2", "ZUSI"}]

VARIABLES
    state,    \* the atomic word
    out,      \* out[t]: where low-level task t is
    z21,      \* where the Z21 service is in trackPower, under its mutex
    want,     \* the state trackPower was asked for
    dcc,      \* where dcc::task is
    cv,       \* number of requests in _cv_request_deque
    usb,      \* usb[p]: where USB protocol task p is
    httpd,    \* httpd[w]: where the HTTP server is in the handler of socket w
    ws,       \* ws[w]: where the service task of socket w is
    abort     \* the assert which failed, or "none"

vars == <<state, out, z21, want, dcc, cv, usb, httpd, ws, abort>>
z21Vars == <<z21, want>>
wsVars == <<httpd, ws>>

OutPcs == {"suspended", "switch", "parking", "resume", "run", "stop", "store"}
Z21Pcs == {"idle", "waitSuspended", "clear", "waitOut", "claim", "resume",
           "push", "off"}
DccPcs == {"suspended", "switch", "parking", "resumeOps", "resumeSvc", "ops",
           "poll", "waitOut", "svc", "svcWait", "svcClaim", "svcResume",
           "serve", "drain", "cleanup"}
UsbPcs == {"suspended", "claim", "wake", "loop", "parking"}
HttpdPcs == {"idle", "task", "out"}
WsPcs == {"suspended", "switch", "loop", "close", "parking"}
Aborts == {"none", "trackPower", "serviceLoop", "hardware", "otaClose"}

TypeOK ==
    /\ state \in States
    /\ out \in [OutTasks -> OutPcs]
    /\ z21 \in Z21Pcs
    /\ want \in {"DCCOperations", "DCCService"}
    /\ dcc \in DccPcs
    /\ cv \in 0..CvCapacity
    /\ usb \in [UsbProtocols -> UsbPcs]
    /\ httpd \in [Sockets -> HttpdPcs]
    /\ ws \in [Sockets -> WsPcs]
    /\ abort \in Aborts

\* After app_main: every task has found nothing to do and suspended itself.
Init ==
    /\ state = "Suspended"
    /\ out = [t \in OutTasks |-> "suspended"]
    /\ z21 = "idle"
    /\ want = "DCCOperations"
    /\ dcc = "suspended"
    /\ cv = 0
    /\ usb = [p \in UsbProtocols |-> "suspended"]
    /\ httpd = [w \in Sockets |-> "idle"]
    /\ ws = [w \in Sockets |-> "suspended"]
    /\ abort = "none"

\* vTaskResume: wakes a suspended task and is forgotten by any other.
Wake(t) == out' = [out EXCEPT ![t] = IF @ = "suspended" THEN "switch" ELSE @]

OutSuspended(t) == out[t] = "suspended"

-----------------------------------------------------------------------------
(* Low-level tasks: out/track/{dcc,decup,mdu}, out/zusi, out/suspend.cpp   *)

OutGoto(t, from, to) == out[t] = from /\ out' = [out EXCEPT ![t] = to]

\* Drives the hardware: between the resume and the suspend of its component.
Driving(t) == out[t] \in {"run", "stop"}

\* switch (state.load())
OutSwitch(t) ==
    /\ OutGoto(t, "switch", IF state \in Serves[t] THEN "resume" ELSE "parking")
    /\ UNCHANGED <<state, z21Vars, dcc, cv, usb, wsVars, abort>>

OutPark(t) ==
    /\ OutGoto(t, "parking", "suspended")
    /\ UNCHANGED <<state, z21Vars, dcc, cv, usb, wsVars, abort>>

\* resume() needs the encoder and the timer all low-level tasks share: its
\* assert(!encoder), or the error check of gptimer_enable, fails otherwise.
OutResume(t) ==
    /\ IF \E u \in OutTasks \ {t} : Driving(u)
       THEN out[t] = "resume" /\ abort' = "hardware" /\ UNCHANGED out
       ELSE OutGoto(t, "resume", "run") /\ UNCHANGED abort
    /\ UNCHANGED <<state, z21Vars, dcc, cv, usb, wsVars>>

\* The DCC loops return once the Suspend or the ShortCircuit flag is set ...
OutFlagged ==
    /\ state \in {"Suspend", "ShortCircuit"}
    /\ OutGoto("dcc", "run", "stop")
    /\ UNCHANGED <<state, z21Vars, dcc, cv, usb, wsVars, abort>>

\* Mutant of OutFinish: the word given back before the hardware is off.
MutOutFinish(t) ==
    /\ OutGoto(t, "run", "stop")
    /\ state' = "Suspended"
    /\ UNCHANGED <<z21Vars, dcc, cv, usb, wsVars, abort>>

\* ... or once their message buffers are empty; the other loops return on
\* their timeout or on an exit command, whatever the flags say.
OutFinish(t) ==
    /\ OutGoto(t, "run", "stop")
    /\ UNCHANGED <<state, z21Vars, dcc, cv, usb, wsVars, abort>>

\* The component's suspend(): hardware off, buffers reset, flag read ...
OutStop(t) ==
    /\ OutGoto(t, "stop", IF state = "ShortCircuit" THEN "switch" ELSE "store")
    /\ UNCHANGED <<state, z21Vars, dcc, cv, usb, wsVars, abort>>

\* ... and, without looking again, the word overwritten.
OutStore(t) ==
    /\ OutGoto(t, "store", "switch")
    /\ state' = "Suspended"
    /\ UNCHANGED <<z21Vars, dcc, cv, usb, wsVars, abort>>

OutTask(t) ==
    \/ OutSwitch(t) \/ OutPark(t) \/ OutResume(t) \/ OutFinish(t)
    \/ OutStop(t) \/ OutStore(t)

-----------------------------------------------------------------------------
(* Z21 service: trackPower, cvRead and cvWrite (z21/service.cpp)           *)

\* A CV access is queued, runs, or has left the word to be restored.
Programming ==
    cv # 0 \/ dcc \in {"svcWait", "svcClaim", "svcResume", "serve", "drain"}

\* trackPower(true, s): the outer switch on `state`. An output which already
\* runs, or which somebody else owns, makes it return at once.
TrackPowerOn(s) ==
    /\ z21 = "idle"
    /\ (IF s = "DCCOperations" THEN "trackPowerOn" ELSE "cvAccess") \in Inputs
    /\ PatientClient => ~Programming
    /\ want' = s
    /\ \/ state = "Suspend" /\ z21' = "waitSuspended"
       \/ state = "ShortCircuit" /\ z21' = "clear"
       \/ state = "Suspended" /\ z21' = "waitOut"
       \/ state \in {"DCCOperations", "DCCService"} /\ s = "DCCService"
          /\ z21' = "push"
    /\ UNCHANGED <<state, out, dcc, cv, usb, wsVars, abort>>

Z21WaitSuspended ==
    /\ z21 = "waitSuspended"
    /\ state = "Suspended"
    /\ z21' = "clear"
    /\ UNCHANGED <<state, out, want, dcc, cv, usb, wsVars, abort>>

\* "Clear errors": a plain store.
Z21Clear ==
    /\ z21 = "clear"
    /\ state' = "Suspended"
    /\ z21' = "waitOut"
    /\ UNCHANGED <<out, want, dcc, cv, usb, wsVars, abort>>

Z21WaitOut ==
    /\ z21 = "waitOut"
    /\ OutSuspended("dcc")
    /\ z21' = "claim"
    /\ UNCHANGED <<state, out, want, dcc, cv, usb, wsVars, abort>>

\* compare_exchange_strong(Suspended, dcc_state), assert(false) on failure.
Z21Claim ==
    /\ z21 = "claim"
    /\ IF state = "Suspended"
       THEN state' = want /\ z21' = "resume" /\ UNCHANGED abort
       ELSE abort' = "trackPower" /\ UNCHANGED <<state, z21>>
    /\ UNCHANGED <<out, want, dcc, cv, usb, wsVars>>

Z21Resume ==
    /\ z21 = "resume"
    /\ dcc' = IF dcc = "suspended" THEN "switch" ELSE dcc
    /\ z21' = IF want = "DCCService" THEN "push" ELSE "idle"
    /\ UNCHANGED <<state, out, want, cv, usb, wsVars, abort>>

\* dcc::Service::cvRead and cvWrite refuse when the deque is full.
Z21Push ==
    /\ z21 = "push"
    /\ cv' = IF cv = CvCapacity THEN cv ELSE cv + 1
    /\ z21' = "idle"
    /\ UNCHANGED <<state, out, want, dcc, usb, wsVars, abort>>

\* trackPower(false): two compare-exchanges, one after the other.
TrackPowerOff ==
    /\ z21 = "idle"
    /\ "trackPowerOff" \in Inputs
    /\ PatientClient => ~Programming
    /\ state' = IF state = "DCCOperations" THEN "Suspend" ELSE state
    /\ z21' = "off"
    /\ UNCHANGED <<out, want, dcc, cv, usb, wsVars, abort>>

Z21Off ==
    /\ z21 = "off"
    /\ state' = IF state = "DCCService" THEN "Suspend" ELSE state
    /\ z21' = "idle"
    /\ UNCHANGED <<out, want, dcc, cv, usb, wsVars, abort>>

Z21Step ==
    \/ Z21WaitSuspended \/ Z21Clear \/ Z21WaitOut \/ Z21Claim \/ Z21Resume
    \/ Z21Push \/ Z21Off

-----------------------------------------------------------------------------
(* DCC service task (dcc/service.cpp)                                      *)

DccGoto(from, to) == dcc = from /\ dcc' = to

\* taskFunction: switch (state.load())
DccSwitch ==
    /\ \/ state = "DCCOperations" /\ DccGoto("switch", "resumeOps")
       \/ state = "DCCService" /\ DccGoto("switch", "resumeSvc")
       \/ state \notin {"DCCOperations", "DCCService"}
          /\ DccGoto("switch", "parking")
    /\ UNCHANGED <<state, out, z21Vars, cv, usb, wsVars, abort>>

DccPark ==
    /\ DccGoto("parking", "suspended")
    /\ UNCHANGED <<state, out, z21Vars, cv, usb, wsVars, abort>>

\* resume() fills the back buffer and resumes out::track::dcc.
DccResume ==
    /\ \/ DccGoto("resumeOps", "ops")
       \/ DccGoto("resumeSvc", "svc")
    /\ Wake("dcc")
    /\ UNCHANGED <<state, z21Vars, cv, usb, wsVars, abort>>

\* Mutant of DccOperations: packets are sent until service mode is asked for.
MutDccOperations ==
    /\ DccGoto("ops", IF state # "DCCService" THEN "poll" ELSE "waitOut")
    /\ UNCHANGED <<state, out, z21Vars, cv, usb, wsVars, abort>>

\* operationsLoop: the loop's condition, and after its body and its delay the
\* test for queued CV requests.
DccOperations ==
    /\ DccGoto("ops", IF state = "DCCOperations" THEN "poll" ELSE "waitOut")
    /\ UNCHANGED <<state, out, z21Vars, cv, usb, wsVars, abort>>

DccPoll ==
    /\ DccGoto("poll", IF cv = 0 THEN "ops" ELSE "svc")
    /\ UNCHANGED <<state, out, z21Vars, cv, usb, wsVars, abort>>

DccWaitOut ==
    /\ OutSuspended("dcc")
    /\ DccGoto("waitOut", "cleanup")
    /\ UNCHANGED <<state, out, z21Vars, cv, usb, wsVars, abort>>

\* suspend() forgets whatever is still queued.
DccCleanup ==
    /\ DccGoto("cleanup", "switch")
    /\ cv' = 0
    /\ UNCHANGED <<state, out, z21Vars, usb, wsVars, abort>>

\* Mutant of DccServiceLoop: operations mode left without a look at the deque.
MutDccServiceLoop ==
    /\ IF state = "DCCOperations"
       THEN DccGoto("svc", "svcWait") /\ state' = "Suspend"
       ELSE DccGoto("svc", IF cv = 0 THEN "cleanup" ELSE "serve")
            /\ UNCHANGED state
    /\ UNCHANGED <<out, z21Vars, cv, usb, wsVars, abort>>

\* serviceLoop: nothing to do, or leave operations mode, or serve at once.
DccServiceLoop ==
    /\ IF cv = 0
       THEN DccGoto("svc", "cleanup") /\ UNCHANGED state
       ELSE IF state = "DCCOperations"
            THEN DccGoto("svc", "svcWait") /\ state' = "Suspend"
            ELSE DccGoto("svc", "serve") /\ UNCHANGED state
    /\ UNCHANGED <<out, z21Vars, cv, usb, wsVars, abort>>

DccServiceWait ==
    /\ OutSuspended("dcc")
    /\ DccGoto("svcWait", "svcClaim")
    /\ UNCHANGED <<state, out, z21Vars, cv, usb, wsVars, abort>>

DccServiceClaim ==
    /\ IF state = "Suspended"
       THEN DccGoto("svcClaim", "svcResume") /\ state' = "DCCService"
                                             /\ UNCHANGED abort
       ELSE dcc = "svcClaim" /\ abort' = "serviceLoop" /\ UNCHANGED <<state, dcc>>
    /\ UNCHANGED <<out, z21Vars, cv, usb, wsVars>>

DccServiceResume ==
    /\ DccGoto("svcResume", "serve")
    /\ Wake("dcc")
    /\ UNCHANGED <<state, z21Vars, cv, usb, wsVars, abort>>

\* serviceRead or serviceWrite, then pop_front.
DccServe ==
    /\ DccGoto("serve", "drain")
    /\ cv' = cv - 1
    /\ UNCHANGED <<state, out, z21Vars, usb, wsVars, abort>>

\* Wait for out::track::dcc, reply, and return.
DccDrain ==
    /\ OutSuspended("dcc")
    /\ DccGoto("drain", "cleanup")
    /\ UNCHANGED <<state, out, z21Vars, cv, usb, wsVars, abort>>

DccTask ==
    \/ DccSwitch \/ DccPark \/ DccResume \/ DccOperations \/ DccPoll
    \/ DccWaitOut \/ DccCleanup \/ DccServiceLoop \/ DccServiceWait
    \/ DccServiceClaim \/ DccServiceResume \/ DccServe \/ DccDrain

-----------------------------------------------------------------------------
(* USB protocol tasks (usb/{dcc_ein,decup_ein,susiv2}/task_function.cpp)   *)

UsbOut == [DCC_EIN |-> "dcc", DECUP_EIN |-> "decup", SUSIV2 |-> "zusi"]

UsbGoto(p, from, to) == usb[p] = from /\ usb' = [usb EXCEPT ![p] = to]

\* usb::rx_task finds an entry string; it listens again only when every
\* protocol task is suspended.
UsbEntry(p) ==
    /\ p \in Inputs
    /\ \A q \in UsbProtocols : usb[q] = "suspended"
    /\ UsbGoto(p, "suspended", "claim")
    /\ UNCHANGED <<state, out, z21Vars, dcc, cv, wsVars, abort>>

\* Mutant of UsbClaim: a store instead of the compare-exchange.
MutUsbClaim(p) ==
    /\ UsbGoto(p, "claim", "wake")
    /\ state' = p
    /\ UNCHANGED <<out, z21Vars, dcc, cv, wsVars, abort>>

UsbClaim(p) ==
    /\ IF state = "Suspended"
       THEN UsbGoto(p, "claim", "wake") /\ state' = p
       ELSE UsbGoto(p, "claim", "parking") /\ UNCHANGED state
    /\ UNCHANGED <<out, z21Vars, dcc, cv, wsVars, abort>>

UsbWake(p) ==
    /\ UsbGoto(p, "wake", "loop")
    /\ Wake(UsbOut[p])
    /\ UNCHANGED <<state, z21Vars, dcc, cv, wsVars, abort>>

\* loop() returns on a timeout or an exit command and never reads `state`.
UsbFinish(p) ==
    /\ UsbGoto(p, "loop", "parking")
    /\ UNCHANGED <<state, out, z21Vars, dcc, cv, wsVars, abort>>

UsbPark(p) ==
    /\ UsbGoto(p, "parking", "suspended")
    /\ UNCHANGED <<state, out, z21Vars, dcc, cv, wsVars, abort>>

UsbTask(p) == UsbClaim(p) \/ UsbWake(p) \/ UsbPark(p)

-----------------------------------------------------------------------------
(* WebSocket services (zusi/service.cpp, mdu/*.cpp, ota/service.cpp)       *)

HttpdGoto(w, from, to) == httpd[w] = from /\ httpd' = [httpd EXCEPT ![w] = to]
WsGoto(w, from, to) == ws[w] = from /\ ws' = [ws EXCEPT ![w] = to]

\* A message arrives while nobody owns the output; there is one httpd task.
SocketClaim(w) ==
    /\ w \in Inputs
    /\ \A v \in Sockets : httpd[v] = "idle"
    /\ state = "Suspended"
    /\ state' = w
    /\ HttpdGoto(w, "idle", "task")
    /\ UNCHANGED <<out, z21Vars, dcc, cv, usb, ws, abort>>

SocketWakeTask(w) ==
    /\ HttpdGoto(w, "task", IF w = "OTA" THEN "idle" ELSE "out")
    /\ ws' = [ws EXCEPT ![w] = IF @ # "suspended" THEN @
                               ELSE IF w = "ZUSI" THEN "loop" ELSE "switch"]
    /\ UNCHANGED <<state, out, z21Vars, dcc, cv, usb, abort>>

SocketWakeOut(w) ==
    /\ HttpdGoto(w, "out", "idle")
    /\ Wake(IF w = "ZUSI" THEN "zusi" ELSE "mdu")
    /\ UNCHANGED <<state, z21Vars, dcc, cv, usb, ws, abort>>

\* The service tasks of OTA and MDUZsu look at `state`, that of ZUSI does not.
WsSwitch(w) ==
    /\ WsGoto(w, "switch", IF state = w THEN "loop" ELSE "parking")
    /\ UNCHANGED <<state, out, z21Vars, dcc, cv, usb, httpd, abort>>

WsPark(w) ==
    /\ WsGoto(w, "parking", "suspended")
    /\ UNCHANGED <<state, out, z21Vars, dcc, cv, usb, httpd, abort>>

AfterLoop == [OTA |-> "close", MDUZsu |-> "switch", ZUSI |-> "parking"]

\* loop() returns on a timeout, an error or a close frame; only the OTA
\* service gives the output back itself.
WsFinish(w) ==
    /\ WsGoto(w, "loop", AfterLoop[w])
    /\ UNCHANGED <<state, out, z21Vars, dcc, cv, usb, httpd, abort>>

OtaClose ==
    /\ IF state = "OTA"
       THEN WsGoto("OTA", "close", "switch") /\ state' = "Suspended"
                                             /\ UNCHANGED abort
       ELSE ws["OTA"] = "close" /\ abort' = "otaClose" /\ UNCHANGED <<state, ws>>
    /\ UNCHANGED <<out, z21Vars, dcc, cv, usb, httpd>>

WsTask(w) == WsSwitch(w) \/ WsPark(w) \/ SocketWakeTask(w) \/ SocketWakeOut(w)

-----------------------------------------------------------------------------
(* ADC task and restart                                                    *)

ShortCircuit ==
    /\ "shortCircuit" \in Inputs
    /\ state # "ShortCircuit"
    /\ state' = "ShortCircuit"
    /\ UNCHANGED <<out, z21Vars, dcc, cv, usb, wsVars, abort>>

Reboot ==
    /\ abort # "none"
    /\ state' = "Suspended"
    /\ out' = [t \in OutTasks |-> "suspended"]
    /\ z21' = "idle"
    /\ want' = "DCCOperations"
    /\ dcc' = "suspended"
    /\ cv' = 0
    /\ usb' = [p \in UsbProtocols |-> "suspended"]
    /\ httpd' = [w \in Sockets |-> "idle"]
    /\ ws' = [w \in Sockets |-> "suspended"]
    /\ abort' = "none"

-----------------------------------------------------------------------------
Alive == abort = "none"

Running ==
    \/ \E t \in OutTasks : OutTask(t)
    \/ OutFlagged
    \/ \E s \in {"DCCOperations", "DCCService"} : TrackPowerOn(s)
    \/ TrackPowerOff
    \/ Z21Step
    \/ DccTask
    \/ \E p \in UsbProtocols : UsbEntry(p) \/ UsbTask(p) \/ UsbFinish(p)
    \/ \E w \in Sockets : SocketClaim(w) \/ WsTask(w) \/ WsFinish(w)
    \/ OtaClose
    \/ ShortCircuit

Next ==
    \/ Alive /\ Running
    \/ Reboot

Spec == Init /\ [][Next]_vars

-----------------------------------------------------------------------------
(* Fairness: a task which is ready runs.  Nothing obliges a USB host, a    *)
(* WebSocket client or a decoder to fall silent, so the loops which wait   *)
(* for them (UsbFinish, WsFinish, OutFinish of the other tasks) need not   *)
(* end, and a CV access (DccServe) may take as long as it likes.  The DCC  *)
(* loops do run out of packets when nobody feeds them.                     *)

Fed == dcc \in {"ops", "poll", "serve"} \/ usb["DCC_EIN"] = "loop"

Fairness ==
    /\ \A t \in OutTasks : WF_vars(Alive /\ OutTask(t) /\ out[t] # "run")
    /\ WF_vars(Alive /\ OutFlagged)
    /\ WF_vars(Alive /\ OutFinish("dcc") /\ ~Fed)
    /\ WF_vars(Alive /\ Z21Step)
    /\ WF_vars(Alive /\ DccTask /\ dcc # "serve")
    /\ \A p \in UsbProtocols : WF_vars(Alive /\ UsbTask(p))
    /\ \A w \in Sockets : WF_vars(Alive /\ WsTask(w))
    /\ WF_vars(Alive /\ OtaClose)
    /\ WF_vars(Reboot)

FairSpec == Spec /\ Fairness

-----------------------------------------------------------------------------
(* Properties                                                              *)

\* A low-level task at work: from leaving its idle switch for an owner to
\* giving the word back.
Active(t) == out[t] \in {"resume", "run", "stop", "store"}

\* config.hpp: "Restricts access to low-level tasks".  Two low-level tasks
\* are never at work at once, whatever the order in which the Z21 clients,
\* the USB host and the WebSocket clients ask for the output.
Exclusive == \A t, u \in OutTasks : Active(t) /\ Active(u) => t = u

\* The low-level task at work is the one of the interface `state` names; the
\* DCC task may also be finishing after the DCC service task asked it to.
OnlyOwnerActive ==
    \A t \in OutTasks :
        Active(t) => \/ state \in Serves[t]
                     \/ t = "dcc" /\ state = "Suspend"

\* The owner the word stands for: while the DCC service task waits under
\* Suspend for its own output, the output is still its own.
Owner == IF state \in Owners THEN state
         ELSE IF state = "Suspend" THEN "DCCOperations" ELSE "none"

\* The word keeps the promise of ExclusiveOutput: an output is claimed only
\* when nobody owns it, only its owner's low-level task drives the hardware,
\* and it is given back only when nobody drives it.
Arbiter == INSTANCE ExclusiveOutput WITH
    NoOwner <- "none",
    owner <- Owner,
    driving <- {t \in OutTasks : Driving(t)}
ImplementsArbiter == Arbiter!Spec

\* trackPower waits for the answer to a Suspend which nobody is left to give:
\* both DCC tasks are suspended already.
Orphaned ==
    z21 = "waitSuspended" /\ state # "Suspended" /\ dcc = "suspended" /\ OutSuspended("dcc")

\* trackPower holds the mutex every Z21 request needs ("Wait for suspend to
\* complete").  Only two things hold it up: such a Suspend, and a USB session
\* which took the DCC task while trackPower was waiting for it.
OnlyOrphansHang ==
    z21 # "idle" ~> z21 = "idle" \/ Orphaned \/ usb["DCC_EIN"] = "loop"

\* A resume came while the task it was for was about to suspend itself.
Missed ==
    \/ dcc = "suspended" /\ z21 = "idle"
    \/ out["dcc"] = "suspended" /\ dcc \in {"ops", "poll"}

\* "Already running": a word which says DCCOperations means a DCC task which
\* drives the track, or soon will, unless a wake-up was lost.
OnlyMissedStandStill ==
    state = "DCCOperations" ~> out["dcc"] = "run" \/ state # "DCCOperations" \/ Missed

\* A request for power returns, and what it leaves in the word becomes true, but
\* for the exceptions named above.
PowerRequestsEnd == OnlyOrphansHang /\ OnlyMissedStandStill

\* Nobody stores the word blindly: no power off, no short circuit, and Z21
\* clients which await the result of a CV access.
NoBlindStore ==
    /\ "trackPowerOff" \notin Inputs
    /\ "shortCircuit" \notin Inputs
    /\ PatientClient

\* What OnlyOwnerActive rests on under NoBlindStore: Suspend is only the DCC service
\* task's own hand-over, made for a request which is still queued, and the Z21
\* service never takes its path around the compare-exchange.
HandOver ==
    /\ state # "ShortCircuit"
    /\ z21 \notin {"waitSuspended", "clear", "off"}
    /\ state = "Suspend" => dcc \in {"svcWait", "svcClaim"}
    /\ dcc \in {"svcWait", "svcClaim", "svcResume", "serve"} => cv > 0

Inv == TypeOK /\ OnlyOwnerActive /\ HandOver

\* "Clear errors" (z21/service.cpp): a short circuit stays in the word until a
\* client switches the power on again or the firmware restarts, unless a
\* low-level task looked at the flag just before it was set.
ErrorsKept ==
    [][state = "ShortCircuit" /\ state' # "ShortCircuit"
           => z21 = "clear" \/ abort # "none" \/ \E t \in OutTasks : out[t] = "store"]_vars

\* assert(!encoder) in the resume() of every track output: the hardware the
\* low-level tasks share is free when one of them starts.
HardwareFree == abort # "hardware"

\* One low-level task is at work at most, for the interface the word names or named
\* before a flag was set.
Orderly ==
    /\ Exclusive
    /\ HardwareFree
    /\ \A t \in OutTasks :
           Active(t) => \/ state \in Serves[t]
                        \/ state = "ShortCircuit"
                        \/ t = "dcc" /\ state = "Suspend"

\* Whoever asks for the output, with power off and short circuits at any moment and
\* clients which wait for nothing: this order is lost in one way only, when "Clear
\* errors" (z21/service.cpp) stores Suspended while a low-level task is at work.
OrderLostByClearing ==
    [][Orderly /\ ~Orderly' => Z21Clear /\ \E t \in OutTasks : Active(t)]_vars

=============================================================================
