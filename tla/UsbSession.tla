----------------------------- MODULE UsbSession ------------------------------
(***************************************************************************)
(* A USB session from its entry string to the moment the output is given   *)
(* back: usb::rx_task, the tasks of the protocols DCC_EIN, DECUP_EIN and   *)
(* SUSIV2, and the low-level tasks which take what they push into the      *)
(* front message buffer (out/track/dcc, out/track/decup, out/zusi).        *)
(*                                                                         *)
(* The two ends of a session time out on their own.  Neither order is      *)
(* ruled out: a host may send part of a command, bytes which are collected *)
(* only, or a command nobody answers, and the low-level task is the first; *)
(* or the protocol task is, whose time runs from before its last wait.     *)
(***************************************************************************)
EXTENDS Integers, Sequences, FiniteSets

CONSTANTS
    Protocols,      \* the entry strings in use
    Kinds,          \* what a host sends, a subset of AllKinds
    LeftKinds,      \* what an earlier session may have left in the buffer
    InCapacity,     \* inputs in usb::rx_stream_buffer
    FrontCapacity,  \* messages in out::tx_message_buffer.front_handle
    MaxInputs,      \* what the host sends altogether
    MaxCuts         \* short circuits

AllProtocols == {"DCC_EIN", "DECUP_EIN", "SUSIV2"}

\* "packet" is passed on and answered; "part" is kept or ignored; "silent" and
\* "features" are SUSIV2 commands without an answer and with the longest one.
AllKinds == {"packet", "part", "silent", "features", "exit"}

ASSUME UsbSessionAssumption ==
    /\ Protocols \subseteq AllProtocols
    /\ Kinds \subseteq AllKinds /\ LeftKinds \subseteq AllKinds
    /\ InCapacity \in Nat \ {0} /\ FrontCapacity \in Nat \ {0}
    /\ MaxInputs \in Nat \ {0} /\ MaxCuts \in Nat

Outs == {"dcc", "decup", "zusi"}
OutOf == [DCC_EIN |-> "dcc", DECUP_EIN |-> "decup", SUSIV2 |-> "zusi"]
Serves == [dcc |-> {"DCC_EIN", "DCCOperations"}, decup |-> {"DECUP_EIN"},
           zusi |-> {"SUSIV2"}]

VARIABLES
    state,    \* the atomic word
    rx,       \* usb::rx_task
    usb,      \* usb[p]: protocol task p
    cur,      \* cur[p]: the message it has in hand
    in,       \* usb::rx_stream_buffer
    out,      \* out[t]: low-level task t
    work,     \* work[t]: the message it is at
    front,    \* front message buffer
    answers,  \* out::rx_message_buffer
    sent, cuts, \* what the host has sent, short circuits so far
    late,     \* answers may come late in this session: messages were left over
              \* when it began, or SUSIV2 has given up an answer
    abort,    \* the assert which failed, or "none"
    cleared   \* errors were cleared with a low-level task at work, and this session
              \* or one before has found it there

usbVars == <<usb, cur, late>>
outVars == <<out, work>>
buffers == <<front, answers>>
bounds == <<sent, cuts>>
faults == <<abort, cleared>>
vars == <<state, rx, usbVars, in, outVars, buffers, bounds, faults>>

\* A message: who pushed it, what it is, its number, and whether its low-level
\* task was there to take it.
Messages == [from : AllProtocols, kind : AllKinds, no : 0..MaxInputs, served : BOOLEAN]
Nothing == [from |-> "DCC_EIN", kind |-> "part", no |-> 0, served |-> FALSE]

RxPcs == {"listen", "parking", "suspended", "wait"}
UsbPcs == {"suspended", "claim", "start", "loop", "send", "answer", "wake", "parking"}
OutPcs == {"suspended", "switch", "parking", "run", "busy", "reset", "store"}

TypeOK ==
    /\ state \in AllProtocols \cup {"Suspended", "Suspend", "ShortCircuit", "DCCOperations"}
    /\ rx \in RxPcs
    /\ usb \in [AllProtocols -> UsbPcs] /\ cur \in [AllProtocols -> Messages]
    /\ in \in Seq(AllKinds \cup AllProtocols)
    /\ out \in [Outs -> OutPcs] /\ work \in [Outs -> Messages]
    /\ front \in Seq(Messages) /\ Len(front) <= FrontCapacity
    /\ answers \in Seq(Messages)
    /\ late \in BOOLEAN
    /\ sent \in 0..MaxInputs /\ cuts \in 0..MaxCuts
    /\ abort \in {"none", "bytes_received", "hardware"} /\ cleared \in BOOLEAN

\* What a protocol passes on. DECUP knows no commands, DCC no answers.
PassedOn(p, k) ==
    \/ k = "packet"
    \/ p = "SUSIV2" /\ k \in {"silent", "features", "exit"}

Suspended == [p \in AllProtocols |-> "suspended"]
Parked == [t \in Outs |-> "suspended"]

\* A message which an earlier session pushed after its low-level task had left.
Leftovers ==
    {m \in [from : Protocols, kind : LeftKinds, no : {0}, served : {FALSE}] :
        PassedOn(m.from, m.kind)}

\* No session is open; the one before may have left something in the buffer, which
\* counts as sent.
Init ==
    /\ state = "Suspended" /\ rx = "listen" /\ in = <<>>
    /\ usb = Suspended /\ cur = [p \in AllProtocols |-> Nothing]
    /\ out = Parked /\ work = [t \in Outs |-> Nothing]
    /\ front \in {<<>>} \cup {<<m>> : m \in Leftovers} /\ answers = <<>>
    /\ late = FALSE /\ abort = "none" /\ cleared = FALSE
    /\ sent = Len(front) /\ cuts = 0

Driving(t) == out[t] \in {"run", "busy"}
AtWork(t) == out[t] \in {"run", "busy", "reset", "store"}

WakeOut(t) == out' = [out EXCEPT ![t] = IF @ = "suspended" THEN "switch" ELSE @]

-----------------------------------------------------------------------------
(* usb::rx_task *)

\* Read up to an entry string, and resume its protocol task.  Anything else is
\* forgotten.
RxListen ==
    /\ rx = "listen"
    /\ in # <<>>
    /\ in' = Tail(in)
    /\ IF Head(in) \in AllProtocols
       THEN /\ rx' = "parking"
            /\ usb' = [usb EXCEPT ![Head(in)] = IF @ = "suspended" THEN "claim" ELSE @]
       ELSE UNCHANGED <<rx, usb>>
    /\ UNCHANGED <<state, cur, late, outVars, buffers, bounds, faults>>

RxPark ==
    /\ rx = "parking" /\ rx' = "suspended"
    /\ UNCHANGED <<state, usbVars, in, outVars, buffers, bounds, faults>>

AllSuspended == \A p \in AllProtocols : usb[p] = "suspended"

\* Mutant of RxWait: woken, the task listens at once.
MutRxWait ==
    /\ rx = "wait" /\ rx' = "listen"
    /\ UNCHANGED <<state, usbVars, in, outVars, buffers, bounds, faults>>

\* Mutant of RxWait: the task waits for the output instead.
MutRxWaitOutput ==
    /\ rx = "wait" /\ rx' = "listen"
    /\ AllSuspended /\ state = "Suspended"
    /\ UNCHANGED <<state, usbVars, in, outVars, buffers, bounds, faults>>

\* wait_for_all_protocol_tasks_to_suspend
RxWait ==
    /\ rx = "wait" /\ rx' = "listen"
    /\ AllSuspended
    /\ UNCHANGED <<state, usbVars, in, outVars, buffers, bounds, faults>>

-----------------------------------------------------------------------------
(* Protocol tasks *)

UsbGoto(p, from, to) == usb[p] = from /\ usb' = [usb EXCEPT ![p] = to]

UsbClaim(p) ==
    /\ IF state = "Suspended"
       THEN /\ UsbGoto(p, "claim", "start")
            /\ state' = p
       ELSE UsbGoto(p, "claim", "wake") /\ UNCHANGED state
    /\ UNCHANGED <<rx, cur, in, outVars, buffers, late, bounds, faults>>

UsbStart(p) ==
    /\ UsbGoto(p, "start", "loop")
    /\ WakeOut(OutOf[p])
    /\ late' = (front # <<>> \/ answers # <<>> \/ out[OutOf[p]] = "busy")
    /\ cleared' = (cleared /\ \E t \in Outs : AtWork(t))
    /\ UNCHANGED <<state, rx, cur, in, work, front, answers, bounds, abort>>

Served(p) == state = p /\ out[OutOf[p]] \in {"run", "busy"}

\* Bytes from the host: a packet or a command, or a part of one.  SUSIV2 leaves
\* if it gets less than it asked for, except within a ZPP block.
UsbTake(p) ==
    /\ usb[p] = "loop"
    /\ in # <<>>
    /\ in' = Tail(in)
    /\ IF PassedOn(p, Head(in))
       THEN /\ usb' = [usb EXCEPT ![p] = "send"]
            /\ cur' = [cur EXCEPT ![p] = [from |-> p, kind |-> Head(in),
                             no |-> sent, served |-> FALSE]]
       ELSE /\ \E pc \in {"loop"} \cup (IF p = "SUSIV2" THEN {"wake"} ELSE {}) :
                   usb' = [usb EXCEPT ![p] = pc]
            /\ UNCHANGED cur
    /\ UNCHANGED <<state, rx, late, outVars, buffers, bounds, faults>>

\* The host has fallen silent.  DCC_EIN and DECUP_EIN look at the time before
\* they look at what has arrived.
UsbTimeout(p) ==
    /\ UsbGoto(p, "loop", "wake")
    /\ p = "SUSIV2" => in = <<>>
    /\ UNCHANGED <<state, rx, cur, in, outVars, buffers, late, bounds, faults>>

FrontFull == Len(front) >= FrontCapacity

\* DCC_EIN and SUSIV2 wait for space without a timeout, DECUP_EIN goes on.
UsbSend(p) ==
    /\ usb[p] = "send"
    /\ LET m == [cur[p] EXCEPT !.served = Served(p)] IN
       /\ cur' = [cur EXCEPT ![p] = m]
       /\ FrontFull => p = "DECUP_EIN"
       /\ front' = IF FrontFull THEN front ELSE Append(front, m)
    /\ usb' = [usb EXCEPT ![p] = IF p = "DCC_EIN" THEN "loop" ELSE "answer"]
    /\ UNCHANGED <<state, rx, in, outVars, answers, late, bounds, faults>>

\* return_on_exit looks at the byte the command began with, which the answer to
\* "features" has overwritten with its checksum.
AfterAnswer(p) ==
    \/ /\ cur[p].kind # "exit"
       /\ usb' = [usb EXCEPT ![p] = "loop"]
    \/ /\ cur[p].kind = "exit" \/ (cur[p].kind = "features" /\ answers # <<>>)
       /\ usb' = [usb EXCEPT ![p] = "wake"]

UsbAnswer(p) ==
    /\ usb[p] = "answer"
    /\ answers # <<>>
    /\ answers' = Tail(answers)
    /\ AfterAnswer(p)
    /\ UNCHANGED <<state, rx, cur, in, outVars, front, late, bounds, faults>>

\* The low-level task is at a message, or about to take one.  Any message will do:
\* one left over by another session is answered too.
Coming(p) ==
    LET t == OutOf[p] IN
    \/ out[t] = "busy"
    \/ /\ out[t] = "run" \/ (out[t] = "switch" /\ state = p)
       /\ front # <<>>

\* A SUSIV2 command may take longer than the wait; a DECUP packet may not, but
\* an answer which is missing fails assert(bytes_received).
UsbAnswerTimeout(p) ==
    /\ usb[p] = "answer"
    /\ answers = <<>>
    /\ IF p = "SUSIV2"
       THEN /\ AfterAnswer(p) /\ UNCHANGED abort
            /\ late' = (late \/ cur[p].kind # "silent")
       ELSE ~Coming(p) /\ abort' = "bytes_received" /\ UNCHANGED <<usb, late>>
    /\ UNCHANGED <<state, rx, cur, in, outVars, buffers, bounds, cleared>>

\* LOGI_TASK_RESUME(usb::rx_task.handle)
UsbEnd(p) ==
    /\ UsbGoto(p, "wake", "parking")
    /\ rx' = IF rx = "suspended" THEN "wait" ELSE rx
    /\ UNCHANGED <<state, cur, late, in, outVars, buffers, bounds, faults>>

UsbPark(p) ==
    /\ UsbGoto(p, "parking", "suspended")
    /\ cur' = [cur EXCEPT ![p] = Nothing]
    /\ UNCHANGED <<state, rx, late, in, outVars, buffers, bounds, faults>>

-----------------------------------------------------------------------------
(* Low-level tasks *)

OutGoto(t, from, to) == out[t] = from /\ out' = [out EXCEPT ![t] = to]

\* The task which was resumed takes the output, if it is still meant to.  Its
\* resume() fails if another task has not released the encoder and the timer.
OutSwitch(t) ==
    /\ IF state \in Serves[t] /\ \E u \in Outs \ {t} : Driving(u)
       THEN /\ out[t] = "switch" /\ abort' = "hardware"
            /\ UNCHANGED out
       ELSE /\ OutGoto(t, "switch", IF state \in Serves[t] THEN "run" ELSE "parking")
            /\ UNCHANGED abort
    /\ UNCHANGED <<state, rx, usbVars, in, work, buffers, bounds, cleared>>

OutPark(t) ==
    /\ OutGoto(t, "parking", "suspended")
    /\ UNCHANGED <<state, rx, usbVars, in, work, buffers, bounds, faults>>

Flagged == state \in {"Suspend", "ShortCircuit"}

OutTake(t) ==
    /\ t = "dcc" => ~Flagged
    /\ front # <<>>
    /\ front' = Tail(front)
    /\ OutGoto(t, "run", IF t = "dcc" THEN "run" ELSE "busy")
    /\ work' = [work EXCEPT ![t] = IF t = "dcc" THEN Nothing ELSE Head(front)]
    /\ UNCHANGED <<state, rx, usbVars, in, answers, bounds, faults>>

\* DECUP counts the pulses after whatever it has transmitted.  ZUSI looks for a
\* command in what others have left in the buffer, and may find any.
MayAnswer(t, m) == t = "decup" \/ m.kind # "silent" \/ m.from # "SUSIV2"
MayIgnore(t, m) == t = "zusi" /\ (m.kind = "silent" \/ m.from # "SUSIV2")
MayExit(t, m) == t = "zusi" /\ (m.kind = "exit" \/ m.from # "SUSIV2")

\* Mutant of OutAnswer: commands without an answer are answered too.
MutOutAnswer(t) ==
    /\ \/ OutGoto(t, "busy", "run")
       \/ MayExit(t, work[t]) /\ OutGoto(t, "busy", "reset")
    /\ answers' = Append(answers, work[t])
    /\ work' = [work EXCEPT ![t] = Nothing]
    /\ UNCHANGED <<state, rx, usbVars, in, front, bounds, faults>>

\* Mutant of OutAnswer: without an acknowledge nothing is sent.
MutOutAnswerAck(t) ==
    /\ OutGoto(t, "busy", "run")
    /\ \/ answers' = answers
       \/ answers' = Append(answers, work[t])
    /\ work' = [work EXCEPT ![t] = Nothing]
    /\ UNCHANGED <<state, rx, usbVars, in, front, bounds, faults>>

\* The decoder is done. An exit which is acknowledged ends the loop.
OutAnswer(t) ==
    /\ \/ /\ MayAnswer(t, work[t])
          /\ answers' = Append(answers, work[t])
          /\ \/ OutGoto(t, "busy", "run")
             \/ MayExit(t, work[t]) /\ OutGoto(t, "busy", "reset")
       \/ /\ MayIgnore(t, work[t])
          /\ UNCHANGED answers
          /\ OutGoto(t, "busy", "run")
    /\ work' = [work EXCEPT ![t] = Nothing]
    /\ UNCHANGED <<state, rx, usbVars, in, front, bounds, faults>>

\* DCC: nothing to transmit, or a flag.  dcc::task keeps the back message buffer
\* filled, and so does DCC_EIN, but only between two packets, so that a slow host
\* lets it run dry.  Others: a timeout.  DECUP looks at the time after its wait,
\* and may drop the packet which ended it.
OutEnd(t) ==
    /\ OutGoto(t, "run", "reset")
    /\ CASE t = "dcc" -> (front = <<>> /\ state # "DCCOperations") \/ Flagged
         [] t = "decup" -> Len(front) <= 1
         [] t = "zusi" -> front = <<>>
    /\ front' = IF t = "decup" THEN <<>> ELSE front
    /\ UNCHANGED <<state, rx, usbVars, in, work, answers, bounds, faults>>

\* xMessageBufferReset fails while somebody is blocked on the buffer.
Blocked ==
    \E p \in AllProtocols : \/ usb[p] = "send" /\ FrontFull
                            \/ usb[p] = "answer" /\ answers = <<>>

\* Mutant of OutReset: the front message buffer keeps what is in it.
MutOutReset(t) ==
    /\ OutGoto(t, "reset", IF state = "ShortCircuit" THEN "switch" ELSE "store")
    /\ ~Blocked
    /\ answers' = <<>>
    /\ UNCHANGED <<state, rx, usbVars, in, work, front, bounds, faults>>

OutReset(t) ==
    /\ OutGoto(t, "reset", IF state = "ShortCircuit" THEN "switch" ELSE "store")
    /\ ~Blocked
    /\ front' = <<>> /\ answers' = <<>>
    /\ UNCHANGED <<state, rx, usbVars, in, work, bounds, faults>>

\* Mutant of OutStore: the word keeps the protocol.
MutOutStore(t) ==
    /\ OutGoto(t, "store", "switch")
    /\ UNCHANGED <<state, rx, usbVars, in, work, buffers, bounds, faults>>

OutStore(t) ==
    /\ OutGoto(t, "store", "switch")
    /\ state' = "Suspended"
    /\ UNCHANGED <<rx, usbVars, in, work, buffers, bounds, faults>>

-----------------------------------------------------------------------------
(* The host, the ADC task and the Z21 service *)

\* Only SUSIV2 tells the other kinds from "part".
HostSends ==
    /\ sent < MaxInputs /\ sent' = sent + 1
    /\ Len(in) < InCapacity
    /\ \E x \in Kinds \cup Protocols :
          /\ x \in {"silent", "features", "exit"} => usb["SUSIV2"] # "suspended"
          /\ in' = Append(in, x)
    /\ UNCHANGED <<state, rx, usbVars, outVars, buffers, cuts, faults>>

ShortCircuit ==
    /\ cuts < MaxCuts /\ cuts' = cuts + 1
    /\ state # "ShortCircuit" /\ state' = "ShortCircuit"
    /\ UNCHANGED <<rx, usbVars, in, outVars, buffers, sent, faults>>

\* trackPower(true): errors are cleared, whoever is at work, and the track is
\* taken when it is free.
PowerClear ==
    /\ state = "ShortCircuit" /\ state' = "Suspended"
    /\ cleared' = (cleared \/ \E t \in Outs : AtWork(t))
    /\ UNCHANGED <<rx, usbVars, in, outVars, buffers, bounds, abort>>

PowerOn ==
    /\ state = "Suspended" /\ state' = "DCCOperations"
    /\ out["dcc"] = "suspended" /\ WakeOut("dcc")
    /\ UNCHANGED <<rx, usbVars, in, work, buffers, bounds, faults>>

PowerOff ==
    /\ state = "DCCOperations" /\ state' = "Suspend"
    /\ out["dcc"] = "run"
    /\ UNCHANGED <<rx, usbVars, in, outVars, buffers, bounds, faults>>

\* A failed assertion restarts the chip.
Restart ==
    /\ abort # "none" /\ abort' = "none"
    /\ state' = "Suspended" /\ rx' = "listen" /\ in' = <<>>
    /\ usb' = Suspended /\ cur' = [p \in AllProtocols |-> Nothing]
    /\ out' = Parked /\ work' = [t \in Outs |-> Nothing]
    /\ front' = <<>> /\ answers' = <<>>
    /\ late' = FALSE /\ cleared' = FALSE
    /\ UNCHANGED bounds

-----------------------------------------------------------------------------
RxTask == RxListen \/ RxPark \/ RxWait
UsbTask(p) ==
    \/ UsbClaim(p) \/ UsbStart(p) \/ UsbTake(p) \/ UsbTimeout(p) \/ UsbSend(p)
    \/ UsbAnswer(p) \/ UsbAnswerTimeout(p) \/ UsbEnd(p) \/ UsbPark(p)
OutTask(t) ==
    \/ OutSwitch(t) \/ OutPark(t) \/ OutTake(t) \/ OutAnswer(t) \/ OutEnd(t)
    \/ OutReset(t) \/ OutStore(t)

Running ==
    \/ RxTask
    \/ \E p \in AllProtocols : UsbTask(p)
    \/ \E t \in Outs : OutTask(t)
    \/ HostSends \/ ShortCircuit \/ PowerClear \/ PowerOn \/ PowerOff

Next == (abort = "none" /\ Running) \/ Restart

Spec == Init /\ [][Next]_vars

\* A task which can run runs, and a timeout expires in the end.  Nobody is
\* obliged to send anything, or to switch the power.
Alive == abort = "none"
Fairness ==
    /\ WF_vars(Alive /\ RxTask)
    /\ WF_vars(Alive /\ \E p \in AllProtocols : UsbTask(p))
    /\ WF_vars(Alive /\ \E t \in Outs : OutTask(t))
    /\ WF_vars(Restart)
FairSpec == Spec /\ Fairness

-----------------------------------------------------------------------------
(* Properties *)

\* The USB stream has one reader: while rx_task listens every protocol task is
\* suspended, and two of them never run at once.
OneReader ==
    /\ rx = "listen" => AllSuspended
    /\ \A p, q \in AllProtocols : usb[p] # "suspended" /\ usb[q] # "suspended" => p = q

\* One low-level task drives the output at a time.  Unless errors were cleared with
\* a task at work, one is at work, and only for the interface the word names, or
\* until it has noticed that the word has changed to a flag.
OutputServed ==
    /\ \A t, u \in Outs : Driving(t) /\ Driving(u) => t = u
    /\ ~cleared => \A t \in Outs : AtWork(t) =>
        /\ \/ state \in Serves[t] \cup {"ShortCircuit"}
           \/ t = "dcc" /\ state = "Suspend"
        /\ \A u \in Outs : AtWork(u) => u = t

\* A message which was pushed while its task was at work does not outlive the
\* work of that task.
MessagesGuarded ==
    /\ \A p \in AllProtocols : usb[p] = "send" => cur[p].from = p
    /\ \A i \in DOMAIN front : front[i].served =>
          out[OutOf[front[i].from]] \in {"run", "busy", "reset"}

\* From its claim to its end a session has the only protocol task, the word names
\* no other, and unless errors were cleared with a task at work no low-level task
\* but its own, or that of the DCC service, is at work.
InSession(p) == usb[p] \in {"start", "loop", "send", "answer"}
SessionAlone ==
    /\ \A p \in AllProtocols : InSession(p) =>
          /\ state \notin AllProtocols \ {p}
          /\ ~cleared => \A t \in Outs \ {"dcc", OutOf[p]} : ~AtWork(t)
    /\ usb["DCC_EIN"] # "answer" /\ out["dcc"] # "busy"

\* While DECUP_EIN waits for an answer and its low-level task is at work or has
\* yet to start, there is a message to answer, or an answer, unless errors were
\* cleared with a task at work, whose end empties the buffers.
MayServe(p) ==
    LET t == OutOf[p] IN
    out[t] = "run" \/ (state = p /\ out[t] \in {"suspended", "switch", "parking"})
AnswerOwed ==
    usb["DECUP_EIN"] = "answer" /\ MayServe("DECUP_EIN") /\ ~cleared =>
        front # <<>> \/ answers # <<>>

\* Unless answers may come late or come from a task which was at work when errors
\* were cleared, what is in the buffers and at work is the message
\* in hand, once, and SUSIV2 commands nobody answers.
Asks(m) == m.kind # "silent"
InHand(p, m) == usb[p] = "answer" /\ m.no = cur[p].no /\ Asks(cur[p])
Own(p, m) == m.from = p /\ PassedOn(p, m.kind)
OneAsked(p) ==
    LET t == OutOf[p] IN
    /\ usb[p] \in {"send", "answer"} => Own(p, cur[p])
    /\ \A i \in DOMAIN front :
          /\ Own(p, front[i])
          /\ Asks(front[i]) =>
                /\ InHand(p, front[i])
                /\ \A j \in DOMAIN front : Asks(front[j]) => i = j
    /\ out[t] = "busy" =>
          /\ Own(p, work[t])
          /\ Asks(work[t]) =>
                /\ InHand(p, work[t])
                /\ \A i \in DOMAIN front : ~Asks(front[i])
    /\ answers # <<>> =>
          /\ Len(answers) = 1 /\ InHand(p, Head(answers))
          /\ out[t] = "busy" => ~Asks(work[t])
          /\ \A i \in DOMAIN front : ~Asks(front[i])
AskedOnce ==
    \A p \in {"DECUP_EIN", "SUSIV2"} :
        usb[p] \in {"loop", "send", "answer"} /\ ~late /\ ~cleared => OneAsked(p)

Inv ==
    /\ TypeOK /\ OneReader /\ OutputServed /\ MessagesGuarded
    /\ SessionAlone /\ AnswerOwed /\ AskedOnce

\* What a session pushed while its low-level task was at work is transmitted by
\* that task: no other output ever finds it in the buffer, unless errors were
\* cleared with a task at work, which is still about to empty it.  What it pushes
\* after that task has left is not covered, and is transmitted by the next one.
NoStrangers ==
    [][\A t \in Outs : OutTake(t) /\ Head(front).served =>
          OutOf[Head(front).from] = t \/ cleared]_vars

\* An answer is the answer to the command in hand, unless SUSIV2 has given one up
\* before, an earlier session left messages which nobody took, or errors were
\* cleared with a task at work.
RightAnswer ==
    [][\A p \in AllProtocols : UsbAnswer(p) =>
          Head(answers).no = cur[p].no \/ late \/ cleared]_vars

\* assert(bytes_received): an answer is missing only if the low-level task has
\* left, not while it is at work, unless a task which was at work when errors were
\* cleared has emptied the buffers.
AckArrives ==
    abort = "bytes_received" => out["decup"] # "run" \/ cleared

\* rx_task was resumed before it had suspended itself.
Deaf == rx = "suspended" /\ AllSuspended

\* A protocol task waits for space and nobody takes anything.
SendStuck == \E p \in Protocols : usb[p] = "send" /\ FrontFull /\ \A t \in Outs : ~Driving(t)

\* After a session, or an entry which was refused, rx_task listens again.
ListensAgain == []<>(rx = "listen" \/ Deaf \/ SendStuck)

\* The low-level task was resumed before it had suspended itself.
NeverStarted == \E p \in Protocols : state = p /\ out[OutOf[p]] = "suspended"

\* The session is over and its output is still taken.
Unreturned == state \in Protocols /\ usb[state] = "suspended"

\* Once a session is over the output is given back.
GivenBack == []<>(~Unreturned \/ NeverStarted \/ SendStuck)

=============================================================================
