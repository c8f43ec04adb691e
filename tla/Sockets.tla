------------------------------- MODULE Sockets -------------------------------
(***************************************************************************)
(* The services behind the WebSockets /zusi/, /mdu/zsu/ and /ota/: the     *)
(* HTTP server, which claims the output for the first message and queues   *)
(* it, the tasks of the services, which take one message after the other,  *)
(* and the low-level tasks out::zusi and out::track::mdu.                  *)
(*                                                                         *)
(* The HTTP server and a service task run on different cores and share the *)
(* queue without a lock; each call of std::queue is one step here.  The    *)
(* service and its low-level task give up after times of their own, in     *)
(* either order, and only the low-level task gives the output back.        *)
(***************************************************************************)
EXTENDS Integers, Sequences

CONSTANTS
    Clients,        \* the sockets which are in use
    MaxMessages,    \* what the clients send altogether
    FrontCapacity,  \* messages in out::tx_message_buffer.front_handle
    MaxCuts         \* short circuits

ASSUME SocketsAssumption ==
    /\ MaxMessages \in Nat /\ MaxCuts \in Nat
    /\ FrontCapacity \in Nat \ {0}

Services == {"ZUSI", "MDUZsu", "OTA"}
ASSUME ClientsAssumption == Clients \subseteq Services
Senders == {"ZUSI", "MDUZsu"}     \* the services with a low-level task
Outs == {"zusi", "mdu"}
OutOf == [ZUSI |-> "zusi", MDUZsu |-> "mdu"]
Serves == [zusi |-> "ZUSI", mdu |-> "MDUZsu"]

\* A message is binary, a close frame or of another type.  "silent" is a ZUSI
\* command without an answer, "exit" ends the low-level loop, "first" and "rest"
\* are the parts of a firmware image.
KindsOf == [ZUSI |-> {"binary", "silent", "exit", "text", "close"},
            MDUZsu |-> {"binary", "exit", "text", "close"},
            OTA |-> {"first", "rest", "text", "close"}]
Kinds == UNION {KindsOf[w] : w \in Services}
Image == <<"first", "rest">>

\* late: pushed when nobody was in the loop.  An answer has the length of the
\* low-level task which sends it.
Messages == [from : Services, kind : Kinds, no : 0..MaxMessages, late : BOOLEAN]
NoMessage == [from |-> "OTA", kind |-> "text", no |-> 0, late |-> FALSE]
Answers == [to : Messages, by : Outs]

VARIABLES
    state,          \* the atomic word
    httpd,          \* the task of the HTTP server: pc, service and message
    task, queue,    \* task[w] and _queue of service w
    out, work,      \* low-level tasks and the message they are at
    front, answers, \* front message buffer, out::rx_message_buffer
    handle, flash,  \* _handle is open; what was written through it
    boot,           \* a complete image was set as boot partition
    heard, clean,   \* history: OTA messages since the claim, idle then
    lost,           \* history: a command was sent which nobody will answer, or
    cleared,        \* errors were cleared with a low-level task at work
    sent, cuts,     \* bounds
    abort           \* the failed assert or the restart which is due

outVars == <<out, work>>
buffers == <<front, answers>>
flashVars == <<handle, flash, boot>>
history == <<heard, clean, lost, cleared>>
bounds == <<sent, cuts>>
vars == <<state, httpd, task, queue, outVars, buffers, flashVars,
          history, bounds, abort>>

TaskPcs == {"suspended", "switch", "parking", "loop", "sent", "receive", "closing",
            "delay"}
OutPcs == {"suspended", "switch", "parking", "run", "busy", "reset"}

TypeOK ==
    /\ state \in Services \cup {"Suspended", "ShortCircuit"}
    /\ httpd \in [pc : {"idle", "push"}, w : Services, m : Messages]
    /\ task \in [Services -> TaskPcs]
    /\ queue \in [Services -> Seq(Messages)]
    /\ out \in [Outs -> OutPcs] /\ work \in [Outs -> Messages]
    /\ front \in Seq(Messages) /\ answers \in Seq(Answers)
    /\ handle \in BOOLEAN /\ flash \in Seq(Kinds) /\ boot \in BOOLEAN
    /\ heard \in Seq(Kinds) /\ clean \in BOOLEAN
    /\ lost \in BOOLEAN /\ cleared \in BOOLEAN
    /\ sent \in 0..MaxMessages /\ cuts \in 0..MaxCuts
    /\ abort \in {"none", "assert", "bytes_received", "hardware", "update"}

Idle == [pc |-> "idle", w |-> "OTA", m |-> NoMessage]

Running ==
    /\ state = "Suspended" /\ httpd = Idle
    /\ task = [w \in Services |-> "suspended"] /\ queue = [w \in Services |-> <<>>]
    /\ out = [t \in Outs |-> "suspended"] /\ work = [t \in Outs |-> NoMessage]
    /\ front = <<>> /\ answers = <<>>
    /\ handle = FALSE /\ flash = <<>>
    /\ heard = <<>> /\ clean = TRUE /\ lost = FALSE /\ cleared = FALSE

Init ==
    /\ Running
    /\ boot = FALSE /\ abort = "none"
    /\ sent = 0 /\ cuts = 0

-----------------------------------------------------------------------------
(* The HTTP server *)

InLoop(w) == task[w] \in {"loop", "sent", "receive"}

Driving(t) == out[t] \in {"run", "busy"}
AtWork(t) == out[t] \in {"run", "busy", "reset"}

\* vTaskResume has no effect on a task which is not suspended.  The ZUSI task
\* goes straight into its loop, the others look at the word again.
WakeTask(w) ==
    task' = [task EXCEPT ![w] =
                IF @ = "suspended" THEN IF w = "ZUSI" THEN "loop" ELSE "switch" ELSE @]
WakeOut(t) == out' = [out EXCEPT ![t] = IF @ = "suspended" THEN "switch" ELSE @]

\* socket: any message but a close frame claims an output which is free, and the
\* tasks are resumed.
Claim(w) ==
    /\ state' = w
    /\ WakeTask(w)
    /\ IF w \in Senders THEN WakeOut(OutOf[w]) ELSE UNCHANGED out
    /\ IF w = "OTA" THEN heard' = <<>> /\ clean' = (queue[w] = <<>> /\ ~InLoop(w))
                    ELSE UNCHANGED <<heard, clean>>
    /\ cleared' = (cleared /\ \E t \in Outs : AtWork(t))

\* asyncResponse: a frame was read and is passed to its handler, which looks at
\* nothing but the word: ESP_OK while it names the service.
HttpdReceive(w, k) ==
    /\ httpd.pc = "idle"
    /\ sent < MaxMessages /\ sent' = sent + 1
    /\ w \in Clients /\ k \in KindsOf[w]
    /\ IF k # "close" /\ state = "Suspended"
       THEN Claim(w)
       ELSE UNCHANGED <<state, task, out, heard, clean, cleared>>
    /\ httpd' = IF state' # w THEN httpd
                ELSE [pc |-> "push", w |-> w,
                      m |-> [from |-> w, kind |-> k, no |-> sent', late |-> FALSE]]
    /\ UNCHANGED <<queue, work, buffers, flashVars, lost, cuts, abort>>

\* The task is in its loop, or will be without being resumed again.
Attended(w) ==
    \/ InLoop(w)
    \/ task[w] = "switch" /\ state = w

HttpdPush ==
    LET w == httpd.w
        m == [httpd.m EXCEPT !.late = ~Attended(w)]
    IN
    /\ httpd.pc = "push" /\ httpd' = Idle
    /\ queue' = [queue EXCEPT ![w] = Append(@, m)]
    /\ heard' = IF w = "OTA" THEN Append(heard, m.kind) ELSE heard
    /\ UNCHANGED <<state, task, outVars, buffers, flashVars, clean, lost,
                   cleared, bounds, abort>>

-----------------------------------------------------------------------------
(* The service tasks *)

TaskGoto(w, from, to) == task[w] = from /\ task' = [task EXCEPT ![w] = to]

\* taskFunction of MDU and OTA: into the loop while the word names the service,
\* for MDU after a delay of 100 ms between two loops.
TaskSwitch(w) ==
    /\ w # "ZUSI"
    /\ \E from \in {"switch", "delay"} :
          TaskGoto(w, from, IF state = w THEN "loop" ELSE "parking")
    /\ UNCHANGED <<state, httpd, queue, outVars, buffers, flashVars, history,
                   bounds, abort>>

TaskPark(w) ==
    /\ TaskGoto(w, "parking", "suspended")
    /\ UNCHANGED <<state, httpd, queue, outVars, buffers, flashVars, history,
                   bounds, abort>>

\* Where close leads: ZUSI and MDU do not touch the word.
AfterClose == [ZUSI |-> "parking", MDUZsu |-> "delay", OTA |-> "closing"]
\* Mutant of Close: the queue keeps what is in it.
MutCloseQueue(w) ==
    /\ task' = [task EXCEPT ![w] = AfterClose[w]]
    /\ IF w = "OTA" THEN handle' = FALSE /\ flash' = <<>> ELSE UNCHANGED <<handle, flash>>
    /\ UNCHANGED queue

\* Mutant of Close: the update is not aborted.
MutCloseHandle(w) ==
    /\ task' = [task EXCEPT ![w] = AfterClose[w]]
    /\ queue' = [queue EXCEPT ![w] = <<>>]
    /\ UNCHANGED <<handle, flash>>

\* close: the queue is emptied, an update is aborted.
Close(w) ==
    /\ task' = [task EXCEPT ![w] = AfterClose[w]]
    /\ queue' = [queue EXCEPT ![w] = <<>>]
    /\ IF w = "OTA" THEN handle' = FALSE /\ flash' = <<>> ELSE UNCHANGED <<handle, flash>>

\* The client is silent, for a time which is shorter or longer than that of the
\* low-level task.
TaskTimeout(w) ==
    /\ task[w] = "loop"
    /\ queue[w] = <<>>
    /\ Close(w)
    /\ UNCHANGED <<state, httpd, outVars, buffers, boot, history, bounds, abort>>

TaskTakes(w, kinds) ==
    /\ task[w] = "loop"
    /\ queue[w] # <<>> /\ Head(queue[w]).kind \in kinds

Pop(w) == queue' = [queue EXCEPT ![w] = Tail(@)]

\* Mutant of TaskRefuse: the message stays in the queue.
MutTaskRefuse(w) ==
    /\ w \in Senders
    /\ TaskTakes(w, {"text"})
    /\ UNCHANGED vars

\* Neither binary nor close: answered with an error.
TaskRefuse(w) ==
    /\ w \in Senders
    /\ TaskTakes(w, {"text"})
    /\ Pop(w)
    /\ UNCHANGED <<state, httpd, task, outVars, buffers, flashVars, history,
                   bounds, abort>>

\* The low-level task is at work for w, or about to be.
Served(w) == state = w /\ out[OutOf[w]] \in {"switch", "run", "busy"}

\* transmit waits for space, and then for an answer, without a timeout.
Sends(w) == w \in Senders /\ TaskTakes(w, {"binary", "silent", "exit"})

TaskSend(w) ==
    /\ Sends(w) /\ TaskGoto(w, "loop", "sent")
    /\ Len(front) < FrontCapacity
    /\ front' = Append(front, Head(queue[w]))
    /\ lost' = (lost \/ ~Served(w))
    /\ UNCHANGED <<state, httpd, queue, outVars, answers, flashVars, heard, clean,
                   cleared, bounds, abort>>

TaskWait(w) ==
    /\ TaskGoto(w, "sent", "receive")
    /\ UNCHANGED <<state, httpd, queue, outVars, buffers, flashVars, history,
                   bounds, abort>>

\* The answer goes to the socket the message came from.  MDUZsu asserts that it has
\* two bytes, as those of out::track::mdu have and those of out::zusi never.
TaskReceive(w) ==
    /\ task[w] = "receive"
    /\ answers # <<>>
    /\ IF w = "MDUZsu" /\ Head(answers).by # "mdu"
       THEN abort' = "bytes_received" /\ UNCHANGED <<task, queue, answers>>
       ELSE /\ TaskGoto(w, "receive", "loop") /\ Pop(w)
            /\ answers' = Tail(answers)
            /\ UNCHANGED abort
    /\ UNCHANGED <<state, httpd, outVars, front, flashVars, history, bounds>>

TaskClose(w) ==
    /\ w \in Senders
    /\ TaskTakes(w, {"close"})
    /\ Close(w)
    /\ UNCHANGED <<state, httpd, outVars, buffers, boot, history, bounds, abort>>

-----------------------------------------------------------------------------
(* ota::Service: the task writes what it gets behind what it wrote before *)

Fail ==
    /\ Close("OTA")
    /\ UNCHANGED <<state, httpd, outVars, buffers, boot, history, bounds, abort>>

\* esp_ota_begin and esp_ota_write fail now and then, the latter also for an
\* image without its header.
OtaWrite ==
    /\ TaskTakes("OTA", {"first", "rest"})
    /\ flash # <<>> \/ Head(queue["OTA"]).kind = "first"
    /\ handle' = TRUE
    /\ flash' = Append(flash, Head(queue["OTA"]).kind)
    /\ Pop("OTA")
    /\ UNCHANGED <<state, httpd, task, outVars, buffers, boot, history, bounds, abort>>

\* Answered with a nak, after which the task cannot continue.
OtaRefuse == TaskTakes("OTA", {"first", "rest", "text"}) /\ Fail

\* end: a whole image is set as boot partition, and the chip restarts.
OtaEnd ==
    /\ TaskTakes("OTA", {"close"})
    /\ handle /\ flash = Image
    /\ boot' = TRUE /\ abort' = "update"
    /\ UNCHANGED <<state, httpd, task, queue, outVars, buffers, handle, flash,
                   history, bounds>>

OtaClose == TaskTakes("OTA", {"close"}) /\ ~(handle /\ flash = Image) /\ Fail

\* Mutant of OtaGiveBack: the word is left alone, as in the other services.
MutOtaGiveBack ==
    /\ TaskGoto("OTA", "closing", "parking")
    /\ UNCHANGED <<state, abort, httpd, queue, outVars, buffers, flashVars, history, bounds>>

\* The rest of close: nobody else may have changed the word.
OtaGiveBack ==
    /\ TaskGoto("OTA", "closing", "switch")
    /\ IF state = "OTA" THEN state' = "Suspended" /\ UNCHANGED abort
                        ELSE abort' = "assert" /\ UNCHANGED state
    /\ UNCHANGED <<httpd, queue, outVars, buffers, flashVars, history, bounds>>

-----------------------------------------------------------------------------
(* The low-level tasks *)

OutGoto(t, from, to) == out[t] = from /\ out' = [out EXCEPT ![t] = to]

\* The loop takes seconds: a service task which was resumed with this one has gone
\* first.  resume() fails if another task has not released the timer.
OutSwitch(t) ==
    /\ \A w \in Senders : OutOf[w] = t => task[w] # "switch"
    /\ IF state = Serves[t] /\ \E u \in Outs \ {t} : Driving(u)
       THEN out[t] = "switch" /\ abort' = "hardware" /\ UNCHANGED out
       ELSE /\ OutGoto(t, "switch", IF state = Serves[t] THEN "run" ELSE "parking")
            /\ UNCHANGED abort
    /\ UNCHANGED <<state, httpd, task, queue, work, buffers, flashVars, history, bounds>>

OutPark(t) ==
    /\ OutGoto(t, "parking", "suspended")
    /\ UNCHANGED <<state, httpd, task, queue, work, buffers, flashVars, history,
                   bounds, abort>>

OutTake(t) ==
    /\ front # <<>>
    /\ front' = Tail(front)
    /\ OutGoto(t, "run", "busy")
    /\ work' = [work EXCEPT ![t] = Head(front)]
    /\ UNCHANGED <<state, httpd, task, queue, answers, flashVars, history, bounds, abort>>

\* MDU answers every packet, ZUSI leaves two commands without an answer.  An exit
\* which the decoder acknowledges ends the ZUSI loop, any ends the MDU loop.  What a
\* task makes of a message for the other one is open.
Foreign(t) == work[t].from # Serves[t]
Mute(t) == t = "zusi" /\ (work[t].kind = "silent" \/ Foreign(t))
MayAnswer(t) == work[t].kind # "silent" \/ Foreign(t) \/ t = "mdu"
MayExit(t) == work[t].kind = "exit" \/ Foreign(t)
MayStay(t) == t = "zusi" \/ work[t].kind # "exit" \/ Foreign(t)
Answer(t) == [to |-> work[t], by |-> t]

\* Mutant of OutAnswer: a case runs into the next one and is answered twice.
MutOutAnswer(t) ==
    /\ OutGoto(t, "busy", IF work[t].kind = "exit" THEN "reset" ELSE "run")
    /\ answers' = answers \o <<Answer(t), Answer(t)>>
    /\ work' = [work EXCEPT ![t] = NoMessage]
    /\ UNCHANGED <<state, httpd, task, queue, front, flashVars, history, bounds, abort>>

OutAnswer(t) ==
    /\ \/ /\ MayAnswer(t) /\ answers' = Append(answers, Answer(t))
          /\ \/ MayExit(t) /\ OutGoto(t, "busy", "reset")
             \/ MayStay(t) /\ OutGoto(t, "busy", "run")
       \/ Mute(t) /\ UNCHANGED answers /\ OutGoto(t, "busy", "run")
    /\ work' = [work EXCEPT ![t] = NoMessage]
    /\ UNCHANGED <<state, httpd, task, queue, front, flashVars, history, bounds, abort>>

\* The message w is at.
InHand(w) == Head(queue[w]).no
InFront(w) == \E i \in DOMAIN front : front[i].no = InHand(w)

\* A timeout, in which a service whose command was taken gets to its wait for the
\* answer.  MDU looks at the time after it has tried to get a packet, and drops the
\* packet if the time is up.
OutLeave(t) ==
    /\ \A w \in Senders : task[w] = "sent" => InFront(w)
    /\ OutGoto(t, "run", "reset")
    /\ Len(front) <= (IF t = "mdu" THEN 1 ELSE 0)
    /\ front' = <<>>
    /\ lost' = (lost \/ front # <<>>)
    /\ UNCHANGED <<state, httpd, task, queue, work, answers, flashVars, heard, clean,
                   cleared, bounds, abort>>

\* xMessageBufferReset fails while somebody is blocked on the buffer.
Waits(w) ==
    \/ task[w] = "receive" /\ answers = <<>>
    \/ Sends(w) /\ Len(front) >= FrontCapacity
Blocked == \E w \in Senders : Waits(w)

\* Mutant of OutReset: the output is kept.
MutOutReset(t) ==
    /\ OutGoto(t, "reset", "switch")
    /\ ~Blocked
    /\ front' = <<>> /\ answers' = <<>>
    /\ lost' = (cleared \/ \E w \in Senders : task[w] \in {"sent", "receive"})
    /\ UNCHANGED <<state, httpd, task, queue, work, flashVars, heard, clean, cleared, bounds, abort>>

\* Both buffers are emptied, and the output is given back unless there is an error.
OutReset(t) ==
    /\ OutGoto(t, "reset", "switch")
    /\ ~Blocked
    /\ front' = <<>> /\ answers' = <<>>
    /\ lost' = (cleared \/ \E w \in Senders : task[w] \in {"sent", "receive"})
    /\ state' = IF state = "ShortCircuit" THEN state ELSE "Suspended"
    /\ UNCHANGED <<httpd, task, queue, work, flashVars, heard, clean, cleared, bounds, abort>>

-----------------------------------------------------------------------------
(* The ADC task, the operator and the chip *)

ShortCircuit ==
    /\ cuts < MaxCuts /\ cuts' = cuts + 1
    /\ state # "ShortCircuit" /\ state' = "ShortCircuit"
    /\ UNCHANGED <<httpd, task, queue, outVars, buffers, flashVars, history,
                   sent, abort>>

\* trackPower(true) clears errors, whoever is at work.  Nobody will answer what is
\* under way, or its answer will come late.
PowerClear ==
    /\ state = "ShortCircuit" /\ state' = "Suspended"
    /\ cleared' = (cleared \/ \E t \in Outs : AtWork(t))
    /\ lost' = (\/ lost \/ cleared' \/ front # <<>> \/ answers # <<>>
                \/ \E w \in Senders : task[w] \in {"sent", "receive"})
    /\ UNCHANGED <<httpd, task, queue, outVars, buffers, flashVars, heard, clean,
                   bounds, abort>>

Restart ==
    /\ abort # "none" /\ abort' = "none"
    /\ state' = "Suspended" /\ httpd' = Idle
    /\ task' = [w \in Services |-> "suspended"] /\ queue' = [w \in Services |-> <<>>]
    /\ out' = [t \in Outs |-> "suspended"] /\ work' = [t \in Outs |-> NoMessage]
    /\ front' = <<>> /\ answers' = <<>>
    /\ handle' = FALSE /\ flash' = <<>>
    /\ heard' = <<>> /\ clean' = TRUE /\ lost' = FALSE /\ cleared' = FALSE
    /\ UNCHANGED <<boot, bounds>>

-----------------------------------------------------------------------------
Httpd == (\E w \in Services, k \in Kinds : HttpdReceive(w, k)) \/ HttpdPush
ServiceTask(w) ==
    \/ TaskSwitch(w) \/ TaskPark(w) \/ TaskTimeout(w) \/ TaskRefuse(w)
    \/ TaskSend(w) \/ TaskWait(w) \/ TaskReceive(w) \/ TaskClose(w)
    \/ w = "OTA" /\ (OtaWrite \/ OtaRefuse \/ OtaEnd \/ OtaClose \/ OtaGiveBack)
OutTask(t) ==
    \/ OutSwitch(t) \/ OutPark(t) \/ OutTake(t) \/ OutAnswer(t) \/ OutLeave(t)
    \/ OutReset(t)

Works ==
    \/ Httpd
    \/ \E w \in Services : ServiceTask(w)
    \/ \E t \in Outs : OutTask(t)
    \/ ShortCircuit \/ PowerClear

Next == (abort = "none" /\ Works) \/ Restart

Spec == Init /\ [][Next]_vars

\* Tasks which can run do, and a timeout expires in the end.  No client is
\* obliged to send anything, nor the operator to clear the error.
Alive == abort = "none"
Fairness ==
    /\ WF_vars(Alive /\ HttpdPush)
    /\ \A w \in Services : WF_vars(Alive /\ ServiceTask(w))
    /\ \A t \in Outs : WF_vars(Alive /\ OutTask(t))
    /\ WF_vars(Restart)
FairSpec == Spec /\ Fairness

-----------------------------------------------------------------------------
(* Properties *)

\* One low-level task at most drives the output.  Unless errors were cleared with one
\* at work, no other is at work, the word is its service's or an error, and the service
\* has gone first.
OneOutput ==
    /\ \A t, u \in Outs : Driving(t) /\ Driving(u) => t = u
    /\ ~cleared => /\ \A t \in Outs : AtWork(t) => /\ state \in {Serves[t], "ShortCircuit"}
                                                 /\ task[Serves[t]] # "switch"
                   /\ \A t, u \in Outs : AtWork(t) /\ AtWork(u) => t = u
    /\ cleared => lost /\ cuts > 0
    /\ cuts = 0 => state # "ShortCircuit"

\* Whatever waits in a queue nobody attends was pushed when nobody attended it,
\* unless a short circuit came in between.
LeftoversLate ==
    cuts = 0 => \A w \in Services : ~Attended(w) =>
        \A i \in DOMAIN queue[w] : queue[w][i].late

\* Only the OTA task is at work while an update is under way, and until a short
\* circuit the word says so; the assert of close holds for the same reason.  A task
\* finds the timer in use only after errors were cleared with another one at work.
FlashOwned ==
    /\ handle <=> flash # <<>>
    /\ handle => task["OTA"] = "loop"
    /\ cuts = 0 /\ task["OTA"] \in {"loop", "closing"} => state = "OTA"
    /\ abort = "assert" => cuts > 0
    /\ abort = "hardware" => cleared

\* What was written and what is queued are what the client sent since it claimed the
\* output, in this order; until the task gives up.
Uploading ==
    \/ task["OTA"] = "loop"
    \/ state = "OTA" /\ task["OTA"] # "closing"
NothingMissing ==
    clean /\ Uploading =>
        LET q == queue["OTA"]
        IN  /\ Len(heard) = Len(flash) + Len(q)
            /\ \A i \in DOMAIN flash : heard[i] = flash[i]
            /\ \A i \in DOMAIN q : heard[Len(flash) + i] = q[i].kind

\* A message is queued for the service it was sent to.
Addressed ==
    /\ httpd.m.from = httpd.w
    /\ \A w \in Services : \A i \in DOMAIN queue[w] : queue[w][i].from = w

\* Unless something was lost, one command at most is on its way, or its answer: that
\* of the one service which waits, from its own low-level task, so that the assert on
\* the length of an answer holds.
Waiting(w) == task[w] \in {"sent", "receive"}
WaitedFor(m) == \E w \in Senders : Waiting(w) /\ m = Head(queue[w])
OneInFlight ==
    /\ ~Waiting("OTA") /\ task["OTA"] # "delay"
    /\ \A w \in Senders : Waiting(w) => queue[w] # <<>>
    /\ ~lost =>
        /\ \A w \in Senders : Waiting(w) => state \in {w, "ShortCircuit"}
        /\ \A v, w \in Senders : Waiting(v) /\ Waiting(w) => v = w
        /\ \A t \in Outs, w \in Senders : AtWork(t) /\ Waiting(w) => t = OutOf[w]
        /\ Len(front) + Len(answers) <= 1
        /\ \A i \in DOMAIN front : WaitedFor(front[i])
        /\ \A i \in DOMAIN answers :
              WaitedFor(answers[i].to) /\ Serves[answers[i].by] = answers[i].to.from
        /\ \A t \in Outs : out[t] = "busy" =>
              front = <<>> /\ answers = <<>> /\ WaitedFor(work[t]) /\ ~Foreign(t)
        /\ abort # "bytes_received"

\* A command which is waited for is on its way, unless it has no answer, or was
\* emptied from a buffer, or was sent after its low-level task had left.
AnswerComing ==
    cuts = 0 /\ ~lost => \A w \in Senders :
        Waiting(w) /\ Head(queue[w]).kind # "silent" =>
            \/ Served(w) /\ (front # <<>> \/ out[OutOf[w]] = "busy")
            \/ answers # <<>>

Inv ==
    /\ TypeOK /\ OneOutput /\ LeftoversLate
    /\ FlashOwned /\ NothingMissing
    /\ Addressed /\ OneInFlight /\ AnswerComing

\* A client gets the answer to its message, unless some service waits for the answer
\* to a command which was emptied from a buffer, or which it sent after its low-level
\* task had left, or errors were cleared with a task at work.
RightAnswer ==
    [][\A w \in Senders : TaskReceive(w) => Head(answers).to.no = InHand(w) \/ lost]_vars

\* An update whose parts came in order and alone, into an empty queue, boots.
GoodUploadBoots ==
    [][(OtaEnd \/ OtaClose) /\ heard = Append(Image, "close") /\ clean => boot']_vars

\* A service waits for an answer, or for space in the buffer, and neither comes.
Starved(w) == w \in Senders /\ Waits(w)

\* The task was resumed before it had suspended itself.
NeverWoken ==
    /\ state = "OTA"
    /\ task["OTA"] = "suspended"
    /\ queue["OTA"] # <<>>
NeverStarted == state \in Senders /\ out[OutOf[state]] = "suspended"

\* Whoever has claimed the output gives it back.
GivenBack == []<>(state \notin Services \/ NeverWoken \/ NeverStarted \/ Blocked)

\* An update ends: with a restart from the new image, if it was whole, or with the
\* output given back.
UploadsEnd == GoodUploadBoots /\ GivenBack

\* A message which was pushed in time is answered or dropped.
NobodyWaits ==
    \A w \in Services :
        []<>(queue[w] = <<>> \/ Head(queue[w]).late \/ Starved(w) \/ cuts > 0)

=============================================================================
