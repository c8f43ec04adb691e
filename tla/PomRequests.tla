----------------------------- MODULE PomRequests -----------------------------
(***************************************************************************)
(* Programming on the main: cvPomRead and cvPomWrite, called by the Z21    *)
(* service, send copies of a packet to the front buffer; out::track::dcc   *)
(* transmits them and puts what the decoder answers into rx_queue, as long *)
(* as it has room; there dcc::task looks for the answer to the first       *)
(* request of its deque.  BiDi is on: without it no request is answered.   *)
(*                                                                         *)
(* The deque is shared by two tasks without a lock; each of its operations *)
(* is one step.  The Z21 service makes one call after the other, under its *)
(* own mutex, and switches the power under the same mutex.                 *)
(***************************************************************************)
EXTENDS Integers, Sequences, FiniteSets

CONSTANTS
    Cvs,            \* pairs of an address and a CV
    Copies,         \* the setting for the number of program packets
    FrontCapacity,  \* packets in out::tx_message_buffer.front_handle
    DequeCapacity,  \* requests in _cv_pom_request_deque
    RxCapacity,     \* items in out::track::rx_queue
    NoCv,           \* what an item is about which carries no POM answer
    Patient,        \* clients wait for the answer before they read again
    MaxCalls,       \* calls of cvPomRead and cvPomWrite
    MaxSwitches     \* power off and short circuits

ASSUME PomAssumption ==
    /\ Cvs # {} /\ Copies \in Nat \ {0, 1}    \* as POST allows
    /\ FrontCapacity \in Nat \ {0} /\ DequeCapacity \in Nat \ {0}
    /\ RxCapacity \in Nat \ {0} /\ NoCv \notin Cvs
    /\ Patient \in BOOLEAN
    /\ MaxCalls \in Nat /\ MaxSwitches \in Nat

\* A write writes the number of its call, and the decoder's answer is the number
\* it holds; 0 is what it held before.
Calls == 0..MaxCalls
AnyCv == CHOOSE c \in Cvs : TRUE
Packets == [kind : {"read", "write", "other"}, cv : Cvs, no : Calls]
Other == [kind |-> "other", cv |-> AnyCv, no |-> 0]
Items == [cv : Cvs \cup {NoCv}, no : Calls, value : Calls]
NoAnswer == [cv |-> NoCv, no |-> 0, value |-> 0]
\* old: what the CV held when the call began; unseen: answers to earlier calls were
\* in rx_queue when the request was queued; aged: the track was off since.
Requests == [cv : Cvs, no : Calls, old : Calls, unseen : BOOLEAN, aged : BOOLEAN]

VARIABLES
    state,       \* the word
    z21,         \* the call: pc, kind, CV, number, copies left, the CV's value then
    front,       \* front message buffer
    out, ring,   \* out::track::dcc runs; the packets it has yet to hear of
    rx,          \* rx_queue: an item for every packet which was transmitted
    dcc,         \* dcc::task
    deque,       \* _cv_pom_request_deque
    decoder,     \* what the CVs hold
    heard,       \* history: requests which were first when an answer about their CV
                 \* went into rx_queue
    stray,       \* history: packets were sent while nobody was to take them
    calls, switches    \* bounds

track == <<front, out, ring, rx, decoder>>
history == <<heard, stray>>
bounds == <<calls, switches>>
vars == <<state, z21, track, dcc, deque, history, bounds>>

TypeOK ==
    /\ state \in {"Suspended", "DCCOperations", "Suspend", "ShortCircuit"}
    /\ z21 \in [pc : {"idle", "send", "push", "delay"}, kind : {"read", "write"},
                cv : Cvs, no : Calls, old : Calls, left : 0..Copies]
    /\ front \in Seq(Packets) /\ Len(front) <= FrontCapacity
    /\ out \in {"off", "run"} /\ ring \in Seq(Packets)
    /\ rx \in Seq(Items) /\ Len(rx) <= RxCapacity
    /\ dcc \in {"off", "loop", "leave"}
    /\ deque \in Seq(Requests) /\ Len(deque) <= DequeCapacity
    /\ decoder \in [Cvs -> Calls]
    /\ heard \in SUBSET Calls /\ stray \in BOOLEAN
    /\ calls \in Calls /\ switches \in 0..MaxSwitches

Idle == [pc |-> "idle", kind |-> "read", cv |-> AnyCv, no |-> 0, old |-> 0, left |-> 0]

Init ==
    /\ state = "Suspended"
    /\ z21 = Idle
    /\ front = <<>> /\ out = "off" /\ ring = <<>> /\ rx = <<>>
    /\ dcc = "off" /\ deque = <<>>
    /\ decoder = [c \in Cvs |-> 0]
    /\ heard = {} /\ stray = FALSE
    /\ calls = 0 /\ switches = 0

-----------------------------------------------------------------------------
(* Calls of the Z21 service.                                               *)

Full == Len(deque) = DequeCapacity

Begin(kind, c) ==
    /\ z21.pc = "idle"
    /\ calls < MaxCalls
    /\ Patient => deque = <<>>
    /\ calls' = calls + 1
    /\ z21' = [pc |-> "send", kind |-> kind, cv |-> c, no |-> calls', old |-> decoder[c],
               left |-> Copies]
    /\ UNCHANGED <<state, track, dcc, deque, history, switches>>

CvPomRead(c) == ~Full /\ Begin("read", c)
CvPomWrite(c) == Begin("write", c)

\* A read which finds the deque full returns at once, and changes nothing.
CvPomReadFull ==
    /\ z21.pc = "idle"
    /\ Full
    /\ ~Patient
    /\ UNCHANGED vars

\* A full buffer is tried again, without a pause.
SendToFront ==
    /\ z21.pc = "send"
    /\ Len(front) < FrontCapacity
    /\ front' = Append(front, [kind |-> z21.kind, cv |-> z21.cv, no |-> z21.no])
    /\ z21' = [z21 EXCEPT !.left = @ - 1,
                          !.pc = IF z21.left > 1 THEN "send"
                                 ELSE IF z21.kind = "read" THEN "push" ELSE "delay"]
    /\ stray' = (stray \/ out = "off")
    /\ UNCHANGED <<state, out, ring, rx, dcc, deque, decoder, heard, bounds>>

\* The request is queued after its packets: an answer can be there before it.
PushBack ==
    /\ z21.pc = "push"
    /\ deque' = Append(deque, [cv |-> z21.cv, no |-> z21.no, old |-> z21.old,
                               unseen |-> \E i \in DOMAIN rx : rx[i].cv # NoCv /\ rx[i].no < z21.no,
                               aged |-> FALSE])
    /\ z21' = [z21 EXCEPT !.pc = "delay"]
    /\ UNCHANGED <<state, track, dcc, history, bounds>>

\* out::track::dcc has taken all packets of the call.
Taken(no) == \A i \in DOMAIN front : front[i].no # no

\* Mutant of DelayOver: the call returns when the answer has come.
MutDelayOver ==
    /\ z21.pc = "delay"
    /\ deque = <<>>
    /\ z21' = Idle
    /\ UNCHANGED <<state, track, dcc, deque, history, bounds>>

\* 10ms for each packet and for one more; packets of other calls and of
\* operationsDcc can still be before them.
DelayOver ==
    /\ z21.pc = "delay"
    /\ z21' = Idle
    /\ UNCHANGED <<state, track, dcc, deque, history, bounds>>

-----------------------------------------------------------------------------
(* Power: the hand-over between the tasks is in OutputState.               *)

PowerOn ==
    /\ z21.pc = "idle"
    /\ state \in {"Suspended", "ShortCircuit"}
    /\ out = "off"
    /\ state' = "DCCOperations"
    /\ UNCHANGED <<z21, track, dcc, deque, history, bounds>>

PowerOff ==
    /\ z21.pc = "idle"
    /\ state = "DCCOperations"
    /\ switches < MaxSwitches
    /\ switches' = switches + 1
    /\ state' = "Suspend"
    /\ UNCHANGED <<z21, track, dcc, deque, history, calls>>

\* The ADC task stores the flag over the word.
ShortCircuit ==
    /\ state # "ShortCircuit"
    /\ switches < MaxSwitches
    /\ switches' = switches + 1
    /\ state' = "ShortCircuit"
    /\ UNCHANGED <<z21, track, dcc, deque, history, calls>>

-----------------------------------------------------------------------------
(* out::track::dcc: the cutout after one packet, and the next packet.      *)

\* The decoder obeys a write, and answers a POM packet or not.  There is an item in
\* either case, which is lost when rx_queue is full; nobody looks at the result.
Cutout(obeys, answers) ==
    LET p == Head(ring)
        cv == IF p.kind = "write" /\ obeys THEN [decoder EXCEPT ![p.cv] = p.no]
              ELSE decoder
        item == IF answers THEN [cv |-> p.cv, no |-> p.no, value |-> cv[p.cv]]
                ELSE NoAnswer
        room == Len(rx) < RxCapacity
    IN  /\ p.kind # "write" => ~obeys
        /\ p.kind = "write" /\ answers => obeys
        /\ p.kind = "other" => ~answers
        /\ decoder' = cv
        /\ rx' = IF room THEN Append(rx, item) ELSE rx
        /\ heard' = IF room /\ answers /\ deque # <<>> /\ Head(deque).cv = p.cv
                    THEN heard \cup {Head(deque).no} ELSE heard

OutPacket(obeys, answers) ==
    /\ out = "run"
    /\ state \notin {"Suspend", "ShortCircuit"}
    /\ Cutout(obeys, answers)
    /\ IF front # <<>>
       THEN ring' = Append(Tail(ring), Head(front)) /\ front' = Tail(front)
       ELSE ring' = Append(Tail(ring), Other) /\ UNCHANGED front
    /\ UNCHANGED <<state, z21, out, dcc, deque, stray, bounds>>

\* Mutant of OutLeave: the front buffer is not reset.
MutOutLeave ==
    /\ out = "run"
    /\ state \in {"Suspend", "ShortCircuit"}
    /\ out' = "off" /\ ring' = <<>> /\ rx' = <<>>
    /\ state' = IF state = "ShortCircuit" THEN state ELSE "Suspended"
    /\ stray' = FALSE /\ heard' = {}
    /\ UNCHANGED <<z21, front, dcc, deque, decoder, bounds>>

\* What is received when a flag is seen is lost, and so is all there is in the
\* buffers and in rx_queue.
OutLeave ==
    /\ out = "run"
    /\ state \in {"Suspend", "ShortCircuit"}
    /\ out' = "off" /\ front' = <<>> /\ ring' = <<>> /\ rx' = <<>>
    /\ state' = IF state = "ShortCircuit" THEN state ELSE "Suspended"
    /\ stray' = FALSE /\ heard' = {}
    /\ UNCHANGED <<z21, dcc, deque, decoder, bounds>>

-----------------------------------------------------------------------------
(* dcc::task: operationsBiDi, and the end of operationsLoop.               *)

\* Mutant of Matches: the CV of the packet is not compared.
MutMatches == deque # <<>>

\* Only the first request is looked at.
Matches == deque # <<>> /\ Head(deque).cv = Head(rx).cv

PopFront == deque' = Tail(deque) /\ heard' = heard \ {Head(deque).no}

BiDiAck ==
    /\ dcc = "loop"
    /\ rx # <<>>
    /\ Matches
    /\ rx' = Tail(rx)
    /\ PopFront
    /\ UNCHANGED <<state, z21, front, out, ring, dcc, decoder, stray, bounds>>

BiDiIgnore ==
    /\ dcc = "loop"
    /\ rx # <<>>
    /\ ~Matches
    /\ rx' = Tail(rx)
    /\ UNCHANGED <<state, z21, front, out, ring, dcc, deque, decoder, history, bounds>>

\* 500ms are longer than its packets take, once they are in the buffer.
Expired(r) ==
    \/ r.aged
    \/ out = "off"
    \/ Taken(r.no) /\ \A i \in DOMAIN ring : ring[i].no # r.no

\* Mutant of BiDiTimeout: the time is looked at before the answers.
MutBiDiTimeoutFirst ==
    /\ dcc = "loop"
    /\ deque # <<>>
    /\ Expired(Head(deque))
    /\ PopFront
    /\ UNCHANGED <<state, z21, track, dcc, stray, bounds>>

\* Mutant of BiDiTimeout: the time is looked at in the loop, behind its continues.
MutBiDiTimeoutInLoop ==
    /\ dcc = "loop"
    /\ rx # <<>> /\ Head(rx).cv # NoCv
    /\ deque # <<>>
    /\ Expired(Head(deque))
    /\ PopFront
    /\ UNCHANGED <<state, z21, track, dcc, stray, bounds>>

\* cvNack, once all answers were looked at.
BiDiTimeout ==
    /\ dcc = "loop"
    /\ rx = <<>>
    /\ deque # <<>>
    /\ Expired(Head(deque))
    /\ PopFront
    /\ UNCHANGED <<state, z21, track, dcc, stray, bounds>>

\* Resuming out::track::dcc, which loads the ring with idle packets.
DccResume ==
    /\ dcc = "off"
    /\ state = "DCCOperations"
    /\ dcc' = "loop" /\ out' = "run"
    /\ ring' = <<Other, Other>>
    /\ deque' = [i \in DOMAIN deque |-> [deque[i] EXCEPT !.aged = TRUE]]
    /\ UNCHANGED <<state, z21, front, rx, decoder, history, bounds>>

DccLeave ==
    /\ dcc = "loop"
    /\ state # "DCCOperations"
    /\ dcc' = "leave"
    /\ UNCHANGED <<state, z21, track, deque, history, bounds>>

\* suspend clears the requests; nobody is told.
DccSuspend ==
    /\ dcc = "leave"
    /\ out = "off"
    /\ dcc' = "off"
    /\ deque' = <<>>
    /\ UNCHANGED <<state, z21, track, history, bounds>>

-----------------------------------------------------------------------------

Next ==
    \/ \E c \in Cvs : CvPomRead(c) \/ CvPomWrite(c)
    \/ CvPomReadFull
    \/ SendToFront \/ PushBack \/ DelayOver
    \/ PowerOn \/ PowerOff \/ ShortCircuit
    \/ \E obeys, answers \in BOOLEAN : OutPacket(obeys, answers)
    \/ OutLeave
    \/ BiDiAck \/ BiDiIgnore \/ BiDiTimeout \/ DccResume \/ DccLeave \/ DccSuspend

Spec == Init /\ [][Next]_vars

Fairness ==
    /\ WF_vars(SendToFront \/ PushBack \/ DelayOver)
    /\ WF_vars(OutLeave \/ \E obeys, answers \in BOOLEAN : OutPacket(obeys, answers))
    /\ WF_vars(BiDiAck \/ BiDiIgnore)
    /\ WF_vars(DccResume \/ DccLeave \/ DccSuspend)
    \* operationsBiDi takes all items and looks at the time while one packet is sent.
    /\ []<>(rx = <<>> \/ dcc # "loop") /\ SF_vars(BiDiTimeout)
FairSpec == Spec /\ Fairness

-----------------------------------------------------------------------------
(* Properties *)

\* When the track is off, no answers are left, and no packets but those which were
\* sent when it was off: these go out with the next operation, whoever's it is.
Leftovers == out = "off" => rx = <<>> /\ (front = <<>> \/ stray)

\* The requests wait in the order of their calls, those of earlier calls before the
\* one which is made.
Queueing == z21.pc \in {"send", "push"}
InOrder ==
    /\ \A i, j \in DOMAIN deque : i < j => deque[i].no < deque[j].no
    /\ \A i \in DOMAIN deque :
          deque[i].no <= calls /\ (Queueing => deque[i].no < z21.no)

\* What a read found when it began is still there when its request is queued.
Room ==
    /\ Queueing /\ z21.kind = "read" => ~Full
    /\ z21.pc = "push" => z21.kind = "read"

\* A call is the latest one while it is made, and so are the packets it sends: what
\* has yet to be written to a CV is not older than what it holds, and the next packet
\* is not older than those behind it.
Writes(s) == {i \in DOMAIN s : s[i].kind = "write"}
Sorted(s) == \A i, j \in Writes(s) : i < j => s[i].no <= s[j].no
WritesInOrder ==
    /\ z21.pc # "idle" => z21.no = calls
    /\ z21.pc = "send" => z21.left > 0
    /\ \A c \in Cvs : decoder[c] <= calls
    /\ \A i \in DOMAIN ring : ring[i].no <= calls
    /\ \A i \in DOMAIN front : front[i].no <= calls
    /\ Sorted(ring) /\ Sorted(front)
    /\ \A i \in Writes(ring), j \in Writes(front) : ring[i].no <= front[j].no
    /\ \A i \in Writes(ring) : decoder[ring[i].cv] <= ring[i].no
    /\ \A i \in Writes(front) : decoder[front[i].cv] <= front[i].no

\* What the CV held when a request's call began is not newer than what it holds, or
\* than any answer about it, if no answers to earlier calls were there.
Fresh ==
    /\ z21.old <= decoder[z21.cv]
    /\ \A i \in DOMAIN rx : rx[i].no <= calls
    /\ \A i \in DOMAIN rx :
          Queueing /\ rx[i].cv = z21.cv /\ rx[i].no >= z21.no => rx[i].value >= z21.old
    /\ \A k \in DOMAIN deque :
          /\ deque[k].old <= decoder[deque[k].cv]
          /\ \A i \in DOMAIN rx :
                rx[i].cv = deque[k].cv /\ ~deque[k].unseen => rx[i].value >= deque[k].old

\* The decoder's answers which had room in rx_queue were for no request but the first
\* one while it was the first, and if there was one, an answer about its CV waits.
Answered ==
    /\ \A n \in heard : n <= calls /\ (Queueing => n < z21.no)
    /\ \A k \in DOMAIN deque : deque[k].no \in heard =>
          k = 1 /\ \E i \in DOMAIN rx : rx[i].cv = deque[k].cv

\* The tasks run as the hand-over leaves them: without dcc::task nobody transmits.
Tasks == (dcc = "off" => out = "off") /\ (out = "run" => ring # <<>>)

Inv ==
    /\ TypeOK /\ Leftovers /\ Tasks /\ InOrder /\ Room
    /\ WritesInOrder /\ Fresh /\ Answered

\* The value a client gets is one the CV held after its call began, unless dcc::task,
\* which looks every 100ms, had yet to look at the answers to earlier calls.
AckFresh == [][BiDiAck => Head(rx).value >= Head(deque).old \/ Head(deque).unseen]_vars

\* No client is told that nothing came when the decoder had answered the first
\* request, however late dcc::task looks; only an answer for which rx_queue had no room
\* does not count.
NackTrue == [][BiDiTimeout => Head(deque).no \notin heard]_vars

\* While dcc::task is in its loop, every request gets its answer.
RequestsEnd == []<>(deque = <<>> \/ dcc = "off")

\* A call returns, unless the buffer is full and the track off: nobody can then
\* switch it on, as the mutex of the Z21 service is held.
Spins == z21.pc = "send" /\ Len(front) = FrontCapacity /\ out = "off"
CallReturns == []<>(z21.pc = "idle" \/ Spins)

=============================================================================
