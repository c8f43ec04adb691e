---------------------------- MODULE CvProgramming ----------------------------
(***************************************************************************)
(* Reading and writing a CV on the programming track: dcc::task            *)
(* (serviceRead and serviceWrite of dcc/service.cpp) pushes copies of      *)
(* service-mode packets into the front message buffer, out::track::dcc     *)
(* (service_loop of out/track/dcc/task_function.cpp) transmits them in     *)
(* groups and sends one acknowledge per group back.                        *)
(*                                                                         *)
(* dcc::task needs microseconds for what it does, a packet on the track    *)
(* milliseconds: out::track::dcc goes on when dcc::task has to wait.  Time *)
(* is counted in packets.  Who starts the tasks, and when they may start   *)
(* again, is module OutputState.                                           *)
(***************************************************************************)
EXTENDS Integers, Sequences, FiniteSetsExt

CONSTANTS
    Bits,           \* CHAR_BIT
    Types,          \* values of the setting dcc_prog_type in use
    Counts,         \* ... of dcc_prog_pc, copies of a packet
    Startups,       \* ... of dcc_strtp_rs_pc
    Continue,       \* dcc_cntn_rs_pc
    FrontCapacity,  \* packets in out::tx_message_buffer.front_handle
    BackPackets,    \* reset packets Service::resume leaves in the back buffer
    Timeout,        \* how long serviceReceiveBit waits
    Window,         \* how long service_loop looks for an acknowledge
    Repeats,        \* equal packets a decoder wants before it acts (RCN-216)
    MaxNoise,       \* acknowledges misread per access
    None            \* std::nullopt, in the end cvNack

Weights == <<1, 2, 4, 8, 16, 32, 64, 128, 256>>
Weight(i) == Weights[i + 1]     \* 1 << i
MaxByte == Weight(Bits) - 1     \* std::numeric_limits<uint8_t>::max()
Values == 0..MaxByte

Settings == [type : Types, count : Counts, startup : Startups, one : BOOLEAN]
Requests == [op : {"read"}, byte : {0}] \cup [op : {"write"}, byte : Values]

ASSUME CvProgrammingAssumption ==
    /\ Bits \in 1..8
    /\ Types \subseteq 0..3
    /\ Counts \subseteq Nat \ {0, 1}
    /\ Startups \subseteq Nat
    /\ {Continue, BackPackets, Timeout, Window, MaxNoise} \subseteq Nat
    /\ FrontCapacity \in Nat \ {0}
    /\ Repeats \in Nat \ {0, 1}
    /\ None \notin Values /\ None \notin BOOLEAN
    /\ None \notin Requests /\ None \notin Settings

\* Service-mode packets.  "one" is what a bit is compared with.
BitPacket(i, one) == [kind |-> "bit", arg |-> i, one |-> one]
VerifyPacket(b) == [kind |-> "verify", arg |-> b, one |-> TRUE]
WritePacket(b) == [kind |-> "write", arg |-> b, one |-> TRUE]
Packets == [kind : {"bit", "verify", "write"}, arg : Values, one : BOOLEAN]

VARIABLES
    req,      \* the request being served, or None
    set,      \* the settings read for it
    dcc,      \* dcc::task: "idle", "push", "receive", "waitOut"
    probe,    \* what it waits for: "write", "bits", "check", "search"
    todo,     \* packets it has yet to push
    index,    \* bit it reads, or value it tries
    byte,     \* bits collected so far, in the end the result
    front,    \* front message buffer
    back,     \* reset packets in the back message buffer
    rx,       \* out::rx_message_buffer
    out,      \* out::track::dcc: "off", "startup", "first", "copies",
              \* "window", "ack", "suspend"
    group,    \* equal packets transmitted, counted up to Repeats
    cvPacket, \* cv_access_packet
    ack,      \* ack of service_loop
    flag,     \* Suspend or ShortCircuit is set
    waited,   \* how long the current receive has been waiting
    cv,       \* what the decoder holds
    noise,    \* acknowledges misread
    mishaps   \* history: "leftovers" in front when the access began, "late"
              \* when a receive timed out

dccVars == <<req, set, dcc, probe, todo, index, byte>>
outVars == <<out, group, cvPacket, ack>>
buffers == <<front, back, rx>>
vars == <<dccVars, outVars, buffers, flag, waited, cv, noise, mishaps>>

TypeOK ==
    /\ req \in Requests \cup {None} /\ set \in Settings \cup {None}
    /\ dcc = "idle" <=> req = None
    /\ set = None <=> req = None
    /\ dcc \in {"idle", "push", "receive", "waitOut"}
    /\ probe \in {"write", "bits", "check", "search"}
    /\ todo \in Seq(Packets) /\ front \in Seq(Packets) /\ rx \in Seq(BOOLEAN)
    /\ Len(front) <= FrontCapacity /\ back \in 0..BackPackets
    /\ index \in 0..MaxByte
    /\ byte \in Values \cup {None}
    /\ out \in {"off", "startup", "first", "copies", "window", "ack", "suspend"}
    /\ group \in 0..Repeats /\ cvPacket \in Packets /\ ack \in BOOLEAN
    /\ flag \in BOOLEAN /\ waited \in 0..Timeout
    /\ cv \in Values /\ noise \in 0..MaxNoise
    /\ mishaps \subseteq {"leftovers", "late"}

Init ==
    /\ req = None /\ set = None
    /\ dcc = "idle" /\ probe = "bits" /\ todo = <<>> /\ index = 0
    /\ byte = None
    /\ front = <<>> /\ back = 0 /\ rx = <<>>
    /\ out = "off" /\ group = 0 /\ cvPacket = VerifyPacket(0) /\ ack = FALSE
    /\ flag = FALSE /\ waited = 0
    /\ cv \in Values /\ noise = 0 /\ mishaps = {}

-----------------------------------------------------------------------------
(* dcc::task *)

\* Mutant of Copies: one copy too few.
MutCopies(p, n) == [k \in 1..(n - 1) |-> p]

\* sendToFront has n copies of a packet to push.
Copies(p, n) == [k \in 1..n |-> p]

AllBits(s) ==
    [k \in 1..(Bits * s.count) |-> BitPacket((k - 1) \div s.count, s.one)]

\* serviceRead or serviceWrite is left with byte r, or None.
Return(r) ==
    /\ dcc' = "waitOut"
    /\ byte' = r
    /\ index' = 0
    /\ todo' = <<>>
    /\ UNCHANGED probe

Probe(what, i, b, packets) ==
    /\ dcc' = "push"
    /\ probe' = what
    /\ index' = i
    /\ byte' = b
    /\ todo' = packets

Write(r, s) == Probe("write", 0, r.byte, Copies(WritePacket(r.byte), s.count))

Read(s) ==
    CASE s.type = 0 -> Return(None)
      [] s.type = 2 -> Probe("search", 0, None, Copies(VerifyPacket(0), s.count))
      [] s.type \in {1, 3} -> Probe("bits", 0, 0, AllBits(s))

\* The settings which are not read for a request have their first value.
Relevant(r, s) ==
    /\ r.op = "write" => s.type = Min(Types)
    /\ r.op = "write" \/ s.type \in {0, 2} => s.one

\* A request is at the front of the deque, both tasks were woken.  Coming from
\* operations mode the back buffer is empty, otherwise resume() has filled it.
Request(r, s) ==
    /\ dcc = "idle" /\ out = "off"
    /\ Relevant(r, s)
    /\ req' = r /\ set' = s
    /\ IF r.op = "write" THEN Write(r, s) ELSE Read(s)
    /\ back' \in {0, BackPackets}
    /\ out' = "startup"
    /\ mishaps' = IF front = <<>> THEN {} ELSE {"leftovers"}
    /\ UNCHANGED <<group, cvPacket, ack, front, rx, flag, waited, cv, noise>>

\* sendToFront pushes what fits and spins while the buffer is full.
Room == FrontCapacity - Len(front)
DccPush ==
    /\ dcc = "push"
    /\ LET k == Min({Room, Len(todo)}) IN
       /\ front' = front \o SubSeq(todo, 1, k)
       /\ todo' = SubSeq(todo, k + 1, Len(todo))
    /\ dcc' = IF todo' = <<>> THEN "receive" ELSE "push"
    /\ waited' = IF todo' = <<>> THEN 0 ELSE waited
    /\ UNCHANGED <<req, set, probe, index, byte, outVars, back, rx,
                   flag, cv, noise, mishaps>>

\* serviceReceiveByte goes on to the next bit, or is done.
NextBit(bit) ==
    LET b == byte + (IF bit = set.one THEN Weight(index) ELSE 0) IN
    IF index < Bits - 1
    THEN /\ index' = index + 1
         /\ byte' = b
         /\ UNCHANGED <<dcc, probe, todo>>
    ELSE IF set.type = 1
    THEN Return(b)
    ELSE Probe("check", 0, b, Copies(VerifyPacket(b), set.count))

\* Mutant of Received: "!= false" instead of "== true".
MutReceived(bit) ==
    CASE probe \in {"write", "check"} ->
            Return(IF bit # FALSE THEN byte ELSE None)
      [] probe = "bits" -> IF bit = None THEN Return(None) ELSE NextBit(bit)
      [] probe = "search" ->
            IF bit # FALSE THEN Return(index)
            ELSE IF index + 1 = MaxByte THEN Return(None)
            ELSE Probe("search", index + 1, None,
                       Copies(VerifyPacket(index + 1), set.count))

\* serviceReceiveBit returned a bit, or None.  The value 255 is never tried.
Received(bit) ==
    CASE probe \in {"write", "check"} ->
            Return(IF bit = TRUE THEN byte ELSE None)
      [] probe = "bits" -> IF bit = None THEN Return(None) ELSE NextBit(bit)
      [] probe = "search" ->
            IF bit = TRUE THEN Return(index)
            ELSE IF index + 1 = MaxByte THEN Return(None)
            ELSE Probe("search", index + 1, None,
                       Copies(VerifyPacket(index + 1), set.count))

DccReceive ==
    /\ dcc = "receive"
    /\ rx # <<>>
    /\ rx' = Tail(rx)
    /\ Received(Head(rx))
    /\ waited' = 0
    /\ UNCHANGED <<req, set, outVars, front, back, flag, cv, noise,
                   mishaps>>

\* xMessageBufferReceive timed out.
Due == waited >= Timeout \/ out = "off"

\* Mutant of DccTimeout: the receive is repeated until there is a bit.
MutDccTimeout ==
    /\ dcc = "receive" /\ rx = <<>> /\ Due
    /\ waited' = 0
    /\ mishaps' = mishaps \cup {"late"}
    /\ UNCHANGED <<dccVars, outVars, buffers, flag, cv, noise>>

DccTimeout ==
    /\ dcc = "receive"
    /\ rx = <<>>
    /\ Due
    /\ Received(None)
    /\ waited' = 0
    /\ mishaps' = mishaps \cup {"late"}
    /\ UNCHANGED <<req, set, outVars, buffers, flag, cv, noise>>

\* out::track::dcc is suspended: the reply is sent, the deque is emptied.
Replying == dcc = "waitOut" /\ out = "off"
DccReply ==
    /\ Replying
    /\ dcc' = "idle" /\ probe' = "bits" /\ byte' = None
    /\ req' = None /\ set' = None
    /\ flag' = FALSE
    /\ noise' = 0 /\ mishaps' = {}
    /\ UNCHANGED <<todo, index, outVars, buffers, waited, cv>>

-----------------------------------------------------------------------------
(* out::track::dcc and the decoder on the track *)

DccBusy ==
    \/ dcc = "push" /\ Room > 0
    \/ dcc = "receive" /\ (rx # <<>> \/ waited >= Timeout)

\* n packets are transmitted.
Elapse(n) ==
    waited' = IF dcc = "receive" THEN Min({waited + n, Timeout}) ELSE 0

OutGoto(from, to) == ~DccBusy /\ out = from /\ out' = to

OutStart ==
    /\ OutGoto("startup", "first")
    /\ Elapse(set.startup + Continue)
    /\ UNCHANGED <<dccVars, group, cvPacket, ack, buffers, flag, cv, noise,
                   mishaps>>

\* Nothing to transmit, or a flag: the loop ends.
OutEnd ==
    /\ OutGoto("first", "suspend")
    /\ flag \/ (front = <<>> /\ back = 0)
    /\ UNCHANGED <<dccVars, group, cvPacket, ack, buffers, flag, waited, cv,
                   noise, mishaps>>

\* xMessageBufferReset fails while dcc::task is blocked in its receive, which
\* gets nothing any more: it is tried again until that receive times out.
OutRetry ==
    /\ out = "suspend"
    /\ dcc = "receive" /\ rx = <<>> /\ waited < Timeout
    /\ waited' = Timeout
    /\ UNCHANGED <<dccVars, outVars, buffers, flag, cv, noise, mishaps>>

\* Mutant of OutSuspend: rx_message_buffer is not reset.
MutOutSuspend ==
    /\ out = "suspend" /\ out' = "off"
    /\ dcc = "receive" => rx = <<>> /\ waited = 0
    /\ front' = <<>> /\ back' = 0
    /\ UNCHANGED <<dccVars, group, cvPacket, ack, rx, flag, waited, cv, noise,
                   mishaps>>

\* The buffers are emptied, whatever dcc::task is doing with them.
OutSuspend ==
    /\ out = "suspend" /\ out' = "off"
    /\ dcc = "receive" => rx = <<>> /\ waited = 0
    /\ front' = <<>> /\ back' = 0 /\ rx' = <<>>
    /\ UNCHANGED <<dccVars, group, cvPacket, ack, flag, waited, cv, noise,
                   mishaps>>

\* receive_packet: front first, then back.
TakeReset == front = <<>> /\ back > 0 /\ back' = back - 1 /\ UNCHANGED front
TakeFront == front # <<>> /\ front' = Tail(front) /\ UNCHANGED back

OutReset ==
    /\ OutGoto("first", "first")
    /\ ~flag
    /\ TakeReset
    /\ Elapse(1)
    /\ UNCHANGED <<dccVars, group, cvPacket, ack, rx, flag, cv, noise, mishaps>>

OutFirst ==
    /\ OutGoto("first", "copies")
    /\ ~flag
    /\ TakeFront
    /\ cvPacket' = Head(front)
    /\ group' = 1
    /\ Elapse(1)
    /\ UNCHANGED <<dccVars, ack, rx, flag, cv, noise, mishaps>>

OutCopy ==
    /\ OutGoto("copies", "copies")
    /\ TakeFront
    /\ Head(front) = cvPacket
    /\ group' = Min({group + 1, Repeats})
    /\ Elapse(1)
    /\ UNCHANGED <<dccVars, cvPacket, ack, rx, flag, cv, noise, mishaps>>

\* The first packet which differs ends the group.  It was taken and goes out
\* once: no decoder acts on it.
OutOther ==
    /\ OutGoto("copies", "window")
    /\ \/ TakeFront /\ Head(front) # cvPacket
       \/ TakeReset
       \/ front = <<>> /\ back = 0 /\ UNCHANGED <<front, back>>
    /\ Elapse(1)
    /\ UNCHANGED <<dccVars, group, cvPacket, ack, rx, flag, cv, noise, mishaps>>

\* The decoder compares or writes and acknowledges with a current pulse.
Acts == group >= Repeats
Confirms ==
    CASE cvPacket.kind = "write" -> TRUE
      [] cvPacket.kind = "verify" -> cv = cvPacket.arg
      [] cvPacket.kind = "bit" ->
            ((cv \div Weight(cvPacket.arg)) % 2 = 1) = cvPacket.one
OutWindow ==
    /\ OutGoto("window", "ack")
    /\ \/ ack' = (Acts /\ Confirms) /\ UNCHANGED noise
       \/ /\ noise < MaxNoise
          /\ ack' = ~(Acts /\ Confirms)
          /\ noise' = noise + 1
    /\ cv' = IF Acts /\ cvPacket.kind = "write" THEN cvPacket.arg ELSE cv
    /\ Elapse(IF ack' THEN 0 ELSE Window)
    /\ UNCHANGED <<dccVars, group, cvPacket, buffers, flag, mishaps>>

\* transmit_ack, then the reset packets which continue the sequence.  What
\* concerned the group is forgotten.
OutAck ==
    /\ OutGoto("ack", "first")
    /\ rx' = Append(rx, ack)
    /\ Elapse(Continue)
    /\ group' = 0 /\ cvPacket' = VerifyPacket(0) /\ ack' = FALSE
    /\ UNCHANGED <<dccVars, front, back, flag, cv, noise,
                   mishaps>>

-----------------------------------------------------------------------------
\* A short circuit, or track power off.  Later ones change nothing.
Cut ==
    /\ out \notin {"suspend", "off"} /\ ~flag
    /\ flag' = TRUE
    /\ UNCHANGED <<dccVars, outVars, buffers, waited, cv, noise, mishaps>>

DccTask == DccPush \/ DccReceive \/ DccTimeout \/ DccReply
OutTask ==
    \/ OutStart \/ OutEnd \/ OutRetry \/ OutSuspend \/ OutReset \/ OutFirst \/ OutCopy \/ OutOther
    \/ OutWindow \/ OutAck

Next ==
    \/ \E r \in Requests, s \in Settings : Request(r, s)
    \/ DccTask
    \/ OutTask
    \/ Cut

Spec == Init /\ [][Next]_vars

\* Both tasks run whenever they can.  Nobody is obliged to send a request.
Fairness == WF_vars(DccTask) /\ WF_vars(OutTask)
FairSpec == Spec /\ Fairness

-----------------------------------------------------------------------------
(* Properties *)

\* A bit read with as few copies as the decoder wants is not read at all: the
\* group before took the first copy.  With fewer nothing is.
Eaten ==
    \/ set.count < Repeats
    \/ req.op = "read" /\ set.type \in {1, 3} /\ set.count = Repeats

\* The reply to an access is never a value the decoder does not hold
\* (serviceRead, serviceWrite), but after packets were left over by an access
\* before, when a search takes a late acknowledge for the next value's, when
\* an acknowledge is misread and nothing verifies the bits, or two are, and when
\* bits alone are read with packets eaten.
Misled ==
    \/ "leftovers" \in mishaps
    \/ "late" \in mishaps /\ set.type = 2 /\ req.op = "read"
    \/ noise > 1
    \/ noise > 0 /\ (set.type # 3 \/ req.op = "write" \/ Eaten)
    \/ Eaten /\ set.type = 1 /\ req.op = "read"
NeverWrong == Replying /\ byte # None => byte = cv \/ Misled

\* Without mishaps an access ends with the CV, or with a refusal if the
\* settings switch reading off, if the value is the one a search leaves out,
\* or if packets were eaten.
Refused ==
    /\ req.op = "read"
    /\ \/ set.type = 0
       \/ set.type = 2 /\ cv = MaxByte
Undisturbed == mishaps = {} /\ ~flag /\ noise = 0 /\ ~Eaten
Outcome == IF Refused THEN None ELSE cv
Complete == Replying /\ Undisturbed => byte = Outcome

\* What a probe asks: so many groups of packets, and what is in each.
Asking == dcc \in {"push", "receive"}
Groups == IF probe = "bits" THEN Bits ELSE 1
Expected(g) ==
    CASE probe = "bits" -> BitPacket(g, set.one)
      [] probe = "write" -> WritePacket(byte)
      [] probe = "check" -> VerifyPacket(byte)
      [] probe = "search" -> VerifyPacket(index)

\* The acknowledges it has had, with those which wait, and the packets of it which
\* were taken: less than none while packets of others are ahead of them.
Got == IF probe = "bits" THEN index ELSE 0
Acked == Got + Len(rx)
Taken == Groups * set.count - Len(todo) - Len(front)

Probing ==
    /\ dcc = "idle" => out = "off" /\ mishaps = {}
    /\ dcc # "push" => todo = <<>>
    /\ out = "off" => rx = <<>>
    /\ Asking =>
        /\ probe = "write" <=> req.op = "write"
        /\ probe = "write" => byte = req.byte
        /\ probe = "bits" => set.type \in {1, 3} /\ index < Bits /\ byte \in 0..(Weight(index) - 1)
        /\ probe = "check" => set.type = 3 /\ byte # None
        /\ probe = "search" => set.type = 2 /\ index < MaxByte
        /\ "late" \in mishaps => probe = "search"

\* The packets of a probe come in its order, behind whatever else is in the buffer.
Numbered(p, k) ==
    \A g \in 0..(Groups - 1) :
        g * set.count < k /\ k <= (g + 1) * set.count => p = Expected(g)
InOrder ==
    Asking =>
        /\ Len(todo) <= Groups * set.count
        /\ \A i \in DOMAIN todo : Numbered(todo[i], Groups * set.count - Len(todo) + i)
        /\ \A i \in DOMAIN front : Numbered(front[i], Taken + i)
        /\ out = "copies" => Numbered(cvPacket, Taken)

\* The packets not yet taken suffice for the acknowledges not yet given, although
\* each group eats the first packet of the next: nobody but a flag ends the loop early.
Enough ==
    Asking =>
        /\ out \in {"suspend", "off"} => flag
        /\ Acked < Groups =>
            /\ out \in {"startup", "first"} => Taken <= Acked * set.count + 1
            /\ out = "copies" => Taken <= (Acked + 1) * set.count
            /\ out \in {"window", "ack"} => Taken <= (Acked + 1) * set.count + 1

\* Without mishaps the group at work is the one to be acknowledged next.
Start == IF Acked = 0 THEN 0 ELSE Acked * set.count + 1
Aligned ==
    Asking /\ mishaps = {} =>
        /\ Acked <= Groups
        /\ out = "startup" => Acked = 0
        /\ out \in {"startup", "first"} =>
              Taken >= Acked * set.count /\ (Acked = 0 => Taken = 0)
        /\ out \in {"copies", "window", "ack"} => Acked < Groups
        /\ out = "copies" =>
              Taken > Acked * set.count /\ (group >= Repeats \/ group >= Taken - Start)
        /\ out \in {"window", "ack"} => Taken >= (Acked + 1) * set.count
        /\ out = "window" =>
              /\ cvPacket = Expected(Acked)
              /\ group >= Repeats \/ group >= (Acked + 1) * set.count - Start

\* So many reset packets that the first acknowledge takes longer than the
\* receive waits: at most 258 + 64 of them, and 64 copies, against 2.55 s.
Slow(s) == s.startup + 2 * Continue + 2 * s.count + Window >= Timeout

\* An acknowledge is missed only after a flag, with slow settings, or behind packets
\* left over.
Punctual ==
    /\ dcc = "receive" /\ rx = <<>> /\ mishaps = {} =>
        /\ out = "startup" => waited = 0
        /\ out = "first" => waited <= set.startup + Continue
        /\ out = "copies" => waited <= set.startup + Continue + Taken - Acked * set.count
        /\ out = "window" => waited <= set.startup + Continue + set.count + 1
        /\ out = "ack" => waited <= set.startup + Continue + set.count + 1 + Window
    /\ "late" \in mishaps => flag \/ "leftovers" \in mishaps \/ Slow(set)

\* Only the packets of a write write.
OwnWrite(p) == p.kind = "write" => req.op = "write" /\ p.arg = req.byte
NoForeignWrites ==
    dcc # "idle" /\ "leftovers" \notin mishaps =>
        /\ \A i \in DOMAIN todo : OwnWrite(todo[i])
        /\ \A i \in DOMAIN front : OwnWrite(front[i])
        /\ out \in {"copies", "window"} => OwnWrite(cvPacket)

\* What the acknowledges say of the CV, and dcc::task has made of them.
Holds(p) ==
    IF p.kind = "bit" THEN ((cv \div Weight(p.arg)) % 2 = 1) = p.one ELSE cv = p.arg
Right(a, g) ==
    /\ noise = 0 \/ (noise = 1 /\ probe = "check" /\ ~Eaten) => (a => Holds(Expected(g)))
    /\ noise = 0 /\ ~Eaten => (probe = "write" \/ Holds(Expected(g)) => a)
Honest ==
    Asking /\ mishaps = {} =>
        /\ \A i \in DOMAIN rx : Right(rx[i], Got + i - 1)
        /\ out = "ack" => Right(ack, Acked)
        /\ noise = 0 /\ ~Eaten =>
            /\ probe = "bits" => byte = cv % Weight(index)
            /\ probe = "check" => byte = cv
            /\ probe = "search" => cv >= index
Result ==
    dcc = "waitOut" =>
        /\ byte # None => byte = cv \/ Misled
        /\ byte # None /\ req.op = "write" => byte = req.byte
        /\ Undisturbed => byte = Outcome

\* dcc::task spins in sendToFront and nobody will ever make room.
Spinning == dcc = "push" /\ todo # <<>> /\ Room = 0 /\ out = "off"

\* The two tasks stay in step as far as each of them can rely on the other: a push can
\* hang only after a short circuit or power off (Enough), an acknowledge nobody read
\* does not outlive its access (Probing), and none is taken for another's (Aligned).
Inv ==
    /\ TypeOK /\ Probing /\ InOrder /\ Enough /\ Aligned /\ Punctual
    /\ NoForeignWrites /\ Honest /\ Result

\* "send reply" (dcc/service.cpp:377): a request is answered, unless the push hangs.
\* Either way out::track::dcc has left the track first: after a flag too, although the
\* loop over equal packets tests none and dcc::task keeps pushing for the probe at hand.
OnlySpinHangs == dcc # "idle" ~> dcc = "idle" \/ Spinning

=============================================================================
