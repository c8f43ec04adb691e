------------------------- MODULE UsbSession_proofs --------------------------
(***************************************************************************)
(* Proofs about UsbSession: for every capacity of the buffers and any      *)
(* number of inputs the stream of the host has one reader, and what was    *)
(* pushed for one output is never transmitted by another.                  *)
(***************************************************************************)
EXTENDS UsbSession, SequenceTheorems, TLAPS

USE DEF AllProtocols, Outs, OutOf, Serves, RxPcs, UsbPcs, OutPcs, usbVars,
        outVars, buffers, bounds, faults, UsbGoto, OutGoto

-----------------------------------------------------------------------------
(* Messages and queues.                                                    *)

Inputs == AllKinds \cup AllProtocols

LEMMA NothingIsMessage == Nothing \in Messages
BY UsbSessionAssumption DEF Nothing, Messages, AllKinds

LEMMA MarkedIsMessage ==
    ASSUME NEW m \in Messages, NEW b \in BOOLEAN
    PROVE  LET n == [m EXCEPT !.served = b]
           IN  n \in Messages /\ n.from = m.from /\ (n.served <=> b)
               /\ n.kind = m.kind /\ n.no = m.no
<1>1. CASE b = TRUE BY <1>1 DEF Messages
<1>2. CASE b = FALSE BY <1>2 DEF Messages
<1>. QED BY <1>1, <1>2

LEMMA NewIsMessage ==
    ASSUME NEW p \in AllProtocols, NEW k \in AllKinds, NEW n \in 0..MaxInputs
    PROVE  [from |-> p, kind |-> k, no |-> n, served |-> FALSE] \in Messages
BY DEF Messages

LEMMA SenderTyped ==
    ASSUME NEW m \in Messages
    PROVE  m.from \in AllProtocols /\ OutOf[m.from] \in Outs
BY DEF Messages

LEMMA EmptyTyped ==
    ASSUME NEW S
    PROVE  <<>> \in Seq(S) /\ Len(<<>>) = 0 /\ DOMAIN <<>> = {}
OBVIOUS

LEMMA ElementTyped ==
    ASSUME NEW S, NEW s \in Seq(S), NEW i \in DOMAIN s
    PROVE  s[i] \in S
OBVIOUS

\* A queue loses its head ...
LEMMA TailTyped ==
    ASSUME NEW S, NEW s \in Seq(S), s # <<>>
    PROVE  /\ Head(s) \in S /\ Tail(s) \in Seq(S) /\ Len(Tail(s)) = Len(s) - 1
           /\ Len(s) \in Nat
           /\ \A i \in DOMAIN Tail(s) : i + 1 \in DOMAIN s /\ Tail(s)[i] = s[i + 1]
           /\ \A i \in DOMAIN Tail(s) : i \in Nat /\ i + 1 # 1
           /\ 1 \in DOMAIN s /\ Head(s) = s[1]
<1>1. /\ DOMAIN s = 1 .. Len(s) /\ Len(s) \in Nat /\ Len(s) # 0
      /\ Tail(s) \in Seq(S) /\ Len(Tail(s)) = Len(s) - 1
  BY HeadTailProperties, LenProperties, EmptySeq
<1>2. DOMAIN Tail(s) = 1 .. Len(Tail(s)) BY <1>1, LenProperties
<1>3. ASSUME NEW i \in DOMAIN Tail(s)
      PROVE  i + 1 \in DOMAIN s /\ Tail(s)[i] = s[i + 1]
  BY <1>1, <1>2, <1>3, HeadTailProperties
<1>4. Head(s) \in S /\ Head(s) = s[1] BY HeadTailProperties
<1>. QED BY <1>1, <1>3, <1>4

\* ... or grows at its end.
LEMMA AppendTyped ==
    ASSUME NEW S, NEW s \in Seq(S), NEW e \in S
    PROVE  /\ Append(s, e) \in Seq(S) /\ Len(Append(s, e)) = Len(s) + 1
           /\ Len(s) \in Nat
           /\ \A i \in DOMAIN Append(s, e) :
                 \/ i = Len(s) + 1 /\ Append(s, e)[i] = e
                 \/ i \in DOMAIN s /\ Append(s, e)[i] = s[i]
           /\ Append(s, e) # <<>>
           /\ s = <<>> => Head(Append(s, e)) = e
BY AppendProperties, LenProperties

-----------------------------------------------------------------------------
(* Every part of Inv is inductive, given those before it.                  *)

LEMMA InitInv == Init => Inv
<1>. SUFFICES ASSUME Init PROVE Inv
  OBVIOUS
<1>1. TypeOK
  <2>1. in \in Seq(Inputs) /\ answers \in Seq(Messages)
    BY EmptyTyped DEF Init
  <2>2. front \in Seq(Messages) /\ Len(front) <= FrontCapacity
    <3>1. CASE front = <<>> BY <3>1, EmptyTyped, UsbSessionAssumption
    <3>2. ASSUME NEW m \in Leftovers, front = <<m>>
          PROVE  front \in Seq(Messages) /\ Len(front) <= FrontCapacity
      <4>1. m \in Messages
        <5>1. m \in [from : Protocols, kind : LeftKinds, no : {0}, served : {FALSE}]
          BY DEF Leftovers
        <5>2. 0 \in 0..MaxInputs BY UsbSessionAssumption
        <5>. QED BY <5>1, <5>2, UsbSessionAssumption DEF Messages
      <4>. QED BY <3>2, <4>1, UsbSessionAssumption
    <3>. QED BY <3>1, <3>2 DEF Init
  <2>3. sent \in 0..MaxInputs /\ cuts \in 0..MaxCuts
    BY UsbSessionAssumption DEF Init
  <2>4. cur \in [AllProtocols -> Messages] /\ work \in [Outs -> Messages]
    BY NothingIsMessage DEF Init
  <2>. QED BY <2>1, <2>2, <2>3, <2>4 DEF Init, TypeOK, Suspended, Parked, Inputs
<1>2. OneReader BY DEF Init, OneReader, AllSuspended, Suspended
<1>3. OutputServed BY DEF Init, OutputServed, AtWork, Driving, Parked
<1>4. MessagesGuarded
  <2>1. \A i \in DOMAIN front : ~front[i].served
    <3>1. CASE front = <<>> BY <3>1, EmptyTyped
    <3>2. ASSUME NEW m \in Leftovers, front = <<m>>
          PROVE  \A i \in DOMAIN front : ~front[i].served
      <4>1. m \in [from : Protocols, kind : LeftKinds, no : {0}, served : {FALSE}]
        BY DEF Leftovers
      <4>2. ~m.served BY <4>1
      <4>. QED BY <3>2, <4>2
    <3>. QED BY <3>1, <3>2 DEF Init
  <2>. QED BY <2>1 DEF Init, MessagesGuarded, Suspended
<1>5. SessionAlone /\ AnswerOwed /\ AskedOnce
  BY DEF Init, SessionAlone, InSession, AnswerOwed, AskedOnce, Suspended, Parked
<1>. QED BY <1>1, <1>2, <1>3, <1>4, <1>5 DEF Inv

\* Types. Only the queues and the messages in hand need an argument.
LEMMA UsbTyped ==
    ASSUME TypeOK, NEW p \in AllProtocols, UsbTask(p)
    PROVE  TypeOK'
<1> USE DEF TypeOK
<1>1. CASE UsbClaim(p) BY <1>1 DEF UsbClaim
<1>2. CASE UsbStart(p) BY <1>2 DEF UsbStart, WakeOut
<1>3. CASE UsbTake(p)
  <2>1. Head(in) \in Inputs /\ Tail(in) \in Seq(Inputs)
    BY <1>3, TailTyped DEF UsbTake, Inputs
  <2>2. cur' \in [AllProtocols -> Messages]
    <3>1. CASE PassedOn(p, Head(in))
      <4>1. Head(in) \in AllKinds BY <3>1 DEF PassedOn, AllKinds
      <4> DEFINE r == [from |-> p, kind |-> Head(in), no |-> sent, served |-> FALSE]
      <4>2. r \in Messages BY <4>1, NewIsMessage
      <4>3. cur' = [cur EXCEPT ![p] = r] BY <1>3, <3>1 DEF UsbTake
      <4> HIDE DEF r
      <4>. QED BY <4>2, <4>3
    <3>2. CASE ~PassedOn(p, Head(in)) BY <1>3, <3>2 DEF UsbTake
    <3>. QED BY <3>1, <3>2
  <2>3. usb' \in [AllProtocols -> UsbPcs] BY <1>3 DEF UsbTake
  <2>. QED BY <1>3, <2>1, <2>2, <2>3 DEF UsbTake, Inputs
<1>4. CASE UsbTimeout(p) BY <1>4 DEF UsbTimeout
<1>5. CASE UsbSend(p)
  <2> DEFINE m == [cur[p] EXCEPT !.served = Served(p)]
  <2>1. m \in Messages BY MarkedIsMessage DEF Served
  <2> HIDE DEF m
  <2>2. front' \in Seq(Messages) /\ Len(front') <= FrontCapacity
    BY <1>5, <2>1, AppendTyped, UsbSessionAssumption DEF UsbSend, FrontFull, m
  <2>3. cur' = [cur EXCEPT ![p] = m] BY <1>5 DEF UsbSend, m
  <2>4. usb' \in [AllProtocols -> UsbPcs] BY <1>5 DEF UsbSend
  <2>5. cur' \in [AllProtocols -> Messages] BY <2>1, <2>3
  <2>6. UNCHANGED <<state, rx, in, out, work, answers, late, sent, cuts, abort, cleared>>
    BY <1>5 DEF UsbSend
  <2>. QED BY <2>2, <2>4, <2>5, <2>6
<1>6. CASE UsbAnswer(p)
  <2>1. answers' \in Seq(Messages) BY <1>6, TailTyped DEF UsbAnswer
  <2>2. usb' \in [AllProtocols -> UsbPcs] BY <1>6 DEF UsbAnswer, AfterAnswer
  <2>. QED BY <1>6, <2>1, <2>2 DEF UsbAnswer
<1>7. CASE UsbAnswerTimeout(p)
  <2>1. usb' \in [AllProtocols -> UsbPcs] BY <1>7 DEF UsbAnswerTimeout, AfterAnswer
  <2>. QED BY <1>7, <2>1 DEF UsbAnswerTimeout
<1>8. CASE UsbEnd(p) BY <1>8 DEF UsbEnd
<1>9. CASE UsbPark(p) BY <1>9, NothingIsMessage DEF UsbPark
<1>. QED BY <1>1, <1>2, <1>3, <1>4, <1>5, <1>6, <1>7, <1>8, <1>9 DEF UsbTask

LEMMA OutTyped ==
    ASSUME TypeOK, NEW t \in Outs, OutTask(t)
    PROVE  TypeOK'
<1> USE DEF TypeOK
<1>1. CASE OutSwitch(t) BY <1>1 DEF OutSwitch
<1>2. CASE OutPark(t) BY <1>2 DEF OutPark
<1>3. CASE OutTake(t)
  <2>1. /\ Head(front) \in Messages /\ front' \in Seq(Messages)
        /\ Len(front') <= FrontCapacity
    <3>1. /\ Head(front) \in Messages /\ Tail(front) \in Seq(Messages)
          /\ Len(Tail(front)) = Len(front) - 1 /\ Len(front) \in Nat
      BY <1>3, TailTyped DEF OutTake
    <3>. QED BY <1>3, <3>1, UsbSessionAssumption DEF OutTake
  <2>2. work' \in [Outs -> Messages] BY <1>3, <2>1, NothingIsMessage DEF OutTake
  <2>3. out' \in [Outs -> OutPcs] BY <1>3 DEF OutTake
  <2>. QED BY <1>3, <2>1, <2>2, <2>3 DEF OutTake
<1>4. CASE OutAnswer(t)
  <2>1. answers' \in Seq(Messages)
    <3>1. Append(answers, work[t]) \in Seq(Messages) BY AppendTyped
    <3>. QED BY <1>4, <3>1 DEF OutAnswer
  <2>2. work' \in [Outs -> Messages] BY <1>4, NothingIsMessage DEF OutAnswer
  <2>3. out' \in [Outs -> OutPcs] BY <1>4 DEF OutAnswer
  <2>. QED BY <1>4, <2>1, <2>2, <2>3 DEF OutAnswer
<1>5. CASE OutEnd(t)
  <2>1. front' \in Seq(Messages) /\ Len(front') <= FrontCapacity
    BY <1>5, EmptyTyped, UsbSessionAssumption DEF OutEnd
  <2>. QED BY <1>5, <2>1 DEF OutEnd
<1>6. CASE OutReset(t)
  <2>1. /\ front' \in Seq(Messages) /\ Len(front') <= FrontCapacity
        /\ answers' \in Seq(Messages)
    BY <1>6, EmptyTyped, UsbSessionAssumption DEF OutReset
  <2>. QED BY <1>6, <2>1 DEF OutReset
<1>7. CASE OutStore(t) BY <1>7 DEF OutStore
<1>. QED BY <1>1, <1>2, <1>3, <1>4, <1>5, <1>6, <1>7 DEF OutTask

Environment ==
    \/ HostSends \/ ShortCircuit
    \/ PowerClear \/ PowerOn \/ PowerOff \/ Restart

LEMMA OtherTyped == TypeOK /\ (RxTask \/ Environment) => TypeOK'
<1> USE DEF TypeOK
<1>1. ASSUME TypeOK, RxTask PROVE TypeOK'
  <2>1. CASE RxListen
    <3>1. Head(in) \in Inputs /\ Tail(in) \in Seq(Inputs)
      BY <1>1, <2>1, TailTyped DEF RxListen, Inputs
    <3>. QED BY <1>1, <2>1, <3>1 DEF RxListen, Inputs
  <2>2. CASE RxPark BY <1>1, <2>2 DEF RxPark
  <2>3. CASE RxWait BY <1>1, <2>3 DEF RxWait
  <2>. QED BY <1>1, <2>1, <2>2, <2>3 DEF RxTask
<1>2. ASSUME TypeOK, HostSends PROVE TypeOK'
  <2>1. PICK x \in Inputs : in' = Append(in, x)
    BY <1>2, UsbSessionAssumption DEF HostSends, Inputs
  <2>2. in' \in Seq(Inputs) BY <1>2, <2>1, AppendTyped DEF Inputs
  <2>3. sent' \in 0..MaxInputs BY <1>2, UsbSessionAssumption DEF HostSends
  <2>. QED BY <1>2, <2>2, <2>3 DEF HostSends, Inputs
<1>3. ASSUME TypeOK, ShortCircuit PROVE TypeOK'
  BY <1>3, UsbSessionAssumption DEF ShortCircuit
<1>4. ASSUME TypeOK, PowerClear \/ PowerOn \/ PowerOff PROVE TypeOK'
  BY <1>4 DEF PowerClear, PowerOn, PowerOff, WakeOut
<1>5. ASSUME TypeOK, Restart PROVE TypeOK'
  <2>1. /\ in' \in Seq(Inputs) /\ front' \in Seq(Messages)
        /\ answers' \in Seq(Messages) /\ Len(front') <= FrontCapacity
    BY <1>5, EmptyTyped, UsbSessionAssumption DEF Restart
  <2>. QED BY <1>5, <2>1, NothingIsMessage DEF Restart, Suspended, Parked, Inputs
<1>. QED BY <1>1, <1>2, <1>3, <1>4, <1>5 DEF Environment

\* rx_task resumes a protocol task only while all of them are suspended, and
\* listens again only when they are; a protocol task wakes nobody but rx_task.
LEMMA ReaderStep == TypeOK /\ OneReader /\ Next => OneReader'
<1> USE DEF TypeOK, OneReader, AllSuspended
<1>1. ASSUME TypeOK, OneReader, RxTask PROVE OneReader'
  BY <1>1 DEF RxTask, RxListen, RxPark, RxWait
<1>2. ASSUME TypeOK, OneReader, NEW p \in AllProtocols, UsbTask(p) PROVE OneReader'
  <2>1. usb[p] # "suspended" /\ (\A q \in AllProtocols \ {p} : usb'[q] = usb[q])
    BY <1>2 DEF UsbTask, UsbClaim, UsbStart, UsbTake, UsbTimeout, UsbSend,
       UsbAnswer, UsbAnswerTimeout, AfterAnswer, UsbEnd, UsbPark
  <2>2. rx' # "listen"
    BY <1>2, <2>1 DEF UsbTask, UsbClaim, UsbStart, UsbTake, UsbTimeout, UsbSend,
       UsbAnswer, UsbAnswerTimeout, UsbEnd, UsbPark
  <2>. QED BY <1>2, <2>1, <2>2
<1>3. ASSUME OneReader, NEW t \in Outs, OutTask(t) PROVE OneReader'
  BY <1>3 DEF OutTask, OutSwitch, OutPark, OutTake, OutAnswer, OutEnd, OutReset,
     OutStore
<1>4. ASSUME OneReader, Environment PROVE OneReader'
  BY <1>4 DEF Environment, HostSends, ShortCircuit,
     PowerClear, PowerOn, PowerOff, Restart, Suspended
<1>. QED BY <1>1, <1>2, <1>3, <1>4 DEF Next, Running, Environment

\* Whoever finds another task driving the output fails.  Unless errors were cleared
\* with a task at work, the word is claimed while it is Suspended, and then nobody
\* is at work; a task which stores Suspended is the only one at work, because two
\* of them never serve the same word.
LEMMA ServedStep == TypeOK /\ OutputServed /\ Next => OutputServed'
<1> USE DEF TypeOK, OutputServed, AtWork, Driving
<1>1. ASSUME OutputServed, RxTask PROVE OutputServed'
  BY <1>1 DEF RxTask, RxListen, RxPark, RxWait
<1>2. ASSUME TypeOK, OutputServed, NEW p \in AllProtocols, UsbTask(p)
      PROVE  OutputServed'
  BY <1>2 DEF UsbTask, UsbClaim, UsbStart, WakeOut, UsbTake, UsbTimeout, UsbSend,
     UsbAnswer, UsbAnswerTimeout, UsbEnd, UsbPark
<1>3. ASSUME TypeOK, OutputServed, NEW t \in Outs, OutTask(t)
      PROVE  OutputServed'
  <2>1. CASE OutSwitch(t) \/ OutPark(t) BY <1>3, <2>1 DEF OutSwitch, OutPark
  <2>2. CASE OutTake(t) \/ OutAnswer(t) BY <1>3, <2>2 DEF OutTake, OutAnswer
  <2>3. CASE OutEnd(t) BY <1>3, <2>3 DEF OutEnd
  <2>4. CASE OutReset(t) BY <1>3, <2>4 DEF OutReset
  <2>5. CASE OutStore(t) BY <1>3, <2>5 DEF OutStore
  <2>. QED BY <1>3, <2>1, <2>2, <2>3, <2>4, <2>5 DEF OutTask
<1>4. ASSUME TypeOK, OutputServed, Environment PROVE OutputServed'
  BY <1>4 DEF Environment, HostSends, ShortCircuit,
     PowerClear, PowerOn, WakeOut, PowerOff, Restart, Parked
<1>. QED BY <1>1, <1>2, <1>3, <1>4 DEF Next, Running, Environment

\* Tasks may move on as long as those which guard a message stay at work.
LEMMA StillGuarded ==
    ASSUME TypeOK, MessagesGuarded,
           \A p \in AllProtocols : usb'[p] = "send" => usb[p] = "send" /\ cur'[p] = cur[p],
           \A i \in DOMAIN front' : \E j \in DOMAIN front : front'[i] = front[j],
           \A t \in Outs : out[t] \in {"run", "busy", "reset"}
                             => out'[t] \in {"run", "busy", "reset"}
    PROVE  MessagesGuarded'
<1>1. ASSUME NEW i \in DOMAIN front', front'[i].served
      PROVE  out'[OutOf[front'[i].from]] \in {"run", "busy", "reset"}
  <2>1. PICK j \in DOMAIN front : front'[i] = front[j] OBVIOUS
  <2>2. OutOf[front[j].from] \in Outs BY ElementTyped, SenderTyped DEF TypeOK
  <2>3. front[j].served BY <1>1, <2>1
  <2>4. out[OutOf[front[j].from]] \in {"run", "busy", "reset"}
    BY <2>3 DEF MessagesGuarded
  <2>. QED BY <2>1, <2>2, <2>4
<1>. QED BY <1>1 DEF MessagesGuarded

\* The front buffer grows in UsbSend, and its messages lose their task only
\* after OutReset has emptied it.
LEMMA GuardedStep ==
    TypeOK /\ OutputServed /\ MessagesGuarded /\ Next => MessagesGuarded'
<1> USE DEF TypeOK, MessagesGuarded
<1>1. ASSUME TypeOK, MessagesGuarded, RxTask PROVE MessagesGuarded'
  BY <1>1, ZenonT(30) DEF RxTask, RxListen, RxPark, RxWait
<1>2. ASSUME TypeOK, MessagesGuarded, NEW p \in AllProtocols, UsbTask(p)
      PROVE  MessagesGuarded'
  <2>1. CASE UsbSend(p)
    <3> DEFINE m == [cur[p] EXCEPT !.served = Served(p)]
    <3>1. m \in Messages /\ m.from = p /\ (m.served <=> Served(p))
      <4>1. cur[p] \in Messages /\ cur[p].from = p BY <1>2, <2>1 DEF UsbSend
      <4>2. Served(p) \in BOOLEAN BY DEF Served
      <4>. QED BY <4>1, <4>2, MarkedIsMessage
    <3>2. /\ cur' = [cur EXCEPT ![p] = m] /\ out' = out
          /\ front' = IF FrontFull THEN front ELSE Append(front, m)
          /\ usb'[p] # "send" /\ \A q \in AllProtocols \ {p} : usb'[q] = usb[q]
      BY <1>2, <2>1 DEF UsbSend
    <3> HIDE DEF m
    <3>3. m.served => out[OutOf[p]] \in {"run", "busy"} BY <3>1 DEF Served
    <3>4. \A i \in DOMAIN Append(front, m) :
             \/ Append(front, m)[i] = m
             \/ i \in DOMAIN front /\ Append(front, m)[i] = front[i]
      BY <1>2, <3>1, AppendTyped
    <3>5. ASSUME NEW i \in DOMAIN front', front'[i].served
          PROVE  out'[OutOf[front'[i].from]] \in {"run", "busy", "reset"}
      <4>1. CASE front' = front BY <1>2, <3>2, <3>5, <4>1
      <4>2. CASE front' = Append(front, m)
        <5>1. CASE front'[i] = m
          <6>1. m.served BY <3>5, <5>1
          <6>. QED BY <3>1, <3>2, <3>3, <5>1, <6>1
        <5>2. CASE i \in DOMAIN front /\ front'[i] = front[i]
          BY <1>2, <3>2, <3>5, <5>2
        <5>. QED BY <3>4, <3>5, <4>2, <5>1, <5>2
      <4>. QED BY <3>2, <4>1, <4>2
    <3>6. \A q \in AllProtocols : usb'[q] = "send" => cur'[q].from = q
      BY <1>2, <3>2
    <3>. QED BY <3>5, <3>6
  <2>2. CASE UsbTake(p)
    <3>1. usb'[p] = "send" => cur'[p].from = p BY <1>2, <2>2 DEF UsbTake
    <3>2. /\ front' = front /\ out' = out
          /\ \A q \in AllProtocols \ {p} : usb'[q] = usb[q] /\ cur'[q] = cur[q]
      BY <1>2, <2>2 DEF UsbTake
    <3>. QED BY <1>2, <3>1, <3>2
  <2>3. CASE UsbStart(p) BY <1>2, <2>3 DEF UsbStart, WakeOut
  <2>4. CASE UsbPark(p) BY <1>2, <2>4 DEF UsbPark
  <2>5. CASE \/ UsbClaim(p) \/ UsbTimeout(p) \/ UsbAnswer(p)
             \/ UsbAnswerTimeout(p) \/ UsbEnd(p)
    <3>1. /\ cur' = cur /\ front' = front /\ out' = out
          /\ \A q \in AllProtocols : usb'[q] = "send" => usb[q] = "send"
      BY <1>2, <2>5 DEF UsbClaim, UsbTimeout, UsbAnswer, UsbAnswerTimeout,
         AfterAnswer, UsbEnd
    <3>. QED BY <1>2, <3>1, StillGuarded
  <2>. QED BY <1>2, <2>1, <2>2, <2>3, <2>4, <2>5 DEF UsbTask
<1>3. ASSUME TypeOK, MessagesGuarded, NEW t \in Outs, OutTask(t)
      PROVE  MessagesGuarded'
  <2>1. CASE OutTake(t)
    <3>1. \A i \in DOMAIN Tail(front) : \E j \in DOMAIN front : Tail(front)[i] = front[j]
      BY <1>3, <2>1, TailTyped DEF OutTake
    <3>2. /\ front' = Tail(front) /\ UNCHANGED <<usb, cur>>
          /\ \A u \in Outs : out[u] \in {"run", "busy", "reset"}
                               => out'[u] \in {"run", "busy", "reset"}
      BY <1>3, <2>1 DEF OutTake
    <3>. QED BY <1>3, <3>1, <3>2, StillGuarded
  <2>2. CASE OutEnd(t) \/ OutAnswer(t) \/ OutSwitch(t) \/ OutPark(t) \/ OutStore(t)
    <3>1. /\ UNCHANGED <<usb, cur>> /\ (front' = front \/ front' = <<>>)
          /\ \A u \in Outs : out[u] \in {"run", "busy", "reset"}
                               => out'[u] \in {"run", "busy", "reset"}
      BY <1>3, <2>2 DEF OutEnd, OutAnswer, OutSwitch, OutPark, OutStore
    <3>2. \A i \in DOMAIN front' : \E j \in DOMAIN front : front'[i] = front[j]
      BY <3>1, EmptyTyped
    <3>. QED BY <1>3, <3>1, <3>2, StillGuarded
  <2>3. CASE OutReset(t) BY <1>3, <2>3, EmptyTyped DEF OutReset
  <2>. QED BY <1>3, <2>1, <2>2, <2>3 DEF OutTask
<1>4. ASSUME TypeOK, MessagesGuarded, Environment PROVE MessagesGuarded'
  <2>1. CASE Restart BY <2>1, EmptyTyped DEF Restart, Suspended
  <2>2. CASE PowerOn BY <1>4, <2>2 DEF PowerOn, WakeOut
  <2>3. CASE ~Restart /\ ~PowerOn
    BY <1>4, <2>3 DEF Environment, HostSends, ShortCircuit,
       PowerClear, PowerOff
  <2>. QED BY <2>1, <2>2, <2>3
<1>. QED BY <1>1, <1>2, <1>3, <1>4 DEF Next, Running, Environment

\* A session begins when nobody is at work, unless errors were cleared with a task
\* at work, and its end is what lets another one begin.
LEMMA AloneStep ==
    TypeOK /\ OneReader /\ OutputServed /\ SessionAlone /\ Next => SessionAlone'
<1> USE DEF TypeOK, SessionAlone, InSession, AtWork
<1>1. ASSUME TypeOK, OneReader, SessionAlone, RxTask PROVE SessionAlone'
  BY <1>1 DEF RxTask, RxListen, RxPark, RxWait
<1>2. ASSUME TypeOK, OneReader, OutputServed, SessionAlone,
             NEW p \in AllProtocols, UsbTask(p)
      PROVE  SessionAlone'
  <2>1. \A q \in AllProtocols \ {p} : usb[q] = "suspended" /\ usb'[q] = "suspended"
    BY <1>2 DEF OneReader, UsbTask, UsbClaim, UsbStart, UsbTake, UsbTimeout, UsbSend,
       UsbAnswer, UsbAnswerTimeout, AfterAnswer, UsbEnd, UsbPark
  <2>2. CASE UsbClaim(p)
    BY <1>2, <2>1, <2>2 DEF UsbClaim, OutputServed
  <2>3. CASE UsbStart(p) BY <1>2, <2>1, <2>3 DEF UsbStart, WakeOut
  <2>4. CASE \/ UsbTake(p) \/ UsbTimeout(p) \/ UsbSend(p) \/ UsbAnswer(p)
             \/ UsbAnswerTimeout(p) \/ UsbEnd(p) \/ UsbPark(p)
    <3>1. /\ UNCHANGED <<state, out, cleared>>
          /\ InSession(p)' => InSession(p)
          /\ p = "DCC_EIN" => usb'[p] # "answer"
      BY <1>2, <2>4 DEF UsbTake, UsbTimeout, UsbSend, UsbAnswer,
         UsbAnswerTimeout, AfterAnswer, UsbEnd, UsbPark
    <3>2. ASSUME NEW q \in AllProtocols, InSession(q)' PROVE q = p /\ InSession(q)
      BY <2>1, <3>1, <3>2
    <3>3. usb'["DCC_EIN"] # "answer" BY <2>1, <3>1
    <3>. QED BY <1>2, <3>1, <3>2, <3>3
  <2>. QED BY <1>2, <2>2, <2>3, <2>4 DEF UsbTask
<1>3. ASSUME TypeOK, SessionAlone, NEW t \in Outs, OutTask(t) PROVE SessionAlone'
  <2>1. CASE OutSwitch(t) BY <1>3, <2>1 DEF OutSwitch
  <2>2. CASE ~OutSwitch(t)
    <3>1. /\ UNCHANGED <<usb, cleared>> /\ state' \in {state, "Suspended"}
          /\ \A u \in Outs : AtWork(u)' => AtWork(u)
          /\ out'["dcc"] # "busy"
      BY <1>3, <2>2 DEF OutTask, OutPark, OutTake, OutAnswer, OutEnd, OutReset, OutStore
    <3>. QED BY <1>3, <3>1
  <2>. QED BY <2>1, <2>2
<1>4. ASSUME TypeOK, SessionAlone, Environment PROVE SessionAlone'
  BY <1>4 DEF Environment, HostSends, ShortCircuit,
     PowerClear, PowerOn, WakeOut, PowerOff, Restart, Suspended, Parked
<1>. QED BY <1>1, <1>2, <1>3, <1>4 DEF Next, Running, Environment

\* What DECUP_EIN has pushed stays in the buffer until its task takes it, and
\* that task answers everything.
LEMMA OwedStep ==
    TypeOK /\ OneReader /\ OutputServed /\ AnswerOwed /\ Next => AnswerOwed'
<1> USE DEF TypeOK, AnswerOwed, MayServe
<1>1. ASSUME TypeOK, AnswerOwed, RxTask PROVE AnswerOwed'
  BY <1>1 DEF RxTask, RxListen, RxPark, RxWait
<1>2. ASSUME TypeOK, OneReader, AnswerOwed, NEW p \in AllProtocols, UsbTask(p)
      PROVE  AnswerOwed'
  <2>1. CASE UsbSend(p)
    <3>1. FrontFull => front # <<>>
      BY <1>2, EmptyTyped, UsbSessionAssumption DEF FrontFull
    <3> DEFINE m == [cur[p] EXCEPT !.served = Served(p)]
    <3>2. front' = IF FrontFull THEN front ELSE Append(front, m)
      BY <2>1 DEF UsbSend
    <3>3. m \in Messages
      BY <1>2, MarkedIsMessage DEF Served
    <3> HIDE DEF m
    <3>4. Append(front, m) # <<>> BY <1>2, <3>3, AppendTyped
    <3>5. front' # <<>> BY <3>1, <3>2, <3>4
    <3>. QED BY <3>5
  <2>2. CASE p # "DECUP_EIN" /\ ~UsbSend(p)
    <3>1. usb'["DECUP_EIN"] = "suspended"
      BY <1>2, <2>2 DEF OneReader, UsbTask, UsbClaim, UsbStart, UsbTake, UsbTimeout,
         UsbAnswer, UsbAnswerTimeout, AfterAnswer, UsbEnd, UsbPark
    <3>. QED BY <3>1
  <2>3. CASE p = "DECUP_EIN" /\ ~UsbSend(p)
    BY <1>2, <2>3 DEF UsbTask, UsbClaim, UsbStart, UsbTake, UsbTimeout, UsbAnswer,
       UsbAnswerTimeout, AfterAnswer, UsbEnd, UsbPark
  <2>. QED BY <2>1, <2>2, <2>3
<1>3. ASSUME TypeOK, OutputServed, AnswerOwed, NEW t \in Outs, OutTask(t)
      PROVE  AnswerOwed'
  <2> USE DEF OutputServed, AtWork
  <2>1. CASE OutSwitch(t) BY <1>3, <2>1 DEF OutSwitch
  <2>2. CASE OutPark(t) BY <1>3, <2>2 DEF OutPark
  <2>3. CASE OutTake(t) BY <1>3, <2>3 DEF OutTake
  <2>4. CASE OutAnswer(t)
    <3>1. answers' = answers \/ answers' # <<>>
      BY <1>3, <2>4, AppendTyped DEF OutAnswer
    <3>2. t = "decup" => answers' # <<>>
      BY <1>3, <2>4, AppendTyped DEF OutAnswer, MayIgnore
    <3>3. /\ UNCHANGED <<state, usb, front, cleared>>
          /\ \A u \in Outs \ {t} : out'[u] = out[u]
      BY <1>3, <2>4 DEF OutAnswer
    <3>. QED BY <1>3, <3>1, <3>2, <3>3
  <2>5. CASE OutEnd(t) BY <1>3, <2>5 DEF OutEnd
  <2>6. CASE OutReset(t) BY <1>3, <2>6 DEF OutReset
  <2>7. CASE OutStore(t) BY <1>3, <2>7 DEF OutStore
  <2>. QED BY <1>3, <2>1, <2>2, <2>3, <2>4, <2>5, <2>6, <2>7 DEF OutTask
<1>4. ASSUME TypeOK, AnswerOwed, Environment PROVE AnswerOwed'
  BY <1>4 DEF Environment, HostSends, ShortCircuit,
     PowerClear, PowerOn, WakeOut, PowerOff, Restart, Suspended
<1>. QED BY <1>1, <1>2, <1>3, <1>4 DEF Next, Running, Environment

-----------------------------------------------------------------------------
(* One answer at a time.                                                   *)

\* Nothing in the buffers or at work asks for an answer.
Quiet(p) ==
    LET t == OutOf[p] IN
    /\ \A i \in DOMAIN front : Own(p, front[i]) /\ ~Asks(front[i])
    /\ out[t] = "busy" => Own(p, work[t]) /\ ~Asks(work[t])
    /\ answers = <<>>

LEMMA QuietAsked ==
    ASSUME NEW p \in AllProtocols, Quiet(p),
           usb[p] \in {"send", "answer"} => Own(p, cur[p])
    PROVE  OneAsked(p)
BY DEF Quiet, OneAsked

\* While no answer is awaited, or none can come, nothing asks for one.
LEMMA AskedQuiet ==
    ASSUME NEW p \in AllProtocols, OneAsked(p),
           usb[p] # "answer" \/ ~Asks(cur[p])
    PROVE  Quiet(p)
BY DEF Quiet, OneAsked, InHand

AskingPcs == {"loop", "send", "answer"}
Askers == {"DECUP_EIN", "SUSIV2"}

\* A session of another task is over before this one begins.
LEMMA OthersSuspended ==
    ASSUME TypeOK, OneReader, NEW p \in AllProtocols, UsbTask(p)
    PROVE  \A q \in AllProtocols \ {p} : usb'[q] = "suspended"
BY DEF TypeOK, OneReader, UsbTask, UsbClaim, UsbStart, UsbTake, UsbTimeout, UsbSend,
   UsbAnswer, UsbAnswerTimeout, AfterAnswer, UsbEnd, UsbPark

LEMMA AskedUsbStep ==
    ASSUME TypeOK, OneReader, AskedOnce, NEW p \in Askers, UsbTask(p),
           usb'[p] \in AskingPcs, ~late', ~cleared'
    PROVE  OneAsked(p)'
<1> USE DEF AskingPcs, Askers
<1>1. p \in AllProtocols /\ OutOf[p] \in Outs OBVIOUS
<1>2. CASE UsbStart(p)
  <2>1. /\ front' = <<>> /\ answers' = <<>> /\ out[OutOf[p]] # "busy"
        /\ usb'[p] = "loop"
    BY <1>2 DEF UsbStart, TypeOK
  <2>2. out'[OutOf[p]] # "busy"
    BY <1>1, <1>2, <2>1 DEF UsbStart, WakeOut, TypeOK
  <2>. QED BY <2>1, <2>2, EmptyTyped DEF OneAsked
<1>3. CASE UsbTake(p)
  <2>1. OneAsked(p) /\ usb[p] = "loop" /\ ~late
    BY <1>3 DEF UsbTake, AskedOnce
  <2>2. Quiet(p) BY <1>1, <2>1, AskedQuiet
  <2>3. UNCHANGED <<front, answers, out, work>> BY <1>3 DEF UsbTake
  <2>4. Quiet(p)' BY <2>2, <2>3 DEF Quiet, Own
  <2>5. usb'[p] = "send" => Own(p, cur'[p])
    BY <1>3 DEF UsbTake, TypeOK, Own
  <2>6. usb'[p] # "answer" BY <1>3 DEF UsbTake, TypeOK
  <2>7. usb'[p] \in {"send", "answer"} => Own(p, cur'[p]) BY <2>5, <2>6
  <2>. QED BY <2>4, <2>7 DEF Quiet, OneAsked, Own
<1>4. CASE UsbSend(p)
  <2>1. OneAsked(p) /\ usb[p] = "send" /\ ~late
    BY <1>4 DEF UsbSend, AskedOnce
  <2>2. Quiet(p) BY <1>1, <2>1, AskedQuiet
  <2>3. Own(p, cur[p]) BY <2>1 DEF OneAsked
  <2>4. PICK m \in Messages : /\ m = [cur[p] EXCEPT !.served = Served(p)]
                              /\ m.from = cur[p].from /\ m.kind = cur[p].kind
                              /\ m.no = cur[p].no
    BY <1>1, MarkedIsMessage, ZenonT(30) DEF TypeOK, Served
  <2>5. /\ cur' = [cur EXCEPT ![p] = m] /\ usb'[p] = "answer"
        /\ front' = front \/ front' = Append(front, m)
        /\ UNCHANGED <<out, work, answers>>
    BY <1>4, <2>4 DEF UsbSend, TypeOK
  <2>6. cur'[p] = m BY <1>1, <2>5 DEF TypeOK
  <2>7. Own(p, m) BY <2>3, <2>4 DEF Own
  <2>8. Asks(m) => InHand(p, m)'
    BY <2>5, <2>6 DEF InHand
  <2>9. \A i \in DOMAIN front' :
           \/ Own(p, front'[i]) /\ ~Asks(front'[i])
           \/ i = Len(front) + 1 /\ front'[i] = m
    <3>1. CASE front' = front BY <2>2, <3>1 DEF Quiet
    <3>2. CASE front' = Append(front, m)
      BY <2>2, <2>4, <3>2, AppendTyped DEF Quiet, TypeOK
    <3>. QED BY <2>5, <3>1, <3>2
  <2>10. answers' = <<>> /\ (out'[OutOf[p]] = "busy" =>
                Own(p, work'[OutOf[p]]) /\ ~Asks(work'[OutOf[p]]))
    BY <2>2, <2>5 DEF Quiet
  <2>11. (\A i \in DOMAIN front : /\ Own(p, front[i])
                                  /\ Asks(front[i]) => InHand(p, front[i]))'
    BY <2>7, <2>8, <2>9 DEF InHand
  <2>12. \A i, j \in DOMAIN front' : Asks(front'[i]) /\ Asks(front'[j]) => i = j
    BY <2>9
  <2>. QED BY <2>6, <2>7, <2>10, <2>11, <2>12 DEF OneAsked, Own
<1>5. CASE UsbAnswer(p)
  <2>1. OneAsked(p) /\ usb[p] = "answer" /\ ~late /\ answers # <<>>
    BY <1>5 DEF UsbAnswer, AskedOnce
  <2>2. /\ answers' = Tail(answers) /\ UNCHANGED <<cur, front, out, work>>
        /\ usb'[p] \in {"loop", "wake"}
    BY <1>5 DEF UsbAnswer, AfterAnswer, TypeOK
  <2>3. answers' = <<>>
    BY <2>1, <2>2, TailTyped DEF OneAsked, TypeOK
  <2>4. Quiet(p)' BY <2>1, <2>2, <2>3 DEF OneAsked, Quiet, Own
  <2>. QED BY <2>2, <2>4 DEF Quiet, OneAsked, Own
<1>6. CASE UsbAnswerTimeout(p)
  <2>1. OneAsked(p) /\ usb[p] = "answer" /\ ~late
    BY <1>6 DEF UsbAnswerTimeout, AskedOnce, TypeOK
  <2>2. UNCHANGED <<cur, front, answers, out, work>>
    BY <1>6 DEF UsbAnswerTimeout
  <2>3. CASE p = "DECUP_EIN"
    <3>1. UNCHANGED usb BY <1>6, <2>3 DEF UsbAnswerTimeout
    <3>. QED BY <2>1, <2>2, <3>1 DEF OneAsked, Own, InHand
  <2>4. CASE p = "SUSIV2"
    <3>1. ~Asks(cur[p]) /\ usb'[p] \in {"loop", "wake"}
      BY <1>6, <2>4 DEF UsbAnswerTimeout, AfterAnswer, Asks, TypeOK
    <3>2. Quiet(p) BY <1>1, <2>1, <3>1, AskedQuiet
    <3>3. Quiet(p)' BY <2>2, <3>2 DEF Quiet, Own
    <3>. QED BY <3>1, <3>3 DEF Quiet, OneAsked, Own
  <2>. QED BY <2>3, <2>4
<1>7. CASE UsbClaim(p) \/ UsbTimeout(p) \/ UsbEnd(p) \/ UsbPark(p)
  BY <1>7 DEF UsbClaim, UsbTimeout, UsbEnd, UsbPark, TypeOK
<1>. QED BY <1>2, <1>3, <1>4, <1>5, <1>6, <1>7 DEF UsbTask

LEMMA AskedOutStep ==
    ASSUME TypeOK, SessionAlone, NEW p \in Askers, OneAsked(p), ~cleared,
           usb[p] \in AskingPcs, NEW t \in Outs, OutTask(t)
    PROVE  OneAsked(p)'
<1> DEFINE u == OutOf[p]
<1>1. p \in AllProtocols /\ u \in Outs BY DEF Askers
<1>2. UNCHANGED <<usb, cur>>
  BY DEF OutTask, OutSwitch, OutPark, OutTake, OutAnswer, OutEnd, OutReset, OutStore
<1>3. AtWork(t) => t = u \/ t = "dcc"
  BY <1>1 DEF SessionAlone, InSession, AskingPcs
<1>4. u # "dcc" BY DEF Askers
<1> HIDE DEF u
<1>5. CASE OutTake(t)
  <2>1. /\ front' = Tail(front) /\ front # <<>> /\ UNCHANGED answers
        /\ t = u \/ t = "dcc"
    BY <1>3, <1>5 DEF OutTake, AtWork
  <2>2. /\ 1 \in DOMAIN front /\ Head(front) = front[1]
        /\ \A i \in DOMAIN front' : /\ i + 1 \in DOMAIN front /\ front'[i] = front[i + 1]
                                    /\ i \in Nat /\ i + 1 # 1
    BY <2>1, TailTyped DEF TypeOK
  <2>3. \A i \in DOMAIN front' : /\ Own(p, front'[i])
                                 /\ Asks(front'[i]) => InHand(p, front'[i])
    BY <2>2 DEF OneAsked
  <2>4. \A i, j \in DOMAIN front' : Asks(front'[i]) /\ Asks(front'[j]) => i = j
    <3>1. \A i, j \in DOMAIN front : Asks(front[i]) /\ Asks(front[j]) => i = j
      BY DEF OneAsked
    <3>. QED BY <2>2, <3>1
  <2>5. (\A i \in DOMAIN front : ~Asks(front[i])) => \A i \in DOMAIN front' : ~Asks(front'[i])
    BY <2>2
  <2>6. CASE t = "dcc"
    <3>1. out'[u] = out[u] /\ work'[u] = work[u]
      BY <1>1, <1>4, <1>5, <2>6 DEF OutTake, TypeOK
    <3>. QED BY <1>2, <2>1, <2>3, <2>4, <2>5, <3>1 DEF OneAsked, Own, InHand, u
  <2>7. CASE t = u
    <3>1. out'[u] = "busy" /\ work'[u] = Head(front)
      BY <1>1, <1>4, <1>5, <2>7 DEF OutTake, TypeOK
    <3>2. /\ Own(p, work'[u])
          /\ Asks(work'[u]) => InHand(p, work'[u])
      BY <2>2, <3>1 DEF OneAsked
    <3>3. Asks(work'[u]) => \A i \in DOMAIN front' : ~Asks(front'[i])
      <4>1. \A i \in DOMAIN front : Asks(front[1]) /\ Asks(front[i]) => i = 1
        BY <2>2 DEF OneAsked
      <4>. QED BY <2>2, <3>1, <4>1
    <3>4. answers # <<>> => ~Asks(work'[u])
      BY <2>2, <3>1 DEF OneAsked
    <3>. QED BY <1>2, <2>1, <2>3, <2>4, <2>5, <3>2, <3>3, <3>4
             DEF OneAsked, Own, InHand, u
  <2>. QED BY <2>1, <2>6, <2>7
<1>6. CASE OutAnswer(t)
  <2>1. out[t] = "busy" /\ UNCHANGED front BY <1>6 DEF OutAnswer
  <2>2. t = u BY <1>3, <2>1 DEF AtWork, SessionAlone
  <2>3. out'[u] # "busy" BY <1>1, <1>6, <2>2 DEF OutAnswer, TypeOK
  <2>4. Own(p, work[u]) BY <2>1, <2>2 DEF OneAsked, u
  <2>5. CASE UNCHANGED answers
    BY <1>2, <2>1, <2>3, <2>5 DEF OneAsked, Own, InHand, u
  <2>6. CASE MayAnswer(t, work[t]) /\ answers' = Append(answers, work[t])
    <3>1. Asks(work[u])
      BY <1>1, <2>2, <2>4, <2>6 DEF MayAnswer, Own, PassedOn, Asks, Askers, u
    <3>2. /\ InHand(p, work[u]) /\ answers = <<>>
          /\ \A i \in DOMAIN front : ~Asks(front[i])
      BY <2>1, <2>2, <3>1 DEF OneAsked, u
    <3>3. answers' # <<>> /\ Len(answers') = 1 /\ Head(answers') = work[u]
      <4>1. work[u] \in Messages BY <1>1 DEF TypeOK
      <4>2. /\ Append(answers, work[u]) # <<>>
            /\ Len(Append(answers, work[u])) = Len(answers) + 1
            /\ Head(Append(answers, work[u])) = work[u]
        BY <3>2, <4>1, AppendTyped DEF TypeOK
      <4>. QED BY <2>2, <2>6, <3>2, <4>2, EmptyTyped
    <3>. QED BY <1>2, <2>1, <2>3, <3>2, <3>3 DEF OneAsked, Own, InHand, u
  <2>. QED BY <1>6, <2>5, <2>6 DEF OutAnswer
<1>7. CASE \/ OutSwitch(t) \/ OutPark(t) \/ OutEnd(t) \/ OutReset(t) \/ OutStore(t)
  <2>1. /\ UNCHANGED work /\ (front' = front \/ front' = <<>>)
        /\ answers' = answers \/ answers' = <<>>
        /\ out'[u] = "busy" => out[u] = "busy"
    BY <1>1, <1>7 DEF OutSwitch, OutPark, OutEnd, OutReset, OutStore, TypeOK
  <2>2. CASE front' = front BY <1>2, <2>1, <2>2 DEF OneAsked, Own, InHand, u
  <2>3. CASE front' = <<>> BY <1>2, <2>1, <2>3, EmptyTyped DEF OneAsked, Own, InHand, u
  <2>. QED BY <2>1, <2>2, <2>3
<1>. QED BY <1>5, <1>6, <1>7 DEF OutTask

LEMMA AskedStep ==
    TypeOK /\ OneReader /\ SessionAlone /\ AskedOnce /\ Next => AskedOnce'
<1> SUFFICES ASSUME TypeOK, OneReader, SessionAlone, AskedOnce, Next,
                    NEW p \in Askers, usb'[p] \in AskingPcs, ~late', ~cleared'
             PROVE  OneAsked(p)'
  BY DEF AskedOnce, Askers, AskingPcs
<1>1. ASSUME NEW q \in AllProtocols, UsbTask(q) PROVE OneAsked(p)'
  <2>1. p = q BY <1>1, OthersSuspended DEF Askers, AskingPcs
  <2>. QED BY <1>1, <2>1, AskedUsbStep
<1>2. ASSUME NEW t \in Outs, OutTask(t) PROVE OneAsked(p)'
  <2>1. UNCHANGED <<usb, late, cleared>>
    BY <1>2 DEF OutTask, OutSwitch, OutPark, OutTake, OutAnswer, OutEnd, OutReset, OutStore
  <2>2. OneAsked(p) BY <2>1 DEF AskedOnce, Askers, AskingPcs
  <2>. QED BY <1>2, <2>1, <2>2, AskedOutStep
<1>3. CASE RxTask \/ Environment
  <2>1. ~Restart /\ usb[p] \in AskingPcs
    BY <1>3 DEF RxTask, RxListen, RxPark, RxWait, Environment, HostSends,
       ShortCircuit, PowerClear, PowerOn, PowerOff, Restart, Suspended, TypeOK,
       Askers, AskingPcs
  <2>2. /\ UNCHANGED <<cur, late, front, answers, work>> /\ ~cleared
        /\ usb'[p] = usb[p] \/ usb'[p] = "claim"
        /\ out'[OutOf[p]] = "busy" => out[OutOf[p]] = "busy"
    BY <1>3, <2>1 DEF RxTask, RxListen, RxPark, RxWait, Environment, HostSends,
       ShortCircuit, PowerClear, PowerOn, PowerOff, WakeOut, TypeOK, Askers
  <2>3. OneAsked(p) BY <2>1, <2>2 DEF AskedOnce, Askers, AskingPcs
  <2>. QED BY <2>2, <2>3 DEF OneAsked, Own, InHand, AskingPcs
<1>. QED BY <1>1, <1>2, <1>3 DEF Next, Running, Environment

LEMMA NextInv == Inv /\ [Next]_vars => Inv'
<1>. SUFFICES ASSUME Inv, [Next]_vars PROVE Inv'
  OBVIOUS
<1>1. CASE Next
  <2>1. TypeOK'
    BY <1>1, UsbTyped, OutTyped, OtherTyped DEF Inv, Next, Running, Environment
  <2>. QED BY <1>1, <2>1, ReaderStep, ServedStep, GuardedStep, AloneStep, OwedStep,
           AskedStep DEF Inv
<1>2. CASE UNCHANGED vars
  <2>1. TypeOK' /\ OneReader' /\ OutputServed' /\ MessagesGuarded'
    BY <1>2 DEF vars, Inv, TypeOK, OneReader, AllSuspended, OutputServed, AtWork, Driving,
       MessagesGuarded
  <2>2. SessionAlone' /\ AnswerOwed' /\ AskedOnce'
    BY <1>2 DEF vars, Inv, SessionAlone, InSession, AtWork, AnswerOwed, MayServe,
       AskedOnce, OneAsked, Own, InHand
  <2>. QED BY <2>1, <2>2 DEF Inv
<1>. QED BY <1>1, <1>2

\* The stream of the host has one reader, one task drives the output, no message
\* outlives the work of the task it was pushed for, and unless errors were cleared
\* with a task at work a session has the output to itself.
THEOREM Invariance == Spec => []Inv
<1>1. Init => Inv BY InitInv
<1>2. Inv /\ [Next]_vars => Inv' BY NextInv
<1>. QED BY <1>1, <1>2, PTL DEF Spec

\* assert(bytes_received): the buffers never leave DECUP_EIN without an answer
\* while its low-level task is at work, unless they were emptied by a task which was
\* at work when errors were cleared.
THEOREM AckAlwaysArrives == Spec => []AckArrives
<1>1. Init => AckArrives BY DEF Init, AckArrives
<1>2. Inv /\ AckArrives /\ [Next]_vars => AckArrives'
  <2> SUFFICES ASSUME Inv, [Next]_vars, abort' = "bytes_received", AckArrives
               PROVE  out'["decup"] # "run" \/ cleared'
    BY DEF AckArrives
  <2>1. ASSUME NEW p \in AllProtocols, UsbAnswerTimeout(p), p # "SUSIV2"
        PROVE  out'["decup"] # "run" \/ cleared'
    <3>1. p = "DECUP_EIN" BY <2>1 DEF UsbAnswerTimeout, Inv, SessionAlone
    <3>. QED BY <2>1, <3>1 DEF UsbAnswerTimeout, Coming, Inv, AnswerOwed, MayServe
  <2>2. CASE abort = "bytes_received"
    BY <2>2 DEF Next, Restart, vars, AckArrives
  <2>3. CASE /\ abort # "bytes_received"
             /\ ~\E p \in AllProtocols \ {"SUSIV2"} : UsbAnswerTimeout(p)
    <3>1. abort' = abort \/ abort' \in {"none", "hardware"}
      BY <2>3 DEF Next, Running, Restart, vars, RxTask, RxListen, RxPark, RxWait, UsbTask,
         UsbClaim, UsbStart, UsbTake, UsbTimeout, UsbSend, UsbAnswer,
         UsbAnswerTimeout, UsbEnd, UsbPark, OutTask, OutSwitch, OutPark, OutTake,
         OutAnswer, OutEnd, OutReset, OutStore, HostSends, ShortCircuit,
         PowerClear, PowerOn, PowerOff
    <3>. QED BY <2>3, <3>1
  <2>. QED BY <2>1, <2>2, <2>3
<1>. QED BY <1>1, <1>2, Invariance, PTL DEF Spec

\* SUSIV2 and DECUP_EIN pass on the answer to the command in hand, unless they
\* began with leftovers, SUSIV2 did not wait long enough, or errors were cleared
\* with a task at work.
THEOREM AnswersMatch == Spec => RightAnswer
<1>1. ASSUME Inv, NEW p \in AllProtocols, UsbAnswer(p), ~late, ~cleared
      PROVE  Head(answers).no = cur[p].no
  <2>1. p \in Askers /\ usb[p] = "answer" /\ answers # <<>>
    BY <1>1 DEF UsbAnswer, Inv, SessionAlone, Askers
  <2>2. OneAsked(p) BY <1>1, <2>1 DEF Inv, AskedOnce, Askers
  <2>. QED BY <2>1, <2>2 DEF OneAsked, InHand
<1>2. Inv => [\A p \in AllProtocols : UsbAnswer(p)
                 => Head(answers).no = cur[p].no \/ late \/ cleared]_vars
  BY <1>1
<1>. QED BY <1>2, Invariance, PTL DEF RightAnswer

\* No output transmits what was pushed while another one was at work, unless errors
\* were cleared with a task at work.
THEOREM NoStrangersEver == Spec => NoStrangers
<1>1. ASSUME Inv, NEW t \in Outs, OutTake(t), Head(front).served, ~cleared
      PROVE  OutOf[Head(front).from] = t
  <2> DEFINE u == OutOf[Head(front).from]
  <2>1. 1 \in DOMAIN front /\ Head(front) = front[1] /\ Head(front) \in Messages
    BY <1>1, TailTyped DEF OutTake, Inv, TypeOK
  <2>2. u \in Outs BY <2>1, SenderTyped
  <2>3. AtWork(u) BY <1>1, <2>1 DEF Inv, MessagesGuarded, AtWork
  <2>4. AtWork(t) /\ (t = "dcc" => ~Flagged)
    BY <1>1 DEF OutTake, AtWork
  <2>. QED BY <1>1, <2>2, <2>3, <2>4 DEF Inv, OutputServed, Flagged
<1>2. Inv => [\A t \in Outs : OutTake(t) /\ Head(front).served
                 => OutOf[Head(front).from] = t \/ cleared]_vars
  BY <1>1
<1>. QED BY <1>2, Invariance, PTL DEF NoStrangers

=============================================================================
