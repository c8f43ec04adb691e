--------------------------- MODULE Sockets_proofs ----------------------------
(***************************************************************************)
(* Proofs about Sockets: for every number of messages, capacity of the     *)
(* front buffer and number of short circuits, an answer goes to the client *)
(* it is for, and an update whose parts came in order is not refused.      *)
(***************************************************************************)
EXTENDS Sockets, TLAPS

USE DEF Services, Senders, Outs, OutOf, Serves, TaskPcs, OutPcs, outVars, buffers,
        flashVars, history, bounds, TaskGoto, OutGoto, Driving, AtWork, InLoop, Waiting

-----------------------------------------------------------------------------
(* Sequences and messages.                                                 *)

LEMMA EmptyTyped ==
    ASSUME NEW S
    PROVE  <<>> \in Seq(S) /\ Len(<<>>) = 0 /\ DOMAIN <<>> = {}
OBVIOUS

LEMMA ElementTyped ==
    ASSUME NEW S, NEW s \in Seq(S), NEW i \in DOMAIN s
    PROVE  s[i] \in S
OBVIOUS

LEMMA DomainOf ==
    ASSUME NEW S, NEW s \in Seq(S)
    PROVE  /\ Len(s) \in Nat /\ DOMAIN s = 1 .. Len(s)
           /\ (s # <<>> => 1 \in DOMAIN s /\ Len(s) > 0 /\ Head(s) = s[1] /\ Head(s) \in S)
OBVIOUS

LEMMA TailTyped ==
    ASSUME NEW S, NEW s \in Seq(S), s # <<>>
    PROVE  /\ Tail(s) \in Seq(S) /\ Len(Tail(s)) = Len(s) - 1 /\ Len(s) \in Nat
           /\ Head(s) = s[1] /\ 1 \in DOMAIN s /\ Head(s) \in S
           /\ DOMAIN Tail(s) = 1 .. Len(s) - 1 /\ DOMAIN s = 1 .. Len(s)
           /\ \A i \in DOMAIN Tail(s) : i + 1 \in DOMAIN s /\ Tail(s)[i] = s[i + 1]
OBVIOUS

LEMMA AppendTyped ==
    ASSUME NEW S, NEW s \in Seq(S), NEW e \in S
    PROVE  /\ Append(s, e) \in Seq(S) /\ Len(Append(s, e)) = Len(s) + 1
           /\ Len(s) \in Nat /\ DOMAIN s = 1 .. Len(s)
           /\ DOMAIN Append(s, e) = 1 .. Len(s) + 1
           /\ Append(s, e)[Len(s) + 1] = e
           /\ Append(s, e) # <<>> /\ (s # <<>> => Head(Append(s, e)) = Head(s))
           /\ \A i \in DOMAIN s : Append(s, e)[i] = s[i]
OBVIOUS

LEMMA NothingIsMessage == NoMessage \in Messages
BY SocketsAssumption DEF NoMessage, Messages, Kinds, KindsOf

LEMMA QueueTyped ==
    ASSUME TypeOK, NEW w \in Services
    PROVE  queue[w] \in Seq(Messages)
BY DEF TypeOK

-----------------------------------------------------------------------------
(* Every action keeps Inv.                                                 *)

LEMMA InitInv == Init => Inv
<1>. SUFFICES ASSUME Init PROVE Inv
  OBVIOUS
<1>1. TypeOK
  <2>1. httpd \in [pc : {"idle", "push"}, w : Services, m : Messages]
    BY NothingIsMessage DEF Init, Running, Idle
  <2>2. /\ task \in [Services -> TaskPcs] /\ queue \in [Services -> Seq(Messages)]
        /\ out \in [Outs -> OutPcs] /\ work \in [Outs -> Messages]
    BY NothingIsMessage, EmptyTyped DEF Init, Running
  <2>3. /\ front \in Seq(Messages) /\ answers \in Seq(Answers)
        /\ flash \in Seq(Kinds) /\ heard \in Seq(Kinds)
    BY EmptyTyped DEF Init, Running
  <2>4. sent \in 0..MaxMessages /\ cuts \in 0..MaxCuts
    BY SocketsAssumption DEF Init
  <2>. QED BY <2>1, <2>2, <2>3, <2>4 DEF Init, Running, TypeOK
<1>2. OneOutput /\ LeftoversLate BY DEF Init, Running, OneOutput, LeftoversLate
<1>3. FlashOwned /\ NothingMissing
  BY EmptyTyped DEF Init, Running, FlashOwned, NothingMissing, Uploading
<1>4. Addressed /\ OneInFlight /\ AnswerComing
  BY EmptyTyped DEF Init, Running, Idle, NoMessage, Addressed, OneInFlight, AnswerComing
<1>. QED BY <1>1, <1>2, <1>3, <1>4 DEF Inv

\* A frame is received; the first one claims an output which is free.
LEMMA ReceiveInv ==
    ASSUME Inv, abort = "none", NEW w \in Services, NEW k \in Kinds, HttpdReceive(w, k)
    PROVE  Inv'
<1> USE DEF Inv, HttpdReceive
<1>1. CASE k # "close" /\ state = "Suspended"
  <2> USE <1>1 DEF Claim, WakeTask, WakeOut
  <2>1. TypeOK'
    <3>1. httpd' \in [pc : {"idle", "push"}, w : Services, m : Messages]
      BY SocketsAssumption DEF TypeOK, Messages
    <3>2. task' \in [Services -> TaskPcs] /\ out' \in [Outs -> OutPcs]
      BY DEF TypeOK
    <3>3. heard' \in Seq(Kinds) /\ clean' \in BOOLEAN
      <4>1. CASE w = "OTA"
        <5>1. heard' = <<>> BY <4>1
        <5>2. clean' = (queue[w] = <<>> /\ ~InLoop(w)) BY <4>1
        <5>3. (queue[w] = <<>> /\ ~InLoop(w)) \in BOOLEAN OBVIOUS
        <5>. QED BY <5>1, <5>2, <5>3, EmptyTyped
      <4>2. CASE w # "OTA" BY <4>2 DEF TypeOK
      <4>. QED BY <4>1, <4>2
    <3>4. cleared' \in BOOLEAN
      <4>1. (cleared /\ \E t \in Outs : AtWork(t)) \in BOOLEAN OBVIOUS
      <4>. QED BY <4>1
    <3>. QED BY <3>1, <3>2, <3>3, <3>4, SocketsAssumption DEF TypeOK
  <2>2. OneOutput'
    <3>1. \A t \in Outs : /\ AtWork(t)' <=> AtWork(t)
                          /\ Driving(t)' <=> Driving(t)
      BY DEF TypeOK
    <3>2. ~cleared' => \A t \in Outs : ~AtWork(t) BY DEF OneOutput
    <3>3. cleared' => cleared OBVIOUS
    <3>4. UNCHANGED <<lost, cuts>> OBVIOUS
    <3>. QED BY <3>1, <3>2, <3>3, <3>4 DEF OneOutput
  <2>3. LeftoversLate' BY DEF LeftoversLate, Attended, TypeOK
  <2>4. FlashOwned' BY DEF FlashOwned, TypeOK
  <2>8. Addressed' BY DEF Addressed
  <2>5. NothingMissing'
    <3>1. CASE w = "OTA"
      <4>1. clean' => queue["OTA"] = <<>> /\ task["OTA"] # "loop" BY <3>1
      <4>2. clean' => flash = <<>> BY <4>1 DEF FlashOwned
      <4>3. heard' = <<>> /\ queue' = queue /\ flash' = flash BY <3>1
      <4>. QED BY <4>1, <4>2, <4>3, EmptyTyped DEF NothingMissing
    <3>2. CASE w # "OTA"
      <4>1. task'["OTA"] = task["OTA"] BY <3>2 DEF TypeOK
      <4>. QED BY <3>2, <4>1 DEF NothingMissing, Uploading
    <3>. QED BY <3>1, <3>2
  <2>6. OneInFlight'
    BY SMTT(30) DEF OneInFlight, WaitedFor, Foreign, TypeOK
  <2>7. AnswerComing'
    BY DEF AnswerComing, OneInFlight, Served, TypeOK
  <2>. QED BY <2>1, <2>2, <2>3, <2>4, <2>5, <2>6, <2>7, <2>8
<1>2. CASE ~(k # "close" /\ state = "Suspended")
  <2> USE <1>2
  <2>1. TypeOK'
    <3>1. httpd' \in [pc : {"idle", "push"}, w : Services, m : Messages]
      BY SocketsAssumption DEF TypeOK, Messages
    <3>. QED BY <3>1, SocketsAssumption DEF TypeOK
  <2>2. OneOutput' /\ LeftoversLate'
    BY DEF OneOutput, LeftoversLate, Attended
  <2>3. FlashOwned' /\ NothingMissing'
    BY DEF FlashOwned, NothingMissing, Uploading
  <2>4. Addressed' /\ OneInFlight' /\ AnswerComing'
    BY DEF Addressed, OneInFlight, WaitedFor, AnswerComing, Served, Foreign
  <2>. QED BY <2>1, <2>2, <2>3, <2>4
<1>. QED BY <1>1, <1>2

\* The frame gets to the end of the queue of its service.
LEMMA PushInv ==
    ASSUME Inv, HttpdPush
    PROVE  Inv'
<1> DEFINE w == httpd.w
           m == [httpd.m EXCEPT !.late = ~Attended(w)]
<1>1. /\ w \in Services /\ m \in Messages /\ m.kind = httpd.m.kind /\ m.kind \in Kinds
      /\ m.from = httpd.m.from
      /\ ~Attended(w) => m.late
  <2>1. httpd.m \in Messages /\ w \in Services BY DEF Inv, TypeOK
  <2>2. (~Attended(w)) \in BOOLEAN BY DEF Attended
  <2>. QED BY <2>1, <2>2 DEF Messages
<1>2. /\ queue' = [queue EXCEPT ![w] = Append(queue[w], m)]
      /\ heard' = IF w = "OTA" THEN Append(heard, m.kind) ELSE heard
      /\ httpd' = Idle
      /\ UNCHANGED <<state, task, outVars, buffers, flashVars, clean, lost, cleared,
                     bounds, abort>>
  BY DEF HttpdPush
<1> HIDE DEF w, m
<1>3. queue \in [Services -> Seq(Messages)] /\ heard \in Seq(Kinds) BY DEF Inv, TypeOK
<1>4. queue[w] \in Seq(Messages) BY <1>1, <1>3
<1> DEFINE q == Append(queue[w], m)
<1>5. /\ q \in Seq(Messages) /\ Len(q) = Len(queue[w]) + 1 /\ Len(queue[w]) \in Nat
      /\ DOMAIN queue[w] = 1 .. Len(queue[w]) /\ DOMAIN q = 1 .. Len(queue[w]) + 1
      /\ q[Len(queue[w]) + 1] = m /\ q # <<>>
      /\ queue[w] # <<>> => Head(q) = Head(queue[w])
      /\ \A i \in DOMAIN queue[w] : q[i] = queue[w][i]
  BY <1>1, <1>4, AppendTyped
<1>6. queue'[w] = q /\ \A v \in Services : v # w => queue'[v] = queue[v]
  BY <1>1, <1>2, <1>3
<1>7. \A i \in DOMAIN q : i = Len(queue[w]) + 1 \/ i \in DOMAIN queue[w] BY <1>5
<1> HIDE DEF q
<1> USE DEF Inv
<1>8. TypeOK'
  <2>1. queue' \in [Services -> Seq(Messages)]
    BY <1>1, <1>2, <1>3, <1>5 DEF q
  <2>2. heard' \in Seq(Kinds) BY <1>1, <1>2, <1>3, AppendTyped
  <2>3. httpd' \in [pc : {"idle", "push"}, w : Services, m : Messages]
    BY <1>2, NothingIsMessage DEF Idle
  <2>. QED BY <1>2, <2>1, <2>2, <2>3 DEF TypeOK
<1>9. OneOutput' /\ FlashOwned' BY <1>2 DEF OneOutput, FlashOwned
<1>10. LeftoversLate'
  <2> SUFFICES ASSUME cuts = 0, NEW v \in Services, ~Attended(v), NEW i \in DOMAIN queue'[v]
               PROVE  queue'[v][i].late
    BY <1>2 DEF LeftoversLate, Attended
  <2>1. CASE v = w
    <3>1. i \in DOMAIN q /\ queue'[v][i] = q[i] BY <1>6, <2>1
    <3>2. CASE i = Len(queue[w]) + 1 BY <1>1, <1>5, <2>1, <3>1, <3>2
    <3>3. CASE i \in DOMAIN queue[w]
      BY <1>1, <1>5, <2>1, <3>1, <3>3 DEF LeftoversLate
    <3>. QED BY <1>7, <3>1, <3>2, <3>3
  <2>2. CASE v # w BY <1>6, <2>2 DEF LeftoversLate
  <2>. QED BY <2>1, <2>2
<1>11. NothingMissing'
  <2>1. CASE w # "OTA"
    <3>1. queue'["OTA"] = queue["OTA"] /\ heard' = heard BY <1>2, <1>6, <2>1
    <3>. QED BY <1>2, <3>1 DEF NothingMissing, Uploading
  <2>2. CASE w = "OTA"
    <3> SUFFICES ASSUME clean, Uploading
                 PROVE  /\ Len(heard') = Len(flash) + Len(q)
                        /\ \A i \in DOMAIN flash : heard'[i] = flash[i]
                        /\ \A i \in DOMAIN q : heard'[Len(flash) + i] = q[i].kind
      BY <1>2, <1>6, <2>2 DEF NothingMissing, Uploading
    <3>1. /\ Len(heard) = Len(flash) + Len(queue[w])
          /\ \A i \in DOMAIN flash : heard[i] = flash[i]
          /\ \A i \in DOMAIN queue[w] : heard[Len(flash) + i] = queue[w][i].kind
      BY <2>2 DEF NothingMissing
    <3>2. Len(flash) \in Nat /\ DOMAIN flash = 1 .. Len(flash) BY DomainOf DEF TypeOK
    <3>3. /\ Len(heard') = Len(heard) + 1 /\ Len(heard) \in Nat
          /\ DOMAIN heard = 1 .. Len(heard)
          /\ heard'[Len(heard) + 1] = m.kind
          /\ \A i \in DOMAIN heard : heard'[i] = heard[i]
      BY <1>1, <1>2, <1>3, <2>2, AppendTyped
    <3>4. Len(heard') = Len(flash) + Len(q) BY <1>5, <3>1, <3>2, <3>3
    <3>5. \A i \in DOMAIN flash : heard'[i] = flash[i] BY <1>5, <3>1, <3>2, <3>3
    <3>6. ASSUME NEW i \in DOMAIN q PROVE heard'[Len(flash) + i] = q[i].kind
      <4>1. CASE i = Len(queue[w]) + 1
        <5>1. Len(flash) + i = Len(heard) + 1 BY <1>5, <3>1, <3>2, <4>1
        <5>. QED BY <1>5, <3>3, <4>1, <5>1
      <4>2. CASE i \in DOMAIN queue[w]
        <5>1. Len(flash) + i \in DOMAIN heard BY <1>5, <3>1, <3>2, <3>3, <4>2
        <5>. QED BY <1>5, <3>1, <3>3, <4>2, <5>1
      <4>. QED BY <1>7, <4>1, <4>2
    <3>. QED BY <3>4, <3>5, <3>6
  <2>. QED BY <2>1, <2>2
<1>12. \A v \in Senders : Waiting(v) => queue'[v] # <<>> /\ Head(queue'[v]) = Head(queue[v])
  BY <1>5, <1>6 DEF OneInFlight
<1>13. OneInFlight' BY <1>2, <1>12 DEF OneInFlight, WaitedFor, Foreign
<1>14. AnswerComing' BY <1>2, <1>12 DEF AnswerComing, Served
<1>15. Addressed'
  <2>1. httpd'.m.from = httpd'.w BY <1>2 DEF Idle, NoMessage
  <2>2. m.from = w BY <1>1 DEF Addressed, w
  <2>3. ASSUME NEW v \in Services, NEW i \in DOMAIN queue'[v]
        PROVE  queue'[v][i].from = v
    <3>1. CASE v = w
      <4>1. i \in DOMAIN q /\ queue'[v][i] = q[i] BY <1>6, <2>3, <3>1
      <4>2. CASE i = Len(queue[w]) + 1 BY <1>5, <2>2, <3>1, <4>1, <4>2
      <4>3. CASE i \in DOMAIN queue[w] BY <1>1, <1>5, <3>1, <4>1, <4>3 DEF Addressed
      <4>. QED BY <1>7, <4>1, <4>2, <4>3
    <3>2. CASE v # w BY <1>6, <2>3, <3>2 DEF Addressed
    <3>. QED BY <3>1, <3>2
  <2>. QED BY <2>1, <2>3 DEF Addressed
<1>. QED BY <1>8, <1>9, <1>10, <1>11, <1>13, <1>14, <1>15

-----------------------------------------------------------------------------
(* The service tasks.                                                      *)

LEMMA SwitchInv ==
    ASSUME Inv, NEW w \in Services, TaskSwitch(w) \/ TaskPark(w) \/ TaskWait(w)
    PROVE  Inv'
<1> USE DEF Inv, TypeOK
<1>1. PICK from \in {"switch", "delay", "parking", "sent"},
           to \in {"loop", "parking", "suspended", "receive"} :
         /\ TaskGoto(w, from, to)
         /\ from \in {"switch", "delay"}
               => w # "ZUSI" /\ to = IF state = w THEN "loop" ELSE "parking"
         /\ from = "parking" => to = "suspended"
         /\ from = "sent" <=> to = "receive"
         /\ UNCHANGED <<state, httpd, queue, outVars, buffers, flashVars, history, bounds,
                        abort>>
  <2>1. CASE TaskSwitch(w)
    <3>1. PICK from \in {"switch", "delay"} :
             TaskGoto(w, from, IF state = w THEN "loop" ELSE "parking")
      BY <2>1 DEF TaskSwitch
    <3>. QED BY <2>1, <3>1 DEF TaskSwitch
  <2>2. CASE TaskPark(w) BY <2>2 DEF TaskPark
  <2>3. CASE TaskWait(w) BY <2>3 DEF TaskWait
  <2>. QED BY <2>1, <2>2, <2>3
<1>2. TypeOK' BY <1>1
<1>3. OneOutput' BY <1>1 DEF OneOutput
<1>4. LeftoversLate' BY <1>1 DEF LeftoversLate, Attended
<1>5. FlashOwned' BY <1>1 DEF FlashOwned, OneInFlight
<1>6. NothingMissing' BY <1>1 DEF NothingMissing, Uploading, OneInFlight
<1>7. OneInFlight' BY <1>1, SMTT(30) DEF OneInFlight, WaitedFor, Foreign
<1>8. AnswerComing' BY <1>1 DEF AnswerComing, Served
<1>9. Addressed' BY <1>1 DEF Addressed
<1>. QED BY <1>2, <1>3, <1>4, <1>5, <1>6, <1>7, <1>8, <1>9

\* The service closes: it was in its loop, where it waits for nothing.
LEMMA CloseInv ==
    ASSUME Inv, NEW w \in Services, task[w] = "loop", Close(w),
           UNCHANGED <<state, httpd, outVars, buffers, boot, history, bounds, abort>>
    PROVE  Inv'
<1> USE DEF Inv, TypeOK, Close, AfterClose
<1>1. /\ queue' \in [Services -> Seq(Messages)] /\ queue'[w] = <<>>
      /\ DOMAIN queue'[w] = {} /\ \A v \in Services : v # w => queue'[v] = queue[v]
  BY EmptyTyped
<1>2. TypeOK'
  <2>1. handle' \in BOOLEAN /\ flash' \in Seq(Kinds) BY EmptyTyped, ZenonT(30)
  <2>2. task' \in [Services -> TaskPcs] OBVIOUS
  <2>. QED BY <1>1, <2>1, <2>2
<1>3. OneOutput' BY DEF OneOutput
<1>4. LeftoversLate' BY <1>1 DEF LeftoversLate, Attended
<1>5. FlashOwned' BY DEF FlashOwned
<1>6. NothingMissing' BY <1>1 DEF NothingMissing, Uploading
<1>7. \A v \in Senders : Waiting(v)' => Waiting(v) /\ v # w /\ queue'[v] = queue[v]
  BY <1>1
<1>8. \A v \in Senders : Waiting(v) => Waiting(v)' OBVIOUS
<1>9. OneInFlight' BY <1>7, <1>8 DEF OneInFlight, WaitedFor, Foreign
<1>10. AnswerComing' BY <1>7 DEF AnswerComing, Served
<1>11. Addressed' BY <1>1 DEF Addressed
<1>. QED BY <1>2, <1>3, <1>4, <1>5, <1>6, <1>9, <1>10, <1>11

\* A message of a service which is in its loop leaves the queue.
LEMMA PopFacts ==
    ASSUME TypeOK, NEW w \in Services, queue[w] # <<>>, Pop(w)
    PROVE  /\ queue' \in [Services -> Seq(Messages)]
           /\ \A v \in Services : v # w => queue'[v] = queue[v]
           /\ Len(queue'[w]) = Len(queue[w]) - 1 /\ Len(queue[w]) \in Nat
           /\ Head(queue[w]) = queue[w][1] /\ 1 \in DOMAIN queue[w]
           /\ Head(queue[w]) \in Messages
           /\ DOMAIN queue'[w] = 1 .. Len(queue[w]) - 1
           /\ \A i \in DOMAIN queue'[w] :
                 i + 1 \in DOMAIN queue[w] /\ queue'[w][i] = queue[w][i + 1]
<1>1. queue \in [Services -> Seq(Messages)] BY DEF TypeOK
<1>2. queue'[w] = Tail(queue[w]) /\ \A v \in Services : v # w => queue'[v] = queue[v]
  BY <1>1 DEF Pop
<1>3. queue[w] \in Seq(Messages) BY <1>1
<1> DEFINE q == Tail(queue[w])
<1>4. /\ q \in Seq(Messages) /\ Len(q) = Len(queue[w]) - 1 /\ Len(queue[w]) \in Nat
      /\ Head(queue[w]) = queue[w][1] /\ 1 \in DOMAIN queue[w]
      /\ Head(queue[w]) \in Messages
      /\ DOMAIN q = 1 .. Len(queue[w]) - 1
      /\ \A i \in DOMAIN q : i + 1 \in DOMAIN queue[w] /\ q[i] = queue[w][i + 1]
  BY <1>3, TailTyped
<1>5. queue' = [queue EXCEPT ![w] = q] BY DEF Pop
<1> HIDE DEF q
<1>6. queue' \in [Services -> Seq(Messages)] BY <1>1, <1>4, <1>5
<1>7. queue'[w] = q BY <1>1, <1>5
<1>. QED BY <1>2, <1>4, <1>6, <1>7

LEMMA LatePopped ==
    ASSUME Inv, NEW w \in Services, queue[w] # <<>>, Pop(w), task' = task, state' = state,
           cuts' = cuts
    PROVE  LeftoversLate'
<1>1. /\ \A v \in Services : v # w => queue'[v] = queue[v]
      /\ \A i \in DOMAIN queue'[w] :
            i + 1 \in DOMAIN queue[w] /\ queue'[w][i] = queue[w][i + 1]
  BY PopFacts DEF Inv
<1>2. \A v \in Services : \A i \in DOMAIN queue'[v] :
         \E j \in DOMAIN queue[v] : queue'[v][i] = queue[v][j]
  <2> SUFFICES ASSUME NEW v \in Services, NEW i \in DOMAIN queue'[v]
               PROVE  \E j \in DOMAIN queue[v] : queue'[v][i] = queue[v][j]
    OBVIOUS
  <2>1. CASE v = w BY <1>1, <2>1
  <2>2. CASE v # w BY <1>1, <2>2
  <2>. QED BY <2>1, <2>2
<1>. QED BY <1>2 DEF Inv, LeftoversLate, Attended

LEMMA AddressedPopped ==
    ASSUME Inv, NEW w \in Services, queue[w] # <<>>, Pop(w), httpd' = httpd
    PROVE  Addressed'
<1>1. /\ \A v \in Services : v # w => queue'[v] = queue[v]
      /\ \A i \in DOMAIN queue'[w] :
            i + 1 \in DOMAIN queue[w] /\ queue'[w][i] = queue[w][i + 1]
  BY PopFacts DEF Inv
<1>2. ASSUME NEW v \in Services, NEW i \in DOMAIN queue'[v]
      PROVE  queue'[v][i].from = v
  <2>1. CASE v = w BY <1>1, <1>2, <2>1 DEF Inv, Addressed
  <2>2. CASE v # w BY <1>1, <1>2, <2>2 DEF Inv, Addressed
  <2>. QED BY <2>1, <2>2
<1>. QED BY <1>2 DEF Inv, Addressed

LEMMA RefuseInv ==
    ASSUME Inv, NEW w \in Services, TaskRefuse(w)
    PROVE  Inv'
<1> USE DEF Inv, TaskRefuse, TaskTakes
<1>1. /\ queue' \in [Services -> Seq(Messages)]
      /\ \A v \in Services : v # w => queue'[v] = queue[v]
  BY PopFacts
<1>2. TypeOK' BY <1>1 DEF TypeOK
<1>3. OneOutput' /\ FlashOwned' BY DEF OneOutput, FlashOwned
<1>4. LeftoversLate' BY LatePopped
<1>5. NothingMissing' BY <1>1 DEF NothingMissing, Uploading
<1>6. \A v \in Senders : Waiting(v) => queue'[v] = queue[v] BY <1>1
<1>7. OneInFlight' BY <1>6 DEF OneInFlight, WaitedFor, Foreign
<1>8. AnswerComing' BY <1>6 DEF AnswerComing, Served
<1>9. Addressed' BY AddressedPopped
<1>. QED BY <1>2, <1>3, <1>4, <1>5, <1>7, <1>8, <1>9

\* A part of the image goes from the head of the queue behind what was written.
LEMMA WriteInv ==
    ASSUME Inv, OtaWrite
    PROVE  Inv'
<1> DEFINE k == Head(queue["OTA"]).kind
           n == Len(queue["OTA"])
<1> USE DEF Inv, OtaWrite, TaskTakes
<1>1. /\ queue' \in [Services -> Seq(Messages)]
      /\ \A v \in Services : v # "OTA" => queue'[v] = queue[v]
      /\ Len(queue'["OTA"]) = n - 1 /\ n \in Nat
      /\ Head(queue["OTA"]) = queue["OTA"][1] /\ 1 \in DOMAIN queue["OTA"]
      /\ Head(queue["OTA"]) \in Messages
      /\ DOMAIN queue'["OTA"] = 1 .. n - 1
      /\ \A i \in DOMAIN queue'["OTA"] :
            i + 1 \in DOMAIN queue["OTA"] /\ queue'["OTA"][i] = queue["OTA"][i + 1]
  BY PopFacts
<1>2. k \in Kinds /\ k = queue["OTA"][1].kind BY <1>1 DEF Messages
<1>3. flash' = Append(flash, k) /\ flash \in Seq(Kinds) BY DEF TypeOK
<1> HIDE DEF k, n
<1>4. /\ flash' \in Seq(Kinds) /\ Len(flash') = Len(flash) + 1 /\ Len(flash) \in Nat
      /\ DOMAIN flash = 1 .. Len(flash) /\ DOMAIN flash' = 1 .. Len(flash) + 1
      /\ flash'[Len(flash) + 1] = k /\ flash' # <<>>
      /\ \A i \in DOMAIN flash : flash'[i] = flash[i]
  BY <1>2, <1>3, AppendTyped
<1>5. TypeOK' BY <1>1, <1>4 DEF TypeOK
<1>6. OneOutput' BY DEF OneOutput
<1>7. FlashOwned' BY <1>4 DEF FlashOwned
<1>8. LeftoversLate' BY LatePopped
<1>9. NothingMissing'
  <2> SUFFICES ASSUME clean
               PROVE  /\ Len(heard) = Len(flash') + Len(queue'["OTA"])
                      /\ \A i \in DOMAIN flash' : heard[i] = flash'[i]
                      /\ \A i \in DOMAIN queue'["OTA"] :
                            heard[Len(flash') + i] = queue'["OTA"][i].kind
    BY DEF NothingMissing
  <2>1. /\ Len(heard) = Len(flash) + n
        /\ \A i \in DOMAIN flash : heard[i] = flash[i]
        /\ \A i \in DOMAIN queue["OTA"] : heard[Len(flash) + i] = queue["OTA"][i].kind
    BY DEF NothingMissing, Uploading, n
  <2>2. heard[Len(flash) + 1] = k BY <1>1, <1>2, <2>1
  <2>3. \A i \in DOMAIN flash' : i \in DOMAIN flash \/ i = Len(flash) + 1 BY <1>4
  <2>4. \A i \in DOMAIN flash' : heard[i] = flash'[i] BY <1>4, <2>1, <2>2, <2>3
  <2>5. ASSUME NEW i \in DOMAIN queue'["OTA"]
        PROVE  heard[Len(flash') + i] = queue'["OTA"][i].kind
    <3>1. Len(flash') + i = Len(flash) + (i + 1) BY <1>1, <1>4
    <3>2. heard[Len(flash) + (i + 1)] = queue["OTA"][i + 1].kind BY <1>1, <2>1
    <3>. QED BY <1>1, <3>1, <3>2
  <2>6. Len(heard) = Len(flash') + Len(queue'["OTA"]) BY <1>1, <1>4, <2>1
  <2>. QED BY <2>4, <2>5, <2>6
<1>10. \A v \in Senders : queue'[v] = queue[v] BY <1>1
<1>11. OneInFlight' BY <1>10 DEF OneInFlight, WaitedFor, Foreign
<1>12. AnswerComing' BY <1>10 DEF AnswerComing, Served
<1>13. Addressed' BY AddressedPopped
<1>. QED BY <1>5, <1>6, <1>7, <1>8, <1>9, <1>11, <1>12, <1>13

LEMMA EndInv ==
    ASSUME Inv, OtaEnd \/ OtaGiveBack
    PROVE  Inv'
<1> USE DEF Inv, TypeOK, OtaEnd, OtaGiveBack
<1>1. TypeOK'
  <2>1. task' \in [Services -> TaskPcs] OBVIOUS
  <2>2. /\ state' \in Services \cup {"Suspended", "ShortCircuit"}
        /\ abort' \in {"none", "assert", "bytes_received", "hardware", "update"}
        /\ boot' \in BOOLEAN
    OBVIOUS
  <2>3. UNCHANGED <<httpd, queue, outVars, buffers, handle, flash, history, bounds>>
    OBVIOUS
  <2>. QED BY <2>1, <2>2, <2>3
<1>2. OneOutput' BY DEF OneOutput
<1>3. LeftoversLate' BY DEF LeftoversLate, Attended
<1>4. FlashOwned' BY DEF FlashOwned, TaskTakes
<1>5. NothingMissing' BY DEF NothingMissing, Uploading
<1>6. OneInFlight'
  <2>1. \A v \in Services : Waiting(v)' <=> Waiting(v) OBVIOUS
  <2>2. UNCHANGED <<queue, front, answers, out, work, lost>> OBVIOUS
  <2>3. task'["OTA"] # "delay" BY DEF OneInFlight
  <2>4. state' = state \/ state = "OTA" OBVIOUS
  <2>5. abort' \in {"assert", "update", abort} OBVIOUS
  <2>. QED BY <2>1, <2>2, <2>3, <2>4, <2>5, SMTT(30) DEF OneInFlight, WaitedFor, Foreign
<1>7. AnswerComing' BY SMTT(30) DEF AnswerComing, OneInFlight, Served
<1>8. Addressed' BY DEF Addressed
<1>. QED BY <1>1, <1>2, <1>3, <1>4, <1>5, <1>6, <1>7, <1>8

\* A command is sent when nobody waits, unless it is lost.
LEMMA SendInv ==
    ASSUME Inv, NEW w \in Services, TaskSend(w)
    PROVE  Inv'
<1> DEFINE m == Head(queue[w])
<1> USE DEF Inv, TaskSend, Sends, TaskTakes
<1>1. /\ queue[w] \in Seq(Messages) /\ queue[w] # <<>> /\ m \in Messages
      /\ front \in Seq(Messages)
  BY QueueTyped, DomainOf DEF TypeOK
<1>2. front' = Append(front, m) OBVIOUS
<1> HIDE DEF m
<1>3. /\ front' \in Seq(Messages) /\ Len(front') = Len(front) + 1 /\ Len(front) \in Nat
      /\ DOMAIN front = 1 .. Len(front) /\ DOMAIN front' = 1 .. Len(front) + 1
      /\ front'[Len(front) + 1] = m /\ front' # <<>>
  BY <1>1, <1>2, AppendTyped
<1>4. TypeOK' BY <1>3 DEF TypeOK
<1>5. OneOutput' BY DEF OneOutput, TypeOK
<1>6. LeftoversLate' BY DEF LeftoversLate, Attended, TypeOK
<1>7. FlashOwned' BY DEF FlashOwned, TypeOK
<1>8. NothingMissing' BY DEF NothingMissing, Uploading, TypeOK
<1>9. Waiting(w)' /\ ~Waiting(w) /\ \A v \in Services : v # w => task'[v] = task[v]
  BY DEF TypeOK
<1>10. ASSUME ~lost'
       PROVE  /\ Served(w) /\ state = w /\ \A v \in Senders : ~Waiting(v)
              /\ front = <<>> /\ answers = <<>> /\ \A t \in Outs : out[t] # "busy"
  <2>1. ~lost /\ Served(w) /\ state = w BY <1>10 DEF Served
  <2>2. \A v \in Senders : ~Waiting(v) BY <1>9, <2>1 DEF OneInFlight
  <2>3. ~ \E n \in Messages : WaitedFor(n) BY <2>2 DEF WaitedFor
  <2>4. front = <<>>
    <3> SUFFICES ASSUME front # <<>> PROVE FALSE
      OBVIOUS
    <3>1. 1 \in DOMAIN front /\ front[1] \in Messages BY <1>1, DomainOf, ElementTyped
    <3>. QED BY <2>1, <2>3, <3>1 DEF OneInFlight
  <2>5. answers = <<>>
    <3> SUFFICES ASSUME answers # <<>> PROVE FALSE
      OBVIOUS
    <3>2. answers \in Seq(Answers) BY DEF TypeOK
    <3>3. 1 \in DOMAIN answers BY <3>2, DomainOf
    <3>4. answers[1] \in Answers BY <3>2, <3>3, ElementTyped
    <3>1. 1 \in DOMAIN answers /\ answers[1].to \in Messages BY <3>3, <3>4 DEF Answers
    <3>. QED BY <2>1, <2>3, <3>1 DEF OneInFlight
  <2>6. \A t \in Outs : out[t] # "busy" BY <2>1, <2>2 DEF OneInFlight, WaitedFor
  <2>. QED BY <2>1, <2>2, <2>4, <2>5, <2>6
<1>11. OneInFlight'
  <2>1. ~Waiting("OTA")' /\ task'["OTA"] # "delay" BY <1>9 DEF OneInFlight
  <2>2. \A v \in Senders : Waiting(v)' => queue'[v] # <<>>
    BY <1>1, <1>9 DEF OneInFlight
  <2>3. ASSUME ~lost'
        PROVE  /\ \A v \in Senders : Waiting(v)' => v = w
               /\ state' \in {w, "ShortCircuit"} /\ Len(front') + Len(answers') <= 1
               /\ \A i \in DOMAIN front' : WaitedFor(front[i])'
               /\ DOMAIN answers' = {} /\ \A t \in Outs : out'[t] # "busy"
               /\ \A t \in Outs : AtWork(t)' => t = OutOf[w]
               /\ abort' # "bytes_received"
    <3>5. \A t \in Outs : AtWork(t)' => t = OutOf[w]
      <4>1. ~cleared BY <2>3 DEF OneOutput
      <4>. QED BY <1>10, <2>3, <4>1 DEF OneOutput
    <3>6. abort' # "bytes_received" BY <2>3 DEF OneInFlight
    <3>1. Len(front') = 1 /\ Len(answers') = 0 /\ DOMAIN answers' = {}
      BY <1>3, <1>10, <2>3, EmptyTyped
    <3>2. \A i \in DOMAIN front' : front'[i] = m BY <1>3, <1>10, <2>3, EmptyTyped
    <3>3. w \in Senders /\ m = Head(queue'[w]) BY DEF m
    <3>4. \A i \in DOMAIN front' : WaitedFor(front[i])'
      BY <1>9, <3>2, <3>3 DEF WaitedFor
    <3>. QED BY <1>9, <1>10, <2>3, <3>1, <3>4, <3>5, <3>6
  <2>. QED BY <2>1, <2>2, <2>3 DEF OneInFlight
<1>13. Addressed' BY DEF Addressed
<1>12. AnswerComing'
  <2> SUFFICES ASSUME ~lost', NEW v \in Senders, Waiting(v)'
               PROVE  Served(v)' /\ front' # <<>>
    BY DEF AnswerComing
  <2>1. v = w BY <1>9, <1>10
  <2>2. Served(w) BY <1>10
  <2>. QED BY <1>3, <2>1, <2>2 DEF Served
<1>. QED BY <1>4, <1>5, <1>6, <1>7, <1>8, <1>11, <1>12, <1>13

\* The answer is that to the command the service waits for, from its low-level task.
LEMMA AnswerIsRight ==
    ASSUME Inv, NEW w \in Senders, task[w] = "receive", answers # <<>>, ~lost
    PROVE  Head(answers).to = Head(queue[w]) /\ Serves[Head(answers).by] = w
<1>1. answers \in Seq(Answers) BY DEF Inv, TypeOK
<1>2. 1 \in DOMAIN answers /\ Head(answers) = answers[1] BY <1>1, DomainOf
<1>3. PICK v \in Senders : Waiting(v) /\ answers[1].to = Head(queue[v])
  BY <1>2 DEF Inv, OneInFlight, WaitedFor
<1>4. v = w BY <1>3 DEF Inv, OneInFlight
<1>5. Head(queue[w]).from = w
  <2>1. queue[w] \in Seq(Messages) /\ queue[w] # <<>>
    BY QueueTyped DEF Inv, OneInFlight
  <2>. QED BY <2>1, DomainOf DEF Inv, Addressed
<1>6. Serves[answers[1].by] = answers[1].to.from BY <1>2 DEF Inv, OneInFlight
<1>. QED BY <1>2, <1>3, <1>4, <1>5, <1>6

\* The assert on the length fails only after something was lost.
LEMMA TaskAssertInv ==
    ASSUME Inv, TaskReceive("MDUZsu"), Head(answers).by # "mdu"
    PROVE  Inv'
<1> USE DEF Inv, TaskReceive
<1>1. /\ abort' = "bytes_received" /\ task["MDUZsu"] = "receive" /\ answers # <<>>
      /\ UNCHANGED <<state, httpd, task, queue, outVars, buffers, flashVars, history,
                     bounds>>
  OBVIOUS
<1>2. lost
  <2> SUFFICES ASSUME ~lost PROVE FALSE
    BY DEF TypeOK
  <2>1. Serves[Head(answers).by] = "MDUZsu" BY <1>1, AnswerIsRight
  <2>2. answers \in Seq(Answers) BY DEF TypeOK
  <2>3. Head(answers).by \in Outs
    <3>1. Head(answers) \in Answers BY <1>1, <2>2, DomainOf
    <3>. QED BY <3>1 DEF Answers
  <2>. QED BY <2>1, <2>3
<1>3. TypeOK' BY <1>1 DEF TypeOK
<1>4. OneOutput' /\ LeftoversLate' BY <1>1 DEF OneOutput, LeftoversLate, Attended
<1>5. FlashOwned' /\ NothingMissing' BY <1>1 DEF FlashOwned, NothingMissing, Uploading
<1>6. Addressed' /\ OneInFlight' /\ AnswerComing'
  BY <1>1, <1>2 DEF Addressed, OneInFlight, WaitedFor, AnswerComing
<1>. QED BY <1>3, <1>4, <1>5, <1>6

LEMMA TaskReceiveInv ==
    ASSUME Inv, NEW w \in Services, TaskReceive(w), ~(w = "MDUZsu" /\ Head(answers).by # "mdu")
    PROVE  Inv'
<1> USE DEF Inv, TaskReceive
<1>0. /\ task[w] = "receive" /\ task' = [task EXCEPT ![w] = "loop"] /\ Pop(w)
      /\ answers # <<>> /\ answers' = Tail(answers)
      /\ UNCHANGED <<state, httpd, outVars, front, flashVars, history, bounds, abort>>
  OBVIOUS
<1>1. w \in Senders /\ Waiting(w) /\ queue[w] # <<>> BY DEF OneInFlight
<1>2. /\ queue' \in [Services -> Seq(Messages)]
      /\ \A v \in Services : v # w => queue'[v] = queue[v]
      /\ \A i \in DOMAIN queue'[w] :
            i + 1 \in DOMAIN queue[w] /\ queue'[w][i] = queue[w][i + 1]
  BY <1>0, <1>1, PopFacts
<1>3. /\ answers' \in Seq(Answers) /\ Len(answers') = Len(answers) - 1
      /\ Len(answers) \in Nat /\ Len(front) \in Nat
      /\ front \in Seq(Messages) /\ Len(front) \in Nat /\ DOMAIN front = 1 .. Len(front)
  BY <1>0, TailTyped, DomainOf DEF TypeOK
<1>4. task' \in [Services -> TaskPcs] /\ task'[w] = "loop"
      /\ \A v \in Services : v # w => task'[v] = task[v]
  BY <1>0 DEF TypeOK
<1>5. TypeOK' BY <1>0, <1>2, <1>3, <1>4 DEF TypeOK
<1>6. OneOutput' BY <1>0 DEF OneOutput
<1>7. LeftoversLate' BY <1>0, <1>2, <1>4 DEF LeftoversLate, Attended
<1>8. FlashOwned' BY <1>0, <1>1, <1>4 DEF FlashOwned
<1>9. NothingMissing' BY <1>0, <1>1, <1>2, <1>4 DEF NothingMissing, Uploading
<1>10. ASSUME ~lost
       PROVE  /\ \A v \in Senders : Waiting(v) => v = w
              /\ front = <<>> /\ DOMAIN answers' = {} /\ Len(answers') = 0
              /\ \A t \in Outs : out[t] # "busy"
  <2>1. \A v \in Senders : Waiting(v) => v = w BY <1>1, <1>10 DEF OneInFlight
  <2>2. Len(front) + Len(answers) <= 1 BY <1>10 DEF OneInFlight
  <2>3. Len(answers) # 0
    <3>1. answers \in Seq(Answers) BY DEF TypeOK
    <3>. QED BY <1>0, <3>1, DomainOf
  <2>4. Len(front) = 0 /\ Len(answers') = 0 BY <1>3, <2>2, <2>3
  <2>5. front = <<>> /\ DOMAIN answers' = {} BY <1>3, <2>4, DomainOf
  <2>6. \A t \in Outs : out[t] # "busy" BY <1>0, <1>10 DEF OneInFlight
  <2>. QED BY <2>1, <2>4, <2>5, <2>6
<1>11. OneInFlight'
  <2>1. ~Waiting("OTA")' /\ task'["OTA"] # "delay" BY <1>1, <1>4 DEF OneInFlight
  <2>2. \A v \in Senders : Waiting(v)' => queue'[v] # <<>>
    BY <1>2, <1>4 DEF OneInFlight
  <2>3. ASSUME ~lost'
        PROVE  /\ \A v \in Senders : ~Waiting(v)'
               /\ Len(front') + Len(answers') <= 1
               /\ DOMAIN front' = {} /\ DOMAIN answers' = {}
               /\ \A t \in Outs : out'[t] # "busy"
               /\ abort' # "bytes_received"
    <3>1. Len(front') = 0 /\ DOMAIN front' = {} BY <1>0, <1>10, <2>3, EmptyTyped
    <3>2. ~lost BY <1>0, <2>3
    <3>3. \A v \in Senders : ~Waiting(v)' BY <1>4, <1>10, <3>2
    <3>4. /\ Len(answers') = 0 /\ DOMAIN answers' = {}
          /\ \A t \in Outs : out'[t] # "busy"
      BY <1>0, <1>10, <3>2
    <3>5. abort' # "bytes_received" BY <1>0, <3>2 DEF OneInFlight
    <3>. QED BY <3>1, <3>3, <3>4, <3>5
  <2>. QED BY <2>1, <2>2, <2>3 DEF OneInFlight
<1>12. AnswerComing' BY <1>0, <1>4, <1>10 DEF AnswerComing
<1>13. Addressed' BY <1>0, <1>1, AddressedPopped
<1>. QED BY <1>5, <1>6, <1>7, <1>8, <1>9, <1>11, <1>12, <1>13

-----------------------------------------------------------------------------
(* The low-level tasks.                                                    *)

LEMMA OutSwitchInv ==
    ASSUME Inv, NEW t \in Outs, OutSwitch(t) \/ OutPark(t), out' # out
    PROVE  Inv'
<1> USE DEF Inv, TypeOK
<1>1. PICK from \in {"switch", "parking"}, to \in {"run", "parking", "suspended"} :
         /\ OutGoto(t, from, to)
         /\ from = "switch" => to = IF state = Serves[t] THEN "run" ELSE "parking"
         /\ from = "parking" => to = "suspended"
         /\ to = "run" => /\ \A u \in Outs \ {t} : ~Driving(u)
                          /\ task[Serves[t]] # "switch"
         /\ UNCHANGED <<state, httpd, task, queue, work, buffers, flashVars, history,
                        bounds, abort>>
  <2>1. CASE OutSwitch(t) BY <2>1 DEF OutSwitch
  <2>2. CASE OutPark(t) BY <2>2 DEF OutPark
  <2>. QED BY <2>1, <2>2
<1>2. TypeOK' BY <1>1
<1>3. OneOutput' BY <1>1 DEF OneOutput
<1>4. LeftoversLate' BY <1>1 DEF LeftoversLate, Attended
<1>5. FlashOwned' BY <1>1 DEF FlashOwned
<1>6. NothingMissing' BY <1>1 DEF NothingMissing, Uploading
<1>7. OneInFlight'
  <2>1. ASSUME ~lost, NEW u \in Outs, NEW w \in Senders, AtWork(u)', Waiting(w)
        PROVE  u = OutOf[w]
    <3>1. CASE AtWork(u) BY <2>1, <3>1 DEF OneInFlight
    <3>2. CASE ~AtWork(u)
      <4>1. u = t /\ state = Serves[t] BY <1>1, <2>1, <3>2
      <4>2. state \in {w, "ShortCircuit"} BY <2>1 DEF OneInFlight
      <4>. QED BY <4>1, <4>2
    <3>. QED BY <3>1, <3>2
  <2>2. \A u \in Outs : out'[u] = "busy" => out[u] = "busy" BY <1>1
  <2>3. UNCHANGED <<state, httpd, task, queue, work, buffers, lost, abort>> BY <1>1
  <2>. QED BY <2>1, <2>2, <2>3 DEF OneInFlight, WaitedFor, Foreign
<1>8. AnswerComing'
  <2>1. \A w \in Senders : Served(w) => Served(w)' BY <1>1, SMTT(30) DEF Served
  <2>2. \A u \in Outs : out[u] = "busy" => out'[u] = "busy" BY <1>1
  <2>3. UNCHANGED <<state, task, queue, front, answers, lost, cuts>> BY <1>1
  <2>. QED BY <2>1, <2>2, <2>3 DEF AnswerComing
<1>9. Addressed' BY <1>1 DEF Addressed
<1>. QED BY <1>2, <1>3, <1>4, <1>5, <1>6, <1>7, <1>8, <1>9

\* The timer is in use: errors were cleared with the other low-level task at work.
LEMMA OutHardwareInv ==
    ASSUME Inv, abort = "none", NEW t \in Outs, OutSwitch(t) \/ OutPark(t), out' = out
    PROVE  Inv'
<1> USE DEF Inv
<1>1. CASE abort' = "hardware"
  <2>1. /\ state = Serves[t] /\ \E u \in Outs \ {t} : Driving(u)
        /\ UNCHANGED <<state, httpd, task, queue, outVars, buffers, flashVars, history,
                       bounds>>
    BY <1>1 DEF OutSwitch, OutPark
  <2>2. cleared BY <2>1 DEF OneOutput, TypeOK
  <2>3. TypeOK' BY <1>1, <2>1 DEF TypeOK
  <2>4. OneOutput' /\ LeftoversLate' BY <2>1 DEF OneOutput, LeftoversLate, Attended
  <2>5. FlashOwned' /\ NothingMissing'
    BY <1>1, <2>1, <2>2 DEF FlashOwned, NothingMissing, Uploading
  <2>6. lost BY <2>2 DEF OneOutput
  <2>7. Addressed' /\ OneInFlight' /\ AnswerComing'
    BY <2>1, <2>6 DEF Addressed, OneInFlight, AnswerComing
  <2>. QED BY <2>3, <2>4, <2>5, <2>7
<1>2. CASE abort' # "hardware"
  <2>1. PICK from, to : OutGoto(t, from, to) /\ from \in {"switch", "parking"}
                        /\ to \in {"run", "parking", "suspended"} /\ from # to
    <3>1. CASE OutSwitch(t) BY <1>2, <3>1 DEF OutSwitch
    <3>2. CASE OutPark(t) BY <3>2 DEF OutPark
    <3>. QED BY <3>1, <3>2
  <2>2. out'[t] = to /\ out[t] = from BY <2>1 DEF TypeOK
  <2>. QED BY <2>1, <2>2
<1>. QED BY <1>1, <1>2

\* The low-level task which is at work serves whoever waits.
LEMMA ServesWaiting ==
    ASSUME Inv, ~lost, NEW t \in Outs, AtWork(t), NEW w \in Senders, Waiting(w)
    PROVE  t = OutOf[w] /\ (cuts = 0 => state = w) /\ ~cleared
BY DEF Inv, OneOutput, OneInFlight

\* Who is at a message which is waited for is the task it is for.
LEMMA OwnMessage ==
    ASSUME Inv, ~lost, NEW t \in Outs, AtWork(t), NEW m \in Messages, WaitedFor(m)
    PROVE  m.from = Serves[t]
<1>1. PICK w \in Senders : Waiting(w) /\ m = Head(queue[w]) BY DEF WaitedFor
<1>2. queue[w] \in Seq(Messages) /\ queue[w] # <<>>
  BY <1>1, QueueTyped DEF Inv, OneInFlight
<1>3. m.from = w BY <1>1, <1>2, DomainOf DEF Inv, Addressed
<1>. QED BY <1>1, <1>3, ServesWaiting

LEMMA OutTakeInv ==
    ASSUME Inv, NEW t \in Outs, OutTake(t)
    PROVE  Inv'
<1> USE DEF Inv, OutTake
<1>1. /\ Head(front) \in Messages /\ front' \in Seq(Messages)
      /\ Len(front') = Len(front) - 1 /\ Len(front) \in Nat
      /\ Head(front) = front[1] /\ 1 \in DOMAIN front
  BY TailTyped DEF TypeOK
<1>2. /\ out' \in [Outs -> OutPcs] /\ out'[t] = "busy" /\ work' \in [Outs -> Messages]
      /\ work'[t] = front[1]
      /\ \A u \in Outs : u # t => out'[u] = out[u] /\ work'[u] = work[u]
  BY <1>1 DEF TypeOK
<1>3. TypeOK' BY <1>1, <1>2 DEF TypeOK
<1>4. OneOutput' BY <1>2 DEF OneOutput
<1>5. LeftoversLate' BY DEF LeftoversLate, Attended
<1>6. FlashOwned' /\ NothingMissing' BY DEF FlashOwned, NothingMissing, Uploading
<1>7. ASSUME ~lost
      PROVE  /\ front' = <<>> /\ answers = <<>> /\ WaitedFor(front[1])
             /\ front[1].from = Serves[t] /\ \A u \in Outs : out[u] # "busy"
  <2>1. /\ Len(front) + Len(answers) <= 1 /\ WaitedFor(front[1])
        /\ \A u \in Outs : out[u] # "busy"
    BY <1>1, <1>7 DEF OneInFlight
  <2>2. Len(answers) \in Nat /\ Len(front) # 0 BY DomainOf DEF TypeOK
  <2>3. Len(answers) = 0 /\ Len(front') = 0 BY <1>1, <2>1, <2>2
  <2>4. front[1].from = Serves[t] BY <1>1, <1>7, <2>1, OwnMessage
  <2>. QED BY <1>1, <2>1, <2>3, <2>4, DomainOf DEF TypeOK
<1>8. OneInFlight'
  <2>1. ASSUME ~lost
        PROVE  /\ Len(front') + Len(answers') <= 1
               /\ DOMAIN front' = {} /\ DOMAIN answers' = {}
               /\ \A u \in Outs : out'[u] = "busy" => WaitedFor(work[u])' /\ ~Foreign(u)'
               /\ \A u \in Outs : AtWork(u)' <=> AtWork(u)
    <3>1. Len(front') = 0 /\ Len(answers') = 0 /\ DOMAIN front' = {} /\ DOMAIN answers' = {}
      BY <1>7, <2>1, EmptyTyped
    <3>2. ASSUME NEW u \in Outs, out'[u] = "busy" PROVE WaitedFor(work[u])' /\ ~Foreign(u)'
      <4>1. u = t BY <1>2, <1>7, <2>1, <3>2
      <4>. QED BY <1>2, <1>7, <2>1, <4>1 DEF WaitedFor, Foreign
    <3>3. \A u \in Outs : AtWork(u)' <=> AtWork(u) BY <1>2
    <3>4. Len(front') + Len(answers') <= 1 BY <3>1
    <3>. QED BY <3>1, <3>2, <3>3, <3>4, Zenon
  <2>2. UNCHANGED <<state, task, queue, lost, abort>> OBVIOUS
  <2>3. ~lost => front' = <<>> /\ answers' = <<>> BY <1>7
  <2>. QED BY <2>1, <2>2, <2>3 DEF OneInFlight
<1>9. AnswerComing'
  <2> SUFFICES ASSUME cuts = 0, ~lost, NEW w \in Senders, Waiting(w)
               PROVE  Served(w)' /\ out'[OutOf[w]] = "busy"
    BY DEF AnswerComing
  <2>1. state = w /\ t = OutOf[w] BY ServesWaiting
  <2>. QED BY <1>2, <2>1 DEF Served
<1>10. Addressed' BY DEF Addressed
<1>. QED BY <1>3, <1>4, <1>5, <1>6, <1>8, <1>9, <1>10

\* The answer goes where the message was: the message is the one which is waited for.
LEMMA OutAnswerInv ==
    ASSUME Inv, NEW t \in Outs, OutAnswer(t)
    PROVE  Inv'
<1> DEFINE m == work[t]
           a == Answer(t)
<1> USE DEF Inv, OutAnswer
<1>1. m \in Messages /\ a \in Answers /\ a.to = m /\ a.by = t /\ answers \in Seq(Answers)
  BY DEF TypeOK, Answer, Answers
<1>2. \/ answers' = answers /\ Mute(t)
      \/ answers' = Append(answers, a)
  OBVIOUS
<1>a. Foreign(t) <=> m.from # Serves[t] BY DEF Foreign
<1>b. Mute(t) => m.kind = "silent" \/ Foreign(t) BY DEF Mute
<1> HIDE DEF m, a
<1>3. answers' \in Seq(Answers) BY <1>1, <1>2, AppendTyped
<1>4. /\ out' \in [Outs -> OutPcs] /\ out[t] = "busy" /\ out'[t] \in {"run", "reset"}
      /\ work' \in [Outs -> Messages]
      /\ \A u \in Outs : u # t => out'[u] = out[u] /\ work'[u] = work[u]
  BY NothingIsMessage DEF TypeOK
<1>c. UNCHANGED <<state, httpd, task, queue, front, flashVars, history, bounds, abort>>
  OBVIOUS
<1>5. TypeOK' BY <1>3, <1>4, <1>c DEF TypeOK
<1>6. OneOutput' BY <1>4, <1>c DEF OneOutput
<1>7. LeftoversLate' BY <1>c DEF LeftoversLate, Attended
<1>8. FlashOwned' /\ NothingMissing' BY <1>c DEF FlashOwned, NothingMissing, Uploading
<1>9. ASSUME ~lost
      PROVE  /\ front = <<>> /\ answers = <<>> /\ WaitedFor(m) /\ m.from = Serves[t]
             /\ \A u \in Outs : out'[u] # "busy"
  <2>1. front = <<>> /\ answers = <<>> /\ WaitedFor(m) /\ ~Foreign(t)
    BY <1>4, <1>9 DEF OneInFlight, m
  <2>2. \A u \in Outs : u # t => out[u] # "busy" BY <1>4 DEF OneOutput
  <2>. QED BY <1>4, <1>a, <2>1, <2>2
<1>10. ASSUME ~lost
       PROVE  \/ answers' = <<>> /\ m.kind = "silent"
              \/ Len(answers') = 1 /\ DOMAIN answers' = {1} /\ answers'[1] = a
  <2>1. CASE answers' = answers /\ Mute(t) BY <1>a, <1>b, <1>9, <1>10, <2>1
  <2>2. CASE answers' = Append(answers, a)
    <3>1. Len(answers) = 0 BY <1>9, <1>10, EmptyTyped
    <3>2. /\ Len(answers') = Len(answers) + 1 /\ DOMAIN answers' = 1 .. Len(answers) + 1
          /\ answers'[Len(answers) + 1] = a
      BY <1>1, <2>2, AppendTyped
    <3>. QED BY <3>1, <3>2
  <2>. QED BY <1>2, <2>1, <2>2
<1>11. OneInFlight'
  <2>1. ASSUME ~lost
        PROVE  /\ Len(front') + Len(answers') <= 1 /\ DOMAIN front' = {}
               /\ \A i \in DOMAIN answers' :
                     WaitedFor(answers[i].to)' /\ Serves[answers'[i].by] = answers'[i].to.from
               /\ \A u \in Outs : out'[u] # "busy"
               /\ \A u \in Outs : AtWork(u)' <=> AtWork(u)
    <3>1. Len(front') = 0 /\ DOMAIN front' = {} BY <1>9, <1>c, <2>1, EmptyTyped
    <3>4. \A u \in Outs : AtWork(u)' <=> AtWork(u) BY <1>4
    <3>2. CASE answers' = <<>>
      BY <1>9, <2>1, <3>1, <3>2, <3>4, EmptyTyped
    <3>3. CASE Len(answers') = 1 /\ DOMAIN answers' = {1} /\ answers'[1] = a
      <4>1. \A i \in DOMAIN answers' :
               WaitedFor(answers[i].to)' /\ Serves[answers'[i].by] = answers'[i].to.from
        BY <1>1, <1>9, <1>c, <2>1, <3>3 DEF WaitedFor
      <4>. QED BY <1>9, <2>1, <3>1, <3>3, <3>4, <4>1
    <3>. QED BY <1>10, <2>1, <3>2, <3>3
  <2>. QED BY <1>c, <2>1 DEF OneInFlight
<1>12. AnswerComing'
  <2> SUFFICES ASSUME cuts = 0, ~lost, NEW w \in Senders, Waiting(w),
                      Head(queue[w]).kind # "silent"
               PROVE  answers' # <<>>
    BY <1>c DEF AnswerComing
  <2>1. m = Head(queue[w]) BY <1>9 DEF OneInFlight, WaitedFor
  <2>2. Len(answers') = 1 BY <1>10, <2>1
  <2>. QED BY <2>2, EmptyTyped
<1>13. Addressed' BY <1>c DEF Addressed
<1>. QED BY <1>5, <1>6, <1>7, <1>8, <1>11, <1>12, <1>13

LEMMA OutLeaveInv ==
    ASSUME Inv, NEW t \in Outs, OutLeave(t)
    PROVE  Inv'
<1> USE DEF Inv, OutLeave
<1>1. /\ out' \in [Outs -> OutPcs] /\ out[t] = "run" /\ out'[t] = "reset"
      /\ \A u \in Outs : u # t => out'[u] = out[u]
  BY DEF TypeOK
<1>2. front' \in Seq(Messages) /\ DOMAIN front' = {} /\ Len(front') = 0 BY EmptyTyped
<1>3. TypeOK'
  <2>1. lost' \in BOOLEAN
    <3>1. (lost \/ front # <<>>) \in BOOLEAN OBVIOUS
    <3>. QED BY <3>1
  <2>. QED BY <1>1, <1>2, <2>1 DEF TypeOK
<1>4. OneOutput' BY <1>1 DEF OneOutput
<1>5. LeftoversLate' BY DEF LeftoversLate, Attended
<1>6. FlashOwned' /\ NothingMissing' BY DEF FlashOwned, NothingMissing, Uploading
<1>7. ~lost' => ~lost /\ front = <<>> /\ front' = <<>> OBVIOUS
<1>8. OneInFlight' BY <1>1, <1>7 DEF OneInFlight, WaitedFor, Foreign
<1>10. Addressed' BY DEF Addressed
<1>9. AnswerComing'
  <2> SUFFICES ASSUME cuts = 0, ~lost, front = <<>>, NEW w \in Senders, Waiting(w),
                      Head(queue[w]).kind # "silent"
               PROVE  answers # <<>>
    BY <1>7 DEF AnswerComing
  <2>1. t = OutOf[w] BY <1>1, ServesWaiting
  <2>. QED BY <1>1, <2>1 DEF AnswerComing
<1>. QED BY <1>3, <1>4, <1>5, <1>6, <1>8, <1>9, <1>10

\* Nobody waits, or the command is lost.
LEMMA OutResetInv ==
    ASSUME Inv, abort = "none", NEW t \in Outs, OutReset(t)
    PROVE  Inv'
<1> USE DEF Inv, OutReset
<1>1. /\ out' \in [Outs -> OutPcs] /\ out[t] = "reset" /\ out'[t] = "switch"
      /\ \A u \in Outs : u # t => out'[u] = out[u]
  BY DEF TypeOK
<1>2. /\ front' \in Seq(Messages) /\ DOMAIN front' = {} /\ Len(front') = 0
      /\ answers' \in Seq(Answers) /\ DOMAIN answers' = {} /\ Len(answers') = 0
  BY EmptyTyped
<1>3. TypeOK'
  <2>1. lost' \in BOOLEAN
    <3>1. (cleared \/ \E w \in Senders : task[w] \in {"sent", "receive"}) \in BOOLEAN OBVIOUS
    <3>. QED BY <3>1
  <2>2. state' \in Services \cup {"Suspended", "ShortCircuit"} BY DEF TypeOK
  <2>. QED BY <1>1, <1>2, <2>1, <2>2 DEF TypeOK
<1>4. ~cleared => /\ \A u \in Outs : u # t => ~AtWork(u)
                  /\ state \in {Serves[t], "ShortCircuit"} /\ task[Serves[t]] # "switch"
  BY <1>1 DEF OneOutput
<1>5. OneOutput'
  <2>1. \A u \in Outs : /\ Driving(u)' => Driving(u)
                        /\ AtWork(u)' => AtWork(u) /\ u # t
    BY <1>1
  <2>2. UNCHANGED <<cleared, cuts>> /\ (cleared => lost') OBVIOUS
  <2>. QED BY <1>4, <2>1, <2>2 DEF OneOutput
<1>6. cuts = 0 => ~cleared /\ state = Serves[t] /\ task[Serves[t]] # "switch"
  BY <1>4, SocketsAssumption DEF OneOutput, TypeOK
<1>7. LeftoversLate'
  <2> SUFFICES ASSUME cuts = 0, NEW w \in Services, ~Attended(w)'
               PROVE  ~Attended(w)
    BY DEF LeftoversLate
  <2>. QED BY <1>6 DEF Attended
<1>8. FlashOwned'
  <2>1. cuts = 0 /\ task["OTA"] \in {"loop", "closing"} => FALSE
    BY <1>6 DEF FlashOwned
  <2>. QED BY <2>1 DEF FlashOwned
<1>9. NothingMissing'
  <2>1. Uploading' => Uploading BY DEF Uploading
  <2>. QED BY <2>1 DEF NothingMissing
<1>10. ~lost' => ~cleared /\ \A w \in Senders : ~Waiting(w) OBVIOUS
<1>11. ~lost' => \A u \in Outs : out'[u] # "busy" BY <1>1, <1>4, <1>10
<1>12. OneInFlight' BY <1>2, <1>10, <1>11 DEF OneInFlight
<1>13. AnswerComing' BY <1>10 DEF AnswerComing
<1>14. Addressed' BY DEF Addressed
<1>. QED BY <1>3, <1>5, <1>7, <1>8, <1>9, <1>12, <1>13, <1>14

-----------------------------------------------------------------------------
(* The environment.                                                        *)

LEMMA ShortCircuitInv ==
    ASSUME Inv, ShortCircuit
    PROVE  Inv'
<1> USE DEF Inv, ShortCircuit
<1>1. cuts' \in 0..MaxCuts /\ cuts' # 0 BY SocketsAssumption DEF TypeOK
<1>2. TypeOK' BY <1>1 DEF TypeOK
<1>3. OneOutput' BY <1>1 DEF OneOutput
<1>4. LeftoversLate' BY <1>1 DEF LeftoversLate
<1>5. FlashOwned' BY <1>1, SocketsAssumption DEF FlashOwned, TypeOK
<1>6. NothingMissing' BY DEF NothingMissing, Uploading
<1>7. OneInFlight' BY DEF OneInFlight, WaitedFor, Foreign
<1>8. AnswerComing' BY <1>1 DEF AnswerComing
<1>9. Addressed' BY DEF Addressed
<1>. QED BY <1>2, <1>3, <1>4, <1>5, <1>6, <1>7, <1>8, <1>9

LEMMA PowerClearInv ==
    ASSUME Inv, PowerClear
    PROVE  Inv'
<1> USE DEF Inv, PowerClear
<1>1. cuts # 0 /\ cuts \in Nat BY SocketsAssumption DEF OneOutput, TypeOK
<1>2. TypeOK'
  <2>1. cleared' \in BOOLEAN
    <3>1. (cleared \/ \E t \in Outs : AtWork(t)) \in BOOLEAN OBVIOUS
    <3>. QED BY <3>1
  <2>2. lost' \in BOOLEAN
    <3>1. (\/ lost \/ cleared' \/ front # <<>> \/ answers # <<>>
           \/ \E w \in Senders : task[w] \in {"sent", "receive"}) \in BOOLEAN
      OBVIOUS
    <3>. QED BY <3>1
  <2>. QED BY <2>1, <2>2 DEF TypeOK
<1>3. OneOutput'
  <2>1. \A t \in Outs : (Driving(t)' <=> Driving(t)) /\ (AtWork(t)' <=> AtWork(t)) OBVIOUS
  <2>2. ~cleared' => \A t \in Outs : ~AtWork(t) OBVIOUS
  <2>3. cleared' => lost' OBVIOUS
  <2>4. cuts' > 0 BY <1>1
  <2>. QED BY <2>1, <2>2, <2>3, <2>4 DEF OneOutput
<1>4. LeftoversLate' BY <1>1 DEF LeftoversLate
<1>5. FlashOwned' BY <1>1 DEF FlashOwned
<1>6. NothingMissing' BY DEF NothingMissing, Uploading
<1>7. ~lost' => /\ ~lost /\ front = <<>> /\ answers = <<>>
                /\ \A w \in Senders : ~Waiting(w)
                /\ \A t \in Outs : out[t] # "busy"
  OBVIOUS
<1>9. OneInFlight' BY <1>7, EmptyTyped DEF OneInFlight
<1>10. AnswerComing' BY <1>1 DEF AnswerComing
<1>11. Addressed' BY DEF Addressed
<1>. QED BY <1>2, <1>3, <1>4, <1>5, <1>6, <1>9, <1>10, <1>11

LEMMA RestartInv ==
    ASSUME Inv, Restart
    PROVE  Inv'
<1> USE DEF Inv, Restart
<1>1. TypeOK'
  <2>1. httpd' \in [pc : {"idle", "push"}, w : Services, m : Messages]
    BY NothingIsMessage DEF Idle
  <2>2. /\ task' \in [Services -> TaskPcs] /\ queue' \in [Services -> Seq(Messages)]
        /\ out' \in [Outs -> OutPcs] /\ work' \in [Outs -> Messages]
    BY NothingIsMessage, EmptyTyped
  <2>3. /\ front' \in Seq(Messages) /\ answers' \in Seq(Answers)
        /\ flash' \in Seq(Kinds) /\ heard' \in Seq(Kinds)
    BY EmptyTyped
  <2>4. UNCHANGED <<boot, bounds>> OBVIOUS
  <2>. QED BY <2>1, <2>2, <2>3, <2>4 DEF TypeOK
<1>2. OneOutput' /\ LeftoversLate' BY DEF OneOutput, LeftoversLate
<1>3. FlashOwned' /\ NothingMissing' BY EmptyTyped DEF FlashOwned, NothingMissing, Uploading
<1>4. Addressed' /\ OneInFlight' /\ AnswerComing'
  BY EmptyTyped DEF Addressed, Idle, NoMessage, OneInFlight, AnswerComing
<1>. QED BY <1>1, <1>2, <1>3, <1>4

LEMMA ServiceTaskInv ==
    ASSUME Inv, NEW w \in Services, ServiceTask(w)
    PROVE  Inv'
<1>1. CASE TaskSwitch(w) \/ TaskPark(w) \/ TaskWait(w) BY <1>1, SwitchInv
<1>2. CASE TaskTimeout(w) BY <1>2, CloseInv DEF TaskTimeout
<1>3. CASE TaskRefuse(w) BY <1>3, RefuseInv
<1>4. CASE TaskSend(w) BY <1>4, SendInv
<1>5. CASE TaskReceive(w)
  <2>1. CASE w = "MDUZsu" /\ Head(answers).by # "mdu" BY <1>5, <2>1, TaskAssertInv
  <2>2. CASE ~(w = "MDUZsu" /\ Head(answers).by # "mdu") BY <1>5, <2>2, TaskReceiveInv
  <2>. QED BY <2>1, <2>2
<1>6. CASE TaskClose(w) BY <1>6, CloseInv DEF TaskClose, TaskTakes
<1>7. CASE OtaWrite BY <1>7, WriteInv
<1>8. CASE OtaRefuse \/ OtaClose
  BY <1>8, CloseInv DEF OtaRefuse, OtaClose, Fail, TaskTakes
<1>9. CASE OtaEnd \/ OtaGiveBack BY <1>9, EndInv
<1>. QED BY <1>1, <1>2, <1>3, <1>4, <1>5, <1>6, <1>7, <1>8, <1>9 DEF ServiceTask

LEMMA StepInv == Inv /\ [Next]_vars => Inv'
<1> SUFFICES ASSUME Inv, [Next]_vars PROVE Inv'
  OBVIOUS
<1>1. ASSUME abort = "none", NEW w \in Services, NEW k \in Kinds, HttpdReceive(w, k)
      PROVE  Inv'
  BY <1>1, ReceiveInv
<1>2. CASE HttpdPush BY <1>2, PushInv
<1>3. ASSUME NEW w \in Services, ServiceTask(w) PROVE Inv'
  BY <1>3, ServiceTaskInv
<1>4. ASSUME abort = "none", NEW t \in Outs, OutTask(t) PROVE Inv'
  <2>1. CASE OutSwitch(t) \/ OutPark(t)
    BY <1>4, <2>1, OutSwitchInv, OutHardwareInv
  <2>2. CASE OutTake(t) BY <2>2, OutTakeInv
  <2>3. CASE OutAnswer(t) BY <2>3, OutAnswerInv
  <2>4. CASE OutLeave(t) BY <2>4, OutLeaveInv
  <2>5. CASE OutReset(t) BY <1>4, <2>5, OutResetInv
  <2>. QED BY <1>4, <2>1, <2>2, <2>3, <2>4, <2>5 DEF OutTask
<1>5. CASE ShortCircuit BY <1>5, ShortCircuitInv
<1>6. CASE PowerClear BY <1>6, PowerClearInv
<1>7. CASE Restart BY <1>7, RestartInv
<1>8. CASE UNCHANGED vars
  BY <1>8 DEF vars, Inv, TypeOK, OneOutput, LeftoversLate, Attended, FlashOwned,
     NothingMissing, Uploading, Addressed, OneInFlight, WaitedFor, Foreign,
     AnswerComing, Served
<1>. QED BY <1>1, <1>2, <1>3, <1>4, <1>5, <1>6, <1>7, <1>8 DEF Next, Works, Httpd

-----------------------------------------------------------------------------
(* The theorems.                                                           *)

\* The word, the queues, the buffers, the two kinds of tasks and the update agree as
\* Inv says, whoever of them gives up first.
THEOREM SpecInv == Spec => []Inv
<1>1. Init => Inv BY InitInv
<1>2. Inv /\ [Next]_vars => Inv' BY StepInv
<1>. QED BY <1>1, <1>2, PTL DEF Spec

\* A client gets the answer to its message, unless some service waits for the answer
\* to a command which was emptied from a buffer, or which it sent too late, or errors were
\* cleared with a low-level task at work.
THEOREM SpecRightAnswer == Spec => RightAnswer
<1>1. Inv => \A w \in Senders :
                TaskReceive(w) => Head(answers).to.no = InHand(w) \/ lost
  BY AnswerIsRight DEF InHand, TaskReceive
<1>2. Inv /\ [Next]_vars
        => [\A w \in Senders :
               TaskReceive(w) => Head(answers).to.no = InHand(w) \/ lost]_vars
  BY <1>1
<1>. QED BY <1>2, SpecInv, PTL DEF Spec, RightAnswer

\* An update whose parts came in order and alone, into an empty queue, is never refused
\* when it is closed: nothing of it was lost between the HTTP server and the flash.
THEOREM SpecGoodUploadBoots == Spec => GoodUploadBoots
<1>1. ASSUME Inv, OtaClose, heard = Append(Image, "close"), clean
      PROVE  FALSE
  <2> DEFINE q == queue["OTA"]
  <2>1. /\ q \in Seq(Messages) /\ q # <<>> /\ Head(q) = q[1] /\ 1 \in DOMAIN q
        /\ q[1].kind = "close" /\ flash \in Seq(Kinds) /\ Len(flash) \in Nat
        /\ DOMAIN flash = 1 .. Len(flash) /\ Len(q) \in Nat /\ Len(q) > 0
    BY <1>1, QueueTyped, DomainOf DEF Inv, TypeOK, OtaClose, TaskTakes
  <2>2. /\ Len(heard) = Len(flash) + Len(q)
        /\ \A i \in DOMAIN flash : heard[i] = flash[i]
        /\ heard[Len(flash) + 1] = "close"
    BY <1>1, <2>1 DEF Inv, NothingMissing, Uploading, OtaClose, TaskTakes
  <2>3. Len(heard) = 3 /\ heard[1] = "first" /\ heard[2] = "rest"
    <3>1. Image \in Seq({"first", "rest", "close"}) /\ Len(Image) = 2
          /\ Image[1] = "first" /\ Image[2] = "rest"
      BY DEF Image
    <3>. QED BY <1>1, <3>1, AppendTyped
  <2>4. Len(flash) = 2
    <3>1. Len(flash) \in 0..2 BY <2>1, <2>2, <2>3, SMTT(30)
    <3>. QED BY <2>2, <2>3, <3>1, SMTT(30)
  <2>5. flash = <<"first", "rest">>
    <3>1. flash[1] = "first" /\ flash[2] = "rest" BY <2>1, <2>2, <2>3, <2>4
    <3>. QED BY <2>1, <2>4, <3>1
  <2>6. handle BY <1>1, <2>5 DEF Inv, FlashOwned
  <2>. QED BY <1>1, <2>5, <2>6 DEF OtaClose, Image
<1>2. OtaEnd => boot' BY DEF OtaEnd
<1>3. Inv /\ [Next]_vars
        => [(OtaEnd \/ OtaClose) /\ heard = Append(Image, "close") /\ clean => boot']_vars
  BY <1>1, <1>2
<1>. QED BY <1>3, SpecInv, PTL DEF Spec, GoodUploadBoots

=============================================================================
