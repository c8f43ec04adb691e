-------------------------- MODULE DccService_proofs --------------------------
(***************************************************************************)
(* Proofs about dcc::Service.                                              *)
(*                                                                         *)
(* PomRequests, for every number of CVs, copies, calls and every capacity  *)
(* of the queues: the value a client gets is not older than its call, and  *)
(* nobody is told of a time-out when an answer had come.                   *)
(*                                                                         *)
(* DccScheduler, for every set of addresses, every buffer of at least four *)
(* bursts and every maximal priority: a call finds space for what it       *)
(* sends, and has a loco left to send for as long as none is deleted.      *)
(***************************************************************************)
EXTENDS PomRequests, DccScheduler, TLAPS

USE DEF track, history, bounds, Calls, Queueing

-----------------------------------------------------------------------------
(* Sequences.                                                              *)

LEMMA EmptyTyped ==
    ASSUME NEW S
    PROVE  <<>> \in Seq(S) /\ Len(<<>>) = 0 /\ DOMAIN <<>> = {}
OBVIOUS

LEMMA ElementTyped ==
    ASSUME NEW S, NEW s \in Seq(S), NEW i \in DOMAIN s
    PROVE  s[i] \in S
OBVIOUS

LEMMA DomainOf ==
    ASSUME NEW S, NEW s \in Seq(S)
    PROVE  Len(s) \in Nat /\ DOMAIN s = 1 .. Len(s) /\ (s # <<>> => 1 \in DOMAIN s)
OBVIOUS

LEMMA TailTyped ==
    ASSUME NEW S, NEW s \in Seq(S), s # <<>>
    PROVE  /\ Tail(s) \in Seq(S) /\ Len(Tail(s)) = Len(s) - 1 /\ Len(s) \in Nat
           /\ Head(s) = s[1] /\ 1 \in DOMAIN s
           /\ DOMAIN Tail(s) = 1 .. Len(s) - 1 /\ DOMAIN s = 1 .. Len(s)
           /\ \A i \in DOMAIN Tail(s) : i + 1 \in DOMAIN s /\ Tail(s)[i] = s[i + 1]
OBVIOUS

LEMMA AppendTyped ==
    ASSUME NEW S, NEW s \in Seq(S), NEW e \in S
    PROVE  /\ Append(s, e) \in Seq(S) /\ Len(Append(s, e)) = Len(s) + 1
           /\ Len(s) \in Nat /\ DOMAIN s = 1 .. Len(s)
           /\ DOMAIN Append(s, e) = 1 .. Len(s) + 1
           /\ Append(s, e)[Len(s) + 1] = e
           /\ \A i \in DOMAIN s : Append(s, e)[i] = s[i]
OBVIOUS

LEMMA MappedTyped ==
    ASSUME NEW S, NEW s \in Seq(S), NEW T, NEW f, DOMAIN f = DOMAIN s,
           f = [i \in DOMAIN f |-> f[i]], \A i \in DOMAIN s : f[i] \in T
    PROVE  f \in Seq(T) /\ Len(f) = Len(s)
<1>1. Len(s) \in Nat /\ DOMAIN s = 1 .. Len(s) BY DomainOf
<1>2. f \in [1 .. Len(s) -> T] BY <1>1
<1>. QED BY <1>1, <1>2

\* What TypeOK says of the elements.
LEMMA Elements ==
    ASSUME TypeOK
    PROVE  /\ MaxCalls \in Nat /\ calls \in Nat /\ calls <= MaxCalls
           /\ z21.cv \in Cvs /\ z21.no \in Calls /\ z21.old \in Calls
           /\ z21.left \in 0..Copies /\ Copies \in Nat
           /\ \A c \in Cvs : decoder[c] \in Calls
           /\ \A n \in heard : n \in Calls
           /\ \A i \in DOMAIN deque :
                 /\ deque[i] \in Requests
                 /\ deque[i].cv \in Cvs /\ deque[i].no \in Calls
                 /\ deque[i].old \in Calls /\ deque[i].unseen \in BOOLEAN
           /\ \A i \in DOMAIN rx :
                 rx[i].no \in Calls /\ rx[i].value \in Calls
           /\ \A i \in DOMAIN ring :
                 /\ ring[i] \in Packets
                 /\ ring[i].cv \in Cvs /\ ring[i].no \in Calls
           /\ \A i \in DOMAIN front :
                 /\ front[i] \in Packets
                 /\ front[i].cv \in Cvs /\ front[i].no \in Calls
<1>1. \A i \in DOMAIN deque : deque[i] \in Requests BY ElementTyped DEF TypeOK
<1>2. \A i \in DOMAIN rx : rx[i] \in Items BY ElementTyped DEF TypeOK
<1>3. /\ \A i \in DOMAIN ring : ring[i] \in Packets
      /\ \A i \in DOMAIN front : front[i] \in Packets
  BY ElementTyped DEF TypeOK
<1>4. \A i \in DOMAIN deque :
         /\ deque[i].cv \in Cvs /\ deque[i].no \in Calls
         /\ deque[i].old \in Calls /\ deque[i].unseen \in BOOLEAN
  BY <1>1 DEF Requests
<1>5. \A i \in DOMAIN rx :
         rx[i].no \in Calls /\ rx[i].value \in Calls
  BY <1>2 DEF Items
<1>6. /\ \A i \in DOMAIN ring : ring[i].cv \in Cvs /\ ring[i].no \in Calls
      /\ \A i \in DOMAIN front : front[i].cv \in Cvs /\ front[i].no \in Calls
  BY <1>3 DEF Packets
<1>7. /\ z21.cv \in Cvs /\ z21.no \in Calls /\ z21.old \in Calls
      /\ z21.left \in 0..Copies
  BY DEF TypeOK
<1>8. /\ MaxCalls \in Nat /\ Copies \in Nat /\ calls \in Nat /\ calls <= MaxCalls
      /\ \A c \in Cvs : decoder[c] \in Calls
      /\ \A n \in heard : n \in Calls
  BY PomAssumption DEF TypeOK
<1>. QED BY <1>1, <1>3, <1>4, <1>5, <1>6, <1>7, <1>8

-----------------------------------------------------------------------------
(* Every action keeps Inv.                                                 *)

LEMMA InitInv == Init => Inv
<1>. SUFFICES ASSUME Init PROVE Inv
  OBVIOUS
<1>1. AnyCv \in Cvs BY PomAssumption DEF AnyCv
<1>2. TypeOK
  <2>1. z21 \in [pc : {"idle", "send", "push", "delay"}, kind : {"read", "write"},
                 cv : Cvs, no : Calls, old : Calls, left : 0..Copies]
    BY <1>1, PomAssumption DEF Init, Idle
  <2>2. /\ front \in Seq(Packets) /\ ring \in Seq(Packets) /\ rx \in Seq(Items)
        /\ Len(rx) <= RxCapacity
    BY EmptyTyped, PomAssumption DEF Init
  <2>3. deque \in Seq(Requests) /\ Len(deque) = 0 /\ Len(front) = 0
    BY EmptyTyped DEF Init
  <2>4. decoder \in [Cvs -> Calls] BY PomAssumption DEF Init
  <2>5. Len(deque) <= DequeCapacity /\ Len(front) <= FrontCapacity
    BY <2>3, PomAssumption
  <2>6. calls \in Calls /\ switches \in 0..MaxSwitches /\ heard \in SUBSET Calls
    BY PomAssumption DEF Init
  <2>. QED BY <2>1, <2>2, <2>3, <2>4, <2>5, <2>6 DEF Init, TypeOK
<1>. QED BY <1>1, <1>2, PomAssumption DEF Init, Inv, Idle, Leftovers, Tasks,
       InOrder, Room, WritesInOrder, Sorted, Writes, Fresh, Answered

LEMMA BeginInv ==
    ASSUME Inv, NEW kind \in {"read", "write"}, NEW c \in Cvs, Begin(kind, c),
           kind = "read" => ~Full
    PROVE  Inv'
<1> USE DEF Begin
<1>1. z21' \in [pc : {"idle", "send", "push", "delay"}, kind : {"read", "write"},
                cv : Cvs, no : Calls, old : Calls, left : 0..Copies]
  BY PomAssumption DEF Inv, TypeOK
<1>2. TypeOK' BY <1>1, PomAssumption DEF Inv, TypeOK
<1> USE Elements DEF Inv
<1>5. Leftovers' /\ Tasks' BY DEF Leftovers, Tasks
<1>6. InOrder' BY DEF InOrder
<1>7. Room' BY DEF Room, Full
<1>8. WritesInOrder'
  BY PomAssumption DEF WritesInOrder, Sorted, Writes
<1>9. Fresh' BY DEF Fresh
<1>10. Answered' BY DEF Answered
<1>. QED BY <1>2, <1>5, <1>6, <1>7, <1>8, <1>9, <1>10 DEF Inv

LEMMA ReadFullInv ==
    ASSUME Inv, CvPomReadFull
    PROVE  Inv'
<1> USE Elements DEF Inv, CvPomReadFull, vars
<1>1. TypeOK' BY SMTT(30) DEF TypeOK
<1>2. Leftovers' /\ Tasks' BY DEF Leftovers, Tasks
<1>3. InOrder' BY DEF InOrder
<1>4. Room' BY DEF Room, Full
<1>5. WritesInOrder' BY DEF WritesInOrder, Sorted, Writes
<1>6. Fresh' BY DEF Fresh
<1>7. Answered' BY DEF Answered
<1>. QED BY <1>1, <1>2, <1>3, <1>4, <1>5, <1>6, <1>7

\* Another packet of the call: its number is the latest one.
LEMMA SendInv ==
    ASSUME Inv, SendToFront
    PROVE  Inv'
<1> DEFINE p == [kind |-> z21.kind, cv |-> z21.cv, no |-> z21.no]
<1>1. /\ p \in Packets /\ p.kind = z21.kind /\ p.cv = z21.cv /\ p.no = z21.no
      /\ p.no = calls
  BY DEF Inv, TypeOK, Packets, SendToFront, WritesInOrder
<1>2. front' = Append(front, p) BY DEF SendToFront
<1> HIDE DEF p
<1>3. front \in Seq(Packets) BY DEF Inv, TypeOK
<1>4. /\ front' \in Seq(Packets) /\ Len(front') = Len(front) + 1 /\ Len(front) \in Nat
      /\ DOMAIN front = 1 .. Len(front) /\ DOMAIN front' = 1 .. Len(front) + 1
      /\ front'[Len(front) + 1] = p
      /\ \A i \in DOMAIN front : front'[i] = front[i]
  BY <1>1, <1>2, <1>3, AppendTyped
<1>5. \A i \in DOMAIN front' : i \in DOMAIN front \/ (i = Len(front) + 1 /\ front'[i] = p)
  BY <1>4
<1>6. TypeOK'
  <2>1. Len(front') <= FrontCapacity
    BY <1>4, PomAssumption DEF SendToFront
  <2>2. z21' \in [pc : {"idle", "send", "push", "delay"}, kind : {"read", "write"},
                  cv : Cvs, no : Calls, old : Calls, left : 0..Copies]
    <3> DEFINE n == z21.left - 1
               q == IF z21.left > 1 THEN "send"
                    ELSE IF z21.kind = "read" THEN "push" ELSE "delay"
    <3>1. n \in 0..Copies BY Elements DEF Inv, SendToFront, WritesInOrder
    <3>2. q \in {"idle", "send", "push", "delay"} OBVIOUS
    <3>3. z21' = [z21 EXCEPT !.left = n, !.pc = q] BY DEF SendToFront
    <3> HIDE DEF n, q
    <3>. QED BY <3>1, <3>2, <3>3 DEF Inv, TypeOK
  <2>. QED BY <1>4, <2>1, <2>2 DEF Inv, TypeOK, SendToFront
<1> USE Elements DEF Inv, SendToFront
<1>7. /\ z21'.no = z21.no /\ z21'.cv = z21.cv /\ z21'.old = z21.old
      /\ z21'.kind = z21.kind /\ z21'.left = z21.left - 1
      /\ z21'.pc = IF z21.left > 1 THEN "send"
                   ELSE IF z21.kind = "read" THEN "push" ELSE "delay"
  BY DEF TypeOK
<1>8. Leftovers' /\ Tasks' BY DEF Leftovers, Tasks
<1>9. InOrder' BY <1>7 DEF InOrder
<1>10. Room' BY <1>7 DEF Room, Full
<1>11. WritesInOrder'
  <2>1. z21'.pc # "idle" => z21'.no = calls' BY <1>7 DEF WritesInOrder
  <2>2. z21'.pc = "send" => z21'.left > 0 BY <1>7
  <2>3. /\ \A c \in Cvs : decoder'[c] <= calls'
        /\ \A i \in DOMAIN ring' : ring'[i].no <= calls'
        /\ Sorted(ring')
        /\ \A i \in Writes(ring') : decoder'[ring'[i].cv] <= ring'[i].no
    BY DEF WritesInOrder, Sorted, Writes
  <2>4. \A i \in DOMAIN front' : front'[i].no <= calls'
    BY <1>1, <1>4, <1>5 DEF WritesInOrder
  <2>5. Sorted(front')
    BY <1>1, <1>4, <1>5 DEF WritesInOrder, Sorted, Writes
  <2>6. \A i \in Writes(ring'), j \in Writes(front') : ring'[i].no <= front'[j].no
    BY <1>1, <1>4, <1>5 DEF WritesInOrder, Writes
  <2>7. \A i \in Writes(front') : decoder'[front'[i].cv] <= front'[i].no
    BY <1>1, <1>4, <1>5 DEF WritesInOrder, Writes
  <2>. QED BY <2>1, <2>2, <2>3, <2>4, <2>5, <2>6, <2>7 DEF WritesInOrder
<1>12. Fresh' BY <1>7 DEF Fresh
<1>13. Answered' BY <1>7 DEF Answered
<1>. QED BY <1>6, <1>8, <1>9, <1>10, <1>11, <1>12, <1>13

\* The request is the last one, and it is fresh unless earlier answers are there.
LEMMA PushInv ==
    ASSUME Inv, PushBack
    PROVE  Inv'
<1> DEFINE r == [cv |-> z21.cv, no |-> z21.no, old |-> z21.old,
                 unseen |-> \E i \in DOMAIN rx : rx[i].cv # NoCv /\ rx[i].no < z21.no,
                 aged |-> FALSE]
<1>1. /\ r \in Requests /\ r.cv = z21.cv /\ r.no = z21.no /\ r.old = z21.old
      /\ ~r.unseen => \A i \in DOMAIN rx : rx[i].cv # NoCv => rx[i].no >= z21.no
  <2>1. (\E i \in DOMAIN rx : rx[i].cv # NoCv /\ rx[i].no < z21.no) \in BOOLEAN OBVIOUS
  <2>2. /\ r \in Requests /\ r.cv = z21.cv /\ r.no = z21.no /\ r.old = z21.old
        /\ r.unseen = \E i \in DOMAIN rx : rx[i].cv # NoCv /\ rx[i].no < z21.no
    BY <2>1 DEF Inv, TypeOK, Requests
  <2>. QED BY <2>2, Elements DEF Inv
<1>2. deque' = Append(deque, r) BY DEF PushBack
<1> HIDE DEF r
<1>3. deque \in Seq(Requests) BY DEF Inv, TypeOK
<1>4. /\ deque' \in Seq(Requests) /\ Len(deque') = Len(deque) + 1 /\ Len(deque) \in Nat
      /\ DOMAIN deque = 1 .. Len(deque) /\ DOMAIN deque' = 1 .. Len(deque) + 1
      /\ deque'[Len(deque) + 1] = r
      /\ \A i \in DOMAIN deque : deque'[i] = deque[i]
  BY <1>1, <1>2, <1>3, AppendTyped
<1>5. \A i \in DOMAIN deque' : i \in DOMAIN deque \/ (i = Len(deque) + 1 /\ deque'[i] = r)
  BY <1>4
<1>6. TypeOK'
  <2>1. Len(deque') <= DequeCapacity
    BY <1>4, PomAssumption DEF Inv, TypeOK, Room, Full, PushBack
  <2>2. z21' \in [pc : {"idle", "send", "push", "delay"}, kind : {"read", "write"},
                  cv : Cvs, no : Calls, old : Calls, left : 0..Copies]
    BY DEF Inv, TypeOK, PushBack
  <2>. QED BY <1>4, <2>1, <2>2 DEF Inv, TypeOK, PushBack
<1> USE Elements DEF Inv, PushBack
<1>7. /\ z21'.no = z21.no /\ z21'.cv = z21.cv /\ z21'.old = z21.old
      /\ z21'.kind = z21.kind /\ z21'.left = z21.left /\ z21'.pc = "delay"
  BY DEF TypeOK
<1>8. Leftovers' /\ Tasks' BY DEF Leftovers, Tasks
<1>9. InOrder'
  <2>1. \A i \in DOMAIN deque' : deque'[i].no <= calls'
    BY <1>1, <1>4, <1>5 DEF InOrder, WritesInOrder
  <2>2. \A i, j \in DOMAIN deque' : i < j => deque'[i].no < deque'[j].no
    BY <1>1, <1>4, <1>5 DEF InOrder
  <2>. QED BY <1>7, <2>1, <2>2 DEF InOrder
<1>10. Room' BY <1>7 DEF Room
<1>11. WritesInOrder' BY <1>7 DEF WritesInOrder, Sorted, Writes
<1>12. Fresh'
  <2>1. ASSUME NEW i \in DOMAIN rx, rx[i].cv = r.cv, ~r.unseen
        PROVE  rx[i].value >= r.old
    BY <1>1, <2>1, PomAssumption DEF Fresh
  <2>2. r.old <= decoder[r.cv] BY <1>1 DEF Fresh
  <2>3. \A k \in DOMAIN deque' :
          /\ deque'[k].old <= decoder[deque'[k].cv]
          /\ \A i \in DOMAIN rx :
                rx[i].cv = deque'[k].cv /\ ~deque'[k].unseen
                  => rx[i].value >= deque'[k].old
    BY <1>4, <1>5, <2>1, <2>2 DEF Fresh
  <2>. QED BY <1>7, <2>3 DEF Fresh
<1>13. Answered'
  <2>1. r.no \notin heard BY <1>1 DEF Answered
  <2>. QED BY <1>4, <1>5, <1>7, <2>1 DEF Answered
<1>. QED BY <1>6, <1>8, <1>9, <1>10, <1>11, <1>12, <1>13

\* The call is over.
LEMMA DelayInv ==
    ASSUME Inv, DelayOver
    PROVE  Inv'
<1> USE Elements DEF Inv, DelayOver
<1>1. AnyCv \in Cvs BY PomAssumption DEF AnyCv
<1>2. /\ z21' \in [pc : {"idle", "send", "push", "delay"}, kind : {"read", "write"},
                   cv : Cvs, no : Calls, old : Calls, left : 0..Copies]
      /\ z21'.pc = "idle" /\ z21'.old = 0 /\ z21'.cv = AnyCv
  BY <1>1, PomAssumption DEF Idle
<1>3. TypeOK' BY <1>2 DEF TypeOK
<1>4. Leftovers' /\ Tasks' BY DEF Leftovers, Tasks
<1>5. InOrder' BY <1>2 DEF InOrder
<1>6. Room' BY <1>2 DEF Room
<1>7. WritesInOrder' BY <1>2 DEF WritesInOrder, Sorted, Writes
<1>8. Fresh' BY <1>1, <1>2 DEF Fresh
<1>9. Answered' BY <1>2 DEF Answered
<1>. QED BY <1>3, <1>4, <1>5, <1>6, <1>7, <1>8, <1>9

LEMMA PowerInv ==
    ASSUME Inv, PowerOn \/ PowerOff \/ ShortCircuit
    PROVE  Inv'
<1> USE DEF Inv, PowerOn, PowerOff, ShortCircuit
<1>1. TypeOK'
  <2>1. state' \in {"Suspended", "DCCOperations", "Suspend", "ShortCircuit"} OBVIOUS
  <2>2. switches' \in 0..MaxSwitches
    <3>1. switches \in 0..MaxSwitches /\ MaxSwitches \in Nat
      BY PomAssumption DEF TypeOK
    <3>2. switches' = switches \/ (switches < MaxSwitches /\ switches' = switches + 1)
      OBVIOUS
    <3>. QED BY <3>1, <3>2
  <2>. QED BY <2>1, <2>2 DEF TypeOK
<1>2. Leftovers' /\ Tasks' BY DEF Leftovers, Tasks
<1>3. InOrder' /\ Room' BY DEF InOrder, Room, Full
<1>4. WritesInOrder' BY DEF WritesInOrder, Sorted, Writes
<1>5. Fresh' /\ Answered' BY DEF Fresh, Answered
<1>. QED BY <1>1, <1>2, <1>3, <1>4, <1>5

\* The cutout: what the CVs hold does not get older, and the answer is what the CV
\* of the packet holds then.
LEMMA CutoutFacts ==
    ASSUME Inv, NEW obeys \in BOOLEAN, NEW answers \in BOOLEAN, ring # <<>>,
           Cutout(obeys, answers), NEW p, p = Head(ring),
           NEW item,
           item = IF answers THEN [cv |-> p.cv, no |-> p.no, value |-> decoder'[p.cv]]
                  ELSE NoAnswer
    PROVE  /\ p \in Packets /\ p.cv \in Cvs /\ p.no \in Calls /\ p.no <= calls
           /\ decoder' \in [Cvs -> Calls]
           /\ \A c \in Cvs : decoder[c] <= decoder'[c] /\ decoder'[c] <= calls
           /\ \A c \in Cvs : \/ decoder'[c] = decoder[c]
                             \/ c = p.cv /\ p.kind = "write" /\ decoder'[c] = p.no
           /\ item \in Items /\ item.no <= calls
           /\ item.cv \in Cvs => item.value = decoder'[item.cv]
           /\ rx' = rx \/ (Len(rx) < RxCapacity /\ rx' = Append(rx, item))
           /\ \A n \in heard' :
                 n \in heard
                 \/ /\ deque # <<>> /\ n = Head(deque).no /\ Head(deque).cv = item.cv
                    /\ rx' = Append(rx, item)
<1>1. /\ ring \in Seq(Packets) /\ decoder \in [Cvs -> Calls] /\ MaxCalls \in Nat
      /\ calls \in Calls
  BY PomAssumption DEF Inv, TypeOK
<1>2. p = ring[1] /\ 1 \in DOMAIN ring BY <1>1, TailTyped
<1>3. p \in Packets /\ p.cv \in Cvs /\ p.no \in Calls /\ p.no <= calls
  BY <1>2, Elements DEF Inv, WritesInOrder
<1> DEFINE cv == IF p.kind = "write" /\ obeys THEN [decoder EXCEPT ![p.cv] = p.no]
                 ELSE decoder
<1>4. decoder' = cv BY DEF Cutout
<1>5. decoder' \in [Cvs -> Calls] BY <1>1, <1>3, <1>4
<1>6. \A c \in Cvs : \/ decoder'[c] = decoder[c]
                     \/ c = p.cv /\ p.kind = "write" /\ decoder'[c] = p.no
  BY <1>1, <1>3, <1>4
<1>7. p.kind = "write" => decoder[p.cv] <= p.no
  BY <1>2 DEF Inv, WritesInOrder, Writes
<1>8. \A c \in Cvs : decoder[c] <= decoder'[c] /\ decoder'[c] <= calls
  BY <1>1, <1>3, <1>6, <1>7, Elements DEF Inv, WritesInOrder
<1>9. rx' = IF Len(rx) < RxCapacity THEN Append(rx, item) ELSE rx
  BY <1>4 DEF Cutout
<1>10. heard' = IF Len(rx) < RxCapacity /\ answers /\ deque # <<>> /\ Head(deque).cv = p.cv
                THEN heard \cup {Head(deque).no} ELSE heard
  BY DEF Cutout
<1> HIDE DEF cv
<1>11. /\ item \in Items /\ item.no <= calls
       /\ item.cv \in Cvs => item.value = decoder'[item.cv]
       /\ answers => item.cv = p.cv
  <2>1. CASE answers BY <1>3, <1>5, <2>1 DEF Items
  <2>2. CASE ~answers
    <3>1. item = NoAnswer /\ 0 \in Calls /\ 0 <= calls BY <1>1, <2>2
    <3>. QED BY <2>2, <3>1, PomAssumption DEF Items, NoAnswer
  <2>. QED BY <2>1, <2>2
<1>. QED BY <1>3, <1>5, <1>6, <1>8, <1>9, <1>10, <1>11

\* The ring loses its first packet, and the first of the front buffer follows.
LEMMA PacketFacts ==
    ASSUME Inv, ring # <<>>,
           IF front # <<>>
           THEN ring' = Append(Tail(ring), Head(front)) /\ front' = Tail(front)
           ELSE ring' = Append(Tail(ring), Other) /\ UNCHANGED front
    PROVE  /\ ring' \in Seq(Packets) /\ front' \in Seq(Packets) /\ ring' # <<>>
           /\ Len(front') <= FrontCapacity /\ (front = <<>> => front' = <<>>)
           /\ \A i \in DOMAIN ring' : ring'[i].no <= calls
           /\ \A i \in DOMAIN front' : front'[i].no <= calls
           /\ Sorted(ring') /\ Sorted(front')
           /\ \A i \in Writes(ring'), j \in Writes(front') : ring'[i].no <= front'[j].no
           /\ \A i \in Writes(ring') :
                 \/ \E j \in Writes(ring) : j # 1 /\ ring'[i] = ring[j]
                 \/ \E j \in Writes(front) : ring'[i] = front[j]
           /\ \A i \in Writes(front') : \E j \in Writes(front) : front'[i] = front[j]
<1>1. /\ ring \in Seq(Packets) /\ front \in Seq(Packets) /\ Len(front) <= FrontCapacity
      /\ calls \in Nat /\ FrontCapacity \in Nat
  BY PomAssumption, Elements DEF Inv, TypeOK
<1> DEFINE x == IF front # <<>> THEN Head(front) ELSE Other
<1>2. AnyCv \in Cvs BY PomAssumption DEF AnyCv
<1>3. Other \in Packets /\ Other.kind = "other" /\ Other.no = 0
  BY <1>2, PomAssumption DEF Other, Packets
<1>4. CASE front = <<>>
  <2>1. front' = <<>> /\ ring' = Append(Tail(ring), Other) BY <1>4
  <2>2. /\ Tail(ring) \in Seq(Packets) /\ Len(Tail(ring)) = Len(ring) - 1
        /\ Len(ring) \in Nat /\ DOMAIN ring = 1 .. Len(ring)
        /\ \A i \in DOMAIN Tail(ring) : i + 1 \in DOMAIN ring /\ Tail(ring)[i] = ring[i + 1]
    BY <1>1, TailTyped
  <2>3. /\ ring' \in Seq(Packets) /\ DOMAIN ring' = 1 .. Len(ring) /\ Len(ring') = Len(ring)
        /\ ring'[Len(ring)] = Other
        /\ \A i \in 1 .. Len(ring) - 1 : i + 1 \in DOMAIN ring /\ ring'[i] = ring[i + 1]
    BY <1>3, <2>1, <2>2, AppendTyped
  <2>4. \A i \in DOMAIN ring' : \/ i = Len(ring) /\ ring'[i] = Other
                                \/ i \in 1 .. Len(ring) - 1
    BY <2>2, <2>3
  <2>5. \A i \in Writes(ring') : /\ i \in 1 .. Len(ring) - 1
                                 /\ i + 1 \in Writes(ring) /\ ring'[i] = ring[i + 1]
    BY <1>3, <2>3, <2>4 DEF Writes
  <2>6. \A i \in DOMAIN ring' : ring'[i].no <= calls
    <3>1. Other.no <= calls BY <1>1, <1>3
    <3>2. \A i \in DOMAIN ring : ring[i].no <= calls BY DEF Inv, WritesInOrder
    <3>. QED BY <2>3, <2>4, <3>1, <3>2
  <2>7. Sorted(ring')
    BY <2>2, <2>5 DEF Inv, WritesInOrder, Sorted
  <2>8. DOMAIN front' = {} /\ front' \in Seq(Packets) /\ Len(front') <= FrontCapacity
    BY <1>1, <2>1, EmptyTyped
  <2>9. Sorted(front') /\ Writes(front') = {} BY <2>8 DEF Sorted, Writes
  <2>10. ring' # <<>> BY <1>1, <2>2, <2>3, EmptyTyped
  <2>11. \A i \in Writes(ring') : \E j \in Writes(ring) : j # 1 /\ ring'[i] = ring[j]
    BY <2>2, <2>5
  <2>. QED BY <2>1, <2>3, <2>6, <2>7, <2>8, <2>9, <2>10, <2>11
<1>5. CASE front # <<>>
  <2>1. front' = Tail(front) /\ ring' = Append(Tail(ring), Head(front)) BY <1>5
  <2>2. /\ Tail(ring) \in Seq(Packets) /\ Len(Tail(ring)) = Len(ring) - 1
        /\ Len(ring) \in Nat /\ DOMAIN ring = 1 .. Len(ring)
        /\ \A i \in DOMAIN Tail(ring) : i + 1 \in DOMAIN ring /\ Tail(ring)[i] = ring[i + 1]
    BY <1>1, TailTyped
  <2>3. /\ front' \in Seq(Packets) /\ Len(front') = Len(front) - 1 /\ Len(front) \in Nat
        /\ Head(front) = front[1] /\ 1 \in DOMAIN front /\ DOMAIN front = 1 .. Len(front)
        /\ \A i \in DOMAIN front' : i + 1 \in DOMAIN front /\ front'[i] = front[i + 1]
    BY <1>1, <1>5, <2>1, TailTyped
  <2>4. front[1] \in Packets BY <1>1, <2>3, ElementTyped
  <2>5. /\ ring' \in Seq(Packets) /\ DOMAIN ring' = 1 .. Len(ring) /\ Len(ring') = Len(ring)
        /\ ring'[Len(ring)] = front[1]
        /\ \A i \in 1 .. Len(ring) - 1 : i + 1 \in DOMAIN ring /\ ring'[i] = ring[i + 1]
    BY <2>1, <2>2, <2>3, <2>4, AppendTyped
  <2>6. \A i \in DOMAIN ring' : \/ i = Len(ring) /\ ring'[i] = front[1]
                                \/ i \in 1 .. Len(ring) - 1 /\ ring'[i] = ring[i + 1]
    BY <2>2, <2>5
  <2>7. \A i \in Writes(ring') :
           \/ i = Len(ring) /\ 1 \in Writes(front) /\ ring'[i] = front[1]
           \/ /\ i \in 1 .. Len(ring) - 1
              /\ i + 1 \in Writes(ring) /\ ring'[i] = ring[i + 1]
    BY <2>3, <2>5, <2>6 DEF Writes
  <2>8. \A i \in Writes(front') : i + 1 \in Writes(front) /\ front'[i] = front[i + 1]
                                  /\ i \in Nat /\ i > 0
    BY <2>3 DEF Writes
  <2>9. /\ \A i \in DOMAIN ring' : ring'[i].no <= calls
        /\ \A i \in DOMAIN front' : front'[i].no <= calls
    BY <2>3, <2>5, <2>6 DEF Inv, WritesInOrder
  <2>10. Sorted(ring')
    BY <2>2, <2>7, SMTT(30) DEF Inv, WritesInOrder, Sorted
  <2>11. Sorted(front')
    <3> SUFFICES ASSUME NEW i \in Writes(front'), NEW j \in Writes(front'), i < j
                 PROVE  front'[i].no <= front'[j].no
      BY DEF Sorted
    <3>1. i + 1 \in Writes(front) /\ j + 1 \in Writes(front) /\ i + 1 < j + 1
      BY <2>8
    <3>2. front[i + 1].no <= front[j + 1].no
      BY <3>1 DEF Inv, WritesInOrder, Sorted
    <3>. QED BY <2>8, <3>2
  <2>12. \A i \in Writes(ring'), j \in Writes(front') : ring'[i].no <= front'[j].no
    <3> SUFFICES ASSUME NEW i \in Writes(ring'), NEW j \in Writes(front')
                 PROVE  ring'[i].no <= front'[j].no
      OBVIOUS
    <3>1. j + 1 \in Writes(front) /\ 1 < j + 1 /\ front'[j] = front[j + 1] BY <2>8
    <3>2. CASE 1 \in Writes(front) /\ ring'[i] = front[1]
      BY <3>1, <3>2 DEF Inv, WritesInOrder, Sorted
    <3>3. CASE i + 1 \in Writes(ring) /\ ring'[i] = ring[i + 1]
      BY <3>1, <3>3 DEF Inv, WritesInOrder
    <3>. QED BY <2>7, <3>2, <3>3
  <2>13. Len(front') <= FrontCapacity /\ ring' # <<>>
    BY <1>1, <2>2, <2>3, <2>5, EmptyTyped
  <2>14. \A i \in Writes(ring') :
            \/ \E j \in Writes(ring) : j # 1 /\ ring'[i] = ring[j]
            \/ \E j \in Writes(front) : ring'[i] = front[j]
    BY <2>2, <2>7
  <2>15. \A i \in Writes(front') : \E j \in Writes(front) : front'[i] = front[j]
    BY <2>8
  <2>. QED BY <1>5, <2>3, <2>5, <2>9, <2>10, <2>11, <2>12, <2>13, <2>14, <2>15
<1>. QED BY <1>4, <1>5

LEMMA PacketInv ==
    ASSUME Inv, NEW obeys \in BOOLEAN, NEW answers \in BOOLEAN,
           OutPacket(obeys, answers)
    PROVE  Inv'
<1>1. ring # <<>> BY DEF Inv, Tasks, OutPacket
<1> DEFINE p == Head(ring)
           item == IF answers THEN [cv |-> p.cv, no |-> p.no, value |-> decoder'[p.cv]]
                   ELSE NoAnswer
<1>2. /\ p \in Packets /\ p.cv \in Cvs /\ p.no \in Calls /\ p.no <= calls
      /\ decoder' \in [Cvs -> Calls]
      /\ \A c \in Cvs : decoder[c] <= decoder'[c] /\ decoder'[c] <= calls
      /\ \A c \in Cvs : \/ decoder'[c] = decoder[c]
                        \/ c = p.cv /\ p.kind = "write" /\ decoder'[c] = p.no
      /\ item \in Items /\ item.no <= calls
      /\ item.cv \in Cvs => item.value = decoder'[item.cv]
      /\ rx' = rx \/ (Len(rx) < RxCapacity /\ rx' = Append(rx, item))
      /\ \A n \in heard' :
            n \in heard
            \/ /\ deque # <<>> /\ n = Head(deque).no /\ Head(deque).cv = item.cv
               /\ rx' = Append(rx, item)
  <2>1. Cutout(obeys, answers) BY DEF OutPacket
  <2>. QED BY <1>1, <2>1, CutoutFacts
<1>3. /\ ring' \in Seq(Packets) /\ front' \in Seq(Packets) /\ ring' # <<>>
      /\ Len(front') <= FrontCapacity /\ (front = <<>> => front' = <<>>)
      /\ \A i \in DOMAIN ring' : ring'[i].no <= calls
      /\ \A i \in DOMAIN front' : front'[i].no <= calls
      /\ Sorted(ring') /\ Sorted(front')
      /\ \A i \in Writes(ring'), j \in Writes(front') : ring'[i].no <= front'[j].no
      /\ \A i \in Writes(ring') :
            \/ \E j \in Writes(ring) : j # 1 /\ ring'[i] = ring[j]
            \/ \E j \in Writes(front) : ring'[i] = front[j]
      /\ \A i \in Writes(front') : \E j \in Writes(front) : front'[i] = front[j]
  BY <1>1, PacketFacts DEF OutPacket
<1>4. p = ring[1] /\ 1 \in DOMAIN ring /\ DOMAIN ring = 1 .. Len(ring) /\ Len(ring) \in Nat
  BY <1>1, TailTyped DEF Inv, TypeOK
<1>5. item \in Items /\ item.no \in Calls /\ item.value \in Calls
  BY <1>2 DEF Items
<1> HIDE DEF item, p
<1>6. /\ rx' \in Seq(Items) /\ Len(rx') <= RxCapacity
      /\ \A i \in DOMAIN rx' : rx'[i] = item \/ (i \in DOMAIN rx /\ rx'[i] = rx[i])
      /\ \A i \in DOMAIN rx : i \in DOMAIN rx' /\ rx'[i] = rx[i]
      /\ rx' = Append(rx, item) => \E i \in DOMAIN rx' : rx'[i] = item
  <2>1. /\ rx \in Seq(Items) /\ Len(rx) \in Nat /\ Len(rx) <= RxCapacity
        /\ RxCapacity \in Nat
    BY PomAssumption, DomainOf DEF Inv, TypeOK
  <2>2. CASE rx' = rx
    <3>1. rx # Append(rx, item) BY <1>5, <2>1, AppendTyped
    <3>. QED BY <2>1, <2>2, <3>1
  <2>3. CASE Len(rx) < RxCapacity /\ rx' = Append(rx, item)
    <3>0. Len(rx') <= RxCapacity BY <1>5, <2>1, <2>3, AppendTyped
    <3>1. /\ rx' \in Seq(Items) /\ Len(rx) \in Nat /\ DOMAIN rx = 1 .. Len(rx)
          /\ DOMAIN rx' = 1 .. Len(rx) + 1 /\ rx'[Len(rx) + 1] = item
          /\ \A i \in DOMAIN rx : rx'[i] = rx[i]
      BY <1>5, <2>1, <2>3, AppendTyped
    <3>2. Len(rx) + 1 \in DOMAIN rx' /\ \A i \in DOMAIN rx : i \in DOMAIN rx' BY <3>1
    <3>3. \A i \in DOMAIN rx' : i = Len(rx) + 1 \/ i \in DOMAIN rx BY <3>1
    <3>4. \E i \in DOMAIN rx' : rx'[i] = item BY <3>1, <3>2
    <3>5. \A i \in DOMAIN rx' : rx'[i] = item \/ (i \in DOMAIN rx /\ rx'[i] = rx[i])
      BY <3>1, <3>3
    <3>6. \A i \in DOMAIN rx : i \in DOMAIN rx' /\ rx'[i] = rx[i] BY <3>1, <3>2
    <3>. QED BY <3>0, <3>1, <3>4, <3>5, <3>6
  <2>. QED BY <1>2, <2>2, <2>3
<1>7. UNCHANGED <<state, z21, out, dcc, deque, stray, calls, switches>>
  BY DEF OutPacket
<1>8. deque # <<>> => Head(deque) = deque[1] /\ 1 \in DOMAIN deque
  BY TailTyped DEF Inv, TypeOK
<1> USE Elements DEF Inv
<1>9. TypeOK'
  <2>1. heard' \in SUBSET Calls BY <1>2, <1>8, SMTT(30)
  <2>. QED BY <1>2, <1>3, <1>6, <1>7, <2>1 DEF TypeOK
<1>10. Leftovers' /\ Tasks'
  BY <1>3, <1>7 DEF Leftovers, Tasks, OutPacket
<1>11. InOrder' /\ Room' BY <1>7 DEF InOrder, Room, Full
<1>12. WritesInOrder'
  <2>1. \A i \in Writes(ring) : i # 1 =>
           (p.kind = "write" => p.no <= ring[i].no) /\ decoder[ring[i].cv] <= ring[i].no
    <3>1. \A i \in Writes(ring) : i # 1 => 1 < i BY <1>4 DEF Writes
    <3>2. p.kind = "write" => 1 \in Writes(ring) BY <1>4 DEF Writes
    <3>. QED BY <1>4, <3>1, <3>2 DEF WritesInOrder, Sorted
  <2>2. \A i \in Writes(front) :
           (p.kind = "write" => p.no <= front[i].no) /\ decoder[front[i].cv] <= front[i].no
    BY <1>4 DEF WritesInOrder, Writes
  <2>3. /\ \A i \in Writes(ring) : ring[i].cv \in Cvs
        /\ \A i \in Writes(front) : front[i].cv \in Cvs
    BY DEF Writes
  <2>4. \A j \in Writes(ring) : j # 1 => decoder'[ring[j].cv] <= ring[j].no
    BY <1>2, <2>1, <2>3
  <2>5. \A j \in Writes(front) : decoder'[front[j].cv] <= front[j].no
    BY <1>2, <2>2, <2>3
  <2>6. \A i \in Writes(ring') : decoder'[ring'[i].cv] <= ring'[i].no
    BY <1>3, <2>4, <2>5
  <2>7. \A i \in Writes(front') : decoder'[front'[i].cv] <= front'[i].no
    BY <1>3, <2>5
  <2>. QED BY <1>2, <1>3, <1>7, <2>6, <2>7 DEF WritesInOrder
<1>13. Fresh'
  <2>1. z21.old <= decoder'[z21.cv] BY <1>2 DEF Fresh
  <2>2. \A i \in DOMAIN rx' : rx'[i].no <= calls
    BY <1>2, <1>5, <1>6 DEF Fresh
  <2>3. \A i \in DOMAIN rx' :
           Queueing /\ rx'[i].cv = z21.cv /\ rx'[i].no >= z21.no
             => rx'[i].value >= z21.old
    <3>1. item.cv = z21.cv => item.value >= z21.old BY <1>2, <1>5, <2>1
    <3>2. \A i \in DOMAIN rx :
             Queueing /\ rx[i].cv = z21.cv /\ rx[i].no >= z21.no
               => rx[i].value >= z21.old
      BY DEF Fresh
    <3>. QED BY <1>6, <3>1, <3>2
  <2>4. \A k \in DOMAIN deque : deque[k].old <= decoder'[deque[k].cv]
    BY <1>2, SMTT(30) DEF Fresh
  <2>5. \A k \in DOMAIN deque, i \in DOMAIN rx' :
           rx'[i].cv = deque[k].cv /\ ~deque[k].unseen => rx'[i].value >= deque[k].old
    <3>1. \A k \in DOMAIN deque : item.cv = deque[k].cv => item.value >= deque[k].old
      BY <1>2, <1>5, <2>4
    <3>2. \A k \in DOMAIN deque, i \in DOMAIN rx :
             rx[i].cv = deque[k].cv /\ ~deque[k].unseen => rx[i].value >= deque[k].old
      BY DEF Fresh
    <3>. QED BY <1>6, <3>1, <3>2
  <2>. QED BY <1>7, <2>1, <2>2, <2>3, <2>4, <2>5 DEF Fresh
<1>14. Answered'
  <2>1. \A k \in DOMAIN deque : deque # <<>>
    BY EmptyTyped
  <2>2. \A n \in heard' : n <= calls /\ (Queueing => n < z21.no)
    BY <1>2, <1>8 DEF Answered, InOrder
  <2>3. ASSUME NEW k \in DOMAIN deque, deque[k].no \in heard'
        PROVE  k = 1 /\ \E i \in DOMAIN rx' : rx'[i].cv = deque[k].cv
    <3>1. CASE deque[k].no \in heard
      BY <1>6, <2>3, <3>1 DEF Answered
    <3>2. CASE deque[k].no \notin heard
      <4>1. /\ deque[k].no = deque[1].no /\ deque[1].cv = item.cv
            /\ rx' = Append(rx, item)
        BY <1>2, <1>8, <2>1, <2>3, <3>2
      <4>2. k = 1
        <5>1. deque \in Seq(Requests) BY DEF TypeOK
        <5>2. k \in Nat /\ (k # 1 => 1 < k) /\ 1 \in DOMAIN deque
          BY <5>1, <2>1, DomainOf
        <5>. QED BY <4>1, <5>2 DEF InOrder
      <4>. QED BY <1>5, <1>6, <4>1, <4>2
    <3>. QED BY <3>1, <3>2
  <2>. QED BY <1>7, <2>2, <2>3 DEF Answered
<1>. QED BY <1>9, <1>10, <1>11, <1>12, <1>13, <1>14

\* out::track::dcc ends: all it knows is gone.
LEMMA LeaveInv ==
    ASSUME Inv, OutLeave
    PROVE  Inv'
<1> USE Elements DEF Inv, OutLeave
<1>1. /\ front' \in Seq(Packets) /\ ring' \in Seq(Packets) /\ rx' \in Seq(Items)
      /\ Len(front') <= FrontCapacity /\ Len(rx') <= RxCapacity
      /\ DOMAIN front' = {} /\ DOMAIN ring' = {} /\ DOMAIN rx' = {}
  BY EmptyTyped, PomAssumption
<1>2. TypeOK' BY <1>1 DEF TypeOK
<1>3. Leftovers' /\ Tasks' BY DEF Leftovers, Tasks
<1>4. InOrder' /\ Room' BY DEF InOrder, Room, Full
<1>5. WritesInOrder'
  <2>1. Writes(front') = {} /\ Writes(ring') = {} BY <1>1 DEF Writes
  <2>. QED BY <1>1, <2>1 DEF WritesInOrder, Sorted
<1>6. Fresh' BY <1>1 DEF Fresh
<1>7. Answered' BY DEF Answered
<1>. QED BY <1>2, <1>3, <1>4, <1>5, <1>6, <1>7

\* The request is no longer the first one; the one behind it has no answer yet.
LEMMA PopFacts ==
    ASSUME TypeOK, InOrder, Answered, deque # <<>>, deque' = Tail(deque)
    PROVE  /\ deque' \in Seq(Requests) /\ Len(deque') < DequeCapacity
           /\ \A k \in DOMAIN deque' :
                 k + 1 \in DOMAIN deque /\ k \in Nat /\ k > 0
                 /\ deque'[k] = deque[k + 1] /\ deque'[k].no \notin heard
<1>1. deque \in Seq(Requests) /\ Len(deque) <= DequeCapacity /\ DequeCapacity \in Nat
  BY PomAssumption DEF TypeOK
<1>2. /\ deque' \in Seq(Requests) /\ Len(deque') = Len(deque) - 1 /\ Len(deque) \in Nat
      /\ DOMAIN deque' = 1 .. Len(deque) - 1
      /\ \A i \in DOMAIN deque' : i + 1 \in DOMAIN deque /\ deque'[i] = deque[i + 1]
  BY <1>1, TailTyped
<1>3. \A k \in DOMAIN deque' : k \in Nat /\ k > 0 BY <1>2
<1>4. \A k \in DOMAIN deque' : deque'[k].no \notin heard
  <2> SUFFICES ASSUME NEW k \in DOMAIN deque', deque'[k].no \in heard
               PROVE  FALSE
    OBVIOUS
  <2>1. k + 1 \in DOMAIN deque /\ deque[k + 1].no \in heard /\ k + 1 # 1
    BY <1>2, <1>3
  <2>. QED BY <2>1 DEF Answered
<1>5. Len(deque') < DequeCapacity BY <1>1, <1>2
<1>. QED BY <1>1, <1>2, <1>3, <1>4, <1>5

\* An answer is taken from rx_queue.
LEMMA TakeFacts ==
    ASSUME TypeOK, rx # <<>>, rx' = Tail(rx)
    PROVE  /\ rx' \in Seq(Items) /\ Head(rx) = rx[1] /\ 1 \in DOMAIN rx
           /\ Len(rx') <= RxCapacity
           /\ \A i \in DOMAIN rx' : i + 1 \in DOMAIN rx /\ rx'[i] = rx[i + 1]
           /\ \A i \in DOMAIN rx :
                 i = 1 \/ (i - 1 \in DOMAIN rx' /\ rx'[i - 1] = rx[i])
<1>1. rx \in Seq(Items) /\ Len(rx) <= RxCapacity /\ RxCapacity \in Nat
  BY PomAssumption DEF TypeOK
<1>2. /\ rx' \in Seq(Items) /\ Head(rx) = rx[1] /\ 1 \in DOMAIN rx
      /\ Len(rx') = Len(rx) - 1 /\ Len(rx) \in Nat /\ DOMAIN rx' = 1 .. Len(rx) - 1 /\ DOMAIN rx = 1 .. Len(rx)
      /\ \A i \in DOMAIN rx' : i + 1 \in DOMAIN rx /\ rx'[i] = rx[i + 1]
  BY <1>1, TailTyped
<1>3. \A i \in DOMAIN rx : i # 1 => i - 1 \in DOMAIN rx' /\ (i - 1) + 1 = i BY <1>2
<1>4. \A i \in DOMAIN rx : i # 1 => rx'[i - 1] = rx[i] BY <1>2, <1>3
<1>5. Len(rx') <= RxCapacity BY <1>1, <1>2
<1>. QED BY <1>2, <1>3, <1>4, <1>5

\* The parts of Inv which the deque alone can break.
LEMMA PopInv ==
    ASSUME Inv, deque # <<>>, PopFront,
           UNCHANGED <<state, z21, front, out, ring, dcc, decoder, stray, bounds>>,
           rx' \in Seq(Items), Len(rx') <= RxCapacity, out = "off" => rx' = <<>>,
           \A i \in DOMAIN rx' : \E j \in DOMAIN rx : rx'[i] = rx[j]
    PROVE  Inv'
<1> USE Elements DEF Inv, PopFront
<1>1. /\ deque' \in Seq(Requests) /\ Len(deque') < DequeCapacity
      /\ \A k \in DOMAIN deque' :
            k + 1 \in DOMAIN deque /\ k \in Nat /\ k > 0
            /\ deque'[k] = deque[k + 1] /\ deque'[k].no \notin heard
  BY PopFacts
<1>2. TypeOK'
  <2>1. Len(deque') <= DequeCapacity BY <1>1, DomainOf, PomAssumption
  <2>. QED BY <1>1, <2>1 DEF TypeOK
<1>3. Leftovers' /\ Tasks' BY DEF Leftovers, Tasks
<1>4. InOrder'
  <2>1. ASSUME NEW i \in DOMAIN deque', NEW j \in DOMAIN deque', i < j
        PROVE  deque'[i].no < deque'[j].no
    <3>1. i + 1 < j + 1 /\ i + 1 \in DOMAIN deque /\ j + 1 \in DOMAIN deque
      BY <1>1, <2>1
    <3>. QED BY <1>1, <3>1 DEF InOrder
  <2>2. \A i \in DOMAIN deque' :
           deque'[i].no <= calls /\ (Queueing => deque'[i].no < z21.no)
    BY <1>1 DEF InOrder
  <2>. QED BY <2>1, <2>2 DEF InOrder
<1>5. Room'
  <2>1. ~Full' BY <1>1, DomainOf DEF Full
  <2>. QED BY <2>1 DEF Room
<1>6. WritesInOrder' BY DEF WritesInOrder, Sorted, Writes
<1>7. Fresh'
  <2>1. \A i \in DOMAIN rx' : rx'[i].no <= calls
    BY DEF Fresh
  <2>2. \A i \in DOMAIN rx' :
           Queueing /\ rx'[i].cv = z21.cv /\ rx'[i].no >= z21.no
             => rx'[i].value >= z21.old
    BY DEF Fresh
  <2>3. \A k \in DOMAIN deque' : deque'[k].old <= decoder[deque'[k].cv]
    BY <1>1 DEF Fresh
  <2>4. \A k \in DOMAIN deque, i \in DOMAIN rx' :
           rx'[i].cv = deque[k].cv /\ ~deque[k].unseen => rx'[i].value >= deque[k].old
    BY DEF Fresh
  <2>5. \A k \in DOMAIN deque', i \in DOMAIN rx' :
           rx'[i].cv = deque'[k].cv /\ ~deque'[k].unseen
             => rx'[i].value >= deque'[k].old
    BY <1>1, <2>4
  <2>. QED BY <2>1, <2>2, <2>3, <2>5 DEF Fresh
<1>8. Answered' BY <1>1 DEF Answered
<1>. QED BY <1>2, <1>3, <1>4, <1>5, <1>6, <1>7, <1>8

LEMMA BiDiInv ==
    ASSUME Inv, BiDiAck \/ BiDiIgnore \/ BiDiTimeout
    PROVE  Inv'
<1>1. CASE BiDiAck
  <2>1. /\ rx' \in Seq(Items) /\ Len(rx') <= RxCapacity
        /\ \A i \in DOMAIN rx' : \E j \in DOMAIN rx : rx'[i] = rx[j]
    BY <1>1, TakeFacts DEF BiDiAck, Inv
  <2>2. out = "off" => rx' = <<>> BY <1>1 DEF BiDiAck, Inv, Leftovers
  <2>. QED BY <1>1, <2>1, <2>2, PopInv DEF BiDiAck, Matches
<1>2. CASE BiDiTimeout
  <2>1. rx' \in Seq(Items) /\ rx' = rx /\ Len(rx') <= RxCapacity
    BY <1>2 DEF BiDiTimeout, Inv, TypeOK
  <2>2. out = "off" => rx' = <<>> BY <2>1 DEF Inv, Leftovers
  <2>. QED BY <1>2, <2>1, <2>2, PopInv DEF BiDiTimeout
<1>3. CASE BiDiIgnore
  <2> USE <1>3, Elements DEF BiDiIgnore, Inv
  <2>1. /\ rx' \in Seq(Items) /\ Head(rx) = rx[1] /\ Len(rx') <= RxCapacity
        /\ \A i \in DOMAIN rx' : i + 1 \in DOMAIN rx /\ rx'[i] = rx[i + 1]
        /\ \A i \in DOMAIN rx :
              i = 1 \/ (i - 1 \in DOMAIN rx' /\ rx'[i - 1] = rx[i])
    BY TakeFacts
  <2>2. TypeOK' BY <2>1 DEF TypeOK
  <2>3. Leftovers' /\ Tasks' BY DEF Leftovers, Tasks
  <2>4. InOrder' /\ Room' BY DEF InOrder, Room, Full
  <2>5. WritesInOrder' BY DEF WritesInOrder, Sorted, Writes
  <2>6. Fresh' BY <2>1 DEF Fresh
  <2>7. Answered'
    <3>1. ASSUME NEW k \in DOMAIN deque, deque[k].no \in heard
          PROVE  k = 1 /\ \E i \in DOMAIN rx' : rx'[i].cv = deque[k].cv
      <4>1. k = 1 BY <3>1 DEF Answered
      <4>2. PICK i \in DOMAIN rx : rx[i].cv = deque[k].cv BY <3>1 DEF Answered
      <4>3. deque # <<>> BY EmptyTyped
      <4>4. Head(deque) = deque[1] BY <4>3, TailTyped DEF TypeOK
      <4>5. i # 1 BY <2>1, <4>1, <4>2, <4>3, <4>4 DEF Matches
      <4>6. i - 1 \in DOMAIN rx' /\ rx'[i - 1] = rx[i] BY <2>1, <4>5
      <4>. QED BY <4>1, <4>2, <4>6
    <3>. QED BY <3>1 DEF Answered
  <2>. QED BY <2>2, <2>3, <2>4, <2>5, <2>6, <2>7
<1>. QED BY <1>1, <1>2, <1>3

\* dcc::task resumes the track: every request is looked at as if it were late.
LEMMA ResumeInv ==
    ASSUME Inv, DccResume
    PROVE  Inv'
<1> USE Elements DEF Inv, DccResume
<1>1. AnyCv \in Cvs BY PomAssumption DEF AnyCv
<1>2. Other \in Packets /\ Other.kind = "other" /\ Other.no = 0
  BY <1>1, PomAssumption DEF Other, Packets
<1>3. /\ ring' \in Seq(Packets) /\ ring' # <<>>
      /\ \A i \in DOMAIN ring' : ring'[i] = Other
  BY <1>2
<1>4. deque \in Seq(Requests) /\ Len(deque) <= DequeCapacity BY DEF TypeOK
<1>5. /\ DOMAIN deque' = DOMAIN deque
      /\ \A i \in DOMAIN deque : deque'[i] = [deque[i] EXCEPT !.aged = TRUE]
  OBVIOUS
<1>6. \A i \in DOMAIN deque :
         /\ deque'[i] \in Requests
         /\ deque'[i].cv = deque[i].cv /\ deque'[i].no = deque[i].no
         /\ deque'[i].old = deque[i].old /\ deque'[i].unseen = deque[i].unseen
  <2> SUFFICES ASSUME NEW i \in DOMAIN deque
               PROVE  /\ deque'[i] \in Requests
                      /\ deque'[i].cv = deque[i].cv /\ deque'[i].no = deque[i].no
                      /\ deque'[i].old = deque[i].old
                      /\ deque'[i].unseen = deque[i].unseen
    OBVIOUS
  <2> DEFINE r == deque[i]
  <2>1. r \in Requests OBVIOUS
  <2>2. deque'[i] = [r EXCEPT !.aged = TRUE] BY <1>5
  <2> HIDE DEF r
  <2>3. deque'[i] \in Requests BY <2>1, <2>2 DEF Requests
  <2>4. /\ deque'[i].cv = r.cv /\ deque'[i].no = r.no
        /\ deque'[i].old = r.old /\ deque'[i].unseen = r.unseen
    BY <2>1, <2>2 DEF Requests
  <2>. QED BY <2>3, <2>4 DEF r
<1>7. deque' \in Seq(Requests) /\ Len(deque') = Len(deque)
  <2>1. deque' = [i \in DOMAIN deque' |-> deque'[i]] BY <1>5
  <2>. QED BY <1>4, <1>5, <1>6, <2>1, MappedTyped
<1>8. TypeOK' BY <1>3, <1>4, <1>7 DEF TypeOK
<1>9. Leftovers' /\ Tasks' BY <1>3 DEF Leftovers, Tasks
<1>10. InOrder' BY <1>5, <1>6 DEF InOrder
<1>11. Room' BY <1>7 DEF Room, Full
<1>12. WritesInOrder'
  <2>1. Writes(ring') = {} BY <1>2, <1>3 DEF Writes
  <2>2. \A i \in DOMAIN ring' : ring'[i].no <= calls BY <1>2, <1>3
  <2>. QED BY <2>1, <2>2 DEF WritesInOrder, Sorted, Writes
<1>13. Fresh' BY <1>5, <1>6 DEF Fresh
<1>14. Answered' BY <1>5, <1>6 DEF Answered
<1>. QED BY <1>8, <1>9, <1>10, <1>11, <1>12, <1>13, <1>14

LEMMA SuspendInv ==
    ASSUME Inv, DccLeave \/ DccSuspend
    PROVE  Inv'
<1> USE Elements DEF Inv
<1>1. CASE DccLeave
  <2> USE <1>1 DEF DccLeave
  <2>1. TypeOK' BY DEF TypeOK
  <2>2. Leftovers' /\ Tasks' /\ InOrder' /\ Room'
    BY DEF Leftovers, Tasks, InOrder, Room, Full
  <2>3. WritesInOrder' BY DEF WritesInOrder, Sorted, Writes
  <2>4. Fresh' /\ Answered' BY DEF Fresh, Answered
  <2>. QED BY <2>1, <2>2, <2>3, <2>4
<1>2. CASE DccSuspend
  <2> USE <1>2 DEF DccSuspend
  <2>1. deque' \in Seq(Requests) /\ Len(deque') = 0 /\ DOMAIN deque' = {}
    BY EmptyTyped
  <2>2. TypeOK' BY <2>1, PomAssumption DEF TypeOK
  <2>3. Leftovers' /\ Tasks' BY DEF Leftovers, Tasks
  <2>4. InOrder' BY <2>1 DEF InOrder
  <2>5. Room' BY <2>1, PomAssumption DEF Room, Full
  <2>6. WritesInOrder' BY DEF WritesInOrder, Sorted, Writes
  <2>7. Fresh' /\ Answered' BY <2>1 DEF Fresh, Answered
  <2>. QED BY <2>2, <2>3, <2>4, <2>5, <2>6, <2>7
<1>. QED BY <1>1, <1>2

LEMMA StepInv == Inv /\ [Next]_vars => Inv'
<1> SUFFICES ASSUME Inv, [Next]_vars PROVE Inv'
  OBVIOUS
<1>1. ASSUME NEW c \in Cvs, CvPomRead(c) PROVE Inv'
  BY <1>1, BeginInv DEF CvPomRead
<1>2. ASSUME NEW c \in Cvs, CvPomWrite(c) PROVE Inv'
  BY <1>2, BeginInv DEF CvPomWrite
<1>3. CASE CvPomReadFull BY <1>3, ReadFullInv
<1>4. CASE SendToFront BY <1>4, SendInv
<1>5. CASE PushBack BY <1>5, PushInv
<1>6. CASE DelayOver BY <1>6, DelayInv
<1>7. CASE PowerOn \/ PowerOff \/ ShortCircuit BY <1>7, PowerInv
<1>8. ASSUME NEW obeys \in BOOLEAN, NEW answers \in BOOLEAN, OutPacket(obeys, answers)
      PROVE  Inv'
  BY <1>8, PacketInv
<1>9. CASE OutLeave BY <1>9, LeaveInv
<1>10. CASE BiDiAck \/ BiDiIgnore \/ BiDiTimeout BY <1>10, BiDiInv
<1>11. CASE DccResume BY <1>11, ResumeInv
<1>12. CASE DccLeave \/ DccSuspend BY <1>12, SuspendInv
<1>13. CASE UNCHANGED vars
  BY <1>13 DEF vars, Inv, TypeOK, Leftovers, Tasks, InOrder, Room, Full, WritesInOrder,
     Sorted, Writes, Fresh, Answered
<1>. QED BY <1>1, <1>2, <1>3, <1>4, <1>5, <1>6, <1>7, <1>8, <1>9, <1>10, <1>11, <1>12,
     <1>13 DEF Next

-----------------------------------------------------------------------------
(* The theorems.                                                           *)

\* The deque, the front buffer, the ring and rx_queue hold what Inv says, whatever the
\* Z21 service, dcc::task and out::track::dcc do to them without a lock.
THEOREM SpecInv == Spec => []Inv
<1>1. Init => Inv BY InitInv
<1>2. Inv /\ [Next]_vars => Inv' BY StepInv
<1>. QED BY <1>1, <1>2, PTL DEF Spec

\* The value a client gets is one the CV held after its call began, unless answers to
\* earlier calls were still in rx_queue when operationsBiDi got its request.
THEOREM SpecAckFresh == Spec => AckFresh
<1>1. Inv /\ BiDiAck => Head(rx).value >= Head(deque).old \/ Head(deque).unseen
  <2> SUFFICES ASSUME Inv, BiDiAck, ~Head(deque).unseen
               PROVE  Head(rx).value >= Head(deque).old
    OBVIOUS
  <2>1. rx \in Seq(Items) /\ deque \in Seq(Requests) BY DEF Inv, TypeOK
  <2>2. rx # <<>> /\ deque # <<>> /\ Head(deque).cv = Head(rx).cv
    BY DEF BiDiAck, Matches
  <2>3. /\ Head(rx) = rx[1] /\ 1 \in DOMAIN rx
        /\ Head(deque) = deque[1] /\ 1 \in DOMAIN deque
    BY <2>1, <2>2, TailTyped
  <2>. QED BY <2>2, <2>3 DEF Inv, Fresh
<1>2. Inv /\ [Next]_vars
        => [BiDiAck => Head(rx).value >= Head(deque).old \/ Head(deque).unseen]_vars
  BY <1>1
<1>. QED BY <1>2, SpecInv, PTL DEF Spec, AckFresh

\* The client whose request is the first is not told of a time-out when the decoder had
\* answered it and rx_queue had room for the answer: cvNack comes after all of rx_queue
\* was looked at.
THEOREM SpecNackTrue == Spec => NackTrue
<1>1. Inv /\ BiDiTimeout => Head(deque).no \notin heard
  <2> SUFFICES ASSUME Inv, BiDiTimeout, Head(deque).no \in heard
               PROVE  FALSE
    OBVIOUS
  <2>1. deque \in Seq(Requests) /\ deque # <<>> /\ DOMAIN rx = {}
    BY EmptyTyped DEF Inv, TypeOK, BiDiTimeout
  <2>2. Head(deque) = deque[1] /\ 1 \in DOMAIN deque BY <2>1, TailTyped
  <2>. QED BY <2>1, <2>2 DEF Inv, Answered
<1>2. Inv /\ [Next]_vars => [BiDiTimeout => Head(deque).no \notin heard]_vars
  BY <1>1
<1>. QED BY <1>2, SpecInv, PTL DEF Spec, NackTrue

-----------------------------------------------------------------------------
(* DccScheduler                                                            *)

USE DccSchedulerAssumption DEF MinPriority, Burst

\* std::clamp keeps priorities and the count in their ranges.
LEMMA UpRange ==
    ASSUME NEW n \in 0..MaxPriority
    PROVE  Up(n) \in MinPriority..MaxPriority
BY DEF Up

\* A quarter of the buffer is enough for a burst.
LEMMA SpaceLeft ==
    ASSUME NEW u \in 0..Capacity, ~AboveThreeQuarters(u)
    PROVE  u + 4 <= Capacity
<1>1. Capacity <= 4 * (Capacity - u)
  BY DEF AboveThreeQuarters
<1>2. 16 <= 4 * (Capacity - u)
  BY <1>1
<1>. QED BY <1>2

-----------------------------------------------------------------------------
(* Ranges, and space for every burst                                       *)

LEMMA InitScheduler == SchedulerInit => SchedulerInv
BY DEF SchedulerInit, SchedulerInv, SchedulerTypeOK, NeverSpins

LEMMA StepScheduler ==
    ASSUME SchedulerInv, [SchedulerNext]_schedulerVars
    PROVE  SchedulerInv'
<1> USE DEF SchedulerInv, SchedulerTypeOK, NeverSpins
<1>1. ASSUME NEW a \in Addresses, Put(a) PROVE SchedulerInv'
      BY <1>1 DEF Put
<1>2. ASSUME NEW as \in SUBSET locos, Delete(as) PROVE SchedulerInv'
      BY <1>2 DEF Delete
<1>3. CASE PowerCycle BY <1>3 DEF PowerCycle
<1>4. CASE Drain BY <1>4 DEF Drain
<1>5. CASE BeginCall BY <1>5 DEF BeginCall, AboveHalf
<1>6. CASE SendIdle
      BY <1>6 DEF SendIdle, Send, ReturnOr, AboveThreeQuarters
<1>7. CASE PassEnd BY <1>7, UpRange DEF PassEnd
<1>8. ASSUME NEW a \in Addresses, Skip(a) PROVE SchedulerInv'
      BY <1>8 DEF Skip, Visit
<1>9. ASSUME NEW a \in Addresses, Refresh(a) PROVE SchedulerInv'
  <2>1. Up(priority[a]) \in MinPriority..MaxPriority
        BY UpRange
  <2>2. priority' \in [Addresses -> MinPriority..MaxPriority]
        BY <1>9, <2>1 DEF Refresh
  <2>3. used' \in 0..Capacity
        BY <1>9 DEF Refresh, Send
  <2>4. /\ pc' \in {"idle", "pass"} /\ todo' \subseteq locos
        /\ pc' = "idle" => todo' = {}
        /\ pc' = "pass" => used' + 4 <= Capacity
    <3>1. CASE AboveThreeQuarters(used')
          BY <1>9, <3>1 DEF Refresh, ReturnOr
    <3>2. CASE ~AboveThreeQuarters(used')
      <4>1. pc' = pc /\ todo' = todo \ {a} /\ pc = "pass"
            BY <1>9, <3>2 DEF Refresh, Visit, ReturnOr
      <4>2. used' + 4 <= Capacity
            BY <2>3, <3>2, SpaceLeft
      <4>. QED BY <4>1, <4>2
    <3>. QED BY <3>1, <3>2
  <2>. QED BY <1>9, <2>2, <2>3, <2>4 DEF Refresh
<1>10. CASE UNCHANGED schedulerVars BY <1>10 DEF schedulerVars
<1>. QED
  BY <1>1, <1>2, <1>3, <1>4, <1>5, <1>6, <1>7, <1>8, <1>9, <1>10
  DEF SchedulerNext, OperationsDcc

\* A call always finds the space it needs, and counts and priorities keep
\* their ranges: no priority is 0, and operationsDcc divides by priorities.
THEOREM SchedulerInvariance == SchedulerSpec => []SchedulerInv
BY InitScheduler, StepScheduler, PTL DEF SchedulerSpec

-----------------------------------------------------------------------------
(* The end of a call                                                       *)

\* The count is due at the priority which keeps step with it and not at the next.
LEMMA DueAtCount ==
    ASSUME NEW n \in Nat, n >= 1
    PROVE  n % n = 0 /\ n % (n + 1) = n
OBVIOUS

\* Locos are never taken away and the count is never set back to 0.
OnlyPut == Inputs \subseteq {"put"}

LEMMA InitLockstep == SchedulerInit => Lockstep
BY DEF SchedulerInit, Lockstep

LEMMA NextLockstep ==
    ASSUME OnlyPut, SchedulerInv, Lockstep, [SchedulerNext]_schedulerVars
    PROVE  Lockstep'
<1> USE DEF SchedulerInv, SchedulerTypeOK, Lockstep, Leader
<1>1. ASSUME NEW a \in Addresses, Put(a) PROVE Lockstep'
  <2>1. CASE locos = {}
        BY <1>1, <2>1 DEF Put
  <2>2. CASE locos # {}
    <3>1. PICK l \in locos : Leader(l)
          BY <2>2
    <3>2. l \in locos' /\ Leader(l)'
          BY <1>1, <3>1 DEF Put
    <3>. QED BY <1>1, <3>2 DEF Put
  <2>. QED BY <2>1, <2>2
<1>2. CASE Drain BY <1>2 DEF Drain
<1>3. CASE BeginCall
  <2>1. CASE count = MaxPriority
        BY <1>3, <2>1 DEF BeginCall
  <2>2. CASE count # MaxPriority
        BY <1>3, <2>2 DEF BeginCall
  <2>. QED BY <2>1, <2>2
<1>4. CASE SendIdle BY <1>4 DEF SendIdle
<1>5. CASE PassEnd
  <2>1. PICK l \in locos : priority[l] = Up(count)
        BY <1>5 DEF PassEnd
  <2>2. Leader(l)' /\ count' >= 1
        BY <1>5, <2>1, UpRange DEF PassEnd
  <2>. QED BY <1>5, <2>2 DEF PassEnd
<1>6. ASSUME NEW a \in Addresses, Skip(a) PROVE Lockstep'
  <2>1. PICK l \in locos : Leader(l)
        BY <1>6 DEF Skip, Visit
  <2>2. l = a => priority[l] = Up(count)
        BY <1>6, <2>1, DueAtCount DEF Skip, Due
  <2>3. Leader(l)'
        BY <1>6, <2>1, <2>2 DEF Skip
  <2>. QED BY <1>6, <2>3 DEF Skip
<1>7. ASSUME NEW a \in Addresses, Refresh(a) PROVE Lockstep'
  <2>1. PICK l \in locos : Leader(l)
        BY <1>7 DEF Refresh, Visit
  <2>2. l = a => priority'[l] = Up(count)
    <3>1. SUFFICES ASSUME l = a
                   PROVE  Up(priority[a]) = Up(count)
          BY <1>7 DEF Refresh
    <3>2. CASE priority[a] = count
          BY <3>2
    <3>3. CASE priority[a] # count
      <4>1. priority[a] = count + 1
            BY <2>1, <3>1, <3>3 DEF Up
      <4>2. count % (count + 1) = count
            BY DueAtCount
      <4>. QED BY <1>7, <4>1, <4>2 DEF Refresh, Due
    <3>. QED BY <3>2, <3>3
  <2>3. l # a => priority'[l] = priority[l] /\ (l \in todo => l \in todo' \/ pc' = "idle")
        BY <1>7 DEF Refresh, ReturnOr
  <2>4. Leader(l)'
        BY <1>7, <2>1, <2>2, <2>3 DEF Refresh, ReturnOr
  <2>. QED BY <1>7, <2>4 DEF Refresh
<1>8. CASE UNCHANGED schedulerVars BY <1>8 DEF schedulerVars
<1>. QED
  BY <1>1, <1>2, <1>3, <1>4, <1>5, <1>6, <1>7, <1>8
  DEF SchedulerNext, OperationsDcc, OnlyPut, Delete, PowerCycle

\* While locos are only added, a call whose count has reached its end has a
\* loco left to send for: the loop of operationsDcc cannot turn idly for ever.
THEOREM AlwaysSomeoneDue == OnlyPut => (SchedulerSpec => []NeverStuck)
<1>1. SchedulerInv /\ Lockstep => NeverStuck
  BY DueAtCount DEF SchedulerInv, SchedulerTypeOK, Lockstep, Leader, NeverStuck, Stuck, Due, Up
<1>2. OnlyPut /\ SchedulerInv /\ Lockstep /\ [SchedulerNext]_schedulerVars => Lockstep'
  BY NextLockstep
<1>3. OnlyPut /\ SchedulerSpec => []Lockstep
  <2>1. SUFFICES ASSUME OnlyPut PROVE SchedulerSpec => []Lockstep
        OBVIOUS
  <2>2. SchedulerInv /\ Lockstep /\ [SchedulerNext]_schedulerVars => Lockstep'
        BY <2>1, <1>2
  <2>. QED BY <2>2, InitLockstep, SchedulerInvariance, PTL DEF SchedulerSpec
<1>. QED BY <1>1, <1>3, SchedulerInvariance, PTL

=============================================================================
