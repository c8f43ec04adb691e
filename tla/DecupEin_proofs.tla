-------------------------- MODULE DecupEin_proofs --------------------------
(***************************************************************************)
(* Proofs about DecupEin, for any decoders, lengths of packets, sizes of   *)
(* the RMT memory and numbers of repetitions, mistakes and late pulses:    *)
(* host, firmware and decoder stay in step, and an acknowledge is true     *)
(* until the first pulse behind its window was counted.                    *)
(***************************************************************************)
EXTENDS DecupEin, FiniteSetTheorems, SequenceTheorems, TLAPS

-----------------------------------------------------------------------------
(* The exclusive disjunction of bytes                                      *)

LEMMA OddTyped ==
    ASSUME NEW s \in Seq(Bytes), NEW k \in 1..8
    PROVE  IsFiniteSet(Having(s, k)) /\ Cardinality(Having(s, k)) \in Nat
           /\ Odd(s, k) \in {0, 1}
<1>1. IsFiniteSet(DOMAIN s) BY FS_Interval, LenProperties
<1>2. Having(s, k) \subseteq DOMAIN s BY DEF Having
<1>3. IsFiniteSet(Having(s, k)) BY <1>1, <1>2, FS_Subset
<1>4. Cardinality(Having(s, k)) \in Nat BY <1>3, FS_CardinalityType
<1>. QED BY <1>3, <1>4 DEF Odd

LEMMA SumOfBits ==
    ASSUME NEW o \in [1..8 -> {0, 1}]
    PROVE  LET n == o[1] + 2 * o[2] + 4 * o[3] + 8 * o[4]
                      + 16 * o[5] + 32 * o[6] + 64 * o[7] + 128 * o[8]
           IN  n \in Bytes /\ \A k \in 1..8 : Bit(n, k) = o[k]
<1>. DEFINE n == o[1] + 2 * o[2] + 4 * o[3] + 8 * o[4]
                   + 16 * o[5] + 32 * o[6] + 64 * o[7] + 128 * o[8]
<1>0. /\ o[1] \in {0, 1} /\ o[2] \in {0, 1} /\ o[3] \in {0, 1} /\ o[4] \in {0, 1}
      /\ o[5] \in {0, 1} /\ o[6] \in {0, 1} /\ o[7] \in {0, 1} /\ o[8] \in {0, 1}
  OBVIOUS
<1>1. n \in Bytes BY <1>0 DEF Bytes
<1>2. Bit(n, 1) = o[1] BY <1>0 DEF Bit, Place
<1>3. Bit(n, 2) = o[2] BY <1>0 DEF Bit, Place
<1>4. Bit(n, 3) = o[3] BY <1>0 DEF Bit, Place
<1>5. Bit(n, 4) = o[4] BY <1>0 DEF Bit, Place
<1>6. Bit(n, 5) = o[5] BY <1>0 DEF Bit, Place
<1>7. Bit(n, 6) = o[6] BY <1>0 DEF Bit, Place
<1>8. Bit(n, 7) = o[7] BY <1>0 DEF Bit, Place
<1>9. Bit(n, 8) = o[8] BY <1>0 DEF Bit, Place
<1>10. 1..8 = {1, 2, 3, 4, 5, 6, 7, 8} OBVIOUS
<1>11. \A k \in 1..8 : Bit(n, k) = o[k]
  <2>. HIDE DEF n
  <2>. QED BY <1>2, <1>3, <1>4, <1>5, <1>6, <1>7, <1>8, <1>9, <1>10
<1>. QED BY <1>1, <1>11

\* The exclusive disjunction of bytes is a byte, and has the bits it should have.
LEMMA ExorBits ==
    ASSUME NEW s \in Seq(Bytes)
    PROVE  Exor(s) \in Bytes /\ \A k \in 1..8 : Bit(Exor(s), k) = Odd(s, k)
<1>. DEFINE o == [k \in 1..8 |-> Odd(s, k)]
<1>1. o \in [1..8 -> {0, 1}] BY OddTyped
<1>2. Exor(s) = o[1] + 2 * o[2] + 4 * o[3] + 8 * o[4]
                  + 16 * o[5] + 32 * o[6] + 64 * o[7] + 128 * o[8]
  BY DEF Exor
<1>3. Exor(s) \in Bytes /\ \A k \in 1..8 : Bit(Exor(s), k) = o[k]
  <2>. HIDE DEF o
  <2>. QED BY <1>1, <1>2, SumOfBits
<1>. QED BY <1>3

LEMMA Parity ==
    ASSUME NEW S, NEW T, Cardinality(S) \in Nat, Cardinality(T) = Cardinality(S) + 1
    PROVE  Cardinality(T) % 2 = 1 - (Cardinality(S) % 2)
<1>. DEFINE c == Cardinality(S)
            d == Cardinality(T)
<1>1. c \in Nat /\ d = c + 1 OBVIOUS
<1>. HIDE DEF c, d
<1>2. d % 2 = 1 - (c % 2) BY <1>1
<1>. QED BY <1>2 DEF c, d

LEMMA OddGrows ==
    ASSUME NEW s, NEW t, NEW k, Cardinality(Having(s, k)) \in Nat,
           Cardinality(Having(t, k)) = Cardinality(Having(s, k)) + 1
    PROVE  Odd(t, k) = 1 - Odd(s, k)
BY Parity DEF Odd

\* One more byte changes the parity of the bits it has.
LEMMA OddAppend ==
    ASSUME NEW s \in Seq(Bytes), NEW b \in Bytes, NEW k \in 1..8
    PROVE  Odd(Append(s, b), k) = IF Bit(b, k) = 1 THEN 1 - Odd(s, k) ELSE Odd(s, k)
<1>. DEFINE t == Append(s, b)
            n == Len(s) + 1
<1>1. /\ Len(s) \in Nat /\ DOMAIN s = 1..Len(s) /\ DOMAIN t = 1..n
      /\ t[n] = b /\ \A i \in DOMAIN s : t[i] = s[i] /\ i # n
  BY AppendProperties, LenProperties
<1>2. CASE Bit(b, k) = 1
  <2>1. Having(t, k) = Having(s, k) \cup {n} BY <1>1, <1>2 DEF Having
  <2>2. n \notin Having(s, k) BY <1>1 DEF Having
  <2>3. Cardinality(Having(t, k)) = Cardinality(Having(s, k)) + 1
    BY <2>1, <2>2, OddTyped, FS_AddElement
  <2>4. Cardinality(Having(s, k)) \in Nat BY OddTyped
  <2>. QED BY <2>3, <2>4, <1>2, OddGrows
<1>3. CASE Bit(b, k) # 1
  <2>1. Having(t, k) = Having(s, k) BY <1>1, <1>3 DEF Having
  <2>. QED BY <2>1, <1>3 DEF Odd
<1>. QED BY <1>2, <1>3

\* A checksum makes the exclusive disjunction vanish.
LEMMA ChecksumFits ==
    ASSUME NEW s \in Seq(Bytes)
    PROVE  Append(s, Exor(s)) \in Seq(Bytes) /\ Exor(Append(s, Exor(s))) = 0
<1>1. Exor(s) \in Bytes /\ \A k \in 1..8 : Bit(Exor(s), k) = Odd(s, k)
  BY ExorBits
<1>2. Append(s, Exor(s)) \in Seq(Bytes) BY <1>1, AppendProperties
<1>3. \A k \in 1..8 : Odd(s, k) \in {0, 1} BY OddTyped
<1>4. \A k \in 1..8 : Odd(Append(s, Exor(s)), k) = 0
  BY <1>1, <1>3, OddAppend
<1>. QED BY <1>2, <1>4 DEF Exor

LEMMA SizeTyped ==
    ASSUME NEW d
    PROVE  Size(d) \in Nat /\ Size(d) >= 2
BY DecupAssumption DEF Size

\* The packets of the image have their length and their checksum.
LEMMA DataTyped ==
    ASSUME NEW d
    PROVE  Data(d) \in Seq(Bytes) /\ Len(Data(d)) = Size(d) /\ Exor(Data(d)) = 0
<1>. DEFINE n == Size(d) - 1
            head == [i \in 1..n |-> (16 + i) % 256]
<1>1. n \in Nat BY SizeTyped
<1>2. \A i \in 1..n : (16 + i) % 256 \in Bytes BY DEF Bytes
<1>3. head \in [1..n -> Bytes] BY <1>2
<1>4. head \in Seq(Bytes) /\ Len(head) = n BY <1>1, <1>3
<1>5. Data(d) = Append(head, Exor(head)) BY DEF Data
<1>6. Data(d) \in Seq(Bytes) /\ Exor(Data(d)) = 0 BY <1>4, <1>5, ChecksumFits
<1>7. Len(Data(d)) = n + 1
  <2>1. Exor(head) \in Bytes BY <1>4, ExorBits
  <2>. HIDE DEF head
  <2>. QED BY <1>4, <1>5, <2>1, AppendProperties
<1>. QED BY <1>6, <1>7, SizeTyped

-----------------------------------------------------------------------------
(* Sequences and the script of the host                                    *)

LEMMA EmptyTyped ==
    ASSUME NEW S
    PROVE  <<>> \in Seq(S) /\ Len(<<>>) = 0 /\ DOMAIN <<>> = {}
OBVIOUS

LEMMA DomainOf ==
    ASSUME NEW S, NEW s \in Seq(S)
    PROVE  /\ Len(s) \in Nat /\ DOMAIN s = 1..Len(s) /\ (s = <<>> <=> Len(s) = 0)
           /\ s # <<>> => Head(s) = s[1] /\ Head(s) \in S
OBVIOUS

LEMMA TailTyped ==
    ASSUME NEW S, NEW s \in Seq(S), s # <<>>
    PROVE  /\ Tail(s) \in Seq(S) /\ Len(s) \in Nat /\ Len(Tail(s)) = Len(s) - 1
           /\ Head(s) = s[1] /\ Head(s) \in S
OBVIOUS

LEMMA AppendTyped ==
    ASSUME NEW S, NEW s \in Seq(S), NEW e \in S
    PROVE  /\ Append(s, e) \in Seq(S) /\ Len(s) \in Nat
           /\ Len(Append(s, e)) = Len(s) + 1 /\ Append(s, e) # <<>>
           /\ s = <<>> => Append(s, e) = <<e>> /\ Head(Append(s, e)) = e
           /\ s # <<>> => Head(Append(s, e)) = Head(s)
<1>1. /\ Append(s, e) \in Seq(S) /\ Len(s) \in Nat
      /\ Len(Append(s, e)) = Len(s) + 1 /\ Append(s, e) # <<>>
  BY AppendProperties, LenProperties
<1>2. s = <<>> => Append(s, e) = <<e>> OBVIOUS
<1>3. Head(<<e>>) = e OBVIOUS
<1>4. s # <<>> => Head(Append(s, e)) = Head(s) BY HeadTailAppend
<1>. QED BY <1>1, <1>2, <1>3, <1>4

LEMMA SingleTyped ==
    ASSUME NEW S, NEW e \in S
    PROVE  /\ <<e>> \in Seq(S) /\ Len(<<e>>) = 1 /\ <<e>> # <<>>
           /\ Head(<<e>>) = e /\ Tail(<<e>>) = <<>> /\ <<e>>[1] = e
OBVIOUS

LEMMA LengthOne ==
    ASSUME NEW S, NEW s \in Seq(S), Len(s) = 1
    PROVE  s = <<s[1]>> /\ s[1] \in S /\ Tail(s) = <<>> /\ Head(s) = s[1] /\ s # <<>>
<1>1. s # <<>> /\ s[1] \in S /\ Head(s) = s[1] OBVIOUS
<1>2. s = <<s[1]>> OBVIOUS
<1>3. Tail(s) = <<>>
  <2>1. Tail(s) \in Seq(S) /\ Len(Tail(s)) = 0 BY <1>1, HeadTailProperties
  <2>. QED BY <2>1, EmptySeq
<1>. QED BY <1>1, <1>2, <1>3

\* What is moved from the head of one sequence to the end of another stays in its
\* place in both of them together.
LEMMA Moved ==
    ASSUME NEW S, NEW s \in Seq(S), NEW t \in Seq(S), t # <<>>
    PROVE  Append(s, Head(t)) \o Tail(t) = s \o t
OBVIOUS

LEMMA LastTyped == Last \in Nat /\ Last >= 5
BY DecupAssumption DEF Last

LEMMA ScriptIs ==
    ASSUME NEW d, NEW u \in 1..Last
    PROVE  /\ u = 1 => Script(d)[u] = <<239>>
           /\ u = 2 => Script(d)[u] = <<d>>
           /\ u = 3 => Script(d)[u] = <<40>>
           /\ u = 4 => Script(d)[u] = <<85>>
           /\ u = 5 => Script(d)[u] = <<170>>
           /\ u > 5 => Script(d)[u] = Data(d)
<1>1. Script(d)[u] = IF u <= 5 THEN <<Opening(d)[u]>> ELSE Data(d)
  BY DEF Script
<1>2. u \in Nat BY LastTyped
<1>3. CASE u <= 5
  <2>1. Script(d)[u] = <<Opening(d)[u]>> BY <1>1, <1>3
  <2>2. /\ Opening(d)[1] = 239 /\ Opening(d)[2] = d /\ Opening(d)[3] = 40
        /\ Opening(d)[4] = 85 /\ Opening(d)[5] = 170
    BY DEF Opening, Security1, Security2
  <2>. QED BY <2>1, <2>2, <1>3, <1>2
<1>4. CASE ~(u <= 5) BY <1>1, <1>2, <1>4
<1>. QED BY <1>3, <1>4

LEMMA ScriptTyped ==
    ASSUME NEW d \in Ids, NEW u \in 1..Last
    PROVE  /\ Script(d)[u] \in Seq(Bytes) /\ Script(d)[u] # <<>>
           /\ Len(Script(d)[u]) = (IF u <= 5 THEN 1 ELSE Size(d))
<1>1. u \in Nat /\ d \in Bytes BY LastTyped, DecupAssumption DEF Bytes
<1>2. /\ 239 \in Bytes /\ 40 \in Bytes /\ 85 \in Bytes /\ 170 \in Bytes
  BY DEF Bytes
<1>3. CASE u <= 5
  <2>1. u \in {1, 2, 3, 4, 5} BY <1>1, <1>3
  <2>2. \E b \in Bytes : Script(d)[u] = <<b>> BY <2>1, <1>1, <1>2, ScriptIs
  <2>. QED BY <2>2, <1>3, SingleTyped
<1>4. CASE ~(u <= 5)
  <2>1. Script(d)[u] = Data(d) BY <1>1, <1>4, ScriptIs
  <2>2. Len(Data(d)) > 0 BY DataTyped, SizeTyped
  <2>. QED BY <2>1, <2>2, <1>4, DataTyped, DomainOf
<1>. QED BY <1>3, <1>4

-----------------------------------------------------------------------------
(* The inductive invariant                                                 *)

\* The frame which is under way, whether the decoder has heard it, and the pulses
\* counted for it.
Sent == IF front # <<>> THEN Head(front) ELSE frame
Heard == out = "count" \/ rx # <<>>
Counted == IF rx # <<>> THEN Head(rx) ELSE acks
Pending == pulses + due

\* There is one frame under way while the firmware waits for its pulses, and none else.
OneUnderway ==
    /\ usb = "idle" => front = <<>> /\ rx = <<>> /\ out = "wait"
    /\ usb = "receive" =>
          /\ \/ Len(front) = 1 /\ rx = <<>> /\ out = "wait"
             \/ front = <<>> /\ rx = <<>> /\ out # "wait"
             \/ front = <<>> /\ Len(rx) = 1 /\ out = "wait"
          /\ state # "Entry"
          /\ state = "Data" => Sent = packet /\ Len(packet) >= Size(id)
          /\ state # "Data" => Len(Sent) = 1
    /\ state # "Data" => packet = <<>>

Stage(u) ==
    IF u <= 5 THEN <<"Preamble", "Startbyte", "Blockcount", "SecurityByte1",
                     "SecurityByte2">>[u]
              ELSE "Data"
Silent == in = <<>> /\ host.left = <<>>

\* Where the host is, when it makes no mistake: it sends a unit, stands where nothing
\* came of it, waits for what comes of it, or has an acknowledge to look at.
Sending ==
    /\ tx = 0 /\ usb = "idle" /\ ~Done
    /\ (packet \o in) \o host.left = Unit /\ Len(packet) < Len(Unit)
    /\ \/ state = Stage(host.unit)
       \/ host.unit = 1 /\ state = "Entry"
       \/ host.unit = 2 /\ state = "Preamble"
Standing ==
    /\ tx = 0 /\ usb = "idle" /\ Silent /\ packet = <<>>
    /\ state = Stage(host.unit)
Waiting ==
    /\ tx = 0 /\ usb = "receive" /\ Silent /\ ~Done
    /\ Sent = Unit /\ state = Stage(host.unit)
Answered ==
    /\ tx = 1 /\ usb = "idle" /\ Silent /\ packet = <<>>
    /\ host.unit \in 2..Last /\ state = Stage(host.unit + 1)
Selected == state \notin {"Entry", "Preamble", "Startbyte"} => id = host.id
Following == slips = 0 => Selected /\ (Sending \/ Standing \/ Waiting \/ Answered)

\* Behind the first acknowledge the firmware is in the state of the decoder.
Together == state \in DOMAIN Pulses \ {"Startbyte"} => decoder = state

\* As long as no foreign pulse was counted, the pulses of a frame are those which came
\* since it was sent and those which are due.
Owned ==
    /\ out = "encode" => Pending = 0 /\ acks = 0
    /\ ~Heard /\ Pending = 0 => Together
    /\ Heard => Counted + Pending <= 2
    /\ Heard /\ took => /\ state \in DOMAIN Pulses /\ decoder = Then[state]
                        /\ Counted + Pending = Pulses[state]
    /\ Heard /\ ~took /\ state # "Preamble" =>
          Together /\ Counted + Pending < Pulses[state]
Attributed == ~foreign => Owned

\* Without a late pulse there is none between two frames.
NoStray == lates = 0 => ~foreign /\ (out # "count" => Pending = 0)

\* Up to the first acknowledge the decoder waits for its byte.
InStart ==
    lates = 0 /\ slips = 0 /\ state \in {"Entry", "Preamble", "Startbyte"} =>
        decoder = "Startbyte" \/ (Heard /\ took)

IInv ==
    /\ TypeOK /\ FromTheStart /\ OneUnderway /\ Following /\ Attributed /\ NoStray
    /\ InStart /\ (abort => slips > 0)

-----------------------------------------------------------------------------
(* Every action keeps the types                                            *)

LEMMA PulsesTyped ==
    /\ DOMAIN Pulses = {"Startbyte", "Blockcount", "SecurityByte1", "SecurityByte2",
                        "Data"}
    /\ DOMAIN SecurityByte = {"SecurityByte1", "SecurityByte2"}
    /\ \A s \in DOMAIN Pulses : /\ Pulses[s] \in {1, 2}
                                /\ Then[s] \in DOMAIN Pulses \ {"Startbyte"}
    /\ States = DOMAIN Pulses \cup {"Entry", "Preamble"}
BY DEF Pulses, Then, States, SecurityByte

LEMMA InitTypeOK == Init => TypeOK
<1>. SUFFICES ASSUME Init PROVE TypeOK
  OBVIOUS
<1>1. host \in [id : Ids, unit : 1..(Last + 1), left : Seq(Bytes)]
  <2>1. PICK d \in Ids : host = [id |-> d, unit |-> 1, left |-> Script(d)[1]] BY DEF Init
  <2>2. 1 \in 1..Last /\ 1 \in 1..(Last + 1) BY LastTyped
  <2>. QED BY <2>1, <2>2, ScriptTyped
<1>2. /\ in \in Seq(Bytes) /\ packet \in Seq(Bytes) /\ frame \in Seq(Bytes)
      /\ front \in Seq(Seq(Bytes)) /\ rx \in Seq(Nat)
  BY EmptyTyped DEF Init
<1>3. repeats \in 0..MaxRepeats /\ slips \in 0..MaxSlips /\ lates \in 0..MaxLates
  BY DecupAssumption DEF Init
<1>4. /\ tx \in Nat /\ usb \in {"idle", "receive"} /\ state \in States /\ id \in Bytes
      /\ out \in {"wait", "encode", "count"} /\ symbols \in Nat /\ acks \in Nat
      /\ pulses \in Nat /\ decoder \in DOMAIN Pulses /\ due \in Nat
  BY PulsesTyped DEF Init, States, Bytes
<1>5. took \in BOOLEAN /\ foreign \in BOOLEAN /\ abort \in BOOLEAN BY DEF Init
<1>. QED BY <1>1, <1>2, <1>3, <1>4, <1>5 DEF TypeOK

LEMMA HostTyped ==
    ASSUME TypeOK
    PROVE  /\ host.id \in Ids /\ host.unit \in 1..(Last + 1) /\ host.left \in Seq(Bytes)
           /\ host.unit \in Nat /\ (~Done => host.unit \in 1..Last) /\ Last \in Nat
           /\ host = [id |-> host.id, unit |-> host.unit, left |-> host.left]
BY LastTyped DEF TypeOK, Done

LEMMA HostByteTypeOK == ASSUME TypeOK, HostByte PROVE TypeOK'
<1>. USE DEF HostByte, usbVars, outVars, decoderVars, bounds
<1>1. /\ Head(host.left) \in Bytes /\ Tail(host.left) \in Seq(Bytes)
  BY HostTyped, TailTyped
<1>2. in' \in Seq(Bytes) BY <1>1, AppendTyped DEF TypeOK
<1>3. host' \in [id : Ids, unit : 1..(Last + 1), left : Seq(Bytes)]
  BY <1>1, HostTyped
<1>. QED BY <1>2, <1>3 DEF TypeOK

LEMMA HostNextTypeOK == ASSUME TypeOK, HostNext PROVE TypeOK'
<1>. USE DEF HostNext, usbVars, outVars, decoderVars, bounds
<1>1. host.unit \in 1..Last /\ host.unit + 1 \in 1..(Last + 1)
  BY HostTyped, LastTyped
<1>2. host.unit # Last => Script(host.id)[host.unit + 1] \in Seq(Bytes)
  <2>1. host.unit # Last => host.unit + 1 \in 1..Last BY <1>1, LastTyped
  <2>. QED BY <2>1, HostTyped, ScriptTyped
<1>3. host' \in [id : Ids, unit : 1..(Last + 1), left : Seq(Bytes)]
  BY <1>1, <1>2, HostTyped, EmptyTyped
<1>4. tx' \in Nat BY DEF TypeOK
<1>. QED BY <1>3, <1>4 DEF TypeOK

LEMMA HostRepeatTypeOK == ASSUME TypeOK, HostRepeat PROVE TypeOK'
<1>. USE DEF HostRepeat, usbVars, outVars, decoderVars
<1>1. Unit \in Seq(Bytes) BY HostTyped, ScriptTyped DEF Unit
<1>2. host' \in [id : Ids, unit : 1..(Last + 1), left : Seq(Bytes)]
  BY <1>1, HostTyped
<1>3. repeats' \in 0..MaxRepeats
  <2>1. repeats \in 0..MaxRepeats BY DEF TypeOK
  <2>2. repeats < MaxRepeats /\ repeats' = repeats + 1 OBVIOUS
  <2>3. MaxRepeats \in Nat BY DecupAssumption
  <2>. QED BY <2>1, <2>2, <2>3
<1>. QED BY <1>2, <1>3 DEF TypeOK

LEMMA HostSlipTypeOK == ASSUME TypeOK, HostSlip PROVE TypeOK'
<1>. USE DEF HostSlip, usbVars, outVars, decoderVars
<1>1. 1 \in 1..Last /\ 1 \in 1..(Last + 1) BY LastTyped
<1>2. Script(host.id)[1] \in Seq(Bytes) BY <1>1, HostTyped, ScriptTyped
<1>3. \A byte \in Wrong : <<byte>> \in Seq(Bytes)
  BY DecupAssumption, SingleTyped DEF Bytes
<1>4. host' \in [id : Ids, unit : 1..(Last + 1), left : Seq(Bytes)]
  BY <1>1, <1>2, <1>3, HostTyped
<1>5. slips' \in 0..MaxSlips
  <2>1. slips \in 0..MaxSlips BY DEF TypeOK
  <2>2. slips < MaxSlips /\ slips' = slips + 1 OBVIOUS
  <2>3. MaxSlips \in Nat BY DecupAssumption
  <2>. QED BY <2>1, <2>2, <2>3
<1>. QED BY <1>4, <1>5 DEF TypeOK

\* A byte is taken from the buffer.
LEMMA ReadTyped ==
    ASSUME TypeOK, Read
    PROVE  Head(in) \in Bytes /\ in' \in Seq(Bytes) /\ in # <<>> /\ usb = "idle"
BY TailTyped DEF TypeOK, Read

LEMMA TransmitTyped ==
    ASSUME TypeOK, NEW bytes \in Seq(Bytes), Transmit(bytes)
    PROVE  front' \in Seq(Seq(Bytes)) /\ usb' = "receive"
BY AppendTyped DEF TypeOK, Transmit

LEMMA UsbTypeOK ==
    ASSUME TypeOK, Ignore \/ Leading \/ Count \/ Security \/ DataByte
    PROVE  TypeOK'
<1>. USE DEF hostVars, outVars, decoderVars, bounds
<1>0. Head(in) \in Bytes /\ in' \in Seq(Bytes) /\ <<Head(in)>> \in Seq(Bytes)
  <2>1. Read BY DEF Ignore, Leading, Count, Security, DataByte
  <2>. QED BY <2>1, ReadTyped, SingleTyped
<1>1. CASE Ignore BY <1>0, <1>1 DEF TypeOK, Ignore, usbVars
<1>2. CASE Leading
  <2>1. front' \in Seq(Seq(Bytes)) /\ usb' = "receive"
    BY <1>0, <1>2, TransmitTyped DEF Leading
  <2>2. state' \in States BY <1>2 DEF Leading, States
  <2>. QED BY <1>0, <1>2, <2>1, <2>2 DEF TypeOK, Leading
<1>3. CASE Count
  <2>1. front' \in Seq(Seq(Bytes)) /\ usb' = "receive"
    BY <1>0, <1>3, TransmitTyped DEF Count
  <2>. QED BY <1>0, <1>3, <2>1 DEF TypeOK, Count
<1>4. CASE Security
  <2>1. CASE Head(in) = SecurityByte[state]
    <3>1. front' \in Seq(Seq(Bytes)) /\ usb' = "receive"
      BY <1>0, <1>4, <2>1, TransmitTyped DEF Security
    <3>. QED BY <1>0, <1>4, <2>1, <3>1 DEF TypeOK, Security
  <2>2. CASE Head(in) # SecurityByte[state]
    <3>1. packet' \in Seq(Bytes) /\ state' \in States /\ id' \in Bytes
      BY <1>4, <2>2, EmptyTyped DEF Security, States, Bytes
    <3>2. usb' = usb /\ front' = front BY <1>4, <2>2 DEF Security
    <3>. QED BY <1>0, <1>4, <3>1, <3>2 DEF TypeOK, Security
  <2>. QED BY <2>1, <2>2
<1>5. CASE DataByte
  <2>1. packet' \in Seq(Bytes) BY <1>0, <1>5, AppendTyped DEF DataByte, TypeOK
  <2>2. front' \in Seq(Seq(Bytes)) /\ usb' \in {"idle", "receive"}
    <3>1. CASE Whole(packet') BY <1>5, <2>1, <3>1, TransmitTyped DEF DataByte
    <3>2. CASE ~Whole(packet') BY <1>5, <3>2 DEF DataByte, TypeOK
    <3>. QED BY <3>1, <3>2
  <2>. QED BY <1>0, <1>5, <2>1, <2>2 DEF TypeOK, DataByte
<1>. QED BY <1>1, <1>2, <1>3, <1>4, <1>5

\* The frame which the host's byte went into is answered.
LEMMA ReceiveFacts ==
    ASSUME TypeOK, OneUnderway, UsbReceive
    PROVE  /\ usb = "receive" /\ front = <<>> /\ Len(rx) = 1 /\ out = "wait"
           /\ rx # <<>> /\ Head(rx) \in Nat /\ rx' = <<>> /\ usb' = "idle"
           /\ state \in DOMAIN Pulses \cup {"Preamble"}
           /\ frame = Sent
           /\ state # "Data" => Len(frame) = 1 /\ frame[1] \in Bytes
<1>1. usb = "receive" /\ rx # <<>> /\ rx' = Tail(rx) /\ usb' = "idle"
  BY DEF UsbReceive
<1>2. front = <<>> /\ Len(rx) = 1 /\ out = "wait" BY <1>1, EmptyTyped DEF OneUnderway, TypeOK
<1>3. rx \in Seq(Nat) /\ frame \in Seq(Bytes) /\ state \in States BY DEF TypeOK
<1>4. Head(rx) \in Nat /\ rx' = <<>> BY <1>1, <1>2, <1>3, LengthOne
<1>5. state \in DOMAIN Pulses \cup {"Preamble"}
  BY <1>1, <1>3, PulsesTyped DEF OneUnderway
<1>6. frame = Sent BY <1>2 DEF Sent
<1>7. state # "Data" => Len(frame) = 1 BY <1>1, <1>6 DEF OneUnderway
<1>8. state # "Data" => frame[1] \in Bytes BY <1>3, <1>7, LengthOne
<1>. QED BY <1>1, <1>2, <1>4, <1>5, <1>6, <1>7, <1>8

LEMMA ReceiveTypeOK == ASSUME TypeOK, OneUnderway, UsbReceive PROVE TypeOK'
<1>1. rx' \in Seq(Nat) /\ usb' \in {"idle", "receive"} /\ packet' \in Seq(Bytes)
  BY ReceiveFacts, EmptyTyped DEF UsbReceive
<1>2. tx' \in Nat /\ state' \in States /\ id' \in Bytes /\ abort' \in BOOLEAN
  <2>1. CASE Acknowledged(Head(rx))
    <3>1. state \in DOMAIN Pulses BY <2>1, ReceiveFacts DEF Acknowledged
    <3>2. state' \in States BY <2>1, <3>1, PulsesTyped DEF UsbReceive
    <3>3. tx' \in Nat BY <2>1 DEF UsbReceive, TypeOK
    <3>4. id' \in Bytes BY <2>1, ReceiveFacts DEF UsbReceive, TypeOK
    <3>5. abort' \in BOOLEAN BY <2>1 DEF UsbReceive
    <3>. QED BY <3>2, <3>3, <3>4, <3>5
  <2>2. CASE ~Acknowledged(Head(rx)) BY <2>2 DEF UsbReceive, TypeOK
  <2>. QED BY <2>1, <2>2
<1>3. UNCHANGED <<host, in, front, outVars, pulses, decoderVars, foreign, bounds>>
  BY DEF UsbReceive
<1>. QED BY <1>1, <1>2, <1>3 DEF TypeOK, outVars, decoderVars, bounds

LEMMA OutTakeTypeOK == ASSUME TypeOK, OutTake PROVE TypeOK'
<1>. USE DEF OutTake, hostVars, usbVars, decoderVars, bounds
<1>1. front' \in Seq(Seq(Bytes)) /\ frame' \in Seq(Bytes) BY TailTyped DEF TypeOK
<1>2. foreign' \in BOOLEAN BY Zenon DEF TypeOK
<1>. QED BY <1>1, <1>2 DEF TypeOK

LEMMA OutTypeOK ==
    ASSUME TypeOK, EncodeFull \/ EncodeComplete \/ AckIsr \/ OutCount \/ OutAnswer
    PROVE  TypeOK'
<1>. USE DEF hostVars, usbVars
<1>1. CASE EncodeFull
  <2>1. symbols' \in Nat BY <1>1, DecupAssumption DEF EncodeFull, Space, TypeOK
  <2>. QED BY <1>1, <2>1 DEF TypeOK, EncodeFull, decoderVars, bounds
<1>2. CASE EncodeComplete
  <2>1. decoder' \in DOMAIN Pulses /\ due' \in Nat
    <3>1. due \in Nat /\ decoder \in DOMAIN Pulses /\ Pulses[decoder] \in {1, 2}
      BY PulsesTyped DEF TypeOK
    <3>. QED BY <1>2, <3>1, PulsesTyped DEF EncodeComplete, Hears
  <2>2. took' \in BOOLEAN BY <1>2 DEF EncodeComplete, Hears
  <2>. QED BY <1>2, <2>1, <2>2 DEF TypeOK, EncodeComplete, bounds
<1>3. CASE AckIsr
  <2>1. due' \in Nat /\ pulses' \in Nat BY <1>3 DEF AckIsr, TypeOK
  <2>. QED BY <1>3, <2>1 DEF TypeOK, AckIsr, outVars, bounds
<1>4. CASE OutCount
  <2>1. acks' \in Nat /\ pulses' \in Nat BY <1>4 DEF OutCount, TypeOK
  <2>. QED BY <1>4, <2>1 DEF TypeOK, OutCount, decoderVars, bounds
<1>5. CASE OutAnswer
  <2>1. rx' \in Seq(Nat) BY <1>5, AppendTyped DEF OutAnswer, TypeOK
  <2>2. lates' \in 0..MaxLates BY <1>5, DecupAssumption DEF OutAnswer, TypeOK
  <2>. QED BY <1>5, <2>1, <2>2 DEF TypeOK, OutAnswer, decoderVars
<1>. QED BY <1>1, <1>2, <1>3, <1>4, <1>5

LEMMA StepTypeOK == ASSUME TypeOK, OneUnderway, Next PROVE TypeOK'
BY HostByteTypeOK, HostNextTypeOK, HostRepeatTypeOK, HostSlipTypeOK, UsbTypeOK,
   ReceiveTypeOK, OutTakeTypeOK, OutTypeOK
   DEF Next, Host, Usb, Out

-----------------------------------------------------------------------------
(* One frame is under way                                                  *)

LEMMA StepFromTheStart == ASSUME FromTheStart, Next PROVE FromTheStart'
<1>. USE DEF FromTheStart, hostVars, usbVars, outVars, decoderVars, bounds
<1>1. CASE Host BY <1>1 DEF Host, HostByte, HostNext, HostRepeat, HostSlip
<1>2. CASE Usb
  BY <1>2 DEF Usb, Ignore, Leading, Count, Security, DataByte, UsbReceive
<1>3. CASE Out
  BY <1>3 DEF Out, OutTake, EncodeFull, EncodeComplete, OutCount, OutAnswer
<1>4. CASE AckIsr BY <1>4 DEF AckIsr
<1>. QED BY <1>1, <1>2, <1>3, <1>4 DEF Next

\* The frame which is sent is the only one.
LEMMA TransmitSent ==
    ASSUME TypeOK, OneUnderway, usb = "idle", NEW bytes \in Seq(Bytes), Transmit(bytes)
    PROVE  front' = <<bytes>> /\ Len(front') = 1 /\ usb' = "receive" /\ Sent' = bytes
<1>1. front = <<>> BY DEF OneUnderway
<1>2. front' = <<bytes>> BY <1>1, AppendTyped DEF Transmit, TypeOK
<1>3. Len(front') = 1 /\ front' # <<>> /\ Head(front') = bytes BY <1>2, SingleTyped
<1>4. usb' = "receive" BY DEF Transmit
<1>. QED BY <1>2, <1>3, <1>4 DEF Sent

LEMMA SameUnderway ==
    ASSUME OneUnderway, UNCHANGED <<usb, state, id, packet, front, rx, frame>>,
           out' = out \/ (out \in {"encode", "count"} /\ out' \in {"encode", "count"})
    PROVE  OneUnderway'
BY DEF OneUnderway, Sent

LEMMA UsbUnderway ==
    ASSUME TypeOK, OneUnderway, Leading \/ Count \/ Security \/ DataByte
    PROVE  OneUnderway'
<1>. DEFINE b == Head(in)
<1>1. usb = "idle" /\ front = <<>> /\ rx = <<>> /\ out = "wait" /\ b \in Bytes
  <2>1. Read BY DEF Leading, Count, Security, DataByte
  <2>. QED BY <2>1, ReadTyped DEF OneUnderway
<1>2. <<b>> \in Seq(Bytes) /\ Len(<<b>>) = 1 BY <1>1, SingleTyped
<1>3. rx' = rx /\ out' = out /\ frame' = frame
  BY DEF Leading, Count, Security, DataByte, outVars
<1>4. ASSUME Transmit(<<b>>), state' \notin {"Entry", "Data"}, packet' = packet,
             state # "Data"
      PROVE  OneUnderway'
  <2>1. Len(front') = 1 /\ usb' = "receive" /\ Sent' = <<b>>
    BY <1>1, <1>2, <1>4, TransmitSent
  <2>. QED BY <1>1, <1>2, <1>3, <1>4, <2>1 DEF OneUnderway
<1>5. CASE Leading
  <2>1. state' \notin {"Entry", "Data"} /\ packet' = packet BY <1>5 DEF Leading
  <2>2. Transmit(<<b>>) /\ state # "Data" BY <1>5 DEF Leading
  <2>. QED BY <1>4, <2>1, <2>2
<1>6. CASE Count BY <1>4, <1>6 DEF Count
<1>7. CASE Security
  <2>1. state \in {"SecurityByte1", "SecurityByte2"} BY <1>7, PulsesTyped DEF Security
  <2>2. CASE b = SecurityByte[state]
    BY <1>4, <1>7, <2>1, <2>2 DEF Security
  <2>3. CASE b # SecurityByte[state]
    <3>1. usb' = usb /\ front' = front /\ packet' = <<>> /\ state' = "Entry"
      BY <1>7, <2>3 DEF Security
    <3>. QED BY <1>1, <1>3, <3>1 DEF OneUnderway
  <2>. QED BY <2>2, <2>3
<1>8. CASE DataByte
  <2>1. state' = "Data" /\ packet' \in Seq(Bytes) /\ id' = id
    BY <1>1, <1>8, AppendTyped DEF DataByte, TypeOK
  <2>2. CASE Whole(packet')
    <3>1. Transmit(packet') BY <1>8, <2>2 DEF DataByte
    <3>2. Len(front') = 1 /\ usb' = "receive" /\ Sent' = packet'
      BY <1>1, <2>1, <3>1, TransmitSent
    <3>3. Len(packet') >= Size(id') BY <2>1, <2>2 DEF Whole
    <3>. QED BY <1>1, <1>3, <2>1, <3>2, <3>3 DEF OneUnderway
  <2>3. CASE ~Whole(packet')
    <3>1. usb' = usb /\ front' = front BY <1>8, <2>3 DEF DataByte
    <3>. QED BY <1>1, <1>3, <2>1, <3>1 DEF OneUnderway
  <2>. QED BY <2>2, <2>3
<1>. QED BY <1>5, <1>6, <1>7, <1>8

\* What is taken from the buffer was sent before.
LEMMA TakeFacts ==
    ASSUME TypeOK, OneUnderway, OutTake
    PROVE  /\ usb = "receive" /\ front # <<>> /\ front' = <<>> /\ rx = <<>>
           /\ out = "wait" /\ out' = "encode" /\ frame' = Head(front) /\ Sent' = Sent
           /\ UNCHANGED <<usb, state, id, packet, rx>>
<1>1. /\ front # <<>> /\ out = "wait" /\ out' = "encode" /\ frame' = Head(front)
      /\ front' = Tail(front) /\ UNCHANGED <<usb, state, id, packet, rx>>
  BY DEF OutTake, usbVars
<1>2. usb = "receive" /\ Len(front) = 1 /\ rx = <<>>
  BY <1>1 DEF OneUnderway, TypeOK
<1>3. front' = <<>> BY <1>1, <1>2, LengthOne DEF TypeOK
<1>. QED BY <1>1, <1>2, <1>3 DEF Sent

LEMMA AnswerFacts ==
    ASSUME TypeOK, OneUnderway, OutAnswer
    PROVE  /\ usb = "receive" /\ front = <<>> /\ rx = <<>> /\ rx' = <<acks>>
           /\ Len(rx') = 1 /\ rx' # <<>> /\ Head(rx') = acks
           /\ out = "count" /\ out' = "wait" /\ Sent' = Sent
           /\ UNCHANGED <<usb, state, id, packet, front, frame, acks>>
<1>1. /\ out = "count" /\ out' = "wait" /\ rx' = Append(rx, acks)
      /\ UNCHANGED <<usb, state, id, packet, front, frame, acks>>
  BY DEF OutAnswer, usbVars
<1>2. usb = "receive" /\ front = <<>> /\ rx = <<>>
  BY <1>1 DEF OneUnderway, TypeOK
<1>3. rx' = <<acks>> BY <1>1, <1>2, AppendTyped DEF TypeOK
<1>. QED BY <1>1, <1>2, <1>3, SingleTyped DEF Sent, TypeOK

LEMMA StepOneUnderway == ASSUME TypeOK, OneUnderway, Next PROVE OneUnderway'
<1>1. CASE Host
  <2>1. UNCHANGED <<usbVars, front, rx, outVars>>
    BY <1>1 DEF Host, HostByte, HostNext, HostRepeat, HostSlip
  <2>. QED BY <2>1, SameUnderway DEF usbVars, outVars
<1>2. CASE Usb
  <2>1. CASE Ignore
    <3>1. UNCHANGED <<usbVars, front, rx, outVars>> BY <2>1 DEF Ignore
    <3>. QED BY <3>1, SameUnderway DEF usbVars, outVars
  <2>2. CASE UsbReceive
    <3>1. front' = front /\ out' = out /\ packet' = <<>>
      BY <2>2 DEF UsbReceive, outVars
    <3>. QED BY <2>2, <3>1, ReceiveFacts DEF OneUnderway
  <2>. QED BY <1>2, <2>1, <2>2, UsbUnderway DEF Usb
<1>3. CASE OutTake
  <2>1. usb' = "receive" /\ front' = <<>> /\ rx' = <<>> /\ out' # "wait"
    BY <1>3, TakeFacts
  <2>. QED BY <1>3, <2>1, TakeFacts DEF OneUnderway
<1>4. CASE EncodeFull \/ EncodeComplete \/ OutCount
  <2>1. /\ UNCHANGED <<usbVars, front, rx, frame>>
        /\ out \in {"encode", "count"} /\ out' \in {"encode", "count"}
    BY <1>4 DEF EncodeFull, EncodeComplete, OutCount
  <2>. QED BY <2>1, SameUnderway DEF usbVars
<1>5. CASE OutAnswer BY <1>5, AnswerFacts DEF OneUnderway
<1>6. CASE AckIsr
  <2>1. UNCHANGED <<usbVars, front, rx, outVars>> BY <1>6 DEF AckIsr
  <2>. QED BY <2>1, SameUnderway DEF usbVars, outVars
<1>. QED BY <1>1, <1>2, <1>3, <1>4, <1>5, <1>6 DEF Next, Out

-----------------------------------------------------------------------------
(* The firmware follows the host                                           *)

LEMMA StageIs ==
    ASSUME NEW u \in 1..(Last + 1)
    PROVE  /\ u \in Nat
           /\ u = 1 => Stage(u) = "Preamble"
           /\ u = 2 => Stage(u) = "Startbyte"
           /\ u = 3 => Stage(u) = "Blockcount"
           /\ u = 4 => Stage(u) = "SecurityByte1"
           /\ u = 5 => Stage(u) = "SecurityByte2"
           /\ u > 5 => Stage(u) = "Data"
           /\ u \in {1, 2, 3, 4, 5} \/ u > 5
BY LastTyped DEF Stage

LEMMA ConcatAppend ==
    ASSUME NEW S, NEW s \in Seq(S), NEW t \in Seq(S), NEW e \in S
    PROVE  s \o Append(t, e) = Append(s \o t, e)
<1>1. <<e>> \in Seq(S) BY SingleTyped
<1>2. s \o Append(t, e) = s \o (t \o <<e>>) BY AppendIsConcat
<1>3. s \o (t \o <<e>>) = (s \o t) \o <<e>> BY <1>1, ConcatAssociative
<1>4. s \o t \in Seq(S) BY ConcatProperties
<1>5. (s \o t) \o <<e>> = Append(s \o t, e) BY <1>4, AppendIsConcat
<1>. QED BY <1>2, <1>3, <1>5

LEMMA NothingAround ==
    ASSUME NEW S, NEW s \in Seq(S)
    PROVE  (<<>> \o <<>>) \o s = s /\ (s \o <<>>) \o <<>> = s
BY EmptySeq, ConcatEmptySeq

\* What is read is the next byte of the unit.
LEMMA NextOf ==
    ASSUME NEW p \in Seq(Bytes), NEW i \in Seq(Bytes), NEW l \in Seq(Bytes), i # <<>>
    PROVE  /\ Append(p, Head(i)) \in Seq(Bytes) /\ Len(Append(p, Head(i))) = Len(p) + 1
           /\ Len(p) \in Nat
           /\ (Append(p, Head(i)) \o Tail(i)) \o l = (p \o i) \o l
           /\ Len((p \o i) \o l) \in Nat
           /\ Len(Append(p, Head(i))) <= Len((p \o i) \o l)
           /\ Len(Append(p, Head(i))) = Len((p \o i) \o l) =>
                 Append(p, Head(i)) = (p \o i) \o l /\ Tail(i) = <<>> /\ l = <<>>
<1>. DEFINE q == Append(p, Head(i))
            u == (p \o i) \o l
            r == Tail(i)
<1>1. Head(i) \in Bytes /\ r \in Seq(Bytes) BY TailTyped
<1>2. q \in Seq(Bytes) /\ Len(q) = Len(p) + 1 /\ Len(p) \in Nat BY <1>1, AppendTyped
<1>3. q \o r = p \o i BY Moved
<1>4. (q \o r) \o l = u BY <1>3
<1>. HIDE DEF q, u, r
<1>5. q \o r \in Seq(Bytes) /\ Len(q \o r) = Len(q) + Len(r) /\ Len(r) \in Nat /\ Len(l) \in Nat
  BY <1>1, <1>2, ConcatProperties, LenProperties
<1>6. Len(u) = (Len(q) + Len(r)) + Len(l)
  BY <1>4, <1>5, ConcatProperties
<1>7. ASSUME Len(q) = Len(u) PROVE q = u /\ r = <<>> /\ l = <<>>
  <2>1. Len(r) = 0 /\ Len(l) = 0 BY <1>2, <1>5, <1>6, <1>7
  <2>2. r = <<>> /\ l = <<>> BY <1>1, <2>1, EmptySeq
  <2>. QED BY <1>2, <1>4, <2>2, NothingAround
<1>8. Len(u) \in Nat /\ Len(q) <= Len(u) BY <1>2, <1>5, <1>6
<1>. QED BY <1>2, <1>4, <1>7, <1>8 DEF q, u, r

\* Without a mistake the host is at one place.
LEMMA UnitTyped ==
    ASSUME TypeOK, ~Done
    PROVE  /\ host.unit \in 1..Last /\ host.id \in Ids
           /\ Unit \in Seq(Bytes) /\ Unit # <<>>
           /\ Len(Unit) \in Nat /\ Len(Unit) = IF host.unit <= 5 THEN 1 ELSE Size(host.id)
BY HostTyped, ScriptTyped, LenProperties DEF Unit

LEMMA InitFollowing == Init => Following
<1>. SUFFICES ASSUME Init PROVE Following
  OBVIOUS
<1>1. PICK d \in Ids : host = [id |-> d, unit |-> 1, left |-> Script(d)[1]] BY DEF Init
<1>2. TypeOK BY InitTypeOK
<1>3. ~Done BY <1>1, LastTyped DEF Done
<1>4. host.left = Unit BY <1>1 DEF Unit
<1>5. Unit \in Seq(Bytes) /\ Len(Unit) > 0 BY <1>2, <1>3, UnitTyped, DomainOf
<1>6. packet = <<>> /\ in = <<>> /\ tx = 0 /\ usb = "idle" /\ state = "Entry"
  BY DEF Init
<1>7. Sending
  <2>1. (packet \o in) \o host.left = Unit BY <1>4, <1>5, <1>6, NothingAround
  <2>2. Len(packet) < Len(Unit) BY <1>5, <1>6, EmptySeq
  <2>3. host.unit = 1 BY <1>1
  <2>. QED BY <2>1, <2>2, <2>3, <1>3, <1>6 DEF Sending
<1>. QED BY <1>6, <1>7 DEF Following, Selected

LEMMA HostByteFollowing ==
    ASSUME TypeOK, Following, slips = 0, HostByte
    PROVE  Following'
<1>1. Sending /\ Selected BY DEF Following, HostByte, Standing, Waiting, Answered, Silent
<1>2. /\ host.left # <<>> /\ in' = Append(in, Head(host.left))
      /\ host'.id = host.id /\ host'.unit = host.unit /\ host'.left = Tail(host.left)
      /\ UNCHANGED <<tx, usb, state, id, packet, slips>>
  BY HostTyped DEF HostByte, usbVars, bounds
<1>3. /\ packet \in Seq(Bytes) /\ in \in Seq(Bytes) /\ host.left \in Seq(Bytes)
      /\ Head(host.left) \in Bytes /\ packet \o in \in Seq(Bytes)
  BY <1>2, HostTyped, TailTyped, ConcatProperties DEF TypeOK
<1>4. packet' \o in' = Append(packet \o in, Head(host.left))
  BY <1>2, <1>3, ConcatAppend
<1>5. (packet' \o in') \o host'.left = (packet \o in) \o host.left
  BY <1>2, <1>3, <1>4, Moved
<1>6. Unit' = Unit /\ Done' = Done BY <1>2 DEF Unit, Done
<1>7. Sending' BY <1>1, <1>2, <1>5, <1>6 DEF Sending
<1>8. Selected' BY <1>1, <1>2 DEF Selected
<1>. QED BY <1>7, <1>8 DEF Following

\* With nothing under way and nothing to send, the host stands.
LEMMA NotSending ==
    ASSUME TypeOK, Sending, in = <<>>, host.left = <<>>
    PROVE  FALSE
<1>1. packet \in Seq(Bytes) /\ Len(packet) \in Nat BY LenProperties DEF TypeOK
<1>2. packet = Unit BY <1>1, NothingAround DEF Sending
<1>. QED BY <1>1, <1>2 DEF Sending

\* The host begins to send a unit.
LEMMA BeginsToSend ==
    ASSUME TypeOK', in' = <<>>, packet' = <<>>, tx' = 0, usb' = "idle", ~Done',
           host'.left = Unit',
           \/ state' = Stage(host'.unit)
           \/ host'.unit = 2 /\ state' = "Preamble"
    PROVE  Sending'
<1>1. ~Done' => host'.unit \in 1..Last /\ host'.id \in Ids
  <2>1. host' \in [id : Ids, unit : 1..(Last + 1), left : Seq(Bytes)] BY DEF TypeOK
  <2>. QED BY <2>1, LastTyped DEF Done
<1>2. Unit' \in Seq(Bytes) /\ Len(Unit') > 0
  <2>1. Script(host'.id)[host'.unit] \in Seq(Bytes) /\ Script(host'.id)[host'.unit] # <<>>
    BY <1>1, ScriptTyped
  <2>. QED BY <2>1, DomainOf DEF Unit
<1>3. (packet' \o in') \o host'.left = Unit' BY <1>2, NothingAround
<1>4. Len(packet') < Len(Unit') BY <1>2, EmptySeq
<1>. QED BY <1>3, <1>4 DEF Sending

LEMMA HostNextFollowing ==
    ASSUME TypeOK, Following, slips = 0, HostNext
    PROVE  Following'
<1>1. /\ host.left = <<>> /\ ~Done /\ host'.id = host.id /\ host'.unit = host.unit + 1
      /\ host'.left = IF host.unit = Last THEN <<>> ELSE Script(host.id)[host.unit + 1]
      /\ UNCHANGED <<in, usb, state, id, packet, slips>>
  BY HostTyped DEF HostNext, usbVars, bounds
<1>2. TypeOK' BY HostNextTypeOK
<1>3. host.unit \in 1..Last /\ Last \in Nat BY <1>1, HostTyped
<1>4. Selected' BY <1>1 DEF Following, Selected
<1>5. CASE host.unit = 1
  <2>1. Quiet /\ tx' = tx BY <1>5 DEF HostNext
  <2>2. Standing BY <1>1, <2>1, NotSending DEF Following, Quiet, Waiting, Answered
  <2>3. state = "Preamble" BY <2>2, <1>5, LastTyped, StageIs DEF Standing
  <2>4. host'.left = Unit' /\ ~Done' BY <1>1, <1>5, LastTyped DEF Unit, Done
  <2>5. Sending'
    BY <1>1, <1>2, <1>5, <2>1, <2>2, <2>3, <2>4, BeginsToSend DEF Standing, Silent
  <2>. QED BY <1>4, <2>5 DEF Following
<1>6. CASE host.unit # 1
  <2>1. tx > 0 /\ tx' = tx - 1 BY <1>6 DEF HostNext
  <2>2. Answered
    <3>1. tx # 0 BY <2>1 DEF TypeOK
    <3>. QED BY <3>1, Zenon DEF Following, Sending, Standing, Waiting
  <2>3. tx' = 0 /\ in = <<>> /\ packet = <<>> /\ usb = "idle" /\ state = Stage(host'.unit)
    BY <1>1, <2>1, <2>2 DEF Answered, Silent
  <2>4. CASE host.unit = Last
    <3>1. Standing' BY <1>1, <2>3, <2>4 DEF Standing, Silent
    <3>. QED BY <1>4, <3>1 DEF Following
  <2>5. CASE host.unit # Last
    <3>1. host'.left = Unit' /\ ~Done' BY <1>1, <1>3, <2>5 DEF Unit, Done
    <3>2. Sending' BY <1>1, <1>2, <2>3, <3>1, BeginsToSend
    <3>. QED BY <1>4, <3>2 DEF Following
  <2>. QED BY <2>4, <2>5
<1>. QED BY <1>5, <1>6

LEMMA HostRepeatFollowing ==
    ASSUME TypeOK, Following, slips = 0, HostRepeat
    PROVE  Following'
<1>1. /\ Quiet /\ host.left = <<>> /\ ~Done /\ host'.id = host.id
      /\ host'.unit = host.unit /\ host'.left = Unit
      /\ UNCHANGED <<in, tx, usb, state, id, packet, slips>>
  BY HostTyped DEF HostRepeat, usbVars
<1>2. TypeOK' BY HostRepeatTypeOK
<1>3. Standing BY <1>1, NotSending DEF Following, Quiet, Waiting, Answered
<1>4. Unit' = Unit /\ Done' = Done BY <1>1 DEF Unit, Done
<1>5. Sending' BY <1>1, <1>2, <1>3, <1>4, BeginsToSend DEF Standing, Silent
<1>6. Selected' BY <1>1 DEF Following, Selected
<1>. QED BY <1>5, <1>6 DEF Following

\* What the firmware reads, when it reads: the next byte of the unit.
LEMMA ReadFollowing ==
    ASSUME TypeOK, Following, slips = 0, Read
    PROVE  LET q == Append(packet, Head(in))
           IN  /\ Sending /\ Selected /\ TypeOK
               /\ in' = Tail(in) /\ in # <<>> /\ usb = "idle" /\ tx = 0
               /\ q \in Seq(Bytes) /\ Len(q) = Len(packet) + 1 /\ Len(packet) \in Nat
               /\ (q \o in') \o host.left = Unit
               /\ Len(Unit) \in Nat /\ Len(q) <= Len(Unit)
               /\ Len(q) = Len(Unit) => q = Unit /\ in' = <<>> /\ host.left = <<>>
<1>1. in # <<>> /\ usb = "idle" /\ in' = Tail(in) BY DEF Read
<1>2. Sending /\ Selected
  BY <1>1 DEF Following, Standing, Waiting, Answered, Silent
<1>3. (packet \o in) \o host.left = Unit /\ tx = 0 BY <1>2 DEF Sending
<1>4. packet \in Seq(Bytes) /\ in \in Seq(Bytes) /\ host.left \in Seq(Bytes)
  BY HostTyped DEF TypeOK
<1>. DEFINE q == Append(packet, Head(in))
            u == (packet \o in) \o host.left
<1>5. /\ q \in Seq(Bytes) /\ Len(q) = Len(packet) + 1 /\ Len(packet) \in Nat
      /\ (q \o Tail(in)) \o host.left = u
      /\ Len(u) \in Nat /\ Len(q) <= Len(u)
      /\ Len(q) = Len(u) => q = u /\ Tail(in) = <<>> /\ host.left = <<>>
  BY <1>1, <1>4, NextOf, Zenon
<1>. HIDE DEF q
<1>. QED BY <1>1, <1>2, <1>3, <1>5 DEF q

\* A unit of one byte is read as a whole.
LEMMA ReadByte ==
    ASSUME TypeOK, Following, slips = 0, Read, packet = <<>>, host.unit <= 5
    PROVE  <<Head(in)>> = Unit /\ in' = <<>> /\ host.left = <<>>
           /\ host.unit \in 1..Last
<1>1. Sending BY ReadFollowing
<1>2. host.unit \in 1..Last /\ Len(Unit) = 1 BY <1>1, UnitTyped DEF Sending
<1>3. Append(packet, Head(in)) = <<Head(in)>> /\ Len(Append(packet, Head(in))) = 1
  <2>1. Head(in) \in Bytes BY ReadTyped
  <2>. QED BY <2>1, AppendTyped, SingleTyped, EmptyTyped
<1>. QED BY <1>2, <1>3, ReadFollowing

\* Where the host is, by the state in which the firmware reads.
LEMMA SendingPlace ==
    ASSUME TypeOK, Sending
    PROVE  /\ host.unit \in 1..Last /\ host.unit \in Nat
           /\ state = "Entry" => host.unit = 1
           /\ state = "Preamble" => host.unit \in {1, 2}
           /\ state = "Startbyte" => host.unit = 2
           /\ state = "Blockcount" => host.unit = 3
           /\ state = "SecurityByte1" => host.unit = 4
           /\ state = "SecurityByte2" => host.unit = 5
           /\ state = "Data" => host.unit > 5
<1>1. host.unit \in 1..Last /\ host.unit \in 1..(Last + 1)
  BY UnitTyped, HostTyped DEF Sending
<1>2. \/ state = Stage(host.unit)
      \/ host.unit = 1 /\ state = "Entry"
      \/ host.unit = 2 /\ state = "Preamble"
  BY DEF Sending
<1>3. CASE host.unit = 1 BY <1>1, <1>2, <1>3, StageIs
<1>4. CASE host.unit = 2 BY <1>1, <1>2, <1>4, StageIs
<1>5. CASE host.unit = 3 BY <1>1, <1>2, <1>5, StageIs
<1>6. CASE host.unit = 4 BY <1>1, <1>2, <1>6, StageIs
<1>7. CASE host.unit = 5 BY <1>1, <1>2, <1>7, StageIs
<1>8. CASE host.unit > 5 BY <1>1, <1>2, <1>8, StageIs
<1>. QED BY <1>1, <1>3, <1>4, <1>5, <1>6, <1>7, <1>8, StageIs

LEMMA IgnoreFollowing ==
    ASSUME TypeOK, OneUnderway, Following, slips = 0, Ignore
    PROVE  FALSE
<1>1. Read /\ state = "Entry" /\ Head(in) \in Entry BY DEF Ignore
<1>2. Sending /\ packet = <<>> BY <1>1, ReadFollowing DEF OneUnderway
<1>3. host.unit = 1 BY <1>1, <1>2, SendingPlace
<1>4. <<Head(in)>> = Unit /\ host.unit \in 1..Last BY <1>1, <1>2, <1>3, ReadByte
<1>5. Unit = <<239>> BY <1>3, <1>4, ScriptIs DEF Unit
<1>6. Head(in) = 239 BY <1>4, <1>5
<1>. QED BY <1>1, <1>6 DEF Entry

\* What was read is sent to the decoder, and the host waits.
LEMMA TransmitFollowing ==
    ASSUME TypeOK, OneUnderway, Following, slips = 0, Read, packet = <<>>,
           host.unit <= 5, Transmit(<<Head(in)>>), state' = Stage(host.unit),
           UNCHANGED <<host, tx, slips, packet, id>>, Selected'
    PROVE  Following'
<1>1. /\ <<Head(in)>> = Unit /\ in' = <<>> /\ host.left = <<>> /\ tx = 0 /\ ~Done
  BY ReadByte, ReadFollowing DEF Sending
<1>2. <<Head(in)>> \in Seq(Bytes) /\ usb = "idle" BY ReadTyped, SingleTyped
<1>3. usb' = "receive" /\ Sent' = <<Head(in)>> BY <1>2, TransmitSent
<1>4. Unit' = Unit /\ Done' = Done BY DEF Unit, Done
<1>5. Waiting' BY <1>1, <1>3, <1>4 DEF Waiting, Silent
<1>. QED BY <1>5 DEF Following

LEMMA LeadingFollowing ==
    ASSUME TypeOK, OneUnderway, Following, slips = 0, Leading
    PROVE  Following'
<1>1. /\ Read /\ Transmit(<<Head(in)>>) /\ UNCHANGED <<host, tx, slips, packet, id>>
      /\ state \in {"Entry", "Preamble", "Startbyte"}
      /\ state' = IF state # "Startbyte" /\ Head(in) \in Preambles THEN "Preamble"
                                                                   ELSE "Startbyte"
  BY DEF Leading, bounds
<1>2. Sending /\ packet = <<>> BY <1>1, ReadFollowing DEF OneUnderway
<1>3. host.unit \in {1, 2} /\ (host.unit = 1 => state # "Startbyte")
  BY <1>1, <1>2, SendingPlace
<1>4. <<Head(in)>> = Unit /\ host.unit \in 1..Last /\ host.unit \in 1..(Last + 1)
  BY <1>1, <1>2, <1>3, ReadByte, HostTyped
<1>5. state' = Stage(host.unit)
  <2>1. CASE host.unit = 1
    <3>1. Unit = <<239>> BY <1>4, <2>1, ScriptIs DEF Unit
    <3>2. Head(in) = 239 BY <1>4, <3>1
    <3>. QED BY <1>1, <1>3, <1>4, <2>1, <3>2, StageIs DEF Preambles
  <2>2. CASE host.unit = 2
    <3>1. Unit = <<host.id>> BY <1>4, <2>2, ScriptIs DEF Unit
    <3>2. Head(in) = host.id BY <1>4, <3>1
    <3>3. Head(in) \notin Preambles BY <3>2, HostTyped, DecupAssumption DEF Preambles
    <3>. QED BY <1>1, <1>4, <2>2, <3>3, StageIs
  <2>. QED BY <1>3, <2>1, <2>2
<1>6. Selected' BY <1>1 DEF Selected
<1>7. host.unit <= 5 BY <1>3
<1>. QED BY <1>1, <1>2, <1>5, <1>6, <1>7, TransmitFollowing

LEMMA CountFollowing ==
    ASSUME TypeOK, OneUnderway, Following, slips = 0, Count
    PROVE  Following'
<1>1. /\ Read /\ Transmit(<<Head(in)>>) /\ state = "Blockcount"
      /\ UNCHANGED <<host, tx, slips, packet, id, state>>
  BY DEF Count, bounds
<1>2. Sending /\ Selected /\ packet = <<>> BY <1>1, ReadFollowing DEF OneUnderway
<1>3. host.unit = 3 /\ host.unit \in 1..(Last + 1)
  BY <1>1, <1>2, SendingPlace, HostTyped
<1>4. state' = Stage(host.unit) BY <1>1, <1>3, StageIs
<1>5. Selected' BY <1>1, <1>2 DEF Selected
<1>6. host.unit <= 5 BY <1>3
<1>. QED BY <1>1, <1>2, <1>4, <1>5, <1>6, TransmitFollowing

\* Without a mistake of the host the security bytes are right.
LEMMA SecurityRight ==
    ASSUME TypeOK, OneUnderway, Following, slips = 0, Security
    PROVE  /\ Head(in) = SecurityByte[state] /\ state' = state
           /\ packet = <<>> /\ host.unit <= 5 /\ state = Stage(host.unit) /\ Selected
<1>1. Read /\ state \in {"SecurityByte1", "SecurityByte2"}
  BY PulsesTyped DEF Security
<1>2. Sending /\ Selected /\ packet = <<>> BY <1>1, ReadFollowing DEF OneUnderway
<1>3. /\ state = "SecurityByte1" => host.unit = 4
      /\ state = "SecurityByte2" => host.unit = 5
      /\ host.unit \in 1..Last /\ host.unit \in 1..(Last + 1)
  BY <1>1, <1>2, SendingPlace, HostTyped
<1>4. host.unit <= 5 BY <1>1, <1>3
<1>5. <<Head(in)>> = Unit BY <1>1, <1>2, <1>4, ReadByte
<1>6. Head(in) = SecurityByte[state]
  <2>1. CASE state = "SecurityByte1"
    <3>1. Unit = <<85>> BY <1>3, <2>1, ScriptIs DEF Unit
    <3>. QED BY <1>5, <2>1, <3>1 DEF SecurityByte, Security1
  <2>2. CASE state = "SecurityByte2"
    <3>1. Unit = <<170>> BY <1>3, <2>2, ScriptIs DEF Unit
    <3>. QED BY <1>5, <2>2, <3>1 DEF SecurityByte, Security2
  <2>. QED BY <1>1, <2>1, <2>2
<1>7. state' = state BY <1>6 DEF Security
<1>8. state = Stage(host.unit) BY <1>1, <1>3, StageIs
<1>. QED BY <1>2, <1>4, <1>6, <1>7, <1>8

LEMMA SecurityFollowing ==
    ASSUME TypeOK, OneUnderway, Following, slips = 0, Security
    PROVE  Following'
<1>1. Read /\ UNCHANGED <<host, tx, slips>> BY DEF Security, bounds
<1>2. Transmit(<<Head(in)>>) /\ UNCHANGED <<state, id, packet>>
  BY SecurityRight DEF Security
<1>3. Selected' BY <1>1, <1>2, SecurityRight DEF Selected
<1>. QED BY <1>1, <1>2, <1>3, SecurityRight, TransmitFollowing

LEMMA DataByteFollowing ==
    ASSUME TypeOK, OneUnderway, Following, slips = 0, DataByte
    PROVE  Following'
<1>1. /\ Read /\ state = "Data" /\ packet' = Append(packet, Head(in))
      /\ UNCHANGED <<host, tx, slips, id, state>>
  BY DEF DataByte, bounds
<1>2. /\ Sending /\ Selected /\ ~Done /\ tx = 0 /\ usb = "idle"
      /\ packet' \in Seq(Bytes) /\ (packet' \o in') \o host.left = Unit
      /\ Len(Unit) \in Nat /\ Len(packet') \in Nat /\ Len(packet') <= Len(Unit)
      /\ Len(packet') = Len(Unit) => packet' = Unit /\ in' = <<>> /\ host.left = <<>>
  BY <1>1, ReadFollowing, LenProperties DEF Sending
<1>3. host.unit > 5 /\ host.unit \in 1..Last /\ host.unit \in 1..(Last + 1)
  BY <1>1, <1>2, SendingPlace, HostTyped
<1>4. Unit = Data(host.id) BY <1>3, ScriptIs DEF Unit
<1>5. Len(Unit) = Size(host.id) /\ Exor(Unit) = 0 BY <1>4, DataTyped
<1>6. id = host.id BY <1>1, <1>2 DEF Selected
<1>7. Unit' = Unit /\ Done' = Done BY <1>1 DEF Unit, Done
<1>8. state' = Stage(host.unit) BY <1>1, <1>3, StageIs
<1>9. Selected' BY <1>1, <1>2 DEF Selected
<1>10. CASE Whole(packet')
  <2>1. Transmit(packet') BY <1>1, <1>10 DEF DataByte
  <2>2. Len(packet') = Len(Unit) BY <1>2, <1>5, <1>6, <1>10 DEF Whole
  <2>3. packet' = Unit /\ in' = <<>> /\ host.left = <<>> BY <1>2, <2>2
  <2>4. usb' = "receive" /\ Sent' = packet' BY <1>2, <2>1, TransmitSent
  <2>5. Waiting' BY <1>1, <1>2, <1>7, <1>8, <2>3, <2>4 DEF Waiting, Silent
  <2>. QED BY <1>9, <2>5 DEF Following
<1>11. CASE ~Whole(packet')
  <2>1. usb' = usb BY <1>1, <1>11 DEF DataByte
  <2>2. Len(packet') # Len(Unit) BY <1>2, <1>5, <1>6, <1>11 DEF Whole
  <2>3. Len(packet') < Len(Unit)
    <3>. DEFINE n == Len(packet')
                m == Len(Unit)
    <3>1. n \in Nat /\ m \in Nat /\ n <= m /\ n # m BY <1>2, <2>2
    <3>. HIDE DEF n, m
    <3>2. n < m BY <3>1
    <3>. QED BY <3>2 DEF n, m
  <2>4. Sending' BY <1>1, <1>2, <1>7, <1>8, <2>1, <2>3 DEF Sending
  <2>. QED BY <1>9, <2>4 DEF Following
<1>. QED BY <1>10, <1>11

\* The state behind an acknowledge is the one of the next unit.
LEMMA ThenStage ==
    ASSUME NEW u \in 1..Last, u # 1
    PROVE  Then[Stage(u)] = Stage(u + 1) /\ Stage(u) # "Preamble"
<1>1. u \in 1..(Last + 1) /\ u + 1 \in 1..(Last + 1) /\ u \in Nat BY LastTyped
<1>2. CASE u = 2 BY <1>1, <1>2, StageIs DEF Then
<1>3. CASE u = 3 BY <1>1, <1>3, StageIs DEF Then
<1>4. CASE u = 4 BY <1>1, <1>4, StageIs DEF Then
<1>5. CASE u = 5 BY <1>1, <1>5, StageIs DEF Then
<1>6. CASE u > 5 BY <1>1, <1>6, StageIs DEF Then
<1>. QED BY <1>1, <1>2, <1>3, <1>4, <1>5, <1>6

LEMMA ReceiveFollowing ==
    ASSUME TypeOK, OneUnderway, Following, slips = 0, UsbReceive
    PROVE  Following' /\ (abort' => abort)
<1>1. /\ usb = "receive" /\ usb' = "idle" /\ packet' = <<>> /\ frame = Sent
      /\ UNCHANGED <<host, in, slips>>
  BY ReceiveFacts DEF UsbReceive, bounds
<1>2. Waiting /\ Selected
  BY <1>1 DEF Following, Sending, Standing, Answered
<1>3. /\ tx = 0 /\ in = <<>> /\ host.left = <<>> /\ frame = Unit
      /\ state = Stage(host.unit) /\ host.unit \in 1..Last
      /\ host.unit \in 1..(Last + 1) /\ host.unit \in Nat
  BY <1>1, <1>2, UnitTyped, HostTyped DEF Waiting, Silent
<1>4. CASE ~Acknowledged(Head(rx))
  <2>1. UNCHANGED <<tx, state, id, abort>> BY <1>4 DEF UsbReceive
  <2>2. Standing' BY <1>1, <1>3, <2>1 DEF Standing, Silent
  <2>3. Selected' BY <1>1, <1>2, <2>1 DEF Selected
  <2>. QED BY <2>1, <2>2, <2>3 DEF Following
<1>5. CASE Acknowledged(Head(rx))
  <2>1. /\ tx' = tx + 1 /\ state' = Then[state]
        /\ id' = (IF state = "Startbyte" THEN frame[1] ELSE id)
        /\ abort' = (state = "Blockcount" /\ frame[1] <= 9)
    BY <1>5 DEF UsbReceive
  <2>2. host.unit # 1
    BY <1>3, <1>5, StageIs DEF Acknowledged
  <2>3. state' = Stage(host.unit + 1) /\ state # "Preamble"
    BY <1>3, <2>1, <2>2, ThenStage
  <2>4. host.unit \in 2..Last BY <1>3, <2>2
  <2>5. Answered' BY <1>1, <1>3, <2>1, <2>3, <2>4 DEF Answered, Silent
  <2>6. Selected'
    <3>1. CASE state = "Startbyte"
      <4>1. host.unit = 2 BY <1>3, <3>1, StageIs
      <4>2. frame = <<host.id>> BY <1>3, <4>1, ScriptIs DEF Unit
      <4>. QED BY <1>1, <2>1, <3>1, <4>2 DEF Selected
    <3>2. CASE state # "Startbyte"
      <4>1. state # "Entry" BY <1>1 DEF OneUnderway
      <4>. QED BY <1>1, <1>2, <2>1, <2>3, <3>2, <4>1 DEF Selected
    <3>. QED BY <3>1, <3>2
  <2>7. ~abort'
    <3>1. CASE state = "Blockcount"
      <4>1. host.unit = 3 BY <1>3, <3>1, StageIs
      <4>2. frame = <<40>> BY <1>3, <4>1, ScriptIs DEF Unit
      <4>3. ~(frame[1] <= 9) BY <4>2
      <4>. QED BY <2>1, <4>3, Zenon
    <3>2. CASE state # "Blockcount" BY <2>1, <3>2
    <3>. QED BY <3>1, <3>2
  <2>. QED BY <2>5, <2>6, <2>7 DEF Following
<1>. QED BY <1>4, <1>5

LEMMA SameFollowing ==
    ASSUME Following, UNCHANGED <<hostVars, usbVars, slips>>, Sent' = Sent
    PROVE  Following'
BY DEF Following, Sending, Standing, Waiting, Answered, Selected, Silent, Unit, Done,
       hostVars, usbVars

LEMMA StepFollowing ==
    ASSUME TypeOK, OneUnderway, Following, Next
    PROVE  Following'
<1>1. slips \in Nat /\ (slips' = slips \/ slips' = slips + 1)
  <2>1. slips \in Nat BY DecupAssumption DEF TypeOK
  <2>. QED BY <2>1 DEF Next, Host, Usb, Out, HostByte, HostNext, HostRepeat, HostSlip,
            Ignore, Leading, Count, Security, DataByte, UsbReceive, OutTake, EncodeFull,
            EncodeComplete, AckIsr, OutCount, OutAnswer, bounds
<1>2. SUFFICES ASSUME slips' = 0 PROVE Following'
  BY DEF Following
<1>3. slips = 0 BY <1>1, <1>2
<1>4. CASE Host
  <2>1. ~HostSlip BY <1>2, <1>3 DEF HostSlip
  <2>. QED BY <1>3, <1>4, <2>1, HostByteFollowing, HostNextFollowing, HostRepeatFollowing
           DEF Host
<1>5. CASE Usb
  BY <1>3, <1>5, IgnoreFollowing, LeadingFollowing, CountFollowing, SecurityFollowing,
     DataByteFollowing, ReceiveFollowing DEF Usb
<1>6. CASE OutTake
  <2>1. UNCHANGED <<hostVars, usbVars, slips>> BY <1>6 DEF OutTake, bounds
  <2>. QED BY <1>6, <2>1, TakeFacts, SameFollowing
<1>7. CASE OutAnswer
  <2>1. UNCHANGED <<hostVars, usbVars, slips>> BY <1>7 DEF OutAnswer, bounds
  <2>. QED BY <1>7, <2>1, AnswerFacts, SameFollowing
<1>8. CASE EncodeFull \/ EncodeComplete \/ OutCount \/ AckIsr
  <2>1. UNCHANGED <<hostVars, usbVars, slips, front, frame>>
    BY <1>8 DEF EncodeFull, EncodeComplete, OutCount, AckIsr, bounds, outVars
  <2>2. Sent' = Sent BY <2>1 DEF Sent
  <2>. QED BY <2>1, <2>2, SameFollowing
<1>. QED BY <1>4, <1>5, <1>6, <1>7, <1>8 DEF Next, Out

-----------------------------------------------------------------------------
(* The pulses belong to the frame                                          *)

LEMMA PulsesAre ==
    /\ Pulses["Startbyte"] = 2 /\ Pulses["Blockcount"] = 1 /\ Pulses["SecurityByte1"] = 1
    /\ Pulses["SecurityByte2"] = 1 /\ Pulses["Data"] = 2
    /\ \A s \in DOMAIN Pulses : Then[s] \notin {"Entry", "Preamble", "Startbyte"}
BY DEF Pulses, Then

LEMMA CountsTyped ==
    ASSUME TypeOK, OneUnderway
    PROVE  Counted \in Nat /\ Pending \in Nat /\ due \in Nat /\ pulses \in Nat /\ acks \in Nat
<1>1. due \in Nat /\ pulses \in Nat /\ acks \in Nat BY DEF TypeOK
<1>2. Counted \in Nat BY <1>1, DomainOf DEF TypeOK, Counted
<1>. QED BY <1>1, <1>2 DEF Pending

\* A step which leaves the pulses of a frame together as they are.
LEMMA SameOwned ==
    ASSUME Owned, UNCHANGED <<state, decoder, took>>,
           out' = "encode" => out = "encode" /\ acks' = acks /\ Pending' = Pending,
           Heard' = Heard,
           Heard => Counted' + Pending' = Counted + Pending,
           ~Heard => Pending' = Pending
    PROVE  Owned'
<1>1. Together' = Together BY DEF Together
<1>2. CASE Heard
  <2>1. Counted' + Pending' <= 2 BY <1>2 DEF Owned
  <2>2. took' => /\ state' \in DOMAIN Pulses /\ decoder' = Then[state']
                 /\ Counted' + Pending' = Pulses[state']
    BY <1>2 DEF Owned
  <2>3. ~took' /\ state' # "Preamble" => Together' /\ Counted' + Pending' < Pulses[state']
    BY <1>2, <1>1 DEF Owned
  <2>4. out' = "encode" => Pending' = 0 /\ acks' = 0 BY DEF Owned
  <2>. QED BY <1>2, <2>1, <2>2, <2>3, <2>4 DEF Owned
<1>3. CASE ~Heard BY <1>1, <1>3 DEF Owned
<1>. QED BY <1>2, <1>3

\* Steps outside of a frame which was heard: the state changes before it only.
LEMMA NotHeardOwned ==
    ASSUME Owned, ~Heard, ~Heard', UNCHANGED <<out, pulses, due, acks>>,
           Together => Together'
    PROVE  Owned'
BY DEF Owned, Pending

LEMMA HostUsbOwned ==
    ASSUME TypeOK, OneUnderway, Owned,
           Host \/ Ignore \/ Leading \/ Count \/ Security \/ DataByte
    PROVE  Owned'
<1>1. CASE Host \/ Ignore
  <2>1. UNCHANGED <<state, decoder, took, out, acks, pulses, due, rx>>
    BY <1>1 DEF Host, HostByte, HostNext, HostRepeat, HostSlip, Ignore, usbVars, outVars,
                decoderVars
  <2>2. Pending' = Pending /\ Counted' = Counted /\ Heard' = Heard
    BY <2>1 DEF Pending, Counted, Heard
  <2>. QED BY <2>1, <2>2, SameOwned
<1>2. CASE Leading \/ Count \/ Security \/ DataByte
  <2>1. usb = "idle"
    <3>1. Read BY <1>2 DEF Leading, Count, Security, DataByte
    <3>. QED BY <3>1 DEF Read
  <2>2. /\ UNCHANGED <<decoder, out, acks, pulses, due, rx>>
        /\ state' = state \/ state' \in {"Entry", "Preamble", "Startbyte"}
    BY <1>2 DEF Leading, Count, Security, DataByte, outVars, decoderVars
  <2>3. ~Heard /\ ~Heard' BY <2>1, <2>2 DEF Heard, OneUnderway
  <2>4. Together => Together' BY <2>2, PulsesTyped DEF Together
  <2>. QED BY <2>2, <2>3, <2>4, NotHeardOwned
<1>. QED BY <1>1, <1>2

\* A frame is acknowledged only if the decoder took it.
LEMMA AcknowledgedTook ==
    ASSUME TypeOK, OneUnderway, Owned, UsbReceive, Acknowledged(Head(rx))
    PROVE  took
<1>. SUFFICES ASSUME ~took PROVE FALSE
  OBVIOUS
<1>1. Heard /\ Counted = Head(rx) /\ Head(rx) \in Nat BY ReceiveFacts DEF Heard, Counted
<1>2. state # "Preamble" /\ Head(rx) = Pulses[state] BY DEF Acknowledged
<1>3. Counted + Pending < Pulses[state] BY <1>1, <1>2, Zenon DEF Owned
<1>4. Pulses[state] \in {1, 2} BY <1>2, ReceiveFacts, PulsesTyped
<1>. QED BY <1>1, <1>2, <1>3, <1>4, CountsTyped

\* The count of a frame which the decoder took acknowledges it.
LEMMA ReceiveTook ==
    ASSUME TypeOK, OneUnderway, Owned, UsbReceive, Pending = 0
    PROVE  /\ took => Acknowledged(Head(rx)) /\ decoder = Then[state]
           /\ Acknowledged(Head(rx)) => took
           /\ state # "Preamble" /\ ~took => Together
<1>1. Heard /\ Counted = Head(rx) /\ Head(rx) \in Nat BY ReceiveFacts DEF Heard, Counted
<1>2. Counted + Pending = Head(rx) BY <1>1
<1>3. took => state # "Preamble" /\ Head(rx) = Pulses[state] /\ decoder = Then[state]
  <2>1. took => state \in DOMAIN Pulses BY <1>1, Zenon DEF Owned
  <2>2. took => Counted + Pending = Pulses[state] /\ decoder = Then[state]
    BY <1>1, Zenon DEF Owned
  <2>. QED BY <1>2, <2>1, <2>2, PulsesTyped
<1>4. state # "Preamble" /\ ~took => Together BY <1>1, Zenon DEF Owned
<1>. QED BY <1>3, <1>4, AcknowledgedTook DEF Acknowledged

LEMMA ReceiveOwned ==
    ASSUME TypeOK, OneUnderway, Owned, UsbReceive
    PROVE  Owned'
<1>1. /\ UNCHANGED <<decoder, out, acks, pulses, due, took>> /\ out = "wait" /\ rx' = <<>>
  BY ReceiveFacts DEF UsbReceive, outVars, decoderVars
<1>2. ~Heard' /\ out' # "encode" BY <1>1 DEF Heard
<1>3. ASSUME Pending' = 0 PROVE Together'
  <2>1. Pending = 0 BY <1>1, <1>3 DEF Pending
  <2>2. CASE Acknowledged(Head(rx))
    <3>1. decoder = Then[state] /\ state' = Then[state]
      BY <2>1, <2>2, ReceiveTook DEF UsbReceive
    <3>. QED BY <1>1, <3>1 DEF Together
  <2>3. CASE ~Acknowledged(Head(rx))
    <3>1. state' = state /\ ~took BY <2>1, <2>3, ReceiveTook DEF UsbReceive
    <3>2. state = "Preamble" \/ Together BY <2>1, <3>1, ReceiveTook
    <3>. QED BY <1>1, <3>1, <3>2, PulsesTyped DEF Together
  <2>. QED BY <2>2, <2>3
<1>. QED BY <1>2, <1>3 DEF Owned

LEMMA TakeOwned ==
    ASSUME TypeOK, OneUnderway, Owned, OutTake, ~foreign'
    PROVE  Owned'
<1>1. /\ UNCHANGED <<state, decoder, pulses, due, took>> /\ out' = "encode" /\ acks' = 0
      /\ rx = <<>> /\ rx' = <<>> /\ out = "wait"
  BY TakeFacts DEF OutTake, decoderVars
<1>2. ~(pulses + due > 0)
  <2>1. foreign' = (foreign \/ pulses + due > 0) BY DEF OutTake
  <2>. QED BY <2>1, Zenon
<1>3. Pending = 0 /\ Pending' = 0 BY <1>1, <1>2, CountsTyped DEF Pending
<1>4. ~Heard /\ ~Heard' BY <1>1 DEF Heard
<1>5. Together' BY <1>1, <1>3, <1>4 DEF Owned, Together
<1>. QED BY <1>1, <1>3, <1>4, <1>5 DEF Owned

LEMMA EncodeFullOwned == ASSUME Owned, EncodeFull PROVE Owned'
<1>1. UNCHANGED <<state, decoder, took, out, acks, pulses, due, rx>>
  BY DEF EncodeFull, usbVars, decoderVars
<1>2. Pending' = Pending /\ Counted' = Counted /\ Heard' = Heard
  BY <1>1 DEF Pending, Counted, Heard
<1>. QED BY <1>1, <1>2, SameOwned

LEMMA IsrOwned == ASSUME TypeOK, Owned, AckIsr PROVE Owned'
<1>1. UNCHANGED <<state, decoder, took, out, acks, rx>>
  BY DEF AckIsr, usbVars, outVars
<1>2. Pending' = Pending BY DEF AckIsr, Pending, TypeOK
<1>3. Counted' = Counted /\ Heard' = Heard BY <1>1 DEF Counted, Heard
<1>. QED BY <1>1, <1>2, <1>3, SameOwned

LEMMA CountOwned == ASSUME TypeOK, OneUnderway, Owned, OutCount PROVE Owned'
<1>1. /\ UNCHANGED <<state, decoder, took, out, due, rx>> /\ out = "count"
      /\ acks' = acks + pulses /\ pulses' = 0
  BY DEF OutCount, usbVars, decoderVars
<1>2. rx = <<>> BY <1>1 DEF OneUnderway, TypeOK
<1>3. Counted' + Pending' = Counted + Pending
  BY <1>1, <1>2, CountsTyped DEF Counted, Pending
<1>4. Heard /\ Heard' BY <1>1 DEF Heard
<1>. QED BY <1>1, <1>3, <1>4, SameOwned

LEMMA AnswerOwned == ASSUME TypeOK, OneUnderway, Owned, OutAnswer PROVE Owned'
<1>1. UNCHANGED <<state, decoder, took, pulses, due, acks>> /\ out' = "wait"
  BY AnswerFacts DEF OutAnswer, usbVars, decoderVars
<1>2. Counted = acks /\ Counted' = acks /\ Heard /\ Heard'
  BY AnswerFacts DEF Counted, Heard
<1>3. Pending' = Pending BY <1>1 DEF Pending
<1>. QED BY <1>1, <1>2, <1>3, SameOwned

LEMMA NothingAdded == ASSUME NEW n \in Nat PROVE 0 + n = n
OBVIOUS

LEMMA CompleteFacts ==
    ASSUME TypeOK, OneUnderway, EncodeComplete
    PROVE  /\ usb = "receive" /\ front = <<>> /\ rx = <<>> /\ out = "encode" /\ Sent = frame
           /\ UNCHANGED <<host, in, tx, usb, state, id, packet, front, rx, frame, acks,
                          pulses, foreign, slips, lates>>
           /\ out' = "count" /\ ~Heard /\ Heard'
           /\ state # "Entry" /\ (state # "Data" => Len(frame) = 1)
<1>1. /\ out = "encode" /\ out' = "count"
      /\ UNCHANGED <<host, in, tx, usb, state, id, packet, front, rx, frame, acks,
                     pulses, foreign, slips, lates>>
  BY DEF EncodeComplete, hostVars, usbVars, bounds
<1>2. usb = "receive" /\ front = <<>> /\ rx = <<>>
  BY <1>1 DEF OneUnderway, TypeOK
<1>3. Sent = frame BY <1>2 DEF Sent
<1>4. state # "Entry" /\ (state # "Data" => Len(frame) = 1)
  BY <1>2, <1>3 DEF OneUnderway
<1>. QED BY <1>1, <1>2, <1>3, <1>4 DEF Heard

\* What the decoder takes, or not.
LEMMA HearsCases ==
    ASSUME TypeOK, EncodeComplete
    PROVE  \/ /\ Fits /\ decoder' = Then[decoder] /\ due' = due + Pulses[decoder]
              /\ took' = (state = decoder)
           \/ /\ took' = FALSE /\ decoder' = decoder
              /\ \/ due' = due
                 \/ decoder = "Data" /\ due' = due + 1
BY DEF EncodeComplete, Hears

LEMMA CompleteOwned ==
    ASSUME TypeOK, OneUnderway, Owned, EncodeComplete
    PROVE  Owned'
<1>1. Pending = 0 /\ acks = 0 /\ Together /\ pulses = 0 /\ due = 0
  BY CompleteFacts, CountsTyped DEF Owned, Pending
<1>2. /\ state' = state /\ Heard' /\ out' # "encode" /\ rx' = <<>> /\ acks' = 0
      /\ pulses' = 0
  BY <1>1, CompleteFacts
<1>3. Counted' + Pending' = due'
  <2>1. due' \in Nat BY OutTypeOK DEF TypeOK
  <2>2. Counted' = 0 BY <1>2 DEF Counted
  <2>3. Pending' = due' BY <1>2, <2>1, NothingAdded DEF Pending
  <2>. QED BY <2>1, <2>2, <2>3, NothingAdded
<1>4. /\ decoder \in DOMAIN Pulses /\ Pulses[decoder] \in {1, 2}
      /\ state \in DOMAIN Pulses \cup {"Preamble"}
  BY CompleteFacts, PulsesTyped DEF TypeOK
<1>5. CASE /\ Fits /\ decoder' = Then[decoder] /\ due' = due + Pulses[decoder]
           /\ took' = (state = decoder)
  <2>1. due' = Pulses[decoder] BY <1>1, <1>4, <1>5
  <2>2. CASE state = decoder
    <3>1. took' BY <1>5, <2>2
    <3>2. Counted' + Pending' = Pulses[state'] BY <1>2, <1>3, <2>1, <2>2
    <3>3. decoder' = Then[state'] /\ state' \in DOMAIN Pulses BY <1>2, <1>4, <1>5, <2>2
    <3>4. Counted' + Pending' <= 2 BY <1>3, <1>4, <2>1
    <3>. QED BY <1>2, <3>1, <3>2, <3>3, <3>4 DEF Owned
  <2>3. CASE state # decoder
    <3>1. ~took' BY <1>5, <2>3
    <3>2. state \in {"Startbyte", "Preamble"} BY <1>1, <1>4, <2>3 DEF Together
    <3>3. Len(frame) = 1 BY <3>2, CompleteFacts
    <3>4. decoder # "Data"
      <4>1. decoder = "Data" => Len(frame) = Size(host.id)
        BY <1>5 DEF Fits, SecurityByte
      <4>. QED BY <3>3, <4>1, SizeTyped
    <3>5. state = "Startbyte" => Pulses[decoder] = 1
      BY <1>4, <2>3, <3>4, PulsesTyped, PulsesAre
    <3>6. state = "Startbyte" => Counted' + Pending' < Pulses[state']
      BY <1>2, <1>3, <2>1, <3>5, PulsesAre
    <3>7. Together' BY <1>2, <3>2, PulsesTyped DEF Together
    <3>8. Counted' + Pending' <= 2 BY <1>3, <1>4, <2>1
    <3>. QED BY <1>2, <3>1, <3>2, <3>6, <3>7, <3>8 DEF Owned
  <2>. QED BY <2>2, <2>3
<1>6. CASE /\ took' = FALSE /\ decoder' = decoder
           /\ \/ due' = due
              \/ decoder = "Data" /\ due' = due + 1
  <2>1. Together' BY <1>1, <1>2, <1>6 DEF Together
  <2>2. due' = 0 \/ (decoder = "Data" /\ due' = 1)
    <3>1. due' = due \/ (decoder = "Data" /\ due' = due + 1) BY <1>6, Zenon
    <3>. QED BY <1>1, <3>1
  <2>3. state # "Preamble" => due' < Pulses[state]
    <3>1. CASE due' = 0 BY <1>4, <3>1, PulsesTyped
    <3>2. CASE decoder = "Data" /\ due' = 1
      <4>1. state # "Preamble" => state \in {"Startbyte", "Data"}
        BY <1>1, <1>4, <3>2, PulsesTyped DEF Together
      <4>. QED BY <3>2, <4>1, PulsesAre
    <3>. QED BY <2>2, <3>1, <3>2
  <2>4. Counted' + Pending' <= 2 BY <1>3, <2>2
  <2>5. state' # "Preamble" => Counted' + Pending' < Pulses[state'] BY <1>2, <1>3, <2>3
  <2>6. ~took' BY <1>6
  <2>. QED BY <1>2, <2>1, <2>4, <2>5, <2>6 DEF Owned
<1>. QED BY <1>5, <1>6, HearsCases, Zenon

LEMMA StepAttributed == ASSUME TypeOK, OneUnderway, Attributed, Next PROVE Attributed'
<1>. SUFFICES ASSUME ~foreign' PROVE Owned'
  BY DEF Attributed
<1>1. CASE OutTake
  <2>1. foreign' = (foreign \/ pulses + due > 0) BY <1>1 DEF OutTake
  <2>2. ~foreign BY <2>1, Zenon
  <2>. QED BY <1>1, <2>2, TakeOwned DEF Attributed
<1>2. CASE ~OutTake
  <2>1. foreign' = foreign
    BY <1>2 DEF Next, Host, Usb, Out, HostByte, HostNext, HostRepeat, HostSlip, Ignore,
                Leading, Count, Security, DataByte, UsbReceive, EncodeFull,
                EncodeComplete, AckIsr, OutCount, OutAnswer
  <2>2. Owned BY <2>1 DEF Attributed
  <2>. QED BY <1>2, <2>2, HostUsbOwned, ReceiveOwned, EncodeFullOwned, CompleteOwned,
           IsrOwned, CountOwned, AnswerOwned DEF Next, Usb, Out
<1>. QED BY <1>1, <1>2

LEMMA BoundsGrow ==
    ASSUME TypeOK, Next
    PROVE  /\ slips \in Nat /\ lates \in Nat
           /\ slips' = slips \/ slips' = slips + 1
           /\ lates' = lates \/ lates' = lates + 1
<1>1. slips \in Nat /\ lates \in Nat BY DecupAssumption DEF TypeOK
<1>. QED BY <1>1 DEF Next, Host, Usb, Out, HostByte, HostNext, HostRepeat, HostSlip,
            Ignore, Leading, Count, Security, DataByte, UsbReceive, OutTake, EncodeFull,
            EncodeComplete, AckIsr, OutCount, OutAnswer, bounds

LEMMA StepNoStray ==
    ASSUME TypeOK, OneUnderway, Attributed, NoStray, Next
    PROVE  NoStray'
<1>. SUFFICES ASSUME lates' = 0 PROVE ~foreign' /\ (out' # "count" => Pending' = 0)
  BY DEF NoStray
<1>1. lates = 0 BY BoundsGrow
<1>2. ~foreign /\ (out # "count" => Pending = 0) BY <1>1 DEF NoStray
<1>3. Owned BY <1>2 DEF Attributed
<1>4. CASE OutTake
  <2>1. Pending = 0 BY <1>2, <1>4, TakeFacts
  <2>2. ~(pulses + due > 0) BY <2>1 DEF Pending
  <2>3. foreign' = (foreign \/ pulses + due > 0) /\ pulses' = pulses /\ due' = due
    BY <1>4 DEF OutTake, decoderVars
  <2>4. ~foreign' BY <1>2, <2>2, <2>3, Zenon
  <2>. QED BY <2>1, <2>3, <2>4 DEF Pending
<1>5. CASE OutAnswer
  <2>1. /\ UNCHANGED <<foreign, pulses, due, acks>> /\ rx = <<>> /\ out = "count"
    BY <1>5, AnswerFacts DEF OutAnswer, decoderVars
  <2>2. Counted + Pending <= 2 /\ Counted = acks
    BY <1>3, <2>1 DEF Owned, Heard, Counted
  <2>3. acks = 2 \/ (due = 0 /\ pulses = 0) BY <1>1, <1>5 DEF OutAnswer
  <2>4. Pending = 0
    <3>1. CASE acks = 2 BY <2>2, <3>1, CountsTyped
    <3>2. CASE due = 0 /\ pulses = 0 BY <3>2 DEF Pending
    <3>. QED BY <2>3, <3>1, <3>2
  <2>. QED BY <1>2, <2>1, <2>4 DEF Pending
<1>6. CASE AckIsr
  <2>1. Pending' = Pending BY <1>6, CountsTyped DEF AckIsr, Pending
  <2>. QED BY <1>2, <1>6, <2>1 DEF AckIsr, outVars
<1>7. CASE EncodeComplete \/ OutCount
  BY <1>2, <1>7 DEF EncodeComplete, OutCount
<1>8. CASE Host \/ Usb \/ EncodeFull
  <2>1. UNCHANGED <<foreign, out, pulses, due>>
    BY <1>8 DEF Host, Usb, HostByte, HostNext, HostRepeat, HostSlip, Ignore, Leading,
                Count, Security, DataByte, UsbReceive, EncodeFull, outVars, decoderVars
  <2>. QED BY <1>2, <2>1 DEF Pending
<1>. QED BY <1>4, <1>5, <1>6, <1>7, <1>8 DEF Next, Out

LEMMA CompleteInStart ==
    ASSUME TypeOK, OneUnderway, Following, EncodeComplete, slips = 0,
           decoder = "Startbyte", state \in {"Preamble", "Startbyte"}
    PROVE  decoder' = "Startbyte" \/ took'
<1>1. SUFFICES ASSUME Fits, took' = (state = decoder) PROVE took'
  BY HearsCases
<1>2. frame = <<host.id>> BY <1>1 DEF Fits, SecurityByte
<1>3. Waiting /\ frame = Unit
  BY CompleteFacts DEF Following, Sending, Standing, Answered, Waiting
<1>4. state # "Preamble"
  <2>1. SUFFICES ASSUME state = "Preamble" PROVE FALSE
    OBVIOUS
  <2>2. host.unit \in 1..Last /\ host.unit \in 1..(Last + 1) /\ host.id \in Ids
    BY <1>3, UnitTyped, HostTyped DEF Waiting
  <2>3. host.unit = 1 BY <1>3, <2>1, <2>2, StageIs DEF Waiting
  <2>4. frame = <<239>> BY <1>3, <2>2, <2>3, ScriptIs DEF Unit
  <2>5. host.id = 239 BY <1>2, <2>4
  <2>. QED BY <2>2, <2>5, DecupAssumption
<1>. QED BY <1>1, <1>4

LEMMA StepInStart ==
    ASSUME TypeOK, OneUnderway, Following, Attributed, NoStray, InStart, Next
    PROVE  InStart'
<1>. DEFINE Early == {"Entry", "Preamble", "Startbyte"}
<1>. SUFFICES ASSUME lates' = 0, slips' = 0, state' \in Early
              PROVE  decoder' = "Startbyte" \/ (Heard' /\ took')
  BY DEF InStart
<1>1. lates = 0 /\ slips = 0 BY BoundsGrow
<1>2. state \in Early => decoder = "Startbyte" \/ (Heard /\ took) BY <1>1 DEF InStart
<1>3. CASE Leading \/ Count \/ Security \/ DataByte
  <2>1. state \in Early
    <3>1. CASE Security BY <1>1, <3>1, SecurityRight
    <3>2. CASE ~Security BY <1>3, <3>2 DEF Leading, Count, DataByte
    <3>. QED BY <3>1, <3>2
  <2>2. ~Heard
    <3>1. Read BY <1>3 DEF Leading, Count, Security, DataByte
    <3>. QED BY <3>1 DEF Read, OneUnderway, Heard
  <2>3. decoder' = decoder BY <1>3 DEF Leading, Count, Security, DataByte, decoderVars
  <2>. QED BY <1>2, <2>1, <2>2, <2>3
<1>4. CASE UsbReceive
  <2>1. decoder' = decoder BY <1>4 DEF UsbReceive, decoderVars
  <2>2. Pending = 0 /\ Owned /\ Heard
    BY <1>1, <1>4, ReceiveFacts DEF NoStray, Attributed, Heard
  <2>3. CASE Acknowledged(Head(rx))
    <3>1. state' = Then[state] /\ state \in DOMAIN Pulses
      BY <1>4, <2>3, ReceiveFacts DEF UsbReceive, Acknowledged
    <3>. QED BY <3>1, PulsesAre
  <2>4. CASE ~Acknowledged(Head(rx))
    <3>1. state' = state /\ ~took BY <1>4, <2>2, <2>4, ReceiveTook DEF UsbReceive
    <3>. QED BY <1>2, <2>1, <3>1
  <2>. QED BY <2>3, <2>4
<1>5. CASE OutTake
  <2>1. state' = state /\ decoder' = decoder /\ ~Heard
    BY <1>5, TakeFacts DEF OutTake, decoderVars, Heard
  <2>. QED BY <1>2, <2>1
<1>6. CASE EncodeComplete
  <2>1. state' = state /\ ~Heard /\ Heard' /\ state # "Entry" BY <1>6, CompleteFacts
  <2>2. decoder = "Startbyte" /\ state \in {"Preamble", "Startbyte"} BY <1>2, <2>1
  <2>. QED BY <1>1, <1>6, <2>1, <2>2, CompleteInStart
<1>7. CASE OutAnswer
  <2>1. state' = state /\ decoder' = decoder /\ took' = took /\ Heard'
    BY <1>7, AnswerFacts DEF OutAnswer, decoderVars, Heard
  <2>. QED BY <1>2, <2>1
<1>8. CASE Host \/ Ignore \/ EncodeFull \/ OutCount \/ AckIsr
  <2>1. UNCHANGED <<state, decoder, took, rx, out>>
    BY <1>8 DEF Host, HostByte, HostNext, HostRepeat, HostSlip, Ignore, EncodeFull,
                OutCount, AckIsr, usbVars, outVars, decoderVars
  <2>2. Heard' = Heard BY <2>1 DEF Heard
  <2>. QED BY <1>2, <2>1, <2>2
<1>. QED BY <1>3, <1>4, <1>5, <1>6, <1>7, <1>8 DEF Next, Usb, Out

-----------------------------------------------------------------------------
(* The inductive invariant and what follows from it                        *)

\* Initially nothing is under way and no pulse is due.
LEMMA InitIInv == Init => IInv
<1>. SUFFICES ASSUME Init PROVE IInv
  OBVIOUS
<1>1. TypeOK /\ Following BY InitTypeOK, InitFollowing
<1>2. FromTheStart /\ OneUnderway BY DEF Init, FromTheStart, OneUnderway
<1>3. Pending = 0 /\ ~Heard /\ out = "wait" /\ state = "Entry" /\ decoder = "Startbyte"
      /\ ~foreign /\ ~abort
  BY DEF Init, Pending, Heard
<1>4. Owned BY <1>3, PulsesTyped DEF Owned, Together
<1>. QED BY <1>1, <1>2, <1>3, <1>4 DEF IInv, Attributed, NoStray, InStart

LEMMA StepAbort ==
    ASSUME TypeOK, OneUnderway, Following, Next
    PROVE  abort' => slips' > 0
<1>1. ~abort BY DEF Next
<1>2. CASE UsbReceive
  <2>1. slips' = slips /\ slips \in Nat BY <1>2, BoundsGrow DEF UsbReceive, bounds
  <2>2. slips = 0 => ~abort' BY <1>1, <1>2, ReceiveFollowing
  <2>. QED BY <2>1, <2>2
<1>3. CASE ~UsbReceive
  <2>1. abort' = abort
    BY <1>3 DEF Next, Host, Usb, Out, HostByte, HostNext, HostRepeat, HostSlip, Ignore,
                Leading, Count, Security, DataByte, OutTake, EncodeFull, EncodeComplete,
                AckIsr, OutCount, OutAnswer
  <2>. QED BY <1>1, <2>1
<1>. QED BY <1>2, <1>3

LEMMA StepIInv == IInv /\ [Next]_vars => IInv'
<1>. SUFFICES ASSUME IInv, [Next]_vars PROVE IInv'
  OBVIOUS
<1>1. CASE Next
  <2>1. TypeOK /\ FromTheStart /\ OneUnderway /\ Following /\ Attributed /\ NoStray
        /\ InStart
    BY DEF IInv
  <2>. QED BY <1>1, <2>1, StepTypeOK, StepFromTheStart, StepOneUnderway, StepFollowing,
           StepAttributed, StepNoStray, StepInStart, StepAbort DEF IInv
<1>2. CASE UNCHANGED vars
  <2>. USE <1>2 DEF vars, hostVars, usbVars, outVars, decoderVars, bounds
  <2>1. TypeOK' BY DEF IInv, TypeOK
  <2>2. FromTheStart' /\ (abort' => slips' > 0) BY DEF IInv, FromTheStart
  <2>3. Sent' = Sent /\ Heard' = Heard /\ Counted' = Counted /\ Pending' = Pending
    BY DEF Sent, Heard, Counted, Pending
  <2>4. OneUnderway' BY <2>3, SameUnderway DEF IInv
  <2>5. Following' BY <2>3, SameFollowing DEF IInv
  <2>6. Attributed' BY <2>3, SameOwned DEF IInv, Attributed
  <2>7. NoStray' BY <2>3 DEF IInv, NoStray
  <2>8. InStart' BY <2>3 DEF IInv, InStart
  <2>. QED BY <2>1, <2>2, <2>4, <2>5, <2>6, <2>7, <2>8 DEF IInv
<1>. QED BY <1>1, <1>2

\* Nothing is heard and no pulse is on its way when the firmware reads.
LEMMA IInvInStep == IInv => InStep
<1>. SUFFICES ASSUME IInv, lates = 0, slips = 0, usb = "idle"
              PROVE  \/ state = decoder
                     \/ state \in {"Entry", "Preamble"} /\ decoder = "Startbyte"
  BY DEF InStep
<1>1. ~Heard /\ out = "wait" BY DEF IInv, OneUnderway, Heard
<1>2. Pending = 0 /\ Owned BY <1>1 DEF IInv, NoStray, Attributed
<1>3. Together BY <1>1, <1>2 DEF Owned
<1>4. state \in {"Entry", "Preamble", "Startbyte"} => decoder = "Startbyte"
  BY <1>1 DEF IInv, InStart
<1>5. state \in States BY DEF IInv, TypeOK
<1>. QED BY <1>3, <1>4, <1>5, PulsesTyped DEF Together

LEMMA BeginningOf ==
    ASSUME NEW p \in Seq(Bytes), NEW q \in Seq(Bytes)
    PROVE  /\ p \o q \in Seq(Bytes) /\ Len(p) <= Len(p \o q)
           /\ \A i \in DOMAIN p : (p \o q)[i] = p[i]
<1>1. p \o q \in Seq(Bytes) /\ Len(p \o q) = Len(p) + Len(q)
      /\ Len(p) \in Nat /\ Len(q) \in Nat /\ DOMAIN p = 1..Len(p)
  BY ConcatProperties, LenProperties
<1>2. \A i \in 1..Len(p) : (p \o q)[i] = p[i]
  BY <1>1, ConcatProperties
<1>. QED BY <1>1, <1>2

LEMMA IInvAligned == IInv => Aligned
<1>. SUFFICES ASSUME IInv, slips = 0
              PROVE  /\ Len(packet) <= Size(host.id)
                     /\ \A i \in DOMAIN packet : packet[i] = Data(host.id)[i]
  BY DEF Aligned
<1>1. TypeOK /\ OneUnderway /\ Following BY DEF IInv
<1>2. packet \in Seq(Bytes) /\ in \in Seq(Bytes) /\ host.left \in Seq(Bytes)
      /\ Len(packet) \in Nat /\ DOMAIN packet = 1..Len(packet)
  BY <1>1, HostTyped, LenProperties DEF TypeOK
<1>3. CASE packet = <<>> BY <1>3, EmptyTyped, SizeTyped
<1>4. CASE packet # <<>>
  <2>1. state = "Data" BY <1>1, <1>4 DEF OneUnderway
  <2>2. Sending \/ Waiting BY <1>1, <1>4 DEF Following, Standing, Answered
  <2>3. ~Done BY <2>2 DEF Sending, Waiting
  <2>4. host.unit \in 1..Last /\ host.unit \in 1..(Last + 1)
    BY <1>1, <2>3, UnitTyped, HostTyped
  <2>5. host.unit > 5 /\ host.unit \in 1..Last
    <3>1. CASE Sending BY <1>1, <2>1, <3>1, SendingPlace
    <3>2. CASE Waiting BY <2>1, <2>4, <3>2, StageIs DEF Waiting
    <3>. QED BY <2>2, <2>4, <3>1, <3>2
  <2>6. Unit = Data(host.id) BY <2>5, ScriptIs DEF Unit
  <2>7. Len(Unit) = Size(host.id) BY <2>6, DataTyped
  <2>8. CASE Sending
    <3>1. (packet \o in) \o host.left = Unit /\ Len(packet) < Len(Unit)
      BY <2>8 DEF Sending
    <3>2. packet \o in \in Seq(Bytes) /\ Len(packet) <= Len(packet \o in)
          /\ \A i \in DOMAIN packet : (packet \o in)[i] = packet[i]
      BY <1>2, BeginningOf
    <3>3. \A i \in DOMAIN packet : i \in DOMAIN (packet \o in)
      BY <1>2, <3>2, LenProperties
    <3>4. \A i \in DOMAIN packet : ((packet \o in) \o host.left)[i] = packet[i]
      BY <1>2, <3>2, <3>3, BeginningOf
    <3>5. Len(packet) <= Size(host.id) BY <1>2, <2>7, <3>1, SizeTyped
    <3>6. \A i \in DOMAIN packet : packet[i] = Data(host.id)[i]
      BY <2>6, <3>1, <3>4
    <3>. QED BY <3>5, <3>6
  <2>9. CASE Waiting
    <3>1. packet = Unit BY <1>1, <2>1, <2>9 DEF Waiting, OneUnderway
    <3>. QED BY <2>6, <2>7, <3>1, SizeTyped
  <2>. QED BY <2>2, <2>8, <2>9
<1>. QED BY <1>3, <1>4

LEMMA IInvInv == IInv => Inv
<1>. SUFFICES ASSUME IInv PROVE Inv
  OBVIOUS
<1>1. foreign => lates > 0
  <2>1. lates \in Nat BY DecupAssumption DEF IInv, TypeOK
  <2>. QED BY <2>1 DEF IInv, NoStray
<1>. QED BY <1>1, IInvInStep, IInvAligned DEF IInv, Inv

LEMMA AckIsTrue ==
    ASSUME IInv, Next
    PROVE  UsbReceive /\ tx' > tx => took \/ foreign
<1>. SUFFICES ASSUME UsbReceive, tx' > tx, ~foreign PROVE took
  OBVIOUS
<1>1. TypeOK /\ OneUnderway /\ Owned BY DEF IInv, Attributed
<1>2. Acknowledged(Head(rx))
  <2>1. SUFFICES ASSUME ~Acknowledged(Head(rx)) PROVE FALSE
    OBVIOUS
  <2>2. tx' = tx /\ tx \in Nat BY <1>1, <2>1 DEF UsbReceive, TypeOK
  <2>. QED BY <2>2
<1>. QED BY <1>1, <1>2, AcknowledgedTook

-----------------------------------------------------------------------------
(* The theorems                                                            *)

\* The inductive invariant: what each of the three parties is in the middle of, and how
\* far the byte of the host, the frame and the pulses of the decoder have come between
\* them.
THEOREM SpecIInv == Spec => []IInv
<1>. QED BY InitIInv, StepIInv, PTL DEF Spec

\* The state machine, the encoder and the decoder stay at the same unit of the update,
\* as long as no pulse came behind its window and the host made no mistake; pulses are
\* taken for those of a later frame only behind a late one, and the assert on the block
\* count fails only through a mistake of the host.
THEOREM SpecInv == Spec => []Inv
<1>. QED BY SpecIInv, IInvInv, PTL

\* receive_acks and the state machine behind it: an acknowledge the host gets is for what
\* the decoder took as it was meant, unless pulses for an earlier frame were counted.
THEOREM SpecAckTrue == Spec => AckTrue
<1>1. IInv /\ [Next]_vars => [UsbReceive /\ tx' > tx => took \/ foreign]_vars
  <2>. SUFFICES ASSUME IInv, Next PROVE UsbReceive /\ tx' > tx => took \/ foreign
    OBVIOUS
  <2>. QED BY AckIsTrue
<1>. QED BY <1>1, SpecIInv, PTL DEF Spec, AckTrue

=============================================================================
