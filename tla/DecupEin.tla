------------------------------ MODULE DecupEin ------------------------------
(***************************************************************************)
(* A decoder update over USB: usb::decup_ein follows the bytes of the host *)
(* with a state machine, out::track::decup encodes each byte or packet and *)
(* counts the pulses with which the decoder answers, and the host gets an  *)
(* acknowledge for what was answered as it should be, or nothing.          *)
(*                                                                         *)
(* Three parties keep a state of their own about the same update: the host *)
(* the state machine and the decoder.  The pulses are counted by an        *)
(* interrupt, and the task looks at the count only in a window behind each *)
(* packet.  How a session begins and ends is in UsbSession.                *)
(***************************************************************************)
EXTENDS Integers, Sequences, FiniteSets

CONSTANTS
    Ids,            \* decoders: the byte which selects them
    Narrow, Wide,   \* bytes of a data packet
    Memory, Half,   \* symbols which fit into the RMT memory, and in a refill
    Units,          \* data packets of an image
    MaxRepeats,     \* what the host sends again when nothing comes
    Wrong,          \* bytes the host may send by mistake
    MaxSlips,       \* mistakes of the host
    MaxLates        \* pulses behind their window

ASSUME DecupAssumption ==
    /\ Ids \subseteq 0..255 \ {239, 191}    \* these are taken for a preamble
    /\ Narrow \in Nat \ {0, 1} /\ Wide \in Nat \ {0, 1}
    /\ Memory \in Nat \ {0} /\ Half \in 1..Memory
    /\ Wrong \subseteq 0..255
    /\ Units \in Nat /\ MaxRepeats \in Nat /\ MaxSlips \in Nat /\ MaxLates \in Nat

Bytes == 0..255
Entry == {68, 69, 67, 85, 80, 95, 73, 78, 13}    \* the letters of DECUP_EIN\r
Preambles == {239, 191}
Security1 == 85
Security2 == 170
Use32b == {200, 202, 203, 204, 205}
Size(id) == IF id \in Use32b THEN Narrow ELSE Wide

\* The exclusive disjunction of bytes has the bits which an odd number of them have.
Place == <<1, 2, 4, 8, 16, 32, 64, 128>>
Bit(n, k) == (n \div Place[k]) % 2
Having(bytes, k) == {i \in DOMAIN bytes : Bit(bytes[i], k) = 1}
Odd(bytes, k) == Cardinality(Having(bytes, k)) % 2
Exor(bytes) ==
    Odd(bytes, 1) + 2 * Odd(bytes, 2) + 4 * Odd(bytes, 3) + 8 * Odd(bytes, 4)
      + 16 * Odd(bytes, 5) + 32 * Odd(bytes, 6) + 64 * Odd(bytes, 7) + 128 * Odd(bytes, 8)

\* What the host sends: a preamble, the decoder's byte, the number of blocks, two
\* security bytes and the packets of the image, each of which ends with a checksum.
Data(id) ==
    LET head == [i \in 1..(Size(id) - 1) |-> (16 + i) % 256] IN Append(head, Exor(head))
Opening(id) == <<239, id, 40, Security1, Security2>>
Last == Units + 5
Script(id) == [u \in 1..Last |-> IF u <= 5 THEN <<Opening(id)[u]>> ELSE Data(id)]

States == {"Entry", "Preamble", "Startbyte", "Blockcount", "SecurityByte1",
           "SecurityByte2", "Data"}

\* The number of pulses which acknowledges what was sent in a state, and the state
\* behind it.
Pulses == [Startbyte |-> 2, Blockcount |-> 1, SecurityByte1 |-> 1, SecurityByte2 |-> 1,
           Data |-> 2]
Then == [Startbyte |-> "Blockcount", Blockcount |-> "SecurityByte1",
         SecurityByte1 |-> "SecurityByte2", SecurityByte2 |-> "Data", Data |-> "Data"]

VARIABLES
    host,               \* the decoder it updates, the unit it is at, the rest of it
    in, tx,             \* the stream buffers of the USB
    usb, state, id, packet,    \* usb::decup_ein: pc, _state, _decoder_id, _packet
    front, rx,          \* the message buffers between the tasks
    out, frame, symbols, acks, \* out::track::decup, and num_symbols of its encoder
    pulses,             \* its notification value, which the interrupt increments
    decoder, due,       \* its state, and the pulses it has yet to give
    took, foreign,      \* history: it took the frame as what it is meant for; pulses
                        \* for an earlier frame came or were due when one was sent
    repeats, slips, lates, abort

hostVars == <<host, in, tx>>
usbVars == <<usb, state, id, packet>>
outVars == <<out, frame, symbols, acks>>
decoderVars == <<decoder, due, took>>
bounds == <<repeats, slips, lates>>
vars == <<hostVars, usbVars, front, rx, outVars, pulses, decoderVars, foreign, bounds,
          abort>>

TypeOK ==
    /\ host \in [id : Ids, unit : 1..(Last + 1), left : Seq(Bytes)]
    /\ in \in Seq(Bytes) /\ tx \in Nat
    /\ usb \in {"idle", "receive"} /\ state \in States
    /\ id \in Bytes /\ packet \in Seq(Bytes)
    /\ front \in Seq(Seq(Bytes)) /\ rx \in Seq(Nat)
    /\ out \in {"wait", "encode", "count"} /\ frame \in Seq(Bytes)
    /\ symbols \in Nat /\ acks \in Nat /\ pulses \in Nat
    /\ decoder \in DOMAIN Pulses /\ due \in Nat
    /\ took \in BOOLEAN /\ foreign \in BOOLEAN
    /\ repeats \in 0..MaxRepeats /\ slips \in 0..MaxSlips /\ lates \in 0..MaxLates
    /\ abort \in BOOLEAN

Init ==
    /\ host \in {[id |-> d, unit |-> 1, left |-> Script(d)[1]] : d \in Ids}
    /\ in = <<>> /\ tx = 0
    /\ usb = "idle" /\ state = "Entry" /\ id = 0 /\ packet = <<>>
    /\ front = <<>> /\ rx = <<>>
    /\ out = "wait" /\ frame = <<>> /\ symbols = 0 /\ acks = 0 /\ pulses = 0
    /\ decoder = "Startbyte" /\ due = 0
    /\ took = FALSE /\ foreign = FALSE
    /\ repeats = 0 /\ slips = 0 /\ lates = 0 /\ abort = FALSE

-----------------------------------------------------------------------------
(* The host: it waits long enough for an acknowledge before it tries again *)

Done == host.unit > Last
Unit == Script(host.id)[host.unit]
Quiet == in = <<>> /\ usb = "idle" /\ tx = 0

HostByte ==
    /\ host.left # <<>>
    /\ in' = Append(in, Head(host.left))
    /\ host' = [host EXCEPT !.left = Tail(@)]
    /\ UNCHANGED <<tx, usbVars, front, rx, outVars, pulses, decoderVars, foreign,
                   bounds, abort>>

\* The preamble is not acknowledged.
HostNext ==
    /\ host.left = <<>> /\ ~Done
    /\ IF host.unit = 1 THEN Quiet /\ UNCHANGED tx ELSE tx > 0 /\ tx' = tx - 1
    /\ host' = [host EXCEPT !.unit = @ + 1,
                            !.left = IF host.unit = Last THEN <<>>
                                     ELSE Script(host.id)[host.unit + 1]]
    /\ UNCHANGED <<in, usbVars, front, rx, outVars, pulses, decoderVars, foreign,
                   bounds, abort>>

\* "Einfachpuls -> letztes Paket wiederholen"
HostRepeat ==
    /\ Quiet /\ host.left = <<>> /\ ~Done /\ host.unit > 1
    /\ repeats < MaxRepeats /\ repeats' = repeats + 1
    /\ host' = [host EXCEPT !.left = Unit]
    /\ UNCHANGED <<in, tx, usbVars, front, rx, outVars, pulses, decoderVars, foreign,
                   slips, lates, abort>>

\* It begins again, or sends a wrong byte for the rest of a unit.
HostSlip ==
    /\ Quiet /\ ~Done
    /\ slips < MaxSlips /\ slips' = slips + 1
    /\ host' \in {[host EXCEPT !.unit = 1, !.left = Script(host.id)[1]]}
                    \cup {[host EXCEPT !.left = <<byte>>] : byte \in Wrong}
    /\ UNCHANGED <<in, tx, usbVars, front, rx, outVars, pulses, decoderVars, foreign,
                   repeats, lates, abort>>

-----------------------------------------------------------------------------
(* usb::decup_ein *)

\* ZsuLoad::transmit sends the bytes and waits for the number of pulses.
Transmit(bytes) == front' = Append(front, bytes) /\ usb' = "receive"

Read == usb = "idle" /\ in # <<>> /\ in' = Tail(in)

Ignore ==
    /\ Read
    /\ state = "Entry" /\ Head(in) \in Entry
    /\ UNCHANGED <<host, tx, usbVars, front, rx, outVars, pulses, decoderVars, foreign,
                   bounds, abort>>

\* Entry and Preamble run into the states behind them.
Leading ==
    /\ Read
    /\ \/ state = "Entry" /\ Head(in) \notin Entry
       \/ state \in {"Preamble", "Startbyte"}
    /\ state' = IF state # "Startbyte" /\ Head(in) \in Preambles THEN "Preamble"
                                                                 ELSE "Startbyte"
    /\ Transmit(<<Head(in)>>)
    /\ UNCHANGED <<host, tx, id, packet, rx, outVars, pulses, decoderVars, foreign,
                   bounds, abort>>

Count ==
    /\ Read
    /\ state = "Blockcount"
    /\ Transmit(<<Head(in)>>)
    /\ UNCHANGED <<host, tx, state, id, packet, rx, outVars, pulses, decoderVars,
                   foreign, bounds, abort>>

SecurityByte == [SecurityByte1 |-> Security1, SecurityByte2 |-> Security2]

Security ==
    /\ Read
    /\ state \in DOMAIN SecurityByte
    /\ IF Head(in) = SecurityByte[state]
       THEN Transmit(<<Head(in)>>) /\ UNCHANGED <<state, id, packet>>
       ELSE /\ packet' = <<>> /\ state' = "Entry" /\ id' = 0
            /\ UNCHANGED <<usb, front>>
    /\ UNCHANGED <<host, tx, rx, outVars, pulses, decoderVars, foreign, bounds, abort>>

\* A packet which has its length, but not its checksum, goes on.  How far it can is up
\* to the library: ::decup::Packet has a max_size, which the properties do not need.
Whole(bytes) == Len(bytes) >= Size(id) /\ Exor(bytes) = 0

DataByte ==
    /\ Read
    /\ state = "Data"
    /\ packet' = Append(packet, Head(in))
    /\ IF Whole(packet') THEN Transmit(packet') ELSE UNCHANGED <<usb, front>>
    /\ UNCHANGED <<host, tx, state, id, rx, outVars, pulses, decoderVars, foreign,
                   bounds, abort>>

\* Mutant of Acknowledged: one pulse for a packet, with which the decoder asks for it
\* again, is an acknowledge as well.
MutAcknowledged(n) == state # "Preamble" /\ (n = Pulses[state] \/ n = 1)

Acknowledged(n) == state # "Preamble" /\ n = Pulses[state]

UsbReceive ==
    /\ usb = "receive" /\ rx # <<>>
    /\ usb' = "idle" /\ rx' = Tail(rx)
    /\ IF Acknowledged(Head(rx))
       THEN /\ tx' = tx + 1
            /\ state' = Then[state]
            /\ id' = IF state = "Startbyte" THEN frame[1] ELSE id
            /\ abort' = (state = "Blockcount" /\ frame[1] <= 9)
       ELSE UNCHANGED <<tx, state, id, abort>>
    /\ packet' = <<>>
    /\ UNCHANGED <<host, in, front, outVars, pulses, decoderVars, foreign, bounds>>

-----------------------------------------------------------------------------
(* out::track::decup, its encoder, and the interrupt *)

\* xTaskNotifyStateClear leaves the count of the notifications as it is.
OutTake ==
    /\ out = "wait" /\ front # <<>>
    /\ out' = "encode"
    /\ front' = Tail(front) /\ frame' = Head(front)
    /\ acks' = 0
    /\ foreign' = (foreign \/ pulses + due > 0)
    /\ UNCHANGED <<hostVars, usbVars, rx, symbols, pulses, decoderVars, bounds, abort>>

\* A start and a stop bit around the eight of each byte.
Symbols == 10 * Len(frame)

\* rmt_encode_decup fills the memory, which is empty or half empty, and goes on where
\* it was in the next call.
Space == IF symbols = 0 THEN Memory ELSE Half

EncodeFull ==
    /\ out = "encode"
    /\ symbols < Symbols
    /\ symbols + Space < Symbols
    /\ symbols' = symbols + Space
    /\ UNCHANGED <<hostVars, usbVars, front, rx, out, frame, acks, pulses, decoderVars,
                   foreign, bounds, abort>>

\* What the decoder takes a frame for.
Fits ==
    CASE decoder = "Startbyte" -> frame = <<host.id>>
      [] decoder = "Blockcount" -> Len(frame) = 1
      [] decoder \in DOMAIN SecurityByte -> frame = <<SecurityByte[decoder]>>
      [] OTHER -> Len(frame) = Size(host.id) /\ Exor(frame) = 0

\* It takes a frame, leaves it alone, or asks for a packet again with one pulse.
Hears ==
    \/ /\ Fits
       /\ decoder' = Then[decoder]
       /\ due' = due + Pulses[decoder]
       /\ took' = (state = decoder)
    \/ /\ due' \in IF decoder = "Data" /\ Len(frame) = Size(host.id) THEN {due, due + 1}
                                                                     ELSE {due}
       /\ took' = FALSE
       /\ UNCHANGED decoder

\* Mutant of EncodeComplete: the counter goes on with the next packet.
MutEncodeComplete ==
    /\ out = "encode" /\ out' = "count"
    /\ symbols < Symbols
    /\ symbols + Space >= Symbols
    /\ symbols' = Symbols
    /\ Hears
    /\ UNCHANGED <<hostVars, usbVars, front, rx, frame, acks, pulses, foreign, bounds,
                   abort>>

EncodeComplete ==
    /\ out = "encode" /\ out' = "count"
    /\ symbols < Symbols
    /\ symbols + Space >= Symbols
    /\ symbols' = 0
    /\ Hears
    /\ UNCHANGED <<hostVars, usbVars, front, rx, frame, acks, pulses, foreign, bounds,
                   abort>>

AckIsr ==
    /\ due > 0 /\ due' = due - 1
    /\ pulses' = pulses + 1
    /\ UNCHANGED <<hostVars, usbVars, front, rx, outVars, decoder, took, foreign, bounds,
                   abort>>

\* ulTaskNotifyTake, again and again.
OutCount ==
    /\ out = "count" /\ acks # 2
    /\ pulses > 0
    /\ acks' = acks + pulses /\ pulses' = 0
    /\ UNCHANGED <<hostVars, usbVars, front, rx, out, frame, symbols, decoderVars,
                   foreign, bounds, abort>>

\* Two pulses have come, or the time is up; the decoder answers in time unless it is
\* late.
OutAnswer ==
    /\ out = "count" /\ out' = "wait"
    /\ \/ acks = 2 /\ UNCHANGED lates
       \/ due = 0 /\ pulses = 0 /\ acks # 2 /\ UNCHANGED lates
       \/ due > 0 /\ acks # 2 /\ lates < MaxLates /\ lates' = lates + 1
    /\ rx' = Append(rx, acks)
    /\ UNCHANGED <<hostVars, usbVars, front, frame, symbols, acks, pulses, decoderVars,
                   foreign, repeats, slips, abort>>

-----------------------------------------------------------------------------
Host == HostByte \/ HostNext \/ HostRepeat \/ HostSlip
Usb == Ignore \/ Leading \/ Count \/ Security \/ DataByte \/ UsbReceive
Out == OutTake \/ EncodeFull \/ EncodeComplete \/ OutCount \/ OutAnswer

Next == ~abort /\ (Host \/ Usb \/ Out \/ AckIsr)

Spec == Init /\ [][Next]_vars

-----------------------------------------------------------------------------
(* Properties *)

\* The encoder begins each packet with its first symbol, whatever the lengths of the
\* packets before it.
FromTheStart == out # "encode" => symbols = 0

\* As long as no pulse is late and the host makes no mistake, the firmware stands where
\* the decoder does whenever nothing is under way, whatever the decoder refused.
InStep ==
    lates = 0 /\ slips = 0 /\ usb = "idle" =>
        \/ state = decoder
        \/ state \in {"Entry", "Preamble"} /\ decoder = "Startbyte"

\* What the firmware has collected is the beginning of the host's packet, unless the
\* host made a mistake.
Aligned ==
    slips = 0 => /\ Len(packet) <= Size(host.id)
                 /\ \A i \in DOMAIN packet : packet[i] = Data(host.id)[i]

\* A pulse is taken for one of a later frame only behind one which missed its window,
\* and the block count which fails the assert is a mistake of the host.
Inv ==
    /\ TypeOK /\ FromTheStart /\ InStep /\ Aligned
    /\ foreign => lates > 0
    /\ abort => slips > 0

\* "Clear any stored counts": the host gets an acknowledge only for what the decoder
\* took as what the firmware meant it for, until the first pulse behind its window:
\* that one is counted with a later packet, and from there on the firmware may be in
\* another state than the decoder.
AckTrue == [][UsbReceive /\ tx' > tx => took \/ foreign]_vars

=============================================================================
