------------------------------ MODULE Settings -------------------------------
(***************************************************************************)
(* The settings in the NVS partition (mem/nvs/settings.cpp): how POST      *)
(* /settings/ changes them field by field (settings/service.cpp), what a   *)
(* restart leaves of them, and the one task which reads a setting all the  *)
(* time: short circuit detection (analog/adc_task_function.cpp).           *)
(*                                                                         *)
(* All settings are numbers here.  The three strings stand for themselves  *)
(* by a number, where 0 is an mDNS name which does not end with "remise".  *)
(***************************************************************************)
EXTENDS Integers, FiniteSets

CONSTANTS
    Keys,       \* the settings in use, a subset of AllKeys
    Inputs,     \* numbers a client sends; above 255 stands for no byte at all
    MaxFields,  \* fields of a body
    MaxFrames,  \* frames counted in a row
    CountMax    \* largest value of short_circuit_count, SIZE_MAX

\* In the order postRequest looks for them, with what the setters accept.
Order == <<"sta_mdns", "sta_ssid", "sta_pass", "http_rx_timeout",
    "http_tx_timeout", "usb_rx_timeout", "current_limit", "current_sc_time",
    "dcc_preamble", "dcc_bit1_dur", "dcc_bit0_dur", "dcc_bidibit_dur",
    "dcc_prog_type", "dcc_strtp_rs_pc", "dcc_cntn_rs_pc", "dcc_prog_pc",
    "dcc_verify_bit1", "dcc_ack_cur", "dcc_flags", "mdu_preamble",
    "mdu_ackreq">>
AllKeys == {Order[i] : i \in DOMAIN Order}

Accepted ==
    [sta_mdns |-> 1..255, sta_ssid |-> 0..255, sta_pass |-> 0..255,
     http_rx_timeout |-> 5..60, http_tx_timeout |-> 5..60,
     usb_rx_timeout |-> 1..10, current_limit |-> 0..3,
     current_sc_time |-> 20..255,
     dcc_preamble |-> 17..30, dcc_bit1_dur |-> 56..60,
     dcc_bit0_dur |-> 97..114, dcc_bidibit_dur |-> {0} \cup 57..61,
     dcc_prog_type |-> 0..3, dcc_strtp_rs_pc |-> 25..255,
     dcc_cntn_rs_pc |-> 3..64, dcc_prog_pc |-> 2..64,
     dcc_verify_bit1 |-> 0..1, dcc_ack_cur |-> 5..255, dcc_flags |-> 0..255,
     mdu_preamble |-> 14..30, mdu_ackreq |-> 10..30]

Missing == -1       \* the key is not in the partition
FrameTime == 20     \* analog::conversion_frame_time, in ms
ShortTime == "current_sc_time"
None == [k \in {} |-> 0]  \* no body
Idle == 0           \* no reply; otherwise the HTTP status

ASSUME SettingsAssumption ==
    /\ Keys \subseteq AllKeys
    /\ ShortTime \in Keys
    /\ Inputs \subseteq Nat
    /\ MaxFields \in Nat
    /\ MaxFrames \in Nat \ {0, 1}
    /\ CountMax \in Nat \ {0} /\ CountMax >= 255

Bodies == UNION {[K -> Inputs] : K \in {S \in SUBSET Keys :
                                         Cardinality(S) \in 1..MaxFields}}

VARIABLES
    nvs,       \* settings as they are read
    pending,   \* keys set, but not committed yet
    before,    \* settings committed when no request was being served
    body,      \* its fields
    todo,      \* those not looked at yet
    reply,     \* HTTP status, or Idle
    count,     \* short_circuit_count
    short,     \* the word is State::ShortCircuit
    overload,  \* overloaded frames in a row
    steady     \* frames since the short circuit time was changed

post == <<pending, before, body, todo, reply>>
adc == <<count, short, overload>>
vars == <<nvs, post, adc, steady>>

Stored == 0..255
Fields == DOMAIN body
TypeOK ==
    /\ nvs \in [Keys -> Stored \cup {Missing}]
    /\ before \in [Keys -> Stored \cup {Missing}]
    /\ body \in Bodies \cup {None}
    /\ pending \subseteq Keys
    /\ todo \subseteq Fields
    /\ reply \in {Idle, 200, 422}
    /\ count \in 0..CountMax
    /\ short \in BOOLEAN
    /\ overload \in 0..MaxFrames
    /\ steady \in 0..2

-----------------------------------------------------------------------------
(* Setters and getters *)

\* round_to: the nearer multiple, the larger one in the middle.
RoundTo(n, to) ==
    LET a == (n \div to) * to IN IF n - a >= a + to - n THEN a + to ELSE a

\* What a setter writes.  setU8 takes a byte.
Convert(k, v) ==
    CASE k = ShortTime -> RoundTo(v, FrameTime) % 256
      [] k = "dcc_flags" -> (v \div 4) * 4 + 2
      [] OTHER -> v

\* Mutant of Accepts: the upper bound is left out.
MutAccepts(k, v) == \E w \in Accepted[k] : v >= w
Accepts(k, v) == v \in Accepted[k]

\* v.is<uint8_t>(), v.is<bool>(): a field of another type is ignored.
Typed(k, v) == v \in 0..255 /\ (k = "dcc_verify_bit1" => v \in 0..1)

\* getU8: a key which is not there reads zero.
Read(k) == IF nvs[k] = Missing THEN 0 ELSE nvs[k]

\* The settings nvs.csv puts into a new device.
Default ==
    [sta_mdns |-> 1, sta_ssid |-> 0, sta_pass |-> 0, http_rx_timeout |-> 5,
     http_tx_timeout |-> 5, usb_rx_timeout |-> 1, current_limit |-> 3,
     current_sc_time |-> 20, dcc_preamble |-> 17, dcc_bit1_dur |-> 58,
     dcc_bit0_dur |-> 100, dcc_bidibit_dur |-> 60, dcc_prog_type |-> 3,
     dcc_strtp_rs_pc |-> 25, dcc_cntn_rs_pc |-> 6, dcc_prog_pc |-> 7,
     dcc_verify_bit1 |-> 1, dcc_ack_cur |-> 50, dcc_flags |-> 2,
     mdu_preamble |-> 14, mdu_ackreq |-> 10]

\* get_short_circuit_count
Reload == Read(ShortTime) \div FrameTime

Init ==
    /\ nvs = [k \in Keys |-> Default[k]]
    /\ before = nvs
    /\ pending = {} /\ body = None /\ todo = {} /\ reply = Idle
    /\ count = Reload
    /\ short = FALSE /\ overload = 0 /\ steady = 2

-----------------------------------------------------------------------------
(* POST /settings/ *)

Post(b) ==
    /\ body = None /\ reply = Idle
    /\ body' = b
    /\ todo' = DOMAIN b
    /\ UNCHANGED <<nvs, pending, before, reply, adc, steady>>

Place(k) == CHOOSE i \in DOMAIN Order : Order[i] = k
Earliest(k, S) == k \in S /\ \A j \in S : Place(k) <= Place(j)

Store(k, v) ==
    /\ nvs' = [nvs EXCEPT ![k] = v]
    /\ pending' = pending \cup {k}
    /\ steady' = IF k = ShortTime /\ v # nvs[k] THEN 0 ELSE steady

\* One field is looked at: ignored or stored; or its setter refuses the value or
\* fails to write it, which ends the request.  Leaving postRequest commits what was
\* set.
Ignore(k) == ~Typed(k, body[k]) /\ UNCHANGED <<nvs, pending, reply, steady>>
Accept(k) ==
    /\ Typed(k, body[k]) /\ Accepts(k, body[k])
    /\ Store(k, Convert(k, body[k]))
    /\ UNCHANGED reply
Reject == reply' = 422 /\ pending' = {} /\ UNCHANGED <<nvs, steady>>
Refuse(k) == Typed(k, body[k]) /\ ~Accepts(k, body[k]) /\ Reject
WriteFails(k) == Typed(k, body[k]) /\ Accepts(k, body[k]) /\ Reject

\* Mutant of PostField: a field which is refused is skipped.
MutPostField ==
    /\ reply = Idle
    /\ \E k \in todo :
       /\ Earliest(k, todo)
       /\ todo' = todo \ {k}
       /\ \/ Ignore(k) \/ Accept(k) \/ WriteFails(k)
          \/ /\ Typed(k, body[k]) /\ ~Accepts(k, body[k])
             /\ UNCHANGED <<nvs, pending, reply, steady>>
    /\ UNCHANGED <<before, body, adc>>

PostField ==
    /\ reply = Idle
    /\ \E k \in todo :
       /\ Earliest(k, todo)
       /\ todo' = todo \ {k}
       /\ Ignore(k) \/ Accept(k) \/ Refuse(k) \/ WriteFails(k)
    /\ UNCHANGED <<before, body, adc>>

\* Mutant of PostDone: nothing is committed.
MutPostDone ==
    /\ body # None /\ reply = Idle /\ todo = {}
    /\ reply' = 200
    /\ UNCHANGED <<nvs, pending, before, body, todo, adc, steady>>

PostDone ==
    /\ body # None /\ reply = Idle /\ todo = {}
    /\ reply' = 200
    /\ pending' = {}
    /\ UNCHANGED <<nvs, before, body, todo, adc, steady>>

\* The client has its reply.
PostReplied ==
    /\ reply # Idle
    /\ reply' = Idle /\ body' = None /\ todo' = {}
    /\ before' = nvs
    /\ UNCHANGED <<nvs, pending, adc, steady>>

-----------------------------------------------------------------------------
(* adc_task_function *)

Decrement(n) == IF n = 0 THEN CountMax ELSE n - 1

\* Mutant of Fires: the count is compared before it is decremented.
MutFires(over) == ~short /\ over /\ count = 0
Fires(over) == ~short /\ over /\ Decrement(count) = 0

\* A frame was converted; over: more than 90 % of its currents are at the limit.
Frame(over) ==
    /\ short' = (short \/ Fires(over))
    /\ count' = IF Fires(over) THEN 0 ELSE Reload
    /\ overload' =
         IF ~over THEN 0
         ELSE IF overload < MaxFrames THEN overload + 1 ELSE MaxFrames
    /\ steady' = IF steady < 2 THEN steady + 1 ELSE 2
    /\ UNCHANGED <<nvs, post>>

\* Track power is switched on again (Z21 trackPower): the word is cleared.
PowerOn ==
    /\ short
    /\ short' = FALSE
    /\ overload' = 0
    /\ UNCHANGED <<nvs, post, count, steady>>

\* A restart: what was not committed may be lost.  nvs_flash_init may find a
\* partition it has to erase.
Restart ==
    /\ \/ \E K \in SUBSET pending :
             nvs' = [k \in Keys |-> IF k \in K THEN before[k] ELSE nvs[k]]
       \/ nvs' = [k \in Keys |-> Missing]
    /\ pending' = {} /\ body' = None /\ todo' = {} /\ reply' = Idle
    /\ before' = nvs'
    /\ short' = FALSE /\ overload' = 0 /\ steady' = 0
    /\ count' = IF nvs'[ShortTime] = Missing THEN 0
                ELSE nvs'[ShortTime] \div FrameTime

Next ==
    \/ \E b \in Bodies : Post(b)
    \/ PostField \/ PostDone \/ PostReplied
    \/ \E over \in BOOLEAN : Frame(over)
    \/ PowerOn
    \/ Restart

Spec == Init /\ [][Next]_vars

-----------------------------------------------------------------------------
(* Properties *)

\* Types; what was answered is committed.
Inv ==
    /\ TypeOK
    /\ reply # Idle => pending = {}

\* A setting reads a value settings/doxygen.hpp:9-30 documents, but for three
\* ways out: the key was erased, the BiDi bit duration is 0 for "off", and a
\* short circuit time from 250 to 255 is rounded to 260 and stored as 4.
Documented ==
    [Accepted EXCEPT !.current_sc_time = 20..240, !.dcc_bidibit_dur = 57..61]
InRange ==
    \A k \in Keys :
        \/ Read(k) \in Documented[k]
        \/ nvs[k] = Missing
        \/ k = "dcc_bidibit_dur" /\ Read(k) = 0
        \/ k = ShortTime /\ Read(k) = 4

\* postRequest is not atomic, but at every moment of a POST what is stored is a
\* prefix of its fields, in the order of postRequest, as the setters convert them; all
\* other settings are as before.  With 422 the prefix ends before the last field which
\* was looked at, which was refused or could not be written; nothing which is refused
\* is ever passed over, and 200 says that every field was looked at.
Looked == Fields \ todo
RefusedFields == {k \in Fields : Typed(k, body[k]) /\ ~Accepts(k, body[k])}
StoredOnly(S) ==
    \A k \in Keys : nvs[k] = IF k \in S /\ Typed(k, body[k]) THEN Convert(k, body[k])
                            ELSE before[k]
PrefixStored ==
    /\ \A k \in Looked, j \in todo : Place(k) < Place(j)
    /\ reply # 422 => StoredOnly(Looked) /\ RefusedFields \subseteq todo
    /\ reply = 422 => \E k \in Looked :
          /\ Typed(k, body[k]) /\ \A j \in Looked \ {k} : Place(j) < Place(k)
          /\ StoredOnly(Looked \ {k}) /\ RefusedFields \subseteq todo \cup {k}
    /\ reply = 200 => todo = {}

\* With the time of one frame (20 ms) a short circuit is found in its second
\* frame at the latest, whatever was set before and whenever it was cleared.
Noticed ==
    nvs[ShortTime] = FrameTime /\ steady = 2 /\ overload >= 2 => short

=============================================================================
