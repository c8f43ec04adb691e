--------------------------- MODULE Settings_proofs ---------------------------
(***************************************************************************)
(* Proofs about Settings: for all settings, all inputs and bodies of any   *)
(* size, a setting never leaves its documented range but in the three ways *)
(* InRange names, and a POST stores a prefix of its fields at every moment.*)
(***************************************************************************)
EXTENDS Settings, FiniteSetTheorems, TLAPS

\* What a setter writes is a byte, and one which reads back in range.
LEMMA RoundToRange ==
    ASSUME NEW v \in 20..255
    PROVE  RoundTo(v, 20) % 256 \in 20..240 \cup {4}
BY DEF RoundTo

LEMMA AcceptedDomain == DOMAIN Accepted = AllKeys
BY DEF Accepted, AllKeys, Order

\* What InRange says of a value v of setting k which is not missing.
Allowed(k, v) ==
    \/ v \in Documented[k]
    \/ k = "dcc_bidibit_dur" /\ v = 0
    \/ k = ShortTime /\ v = 4

LEMMA ConvertAllowed ==
    ASSUME NEW k \in AllKeys, NEW v \in 0..255, Accepts(k, v)
    PROVE  Convert(k, v) \in Stored /\ Allowed(k, Convert(k, v))
<1>1. CASE k = ShortTime
  <2>1. v \in 20..255 BY <1>1 DEF Accepts, Accepted, ShortTime
  <2>2. Convert(k, v) = RoundTo(v, 20) % 256
    BY <1>1 DEF Convert, FrameTime, ShortTime
  <2>3. RoundTo(v, 20) % 256 \in 20..240 \cup {4} BY <2>1, RoundToRange
  <2>4. Documented[k] = 20..240
    BY <1>1, AcceptedDomain DEF Documented, ShortTime
  <2>. QED BY <1>1, <2>2, <2>3, <2>4 DEF Allowed, Stored
<1>2. CASE k = "dcc_flags"
  <2>1. Convert(k, v) = (v \div 4) * 4 + 2 BY <1>2 DEF Convert, ShortTime
  <2>2. Convert(k, v) \in 0..255 BY <2>1
  <2>3. Documented[k] = 0..255
    <3>1. Accepted[k] = 0..255 BY <1>2 DEF Accepted
    <3>. QED BY <1>2, <3>1, AcceptedDomain DEF Documented
  <2>. QED BY <2>2, <2>3 DEF Allowed, Stored
<1>3. CASE k \notin {ShortTime, "dcc_flags"}
  <2>1. Convert(k, v) = v BY <1>3 DEF Convert
  <2>2. CASE k = "dcc_bidibit_dur"
    <3>1. v \in {0} \cup 57..61 BY <2>2 DEF Accepts, Accepted
    <3>2. Documented[k] = 57..61
      BY <2>2, AcceptedDomain DEF Documented
    <3>. QED BY <2>1, <2>2, <3>1, <3>2 DEF Allowed, Stored
  <2>3. CASE k # "dcc_bidibit_dur"
    <3>1. Documented[k] = Accepted[k]
      BY <1>3, <2>3, AcceptedDomain DEF Documented, ShortTime
    <3>. QED BY <2>1, <3>1 DEF Allowed, Accepts, Stored
  <2>. QED BY <2>2, <2>3
<1>. QED BY <1>1, <1>2, <1>3

LEMMA DefaultAllowed ==
    \A k \in AllKeys : Default[k] \in Stored /\ Allowed(k, Default[k])
<1>1. \A k \in DOMAIN Accepted : Default[k] \in Accepted[k] \cap 0..255
  BY DEF Default, Accepted
<1>2. Default[ShortTime] = 20 /\ Default["dcc_bidibit_dur"] = 60
  BY DEF Default, ShortTime
<1>3. SUFFICES ASSUME NEW k \in AllKeys
               PROVE  Default[k] \in Stored /\ Allowed(k, Default[k])
  OBVIOUS
<1>4. CASE k \in {ShortTime, "dcc_bidibit_dur"}
  <2>1. Documented[ShortTime] = 20..240 /\ Documented["dcc_bidibit_dur"] = 57..61
    <3>1. {"current_sc_time", "dcc_bidibit_dur"} \subseteq DOMAIN Accepted
      BY DEF Accepted
    <3>. QED BY <3>1 DEF Documented, ShortTime
  <2>. QED BY <1>2, <1>4, <2>1 DEF Allowed, Stored
<1>5. CASE k \notin {ShortTime, "dcc_bidibit_dur"}
  <2>1. Documented[k] = Accepted[k]
    BY <1>5, AcceptedDomain DEF Documented, ShortTime
  <2>. QED BY <1>1, <1>5, <2>1, AcceptedDomain DEF Allowed, Stored
<1>. QED BY <1>4, <1>5

LEMMA PlaceIsOrder ==
    ASSUME NEW k \in AllKeys
    PROVE  Place(k) \in Int /\ Order[Place(k)] = k
<1>1. \E i \in DOMAIN Order : Order[i] = k BY DEF AllKeys
<1>2. Place(k) \in DOMAIN Order /\ Order[Place(k)] = k BY <1>1 DEF Place
<1>3. DOMAIN Order \subseteq Int BY DEF Order
<1>. QED BY <1>2, <1>3

-----------------------------------------------------------------------------
(* What is stored, and what a restart may bring back, is allowed; between  *)
(* two requests nothing differs from what was committed.                   *)

KeysAllowed == \A k \in Keys : nvs[k] = Missing \/ Allowed(k, nvs[k])
BeforeAllowed == \A k \in Keys : before[k] = Missing \/ Allowed(k, before[k])

IInv ==
    /\ Inv
    /\ KeysAllowed /\ BeforeAllowed
    /\ body = None => before = nvs /\ reply = Idle
    /\ PrefixStored

LEMMA FieldsOfBody ==
    ASSUME TypeOK
    PROVE  /\ Fields \subseteq Keys
           /\ body = None => Fields = {}
           /\ \A k \in Fields : body[k] \in Nat
<1>1. CASE body = None BY <1>1 DEF Fields, None
<1>2. CASE body \in Bodies
  <2>1. PICK K \in SUBSET Keys : body \in [K -> Inputs] BY <1>2 DEF Bodies
  <2>. QED BY <2>1, SettingsAssumption DEF Fields, None
<1>. QED BY <1>1, <1>2 DEF TypeOK

LEMMA FieldsOfPost ==
    ASSUME NEW b \in Bodies
    PROVE  DOMAIN b \subseteq Keys /\ b \in Bodies
BY DEF Bodies

LEMMA ReloadType ==
    ASSUME TypeOK
    PROVE  Reload \in 0..CountMax
<1>1. Read(ShortTime) \in 0..255
  BY SettingsAssumption DEF TypeOK, Read, Stored
<1>2. Read(ShortTime) \div 20 \in 0..255 BY <1>1
<1>. QED BY <1>2, SettingsAssumption DEF Reload, FrameTime

LEMMA InitIInv == Init => IInv
<1> SUFFICES ASSUME Init PROVE IInv OBVIOUS
<1>1. \A k \in Keys : nvs[k] \in Stored /\ Allowed(k, nvs[k])
  BY DefaultAllowed, SettingsAssumption DEF Init
<1>2. nvs \in [Keys -> Stored \cup {Missing}] /\ Fields = {}
  BY <1>1 DEF Init, Fields, None
<1>3. Read(ShortTime) \in 0..255
  BY <1>2, SettingsAssumption DEF Read, Stored
<1>4. Read(ShortTime) \div 20 \in 0..255 BY <1>3
<1>5. count \in 0..CountMax
  BY <1>4, SettingsAssumption DEF Init, Reload, FrameTime
<1>6. before = nvs /\ body = None /\ todo = {} /\ pending = {} /\ reply = 0
      /\ short = FALSE /\ overload = 0 /\ steady = 2
  BY DEF Init, Idle
<1>7. TypeOK
  <2>1. overload \in 0..MaxFrames /\ steady \in 0..2
    BY <1>6, SettingsAssumption
  <2>3. short \in BOOLEAN BY <1>6
  <2>2. reply \in {Idle, 200, 422} /\ pending \subseteq Keys
        /\ todo \subseteq Fields
    BY <1>6 DEF Idle
  <2>. QED BY <1>2, <1>5, <1>6, <2>1, <2>2, <2>3 DEF TypeOK
<1>8. PrefixStored
  BY <1>2, <1>6 DEF PrefixStored, StoredOnly, Looked, RefusedFields
<1>. QED BY <1>1, <1>6, <1>7, <1>8 DEF IInv, Inv, KeysAllowed, BeforeAllowed, Idle

-----------------------------------------------------------------------------
(* IInv is inductive: one lemma per group of actions.                      *)

\* A request begins: nothing was looked at, and before is what is stored.
LEMMA PostStep ==
    ASSUME IInv, NEW b \in Bodies, Post(b)
    PROVE  IInv'
<1> USE DEF Post, adc
<1>1. DOMAIN b \subseteq Keys BY FieldsOfPost
<1>2. Looked' = {} /\ Fields' = DOMAIN b BY DEF Looked, Fields
<1>3. TypeOK' BY <1>1, <1>2 DEF IInv, Inv, TypeOK
<1>4. PrefixStored'
  <2>1. StoredOnly(Looked)' BY <1>2 DEF IInv, StoredOnly
  <2>2. (RefusedFields \subseteq todo)' BY <1>2 DEF RefusedFields
  <2>. QED BY <1>2, <2>1, <2>2 DEF PrefixStored, Idle
<1>5. KeysAllowed' /\ BeforeAllowed' BY DEF IInv, KeysAllowed, BeforeAllowed, Allowed
<1>6. body' # None
  <2>1. DOMAIN b # {}
    <3>1. PICK K \in SUBSET Keys : Cardinality(K) \in 1..MaxFields
                                  /\ b \in [K -> Inputs]
      BY DEF Bodies
    <3>2. K # {} BY <3>1, FS_EmptySet
    <3>. QED BY <3>1, <3>2
  <2>. QED BY <2>1 DEF None
<1>. QED BY <1>3, <1>4, <1>5, <1>6 DEF IInv, Inv

\* One field: the earliest left is later than all that were looked at.
LEMMA FieldStep ==
    ASSUME IInv, PostField
    PROVE  IInv'
<1>1. PICK k \in todo : /\ Earliest(k, todo)
                        /\ todo' = todo \ {k}
                        /\ Ignore(k) \/ Accept(k) \/ Refuse(k) \/ WriteFails(k)
  BY DEF PostField
<1>2. reply = Idle /\ UNCHANGED <<before, body, count, short, overload>>
  BY DEF PostField, adc
<1>3. TypeOK /\ Fields \subseteq Keys /\ Keys \subseteq AllKeys
  BY FieldsOfBody, SettingsAssumption DEF IInv, Inv
<1>4. /\ k \in Fields /\ Fields' = Fields /\ Looked' = Looked \cup {k}
      /\ RefusedFields' = RefusedFields
  BY <1>1, <1>2, <1>3 DEF TypeOK, Looked, Fields, RefusedFields
<1>5. \A j \in todo' : Place(k) < Place(j)
  <2> TAKE j \in todo'
  <2>1. j \in todo /\ j # k BY <1>1
  <2>2. j \in AllKeys /\ k \in AllKeys BY <1>3, <1>4, <2>1 DEF TypeOK
  <2>3. Place(k) <= Place(j) BY <1>1, <2>1 DEF Earliest
  <2>. QED BY <2>1, <2>2, <2>3, PlaceIsOrder
<1>6. /\ \A i \in Looked', j \in todo' : Place(i) < Place(j)
      /\ \A i \in Looked' \ {k} : Place(i) < Place(k)
      /\ Looked' \ {k} = Looked /\ k \notin Looked
      /\ StoredOnly(Looked) /\ RefusedFields \subseteq todo
  BY <1>1, <1>2, <1>4, <1>5 DEF IInv, PrefixStored, Looked, Idle
<1>7. body[k] \in Nat BY <1>3, <1>4, FieldsOfBody
<1>8. BeforeAllowed' BY <1>2 DEF IInv, BeforeAllowed, Allowed
<1>9. body # None BY <1>3, <1>4, FieldsOfBody
<1>10. CASE Ignore(k)
  <2>1. UNCHANGED <<nvs, pending, reply, steady>> /\ ~Typed(k, body[k])
    BY <1>10 DEF Ignore
  <2>2. TypeOK' BY <1>1, <1>2, <1>3, <1>4, <2>1 DEF TypeOK
  <2>3. StoredOnly(Looked)' BY <1>2, <1>4, <1>6, <2>1 DEF StoredOnly
  <2>4. RefusedFields' \subseteq todo'
    BY <1>1, <1>2, <1>4, <1>6, <2>1 DEF RefusedFields
  <2>5. KeysAllowed' BY <2>1 DEF IInv, KeysAllowed, Allowed
  <2>6. PrefixStored' BY <1>2, <1>6, <2>1, <2>3, <2>4 DEF PrefixStored, Idle
  <2>. QED BY <1>2, <1>8, <1>9, <2>1, <2>2, <2>5, <2>6 DEF IInv, Inv
<1>11. CASE Accept(k)
  <2>1. Typed(k, body[k]) /\ Accepts(k, body[k]) /\ UNCHANGED reply
        /\ nvs' = [nvs EXCEPT ![k] = Convert(k, body[k])]
        /\ pending' = pending \cup {k}
        /\ steady' \in {0, steady}
    BY <1>11 DEF Accept, Store
  <2>2. Convert(k, body[k]) \in Stored /\ Allowed(k, Convert(k, body[k]))
    BY <1>3, <1>4, <2>1, ConvertAllowed DEF Typed
  <2>3. nvs' \in [Keys -> Stored \cup {Missing}]
    BY <1>3, <1>4, <2>1, <2>2 DEF TypeOK
  <2>4. TypeOK' BY <1>1, <1>2, <1>3, <1>4, <2>1, <2>3 DEF TypeOK
  <2>5. \A j \in Keys : nvs'[j] = IF j = k THEN Convert(k, body[k]) ELSE nvs[j]
    BY <1>3, <2>1 DEF TypeOK
  <2>6. StoredOnly(Looked)' BY <1>2, <1>4, <1>6, <2>1, <2>5 DEF StoredOnly
  <2>7. RefusedFields' \subseteq todo'
    BY <1>1, <1>2, <1>4, <1>6, <2>1 DEF RefusedFields
  <2>8. KeysAllowed' BY <2>2, <2>5 DEF IInv, KeysAllowed, Allowed
  <2>9. PrefixStored' BY <1>2, <1>6, <2>1, <2>6, <2>7 DEF PrefixStored, Idle
  <2>. QED BY <1>2, <1>8, <1>9, <2>1, <2>4, <2>8, <2>9 DEF IInv, Inv
<1>12. CASE Refuse(k) \/ WriteFails(k)
  <2>1. Typed(k, body[k]) /\ reply' = 422 /\ pending' = {} /\ UNCHANGED <<nvs, steady>>
    BY <1>12 DEF Refuse, WriteFails, Reject
  <2>2. TypeOK' BY <1>1, <1>2, <1>3, <1>4, <2>1 DEF TypeOK
  <2>3. KeysAllowed' BY <2>1 DEF IInv, KeysAllowed, Allowed
  <2>4. StoredOnly(Looked \ {k})' BY <1>2, <1>6, <2>1 DEF StoredOnly
  <2>5. RefusedFields' \subseteq todo' \cup {k} BY <1>1, <1>4, <1>6
  <2>6. k \in Looked' /\ Typed(k, body'[k]) BY <1>2, <1>4, <2>1
  <2>9. \A j \in (Looked \ {k})' : Place(j) < Place(k) BY <1>6
  <2>7. PrefixStored'
    <3>1. ~(reply' # 422) /\ ~(reply' = 200) BY <2>1
    <3>2. \A i \in Looked', j \in todo' : Place(i) < Place(j) BY <1>6
    <3>3. \E i \in Looked' :
             /\ Typed(i, body'[i]) /\ \A j \in Looked' \ {i} : Place(j) < Place(i)
             /\ \A j \in Keys :
                   nvs'[j] = IF j \in Looked' \ {i} /\ Typed(j, body'[j])
                             THEN Convert(j, body'[j]) ELSE before'[j]
             /\ RefusedFields' \subseteq todo' \cup {i}
      <4>1. \A j \in Keys :
               nvs'[j] = IF j \in Looked' \ {k} /\ Typed(j, body'[j])
                         THEN Convert(j, body'[j]) ELSE before'[j]
        BY <2>4 DEF StoredOnly
      <4>. QED BY <2>5, <2>6, <2>9, <4>1, Zenon
    <3>. QED BY <3>1, <3>2, <3>3 DEF PrefixStored, StoredOnly
  <2>8. reply' # Idle BY <2>1 DEF Idle
  <2>. QED BY <1>2, <1>8, <1>9, <2>1, <2>2, <2>3, <2>7, <2>8 DEF IInv, Inv
<1>. QED BY <1>1, <1>10, <1>11, <1>12

\* The last field is done, and the client gets its reply.
LEMMA DoneStep ==
    ASSUME IInv, PostDone \/ PostReplied
    PROVE  IInv'
<1>1. TypeOK /\ Fields \subseteq Keys BY FieldsOfBody DEF IInv, Inv
<1>2. CASE PostDone
  <2> USE <1>2 DEF PostDone, adc
  <2>1. Fields' = Fields /\ Looked' = Looked /\ RefusedFields' = RefusedFields
    BY DEF Fields, Looked, RefusedFields
  <2>2. TypeOK' BY <1>1, <2>1 DEF TypeOK
  <2>3. StoredOnly(Looked)' /\ (RefusedFields \subseteq todo)'
    BY <2>1 DEF IInv, PrefixStored, StoredOnly, Idle
  <2>4. PrefixStored' BY <2>3 DEF PrefixStored
  <2>5. KeysAllowed' /\ BeforeAllowed'
    BY DEF IInv, KeysAllowed, BeforeAllowed, Allowed
  <2>6. reply' # Idle /\ body' # None BY DEF Idle
  <2>. QED BY <2>2, <2>4, <2>5, <2>6 DEF IInv, Inv
<1>3. CASE PostReplied
  <2> USE <1>3 DEF PostReplied, adc
  <2>1. Fields' = {} BY DEF Fields, None
  <2>2. TypeOK' BY <1>1, <2>1 DEF TypeOK
  <2>3. PrefixStored'
    BY <2>1 DEF PrefixStored, StoredOnly, Looked, RefusedFields, Idle
  <2>4. KeysAllowed' /\ BeforeAllowed'
    BY DEF IInv, KeysAllowed, BeforeAllowed, Allowed
  <2>. QED BY <2>2, <2>3, <2>4 DEF IInv, Inv
<1>. QED BY <1>2, <1>3

\* The ADC task and trackPower leave the settings alone.
LEMMA AdcStep ==
    ASSUME IInv, (\E over \in BOOLEAN : Frame(over)) \/ PowerOn
    PROVE  IInv'
<1>1. TypeOK BY DEF IInv, Inv
<1>2. UNCHANGED <<nvs, post>> BY DEF Frame, PowerOn
<1>3. Fields' = Fields BY <1>2 DEF Fields, post
<1>4. TypeOK'
  <2>1. short' \in BOOLEAN BY <1>1 DEF TypeOK, Frame, PowerOn
  <2>2. count' \in 0..CountMax
    <3>1. CASE PowerOn BY <1>1, <3>1 DEF TypeOK, PowerOn
    <3>2. ASSUME NEW over \in BOOLEAN, Frame(over)
          PROVE  count' \in 0..CountMax
      BY <1>1, <3>2, ReloadType, SettingsAssumption DEF Frame
    <3>. QED BY <3>1, <3>2
  <2>3. overload' \in 0..MaxFrames /\ steady' \in 0..2
    BY <1>1, SettingsAssumption DEF TypeOK, Frame, PowerOn
  <2>. QED BY <1>1, <1>2, <1>3, <2>1, <2>2, <2>3 DEF TypeOK, post
<1>5. IInv' <=> TypeOK' /\ IInv
  BY <1>1, <1>2, <1>3
     DEF IInv, Inv, post, KeysAllowed, BeforeAllowed, Allowed, StoredOnly,
         Looked, RefusedFields, PrefixStored
<1>. QED BY <1>4, <1>5

\* A restart brings settings back which were allowed before, or none.
LEMMA RestartStep ==
    ASSUME IInv, Restart
    PROVE  IInv'
<1>1. TypeOK BY DEF IInv, Inv
<1>2. /\ pending' = {} /\ body' = None /\ todo' = {} /\ reply' = Idle
      /\ before' = nvs' /\ short' = FALSE /\ overload' = 0 /\ steady' = 0
      /\ count' = IF nvs'[ShortTime] = Missing THEN 0
                  ELSE nvs'[ShortTime] \div FrameTime
  BY DEF Restart
<1>3. /\ nvs' \in [Keys -> Stored \cup {Missing}]
      /\ \A k \in Keys : nvs'[k] = Missing \/ Allowed(k, nvs'[k])
  <2>1. CASE nvs' = [k \in Keys |-> Missing] BY <2>1
  <2>2. ASSUME NEW K \in SUBSET pending,
               nvs' = [k \in Keys |-> IF k \in K THEN before[k] ELSE nvs[k]]
        PROVE  <1>3!1 /\ <1>3!2
    BY <1>1, <2>2 DEF TypeOK, IInv, KeysAllowed, BeforeAllowed
  <2>. QED BY <2>1, <2>2 DEF Restart
<1>4. Fields' = {} BY <1>2 DEF Fields, None
<1>5. count' \in 0..CountMax
  <2>1. nvs'[ShortTime] \in Stored \cup {Missing}
    BY <1>3, SettingsAssumption
  <2>2. CASE nvs'[ShortTime] = Missing BY <1>2, <2>2, SettingsAssumption
  <2>3. CASE nvs'[ShortTime] \in 0..255 /\ nvs'[ShortTime] # Missing
    <3>1. nvs'[ShortTime] \div 20 \in 0..255 BY <2>3
    <3>. QED BY <1>2, <2>3, <3>1, SettingsAssumption DEF FrameTime
  <2>. QED BY <2>1, <2>2, <2>3 DEF Stored
<1>6. TypeOK'
  <2>1. overload' \in 0..MaxFrames /\ steady' \in 0..2
    BY <1>2, SettingsAssumption
  <2>2. short' \in BOOLEAN BY <1>2
  <2>. QED BY <1>2, <1>3, <1>4, <1>5, <2>1, <2>2 DEF TypeOK
<1>7. KeysAllowed' /\ BeforeAllowed'
  BY <1>2, <1>3 DEF KeysAllowed, BeforeAllowed, Allowed
<1>. QED BY <1>2, <1>4, <1>6, <1>7
     DEF IInv, Inv, StoredOnly, Looked, RefusedFields, PrefixStored, Idle

LEMMA StutterStep ==
    ASSUME IInv, UNCHANGED vars
    PROVE  IInv'
BY DEF vars, post, adc, IInv, Inv, TypeOK, KeysAllowed, BeforeAllowed, Allowed,
       StoredOnly, Looked, Fields, RefusedFields, PrefixStored

LEMMA Inductive == Spec => []IInv
<1>1. IInv /\ [Next]_vars => IInv'
  BY PostStep, FieldStep, DoneStep, AdcStep, RestartStep, StutterStep DEF Next
<1>. QED BY InitIInv, <1>1, PTL DEF Spec

-----------------------------------------------------------------------------
(* Results *)

\* Types, and a POST which was answered is committed (postRequest, ~Base).
THEOREM Invariance == Spec => []Inv
<1>1. IInv => Inv BY DEF IInv
<1>. QED BY Inductive, <1>1, PTL

\* Whatever is posted, in whatever order, and whatever a restart loses: the
\* getters of mem/nvs/settings.cpp return what is documented, but for the
\* three exceptions of InRange.
THEOREM ReadsInRange == Spec => []InRange
<1>1. IInv => InRange
  BY DEF IInv, Inv, TypeOK, KeysAllowed, Allowed, InRange, Read
<1>. QED BY Inductive, <1>1, PTL

\* At every moment of a POST, with any number of fields, a prefix of them is stored:
\* those looked at, without the one which was refused or could not be written
\* (settings/service.cpp:57-160).
THEOREM PostIsPrefix == Spec => []PrefixStored
<1>1. IInv => PrefixStored BY DEF IInv
<1>. QED BY Inductive, <1>1, PTL


\* With the time of one frame the count is loaded with 1, so that the next frame
\* overloaded fires; it stays 0 after that, or after the power was switched on.
Loaded ==
    nvs[ShortTime] = FrameTime /\ steady >= 1 =>
        /\ count = 1 \/ (count = 0 /\ (short \/ overload = 0))
        /\ Noticed

LEMMA LoadedInit == Init => Loaded
BY SettingsAssumption
   DEF Init, Loaded, Noticed, Reload, Read, FrameTime, Missing

LEMMA LoadedStep ==
    ASSUME IInv, Loaded, [Next]_vars
    PROVE  Loaded'
<1>1. TypeOK /\ ShortTime \in Keys BY SettingsAssumption DEF IInv, Inv
<1>2. CASE PostField
  <2>1. UNCHANGED <<count, short, overload>> BY <1>2 DEF PostField, adc
  <2>2. \/ UNCHANGED <<nvs, steady>>
        \/ \E k \in Keys : \E v : nvs' = [nvs EXCEPT ![k] = v]
              /\ steady' = IF k = ShortTime /\ v # nvs[k] THEN 0 ELSE steady
    <3>1. PICK k \in todo : Ignore(k) \/ Accept(k) \/ Refuse(k) \/ WriteFails(k)
      BY <1>2 DEF PostField
    <3>2. k \in Keys BY <1>1, FieldsOfBody DEF TypeOK
    <3>. QED BY <3>1, <3>2 DEF Ignore, Accept, Refuse, WriteFails, Reject, Store
  <2>3. (nvs'[ShortTime] = nvs[ShortTime] /\ steady' = steady) \/ steady' = 0
    BY <1>1, <2>2 DEF TypeOK
  <2>. QED BY <2>1, <2>3 DEF Loaded, Noticed
<1>3. ASSUME NEW over \in BOOLEAN, Frame(over) PROVE Loaded'
  <2>1. UNCHANGED nvs BY <1>3 DEF Frame
  <2>2. nvs[ShortTime] = 20 => Reload = 1
    BY DEF Reload, Read, FrameTime, Missing
  <2>3. count \in 0..CountMax /\ overload \in 0..MaxFrames /\ steady \in 0..2
    BY <1>1 DEF TypeOK
  <2>. QED BY <1>3, <2>1, <2>2, <2>3, SettingsAssumption
           DEF Frame, Fires, Decrement, Loaded, Noticed, FrameTime
<1>4. CASE PowerOn BY <1>4, <1>1 DEF PowerOn, post, Loaded, Noticed, TypeOK
<1>5. CASE Restart BY <1>5 DEF Restart, Loaded, Noticed
<1>6. CASE PostDone \/ PostReplied \/ (\E b \in Bodies : Post(b)) \/ UNCHANGED vars
  <2>1. UNCHANGED <<nvs, steady, count, short, overload>>
    BY <1>6 DEF PostDone, PostReplied, Post, vars, adc
  <2>. QED BY <2>1 DEF Loaded, Noticed
<1>. QED BY <1>2, <1>3, <1>4, <1>5, <1>6 DEF Next

\* A short circuit is found in its second frame at the latest once the time was
\* set to one frame, whatever POSTs, restarts and power-ons come in between
\* (adc_task_function.cpp:66-79).
THEOREM ShortCircuitNoticed == Spec => []Noticed
<1>1. IInv /\ Loaded => Noticed BY DEF Loaded, Noticed
<1>2. IInv /\ Loaded /\ [Next]_vars => Loaded' BY LoadedStep
<1>. QED BY Inductive, LoadedInit, <1>1, <1>2, PTL DEF Spec

=============================================================================
