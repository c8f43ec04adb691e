------------------------- MODULE CvProgramming_proofs -------------------------
(***************************************************************************)
(* What holds of CvProgramming for every number of copies, reset packets,  *)
(* timeouts, misread acknowledges and accesses, and every size of the      *)
(* buffers: the two tasks stay in step (Inv), a reply is the value of the  *)
(* CV (NeverWrong), and it is given when nothing goes wrong (Complete).    *)
(***************************************************************************)
EXTENDS CvProgramming, SequenceTheorems, TLAPS

-----------------------------------------------------------------------------
(* Numbers. A group is set.count packets, so that positions are products.   *)

LEMMA MinOfTwo ==
    ASSUME NEW a \in Int, NEW b \in Int
    PROVE  Min({a, b}) = IF a <= b THEN a ELSE b
<1> DEFINE m == IF a <= b THEN a ELSE b
<1>1. m \in {a, b} /\ \A y \in {a, b} : m <= y OBVIOUS
<1>2. \A x \in {a, b} : (\A y \in {a, b} : x <= y) => x = m OBVIOUS
<1>. QED BY <1>1, <1>2 DEF Min

LEMMA NextGroup ==
    ASSUME NEW a \in Nat, NEW n \in Nat
    PROVE  (a + 1) * n = a * n + n /\ a * n \in Nat
OBVIOUS

LEMMA GroupsApart ==
    ASSUME NEW a \in Nat, NEW b \in Nat, NEW n \in Nat, a < b
    PROVE  (a + 1) * n <= b * n
OBVIOUS

\* Number k of the packets belongs to one group only.
LEMMA GroupOf ==
    ASSUME NEW g \in Nat, NEW n \in Nat \ {0}, NEW k \in Nat,
           g * n < k, k <= (g + 1) * n
    PROVE  (k - 1) \div n = g
<1>1. g * n < k /\ k <= g * n + n BY NextGroup
<1>. QED BY <1>1

\* The bits of a value, as serviceReceiveByte puts them together again.
LEMMA WeightNat ==
    ASSUME NEW i \in 0..8
    PROVE  Weight(i) \in Nat /\ Weight(i) >= 1 /\ i < Weight(i)
BY DEF Weight, Weights

LEMMA WeightNext ==
    ASSUME NEW i \in 0..7
    PROVE  Weight(i + 1) = 2 * Weight(i)
BY DEF Weight, Weights

LEMMA NextBitOf ==
    ASSUME NEW i \in 0..7, NEW v \in Nat
    PROVE  v % Weight(i + 1) =
              (v % Weight(i)) + (IF (v \div Weight(i)) % 2 = 1 THEN Weight(i) ELSE 0)
BY DEF Weight, Weights

LEMMA AllBitsOf ==
    ASSUME NEW v \in Values
    PROVE  v % Weight(0) = 0 /\ v % Weight(Bits) = v
<1>1. Bits \in 1..8 BY CvProgrammingAssumption
<1>2. v \in 0..(Weight(Bits) - 1) /\ Weight(Bits) \in Nat
  BY <1>1, WeightNat DEF Values, MaxByte
<1>3. v % Weight(Bits) = v BY <1>2
<1>4. Weight(0) = 1 BY DEF Weight, Weights
<1>. QED BY <1>2, <1>3, <1>4

LEMMA WeightsGrow ==
    ASSUME NEW i \in 0..8, NEW j \in 0..8, i <= j
    PROVE  Weight(i) <= Weight(j)
BY DEF Weight, Weights

LEMMA ValuesNat ==
    /\ Bits \in 1..8 /\ MaxByte \in Nat /\ MaxByte >= 1 /\ MaxByte = Weight(Bits) - 1
    /\ Bits <= MaxByte + 1 /\ Values = 0..MaxByte
    /\ \A i \in 0..(Bits - 1) : i \in Values
<1>1. Bits \in 1..8 BY CvProgrammingAssumption
<1>2. Weight(Bits) \in Nat /\ Weight(Bits) >= 2 /\ Bits < Weight(Bits)
  BY <1>1, WeightNat DEF Weight, Weights
<1>. QED BY <1>1, <1>2 DEF Values, MaxByte

LEMMA LowestBit == 0 < Bits /\ 0 < MaxByte /\ 0 \in 0..(Weight(0) - 1)
<1>1. Weight(0) = 1 BY DEF Weight, Weights
<1>. QED BY <1>1, ValuesNat

-----------------------------------------------------------------------------
(* An access and its probe. *)

LEMMA Facts ==
    ASSUME TypeOK, dcc # "idle"
    PROVE  /\ set \in Settings /\ set.type \in 0..3 /\ set.type \in Types
           /\ set.count \in Nat /\ set.count >= 2
           /\ set.startup \in Nat /\ set.one \in BOOLEAN
           /\ req \in Requests /\ req.op \in {"read", "write"} /\ req.byte \in Values
           /\ req.op = "read" => req.byte = 0
           /\ Continue \in Nat /\ Window \in Nat /\ Timeout \in Nat /\ Repeats \in Nat
           /\ Repeats >= 2 /\ FrontCapacity \in Nat /\ FrontCapacity >= 1
           /\ None \notin Values /\ None \notin BOOLEAN
<1>1. set \in Settings /\ req \in Requests BY DEF TypeOK
<1>2. set.count \in Counts /\ set.startup \in Startups /\ set.type \in Types
  BY <1>1 DEF Settings
<1>7. set.one \in BOOLEAN BY <1>1 DEF Settings
<1>3. 0 \in Values BY ValuesNat
<1>4. req.op \in {"read", "write"} /\ req.byte \in Values /\ (req.op = "read" => req.byte = 0)
  BY <1>1, <1>3 DEF Requests
<1>5. Counts \subseteq Nat \ {0, 1} /\ Startups \subseteq Nat /\ Types \subseteq 0..3
  BY CvProgrammingAssumption
<1>8. /\ Continue \in Nat /\ Window \in Nat /\ Timeout \in Nat
      /\ Repeats \in Nat /\ Repeats >= 2
      /\ FrontCapacity \in Nat /\ FrontCapacity >= 1
      /\ None \notin Values /\ None \notin BOOLEAN
  BY CvProgrammingAssumption
<1>6. set.type \in 0..3 /\ set.count \in Nat /\ set.count >= 2 /\ set.startup \in Nat
  <2>1. set.type \in 0..3 BY <1>2, <1>5
  <2>2. set.count \in Nat \ {0, 1} BY <1>2, <1>5
  <2>3. set.startup \in Nat BY <1>2, <1>5
  <2>. QED BY <2>1, <2>2, <2>3
<1>. QED BY <1>1, <1>2, <1>4, <1>6, <1>7, <1>8, Zenon

LEMMA Numbers ==
    ASSUME TypeOK, dcc # "idle"
    PROVE  /\ set.count \in Nat /\ set.count >= 2 /\ set.startup \in Nat
           /\ Continue \in Nat /\ Window \in Nat /\ Timeout \in Nat
           /\ Repeats \in Nat /\ Repeats >= 2
           /\ waited \in 0..Timeout /\ group \in 0..Repeats
BY Facts, Zenon DEF TypeOK

LEMMA ProbeFacts ==
    ASSUME TypeOK
    PROVE  /\ Groups \in Nat /\ Groups >= 1 /\ Got \in Nat /\ Acked \in Nat
           /\ Acked = Got + Len(rx) /\ Len(rx) \in Nat
           /\ Len(front) \in Nat /\ Len(todo) \in Nat
           /\ DOMAIN front = 1..Len(front) /\ DOMAIN todo = 1..Len(todo)
           /\ DOMAIN rx = 1..Len(rx)
           /\ front = <<>> <=> Len(front) = 0
           /\ todo = <<>> <=> Len(todo) = 0
           /\ rx = <<>> <=> Len(rx) = 0
           /\ dcc # "idle" => /\ Groups * set.count \in Nat /\ Acked * set.count \in Nat
                              /\ (Acked + 1) * set.count = Acked * set.count + set.count
                              /\ Acked < Groups =>
                                    (Acked + 1) * set.count <= Groups * set.count
                              /\ Taken \in Int
                              /\ Taken = Groups * set.count - Len(todo) - Len(front)
<1>1. Groups \in Nat /\ Groups >= 1 /\ Got \in Nat
  BY ValuesNat DEF TypeOK, Groups, Got
<1>2. /\ Len(rx) \in Nat /\ Len(front) \in Nat /\ Len(todo) \in Nat
      /\ DOMAIN front = 1..Len(front) /\ DOMAIN todo = 1..Len(todo)
      /\ DOMAIN rx = 1..Len(rx)
      /\ front = <<>> <=> Len(front) = 0
      /\ todo = <<>> <=> Len(todo) = 0
      /\ rx = <<>> <=> Len(rx) = 0
  BY EmptySeq DEF TypeOK
<1>3. Acked \in Nat /\ Acked = Got + Len(rx) BY <1>1, <1>2 DEF Acked
<1>4. ASSUME dcc # "idle"
      PROVE  /\ Groups * set.count \in Nat /\ Acked * set.count \in Nat
             /\ (Acked + 1) * set.count = Acked * set.count + set.count
             /\ Acked < Groups => (Acked + 1) * set.count <= Groups * set.count
             /\ Taken \in Int /\ Taken = Groups * set.count - Len(todo) - Len(front)
  <2>1. set.count \in Nat BY <1>4, Facts
  <2>2. Groups * set.count \in Nat BY <2>1, <1>1, NextGroup
  <2>3. Acked * set.count \in Nat
        /\ (Acked + 1) * set.count = Acked * set.count + set.count
    BY <2>1, <1>3, NextGroup
  <2>4. Acked < Groups => (Acked + 1) * set.count <= Groups * set.count
    BY <2>1, <1>1, <1>3, GroupsApart
  <2>. HIDE <1>3
  <2>5. Taken \in Int /\ Taken = Groups * set.count - Len(todo) - Len(front)
    BY <2>2, <1>2 DEF Taken
  <2>. QED BY <2>2, <2>3, <2>4, <2>5
<1>. QED BY <1>1, <1>2, <1>3, <1>4

\* What out::track::dcc does leaves the probe alone.
LEMMA SameProbe ==
    ASSUME UNCHANGED dccVars
    PROVE  /\ UNCHANGED <<req, set, dcc, probe, todo, index, byte>>
           /\ Groups' = Groups /\ Got' = Got /\ Asking' = Asking /\ Eaten' = Eaten
           /\ \A g : Expected(g)' = Expected(g)
           /\ \A p, k : Numbered(p, k)' = Numbered(p, k)
           /\ \A p : OwnWrite(p)' = OwnWrite(p)
BY DEF dccVars, Groups, Got, Asking, Eaten, Expected, Numbered, OwnWrite

LEMMA SameAnswers ==
    ASSUME UNCHANGED dccVars, UNCHANGED <<cv, noise>>
    PROVE  \A a, g : Right(a, g)' = Right(a, g)
BY DEF dccVars, Right, Holds, Expected, Eaten

-----------------------------------------------------------------------------
(* out::track::dcc *)


LEMMA SameTypes ==
    ASSUME TypeOK, UNCHANGED dccVars, UNCHANGED <<cv, noise, mishaps, flag>>
    PROVE  /\ req' \in Requests \cup {None} /\ set' \in Settings \cup {None}
           /\ dcc' = "idle" <=> req' = None
           /\ set' = None <=> req' = None
           /\ dcc' \in {"idle", "push", "receive", "waitOut"}
           /\ probe' \in {"write", "bits", "check", "search"}
           /\ todo' \in Seq(Packets) /\ index' \in 0..MaxByte
           /\ byte' \in Values \cup {None} /\ flag' \in BOOLEAN
           /\ cv' \in Values /\ noise' \in 0..MaxNoise
           /\ mishaps' \subseteq {"leftovers", "late"}
BY DEF TypeOK, dccVars

\* Time passes for dcc::task while it waits.
LEMMA Elapsed ==
    ASSUME TypeOK, NEW n \in Nat, Elapse(n)
    PROVE  waited' \in 0..Timeout /\ (dcc = "receive" => waited' <= waited + n)
<1>1. Timeout \in Nat BY CvProgrammingAssumption
<1>2. waited \in 0..Timeout BY DEF TypeOK
<1>3. Min({waited + n, Timeout}) = IF waited + n <= Timeout THEN waited + n ELSE Timeout
  BY <1>1, <1>2, MinOfTwo
<1>. QED BY <1>1, <1>2, <1>3 DEF Elapse

\* out::track::dcc takes a step only when dcc::task waits for it.
LEMMA NotBusy ==
    ASSUME TypeOK, Probing, Asking, ~DccBusy
    PROVE  /\ dcc = "push" => front # <<>>
           /\ dcc = "receive" => rx = <<>> /\ todo = <<>> /\ waited < Timeout
<1>1. dcc # "idle" BY DEF Asking
<1>2. FrontCapacity \in Nat /\ FrontCapacity >= 1 /\ Timeout \in Nat BY <1>1, Facts
<1>3. Len(front) \in Nat /\ (front = <<>> <=> Len(front) = 0) BY ProbeFacts
<1>4. waited \in 0..Timeout BY DEF TypeOK
<1>. QED BY <1>2, <1>3, <1>4 DEF DccBusy, Room, Probing

LEMMA GotBound ==
    ASSUME TypeOK, Probing, Asking
    PROVE  Got < Groups
BY ValuesNat DEF Probing, Got, Groups, TypeOK

\* It finds nothing only when all of the probe was taken.
LEMMA AllTaken ==
    ASSUME TypeOK, Probing, Asking, ~DccBusy, front = <<>>
    PROVE  dcc = "receive" /\ Taken = Groups * set.count /\ Acked < Groups
<1>1. dcc # "idle" BY DEF Asking
<1>2. dcc = "receive" /\ rx = <<>> /\ todo = <<>> BY NotBusy DEF Asking
<1>. QED BY <1>1, <1>2, ProbeFacts, GotBound

LEMMA NeverDry ==
    ASSUME TypeOK, Probing, Enough, Asking, ~DccBusy, out = "first"
    PROVE  front # <<>>
<1> SUFFICES ASSUME front = <<>> PROVE FALSE
  OBVIOUS
<1>1. dcc # "idle" BY DEF Asking
<1>2. Taken = Groups * set.count /\ Acked < Groups BY AllTaken
<1>3. Taken <= Acked * set.count + 1 BY <1>2 DEF Enough
<1>4. set.count \in Nat /\ set.count >= 2 BY <1>1, Numbers
<1>5. /\ (Acked + 1) * set.count <= Groups * set.count
      /\ (Acked + 1) * set.count = Acked * set.count + set.count
      /\ Acked * set.count \in Nat /\ Groups * set.count \in Nat
  BY <1>1, <1>2, ProbeFacts
<1>. QED BY <1>2, <1>3, <1>4, <1>5

LEMMA StillInOrder ==
    ASSUME InOrder, UNCHANGED dccVars,
           Asking => \A i \in DOMAIN front' : Numbered(front'[i], Taken' + i),
           Asking /\ out' = "copies" => Numbered(cvPacket', Taken')
    PROVE  InOrder'
<1>1. /\ Asking' = Asking /\ todo' = todo /\ set' = set /\ Groups' = Groups
      /\ \A p, k : Numbered(p, k)' = Numbered(p, k)
  BY SameProbe
<1>2. Asking => /\ Len(todo) <= Groups * set.count
                /\ \A i \in DOMAIN todo : Numbered(todo[i], Groups * set.count - Len(todo) + i)
  BY DEF InOrder
<1>. QED BY <1>1, <1>2, Zenon DEF InOrder

\* And when the front buffer is not touched either.
LEMMA InOrderKept ==
    ASSUME InOrder, UNCHANGED dccVars, front' = front, Taken' = Taken,
           out' = "copies" => out = "copies" /\ cvPacket' = cvPacket
    PROVE  InOrder'
<1>1. Asking => \A i \in DOMAIN front' : Numbered(front'[i], Taken' + i)
  BY DEF InOrder
<1>2. Asking /\ out' = "copies" => Numbered(cvPacket', Taken')
  BY DEF InOrder
<1>. QED BY <1>1, <1>2, StillInOrder

LEMMA CutInv ==
    ASSUME Inv, Cut
    PROVE  Inv'
<1> USE DEF Inv, Cut, vars, outVars, buffers
<1>0. UNCHANGED dccVars OBVIOUS
<1>1. TypeOK' BY DEF TypeOK, dccVars
<1>2. Acked' = Acked /\ Taken' = Taken
  BY <1>0, SameProbe DEF Acked, Taken
<1>3. Probing' BY <1>0, SameProbe DEF Probing
<1>4. InOrder' BY <1>0, <1>2, InOrderKept
<1>5. Enough' BY <1>0, <1>2, SameProbe DEF Enough
<1>6. Aligned' BY <1>0, <1>2, SameProbe DEF Aligned, Start
<1>7. Punctual' BY <1>0, <1>2, SameProbe DEF Punctual, Slow
<1>8. NoForeignWrites' BY <1>0, SameProbe DEF NoForeignWrites
<1>9. Honest' BY <1>0, <1>2, SameProbe, SameAnswers DEF Honest
<1>10. Result' BY <1>0, SameProbe DEF Result, Misled, Undisturbed, Outcome, Refused
<1>. QED BY <1>1, <1>3, <1>4, <1>5, <1>6, <1>7, <1>8, <1>9, <1>10


LEMMA StartInv ==
    ASSUME Inv, OutStart
    PROVE  Inv'
<1> USE DEF Inv, OutStart, OutGoto
<1>0. UNCHANGED dccVars OBVIOUS
<1>1. dcc # "idle" BY DEF Probing
<1>2. waited' \in 0..Timeout /\ (dcc = "receive" => waited' <= waited + set.startup + Continue)
  <2>1. set.startup \in Nat /\ Continue \in Nat /\ waited \in 0..Timeout /\ Timeout \in Nat
    BY <1>1, Numbers
  <2>2. set.startup + Continue \in Nat BY <2>1
  <2>3. waited' \in 0..Timeout /\ (dcc = "receive" => waited' <= waited + (set.startup + Continue))
    BY <2>2, Elapsed
  <2>. QED BY <2>1, <2>3
<1>3. TypeOK' BY <1>0, <1>2, SameTypes DEF TypeOK, buffers
<1>4. Acked' = Acked /\ Taken' = Taken
  BY <1>0, SameProbe DEF Acked, Taken, buffers
<1>5. Probing' BY <1>0, SameProbe DEF Probing, buffers
<1>6. InOrder' BY <1>0, <1>4, InOrderKept DEF buffers
<1>7. Enough' BY <1>0, <1>4, SameProbe DEF Enough
<1>8. Aligned' BY <1>0, <1>4, SameProbe DEF Aligned, Start
<1>9. Punctual'
  <2>1. set.startup \in Nat /\ Continue \in Nat BY <1>1, Numbers
  <2>. QED BY <1>0, <1>2, <2>1, SameProbe DEF Punctual, Slow, buffers
<1>10. NoForeignWrites' BY <1>0, SameProbe DEF NoForeignWrites, buffers
<1>11. Honest' BY <1>0, <1>4, SameProbe, SameAnswers DEF Honest, buffers
<1>12. Result' BY <1>0, SameProbe DEF Result, Misled, Undisturbed, Outcome, Refused
<1>. QED BY <1>3, <1>5, <1>6, <1>7, <1>8, <1>9, <1>10, <1>11, <1>12

LEMMA EndInv ==
    ASSUME Inv, OutEnd
    PROVE  Inv'
<1> USE DEF Inv, OutEnd, OutGoto
<1>0. UNCHANGED dccVars OBVIOUS
<1>1. TypeOK' BY <1>0, SameTypes DEF TypeOK, buffers
<1>2. Acked' = Acked /\ Taken' = Taken
  BY <1>0, SameProbe DEF Acked, Taken, buffers
<1>3. Probing' BY <1>0, SameProbe DEF Probing, buffers
<1>4. InOrder' BY <1>0, <1>2, InOrderKept DEF buffers
<1>5. Asking => flag BY NeverDry
<1>6. Enough' BY <1>0, <1>2, <1>5, SameProbe DEF Enough
<1>7. Aligned' BY <1>0, <1>2, SameProbe DEF Aligned, Start
<1>8. Punctual' BY <1>0, SameProbe DEF Punctual, Slow, buffers
<1>9. NoForeignWrites' BY <1>0, SameProbe DEF NoForeignWrites, buffers
<1>10. Honest' BY <1>0, <1>2, SameProbe, SameAnswers DEF Honest, buffers
<1>11. Result' BY <1>0, SameProbe DEF Result, Misled, Undisturbed, Outcome, Refused
<1>. QED BY <1>1, <1>3, <1>4, <1>6, <1>7, <1>8, <1>9, <1>10, <1>11

LEMMA RetryInv ==
    ASSUME Inv, OutRetry
    PROVE  Inv'
<1> USE DEF Inv, OutRetry
<1>0. UNCHANGED dccVars OBVIOUS
<1>1. TypeOK'
  <2>1. Timeout \in Nat BY CvProgrammingAssumption
  <2>. QED BY <1>0, <2>1, SameTypes DEF TypeOK, buffers, outVars
<1>2. Acked' = Acked /\ Taken' = Taken
  BY <1>0, SameProbe DEF Acked, Taken, buffers
<1>3. Probing' BY <1>0, SameProbe DEF Probing, buffers, outVars
<1>4. InOrder' BY <1>0, <1>2, InOrderKept DEF buffers, outVars
<1>5. Enough' BY <1>0, <1>2, SameProbe DEF Enough, outVars
<1>6. Aligned' BY <1>0, <1>2, SameProbe DEF Aligned, Start, outVars
<1>7. Punctual' BY <1>0, SameProbe DEF Punctual, Slow, buffers, outVars
<1>8. NoForeignWrites' BY <1>0, SameProbe DEF NoForeignWrites, buffers, outVars
<1>9. Honest' BY <1>0, <1>2, SameProbe, SameAnswers DEF Honest, buffers, outVars
<1>10. Result' BY <1>0, SameProbe DEF Result, Misled, Undisturbed, Outcome, Refused
<1>. QED BY <1>1, <1>3, <1>4, <1>5, <1>6, <1>7, <1>8, <1>9, <1>10

\* The buffers are emptied: what dcc::task has yet to push keeps its numbers.
LEMMA SuspendInv ==
    ASSUME Inv, OutSuspend
    PROVE  Inv'
<1> USE DEF Inv, OutSuspend
<1>0. UNCHANGED dccVars OBVIOUS
<1>1. TypeOK'
  <2>1. FrontCapacity \in Nat /\ BackPackets \in Nat BY CvProgrammingAssumption
  <2>. QED BY <1>0, <2>1, SameTypes, EmptySeq DEF TypeOK
<1>2. Acked' = Got /\ Len(rx) \in Nat /\ Acked = Got + Len(rx)
  BY <1>0, SameProbe, ProbeFacts, EmptySeq DEF Acked
<1>3. DOMAIN front' = {} /\ DOMAIN rx' = {} BY EmptySeq
<1>4. Probing' BY <1>0, SameProbe DEF Probing
<1>5. InOrder'
  <2>1. \A i : i \notin DOMAIN front' BY <1>3
  <2>. QED BY <1>0, <2>1, StillInOrder
<1>6. Enough' BY <1>0, SameProbe DEF Enough
<1>7. Aligned'
  <2>1. Got \in Nat /\ Groups \in Nat BY ProbeFacts
  <2>2. Asking /\ mishaps = {} => Acked <= Groups BY DEF Aligned
  <2>3. Asking /\ mishaps = {} => Acked' <= Groups BY <1>2, <2>1, <2>2
  <2>. QED BY <1>0, <2>3, SameProbe DEF Aligned
<1>8. Punctual' BY <1>0, SameProbe DEF Punctual, Slow
<1>9. NoForeignWrites' BY <1>0, <1>3, SameProbe DEF NoForeignWrites
<1>10. Honest' BY <1>0, <1>3, SameProbe, SameAnswers DEF Honest
<1>11. Result' BY <1>0, SameProbe DEF Result, Misled, Undisturbed, Outcome, Refused
<1>. QED BY <1>1, <1>4, <1>5, <1>6, <1>7, <1>8, <1>9, <1>10, <1>11

\* A reset packet is taken only behind the last probe of an access.
LEMMA ResetInv ==
    ASSUME Inv, OutReset
    PROVE  Inv'
<1> USE DEF Inv, OutReset, OutGoto, TakeReset
<1>0. UNCHANGED dccVars OBVIOUS
<1>1. ~Asking /\ ~Asking' BY <1>0, NeverDry, SameProbe
<1>2. waited' \in 0..Timeout BY Elapsed
<1>3. TypeOK'
  <2>1. BackPackets \in Nat /\ back' \in 0..BackPackets
    BY CvProgrammingAssumption DEF TypeOK
  <2>. QED BY <1>0, <1>2, <2>1, SameTypes DEF TypeOK
<1>4. dcc' = dcc /\ dcc # "receive" BY <1>0, <1>1, SameProbe DEF Asking
<1>5. Probing' BY <1>0, <1>1, SameProbe DEF Probing
<1>6. InOrder' /\ Enough' /\ Aligned' /\ Honest' BY <1>1 DEF InOrder, Enough, Aligned, Honest
<1>7. Punctual' BY <1>0, <1>4, SameProbe DEF Punctual, Slow
<1>8. NoForeignWrites' BY <1>0, SameProbe DEF NoForeignWrites
<1>9. Result' BY <1>0, SameProbe DEF Result, Misled, Undisturbed, Outcome, Refused
<1>. QED BY <1>3, <1>5, <1>6, <1>7, <1>8, <1>9


\* The first packet of the buffer is taken: it has the next number.
LEMMA FrontTaken ==
    ASSUME TypeOK, InOrder, UNCHANGED dccVars, TakeFront
    PROVE  /\ front' \in Seq(Packets) /\ Len(front') = Len(front) - 1
           /\ Len(front') <= FrontCapacity /\ back' \in 0..BackPackets
           /\ 1 \in DOMAIN front /\ Head(front) = front[1] /\ Head(front) \in Packets
           /\ \A i \in DOMAIN front' : i + 1 \in DOMAIN front /\ front'[i] = front[i + 1]
           /\ Asking => /\ Taken' = Taken + 1
                        /\ Numbered(Head(front), Taken + 1)
                        /\ \A i \in DOMAIN front' : Numbered(front'[i], Taken' + i)
<1>1. front \in Seq(Packets) /\ front # <<>> /\ front' = Tail(front) BY DEF TypeOK, TakeFront
<1>2. /\ front' \in Seq(Packets) /\ Len(front') = Len(front) - 1 /\ Len(front) \in Nat
      /\ 1 \in DOMAIN front /\ Head(front) = front[1] /\ Head(front) \in Packets
      /\ DOMAIN front' = 1..(Len(front) - 1) /\ DOMAIN front = 1..Len(front)
      /\ \A i \in DOMAIN front' : i + 1 \in DOMAIN front /\ front'[i] = front[i + 1]
  BY <1>1
<1>3. Len(front') <= FrontCapacity /\ back' \in 0..BackPackets
  BY <1>2, CvProgrammingAssumption DEF TypeOK, TakeFront
<1>4. ASSUME Asking
      PROVE  /\ Taken' = Taken + 1
             /\ Numbered(Head(front), Taken + 1)
             /\ \A i \in DOMAIN front' : Numbered(front'[i], Taken' + i)
  <2>1. Taken \in Int /\ Groups * set.count \in Nat /\ Len(todo) \in Nat
        /\ Taken = Groups * set.count - Len(todo) - Len(front)
    BY <1>4, ProbeFacts DEF Asking
  <2>2. Taken' = Groups * set.count - Len(todo) - Len(front')
    BY SameProbe DEF Taken
  <2>3. Taken' = Taken + 1 BY <1>2, <2>1, <2>2, SMTT(30)
  <2>6. Taken \in Int BY <2>1
  <2>4. \A i \in DOMAIN front : Numbered(front[i], Taken + i) BY <1>4 DEF InOrder
  <2>5. ASSUME NEW i \in DOMAIN front' PROVE Numbered(front'[i], Taken' + i)
    <3>1. Numbered(front[i + 1], Taken + (i + 1)) BY <1>2, <2>4
    <3>2. i \in Nat BY <1>2
    <3>3. Taken + (i + 1) = Taken' + i BY <2>3, <2>6, <3>2
    <3>. QED BY <1>2, <3>1, <3>3
  <2>. QED BY <1>2, <2>3, <2>4, <2>5
<1>. QED BY <1>2, <1>3, <1>4

LEMMA FirstInv ==
    ASSUME Inv, OutFirst
    PROVE  Inv'
<1> USE DEF Inv, OutFirst, OutGoto
<1>0. UNCHANGED dccVars OBVIOUS
<1>1. dcc # "idle" BY DEF Probing
<1>2. waited' \in 0..Timeout /\ (dcc = "receive" => waited' <= waited + 1) BY Elapsed
<1>3. TypeOK'
  <2>1. group' \in 0..Repeats BY CvProgrammingAssumption
  <2>. QED BY <1>0, <1>2, <2>1, FrontTaken, SameTypes DEF TypeOK
<1>4. Acked' = Acked BY <1>0, SameProbe DEF Acked
<1>5. Probing' BY <1>0, SameProbe DEF Probing
<1>6. InOrder'
  <2>1. Asking => Taken' = Taken + 1 /\ Numbered(cvPacket', Taken') BY <1>0, FrontTaken
  <2>2. Asking => \A i \in DOMAIN front' : Numbered(front'[i], Taken' + i)
    BY <1>0, FrontTaken
  <2>. QED BY <1>0, <2>1, <2>2, StillInOrder
<1>7. ASSUME Asking
      PROVE  /\ Taken' = Taken + 1 /\ Taken \in Int /\ Taken < Groups * set.count
             /\ Acked \in Nat /\ Groups \in Nat /\ Groups * set.count \in Nat
             /\ Acked * set.count \in Nat /\ set.count \in Nat /\ set.count >= 2
             /\ (Acked + 1) * set.count = Acked * set.count + set.count
             /\ Acked < Groups => Taken <= Acked * set.count + 1
  <2>1. Taken' = Taken + 1 BY <1>0, <1>7, FrontTaken
  <2>2. Taken < Groups * set.count
    BY <1>1, ProbeFacts, SMTT(30) DEF TakeFront
  <2>. QED BY <1>1, <1>7, <2>1, <2>2, ProbeFacts, Numbers DEF Enough
<1>8. Enough'
  <2>1. ASSUME Asking, Acked < Groups PROVE Taken' <= (Acked + 1) * set.count
    BY <2>1, <1>7
  <2>. QED BY <1>0, <1>4, <2>1, SameProbe DEF Enough
<1>9. ASSUME Asking, mishaps = {}
      PROVE  /\ Acked < Groups /\ Taken >= Acked * set.count
             /\ Taken' > Acked * set.count /\ group' >= Taken' - Start
  <2>1. Acked <= Groups /\ Taken >= Acked * set.count /\ (Acked = 0 => Taken = 0)
    BY <1>9 DEF Aligned
  <2>2. Acked < Groups BY <2>1, <1>9, <1>7
  <2>3. Taken <= Acked * set.count + 1 BY <2>2, <1>9, <1>7
  <2>4. group' >= Taken' - Start BY <2>1, <2>3, <1>9, <1>7 DEF Start
  <2>. QED BY <2>1, <2>2, <2>4, <1>9, <1>7
<1>10. Aligned'
  <2>1. Start' = Start BY <1>0, <1>4, SameProbe DEF Start
  <2>. QED BY <1>0, <1>4, <1>9, <2>1, SameProbe DEF Aligned
<1>11. Punctual'
  <2>1. ASSUME dcc = "receive", rx = <<>>, mishaps = {}
        PROVE  waited' <= set.startup + Continue + Taken' - Acked * set.count
    <3>1. waited <= set.startup + Continue BY <2>1 DEF Punctual
    <3>2. Asking BY <2>1 DEF Asking
    <3>3. waited' \in Int /\ waited \in Int /\ set.startup \in Nat /\ Continue \in Nat
      BY <1>1, <1>2, Numbers
    <3>4. Taken' \in Int /\ Acked * set.count \in Nat /\ Taken' > Acked * set.count
      BY <1>7, <1>9, <2>1, <3>2
    <3>. QED BY <1>2, <2>1, <3>1, <3>3, <3>4
  <2>. QED BY <1>0, <1>4, <2>1, SameProbe DEF Punctual, Slow
<1>12. NoForeignWrites' BY <1>0, FrontTaken, SameProbe DEF NoForeignWrites
<1>13. Honest' BY <1>0, <1>4, SameProbe, SameAnswers DEF Honest
<1>14. Result' BY <1>0, SameProbe DEF Result, Misled, Undisturbed, Outcome, Refused
<1>. QED BY <1>3, <1>5, <1>6, <1>8, <1>10, <1>11, <1>12, <1>13, <1>14


-----------------------------------------------------------------------------
(* Where a group ends. *)

LEMMA InProbe ==
    ASSUME TypeOK, Asking
    PROVE  /\ Taken \in Int /\ Acked \in Nat /\ Groups \in Nat
           /\ set.count \in Nat /\ set.count >= 2
           /\ Groups * set.count \in Nat /\ Acked * set.count \in Nat
           /\ (Acked + 1) * set.count = Acked * set.count + set.count
           /\ Acked < Groups => (Acked + 1) * set.count <= Groups * set.count
           /\ Taken <= Groups * set.count
           /\ front # <<>> => Taken < Groups * set.count
<1>1. dcc # "idle" BY DEF Asking
<1>2. /\ Taken \in Int /\ Acked \in Nat /\ Groups \in Nat
      /\ Groups * set.count \in Nat /\ Acked * set.count \in Nat
      /\ (Acked + 1) * set.count = Acked * set.count + set.count
      /\ Acked < Groups => (Acked + 1) * set.count <= Groups * set.count
  BY <1>1, ProbeFacts
<1>3. Taken <= Groups * set.count /\ (front # <<>> => Taken < Groups * set.count)
  BY <1>1, ProbeFacts, SMTT(30)
<1>4. set.count \in Nat /\ set.count >= 2 BY <1>1, Numbers
<1>. QED BY <1>2, <1>3, <1>4

LEMMA NumberedIs ==
    ASSUME TypeOK, Asking, NEW p, NEW k, Numbered(p, k), Acked < Groups,
           Acked * set.count < k, k <= (Acked + 1) * set.count
    PROVE  p = Expected(Acked)
<1>1. Acked \in 0..(Groups - 1) BY InProbe
<1>. QED BY <1>1 DEF Numbered

\* The packet behind a group is another one.
LEMMA NextDiffers ==
    ASSUME TypeOK, InOrder, Asking, TakeFront, UNCHANGED dccVars,
           out = "copies", Acked < Groups, Taken = (Acked + 1) * set.count
    PROVE  Head(front) # cvPacket
<1>1. cvPacket = Expected(Acked)
  <2>1. Numbered(cvPacket, Taken) BY DEF InOrder
  <2>2. Acked * set.count < Taken /\ Taken <= (Acked + 1) * set.count BY InProbe, SMTT(30)
  <2>. QED BY <2>1, <2>2, NumberedIs
<1>2. Acked + 1 \in 0..(Groups - 1)
  <2>1. Taken < Groups * set.count BY InProbe DEF TakeFront
  <2>2. Acked + 1 # Groups BY <2>1, InProbe
  <2>. QED BY <2>2, InProbe, SMTT(30)
<1>3. Head(front) = Expected(Acked + 1)
  <2>1. Numbered(Head(front), Taken + 1) BY FrontTaken
  <2>2. set.count \in Nat /\ set.count >= 2 /\ Acked + 1 \in Nat /\ Taken \in Int BY InProbe, SMTT(30)
  <2>3. ((Acked + 1) + 1) * set.count = (Acked + 1) * set.count + set.count
    BY <2>2, NextGroup
  <2>4. (Acked + 1) * set.count < Taken + 1 BY <2>2
  <2>5. Taken + 1 <= ((Acked + 1) + 1) * set.count BY <2>2, <2>3
  <2>. QED BY <1>2, <2>1, <2>4, <2>5 DEF Numbered
<1>4. Expected(Acked + 1) # Expected(Acked)
  <2>1. probe = "bits" BY <1>2, InProbe DEF Groups
  <2>2. Expected(Acked + 1).arg = Acked + 1 /\ Expected(Acked).arg = Acked
    BY <2>1 DEF Expected, BitPacket
  <2>. QED BY <2>2, InProbe
<1>. QED BY <1>1, <1>3, <1>4

\* Within the group at work it is the same.
LEMMA NextIsEqual ==
    ASSUME TypeOK, InOrder, Asking, TakeFront, UNCHANGED dccVars,
           out = "copies", Acked < Groups, Acked * set.count < Taken,
           Taken < (Acked + 1) * set.count
    PROVE  Head(front) = cvPacket
<1>1. Numbered(cvPacket, Taken) /\ Numbered(Head(front), Taken + 1)
  BY FrontTaken DEF InOrder
<1>2. /\ Acked * set.count < Taken /\ Taken <= (Acked + 1) * set.count
      /\ Acked * set.count < Taken + 1 /\ Taken + 1 <= (Acked + 1) * set.count
  BY InProbe, SMTT(30)
<1>. QED BY <1>1, <1>2, NumberedIs

LEMMA CopyInv ==
    ASSUME Inv, OutCopy
    PROVE  Inv'
<1> USE DEF Inv, OutCopy, OutGoto
<1>0. UNCHANGED dccVars OBVIOUS
<1>1. dcc # "idle" BY DEF Probing
<1>2. waited' \in 0..Timeout /\ (dcc = "receive" => waited' <= waited + 1) BY Elapsed
<1>3. /\ group \in 0..Repeats /\ Repeats \in Nat
      /\ group' = IF group + 1 <= Repeats THEN group + 1 ELSE Repeats
  <2>1. group \in 0..Repeats /\ Repeats \in Nat BY <1>1, Numbers
  <2>. QED BY <2>1, MinOfTwo
<1>4. TypeOK'
  <2>1. group' \in 0..Repeats BY <1>3
  <2>. QED BY <1>0, <1>2, <2>1, FrontTaken, SameTypes DEF TypeOK
<1>5. Acked' = Acked BY <1>0, SameProbe DEF Acked
<1>6. Probing' BY <1>0, SameProbe DEF Probing
<1>7. InOrder'
  <2>1. Asking => Taken' = Taken + 1 /\ Numbered(cvPacket', Taken') BY <1>0, FrontTaken
  <2>2. Asking => \A i \in DOMAIN front' : Numbered(front'[i], Taken' + i)
    BY <1>0, FrontTaken
  <2>. QED BY <1>0, <2>1, <2>2, StillInOrder
<1>8. ASSUME Asking, Acked < Groups
      PROVE  Taken' = Taken + 1 /\ Taken' <= (Acked + 1) * set.count
  <2>1. Taken' = Taken + 1 BY <1>0, <1>8, FrontTaken
  <2>2. Taken <= (Acked + 1) * set.count BY <1>8 DEF Enough
  <2>3. Taken # (Acked + 1) * set.count BY <1>0, <1>8, NextDiffers
  <2>4. Taken \in Int /\ (Acked + 1) * set.count \in Int BY <1>8, InProbe
  <2>. QED BY <2>1, <2>2, <2>3, <2>4
<1>9. Enough' BY <1>0, <1>5, <1>8, SameProbe DEF Enough
<1>10. ASSUME Asking, mishaps = {}
       PROVE  /\ Acked < Groups /\ Taken' = Taken + 1 /\ Taken > Acked * set.count
              /\ Taken' > Acked * set.count
              /\ group' >= Repeats \/ group' >= Taken' - Start
  <2>1. Acked < Groups /\ Taken > Acked * set.count
        /\ (group >= Repeats \/ group >= Taken - Start)
    BY <1>10 DEF Aligned
  <2>2. Taken \in Int /\ Acked * set.count \in Nat /\ Start \in Nat
    BY <1>10, InProbe, SMTT(30) DEF Start
  <2>. QED BY <1>3, <1>8, <1>10, <2>1, <2>2
<1>11. Aligned'
  <2>1. Start' = Start BY <1>0, <1>5, SameProbe DEF Start
  <2>. QED BY <1>0, <1>5, <1>10, <2>1, SameProbe DEF Aligned
<1>12. Punctual'
  <2>1. ASSUME dcc = "receive", rx = <<>>, mishaps = {}
        PROVE  waited' <= set.startup + Continue + Taken' - Acked * set.count
    <3>1. waited <= set.startup + Continue + Taken - Acked * set.count
      BY <2>1 DEF Punctual
    <3>2. Asking BY <2>1 DEF Asking
    <3>3. waited' \in Int /\ waited \in Int /\ set.startup \in Nat /\ Continue \in Nat
      BY <1>1, <1>2, Numbers
    <3>4. Taken \in Int /\ Acked * set.count \in Nat /\ Taken' = Taken + 1
      BY <1>10, <2>1, <3>2, InProbe
    <3>. QED BY <1>2, <2>1, <3>1, <3>3, <3>4, SMTT(30)
  <2>. QED BY <1>0, <1>5, <2>1, SameProbe DEF Punctual, Slow
<1>13. NoForeignWrites' BY <1>0, FrontTaken, SameProbe DEF NoForeignWrites
<1>14. Honest' BY <1>0, <1>5, SameProbe, SameAnswers DEF Honest
<1>15. Result' BY <1>0, SameProbe DEF Result, Misled, Undisturbed, Outcome, Refused
<1>. QED BY <1>4, <1>6, <1>7, <1>9, <1>11, <1>12, <1>13, <1>14, <1>15


LEMMA OtherInv ==
    ASSUME Inv, OutOther
    PROVE  Inv'
<1> USE DEF Inv, OutOther, OutGoto
<1>0. UNCHANGED dccVars OBVIOUS
<1>1. dcc # "idle" BY DEF Probing
<1>2. waited' \in 0..Timeout /\ (dcc = "receive" => waited' <= waited + 1) BY Elapsed
<1>3. \/ TakeFront /\ Head(front) # cvPacket
      \/ front = <<>> /\ front' = front
  BY DEF TakeReset
<1>4. TypeOK'
  <2>1. front' \in Seq(Packets) /\ Len(front') <= FrontCapacity
    BY <1>0, <1>3, FrontTaken DEF TypeOK
  <2>2. back' \in 0..BackPackets
    BY CvProgrammingAssumption, SMTT(30) DEF TypeOK, TakeFront, TakeReset
  <2>. QED BY <1>0, <1>2, <2>1, <2>2, SameTypes DEF TypeOK
<1>5. Acked' = Acked BY <1>0, SameProbe DEF Acked
<1>6. Probing' BY <1>0, SameProbe DEF Probing
<1>7. InOrder'
  <2>1. CASE TakeFront
    <3>1. Asking => \A i \in DOMAIN front' : Numbered(front'[i], Taken' + i)
      BY <1>0, <2>1, FrontTaken
    <3>. QED BY <1>0, <3>1, StillInOrder
  <2>2. CASE front = <<>> /\ front' = front
    <3>1. \A i : i \notin DOMAIN front' BY <2>2, EmptySeq
    <3>. QED BY <1>0, <3>1, StillInOrder
  <2>. QED BY <1>3, <2>1, <2>2
<1>8. ASSUME Asking, Acked < Groups
      PROVE  Taken' \in Int /\ Taken' <= (Acked + 1) * set.count + 1 /\ Taken <= Taken'
  <2>1. /\ Taken <= (Acked + 1) * set.count
        /\ Taken \in Int /\ (Acked + 1) * set.count \in Int
    BY <1>8, InProbe DEF Enough
  <2>2. Taken' = Taken + 1 \/ Taken' = Taken
    <3>1. CASE TakeFront BY <1>0, <1>8, <3>1, FrontTaken
    <3>2. CASE front' = front BY <1>0, <3>2, SameProbe DEF Taken
    <3>. QED BY <1>3, <3>1, <3>2
  <2>. QED BY <2>1, <2>2
<1>9. Enough' BY <1>0, <1>5, <1>8, SameProbe DEF Enough
<1>10. ASSUME Asking, mishaps = {}
       PROVE  /\ Acked < Groups /\ cvPacket = Expected(Acked)
              /\ Taken = (Acked + 1) * set.count /\ Taken' >= (Acked + 1) * set.count
              /\ group >= Repeats \/ group >= (Acked + 1) * set.count - Start
  <2>1. Acked < Groups /\ Taken > Acked * set.count
        /\ (group >= Repeats \/ group >= Taken - Start)
    BY <1>10 DEF Aligned
  <2>2. Taken <= (Acked + 1) * set.count BY <1>10, <2>1 DEF Enough
  <2>3. Taken \in Int /\ (Acked + 1) * set.count \in Int BY <1>10, InProbe
  <2>4. Taken = (Acked + 1) * set.count
    <3>1. CASE TakeFront /\ Head(front) # cvPacket
      <4>1. ~(Taken < (Acked + 1) * set.count)
        BY <1>0, <1>10, <2>1, <3>1, NextIsEqual
      <4>. QED BY <2>2, <2>3, <4>1
    <3>2. CASE front = <<>>
      <4>1. Taken = Groups * set.count BY <1>10, <3>2, AllTaken
      <4>2. (Acked + 1) * set.count <= Groups * set.count BY <1>10, <2>1, InProbe
      <4>. QED BY <2>2, <2>3, <4>1, <4>2
    <3>. QED BY <1>3, <3>1, <3>2
  <2>5. Numbered(cvPacket, Taken) BY <1>10 DEF InOrder
  <2>6. cvPacket = Expected(Acked) BY <1>10, <2>1, <2>2, <2>5, NumberedIs
  <2>. QED BY <1>8, <1>10, <2>1, <2>3, <2>4, <2>6
<1>11. Aligned'
  <2>1. Start' = Start BY <1>0, <1>5, SameProbe DEF Start
  <2>. QED BY <1>0, <1>5, <1>10, <2>1, SameProbe DEF Aligned
<1>12. Punctual'
  <2>1. ASSUME dcc = "receive", rx = <<>>, mishaps = {}
        PROVE  waited' <= set.startup + Continue + set.count + 1
    <3>1. waited <= set.startup + Continue + Taken - Acked * set.count
      BY <2>1 DEF Punctual
    <3>2. Asking BY <2>1 DEF Asking
    <3>3. waited' \in Int /\ waited \in Int /\ set.startup \in Nat /\ Continue \in Nat
      BY <1>1, <1>2, Numbers
    <3>4. Taken = Acked * set.count + set.count BY <1>10, <2>1, <3>2, InProbe
    <3>5. Acked * set.count \in Nat /\ set.count \in Nat BY <3>2, InProbe
    <3>6. Taken - Acked * set.count = set.count BY <3>4, <3>5
    <3>7. Taken \in Int BY <3>4, <3>5
    <3>. QED BY <1>2, <2>1, <3>1, <3>3, <3>5, <3>6, <3>7, SMTT(30)
  <2>. QED BY <1>0, <1>5, <2>1, SameProbe DEF Punctual, Slow
<1>13. NoForeignWrites'
  <2>1. \A i \in DOMAIN front' : \E j \in DOMAIN front : front'[i] = front[j]
    <3>1. CASE TakeFront BY <1>0, <3>1, FrontTaken
    <3>2. CASE front' = front BY <3>2
    <3>. QED BY <1>3, <3>1, <3>2
  <2>. QED BY <1>0, <2>1, SameProbe DEF NoForeignWrites
<1>14. Honest' BY <1>0, <1>5, SameProbe, SameAnswers DEF Honest
<1>15. Result' BY <1>0, SameProbe DEF Result, Misled, Undisturbed, Outcome, Refused
<1>. QED BY <1>4, <1>6, <1>7, <1>9, <1>11, <1>12, <1>13, <1>14, <1>15

\* transmit_ack: the acknowledge is behind those which wait.
LEMMA AckInv ==
    ASSUME Inv, OutAck
    PROVE  Inv'
<1> USE DEF Inv, OutAck, OutGoto
<1>0. UNCHANGED dccVars OBVIOUS
<1>1. dcc # "idle" BY DEF Probing
<1>2. waited' \in 0..Timeout
  <2>1. Continue \in Nat BY <1>1, Numbers
  <2>. QED BY <2>1, Elapsed
<1>3. /\ rx' \in Seq(BOOLEAN) /\ Len(rx') = Len(rx) + 1 /\ rx' # <<>>
      /\ Len(rx) \in Nat /\ DOMAIN rx' = 1..(Len(rx) + 1) /\ DOMAIN rx = 1..Len(rx)
      /\ rx'[Len(rx) + 1] = ack
      /\ \A i \in DOMAIN rx : rx'[i] = rx[i]
  <2>1. rx \in Seq(BOOLEAN) /\ ack \in BOOLEAN BY DEF TypeOK
  <2>. QED BY <2>1
<1>4. TypeOK'
  <2>1. VerifyPacket(0) \in Packets BY ValuesNat DEF VerifyPacket, Packets
  <2>2. group' \in 0..Repeats BY CvProgrammingAssumption
  <2>. QED BY <1>0, <1>2, <1>3, <2>1, <2>2, SameTypes DEF TypeOK
<1>5. Acked' = Acked + 1 /\ Acked = Got + Len(rx) /\ Got \in Nat /\ Taken' = Taken
  BY <1>0, <1>3, SameProbe, ProbeFacts DEF Acked, Taken
<1>6. Probing' BY <1>0, <1>3, SameProbe DEF Probing
<1>7. InOrder'
  <2>1. Asking => \A i \in DOMAIN front' : Numbered(front'[i], Taken' + i)
    BY <1>5 DEF InOrder
  <2>. QED BY <1>0, <2>1, StillInOrder
<1>8. Enough'
  <2>1. ASSUME Asking, Acked + 1 < Groups PROVE Taken <= (Acked + 1) * set.count + 1
    <3>1. Acked < Groups BY <2>1, InProbe
    <3>. QED BY <2>1, <3>1 DEF Enough
  <2>. QED BY <1>0, <1>5, <2>1, SameProbe DEF Enough
<1>9. Aligned'
  <2>1. ASSUME Asking, mishaps = {}
        PROVE  Acked + 1 <= Groups /\ Acked + 1 # 0 /\ Taken >= (Acked + 1) * set.count
    <3>1. Acked < Groups /\ Taken >= (Acked + 1) * set.count BY <2>1 DEF Aligned
    <3>. QED BY <2>1, <3>1, InProbe
  <2>. QED BY <1>0, <1>5, <2>1, SameProbe DEF Aligned
<1>10. Punctual' BY <1>0, <1>3, SameProbe DEF Punctual, Slow
<1>11. NoForeignWrites' BY <1>0, SameProbe DEF NoForeignWrites
<1>12. Honest'
  <2>1. ASSUME Asking, mishaps = {}, NEW i \in DOMAIN rx'
        PROVE  Right(rx'[i], Got + i - 1)
    <3>1. CASE i \in DOMAIN rx BY <1>3, <2>1, <3>1 DEF Honest
    <3>2. CASE i = Len(rx) + 1
      <4>1. Got + i - 1 = Acked BY <1>3, <1>5, <3>2
      <4>. QED BY <1>3, <2>1, <3>2, <4>1 DEF Honest
    <3>. QED BY <1>3, <3>1, <3>2
  <2>2. out' # "ack" /\ mishaps' = mishaps /\ noise' = noise /\ cv' = cv OBVIOUS
  <2>3. ASSUME Asking, mishaps = {}, noise = 0, ~Eaten
        PROVE  /\ probe = "bits" => byte = cv % Weight(index)
               /\ probe = "check" => byte = cv
               /\ probe = "search" => cv >= index
    BY <2>3 DEF Honest
  <2>4. ASSUME Asking, mishaps = {}, NEW i \in DOMAIN rx'
        PROVE  Right(rx[i], Got + i - 1)'
    BY <1>0, <2>1, <2>2, <2>4, SameProbe, SameAnswers
  <2>5. Asking' = Asking /\ Eaten' = Eaten /\ UNCHANGED <<probe, byte, index>>
    BY <1>0, SameProbe
  <2>6. ASSUME Asking', mishaps' = {}, noise' = 0, ~Eaten'
        PROVE  /\ probe' = "bits" => byte' = cv' % Weight(index)'
               /\ probe' = "check" => byte' = cv'
               /\ probe' = "search" => cv' >= index'
    BY <2>2, <2>3, <2>5, <2>6, SMTT(30)
  <2>7. ASSUME Asking', mishaps' = {}, NEW i \in DOMAIN rx'
        PROVE  Right(rx[i], Got + i - 1)'
    BY <2>2, <2>4, <2>5, <2>7, SMTT(30)
  <2>. QED BY <2>2, <2>6, <2>7, ZenonT(30) DEF Honest
<1>13. Result' BY <1>0, SameProbe DEF Result, Misled, Undisturbed, Outcome, Refused
<1>. QED BY <1>4, <1>6, <1>7, <1>8, <1>9, <1>10, <1>11, <1>12, <1>13


-----------------------------------------------------------------------------
(* The window: what the decoder says. *)

LEMMA WindowCases ==
    ASSUME TypeOK, OutWindow
    PROVE  /\ \/ noise' = noise /\ ack' = (Acts /\ Confirms)
              \/ noise' = noise + 1 /\ noise < MaxNoise
           /\ cv' = cv \/ (Acts /\ cvPacket.kind = "write" /\ cv' = cvPacket.arg)
           /\ Acts /\ cvPacket.kind = "write" => cv' = cvPacket.arg
           /\ noise \in Nat /\ ack' \in BOOLEAN
<1>1. noise \in Nat BY CvProgrammingAssumption DEF TypeOK
<1>. QED BY <1>1 DEF OutWindow, Acts

\* Unless packets are eaten, the group at work is long enough for the decoder.
LEMMA GroupActs ==
    ASSUME TypeOK, Probing, Aligned, Asking, mishaps = {}, out = "window", ~Eaten
    PROVE  Acts
<1>1. dcc # "idle" BY DEF Asking
<1>2. Acked < Groups /\ (group >= Repeats \/ group >= (Acked + 1) * set.count - Start)
  BY DEF Aligned
<1>3. group \in 0..Repeats /\ Repeats \in Nat BY <1>1, Numbers
<1>4. /\ Acked \in Nat /\ set.count \in Nat /\ Acked * set.count \in Nat
      /\ (Acked + 1) * set.count = Acked * set.count + set.count
  BY InProbe
<1>5. CASE Acked = 0
  <2>1. set.count >= Repeats BY <1>3, <1>4 DEF Eaten
  <2>2. (Acked + 1) * set.count - Start = set.count BY <1>4, <1>5 DEF Start
  <2>. QED BY <1>2, <1>3, <1>4, <2>1, <2>2 DEF Acts
<1>6. CASE Acked # 0
  <2>1. probe = "bits" BY <1>2, <1>4, <1>6 DEF Groups
  <2>2. set.count >= Repeats + 1
    <3>1. req.op = "read"
      <4>1. req.op \in {"read", "write"} BY <1>1, Facts
      <4>. QED BY <2>1, <4>1 DEF Probing
    <3>2. set.type \in {1, 3} BY <2>1 DEF Probing
    <3>3. ~(set.count < Repeats) /\ set.count # Repeats
      BY <3>1, <3>2, Zenon DEF Eaten
    <3>. QED BY <1>3, <1>4, <3>3
  <2>3. (Acked + 1) * set.count - Start = set.count - 1 BY <1>4, <1>6 DEF Start
  <2>. QED BY <1>2, <1>3, <1>4, <2>2, <2>3 DEF Acts
<1>. QED BY <1>5, <1>6

\* Probes other than that of the bits have one group.
LEMMA OneGroup ==
    ASSUME TypeOK, Probing, Asking, probe # "bits", Acked < Groups
    PROVE  Acked = 0 /\ DOMAIN rx = {} /\ Got = 0
<1>1. Groups = 1 /\ Got = 0 BY DEF Groups, Got
<1>2. Acked = Got + Len(rx) /\ Len(rx) \in Nat /\ DOMAIN rx = 1..Len(rx) BY ProbeFacts
<1>. QED BY <1>1, <1>2

LEMMA WindowHonest ==
    ASSUME Inv, OutWindow, Asking, mishaps = {}
    PROVE  /\ \A i \in DOMAIN rx : Right(rx[i], Got + i - 1)'
           /\ Right(ack, Acked)'
           /\ noise' = 0 /\ ~Eaten =>
                /\ probe = "bits" => byte = cv' % Weight(index)
                /\ probe = "check" => byte = cv'
                /\ probe = "search" => cv' >= index
<1> USE DEF Inv
<1>0. UNCHANGED dccVars /\ rx' = rx /\ out = "window" /\ mishaps' = mishaps
  BY DEF OutWindow, OutGoto, buffers
<1>1. cvPacket = Expected(Acked) /\ Acked < Groups BY <1>0 DEF Aligned
<1>2. ~Eaten => Acts BY <1>0, GroupActs
<1>3. Expected(Acked)' = Expected(Acked) /\ Eaten' = Eaten /\ probe' = probe
      /\ Acked' = Acked /\ Got' = Got /\ byte' = byte /\ index' = index
  BY <1>0, SameProbe DEF Acked
<1>4. probe # "write" => cv' = cv
  <2>1. ASSUME probe # "write" PROVE cvPacket.kind # "write"
    BY <1>1, <2>1 DEF Expected, BitPacket, VerifyPacket, TypeOK
  <2>. QED BY <2>1, WindowCases
<1>5. probe = "write" /\ Acts => cv' = cvPacket.arg
  <2>1. ASSUME probe = "write" PROVE cvPacket.kind = "write"
    BY <1>1, <2>1 DEF Expected, WritePacket
  <2>. QED BY <2>1, WindowCases
<1>6. Acts /\ Confirms => Holds(cvPacket)'
  <2>. SUFFICES ASSUME Acts, Confirms
                PROVE  (IF cvPacket.kind = "bit"
                        THEN ((cv' \div Weight(cvPacket.arg)) % 2 = 1) = cvPacket.one
                        ELSE cv' = cvPacket.arg)
    BY DEF Holds, OutWindow, OutGoto
  <2>1. CASE probe = "write"
    <3>1. cvPacket.kind = "write" BY <1>1, <2>1 DEF Expected, WritePacket
    <3>. QED BY <1>5, <2>1, <3>1
  <2>2. CASE probe # "write"
    <3>1. cvPacket.kind \in {"bit", "verify"}
      BY <1>1, <2>2 DEF Expected, BitPacket, VerifyPacket, TypeOK
    <3>. QED BY <1>4, <2>2, <3>1 DEF Confirms
  <2>. QED BY <2>1, <2>2
<1>7. Acts /\ Holds(cvPacket)' => Confirms
  <2>. SUFFICES ASSUME Acts, Holds(cvPacket)' PROVE Confirms
    OBVIOUS
  <2>1. CASE probe = "write"
    <3>1. cvPacket.kind = "write" BY <1>1, <2>1 DEF Expected, WritePacket
    <3>. QED BY <3>1 DEF Confirms
  <2>2. CASE probe # "write"
    <3>1. cvPacket.kind \in {"bit", "verify"}
      BY <1>1, <2>2 DEF Expected, BitPacket, VerifyPacket, TypeOK
    <3>2. cv' = cv /\ cvPacket' = cvPacket BY <1>4, <2>2 DEF OutWindow, OutGoto
    <3>. QED BY <3>1, <3>2 DEF Confirms, Holds
  <2>. QED BY <2>1, <2>2
<1>8. noise' = 0 => noise = 0 /\ ack' = (Acts /\ Confirms)
  BY WindowCases
<1>9. noise = 0 /\ ~Eaten =>
        /\ probe = "bits" => byte = cv % Weight(index)
        /\ probe = "check" => byte = cv
        /\ probe = "search" => cv >= index
  BY DEF Honest
<1>10. Right(ack, Acked)'
  <2>1. (Expected(Acked) = cvPacket)' BY <1>1, <1>3 DEF OutWindow
  <2>2. noise' = 0 /\ ~Eaten' => (probe' = "write" \/ Holds(cvPacket)' => ack')
    <3>1. probe = "write" => Confirms
      BY <1>1 DEF Confirms, Expected, WritePacket
    <3>. QED BY <1>2, <1>3, <1>7, <1>8, <3>1
  <2>3. ASSUME noise' = 0 \/ (noise' = 1 /\ probe' = "check" /\ ~Eaten'), ack'
        PROVE  Holds(cvPacket)'
    <3>1. CASE ack' = (Acts /\ Confirms) BY <1>6, <2>3, <3>1
    <3>2. CASE noise' = noise + 1
      <4>1. noise = 0 /\ probe = "check" /\ ~Eaten
        BY <1>3, <2>3, <3>2, WindowCases
      <4>2. cv' = cv /\ byte = cv BY <1>4, <1>9, <4>1
      <4>3. cvPacket' = VerifyPacket(byte) BY <1>1, <4>1 DEF Expected, OutWindow
      <4>. QED BY <4>2, <4>3 DEF Holds, VerifyPacket
    <3>. QED BY <3>1, <3>2, WindowCases
  <2>. QED BY <2>1, <2>2, <2>3 DEF Right
<1>11. ASSUME NEW i \in DOMAIN rx PROVE Right(rx[i], Got + i - 1)'
  <2>1. probe = "bits" BY <1>1, <1>11, OneGroup
  <2>2. Right(rx[i], Got + i - 1) BY DEF Honest
  <2>3. cv' = cv BY <1>4, <2>1
  <2>4. Expected(Got + i - 1)' = Expected(Got + i - 1) BY <1>0, <1>3, SameProbe
  <2>. QED BY <1>0, <1>3, <1>8, <2>1, <2>2, <2>3, <2>4 DEF Right, Holds
<1>12. noise' = 0 /\ ~Eaten =>
         /\ probe = "bits" => byte = cv' % Weight(index)
         /\ probe = "check" => byte = cv'
         /\ probe = "search" => cv' >= index
  BY <1>4, <1>8, <1>9
<1>. QED BY <1>10, <1>11, <1>12

\* A write changes the CV to what is replied.
LEMMA WindowResult ==
    ASSUME Inv, OutWindow
    PROVE  Result'
<1> USE DEF Inv
<1>0. UNCHANGED dccVars /\ out = "window" /\ mishaps' = mishaps /\ flag' = flag
  BY DEF OutWindow, OutGoto
<1>1. dcc # "idle" /\ dcc' = dcc /\ req' = req /\ set' = set /\ byte' = byte /\ Eaten' = Eaten
  BY <1>0, SameProbe DEF Probing
<1>2. noise \in Nat /\ noise' \in Nat /\ noise' >= noise BY WindowCases
<1>3. Misled => Misled' BY <1>0, <1>1, <1>2 DEF Misled
<1>4. Undisturbed' => Undisturbed BY <1>0, <1>1, <1>2 DEF Undisturbed
<1>5. "leftovers" \in mishaps => Misled' /\ ~Undisturbed'
  BY <1>0, <1>1 DEF Misled, Undisturbed
<1>6. SUFFICES ASSUME dcc = "waitOut", "leftovers" \notin mishaps
               PROVE  Result'
  BY <1>1, <1>5 DEF Result
<1>7. /\ byte # None => byte = cv \/ Misled
      /\ byte # None /\ req.op = "write" => byte = req.byte
      /\ Undisturbed => byte = Outcome
  BY <1>6 DEF Result
<1>8. cv' = cv \/ (req.op = "write" /\ cv' = req.byte)
  <2>1. OwnWrite(cvPacket) BY <1>0, <1>1, <1>6 DEF NoForeignWrites
  <2>. QED BY <2>1, WindowCases DEF OwnWrite
<1>9. CASE cv' = cv
  <2>1. Outcome' = Outcome BY <1>1, <1>9 DEF Outcome, Refused
  <2>. QED BY <1>1, <1>3, <1>4, <1>7, <1>9, <2>1 DEF Result
<1>10. CASE req.op = "write" /\ cv' = req.byte
  <2>1. Outcome' = cv' /\ Outcome = cv BY <1>1, <1>10 DEF Outcome, Refused
  <2>2. cv # None BY <1>1, Facts DEF TypeOK
  <2>3. byte # None => byte = cv' BY <1>7, <1>10
  <2>4. Undisturbed => byte = cv' BY <1>7, <1>10, <2>1, <2>2
  <2>. QED BY <1>1, <1>4, <1>7, <2>1, <2>3, <2>4 DEF Result
<1>. QED BY <1>8, <1>9, <1>10

LEMMA WindowInv ==
    ASSUME Inv, OutWindow
    PROVE  Inv'
<1> USE DEF Inv, OutWindow, OutGoto
<1>0. UNCHANGED dccVars /\ UNCHANGED buffers OBVIOUS
<1>1. dcc # "idle" BY DEF Probing
<1>2. waited' \in 0..Timeout
      /\ (dcc = "receive" => waited' <= waited + (IF ack' THEN 0 ELSE Window))
  <2>1. (IF ack' THEN 0 ELSE Window) \in Nat BY <1>1, Numbers
  <2>. QED BY <2>1, Elapsed
<1>3. TypeOK'
  <2>1. ack' \in BOOLEAN BY WindowCases
  <2>2. noise' \in 0..MaxNoise BY CvProgrammingAssumption DEF TypeOK
  <2>3. cv' \in Values BY DEF TypeOK, Packets
  <2>4. group' = group /\ cvPacket' = cvPacket /\ flag' = flag /\ mishaps' = mishaps
    OBVIOUS
  <2>5. /\ req' = req /\ set' = set /\ dcc' = dcc /\ probe' = probe /\ todo' = todo
        /\ index' = index /\ byte' = byte /\ front' = front /\ back' = back /\ rx' = rx
    BY <1>0 DEF dccVars, buffers
  <2>. QED BY <1>2, <2>1, <2>2, <2>3, <2>4, <2>5 DEF TypeOK
<1>4. Acked' = Acked /\ Taken' = Taken
  BY <1>0, SameProbe DEF Acked, Taken, buffers
<1>5. Probing' BY <1>0, SameProbe DEF Probing, buffers
<1>6. InOrder'
  <2>1. Asking => \A i \in DOMAIN front' : Numbered(front'[i], Taken' + i)
    BY <1>0, <1>4 DEF InOrder, buffers
  <2>. QED BY <1>0, <2>1, StillInOrder
<1>7. Enough' BY <1>0, <1>4, SameProbe DEF Enough
<1>8. Aligned' BY <1>0, <1>4, SameProbe DEF Aligned
<1>9. Punctual'
  <2>1. ASSUME dcc = "receive", rx = <<>>, mishaps = {}
        PROVE  waited' <= set.startup + Continue + set.count + 1 + Window
    <3>1. waited <= set.startup + Continue + set.count + 1 BY <2>1 DEF Punctual
    <3>2. /\ waited' \in Int /\ waited \in Int /\ set.startup \in Nat /\ Continue \in Nat
          /\ set.count \in Nat /\ Window \in Nat
      BY <1>1, <1>2, Numbers
    <3>. QED BY <1>2, <2>1, <3>1, <3>2
  <2>. QED BY <1>0, <2>1, SameProbe DEF Punctual, Slow, buffers
<1>10. NoForeignWrites' BY <1>0, SameProbe DEF NoForeignWrites, buffers
<1>11. Honest'
  <2>1. Asking' = Asking /\ Got' = Got /\ Eaten' = Eaten /\ probe' = probe /\ byte' = byte
        /\ index' = index /\ rx' = rx /\ mishaps' = mishaps
    BY <1>0, SameProbe DEF buffers
  <2>2. ASSUME Asking, mishaps = {}
        PROVE  /\ \A i \in DOMAIN rx' : Right(rx[i], Got + i - 1)'
               /\ Right(ack, Acked)'
               /\ noise' = 0 /\ ~Eaten' =>
                    /\ probe' = "bits" => byte' = cv' % Weight(index')
                    /\ probe' = "check" => byte' = cv'
                    /\ probe' = "search" => cv' >= index'
    BY <2>1, <2>2, WindowHonest
  <2>. QED BY <2>1, <2>2 DEF Honest
<1>12. Result' BY WindowResult
<1>. QED BY <1>3, <1>5, <1>6, <1>7, <1>8, <1>9, <1>10, <1>11, <1>12

-----------------------------------------------------------------------------
(* dcc::task *)

\* sendToFront: some of the packets go from one end to the other.
LEMMA Moved ==
    ASSUME NEW S, NEW s \in Seq(S), NEW t \in Seq(S), NEW k \in 0..Len(s)
    PROVE  /\ SubSeq(s, k + 1, Len(s)) \in Seq(S)
           /\ t \o SubSeq(s, 1, k) \in Seq(S)
           /\ Len(SubSeq(s, k + 1, Len(s))) = Len(s) - k
           /\ Len(t \o SubSeq(s, 1, k)) = Len(t) + k
           /\ \A i \in 1..(Len(s) - k) : SubSeq(s, k + 1, Len(s))[i] = s[k + i]
           /\ \A i \in 1..(Len(t) + k) :
                (t \o SubSeq(s, 1, k))[i] = IF i <= Len(t) THEN t[i] ELSE s[i - Len(t)]
<1> DEFINE a == SubSeq(s, 1, k)
           b == SubSeq(s, k + 1, Len(s))
<1>0. k \in Nat /\ Len(s) \in Nat /\ k <= Len(s) /\ Len(t) \in Nat
  OBVIOUS
<1>1. (\A i \in 1..k : s[i] \in S) /\ (\A i \in (k + 1)..Len(s) : s[i] \in S)
  OBVIOUS
<1>2. a \in Seq(S) /\ Len(a) = k /\ \A i \in 1..k : a[i] = s[i]
  <2>1. /\ a \in Seq(S)
        /\ Len(a) = IF 1 <= k THEN k - 1 + 1 ELSE 0
        /\ \A i \in 1..(k - 1 + 1) : a[i] = s[1 + i - 1]
    BY <1>0, <1>1, SubSeqProperties
  <2>2. \A i \in 1..k : i \in 1..(k - 1 + 1) /\ 1 + i - 1 = i BY <1>0
  <2>3. (IF 1 <= k THEN k - 1 + 1 ELSE 0) = k BY <1>0
  <2>. QED BY <2>1, <2>2, <2>3
<1>3. b \in Seq(S) /\ Len(b) = Len(s) - k /\ \A i \in 1..(Len(s) - k) : b[i] = s[k + i]
  <2>1. /\ b \in Seq(S)
        /\ Len(b) = IF k + 1 <= Len(s) THEN Len(s) - (k + 1) + 1 ELSE 0
        /\ \A i \in 1..(Len(s) - (k + 1) + 1) : b[i] = s[(k + 1) + i - 1]
    BY <1>0, <1>1, SubSeqProperties
  <2>2. \A i \in 1..(Len(s) - k) : i \in 1..(Len(s) - (k + 1) + 1) /\ (k + 1) + i - 1 = k + i
    BY <1>0
  <2>3. (IF k + 1 <= Len(s) THEN Len(s) - (k + 1) + 1 ELSE 0) = Len(s) - k BY <1>0
  <2>. QED BY <2>1, <2>2, <2>3
<1>. HIDE DEF a, b
<1>4. /\ t \o a \in Seq(S) /\ Len(t \o a) = Len(t) + k
      /\ \A i \in 1..(Len(t) + k) : (t \o a)[i] = IF i <= Len(t) THEN t[i] ELSE a[i - Len(t)]
  BY <1>2, ConcatProperties
<1>5. \A i \in 1..(Len(t) + k) : ~(i <= Len(t)) => a[i - Len(t)] = s[i - Len(t)]
  <2>1. \A i \in 1..(Len(t) + k) : ~(i <= Len(t)) => i - Len(t) \in 1..k BY <1>0
  <2>. QED BY <1>2, <2>1
<1>6. \A i \in 1..(Len(t) + k) : (t \o a)[i] = IF i <= Len(t) THEN t[i] ELSE s[i - Len(t)]
  BY <1>4, <1>5
<1>. QED BY <1>3, <1>4, <1>6 DEF a, b

LEMMA Pushed ==
    ASSUME TypeOK, InOrder, DccPush
    PROVE  /\ todo' \in Seq(Packets) /\ front' \in Seq(Packets)
           /\ Len(front') <= FrontCapacity /\ Len(todo') <= Len(todo)
           /\ Taken' = Taken
           /\ \A i \in DOMAIN todo' : /\ \E j \in DOMAIN todo : todo'[i] = todo[j]
                                      /\ Numbered(todo'[i], Groups * set.count - Len(todo') + i)
           /\ \A i \in DOMAIN front' : /\ \/ \E j \in DOMAIN todo : front'[i] = todo[j]
                                          \/ \E j \in DOMAIN front : front'[i] = front[j]
                                       /\ Numbered(front'[i], Taken + i)
<1> DEFINE k == Min({Room, Len(todo)})
           total == Groups * set.count
<1>1. Asking /\ dcc # "idle" BY DEF DccPush, Asking
<1>2. /\ todo \in Seq(Packets) /\ front \in Seq(Packets)
      /\ todo' = SubSeq(todo, k + 1, Len(todo)) /\ front' = front \o SubSeq(todo, 1, k)
  BY DEF DccPush, TypeOK
<1>3. /\ Len(todo) \in Nat /\ Len(front) \in Nat /\ FrontCapacity \in Nat
      /\ Len(front) <= FrontCapacity
      /\ DOMAIN todo = 1..Len(todo) /\ DOMAIN front = 1..Len(front)
  BY CvProgrammingAssumption, ProbeFacts DEF TypeOK
<1>4. k \in 0..Len(todo) /\ Len(front) + k <= FrontCapacity
  BY <1>3, MinOfTwo DEF Room
<1>5. total \in Nat /\ Taken = total - Len(todo) - Len(front) BY <1>1, ProbeFacts
<1>6. Groups' = Groups /\ set' = set BY DEF DccPush, Groups
<1>. HIDE DEF k, total
<1>7. /\ todo' \in Seq(Packets) /\ front' \in Seq(Packets)
      /\ Len(todo') = Len(todo) - k /\ Len(front') = Len(front) + k
      /\ \A i \in 1..(Len(todo) - k) : todo'[i] = todo[k + i]
      /\ \A i \in 1..(Len(front) + k) :
            front'[i] = IF i <= Len(front) THEN front[i] ELSE todo[i - Len(front)]
  BY <1>2, <1>4, Moved
<1>8. DOMAIN todo' = 1..(Len(todo) - k) /\ DOMAIN front' = 1..(Len(front) + k)
  BY <1>7
<1>9. Taken' = Taken
  <2>1. Taken' = total - Len(todo') - Len(front') BY <1>6 DEF Taken, total
  <2>2. k \in Int BY <1>4
  <2>. QED BY <1>3, <1>5, <1>7, <2>1, <2>2
<1>10. /\ \A i \in DOMAIN todo : Numbered(todo[i], total - Len(todo) + i)
       /\ \A i \in DOMAIN front : Numbered(front[i], Taken + i)
  BY <1>1 DEF InOrder, total
<1>11. ASSUME NEW i \in DOMAIN todo'
       PROVE  /\ \E j \in DOMAIN todo : todo'[i] = todo[j]
              /\ Numbered(todo'[i], total - Len(todo') + i)
  <2>1. i \in 1..(Len(todo) - k) BY <1>8
  <2>2. k + i \in DOMAIN todo /\ total - Len(todo) + (k + i) = total - Len(todo') + i
    BY <1>3, <1>4, <1>5, <1>7, <2>1, SMTT(30)
  <2>3. todo'[i] = todo[k + i] BY <1>7, <2>1
  <2>. QED BY <1>10, <2>2, <2>3
<1>12. ASSUME NEW i \in DOMAIN front'
       PROVE  /\ \/ \E j \in DOMAIN todo : front'[i] = todo[j]
                 \/ \E j \in DOMAIN front : front'[i] = front[j]
              /\ Numbered(front'[i], Taken + i)
  <2>1. i \in 1..(Len(front) + k) BY <1>8
  <2>2. CASE i <= Len(front)
    <3>1. i \in DOMAIN front BY <1>3, <2>1, <2>2
    <3>2. front'[i] = front[i] BY <1>7, <2>1, <2>2
    <3>. QED BY <1>10, <3>1, <3>2
  <2>3. CASE ~(i <= Len(front))
    <3>1. /\ i - Len(front) \in DOMAIN todo
          /\ total - Len(todo) + (i - Len(front)) = Taken + i
      BY <1>3, <1>4, <1>5, <2>1, <2>3
    <3>2. front'[i] = todo[i - Len(front)] BY <1>7, <2>1, <2>3
    <3>. QED BY <1>10, <3>1, <3>2
  <2>. QED BY <2>2, <2>3
<1>13. Len(front') <= FrontCapacity /\ Len(todo') <= Len(todo) BY <1>3, <1>4, <1>7
<1>. QED BY <1>7, <1>9, <1>11, <1>12, <1>13 DEF total

LEMMA PushInv ==
    ASSUME Inv, DccPush
    PROVE  Inv'
<1> USE DEF Inv
<1>1. Asking /\ Asking' /\ dcc # "idle" /\ dcc' # "idle"
  BY DEF DccPush, Asking
<1>2. /\ UNCHANGED <<req, set, probe, index, byte, out, group, cvPacket, ack, back, rx,
                     flag, cv, noise, mishaps>>
      /\ dcc' \in {"push", "receive"} /\ (dcc' # "push" => todo' = <<>>)
      /\ dcc' = "receive" => waited' = 0
      /\ waited' \in {0, waited}
  BY DEF DccPush, outVars
<1>3. /\ Groups' = Groups /\ Got' = Got /\ Acked' = Acked /\ Eaten' = Eaten /\ Start' = Start
      /\ \A g : Expected(g)' = Expected(g)
      /\ \A p, n : Numbered(p, n)' = Numbered(p, n)
      /\ \A p : OwnWrite(p)' = OwnWrite(p)
      /\ \A a, g : Right(a, g)' = Right(a, g)
  BY <1>2 DEF Groups, Got, Acked, Eaten, Start, Expected, Numbered, OwnWrite, Right, Holds
<1>4. Taken' = Taken BY Pushed
<1>5. TypeOK'
  <2>1. waited' \in 0..Timeout BY <1>2, CvProgrammingAssumption DEF TypeOK
  <2>2. todo' \in Seq(Packets) /\ front' \in Seq(Packets) /\ Len(front') <= FrontCapacity
    BY Pushed
  <2>. QED BY <1>1, <1>2, <2>1, <2>2 DEF TypeOK
<1>6. Probing' BY <1>1, <1>2, <1>3 DEF Probing
<1>7. InOrder'
  <2>1. Len(todo') <= Groups * set.count
    <3>1. Len(todo) <= Groups * set.count BY <1>1 DEF InOrder
    <3>2. Len(todo') <= Len(todo) /\ Len(todo') \in Nat BY Pushed
    <3>3. Len(todo) \in Nat /\ Groups * set.count \in Nat BY <1>1, ProbeFacts
    <3>. QED BY <3>1, <3>2, <3>3
  <2>2. \A i \in DOMAIN todo' : Numbered(todo'[i], Groups * set.count - Len(todo') + i)
    BY Pushed
  <2>3. \A i \in DOMAIN front' : Numbered(front'[i], Taken + i) BY Pushed
  <2>4. out = "copies" => Numbered(cvPacket, Taken) BY <1>1 DEF InOrder
  <2>. QED BY <1>2, <1>3, <1>4, <2>1, <2>2, <2>3, <2>4 DEF InOrder
<1>8. Enough' BY <1>1, <1>2, <1>3, <1>4 DEF Enough
<1>9. Aligned' BY <1>1, <1>2, <1>3, <1>4 DEF Aligned
<1>10. Punctual'
  <2>1. ASSUME dcc' = "receive", mishaps = {}
        PROVE  /\ 0 <= set.startup + Continue
               /\ out = "copies" => 0 <= set.startup + Continue + Taken - Acked * set.count
               /\ 0 <= set.startup + Continue + set.count + 1
               /\ 0 <= set.startup + Continue + set.count + 1 + Window
    <3>1. set.startup \in Nat /\ Continue \in Nat /\ set.count \in Nat /\ Window \in Nat
      BY <1>1, Numbers
    <3>2. out = "copies" => Taken > Acked * set.count BY <1>1, <2>1 DEF Aligned
    <3>3. Taken \in Int /\ Acked * set.count \in Nat BY <1>1, InProbe
    <3>. QED BY <3>1, <3>2, <3>3
  <2>. QED BY <1>2, <1>3, <1>4, <2>1 DEF Punctual, Slow
<1>11. NoForeignWrites' BY <1>1, <1>2, <1>3, Pushed DEF NoForeignWrites
<1>12. Honest' BY <1>1, <1>2, <1>3 DEF Honest
<1>13. Result' BY <1>2 DEF Result
<1>. QED BY <1>5, <1>6, <1>7, <1>8, <1>9, <1>10, <1>11, <1>12, <1>13

\* A probe begins behind everything in the front buffer.
LEMMA Fresh ==
    ASSUME NEW n \in Nat, n >= 1, set'.count = n, Groups' \in Nat,
           todo' \in Seq(Packets), Len(todo') = Groups' * n, front' \in Seq(Packets),
           \A i \in DOMAIN todo' : Numbered(todo[i], i)'
    PROVE  Taken' = 0 - Len(front') /\ Taken' \in Int /\ Taken' <= 0 /\ InOrder'
<1>1. /\ Len(front') \in Nat /\ DOMAIN front' = 1..Len(front')
      /\ Len(todo') \in Nat /\ DOMAIN todo' = 1..Len(todo')
  BY LenProperties
<1>2. Groups' * set'.count = Len(todo') OBVIOUS
<1>3. Taken' = 0 - Len(front')
  <2>1. Taken' = Len(todo') - Len(todo') - Len(front') BY <1>2 DEF Taken
  <2>. QED BY <1>1, <2>1
<1>4. Taken' \in Int /\ Taken' <= 0 BY <1>1, <1>3
<1>5. ASSUME NEW k \in Int, k <= 0, NEW g \in 0..(Groups' - 1)
      PROVE  ~(g * set'.count < k)
  <2>1. g * n \in Nat BY NextGroup
  <2>. QED BY <1>5, <2>1
<1>6. ASSUME NEW i \in DOMAIN todo'
      PROVE  Numbered(todo[i], Groups * set.count - Len(todo) + i)'
  <2>1. Groups' * set'.count - Len(todo') + i = i BY <1>1, <1>2
  <2>2. Numbered(todo[i], i)' OBVIOUS
  <2>. QED BY <2>1, <2>2 DEF Numbered
<1>7. ASSUME NEW i \in DOMAIN front' PROVE Numbered(front[i], Taken + i)'
  <2>1. Taken' + i \in Int /\ Taken' + i <= 0 BY <1>1, <1>3
  <2>. QED BY <1>5, <2>1 DEF Numbered
<1>8. Numbered(cvPacket, Taken)' BY <1>4, <1>5 DEF Numbered
<1>9. Len(todo') <= Groups' * set'.count
  <2>1. \A k \in Nat : k <= k OBVIOUS
  <2>2. Len(todo') <= Len(todo') BY <1>1, <2>1, Zenon
  <2>. QED BY <1>2, <2>2, Zenon
<1>. QED BY <1>3, <1>4, <1>6, <1>7, <1>8, <1>9 DEF InOrder

LEMMA FreshCopies ==
    ASSUME NEW n \in Nat, n >= 1, set'.count = n, Groups' = 1, front' \in Seq(Packets),
           NEW p \in Packets, todo' = Copies(p, n), Expected(0)' = p
    PROVE  /\ todo' \in Seq(Packets) /\ \A i \in DOMAIN todo' : todo'[i] = p
           /\ Taken' = 0 - Len(front') /\ Taken' \in Int /\ Taken' <= 0 /\ InOrder'
<1>1. todo' \in Seq(Packets) /\ Len(todo') = n /\ DOMAIN todo' = 1..n
      /\ \A i \in 1..n : todo'[i] = p
  BY DEF Copies
<1>2. Len(todo') = Groups' * n BY <1>1
<1>3. ASSUME NEW i \in DOMAIN todo' PROVE Numbered(todo[i], i)'
  <2>1. \A g \in 0..(Groups' - 1) : g = 0 OBVIOUS
  <2>2. todo'[i] = p BY <1>1
  <2>. QED BY <2>1, <2>2 DEF Numbered
<1>. QED BY <1>1, <1>2, <1>3, Fresh

LEMMA FreshBits ==
    ASSUME NEW s \in Settings, s.count \in Nat, s.count >= 1, set' = s, probe' = "bits",
           front' \in Seq(Packets), todo' = AllBits(s)
    PROVE  /\ todo' \in Seq(Packets) /\ \A i \in DOMAIN todo' : todo'[i].kind = "bit"
           /\ Taken' = 0 - Len(front') /\ Taken' \in Int /\ Taken' <= 0 /\ InOrder'
<1>1. Groups' = Bits /\ Bits \in Nat /\ Bits >= 1 BY ValuesNat DEF Groups
<1>2. Bits * s.count \in Nat BY <1>1, NextGroup
<1>3. s.one \in BOOLEAN BY DEF Settings
<1>4. ASSUME NEW i \in 1..(Bits * s.count)
      PROVE  (i - 1) \div s.count \in 0..(Bits - 1)
  <2>1. i - 1 \in Nat /\ i - 1 < Bits * s.count BY <1>2
  <2>2. (i - 1) \div s.count \in Nat BY <2>1
  <2>3. ((i - 1) \div s.count) * s.count <= i - 1 BY <2>1
  <2>4. ~(Bits <= (i - 1) \div s.count)
    <3>1. ASSUME NEW q \in Nat, Bits <= q PROVE Bits * s.count <= q * s.count
      BY <1>1, <3>1
    <3>2. \A q \in Nat : q * s.count \in Nat BY NextGroup
    <3>. HIDE <2>2, <2>3
    <3>3. ASSUME NEW q \in Nat, q * s.count <= i - 1 PROVE ~(Bits <= q)
      BY <1>2, <2>1, <3>1, <3>2, <3>3, SMTT(30)
    <3>. QED BY <2>2, <2>3, <3>3
  <2>. QED BY <1>1, <2>2, <2>4
<1>5. ASSUME NEW i \in 1..(Bits * s.count)
      PROVE  BitPacket((i - 1) \div s.count, s.one) \in Packets
  <2>1. (i - 1) \div s.count \in Values BY <1>4, ValuesNat
  <2>. QED BY <1>3, <2>1 DEF BitPacket, Packets
<1>6. todo' \in Seq(Packets) /\ Len(todo') = Bits * s.count
      /\ DOMAIN todo' = 1..(Bits * s.count)
      /\ \A i \in 1..(Bits * s.count) : todo'[i] = BitPacket((i - 1) \div s.count, s.one)
  <2> DEFINE P(i) == BitPacket((i - 1) \div s.count, s.one)
             m == Bits * s.count
  <2>1. todo' = [i \in 1..m |-> P(i)] BY DEF AllBits
  <2>2. m \in Nat /\ \A i \in 1..m : P(i) \in Packets BY <1>2, <1>5
  <2>. HIDE DEF P, m
  <2>3. todo' \in Seq(Packets) /\ Len(todo') = m /\ DOMAIN todo' = 1..m
        /\ \A i \in 1..m : todo'[i] = P(i)
    BY <2>1, <2>2
  <2>. QED BY <2>3 DEF P, m
<1>7. ASSUME NEW i \in DOMAIN todo' PROVE Numbered(todo[i], i)'
  <2>1. ASSUME NEW g \in 0..(Bits - 1), g * s.count < i, i <= (g + 1) * s.count
        PROVE  todo'[i] = BitPacket(g, s.one)
    <3>1. i \in Nat /\ g \in Nat /\ s.count \in Nat \ {0} BY <1>1, <1>2, <1>6
    <3>2. (i - 1) \div s.count = g BY <2>1, <3>1, GroupOf
    <3>. QED BY <1>6, <3>2
  <2>. QED BY <1>1, <2>1 DEF Numbered, Expected
<1>8. \A i \in DOMAIN todo' : todo'[i].kind = "bit"
  <2>1. ASSUME NEW k, NEW one PROVE BitPacket(k, one).kind = "bit" BY DEF BitPacket
  <2>2. ASSUME NEW i \in DOMAIN todo' PROVE todo'[i].kind = "bit"
    <3>1. i \in 1..(Bits * s.count) BY <1>6, Zenon
    <3>2. todo'[i] = BitPacket((i - 1) \div s.count, s.one) BY <1>6, <3>1, Zenon
    <3>. QED BY <2>1, <3>2, Zenon
  <2>. QED BY <2>2
<1>9. Len(todo') = Groups' * s.count BY <1>1, <1>6
<1>. QED BY <1>1, <1>6, <1>7, <1>8, <1>9, Fresh

\* serviceReceiveBit is back, with an acknowledge or without.
Answered == DccReceive \/ DccTimeout

\* It waits in vain only if it has to.
LEMMA LateExcused ==
    ASSUME Inv, DccTimeout
    PROVE  flag \/ "leftovers" \in mishaps \/ Slow(set)
<1> USE DEF Inv
<1> SUFFICES ASSUME ~flag, "leftovers" \notin mishaps PROVE Slow(set)
  OBVIOUS
<1>1. dcc = "receive" /\ dcc # "idle" /\ rx = <<>> /\ Due /\ Asking
  BY DEF DccTimeout, Asking
<1>2. CASE "late" \in mishaps BY <1>2 DEF Punctual
<1>3. CASE "late" \notin mishaps
  <2>1. mishaps = {} BY <1>3 DEF TypeOK
  <2>2. out \notin {"off", "suspend"} BY <1>1 DEF Enough
  <2>3. waited = Timeout
    <3>1. waited >= Timeout BY <1>1, <2>2 DEF Due
    <3>2. waited \in 0..Timeout /\ Timeout \in Nat BY <1>1, Numbers
    <3>. QED BY <3>1, <3>2
  <2>4. Taken - Acked * set.count <= set.count \/ out # "copies"
    <3>1. Acked < Groups
      <4>1. Acked = Got /\ Got \in Nat BY <1>1, ProbeFacts
      <4>. QED BY <1>1, <4>1, GotBound
    <3>2. out = "copies" => Taken <= (Acked + 1) * set.count
      BY <1>1, <3>1 DEF Enough
    <3>3. /\ (Acked + 1) * set.count = Acked * set.count + set.count
          /\ Taken \in Int /\ Acked * set.count \in Nat /\ set.count \in Nat
      BY <1>1, InProbe
    <3>. QED BY <3>2, <3>3
  <2>5. Taken \in Int /\ Acked * set.count \in Int BY <1>1, InProbe
  <2>6. /\ set.startup \in Nat /\ Continue \in Nat /\ set.count \in Nat /\ set.count >= 2
        /\ Window \in Nat /\ Timeout \in Nat
    BY <1>1, Numbers
  <2>7. /\ out = "startup" => Timeout = 0
        /\ out = "first" => Timeout <= set.startup + Continue
        /\ out = "copies" => Timeout <= set.startup + Continue + Taken - Acked * set.count
        /\ out = "window" => Timeout <= set.startup + Continue + set.count + 1
        /\ out = "ack" => Timeout <= set.startup + Continue + set.count + 1 + Window
    BY <1>1, <2>1, <2>3 DEF Punctual
  <2>8. out \in {"startup", "first", "copies", "window", "ack"} BY <2>2 DEF TypeOK
  <2>9. set.startup + 2 * Continue + 2 * set.count + Window >= Timeout
    <3>1. CASE out = "startup" BY <2>6, <2>7, <3>1
    <3>2. CASE out = "first" BY <2>6, <2>7, <3>2
    <3>3. CASE out = "copies" BY <2>4, <2>5, <2>6, <2>7, <3>3
    <3>4. CASE out = "window" BY <2>6, <2>7, <3>4
    <3>5. CASE out = "ack" BY <2>6, <2>7, <3>5
    <3>. QED BY <2>8, <3>1, <3>2, <3>3, <3>4, <3>5
  <2>. QED BY <2>9 DEF Slow
<1>. QED BY <1>2, <1>3

\* What an answer leaves alone, whatever becomes of it.
LEMMA AnswerFrame ==
    ASSUME Inv, Answered
    PROVE  /\ dcc = "receive" /\ Asking /\ dcc # "idle" /\ todo = <<>>
           /\ UNCHANGED <<req, set, out, group, cvPacket, ack, front, back, flag, cv, noise>>
           /\ waited' = 0 /\ waited' \in 0..Timeout
           /\ rx' \in Seq(BOOLEAN) /\ Len(rx') \in Nat /\ DOMAIN rx' = 1..Len(rx')
           /\ Taken = Groups * set.count - Len(front)
           /\ mishaps' \subseteq {"leftovers", "late"} /\ mishaps \subseteq mishaps'
           /\ out = "off" => rx' = <<>> /\ flag
           /\ "late" \in mishaps' => flag' \/ "leftovers" \in mishaps' \/ Slow(set')
           /\ mishaps' = {} =>
                /\ mishaps = {} /\ DccReceive /\ Len(rx') = Len(rx) - 1 /\ Len(rx) \in Nat
                /\ 1 \in DOMAIN rx
                /\ \A i \in DOMAIN rx' : i + 1 \in DOMAIN rx /\ rx'[i] = rx[i + 1]
<1> USE DEF Inv
<1>1. dcc = "receive" /\ Asking /\ dcc # "idle" BY DEF Answered, DccReceive, DccTimeout, Asking
<1>2. todo = <<>> BY <1>1 DEF Probing
<1>3. /\ UNCHANGED <<req, set, out, group, cvPacket, ack, front, back, flag, cv, noise>>
      /\ waited' = 0
  BY DEF Answered, DccReceive, DccTimeout, outVars, buffers
<1>4. waited' \in 0..Timeout BY <1>3, CvProgrammingAssumption
<1>5. Taken = Groups * set.count - Len(front)
  <2>1. Len(todo) = 0 /\ Len(front) \in Nat /\ Groups * set.count \in Nat
    BY <1>1, <1>2, ProbeFacts
  <2>. QED BY <2>1 DEF Taken
<1>6. CASE DccReceive
  <2>1. rx \in Seq(BOOLEAN) /\ rx # <<>> /\ rx' = Tail(rx) /\ mishaps' = mishaps
    BY <1>6 DEF DccReceive, TypeOK
  <2>2. /\ rx' \in Seq(BOOLEAN) /\ Len(rx') = Len(rx) - 1 /\ Len(rx') \in Nat /\ Len(rx) \in Nat
        /\ DOMAIN rx' = 1..Len(rx') /\ 1 \in DOMAIN rx
        /\ \A i \in DOMAIN rx' : i + 1 \in DOMAIN rx /\ rx'[i] = rx[i + 1]
    BY <2>1
  <2>3. out = "off" => rx' = <<>> /\ flag BY <2>1 DEF Probing
  <2>4. "late" \in mishaps' => flag' \/ "leftovers" \in mishaps' \/ Slow(set')
    BY <1>3, <2>1 DEF Punctual, Slow
  <2>5. mishaps \subseteq {"leftovers", "late"} BY DEF TypeOK
  <2>. QED BY <1>1, <1>2, <1>3, <1>4, <1>5, <1>6, <2>1, <2>2, <2>3, <2>4, <2>5
<1>7. CASE DccTimeout
  <2>1. rx = <<>> /\ rx' = rx /\ mishaps' = mishaps \cup {"late"}
    BY <1>7 DEF DccTimeout, buffers
  <2>2. rx' \in Seq(BOOLEAN) /\ Len(rx') \in Nat /\ DOMAIN rx' = 1..Len(rx')
    BY <2>1, ProbeFacts DEF TypeOK
  <2>3. out = "off" => flag BY <1>1 DEF Enough
  <2>4. flag' \/ "leftovers" \in mishaps' \/ Slow(set')
    BY <1>3, <1>7, <2>1, LateExcused DEF Slow
  <2>5. mishaps \subseteq {"leftovers", "late"} BY DEF TypeOK
  <2>. QED BY <1>1, <1>2, <1>3, <1>4, <1>5, <2>1, <2>2, <2>3, <2>4, <2>5
<1>. QED BY <1>6, <1>7 DEF Answered

LEMMA ReturnInv ==
    ASSUME Inv, Answered, NEW r \in Values \cup {None}, Return(r),
           r # None => r = cv \/ Misled',
           r # None /\ req.op = "write" => r = req.byte,
           Undisturbed' => r = Outcome
    PROVE  Inv'
<1> USE DEF Inv
<1>1. dcc' = "waitOut" /\ byte' = r /\ index' = 0 /\ todo' = <<>> /\ probe' = probe
  BY DEF Return
<1>2. ~Asking' BY <1>1 DEF Asking
<1>3. TypeOK'
  <2>1. 0 \in 0..MaxByte BY ValuesNat
  <2>2. <<>> \in Seq(Packets) OBVIOUS
  <2>. QED BY <1>1, <2>1, <2>2, AnswerFrame, SMTT(30) DEF TypeOK
<1>4. Probing' BY <1>1, <1>2, AnswerFrame DEF Probing
<1>5. InOrder' /\ Enough' /\ Aligned' /\ Honest' BY <1>2 DEF InOrder, Enough, Aligned, Honest
<1>6. Punctual' BY <1>1, AnswerFrame DEF Punctual
<1>7. NoForeignWrites'
  <2>1. DOMAIN todo' = {} BY <1>1
  <2>2. "leftovers" \notin mishaps' => "leftovers" \notin mishaps BY AnswerFrame
  <2>. QED BY <2>1, <2>2, AnswerFrame DEF NoForeignWrites, OwnWrite
<1>8. Result'
  <2>1. Outcome' = Outcome BY AnswerFrame DEF Outcome, Refused
  <2>. QED BY <1>1, <2>1, AnswerFrame DEF Result
<1>. QED BY <1>3, <1>4, <1>5, <1>6, <1>7, <1>8

\* The acknowledge which is read is about what was asked.
LEMMA HeadRight ==
    ASSUME Inv, DccReceive, mishaps = {}
    PROVE  Head(rx) = rx[1] /\ Head(rx) \in BOOLEAN /\ Right(Head(rx), Got)
<1>1. rx \in Seq(BOOLEAN) /\ rx # <<>> /\ Asking BY DEF Inv, TypeOK, DccReceive, Asking
<1>2. 1 \in DOMAIN rx /\ Head(rx) = rx[1] /\ Head(rx) \in BOOLEAN BY <1>1
<1>3. Got \in Nat BY ProbeFacts DEF Inv
<1>4. Got + 1 - 1 = Got BY <1>3
<1>5. Right(rx[1], Got + 1 - 1) BY <1>1, <1>2 DEF Inv, Honest
<1>. QED BY <1>2, <1>4, <1>5

\* serviceReceiveByte adds one bit to those it has.
ReadBit(bit) == byte + (IF bit = set.one THEN Weight(index) ELSE 0)

LEMMA BitRead ==
    ASSUME Inv, DccReceive, probe = "bits"
    PROVE  /\ index \in 0..7 /\ index < Bits /\ Bits \in 1..8
           /\ ReadBit(Head(rx)) \in 0..(Weight(index + 1) - 1)
           /\ ReadBit(Head(rx)) \in Values
           /\ mishaps = {} /\ noise = 0 /\ ~Eaten =>
                ReadBit(Head(rx)) = cv % Weight(index + 1)
<1> USE DEF Inv
<1>1. Asking /\ dcc # "idle" BY DEF DccReceive, Asking
<1>2. index \in 0..7 /\ index < Bits /\ Bits \in 1..8 /\ index + 1 <= Bits
  <2>1. Bits \in 1..8 /\ index < Bits BY <1>1, ValuesNat DEF Probing
  <2>2. index \in Nat BY ValuesNat DEF TypeOK
  <2>. QED BY <2>1, <2>2
<1>3. byte \in 0..(Weight(index) - 1) BY <1>1 DEF Probing
<1>4. Weight(index) \in Nat /\ Weight(index + 1) = 2 * Weight(index)
  BY <1>2, WeightNat, WeightNext
<1>5. ReadBit(Head(rx)) \in 0..(Weight(index + 1) - 1) BY <1>3, <1>4 DEF ReadBit
<1>6. ReadBit(Head(rx)) \in Values
  <2>1. Weight(index + 1) <= Weight(Bits) BY <1>2, WeightsGrow
  <2>2. MaxByte = Weight(Bits) - 1 /\ Values = 0..MaxByte BY ValuesNat
  <2>3. Weight(Bits) \in Nat /\ Weight(index + 1) \in Nat BY <1>2, <1>4, WeightNat
  <2>4. \A b \in 0..(Weight(index + 1) - 1) : b \in 0..(Weight(Bits) - 1)
    BY <2>1, <2>3
  <2>. QED BY <1>5, <2>2, <2>4
<1>7. ASSUME mishaps = {}, noise = 0, ~Eaten
      PROVE  ReadBit(Head(rx)) = cv % Weight(index + 1)
  <2>1. Right(Head(rx), Got) /\ Head(rx) \in BOOLEAN /\ Got = index
    BY <1>7, HeadRight DEF Got
  <2>2. Expected(Got) = BitPacket(index, set.one) BY <2>1 DEF Expected
  <2>3. Holds(Expected(Got)) <=> (((cv \div Weight(index)) % 2 = 1) = set.one)
    BY <2>2 DEF Holds, BitPacket
  <2>4. Head(rx) <=> (((cv \div Weight(index)) % 2 = 1) = set.one)
    BY <1>7, <2>1, <2>3 DEF Right
  <2>5. (Head(rx) = set.one) <=> (cv \div Weight(index)) % 2 = 1
    <3>1. set.one \in BOOLEAN BY <1>1, Facts
    <3>. QED BY <2>1, <2>4, <3>1, Zenon
  <2>6. byte = cv % Weight(index) BY <1>1, <1>7 DEF Honest
  <2>7. cv \in Nat BY ValuesNat DEF TypeOK
  <2>8. cv % Weight(index + 1) =
          (cv % Weight(index)) + (IF (cv \div Weight(index)) % 2 = 1 THEN Weight(index) ELSE 0)
    BY <1>2, <2>7, NextBitOf
  <2>. QED BY <2>5, <2>6, <2>8, Zenon DEF ReadBit
<1>. QED BY <1>2, <1>5, <1>6, <1>7

\* The next bit, of which the copies are under way.
LEMMA NextBitInv ==
    ASSUME Inv, DccReceive, probe = "bits", index < Bits - 1, NextBit(Head(rx))
    PROVE  Inv'
<1> USE DEF Inv
<1>0. Answered /\ Asking /\ dcc # "idle" BY DEF Answered, DccReceive, Asking
<1>1. /\ dcc' = dcc /\ probe' = probe /\ todo' = todo /\ index' = index + 1
      /\ byte' = ReadBit(Head(rx)) /\ mishaps' = mishaps
  BY DEF NextBit, ReadBit, DccReceive
<1>2. /\ Groups' = Groups /\ Got' = Got + 1 /\ Got = index /\ Eaten' = Eaten
      /\ Asking' = Asking /\ Taken' = Taken
      /\ \A g : Expected(g)' = Expected(g)
      /\ \A p, n : Numbered(p, n)' = Numbered(p, n)
      /\ \A p : OwnWrite(p)' = OwnWrite(p)
      /\ \A a, g : Right(a, g)' = Right(a, g)
  BY <1>0, <1>1, AnswerFrame
     DEF Groups, Got, Eaten, Asking, Taken, Expected, Numbered, OwnWrite, Right, Holds
<1>3. /\ rx \in Seq(BOOLEAN) /\ rx # <<>> /\ rx' = Tail(rx)
      /\ Len(rx') = Len(rx) - 1 /\ Len(rx) \in Nat
      /\ DOMAIN rx' = 1..(Len(rx) - 1) /\ DOMAIN rx = 1..Len(rx)
      /\ \A i \in DOMAIN rx' : i + 1 \in DOMAIN rx /\ rx'[i] = rx[i + 1]
  <2>1. rx \in Seq(BOOLEAN) /\ rx # <<>> /\ rx' = Tail(rx) BY DEF DccReceive, TypeOK
  <2>. QED BY <2>1
<1>4. index \in Nat /\ index' \in 0..MaxByte /\ index' < Bits
  <2>1. index \in 0..7 BY BitRead
  <2>. QED BY <1>1, <2>1, ValuesNat
<1>5. Acked' = Acked BY <1>2, <1>3, <1>4 DEF Acked
<1>6. TypeOK'
  <2>1. byte' \in Values BY <1>1, BitRead
  <2>. QED BY <1>0, <1>1, <1>4, <2>1, AnswerFrame DEF TypeOK
<1>7. Probing'
  <2>1. byte' \in 0..(Weight(index') - 1) BY <1>1, BitRead
  <2>. QED BY <1>0, <1>1, <1>4, <2>1, AnswerFrame DEF Probing
<1>8. InOrder' BY <1>0, <1>1, <1>2, AnswerFrame DEF InOrder
<1>9. Enough' BY <1>0, <1>2, <1>5, AnswerFrame DEF Enough
<1>10. Aligned' BY <1>0, <1>1, <1>2, <1>5, AnswerFrame DEF Aligned, Start
<1>11. Punctual'
  <2>1. ASSUME mishaps = {}
        PROVE  /\ 0 <= set.startup + Continue
               /\ out = "copies" => 0 <= set.startup + Continue + Taken - Acked * set.count
               /\ 0 <= set.startup + Continue + set.count + 1
               /\ 0 <= set.startup + Continue + set.count + 1 + Window
    <3>1. set.startup \in Nat /\ Continue \in Nat /\ set.count \in Nat /\ Window \in Nat
      BY <1>0, Numbers
    <3>2. out = "copies" => Taken > Acked * set.count BY <1>0, <2>1 DEF Aligned
    <3>3. Taken \in Int /\ Acked * set.count \in Nat BY <1>0, InProbe
    <3>. QED BY <3>1, <3>2, <3>3
  <2>. QED BY <1>0, <1>1, <1>2, <1>5, <2>1, AnswerFrame DEF Punctual
<1>12. NoForeignWrites' BY <1>0, <1>1, <1>2, AnswerFrame DEF NoForeignWrites
<1>13. Honest'
  <2>1. ASSUME mishaps = {}, NEW i \in DOMAIN rx' PROVE Right(rx'[i], Got' + i - 1)
    <3>1. i + 1 \in DOMAIN rx /\ rx'[i] = rx[i + 1] BY <1>3
    <3>2. Got' + i - 1 = Got + (i + 1) - 1 BY <1>2, <1>3, <1>4
    <3>3. Right(rx[i + 1], Got + (i + 1) - 1) BY <1>0, <2>1, <3>1 DEF Honest
    <3>. QED BY <3>1, <3>2, <3>3
  <2>2. mishaps = {} /\ out = "ack" => Right(ack, Acked) BY <1>0 DEF Honest
  <2>3. mishaps = {} /\ noise = 0 /\ ~Eaten => byte' = cv % Weight(index')
    BY <1>1, BitRead
  <2>4. probe' = "bits" /\ noise' = noise /\ cv' = cv BY <1>0, <1>1, AnswerFrame
  <2>. QED BY <1>0, <1>1, <1>2, <1>5, <2>1, <2>2, <2>3, <2>4, AnswerFrame DEF Honest
<1>14. Result' BY <1>0, <1>1, AnswerFrame DEF Result
<1>. QED BY <1>6, <1>7, <1>8, <1>9, <1>10, <1>11, <1>12, <1>13, <1>14

\* The next probe of a read.  Without mishaps everything of the one before is gone.
LEMMA NextProbeInv ==
    ASSUME Inv, Answered, NEW p \in Packets, p.kind = "verify",
           dcc' = "push", probe' \in {"check", "search"},
           todo' = Copies(p, set.count), Expected(0)' = p,
           index' \in 0..MaxByte, byte' \in Values \cup {None},
           req.op = "read", Got + 1 = Groups,
           probe' = "check" => set.type = 3 /\ byte' # None /\ "late" \notin mishaps',
           probe' = "search" => set.type = 2 /\ index' < MaxByte,
           mishaps' = {} /\ noise = 0 /\ ~Eaten =>
                /\ probe' = "check" => byte' = cv
                /\ probe' = "search" => cv >= index'
    PROVE  Inv'
<1> USE DEF Inv
<1>1. Groups' = 1 /\ Got' = 0 /\ Asking' /\ Eaten' = Eaten
  BY AnswerFrame DEF Groups, Got, Asking, Eaten
<1>2. set' = set /\ set.count \in Nat /\ set.count >= 1 /\ front' = front
      /\ front' \in Seq(Packets)
  <2>1. set.count \in Nat /\ set.count >= 2 BY AnswerFrame, Numbers
  <2>2. front \in Seq(Packets) BY DEF TypeOK
  <2>3. set' = set /\ front' = front BY AnswerFrame
  <2>. QED BY <2>1, <2>2, <2>3
<1>3. /\ todo' \in Seq(Packets) /\ \A i \in DOMAIN todo' : todo'[i] = p
      /\ Taken' = 0 - Len(front') /\ Taken' \in Int /\ Taken' <= 0 /\ InOrder'
  BY <1>1, <1>2, FreshCopies
<1>4. Acked' = Len(rx') /\ Len(rx') \in Nat BY <1>1, AnswerFrame DEF Acked
<1>5. TypeOK' BY <1>3, AnswerFrame DEF TypeOK
<1>6. Probing' BY <1>1, AnswerFrame DEF Probing
<1>7. Enough'
  <2>1. out' \in {"suspend", "off"} => flag'
    BY AnswerFrame DEF Enough
  <2>2. ASSUME NEW a \in Nat
        PROVE  Taken' <= a * set'.count + 1 /\ Taken' <= (a + 1) * set'.count
               /\ Taken' <= (a + 1) * set'.count + 1
    <3>1. a * set'.count \in Nat /\ (a + 1) * set'.count \in Nat BY <1>2, NextGroup
    <3>. QED BY <1>3, <3>1
  <2>. QED BY <1>4, <2>1, <2>2 DEF Enough
<1>8. ASSUME mishaps' = {}
      PROVE  /\ Len(rx') = 0 /\ out \notin {"startup", "copies", "window", "ack"}
             /\ out = "first" => Taken' = 0
  <2>1. mishaps = {} /\ Len(rx') = Len(rx) - 1 /\ Len(rx) \in Nat /\ 1 \in DOMAIN rx
    BY <1>8, AnswerFrame
  <2>2. Acked <= Groups /\ Acked = Got + Len(rx) /\ Got \in Nat /\ Groups \in Nat
    BY <2>1, AnswerFrame, ProbeFacts DEF Aligned
  <2>3. Len(rx') = 0 /\ Acked = Groups /\ Acked >= 1 BY <1>4, <2>1, <2>2
  <2>4. out \notin {"startup", "copies", "window", "ack"}
    BY <2>1, <2>2, <2>3, AnswerFrame DEF Aligned
  <2>5. ASSUME out = "first" PROVE Taken' = 0
    <3>1. Taken >= Groups * set.count BY <2>1, <2>3, <2>5, AnswerFrame DEF Aligned
    <3>2. Taken = Groups * set.count - Len(front) BY AnswerFrame
    <3>3. Groups * set.count \in Nat /\ Len(front) \in Nat BY AnswerFrame, ProbeFacts
    <3>4. Len(front) = 0 BY <3>1, <3>2, <3>3
    <3>. QED BY <1>2, <1>3, <3>4
  <2>. QED BY <2>3, <2>4, <2>5
<1>9. Aligned'
  <2>1. out' = out BY AnswerFrame
  <2>2. 0 * set'.count = 0 BY <1>2
  <2>. QED BY <1>1, <1>4, <1>8, <2>1, <2>2 DEF Aligned
<1>10. Punctual' BY AnswerFrame DEF Punctual
<1>11. NoForeignWrites'
  <2>1. \A i \in DOMAIN todo' : todo'[i].kind = "verify" BY <1>3
  <2>2. "leftovers" \notin mishaps' => "leftovers" \notin mishaps BY AnswerFrame
  <2>. QED BY <2>1, <2>2, AnswerFrame DEF NoForeignWrites, OwnWrite
<1>12. Honest'
  <2>1. ASSUME mishaps' = {} PROVE DOMAIN rx' = {} /\ out' # "ack"
    BY <1>8, <2>1, AnswerFrame
  <2>2. cv' = cv /\ noise' = noise BY AnswerFrame
  <2>. QED BY <1>1, <2>1, <2>2 DEF Honest
<1>13. Result' BY DEF Result
<1>. QED BY <1>3, <1>5, <1>6, <1>7, <1>9, <1>10, <1>11, <1>12, <1>13

LEMMA VerifyIsPacket ==
    ASSUME NEW b \in Values
    PROVE  VerifyPacket(b) \in Packets /\ VerifyPacket(b).kind = "verify"
           /\ VerifyPacket(b).arg = b
BY DEF VerifyPacket, Packets

\* The next value of a search.
LEMMA SearchInv ==
    ASSUME Inv, Answered, probe = "search", index + 1 # MaxByte,
           Probe("search", index + 1, None, Copies(VerifyPacket(index + 1), set.count)),
           mishaps' = {} /\ noise = 0 /\ ~Eaten => cv >= index + 1
    PROVE  Inv'
<1> USE DEF Inv
<1>1. req.op = "read" /\ set.type = 2 /\ index \in Nat /\ index + 1 \in Values
      /\ index + 1 < MaxByte
  <2>1. probe # "write" /\ set.type = 2 /\ index < MaxByte /\ ~(req.op = "write")
    BY AnswerFrame DEF Probing
  <2>2. req.op \in {"read", "write"} BY AnswerFrame, Facts
  <2>3. index \in 0..MaxByte /\ MaxByte \in Nat /\ Values = 0..MaxByte
    BY ValuesNat DEF TypeOK
  <2>. QED BY <2>1, <2>2, <2>3
<1>2. /\ dcc' = "push" /\ probe' = "search" /\ index' = index + 1 /\ byte' = None
      /\ todo' = Copies(VerifyPacket(index + 1), set.count)
  BY DEF Probe
<1>3. Expected(0)' = VerifyPacket(index + 1) BY <1>2 DEF Expected
<1>4. Got + 1 = Groups BY DEF Got, Groups
<1>5. index' \in 0..MaxByte /\ index' < MaxByte BY <1>1, <1>2, ValuesNat
<1>6. VerifyPacket(index + 1) \in Packets /\ VerifyPacket(index + 1).kind = "verify"
  BY <1>1, VerifyIsPacket
<1>. QED BY <1>1, <1>2, <1>3, <1>4, <1>5, <1>6, NextProbeInv

\* The value which was tried is not that of the CV.
Granted == Head(rx) = TRUE

LEMMA NotThisValue ==
    ASSUME Inv, DccReceive, probe = "search", ~Granted
    PROVE  mishaps = {} /\ noise = 0 /\ ~Eaten => cv >= index + 1
<1> USE DEF Inv
<1> SUFFICES ASSUME mishaps = {}, noise = 0, ~Eaten PROVE cv >= index + 1
  OBVIOUS
<1>1. Head(rx) \in BOOLEAN /\ Right(Head(rx), Got) BY HeadRight
<1>2. ~Head(rx) BY <1>1, Zenon DEF Granted
<1>3. Got = 0 BY DEF Got
<1>4. Expected(Got) = VerifyPacket(index) BY DEF Expected
<1>5. ~Holds(Expected(Got)) BY <1>1, <1>2, Zenon DEF Right
<1>6. cv # index
  <2>1. VerifyPacket(index).kind # "bit" /\ VerifyPacket(index).arg = index
    BY DEF VerifyPacket
  <2>. QED BY <1>4, <1>5, <2>1, Zenon DEF Holds
<1>7. Asking BY DEF DccReceive, Asking
<1>8. cv >= index BY <1>7 DEF Honest
<1>9. cv \in Nat /\ index \in Nat BY ValuesNat DEF TypeOK
<1>10. \A c, i \in Nat : c # i /\ c >= i => c >= i + 1 OBVIOUS
<1>. QED BY <1>6, <1>8, <1>9, <1>10, Zenon

LEMMA TimeoutInv ==
    ASSUME Inv, DccTimeout
    PROVE  Inv'
<1>0. Answered /\ mishaps' # {} BY DEF Answered, DccTimeout
<1>1. None \in Values \cup {None} /\ ~Undisturbed' BY <1>0 DEF Undisturbed
<1>2. CASE Return(None) BY <1>0, <1>1, <1>2, ReturnInv
<1>3. CASE ~Return(None)
  <2>1. probe \in {"write", "bits", "check", "search"} BY DEF Inv, TypeOK
  <2>2. None # TRUE BY CvProgrammingAssumption
  <2>3. Received(None) BY DEF DccTimeout
  <2>4. /\ probe = "search" /\ index + 1 # MaxByte
        /\ Probe("search", index + 1, None, Copies(VerifyPacket(index + 1), set.count))
    BY <1>3, <2>1, <2>2, <2>3 DEF Received
  <2>. QED BY <1>0, <2>4, SearchInv
<1>. QED BY <1>2, <1>3

\* A confirmed value is that of the CV.
LEMMA ThisValue ==
    ASSUME Inv, DccReceive, probe # "bits", Granted, mishaps = {},
           noise = 0 \/ (noise = 1 /\ probe = "check" /\ ~Eaten)
    PROVE  cv = IF probe = "search" THEN index ELSE byte
<1>1. Right(Head(rx), Got) BY HeadRight
<1>2. Head(rx) BY Zenon DEF Granted
<1>3. Holds(Expected(Got)) BY <1>1, <1>2, Zenon DEF Right
<1>4. probe \in {"write", "bits", "check", "search"} BY DEF Inv, TypeOK
<1>5. ASSUME NEW b
      PROVE  /\ VerifyPacket(b).kind # "bit" /\ VerifyPacket(b).arg = b
             /\ WritePacket(b).kind # "bit" /\ WritePacket(b).arg = b
  BY DEF VerifyPacket, WritePacket
<1>6. CASE probe = "search"
  <2>1. Expected(Got) = VerifyPacket(index) BY <1>6 DEF Expected
  <2>. QED BY <1>3, <1>5, <1>6, <2>1, Zenon DEF Holds
<1>7. CASE probe = "check"
  <2>1. Expected(Got) = VerifyPacket(byte) BY <1>7 DEF Expected
  <2>. QED BY <1>3, <1>5, <1>7, <2>1, ZenonT(30) DEF Holds
<1>8. CASE probe = "write"
  <2>1. Expected(Got) = WritePacket(byte) BY <1>8 DEF Expected
  <2>. QED BY <1>3, <1>5, <1>8, <2>1, Zenon DEF Holds
<1>. QED BY <1>4, <1>6, <1>7, <1>8

\* Without anything going wrong the right value is confirmed.
LEMMA MustGrant ==
    ASSUME Inv, DccReceive, mishaps = {}, noise = 0, ~Eaten,
           \/ probe = "write"
           \/ probe = "check" /\ byte = cv
           \/ probe = "search" /\ index = cv
    PROVE  Granted
<1>1. Right(Head(rx), Got) /\ Head(rx) \in BOOLEAN BY HeadRight
<1>2. ASSUME NEW b
      PROVE  VerifyPacket(b).kind # "bit" /\ VerifyPacket(b).arg = b
  BY DEF VerifyPacket
<1>3. probe = "write" \/ Holds(Expected(Got))
  <2>1. CASE probe = "check" /\ byte = cv
    <3>1. Expected(Got) = VerifyPacket(byte) BY <2>1 DEF Expected
    <3>. QED BY <1>2, <2>1, <3>1, Zenon DEF Holds
  <2>2. CASE probe = "search" /\ index = cv
    <3>1. Expected(Got) = VerifyPacket(index) BY <2>2 DEF Expected
    <3>. QED BY <1>2, <2>2, <3>1, Zenon DEF Holds
  <2>. QED BY <2>1, <2>2
<1>4. Head(rx) BY <1>1, <1>3, Zenon DEF Right
<1>. QED BY <1>1, <1>4, Zenon DEF Granted

LEMMA ReceiveFacts ==
    ASSUME Inv, DccReceive
    PROVE  /\ Answered /\ Asking /\ dcc # "idle" /\ req.op \in {"read", "write"}
           /\ probe = "write" <=> req.op = "write"
           /\ probe # "search" => "late" \notin mishaps
           /\ mishaps \subseteq {"leftovers", "late"} /\ noise \in Nat
           /\ Misled' = Misled /\ Undisturbed' = Undisturbed
           /\ probe \in {"write", "bits", "check", "search"}
<1> USE DEF Inv
<1>1. Answered /\ Asking /\ dcc # "idle" BY DEF Answered, DccReceive, Asking
<1>2. req' = req /\ set' = set /\ mishaps' = mishaps /\ noise' = noise /\ flag' = flag
  BY DEF DccReceive
<1>3. Misled' = Misled /\ Undisturbed' = Undisturbed
  BY <1>2 DEF Misled, Undisturbed, Eaten
<1>4. req.op \in {"read", "write"} BY <1>1, Facts
<1>5. noise \in Nat BY CvProgrammingAssumption DEF TypeOK
<1>6. /\ probe = "write" <=> req.op = "write"
      /\ probe # "search" => "late" \notin mishaps
  BY <1>1 DEF Probing
<1>7. mishaps \subseteq {"leftovers", "late"} /\ probe \in {"write", "bits", "check", "search"}
  BY DEF TypeOK
<1>. QED BY <1>1, <1>3, <1>4, <1>5, <1>6, <1>7, Zenon

\* The answer to a write.
LEMMA ReceiveWrite ==
    ASSUME Inv, DccReceive, probe = "write"
    PROVE  Inv'
<1> DEFINE r == IF Granted THEN byte ELSE None
<1>1. Answered /\ req.op = "write" /\ Asking BY ReceiveFacts
<1>2. Return(r)
  <2>1. Received(Head(rx)) BY DEF DccReceive
  <2>. QED BY <2>1, Zenon DEF Received, Granted
<1>3. r \in Values \cup {None} BY DEF Inv, TypeOK
<1>4. Misled \/ (mishaps = {} /\ noise = 0)
  <2>1. "leftovers" \in mishaps \/ mishaps = {} BY ReceiveFacts
  <2>2. noise > 0 \/ noise = 0 BY ReceiveFacts
  <2>. QED BY <1>1, <2>1, <2>2 DEF Misled
<1>5. r # None => r = cv \/ Misled'
  <2>1. ASSUME Granted, mishaps = {}, noise = 0 PROVE byte = cv BY <2>1, ThisValue
  <2>. QED BY <1>4, <2>1, ReceiveFacts
<1>6. r # None /\ req.op = "write" => r = req.byte
  <2>1. byte = req.byte BY <1>1 DEF Inv, Probing
  <2>. QED BY <2>1
<1>7. Undisturbed' => r = Outcome
  <2>. SUFFICES ASSUME Undisturbed PROVE r = Outcome
    BY ReceiveFacts
  <2>1. mishaps = {} /\ noise = 0 /\ ~Eaten BY DEF Undisturbed
  <2>2. Granted BY <2>1, MustGrant
  <2>3. byte = cv BY <2>1, <2>2, ThisValue
  <2>4. Outcome = cv BY <1>1 DEF Outcome, Refused
  <2>. QED BY <2>2, <2>3, <2>4
<1>. HIDE DEF r
<1>. QED BY <1>1, <1>2, <1>3, <1>5, <1>6, <1>7, ReturnInv

\* The answer to the verification of a byte.
LEMMA ReceiveCheck ==
    ASSUME Inv, DccReceive, probe = "check"
    PROVE  Inv'
<1> DEFINE r == IF Granted THEN byte ELSE None
<1>1. Answered /\ req.op = "read" /\ req.op # "write" /\ Asking BY ReceiveFacts
<1>2. Return(r)
  <2>1. Received(Head(rx)) BY DEF DccReceive
  <2>. QED BY <2>1, Zenon DEF Received, Granted
<1>3. r \in Values \cup {None} BY DEF Inv, TypeOK
<1>4. Misled \/ (mishaps = {} /\ (noise = 0 \/ (noise = 1 /\ ~Eaten)))
  <2>1. "leftovers" \in mishaps \/ mishaps = {} BY ReceiveFacts
  <2>2. noise > 1 \/ noise = 0 \/ (noise > 0 /\ noise = 1) BY ReceiveFacts
  <2>. QED BY <1>1, <2>1, <2>2 DEF Misled
<1>5. r # None => r = cv \/ Misled'
  <2>1. ASSUME Granted, mishaps = {}, noise = 0 \/ (noise = 1 /\ ~Eaten)
        PROVE  byte = cv
    BY <2>1, ThisValue
  <2>. QED BY <1>4, <2>1, ReceiveFacts
<1>6. r # None /\ req.op = "write" => r = req.byte BY <1>1
<1>7. Undisturbed' => r = Outcome
  <2>. SUFFICES ASSUME Undisturbed PROVE r = Outcome
    BY ReceiveFacts
  <2>1. mishaps = {} /\ noise = 0 /\ ~Eaten BY DEF Undisturbed
  <2>2. byte = cv BY <1>1, <2>1 DEF Inv, Honest
  <2>3. Granted BY <2>1, <2>2, MustGrant
  <2>4. set.type = 3 BY <1>1 DEF Inv, Probing
  <2>5. Outcome = cv BY <2>4 DEF Outcome, Refused
  <2>. QED BY <2>2, <2>3, <2>5
<1>. HIDE DEF r
<1>. QED BY <1>1, <1>2, <1>3, <1>5, <1>6, <1>7, ReturnInv

\* The answer to the value a search tries.
LEMMA ReceiveSearch ==
    ASSUME Inv, DccReceive, probe = "search"
    PROVE  Inv'
<1>1. Answered /\ req.op = "read" /\ req.op # "write" /\ Asking BY ReceiveFacts
<1>2. set.type = 2 /\ index < MaxByte BY <1>1 DEF Inv, Probing
<1>3. index \in 0..MaxByte /\ index \in Values /\ cv \in 0..MaxByte /\ MaxByte \in Nat
  BY ValuesNat DEF Inv, TypeOK
<1>4. Received(Head(rx)) BY DEF DccReceive
<1>5. CASE Granted
  <2>1. Return(index) BY <1>4, <1>5, Zenon DEF Received, Granted
  <2>2. Misled \/ (mishaps = {} /\ noise = 0)
    <3>1. "leftovers" \in mishaps \/ "late" \in mishaps \/ mishaps = {} BY ReceiveFacts
    <3>2. noise > 0 \/ noise = 0 BY ReceiveFacts
    <3>. QED BY <1>1, <1>2, <3>1, <3>2 DEF Misled
  <2>3. mishaps = {} /\ noise = 0 => index = cv BY <1>5, ThisValue
  <2>4. Undisturbed' => index = Outcome
    <3>. SUFFICES ASSUME Undisturbed PROVE index = Outcome
      BY ReceiveFacts
    <3>1. index = cv BY <2>3 DEF Undisturbed
    <3>2. cv # MaxByte BY <1>2, <1>3, <3>1
    <3>3. Outcome = cv BY <1>2, <3>2 DEF Outcome, Refused
    <3>. QED BY <3>1, <3>3
  <2>. QED BY <1>1, <1>3, <2>1, <2>2, <2>3, <2>4, ReceiveFacts, ReturnInv
<1>6. CASE ~Granted
  <2>1. IF index + 1 = MaxByte THEN Return(None)
        ELSE Probe("search", index + 1, None, Copies(VerifyPacket(index + 1), set.count))
    BY <1>4, <1>6, Zenon DEF Received, Granted
  <2>2. mishaps = {} /\ noise = 0 /\ ~Eaten => cv >= index + 1 BY <1>6, NotThisValue
  <2>3. CASE index + 1 = MaxByte
    <3>1. Undisturbed' => None = Outcome
      <4>. SUFFICES ASSUME Undisturbed PROVE None = Outcome
        BY ReceiveFacts
      <4>1. cv >= index + 1 BY <2>2 DEF Undisturbed
      <4>2. cv = MaxByte BY <1>3, <2>3, <4>1
      <4>. QED BY <1>1, <1>2, <4>2 DEF Outcome, Refused
    <3>2. None \in Values \cup {None} OBVIOUS
    <3>3. Return(None) BY <2>1, <2>3
    <3>. QED BY <1>1, <3>1, <3>2, <3>3, ReturnInv
  <2>4. CASE index + 1 # MaxByte
    <3>1. mishaps' = {} => mishaps = {} BY <1>1, AnswerFrame
    <3>. QED BY <1>1, <2>1, <2>2, <2>4, <3>1, SearchInv
  <2>. QED BY <2>3, <2>4
<1>. QED BY <1>5, <1>6

\* The answer to what one bit is.
LEMMA ReceiveBit ==
    ASSUME Inv, DccReceive, probe = "bits"
    PROVE  Inv'
<1>1. Answered /\ req.op = "read" /\ req.op # "write" /\ Asking BY ReceiveFacts
<1>2. NextBit(Head(rx))
  <2>1. rx \in Seq(BOOLEAN) /\ rx # <<>> BY DEF Inv, TypeOK, DccReceive
  <2>2. Head(rx) \in BOOLEAN BY <2>1
  <2>3. Head(rx) # None BY <2>2, CvProgrammingAssumption, Zenon
  <2>4. Received(Head(rx)) BY DEF DccReceive
  <2>. QED BY <2>3, <2>4, Zenon DEF Received
<1>3. CASE index < Bits - 1 BY <1>2, <1>3, NextBitInv
<1>4. CASE ~(index < Bits - 1)
  <2> DEFINE b == ReadBit(Head(rx))
  <2>1. index + 1 = Bits /\ Bits \in 0..8
    <3>1. index \in 0..7 /\ index < Bits /\ Bits \in 1..8 BY BitRead
    <3>. QED BY <1>4, <3>1
  <2>2. b \in Values BY BitRead
  <2>3. set.type \in {1, 3} BY <1>1 DEF Inv, Probing
  <2>4. mishaps = {} /\ noise = 0 /\ ~Eaten => b = cv
    <3>1. mishaps = {} /\ noise = 0 /\ ~Eaten => b = cv % Weight(Bits) BY <2>1, BitRead
    <3>2. cv % Weight(Bits) = cv BY AllBitsOf DEF Inv, TypeOK
    <3>. QED BY <3>1, <3>2
  <2>5. IF set.type = 1 THEN Return(b)
        ELSE Probe("check", 0, b, Copies(VerifyPacket(b), set.count))
    BY <1>2, <1>4, Zenon DEF NextBit, ReadBit
  <2>. HIDE DEF b
  <2>6. CASE set.type = 1
    <3>1. Misled \/ (mishaps = {} /\ noise = 0 /\ ~Eaten)
      <4>1. "leftovers" \in mishaps \/ mishaps = {} BY ReceiveFacts
      <4>2. noise > 0 \/ noise = 0 BY ReceiveFacts
      <4>. QED BY <1>1, <2>6, <4>1, <4>2 DEF Misled
    <3>2. Undisturbed' => b = Outcome
      <4>1. Undisturbed => b = cv BY <2>4 DEF Undisturbed
      <4>2. Outcome = cv BY <2>6 DEF Outcome, Refused
      <4>. QED BY <4>1, <4>2, ReceiveFacts
    <3>3. b # None => b = cv \/ Misled' BY <2>4, <3>1, ReceiveFacts
    <3>4. Return(b) /\ b \in Values \cup {None} BY <2>2, <2>5, <2>6
    <3>. QED BY <1>1, <3>2, <3>3, <3>4, ReturnInv
  <2>7. CASE set.type = 3
    <3>1. /\ dcc' = "push" /\ probe' = "check" /\ index' = 0 /\ byte' = b
          /\ todo' = Copies(VerifyPacket(b), set.count)
      BY <2>5, <2>7 DEF Probe
    <3>2. Expected(0)' = VerifyPacket(b) BY <3>1 DEF Expected
    <3>3. Got + 1 = Groups BY <2>1 DEF Got, Groups
    <3>4. VerifyPacket(b) \in Packets /\ VerifyPacket(b).kind = "verify" BY <2>2, VerifyIsPacket
    <3>5. b # None BY <2>2, CvProgrammingAssumption
    <3>6. mishaps' = mishaps BY DEF DccReceive
    <3>7. "late" \notin mishaps' BY <3>6, ReceiveFacts
    <3>8. index' \in 0..MaxByte BY <3>1, ValuesNat
    <3>. QED BY <1>1, <2>2, <2>4, <2>7, <3>1, <3>2, <3>3, <3>4, <3>5, <3>6, <3>7, <3>8, NextProbeInv
  <2>. QED BY <2>3, <2>6, <2>7
<1>. QED BY <1>3, <1>4

LEMMA ReceiveInv ==
    ASSUME Inv, DccReceive
    PROVE  Inv'
BY ReceiveFacts, ReceiveWrite, ReceiveCheck, ReceiveSearch, ReceiveBit

-----------------------------------------------------------------------------
(* Where an access ends and the next one begins. *)

LEMMA ReplyInv ==
    ASSUME Inv, DccReply
    PROVE  Inv'
<1> USE DEF Inv
<1>1. /\ dcc' = "idle" /\ req' = None /\ set' = None /\ byte' = None /\ probe' = "bits"
      /\ flag' = FALSE /\ noise' = 0 /\ mishaps' = {}
      /\ UNCHANGED <<todo, index, out, group, cvPacket, ack, front, back, rx, waited, cv>>
      /\ out = "off" /\ todo = <<>>
  BY DEF DccReply, Replying, outVars, buffers, Probing
<1>2. ~Asking' BY <1>1 DEF Asking
<1>3. TypeOK'
  <2>1. 0 \in 0..MaxNoise BY CvProgrammingAssumption
  <2>. QED BY <1>1, <2>1 DEF TypeOK
<1>4. Probing' BY <1>1, <1>2 DEF Probing
<1>5. InOrder' /\ Enough' /\ Aligned' /\ Honest' BY <1>2 DEF InOrder, Enough, Aligned, Honest
<1>6. Punctual' /\ NoForeignWrites' /\ Result' BY <1>1 DEF Punctual, NoForeignWrites, Result
<1>. QED BY <1>3, <1>4, <1>5, <1>6

LEMMA ChosenFacts ==
    ASSUME NEW s \in Settings, NEW r \in Requests
    PROVE  /\ s.count \in Nat /\ s.count >= 1 /\ s.type \in 0..3
           /\ r.op \in {"read", "write"} /\ r.byte \in Values
           /\ r # None /\ s # None
<1>1. s.count \in Counts /\ s.type \in Types BY DEF Settings
<1>2. s.count \in Nat \ {0, 1} BY <1>1, CvProgrammingAssumption
<1>3. s.type \in 0..3 BY <1>1, CvProgrammingAssumption
<1>4. 0 \in Values BY ValuesNat
<1>5. r.op \in {"read", "write"} /\ r.byte \in Values BY <1>4 DEF Requests
<1>6. r # None /\ s # None BY CvProgrammingAssumption
<1>. QED BY <1>2, <1>3, <1>5, <1>6

\* The first probe of an access finds neither acknowledges nor, without leftovers, packets.
LEMMA FirstProbeInv ==
    ASSUME Inv, NEW r \in Requests, NEW s \in Settings, Request(r, s),
           dcc' = "push", index' = 0, byte' \in Values \cup {None},
           probe' = "write" <=> r.op = "write",
           \/ probe' = "write" /\ byte' = r.byte
           \/ probe' = "search" /\ s.type = 2
           \/ probe' = "bits" /\ s.type \in {1, 3} /\ byte' = 0,
           todo' \in Seq(Packets), Taken' = 0 - Len(front'), Taken' \in Int, Taken' <= 0,
           InOrder',
           \A i \in DOMAIN todo' : OwnWrite(todo[i])'
    PROVE  Inv'
<1> USE DEF Inv
<1>1. /\ req' = r /\ set' = s /\ out' = "startup" /\ front' = front /\ rx' = <<>>
      /\ mishaps' = (IF front = <<>> THEN {} ELSE {"leftovers"})
      /\ back' \in {0, BackPackets}
      /\ UNCHANGED <<group, cvPacket, ack, flag, waited, cv, noise>>
  BY DEF Request, Probing
<1>2. /\ s.count \in Nat /\ s.count >= 1 /\ r # None /\ s # None BY ChosenFacts
<1>3. Asking' BY DEF Asking
<1>4. Got' = 0 /\ Acked' = 0
  <2>1. Len(rx') = 0 BY <1>1
  <2>2. Got' = 0 BY DEF Got
  <2>. QED BY <2>1, <2>2 DEF Acked
<1>5. TypeOK'
  <2>1. 0 \in 0..MaxByte BY ValuesNat
  <2>2. back' \in 0..BackPackets BY <1>1, CvProgrammingAssumption
  <2>3. mishaps' \subseteq {"leftovers", "late"} BY <1>1
  <2>4. rx' \in Seq(BOOLEAN) BY <1>1
  <2>5. probe' \in {"write", "bits", "check", "search"} OBVIOUS
  <2>. QED BY <1>1, <1>2, <2>1, <2>2, <2>3, <2>4, <2>5 DEF TypeOK
<1>6. Probing'
  <2>1. 0 < Bits /\ 0 < MaxByte /\ 0 \in 0..(Weight(0) - 1) BY LowestBit
  <2>2. "late" \notin mishaps' BY <1>1
  <2>. QED BY <1>1, <2>1, <2>2 DEF Probing
<1>7. Enough'
  <2>1. 0 * s.count = 0 BY <1>2
  <2>2. Taken' <= 0 * s.count + 1 BY <2>1
  <2>. QED BY <1>1, <1>4, <2>2 DEF Enough
<1>8. Aligned'
  <2>1. ASSUME mishaps' = {} PROVE Taken' = 0
    <3>1. front = <<>> BY <1>1, <2>1
    <3>2. Len(front') = 0 BY <1>1, <3>1, EmptySeq
    <3>. QED BY <3>2
  <2>2. 0 * s.count = 0 BY <1>2
  <2>3. 0 <= Groups' BY ValuesNat DEF Groups
  <2>. QED BY <1>1, <1>4, <2>1, <2>2, <2>3 DEF Aligned
<1>9. Punctual' BY <1>1 DEF Punctual
<1>10. NoForeignWrites'
  <2>1. "leftovers" \notin mishaps' => DOMAIN front' = {} BY <1>1, EmptySeq
  <2>. QED BY <1>1, <2>1 DEF NoForeignWrites
<1>11. Honest'
  <2>1. DOMAIN rx' = {} BY <1>1
  <2>2. cv \in Values /\ cv >= 0 BY ValuesNat DEF TypeOK
  <2>3. cv % Weight(0) = 0 BY <2>2, AllBitsOf
  <2>. QED BY <1>1, <2>1, <2>2, <2>3 DEF Honest
<1>12. Result' BY DEF Result
<1>. QED BY <1>5, <1>6, <1>7, <1>8, <1>9, <1>10, <1>11, <1>12

LEMMA RequestInv ==
    ASSUME Inv, NEW r \in Requests, NEW s \in Settings, Request(r, s)
    PROVE  Inv'
<1> USE DEF Inv
<1>1. /\ dcc = "idle" /\ req' = r /\ set' = s /\ out' = "startup" /\ front' = front
      /\ rx' = <<>> /\ todo = <<>>
      /\ UNCHANGED <<group, cvPacket, ack, flag, waited, cv, noise>>
  BY DEF Request, Probing
<1>2. /\ s.count \in Nat /\ s.count >= 1 /\ s.type \in 0..3
      /\ r.op \in {"read", "write"} /\ r.byte \in Values
  BY ChosenFacts
<1>3. front' \in Seq(Packets) BY <1>1 DEF TypeOK
<1>4. 0 \in Values BY ValuesNat
<1>5. CASE r.op = "write"
  <2>1. /\ dcc' = "push" /\ probe' = "write" /\ index' = 0 /\ byte' = r.byte
        /\ todo' = Copies(WritePacket(r.byte), s.count)
    BY <1>5 DEF Request, Write, Probe
  <2>2. Groups' = 1 /\ Expected(0)' = WritePacket(r.byte) BY <2>1 DEF Groups, Expected
  <2>3. WritePacket(r.byte) \in Packets BY <1>2 DEF WritePacket, Packets
  <2>4. /\ todo' \in Seq(Packets) /\ \A i \in DOMAIN todo' : todo'[i] = WritePacket(r.byte)
        /\ Taken' = 0 - Len(front') /\ Taken' \in Int /\ Taken' <= 0 /\ InOrder'
    BY <1>1, <1>2, <1>3, <2>1, <2>2, <2>3, FreshCopies
  <2>5. \A i \in DOMAIN todo' : OwnWrite(todo[i])'
    BY <1>1, <1>5, <2>4 DEF OwnWrite, WritePacket
  <2>. QED BY <1>2, <1>5, <2>1, <2>4, <2>5, FirstProbeInv
<1>6. CASE r.op # "write"
  <2>1. Read(s) BY <1>6 DEF Request
  <2>2. CASE s.type = 0
    <3>1. Return(None) BY <2>1, <2>2 DEF Read
    <3>2. dcc' = "waitOut" /\ byte' = None /\ index' = 0 /\ todo' = <<>> /\ probe' = probe
      BY <3>1 DEF Return
    <3>3. ~Asking' /\ r # None /\ s # None BY <3>2, ChosenFacts DEF Asking
    <3>4. mishaps' = (IF front = <<>> THEN {} ELSE {"leftovers"}) /\ back' \in {0, BackPackets}
      BY DEF Request
    <3>5. TypeOK'
      <4>1. 0 \in 0..MaxByte BY ValuesNat
      <4>2. back' \in 0..BackPackets BY <3>4, CvProgrammingAssumption
      <4>3. mishaps' \subseteq {"leftovers", "late"} BY <3>4
      <4>4. rx' \in Seq(BOOLEAN) /\ todo' \in Seq(Packets) BY <1>1, <3>2
      <4>. QED BY <1>1, <3>2, <3>3, <4>1, <4>2, <4>3, <4>4 DEF TypeOK
    <3>6. Probing' BY <1>1, <3>2, <3>3 DEF Probing
    <3>7. InOrder' /\ Enough' /\ Aligned' /\ Honest'
      BY <3>3 DEF InOrder, Enough, Aligned, Honest
    <3>8. Punctual' BY <3>2, <3>4 DEF Punctual
    <3>9. NoForeignWrites'
      <4>1. DOMAIN todo' = {} BY <3>2
      <4>2. "leftovers" \notin mishaps' => DOMAIN front' = {} BY <1>1, <3>4, EmptySeq
      <4>. QED BY <1>1, <4>1, <4>2 DEF NoForeignWrites
    <3>10. Result'
      <4>1. Outcome' = None BY <1>1, <1>2, <1>6, <2>2 DEF Outcome, Refused
      <4>. QED BY <3>2, <4>1 DEF Result
    <3>. QED BY <3>5, <3>6, <3>7, <3>8, <3>9, <3>10
  <2>3. CASE s.type = 2
    <3>1. /\ dcc' = "push" /\ probe' = "search" /\ index' = 0 /\ byte' = None
          /\ todo' = Copies(VerifyPacket(0), s.count)
      BY <2>1, <2>3 DEF Read, Probe
    <3>2. Groups' = 1 /\ Expected(0)' = VerifyPacket(0) BY <3>1 DEF Groups, Expected
    <3>3. VerifyPacket(0) \in Packets /\ VerifyPacket(0).kind = "verify" BY <1>4, VerifyIsPacket
    <3>4. /\ todo' \in Seq(Packets) /\ \A i \in DOMAIN todo' : todo'[i] = VerifyPacket(0)
          /\ Taken' = 0 - Len(front') /\ Taken' \in Int /\ Taken' <= 0 /\ InOrder'
      BY <1>1, <1>2, <1>3, <3>1, <3>2, <3>3, FreshCopies
    <3>5. \A i \in DOMAIN todo' : OwnWrite(todo[i])' BY <3>3, <3>4 DEF OwnWrite
    <3>. QED BY <1>6, <2>3, <3>1, <3>4, <3>5, FirstProbeInv
  <2>4. CASE s.type \in {1, 3}
    <3>1. /\ dcc' = "push" /\ probe' = "bits" /\ index' = 0 /\ byte' = 0
          /\ todo' = AllBits(s)
      <4>1. s.type # 0 /\ s.type # 2 BY <2>4
      <4>2. Probe("bits", 0, 0, AllBits(s)) BY <2>1, <2>4, <4>1, Zenon DEF Read
      <4>. QED BY <4>2, Zenon DEF Probe
    <3>2. /\ todo' \in Seq(Packets) /\ \A i \in DOMAIN todo' : todo'[i].kind = "bit"
          /\ Taken' = 0 - Len(front') /\ Taken' \in Int /\ Taken' <= 0 /\ InOrder'
      BY <1>1, <1>2, <1>3, <3>1, FreshBits
    <3>3. \A i \in DOMAIN todo' : OwnWrite(todo[i])' BY <3>2 DEF OwnWrite
    <3>. QED BY <1>4, <1>6, <2>4, <3>1, <3>2, <3>3, FirstProbeInv
  <2>. QED BY <1>2, <2>2, <2>3, <2>4
<1>. QED BY <1>5, <1>6

LEMMA InitInv == Init => Inv
<1> SUFFICES ASSUME Init PROVE Inv
  OBVIOUS
<1>1. /\ dcc = "idle" /\ out = "off" /\ req = None /\ set = None
      /\ todo = <<>> /\ front = <<>> /\ rx = <<>> /\ mishaps = {}
      /\ probe = "bits" /\ index = 0 /\ byte = None /\ back = 0 /\ group = 0 /\ ack = FALSE
      /\ flag = FALSE /\ waited = 0 /\ noise = 0 /\ cv \in Values
      /\ cvPacket = VerifyPacket(0)
  BY DEF Init
<1>2. ~Asking BY <1>1 DEF Asking
<1>3. TypeOK
  <2>1. 0 \in 0..MaxByte /\ 0 \in Values BY ValuesNat
  <2>2. VerifyPacket(0) \in Packets BY <2>1, VerifyIsPacket
  <2>3. /\ 0 \in 0..BackPackets /\ 0 \in 0..Repeats /\ 0 \in 0..Timeout /\ 0 \in 0..MaxNoise
        /\ FrontCapacity \in Nat
    BY CvProgrammingAssumption
  <2>4. Len(front) <= FrontCapacity BY <1>1, <2>3, EmptySeq
  <2>5. todo \in Seq(Packets) /\ front \in Seq(Packets) /\ rx \in Seq(BOOLEAN) BY <1>1
  <2>. QED BY <1>1, <2>1, <2>2, <2>3, <2>4, <2>5 DEF TypeOK
<1>4. Probing BY <1>1, <1>2 DEF Probing
<1>5. InOrder /\ Enough /\ Aligned /\ Honest BY <1>2 DEF InOrder, Enough, Aligned, Honest
<1>6. Punctual /\ NoForeignWrites /\ Result BY <1>1 DEF Punctual, NoForeignWrites, Result
<1>. QED BY <1>3, <1>4, <1>5, <1>6 DEF Inv

LEMMA StutterInv ==
    ASSUME Inv, UNCHANGED vars
    PROVE  Inv'
<1> USE DEF Inv, vars, outVars, buffers
<1>0. UNCHANGED dccVars OBVIOUS
<1>1. TypeOK' BY DEF TypeOK, dccVars
<1>2. Acked' = Acked /\ Taken' = Taken
  BY <1>0, SameProbe DEF Acked, Taken
<1>3. Probing' BY <1>0, SameProbe DEF Probing
<1>4. InOrder' BY <1>0, <1>2, InOrderKept
<1>5. Enough' BY <1>0, <1>2, SameProbe DEF Enough
<1>6. Aligned' BY <1>0, <1>2, SameProbe DEF Aligned, Start
<1>7. Punctual' BY <1>0, <1>2, SameProbe DEF Punctual, Slow
<1>8. NoForeignWrites' BY <1>0, SameProbe DEF NoForeignWrites
<1>9. Honest' BY <1>0, <1>2, SameProbe, SameAnswers DEF Honest
<1>10. Result' BY <1>0, SameProbe DEF Result, Misled, Undisturbed, Outcome, Refused
<1>. QED BY <1>1, <1>3, <1>4, <1>5, <1>6, <1>7, <1>8, <1>9, <1>10

LEMMA InvStep == Inv /\ [Next]_vars => Inv'
<1> SUFFICES ASSUME Inv, [Next]_vars PROVE Inv'
  OBVIOUS
<1>1. ASSUME NEW r \in Requests, NEW s \in Settings, Request(r, s) PROVE Inv'
  BY <1>1, RequestInv
<1>2. CASE DccTask BY <1>2, PushInv, ReceiveInv, TimeoutInv, ReplyInv DEF DccTask
<1>3. CASE OutTask
  BY <1>3, StartInv, EndInv, RetryInv, SuspendInv, ResetInv, FirstInv, CopyInv, OtherInv,
     WindowInv, AckInv
     DEF OutTask
<1>4. CASE Cut BY <1>4, CutInv
<1>5. CASE UNCHANGED vars BY <1>5, StutterInv
<1>. QED BY <1>1, <1>2, <1>3, <1>4, <1>5 DEF Next

-----------------------------------------------------------------------------
(* Theorems *)

\* dcc::task (serviceRead, serviceWrite, sendToFront, serviceReceiveBit) and
\* service_loop stay in step: what is in the buffers is what was asked for, in its
\* order and enough of it, each acknowledge belongs to the question it is taken to
\* answer, and without mishaps it is true of the CV.
THEOREM SpecInv == Spec => []Inv
<1>1. Init => Inv BY InitInv
<1>2. Inv /\ [Next]_vars => Inv' BY InvStep
<1>. QED BY <1>1, <1>2, PTL DEF Spec

\* A reply to serviceRead or serviceWrite is the value of the CV, whatever the settings,
\* the timing and the interleaving, but for the cases Misled names.
THEOREM SpecNeverWrong == Spec => []NeverWrong
<1>1. Inv => NeverWrong BY DEF Inv, Result, NeverWrong, Replying
<1>. QED BY <1>1, SpecInv, PTL

\* An access nothing disturbs ends with the CV, or with the refusal the settings mean.
THEOREM SpecComplete == Spec => []Complete
<1>1. Inv => Complete BY DEF Inv, Result, Complete, Replying
<1>. QED BY <1>1, SpecInv, PTL

\* The push into a buffer which nobody empties.
NoIdleSpin == Spinning => flag

\* sendToFront spins for ever only after a short circuit or track power off.
THEOREM SpecNoIdleSpin == Spec => []NoIdleSpin
<1>1. Inv => NoIdleSpin BY DEF Inv, Enough, Asking, Spinning, NoIdleSpin
<1>. QED BY <1>1, SpecInv, PTL

\* What a decoder is made to write is the byte of the request being served.
WritesAsked ==
    [][cv' # cv /\ "leftovers" \notin mishaps => req.op = "write" /\ cv' = req.byte]_vars

\* serviceWrite and the reads: no packet writes a CV which no client asked to be
\* written, unless packets were left over by an access before.
THEOREM SpecWritesAsked == Spec => WritesAsked
<1>1. Inv /\ [Next]_vars =>
        [cv' # cv /\ "leftovers" \notin mishaps => req.op = "write" /\ cv' = req.byte]_vars
  <2> SUFFICES ASSUME Inv, Next, cv' # cv, "leftovers" \notin mishaps
               PROVE  req.op = "write" /\ cv' = req.byte
    OBVIOUS
  <2>1. OutWindow
    BY DEF Next, Request, DccTask, DccPush, DccReceive, DccTimeout, DccReply, OutTask,
           OutStart, OutEnd, OutRetry, OutSuspend, OutReset, OutFirst, OutCopy, OutOther,
           OutAck, Cut
  <2>2. Acts /\ cvPacket.kind = "write" /\ cv' = cvPacket.arg
    BY <2>1, WindowCases DEF Inv
  <2>3. out = "window" /\ dcc # "idle"
    BY <2>1 DEF OutWindow, OutGoto, Inv, Probing
  <2>4. OwnWrite(cvPacket) BY <2>3 DEF Inv, NoForeignWrites
  <2>. QED BY <2>2, <2>4 DEF OwnWrite
<1>. QED BY <1>1, SpecInv, PTL DEF Spec, WritesAsked

=============================================================================
