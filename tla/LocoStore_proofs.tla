--------------------------- MODULE LocoStore_proofs ---------------------------
(***************************************************************************)
(* Proofs about LocoStore: memory and NVS agree, requests keep their       *)
(* promises through orders and restarts, and Z21 clients are informed, for *)
(* any set of addresses and any bounds.                                    *)
(***************************************************************************)
EXTENDS LocoStore, TLAPS

\* Who is between the lock and the unlock, and for which locos.
HttpHolds == httpd.pc \in {"write", "commit"}
Z21Holds == z21.pc \in {"change", "write", "commit"}
Changing(a) == \/ HttpHolds /\ a \in httpd.addrs
               \/ z21.pc \in {"write", "commit"} /\ a = z21.addr

\* The mutex is held by the one who is in the section, and the section has done
\* its part in memory.
MutexInv ==
    /\ mutex = "httpd" <=> HttpHolds
    /\ mutex = "z21" <=> Z21Holds
    /\ mutex = "dcc" <=> dcc # "idle"
    /\ httpd.pc \in {"lock", "write", "commit"} => httpd.method \in {"PUT", "DELETE"}
    /\ HttpHolds /\ httpd.method = "PUT" => httpd.addrs \subseteq known
    /\ HttpHolds /\ httpd.method = "DELETE" => httpd.addrs \cap known = {}
    /\ z21.pc \in {"write", "commit"} => z21.addr \in known

Same(a) == IF a \in saved THEN a \in known /\ nvs[a] = NvLoco(locos[a])
           ELSE locos[a] = DefaultLoco

\* Agreement, for every loco nobody is changing, whoever holds the mutex.
AgreeInv ==
    /\ \A a \in Addrs \ missing : ~Changing(a) => Same(a)
    /\ \A a \in Addrs \ known : locos[a] = DefaultLoco

\* What a promise says of memory, and of NVS unless it refused the last write.
PromiseInv ==
    \A a \in Addrs :
        /\ promise[a] = "given" =>
              /\ a \in known /\ locos[a].name = "given"
              /\ a \notin missing => a \in saved /\ nvs[a].name = "given"
        /\ promise[a] = "absent" =>
              /\ a \notin known
              /\ a \notin missing => a \notin saved
              /\ ~(Z21Holds /\ z21.addr = a)
        /\ promise[a] # "none" => ~(HttpHolds /\ a \in httpd.addrs)

\* An order which has changed a loco has yet to broadcast it.
Due(a) == /\ z21.addr = a
          /\ \/ ChangesState /\ z21.pc \in {"write", "commit"}
             \/ z21.order.op = "info" /\ z21.pc \in {"lock", "change"}
ToldInv == \A a \in told : Due(a) \/ seen[a] = ToInfo(locos[a])

IInv == TypeOK /\ MutexInv /\ AgreeInv /\ PromiseInv /\ ToldInv

-----------------------------------------------------------------------------

LEMMA DataTypes ==
    /\ DefaultLoco \in Locos /\ NoBody \in Bodies /\ Info \in Orders
    /\ \A l \in Locos : NvLoco(l) \in NvLocos /\ ToInfo(l) \in Infos
    /\ \A l \in Locos, b \in Bodies : FromJsonDocument(l, b) \in Locos
    /\ DefaultLoco.name = ""
<1>. USE DEF Locos, Names, Steps, Speeds, Functions
<1>1. DefaultLoco \in Locos /\ DefaultLoco.name = "" BY DEF DefaultLoco
<1>2. NoBody \in Bodies BY DEF Bodies
<1>3. Info \in Orders BY DEF Info, Orders
<1>4. \A l \in Locos : NvLoco(l) \in NvLocos /\ ToInfo(l) \in Infos
  BY DEF NvLoco, NvLocos, ToInfo, Infos
<1>5. \A b \in Bodies :
          /\ b.name \in Names \cup {"keep"} /\ b.steps \in Steps \cup {"keep"}
          /\ b.speed \in Speeds \cup {"keep"} /\ b.func \in Functions \cup {"keep"}
  <2>. SUFFICES ASSUME NEW b \in Bodies
                PROVE  /\ b.name \in Names \cup {"keep"} /\ b.steps \in Steps \cup {"keep"}
                       /\ b.speed \in Speeds \cup {"keep"}
                       /\ b.func \in Functions \cup {"keep"}
    OBVIOUS
  <2>1. CASE b = NoBody BY <2>1 DEF NoBody
  <2>2. CASE b = [NoBody EXCEPT !.name = "given"] BY <2>2 DEF NoBody
  <2>3. CASE b = [NoBody EXCEPT !.name = "", !.speed = "go"] BY <2>3 DEF NoBody
  <2>4. CASE b = [NoBody EXCEPT !.steps = "28", !.func = "on"] BY <2>4 DEF NoBody
  <2>. QED BY <2>1, <2>2, <2>3, <2>4 DEF Bodies
<1>6. ASSUME NEW l \in Locos, NEW b \in Bodies
      PROVE  FromJsonDocument(l, b) \in Locos
  BY <1>5 DEF FromJsonDocument
<1>. QED BY <1>1, <1>2, <1>3, <1>4, <1>6

LEMMA NamedLoco ==
    ASSUME NEW l \in Locos
    PROVE  /\ Named(l) \in Locos /\ ToInfo(Named(l)) = ToInfo(l)
           /\ l.name = "given" => Named(l).name = "given"
BY DEF Named, ToInfo, Locos, Names

\* An order changes speed steps, speed or functions, and leaves the name alone.
LEMMA OrderedLoco ==
    ASSUME TypeOK, NEW l \in Locos
    PROVE  /\ Ordered(l) \in Locos /\ Ordered(l).name = l.name
           /\ z21.order.op \in {"mode", "info"} => Ordered(l) = l
           /\ ~ChangesState <=> z21.order.op \in {"mode", "info"}
<1>1. z21.order \in Orders BY DEF TypeOK
<1>. QED BY <1>1 DEF Orders, Ordered, Drive, Function, Locos, ChangesState, Speeds,
                    Steps, Functions

LEMMA OrderKinds ==
    ASSUME TypeOK
    PROVE  z21.order.op \in {"mode", "info"} <=> ~ChangesState
BY DEF TypeOK, Orders, ChangesState

LEMMA InitIInv == Init => IInv
<1>. SUFFICES ASSUME Init PROVE IInv OBVIOUS
<1>. USE LocoStoreAssumption DEF Init, LocoStoreAssumption
<1>0. PICK a0 \in Addrs : z21 = [pc |-> "idle", order |-> Info, addr |-> a0] OBVIOUS
<1>1. TypeOK
  <2>1. httpd \in [pc : {"idle", "get", "lock", "write", "commit"},
                   method : Methods, addrs : SUBSET Addrs, body : Bodies]
    BY DataTypes DEF Idle, Methods
  <2>2. z21 \in [pc : {"idle", "lock", "change", "write", "commit"},
                 order : Orders, addr : Addrs] BY DataTypes, <1>0
  <2>3. calls \in 0..MaxCalls /\ failures \in 0..MaxFailures /\ restarts \in 0..MaxRestarts
    OBVIOUS
  <2>. QED BY DataTypes, <2>1, <2>2, <2>3 DEF TypeOK
<1>2. MutexInv BY <1>0 DEF MutexInv, HttpHolds, Z21Holds, Idle
<1>3. AgreeInv BY DataTypes DEF AgreeInv, Same
<1>4. PromiseInv BY DataTypes DEF PromiseInv
<1>5. ToldInv BY DataTypes DEF ToldInv
<1>. QED BY <1>1, <1>2, <1>3, <1>4, <1>5 DEF IInv

LEMMA RequestStep ==
    ASSUME IInv, NEW m \in Methods, NEW A \in SUBSET Addrs, NEW b \in Bodies,
           Request(m, A, b)
    PROVE  IInv'
<1>. USE DEF IInv, Request, Call, memory, flash, clients, bounds
<1>1. TypeOK'
  <2>1. calls' \in 0..MaxCalls BY LocoStoreAssumption DEF LocoStoreAssumption, TypeOK
  <2>. QED BY DataTypes, <2>1 DEF TypeOK, Methods
<1>2. MutexInv' BY DEF TypeOK, Methods, MutexInv, HttpHolds, Z21Holds
<1>3. AgreeInv' BY DataTypes DEF TypeOK, MutexInv, AgreeInv, Same, Changing, HttpHolds, Z21Holds
<1>4. PromiseInv' BY DataTypes DEF TypeOK, MutexInv, PromiseInv, HttpHolds, Z21Holds
<1>5. ToldInv' BY DataTypes DEF TypeOK, MutexInv, ToldInv, Due, ChangesState
<1>. QED BY <1>1, <1>2, <1>3, <1>4, <1>5

LEMMA LocosGetRequestStep ==
    ASSUME IInv, NEW a \in Addrs, NEW found \in BOOLEAN,
           LocosGetRequest(a, found)
    PROVE  IInv'
<1>. USE DEF IInv, LocosGetRequest, Idle, memory, flash, clients, bounds
<1>1. TypeOK' BY DataTypes DEF TypeOK, Methods
<1>2. MutexInv' BY DEF TypeOK, MutexInv, HttpHolds, Z21Holds
<1>3. AgreeInv' BY DataTypes DEF TypeOK, MutexInv, AgreeInv, Same, Changing, HttpHolds, Z21Holds
<1>4. PromiseInv' BY DataTypes DEF TypeOK, MutexInv, PromiseInv, HttpHolds, Z21Holds
<1>5. ToldInv' BY DataTypes DEF TypeOK, MutexInv, ToldInv, Due, ChangesState
<1>. QED BY <1>1, <1>2, <1>3, <1>4, <1>5

LEMMA LocosPutRequestStep ==
    ASSUME IInv, LocosPutRequest
    PROVE  IInv'
<1>. USE DEF IInv, LocosPutRequest, HttpLock, Untell, flash, bounds
<1>1. TypeOK' BY DataTypes DEF TypeOK, Methods
<1>2. MutexInv' BY DEF TypeOK, MutexInv, HttpHolds, Z21Holds
<1>3. AgreeInv' BY DataTypes DEF TypeOK, MutexInv, AgreeInv, Same, Changing, HttpHolds, Z21Holds
<1>4. PromiseInv' BY DataTypes DEF TypeOK, MutexInv, PromiseInv, HttpHolds, Z21Holds
<1>5. ToldInv' BY DataTypes DEF TypeOK, MutexInv, ToldInv, Due, ChangesState
<1>. QED BY <1>1, <1>2, <1>3, <1>4, <1>5

LEMMA LocosDeleteRequestStep ==
    ASSUME IInv, LocosDeleteRequest
    PROVE  IInv'
<1>. USE DEF IInv, LocosDeleteRequest, HttpLock, Untell, flash, bounds
<1>1. TypeOK' BY DataTypes DEF TypeOK, Methods
<1>2. MutexInv' BY DEF TypeOK, MutexInv, HttpHolds, Z21Holds
<1>3. AgreeInv' BY DataTypes DEF TypeOK, MutexInv, AgreeInv, Same, Changing, HttpHolds, Z21Holds
<1>4. PromiseInv' BY DataTypes DEF TypeOK, MutexInv, PromiseInv, HttpHolds, Z21Holds
<1>5. ToldInv' BY DataTypes DEF TypeOK, MutexInv, ToldInv, Due, ChangesState
<1>. QED BY <1>1, <1>2, <1>3, <1>4, <1>5

LEMMA HttpWriteStep ==
    ASSUME IInv, HttpWrite
    PROVE  IInv'
<1>. USE DEF IInv, HttpWrite, memory, flash, clients, bounds
<1>1. TypeOK' BY DataTypes DEF TypeOK, Methods
<1>2. MutexInv' BY DEF TypeOK, MutexInv, HttpHolds, Z21Holds
<1>3. AgreeInv' BY DataTypes DEF TypeOK, MutexInv, AgreeInv, Same, Changing, HttpHolds, Z21Holds
<1>4. PromiseInv' BY DataTypes DEF TypeOK, MutexInv, PromiseInv, HttpHolds, Z21Holds
<1>5. ToldInv' BY DataTypes DEF TypeOK, MutexInv, ToldInv, Due, ChangesState
<1>. QED BY <1>1, <1>2, <1>3, <1>4, <1>5

LEMMA HttpRefusedStep ==
    ASSUME IInv, HttpRefused
    PROVE  IInv'
<1>. USE DEF IInv, HttpRefused, NvsRefuses, HttpAnswer, Idle, memory, clients
<1>1. TypeOK'
  <2>1. failures' \in 0..MaxFailures BY LocoStoreAssumption DEF LocoStoreAssumption, TypeOK
  <2>. QED BY DataTypes, <2>1 DEF TypeOK, Methods
<1>2. MutexInv' BY DEF TypeOK, MutexInv, HttpHolds, Z21Holds
<1>3. AgreeInv' BY DataTypes DEF TypeOK, MutexInv, AgreeInv, Same, Changing, HttpHolds, Z21Holds
<1>4. PromiseInv' BY DataTypes DEF TypeOK, MutexInv, PromiseInv, HttpHolds, Z21Holds
<1>5. ToldInv' BY DataTypes DEF TypeOK, MutexInv, ToldInv, Due, ChangesState
<1>. QED BY <1>1, <1>2, <1>3, <1>4, <1>5

LEMMA HttpCommitStep ==
    ASSUME IInv, HttpCommit
    PROVE  IInv'
<1>. USE DEF IInv
<1>1. /\ httpd.pc = "commit" /\ httpd.method \in {"PUT", "DELETE"}
      /\ httpd.addrs \subseteq Addrs /\ \A a \in Addrs : locos[a] \in Locos
      /\ httpd' = Idle /\ mutex' = "free" /\ missing' = missing \ httpd.addrs
      /\ UNCHANGED <<locos, known, dcc, z21, seen, told, calls, failures, restarts>>
  BY DEF HttpCommit, HttpAnswer, memory, clients, bounds, TypeOK, MutexInv
<1>2. /\ Idle.pc = "idle" /\ Idle \in [pc : {"idle", "get", "lock", "write", "commit"},
                  method : Methods, addrs : SUBSET Addrs, body : Bodies]
  BY DataTypes DEF Idle, Methods
<1>3. CASE httpd.method = "PUT"
  <2>1. /\ nvs' = [a \in Addrs |-> IF a \in httpd.addrs THEN NvLoco(locos[a]) ELSE nvs[a]]
        /\ saved' = saved \cup httpd.addrs
        /\ promise' = [a \in Addrs |->
                        IF a \notin httpd.addrs THEN promise[a]
                        ELSE IF locos[a].name = "given" THEN "given" ELSE "none"]
    BY <1>3 DEF HttpCommit, HttpAnswer, NvsSet
  <2>2. TypeOK'
    <3>1. nvs' \in [Addrs -> NvLocos] BY DataTypes, <1>1, <2>1 DEF TypeOK
    <3>. QED BY <1>1, <1>2, <2>1, <3>1 DEF TypeOK
  <2>3. MutexInv' BY <1>1, <1>2 DEF MutexInv, HttpHolds, Z21Holds
  <2>4. AgreeInv'
    BY <1>1, <1>2, <1>3, <2>1 DEF TypeOK, MutexInv, AgreeInv, Same, Changing, HttpHolds,
       Z21Holds
  <2>5. PromiseInv'
    BY <1>1, <1>2, <1>3, <2>1 DEF TypeOK, MutexInv, PromiseInv, HttpHolds, Z21Holds, NvLoco
  <2>6. ToldInv' BY <1>1 DEF ToldInv, Due, ChangesState
  <2>. QED BY <2>2, <2>3, <2>4, <2>5, <2>6
<1>4. CASE httpd.method = "DELETE"
  <2>1. /\ nvs' = [a \in Addrs |->
                    IF a \in httpd.addrs THEN NvLoco(DefaultLoco) ELSE nvs[a]]
        /\ saved' = saved \ httpd.addrs
        /\ promise' = [a \in Addrs |->
                        IF a \notin httpd.addrs THEN promise[a]
                        ELSE IF z21.pc # "idle" /\ z21.addr = a THEN "none" ELSE "absent"]
    BY <1>4 DEF HttpCommit, HttpAnswer, NvsErase
  <2>2. TypeOK'
    <3>1. nvs' \in [Addrs -> NvLocos] BY DataTypes, <1>1, <2>1 DEF TypeOK
    <3>. QED BY <1>1, <1>2, <2>1, <3>1 DEF TypeOK
  <2>3. MutexInv' BY <1>1, <1>2 DEF MutexInv, HttpHolds, Z21Holds
  <2>4. AgreeInv'
    BY <1>1, <1>2, <1>4, <2>1 DEF TypeOK, MutexInv, AgreeInv, Same, Changing, HttpHolds,
       Z21Holds
  <2>5. PromiseInv'
    BY <1>1, <1>2, <1>4, <2>1 DEF TypeOK, MutexInv, PromiseInv, HttpHolds, Z21Holds
  <2>6. ToldInv' BY <1>1 DEF ToldInv, Due, ChangesState
  <2>. QED BY <2>2, <2>3, <2>4, <2>5, <2>6
<1>. QED BY <1>1, <1>3, <1>4

LEMMA Z21ReceiveStep ==
    ASSUME IInv, NEW o \in Orders, NEW a \in Addrs, Z21Receive(o, a)
    PROVE  IInv'
<1>. USE DEF IInv, Z21Receive, Call, memory, flash, clients
<1>1. TypeOK'
  <2>1. calls' \in 0..MaxCalls BY LocoStoreAssumption DEF LocoStoreAssumption, TypeOK
  <2>. QED BY DataTypes, <2>1 DEF TypeOK, Methods
<1>2. MutexInv' BY DEF TypeOK, MutexInv, HttpHolds, Z21Holds
<1>3. AgreeInv' BY DataTypes DEF TypeOK, MutexInv, AgreeInv, Same, Changing, HttpHolds, Z21Holds
<1>4. PromiseInv' BY DataTypes DEF TypeOK, MutexInv, PromiseInv, HttpHolds, Z21Holds
<1>5. ToldInv' BY DataTypes DEF TypeOK, MutexInv, ToldInv, Due, ChangesState
<1>. QED BY <1>1, <1>2, <1>3, <1>4, <1>5

LEMMA Z21LockStep ==
    ASSUME IInv, Z21Lock
    PROVE  IInv'
<1>. USE DEF IInv, Z21Lock, memory, flash, clients, bounds
<1>1. TypeOK' BY DataTypes DEF TypeOK, Methods
<1>2. MutexInv' BY DEF TypeOK, MutexInv, HttpHolds, Z21Holds
<1>3. AgreeInv' BY DataTypes DEF TypeOK, MutexInv, AgreeInv, Same, Changing, HttpHolds, Z21Holds
<1>4. PromiseInv' BY DataTypes, ZenonT(30) DEF TypeOK, MutexInv, PromiseInv, HttpHolds, Z21Holds
<1>5. ToldInv' BY DataTypes DEF TypeOK, MutexInv, ToldInv, Due, ChangesState
<1>. QED BY <1>1, <1>2, <1>3, <1>4, <1>5

LEMMA Z21NothingStep ==
    ASSUME IInv, Z21Nothing
    PROVE  IInv'
<1>. USE DEF IInv, Z21Nothing, flash, clients, bounds
<1>1. TypeOK' BY DataTypes DEF TypeOK, Methods
<1>2. MutexInv' BY DEF TypeOK, MutexInv, HttpHolds, Z21Holds
<1>3. AgreeInv' BY DataTypes DEF TypeOK, MutexInv, AgreeInv, Same, Changing, HttpHolds, Z21Holds
<1>4. PromiseInv' BY DataTypes DEF TypeOK, MutexInv, PromiseInv, HttpHolds, Z21Holds
<1>5. ToldInv' BY DataTypes DEF TypeOK, MutexInv, ToldInv, Due, ChangesState
<1>. QED BY <1>1, <1>2, <1>3, <1>4, <1>5

LEMMA Z21ChangeStep ==
    ASSUME IInv, Z21Change
    PROVE  IInv'
<1> DEFINE old == locos[z21.addr]
           new == Named(Ordered(old))
<1>. USE DEF IInv
<1>1. old \in Locos /\ z21.addr \in Addrs BY DEF TypeOK
<1>2. Ordered(old) \in Locos /\ Ordered(old).name = old.name
  BY <1>1, OrderedLoco
<1>3. ~ChangesState => Ordered(old) = old BY <1>1, OrderedLoco
<1>4. /\ new \in Locos /\ (old.name = "given" => new.name = "given")
      /\ (~ChangesState => ToInfo(new) = ToInfo(old))
  BY <1>2, <1>3, NamedLoco
<1>5. /\ z21.pc = "change" /\ locos' = [locos EXCEPT ![z21.addr] = new]
      /\ known' = known \cup {z21.addr} /\ z21' = [z21 EXCEPT !.pc = "write"]
      /\ IF z21.order.op = "info"
         THEN /\ seen' = [seen EXCEPT ![z21.addr] = ToInfo(new)]
              /\ told' = told \cup {z21.addr}
         ELSE UNCHANGED <<seen, told>>
      /\ UNCHANGED <<nvs, saved, missing, mutex, dcc, httpd, promise, calls, failures,
                     restarts>>
  <2>1. z21.order.op = "info" => ToInfo(new) = ToInfo(old)
    BY <1>4, OrderKinds
  <2>. QED BY <2>1 DEF Z21Change, flash, clients, bounds
<1>6. ToInfo(new) \in Infos BY <1>4, DataTypes
<1>. HIDE DEF new
<1>7. TypeOK' BY <1>1, <1>4, <1>5, <1>6 DEF TypeOK
<1>8. MutexInv' BY <1>5 DEF TypeOK, MutexInv, HttpHolds, Z21Holds
<1>9. AgreeInv' BY <1>1, <1>5 DEF TypeOK, MutexInv, AgreeInv, Same, Changing, HttpHolds,
                             Z21Holds
<1>10. PromiseInv'
  BY <1>1, <1>4, <1>5 DEF TypeOK, MutexInv, PromiseInv, HttpHolds, Z21Holds
<1>11. ToldInv'
  BY <1>1, <1>4, <1>5, OrderKinds DEF TypeOK, ToldInv, Due, ChangesState
<1>. QED BY <1>7, <1>8, <1>9, <1>10, <1>11

LEMMA Z21WriteStep ==
    ASSUME IInv, Z21Write
    PROVE  IInv'
<1>. USE DEF IInv, Z21Write, memory, flash, clients, bounds
<1>1. TypeOK' BY DataTypes DEF TypeOK, Methods
<1>2. MutexInv' BY DEF TypeOK, MutexInv, HttpHolds, Z21Holds
<1>3. AgreeInv' BY DataTypes DEF TypeOK, MutexInv, AgreeInv, Same, Changing, HttpHolds, Z21Holds
<1>4. PromiseInv' BY DataTypes DEF TypeOK, MutexInv, PromiseInv, HttpHolds, Z21Holds
<1>5. ToldInv' BY DataTypes DEF TypeOK, MutexInv, ToldInv, Due, ChangesState
<1>. QED BY <1>1, <1>2, <1>3, <1>4, <1>5

LEMMA Z21RefusedStep ==
    ASSUME IInv, Z21Refused
    PROVE  IInv'
<1>. USE DEF IInv, Z21Refused, NvsRefuses, Z21Unlock, memory, clients
<1>1. TypeOK'
  <2>1. failures' \in 0..MaxFailures BY LocoStoreAssumption DEF LocoStoreAssumption, TypeOK
  <2>. QED BY DataTypes, <2>1 DEF TypeOK, Methods
<1>2. MutexInv' BY DEF TypeOK, MutexInv, HttpHolds, Z21Holds
<1>3. AgreeInv' BY DataTypes DEF TypeOK, MutexInv, AgreeInv, Same, Changing, HttpHolds, Z21Holds
<1>4. PromiseInv' BY DataTypes DEF TypeOK, MutexInv, PromiseInv, HttpHolds, Z21Holds
<1>5. ToldInv' BY DataTypes, OrderKinds DEF Info, TypeOK, MutexInv, ToldInv, Due, ChangesState
<1>. QED BY <1>1, <1>2, <1>3, <1>4, <1>5

LEMMA Z21CommitStep ==
    ASSUME IInv, Z21Commit
    PROVE  IInv'
<1>. USE DEF IInv, Z21Commit, NvsSet, Z21Unlock, memory, clients, bounds
<1>1. TypeOK' BY DataTypes DEF TypeOK, Methods
<1>2. MutexInv' BY DEF TypeOK, MutexInv, HttpHolds, Z21Holds
<1>3. AgreeInv' BY DataTypes DEF TypeOK, MutexInv, AgreeInv, Same, Changing, HttpHolds, Z21Holds
<1>4. PromiseInv' BY DataTypes DEF NvLoco, TypeOK, MutexInv, PromiseInv, HttpHolds, Z21Holds
<1>5. ToldInv' BY DataTypes, OrderKinds DEF Info, TypeOK, MutexInv, ToldInv, Due, ChangesState
<1>. QED BY <1>1, <1>2, <1>3, <1>4, <1>5

LEMMA DccStep ==
    ASSUME IInv, DccLock \/ DccReturn \/ DccStuck
    PROVE  IInv'
<1>. USE DEF IInv
<1>1. /\ UNCHANGED <<locos, known, nvs, saved, missing, httpd, z21, seen, told, promise,
                     calls, failures, restarts>>
      /\ mutex' \in {"free", "httpd", "z21", "dcc"} /\ dcc' \in {"idle", "pass", "stuck"}
  BY DEF DccLock, DccReturn, DccStuck, dccElse, memory, flash, clients, bounds, TypeOK
<1>2. TypeOK' BY <1>1 DEF TypeOK
<1>3. MutexInv'
  <2>1. CASE DccLock BY <1>1, <2>1 DEF DccLock, MutexInv, HttpHolds, Z21Holds
  <2>2. CASE DccReturn BY <1>1, <2>2 DEF DccReturn, MutexInv, HttpHolds, Z21Holds
  <2>3. CASE DccStuck BY <1>1, <2>3 DEF DccStuck, MutexInv, HttpHolds, Z21Holds
  <2>. QED BY <2>1, <2>2, <2>3
<1>4. AgreeInv' BY <1>1 DEF AgreeInv, Same, Changing, HttpHolds
<1>5. PromiseInv' BY <1>1 DEF PromiseInv, HttpHolds, Z21Holds
<1>6. ToldInv' BY <1>1 DEF ToldInv, Due, ChangesState
<1>. QED BY <1>2, <1>3, <1>4, <1>5, <1>6

\* The staged write is there or not, or all is erased: either way memory starts as NVS is.
LEMMA RestartStep ==
    ASSUME IInv, Restart
    PROVE  IInv'
<1>. USE DEF IInv
<1>1. /\ restarts' \in 0..MaxRestarts
      /\ missing' = {} /\ known' = saved' /\ told' = told \ Addrs
      /\ locos' = [a \in Addrs |->
                    IF a \in saved'
                    THEN [DefaultLoco EXCEPT !.name = nvs'[a].name, !.steps = nvs'[a].steps]
                    ELSE DefaultLoco]
      /\ mutex' = "free" /\ httpd' = Idle
      /\ z21' = [z21 EXCEPT !.pc = "idle", !.order = Info]
      /\ seen' = [a \in Addrs |-> IF a \in Addrs THEN ToInfo(DefaultLoco) ELSE seen[a]]
      /\ dcc' = "idle" /\ UNCHANGED <<calls, failures>>
  <2>1. restarts' \in 0..MaxRestarts
    <3>1. restarts \in 0..MaxRestarts /\ restarts < MaxRestarts /\ restarts' = restarts + 1
      BY DEF Restart, TypeOK
    <3>. QED BY <3>1, LocoStoreAssumption DEF LocoStoreAssumption
  <2>. QED BY <2>1 DEF Restart, Untell
<1>2. /\ Idle.pc = "idle" /\ Idle \in [pc : {"idle", "get", "lock", "write", "commit"},
                  method : Methods, addrs : SUBSET Addrs, body : Bodies]
  BY DataTypes DEF Idle, Methods
<1>0. PICK erased \in BOOLEAN :
          /\ IF erased THEN NvsErase(Addrs) ELSE Staged
          /\ promise' = [a \in Addrs |->
                          IF erased \/ a \in missing THEN "none" ELSE promise[a]]
  BY DEF Restart
<1>3. /\ nvs' \in [Addrs -> NvLocos] /\ saved' \in SUBSET Addrs
      /\ promise' \in [Addrs -> {"none", "absent", "given"}]
      /\ \A a \in Addrs :
            /\ promise'[a] = "given" => a \in saved' /\ nvs'[a].name = "given"
            /\ promise'[a] = "absent" => a \notin saved'
  <2>0. httpd.addrs \subseteq Addrs /\ z21.addr \in Addrs
        /\ (\A a \in Addrs : locos[a] \in Locos)
        /\ promise \in [Addrs -> {"none", "absent", "given"}]
    BY DEF TypeOK
  <2>1. CASE erased
    <3>1. NvsErase(Addrs) /\ promise' = [a \in Addrs |-> "none"] BY <1>0, <2>1
    <3>2. nvs' \in [Addrs -> NvLocos] BY <2>0, <3>1, DataTypes DEF NvsErase, TypeOK
    <3>3. saved' \in SUBSET Addrs BY <3>1 DEF NvsErase, TypeOK
    <3>. QED BY <3>1, <3>2, <3>3
  <2>2. CASE ~erased
    <3>1. Staged BY <1>0, <2>2
    <3>2. promise' = [a \in Addrs |-> IF a \in missing THEN "none" ELSE promise[a]]
      BY <1>0, <2>2
    <3>3. /\ nvs' \in [Addrs -> NvLocos] /\ saved' \in SUBSET Addrs
          /\ \A a \in Addrs \ missing :
                /\ promise[a] = "given" => a \in saved' /\ nvs'[a].name = "given"
                /\ promise[a] = "absent" => a \notin saved'
      <4>1. CASE UNCHANGED <<nvs, saved>> BY <4>1 DEF TypeOK, PromiseInv
      <4>2. CASE httpd.pc = "commit" /\ NvsSet(httpd.addrs)
        <5>1. nvs' \in [Addrs -> NvLocos] BY <2>0, <4>2, DataTypes DEF NvsSet, TypeOK
        <5>. QED BY <2>0, <4>2, <5>1 DEF NvsSet, TypeOK, PromiseInv, HttpHolds
      <4>3. CASE httpd.pc = "commit" /\ NvsErase(httpd.addrs)
        <5>1. nvs' \in [Addrs -> NvLocos] BY <2>0, <4>3, DataTypes DEF NvsErase, TypeOK
        <5>. QED BY <2>0, <4>3, <5>1 DEF NvsErase, TypeOK, PromiseInv, HttpHolds
      <4>4. CASE z21.pc = "commit" /\ NvsSet({z21.addr})
        <5>1. nvs' \in [Addrs -> NvLocos] BY <2>0, <4>4, DataTypes DEF NvsSet, TypeOK
        <5>. QED BY <2>0, <4>4, <5>1 DEF NvsSet, TypeOK, PromiseInv, Z21Holds, NvLoco
      <4>. QED BY <3>1, <4>1, <4>2, <4>3, <4>4 DEF Staged
    <3>. QED BY <2>0, <3>2, <3>3
  <2>. QED BY <2>1, <2>2
<1>4. \A a \in Addrs :
          /\ locos'[a] \in Locos
          /\ a \in saved' => NvLoco(locos'[a]) = nvs'[a] /\ locos'[a].name = nvs'[a].name
          /\ a \notin saved' => locos'[a] = DefaultLoco
  <2>. SUFFICES ASSUME NEW a \in Addrs
                PROVE  /\ locos'[a] \in Locos
                       /\ a \in saved' => /\ NvLoco(locos'[a]) = nvs'[a]
                                          /\ locos'[a].name = nvs'[a].name
                       /\ a \notin saved' => locos'[a] = DefaultLoco
    OBVIOUS
  <2>1. nvs'[a] \in NvLocos BY <1>3
  <2>2. CASE a \in saved'
    <3>1. locos'[a] = [DefaultLoco EXCEPT !.name = nvs'[a].name, !.steps = nvs'[a].steps]
      BY <1>1, <2>2
    <3>. QED BY <2>1, <2>2, <3>1 DEF DefaultLoco, Locos, NvLocos, NvLoco, Speeds, Functions
  <2>3. CASE a \notin saved' BY <1>1, <2>3, DataTypes
  <2>. QED BY <2>2, <2>3
<1>5. TypeOK'
  <2>1. locos' \in [Addrs -> Locos] BY <1>1, <1>4
  <2>2. z21' \in [pc : {"idle", "lock", "change", "write", "commit"},
                 order : Orders, addr : Addrs] BY <1>1, DataTypes DEF TypeOK
  <2>3. seen' \in [Addrs -> Infos] BY <1>1, DataTypes
  <2>. QED BY <1>1, <1>2, <1>3, <2>1, <2>2, <2>3 DEF TypeOK
<1>6. z21'.pc = "idle" BY <1>1 DEF TypeOK
<1>7. MutexInv' BY <1>1, <1>2, <1>6 DEF MutexInv, HttpHolds, Z21Holds
<1>8. AgreeInv' BY <1>1, <1>3, <1>4 DEF AgreeInv, Same
<1>9. PromiseInv'
  BY <1>1, <1>2, <1>3, <1>4, <1>6 DEF PromiseInv, HttpHolds, Z21Holds
<1>10. ToldInv' BY <1>1 DEF TypeOK, ToldInv
<1>. QED BY <1>5, <1>7, <1>8, <1>9, <1>10

LEMMA StepIInv == IInv /\ [Next]_vars => IInv'
<1>. SUFFICES ASSUME IInv, [Next]_vars PROVE IInv' OBVIOUS
<1>1. ASSUME NEW m \in Methods, NEW A \in {{a} : a \in Addrs} \cup {Addrs},
             NEW b \in Bodies, Request(m, A, b)
      PROVE  IInv'
  <2>1. A \in SUBSET Addrs OBVIOUS
  <2>. QED BY <1>1, <2>1, RequestStep
<1>2. ASSUME NEW a \in Addrs, NEW found \in BOOLEAN, LocosGetRequest(a, found)
      PROVE  IInv'
  BY <1>2, LocosGetRequestStep
<1>3. CASE LocosPutRequest BY <1>3, LocosPutRequestStep
<1>4. CASE LocosDeleteRequest BY <1>4, LocosDeleteRequestStep
<1>5. CASE HttpWrite BY <1>5, HttpWriteStep
<1>6. CASE HttpRefused BY <1>6, HttpRefusedStep
<1>7. CASE HttpCommit BY <1>7, HttpCommitStep
<1>8. ASSUME NEW o \in Orders, NEW a \in Addrs, Z21Receive(o, a) PROVE IInv'
  BY <1>8, Z21ReceiveStep
<1>9. CASE Z21Lock BY <1>9, Z21LockStep
<1>10. CASE Z21Nothing BY <1>10, Z21NothingStep
<1>11. CASE Z21Change BY <1>11, Z21ChangeStep
<1>12. CASE Z21Write BY <1>12, Z21WriteStep
<1>13. CASE Z21Refused BY <1>13, Z21RefusedStep
<1>14. CASE Z21Commit BY <1>14, Z21CommitStep
<1>15. CASE Restart BY <1>15, RestartStep
<1>17. CASE DccLock \/ DccReturn \/ DccStuck BY <1>17, DccStep
<1>16. CASE UNCHANGED vars
  BY <1>16 DEF vars, memory, flash, clients, bounds, IInv, TypeOK, MutexInv, AgreeInv,
     PromiseInv, ToldInv, Same, Changing, HttpHolds, Z21Holds, Due, ChangesState
<1>. QED BY <1>1, <1>2, <1>3, <1>4, <1>5, <1>6, <1>7, <1>8, <1>9, <1>10, <1>11, <1>12,
            <1>13, <1>14, <1>15, <1>16, <1>17 DEF Next

\* Who holds the mutex, what it is in the middle of, and what NVS and the clients know of
\* it, after every step of an HTTP or Z21 call and after a restart.
THEOREM SpecIInv == Spec => []IInv
BY InitIInv, StepIInv, PTL DEF Spec

\* Types, and the agreement of _locos and NVS whenever the mutex is free.
THEOREM SpecInv == Spec => []Inv
<1>1. IInv => Inv
  BY DEF IInv, Inv, Agreement, AgreeInv, MutexInv, Changing, Same, HttpHolds, Z21Holds
<1>. QED BY <1>1, SpecIInv, PTL

\* Between orders, Z21 clients know how the locos run which they were told about.
THEOREM SpecInformed == Spec => []Informed
<1>1. IInv => Informed BY DEF IInv, Informed, ToldInv, Due
<1>. QED BY <1>1, SpecIInv, PTL

\* A GET never contradicts the last PUT or DELETE, through orders, failures of
\* other writes and restarts, until a start-up finds that it has to erase NVS.
THEOREM SpecGetKeepsPromise == Spec => GetKeepsPromise
<1>1. IInv /\ [Next]_vars =>
        [\A a \in Addrs : \A found \in BOOLEAN :
           LocosGetRequest(a, found) => Kept(a, found)]_vars
  BY DEF IInv, PromiseInv, Kept, LocosGetRequest, Found
<1>. QED BY <1>1, SpecIInv, PTL DEF Spec, GetKeepsPromise
=============================================================================
