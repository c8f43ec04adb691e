------------------------------ MODULE LocoStore ------------------------------
(***************************************************************************)
(* The map dcc::Service::_locos and its copy in the NVS namespace "locos". *)
(* The HTTP server puts, deletes and gets locos; orders of Z21 clients     *)
(* create, drive and switch them, and the other clients are told.  All but *)
(* GET take _internal_mutex, and so does operationsDcc of dcc::task, which *)
(* refreshes the locos and may stay in a pass for ever (DccScheduler).     *)
(* Names and speed steps survive a restart unless the start-up erases NVS, *)
(* all the rest is lost with the memory.                                   *)
(*                                                                         *)
(* The HTTP server answers one request after the other, and the Z21        *)
(* service executes one order after the other under a mutex of its own:    *)
(* one process each, besides dcc::task.                                    *)
(***************************************************************************)
EXTENDS Integers, FiniteSets

CONSTANTS
    Addrs,         \* addresses of locos
    MaxCalls,      \* requests and orders
    MaxFailures,   \* writes which NVS refuses
    MaxRestarts

ASSUME LocoStoreAssumption ==
    MaxCalls \in Nat /\ MaxFailures \in Nat /\ MaxRestarts \in Nat

\* An empty name, the address as text, and a name a user gave.
Names == {"", "number", "given"}
Steps == {"28", "128"}
Speeds == {"stop", "go"}
Functions == {"off", "on"}
Locos == [name : Names, steps : Steps, speed : Speeds, func : Functions]
NvLocos == [name : Names, steps : Steps]
DefaultLoco == [name |-> "", steps |-> "128", speed |-> "stop", func |-> "off"]

NvLoco(l) == [name |-> l.name, steps |-> l.steps]
Infos == [steps : Steps, speed : Speeds, func : Functions]
ToInfo(l) == [steps |-> l.steps, speed |-> l.speed, func |-> l.func]

\* A body names any of the fields; these differ in what they leave out.
NoBody == [name |-> "keep", steps |-> "keep", speed |-> "keep", func |-> "keep"]
Bodies == {NoBody,
           [NoBody EXCEPT !.name = "given"],
           [NoBody EXCEPT !.name = "", !.speed = "go"],
           [NoBody EXCEPT !.steps = "28", !.func = "on"]}
\* An order; "mode" and "info" only ask.
Orders == [op : {"mode", "info"}, steps : {"128"}, value : {"off"}]
            \cup [op : {"drive"}, steps : Steps, value : Speeds]
            \cup [op : {"function"}, steps : {"128"}, value : Functions]
Info == [op |-> "info", steps |-> "128", value |-> "off"]

VARIABLES
    locos, known,      \* _locos: the locos and the addresses it holds
    nvs, saved,        \* the namespace "locos" likewise
    mutex,             \* _internal_mutex
    dcc,               \* dcc::task: outside of operationsDcc, in it, or in it for ever
    httpd,             \* the request: pc, method, addresses and body
    z21,               \* the order: pc, order and address
    seen, told,        \* what the Z21 clients were told last, and about which
                       \* locos since these were put, deleted or restarted
    promise,           \* history: what the last request for a loco left behind
    missing,           \* history: locos whose last write was refused
    calls, failures, restarts    \* bounds

memory == <<locos, known>>
flash == <<nvs, saved, missing>>
clients == <<seen, told>>
bounds == <<calls, failures, restarts>>
vars == <<memory, flash, mutex, dcc, httpd, z21, clients, promise, bounds>>

Methods == {"GET", "PUT", "DELETE"}

TypeOK ==
    /\ locos \in [Addrs -> Locos] /\ known \in SUBSET Addrs
    /\ nvs \in [Addrs -> NvLocos] /\ saved \in SUBSET Addrs
    /\ mutex \in {"free", "httpd", "z21", "dcc"} /\ dcc \in {"idle", "pass", "stuck"}
    /\ httpd \in [pc : {"idle", "get", "lock", "write", "commit"},
                  method : Methods, addrs : SUBSET Addrs, body : Bodies]
    /\ z21 \in [pc : {"idle", "lock", "change", "write", "commit"},
                order : Orders, addr : Addrs]
    /\ seen \in [Addrs -> Infos] /\ told \in SUBSET Addrs
    /\ promise \in [Addrs -> {"none", "absent", "given"}]
    /\ missing \in SUBSET Addrs
    /\ calls \in 0..MaxCalls /\ failures \in 0..MaxFailures
    /\ restarts \in 0..MaxRestarts

Idle == [pc |-> "idle", method |-> "GET", addrs |-> {}, body |-> NoBody]

Init ==
    /\ locos = [a \in Addrs |-> DefaultLoco] /\ known = {}
    /\ nvs = [a \in Addrs |-> NvLoco(DefaultLoco)] /\ saved = {}
    /\ mutex = "free" /\ dcc = "idle" /\ httpd = Idle
    /\ \E a \in Addrs : z21 = [pc |-> "idle", order |-> Info, addr |-> a]
    /\ seen = [a \in Addrs |-> ToInfo(DefaultLoco)] /\ told = {}
    /\ promise = [a \in Addrs |-> "none"]
    /\ missing = {}
    /\ calls = 0 /\ failures = 0 /\ restarts = 0

Call == calls < MaxCalls /\ calls' = calls + 1 /\ UNCHANGED <<failures, restarts>>

-----------------------------------------------------------------------------
(* NVS: a write is staged, and committed when the namespace is closed.     *)

NvsSet(A) ==
    /\ nvs' = [a \in Addrs |-> IF a \in A THEN NvLoco(locos[a]) ELSE nvs[a]]
    /\ saved' = saved \cup A

NvsErase(A) ==
    /\ nvs' = [a \in Addrs |-> IF a \in A THEN NvLoco(DefaultLoco) ELSE nvs[a]]
    /\ saved' = saved \ A

\* Nobody looks at the result of a write.
NvsRefuses(A) ==
    /\ failures < MaxFailures
    /\ failures' = failures + 1
    /\ missing' = missing \cup A
    /\ UNCHANGED <<nvs, saved, calls, restarts>>

-----------------------------------------------------------------------------
(* Requests of HTTP clients.                                               *)

\* One address or, for GET and DELETE, all of them.
Request(method, A, body) ==
    /\ httpd.pc = "idle"
    /\ Call
    /\ method = "PUT" => Cardinality(A) = 1
    /\ httpd' = [pc |-> IF method = "GET" THEN "get" ELSE "lock",
                 method |-> method, addrs |-> A, body |-> body]
    /\ UNCHANGED <<memory, flash, mutex, dcc, z21, clients, promise>>

\* Without the mutex: while another task inserts, the search can miss a loco.
Found(a) == IF a \in known
            THEN IF z21.pc = "change" /\ z21.addr \notin known THEN BOOLEAN ELSE {TRUE}
            ELSE {FALSE}

LocosGetRequest(a, found) ==
    /\ httpd.pc = "get"
    /\ a \in httpd.addrs
    /\ found \in Found(a)
    /\ httpd' = IF httpd.addrs = {a} THEN Idle ELSE [httpd EXCEPT !.addrs = @ \ {a}]
    /\ UNCHANGED <<memory, flash, mutex, dcc, z21, clients, promise, bounds>>

FromJsonDocument(l, b) ==
    [name |-> IF b.name = "keep" THEN l.name ELSE b.name,
     steps |-> IF b.steps = "keep" THEN l.steps ELSE b.steps,
     speed |-> IF b.speed = "keep" THEN l.speed ELSE b.speed,
     func |-> IF b.func = "keep" THEN l.func ELSE b.func]

\* What was told about these locos counts no more.
Untell(A) ==
    /\ told' = told \ A
    /\ seen' = [a \in Addrs |-> IF a \in A THEN ToInfo(DefaultLoco) ELSE seen[a]]

HttpLock(method) ==
    /\ httpd.pc = "lock"
    /\ httpd.method = method
    /\ mutex = "free"
    /\ mutex' = "httpd"
    /\ httpd' = [httpd EXCEPT !.pc = "write"]
    /\ Untell(httpd.addrs)
    /\ promise' = [a \in Addrs |-> IF a \in httpd.addrs THEN "none" ELSE promise[a]]
    /\ UNCHANGED <<flash, dcc, z21, bounds>>

LocosPutRequest ==
    /\ HttpLock("PUT")
    /\ locos' = [a \in Addrs |->
                    IF a \in httpd.addrs THEN FromJsonDocument(locos[a], httpd.body)
                    ELSE locos[a]]
    /\ known' = known \cup httpd.addrs

\* Erasing leaves the default behind, with which [] inserts again.
LocosDeleteRequest ==
    /\ HttpLock("DELETE")
    /\ locos' = [a \in Addrs |-> IF a \in httpd.addrs THEN DefaultLoco ELSE locos[a]]
    /\ known' = known \ httpd.addrs

HttpWrite ==
    /\ httpd.pc = "write"
    /\ httpd' = [httpd EXCEPT !.pc = "commit"]
    /\ UNCHANGED <<memory, flash, mutex, dcc, z21, clients, promise, bounds>>

\* The answer is sent; a loco stays deleted only if no order for it is under way.
HttpAnswer ==
    /\ mutex' = "free"
    /\ httpd' = Idle
    /\ promise' = [a \in Addrs |->
                    IF a \notin httpd.addrs THEN promise[a]
                    ELSE IF httpd.method = "PUT" /\ locos[a].name = "given" THEN "given"
                    ELSE IF httpd.method = "DELETE" /\ ~(z21.pc # "idle" /\ z21.addr = a)
                         THEN "absent" ELSE "none"]
    /\ UNCHANGED <<memory, dcc, z21, clients>>

HttpRefused ==
    /\ httpd.pc = "write"
    /\ NvsRefuses(httpd.addrs)
    /\ HttpAnswer

HttpCommit ==
    /\ httpd.pc = "commit"
    /\ IF httpd.method = "PUT" THEN NvsSet(httpd.addrs) ELSE NvsErase(httpd.addrs)
    /\ missing' = missing \ httpd.addrs
    /\ HttpAnswer
    /\ UNCHANGED bounds

-----------------------------------------------------------------------------
(* Orders of Z21 clients.                                                  *)

Z21Receive(order, a) ==
    /\ z21.pc = "idle"
    /\ Call
    /\ z21' = [pc |-> "lock", order |-> order, addr |-> a]
    /\ UNCHANGED <<memory, flash, mutex, dcc, httpd, clients, promise>>

Z21Lock ==
    /\ z21.pc = "lock"
    /\ mutex = "free"
    /\ mutex' = "z21"
    /\ z21' = [z21 EXCEPT !.pc = "change"]
    /\ promise' = [promise EXCEPT ![z21.addr] = IF @ = "absent" THEN "none" ELSE @]
    /\ UNCHANGED <<memory, flash, dcc, httpd, clients, bounds>>

Drive(l) == [l EXCEPT !.steps = z21.order.steps, !.speed = z21.order.value]
Function(l) == [l EXCEPT !.func = z21.order.value]
Ordered(l) == CASE z21.order.op = "drive" -> Drive(l)
                [] z21.order.op = "function" -> Function(l)
                [] OTHER -> l
\* Mutant of Named: the name is set whether it was empty or not.
MutNamed(l) == [l EXCEPT !.name = "number"]

Named(l) == IF l.name = "" THEN [l EXCEPT !.name = "number"] ELSE l
ChangesState == z21.order.op \in {"drive", "function"}

\* Mutant of Z21Nothing: an order without effect still names the loco.
MutZ21Nothing ==
    /\ z21.pc = "change"
    /\ ChangesState
    /\ Ordered(locos[z21.addr]) = locos[z21.addr]
    /\ locos' = [locos EXCEPT ![z21.addr] = Named(@)]
    /\ known' = known \cup {z21.addr}
    /\ mutex' = "free"
    /\ z21' = [z21 EXCEPT !.pc = "idle", !.order = Info]
    /\ UNCHANGED <<flash, dcc, httpd, clients, promise, bounds>>

\* The order changes nothing: return, but [] has inserted the loco.
Z21Nothing ==
    /\ z21.pc = "change"
    /\ ChangesState
    /\ Ordered(locos[z21.addr]) = locos[z21.addr]
    /\ known' = known \cup {z21.addr}
    /\ mutex' = "free"
    /\ z21' = [z21 EXCEPT !.pc = "idle", !.order = Info]
    /\ UNCHANGED <<locos, flash, dcc, httpd, clients, promise, bounds>>

\* Asking creates and names the loco too; locoInfo copies what is then sent.
Z21Change ==
    /\ z21.pc = "change"
    /\ ChangesState => Ordered(locos[z21.addr]) # locos[z21.addr]
    /\ locos' = [locos EXCEPT ![z21.addr] = Named(Ordered(@))]
    /\ known' = known \cup {z21.addr}
    /\ IF z21.order.op = "info"
       THEN /\ seen' = [seen EXCEPT ![z21.addr] = ToInfo(locos[z21.addr])]
            /\ told' = told \cup {z21.addr}
       ELSE UNCHANGED clients
    /\ z21' = [z21 EXCEPT !.pc = "write"]
    /\ UNCHANGED <<flash, mutex, dcc, httpd, promise, bounds>>

Z21Write ==
    /\ z21.pc = "write"
    /\ z21' = [z21 EXCEPT !.pc = "commit"]
    /\ UNCHANGED <<memory, flash, mutex, dcc, httpd, clients, promise, bounds>>

\* Mutant of Z21Unlock: function does not broadcast.
MutZ21Quiet ==
    /\ mutex' = "free"
    /\ z21' = [z21 EXCEPT !.pc = IF z21.order.op = "drive" THEN "lock" ELSE "idle",
                          !.order = Info]
    /\ UNCHANGED <<memory, dcc, httpd, clients, promise>>

\* Mutant of Z21Unlock: the broadcast comes within the scope of the lock.
MutZ21Hold ==
    /\ mutex' = IF ChangesState THEN "z21" ELSE "free"
    /\ z21' = [z21 EXCEPT !.pc = IF ChangesState THEN "lock" ELSE "idle",
                          !.order = Info]
    /\ UNCHANGED <<memory, dcc, httpd, clients, promise>>

\* broadcastLocoInfo asks for the loco again, through locoInfo.
Z21Unlock ==
    /\ mutex' = "free"
    /\ z21' = [z21 EXCEPT !.pc = IF ChangesState THEN "lock" ELSE "idle",
                          !.order = Info]
    /\ UNCHANGED <<memory, dcc, httpd, clients, promise>>

Z21Refused ==
    /\ z21.pc = "write"
    /\ NvsRefuses({z21.addr})
    /\ Z21Unlock

Z21Commit ==
    /\ z21.pc = "commit"
    /\ NvsSet({z21.addr})
    /\ missing' = missing \ {z21.addr}
    /\ Z21Unlock
    /\ UNCHANGED bounds

-----------------------------------------------------------------------------
(* dcc::task refreshes the locos and changes none of what is modelled here. *)

dccElse == <<memory, flash, httpd, z21, clients, promise, bounds>>

DccLock ==
    /\ dcc = "idle" /\ mutex = "free"
    /\ dcc' = "pass" /\ mutex' = "dcc"
    /\ UNCHANGED dccElse

DccReturn ==
    /\ dcc = "pass"
    /\ dcc' = "idle" /\ mutex' = "free"
    /\ UNCHANGED dccElse

\* With locos at the maximal priority only, a pass may find nothing to send again
\* and again, and keeps the mutex.
DccStuck ==
    /\ dcc = "pass" /\ known # {}
    /\ dcc' = "stuck"
    /\ UNCHANGED <<mutex, dccElse>>

-----------------------------------------------------------------------------

\* The write which is staged when the power fails is there afterwards or it is not.
Staged ==
    \/ UNCHANGED <<nvs, saved>>
    \/ /\ httpd.pc = "commit" /\ httpd.method = "PUT" /\ NvsSet(httpd.addrs)
    \/ /\ httpd.pc = "commit" /\ httpd.method = "DELETE" /\ NvsErase(httpd.addrs)
    \/ /\ z21.pc = "commit" /\ NvsSet({z21.addr})

\* At the start NVS may find that its partition has to be erased; then the
\* constructor of dcc::Service reads the namespace.
Restart ==
    /\ restarts < MaxRestarts
    /\ restarts' = restarts + 1
    /\ \E erased \in BOOLEAN :
           /\ IF erased THEN NvsErase(Addrs) ELSE Staged
           /\ promise' = [a \in Addrs |->
                           IF erased \/ a \in missing THEN "none" ELSE promise[a]]
    /\ missing' = {}
    /\ known' = saved'
    /\ locos' = [a \in Addrs |->
                    IF a \in saved'
                    THEN [DefaultLoco EXCEPT !.name = nvs'[a].name, !.steps = nvs'[a].steps]
                    ELSE DefaultLoco]
    /\ mutex' = "free" /\ dcc' = "idle" /\ httpd' = Idle
    /\ z21' = [z21 EXCEPT !.pc = "idle", !.order = Info]
    /\ Untell(Addrs)
    /\ UNCHANGED <<calls, failures>>

Next ==
    \/ \E m \in Methods : \E A \in {{a} : a \in Addrs} \cup {Addrs} : \E b \in Bodies :
           (m = "PUT" \/ b = NoBody) /\ Request(m, A, b)
    \/ \E a \in Addrs : \E found \in BOOLEAN : LocosGetRequest(a, found)
    \/ LocosPutRequest \/ LocosDeleteRequest
    \/ HttpWrite \/ HttpRefused \/ HttpCommit
    \/ \E o \in Orders : \E a \in Addrs : Z21Receive(o, a)
    \/ Z21Lock \/ Z21Nothing \/ Z21Change \/ Z21Write \/ Z21Refused \/ Z21Commit
    \/ DccLock \/ DccReturn \/ DccStuck
    \/ Restart

Spec == Init /\ [][Next]_vars

HttpRuns == \/ \E a \in Addrs : \E found \in BOOLEAN : LocosGetRequest(a, found)
            \/ LocosPutRequest \/ LocosDeleteRequest \/ HttpWrite \/ HttpCommit
Z21Runs == Z21Lock \/ Z21Nothing \/ Z21Change \/ Z21Write \/ Z21Commit

\* The tasks run on when they can; requests, orders and passes need not come.  dcc::task
\* waits between two passes, so that who waits for the mutex gets it in the end.
Fairness ==
    /\ SF_vars(HttpRuns) /\ SF_vars(Z21Runs) /\ WF_vars(DccReturn \/ DccStuck)
FairSpec == Spec /\ Fairness

-----------------------------------------------------------------------------
(* Properties *)

\* While nobody holds the mutex, memory and NVS hold the same names and speed
\* steps, apart from locos whose last write was refused, and from locos which an
\* order without effect created: these are as new, and not in NVS.
Agreement ==
    mutex = "free" => \A a \in Addrs \ missing :
        IF a \in saved THEN a \in known /\ nvs[a] = NvLoco(locos[a])
        ELSE locos[a] = DefaultLoco

Inv == TypeOK /\ Agreement

\* A GET answers with the name the last PUT gave, and does not find what the last
\* DELETE erased, whatever orders and restarts came in between, unless NVS refused
\* the write, a start-up erased NVS since, or the search ran while a loco was inserted.
Kept(a, found) ==
    /\ promise[a] = "given" => locos[a].name = "given" /\ (found \/ z21.pc = "change")
    /\ promise[a] = "absent" => ~found
GetKeepsPromise ==
    [][\A a \in Addrs : \A found \in BOOLEAN :
          LocosGetRequest(a, found) => Kept(a, found)]_vars

\* Between orders, Z21 clients know how a loco runs which they were told about, until
\* an HTTP request or a restart changes it; nobody tells them then.
Informed ==
    \A a \in told :
        seen[a] = ToInfo(locos[a]) \/ (z21.addr = a /\ z21.pc # "idle")

\* Every request and every order ends: a broadcast takes the mutex again, which its
\* order must have left.  Only who asks for the mutex while operationsDcc never
\* returns waits for ever.
CallReturns ==
    /\ []<>(httpd.pc = "idle" \/ (httpd.pc = "lock" /\ dcc = "stuck"))
    /\ []<>(z21.pc = "idle" \/ (z21.pc = "lock" /\ dcc = "stuck"))

=============================================================================
