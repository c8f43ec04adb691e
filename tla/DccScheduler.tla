---------------------------- MODULE DccScheduler ----------------------------
(***************************************************************************)
(* How dcc::Service::operationsDcc (dcc/service.cpp) shares the back       *)
(* message buffer of out::track::dcc between the locos: which loco's speed *)
(* and function packets are sent next, and when a call ends.               *)
(*                                                                         *)
(* A call holds _internal_mutex, which everybody who changes the locos     *)
(* needs; the low-level task empties the buffer meanwhile.  Space is       *)
(* counted in packets, all of one size.                                    *)
(***************************************************************************)
EXTENDS Integers, FiniteSets, FiniteSetsExt

CONSTANTS
    Addresses,    \* the loco addresses, in the order of dcc::Locos
    Capacity,     \* size of out::tx_message_buffer.back_handle
    MaxPriority,  \* Loco::max_priority
    MaxDrains,    \* packets transmitted while a call runs: a packet takes
                  \* milliseconds, a call microseconds
    Inputs        \* what happens besides, a subset of AllInputs

MinPriority == 1    \* Loco::min_priority
Burst == 4          \* packets per loco: speed, F0-F4, F5-F8, F9-F12
AllInputs == {"put", "delete", "powerCycle"}

\* A quarter of the buffer holds the packets of a loco (33 of 80 bytes).
ASSUME DccSchedulerAssumption ==
    /\ Addresses \subseteq Nat
    /\ IsFiniteSet(Addresses)
    /\ Capacity \in Nat /\ Capacity >= 4 * Burst
    /\ MaxPriority \in Nat /\ MaxPriority > MinPriority
    /\ MaxDrains \in Nat
    /\ Inputs \subseteq AllInputs

VARIABLES
    locos,     \* the addresses in _locos
    priority,  \* Loco::priority
    count,     \* _priority_count
    used,      \* packets in the back buffer
    drained,   \* packets transmitted since the call began
    todo,      \* locos the current pass over _locos has yet to visit
    pc         \* "idle", or "pass" inside operationsDcc

schedulerVars == <<locos, priority, count, used, drained, todo, pc>>

SchedulerTypeOK ==
    /\ locos \subseteq Addresses
    /\ priority \in [Addresses -> MinPriority..MaxPriority]
    /\ count \in 0..MaxPriority
    /\ used \in 0..Capacity
    /\ drained \in 0..MaxDrains
    /\ todo \subseteq locos
    /\ pc \in {"idle", "pass"}
    /\ pc = "idle" => todo = {}

SchedulerInit ==
    /\ locos = {}
    /\ priority = [a \in Addresses |-> MinPriority]
    /\ count = MinPriority
    /\ used = 0
    /\ drained = 0
    /\ todo = {}
    /\ pc = "idle"

\* std::clamp(n + 1, min_priority, max_priority)
Up(n) == IF n < MaxPriority THEN n + 1 ELSE MaxPriority

\* xMessageBufferSpacesAvailable < size * 0.5, < size * 0.25
AboveHalf(u) == 2 * (Capacity - u) < Capacity
AboveThreeQuarters(u) == 4 * (Capacity - u) < Capacity

Due(a) == count % priority[a] = 0

-----------------------------------------------------------------------------
(* Outside of operationsDcc                                                *)

\* drive, function, locoMode, locoInfo and PUT insert what they do not find.
Put(a) ==
    /\ "put" \in Inputs
    /\ pc = "idle"
    /\ a \notin locos
    /\ locos' = locos \cup {a}
    /\ priority' = [priority EXCEPT ![a] = MinPriority]
    /\ UNCHANGED <<count, used, drained, todo, pc>>

\* DELETE of one loco or of all of them.
Delete(as) ==
    /\ "delete" \in Inputs
    /\ pc = "idle"
    /\ as # {}
    /\ locos' = locos \ as
    /\ UNCHANGED <<priority, count, used, drained, todo, pc>>

\* Power off and on: suspend() resets the count and not the priorities,
\* out::suspend the buffer, and resume() fills the latter beyond one half.
PowerCycle ==
    /\ "powerCycle" \in Inputs
    /\ pc = "idle"
    /\ count' = 0
    /\ used' = Capacity \div 2
    /\ UNCHANGED <<locos, priority, drained, todo, pc>>

\* out::track::dcc takes a packet.
Drain ==
    /\ used > 0
    /\ used' = used - 1
    /\ IF pc = "idle" THEN UNCHANGED drained
       ELSE drained < MaxDrains /\ drained' = drained + 1
    /\ UNCHANGED <<locos, priority, count, todo, pc>>

-----------------------------------------------------------------------------
(* operationsDcc                                                           *)

\* Mutant of BeginCall: at the maximum only the pass starts over.
MutBeginCall ==
    /\ pc = "idle"
    /\ ~AboveHalf(used)
    /\ pc' = "pass"
    /\ drained' = 0
    /\ todo' = locos
    /\ UNCHANGED <<locos, priority, count, used>>

BeginCall ==
    /\ pc = "idle"
    /\ ~AboveHalf(used)
    /\ pc' = "pass"
    /\ drained' = 0
    /\ todo' = locos
    /\ IF count = MaxPriority
       THEN /\ count' = MinPriority
            /\ priority' = [a \in Addresses |->
                   IF a \in locos THEN MinPriority ELSE priority[a]]
       ELSE UNCHANGED <<count, priority>>
    /\ UNCHANGED <<locos, used>>

\* sendToBack spins until there is space.
Send(n) == used + n <= Capacity /\ used' = used + n

\* The call ends with the buffer more than three quarters full.
ReturnOr(rest) ==
    IF AboveThreeQuarters(used')
    THEN pc' = "idle" /\ todo' = {}
    ELSE pc' = pc /\ todo' = rest

SendIdle ==
    /\ pc = "pass"
    /\ locos = {}
    /\ Send(1)
    /\ ReturnOr({})
    /\ UNCHANGED <<locos, priority, count, drained>>

Visit(a) == pc = "pass" /\ todo # {} /\ a = Min(todo)

Skip(a) ==
    /\ Visit(a)
    /\ ~Due(a)
    /\ todo' = todo \ {a}
    /\ UNCHANGED <<locos, priority, count, used, pc, drained>>

\* Mutant of Refresh: the space is looked at once per pass.
MutRefresh(a) ==
    /\ Visit(a)
    /\ Due(a)
    /\ Send(Burst)
    /\ priority' = [priority EXCEPT ![a] = Up(@)]
    /\ IF todo = {a} THEN ReturnOr({}) ELSE pc' = pc /\ todo' = todo \ {a}
    /\ UNCHANGED <<locos, count, drained>>

Refresh(a) ==
    /\ Visit(a)
    /\ Due(a)
    /\ Send(Burst)
    /\ priority' = [priority EXCEPT ![a] = Up(@)]
    /\ ReturnOr(todo \ {a})
    /\ UNCHANGED <<locos, count, drained>>

\* Mutant of PassEnd: the count does not advance with the passes.
MutPassEnd ==
    /\ pc = "pass"
    /\ todo = {} /\ locos # {}
    /\ todo' = locos
    /\ UNCHANGED <<locos, priority, count, used, pc, drained>>

PassEnd ==
    /\ pc = "pass"
    /\ todo = {} /\ locos # {}
    /\ count' = Up(count)
    /\ todo' = locos
    /\ UNCHANGED <<locos, priority, used, pc, drained>>

OperationsDcc ==
    \/ BeginCall \/ SendIdle \/ PassEnd
    \/ \E a \in Addresses : Skip(a) \/ Refresh(a)

SchedulerNext ==
    \/ \E a \in Addresses : Put(a)
    \/ \E as \in SUBSET locos : Delete(as)
    \/ PowerCycle
    \/ Drain
    \/ OperationsDcc

SchedulerSpec == SchedulerInit /\ [][SchedulerNext]_schedulerVars

\* operationsLoop calls operationsDcc again and again, out::track::dcc keeps
\* transmitting, and the threads which wait for the mutex do not stop either.
FairScheduler ==
    SchedulerSpec /\ WF_schedulerVars(OperationsDcc) /\ WF_schedulerVars(Drain)

-----------------------------------------------------------------------------
(* Properties                                                              *)

\* A call finds space for all the packets of the loco it visits: sendToBack
\* never spins with the mutex held, and no loco is left half refreshed.
NeverSpins == pc = "pass" => used + Burst <= Capacity

SchedulerInv == SchedulerTypeOK /\ NeverSpins

\* Nobody is due any more: the count has reached its end, is reset by the next
\* call only, and this call sends nothing and so does not end.
Stuck == pc = "pass" /\ locos # {} /\ count = MaxPriority /\ \A a \in locos : ~Due(a)

NeverStuck == ~Stuck

\* Why a call is never stuck while locos are only added: some loco, one which was there
\* when the count was last reset, keeps step with the count.
Leader(a) ==
    /\ priority[a] \in {count, Up(count)}
    /\ pc = "pass" /\ a \notin todo => priority[a] = Up(count)

Lockstep ==
    /\ count >= MinPriority
    /\ locos = {} => count = MinPriority
    /\ locos # {} => \E a \in locos : Leader(a)

\* "If all locos are up to maximum priority there must be some kind of
\* reset?" (dcc/service.cpp): every call returns, and gives the mutex back to
\* whoever wants to drive a loco, but for a call which is stuck in this one way.
OnlyStuckHangs == pc = "pass" ~> pc = "idle" \/ Stuck

\* How many locos come before a in a pass.
Before(a) == Cardinality({b \in locos : b < a})

\* "So, we iterate over each loco" (dcc/service.cpp): every loco is refreshed
\* again and again.  This is not so for the third loco and those behind it once the
\* power was switched: suspend() leaves a count of 0, by which everybody is due, each
\* call begins with the first loco and may return before its pass ends, and the count
\* stays 0 for ever; the first two are refreshed even then.  The other exceptions are a
\* call which got stuck, and locos which come and go, or a power which is switched,
\* again and again (a step which looks like a power cycle is the low-level task's).
Starved(a) == count = 0 /\ Before(a) >= 2
EveryLocoRefreshed ==
    \/ <>Stuck
    \/ []<><<locos' # locos \/ (PowerCycle /\ ~Drain)>>_schedulerVars
    \/ \A a \in Addresses :
           []<>(a \notin locos) \/ []<><<Refresh(a)>>_schedulerVars \/ <>[]Starved(a)

=============================================================================
