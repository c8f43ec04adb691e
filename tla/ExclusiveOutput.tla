-------------------------- MODULE ExclusiveOutput --------------------------
(***************************************************************************)
(* What the shared word `state` of config.hpp promises.  Its comment says  *)
(* "Restricts access to low-level tasks": at any moment at most one        *)
(* interface owns the output hardware, only the low-level task serving     *)
(* that owner drives it, and ownership ends only with the hardware idle.   *)
(***************************************************************************)
CONSTANTS
    Owners,     \* interfaces which may own the output
    OutTasks,   \* low-level tasks
    Serves,     \* Serves[t]: the owners low-level task t works for
    NoOwner     \* nobody owns the output, not in Owners

VARIABLES
    owner,      \* the interface which owns the output, or NoOwner
    driving     \* the low-level tasks which drive the hardware

vars == <<owner, driving>>

Init == owner = NoOwner /\ driving = {}

\* An interface takes an output nobody owns.
Acquire(o) ==
    /\ owner = NoOwner
    /\ owner' = o
    /\ UNCHANGED driving

\* The low-level task of the owner starts to drive the hardware.
Drive(t) ==
    /\ owner \in Serves[t]
    /\ driving' = driving \cup {t}
    /\ UNCHANGED owner

\* A low-level task leaves the hardware.
Leave(t) ==
    /\ driving' = driving \ {t}
    /\ UNCHANGED owner

\* Ownership ends when nobody drives the hardware any more.
Release ==
    /\ driving = {}
    /\ owner' = NoOwner
    /\ UNCHANGED driving

\* The device restarts.
Restart == owner' = NoOwner /\ driving' = {}

Next ==
    \/ \E o \in Owners : Acquire(o)
    \/ \E t \in OutTasks : Drive(t) \/ Leave(t)
    \/ Release
    \/ Restart

Spec == Init /\ [][Next]_vars
=============================================================================
