------------------------------- MODULE HostLock -------------------------------
(***************************************************************************)
(* The lock of a hostname as DdnsService takes it for granted: clients ask *)
(* for it, one at a time has it, and whoever has it gives it back.  When   *)
(* the process ends, nobody waits and nobody has a lock.                   *)
(***************************************************************************)
CONSTANTS
    Clients,    \* those who update hostnames
    Hosts,      \* the hostnames
    Free        \* nobody has the lock

VARIABLES
    waiting,    \* per hostname: who has asked for its lock
    holder      \* per hostname: who has it

locks == <<waiting, holder>>

\* A client asks for one lock at a time, and for none while it has one.
Idle(c) == \A h \in Hosts : c \notin waiting[h] /\ holder[h] # c

Init ==
    /\ waiting = [h \in Hosts |-> {}]
    /\ holder = [h \in Hosts |-> Free]

Ask(c, h) ==
    /\ Idle(c)
    /\ waiting' = [waiting EXCEPT ![h] = @ \cup {c}]
    /\ UNCHANGED holder

Take(c, h) ==
    /\ c \in waiting[h] /\ holder[h] = Free
    /\ waiting' = [waiting EXCEPT ![h] = @ \ {c}]
    /\ holder' = [holder EXCEPT ![h] = c]

Give(c, h) ==
    /\ holder[h] = c
    /\ holder' = [holder EXCEPT ![h] = Free]
    /\ UNCHANGED waiting

Down ==
    /\ waiting' = [h \in Hosts |-> {}]
    /\ holder' = [h \in Hosts |-> Free]

Next == Down \/ \E c \in Clients, h \in Hosts : Ask(c, h) \/ Take(c, h) \/ Give(c, h)

Spec == Init /\ [][Next]_locks
=============================================================================
