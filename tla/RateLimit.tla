------------------------------ MODULE RateLimit ------------------------------
(***************************************************************************)
(* The request limiter: security_middleware of ddns.py calling             *)
(* DdnsStore.allow_rate_limit, and the part of DdnsStore.cleanup that      *)
(* deletes from the same table.                                            *)
(*                                                                         *)
(* allow_rate_limit reads the clock, then runs one transaction (its DELETE *)
(* takes SQLite's write lock before the SELECT).  Other threads, the clock *)
(* and the cleanup may run between the two.                                *)
(***************************************************************************)
EXTENDS Integers

CONSTANTS
    Threads,      \* pool threads running allow_rate_limit
    Keys,         \* "<client ip>:<bucket>" of rate_limit_bucket
    Limit,        \* per key: (admin_)rate_limit_per_minute
    Start,        \* bound: first value of the clock, seconds since the epoch
    Horizon,      \* bound: last value of the clock
    Step,         \* bound: how far the clock moves at once
    MaxLag,       \* a request is counted at most MaxLag windows late
    MaxCleanups   \* bound: cleanups in one behaviour

ASSUME LimitAssumption == Limit \in [Keys -> Nat \ {0}]

ASSUME ClockAssumption ==
    /\ Start \in Nat /\ Horizon \in Nat /\ Step \in Nat
    /\ Start <= Horizon

\* busy_timeout gives up after 5 seconds, and nothing else blocks between the
\* clock and the transaction.
ASSUME LagAssumption == MaxLag \in 0..2 /\ MaxCleanups \in Nat

VARIABLES
    clock,     \* time.time(), whole seconds
    rows,      \* rate_limits: count by key and window; 0 when there is no row
    pc,        \* per thread: "idle" or "count"
    key,       \* per thread: the key it counts
    window,    \* per thread: the window it read from the clock
    passed,    \* history: requests let through, by key and window
    cleanups   \* history: cleanups so far

vars == <<clock, rows, pc, key, window, passed, cleanups>>

Window(seconds) == seconds \div 60
Windows == Window(Start)..Window(Horizon)
Counts  == [Keys -> [Windows -> Nat]]

TypeOK ==
    /\ clock \in Start..Horizon
    /\ rows \in Counts
    /\ pc \in [Threads -> {"idle", "count"}]
    /\ key \in [Threads -> Keys]
    /\ window \in [Threads -> Windows]
    /\ passed \in Counts
    /\ cleanups \in Nat

\* DELETE FROM rate_limits WHERE window < cutoff
DeleteBefore(cutoff) ==
    [k \in Keys |-> [w \in Windows |-> IF w < cutoff THEN 0 ELSE rows[k][w]]]

Increment(counts, k, w) == [counts EXCEPT ![k][w] = @ + 1]

-----------------------------------------------------------------------------
Init ==
    /\ clock = Start
    /\ rows = [k \in Keys |-> [w \in Windows |-> 0]]
    /\ pc = [t \in Threads |-> "idle"]
    /\ key \in [Threads -> Keys]
    /\ window = [t \in Threads |-> Window(Start)]
    /\ passed = [k \in Keys |-> [w \in Windows |-> 0]]
    /\ cleanups = 0

\* The middleware hands a request to allow_rate_limit, which reads the clock.
ReadClock(t, k) ==
    /\ pc[t] = "idle"
    /\ pc' = [pc EXCEPT ![t] = "count"]
    /\ key' = [key EXCEPT ![t] = k]
    /\ window' = [window EXCEPT ![t] = Window(clock)]
    /\ UNCHANGED <<clock, rows, passed, cleanups>>

\* The transaction first drops old windows, then compares with the limit.
Live(t) == DeleteBefore(window[t] - 2)

\* Mutant: one request too many is let through.
Full_OffByOne(t) == Live(t)[key[t]][window[t]] > Limit[key[t]]

\* Mutant: the last request of the limit is refused.
Full_Early(t) == Live(t)[key[t]][window[t]] + 1 >= Limit[key[t]]

Full(t) == Live(t)[key[t]][window[t]] >= Limit[key[t]]

Done(t) ==
    /\ pc' = [pc EXCEPT ![t] = "idle"]
    /\ window' = [window EXCEPT ![t] = Window(Start)]
    /\ UNCHANGED <<clock, key, cleanups>>

\* Below the limit: the request is counted and goes on.
Allow(t) ==
    /\ pc[t] = "count" /\ ~Full(t)
    /\ rows' = Increment(Live(t), key[t], window[t])
    /\ passed' = Increment(passed, key[t], window[t])
    /\ Done(t)

\* At the limit: 429.
Refuse(t) ==
    /\ pc[t] = "count" /\ Full(t)
    /\ rows' = Live(t)
    /\ UNCHANGED passed
    /\ Done(t)

\* SQLite raises (database is locked): rolled back, the request is not served.
CountRaises(t) ==
    /\ pc[t] = "count"
    /\ UNCHANGED <<rows, passed>>
    /\ Done(t)

\* cleanup: its cutoff is in seconds, the windows of the table are minutes.
SweepRows ==
    /\ cleanups < MaxCleanups
    /\ cleanups' = cleanups + 1
    /\ rows' = DeleteBefore(clock - 3600)

\* From the background loop or the admin page.
Cleanup ==
    /\ SweepRows
    /\ UNCHANGED <<clock, pc, key, window, passed>>

\* The process restarts: its requests are lost, make_app runs the cleanup.
Restart ==
    /\ SweepRows
    /\ pc' = [t \in Threads |-> "idle"]
    /\ window' = [t \in Threads |-> Window(Start)]
    /\ UNCHANGED <<clock, key, passed>>

Tick ==
    /\ clock + Step <= Horizon
    /\ \A t \in Threads : pc[t] = "count" => Window(clock + Step) - window[t] <= MaxLag
    /\ clock' = clock + Step
    /\ UNCHANGED <<rows, pc, key, window, passed, cleanups>>

Next ==
    \/ \E t \in Threads :
          \/ \E k \in Keys : ReadClock(t, k)
          \/ Allow(t) \/ Refuse(t) \/ CountRaises(t)
    \/ Cleanup
    \/ Restart
    \/ Tick

Spec == Init /\ [][Next]_vars

-----------------------------------------------------------------------------
(* Properties.                                                             *)

\* The configured limit: in no minute does a key get more requests through.
WithinLimit == \A k \in Keys, w \in Windows : passed[k][w] <= Limit[k]

\* What n cleanups can let through in one window.
Allowance(k, n) == Limit[k] * (n + 1)

\* What the code keeps to: every cleanup may hand out the limit once more,
\* however late the threads count and whatever they expire.
WithinLimitPerCleanup ==
    \A k \in Keys, w \in Windows : passed[k][w] <= Allowance(k, cleanups)

\* Nobody is refused early: a refused key has had its limit in that window,
\* and no other key, window or failed call has used it up.
RefusedAtLimit ==
    [][\A t \in Threads : Refuse(t) => passed[key[t]][window[t]] >= Limit[key[t]]]_vars

-----------------------------------------------------------------------------
(* The inductive invariant behind both.                                    *)

\* A request is counted in a window at most MaxLag behind the clock.
LagBounded ==
    \A t \in Threads : pc[t] = "count" =>
        window[t] <= Window(clock) /\ Window(clock) - window[t] <= MaxLag

\* A row never exceeds the limit nor what has been let through; while its
\* window can still be counted, it accounts for all of that but the limit of
\* each cleanup.
RowsAccount ==
    \A k \in Keys, w \in Windows :
        /\ rows[k][w] <= Limit[k]
        /\ rows[k][w] <= passed[k][w]
        /\ w >= Window(clock) - 2 =>
              passed[k][w] + Limit[k] <= rows[k][w] + Allowance(k, cleanups)

Accounted == LagBounded /\ RowsAccount /\ WithinLimitPerCleanup
=============================================================================
