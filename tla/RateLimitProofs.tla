--------------------------- MODULE RateLimitProofs ---------------------------
(***************************************************************************)
(* Proofs about RateLimit: for any keys, limits, number of threads and     *)
(* cleanups, and any length of the clock.                                  *)
(***************************************************************************)
EXTENDS RateLimit, TLAPS

\* A later clock is in a later window.
LEMMA WindowMonotone ==
    ASSUME NEW a \in Nat, NEW b \in Nat, a <= b
    PROVE  Window(a) \in Nat /\ Window(b) \in Nat /\ Window(a) <= Window(b)
BY DEF Window

\* Every second of the clock falls in a window of the table.
LEMMA WindowOfClock ==
    ASSUME NEW c \in Start..Horizon
    PROVE  Window(c) \in Windows /\ c \in Nat
BY ClockAssumption, WindowMonotone DEF Windows

\* A window is a number.
LEMMA WindowsAreNumbers == \A w \in Windows : w \in Int /\ w - 2 \in Int
<1>1. Windows \subseteq Int
    BY DEF Windows
<1>2. QED
    BY <1>1

\* Another cleanup adds the limit once more.
LEMMA AllowanceStep ==
    ASSUME NEW k \in Keys, NEW n \in Nat
    PROVE  /\ Allowance(k, n) \in Nat /\ Allowance(k, n + 1) \in Nat
           /\ Allowance(k, n + 1) = Allowance(k, n) + Limit[k]
           /\ Allowance(k, 0) = Limit[k] /\ Limit[k] <= Allowance(k, n)
<1> DEFINE l == Limit[k]
<1>1. l \in Nat
    BY LimitAssumption
<1>2. \A a, b \in Nat : a * (b + 1) = a * b + a /\ a * b \in Nat
    OBVIOUS
<1>3. l * (n + 1) = l * n + l /\ l * n \in Nat /\ l * ((n + 1) + 1) = l * (n + 1) + l
    BY <1>1, <1>2
<1>4. l * (0 + 1) = l
    BY <1>1
<1>5. QED
    BY <1>1, <1>3, <1>4 DEF Allowance

\* Expiring rows leaves counts that are no larger, and those from the cutoff
\* on as they are.
LEMMA DeleteBeforeKeeps ==
    ASSUME TypeOK, NEW cutoff \in Int
    PROVE  /\ DeleteBefore(cutoff) \in Counts
           /\ \A k \in Keys, w \in Windows :
                 /\ DeleteBefore(cutoff)[k][w] <= rows[k][w]
                 /\ w >= cutoff => DeleteBefore(cutoff)[k][w] = rows[k][w]
BY WindowsAreNumbers DEF TypeOK, Counts, DeleteBefore

-----------------------------------------------------------------------------
\* The empty table is well typed.
LEMMA TypeInit == Init => TypeOK
BY ClockAssumption, WindowOfClock DEF Init, TypeOK, Counts

\* The type invariant is inductive.
LEMMA TypeStep == TypeOK /\ [Next]_vars => TypeOK'
<1> SUFFICES ASSUME TypeOK, [Next]_vars PROVE TypeOK'
    OBVIOUS
<1>0. Window(Start) \in Windows
    BY ClockAssumption, WindowOfClock
<1>1. ASSUME NEW t \in Threads, NEW k \in Keys, ReadClock(t, k) PROVE TypeOK'
    BY <1>1, WindowOfClock DEF TypeOK, ReadClock
<1>a. ASSUME NEW t \in Threads
      PROVE  Live(t) \in Counts /\ key[t] \in Keys /\ window[t] \in Windows
    <2>1. window[t] - 2 \in Int
        BY WindowsAreNumbers DEF TypeOK
    <2>2. QED
        BY <2>1, DeleteBeforeKeeps DEF Live, TypeOK
<1>2. ASSUME NEW t \in Threads, Allow(t) PROVE TypeOK'
    <2>1. ASSUME NEW c \in Counts PROVE Increment(c, key[t], window[t]) \in Counts
        BY <1>a DEF Counts, Increment
    <2>2. QED
        BY <1>0, <1>2, <1>a, <2>1 DEF TypeOK, Allow, Done
<1>3. ASSUME NEW t \in Threads, Refuse(t) PROVE TypeOK'
    BY <1>0, <1>3, <1>a DEF TypeOK, Refuse, Done
<1>4. ASSUME NEW t \in Threads, CountRaises(t) PROVE TypeOK'
    BY <1>0, <1>4 DEF TypeOK, CountRaises, Done
<1>5. SweepRows => rows' \in Counts /\ cleanups' \in Nat
    <2>1. clock - 3600 \in Int
        BY ClockAssumption DEF TypeOK
    <2>2. QED
        BY <2>1, DeleteBeforeKeeps DEF SweepRows, TypeOK
<1>6. CASE Cleanup
    BY <1>5, <1>6 DEF TypeOK, Cleanup
<1>7. CASE Restart
    BY <1>0, <1>5, <1>7 DEF TypeOK, Restart
<1>8. CASE Tick
    BY <1>8, ClockAssumption DEF TypeOK, Tick
<1>9. CASE UNCHANGED vars
    BY <1>9 DEF TypeOK, vars
<1>10. QED
    BY <1>1, <1>2, <1>3, <1>4, <1>6, <1>7, <1>8, <1>9 DEF Next

\* The table, the clock and the locals of the threads keep their types.
THEOREM TypeCorrect == Spec => []TypeOK
BY TypeInit, TypeStep, PTL DEF Spec

-----------------------------------------------------------------------------
\* With no rows, nothing has been let through.
LEMMA AccountedInit == Init => Accounted
<1> SUFFICES ASSUME Init PROVE Accounted
    OBVIOUS
<1>1. LagBounded
    BY DEF Init, LagBounded
<1>2. \A k \in Keys, w \in Windows : rows[k][w] = 0 /\ passed[k][w] = 0 /\ cleanups = 0
    BY DEF Init
<1>3. \A k \in Keys : Allowance(k, 0) = Limit[k] /\ Limit[k] \in Nat
    BY AllowanceStep, LimitAssumption
<1>4. QED
    BY <1>1, <1>2, <1>3 DEF Accounted, RowsAccount, WithinLimitPerCleanup

\* The transaction of allow_rate_limit: within its row it stays below the
\* limit, and it expires no row that can still be counted.
LEMMA AccountedCount ==
    ASSUME TypeOK, Accounted, NEW t \in Threads, Allow(t) \/ Refuse(t)
    PROVE  Accounted'
<1> DEFINE k0 == key[t]
           w0 == window[t]
<1>1. /\ k0 \in Keys /\ w0 \in Windows /\ w0 \in Int /\ clock \in Nat /\ Window(clock) \in Int
      /\ w0 <= Window(clock) /\ Window(clock) - 2 <= w0 /\ w0 - 2 \in Int
    <2>1. clock \in Nat /\ Window(clock) \in Windows /\ w0 \in Windows /\ k0 \in Keys
        BY WindowOfClock DEF TypeOK
    <2>2. w0 <= Window(clock) /\ Window(clock) - w0 <= MaxLag
        BY DEF Allow, Refuse, Accounted, LagBounded
    <2>3. QED
        BY <2>1, <2>2, WindowsAreNumbers, LagAssumption
<1>2. /\ Live(t) \in Counts
      /\ \A k \in Keys, w \in Windows :
            /\ Live(t)[k][w] <= rows[k][w]
            /\ w >= w0 - 2 => Live(t)[k][w] = rows[k][w]
    BY <1>1, DeleteBeforeKeeps DEF Live
<1>3. LagBounded'
    BY DEF Allow, Refuse, Done, TypeOK, Accounted, LagBounded
<1>4. UNCHANGED <<clock, cleanups>>
    BY DEF Allow, Refuse, Done
<1>5. ASSUME NEW k \in Keys, NEW w \in Windows
      PROVE  /\ rows'[k][w] <= Limit[k] /\ rows'[k][w] <= passed'[k][w]
             /\ w >= Window(clock) - 2 =>
                   passed'[k][w] + Limit[k] <= rows'[k][w] + Allowance(k, cleanups)
             /\ passed'[k][w] <= Allowance(k, cleanups)
    <2>1. /\ rows[k][w] \in Nat /\ passed[k][w] \in Nat /\ Live(t)[k][w] \in Nat
          /\ Limit[k] \in Nat /\ Allowance(k, cleanups) \in Nat /\ w \in Int
        BY <1>2, LimitAssumption, AllowanceStep, WindowsAreNumbers DEF TypeOK, Counts
    <2>2. /\ rows[k][w] <= Limit[k] /\ rows[k][w] <= passed[k][w]
          /\ w >= Window(clock) - 2 =>
                passed[k][w] + Limit[k] <= rows[k][w] + Allowance(k, cleanups)
          /\ passed[k][w] <= Allowance(k, cleanups)
        BY DEF Accounted, RowsAccount, WithinLimitPerCleanup
    <2>3. /\ Live(t)[k][w] <= rows[k][w]
          /\ w >= w0 - 2 => Live(t)[k][w] = rows[k][w]
        BY <1>2
    <2>4. CASE Allow(t) /\ k = k0 /\ w = w0
        <3>1. rows'[k][w] = Live(t)[k][w] + 1 /\ passed'[k][w] = passed[k][w] + 1
            BY <1>1, <1>2, <2>4 DEF Allow, Increment, Counts, TypeOK
        <3>2. ~(Live(t)[k][w] >= Limit[k])
            BY <2>4 DEF Allow, Full
        <3>3. QED
            BY <1>1, <2>1, <2>2, <2>3, <2>4, <3>1, <3>2
    <2>5. CASE ~(Allow(t) /\ k = k0 /\ w = w0)
        <3>1. rows'[k][w] = Live(t)[k][w] /\ passed'[k][w] = passed[k][w]
            BY <1>1, <1>2, <2>5 DEF Allow, Refuse, Increment, Counts, TypeOK
        <3>2. w >= Window(clock) - 2 => w >= w0 - 2
            BY <1>1, <2>1
        <3>3. Live(t)[k][w] <= passed[k][w]
            BY <2>1, <2>2, <2>3
        <3>4. QED
            BY <2>1, <2>2, <2>3, <3>1, <3>2, <3>3
    <2>6. QED
        BY <2>4, <2>5
<1>6. QED
    BY <1>3, <1>4, <1>5 DEF Accounted, RowsAccount, WithinLimitPerCleanup

\* A cleanup forgets at most one limit's worth of every window.
LEMMA AccountedSweep ==
    ASSUME TypeOK, Accounted, SweepRows, UNCHANGED <<clock, passed>>
    PROVE  RowsAccount' /\ WithinLimitPerCleanup'
<1>1. ASSUME NEW k \in Keys, NEW w \in Windows
      PROVE  /\ rows'[k][w] <= Limit[k] /\ rows'[k][w] <= passed[k][w]
             /\ passed[k][w] + Limit[k] <= rows'[k][w] + Allowance(k, cleanups')
             /\ passed[k][w] <= Allowance(k, cleanups')
    <2>1. rows'[k][w] \in Nat /\ rows'[k][w] <= rows[k][w]
        <3>1. clock - 3600 \in Int
            BY ClockAssumption DEF TypeOK
        <3>2. QED
            BY <3>1, DeleteBeforeKeeps DEF SweepRows, Counts
    <2>2. /\ rows[k][w] \in Nat /\ passed[k][w] \in Nat /\ Limit[k] \in Nat
        BY LimitAssumption DEF TypeOK, Counts
    <2>3. /\ Allowance(k, cleanups) \in Nat /\ Allowance(k, cleanups') \in Nat
          /\ Allowance(k, cleanups') = Allowance(k, cleanups) + Limit[k]
        BY AllowanceStep DEF TypeOK, SweepRows
    <2>4. /\ rows[k][w] <= Limit[k] /\ rows[k][w] <= passed[k][w]
          /\ passed[k][w] <= Allowance(k, cleanups)
        BY DEF Accounted, RowsAccount, WithinLimitPerCleanup
    <2>5. QED
        BY <2>1, <2>2, <2>3, <2>4
<1>2. QED
    BY <1>1 DEF RowsAccount, WithinLimitPerCleanup

\* Accounted is inductive, given the types.
LEMMA AccountedStep == TypeOK /\ Accounted /\ [Next]_vars => Accounted'
<1> SUFFICES ASSUME TypeOK, Accounted, [Next]_vars PROVE Accounted'
    OBVIOUS
<1>0. clock \in Nat /\ Window(clock) \in Int
    BY ClockAssumption, WindowOfClock DEF TypeOK, Windows
<1>1. ASSUME NEW t \in Threads, NEW k \in Keys, ReadClock(t, k) PROVE Accounted'
    <2>1. UNCHANGED <<clock, rows, passed, cleanups>>
        BY <1>1 DEF ReadClock
    <2>2. LagBounded'
        BY <1>0, <1>1, LagAssumption DEF ReadClock, TypeOK, Accounted, LagBounded
    <2>3. QED
        BY <2>1, <2>2 DEF Accounted, RowsAccount, WithinLimitPerCleanup
<1>2. ASSUME NEW t \in Threads, Allow(t) \/ Refuse(t) PROVE Accounted'
    BY <1>2, AccountedCount
<1>3. ASSUME NEW t \in Threads, CountRaises(t) PROVE Accounted'
    BY <1>3
    DEF CountRaises, Done, TypeOK, Accounted, LagBounded, RowsAccount, WithinLimitPerCleanup
<1>4. CASE Cleanup
    <2>1. LagBounded'
        BY <1>4 DEF Cleanup, Accounted, LagBounded
    <2>2. QED
        BY <1>4, <2>1, AccountedSweep DEF Cleanup, Accounted
<1>5. CASE Restart
    <2>1. LagBounded'
        BY <1>5 DEF Restart, LagBounded
    <2>2. QED
        BY <1>5, <2>1, AccountedSweep DEF Restart, Accounted
<1>6. CASE Tick
    <2>1. Window(clock) <= Window(clock') /\ Window(clock') \in Int
        BY <1>0, <1>6, WindowMonotone, ClockAssumption DEF Tick
    <2>2. LagBounded'
        <3>1. \A t \in Threads : window[t] \in Int
            BY DEF TypeOK, Windows
        <3>2. QED
            BY <1>0, <1>6, <2>1, <3>1 DEF Tick, Accounted, LagBounded
    <2>3. RowsAccount'
        <3>1. Windows \subseteq Int
            BY DEF Windows
        <3>2. QED
            BY <1>0, <1>6, <2>1, <3>1 DEF Tick, Accounted, RowsAccount
    <2>4. QED
        BY <1>6, <2>2, <2>3 DEF Tick, Accounted, WithinLimitPerCleanup
<1>7. CASE UNCHANGED vars
    BY <1>7 DEF vars, Accounted, LagBounded, RowsAccount, WithinLimitPerCleanup
<1>8. QED
    BY <1>1, <1>2, <1>3, <1>4, <1>5, <1>6, <1>7 DEF Next

\* Rows always account for what was let through.
LEMMA AlwaysAccounted == Spec => []Accounted
BY TypeCorrect, AccountedInit, AccountedStep, PTL DEF Spec

\* However the threads interleave, lag and expire rows, a key gets at most its
\* limit through in one minute, once more for every cleanup.
THEOREM LimitHoldsPerCleanup == Spec => []WithinLimitPerCleanup
<1>1. Accounted => WithinLimitPerCleanup
    BY DEF Accounted
<1>2. QED
    BY AlwaysAccounted, <1>1, PTL

\* A request is refused only when its key has had its limit in that window.
THEOREM NeverRefusedEarly == Spec => RefusedAtLimit
<1>1. ASSUME TypeOK, Accounted, NEW t \in Threads, Refuse(t)
      PROVE  passed[key[t]][window[t]] >= Limit[key[t]]
    <2> DEFINE k == key[t]
               w == window[t]
    <2>1. k \in Keys /\ w \in Windows /\ w - 2 \in Int
        BY <1>1, WindowsAreNumbers DEF TypeOK
    <2>2. Live(t)[k][w] >= Limit[k] /\ Live(t)[k][w] <= rows[k][w] /\ Live(t)[k][w] \in Nat
        BY <1>1, <2>1, DeleteBeforeKeeps DEF Refuse, Full, Live, Counts
    <2>3. rows[k][w] <= passed[k][w] /\ rows[k][w] \in Nat /\ passed[k][w] \in Nat
        BY <1>1, <2>1 DEF Accounted, RowsAccount, TypeOK, Counts
    <2>4. QED
        BY <2>1, <2>2, <2>3, LimitAssumption
<1>2. TypeOK /\ Accounted /\ [Next]_vars =>
        [\A t \in Threads : Refuse(t) => passed[key[t]][window[t]] >= Limit[key[t]]]_vars
    BY <1>1
<1>3. QED
    BY TypeCorrect, AlwaysAccounted, <1>2, PTL DEF Spec, RefusedAtLimit
=============================================================================
