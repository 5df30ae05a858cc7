------------------------------- MODULE Serving -------------------------------
(***************************************************************************)
(* One server process of make_app: the event loop, the thread pool that    *)
(* FastAPI runs blocking work in, the per-hostname locks of                *)
(* DdnsService._lock_for and the background cleanup of _cleanup_loop, from *)
(* start to shutdown, crash and restart.                                   *)
(*                                                                         *)
(* A request is a series of jobs.  Each waits for a token of the pool, in  *)
(* the order of asking, runs in a thread, and gives its token back when    *)
(* the event loop resumes its coroutine.  The event loop does one thing at *)
(* a time; the delete of the admin page blocks it.                         *)
(***************************************************************************)
EXTENDS Naturals, Sequences, FiniteSets

CONSTANTS
    Requests,   \* requests that may be in flight at once
    Hosts,      \* hostnames that updates name
    Kinds,      \* the kinds of requests clients send
    Task,       \* the cleanup task
    Free,       \* nobody has it
    PoolSize    \* tokens of the pool

Jobs == Requests \cup {Task}

\* The pool jobs of a request: the rate limit of security_middleware, a
\* synchronous dependency or a lookup, the handler.  "block" runs on the event
\* loop.  Lookup and call of the API's delete count as one job.
Plan(kind) ==
    IF kind = "slug" THEN <<"limit", "update">>              \* /u/{update_slug}
    ELSE IF kind = "nic" THEN <<"limit", "auth", "update">>  \* /nic/update, API updates
    ELSE IF kind = "form" THEN <<"limit", "service">>        \* forms, API, /m/ deletes
    ELSE <<"limit", "auth", "block">>                        \* admin delete and rotate

ASSUME ConstantsAssumption ==
    /\ Task \notin Requests /\ Free \notin Jobs /\ IsFiniteSet(Hosts)
    /\ Kinds \subseteq {"slug", "nic", "form", "admin"}
    /\ PoolSize \in Nat \ {0}

VARIABLES
    mode,       \* serving, draining, stopped
    loop,       \* the request that blocks the event loop
    queue,      \* jobs that wait for a token
    at,         \* per job: where it is
    kind,       \* per request: its kind
    stage,      \* per request: the index of its current job in its plan
    host,       \* per request: the hostname of its update
    locks,      \* DdnsService._locks: the lock of each hostname, 0 for none
    guard,      \* who holds DdnsService._locks_guard
    mine,       \* per request: the lock it was given
    made,       \* how many locks this process has created
    raised,     \* the last run of the cleanup raised
    abandoned   \* something in the tables is due for cleanup

requestVars == <<kind, stage, host, mine>>
lockVars    == <<locks, guard, made>>
vars        == <<mode, loop, queue, at, requestVars, lockVars, raised, abandoned>>

LockPcs == {"guard", "get", "put", "lock", "critical"}
PoolPcs == {"run", "done"} \cup LockPcs

TypeOK ==
    /\ mode \in {"serving", "draining", "stopped"}
    /\ loop \in Requests \cup {Free}
    /\ queue \in Seq(Jobs)
    /\ at \in [Jobs -> {"idle", "wait", "block", "sleep", "dead"} \cup PoolPcs]
    /\ kind \in [Requests -> {"slug", "nic", "form", "admin"}]
    /\ stage \in [Requests -> 1..3]
    /\ host \in [Requests -> Hosts]
    /\ locks \in [Hosts -> Nat]
    /\ guard \in Requests \cup {Free}
    /\ mine \in [Requests -> Nat]
    /\ made \in Nat
    /\ raised \in BOOLEAN
    /\ abandoned \in BOOLEAN

Job(r) == Plan(kind[r])[stage[r]]

\* The jobs that hold a token.
Running == {j \in Jobs : at[j] \in PoolPcs}

\* A process that has just started: no request, no lock, the task asleep.
Fresh ==
    /\ loop' = Free /\ queue' = <<>>
    /\ at' = [j \in Jobs |-> IF j = Task THEN "sleep" ELSE "idle"]
    /\ locks' = [h \in Hosts |-> 0] /\ guard' = Free /\ made' = 0
    /\ raised' = FALSE
    /\ UNCHANGED requestVars

Init ==
    /\ mode = "serving" /\ loop = Free /\ queue = <<>>
    /\ at = [j \in Jobs |-> IF j = Task THEN "sleep" ELSE "idle"]
    /\ kind \in [Requests -> Kinds] /\ stage = [r \in Requests |-> 1]
    /\ host \in [Requests -> Hosts] /\ mine = [r \in Requests |-> 0]
    /\ locks = [h \in Hosts |-> 0] /\ guard = Free /\ made = 0
    /\ raised = FALSE /\ abandoned = FALSE

-----------------------------------------------------------------------------
(* The event loop.                                                         *)

Submit(j) == at' = [at EXCEPT ![j] = "wait"] /\ queue' = Append(queue, j)

\* security_middleware: the first thing a request does is wait for the count.
Arrive(r, k, h) ==
    /\ mode = "serving" /\ loop = Free /\ at[r] = "idle"
    /\ kind' = [kind EXCEPT ![r] = k]
    /\ stage' = [stage EXCEPT ![r] = 1]
    /\ host' = [host EXCEPT ![r] = h]
    /\ Submit(r)
    /\ UNCHANGED <<mode, loop, mine, lockVars, raised, abandoned>>

\* External: the capacity limiter serves its waiters in order.
Dispatch ==
    /\ mode # "stopped" /\ loop = Free
    /\ queue # <<>> /\ Cardinality(Running) < PoolSize
    /\ at' = [at EXCEPT ![Head(queue)] = "run"]
    /\ queue' = Tail(queue)
    /\ UNCHANGED <<mode, loop, requestVars, lockVars, raised, abandoned>>

\* Mutant: the index of the job moves on after the last one.
Answer_MovesOn(r) ==
    /\ mode # "stopped" /\ loop = Free /\ at[r] = "done"
    /\ Job(r) \in {"limit", "auth"} \/ stage[r] = Len(Plan(kind[r]))
    /\ at' = [at EXCEPT ![r] = "idle"]
    /\ stage' = [stage EXCEPT ![r] = @ + 1]
    /\ UNCHANGED <<mode, loop, queue, kind, host, mine, lockVars, raised, abandoned>>

\* The coroutine of r resumes and gives its token back.  It is over after its
\* last job, or when the rate limit (429) or the authentication (401) ends it.
Answer(r) ==
    /\ mode # "stopped" /\ loop = Free /\ at[r] = "done"
    /\ Job(r) \in {"limit", "auth"} \/ stage[r] = Len(Plan(kind[r]))
    /\ at' = [at EXCEPT ![r] = "idle"]
    /\ UNCHANGED <<mode, loop, queue, requestVars, lockVars, raised, abandoned>>

\* It goes on with its next job ...
Continue(r) ==
    /\ mode # "stopped" /\ loop = Free /\ at[r] = "done"
    /\ stage[r] < Len(Plan(kind[r])) /\ Plan(kind[r])[stage[r] + 1] # "block"
    /\ stage' = [stage EXCEPT ![r] = @ + 1]
    /\ Submit(r)
    /\ UNCHANGED <<mode, loop, kind, host, mine, lockVars, raised, abandoned>>

\* ... or, in admin_delete_account, calls the DNS backend and SQLite right on
\* the event loop: nothing else happens there until they return or raise.
Block(r) ==
    /\ mode # "stopped" /\ loop = Free /\ at[r] = "done"
    /\ stage[r] < Len(Plan(kind[r])) /\ Plan(kind[r])[stage[r] + 1] = "block"
    /\ stage' = [stage EXCEPT ![r] = @ + 1]
    /\ at' = [at EXCEPT ![r] = "block"]
    /\ loop' = r
    /\ UNCHANGED <<mode, queue, kind, host, mine, lockVars, raised, abandoned>>

Unblock(r) ==
    /\ loop = r
    /\ loop' = Free
    /\ at' = [at EXCEPT ![r] = "idle"]
    /\ UNCHANGED <<mode, queue, requestVars, lockVars, raised, abandoned>>

-----------------------------------------------------------------------------
(* The threads of the pool.                                                *)

\* A job that takes no lock: allow_rate_limit, a dependency, a service or
\* store call.  It returns or raises.
Work(r) ==
    /\ at[r] = "run"
    /\ at' = [at EXCEPT ![r] = IF Job(r) = "update" THEN "guard" ELSE "done"]
    /\ UNCHANGED <<mode, loop, queue, requestVars, lockVars, raised, abandoned>>

\* Mutant: the dictionary of locks is used without its guard.
TakeGuard_NoWait(r) ==
    /\ at[r] = "guard"
    /\ at' = [at EXCEPT ![r] = "get"]
    /\ UNCHANGED <<mode, loop, queue, requestVars, lockVars, raised, abandoned>>

\* _lock_for, entering the with block.
TakeGuard(r) ==
    /\ at[r] = "guard" /\ guard = Free
    /\ guard' = r
    /\ at' = [at EXCEPT ![r] = "get"]
    /\ UNCHANGED <<mode, loop, queue, requestVars, locks, made, raised, abandoned>>

\* Mutant: the guard is left only when the lock is new.
GetLock_KeepsGuard(r) ==
    /\ at[r] = "get"
    /\ IF locks[host[r]] = 0
       THEN at' = [at EXCEPT ![r] = "put"] /\ UNCHANGED mine
       ELSE /\ mine' = [mine EXCEPT ![r] = locks[host[r]]]
            /\ at' = [at EXCEPT ![r] = "lock"]
    /\ UNCHANGED <<mode, loop, queue, kind, stage, host, locks, guard, made, raised, abandoned>>

\* Mutant: every update makes a lock of its own.
GetLock_AlwaysNew(r) ==
    /\ at[r] = "get"
    /\ at' = [at EXCEPT ![r] = "put"]
    /\ UNCHANGED <<mode, loop, queue, requestVars, lockVars, raised, abandoned>>

\* self._locks.get(hostname)
GetLock(r) ==
    /\ at[r] = "get"
    /\ IF locks[host[r]] = 0
       THEN at' = [at EXCEPT ![r] = "put"] /\ UNCHANGED <<guard, mine>>
       ELSE /\ mine' = [mine EXCEPT ![r] = locks[host[r]]]
            /\ guard' = Free
            /\ at' = [at EXCEPT ![r] = "lock"]
    /\ UNCHANGED <<mode, loop, queue, kind, stage, host, locks, made, raised, abandoned>>

\* A new lock, and the end of the with block.
PutLock(r) ==
    /\ at[r] = "put"
    /\ made' = made + 1
    /\ locks' = [locks EXCEPT ![host[r]] = made + 1]
    /\ mine' = [mine EXCEPT ![r] = made + 1]
    /\ guard' = Free
    /\ at' = [at EXCEPT ![r] = "lock"]
    /\ UNCHANGED <<mode, loop, queue, kind, stage, host, raised, abandoned>>

Held(l) == \E r \in Requests : at[r] = "critical" /\ mine[r] = l

\* "with lock" of apply_update.
TakeLock(r) ==
    /\ at[r] = "lock" /\ ~Held(mine[r])
    /\ at' = [at EXCEPT ![r] = "critical"]
    /\ UNCHANGED <<mode, loop, queue, requestVars, lockVars, raised, abandoned>>

\* Mutant: the update needs a second thread of the pool before it is done.
LeaveLock_SecondThread(r) ==
    /\ at[r] = "critical" /\ Cardinality(Running) < PoolSize
    /\ at' = [at EXCEPT ![r] = "done"]
    /\ UNCHANGED <<mode, loop, queue, requestVars, lockVars, raised, abandoned>>

\* Preview, publish, upsert and log, all in this thread; or an exception.
LeaveLock(r) ==
    /\ at[r] = "critical"
    /\ at' = [at EXCEPT ![r] = "done"]
    /\ UNCHANGED <<mode, loop, queue, requestVars, lockVars, raised, abandoned>>

-----------------------------------------------------------------------------
(* The cleanup task.                                                       *)

\* External: created_at of some claim or account falls behind its cutoff.
GrowOld ==
    /\ ~abandoned /\ abandoned' = TRUE
    /\ UNCHANGED <<mode, loop, queue, at, requestVars, lockVars, raised>>

\* asyncio.sleep ends; run_in_threadpool asks for a token.
Wake ==
    /\ mode # "stopped" /\ loop = Free /\ at[Task] = "sleep"
    /\ Submit(Task)
    /\ UNCHANGED <<mode, loop, requestVars, lockVars, raised, abandoned>>

\* store.cleanup in its thread ...
Sweep ==
    /\ at[Task] = "run"
    /\ abandoned' = FALSE /\ raised' = FALSE
    /\ at' = [at EXCEPT ![Task] = "done"]
    /\ UNCHANGED <<mode, loop, queue, requestVars, lockVars>>

\* ... or an exception of SQLite: the transaction rolls back.
SweepRaises ==
    /\ at[Task] = "run"
    /\ raised' = TRUE
    /\ at' = [at EXCEPT ![Task] = "done"]
    /\ UNCHANGED <<mode, loop, queue, requestVars, lockVars, abandoned>>

\* Mutant: the loop body is run once.
Resleep_Once ==
    /\ mode # "stopped" /\ loop = Free /\ at[Task] = "done"
    /\ at' = [at EXCEPT ![Task] = "idle"]
    /\ UNCHANGED <<mode, loop, queue, requestVars, lockVars, raised, abandoned>>

\* The loop goes round; an exception ends the task.
Resleep ==
    /\ mode # "stopped" /\ loop = Free /\ at[Task] = "done"
    /\ at' = [at EXCEPT ![Task] = IF raised THEN "dead" ELSE "sleep"]
    /\ UNCHANGED <<mode, loop, queue, requestVars, lockVars, raised, abandoned>>

-----------------------------------------------------------------------------
(* Shutdown, crash, restart.                                               *)

\* External: the server is told to stop; it takes no more requests.
Stop ==
    /\ mode = "serving" /\ mode' = "draining"
    /\ UNCHANGED <<loop, queue, at, requestVars, lockVars, raised, abandoned>>

\* When every request is answered lifespan cancels the task and awaits it,
\* asleep, waiting or at work: a transaction under way commits or not.
Close ==
    /\ mode = "draining" /\ loop = Free
    /\ \A r \in Requests : at[r] = "idle"
    /\ mode' = "stopped"
    /\ abandoned' \in IF at[Task] = "run" THEN {abandoned, FALSE} ELSE {abandoned}
    /\ Fresh

Crash ==
    /\ mode # "stopped" /\ mode' = "stopped"
    /\ Fresh
    /\ UNCHANGED abandoned

\* make_app runs the cleanup before it serves.
Start ==
    /\ mode = "stopped" /\ mode' = "serving"
    /\ abandoned' = FALSE
    /\ UNCHANGED <<loop, queue, at, requestVars, lockVars, raised>>

-----------------------------------------------------------------------------
Arrival == \E r \in Requests, k \in Kinds, h \in Hosts : Arrive(r, k, h)

\* What the event loop does for the coroutine of r.
Resume(r) == Answer(r) \/ Continue(r) \/ Block(r)

\* What the thread of r does without waiting for a lock.
ThreadStep(r) == Work(r) \/ GetLock(r) \/ PutLock(r) \/ LeaveLock(r) \/ Unblock(r)

CleanupStep == Wake \/ Sweep \/ SweepRaises \/ Resleep

Next ==
    \/ Arrival \/ Dispatch \/ CleanupStep \/ GrowOld
    \/ \E r \in Requests : Resume(r) \/ ThreadStep(r) \/ TakeGuard(r) \/ TakeLock(r)
    \/ Stop \/ Close \/ Crash \/ Start

Spec == Init /\ [][Next]_vars

\* The queues of the event loop and of the pool are first come first served, so
\* what is ready there again and again has its turn, though the loop is blocked
\* in between.  Threads run, and a free lock is taken by one of those who wait
\* for it.  Which one, and when requests or failures come, is not promised.
Fairness ==
    /\ SF_vars(Dispatch) /\ SF_vars(Wake) /\ SF_vars(Resleep)
    /\ \A r \in Requests : SF_vars(Resume(r)) /\ WF_vars(ThreadStep(r))
    /\ WF_vars(\E r \in Requests : TakeGuard(r))
    /\ \A h \in Hosts : WF_vars(\E r \in Requests : host[r] = h /\ TakeLock(r))
    /\ WF_vars(Sweep \/ SweepRaises) /\ WF_vars(Close) /\ WF_vars(Start)

FairSpec == Spec /\ Fairness

-----------------------------------------------------------------------------
(* Properties.                                                             *)

\* _lock_for gives every update of a hostname the same lock, however they
\* race to create it: two updates of one hostname never overlap.
MutualExclusion ==
    \A r, s \in Requests :
        r # s /\ at[r] = "critical" /\ at[s] = "critical" => host[r] # host[s]

\* The dictionary of locks has at most one lock for each hostname that has
\* been updated, though it is never emptied.
LocksAreBounded == made <= Cardinality({h \in Hosts : locks[h] # 0})

\* What a job in a thread can do without anybody else's going first.
CanMove(j) ==
    \/ at[j] \in {"run", "get", "put", "critical", "done"}
    \/ at[j] = "guard" /\ guard = Free
    \/ at[j] = "lock" /\ ~Held(mine[j])

\* Nobody waits for somebody who waits: the guard is held by who is about to
\* leave it; a job that waits for a token is in the queue, and when no token
\* is left one of the threads, however many of them wait for a lock, goes on;
\* and the event loop is blocked by nobody but the admin's calls.
WaitsEnd ==
    /\ \A r \in Requests : at[r] = "guard" => guard = Free \/ at[guard] \in {"get", "put"}
    /\ \A j \in Jobs : at[j] = "wait" =>
          /\ \E i \in DOMAIN queue : queue[i] = j
          /\ Cardinality(Running) < PoolSize \/ \E k \in Running : CanMove(k)
    /\ loop # Free => at[loop] = "block"

\* However many updates of one hostname fill the pool, and while the admin
\* page blocks the event loop, every request moves on to its answer or to the
\* lock it waits for: no holder of a lock needs what a waiter has.
RequestsMoveOn ==
    \A r \in Requests :
        at[r] \notin {"idle", "guard", "lock"} ~> at[r] \in {"idle", "guard", "lock"}

\* What is due for cleanup is cleaned up whatever the load, unless a run of
\* the cleanup has raised.
CleanupGoesOn == abandoned ~> ~abandoned \/ at[Task] = "dead" \/ mode = "stopped"

\* Cleanup goes on for as long as the process serves.
CleanupNeverStops == abandoned ~> ~abandoned \/ mode = "stopped"

\* A server that is told to stop comes to its end: the updates that wait for
\* the lock of one hostname take it one after the other, and the cleanup task,
\* wherever it is, does not hold the shutdown up.
ShutdownEnds == mode = "draining" ~> mode = "stopped"

-----------------------------------------------------------------------------
(* What DdnsService takes for granted of its locks.                        *)

AsksFor(r, h) == host[r] = h /\ at[r] \in {"guard", "get", "put", "lock"}
Has(r, h)     == host[r] = h /\ at[r] = "critical"

Waiting == [h \in Hosts |-> {r \in Requests : AsksFor(r, h)}]
Holder  == [h \in Hosts |->
              IF \E r \in Requests : Has(r, h) THEN CHOOSE r \in Requests : Has(r, h) ELSE Free]

Lock == INSTANCE HostLock WITH Clients <- Requests, waiting <- Waiting, holder <- Holder

\* The dictionary of _lock_for, its guard and the locks in it come to one lock
\* for each hostname, the lock that DdnsService models as "holder".
KeepsHostLock == Lock!Spec
=============================================================================
