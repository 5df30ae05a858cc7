---------------------------- MODULE ServingProofs ----------------------------
(***************************************************************************)
(* DdnsService._lock_for, for any number of requests and hostnames: one    *)
(* lock for each hostname, one update of a hostname at a time, the lock    *)
(* that DdnsService takes for granted; and nobody in the server, whatever  *)
(* the size of its pool, waits for somebody who waits.                     *)
(***************************************************************************)
EXTENDS Serving, FiniteSetTheorems, TLAPS

\* Who reads or writes the dictionary holds its guard.
GuardHeld == \A r \in Requests : at[r] \in {"get", "put"} => guard = r

\* The check of the dictionary is still good when the new lock is put there.
StillMissing == \A r \in Requests : at[r] = "put" => locks[host[r]] = 0

\* Who has been given a lock has the one in the dictionary.
LockKnown ==
    \A r \in Requests :
        at[r] \in {"lock", "critical"} => locks[host[r]] # 0 /\ mine[r] = locks[host[r]]

\* A lock has one holder.
OneHolder ==
    \A r, s \in Requests :
        r # s /\ at[r] = "critical" /\ at[s] = "critical" => mine[r] # mine[s]

\* The hostnames that have a lock are as many as the locks made.
Locked == {h \in Hosts : locks[h] # 0}

Counted == made = Cardinality(Locked)

LockInv == GuardHeld /\ StillMissing /\ LockKnown /\ OneHolder /\ Counted

IInv == TypeOK /\ LockInv

\* The cleanup task, requests and nobody are three things.
LEMMA TaskIsNoRequest == Task \notin Requests /\ Free \notin Requests /\ Free # Task
BY ConstantsAssumption DEF Jobs

\* No plan has more than three jobs.
LEMMA PlanLength == ASSUME NEW k PROVE Len(Plan(k)) \in 1..3
BY DEF Plan

\* A plan that goes on stays within its three jobs.
LEMMA NextStage == ASSUME NEW i \in 1..3, NEW n \in 1..3, i < n PROVE i + 1 \in 1..3
OBVIOUS

-----------------------------------------------------------------------------
\* A process starts without locks.
LEMMA InitInv == Init => IInv
<1> SUFFICES ASSUME Init PROVE IInv
    OBVIOUS
<1>1. TypeOK
  <2>1. queue \in Seq(Jobs)
      BY DEF Init
  <2>2. kind \in [Requests -> {"slug", "nic", "form", "admin"}]
      BY ConstantsAssumption DEF Init
  <2>3. at \in [Jobs -> {"idle", "wait", "block", "sleep", "dead"} \cup PoolPcs]
      BY DEF Init
  <2>4. mode \in {"serving", "draining", "stopped"} /\ loop \in Requests \cup {Free}
        /\ guard \in Requests \cup {Free} /\ raised \in BOOLEAN /\ abandoned \in BOOLEAN
      BY DEF Init
  <2>5. stage \in [Requests -> 1..3] /\ host \in [Requests -> Hosts]
        /\ mine \in [Requests -> Nat] /\ locks \in [Hosts -> Nat] /\ made \in Nat
      BY DEF Init
  <2> QED
      BY <2>1, <2>2, <2>3, <2>4, <2>5 DEF TypeOK
<1>2. GuardHeld /\ StillMissing /\ LockKnown /\ OneHolder
    BY TaskIsNoRequest DEF Init, GuardHeld, StillMissing, LockKnown, OneHolder, Jobs
<1>3. Locked = {}
    BY DEF Init, Locked
<1>4. Counted
    BY <1>3, FS_EmptySet DEF Counted, Init
<1> QED
    BY <1>1, <1>2, <1>4 DEF IInv, LockInv

\* A process that starts again starts with no lock.
LEMMA FreshInv == ASSUME Fresh PROVE LockInv'
<1>1. \A r \in Requests : at'[r] = "idle"
    BY TaskIsNoRequest DEF Fresh, Jobs
<1>2. (GuardHeld /\ StillMissing /\ LockKnown /\ OneHolder)'
    BY <1>1 DEF GuardHeld, StillMissing, LockKnown, OneHolder
<1>3. Locked' = {}
    BY DEF Fresh, Locked
<1>4. Counted'
    BY <1>3, FS_EmptySet DEF Counted, Fresh
<1> QED
    BY <1>2, <1>4 DEF LockInv

\* A step that leaves the dictionary alone, and brings nobody to it or to a
\* lock, keeps all of it.
LEMMA QuietStep ==
    ASSUME LockInv, UNCHANGED <<lockVars, mine>>,
           \A r \in Requests : at'[r] \in {"get", "put", "lock", "critical"} =>
               at'[r] = at[r] /\ host'[r] = host[r]
    PROVE LockInv'
<1>1. (GuardHeld /\ StillMissing /\ LockKnown /\ OneHolder)'
    BY DEF LockInv, GuardHeld, StillMissing, LockKnown, OneHolder, lockVars
<1>2. Locked' = Locked
    BY DEF Locked, lockVars
<1>3. Counted'
    BY <1>2 DEF Counted, LockInv, lockVars
<1> QED
    BY <1>1, <1>3 DEF LockInv

-----------------------------------------------------------------------------
(* One step of each kind.                                                  *)

\* A job joins the queue.
LEMMA SubmitType ==
    ASSUME NEW j \in Jobs, TypeOK, Submit(j)
    PROVE at' \in [Jobs -> {"idle", "wait", "block", "sleep", "dead"} \cup PoolPcs]
          /\ queue' \in Seq(Jobs)
BY DEF TypeOK, Submit

\* A request arrives without a lock.
LEMMA ArrivalInv == ASSUME IInv, Arrival PROVE IInv'
<1> PICK r \in Requests, k \in Kinds, h \in Hosts : Arrive(r, k, h)
    BY DEF Arrival
<1>1. r \in Jobs /\ k \in {"slug", "nic", "form", "admin"}
    BY ConstantsAssumption DEF Jobs
<1>2. TypeOK'
  <2>1. at' \in [Jobs -> {"idle", "wait", "block", "sleep", "dead"} \cup PoolPcs]
        /\ queue' \in Seq(Jobs)
      BY <1>1, SubmitType DEF Arrive, IInv
  <2> QED
      BY <1>1, <2>1 DEF Arrive, TypeOK, IInv, lockVars
<1>3. LockInv'
    BY <1>1, QuietStep DEF IInv, TypeOK, Arrive, Submit, lockVars, Jobs
<1> QED
    BY <1>2, <1>3 DEF IInv

\* Getting a token touches no lock.
LEMMA DispatchInv == ASSUME IInv, Dispatch PROVE IInv'
<1>1. Head(queue) \in Jobs /\ Tail(queue) \in Seq(Jobs)
    BY DEF IInv, TypeOK, Dispatch
<1>2. TypeOK'
    BY <1>1 DEF IInv, TypeOK, Dispatch, lockVars, requestVars, PoolPcs
<1>3. LockInv'
    BY <1>1, QuietStep DEF IInv, TypeOK, Dispatch, lockVars, requestVars, Jobs
<1> QED
    BY <1>2, <1>3 DEF IInv

\* The cleanup task has no part in the locks.
LEMMA CleanupInv == ASSUME IInv, CleanupStep PROVE IInv'
<1>1. Task \in Jobs
    BY DEF Jobs
<1>2. \A r \in Requests : at'[r] = at[r]
    BY <1>1, TaskIsNoRequest
    DEF IInv, TypeOK, CleanupStep, Wake, Submit, Sweep, SweepRaises, Resleep, Jobs
<1>3. UNCHANGED <<requestVars, lockVars>>
    BY DEF CleanupStep, Wake, Sweep, SweepRaises, Resleep
<1>4. LockInv'
    BY <1>2, <1>3, QuietStep DEF IInv, requestVars
<1>5. TypeOK'
  <2>1. CASE Wake
      BY <2>1, <1>1, SubmitType DEF Wake, IInv, TypeOK, requestVars, lockVars
  <2>2. CASE Sweep \/ SweepRaises \/ Resleep
      BY <2>2, <1>1 DEF Sweep, SweepRaises, Resleep, IInv, TypeOK, requestVars, lockVars, PoolPcs
  <2> QED
      BY <2>1, <2>2 DEF CleanupStep
<1> QED
    BY <1>4, <1>5 DEF IInv

\* What the event loop does for a request.
LEMMA ResumeInv == ASSUME IInv, NEW r \in Requests, Resume(r) PROVE IInv'
<1>1. r \in Jobs
    BY DEF Jobs
<1>2. LockInv'
    BY <1>1, QuietStep
    DEF IInv, TypeOK, Resume, Answer, Continue, Block, Submit, requestVars, lockVars, Jobs
<1>3. TypeOK'
  <2>1. CASE Answer(r)
      BY <2>1, <1>1 DEF Answer, IInv, TypeOK, requestVars, lockVars
  <2>2. CASE Continue(r)
    <3>1. stage[r] + 1 \in 1..3
      <4>1. stage[r] \in 1..3
          BY DEF IInv, TypeOK
      <4>2. stage[r] < Len(Plan(kind[r]))
          BY <2>2 DEF Continue
      <4>3. Len(Plan(kind[r])) \in 1..3
          BY PlanLength
      <4> QED
          BY <4>1, <4>2, <4>3, NextStage
    <3> QED
        BY <2>2, <3>1, <1>1, SubmitType DEF Continue, IInv, TypeOK, lockVars
  <2>3. CASE Block(r)
    <3>1. stage[r] + 1 \in 1..3
      <4>1. stage[r] \in 1..3
          BY DEF IInv, TypeOK
      <4>2. stage[r] < Len(Plan(kind[r]))
          BY <2>3 DEF Block
      <4>3. Len(Plan(kind[r])) \in 1..3
          BY PlanLength
      <4> QED
          BY <4>1, <4>2, <4>3, NextStage
    <3> QED
        BY <2>3, <3>1, <1>1 DEF Block, IInv, TypeOK, lockVars
  <2> QED
      BY <2>1, <2>2, <2>3 DEF Resume
<1> QED
    BY <1>2, <1>3 DEF IInv

\* A thread that works, leaves its lock, or unblocks the event loop.
LEMMA WorkInv ==
    ASSUME IInv, NEW r \in Requests, Work(r) \/ LeaveLock(r) \/ Unblock(r)
    PROVE IInv'
<1>1. r \in Jobs
    BY DEF Jobs
<1>2. LockInv'
    BY <1>1, QuietStep
    DEF IInv, TypeOK, Work, LeaveLock, Unblock, requestVars, lockVars, Jobs
<1>3. TypeOK'
    BY <1>1 DEF IInv, TypeOK, Work, LeaveLock, Unblock, requestVars, lockVars, PoolPcs, LockPcs
<1> QED
    BY <1>2, <1>3 DEF IInv

-----------------------------------------------------------------------------
(* The steps of _lock_for and of "with lock".                              *)

\* The guard is free only when nobody reads or writes the dictionary.
LEMMA TakeGuardInv == ASSUME IInv, NEW r \in Requests, TakeGuard(r) PROVE IInv'
<1>1. r \in Jobs
    BY DEF Jobs
<1>2. TypeOK'
    BY <1>1 DEF TakeGuard, IInv, TypeOK, requestVars, PoolPcs, LockPcs
<1>3. \A s \in Requests : at'[s] # at[s] => s = r /\ at'[s] = "get"
    BY <1>1 DEF TakeGuard, IInv, TypeOK, Jobs
<1>4. \A s \in Requests : at[s] \notin {"get", "put"}
    BY TaskIsNoRequest DEF TakeGuard, IInv, LockInv, GuardHeld
<1>5. (GuardHeld /\ StillMissing /\ LockKnown /\ OneHolder)'
    BY <1>3, <1>4
    DEF TakeGuard, IInv, LockInv, GuardHeld, StillMissing, LockKnown, OneHolder, requestVars
<1>6. Locked' = Locked
    BY DEF Locked, TakeGuard
<1>7. Counted'
    BY <1>6 DEF Counted, IInv, LockInv, TakeGuard
<1> QED
    BY <1>2, <1>5, <1>7 DEF IInv, LockInv

\* A lock that is found is the one in the dictionary.
LEMMA GetLockInv == ASSUME IInv, NEW r \in Requests, GetLock(r) PROVE IInv'
<1>1. r \in Jobs /\ guard = r
    BY DEF Jobs, GetLock, IInv, LockInv, GuardHeld
<1>2. TypeOK'
    BY <1>1 DEF GetLock, IInv, TypeOK, PoolPcs, LockPcs
<1>3. \A s \in Requests : s # r => at[s] \notin {"get", "put"}
    BY <1>1 DEF IInv, LockInv, GuardHeld
<1>4. \A s \in Requests : s # r => at'[s] = at[s] /\ mine'[s] = mine[s]
    BY DEF GetLock, IInv, TypeOK, Jobs
<1>5. ASSUME locks[host[r]] = 0
     PROVE  (GuardHeld /\ StillMissing /\ LockKnown /\ OneHolder)'
  <2>1. at'[r] = "put" /\ guard' = guard /\ mine' = mine /\ locks' = locks /\ host' = host
      BY <1>1, <1>5 DEF GetLock, IInv, TypeOK
  <2> QED
      BY <1>1, <1>3, <1>4, <1>5, <2>1
      DEF IInv, LockInv, GuardHeld, StillMissing, LockKnown, OneHolder
<1>6. ASSUME locks[host[r]] # 0
     PROVE  (GuardHeld /\ StillMissing /\ LockKnown /\ OneHolder)'
  <2>1. at'[r] = "lock" /\ mine'[r] = locks[host[r]] /\ locks' = locks /\ host' = host
      BY <1>1, <1>6 DEF GetLock, IInv, TypeOK
  <2> QED
      BY <1>1, <1>3, <1>4, <1>6, <2>1
      DEF IInv, LockInv, GuardHeld, StillMissing, LockKnown, OneHolder
<1>7. Locked' = Locked
    BY DEF Locked, GetLock
<1>8. Counted'
    BY <1>7 DEF Counted, IInv, LockInv, GetLock
<1>9. (GuardHeld /\ StillMissing /\ LockKnown /\ OneHolder)'
    BY <1>5, <1>6
<1> QED
    BY <1>2, <1>8, <1>9 DEF IInv, LockInv

\* A new lock is put where there is still none, so nobody has been given another.
LEMMA PutLockInv == ASSUME IInv, NEW r \in Requests, PutLock(r) PROVE IInv'
<1> DEFINE h == host[r]
<1>1. r \in Jobs /\ guard = r /\ h \in Hosts /\ locks[h] = 0 /\ made \in Nat
    BY DEF Jobs, PutLock, IInv, TypeOK, LockInv, GuardHeld, StillMissing
<1>2. TypeOK'
    BY <1>1 DEF PutLock, IInv, TypeOK, PoolPcs, LockPcs
<1>3. \A s \in Requests : s # r => at[s] \notin {"get", "put"}
    BY <1>1 DEF IInv, LockInv, GuardHeld
<1>4. \A s \in Requests : s # r => at'[s] = at[s] /\ mine'[s] = mine[s]
    BY DEF PutLock, IInv, TypeOK, Jobs
<1>5. at'[r] = "lock" /\ mine'[r] = made + 1 /\ host' = host
    BY <1>1 DEF PutLock, IInv, TypeOK
<1>6. locks' = [locks EXCEPT ![h] = made + 1] /\ made' = made + 1
    BY DEF PutLock
<1>7. \A g \in Hosts : locks'[g] = IF g = h THEN made + 1 ELSE locks[g]
    BY <1>6 DEF IInv, TypeOK
<1>8. \A s \in Requests : host[s] \in Hosts
    BY DEF IInv, TypeOK
<1>9. GuardHeld' /\ StillMissing'
    BY <1>3, <1>4, <1>5 DEF GuardHeld, StillMissing
<1>10. LockKnown'
    BY <1>1, <1>4, <1>5, <1>7, <1>8 DEF IInv, LockInv, LockKnown
<1>11. OneHolder'
    BY <1>4, <1>5 DEF IInv, LockInv, OneHolder
<1>12. Counted'
  <2>1. Locked' = Locked \cup {h} /\ h \notin Locked
      BY <1>1, <1>7 DEF Locked
  <2>2. IsFiniteSet(Locked)
      BY ConstantsAssumption, FS_Subset DEF Locked
  <2>3. Cardinality(Locked \cup {h}) = Cardinality(Locked) + 1
      BY <2>1, <2>2, FS_AddElement
  <2> QED
      BY <2>1, <2>3, <1>6 DEF Counted, IInv, LockInv
<1> QED
    BY <1>2, <1>9, <1>10, <1>11, <1>12 DEF IInv, LockInv

\* A lock is taken only when nobody holds it.
LEMMA TakeLockInv == ASSUME IInv, NEW r \in Requests, TakeLock(r) PROVE IInv'
<1>1. r \in Jobs
    BY DEF Jobs
<1>2. TypeOK'
    BY <1>1 DEF TakeLock, IInv, TypeOK, requestVars, lockVars, PoolPcs, LockPcs
<1>3. \A s \in Requests : s # r => at'[s] = at[s]
    BY DEF TakeLock, IInv, TypeOK, Jobs
<1>4. at[r] = "lock" /\ at'[r] = "critical"
    BY <1>1 DEF TakeLock, IInv, TypeOK
<1>5. \A s \in Requests : at[s] = "critical" => mine[s] # mine[r]
    BY DEF TakeLock, Held
<1>6. GuardHeld' /\ StillMissing' /\ LockKnown'
    BY <1>3, <1>4
    DEF TakeLock, IInv, LockInv, GuardHeld, StillMissing, LockKnown, requestVars, lockVars
<1>7. OneHolder'
    BY <1>3, <1>4, <1>5 DEF TakeLock, IInv, LockInv, OneHolder, requestVars
<1>8. Locked' = Locked
    BY DEF Locked, TakeLock, lockVars
<1>9. Counted'
    BY <1>8 DEF Counted, IInv, LockInv, TakeLock, lockVars
<1> QED
    BY <1>2, <1>6, <1>7, <1>9 DEF IInv, LockInv

-----------------------------------------------------------------------------
(* The theorems.                                                           *)

\* A process that ends takes its locks with it.
LEMMA ProcessInv == ASSUME IInv, GrowOld \/ Stop \/ Close \/ Crash \/ Start PROVE IInv'
<1>1. CASE Close \/ Crash
  <2>1. Fresh /\ mode' = "stopped" /\ abandoned' \in BOOLEAN
      BY <1>1 DEF Close, Crash, IInv, TypeOK
  <2>2. LockInv'
      BY <2>1, FreshInv
  <2>3. queue' \in Seq(Jobs)
      BY <2>1 DEF Fresh
  <2>4. TypeOK'
      BY <2>1, <2>3 DEF Fresh, IInv, TypeOK, requestVars, PoolPcs, LockPcs
  <2> QED
      BY <2>2, <2>4 DEF IInv
<1>2. CASE GrowOld \/ Stop \/ Start
  <2>1. LockInv'
      BY <1>2, QuietStep DEF GrowOld, Stop, Start, IInv, requestVars
  <2>2. TypeOK'
      BY <1>2 DEF GrowOld, Stop, Start, IInv, TypeOK, requestVars, lockVars
  <2> QED
      BY <2>1, <2>2 DEF IInv
<1> QED
    BY <1>1, <1>2

\* The locks of _lock_for survive every step.
LEMMA StepInv == IInv /\ [Next]_vars => IInv'
<1> SUFFICES ASSUME IInv, [Next]_vars PROVE IInv'
    OBVIOUS
<1>1. CASE Arrival
    BY <1>1, ArrivalInv
<1>2. CASE Dispatch
    BY <1>2, DispatchInv
<1>3. CASE CleanupStep
    BY <1>3, CleanupInv
<1>4. CASE GrowOld \/ Stop \/ Close \/ Crash \/ Start
    BY <1>4, ProcessInv
<1>5. CASE \E r \in Requests : Resume(r) \/ ThreadStep(r) \/ TakeGuard(r) \/ TakeLock(r)
    BY <1>5, ResumeInv, WorkInv, TakeGuardInv, GetLockInv, PutLockInv, TakeLockInv
    DEF ThreadStep
<1>6. CASE UNCHANGED vars
    BY <1>6 DEF vars, requestVars, lockVars, IInv, TypeOK, LockInv, GuardHeld, StillMissing,
                LockKnown, OneHolder, Counted, Locked
<1> QED
    BY <1>1, <1>2, <1>3, <1>4, <1>5, <1>6 DEF Next

\* TypeOK: the variables keep their types.
THEOREM ServingTypeCorrect == Spec => []TypeOK
<1>1. IInv => TypeOK
    BY DEF IInv
<1> QED
    BY InitInv, StepInv, <1>1, PTL DEF Spec

\* MutualExclusion: however many threads race through _lock_for, two updates of
\* one hostname never run at the same time.
THEOREM UpdatesExclude == Spec => []MutualExclusion
<1>1. IInv => MutualExclusion
    BY DEF IInv, LockInv, LockKnown, OneHolder, MutualExclusion
<1> QED
    BY InitInv, StepInv, <1>1, PTL DEF Spec

\* LocksAreBounded: the process creates one lock for each hostname it updates.
THEOREM OneLockPerHost == Spec => []LocksAreBounded
<1>1. IInv => LocksAreBounded
  <2> SUFFICES ASSUME IInv PROVE made <= Cardinality(Locked)
      BY DEF LocksAreBounded, Locked
  <2> QED
      BY DEF IInv, TypeOK, LockInv, Counted
<1> QED
    BY InitInv, StepInv, <1>1, PTL DEF Spec

-----------------------------------------------------------------------------
(* Nobody waits for somebody who waits.                                    *)

\* The guard is held only between the lookup in the dictionary and its end.
GuardOwned == guard # Free => at[guard] \in {"get", "put"}

LoopOwned == loop # Free => at[loop] = "block"

\* The jobs that wait for a token are in the queue, and once.
Queued ==
    /\ \A j \in Jobs : at[j] = "wait" <=> \E i \in 1..Len(queue) : queue[i] = j
    /\ \A i, k \in 1..Len(queue) : queue[i] = queue[k] => i = k

WaitInv == GuardOwned /\ LoopOwned /\ Queued

\* A process starts with nobody waiting.
LEMMA WaitInit == Init => WaitInv
<1> SUFFICES ASSUME Init PROVE WaitInv
    OBVIOUS
<1>1. Len(queue) = 0 /\ \A j \in Jobs : at[j] # "wait"
    BY DEF Init
<1> QED
    BY <1>1 DEF Init, WaitInv, GuardOwned, LoopOwned, Queued

\* A step that starts or ends no wait for a token, and leaves those who hold
\* the guard or the event loop where they are.
LEMMA WaitRest ==
    ASSUME WaitInv, UNCHANGED queue,
           \A j \in Jobs : at'[j] = "wait" <=> at[j] = "wait",
           GuardOwned', LoopOwned'
    PROVE  WaitInv'
BY DEF WaitInv, Queued

\* A job that asks for a token is in the queue, behind the others.
LEMMA SubmitWaits ==
    ASSUME TypeOK, WaitInv, NEW j \in Jobs, at[j] \notin {"wait", "get", "put", "block"},
           Submit(j), UNCHANGED <<guard, loop>>
    PROVE  WaitInv'
<1>1. at' = [at EXCEPT ![j] = "wait"] /\ queue' = Append(queue, j) /\ queue \in Seq(Jobs)
    BY DEF Submit, TypeOK
<1>2. /\ Len(queue) \in Nat /\ Len(queue') = Len(queue) + 1
      /\ \A i \in 1..Len(queue) : queue'[i] = queue[i]
      /\ queue'[Len(queue) + 1] = j
    BY <1>1
<1>3. \A i \in 1..Len(queue) : queue[i] # j
    BY DEF WaitInv, Queued
<1>4. \A i \in 1..Len(queue') : i \in 1..Len(queue) \/ i = Len(queue) + 1
    BY <1>2
<1>5. \A k \in Jobs : at'[k] = IF k = j THEN "wait" ELSE at[k]
    BY <1>1 DEF TypeOK
<1>6. ASSUME NEW k \in Jobs
      PROVE  at'[k] = "wait" <=> \E i \in 1..Len(queue') : queue'[i] = k
  <2>1. CASE k = j
      BY <1>2, <1>5, <2>1
  <2>2. CASE k # j
    <3>1. at[k] = "wait" <=> \E i \in 1..Len(queue) : queue[i] = k
        BY DEF WaitInv, Queued
    <3>2. (\E i \in 1..Len(queue) : queue[i] = k) <=> \E i \in 1..Len(queue') : queue'[i] = k
        BY <1>2, <1>4, <2>2
    <3> QED
        BY <1>5, <2>2, <3>1, <3>2
  <2> QED
      BY <2>1, <2>2
<1>7. \A i, k \in 1..Len(queue') : queue'[i] = queue'[k] => i = k
    BY <1>2, <1>3, <1>4 DEF WaitInv, Queued
<1>8. GuardOwned' /\ LoopOwned'
  <2>1. guard # j /\ loop # j
      BY ConstantsAssumption DEF WaitInv, GuardOwned, LoopOwned
  <2>2. guard \in Jobs \cup {Free} /\ loop \in Jobs \cup {Free}
      BY DEF TypeOK, Jobs
  <2> QED
      BY <1>5, <2>1, <2>2 DEF WaitInv, GuardOwned, LoopOwned
<1> QED
    BY <1>6, <1>7, <1>8 DEF WaitInv, Queued

\* Who gets a token is in the queue no more.
LEMMA DispatchWaits == ASSUME TypeOK, WaitInv, Dispatch PROVE WaitInv'
<1> DEFINE j == Head(queue)
<1>1. /\ queue \in Seq(Jobs) /\ queue # <<>> /\ queue' = Tail(queue)
      /\ at' = [at EXCEPT ![j] = "run"] /\ UNCHANGED <<guard, loop>> /\ loop = Free
    BY DEF TypeOK, Dispatch, lockVars
<1>2. /\ Len(queue) \in Nat \ {0} /\ Len(queue') = Len(queue) - 1 /\ j = queue[1] /\ j \in Jobs
      /\ \A i \in 1..Len(queue') : queue'[i] = queue[i + 1]
    BY <1>1
<1>3. at[j] = "wait"
    BY <1>2 DEF WaitInv, Queued
<1>4. \A k \in Jobs : at'[k] = IF k = j THEN "run" ELSE at[k]
    BY <1>1 DEF TypeOK
<1>5. \A i \in 1..Len(queue') : i + 1 \in 1..Len(queue) /\ i + 1 # 1
    BY <1>2
<1>6. \A i \in 1..Len(queue') : queue'[i] # j
    BY <1>2, <1>5 DEF WaitInv, Queued
<1>7. ASSUME NEW k \in Jobs
      PROVE  at'[k] = "wait" <=> \E i \in 1..Len(queue') : queue'[i] = k
  <2>1. CASE k = j
      BY <1>4, <1>6, <2>1
  <2>2. CASE k # j
    <3>1. at[k] = "wait" <=> \E i \in 1..Len(queue) : queue[i] = k
        BY DEF WaitInv, Queued
    <3>2. ASSUME NEW i \in 1..Len(queue), queue[i] = k
          PROVE  \E n \in 1..Len(queue') : queue'[n] = k
      <4>1. i - 1 \in 1..Len(queue') /\ (i - 1) + 1 = i
          BY <1>2, <2>2, <3>2
      <4> QED
          BY <1>2, <3>2, <4>1
    <3>3. ASSUME NEW n \in 1..Len(queue'), queue'[n] = k
          PROVE  \E i \in 1..Len(queue) : queue[i] = k
        BY <1>2, <1>5, <3>3
    <3> QED
        BY <1>4, <2>2, <3>1, <3>2, <3>3
  <2> QED
      BY <2>1, <2>2
<1>8. \A i, k \in 1..Len(queue') : queue'[i] = queue'[k] => i = k
  <2> SUFFICES ASSUME NEW i \in 1..Len(queue'), NEW k \in 1..Len(queue'), queue'[i] = queue'[k]
               PROVE  i = k
      OBVIOUS
  <2>1. i + 1 = k + 1
      BY <1>2, <1>5 DEF WaitInv, Queued
  <2> QED
      BY <2>1
<1>9. GuardOwned' /\ LoopOwned'
  <2>1. guard # j
      BY <1>2, <1>3, ConstantsAssumption DEF WaitInv, GuardOwned
  <2>2. guard \in Jobs \cup {Free}
      BY DEF TypeOK, Jobs
  <2> QED
      BY <1>1, <1>4, <2>1, <2>2 DEF WaitInv, GuardOwned, LoopOwned
<1> QED
    BY <1>7, <1>8, <1>9 DEF WaitInv, Queued

\* Everything else that a request, its thread or the cleanup does.
LEMMA OtherWaits ==
    ASSUME IInv, IInv', WaitInv, NEW r \in Requests,
           Answer(r) \/ Block(r) \/ ThreadStep(r) \/ TakeGuard(r) \/ TakeLock(r)
    PROVE  WaitInv'
<1>1. r \in Jobs /\ r # Free /\ guard \in Jobs \cup {Free} /\ loop \in Jobs \cup {Free}
    BY TaskIsNoRequest DEF IInv, TypeOK, Jobs
<1>2. UNCHANGED queue /\ \A j \in Jobs : j # r => at'[j] = at[j]
    BY DEF IInv, TypeOK, Answer, Block, ThreadStep, Work, GetLock, PutLock, LeaveLock, Unblock,
           TakeGuard, TakeLock
<1>3. at[r] # "wait" /\ at'[r] # "wait"
    BY <1>1 DEF IInv, TypeOK, Answer, Block, ThreadStep, Work, GetLock, PutLock, LeaveLock,
                Unblock, TakeGuard, TakeLock, WaitInv, LoopOwned
<1>4. GuardOwned'
  <2>1. CASE GetLock(r) \/ PutLock(r)
    <3>1. guard = r
        BY <2>1 DEF GetLock, PutLock, IInv, LockInv, GuardHeld
    <3>2. guard' = Free \/ (guard' = r /\ at'[r] = "put")
        BY <1>1, <2>1, <3>1 DEF GetLock, PutLock, IInv, TypeOK
    <3> QED
        BY <3>2 DEF GuardOwned
  <2>2. CASE TakeGuard(r)
      BY <1>1, <2>2 DEF TakeGuard, IInv, TypeOK, GuardOwned
  <2>3. CASE Answer(r) \/ Block(r) \/ Work(r) \/ LeaveLock(r) \/ Unblock(r) \/ TakeLock(r)
    <3>1. guard' = guard /\ at[r] \notin {"get", "put"}
        BY <1>1, <2>3 DEF Answer, Block, Work, LeaveLock, Unblock, TakeLock, lockVars, WaitInv, LoopOwned
    <3> QED
        BY <1>1, <1>2, <3>1 DEF WaitInv, GuardOwned
  <2> QED
      BY <2>1, <2>2, <2>3 DEF ThreadStep
<1>5. LoopOwned'
  <2>1. CASE Block(r)
      BY <1>1, <2>1 DEF Block, IInv, TypeOK, LoopOwned
  <2>2. CASE Unblock(r)
      BY <2>2 DEF Unblock, LoopOwned
  <2>3. CASE Answer(r) \/ Work(r) \/ GetLock(r) \/ PutLock(r) \/ LeaveLock(r)
             \/ TakeGuard(r) \/ TakeLock(r)
    <3>1. loop' = loop /\ at[r] # "block"
        BY <2>3 DEF Answer, Work, GetLock, PutLock, LeaveLock, TakeGuard, TakeLock
    <3> QED
        BY <1>1, <1>2, <3>1 DEF WaitInv, LoopOwned
  <2> QED
      BY <2>1, <2>2, <2>3 DEF ThreadStep
<1> QED
    BY <1>2, <1>3, <1>4, <1>5, WaitRest

\* The cleanup task waits in the same queue, and holds neither guard nor loop.
LEMMA CleanupWaits == ASSUME IInv, WaitInv, CleanupStep PROVE WaitInv'
<1>1. /\ Task \in Jobs /\ guard \in Requests \cup {Free} /\ loop \in Requests \cup {Free}
      /\ Task \notin Requests /\ Task # Free
    BY TaskIsNoRequest DEF IInv, TypeOK, Jobs
<1>2. CASE Wake
    BY <1>1, <1>2, SubmitWaits DEF Wake, IInv, lockVars
<1>3. CASE Sweep \/ SweepRaises \/ Resleep
  <2>1. /\ UNCHANGED <<queue, guard, loop>>
        /\ at[Task] # "wait" /\ at'[Task] # "wait"
        /\ \A j \in Jobs : j # Task => at'[j] = at[j]
      BY <1>1, <1>3 DEF IInv, TypeOK, Sweep, SweepRaises, Resleep, lockVars
  <2>2. GuardOwned' /\ LoopOwned'
      BY <1>1, <2>1 DEF WaitInv, GuardOwned, LoopOwned, Jobs
  <2> QED
      BY <2>1, <2>2, WaitRest
<1> QED
    BY <1>2, <1>3 DEF CleanupStep

\* Queue, guard and event loop survive every step.
LEMMA WaitStep == IInv /\ IInv' /\ WaitInv /\ [Next]_vars => WaitInv'
<1> SUFFICES ASSUME IInv, IInv', WaitInv, [Next]_vars PROVE WaitInv'
    OBVIOUS
<1>1. CASE Arrival
  <2>1. PICK r \in Requests, k \in Kinds, h \in Hosts : Arrive(r, k, h)
      BY <1>1 DEF Arrival
  <2> QED
      BY <2>1, SubmitWaits DEF Arrive, IInv, lockVars, Jobs
<1>2. CASE Dispatch
    BY <1>2, DispatchWaits DEF IInv
<1>3. CASE CleanupStep
    BY <1>3, CleanupWaits
<1>4. ASSUME NEW r \in Requests, Resume(r) \/ ThreadStep(r) \/ TakeGuard(r) \/ TakeLock(r)
      PROVE  WaitInv'
  <2>1. CASE Continue(r)
      BY <2>1, SubmitWaits DEF Continue, IInv, lockVars, Jobs
  <2> QED
      BY <1>4, <2>1, OtherWaits DEF Resume
<1>5. CASE Close \/ Crash
  <2>1. Fresh
      BY <1>5 DEF Close, Crash
  <2>2. Len(queue') = 0 /\ \A j \in Jobs : at'[j] # "wait"
      BY <2>1 DEF Fresh
  <2> QED
      BY <2>1, <2>2 DEF Fresh, WaitInv, GuardOwned, LoopOwned, Queued
<1>6. CASE GrowOld \/ Stop \/ Start \/ UNCHANGED vars
    BY <1>6 DEF GrowOld, Stop, Start, vars, lockVars, WaitInv, GuardOwned, LoopOwned, Queued
<1> QED
    BY <1>1, <1>2, <1>3, <1>4, <1>5, <1>6 DEF Next

\* WaitsEnd: whatever fills the pool, some thread goes on without another; no
\* circle of waits closes over the guard, the locks, the tokens and the loop.
THEOREM NobodyWaitsForWaiters == Spec => []WaitsEnd
<1>1. ASSUME IInv, WaitInv PROVE WaitsEnd
  <2>1. \A r \in Requests : at[r] = "guard" => guard = Free \/ at[guard] \in {"get", "put"}
      BY <1>1 DEF WaitInv, GuardOwned
  <2>2. ASSUME NEW k \in Running PROVE \E m \in Running : CanMove(m)
    <3>1. k \in Jobs /\ at[k] \in PoolPcs
        BY DEF Running
    <3>2. CASE at[k] = "guard" /\ guard # Free
      <4>1. guard \in Jobs /\ at[guard] \in {"get", "put"}
          BY <1>1, <3>2 DEF IInv, TypeOK, Jobs, WaitInv, GuardOwned
      <4> QED
          BY <4>1 DEF Running, CanMove, PoolPcs, LockPcs
    <3>3. CASE at[k] = "lock" /\ Held(mine[k])
      <4>1. PICK s \in Requests : at[s] = "critical"
          BY <3>3 DEF Held
      <4> QED
          BY <4>1 DEF Running, CanMove, PoolPcs, LockPcs, Jobs
    <3> QED
        BY <3>1, <3>2, <3>3 DEF CanMove, PoolPcs, LockPcs
  <2>3. Cardinality(Running) < PoolSize \/ \E k \in Running : CanMove(k)
    <3>1. CASE Running = {}
        BY <3>1, FS_EmptySet, ConstantsAssumption
    <3> QED
        BY <2>2, <3>1
  <2>4. \A j \in Jobs : at[j] = "wait" => \E i \in DOMAIN queue : queue[i] = j
    <3>1. DOMAIN queue = 1..Len(queue)
        BY <1>1 DEF IInv, TypeOK
    <3> QED
        BY <1>1, <3>1 DEF WaitInv, Queued
  <2> QED
      BY <1>1, <2>1, <2>3, <2>4 DEF WaitsEnd, WaitInv, LoopOwned
<1>2. IInv /\ WaitInv => WaitsEnd
    BY <1>1
<1> QED
    BY InitInv, StepInv, WaitInit, WaitStep, <1>2, PTL DEF Spec

-----------------------------------------------------------------------------
(* The lock of a hostname, as DdnsService takes it for granted.            *)

\* At most one request has the lock of a hostname: it is the Holder.
LEMMA HolderIs ==
    ASSUME IInv, NEW h \in Hosts
    PROVE  /\ \A r \in Requests : Has(r, h) <=> Holder[h] = r
           /\ (\A r \in Requests : ~Has(r, h)) => Holder[h] = Free
           /\ Holder[h] \in Requests \cup {Free}
<1>1. \A r, s \in Requests : Has(r, h) /\ Has(s, h) => r = s
    BY DEF IInv, LockInv, LockKnown, OneHolder, Has
<1>2. ASSUME NEW r \in Requests, Has(r, h) PROVE Holder[h] \in Requests /\ Has(Holder[h], h)
    BY <1>2 DEF Holder
<1>3. ASSUME \A r \in Requests : ~Has(r, h) PROVE Holder[h] = Free
    BY <1>3 DEF Holder
<1> QED
    BY <1>1, <1>2, <1>3, TaskIsNoRequest

\* The same after a step.
LEMMA HolderIsNext ==
    ASSUME IInv', NEW h \in Hosts
    PROVE  /\ \A r \in Requests : Has(r, h)' <=> Holder'[h] = r
           /\ (\A r \in Requests : ~Has(r, h)') => Holder'[h] = Free
           /\ Holder'[h] \in Requests \cup {Free}
<1>1. \A r, s \in Requests : Has(r, h)' /\ Has(s, h)' => r = s
    BY DEF IInv, LockInv, LockKnown, OneHolder, Has
<1>2. ASSUME NEW r \in Requests, Has(r, h)' PROVE Holder'[h] \in Requests /\ Has(Holder[h], h)'
    BY <1>2 DEF Holder
<1>3. ASSUME \A r \in Requests : ~Has(r, h)' PROVE Holder'[h] = Free
    BY <1>3 DEF Holder
<1> QED
    BY <1>1, <1>2, <1>3, TaskIsNoRequest

\* A step in which nobody asks for a lock, gets one or leaves one.
LEMMA LocksRest ==
    ASSUME IInv, IInv',
           \A r \in Requests, h \in Hosts :
               (AsksFor(r, h)' <=> AsksFor(r, h)) /\ (Has(r, h)' <=> Has(r, h))
    PROVE  UNCHANGED <<Waiting, Holder>>
<1>1. Waiting' = Waiting
    BY DEF Waiting
<1>2. ASSUME NEW h \in Hosts PROVE Holder'[h] = Holder[h]
    BY HolderIs, HolderIsNext
<1>3. Holder' = Holder
    BY <1>2 DEF Holder
<1> QED
    BY <1>1, <1>3

\* What holds of the others when one request moves.
LEMMA OthersRest ==
    ASSUME IInv, NEW r \in Requests, UNCHANGED host, \A j \in Jobs : j # r => at'[j] = at[j]
    PROVE  \A s \in Requests, h \in Hosts : s # r =>
               (AsksFor(s, h)' <=> AsksFor(s, h)) /\ (Has(s, h)' <=> Has(s, h))
BY DEF AsksFor, Has, Jobs

\* An update that comes to _lock_for asks for the lock of its hostname.
LEMMA WorkAsks ==
    ASSUME IInv, IInv', NEW r \in Requests, Work(r)
    PROVE  UNCHANGED <<Waiting, Holder>> \/ Lock!Ask(r, host[r])
<1> DEFINE h == host[r]
<1>1. /\ h \in Hosts /\ UNCHANGED host /\ at[r] = "run" /\ at'[r] \in {"guard", "done"}
      /\ \A j \in Jobs : j # r => at'[j] = at[j]
    BY DEF IInv, TypeOK, Work, requestVars, Jobs
<1>2. CASE at'[r] = "done"
  <2>1. \A g \in Hosts :
           (AsksFor(r, g)' <=> AsksFor(r, g)) /\ (Has(r, g)' <=> Has(r, g))
      BY <1>1, <1>2 DEF AsksFor, Has
  <2> QED
      BY <1>1, <2>1, OthersRest, LocksRest
<1>3. CASE at'[r] = "guard"
  <2>1. Lock!Idle(r)
    <3>1. \A g \in Hosts : r \notin Waiting[g] /\ ~Has(r, g)
        BY <1>1 DEF Waiting, AsksFor, Has
    <3> QED
        BY <3>1, HolderIs DEF Lock!Idle
  <2>2. Waiting' = [Waiting EXCEPT ![h] = @ \cup {r}]
    <3>1. \A g \in Hosts : AsksFor(r, g)' <=> g = h
        BY <1>1, <1>3 DEF AsksFor
    <3>2. \A s \in Requests, g \in Hosts : s # r => (AsksFor(s, g)' <=> AsksFor(s, g))
        BY <1>1, OthersRest
    <3>3. ~AsksFor(r, h)
        BY <1>1 DEF AsksFor
    <3>4. \A g \in Hosts : Waiting'[g] = IF g = h THEN Waiting[g] \cup {r} ELSE Waiting[g]
      <4>1. \A g \in Hosts : ~AsksFor(r, g)
          BY <1>1 DEF AsksFor
      <4> QED
          BY <3>1, <3>2, <4>1 DEF Waiting
    <3> QED
        BY <1>1, <3>4 DEF Waiting
  <2>3. Holder' = Holder
    <3>1. ASSUME NEW g \in Hosts PROVE Holder'[g] = Holder[g]
      <4>1. ~Has(r, g) /\ ~Has(r, g)'
          BY <1>1, <1>3 DEF Has
      <4> QED
          BY <1>1, <4>1, OthersRest, HolderIs, HolderIsNext
    <3> QED
        BY <3>1 DEF Holder
  <2> QED
      BY <2>1, <2>2, <2>3 DEF Lock!Ask
<1> QED
    BY <1>1, <1>2, <1>3

\* It takes it when nobody who updates the hostname has it: the lock it was
\* given is the one they have.
LEMMA TakeLockTakes ==
    ASSUME IInv, IInv', NEW r \in Requests, TakeLock(r)
    PROVE  Lock!Take(r, host[r])
<1> DEFINE h == host[r]
<1>1. /\ h \in Hosts /\ UNCHANGED host /\ at[r] = "lock" /\ at'[r] = "critical"
      /\ \A j \in Jobs : j # r => at'[j] = at[j]
    BY DEF IInv, TypeOK, TakeLock, requestVars, Jobs
<1>2. \A g \in Hosts : (AsksFor(r, g) <=> g = h) /\ ~AsksFor(r, g)'
                      /\ ~Has(r, g) /\ (Has(r, g)' <=> g = h)
    BY <1>1 DEF AsksFor, Has
<1>3. Holder[h] = Free
  <2>1. \A s \in Requests : ~Has(s, h)
    <3> SUFFICES ASSUME NEW s \in Requests, Has(s, h) PROVE FALSE
        OBVIOUS
    <3>1. mine[s] = mine[r] /\ at[s] = "critical"
        BY <1>1 DEF Has, IInv, LockInv, LockKnown
    <3> QED
        BY <3>1 DEF TakeLock, Held
  <2> QED
      BY <1>1, <2>1, HolderIs
<1>4. \A g \in Hosts : Waiting'[g] = IF g = h THEN Waiting[g] \ {r} ELSE Waiting[g]
    BY <1>1, <1>2, OthersRest DEF Waiting
<1>5. ASSUME NEW g \in Hosts PROVE Holder'[g] = IF g = h THEN r ELSE Holder[g]
  <2>1. CASE g = h
      BY <1>2, <2>1, HolderIsNext
  <2>2. CASE g # h
    <3>1. \A s \in Requests : Has(s, g)' <=> Has(s, g)
        BY <1>1, <1>2, <2>2, OthersRest
    <3> QED
        BY <2>2, <3>1, HolderIs, HolderIsNext
  <2> QED
      BY <2>1, <2>2
<1>6. Waiting' = [Waiting EXCEPT ![h] = @ \ {r}] /\ r \in Waiting[h]
    BY <1>1, <1>2, <1>4 DEF Waiting
<1>7. Holder' = [Holder EXCEPT ![h] = r]
    BY <1>1, <1>5 DEF Holder
<1> QED
    BY <1>3, <1>6, <1>7 DEF Lock!Take

\* It gives it back.
LEMMA LeaveLockGives ==
    ASSUME IInv, IInv', NEW r \in Requests, LeaveLock(r)
    PROVE  Lock!Give(r, host[r])
<1> DEFINE h == host[r]
<1>1. /\ h \in Hosts /\ UNCHANGED host /\ at[r] = "critical" /\ at'[r] = "done"
      /\ \A j \in Jobs : j # r => at'[j] = at[j]
    BY DEF IInv, TypeOK, LeaveLock, requestVars, Jobs
<1>2. \A g \in Hosts : ~AsksFor(r, g) /\ ~AsksFor(r, g)'
                      /\ (Has(r, g) <=> g = h) /\ ~Has(r, g)'
    BY <1>1 DEF AsksFor, Has
<1>3. Waiting' = Waiting
    BY <1>1, <1>2, OthersRest DEF Waiting
<1>4. Holder[h] = r
    BY <1>1, <1>2, HolderIs
<1>5. ASSUME NEW g \in Hosts PROVE Holder'[g] = IF g = h THEN Free ELSE Holder[g]
  <2>1. CASE g = h
    <3>1. \A s \in Requests : ~Has(s, h)'
      <4>1. \A s \in Requests : s # r => ~Has(s, h)
          BY <1>1, <1>4, HolderIs
      <4> QED
          BY <1>1, <1>2, <4>1, OthersRest
    <3>2. Holder'[h] = Free
        BY <1>1, <3>1, HolderIsNext
    <3> QED
        BY <2>1, <3>2
  <2>2. CASE g # h
    <3>1. \A u \in Requests : Has(u, g)' <=> Has(u, g)
        BY <1>1, <1>2, <2>2, OthersRest
    <3> QED
        BY <2>2, <3>1, HolderIs, HolderIsNext
  <2> QED
      BY <2>1, <2>2
<1>6. Holder' = [Holder EXCEPT ![h] = Free]
    BY <1>1, <1>5 DEF Holder
<1> QED
    BY <1>3, <1>4, <1>6 DEF Lock!Give

\* Whoever is asleep, in the pool before or after its update, or blocks the
\* loop, neither waits for the lock of a hostname nor has one.
Away(r) == at[r] \in {"idle", "wait", "run", "done", "block", "sleep", "dead"}

\* Nothing else that happens to requests concerns the locks of hostnames.
LEMMA OtherLocksRest ==
    ASSUME IInv, IInv', WaitInv,
           \/ Arrival \/ Dispatch \/ CleanupStep \/ GrowOld \/ Stop \/ Start \/ UNCHANGED vars
           \/ \E r \in Requests :
                 Resume(r) \/ GetLock(r) \/ PutLock(r) \/ Unblock(r) \/ TakeGuard(r)
    PROVE  UNCHANGED <<Waiting, Holder>>
<1> DEFINE Rest == \A s \in Requests, h \in Hosts :
                       (AsksFor(s, h)' <=> AsksFor(s, h)) /\ (Has(s, h)' <=> Has(s, h))
<1>1. ASSUME NEW r \in Requests,
             Resume(r) \/ GetLock(r) \/ PutLock(r) \/ Unblock(r) \/ TakeGuard(r)
      PROVE  Rest
  <2>1. UNCHANGED host /\ \A j \in Jobs : j # r => at'[j] = at[j]
      BY <1>1 DEF IInv, TypeOK, Resume, Answer, Continue, Block, GetLock, PutLock, Unblock,
                  TakeGuard, Submit, requestVars
  <2>2. CASE Resume(r) \/ Unblock(r)
    <3>1. Away(r)
        BY <2>2, TaskIsNoRequest
        DEF Away, Resume, Answer, Continue, Block, Unblock, WaitInv, LoopOwned
    <3>2. Away(r)'
        BY <2>2 DEF Away, Resume, Answer, Continue, Block, Unblock, Submit, IInv, TypeOK, Jobs
    <3>3. \A h \in Hosts : ~AsksFor(r, h) /\ ~AsksFor(r, h)' /\ ~Has(r, h) /\ ~Has(r, h)'
        BY <3>1, <3>2 DEF Away, AsksFor, Has
    <3> QED
        BY <2>1, <3>3, OthersRest
  <2>3. CASE GetLock(r) \/ PutLock(r) \/ TakeGuard(r)
    <3>1. at[r] \in {"guard", "get", "put"} /\ at'[r] \in {"get", "put", "lock"}
        BY <2>3 DEF GetLock, PutLock, TakeGuard, IInv, TypeOK, Jobs
    <3>2. \A h \in Hosts : (AsksFor(r, h)' <=> AsksFor(r, h)) /\ ~Has(r, h) /\ ~Has(r, h)'
        BY <2>1, <3>1 DEF AsksFor, Has
    <3> QED
        BY <2>1, <3>2, OthersRest
  <2> QED
      BY <1>1, <2>2, <2>3
<1>2. ASSUME Arrival PROVE Rest
  <2>1. PICK r \in Requests, k \in Kinds, h \in Hosts : Arrive(r, k, h)
      BY <1>2 DEF Arrival
  <2>2. /\ Away(r) /\ Away(r)'
        /\ \A s \in Requests : s # r => at'[s] = at[s] /\ host'[s] = host[s]
      BY <2>1 DEF Arrive, Submit, Away, IInv, TypeOK, Jobs
  <2> QED
      BY <2>2 DEF Away, AsksFor, Has
<1>3. ASSUME Dispatch PROVE Rest
  <2>1. /\ UNCHANGED host /\ Head(queue) \in Jobs /\ at[Head(queue)] = "wait"
        /\ at' = [at EXCEPT ![Head(queue)] = "run"]
    <3>1. queue \in Seq(Jobs) /\ queue # <<>>
        BY <1>3 DEF Dispatch, IInv, TypeOK
    <3>2. Head(queue) \in Jobs /\ Head(queue) = queue[1] /\ 1 \in 1..Len(queue)
        BY <3>1
    <3> QED
        BY <1>3, <3>2 DEF Dispatch, requestVars, WaitInv, Queued
  <2> DEFINE j == Head(queue)
  <2>2. \A s \in Requests : at'[s] # at[s] => at[s] = "wait" /\ at'[s] = "run"
    <3>1. j \in Jobs /\ at[j] = "wait" /\ at' = [at EXCEPT ![j] = "run"]
        BY <2>1
    <3> HIDE DEF j
    <3>2. \A s \in Jobs : at'[s] = IF s = j THEN "run" ELSE at[s]
        BY <3>1 DEF IInv, TypeOK
    <3> QED
        BY <3>1, <3>2 DEF Jobs
  <2> QED
      BY <2>1, <2>2 DEF AsksFor, Has
<1>4. ASSUME CleanupStep PROVE Rest
  <2>1. UNCHANGED host /\ \A r \in Requests : at'[r] = at[r]
      BY <1>4, TaskIsNoRequest
      DEF CleanupStep, Wake, Submit, Sweep, SweepRaises, Resleep, IInv, TypeOK, Jobs, requestVars
  <2> QED
      BY <2>1 DEF AsksFor, Has
<1>5. ASSUME GrowOld \/ Stop \/ Start \/ UNCHANGED vars PROVE Rest
    BY <1>5 DEF GrowOld, Stop, Start, vars, requestVars, AsksFor, Has
<1>6. Rest
    BY <1>1, <1>2, <1>3, <1>4, <1>5
<1> QED
    BY <1>6, LocksRest

\* A process that ends takes the locks and those who wait for them with it.
LEMMA FreshLocks == ASSUME IInv', Fresh PROVE Lock!Down
<1>1. \A r \in Requests : at'[r] = "idle"
    BY TaskIsNoRequest DEF Fresh, Jobs
<1>2. \A r \in Requests, h \in Hosts : ~AsksFor(r, h)' /\ ~Has(r, h)'
    BY <1>1 DEF AsksFor, Has
<1>3. Waiting' = [h \in Hosts |-> {}]
    BY <1>2 DEF Waiting
<1>4. \A h \in Hosts : Holder'[h] = Free
    BY <1>2, HolderIsNext
<1>5. Holder' = [h \in Hosts |-> Free]
    BY <1>4 DEF Holder
<1> QED
    BY <1>3, <1>5 DEF Lock!Down

\* KeepsHostLock: what _lock_for, its guard and its dictionary do is what
\* HostLock says, which DdnsService takes for granted.
THEOREM LocksAreHostLocks == Spec => KeepsHostLock
<1>1. ASSUME Init PROVE Lock!Init
  <2>1. \A r \in Requests, h \in Hosts : ~AsksFor(r, h) /\ ~Has(r, h)
      BY <1>1, TaskIsNoRequest DEF Init, AsksFor, Has, Jobs
  <2>2. Waiting = [h \in Hosts |-> {}]
      BY <2>1 DEF Waiting
  <2>3. Holder = [h \in Hosts |-> Free]
      BY <2>1 DEF Holder
  <2> QED
      BY <2>2, <2>3 DEF Lock!Init
<1>2. ASSUME IInv, IInv', WaitInv, [Next]_vars PROVE [Lock!Next]_(Lock!locks)
  <2>1. ASSUME NEW r \in Requests, Work(r) \/ TakeLock(r) \/ LeaveLock(r)
        PROVE  [Lock!Next]_(Lock!locks)
    <3>1. host[r] \in Hosts
        BY <1>2 DEF IInv, TypeOK
    <3> QED
        BY <1>2, <2>1, <3>1, WorkAsks, TakeLockTakes, LeaveLockGives DEF Lock!Next, Lock!locks
  <2>2. CASE Close \/ Crash
      BY <1>2, <2>2, FreshLocks DEF Close, Crash, Lock!Next
  <2>3. CASE UNCHANGED <<Waiting, Holder>>
      BY <2>3 DEF Lock!locks
  <2> QED
      BY <1>2, <2>1, <2>2, <2>3, OtherLocksRest DEF Next, ThreadStep
<1>3. (Init => Lock!Init) /\ (IInv /\ IInv' /\ WaitInv /\ [Next]_vars => [Lock!Next]_(Lock!locks))
    BY <1>1, <1>2
<1> QED
    BY InitInv, StepInv, WaitInit, WaitStep, <1>3, PTL DEF Spec, KeepsHostLock, Lock!Spec

=============================================================================
