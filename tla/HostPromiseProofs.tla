-------------------------- MODULE HostPromiseProofs --------------------------
(***************************************************************************)
(* Proofs that DdnsService, with a DNS backend, keeps HostPromise; what    *)
(* its second invariant says of the audit events, the stored rows and the  *)
(* deletes; what is left of it where nothing fails; that the locks are     *)
(* used as HostLock offers them, and for how many calls they are held.     *)
(***************************************************************************)
EXTENDS DdnsServiceProofs

(* The frame of a step.                                                    *)

\* The steps of a delete, and a store failure outside the lock, change their
\* own thread and hostname only, and no lock.
LEMMA DeleteFrame ==
    ASSUME TypeOK, Coherent, NEW t \in Threads, pc[t] \notin UpdatePcs,
           DeleteStep(t) \/ DeleteRefused(t) \/ DeleteFault(t) \/ StoreRaises(t)
    PROVE  /\ OnlyThread(t) /\ OnlyHost(host[t]) /\ host'[t] = host[t]
           /\ \A g \in Hosts : holder'[g] = holder[g]
<1> USE DEF TypeOK, OnlyThread, OnlyHost, tableVars, threadVars
<1>0. \A g \in Hosts : holder[g] # t
    BY DEF Coherent, Exclusive
<1>1. CASE DeleteFind(t)
    BY <1>1 DEF DeleteFind
<1>2. CASE DeleteWrite(t)
    <2>1. \A u \in Threads \ {t} : found'[u] \in {found[u], "stale"}
        BY <1>2 DEF DeleteWrite, ForgetId
    <2>2. QED
        BY <1>2, <2>1 DEF DeleteWrite, Suspect
<1>3. CASE DeleteStale(t)
    BY <1>3 DEF DeleteStale
<1>4. CASE DeleteSend(t)
    BY <1>4 DEF DeleteSend, Suspect
<1>5. CASE LogDeleteFailure(t)
    BY <1>5 DEF LogDeleteFailure, Finish
<1>6. CASE DeleteStore(t)
    BY <1>6 DEF DeleteStore, Finish, Suspect
<1>7. CASE DeleteRefused(t)
    BY <1>7 DEF DeleteRefused
<1>8. CASE DeleteFault(t)
    <2>1. \A u \in Threads \ {t} : found'[u] \in {found[u], "stale"}
        BY <1>8 DEF DeleteFault, ForgetId
    <2>2. \A g \in Hosts \ {host[t]} : dns'[g] = dns[g] /\ suspect'[g] = suspect[g]
        BY <1>8 DEF DeleteFault, Suspect
    <2>3. QED
        BY <1>8, <2>1, <2>2 DEF DeleteFault
<1>9. CASE StoreRaises(t)
    BY <1>0, <1>9 DEF StoreRaises, Suspect, Finish, Release
<1>10. QED
    BY <1>1, <1>2, <1>3, <1>4, <1>5, <1>6, <1>7, <1>8, <1>9 DEF DeleteStep

\* What a step of t may do to the other threads, its hostname and the count
\* of failures.
Bystanders(t) ==
    /\ \A u \in Threads \ {t} :
          /\ pc[u] = "write" => found'[u] = found[u] \/ Current(u) \in suspect'[host[u]]
          /\ crossed[u] \subseteq crossed'[u] /\ (u \in refused => u \in refused')
          /\ pc[u] \in DeletePcs /\ host[u] = host[t] =>
                \A f \in Families \ crossed'[u] : dns'[host[t]][f] \in {dns[host[t]][f], None}
    /\ pc[t] \notin UpdatePcs => suspect[host[t]] \subseteq suspect'[host[t]]
    /\ pc[t] # "insert" /\ host[t] \in stored' =>
          host[t] \in stored /\ records'[host[t]] = records[host[t]]
    /\ \A g \in Hosts \ {host[t]} : lastEvent'[g] = lastEvent[g]
    /\ faults' \in {faults, faults + 1}

\* What a step must establish for its own thread and hostname only.
LEMMA TraceableFrame ==
    ASSUME TypeOK, TypeOK', Coherent, Traceable, NEW t \in Threads,
           OnlyThread(t), OnlyHost(host[t]), host'[t] = host[t], Bystanders(t),
           Excused(t)', Planned(t)', Removed(t)', faults' = 0 => Logged(host[t])'
    PROVE  Traceable'
<1> DEFINE h == host[t]
<1>0. h \in Hosts /\ Exclusive /\ faults \in Nat /\ faults' \in {faults, faults + 1}
    BY DEF TypeOK, Coherent, Bystanders
<1>1. ASSUME NEW u \in Threads \ {t} PROVE Excused(u)'
    <2>1. Excused(u) /\ host[u] \in Hosts /\ Current(u)' = Current(u)
        BY DEF Traceable, TypeOK, Current, OnlyThread
    <2>2. pc[u] \in {"write", "dns_failed"} => suspect[host[u]] \subseteq suspect'[host[u]]
        <3>1. CASE host[u] = h
            BY <1>0, <3>1 DEF Exclusive, Bystanders, UpdatePcs, PublishPcs
        <3>2. CASE host[u] # h
            BY <2>1, <3>2 DEF OnlyHost
        <3>3. QED
            BY <3>1, <3>2
    <2>3. faults > 0 => faults' > 0
        BY <1>0
    <2>4. QED
        BY <1>1, <2>1, <2>2, <2>3 DEF Excused, OnlyThread, Bystanders
<1>2. ASSUME NEW u \in Threads \ {t} PROVE Planned(u)'
    <2>1. Planned(u) /\ host[u] \in Hosts
        BY DEF Traceable, TypeOK
    <2>2. CASE host[u] = h
        BY <1>0, <2>1, <2>2 DEF Planned, OnlyThread, Exclusive, Bystanders, UpdatePcs, PublishPcs
    <2>3. CASE host[u] # h
        BY <2>1, <2>3 DEF Planned, OnlyThread, OnlyHost
    <2>4. QED
        BY <2>2, <2>3
<1>3. ASSUME NEW u \in Threads \ {t} PROVE Removed(u)'
    <2>1. Removed(u) /\ host[u] \in Hosts 
        BY <1>0 DEF Traceable, TypeOK
    <2>2. CASE host[u] = h
        BY <2>1, <2>2 DEF Removed, OnlyThread, Bystanders, DeletePcs
    <2>3. CASE host[u] # h
        BY <2>1, <2>3 DEF Removed, OnlyThread, OnlyHost, Bystanders
    <2>4. QED
        BY <2>2, <2>3
<1>4. ASSUME faults' = 0, NEW g \in Hosts \ {h} PROVE Logged(g)'
    <2>1. Logged(g) /\ lastEvent'[g] = lastEvent[g]
        BY <1>0, <1>4 DEF Traceable, Bystanders
    <2>2. \A u \in Threads : holder[g] = u => pc'[u] = pc[u] /\ eff'[u] = eff[u]
        BY <1>0 DEF Exclusive, OnlyThread
    <2>3. QED
        BY <2>1, <2>2 DEF Logged, OnlyHost
<1>5. QED
    BY <1>1, <1>2, <1>3, <1>4 DEF Traceable

-----------------------------------------------------------------------------
\* At first no update and no delete is under way and nothing is logged.
LEMMA TraceableInit == Init => Traceable
BY DEF Init, Traceable, Excused, Planned, Removed, Logged, PublishPcs

\* No thread but its holder is between AcquireLock and the release of a lock.
LEMMA HolderAlone ==
    ASSUME TypeOK, Coherent, NEW t \in Threads, pc[t] \in UpdatePcs,
           NEW u \in Threads \ {t}, host[u] = host[t]
    PROVE  pc[u] \notin UpdatePcs
BY DEF TypeOK, Coherent, Exclusive

\* Accounts, ageing, the cleanup and a crash keep Traceable.
LEMMA TraceableEnvironment == TypeOK /\ Traceable /\ Environment => Traceable'
<1> SUFFICES ASSUME TypeOK, Traceable, Environment PROVE Traceable'
    OBVIOUS
<1>1. ASSUME UNCHANGED <<stored, records, lastEvent, dns, holder, pc, threadVars, suspect, crossed, refused, faults>>
      PROVE  Traceable'
    BY <1>1
    DEF threadVars, Traceable, Excused, Planned, Removed, Logged, Current
<1>2. ASSUME NEW h \in Hosts, CreateAccount(h) \/ GrowOld(h) PROVE Traceable'
    BY <1>1, <1>2 DEF CreateAccount, GrowOld
<1>3. CASE Cleanup
    BY <1>1, <1>3 DEF Cleanup
<1>4. CASE Crash
    <2>1. \A t \in Threads : pc'[t] = "idle"
        BY <1>4 DEF Crash, Finish
    <2>2. faults' # 0
        BY <1>4 DEF Crash, Fault, TypeOK
    <2>3. QED
        BY <2>1, <2>2 DEF Traceable, Excused, Planned, Removed, PublishPcs
<1>5. QED
    BY <1>2, <1>3, <1>4 DEF Environment

\* A request that arrives or gets its lock starts with nothing to account for.
LEMMA TraceableArrival ==
    ASSUME TypeOK, Coherent, Traceable, NEW t \in Threads, Arrival(t) \/ AcquireLock(t)
    PROVE  Traceable'
<1>1. /\ UNCHANGED <<tableVars, dns, eff, found, suspect, crossed, refused, faults>>
      /\ \A u \in Threads \ {t} :
            pc'[u] = pc[u] /\ host'[u] = host[u] /\ want'[u] = want[u] /\ todo'[u] = todo[u]
    BY DEF TypeOK, Arrival, BeginDelete, LookupForUpdate, AcquireLock, threadVars
<1>2. pc[t] \in {"idle", "lock"} /\ pc'[t] \in {"lock", "preview", "del_find", "del_send", "del_store"}
    BY DEF TypeOK, Arrival, BeginDelete, LookupForUpdate, AcquireLock
<1>3. Removed(t)'
    <2>1. ASSUME NEW h \in Hosts, BeginDelete(t, h) PROVE Removed(t)'
        <3>1. todo'[t] = (IF Backend = "cloudflare" THEN Families ELSE {})
            BY <2>1 DEF BeginDelete, TypeOK
        <3>2. pc'[t] = IF Backend = "cloudflare" THEN "del_find"
                       ELSE IF Backend = "rfc2136" THEN "del_send" ELSE "del_store"
            BY <2>1 DEF BeginDelete, TypeOK
        <3>3. QED
            BY <3>1, <3>2, ConstantsAssumption DEF Removed, Families
    <2>2. CASE pc'[t] \in {"lock", "preview"}
        BY <2>2 DEF Removed
    <2>3. QED
        BY <2>1, <2>2 DEF TypeOK, Arrival, LookupForUpdate, AcquireLock
<1>4. Excused(t)' /\ Planned(t)'
    BY <1>2 DEF Excused, Planned, PublishPcs
<1>5. ASSUME NEW u \in Threads \ {t} PROVE Excused(u)' /\ Planned(u)' /\ Removed(u)'
    BY <1>1
    DEF Traceable, Excused, Planned, Removed, Current, tableVars
<1>6. ASSUME NEW h \in Hosts, faults' = 0 PROVE Logged(h)'
    <2>1. Logged(h)
        BY <1>1, <1>6 DEF Traceable
    <2>2. \A u \in Threads : holder'[h] = u /\ pc'[u] = "log" <=> holder[h] = u /\ pc[u] = "log"
        BY <1>1, <1>2, ConstantsAssumption
        DEF TypeOK, Arrival, BeginDelete, LookupForUpdate, AcquireLock
    <2>3. QED
        BY <1>1, <2>1, <2>2 DEF Logged, tableVars
<1>7. QED
    BY <1>3, <1>4, <1>5, <1>6 DEF Traceable

\* Each statement of an update keeps Traceable: it alone changes its row, and
\* what it publishes through a delete it crosses.
LEMMA TraceableUpdateStep ==
    ASSUME TypeOK, Coherent, Traceable, NEW t \in Threads, UpdateStep(t)
    PROVE  Traceable'
<1> DEFINE h == host[t]
           k == Current(t)
<1>1. h \in Hosts /\ k \in Families /\ faults \in Nat /\ pc[t] \in UpdatePcs
    BY CurrentIsFamily
    DEF TypeOK, UpdateStep, PreviewUpdate, PublishFind, PublishWrite, PublishStale, PublishSend,
        LogPublishFailure, UpsertSelect, UpsertInsert, LogUpdate, UpdatePcs, PublishPcs
<1>2. /\ TypeOK' /\ OnlyThread(t) /\ OnlyHost(h) /\ host'[t] = h
      /\ holder[h] = t /\ holder'[h] = IF pc'[t] \in UpdatePcs THEN t ELSE Free
    BY <1>1, TypeUpdateStep, UpdateFrame DEF Coherent, Exclusive
<1>3. \A u \in Threads \ {t} : pc[u] = "write" => host[u] # h
    BY <1>1, HolderAlone DEF UpdatePcs, PublishPcs
<1>4. pc'[t] \notin DeletePcs
    BY DEF TypeOK, UpdateStep, PreviewUpdate, PublishPlan, PublishFind, PublishWrite, PublishStale,
           PublishSend, LogPublishFailure, UpsertSelect, UpsertInsert, LogUpdate, Finish, DeletePcs
<1>5. Removed(t)'
    BY <1>4 DEF Removed, DeletePcs
<1>6. Excused(t) /\ Planned(t) /\ (faults = 0 => Logged(h))
    BY <1>1 DEF Traceable
<1>7. CASE PreviewUpdate(t)
    <2>1. Bystanders(t) /\ Excused(t)' /\ Planned(t)'
        BY <1>1, <1>7
        DEF PreviewUpdate, PublishPlan, TypeOK, Bystanders, Excused, Planned, tableVars, UpdatePcs
    <2>2. faults' = 0 => Logged(h)'
        BY <1>2, <1>6, <1>7 DEF PreviewUpdate, PublishPlan, TypeOK, Logged, tableVars
    <2>3. QED
        BY <1>2, <1>5, <2>1, <2>2, TraceableFrame
<1>8. CASE PublishFind(t)
    <2>1. Bystanders(t) /\ Excused(t)' /\ Planned(t)'
        BY <1>1, <1>6, <1>8
        DEF PublishFind, TypeOK, Bystanders, Excused, Planned, PublishPcs, tableVars, UpdatePcs
    <2>2. faults' = 0 => Logged(h)'
        BY <1>2, <1>6, <1>8 DEF PublishFind, TypeOK, Logged, tableVars
    <2>3. QED
        BY <1>2, <1>5, <2>1, <2>2, TraceableFrame
<1>9. CASE PublishWrite(t)
    <2>1. \A u \in Threads \ {t} : pc[u] = "write" => found'[u] = found[u]
        BY <1>3, <1>9 DEF PublishWrite, ForgetId, TypeOK
    <2>2. \A f \in Families \ {k} : dns'[h][f] = dns[h][f]
        BY <1>1, <1>9 DEF PublishWrite, TypeOK, Row
    <2>3. Bystanders(t)
        BY <1>1, <1>9, <2>1, <2>2 DEF PublishWrite, TypeOK, Cross, Bystanders, tableVars
    <2>4. Excused(t)' /\ Planned(t)'
        BY <1>2, <1>6, <1>9
        DEF PublishWrite, TypeOK, Excused, Planned, PublishPcs, tableVars
    <2>5. faults' = 0 => Logged(h)'
        BY <1>2, <1>6, <1>9 DEF PublishWrite, TypeOK, Logged, tableVars
    <2>6. QED
        BY <1>2, <1>5, <2>3, <2>4, <2>5, TraceableFrame
<1>10. CASE PublishStale(t)
    <2>1. suspect'[h] # {}
        BY <1>1, <1>6, <1>10 DEF PublishStale, Suspect, TypeOK, Excused
    <2>2. Bystanders(t) /\ Excused(t)' /\ Planned(t)'
        BY <1>1, <1>2, <1>10, <2>1
        DEF PublishStale, TypeOK, Bystanders, Excused, Planned, PublishPcs, tableVars, threadVars
    <2>3. faults' = 0 => Logged(h)'
        BY <1>2, <1>6, <1>10 DEF PublishStale, TypeOK, Logged, tableVars, threadVars
    <2>4. QED
        BY <1>2, <1>5, <2>2, <2>3, TraceableFrame
<1>11. CASE PublishSend(t)
    <2>1. \A f \in Families \ todo[t] : dns'[h][f] = dns[h][f]
        BY <1>1, <1>11 DEF PublishSend, Sent, TypeOK
    <2>2. Bystanders(t)
        BY <1>1, <1>11, <2>1 DEF PublishSend, TypeOK, Cross, Bystanders, tableVars
    <2>3. Excused(t)' /\ Planned(t)'
        BY <1>2, <1>6, <1>11 DEF PublishSend, TypeOK, Excused, Planned, PublishPcs, tableVars
    <2>4. faults' = 0 => Logged(h)'
        BY <1>2, <1>6, <1>11 DEF PublishSend, TypeOK, Logged, tableVars
    <2>5. QED
        BY <1>2, <1>5, <2>2, <2>3, <2>4, TraceableFrame
<1>12. CASE LogPublishFailure(t)
    <2>1. lastEvent'[h].status = "dns_failed" /\ pc'[t] = "idle"
        BY <1>1, <1>12 DEF LogPublishFailure, LogEvent, Finish, TypeOK
    <2>2. Bystanders(t) /\ Excused(t)' /\ Planned(t)'
        BY <1>1, <1>12, <2>1
        DEF LogPublishFailure, LogEvent, Finish, TypeOK, Bystanders, Excused, Planned, PublishPcs,
            UpdatePcs, DeletePcs
    <2>3. Logged(h)'
        BY <1>1, <1>2, <2>1, ConstantsAssumption DEF Logged, UpdatePcs, PublishPcs
    <2>4. QED
        BY <1>2, <1>5, <2>2, <2>3, TraceableFrame
<1>13. CASE UpsertSelect(t)
    <2>1. Bystanders(t) /\ Excused(t)' /\ Planned(t)'
        BY <1>1, <1>13 DEF UpsertSelect, TypeOK, Bystanders, Excused, Planned, PublishPcs, tableVars
    <2>2. faults' = 0 => Logged(h)'
        BY <1>2, <1>6, <1>13 DEF UpsertSelect, TypeOK, Logged, tableVars
    <2>3. QED
        BY <1>2, <1>5, <2>1, <2>2, TraceableFrame
<1>14. CASE UpsertInsert(t)
    <2>1. Bystanders(t) /\ Excused(t)' /\ Planned(t)'
        BY <1>1, <1>14
        DEF UpsertInsert, TypeOK, Bystanders, Excused, Planned, PublishPcs, threadVars
    <2>2. records'[h] = eff'[t] /\ pc'[t] = "log" /\ holder'[h] = t
        BY <1>1, <1>2, <1>14 DEF UpsertInsert, TypeOK, threadVars
    <2>3. Logged(h)'
        BY <1>2, <2>2 DEF Logged
    <2>4. QED
        BY <1>2, <1>5, <2>1, <2>3, TraceableFrame
<1>15. CASE LogUpdate(t)
    <2>1. lastEvent'[h].row = eff[t] /\ pc'[t] = "idle"
        BY <1>1, <1>15 DEF LogUpdate, LogEvent, Finish, TypeOK
    <2>2. Bystanders(t) /\ Excused(t)' /\ Planned(t)'
        BY <1>1, <1>15, <2>1
        DEF LogUpdate, LogEvent, Finish, TypeOK, Bystanders, Excused, Planned, PublishPcs,
            UpdatePcs, DeletePcs
    <2>3. ASSUME faults' = 0, h \in stored PROVE records[h] = eff[t]
        BY <1>1, <1>2, <1>6, <1>15, <2>3 DEF LogUpdate, Logged
    <2>4. holder'[h] = Free
        BY <1>2, <2>1 DEF UpdatePcs, PublishPcs
    <2>5. faults' = 0 => Logged(h)'
        BY <1>2, <1>15, <2>1, <2>3, <2>4, ConstantsAssumption DEF Logged, LogUpdate
    <2>6. QED
        BY <1>2, <1>5, <2>2, <2>5, TraceableFrame
<1>16. QED
    BY <1>7, <1>8, <1>9, <1>10, <1>11, <1>12, <1>13, <1>14, <1>15 DEF UpdateStep

\* Each statement of a delete keeps Traceable: ids it makes stale are of
\* families it makes suspect, and what it has done stays done but for crossings.
LEMMA TraceableDeleteStep ==
    ASSUME TypeOK, Coherent, Traceable, NEW t \in Threads, DeleteStep(t)
    PROVE  Traceable'
<1> DEFINE h == host[t]
           k == Current(t)
<1>1. /\ h \in Hosts /\ k \in Families /\ faults \in Nat
      /\ pc[t] \notin UpdatePcs /\ pc'[t] \notin UpdatePcs
    BY CurrentIsFamily
    DEF TypeOK, DeleteStep, DeleteFind, DeleteWrite, DeleteStale, DeleteSend, LogDeleteFailure,
        DeleteStore, Finish, UpdatePcs, PublishPcs
<1>2. /\ TypeOK' /\ OnlyThread(t) /\ OnlyHost(h) /\ host'[t] = h
      /\ \A g \in Hosts : holder'[g] = holder[g]
      /\ \A g \in Hosts : holder[g] # t
    BY <1>1, TypeDeleteStep, DeleteFrame DEF Coherent, Exclusive
<1>3. Excused(t)' /\ Planned(t)'
    BY <1>1 DEF Excused, Planned, UpdatePcs, PublishPcs
<1>4. Removed(t) /\ (faults = 0 => Logged(h))
    BY <1>1 DEF Traceable
<1>5. ASSUME UNCHANGED <<records, stored, lastEvent, faults>>
      PROVE  faults' = 0 => Logged(h)'
    BY <1>1, <1>2, <1>4, <1>5 DEF Logged, OnlyThread
<1>6. CASE DeleteFind(t)
    <2>1. todo[t] # {} /\ k \in todo[t]
        BY <1>4, <1>6 DEF DeleteFind, Removed, TypeOK, Current, Families
    <2>2. /\ pc'[t] \in {"del_find", "del_write"} => todo'[t] # {}
          /\ pc'[t] = "del_store" => todo'[t] = {}
          /\ pc'[t] # "del_send"
        BY <1>6, <2>1 DEF DeleteFind, TypeOK
    <2>3. todo'[t] = todo[t] \/ (todo'[t] = todo[t] \ {k} /\ dns[h][k] = None)
        BY <1>6 DEF DeleteFind, TypeOK
    <2>4. Removed(t)'
        BY <1>2, <1>4, <1>6, <2>2, <2>3 DEF DeleteFind, Removed
    <2>5. Bystanders(t)
        BY <1>1, <1>6 DEF DeleteFind, Bystanders, TypeOK, tableVars
    <2>6. QED
        BY <1>2, <1>3, <1>5, <1>6, <2>4, <2>5, TraceableFrame DEF DeleteFind, tableVars
<1>7. CASE DeleteWrite(t)
    <2>1. \A f \in Families : dns'[h][f] = IF f = k THEN None ELSE dns[h][f]
        BY <1>1, <1>7 DEF DeleteWrite, TypeOK, Row
    <2>2. suspect'[h] = suspect[h] \cup {k}
        BY <1>1, <1>7 DEF DeleteWrite, Suspect, TypeOK
    <2>3. \A u \in Threads \ {t} : found'[u] = found[u] \/ (host[u] = h /\ Current(u) = k)
        BY <1>7 DEF DeleteWrite, ForgetId, TypeOK
    <2>4. Bystanders(t)
        BY <1>1, <1>7, <2>1, <2>2, <2>3 DEF DeleteWrite, Bystanders, tableVars
    <2>5. Removed(t)'
        <3>1. /\ pc'[t] \in {"del_find", "del_write"} => todo'[t] # {}
              /\ pc'[t] = "del_store" => todo'[t] = {}
              /\ pc'[t] # "del_send" /\ todo'[t] = todo[t] \ {k} /\ crossed'[t] = crossed[t]
            BY <1>4, <1>7 DEF DeleteWrite, Removed, TypeOK
        <3>2. QED
            BY <1>2, <1>4, <1>7, <2>1, <3>1 DEF DeleteWrite, Removed
    <2>6. QED
        BY <1>2, <1>3, <1>5, <1>7, <2>4, <2>5, TraceableFrame DEF DeleteWrite, tableVars
<1>8. CASE DeleteStale(t)
    <2>1. Bystanders(t) /\ Removed(t)'
        BY <1>1, <1>8 DEF DeleteStale, Bystanders, Removed, TypeOK, tableVars, threadVars
    <2>2. QED
        BY <1>2, <1>3, <1>5, <1>8, <2>1, TraceableFrame DEF DeleteStale, tableVars
<1>9. CASE DeleteSend(t)
    <2>1. \A f \in Families : dns'[h][f] = None
        BY <1>1, <1>9 DEF DeleteSend, TypeOK, Blank
    <2>2. Bystanders(t)
        BY <1>1, <1>9, <2>1 DEF DeleteSend, Bystanders, Suspect, TypeOK, tableVars, threadVars
    <2>3. todo[t] = {}
        BY <1>4, <1>9 DEF DeleteSend, Removed
    <2>4. Removed(t)'
        BY <1>2, <1>9, <2>1, <2>3 DEF DeleteSend, Removed, TypeOK, threadVars
    <2>5. QED
        BY <1>2, <1>3, <1>5, <1>9, <2>2, <2>4, TraceableFrame DEF DeleteSend, tableVars
<1>10. CASE LogDeleteFailure(t)
    <2>1. lastEvent'[h].status = "dns_delete_failed" /\ pc'[t] = "idle"
        BY <1>1, <1>10 DEF LogDeleteFailure, LogEvent, Finish, TypeOK
    <2>2. Bystanders(t) /\ Removed(t)'
        BY <1>1, <1>10, <2>1
        DEF LogDeleteFailure, LogEvent, Finish, Bystanders, Removed, TypeOK, DeletePcs
    <2>3. faults' = 0 => Logged(h)'
        BY <1>1, <1>2, <1>4, <1>10, <2>1 DEF LogDeleteFailure, Logged, OnlyThread
    <2>4. QED
        BY <1>2, <1>3, <2>2, <2>3, TraceableFrame
<1>11. CASE DeleteStore(t)
    <2>1. h \notin stored' /\ pc'[t] = "idle"
        BY <1>11 DEF DeleteStore, Finish, TypeOK
    <2>2. Bystanders(t) /\ Removed(t)'
        BY <1>1, <1>11, <2>1
        DEF DeleteStore, Suspect, Finish, Bystanders, Removed, TypeOK, DeletePcs
    <2>3. Logged(h)'
        BY <1>2, <2>1 DEF Logged
    <2>4. QED
        BY <1>2, <1>3, <2>2, <2>3, TraceableFrame
<1>12. QED
    BY <1>6, <1>7, <1>8, <1>9, <1>10, <1>11 DEF DeleteStep

\* Failures keep Traceable: they count, and what they leave half done is
\* suspect or excused by the count.
LEMMA TraceableFailure ==
    ASSUME TypeOK, Coherent, Traceable, NEW t \in Threads, Failure(t)
    PROVE  Traceable'
<1> DEFINE h == host[t]
           k == Current(t)
<1>1. h \in Hosts /\ k \in Families /\ faults \in Nat /\ TypeOK'
    BY CurrentIsFamily, TypeFailure DEF TypeOK
<1>2. faults' = faults + 1 /\ faults' > 0 /\ UNCHANGED <<stored, records, lastEvent>>
    BY <1>1 DEF Failure, PublishFault, DeleteRefused, DeleteFault, StoreRaises, Fault, tableVars
<1>3. Removed(t)
    BY DEF Traceable
<1>4. ASSUME OnlyThread(t), OnlyHost(h), host'[t] = h, Bystanders(t), Excused(t)', Planned(t)',
             Removed(t)'
      PROVE  Traceable'
    BY <1>1, <1>2, <1>4, TraceableFrame
<1>5. CASE PublishFault(t)
    <2>1. pc[t] \in UpdatePcs /\ pc'[t] = "dns_failed"
        BY <1>5 DEF PublishFault, TypeOK, UpdatePcs
    <2>2. OnlyThread(t) /\ OnlyHost(h) /\ host'[t] = h
        BY <1>5, <2>1, UpdateFrame
    <2>3. \A u \in Threads \ {t} : pc[u] = "write" => host[u] # h
        BY <2>1, HolderAlone DEF UpdatePcs, PublishPcs
    <2>4. \A u \in Threads \ {t} : pc[u] = "write" => found'[u] = found[u]
        BY <1>5, <2>3 DEF PublishFault, ForgetId, TypeOK
    <2>5. \/ UNCHANGED <<dns, crossed, refused>>
          \/ \E fs \in SUBSET Families :
                Cross(h, fs) /\ \A f \in Families \ fs : dns'[h][f] = dns[h][f]
        <3>1. CASE UNCHANGED <<dns, crossed, refused>>
            BY <3>1
        <3>2. CASE dns' = [dns EXCEPT ![h] = Sent(t)] /\ Cross(h, todo[t])
            <4>1. \A f \in Families \ todo[t] : dns'[h][f] = dns[h][f]
                BY <1>1, <3>2 DEF Sent, TypeOK
            <4>2. QED
                BY <3>2, <4>1 DEF TypeOK
        <3>3. CASE dns' = [dns EXCEPT ![h][k] = eff[t][k]] /\ Cross(h, {k})
            <4>1. \A f \in Families \ {k} : dns'[h][f] = dns[h][f]
                BY <1>1, <3>3 DEF TypeOK, Row
            <4>2. QED
                BY <1>1, <3>3, <4>1
        <3>4. QED
            BY <1>5, <3>1, <3>2, <3>3 DEF PublishFault
    <2>6. ASSUME NEW u \in Threads \ {t}
          PROVE  /\ crossed[u] \subseteq crossed'[u]
                 /\ u \in refused => u \in refused'
                 /\ pc[u] \in DeletePcs /\ host[u] = h =>
                       \A f \in Families \ crossed'[u] : dns'[h][f] = dns[h][f]
        BY <2>5 DEF Cross, TypeOK
    <2>7. Bystanders(t)
        BY <1>1, <1>2, <2>1, <2>4, <2>6 DEF Bystanders
    <2>8. QED
        BY <1>2, <1>4, <2>1, <2>2, <2>7 DEF Excused, Planned, Removed, PublishPcs
<1>6. CASE DeleteRefused(t)
    <2>1. pc[t] = "del_send" /\ pc'[t] = "del_store" /\ pc[t] \notin UpdatePcs
        BY <1>6 DEF DeleteRefused, TypeOK, UpdatePcs, PublishPcs
    <2>2. OnlyThread(t) /\ OnlyHost(h) /\ host'[t] = h
        BY <1>6, <2>1, DeleteFrame
    <2>3. Bystanders(t)
        BY <1>1, <1>2, <1>6 DEF DeleteRefused, Bystanders, threadVars
    <2>4. Removed(t)'
        BY <1>2, <1>3, <1>6, <2>1 DEF DeleteRefused, Removed, threadVars
    <2>5. QED
        BY <1>4, <2>1, <2>2, <2>3, <2>4 DEF Excused, Planned, PublishPcs
<1>7. CASE DeleteFault(t)
    <2>1. pc[t] \in DeletePcs /\ pc'[t] = "del_failed" /\ pc[t] \notin UpdatePcs
        BY <1>7 DEF DeleteFault, TypeOK, UpdatePcs, PublishPcs, DeletePcs
    <2>2. OnlyThread(t) /\ OnlyHost(h) /\ host'[t] = h
        BY <1>7, <2>1, DeleteFrame
    <2>3. /\ suspect[h] \subseteq suspect'[h]
          /\ \A f \in Families : dns'[h][f] \in {dns[h][f], None}
          /\ \A u \in Threads \ {t} : found'[u] = found[u] \/ Current(u) \in suspect'[host[u]]
        <3>1. CASE UNCHANGED <<dns, found, suspect>>
            BY <3>1
        <3>2. CASE /\ dns' = [dns EXCEPT ![h][k] = None]
                   /\ ForgetId(t, h, k) /\ Suspect(h, {k})
            <4>1. suspect'[h] = suspect[h] \cup {k}
                BY <1>1, <3>2 DEF Suspect, TypeOK
            <4>2. QED
                BY <1>1, <3>2, <4>1 DEF ForgetId, TypeOK, Row
        <3>3. CASE dns' = [dns EXCEPT ![h] = Blank] /\ Suspect(h, Families) /\ UNCHANGED found
            BY <1>1, <3>3 DEF Suspect, TypeOK, Blank
        <3>4. QED
            BY <1>7, <3>1, <3>2, <3>3 DEF DeleteFault
    <2>4. Bystanders(t)
        BY <1>1, <1>2, <1>7, <2>3 DEF DeleteFault, Bystanders
    <2>5. QED
        BY <1>4, <2>1, <2>2, <2>4 DEF Excused, Planned, Removed, PublishPcs
<1>8. CASE StoreRaises(t)
    <2>1. pc'[t] = "idle" /\ UNCHANGED dns
        BY <1>8 DEF StoreRaises, Finish, tableVars
    <2>2. OnlyThread(t) /\ OnlyHost(h) /\ host'[t] = h
        BY <1>8, DeleteFrame, UpdateFrame
    <2>3. Bystanders(t)
        BY <1>1, <1>2, <1>8 DEF StoreRaises, Finish, Suspect, Bystanders, TypeOK, DeletePcs
    <2>4. QED
        BY <1>4, <2>1, <2>2, <2>3 DEF Excused, Planned, Removed, PublishPcs
<1>9. QED
    BY <1>5, <1>6, <1>7, <1>8 DEF Failure

\* Traceable is inductive, given the types and Coherent.
LEMMA TraceableStep == TypeOK /\ Coherent /\ Traceable /\ [Next]_vars => Traceable'
<1> SUFFICES ASSUME TypeOK, Coherent, Traceable, [Next]_vars PROVE Traceable'
    OBVIOUS
<1>1. CASE UNCHANGED vars
    BY <1>1
    DEF vars, tableVars, threadVars, Traceable, Excused, Planned, Removed, Logged, Current
<1>2. CASE Next
    BY <1>2, TraceableEnvironment, TraceableArrival, TraceableUpdateStep, TraceableDeleteStep,
       TraceableFailure
    DEF Next
<1>3. QED
    BY <1>1, <1>2

\* What every request is doing can be traced to the row, the events and the DNS.
LEMMA AlwaysTraceable == Spec => []Traceable
<1>1. TypeOK /\ Coherent /\ Traceable /\ [Next]_vars => Traceable'
    BY TraceableStep
<1>2. QED
    BY TypeCorrect, AlwaysCoherent, TraceableInit, <1>1, PTL DEF Spec

-----------------------------------------------------------------------------
\* Without failures, the newest event of a hostname that says updated or
\* unchanged carries the addresses of its row.
THEOREM AuditIsCurrent == Spec => []AuditCurrent
<1>1. TypeOK /\ Traceable => AuditCurrent
    BY ConstantsAssumption DEF TypeOK, Traceable, Logged, AuditCurrent
<1>2. QED
    BY TypeCorrect, AlwaysTraceable, <1>1, PTL

\* A delete removes the rows of a hostname with nothing of it left in the DNS
\* but what an update published while the delete ran.
THEOREM DeletesLeaveOnlyCrossed == Spec => DeleteLeavesOnlyCrossed
<1>1. TypeOK /\ Traceable /\ [Next]_vars =>
          [Backend # "none" => \A t \in Threads \ refused : DeleteStore(t) =>
               \A f \in Families \ crossed[t] : dns[host[t]][f] = None]_vars
    BY DEF Traceable, Removed, DeleteStore
<1>2. QED
    BY TypeCorrect, AlwaysTraceable, <1>1, PTL DEF Spec, DeleteLeavesOnlyCrossed

\* The row upsert writes is the one that was previewed and published, unless
\* a delete has removed the row in between.
THEOREM StoresWhatWasPublished == Spec => StoredIsPublished
<1>1. ASSUME TypeOK, Coherent, Traceable, [Next]_vars,
             NEW t \in Threads, pc[t] = "select", pc'[t] = "insert", host[t] \in stored
      PROVE  eff'[t] = eff[t]
    <2>1. eff[t] = Effective(records[host[t]], want[t])
        BY <1>1 DEF Traceable, Planned
    <2>2. UpsertSelect(t) => eff'[t] = eff[t]
        BY <1>1, <2>1 DEF UpsertSelect, TypeOK
    <2>3. ASSUME NEW u \in Threads,
                 Arrival(u) \/ AcquireLock(u) \/ UpdateStep(u) \/ DeleteStep(u) \/ Failure(u)
          PROVE  UpsertSelect(t)
        <3>1. CASE u = t
            <4>1. ~Arrival(t) /\ ~AcquireLock(t) /\ ~DeleteStep(t)
                BY <1>1
                DEF Arrival, BeginDelete, LookupForUpdate, AcquireLock, DeleteStep, DeleteFind,
                    DeleteWrite, DeleteStale, DeleteSend, LogDeleteFailure, DeleteStore
            <4>2. ~Failure(t)
                BY <1>1
                DEF Failure, PublishFault, DeleteRefused, DeleteFault, StoreRaises, Finish, PublishPcs
            <4>3. UpdateStep(t) => UpsertSelect(t)
                BY <1>1
                DEF UpdateStep, PreviewUpdate, PublishFind, PublishWrite, PublishStale, PublishSend,
                    LogPublishFailure, UpsertInsert, LogUpdate
            <4>4. QED
                BY <2>3, <3>1, <4>1, <4>2, <4>3
        <3>2. CASE u # t
            <4>1. pc'[t] = pc[t]
                BY <1>1, <2>3, <3>2
                DEF TypeOK, Arrival, BeginDelete, LookupForUpdate, AcquireLock, UpdateStep,
                    PreviewUpdate, PublishFind, PublishWrite, PublishStale, PublishSend,
                    LogPublishFailure, UpsertSelect, UpsertInsert, LogUpdate, DeleteStep,
                    DeleteFind, DeleteWrite, DeleteStale, DeleteSend, LogDeleteFailure,
                    DeleteStore, Failure, PublishFault, DeleteRefused, DeleteFault, StoreRaises,
                    Finish
            <4>2. QED
                BY <1>1, <4>1
        <3>3. QED
            BY <3>1, <3>2
    <2>4. ~Environment /\ ~UNCHANGED vars
        BY <1>1
        DEF Environment, CreateAccount, GrowOld, Cleanup, Crash, Finish, vars
    <2>5. QED
        BY <1>1, <2>2, <2>3, <2>4 DEF Next
<1>2. TypeOK /\ Coherent /\ Traceable /\ [Next]_vars =>
          [\A t \in Threads :
              pc[t] = "select" /\ pc'[t] = "insert" /\ host[t] \in stored => eff'[t] = eff[t]]_vars
    BY <1>1
<1>3. QED
    BY TypeCorrect, AlwaysCoherent, AlwaysTraceable, <1>2, PTL DEF Spec, StoredIsPublished

-----------------------------------------------------------------------------
(* The refinement.                                                         *)

\* What the service promises of a hostname, and what it does to it in a step.
LEMMA PromiseOf ==
    ASSUME NEW h \in Hosts
    PROVE  /\ Busy[h] = (holder[h] # Free)
           /\ InFlight[h] = IF holder[h] = Free THEN NoRequest ELSE want[holder[h]]
           /\ Trouble[h] <=> faults > 0 \/ \E t \in Threads : host[t] = h /\ pc[t] \in DeletePcs
           /\ Busy'[h] = (holder'[h] # Free)
           /\ InFlight'[h] = IF holder'[h] = Free THEN NoRequest ELSE want'[holder'[h]]
           /\ Trouble'[h] <=> faults' > 0 \/ \E t \in Threads : host'[t] = h /\ pc'[t] \in DeletePcs
           /\ Promise!Nothing = NoRequest
           /\ \A req : Promise!Named(req) = Updated(req)
BY DEF Busy, InFlight, Trouble, NoRequest, Updated, Promise!Nothing, Promise!Named

\* At first every hostname is at rest, its row and its records blank.
LEMMA PromiseInit == Init => Promise!Init
BY PromiseOf DEF Init, Promise!Init

\* A step that leaves the copies, the lock and the request of its holder alone.
LEMMA AtRest ==
    ASSUME NEW g \in Hosts, records'[g] = records[g], dns'[g] = dns[g], suspect'[g] = suspect[g],
           holder'[g] = holder[g], holder[g] # Free => want'[holder[g]] = want[holder[g]]
    PROVE  Promise!Step(g)
BY PromiseOf DEF Promise!Step, Promise!Rest, Promise!Same

\* The hostnames a thread does not work on are at rest.
LEMMA OthersAtRest ==
    ASSUME TypeOK, Coherent, NEW t \in Threads, NEW h \in Hosts, h = host[t],
           OnlyThread(t), OnlyHost(h), Promise!Step(h)
    PROVE  Promise!Next
<1>1. ASSUME NEW g \in Hosts \ {h} PROVE Promise!Step(g)
    <2>1. holder[g] # Free => holder[g] \in Threads \ {t}
        BY DEF TypeOK, Coherent, Exclusive
    <2>2. QED
        BY <2>1, AtRest DEF OnlyThread, OnlyHost
<1>2. QED
    BY <1>1 DEF Promise!Next

\* Accounts, ageing and the cleanup leave every hostname at rest; a crash
\* gives up the updates under way.
LEMMA PromiseEnvironment ==
    ASSUME TypeOK, Coherent, Backend # "none", Environment
    PROVE  Promise!Next
<1>1. CASE UNCHANGED <<records, dns, suspect, holder, want>>
    BY <1>1, AtRest DEF Promise!Next
<1>2. CASE Crash
    <2>1. ASSUME NEW h \in Hosts PROVE Promise!Step(h)
        <3>1. /\ dns'[h] = dns[h] /\ records'[h] = records[h] /\ suspect[h] \subseteq suspect'[h]
              /\ holder'[h] = Free /\ faults' > 0
            BY <1>2 DEF Crash, Fault, TypeOK
        <3>2. CASE holder[h] = Free
            <4>1. Promise!Disturb(h)
                BY <3>1, <3>2, PromiseOf DEF Promise!Disturb, Promise!Troubled, Promise!Same
            <4>2. QED
                BY <4>1 DEF Promise!Step
        <3>3. CASE holder[h] # Free
            <4>1. holder[h] \in Threads /\ host[holder[h]] = h /\ pc[holder[h]] \in UpdatePcs
                BY <3>3 DEF TypeOK, Coherent, Exclusive
            <4>2. Touched(holder[h]) \subseteq suspect'[h]
                BY <1>2, <4>1 DEF Crash
            <4>3. \A f \in Families \ suspect'[h] : dns[h][f] = records[h][f]
                BY <3>1, <4>1, <4>2, UntouchedAgree
            <4>4. Promise!GiveUp(h)
                BY <3>1, <3>3, <4>3, PromiseOf
                DEF Promise!GiveUp, Promise!Troubled, Promise!Agree, Promise!Same
            <4>5. QED
                BY <4>4 DEF Promise!Step
        <3>4. QED
            BY <3>2, <3>3
    <2>2. QED
        BY <2>1 DEF Promise!Next
<1>3. QED
    BY <1>1, <1>2 DEF Environment, CreateAccount, GrowOld, Cleanup, tableVars, threadVars

\* A request that arrives changes nothing yet; with its lock it begins.
LEMMA PromiseArrival ==
    ASSUME TypeOK, Coherent, NEW t \in Threads, Arrival(t) \/ AcquireLock(t)
    PROVE  Promise!Next
<1>1. CASE Arrival(t)
    <2>1. /\ UNCHANGED <<records, dns, suspect, holder>>
          /\ \A u \in Threads \ {t} : want'[u] = want[u]
        BY <1>1 DEF Arrival, BeginDelete, LookupForUpdate, tableVars, TypeOK
    <2>2. ASSUME NEW g \in Hosts PROVE holder[g] # Free => holder[g] \in Threads \ {t}
        <3>1. pc[t] = "idle"
            BY <1>1 DEF Arrival, BeginDelete, LookupForUpdate
        <3>2. QED
            BY <3>1 DEF TypeOK, Coherent, Exclusive, UpdatePcs, PublishPcs
    <2>3. QED
        BY <2>1, <2>2, AtRest DEF Promise!Next
<1>2. CASE AcquireLock(t)
    <2>1. PICK h \in Hosts : h = host[t]
        BY DEF TypeOK
    <2>2. OnlyThread(t) /\ OnlyHost(h)
        BY <1>2, <2>1 DEF TypeOK, AcquireLock, OnlyThread, OnlyHost, tableVars, threadVars
    <2>3. /\ holder[h] = Free /\ holder'[h] = t /\ t # Free
          /\ UNCHANGED <<records, dns, suspect, want>>
        BY <1>2, <2>1, ConstantsAssumption DEF TypeOK, AcquireLock, tableVars, threadVars
    <2>4. want[t] \in Promise!Request
        BY DEF TypeOK, Promise!Request, Request
    <2>5. Promise!Begin(h)
        BY <2>3, <2>4, PromiseOf DEF Promise!Begin, Promise!Same
    <2>6. QED
        BY <2>1, <2>2, <2>5, OthersAtRest DEF Promise!Step
<1>3. QED
    BY <1>1, <1>2

\* Each statement of an update is a step of the promise to its hostname.
LEMMA PromiseUpdateStep ==
    ASSUME TypeOK, Coherent, Traceable, Backend # "none", NEW t \in Threads, UpdateStep(t)
    PROVE  Promise!Next
<1>1. PICK h \in Hosts : h = host[t]
    BY DEF TypeOK
<1>2. pc[t] \in UpdatePcs /\ t # Free
    BY ConstantsAssumption
    DEF TypeOK, UpdateStep, PreviewUpdate, PublishFind, PublishWrite, PublishStale, PublishSend,
        LogPublishFailure, UpsertSelect, UpsertInsert, LogUpdate, UpdatePcs, PublishPcs
<1>3. /\ OnlyThread(t) /\ OnlyHost(h) /\ holder[h] = t
      /\ holder'[h] = IF pc'[t] \in UpdatePcs THEN t ELSE Free
    BY <1>1, <1>2, UpdateFrame DEF Coherent, Exclusive
<1>4. /\ LocalsInStep(t) /\ Excused(t)
      /\ \A f \in Families \ suspect[h] : FamilyInStep(t, f)
    BY <1>1, <1>2 DEF Coherent, HolderInStep, Traceable
<1>5. SUFFICES Promise!Step(h)
    BY <1>1, <1>3, OthersAtRest
<1>6. Busy[h] = TRUE /\ InFlight[h] = want[t]
    BY <1>2, <1>3, PromiseOf
<1>7. ASSUME want'[t] = want[t], pc'[t] \in UpdatePcs
      PROVE  Busy'[h] = TRUE /\ InFlight'[h] = want[t]
    BY <1>2, <1>3, <1>7, PromiseOf
<1>8. ASSUME pc'[t] = "idle"
      PROVE  Busy'[h] = FALSE /\ InFlight'[h] = Promise!Nothing
    BY <1>3, <1>8, PromiseOf DEF UpdatePcs, PublishPcs
<1>9. CASE PreviewUpdate(t) \/ PublishFind(t) \/ UpsertSelect(t)
    <2>1. UNCHANGED <<records, dns, suspect, holder, want>>
        BY <1>9 DEF PreviewUpdate, PublishFind, UpsertSelect, tableVars
    <2>2. QED
        BY <2>1, AtRest
<1>10. CASE PublishWrite(t)
    <2> DEFINE k == Current(t)
    <2>1. k \in Updated(want[t]) /\ k \in Families /\ eff[t][k] = want[t][k]
        BY <1>4, <1>10, CurrentIsFamily
        DEF PublishWrite, LocalsInStep, PublishPcs, Current, Updated, Families
    <2>2. /\ suspect'[h] = suspect[h] \ {k} /\ records'[h] = records[h] /\ want'[t] = want[t]
          /\ pc'[t] \in UpdatePcs
        BY <1>1, <1>10 DEF PublishWrite, Trust, TypeOK, tableVars, UpdatePcs, PublishPcs
    <2>3. dns'[h] = [dns[h] EXCEPT ![k] = want[t][k]]
        BY <1>1, <1>10, <2>1 DEF PublishWrite, TypeOK
    <2>4. dns'[h] = [f \in Families |-> IF f \in {k} THEN want[t][f] ELSE dns[h][f]]
        BY <2>1, <2>3 DEF TypeOK, Row
    <2>5. {k} \in SUBSET Promise!Named(want[t])
        BY <2>1, PromiseOf
    <2>6. Promise!Publish(h)
        BY <1>6, <1>7, <2>2, <2>4, <2>5 DEF Promise!Publish, Promise!Same
    <2>7. QED
        BY <2>6 DEF Promise!Step
<1>11. CASE PublishStale(t)
    <2>1. /\ suspect'[h] = suspect[h] \cup Touched(t) /\ suspect[h] # {}
          /\ UNCHANGED <<records, dns, want>> /\ pc'[t] \in UpdatePcs
        BY <1>1, <1>4, <1>11
        DEF PublishStale, Suspect, Excused, TypeOK, tableVars, threadVars, UpdatePcs
    <2>2. Promise!Disturb(h)
        BY <1>6, <1>7, <2>1 DEF Promise!Disturb, Promise!Troubled, Promise!Same
    <2>3. QED
        BY <2>2 DEF Promise!Step
<1>12. CASE PublishSend(t)
    <2>1. todo[t] \in SUBSET Updated(want[t]) /\ \A f \in todo[t] : eff[t][f] = want[t][f]
        BY <1>4, <1>12 DEF PublishSend, LocalsInStep, PublishPcs
    <2>2. /\ suspect'[h] = suspect[h] \ todo[t] /\ records'[h] = records[h] /\ want'[t] = want[t]
          /\ dns'[h] = Sent(t) /\ pc'[t] \in UpdatePcs
        BY <1>1, <1>12 DEF PublishSend, Trust, TypeOK, tableVars, UpdatePcs
    <2>3. dns'[h] = [f \in Families |-> IF f \in todo[t] THEN want[t][f] ELSE dns[h][f]]
        BY <1>1, <2>1, <2>2 DEF Sent
    <2>4. todo[t] \in SUBSET Promise!Named(want[t])
        BY <2>1, PromiseOf
    <2>5. Promise!Publish(h)
        BY <1>6, <1>7, <2>2, <2>3, <2>4 DEF Promise!Publish, Promise!Same
    <2>6. QED
        BY <2>5 DEF Promise!Step
<1>13. CASE LogPublishFailure(t)
    <2>1. UNCHANGED <<records, dns, suspect>> /\ pc'[t] = "idle"
        BY <1>13 DEF LogPublishFailure, Finish
    <2>2. faults > 0 \/ suspect[h] # {}
        BY <1>1, <1>4, <1>13 DEF LogPublishFailure, Excused
    <2>3. \A f \in Families \ suspect[h] : dns[h][f] = records[h][f]
        BY <1>1, <1>4, <1>13 DEF LogPublishFailure, FamilyInStep
    <2>4. Promise!GiveUp(h)
        BY <1>6, <1>8, <2>1, <2>2, <2>3, PromiseOf
        DEF Promise!GiveUp, Promise!Troubled, Promise!Agree, Promise!Same
    <2>5. QED
        BY <2>4 DEF Promise!Step
<1>14. CASE UpsertInsert(t)
    <2>1. /\ UNCHANGED <<dns, suspect, want>> /\ records'[h] = eff[t] /\ pc'[t] \in UpdatePcs
        BY <1>1, <1>14 DEF UpsertInsert, TypeOK, threadVars, UpdatePcs
    <2>2. \A f \in Families \ suspect[h] : dns[h][f] = eff[t][f]
        BY <1>1, <1>4, <1>14 DEF UpsertInsert, FamilyInStep
    <2>3. Promise!Store(h)
        BY <1>6, <1>7, <2>1, <2>2 DEF Promise!Store, Promise!Same
    <2>4. QED
        BY <2>3 DEF Promise!Step
<1>15. CASE LogUpdate(t)
    <2>1. UNCHANGED <<records, dns, suspect>> /\ pc'[t] = "idle"
        BY <1>15 DEF LogUpdate, Finish
    <2>2. \A f \in Families \ suspect[h] :
              dns[h][f] = records[h][f] /\ (f \in Updated(want[t]) => dns[h][f] = want[t][f])
        BY <1>1, <1>4, <1>15 DEF LogUpdate, FamilyInStep
    <2>3. \A f \in Promise!Named(want[t]) : f \in Families /\ f \in Updated(want[t])
        BY PromiseOf DEF Updated
    <2>4. Promise!Answer(h)
        BY <1>6, <1>8, <2>1, <2>2, <2>3 DEF Promise!Answer, Promise!Agree, Promise!Same
    <2>5. QED
        BY <2>4 DEF Promise!Step
<1>16. QED
    BY <1>9, <1>10, <1>11, <1>12, <1>13, <1>14, <1>15 DEF UpdateStep

\* A delete disturbs its hostname and nothing else.
LEMMA PromiseDeleteStep ==
    ASSUME TypeOK, Coherent, NEW t \in Threads, DeleteStep(t)
    PROVE  Promise!Next
<1>1. PICK h \in Hosts : h = host[t]
    BY DEF TypeOK
<1>2. pc[t] \in DeletePcs /\ pc[t] \notin UpdatePcs
    BY DEF DeleteStep, DeleteFind, DeleteWrite, DeleteStale, DeleteSend, LogDeleteFailure,
           DeleteStore, UpdatePcs, PublishPcs, DeletePcs
<1>3. OnlyThread(t) /\ OnlyHost(h) /\ \A g \in Hosts : holder'[g] = holder[g]
    BY <1>1, <1>2, DeleteFrame
<1>4. holder[h] # Free => want'[holder[h]] = want[holder[h]]
    <2>1. holder[h] # t /\ holder[h] \in Threads \cup {Free}
        BY <1>2 DEF TypeOK, Coherent, Exclusive
    <2>2. QED
        BY <1>3, <2>1 DEF OnlyThread
<1>5. SUFFICES Promise!Step(h)
    BY <1>1, <1>3, OthersAtRest
<1>6. CASE DeleteFind(t) \/ DeleteStale(t) \/ LogDeleteFailure(t)
    <2>1. UNCHANGED <<records, dns, suspect>>
        BY <1>6 DEF DeleteFind, DeleteStale, LogDeleteFailure, tableVars
    <2>2. QED
        BY <1>3, <1>4, <2>1, AtRest
<1>7. ASSUME suspect[h] \subseteq suspect'[h],
             \A f \in Families \ suspect'[h] :
                 dns'[h][f] = dns[h][f] /\ records'[h][f] = records[h][f]
      PROVE  Promise!Step(h)
    <2>1. Trouble[h]
        BY <1>1, <1>2, PromiseOf
    <2>2. Promise!Disturb(h)
        BY <1>3, <1>4, <1>7, <2>1, PromiseOf DEF Promise!Disturb, Promise!Troubled, Promise!Same
    <2>3. QED
        BY <2>2 DEF Promise!Step
<1>8. CASE DeleteWrite(t)
    <2>1. suspect'[h] = suspect[h] \cup {Current(t)} /\ UNCHANGED records
        BY <1>1, <1>8, CurrentIsFamily DEF DeleteWrite, Suspect, TypeOK, tableVars
    <2>2. \A f \in Families \ {Current(t)} : dns'[h][f] = dns[h][f]
        BY <1>1, <1>8, CurrentIsFamily DEF DeleteWrite, TypeOK, Row
    <2>3. QED
        BY <1>7, <2>1, <2>2
<1>9. CASE DeleteSend(t) \/ DeleteStore(t)
    <2>1. suspect'[h] = suspect[h] \cup Families
        BY <1>1, <1>9 DEF DeleteSend, DeleteStore, Suspect, TypeOK
    <2>2. QED
        BY <1>7, <2>1
<1>10. QED
    BY <1>6, <1>8, <1>9 DEF DeleteStep

\* A failed call disturbs its hostname; a store failure under the lock gives
\* the update up.
LEMMA PromiseFailure ==
    ASSUME TypeOK, Coherent, Backend # "none", NEW t \in Threads, Failure(t)
    PROVE  Promise!Next
<1>1. PICK h \in Hosts : h = host[t]
    BY DEF TypeOK
<1>2. faults' > 0 /\ t # Free
    BY ConstantsAssumption
    DEF TypeOK, Failure, PublishFault, DeleteRefused, DeleteFault, StoreRaises, Fault
<1>3. ASSUME OnlyThread(t), holder'[h] = holder[h], want'[t] = want[t] \/ holder[h] # t,
             suspect[h] \subseteq suspect'[h],
             \A f \in Families \ suspect'[h] :
                 dns'[h][f] = dns[h][f] /\ records'[h][f] = records[h][f]
      PROVE  Promise!Step(h)
    <2>1. holder[h] # Free => want'[holder[h]] = want[holder[h]]
        BY <1>3 DEF OnlyThread, TypeOK
    <2>2. Trouble'[h]
        BY <1>2, PromiseOf
    <2>3. Promise!Disturb(h)
        BY <1>3, <2>1, <2>2, PromiseOf DEF Promise!Disturb, Promise!Troubled, Promise!Same
    <2>4. QED
        BY <2>3 DEF Promise!Step
<1>4. CASE PublishFault(t)
    <2>1. pc[t] \in UpdatePcs /\ pc'[t] \in UpdatePcs
        BY <1>4 DEF PublishFault, TypeOK, UpdatePcs
    <2>2. OnlyThread(t) /\ OnlyHost(h) /\ holder'[h] = holder[h]
        BY <1>1, <1>4, <2>1, UpdateFrame DEF Coherent, Exclusive
    <2>3. suspect'[h] = suspect[h] \cup Touched(t) /\ UNCHANGED <<records, want>>
        BY <1>1, <1>4 DEF PublishFault, Suspect, TypeOK, tableVars
    <2>4. \A f \in Families \ Touched(t) : dns'[h][f] = dns[h][f]
        <3>1. CASE dns' = dns
            BY <3>1
        <3>2. CASE pc[t] = "send" /\ dns' = [dns EXCEPT ![h] = Sent(t)]
            BY <1>1, <3>2 DEF TypeOK, Sent, Touched, PublishPcs
        <3>3. CASE pc[t] = "write" /\ dns' = [dns EXCEPT ![h][Current(t)] = eff[t][Current(t)]]
            BY <3>3, CurrentIsFamily DEF TypeOK, Row, Touched, PublishPcs
        <3>4. QED
            BY <1>1, <1>4, <3>1, <3>2, <3>3 DEF PublishFault
    <2>5. QED
        BY <1>1, <1>3, <2>2, <2>3, <2>4, OthersAtRest
<1>5. CASE DeleteRefused(t) \/ DeleteFault(t) \/ (StoreRaises(t) /\ pc[t] \notin UpdatePcs)
    <2>1. pc[t] \notin UpdatePcs
        BY <1>5 DEF DeleteRefused, DeleteFault, UpdatePcs, PublishPcs
    <2>2. OnlyThread(t) /\ OnlyHost(h) /\ holder'[h] = holder[h] /\ holder[h] # t
        BY <1>1, <1>5, <2>1, DeleteFrame DEF Coherent, Exclusive
    <2>3. UNCHANGED records
        BY <1>5 DEF DeleteRefused, DeleteFault, StoreRaises, tableVars
    <2>4. /\ suspect[h] \subseteq suspect'[h]
          /\ \A f \in Families \ suspect'[h] : dns'[h][f] = dns[h][f]
        <3>1. CASE UNCHANGED dns
            BY <1>1, <1>5, <3>1 DEF DeleteRefused, DeleteFault, StoreRaises, Suspect, TypeOK
        <3>2. CASE /\ dns' = [dns EXCEPT ![host[t]][Current(t)] = None]
                   /\ Suspect(host[t], {Current(t)})
            BY <1>1, <3>2, CurrentIsFamily DEF Suspect, TypeOK, Row
        <3>3. CASE Suspect(host[t], Families)
            BY <1>1, <3>3 DEF Suspect, TypeOK
        <3>4. QED
            BY <1>5, <3>1, <3>2, <3>3 DEF DeleteRefused, DeleteFault, StoreRaises, tableVars
    <2>5. QED
        BY <1>1, <1>3, <2>2, <2>3, <2>4, OthersAtRest
<1>6. CASE StoreRaises(t) /\ pc[t] \in UpdatePcs
    <2>1. /\ OnlyThread(t) /\ OnlyHost(h) /\ holder[h] = t
          /\ pc'[t] = "idle" /\ UNCHANGED <<records, dns>>
        BY <1>1, <1>6, UpdateFrame DEF Coherent, Exclusive, StoreRaises, Finish, tableVars
    <2>2. holder'[h] = Free
        BY <1>1, <1>6, <2>1, UpdateFrame DEF UpdatePcs, PublishPcs
    <2>3. suspect'[h] = suspect[h] \cup Touched(t)
        BY <1>1, <1>6 DEF StoreRaises, Suspect, TypeOK
    <2>4. \A f \in Families \ suspect'[h] : dns[h][f] = records[h][f]
        BY <1>1, <1>6, <2>3, UntouchedAgree
    <2>5. Promise!GiveUp(h)
        BY <1>2, <2>1, <2>2, <2>3, <2>4, PromiseOf
        DEF Promise!GiveUp, Promise!Troubled, Promise!Agree, Promise!Same
    <2>6. QED
        BY <1>1, <2>1, <2>5, OthersAtRest DEF Promise!Step
<1>7. QED
    BY <1>4, <1>5, <1>6 DEF Failure

\* With a DNS backend, the service implements HostPromise.
THEOREM PromiseIsKept ==
    ASSUME Backend # "none"
    PROVE  Spec => KeepsPromise
<1>1. TypeOK /\ Coherent /\ Traceable /\ [Next]_vars => [Promise!Next]_(Promise!promised)
    <2> SUFFICES ASSUME TypeOK, Coherent, Traceable, [Next]_vars
                 PROVE  Promise!Next
        OBVIOUS
    <2>1. CASE UNCHANGED vars
        BY <2>1, AtRest DEF vars, tableVars, threadVars, Promise!Next
    <2>2. CASE Next
        BY <2>2, PromiseEnvironment, PromiseArrival, PromiseUpdateStep, PromiseDeleteStep,
           PromiseFailure
        DEF Next
    <2>3. QED
        BY <2>1, <2>2
<1>2. QED
    BY TypeCorrect, AlwaysCoherent, AlwaysTraceable, PromiseInit, <1>1, PTL
    DEF Spec, KeepsPromise, Promise!Spec

\* HostPromise says what it should: whatever keeps it has its rows and records
\* agree, outside the doubtful families, whenever nothing is busy.
THEOREM PromiseMeansAgreement == KeepsPromise => []StoreAndDnsAgree
<1> DEFINE Agreed == \A h \in Hosts : ~Busy[h] => Promise!Agree(h, suspect[h])
<1>1. Promise!Init => Agreed
    BY DEF Promise!Init, Promise!Agree
<1>2. Agreed /\ [Promise!Next]_(Promise!promised) => Agreed'
  <2> SUFFICES ASSUME Agreed, [Promise!Next]_(Promise!promised), NEW h \in Hosts, ~Busy'[h]
               PROVE  \A f \in Families \ suspect'[h] : dns'[h][f] = records'[h][f]
      BY DEF Promise!Agree
  <2>1. CASE UNCHANGED Promise!promised
      BY <2>1 DEF Promise!promised, Promise!Agree
  <2>2. CASE Promise!Step(h)
      BY <2>2
      DEF Promise!Step, Promise!Begin, Promise!Publish, Promise!Store, Promise!Answer,
          Promise!GiveUp, Promise!Disturb, Promise!Rest, Promise!Agree, Promise!Same
  <2> QED
      BY <2>1, <2>2 DEF Promise!Next
<1>3. Agreed => StoreAndDnsAgree
    BY PromiseOf DEF StoreAndDnsAgree, Promise!Agree
<1> QED
    BY <1>1, <1>2, <1>3, PTL DEF KeepsPromise, Promise!Spec

-----------------------------------------------------------------------------
(* What happens where nothing fails and nobody deletes.                    *)

\* No failure has happened, no delete is under way, no family is suspect.
Quiet ==
    /\ faults = 0
    /\ \A h \in Hosts : suspect[h] = {}
    /\ \A t \in Threads : pc[t] \notin DeletePcs

\* Where nothing may fail and nobody may delete, it stays quiet: nothing else
\* makes an update fail, or a family suspect.
LEMMA QuietStep ==
    ASSUME TypeOK, Coherent, Traceable, Quiet, MaxFaults = 0, Deleters = {}, [Next]_vars
    PROVE  Quiet'
<1>0. ~Fault
    BY DEF Quiet, Fault
<1>1. CASE UNCHANGED <<faults, suspect, pc>>
    BY <1>1 DEF Quiet
<1>2. CASE Environment
    BY <1>0, <1>1, <1>2 DEF Environment, CreateAccount, GrowOld, Cleanup, Crash
<1>3. ASSUME NEW t \in Threads,
             Arrival(t) \/ AcquireLock(t) \/ UpdateStep(t) \/ DeleteStep(t) \/ Failure(t)
      PROVE  Quiet'
  <2>1. ~DeleteStep(t) /\ ~Failure(t) /\ ~PublishStale(t)
    <3>1. ~DeleteStep(t)
        BY DEF Quiet, DeletePcs, DeleteStep, DeleteFind, DeleteWrite, DeleteStale, DeleteSend,
               LogDeleteFailure, DeleteStore
    <3>2. ~Failure(t)
        BY <1>0 DEF Failure, PublishFault, DeleteRefused, DeleteFault, StoreRaises
    <3>3. ~PublishStale(t)
        BY DEF PublishStale, Quiet, Traceable, Excused, TypeOK
    <3> QED
        BY <3>1, <3>2, <3>3
  <2>2. CASE Arrival(t) \/ AcquireLock(t)
      BY <2>2
      DEF Arrival, BeginDelete, LookupForUpdate, AcquireLock, Quiet, TypeOK, DeletePcs
  <2>3. CASE UpdateStep(t)
    <3>1. UNCHANGED faults /\ \A u \in Threads : pc'[u] = pc[u] \/ pc'[u] \notin DeletePcs
        BY <2>1, <2>3
        DEF UpdateStep, PreviewUpdate, PublishPlan, PublishFind, PublishWrite, PublishSend,
            LogPublishFailure, UpsertSelect, UpsertInsert, LogUpdate, Finish, TypeOK, DeletePcs
    <3>2. \A h \in Hosts : suspect'[h] \subseteq suspect[h]
        BY <2>1, <2>3
        DEF UpdateStep, PreviewUpdate, PublishFind, PublishWrite, PublishSend, Trust,
            LogPublishFailure, UpsertSelect, UpsertInsert, LogUpdate, TypeOK
    <3> QED
        BY <3>1, <3>2 DEF Quiet
  <2> QED
      BY <1>3, <2>1, <2>2, <2>3
<1> QED
    BY <1>1, <1>2, <1>3 DEF Next, vars

\* Without failures and deletes the exception for suspect families is no
\* loophole: the records table and the DNS are equal whenever nobody updates.
THEOREM QuietCopiesEqual ==
    ASSUME MaxFaults = 0, Deleters = {}, Backend # "none"
    PROVE  Spec => []CopiesEqual
<1>1. Init => Quiet
    BY DEF Init, Quiet, DeletePcs
<1>2. TypeOK /\ Coherent /\ Traceable /\ Quiet /\ [Next]_vars => Quiet'
    BY QuietStep
<1>3. TypeOK /\ Coherent /\ Quiet => CopiesEqual
  <2> SUFFICES ASSUME TypeOK, Coherent, Quiet, NEW h \in Hosts, holder[h] = Free
               PROVE  dns[h] = records[h]
      BY DEF CopiesEqual
  <2>1. \A f \in Families : dns[h][f] = records[h][f]
      BY DEF Quiet, Coherent, StoreAndDnsAgree
  <2> QED
      BY <2>1 DEF TypeOK, Row
<1> QED
    BY TypeCorrect, AlwaysCoherent, AlwaysTraceable, <1>1, <1>2, <1>3, PTL DEF Spec

-----------------------------------------------------------------------------
(* The locks.                                                              *)

\* A step of an update is one of a thread that has the lock of its hostname.
LEMMA UpdateAtWork ==
    ASSUME TypeOK, NEW t \in Threads,
           UpdateStep(t) \/ PublishFault(t) \/ (StoreRaises(t) /\ pc[t] \in UpdatePcs)
    PROVE  pc[t] \in UpdatePcs /\ pc'[t] \in UpdatePcs \cup {"idle"}
<1> USE DEF TypeOK, UpdatePcs, PublishPcs
<1>1. CASE PublishFault(t)
    BY <1>1 DEF PublishFault
<1>2. CASE StoreRaises(t) /\ pc[t] \in UpdatePcs
    BY <1>2 DEF StoreRaises, Finish
<1>3. CASE PreviewUpdate(t)
    BY <1>3 DEF PreviewUpdate, PublishPlan
<1>4. CASE PublishFind(t) \/ PublishWrite(t) \/ PublishStale(t) \/ PublishSend(t)
    BY <1>4 DEF PublishFind, PublishWrite, PublishStale, PublishSend
<1>5. CASE UpsertSelect(t) \/ UpsertInsert(t)
    BY <1>5 DEF UpsertSelect, UpsertInsert
<1>6. CASE LogPublishFailure(t) \/ LogUpdate(t)
    BY <1>6 DEF LogPublishFailure, LogUpdate, Finish
<1> QED
    BY <1>1, <1>2, <1>3, <1>4, <1>5, <1>6 DEF UpdateStep

\* A delete, and a failure outside the lock, is one of a thread without one.
LEMMA DeleteAtWork ==
    ASSUME TypeOK, NEW t \in Threads,
           \/ DeleteStep(t) \/ DeleteRefused(t) \/ DeleteFault(t)
           \/ StoreRaises(t) /\ pc[t] \notin UpdatePcs
    PROVE  pc[t] \notin UpdatePcs \cup {"lock"} /\ pc'[t] \notin UpdatePcs \cup {"lock"}
<1> USE DEF TypeOK, UpdatePcs, PublishPcs
<1>1. CASE DeleteRefused(t) \/ DeleteFault(t)
    BY <1>1 DEF DeleteRefused, DeleteFault
<1>2. CASE StoreRaises(t) /\ pc[t] \notin UpdatePcs
    BY <1>2 DEF StoreRaises, StorePcs, Finish
<1>3. CASE DeleteStep(t)
    BY <1>3
    DEF DeleteStep, DeleteFind, DeleteWrite, DeleteStale, DeleteSend, LogDeleteFailure,
        DeleteStore, Finish
<1> QED
    BY <1>1, <1>2, <1>3

\* A thread that neither comes to a lock nor leaves one changes no waiting.
LEMMA WaitingRests ==
    ASSUME TypeOK, NEW t \in Threads, OnlyThread(t), pc[t] # "lock", pc'[t] # "lock"
    PROVE  WaitingFor' = WaitingFor
BY DEF WaitingFor, OnlyThread

\* A request that arrives asks for the lock of its hostname, or for none.
LEMMA ArrivalAsks ==
    ASSUME TypeOK, Coherent, NEW t \in Threads, Arrival(t)
    PROVE  [Lock!Next]_(Lock!locks)
<1>1. ASSUME NEW h \in Hosts, BeginDelete(t, h) PROVE UNCHANGED <<WaitingFor, holder>>
  <2>1. OnlyThread(t) /\ pc[t] = "idle" /\ pc'[t] # "lock" /\ UNCHANGED holder
      BY <1>1 DEF BeginDelete, OnlyThread, TypeOK
  <2> QED
      BY <2>1, WaitingRests
<1>2. ASSUME NEW h \in Hosts, NEW req \in Requests, LookupForUpdate(t, h, req) PROVE Lock!Ask(t, h)
  <2>1. Lock!Idle(t)
    <3>1. pc[t] = "idle" /\ "idle" \notin UpdatePcs
        BY <1>2 DEF LookupForUpdate, UpdatePcs, PublishPcs
    <3> QED
        BY <3>1 DEF Lock!Idle, WaitingFor, Coherent, Exclusive
  <2>2. WaitingFor' = [WaitingFor EXCEPT ![h] = @ \cup {t}]
    <3>1. \A u \in Threads : /\ pc'[u] = IF u = t THEN "lock" ELSE pc[u]
                             /\ host'[u] = IF u = t THEN h ELSE host[u]
        BY <1>2 DEF LookupForUpdate, TypeOK
    <3>2. pc[t] = "idle"
        BY <1>2 DEF LookupForUpdate
    <3>3. \A g \in Hosts : WaitingFor'[g] = IF g = h THEN WaitingFor[g] \cup {t} ELSE WaitingFor[g]
        BY <3>1, <3>2 DEF WaitingFor
    <3> QED
        BY <3>3 DEF WaitingFor
  <2> QED
      BY <1>2, <2>1, <2>2 DEF Lock!Ask, LookupForUpdate
<1> QED
    BY <1>1, <1>2 DEF Arrival, Lock!Next, Lock!locks

\* The update at the head of nobody's queue takes a lock that is free.
LEMMA AcquireTakes ==
    ASSUME TypeOK, NEW t \in Threads, AcquireLock(t)
    PROVE  Lock!Take(t, host[t])
<1>1. \A u \in Threads : pc'[u] = (IF u = t THEN "preview" ELSE pc[u]) /\ host'[u] = host[u]
    BY DEF AcquireLock, TypeOK, threadVars
<1>2. pc[t] = "lock" /\ host[t] \in Hosts
    BY DEF AcquireLock, TypeOK
<1>3. \A g \in Hosts :
         WaitingFor'[g] = IF g = host[t] THEN WaitingFor[g] \ {t} ELSE WaitingFor[g]
    BY <1>1, <1>2 DEF WaitingFor
<1>4. WaitingFor' = [WaitingFor EXCEPT ![host[t]] = @ \ {t}] /\ t \in WaitingFor[host[t]]
    BY <1>2, <1>3 DEF WaitingFor
<1> QED
    BY <1>4 DEF Lock!Take, AcquireLock

\* A step of an update gives the lock back when it ends the update, by an
\* answer or by an exception, and changes no lock otherwise.
LEMMA UpdateGives ==
    ASSUME TypeOK, TypeOK', Coherent, NEW t \in Threads,
           UpdateStep(t) \/ PublishFault(t) \/ (StoreRaises(t) /\ pc[t] \in UpdatePcs)
    PROVE  UNCHANGED <<WaitingFor, holder>> \/ Lock!Give(t, host[t])
<1>1. /\ pc[t] \in UpdatePcs /\ pc'[t] \in UpdatePcs \cup {"idle"}
      /\ OnlyThread(t) /\ OnlyHost(host[t]) /\ host[t] \in Hosts
      /\ holder'[host[t]] = IF pc'[t] \in UpdatePcs THEN t ELSE Free
    BY UpdateAtWork, UpdateFrame DEF TypeOK
<1>2. holder[host[t]] = t
    BY <1>1 DEF Coherent, Exclusive
<1>3. WaitingFor' = WaitingFor
    BY <1>1, WaitingRests DEF UpdatePcs, PublishPcs
<1>4. \A g \in Hosts : g # host[t] => holder'[g] = holder[g]
    BY <1>1 DEF OnlyHost
<1>5. CASE pc'[t] \in UpdatePcs
  <2>1. holder' = holder
      BY <1>1, <1>2, <1>4, <1>5 DEF TypeOK
  <2> QED
      BY <1>3, <2>1
<1>6. CASE pc'[t] \notin UpdatePcs
  <2>1. holder' = [holder EXCEPT ![host[t]] = Free]
      BY <1>1, <1>4, <1>6 DEF TypeOK
  <2> QED
      BY <1>2, <1>3, <2>1 DEF Lock!Give
<1> QED
    BY <1>5, <1>6

\* UsesHostLock: the lock that DdnsService models as one variable is the one
\* that Serving makes of a dictionary, its guard and the locks in it.
THEOREM LocksAreUsedAsPromised == Spec => UsesHostLock
<1>1. Init => Lock!Init
    BY DEF Init, Lock!Init, WaitingFor
<1>2. ASSUME TypeOK, TypeOK', Coherent, [Next]_vars PROVE [Lock!Next]_(Lock!locks)
  <2>1. CASE UNCHANGED <<holder, pc, host>>
      BY <2>1 DEF Lock!locks, WaitingFor
  <2>2. CASE Crash
    <3>1. holder' = [h \in Hosts |-> Free] /\ \A t \in Threads : pc'[t] = "idle"
        BY <2>2 DEF Crash, Finish
    <3>2. WaitingFor' = [h \in Hosts |-> {}]
        BY <3>1 DEF WaitingFor
    <3> QED
        BY <3>1, <3>2 DEF Lock!Down, Lock!Next
  <2>3. ASSUME NEW t \in Threads, Arrival(t) PROVE [Lock!Next]_(Lock!locks)
      BY <1>2, <2>3, ArrivalAsks
  <2>4. ASSUME NEW t \in Threads, AcquireLock(t) PROVE Lock!Next
    <3>1. host[t] \in Hosts
        BY <1>2 DEF TypeOK
    <3> QED
        BY <1>2, <2>4, <3>1, AcquireTakes DEF Lock!Next
  <2>5. ASSUME NEW t \in Threads,
               UpdateStep(t) \/ PublishFault(t) \/ (StoreRaises(t) /\ pc[t] \in UpdatePcs)
        PROVE  [Lock!Next]_(Lock!locks)
    <3>1. host[t] \in Hosts
        BY <1>2 DEF TypeOK
    <3> QED
        BY <1>2, <2>5, <3>1, UpdateGives DEF Lock!Next, Lock!locks
  <2>6. ASSUME NEW t \in Threads,
               \/ DeleteStep(t) \/ DeleteRefused(t) \/ DeleteFault(t)
               \/ StoreRaises(t) /\ pc[t] \notin UpdatePcs
        PROVE  UNCHANGED Lock!locks
    <3>1. OnlyThread(t) /\ \A g \in Hosts : holder'[g] = holder[g]
        BY <1>2, <2>6, DeleteAtWork, DeleteFrame
    <3>2. WaitingFor' = WaitingFor
        BY <1>2, <2>6, <3>1, DeleteAtWork, WaitingRests
    <3>3. holder' = holder
        BY <1>2, <3>1 DEF TypeOK
    <3> QED
        BY <3>2, <3>3 DEF Lock!locks
  <2>7. CASE Environment \/ UNCHANGED vars
      BY <2>1, <2>2, <2>7 DEF Environment, CreateAccount, GrowOld, Cleanup, vars, threadVars
  <2> QED
      BY <1>2, <2>3, <2>4, <2>5, <2>6, <2>7 DEF Next, Failure
<1>3. TypeOK /\ TypeOK' /\ Coherent /\ [Next]_vars => [Lock!Next]_(Lock!locks)
    BY <1>2
<1> QED
    BY TypeCorrect, AlwaysCoherent, <1>1, <1>3, PTL DEF Spec, UsesHostLock, Lock!Spec

-----------------------------------------------------------------------------
(* How long a lock is held.                                                *)

\* What is left of a publish: two calls for each family to do.
LEMMA PublishingIs ==
    ASSUME NEW t \in Threads
    PROVE  /\ Publishing(t) \in 0..4 /\ (todo[t] \cap Families # {} => Publishing(t) >= 2)
           /\ Publishing(t)' \in 0..4
           /\ \A f \in Families :
                 f \in todo[t] /\ todo'[t] = todo[t] \ {f} => Publishing(t)' = Publishing(t) - 2
BY DEF Publishing, Family, Families

\* A thread whose step and families stay has as many calls left.
LEMMA CallsRest ==
    ASSUME NEW t \in Threads, pc'[t] = pc[t], todo'[t] = todo[t]
    PROVE  CallsLeft(t)' = CallsLeft(t)
BY DEF CallsLeft, Publishing, Family

\* A call that ends the update, or fails it, leaves no more than one.
LEMMA CallsEnd ==
    ASSUME TypeOK, Coherent, NEW t \in Threads, pc[t] \in UpdatePcs
    PROVE  /\ pc'[t] = "idle" => CallsLeft(t)' < CallsLeft(t)
           /\ pc'[t] = "dns_failed" /\ pc[t] \in PublishPcs => CallsLeft(t)' < CallsLeft(t)
<1>1. pc[t] \in {"find", "write"} => todo[t] \cap Families # {}
    BY DEF Coherent, LocalsInStep, TypeOK
<1> QED
    BY <1>1, PublishingIs DEF CallsLeft, UpdatePcs, PublishPcs

\* Every call of an update leaves fewer.
LEMMA UpdateAdvances ==
    ASSUME TypeOK, Coherent, NEW t \in Threads, UpdateStep(t)
    PROVE  CallsLeft(t)' < CallsLeft(t)
<1>0. pc[t] \in UpdatePcs /\ Publishing(t) \in 0..4 /\ Publishing(t)' \in 0..4
    BY UpdateAtWork, PublishingIs
<1>1. CASE PreviewUpdate(t)
  <2>1. pc[t] = "preview" /\ pc'[t] \in {"find", "send", "select"}
      BY <1>1 DEF PreviewUpdate, PublishPlan, TypeOK
  <2> QED
      BY <1>0, <2>1 DEF CallsLeft
<1>2. CASE PublishFind(t)
  <2>1. pc[t] = "find" /\ pc'[t] = "write" /\ Publishing(t)' = Publishing(t)
      BY <1>2 DEF PublishFind, TypeOK, Publishing, Family
  <2> QED
      BY <1>0, <2>1 DEF CallsLeft
<1>3. CASE PublishWrite(t)
  <2> DEFINE f == Current(t)
  <2>1. /\ pc[t] = "write" /\ pc'[t] \in {"find", "select"}
        /\ todo'[t] = todo[t] \ {f} /\ f \in todo[t] /\ f \in Families
    <3>1. todo[t] # {} /\ todo[t] \subseteq Families
        BY <1>3 DEF PublishWrite, Coherent, LocalsInStep, TypeOK
    <3>2. f \in todo[t] /\ f \in Families
        BY <3>1 DEF Current, Families
    <3> QED
        BY <1>3, <3>2 DEF PublishWrite, TypeOK
  <2>2. Publishing(t)' = Publishing(t) - 2 /\ Publishing(t) >= 2
    <3> HIDE DEF f
    <3> QED
        BY <2>1, PublishingIs
  <2> QED
      BY <1>0, <2>1, <2>2 DEF CallsLeft
<1>4. CASE PublishStale(t)
    BY <1>0, <1>4, CallsEnd DEF PublishStale, TypeOK, PublishPcs
<1>5. CASE PublishSend(t)
    BY <1>5 DEF PublishSend, TypeOK, CallsLeft
<1>6. CASE LogPublishFailure(t) \/ LogUpdate(t)
    BY <1>0, <1>6, CallsEnd DEF LogPublishFailure, LogUpdate, Finish
<1>7. CASE UpsertSelect(t) \/ UpsertInsert(t)
    BY <1>7 DEF UpsertSelect, UpsertInsert, TypeOK, CallsLeft
<1> QED
    BY <1>1, <1>2, <1>3, <1>4, <1>5, <1>6, <1>7 DEF UpdateStep

\* So does every failure under the lock.
LEMMA FailureAdvances ==
    ASSUME TypeOK, Coherent, NEW t \in Threads, pc[t] \in UpdatePcs, Failure(t)
    PROVE  CallsLeft(t)' < CallsLeft(t)
<1>1. PublishFault(t) \/ StoreRaises(t)
    BY DeleteAtWork DEF Failure
<1>2. CASE PublishFault(t)
    BY <1>2, CallsEnd DEF PublishFault, TypeOK
<1>3. CASE StoreRaises(t)
    BY <1>3, CallsEnd DEF StoreRaises, Finish
<1> QED
    BY <1>1, <1>2, <1>3

\* LockHolderAdvances: an update keeps its lock for eight calls at most.
THEOREM LocksAreHeldBriefly == Spec => LockHolderAdvances
<1>1. ASSUME TypeOK, Coherent, [Next]_vars, NEW t \in Threads, pc[t] \in UpdatePcs
      PROVE  /\ CallsLeft(t)' <= CallsLeft(t)
             /\ UpdateStep(t) \/ Failure(t) => CallsLeft(t)' < CallsLeft(t)
  <2>0. CallsLeft(t) \in Nat /\ CallsLeft(t)' \in Nat
      BY PublishingIs DEF CallsLeft
  <2>1. CASE UpdateStep(t) \/ Failure(t)
      BY <1>1, <2>0, <2>1, UpdateAdvances, FailureAdvances
  <2>2. CASE ~(UpdateStep(t) \/ Failure(t))
    <3>1. CASE UNCHANGED <<pc, todo>>
        BY <2>0, <2>2, <3>1, CallsRest
    <3>2. CASE Crash
        BY <1>1, <2>0, <3>2, CallsEnd DEF Crash, Finish
    <3>3. ~Arrival(t) /\ ~AcquireLock(t) /\ ~DeleteStep(t)
        BY <1>1, DeleteAtWork
        DEF Arrival, BeginDelete, LookupForUpdate, AcquireLock, UpdatePcs, PublishPcs
    <3>4. ASSUME NEW u \in Threads \ {t},
                 Arrival(u) \/ AcquireLock(u) \/ UpdateStep(u) \/ DeleteStep(u) \/ Failure(u)
          PROVE  pc'[t] = pc[t] /\ todo'[t] = todo[t]
      <4>1. CASE Arrival(u) \/ AcquireLock(u)
          BY <1>1, <4>1
          DEF Arrival, BeginDelete, LookupForUpdate, AcquireLock, TypeOK, threadVars
      <4>2. CASE UpdateStep(u) \/ PublishFault(u) \/ (StoreRaises(u) /\ pc[u] \in UpdatePcs)
          BY <1>1, <4>2, UpdateAtWork, UpdateFrame DEF OnlyThread
      <4>3. CASE \/ DeleteStep(u) \/ DeleteRefused(u) \/ DeleteFault(u)
                 \/ StoreRaises(u) /\ pc[u] \notin UpdatePcs
          BY <1>1, <4>3, DeleteAtWork, DeleteFrame DEF OnlyThread
      <4> QED
          BY <3>4, <4>1, <4>2, <4>3 DEF Failure
    <3>5. Environment \/ UNCHANGED vars => Crash \/ UNCHANGED <<pc, todo>>
        BY DEF Environment, CreateAccount, GrowOld, Cleanup, vars, threadVars
    <3> QED
        BY <1>1, <2>0, <2>2, <3>1, <3>2, <3>3, <3>4, <3>5, CallsRest DEF Next
  <2> QED
      BY <2>1, <2>2
<1>2. TypeOK /\ Coherent /\ [Next]_vars =>
          [\A t \in Threads : pc[t] \in UpdatePcs =>
              /\ CallsLeft(t)' <= CallsLeft(t)
              /\ UpdateStep(t) \/ Failure(t) => CallsLeft(t)' < CallsLeft(t)]_vars
    BY <1>1
<1> QED
    BY TypeCorrect, AlwaysCoherent, <1>2, PTL DEF Spec, LockHolderAdvances
=============================================================================
