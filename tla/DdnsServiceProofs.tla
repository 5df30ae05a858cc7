-------------------------- MODULE DdnsServiceProofs --------------------------
(***************************************************************************)
(* Proofs about DdnsService: for any sets of hostnames, threads, addresses *)
(* and requests, any backend and any number of failures.                   *)
(***************************************************************************)
EXTENDS DdnsService, TLAPS

(* Types of the values the code computes.                                  *)

\* The effective addresses of a row and a request are a row.
LEMMA EffectiveIsRow ==
    ASSUME NEW row \in Row, NEW req \in Request
    PROVE  Effective(row, req) \in Row
BY DEF Row, Request, Effective, Value

\* Blank is a row and NoRequest a request.
LEMMA BlankTypes == Blank \in Row /\ NoRequest \in Request
BY DEF Blank, NoRequest, Row, Request, Value

\* Ending requests leaves the locals well typed.
LEMMA FinishType ==
    ASSUME TypeOK, NEW ts, Finish(ts)
    PROVE  /\ pc' \in [Threads -> Pcs] /\ host' \in [Threads -> Hosts]
           /\ want' \in [Threads -> Request] /\ eff' \in [Threads -> Row]
           /\ changed' \in [Threads -> BOOLEAN] /\ todo' \in [Threads -> SUBSET Families]
           /\ found' \in [Threads -> {"unknown", "absent", "present", "stale"}]
           /\ crossed' \in [Threads -> SUBSET Families] /\ refused' \subseteq Threads
BY BlankTypes DEF TypeOK, Finish, Pcs

\* Forgetting an id leaves found well typed.
LEMMA ForgetIdType ==
    ASSUME TypeOK, NEW t, NEW h, NEW f, ForgetId(t, h, f)
    PROVE  found' \in [Threads -> {"unknown", "absent", "present", "stale"}]
BY DEF TypeOK, ForgetId

\* Publishing through deletes leaves the history of deletes well typed.
LEMMA CrossType ==
    ASSUME TypeOK, NEW h, NEW fs \in SUBSET Families, Cross(h, fs)
    PROVE  crossed' \in [Threads -> SUBSET Families] /\ refused' \subseteq Threads
BY DEF TypeOK, Cross

\* The family being worked on is a family.
LEMMA CurrentIsFamily == \A t : Current(t) \in Families
BY DEF Current, Families

\* What a thread's calls may have left published are families.
LEMMA TouchedType == ASSUME TypeOK, NEW t \in Threads PROVE Touched(t) \subseteq Families
BY CurrentIsFamily DEF TypeOK, Touched, Updated

-----------------------------------------------------------------------------
\* The empty tables are well typed.
LEMMA TypeInit == Init => TypeOK
BY BlankTypes DEF Init, TypeOK, Pcs, Statuses, Families, ConstantsAssumption

\* Accounts, ageing, the cleanup and a crash keep the types.
LEMMA TypeEnvironment == TypeOK /\ Environment => TypeOK'
<1> SUFFICES ASSUME TypeOK, Environment PROVE TypeOK'
    OBVIOUS
<1>1. ASSUME NEW h \in Hosts, CreateAccount(h) PROVE TypeOK'
    BY <1>1 DEF TypeOK, CreateAccount, threadVars
<1>2. ASSUME NEW h \in Hosts, GrowOld(h) PROVE TypeOK'
    BY <1>2 DEF TypeOK, GrowOld, threadVars
<1>3. CASE Cleanup
    BY <1>3 DEF TypeOK, Cleanup, Unused, threadVars
<1>4. CASE Crash
    <2>1. \A t \in Threads : Touched(t) \subseteq Families
        BY TouchedType
    <2>2. suspect' \in [Hosts -> SUBSET Families]
        BY <1>4, <2>1 DEF TypeOK, Crash
    <2>3. QED
        BY <1>4, <2>2, FinishType DEF TypeOK, Crash, Unused, Fault
<1>5. QED
    BY <1>1, <1>2, <1>3, <1>4 DEF Environment

\* A request that arrives or gets its lock keeps the types.
LEMMA TypeArrival ==
    ASSUME TypeOK, NEW t \in Threads, Arrival(t) \/ AcquireLock(t)
    PROVE  TypeOK'
<1>1. ASSUME NEW h \in Hosts, BeginDelete(t, h) PROVE TypeOK'
    BY <1>1 DEF TypeOK, BeginDelete, tableVars, Pcs, DeletePcs
<1>2. ASSUME NEW h \in Hosts, NEW req \in Requests, LookupForUpdate(t, h, req) PROVE TypeOK'
    BY <1>2, ConstantsAssumption DEF TypeOK, LookupForUpdate, tableVars, Pcs
<1>3. CASE AcquireLock(t)
    BY <1>3 DEF TypeOK, AcquireLock, tableVars, threadVars, Pcs, UpdatePcs
<1>4. QED
    BY <1>1, <1>2, <1>3 DEF Arrival

\* So does every statement of an update ...
LEMMA TypeUpdateStep ==
    ASSUME TypeOK, NEW t \in Threads, UpdateStep(t)
    PROVE  TypeOK'
<1> DEFINE h == host[t]
           f == Current(t)
<1>0. h \in Hosts /\ f \in Families /\ eff[t] \in Row /\ records[h] \in Row /\ want[t] \in Request
    BY CurrentIsFamily DEF TypeOK
<1>a. Touched(t) \subseteq Families /\ Updated(want[t]) \subseteq Families
    BY TouchedType DEF Updated
<1>b. Effective(records[h], want[t]) \in Row /\ Asked(want[t]) \in Row
    BY <1>0, EffectiveIsRow, BlankTypes DEF Asked
<1>1. CASE PreviewUpdate(t)
    <2>1. IsChange(h, want[t]) \in BOOLEAN
        BY DEF IsChange
    <2>2. QED
        BY <1>0, <1>1, <1>a, <1>b, <2>1
        DEF TypeOK, PreviewUpdate, PublishPlan, tableVars, Pcs, UpdatePcs, PublishPcs
<1>2. CASE PublishFind(t)
    BY <1>0, <1>2 DEF TypeOK, PublishFind, tableVars, Pcs, UpdatePcs, PublishPcs
<1>3. CASE PublishWrite(t)
    <2>1. found' \in [Threads -> {"unknown", "absent", "present", "stale"}]
        BY <1>3, ForgetIdType DEF PublishWrite, TypeOK
    <2>2. dns' \in [Hosts -> Row]
        BY <1>0, <1>3 DEF PublishWrite, TypeOK, Row
    <2>3. crossed' \in [Threads -> SUBSET Families] /\ refused' \subseteq Threads
        BY <1>0, <1>3, CrossType DEF PublishWrite
    <2>4. QED
        BY <1>0, <1>3, <2>1, <2>2, <2>3
        DEF TypeOK, PublishWrite, Trust, tableVars, Pcs, UpdatePcs, PublishPcs
<1>4. CASE PublishStale(t)
    BY <1>0, <1>4, <1>a DEF TypeOK, PublishStale, Suspect, tableVars, threadVars, Pcs, UpdatePcs
<1>5. CASE PublishSend(t)
    <2>1. Sent(t) \in Row
        BY <1>0 DEF Sent, Row, TypeOK
    <2>2. crossed' \in [Threads -> SUBSET Families] /\ refused' \subseteq Threads
        BY <1>5, CrossType DEF PublishSend, TypeOK
    <2>3. QED
        BY <1>0, <1>5, <2>1, <2>2 DEF TypeOK, PublishSend, Trust, tableVars, Pcs, UpdatePcs
<1>6. CASE LogPublishFailure(t)
    <2>1. lastEvent' \in [Hosts -> [status : Statuses, row : Row]]
        BY <1>0, <1>6, <1>b DEF TypeOK, LogPublishFailure, LogEvent, Statuses
    <2>2. holder' \in [Hosts -> Threads \cup {Free}]
        BY <1>6 DEF TypeOK, LogPublishFailure, Release
    <2>3. QED
        BY <1>6, <2>1, <2>2, FinishType DEF TypeOK, LogPublishFailure
<1>7. CASE UpsertSelect(t)
    <2>1. IsChange(h, want[t]) \in BOOLEAN
        BY DEF IsChange
    <2>2. QED
        BY <1>0, <1>7, <1>b, <2>1 DEF TypeOK, UpsertSelect, tableVars, Pcs, UpdatePcs
<1>8. CASE UpsertInsert(t)
    BY <1>0, <1>8 DEF TypeOK, UpsertInsert, threadVars, Pcs, UpdatePcs
<1>9. CASE LogUpdate(t)
    <2>1. lastEvent' \in [Hosts -> [status : Statuses, row : Row]]
        BY <1>0, <1>9 DEF TypeOK, LogUpdate, LogEvent, Statuses
    <2>2. holder' \in [Hosts -> Threads \cup {Free}]
        BY <1>9 DEF TypeOK, LogUpdate, Release
    <2>3. QED
        BY <1>9, <2>1, <2>2, FinishType DEF TypeOK, LogUpdate
<1>10. QED
    BY <1>1, <1>2, <1>3, <1>4, <1>5, <1>6, <1>7, <1>8, <1>9 DEF UpdateStep

\* ... every statement of a delete ...
LEMMA TypeDeleteStep ==
    ASSUME TypeOK, NEW t \in Threads, DeleteStep(t)
    PROVE  TypeOK'
<1> DEFINE h == host[t]
           f == Current(t)
<1>0. h \in Hosts /\ f \in Families
    BY CurrentIsFamily DEF TypeOK
<1>1. CASE DeleteFind(t)
    <2>1. todo' \in [Threads -> SUBSET Families]
        BY <1>1 DEF TypeOK, DeleteFind
    <2>2. found' \in [Threads -> {"unknown", "absent", "present", "stale"}]
        BY <1>1 DEF TypeOK, DeleteFind
    <2>3. pc' \in [Threads -> Pcs]
        BY <1>1 DEF TypeOK, DeleteFind, Pcs, DeletePcs
    <2>4. QED
        BY <1>1, <2>1, <2>2, <2>3 DEF TypeOK, DeleteFind, tableVars
<1>2. CASE DeleteWrite(t)
    <2>1. found' \in [Threads -> {"unknown", "absent", "present", "stale"}]
        BY <1>2, ForgetIdType DEF DeleteWrite
    <2>2. dns' \in [Hosts -> Row]
        BY <1>0, <1>2 DEF DeleteWrite, TypeOK, Row, Value
    <2>3. QED
        BY <1>0, <1>2, <2>1, <2>2 DEF TypeOK, DeleteWrite, Suspect, tableVars, Pcs, DeletePcs
<1>3. CASE DeleteStale(t)
    BY <1>3 DEF TypeOK, DeleteStale, tableVars, threadVars, Pcs, DeletePcs
<1>4. CASE DeleteSend(t)
    BY <1>0, <1>4, BlankTypes DEF TypeOK, DeleteSend, Suspect, tableVars, threadVars, Pcs, DeletePcs
<1>5. CASE LogDeleteFailure(t)
    <2>1. lastEvent' \in [Hosts -> [status : Statuses, row : Row]]
        BY <1>0, <1>5, BlankTypes DEF TypeOK, LogDeleteFailure, LogEvent, Statuses
    <2>2. QED
        BY <1>5, <2>1, FinishType DEF TypeOK, LogDeleteFailure
<1>6. CASE DeleteStore(t)
    <2>1. suspect' \in [Hosts -> SUBSET Families] /\ records' \in [Hosts -> Row]
        BY <1>0, <1>6, BlankTypes DEF TypeOK, DeleteStore, Suspect
    <2>2. QED
        BY <1>6, <2>1, FinishType DEF TypeOK, DeleteStore
<1>7. QED
    BY <1>1, <1>2, <1>3, <1>4, <1>5, <1>6 DEF DeleteStep

\* ... and every failure.
LEMMA TypeFailure ==
    ASSUME TypeOK, NEW t \in Threads, Failure(t)
    PROVE  TypeOK'
<1> DEFINE h == host[t]
           f == Current(t)
<1>0. h \in Hosts /\ f \in Families /\ eff[t] \in Row
    BY CurrentIsFamily DEF TypeOK
<1>a. Touched(t) \subseteq Families
    BY TouchedType
<1>1. CASE PublishFault(t)
    <2>1. found' \in [Threads -> {"unknown", "absent", "present", "stale"}]
        BY <1>1, ForgetIdType DEF PublishFault, TypeOK
    <2>2. Sent(t) \in Row
        BY <1>0 DEF Sent, Row, TypeOK
    <2>3. dns' \in [Hosts -> Row]
        <3>1. CASE dns' = dns
            BY <3>1 DEF TypeOK
        <3>2. CASE dns' = [dns EXCEPT ![h] = Sent(t)]
            BY <3>2, <1>0, <2>2 DEF TypeOK
        <3>3. CASE dns' = [dns EXCEPT ![h][f] = eff[t][f]]
            BY <3>3, <1>0 DEF TypeOK, Row
        <3>4. QED
            BY <1>1, <3>1, <3>2, <3>3 DEF PublishFault
    <2>4. /\ suspect' \in [Hosts -> SUBSET Families]
          /\ pc' \in [Threads -> Pcs]
          /\ faults' \in Nat
        BY <1>0, <1>1, <1>a DEF TypeOK, PublishFault, Suspect, Fault, Pcs, UpdatePcs
    <2>5. UNCHANGED <<tableVars, holder, host, want, eff, changed, todo>>
        BY <1>1 DEF PublishFault
    <2>6. crossed' \in [Threads -> SUBSET Families] /\ refused' \subseteq Threads
        <3>1. todo[t] \in SUBSET Families /\ {f} \in SUBSET Families
            BY <1>0 DEF TypeOK
        <3>2. QED
            BY <1>1, <3>1, CrossType DEF PublishFault, TypeOK
    <2>7. QED
        BY <2>1, <2>3, <2>4, <2>5, <2>6 DEF TypeOK, tableVars
<1>2. CASE DeleteRefused(t)
    BY <1>2 DEF TypeOK, DeleteRefused, Fault, tableVars, threadVars, Pcs, DeletePcs
<1>3. CASE DeleteFault(t)
    <2>1. found' \in [Threads -> {"unknown", "absent", "present", "stale"}]
        BY <1>3, ForgetIdType DEF DeleteFault, TypeOK
    <2>2. dns' \in [Hosts -> Row]
        <3>1. CASE dns' = dns
            BY <3>1 DEF TypeOK
        <3>2. CASE dns' = [dns EXCEPT ![h] = Blank]
            BY <3>2, <1>0, BlankTypes DEF TypeOK
        <3>3. CASE dns' = [dns EXCEPT ![h][f] = None]
            BY <3>3, <1>0 DEF TypeOK, Row, Value
        <3>4. QED
            BY <1>3, <3>1, <3>2, <3>3 DEF DeleteFault
    <2>3. suspect' \in [Hosts -> SUBSET Families]
        BY <1>0, <1>3 DEF DeleteFault, TypeOK, Suspect
    <2>4. pc' \in [Threads -> Pcs] /\ faults' \in Nat
        BY <1>3 DEF TypeOK, DeleteFault, Fault, Pcs, DeletePcs
    <2>5. UNCHANGED <<tableVars, holder, host, want, eff, changed, todo, crossed, refused>>
        BY <1>3 DEF DeleteFault
    <2>6. QED
        BY <2>1, <2>2, <2>3, <2>4, <2>5 DEF TypeOK, tableVars
<1>4. CASE StoreRaises(t)
    <2>1. suspect' \in [Hosts -> SUBSET Families] /\ holder' \in [Hosts -> Threads \cup {Free}]
        BY <1>0, <1>4, <1>a DEF TypeOK, StoreRaises, Suspect, Release
    <2>2. QED
        BY <1>4, <2>1, FinishType DEF TypeOK, StoreRaises, Fault, tableVars
<1>5. QED
    BY <1>1, <1>2, <1>3, <1>4 DEF Failure

\* The type invariant is inductive.
LEMMA TypeStep == TypeOK /\ [Next]_vars => TypeOK'
<1> SUFFICES ASSUME TypeOK, [Next]_vars PROVE TypeOK'
    OBVIOUS
<1>1. CASE UNCHANGED vars
    BY <1>1 DEF TypeOK, vars, tableVars, threadVars
<1>2. CASE Next
    BY <1>2, TypeEnvironment, TypeArrival, TypeUpdateStep, TypeDeleteStep, TypeFailure DEF Next
<1>3. QED
    BY <1>1, <1>2

\* The tables, the published records and the locals of the threads keep their
\* types, whatever interleaves.
THEOREM TypeCorrect == Spec => []TypeOK
<1>1. TypeOK /\ [Next]_vars => TypeOK'
    BY TypeStep
<1>2. QED
    BY TypeInit, <1>1, PTL DEF Spec

-----------------------------------------------------------------------------
(* The two copies of a hostname's addresses.                               *)

\* A step of t leaves the other threads where they are; it can only make an
\* id they looked up stale.
OnlyThread(t) ==
    \A u \in Threads \ {t} :
        /\ pc'[u] = pc[u] /\ host'[u] = host[u] /\ want'[u] = want[u]
        /\ eff'[u] = eff[u] /\ changed'[u] = changed[u] /\ todo'[u] = todo[u]
        /\ found'[u] \in {found[u], "stale"}

\* A step about h leaves the other hostnames as they are.
OnlyHost(h) ==
    \A g \in Hosts \ {h} :
        /\ dns'[g] = dns[g] /\ records'[g] = records[g]
        /\ suspect'[g] = suspect[g] /\ holder'[g] = holder[g]
        /\ g \in stored' <=> g \in stored

\* The relation of the two copies that the step of t allows on its hostname.
Settled(t) ==
    \A f \in Families \ suspect[host[t]] :
        IF pc[t] \in UpdatePcs THEN FamilyInStep(t, f)
        ELSE dns[host[t]][f] = records[host[t]][f]

\* Only the holder of a lock is past AcquireLock on its hostname.
LEMMA OthersElsewhere ==
    ASSUME TypeOK, Exclusive, NEW t \in Threads, holder[host[t]] \in {t, Free},
           NEW u \in Threads \ {t}, pc[u] \in UpdatePcs
    PROVE  host[u] # host[t]
BY ConstantsAssumption DEF TypeOK, Exclusive

\* What a step of the thread that has or takes the lock must establish, for
\* that thread and its hostname only.
LEMMA HolderStep ==
    ASSUME TypeOK, TypeOK', Coherent, NEW t \in Threads, holder[host[t]] \in {t, Free},
           OnlyThread(t), OnlyHost(host[t]), host'[t] = host[t],
           holder'[host[t]] = IF pc'[t] \in UpdatePcs THEN t ELSE Free,
           host[t] \notin stored' => records'[host[t]] = Blank,
           LocalsInStep(t)', AbsentIsAbsent(t)', Backend # "none" => Settled(t)'
    PROVE  Coherent'
<1> DEFINE h == host[t]
<1>0. h \in Hosts /\ Exclusive /\ t # Free
    BY ConstantsAssumption DEF TypeOK, Coherent
<1>1. \A u \in Threads \ {t} : pc[u] \in UpdatePcs => host[u] \in Hosts \ {h}
    BY <1>0, OthersElsewhere DEF TypeOK
<1>2. Exclusive'
    <2>1. ASSUME NEW u \in Threads PROVE pc'[u] \in UpdatePcs => holder'[host'[u]] = u
        BY <1>0, <1>1, <2>1 DEF Exclusive, OnlyThread, OnlyHost
    <2>2. ASSUME NEW u \in Threads, NEW g \in Hosts, holder'[g] = u
          PROVE  host'[u] = g /\ pc'[u] \in UpdatePcs
        <3>1. CASE g = h
            BY <1>0, <2>2, <3>1, ConstantsAssumption
        <3>2. CASE g # h
            BY <1>0, <2>2, <3>2 DEF Exclusive, OnlyThread, OnlyHost
        <3>3. QED
            BY <3>1, <3>2
    <2>3. QED
        BY <2>1, <2>2 DEF Exclusive
<1>3. BlankWithoutRow'
    BY <1>0 DEF Coherent, BlankWithoutRow, OnlyHost
<1>4. \A u \in Threads : LocalsInStep(u)'
    BY DEF Coherent, LocalsInStep, OnlyThread
<1>5. OneRecordPerFamily'
    <2>1. ASSUME NEW u \in Threads \ {t} PROVE AbsentIsAbsent(u)'
        BY <1>1, <2>1
        DEF Coherent, OneRecordPerFamily, AbsentIsAbsent, Current, OnlyThread, OnlyHost,
            UpdatePcs, PublishPcs
    <2>2. QED
        BY <2>1 DEF OneRecordPerFamily
<1>6. ASSUME Backend # "none" PROVE StoreAndDnsAgree'
    <2>1. ASSUME NEW g \in Hosts, holder'[g] = Free, NEW f \in Families \ suspect'[g]
          PROVE  dns'[g][f] = records'[g][f]
        <3>1. CASE g = h
            BY <1>0, <1>6, <2>1, <3>1 DEF Settled
        <3>2. CASE g # h
            BY <1>6, <2>1, <3>2 DEF Coherent, StoreAndDnsAgree, OnlyHost
        <3>3. QED
            BY <3>1, <3>2
    <2>2. QED
        BY <2>1 DEF StoreAndDnsAgree
<1>7. ASSUME Backend # "none", NEW u \in Threads PROVE HolderInStep(u)'
    <2>1. CASE u = t
        BY <1>7, <2>1 DEF Settled, HolderInStep
    <2>2. CASE u # t
        BY <1>1, <1>7, <2>2
        DEF Coherent, HolderInStep, FamilyInStep, OnlyThread, OnlyHost
    <2>3. QED
        BY <2>1, <2>2
<1>8. QED
    BY <1>2, <1>3, <1>4, <1>5, <1>6, <1>7 DEF Coherent

\* What a step outside the lock may do to the hostnames: remove records and
\* rows, of families it makes suspect.
RemovesOnly ==
    \A g \in Hosts :
        /\ holder'[g] = holder[g] /\ suspect[g] \subseteq suspect'[g]
        /\ \A f \in Families : dns'[g][f] \in {dns[g][f], None}
        /\ \A f \in Families \ suspect'[g] :
              dns'[g][f] = dns[g][f] /\ records'[g][f] = records[g][f]
        /\ \/ records'[g] = records[g] /\ (g \in stored' <=> g \in stored)
           \/ records'[g] = Blank

\* A step outside the lock that removes only keeps the copies in step.
LEMMA UnlockedStep ==
    ASSUME TypeOK, TypeOK', Coherent, NEW t \in Threads,
           pc[t] \notin UpdatePcs, pc'[t] \notin UpdatePcs, OnlyThread(t), RemovesOnly
    PROVE  Coherent'
<1> USE DEF RemovesOnly
<1>0. Exclusive /\ t # Free /\ \A g \in Hosts : holder[g] # t
    BY ConstantsAssumption DEF TypeOK, Coherent, Exclusive
<1>1. Exclusive'
    <2>1. ASSUME NEW u \in Threads PROVE pc'[u] \in UpdatePcs => holder'[host'[u]] = u
        BY <1>0, <2>1 DEF TypeOK, Exclusive, OnlyThread
    <2>2. ASSUME NEW u \in Threads, NEW g \in Hosts, holder'[g] = u
          PROVE  host'[u] = g /\ pc'[u] \in UpdatePcs
        BY <1>0, <2>2 DEF Exclusive, OnlyThread
    <2>3. QED
        BY <2>1, <2>2 DEF Exclusive
<1>2. BlankWithoutRow'
    BY DEF Coherent, BlankWithoutRow
<1>3. ASSUME NEW u \in Threads PROVE LocalsInStep(u)'
    <2>1. CASE u = t
        BY <2>1 DEF LocalsInStep, UpdatePcs, PublishPcs
    <2>2. CASE u # t
        BY <2>2 DEF Coherent, LocalsInStep, OnlyThread
    <2>3. QED
        BY <2>1, <2>2
<1>4. ASSUME NEW u \in Threads PROVE AbsentIsAbsent(u)'
    <2>1. CASE u = t
        BY <2>1 DEF AbsentIsAbsent, UpdatePcs, PublishPcs
    <2>2. CASE u # t
        <3>1. host[u] \in Hosts /\ Current(u) \in Families
            BY CurrentIsFamily DEF TypeOK
        <3>2. AbsentIsAbsent(u) /\ Current(u)' = Current(u)
            BY <2>2 DEF Coherent, OneRecordPerFamily, Current, OnlyThread
        <3>3. QED
            BY <2>2, <3>1, <3>2 DEF AbsentIsAbsent, OnlyThread
    <2>3. QED
        BY <2>1, <2>2
<1>5. Backend # "none" => StoreAndDnsAgree'
    BY DEF Coherent, StoreAndDnsAgree
<1>6. ASSUME Backend # "none", NEW u \in Threads PROVE HolderInStep(u)'
    <2>1. CASE u = t
        BY <2>1 DEF HolderInStep
    <2>2. CASE u # t
        <3>1. host[u] \in Hosts
            BY DEF TypeOK
        <3>2. QED
            BY <1>6, <2>2, <3>1 DEF Coherent, HolderInStep, FamilyInStep, OnlyThread
    <2>3. QED
        BY <2>1, <2>2
<1>7. QED
    BY <1>1, <1>2, <1>3, <1>4, <1>5, <1>6 DEF Coherent, OneRecordPerFamily

\* Where neither a failed call or a delete nor t's own calls have been, the
\* two copies agree.
LEMMA UntouchedAgree ==
    ASSUME TypeOK, Coherent, Backend # "none", NEW t \in Threads, pc[t] \in UpdatePcs,
           NEW f \in Families \ (suspect[host[t]] \cup Touched(t))
    PROVE  dns[host[t]][f] = records[host[t]][f]
<1>1. FamilyInStep(t, f) /\ LocalsInStep(t)
    BY DEF Coherent, HolderInStep
<1>2. QED
    BY <1>1 DEF FamilyInStep, LocalsInStep, Touched, UpdatePcs, PublishPcs

-----------------------------------------------------------------------------
\* At first nothing is stored, published, held or being served.
LEMMA CoherentInit == Init => Coherent
<1> SUFFICES ASSUME Init PROVE Coherent
    OBVIOUS
<1>1. Exclusive
    BY ConstantsAssumption DEF Init, Exclusive, UpdatePcs, PublishPcs
<1>2. \A t \in Threads : LocalsInStep(t) /\ AbsentIsAbsent(t) /\ HolderInStep(t)
    BY DEF Init, LocalsInStep, AbsentIsAbsent, HolderInStep, UpdatePcs, PublishPcs
<1>3. BlankWithoutRow /\ StoreAndDnsAgree
    BY DEF Init, BlankWithoutRow, StoreAndDnsAgree
<1>4. QED
    BY <1>1, <1>2, <1>3 DEF Coherent, OneRecordPerFamily

\* Accounts, ageing and the cleanup touch neither copy; a crash loses the
\* threads and makes suspect what they may have published.
LEMMA CoherentEnvironment == TypeOK /\ Coherent /\ Environment => Coherent'
<1> SUFFICES ASSUME TypeOK, Coherent, Environment PROVE Coherent'
    OBVIOUS
<1>1. ASSUME UNCHANGED <<stored, records, dns, holder, pc, threadVars, suspect>> PROVE Coherent'
    BY <1>1
    DEF threadVars, Coherent, Exclusive, BlankWithoutRow, LocalsInStep, OneRecordPerFamily,
        AbsentIsAbsent, Current, StoreAndDnsAgree, HolderInStep, FamilyInStep
<1>2. ASSUME NEW h \in Hosts, CreateAccount(h) \/ GrowOld(h) PROVE Coherent'
    BY <1>1, <1>2 DEF CreateAccount, GrowOld
<1>3. CASE Cleanup
    BY <1>1, <1>3 DEF Cleanup
<1>4. CASE Crash
    <2>1. \A t \in Threads : pc'[t] = "idle"
        BY <1>4 DEF Crash, Finish
    <2>2. Exclusive'
        BY <1>4, <2>1, ConstantsAssumption DEF Crash, Exclusive, UpdatePcs, PublishPcs
    <2>3. ASSUME NEW t \in Threads
          PROVE  LocalsInStep(t)' /\ AbsentIsAbsent(t)' /\ HolderInStep(t)'
        BY <2>1 DEF LocalsInStep, AbsentIsAbsent, HolderInStep, UpdatePcs, PublishPcs
    <2>4. BlankWithoutRow'
        BY <1>4 DEF Crash, Coherent, BlankWithoutRow
    <2>5. ASSUME Backend # "none", NEW g \in Hosts, NEW f \in Families \ suspect'[g]
          PROVE  dns'[g][f] = records'[g][f]
        <3>1. f \notin suspect[g] /\ \A t \in Threads : host[t] = g => f \notin Touched(t)
            BY <1>4, <2>5 DEF Crash
        <3>2. CASE holder[g] = Free
            BY <1>4, <2>5, <3>1, <3>2 DEF Crash, Coherent, StoreAndDnsAgree
        <3>3. CASE holder[g] \in Threads
            <4>1. host[holder[g]] = g /\ pc[holder[g]] \in UpdatePcs
                BY <3>3 DEF Coherent, Exclusive
            <4>2. QED
                BY <1>4, <2>5, <3>1, <3>3, <4>1, UntouchedAgree DEF Crash
        <3>4. QED
            BY <3>2, <3>3 DEF TypeOK
    <2>6. QED
        BY <2>2, <2>3, <2>4, <2>5 DEF Coherent, OneRecordPerFamily, StoreAndDnsAgree
<1>5. QED
    BY <1>2, <1>3, <1>4 DEF Environment

\* A request arrives, or gets its lock.
LEMMA CoherentArrival ==
    ASSUME TypeOK, Coherent, NEW t \in Threads, Arrival(t) \/ AcquireLock(t)
    PROVE  Coherent'
<1>0. TypeOK'
    BY TypeArrival
<1>1. ASSUME NEW h \in Hosts, BeginDelete(t, h) PROVE Coherent'
    <2>1. pc[t] \notin UpdatePcs /\ pc'[t] \notin UpdatePcs /\ OnlyThread(t)
        BY <1>1 DEF TypeOK, BeginDelete, OnlyThread, UpdatePcs, PublishPcs
    <2>2. QED
        BY <1>0, <1>1, <2>1, UnlockedStep DEF BeginDelete, tableVars, RemovesOnly
<1>2. ASSUME NEW h \in Hosts, NEW req \in Requests, LookupForUpdate(t, h, req) PROVE Coherent'
    <2>1. pc[t] \notin UpdatePcs /\ pc'[t] \notin UpdatePcs /\ OnlyThread(t)
        BY <1>2 DEF TypeOK, LookupForUpdate, OnlyThread, UpdatePcs, PublishPcs
    <2>2. QED
        BY <1>0, <1>2, <2>1, UnlockedStep DEF LookupForUpdate, tableVars, RemovesOnly
<1>3. CASE AcquireLock(t)
    <2> DEFINE h == host[t]
    <2>0. h \in Hosts /\ holder[h] = Free
        BY <1>3 DEF TypeOK, AcquireLock
    <2>1. OnlyThread(t) /\ OnlyHost(h) /\ host'[t] = h /\ pc'[t] = "preview"
        BY <1>3 DEF TypeOK, AcquireLock, OnlyThread, OnlyHost, tableVars, threadVars
    <2>2. holder'[h] = t
        BY <1>3, <2>0 DEF TypeOK, AcquireLock
    <2>3. LocalsInStep(t)' /\ AbsentIsAbsent(t)'
        BY <2>1 DEF LocalsInStep, AbsentIsAbsent, PublishPcs
    <2>4. h \notin stored' => records'[h] = Blank
        BY <1>3, <2>0 DEF AcquireLock, tableVars, Coherent, BlankWithoutRow
    <2>5. ASSUME Backend # "none" PROVE Settled(t)'
        BY <1>3, <2>0, <2>1, <2>5
        DEF AcquireLock, tableVars, Coherent, StoreAndDnsAgree, Settled, FamilyInStep, PublishPcs
    <2>6. QED
        BY <1>0, <2>0, <2>1, <2>2, <2>3, <2>4, <2>5, HolderStep DEF UpdatePcs
<1>4. QED
    BY <1>1, <1>2, <1>3 DEF Arrival

\* The steps of an update change its own thread and hostname only.
LEMMA UpdateFrame ==
    ASSUME TypeOK, Coherent, NEW t \in Threads, pc[t] \in UpdatePcs,
           UpdateStep(t) \/ PublishFault(t) \/ StoreRaises(t)
    PROVE  /\ OnlyThread(t) /\ OnlyHost(host[t]) /\ host'[t] = host[t]
           /\ holder'[host[t]] = IF pc'[t] \in UpdatePcs THEN t ELSE Free
<1> USE DEF TypeOK, OnlyThread, OnlyHost, UpdatePcs, PublishPcs, tableVars, threadVars
<1>0. holder[host[t]] = t /\ \A g \in Hosts : holder[g] = t => g = host[t]
    BY DEF Coherent, Exclusive
<1>1. CASE PreviewUpdate(t)
    BY <1>0, <1>1 DEF PreviewUpdate, PublishPlan
<1>2. CASE PublishFind(t)
    BY <1>0, <1>2 DEF PublishFind
<1>3. CASE PublishWrite(t)
    <2>1. \A u \in Threads \ {t} : found'[u] \in {found[u], "stale"}
        BY <1>3 DEF PublishWrite, ForgetId
    <2>2. QED
        BY <1>0, <1>3, <2>1 DEF PublishWrite, Trust
<1>4. CASE PublishStale(t)
    BY <1>0, <1>4 DEF PublishStale, Suspect
<1>5. CASE PublishSend(t)
    BY <1>0, <1>5 DEF PublishSend, Trust
<1>6. CASE LogPublishFailure(t)
    BY <1>0, <1>6 DEF LogPublishFailure, Finish, Release
<1>7. CASE UpsertSelect(t)
    BY <1>0, <1>7 DEF UpsertSelect
<1>8. CASE UpsertInsert(t)
    BY <1>0, <1>8 DEF UpsertInsert
<1>9. CASE LogUpdate(t)
    BY <1>0, <1>9 DEF LogUpdate, Finish, Release
<1>10. CASE PublishFault(t)
    <2>1. \A u \in Threads \ {t} : found'[u] \in {found[u], "stale"}
        BY <1>10 DEF PublishFault, ForgetId
    <2>2. \A g \in Hosts \ {host[t]} : dns'[g] = dns[g]
        BY <1>10 DEF PublishFault
    <2>3. QED
        BY <1>0, <1>10, <2>1, <2>2 DEF PublishFault, Suspect
<1>11. CASE StoreRaises(t)
    BY <1>0, <1>11 DEF StoreRaises, Suspect, Finish, Release
<1>12. QED
    BY <1>1, <1>2, <1>3, <1>4, <1>5, <1>6, <1>7, <1>8, <1>9, <1>10, <1>11 DEF UpdateStep

\* HolderStep for a thread that already has its lock.
LEMMA CoherentIfSettled ==
    ASSUME TypeOK, TypeOK', Coherent, NEW t \in Threads, pc[t] \in UpdatePcs,
           UpdateStep(t) \/ PublishFault(t) \/ StoreRaises(t),
           host[t] \notin stored' => records'[host[t]] = Blank,
           LocalsInStep(t)', AbsentIsAbsent(t)', Backend # "none" => Settled(t)'
    PROVE  Coherent'
BY UpdateFrame, HolderStep DEF Coherent, Exclusive

\* Each statement of an update keeps the two copies in step.
LEMMA CoherentUpdateStep ==
    ASSUME TypeOK, Coherent, NEW t \in Threads, UpdateStep(t)
    PROVE  Coherent'
<1> DEFINE h == host[t]
           k == Current(t)
<1>0. TypeOK' /\ h \in Hosts /\ k \in Families /\ pc[t] \in UpdatePcs
    <2>1. pc[t] \in UpdatePcs
        BY DEF UpdateStep, PreviewUpdate, PublishFind, PublishWrite, PublishStale, PublishSend,
               LogPublishFailure, UpsertSelect, UpsertInsert, LogUpdate, UpdatePcs, PublishPcs
    <2>2. QED
        BY <2>1, TypeUpdateStep, CurrentIsFamily DEF TypeOK
<1>1. /\ LocalsInStep(t) /\ AbsentIsAbsent(t)
      /\ h \notin stored => records[h] = Blank
      /\ Backend # "none" => \A f \in Families \ suspect[h] : FamilyInStep(t, f)
    BY <1>0 DEF Coherent, BlankWithoutRow, OneRecordPerFamily, HolderInStep
<1>2. /\ host'[t] = h
      /\ \A f \in Families : f \in Updated(want[t]) <=> want[t][f] # Omitted
    BY <1>0, UpdateFrame DEF Updated
<1>3. CASE PreviewUpdate(t)
    <2>1. \A f \in Updated(want[t]) : Effective(records[h], want[t])[f] = want[t][f]
        BY DEF Effective, Updated
    <2>2. ~IsChange(h, want[t]) => \A f \in Updated(want[t]) : want[t][f] = records[h][f]
        BY <2>1 DEF IsChange
    <2>3. LocalsInStep(t)' /\ AbsentIsAbsent(t)' /\ want'[t] = want[t]
        BY <1>3, <2>1 DEF PreviewUpdate, PublishPlan, TypeOK, LocalsInStep, AbsentIsAbsent, PublishPcs
    <2>4. ASSUME Backend # "none", NEW f \in Families \ suspect[h] PROVE FamilyInStep(t, f)'
        <3>1. dns[h][f] = records[h][f]
            BY <1>1, <1>3, <2>4 DEF FamilyInStep, PreviewUpdate
        <3>2. QED
            BY <1>2, <1>3, <2>1, <2>2, <2>3, <2>4, <3>1
            DEF PreviewUpdate, PublishPlan, TypeOK, FamilyInStep, PublishPcs, tableVars, Updated
    <2>5. Backend # "none" => Settled(t)'
        BY <1>2, <1>3, <2>4
        DEF PreviewUpdate, PublishPlan, TypeOK, Settled, UpdatePcs, PublishPcs
    <2>6. QED
        BY <1>0, <1>1, <1>3, <2>3, <2>5, CoherentIfSettled DEF PreviewUpdate, tableVars, UpdateStep
<1>4. CASE PublishFind(t)
    <2>1. LocalsInStep(t)' /\ AbsentIsAbsent(t)'
        BY <1>1, <1>4 DEF PublishFind, TypeOK, LocalsInStep, AbsentIsAbsent, PublishPcs, Current
    <2>2. Backend # "none" => Settled(t)'
        BY <1>1, <1>4
        DEF PublishFind, TypeOK, Settled, FamilyInStep, UpdatePcs, PublishPcs, tableVars
    <2>3. QED
        BY <1>0, <1>1, <1>4, <2>1, <2>2, CoherentIfSettled DEF PublishFind, tableVars, UpdateStep
<1>5. CASE PublishWrite(t)
    <2>1. k \in Updated(want[t]) /\ eff[t][k] = want[t][k] /\ todo[t] \subseteq Updated(want[t])
        BY <1>1, <1>5 DEF PublishWrite, LocalsInStep, PublishPcs, Current, Updated, Families
    <2>2. LocalsInStep(t)' /\ AbsentIsAbsent(t)'
        BY <1>1, <1>5 DEF PublishWrite, TypeOK, LocalsInStep, AbsentIsAbsent, PublishPcs
    <2>3. ASSUME Backend # "none", NEW f \in Families \ suspect'[h] PROVE FamilyInStep(t, f)'
        <3>1. CASE f = k
            <4>1. dns'[h][f] = want[t][f] /\ k \in Updated(want[t]) /\ k \notin todo'[t]
                BY <1>0, <1>5, <2>1, <3>1 DEF PublishWrite, TypeOK, Row
            <4>2. QED
                BY <1>1, <1>2, <1>5, <3>1, <4>1
                DEF PublishWrite, TypeOK, FamilyInStep, LocalsInStep, PublishPcs
        <3>2. CASE f # k
            <4>1. f \notin suspect[h] /\ dns'[h][f] = dns[h][f]
                BY <1>0, <1>5, <2>3, <3>2 DEF PublishWrite, Trust, TypeOK
            <4>2. QED
                BY <1>1, <1>2, <1>5, <2>3, <3>2, <4>1
                DEF PublishWrite, TypeOK, FamilyInStep, LocalsInStep, PublishPcs, tableVars, Updated
        <3>3. QED
            BY <3>1, <3>2
    <2>4. Backend # "none" => Settled(t)'
        BY <1>2, <1>5, <2>3 DEF PublishWrite, TypeOK, Settled, UpdatePcs, PublishPcs
    <2>5. QED
        BY <1>0, <1>1, <1>5, <2>2, <2>4, CoherentIfSettled DEF PublishWrite, tableVars, UpdateStep
<1>6. CASE PublishStale(t)
    <2>1. LocalsInStep(t)' /\ AbsentIsAbsent(t)'
        BY <1>6 DEF PublishStale, TypeOK, LocalsInStep, AbsentIsAbsent, PublishPcs
    <2>2. Backend # "none" => Settled(t)'
        BY <1>0, <1>6, UntouchedAgree
        DEF PublishStale, Suspect, TypeOK, Settled, FamilyInStep, UpdatePcs, PublishPcs,
            tableVars, threadVars
    <2>3. QED
        BY <1>0, <1>1, <1>6, <2>1, <2>2, CoherentIfSettled DEF PublishStale, tableVars, UpdateStep
<1>7. CASE PublishSend(t)
    <2>1. todo[t] = Updated(want[t]) /\ \A f \in todo[t] : eff[t][f] = want[t][f]
        BY <1>1, <1>7 DEF PublishSend, LocalsInStep, PublishPcs
    <2>2. LocalsInStep(t)' /\ AbsentIsAbsent(t)'
        BY <1>7 DEF PublishSend, TypeOK, LocalsInStep, AbsentIsAbsent, PublishPcs
    <2>3. dns'[h] = Sent(t)
        BY <1>0, <1>7 DEF PublishSend, TypeOK
    <2>4. ASSUME Backend # "none", NEW f \in Families \ suspect'[h] PROVE FamilyInStep(t, f)'
        <3>1. CASE f \in todo[t]
            BY <1>1, <1>2, <1>7, <2>1, <2>3, <3>1
            DEF PublishSend, TypeOK, FamilyInStep, LocalsInStep, PublishPcs, Sent, Updated
        <3>2. CASE f \notin todo[t]
            <4>1. f \notin suspect[h] /\ dns'[h][f] = dns[h][f]
                BY <1>0, <1>7, <2>3, <2>4, <3>2 DEF PublishSend, Trust, TypeOK, Sent
            <4>2. QED
                BY <1>1, <1>2, <1>7, <2>1, <2>4, <3>2, <4>1
                DEF PublishSend, TypeOK, FamilyInStep, PublishPcs, tableVars, Updated
        <3>3. QED
            BY <3>1, <3>2
    <2>5. Backend # "none" => Settled(t)'
        BY <1>2, <1>7, <2>4 DEF PublishSend, TypeOK, Settled, UpdatePcs
    <2>6. QED
        BY <1>0, <1>1, <1>7, <2>2, <2>5, CoherentIfSettled DEF PublishSend, tableVars, UpdateStep
<1>8. CASE LogPublishFailure(t)
    <2>1. pc'[t] = "idle" /\ UNCHANGED <<records, stored, dns, suspect>>
        BY <1>8 DEF LogPublishFailure, Finish
    <2>2. LocalsInStep(t)' /\ AbsentIsAbsent(t)'
        BY <2>1 DEF LocalsInStep, AbsentIsAbsent, PublishPcs
    <2>3. Backend # "none" => Settled(t)'
        BY <1>1, <1>2, <1>8, <2>1
        DEF LogPublishFailure, Settled, FamilyInStep, UpdatePcs, PublishPcs
    <2>4. QED
        BY <1>0, <1>1, <1>8, <2>1, <2>2, <2>3, CoherentIfSettled DEF UpdateStep
<1>9. CASE UpsertSelect(t)
    <2>1. LocalsInStep(t)' /\ AbsentIsAbsent(t)'
        BY <1>1, <1>9 DEF UpsertSelect, TypeOK, LocalsInStep, AbsentIsAbsent, PublishPcs
    <2>2. ASSUME Backend # "none", NEW f \in Families \ suspect[h] PROVE FamilyInStep(t, f)'
        <3>1. eff'[t][f] = (IF f \in Updated(want[t]) THEN want[t][f] ELSE records[h][f])
            BY <1>0, <1>9, <2>2 DEF UpsertSelect, TypeOK, Effective, Updated
        <3>2. ~changed'[t] => eff'[t] = records[h]
            BY <1>9 DEF UpsertSelect, TypeOK, IsChange
        <3>3. QED
            BY <1>1, <1>2, <1>9, <2>2, <3>1, <3>2
            DEF UpsertSelect, TypeOK, FamilyInStep, PublishPcs, tableVars, Updated
    <2>3. Backend # "none" => Settled(t)'
        BY <1>2, <1>9, <2>2 DEF UpsertSelect, TypeOK, Settled, UpdatePcs
    <2>4. QED
        BY <1>0, <1>1, <1>9, <2>1, <2>3, CoherentIfSettled DEF UpsertSelect, tableVars, UpdateStep
<1>10. CASE UpsertInsert(t)
    <2>1. LocalsInStep(t)' /\ AbsentIsAbsent(t)' /\ h \in stored'
        BY <1>0, <1>1, <1>10
        DEF UpsertInsert, TypeOK, LocalsInStep, AbsentIsAbsent, PublishPcs, threadVars
    <2>2. records'[h] = eff[t] /\ pc'[t] = "log"
        BY <1>0, <1>10 DEF UpsertInsert, TypeOK
    <2>3. Backend # "none" => Settled(t)'
        BY <1>1, <1>2, <1>10, <2>2
        DEF UpsertInsert, Settled, FamilyInStep, UpdatePcs, PublishPcs, threadVars, Updated
    <2>4. QED
        BY <1>0, <1>10, <2>1, <2>3, CoherentIfSettled DEF UpdateStep
<1>11. CASE LogUpdate(t)
    <2>1. pc'[t] = "idle" /\ UNCHANGED <<records, stored, dns, suspect>>
        BY <1>11 DEF LogUpdate, Finish
    <2>2. LocalsInStep(t)' /\ AbsentIsAbsent(t)'
        BY <2>1 DEF LocalsInStep, AbsentIsAbsent, PublishPcs
    <2>3. Backend # "none" => Settled(t)'
        BY <1>1, <1>2, <1>11, <2>1 DEF LogUpdate, Settled, FamilyInStep, UpdatePcs, PublishPcs
    <2>4. QED
        BY <1>0, <1>1, <1>11, <2>1, <2>2, <2>3, CoherentIfSettled DEF UpdateStep
<1>12. QED
    BY <1>3, <1>4, <1>5, <1>6, <1>7, <1>8, <1>9, <1>10, <1>11 DEF UpdateStep

\* A delete takes no lock: whatever it removes it makes suspect.
LEMMA CoherentDeleteStep ==
    ASSUME TypeOK, Coherent, NEW t \in Threads, DeleteStep(t)
    PROVE  Coherent'
<1> DEFINE h == host[t]
           k == Current(t)
<1>0. TypeOK' /\ h \in Hosts /\ k \in Families
    BY TypeDeleteStep, CurrentIsFamily DEF TypeOK
<1>1. pc[t] \notin UpdatePcs /\ pc'[t] \notin UpdatePcs
    BY DEF TypeOK, DeleteStep, DeleteFind, DeleteWrite, DeleteStale, DeleteSend, LogDeleteFailure,
           DeleteStore, Finish, UpdatePcs, PublishPcs
<1>2. CASE DeleteFind(t)
    <2>1. OnlyThread(t) /\ RemovesOnly
        BY <1>2 DEF DeleteFind, TypeOK, OnlyThread, RemovesOnly, tableVars
    <2>2. QED
        BY <1>0, <1>1, <2>1, UnlockedStep
<1>3. CASE DeleteWrite(t)
    <2>1. OnlyThread(t)
        BY <1>3 DEF DeleteWrite, ForgetId, TypeOK, OnlyThread
    <2>2. \A g \in Hosts : \A f \in Families :
              dns'[g][f] = IF g = h /\ f = k THEN None ELSE dns[g][f]
        BY <1>0, <1>3 DEF DeleteWrite, TypeOK, Row
    <2>3. \A g \in Hosts : suspect'[g] = IF g = h THEN suspect[g] \cup {k} ELSE suspect[g]
        BY <1>0, <1>3 DEF DeleteWrite, Suspect, TypeOK
    <2>4. RemovesOnly
        <3>1. UNCHANGED <<records, stored, holder>>
            BY <1>3 DEF DeleteWrite, tableVars
        <3>2. QED
            BY <2>2, <2>3, <3>1 DEF RemovesOnly
    <2>5. QED
        BY <1>0, <1>1, <2>1, <2>4, UnlockedStep
<1>4. CASE DeleteStale(t)
    <2>1. OnlyThread(t) /\ RemovesOnly
        BY <1>4 DEF DeleteStale, TypeOK, OnlyThread, RemovesOnly, tableVars, threadVars
    <2>2. QED
        BY <1>0, <1>1, <2>1, UnlockedStep
<1>5. CASE DeleteSend(t)
    <2>1. OnlyThread(t)
        BY <1>5 DEF DeleteSend, TypeOK, OnlyThread, threadVars
    <2>2. \A g \in Hosts :
              /\ dns'[g] = IF g = h THEN Blank ELSE dns[g]
              /\ suspect'[g] = IF g = h THEN suspect[g] \cup Families ELSE suspect[g]
        BY <1>0, <1>5 DEF DeleteSend, Suspect, TypeOK
    <2>3. RemovesOnly
        <3>1. UNCHANGED <<records, stored, holder>>
            BY <1>5 DEF DeleteSend, tableVars
        <3>2. QED
            BY <2>2, <3>1 DEF RemovesOnly, Blank
    <2>4. QED
        BY <1>0, <1>1, <2>1, <2>3, UnlockedStep
<1>6. CASE LogDeleteFailure(t)
    <2>1. OnlyThread(t) /\ RemovesOnly
        BY <1>6 DEF LogDeleteFailure, Finish, TypeOK, OnlyThread, RemovesOnly
    <2>2. QED
        BY <1>0, <1>1, <2>1, UnlockedStep
<1>7. CASE DeleteStore(t)
    <2>1. OnlyThread(t)
        BY <1>7 DEF DeleteStore, Finish, TypeOK, OnlyThread
    <2>2. \A g \in Hosts :
              /\ suspect'[g] = IF g = h THEN suspect[g] \cup Families ELSE suspect[g]
              /\ IF g = h THEN records'[g] = Blank
                 ELSE records'[g] = records[g] /\ (g \in stored' <=> g \in stored)
        BY <1>0, <1>7 DEF DeleteStore, Suspect, TypeOK
    <2>3. RemovesOnly
        BY <1>7, <2>2 DEF DeleteStore, RemovesOnly
    <2>4. QED
        BY <1>0, <1>1, <2>1, <2>3, UnlockedStep
<1>8. QED
    BY <1>2, <1>3, <1>4, <1>5, <1>6, <1>7 DEF DeleteStep

\* A failure inside the lock makes suspect what was in flight; one outside it
\* is like a delete step.
LEMMA CoherentFailure ==
    ASSUME TypeOK, Coherent, NEW t \in Threads, Failure(t)
    PROVE  Coherent'
<1> DEFINE h == host[t]
           k == Current(t)
<1>0. TypeOK' /\ h \in Hosts /\ k \in Families
    BY TypeFailure, CurrentIsFamily DEF TypeOK
<1>a. h \notin stored => records[h] = Blank
    BY <1>0 DEF Coherent, BlankWithoutRow
<1>1. CASE PublishFault(t)
    <2>1. pc[t] \in UpdatePcs /\ pc'[t] = "dns_failed" /\ host'[t] = h
        BY <1>1 DEF PublishFault, TypeOK, UpdatePcs, PublishPcs
    <2>2. LocalsInStep(t)' /\ AbsentIsAbsent(t)'
        BY <2>1 DEF LocalsInStep, AbsentIsAbsent, PublishPcs
    <2>3. suspect'[h] = suspect[h] \cup Touched(t)
        BY <1>0, <1>1 DEF PublishFault, Suspect, TypeOK
    <2>4. \A f \in Families \ Touched(t) : dns'[h][f] = dns[h][f]
        <3>1. CASE dns' = dns
            BY <3>1
        <3>2. CASE pc[t] = "send" /\ dns' = [dns EXCEPT ![h] = Sent(t)]
            BY <1>0, <3>2 DEF TypeOK, Sent, Touched, PublishPcs
        <3>3. CASE pc[t] = "write" /\ dns' = [dns EXCEPT ![h][k] = eff[t][k]]
            BY <1>0, <3>3 DEF TypeOK, Row, Touched, PublishPcs
        <3>4. QED
            BY <1>1, <3>1, <3>2, <3>3 DEF PublishFault
    <2>5. Backend # "none" => Settled(t)'
        BY <1>1, <2>1, <2>3, <2>4, UntouchedAgree
        DEF PublishFault, Settled, FamilyInStep, UpdatePcs, PublishPcs, tableVars
    <2>6. QED
        BY <1>0, <1>a, <1>1, <2>1, <2>2, <2>5, CoherentIfSettled DEF PublishFault, tableVars
<1>2. CASE DeleteRefused(t)
    <2>1. /\ pc[t] \notin UpdatePcs /\ pc'[t] \notin UpdatePcs
          /\ OnlyThread(t) /\ RemovesOnly
        BY <1>2
        DEF DeleteRefused, TypeOK, OnlyThread, RemovesOnly, tableVars, threadVars, UpdatePcs, PublishPcs
    <2>2. QED
        BY <1>0, <2>1, UnlockedStep
<1>3. CASE DeleteFault(t)
    <2>1. pc[t] \notin UpdatePcs /\ pc'[t] \notin UpdatePcs
        BY <1>3 DEF DeleteFault, TypeOK, UpdatePcs, PublishPcs
    <2>2. \A u \in Threads \ {t} : found'[u] \in {found[u], "stale"}
        BY <1>3 DEF DeleteFault, TypeOK, ForgetId
    <2>3. OnlyThread(t)
        BY <1>3, <2>2 DEF DeleteFault, TypeOK, OnlyThread
    <2>4. RemovesOnly
        <3>1. CASE UNCHANGED <<dns, suspect>>
            BY <1>3, <3>1 DEF DeleteFault, RemovesOnly, tableVars
        <3>2. CASE dns' = [dns EXCEPT ![h][k] = None] /\ Suspect(h, {k})
            <4>1. \A g \in Hosts : \A f \in Families :
                      dns'[g][f] = IF g = h /\ f = k THEN None ELSE dns[g][f]
                BY <1>0, <3>2 DEF TypeOK, Row
            <4>2. \A g \in Hosts : suspect'[g] = IF g = h THEN suspect[g] \cup {k} ELSE suspect[g]
                BY <1>0, <3>2 DEF Suspect, TypeOK
            <4>3. QED
                BY <1>3, <4>1, <4>2 DEF DeleteFault, RemovesOnly, tableVars
        <3>3. CASE dns' = [dns EXCEPT ![h] = Blank] /\ Suspect(h, Families)
            <4>1. \A g \in Hosts :
                      /\ dns'[g] = IF g = h THEN Blank ELSE dns[g]
                      /\ suspect'[g] = IF g = h THEN suspect[g] \cup Families ELSE suspect[g]
                BY <1>0, <3>3 DEF Suspect, TypeOK
            <4>2. QED
                BY <1>3, <4>1 DEF DeleteFault, RemovesOnly, Blank, tableVars
        <3>4. QED
            BY <1>3, <3>1, <3>2, <3>3 DEF DeleteFault
    <2>5. QED
        BY <1>0, <2>1, <2>3, <2>4, UnlockedStep
<1>4. CASE StoreRaises(t)
    <2>1. pc'[t] = "idle" /\ UNCHANGED <<records, stored, dns>>
        BY <1>4 DEF StoreRaises, Finish, tableVars
    <2>2. CASE pc[t] \in UpdatePcs
        <3>1. LocalsInStep(t)' /\ AbsentIsAbsent(t)' /\ host'[t] = h
            BY <1>4, <2>1 DEF LocalsInStep, AbsentIsAbsent, PublishPcs, StoreRaises, Finish
        <3>2. suspect'[h] = suspect[h] \cup Touched(t)
            BY <1>0, <1>4 DEF StoreRaises, Suspect, TypeOK
        <3>3. Backend # "none" => Settled(t)'
            BY <2>1, <2>2, <3>1, <3>2, UntouchedAgree DEF Settled, UpdatePcs, PublishPcs
        <3>4. QED
            BY <1>0, <1>a, <1>4, <2>1, <2>2, <3>1, <3>3, CoherentIfSettled
    <2>3. CASE pc[t] \notin UpdatePcs
        <3>1. \A g \in Hosts : holder'[g] = holder[g]
            BY <1>4, <2>3 DEF StoreRaises, Release, Coherent, Exclusive
        <3>2. \A g \in Hosts : suspect[g] \subseteq suspect'[g]
            BY <1>0, <1>4 DEF StoreRaises, Suspect, TypeOK
        <3>3. OnlyThread(t) /\ RemovesOnly /\ pc'[t] \notin UpdatePcs
            BY <1>4, <2>1, <3>1, <3>2
            DEF StoreRaises, Finish, OnlyThread, RemovesOnly, UpdatePcs, PublishPcs
        <3>4. QED
            BY <1>0, <2>3, <3>3, UnlockedStep
    <2>4. QED
        BY <2>2, <2>3
<1>5. QED
    BY <1>1, <1>2, <1>3, <1>4 DEF Failure

\* Coherent is inductive, given the types.
LEMMA CoherentStep == TypeOK /\ Coherent /\ [Next]_vars => Coherent'
<1> SUFFICES ASSUME TypeOK, Coherent, [Next]_vars PROVE Coherent'
    OBVIOUS
<1>1. CASE UNCHANGED vars
    BY <1>1
    DEF vars, tableVars, threadVars, Coherent, Exclusive, BlankWithoutRow, LocalsInStep,
        OneRecordPerFamily, AbsentIsAbsent, Current, StoreAndDnsAgree, HolderInStep, FamilyInStep
<1>2. CASE Next
    BY <1>2, CoherentEnvironment, CoherentArrival, CoherentUpdateStep, CoherentDeleteStep,
       CoherentFailure
    DEF Next
<1>3. QED
    BY <1>1, <1>2

\* The copies of every hostname are always in step with its lock holder.
LEMMA AlwaysCoherent == Spec => []Coherent
<1>1. TypeOK /\ Coherent /\ [Next]_vars => Coherent'
    BY CoherentStep
<1>2. QED
    BY TypeCorrect, CoherentInit, <1>1, PTL DEF Spec

-----------------------------------------------------------------------------
\* Outside the families that a failed call or a delete has touched, the
\* records table and the DNS agree about every hostname nobody is updating.
THEOREM CopiesAgree == Spec => []StoreAndDnsAgree
<1>1. Coherent => StoreAndDnsAgree
    BY DEF Coherent, StoreAndDnsAgree
<1>2. QED
    BY AlwaysCoherent, <1>1, PTL

\* With the same exception, an update that answers good or nochg leaves its
\* addresses published.
THEOREM AnswersArePublished == Spec => []AnswerIsPublished
<1>1. Coherent => AnswerIsPublished
    BY DEF Coherent, AnswerIsPublished, HolderInStep, FamilyInStep, Updated, UpdatePcs
<1>2. QED
    BY AlwaysCoherent, <1>1, PTL

\* No interleaving of updates and deletes makes the Cloudflare backend create
\* a second record of a family.
THEOREM NoDuplicateRecord == Spec => []OneRecordPerFamily
<1>1. Coherent => OneRecordPerFamily
    BY DEF Coherent
<1>2. QED
    BY AlwaysCoherent, <1>1, PTL
=============================================================================
