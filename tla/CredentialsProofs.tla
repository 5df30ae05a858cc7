-------------------------- MODULE CredentialsProofs --------------------------
(***************************************************************************)
(* Proofs about Credentials: for any hostnames and threads, and any number *)
(* of secrets.                                                             *)
(***************************************************************************)
EXTENDS Credentials, TLAPS

\* NoAccount is a row.
LEMMA NoAccountType == NoAccount \in Accounts
BY DEF NoAccount, Accounts

\* What is waiting to be shown are secrets.
LEMMA PendingType ==
    ASSUME TypeOK, NEW t \in Workers
    PROVE  Pending(t) \subseteq Secrets
BY DEF TypeOK, Pending, Secrets, Pcs

\* The end of requests keeps the types.
LEMMA ForgetType ==
    ASSUME TypeOK, NEW ts, Forget(ts)
    PROVE  /\ pc' \in [Workers -> Pcs]
           /\ host' \in [Workers -> Hosts]
           /\ kind' \in Kinds
           /\ fresh' \in [Workers -> Nat]
           /\ tries' \in [Workers -> 0..Attempts]
           /\ found' \in [Workers -> Nat]
           /\ \A t \in Workers : pc'[t] = "insert" => tries'[t] > 0
BY DEF TypeOK, Forget, Pcs, Attempts

\* At first there is no account and no request.
LEMMA TypeInit == Init => TypeOK
BY NoAccountType DEF Init, TypeOK, Pcs, Attempts

\* A rotation writes a row that is there.
LEMMA RotateType ==
    ASSUME TypeOK, RotateWrite
    PROVE  /\ account' \in [Hosts -> Accounts]
           /\ \A h \in Hosts : account'[h].born = account[h].born
           /\ \A h \in Hosts : Exists(h) => Exists(h)'
           /\ \A h \in Hosts : Exists(h)' => Exists(h)
           /\ \A h \in Hosts, k \in Kinds :
                  account'[h].secret[k] = account[h].secret[k]
                      \/ (h = host[Loop] /\ k = kind /\ account'[h].secret[k] = issued + 1)
<1> DEFINE h0 == host[Loop]
<1> DEFINE row == [born |-> account[h0].born, secret |-> [account[h0].secret EXCEPT ![kind] = issued + 1]]
<1>1. h0 \in Hosts /\ account[h0] \in Accounts
    BY DEF TypeOK, Workers
<1>2. row \in Accounts /\ row.born = account[h0].born /\ row.secret[kind] = issued + 1
    BY <1>1 DEF TypeOK, Accounts
<1>3. row # NoAccount
    <2>1. issued + 1 # 0 /\ kind \in Kinds
        BY DEF TypeOK
    <2>2. NoAccount.secret[kind] = 0
        BY <2>1 DEF NoAccount
    <2>3. QED
        BY <1>2, <2>1, <2>2
<1>4. \A k \in Kinds : k # kind => row.secret[k] = account[h0].secret[k]
    BY <1>1 DEF TypeOK, Accounts
<1>5. account' = IF Exists(h0) THEN [account EXCEPT ![h0] = row] ELSE account
    <2>1. [account[h0] EXCEPT !.secret[kind] = issued + 1] = row
        BY <1>1 DEF Accounts
    <2>2. QED
        BY <1>1, <2>1 DEF RotateWrite, TypeOK
<1>6. QED
    BY <1>1, <1>2, <1>3, <1>4, <1>5 DEF TypeOK, Exists

\* The row of a new account.
NewRow(n) == [born |-> n, secret |-> [k \in Kinds |-> n]]

\* The type invariant is inductive.
LEMMA TypeStep == TypeOK /\ [Next]_vars => TypeOK'
<1> SUFFICES ASSUME TypeOK, [Next]_vars PROVE TypeOK'
    OBVIOUS
<1>1. CASE UNCHANGED vars
    BY <1>1 DEF TypeOK, vars, tableVars, workerVars
<1>2. ASSUME NEW t \in Workers, Answer(t), UNCHANGED <<tableVars, shown>>,
             lost' = lost \/ lost' = lost \cup Pending(t)
      PROVE  TypeOK'
    BY <1>2, ForgetType, PendingType DEF Answer, TypeOK, tableVars
<1>3. ASSUME NEW t \in Threads, PoolStep(t) PROVE TypeOK'
    <2>1. t \in Workers
        BY DEF Workers
    <2>2. CASE BeginCreate(t)
        BY <2>1, <2>2 DEF BeginCreate, Goto, TypeOK, tableVars, Pcs, Attempts
    <2>3. ASSUME NEW h \in Hosts, Insert(t, h) PROVE TypeOK'
        <3>1. CASE Exists(h)
            <4>1. CASE Answer(t)
                BY <1>2, <2>1, <2>3, <3>1, <4>1 DEF Insert, tableVars
            <4>2. CASE tries[t] # 1
                <5>1. tries[t] \in 0..Attempts /\ tries[t] > 0
                    BY <2>1, <2>3 DEF Insert, TypeOK
                <5>2. tries[t] - 1 \in 0..Attempts /\ tries[t] - 1 > 0
                    BY <4>2, <5>1 DEF Attempts
                <5>3. QED
                    BY <2>1, <2>3, <3>1, <4>2, <5>2 DEF Insert, Collide, TypeOK
            <4>3. QED
                BY <2>3, <3>1, <4>1, <4>2 DEF Insert, Collide
        <3>2. CASE ~Exists(h)
            <4>1. issued + 1 \in Nat /\ NewRow(issued + 1) \in Accounts
                BY DEF TypeOK, NewRow, Accounts
            <4>2. account' = [account EXCEPT ![h] = NewRow(issued + 1)]
                BY <2>3, <3>2 DEF Insert, NewRow
            <4>3. QED
                BY <2>1, <2>3, <3>2, <4>1, <4>2 DEF Insert, Goto, TypeOK, Pcs
        <3>3. QED
            BY <3>1, <3>2
    <2>4. CASE ShowCreated(t)
        BY <2>1, <2>4, ForgetType, PendingType DEF ShowCreated, Answer, TypeOK, tableVars
    <2>5. ASSUME NEW k \in Kinds, NEW n, NEW next \in Pcs \ {"insert"}, Lookup(t, k, n, next) PROVE TypeOK'
        BY <2>1, <2>5 DEF Lookup, Goto, TypeOK, tableVars, Accounts
    <2>6. CASE LookupForUpdate(t) \/ LookupForDelete(t)
        BY <2>5, <2>6 DEF LookupForUpdate, LookupForDelete, Pcs, Kinds
    <2>7. CASE ApplyUpdate(t)
        BY <2>1, <2>7, ForgetType DEF ApplyUpdate, Answer, TypeOK
    <2>8. CASE ReadManagement(t)
        BY <2>8 DEF ReadManagement, TypeOK, tableVars, workerVars, Secrets, Accounts, Kinds
    <2>9. QED
        BY <1>3, <2>2, <2>3, <2>4, <2>6, <2>7, <2>8 DEF PoolStep
<1>4. CASE AdminStep
    <2>1. Loop \in Workers
        BY DEF Workers
    <2>2. ASSUME NEW h \in Hosts, AdminDelete(h) PROVE TypeOK'
        BY <2>1, <2>2 DEF AdminDelete, Goto, TypeOK, tableVars, Pcs
    <2>3. ASSUME NEW h \in Hosts, NEW k \in Kinds, RotateLookup(h, k) PROVE TypeOK'
        BY <2>1, <2>3 DEF RotateLookup, Goto, TypeOK, tableVars, Pcs
    <2>4. CASE RotateWrite
        <3>1. account' \in [Hosts -> Accounts]
            BY <2>4, RotateType
        <3>2. QED
            BY <2>1, <2>4, <3>1 DEF RotateWrite, Goto, TypeOK, Pcs
    <2>5. CASE RotateReread
        <3>1. Exists(host[Loop]) => <<kind, Notice>> \in Secrets
            BY <2>1 DEF Notice, TypeOK, Secrets, Accounts
        <3>2. QED
            BY <2>1, <2>5, <3>1, ForgetType DEF RotateReread, Answer, TypeOK, tableVars
    <2>6. QED
        BY <1>4, <2>2, <2>3, <2>4, <2>5 DEF AdminStep
<1>5. ASSUME NEW t \in Workers, DeleteDns(t) \/ DeleteDnsFails(t) \/ DeleteRows(t) \/ StoreRaises(t) PROVE TypeOK'
    <2>1. CASE DeleteDns(t)
        BY <2>1 DEF DeleteDns, Goto, TypeOK, tableVars, workerVars, Pcs
    <2>2. CASE DeleteDnsFails(t) \/ StoreRaises(t)
        BY <1>2, <2>2 DEF DeleteDnsFails, StoreRaises
    <2>3. CASE DeleteRows(t)
        BY <2>3, NoAccountType, ForgetType DEF DeleteRows, Overtake, TypeOK
    <2>4. QED
        BY <1>5, <2>1, <2>2, <2>3
<1>6. ASSUME NEW cutoff \in 0..issued, Cleanup(cutoff) \/ Restart(cutoff) PROVE TypeOK'
    <2>1. account' \in [Hosts -> Accounts]
        BY <1>6, NoAccountType DEF Cleanup, Restart, RemoveUnused, TypeOK
    <2>2. CASE Cleanup(cutoff)
        BY <2>1, <2>2 DEF Cleanup, Overtake, TypeOK, workerVars
    <2>3. CASE Restart(cutoff)
        BY <2>1, <2>3, ForgetType, PendingType DEF Restart, TypeOK
    <2>4. QED
        BY <1>6, <2>2, <2>3
<1>7. QED
    BY <1>1, <1>3, <1>4, <1>5, <1>6 DEF Next

\* Accounts, secrets and the locals of the workers keep their types; the draws
\* for a hostname never run below one.
THEOREM TypeCorrect == Spec => []TypeOK
BY TypeInit, TypeStep, PTL DEF Spec

-----------------------------------------------------------------------------
\* A secret of h is waiting to be shown by a worker that works on h.
Waiting(h, k) == \E t \in Workers : host[t] = h /\ <<k, account[h].secret[k]>> \in Pending(t)

\* What keeps every secret known: it was shown or lost, or waits at its own
\* hostname; and nobody but the admin rotates.
Covered ==
    /\ \A h \in Hosts, k \in Kinds :
          Exists(h) => <<k, account[h].secret[k]>> \in shown \cup lost \/ Waiting(h, k)
    /\ \A t \in Workers : pc[t] = "reread" => t = Loop

\* A step keeps Covered if the secrets it stores are covered, and if what
\* stops waiting is shown or lost.
LEMMA CoveredIf ==
    ASSUME TypeOK, Covered, shown \subseteq shown', lost \subseteq lost',
           \A h \in Hosts, k \in Kinds :
               Exists(h)' => \/ Exists(h) /\ account'[h].secret[k] = account[h].secret[k]
                             \/ Waiting(h, k)',
           \A t \in Workers, k \in Kinds :
               account'[host[t]] # NoAccount /\ <<k, account[host[t]].secret[k]>> \in Pending(t)
                   /\ account'[host[t]].secret[k] = account[host[t]].secret[k] =>
                   \/ <<k, account[host[t]].secret[k]>> \in shown' \cup lost'
                   \/ host'[t] = host[t] /\ <<k, account[host[t]].secret[k]>> \in Pending(t)',
           \A t \in Workers : pc'[t] = "reread" => t = Loop
    PROVE  Covered'
<1> SUFFICES ASSUME NEW h \in Hosts, NEW k \in Kinds, Exists(h)', ~Waiting(h, k)'
             PROVE  <<k, account'[h].secret[k]>> \in shown' \cup lost'
    BY DEF Covered
<1>1. Exists(h) /\ account'[h].secret[k] = account[h].secret[k]
    OBVIOUS
<1>2. CASE <<k, account[h].secret[k]>> \in shown \cup lost
    BY <1>1, <1>2
<1>3. CASE Waiting(h, k)
    <2>1. PICK t \in Workers : host[t] = h /\ <<k, account[h].secret[k]>> \in Pending(t)
        BY <1>3 DEF Waiting
    <2>2. ~(host'[t] = h /\ <<k, account'[h].secret[k]>> \in Pending(t)')
        BY DEF Waiting
    <2>3. QED
        BY <1>1, <2>1, <2>2 DEF Exists
<1>4. QED
    BY <1>1, <1>2, <1>3 DEF Covered

\* A worker whose locals stay keeps what it has to show.
LEMMA PendingKept ==
    ASSUME NEW t \in Workers, pc'[t] = pc[t], fresh'[t] = fresh[t], kind' = kind
    PROVE  Pending(t)' = Pending(t)
BY DEF Pending

\* Of the steps that store no secret: what t was to show is shown or lost.
LEMMA CoveredUnlessStored ==
    ASSUME TypeOK, Covered, shown \subseteq shown', lost \subseteq lost',
           \A h \in Hosts : account'[h] = account[h] \/ account'[h] = NoAccount,
           NEW t \in Workers, Pending(t) \subseteq shown' \cup lost', pc'[t] # "reread",
           \A u \in Workers \ {t} : pc'[u] = pc[u] /\ fresh'[u] = fresh[u] /\ host'[u] = host[u],
           kind' = kind
    PROVE  Covered'
<1>1. \A h \in Hosts, k \in Kinds :
          Exists(h)' => Exists(h) /\ account'[h].secret[k] = account[h].secret[k]
    BY DEF Exists
<1>2. \A u \in Workers \ {t} : Pending(u)' = Pending(u)
    BY PendingKept
<1>3. \A u \in Workers : pc'[u] = "reread" => u = Loop
    BY DEF Covered
<1>4. QED
    BY <1>1, <1>2, <1>3, CoveredIf

\* At first there is no account to cover.
LEMMA CoveredInit == Init => Covered
BY DEF Init, Covered, Exists

\* Creating, rotating, showing, deleting and failing keep every secret covered.
LEMMA CoveredStep == TypeOK /\ Covered /\ [Next]_vars => Covered'
<1> SUFFICES ASSUME TypeOK, Covered, [Next]_vars PROVE Covered'
    OBVIOUS
<1>1. CASE UNCHANGED vars
    BY <1>1 DEF vars, tableVars, workerVars, Covered, Waiting, Exists, Pending
<1>2. ASSUME NEW t \in Workers, Answer(t), shown \subseteq shown', lost \subseteq lost',
             \A h \in Hosts : account'[h] = account[h] \/ account'[h] = NoAccount,
             Pending(t) \subseteq shown' \cup lost'
      PROVE  Covered'
    BY <1>2, CoveredUnlessStored DEF Answer, Forget, TypeOK
<1>3. ASSUME NEW t \in Threads, PoolStep(t) PROVE Covered'
    <2>1. t \in Workers
        BY DEF Workers
    <2>2. CASE BeginCreate(t) \/ LookupForUpdate(t) \/ LookupForDelete(t)
        <3>1. Pending(t) = {} /\ pc'[t] # "reread"
            BY <2>1, <2>2 DEF BeginCreate, LookupForUpdate, LookupForDelete, Lookup, Goto, Pending, TypeOK
        <3>2. QED
            BY <2>1, <2>2, <3>1, CoveredUnlessStored
                DEF BeginCreate, LookupForUpdate, LookupForDelete, Lookup, Goto, TypeOK, tableVars
    <2>3. ASSUME NEW h \in Hosts, Insert(t, h) PROVE Covered'
        <3>1. Pending(t) = {}
            BY <2>3 DEF Insert, Pending
        <3>2. CASE Exists(h)
            BY <2>1, <2>3, <3>1, <3>2, CoveredUnlessStored DEF Insert, Collide, Answer, Forget, TypeOK
        <3>3. CASE ~Exists(h)
            <4>1. account' = [account EXCEPT ![h] = NewRow(issued + 1)]
                BY <2>3, <3>3 DEF Insert, NewRow
            <4>2. host'[t] = h /\ Pending(t)' = Kinds \X {issued + 1}
                BY <2>1, <2>3, <3>3 DEF Insert, Goto, Pending, TypeOK
            <4>3. \A k \in Kinds : Waiting(h, k)'
                BY <2>1, <4>1, <4>2 DEF Waiting, NewRow, TypeOK
            <4>4. \A g \in Hosts, k \in Kinds :
                      Exists(g)' => \/ Exists(g) /\ account'[g].secret[k] = account[g].secret[k]
                                    \/ Waiting(g, k)'
                BY <4>1, <4>3 DEF Exists, TypeOK
            <4>5. \A u \in Workers \ {t} : Pending(u)' = Pending(u) /\ host'[u] = host[u]
                BY <2>3, <3>3, PendingKept DEF Insert, Goto, TypeOK
            <4>6. \A u \in Workers : pc'[u] = "reread" => u = Loop
                BY <2>3, <3>3 DEF Insert, Goto, Covered, TypeOK
            <4>7. QED
                BY <2>3, <3>1, <4>4, <4>5, <4>6, CoveredIf DEF Insert
        <3>4. QED
            BY <3>2, <3>3
    <2>4. CASE ShowCreated(t)
        BY <1>2, <2>1, <2>4 DEF ShowCreated, tableVars
    <2>5. CASE ApplyUpdate(t)
        BY <1>2, <2>1, <2>5 DEF ApplyUpdate, Pending
    <2>6. CASE ReadManagement(t)
        <3>1. \A u \in Workers : Pending(u)' = Pending(u)
            BY <2>6, PendingKept DEF ReadManagement, workerVars
        <3>2. QED
            BY <2>6, <3>1, CoveredIf DEF ReadManagement, tableVars, workerVars, Covered, Exists
    <2>7. QED
        BY <1>3, <2>2, <2>3, <2>4, <2>5, <2>6 DEF PoolStep
<1>4. CASE AdminStep
    <2>1. Loop \in Workers
        BY DEF Workers
    <2>2. ASSUME NEW h \in Hosts, AdminDelete(h) PROVE Covered'
        <3>1. Pending(Loop) = {}
            BY <2>2 DEF AdminDelete, Pending
        <3>2. QED
            BY <2>1, <2>2, <3>1, CoveredUnlessStored DEF AdminDelete, Goto, TypeOK, tableVars
    <2>3. ASSUME NEW h \in Hosts, NEW k \in Kinds, RotateLookup(h, k) PROVE Covered'
        <3>1. Pending(Loop) = {}
            BY <2>3 DEF RotateLookup, Pending
        <3>2. \A u \in Workers \ {Loop} : Pending(u)' = Pending(u) /\ host'[u] = host[u]
            BY <2>3 DEF RotateLookup, Goto, Pending, Covered, TypeOK
        <3>3. \A u \in Workers : pc'[u] = "reread" => u = Loop
            BY <2>3 DEF RotateLookup, Goto, Covered, TypeOK
        <3>4. QED
            BY <2>3, <3>1, <3>2, <3>3, CoveredIf DEF RotateLookup, tableVars, Exists
    <2>4. CASE RotateWrite
        <3>1. Pending(Loop) = {}
            BY <2>4 DEF RotateWrite, Pending
        <3>2. Pending(Loop)' = {<<kind, issued + 1>>} /\ host'[Loop] = host[Loop]
            BY <2>1, <2>4 DEF RotateWrite, Goto, Pending, TypeOK
        <3>3. \A u \in Workers \ {Loop} : Pending(u)' = Pending(u) /\ host'[u] = host[u]
            BY <2>4, PendingKept DEF RotateWrite, Goto, TypeOK
        <3>4. \A u \in Workers : pc'[u] = "reread" => u = Loop
            BY <2>4 DEF RotateWrite, Goto, Covered, TypeOK
        <3>5. \A h \in Hosts, k \in Kinds :
                  Exists(h)' => \/ Exists(h) /\ account'[h].secret[k] = account[h].secret[k]
                                \/ Waiting(h, k)'
            BY <2>1, <2>4, <3>2, RotateType DEF Waiting
        <3>6. QED
            BY <2>4, <3>1, <3>3, <3>4, <3>5, CoveredIf DEF RotateWrite
    <2>5. CASE RotateReread
        <3>1. \A u \in Workers \ {Loop} : Pending(u)' = Pending(u) /\ host'[u] = host[u]
            BY <2>5, PendingKept DEF RotateReread, Answer, Forget, TypeOK
        <3>2. \A u \in Workers : pc'[u] = "reread" => u = Loop
            BY <2>5 DEF RotateReread, Answer, Forget, Covered, TypeOK
        <3>3. ASSUME NEW k \in Kinds, Exists(host[Loop]),
                     <<k, account[host[Loop]].secret[k]>> \in Pending(Loop)
              PROVE  <<k, account[host[Loop]].secret[k]>> \in shown'
            <4>1. k = kind /\ account[host[Loop]].secret[k] = fresh[Loop]
                BY <2>5, <3>3 DEF RotateReread, Pending
            <4>2. QED
                BY <2>5, <3>3, <4>1 DEF RotateReread, Notice
        <3>4. QED
            BY <2>5, <3>1, <3>2, <3>3, CoveredIf DEF RotateReread, tableVars, Exists
    <2>6. QED
        BY <1>4, <2>2, <2>3, <2>4, <2>5 DEF AdminStep
<1>5. ASSUME NEW t \in Workers, DeleteDns(t) \/ DeleteDnsFails(t) \/ DeleteRows(t) \/ StoreRaises(t) PROVE Covered'
    <2>1. CASE DeleteDns(t)
        <3>1. Pending(t) = {}
            BY <2>1 DEF DeleteDns, Pending
        <3>2. QED
            BY <2>1, <3>1, CoveredUnlessStored DEF DeleteDns, Goto, TypeOK, tableVars, workerVars
    <2>2. CASE DeleteDnsFails(t)
        BY <1>2, <2>2 DEF DeleteDnsFails, Pending, tableVars
    <2>3. CASE StoreRaises(t)
        BY <1>2, <2>3 DEF StoreRaises, tableVars
    <2>4. CASE DeleteRows(t)
        <3>1. Pending(t) = {}
            BY <2>4 DEF DeleteRows, Pending
        <3>2. QED
            BY <2>4, <3>1, CoveredUnlessStored DEF DeleteRows, Forget, TypeOK
    <2>5. QED
        BY <1>5, <2>1, <2>2, <2>3, <2>4
<1>6. ASSUME NEW cutoff \in 0..issued, Cleanup(cutoff) \/ Restart(cutoff) PROVE Covered'
    <2>1. \A h \in Hosts : account'[h] = account[h] \/ account'[h] = NoAccount
        BY <1>6 DEF Cleanup, Restart, RemoveUnused
    <2>2. \A h \in Hosts, k \in Kinds :
              Exists(h)' => Exists(h) /\ account'[h].secret[k] = account[h].secret[k]
        BY <2>1 DEF Exists
    <2>3. CASE Cleanup(cutoff)
        <3>1. \A u \in Workers : Pending(u)' = Pending(u)
            BY <2>3, PendingKept DEF Cleanup, workerVars
        <3>2. QED
            BY <2>2, <2>3, <3>1, CoveredIf DEF Cleanup, workerVars, Covered
    <2>4. CASE Restart(cutoff)
        <3>1. \A u \in Workers : Pending(u) \subseteq lost'
            BY <2>4 DEF Restart
        <3>2. \A u \in Workers : pc'[u] # "reread"
            BY <2>4 DEF Restart, Forget
        <3>3. QED
            BY <2>2, <2>4, <3>1, <3>2, CoveredIf DEF Restart
    <2>5. QED
        BY <1>6, <2>3, <2>4
<1>7. QED
    BY <1>1, <1>3, <1>4, <1>5, <1>6 DEF Next

\* Every secret of every account has been shown, is about to be, or was lost
\* with its answer: no rotation replaces a secret that nobody is told about.
THEOREM NobodyIsLockedOut == Spec => []SecretsAreShown
<1>1. TypeOK /\ Covered /\ [Next]_vars => (TypeOK /\ Covered)'
    BY TypeStep, CoveredStep
<1>2. Covered => SecretsAreShown
    BY DEF Covered, Waiting, SecretsAreShown
<1>3. QED
    BY TypeInit, CoveredInit, <1>1, <1>2, PTL DEF Spec

-----------------------------------------------------------------------------
\* A thread that was not overtaken works on the account that it found, and
\* that account is still there: nobody can have created it again.
InStep ==
    \A t \in Threads :
        PastLookup(t) /\ t \notin overtaken =>
            Exists(host[t]) /\ account[host[t]].born = found[t]

\* A step keeps InStep if it leaves the accounts in use by threads, or
\* overtakes those threads.
LEMMA InStepIf ==
    ASSUME TypeOK, InStep,
           \A t \in Threads :
               pc'[t] \in {"apply", "delete_dns", "delete_rows"} /\ t \notin overtaken' =>
                   PastLookup(t) /\ t \notin overtaken /\ host'[t] = host[t] /\ found'[t] = found[t],
           \A h \in Hosts :
               Exists(h) => \/ account'[h] # NoAccount /\ account'[h].born = account[h].born
                            \/ \A t \in Threads : host'[t] = h /\ pc'[t] \in {"apply", "delete_dns", "delete_rows"}
                                                      => t \in overtaken'
    PROVE  InStep'
<1> SUFFICES ASSUME NEW t \in Threads, PastLookup(t)', t \notin overtaken'
             PROVE  account'[host'[t]] # NoAccount /\ account'[host'[t]].born = found'[t]
    BY DEF InStep, Exists
<1>1. pc'[t] \in {"apply", "delete_dns", "delete_rows"}
    BY DEF PastLookup
<1>2. PastLookup(t) /\ t \notin overtaken /\ host'[t] = host[t] /\ found'[t] = found[t]
    BY <1>1
<1>3. Exists(host[t]) /\ account[host[t]].born = found[t] /\ host[t] \in Hosts
    BY <1>2 DEF InStep, TypeOK, Workers
<1>4. QED
    BY <1>1, <1>2, <1>3

\* At first nobody is past a lookup.
LEMMA InStepInit == Init => InStep
BY DEF Init, InStep, PastLookup, Workers

\* Deletes and the cleanup overtake whom they affect; an INSERT meets no row;
\* a rotation keeps the account.
LEMMA InStepStep == TypeOK /\ InStep /\ [Next]_vars => InStep'
<1> SUFFICES ASSUME TypeOK, InStep, [Next]_vars PROVE InStep'
    OBVIOUS
<1>1. CASE UNCHANGED vars
    BY <1>1 DEF vars, tableVars, workerVars, InStep, PastLookup, Exists
<1>2. ASSUME NEW t \in Workers, Answer(t), UNCHANGED account PROVE InStep'
    BY <1>2, InStepIf DEF Answer, Forget, TypeOK, Workers, PastLookup, Exists
<1>3. ASSUME NEW t \in Threads, PoolStep(t) PROVE InStep'
    <2>1. t \in Workers
        BY DEF Workers
    <2>2. CASE BeginCreate(t) \/ ReadManagement(t)
        BY <2>1, <2>2, InStepIf
            DEF BeginCreate, ReadManagement, Goto, TypeOK, tableVars, workerVars, Workers, PastLookup, Exists
    <2>3. ASSUME NEW h \in Hosts, Insert(t, h) PROVE InStep'
        <3>1. CASE Exists(h)
            <4>1. CASE Answer(t)
                BY <1>2, <2>1, <2>3, <3>1, <4>1 DEF Insert
            <4>2. CASE UNCHANGED <<pc, host, kind, fresh, found, overtaken>>
                BY <2>3, <3>1, <4>2, InStepIf DEF Insert, PastLookup, Exists
            <4>3. QED
                BY <2>3, <3>1, <4>1, <4>2 DEF Insert, Collide
        <3>2. CASE ~Exists(h)
            <4>1. \A g \in Hosts : Exists(g) => account'[g] = account[g]
                BY <2>3, <3>2 DEF Insert, TypeOK
            <4>2. QED
                BY <2>1, <2>3, <3>2, <4>1, InStepIf DEF Insert, Goto, TypeOK, Workers, PastLookup, Exists
        <3>3. QED
            BY <3>1, <3>2
    <2>4. ASSUME NEW k \in Kinds, NEW n \in 1..issued, NEW next \in Pcs, Lookup(t, k, n, next) PROVE InStep'
        <3>1. PICK h \in Hosts : /\ account[h].secret[k] = n
                                 /\ host' = [host EXCEPT ![t] = h]
                                 /\ found' = [found EXCEPT ![t] = account[h].born]
            BY <2>4 DEF Lookup
        <3>2. Exists(h)
            <4>1. n # 0 /\ NoAccount.secret[k] = 0
                BY DEF NoAccount, TypeOK
            <4>2. QED
                BY <3>1, <4>1 DEF Exists
        <3>3. Exists(host'[t]) /\ account[host'[t]].born = found'[t]
            BY <2>1, <3>1, <3>2 DEF TypeOK
        <3>4. \A u \in Threads \ {t} : pc'[u] = pc[u] /\ host'[u] = host[u] /\ found'[u] = found[u]
            BY <2>4, <3>1 DEF Lookup, Goto, TypeOK, Workers
        <3>5. UNCHANGED <<account, overtaken>>
            BY <2>4 DEF Lookup, tableVars
        <3>6. QED
            BY <3>3, <3>4, <3>5 DEF InStep, PastLookup, Exists
    <2>5. CASE LookupForUpdate(t) \/ LookupForDelete(t)
        BY <2>4, <2>5 DEF LookupForUpdate, LookupForDelete, Pcs, Kinds
    <2>6. CASE ShowCreated(t) \/ ApplyUpdate(t)
        BY <1>2, <2>1, <2>6 DEF ShowCreated, ApplyUpdate, tableVars
    <2>7. QED
        BY <1>3, <2>2, <2>3, <2>5, <2>6 DEF PoolStep
<1>4. CASE AdminStep
    <2>1. Loop \in Workers /\ \A t \in Threads : t # Loop /\ t \in Workers
        BY LoopAssumption DEF Workers
    <2>2. ASSUME NEW h \in Hosts, AdminDelete(h) \/ \E k \in Kinds : RotateLookup(h, k) PROVE InStep'
        BY <2>1, <2>2, InStepIf DEF AdminDelete, RotateLookup, Goto, TypeOK, tableVars, PastLookup, Exists
    <2>3. CASE RotateWrite
        <3>1. \A h \in Hosts : Exists(h) => account'[h] # NoAccount /\ account'[h].born = account[h].born
            BY <2>3, RotateType DEF Exists
        <3>2. QED
            BY <2>1, <2>3, <3>1, InStepIf DEF RotateWrite, Goto, TypeOK, PastLookup
    <2>4. CASE RotateReread
        BY <1>2, <2>1, <2>4 DEF RotateReread, tableVars
    <2>5. QED
        BY <1>4, <2>2, <2>3, <2>4 DEF AdminStep
<1>5. ASSUME NEW t \in Workers, DeleteDns(t) \/ DeleteDnsFails(t) \/ DeleteRows(t) \/ StoreRaises(t) PROVE InStep'
    <2>1. CASE DeleteDns(t)
        BY <2>1, InStepIf DEF DeleteDns, Goto, TypeOK, tableVars, workerVars, Workers, PastLookup, Exists
    <2>2. CASE DeleteDnsFails(t) \/ StoreRaises(t)
        BY <1>2, <2>2 DEF DeleteDnsFails, StoreRaises, tableVars
    <2>3. CASE DeleteRows(t)
        <3>1. \A h \in Hosts : h # host[t] => account'[h] = account[h]
            BY <2>3 DEF DeleteRows, TypeOK
        <3>2. \A u \in Threads : host'[u] = host[t] /\ pc'[u] \in {"apply", "delete_dns", "delete_rows"}
                                    => u \in overtaken'
            BY <2>3 DEF DeleteRows, Forget, Overtake, PastLookup, Workers
        <3>3. \A u \in Threads :
                  pc'[u] \in {"apply", "delete_dns", "delete_rows"} /\ u \notin overtaken' =>
                      PastLookup(u) /\ u \notin overtaken /\ host'[u] = host[u] /\ found'[u] = found[u]
            BY <2>3 DEF DeleteRows, Forget, PastLookup, Workers
        <3>4. QED
            BY <2>3, <3>1, <3>2, <3>3, InStepIf DEF Exists
    <2>4. QED
        BY <1>5, <2>1, <2>2, <2>3
<1>6. ASSUME NEW cutoff \in 0..issued, Cleanup(cutoff) PROVE InStep'
    <2>1. \A h \in Hosts : h \notin Unused(cutoff) => account'[h] = account[h]
        BY <1>6 DEF Cleanup, RemoveUnused
    <2>2. QED
        BY <1>6, <2>1, InStepIf DEF Cleanup, Overtake, workerVars, PastLookup, Exists
<1>7. ASSUME NEW cutoff \in 0..issued, Restart(cutoff) PROVE InStep'
    BY <1>7 DEF Restart, Forget, InStep, PastLookup, Workers
<1>8. QED
    BY <1>1, <1>3, <1>4, <1>5, <1>6, <1>7 DEF Next

\* What is done by hostname after a lookup by secret meets the account that
\* was found, unless it was deleted or cleaned up in between.
THEOREM RequestsStayWithTheirAccount == Spec => []ActsOnItsAccount
<1>1. TypeOK /\ InStep /\ [Next]_vars => (TypeOK /\ InStep)'
    BY TypeStep, InStepStep
<1>2. InStep => ActsOnItsAccount
    BY DEF InStep, ActsOnItsAccount
<1>3. QED
    BY TypeInit, InStepInit, <1>1, <1>2, PTL DEF Spec

-----------------------------------------------------------------------------
\* One step of UsedAccountStays.
Stays(h) ==
    Exists(h) /\ account'[h].born # account[h].born =>
        \E t \in Workers : pc[t] = "delete_rows" /\ host[t] = h

\* Only a delete changes the account of a hostname with a record.
LEMMA StaysStep ==
    ASSUME TypeOK, Next, NEW h \in used
    PROVE  Stays(h)
<1>1. h \in Hosts
    BY DEF TypeOK
<1>2. ASSUME account'[h] = account[h] PROVE Stays(h)
    BY <1>2 DEF Stays
<1>3. ASSUME NEW t \in Threads, PoolStep(t) PROVE Stays(h)
    <2>1. ASSUME NEW g \in Hosts, Insert(t, g) PROVE Stays(h)
        BY <1>1, <2>1 DEF Insert, Stays, TypeOK
    <2>2. QED
        BY <1>2, <1>3, <2>1 DEF PoolStep, BeginCreate, ShowCreated, LookupForUpdate, LookupForDelete, Lookup,
                                ApplyUpdate, ReadManagement, tableVars
<1>4. CASE AdminStep
    <2>1. CASE RotateWrite
        BY <1>1, <2>1, RotateType DEF Stays
    <2>2. QED
        BY <1>2, <1>4, <2>1 DEF AdminStep, AdminDelete, RotateLookup, RotateReread, tableVars
<1>5. ASSUME NEW t \in Workers, DeleteDns(t) \/ DeleteDnsFails(t) \/ DeleteRows(t) \/ StoreRaises(t) PROVE Stays(h)
    <2>1. CASE DeleteRows(t)
        BY <1>1, <2>1 DEF DeleteRows, Stays, TypeOK
    <2>2. QED
        BY <1>2, <1>5, <2>1 DEF DeleteDns, DeleteDnsFails, StoreRaises, tableVars
<1>6. ASSUME NEW cutoff \in 0..issued, Cleanup(cutoff) \/ Restart(cutoff) PROVE Stays(h)
    <2>1. h \notin Unused(cutoff)
        BY DEF Unused
    <2>2. QED
        BY <1>1, <1>2, <1>6, <2>1 DEF Cleanup, Restart, RemoveUnused
<1>7. QED
    BY <1>3, <1>4, <1>5, <1>6 DEF Next

\* An account with a record is removed by deletes alone.
THEOREM UsedAccountsStay == Spec => UsedAccountStays
<1>1. TypeOK /\ [Next]_vars => [\A h \in used : Stays(h)]_vars
    BY StaysStep
<1>2. Spec => [][\A h \in used : Stays(h)]_vars
    BY TypeInit, TypeStep, <1>1, PTL DEF Spec
<1>3. QED
    BY <1>2 DEF UsedAccountStays, Stays
=============================================================================
