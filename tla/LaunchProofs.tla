----------------------------- MODULE LaunchProofs -----------------------------
(***************************************************************************)
(* For any number of accounts and of unfinished starts: no account of a    *)
(* server lacks a column that requests are looked up by, no start replaces *)
(* a secret, and with what make_app accepts the DNS code has a backend,    *)
(* unless its credentials are missing.                                     *)
(***************************************************************************)
EXTENDS Launch, TLAPS

\* What each part of a start can rely on when it is reached.
ColumnsAdded ==
    /\ step \in {"hash", "fill", "sweep", "serving"} => "update_slug" \in columns
    /\ step \in {"fill", "sweep", "serving"} => "management_hash" \in columns

\* No row is without its secrets once the two loops have run.
RowsFilled ==
    step \in {"sweep", "serving"} => \A h \in rows, c \in Columns : secret[h][c] # 0

\* What the checks of make_app and of cli.py have let through.
Accepted ==
    step # "down" =>
        /\ settings.require => DnsBackendConfigured(settings) /\ LaunchReady(settings)
        /\ via = "cli" => settings.admin # "empty"

IInv == TypeOK /\ ColumnsAdded /\ RowsFilled /\ Accepted

\* What stands for no settings is well typed.
LEMMA NoSettingsType == NoSettings \in Settings
BY DEF NoSettings, Settings, Providers, Lengths

\* A process that is down relies on nothing.
LEMMA InitInv == Init => IInv
<1> SUFFICES ASSUME Init PROVE IInv
    OBVIOUS
<1>1. secret \in [Hosts -> [Columns -> Nat]]
    BY BoundAssumption DEF Init
<1>2. TypeOK
    BY <1>1, BoundAssumption, NoSettingsType DEF Init, TypeOK, Steps, Columns
<1> QED
    BY <1>2 DEF Init, IInv, ColumnsAdded, RowsFilled, Accepted

\* What a start works with comes from the environment, whichever way.
LEMMA SettingsType ==
    ASSUME NEW e \in Environments
    PROVE  /\ FromEnv(e) \in Settings /\ Fallback(FromEnv(e)) \in Settings
           /\ FromEnv(e).admin # "empty" => Fallback(FromEnv(e)).admin # "empty"
<1>1. FromEnv(e) \in Settings
    BY DEF FromEnv, Environments, Settings, Lengths
<1>2. ASSUME NEW s \in Settings
      PROVE  Fallback(s) \in Settings /\ (s.admin # "empty" => Fallback(s).admin # "empty")
    BY DEF Fallback, Settings, Lengths
<1> QED
    BY <1>1, <1>2

\* A start that is accepted has passed the checks.
LEMMA LaunchInv ==
    ASSUME IInv, NEW v \in {"cli", "program"}, NEW e \in Environments, Launch(v, e)
    PROVE  IInv'
<1>1. settings' = Fallback(FromEnv(e)) /\ settings' \in Settings /\ via' = v /\ step' = "tables"
      /\ UNCHANGED database
    BY SettingsType DEF Launch
<1>2. TypeOK'
    BY <1>1 DEF IInv, TypeOK, Steps, database
<1>3. Accepted'
    BY <1>1, SettingsType DEF Launch, Accepted, DnsBackendConfigured, LaunchReady
<1> QED
    BY <1>1, <1>2, <1>3 DEF IInv, ColumnsAdded, RowsFilled

\* Columns are only ever added.
LEMMA ColumnInv ==
    ASSUME IInv, CreateTables \/ AddUpdateSlug \/ AddManagementHash
    PROVE  IInv'
<1>1. columns \subseteq columns' /\ columns' \subseteq Columns
      /\ UNCHANGED <<via, settings, rows, secret, issued>> /\ new' \in BOOLEAN
    BY DEF CreateTables, AddUpdateSlug, AddManagementHash, IInv, TypeOK, Columns
<1>2. TypeOK'
    BY <1>1 DEF CreateTables, AddUpdateSlug, AddManagementHash, IInv, TypeOK, Steps
<1>3. ColumnsAdded' /\ RowsFilled' /\ Accepted'
    BY <1>1 DEF CreateTables, AddUpdateSlug, AddManagementHash, IInv, ColumnsAdded, RowsFilled,
                Accepted, DnsBackendConfigured, LaunchReady
<1> QED
    BY <1>2, <1>3 DEF IInv

\* The two loops leave no row without a secret.
LEMMA BackfillInv == ASSUME IInv, Backfill PROVE IInv'
<1>1. columns = Columns /\ step' = "sweep" /\ UNCHANGED <<via, settings, new, columns, rows>>
    BY DEF Backfill, IInv, TypeOK, ColumnsAdded, Columns
<1>2. \A h \in Hosts, c \in Columns :
          secret'[h][c] = IF Missing(h, c) THEN issued + 1 ELSE secret[h][c]
    BY DEF Backfill
<1>3. secret' \in [Hosts -> [Columns -> Nat]] /\ issued' \in Nat
    BY DEF Backfill, IInv, TypeOK
<1>4. issued + 1 # 0
    BY DEF IInv, TypeOK
<1>5. TypeOK'
    BY <1>1, <1>2, <1>3 DEF IInv, TypeOK, Steps, Missing
<1>6. RowsFilled'
    BY <1>1, <1>2, <1>4 DEF IInv, TypeOK, RowsFilled, Missing
<1>7. ColumnsAdded' /\ Accepted'
    BY <1>1 DEF Backfill, IInv, ColumnsAdded, Accepted, DnsBackendConfigured, LaunchReady, Columns
<1> QED
    BY <1>5, <1>6, <1>7 DEF IInv

\* Rows that go take their secrets with them.
LEMMA RemoveInv ==
    ASSUME IInv, NEW hs \in SUBSET rows, Remove(hs), step \in {"sweep", "serving"},
           step' = "serving"
    PROVE  IInv'
<1>1. \A h \in Hosts, c \in Columns : secret'[h][c] = IF h \in hs THEN 0 ELSE secret[h][c]
    BY DEF Remove
<1>2. secret' \in [Hosts -> [Columns -> Nat]]
    BY DEF Remove, IInv, TypeOK
<1>3. TypeOK'
    BY <1>1, <1>2 DEF Remove, IInv, TypeOK, Steps
<1>4. RowsFilled'
    BY <1>1 DEF Remove, IInv, TypeOK, RowsFilled
<1>5. ColumnsAdded' /\ Accepted'
    BY DEF Remove, IInv, ColumnsAdded, Accepted, DnsBackendConfigured, LaunchReady
<1> QED
    BY <1>3, <1>4, <1>5 DEF IInv

\* A new account has both secrets.
LEMMA NewAccountInv == ASSUME IInv, NEW h \in Hosts, NewAccount(h) PROVE IInv'
<1>1. columns = Columns
    BY DEF NewAccount, IInv, TypeOK, ColumnsAdded, Columns
<1>2. \A g \in Hosts, c \in Columns :
          secret'[g][c] = IF g = h THEN issued + 1 ELSE secret[g][c]
    BY DEF NewAccount, IInv, TypeOK
<1>3. secret' \in [Hosts -> [Columns -> Nat]] /\ issued + 1 \in Nat /\ issued + 1 # 0
    BY DEF NewAccount, IInv, TypeOK
<1>4. TypeOK'
    BY <1>1, <1>2, <1>3 DEF NewAccount, IInv, TypeOK
<1>5. RowsFilled'
    BY <1>2, <1>3 DEF NewAccount, IInv, TypeOK, RowsFilled
<1>6. ColumnsAdded' /\ Accepted'
    BY DEF NewAccount, IInv, ColumnsAdded, Accepted, DnsBackendConfigured, LaunchReady
<1> QED
    BY <1>4, <1>5, <1>6 DEF IInv

\* Every statement of a start leaves what the next one relies on.
LEMMA StepInv == IInv /\ [Next]_vars => IInv'
<1> SUFFICES ASSUME IInv, [Next]_vars PROVE IInv'
    OBVIOUS
<1>1. CASE \E v \in {"cli", "program"}, e \in Environments : Launch(v, e)
    BY <1>1, LaunchInv
<1>2. CASE CreateTables \/ AddUpdateSlug \/ AddManagementHash
    BY <1>2, ColumnInv
<1>3. CASE Backfill
    BY <1>3, BackfillInv
<1>4. CASE Sweep
    BY <1>4, RemoveInv DEF Sweep
<1>5. CASE \E h \in Hosts : NewAccount(h)
    BY <1>5, NewAccountInv
<1>6. CASE \E h \in Hosts : DeleteAccount(h)
  <2>1. PICK h \in Hosts : DeleteAccount(h)
      BY <1>6
  <2>2. {h} \in SUBSET rows /\ Remove({h}) /\ step = "serving" /\ step' = "serving"
      BY <2>1 DEF DeleteAccount
  <2> QED
      BY <2>2, RemoveInv
<1>7. CASE Down
    BY <1>7, NoSettingsType DEF Down, IInv, TypeOK, Steps, ColumnsAdded, RowsFilled, Accepted, database
<1>8. CASE UNCHANGED vars
    BY <1>8 DEF vars, database, IInv, TypeOK, ColumnsAdded, RowsFilled, Accepted,
                DnsBackendConfigured, LaunchReady
<1> QED
    BY <1>1, <1>2, <1>3, <1>4, <1>5, <1>6, <1>7, <1>8 DEF Next

\* So the invariant holds whatever a process runs through.
LEMMA AlwaysInv == Spec => []IInv
BY InitInv, StepInv, PTL DEF Spec

-----------------------------------------------------------------------------
\* TypeOK: in particular no secret without its row and its column.
THEOREM LaunchTypeCorrect == Spec => []TypeOK
<1>1. IInv => TypeOK
    BY DEF IInv
<1> QED
    BY AlwaysInv, <1>1, PTL

\* AccountsComplete: wherever earlier starts of _init_db have died, no account
\* of a server lacks a value in either of the two columns.
THEOREM ServersHaveCompleteAccounts == Spec => []AccountsComplete
<1>1. IInv => AccountsComplete
    BY DEF IInv, ColumnsAdded, RowsFilled, AccountsComplete, Columns
<1> QED
    BY AlwaysInv, <1>1, PTL

\* ServesAsConfigured: the checks of cli.py and make_app cover publish_dns, but
\* for the credentials of the provider.
THEOREM ChecksSuffice == Spec => []ServesAsConfigured
<1>1. IInv => ServesAsConfigured
    BY DEF IInv, TypeOK, Settings, Providers, Accepted, ServesAsConfigured, DnsBackendConfigured,
           LaunchReady, Route, Incomplete
<1> QED
    BY AlwaysInv, <1>1, PTL

\* StartKeepsSecrets: no start, finished or not, replaces a secret of a row.
THEOREM StartsKeepSecrets == Spec => StartKeepsSecrets
<1> DEFINE Kept == \A h \in Hosts, c \in Columns :
                      secret[h][c] # 0 => secret'[h][c] = secret[h][c] \/ h \notin rows'
<1>1. IInv /\ [Next]_vars => [step # "serving" => Kept]_vars
  <2> SUFFICES ASSUME IInv, Next, step # "serving" PROVE Kept
      OBVIOUS
  <2>1. CASE Sweep
    <3>1. PICK hs \in SUBSET rows : Remove(hs)
        BY <2>1 DEF Sweep
    <3> QED
        BY <3>1 DEF Remove
  <2>2. CASE Backfill
      BY <2>2 DEF Backfill, Missing
  <2>3. CASE UNCHANGED secret
      BY <2>3
  <2>4. CASE \E h \in Hosts : NewAccount(h) \/ DeleteAccount(h)
      BY <2>4 DEF NewAccount, DeleteAccount
  <2> QED
      BY <2>1, <2>2, <2>3, <2>4
      DEF Next, Launch, CreateTables, AddUpdateSlug, AddManagementHash, Down, database
<1> QED
    BY AlwaysInv, <1>1, PTL DEF StartKeepsSecrets, Spec
===============================================================================
