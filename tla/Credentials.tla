------------------------------ MODULE Credentials ------------------------------
(***************************************************************************)
(* The secrets of an account: the slug of its update URL, its router       *)
(* password and the slug of its management link, as ddns_store.py keeps    *)
(* them and as the handlers of ddns.py and ddns_api.py create, show,       *)
(* accept, rotate and delete them.                                         *)
(*                                                                         *)
(* A handler looks an account up by a secret and from then on names it by  *)
(* its hostname; a custom hostname can be deleted and created again in     *)
(* between.  The admin's handlers are coroutines that never await once     *)
(* their form is read, so the event loop runs one of them at a time;       *)
(* everything else runs in pool threads and interleaves with them.         *)
(* DDNS_SHARED_SECRET, which needs no account, is not set.                 *)
(***************************************************************************)
EXTENDS Naturals

CONSTANTS
    Hosts,     \* hostnames that may be created
    Threads,   \* pool threads
    Loop,      \* the event loop, which serves the admin
    MaxIssued  \* bound: secrets generated in one behaviour

Kinds    == {"update", "password", "management"}
Workers  == Threads \cup {Loop}
Attempts == 5

ASSUME LoopAssumption == Loop \notin Threads

ASSUME BoundAssumption == MaxIssued \in Nat

VARIABLES
    account,   \* accounts: the row of each hostname, NoAccount if none
    used,      \* hostnames with a row in records
    issued,    \* how many times secrets have been generated
    pc,        \* per worker: the next step of its request
    host,      \* per worker: the hostname it works on
    kind,      \* the secret the admin rotates
    fresh,     \* per worker: the secret it has generated and not yet shown
    tries,     \* per worker: attempts to create an account that are left
    found,     \* history: which account the worker's lookup found
    shown,     \* history: the secrets that have been in an answer
    lost,      \* history: secrets generated for an answer that was never sent
    overtaken  \* history: threads whose hostname was deleted since their lookup

tableVars  == <<account, used, issued>>
workerVars == <<host, kind, fresh, tries, found>>
vars       == <<tableVars, pc, workerVars, shown, lost, overtaken>>

NoAccount == [born |-> 0, secret |-> [k \in Kinds |-> 0]]
Accounts  == [born : Nat, secret : [Kinds -> Nat]]
Secrets   == Kinds \X Nat
Pcs       == {"idle", "insert", "show", "apply", "delete_dns", "delete_rows", "rotate", "reread"}

Exists(h) == account[h] # NoAccount

TypeOK ==
    /\ account \in [Hosts -> Accounts]
    /\ used \subseteq Hosts
    /\ issued \in Nat
    /\ pc \in [Workers -> Pcs]
    /\ host \in [Workers -> Hosts]
    /\ kind \in Kinds
    /\ fresh \in [Workers -> Nat]
    /\ tries \in [Workers -> 0..Attempts]
    /\ found \in [Workers -> Nat]
    /\ shown \subseteq Secrets
    /\ lost \subseteq Secrets
    /\ overtaken \subseteq Threads
    /\ \A t \in Workers : pc[t] = "insert" => tries[t] > 0

Init ==
    /\ account = [h \in Hosts |-> NoAccount]
    /\ used = {}
    /\ issued = 0
    /\ pc = [t \in Workers |-> "idle"]
    /\ host \in [Workers -> Hosts]
    /\ kind \in Kinds
    /\ fresh = [t \in Workers |-> 0]
    /\ tries = [t \in Workers |-> 0]
    /\ found = [t \in Workers |-> 0]
    /\ shown = {}
    /\ lost = {}
    /\ overtaken = {}

\* The requests of ts are over.
Forget(ts) ==
    /\ pc' = [t \in Workers |-> IF t \in ts THEN "idle" ELSE pc[t]]
    /\ fresh' = [t \in Workers |-> IF t \in ts THEN 0 ELSE fresh[t]]
    /\ tries' = [t \in Workers |-> IF t \in ts THEN 0 ELSE tries[t]]
    /\ found' = [t \in Workers |-> IF t \in ts THEN 0 ELSE found[t]]
    /\ UNCHANGED <<host, kind>>

Answer(t) == Forget({t}) /\ overtaken' = overtaken \ {t}

Goto(t, p) == pc' = [pc EXCEPT ![t] = p]

\* The secrets t has generated and stored, or is about to, and not yet shown.
Pending(t) ==
    CASE pc[t] = "show"   -> Kinds \X {fresh[t]}
      [] pc[t] = "reread" -> {<<kind, fresh[t]>>}
      [] OTHER            -> {}

\* Past the lookup: t works on a hostname it found by a secret.
PastLookup(t) == pc[t] \in {"apply", "delete_dns", "delete_rows"}

\* Whoever works on one of the hostnames hs is overtaken when they are deleted.
Overtake(hs) == {t \in Threads : PastLookup(t) /\ host[t] \in hs}

-----------------------------------------------------------------------------
(* Creating an account.                                                    *)

\* A managed hostname is drawn again when it is taken, a custom one is not.
BeginCreate(t) ==
    /\ pc[t] = "idle"
    /\ Goto(t, "insert")
    /\ \E n \in {1, Attempts} : tries' = [tries EXCEPT ![t] = n]
    /\ UNCHANGED <<tableVars, host, kind, fresh, found, shown, lost, overtaken>>

\* Mutant: the INSERT replaces a row that is there.
Insert_Replaces(t, h) ==
    /\ pc[t] = "insert" /\ issued < MaxIssued
    /\ issued' = issued + 1
    /\ account' = [account EXCEPT ![h] =
                      [born |-> issued + 1, secret |-> [k \in Kinds |-> issued + 1]]]
    /\ fresh' = [fresh EXCEPT ![t] = issued + 1]
    /\ host' = [host EXCEPT ![t] = h]
    /\ Goto(t, "show")
    /\ UNCHANGED <<used, kind, tries, found, shown, lost, overtaken>>

\* Mutant: the loop draws once more after the last attempt.
Collide_OnceMore(t) ==
    /\ tries' = [tries EXCEPT ![t] = @ - 1]
    /\ UNCHANGED <<pc, host, kind, fresh, found, overtaken>>

\* IntegrityError: 409, or the next draw, or 500 after the last.
Collide(t) ==
    IF tries[t] = 1
    THEN Answer(t)
    ELSE /\ tries' = [tries EXCEPT ![t] = @ - 1]
         /\ UNCHANGED <<pc, host, kind, fresh, found, overtaken>>

\* The INSERT of create_account with its three new secrets.
Insert(t, h) ==
    /\ pc[t] = "insert" /\ issued < MaxIssued
    /\ IF Exists(h)
       THEN Collide(t) /\ UNCHANGED <<account, issued>>
       ELSE /\ issued' = issued + 1
            /\ account' = [account EXCEPT ![h] =
                              [born |-> issued + 1, secret |-> [k \in Kinds |-> issued + 1]]]
            /\ fresh' = [fresh EXCEPT ![t] = issued + 1]
            /\ host' = [host EXCEPT ![t] = h]
            /\ Goto(t, "show")
            /\ UNCHANGED <<kind, tries, found, overtaken>>
    /\ UNCHANGED <<used, shown, lost>>

\* The credentials panel or the JSON answer.
ShowCreated(t) ==
    /\ pc[t] = "show"
    /\ shown' = shown \cup Pending(t)
    /\ Answer(t)
    /\ UNCHANGED <<tableVars, lost>>

-----------------------------------------------------------------------------
(* Using a secret.                                                         *)

\* The account whose secret of kind k is n; 404, or badauth, if none is.
Lookup(t, k, n, next) ==
    /\ pc[t] = "idle" /\ <<k, n>> \in shown
    /\ \E h \in Hosts :
          /\ account[h].secret[k] = n
          /\ host' = [host EXCEPT ![t] = h]
          /\ found' = [found EXCEPT ![t] = account[h].born]
    /\ Goto(t, next)
    /\ UNCHANGED <<tableVars, kind, fresh, tries, shown, lost, overtaken>>

\* slug_update and update_hostname go by the slug, update by the password.
LookupForUpdate(t) == \E k \in {"update", "password"}, n \in 1..issued : Lookup(t, k, n, "apply")

LookupForDelete(t) == \E n \in 1..issued : Lookup(t, "management", n, "delete_dns")

\* apply_update stores the addresses (DdnsService has its steps).
ApplyUpdate(t) ==
    /\ pc[t] = "apply"
    /\ used' = used \cup {host[t]}
    /\ Answer(t)
    /\ UNCHANGED <<account, issued, shown, lost>>

\* The management page and the JSON record contain the update URL.
ReadManagement(t) ==
    /\ pc[t] = "idle"
    /\ \E h \in Hosts :
          /\ Exists(h) /\ <<"management", account[h].secret["management"]>> \in shown
          /\ shown' = shown \cup {<<"update", account[h].secret["update"]>>}
    /\ UNCHANGED <<tableVars, pc, workerVars, lost, overtaken>>

-----------------------------------------------------------------------------
(* Deleting an account.                                                    *)

\* The admin deletes by hostname, whether or not there is such an account.
AdminDelete(h) ==
    /\ pc[Loop] = "idle"
    /\ Goto(Loop, "delete_dns")
    /\ host' = [host EXCEPT ![Loop] = h]
    /\ UNCHANGED <<tableVars, kind, fresh, tries, found, shown, lost, overtaken>>

DeleteDns(t) ==
    /\ pc[t] = "delete_dns"
    /\ Goto(t, "delete_rows")
    /\ UNCHANGED <<tableVars, workerVars, shown, lost, overtaken>>

\* The backend raises: logged, and the rows stay.
DeleteDnsFails(t) ==
    /\ pc[t] = "delete_dns"
    /\ Answer(t)
    /\ UNCHANGED <<tableVars, shown, lost>>

\* Both rows, by hostname.
DeleteRows(t) ==
    /\ pc[t] = "delete_rows"
    /\ account' = [account EXCEPT ![host[t]] = NoAccount]
    /\ used' = used \ {host[t]}
    /\ Forget({t})
    /\ overtaken' = (overtaken \cup Overtake({host[t]})) \ {t}
    /\ UNCHANGED <<issued, shown, lost>>

-----------------------------------------------------------------------------
(* Rotating a secret.                                                      *)

\* get_account_by_hostname; 404 without one.
RotateLookup(h, k) ==
    /\ pc[Loop] = "idle" /\ Exists(h)
    /\ Goto(Loop, "rotate")
    /\ host' = [host EXCEPT ![Loop] = h]
    /\ kind' = k
    /\ UNCHANGED <<tableVars, fresh, tries, found, shown, lost, overtaken>>

\* Mutant: every rotation also replaces the management link.
RotateWrite_TwoColumns ==
    /\ pc[Loop] = "rotate" /\ issued < MaxIssued
    /\ issued' = issued + 1
    /\ account' = IF Exists(host[Loop])
                  THEN [account EXCEPT ![host[Loop]].secret[kind] = issued + 1,
                                       ![host[Loop]].secret["management"] = issued + 1]
                  ELSE account
    /\ fresh' = [fresh EXCEPT ![Loop] = issued + 1]
    /\ Goto(Loop, "reread")
    /\ UNCHANGED <<used, host, kind, tries, found, shown, lost, overtaken>>

\* The UPDATE of one column, if the row is still there.
RotateWrite ==
    /\ pc[Loop] = "rotate" /\ issued < MaxIssued
    /\ issued' = issued + 1
    /\ account' = IF Exists(host[Loop])
                  THEN [account EXCEPT ![host[Loop]].secret[kind] = issued + 1]
                  ELSE account
    /\ fresh' = [fresh EXCEPT ![Loop] = issued + 1]
    /\ Goto(Loop, "reread")
    /\ UNCHANGED <<used, host, kind, tries, found, shown, lost, overtaken>>

\* What the notice shows: the slug that is read back, or the generated value
\* of a secret of which only a hash is stored.
Notice == IF kind = "update" THEN account[host[Loop]].secret[kind] ELSE fresh[Loop]

\* The SELECT, and the page with the notice if it found the account.
RotateReread ==
    /\ pc[Loop] = "reread"
    /\ shown' = IF Exists(host[Loop]) THEN shown \cup {<<kind, Notice>>} ELSE shown
    /\ Answer(Loop)
    /\ UNCHANGED <<tableVars, lost>>

-----------------------------------------------------------------------------
(* The cleanup, failures.                                                  *)

\* Mutant: an account in use is removed as well.
Unused_AnyOld(cutoff) == {h \in Hosts : Exists(h) /\ account[h].born <= cutoff}

\* Accounts from before the cutoff that never got a records row.
Unused(cutoff) == {h \in Hosts : Exists(h) /\ account[h].born <= cutoff /\ h \notin used}

RemoveUnused(cutoff) ==
    account' = [h \in Hosts |-> IF h \in Unused(cutoff) THEN NoAccount ELSE account[h]]

\* How far time has moved the cutoff is left open.
Cleanup(cutoff) ==
    /\ Unused(cutoff) # {}
    /\ RemoveUnused(cutoff)
    /\ overtaken' = overtaken \cup Overtake(Unused(cutoff))
    /\ UNCHANGED <<used, issued, pc, workerVars, shown, lost>>

\* SQLite raises, before the step has changed anything: 500.
StoreRaises(t) ==
    /\ pc[t] \in {"insert", "apply", "delete_rows", "rotate", "reread"}
    /\ lost' = lost \cup Pending(t)
    /\ Answer(t)
    /\ UNCHANGED <<tableVars, shown>>

\* The process restarts: its requests are lost, make_app runs the cleanup.
Restart(cutoff) ==
    /\ RemoveUnused(cutoff)
    /\ lost' = lost \cup UNION {Pending(t) : t \in Workers}
    /\ Forget(Workers)
    /\ overtaken' = {}
    /\ UNCHANGED <<used, issued, shown>>

PoolStep(t) ==
    \/ BeginCreate(t) \/ ShowCreated(t)
    \/ \E h \in Hosts : Insert(t, h)
    \/ LookupForUpdate(t) \/ ApplyUpdate(t)
    \/ ReadManagement(t)
    \/ LookupForDelete(t)

AdminStep ==
    \/ \E h \in Hosts : AdminDelete(h) \/ \E k \in Kinds : RotateLookup(h, k)
    \/ RotateWrite \/ RotateReread

Next ==
    \/ AdminStep
    \/ \E t \in Threads : PoolStep(t)
    \/ \E t \in Workers : DeleteDns(t) \/ DeleteDnsFails(t) \/ DeleteRows(t) \/ StoreRaises(t)
    \/ \E cutoff \in 0..issued : Cleanup(cutoff) \/ Restart(cutoff)

Spec == Init /\ [][Next]_vars

-----------------------------------------------------------------------------
(* Properties.                                                             *)

\* Nobody is locked out: whatever is created, rotated, deleted, created again
\* and cleaned up in between, each secret of an account has been shown, is
\* about to be, or its one answer was lost to a failure.
SecretsAreShown ==
    \A h \in Hosts, k \in Kinds :
        Exists(h) =>
            <<k, account[h].secret[k]>> \in shown \cup lost \cup UNION {Pending(t) : t \in Workers}

\* Between the lookup by secret and what is done by hostname the account stays
\* the one that was found, unless a delete or the cleanup took it away.
ActsOnItsAccount ==
    \A t \in Threads :
        PastLookup(t) /\ t \notin overtaken => account[host[t]].born = found[t]

\* An account that a router has updated is only ever removed by a delete: not
\* by the cleanup, a restart, or the creation of another.
UsedAccountStays ==
    [][\A h \in used :
          Exists(h) /\ account'[h].born # account[h].born =>
              \E t \in Workers : pc[t] = "delete_rows" /\ host[t] = h]_vars
=============================================================================
