----------------------------- MODULE DdnsService -----------------------------
(***************************************************************************)
(* The life of a hostname: router_dyndns/ddns_service.py driven by the     *)
(* route handlers of ddns.py and ddns_api.py, over the accounts, records   *)
(* and update_events tables of ddns_store.py, publishing through the DNS   *)
(* backend of ddns_dns.py.                                                 *)
(*                                                                         *)
(* A thread of the server's pool runs one request at a time.  Each SQLite  *)
(* transaction and each call to the DNS backend is one atomic step;        *)
(* between two of them every other thread, the cleanup job and a crash may *)
(* interleave.  An update holds the per-hostname lock of _lock_for from    *)
(* its preview to its log entry; a delete and the cleanup take no lock.    *)
(***************************************************************************)
EXTENDS Naturals

CONSTANTS
    Hosts,         \* the hostnames clients may name
    Updaters,      \* pool threads that may serve a router update
    Deleters,      \* pool threads that may serve a delete
    Addr,          \* IP addresses, of either family
    None,          \* Python's None: no address
    Omitted,       \* the family was not named by the request
    Requests,      \* the parsed update requests that may arrive
    Backend,       \* the configured DNS backend
    SharedSecret,  \* DDNS_SHARED_SECRET set: /nic/update needs no account
    Free,          \* the lock of a hostname that no thread holds
    MaxFaults      \* bound: failures injected in one behaviour

Threads  == Updaters \cup Deleters
Families == {"A", "AAAA"}
Value    == Addr \cup {None}
Row      == [Families -> Value]
Request  == [Families -> Value \cup {Omitted}]

ASSUME ConstantsAssumption ==
    /\ None \notin Addr
    /\ Omitted \notin Value
    /\ Requests \subseteq Request
    /\ Backend \in {"none", "rfc2136", "cloudflare"}
    /\ SharedSecret \in BOOLEAN
    /\ Free \notin Threads
    /\ MaxFaults \in Nat

VARIABLES
    accounts,   \* hostnames with a row in accounts
    aged,       \* accounts older than cleanup_unused_account_hours
    stored,     \* hostnames with a row in records
    records,    \* that row's addresses, None twice when there is no row
    lastEvent,  \* the newest update_events row of each hostname
    dns,        \* external: the records the DNS backend serves
    holder,     \* who holds the hostname's lock in DdnsService._locks
    pc,         \* per thread: the next step of the request it serves
    host,       \* per thread: the hostname of that request
    want,       \* per thread: the addresses the request asks for
    eff,        \* per thread: the effective addresses last computed
    changed,    \* per thread: the changed flag last computed
    todo,       \* per thread: families still to be sent to the backend
    found,      \* per thread: what the Cloudflare record lookup returned
    suspect,    \* history: families of a host whose published record a
                \* failed call or a delete has touched since the last
                \* acknowledged publish
    crossed,    \* history, per thread: families an update may have published
                \* since the delete it serves began
    refused,    \* history: threads whose delete the server has refused
    faults      \* history: failures so far

tableVars  == <<accounts, aged, stored, records, lastEvent>>
threadVars == <<host, want, eff, changed, todo, found>>
vars       == <<tableVars, dns, holder, pc, threadVars, suspect, crossed, refused, faults>>

Blank     == [f \in Families |-> None]
NoRequest == [f \in Families |-> Omitted]

PublishPcs == {"find", "write", "send"}
UpdatePcs  == {"preview", "dns_failed", "select", "insert", "log"} \cup PublishPcs
DeletePcs  == {"del_find", "del_write", "del_send", "del_failed", "del_store"}
StorePcs   == {"preview", "select", "insert", "log", "dns_failed", "del_failed", "del_store"}
Pcs        == {"idle", "lock"} \cup UpdatePcs \cup DeletePcs

Statuses == {"none", "updated", "unchanged", "dns_failed", "dns_delete_failed"}

TypeOK ==
    /\ accounts \subseteq Hosts
    /\ aged \subseteq accounts
    /\ stored \subseteq Hosts
    /\ records \in [Hosts -> Row]
    /\ lastEvent \in [Hosts -> [status : Statuses, row : Row]]
    /\ dns \in [Hosts -> Row]
    /\ holder \in [Hosts -> Threads \cup {Free}]
    /\ pc \in [Threads -> Pcs]
    /\ host \in [Threads -> Hosts]
    /\ want \in [Threads -> Request]
    /\ eff \in [Threads -> Row]
    /\ changed \in [Threads -> BOOLEAN]
    /\ todo \in [Threads -> SUBSET Families]
    /\ found \in [Threads -> {"unknown", "absent", "present", "stale"}]
    /\ suspect \in [Hosts -> SUBSET Families]
    /\ crossed \in [Threads -> SUBSET Families]
    /\ refused \subseteq Threads
    /\ faults \in Nat

-----------------------------------------------------------------------------
(* What the code computes from a row and a request.                        *)

\* The families the request names: update_ipv4, update_ipv6.
Updated(req) == {f \in Families : req[f] # Omitted}

\* Mutant: a family the request leaves out is overwritten.
Effective_NoCarry(row, req) == [f \in Families |-> req[f]]

\* effective_ipv4, effective_ipv6: a family the request leaves out keeps its
\* address.
Effective(row, req) == [f \in Families |-> IF req[f] = Omitted THEN row[f] ELSE req[f]]

\* Mutant: only the IPv4 address is compared.
IsChange_IPv4Only(h, req) == h \notin stored \/ Effective(records[h], req)["A"] # records[h]["A"]

\* The changed flag of preview_update and of upsert.
IsChange(h, req) == h \notin stored \/ Effective(records[h], req) # records[h]

\* The addresses of a request, as the dns_failed event records them.
Asked(req) == Effective(Blank, req)

\* The family a Cloudflare loop works on: A first, then AAAA.
Current(t) == IF "A" \in todo[t] THEN "A" ELSE "AAAA"

\* The request of t is over: its locals are gone.
Finish(ts) ==
    /\ pc' = [t \in Threads |-> IF t \in ts THEN "idle" ELSE pc[t]]
    /\ want' = [t \in Threads |-> IF t \in ts THEN NoRequest ELSE want[t]]
    /\ eff' = [t \in Threads |-> IF t \in ts THEN Blank ELSE eff[t]]
    /\ changed' = [t \in Threads |-> IF t \in ts THEN FALSE ELSE changed[t]]
    /\ todo' = [t \in Threads |-> IF t \in ts THEN {} ELSE todo[t]]
    /\ found' = [t \in Threads |-> IF t \in ts THEN "unknown" ELSE found[t]]
    /\ crossed' = [t \in Threads |-> IF t \in ts THEN {} ELSE crossed[t]]
    /\ refused' = refused \ ts
    /\ UNCHANGED host

\* Leaving the "with lock" block, normally or by an exception.
Release(t) == holder' = [h \in Hosts |-> IF holder[h] = t THEN Free ELSE holder[h]]

LogEvent(h, status, row) ==
    lastEvent' = [lastEvent EXCEPT ![h] = [status |-> status, row |-> row]]

\* What t's own calls may have left published without being stored.
Touched(t) ==
    IF pc[t] \in PublishPcs \/ (pc[t] \in {"select", "insert"} /\ changed[t])
    THEN (Updated(want[t]) \ todo[t])
         \cup (IF pc[t] = "write" THEN {Current(t)}
               ELSE IF pc[t] = "send" THEN todo[t] ELSE {})
    ELSE {}

Suspect(h, fs) == suspect' = [suspect EXCEPT ![h] = @ \cup fs]
Trust(h, fs)   == suspect' = [suspect EXCEPT ![h] = @ \ fs]

\* The families fs of h are published through the deletes of h under way.
Cross(h, fs) ==
    /\ crossed' = [t \in Threads |->
                     IF host[t] = h /\ pc[t] \in DeletePcs THEN crossed[t] \cup fs ELSE crossed[t]]
    /\ UNCHANGED refused

Fault == faults < MaxFaults /\ faults' = faults + 1

\* The record (h, f) has been removed by t: an id another thread looked up
\* for it names nothing any more.
ForgetId(t, h, f) ==
    found' = [u \in Threads |->
                IF u = t THEN "unknown"
                ELSE IF /\ pc[u] \in {"write", "del_write"}
                        /\ host[u] = h /\ Current(u) = f
                        /\ found[u] = "present"
                     THEN "stale"
                     ELSE found[u]]

-----------------------------------------------------------------------------
Init ==
    /\ accounts = {} /\ aged = {} /\ stored = {}
    /\ records = [h \in Hosts |-> Blank]
    /\ lastEvent = [h \in Hosts |-> [status |-> "none", row |-> Blank]]
    /\ dns = [h \in Hosts |-> Blank]
    /\ holder = [h \in Hosts |-> Free]
    /\ pc = [t \in Threads |-> "idle"]
    /\ host \in [Threads -> Hosts]
    /\ want = [t \in Threads |-> NoRequest]
    /\ eff = [t \in Threads |-> Blank]
    /\ changed = [t \in Threads |-> FALSE]
    /\ todo = [t \in Threads |-> {}]
    /\ found = [t \in Threads |-> "unknown"]
    /\ suspect = [h \in Hosts |-> {}]
    /\ crossed = [t \in Threads |-> {}]
    /\ refused = {}
    /\ faults = 0

-----------------------------------------------------------------------------
(* Accounts.                                                               *)

\* create_account: the INSERT of a new hostname.  An existing one raises
\* IntegrityError and nothing changes.
CreateAccount(h) ==
    /\ h \notin accounts
    /\ accounts' = accounts \cup {h}
    /\ UNCHANGED <<aged, stored, records, lastEvent, dns, holder, pc, threadVars, suspect, crossed, refused, faults>>

\* Time passes: created_at falls behind the cleanup cutoff.
GrowOld(h) ==
    /\ h \in accounts \ aged
    /\ aged' = aged \cup {h}
    /\ UNCHANGED <<accounts, stored, records, lastEvent, dns, holder, pc, threadVars, suspect, crossed, refused, faults>>

\* What cleanup deletes from accounts: old, and without a row in records.
Unused == {h \in aged : h \notin stored}

\* cleanup, one transaction: from the background loop or the admin page.
Cleanup ==
    /\ Unused # {}
    /\ accounts' = accounts \ Unused
    /\ aged' = aged \ Unused
    /\ UNCHANGED <<stored, records, lastEvent, dns, holder, pc, threadVars, suspect, crossed, refused, faults>>

-----------------------------------------------------------------------------
(* A router update: slug_update, update or update_hostname, then           *)
(* DdnsService.apply_update.                                               *)

\* The handler finds the account by its slug or credentials and parses the
\* addresses; without an account it answers 404 or badauth.
LookupForUpdate(t, h, req) ==
    /\ t \in Updaters /\ pc[t] = "idle"
    /\ h \in accounts \/ SharedSecret
    /\ pc' = [pc EXCEPT ![t] = "lock"]
    /\ host' = [host EXCEPT ![t] = h]
    /\ want' = [want EXCEPT ![t] = req]
    /\ UNCHANGED <<tableVars, dns, holder, eff, changed, todo, found, suspect, crossed, refused, faults>>

\* Mutant: the lock does not exclude.
AcquireLock_NoWait(t) ==
    /\ pc[t] = "lock"
    /\ holder' = [holder EXCEPT ![host[t]] = t]
    /\ pc' = [pc EXCEPT ![t] = "preview"]
    /\ UNCHANGED <<tableVars, dns, threadVars, suspect, crossed, refused, faults>>

AcquireLock(t) ==
    /\ pc[t] = "lock" /\ holder[host[t]] = Free
    /\ holder' = [holder EXCEPT ![host[t]] = t]
    /\ pc' = [pc EXCEPT ![t] = "preview"]
    /\ UNCHANGED <<tableVars, dns, threadVars, suspect, crossed, refused, faults>>

\* The choice publish_dns makes of a backend, and the first call it makes.
PublishPlan(fs) ==
    IF Backend = "rfc2136" THEN "send" ELSE IF fs = {} THEN "select" ELSE "find"

\* preview_update: one read, and the decision to publish.
PreviewUpdate(t) ==
    LET h == host[t]
        publishing == IsChange(h, want[t]) /\ Backend # "none"
        fs == IF publishing THEN Updated(want[t]) ELSE {}
    IN  /\ pc[t] = "preview"
        /\ eff' = [eff EXCEPT ![t] = Effective(records[h], want[t])]
        /\ changed' = [changed EXCEPT ![t] = IsChange(h, want[t])]
        /\ todo' = [todo EXCEPT ![t] = fs]
        /\ pc' = [pc EXCEPT ![t] = IF publishing THEN PublishPlan(fs) ELSE "select"]
        /\ UNCHANGED <<tableVars, dns, holder, host, want, found, suspect, crossed, refused, faults>>

\* _cloudflare_find_record: the GET of one family.
PublishFind(t) ==
    /\ pc[t] = "find"
    /\ found' = [found EXCEPT ![t] = IF dns[host[t]][Current(t)] = None THEN "absent" ELSE "present"]
    /\ pc' = [pc EXCEPT ![t] = "write"]
    /\ UNCHANGED <<tableVars, dns, holder, host, want, eff, changed, todo, suspect, crossed, refused, faults>>

\* Mutant: a family to be cleared is left as it is.
PublishWrite_NeverClears(t) ==
    LET h == host[t]
        f == Current(t)
    IN  /\ pc[t] = "write" /\ found[t] # "stale"
        /\ dns' = [dns EXCEPT ![h][f] = IF eff[t][f] = None THEN @ ELSE eff[t][f]]
        /\ found' = [found EXCEPT ![t] = "unknown"]
        /\ todo' = [todo EXCEPT ![t] = @ \ {f}]
        /\ pc' = [pc EXCEPT ![t] = IF todo[t] = {f} THEN "select" ELSE "find"]
        /\ Trust(h, {f}) /\ Cross(h, {f})
        /\ UNCHANGED <<tableVars, holder, host, want, eff, changed, faults>>

\* Mutant: the loop does not come to its next family.
PublishWrite_SameFamily(t) ==
    LET h == host[t]
        f == Current(t)
    IN  /\ pc[t] = "write" /\ found[t] # "stale"
        /\ dns' = [dns EXCEPT ![h][f] = eff[t][f]]
        /\ found' = [found EXCEPT ![t] = "unknown"]
        /\ pc' = [pc EXCEPT ![t] = "find"]
        /\ Trust(h, {f}) /\ Cross(h, {f})
        /\ UNCHANGED <<tableVars, holder, host, want, eff, changed, todo, faults>>

\* _cloudflare_upsert_record: the PATCH, POST or DELETE of one family, or
\* nothing when there is nothing to delete.
PublishWrite(t) ==
    LET h == host[t]
        f == Current(t)
    IN  /\ pc[t] = "write" /\ found[t] # "stale"
        /\ dns' = [dns EXCEPT ![h][f] = eff[t][f]]
        /\ IF found[t] = "present" /\ eff[t][f] = None
           THEN ForgetId(t, h, f)
           ELSE found' = [found EXCEPT ![t] = "unknown"]
        /\ todo' = [todo EXCEPT ![t] = @ \ {f}]
        /\ pc' = [pc EXCEPT ![t] = IF todo[t] = {f} THEN "select" ELSE "find"]
        /\ Trust(h, {f}) /\ Cross(h, {f})
        /\ UNCHANGED <<tableVars, holder, host, want, eff, changed, faults>>

\* The record was deleted after the GET: Cloudflare answers 404.
PublishStale(t) ==
    /\ pc[t] = "write" /\ found[t] = "stale"
    /\ pc' = [pc EXCEPT ![t] = "dns_failed"]
    /\ Suspect(host[t], Touched(t))
    /\ UNCHANGED <<tableVars, dns, holder, threadVars, crossed, refused, faults>>

\* publish_rfc2136: one update message carries every family, atomically.
Sent(t) == [f \in Families |-> IF f \in todo[t] THEN eff[t][f] ELSE dns[host[t]][f]]

PublishSend(t) ==
    /\ pc[t] = "send"
    /\ dns' = [dns EXCEPT ![host[t]] = Sent(t)]
    /\ todo' = [todo EXCEPT ![t] = {}]
    /\ pc' = [pc EXCEPT ![t] = "select"]
    /\ Trust(host[t], todo[t]) /\ Cross(host[t], todo[t])
    /\ UNCHANGED <<tableVars, holder, host, want, eff, changed, found, faults>>

\* A family to clear that has no record: no request is made for it.
NothingToSend(t) == pc[t] = "write" /\ found[t] = "absent" /\ eff[t][Current(t)] = None

\* Mutant: the response code of an update message is not looked at.
PublishFault_Ignored(t) ==
    /\ pc[t] = "send" /\ Fault
    /\ todo' = [todo EXCEPT ![t] = {}]
    /\ pc' = [pc EXCEPT ![t] = "select"]
    /\ UNCHANGED <<tableVars, dns, holder, host, want, eff, changed, found, suspect, crossed, refused>>

\* A backend call raises: refused, unreachable, or done with its answer lost.
PublishFault(t) ==
    LET h == host[t]
        f == Current(t)
    IN  /\ pc[t] \in PublishPcs /\ ~NothingToSend(t) /\ Fault
        /\ \/ UNCHANGED <<dns, found, crossed, refused>>
           \/ /\ pc[t] = "send"
              /\ dns' = [dns EXCEPT ![h] = Sent(t)]
              /\ Cross(h, todo[t])
              /\ UNCHANGED found
           \/ /\ pc[t] = "write" /\ found[t] # "stale"
              /\ dns' = [dns EXCEPT ![h][f] = eff[t][f]]
              /\ Cross(h, {f})
              /\ IF found[t] = "present" /\ eff[t][f] = None
                 THEN ForgetId(t, h, f)
                 ELSE UNCHANGED found
        /\ pc' = [pc EXCEPT ![t] = "dns_failed"]
        /\ Suspect(h, Touched(t))
        /\ UNCHANGED <<tableVars, holder, host, want, eff, changed, todo>>

\* Mutant: the except clause logs and carries on.
LogPublishFailure_CarriesOn(t) ==
    /\ pc[t] = "dns_failed"
    /\ LogEvent(host[t], "dns_failed", Asked(want[t]))
    /\ pc' = [pc EXCEPT ![t] = "select"]
    /\ UNCHANGED <<accounts, aged, stored, records, dns, holder, threadVars, suspect, crossed, refused, faults>>

\* The except clause of apply_update: log dns_failed, raise, leave the lock.
LogPublishFailure(t) ==
    /\ pc[t] = "dns_failed"
    /\ LogEvent(host[t], "dns_failed", Asked(want[t]))
    /\ Release(t)
    /\ Finish({t})
    /\ UNCHANGED <<accounts, aged, stored, records, dns, suspect, faults>>

\* upsert reads outside its write transaction ...
UpsertSelect(t) ==
    LET h == host[t]
    IN  /\ pc[t] = "select"
        /\ eff' = [eff EXCEPT ![t] = Effective(records[h], want[t])]
        /\ changed' = [changed EXCEPT ![t] = IsChange(h, want[t])]
        /\ pc' = [pc EXCEPT ![t] = "insert"]
        /\ UNCHANGED <<tableVars, dns, holder, host, want, todo, found, suspect, crossed, refused, faults>>

\* Mutant: the lock is left before the log entry is written.
UpsertInsert_Unlocks(t) ==
    /\ pc[t] = "insert"
    /\ records' = [records EXCEPT ![host[t]] = eff[t]]
    /\ stored' = stored \cup {host[t]}
    /\ pc' = [pc EXCEPT ![t] = "log"]
    /\ Release(t)
    /\ UNCHANGED <<accounts, aged, lastEvent, dns, threadVars, suspect, crossed, refused, faults>>

\* ... and then inserts or overwrites the whole row.
UpsertInsert(t) ==
    /\ pc[t] = "insert"
    /\ records' = [records EXCEPT ![host[t]] = eff[t]]
    /\ stored' = stored \cup {host[t]}
    /\ pc' = [pc EXCEPT ![t] = "log"]
    /\ UNCHANGED <<accounts, aged, lastEvent, dns, holder, threadVars, suspect, crossed, refused, faults>>

\* The last statement under the lock; then the answer: good or nochg.
LogUpdate(t) ==
    /\ pc[t] = "log"
    /\ LogEvent(host[t], IF changed[t] THEN "updated" ELSE "unchanged", eff[t])
    /\ Release(t)
    /\ Finish({t})
    /\ UNCHANGED <<accounts, aged, stored, records, dns, suspect, faults>>

-----------------------------------------------------------------------------
(* A delete: delete_magic, delete_managed_hostname or                      *)
(* admin_delete_account, then DdnsService.delete_account.                  *)

\* Mutant: only the A record is deleted.
BeginDelete_OnlyA(t, h) ==
    /\ t \in Deleters /\ pc[t] = "idle"
    /\ host' = [host EXCEPT ![t] = h]
    /\ todo' = [todo EXCEPT ![t] = {"A"}]
    /\ pc' = [pc EXCEPT ![t] = "del_find"]
    /\ UNCHANGED <<tableVars, dns, holder, want, eff, changed, found, suspect, crossed, refused, faults>>

\* The management link needs its account; the admin form names any hostname.
BeginDelete(t, h) ==
    /\ t \in Deleters /\ pc[t] = "idle"
    /\ host' = [host EXCEPT ![t] = h]
    /\ todo' = [todo EXCEPT ![t] = IF Backend = "cloudflare" THEN Families ELSE {}]
    /\ pc' = [pc EXCEPT ![t] = IF Backend = "cloudflare" THEN "del_find"
                               ELSE IF Backend = "rfc2136" THEN "del_send" ELSE "del_store"]
    /\ UNCHANGED <<tableVars, dns, holder, want, eff, changed, found, suspect, crossed, refused, faults>>

\* delete_cloudflare_records, the GET of one family; no record, no DELETE.
DeleteFind(t) ==
    LET f == Current(t)
    IN  /\ pc[t] = "del_find"
        /\ IF dns[host[t]][f] = None
           THEN /\ todo' = [todo EXCEPT ![t] = @ \ {f}]
                /\ pc' = [pc EXCEPT ![t] = IF todo[t] = {f} THEN "del_store" ELSE "del_find"]
                /\ UNCHANGED found
           ELSE /\ found' = [found EXCEPT ![t] = "present"]
                /\ pc' = [pc EXCEPT ![t] = "del_write"]
                /\ UNCHANGED todo
        /\ UNCHANGED <<tableVars, dns, holder, host, want, eff, changed, suspect, crossed, refused, faults>>

\* The DELETE of one family.
DeleteWrite(t) ==
    LET h == host[t]
        f == Current(t)
    IN  /\ pc[t] = "del_write" /\ found[t] = "present"
        /\ dns' = [dns EXCEPT ![h][f] = None]
        /\ ForgetId(t, h, f)
        /\ todo' = [todo EXCEPT ![t] = @ \ {f}]
        /\ pc' = [pc EXCEPT ![t] = IF todo[t] = {f} THEN "del_store" ELSE "del_find"]
        /\ Suspect(h, {f})
        /\ UNCHANGED <<tableVars, holder, host, want, eff, changed, crossed, refused, faults>>

\* Somebody else removed the record after the GET: 404.
DeleteStale(t) ==
    /\ pc[t] = "del_write" /\ found[t] = "stale"
    /\ pc' = [pc EXCEPT ![t] = "del_failed"]
    /\ UNCHANGED <<tableVars, dns, holder, threadVars, suspect, crossed, refused, faults>>

\* Mutant: the message removes the A record only.
DeleteSend_OnlyA(t) ==
    /\ pc[t] = "del_send"
    /\ dns' = [dns EXCEPT ![host[t]]["A"] = None]
    /\ pc' = [pc EXCEPT ![t] = "del_store"]
    /\ Suspect(host[t], Families)
    /\ UNCHANGED <<tableVars, holder, threadVars, crossed, refused, faults>>

\* delete_rfc2136_records: one message removes both families.
DeleteSend(t) ==
    /\ pc[t] = "del_send"
    /\ dns' = [dns EXCEPT ![host[t]] = Blank]
    /\ pc' = [pc EXCEPT ![t] = "del_store"]
    /\ Suspect(host[t], Families)
    /\ UNCHANGED <<tableVars, holder, threadVars, crossed, refused, faults>>

\* The server refuses the message: the response code is not looked at.
DeleteRefused(t) ==
    /\ pc[t] = "del_send" /\ Fault
    /\ refused' = refused \cup {t}
    /\ pc' = [pc EXCEPT ![t] = "del_store"]
    /\ UNCHANGED <<tableVars, dns, holder, threadVars, suspect, crossed>>

\* A backend call raises, its effect done or not.
DeleteFault(t) ==
    LET h == host[t]
        f == Current(t)
    IN  /\ pc[t] \in {"del_find", "del_write", "del_send"} /\ Fault
        /\ \/ UNCHANGED <<dns, found, suspect>>
           \/ /\ pc[t] = "del_write" /\ found[t] = "present"
              /\ dns' = [dns EXCEPT ![h][f] = None]
              /\ ForgetId(t, h, f)
              /\ Suspect(h, {f})
           \/ /\ pc[t] = "del_send"
              /\ dns' = [dns EXCEPT ![h] = Blank]
              /\ Suspect(h, Families)
              /\ UNCHANGED found
        /\ pc' = [pc EXCEPT ![t] = "del_failed"]
        /\ UNCHANGED <<tableVars, holder, host, want, eff, changed, todo, crossed, refused>>

\* The except clause of delete_account: the rows stay.
LogDeleteFailure(t) ==
    /\ pc[t] = "del_failed"
    /\ LogEvent(host[t], "dns_delete_failed", Blank)
    /\ Finish({t})
    /\ UNCHANGED <<accounts, aged, stored, records, dns, holder, suspect, faults>>

\* DdnsStore.delete_account: both rows in one transaction.
DeleteStore(t) ==
    LET h == host[t]
    IN  /\ pc[t] = "del_store"
        /\ accounts' = accounts \ {h}
        /\ aged' = aged \ {h}
        /\ stored' = stored \ {h}
        /\ records' = [records EXCEPT ![h] = Blank]
        /\ Suspect(h, Families)
        /\ Finish({t})
        /\ UNCHANGED <<lastEvent, dns, holder, faults>>

-----------------------------------------------------------------------------
(* Failures.                                                               *)

\* Mutant: an exception under the lock does not release it.
StoreRaises_KeepsLock(t) ==
    /\ pc[t] \in StorePcs /\ Fault
    /\ Suspect(host[t], Touched(t))
    /\ Finish({t})
    /\ UNCHANGED <<tableVars, dns, holder>>

\* SQLite raises (database is locked, disk full): the transaction rolls back
\* and the exception leaves the lock.
StoreRaises(t) ==
    /\ pc[t] \in StorePcs /\ Fault
    /\ Suspect(host[t], Touched(t))
    /\ Release(t)
    /\ Finish({t})
    /\ UNCHANGED <<tableVars, dns>>

\* The process dies: threads and locks are gone, the tables and the published
\* records stay.  make_app runs the cleanup before it serves again.
Crash ==
    /\ Fault
    /\ suspect' = [h \in Hosts |->
                      suspect[h] \cup UNION {Touched(t) : t \in {u \in Threads : host[u] = h}}]
    /\ holder' = [h \in Hosts |-> Free]
    /\ Finish(Threads)
    /\ accounts' = accounts \ Unused
    /\ aged' = aged \ Unused
    /\ UNCHANGED <<stored, records, lastEvent, dns>>

-----------------------------------------------------------------------------
\* The statements of a request, once its handler runs.
UpdateStep(t) ==
    \/ PreviewUpdate(t)
    \/ PublishFind(t) \/ PublishWrite(t) \/ PublishStale(t) \/ PublishSend(t)
    \/ LogPublishFailure(t)
    \/ UpsertSelect(t) \/ UpsertInsert(t) \/ LogUpdate(t)

DeleteStep(t) ==
    \/ DeleteFind(t) \/ DeleteWrite(t) \/ DeleteStale(t) \/ DeleteSend(t)
    \/ LogDeleteFailure(t)
    \/ DeleteStore(t)

Failure(t) == PublishFault(t) \/ DeleteRefused(t) \/ DeleteFault(t) \/ StoreRaises(t)

Arrival(t) ==
    \E h \in Hosts : BeginDelete(t, h) \/ \E req \in Requests : LookupForUpdate(t, h, req)

Environment ==
    \/ \E h \in Hosts : CreateAccount(h) \/ GrowOld(h)
    \/ Cleanup
    \/ Crash

Next ==
    \/ Environment
    \/ \E t \in Threads :
          Arrival(t) \/ AcquireLock(t) \/ UpdateStep(t) \/ DeleteStep(t) \/ Failure(t)

Spec == Init /\ [][Next]_vars

\* A thread that is not waiting for a lock keeps running: every SQLite call
\* and every DNS call has a timeout.  A threading.Lock promises its waiters
\* nothing, so AcquireLock has no fairness.
FairSpec == Spec /\ \A t \in Threads : WF_vars(UpdateStep(t) \/ DeleteStep(t))

-----------------------------------------------------------------------------
(* Properties.                                                             *)

\* The records table and the DNS say the same of a hostname nobody is
\* updating, except in the families that a failed call or a delete has
\* touched since their last acknowledged publish: publish, then upsert, both
\* under the lock, keep the two copies together.
StoreAndDnsAgree ==
    Backend # "none" =>
        \A h \in Hosts : holder[h] = Free =>
            \A f \in Families \ suspect[h] : dns[h][f] = records[h][f]

\* When apply_update is about to answer good or nochg, the DNS serves every
\* address the request named, with the same exception: comparing with the
\* records table (nochg) is as good as comparing with the DNS.
AnswerIsPublished ==
    Backend # "none" =>
        \A t \in Threads : pc[t] = "log" =>
            \A f \in Updated(want[t]) \ suspect[host[t]] : dns[host[t]][f] = want[t][f]

\* The POST of _cloudflare_upsert_record never creates a second record of a
\* family: what the GET found absent is still absent.
AbsentIsAbsent(t) ==
    pc[t] = "write" /\ found[t] = "absent" => dns[host[t]][Current(t)] = None

OneRecordPerFamily == \A t \in Threads : AbsentIsAbsent(t)

\* Without failures, the newest update event of a hostname that says updated
\* or unchanged carries the addresses of its row: update and log are one
\* critical section, so two updates cannot log in the other order.
AuditCurrent ==
    faults = 0 =>
        \A h \in stored :
            holder[h] = Free /\ lastEvent[h].status \in {"updated", "unchanged"}
                => lastEvent[h].row = records[h]

\* upsert computes the row a second time; it stores what preview_update
\* computed and publish_dns published, unless the row was deleted in between.
StoredIsPublished ==
    [][\A t \in Threads :
          pc[t] = "select" /\ pc'[t] = "insert" /\ host[t] \in stored => eff'[t] = eff[t]]_vars

\* A delete removes the rows of a hostname with nothing of it left in the DNS
\* but what an update published while the delete ran, whatever failed before
\* or around it.  Only a delete that an RFC 2136 server has itself refused,
\* which goes on all the same, may leave more.
DeleteLeavesOnlyCrossed ==
    [][Backend # "none" =>
          \A t \in Threads \ refused : DeleteStore(t) =>
              \A f \in Families \ crossed[t] : dns[host[t]][f] = None]_vars

\* When the rows of a hostname are deleted its records are gone from the DNS:
\* delete_account asks the backend first and keeps the rows if that raises.
DeleteLeavesNoRecords ==
    [][\A t \in Threads : DeleteStore(t) => dns[host[t]] = Blank]_vars

\* Every lock that is taken is released, whichever call under it raises: no
\* hostname is locked out of updates.
LockIsReleased == \A h \in Hosts : holder[h] # Free ~> holder[h] = Free

\* How many calls an update has before it at most: two of the backend for each
\* family, and those of the store from the preview to the log entry.
Family(t, f) == IF f \in todo[t] THEN 2 ELSE 0
Publishing(t) == Family(t, "A") + Family(t, "AAAA")

CallsLeft(t) ==
    IF pc[t] = "preview" THEN 8
    ELSE IF pc[t] = "find" THEN Publishing(t) + 3
    ELSE IF pc[t] = "write" THEN Publishing(t) + 2
    ELSE IF pc[t] = "send" THEN 4
    ELSE IF pc[t] = "select" THEN 3
    ELSE IF pc[t] = "insert" THEN 2
    ELSE IF pc[t] \in {"log", "dns_failed"} THEN 1
    ELSE 0

\* A lock is held for eight calls at most, whatever they meet and whatever else
\* goes on: each call of its holder leaves fewer to make, a failed one too, and
\* no other thread, delete or cleanup sends the holder back.
LockHolderAdvances ==
    [][\A t \in Threads : pc[t] \in UpdatePcs =>
          /\ CallsLeft(t)' <= CallsLeft(t)
          /\ UpdateStep(t) \/ Failure(t) => CallsLeft(t)' < CallsLeft(t)]_vars

\* Where nothing fails and nobody deletes, the records table and the DNS are
\* equal whenever nobody is updating: no family is ever suspect.
CopiesEqual == \A h \in Hosts : holder[h] = Free => dns[h] = records[h]

\* The stricter reading of an answer: good or nochg means that the DNS serves
\* the address now.
AnsweredAddressIsPublished ==
    \A t \in Threads : pc[t] = "log" =>
        \A f \in Families : want[t][f] \in Addr => dns[host[t]][f] = want[t][f]

-----------------------------------------------------------------------------
(* The promise this service keeps about its hostnames.                     *)

Busy     == [h \in Hosts |-> holder[h] # Free]
InFlight == [h \in Hosts |-> IF holder[h] = Free THEN NoRequest ELSE want[holder[h]]]
Trouble  == [h \in Hosts |-> faults > 0 \/ \E t \in Threads : host[t] = h /\ pc[t] \in DeletePcs]

Promise == INSTANCE HostPromise
    WITH row <- records, served <- dns, doubtful <- suspect,
         busy <- Busy, asked <- InFlight, trouble <- Trouble

\* Through its threads, locks, transactions and backend calls the service does
\* to each hostname what HostPromise allows: updates take turns, publish only
\* what they were asked for, store what they published and answer when both
\* agree; only failures and deletes disturb a family.
KeepsPromise == Promise!Spec

-----------------------------------------------------------------------------
(* The locks this service takes for granted.                               *)

WaitingFor == [h \in Hosts |-> {t \in Threads : pc[t] = "lock" /\ host[t] = h}]

Lock == INSTANCE HostLock WITH Clients <- Threads, waiting <- WaitingFor

\* The service uses its locks as HostLock allows: an update asks for the lock
\* of one hostname when it has none, and gives that one back, however it ends.
UsesHostLock == Lock!Spec

-----------------------------------------------------------------------------
(* The inductive invariant behind StoreAndDnsAgree.                        *)

\* A hostname's lock is held by the one thread that updates it.
Exclusive ==
    \A t \in Threads :
        /\ pc[t] \in UpdatePcs => holder[host[t]] = t
        /\ \A h \in Hosts : holder[h] = t => host[t] = h /\ pc[t] \in UpdatePcs

BlankWithoutRow == \A h \in Hosts \ stored : records[h] = Blank

\* The locals of an update between its preview and its answer.
LocalsInStep(t) ==
    /\ pc[t] \in PublishPcs =>
          /\ changed[t]
          /\ todo[t] \subseteq Updated(want[t])
          /\ \A f \in Updated(want[t]) : eff[t][f] = want[t][f]
    /\ pc[t] \in {"find", "write"} => todo[t] # {}
    /\ pc[t] = "send" => todo[t] = Updated(want[t])
    /\ pc[t] \in {"select", "insert", "log"} => todo[t] = {}

\* How far t has taken a family that no failed call or delete has touched:
\* published it (dns = want), or not yet (dns = row).
FamilyInStep(t, f) ==
    LET served    == dns[host[t]][f]
        row       == records[host[t]][f]
        named     == f \in Updated(want[t])
        published == served = want[t][f]
    IN  /\ pc[t] \in {"preview", "dns_failed", "log"} => served = row
        /\ pc[t] \in PublishPcs =>
              IF named /\ f \notin todo[t] THEN published ELSE served = row
        /\ pc[t] \in {"select", "insert", "log"} /\ named => published
        /\ pc[t] \in {"select", "insert"} /\ ~(named /\ changed[t]) => served = row
        /\ pc[t] = "insert" => served = eff[t][f]

HolderInStep(t) ==
    pc[t] \in UpdatePcs => \A f \in Families \ suspect[host[t]] : FamilyInStep(t, f)

\* Every step of an update, crash, delete or failure keeps the copies of a
\* hostname in the relation that the step of its lock holder allows.
Coherent ==
    /\ Exclusive
    /\ BlankWithoutRow
    /\ \A t \in Threads : LocalsInStep(t)
    /\ OneRecordPerFamily
    /\ Backend # "none" => StoreAndDnsAgree /\ \A t \in Threads : HolderInStep(t)

-----------------------------------------------------------------------------
(* The inductive invariant behind KeepsPromise, AuditCurrent,              *)
(* StoredIsPublished and DeleteLeavesOnlyCrossed.                          *)

\* An update is on its way to fail because of a failure or of a delete.
Excused(t) ==
    /\ pc[t] = "write" /\ found[t] = "stale" => Current(t) \in suspect[host[t]]
    /\ pc[t] = "dns_failed" => faults > 0 \/ suspect[host[t]] # {}

\* What it publishes is what the row, if it still has one, makes of its request.
Planned(t) ==
    pc[t] \in PublishPcs \cup {"select"} /\ host[t] \in stored =>
        eff[t] = Effective(records[host[t]], want[t])

\* The newest event is that of the row, or will be when the update has logged.
Logged(h) ==
    h \in stored =>
        IF \E t \in Threads : holder[h] = t /\ pc[t] = "log"
        THEN records[h] = eff[holder[h]]
        ELSE lastEvent[h].status \in {"updated", "unchanged"} => lastEvent[h].row = records[h]

\* How far a delete has got: families neither to do nor crossed are gone.
Removed(t) ==
    /\ pc[t] \in {"del_find", "del_write"} => todo[t] # {}
    /\ pc[t] = "del_send" => Backend = "rfc2136"
    /\ pc[t] \in {"del_send", "del_store"} => todo[t] = {}
    /\ Backend # "none" /\ t \notin refused /\ pc[t] \in {"del_find", "del_write", "del_store"} =>
          \A f \in Families \ (todo[t] \cup crossed[t]) : dns[host[t]][f] = None

Traceable ==
    /\ \A t \in Threads : Excused(t) /\ Planned(t) /\ Removed(t)
    /\ faults = 0 => \A h \in Hosts : Logged(h)
=============================================================================
