# A verification project for router-dyndns (KarlDNS)

TLA+ models, TLC runs and TLAPS proofs for `src/router_dyndns`, a FastAPI
service that gives routers a dynamic DNS hostname, keeps its A and AAAA records
published through Cloudflare or RFC 2136, and lets the owners of a domain put
hostnames under it after a DNS TXT check. State is one SQLite file; requests run
on the threads of the server's pool; a background task cleans up.

## 1. Inventory

| Component | Source | State | Operations | What makes it correct |
| --- | --- | --- | --- | --- |
| Hostname service | `ddns_service.py` `apply_update`, `delete_account`, with the handlers of `ddns.py` and `ddns_api.py` | a lock per hostname (`_locks`), the locals of each request | update, delete | published and stored addresses stay together; `good`/`nochg` are true; a delete leaves nothing behind; no lock is lost |
| Store | `ddns_store.py` | tables `accounts`, `records`, `update_events`, `domain_challenges`, `rate_limits`, `cleanup_runs` | one short transaction per method | each method is atomic; where it reads before its first write, nothing in between can mislead it |
| DNS backends | `ddns_dns.py` | none of its own; the zone at Cloudflare or at an RFC 2136 server | publish, delete | one record per family; failures are reported |
| Domain claims | `ddns_service.py` `create_domain_challenge`, `verify_domain`, `create_custom_account`, `best_verified_parent` | `domain_challenges`, custom rows of `accounts`; external: TXT records | claim, verify, create a custom hostname | a custom hostname needs a proved domain; a verified claim stays with its owner |
| Rate limiter | `ddns_store.py` `allow_rate_limit`, `security_middleware` in `ddns.py` | `rate_limits` | count a request | at most the limit per key and minute; nobody refused early |
| Cleanup job | `ddns_store.py` `cleanup`, `_cleanup_loop`, startup and `/admin/cleanup` in `ddns.py` | all tables | delete abandoned claims, unused accounts, old windows | deletes nothing that is in use; keeps running |
| Credentials | `ddns_store.py` `create_account`, `rotate_*`, `verify_account` | slug, management hash and password hash in `accounts` | create, show, look up, rotate, delete | every secret in force was shown to somebody, or lost with its one answer; a request acts on the account its secret found |
| Server process | `ddns.py` `lifespan`, `_cleanup_loop`, the handlers as coroutines or pool jobs; `_lock_for` | event loop, pool tokens and their queue, the dictionary of locks | accept, dispatch, resume, block, wake, stop, crash | one lock per hostname; nobody waits for ever but behind a lock; cleanup and shutdown get their turn |
| HTTP policy | `ddns_security.py`, `security_middleware` and `RequestBodyLimitMiddleware` in `ddns.py` | bytes received | classify a path, find the client, count, cut off | no client gets past a limit by its slugs or headers; no body past its limit |
| Settings and start | `ddns_models.py`, `make_app`, `_init_db`, `cli.py`, the choice of backend in `ddns_dns.py` | settings, columns of `accounts` | read the environment, check, migrate | what the checks accept is enough for what runs later, but for a provider's own credentials; no account lacks a column it is looked up by; no secret is replaced |
| HTML, assets, API schemas | `ddns.py` from line 624, `ddns_api.py` to line 75 | none | render | not modelled: nothing changes state |

How they interact: a request passes the middleware (rate limiter), then a
handler looks up its account or claim, then the service calls the store and, for
an update that changes something or a delete, the DNS backend. Nothing ties the
store and the backend together but the order of the calls and, for updates, the
lock. The cleanup runs beside everything from the event loop's task, the admin
page or the start of the process, and takes no lock.

Hard behaviours: two updates of one hostname; a delete or a cleanup in the
middle of an update; a backend call that fails, half succeeds, or succeeds
without an answer; a stop of the process between two stores of the same fact;
reads that `sqlite3` performs outside the transaction of the write that depends
on them; a claim that changes while its TXT record is being looked up; clocks
and windows. `PROJECT.json` lists each at the line where it bites.

## 2. Modules

| Module | Models |
| --- | --- |
| `HostPromise` | abstract: what the service promises of a hostname, without threads, locks, transactions and backend calls |
| `DdnsService` | updates, deletes, accounts, locks, DNS backends, failures, crashes; implements `HostPromise` |
| `DdnsServiceProofs` | types, agreement of the copies, truth of answers, no duplicate records |
| `HostLock` | abstract: the lock of a hostname, which one client at a time has |
| `HostPromiseProofs` | the refinement, the audit log, what a delete leaves, how locks are used and how long they are held |
| `Serving`, `ServingProofs` | the server process: event loop, pool, creation of locks, cleanup task, shutdown, crash |
| `RateLimit`, `RateLimitProofs` | the limiter, by key |
| `Gateway`, `GatewayProofs` | the middleware in front of it: paths, peers, headers, bodies; implements `RateLimit` |
| `Launch`, `LaunchProofs` | environment, checks, migration of the database, choice of a backend |
| `DomainClaims`, `DomainClaimsProofs` | claims, verification, custom hostnames |
| `Credentials`, `CredentialsProofs` | the secrets of accounts and their rotation |
| `MC...` | the values of the runs |

Refinements hold the modules together. `DdnsService` implements
`HostPromise` (`KeepsPromise`), the promise a reader of the API would write
down. Its locks are one variable, while the code has a dictionary of locks
behind a guard, used by the threads of a pool. `HostLock` lies between the two:
`Serving` implements it (`KeepsHostLock`), and `DdnsService` uses it as it is
meant (`UsesHostLock`). `Gateway` EXTENDS `RateLimit`, adds paths and peers to its keys, and every
one of its steps is a step of the limiter or leaves it alone
(`LimiterAsDescribed`), so what is proved of keys holds of clients.

### DdnsService

Variables and code: `accounts`, `stored`/`records` and `lastEvent` are the
tables (`stored` says which hostnames have a row in `records`; of the audit log
only the newest event of a hostname is kept); `dns` is the published zone;
`holder` is `_locks`. `pc`, `host`, `want`, `eff`, `changed`, `todo` and `found`
are the locals of the request a thread serves: the next step, the hostname, the
parsed addresses (`Omitted` where `update_ipv4`/`update_ipv6` is false, `None`
where a value did not parse or was withdrawn), the `UpdateResult`, the families
still to be sent, and what the last Cloudflare GET returned. `aged` are accounts
behind the cleanup's cutoff. `suspect`, `crossed`, `refused` and `faults` are history
variables.

One action per transaction or backend call, in the order of the code:
`LookupForUpdate`, `AcquireLock`, `PreviewUpdate`, then `PublishFind` and
`PublishWrite` for each family (Cloudflare) or `PublishSend` (RFC 2136), then
`UpsertSelect`, `UpsertInsert` (the SELECT of `upsert` precedes its
transaction) and `LogUpdate`, which also leaves the lock and answers. Deletes:
`BeginDelete`, `DeleteFind`/`DeleteWrite` or `DeleteSend`, `DeleteStore`.
Failures: `PublishFault` and `DeleteFault` (refused, unreachable, or applied
with the answer lost), `PublishStale`/`DeleteStale` (404 for an id that another
request deleted), `DeleteRefused` (the response code `delete_rfc2136_records`
does not read), `StoreRaises` (SQLite raises, including inside the `except`
clauses), `Crash` (stop and restart, with the cleanup `make_app` runs first).
`LogPublishFailure` and `LogDeleteFailure` are the `except` clauses.

Abstractions: a managed hostname is new by its 48 random bits, so the retry loop
of `create_managed_account` is not modelled; `disabled` is never set by any
code; a backend call takes effect, if at all, before it returns or raises (an
update that reaches the server after the client's timeout is not modelled); the
service runs as one process, as `src/README.md:270` requires. A POST that finds
an existing record is not modelled as a duplicate: `OneRecordPerFamily` shows
it does not happen.

Suspect families. The code does not undo a publish whose later step fails, nor
lock a delete, so "table and DNS agree" is false as it stands: the runs
`lost_answer` and `delete_during_update` show how. `suspect[h]`
collects the families of `h` that a failed or interrupted publish or a delete
has touched, and loses a family with its next acknowledged publish. The
properties say exactly this much: with no such event, the copies agree.
`crossed[t]` collects, for a delete in thread `t`, the families an update has
published, or may have, since the delete began: `DeleteLeavesOnlyCrossed` says
that nothing else can be left in the DNS when the rows go, whatever has failed
before. It excepts the threads in `refused`, and only until their delete is
over: `delete_rfc2136_records` ignores the response code, so a delete that the
server refuses goes on and reports success, although `ddns.py:357` answers a
failed one "DNS delete failed; hostname was not deleted".
`CopiesEqual` closes the question whether `suspect` excuses more than it should:
with no failure and no delete the copies are equal, with no exception. It is
proved (`QuietCopiesEqual`), without a run of its own.

`CallsLeft(t)` counts the calls an update has before it under its lock: two for
each family that Cloudflare is to be sent, then the upsert's two statements and
the log entry. `LockHolderAdvances` says that it only ever goes down, so that a
404 for a stale id, an exception or the steps of others cannot make the loop
over the families start again.

One more race is in the model without a run of its own: the cleanup removes an
old account without a row while its first update is in flight; the update then
stores and publishes for a hostname that has no account.

### HostPromise

Per hostname: a row, what the DNS serves, the doubtful families, whether an
update is busy and what it asks for. An update begins, publishes families it
names with the addresses it asks for, stores what is served, and answers when
row and DNS agree; only a failure or a delete (`trouble`) may disturb a family
or make an update give up, and what is disturbed is doubtful until it is next
published. `DdnsService` maps its tables, `suspect`, the lock holder's request
and its failures and deletes to this.

### RateLimit

`rows` is the table (count 0: no row). `ReadClock` is `int(time.time())`, in the
middleware's thread; `Allow` and `Refuse` are the transaction, whose DELETE
takes SQLite's write lock before its SELECT, so the three statements are one
step. `Cleanup` and `Restart` run the DELETE of `cleanup` as it is written:
seconds compared with minutes. `passed` (what was let through) and `cleanups`
are history. `MaxLag` bounds how many windows late a request is counted: the
only wait between clock and transaction is `busy_timeout`, 5 seconds, so 1 would
do; 2 is where the property stops holding, because `allow_rate_limit` keeps two
windows back (with 3, TLC finds a key served above its limit).

### Gateway

`Arrive` is `security_middleware` up to `allow_rate_limit`: the path decides
whether a request is counted, its key (`RateLimitBucket`, `ClientIp`) and its
limit; `Admit` and `TurnAway` are the answer of the limiter. `Receive` is
`limited_receive`, `Finish` every end of a request, too long a body included.
`served` (requests that reached a route that reads or changes what the store
keeps, by peer, route and window) is history. A path is its route and slug;
proxies in `DDNS_TRUSTED_PROXY_IPS` always send `X-Forwarded-For`, as
`src/README.md:266` requires of them, and clients may.

### Serving

`at` says where each job is: waiting for a token of the pool, in a thread, done
and waiting for the event loop, at the guard or the lock of `_lock_for` and
`apply_update`, blocking the loop (the admin's delete and rotation are coroutines
without an await). `Plan` lists the pool jobs of a kind of request. A thread
that waits for a lock keeps its token, as it does in the code. `locks` holds the
identity of each hostname's lock, `mine` the one a request was given:
`MutualExclusion` is about hostnames, not about lock objects, so it fails if two
requests can be given different locks. The cleanup task sleeps, asks for a
token, runs, and on an exception ends (`Resleep`). `Stop` and `Close` are
uvicorn's shutdown and `lifespan`'s: running requests end first, then the task
is cancelled wherever it is. `WaitsEnd` is the absence of deadlock said of the
parts of the process, not of all of it: TLC's deadlock check would not notice
threads that wait for each other while a crash is still possible. The cleanup
button of the admin page is not in this module (it would run a cleanup, but not
revive the task).

### Launch

One action per statement that commits: `CreateTables`, the two ALTERs of
`_ensure_column`, the UPDATEs of old rows together, then the cleanup. `Init` is
the file of any version of the code, or one that an unfinished start has left.
`Environments` keeps the settings that a check or a choice of backend reads, and
of passwords their length. `Down` may come between any two steps, and the next
start may have another environment; while there is no process, `NoSettings`
stands for its settings.

The management slug that `Backfill` hashes is thrown away (`ddns_store.py:485`):
the column has a value, but nobody knows what matches it, and the page of such
an account cannot be opened until the admin has rotated its link.
`AccountsComplete` is therefore about columns: no account of a server lacks a
value in one that requests are looked up by.

What the checks accept is weaker than it sounds. "cloudflare" without a token or
a zone id passes for a backend, and every publish and delete then raises
(`ddns_dns.py:92`); "rfc2136" without a server passes, and `publish_rfc2136` then
returns without sending anything. `Incomplete` names the two cases, and
`ServesAsConfigured` excepts them: in every other one, what is accepted as a
backend is one that `publish_dns` sends to.

### DomainClaims

`claim` is the table of claims. Token and claim secret are generated together
and are one fresh number, `issued` counts them. `txt` is the owner's zone,
which may hold tokens of several claims. A name is its sequence of labels, so
`Candidates` and `InZone` are the code's string operations on whole labels.
`ClaimRead`, `ClaimCheck` and `ClaimUpsert` are the three statements of
`create_domain_challenge` (two of them outside the transaction); `BeginVerify`,
`Resolve`, `MarkRead` and `Mark` those of `verify_domain`. `CheckParent` is one
turn of the loop of `best_verified_parent`. `proven` (tokens that a lookup
found), `overtaken` (threads whose claim request had passed its checks when a
verification of the same domain came) and `midway` (claims issued while a
verification of their domain was under way) are history.

Two races are in the model without a run of their own. A claim that has passed
both its checks overwrites a row verified meanwhile (the exception in
`VerifiedIsKept`). A row cleaned up between the SELECT and the UPDATE of
`verify_domain_challenge` is answered "verified" although it is gone: nothing in
the tables is wrong, but the client has been told so and gets a 403 later.

Two properties bound what the run `claim_swapped` shows. The claim that is
marked may be a later one than the claim looked up, never an earlier one
(`NoEarlierClaimVerified`); and a later one only if it was issued while the
verification was under way (`VerifiedInItsTime`), so that a claim does not
inherit what was proved for the one it replaces.

### Credentials

A secret is a kind (update slug, password, management slug) and a number; an
account's three are generated at once and share one, a rotation takes a fresh
one. A handler's lookup by secret (`Lookup`) fixes the hostname it then works
on. `Insert` is the INSERT of `create_account` with what its callers make of an
`IntegrityError`: five draws for a managed hostname, one for a custom one. The
update behind the lookup is one step, `ApplyUpdate`; `DdnsService` has the rest.
The admin's delete and rotation are coroutines that make their blocking calls
without an await, so the event loop (`Loop`) runs one at a time, but pool
threads interleave with their statements: `RotateLookup`, `RotateWrite` and
`RotateReread` are three transactions. Passwords and management slugs are stored
as hashes, so what `RotateReread` shows is what was generated, except for the
update slug, which it reads back (`Notice`).

`shown` and `lost` (what reached somebody, what was lost with an answer),
`found` (the account a lookup found) and `overtaken` (threads whose hostname was
deleted since) are history. Two races are in the model without a run of their
own, both with a custom hostname that is deleted and created again: within a
rotation, the notice shows a password that is not the new account's; between a
lookup and a delete by hostname, the delete hits the new account (the exception
in `ActsOnItsAccount`).

## 3. Runs

Passing runs. Deadlock is checked in all of them but `gateway`, whose bound on
requests ends every behaviour.

| Run | Instance | Shows |
| --- | --- | --- |
| `cloudflare` | 1 hostname, 2 updaters, 1 deleter, 2 addresses, 4 requests, 1 failure | the copies, the answers and the log stay together through every interleaving; a delete leaves only what crossed it; `HostPromise` is kept; locks are used as `HostLock` says and held for a bounded number of calls |
| `rfc2136` | the same hostname and threads, 3 requests, one message per update, `FairSpec` | the same without partial publishes; a held lock is released |
| `gateway` | 2 threads, a client and a proxy, 2 slugs, 3 routes with limits 2 and 1, 4 requests, 4 windows, 1 cleanup | limit per cleanup by key and by client, no early refusal, bodies within their limit |
| `claims` | 2 threads, a domain and a subdomain, 2 hostnames, 2 claims | custom hostnames lie under proved domains; a verification marks no claim older than it looked up and none issued after it; a verified claim is lost only to a claim request that was past its checks |
| `credentials` | 2 threads and the admin, 1 hostname, secrets generated 3 times | every secret in force was shown, is about to be, or was lost with its answer; requests stay with the account they found; an account in use is only deleted |
| `serving` | 2 requests (`/nic/update`, admin delete), 1 hostname, 2 threads in the pool, `FairSpec` | one lock per hostname, as `HostLock` says; no circle of waits; requests move on; cleanup and shutdown get their turn |
| `launch` | all environments, 2 hostnames, every earlier database, secrets generated twice after it | no account of a server lacks a column; the backend and the password are as configured, but for `Incomplete`; no start replaces a secret |

Bounds and why they are enough. Two updaters and a deleter make every pair of
operations overlap; a third updater would only wait for the same lock. Two
addresses tell old from new. The requests name both families, one of them,
neither, and one with an unparsable address. One failure (`MaxFaults`) is
enough for each way the copies part, and the theorems allow any number. One
hostname suffices where all state is per hostname (locks, rows, records,
secrets), and the theorems, which have none of these bounds, cover several. In
`serving` two requests fill the pool, so that the cleanup and the next job of a
request have to wait for a token behind a lock; one hostname makes both race
for its lock. In `gateway` four requests are two more than the larger limit, and
four windows one more than a late request can span. In `launch` two hostnames
are a row that lacks a secret and one that does not. Symmetry is used over
updaters, threads or hostnames only, and in no run with a liveness property.

Runs that end in a violation state what a document, a message or a test of the
repository says, and show that the code differs:

| Run | What happens | What is said |
| --- | --- | --- |
| `delete_during_update` | delete takes no lock; an update publishes between its DNS call and its row deletion; the record outlives the hostname | "Delete a hostname and its DNS records." (`src/README.md:234`) |
| `lost_answer` | a publish is applied, but its answer lost or the process stopped before the row is written; the next update with the stored address is `nochg` | "keeps public A/AAAA records updated" (`src/README.md:5`) |
| `rate_limit_cleanup` | minutes are compared with seconds; every cleanup resets the current window | `DDNS_RATE_LIMIT_PER_MINUTE` (`src/README.md:276`) |
| `cleanup_stops` | an exception of `store.cleanup` ends the task of `_cleanup_loop`; no cleanup until the next start | "Run the in-app cleanup scheduler at this interval." (`src/README.md:282`) |
| `claim_swapped` | the UPDATE by domain verifies a claim whose token nobody looked up | "Create router credentials after the TXT record verifies." (`src/README.md:222`) |

`AnsweredAddressIsPublished`, the property of `lost_answer`, fails in a second
way: a Cloudflare delete removes one record, fails on the other and keeps the
row, and the next update with the stored address is `nochg`.

Each is a window of a few statements or needs a failure at one of them; a wide
one is `claim_swapped`, which stays open for the TXT lookup (5 seconds), and
`rate_limit_cleanup` needs no race at all. `rate_limit_cleanup` runs `RateLimit`
by itself; `WithinLimitPerCleanup`, the weaker property that holds, is checked
in `gateway`.

## 4. Fairness

In `DdnsService`, `FairSpec` makes each thread keep executing the statements of its request
(weak fairness of `UpdateStep \/ DeleteStep`). Every call between them returns:
`busy_timeout` is 5 s, `dns.query.tcp` has `timeout=5`, `urlopen` `timeout=10`.
`AcquireLock` is not fair: `threading.Lock` makes no promise to its waiters, so
no property says that a waiting update is served. Nor is anything assumed of
arrivals, time, the cleanup, or the absence of failures.

In `Serving`, the event loop runs its ready callbacks first come, first served,
and so does anyio's limiter with those who wait for a token. A job that is ready
may still see the loop blocked again and again by admin requests, so its step is
not continuously enabled: `Dispatch`, `Wake`, `Resleep` and `Resume` have strong
fairness, which is what the queues give. Threads run (weak fairness of
`ThreadStep`, of the cleanup's transaction), again because every call in them
has a timeout. Of those who wait for the guard or for the lock of a hostname
some one gets it (weak fairness of the disjunction), but not any one in
particular: `RequestsMoveOn` ends at the lock, while `ShutdownEnds` shows that
with no new arrivals all waiters get through. A process that is down is started
again. Arrivals, failures, `Stop` and `Crash` are never forced.

## 5. Proofs

`DdnsServiceProofs` proves, for any sets of hostnames, threads, addresses and
requests, any backend and any number of failures, from `ConstantsAssumption`
alone:

- `TypeCorrect`: `TypeOK` is inductive, one step per action.
- `CopiesAgree`, `AnswersArePublished`, `NoDuplicateRecord`: from the inductive
  invariant `Coherent`. `StoreAndDnsAgree` speaks of hostnames nobody updates,
  and says nothing of what an update in progress must preserve; `Coherent` adds
  that a lock is held by exactly the thread between its preview and its log
  (`Exclusive`), that a hostname without a row has a blank one, how `todo` and
  `eff` relate to the request (`LocalsInStep`), and, for each step of the lock
  holder and each family that is not suspect, whether the DNS serves the row's
  address or already the requested one (`FamilyInStep`). `HolderStep` reduces a
  step under the lock to its own thread and hostname, `UnlockedStep` deals with
  every step outside it at once (it may only remove, and marks what it removes
  suspect); the lemmas per action then check their local effect.

`HostPromiseProofs` proves `AuditIsCurrent`, `DeletesLeaveOnlyCrossed`,
`StoresWhatWasPublished` and `PromiseIsKept` from the same assumption. On top of
`Coherent` they need `Traceable`: why an update that is about to fail may
(`Excused`), that what it publishes is what the row makes of its request
(`Planned`), that the newest event is that of the row or will be when the update
in its critical section has logged (`Logged`), and how far a delete has got
(`Removed`). For the refinement, each step of `DdnsService` is shown to be one
of the steps of `HostPromise` for its own hostname and a rest for the others
(`OthersAtRest`); a crash is a step of all hostnames at once.
`PromiseMeansAgreement` shows that the abstract specification says enough: it
alone implies `StoreAndDnsAgree`. `QuietCopiesEqual` assumes a scenario
(`MaxFaults = 0`, no `Deleters`, a backend), not something the code ensures; its
invariant `Quiet` says that no family is suspect, no thread deletes and none is
about to fail. For `LocksAreUsedAsPromised` each step of `DdnsService` asks for,
takes or gives back one lock, or leaves all locks alone. For
`LocksAreHeldBriefly`, `LocalsInStep` says that an update publishes only while a
family is left in `todo`, which is what makes its calls count down.

`ServingProofs` proves `ServingTypeCorrect`, `UpdatesExclude` and
`OneLockPerHost` for any requests, hostnames and pool. The invariant `LockInv`:
who reads or writes the dictionary holds its guard, what the check found missing
is still missing when the new lock is put, who was given a lock has the one in
the dictionary, and a lock has one holder; `Counted` ties the number of locks
made to the hostnames that have one. `NobodyWaitsForWaiters` adds `WaitInv`: the
guard is held by a job that is about to leave it (`GuardOwned`), the event loop
by one that is on it (`LoopOwned`), and who waits for a token is in the queue
(`Queued`). With `LockInv` it follows that a job which waits for a lock waits for
one in its critical section, which is itself in a thread and can go on. For
`LocksAreHostLocks` each hostname's lock is followed through `_lock_for`: a job
asks when it comes to the guard, has the lock when it is in its critical
section, and the lock its job was given is the hostname's, so that `Take` finds
nobody else there.

`GatewayProofs` proves `LimiterAsDescribed`, `GatewayTypeCorrect` and
`ClientsAreLimited`. The first carries `LimitHoldsPerCleanup` over; for the last
`KeyMatches` says that a request is counted under the key of its sender, and
`ServedCounted` that nothing reaches a service route uncounted. That every
service route is counted, and that all slugs of a route share a key with the
limit of the route, are the lemmas `ArrivalCounts` and `OneBucket`.

`LaunchProofs` proves `LaunchTypeCorrect`, `ServersHaveCompleteAccounts`,
`ChecksSuffice` and `StartsKeepSecrets` from an invariant that says what each
step of a start can rely on (`ColumnsAdded`, `RowsFilled`, `Accepted`).

`RateLimitProofs` proves `TypeCorrect`, `LimitHoldsPerCleanup` and
`NeverRefusedEarly` for any keys, limits, threads and clock, from
`LimitAssumption`, `ClockAssumption` and `LagAssumption`. The inductive invariant
`Accounted` relates the table to what was let through: a row that can still be
counted accounts for all of it but one limit per cleanup. It needs the bound on
lateness, since a later thread may expire the row of an earlier window.

`DomainClaimsProofs` proves `TypeCorrect`, `HostsUnderProvenDomains`,
`VerifiedClaimsAreKept`, `VerificationsKeepTurns` and `VerificationsKeepTime` for
any domains, hostnames, zones and threads, from `NamesAssumption` (a hostname
has at least two labels, so the loop of `best_verified_parent` has a name to
try). `HostUnderProvenDomain` looks at
`accounts` only. Its invariant `Grounded` adds the chain that leads there: a
verified row, or a thread about to mark one, stands over a domain with a token
found, and a thread about to insert a hostname is under such a domain. No
conjunct names the claim that was found: `Mark` updates by domain, so another
claim may be the one marked (run `claim_swapped`). For `VerifiedIsKept` the
invariant is `Overtaken`: whoever is about to write over a verified row passed
its checks before the verification. For `NoEarlierClaimVerified` and
`VerifiedInItsTime` it is `InTurn`: numbers are handed out in order, so whoever
verifies holds the number of the claim there is, or an older one, which has then
been replaced before its eyes.

`CredentialsProofs` proves `TypeCorrect`, `NobodyIsLockedOut`,
`RequestsStayWithTheirAccount` and `UsedAccountsStay` for any hostnames and
threads, from `LoopAssumption`. `SecretsAreShown` is not inductive: a worker
that stops waiting must not have been what covered another hostname's secret.
`Covered` therefore says that a secret waits at a worker of its own hostname,
and that only the admin rotates. For `ActsOnItsAccount`, `InStep` adds that the
account found is still there, so that no INSERT can put another in its place.

Only model-checked: liveness (`LockIsReleased`, `RequestsMoveOn`,
`CleanupGoesOn`, `ShutdownEnds`), which is out of the prover's reach, and the
properties of the runs that end in a violation, which are false.

## 6. Not modelled

HTML, assets, response headers and API schemas change nothing. Of the policy,
the trusted-host check, Basic authentication and the admin's form token (valid
for a UTC day, so a page rendered before midnight is refused after it) are
functions of request, settings and clock without state. `render-fritz-url`
formats a text. Secrets are fresh values; guessing them, hashing and timing are
outside the models. Claims of a database from before `claim_hash` have none and
answer to no claim secret: `DomainClaims` starts from rows this version writes.
`cleanup_runs` is written by the cleanup and read by a page. Several server
processes on one database are excluded by `src/README.md:270`. The composition
of all modules into one is out of TLC's reach: the tables they share (`accounts`
in `DdnsService`, `Credentials`, `DomainClaims` and `Launch`) are modelled in
each with what its properties tell apart.
