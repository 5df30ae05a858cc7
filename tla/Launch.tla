-------------------------------- MODULE Launch --------------------------------
(***************************************************************************)
(* From an environment and a database file to a server: DdnsSettings of    *)
(* ddns_models.py, "serve" of cli.py, the checks of make_app, and          *)
(* DdnsStore._init_db, which brings the file of an earlier version up to   *)
(* date.                                                                   *)
(*                                                                         *)
(* The ALTERs of _ensure_column commit one by one; the UPDATEs that give   *)
(* the old rows their secrets are one transaction, committed at its end.   *)
(* The process may die, and be started again with another environment,     *)
(* between any two of these.                                               *)
(***************************************************************************)
EXTENDS Naturals

CONSTANTS
    Hosts,      \* hostnames with an account
    Old,        \* bound: secrets in the file at the beginning
    MaxIssued   \* bound: times that secrets are generated

ASSUME BoundAssumption == Old \in Nat /\ MaxIssued \in Nat

\* DDNS_ADMIN_PASSWORD may be unset, which is not the same as empty.
Lengths   == {"empty", "short", "long"}
Providers == {"", "cloudflare", "rfc2136", "other"}

\* token: there are a Cloudflare token and a zone id; server: there is an
\* RFC 2136 server; trusted: the base URL or DDNS_TRUSTED_HOSTS names a host.
Environments ==
    [require : BOOLEAN, provider : Providers, token : BOOLEAN, server : BOOLEAN,
     suffix : BOOLEAN, trusted : BOOLEAN, admin : Lengths \cup {"unset"}, shared : Lengths]

Settings ==
    [require : BOOLEAN, provider : Providers, token : BOOLEAN, server : BOOLEAN,
     suffix : BOOLEAN, trusted : BOOLEAN, admin : Lengths, shared : Lengths]

\* What stands for the settings while there is no process.
NoSettings ==
    [require |-> FALSE, provider |-> "", token |-> FALSE, server |-> FALSE,
     suffix |-> FALSE, trusted |-> FALSE, admin |-> "empty", shared |-> "empty"]

\* The columns of accounts that earlier versions did not have.
Columns == {"update_slug", "management_hash"}

VARIABLES
    step,      \* where the process is; "down" when there is none
    via,       \* who has called make_app: "cli", or another "program"
    settings,  \* the settings of the process
    new,       \* the file has no tables
    columns,   \* which of Columns the table has
    rows,      \* hostnames with a row in accounts
    secret,    \* per hostname and column: which secret, 0 for NULL or ''
    issued     \* how many times secrets have been generated

database == <<new, columns, rows, secret, issued>>
vars     == <<step, via, settings, database>>

Steps == {"down", "tables", "slug", "hash", "fill", "sweep", "serving"}

TypeOK ==
    /\ step \in Steps
    /\ via \in {"cli", "program"}
    /\ settings \in Settings
    /\ new \in BOOLEAN
    /\ columns \subseteq Columns
    /\ rows \subseteq Hosts
    /\ secret \in [Hosts -> [Columns -> Nat]]
    /\ issued \in Nat
    /\ \A h \in Hosts, c \in Columns : secret[h][c] # 0 => h \in rows /\ c \in columns

\* No file, or the file of any version: without the columns, with them, and
\* with rows that an unfinished start has left without a secret.
Init ==
    /\ step = "down" /\ via = "cli" /\ settings = NoSettings
    /\ new \in BOOLEAN
    /\ columns \in {{}, {"update_slug"}, Columns} /\ rows \in SUBSET Hosts
    /\ new => columns = {} /\ rows = {}
    /\ secret \in [Hosts -> [Columns -> 0..Old]]
    /\ \A h \in Hosts, c \in Columns : secret[h][c] # 0 => h \in rows /\ c \in columns
    /\ issued = Old

-----------------------------------------------------------------------------
(* Settings.                                                               *)

\* DdnsSettings.from_env
FromEnv(e) == [e EXCEPT !.admin = IF @ = "unset" THEN e.shared ELSE @]

\* The first lines of make_app.
Fallback(s) == [s EXCEPT !.admin = IF @ = "empty" THEN s.shared ELSE @]

\* Mutant: any text will do.
DnsBackendConfigured_AnyText(s) == s.provider # "" \/ s.server

DnsBackendConfigured(s) == s.provider \in {"cloudflare", "rfc2136"} \/ s.server

\* validate_launch_ready
LaunchReady(s) == s.require => s.admin = "long" /\ s.suffix /\ s.trusted

\* publish_dns and delete_dns_records: the backend they send to, if any.
Route(s) ==
    CASE s.provider = "cloudflare" -> IF s.token THEN "cloudflare" ELSE "raises"
      [] s.provider # "cloudflare" /\ s.server -> "rfc2136"
      [] s.provider = "rfc2136" /\ ~s.server -> "none"
      [] OTHER -> IF s.require THEN "raises" ELSE "none"

\* A provider is named, but what its functions need is not configured: those
\* of Cloudflare raise, those of RFC 2136 return without sending anything.
Incomplete(s) ==
    (s.provider = "cloudflare" /\ ~s.token) \/ (s.provider = "rfc2136" /\ ~s.server)

\* "serve" of cli.py, or a program that hands its own settings to make_app.
\* A start that is refused leaves everything as it was.
Launch(v, e) ==
    /\ step = "down"
    /\ v = "cli" => FromEnv(e).admin # "empty"
    /\ LET s == Fallback(FromEnv(e)) IN
       /\ s.require => DnsBackendConfigured(s)
       /\ LaunchReady(s)
       /\ settings' = s
    /\ via' = v
    /\ step' = "tables"
    /\ UNCHANGED database

-----------------------------------------------------------------------------
(* _init_db                                                                *)

\* CREATE TABLE IF NOT EXISTS
CreateTables ==
    /\ step = "tables" /\ step' = "slug"
    /\ new' = FALSE
    /\ columns' = IF new THEN Columns ELSE columns
    /\ UNCHANGED <<via, settings, rows, secret, issued>>

\* Mutant: the first of the two columns is forgotten.
AddUpdateSlug_Forgotten ==
    /\ step = "slug" /\ step' = "hash"
    /\ UNCHANGED <<via, settings, database>>

AddUpdateSlug ==
    /\ step = "slug" /\ step' = "hash"
    /\ columns' = columns \cup {"update_slug"}
    /\ UNCHANGED <<via, settings, new, rows, secret, issued>>

\* Mutant: the rows are filled only by the start that adds the last column.
AddManagementHash_FillsOnce ==
    /\ step = "hash"
    /\ step' = IF "management_hash" \in columns THEN "sweep" ELSE "fill"
    /\ columns' = columns \cup {"management_hash"}
    /\ UNCHANGED <<via, settings, new, rows, secret, issued>>

AddManagementHash ==
    /\ step = "hash" /\ step' = "fill"
    /\ columns' = columns \cup {"management_hash"}
    /\ UNCHANGED <<via, settings, new, rows, secret, issued>>

Missing(h, c) == h \in rows /\ secret[h][c] = 0

\* Mutant: a row that lacks one secret gets two.
Backfill_Both ==
    /\ step = "fill" /\ step' = "sweep"
    /\ issued < MaxIssued
    /\ issued' = issued + 1
    /\ secret' = [h \in Hosts |-> [c \in Columns |->
                     IF \E d \in Columns : Missing(h, d) THEN issued + 1 ELSE secret[h][c]]]
    /\ UNCHANGED <<via, settings, new, columns, rows>>

\* The two loops, up to the end of the with block.  Nobody is told the slug
\* whose hash becomes the management_hash: the column has its value, and the
\* page can be opened only once the admin has rotated the link.
Backfill ==
    /\ step = "fill" /\ step' = "sweep"
    /\ issued < MaxIssued
    /\ issued' = issued + 1
    /\ secret' = [h \in Hosts |-> [c \in Columns |->
                     IF Missing(h, c) THEN issued + 1 ELSE secret[h][c]]]
    /\ UNCHANGED <<via, settings, new, columns, rows>>

-----------------------------------------------------------------------------
(* The rest of make_app, and the process.                                  *)

Remove(hs) ==
    /\ rows' = rows \ hs
    /\ secret' = [h \in Hosts |-> IF h \in hs THEN [c \in Columns |-> 0] ELSE secret[h]]
    /\ UNCHANGED <<via, settings, new, columns, issued>>

\* store.cleanup: whichever accounts are old and were never updated.
Sweep ==
    /\ step = "sweep" /\ step' = "serving"
    /\ \E hs \in SUBSET rows : Remove(hs)

NewAccount(h) ==
    /\ step = "serving" /\ h \notin rows
    /\ issued < MaxIssued
    /\ issued' = issued + 1
    /\ rows' = rows \cup {h}
    /\ secret' = [secret EXCEPT ![h] = [c \in Columns |-> issued + 1]]
    /\ UNCHANGED <<step, via, settings, new, columns>>

DeleteAccount(h) ==
    /\ step = "serving" /\ h \in rows
    /\ Remove({h})
    /\ UNCHANGED step

\* The process stops, crashes, or dies of an exception of SQLite.
Down ==
    /\ step # "down" /\ step' = "down"
    /\ via' = "cli" /\ settings' = NoSettings
    /\ UNCHANGED database

Next ==
    \/ \E v \in {"cli", "program"}, e \in Environments : Launch(v, e)
    \/ CreateTables \/ AddUpdateSlug \/ AddManagementHash \/ Backfill
    \/ Sweep
    \/ \E h \in Hosts : NewAccount(h) \/ DeleteAccount(h)
    \/ Down

Spec == Init /\ [][Next]_vars

-----------------------------------------------------------------------------
(* Properties.                                                             *)

\* Whatever version wrote the file and wherever earlier starts have died, no
\* account of a server lacks a column that requests are looked up by.  That is
\* all: the owner of a filled row still has to be told its update URL, and its
\* management page has no slug that anybody knows.
AccountsComplete ==
    step = "serving" => \A h \in rows, c \in Columns : c \in columns /\ secret[h][c] # 0

\* What routers are configured with outlives every start: a start, and the
\* crash of one, never replaces a secret that a row has.
StartKeepsSecrets ==
    [][step # "serving" =>
        \A h \in Hosts, c \in Columns :
            secret[h][c] # 0 => secret'[h][c] = secret[h][c] \/ h \notin rows']_vars

\* What make_app accepts is enough for the code that runs later: publish_dns
\* has a backend to send to when one is required (the two decide it
\* separately), and the password of the admin pages, wherever it comes from, is
\* there and, in production, long.  What make_app does not check is whether the
\* provider it is told by name has what it needs.
ServesAsConfigured ==
    step = "serving" =>
        /\ settings.require =>
              /\ Route(settings) \in {"cloudflare", "rfc2136"} \/ Incomplete(settings)
              /\ settings.admin = "long"
        /\ via = "cli" => settings.admin # "empty"
===============================================================================
