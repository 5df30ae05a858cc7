----------------------------- MODULE DomainClaims -----------------------------
(***************************************************************************)
(* Custom domains: the claims of ddns_service.py and ddns_store.py         *)
(* (create_domain_challenge, verify_domain, the domain_challenges part of  *)
(* cleanup) and the custom hostnames that need one (create_custom_account, *)
(* best_verified_parent).                                                  *)
(*                                                                         *)
(* A claim is one row per domain.  Its TXT token and its claim secret are  *)
(* generated together and stand here for one number, fresh for each claim. *)
(* sqlite3 opens a transaction at the first write only, so each SELECT and *)
(* each write below is a step of its own.                                  *)
(***************************************************************************)
EXTENDS Integers, Sequences

CONSTANTS
    Domains,        \* domains clients may claim, as sequences of labels
    Hosts,          \* custom hostnames clients may ask for, likewise
    Zones,          \* what DDNS_DNS_ZONES, or its fallbacks, configure
    DnsConfigured,  \* dns_backend_configured
    Threads,        \* pool threads
    MaxClaims       \* bound: claims issued in one behaviour

Names == Seq(STRING)

ASSUME NamesAssumption ==
    /\ Domains \subseteq Names /\ Zones \subseteq Names
    /\ Hosts \subseteq {h \in Names : Len(h) >= 2}

ASSUME ConfigAssumption == DnsConfigured \in BOOLEAN /\ MaxClaims \in Nat

VARIABLES
    claim,     \* domain_challenges: the row of each domain, NoRow if none
    issued,    \* how many claims have been issued
    txt,       \* external: the tokens in the TXT record set of each domain
    accounts,  \* custom hostnames with a row in accounts
    pc,        \* per thread: the next step of its request
    dom,       \* per thread: the domain of its claim request
    id,        \* per thread: the claim secret it was sent, 0 for none
    host,      \* per thread: the hostname of its custom account request
    idx,       \* per thread: the index of best_verified_parent's loop
    proven,    \* history: the tokens that a lookup has found, by domain
    overtaken, \* history: threads whose claim request has passed its checks
               \* before a verification of the same domain
    midway     \* history: the claims issued while a verification of their
               \* domain was under way

claimVars  == <<claim, issued, txt, accounts, proven>>
threadVars == <<dom, id, host, idx>>
raceVars   == <<overtaken, midway>>
vars       == <<claimVars, pc, threadVars, raceVars>>

NoRow == [id |-> 0, verified |-> FALSE, old |-> FALSE]
Rows  == [id : Nat, verified : BOOLEAN, old : BOOLEAN]
Pcs   == {"idle", "read", "check", "upsert", "resolve", "mark_read", "mark", "parent", "create"}

-----------------------------------------------------------------------------
\* The names best_verified_parent tries: every proper parent of two labels or
\* more, the longest first, and then the hostname itself.
Candidates(h) ==
    [i \in 1..Len(h) - 1 |-> IF i <= Len(h) - 2 THEN SubSeq(h, i + 1, Len(h)) ELSE h]

\* hostname == zone or hostname.endswith("." + zone)
InZone(h, z) == Len(z) <= Len(h) /\ SubSeq(h, Len(h) - Len(z) + 1, Len(h)) = z

\* Without a backend every name is publishable: make_app does not start when
\* one is required and missing.
Publishable(h) == DnsConfigured => \E z \in Zones : InZone(h, z)

\* The row of d answers to the claim secret n.
Answers(d, n) == claim[d] # NoRow /\ claim[d].id = n

\* Mutant: an unverified claim is enough.
IsDomainVerified_Claimed(d, n) == Answers(d, n)

IsDomainVerified(d, n) == Answers(d, n) /\ claim[d].verified

TypeOK ==
    /\ claim \in [Domains -> Rows]
    /\ issued \in Nat
    /\ txt \in [Domains -> SUBSET Nat]
    /\ accounts \subseteq Hosts
    /\ pc \in [Threads -> Pcs]
    /\ dom \in [Threads -> Domains]
    /\ id \in [Threads -> Nat]
    /\ host \in [Threads -> Hosts]
    /\ idx \in [Threads -> Nat]
    /\ proven \in [Domains -> SUBSET Nat]
    /\ overtaken \subseteq Threads /\ midway \subseteq Nat
    /\ \A t \in Threads : pc[t] = "parent" => idx[t] \in DOMAIN Candidates(host[t])

Init ==
    /\ claim = [d \in Domains |-> NoRow]
    /\ issued = 0
    /\ txt = [d \in Domains |-> {}]
    /\ accounts = {}
    /\ pc = [t \in Threads |-> "idle"]
    /\ dom \in [Threads -> Domains]
    /\ id = [t \in Threads |-> 0]
    /\ host \in [Threads -> Hosts]
    /\ idx = [t \in Threads |-> 1]
    /\ proven = [d \in Domains |-> {}]
    /\ overtaken = {} /\ midway = {}

Goto(t, p) == pc' = [pc EXCEPT ![t] = p] /\ UNCHANGED raceVars

Forget(t) ==
    /\ pc' = [pc EXCEPT ![t] = "idle"]
    /\ id' = [id EXCEPT ![t] = 0]
    /\ idx' = [idx EXCEPT ![t] = 1]
    /\ UNCHANGED <<dom, host>>

\* The request is answered.
Answer(t) == Forget(t) /\ overtaken' = overtaken \ {t} /\ UNCHANGED midway

-----------------------------------------------------------------------------
(* create_domain_challenge.                                                *)

BeginClaim(t, d) ==
    /\ pc[t] = "idle"
    /\ Goto(t, "read")
    /\ dom' = [dom EXCEPT ![t] = d]
    /\ UNCHANGED <<claimVars, id, host, idx>>

\* Mutant: only the syntax of the domain is checked.
ClaimLookup_Unchecked(t, here, next) ==
    /\ pc[t] = here
    /\ Goto(t, next)
    /\ UNCHANGED <<claimVars, threadVars>>

\* The service asks the store first, and the store asks again: 409 for a
\* verified domain either way.
ClaimLookup(t, here, next) ==
    /\ pc[t] = here
    /\ IF claim[dom[t]].verified
       THEN Answer(t)
       ELSE Goto(t, next) /\ UNCHANGED threadVars
    /\ UNCHANGED claimVars

ClaimRead(t)  == ClaimLookup(t, "read", "check")
ClaimCheck(t) == ClaimLookup(t, "check", "upsert")

\* Between the lookup by claim secret and the UPDATE of verify_domain.
Verifying(t) == pc[t] \in {"resolve", "mark_read", "mark"}
UnderWay(d)  == \E t \in Threads : Verifying(t) /\ dom[t] = d

\* The claim request of t is answered with a claim that has just been issued.
Issue(t) ==
    /\ issued' = issued + 1
    /\ midway' = IF UnderWay(dom[t]) THEN midway \cup {issued + 1} ELSE midway
    /\ overtaken' = overtaken \ {t}
    /\ Forget(t)

\* Mutant: verified_at is left as it is when the row is replaced.
ClaimUpsert_KeepsVerified(t) ==
    /\ pc[t] = "upsert" /\ issued < MaxClaims
    /\ claim' = [claim EXCEPT ![dom[t]] = [@ EXCEPT !.id = issued + 1, !.old = FALSE]]
    /\ Issue(t)
    /\ UNCHANGED <<txt, accounts, proven>>

\* The INSERT, or on conflict the UPDATE that replaces whatever row there is.
ClaimUpsert(t) ==
    /\ pc[t] = "upsert" /\ issued < MaxClaims
    /\ claim' = [claim EXCEPT ![dom[t]] = [id |-> issued + 1, verified |-> FALSE, old |-> FALSE]]
    /\ Issue(t)
    /\ UNCHANGED <<txt, accounts, proven>>

-----------------------------------------------------------------------------
(* verify_domain.                                                          *)

\* Mutant: the row is selected by the claim secret only.
BeginVerify_BySecret(t, d, n) ==
    /\ pc[t] = "idle" /\ \E e \in Domains : Answers(e, n)
    /\ Goto(t, "resolve")
    /\ dom' = [dom EXCEPT ![t] = d]
    /\ id' = [id EXCEPT ![t] = n]
    /\ UNCHANGED <<claimVars, host, idx>>

\* The service selects the row by domain and claim secret; 404 without one.
BeginVerify(t, d, n) ==
    /\ pc[t] = "idle" /\ Answers(d, n)
    /\ Goto(t, "resolve")
    /\ dom' = [dom EXCEPT ![t] = d]
    /\ id' = [id EXCEPT ![t] = n]
    /\ UNCHANGED <<claimVars, host, idx>>

\* dns_txt_contains: the token is one of the strings.
TxtContains(t) == id[t] \in txt[dom[t]]

Resolve(t) ==
    /\ pc[t] = "resolve" /\ TxtContains(t)
    /\ proven' = [proven EXCEPT ![dom[t]] = @ \cup ({id[t]} \cap txt[dom[t]])]
    /\ Goto(t, "mark_read")
    /\ UNCHANGED <<claim, issued, txt, accounts, threadVars>>

\* The token is not there, not there yet, or the resolver raises: every
\* exception of the lookup counts as not found.
ResolveMisses(t) ==
    /\ pc[t] = "resolve"
    /\ Answer(t)
    /\ UNCHANGED claimVars

\* verify_domain_challenge selects by domain only; 404 if the row is gone.
MarkRead(t) ==
    /\ pc[t] = "mark_read"
    /\ IF claim[dom[t]] = NoRow
       THEN Answer(t)
       ELSE Goto(t, "mark") /\ UNCHANGED threadVars
    /\ UNCHANGED claimVars

\* The UPDATE by domain; it answers verified whether or not it met a row.
Mark(t) ==
    /\ pc[t] = "mark"
    /\ claim' = IF claim[dom[t]] = NoRow THEN claim
                ELSE [claim EXCEPT ![dom[t]].verified = TRUE]
    /\ overtaken' = overtaken \cup {u \in Threads : pc[u] = "upsert" /\ dom[u] = dom[t]}
    /\ Forget(t)
    /\ UNCHANGED <<issued, txt, accounts, proven, midway>>

-----------------------------------------------------------------------------
(* create_custom_account.                                                  *)

BeginCustom(t, h, n) ==
    /\ pc[t] = "idle" /\ Publishable(h)
    /\ Goto(t, "parent")
    /\ host' = [host EXCEPT ![t] = h]
    /\ id' = [id EXCEPT ![t] = n]
    /\ idx' = [idx EXCEPT ![t] = 1]
    /\ UNCHANGED <<claimVars, dom>>

\* Mutant: the loop runs past the last name.
CheckParent_PastTheEnd(t) ==
    /\ pc[t] = "parent"
    /\ idx' = [idx EXCEPT ![t] = @ + 1]
    /\ UNCHANGED <<claimVars, pc, dom, id, host, raceVars>>

\* One turn of best_verified_parent; 403 after the last name.
CheckParent(t) ==
    LET names == Candidates(host[t])
        d     == names[idx[t]]
    IN  /\ pc[t] = "parent"
        /\ IF d \in Domains /\ IsDomainVerified(d, id[t])
           THEN Goto(t, "create") /\ UNCHANGED threadVars
           ELSE IF idx[t] = Len(host[t]) - 1
           THEN Answer(t)
           ELSE /\ idx' = [idx EXCEPT ![t] = @ + 1]
                /\ UNCHANGED <<pc, dom, id, host, raceVars>>
        /\ UNCHANGED claimVars

\* create_account inserts the hostname; 409 if there is one already.
CreateCustom(t) ==
    /\ pc[t] = "create"
    /\ accounts' = accounts \cup {host[t]}
    /\ Answer(t)
    /\ UNCHANGED <<claim, issued, txt, proven>>

-----------------------------------------------------------------------------
(* The domain owner, time, the cleanup, failures.                          *)

\* The owner puts the token of some claim into the domain's TXT records.
PublishTxt(d, n) ==
    /\ n \notin txt[d]
    /\ txt' = [txt EXCEPT ![d] = @ \cup {n}]
    /\ UNCHANGED <<claim, issued, accounts, pc, threadVars, proven, raceVars>>

\* created_at falls behind the cutoff of cleanup_challenge_hours.
GrowOld(d) ==
    /\ claim[d] # NoRow /\ ~claim[d].old
    /\ claim' = [claim EXCEPT ![d].old = TRUE]
    /\ UNCHANGED <<issued, txt, accounts, pc, threadVars, proven, raceVars>>

\* What cleanup deletes: claims that were never verified in time.
Abandoned(d) == claim[d].old /\ ~claim[d].verified

SweepClaims == claim' = [d \in Domains |-> IF Abandoned(d) THEN NoRow ELSE claim[d]]

Cleanup ==
    /\ \E d \in Domains : Abandoned(d)
    /\ SweepClaims
    /\ UNCHANGED <<issued, txt, accounts, pc, threadVars, proven, raceVars>>

\* SQLite raises, before the step has changed anything: 500.
StoreRaises(t) ==
    /\ pc[t] \notin {"idle", "resolve"}
    /\ Answer(t)
    /\ UNCHANGED claimVars

\* The process restarts: its requests are lost, make_app runs the cleanup.
Restart ==
    /\ SweepClaims
    /\ pc' = [t \in Threads |-> "idle"]
    /\ id' = [t \in Threads |-> 0]
    /\ idx' = [t \in Threads |-> 1]
    /\ overtaken' = {}
    /\ UNCHANGED <<issued, txt, accounts, dom, host, proven, midway>>

Secrets == 1..issued

Arrival(t) ==
    \/ \E d \in Domains : BeginClaim(t, d) \/ \E n \in Secrets : BeginVerify(t, d, n)
    \/ \E h \in Hosts, n \in Secrets : BeginCustom(t, h, n)

Step(t) ==
    \/ ClaimRead(t) \/ ClaimCheck(t) \/ ClaimUpsert(t)
    \/ Resolve(t) \/ ResolveMisses(t) \/ MarkRead(t) \/ Mark(t)
    \/ CheckParent(t) \/ CreateCustom(t)
    \/ StoreRaises(t)

Environment ==
    \/ \E d \in Domains : GrowOld(d) \/ \E n \in Secrets : PublishTxt(d, n)
    \/ Cleanup
    \/ Restart

Next == Environment \/ \E t \in Threads : Arrival(t) \/ Step(t)

Spec == Init /\ [][Next]_vars

-----------------------------------------------------------------------------
(* Properties.                                                             *)

\* A token has once been found in the TXT records of a name that covers h.
UnderProvenDomain(h) ==
    \E i \in DOMAIN Candidates(h) :
        Candidates(h)[i] \in Domains /\ proven[Candidates(h)[i]] # {}

\* Whatever races and crashes do to the rows, a custom hostname exists only
\* under a domain whose TXT records a lookup has once found a token in.
HostUnderProvenDomain == \A h \in accounts : UnderProvenDomain(h)

\* A verified claim keeps its row and its claim secret, whatever the cleanup
\* and later claims do: only the write of a claim request that was past both
\* its checks when the verification came replaces it.
VerifiedIsKept ==
    [][\A d \in Domains :
          claim[d].verified =>
              \/ claim'[d].verified /\ claim'[d].id = claim[d].id
              \/ \E t \in overtaken : ClaimUpsert(t) /\ dom[t] = d]_vars

\* The claim that is marked verified is the one whose token was found.
VerifiedTokenWasFound ==
    \A d \in Domains : claim[d].verified => claim[d].id \in proven[d]

\* The UPDATE goes by the domain and may meet a claim whose token nobody has
\* looked for, but it never helps an earlier one: what is marked verified is
\* the claim whose token was found, or one issued for the domain since.
NoEarlierClaimVerified ==
    \A d \in Domains : claim[d].verified => \E n \in proven[d] : n <= claim[d].id

\* And it helps no claim that comes after it: a claim whose token nobody has
\* found is verified only if it was issued while the lookup or the two
\* statements of a verification of its domain were under way.
VerifiedInItsTime ==
    \A d \in Domains : claim[d].verified => claim[d].id \in proven[d] \cup midway

-----------------------------------------------------------------------------
(* The inductive invariant behind HostUnderProvenDomain.                   *)

\* Wherever a race leaves the rows, nothing is marked, used or about to be
\* without some token of the domain having been found.
Grounded ==
    /\ \A d \in Domains : claim[d].verified => proven[d] # {}
    /\ \A t \in Threads :
          /\ pc[t] \in {"mark_read", "mark"} => proven[dom[t]] # {}
          /\ pc[t] = "create" => UnderProvenDomain(host[t])
    /\ HostUnderProvenDomain

-----------------------------------------------------------------------------
(* The inductive invariant behind NoEarlierClaimVerified and               *)
(* VerifiedInItsTime.                                                      *)

\* Whoever verifies holds the secret of the claim there is, or an older one;
\* the claim has then replaced it in the meantime.
InTurn ==
    /\ \A d \in Domains : claim[d].id <= issued
    /\ \A t \in Threads : Verifying(t) =>
          /\ id[t] <= issued
          /\ \/ claim[dom[t]] = NoRow
             \/ id[t] <= claim[dom[t]].id /\ claim[dom[t]].id \in {id[t]} \cup midway
          /\ pc[t] # "resolve" => id[t] \in proven[dom[t]]
    /\ NoEarlierClaimVerified /\ VerifiedInItsTime
=============================================================================
