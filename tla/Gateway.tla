------------------------------- MODULE Gateway -------------------------------
(***************************************************************************)
(* What stands between a client and a handler: security_middleware of      *)
(* ddns.py, the key under which ddns_security.py has a request counted,    *)
(* the limiter of RateLimit, and RequestBodyLimitMiddleware.               *)
(*                                                                         *)
(* A path is a route and, where the route has one, a slug.                 *)
(***************************************************************************)
EXTENDS RateLimit

CONSTANTS
    Peers,        \* addresses that connections come from
    Proxies,      \* peers that DDNS_TRUSTED_PROXY_IPS matches
    Forwarded,    \* addresses that X-Forwarded-For may begin with
    NoHeader,     \* no X-Forwarded-For
    Slugs,        \* slugs that clients send
    NoSlug,       \* the path ends where the route does
    Routes,       \* the routes that clients use
    PublicLimit,  \* rate_limit_per_minute
    AdminLimit,   \* admin_rate_limit_per_minute
    MaxBody,      \* max_request_body_bytes, in units of some size
    MaxChunk,     \* bound: how much of a body arrives at once
    MaxRequests   \* bound: requests in one behaviour

\* Routes whose handler uses a secret of the path, and those with a form or body.
SlugRoutes == {"/u/", "/m/", "/m/delete", "/d/", "/api/v1/updates/", "/api/v1/management/"}
FormRoutes == {"/magic", "/accounts", "/request-domain", "/verify-domain"}
ApiRoutes  == {"/api/v1/hostnames/magic", "/api/v1/hostnames/custom",
               "/api/v1/domains/challenges", "/api/v1/domains/verify"}
AdminRoutes == {"/admin", "/admin/accounts/delete", "/admin/accounts/rotate",
                "/admin/cleanup", "/records", "/events"}
OpenRoutes  == {"/", "/healthz", "/privacy", "/app.js"}

\* The routes that read or change what the store keeps.
ServiceRoutes == SlugRoutes \cup FormRoutes \cup ApiRoutes \cup AdminRoutes \cup {"/nic/update"}

SlugsOf(r) == IF r \in SlugRoutes THEN Slugs ELSE {NoSlug}

-----------------------------------------------------------------------------
(* What the limiter counts, and under which key.                           *)

\* Mutant: the prefix is all that is looked at.
IsAdminPath_Prefix(r) == r \in AdminRoutes \ {"/records", "/events"}

\* _is_admin_path
IsAdminPath(r) == r \in AdminRoutes

\* is_rate_limited_path
IsRateLimitedPath(r) == r \in FormRoutes \cup {"/nic/update"} \cup SlugRoutes \cup ApiRoutes

\* Mutant: each slug has a counter of its own.
RateLimitBucket_WholePath(r, slug) == <<r, slug>>

\* rate_limit_bucket: whatever comes after one of the prefixes is dropped.
RateLimitBucket(r, slug) ==
    IF r \in SlugRoutes THEN <<IF r = "/m/delete" THEN "/m/" ELSE r, NoSlug>> ELSE <<r, slug>>

\* Mutant: the header is believed whoever sends it.
ClientIp_Believes(peer, header) == IF header # NoHeader THEN header ELSE peer

\* client_ip
ClientIp(peer, header) == IF header # NoHeader /\ peer \in Proxies THEN header ELSE peer

\* security_middleware: the limit depends on the path alone.
LimitOf(r) == IF IsAdminPath(r) THEN AdminLimit ELSE PublicLimit

Addresses == Peers \cup Forwarded
Buckets   == UNION {{RateLimitBucket(r, slug) : slug \in SlugsOf(r)} : r \in Routes}

-----------------------------------------------------------------------------
ASSUME GatewayAssumption ==
    /\ Routes \subseteq ServiceRoutes \cup OpenRoutes
    /\ Proxies \subseteq Peers
    /\ NoHeader \notin Forwarded /\ NoSlug \notin Slugs /\ Slugs # {}
    /\ PublicLimit \in Nat \ {0} /\ AdminLimit \in Nat \ {0}
    /\ MaxBody \in Nat /\ MaxChunk \in Nat /\ MaxRequests \in Nat
    /\ Keys = Addresses \X Buckets
    /\ Limit = [k \in Keys |-> LimitOf(k[2][1])]

VARIABLES
    request,  \* per thread: the peer and the route of its request, if any
    body,     \* per thread: how much of the body the application has received
    served,   \* history: requests that reached a service route, by peer, route, window
    arrived   \* history: how many requests there have been

gatewayVars == <<request, body, served, arrived>>
allVars     == <<vars, gatewayVars>>

NoRequest == <<>>

GatewayTypeOK ==
    /\ TypeOK
    /\ request \in [Threads -> {NoRequest} \cup (Peers \X Routes)]
    /\ body \in [Threads -> 0..MaxBody]
    /\ served \in [Peers -> [Routes -> [Windows -> Nat]]]
    /\ arrived \in Nat

GatewayInit ==
    /\ Init /\ key = [t \in Threads |-> CHOOSE k \in Keys : TRUE]
    /\ request = [t \in Threads |-> NoRequest]
    /\ body = [t \in Threads |-> 0]
    /\ served = [p \in Peers |-> [r \in Routes |-> [w \in Windows |-> 0]]]
    /\ arrived = 0

-----------------------------------------------------------------------------
(* The middleware.                                                         *)

\* The application gets a request.
Serve(p, r, w) ==
    served' = IF r \in ServiceRoutes THEN [served EXCEPT ![p][r][w] = @ + 1] ELSE served

\* A request whose declared length is within the limit (413 if it is not; a
\* length that is missing or no number counts as 0).
Arrive(t, r, slug, p, header) ==
    /\ request[t] = NoRequest
    /\ arrived < MaxRequests /\ arrived' = arrived + 1
    /\ request' = [request EXCEPT ![t] = <<p, r>>]
    /\ IF IsRateLimitedPath(r) \/ IsAdminPath(r)
       THEN /\ ReadClock(t, <<ClientIp(p, header), RateLimitBucket(r, slug)>>)
            /\ UNCHANGED served
       ELSE Serve(p, r, Window(clock)) /\ UNCHANGED vars
    /\ UNCHANGED body

\* The limiter lets it through to the application ...
Admit(t) ==
    /\ Allow(t)
    /\ Serve(request[t][1], request[t][2], window[t])
    /\ UNCHANGED <<request, body, arrived>>

Over(t) ==
    /\ request' = [request EXCEPT ![t] = NoRequest]
    /\ body' = [body EXCEPT ![t] = 0]
    /\ UNCHANGED <<served, arrived>>

\* ... or answers 429, or raises.
TurnAway(t) == (Refuse(t) \/ CountRaises(t)) /\ Over(t)

Serving(t) == request[t] # NoRequest /\ pc[t] = "idle"

\* Mutant: the declared length is all that is checked.
Receive_Trusts(t, n) ==
    /\ Serving(t)
    /\ body' = [body EXCEPT ![t] = @ + n]
    /\ UNCHANGED <<vars, request, served, arrived>>

\* limited_receive hands another piece of the body to the application ...
Receive(t, n) ==
    /\ Serving(t) /\ body[t] + n <= MaxBody
    /\ body' = [body EXCEPT ![t] = @ + n]
    /\ UNCHANGED <<vars, request, served, arrived>>

\* ... unless that makes it too long.  Here too the request is over when it is
\* answered: 404 of the router, 401, 403, a page, an error.
Finish(t) ==
    /\ Serving(t)
    /\ Over(t)
    /\ UNCHANGED vars

\* The process restarts, and its requests are gone.
RestartServer ==
    /\ Restart
    /\ request' = [t \in Threads |-> NoRequest]
    /\ body' = [t \in Threads |-> 0]
    /\ UNCHANGED <<served, arrived>>

\* A proxy always sends the header; a client may.
Headers(p) == IF p \in Proxies THEN Forwarded ELSE Forwarded \cup {NoHeader}

Arrivals ==
    \E t \in Threads, r \in Routes, p \in Peers :
        \E slug \in SlugsOf(r), header \in Headers(p) : Arrive(t, r, slug, p, header)

GatewayNext ==
    \/ Arrivals
    \/ \E t \in Threads :
          Admit(t) \/ TurnAway(t) \/ Finish(t) \/ \E n \in 1..MaxChunk : Receive(t, n)
    \/ RestartServer
    \/ (Cleanup \/ Tick) /\ UNCHANGED gatewayVars

GatewaySpec == GatewayInit /\ [][GatewayNext]_allVars

-----------------------------------------------------------------------------
(* Properties.                                                             *)

Promised(r) == IF r \in AdminRoutes THEN AdminLimit ELSE PublicLimit

\* "allowed per source IP and path": whatever slugs it tries and whatever it
\* says of itself in a header, a client that is no trusted proxy gets no more
\* requests through to a route in a minute than the limit of that route, once
\* more for each cleanup.
ClientLimited ==
    \A p \in Peers \ Proxies, r \in Routes \cap ServiceRoutes, w \in Windows :
        served[p][r][w] <= Promised(r) * (cleanups + 1)
=============================================================================
