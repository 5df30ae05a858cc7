---------------------------- MODULE GatewayProofs ----------------------------
(***************************************************************************)
(* The middleware uses the limiter as RateLimit describes it, so what      *)
(* RateLimitProofs proves of the limiter holds behind the middleware too;  *)
(* from that, the limit of a client for any number of threads, addresses,  *)
(* slugs, routes and requests.                                             *)
(***************************************************************************)
EXTENDS Gateway, RateLimitProofs

\* The key under which the requests of a peer that is no proxy are counted.
KeyOf(p, r) == <<p, RateLimitBucket(r, NoSlug)>>

\* A request that is being counted is counted under the key of its sender.
KeyMatches ==
    \A t \in Threads : pc[t] = "count" =>
        \E p \in Peers, r \in Routes :
            request[t] = <<p, r>> /\ (p \notin Proxies => key[t] = KeyOf(p, r))

\* Nothing reaches a service route without being counted.
ServedCounted ==
    \A p \in Peers \ Proxies, r \in Routes \cap ServiceRoutes, w \in Windows :
        served[p][r][w] <= passed[KeyOf(p, r)][w]

GatewayInv == GatewayTypeOK /\ KeyMatches /\ ServedCounted

-----------------------------------------------------------------------------
(* Keys.                                                                   *)

\* All the slugs of a route share a bucket, and the bucket has the limit of
\* the route.
LEMMA OneBucket ==
    ASSUME NEW r \in Routes, NEW slug \in SlugsOf(r)
    PROVE  /\ RateLimitBucket(r, slug) = RateLimitBucket(r, NoSlug)
           /\ RateLimitBucket(r, slug) \in Buckets
           /\ LimitOf(RateLimitBucket(r, slug)[1]) = Promised(r)
<1>1. RateLimitBucket(r, slug) = RateLimitBucket(r, NoSlug)
    BY DEF SlugsOf, RateLimitBucket
<1>2. RateLimitBucket(r, slug) \in Buckets
    BY DEF Buckets
<1>3. LimitOf(RateLimitBucket(r, slug)[1]) = Promised(r)
    BY DEF LimitOf, Promised, IsAdminPath, RateLimitBucket, SlugRoutes, AdminRoutes
<1> QED
    BY <1>1, <1>2, <1>3

\* Such a key is one of the limiter's, with the limit of its route.
LEMMA KeyOfIsKey ==
    ASSUME NEW p \in Peers, NEW r \in Routes
    PROVE  KeyOf(p, r) \in Keys /\ Limit[KeyOf(p, r)] = Promised(r)
<1>1. PICK slug \in SlugsOf(r) : TRUE
    BY GatewayAssumption DEF SlugsOf
<1>2. RateLimitBucket(r, NoSlug) \in Buckets
      /\ LimitOf(RateLimitBucket(r, NoSlug)[1]) = Promised(r)
    BY <1>1, OneBucket
<1>3. KeyOf(p, r) \in Keys
    BY <1>2, GatewayAssumption DEF KeyOf, Addresses
<1>4. KeyOf(p, r)[2][1] = RateLimitBucket(r, NoSlug)[1]
    BY DEF KeyOf
<1> QED
    BY <1>2, <1>3, <1>4, GatewayAssumption

-----------------------------------------------------------------------------
(* The limiter is used as RateLimit describes it.                          *)

\* A request to a service route goes to the limiter, under the key of its sender.
LEMMA ArrivalCounts ==
    ASSUME NEW t \in Threads, NEW r \in Routes, NEW slug \in SlugsOf(r), NEW p \in Peers,
           NEW header \in Headers(p), Arrive(t, r, slug, p, header)
    PROVE  \/ /\ r \in ServiceRoutes /\ UNCHANGED served
              /\ ReadClock(t, <<ClientIp(p, header), RateLimitBucket(r, slug)>>)
              /\ <<ClientIp(p, header), RateLimitBucket(r, slug)>> \in Keys
           \/ r \notin ServiceRoutes /\ UNCHANGED <<vars, served>>
<1>1. ClientIp(p, header) \in Addresses
    BY GatewayAssumption DEF ClientIp, Addresses, Headers
<1>2. <<ClientIp(p, header), RateLimitBucket(r, slug)>> \in Keys
    BY <1>1, OneBucket, GatewayAssumption
<1>3. IsRateLimitedPath(r) \/ IsAdminPath(r) <=> r \in ServiceRoutes
    BY DEF IsRateLimitedPath, IsAdminPath, ServiceRoutes
<1> QED
    BY <1>2, <1>3 DEF Arrive, Serve

\* Each step of the gateway is a step of the limiter, or none for it.
LEMMA StepIsStep == [GatewayNext]_allVars => [Next]_vars
<1> SUFFICES ASSUME [GatewayNext]_allVars PROVE [Next]_vars
    OBVIOUS
<1>1. CASE Arrivals
  <2>1. PICK t \in Threads, r \in Routes, p \in Peers :
               \E slug \in SlugsOf(r), header \in Headers(p) : Arrive(t, r, slug, p, header)
      BY <1>1 DEF Arrivals
  <2>2. PICK slug \in SlugsOf(r), header \in Headers(p) : Arrive(t, r, slug, p, header)
      BY <2>1
  <2>3. UNCHANGED vars \/ \E k \in Keys : ReadClock(t, k)
      BY <2>2, ArrivalCounts
  <2> QED
      BY <2>3 DEF Next
<1>2. CASE \E t \in Threads : Admit(t) \/ TurnAway(t)
    BY <1>2 DEF Admit, TurnAway, Next
<1>3. CASE \E t \in Threads : Finish(t) \/ \E n \in 1..MaxChunk : Receive(t, n)
    BY <1>3 DEF Finish, Receive
<1>4. CASE RestartServer
    BY <1>4 DEF RestartServer, Next
<1>5. CASE Cleanup \/ Tick
    BY <1>5 DEF Next
<1>6. CASE UNCHANGED allVars
    BY <1>6 DEF allVars
<1> QED
    BY <1>1, <1>2, <1>3, <1>4, <1>5, <1>6 DEF GatewayNext

\* The limiter, as security_middleware calls it for any mix of requests, is
\* the limiter of RateLimit.
THEOREM LimiterAsDescribed == GatewaySpec => Spec
<1>1. GatewayInit => Init
    BY DEF GatewayInit
<1> QED
    BY <1>1, StepIsStep, PTL DEF GatewaySpec, Spec

-----------------------------------------------------------------------------
(* The history of what has been served.                                    *)

\* At first nothing has been served.
LEMMA GatewayInitInv == GatewayInit => GatewayInv
<1> SUFFICES ASSUME GatewayInit PROVE GatewayInv
    OBVIOUS
<1>1. TypeOK
    BY TypeInit DEF GatewayInit
<1>2. GatewayTypeOK
    BY <1>1, GatewayAssumption DEF GatewayInit, GatewayTypeOK
<1>3. KeyMatches
    BY DEF GatewayInit, Init, KeyMatches
<1>4. ServedCounted
  <2> SUFFICES ASSUME NEW p \in Peers \ Proxies, NEW r \in Routes \cap ServiceRoutes,
                      NEW w \in Windows
               PROVE  served[p][r][w] <= passed[KeyOf(p, r)][w]
      BY DEF ServedCounted
  <2>1. served[p][r][w] = 0
      BY DEF GatewayInit
  <2>2. passed[KeyOf(p, r)][w] = 0
      BY KeyOfIsKey DEF GatewayInit, Init
  <2> QED
      BY <2>1, <2>2
<1> QED
    BY <1>2, <1>3, <1>4 DEF GatewayInv

\* A pair is a request, the empty tuple is none.
LEMMA PairIsRequest == ASSUME NEW p, NEW r PROVE <<p, r>> # NoRequest
BY DEF NoRequest

\* A thread that begins to be counted, or that is not counted, keeps the rest.
LEMMA ArriveInv ==
    ASSUME GatewayInv, TypeOK', NEW t \in Threads, NEW r \in Routes, NEW slug \in SlugsOf(r),
           NEW p \in Peers, NEW header \in Headers(p), Arrive(t, r, slug, p, header)
    PROVE  GatewayInv'
<1>1. UNCHANGED <<served, passed>>
    BY ArrivalCounts DEF vars, ReadClock
<1>2. request' = [request EXCEPT ![t] = <<p, r>>] /\ body' = body /\ arrived' = arrived + 1
    BY DEF Arrive
<1>3. GatewayTypeOK'
    BY <1>1, <1>2 DEF GatewayInv, GatewayTypeOK
<1>4. ServedCounted'
    BY <1>1 DEF GatewayInv, ServedCounted
<1>5. ASSUME NEW s \in Threads, pc'[s] = "count"
      PROVE  \E q \in Peers, rr \in Routes :
                 request'[s] = <<q, rr>> /\ (q \notin Proxies => key'[s] = KeyOf(q, rr))
  <2>1. CASE s = t
    <3>1. request'[t] = <<p, r>>
        BY <1>2 DEF GatewayInv, GatewayTypeOK
    <3>2. CASE ReadClock(t, <<ClientIp(p, header), RateLimitBucket(r, slug)>>)
      <4>1. key'[t] = <<ClientIp(p, header), RateLimitBucket(r, slug)>>
          BY <3>2 DEF ReadClock, GatewayInv, GatewayTypeOK, TypeOK
      <4>2. p \notin Proxies => key'[t] = KeyOf(p, r)
          BY <4>1, OneBucket DEF ClientIp, KeyOf
      <4> QED
          BY <2>1, <3>1, <4>2
    <3>3. CASE UNCHANGED vars
      <4>1. pc[t] = "count"
          BY <1>5, <2>1, <3>3 DEF vars
      <4>2. request[t] # NoRequest
          BY <4>1, PairIsRequest DEF GatewayInv, KeyMatches
      <4> QED
          BY <4>2 DEF Arrive
    <3> QED
        BY <3>2, <3>3, ArrivalCounts
  <2>2. CASE s # t
    <3>1. request'[s] = request[s]
        BY <1>2, <2>2 DEF GatewayInv, GatewayTypeOK
    <3>2. pc'[s] = pc[s] /\ key'[s] = key[s]
        BY <2>2, ArrivalCounts DEF ReadClock, vars, GatewayInv, GatewayTypeOK, TypeOK
    <3> QED
        BY <1>5, <3>1, <3>2 DEF GatewayInv, KeyMatches
  <2> QED
      BY <2>1, <2>2
<1>6. KeyMatches'
    BY <1>5 DEF KeyMatches
<1> QED
    BY <1>3, <1>4, <1>6 DEF GatewayInv

\* What is served has just been counted.
LEMMA AdmitInv == ASSUME GatewayInv, TypeOK', NEW t \in Threads, Admit(t) PROVE GatewayInv'
<1>1. PICK p \in Peers, r \in Routes :
             request[t] = <<p, r>> /\ (p \notin Proxies => key[t] = KeyOf(p, r))
    BY DEF Admit, Allow, GatewayInv, KeyMatches
<1>2. request[t][1] = p /\ request[t][2] = r
    BY <1>1
<1>3. window[t] \in Windows /\ key[t] \in Keys
    BY DEF GatewayInv, GatewayTypeOK, TypeOK
<1>4. served' = IF r \in ServiceRoutes THEN [served EXCEPT ![p][r][window[t]] = @ + 1] ELSE served
    BY <1>2 DEF Admit, Serve
<1>5. passed' = [passed EXCEPT ![key[t]][window[t]] = @ + 1]
    BY DEF Admit, Allow, Increment
<1>6. UNCHANGED <<request, body, arrived, key>>
    BY DEF Admit, Allow, Done
<1>7. served' \in [Peers -> [Routes -> [Windows -> Nat]]]
    BY <1>3, <1>4 DEF GatewayInv, GatewayTypeOK
<1>8. GatewayTypeOK'
    BY <1>6, <1>7 DEF GatewayInv, GatewayTypeOK
<1>9. \A s \in Threads : pc'[s] = "count" => pc[s] = "count"
    BY DEF Admit, Allow, Done, GatewayInv, GatewayTypeOK, TypeOK
<1>10. KeyMatches'
    BY <1>6, <1>9 DEF GatewayInv, KeyMatches
<1>11. ASSUME NEW q \in Peers \ Proxies, NEW rr \in Routes \cap ServiceRoutes, NEW w \in Windows
       PROVE  served'[q][rr][w] <= passed'[KeyOf(q, rr)][w]
  <2>1. KeyOf(q, rr) \in Keys
      BY KeyOfIsKey
  <2>2. served[q][rr][w] \in Nat /\ passed[KeyOf(q, rr)][w] \in Nat
        /\ served[q][rr][w] <= passed[KeyOf(q, rr)][w]
      BY <2>1 DEF GatewayInv, GatewayTypeOK, TypeOK, Counts, ServedCounted
  <2>3. passed'[KeyOf(q, rr)][w] = IF KeyOf(q, rr) = key[t] /\ w = window[t]
                                   THEN passed[KeyOf(q, rr)][w] + 1 ELSE passed[KeyOf(q, rr)][w]
      BY <1>3, <1>5, <2>1 DEF GatewayInv, GatewayTypeOK, TypeOK, Counts
  <2>4. served'[q][rr][w] = IF r \in ServiceRoutes /\ q = p /\ rr = r /\ w = window[t]
                            THEN served[q][rr][w] + 1 ELSE served[q][rr][w]
      BY <1>3, <1>4 DEF GatewayInv, GatewayTypeOK
  <2>5. q = p /\ rr = r => key[t] = KeyOf(q, rr)
      BY <1>1
  <2> QED
      BY <2>2, <2>3, <2>4, <2>5
<1>12. ServedCounted'
    BY <1>11 DEF ServedCounted
<1> QED
    BY <1>8, <1>10, <1>12 DEF GatewayInv

\* The other steps count nothing, serve nothing, and leave the requests that
\* are being counted alone.
LEMMA OtherInv ==
    ASSUME GatewayInv, TypeOK', UNCHANGED <<served, passed>>, arrived' \in Nat,
           request' \in [Threads -> {NoRequest} \cup (Peers \X Routes)],
           body' \in [Threads -> 0..MaxBody],
           \A s \in Threads : pc'[s] = "count" =>
               pc[s] = "count" /\ request'[s] = request[s] /\ key'[s] = key[s]
    PROVE  GatewayInv'
BY DEF GatewayInv, GatewayTypeOK, KeyMatches, ServedCounted

\* The end of a request keeps the types.
LEMMA OverType ==
    ASSUME GatewayInv, NEW t \in Threads, Over(t)
    PROVE  /\ request' \in [Threads -> {NoRequest} \cup (Peers \X Routes)]
           /\ body' \in [Threads -> 0..MaxBody] /\ UNCHANGED <<served, arrived>>
           /\ \A s \in Threads : s # t => request'[s] = request[s]
BY GatewayAssumption DEF Over, GatewayInv, GatewayTypeOK

\* What is served has been let through by the limiter under the sender's key.
LEMMA GatewayStepInv == GatewayInv /\ [GatewayNext]_allVars => GatewayInv'
<1> SUFFICES ASSUME GatewayInv, [GatewayNext]_allVars PROVE GatewayInv'
    OBVIOUS
<1>1. TypeOK'
    BY StepIsStep, TypeStep DEF GatewayInv, GatewayTypeOK
<1>2. CASE Arrivals
    BY <1>1, <1>2, ArriveInv DEF Arrivals
<1>3. ASSUME NEW t \in Threads, Admit(t) PROVE GatewayInv'
    BY <1>1, <1>3, AdmitInv
<1>4. ASSUME NEW t \in Threads, TurnAway(t) PROVE GatewayInv'
  <2>1. UNCHANGED <<passed, key>> /\ pc' = [pc EXCEPT ![t] = "idle"] /\ Over(t)
      BY <1>4 DEF TurnAway, Refuse, CountRaises, Done
  <2>2. \A s \in Threads : pc'[s] = "count" => s # t /\ pc[s] = "count"
      BY <2>1 DEF GatewayInv, GatewayTypeOK, TypeOK
  <2>3. arrived' \in Nat
      BY <2>1 DEF Over, GatewayInv, GatewayTypeOK
  <2> QED
      BY <1>1, <2>1, <2>2, <2>3, OverType, OtherInv
<1>5. ASSUME NEW t \in Threads, Finish(t) PROVE GatewayInv'
  <2>1. UNCHANGED <<passed, key, pc>> /\ pc[t] = "idle" /\ Over(t)
      BY <1>5 DEF Finish, Serving, vars
  <2>2. arrived' \in Nat
      BY <2>1 DEF Over, GatewayInv, GatewayTypeOK
  <2>3. \A s \in Threads : pc'[s] = "count" => s # t
      BY <2>1
  <2> QED
      BY <1>1, <2>1, <2>2, <2>3, OverType, OtherInv
<1>6. ASSUME NEW t \in Threads, NEW n \in 1..MaxChunk, Receive(t, n) PROVE GatewayInv'
  <2>1. body[t] + n \in 0..MaxBody
      BY <1>6, GatewayAssumption DEF Receive, GatewayInv, GatewayTypeOK
  <2>2. body' \in [Threads -> 0..MaxBody]
      BY <1>6, <2>1 DEF Receive, GatewayInv, GatewayTypeOK
  <2> QED
      BY <1>1, <1>6, <2>2 DEF Receive, vars, GatewayInv, GatewayTypeOK, KeyMatches, ServedCounted
<1>7. CASE RestartServer
  <2>1. \A s \in Threads : pc'[s] = "idle"
      BY <1>7 DEF RestartServer, Restart
  <2>2. UNCHANGED <<served, passed, arrived>> /\ request' \in [Threads -> {NoRequest}]
        /\ body' \in [Threads -> {0}]
      BY <1>7 DEF RestartServer, Restart
  <2> QED
      BY <1>1, <2>1, <2>2, GatewayAssumption, OtherInv DEF GatewayInv, GatewayTypeOK
<1>8. CASE (Cleanup \/ Tick) /\ UNCHANGED gatewayVars
    BY <1>1, <1>8
    DEF Cleanup, Tick, gatewayVars, GatewayInv, GatewayTypeOK, KeyMatches, ServedCounted
<1>9. CASE UNCHANGED allVars
    BY <1>1, <1>9 DEF allVars, vars, gatewayVars, GatewayInv, GatewayTypeOK, KeyMatches, ServedCounted
<1> QED
    BY <1>2, <1>3, <1>4, <1>5, <1>6, <1>7, <1>8, <1>9 DEF GatewayNext

-----------------------------------------------------------------------------
\* GatewayTypeOK: in particular the application never gets more of a body than
\* RequestBodyLimitMiddleware allows.
THEOREM GatewayTypeCorrect == GatewaySpec => []GatewayTypeOK
<1>1. GatewayInv => GatewayTypeOK
    BY DEF GatewayInv
<1> QED
    BY GatewayInitInv, GatewayStepInv, <1>1, PTL DEF GatewaySpec

\* ClientLimited: a client gets no more through than its limit, for each
\* cleanup, whatever slugs and headers it sends.
THEOREM ClientsAreLimited == GatewaySpec => []ClientLimited
<1>1. GatewayInv /\ TypeOK /\ WithinLimitPerCleanup => ClientLimited
  <2> SUFFICES ASSUME GatewayInv, TypeOK, WithinLimitPerCleanup,
                      NEW p \in Peers \ Proxies, NEW r \in Routes \cap ServiceRoutes,
                      NEW w \in Windows
               PROVE  served[p][r][w] <= Promised(r) * (cleanups + 1)
      BY DEF ClientLimited
  <2>1. KeyOf(p, r) \in Keys /\ Limit[KeyOf(p, r)] = Promised(r)
      BY KeyOfIsKey
  <2>2. passed[KeyOf(p, r)][w] <= Promised(r) * (cleanups + 1)
      BY <2>1 DEF WithinLimitPerCleanup, Allowance
  <2>3. served[p][r][w] <= passed[KeyOf(p, r)][w]
      BY DEF GatewayInv, ServedCounted
  <2>4. served[p][r][w] \in Nat /\ passed[KeyOf(p, r)][w] \in Nat
      BY <2>1 DEF GatewayInv, GatewayTypeOK, TypeOK, Counts
  <2>5. Promised(r) * (cleanups + 1) \in Nat
      BY GatewayAssumption DEF Promised, TypeOK
  <2> QED
      BY <2>2, <2>3, <2>4, <2>5
<1>2. GatewaySpec => []GatewayInv
    BY GatewayInitInv, GatewayStepInv, PTL DEF GatewaySpec
<1>3. GatewaySpec => []TypeOK /\ []WithinLimitPerCleanup
    BY LimiterAsDescribed, TypeCorrect, LimitHoldsPerCleanup, PTL
<1> QED
    BY <1>1, <1>2, <1>3, PTL
=============================================================================
