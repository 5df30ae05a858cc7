-------------------------- MODULE DomainClaimsProofs --------------------------
(***************************************************************************)
(* Proofs about DomainClaims: for any domains, hostnames, zones and        *)
(* threads, and any number of claims.                                      *)
(***************************************************************************)
EXTENDS DomainClaims, TLAPS

\* A hostname has at least one name to try, and the last is the hostname.
LEMMA CandidatesDomain ==
    ASSUME NEW h \in Hosts
    PROVE  /\ Len(h) - 1 \in Nat \ {0}
           /\ DOMAIN Candidates(h) = 1..Len(h) - 1
<1>1. h \in Seq(STRING) /\ Len(h) >= 2
    BY NamesAssumption DEF Names
<1>2. Len(h) \in Nat
    BY <1>1
<1>3. Len(h) - 1 \in Nat \ {0}
    <2>1. \A m \in Nat : m >= 2 => m - 1 \in Nat \ {0}
        OBVIOUS
    <2>2. QED
        BY <1>1, <1>2, <2>1, Zenon
<1>4. DOMAIN Candidates(h) = 1..Len(h) - 1
    BY Zenon DEF Candidates
<1>5. QED
    BY <1>3, <1>4

\* NoRow is a row.
LEMMA NoRowType == NoRow \in Rows
BY DEF NoRow, Rows

\* The end of a request keeps the types.
LEMMA AnswerType ==
    ASSUME TypeOK, NEW t \in Threads, Forget(t)
    PROVE  /\ pc' \in [Threads -> Pcs]
           /\ id' \in [Threads -> Nat]
           /\ dom' \in [Threads -> Domains]
           /\ host' \in [Threads -> Hosts]
           /\ idx' \in [Threads -> Nat]
           /\ \A u \in Threads : pc'[u] = "parent" => idx'[u] \in DOMAIN Candidates(host'[u])
BY DEF TypeOK, Forget, Pcs

\* At first there is no claim and no hostname.
LEMMA TypeInit == Init => TypeOK
BY NoRowType DEF Init, TypeOK, Pcs

\* Requests arrive well typed.
LEMMA TypeArrival ==
    ASSUME TypeOK, NEW t \in Threads, Arrival(t)
    PROVE  TypeOK'
<1>1. ASSUME NEW d \in Domains, BeginClaim(t, d) PROVE TypeOK'
    BY <1>1 DEF raceVars, TypeOK, BeginClaim, Goto, claimVars, Pcs
<1>2. ASSUME NEW d \in Domains, NEW n \in Secrets, BeginVerify(t, d, n) PROVE TypeOK'
    <2>1. n \in Nat
        BY DEF Secrets, TypeOK
    <2>2. QED
        BY <1>2, <2>1 DEF raceVars, TypeOK, BeginVerify, Goto, claimVars, Pcs
<1>3. ASSUME NEW h \in Hosts, NEW n \in Secrets, BeginCustom(t, h, n) PROVE TypeOK'
    <2>1. n \in Nat
        BY DEF Secrets, TypeOK
    <2>2. 1 \in DOMAIN Candidates(h)
        <3>1. \A m \in Nat \ {0} : 1 \in 1..m
            OBVIOUS
        <3>2. QED
            BY <3>1, CandidatesDomain
    <2>3. \A u \in Threads : pc'[u] = "parent" => idx'[u] \in DOMAIN Candidates(host'[u])
        BY <1>3, <2>2 DEF raceVars, TypeOK, BeginCustom, Goto
    <2>4. QED
        BY <1>3, <2>1, <2>3 DEF raceVars, TypeOK, BeginCustom, Goto, claimVars, Pcs
<1>4. QED
    BY <1>1, <1>2, <1>3 DEF Arrival

\* Every statement of a request keeps the types.
LEMMA TypeRequestStep ==
    ASSUME TypeOK, NEW t \in Threads, Step(t)
    PROVE  TypeOK'
<1>1. ASSUME Answer(t), UNCHANGED claimVars PROVE TypeOK'
    BY <1>1, AnswerType DEF Answer, TypeOK, claimVars
<1>2. ASSUME NEW p \in Pcs \ {"parent"}, Goto(t, p), UNCHANGED <<claimVars, threadVars>> PROVE TypeOK'
    BY <1>2 DEF raceVars, Goto, TypeOK, claimVars, threadVars
<1>3. CASE ClaimRead(t)
    BY <1>1, <1>2, <1>3 DEF ClaimRead, ClaimLookup, Pcs
<1>4. CASE ClaimCheck(t)
    BY <1>1, <1>2, <1>4 DEF ClaimCheck, ClaimLookup, Pcs
<1>5. CASE ClaimUpsert(t)
    <2>1. issued + 1 \in Nat /\ [id |-> issued + 1, verified |-> FALSE, old |-> FALSE] \in Rows
        BY DEF TypeOK, Rows
    <2>2. claim' \in [Domains -> Rows] /\ issued' \in Nat /\ overtaken' \subseteq Threads /\ midway' \subseteq Nat
        BY <1>5, <2>1 DEF TypeOK, ClaimUpsert, Issue
    <2>3. QED
        BY <1>5, <2>2, AnswerType DEF TypeOK, ClaimUpsert, Issue
<1>6. CASE Resolve(t)
    <2>1. proven' \in [Domains -> SUBSET Nat]
        BY <1>6 DEF TypeOK, Resolve
    <2>2. QED
        BY <1>6, <2>1 DEF raceVars, TypeOK, Resolve, Goto, threadVars, Pcs
<1>7. CASE ResolveMisses(t)
    BY <1>1, <1>7 DEF ResolveMisses
<1>8. CASE MarkRead(t)
    BY <1>1, <1>2, <1>8 DEF MarkRead, Pcs
<1>9. CASE Mark(t)
    <2>1. claim' \in [Domains -> Rows]
        BY <1>9 DEF TypeOK, Mark, Rows
    <2>2. overtaken' \subseteq Threads /\ midway' \subseteq Nat
        BY <1>9 DEF TypeOK, Mark
    <2>3. QED
        BY <1>9, <2>1, <2>2, AnswerType DEF TypeOK, Mark
<1>10. CASE CheckParent(t)
    <2>1. CASE Goto(t, "create") /\ UNCHANGED threadVars
        BY <1>2, <1>10, <2>1 DEF raceVars, CheckParent, Pcs
    <2>2. CASE Answer(t)
        BY <1>1, <1>10, <2>2 DEF raceVars, CheckParent
    <2>3. CASE /\ pc[t] = "parent"
               /\ idx[t] # Len(host[t]) - 1
               /\ idx' = [idx EXCEPT ![t] = @ + 1]
               /\ UNCHANGED <<claimVars, pc, dom, id, host, raceVars>>
        <3>1. host[t] \in Hosts /\ idx[t] \in 1..Len(host[t]) - 1
            BY <2>3, CandidatesDomain DEF TypeOK
        <3>2. idx[t] + 1 \in 1..Len(host[t]) - 1
            BY <2>3, <3>1, CandidatesDomain
        <3>3. \A u \in Threads : pc'[u] = "parent" => idx'[u] \in DOMAIN Candidates(host'[u])
            BY <2>3, <3>1, <3>2, CandidatesDomain DEF TypeOK
        <3>4. idx' \in [Threads -> Nat]
            BY <2>3 DEF TypeOK
        <3>5. QED
            BY <2>3, <3>3, <3>4 DEF raceVars, TypeOK, claimVars
    <2>4. QED
        BY <1>10, <2>1, <2>2, <2>3 DEF raceVars, CheckParent
<1>11. CASE CreateCustom(t)
    BY <1>11, AnswerType DEF TypeOK, CreateCustom, Answer
<1>12. CASE StoreRaises(t)
    BY <1>1, <1>12 DEF StoreRaises
<1>13. QED
    BY <1>3, <1>4, <1>5, <1>6, <1>7, <1>8, <1>9, <1>10, <1>11, <1>12 DEF Step

\* The owner, time, the cleanup and a restart keep the types.
LEMMA TypeEnvironment == TypeOK /\ Environment => TypeOK'
<1> SUFFICES ASSUME TypeOK, Environment PROVE TypeOK'
    OBVIOUS
<1>1. ASSUME SweepClaims PROVE claim' \in [Domains -> Rows]
    BY <1>1, NoRowType DEF TypeOK, SweepClaims
<1>2. ASSUME NEW d \in Domains, GrowOld(d) PROVE TypeOK'
    <2>1. claim' \in [Domains -> Rows]
        BY <1>2 DEF raceVars, TypeOK, GrowOld, Rows
    <2>2. QED
        BY <1>2, <2>1 DEF raceVars, TypeOK, GrowOld, threadVars
<1>3. ASSUME NEW d \in Domains, NEW n \in Secrets, PublishTxt(d, n) PROVE TypeOK'
    <2>1. n \in Nat
        BY DEF Secrets, TypeOK
    <2>2. txt' \in [Domains -> SUBSET Nat]
        BY <1>3, <2>1 DEF raceVars, TypeOK, PublishTxt
    <2>3. QED
        BY <1>3, <2>2 DEF raceVars, TypeOK, PublishTxt, threadVars
<1>4. CASE Cleanup
    BY <1>1, <1>4 DEF TypeOK, Cleanup, threadVars, raceVars
<1>5. CASE Restart
    BY <1>1, <1>5 DEF TypeOK, Restart, Pcs
<1>6. QED
    BY <1>2, <1>3, <1>4, <1>5 DEF Environment

\* The type invariant is inductive.
LEMMA TypeStep == TypeOK /\ [Next]_vars => TypeOK'
<1> SUFFICES ASSUME TypeOK, [Next]_vars PROVE TypeOK'
    OBVIOUS
<1>1. CASE UNCHANGED vars
    BY <1>1 DEF raceVars, TypeOK, vars, claimVars, threadVars
<1>2. CASE Next
    BY <1>2, TypeEnvironment, TypeArrival, TypeRequestStep DEF Next
<1>3. QED
    BY <1>1, <1>2

\* The claims, the hostnames and the locals of the threads keep their types;
\* the loop of best_verified_parent stays within its names.
THEOREM TypeCorrect == Spec => []TypeOK
BY TypeInit, TypeStep, PTL DEF Spec

-----------------------------------------------------------------------------
\* Nothing that was proven is forgotten.
LEMMA ProvenGrows ==
    ASSUME TypeOK, [Next]_vars
    PROVE  \A d \in Domains : proven[d] # {} => proven'[d] # {}
<1>1. CASE UNCHANGED proven
    BY <1>1
<1>2. ASSUME NEW t \in Threads, Resolve(t)
      PROVE  \A d \in Domains : proven[d] # {} => proven'[d] # {}
    BY <1>2 DEF TypeOK, Resolve
<1>3. ASSUME Environment PROVE UNCHANGED proven
    BY <1>3 DEF raceVars, Environment, GrowOld, PublishTxt, Cleanup, Restart
<1>4. ASSUME NEW t \in Threads, Arrival(t) PROVE UNCHANGED proven
    BY <1>4 DEF Arrival, BeginClaim, BeginVerify, BeginCustom, claimVars
<1>5. ASSUME NEW t \in Threads, Step(t), ~Resolve(t) PROVE UNCHANGED proven
    BY <1>5 DEF Step, ClaimRead, ClaimCheck, ClaimLookup, ClaimUpsert, ResolveMisses, MarkRead, Mark,
                CheckParent, CreateCustom, StoreRaises, claimVars
<1>6. QED
    BY <1>1, <1>2, <1>3, <1>4, <1>5 DEF raceVars, Next, vars, claimVars

\* So a hostname under a proven domain stays under one.
LEMMA StaysUnderProven ==
    ASSUME TypeOK, [Next]_vars, NEW h \in Hosts, UnderProvenDomain(h)
    PROVE  UnderProvenDomain(h)'
<1>1. PICK i \in DOMAIN Candidates(h) : Candidates(h)[i] \in Domains /\ proven[Candidates(h)[i]] # {}
    BY DEF UnderProvenDomain
<1>2. proven'[Candidates(h)[i]] # {}
    BY <1>1, ProvenGrows
<1>3. QED
    BY <1>1, <1>2 DEF UnderProvenDomain, Candidates

\* What a step must establish of the rows, the requests and the hostnames it
\* changes.
LEMMA GroundedIf ==
    ASSUME TypeOK, Grounded, [Next]_vars,
           \A d \in Domains : claim'[d].verified => claim[d].verified \/ proven'[d] # {},
           \A t \in Threads : pc'[t] \in {"mark_read", "mark"} =>
               \/ pc[t] \in {"mark_read", "mark"} /\ dom'[t] = dom[t]
               \/ proven'[dom'[t]] # {},
           \A t \in Threads : pc'[t] = "create" =>
               host'[t] = host[t] /\ (pc[t] = "create" \/ UnderProvenDomain(host[t])),
           \A h \in accounts' : h \in accounts \/ UnderProvenDomain(h)
    PROVE  Grounded'
<1>1. \A d \in Domains : claim'[d].verified => proven'[d] # {}
    BY ProvenGrows DEF Grounded
<1>2. ASSUME NEW t \in Threads, pc'[t] \in {"mark_read", "mark"} PROVE proven'[dom'[t]] # {}
    BY <1>2, ProvenGrows DEF Grounded, TypeOK
<1>3. ASSUME NEW t \in Threads, pc'[t] = "create" PROVE UnderProvenDomain(host[t])'
    <2>1. host'[t] = host[t] /\ UnderProvenDomain(host[t]) /\ host[t] \in Hosts
        BY <1>3 DEF Grounded, TypeOK
    <2>2. UnderProvenDomain(host[t])' <=> \E i \in DOMAIN Candidates(host[t]) :
              Candidates(host[t])[i] \in Domains /\ proven'[Candidates(host[t])[i]] # {}
        BY <2>1, Zenon DEF UnderProvenDomain
    <2>3. PICK i \in DOMAIN Candidates(host[t]) :
              Candidates(host[t])[i] \in Domains /\ proven[Candidates(host[t])[i]] # {}
        BY <2>1 DEF UnderProvenDomain
    <2>4. QED
        BY <2>2, <2>3, ProvenGrows
<1>4. ASSUME NEW h \in accounts' PROVE UnderProvenDomain(h)'
    <2>1. accounts' \subseteq Hosts
        BY TypeStep DEF TypeOK
    <2>2. UnderProvenDomain(h)
        BY <1>4 DEF Grounded, HostUnderProvenDomain
    <2>3. QED
        BY <1>4, <2>1, <2>2, StaysUnderProven
<1>5. QED
    BY <1>1, <1>2, <1>3, <1>4 DEF Grounded, HostUnderProvenDomain

\* At first there is nothing to ground.
LEMMA GroundedInit == Init => Grounded
BY DEF Init, Grounded, HostUnderProvenDomain, NoRow

\* Whoever writes, verifies or removes a row, Grounded survives it.
LEMMA GroundedStep == TypeOK /\ Grounded /\ [Next]_vars => Grounded'
<1> SUFFICES ASSUME TypeOK, Grounded, [Next]_vars PROVE Grounded'
    OBVIOUS
<1>1. CASE UNCHANGED vars
    BY <1>1, GroundedIf DEF raceVars, vars, claimVars, threadVars
<1>2. CASE Environment
    <2>1. ASSUME SweepClaims PROVE \A d \in Domains : claim'[d].verified => claim[d].verified
        BY <2>1 DEF SweepClaims, NoRow
    <2>2. CASE Cleanup \/ Restart
        BY <2>1, <2>2, GroundedIf DEF Cleanup, Restart, threadVars, TypeOK
    <2>3. ASSUME NEW d \in Domains, GrowOld(d) PROVE Grounded'
        <3>1. \A e \in Domains : claim'[e].verified = claim[e].verified
            BY <2>3 DEF raceVars, GrowOld, TypeOK, Rows
        <3>2. QED
            BY <2>3, <3>1, GroundedIf DEF raceVars, GrowOld, threadVars
    <2>4. ASSUME NEW d \in Domains, NEW n \in Secrets, PublishTxt(d, n) PROVE Grounded'
        BY <2>4, GroundedIf DEF raceVars, PublishTxt, threadVars
    <2>5. QED
        BY <1>2, <2>2, <2>3, <2>4 DEF Environment
<1>3. ASSUME NEW t \in Threads, Arrival(t) PROVE Grounded'
    BY <1>3, GroundedIf DEF raceVars, Arrival, BeginClaim, BeginVerify, BeginCustom, Goto, claimVars, TypeOK
<1>4. ASSUME NEW t \in Threads, Step(t) PROVE Grounded'
    <2>1. ASSUME Forget(t)
          PROVE  /\ \A u \in Threads : pc'[u] \in {"mark_read", "mark"} =>
                        pc[u] \in {"mark_read", "mark"} /\ dom'[u] = dom[u]
                 /\ \A u \in Threads : pc'[u] = "create" => pc[u] = "create" /\ host'[u] = host[u]
        BY <2>1 DEF Forget, TypeOK
    <2>2. ASSUME Answer(t), UNCHANGED claimVars PROVE Grounded'
        BY <2>1, <2>2, GroundedIf DEF Answer, claimVars
    <2>3. CASE ClaimRead(t) \/ ClaimCheck(t)
        <3>1. ASSUME NEW p \in {"check", "upsert"}, Goto(t, p), UNCHANGED threadVars, UNCHANGED claimVars
              PROVE  Grounded'
            BY <3>1, GroundedIf DEF raceVars, Goto, claimVars, threadVars, TypeOK
        <3>2. QED
            BY <2>2, <2>3, <3>1 DEF ClaimRead, ClaimCheck, ClaimLookup
    <2>4. CASE ClaimUpsert(t)
        <3>1. \A d \in Domains : claim'[d].verified => claim[d].verified
            BY <2>4 DEF ClaimUpsert, TypeOK
        <3>2. QED
            BY <2>1, <2>4, <3>1, GroundedIf DEF ClaimUpsert, Issue
    <2>5. CASE Resolve(t)
        <3>1. proven'[dom[t]] # {}
            BY <2>5 DEF Resolve, TxtContains, TypeOK
        <3>2. QED
            BY <2>5, <3>1, GroundedIf DEF raceVars, Resolve, Goto, threadVars, TypeOK
    <2>6. CASE ResolveMisses(t) \/ StoreRaises(t)
        BY <2>2, <2>6 DEF ResolveMisses, StoreRaises
    <2>7. CASE MarkRead(t)
        <3>1. ASSUME pc[t] = "mark_read", Goto(t, "mark"), UNCHANGED threadVars, UNCHANGED claimVars
              PROVE  Grounded'
            BY <3>1, GroundedIf DEF raceVars, Goto, claimVars, threadVars, TypeOK
        <3>2. QED
            BY <2>2, <2>7, <3>1 DEF MarkRead
    <2>8. CASE Mark(t)
        <3>1. proven[dom[t]] # {}
            BY <2>8 DEF Mark, Grounded
        <3>2. \A d \in Domains : d # dom[t] => claim'[d] = claim[d]
            BY <2>8 DEF Mark, TypeOK
        <3>3. \A d \in Domains : claim'[d].verified => claim[d].verified \/ proven'[d] # {}
            BY <2>8, <3>1, <3>2 DEF Mark
        <3>4. QED
            BY <2>1, <2>8, <3>3, GroundedIf DEF Mark
    <2>9. CASE CheckParent(t)
        <3>1. CASE Goto(t, "create") /\ UNCHANGED threadVars
            <4> DEFINE d == Candidates(host[t])[idx[t]]
            <4>1. CASE d \in Domains /\ IsDomainVerified(d, id[t])
                <5>1. idx[t] \in DOMAIN Candidates(host[t])
                    BY <2>9 DEF raceVars, CheckParent, TypeOK
                <5>2. proven[d] # {}
                    BY <4>1 DEF IsDomainVerified, Grounded
                <5>3. UnderProvenDomain(host[t])
                    BY <4>1, <5>1, <5>2 DEF UnderProvenDomain
                <5>4. QED
                    BY <2>9, <3>1, <5>3, GroundedIf DEF raceVars, CheckParent, Goto, claimVars, threadVars, TypeOK
            <4>2. CASE ~(d \in Domains /\ IsDomainVerified(d, id[t]))
                <5>1. UNCHANGED pc \/ Answer(t)
                    BY <2>9, <4>2 DEF raceVars, CheckParent
                <5>2. QED
                    BY <2>2, <2>9, <3>1, <5>1, GroundedIf DEF raceVars, CheckParent, claimVars, threadVars
            <4>3. QED
                BY <4>1, <4>2
        <3>2. CASE Answer(t)
            BY <2>2, <2>9, <3>2 DEF raceVars, CheckParent
        <3>3. CASE UNCHANGED <<pc, dom, id, host, raceVars>>
            BY <2>9, <3>3, GroundedIf DEF raceVars, CheckParent, claimVars
        <3>4. QED
            BY <2>9, <3>1, <3>2, <3>3 DEF raceVars, CheckParent
    <2>10. CASE CreateCustom(t)
        <3>1. UnderProvenDomain(host[t])
            BY <2>10 DEF CreateCustom, Grounded
        <3>2. \A h \in accounts' : h \in accounts \/ UnderProvenDomain(h)
            BY <2>10, <3>1 DEF CreateCustom
        <3>3. QED
            BY <2>1, <2>10, <3>2, GroundedIf DEF CreateCustom, Answer
    <2>11. QED
        BY <1>4, <2>3, <2>4, <2>5, <2>6, <2>7, <2>8, <2>9, <2>10 DEF Step
<1>5. QED
    BY <1>1, <1>2, <1>3, <1>4 DEF Next

\* A custom hostname exists only under a domain that a TXT lookup has proved,
\* whatever claims are replaced, verified or cleaned up around it.
THEOREM HostsUnderProvenDomains == Spec => []HostUnderProvenDomain
<1>1. TypeOK /\ Grounded /\ [Next]_vars => (TypeOK /\ Grounded)'
    BY TypeStep, GroundedStep
<1>2. Grounded => HostUnderProvenDomain
    BY DEF Grounded
<1>3. QED
    BY TypeInit, GroundedInit, <1>1, <1>2, PTL DEF Spec

-----------------------------------------------------------------------------
\* A thread that is about to write over a verified row has been overtaken.
Overtaken ==
    \A t \in Threads : pc[t] = "upsert" /\ claim[dom[t]].verified => t \in overtaken

\* The end of a request leaves the other threads as they were.
LEMMA OvertakenAnswer ==
    ASSUME TypeOK, Overtaken, NEW t \in Threads, Forget(t), overtaken' = overtaken \ {t},
           \A d \in Domains : claim'[d].verified => claim[d].verified
    PROVE  Overtaken'
BY DEF Forget, Overtaken, TypeOK

\* A thread that moves on to anything but its write is none of them.
LEMMA OvertakenGoto ==
    ASSUME TypeOK, Overtaken, UNCHANGED claim, NEW t \in Threads, NEW p \in Pcs, Goto(t, p),
           \A u \in Threads \ {t} : dom'[u] = dom[u],
           p = "upsert" => ~claim'[dom'[t]].verified
    PROVE  Overtaken'
BY DEF raceVars, Goto, Overtaken, TypeOK

\* At first there is no verified row.
LEMMA OvertakenInit == Init => Overtaken
BY DEF Init, Overtaken

\* A claim request passes its checks only while the row is not verified, and a
\* verification that comes later overtakes it.
LEMMA OvertakenStep == TypeOK /\ Overtaken /\ [Next]_vars => Overtaken'
<1> SUFFICES ASSUME TypeOK, Overtaken, [Next]_vars PROVE Overtaken'
    OBVIOUS
<1>1. CASE UNCHANGED vars
    BY <1>1 DEF raceVars, vars, claimVars, threadVars, Overtaken
<1>2. CASE Environment
    <2>1. ASSUME SweepClaims PROVE \A d \in Domains : claim'[d].verified => claim[d].verified
        BY <2>1 DEF SweepClaims, NoRow
    <2>2. CASE Cleanup
        BY <2>1, <2>2 DEF Cleanup, threadVars, raceVars, Overtaken, TypeOK
    <2>3. CASE Restart
        BY <2>3 DEF Restart, Overtaken, TypeOK
    <2>4. ASSUME NEW d \in Domains, GrowOld(d) PROVE Overtaken'
        <3>1. \A e \in Domains : claim'[e].verified = claim[e].verified
            BY <2>4 DEF raceVars, GrowOld, TypeOK, Rows
        <3>2. QED
            BY <2>4, <3>1 DEF raceVars, GrowOld, threadVars, Overtaken, TypeOK
    <2>5. ASSUME NEW d \in Domains, NEW n \in Secrets, PublishTxt(d, n) PROVE Overtaken'
        BY <2>5 DEF raceVars, PublishTxt, threadVars, Overtaken
    <2>6. QED
        BY <1>2, <2>2, <2>3, <2>4, <2>5 DEF Environment
<1>3. ASSUME NEW t \in Threads, Arrival(t) PROVE Overtaken'
    BY <1>3, OvertakenGoto DEF Arrival, BeginClaim, BeginVerify, BeginCustom, claimVars, TypeOK, Pcs
<1>4. ASSUME NEW t \in Threads, Step(t) PROVE Overtaken'
    <2>1. ASSUME Answer(t), UNCHANGED claim PROVE Overtaken'
        BY <2>1, OvertakenAnswer DEF Answer
    <2>2. ASSUME NEW p \in Pcs, Goto(t, p), UNCHANGED <<claim, dom>>,
                 p = "upsert" => ~claim[dom[t]].verified
          PROVE  Overtaken'
        BY <2>2, OvertakenGoto
    <2>3. CASE ClaimRead(t) \/ ClaimCheck(t)
        BY <2>1, <2>2, <2>3 DEF ClaimRead, ClaimCheck, ClaimLookup, claimVars, threadVars, Pcs
    <2>4. CASE ClaimUpsert(t)
        <3>1. \A d \in Domains : claim'[d].verified => claim[d].verified
            BY <2>4 DEF ClaimUpsert, TypeOK
        <3>2. QED
            BY <2>4, <3>1, OvertakenAnswer DEF ClaimUpsert, Issue
    <2>5. CASE Mark(t)
        <3>1. \A d \in Domains : d # dom[t] => claim'[d] = claim[d]
            BY <2>5 DEF Mark, TypeOK
        <3>2. QED
            BY <2>5, <3>1 DEF Mark, Forget, Overtaken, TypeOK
    <2>6. CASE Resolve(t) \/ MarkRead(t)
        BY <2>1, <2>2, <2>6 DEF Resolve, MarkRead, claimVars, threadVars, Pcs
    <2>7. CASE CheckParent(t)
        <3>1. CASE UNCHANGED <<pc, dom, id, host, raceVars>>
            BY <2>7, <3>1 DEF raceVars, CheckParent, claimVars, Overtaken
        <3>2. QED
            BY <2>1, <2>2, <2>7, <3>1 DEF raceVars, CheckParent, claimVars, threadVars, Pcs
    <2>8. CASE ResolveMisses(t) \/ StoreRaises(t) \/ CreateCustom(t)
        BY <2>1, <2>8 DEF ResolveMisses, StoreRaises, CreateCustom, claimVars
    <2>9. QED
        BY <1>4, <2>3, <2>4, <2>5, <2>6, <2>7, <2>8 DEF Step
<1>5. QED
    BY <1>1, <1>2, <1>3, <1>4 DEF Next

\* One step of VerifiedIsKept.
Kept(d) ==
    claim[d].verified =>
        \/ claim'[d].verified /\ claim'[d].id = claim[d].id
        \/ \E t \in overtaken : ClaimUpsert(t) /\ dom[t] = d

\* Only the write of a claim request, the cleanup and a restart can take a
\* verified row away; the last two spare it.
LEMMA KeptStep ==
    ASSUME TypeOK, Overtaken, Next, NEW d \in Domains
    PROVE  Kept(d)
<1>1. CASE Environment
    <2>1. CASE Cleanup \/ Restart
        BY <2>1 DEF Cleanup, Restart, SweepClaims, Abandoned, Kept
    <2>2. CASE UNCHANGED claim
        BY <2>2 DEF Kept
    <2>3. ASSUME NEW e \in Domains, GrowOld(e) PROVE Kept(d)
        BY <2>3 DEF raceVars, GrowOld, Kept, TypeOK, Rows
    <2>4. QED
        BY <1>1, <2>1, <2>2, <2>3 DEF raceVars, Environment, PublishTxt
<1>2. ASSUME NEW t \in Threads, ClaimUpsert(t) PROVE Kept(d)
    <2>1. CASE dom[t] = d
        BY <1>2, <2>1 DEF ClaimUpsert, Overtaken, Kept
    <2>2. CASE dom[t] # d
        BY <1>2, <2>2 DEF ClaimUpsert, Kept, TypeOK
    <2>3. QED
        BY <2>1, <2>2
<1>3. ASSUME NEW t \in Threads, Mark(t) PROVE Kept(d)
    BY <1>3 DEF Mark, Kept, TypeOK, Rows
<1>4. ASSUME UNCHANGED claim PROVE Kept(d)
    BY <1>4 DEF Kept
<1>5. ASSUME NEW t \in Threads, Arrival(t) PROVE Kept(d)
    BY <1>4, <1>5 DEF Arrival, BeginClaim, BeginVerify, BeginCustom, claimVars
<1>6. ASSUME NEW t \in Threads, Step(t), ~ClaimUpsert(t), ~Mark(t) PROVE Kept(d)
    BY <1>4, <1>6 DEF Step, ClaimRead, ClaimCheck, ClaimLookup, Resolve, ResolveMisses, MarkRead,
                      CheckParent, CreateCustom, StoreRaises, claimVars
<1>7. QED
    BY <1>1, <1>2, <1>3, <1>5, <1>6 DEF Next

\* A verified claim keeps its row and its claim secret, except from a claim
\* request that a verification has overtaken between its check and its write.
THEOREM VerifiedClaimsAreKept == Spec => VerifiedIsKept
<1>1. TypeOK /\ Overtaken /\ [Next]_vars => (TypeOK /\ Overtaken)'
    BY TypeStep, OvertakenStep
<1>2. TypeOK /\ Overtaken /\ [Next]_vars => [\A d \in Domains : Kept(d)]_vars
    BY KeptStep
<1>3. Spec => [][\A d \in Domains : Kept(d)]_vars
    BY TypeInit, OvertakenInit, <1>1, <1>2, PTL DEF Spec
<1>4. QED
    BY <1>3 DEF VerifiedIsKept, Kept

-----------------------------------------------------------------------------
\* What a step does to a row: it stays, perhaps marked by a verification that
\* is about to mark it; it goes; or the next claim of all takes its place, which is
\* noted if the domain is being verified.
RowStep(d) ==
    \/ claim'[d] = NoRow
    \/ /\ claim[d] # NoRow /\ claim'[d].id = claim[d].id
       /\ claim'[d].verified =>
             claim[d].verified \/ \E t \in Threads : pc[t] = "mark" /\ dom[t] = d
    \/ /\ claim'[d].id = issued' /\ issued' = issued + 1 /\ ~claim'[d].verified
       /\ UnderWay(d) => claim'[d].id \in midway'

\* What a step does to a verification: it begins with the claim there is, or
\* goes on with its own, whose token has been found when it marks.
VerificationStep(t) ==
    Verifying(t)' =>
        \/ pc'[t] = "resolve" /\ id'[t] <= issued' /\ id'[t] = claim'[dom'[t]].id
        \/ /\ Verifying(t) /\ dom'[t] = dom[t] /\ id'[t] = id[t]
           /\ pc'[t] # "resolve" => pc[t] # "resolve" \/ id[t] \in proven'[dom[t]]

\* Steps of these kinds keep the claims in turn.
LEMMA InTurnIf ==
    ASSUME TypeOK, TypeOK', InTurn, issued' \in {issued, issued + 1}, midway \subseteq midway',
           \A d \in Domains : RowStep(d) /\ proven[d] \subseteq proven'[d],
           \A t \in Threads : VerificationStep(t)
    PROVE  InTurn'
<1>1. /\ \A d \in Domains : claim[d].id \in Nat /\ claim'[d].id \in Nat
      /\ \A t \in Threads : id[t] \in Nat /\ dom[t] \in Domains /\ dom'[t] \in Domains
      /\ issued \in Nat /\ issued' \in Nat /\ issued <= issued'
      /\ \A d \in Domains : proven[d] \subseteq Nat /\ proven'[d] \subseteq Nat
    BY DEF TypeOK, Rows
<1>2. ASSUME NEW d \in Domains PROVE claim'[d].id <= issued'
    BY <1>1 DEF RowStep, InTurn, NoRow
<1>3. ASSUME NEW t \in Threads, Verifying(t)'
      PROVE  /\ id'[t] <= issued'
             /\ \/ claim'[dom'[t]] = NoRow
                \/ id'[t] <= claim'[dom'[t]].id /\ claim'[dom'[t]].id \in {id'[t]} \cup midway'
             /\ pc'[t] # "resolve" => id'[t] \in proven'[dom'[t]]
  <2>1. CASE pc'[t] = "resolve" /\ id'[t] <= issued' /\ id'[t] = claim'[dom'[t]].id
      BY <1>1, <2>1
  <2>2. CASE /\ Verifying(t) /\ dom'[t] = dom[t] /\ id'[t] = id[t]
             /\ pc'[t] # "resolve" => pc[t] # "resolve" \/ id[t] \in proven'[dom[t]]
    <3> DEFINE d == dom[t]
    <3>1. /\ id[t] <= issued
          /\ \/ claim[d] = NoRow
             \/ id[t] <= claim[d].id /\ claim[d].id \in {id[t]} \cup midway
          /\ pc[t] # "resolve" => id[t] \in proven[d]
        BY <2>2 DEF InTurn
    <3>2. UnderWay(d)
        BY <2>2 DEF UnderWay
    <3>3. \/ claim'[d] = NoRow
          \/ id[t] <= claim'[d].id /\ claim'[d].id \in {id[t]} \cup midway'
        BY <1>1, <3>1, <3>2 DEF RowStep
    <3> QED
        BY <1>1, <2>2, <3>1, <3>3
  <2> QED
      BY <1>3, <2>1, <2>2 DEF VerificationStep
<1>4. ASSUME NEW d \in Domains, claim'[d].verified
      PROVE  /\ \E n \in proven'[d] : n <= claim'[d].id
             /\ claim'[d].id \in proven'[d] \cup midway'
  <2>1. /\ claim[d] # NoRow /\ claim'[d].id = claim[d].id
        /\ claim[d].verified \/ \E t \in Threads : pc[t] = "mark" /\ dom[t] = d
      BY <1>4 DEF RowStep, NoRow
  <2>2. CASE claim[d].verified
      BY <1>1, <2>1, <2>2 DEF InTurn, NoEarlierClaimVerified, VerifiedInItsTime
  <2>3. ASSUME NEW t \in Threads, pc[t] = "mark", dom[t] = d
        PROVE  /\ \E n \in proven'[d] : n <= claim'[d].id
               /\ claim'[d].id \in proven'[d] \cup midway'
    <3>1. id[t] \in proven[d] /\ id[t] <= claim[d].id /\ claim[d].id \in {id[t]} \cup midway
        BY <2>1, <2>3 DEF InTurn, Verifying
    <3> QED
        BY <2>1, <3>1
  <2> QED
      BY <2>1, <2>2, <2>3
<1> QED
    BY <1>2, <1>3, <1>4 DEF InTurn, NoEarlierClaimVerified, VerifiedInItsTime

\* At first there is no claim and no verification.
LEMMA InTurnInit == Init => InTurn
BY DEF Init, InTurn, NoEarlierClaimVerified, VerifiedInItsTime, Verifying, NoRow

\* Claims are replaced by later ones only, so verifications stay in turn.
LEMMA InTurnStep == TypeOK /\ InTurn /\ [Next]_vars => InTurn'
<1> SUFFICES ASSUME TypeOK, InTurn, [Next]_vars PROVE InTurn'
    OBVIOUS
<1>0. TypeOK' /\ issued \in Nat
    BY TypeStep DEF TypeOK
<1>1. ASSUME claim' = claim, issued' = issued, midway' = midway,
             \A d \in Domains : proven[d] \subseteq proven'[d],
             \A t \in Threads : VerificationStep(t)
      PROVE  InTurn'
    BY <1>0, <1>1, InTurnIf DEF RowStep
<1>2. ASSUME NEW t \in Threads, Forget(t) PROVE \A u \in Threads : VerificationStep(u)
    BY <1>2 DEF Forget, VerificationStep, Verifying, TypeOK
<1>3. ASSUME NEW t \in Threads, NEW p \in Pcs \ {"resolve", "mark_read", "mark"}, Goto(t, p),
             \A u \in Threads \ {t} : dom'[u] = dom[u] /\ id'[u] = id[u]
      PROVE  \A u \in Threads : VerificationStep(u)
    BY <1>3 DEF Goto, VerificationStep, Verifying, TypeOK
<1>4. ASSUME UNCHANGED <<pc, dom, id>> PROVE \A u \in Threads : VerificationStep(u)
    BY <1>4 DEF VerificationStep, Verifying
<1>5. CASE UNCHANGED vars
    BY <1>1, <1>4, <1>5 DEF vars, claimVars, threadVars, raceVars
<1>6. CASE Environment
  <2>1. ASSUME SweepClaims PROVE \A d \in Domains : RowStep(d)
      BY <2>1 DEF SweepClaims, RowStep
  <2>2. CASE Cleanup
      BY <1>0, <1>4, <2>1, <2>2, InTurnIf DEF Cleanup, threadVars, raceVars
  <2>3. CASE Restart
    <3>1. \A u \in Threads : VerificationStep(u)
        BY <2>3 DEF Restart, VerificationStep, Verifying
    <3> QED
        BY <1>0, <2>1, <2>3, <3>1, InTurnIf DEF Restart
  <2>4. ASSUME NEW d \in Domains, GrowOld(d) PROVE InTurn'
    <3>1. \A e \in Domains : RowStep(e)
        BY <2>4 DEF GrowOld, RowStep, TypeOK, Rows
    <3> QED
        BY <1>0, <1>4, <2>4, <3>1, InTurnIf DEF GrowOld, threadVars, raceVars
  <2>5. ASSUME NEW d \in Domains, NEW n \in Secrets, PublishTxt(d, n) PROVE InTurn'
      BY <1>1, <1>4, <2>5 DEF PublishTxt, threadVars, raceVars
  <2> QED
      BY <1>6, <2>2, <2>3, <2>4, <2>5 DEF Environment
<1>7. ASSUME NEW t \in Threads, Arrival(t) PROVE InTurn'
  <2>1. ASSUME NEW d \in Domains, BeginClaim(t, d) PROVE InTurn'
      BY <1>1, <1>3, <2>1 DEF BeginClaim, Goto, claimVars, raceVars, Pcs, TypeOK
  <2>2. ASSUME NEW d \in Domains, NEW n \in Secrets, BeginVerify(t, d, n) PROVE InTurn'
    <3>1. VerificationStep(t)
      <4>1. claim[d].id = n /\ dom'[t] = d /\ id'[t] = n /\ claim' = claim /\ issued' = issued
          BY <2>2 DEF BeginVerify, Answers, claimVars, TypeOK
      <4>2. n <= issued /\ n <= claim[d].id
          BY <4>1 DEF Secrets, TypeOK
      <4>3. pc'[t] = "resolve"
          BY <2>2 DEF BeginVerify, Goto, TypeOK
      <4> QED
          BY <4>1, <4>2, <4>3 DEF VerificationStep, Verifying
    <3>2. \A u \in Threads \ {t} : VerificationStep(u)
        BY <2>2 DEF BeginVerify, Goto, VerificationStep, Verifying, TypeOK
    <3> QED
        BY <1>1, <2>2, <3>1, <3>2 DEF BeginVerify, Goto, claimVars, raceVars
  <2>3. ASSUME NEW h \in Hosts, NEW n \in Secrets, BeginCustom(t, h, n) PROVE InTurn'
      BY <1>1, <1>3, <2>3 DEF BeginCustom, Goto, claimVars, raceVars, Pcs, TypeOK
  <2> QED
      BY <1>7, <2>1, <2>2, <2>3 DEF Arrival
<1>8. ASSUME NEW t \in Threads, Step(t) PROVE InTurn'
  <2>1. ASSUME Answer(t), UNCHANGED claimVars PROVE InTurn'
      BY <1>1, <1>2, <2>1 DEF Answer, claimVars
  <2>2. CASE ClaimRead(t) \/ ClaimCheck(t)
      BY <1>1, <1>3, <2>1, <2>2
      DEF ClaimRead, ClaimCheck, ClaimLookup, Goto, claimVars, threadVars, raceVars, Pcs
  <2>3. CASE ClaimUpsert(t)
    <3>1. \A d \in Domains : RowStep(d)
        BY <1>0, <2>3 DEF ClaimUpsert, Issue, RowStep, TypeOK
    <3> QED
        BY <1>0, <1>2, <2>3, <3>1, InTurnIf DEF ClaimUpsert, Issue
  <2>4. CASE Resolve(t)
    <3>1. \A d \in Domains : proven[d] \subseteq proven'[d]
        BY <2>4 DEF Resolve, TypeOK
    <3>2. id[t] \in proven'[dom[t]]
        BY <2>4 DEF Resolve, TxtContains, TypeOK
    <3>3. \A u \in Threads : VerificationStep(u)
        BY <2>4, <3>2 DEF Resolve, Goto, VerificationStep, Verifying, threadVars, TypeOK
    <3> QED
        BY <1>1, <2>4, <3>1, <3>3 DEF Resolve, Goto, raceVars
  <2>5. CASE MarkRead(t)
    <3>1. CASE claim[dom[t]] = NoRow
        BY <2>1, <2>5, <3>1 DEF MarkRead
    <3>2. CASE claim[dom[t]] # NoRow
      <4>1. \A u \in Threads : VerificationStep(u)
          BY <2>5, <3>2 DEF MarkRead, Goto, VerificationStep, Verifying, threadVars, TypeOK
      <4> QED
          BY <1>1, <2>5, <3>2, <4>1 DEF MarkRead, Goto, claimVars, raceVars
    <3> QED
        BY <3>1, <3>2
  <2>6. CASE Mark(t)
    <3>1. \A d \in Domains : RowStep(d)
        BY <2>6 DEF Mark, RowStep, TypeOK, Rows
    <3> QED
        BY <1>0, <1>2, <2>6, <3>1, InTurnIf DEF Mark
  <2>7. CASE CheckParent(t)
    <3>1. CASE UNCHANGED <<pc, dom, id, host, raceVars>>
        BY <1>1, <1>4, <2>7, <3>1 DEF CheckParent, claimVars, raceVars
    <3>2. CASE Goto(t, "create") /\ UNCHANGED threadVars
        BY <1>1, <1>3, <2>7, <3>2 DEF CheckParent, Goto, claimVars, threadVars, raceVars, Pcs
    <3> QED
        BY <2>1, <2>7, <3>1, <3>2 DEF CheckParent
  <2>8. CASE CreateCustom(t)
      BY <1>1, <1>2, <2>8 DEF CreateCustom, Answer
  <2>9. CASE ResolveMisses(t) \/ StoreRaises(t)
      BY <2>1, <2>9 DEF ResolveMisses, StoreRaises
  <2> QED
      BY <1>8, <2>2, <2>3, <2>4, <2>5, <2>6, <2>7, <2>8, <2>9 DEF Step
<1> QED
    BY <1>5, <1>6, <1>7, <1>8 DEF Next

\* A verification never marks a claim older than the one whose token it found.
THEOREM VerificationsKeepTurns == Spec => []NoEarlierClaimVerified
<1>1. TypeOK /\ InTurn /\ [Next]_vars => (TypeOK /\ InTurn)'
    BY TypeStep, InTurnStep
<1>2. InTurn => NoEarlierClaimVerified
    BY DEF InTurn
<1> QED
    BY TypeInit, InTurnInit, <1>1, <1>2, PTL DEF Spec

\* And it marks a later one only if that was issued while it was under way.
THEOREM VerificationsKeepTime == Spec => []VerifiedInItsTime
<1>1. TypeOK /\ InTurn /\ [Next]_vars => (TypeOK /\ InTurn)'
    BY TypeStep, InTurnStep
<1>2. InTurn => VerifiedInItsTime
    BY DEF InTurn
<1> QED
    BY TypeInit, InTurnInit, <1>1, <1>2, PTL DEF Spec
=============================================================================
