----------------------------- MODULE HostPromise -----------------------------
(***************************************************************************)
(* What the service promises about its hostnames, without its threads,     *)
(* locks, transactions and backend calls.                                  *)
(*                                                                         *)
(* A hostname has a row that the service answers from and records that the *)
(* DNS serves.  One update of it is busy at a time; it publishes addresses *)
(* it was asked for, of families it was asked about, stores what it        *)
(* published, and answers when the two agree.  A failure or a delete may   *)
(* disturb a family; a family that is disturbed is doubtful, and is        *)
(* promised nothing until it is next published.                            *)
(***************************************************************************)
CONSTANTS
    Hosts,      \* the hostnames
    Families,   \* A and AAAA
    Value,      \* an address, or none
    Omitted     \* a family an update does not name

VARIABLES
    row,        \* per hostname and family: the stored address
    served,     \* per hostname and family: the published address
    doubtful,   \* per hostname: the disturbed families
    busy,       \* per hostname: an update of it is in progress
    asked,      \* per hostname: what that update asks for
    trouble     \* per hostname: a delete is in progress, or a call has failed

promised == <<row, served, doubtful, busy, asked>>

Request == [Families -> Value \cup {Omitted}]
Nothing == [f \in Families |-> Omitted]
Named(req) == {f \in Families : req[f] # Omitted}

Same(h, v) == v'[h] = v[h]

Init ==
    /\ \A h \in Hosts : row[h] = served[h] /\ doubtful[h] = {} /\ ~busy[h] /\ asked[h] = Nothing

-----------------------------------------------------------------------------
\* The next update of h has its turn.
Begin(h) ==
    /\ ~busy[h] /\ busy'[h]
    /\ asked'[h] \in Request
    /\ Same(h, row) /\ Same(h, served) /\ Same(h, doubtful)

\* It publishes families it names, with the addresses it asks for.
Publish(h) ==
    /\ busy[h] /\ Same(h, busy) /\ Same(h, asked)
    /\ \E F \in SUBSET Named(asked[h]) :
          /\ served'[h] = [f \in Families |-> IF f \in F THEN asked[h][f] ELSE served[h][f]]
          /\ doubtful'[h] = doubtful[h] \ F
    /\ Same(h, row)

\* It stores what is served.
Store(h) ==
    /\ busy[h] /\ Same(h, busy) /\ Same(h, asked)
    /\ \A f \in Families \ doubtful[h] : row'[h][f] = served[h][f]
    /\ Same(h, served) /\ Same(h, doubtful)

\* Row and records agree outside the families fs.
Agree(h, fs) == \A f \in Families \ fs : served[h][f] = row[h][f]

\* It answers that the addresses it asked for are in place, and they are.
Answer(h) ==
    /\ busy[h] /\ ~busy'[h] /\ asked'[h] = Nothing
    /\ Agree(h, doubtful[h])
    /\ \A f \in Named(asked[h]) \ doubtful[h] : served[h][f] = asked[h][f]
    /\ Same(h, row) /\ Same(h, served) /\ Same(h, doubtful)

\* Only failures, deletes and what they have left behind disturb a hostname.
Troubled(h) == trouble[h] \/ trouble'[h] \/ doubtful[h] # {}

\* It is given up: what it has published without storing is doubtful.
GiveUp(h) ==
    /\ busy[h] /\ ~busy'[h] /\ asked'[h] = Nothing
    /\ Troubled(h)
    /\ doubtful[h] \subseteq doubtful'[h]
    /\ Agree(h, doubtful'[h])
    /\ Same(h, row) /\ Same(h, served)

\* Families that are doubtful from now on change in any way, the others stay.
Disturb(h) ==
    /\ Same(h, busy) /\ Same(h, asked)
    /\ Troubled(h)
    /\ doubtful[h] \subseteq doubtful'[h]
    /\ \A f \in Families \ doubtful'[h] : served'[h][f] = served[h][f] /\ row'[h][f] = row[h][f]

Rest(h) == Same(h, row) /\ Same(h, served) /\ Same(h, doubtful) /\ Same(h, busy) /\ Same(h, asked)

Step(h) ==
    Begin(h) \/ Publish(h) \/ Store(h) \/ Answer(h) \/ GiveUp(h) \/ Disturb(h) \/ Rest(h)

\* One step of the service may be about several hostnames: it may crash.
Next == \A h \in Hosts : Step(h)

Spec == Init /\ [][Next]_promised
=============================================================================
