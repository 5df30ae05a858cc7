------------------------------ MODULE MCGateway ------------------------------
(***************************************************************************)
(* Values for the run of Gateway: a client that connects by itself or      *)
(* through a proxy, an update URL with two slugs, a route of the admin and  *)
(* one that is not counted; a clock of this decade.                        *)
(***************************************************************************)
EXTENDS Gateway, TLC

SomeRoutes == {"/u/", "/records", "/healthz"}

GatewayKeys   == Addresses \X Buckets
GatewayLimits == [k \in GatewayKeys |-> LimitOf(k[2][1])]

\* 1700000040 is the first second of a minute.
ClockStart   == 1700000040
ClockHorizon == 1700000040 + 180

ThreadSymmetry == Permutations(Threads)
=============================================================================
