----------------------------- MODULE MCRateLimit -----------------------------
(***************************************************************************)
(* Values for the model-checking runs of RateLimit: a public and an admin  *)
(* key, a clock of this decade that moves by minutes.                 *)
(***************************************************************************)
EXTENDS RateLimit, TLC

CONSTANTS site, admin

KeyLimits == [k \in Keys |-> IF k = admin THEN 1 ELSE 2]

\* 1700000040 is the first second of a minute.
ClockStart   == 1700000040
ClockHorizon == 1700000040 + 180

ThreadSymmetry == Permutations(Threads)
=============================================================================
