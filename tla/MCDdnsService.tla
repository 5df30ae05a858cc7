---------------------------- MODULE MCDdnsService ----------------------------
(***************************************************************************)
(* The requests and the symmetry of the model-checking runs of DdnsService.*)
(***************************************************************************)
EXTENDS DdnsService, TLC

CONSTANTS a1, a2   \* two addresses

Req(v4, v6) == [f \in Families |-> IF f = "A" THEN v4 ELSE v6]

\* Both families; one family only; an address withdrawn (an unparsable value).
AllRequests == {Req(a1, a1), Req(a2, Omitted), Req(None, a2), Req(Omitted, Omitted)}

\* The requests of the runs that need two addresses of one family.
FlipRequests == {Req(a1, Omitted), Req(a2, Omitted)}

\* A router that always reports the same two addresses.
SteadyRequests == {Req(a1, a1)}

\* Both families, a family left alone, a family withdrawn.
MixedRequests == {Req(a1, a1), Req(a2, Omitted), Req(Omitted, None)}

ThreadSymmetry == Permutations(Updaters)
=============================================================================
