---------------------------- MODULE MCCredentials ----------------------------
(***************************************************************************)
(* Names for the model-checking run of Credentials.                        *)
(***************************************************************************)
EXTENDS Credentials, TLC

ThreadSymmetry == Permutations(Threads)
=============================================================================
