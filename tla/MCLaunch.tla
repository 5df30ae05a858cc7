------------------------------- MODULE MCLaunch -------------------------------
(***************************************************************************)
(* Symmetry of the run of Launch: hostnames are alike.                     *)
(***************************************************************************)
EXTENDS Launch, TLC

HostSymmetry == Permutations(Hosts)
===============================================================================
