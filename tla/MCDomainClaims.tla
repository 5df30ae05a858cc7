---------------------------- MODULE MCDomainClaims ----------------------------
(***************************************************************************)
(* Names for the model-checking runs of DomainClaims: a domain, a          *)
(* subdomain of it that can be claimed by itself, and hostnames under both.*)
(***************************************************************************)
EXTENDS DomainClaims, TLC

Apex == <<"example", "org">>
Lab  == <<"lab", "example", "org">>
Home == <<"home", "example", "org">>
Nas  == <<"nas", "lab", "example", "org">>

OneDomain  == {Apex}
TwoDomains == {Apex, Lab}
OneHost    == {Home}
TwoHosts   == {Home, Nas}
ApexZone   == {Apex}

ThreadSymmetry == Permutations(Threads)
=============================================================================
