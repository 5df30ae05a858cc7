------------------------------ MODULE MCServing ------------------------------
(***************************************************************************)
(* The kinds of requests of the runs of Serving: an update, and the delete *)
(* of the admin page that blocks the event loop after its two jobs.        *)
(***************************************************************************)
EXTENDS Serving

SomeKinds == {"nic", "admin"}
=============================================================================
