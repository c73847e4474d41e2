----------------------------- MODULE SyncCallMC -----------------------------
(* SyncCall on small instances. *)
EXTENDS SyncCall

CONSTANTS c1, c2, c3
=============================================================================
