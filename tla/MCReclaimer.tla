----------------------------- MODULE MCReclaimer -----------------------------
(* Instances of Reclaimer for TLC. *)
EXTENDS Reclaimer, TLC
CONSTANTS worker, client
=============================================================================
