------------------------------ MODULE MCShutdown ------------------------------
(* Instances of Shutdown for TLC. *)
EXTENDS Shutdown, TLC
CONSTANT c1
Both     == {<<6, 0>>, <<3, 2>>}
NoClient == {<<3, 0>>}
=============================================================================
