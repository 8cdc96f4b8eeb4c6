------------------------------ MODULE MCMpscList ------------------------------
(* Instances of MpscList for TLC. *)
EXTENDS MpscList, TLC
CONSTANTS w1, w2, w3
=============================================================================
