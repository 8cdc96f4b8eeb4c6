------------------------------- MODULE MCCyclic -------------------------------
(* Instances of Cyclic for TLC. *)
EXTENDS Cyclic, TLC
CONSTANTS w1, w2
WorkerSymmetry == Permutations(Workers)
=============================================================================
