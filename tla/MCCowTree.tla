------------------------------ MODULE MCCowTree ------------------------------
(* Instances of CowTree for TLC: trees that build() makes of 1 .. n. *)
EXTENDS CowTree
UpTo(n) == [i \in 1 .. n |-> i]
\* A full leaf; a node with a full last leaf; three levels of internal nodes.
Trees == {UpTo(3), UpTo(7), UpTo(23)}
Mode(fat, slots) == [fat |-> fat, slots |-> slots]
AllModes == {Mode("none", 0), Mode("barrier", 2), Mode("local", 1), Mode("worker", 1), Mode("worker", 2)}
=============================================================================
