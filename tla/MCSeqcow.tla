------------------------------- MODULE MCSeqcow -------------------------------
(* Instances of Seqcow for TLC. *)
EXTENDS Seqcow
CONSTANTS c1, c2, k1, k2
Fat   == [fat |-> TRUE, clients |-> {c1, c2}, keys |-> {k1, k2}, tickets |-> 5]
Slot0 == [fat |-> FALSE, clients |-> {c1}, keys |-> {k1}, tickets |-> 4]
Both  == {Fat, Slot0}
Single == {Slot0}
=============================================================================
