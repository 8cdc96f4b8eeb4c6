-------------------------------- MODULE MCConcow --------------------------------
(* Instances of Concow for TLC. *)
EXTENDS Concow
UpTo(n) == [i \in 1 .. n |-> i]
Setup(tree, pipes, slots, ring, elems, keys, from, tickets) ==
  [tree |-> tree, pipes |-> pipes, slots |-> slots, ring |-> ring, elems |-> elems,
   keys |-> keys, from |-> from, tickets |-> tickets]

\* A subtree below the boundary that the third new key makes higher.
Flat(slots)  == Setup("betree", 1, slots, 4, UpTo(11), {12, 13, 14}, {0, 6, 13}, 5)
\* Leaves above the boundary; the tree is rebuilt from its elements.
Small        == Setup("betree", 2, 0, 4, UpTo(5), {6, 7, 8}, {0, 4, 8}, 4)
\* A subtree with two levels of nodes, the lower of which fills up and splits.
Deep(slots)  == Setup("betree", 1, slots, 8, UpTo(19), {20, 21}, {0, 18}, 3)
\* An upper node over two boundaries; the second new key makes a leaf higher.
Upper(slots) == Setup("betree", 2, slots, 3, UpTo(8), {9, 10}, 0 .. 10, 5)

\* Forks, insertions and larger nodes, of every kind.
Bytes(pipes, slots) == Setup("art", pipes, slots, 5, <<0, 1, 2>>, {3, 4, 5}, {0, 2, 4, 7}, 4)
EmptyBytes          == Setup("art", 2, 0, 5, <<>>, {0, 1, 5}, {0, 1, 7}, 4)

\* A full NODE16 that splits; the halves then get tagged edges, and those fork.
Nibbles(pipes, slots, keys) == Setup("aert", pipes, slots, 5, <<0, 1, 3>>, keys, {0, 1, 3}, 4)
Tags(pipes, slots, keys)    == Setup("aert", pipes, slots, 5, <<0, 1, 3, 4>>, keys, {0, 3}, 4)

AllSetups ==
  {Flat(0), Small, Deep(0), Upper(0), Upper(1), Bytes(2, 0), Bytes(1, 2), EmptyBytes,
   Nibbles(2, 0, {1, 4, 9}), Nibbles(1, 2, {1, 4}), Tags(2, 0, {3, 6, 7}), Tags(1, 2, {6, 7})}

ArtNodes  == <<2, 3, 4>>
AertNodes == <<2, 3, 2>>
=================================================================================
