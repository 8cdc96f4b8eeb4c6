------------------------------- MODULE MCFatTrees -------------------------------
(* Instances of FatTrees for TLC. *)
EXTENDS FatTrees
UpTo(n) == [i \in 1 .. n |-> i]
Setup(tree, pipes, slots, replace, elems, keys, from, tickets) ==
  [tree |-> tree, pipes |-> pipes, slots |-> slots, replace |-> replace, elems |-> elems,
   keys |-> keys, from |-> from, tickets |-> tickets]
Be1(slots, replace) == Setup("betree", 1, slots, replace, UpTo(11), {1, 12, 13, 14}, {0, 6, 13}, 3)
Be2(slots, replace) == Setup("betree", 2, slots, replace, UpTo(8), {4, 9, 10}, {0, 4, 10}, 3)
BeRoot  == Setup("betree", 1, 0, TRUE, UpTo(3), {4, 5, 6}, {0, 4}, 4)
Bytes(slots, replace) == Setup("art", 1, slots, replace, <<0, 1, 2>>, {1, 3, 4, 5}, {0, 2, 4, 7}, 3)
BytesEmpty == Setup("art", 1, 0, TRUE, <<>>, {0, 1, 5, 6}, {0, 1, 7}, 3)
Nibbles(slots, replace) == Setup("aert", 1, slots, replace, <<0, 1, 3>>, {1, 4, 6, 7, 9}, {0, 1, 3}, 3)
NibblesEmpty == Setup("aert", 1, 0, TRUE, <<>>, {0, 1, 3, 9, 28}, {0}, 3)
AllSetups ==
  {BeRoot, BytesEmpty, NibblesEmpty} \cup
  UNION {{Be1(o[1], o[2]), Be2(o[1], o[2]), Bytes(o[1], o[2]), Nibbles(o[1], o[2])} :
           o \in {<<0, FALSE>>, <<0, TRUE>>, <<1, TRUE>>}}
ArtNodes  == <<2, 3, 4>>
AertNodes == <<2, 3, 2>>
=================================================================================
