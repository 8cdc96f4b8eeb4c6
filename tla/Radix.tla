---------------------------------- MODULE Radix ----------------------------------
(***************************************************************************)
(* What the radix trees lib/trees/art and lib/trees/aert share: the digits *)
(* of a key, most significant first, and the versioned values of a leaf    *)
(* (lib/common/fat_value.hpp).  ART's digits are bytes, AERT's are half    *)
(* bytes.                                                                  *)
(***************************************************************************)
EXTENDS UpdateContext

CONSTANTS Base, Width   \* the digits of a key: Width digits below Base

\* partial_key: len digits of key from position pos on.
Part(key, pos, len) == (key \div Base^(Width - pos - len)) % Base^len

\* Where a and b differ first, from position pos on; Width if they do not.
Differ(a, b, pos) ==
  CHOOSE i \in pos .. Width :
    /\ \A j \in pos .. i - 1 : Part(a, j, 1) = Part(b, j, 1)
    /\ i < Width => Part(a, i, 1) # Part(b, i, 1)

Smallest(keys) == CHOOSE k \in keys : \A j \in keys : k <= j
Largest(keys)  == CHOOSE k \in keys : \A j \in keys : k >= j

\* fat_value::read.  A record that is not published has version 0.
FatRead(n, version) ==
  LET seen == {r \in Range(n.fat) : 0 < r.ver /\ r.ver <= version}
  IN  IF seen = {} THEN n.val ELSE (CHOOSE r \in seen : \A q \in seen : q.ver <= r.ver).val

\* fat_value::append, with room: the value is written first, the version last.
FatAppend(n, c) == [n EXCEPT !.fat = Append(@, [ver |-> c.sno, val |-> c.sno])]

\* A leaf for key whose prefix starts at digit ofs, and what is read at None.
NewLeaf(ver, ofs, key, val) ==
  [ver |-> ver, kind |-> "leaf", ofs |-> ofs, len |-> Width - ofs, key |-> key,
   chs |-> <<>>, val |-> val, fat |-> <<>>]
NoNode == NewLeaf(0, 0, 0, Missing)

\* An internal node; key is any key with its prefix.
NewNode(ver, kind, ofs, len, key, chs) ==
  [ver |-> ver, kind |-> kind, ofs |-> ofs, len |-> len, key |-> key,
   chs |-> chs, val |-> Missing, fat |-> <<>>]

IsLeaf(n) == n.kind = "leaf"

\* node_copy: a leaf's newest value becomes its own; the children of an internal
\* node are left to the next stage.
CopyNode(n, ver, noChild) ==
  IF IsLeaf(n) THEN [n EXCEPT !.ver = ver, !.val = FatRead(n, ver), !.fat = <<>>]
  ELSE [n EXCEPT !.ver = ver, !.chs = [d \in DOMAIN @ |-> noChild]]

\* leaf_update
LeafUpdate(n, c) == [n EXCEPT !.ver = c.sno, !.val = c.sno, !.fat = <<>>]
==================================================================================
