---------------------------------- MODULE Aert ----------------------------------
(***************************************************************************)
(* The radix tree of lib/trees/aert.  Its digits are half bytes: NODE4 and *)
(* NODE16 branch on two at once, NODEH4 and NODEH16 on one.  A full NODE16 *)
(* is replaced by an upper half whose children are lower halves, or single *)
(* subtrees: then the edge carries the digit in between as a tag.  A node  *)
(* is reached by an edge, [n, tag]; tag -1 is no tag.                      *)
(***************************************************************************)
EXTENDS Radix

CONSTANTS Cap4, Cap16, CapH4   \* the children of NODE4, NODE16 and NODEH4

Capacity(kind) ==
  CASE kind = "node4" -> Cap4 [] kind = "node16" -> Cap16 [] kind = "nodeh4" -> CapH4
    [] kind = "nodeh16" -> Base
Extended(kind) == CASE kind = "node4" -> "node16" [] kind = "nodeh4" -> "nodeh16"

Edge(n, tag) == [n |-> n, tag |-> tag]
Plain(n)     == Edge(n, -1)
Tagged(e)    == e.tag # -1
Edges(heap)  == [n : DOMAIN heap, tag : -1 .. Base - 1]

\* node_key_len, in digits.
KeyLen(n) == IF n.kind \in {"node4", "node16"} THEN 2 ELSE 1

Child(n, d) == IF d \in DOMAIN n.chs THEN n.chs[d] ELSE Plain(None)
Found(n, d) == n.kind = "nodeh16" \/ d \in DOMAIN n.chs
IsFull(n)   == n.kind # "nodeh16" /\ Cardinality(DOMAIN n.chs) = Capacity(n.kind)

\* Where a node's prefix ends, where it first differs from key by a whole byte,
\* and the digit of key that selects a child.
End(n)           == n.ofs + n.len
Even(from, to)   == from + ((to - from) \div 2) * 2
Mismatch(n, key) == Even(n.ofs, Differ(n.key, key, n.ofs))
Matches(n, key)  == Mismatch(n, key) >= End(n)
Branch(n, key)   == Part(key, End(n), KeyLen(n))

\* ptr_pfx_match: the digit that an edge to node n stands for.
TagMatches(n, tag, key) == tag = -1 \/ Part(key, n.ofs - 1, 1) = tag

\* new_leaf: at an odd position the edge takes a digit.
LeafAt(ver, ofs, key, val) == NewLeaf(ver, ofs + (ofs % 2), key, val)
TagAt(ofs, key) == IF ofs % 2 = 0 THEN -1 ELSE Part(key, ofs, 1)

EdgesBelow(n)     == {n.chs[d] : d \in {x \in DOMAIN n.chs : n.chs[x].n # None}}
Reach(heap, root) == Closure(DOMAIN heap, root, LAMBDA n : {e.n : e \in EdgesBelow(heap[n])})

-----------------------------------------------------------------------------
(* Reading                                                                 *)

\* fat_leaf_for: the leaf of key, or None.
Target(heap, root, key) ==
  LET down[e \in Edges(heap)] ==
        LET p == heap[e.n] IN
        IF e.n = None \/ ~ TagMatches(p, e.tag, key) \/ ~ Matches(p, key) THEN None
        ELSE IF IsLeaf(p) THEN e.n
        ELSE down[Child(p, Branch(p, key))]
  IN  down[Plain(root)]

Find(heap, root, key, version) ==
  LET n == Target(heap, root, key) IN IF n = None THEN Missing ELSE FatRead(heap[n], version)

\* The digit of key that a scan compares with a tag it does not match.  It is the
\* one after the tag's; behind the last digit the shift leaves the first.
TagDigit(n, key) == Part(key, IF n.ofs = Width THEN 0 ELSE n.ofs, 1)

TagBehind(n, tag, key) == tag < TagDigit(n, key)

\* At least one and at most n pairs of a key not before key and its value, in order.
Scan(heap, root, key, n, version) ==
  LET below[m \in DOMAIN heap] ==
        IF IsLeaf(heap[m]) THEN <<<<heap[m].key, FatRead(heap[m], version)>>>>
        ELSE LET ds == Ascending({d \in DOMAIN heap[m].chs : heap[m].chs[d].n # None})
             IN  FlattenSeq([i \in DOMAIN ds |-> below[heap[m].chs[ds[i]].n]])
      rest(m, d) == LET ds == Ascending({x \in DOMAIN heap[m].chs : heap[m].chs[x].n # None /\ x > d})
                    IN  FlattenSeq([i \in DOMAIN ds |-> below[heap[m].chs[ds[i]].n]])
      search[e \in Edges(heap)] ==
        LET p  == heap[e.n]
            at == Mismatch(p, key)
            d  == Branch(p, key)
        IN  IF e.n = None THEN <<>>
            ELSE IF ~ TagMatches(p, e.tag, key) THEN IF TagBehind(p, e.tag, key) THEN <<>> ELSE below[e.n]
            ELSE IF at < End(p) THEN IF Part(p.key, at, 2) < Part(key, at, 2) THEN <<>> ELSE below[e.n]
            ELSE IF IsLeaf(p) THEN below[e.n]
            ELSE search[Child(p, d)] \o rest(e.n, d)
      all == search[Plain(root)]
  IN  SubSeq(all, 1, IF n < Len(all) THEN n ELSE Len(all))

-----------------------------------------------------------------------------
(* A full NODE16 p and one more child: an upper half with a lower half for *)
(* each leading digit that has several children.                           *)

High(d) == d \div Base
Low(d)  == d % Base
HalfKind(count) == IF count > CapH4 THEN "nodeh16" ELSE "nodeh4"
Many(digits) == {High(d) : d \in {x \in digits : \E y \in digits : x # y /\ High(x) = High(y)}}

\* create_upper_half, with lower half h called ids[h].
UpperHalf(p, ver, digits, ids) ==
  NewNode(ver, HalfKind(Cardinality({High(d) : d \in digits})), p.ofs, p.len, p.key,
          [h \in Many(digits) |-> Plain(ids[h])])
LowerHalf(p, ver, digits, h) ==
  NewNode(ver, HalfKind(Cardinality({d \in digits : High(d) = h})), End(p) + 1, 0, p.key, <<>>)

\* create_lower_half for every child: into its lower half, or tagged into the upper.
FillHalves(heap, upper, edges) ==
  LET lows   == heap[upper].chs
      single == {d \in DOMAIN edges : High(d) \notin DOMAIN lows}
      owner(h) == CHOOSE d \in single : High(d) = h
      Filled(n, h) == [n EXCEPT !.chs = [l \in {Low(d) : d \in {x \in DOMAIN edges : High(x) = h}} |->
                                           edges[h * Base + l]] @@ @]
  IN  [m \in {lows[h].n : h \in DOMAIN lows} |-> Filled(heap[m], CHOOSE h \in DOMAIN lows : lows[h].n = m)] @@
      (upper :> [heap[upper] EXCEPT
                   !.chs = [h \in {High(d) : d \in single} |-> Edge(edges[owner(h)].n, Low(owner(h)))] @@ @]) @@
      heap

-----------------------------------------------------------------------------
(* Updates in place, as build() and the single-threaded baseline do them.  *)

Shortened(n, by) == [n EXCEPT !.ofs = @ + by, !.len = @ - by]

\* update_inplace; fresh numbers the nodes it may allocate.
Inplace(heap, root, key, val, fresh) ==
  LET new   == <<0, fresh>>
      leaf  == <<0, fresh + 1>>
      half[h \in 0 .. Base - 1] == <<0, fresh + 2 + h>>
      walk[e \in Edges(heap)] ==   \* the edge at which the tree changes, and the node it is in
        LET p == heap[e.n]  d == Branch(p, key) IN
        IF \/ e.n = None \/ ~ TagMatches(p, e.tag, key) \/ ~ Matches(p, key)
           \/ IsLeaf(p) \/ ~ Found(p, d)
        THEN [edge |-> e, above |-> None, d |-> 0]
        ELSE LET w == walk[Child(p, d)] IN IF w.above # None THEN w ELSE [w EXCEPT !.above = e.n, !.d = d]
      w     == walk[Plain(root)]
      n     == w.edge.n
      p     == heap[n]
      up    == heap[w.above]
      ofs   == IF w.above = None THEN 0 ELSE End(up) + KeyLen(up)
      Hang(h, e) == IF w.above = None THEN [root |-> e.n, heap |-> h]
                    ELSE [root |-> root, heap |-> [h EXCEPT ![w.above].chs = (w.d :> e) @@ @]]
      at    == Mismatch(p, key)
      d     == Branch(p, key)
      pos   == End(p) + KeyLen(p)
      added == d :> Edge(leaf, TagAt(pos, key))
      Freed == [m \in DOMAIN heap \ {n} |-> heap[m]]
  IN
  IF n = None THEN Hang(leaf :> LeafAt(0, ofs, key, val) @@ heap, Edge(leaf, TagAt(ofs, key)))
  ELSE IF ~ TagMatches(p, w.edge.tag, key) THEN
    Hang(new :> NewNode(0, "nodeh4", ofs, 0, key, w.edge.tag :> Plain(n) @@ Part(key, ofs, 1) :> Plain(leaf)) @@
         leaf :> NewLeaf(0, ofs + 1, key, val) @@ heap, Plain(new))
  ELSE IF at < End(p) THEN
    Hang([heap EXCEPT ![n] = Shortened(p, at + 2 - p.ofs)] @@ leaf :> NewLeaf(0, at + 2, key, val) @@
         new :> NewNode(0, "node4", p.ofs, at - p.ofs, key,
                        Part(p.key, at, 2) :> Plain(n) @@ Part(key, at, 2) :> Plain(leaf)),
         Edge(new, w.edge.tag))
  ELSE IF IsLeaf(p) THEN [root |-> root, heap |-> [heap EXCEPT ![n].val = val]]
  ELSE IF IsFull(p) /\ p.kind = "node16" THEN
    LET digits == DOMAIN p.chs \cup {d} IN
    Hang(FillHalves([m \in {half[h] : h \in Many(digits)} |-> LowerHalf(p, 0, digits, m[2] - fresh - 2)] @@
                    new :> UpperHalf(p, 0, digits, half) @@ leaf :> NewLeaf(0, pos, key, val) @@ Freed,
                    new, added @@ p.chs), Edge(new, w.edge.tag))
  ELSE IF IsFull(p) THEN
    Hang(new :> [p EXCEPT !.ver = 0, !.kind = Extended(@), !.chs = added @@ @] @@
         leaf :> LeafAt(0, pos, key, val) @@ Freed, Edge(new, w.edge.tag))
  ELSE [root |-> root, heap |-> leaf :> LeafAt(0, pos, key, val) @@ [heap EXCEPT ![n].chs = added @@ @]]

\* build inserts the elements in their order, each with value 0.
Build(keys) ==
  FoldLeft(LAMBDA t, i : Inplace(t.heap, t.root, keys[i], 0, (Base + 2) * i),
           [root |-> None, heap |-> None :> NoNode], [i \in DOMAIN keys |-> i])

-----------------------------------------------------------------------------
(* Handlers.  The node that replaces t_past is New(c, 1); c.tag is the tag *)
(* of the edge to t_past, and then that of the edge to the new node.       *)

NodeCopy(n, ver) == CopyNode(n, ver, Plain(None))

UpdateCow(heap, c) ==
  LET p    == heap[c.past]
      at   == Mismatch(p, c.key)
      from == [c EXCEPT !.made = @ + 3 + Base, !.cur = New(c, 1)]
      gone == Retire(from, c.past)
      old  == Part(p.key, at, 2)
      d    == Branch(p, c.key)
      next == End(p) + KeyLen(p)
      Put(n) == New(c, 1) :> n @@ heap
  IN
  IF c.past = None THEN
    [heap |-> Put(LeafAt(c.sno, c.ofs, c.key, c.sno)), c |-> [from EXCEPT !.tag = TagAt(c.ofs, c.key), !.op = "done"]]
  ELSE IF ~ TagMatches(p, c.tag, c.key) THEN   \* nodeh_fork_cow: t_past itself gets a parent
    [heap |-> New(c, 3) :> NewLeaf(c.sno, c.ofs + 1, c.key, c.sno) @@
              Put(NewNode(c.sno, "nodeh4", c.ofs, 0, c.key,
                          c.tag :> Plain(c.past) @@ Part(c.key, c.ofs, 1) :> Plain(New(c, 3)))),
     c |-> [from EXCEPT !.tag = -1, !.op = "done"]]
  ELSE IF at < End(p) THEN   \* node_fork_cow
    [heap |-> New(c, 2) :> Shortened(NodeCopy(p, c.sno), at + 2 - p.ofs) @@
              New(c, 3) :> NewLeaf(c.sno, at + 2, c.key, c.sno) @@
              Put(NewNode(c.sno, "node4", p.ofs, at - p.ofs, c.key,
                          old :> Plain(New(c, 2)) @@ Part(c.key, at, 2) :> Plain(New(c, 3)))),
     c |-> [gone EXCEPT !.ofs = at, !.idx = old, !.op = "fork"]]
  ELSE IF IsLeaf(p) THEN
    [heap |-> Put(LeafUpdate(p, c)), c |-> [gone EXCEPT !.op = "done"]]
  ELSE IF Found(p, d) THEN
    [heap |-> Put(NodeCopy(p, c.sno)), c |-> [gone EXCEPT !.ofs = next, !.idx = d, !.op = "search"]]
  ELSE IF IsFull(p) /\ p.kind = "node16" THEN
    LET digits == DOMAIN p.chs \cup {d}
        half[h \in 0 .. Base - 1] == New(c, 4 + h)
    IN  [heap |-> [m \in {half[h] : h \in Many(digits)} |-> LowerHalf(p, c.sno, digits, m[2] - c.made - 4)] @@
                  Put(UpperHalf(p, c.sno, digits, half)),
         c |-> [gone EXCEPT !.ofs = next, !.idx = d, !.op = "split"]]
  ELSE
    LET kind == IF IsFull(p) THEN Extended(p.kind) ELSE p.kind IN
    [heap |-> Put([NodeCopy(p, c.sno) EXCEPT !.kind = kind, !.chs = d :> Plain(None) @@ @]),
     c |-> [gone EXCEPT !.ofs = next, !.idx = d, !.op = "insert"]]

\* concurrent_fat_cow_begin; handle_init when it does not append.
Begin(heap, c) == [UpdateCow(heap, c) EXCEPT !.c.root = New(c, 1)]

\* copych: NODEH16 by digit, every other node by position, without the entry of
\* digit inserted.  Both are the same unless keys were appended in the meantime.
Copych(heap, new, old, inserted) ==
  LET to   == Ascending(DOMAIN heap[new].chs \ inserted)
      from == Ascending(DOMAIN heap[old].chs)
      At(d) == CHOOSE i \in DOMAIN to : to[i] = d
  IN  [heap EXCEPT ![new].chs =
         IF heap[new].kind = "nodeh16" THEN heap[old].chs @@ @
         ELSE [d \in Range(to) |-> heap[old].chs[from[At(d)]]] @@ @]

HandleSearch(heap, c) ==
  LET e == Child(heap[c.past], c.idx)
      r == UpdateCow(Copych(heap, c.cur, c.past, {}), [c EXCEPT !.past = e.n, !.tag = e.tag])
  IN  [r EXCEPT !.heap[c.cur].chs = c.idx :> Edge(New(c, 1), r.c.tag) @@ @]

HandleInsert(heap, c) ==
  [heap |-> New(c, 1) :> LeafAt(c.sno, c.ofs, c.key, c.sno) @@
            [Copych(heap, c.cur, c.past, {c.idx}) EXCEPT
               ![c.cur].chs = c.idx :> Edge(New(c, 1), TagAt(c.ofs, c.key)) @@ @],
   c |-> [c EXCEPT !.made = @ + 1, !.op = "done"]]

HandleFork(heap, c) ==
  LET child == heap[c.cur].chs[c.idx].n IN
  [heap |-> IF IsLeaf(heap[child]) THEN heap ELSE Copych(heap, child, c.past, {}),
   c |-> [c EXCEPT !.cur = child, !.op = "done"]]

HandleSplit(heap, c) ==
  [heap |-> FillHalves(New(c, 1) :> NewLeaf(c.sno, c.ofs, c.key, c.sno) @@ heap, c.cur,
                       c.idx :> Plain(New(c, 1)) @@ heap[c.past].chs),
   c |-> [c EXCEPT !.made = @ + 1, !.op = "done"]]

Handle(heap, c) ==
  CASE c.op = "init"   -> Begin(heap, c)
    [] c.op = "search" -> HandleSearch(heap, c)
    [] c.op = "insert" -> HandleInsert(heap, c)
    [] c.op = "fork"   -> HandleFork(heap, c)
    [] c.op = "split"  -> HandleSplit(heap, c)

-----------------------------------------------------------------------------
(* fat_merge: the leaves of several keys are replaced or inserted in one   *)
(* new version e.  A node made at digit d is called after a key below it.  *)

\* assemble: a node with children chs by digits of that width, or two halves; keyOf
\* gives a key below each child.
Assemble(chs, keyOf, d, branch, width, key, e) ==
  LET digits == DOMAIN chs
      id     == <<e, key, d>>
      Rep(h) == keyOf[CHOOSE x \in digits : High(x) = h]
      half[h \in Many(digits)] == <<e, Rep(h), branch + 1>>
      like   == NewNode(e, "node16", d, branch - d, key, <<>>)
      one    == NewNode(e, IF width = 1 THEN HalfKind(Cardinality(digits))
                           ELSE IF Cardinality(digits) <= Cap4 THEN "node4" ELSE "node16",
                        d, branch - d, key, chs)
  IN  IF width = 2 /\ Cardinality(digits) > Cap16 THEN
        LET lows == [h \in Many(digits) |-> LowerHalf(like, e, digits, h)]
            new  == id :> UpperHalf(like, e, digits, half) @@
                    [m \in {half[h] : h \in DOMAIN lows} |-> lows[CHOOSE h \in DOMAIN lows : half[h] = m]]
            full == FillHalves(new, id, chs)
        IN  [id |-> id, new |-> full]
      ELSE [id |-> id, new |-> id :> one]

Merge(heap, root, writes, e) ==
  LET clone(n, d) == [(IF IsLeaf(n) THEN NodeCopy(n, e) ELSE [n EXCEPT !.ver = e])
                        EXCEPT !.ofs = d, !.len = End(n) - d]
      Kept(edge) == [edge |-> edge, new |-> <<>>, retired |-> <<>>]
      Made(id, n, gone) == [edge |-> Plain(id), new |-> id :> n, retired |-> gone]
      Gather(subs, r) ==
        FoldSet(LAMBDA b, acc : [acc EXCEPT !.new = subs[b].new @@ @, !.retired = @ \o subs[b].retired], r, DOMAIN subs)
      merge[edge \in Edges(heap), ks \in SUBSET DOMAIN writes, d \in 0 .. Width] ==
        LET old    == edge.n
            p      == heap[old]
            k0     == Smallest(ks)
            odd    == Tagged(edge) \/ (old = None /\ d % 2 = 1)
            nib    == IF Tagged(edge) THEN edge.tag ELSE Part(k0, d, 1)
            ends   == {Even(d, Differ(k0, Largest(ks), d))} \cup
                      (IF old = None THEN {} ELSE {End(p), Even(d, Differ(k0, p.key, d))})
            branch == IF odd THEN d ELSE Smallest(ends)
            same   == ~ odd /\ old # None /\ ~ IsLeaf(p) /\ branch = End(p)
            width  == IF odd THEN 1 ELSE IF same THEN KeyLen(p) ELSE 2
            digits == {Part(k, branch, width) : k \in ks}
            had    == IF same THEN [b \in {x \in DOMAIN p.chs : p.chs[x].n # None} |-> p.chs[b]]
                      ELSE IF old = None THEN <<>>
                      ELSE (IF odd THEN nib ELSE Part(p.key, branch, width)) :> Plain(old)
            fits   == same /\ (p.kind = "nodeh16" \/ Cardinality(DOMAIN had \cup digits) <= Capacity(p.kind))
            subs   == [b \in digits \cup (IF fits THEN {} ELSE DOMAIN had) |->
                         merge[IF b \in DOMAIN had THEN had[b] ELSE Plain(None),
                               {k \in ks : Part(k, branch, width) = b}, branch + width]]
            chs    == [b \in DOMAIN subs |-> subs[b].edge] @@ had
            keyOf  == [b \in DOMAIN chs |-> LET n == chs[b].n IN IF n \in DOMAIN heap THEN heap[n].key ELSE n[2]]
            made   == Assemble(chs, keyOf, d, branch, width, k0, e)
        IN
        IF ks = {} THEN IF old = None \/ Tagged(edge) \/ p.ofs = d THEN Kept(edge)
                        ELSE Made(<<e, p.key, d>>, clone(p, d), <<old>>)
        ELSE IF odd /\ digits = {nib} THEN
          LET r == merge[Plain(old), ks, d + 1] IN [r EXCEPT !.edge.tag = nib]
        ELSE IF branch = Width THEN
          Made(<<e, k0, d>>, NewLeaf(writes[k0], d, k0, writes[k0]), IF old = None THEN <<>> ELSE <<old>>)
        ELSE IF fits THEN Gather(subs, Made(<<e, k0, d>>, [clone(p, d) EXCEPT !.chs = chs], <<old>>))
        ELSE Gather(subs, [edge |-> Plain(made.id), new |-> made.new, retired |-> IF same THEN <<old>> ELSE <<>>])
      r == merge[Plain(root), DOMAIN writes, 0]
  IN  [root |-> r.edge.n, heap |-> r.new @@ heap, retired |-> r.retired]
=================================================================================
