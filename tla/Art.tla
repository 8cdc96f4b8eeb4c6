----------------------------------- MODULE Art -----------------------------------
(***************************************************************************)
(* The adaptive radix tree of lib/trees/art.  A node has children for some *)
(* digits, and a kind that bounds how many; the arrays of keys and slots   *)
(* of each kind are a function of digits, so the index of a child is its   *)
(* digit.                                                                  *)
(***************************************************************************)
EXTENDS Radix

CONSTANTS Cap4, Cap16, Cap48   \* the children of NODE4, NODE16 and NODE48

Capacity(kind) ==
  CASE kind = "node4" -> Cap4 [] kind = "node16" -> Cap16 [] kind = "node48" -> Cap48
    [] kind = "node256" -> Base
Extended(kind) ==
  CASE kind = "node4" -> "node16" [] kind = "node16" -> "node48" [] kind = "node48" -> "node256"

\* findch, find_idx: the child of a digit; NODE256 has an entry for every digit.
Child(n, d) == IF d \in DOMAIN n.chs THEN n.chs[d] ELSE None
Found(n, d) == n.kind = "node256" \/ d \in DOMAIN n.chs
IsFull(n)   == n.kind # "node256" /\ Cardinality(DOMAIN n.chs) = Capacity(n.kind)

\* Where a node's prefix ends, and whether key has it.
End(n)          == n.ofs + n.len
Matches(n, key) == Differ(n.key, key, n.ofs) >= End(n)

Reach(heap, root) == Closure(DOMAIN heap, root, LAMBDA n : Range(heap[n].chs) \ {None})

-----------------------------------------------------------------------------
(* Reading                                                                 *)

\* fat_leaf_for: the leaf of key, or None.
Target(heap, root, key) ==
  LET down[n \in DOMAIN heap] ==
        IF n = None \/ ~ Matches(heap[n], key) THEN None
        ELSE IF IsLeaf(heap[n]) THEN n
        ELSE down[Child(heap[n], Part(key, End(heap[n]), 1))]
  IN  down[root]

Find(heap, root, key, version) ==
  LET n == Target(heap, root, key) IN IF n = None THEN Missing ELSE FatRead(heap[n], version)

\* A defect, not used: the digit of the search is taken again.
After_Same(digits, d) == {e \in digits : e >= d}

\* The children that a scan goes on with once it is done with that of digit d.
After(digits, d) == {e \in digits : e > d}

\* At least one and at most n pairs of a key not before key and its value, in order.
Scan(heap, root, key, n, version) ==
  LET below[m \in DOMAIN heap] ==
        IF IsLeaf(heap[m]) THEN <<<<heap[m].key, FatRead(heap[m], version)>>>>
        ELSE LET ds == Ascending({d \in DOMAIN heap[m].chs : heap[m].chs[d] # None})
             IN  FlattenSeq([i \in DOMAIN ds |-> below[heap[m].chs[ds[i]]]])
      rest(m, d) == LET ds == Ascending(After({e \in DOMAIN heap[m].chs : heap[m].chs[e] # None}, d))
                    IN  FlattenSeq([i \in DOMAIN ds |-> below[heap[m].chs[ds[i]]]])
      search[m \in DOMAIN heap] ==
        LET p  == heap[m]
            at == Differ(p.key, key, p.ofs)
            d  == Part(key, End(p), 1)
        IN  IF m = None THEN <<>>
            ELSE IF at < End(p) THEN IF Part(p.key, at, 1) < Part(key, at, 1) THEN <<>> ELSE below[m]
            ELSE IF IsLeaf(p) THEN below[m]
            ELSE search[Child(p, d)] \o rest(m, d)
      all == search[root]
  IN  SubSeq(all, 1, IF n < Len(all) THEN n ELSE Len(all))

-----------------------------------------------------------------------------
(* Updates in place, as build() and the single-threaded baseline do them.  *)

Shortened(n, by) == [n EXCEPT !.ofs = @ + by, !.len = @ - by]

\* update_inplace; fresh and fresh + 1 number the nodes it may allocate.
Inplace(heap, root, key, val, fresh) ==
  LET new == <<0, fresh>>
      walk[n \in DOMAIN heap] ==   \* where the update changes the tree, and from where that hangs
        LET p == heap[n]  d == Part(key, End(p), 1) IN
        IF n = None \/ ~ Matches(p, key) \/ IsLeaf(p) \/ ~ Found(p, d) THEN [at |-> n, above |-> None, d |-> 0]
        ELSE LET w == walk[Child(p, d)] IN IF w.above # None THEN w ELSE [w EXCEPT !.above = n, !.d = d]
      w   == walk[root]
      p   == heap[w.at]
      ofs == IF w.above = None THEN 0 ELSE End(heap[w.above]) + 1
      Hang(h, n) == IF w.above = None THEN [root |-> n, heap |-> h]
                    ELSE [root |-> root, heap |-> [h EXCEPT ![w.above].chs = (w.d :> n) @@ @]]
      at  == Differ(p.key, key, p.ofs)
      d   == Part(key, End(p), 1)
      leaf == NewLeaf(0, End(p) + 1, key, val)
  IN
  IF w.at = None THEN Hang(new :> NewLeaf(0, ofs, key, val) @@ heap, new)
  ELSE IF at < End(p) THEN
    LET fork == Part(p.key, at, 1) :> w.at @@ Part(key, at, 1) :> <<0, fresh + 1>> IN
    Hang([heap EXCEPT ![w.at] = Shortened(p, at + 1 - p.ofs)] @@
         new :> NewNode(0, "node4", ofs, at - ofs, key, fork) @@
         <<0, fresh + 1>> :> NewLeaf(0, at + 1, key, val), new)
  ELSE IF IsLeaf(p) THEN [root |-> root, heap |-> [heap EXCEPT ![w.at].val = val]]
  ELSE IF IsFull(p) THEN
    LET wide == [p EXCEPT !.ver = 0, !.kind = Extended(p.kind), !.chs = d :> <<0, fresh + 1>> @@ @] IN
    Hang([n \in DOMAIN heap \ {w.at} |-> heap[n]] @@ new :> wide @@ <<0, fresh + 1>> :> leaf, new)
  ELSE [root |-> root, heap |-> new :> leaf @@ [heap EXCEPT ![w.at].chs = d :> new @@ @]]

\* build inserts the elements in their order, each with value 0.
Build(keys) ==
  FoldLeft(LAMBDA t, i : Inplace(t.heap, t.root, keys[i], 0, 2 * i),
           [root |-> None, heap |-> None :> NoNode], [i \in DOMAIN keys |-> i])

-----------------------------------------------------------------------------
(* Handlers.  What replaces t_past is always New(c, 1).                    *)

NodeCopy(n, ver) == CopyNode(n, ver, None)

\* The copy of a node that gets a parent by digits below its start.
ForkChild(p, ver, by) == Shortened(NodeCopy(p, ver), by)

UpdateCow(heap, c) ==
  LET p    == heap[c.past]
      at   == Differ(p.key, c.key, p.ofs)
      from == [c EXCEPT !.made = @ + 3, !.cur = New(c, 1)]
      gone == Retire(from, c.past)
      old  == Part(p.key, at, 1)
      d    == Part(c.key, End(p), 1)
      Put(n) == New(c, 1) :> n @@ heap
  IN
  IF c.past = None THEN
    [heap |-> Put(NewLeaf(c.sno, c.ofs, c.key, c.sno)), c |-> [from EXCEPT !.op = "done"]]
  ELSE IF at < End(p) THEN   \* node_fork_cow
    [heap |-> New(c, 2) :> ForkChild(p, c.sno, at + 1 - p.ofs) @@
              New(c, 3) :> NewLeaf(c.sno, at + 1, c.key, c.sno) @@
              Put(NewNode(c.sno, "node4", c.ofs, at - p.ofs, c.key,
                          old :> New(c, 2) @@ Part(c.key, at, 1) :> New(c, 3))),
     c |-> [gone EXCEPT !.ofs = at, !.idx = old, !.op = "fork"]]
  ELSE IF IsLeaf(p) THEN
    [heap |-> Put(LeafUpdate(p, c)), c |-> [gone EXCEPT !.op = "done"]]
  ELSE IF Found(p, d) THEN
    [heap |-> Put(NodeCopy(p, c.sno)), c |-> [gone EXCEPT !.ofs = End(p) + 1, !.idx = d, !.op = "search"]]
  ELSE
    LET kind == IF IsFull(p) THEN Extended(p.kind) ELSE p.kind IN
    [heap |-> Put([NodeCopy(p, c.sno) EXCEPT !.kind = kind, !.chs = d :> None @@ @]),
     c |-> [gone EXCEPT !.ofs = End(p) + 1, !.idx = d, !.op = "insert"]]

\* concurrent_fat_cow_begin; handle_init when it does not append.
Begin(heap, c) == [UpdateCow(heap, c) EXCEPT !.c.root = New(c, 1)]

\* copych: the children of the node copied, beside those set since.
Copych(heap, new, old) == [heap EXCEPT ![new].chs = heap[old].chs @@ @]

HandleSearch(heap, c) ==
  [UpdateCow(Copych(heap, c.cur, c.past), [c EXCEPT !.past = Child(heap[c.past], c.idx)])
     EXCEPT !.heap[c.cur].chs = c.idx :> New(c, 1) @@ @]

HandleInsert(heap, c) ==
  [heap |-> New(c, 1) :> NewLeaf(c.sno, c.ofs, c.key, c.sno) @@
            [Copych(heap, c.cur, c.past) EXCEPT ![c.cur].chs = c.idx :> New(c, 1) @@ @],
   c |-> [c EXCEPT !.made = @ + 1, !.op = "done"]]

HandleFork(heap, c) ==
  LET child == heap[c.cur].chs[c.idx] IN
  [heap |-> IF IsLeaf(heap[child]) THEN heap ELSE Copych(heap, child, c.past),
   c |-> [c EXCEPT !.cur = child, !.op = "done"]]

Handle(heap, c) ==
  CASE c.op = "init"   -> Begin(heap, c)
    [] c.op = "search" -> HandleSearch(heap, c)
    [] c.op = "insert" -> HandleInsert(heap, c)
    [] c.op = "fork"   -> HandleFork(heap, c)

-----------------------------------------------------------------------------
(* fat_merge: the leaves of several keys are replaced or inserted in one   *)
(* new version e.  A node made for keys at depth d is called after its     *)
(* smallest key.                                                           *)

KindFor(count) ==
  CASE count <= Cap4 -> "node4" [] Cap4 < count /\ count <= Cap16 -> "node16"
    [] Cap16 < count /\ count <= Cap48 -> "node48" [] count > Cap48 -> "node256"

Merge(heap, root, writes, e) ==
  LET clone(n, d, ver) == [(IF IsLeaf(n) THEN NodeCopy(n, ver) ELSE [n EXCEPT !.ver = ver])
                             EXCEPT !.ofs = d, !.len = End(n) - d]
      merge[old \in DOMAIN heap, ks \in SUBSET DOMAIN writes, d \in 0 .. Width] ==
        LET p      == heap[old]
            k0     == Smallest(ks)
            ends   == {Differ(k0, Largest(ks), d)} \cup
                      (IF old = None THEN {} ELSE {End(p), Differ(k0, p.key, d)})
            branch == Smallest(ends)
            same   == old # None /\ ~ IsLeaf(p) /\ branch = End(p)
            digits == {Part(k, branch, 1) : k \in ks}
            had    == IF same THEN [b \in {x \in DOMAIN p.chs : p.chs[x] # None} |-> p.chs[b]]
                      ELSE IF old = None THEN <<>> ELSE Part(p.key, branch, 1) :> old
            fits   == same /\ (p.kind = "node256" \/ Cardinality(DOMAIN had \cup digits) <= Capacity(p.kind))
            subs   == [b \in digits \cup (IF fits THEN {} ELSE DOMAIN had) |->
                         merge[IF b \in DOMAIN had THEN had[b] ELSE None,
                               {k \in ks : Part(k, branch, 1) = b}, branch + 1]]
            chs    == [b \in DOMAIN subs |-> subs[b].id] @@ had
            new    == IF fits THEN [clone(p, d, e) EXCEPT !.chs = chs]
                      ELSE NewNode(e, KindFor(Cardinality(DOMAIN chs)), d, branch - d, k0, chs)
            Made(id, n, gone) == [id |-> id, new |-> id :> n, retired |-> gone]
        IN
        IF ks = {} THEN IF old = None \/ p.ofs = d THEN [id |-> old, new |-> <<>>, retired |-> <<>>]
                        ELSE Made(<<e, p.key, d>>, clone(p, d, e), <<old>>)
        ELSE IF branch = Width THEN
          Made(<<e, k0, d>>, NewLeaf(writes[k0], d, k0, writes[k0]), IF old = None THEN <<>> ELSE <<old>>)
        ELSE FoldSet(LAMBDA b, acc : [acc EXCEPT !.new = subs[b].new @@ @, !.retired = @ \o subs[b].retired],
                     Made(<<e, k0, d>>, new, IF same THEN <<old>> ELSE <<>>), DOMAIN subs)
      r == merge[root, DOMAIN writes, 0]
  IN  [root |-> r.id, heap |-> r.new @@ heap, retired |-> r.retired]
==================================================================================
