--------------------------------- MODULE BeTree ---------------------------------
(***************************************************************************)
(* The BeTree of lib/trees/betree: a B+Tree whose upper levels never split *)
(* between two checkpoints.  The nodes of one level, the boundary, keep    *)
(* their children; below it subtrees grow higher (height), and once one is *)
(* higher than E a checkpoint rebuilds the levels above.  Leaves may have  *)
(* versioned slots.  The sorted arrays of a leaf are a function of keys.   *)
(***************************************************************************)
EXTENDS UpdateContext

CONSTANTS
  Half,      \* B: at most 2B - 1 keys in a node
  MaxHeight  \* E

MaxKeys == 2 * Half - 1

Node(ver, type, verge, height, keys, chs, items) ==
  [ver |-> ver, type |-> type, verge |-> verge, height |-> height,
   keys |-> keys, chs |-> chs, items |-> items, slots |-> <<>>]

Leaf(ver, verge, items) == Node(ver, "leaf", verge, 0, <<>>, <<>>, items)

NewRoot(ver, type, verge, height, key, ch0, ch1) ==
  Node(ver, type, verge, height, <<key>>, <<ch0, ch1>>, <<>>)

NoNode == Leaf(0, 0, <<>>)

\* copy_internal: the children are left to the next stage.
Copied(n, ver) == [n EXCEPT !.ver = ver, !.chs = [i \in DOMAIN @ |-> None]]

\* The child that key belongs to.
Findch(n, key) == 1 + Cardinality({i \in DOMAIN n.keys : n.keys[i] <= key})

IsLeaf(n) == n.type = "leaf"

Reach(heap, root) == Closure(DOMAIN heap, root, LAMBDA n : Range(heap[n].chs))

-----------------------------------------------------------------------------
(* Reading                                                                 *)

\* The leaf of key.
Target(heap, root, key) ==
  LET down[n \in DOMAIN heap] ==
        IF IsLeaf(heap[n]) THEN n ELSE down[heap[n].chs[Findch(heap[n], key)]]
  IN  down[root]

\* The newest record of each key of a leaf at version: its items have the leaf's
\* own version, slots not yet published or of later tickets are passed over.
Visible(n, version) ==
  LET seen    == {s \in Range(n.slots) : 0 < s.ver /\ s.ver <= version}
      over(k) == {s \in seen : s.key = k /\ (k \in DOMAIN n.items => s.ver >= n.ver)}
  IN  [k \in DOMAIN n.items \cup {s.key : s \in seen} |->
         IF over(k) = {} THEN n.items[k]
         ELSE (CHOOSE s \in over(k) : \A r \in over(k) : r.ver <= s.ver).val]

Find(heap, root, key, version) ==
  LET seen == Visible(heap[Target(heap, root, key)], version)
  IN  IF key \in DOMAIN seen THEN seen[key] ELSE Missing

\* The rest of a node: the child of key from key on, those after it entirely.
ScanFrom(chs, i, below, search) ==
  search[chs[i]] \o FlattenSeq([j \in 1 .. Len(chs) - i |-> below[chs[i + j]]])

\* At most n pairs of a key not before key and its value, in order.
Scan(heap, root, key, n, version) ==
  LET Pairs(m) == LET seen == Visible(heap[m], version)
                      ks   == Ascending(DOMAIN seen)
                  IN  [i \in DOMAIN ks |-> <<ks[i], seen[ks[i]]>>]
      below[m \in DOMAIN heap] ==
        IF IsLeaf(heap[m]) THEN Pairs(m)
        ELSE FlattenSeq([i \in DOMAIN heap[m].chs |-> below[heap[m].chs[i]]])
      search[m \in DOMAIN heap] ==
        IF IsLeaf(heap[m]) THEN SelectSeq(Pairs(m), LAMBDA p : p[1] >= key)
        ELSE ScanFrom(heap[m].chs, Findch(heap[m], key), below, search)
      all == search[root]
  IN  SubSeq(all, 1, IF n < Len(all) THEN n ELSE Len(all))

-----------------------------------------------------------------------------
(* Slots                                                                   *)

Available(n, capacity) == capacity - Len(n.slots)

\* The key and the value are written first, the version last.
AppendSlot(n, c) == [n EXCEPT !.slots = Append(@, [ver |-> c.sno, key |-> c.key, val |-> c.sno])]

-----------------------------------------------------------------------------
(* build: n sorted items are put into nodes of about B items each, level   *)
(* by level, until one node is left.  The nodes at depth h are boundaries. *)

Groups(n) == IF n < 2 * Half THEN 1 ELSE n \div Half
GroupStart(n, i) == IF i = Groups(n) THEN n ELSE i * Half + (i * (n % Half)) \div Groups(n)

Cut(items) ==
  LET n == Len(items) IN
  [i \in 1 .. Groups(n) |-> SubSeq(items, GroupStart(n, i - 1) + 1, GroupStart(n, i))]

Kind(depth, h) == IF depth < h THEN "upper" ELSE IF depth = h THEN "boundary" ELSE "lower"

\* build_internal on subtrees of a heap, each with the lowest key it may hold.
Raise(heap, subtrees, h, sno) ==
  LET level[l \in Nat] ==
        IF l = 0 THEN subtrees
        ELSE LET cut == Cut(level[l - 1]) IN
             [i \in DOMAIN cut |-> [low |-> cut[i][1].low, id |-> <<sno, 100 * l + i>>, of |-> cut[i]]]
      top  == CHOOSE l \in 1 .. Len(subtrees) :
                Len(level[l]) = 1 /\ \A k \in 1 .. l - 1 : Len(level[k]) > 1
      made == UNION {{[item |-> level[l][i], depth |-> top - l] : i \in DOMAIN level[l]} : l \in 1 .. top}
      Of(m) == LET subs == m.item.of IN
               Node(0, Kind(m.depth, h), IF m.depth = 0 THEN h ELSE 0, 0,
                    [i \in 1 .. Len(subs) - 1 |-> subs[i + 1].low], [i \in DOMAIN subs |-> subs[i].id], <<>>)
  IN  [root |-> level[top][1].id,
       heap |-> [n \in {m.item.id : m \in made} |-> Of(CHOOSE m \in made : m.item.id = n)] @@ heap]

\* build_sorted; elems maps keys to values.
BuildSorted(heap, elems, h, sno) ==
  LET cut  == Cut(Ascending(DOMAIN elems))
      Id(i) == <<sno, 50 + i>>
      made == [n \in {Id(i) : i \in DOMAIN cut} |->
                 Leaf(0, IF Len(cut) = 1 THEN h ELSE 0, Restrict(elems, Range(cut[n[2] - 50])))] @@ heap
  IN  IF Len(cut) = 1 THEN [root |-> Id(1), heap |-> made]
      ELSE Raise(made, [i \in DOMAIN cut |-> [low |-> cut[i][1], id |-> Id(i)]], h, sno)

Build(keys, h) == BuildSorted(None :> NoNode, [k \in keys |-> 0], h, 0)

-----------------------------------------------------------------------------
(* rebuild: a checkpoint makes the levels down to the boundary anew.       *)

\* unfold_elems
Unfold(heap, root, version) ==
  LET seen == {Visible(heap[n], version) : n \in {m \in Reach(heap, root) : IsLeaf(heap[m])}}
  IN  [k \in UNION {DOMAIN f : f \in seen} |-> (CHOOSE f \in seen : k \in DOMAIN f)[k]]

\* A defect, not used: what is below a boundary is taken as it is, however high.
Flat_Always(n) == TRUE

\* A subtree of height 0 below a boundary is not taken apart.
Flat(n) == n.height = 0

\* Lists of subtrees, one for each child, and the separators between them.
Join(keys, lists) ==
  FlattenSeq([i \in DOMAIN lists |-> IF i = 1 THEN lists[1] ELSE [lists[i] EXCEPT ![1].low = keys[i - 1]]])

\* unfold_upper_part, unfold_extra: the subtrees of height 0 below the boundary.
\* A leaf above the boundary is taken for an internal node: its values are read
\* as children.
UnfoldUpper(heap, root) ==
  LET extra[n \in DOMAIN heap] ==
        IF Flat(heap[n]) THEN <<[low |-> 0, id |-> n]>>
        ELSE Join(heap[n].keys, [i \in DOMAIN heap[n].chs |-> extra[heap[n].chs[i]]])
      upper[n \in DOMAIN heap] ==
        LET chs == heap[n].chs IN
        IF IsLeaf(heap[n]) THEN <<[low |-> 0, id |-> None]>>
        ELSE IF heap[n].type = "boundary" THEN Join(heap[n].keys, [i \in DOMAIN chs |-> extra[chs[i]]])
        ELSE Join(heap[n].keys, [i \in DOMAIN chs |-> upper[chs[i]]])
  IN  upper[root]

\* Only the leftmost path is looked at.
LeafOverBoundary(heap, root, h) ==
  LET down[i \in 0 .. h] ==
        IF i = 0 THEN root
        ELSE LET n == down[i - 1] IN IF IsLeaf(heap[n]) THEN n ELSE heap[n].chs[1]
  IN  IsLeaf(heap[down[h]])

Rebuild(heap, root, sno) ==
  LET h == heap[root].verge IN
  IF LeafOverBoundary(heap, root, h) THEN BuildSorted(heap, Unfold(heap, root, sno), h, sno)
  ELSE Raise(heap, UnfoldUpper(heap, root), h, sno)

\* visit_checkpoint_retired: what the rebuilt tree does not share.
CheckpointRetired(heap, root) ==
  LET after(n, lists) == FlattenSeq(lists) \o <<n>>
      entire[n \in DOMAIN heap] == after(n, [i \in DOMAIN heap[n].chs |-> entire[heap[n].chs[i]]])
      extra[n \in DOMAIN heap] ==
        IF Flat(heap[n]) THEN <<>>
        ELSE after(n, [i \in DOMAIN heap[n].chs |-> extra[heap[n].chs[i]]])
      upper[n \in DOMAIN heap] ==
        after(n, [i \in DOMAIN heap[n].chs |->
                    IF heap[n].type = "boundary" THEN extra[heap[n].chs[i]] ELSE upper[heap[n].chs[i]]])
  IN  IF LeafOverBoundary(heap, root, heap[root].verge) THEN entire[root] ELSE upper[root]

\* checkpoint_handler, and what is retired with the context.
Checkpoint(heap, c) ==
  LET r == Rebuild(heap, c.past, c.sno) IN
  [heap |-> r.heap,
   c |-> [c EXCEPT !.root = r.root, !.rebuilt = TRUE, !.op = "done",
                   !.checkpointed = CheckpointRetired(heap, c.past)]]

-----------------------------------------------------------------------------
(* Handlers                                                                *)

Halves(all) ==
  LET ks == Ascending(DOMAIN all)
      m  == Len(ks) \div 2
  IN  <<Restrict(all, Range(SubSeq(ks, 1, m))), Restrict(all, Range(SubSeq(ks, m + 1, Len(ks))))>>

\* update_leaf_cow, materialize_leaf_cow: the one or two leaves that replace n.
LeafParts(n, c) ==
  LET all == (c.key :> c.sno) @@ Visible(n, c.sno) IN
  IF Cardinality(DOMAIN all) <= MaxKeys THEN <<Leaf(c.sno, n.verge, all)>>
  ELSE <<Leaf(c.sno, 0, Halves(all)[1]), Leaf(c.sno, 0, Halves(all)[2])>>

FirstKey(leaf) == CHOOSE k \in DOMAIN leaf.items : \A j \in DOMAIN leaf.items : k <= j

\* Child i of n replaced by one or by two nodes, sep between them.
Install(n, i, sep, nodes) ==
  [n EXCEPT
     !.chs  = SubSeq(@, 1, i - 1) \o nodes \o SubSeq(@, i + 1, Len(@)),
     !.keys = IF Len(nodes) = 1 THEN @ ELSE InsertAt(@, i, sep)]

\* A full node's halves; their children are copied by copych_split.
SplitNode(n, ver) ==
  LET Part(keys) == Node(ver, "lower", 0, n.height, keys, [i \in 1 .. Half |-> None], <<>>)
  IN  <<Part(SubSeq(n.keys, 1, Half - 1)), Part(SubSeq(n.keys, Half + 1, MaxKeys))>>
SplitChs(chs) == <<SubSeq(chs, 1, Half), SubSeq(chs, Half + 1, 2 * Half)>>

\* update_upper_cow: New(c, 1) replaces t_past.  A leaf that splits becomes a boundary.
UpdateUpper(heap, c) ==
  LET p    == heap[c.past]
      ls   == LeafParts(p, c)
      from == [Retire(c, c.past) EXCEPT !.made = @ + 3, !.cur = New(c, 1)]
  IN
  IF ~ IsLeaf(p) THEN
    [heap |-> New(c, 1) :> Copied(p, c.sno) @@ heap,
     c |-> [from EXCEPT !.waitChild = p.type = "boundary",
                        !.op = IF p.type = "boundary" THEN "elastic" ELSE "upper"]]
  ELSE IF Len(ls) = 1 THEN
    [heap |-> New(c, 1) :> ls[1] @@ heap, c |-> [from EXCEPT !.op = "done"]]
  ELSE
    [heap |-> New(c, 1) :> NewRoot(c.sno, "boundary", p.verge, 0, FirstKey(ls[2]), New(c, 2), New(c, 3)) @@
              New(c, 2) :> ls[1] @@ New(c, 3) :> ls[2] @@ heap,
     c |-> [from EXCEPT !.op = "done"]]

\* concurrent_fat_cow_begin; handle_init when it does not append.
Begin(heap, c) == [UpdateUpper(heap, c) EXCEPT !.c.root = New(c, 1)]

\* update_lower_cow: the child of the fresh node t_cur that key belongs to.
UpdateLower(heap, c) ==
  LET i    == Findch(heap[c.cur], c.key)
      past == heap[c.cur].chs[i]
      p    == heap[past]
      ls   == LeafParts(p, c)
      from == [Retire(c, past) EXCEPT !.past = past, !.made = @ + 2]
      Put(new, sep, n) ==
        new @@ (c.cur :> Install(heap[c.cur], i, sep, [j \in 1 .. n |-> New(c, j)])) @@ heap
  IN
  IF IsLeaf(p) THEN
    [heap |-> Put([n \in {New(c, j) : j \in DOMAIN ls} |-> ls[n[2] - c.made]], FirstKey(ls[Len(ls)]), Len(ls)),
     c |-> [from EXCEPT !.op = "done"]]
  ELSE IF Len(p.keys) = MaxKeys THEN
    [heap |-> Put(New(c, 1) :> SplitNode(p, c.sno)[1] @@ New(c, 2) :> SplitNode(p, c.sno)[2], p.keys[Half], 2),
     c |-> [from EXCEPT !.idx = i, !.op = "split"]]
  ELSE
    [heap |-> Put(New(c, 1) :> Copied(p, c.sno), 0, 1),
     c |-> [from EXCEPT !.cur = New(c, 1), !.op = "lower"]]

HandleUpper(heap, c) ==
  LET chs == heap[c.past].chs
      i   == Findch(heap[c.past], c.key)
  IN  [UpdateUpper([heap EXCEPT ![c.cur].chs = chs], [c EXCEPT !.past = chs[i]])
         EXCEPT !.heap[c.cur].chs[i] = New(c, 1)]

\* The height of a subtree that gets a new root.
Grown(height) == height + 1

\* handle_elastic: a child of the boundary.  If it splits it gets a root of its own.
HandleElastic(heap, c) ==
  LET chs  == heap[c.past].chs
      i    == Findch(heap[c.past], c.key)
      past == chs[i]
      p    == heap[past]
      ls   == LeafParts(p, c)
      high == Grown(p.height)
      from == [Retire(c, past) EXCEPT !.past = past, !.made = @ + 3]
      Put(new) == new @@ (c.cur :> [heap[c.cur] EXCEPT !.chs = [chs EXCEPT ![i] = New(c, 1)]]) @@ heap
      Pair(sep, two) == New(c, 1) :> NewRoot(c.sno, "lower", 0, high, sep, New(c, 2), New(c, 3)) @@
                        New(c, 2) :> two[1] @@ New(c, 3) :> two[2]
  IN
  IF IsLeaf(p) THEN
    IF Len(ls) = 1 THEN [heap |-> Put(New(c, 1) :> ls[1]), c |-> [from EXCEPT !.op = "done"]]
    ELSE [heap |-> Put(Pair(FirstKey(ls[2]), ls)),
          c |-> [from EXCEPT !.op = "done", !.newCheckpoint = high > MaxHeight]]
  ELSE IF Len(p.keys) < MaxKeys THEN
    UpdateLower(Put(New(c, 1) :> [p EXCEPT !.ver = c.sno]), [from EXCEPT !.cur = New(c, 1)])
  ELSE
    LET halves == [j \in 1 .. 2 |-> [SplitNode(p, c.sno)[j] EXCEPT !.chs = SplitChs(p.chs)[j]]] IN
    UpdateLower(Put(Pair(p.keys[Half], halves)),
                [from EXCEPT !.cur = IF c.key < p.keys[Half] THEN New(c, 2) ELSE New(c, 3),
                             !.newCheckpoint = high > MaxHeight])

HandleLower(heap, c) == UpdateLower([heap EXCEPT ![c.cur].chs = heap[c.past].chs], c)

HandleSplit(heap, c) ==
  LET cs  == SplitChs(heap[c.past].chs)
      two == SubSeq(heap[c.cur].chs, c.idx, c.idx + 1)
      sel == IF heap[c.cur].keys[c.idx] <= c.key THEN 2 ELSE 1
  IN  UpdateLower([heap EXCEPT ![two[1]].chs = cs[1], ![two[2]].chs = cs[2]], [c EXCEPT !.cur = two[sel]])

Handle(heap, c) ==
  CASE c.op = "init"    -> Begin(heap, c)
    [] c.op = "upper"   -> HandleUpper(heap, c)
    [] c.op = "elastic" -> HandleElastic(heap, c)
    [] c.op = "lower"   -> HandleLower(heap, c)
    [] c.op = "split"   -> HandleSplit(heap, c)

-----------------------------------------------------------------------------
(* fat_merge: several prepared leaves, at most one for each leaf of the    *)
(* tree, are merged into one new version e.  writes maps keys to tickets.   *)

\* internal_like with count children: one node, or two if they are too many, and
\* the separator between them.
Pack(n, e, keys, chs) ==
  LET Like(ks, cs) == [n EXCEPT !.ver = e, !.keys = ks, !.chs = cs]
      m == Len(chs) \div 2
  IN  IF Len(chs) <= 2 * Half THEN [nodes |-> <<Like(keys, chs)>>, sep |-> 0]
      ELSE [nodes |-> <<Like(SubSeq(keys, 1, m - 1), SubSeq(chs, 1, m)),
                        Like(SubSeq(keys, m + 1, Len(keys)), SubSeq(chs, m + 1, Len(chs)))>>,
            sep |-> keys[m]]

\* Only below a boundary two nodes that replace one get a parent of their own.
Wrapped(n) == n.type = "boundary"

\* The nodes of one or two that replace n, called <<e, n, j>>, beside the others
\* that were made and retired below.
Replacing(n, parts, made, gone, e) ==
  [ids |-> [j \in DOMAIN parts.nodes |-> <<e, n, j>>], sep |-> parts.sep,
   new |-> [m \in {<<e, n, j>> : j \in DOMAIN parts.nodes} |-> parts.nodes[m[3]]] @@ made,
   retired |-> Append(gone, n)]

\* A defect, not used: the separator is taken from the left half.
MergeLeaf_LeftKey(n, parts, e) ==
  Replacing(n, [nodes |-> parts, sep |-> FirstKey(parts[1])], <<>>, <<>>, e)

\* A leaf replaced by one or two prepared ones.
MergeLeaf(n, parts, e) ==
  Replacing(n, [nodes |-> parts, sep |-> FirstKey(parts[Len(parts)])], <<>>, <<>>, e)

\* sub is what replaces each child of node n, p; those in wide become two, those
\* in wrap get a root.
MergeInternal(p, n, sub, wide, wrap, heap, e) ==
  LET Root(i) == <<e, p.chs[i], 3>>
      seps  == FlattenSeq([i \in DOMAIN sub |-> (IF i = 1 THEN <<>> ELSE <<p.keys[i - 1]>>) \o
                                                (IF i \in wide \ wrap THEN <<sub[i].sep>> ELSE <<>>)])
      chs   == FlattenSeq([i \in DOMAIN sub |-> IF i \in wrap THEN <<Root(i)>> ELSE sub[i].ids])
      Grow(i, child) == NewRoot(e, "lower", child.verge, Grown(child.height), sub[i].sep, sub[i].ids[1], sub[i].ids[2])
      roots == [m \in {Root(i) : i \in wrap} |-> Grow(CHOOSE i \in wrap : Root(i) = m, heap[m[2]])]
  IN  Replacing(n, Pack(p, e, seps, chs), FoldSeq(LAMBDA s, acc : s.new @@ acc, roots, sub),
                FlattenSeq([i \in DOMAIN sub |-> sub[i].retired]), e)

\* What replaces the tree of root; leaf maps the keys written to their leaves.
MergeAt(heap, root, writes, leaf, e) ==
  LET Key(n)   == CHOOSE k \in DOMAIN writes : leaf[k] = n
      Wide(sub) == {i \in DOMAIN sub : Len(sub[i].ids) = 2}
      Internal(n, sub) ==
        MergeInternal(heap[n], n, sub, Wide(sub), IF Wrapped(heap[n]) THEN Wide(sub) ELSE {}, heap, e)
      at[n \in DOMAIN heap] ==
        IF Reach(heap, n) \cap Range(leaf) = {} THEN [ids |-> <<n>>, sep |-> 0, new |-> <<>>, retired |-> <<>>]
        ELSE IF IsLeaf(heap[n]) THEN MergeLeaf(n, LeafParts(heap[n], Fresh(writes[Key(n)], Key(n), n)), e)
        ELSE Internal(n, [i \in DOMAIN heap[n].chs |-> at[heap[n].chs[i]]])
  IN  at[root]

\* The tree of r, what replaces root: its one node, or a root above its two.
MergedRoot(heap, root, r, e) ==
  LET old == heap[root]
      top == IF Len(r.ids) = 1 THEN r.ids[1] ELSE <<e, root, 4>>
      above == IF IsLeaf(old) THEN NewRoot(e, "boundary", old.verge, 0, r.sep, r.ids[1], r.ids[Len(r.ids)])
               ELSE NewRoot(e, old.type, old.verge, Grown(old.height), r.sep, r.ids[1], r.ids[Len(r.ids)])
  IN  [root    |-> top,
       heap    |-> r.new @@ heap @@ (top :> above),
       high    |-> \E n \in DOMAIN r.new : n[3] = 3 /\ r.new[n].height > MaxHeight,
       retired |-> r.retired]

\* A subtree that grew too high is followed by a rebuild.
Settled(t, e) ==
  IF t.high THEN Rebuild(t.heap, t.root, e) @@ [retired |-> t.retired \o CheckpointRetired(t.heap, t.root)]
  ELSE t

\* fat_merge::build
Merge(heap, root, writes, e) ==
  LET leaf == [k \in DOMAIN writes |-> Target(heap, root, k)] IN
  Settled(MergedRoot(heap, root, MergeAt(heap, root, writes, leaf, e), e), e)
================================================================================
