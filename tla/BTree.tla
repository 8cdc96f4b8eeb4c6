-------------------------------- MODULE BTree --------------------------------
(***************************************************************************)
(* The B+Tree of lib/trees/btree: nodes in a heap, the versioned slots of  *)
(* a fat leaf, lookup at a snapshot version, and the staged copy-on-write  *)
(* handlers of an update.  A handler copies one node of the path; a child  *)
(* array that the next handler has still to copy holds None.               *)
(***************************************************************************)
EXTENDS Integers, FiniteSets, Sequences, SequencesExt, TLC

CONSTANT Half   \* B: at most 2B - 1 keys in a node

ASSUME NodeAssumption == Half \in Nat /\ Half >= 2

MaxKeys == 2 * Half - 1
None    == <<0, 0>>    \* no node; what is read there holds nothing
Missing == -1          \* std::nullopt
Unset   == -2          \* an uninitialised value

Leaf(ver, keys, vals) ==
  [ver |-> ver, leaf |-> TRUE, keys |-> keys, vals |-> vals, chs |-> <<>>,
   ready |-> FALSE, slots |-> <<>>]

Internal(ver, keys, chs) ==
  [ver |-> ver, leaf |-> FALSE, keys |-> keys, vals |-> <<>>, chs |-> chs,
   ready |-> FALSE, slots |-> <<>>]

Unbuilt(keys) == [i \in 1 .. Len(keys) + 1 |-> None]

\* A heap with new nodes, or nodes anew.
Over(heap, new) ==
  [n \in DOMAIN heap \cup DOMAIN new |-> IF n \in DOMAIN new THEN new[n] ELSE heap[n]]

\* The child that key belongs to.
Findch(n, key) == 1 + Cardinality({i \in DOMAIN n.keys : n.keys[i] <= key})

-----------------------------------------------------------------------------
(* Reading                                                                 *)

LeafOf(heap, root, key) ==
  LET down[n \in DOMAIN heap] ==
        IF heap[n].leaf THEN n ELSE down[heap[n].chs[Findch(heap[n], key)]]
  IN  down[root]

\* No internal node on the path of key is unfinished.
PathReady(heap, root, key, committed) ==
  LET down[n \in DOMAIN heap] ==
        \/ heap[n].leaf
        \/ /\ heap[n].ver <= committed \/ heap[n].ready
           /\ down[heap[n].chs[Findch(heap[n], key)]]
  IN  down[root]

Newest(slots) == CHOOSE s \in slots : \A r \in slots : r.ver <= s.ver

BaseValue(n, key) ==
  IF \E i \in DOMAIN n.keys : n.keys[i] = key
  THEN n.vals[CHOOSE i \in DOMAIN n.keys : n.keys[i] = key]
  ELSE Missing

\* A reader that pinned version: the newest published slot not after it, or
\* else the leaf's own value.
Find(heap, root, key, version) ==
  LET n    == heap[LeafOf(heap, root, key)]
      seen == {s \in Range(n.slots) : s.key = key /\ ~ s.pending /\ s.ver <= version}
      base == BaseValue(n, key)
  IN  IF seen = {} \/ (base # Missing /\ Newest(seen).ver < n.ver) THEN base
      ELSE Newest(seen).val

Reach(heap, root) ==
  LET below[n \in DOMAIN heap] == {n} \cup UNION {below[c] : c \in Range(heap[n].chs)}
  IN  below[root]

-----------------------------------------------------------------------------
(* build: n sorted items, keys or subtrees, are put into nodes of about    *)
(* Half items each, level by level, until one node is left.                *)

Groups(n) == IF n < 2 * Half THEN 1 ELSE n \div Half
GroupStart(n, i) == IF i = Groups(n) THEN n ELSE i * Half + (i * (n % Half)) \div Groups(n)

Build(keys) ==
  LET last == Len(keys) + 1
      size[level \in 0 .. last] == IF level = 0 THEN Len(keys) ELSE Groups(size[level - 1])
      low[level \in 0 .. last, i \in 0 .. last] ==
        IF level = 0 THEN keys[i + 1] ELSE low[level - 1, GroupStart(size[level - 1], i)]
      top == CHOOSE level \in 1 .. last : size[level] = 1 /\ \A l \in 1 .. level - 1 : size[l] > 1
      Id(level, i) == <<0, level, i>>
      Node(level, i) ==
        LET from == GroupStart(size[level - 1], i)
            next == GroupStart(size[level - 1], i + 1)
        IN  IF level = 1 THEN Leaf(0, SubSeq(keys, from + 1, next), [j \in 1 .. next - from |-> 0])
            ELSE Internal(0, [j \in 1 .. next - from - 1 |-> low[level - 1, from + j]],
                             [j \in 1 .. next - from |-> Id(level - 1, from + j - 1)])
  IN  [root |-> Id(top, 0), keys |-> Range(keys),
       heap |-> [n \in {None} \cup UNION {{Id(l, i) : i \in 0 .. size[l] - 1} : l \in 1 .. top} |->
                   IF n = None THEN Leaf(0, <<>>, <<>>) ELSE Node(n[2], n[3])]]

-----------------------------------------------------------------------------
(* Slots                                                                   *)

HasRoom(n, capacity) == Len(n.slots) < capacity

Slot(sno, key, val, pending) == [ver |-> sno, key |-> key, val |-> val, pending |-> pending]

AppendSlot(n, s) == [n EXCEPT !.slots = Append(@, s)]

-----------------------------------------------------------------------------
(* One or two leaves that replace leaf n when ticket sno writes key.       *)

Overlay(n, sno) == {s \in Range(n.slots) : s.ver <= sno}

\* A defect, not used: a leaf one key too large.
Halves_OneTooMany(keys) ==
  IF Len(keys) <= MaxKeys + 1 THEN <<keys>>
  ELSE <<SubSeq(keys, 1, Len(keys) \div 2), SubSeq(keys, Len(keys) \div 2 + 1, Len(keys))>>

Halves(keys) ==
  IF Len(keys) <= MaxKeys THEN <<keys>>
  ELSE <<SubSeq(keys, 1, Len(keys) \div 2), SubSeq(keys, Len(keys) \div 2 + 1, Len(keys))>>

NewKeys(n, sno, key) ==
  Halves(SetToSortSeq(Range(n.keys) \cup {s.key : s \in Overlay(n, sno)} \cup {key}, <))

\* Slots are taken in ticket order, so the newest is the one reserved last.
NewValue(n, sno, key, val, k) ==
  LET over == {s \in Overlay(n, sno) : s.key = k}
  IN  IF k = key THEN val ELSE IF over # {} THEN Newest(over).val ELSE BaseValue(n, k)

\* update_leaf_cow.  A leaf that a worker fills in later has no values yet.
NewLeaves(n, sno, key, val, later) ==
  LET keys == NewKeys(n, sno, key) IN
  [i \in DOMAIN keys |->
     Leaf(sno, keys[i], [j \in DOMAIN keys[i] |->
       IF later THEN Unset ELSE NewValue(n, sno, key, val, keys[i][j])])]

-----------------------------------------------------------------------------
(* Handlers.  A context c of ticket sno has: key, op, root, cur (t_cur),   *)
(* past (t_past), idx (split_idx), pair (leaf_pair), later (worker_fat),   *)
(* retired, and made, the number of nodes it allocated.  A handler maps    *)
(* a heap and a context to a record of both.                               *)

New(c, i) == <<c.sno, c.made + i>>

\* Child i of n replaced by one or by two nodes, sep between them.
Install(n, i, sep, nodes) ==
  [n EXCEPT
     !.chs  = SubSeq(@, 1, i - 1) \o nodes \o SubSeq(@, i + 1, Len(@)),
     !.keys = IF Len(nodes) = 1 THEN @ ELSE InsertAt(@, i, sep)]

SplitKeys(keys) == <<SubSeq(keys, 1, Half - 1), SubSeq(keys, Half + 1, MaxKeys)>>
SplitChs(chs)   == <<SubSeq(chs, 1, Half), SubSeq(chs, Half + 1, 2 * Half)>>

\* A defect, not used: only the inline entries are kept, here two of them.
Retire_InlineOnly(c, n) == IF Len(c.retired) < 2 THEN [c EXCEPT !.retired = Append(@, n)] ELSE c

Retire(c, n) == [c EXCEPT !.retired = Append(@, n)]

UpdateCow(heap, c) ==
  LET cur   == heap[c.cur]
      i     == Findch(cur, c.key)
      past  == cur.chs[i]
      p     == heap[past]
      down  == Retire([c EXCEPT !.past = past], past)
      Put(n, new) == Over([heap EXCEPT ![c.cur] = [n EXCEPT !.ready = TRUE]], new)
  IN
  IF p.leaf THEN
    LET ls    == NewLeaves(p, c.sno, c.key, c.sno, c.later)
        nodes == [j \in DOMAIN ls |-> New(c, j)]
    IN  [heap |-> Put(Install(cur, i, ls[Len(ls)].keys[1], nodes),
                      [n \in Range(nodes) |-> ls[n[2] - c.made]]),
         c |-> [down EXCEPT !.made = @ + Len(ls), !.idx = i, !.pair = Len(ls) = 2,
                            !.op = IF c.later THEN "materialize" ELSE "done"]]
  ELSE IF Len(p.keys) = MaxKeys THEN
    LET ks == SplitKeys(p.keys) IN
    [heap |-> Put(Install(cur, i, p.keys[Half], <<New(c, 1), New(c, 2)>>),
                  [n \in {New(c, 1), New(c, 2)} |->
                     Internal(c.sno, ks[n[2] - c.made], Unbuilt(ks[n[2] - c.made]))]),
     c |-> [down EXCEPT !.made = @ + 2, !.idx = i, !.op = "split"]]
  ELSE
    [heap |-> Put(Install(cur, i, 0, <<New(c, 1)>>),
                  [n \in {New(c, 1)} |-> Internal(c.sno, p.keys, Unbuilt(p.keys))]),
     c |-> [down EXCEPT !.made = @ + 1, !.cur = New(c, 1), !.op = "down"]]

\* handle_init_cow: copy the root, which may be a leaf or full.
HandleInit(heap, c) ==
  LET p    == heap[c.past]
      from == Retire(c, c.past)
  IN
  IF p.leaf THEN
    LET ls   == NewLeaves(p, c.sno, c.key, c.sno, c.later)
        pair == Len(ls) = 2
        root == IF pair THEN New(c, 3) ELSE New(c, 1)
        top  == [Internal(c.sno, <<ls[Len(ls)].keys[1]>>, <<New(c, 1), New(c, 2)>>)
                   EXCEPT !.ready = c.later]
    IN  [heap |-> Over(heap, [n \in {New(c, j) : j \in DOMAIN ls} \cup {root} |->
                                IF n = New(c, 3) THEN top ELSE ls[n[2]]]),
         c |-> [from EXCEPT !.made = 3, !.root = root, !.idx = 1, !.pair = pair,
                            !.cur = IF pair THEN root ELSE None,
                            !.op = IF c.later THEN "materialize" ELSE "done"]]
  ELSE IF Len(p.keys) < MaxKeys THEN
    UpdateCow(Over(heap, [n \in {New(c, 1)} |-> Internal(c.sno, p.keys, p.chs)]),
              [from EXCEPT !.made = 1, !.root = New(c, 1), !.cur = New(c, 1)])
  ELSE
    LET ks  == SplitKeys(p.keys)
        cs  == SplitChs(p.chs)
        sel == IF c.key < p.keys[Half] THEN 1 ELSE 2
        top == [Internal(c.sno, <<p.keys[Half]>>, <<New(c, 1), New(c, 2)>>) EXCEPT !.ready = TRUE]
        new == [n \in {New(c, 1), New(c, 2), New(c, 3)} |->
                  IF n = New(c, 3) THEN top
                  ELSE [Internal(c.sno, ks[n[2]], cs[n[2]]) EXCEPT !.ready = n[2] # sel]]
    IN  UpdateCow(Over(heap, new),
                  [from EXCEPT !.made = 3, !.root = New(c, 3), !.cur = New(c, sel)])

\* handle_search_down: the copied node gets its children, then one of them goes on.
HandleDown(heap, c) ==
  UpdateCow([heap EXCEPT ![c.cur].chs = heap[c.past].chs], c)

\* handle_search_split: so do both halves of a full node.
HandleSplit(heap, c) ==
  LET cs   == SplitChs(heap[c.past].chs)
      two  == <<heap[c.cur].chs[c.idx], heap[c.cur].chs[c.idx + 1]>>
      sel  == IF heap[c.cur].keys[c.idx] <= c.key THEN 2 ELSE 1
  IN  UpdateCow([heap EXCEPT ![two[1]].chs = cs[1], ![two[2]].chs = cs[2],
                             ![two[3 - sel]].ready = TRUE],
                [c EXCEPT !.cur = two[sel]])

\* handle_fat_append: write the reserved slot, then publish it.
HandleAppend(heap, c) ==
  [heap |-> [heap EXCEPT ![c.cur].slots[c.idx] = Slot(c.sno, c.key, c.sno, FALSE)],
   c |-> [c EXCEPT !.op = "done"]]

\* Defects, not used: pending slots are not waited for; the initial leaves, never
\* marked as ready, are.
SourceReady_Pending(heap, c) == LET n == heap[c.past] IN n.ver = 0 \/ n.ready
SourceReady_First(heap, c) ==
  LET n == heap[c.past]
  IN  n.ready /\ \A s \in Range(n.slots) : ~ s.pending

\* handle_materialize may read its source: base and reserved slots are there.
SourceReady(heap, c) ==
  LET n == heap[c.past]
  IN  (n.ver = 0 \/ n.ready) /\ \A s \in Range(n.slots) : ~ s.pending

HandleMaterialize(heap, c) ==
  LET left  == IF c.cur = None THEN c.root ELSE heap[c.cur].chs[c.idx]
      nodes == {left} \cup (IF c.pair THEN {heap[c.cur].chs[c.idx + 1]} ELSE {})
      Fill(n) == [n EXCEPT !.ready = TRUE, !.vals = [j \in DOMAIN n.keys |->
                     NewValue(heap[c.past], c.sno, c.key, c.sno, n.keys[j])]]
  IN  [heap |-> Over(heap, [n \in nodes |-> Fill(heap[n])]),
       c |-> [c EXCEPT !.op = "done"]]

Handle(heap, c) ==
  CASE c.op = "init"        -> HandleInit(heap, c)
    [] c.op = "down"        -> HandleDown(heap, c)
    [] c.op = "split"       -> HandleSplit(heap, c)
    [] c.op = "append"      -> HandleAppend(heap, c)
    [] c.op = "materialize" -> HandleMaterialize(heap, c)
=============================================================================
