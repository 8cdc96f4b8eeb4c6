-------------------------------- MODULE FatWave --------------------------------
(***************************************************************************)
(* What the coordinator of ConCow fat computes while its workers are at    *)
(* rest (lib/conctrl/concow_fat.hpp, lib/trees/btree/fat_merge.hpp): the   *)
(* groups of a wave, a serial path copy, and the merge of the leaves that  *)
(* the workers of a wave prepared.  A group has its leaf, the tickets that *)
(* write to it in order, whether the last one replaces the leaf, and the   *)
(* leaves that replace it.                                                 *)
(***************************************************************************)
EXTENDS BTree

\* A defect, not used: slots that are taken count as free.
Available_All(n, slots) == slots

\* Slots left in a leaf.
Available(n, slots) == slots - Len(n.slots)

\* The prefix of tickets that fits: the first one that does not ends the wave.
\* A leaf takes one update more than it has slots where waves may replace it.
WaveEnd(heap, root, log, first, last, slots, replace) ==
  LET leaf == [t \in first .. last |-> LeafOf(heap, root, log[t])]
      Fits(t) == Cardinality({u \in first .. t - 1 : leaf[u] = leaf[t]})
                   < Available(heap[leaf[t]], slots) + (IF replace THEN 1 ELSE 0)
  IN  CHOOSE e \in first - 1 .. last :
        (\A t \in first .. e : Fits(t)) /\ (e < last => ~ Fits(e + 1))

PlanGroups(heap, root, log, first, end, slots) ==
  LET leaf    == [t \in first .. end |-> LeafOf(heap, root, log[t])]
      starts  == {t \in first .. end : \A u \in first .. t - 1 : leaf[u] # leaf[t]}
      Group(s) ==
        LET ops == SetToSortSeq({t \in first .. end : leaf[t] = leaf[s]}, <)
        IN  [leaf |-> leaf[s], ops |-> ops, new |-> <<>>,
             materialize |-> Len(ops) = Available(heap[leaf[s]], slots) + 1]
      order == SetToSortSeq(starts, <)
  IN  [i \in DOMAIN order |-> Group(order[i])]

\* cow_update runs the handlers one after the other.
CowUpdate(heap, root, t, key) ==
  LET c == [sno |-> t, key |-> key, op |-> "init", root |-> None, cur |-> None, past |-> root,
            idx |-> 0, pair |-> FALSE, later |-> FALSE, retired |-> <<>>, made |-> 0]
      run[i \in Nat] ==
        IF i = 0 THEN HandleInit(heap, c)
        ELSE LET r == run[i - 1] IN IF r.c.op = "done" THEN r ELSE Handle(r.heap, r.c)
  IN  run[Cardinality(DOMAIN heap)]

\* prepare_fat_leaf: what replaces a leaf, reached by no one yet.
PrepareLeaves(heap, leaf, t, key) ==
  LET ls == NewLeaves(heap[leaf], t, key, t, FALSE)
  IN  [n \in {<<t, i>> : i \in DOMAIN ls} |-> ls[n[2]]]

-----------------------------------------------------------------------------
(* fat_merge: copy once every internal node above a leaf that is replaced. *)

PathOf(heap, root, key) ==
  LET down[n \in DOMAIN heap] ==
        {n} \cup (IF heap[n].leaf THEN {} ELSE down[heap[n].chs[Findch(heap[n], key)]])
  IN  down[root]

Merge(heap, root, changes, routes, e) ==
  LET replaced == UNION {PathOf(heap, root, routes[i]) : i \in DOMAIN changes}
      inner    == {n \in replaced : ~ heap[n].leaf}
      \* The one or two nodes that stand in for n, and the key between two.
      up[n \in replaced] ==
        IF heap[n].leaf THEN
          LET new == (CHOOSE g \in Range(changes) : g.leaf = n).new
          IN  [ids |-> new, sep |-> heap[new[Len(new)]].keys[1]]
        ELSE
          LET chs == FlattenSeq([i \in DOMAIN heap[n].chs |->
                       LET ch == heap[n].chs[i] IN IF ch \in replaced THEN up[ch].ids ELSE <<ch>>])
              keys == FlattenSeq([i \in DOMAIN heap[n].chs |->
                        LET ch == heap[n].chs[i] IN
                        (IF i = 1 THEN <<>> ELSE <<heap[n].keys[i - 1]>>) \o
                        (IF ch \in replaced /\ Len(up[ch].ids) = 2 THEN <<up[ch].sep>> ELSE <<>>)])
              half == Len(chs) \div 2
          IN  IF Len(chs) <= 2 * Half
              THEN [ids |-> << <<e, n, 1>> >>, sep |-> 0, nodes |-> <<Internal(e, keys, chs)>>]
              ELSE [ids |-> << <<e, n, 1>>, <<e, n, 2>> >>, sep |-> keys[half],
                    nodes |-> <<Internal(e, SubSeq(keys, 1, half - 1), SubSeq(chs, 1, half)),
                                Internal(e, SubSeq(keys, half + 1, Len(keys)),
                                            SubSeq(chs, half + 1, Len(chs)))>>]
      top  == up[root]
      made == [id \in UNION {Range(up[n].ids) : n \in inner} |-> up[id[2]].nodes[id[3]]]
  IN  [retired |-> replaced,
       root    |-> IF Len(top.ids) = 1 THEN top.ids[1] ELSE <<e, 0>>,
       heap    |-> (IF Len(top.ids) = 1 THEN <<>> ELSE <<e, 0>> :> Internal(e, <<top.sep>>, top.ids))
                     @@ made @@ heap]
=============================================================================
