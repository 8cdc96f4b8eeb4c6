---------------------------------- MODULE Trees ----------------------------------
(***************************************************************************)
(* The interface by which a controller knows a tree (src/adapters): what a *)
(* specification over several trees calls, with the tree as a parameter.   *)
(* BeTree, ART and AERT have it; the B+Tree is composed in CowTree.        *)
(***************************************************************************)
EXTENDS UpdateContext

CONSTANTS
  Half, MaxHeight,              \* BeTree
  ArtBase, ArtWidth, ArtCaps,   \* the digits of ART; what NODE4, NODE16 and NODE48 hold
  AertBase, AertWidth, AertCaps \* the digits of AERT; what NODE4, NODE16 and NODEH4 hold

ASSUME TreeAssumption ==
  /\ Half \in Nat /\ Half >= 2 /\ MaxHeight \in Nat
  /\ {ArtBase, ArtWidth, AertBase, AertWidth} \subseteq Nat \ {0}
  /\ \A c \in {ArtCaps, AertCaps} : 2 <= c[1] /\ c[1] < c[2]
  /\ ArtCaps[2] < ArtCaps[3] /\ ArtCaps[3] < ArtBase
  /\ AertCaps[3] <= AertBase /\ AertCaps[2] <= AertBase * AertBase

Be == INSTANCE BeTree
Ar == INSTANCE Art WITH Base <- ArtBase, Width <- ArtWidth,
        Cap4 <- ArtCaps[1], Cap16 <- ArtCaps[2], Cap48 <- ArtCaps[3]
Ae == INSTANCE Aert WITH Base <- AertBase, Width <- AertWidth,
        Cap4 <- AertCaps[1], Cap16 <- AertCaps[2], CapH4 <- AertCaps[3]

\* build: a root and a heap from the keys of elems in their order.
Build(tree, elems, pipes) ==
  CASE tree = "betree" -> Be!Build(Range(elems), pipes - 1)
    [] tree = "art"    -> Ar!Build(elems)
    [] tree = "aert"   -> Ae!Build(elems)

Find(tree, heap, root, key, version) ==
  CASE tree = "betree" -> Be!Find(heap, root, key, version)
    [] tree = "art"    -> Ar!Find(heap, root, key, version)
    [] tree = "aert"   -> Ae!Find(heap, root, key, version)

Scan(tree, heap, root, key, n, version) ==
  CASE tree = "betree" -> Be!Scan(heap, root, key, n, version)
    [] tree = "art"    -> Ar!Scan(heap, root, key, n, version)
    [] tree = "aert"   -> Ae!Scan(heap, root, key, n, version)

\* concurrent_fat_target
Target(tree, heap, root, key) ==
  CASE tree = "betree" -> Be!Target(heap, root, key)
    [] tree = "art"    -> Ar!Target(heap, root, key)
    [] tree = "aert"   -> Ae!Target(heap, root, key)

\* concurrent_fat_available; no leaf has no slots.
Available(tree, heap, n, slots) ==
  IF n = None THEN 0 ELSE slots - Len(IF tree = "betree" THEN heap[n].slots ELSE heap[n].fat)

\* concurrent_fat_append: t_past stays the root.
AppendFat(tree, heap, n, c) ==
  [heap EXCEPT ![n] = IF tree = "betree" THEN Be!AppendSlot(@, c) ELSE Ar!FatAppend(@, c)]

\* concurrent_fat_cow_begin; pipeline_fat_begin and handlers[INIT] when they do not append.
Begin(tree, heap, c) ==
  CASE tree = "betree" -> Be!Begin(heap, c)
    [] tree = "art"    -> Ar!Begin(heap, c)
    [] tree = "aert"   -> Ae!Begin(heap, c)

\* handlers
Handle(tree, heap, c) ==
  CASE tree = "betree" -> Be!Handle(heap, c)
    [] tree = "art"    -> Ar!Handle(heap, c)
    [] tree = "aert"   -> Ae!Handle(heap, c)

\* concurrent_fat_merge
Merge(tree, heap, root, writes, e) ==
  CASE tree = "betree" -> Be!Merge(heap, root, writes, e)
    [] tree = "art"    -> Ar!Merge(heap, root, writes, e)
    [] tree = "aert"   -> Ae!Merge(heap, root, writes, e)

\* The nodes that a reader of root may meet.
Reach(tree, heap, root) ==
  (CASE tree = "betree" -> Be!Reach(heap, root)
     [] tree = "art"    -> Ar!Reach(heap, root)
     [] tree = "aert"   -> Ae!Reach(heap, root)) \ {None}

\* No node of the tree waits for its children.
Whole(tree, heap, root) ==
  \A n \in Reach(tree, heap, root) :
    (IF tree = "aert" THEN Ae!Plain(None) ELSE None) \notin Range(heap[n].chs)

\* What n elements from key on are, by what finds give for each of the keys.
ScanOfFinds(tree, heap, root, keys, key, n, version) ==
  LET ks == Ascending({k \in keys : k >= key /\ Find(tree, heap, root, k, version) # Missing})
  IN  [i \in 1 .. (IF n < Len(ks) THEN n ELSE Len(ks)) |->
         <<ks[i], Find(tree, heap, root, ks[i], version)>>]
==================================================================================
