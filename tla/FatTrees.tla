--------------------------------- MODULE FatTrees ---------------------------------
(***************************************************************************)
(* What the coordinator of ConCow fat does to BeTree, ART and AERT: waves  *)
(* that append to some leaves and merge replacements of others into one    *)
(* new version, and serial path copies (lib/conctrl/concow_fat.hpp,        *)
(* lib/trees/*/fat_merge.hpp).  Threads and locks are in ConcowFat; here a *)
(* wave is one step.                                                       *)
(***************************************************************************)
EXTENDS Trees

CONSTANT Setups  \* a tree, the number of pipes it is built for, slots, parallel_materialization,
                 \* elements, the keys of the updates and of the starts of scans, a bound on tickets

ASSUME FatTreesAssumption == \A s \in Setups : s.slots \in Nat /\ s.replace \in BOOLEAN

VARIABLES
  setup,
  heap,
  log,      \* the keys of the updates submitted
  roots,    \* the root of each version published
  retired   \* the nodes retired with it
vars == <<setup, heap, log, roots, retired>>

Version == CHOOSE v \in DOMAIN roots : \A u \in DOMAIN roots : u <= v

Init ==
  /\ setup \in Setups /\ log = <<>>
  /\ LET first == Build(setup.tree, setup.elems, setup.pipes)
     IN  heap = first.heap /\ roots = (0 :> first.root)
  /\ retired = (0 :> <<>>)

Submit(k) ==
  /\ Len(log) < setup.tickets
  /\ log' = Append(log, k)
  /\ UNCHANGED <<setup, heap, roots, retired>>

-----------------------------------------------------------------------------
(* plan_wave: the updates from first on, until one does not fit.           *)

First   == Version + 1
Leaf(t) == Target(setup.tree, heap, roots[Version], log[t])

\* Keys without a leaf are groups of their own.
OneGroup(t, u) == Leaf(t) = Leaf(u) /\ (Leaf(t) = None => log[t] = log[u])

Reserved(t) == Cardinality({u \in First .. t - 1 : OneGroup(t, u)})
Room(t)     == Available(setup.tree, heap, Leaf(t), setup.slots)

\* A defect, not used: a leaf that is replaced in this wave still takes updates.
Fits_Replaced(t) == Reserved(t) < Room(t) + (IF setup.replace THEN 2 ELSE 0)

\* A leaf takes one update more than it has slots where waves may replace it.
Fits(t) == Reserved(t) < Room(t) + (IF setup.replace THEN 1 ELSE 0)

End ==
  IF setup.slots = 0 /\ ~ setup.replace THEN First - 1
  ELSE CHOOSE e \in First - 1 .. Len(log) :
         (\A t \in First .. e : Fits(t)) /\ (e < Len(log) => ~ Fits(e + 1))

Replaces(t) == Reserved(t) = Room(t)

Publish(v, r) ==
  /\ heap' = r.heap
  /\ roots' = (v :> r.root) @@ roots
  /\ retired' = (v :> r.retired) @@ retired
  /\ UNCHANGED <<setup, log>>

\* run_wave, then the merge of the leaves that it prepared.
Wave ==
  LET replaced == {t \in First .. End : Replaces(t)}
      appended == FoldFunctionOnSet(LAMBDA t, h : AppendFat(setup.tree, h, Leaf(t), Fresh(t, log[t], None)),
                                    heap, [t \in First .. End |-> t], First .. End \ replaced)
      writes   == [k \in {log[t] : t \in replaced} |-> CHOOSE t \in replaced : log[t] = k]
  IN  /\ First <= End
      /\ Publish(End, IF replaced = {} THEN [root |-> roots[Version], heap |-> appended, retired |-> <<>>]
                      ELSE Merge(setup.tree, appended, roots[Version], writes, End))

\* A defect, not used: the path that the rebuild replaces is not retired.
Rebuilt_PathOnly(r) ==
  LET x == Be!Checkpoint(r.heap, [r.c EXCEPT !.past = r.c.root]) IN
  [root |-> x.c.root, heap |-> x.heap, retired |-> Drained(r.c)]

\* checkpoint_handler on the tree of an update that made a subtree too high.
Rebuilt(r) ==
  LET x == Be!Checkpoint(r.heap, [r.c EXCEPT !.past = r.c.root]) IN
  [root |-> x.c.root, heap |-> x.heap, retired |-> Batch(x.c)]

\* The handlers of an update, one after the other.
RunHandlers(c) ==
  LET run[i \in Nat] ==
        IF i = 0 THEN Begin(setup.tree, heap, c)
        ELSE LET r == run[i - 1] IN IF r.c.op = "done" THEN r ELSE Handle(setup.tree, r.heap, r.c)
  IN  run[Cardinality(DOMAIN heap)]

Outcome(r) ==
  IF r.c.newCheckpoint THEN Rebuilt(r) ELSE [root |-> r.c.root, heap |-> r.heap, retired |-> Batch(r.c)]

\* cow_update
CowUpdate ==
  /\ First <= Len(log) /\ End < First
  /\ Publish(First, Outcome(RunHandlers(Fresh(First, log[First], roots[Version]))))

Next == Wave \/ CowUpdate \/ \E k \in setup.keys : Submit(k)

Spec == Init /\ [][Next]_vars

-----------------------------------------------------------------------------
Held == setup.keys \cup Range(setup.elems)

\* Consistent snapshots: what a reader that pins version v finds is what the
\* tickets 1 .. v would have written one after the other, for ever after v is
\* published, though a wave appends to leaves of older versions and replaces,
\* splits and inserts leaves for several keys at once.
Promise == INSTANCE Snapshots WITH
  start   <- [k \in Held |-> IF k \in Range(setup.elems) THEN 0 ELSE Missing],
  version <- Version,
  views   <- [v \in DOMAIN roots |-> [k \in Held |-> Find(setup.tree, heap, roots[v], k, v)]]
SnapshotsKept == Promise!Spec

\* A range read of a pinned version agrees with point reads, also after later waves
\* appended to its leaves or replaced and split them: the keys from its start on, each
\* once, in order.  (AERT scans start where the digit that aert/query.hpp:72 takes at
\* the wrong place decides nothing.)
ScansExact ==
  \A v \in DOMAIN roots, k \in setup.from :
    Scan(setup.tree, heap, roots[v], k, 99, v) =
      ScanOfFinds(setup.tree, heap, roots[v], Held, k, 99, v)

\* A version retires exactly the nodes that it replaces, those included that a
\* merge or an update made and its rebuild replaced at once, each of them once.
RetiredExactly ==
  Version > 0 =>
    LET before == roots[CHOOSE u \in DOMAIN roots \ {Version} : \A x \in DOMAIN roots \ {Version} : x <= u]
        fresh  == {n \in DOMAIN heap : n[1] = Version}
    IN  /\ Range(retired[Version]) =
             (Reach(setup.tree, heap, before) \cup fresh) \ Reach(setup.tree, heap, roots[Version])
        /\ IsInjective(retired[Version])
===================================================================================
