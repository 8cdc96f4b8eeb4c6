---------------------------------- MODULE Concow ----------------------------------
(***************************************************************************)
(* The fixed pipeline (lib/conctrl/concow.hpp) on the trees that it runs:  *)
(* a thread for each stage, workers for the rest of a ticket, and every    *)
(* BUFFER_SIZE-th ticket a checkpoint.  A handler is a step; clients, the  *)
(* idle list and the shutdown are in MpscList and Shutdown.                *)
(***************************************************************************)
EXTENDS Trees

CONSTANTS
  Setups,    \* a tree, n_pipes_, fat_slots_, BUFFER_SIZE, the elements it is built
             \* from, the keys of the updates, those that scans start from, and a
             \* bound on the tickets
  NWorkers   \* n_workers_

ASSUME ConcowAssumption ==
  /\ NWorkers \in Nat \ {0}
  /\ \A s \in Setups : s.pipes \in Nat \ {0} /\ s.slots \in Nat /\ s.ring \in Nat \ {0, 1} /\ s.tickets \in Nat

VARIABLES
  setup,
  first,           \* the initial tree
  heap,
  ctx,             \* contexts, in ticket order; pos counts pipe and worker stages
  committed,       \* n_committed_
  lastStructural,  \* last_structural_
  checkpoint,      \* checkpoint_
  lastCheckpoint   \* last_checkpoint of the entry thread
vars == <<setup, first, heap, ctx, committed, lastStructural, checkpoint, lastCheckpoint>>

Entered == DOMAIN ctx
Root(t) == IF t = 0 THEN first.root ELSE ctx[t].root

Init ==
  /\ setup \in Setups
  /\ first = Build(setup.tree, setup.elems, setup.pipes)
  /\ heap = first.heap
  /\ ctx = <<>> /\ committed = 0 /\ lastStructural = 0 /\ checkpoint = 0 /\ lastCheckpoint = 0

\* Each stage has one thread, which takes the tickets in their order.
Passed(t, j) == t > 0 => ctx[t].at = "finished" \/ ctx[t].pos >= j

\* stages_ of a ticket: 0 until a worker has run a handler.
Stage(t) == IF ctx[t].at = "finished" THEN setup.tickets + 99 ELSE ctx[t].pos - setup.pipes - 1

\* wait_version and wait_stage on the node that will be copied.
WaitVersion(n) == heap[n].ver <= committed
WaitStage(c, k) == LET ver == heap[c.past].ver IN ver > committed => Stage(ver) >= k

Advanced(c, pos, at) == [c EXCEPT !.pos = pos, !.at = at]

-----------------------------------------------------------------------------
(* pipe_entry_iter_                                                        *)

NoKey == -1
Context(t, k) == Fresh(t, k, Root(t - 1)) @@ [pos |-> 1, at |-> "pipe"]

NextTicket == Len(ctx) + 1

\* update: a client waits until the context of its ticket is free.
CanEnter == NextTicket <= setup.tickets /\ NextTicket < committed + setup.ring

IsCheckpoint(t) == t % setup.ring = 0

\* A defect, not used: slots are used though structural updates are in flight.
Ready_Always == TRUE

\* Every structural update before is committed.
Ready == committed >= lastStructural

Entry(k) ==
  LET c    == Context(NextTicket, k)
      leaf == Target(setup.tree, heap, c.past, k)
      r    == IF setup.slots > 0 /\ Ready /\ Available(setup.tree, heap, leaf, setup.slots) > 0
              THEN [heap |-> AppendFat(setup.tree, heap, leaf, c),
                    c |-> [c EXCEPT !.root = c.past, !.op = "done"]]
              ELSE Begin(setup.tree, heap, c)
  IN
  /\ CanEnter /\ ~ IsCheckpoint(NextTicket)
  /\ heap' = r.heap
  /\ ctx' = Append(ctx, r.c)
  /\ lastStructural' = IF setup.slots = 0 \/ r.c.root = c.past THEN lastStructural ELSE NextTicket
  /\ UNCHANGED <<setup, first, committed, checkpoint, lastCheckpoint>>

CheckpointDue == lastCheckpoint < checkpoint

\* The tree before is complete once its newest node is committed.
CanRebuild == WaitVersion(Root(Len(ctx)))

\* A ticket without an update.  If a subtree grew too high it rebuilds the tree.
CheckpointEntry ==
  LET c == Context(NextTicket, NoKey)
      r == Be!Checkpoint(heap, c)
  IN
  /\ CanEnter /\ IsCheckpoint(NextTicket)
  /\ CheckpointDue => CanRebuild
  /\ IF CheckpointDue
     THEN /\ heap' = r.heap /\ ctx' = Append(ctx, r.c)
          /\ lastStructural' = NextTicket /\ lastCheckpoint' = NextTicket
     ELSE /\ ctx' = Append(ctx, [c EXCEPT !.root = c.past, !.op = "done"])
          /\ UNCHANGED <<heap, lastStructural, lastCheckpoint>>
  /\ UNCHANGED <<setup, first, committed, checkpoint>>

-----------------------------------------------------------------------------
(* The stages after the entry.                                             *)

Store(t, r, pos, at) ==
  /\ heap' = r.heap
  /\ ctx' = [ctx EXCEPT ![t] = Advanced(r.c, pos, at)]
  /\ UNCHANGED <<setup, first, committed, lastStructural, checkpoint, lastCheckpoint>>

Same(t) == [heap |-> heap, c |-> ctx[t]]

\* pipe_inner_iter_: what is below a boundary is left to the workers.
CanInner(t) == ctx[t].at = "pipe" /\ ctx[t].pos < setup.pipes /\ Passed(t - 1, ctx[t].pos + 1)

Inner(t) ==
  /\ CanInner(t)
  /\ Store(t, IF ctx[t].op = "done" \/ ctx[t].waitChild THEN Same(t) ELSE Handle(setup.tree, heap, ctx[t]),
           ctx[t].pos + 1, "pipe")

\* A defect, not used: a worker does not come back to the idle list.
Busy_Kept == {u \in Entered : ctx[u].at = "work" \/ (ctx[u].at = "finished" /\ ctx[u].pos > setup.pipes + 1)}

\* The tickets that have a worker.
Busy == {u \in Entered : ctx[u].at = "work"}

\* pipe_exit_iter_: a ticket that is not done waits for an idle worker.
CanExit(t) ==
  /\ ctx[t].at = "pipe" /\ ctx[t].pos = setup.pipes /\ Passed(t - 1, setup.pipes + 1)
  /\ ctx[t].op # "done" => Cardinality(Busy) < NWorkers

Exit(t) ==
  CanExit(t) /\ Store(t, Same(t), setup.pipes + 1, IF ctx[t].op = "done" THEN "finished" ELSE "work")

\* A defect, not used: workers forget that stage k of a ticket leaves the children
\* of the node at k to its next stage.
Behind_Never(c) == 0

\* wait_child
Behind(c) == IF c.waitChild THEN 1 ELSE 0

\* worker_main_, worker_exec
CanWork(t) ==
  LET c == ctx[t] IN
  c.at = "work" /\ c.op # "done" /\ WaitStage(c, c.pos - setup.pipes + Behind(c))

Work(t) == CanWork(t) /\ Store(t, Handle(setup.tree, heap, ctx[t]), ctx[t].pos + 1, "work")

CanFinish(t) == ctx[t].at = "work" /\ ctx[t].op = "done"
Finish(t) == CanFinish(t) /\ Store(t, Same(t), ctx[t].pos, "finished")

\* monitor_main_
CanCommit == committed < Len(ctx) /\ ctx[committed + 1].at = "finished"

Commit ==
  /\ CanCommit
  /\ committed' = committed + 1
  /\ checkpoint' = IF ctx[committed'].newCheckpoint THEN committed' ELSE checkpoint
  /\ UNCHANGED <<setup, first, heap, ctx, lastStructural, lastCheckpoint>>

Step(t) == Inner(t) \/ Exit(t) \/ Work(t) \/ Finish(t)

Next ==
  \/ CheckpointEntry \/ Commit
  \/ \E k \in setup.keys : Entry(k)
  \/ \E t \in Entered : Step(t)

Spec == Init /\ [][Next]_vars

-----------------------------------------------------------------------------
Held == setup.keys \cup Range(setup.elems)

\* Linearizable snapshots: what a reader that pins version v finds is what the
\* updates among the tickets 1 .. v, one after the other, would have written,
\* from the moment v is committed and for ever after, whatever later tickets
\* append to its leaves or do to the nodes they share with it, and whichever
\* levels a checkpoint makes anew.  NoKey stands for the checkpoint tickets.
Promise == INSTANCE Snapshots WITH
  start   <- [k \in Held \cup {NoKey} |-> IF k \in Range(setup.elems) THEN 0 ELSE Missing],
  log     <- [t \in Entered |-> ctx[t].key],
  version <- committed,
  views   <- [v \in 0 .. committed |-> [k \in Held \cup {NoKey} |->
                IF k # NoKey THEN Find(setup.tree, heap, Root(v), k, v)
                ELSE IF v < setup.ring THEN Missing ELSE v - (v % setup.ring)]]
SnapshotsKept == Promise!Spec

\* A range read agrees with point reads: at the version last published, whatever
\* later tickets have appended to its leaves, it gives the keys from its start on,
\* each once, in order, with the values that finds give.  (AERT scans start where the
\* digit that aert/query.hpp:72 takes at the wrong place decides nothing.)
ScansExact ==
  \A k \in setup.from, n \in {2, 99} :
    Scan(setup.tree, heap, Root(committed), k, n, committed) =
      ScanOfFinds(setup.tree, heap, Root(committed), Held, k, n, committed)

\* A ticket retires exactly the nodes its version no longer reaches, each once,
\* and a checkpoint those that the rebuilt levels replace: nothing leaks and
\* nothing in use is freed (retire_replaced, free_checkpoint).
RetiredExactly ==
  committed > 0 =>
    LET gone == Batch(ctx[committed]) IN
    /\ Range(gone) = Reach(setup.tree, heap, Root(committed - 1)) \ Reach(setup.tree, heap, Root(committed))
    /\ IsInjective(gone)

\* After a checkpoint the tree has its shape again: all leaves at one depth,
\* boundaries at the depth of the pipeline and nowhere else, every subtree
\* below a boundary of height 0, no node too big or without children.
CheckpointRestores ==
  committed > 0 /\ ctx[committed].rebuilt =>
    LET level[d \in Nat] ==
          IF d = 0 THEN {Root(committed)} ELSE UNION {Range(heap[n].chs) : n \in level[d - 1]}
        deep == CHOOSE d \in 0 .. 9 : level[d] # {} /\ level[d + 1] = {}
    IN  /\ heap[Root(committed)].verge = setup.pipes - 1
        /\ \A d \in 0 .. deep : \A n \in level[d] :
             /\ Be!IsLeaf(heap[n]) <=> d = deep
             /\ d < deep => /\ heap[n].type = Be!Kind(d, setup.pipes - 1)
                            /\ Len(heap[n].keys) \in 1 .. Be!MaxKeys
                            /\ Len(heap[n].chs) = Len(heap[n].keys) + 1
             /\ heap[n].height = 0 /\ Cardinality(DOMAIN heap[n].items) <= Be!MaxKeys

\* The entry reads a whole tree whenever it reads more than a root: to append it
\* walks down the tree that the tickets before it make, and a checkpoint unfolds
\* that tree, while pipes and workers still fill other tickets' nodes.
EntrySeesWhole ==
  (setup.slots > 0 /\ Ready) \/ (CheckpointDue /\ CanRebuild) =>
    Whole(setup.tree, heap, Root(Len(ctx)))

\* Nobody waits for somebody who waits for him: as long as a ticket is not
\* committed some thread can go on, and every step takes a ticket further, so the
\* ring, the exit that waits for a worker, and the checkpoint that waits for the
\* version before it all go on in the end.
NeverStuck ==
  committed < Len(ctx) =>
    \/ CanCommit
    \/ \E t \in Entered : CanInner(t) \/ CanExit(t) \/ CanWork(t) \/ CanFinish(t)
===================================================================================
