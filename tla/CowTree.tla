-------------------------------- MODULE CowTree --------------------------------
(***************************************************************************)
(* Concurrent updates of a B+Tree under the cyclic pipeline: which handler *)
(* of which ticket may run when, what the entry of a ticket does in each   *)
(* fat mode, and the tree that results (lib/conctrl/concow_cyclic.hpp,     *)
(* src/adapters/btree.hpp).  A handler is a step; the ring, the monitor    *)
(* and the idle list are in Cyclic and MpscList.                           *)
(***************************************************************************)
EXTENDS BTree

CONSTANTS
  PipeCounts, \* values of N_PIPES
  NWorkers,   \* n_workers_
  MaxTicket,  \* bound on the tickets
  Keys,       \* the keys that updates write
  Modes,      \* how an entry may append, and fat_slots_: a set of records of
              \* fat ("none", "barrier", "local", "worker") and slots
  Contents    \* the keys of the initial trees: sorted sequences

ASSUME PoolAssumption == PipeCounts \subseteq Nat \ {0, 1} /\ NWorkers \in Nat \ {0}
ASSUME ContentsAssumption == \A keys \in Contents : keys \in Seq(Int)

VARIABLES
  nPipes,          \* N_PIPES
  mode,
  first,           \* the initial tree
  heap,
  ctx,             \* contexts, in ticket order; pos counts pipe and worker stages
  committed,       \* n_committed_
  lastStructural   \* last_structural_
vars == <<nPipes, mode, first, heap, ctx, committed, lastStructural>>

Entered == DOMAIN ctx
Root(t) == IF t = 0 THEN first.root ELSE ctx[t].root

Init ==
  /\ nPipes \in PipeCounts /\ mode \in Modes
  /\ first \in {Build(keys) : keys \in Contents}
  /\ heap = first.heap
  /\ ctx = <<>> /\ committed = 0 /\ lastStructural = 0

\* Pipe threads: the thread that runs stage j of a ticket ran stage j + 1 of
\* the ticket before.
Passed(t, j) == t > 0 => ctx[t].at = "finished" \/ ctx[t].pos >= j

\* stages_ of a ticket, and wait_stage on the node that will be copied.
Reached(t, k)   == ctx[t].at = "finished" \/ ctx[t].pos - nPipes >= k
WaitStage(c, k) == LET ver == heap[c.past].ver IN ver > committed => Reached(ver, k)

Task(c) == c.op \in {"append", "materialize"}     \* worker_fat_task

Advanced(c, pos, at) == [c EXCEPT !.pos = pos, !.at = at]

-----------------------------------------------------------------------------
(* Entry: the ticket's first stage, in ticket order.                       *)

Context(t, k) ==
  [sno |-> t, key |-> k, op |-> "init", root |-> None, cur |-> None, past |-> Root(t - 1),
   idx |-> 0, pair |-> FALSE, later |-> mode.fat = "worker", retired |-> <<>>, made |-> 0,
   pos |-> 1, at |-> "pipe"]

\* Whether the entry may use a slot of the leaf it finds.
MayAppend(c) ==
  /\ \/ mode.fat = "barrier" /\ committed >= lastStructural
     \/ mode.fat \in {"local", "worker"} /\ PathReady(heap, c.past, c.key, committed)
  /\ HasRoom(heap[LeafOf(heap, c.past, c.key)], mode.slots)

\* A defect, not used: the leaf of an append is retired as if it were replaced.
TakeSlot_Retired(c) ==
  LET leaf == LeafOf(heap, c.past, c.key)
      n    == AppendSlot(heap[leaf], Slot(c.sno, c.key, IF c.later THEN Unset ELSE c.sno, c.later))
      kept == Retire([c EXCEPT !.root = c.past], leaf)
  IN  [heap |-> [heap EXCEPT ![leaf] = n],
       c |-> IF c.later THEN [kept EXCEPT !.op = "append", !.cur = leaf, !.idx = Len(n.slots)]
             ELSE [kept EXCEPT !.op = "done"]]

\* pipeline_fat_try and handle_init append; pipeline_fat_reserve leaves the value
\* to a worker.  The root stays the same.
TakeSlot(c) ==
  LET leaf == LeafOf(heap, c.past, c.key)
      n    == AppendSlot(heap[leaf], Slot(c.sno, c.key, IF c.later THEN Unset ELSE c.sno, c.later))
      kept == [c EXCEPT !.root = c.past]
  IN  [heap |-> [heap EXCEPT ![leaf] = n],
       c |-> IF c.later THEN [kept EXCEPT !.op = "append", !.cur = leaf, !.idx = Len(n.slots)]
             ELSE [kept EXCEPT !.op = "done"]]

Entry(k) ==
  LET t == Len(ctx) + 1
      c == Context(t, k)
      r == IF MayAppend(c) THEN TakeSlot(c) ELSE HandleInit(heap, c)
  IN
  /\ t <= MaxTicket /\ Passed(t - 1, 2)
  /\ heap' = r.heap
  /\ ctx' = Append(ctx, r.c)
  /\ lastStructural' = IF r.c.root = c.past THEN lastStructural ELSE t
  /\ UNCHANGED <<nPipes, mode, first, committed>>

-----------------------------------------------------------------------------
(* The stages after the entry.                                             *)

\* Run the handler unless the operation is done or waits for a worker.
Run(c) == IF c.op = "done" \/ Task(c) THEN [heap |-> heap, c |-> c] ELSE Handle(heap, c)

Store(t, r, pos, at) ==
  /\ heap' = r.heap
  /\ ctx' = [ctx EXCEPT ![t] = Advanced(r.c, pos, at)]
  /\ UNCHANGED <<nPipes, mode, first, committed, lastStructural>>

CanInner(t) ==
  ctx[t].at = "pipe" /\ ctx[t].pos + 1 < nPipes /\ Passed(t - 1, ctx[t].pos + 2)

Inner(t) == CanInner(t) /\ Store(t, Run(ctx[t]), ctx[t].pos + 1, "pipe")

CanExit(t) ==
  /\ ctx[t].at = "pipe" /\ ctx[t].pos + 1 = nPipes
  /\ ctx[t].op # "done" /\ ~ Task(ctx[t]) => WaitStage(ctx[t], 1)

Exit(t) ==
  /\ CanExit(t)
  /\ IF ctx[t].op = "done" THEN Store(t, Run(ctx[t]), nPipes, "finished")
     ELSE Store(t, Run(ctx[t]), ctx[t].pos, "pop")

\* An idle worker takes the ticket.
CanDispatch(t) ==
  ctx[t].at = "pop" /\ Cardinality({u \in Entered : ctx[u].at = "work"}) < NWorkers

Dispatch(t) ==
  /\ CanDispatch(t)
  /\ ctx' = [ctx EXCEPT ![t] = Advanced(@, nPipes, "work")]
  /\ UNCHANGED <<nPipes, mode, first, heap, committed, lastStructural>>

CanWork(t) ==
  LET c == ctx[t] IN
  /\ c.at = "work" /\ c.op # "done"
  /\ ~ Task(c) => WaitStage(c, c.pos - nPipes + 2)
  /\ c.op = "materialize" => SourceReady(heap, c)

Work(t) == CanWork(t) /\ Store(t, Handle(heap, ctx[t]), ctx[t].pos + 1, "work")

CanFinish(t) == ctx[t].at = "work" /\ ctx[t].op = "done"

Finish(t) ==
  /\ CanFinish(t)
  /\ ctx' = [ctx EXCEPT ![t].at = "finished"]
  /\ UNCHANGED <<nPipes, mode, first, heap, committed, lastStructural>>

CanCommit == committed < Len(ctx) /\ ctx[committed + 1].at = "finished"

Commit ==
  /\ CanCommit
  /\ committed' = committed + 1
  /\ UNCHANGED <<nPipes, mode, first, heap, ctx, lastStructural>>

Step(t) == Inner(t) \/ Exit(t) \/ Dispatch(t) \/ Work(t) \/ Finish(t)

Next == Commit \/ (\E k \in Keys : Entry(k)) \/ \E t \in Entered : Step(t)

Spec == Init /\ [][Next]_vars

-----------------------------------------------------------------------------
AllKeys == Keys \cup first.keys

\* Linearizable snapshots: what a reader that pins version v finds is what the
\* tickets 1 .. v, one after the other, would have written, from the moment v is
\* committed and for ever after, whatever the writers in flight do to the nodes
\* and leaves that their trees share with it.
Promise == INSTANCE Snapshots WITH
  start   <- [k \in AllKeys |-> IF k \in first.keys THEN 0 ELSE Missing],
  log     <- [t \in Entered |-> ctx[t].key],
  version <- committed,
  views   <- [v \in 0 .. committed |-> [k \in AllKeys |-> Find(heap, Root(v), k, v)]]
SnapshotsKept == Promise!Spec

\* Nodes freed at the earliest: replaced by a committed ticket, and no reader.
Freed == UNION {Range(ctx[t].retired) : t \in 1 .. committed}

\* A ticket retires exactly the nodes its version no longer reaches, each once:
\* nothing leaks and nothing in use is freed (retire_replaced).
RetiredExactly ==
  committed > 0 =>
    LET gone == ctx[committed].retired IN
    /\ Range(gone) = Reach(heap, Root(committed - 1)) \ Reach(heap, Root(committed))
    /\ IsInjective(gone)

\* No writer meets a freed node: neither those in flight on their path, nor the
\* next entry, nor a worker that has still to write its slot or read its source.
WritersSafe ==
  /\ Reach(heap, Root(Len(ctx))) \cap Freed = {}
  /\ \A t \in Entered : ctx[t].op # "done" =>
       {ctx[t].past, ctx[t].cur} \cap Freed = {}

\* Every committed tree is a B+Tree: sorted, bounded, and of one height.
Balanced ==
  LET high[n \in DOMAIN heap] ==
        IF heap[n].leaf THEN {1} ELSE {1 + d : d \in UNION {high[c] : c \in Range(heap[n].chs)}}
  IN  /\ Cardinality(high[Root(committed)]) = 1
      /\ \A n \in Reach(heap, Root(committed)) :
           /\ n # None /\ Len(heap[n].keys) <= MaxKeys
           /\ \A i \in 1 .. Len(heap[n].keys) - 1 : heap[n].keys[i] < heap[n].keys[i + 1]
           /\ ~ heap[n].leaf => Len(heap[n].chs) = Len(heap[n].keys) + 1

\* Nobody waits for somebody who waits for him: as long as a ticket is not
\* committed some thread can go on, and every step takes a ticket further.  A
\* materialisation waits only for slots and leaves of tickets with a worker.
NeverStuck ==
  committed < Len(ctx) =>
    \/ CanCommit
    \/ \E t \in Entered : CanInner(t) \/ CanExit(t) \/ CanDispatch(t) \/ CanWork(t) \/ CanFinish(t)
=============================================================================
