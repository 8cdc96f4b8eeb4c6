# TLA+ verification of Contrees

Contrees is a family of concurrent path-copying search trees (B+Tree, BeTree,
ART, AERT, header-only under `lib/`), the controllers that execute updates on
them, and a driver (`src/`). Clients submit `(key, value)` updates and receive
ticket numbers; a controller executes the tickets so that the tree after ticket
*n* is what sequential execution of tickets 1..n would give; readers pin a
published root and search it without locks; nodes that no reader or writer can
reach any more are freed by version.

## Inventory

| part | source | state | operations |
|---|---|---|---|
| epoch reclaimer | `lib/conctrl/reclamation.hpp` | reader slots, published sequence/root/version, queue of retired batches | `publish`, `pin`, `~read_guard`, `retire`, `try_reclaim`, `get_statistics` |
| SeqCow | `lib/conctrl/seqcow.hpp` | ring of contexts, `n_submitted_`, `n_committed_` | one worker executes tickets in order, batches its publications |
| ConCow | `lib/conctrl/concow.hpp` | ring of contexts and stages, three-role pipe threads, workers, monitor, checkpoint tickets | `update`, entry / inner / exit iterations, worker loop, monitor loop, shutdown |
| ConCow cyclic | `lib/conctrl/concow_cyclic.hpp` | the same ring; every pipe thread takes every role in turn | as above, exit also runs a handler and hands out workers |
| ConCow fat | `lib/conctrl/concow_fat.hpp` | input queue under a mutex, coordinator, worker pool, failure state | enqueue, plan a wave, run groups in parallel, merge, publish |
| worker list | `lib/conctrl/mpsc_list.hpp` | intrusive list with a stub | `push` by workers, `pop` by the exit thread |
| context | `lib/conctrl/context.hpp` | per-ticket record, retired-node list with overflow blocks | `retire_replaced`, `drain_retired` |
| fat value | `lib/common/fat_value.hpp` | versioned values of an ART/AERT leaf | `append`, `read` |
| B+Tree, BeTree, ART, AERT | `lib/trees/*` | nodes | staged copy-on-write update, sequential update, query, build, fat leaves, wave merge |
| adapters, driver | `src/` | - | bind a tree to a controller, options, clients |

How the parts interact. A client draws a ticket from `n_submitted_`, fills the
ring slot `tid % BUFFER_SIZE` and releases it through `stages_`. The monitor
extends the initialised prefix; pipe threads run the first levels of the path
copy of consecutive tickets in a systolic order and the exit hands the ticket to
an idle worker (taken from the worker list), which runs the remaining levels,
one level behind the predecessor's worker. The monitor extends the committed
prefix, retires each ticket's replaced nodes, publishes the last root, then
advances `n_committed_`, which clients, workers and `wait_for_processing` read.
Readers only meet the writers through the reclaimer. In fat mode a leaf carries
slots of versioned values and an update appends to a leaf reachable from old
roots, so a reader needs its root and version as an atomic pair.

What is hard: the reclaimer's scan races with `pin`; ring slots are reused while
other threads hold stale counters; a worker may read a node the predecessor is
still building; values may be published out of order in worker-fat mode; idle
workers travel through a lock-free list; threads stop at different points of a
batch at shutdown; the coordinator of ConCow fat must fail, stop and drain
without losing a wakeup.

What makes each part correct:

- reclaimer: nothing reachable from a live guard or from the published root is
  freed, nothing is freed twice, a guard's root and version belong together, a
  quiet collection frees the whole committed prefix, `pin` gets its snapshot;
- controllers: the published versions are the results of executing the tickets in
  order, every ticket handed out is committed, a ring slot has one user at a time,
  a handler reads complete nodes only, the destructor drains and returns;
- worker list: first in, first out; nobody is lost or returned twice;
- trees: each update retires exactly the nodes it replaced, the tree stays
  balanced and sorted, old versions stay readable in every fat mode, a range read
  agrees with point reads, a checkpoint gives the tree its shape back.

## Modules

| module | what it models | used by |
|---|---|---|
| `Reclaimer` | `epoch_reclaimer`, one atomic access per step | `ReclaimerProofs` |
| `ReclaimerProofs` | the proofs about it | |
| `Cyclic` | ring, monitor, pipe roles and workers of `concow_cyclic` | `CyclicProofs` |
| `Shutdown` | the main loops of `concow_cyclic` and `concow`: requested collections, and how the threads end | `ShutdownProofs` |
| `CyclicProofs`, `ShutdownProofs` | the proofs about those two | |
| `WorkerQueue` | what the idle list promises: a queue | `MpscList` |
| `MpscList` | `mpsc_list`, one memory access per step | `MpscProofs` |
| `MpscProofs` | the proof that it is that queue | |
| `Snapshots` | what every controller promises: ordered versions, kept for ever | `CowTree`, `ConcowFat`, `Seqcow`, `Concow`, `FatTrees` |
| `BTree` | nodes, build, find and the handlers of the B+Tree, as operators | `CowTree`, `FatWave`, `BTreeProofs` |
| `BTreeProofs` | what those operators give, for every B, and what each handler does to the graph of all versions | `CowTreeProofs` |
| `CowTree` | concurrent path copies of that tree in every fat mode | `CowTreeProofs` |
| `CowTreeProofs` | the proofs about it: the invariant of copies that overlap | |
| `FatWave` | wave planning and the merge of a wave of the B+Tree, as operators | `ConcowFat` |
| `ConcowFat` | clients, coordinator, pool, failure and shutdown of `concow_fat` | `ConcowFatProofs` |
| `ConcowFatProofs` | the proofs about its threads | |
| `Seqcow` | `seqcow` with and without fat slots | `SeqcowProofs` |
| `SeqcowProofs` | the proofs about it with fat slots | |
| `UpdateContext` | the context that controllers and handlers share | `BeTree`, `Radix` |
| `BeTree` | BeTree: build, find, scan, handlers, rebuild, merge, as operators | `Trees` |
| `Radix` | digits, prefixes, leaves and their records, shared by the radix trees | `Art`, `Aert` |
| `Art`, `Aert` | ART and AERT: build, find, scan, handlers, merge, as operators | `Trees` |
| `Trees` | the adapters: one interface with the tree as a parameter | `Concow`, `FatTrees` |
| `Concow` | the fixed pipeline with fat entry and checkpoint tickets, on those trees | |
| `FatTrees` | waves and serial updates of `concow_fat` on those trees | |

Each `MC` module holds an instance for TLC; each `.cfg` is one run. Several runs
cover a set of setups: `Init` chooses one and it never changes. A definition with a
suffix, such as `Ready_Always`, is a bug the code could have; no specification uses
it. Replacing a definition by its variant makes the property it is paired with
(in `PROJECT.json`) fail, so that no property holds whatever the code does.

### Reclaimer

A publishing thread executes tickets (`Retire` is `retire`), publishes a run of
them (`PublishBegin`, `PublishRoot`, `PublishVersion`, `PublishEnd` are the four
stores of `publish`) and commits. A reader walks through `pin`: two loads of the
sequence around loads of root and version, the store into its slot, the
validation and the retry. A collector is a thread in `try_reclaim`: `ScanVersion`
and `ScanSlot` are the loads of `oldest_active_reader_`. The critical section of
`retired_mutex_` has four steps (`EnterQueue`, `FreeFront`, `PopFront`, `LeaveQueue`), and
whoever is inside it holds the mutex (`QueueFree`), which `retire` needs too; the nodes
of a batch are freed before it leaves the queue, so that without the mutex two
collectors would free one batch. `INACTIVE` is above every version, as `UINT64_MAX` is.
Roots and batches of nodes are named by their tickets: batch *b* may be
reached from every root older than *b*. `Owner`/`Others` covers both the
single-owner mode of the cyclic controller and collections by any thread.

### Cyclic

`Draw`, `Fill`, `Release` are the steps of `update`; `MonInit` and `MonCommit` the
two scans of `monitor_main_`; `EntryBegin` to `Dispatch` the three roles of a pipe
thread, which thread `q` takes for ticket `t` by `(t - 1) % NPipes`; `WorkerBegin`
to `WorkerPush` the worker's loop. The tree is abstracted to what the scheduling
depends on: how many handlers a ticket needs and which older ticket built the node
its next handler reads, chosen freely within what a path copy can produce. The
thread-local copies of monotone counters are refreshed while waiting; a wait is a
guard on the counter.

### Shutdown

Tickets without handlers: each thread's loop over batches, its test of `stop_` at
a batch boundary, the rest it handles after that, and the monitor with its
bubbles. `rotating` chooses between the two pipelined controllers, which end in
the same way except for the length of a round. The rest of a monitor pass is there
as well: it loads the counter of requests (`LoadRequest`), scans and frees
(`Reclaim`), and acknowledges what it had loaded (`Acknowledge`); clients pin,
unpin, and call `collect_garbage` (`Request`, `Return`). Pinning and scanning are
single steps here, `Reclaimer` has their loads.

### WorkerQueue and MpscList

`MpscList` has a step for each access to `head_` and to a `next` field. The
constructor's list is empty; workers are busy and push themselves, the exit pops
in a loop. It implements `WorkerQueue` (`FirstInFirstOut`): an item enters at its
exchange on `head_` and leaves when `pop` returns it; `pop` may also return null.

### Snapshots, BTree and CowTree

`BTree` has the heap of nodes (keys, children, values, slots with their versions
and pending marks) and one operator for each handler; `CowTree` decides which
handler of which ticket may run: the stages of the pipeline, `wait_stage`, the
four ways an entry may append (`none`, the `barrier` of a committed structural
update, `local` probing of finished paths, reservations executed by a `worker`),
the dispatch, materialization, commit. A handler is a step. It implements
`Snapshots` (`SnapshotsKept`): version *v*, read at any later time, gives what
tickets 1 .. *v* one after the other give.

### FatWave and ConcowFat

`FatWave` is pure: how many updates a leaf can take, how far a wave reaches, the
groups, the merge of the replaced leaves into new ancestors. `ConcowFat` is the
controller around it: clients under `input_mutex_` with `commit_cv_` and
`input_cv_` modelled as sets of sleepers and explicit notifications, the
coordinator's loop, the pool with `generation_`, `remaining_` and the shared group
counter. Wherever memory is allocated the step may throw. It implements
`Snapshots` as well.

### Seqcow

The clients fill the context with plain stores, which without fat slots race with
the worker: the stores take place in any order between the worker's steps. The
tree, a template parameter, is one leaf with values and versioned slots.

### BeTree, Radix, Art and Aert

These are pure: a heap maps names of nodes to records, and each operator is a
function of the repository, from `build` over the handlers to the merge of a wave.
A node is called by the ticket that allocates it and a number, so that a handler
needs no choice. A handler reads the heap as it is when it runs, and leaves nodes
with children missing (`None`) exactly where the code leaves them uninitialised until
the next stage. `wait_child` marks BeTree's boundary nodes. Sorted arrays are functions from
keys or digits; the kinds of radix nodes differ in capacity, in what they do when full,
and in the order in which `copych` copies children. AERT's half nodes and tagged
edges are kept: an edge is a pair of a node and a digit. Finds and scans take a
version and read the slots and records that it may see, the misplaced digit that
AERT's scan compares included.

### Trees, Concow and FatTrees

`Trees` names the operations of the adapters and takes the tree as a parameter.
`Concow` has the fixed pipeline: `Entry` takes the next ticket, appends if
`last_structural_` is committed, else begins a path copy; `CheckpointEntry` is the
ticket at every multiple of `BUFFER_SIZE`, with the rebuild if the monitor has seen
`new_checkpoint`; `Inner`, `Exit`, `Work`, `Finish` and `Commit` are the other threads.
A handler is a step and runs between any steps of other tickets that the stages
allow. The monitor commits one ticket at a time, which publishes more versions than
the code and so checks more. `FatTrees` has a step for a wave and a step for a serial
update, on every split of the updates into waves; threads and locks of the same
controller are in `ConcowFat`.
Both implement `Snapshots`.

## Runs

| run | question | bounds |
|---|---|---|
| `reclaimer_shared` | safety of pin, publish and collect by two threads; `pin` ends | 1 reader, 2 collectors, 3 tickets |
| `cyclic` | ring ownership, stage order, root of the ticket before | ring of 3, 3 pipes, 2 workers, 6 tickets, up to 5 handlers |
| `cyclic_live` | every ticket is committed | ring of 4, 2 pipes, 1 worker, 4 tickets |
| `shutdown` | what is submitted is drained; the destructor returns if stopped within a batch; a requested collection returns and reflects the guards dropped before | both controllers, 3 threads, batches of 3, 6 tickets, or 3 tickets and 2 requests of 1 client |
| `shutdown_stop` | the destructor returns whenever it is called: it does not | both controllers, 2 threads, batches of 2, 3 tickets |
| `mpsc_list` | the list is a queue, and a spinning `pop` gets its item | 3 workers |
| `cow_tree` | concurrent path copies of the B+Tree keep every version | trees of 1 to 4 levels, 2 and 3 pipes, 2 workers, 4 tickets, keys at both ends, five fat modes |
| `concow_fat` | waves keep every version; nobody hangs; the destructor drains | 2 clients, 2 workers, 3 versions, queues of 2 and 3, leaves with and without room |
| `seqcow` | ring, snapshots and progress of the sequential controller | ring of 4, 5 tickets with fat slots and two clients, 4 without |
| `seqcow_slot0` | a query after the last update was processed returns its value without fat slots: it does not | one client, one key, 4 tickets |
| `fixed_pipeline` | BeTree, ART and AERT keep every version under the fixed pipeline; scans, retired nodes, checkpoints | 12 setups, 1 and 2 pipes, 2 workers, rings of 3 to 8, 3 to 5 tickets, 0 to 2 slots |
| `fat_trees` | BeTree, ART and AERT keep every version under waves; scans of every version, retired nodes | 15 setups, 3 or 4 updates, slots 0 and 1, with and without replaced leaves |

Why the bounds are enough. A ring of three or four slots is reused twice by six
tickets, which is what an off-by-one in the reuse needs; three pipe threads are
the fewest with an entry, an inner and an exit, four tickets the fewest on which
roles come round. Handler counts reach past the pipe, so that workers run more than
one handler and finish in every order. Trees are built by `build` with
a node capacity of 3 keys (`Half` = 2; in the code `B` = 8 and 15 keys), and the chosen sizes
have a full leaf, a full last leaf below a node with room, and full nodes on three
levels, so that splits happen at every level including the root; slots per leaf
are 0, 1 and 2 in place of 2, 4 and 8, no more than a leaf can absorb without
making a third leaf. `MaxHeight` is 0 in place of the `E` of BeTree, so that the first
split below a boundary asks for a checkpoint, and rings of 3 and 4 bring a checkpoint
ticket among the five. Radix keys have two digits of five values (ART) or four of three
(AERT), with nodes of 2, 3 and 4 and of 2, 3 and 2 children, so that every kind of
node fills up, and prefixes, forks, splits and tagged edges occur.
A context lists one retired node inline, then blocks of one (`fixed_pipeline`) or two
(`fat_trees`), in place of 6 and 14, so that short paths link several blocks.
One reader against
the publishing thread and two collectors have every pair of steps interleave, and
the theorems cover every number of them, as they do for the rings, threads, workers,
clients and tickets of `Cyclic`, `Shutdown`, `MpscList` and `Seqcow`. `MaxVersion` in
`ConcowFat` is the last version, so the refusal at its end is part of the run.

Some invariants that earlier versions of the runs checked are left to stronger
ones: the type invariants of the controllers (the proofs establish those of the
modules they are about), that `mpsc_list` returns only what was pushed and loses nothing (parts of
`FirstInFirstOut`), and that only finished tickets are committed (its violation
breaks `OneOwner`). `PublishedTreeKept` and `ConsistentPair` without collection
are proved for all parameters and no longer run on an instance of their own.

Fairness. `FairSpec` of each module has weak fairness for each thread: its loops
are spins or waits on condition variables without priorities, and the operating
system keeps running every thread. Clients finish the calls they began but need
not call again; nobody is obliged to call the destructor. `Reclaimer` has it for
`pin` and for the stores inside `publish` only. In `ConcowFat` progress is checked
as a state property (`NobodyHangs`: whenever a thread still has to move, some
thread can; it is also proved), and `StopDrains` on the state after the destructor, because fairness
over heap-valued steps is too expensive to check; this finds lost wakeups and
circular waits but not a loop that spins for ever.

Deadlock checking is off where the modelled threads end or tickets run out.

## Findings

- `shutdown_stop`: pipe threads test `stop_` on their own at
  each batch boundary. If one enters a new batch just before `stop_` is set and the
  thread in front of it leaves at the same boundary, the first waits for ever and
  the destructor never returns. The bubbles help a thread within its batch, not one
  whose predecessor has ended. `CalmDestructorReturns` says when it is safe. Both
  pipelined controllers have it.
- `seqcow_slot0`: without fat slots `update` releases the ticket before it fills
  the context, so the worker may execute an empty or stale one; one client is
  enough. `bench/betree_gc_bench.cpp` runs just that (`seqcow` is its default
  scheduler, built with no fat slots) and checks the value of the last update (lines 196
  and 223), which may fail. The authors know the mechanism: a comment at that place names
  it and keeps the path, and `docs/SEQCOW_BASELINE.md:21` calls its submission unproved.

### Observations

Read in the source while modelling; the runs stay clear of them, and none of them is
checked by a run of its own.

- `aert/query.hpp:71-75`: when a scan meets an embedded digit that its start key does not
  have, it compares that digit with the one of the key at `pfx_ofs`; the embedded
  one is at `pfx_ofs - 4`. A start key in a gap may then get keys before it, or lose keys
  after it: over the keys `i << 60` of `tagged_paths` (`bench/concow_aert_test.cpp`) a scan
  from `0x21 << 56` begins with `0x20 << 56`. That test compares scans with `lower_bound`
  from the keys and their neighbours only, where the digits that follow happen to decide
  right. At `pfx_ofs` 64 the code shifts by a negative count. `TagDigit` models what the
  code does; the runs start scans where it makes no difference.
- `aert/handlers.hpp:37-45`: `handle_split` uses `t_cur` without `extract_ptr`, though
  `update_cow` (line 84) tags it when the node is below a tagged edge.
- AERT in a pipeline: `handle_split` puts the single subtrees of a full NODE16 into the
  upper half one stage after it was made. A follower one stage behind may have copied
  the header of that node before; AERT never sets `wait_child`, which would make it
  wait. The keys of the runs do not bring two tickets through such a node at once.
- `betree/rebuild.hpp:128-133`: whether a leaf is above the boundary is decided on the
  leftmost path. With more than one pipe and a small initial tree another path may
  be shorter, and then the values of a leaf are taken for children. `Small` in `MCConcow` is
  a case where the leftmost path decides rightly.
- ART and AERT return one pair for a scan of no elements; BeTree returns none. Nobody
  calls them so.

## Proofs

`ReclaimerProofs` proves every safety property of `Reclaimer` for any number of
readers, collectors and tickets, with and without collection. It assumes what the
module assumes: natural bounds, Boolean modes, and an owner that is not one of the
other collectors.

`PinnedSafe` is not inductive: a pin may succeed between a collector's scan and its
frees. `IInv` adds why that is harmless. With the sequence lock, a reader whose
first load of the sequence is still current holds exactly the published root and
version (`CandidateOK`), and its slot shows that version from the store on
(`SlotOK`). A collector's running minimum never exceeds the published version, nor
the version of a pinned reader whose slot it has already passed (`FreedInv`,
`PinOK`); a reader that validates later pins the version published, which is at
least that minimum. `FreshOK` carries what had been committed when `pin` began.
From it follow `TypeCorrect`, `NoUseAfterFree`, `AtomicSnapshot`, `SnapshotIsFresh`
and `PublishedTreeKept`.

`DrainInv` adds that one thread at most is inside the critical section of the queue
(`HolderInv`), the order of the queue (freed batches are older than queued ones, but for the
one that is being popped) and, for a collection that began without a guard alive, that
every slot it can meet holds a version no older than the prefix it was asked to free. It
gives the action properties `NoDoubleFree` and `QuietCollectionDrains`.

Each of the following has an `IInv` of which TLC was first asked, on a small
instance of the module, whether every reachable state satisfies it.

`CyclicProofs` proves `OneOwner`, `PreviousRoot` and `StageOrder` for every ring size
from 2, every number of pipe threads from 2, of workers, tickets and handlers. None
is inductive: that two threads do not meet in a slot depends on where all the others are.
`Rank(q, t)` is the position of thread `q` in the chain that handles ticket `t`; it
rotates with `t`, and the lemmas on `Turn` say how. `PipeInv` says
that a thread that passed a ticket comes after every thread of a lower rank for
it; `MonitorInv` and `ClientInv` order the counters; `Progress` ties the handlers a
ticket has run to the threads that passed it and to its `stages_` entry; `WorkerOK`
says that a ticket given to a worker has been passed by all threads. The ring is
the window of the last committed ticket and the `B - 1` after it, whose slots are
distinct.

`ShutdownProofs` proves `Drained` and the action property `CollectReflects` for every
batch, number of threads and clients and for both controllers. `Drained` needs
`ControlInv` (a thread in its last iteration goes up to `nSubmitted`, which no longer
moves), the same chain of ranks (which does not rotate in `concow`) and `CommitInv` (a
ticket is committed once its exit has passed it). `CollectReflects` needs
`CollectInv`: nothing older than what a request waits for is still held when a
pass of the monitor may acknowledge it, and it is reclaimed before that.

`MpscProofs` proves that `mpsc_list` implements `WorkerQueue`. The invariant is the chain of
items from `tail_` to `head_`: it is the abstract queue with the stub after its first
`k` workers, or without the stub, and neighbours are joined by a `next` field or will
be by a push that has exchanged `head_` and not stored the field yet. `ListKeepsWorkers`
says of it that nobody is lost or handed out twice.

`SeqcowProofs` is about `seqcow` with fat slots, for every ring, leaf size, set of keys
and clients and every number of tickets. `RingInv` says what the slots of the tickets in
flight hold and that the root of each executed ticket holds its version; `LeavesInv` that no
leaf has a slot newer than the tickets executed. `SnapshotsKept` follows because an append
is of a version later than all published ones (`NewestHidden`), and because a copy taken from
a leaf gives what that leaf gives at the version before (`NewestStays`, `PromiseStep`).
`ContextSettled` is the part about the ring. `ImplementsSnapshots` maps the
controller to `Snapshots`: the release of a ticket is `Submit`, the publication of a
batch is `Publish`, the rest are stutters. It is stated for `fat`, which no step
changes; without fat slots the ring is a data race (see Findings).

`ConcowFatProofs` is about the threads of `concow_fat`, for any number of clients and workers,
any queue, batch and slots, and whatever the operators on the tree compute. `PoolInv` says
that `remaining_` counts the workers that have not finished the wave (`Active`), whether they
still wait, draw groups or run one, and that it is zero unless the coordinator gathers:
`WorkersQuiescent` follows. `WaitInv` gives each sleeping client a reason, a predicate that
does not hold or a notification still to come, and lets one that is about to sleep hold the
mutex; `CoordinatorInv` says the same of the coordinator and `input_cv_`; `StopInv` orders
the destructor. `NobodyHangs` (over the model's own `CanRun`, which spells the guards out)
and `StopDrains` follow from them. `CoordinatorInv` alone would not do: that a client asleep
on a full queue is not left behind needs that the coordinator, when it sleeps, has committed
the whole log, and so that `committed_` is the end of its batch whenever it fetches.
`OrderInv` follows the numbers: the batch starts after `committed_` and ends within the log, the
waves of a batch follow each other without a gap, and roots are stored for versions up to
`committed_`, or up to `end` while the coordinator is between the two stores. From it
follow `QueueNeverOverflows` (an entry of `queue_` is reused only once it is committed),
`PublishedBeforeCommitted` and the action property `CommitsForward`.

`BTreeProofs` is about the operators of `BTree` that `CowTree` and `FatWave` are made of, for every
B from 2. `BuildSizes`: the groups of `build_internal` take all items in order and have B to
2B-1 of them, although the rest is shared out by a rounded quotient. `FindchBetween`:
`findch` gives the one child between the separators around a key; `LeastNumber` stands in
for an induction along the array. `SplitKeepsRoutes`: when a full child is split on the way
down, the separators of the node above and of both halves stay in order, and every key is
led, in two steps, to the grandchild it was led to before; it assumes what a search tree
gives, the separators of the child lying between those around it, which the
run of `CowTree` observes (`Balanced`, `SnapshotsKept`). `LeafHalves`: an overflowing leaf of up
to 2(2B-1) keys goes into two of legal size; with B = 8 and 8 slots the code
needs 24 of these 30.

The second part of `BTreeProofs` is about trees that share nodes. A ticket in the middle of
its path has a half-made tree: its top nodes are copies, the node it stands on (`cur`) is
a copy that is not filled yet, and below that it still refers to nodes of the version
before, which the next ticket may be copying at the same time. `Good` says what holds of the
heap and all contexts at any such moment:

- `Shapes`: what a context claims about the nodes it stands on is so (for `split`, `cur` has two
  halves at `idx` and `past` is a full inner node, and so on);
- `Settled`: nobody still has to fill the node that a ticket copies from (`past`); `Unready`: a
  node that is still to be filled (`Open`) is not marked as finished;
- `Built`, `Owned`: nodes are well-formed and known to the ticket that made them;
- `Forest`: a child is not newer than its parent, and what is open has no children yet (`Nodes`); one
  ticket at most replaces a node, later than it was made (`Retirements`); it replaces everything
  above as well, or an earlier ticket did (`GoneAbove`); of two parents of a node the older one
  was left by a ticket not later than the newer (`OneParent`);
- `Rooted`: the root of a version is nobody's child, and no ticket up to its own has replaced it;
- `Labels`: every node has a height and the stage at which it was made, and open nodes those of the
  stage of their ticket; so a ticket that may go on finds the node it copies filled.

Reachability is `Below`, the least set closed under the edges that do not start at an
open node (`Shut`); the model's `Reach` is recursive over the heap, and `ReachIs` shows by induction
on the height that both agree. The main lemmas say what one call
does: `MoveGood` for a step of `update_cow` (with or without a split), `EntryGood` for the
three ways `handle_init` copies a root, `BuildGood` for the initial tree, `AppendGood`, and
`StaysGood` for tickets that only move on in the pipeline.

`CowTreeProofs` proves `WritersSafe`, `RetiredExactly` and `NeverStuck` for every B, every set of
trees, keys and modes, and any number of pipes, workers and tickets. None is inductive: that no ticket
meets a freed node depends on what every ticket between the last committed one and this one
still refers to, and on the order in which they go down; and that a committed ticket retired
what its version lost, and nothing else, is decided handler by handler while it is far from
committed. `CowInv` is `Good` with four more parts:

- `Timed`: a ticket is behind the one before, by a stage in the pipe and by what `WaitStage` looks
  at among workers, and tickets that are committed are done;
- `Appends`: the leaf of a reserved slot is below the root its ticket started from, so that it is
  not retired before that ticket is committed;
- `ExactAll`: what each ticket has replaced so far (`Accounts`, on the graph alone). It replaced
  the old root, or kept it; all that it replaced was below the old root, each node once; a child
  of a node it replaced was replaced too, or a finished copy below its own root refers to it.
  Exempt from the last is the one node whose children it has still to copy (`Quit`), and that is
  why the copies that are open have to be below its root (`Opened`): they are where those children
  go;
- `Sized`: no node has more than MaxKeys + 1 children, and one that is copied without a split has
  at most MaxKeys. `SplitChs` hands out 2B children, so with fewer known about the nodes a split
  might drop one, and the nodes below it would neither be retired nor be reached.

When a ticket is done it has no open copies and nothing left to copy. What it replaced,
together with what is below its root, is then closed under children and contains the old root, so
all that was reachable before and is not now has been retired; and nothing it
replaced is below its own root, by `BelowKept`, the lemma behind `WritersSafe`. The other tickets
do not disturb this: they change only copies of their own, and what a copy gets it only adds
to the graph (`IdleExact`, `BelowSpreads`).

`NeverStuck` is a statement about single states: its guards are written out, so it needs neither
`ENABLED` nor fairness. `CowInv` settles most of it. The ticket to be committed next stands behind
tickets that are done, so that no stage and no pipe thread holds it up (`Timed`); it is the first that
the workers take, so one is idle when it needs one. What is left is the materialisation, which
waits for slots and leaves that others write. `SourceInv` says that somebody still writes them:

- `Deferred`: the contexts leave their leaves to workers in the mode that says so, and nowhere else;
- `Reserved`: the ticket named in a slot that is still pending has an append for that slot to do;
- `Ripens`: in that mode, the ticket of a leaf that is not ready, the initial ones excepted, has a
  materialisation to do, and the leaf is one of those that it fills in (`Filling`).

Every handler keeps it, because new leaves come into the heap only together with the operation
that fills them in (`Touches`), and that operation is the only one that marks them. A leaf that the
next ticket to be committed reads was made by an older ticket, so it is ready. A slot in it that is
pending is not an older ticket's, and not its own; and a later ticket found the leaf on a path
from the root before it (`Appends`), where by `BelowKept` nothing is that an older ticket replaced.

The assumptions are those the modules declare: ring, batch and thread counts, for
`MpscList` that stub and null are not workers, for `ConcowFat` that clients, workers and the
two other threads are different and the workers finitely many, for `Seqcow` that there is a
key and that the scenarios are made of its clients and keys, for `CowTree` that there are two
pipes and a worker at least and that the initial contents are sequences of integers. The
constants that bound counters are bounds of the models; no proof depends on how large they are.

Only model-checked: of `CowTree` what lookups in its trees compute (`Balanced`, `SnapshotsKept`),
`Concow`, `FatTrees`, and of `ConcowFat` what depends on the tree (`SnapshotsKept`,
`RetiredExactly`, `ReservationsKept`). `Balanced` and `SnapshotsKept` speak of the order of
keys in whole trees while several tickets are inside them; the proofs about keys stop at
single nodes. Those of the other modules rest on what the recursive functions of
`FatWave`, `BeTree`, `Art` and `Aert` compute for every heap, by induction on its height,
and on operators that the prover takes as opaque (`@@`, sorting, flattening). Out of its reach
is liveness: the temporal properties of all runs stay with TLC for that reason.

## Not modelled

- The driver, options, logging, timing, benchmarks and the YCSB generator: input
  and output around the calls modelled here.
- `update_inplace` of B+Tree and BeTree, sequential baselines that no controller calls
  (those of ART and AERT are modelled, `build` uses them), and range scans of the
  B+Tree.
- `retry` and `wait_subtree` of the context: no tree sets them.
- A full NODE16 of AERT below a tagged edge, and scans of AERT from keys that differ
  from an embedded digit (see Observations).
- The vectorised searches and array layouts of the node kinds; sizes in bytes.
- Memory order weaker than sequential consistency. The models interleave atomic
  accesses; the orders the code requests (acquire, release, consume) are taken to
  be sufficient.
- Statistics counters, and counters that wrap at 32 bits: the pipelined controllers
  refuse the ticket after the last, `seqcow` without fat slots does not.

## Plan

1. Proofs: `Balanced` and `SnapshotsKept` of `CowTree` on top of `CowInv`, with the order of
   the separators along a path; the counters of `Concow`.
2. Proofs: single nodes of the BeTree and of the radix trees as in `BTreeProofs`, where the
   operators are free of recursion and sorting.
3. `update_inplace` of the B+Tree and BeTree and scans of the B+Tree against the path
   copy.
