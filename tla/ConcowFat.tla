------------------------------- MODULE ConcowFat -------------------------------
(***************************************************************************)
(* ConCow fat, the ordered-wave controller (lib/conctrl/concow_fat.hpp):   *)
(* clients queue updates under a mutex, a coordinator plans waves of them, *)
(* a pool of workers runs the groups of a wave, and the coordinator merges *)
(* the result and publishes it; any of them may fail.  A critical section  *)
(* is a step; a client that is about to sleep on commit_cv_ still holds    *)
(* input_mutex_.  The waits of the pool are on their predicates, which     *)
(* change under pool_mutex_ and are always notified.                       *)
(***************************************************************************)
EXTENDS FatWave

CONSTANTS
  Clients,     \* threads that may use the controller
  Workers,     \* the pool: opts_.workers threads
  MinGroups,   \* opts_.parallel_min_groups
  MaxVersion,  \* UINT32_MAX, the last ticket
  Setups       \* records of opts_: queue_capacity, batch_size, slots and
               \* parallel_materialization; of the clients there are and what they
               \* call; the keys of the initial tree, and those that updates write

ASSUME OptionsAssumption ==      \* validate()
  /\ {Cardinality(Workers), MinGroups} \subseteq Nat \ {0}
  /\ \A o \in Setups : /\ {o.queue_capacity, o.batch_size} \subseteq Nat \ {0}
                        /\ o.batch_size <= o.queue_capacity
                        /\ o.clients \subseteq Clients /\ o.calls \subseteq {"update", "await"}
ASSUME ThreadsAssumption ==
  /\ IsFiniteSet(Workers) /\ Clients \cap Workers = {}
  /\ {"coordinator", "main", "nobody"} \cap (Clients \cup Workers) = {}

VARIABLES
  opts,
  first,        \* the initial tree
  log,          \* the key of each ticket: submitted_ and queue_
  stopping,     \* stopping_
  failure,      \* failure_
  inputMutex,   \* the client that holds input_mutex_ between two steps
  asleep,       \* who sleeps on input_cv_ or commit_cv_
  pc,           \* where each thread is
  awaits,       \* the last ticket of each client
  heap,
  root,         \* root_
  roots,        \* what gc_ published: the root of each version
  retired,      \* what gc_ was given at each version
  committed,    \* committed_
  batch,        \* the tickets of batch_ from position first on: [next, last]
  groups,       \* groups_ of the wave
  end,          \* the last ticket of the wave or path copy
  generation,   \* generation_
  remaining,    \* remaining_
  poolStopping, \* pool_stopping_
  workerFailure,\* worker_failure_
  nextGroup,    \* next_group_
  work          \* for each worker and the coordinator: [seen, group, pos]
vars == <<opts, first, log, stopping, failure, inputMutex, asleep, pc, awaits, heap, root, roots,
          retired, committed, batch, groups, end, generation, remaining, poolStopping,
          workerFailure, nextGroup, work>>
input == <<log, stopping, failure, committed>>
tree  == <<heap, root, roots, retired>>
plan  == <<batch, groups, end>>
pool  == <<generation, remaining, poolStopping, workerFailure, nextGroup, work>>
fixed == <<opts, first>>

NWorkers == Cardinality(Workers)
Nobody  == "nobody"
Version == CHOOSE v \in DOMAIN roots : \A u \in DOMAIN roots : u <= v
Idle    == [seen |-> 0, group |-> 0, pos |-> 1]

Init ==
  /\ opts \in Setups /\ first = Build(opts.contents)
  /\ log = <<>> /\ stopping = FALSE /\ failure = FALSE /\ committed = 0
  /\ inputMutex = Nobody /\ asleep = {} /\ awaits = [c \in Clients |-> 0]
  /\ pc = [t \in Clients \cup {"coordinator", "main"} \cup Workers |->
             IF t \in Clients THEN "idle" ELSE IF t = "main" THEN "running"
             ELSE IF t = "coordinator" THEN "fetch" ELSE "wait"]
  /\ heap = first.heap /\ root = first.root /\ roots = [v \in {0} |-> first.root] /\ retired = <<>>
  /\ batch = [next |-> 1, last |-> 0] /\ groups = <<>> /\ end = 0
  /\ generation = 0 /\ remaining = 0 /\ poolStopping = FALSE /\ workerFailure = FALSE
  /\ nextGroup = 1 /\ work = [w \in Workers \cup {"coordinator"} |-> Idle]

At(t, here)  == pc[t] = here /\ t \notin asleep
Go(t, there) == pc' = [pc EXCEPT ![t] = there]
Unlocked     == inputMutex = Nobody     \* input_mutex_ can be taken

-----------------------------------------------------------------------------
(* Clients.                                                                *)

\* The destructor runs after the last call.
Call(c, op) ==
  /\ pc[c] = "idle" /\ pc["main"] = "running"
  /\ op = "await" => awaits[c] > 0
  /\ Go(c, op)
  /\ UNCHANGED <<fixed, input, inputMutex, asleep, awaits, tree, plan, pool>>

Full == Len(log) - committed >= opts.queue_capacity

\* An exception ends the client.
Submit(c, k) ==
  /\ At(c, "update") /\ Unlocked
  /\ failure \/ stopping \/ ~ Full
  /\ IF failure \/ stopping \/ Len(log) = MaxVersion
     THEN Go(c, "threw") /\ UNCHANGED <<log, awaits>>
     ELSE Go(c, "notify") /\ log' = Append(log, k) /\ awaits' = [awaits EXCEPT ![c] = Len(log) + 1]
  /\ UNCHANGED <<fixed, stopping, failure, committed, inputMutex, asleep, tree, plan, pool>>

NotifyInput(c) ==
  /\ At(c, "notify") /\ Go(c, "idle")
  /\ asleep' = asleep \ {"coordinator"}
  /\ UNCHANGED <<fixed, input, inputMutex, awaits, tree, plan, pool>>

Processed(c) ==
  /\ At(c, "await") /\ Unlocked
  /\ failure \/ committed >= awaits[c]
  /\ Go(c, IF failure THEN "threw" ELSE "idle")
  /\ UNCHANGED <<fixed, input, inputMutex, asleep, awaits, tree, plan, pool>>

\* commit_cv_.wait: the predicate does not hold, so sleep.
Block(c) ==
  /\ Unlocked
  /\ \/ At(c, "update") /\ ~ (failure \/ stopping \/ ~ Full)
     \/ At(c, "await") /\ ~ (failure \/ committed >= awaits[c])
  /\ inputMutex' = c
  /\ UNCHANGED <<fixed, input, asleep, pc, awaits, tree, plan, pool>>

Sleep(c) ==
  /\ inputMutex = c
  /\ asleep' = asleep \cup {c} /\ inputMutex' = Nobody
  /\ UNCHANGED <<fixed, input, pc, awaits, tree, plan, pool>>

-----------------------------------------------------------------------------
(* Coordinator.                                                            *)

\* A defect, not used: what is queued when the destructor comes is dropped.
Fetch_Dropping ==
  /\ At("coordinator", "fetch") /\ Unlocked
  /\ LET next == batch.last + 1
         last == IF Len(log) < batch.last + opts.batch_size THEN Len(log) ELSE batch.last + opts.batch_size
     IN  IF stopping THEN Go("coordinator", "ended") /\ UNCHANGED <<batch, asleep>>
         ELSE IF next <= Len(log) THEN
           Go("coordinator", "plan") /\ batch' = [next |-> next, last |-> last] /\ UNCHANGED asleep
         ELSE asleep' = asleep \cup {"coordinator"} /\ UNCHANGED <<batch, pc>>
  /\ UNCHANGED <<fixed, input, inputMutex, awaits, tree, groups, end, pool>>

\* Take a batch, or sleep on input_cv_, or end when everything is done.
Fetch ==
  /\ At("coordinator", "fetch") /\ Unlocked
  /\ LET next == batch.last + 1
         last == IF Len(log) < batch.last + opts.batch_size THEN Len(log) ELSE batch.last + opts.batch_size
     IN  IF next <= Len(log) THEN
           Go("coordinator", "plan") /\ batch' = [next |-> next, last |-> last] /\ UNCHANGED asleep
         ELSE IF stopping THEN Go("coordinator", "ended") /\ UNCHANGED <<batch, asleep>>
         ELSE asleep' = asleep \cup {"coordinator"} /\ UNCHANGED <<batch, pc>>
  /\ UNCHANGED <<fixed, input, inputMutex, awaits, tree, groups, end, pool>>

\* plan_wave; the updates of one leaf make a group.
Plan ==
  LET replace == opts.parallel_materialization
      e == IF opts.slots > 0 \/ replace
           THEN WaveEnd(heap, root, log, batch.next, batch.last, opts.slots, replace)
           ELSE batch.next - 1
      gs == PlanGroups(heap, root, log, batch.next, e, opts.slots)
  IN
  /\ At("coordinator", "plan")
  /\ groups' = gs
  /\ end' = IF e < batch.next THEN batch.next ELSE e
  /\ Go("coordinator", IF e < batch.next THEN "cow"
                       ELSE IF Len(gs) = 1 \/ NWorkers = 1 \/ Len(gs) < MinGroups THEN "take"
                       ELSE "start")
  /\ UNCHANGED <<fixed, input, inputMutex, asleep, awaits, tree, batch, pool>>

CowUpdateStep ==
  LET r == CowUpdate(heap, root, end, log[end]) IN
  /\ At("coordinator", "cow")
  /\ heap' = r.heap /\ root' = r.c.root
  /\ retired' = retired @@ (end :> Range(r.c.retired))
  /\ Go("coordinator", "publish")
  /\ UNCHANGED <<fixed, input, inputMutex, asleep, awaits, roots, plan, pool>>

\* A defect, not used: one worker is not waited for.
StartWave_OneLess ==
  /\ At("coordinator", "start")
  /\ nextGroup' = 1 /\ generation' = generation + 1
  /\ remaining' = NWorkers - 1
  /\ Go("coordinator", "gather")
  /\ UNCHANGED <<fixed, input, inputMutex, asleep, awaits, tree, plan, poolStopping, workerFailure, work>>

StartWave ==
  /\ At("coordinator", "start")
  /\ nextGroup' = 1 /\ generation' = generation + 1 /\ remaining' = NWorkers
  /\ Go("coordinator", "gather")
  /\ UNCHANGED <<fixed, input, inputMutex, asleep, awaits, tree, plan, poolStopping, workerFailure, work>>

Gather ==
  /\ At("coordinator", "gather") /\ remaining = 0
  /\ Go("coordinator", IF workerFailure THEN "fail" ELSE "merge")
  /\ UNCHANGED <<fixed, input, inputMutex, asleep, awaits, tree, plan, pool>>

\* A defect, not used: only the internal nodes are retired.
MergeStep_LeavesKept ==
  LET changes == SelectSeq(groups, LAMBDA g : g.materialize)
      routes  == [i \in DOMAIN changes |-> log[changes[i].ops[Len(changes[i].ops)]]]
      r == Merge(heap, root, changes, routes, end)
  IN
  /\ At("coordinator", "merge")
  /\ IF changes = <<>> THEN UNCHANGED <<heap, root, retired>>
     ELSE heap' = r.heap /\ root' = r.root /\ retired' = retired @@ (end :> {n \in r.retired : ~ heap[n].leaf})
  /\ Go("coordinator", "publish")
  /\ UNCHANGED <<fixed, input, inputMutex, asleep, awaits, roots, plan, pool>>

\* One new path for all leaves that are replaced; the tree is not changed before.
MergeStep ==
  LET changes == SelectSeq(groups, LAMBDA g : g.materialize)
      routes  == [i \in DOMAIN changes |-> log[changes[i].ops[Len(changes[i].ops)]]]
      r == Merge(heap, root, changes, routes, end)
  IN
  /\ At("coordinator", "merge")
  /\ IF changes = <<>> THEN UNCHANGED <<heap, root, retired>>
     ELSE heap' = r.heap /\ root' = r.root /\ retired' = retired @@ (end :> r.retired)
  /\ Go("coordinator", "publish")
  /\ UNCHANGED <<fixed, input, inputMutex, asleep, awaits, roots, plan, pool>>

\* A defect, not used: the batch is published for the wave.
Publish_Batch ==
  /\ At("coordinator", "publish") /\ Go("coordinator", "store")
  /\ roots' = [v \in DOMAIN roots \cup {batch.last} |-> IF v = batch.last THEN root ELSE roots[v]]
  /\ UNCHANGED <<fixed, input, inputMutex, asleep, awaits, heap, root, retired, plan, pool>>

Publish ==
  /\ At("coordinator", "publish") /\ Go("coordinator", "store")
  /\ roots' = [v \in DOMAIN roots \cup {end} |-> IF v = end THEN root ELSE roots[v]]
  /\ UNCHANGED <<fixed, input, inputMutex, asleep, awaits, heap, root, retired, plan, pool>>

\* A defect, not used: no lock is taken.
StoreCommitted_NoLock ==
  /\ At("coordinator", "store") /\ Go("coordinator", "notify")
  /\ committed' = end
  /\ UNCHANGED <<fixed, log, stopping, failure, inputMutex, asleep, awaits, tree, plan, pool>>

StoreCommitted ==
  /\ At("coordinator", "store") /\ Unlocked /\ Go("coordinator", "notify")
  /\ committed' = end
  /\ UNCHANGED <<fixed, log, stopping, failure, inputMutex, asleep, awaits, tree, plan, pool>>

NotifyCommit ==
  /\ At("coordinator", "notify")
  /\ Go("coordinator", IF end = batch.last THEN "fetch" ELSE "plan")
  /\ asleep' = asleep \ Clients
  /\ batch' = [batch EXCEPT !.next = end + 1]
  /\ UNCHANGED <<fixed, input, inputMutex, awaits, tree, groups, end, pool>>

\* Memory may be short wherever the coordinator allocates.
CoordinatorThrow ==
  /\ At("coordinator", "cow") \/ At("coordinator", "run")
       \/ (At("coordinator", "merge") /\ \E g \in Range(groups) : g.materialize)
  /\ Go("coordinator", "fail")
  /\ UNCHANGED <<fixed, input, inputMutex, asleep, awaits, tree, plan, pool>>

Fail ==
  /\ At("coordinator", "fail") /\ Unlocked /\ Go("coordinator", "failed")
  /\ failure' = TRUE /\ stopping' = TRUE
  /\ UNCHANGED <<fixed, log, committed, inputMutex, asleep, awaits, tree, plan, pool>>

NotifyFailure ==
  /\ At("coordinator", "failed") /\ Go("coordinator", "ended")
  /\ asleep' = asleep \ Clients
  /\ UNCHANGED <<fixed, input, inputMutex, awaits, tree, plan, pool>>

-----------------------------------------------------------------------------
(* Groups of a wave, executed by workers or by the coordinator.            *)

Wake(w) ==
  /\ pc[w] = "wait"
  /\ poolStopping \/ generation # work[w].seen
  /\ Go(w, IF poolStopping THEN "ended" ELSE "take")
  /\ work' = IF poolStopping THEN work ELSE [work EXCEPT ![w].seen = generation]
  /\ UNCHANGED <<fixed, input, inputMutex, asleep, awaits, tree, plan, generation, remaining,
                 poolStopping, workerFailure, nextGroup>>

\* A worker draws the next group; the coordinator takes them in turn.
Take(t) ==
  LET g == IF t \in Workers THEN nextGroup ELSE work[t].group + 1 IN
  /\ At(t, "take")
  /\ nextGroup' = IF t \in Workers THEN nextGroup + 1 ELSE nextGroup
  /\ IF g <= Len(groups)
     THEN Go(t, "run") /\ work' = [work EXCEPT ![t].group = g, ![t].pos = 1]
     ELSE Go(t, IF t \in Workers THEN "finish" ELSE "merge")
          /\ work' = [work EXCEPT ![t].group = 0, ![t].pos = 1]
  /\ UNCHANGED <<fixed, input, inputMutex, asleep, awaits, tree, plan, generation, remaining,
                 poolStopping, workerFailure>>

Group(t) == groups[work[t].group]
Ticket(t) == Group(t).ops[work[t].pos]
FinalOp(t) == work[t].pos = Len(Group(t).ops)
Room(t) == HasRoom(heap[Group(t).leaf], opts.slots)
Replaces(t) == Group(t).materialize /\ FinalOp(t)

NextOp(t) ==
  IF FinalOp(t) THEN Go(t, "take") /\ UNCHANGED work
  ELSE work' = [work EXCEPT ![t].pos = @ + 1] /\ UNCHANGED pc

AppendOp(t) ==
  /\ At(t, "run") /\ ~ Replaces(t) /\ Room(t)
  /\ heap' = [heap EXCEPT ![Group(t).leaf] =
                AppendSlot(@, Slot(Ticket(t), log[Ticket(t)], Ticket(t), FALSE))]
  /\ NextOp(t)
  /\ UNCHANGED <<fixed, input, inputMutex, asleep, awaits, root, roots, retired, plan, generation,
                 remaining, poolStopping, workerFailure, nextGroup>>

PrepareOp(t) ==
  LET new == PrepareLeaves(heap, Group(t).leaf, Ticket(t), log[Ticket(t)]) IN
  /\ At(t, "run") /\ Replaces(t)
  /\ heap' = new @@ heap
  /\ groups' = [groups EXCEPT ![work[t].group].new = SetToSortSeq(DOMAIN new, LAMBDA m, n : m[2] < n[2])]
  /\ NextOp(t)
  /\ UNCHANGED <<fixed, input, inputMutex, asleep, awaits, root, roots, retired, batch, end, generation,
                 remaining, poolStopping, workerFailure, nextGroup>>

\* Memory may be short, or a reserved slot be lost.
WorkerThrow(w) ==
  /\ At(w, "run")
  /\ workerFailure' = TRUE
  /\ Go(w, "finish")
  /\ UNCHANGED <<fixed, input, inputMutex, asleep, awaits, tree, plan, generation, remaining,
                 poolStopping, nextGroup, work>>

Finish(w) ==
  /\ At(w, "finish") /\ Go(w, "wait")
  /\ remaining' = remaining - 1
  /\ work' = [work EXCEPT ![w].group = 0, ![w].pos = 1]
  /\ UNCHANGED <<fixed, input, inputMutex, asleep, awaits, tree, plan, generation, poolStopping,
                 workerFailure, nextGroup>>

-----------------------------------------------------------------------------
(* Destructor, by the thread that owns the controller.                     *)

Destroy ==
  /\ At("main", "running") /\ Unlocked /\ Go("main", "notify")
  /\ \A c \in Clients : pc[c] \in {"idle", "threw"}
  /\ stopping' = TRUE
  /\ UNCHANGED <<fixed, log, failure, committed, inputMutex, asleep, awaits, tree, plan, pool>>

NotifyStop ==
  /\ At("main", "notify") /\ Go("main", "join")
  /\ asleep' = asleep \ {"coordinator"}
  /\ UNCHANGED <<fixed, input, inputMutex, awaits, tree, plan, pool>>

StopPool ==
  /\ At("main", "join") /\ pc["coordinator"] = "ended" /\ Go("main", "joinPool")
  /\ poolStopping' = TRUE
  /\ UNCHANGED <<fixed, input, inputMutex, asleep, awaits, tree, plan, generation, remaining,
                 workerFailure, nextGroup, work>>

Destroyed ==
  /\ At("main", "joinPool") /\ (\A w \in Workers : pc[w] = "ended") /\ Go("main", "destroyed")
  /\ UNCHANGED <<fixed, input, inputMutex, asleep, awaits, tree, plan, pool>>

-----------------------------------------------------------------------------
Client(c) == (\E k \in opts.writes : Submit(c, k)) \/ NotifyInput(c) \/ Processed(c) \/ Block(c) \/ Sleep(c)

Coordinator ==
  \/ Fetch \/ Plan \/ CowUpdateStep \/ StartWave \/ Gather \/ MergeStep \/ Publish
  \/ StoreCommitted \/ NotifyCommit \/ CoordinatorThrow \/ Fail \/ NotifyFailure
  \/ Take("coordinator") \/ AppendOp("coordinator") \/ PrepareOp("coordinator")

Worker(w) == Wake(w) \/ Take(w) \/ AppendOp(w) \/ PrepareOp(w) \/ WorkerThrow(w) \/ Finish(w)

Destructor == NotifyStop \/ StopPool \/ Destroyed

Next ==
  \/ Coordinator \/ Destructor \/ Destroy
  \/ \E c \in opts.clients : Client(c) \/ \E op \in opts.calls : Call(c, op)
  \/ \E w \in Workers : Worker(w)

Spec == Init /\ [][Next]_vars

-----------------------------------------------------------------------------
AllKeys == opts.writes \cup first.keys

\* Consistent snapshots: what a reader that pins version v finds is what the
\* tickets 1 .. v would have written one after the other, for ever after v is
\* published, though later waves append to the same leaves, fail half way, and
\* replace some leaves of a path at once.
Promise == INSTANCE Snapshots WITH
  start   <- [k \in AllKeys |-> IF k \in first.keys THEN 0 ELSE Missing],
  version <- Version,
  views   <- [v \in DOMAIN roots |-> [k \in AllKeys |-> Find(heap, roots[v], k, v)]]
SnapshotsKept == Promise!Spec

\* t is inside execute_group.
Running(t) == pc[t] = "run"

\* "reserved fat-leaf capacity was lost" and "stale or duplicate leaf
\* replacement" are never thrown: the slots that a plan counted are there when
\* the group comes to them, and a leaf belongs to one group.
ReservationsKept ==
  /\ \A t \in DOMAIN work : Running(t) /\ ~ Replaces(t) => Room(t)
  /\ \A i, j \in DOMAIN groups : groups[i].leaf = groups[j].leaf => i = j

\* The coordinator plans, copies, merges and publishes only while every worker
\* is at rest: none is still inside a group, and none has still to look at
\* groups_ of a wave that is over.
WorkersQuiescent ==
  pc["coordinator"] \in {"plan", "cow", "merge", "publish", "store", "notify", "fetch", "ended"} =>
    \A w \in Workers : pc[w] \in {"wait", "ended"} /\ (pc[w] = "wait" => work[w].seen = generation)

\* At each version the nodes given to the reclaimer are the ones that its tree
\* no longer has: nothing leaks, and nothing that a later wave or a reader of
\* this version uses is freed.
RetiredExactly ==
  \A v \in DOMAIN roots \ {0} :
    LET u    == CHOOSE u \in DOMAIN roots : u < v /\ \A x \in DOMAIN roots : x < v => x <= u
        gone == IF v \in DOMAIN retired THEN retired[v] ELSE {}
    IN  gone = Reach(heap, roots[u]) \ Reach(heap, roots[v])

\* A thread t may go on.
CanRun(t) ==
  \/ inputMutex = t
  \/ /\ t \in Clients \ asleep
     /\ pc[t] \in {"update", "await"} => Unlocked
     /\ pc[t] \notin {"idle", "threw"}
  \/ /\ t = "coordinator" /\ t \notin asleep /\ pc[t] # "ended"
     /\ pc[t] \in {"fetch", "store", "fail"} => Unlocked
     /\ pc[t] = "gather" => remaining = 0
  \/ /\ t \in Workers /\ pc[t] # "ended"
     /\ pc[t] = "wait" => poolStopping \/ generation # work[t].seen
  \/ /\ t = "main" /\ pc[t] \notin {"running", "destroyed"}
     /\ pc[t] = "join" => pc["coordinator"] = "ended"
     /\ pc[t] = "joinPool" => \A w \in Workers : pc[w] = "ended"

\* No call and no destructor hangs: as long as one has not returned some thread
\* can go on, and no thread goes round in a circle.  The wakeup of a client that
\* goes to sleep while a version is committed is not lost, a failure reaches
\* those who wait, and the threads that the destructor joins come to their end.
NobodyHangs ==
  (pc["main"] \in {"notify", "join", "joinPool"} \/ \E c \in Clients : pc[c] \notin {"idle", "threw"})
    => \E t \in DOMAIN pc : CanRun(t)

\* When the destructor returns every accepted update is committed, unless the
\* controller failed.
StopDrains == pc["main"] = "destroyed" => failure \/ committed = Len(log)
=============================================================================
