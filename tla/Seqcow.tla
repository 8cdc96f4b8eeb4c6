-------------------------------- MODULE Seqcow --------------------------------
(***************************************************************************)
(* The sequential controller (lib/conctrl/seqcow.hpp): clients number      *)
(* their updates and fill ring slots, one worker executes the tickets in   *)
(* order and publishes them in batches.                                    *)
(*                                                                         *)
(* With fat slots a client is serialised by fat_submission_mutex_ and      *)
(* releases its ticket after it filled the slot; without, it draws the     *)
(* ticket first and fills the slot with plain stores which the worker may  *)
(* overtake: a data race, modelled as stores in any order between the      *)
(* worker's steps.                                                         *)
(*                                                                         *)
(* The tree T is a parameter of the controller, abstracted to one leaf of  *)
(* values and Room versioned slots, and two handlers: the first appends to *)
(* the leaf or leaves the copy to the second.  Ticket t writes value t.    *)
(***************************************************************************)
EXTENDS Naturals, Sequences

CONSTANTS
  B,          \* BUFFER_SIZE
  Room,       \* fat_slots_, when it is not 0
  Keys,
  Clients,
  MaxTicket,  \* bound on the tickets; UINT32_MAX on the fat path
  Setups      \* scenarios: fat_slots_ # 0, the clients that
              \* call, the keys they use, the tickets they draw

ASSUME RingAssumption == B \in Nat \ {0} /\ Room \in Nat \ {0}
ASSUME SetupAssumption ==
  /\ Keys # {}
  /\ Setups \subseteq [fat : BOOLEAN, clients : SUBSET Clients, keys : SUBSET Keys,
                      tickets : Nat]

VARIABLES
  setup,       \* the scenario
  nSubmitted, nCommitted,  \* n_submitted_, n_committed_
  ctx,         \* ctxs_: op, ticket, key, t_past and root
  client,      \* each client's position, ticket, key, and the stores it has left
  worker,      \* the worker's position and locals
  stop,        \* stop_
  leaves,      \* every leaf built, oldest first
  log,         \* history: the key of each ticket
  published    \* history: the root of each version published

vars == <<setup, nSubmitted, nCommitted, ctx, client, worker, stop, leaves, log, published>>

Slot(t) == t % B
fat     == setup.fat
Fields  == {"op", "sno", "key"}

\* A defect, not used: a search that does not look at the versions.
LastSlot_AnyVersion(l, k, v) == {i \in DOMAIN l.slots : l.slots[i].key = k}

LastSlot(l, k, v) == {i \in DOMAIN l.slots : l.slots[i].key = k /\ l.slots[i].sno <= v}

\* The contents of a leaf at version v.
View(leaf, v) ==
  LET l == leaves[leaf] IN
  [k \in Keys |->
     LET s == LastSlot(l, k, v) IN
     IF s = {} THEN l.base[k] ELSE l.slots[CHOOSE i \in s : \A j \in s : j <= i].sno]

NoKey == CHOOSE k \in Keys : TRUE
Idle  == [pc |-> "idle", tid |-> 0, key |-> NoKey, todo |-> {}]

Init ==
  /\ setup \in Setups
  /\ nSubmitted = 0 /\ nCommitted = 0 /\ stop = FALSE
  /\ ctx = [s \in 0 .. B - 1 |->
              [op |-> "done", sno |-> 0, key |-> NoKey, past |-> 1, root |-> 1]]
  /\ client = [c \in Clients |-> Idle]
  /\ worker = [pc |-> "stop", stop |-> FALSE, sub |-> 0, next |-> 0, done |-> 0]
  /\ leaves = <<[base |-> [k \in Keys |-> 0], slots |-> <<>>]>>
  /\ log = <<>>
  /\ published = [v \in {0} |-> 1]

NextPc(pc)  == worker' = [worker EXCEPT !.pc = pc]

clientside == <<nSubmitted, client, stop, log>>
rest == <<worker, nCommitted, stop, leaves, published, setup>>

-----------------------------------------------------------------------------
(* Defective variants, not part of Next: bugs the properties must notice.  *)

\* The ring one ticket too full.
Free_OneTooMany(t) == t <= nCommitted + B

\* n_submitted_ not loaded again once stop_ is seen.
LoadSubmitted_Stopping ==
  /\ worker.pc = "sub"
  /\ worker' = [worker EXCEPT !.pc = "batch", !.next = worker.done,
                              !.sub = IF worker.stop THEN @ ELSE nSubmitted]
  /\ UNCHANGED <<nCommitted, ctx, leaves, published, setup, clientside>>

-----------------------------------------------------------------------------
(* update()                                                                *)

\* fat: the mutex is taken and the ticket read, not yet released.
Lock(c) ==
  /\ fat /\ client[c].pc = "idle" /\ ~ stop /\ nSubmitted < setup.tickets
  /\ \A d \in Clients : client[d].pc = "idle"
  /\ \E k \in setup.keys :
       client' = [client EXCEPT ![c] = [pc |-> "wait", tid |-> nSubmitted + 1, key |-> k, todo |-> {}]]
  /\ UNCHANGED <<nSubmitted, ctx, log, rest>>

\* slot-0: fetch_add releases the ticket at once.
Draw(c) ==
  /\ ~ fat /\ client[c].pc = "idle" /\ ~ stop /\ nSubmitted < setup.tickets
  /\ nSubmitted' = nSubmitted + 1
  /\ \E k \in setup.keys :
       /\ client' = [client EXCEPT ![c] = [pc |-> "wait", tid |-> nSubmitted + 1, key |-> k, todo |-> {}]]
       /\ log' = Append(log, k)
  /\ UNCHANGED <<ctx, rest>>

Free(t) == t < nCommitted + B

Wait(c) ==
  /\ client[c].pc = "wait" /\ Free(client[c].tid)
  /\ client' = [client EXCEPT ![c].pc = "fill", ![c].todo = Fields]
  /\ UNCHANGED <<nSubmitted, ctx, log, rest>>

\* init_task_: one of its plain stores.
Fill(c) ==
  /\ client[c].pc = "fill"
  /\ \E f \in client[c].todo :
       /\ client' = [client EXCEPT ![c].todo = @ \ {f}]
       /\ LET s == Slot(client[c].tid) IN
          ctx' = CASE f = "op"  -> [ctx EXCEPT ![s].op = "init"]
                   [] f = "sno" -> [ctx EXCEPT ![s].sno = client[c].tid]
                   [] f = "key" -> [ctx EXCEPT ![s].key = client[c].key]
  /\ UNCHANGED <<nSubmitted, log, rest>>

\* fat: release the ticket and the mutex.
Return(c) ==
  /\ client[c].pc = "fill" /\ client[c].todo = {}
  /\ client' = [client EXCEPT ![c] = Idle]
  /\ IF fat THEN nSubmitted' = client[c].tid /\ log' = Append(log, client[c].key)
            ELSE UNCHANGED <<nSubmitted, log>>
  /\ UNCHANGED <<ctx, rest>>

\* ~seqcow: called when no other call is active.
Destroy ==
  /\ ~ stop /\ \A c \in Clients : client[c].pc = "idle"
  /\ stop' = TRUE
  /\ UNCHANGED <<setup, nSubmitted, nCommitted, ctx, client, worker, leaves, log, published>>

-----------------------------------------------------------------------------
(* worker_main_                                                            *)

\* The loop's condition, then stop_.
LoadStop ==
  /\ worker.pc = "stop"
  /\ IF worker.stop /\ worker.done = worker.sub
       THEN NextPc("ended")
       ELSE worker' = [worker EXCEPT !.pc = "sub", !.stop = stop]
  /\ UNCHANGED <<nCommitted, ctx, leaves, published, setup, clientside>>

LoadSubmitted ==
  /\ worker.pc = "sub"
  /\ worker' = [worker EXCEPT !.pc = "batch", !.sub = nSubmitted, !.next = worker.done]
  /\ UNCHANGED <<nCommitted, ctx, leaves, published, setup, clientside>>

\* The batch goes on: n_submitted_local not reached, and no break after the last task.
InBatch == worker.next < worker.sub /\ ~ (worker.next > worker.done + B \div 2)

\* t_past is the root of the ticket before; handlers[0] whatever op says.
Begin ==
  /\ worker.pc = "batch" /\ InBatch
  /\ worker' = [worker EXCEPT !.pc = "first", !.next = @ + 1]
  /\ ctx' = [ctx EXCEPT ![Slot(worker.next + 1)].past = ctx[Slot(worker.next)].root]
  /\ UNCHANGED <<nCommitted, leaves, published, setup, clientside>>

\* The first handler appends to a leaf with room, or begins a copy.
HandleInit(s) ==
  LET x == ctx[s] IN
  IF fat /\ Len(leaves[x.past].slots) < Room
    THEN /\ leaves' = [leaves EXCEPT ![x.past].slots = Append(@, [sno |-> x.sno, key |-> x.key])]
         /\ ctx' = [ctx EXCEPT ![s].op = "done", ![s].root = x.past]
    ELSE ctx' = [ctx EXCEPT ![s].op = "copy"] /\ UNCHANGED leaves

\* The last one builds the leaf with the values of its version.
HandleCopy(s) ==
  LET x == ctx[s] IN
  /\ leaves' = Append(leaves, [base  |-> [View(x.past, x.sno) EXCEPT ![x.key] = x.sno],
                               slots |-> <<>>])
  /\ ctx' = [ctx EXCEPT ![s].op = "done", ![s].root = Len(leaves) + 1]

First ==
  /\ worker.pc = "first"
  /\ HandleInit(Slot(worker.next))
  /\ NextPc("run")
  /\ UNCHANGED <<nCommitted, published, setup, clientside>>

Run ==
  LET s == Slot(worker.next) IN
  /\ worker.pc = "run"
  /\ CASE ctx[s].op = "done" -> NextPc("batch") /\ UNCHANGED <<ctx, leaves>>
       [] ctx[s].op = "init" -> HandleInit(s) /\ UNCHANGED worker
       [] ctx[s].op = "copy" -> HandleCopy(s) /\ UNCHANGED worker
  /\ UNCHANGED <<nCommitted, published, setup, clientside>>

\* gc_.publish(root, version); the tasks were retired one by one.
Publish ==
  /\ worker.pc = "batch" /\ ~ InBatch
  /\ IF worker.next > worker.done
       THEN /\ NextPc("store")
            /\ published' = [v \in DOMAIN published \cup {worker.next} |->
                 IF v = worker.next THEN ctx[Slot(v)].root ELSE published[v]]
       ELSE NextPc("stop") /\ UNCHANGED published
  /\ UNCHANGED <<nCommitted, ctx, leaves, setup, clientside>>

\* n_committed_, then gc_.try_reclaim.
Store ==
  /\ worker.pc = "store"
  /\ nCommitted' = worker.next
  /\ worker' = [worker EXCEPT !.pc = "stop", !.done = worker.next]
  /\ UNCHANGED <<ctx, leaves, published, setup, clientside>>

Worker == LoadStop \/ LoadSubmitted \/ Begin \/ First \/ Run \/ Publish \/ Store
Client(c) == Lock(c) \/ Draw(c) \/ Wait(c) \/ Fill(c) \/ Return(c)

Next == Worker \/ Destroy \/ \E c \in setup.clients : Client(c)

Spec == Init /\ [][Next]_vars

\* The worker keeps running, and clients finish the calls they began.
Fairness ==
  /\ WF_vars(Worker)
  /\ \A c \in Clients : WF_vars(Wait(c) \/ Fill(c) \/ Return(c))

FairSpec == Spec /\ Fairness

-----------------------------------------------------------------------------
\* The ring in fat mode: from the ticket committed last to the one in execution,
\* every slot holds its ticket's complete context and no client writes to it.
\* exec_task_, retire and publish read these slots after other tickets were
\* handed out.
ContextSettled ==
  fat => \A t \in worker.done .. worker.next :
           /\ ctx[Slot(t)].sno = t
           /\ \A c \in Clients : client[c].pc = "fill" => Slot(client[c].tid) # Slot(t)

\* What Snapshots promises of version v: what tickets 1 .. v give.
Abstract == INSTANCE Snapshots WITH
  start <- [k \in Keys |-> 0], version <- nCommitted, views <- published

Promise(v) == Abstract!Executed(v)

\* In fat mode a reader that pins version v reads, whenever it does, what tickets
\* 1 .. v give: the appends to the leaf it shares with later versions stay hidden.
SnapshotsKept ==
  fat => \A v \in DOMAIN published : View(published[v], v) = Promise(v)

\* After wait_for_processing of the last update a query returns that update's value:
\* what bench/betree_gc_bench.cpp submits (submit_updates, one client and one key) and
\* then checks (current_value_is, "value_check") of a seqcow without fat slots.
ValueChecked ==
  nSubmitted > 0 /\ nCommitted = nSubmitted /\ (\A c \in Clients : client[c].pc = "idle")
    => View(published[nCommitted], nCommitted)[log[nSubmitted]] = nSubmitted

\* Each ticket handed out is processed, also when the destructor stops the worker
\* while it is behind.
EventuallyProcessed ==
  \A t \in 1 .. MaxTicket : nSubmitted >= t ~> nCommitted >= t

=============================================================================
