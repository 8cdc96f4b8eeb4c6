-------------------------------- MODULE Cyclic --------------------------------
(***************************************************************************)
(* The cyclic pipeline controller (lib/conctrl/concow_cyclic.hpp).         *)
(*                                                                         *)
(* Clients draw tickets and fill ring slots; the monitor extends the       *)
(* initialised and the committed prefix; NPipes pipe threads run the first *)
(* NPipes handlers of each ticket, taking the roles entry, inner, exit in  *)
(* turn; the exit hands the ticket to an idle worker, which runs the rest. *)
(*                                                                         *)
(* A ticket is a number of handlers (need) chosen by its client: the depth *)
(* of its path.  A handler copies one node of an older tree (t_past), built *)
(* by the ticket past, and moves t_past to one of its children, built by   *)
(* past or before; handler j may only run when past has run its handler    *)
(* j + 1.  Thread-local caches of monotone counters (n_tasks, pred_pace,   *)
(* cno, n_compl) are lower bounds that are refreshed while waiting, so a   *)
(* wait is a guard on the counter itself.  Any number of clients may call  *)
(* update(): each ticket has a client of its own.                          *)
(***************************************************************************)
EXTENDS Integers, FiniteSets

CONSTANTS
  B,          \* BUFFER_SIZE
  NPipes,     \* N_PIPES
  Workers,    \* worker threads
  MaxTicket,  \* bound on the tickets drawn
  MaxNeed     \* bound on the handlers of a ticket

ASSUME RingAssumption   == B \in Nat /\ B >= 2
ASSUME PipesAssumption  == NPipes \in Nat /\ NPipes >= 2
ASSUME TicketAssumption == MaxTicket \in Nat /\ MaxNeed \in Nat \ {0}

VARIABLES
  nSubmitted, nInited, nCommitted,  \* n_submitted_, n_inited_, n_committed_
  client,   \* where the client of each ticket is in update()
  ctx,      \* ctxs_: ticket, t_past->ver, handlers run (steps) and in all (need)
  stage,    \* stages_
  mon,      \* the monitor's position and n_*_local
  pipe,     \* each pipe thread's ticket and position
  pace,     \* pipes_[q].pace
  worker,   \* each worker's ticket, position and local_stage
  available \* workers_available_

vars == <<nSubmitted, nInited, nCommitted, client, ctx, stage, mon, pipe, pace,
          worker, available>>
threadvars == <<pipe, pace, worker, available>>

Tickets == 1 .. MaxTicket
Pipes   == 0 .. NPipes - 1
Slots   == 0 .. B - 1
Slot(t) == t % B
Done    == MaxNeed + 1        \* ~0UL in stages_: above every local stage

EntryOf(t) == (t - 1) % NPipes
ExitOf(t)  == (t + NPipes - 2) % NPipes
Follow(q)  == (q + 1) % NPipes

OpDone(s) == ctx[s].steps = ctx[s].need      \* ctx->op == DONE

\* A defect, not used: waiting for the predecessor's same stage, not its next.
WaitStage_Same(s, k) ==
  LET ver == ctx[s].past IN nCommitted >= ver \/ stage[Slot(ver)] >= k - 1

\* wait_stage(ctx, k) returns: ver is committed or has stored stage k.
WaitStage(s, k) ==
  LET ver == ctx[s].past IN nCommitted >= ver \/ stage[Slot(ver)] >= k

Init ==
  /\ nSubmitted = 0 /\ nInited = 0 /\ nCommitted = 0
  /\ client = [t \in Tickets |-> "none"]
  /\ ctx = [s \in Slots |-> [tid |-> 0, past |-> 0, steps |-> 0, need |-> 0]]
  /\ stage = [s \in Slots |-> Done]
  /\ mon = [pc |-> "init", sub |-> 0, init |-> 0, comm |-> 0]
  /\ pipe = [q \in Pipes |-> [tid |-> 1, pc |-> "wait"]]
  /\ pace = [q \in Pipes |-> 0]
  /\ worker = [w \in Workers |-> [tid |-> 0, pc |-> "idle", stage |-> 0]]
  /\ available = Workers

-----------------------------------------------------------------------------
(* Defective variants, not part of Next: bugs the properties must notice.  *)

\* The ring one ticket too full.
Fill_OneTooMany(t) ==
  /\ client[t] = "drawn" /\ t <= nCommitted + B
  /\ client' = [client EXCEPT ![t] = "filling"]
  /\ \E n \in 1 .. MaxNeed :
       ctx' = [ctx EXCEPT ![Slot(t)] = [tid |-> t, past |-> t - 1, steps |-> 0, need |-> n]]
  /\ UNCHANGED <<nSubmitted, nInited, nCommitted, stage, mon, threadvars>>

\* The initialised prefix taken from n_submitted_, whatever stages_ says.
MonInit_NoStage ==
  /\ mon.pc = "init"
  /\ IF mon.init < mon.sub
       THEN mon' = [mon EXCEPT !.init = @ + 1] /\ UNCHANGED nInited
       ELSE mon' = [mon EXCEPT !.pc = "commit"] /\ nInited' = mon.init
  /\ UNCHANGED <<nSubmitted, nCommitted, client, ctx, stage, threadvars>>

\* A worker that does not put itself back into the list.
WorkerPush_Lost(w) ==
  /\ worker[w].pc = "push"
  /\ worker' = [worker EXCEPT ![w] = [tid |-> 0, pc |-> "idle", stage |-> 0]]
  /\ UNCHANGED <<nSubmitted, nInited, nCommitted, client, ctx, stage, mon, pipe, pace,
                 available>>

-----------------------------------------------------------------------------
(* update(): draw a ticket, wait for its slot, fill it, release it.        *)

Draw ==
  /\ nSubmitted < MaxTicket
  /\ nSubmitted' = nSubmitted + 1
  /\ client' = [client EXCEPT ![nSubmitted + 1] = "drawn"]
  /\ UNCHANGED <<nInited, nCommitted, ctx, stage, mon, threadvars>>

Fill(t) ==
  /\ client[t] = "drawn" /\ t < nCommitted + B
  /\ client' = [client EXCEPT ![t] = "filling"]
  /\ \E n \in 1 .. MaxNeed :
       ctx' = [ctx EXCEPT ![Slot(t)] = [tid |-> t, past |-> t - 1, steps |-> 0, need |-> n]]
  /\ UNCHANGED <<nSubmitted, nInited, nCommitted, stage, mon, threadvars>>

Release(t) ==
  /\ client[t] = "filling"
  /\ client' = [client EXCEPT ![t] = "returned"]
  /\ stage' = [stage EXCEPT ![Slot(t)] = 0]
  /\ UNCHANGED <<nSubmitted, nInited, nCommitted, ctx, mon, threadvars>>

-----------------------------------------------------------------------------
(* monitor_main_: a pass extends n_inited_, then n_committed_.             *)

MonInit ==
  /\ mon.pc = "init"
  /\ IF mon.init < mon.sub /\ stage[Slot(mon.init + 1)] = 0
       THEN mon' = [mon EXCEPT !.init = @ + 1] /\ UNCHANGED nInited
       ELSE mon' = [mon EXCEPT !.pc = "commit"] /\ nInited' = mon.init
  /\ UNCHANGED <<nSubmitted, nCommitted, client, ctx, stage, threadvars>>

\* gc_.retire for each ticket; publish its root and n_committed_ at the end, then
\* load n_submitted_ for the next pass.
MonCommit ==
  /\ mon.pc = "commit"
  /\ IF mon.comm < mon.init /\ stage[Slot(mon.comm + 1)] = Done
       THEN mon' = [mon EXCEPT !.comm = @ + 1] /\ UNCHANGED nCommitted
       ELSE /\ mon' = [mon EXCEPT !.pc = "init", !.sub = nSubmitted]
            /\ nCommitted' = mon.comm
  /\ UNCHANGED <<nSubmitted, nInited, client, ctx, stage, threadvars>>

-----------------------------------------------------------------------------
(* Pipe threads: thread q handles tickets 1, 2, 3, ... in order.           *)

\* The handler runs on the ticket's context unless the operation is done; it
\* leaves t_past at a node of the same or an older version.  0 stands for every
\* version already committed (nothing waits for it) and for no further node.
Handle(s) ==
  IF OpDone(s)
    THEN UNCHANGED ctx
    ELSE \E v \in {0} \cup (nCommitted + 1 .. ctx[s].past) :
           /\ ctx[s].steps + 1 = ctx[s].need => v = 0
           /\ ctx' = [ctx EXCEPT ![s].steps = @ + 1, ![s].past = v]

Advance(q) == pace' = [pace EXCEPT ![Follow(q)] = pipe[q].tid]

NextTicket(q) == pipe' = [pipe EXCEPT ![q] = [tid |-> @.tid + 1, pc |-> "wait"]]

\* process_entry: n_inited_ covers the ticket; t_past is the previous root.
EntryBegin(q) ==
  /\ pipe[q].pc = "wait" /\ EntryOf(pipe[q].tid) = q
  /\ nInited >= pipe[q].tid
  /\ pipe' = [pipe EXCEPT ![q].pc = "run"]
  /\ UNCHANGED <<nSubmitted, nInited, nCommitted, client, ctx, stage, mon, pace,
                 worker, available>>

\* process_inner: the thread before handed the ticket over.
InnerBegin(q) ==
  /\ pipe[q].pc = "wait" /\ q \notin {EntryOf(pipe[q].tid), ExitOf(pipe[q].tid)}
  /\ pace[q] >= pipe[q].tid
  /\ pipe' = [pipe EXCEPT ![q].pc = "run"]
  /\ UNCHANGED <<nSubmitted, nInited, nCommitted, client, ctx, stage, mon, pace,
                 worker, available>>

\* The end of process_entry and process_inner.
HandOver(q) ==
  /\ pipe[q].pc = "run" /\ ExitOf(pipe[q].tid) # q
  /\ Handle(Slot(pipe[q].tid))
  /\ Advance(q) /\ NextTicket(q)
  /\ UNCHANGED <<nSubmitted, nInited, nCommitted, client, stage, mon, worker, available>>

\* process_exit of a ticket that needs no more handlers.
ExitDone(q) ==
  LET t == pipe[q].tid IN
  /\ pipe[q].pc = "wait" /\ ExitOf(t) = q /\ pace[q] >= t
  /\ OpDone(Slot(t))
  /\ stage' = [stage EXCEPT ![Slot(t)] = Done]
  /\ NextTicket(q)
  /\ UNCHANGED <<nSubmitted, nInited, nCommitted, client, ctx, mon, pace, worker, available>>

\* process_exit: wait_stage(ctx, 1) on the version of the node to copy.
ExitBegin(q) ==
  LET t == pipe[q].tid IN
  /\ pipe[q].pc = "wait" /\ ExitOf(t) = q /\ pace[q] >= t
  /\ ~ OpDone(Slot(t))
  /\ WaitStage(Slot(t), 1)
  /\ pipe' = [pipe EXCEPT ![q].pc = "run"]
  /\ UNCHANGED <<nSubmitted, nInited, nCommitted, client, ctx, stage, mon, pace,
                 worker, available>>

ExitHandle(q) ==
  /\ pipe[q].pc = "run" /\ ExitOf(pipe[q].tid) = q
  /\ Handle(Slot(pipe[q].tid))
  /\ pipe' = [pipe EXCEPT ![q].pc = "pop"]
  /\ UNCHANGED <<nSubmitted, nInited, nCommitted, client, stage, mon, pace, worker, available>>

\* It spins until a worker is available and gives it the ticket.
Dispatch(q) ==
  /\ pipe[q].pc = "pop"
  /\ \E w \in available :
       /\ available' = available \ {w}
       /\ worker' = [worker EXCEPT ![w] =
                       [tid |-> pipe[q].tid, pc |-> "wait", stage |-> 1]]
  /\ NextTicket(q)
  /\ UNCHANGED <<nSubmitted, nInited, nCommitted, client, ctx, stage, mon, pace>>

-----------------------------------------------------------------------------
(* worker_main_                                                            *)

\* wait_stage(ctx, local_stage + 1)
WorkerBegin(w) ==
  LET t == worker[w].tid IN
  /\ worker[w].pc = "wait" /\ ~ OpDone(Slot(t))
  /\ WaitStage(Slot(t), worker[w].stage + 1)
  /\ worker' = [worker EXCEPT ![w].pc = "run"]
  /\ UNCHANGED <<nSubmitted, nInited, nCommitted, client, ctx, stage, mon, pipe, pace,
                 available>>

\* Run the handler, then store the local stage.
WorkerStep(w) ==
  /\ worker[w].pc = "run"
  /\ Handle(Slot(worker[w].tid))
  /\ stage' = [stage EXCEPT ![Slot(worker[w].tid)] = worker[w].stage]
  /\ worker' = [worker EXCEPT ![w] =
                  [tid |-> @.tid, pc |-> "wait", stage |-> @.stage + 1]]
  /\ UNCHANGED <<nSubmitted, nInited, nCommitted, client, mon, pipe, pace, available>>

WorkerFinish(w) ==
  LET t == worker[w].tid IN
  /\ worker[w].pc = "wait" /\ OpDone(Slot(t))
  /\ stage' = [stage EXCEPT ![Slot(t)] = Done]
  /\ worker' = [worker EXCEPT ![w] = [tid |-> t, pc |-> "push", stage |-> 0]]
  /\ UNCHANGED <<nSubmitted, nInited, nCommitted, client, ctx, mon, pipe, pace, available>>

WorkerPush(w) ==
  /\ worker[w].pc = "push"
  /\ worker' = [worker EXCEPT ![w] = [tid |-> 0, pc |-> "idle", stage |-> 0]]
  /\ available' = available \cup {w}
  /\ UNCHANGED <<nSubmitted, nInited, nCommitted, client, ctx, stage, mon, pipe, pace>>

-----------------------------------------------------------------------------
Clients == \E t \in Tickets : Fill(t) \/ Release(t)
Monitor == MonInit \/ MonCommit
Pipe(q) == \/ EntryBegin(q) \/ InnerBegin(q) \/ HandOver(q) \/ ExitDone(q)
           \/ ExitBegin(q) \/ ExitHandle(q) \/ Dispatch(q)
Worker(w) == WorkerBegin(w) \/ WorkerStep(w) \/ WorkerFinish(w) \/ WorkerPush(w)

Next ==
  \/ Draw \/ Clients \/ Monitor
  \/ \E q \in Pipes : Pipe(q)
  \/ \E w \in Workers : Worker(w)

Spec == Init /\ [][Next]_vars

\* Every thread keeps running; clients finish the calls they began.
Fairness ==
  /\ WF_vars(Monitor)
  /\ \A t \in Tickets : WF_vars(Fill(t)) /\ WF_vars(Release(t))
  /\ \A q \in Pipes : WF_vars(Pipe(q))
  /\ \A w \in Workers : WF_vars(Worker(w))

FairSpec == Spec /\ Fairness

-----------------------------------------------------------------------------
\* The threads that use ring slot s, each with the ticket it works on.
Users(s) ==
  {<<"client", t>> : t \in {u \in Tickets : client[u] = "filling" /\ Slot(u) = s}}
  \cup {<<q, pipe[q].tid>> : q \in {p \in Pipes : pipe[p].pc = "run"
                                            /\ Slot(pipe[p].tid) = s}}
  \cup {<<w, worker[w].tid>> : w \in {v \in Workers : worker[v].pc \in {"wait", "run"}
                                            /\ Slot(worker[v].tid) = s}}

\* Ring reuse: a slot has one user at a time and holds that user's ticket, from
\* the client's stores through the pipe threads to the worker (the hand-over
\* runs through stages_, n_inited_, pace, wctx->tid and n_committed_).
OneOwner ==
  \A s \in Slots : \A u, v \in Users(s) : u = v /\ u[2] = ctx[s].tid

\* While an entry runs, the slot of the ticket before still holds that ticket's
\* root: ctxs_[(tid-1) % BUFFER_SIZE].root is neither missing nor overwritten.
PreviousRoot ==
  \A q \in Pipes :
    LET t == pipe[q].tid IN
    pipe[q].pc = "run" /\ EntryOf(t) = q =>
      /\ ctx[Slot(t - 1)].tid = t - 1
      /\ t > 1 => ctx[Slot(t - 1)].steps >= 1

\* No handler reads a node before it is complete: when handler j of a ticket
\* runs, the ticket that built t_past has run its handler j + 1, has finished,
\* or is committed.  Slots reused while wait_stage looks at them do not matter.
Behind(s) ==
  LET v == ctx[s].past IN
  \/ v <= nCommitted
  \/ ctx[Slot(v)].tid = v /\ (OpDone(Slot(v)) \/ ctx[Slot(v)].steps >= ctx[s].steps + 2)

StageOrder ==
  /\ \A q \in Pipes : pipe[q].pc = "run" /\ ~ OpDone(Slot(pipe[q].tid))
                      => Behind(Slot(pipe[q].tid))
  /\ \A w \in Workers : worker[w].pc = "run" => Behind(Slot(worker[w].tid))

\* Every ticket drawn is committed: no admission hole, no worker lost or waiting
\* for a ticket behind it, no slot that stays blocked.
EventuallyCommitted ==
  \A t \in Tickets : client[t] = "drawn" ~> nCommitted >= t

=============================================================================
