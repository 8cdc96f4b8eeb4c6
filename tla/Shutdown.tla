------------------------------- MODULE Shutdown -------------------------------
(***************************************************************************)
(* The main loops of a pipelined controller, how they serve collections    *)
(* that clients ask for, and how they stop: lib/conctrl/concow_cyclic.hpp  *)
(* (rotating) and lib/conctrl/concow.hpp (not rotating).                   *)
(*                                                                         *)
(* A pipe thread handles tickets in batches and looks at stop_ only        *)
(* between two batches; after it saw stop_ it handles what is left up to   *)
(* n_submitted_ and ends.  The monitor ends when everything submitted is   *)
(* committed and appends bubbles to the initialised prefix, so that a      *)
(* thread within a batch can finish it.  Handlers and workers are left     *)
(* out: a ticket is committed when its exit has handled it.  A pin is one  *)
(* step here, and so is a scan of the readers; Reclaimer has their loads.  *)
(***************************************************************************)
EXTENDS Integers

CONSTANTS
  NPipes,     \* pipe threads: N_PIPES, or n_pipes_ + 1 with the exit
  Kinds,      \* the controllers: TRUE if the roles rotate with the ticket
  Batch,      \* BATCH_SIZE
  Bounds,     \* pairs of bounds: the tickets submitted, the collections asked for
  Clients     \* threads that read and ask for collections

ASSUME PipesAssumption == NPipes \in Nat /\ NPipes >= 2 /\ Kinds \subseteq BOOLEAN
ASSUME BatchAssumption == /\ Batch \in Nat \ {0} /\ Bounds \subseteq Nat \X Nat
                          /\ TRUE \in Kinds => Batch % NPipes = 0

VARIABLES
  bound,       \* the bounds that hold
  rotating,    \* which controller this is
  stop,        \* stop_
  nSubmitted,  \* n_submitted_
  nInited,     \* n_inited_, or pipes_[0].pace
  pace,        \* pipes_[q].pace
  pipe,        \* each pipe thread: position, next ticket, end of its iteration
  committed,   \* the last ticket its exit has handled
  mon,         \* the monitor: position, its copies of stop_, n_submitted_ and gc_requested_,
               \* n_committed_local, last_reclaimed_frontier
  calm,        \* history: stop_ was set while all pipe threads shared a batch
  requested,   \* gc_requested_
  completed,   \* gc_completed_
  reclaimed,   \* what is retired up to this version is freed
  client       \* each client: the version of its guard or None, the request it waits
               \* for or 0, and what that request must reclaim at least
gcvars == <<requested, completed, reclaimed, client>>
vars == <<bound, rotating, stop, calm, nSubmitted, nInited, pace, pipe, committed, mon, gcvars>>

None == -1

Pipes == 0 .. NPipes - 1
EntryOf(t) == IF rotating THEN (t - 1) % NPipes ELSE 0
ExitOf(t)  == IF rotating THEN (t + NPipes - 2) % NPipes ELSE NPipes - 1
Follow(q)  == (q + 1) % NPipes

\* The ticket before which an iteration up to last ends: a rotating thread
\* takes NPipes tickets at a time.
RoundEnd(first, last) ==
  IF rotating /\ last > first THEN first + NPipes * ((last - first + NPipes - 1) \div NPipes)
  ELSE last

Init ==
  /\ bound \in Bounds /\ rotating \in Kinds /\ calm = FALSE
  /\ stop = FALSE /\ nSubmitted = 0 /\ nInited = 0 /\ committed = 0
  /\ pace = [q \in Pipes |-> 0]
  /\ pipe = [q \in Pipes |-> [pc |-> "test", next |-> 1, last |-> 0]]
  /\ mon = [pc |-> "pass", stop |-> FALSE, sub |-> 0, comm |-> 0, req |-> 0, frontier |-> 0]
  /\ requested = 0 /\ completed = 0 /\ reclaimed = 0
  /\ client = [c \in Clients |-> [guard |-> None, req |-> 0, need |-> 0]]

-----------------------------------------------------------------------------
(* Defective variants, not part of Next: bugs the properties must notice.  *)

\* The bubbles only fill the current batch up.
MonitorEnd_RoundOnly ==
  /\ mon.pc = "pass" /\ mon.stop /\ mon.comm >= mon.sub
  /\ nInited' = nInited + ((Batch - (nInited % Batch)) % Batch)
  /\ mon' = [mon EXCEPT !.pc = "ended"]
  /\ UNCHANGED <<bound, rotating, calm, stop, nSubmitted, pace, pipe, committed, gcvars>>

\* A thread that saw stop_ ends without handling the rest.
TestStop_NoRest(q) ==
  /\ pipe[q].pc = "test"
  /\ LET first == pipe[q].last IN
       pipe' = [pipe EXCEPT ![q] =
         IF stop THEN [pc |-> "rest", next |-> first + 1, last |-> first]
         ELSE [pc |-> "batch", next |-> first + 1, last |-> first + Batch]]
  /\ UNCHANGED <<bound, rotating, calm, stop, nSubmitted, nInited, pace, committed, mon, gcvars>>

-----------------------------------------------------------------------------
\* A client's update() is complete before the destructor runs.
Submit ==
  /\ ~ stop /\ nSubmitted < bound[1]
  /\ nSubmitted' = nSubmitted + 1
  /\ UNCHANGED <<bound, rotating, calm, stop, nInited, pace, pipe, committed, mon, gcvars>>

\* The destructor; no client is in the middle of a call.
Stop ==
  /\ ~ stop /\ \A c \in Clients : client[c].req = 0 /\ client[c].guard = None
  /\ stop' = TRUE
  /\ calm' = \A p, q \in Pipes : /\ pipe[p].pc = "batch" /\ pipe[p].last = pipe[q].last
                                 /\ nSubmitted < pipe[p].last
  /\ UNCHANGED <<bound, rotating, nSubmitted, nInited, pace, pipe, committed, mon, gcvars>>

\* One pass of monitor_main_, or its end with the bubbles.
MonitorPass ==
  /\ mon.pc = "pass" /\ ~ (mon.stop /\ mon.comm >= mon.sub)
  /\ mon' = [mon EXCEPT !.pc = "request", !.stop = stop, !.sub = nSubmitted, !.comm = committed]
  /\ nInited' = nSubmitted
  /\ UNCHANGED <<bound, rotating, calm, stop, nSubmitted, pace, pipe, committed, gcvars>>

MonitorEnd ==
  /\ mon.pc = "pass" /\ mon.stop /\ mon.comm >= mon.sub
  /\ LET margin == Batch + ((Batch - (nInited % Batch)) % Batch)
     IN  nInited' = nInited + margin + (IF rotating THEN NPipes ELSE 0)
  /\ mon' = [mon EXCEPT !.pc = "ended"]
  /\ UNCHANGED <<bound, rotating, calm, stop, nSubmitted, pace, pipe, committed, gcvars>>

-----------------------------------------------------------------------------
(* Collections.                                                            *)

pipevars == <<bound, rotating, stop, calm, nSubmitted, nInited, pace, pipe, committed>>

Lowest(S) == CHOOSE v \in S : \A u \in S : v <= u

Guarded == {client[c].guard : c \in Clients} \ {None}

\* pin and unpin of a guard on the last published version.
Pin(c) ==
  /\ ~ stop /\ client[c].guard = None /\ client[c].req = 0 /\ requested < bound[2]
  /\ client' = [client EXCEPT ![c].guard = mon.comm]
  /\ UNCHANGED <<pipevars, mon, requested, completed, reclaimed>>

Unpin(c) ==
  /\ client[c].guard # None
  /\ client' = [client EXCEPT ![c].guard = None]
  /\ UNCHANGED <<pipevars, mon, requested, completed, reclaimed>>

\* collect_garbage: ask, then wait for the acknowledgement.
Request(c) ==
  /\ ~ stop /\ client[c].req = 0 /\ requested < bound[2]
  /\ requested' = requested + 1
  /\ client' = [client EXCEPT ![c].req = requested + 1, ![c].need = Lowest(Guarded \cup {mon.comm})]
  /\ UNCHANGED <<pipevars, mon, completed, reclaimed>>

Return(c) ==
  /\ client[c].req > 0 /\ completed >= client[c].req
  /\ client' = [client EXCEPT ![c].req = 0, ![c].need = 0]
  /\ UNCHANGED <<pipevars, mon, requested, completed, reclaimed>>

\* A defect, not used: requests alone do not make the monitor collect.
LoadRequest_CommitsOnly ==
  /\ mon.pc = "request"
  /\ mon' = [mon EXCEPT !.req = requested, !.pc = IF mon.comm > mon.frontier THEN "scan" ELSE "pass"]
  /\ UNCHANGED <<pipevars, gcvars>>

\* The rest of a pass: the request is loaded before the scan of the reader slots.
LoadRequest ==
  /\ mon.pc = "request"
  /\ mon' = [mon EXCEPT !.req = requested,
                        !.pc = IF requested > completed \/ mon.comm > mon.frontier THEN "scan" ELSE "pass"]
  /\ UNCHANGED <<pipevars, gcvars>>

\* try_reclaim(n_committed_local)
Reclaim ==
  /\ mon.pc = "scan"
  /\ reclaimed' = Lowest(Guarded \cup {mon.comm})
  /\ mon' = [mon EXCEPT !.pc = "acknowledge", !.frontier = mon.comm]
  /\ UNCHANGED <<pipevars, requested, completed, client>>

\* A defect, not used: requests that came during the scan are acknowledged as well.
Acknowledge_Late ==
  /\ mon.pc = "acknowledge"
  /\ completed' = requested
  /\ mon' = [mon EXCEPT !.pc = "pass"]
  /\ UNCHANGED <<pipevars, requested, reclaimed, client>>

Acknowledge ==
  /\ mon.pc = "acknowledge"
  /\ completed' = mon.req
  /\ mon' = [mon EXCEPT !.pc = "pass"]
  /\ UNCHANGED <<pipevars, requested, reclaimed, client>>

-----------------------------------------------------------------------------
\* pipe_main_: the test of stop_, then one batch or the rest.
TestStop(q) ==
  /\ pipe[q].pc = "test"
  /\ LET first == pipe[q].last IN
       pipe' = [pipe EXCEPT ![q] =
         IF stop THEN [pc |-> "rest", next |-> first + 1, last |-> RoundEnd(first, nSubmitted)]
         ELSE [pc |-> "batch", next |-> first + 1, last |-> first + Batch]]
  /\ UNCHANGED <<bound, rotating, calm, stop, nSubmitted, nInited, pace, committed, mon, gcvars>>

IterationEnd(q) ==
  /\ pipe[q].pc \in {"batch", "rest"} /\ pipe[q].next > pipe[q].last
  /\ pipe' = [pipe EXCEPT ![q].pc = IF @ = "batch" THEN "test" ELSE "ended"]
  /\ UNCHANGED <<bound, rotating, calm, stop, nSubmitted, nInited, pace, committed, mon, gcvars>>

\* One ticket of an iteration: wait for the prefix or the thread before, then
\* hand over to the thread behind, or finish the ticket.
Process(q) ==
  LET t == pipe[q].next IN
  /\ pipe[q].pc \in {"batch", "rest"} /\ t <= pipe[q].last
  /\ t <= IF EntryOf(t) = q THEN nInited ELSE pace[q]
  /\ pipe' = [pipe EXCEPT ![q].next = t + 1]
  /\ IF ExitOf(t) = q
       THEN UNCHANGED pace /\ committed' = IF t <= nSubmitted THEN t ELSE committed
       ELSE pace' = [pace EXCEPT ![Follow(q)] = t] /\ UNCHANGED committed
  /\ UNCHANGED <<bound, rotating, calm, stop, nSubmitted, nInited, mon, gcvars>>

Pipe(q) == TestStop(q) \/ IterationEnd(q) \/ Process(q)
Monitor == MonitorPass \/ MonitorEnd \/ LoadRequest \/ Reclaim \/ Acknowledge
Client(c) == Pin(c) \/ Unpin(c) \/ Request(c) \/ Return(c)

Next ==
  \/ Submit \/ Stop \/ Monitor
  \/ \E q \in Pipes : Pipe(q)
  \/ \E c \in Clients : Client(c)

Spec == Init /\ [][Next]_vars

\* Every thread that can take a step takes one.
FairSpec ==
  /\ Spec /\ WF_vars(Monitor)
  /\ \A q \in Pipes : WF_vars(Pipe(q))
  /\ \A c \in Clients : WF_vars(Return(c))

-----------------------------------------------------------------------------
\* The destructor drains: when the last pipe thread has ended, every submitted
\* ticket went through its exit, whichever iteration each thread ended in.
Drained == (\A q \in Pipes : pipe[q].pc = "ended") => committed = nSubmitted

Ended == mon.pc = "ended" /\ \A q \in Pipes : pipe[q].pc = "ended"

\* The destructor returns: "append bubbles to terminate the pipeline", then it
\* joins the monitor and every pipe thread (~concow, ~concow_cyclic).
DestructorReturns == stop ~> Ended

\* It does when stop_ is set while every thread is within the same batch: the
\* bubbles let each of them finish it.
CalmDestructorReturns == (stop /\ calm) ~> Ended

\* A collection that was asked for reflects every guard dropped before: when
\* collect_garbage returns, all is freed that no guard of that moment held, also
\* if the request came in the middle of a pass ("unpin followed by
\* collect_garbage() must be reflected in the acknowledged collection").
CollectReflects ==
  [][\A c \in Clients : client[c].req > 0 /\ client'[c].req = 0 => reclaimed >= client[c].need]_vars

\* collect_garbage returns, whether or not anything is committed after it.
CollectReturns == \A c \in Clients : client[c].req > 0 ~> client[c].req = 0

=============================================================================
