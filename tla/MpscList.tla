------------------------------- MODULE MpscList -------------------------------
(***************************************************************************)
(* The list of idle workers (lib/conctrl/mpsc_list.hpp) with its users:    *)
(* each worker pushes itself when it has finished a ticket (worker_main_), *)
(* and the exit of the pipeline pops until it gets one (process_exit).     *)
(* The exits of different tickets run on different threads but one after   *)
(* the other, so there is one consumer.  Each access to head_ or to a next *)
(* field is a step; tail_ belongs to the consumer.                         *)
(***************************************************************************)
EXTENDS Naturals, Sequences, FiniteSets

CONSTANTS
  Workers,  \* the items
  stub,     \* stub_
  null      \* nullptr

ASSUME ItemAssumption == stub \notin Workers /\ null \notin Workers \cup {stub}

VARIABLES
  next,    \* the next field of each item
  head,    \* head_
  tail,    \* tail_
  wpc,     \* where each worker is in push
  wprev,   \* its prev
  ppc,     \* where the consumer is in pop
  ptail, pnext, pprev,  \* its locals, pprev that of push(&stub_)
  queue    \* history: items in the order of their exchange, not yet returned

wvars == <<wpc, wprev>>
pvars == <<ptail, pnext, pprev>>
vars  == <<next, head, tail, ppc, queue, wvars, pvars>>
Items == Workers \cup {stub}

\* The constructor, with every worker still to be pushed.
Init ==
  /\ next = [i \in Items |-> null]
  /\ head = stub /\ tail = stub
  /\ wpc = [w \in Workers |-> "busy"] /\ wprev = [w \in Workers |-> null]
  /\ ppc = "idle" /\ ptail = stub /\ pnext = null /\ pprev = null
  /\ queue = <<>>

-----------------------------------------------------------------------------
(* Defective variants, not part of Next: bugs the properties must notice.  *)

\* The next field left from the item's last stay in the list.
PushClear_Skip(w) ==
  /\ wpc[w] = "busy"
  /\ wpc' = [wpc EXCEPT ![w] = "exchange"]
  /\ UNCHANGED <<next, head, tail, wprev, ppc, queue, pvars>>

\* The stub never linked behind the last item.
StubLink_Missing ==
  /\ ppc = "link" /\ ppc' = "reload" /\ pprev' = null
  /\ UNCHANGED <<next, head, tail, queue, wvars, ptail, pnext>>

-----------------------------------------------------------------------------
(* push(item) by the worker itself.                                        *)

PushClear(w) ==
  /\ wpc[w] = "busy"
  /\ next' = [next EXCEPT ![w] = null]
  /\ wpc' = [wpc EXCEPT ![w] = "exchange"]
  /\ UNCHANGED <<head, tail, wprev, ppc, queue, pvars>>

PushExchange(w) ==
  /\ wpc[w] = "exchange"
  /\ head' = w /\ wprev' = [wprev EXCEPT ![w] = head]
  /\ wpc' = [wpc EXCEPT ![w] = "link"]
  /\ queue' = Append(queue, w)
  /\ UNCHANGED <<next, tail, ppc, pvars>>

\* From here on the worker waits for a ticket, in the list or already popped.
PushLink(w) ==
  /\ wpc[w] = "link"
  /\ next' = [next EXCEPT ![wprev[w]] = w]
  /\ wpc' = [wpc EXCEPT ![w] = "idle"]
  /\ wprev' = [wprev EXCEPT ![w] = null]
  /\ UNCHANGED <<head, tail, ppc, queue, pvars>>

-----------------------------------------------------------------------------
(* pop()                                                                   *)

\* History: the queue without the item that is returned, wherever it stands.
Without(item) ==
  IF \E i \in DOMAIN queue : queue[i] = item
    THEN LET i == CHOOSE j \in DOMAIN queue : queue[j] = item
         IN  SubSeq(queue, 1, i - 1) \o SubSeq(queue, i + 1, Len(queue))
    ELSE queue

\* return item, and the exit stores the ticket in wctx->tid.
Return(item) ==
  /\ queue' = Without(item)
  /\ wpc' = [wpc EXCEPT ![item] = "busy"]
  /\ ppc' = "idle" /\ ptail' = stub /\ pnext' = null
  /\ UNCHANGED <<next, head, wprev, pprev>>

ReturnNull == ppc' = "idle" /\ ptail' = stub /\ pnext' = null

PopLoad ==
  /\ ppc = "idle"
  /\ ptail' = tail /\ pnext' = next[tail]
  /\ ppc' = IF tail = stub THEN "stub" ELSE "test"
  /\ UNCHANGED <<next, head, tail, queue, wvars, pprev>>

\* tail == &stub_: nothing linked, or step over the stub.
PopStub ==
  /\ ppc = "stub"
  /\ IF pnext = null
       THEN ReturnNull /\ UNCHANGED tail
       ELSE /\ tail' = pnext /\ ptail' = pnext /\ pnext' = next[pnext]
            /\ ppc' = "test"
  /\ UNCHANGED <<next, head, queue, wvars, pprev>>

\* The last linked item: if it is head_ too, put the stub behind it.
PopHead ==
  /\ ppc = "test" /\ pnext = null
  /\ IF ptail # head THEN ReturnNull ELSE ppc' = "clear" /\ UNCHANGED <<ptail, pnext>>
  /\ UNCHANGED <<next, head, tail, queue, wvars, pprev>>

StubClear ==
  /\ ppc = "clear"
  /\ next' = [next EXCEPT ![stub] = null]
  /\ ppc' = "exchange"
  /\ UNCHANGED <<head, tail, queue, wvars, pvars>>

StubExchange ==
  /\ ppc = "exchange"
  /\ head' = stub /\ pprev' = head
  /\ ppc' = "link"
  /\ UNCHANGED <<next, tail, queue, wvars, ptail, pnext>>

StubLink ==
  /\ ppc = "link"
  /\ next' = [next EXCEPT ![pprev] = stub]
  /\ pprev' = null
  /\ ppc' = "reload"
  /\ UNCHANGED <<head, tail, queue, wvars, ptail, pnext>>

PopReload ==
  /\ ppc = "reload"
  /\ IF next[ptail] = null
       THEN ReturnNull
       ELSE ppc' = "test" /\ pnext' = next[ptail] /\ UNCHANGED ptail
  /\ UNCHANGED <<next, head, tail, queue, wvars, pprev>>

\* The item has a successor: it leaves the list.
PopTake ==
  /\ ppc = "test" /\ pnext # null
  /\ tail' = pnext
  /\ Return(ptail)

-----------------------------------------------------------------------------
Push(w) == PushExchange(w) \/ PushLink(w)
Pop == \/ PopLoad \/ PopStub \/ PopTake \/ PopHead
       \/ StubClear \/ StubExchange \/ StubLink \/ PopReload

Next == Pop \/ \E w \in Workers : PushClear(w) \/ Push(w)

Spec == Init /\ [][Next]_vars

\* A push that was begun ends; the exit pops until it gets a worker.
FairSpec == Spec /\ WF_vars(Pop) /\ \A w \in Workers : WF_vars(Push(w))

-----------------------------------------------------------------------------
\* pop hands workers out in the order in which their pushes exchanged head_.
Abstract == INSTANCE WorkerQueue
FirstInFirstOut == Abstract!Spec

\* The exit that spins on an empty list gets every worker that pushed itself.
EventuallyPopped == \A w \in Workers : wpc[w] = "link" ~> wpc[w] = "busy"

=============================================================================
