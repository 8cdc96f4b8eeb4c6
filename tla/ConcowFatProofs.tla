--------------------------- MODULE ConcowFatProofs ---------------------------
(***************************************************************************)
(* Proofs about ConcowFat for any number of clients and workers, any queue *)
(* and batch, and whatever the tree operators compute: no wakeup is lost,  *)
(* the pool is at rest between waves, and the destructor drains.           *)
(***************************************************************************)
EXTENDS ConcowFat, FiniteSetTheorems, WellFoundedInduction, TLAPS

(***************************************************************************)
(* The strengthening.                                                      *)
(***************************************************************************)
Threads == Clients \cup {"coordinator", "main"} \cup Workers
Written == UNION {o.writes : o \in Setups}

ClientPcs      == {"idle", "update", "notify", "await", "threw"}
CoordinatorPcs == {"fetch", "plan", "cow", "start", "gather", "take", "run", "merge", "publish",
                   "store", "notify", "fail", "failed", "ended"}
MainPcs        == {"running", "notify", "join", "joinPool", "destroyed"}
WorkerPcs      == {"wait", "take", "run", "finish", "ended"}

PcOK ==
  /\ pc \in [Threads -> ClientPcs \cup CoordinatorPcs \cup MainPcs \cup WorkerPcs]
  /\ \A c \in Clients : pc[c] \in ClientPcs
  /\ \A w \in Workers : pc[w] \in WorkerPcs
  /\ pc["coordinator"] \in CoordinatorPcs /\ pc["main"] \in MainPcs

TypeOK ==
  /\ opts \in Setups /\ log \in Seq(Written)
  /\ stopping \in BOOLEAN /\ failure \in BOOLEAN /\ poolStopping \in BOOLEAN
  /\ inputMutex \in Clients \cup {Nobody} /\ asleep \subseteq Clients \cup {"coordinator"}
  /\ PcOK /\ awaits \in [Clients -> Nat]
  /\ "last" \in DOMAIN batch /\ batch.last \in Nat
  /\ generation \in Nat /\ remaining \in Nat /\ nextGroup \in Nat
  /\ work \in [Workers \cup {"coordinator"} -> [seen : Nat, group : Nat, pos : Nat]]

\* The predicate of commit_cv_ does not hold for client c.
Waits(c) == \/ pc[c] = "update" /\ ~ failure /\ ~ stopping /\ Full
            \/ pc[c] = "await" /\ ~ failure /\ ~ (committed >= awaits[c])

\* A client that is about to sleep holds the mutex; one that sleeps has a reason,
\* or will be notified by the coordinator.
WaitInv ==
  /\ inputMutex # Nobody => inputMutex \notin asleep /\ Waits(inputMutex)
  /\ \A c \in Clients \cap asleep :
       \/ Waits(c)
       \/ pc["coordinator"] \in {"notify", "failed"} /\ pc[c] \in {"update", "await"}
  /\ \A c \in Clients : awaits[c] <= Len(log)

\* The coordinator sleeps only on an empty queue, or will be notified.
CoordinatorInv ==
  /\ batch.last <= Len(log)
  /\ pc["coordinator"] = "fetch" => committed = batch.last
  /\ pc["coordinator"] = "notify" => committed = end
  /\ pc["coordinator"] = "failed" => failure
  /\ pc["coordinator"] = "ended" => failure \/ (committed = Len(log) /\ pc["main"] # "running")
  /\ "coordinator" \in asleep =>
       /\ pc["coordinator"] = "fetch"
       /\ \/ batch.last = Len(log) /\ ~ stopping
          \/ pc["main"] = "notify"
          \/ \E c \in Clients : pc[c] = "notify"

\* The destructor comes after all calls, and stops the pool last.
StopInv ==
  /\ stopping => failure \/ pc["main"] # "running"
  /\ pc["main"] # "running" => stopping /\ \A c \in Clients : pc[c] \in {"idle", "threw"}
  /\ pc["main"] \in {"joinPool", "destroyed"} => pc["coordinator"] = "ended"
  /\ poolStopping <=> pc["main"] \in {"joinPool", "destroyed"}

\* The workers that have still to finish the wave; remaining_ counts them.
Active == {w \in Workers : \/ pc[w] \in {"take", "run", "finish"}
                           \/ pc[w] = "wait" /\ work[w].seen # generation}

PoolInv ==
  /\ remaining = Cardinality(Active)
  /\ pc["coordinator"] # "gather" => remaining = 0
  /\ \A w \in Workers : /\ work[w].seen <= generation
                        /\ pc[w] \in {"take", "run", "finish"} => work[w].seen = generation
                        /\ pc[w] = "ended" => poolStopping

\* The coordinator advances committed_ through its batch, which is in the queue,
\* and publishes a root before it stores the version.
Waved == {"cow", "start", "gather", "take", "run", "merge", "publish", "store"}

OrderInv ==
  /\ committed \in Nat /\ committed <= Len(log) /\ Len(log) - committed <= opts.queue_capacity
  /\ pc["coordinator"] \in Waved \cup {"plan", "notify"} => "next" \in DOMAIN batch
  /\ pc["coordinator"] \in Waved \cup {"plan"} => batch.next = committed + 1 /\ batch.next <= batch.last
  /\ pc["coordinator"] \in Waved => end \in batch.next .. batch.last
  /\ pc["coordinator"] = "notify" => end <= batch.last
  /\ committed \in DOMAIN roots
  /\ \A v \in DOMAIN roots : v \in 0 .. committed \/ (pc["coordinator"] = "store" /\ v = end)
  /\ pc["coordinator"] = "store" => end \in DOMAIN roots

IInv == TypeOK /\ WaitInv /\ CoordinatorInv /\ StopInv /\ PoolInv

-----------------------------------------------------------------------------
(* Threads, the pool, and the initial states.                              *)

LEMMA ThreadFacts ==
  /\ Clients \cap Workers = {} /\ Nobody \notin Clients /\ Nobody # "coordinator"
  /\ "coordinator" \notin Clients /\ "coordinator" \notin Workers
  /\ "main" \notin Clients /\ "main" \notin Workers
BY ThreadsAssumption DEF Nobody

\* A thread goes on; the others stay where they are.
LEMMA PcStep ==
  ASSUME PcOK, NEW t \in Threads, NEW p, pc' = [pc EXCEPT ![t] = p],
         t \in Clients => p \in ClientPcs, t \in Workers => p \in WorkerPcs,
         t = "coordinator" => p \in CoordinatorPcs, t = "main" => p \in MainPcs
  PROVE  PcOK' /\ pc'[t] = p /\ \A u \in Threads : u # t => pc'[u] = pc[u]
<1>1. p \in ClientPcs \cup CoordinatorPcs \cup MainPcs \cup WorkerPcs
  BY DEF Threads
<1>2. /\ pc' \in [Threads -> ClientPcs \cup CoordinatorPcs \cup MainPcs \cup WorkerPcs]
      /\ pc'[t] = p /\ \A u \in Threads : u # t => pc'[u] = pc[u]
  BY <1>1 DEF PcOK
<1>3. /\ Clients \subseteq Threads /\ Workers \subseteq Threads
      /\ "coordinator" \in Threads /\ "main" \in Threads
  BY DEF Threads
<1>4. /\ \A c \in Clients : pc'[c] \in ClientPcs
      /\ \A w \in Workers : pc'[w] \in WorkerPcs
      /\ pc'["coordinator"] \in CoordinatorPcs /\ pc'["main"] \in MainPcs
  BY <1>2, <1>3 DEF PcOK
<1>5. QED
  BY <1>2, <1>4 DEF PcOK

LEMMA ActiveFinite ==
  /\ IsFiniteSet(Active) /\ Cardinality(Active) \in Nat
  /\ Cardinality(Active) = 0 <=> Active = {}
<1>1. Active \in SUBSET Workers
  BY DEF Active
<1>2. IsFiniteSet(Active)
  BY <1>1, ThreadsAssumption, FS_Subset
<1>3. QED
  BY <1>2, FS_CardinalityType, FS_EmptySet

\* Between waves every worker waits for the next one, or has ended.
LEMMA AtRest ==
  ASSUME TypeOK, PoolInv, pc["coordinator"] # "gather"
  PROVE  /\ Active = {}
         /\ \A w \in Workers : /\ pc[w] \in {"wait", "ended"}
                               /\ pc[w] = "wait" => work[w].seen = generation
<1>1. Active = {}
  BY ActiveFinite DEF PoolInv
<1>2. QED
  BY <1>1 DEF Active, TypeOK, PcOK, WorkerPcs

LEMMA InitOK == Init => IInv
<1> SUFFICES ASSUME Init PROVE IInv
  OBVIOUS
<1>1. /\ "coordinator" \in Threads /\ "main" \in Threads
      /\ pc["coordinator"] = "fetch" /\ pc["main"] = "running"
      /\ \A c \in Clients : pc[c] = "idle"
      /\ \A w \in Workers : pc[w] = "wait"
  BY ThreadFacts DEF Init, Threads
<1>2. PcOK
  <2>1. \A t \in Threads : pc[t] \in {"idle", "running", "fetch", "wait"}
    BY DEF Init, Threads
  <2>2. pc = [t \in Threads |-> pc[t]]
    BY DEF Init, Threads
  <2>3. pc \in [Threads -> ClientPcs \cup CoordinatorPcs \cup MainPcs \cup WorkerPcs]
    BY <2>1, <2>2 DEF ClientPcs, CoordinatorPcs, MainPcs, WorkerPcs
  <2>4. QED
    BY <1>1, <2>3 DEF PcOK, ClientPcs, CoordinatorPcs, MainPcs, WorkerPcs
<1>3. TypeOK
  <2>1. /\ opts \in Setups /\ log = <<>> /\ stopping = FALSE /\ failure = FALSE /\ poolStopping = FALSE
        /\ inputMutex = Nobody /\ asleep = {} /\ awaits = [c \in Clients |-> 0]
        /\ batch = [next |-> 1, last |-> 0] /\ generation = 0 /\ remaining = 0 /\ nextGroup = 1
        /\ work = [w \in Workers \cup {"coordinator"} |-> [seen |-> 0, group |-> 0, pos |-> 1]]
    BY DEF Init, Idle
  <2>2. "last" \in DOMAIN batch /\ batch.last \in Nat
    BY <2>1
  <2>3. work \in [Workers \cup {"coordinator"} -> [seen : Nat, group : Nat, pos : Nat]]
    BY <2>1
  <2>4. log \in Seq(Written) /\ awaits \in [Clients -> Nat] /\ generation \in Nat
        /\ remaining \in Nat /\ nextGroup \in Nat
    BY <2>1
  <2>5. /\ opts \in Setups /\ stopping \in BOOLEAN /\ failure \in BOOLEAN /\ poolStopping \in BOOLEAN
        /\ inputMutex \in Clients \cup {Nobody} /\ asleep \subseteq Clients \cup {"coordinator"}
    BY <2>1
  <2>6. QED
    BY <1>2, <2>2, <2>3, <2>4, <2>5 DEF TypeOK
<1>4. WaitInv /\ CoordinatorInv /\ StopInv
  BY <1>1 DEF Init, WaitInv, CoordinatorInv, StopInv
<1>5. PoolInv
  <2>1. \A w \in Workers : work[w].seen = 0
    BY DEF Init, Idle
  <2>2. Active = {}
    BY <1>1, <2>1 DEF Init, Active
  <2>3. remaining = Cardinality(Active)
    BY <2>2, FS_EmptySet DEF Init
  <2>4. QED
    BY <1>1, <2>1, <2>3 DEF Init, PoolInv
<1>6. QED
  BY <1>3, <1>4, <1>5 DEF IInv

\* A step that neither starts nor finishes a part of a wave.
LEMMA PoolSame ==
  ASSUME PoolInv, UNCHANGED <<generation, remaining>>, poolStopping => poolStopping',
         \A w \in Workers : pc'[w] = pc[w] /\ work'[w] = work[w],
         pc'["coordinator"] # "gather" => remaining = 0
  PROVE  PoolInv'
<1>1. Active' = Active
  BY DEF Active
<1>2. QED
  BY <1>1 DEF PoolInv

-----------------------------------------------------------------------------
(* Clients.                                                                *)

\* Clients that sleep or are about to, but the one that moves, still wait.
LEMMA StillWaiting ==
  ASSUME IInv, NEW c, \A d \in Clients : d # c => pc'[d] = pc[d],
         UNCHANGED <<opts, stopping, failure, committed, awaits, log>>
  PROVE  \A d \in Clients : d # c /\ Waits(d) => Waits(d)'
<1>1. Full' <=> Full
  BY DEF Full
<1>2. QED
  BY <1>1 DEF Waits

LEMMA ClientMoves ==
  ASSUME IInv, NEW c \in Clients, NEW p \in ClientPcs, pc' = [pc EXCEPT ![c] = p],
         c \notin asleep, inputMutex # c,
         UNCHANGED <<opts, log, stopping, failure, committed, inputMutex, awaits, batch, end,
                     generation, remaining, poolStopping, nextGroup, work>>,
         asleep' \in {asleep, asleep \ {"coordinator"}},
         pc["main"] = "running" \/ p \in {"idle", "threw"},
         pc[c] = "notify" => asleep' = asleep \ {"coordinator"}
  PROVE  IInv'
<1>i. TypeOK /\ WaitInv /\ CoordinatorInv /\ StopInv /\ PoolInv /\ PcOK
  BY DEF IInv, TypeOK
<1>1. c \in Threads /\ c \notin Workers /\ c # "coordinator" /\ c # "main"
  BY ThreadFacts DEF Threads
<1>2. PcOK' /\ pc'[c] = p /\ \A u \in Threads : u # c => pc'[u] = pc[u]
  BY <1>i, <1>1, PcStep
<1>3. /\ \A d \in Clients : d # c => pc'[d] = pc[d]
      /\ \A w \in Workers : pc'[w] = pc[w]
      /\ pc'["coordinator"] = pc["coordinator"] /\ pc'["main"] = pc["main"]
  BY <1>1, <1>2 DEF Threads
<1>4. TypeOK'
  BY <1>i, <1>2 DEF TypeOK
<1>5. \A d \in Clients : d # c /\ Waits(d) => Waits(d)'
  BY <1>3, StillWaiting
<1>6. WaitInv'
  <2>1. inputMutex # Nobody => inputMutex \in Clients
    BY <1>i DEF TypeOK
  <2>2. \A d \in Clients : d \in asleep' <=> d \in asleep
    BY ThreadFacts
  <2>3. \A d \in Clients \cap asleep' :
          \/ Waits(d)'
          \/ pc'["coordinator"] \in {"notify", "failed"} /\ pc'[d] \in {"update", "await"}
    BY <1>i, <1>3, <1>5, <2>2 DEF WaitInv
  <2>4. inputMutex' # Nobody => inputMutex' \notin asleep' /\ Waits(inputMutex)'
    BY <1>i, <1>5, <2>1, <2>2 DEF WaitInv
  <2>5. QED
    BY <1>i, <2>3, <2>4 DEF WaitInv
<1>7. CoordinatorInv'
  BY <1>i, <1>3 DEF CoordinatorInv
<1>8. StopInv'
  BY <1>i, <1>2, <1>3 DEF StopInv
<1>9. PoolInv'
  BY <1>i, <1>3, PoolSame DEF PoolInv
<1>10. QED
  BY <1>4, <1>6, <1>7, <1>8, <1>9 DEF IInv

LEMMA ClientAwake ==
  ASSUME IInv, NEW c \in Clients, pc[c] \notin {"update", "await"}
  PROVE  c \notin asleep /\ inputMutex # c
BY ThreadFacts DEF IInv, WaitInv, Waits

LEMMA CallStep ==
  ASSUME IInv, NEW c \in opts.clients, NEW op \in opts.calls, Call(c, op)
  PROVE  IInv'
<1>1. /\ pc[c] = "idle" /\ pc["main"] = "running" /\ pc' = [pc EXCEPT ![c] = op]
      /\ UNCHANGED <<opts, log, stopping, failure, committed, inputMutex, asleep, awaits, batch, end,
                     generation, remaining, poolStopping, nextGroup, work>>
  BY DEF Call, Go, fixed, input, plan, pool
<1>2. c \in Clients /\ op \in ClientPcs
  BY OptionsAssumption DEF IInv, TypeOK, ClientPcs
<1>3. c \notin asleep /\ inputMutex # c
  BY <1>1, <1>2, ClientAwake
<1>4. QED
  BY <1>1, <1>2, <1>3, ClientMoves

LEMMA NotifyInputStep ==
  ASSUME IInv, NEW c \in opts.clients, NotifyInput(c)
  PROVE  IInv'
<1>1. /\ pc[c] = "notify" /\ pc' = [pc EXCEPT ![c] = "idle"] /\ asleep' = asleep \ {"coordinator"}
      /\ UNCHANGED <<opts, log, stopping, failure, committed, inputMutex, awaits, batch, end,
                     generation, remaining, poolStopping, nextGroup, work>>
  BY DEF NotifyInput, At, Go, fixed, input, plan, pool
<1>2. c \in Clients /\ "idle" \in ClientPcs
  BY OptionsAssumption DEF IInv, TypeOK, ClientPcs
<1>3. c \notin asleep /\ inputMutex # c
  BY <1>1, <1>2, ClientAwake
<1>4. QED
  BY <1>1, <1>2, <1>3, ClientMoves

LEMMA ProcessedStep ==
  ASSUME IInv, NEW c \in opts.clients, Processed(c)
  PROVE  IInv'
<1>1. PICK p \in {"idle", "threw"} :
        /\ pc[c] = "await" /\ c \notin asleep /\ inputMutex = Nobody /\ pc' = [pc EXCEPT ![c] = p]
        /\ UNCHANGED <<opts, log, stopping, failure, committed, inputMutex, asleep, awaits, batch, end,
                       generation, remaining, poolStopping, nextGroup, work>>
  BY DEF Processed, At, Go, Unlocked, fixed, input, plan, pool
<1>2. c \in Clients /\ p \in ClientPcs
  BY OptionsAssumption DEF IInv, TypeOK, ClientPcs
<1>3. inputMutex # c
  BY <1>1, <1>2, ThreadFacts
<1>4. QED
  BY <1>1, <1>2, <1>3, ClientMoves

\* A client in a call has not been overtaken by the destructor.
LEMMA InCall ==
  ASSUME IInv, NEW c \in Clients, pc[c] \notin {"idle", "threw"}
  PROVE  pc["main"] = "running"
BY DEF IInv, StopInv

LEMMA SubmitStep ==
  ASSUME IInv, NEW c \in opts.clients, NEW k \in opts.writes, Submit(c, k)
  PROVE  IInv'
<1>i. TypeOK /\ WaitInv /\ CoordinatorInv /\ StopInv /\ PoolInv /\ PcOK
  BY DEF IInv, TypeOK
<1>1. /\ pc[c] = "update" /\ c \notin asleep /\ inputMutex = Nobody /\ (failure \/ stopping \/ ~ Full)
      /\ UNCHANGED <<opts, stopping, failure, committed, inputMutex, asleep, batch, end,
                     generation, remaining, poolStopping, nextGroup, work>>
  BY DEF Submit, At, Unlocked, fixed, plan, pool
<1>2. c \in Clients /\ {"threw", "notify"} \subseteq ClientPcs /\ k \in Written
  BY <1>i, OptionsAssumption DEF TypeOK, ClientPcs, Written
<1>3. inputMutex # c /\ pc["main"] = "running"
  BY <1>1, <1>2, ThreadFacts, InCall
<1>4. CASE failure \/ stopping \/ Len(log) = MaxVersion
  <2>1. pc' = [pc EXCEPT ![c] = "threw"] /\ UNCHANGED <<log, awaits>>
    BY <1>4 DEF Submit, Go
  <2>2. QED
    BY <1>1, <1>2, <1>3, <2>1, ClientMoves
<1>5. CASE ~ (failure \/ stopping \/ Len(log) = MaxVersion)
  <2>1. /\ pc' = [pc EXCEPT ![c] = "notify"] /\ log' = Append(log, k)
        /\ awaits' = [awaits EXCEPT ![c] = Len(log) + 1] /\ ~ failure /\ ~ stopping /\ ~ Full
    BY <1>1, <1>5 DEF Submit, Go
  <2>2. c \in Threads /\ c \notin Workers /\ c # "coordinator" /\ c # "main"
    BY <1>2, ThreadFacts DEF Threads
  <2>3. PcOK' /\ pc'[c] = "notify" /\ \A u \in Threads : u # c => pc'[u] = pc[u]
    BY <1>i, <1>2, <2>1, <2>2, PcStep
  <2>4. /\ \A d \in Clients : d # c => pc'[d] = pc[d]
        /\ \A w \in Workers : pc'[w] = pc[w]
        /\ pc'["coordinator"] = pc["coordinator"] /\ pc'["main"] = pc["main"]
    BY <2>2, <2>3 DEF Threads
  <2>5. /\ log' \in Seq(Written) /\ Len(log') = Len(log) + 1 /\ Len(log) \in Nat
        /\ awaits' \in [Clients -> Nat] /\ awaits'[c] = Len(log) + 1
        /\ \A d \in Clients : d # c => awaits'[d] = awaits[d]
    BY <1>i, <1>2, <2>1 DEF TypeOK
  <2>6. TypeOK'
    BY <1>i, <1>1, <2>3, <2>5 DEF TypeOK
  <2>7. WaitInv'
    <3>1. ASSUME NEW d \in Clients \cap asleep'
          PROVE  \/ Waits(d)'
                 \/ pc'["coordinator"] \in {"notify", "failed"} /\ pc'[d] \in {"update", "await"}
      BY <1>i, <1>1, <2>1, <2>4, <2>5 DEF WaitInv, Waits
    <3>2. \A d \in Clients : awaits'[d] <= Len(log')
      BY <1>i, <2>5 DEF WaitInv, TypeOK
    <3>3. QED
      BY <1>1, <3>1, <3>2 DEF WaitInv
  <2>8. CoordinatorInv'
    BY <1>i, <1>1, <1>2, <1>3, <2>1, <2>3, <2>4, <2>5 DEF CoordinatorInv, TypeOK
  <2>9. StopInv'
    BY <1>i, <1>1, <1>3, <2>4 DEF StopInv
  <2>10. PoolInv'
    BY <1>i, <1>1, <2>4, PoolSame DEF PoolInv
  <2>11. QED
    BY <2>6, <2>7, <2>8, <2>9, <2>10 DEF IInv
<1>6. QED
  BY <1>4, <1>5

\* Only input_mutex_ and who sleeps change, and the coordinator does not fall asleep.
LEMMA OnlyWaits ==
  ASSUME IInv, UNCHANGED <<opts, log, stopping, failure, committed, pc, awaits, batch, end,
                           generation, remaining, poolStopping, nextGroup, work>>,
         inputMutex' \in Clients \cup {Nobody},
         asleep' \in {asleep, asleep \cup {inputMutex}}, inputMutex = Nobody => asleep' = asleep,
         inputMutex' # Nobody => inputMutex' \notin asleep' /\ Waits(inputMutex')
  PROVE  IInv'
<1>i. TypeOK /\ WaitInv /\ CoordinatorInv /\ StopInv /\ PoolInv /\ PcOK
  BY DEF IInv, TypeOK
<1>1. \A d : Waits(d)' <=> Waits(d)
  BY DEF Waits, Full
<1>2. asleep' \subseteq Clients \cup {"coordinator"} /\ ("coordinator" \in asleep' <=> "coordinator" \in asleep)
  BY <1>i, ThreadFacts DEF TypeOK
<1>3. TypeOK'
  BY <1>i, <1>2 DEF TypeOK, PcOK
<1>4. WaitInv'
  <2>1. \A d \in Clients \cap asleep' : d \in asleep \/ Waits(d)
    BY <1>i DEF WaitInv
  <2>2. QED
    BY <1>i, <1>1, <2>1 DEF WaitInv
<1>5. CoordinatorInv' /\ StopInv'
  BY <1>i, <1>2 DEF CoordinatorInv, StopInv
<1>6. PoolInv'
  BY <1>i, PoolSame DEF PoolInv
<1>7. QED
  BY <1>3, <1>4, <1>5, <1>6 DEF IInv

LEMMA BlockStep ==
  ASSUME IInv, NEW c \in opts.clients, Block(c)
  PROVE  IInv'
<1>1. /\ inputMutex' = c /\ c \notin asleep /\ Waits(c) /\ asleep' = asleep
      /\ UNCHANGED <<opts, log, stopping, failure, committed, pc, awaits, batch, end,
                     generation, remaining, poolStopping, nextGroup, work>>
  BY DEF Block, At, Waits, fixed, input, plan, pool
<1>2. c \in Clients
  BY OptionsAssumption DEF IInv, TypeOK
<1>3. QED
  BY <1>1, <1>2, OnlyWaits

LEMMA SleepStep ==
  ASSUME IInv, NEW c \in opts.clients, Sleep(c)
  PROVE  IInv'
<1>1. /\ inputMutex = c /\ inputMutex' = Nobody /\ asleep' = asleep \cup {inputMutex}
      /\ UNCHANGED <<opts, log, stopping, failure, committed, pc, awaits, batch, end,
                     generation, remaining, poolStopping, nextGroup, work>>
  BY DEF Sleep, fixed, input, plan, pool
<1>2. c # Nobody
  BY OptionsAssumption, ThreadFacts DEF IInv, TypeOK
<1>3. QED
  BY <1>1, <1>2, OnlyWaits

-----------------------------------------------------------------------------
(* Groups.                                                                 *)

\* Only thread t's part of work may change, and not the wave it has seen.
OwnWork(t) ==
  /\ work' \in [Workers \cup {"coordinator"} -> [seen : Nat, group : Nat, pos : Nat]]
  /\ \A u \in Workers \cup {"coordinator"} : u # t => work'[u] = work[u]
  /\ work'[t].seen = work[t].seen

LEMMA OwnWorkSame ==
  ASSUME TypeOK, NEW t, UNCHANGED work
  PROVE  OwnWork(t)
BY DEF TypeOK, OwnWork

LEMMA OwnWorkGroup ==
  ASSUME TypeOK, NEW t \in Workers \cup {"coordinator"}, NEW g \in Nat,
         work' = [work EXCEPT ![t].group = g, ![t].pos = 1]
  PROVE  OwnWork(t)
<1> DEFINE T == Workers \cup {"coordinator"}
           R == [seen : Nat, group : Nat, pos : Nat]
           r == [[work[t] EXCEPT !.group = g] EXCEPT !.pos = 1]
<1>1. work \in [T -> R]
  BY DEF TypeOK
<1>2. r \in R /\ r.seen = work[t].seen
  BY <1>1
<1>3. work' = [work EXCEPT ![t] = r]
  BY <1>1
<1> HIDE DEF r
<1>4. work' \in [T -> R] /\ work'[t] = r /\ \A u \in T : u # t => work'[u] = work[u]
  BY <1>1, <1>2, <1>3
<1>5. QED
  BY <1>2, <1>4 DEF OwnWork

LEMMA OwnWorkPos ==
  ASSUME TypeOK, NEW t \in Workers \cup {"coordinator"},
         work' = [work EXCEPT ![t].pos = @ + 1]
  PROVE  OwnWork(t)
BY DEF TypeOK, OwnWork

\* What execute_group and the loop around it do to the variables of the control.
LEMMA GroupStep ==
  ASSUME IInv, NEW t \in Workers \cup {"coordinator"}, Take(t) \/ AppendOp(t) \/ PrepareOp(t)
  PROVE  /\ \E p \in {"take", "run", "finish", "merge"} :
              /\ pc' = [pc EXCEPT ![t] = p]
              /\ p = "finish" => t \in Workers
              /\ p = "merge" => t \notin Workers
         /\ pc[t] \in {"take", "run"} /\ t \notin asleep
         /\ OwnWork(t) /\ nextGroup' \in Nat
         /\ UNCHANGED <<opts, log, stopping, failure, committed, inputMutex, asleep, awaits, batch,
                        end, generation, remaining, poolStopping>>
<1>i. TypeOK /\ PcOK
  BY DEF IInv, TypeOK
<1>1. CASE Take(t)
  <2> DEFINE g == IF t \in Workers THEN nextGroup ELSE work[t].group + 1
  <2>1. g \in Nat /\ nextGroup + 1 \in Nat
    BY <1>i DEF TypeOK
  <2>2. /\ pc[t] = "take" /\ t \notin asleep
        /\ UNCHANGED <<opts, log, stopping, failure, committed, inputMutex, asleep, awaits, batch,
                       end, generation, remaining, poolStopping>>
        /\ nextGroup' \in {nextGroup, nextGroup + 1}
    BY <1>1 DEF Take, At, fixed, input, plan
  <2>3. /\ \/ pc' = [pc EXCEPT ![t] = "run"]
           \/ pc' = [pc EXCEPT ![t] = IF t \in Workers THEN "finish" ELSE "merge"]
        /\ \/ work' = [work EXCEPT ![t].group = g, ![t].pos = 1]
           \/ work' = [work EXCEPT ![t].group = 0, ![t].pos = 1]
    BY <1>1 DEF Take, Go
  <2> HIDE DEF g
  <2>4. OwnWork(t)
    BY <1>i, <2>1, <2>3, OwnWorkGroup
  <2>5. nextGroup' \in Nat
    BY <1>i, <2>1, <2>2 DEF TypeOK
  <2>6. QED
    BY <2>2, <2>3, <2>4, <2>5
<1>2. CASE AppendOp(t) \/ PrepareOp(t)
  <2>1. /\ pc[t] = "run" /\ t \notin asleep /\ NextOp(t)
        /\ UNCHANGED <<opts, log, stopping, failure, committed, inputMutex, asleep, awaits, batch,
                       end, generation, remaining, poolStopping, nextGroup>>
    BY <1>2 DEF AppendOp, PrepareOp, At, fixed, input, plan
  <2>2. pc = [pc EXCEPT ![t] = "run"]
    BY <1>i, <2>1 DEF PcOK
  <2>3. pc' = [pc EXCEPT ![t] = "take"] \/ pc' = [pc EXCEPT ![t] = "run"]
    BY <2>1, <2>2 DEF NextOp, Go
  <2>4. OwnWork(t)
    BY <1>i, <2>1, OwnWorkSame, OwnWorkPos DEF NextOp
  <2>5. nextGroup' \in Nat
    BY <1>i, <2>1 DEF TypeOK
  <2>6. QED
    BY <2>1, <2>3, <2>4, <2>5
<1>3. QED
  BY <1>1, <1>2

-----------------------------------------------------------------------------
(* The coordinator.                                                        *)

\* A step of the coordinator that wakes nobody and starts no wave.
LEMMA CoordinatorMoves ==
  ASSUME IInv, "coordinator" \notin asleep,
         pc["coordinator"] \notin {"notify", "failed", "ended"},
         pc["coordinator"] = "gather" => remaining = 0,
         NEW p \in CoordinatorPcs \ {"fetch", "gather", "notify", "failed", "ended"},
         pc' = [pc EXCEPT !["coordinator"] = p],
         UNCHANGED <<opts, log, stopping, failure, committed, inputMutex, asleep, awaits,
                     generation, remaining, poolStopping>>,
         "last" \in DOMAIN batch', batch'.last \in Nat, batch'.last <= Len(log),
         nextGroup' \in Nat, OwnWork("coordinator")
  PROVE  IInv'
<1>i. TypeOK /\ WaitInv /\ CoordinatorInv /\ StopInv /\ PoolInv /\ PcOK
  BY DEF IInv, TypeOK
<1>1. /\ "coordinator" \in Threads /\ "coordinator" \notin Clients /\ "coordinator" \notin Workers
      /\ p \in CoordinatorPcs
  BY ThreadFacts DEF Threads
<1>2. PcOK' /\ pc'["coordinator"] = p /\ \A u \in Threads : u # "coordinator" => pc'[u] = pc[u]
  BY <1>i, <1>1, PcStep
<1>3. /\ \A d \in Clients : pc'[d] = pc[d]
      /\ \A w \in Workers : pc'[w] = pc[w] /\ work'[w] = work[w]
      /\ pc'["main"] = pc["main"]
  BY <1>1, <1>2 DEF Threads, OwnWork
<1>4. TypeOK'
  BY <1>i, <1>2 DEF TypeOK, OwnWork
<1>5. \A d \in Clients : Waits(d)' <=> Waits(d)
  BY <1>3 DEF Waits, Full
<1>6. inputMutex # Nobody => inputMutex \in Clients
  BY <1>i DEF TypeOK
<1>7. WaitInv'
  BY <1>i, <1>5, <1>6 DEF WaitInv
<1>8. CoordinatorInv'
  BY <1>i, <1>2 DEF CoordinatorInv
<1>9. StopInv'
  BY <1>i, <1>3 DEF StopInv
<1>10. PoolInv'
  BY <1>i, <1>2, <1>3, PoolSame DEF PoolInv
<1>11. QED
  BY <1>4, <1>7, <1>8, <1>9, <1>10 DEF IInv

\* The steps between fetching a batch and storing committed_, but StartWave.
LEMMA WorkingStep ==
  ASSUME IInv,
         \/ Plan \/ CowUpdateStep \/ Gather \/ MergeStep \/ Publish \/ CoordinatorThrow
         \/ Take("coordinator") \/ AppendOp("coordinator") \/ PrepareOp("coordinator")
  PROVE  IInv'
<1>i. TypeOK /\ CoordinatorInv
  BY DEF IInv
<1>1. "last" \in DOMAIN batch /\ batch.last \in Nat /\ batch.last <= Len(log) /\ nextGroup \in Nat
  BY <1>i DEF TypeOK, CoordinatorInv
<1>2. CASE \/ Plan \/ CowUpdateStep \/ Gather \/ MergeStep \/ Publish \/ CoordinatorThrow
  <2>1. /\ "coordinator" \notin asleep /\ pc["coordinator"] \notin {"notify", "failed", "ended"}
        /\ pc["coordinator"] = "gather" => remaining = 0
        /\ UNCHANGED <<opts, log, stopping, failure, committed, inputMutex, asleep, awaits, batch,
                       generation, remaining, poolStopping, nextGroup, work>>
    BY <1>2 DEF Plan, CowUpdateStep, Gather, MergeStep, Publish, CoordinatorThrow, At, fixed, input,
                plan, pool
  <2>2. \E p \in {"cow", "take", "start", "publish", "fail", "merge", "store"} :
           pc' = [pc EXCEPT !["coordinator"] = p]
    BY <1>2 DEF Plan, CowUpdateStep, Gather, MergeStep, Publish, CoordinatorThrow, Go
  <2>3. PICK p \in CoordinatorPcs \ {"fetch", "gather", "notify", "failed", "ended"} :
           pc' = [pc EXCEPT !["coordinator"] = p]
    BY <2>2 DEF CoordinatorPcs
  <2>4. OwnWork("coordinator")
    BY <1>i, <2>1, OwnWorkSame
  <2>5. "last" \in DOMAIN batch' /\ batch'.last \in Nat /\ batch'.last <= Len(log) /\ nextGroup' \in Nat
    BY <1>1, <2>1
  <2>6. QED
    BY <2>1, <2>3, <2>4, <2>5, CoordinatorMoves
<1>3. CASE Take("coordinator") \/ AppendOp("coordinator") \/ PrepareOp("coordinator")
  <2>1. PICK p \in {"take", "run", "finish", "merge"} :
              /\ pc' = [pc EXCEPT !["coordinator"] = p] /\ p # "finish"
    BY <1>3, GroupStep, ThreadFacts
  <2>2. /\ "coordinator" \notin asleep /\ pc["coordinator"] \in {"take", "run"}
        /\ OwnWork("coordinator") /\ nextGroup' \in Nat
        /\ UNCHANGED <<opts, log, stopping, failure, committed, inputMutex, asleep, awaits, batch,
                       generation, remaining, poolStopping>>
    BY <1>3, GroupStep
  <2>3. p \in CoordinatorPcs \ {"fetch", "gather", "notify", "failed", "ended"}
    BY <2>1 DEF CoordinatorPcs
  <2>4. "last" \in DOMAIN batch' /\ batch'.last \in Nat /\ batch'.last <= Len(log)
    BY <1>1, <2>2
  <2>5. QED
    BY <2>1, <2>2, <2>3, <2>4, CoordinatorMoves
<1>4. QED
  BY <1>2, <1>3

LEMMA CoordinatorGoes ==
  ASSUME PcOK, NEW p \in CoordinatorPcs, pc' = [pc EXCEPT !["coordinator"] = p]
  PROVE  /\ PcOK' /\ pc'["coordinator"] = p
         /\ \A d \in Clients : pc'[d] = pc[d]
         /\ \A w \in Workers : pc'[w] = pc[w]
         /\ pc'["main"] = pc["main"]
<1>1. /\ "coordinator" \in Threads /\ "coordinator" \notin Clients /\ "coordinator" \notin Workers
  BY ThreadFacts DEF Threads
<1>2. PcOK' /\ pc'["coordinator"] = p /\ \A u \in Threads : u # "coordinator" => pc'[u] = pc[u]
  BY <1>1, PcStep
<1>3. QED
  BY <1>1, <1>2 DEF Threads

LEMMA FetchStep ==
  ASSUME IInv, Fetch
  PROVE  IInv'
<1> DEFINE next == batch.last + 1
           last == IF Len(log) < batch.last + opts.batch_size THEN Len(log)
                   ELSE batch.last + opts.batch_size
<1>i. TypeOK /\ WaitInv /\ CoordinatorInv /\ StopInv /\ PoolInv /\ PcOK
  BY DEF IInv, TypeOK
<1>1. /\ pc["coordinator"] = "fetch" /\ "coordinator" \notin asleep /\ inputMutex = Nobody
      /\ UNCHANGED <<opts, log, stopping, failure, committed, inputMutex, awaits, end,
                     generation, remaining, poolStopping, nextGroup, work>>
  BY DEF Fetch, At, Unlocked, fixed, input, pool
<1>2. /\ Len(log) \in Nat /\ batch.last \in Nat /\ batch.last <= Len(log) /\ committed = batch.last
      /\ opts.batch_size \in Nat
  BY <1>i, <1>1, OptionsAssumption DEF TypeOK, CoordinatorInv
<1>3. CASE next <= Len(log)
  <2>1. /\ pc' = [pc EXCEPT !["coordinator"] = "plan"] /\ batch' = [next |-> next, last |-> last]
        /\ asleep' = asleep
    BY <1>3 DEF Fetch, Go
  <2>2. last \in Nat /\ last <= Len(log)
    BY <1>2
  <2>3. "last" \in DOMAIN batch' /\ batch'.last = last
    BY <2>1
  <2>4. "plan" \in CoordinatorPcs \ {"fetch", "gather", "notify", "failed", "ended"}
    BY DEF CoordinatorPcs
  <2>5. OwnWork("coordinator") /\ nextGroup' \in Nat
    BY <1>i, <1>1, OwnWorkSame DEF TypeOK
  <2> HIDE DEF last
  <2>6. QED
    BY <1>1, <2>1, <2>2, <2>3, <2>4, <2>5, CoordinatorMoves
<1>4. CASE ~ (next <= Len(log)) /\ stopping
  <2>1. pc' = [pc EXCEPT !["coordinator"] = "ended"] /\ UNCHANGED <<batch, asleep>>
    BY <1>4 DEF Fetch, Go
  <2>2. /\ PcOK' /\ pc'["coordinator"] = "ended"
        /\ \A d \in Clients : pc'[d] = pc[d]
        /\ \A w \in Workers : pc'[w] = pc[w]
        /\ pc'["main"] = pc["main"]
    BY <1>i, <2>1, CoordinatorGoes DEF CoordinatorPcs
  <2>3. TypeOK'
    BY <1>i, <1>1, <2>1, <2>2 DEF TypeOK
  <2>4. \A d \in Clients : Waits(d)' <=> Waits(d)
    BY <1>1, <2>2 DEF Waits, Full
  <2>5. WaitInv'
    BY <1>i, <1>1, <2>1, <2>2, <2>4 DEF WaitInv
  <2>6. CoordinatorInv'
    BY <1>i, <1>1, <1>2, <1>4, <2>1, <2>2 DEF CoordinatorInv, StopInv
  <2>7. StopInv'
    BY <1>i, <1>1, <2>2 DEF StopInv
  <2>8. PoolInv'
    BY <1>i, <1>1, <2>2, PoolSame DEF PoolInv
  <2>9. QED
    BY <2>3, <2>5, <2>6, <2>7, <2>8 DEF IInv
<1>5. CASE ~ (next <= Len(log)) /\ ~ stopping
  <2>1. asleep' = asleep \cup {"coordinator"} /\ UNCHANGED <<batch, pc>>
    BY <1>5 DEF Fetch
  <2>2. TypeOK'
    BY <1>i, <1>1, <2>1 DEF TypeOK, PcOK
  <2>3. \A d \in Clients : Waits(d)' <=> Waits(d)
    BY <1>1, <2>1 DEF Waits, Full
  <2>4. WaitInv'
    BY <1>i, <1>1, <2>1, <2>3, ThreadFacts DEF WaitInv
  <2>5. CoordinatorInv'
    BY <1>i, <1>1, <1>2, <1>5, <2>1 DEF CoordinatorInv
  <2>6. StopInv'
    BY <1>i, <1>1, <2>1 DEF StopInv
  <2>7. PoolInv'
    BY <1>i, <1>1, <2>1, PoolSame DEF PoolInv
  <2>8. QED
    BY <2>2, <2>4, <2>5, <2>6, <2>7 DEF IInv
<1>6. QED
  BY <1>3, <1>4, <1>5

\* Every worker, and no other thread, has then a part in the wave.
LEMMA StartWaveStep ==
  ASSUME IInv, StartWave
  PROVE  IInv'
<1>i. TypeOK /\ WaitInv /\ CoordinatorInv /\ StopInv /\ PoolInv /\ PcOK
  BY DEF IInv, TypeOK
<1>1. /\ pc["coordinator"] = "start" /\ "coordinator" \notin asleep
      /\ pc' = [pc EXCEPT !["coordinator"] = "gather"]
      /\ nextGroup' = 1 /\ generation' = generation + 1 /\ remaining' = Cardinality(Workers)
      /\ UNCHANGED <<opts, log, stopping, failure, committed, inputMutex, asleep, awaits, batch, end,
                     poolStopping, work>>
  BY DEF StartWave, At, Go, NWorkers, fixed, input, plan
<1>2. /\ PcOK' /\ pc'["coordinator"] = "gather"
      /\ \A d \in Clients : pc'[d] = pc[d]
      /\ \A w \in Workers : pc'[w] = pc[w]
      /\ pc'["main"] = pc["main"]
  BY <1>i, <1>1, CoordinatorGoes DEF CoordinatorPcs
<1>3. remaining' \in Nat /\ generation' \in Nat /\ generation' = generation + 1
  BY <1>i, <1>1, ThreadsAssumption, FS_CardinalityType DEF TypeOK
<1>4. TypeOK'
  BY <1>i, <1>1, <1>2, <1>3 DEF TypeOK
<1>5. \A d \in Clients : Waits(d)' <=> Waits(d)
  BY <1>1, <1>2 DEF Waits, Full
<1>6. inputMutex # Nobody => inputMutex \in Clients
  BY <1>i DEF TypeOK
<1>7. WaitInv'
  BY <1>i, <1>1, <1>2, <1>5, <1>6 DEF WaitInv
<1>8. CoordinatorInv' /\ StopInv'
  BY <1>i, <1>1, <1>2 DEF CoordinatorInv, StopInv
<1>9. \A w \in Workers : pc[w] = "wait"
  <2>1. ~ poolStopping
    BY <1>i, <1>1 DEF StopInv
  <2>2. QED
    BY <1>i, <1>1, <2>1, AtRest DEF PoolInv
<1>10. \A w \in Workers : work[w].seen \in Nat /\ work[w].seen <= generation
  BY <1>i DEF TypeOK, PoolInv
<1>11. \A w \in Workers : pc'[w] = "wait" /\ work'[w].seen # generation' /\ work'[w].seen <= generation'
  BY <1>i, <1>1, <1>2, <1>9, <1>10 DEF TypeOK
<1>12. Active' = Workers
  BY <1>11 DEF Active
<1>13. PoolInv'
  BY <1>1, <1>2, <1>11, <1>12 DEF PoolInv
<1>14. QED
  BY <1>4, <1>7, <1>8, <1>13 DEF IInv

\* A client that sleeps is notified once committed_ is stored.
LEMMA StoreStep ==
  ASSUME IInv, StoreCommitted
  PROVE  IInv'
<1>i. TypeOK /\ WaitInv /\ CoordinatorInv /\ StopInv /\ PoolInv /\ PcOK
  BY DEF IInv, TypeOK
<1>1. /\ pc["coordinator"] = "store" /\ "coordinator" \notin asleep /\ inputMutex = Nobody
      /\ pc' = [pc EXCEPT !["coordinator"] = "notify"] /\ committed' = end
      /\ UNCHANGED <<opts, log, stopping, failure, inputMutex, asleep, awaits, batch, end,
                     generation, remaining, poolStopping, nextGroup, work>>
  BY DEF StoreCommitted, At, Unlocked, Go, fixed, plan, pool
<1>2. /\ PcOK' /\ pc'["coordinator"] = "notify"
      /\ \A d \in Clients : pc'[d] = pc[d]
      /\ \A w \in Workers : pc'[w] = pc[w]
      /\ pc'["main"] = pc["main"]
  BY <1>i, <1>1, CoordinatorGoes DEF CoordinatorPcs
<1>3. TypeOK'
  BY <1>i, <1>1, <1>2 DEF TypeOK
<1>4. \A d \in Clients \cap asleep : pc[d] \in {"update", "await"}
  BY <1>i DEF WaitInv, Waits
<1>5. WaitInv'
  BY <1>i, <1>1, <1>2, <1>4 DEF WaitInv
<1>6. CoordinatorInv' /\ StopInv'
  BY <1>i, <1>1, <1>2 DEF CoordinatorInv, StopInv
<1>7. PoolInv'
  BY <1>i, <1>1, <1>2, PoolSame DEF PoolInv
<1>8. QED
  BY <1>3, <1>5, <1>6, <1>7 DEF IInv

\* notify_all on commit_cv_.
LEMMA WakeClients ==
  ASSUME IInv, "coordinator" \notin asleep, pc["coordinator"] # "gather",
         NEW p \in CoordinatorPcs \ {"gather", "notify", "failed"},
         pc' = [pc EXCEPT !["coordinator"] = p],
         p = "fetch" => committed = batch.last, p = "ended" => failure, pc["coordinator"] # "ended",
         asleep' = asleep \ Clients, "last" \in DOMAIN batch', batch'.last = batch.last,
         UNCHANGED <<opts, log, stopping, failure, committed, inputMutex, awaits, end,
                     generation, remaining, poolStopping, nextGroup, work>>
  PROVE  IInv'
<1>i. TypeOK /\ WaitInv /\ CoordinatorInv /\ StopInv /\ PoolInv /\ PcOK
  BY DEF IInv, TypeOK
<1>1. p \in CoordinatorPcs
  OBVIOUS
<1>2. /\ PcOK' /\ pc'["coordinator"] = p
      /\ \A d \in Clients : pc'[d] = pc[d]
      /\ \A w \in Workers : pc'[w] = pc[w]
      /\ pc'["main"] = pc["main"]
  BY <1>i, <1>1, CoordinatorGoes
<1>3. TypeOK'
  BY <1>i, <1>2 DEF TypeOK
<1>4. \A d \in Clients : Waits(d)' <=> Waits(d)
  BY <1>2 DEF Waits, Full
<1>5. inputMutex # Nobody => inputMutex \in Clients
  BY <1>i DEF TypeOK
<1>6. WaitInv'
  BY <1>i, <1>4, <1>5 DEF WaitInv
<1>7. CoordinatorInv'
  BY <1>i, <1>2 DEF CoordinatorInv
<1>8. StopInv'
  BY <1>i, <1>2 DEF StopInv
<1>9. PoolInv'
  BY <1>i, <1>2, PoolSame DEF PoolInv
<1>10. QED
  BY <1>3, <1>6, <1>7, <1>8, <1>9 DEF IInv

LEMMA NotifyCommitStep ==
  ASSUME IInv, NotifyCommit
  PROVE  IInv'
<1>i. TypeOK /\ CoordinatorInv
  BY DEF IInv
<1>1. /\ pc["coordinator"] = "notify" /\ "coordinator" \notin asleep /\ asleep' = asleep \ Clients
      /\ batch' = [batch EXCEPT !.next = end + 1]
      /\ UNCHANGED <<opts, log, stopping, failure, committed, inputMutex, awaits, end,
                     generation, remaining, poolStopping, nextGroup, work>>
  BY DEF NotifyCommit, At, fixed, input, pool
<1>2. PICK p \in {"fetch", "plan"} :
        pc' = [pc EXCEPT !["coordinator"] = p] /\ (p = "fetch" => end = batch.last)
  BY DEF NotifyCommit, Go
<1>3. p \in CoordinatorPcs \ {"gather", "notify", "failed"} /\ p # "ended"
  BY <1>2 DEF CoordinatorPcs
<1>4. p = "fetch" => committed = batch.last
  BY <1>i, <1>1, <1>2 DEF CoordinatorInv
<1>5. "last" \in DOMAIN batch' /\ batch'.last = batch.last
  BY <1>i, <1>1 DEF TypeOK
<1>6. QED
  BY <1>1, <1>2, <1>3, <1>4, <1>5, WakeClients

LEMMA NotifyFailureStep ==
  ASSUME IInv, NotifyFailure
  PROVE  IInv'
<1>i. TypeOK /\ CoordinatorInv
  BY DEF IInv
<1>1. /\ pc["coordinator"] = "failed" /\ "coordinator" \notin asleep /\ asleep' = asleep \ Clients
      /\ pc' = [pc EXCEPT !["coordinator"] = "ended"]
      /\ UNCHANGED <<opts, log, stopping, failure, committed, inputMutex, awaits, batch, end,
                     generation, remaining, poolStopping, nextGroup, work>>
  BY DEF NotifyFailure, At, Go, fixed, input, plan, pool
<1>2. failure /\ "last" \in DOMAIN batch
  BY <1>i, <1>1 DEF CoordinatorInv, TypeOK
<1>3. "ended" \in CoordinatorPcs \ {"gather", "notify", "failed"}
  BY DEF CoordinatorPcs
<1>4. "last" \in DOMAIN batch' /\ batch'.last = batch.last
  BY <1>1, <1>2
<1>5. QED
  BY <1>1, <1>2, <1>3, <1>4, WakeClients

LEMMA FailStep ==
  ASSUME IInv, Fail
  PROVE  IInv'
<1>i. TypeOK /\ WaitInv /\ CoordinatorInv /\ StopInv /\ PoolInv /\ PcOK
  BY DEF IInv, TypeOK
<1>1. /\ pc["coordinator"] = "fail" /\ "coordinator" \notin asleep /\ inputMutex = Nobody
      /\ pc' = [pc EXCEPT !["coordinator"] = "failed"] /\ failure' = TRUE /\ stopping' = TRUE
      /\ UNCHANGED <<opts, log, committed, inputMutex, asleep, awaits, batch, end,
                     generation, remaining, poolStopping, nextGroup, work>>
  BY DEF Fail, At, Unlocked, Go, fixed, plan, pool
<1>2. /\ PcOK' /\ pc'["coordinator"] = "failed"
      /\ \A d \in Clients : pc'[d] = pc[d]
      /\ \A w \in Workers : pc'[w] = pc[w]
      /\ pc'["main"] = pc["main"]
  BY <1>i, <1>1, CoordinatorGoes DEF CoordinatorPcs
<1>3. TypeOK'
  BY <1>i, <1>1, <1>2 DEF TypeOK
<1>4. \A d \in Clients \cap asleep : pc[d] \in {"update", "await"}
  BY <1>i DEF WaitInv, Waits
<1>5. WaitInv'
  BY <1>i, <1>1, <1>2, <1>4 DEF WaitInv
<1>6. CoordinatorInv' /\ StopInv'
  BY <1>i, <1>1, <1>2 DEF CoordinatorInv, StopInv
<1>7. PoolInv'
  BY <1>i, <1>1, <1>2, PoolSame DEF PoolInv
<1>8. QED
  BY <1>3, <1>5, <1>6, <1>7 DEF IInv

-----------------------------------------------------------------------------
(* The workers.                                                            *)

LEMMA WorkerGoes ==
  ASSUME PcOK, NEW w \in Workers, NEW p \in WorkerPcs, pc' = [pc EXCEPT ![w] = p]
  PROVE  /\ PcOK' /\ pc'[w] = p
         /\ \A d \in Clients : pc'[d] = pc[d]
         /\ \A u \in Workers : u # w => pc'[u] = pc[u]
         /\ pc'["coordinator"] = pc["coordinator"] /\ pc'["main"] = pc["main"]
<1>1. w \in Threads /\ w \notin Clients /\ w # "coordinator" /\ w # "main"
  BY ThreadFacts DEF Threads
<1>2. PcOK' /\ pc'[w] = p /\ \A u \in Threads : u # w => pc'[u] = pc[u]
  BY <1>1, PcStep
<1>3. QED
  BY <1>1, <1>2 DEF Threads

\* What a step of the pool leaves alone.
LEMMA OthersStay ==
  ASSUME IInv, \A d \in Clients : pc'[d] = pc[d],
         pc'["coordinator"] = pc["coordinator"], pc'["main"] = pc["main"],
         UNCHANGED <<opts, log, stopping, failure, committed, inputMutex, asleep, awaits, batch, end,
                     poolStopping>>
  PROVE  WaitInv' /\ CoordinatorInv' /\ StopInv'
<1>i. TypeOK /\ WaitInv /\ CoordinatorInv /\ StopInv
  BY DEF IInv
<1>1. \A d \in Clients : Waits(d)' <=> Waits(d)
  BY DEF Waits, Full
<1>2. inputMutex # Nobody => inputMutex \in Clients
  BY <1>i DEF TypeOK
<1>3. WaitInv'
  BY <1>i, <1>1, <1>2 DEF WaitInv
<1>4. QED
  BY <1>i, <1>3 DEF CoordinatorInv, StopInv

\* A worker that has a part in the wave goes on with it.
LEMMA WorkerMoves ==
  ASSUME IInv, NEW w \in Active, NEW p \in {"take", "run", "finish"}, pc' = [pc EXCEPT ![w] = p],
         work' \in [Workers \cup {"coordinator"} -> [seen : Nat, group : Nat, pos : Nat]],
         \A u \in Workers : u # w => work'[u] = work[u],
         work'[w].seen = generation, nextGroup' \in Nat,
         UNCHANGED <<opts, log, stopping, failure, committed, inputMutex, asleep, awaits, batch, end,
                     generation, remaining, poolStopping>>
  PROVE  IInv'
<1>i. TypeOK /\ PoolInv /\ PcOK
  BY DEF IInv, TypeOK
<1>1. w \in Workers /\ p \in WorkerPcs
  BY DEF Active, WorkerPcs
<1>2. /\ PcOK' /\ pc'[w] = p
      /\ \A d \in Clients : pc'[d] = pc[d]
      /\ \A u \in Workers : u # w => pc'[u] = pc[u]
      /\ pc'["coordinator"] = pc["coordinator"] /\ pc'["main"] = pc["main"]
  BY <1>i, <1>1, WorkerGoes
<1>3. TypeOK'
  BY <1>i, <1>2 DEF TypeOK
<1>4. WaitInv' /\ CoordinatorInv' /\ StopInv'
  BY <1>2, OthersStay
<1>5. \A u \in Workers : u \in Active' <=> u \in Active
  BY <1>1, <1>2 DEF Active
<1>6. Active' = Active
  BY <1>5 DEF Active
<1>7. generation \in Nat
  BY <1>i DEF TypeOK
<1>8. PoolInv'
  BY <1>i, <1>1, <1>2, <1>6, <1>7 DEF PoolInv
<1>9. QED
  BY <1>3, <1>4, <1>8 DEF IInv

LEMMA WakeStep ==
  ASSUME IInv, NEW w \in Workers, Wake(w)
  PROVE  IInv'
<1>i. TypeOK /\ StopInv /\ PoolInv /\ PcOK
  BY DEF IInv, TypeOK
<1>1. /\ pc[w] = "wait"
      /\ UNCHANGED <<opts, log, stopping, failure, committed, inputMutex, asleep, awaits, batch, end,
                     generation, remaining, poolStopping, nextGroup>>
  BY DEF Wake, fixed, input, plan
<1>2. CASE poolStopping
  <2>1. pc' = [pc EXCEPT ![w] = "ended"] /\ work' = work
    BY <1>2 DEF Wake, Go
  <2>2. /\ PcOK' /\ pc'[w] = "ended"
        /\ \A d \in Clients : pc'[d] = pc[d]
        /\ \A u \in Workers : u # w => pc'[u] = pc[u]
        /\ pc'["coordinator"] = pc["coordinator"] /\ pc'["main"] = pc["main"]
    BY <1>i, <2>1, WorkerGoes DEF WorkerPcs
  <2>3. TypeOK'
    BY <1>i, <1>1, <2>1, <2>2 DEF TypeOK
  <2>4. WaitInv' /\ CoordinatorInv' /\ StopInv'
    BY <1>1, <2>2, OthersStay
  <2>5. pc["coordinator"] # "gather"
    BY <1>i, <1>2 DEF StopInv
  <2>6. Active = {}
    BY <1>i, <2>5, AtRest
  <2>7. Active' = Active
    BY <1>1, <2>1, <2>2, <2>6 DEF Active
  <2>8. PoolInv'
    BY <1>i, <1>1, <1>2, <2>1, <2>2, <2>7 DEF PoolInv
  <2>9. QED
    BY <2>3, <2>4, <2>8 DEF IInv
<1>3. CASE ~ poolStopping
  <2>1. /\ pc' = [pc EXCEPT ![w] = "take"] /\ work' = [work EXCEPT ![w].seen = generation]
        /\ generation # work[w].seen
    BY <1>3 DEF Wake, Go
  <2>2. w \in Active
    BY <1>1, <2>1 DEF Active
  <2>3. /\ work' \in [Workers \cup {"coordinator"} -> [seen : Nat, group : Nat, pos : Nat]]
        /\ \A u \in Workers : u # w => work'[u] = work[u]
        /\ work'[w].seen = generation /\ nextGroup' \in Nat
    BY <1>i, <1>1, <2>1 DEF TypeOK
  <2>4. QED
    BY <1>1, <2>1, <2>2, <2>3, WorkerMoves
<1>4. QED
  BY <1>2, <1>3

LEMMA WorkerGroupStep ==
  ASSUME IInv, NEW w \in Workers, Take(w) \/ AppendOp(w) \/ PrepareOp(w)
  PROVE  IInv'
<1>i. PoolInv
  BY DEF IInv
<1>1. PICK p \in {"take", "run", "finish", "merge"} :
        pc' = [pc EXCEPT ![w] = p] /\ p # "merge"
  BY GroupStep
<1>2. /\ pc[w] \in {"take", "run"} /\ OwnWork(w) /\ nextGroup' \in Nat
      /\ UNCHANGED <<opts, log, stopping, failure, committed, inputMutex, asleep, awaits, batch,
                     end, generation, remaining, poolStopping>>
  BY GroupStep
<1>3. w \in Active /\ work[w].seen = generation
  BY <1>i, <1>2 DEF Active, PoolInv
<1>4. /\ work' \in [Workers \cup {"coordinator"} -> [seen : Nat, group : Nat, pos : Nat]]
      /\ \A u \in Workers : u # w => work'[u] = work[u]
      /\ work'[w].seen = generation
  BY <1>2, <1>3 DEF OwnWork
<1>5. p \in {"take", "run", "finish"}
  BY <1>1
<1>6. QED
  BY <1>1, <1>2, <1>3, <1>4, <1>5, WorkerMoves

LEMMA WorkerThrowStep ==
  ASSUME IInv, NEW w \in Workers, WorkerThrow(w)
  PROVE  IInv'
<1>i. TypeOK /\ PoolInv
  BY DEF IInv
<1>1. /\ pc[w] = "run" /\ pc' = [pc EXCEPT ![w] = "finish"]
      /\ UNCHANGED <<opts, log, stopping, failure, committed, inputMutex, asleep, awaits, batch, end,
                     generation, remaining, poolStopping, nextGroup, work>>
  BY DEF WorkerThrow, At, Go, fixed, input, plan
<1>2. w \in Active /\ work[w].seen = generation
  BY <1>i, <1>1 DEF Active, PoolInv
<1>3. /\ work' \in [Workers \cup {"coordinator"} -> [seen : Nat, group : Nat, pos : Nat]]
      /\ \A u \in Workers : u # w => work'[u] = work[u]
      /\ work'[w].seen = generation /\ nextGroup' \in Nat
  BY <1>i, <1>1, <1>2 DEF TypeOK
<1>4. QED
  BY <1>1, <1>2, <1>3, WorkerMoves

LEMMA FinishStep ==
  ASSUME IInv, NEW w \in Workers, Finish(w)
  PROVE  IInv'
<1>i. TypeOK /\ PoolInv /\ PcOK
  BY DEF IInv, TypeOK
<1>1. /\ pc[w] = "finish" /\ pc' = [pc EXCEPT ![w] = "wait"] /\ remaining' = remaining - 1
      /\ work' = [work EXCEPT ![w].group = 0, ![w].pos = 1]
      /\ UNCHANGED <<opts, log, stopping, failure, committed, inputMutex, asleep, awaits, batch, end,
                     generation, poolStopping, nextGroup>>
  BY DEF Finish, At, Go, fixed, input, plan
<1>2. OwnWork(w)
  BY <1>i, <1>1, OwnWorkGroup
<1>3. w \in Active /\ work[w].seen = generation
  BY <1>i, <1>1 DEF Active, PoolInv
<1>4. /\ PcOK' /\ pc'[w] = "wait"
      /\ \A d \in Clients : pc'[d] = pc[d]
      /\ \A u \in Workers : u # w => pc'[u] = pc[u]
      /\ pc'["coordinator"] = pc["coordinator"] /\ pc'["main"] = pc["main"]
  BY <1>i, <1>1, WorkerGoes DEF WorkerPcs
<1>5. /\ work'[w].seen = generation'
      /\ \A u \in Workers : u # w => work'[u] = work[u]
  BY <1>1, <1>2, <1>3 DEF OwnWork
<1>6. Active' = Active \ {w}
  <2>1. w \notin Active'
    BY <1>4, <1>5 DEF Active
  <2>2. \A u \in Workers : u # w => (u \in Active' <=> u \in Active)
    BY <1>1, <1>4, <1>5 DEF Active
  <2>3. QED
    BY <2>1, <2>2 DEF Active
<1>7. /\ remaining = Cardinality(Active) /\ Cardinality(Active) \in Nat
      /\ Cardinality(Active \ {w}) = Cardinality(Active) - 1 /\ Cardinality(Active) # 0
  BY <1>i, <1>3, ActiveFinite, FS_RemoveElement DEF PoolInv
<1>8. remaining' = Cardinality(Active)'
  BY <1>1, <1>6, <1>7
<1>9. remaining' \in Nat /\ pc["coordinator"] = "gather"
  BY <1>i, <1>1, <1>7 DEF PoolInv
<1>10. TypeOK'
  BY <1>i, <1>1, <1>2, <1>4, <1>9 DEF TypeOK, OwnWork
<1>11. WaitInv' /\ CoordinatorInv' /\ StopInv'
  BY <1>1, <1>4, OthersStay
<1>12. generation \in Nat
  BY <1>i DEF TypeOK
<1>13. PoolInv'
  BY <1>i, <1>1, <1>3, <1>4, <1>5, <1>8, <1>9, <1>12 DEF PoolInv
<1>14. QED
  BY <1>10, <1>11, <1>13 DEF IInv

-----------------------------------------------------------------------------
(* The destructor.                                                         *)

LEMMA MainGoes ==
  ASSUME PcOK, NEW p \in MainPcs, pc' = [pc EXCEPT !["main"] = p]
  PROVE  /\ PcOK' /\ pc'["main"] = p
         /\ \A d \in Clients : pc'[d] = pc[d]
         /\ \A w \in Workers : pc'[w] = pc[w]
         /\ pc'["coordinator"] = pc["coordinator"]
<1>1. "main" \in Threads /\ "main" \notin Clients /\ "main" \notin Workers
  BY ThreadFacts DEF Threads
<1>2. PcOK' /\ pc'["main"] = p /\ \A u \in Threads : u # "main" => pc'[u] = pc[u]
  BY <1>1, PcStep
<1>3. QED
  BY <1>1, <1>2 DEF Threads

LEMMA DestroyStep ==
  ASSUME IInv, Destroy
  PROVE  IInv'
<1>i. TypeOK /\ WaitInv /\ CoordinatorInv /\ StopInv /\ PoolInv /\ PcOK
  BY DEF IInv, TypeOK
<1>1. /\ pc["main"] = "running" /\ inputMutex = Nobody /\ pc' = [pc EXCEPT !["main"] = "notify"]
      /\ \A c \in Clients : pc[c] \in {"idle", "threw"}
      /\ stopping' = TRUE
      /\ UNCHANGED <<opts, log, failure, committed, inputMutex, asleep, awaits, batch, end,
                     generation, remaining, poolStopping, nextGroup, work>>
  BY DEF Destroy, At, Unlocked, Go, fixed, plan, pool
<1>2. /\ PcOK' /\ pc'["main"] = "notify"
      /\ \A d \in Clients : pc'[d] = pc[d]
      /\ \A w \in Workers : pc'[w] = pc[w]
      /\ pc'["coordinator"] = pc["coordinator"]
  BY <1>i, <1>1, MainGoes DEF MainPcs
<1>3. TypeOK'
  BY <1>i, <1>1, <1>2 DEF TypeOK
<1>4. Clients \cap asleep = {}
  BY <1>i, <1>1 DEF WaitInv, Waits
<1>5. WaitInv'
  BY <1>i, <1>1, <1>4 DEF WaitInv
<1>6. CoordinatorInv' /\ StopInv'
  BY <1>i, <1>1, <1>2 DEF CoordinatorInv, StopInv
<1>7. PoolInv'
  BY <1>i, <1>1, <1>2, PoolSame DEF PoolInv
<1>8. QED
  BY <1>3, <1>5, <1>6, <1>7 DEF IInv

LEMMA DestructorStep ==
  ASSUME IInv, Destructor
  PROVE  IInv'
<1>i. TypeOK /\ WaitInv /\ CoordinatorInv /\ StopInv /\ PoolInv /\ PcOK
  BY DEF IInv, TypeOK
<1>1. /\ pc["main"] \in {"notify", "join", "joinPool"}
      /\ UNCHANGED <<opts, log, stopping, failure, committed, inputMutex, awaits, batch, end,
                     generation, remaining, nextGroup, work>>
  BY DEF Destructor, NotifyStop, StopPool, Destroyed, At, fixed, input, plan, pool
<1>2. \/ /\ pc["main"] = "notify" /\ pc' = [pc EXCEPT !["main"] = "join"]
         /\ asleep' = asleep \ {"coordinator"} /\ poolStopping' = poolStopping
      \/ /\ pc["main"] = "join" /\ pc["coordinator"] = "ended" /\ pc' = [pc EXCEPT !["main"] = "joinPool"]
         /\ asleep' = asleep /\ poolStopping' = TRUE
      \/ /\ pc["main"] = "joinPool" /\ pc' = [pc EXCEPT !["main"] = "destroyed"]
         /\ asleep' = asleep /\ poolStopping' = poolStopping
  BY DEF Destructor, NotifyStop, StopPool, Destroyed, At, Go, pool
<1>3. PICK p \in {"join", "joinPool", "destroyed"} : pc' = [pc EXCEPT !["main"] = p]
  BY <1>2
<1>4. /\ PcOK' /\ pc'["main"] = p
      /\ \A d \in Clients : pc'[d] = pc[d]
      /\ \A w \in Workers : pc'[w] = pc[w]
      /\ pc'["coordinator"] = pc["coordinator"]
  BY <1>i, <1>3, MainGoes DEF MainPcs
<1>5. \/ /\ pc["main"] = "notify" /\ pc'["main"] = "join"
         /\ asleep' = asleep \ {"coordinator"} /\ poolStopping' = poolStopping
      \/ /\ pc["main"] = "join" /\ pc["coordinator"] = "ended" /\ pc'["main"] = "joinPool"
         /\ asleep' = asleep /\ poolStopping' = TRUE
      \/ /\ pc["main"] = "joinPool" /\ pc'["main"] = "destroyed"
         /\ asleep' = asleep /\ poolStopping' = poolStopping
  BY <1>i, <1>2, MainGoes DEF MainPcs
<1>6. asleep' \subseteq asleep /\ asleep \ {"coordinator"} \subseteq asleep' /\ poolStopping' \in BOOLEAN
      /\ (poolStopping => poolStopping')
  BY <1>i, <1>5 DEF TypeOK
<1>7. TypeOK'
  BY <1>i, <1>1, <1>4, <1>6 DEF TypeOK
<1>8. WaitInv'
  <2>1. \A d \in Clients : Waits(d)' <=> Waits(d)
    BY <1>1, <1>4 DEF Waits, Full
  <2>2. inputMutex # Nobody => inputMutex \in Clients
    BY <1>i DEF TypeOK
  <2>3. QED
    BY <1>i, <1>1, <1>4, <1>6, <2>1, <2>2 DEF WaitInv
<1>9. CoordinatorInv'
  BY <1>i, <1>1, <1>4, <1>5 DEF CoordinatorInv
<1>10. StopInv'
  BY <1>i, <1>1, <1>4, <1>5 DEF StopInv
<1>11. PoolInv'
  BY <1>i, <1>1, <1>4, <1>6, PoolSame DEF PoolInv
<1>12. QED
  BY <1>7, <1>8, <1>9, <1>10, <1>11 DEF IInv

-----------------------------------------------------------------------------
(* The invariant.                                                          *)

LEMMA StutterOK ==
  ASSUME IInv, UNCHANGED vars
  PROVE  IInv'
<1>1. UNCHANGED <<opts, log, stopping, failure, committed, inputMutex, asleep, pc, awaits, batch, end,
                  generation, remaining, poolStopping, nextGroup, work>>
  BY DEF vars
<1>i. TypeOK /\ WaitInv /\ CoordinatorInv /\ StopInv /\ PoolInv
  BY DEF IInv
<1>2. TypeOK'
  BY <1>1, <1>i DEF TypeOK, PcOK
<1>3. WaitInv' /\ CoordinatorInv' /\ StopInv'
  BY <1>1, <1>i, OthersStay
<1>4. PoolInv'
  BY <1>1, <1>i, PoolSame DEF PoolInv
<1>5. QED
  BY <1>2, <1>3, <1>4 DEF IInv

LEMMA NextOK ==
  ASSUME IInv, [Next]_vars
  PROVE  IInv'
<1>1. CASE Coordinator
  BY <1>1, FetchStep, StartWaveStep, StoreStep, NotifyCommitStep, FailStep, NotifyFailureStep, WorkingStep
     DEF Coordinator
<1>2. CASE Destructor \/ Destroy
  BY <1>2, DestructorStep, DestroyStep
<1>3. ASSUME NEW c \in opts.clients, Client(c) \/ \E op \in opts.calls : Call(c, op)
      PROVE  IInv'
  BY <1>3, SubmitStep, NotifyInputStep, ProcessedStep, BlockStep, SleepStep, CallStep DEF Client
<1>4. ASSUME NEW w \in Workers, Worker(w)
      PROVE  IInv'
  BY <1>4, WakeStep, WorkerGroupStep, WorkerThrowStep, FinishStep DEF Worker
<1>5. CASE UNCHANGED vars
  BY <1>5, StutterOK
<1>6. QED
  BY <1>1, <1>2, <1>3, <1>4, <1>5 DEF Next

\* The types of the control state, and what the theorems below rest on, in every
\* state of the controller, for any number of clients and workers.
THEOREM Invariance == Spec => []IInv
<1>1. Init => IInv
  BY InitOK
<1>2. IInv /\ [Next]_vars => IInv'
  BY NextOK
<1>3. QED
  BY <1>1, <1>2, PTL DEF Spec

\* WorkersQuiescent: whenever the coordinator plans, copies, merges or publishes
\* (coordinator_main, run_wave and publish of concow_fat.hpp), the workers are all
\* at rest and have seen the last wave.
THEOREM PoolQuiescent == Spec => []WorkersQuiescent
<1>1. IInv => WorkersQuiescent
  BY AtRest DEF IInv, WorkersQuiescent
<1>2. QED
  BY <1>1, Invariance, PTL

\* StopDrains: the destructor returns with every accepted update committed, unless
\* the controller failed (~concow_fat and the loop of coordinator_main).
THEOREM DestructorDrains == Spec => []StopDrains
<1>1. IInv => StopDrains
  BY DEF IInv, CoordinatorInv, StopInv, StopDrains
<1>2. QED
  BY <1>1, Invariance, PTL

\* A client in a call that is awake can run; one that sleeps has to be notified.
LEMMA ClientRuns ==
  ASSUME IInv, inputMutex = Nobody, NEW c \in Clients, pc[c] \notin {"idle", "threw"}, c \notin asleep
  PROVE  \E t \in DOMAIN pc : CanRun(t)
BY DEF IInv, TypeOK, PcOK, Threads, CanRun, Unlocked

\* NobodyHangs: while a call or the destructor has not returned, some thread can go
\* on.  No notification of commit_cv_ or input_cv_ that update, wait_for_processing
\* or coordinator_main sleeps for is lost, a failure reaches every client, and the
\* waits for the workers and for the coordinator never go round.
THEOREM NoLostWakeup == Spec => []NobodyHangs
<1>1. ASSUME IInv PROVE NobodyHangs
  <2> SUFFICES ASSUME \/ pc["main"] \in {"notify", "join", "joinPool"}
                      \/ \E c \in Clients : pc[c] \notin {"idle", "threw"}
               PROVE  \E t \in DOMAIN pc : CanRun(t)
    BY DEF NobodyHangs
  <2>i. TypeOK /\ WaitInv /\ CoordinatorInv /\ StopInv /\ PoolInv /\ PcOK
    BY <1>1 DEF IInv, TypeOK
  <2>d. DOMAIN pc = Threads
    BY <2>i DEF PcOK
  <2>1. CASE inputMutex # Nobody
    BY <2>i, <2>d, <2>1 DEF TypeOK, Threads, CanRun
  <2>2. CASE /\ inputMutex = Nobody /\ "coordinator" \notin asleep /\ pc["coordinator"] # "ended"
             /\ pc["coordinator"] = "gather" => remaining = 0
    BY <2>d, <2>2 DEF Threads, CanRun, Unlocked
  <2>3. CASE pc["coordinator"] = "gather" /\ remaining # 0
    <3>1. PICK w \in Workers : w \in Active
      BY <2>i, <2>3, ActiveFinite DEF PoolInv, Active
    <3>2. CanRun(w)
      BY <3>1 DEF Active, CanRun
    <3>3. QED
      BY <2>d, <3>2 DEF Threads
  <2>4. CASE inputMutex = Nobody /\ "coordinator" \in asleep
    <3>1. pc["coordinator"] = "fetch" /\ committed = batch.last
      BY <2>i, <2>4 DEF CoordinatorInv
    <3>2. CASE \E c \in Clients : pc[c] = "notify"
      <4>1. PICK c \in Clients : pc[c] = "notify"
        BY <3>2
      <4>2. c \notin asleep
        BY <1>1, <4>1, ClientAwake
      <4>3. QED
        BY <1>1, <2>4, <4>1, <4>2, ClientRuns
    <3>3. CASE pc["main"] = "notify"
      BY <2>d, <3>3 DEF Threads, CanRun
    <3>4. CASE batch.last = Len(log) /\ ~ stopping
      <4>1. PICK c \in Clients : pc[c] \notin {"idle", "threw"}
        BY <2>i, <3>4 DEF StopInv
      <4>2. ~ Waits(c)
        <5>1. Len(log) \in Nat /\ opts.queue_capacity \in Nat \ {0} /\ awaits[c] <= Len(log)
          BY <2>i, <4>1, OptionsAssumption DEF TypeOK, WaitInv
        <5>2. ~ Full /\ awaits[c] \in Nat /\ committed = Len(log)
          BY <2>i, <3>1, <3>4, <5>1 DEF Full, TypeOK
        <5>3. QED
          BY <5>1, <5>2 DEF Waits
      <4>3. c \notin asleep
        BY <2>i, <3>1, <4>2 DEF WaitInv
      <4>4. QED
        BY <1>1, <2>4, <4>1, <4>3, ClientRuns
    <3>5. QED
      BY <2>i, <2>4, <3>2, <3>3, <3>4 DEF CoordinatorInv
  <2>5. CASE inputMutex = Nobody /\ pc["coordinator"] = "ended"
    <3>1. CASE pc["main"] \in {"notify", "join"}
      BY <2>d, <2>5, <3>1 DEF Threads, CanRun
    <3>2. CASE pc["main"] = "joinPool"
      <4>1. CASE \A w \in Workers : pc[w] = "ended"
        BY <2>d, <3>2, <4>1 DEF Threads, CanRun
      <4>2. CASE \E w \in Workers : pc[w] # "ended"
        <5>1. PICK w \in Workers : pc[w] # "ended"
          BY <4>2
        <5>2. poolStopping
          BY <2>i, <3>2 DEF StopInv
        <5>3. CanRun(w)
          BY <5>1, <5>2 DEF CanRun
        <5>4. QED
          BY <2>d, <5>3 DEF Threads
      <4>3. QED
        BY <4>1, <4>2
    <3>3. CASE pc["main"] \notin {"notify", "join", "joinPool"}
      <4>1. PICK c \in Clients : pc[c] \notin {"idle", "threw"}
        BY <3>3
      <4>2. failure
        BY <1>1, <2>i, <2>5, <4>1, InCall DEF CoordinatorInv
      <4>3. c \notin asleep
        BY <2>i, <2>5, <4>2 DEF WaitInv, Waits
      <4>4. QED
        BY <1>1, <2>5, <4>1, <4>3, ClientRuns
    <3>4. QED
      BY <3>1, <3>2, <3>3
  <2>6. QED
    BY <2>1, <2>2, <2>3, <2>4, <2>5
<1>2. QED
  BY <1>1, Invariance, PTL

-----------------------------------------------------------------------------
(* Versions: the queue does not overflow, and commits go forward.          *)

\* Induction: what would refute a claim about numbers has a least element.
LEMMA LeastNumber ==
  ASSUME NEW T \in SUBSET Nat, T # {}
  PROVE  \E x \in T : \A y \in T : x <= y
<1>1. PICK x \in T : \A y \in T : ~ (<<y, x>> \in OpToRel(<, Nat))
  BY NatLessThanWellFounded, WFMin
<1>2. \A y \in T : ~ (y < x)
  BY <1>1 DEF OpToRel
<1>3. QED
  BY <1>2

\* A wave is a prefix of the batch, whatever the tree and its leaves are.
LEMMA WaveEndRange ==
  ASSUME NEW hp, NEW rt, NEW lg, NEW from \in Nat \ {0}, NEW to \in Nat, from <= to,
         NEW sl, NEW rep
  PROVE  WaveEnd(hp, rt, lg, from, to, sl, rep) \in from - 1 .. to
<1> DEFINE leaf == [t \in from .. to |-> LeafOf(hp, rt, lg[t])]
           Fits(t) == Cardinality({u \in from .. t - 1 : leaf[u] = leaf[t]})
                        < Available(hp[leaf[t]], sl) + (IF rep THEN 1 ELSE 0)
           Good(e) == (\A t \in from .. e : Fits(t)) /\ (e < to => ~ Fits(e + 1))
           unfit == {t \in from .. to : ~ Fits(t)}
<1>1. WaveEnd(hp, rt, lg, from, to, sl, rep) = CHOOSE e \in from - 1 .. to : Good(e)
  BY DEF WaveEnd
<1> HIDE DEF Fits
<1>2. \E e \in from - 1 .. to : Good(e)
  <2>1. CASE unfit = {}
    BY <2>1
  <2>2. CASE unfit # {}
    <3>1. PICK b \in unfit : \A t \in unfit : b <= t
      <4>1. unfit \in SUBSET Nat
        OBVIOUS
      <4>2. QED
        BY <2>2, <4>1, LeastNumber
    <3>2. \A t \in from .. b - 1 : Fits(t)
      BY <3>1
    <3>3. b - 1 \in from - 1 .. to /\ ~ Fits(b - 1 + 1)
      BY <3>1
    <3>4. QED
      BY <3>2, <3>3
  <2>3. QED
    BY <2>1, <2>2
<1>3. QED
  BY <1>1, <1>2

LEMMA InitOrder == Init => OrderInv
<1> SUFFICES ASSUME Init PROVE OrderInv
  OBVIOUS
<1>1. /\ pc["coordinator"] = "fetch" /\ committed = 0 /\ log = <<>> /\ DOMAIN roots = {0}
      /\ opts \in Setups
  BY ThreadFacts DEF Init, Threads
<1>2. opts.queue_capacity \in Nat
  BY <1>1, OptionsAssumption
<1>3. QED
  BY <1>1, <1>2 DEF OrderInv, Waved

\* A step that does not commit.
LEMMA OrderSame ==
  ASSUME IInv, OrderInv, pc'["coordinator"] = pc["coordinator"],
         UNCHANGED <<opts, committed, log, batch, end, roots>>
  PROVE  OrderInv'
BY DEF OrderInv

LEMMA CoordinatorStays ==
  ASSUME PcOK, NEW t, t # "coordinator", pc' = pc \/ \E p : pc' = [pc EXCEPT ![t] = p]
  PROVE  pc'["coordinator"] = pc["coordinator"]
<1>1. "coordinator" \in DOMAIN pc
  BY DEF PcOK, Threads
<1>2. ASSUME NEW p, pc' = [pc EXCEPT ![t] = p]
      PROVE  pc'["coordinator"] = pc["coordinator"]
  BY <1>1, <1>2
<1>3. QED
  BY <1>2

LEMMA OrderSubmit ==
  ASSUME IInv, OrderInv, NEW c \in opts.clients, NEW k \in opts.writes, Submit(c, k)
  PROVE  OrderInv'
<1>i. TypeOK /\ PcOK /\ c \in Clients /\ c # "coordinator" /\ opts.queue_capacity \in Nat
  BY OptionsAssumption, ThreadFacts DEF IInv, TypeOK
<1>1. UNCHANGED <<opts, committed, batch, end, roots>>
  BY DEF Submit, fixed, tree, plan
<1>2. pc'["coordinator"] = pc["coordinator"]
  <2>1. \E p : pc' = [pc EXCEPT ![c] = p]
    BY DEF Submit, Go
  <2>2. QED
    BY <1>i, <2>1, CoordinatorStays
<1>3. CASE UNCHANGED log
  BY <1>1, <1>2, <1>3, OrderSame
<1>4. CASE log' # log
  <2>1. log' = Append(log, k) /\ ~ Full /\ k \in Written
    BY <1>i, <1>4 DEF Submit, TypeOK, Written
  <2>2. Len(log') = Len(log) + 1 /\ Len(log) \in Nat
    BY <1>i, <2>1 DEF TypeOK
  <2>3. committed \in Nat /\ Len(log') - committed <= opts.queue_capacity
    BY <1>i, <2>1, <2>2 DEF OrderInv, Full
  <2>4. batch.last \in Nat
    BY <1>i DEF TypeOK
  <2>5. QED
    BY <1>1, <1>2, <2>2, <2>3, <2>4 DEF OrderInv
<1>5. QED
  BY <1>3, <1>4

\* Clients, workers and the destructor.
LEMMA OrderOthers ==
  ASSUME IInv, OrderInv,
         \/ \E c \in opts.clients : Client(c) \/ \E op \in opts.calls : Call(c, op)
         \/ \E w \in Workers : Worker(w)
         \/ Destructor \/ Destroy \/ UNCHANGED vars
  PROVE  OrderInv'
<1>i. TypeOK /\ PcOK
  BY DEF IInv, TypeOK
<1>1. ASSUME NEW c \in opts.clients, Client(c) \/ \E op \in opts.calls : Call(c, op)
      PROVE  OrderInv'
  <2>1. c \in Clients /\ c # "coordinator"
    BY <1>i, OptionsAssumption, ThreadFacts DEF TypeOK
  <2>2. CASE \E k \in opts.writes : Submit(c, k)
    BY <2>2, OrderSubmit
  <2>3. CASE NotifyInput(c) \/ Processed(c) \/ Block(c) \/ Sleep(c) \/ \E op \in opts.calls : Call(c, op)
    <3>1. UNCHANGED <<opts, committed, log, batch, end, roots>>
      BY <2>3 DEF NotifyInput, Processed, Block, Sleep, Call, fixed, input, tree, plan
    <3>2. pc' = pc \/ \E p : pc' = [pc EXCEPT ![c] = p]
      BY <2>3 DEF NotifyInput, Processed, Block, Sleep, Call, Go
    <3>3. pc'["coordinator"] = pc["coordinator"]
      BY <1>i, <2>1, <3>2, CoordinatorStays
    <3>4. QED
      BY <3>1, <3>3, OrderSame
  <2>4. QED
    BY <1>1, <2>2, <2>3 DEF Client
<1>2. ASSUME NEW w \in Workers, Worker(w)
      PROVE  OrderInv'
  <2>1. w # "coordinator"
    BY ThreadFacts
  <2>2. UNCHANGED <<opts, committed, log, batch, end, roots>>
    <3>1. CASE Take(w) \/ AppendOp(w) \/ PrepareOp(w)
      BY <3>1 DEF Take, AppendOp, PrepareOp, fixed, input, tree, plan
    <3>2. CASE Wake(w) \/ WorkerThrow(w) \/ Finish(w)
      BY <3>2 DEF Wake, WorkerThrow, Finish, fixed, input, tree, plan
    <3>3. QED
      BY <1>2, <3>1, <3>2 DEF Worker
  <2>3. pc' = pc \/ \E p : pc' = [pc EXCEPT ![w] = p]
    <3>1. CASE Take(w) \/ AppendOp(w) \/ PrepareOp(w)
      BY <3>1, GroupStep
    <3>2. CASE Wake(w) \/ WorkerThrow(w) \/ Finish(w)
      BY <3>2 DEF Wake, WorkerThrow, Finish, Go
    <3>3. QED
      BY <1>2, <3>1, <3>2 DEF Worker
  <2>4. pc'["coordinator"] = pc["coordinator"]
    BY <1>i, <2>1, <2>3, CoordinatorStays
  <2>5. QED
    BY <2>2, <2>4, OrderSame
<1>3. CASE Destructor \/ Destroy
  <2>1. UNCHANGED <<opts, committed, log, batch, end, roots>>
    BY <1>3 DEF Destructor, NotifyStop, StopPool, Destroyed, Destroy, fixed, input, tree, plan
  <2>2. \E p : pc' = [pc EXCEPT !["main"] = p]
    BY <1>3 DEF Destructor, NotifyStop, StopPool, Destroyed, Destroy, Go
  <2>3. pc'["coordinator"] = pc["coordinator"]
    BY <1>i, <2>2, CoordinatorStays
  <2>4. QED
    BY <2>1, <2>3, OrderSame
<1>4. CASE UNCHANGED vars
  BY <1>4, OrderSame DEF vars
<1>5. QED
  BY <1>1, <1>2, <1>3, <1>4

LEMMA OrderFetch ==
  ASSUME IInv, OrderInv, Fetch
  PROVE  OrderInv'
<1> DEFINE next == batch.last + 1
           last == IF Len(log) < batch.last + opts.batch_size THEN Len(log)
                   ELSE batch.last + opts.batch_size
<1>i. TypeOK /\ CoordinatorInv /\ PcOK
  BY DEF IInv, TypeOK
<1>1. /\ pc["coordinator"] = "fetch"
      /\ UNCHANGED <<opts, log, committed, end, roots>>
  BY DEF Fetch, At, fixed, input, tree
<1>2. /\ Len(log) \in Nat /\ batch.last \in Nat /\ committed = batch.last
      /\ opts.batch_size \in Nat \ {0}
  BY <1>i, <1>1, OptionsAssumption DEF TypeOK, CoordinatorInv
<1>3. CASE next <= Len(log)
  <2>1. pc' = [pc EXCEPT !["coordinator"] = "plan"] /\ batch' = [next |-> next, last |-> last]
    BY <1>3 DEF Fetch, Go
  <2>2. pc'["coordinator"] = "plan"
    BY <1>i, <2>1, CoordinatorGoes DEF CoordinatorPcs
  <2>3. next = committed + 1 /\ next <= last
    BY <1>2, <1>3
  <2>4. "next" \in DOMAIN batch' /\ batch'.next = committed + 1 /\ batch'.next <= batch'.last
    BY <2>1, <2>3
  <2>5. QED
    BY <1>1, <2>2, <2>4 DEF OrderInv, Waved
<1>4. CASE ~ (next <= Len(log))
  <2>1. (pc' = [pc EXCEPT !["coordinator"] = "ended"] \/ pc' = pc) /\ batch' = batch
    BY <1>4 DEF Fetch, Go
  <2>2. pc'["coordinator"] \in {"ended", "fetch"}
    BY <1>i, <1>1, <2>1, CoordinatorGoes DEF CoordinatorPcs
  <2>3. QED
    BY <1>1, <2>1, <2>2 DEF OrderInv, Waved
<1>5. QED
  BY <1>3, <1>4

LEMMA OrderPlan ==
  ASSUME IInv, OrderInv, Plan
  PROVE  OrderInv'
<1> DEFINE e == IF opts.slots > 0 \/ opts.parallel_materialization
                THEN WaveEnd(heap, root, log, batch.next, batch.last, opts.slots,
                             opts.parallel_materialization)
                ELSE batch.next - 1
<1>i. TypeOK /\ PcOK
  BY DEF IInv, TypeOK
<1>1. /\ pc["coordinator"] = "plan"
      /\ UNCHANGED <<opts, log, committed, batch, roots>>
      /\ end' = IF e < batch.next THEN batch.next ELSE e
  BY DEF Plan, At, fixed, input, tree
<1>2. /\ batch.next = committed + 1 /\ batch.next <= batch.last /\ "next" \in DOMAIN batch
      /\ committed \in Nat /\ batch.last \in Nat
  BY <1>i, <1>1 DEF OrderInv, Waved, TypeOK
<1>3. e \in batch.next - 1 .. batch.last
  <2>1. batch.next \in Nat \ {0}
    BY <1>2
  <2>2. WaveEnd(heap, root, log, batch.next, batch.last, opts.slots, opts.parallel_materialization)
          \in batch.next - 1 .. batch.last
    BY <1>2, <2>1, WaveEndRange
  <2>3. batch.next - 1 \in batch.next - 1 .. batch.last
    BY <1>2
  <2>4. QED
    BY <2>2, <2>3
<1> HIDE DEF e
<1>4. end' \in batch.next .. batch.last
  BY <1>1, <1>2, <1>3
<1>5. \E p \in {"cow", "take", "start"} : pc' = [pc EXCEPT !["coordinator"] = p]
  BY DEF Plan, Go
<1>6. pc'["coordinator"] \in {"cow", "take", "start"}
  BY <1>i, <1>5, CoordinatorGoes DEF CoordinatorPcs
<1>7. QED
  BY <1>1, <1>2, <1>4, <1>6 DEF OrderInv, Waved

\* Within a wave.
LEMMA OrderWaved ==
  ASSUME IInv, OrderInv, pc["coordinator"] \in Waved \ {"store"},
         pc'["coordinator"] \in (Waved \ {"store"}) \cup {"fail"},
         UNCHANGED <<opts, committed, log, batch, end, roots>>
  PROVE  OrderInv'
BY DEF OrderInv, Waved

LEMMA OrderWorking ==
  ASSUME IInv, OrderInv,
         \/ CowUpdateStep \/ StartWave \/ Gather \/ MergeStep \/ CoordinatorThrow
         \/ Take("coordinator") \/ AppendOp("coordinator") \/ PrepareOp("coordinator")
  PROVE  OrderInv'
<1>i. TypeOK /\ PcOK
  BY DEF IInv, TypeOK
<1>1. CASE CowUpdateStep \/ StartWave \/ Gather \/ MergeStep \/ CoordinatorThrow
  <2>1. /\ pc["coordinator"] \in {"cow", "start", "gather", "merge", "run"}
        /\ UNCHANGED <<opts, committed, log, batch, end, roots>>
    BY <1>1 DEF CowUpdateStep, StartWave, Gather, MergeStep, CoordinatorThrow, At, fixed, input, tree, plan
  <2>2. \E p \in {"publish", "gather", "fail", "merge"} : pc' = [pc EXCEPT !["coordinator"] = p]
    BY <1>1 DEF CowUpdateStep, StartWave, Gather, MergeStep, CoordinatorThrow, Go
  <2>3. pc'["coordinator"] \in {"publish", "gather", "fail", "merge"}
    BY <1>i, <2>2, CoordinatorGoes DEF CoordinatorPcs
  <2>4. QED
    BY <2>1, <2>3, OrderWaved DEF Waved
<1>2. CASE Take("coordinator") \/ AppendOp("coordinator") \/ PrepareOp("coordinator")
  <2>1. /\ pc["coordinator"] \in {"take", "run"}
        /\ UNCHANGED <<opts, committed, log, batch, end>>
    BY <1>2, GroupStep
  <2>2. roots' = roots
    BY <1>2 DEF Take, AppendOp, PrepareOp, tree
  <2>3. \E p \in {"take", "run", "merge"} : pc' = [pc EXCEPT !["coordinator"] = p]
    BY <1>2, GroupStep, ThreadFacts
  <2>4. pc'["coordinator"] \in {"take", "run", "merge"}
    BY <1>i, <2>3, CoordinatorGoes DEF CoordinatorPcs
  <2>5. QED
    BY <2>1, <2>2, <2>4, OrderWaved DEF Waved
<1>3. QED
  BY <1>1, <1>2

LEMMA OrderPublish ==
  ASSUME IInv, OrderInv, Publish
  PROVE  OrderInv'
<1>i. TypeOK /\ PcOK
  BY DEF IInv, TypeOK
<1>1. /\ pc["coordinator"] = "publish" /\ pc' = [pc EXCEPT !["coordinator"] = "store"]
      /\ DOMAIN roots' = DOMAIN roots \cup {end}
      /\ UNCHANGED <<opts, committed, log, batch, end>>
  BY DEF Publish, At, Go, fixed, input, plan
<1>2. pc'["coordinator"] = "store"
  BY <1>i, <1>1, CoordinatorGoes DEF CoordinatorPcs
<1>3. QED
  BY <1>1, <1>2 DEF OrderInv, Waved

LEMMA OrderStore ==
  ASSUME IInv, OrderInv, StoreCommitted
  PROVE  OrderInv'
<1>i. TypeOK /\ PcOK /\ CoordinatorInv /\ opts.queue_capacity \in Nat
  BY OptionsAssumption DEF IInv, TypeOK
<1>1. /\ pc["coordinator"] = "store" /\ pc' = [pc EXCEPT !["coordinator"] = "notify"]
      /\ committed' = end
      /\ UNCHANGED <<opts, log, batch, end, roots>>
  BY DEF StoreCommitted, At, Go, fixed, tree, plan
<1>2. pc'["coordinator"] = "notify"
  BY <1>i, <1>1, CoordinatorGoes DEF CoordinatorPcs
<1>3. /\ committed \in Nat /\ batch.next = committed + 1 /\ end \in batch.next .. batch.last
      /\ batch.last \in Nat /\ batch.last <= Len(log) /\ Len(log) \in Nat /\ "next" \in DOMAIN batch
      /\ Len(log) - committed <= opts.queue_capacity /\ end \in DOMAIN roots
      /\ \A v \in DOMAIN roots : v \in 0 .. committed \/ v = end
  BY <1>i, <1>1 DEF OrderInv, Waved, CoordinatorInv, TypeOK
<1>4. end \in Nat /\ end <= Len(log) /\ Len(log) - end <= opts.queue_capacity /\ committed < end
      /\ end <= batch.last
  BY <1>3, <1>i
<1>5. \A v \in DOMAIN roots : v \in 0 .. end
  BY <1>3, <1>4
<1>6. QED
  BY <1>1, <1>2, <1>3, <1>4, <1>5 DEF OrderInv, Waved

LEMMA OrderNotify ==
  ASSUME IInv, OrderInv, NotifyCommit
  PROVE  OrderInv'
<1>i. TypeOK /\ PcOK /\ CoordinatorInv
  BY DEF IInv, TypeOK
<1>1. /\ pc["coordinator"] = "notify" /\ batch' = [batch EXCEPT !.next = end + 1]
      /\ UNCHANGED <<opts, log, committed, end, roots>>
  BY DEF NotifyCommit, At, fixed, input, tree
<1>2. PICK p \in {"fetch", "plan"} :
        pc' = [pc EXCEPT !["coordinator"] = p] /\ (p = "plan" => end # batch.last)
  BY DEF NotifyCommit, Go
<1>3. pc'["coordinator"] = p
  BY <1>i, <1>2, CoordinatorGoes DEF CoordinatorPcs
<1>4. committed \in Nat /\ batch.last \in Nat /\ committed = end /\ end <= batch.last
      /\ "next" \in DOMAIN batch /\ "last" \in DOMAIN batch
  BY <1>i, <1>1 DEF OrderInv, CoordinatorInv, TypeOK
<1>5. "next" \in DOMAIN batch' /\ batch'.next = committed + 1 /\ batch'.last = batch.last
  BY <1>1, <1>4
<1>6. p = "plan" => committed + 1 <= batch.last
  BY <1>2, <1>4
<1>7. QED
  BY <1>1, <1>3, <1>5, <1>6 DEF OrderInv, Waved

LEMMA OrderFailure ==
  ASSUME IInv, OrderInv, Fail \/ NotifyFailure
  PROVE  OrderInv'
<1>i. TypeOK /\ PcOK
  BY DEF IInv, TypeOK
<1>1. /\ pc["coordinator"] \in {"fail", "failed"}
      /\ UNCHANGED <<opts, log, committed, batch, end, roots>>
  BY DEF Fail, NotifyFailure, At, fixed, input, tree, plan
<1>2. \E p \in {"failed", "ended"} : pc' = [pc EXCEPT !["coordinator"] = p]
  BY DEF Fail, NotifyFailure, Go
<1>3. pc'["coordinator"] \in {"failed", "ended"}
  BY <1>i, <1>2, CoordinatorGoes DEF CoordinatorPcs
<1>4. QED
  BY <1>1, <1>3 DEF OrderInv, Waved

LEMMA OrderInvariance == Spec => [](IInv /\ OrderInv)
<1>1. Init => IInv /\ OrderInv
  BY InitOK, InitOrder
<1>2. ASSUME IInv, OrderInv, [Next]_vars
      PROVE  IInv' /\ OrderInv'
  <2>1. IInv'
    BY <1>2, NextOK
  <2>2. Coordinator => OrderInv'
    BY <1>2, OrderFetch, OrderPlan, OrderWorking, OrderPublish, OrderStore, OrderNotify, OrderFailure
       DEF Coordinator
  <2>3. ~ Coordinator => OrderInv'
    BY <1>2, OrderOthers DEF Next
  <2>4. QED
    BY <2>1, <2>2, <2>3
<1>3. IInv /\ OrderInv /\ [Next]_vars => (IInv /\ OrderInv)'
  BY <1>2
<1>4. QED
  BY <1>1, <1>3, PTL DEF Spec

\* Updates that wait are never more than queue_ has places, so update() overwrites
\* none that the coordinator has still to read.
QueueFits == committed <= Len(log) /\ Len(log) - committed <= opts.queue_capacity
THEOREM QueueNeverOverflows == Spec => []QueueFits
<1>1. OrderInv => QueueFits
  BY DEF OrderInv, QueueFits
<1>2. QED
  BY <1>1, OrderInvariance, PTL

\* publish(): the root of a version is there before committed_ says so, and no later
\* root than the one that is about to be committed.  A client that waited for its
\* ticket finds a version with it.
RootsFirst ==
  /\ committed \in DOMAIN roots
  /\ \A v \in DOMAIN roots : v <= committed \/ (pc["coordinator"] = "store" /\ v = end)
THEOREM PublishedBeforeCommitted == Spec => []RootsFirst
<1>1. OrderInv => RootsFirst
  BY DEF OrderInv, RootsFirst
<1>2. QED
  BY <1>1, OrderInvariance, PTL

\* Tickets are numbered in the order of their submission, and committed_ goes
\* forward, to a ticket that was submitted, and in no other step.
SubmitOrCommit ==
  \/ UNCHANGED <<log, committed>>
  \/ (\E k \in Written : log' = Append(log, k)) /\ UNCHANGED committed
  \/ committed' \in committed + 1 .. Len(log) /\ UNCHANGED log
THEOREM CommitsForward == Spec => [][SubmitOrCommit]_vars
<1>1. ASSUME IInv, OrderInv, Next
      PROVE  SubmitOrCommit
  <2>i. TypeOK /\ CoordinatorInv
    BY <1>1 DEF IInv
  <2>1. CASE StoreCommitted
    <3>1. committed' = end /\ pc["coordinator"] = "store" /\ log' = log
      BY <2>1 DEF StoreCommitted, At
    <3>2. /\ committed \in Nat /\ batch.next = committed + 1 /\ end \in batch.next .. batch.last
          /\ batch.last \in Nat /\ batch.last <= Len(log) /\ Len(log) \in Nat
      BY <1>1, <2>i, <3>1 DEF OrderInv, Waved, CoordinatorInv, TypeOK
    <3>3. end \in committed + 1 .. Len(log)
      BY <3>2
    <3>4. QED
      BY <3>1, <3>3 DEF SubmitOrCommit
  <2>2. CASE Coordinator /\ ~ StoreCommitted
    <3>1. CASE Take("coordinator") \/ AppendOp("coordinator") \/ PrepareOp("coordinator")
      BY <1>1, <3>1, GroupStep DEF SubmitOrCommit
    <3>2. CASE \/ Fetch \/ Plan \/ CowUpdateStep \/ StartWave \/ Gather \/ MergeStep \/ Publish
               \/ NotifyCommit \/ CoordinatorThrow \/ Fail \/ NotifyFailure
      BY <3>2 DEF SubmitOrCommit, Fetch, Plan, CowUpdateStep, StartWave, Gather, MergeStep, Publish,
                  NotifyCommit, CoordinatorThrow, Fail, NotifyFailure, input
    <3>3. QED
      BY <2>2, <3>1, <3>2 DEF Coordinator
  <2>3. ASSUME NEW c \in opts.clients, Client(c) \/ \E op \in opts.calls : Call(c, op)
        PROVE  SubmitOrCommit
    <3>1. ASSUME NEW k \in opts.writes, Submit(c, k)
          PROVE  SubmitOrCommit
      <4>1. k \in Written
        BY <2>i DEF TypeOK, Written
      <4>2. QED
        BY <3>1, <4>1 DEF Submit, SubmitOrCommit
    <3>2. CASE NotifyInput(c) \/ Processed(c) \/ Block(c) \/ Sleep(c) \/ \E op \in opts.calls : Call(c, op)
      BY <3>2 DEF NotifyInput, Processed, Block, Sleep, Call, input, SubmitOrCommit
    <3>3. QED
      BY <2>3, <3>1, <3>2 DEF Client
  <2>4. ASSUME NEW w \in Workers, Worker(w)
        PROVE  SubmitOrCommit
    <3>1. CASE Take(w) \/ AppendOp(w) \/ PrepareOp(w)
      BY <3>1 DEF Take, AppendOp, PrepareOp, input, SubmitOrCommit
    <3>2. CASE Wake(w) \/ WorkerThrow(w) \/ Finish(w)
      BY <3>2 DEF Wake, WorkerThrow, Finish, input, SubmitOrCommit
    <3>3. QED
      BY <2>4, <3>1, <3>2 DEF Worker
  <2>5. CASE Destructor \/ Destroy
    BY <2>5 DEF Destructor, NotifyStop, StopPool, Destroyed, Destroy, input, SubmitOrCommit
  <2>6. QED
    BY <1>1, <2>1, <2>2, <2>3, <2>4, <2>5 DEF Next
<1>2. IInv /\ OrderInv /\ [Next]_vars => [SubmitOrCommit]_vars
  BY <1>1
<1>3. QED
  BY <1>2, OrderInvariance, PTL DEF Spec
=============================================================================
