---------------------------- MODULE CyclicProofs ----------------------------
(***************************************************************************)
(* Proofs about Cyclic for any ring size, number of pipe threads, workers, *)
(* tickets and handlers.                                                   *)
(***************************************************************************)
EXTENDS Cyclic, TLAPS

(***************************************************************************)
(* a % m for any modulus: the slots of the ring (ticket modulo buffer      *)
(* size) and the turns of the threads (ticket modulo threads).             *)
(***************************************************************************)
\* A remainder is the rest left by any quotient that leaves it in range.
LEMMA ModUnique ==
  ASSUME NEW m \in Nat \ {0}, NEW a \in Int, NEW k \in Int, NEW r \in 0 .. m - 1,
         a = (m * k) + r
  PROVE  a % m = r
<1> DEFINE d == a \div m
           s == a % m
<1>1. d \in Int /\ s \in 0 .. m - 1 /\ a = (m * d) + s
  OBVIOUS
<1> HIDE DEF d, s
<1>2. ASSUME d < k PROVE FALSE
  <2>1. m * (k - d) >= m
    BY <1>1, <1>2
  <2>2. QED
    BY <2>1, <1>1
<1>3. ASSUME d > k PROVE FALSE
  <2>1. m * (d - k) >= m
    BY <1>1, <1>3
  <2>2. QED
    BY <2>1, <1>1
<1>4. s = r
  BY <1>1, <1>2, <1>3
<1>5. QED
  BY <1>4 DEF s

\* A remainder moves with its number as long as it stays in range.
LEMMA ModShift ==
  ASSUME NEW m \in Nat \ {0}, NEW a \in Int, NEW i \in Int, (a % m) + i \in 0 .. m - 1
  PROVE  (a + i) % m = (a % m) + i
<1> DEFINE d == a \div m
           s == a % m
<1>1. d \in Int /\ s \in 0 .. m - 1 /\ a = (m * d) + s
  OBVIOUS
<1> HIDE DEF d, s
<1>2. a + i = (m * d) + (s + i) /\ s + i \in 0 .. m - 1
  BY <1>1 DEF s
<1>3. (a + i) % m = s + i
  BY <1>1, <1>2, ModUnique
<1>4. QED
  BY <1>3 DEF s

\* ... and goes round once it has left it.
LEMMA ModWrap ==
  ASSUME NEW m \in Nat \ {0}, NEW a \in Int
  PROVE  (a + m) % m = a % m
<1> DEFINE d == a \div m
           s == a % m
<1>1. d \in Int /\ s \in 0 .. m - 1 /\ a = (m * d) + s
  OBVIOUS
<1> HIDE DEF d, s
<1>2. a + m = (m * (d + 1)) + s
  BY <1>1
<1>3. (a + m) % m = s
  BY <1>1, <1>2, ModUnique
<1>4. QED
  BY <1>3 DEF s

\* Numbers less than m apart have distinct remainders.
LEMMA ModDistinct ==
  ASSUME NEW m \in Nat \ {0}, NEW a \in Int, NEW b \in Int,
         a % m = b % m, a - b < m, b - a < m
  PROVE  a = b
<1> DEFINE s == a % m
           d == a \div m
           e == b \div m
<1>1. d \in Int /\ e \in Int /\ s \in 0 .. m - 1 /\ a = (m * d) + s /\ b = (m * e) + s
  OBVIOUS
<1> HIDE DEF d, e, s
<1>2. ASSUME d < e PROVE FALSE
  <2>1. m * (e - d) >= m
    BY <1>1, <1>2
  <2>2. QED
    BY <2>1, <1>1
<1>3. ASSUME d > e PROVE FALSE
  <2>1. m * (d - e) >= m
    BY <1>1, <1>3
  <2>2. QED
    BY <2>1, <1>1
<1>4. QED
  BY <1>1, <1>2, <1>3
(***************************************************************************)
(* n threads that hand every ticket round, each ticket one thread further: *)
(* thread (t - 1) % n takes ticket t in and the thread before it, round    *)
(* the ring, lets it out.  Turn(n, q, t) is the position of thread q on    *)
(* ticket t: 0 for the one that takes it in, n - 1 for the last one.       *)
(***************************************************************************)
Turn(n, q, t) == (q - t + 1) % n
After(n, q) == (q + 1) % n

\* The turns of the threads on one ticket are 0 .. n - 1 ...
LEMMA TurnRange ==
  ASSUME NEW n \in Nat \ {0}
  PROVE  \A q \in 0 .. n - 1, t \in Int : Turn(n, q, t) \in 0 .. n - 1
BY DEF Turn

\* ... each once, ...
LEMMA TurnInjective ==
  ASSUME NEW n \in Nat \ {0}, NEW p \in 0 .. n - 1, NEW q \in 0 .. n - 1, NEW t \in Int,
         Turn(n, p, t) = Turn(n, q, t)
  PROVE  p = q
<1> DEFINE a == p - t + 1
           b == q - t + 1
<1>1. /\ a \in Int /\ b \in Int /\ a - b < n /\ b - a < n
      /\ a = b => p = q
  OBVIOUS
<1>2. a % n = b % n
  BY DEF Turn
<1> HIDE DEF a, b
<1>3. QED
  BY <1>1, <1>2, ModDistinct

\* ... and all of them taken.
LEMMA TurnOnto ==
  ASSUME NEW n \in Nat \ {0}
  PROVE  \A t \in Int, k \in 0 .. n - 1 : \E q \in 0 .. n - 1 : Turn(n, q, t) = k
<1> TAKE t \in Int, k \in 0 .. n - 1
<1> DEFINE q == (t + k - 1) % n
           d == (t + k - 1) \div n
<1>1. q \in 0 .. n - 1 /\ d \in Int /\ t + k - 1 = (n * d) + q
  OBVIOUS
<1> HIDE DEF d, q
<1> DEFINE a == q - t + 1
<1>2. a \in Int /\ a = (n * (0 - d)) + k
  BY <1>1
<1>3. Turn(n, q, t) = a % n
  BY DEF Turn
<1> HIDE DEF a
<1>4. a % n = k
  BY <1>1, <1>2, ModUnique
<1>5. QED
  BY <1>1, <1>3, <1>4

\* A thread moves one turn down from each ticket to the next.
LEMMA TurnShift ==
  ASSUME NEW n \in Nat \ {0}, NEW q \in 0 .. n - 1, NEW t \in Int, NEW i \in Nat,
         Turn(n, q, t) + i <= n - 1
  PROVE  Turn(n, q, t - i) = Turn(n, q, t) + i
<1> DEFINE a == q - t + 1
<1>1. a \in Int /\ q - (t - i) + 1 = a + i /\ a % n \in 0 .. n - 1
  OBVIOUS
<1> HIDE DEF a
<1>2. Turn(n, q, t) = a % n
  BY DEF Turn, a
<1>3. (a + i) % n = (a % n) + i
  BY <1>1, <1>2, ModShift
<1>4. QED
  BY <1>1, <1>2, <1>3 DEF Turn

\* Entry and exit in terms of turns.
LEMMA TurnRoles ==
  ASSUME NEW n \in Nat \ {0}, NEW q \in 0 .. n - 1, NEW t \in Nat
  PROVE  /\ (t - 1) % n = q <=> Turn(n, q, t) = 0
         /\ (t + n - 2) % n = q <=> Turn(n, q, t) = n - 1
<1>1. (t - 1) % n = q <=> Turn(n, q, t) = 0
  <2> DEFINE a == q - t + 1
             b == t - 1
  <2>1. a \in Int /\ b \in Int /\ a + b = q
    OBVIOUS
  <2>2. Turn(n, q, t) = a % n /\ (t - 1) % n = b % n
    BY DEF Turn
  <2> HIDE DEF a, b
  <2>3. ASSUME b % n = q PROVE a % n = 0
    <3> DEFINE d == b \div n
    <3>1. d \in Int /\ b = (n * d) + q
      BY <2>1, <2>3
    <3> HIDE DEF d
    <3>2. a = (n * (0 - d)) + 0
      BY <2>1, <3>1
    <3>3. QED
      BY <2>1, <3>1, <3>2, ModUnique
  <2>4. ASSUME a % n = 0 PROVE b % n = q
    <3> DEFINE d == a \div n
    <3>1. d \in Int /\ a = (n * d) + 0
      BY <2>1, <2>4
    <3> HIDE DEF d
    <3>2. b = (n * (0 - d)) + q
      BY <2>1, <3>1
    <3>3. QED
      BY <2>1, <3>1, <3>2, ModUnique
  <2>5. QED
    BY <2>2, <2>3, <2>4
<1>2. (t + n - 2) % n = q <=> Turn(n, q, t) = n - 1
  <2> DEFINE a == q - t + 1
             b == t + n - 2
  <2>1. a \in Int /\ b \in Int /\ a + b = q + (n - 1)
    OBVIOUS
  <2>2. Turn(n, q, t) = a % n /\ (t + n - 2) % n = b % n
    BY DEF Turn
  <2> HIDE DEF a, b
  <2>3. ASSUME b % n = q PROVE a % n = n - 1
    <3> DEFINE d == b \div n
    <3>1. d \in Int /\ b = (n * d) + q
      BY <2>1, <2>3
    <3> HIDE DEF d
    <3>2. a = (n * (0 - d)) + (n - 1)
      BY <2>1, <3>1
    <3>3. QED
      BY <2>1, <3>1, <3>2, ModUnique
  <2>4. ASSUME a % n = n - 1 PROVE b % n = q
    <3> DEFINE d == a \div n
    <3>1. d \in Int /\ a = (n * d) + (n - 1)
      BY <2>1, <2>4
    <3> HIDE DEF d
    <3>2. b = (n * (0 - d)) + q
      BY <2>1, <3>1
    <3>3. QED
      BY <2>1, <3>1, <3>2, ModUnique
  <2>5. QED
    BY <2>2, <2>3, <2>4
<1>3. QED
  BY <1>1, <1>2

\* The following thread has the next turn, and one thread only precedes it.
LEMMA TurnFollow ==
  ASSUME NEW n \in Nat \ {0}, NEW q \in 0 .. n - 1
  PROVE  /\ After(n, q) \in 0 .. n - 1
         /\ \A p \in 0 .. n - 1 : After(n, p) = After(n, q) => p = q
         /\ \A t \in Int :
              Turn(n, q, t) # n - 1 => Turn(n, After(n, q), t) = Turn(n, q, t) + 1
<1>1. \A p \in 0 .. n - 1 :
        After(n, p) = IF p + 1 \in 0 .. n - 1 THEN p + 1 ELSE 0
  <2> TAKE p \in 0 .. n - 1
  <2>1. CASE p + 1 \in 0 .. n - 1
    BY <2>1, ModUnique DEF After
  <2>2. CASE p + 1 = n
    BY <2>2, ModUnique DEF After
  <2>3. QED
    BY <2>1, <2>2
<1>2. /\ After(n, q) \in 0 .. n - 1
      /\ \A p \in 0 .. n - 1 : After(n, p) = After(n, q) => p = q
  BY <1>1
<1>3. ASSUME NEW t \in Int, Turn(n, q, t) # n - 1
      PROVE  Turn(n, After(n, q), t) = Turn(n, q, t) + 1
  <2> DEFINE a == q - t + 1
  <2>1. a \in Int /\ Turn(n, q, t) = a % n
    BY DEF Turn
  <2>2. Turn(n, q, t) \in 0 .. n - 1
    BY TurnRange
  <2>3. (a + 1) % n = Turn(n, q, t) + 1
    <3> DEFINE d == a \div n
               r == a % n
               b == a + 1
    <3>1. /\ d \in Int /\ a = (n * d) + r
          /\ r \in Int /\ r + 1 \in 0 .. n - 1
      BY <2>1, <2>2, <1>3
    <3> HIDE DEF a, d, r
    <3>2. b \in Int /\ b = (n * d) + (r + 1)
      BY <2>1, <3>1
    <3> HIDE DEF b
    <3>3. b % n = r + 1
      BY <3>1, <3>2, ModUnique
    <3>4. QED
      BY <2>1, <3>3 DEF r, b
  <2>4. CASE q + 1 \in 0 .. n - 1
    <3>1. After(n, q) = q + 1
      BY <2>4, <1>1
    <3>2. QED
      BY <2>3, <3>1 DEF Turn
  <2>5. CASE q + 1 = n
    <3>1. After(n, q) = 0
      BY <2>5, <1>1
    <3> DEFINE b == 0 - t + 1
    <3>2. b \in Int /\ a + 1 = b + n
      BY <2>5
    <3>3. \A i \in Int : (i + n) % n = i % n
      BY ModWrap
    <3>4. QED
      BY <2>3, <3>1, <3>2, <3>3 DEF Turn
  <2>6. QED
    BY <2>4, <2>5
<1>4. QED
  BY <1>2, <1>3

-----------------------------------------------------------------------------

(***************************************************************************)
(* The strengthening.  Rank(q, t) is the position of pipe thread q in the  *)
(* chain that handles ticket t: 0 for its entry, NPipes - 1 for its exit.  *)
(* The ring holds the tickets Window: the last one committed and the B - 1 *)
(* that may be in flight after it, each in a slot of its own.              *)
(***************************************************************************)
Rank(q, t) == Turn(NPipes, q, t)
Last == NPipes - 1
Window == nCommitted .. nCommitted + B - 1

\* Thread q has run its handler of ticket t.
Passed(q, t) == \/ pipe[q].tid > t
                \/ pipe[q].tid = t /\ pipe[q].pc = "pop"

Busy(w) == worker[w].pc \in {"wait", "run"}

Contexts     == [tid : Nat, past : Nat, steps : Nat, need : Nat]
MonStates    == [pc : {"init", "commit"}, sub : Nat, init : Nat, comm : Nat]
PipeStates   == [tid : Nat \ {0}, pc : {"wait", "run", "pop"}]
WorkerStates == [tid : Nat, pc : {"idle", "wait", "run", "push"}, stage : Nat]

TypeOK ==
  /\ nSubmitted \in 0 .. MaxTicket /\ nInited \in Nat /\ nCommitted \in Nat
  /\ client \in [Tickets -> {"none", "drawn", "filling", "returned"}]
  /\ ctx \in [Slots -> Contexts]
  /\ stage \in [Slots -> Nat]
  /\ mon \in MonStates
  /\ pipe \in [Pipes -> PipeStates]
  /\ pace \in [Pipes -> Nat]
  /\ worker \in [Workers -> WorkerStates]
  /\ available \in SUBSET Workers

\* The monitor's prefixes, and the clients they cover.
MonitorInv ==
  /\ nCommitted <= mon.comm /\ mon.comm <= nInited /\ nInited <= mon.init
  /\ mon.init <= mon.sub /\ mon.sub <= nSubmitted
  /\ mon.pc = "commit" => nInited = mon.init
  /\ mon.pc = "init" => nCommitted = mon.comm

ClientInv ==
  \A t \in Tickets :
    /\ client[t] = "none" <=> t > nSubmitted
    /\ t <= mon.init => client[t] = "returned"
    /\ client[t] \in {"filling", "returned"} => t < nCommitted + B

\* A thread that passed a ticket comes after every thread of a lower rank.
PipeInv ==
  /\ \A q \in Pipes :
       /\ mon.comm < pipe[q].tid /\ pipe[q].tid - 1 <= nInited
       /\ pace[Follow(q)] < pipe[q].tid
       /\ pipe[q].pc # "wait" =>
            /\ pipe[q].tid <= nInited
            /\ Rank(q, pipe[q].tid) # 0 => pace[q] >= pipe[q].tid
       /\ pipe[q].pc = "pop" => Rank(q, pipe[q].tid) = Last
  /\ \A p, q \in Pipes : \A t \in Nat :
       t < pipe[q].tid /\ Rank(p, t) <= Rank(q, t) => t < pipe[p].tid

\* A worker has a ticket that every pipe thread has passed, to itself.
WorkerOK(w) ==
  LET s == Slot(worker[w].tid) IN
  /\ mon.comm < worker[w].tid /\ worker[w].tid <= nInited
  /\ \A q \in Pipes : worker[w].tid < pipe[q].tid
  /\ worker[w].stage >= 1
  /\ ctx[s].steps <= NPipes + worker[w].stage - 1
  /\ OpDone(s) \/ ctx[s].steps = NPipes + worker[w].stage - 1
  /\ worker[w].pc = "run" => ~ OpDone(s)

WorkerInv ==
  /\ \A w \in Workers : Busy(w) => WorkerOK(w)
  /\ \A v, w \in Workers : Busy(v) /\ Busy(w) /\ worker[v].tid = worker[w].tid => v = w

\* A released ticket in its slot.
Progress(t) ==
  LET s == Slot(t) IN
  /\ ctx[s].past < t /\ ctx[s].steps <= ctx[s].need
  /\ \A q \in Pipes : IF Passed(q, t) THEN OpDone(s) \/ ctx[s].steps > Rank(q, t)
                                      ELSE ctx[s].steps <= Rank(q, t)
  /\ \A q \in Pipes : pipe[q].tid = t => ctx[s].steps <= Rank(q, t) + 1
  /\ stage[s] >= 1 => OpDone(s) \/ ctx[s].steps >= NPipes + stage[s]
  /\ stage[s] = Done => /\ OpDone(s)
                        /\ \A q \in Pipes : t < pipe[q].tid
                        /\ \A w \in Workers : Busy(w) => worker[w].tid # t

SlotOK(t) ==
  LET s == Slot(t) IN
  /\ t <= mon.comm => stage[s] = Done /\ ctx[s].tid = t
  /\ t > nSubmitted => stage[s] = Done
  /\ t \in Tickets =>
       /\ client[t] # "returned" => stage[s] = Done
       /\ client[t] \in {"filling", "returned"} =>
            ctx[s].tid = t /\ ctx[s].need \in 1 .. MaxNeed
       /\ client[t] = "filling" => ctx[s].past = t - 1 /\ ctx[s].steps = 0
       /\ client[t] = "returned" => Progress(t)

RingInv == \A t \in Window : SlotOK(t)

IInv == /\ TypeOK /\ MonitorInv /\ ClientInv /\ PipeInv /\ WorkerInv /\ RingInv
        /\ StageOrder

-----------------------------------------------------------------------------
(* Slots and ranks.                                                        *)

\* Tickets less than B apart have slots of their own; B apart they share one.
LEMMA SlotFacts ==
  /\ \A t \in Int : Slot(t) \in Slots
  /\ \A t \in Int : Slot(t + B) = Slot(t)
  /\ \A t, u \in Int : Slot(t) = Slot(u) /\ t - u < B /\ u - t < B => t = u
<1>m. B \in Nat \ {0}
  BY RingAssumption
<1> USE <1>m, RingAssumption DEF Slot, Slots
<1>1. \A t \in Int : Slot(t) \in Slots
  OBVIOUS
<1>2. \A t \in Int : Slot(t + B) = Slot(t)
  BY ModWrap
<1>3. \A t, u \in Int : Slot(t) = Slot(u) /\ t - u < B /\ u - t < B => t = u
  BY ModDistinct
<1>4. QED
  BY <1>1, <1>2, <1>3

LEMMA NPipesPositive == NPipes \in Nat \ {0}
BY PipesAssumption

\* The ranks of the pipe threads on one ticket are 0 .. Last ...
LEMMA RankRange == \A q \in Pipes, t \in Int : Rank(q, t) \in 0 .. Last
BY NPipesPositive, TurnRange DEF Pipes, Last, Rank

\* ... each once, ...
LEMMA RankInjective ==
  ASSUME NEW p \in Pipes, NEW q \in Pipes, NEW t \in Int, Rank(p, t) = Rank(q, t)
  PROVE  p = q
BY NPipesPositive, TurnInjective DEF Pipes, Rank

\* ... and all of them taken.
LEMMA RankOnto == \A t \in Int, k \in 0 .. Last : \E q \in Pipes : Rank(q, t) = k
BY NPipesPositive, TurnOnto DEF Pipes, Last, Rank

\* A thread moves one rank down from each ticket to the next.
LEMMA RankShift ==
  ASSUME NEW q \in Pipes, NEW t \in Int, NEW i \in Nat, Rank(q, t) + i <= Last
  PROVE  Rank(q, t - i) = Rank(q, t) + i
BY NPipesPositive, TurnShift DEF Pipes, Last, Rank

\* Entry and exit in terms of ranks.
LEMMA RoleFacts ==
  ASSUME NEW q \in Pipes, NEW t \in Nat
  PROVE  /\ EntryOf(t) = q <=> Rank(q, t) = 0
         /\ ExitOf(t) = q <=> Rank(q, t) = Last
BY NPipesPositive, TurnRoles DEF Pipes, Last, Rank, EntryOf, ExitOf

\* The following thread has the next rank, and one thread only precedes it.
LEMMA FollowFacts ==
  ASSUME NEW q \in Pipes
  PROVE  /\ Follow(q) \in Pipes
         /\ \A p \in Pipes : Follow(p) = Follow(q) => p = q
         /\ \A t \in Int : Rank(q, t) # Last => Rank(Follow(q), t) = Rank(q, t) + 1
BY NPipesPositive, TurnFollow DEF Pipes, Last, Rank, Follow, After

-----------------------------------------------------------------------------
(* Initial states and types.                                               *)

LEMMA InitIInv == Init => IInv
<1> SUFFICES ASSUME Init PROVE IInv
  OBVIOUS
<1> USE RingAssumption, PipesAssumption, TicketAssumption DEF Init
<1>1. TypeOK
  BY DEF TypeOK, Done, Contexts, MonStates, PipeStates, WorkerStates
<1>2. MonitorInv /\ ClientInv
  BY DEF MonitorInv, ClientInv, Tickets
<1>3. PipeInv
  <2>1. \A q \in Pipes : pace[Follow(q)] < pipe[q].tid
    BY FollowFacts
  <2>2. \A p, q \in Pipes : \A t \in Nat :
          t < pipe[q].tid /\ Rank(p, t) <= Rank(q, t) => t < pipe[p].tid
    OBVIOUS
  <2>3. QED
    BY <2>1, <2>2 DEF PipeInv
<1>4. WorkerInv
  BY DEF WorkerInv, Busy
<1>5. RingInv
  <2> SUFFICES ASSUME NEW t \in Window PROVE SlotOK(t)
    BY DEF RingInv
  <2>1. t \in 0 .. B - 1 /\ Slot(t) \in Slots
    BY SlotFacts DEF Window
  <2>2. t = 0 => ctx[Slot(t)].tid = t
    BY <2>1
  <2>3. QED
    BY <2>1, <2>2 DEF SlotOK
<1>6. StageOrder
  BY DEF StageOrder
<1>7. QED
  BY <1>1, <1>2, <1>3, <1>4, <1>5, <1>6 DEF IInv

\* What a handler does to the context of its ticket, and to no other.
LEMMA HandleEffect ==
  ASSUME TypeOK, NEW s \in Slots, Handle(s)
  PROVE  /\ ctx' \in [Slots -> Contexts]
         /\ \A r \in Slots \ {s} : ctx'[r] = ctx[r]
         /\ ctx'[s].tid = ctx[s].tid /\ ctx'[s].need = ctx[s].need
         /\ OpDone(s) => ctx' = ctx
         /\ ~ OpDone(s) => /\ ctx'[s].steps = ctx[s].steps + 1
                           /\ ctx'[s].past = 0 \/ (/\ nCommitted < ctx'[s].past
                                                   /\ ctx'[s].past <= ctx[s].past)
<1>1. CASE OpDone(s)
  BY <1>1 DEF Handle, TypeOK
<1>2. CASE ~ OpDone(s)
  <2>1. PICK v \in {0} \cup (nCommitted + 1 .. ctx[s].past) :
          ctx' = [ctx EXCEPT ![s].steps = @ + 1, ![s].past = v]
    BY <1>2 DEF Handle
  <2>2. v \in Nat /\ ctx[s] \in Contexts /\ ctx \in [Slots -> Contexts]
    BY DEF TypeOK
  <2> DEFINE c == [tid |-> ctx[s].tid, past |-> v, steps |-> ctx[s].steps + 1,
                   need |-> ctx[s].need]
  <2>3. c \in Contexts
    BY <2>2 DEF Contexts
  <2>4. ctx'[s] = c
    BY <2>1, <2>2 DEF Contexts
  <2>5. ctx' = [r \in Slots |-> ctx'[r]] /\ \A r \in Slots \ {s} : ctx'[r] = ctx[r]
    <3> HIDE DEF c
    <3>1. QED
      BY <2>1, <2>2
  <2>6. ctx' \in [Slots -> Contexts]
    <3> HIDE DEF c
    <3>1. QED
      BY <2>2, <2>3, <2>4, <2>5
  <2>7. QED
    BY <1>2, <2>2, <2>4, <2>5, <2>6 DEF Contexts, TypeOK
<1>3. QED
  BY <1>1, <1>2

\* The four steps of the monitor: take one ticket more into a prefix, or publish it.
LEMMA MonitorEffect ==
  ASSUME TypeOK, MonInit \/ MonCommit
  PROVE  /\ mon' \in MonStates /\ nInited' \in Nat /\ nCommitted' \in Nat
         /\ UNCHANGED <<nSubmitted, client, ctx, stage, pipe, pace, worker, available>>
         /\ \/ /\ mon.pc = "init" /\ mon.init < mon.sub /\ stage[Slot(mon.init + 1)] = 0
               /\ mon' = [mon EXCEPT !.init = mon.init + 1]
               /\ UNCHANGED <<nInited, nCommitted>>
            \/ /\ mon.pc = "init" /\ mon' = [mon EXCEPT !.pc = "commit"]
               /\ nInited' = mon.init /\ UNCHANGED nCommitted
            \/ /\ mon.pc = "commit" /\ mon.comm < mon.init
               /\ stage[Slot(mon.comm + 1)] = Done
               /\ mon' = [mon EXCEPT !.comm = mon.comm + 1]
               /\ UNCHANGED <<nInited, nCommitted>>
            \/ /\ mon.pc = "commit" /\ mon' = [mon EXCEPT !.pc = "init", !.sub = nSubmitted]
               /\ nCommitted' = mon.comm /\ UNCHANGED nInited
<1>t. mon \in MonStates /\ nInited \in Nat /\ nCommitted \in Nat /\ nSubmitted \in Nat
  BY TicketAssumption DEF TypeOK
<1>1. CASE MonInit /\ mon.init < mon.sub /\ stage[Slot(mon.init + 1)] = 0
  <2>1. mon' = [mon EXCEPT !.init = mon.init + 1] /\ mon.pc = "init"
        /\ UNCHANGED <<nInited, nCommitted>>
    BY <1>1 DEF MonInit
  <2>2. mon' \in MonStates
    BY <1>t, <2>1 DEF MonStates
  <2>3. QED
    BY <1>1, <1>t, <2>1, <2>2 DEF MonInit, threadvars
<1>2. CASE MonInit /\ ~ (mon.init < mon.sub /\ stage[Slot(mon.init + 1)] = 0)
  <2>1. mon' = [mon EXCEPT !.pc = "commit"] /\ mon.pc = "init" /\ nInited' = mon.init
        /\ UNCHANGED nCommitted
    BY <1>2 DEF MonInit
  <2>2. mon' \in MonStates /\ nInited' \in Nat
    BY <1>t, <2>1 DEF MonStates
  <2>3. QED
    BY <1>2, <1>t, <2>1, <2>2 DEF MonInit, threadvars
<1>3. CASE MonCommit /\ mon.comm < mon.init /\ stage[Slot(mon.comm + 1)] = Done
  <2>1. mon' = [mon EXCEPT !.comm = mon.comm + 1] /\ mon.pc = "commit"
        /\ UNCHANGED <<nInited, nCommitted>>
    BY <1>3 DEF MonCommit
  <2>2. mon' \in MonStates
    BY <1>t, <2>1 DEF MonStates
  <2>3. QED
    BY <1>3, <1>t, <2>1, <2>2 DEF MonCommit, threadvars
<1>4. CASE MonCommit /\ ~ (mon.comm < mon.init /\ stage[Slot(mon.comm + 1)] = Done)
  <2>1. mon' = [mon EXCEPT !.pc = "init", !.sub = nSubmitted] /\ mon.pc = "commit"
        /\ nCommitted' = mon.comm /\ UNCHANGED nInited
    BY <1>4 DEF MonCommit
  <2>2. mon' \in MonStates /\ nCommitted' \in Nat
    BY <1>t, <2>1 DEF MonStates
  <2>3. QED
    BY <1>4, <1>t, <2>1, <2>2 DEF MonCommit, threadvars
<1>5. QED
  BY <1>1, <1>2, <1>3, <1>4

\* Every step keeps the types.
LEMMA TypeStep == TypeOK /\ [Next]_vars => TypeOK'
<1> SUFFICES ASSUME TypeOK, [Next]_vars PROVE TypeOK'
  OBVIOUS
<1> USE RingAssumption, PipesAssumption, TicketAssumption
<1>s. \A t \in Nat : Slot(t) \in Slots
  BY SlotFacts
<1>1. CASE Draw
  BY <1>1 DEF TypeOK, Draw, threadvars, Tickets
<1>2. ASSUME NEW t \in Tickets, Fill(t) \/ Release(t) PROVE TypeOK'
  <2>1. CASE Fill(t)
    <3>1. PICK n \in 1 .. MaxNeed :
            ctx' = [ctx EXCEPT ![Slot(t)] = [tid |-> t, past |-> t - 1, steps |-> 0, need |-> n]]
      BY <2>1 DEF Fill
    <3>2. ctx' \in [Slots -> Contexts]
      <4>1. [tid |-> t, past |-> t - 1, steps |-> 0, need |-> n] \in Contexts
        BY DEF Tickets, Contexts
      <4>2. QED
        BY <3>1, <4>1 DEF TypeOK
    <3>3. client' \in [Tickets -> {"none", "drawn", "filling", "returned"}]
      BY <2>1 DEF TypeOK, Fill
    <3>4. QED
      BY <2>1, <3>2, <3>3 DEF TypeOK, Fill, threadvars
  <2>2. CASE Release(t)
    BY <2>2 DEF TypeOK, Release, threadvars, Done
  <2>3. QED
    BY <1>2, <2>1, <2>2
<1>3. CASE MonInit \/ MonCommit
  BY <1>3, MonitorEffect DEF TypeOK
<1>4. ASSUME NEW q \in Pipes, Pipe(q) PROVE TypeOK'
  <2>t. pipe[q] \in PipeStates /\ Slot(pipe[q].tid) \in Slots
    BY <1>s DEF TypeOK, PipeStates
  <2>1. CASE EntryBegin(q) \/ InnerBegin(q) \/ ExitBegin(q)
    <3>1. pipe' \in [Pipes -> PipeStates]
      BY <2>1, <2>t DEF EntryBegin, InnerBegin, ExitBegin, TypeOK, PipeStates
    <3>2. QED
      BY <2>1, <3>1 DEF TypeOK, EntryBegin, InnerBegin, ExitBegin
  <2>2. CASE HandOver(q)
    <3>1. pipe' \in [Pipes -> PipeStates]
      BY <2>2, <2>t DEF HandOver, NextTicket, TypeOK, PipeStates
    <3>2. Handle(Slot(pipe[q].tid))
      BY <2>2 DEF HandOver
    <3>3. ctx' \in [Slots -> Contexts]
      BY <3>2, <2>t, HandleEffect
    <3>4. pace' \in [Pipes -> Nat]
      BY <2>2, <2>t DEF TypeOK, HandOver, Advance, PipeStates
    <3>5. QED
      BY <2>2, <3>1, <3>3, <3>4 DEF TypeOK, HandOver
  <2>3. CASE ExitDone(q)
    <3>1. pipe' \in [Pipes -> PipeStates]
      BY <2>3, <2>t DEF ExitDone, NextTicket, TypeOK, PipeStates
    <3>2. QED
      BY <2>3, <2>t, <3>1 DEF TypeOK, ExitDone, Done
  <2>4. CASE ExitHandle(q)
    <3>1. pipe' \in [Pipes -> PipeStates]
      BY <2>4, <2>t DEF ExitHandle, TypeOK, PipeStates
    <3>2. Handle(Slot(pipe[q].tid))
      BY <2>4 DEF ExitHandle
    <3>3. ctx' \in [Slots -> Contexts]
      BY <3>2, <2>t, HandleEffect
    <3>4. QED
      BY <2>4, <3>1, <3>3 DEF TypeOK, ExitHandle
  <2>5. CASE Dispatch(q)
    <3>1. pipe' \in [Pipes -> PipeStates]
      BY <2>5, <2>t DEF Dispatch, NextTicket, TypeOK, PipeStates
    <3>2. worker' \in [Workers -> WorkerStates]
      BY <2>5, <2>t DEF Dispatch, TypeOK, PipeStates, WorkerStates
    <3>3. QED
      BY <2>5, <3>1, <3>2 DEF TypeOK, Dispatch
  <2>6. QED
    BY <1>4, <2>1, <2>2, <2>3, <2>4, <2>5 DEF Pipe
<1>5. ASSUME NEW w \in Workers, Worker(w) PROVE TypeOK'
  <2>t. worker[w] \in WorkerStates /\ Slot(worker[w].tid) \in Slots
    BY <1>s DEF TypeOK, WorkerStates
  <2>1. worker' \in [Workers -> WorkerStates]
    BY <1>5, <2>t
    DEF TypeOK, Worker, WorkerBegin, WorkerPush, WorkerStep, WorkerFinish, WorkerStates
  <2>2. stage' \in [Slots -> Nat]
    BY <1>5, <2>t
    DEF TypeOK, Worker, WorkerBegin, WorkerPush, WorkerStep, WorkerFinish, WorkerStates, Done
  <2>3. ctx' \in [Slots -> Contexts]
    BY <1>5, <2>t, HandleEffect
    DEF TypeOK, Worker, WorkerBegin, WorkerPush, WorkerStep, WorkerFinish
  <2>4. QED
    BY <1>5, <2>1, <2>2, <2>3
    DEF TypeOK, Worker, WorkerBegin, WorkerPush, WorkerStep, WorkerFinish
<1>6. CASE UNCHANGED vars
  BY <1>6 DEF TypeOK, vars
<1>7. QED
  BY <1>1, <1>2, <1>3, <1>4, <1>5, <1>6 DEF Next, Clients, Monitor

-----------------------------------------------------------------------------
(* The monitor and the clients.                                            *)

\* Slots of the window tell its tickets apart.
LEMMA WindowSlots ==
  ASSUME TypeOK, NEW t \in Window, NEW u \in Window, Slot(t) = Slot(u)
  PROVE  t = u
<1>1. t \in Int /\ u \in Int /\ t - u < B /\ u - t < B
  BY RingAssumption DEF TypeOK, Window
<1>2. QED
  BY <1>1, SlotFacts

\* A ticket taken into the initialised prefix and not committed is in its slot.
LEMMA InFlight ==
  ASSUME TypeOK, MonitorInv, ClientInv, RingInv,
         NEW t \in Nat, nCommitted < t, t <= mon.init
  PROVE  /\ t \in Tickets /\ t \in Window /\ Slot(t) \in Slots
         /\ client[t] = "returned" /\ ctx[Slot(t)].tid = t
         /\ ctx[Slot(t)].need \in 1 .. MaxNeed /\ Progress(t)
<1> USE RingAssumption, TicketAssumption
<1>1. t \in Tickets /\ Slot(t) \in Slots
  BY SlotFacts DEF TypeOK, MonitorInv, Tickets, MonStates
<1>2. client[t] = "returned" /\ t < nCommitted + B
  BY <1>1 DEF ClientInv
<1>3. t \in Window
  BY <1>2 DEF Window, TypeOK
<1>4. SlotOK(t)
  BY <1>3 DEF RingInv
<1>5. QED
  BY <1>1, <1>2, <1>3, <1>4 DEF SlotOK

\* n_inited_ follows the clients' releases: the slot of the next ticket shows 0
\* only when its own client has stored it, not from the ticket B before.
LEMMA NextReleased ==
  ASSUME TypeOK, MonitorInv, ClientInv, RingInv,
         mon.init < mon.sub, stage[Slot(mon.init + 1)] = 0
  PROVE  mon.init + 1 \in Tickets /\ client[mon.init + 1] = "returned"
<1> USE RingAssumption, TicketAssumption
<1> DEFINE t == mon.init + 1
<1>1. t \in Nat /\ t \in Tickets /\ nCommitted < t
  BY DEF TypeOK, MonitorInv, MonStates, Tickets
<1>2. t <= nCommitted + B
  <2>1. CASE mon.init = 0
    BY <2>1 DEF TypeOK
  <2>2. CASE mon.init # 0
    <3>1. mon.init \in Tickets
      BY <2>2, <1>1 DEF Tickets, TypeOK, MonStates
    <3>2. mon.init < nCommitted + B
      BY <3>1 DEF ClientInv, TypeOK, MonStates
    <3>3. QED
      BY <3>2 DEF TypeOK, MonStates
  <2>3. QED
    BY <2>1, <2>2
<1>3. t # nCommitted + B
  <2> SUFFICES ASSUME t = nCommitted + B PROVE FALSE
    OBVIOUS
  <2>1. nCommitted \in Window /\ nCommitted <= mon.comm
    BY DEF Window, TypeOK, MonitorInv
  <2>2. stage[Slot(nCommitted)] = Done
    BY <2>1 DEF RingInv, SlotOK
  <2>3. Slot(t) = Slot(nCommitted)
    BY SlotFacts DEF TypeOK
  <2>4. QED
    BY <2>2, <2>3 DEF Done
<1>4. SlotOK(t)
  BY <1>1, <1>2, <1>3 DEF RingInv, Window, TypeOK
<1>5. QED
  BY <1>1, <1>4 DEF SlotOK, Done

LEMMA MonitorStep == IInv /\ [Next]_vars => MonitorInv' /\ ClientInv'
<1> SUFFICES ASSUME IInv, [Next]_vars PROVE MonitorInv' /\ ClientInv'
  OBVIOUS
<1> USE RingAssumption, TicketAssumption
<1>t. /\ TypeOK /\ MonitorInv /\ ClientInv /\ RingInv
      /\ mon \in MonStates /\ nInited \in Nat /\ nCommitted \in Nat /\ nSubmitted \in Nat
  BY DEF IInv, TypeOK
<1>1. CASE Draw
  BY <1>1, <1>t DEF Draw, MonitorInv, ClientInv, Tickets, TypeOK, MonStates
<1>2. ASSUME NEW t \in Tickets, Fill(t) \/ Release(t) PROVE MonitorInv' /\ ClientInv'
  <2>1. MonitorInv'
    BY <1>2, <1>t DEF Fill, Release, MonitorInv
  <2>2. \/ client[t] = "drawn" /\ client' = [client EXCEPT ![t] = "filling"]
           /\ t < nCommitted + B
        \/ client[t] = "filling" /\ client' = [client EXCEPT ![t] = "returned"]
    BY <1>2 DEF Fill, Release
  <2>3. UNCHANGED <<nSubmitted, nCommitted, mon>>
    BY <1>2 DEF Fill, Release
  <2>4. QED
    BY <1>t, <2>1, <2>2, <2>3 DEF ClientInv, TypeOK
<1>3. CASE MonInit \/ MonCommit
  <2>1. UNCHANGED <<nSubmitted, client>> /\ mon' \in MonStates /\ nCommitted' \in Nat
    BY <1>3, <1>t, MonitorEffect
  <2>2. CASE /\ mon.pc = "init" /\ mon.init < mon.sub /\ stage[Slot(mon.init + 1)] = 0
             /\ mon' = [mon EXCEPT !.init = mon.init + 1]
             /\ UNCHANGED <<nInited, nCommitted>>
    <3>1. client[mon.init + 1] = "returned"
      BY <1>t, <2>2, NextReleased
    <3>2. QED
      BY <1>t, <2>1, <2>2, <3>1 DEF MonitorInv, ClientInv, MonStates, Tickets
  <2>3. CASE /\ mon.pc = "init" /\ mon' = [mon EXCEPT !.pc = "commit"]
             /\ nInited' = mon.init /\ UNCHANGED nCommitted
    BY <1>t, <2>1, <2>3 DEF MonitorInv, ClientInv, MonStates
  <2>4. CASE /\ mon.pc = "commit" /\ mon.comm < mon.init
             /\ mon' = [mon EXCEPT !.comm = mon.comm + 1]
             /\ UNCHANGED <<nInited, nCommitted>>
    BY <1>t, <2>1, <2>4 DEF MonitorInv, ClientInv, MonStates
  <2>5. CASE /\ mon.pc = "commit" /\ mon' = [mon EXCEPT !.pc = "init", !.sub = nSubmitted]
             /\ nCommitted' = mon.comm /\ UNCHANGED nInited
    <3>1. /\ mon'.pc = "init" /\ mon'.sub = nSubmitted /\ mon'.init = mon.init
          /\ mon'.comm = mon.comm
      BY <1>t, <2>5 DEF MonStates
    <3>2. QED
      BY <1>t, <2>1, <2>5, <3>1 DEF MonitorInv, ClientInv, MonStates, Tickets
  <2>6. QED
    BY <1>3, <1>t, <2>2, <2>3, <2>4, <2>5, MonitorEffect
<1>4. ASSUME NEW q \in Pipes, Pipe(q) PROVE MonitorInv' /\ ClientInv'
  BY <1>4, <1>t
  DEF Pipe, EntryBegin, InnerBegin, HandOver, ExitDone, ExitBegin, ExitHandle, Dispatch,
      MonitorInv, ClientInv
<1>5. ASSUME NEW w \in Workers, Worker(w) PROVE MonitorInv' /\ ClientInv'
  BY <1>5, <1>t
  DEF Worker, WorkerBegin, WorkerStep, WorkerFinish, WorkerPush, MonitorInv, ClientInv
<1>6. CASE UNCHANGED vars
  BY <1>6, <1>t DEF vars, MonitorInv, ClientInv
<1>7. QED
  BY <1>1, <1>2, <1>3, <1>4, <1>5, <1>6 DEF Next, Clients, Monitor

-----------------------------------------------------------------------------
(* The pipe threads.                                                       *)

\* A thread that may handle its ticket comes after every thread of a lower rank.
LEMMA Ready ==
  ASSUME TypeOK, PipeInv, NEW q \in Pipes, Rank(q, pipe[q].tid) # 0,
         pace[q] >= pipe[q].tid
  PROVE  /\ pipe[q].tid <= nInited
         /\ \A p \in Pipes : Rank(p, pipe[q].tid) < Rank(q, pipe[q].tid)
                             => pipe[q].tid < pipe[p].tid
<1> DEFINE t == pipe[q].tid
<1>t. /\ t \in Nat /\ t \in Int /\ pace[q] \in Nat /\ nInited \in Nat /\ Last \in Nat
      /\ \A p \in Pipes : pipe[p].tid \in Nat /\ Rank(p, t) \in 0 .. Last
  BY RankRange, PipesAssumption DEF TypeOK, PipeStates, Last
<1> HIDE DEF t
<1>1. Rank(q, t) - 1 \in 0 .. Last /\ Rank(q, t) <= Last
  BY <1>t DEF t
<1>2. PICK p \in Pipes : Rank(p, t) = Rank(q, t) - 1
  BY <1>t, <1>1, RankOnto
<1>3. Follow(p) \in Pipes /\ Rank(Follow(p), t) = Rank(q, t)
  BY <1>t, <1>1, <1>2, FollowFacts
<1>4. Follow(p) = q
  BY <1>t, <1>3, RankInjective
<1>5. t < pipe[p].tid /\ pipe[p].tid - 1 <= nInited
  BY <1>t, <1>4 DEF PipeInv, t
<1>6. \A r \in Pipes : Rank(r, t) <= Rank(p, t) => t < pipe[r].tid
  BY <1>t, <1>5 DEF PipeInv
<1>7. \A r \in Pipes : Rank(r, t) < Rank(q, t) => t < pipe[r].tid
  BY <1>t, <1>1, <1>2, <1>6
<1>8. QED
  BY <1>t, <1>5, <1>7 DEF t

LEMMA PipeStep == IInv /\ [Next]_vars => PipeInv'
<1> SUFFICES ASSUME IInv, [Next]_vars PROVE PipeInv'
  OBVIOUS
<1>t. /\ TypeOK /\ MonitorInv /\ ClientInv /\ RingInv /\ PipeInv
      /\ mon \in MonStates /\ nInited \in Nat /\ nCommitted \in Nat
      /\ pipe \in [Pipes -> PipeStates] /\ pace \in [Pipes -> Nat]
      /\ \A q \in Pipes : pipe[q].tid \in Nat \ {0} /\ Follow(q) \in Pipes
  BY FollowFacts DEF IInv, TypeOK, PipeStates
<1>0. ASSUME UNCHANGED <<pipe, pace>>, nInited' \in Nat, nInited <= nInited',
             \A q \in Pipes : mon'.comm < pipe[q].tid
      PROVE  PipeInv'
  <2>1. \A q \in Pipes :
          /\ mon'.comm < pipe[q].tid /\ pipe[q].tid - 1 <= nInited'
          /\ pace[Follow(q)] < pipe[q].tid
          /\ pipe[q].pc # "wait" =>
               /\ pipe[q].tid <= nInited'
               /\ Rank(q, pipe[q].tid) # 0 => pace[q] >= pipe[q].tid
          /\ pipe[q].pc = "pop" => Rank(q, pipe[q].tid) = Last
    BY <1>0, <1>t DEF PipeInv
  <2>2. QED
    BY <1>0, <1>t, <2>1 DEF PipeInv, Rank
<1>1. CASE Draw
  BY <1>0, <1>1, <1>t DEF Draw, threadvars, PipeInv
<1>2. ASSUME NEW t \in Tickets, Fill(t) \/ Release(t) PROVE PipeInv'
  BY <1>0, <1>2, <1>t DEF Fill, Release, threadvars, PipeInv
<1>3. CASE MonInit \/ MonCommit
  <2>1. UNCHANGED <<pipe, pace>> /\ mon' \in MonStates /\ nInited' \in Nat
    BY <1>3, <1>t, MonitorEffect
  <2>2. nInited <= nInited'
    BY <1>3, <1>t, MonitorEffect DEF MonitorInv
  <2>3. \/ mon'.comm = mon.comm
        \/ /\ mon'.comm = mon.comm + 1 /\ mon.comm < mon.init
           /\ stage[Slot(mon.comm + 1)] = Done
    BY <1>3, <1>t, MonitorEffect DEF MonStates
  <2>4. ASSUME mon'.comm = mon.comm + 1, mon.comm < mon.init,
               stage[Slot(mon.comm + 1)] = Done
        PROVE  \A q \in Pipes : mon.comm + 1 < pipe[q].tid
    <3>1. /\ mon.comm + 1 \in Nat /\ nCommitted < mon.comm + 1
          /\ mon.comm + 1 <= mon.init
      BY <1>t, <2>4 DEF MonStates, MonitorInv
    <3>2. Progress(mon.comm + 1)
      BY <1>t, <3>1, InFlight
    <3>3. QED
      BY <2>4, <3>2 DEF Progress
  <2>5. \A q \in Pipes : mon'.comm < pipe[q].tid
    BY <1>t, <2>3, <2>4 DEF PipeInv
  <2>6. QED
    BY <1>0, <2>1, <2>2, <2>5
<1>4. ASSUME NEW q \in Pipes, Pipe(q) PROVE PipeInv'
  <2> DEFINE t == pipe[q].tid
             ready == Rank(q, t) = 0 \/ pace[q] >= t
  <2>t. /\ t \in Nat \ {0} /\ t \in Int /\ nInited' = nInited /\ mon' = mon
        /\ (EntryOf(t) = q <=> Rank(q, t) = 0) /\ (ExitOf(t) = q <=> Rank(q, t) = Last)
    BY <1>4, <1>t, RoleFacts
    DEF Pipe, EntryBegin, InnerBegin, HandOver, ExitDone, ExitBegin, ExitHandle, Dispatch
  <2>1. CASE EntryBegin(q) \/ InnerBegin(q) \/ ExitBegin(q) \/ ExitHandle(q)
    <3>1. PICK pc \in {"run", "pop"} :
            /\ pipe' = [pipe EXCEPT ![q].pc = pc]
            /\ pc = "pop" => Rank(q, t) = Last
      BY <2>1, <2>t DEF EntryBegin, InnerBegin, ExitBegin, ExitHandle
    <3>2. UNCHANGED pace
      BY <2>1 DEF EntryBegin, InnerBegin, ExitBegin, ExitHandle
    <3>3. ready
      BY <2>1, <1>t, <2>t DEF EntryBegin, InnerBegin, ExitBegin, ExitHandle, PipeInv
    <3>4. t <= nInited
      <4>1. CASE Rank(q, t) = 0
        BY <2>1, <1>t, <2>t, <4>1, PipesAssumption
        DEF EntryBegin, InnerBegin, ExitBegin, ExitHandle, PipeInv, Last
      <4>2. CASE Rank(q, t) # 0
        BY <1>t, <3>3, <4>2, Ready
      <4>3. QED
        BY <4>1, <4>2
    <3>5. /\ \A p \in Pipes : pipe'[p].tid = pipe[p].tid
          /\ \A p \in Pipes \ {q} : pipe'[p] = pipe[p]
          /\ pipe'[q].pc = pc
      BY <3>1, <1>t DEF PipeStates
    <3>6. QED
      BY <1>t, <2>t, <3>1, <3>2, <3>3, <3>4, <3>5 DEF PipeInv, Rank
  <2>2. CASE HandOver(q) \/ ExitDone(q) \/ Dispatch(q)
    <3>1. /\ pipe' = [pipe EXCEPT ![q] = [tid |-> t + 1, pc |-> "wait"]]
          /\ pace' = pace \/ pace' = [pace EXCEPT ![Follow(q)] = t]
      BY <2>2 DEF HandOver, ExitDone, Dispatch, NextTicket, Advance
    <3>2. ready
      BY <2>2, <1>t, <2>t DEF HandOver, ExitDone, Dispatch, PipeInv
    <3>3. t <= nInited
      <4>1. CASE Rank(q, t) # 0
        BY <1>t, <3>2, <4>1, Ready
      <4>2. CASE Rank(q, t) = 0 /\ (HandOver(q) \/ Dispatch(q))
        BY <1>t, <4>2 DEF HandOver, Dispatch, PipeInv
      <4>3. CASE Rank(q, t) = 0 /\ ExitDone(q)
        <5>1. Rank(q, t) = Last
          BY <4>3, <2>t DEF ExitDone
        <5>2. QED
          BY <4>3, <5>1, PipesAssumption DEF Last
      <4>4. QED
        BY <2>2, <4>1, <4>2, <4>3
    <3>4. \A p \in Pipes : Rank(p, t) <= Rank(q, t) => t < pipe'[p].tid
      <4> SUFFICES ASSUME NEW p \in Pipes, Rank(p, t) <= Rank(q, t)
                   PROVE  t < pipe'[p].tid
        OBVIOUS
      <4>1. CASE p = q
        BY <4>1, <3>1, <1>t, <2>t DEF PipeStates
      <4>2. CASE p # q
        <5>1. Rank(p, t) \in Nat /\ Rank(q, t) \in Nat /\ Rank(p, t) # Rank(q, t)
          BY <4>2, <2>t, RankRange, RankInjective, PipesAssumption DEF Last
        <5>2. Rank(p, t) < Rank(q, t) /\ Rank(q, t) # 0
          BY <5>1
        <5>3. t < pipe[p].tid
          BY <1>t, <3>2, <5>2, Ready
        <5>4. QED
          BY <4>2, <5>3, <3>1, <1>t
      <4>3. QED
        BY <4>1, <4>2
    <3>5. /\ \A p \in Pipes \ {q} : pipe'[p] = pipe[p]
          /\ pipe'[q].tid = t + 1 /\ pipe'[q].pc = "wait"
      BY <3>1, <1>t DEF PipeStates
    <3>6. \A p \in Pipes : pipe'[p].tid \in Nat /\ pipe[p].tid <= pipe'[p].tid
      BY <1>t, <2>t, <3>5
    <3>7. \A p \in Pipes : pace'[Follow(p)] < pipe'[p].tid /\ pace'[p] >= pace[p]
      <4> SUFFICES ASSUME NEW p \in Pipes
                   PROVE  pace'[Follow(p)] < pipe'[p].tid /\ pace'[p] >= pace[p]
        OBVIOUS
      <4>1. pace[Follow(p)] < pipe[p].tid /\ pace[Follow(q)] < t
        BY <1>t DEF PipeInv
      <4>2. Follow(p) = Follow(q) => p = q
        BY FollowFacts
      <4>3. QED
        BY <1>t, <2>t, <3>1, <3>5, <3>6, <4>1, <4>2
    <3>8. \A p, r \in Pipes : \A u \in Nat :
            u < pipe'[r].tid /\ Rank(p, u) <= Rank(r, u) => u < pipe'[p].tid
      <4> SUFFICES ASSUME NEW p \in Pipes, NEW r \in Pipes, NEW u \in Nat,
                          u < pipe'[r].tid, Rank(p, u) <= Rank(r, u)
                   PROVE  u < pipe'[p].tid
        OBVIOUS
      <4>1. CASE u < pipe[r].tid
        <5>1. u < pipe[p].tid
          BY <1>t, <4>1 DEF PipeInv
        <5>2. QED
          BY <1>t, <3>6, <5>1
      <4>2. CASE r = q /\ u = t
        BY <3>4, <4>2
      <4>3. QED
        BY <1>t, <2>t, <3>5, <4>1, <4>2
    <3>9. \A p \in Pipes :
            /\ mon'.comm < pipe'[p].tid /\ pipe'[p].tid - 1 <= nInited'
            /\ pipe'[p].pc # "wait" =>
                 /\ pipe'[p].tid <= nInited'
                 /\ Rank(p, pipe'[p].tid) # 0 => pace'[p] >= pipe'[p].tid
            /\ pipe'[p].pc = "pop" => Rank(p, pipe'[p].tid) = Last
      <4> SUFFICES ASSUME NEW p \in Pipes
                   PROVE  /\ mon'.comm < pipe'[p].tid /\ pipe'[p].tid - 1 <= nInited'
                          /\ pipe'[p].pc # "wait" =>
                               /\ pipe'[p].tid <= nInited'
                               /\ Rank(p, pipe'[p].tid) # 0 => pace'[p] >= pipe'[p].tid
                          /\ pipe'[p].pc = "pop" => Rank(p, pipe'[p].tid) = Last
        OBVIOUS
      <4>1. CASE p = q
        BY <1>t, <2>t, <3>3, <3>5, <4>1 DEF PipeInv, MonStates
      <4>2. CASE p # q
        <5>1. pipe'[p] = pipe[p] /\ pace'[p] >= pace[p] /\ pace'[p] \in Nat
          BY <1>t, <2>t, <3>1, <3>5, <3>7, <4>2
        <5>2. QED
          BY <1>t, <2>t, <5>1 DEF PipeInv
      <4>3. QED
        BY <4>1, <4>2
    <3>10. QED
      BY <3>7, <3>8, <3>9 DEF PipeInv, Rank, Last
  <2>3. QED
    BY <1>4, <2>1, <2>2 DEF Pipe
<1>5. ASSUME NEW w \in Workers, Worker(w) PROVE PipeInv'
  BY <1>0, <1>5, <1>t
  DEF Worker, WorkerBegin, WorkerStep, WorkerFinish, WorkerPush, PipeInv
<1>6. CASE UNCHANGED vars
  BY <1>0, <1>6, <1>t DEF vars, PipeInv
<1>7. QED
  BY <1>1, <1>2, <1>3, <1>4, <1>5, <1>6 DEF Next, Clients, Monitor

-----------------------------------------------------------------------------
(* The workers.                                                            *)

\* Tickets in flight have slots of their own.
LEMMA OtherSlot ==
  ASSUME TypeOK, MonitorInv, ClientInv, RingInv,
         NEW t \in Nat, nCommitted < t, t <= mon.init,
         NEW u \in Nat, u # t, \/ nCommitted < u /\ u <= mon.init
                               \/ u \in Window
  PROVE  Slot(u) # Slot(t)
<1>1. t \in Window /\ u \in Window
  BY InFlight
<1>2. QED
  BY <1>1, WindowSlots

\* The ticket of a pipe thread that is not waiting is in flight.
LEMMA Running ==
  ASSUME TypeOK, MonitorInv, PipeInv, NEW q \in Pipes, pipe[q].pc # "wait"
  PROVE  /\ pipe[q].tid \in Nat /\ nCommitted < pipe[q].tid
         /\ mon.comm < pipe[q].tid /\ pipe[q].tid <= mon.init
BY DEF TypeOK, MonitorInv, PipeInv, MonStates, PipeStates

\* So is the ticket of a busy worker.
LEMMA Working ==
  ASSUME TypeOK, MonitorInv, WorkerInv, NEW w \in Workers, Busy(w)
  PROVE  /\ worker[w].tid \in Nat /\ nCommitted < worker[w].tid
         /\ mon.comm < worker[w].tid /\ worker[w].tid <= mon.init
BY DEF TypeOK, MonitorInv, WorkerInv, WorkerOK, MonStates, WorkerStates

\* A worker keeps its ticket while others work on theirs.
LEMMA WorkerFrame ==
  ASSUME TypeOK, MonitorInv, PipeInv, WorkerInv, NEW w \in Workers, Busy(w),
         worker'[w] = worker[w], ctx'[Slot(worker[w].tid)] = ctx[Slot(worker[w].tid)],
         mon'.comm < worker[w].tid, nInited <= nInited', nInited' \in Nat,
         \A q \in Pipes : pipe'[q].tid \in Nat /\ pipe[q].tid <= pipe'[q].tid
  PROVE  Busy(w)' /\ WorkerOK(w)'
<1>1. WorkerOK(w)
  BY DEF WorkerInv
<1>2. /\ worker[w].tid \in Nat /\ nInited \in Nat
      /\ \A q \in Pipes : pipe[q].tid \in Nat
  BY DEF TypeOK, WorkerStates, PipeStates
<1>3. QED
  BY <1>1, <1>2 DEF WorkerOK, Busy, OpDone, Slot

LEMMA WorkersStep == IInv /\ [Next]_vars => WorkerInv'
<1> SUFFICES ASSUME IInv, [Next]_vars PROVE WorkerInv'
  OBVIOUS
<1>t. /\ TypeOK /\ MonitorInv /\ ClientInv /\ RingInv /\ PipeInv /\ WorkerInv
      /\ mon \in MonStates /\ nInited \in Nat /\ nCommitted \in Nat
      /\ pipe \in [Pipes -> PipeStates] /\ worker \in [Workers -> WorkerStates]
      /\ \A q \in Pipes : pipe[q].tid \in Nat
      /\ \A w \in Workers : worker[w].tid \in Nat
  BY DEF IInv, TypeOK, PipeStates, WorkerStates
<1>w. \A w \in Workers : Busy(w) =>
        /\ worker[w].tid \in Nat /\ nCommitted < worker[w].tid
        /\ mon.comm < worker[w].tid /\ worker[w].tid <= mon.init
  BY <1>t, Working
\* The workers do not move.
<1>0. ASSUME UNCHANGED worker,
             \A w \in Workers : Busy(w) =>
               /\ ctx'[Slot(worker[w].tid)] = ctx[Slot(worker[w].tid)]
               /\ mon'.comm < worker[w].tid,
             nInited <= nInited', nInited' \in Nat,
             \A q \in Pipes : pipe'[q].tid \in Nat /\ pipe[q].tid <= pipe'[q].tid
      PROVE  WorkerInv'
  <2>1. \A w \in Workers : Busy(w) => WorkerOK(w)'
    BY <1>0, <1>t, WorkerFrame
  <2>2. QED
    BY <1>0, <1>t, <2>1 DEF WorkerInv, Busy
<1>1. CASE Draw
  BY <1>0, <1>1, <1>t, <1>w DEF Draw, threadvars
<1>2. ASSUME NEW t \in Tickets, Fill(t) \/ Release(t) PROVE WorkerInv'
  <2>1. UNCHANGED <<worker, mon, nInited, pipe>>
    BY <1>2 DEF Fill, Release, threadvars
  <2>2. ASSUME Fill(t), NEW w \in Workers, Busy(w)
        PROVE  ctx'[Slot(worker[w].tid)] = ctx[Slot(worker[w].tid)]
    <3>1. t \in Window /\ t # worker[w].tid /\ t \in Nat
      BY <1>t, <1>w, <2>2, RingAssumption, TicketAssumption
      DEF Fill, ClientInv, Window, MonitorInv, MonStates, Tickets
    <3>2. Slot(t) # Slot(worker[w].tid) /\ Slot(worker[w].tid) \in Slots
      BY <1>t, <1>w, <2>2, <3>1, OtherSlot, InFlight
    <3>3. PICK n \in 1 .. MaxNeed :
            ctx' = [ctx EXCEPT ![Slot(t)] =
                      [tid |-> t, past |-> t - 1, steps |-> 0, need |-> n]]
      BY <2>2 DEF Fill
    <3>4. QED
      BY <3>2, <3>3, <1>t DEF TypeOK
  <2>3. Release(t) => UNCHANGED ctx
    BY DEF Release
  <2>4. \A w \in Workers : Busy(w) =>
          /\ ctx'[Slot(worker[w].tid)] = ctx[Slot(worker[w].tid)]
          /\ mon'.comm < worker[w].tid
    BY <1>2, <1>w, <2>1, <2>2, <2>3
  <2>5. QED
    BY <1>0, <1>t, <2>1, <2>4
<1>3. CASE MonInit \/ MonCommit
  <2>1. UNCHANGED <<worker, ctx, pipe>> /\ nInited' \in Nat /\ nInited <= nInited'
    BY <1>3, <1>t, MonitorEffect DEF MonitorInv
  <2>2. \/ mon'.comm = mon.comm
        \/ /\ mon'.comm = mon.comm + 1 /\ mon.comm < mon.init
           /\ stage[Slot(mon.comm + 1)] = Done
    BY <1>3, <1>t, MonitorEffect DEF MonStates
  <2>3. ASSUME mon.comm < mon.init, stage[Slot(mon.comm + 1)] = Done
        PROVE  \A w \in Workers : Busy(w) => worker[w].tid # mon.comm + 1
    <3>1. /\ mon.comm + 1 \in Nat /\ nCommitted < mon.comm + 1
          /\ mon.comm + 1 <= mon.init
      BY <1>t, <2>3 DEF MonStates, MonitorInv
    <3>2. Progress(mon.comm + 1)
      BY <1>t, <3>1, InFlight
    <3>3. QED
      BY <2>3, <3>2 DEF Progress
  <2>4. \A w \in Workers : Busy(w) => mon'.comm < worker[w].tid
    BY <1>t, <1>w, <2>2, <2>3 DEF MonStates
  <2>5. QED
    BY <1>0, <1>t, <2>1, <2>4
<1>4. ASSUME NEW q \in Pipes, Pipe(q) PROVE WorkerInv'
  <2> DEFINE t == pipe[q].tid
  <2>1. /\ UNCHANGED <<mon, nInited>> /\ t \in Nat
        /\ \A p \in Pipes : pipe'[p].tid \in Nat /\ pipe[p].tid <= pipe'[p].tid
    BY <1>4, <1>t
    DEF Pipe, EntryBegin, InnerBegin, HandOver, ExitDone, ExitBegin, ExitHandle, Dispatch,
        NextTicket, PipeStates
  <2>2. CASE UNCHANGED <<worker, ctx>>
    BY <1>0, <1>t, <1>w, <2>1, <2>2
  <2>3. CASE HandOver(q) \/ ExitHandle(q)
    <3>1. Handle(Slot(t)) /\ UNCHANGED worker /\ pipe[q].pc # "wait"
      BY <2>3 DEF HandOver, ExitHandle
    <3>2. nCommitted < t /\ t <= mon.init /\ Slot(t) \in Slots
      BY <1>t, <3>1, Running, InFlight
    <3>3. \A w \in Workers : Busy(w) => worker[w].tid < t
      BY <1>t DEF WorkerInv, WorkerOK
    <3>4. \A w \in Workers : Busy(w) => /\ Slot(worker[w].tid) # Slot(t)
                                        /\ Slot(worker[w].tid) \in Slots
      BY <1>t, <1>w, <2>1, <3>2, <3>3, OtherSlot, InFlight
    <3>5. \A w \in Workers : Busy(w) =>
            ctx'[Slot(worker[w].tid)] = ctx[Slot(worker[w].tid)]
      BY <1>t, <3>1, <3>2, <3>4, HandleEffect
    <3>6. QED
      BY <1>0, <1>t, <1>w, <2>1, <3>1, <3>5
  <2>4. CASE Dispatch(q)
    <3>1. PICK w \in available :
            worker' = [worker EXCEPT ![w] = [tid |-> t, pc |-> "wait", stage |-> 1]]
      BY <2>4 DEF Dispatch
    <3>2. /\ w \in Workers /\ worker'[w] = [tid |-> t, pc |-> "wait", stage |-> 1]
          /\ \A v \in Workers \ {w} : worker'[v] = worker[v]
      BY <1>t, <3>1 DEF TypeOK
    <3>3. pipe[q].pc = "pop" /\ UNCHANGED ctx
      BY <2>4 DEF Dispatch
    <3>4. nCommitted < t /\ mon.comm < t /\ t <= mon.init
      BY <1>t, <3>3, Running
    <3>5. t <= nInited /\ Rank(q, t) = Last
      BY <1>t, <3>3 DEF PipeInv
    <3>6. \A p \in Pipes : t < pipe'[p].tid
      <4>1. pipe'[q].tid = t + 1 /\ \A p \in Pipes \ {q} : pipe'[p] = pipe[p]
        BY <2>4, <1>t DEF Dispatch, NextTicket, PipeStates
      <4>2. \A p \in Pipes \ {q} : Rank(p, t) <= Last /\ Rank(p, t) # Last
        BY <2>1, <3>5, RankRange, RankInjective
      <4>3. \A p \in Pipes \ {q} : t < pipe[p].tid
        <5>1. Last # 0 => pace[q] >= t
          BY <1>t, <3>3, <3>5 DEF PipeInv
        <5>2. Last \in Nat \ {0} /\ \A p \in Pipes : Rank(p, t) \in Nat
          BY PipesAssumption, <2>1, RankRange DEF Last
        <5>3. QED
          BY <1>t, <3>5, <4>2, <5>1, <5>2, Ready
      <4>4. QED
        BY <2>1, <4>1, <4>3
    <3>7. WorkerOK(w)'
      <4>1. /\ Slot(t) \in Slots /\ Progress(t) /\ ctx[Slot(t)] \in Contexts
        BY <1>t, <2>1, <3>4, InFlight DEF TypeOK
      <4>2. /\ ctx[Slot(t)].steps <= NPipes
            /\ OpDone(Slot(t)) \/ ctx[Slot(t)].steps = NPipes
        BY <3>3, <3>5, <4>1, PipesAssumption DEF Progress, Passed, Last, Contexts
      <4>3. /\ ctx'[Slot(t)].steps <= NPipes + 1 - 1
            /\ \/ ctx'[Slot(t)].steps = ctx'[Slot(t)].need
               \/ ctx'[Slot(t)].steps = NPipes + 1 - 1
        BY <3>3, <4>2, <4>1, PipesAssumption DEF OpDone
      <4>4. QED
        BY <2>1, <3>2, <3>4, <3>5, <3>6, <4>3 DEF WorkerOK, OpDone, Slot
    <3>8. \A v \in Workers \ {w} : Busy(v)' => Busy(v) /\ WorkerOK(v)' /\ worker[v].tid < t
      <4>1. \A v \in Workers \ {w} : Busy(v)' => Busy(v)
        BY <3>2 DEF Busy
      <4>2. \A v \in Workers : Busy(v) => worker[v].tid < t
        BY <1>t DEF WorkerInv, WorkerOK
      <4>3. \A v \in Workers \ {w} : Busy(v) => WorkerOK(v)'
        BY <1>t, <1>w, <2>1, <3>2, <3>3, WorkerFrame
      <4>4. QED
        BY <4>1, <4>2, <4>3
    <3>9. QED
      BY <1>t, <2>1, <3>2, <3>7, <3>8 DEF WorkerInv, Busy
  <2>5. QED
    BY <1>4, <2>2, <2>3, <2>4
    DEF Pipe, EntryBegin, InnerBegin, ExitDone, ExitBegin
<1>5. ASSUME NEW w \in Workers, Worker(w) PROVE WorkerInv'
  <2> DEFINE u == worker[w].tid
             s == Slot(u)
  <2>1. UNCHANGED <<mon, nInited, pipe>> /\ u \in Nat /\ s \in Slots
    BY <1>5, <1>t, SlotFacts DEF Worker, WorkerBegin, WorkerStep, WorkerFinish, WorkerPush
  <2>2. \A v \in Workers \ {w} : worker'[v] = worker[v]
    BY <1>5, <1>t DEF Worker, WorkerBegin, WorkerStep, WorkerFinish, WorkerPush
  <2>3. \A v \in Workers \ {w} : Busy(v) =>
          ctx'[Slot(worker[v].tid)] = ctx[Slot(worker[v].tid)]
    <3>1. CASE UNCHANGED ctx
      BY <3>1
    <3>2. CASE WorkerStep(w)
      <4>1. Handle(s) /\ Busy(w)
        BY <3>2 DEF WorkerStep, Busy
      <4>2. \A v \in Workers \ {w} : Busy(v) => worker[v].tid # u
        BY <1>t, <4>1 DEF WorkerInv
      <4>3. \A v \in Workers \ {w} : Busy(v) => /\ Slot(worker[v].tid) # s
                                                /\ Slot(worker[v].tid) \in Slots
        BY <1>t, <1>w, <4>1, <4>2, OtherSlot, InFlight
      <4>4. QED
        BY <1>t, <2>1, <4>1, <4>3, HandleEffect
    <3>3. QED
      BY <1>5, <3>1, <3>2 DEF Worker, WorkerBegin, WorkerFinish, WorkerPush
  <2>4. \A v \in Workers \ {w} : Busy(v)' => Busy(v) /\ WorkerOK(v)'
    <3>1. \A v \in Workers \ {w} : Busy(v)' => Busy(v)
      BY <2>2 DEF Busy
    <3>2. \A v \in Workers \ {w} : Busy(v) => WorkerOK(v)'
      BY <1>t, <1>w, <2>1, <2>2, <2>3, WorkerFrame
    <3>3. QED
      BY <3>1, <3>2
  <2>5. Busy(w)' => Busy(w) /\ worker'[w].tid = u /\ WorkerOK(w)'
    <3>1. CASE WorkerBegin(w)
      <4>1. /\ worker'[w].tid = u /\ worker'[w].stage = worker[w].stage
            /\ Busy(w) /\ ~ OpDone(s) /\ UNCHANGED ctx
        BY <1>t, <3>1 DEF WorkerBegin, Busy, WorkerStates
      <4>2. WorkerOK(w)
        BY <1>t, <4>1 DEF WorkerInv
      <4>3. QED
        BY <2>1, <4>1, <4>2 DEF WorkerOK, OpDone, Slot
    <3>2. CASE WorkerStep(w)
      <4>1. /\ worker'[w].tid = u /\ worker'[w].stage = worker[w].stage + 1
            /\ worker'[w].pc = "wait" /\ Handle(s) /\ Busy(w) /\ worker[w].pc = "run"
        BY <1>t, <3>2 DEF WorkerStep, Busy, WorkerStates
      <4>2. WorkerOK(w)
        BY <1>t, <4>1 DEF WorkerInv
      <4>3. ctx'[s].steps = ctx[s].steps + 1 /\ ctx'[s] \in Contexts
        BY <1>t, <2>1, <4>1, <4>2, HandleEffect DEF WorkerOK
      <4>4. /\ worker[w].stage \in Nat /\ ctx[s].steps \in Nat
            /\ ctx[s].steps = NPipes + worker[w].stage - 1
        BY <1>t, <2>1, <4>1, <4>2 DEF WorkerOK, WorkerStates, TypeOK, Contexts
      <4>5. /\ ctx'[s].steps = NPipes + worker'[w].stage - 1 /\ worker'[w].stage >= 1
            /\ ctx'[s].steps \in Nat
        BY <4>1, <4>3, <4>4, PipesAssumption
      <4>6. QED
        BY <2>1, <4>1, <4>2, <4>5 DEF WorkerOK, OpDone, Slot
    <3>3. CASE WorkerFinish(w) \/ WorkerPush(w)
      BY <1>t, <3>3 DEF WorkerFinish, WorkerPush, Busy
    <3>4. QED
      BY <1>5, <3>1, <3>2, <3>3 DEF Worker
  <2>6. QED
    BY <1>t, <2>2, <2>4, <2>5 DEF WorkerInv
<1>6. CASE UNCHANGED vars
  BY <1>0, <1>6, <1>t, <1>w DEF vars
<1>7. QED
  BY <1>1, <1>2, <1>3, <1>4, <1>5, <1>6 DEF Next, Clients, Monitor

-----------------------------------------------------------------------------
(* The ring.                                                               *)

\* A slot nobody touches, of a ticket nobody passes, stays as it is.
LEMMA SlotFrame ==
  ASSUME TypeOK, NEW t \in Nat, SlotOK(t),
         ctx'[Slot(t)] = ctx[Slot(t)], stage'[Slot(t)] = stage[Slot(t)],
         mon'.comm = mon.comm, nSubmitted' = nSubmitted,
         t \in Tickets => client'[t] = client[t],
         \A q \in Pipes : Passed(q, t)' <=> Passed(q, t),
         \A q \in Pipes : pipe'[q].tid = t => pipe[q].tid = t \/ ~ Passed(q, t),
         \A q \in Pipes : t < pipe[q].tid => t < pipe'[q].tid,
         \A w \in Workers : Busy(w)' /\ worker'[w].tid = t => Busy(w) /\ worker[w].tid = t
  PROVE  SlotOK(t)'
<1>1. Progress(t) => Progress(t)'
  <2> SUFFICES ASSUME Progress(t) PROVE Progress(t)'
    OBVIOUS
  <2>1. ctx[Slot(t)].steps \in Nat /\ \A q \in Pipes : Rank(q, t) \in Nat
    <3>1. Slot(t) \in Slots
      BY SlotFacts
    <3>2. \A q \in Pipes : Rank(q, t) \in Nat
      BY RankRange, PipesAssumption DEF Last
    <3>3. QED
      BY <3>1, <3>2 DEF TypeOK, Contexts
  <2>2. \A q \in Pipes : IF Passed(q, t)' THEN OpDone(Slot(t)) \/ ctx[Slot(t)].steps > Rank(q, t)
                                          ELSE ctx[Slot(t)].steps <= Rank(q, t)
    BY DEF Progress
  <2>3. \A q \in Pipes : pipe'[q].tid = t => ctx[Slot(t)].steps <= Rank(q, t) + 1
    BY <2>1 DEF Progress
  <2>4. stage[Slot(t)] = Done => /\ OpDone(Slot(t))
                                 /\ \A q \in Pipes : t < pipe'[q].tid
                                 /\ \A w \in Workers : Busy(w)' => worker'[w].tid # t
    BY DEF Progress
  <2>5. OpDone(Slot(t))' <=> OpDone(Slot(t))
    BY DEF OpDone, Slot
  <2>6. QED
    BY <2>2, <2>3, <2>4, <2>5 DEF Progress, Rank, Slot, Done
<1>2. QED
  BY <1>1 DEF SlotOK, Slot, Done, Tickets

\* The tickets a pipe thread does not work on see it pass neither sooner nor later.
LEMMA PassFrame ==
  ASSUME TypeOK, NEW q \in Pipes, NEW t \in Nat, t # pipe[q].tid,
         \A p \in Pipes \ {q} : pipe'[p] = pipe[p],
         \/ pipe'[q].tid = pipe[q].tid
         \/ pipe'[q].tid = pipe[q].tid + 1 /\ pipe'[q].pc = "wait"
  PROVE  /\ \A p \in Pipes : Passed(p, t)' <=> Passed(p, t)
         /\ \A p \in Pipes : pipe'[p].tid = t => pipe[p].tid = t \/ ~ Passed(p, t)
         /\ \A p \in Pipes : t < pipe[p].tid => t < pipe'[p].tid
<1>1. \A p \in Pipes : pipe[p].tid \in Nat
  BY DEF TypeOK, PipeStates
<1>2. QED
  BY <1>1 DEF Passed

\* Admission: Fill and Release touch the slot of their own ticket only.
LEMMA ClientSlots ==
  ASSUME IInv, NEW u \in Tickets, Fill(u) \/ Release(u)
  PROVE  RingInv'
<1> USE RingAssumption, TicketAssumption
<1>t. /\ TypeOK /\ MonitorInv /\ ClientInv /\ RingInv /\ PipeInv /\ WorkerInv
      /\ mon \in MonStates /\ nCommitted \in Nat /\ nSubmitted \in Nat /\ nInited \in Nat
      /\ u \in Nat /\ Slot(u) \in Slots
  <2>1. u \in Nat /\ Slot(u) \in Slots
    BY SlotFacts DEF Tickets
  <2>2. QED
    BY <2>1 DEF IInv, TypeOK
<1>u. UNCHANGED <<nSubmitted, nInited, nCommitted, mon, pipe, pace, worker>>
  BY DEF Fill, Release, threadvars
<1>1. mon.init < u /\ u < nCommitted + B /\ u <= nSubmitted
  BY <1>t DEF Fill, Release, ClientInv, MonStates
<1>2. u \in Window
  BY <1>t, <1>1 DEF Window, MonitorInv, MonStates
<1>3. /\ SlotOK(u) /\ stage[Slot(u)] = Done
  BY <1>2, <1>t DEF RingInv, SlotOK, Fill, Release
<1>4. ASSUME NEW t \in Window, t # u PROVE SlotOK(t)'
  <2>1. Slot(t) # Slot(u) /\ Slot(t) \in Slots /\ t \in Nat
    BY <1>2, <1>4, <1>t, WindowSlots, SlotFacts DEF Window
  <2>2. ctx'[Slot(t)] = ctx[Slot(t)] /\ stage'[Slot(t)] = stage[Slot(t)]
    BY <2>1, <1>t DEF Fill, Release, TypeOK
  <2>3. t \in Tickets => client'[t] = client[t]
    BY <1>4, <1>t DEF Fill, Release, TypeOK
  <2>4. SlotOK(t)
    BY <1>4, <1>t DEF RingInv
  <2>5. QED
    BY <1>t, <1>u, <2>1, <2>2, <2>3, <2>4, SlotFrame DEF Passed, Busy
<1>5. SlotOK(u)'
  <2>1. CASE Fill(u)
    <3>1. PICK n \in 1 .. MaxNeed :
            ctx' = [ctx EXCEPT ![Slot(u)] = [tid |-> u, past |-> u - 1, steps |-> 0, need |-> n]]
      BY <2>1 DEF Fill
    <3>2. ctx'[Slot(u)] = [tid |-> u, past |-> u - 1, steps |-> 0, need |-> n]
      BY <3>1, <1>t DEF TypeOK
    <3>3. client'[u] = "filling" /\ UNCHANGED stage
      BY <2>1, <1>t DEF Fill, TypeOK
    <3>4. ~ (u <= mon'.comm)
      BY <1>1, <1>u, <1>t DEF MonitorInv, MonStates
    <3>5. QED
      BY <1>3, <3>2, <3>3, <3>4 DEF SlotOK, Slot, Done
  <2>2. CASE Release(u)
    <3>1. /\ client'[u] = "returned" /\ stage'[Slot(u)] = 0 /\ UNCHANGED ctx
          /\ client[u] = "filling"
      BY <2>2, <1>t DEF Release, TypeOK
    <3>2. ~ (u <= mon'.comm) /\ ~ (u > nSubmitted')
      BY <1>1, <1>u, <1>t DEF MonitorInv, MonStates
    <3>3. /\ ctx[Slot(u)].past < u /\ ctx[Slot(u)].steps = 0 /\ ctx[Slot(u)].tid = u
          /\ ctx[Slot(u)].need \in 1 .. MaxNeed
      BY <1>3, <3>1, <1>t DEF SlotOK
    <3>4. \A q \in Pipes : ~ Passed(q, u)
      <4> SUFFICES ASSUME NEW q \in Pipes PROVE ~ Passed(q, u)
        OBVIOUS
      <4>1. /\ pipe[q].tid \in Nat /\ pipe[q].tid - 1 <= nInited
            /\ pipe[q].pc = "pop" => pipe[q].tid <= nInited
        BY <1>t DEF PipeInv, TypeOK, PipeStates
      <4>2. nInited < u
        BY <1>1, <1>t DEF MonitorInv, MonStates
      <4>3. QED
        BY <4>1, <4>2, <1>t DEF Passed
    <3>5. \A q \in Pipes : Rank(q, u) \in Nat
      BY RankRange, <1>t, PipesAssumption DEF Last
    <3>6. Progress(u)'
      BY <1>u, <3>1, <3>3, <3>4, <3>5, PipesAssumption
      DEF Progress, Passed, Done, Slot, Rank, OpDone
    <3>7. QED
      BY <3>1, <3>2, <3>3, <3>6 DEF SlotOK, Slot
  <2>3. QED
    BY <2>1, <2>2
<1>6. QED
  BY <1>4, <1>5, <1>u DEF RingInv, Window

\* Publishing moves the window on to slots whose tickets are finished.
LEMMA MonitorSlots ==
  ASSUME IInv, MonInit \/ MonCommit
  PROVE  RingInv'
<1> USE RingAssumption, TicketAssumption
<1>t. /\ TypeOK /\ MonitorInv /\ ClientInv /\ RingInv
      /\ mon \in MonStates /\ nCommitted \in Nat /\ nSubmitted \in Nat
  BY DEF IInv, TypeOK
<1>u. UNCHANGED <<nSubmitted, client, ctx, stage, pipe, worker>>
  BY <1>t, MonitorEffect
<1>p. \A t \in Nat : Progress(t)' <=> Progress(t)
  BY <1>u DEF Progress, Passed, Busy, OpDone, Slot, Rank, Done
<1>1. CASE mon'.comm = mon.comm /\ UNCHANGED nCommitted
  BY <1>1, <1>t, <1>u, <1>p DEF RingInv, SlotOK, Window, Slot, Done, Tickets
<1>2. CASE /\ mon.comm < mon.init /\ stage[Slot(mon.comm + 1)] = Done
           /\ mon'.comm = mon.comm + 1 /\ UNCHANGED nCommitted
  <2>1. mon.comm + 1 \in Nat /\ nCommitted < mon.comm + 1 /\ mon.comm + 1 <= mon.init
    BY <1>2, <1>t DEF MonStates, MonitorInv
  <2>2. ctx[Slot(mon.comm + 1)].tid = mon.comm + 1
    BY <1>t, <2>1, InFlight
  <2>3. \A t \in Window : t <= mon.comm + 1 => t <= mon.comm \/ t = mon.comm + 1
    BY <1>t DEF Window, MonStates
  <2>4. QED
    BY <1>2, <1>t, <1>u, <1>p, <2>2, <2>3
    DEF RingInv, SlotOK, Window, Slot, Done, Tickets
<1>3. CASE nCommitted' = mon.comm /\ mon'.comm = mon.comm
  <2> SUFFICES ASSUME NEW t \in Window' PROVE SlotOK(t)'
    BY DEF RingInv
  <2>1. /\ t \in Nat /\ mon.comm \in Nat /\ nCommitted <= mon.comm
        /\ mon.comm <= t /\ t < mon.comm + B
    BY <1>3, <1>t DEF Window, MonStates, MonitorInv
  <2>2. mon.comm < nCommitted + B
    <3>1. CASE mon.comm = 0
      BY <3>1, <1>t
    <3>2. CASE mon.comm # 0
      <4>1. mon.comm \in Tickets /\ mon.comm <= mon.init
        BY <3>2, <1>t DEF MonStates, MonitorInv, Tickets, TypeOK
      <4>2. QED
        BY <4>1, <1>t DEF ClientInv
    <3>3. QED
      BY <3>1, <3>2
  <2>3. CASE t \in Window
    BY <1>3, <1>t, <1>u, <1>p, <2>1, <2>3 DEF RingInv, SlotOK, Slot, Done, Tickets
  <2>4. CASE t \notin Window
    <3>1. t - B \in Window /\ t - B <= mon.comm /\ t - B \in Int /\ ~ (t <= mon.comm)
      BY <2>1, <2>2, <2>4, <1>t DEF Window
    <3>2. stage[Slot(t - B)] = Done
      BY <3>1, <1>t DEF RingInv, SlotOK
    <3>3. Slot(t) = Slot(t - B)
      <4>1. Slot((t - B) + B) = Slot(t - B)
        BY <3>1, SlotFacts
      <4>2. (t - B) + B = t
        BY <2>1
      <4>3. QED
        BY <4>1, <4>2
    <3>4. t \in Tickets => client[t] \notin {"filling", "returned"}
      BY <2>1, <2>4, <1>t DEF ClientInv, Window
    <3>5. QED
      BY <1>3, <1>u, <3>1, <3>2, <3>3, <3>4 DEF SlotOK, Slot, Done, Tickets
  <2>5. QED
    BY <2>3, <2>4
<1>4. QED
  <2>1. \/ mon'.comm = mon.comm /\ UNCHANGED nCommitted
        \/ /\ mon.comm < mon.init /\ stage[Slot(mon.comm + 1)] = Done
           /\ mon'.comm = mon.comm + 1 /\ UNCHANGED nCommitted
        \/ nCommitted' = mon.comm /\ mon'.comm = mon.comm
    BY <1>t, MonitorEffect DEF MonStates
  <2>2. QED
    BY <1>1, <1>2, <1>3, <2>1

\* A handler of a pipe thread brings the ticket to the thread's own rank.
LEMMA HandlerSlot ==
  ASSUME IInv, NEW q \in Pipes, NEW t \in Nat, t = pipe[q].tid, pipe[q].pc = "run",
         Handle(Slot(t)), UNCHANGED <<nSubmitted, mon, stage, client, worker>>,
         \A p \in Pipes \ {q} : pipe'[p] = pipe[p],
         \/ pipe'[q].tid = t + 1
         \/ pipe'[q].tid = t /\ pipe'[q].pc = "pop" /\ Rank(q, t) = Last
  PROVE  SlotOK(t)'
<1> DEFINE s == Slot(t)
<1>t. /\ TypeOK /\ MonitorInv /\ ClientInv /\ RingInv /\ PipeInv
      /\ \A p \in Pipes : pipe[p].tid \in Nat
  BY DEF IInv, TypeOK, PipeStates
<1>1. nCommitted < t /\ mon.comm < t /\ t <= mon.init
  BY <1>t, Running
<1>2. /\ t \in Tickets /\ s \in Slots /\ client[t] = "returned" /\ ctx[s].tid = t
      /\ ctx[s].need \in 1 .. MaxNeed /\ Progress(t)
  BY <1>t, <1>1, InFlight
<1>3. Last \in Nat /\ \A p \in Pipes : Rank(p, t) \in 0 .. Last
  BY RankRange, PipesAssumption DEF Last
<1>4. ctx[s] \in Contexts /\ ctx' \in [Slots -> Contexts] /\ ctx'[s] \in Contexts
  BY <1>t, <1>2, HandleEffect DEF TypeOK
<1>5. \A p \in Pipes : Rank(p, t) < Rank(q, t) => t < pipe[p].tid
  <2>1. CASE Rank(q, t) = 0
    BY <2>1, <1>3
  <2>2. CASE Rank(q, t) # 0
    BY <2>2, <1>t, Ready DEF PipeInv
  <2>3. QED
    BY <2>1, <2>2
\* Before: steps = Rank(q, t), or the ticket is done.
<1>6. OpDone(s) \/ ctx[s].steps = Rank(q, t)
  <2>1. ctx[s].steps <= Rank(q, t)
    BY <1>2, <1>t DEF Progress, Passed
  <2>2. CASE Rank(q, t) = 0
    BY <2>1, <2>2, <1>4 DEF Contexts
  <2>3. CASE Rank(q, t) # 0
    <3>0. Rank(q, t) - 1 \in 0 .. Last /\ t \in Int
      BY <1>3, <2>3
    <3>1. PICK p \in Pipes : Rank(p, t) = Rank(q, t) - 1
      BY <3>0, RankOnto
    <3>2. OpDone(s) \/ ctx[s].steps > Rank(p, t)
      BY <1>2, <1>3, <1>5, <3>1 DEF Progress, Passed
    <3>3. QED
      BY <2>1, <3>1, <3>2, <1>3, <1>4 DEF Contexts
  <2>4. QED
    BY <2>2, <2>3
<1>7. /\ ctx'[s].tid = t /\ ctx'[s].need = ctx[s].need /\ ctx'[s].past < t
      /\ ctx'[s].steps <= ctx'[s].need /\ ctx[s].steps <= ctx'[s].steps
      /\ OpDone(s) => ctx'[s] = ctx[s]
      /\ OpDone(s) \/ ctx'[s].steps = Rank(q, t) + 1
  <2>1. ctx[s].past < t /\ ctx[s].steps <= ctx[s].need
    BY <1>2 DEF Progress
  <2>2. CASE OpDone(s)
    BY <1>t, <1>2, <1>4, <2>1, <2>2, HandleEffect DEF Contexts
  <2>3. CASE ~ OpDone(s)
    <3>1. /\ ctx'[s].tid = ctx[s].tid /\ ctx'[s].need = ctx[s].need
          /\ ctx'[s].steps = ctx[s].steps + 1
          /\ ctx'[s].past = 0 \/ ctx'[s].past <= ctx[s].past
      BY <1>t, <1>2, <2>3, HandleEffect
    <3>2. QED
      BY <1>1, <1>2, <1>4, <1>6, <2>1, <2>3, <3>1 DEF OpDone, Contexts, MonitorInv
  <2>4. QED
    BY <2>2, <2>3
<1>8. OpDone(s) => ctx'[s].steps = ctx'[s].need
  BY <1>7 DEF OpDone
<1>9. \A p \in Pipes :
        /\ IF Passed(p, t)' THEN \/ ctx'[s].steps = ctx'[s].need
                                 \/ ctx'[s].steps > Rank(p, t)
                            ELSE ctx'[s].steps <= Rank(p, t)
        /\ pipe'[p].tid = t => ctx'[s].steps <= Rank(p, t) + 1
  <2> SUFFICES ASSUME NEW p \in Pipes
               PROVE  /\ IF Passed(p, t)' THEN \/ ctx'[s].steps = ctx'[s].need
                                               \/ ctx'[s].steps > Rank(p, t)
                                          ELSE ctx'[s].steps <= Rank(p, t)
                      /\ pipe'[p].tid = t => ctx'[s].steps <= Rank(p, t) + 1
    OBVIOUS
  <2>0. ctx[s].steps \in Nat /\ ctx'[s].steps \in Nat /\ ctx'[s].need \in Nat
    BY <1>4 DEF Contexts
  <2>1. ctx[s].steps <= Rank(q, t) /\ ~ Passed(q, t)
    BY <1>2, <1>t DEF Progress, Passed
  <2>2. CASE p = q
    <3>1. Passed(p, t)'
      BY <1>t, <2>2 DEF Passed
    <3>2. QED
      BY <1>3, <1>7, <1>8, <2>0, <2>1, <2>2, <3>1
  <2>3. CASE p # q
    <3>1. Passed(p, t)' <=> Passed(p, t)
      BY <2>3 DEF Passed
    <3>2. CASE Passed(p, t)
      <4>1. OpDone(s) \/ ctx[s].steps > Rank(p, t)
        BY <1>2, <3>2 DEF Progress
      <4>2. pipe'[p].tid = t => Rank(p, t) = Last
        BY <2>3, <3>2, <1>t DEF Passed, PipeInv
      <4>3. pipe'[p].tid = t => ctx[s].steps <= Rank(p, t) + 1
        BY <2>3, <1>2 DEF Progress
      <4>4. QED
        BY <1>3, <1>7, <1>8, <2>0, <3>1, <3>2, <4>1, <4>2, <4>3
    <3>3. CASE ~ Passed(p, t)
      <4>1. ~ (Rank(p, t) < Rank(q, t))
        BY <1>5, <3>3 DEF Passed
      <4>2. Rank(p, t) # Rank(q, t)
        BY <2>3, RankInjective
      <4>3. ctx[s].steps <= Rank(p, t)
        BY <1>2, <3>3 DEF Progress
      <4>4. QED
        BY <1>3, <1>7, <2>0, <3>1, <3>3, <4>1, <4>2, <4>3
    <3>4. QED
      BY <3>2, <3>3
  <2>4. QED
    BY <2>2, <2>3
<1>10. stage[s] # Done
  BY <1>2, <1>t DEF Progress
<1>11. stage[s] >= 1 => ctx'[s].steps = ctx'[s].need \/ ctx'[s].steps >= NPipes + stage[s]
  <2>1. stage[s] >= 1 => OpDone(s) \/ ctx[s].steps >= NPipes + stage[s]
    BY <1>2 DEF Progress
  <2>2. stage[s] \in Nat /\ ctx[s].steps \in Nat /\ ctx'[s].steps \in Nat
    BY <1>t, <1>2, <1>4 DEF TypeOK, Contexts
  <2>3. QED
    BY <1>7, <1>8, <2>1, <2>2, PipesAssumption
<1>12. Progress(t)'
  BY <1>7, <1>9, <1>10, <1>11 DEF Progress, OpDone, Slot, Rank, Done
<1>13. SlotOK(t)
  BY <1>t, <1>1, InFlight DEF RingInv
<1>14. QED
  <2>1. ~ (t <= mon'.comm) /\ mon' = mon
    BY <1>1, <1>t DEF TypeOK, MonStates
  <2>2. t > nSubmitted' => stage'[s] = Done
    BY <1>13 DEF SlotOK
  <2>3. client'[t] = "returned" /\ ctx'[s].tid = t /\ ctx'[s].need \in 1 .. MaxNeed
    BY <1>2, <1>7
  <2>4. QED
    BY <1>12, <2>1, <2>2, <2>3 DEF SlotOK, Slot, Done, Tickets

\* The pipe threads: a handler, the exit's store of Done, or a step of control.
LEMMA PipeSlots ==
  ASSUME IInv, NEW q \in Pipes, Pipe(q)
  PROVE  RingInv'
<1>t. /\ TypeOK /\ MonitorInv /\ ClientInv /\ RingInv /\ PipeInv /\ WorkerInv
      /\ pipe \in [Pipes -> PipeStates] /\ nCommitted \in Nat
      /\ \A p \in Pipes : pipe[p].tid \in Nat
  BY DEF IInv, TypeOK, PipeStates
<1>p. PICK t \in Nat : t = pipe[q].tid
  BY <1>t
<1>u. UNCHANGED <<nSubmitted, nInited, nCommitted, mon, client>>
  BY DEF Pipe, EntryBegin, InnerBegin, HandOver, ExitDone, ExitBegin, ExitHandle, Dispatch
<1>s. Slot(t) \in Slots /\ \A u \in Window : Slot(u) \in Slots /\ u \in Nat
  BY <1>t, SlotFacts DEF Window
\* The other tickets of the window.
<1>1. ASSUME \A p \in Pipes \ {q} : pipe'[p] = pipe[p],
             pipe'[q].tid = t \/ (pipe'[q].tid = t + 1 /\ pipe'[q].pc = "wait"),
             \A r \in Slots \ {Slot(t)} : ctx'[r] = ctx[r] /\ stage'[r] = stage[r],
             (nCommitted < t /\ t <= mon.init) \/ UNCHANGED <<ctx, stage>>,
             \A w \in Workers : Busy(w)' => \/ worker'[w].tid = t
                                            \/ Busy(w) /\ worker'[w].tid = worker[w].tid,
             NEW u \in Window, u # t
      PROVE  SlotOK(u)'
  <2>1. ctx'[Slot(u)] = ctx[Slot(u)] /\ stage'[Slot(u)] = stage[Slot(u)]
    <3>1. CASE nCommitted < t /\ t <= mon.init
      <4>1. Slot(u) # Slot(t)
        BY <1>t, <1>s, <1>1, <3>1, OtherSlot
      <4>2. QED
        BY <1>1, <1>s, <4>1
    <3>2. QED
      BY <1>1, <3>1
  <2>2. /\ \A p \in Pipes : Passed(p, u)' <=> Passed(p, u)
        /\ \A p \in Pipes : pipe'[p].tid = u => pipe[p].tid = u \/ ~ Passed(p, u)
        /\ \A p \in Pipes : u < pipe[p].tid => u < pipe'[p].tid
    <3>1. u \in Nat /\ u # pipe[q].tid
      BY <1>p, <1>s, <1>1
    <3>2. \/ pipe'[q].tid = pipe[q].tid
          \/ pipe'[q].tid = pipe[q].tid + 1 /\ pipe'[q].pc = "wait"
      BY <1>p, <1>1
    <3>3. QED
      BY <1>t, <1>1, <3>1, <3>2, PassFrame
  <2>3. \A w \in Workers : Busy(w)' /\ worker'[w].tid = u => Busy(w) /\ worker[w].tid = u
    BY <1>1
  <2>4. SlotOK(u)
    BY <1>t DEF RingInv
  <2>5. QED
    BY <1>t, <1>s, <1>u, <2>1, <2>2, <2>3, <2>4, SlotFrame
<1>2. ASSUME \A u \in Window : u # t => SlotOK(u)', t \in Window => SlotOK(t)'
      PROVE  RingInv'
  BY <1>2, <1>u DEF RingInv, Window
<1>3. CASE EntryBegin(q) \/ InnerBegin(q) \/ ExitBegin(q)
  <2>1. /\ pipe' = [pipe EXCEPT ![q].pc = "run"] /\ pipe[q].pc = "wait"
        /\ UNCHANGED <<ctx, stage, worker>>
    BY <1>3 DEF EntryBegin, InnerBegin, ExitBegin
  <2>2. /\ \A p \in Pipes : pipe'[p].tid = pipe[p].tid
        /\ \A p \in Pipes \ {q} : pipe'[p] = pipe[p]
        /\ pipe'[q].pc = "run"
    BY <2>1, <1>t DEF PipeStates
  <2>3. \A u \in Nat : \A p \in Pipes : Passed(p, u)' <=> Passed(p, u)
    BY <2>1, <2>2 DEF Passed
  <2>4. \A u \in Window : SlotOK(u)'
    <3> SUFFICES ASSUME NEW u \in Window PROVE SlotOK(u)'
      OBVIOUS
    <3>1. SlotOK(u) /\ u \in Nat
      BY <1>t, <1>s DEF RingInv
    <3>2. QED
      BY <1>t, <1>u, <2>1, <2>2, <2>3, <3>1, SlotFrame DEF Busy
  <2>5. QED
    BY <1>2, <2>4
<1>4. CASE HandOver(q) \/ ExitHandle(q)
  <2>1. /\ Handle(Slot(t)) /\ pipe[q].pc = "run"
        /\ UNCHANGED <<stage, worker>>
        /\ \/ pipe' = [pipe EXCEPT ![q] = [tid |-> t + 1, pc |-> "wait"]]
           \/ pipe' = [pipe EXCEPT ![q].pc = "pop"] /\ ExitOf(t) = q
    BY <1>4, <1>p DEF HandOver, ExitHandle, NextTicket
  <2>2. nCommitted < t /\ t <= mon.init
    BY <1>t, <1>p, <2>1, Running
  <2>3. \A p \in Pipes \ {q} : pipe'[p] = pipe[p]
    BY <1>t, <2>1
  <2>4. \/ pipe'[q].tid = t + 1 /\ pipe'[q].pc = "wait"
        \/ pipe'[q].tid = t /\ pipe'[q].pc = "pop" /\ ExitOf(t) = q
    BY <1>t, <1>p, <2>1 DEF PipeStates
  <2>5. ExitOf(t) = q => Rank(q, t) = Last
    BY RoleFacts
  <2>6. SlotOK(t)'
    BY <1>p, <1>u, <2>1, <2>3, <2>4, <2>5, HandlerSlot
  <2>7. \A r \in Slots \ {Slot(t)} : ctx'[r] = ctx[r] /\ stage'[r] = stage[r]
    BY <1>t, <1>s, <2>1, HandleEffect
  <2>8. \A w \in Workers : Busy(w)' => Busy(w) /\ worker'[w].tid = worker[w].tid
    BY <2>1 DEF Busy
  <2>9. pipe'[q].tid = t \/ (pipe'[q].tid = t + 1 /\ pipe'[q].pc = "wait")
    BY <2>4
  <2>10. \A u \in Window : u # t => SlotOK(u)'
    BY <1>1, <2>2, <2>3, <2>7, <2>8, <2>9
  <2>11. QED
    BY <1>2, <2>6, <2>10
<1>5. CASE ExitDone(q)
  <2>1. /\ pipe[q].pc = "wait" /\ ExitOf(t) = q /\ pace[q] >= t /\ OpDone(Slot(t))
        /\ stage' = [stage EXCEPT ![Slot(t)] = Done]
        /\ pipe' = [pipe EXCEPT ![q] = [tid |-> t + 1, pc |-> "wait"]]
        /\ UNCHANGED <<ctx, worker>>
    BY <1>5, <1>p DEF ExitDone, NextTicket
  <2>2. /\ \A p \in Pipes \ {q} : pipe'[p] = pipe[p]
        /\ pipe'[q].tid = t + 1 /\ pipe'[q].pc = "wait"
    BY <1>t, <2>1
  <2>3. Rank(q, t) = Last /\ Last \in Nat \ {0} /\ \A p \in Pipes : Rank(p, t) \in 0 .. Last
    BY <2>1, RoleFacts, RankRange, PipesAssumption DEF Last
  <2>4. t <= nInited /\ \A p \in Pipes : Rank(p, t) < Last => t < pipe[p].tid
    BY <1>t, <1>p, <2>1, <2>3, Ready
  <2>5. nCommitted < t /\ mon.comm < t /\ t <= mon.init
    BY <1>t, <1>p, <2>4 DEF PipeInv, MonitorInv, MonStates, TypeOK
  <2>6. \A p \in Pipes : t < pipe'[p].tid
    <3>1. \A p \in Pipes \ {q} : Rank(p, t) # Last
      BY <2>3, RankInjective
    <3>2. QED
      BY <2>2, <2>3, <2>4, <3>1
  <2>7. \A w \in Workers : Busy(w)' => worker'[w].tid # t
    BY <1>t, <1>p, <2>1 DEF Busy, WorkerInv, WorkerOK
  <2>8. SlotOK(t)'
    <3>1. /\ t \in Tickets /\ client[t] = "returned" /\ ctx[Slot(t)].tid = t
          /\ ctx[Slot(t)].need \in 1 .. MaxNeed /\ Progress(t)
      BY <1>t, <2>5, InFlight
    <3>2. stage'[Slot(t)] = Done
      BY <1>t, <1>s, <2>1 DEF TypeOK
    <3>3. \A p \in Pipes : Passed(p, t)' /\ pipe'[p].tid # t
      BY <1>t, <2>2, <2>6 DEF Passed
    <3>4. Progress(t)'
      BY <2>1, <2>6, <2>7, <3>1, <3>2, <3>3 DEF Progress, OpDone, Slot, Done
    <3>5. QED
      BY <1>u, <2>1, <3>1, <3>2, <3>4 DEF SlotOK, Slot, Done, Tickets
  <2>9. \A r \in Slots \ {Slot(t)} : ctx'[r] = ctx[r] /\ stage'[r] = stage[r]
    BY <1>t, <2>1 DEF TypeOK
  <2>10. \A w \in Workers : Busy(w)' => Busy(w) /\ worker'[w].tid = worker[w].tid
    BY <2>1 DEF Busy
  <2>11. \A u \in Window : u # t => SlotOK(u)'
    BY <1>1, <2>2, <2>5, <2>9, <2>10
  <2>12. QED
    BY <1>2, <2>8, <2>11
<1>6. CASE Dispatch(q)
  <2>1. PICK w \in available :
          worker' = [worker EXCEPT ![w] = [tid |-> t, pc |-> "wait", stage |-> 1]]
    BY <1>6, <1>p DEF Dispatch
  <2>2. /\ w \in Workers /\ worker'[w] = [tid |-> t, pc |-> "wait", stage |-> 1]
        /\ \A v \in Workers \ {w} : worker'[v] = worker[v]
    BY <1>t, <2>1 DEF TypeOK
  <2>3. /\ pipe[q].pc = "pop" /\ UNCHANGED <<ctx, stage>>
        /\ pipe' = [pipe EXCEPT ![q] = [tid |-> t + 1, pc |-> "wait"]]
    BY <1>6, <1>p DEF Dispatch, NextTicket
  <2>4. /\ \A p \in Pipes \ {q} : pipe'[p] = pipe[p]
        /\ pipe'[q].tid = t + 1 /\ pipe'[q].pc = "wait"
    BY <1>t, <2>3
  <2>5. \A v \in Workers : Busy(v)' => \/ worker'[v].tid = t
                                       \/ Busy(v) /\ worker'[v].tid = worker[v].tid
    BY <2>2 DEF Busy
  <2>6. \A u \in Window : u # t => SlotOK(u)'
    BY <1>1, <2>3, <2>4, <2>5
  <2>7. t \in Window => SlotOK(t)'
    <3>1. nCommitted < t /\ mon.comm < t /\ t <= mon.init
      BY <1>t, <1>p, <2>3, Running
    <3>2. /\ t \in Tickets /\ client[t] = "returned" /\ ctx[Slot(t)].tid = t
          /\ ctx[Slot(t)].need \in 1 .. MaxNeed /\ Progress(t)
      BY <1>t, <3>1, InFlight
    <3>3. stage[Slot(t)] # Done
      BY <1>t, <1>p, <3>2 DEF Progress
    <3>4. \A p \in Pipes : Passed(p, t)' <=> Passed(p, t)
      BY <1>t, <1>p, <2>3, <2>4 DEF Passed
    <3>5. \A p \in Pipes : pipe'[p].tid = t => pipe[p].tid = t
      BY <1>t, <2>4
    <3>6. Progress(t)'
      BY <2>3, <3>2, <3>3, <3>4, <3>5 DEF Progress, OpDone, Slot, Done, Rank
    <3>7. t > nSubmitted => stage[Slot(t)] = Done
      BY <1>t, <3>1, InFlight DEF RingInv, SlotOK
    <3>8. ~ (t <= mon'.comm)
      BY <1>t, <1>u, <3>1 DEF TypeOK, MonStates
    <3>9. QED
      BY <1>u, <2>3, <3>2, <3>6, <3>7, <3>8 DEF SlotOK, Slot, Done, Tickets
  <2>8. QED
    BY <1>2, <2>6, <2>7
<1>7. QED
  BY <1>3, <1>4, <1>5, <1>6 DEF Pipe

\* The workers: a handler with the store of its stage, or the store of Done.
LEMMA WorkerSlots ==
  ASSUME IInv, NEW w \in Workers, Worker(w)
  PROVE  RingInv'
<1>t. /\ TypeOK /\ MonitorInv /\ ClientInv /\ RingInv /\ PipeInv /\ WorkerInv
      /\ worker \in [Workers -> WorkerStates] /\ nCommitted \in Nat
  BY DEF IInv, TypeOK
<1>p. PICK t \in Nat : t = worker[w].tid
  BY <1>t DEF WorkerStates
<1>u. UNCHANGED <<nSubmitted, nInited, nCommitted, mon, client, pipe>>
  BY DEF Worker, WorkerBegin, WorkerStep, WorkerFinish, WorkerPush
<1>s. Slot(t) \in Slots /\ \A u \in Window : Slot(u) \in Slots /\ u \in Nat
  BY <1>t, SlotFacts DEF Window
<1>v. \A v \in Workers : Busy(v)' => Busy(v) /\ worker'[v].tid = worker[v].tid
  BY <1>t DEF Worker, WorkerBegin, WorkerStep, WorkerFinish, WorkerPush, Busy, WorkerStates
<1>c. \A p \in Pipes, u \in Nat : Passed(p, u)' <=> Passed(p, u)
  BY <1>u DEF Passed
<1>1. CASE WorkerBegin(w) \/ WorkerPush(w)
  <2>1. UNCHANGED <<ctx, stage>>
    BY <1>1 DEF WorkerBegin, WorkerPush
  <2>2. \A u \in Window : SlotOK(u)'
    <3> SUFFICES ASSUME NEW u \in Window PROVE SlotOK(u)'
      OBVIOUS
    <3>1. SlotOK(u) /\ u \in Nat
      BY <1>t, <1>s DEF RingInv
    <3>2. QED
      BY <1>t, <1>u, <1>v, <1>c, <2>1, <3>1, SlotFrame
  <2>3. QED
    BY <1>u, <2>2 DEF RingInv, Window
<1>2. CASE WorkerStep(w) \/ WorkerFinish(w)
  <2>b. Busy(w) /\ WorkerOK(w)
    BY <1>2, <1>t DEF Busy, WorkerStep, WorkerFinish, WorkerInv
  <2>1. nCommitted < t /\ mon.comm < t /\ t <= mon.init
    BY <1>t, <1>p, <2>b, Working
  <2>2. /\ t \in Tickets /\ client[t] = "returned" /\ ctx[Slot(t)].tid = t
        /\ ctx[Slot(t)].need \in 1 .. MaxNeed /\ Progress(t) /\ t \in Window
    BY <1>t, <2>1, InFlight
  <2>3. \A r \in Slots \ {Slot(t)} : ctx'[r] = ctx[r] /\ stage'[r] = stage[r]
    <3>1. CASE WorkerStep(w)
      BY <1>t, <1>p, <1>s, <3>1, HandleEffect DEF WorkerStep, TypeOK
    <3>2. CASE WorkerFinish(w)
      BY <1>t, <1>p, <3>2 DEF WorkerFinish, TypeOK
    <3>3. QED
      BY <1>2, <3>1, <3>2
  <2>4. \A u \in Window : u # t => SlotOK(u)'
    <3> SUFFICES ASSUME NEW u \in Window, u # t PROVE SlotOK(u)'
      OBVIOUS
    <3>1. SlotOK(u) /\ u \in Nat /\ Slot(u) \in Slots
      BY <1>t, <1>s DEF RingInv
    <3>2. Slot(u) # Slot(t)
      BY <1>t, <2>1, <3>1, OtherSlot
    <3>3. ctx'[Slot(u)] = ctx[Slot(u)] /\ stage'[Slot(u)] = stage[Slot(u)]
      BY <2>3, <3>1, <3>2
    <3>4. QED
      BY <1>t, <1>u, <1>v, <1>c, <3>1, <3>3, SlotFrame
  <2>5. \A p \in Pipes : t < pipe'[p].tid /\ pipe'[p].tid \in Nat
    BY <1>t, <1>p, <1>u, <2>b DEF WorkerOK, TypeOK, PipeStates
  <2>6. ctx[Slot(t)] \in Contexts /\ ctx' \in [Slots -> Contexts] /\ ctx'[Slot(t)] \in Contexts
    <3>1. ctx' \in [Slots -> Contexts]
      BY <1>2, <1>t, <1>p, <1>s, HandleEffect DEF WorkerStep, WorkerFinish, TypeOK
    <3>2. QED
      BY <1>t, <1>s, <3>1 DEF TypeOK
  <2>7. CASE WorkerStep(w)
    <3>1. /\ ~ OpDone(Slot(t)) /\ Handle(Slot(t)) /\ stage'[Slot(t)] = worker[w].stage
      BY <1>t, <1>p, <1>s, <2>b, <2>7 DEF WorkerStep, WorkerOK, TypeOK
    <3>2. /\ ctx'[Slot(t)].tid = t /\ ctx'[Slot(t)].need = ctx[Slot(t)].need
          /\ ctx'[Slot(t)].steps = ctx[Slot(t)].steps + 1
          /\ ctx'[Slot(t)].past = 0 \/ ctx'[Slot(t)].past <= ctx[Slot(t)].past
      BY <1>t, <1>s, <2>2, <3>1, HandleEffect
    <3>3. /\ ctx[Slot(t)].steps = NPipes + worker[w].stage - 1 /\ worker[w].stage >= 1
          /\ worker[w].stage \in Nat
      BY <1>t, <1>p, <2>b, <3>1 DEF WorkerOK, WorkerStates
    <3>4. ctx[Slot(t)].past < t /\ ctx[Slot(t)].steps <= ctx[Slot(t)].need
      BY <2>2 DEF Progress
    <3>5. /\ ctx'[Slot(t)].past < t /\ ctx'[Slot(t)].steps <= ctx'[Slot(t)].need
          /\ ctx'[Slot(t)].steps = NPipes + worker[w].stage
          /\ worker[w].stage # Done
      BY <2>1, <2>2, <2>6, <3>1, <3>2, <3>3, <3>4, <1>t, PipesAssumption, TicketAssumption
      DEF Contexts, OpDone, Done
    <3>6. \A p \in Pipes : /\ Rank(p, t) \in Nat /\ Rank(p, t) < NPipes
                           /\ Passed(p, t)' /\ pipe'[p].tid # t
      BY <2>5, RankRange, PipesAssumption DEF Passed, Last
    <3>7. Progress(t)'
      BY <3>1, <3>3, <3>5, <3>6, PipesAssumption DEF Progress, OpDone, Slot, Done, Rank
    <3>8. ~ (t <= mon'.comm) /\ ~ (t > nSubmitted')
      BY <1>t, <1>u, <2>1 DEF TypeOK, MonStates, MonitorInv
    <3>9. SlotOK(t)'
      BY <1>u, <2>2, <3>2, <3>7, <3>8 DEF SlotOK, Slot, Tickets
    <3>10. QED
      BY <1>u, <2>4, <3>9 DEF RingInv, Window
  <2>8. CASE WorkerFinish(w)
    <3>1. /\ OpDone(Slot(t)) /\ stage'[Slot(t)] = Done /\ UNCHANGED ctx
          /\ worker' = [worker EXCEPT ![w] = [tid |-> t, pc |-> "push", stage |-> 0]]
      BY <1>t, <1>p, <1>s, <2>8 DEF WorkerFinish, TypeOK
    <3>2. \A v \in Workers : Busy(v)' => worker'[v].tid # t
      <4>1. ~ Busy(w)'
        BY <1>t, <3>1 DEF Busy
      <4>2. \A v \in Workers \ {w} : Busy(v) => worker[v].tid # t
        BY <1>t, <1>p, <2>b DEF WorkerInv
      <4>3. QED
        BY <1>v, <4>1, <4>2
    <3>3. \A p \in Pipes : Passed(p, t)' /\ pipe'[p].tid # t
      BY <2>5 DEF Passed
    <3>4. Progress(t)'
      BY <2>2, <2>5, <3>1, <3>2, <3>3 DEF Progress, OpDone, Slot, Done
    <3>5. SlotOK(t)'
      BY <1>u, <2>2, <3>1, <3>4 DEF SlotOK, Slot, Done, Tickets
    <3>6. QED
      BY <1>u, <2>4, <3>5 DEF RingInv, Window
  <2>9. QED
    BY <1>2, <2>7, <2>8
<1>3. QED
  BY <1>1, <1>2 DEF Worker

LEMMA RingStep == IInv /\ [Next]_vars => RingInv'
<1> SUFFICES ASSUME IInv, [Next]_vars PROVE RingInv'
  OBVIOUS
<1>t. TypeOK /\ ClientInv /\ RingInv
  BY DEF IInv
<1>p. UNCHANGED <<ctx, stage, pipe, worker>> => \A t \in Nat : Progress(t)' <=> Progress(t)
  BY DEF Progress, Passed, Busy, OpDone, Slot, Rank, Done
<1>w. Window \subseteq Nat
  BY <1>t DEF Window, TypeOK
<1>1. CASE Draw
  <2>1. /\ UNCHANGED <<nCommitted, ctx, stage, mon, pipe, worker>>
        /\ nSubmitted \in Nat /\ nSubmitted' = nSubmitted + 1 /\ nSubmitted + 1 \in Tickets
        /\ client' = [client EXCEPT ![nSubmitted + 1] = "drawn"]
    BY <1>1, <1>t, TicketAssumption DEF Draw, threadvars, TypeOK, Tickets
  <2>2. \A t \in Tickets : t # nSubmitted + 1 => client'[t] = client[t]
    BY <2>1, <1>t DEF TypeOK
  <2>3. client'[nSubmitted + 1] = "drawn"
    BY <2>1, <1>t DEF TypeOK
  <2>4. \A t \in Window : SlotOK(t)'
    <3> SUFFICES ASSUME NEW t \in Window PROVE SlotOK(t)'
      OBVIOUS
    <3>1. SlotOK(t) /\ t \in Nat
      BY <1>t, <1>w DEF RingInv
    <3>2. CASE t = nSubmitted + 1
      BY <2>1, <2>3, <3>1, <3>2 DEF SlotOK, Slot, Done, Tickets
    <3>3. CASE t # nSubmitted + 1
      BY <1>p, <2>1, <2>2, <3>1, <3>3 DEF SlotOK, Slot, Done, Tickets
    <3>4. QED
      BY <3>2, <3>3
  <2>5. QED
    BY <2>1, <2>4 DEF RingInv, Window
<1>2. CASE UNCHANGED vars
  BY <1>2, <1>t, <1>p, <1>w DEF vars, RingInv, SlotOK, Window, Slot, Done, Tickets
<1>3. QED
  BY <1>1, <1>2, ClientSlots, MonitorSlots, PipeSlots, WorkerSlots
  DEF Next, Clients, Monitor

-----------------------------------------------------------------------------
(* The order of the handlers.                                              *)

\* Two pipe threads never handle the same ticket at the same time.
LEMMA RunApart ==
  ASSUME TypeOK, PipeInv, NEW p \in Pipes, NEW q \in Pipes,
         pipe[p].pc # "wait", pipe[q].pc # "wait", pipe[p].tid = pipe[q].tid
  PROVE  p = q
<1>p. PICK t \in Nat : t = pipe[p].tid
  BY DEF TypeOK, PipeStates
<1>r. Rank(p, t) \in 0 .. Last /\ Rank(q, t) \in 0 .. Last /\ Last \in Nat
  BY RankRange, PipesAssumption DEF Last
<1>1. ASSUME NEW a \in Pipes, NEW b \in Pipes, pipe[b].pc # "wait",
             pipe[a].tid = t, pipe[b].tid = t
      PROVE  ~ (Rank(a, t) < Rank(b, t))
  <2> SUFFICES ASSUME Rank(a, t) < Rank(b, t) PROVE FALSE
    OBVIOUS
  <2>1. Rank(b, t) # 0
    BY RankRange, PipesAssumption DEF Last
  <2>2. pace[b] >= t
    BY <1>1, <2>1 DEF PipeInv
  <2>3. t < pipe[a].tid
    BY <1>1, <2>1, <2>2, Ready
  <2>4. QED
    BY <1>1, <2>3
<1>2. Rank(p, t) = Rank(q, t)
  BY <1>p, <1>r, <1>1
<1>3. QED
  BY <1>2, RankInjective

\* A handler of entry or inner may run: the same thread, or the whole chain, has
\* passed the version it copies from.
LEMMA ChainAhead ==
  ASSUME IInv, NEW q \in Pipes, pipe[q].pc = "wait", pipe[q].tid <= nInited,
         Rank(q, pipe[q].tid) # Last
  PROVE  Behind(Slot(pipe[q].tid))
<1>t. /\ TypeOK /\ MonitorInv /\ ClientInv /\ RingInv /\ PipeInv /\ Last \in Nat
      /\ nCommitted \in Nat
  BY PipesAssumption DEF IInv, TypeOK, Last
<1>p. PICK t \in Nat : t = pipe[q].tid
  BY <1>t DEF TypeOK, PipeStates
<1>1. nCommitted < t /\ t <= mon.init
  BY <1>t, <1>p DEF PipeInv, MonitorInv, MonStates, TypeOK
<1>2. Slot(t) \in Slots /\ Progress(t)
  BY <1>t, <1>1, InFlight
<1>v. PICK v \in Nat : v = ctx[Slot(t)].past
  BY <1>t, <1>2 DEF TypeOK, Contexts
<1>r. PICK r \in 0 .. Last : r = Rank(q, t)
  BY RankRange
<1>3. /\ v < t /\ ctx[Slot(t)].steps <= r /\ ctx[Slot(t)].steps \in Nat
      /\ r < Last
  BY <1>p, <1>v, <1>r, <1>t, <1>2 DEF Progress, Passed, TypeOK, Contexts
<1>4. SUFFICES ASSUME nCommitted < v
               PROVE  /\ ctx[Slot(v)].tid = v
                      /\ OpDone(Slot(v)) \/ ctx[Slot(v)].steps > r + 1
  <2>1. ASSUME nCommitted < v PROVE ctx[Slot(v)].steps \in Nat
    BY <1>t, SlotFacts DEF TypeOK, Contexts
  <2>2. QED
    BY <1>t, <1>p, <1>v, <1>3, <2>1 DEF Behind
<1>5. ctx[Slot(v)].tid = v /\ Progress(v) /\ ctx[Slot(v)].steps \in Nat
  <2>1. ctx[Slot(v)].tid = v /\ Progress(v) /\ Slot(v) \in Slots
    BY <1>t, <1>1, <1>3, <1>4, InFlight DEF TypeOK, MonStates
  <2>2. QED
    BY <1>t, <2>1 DEF TypeOK, Contexts
<1>6. CASE t - v <= Last - r
  <2>1. PICK i \in Nat : i = t - v
    BY <1>3
  <2>2. Rank(q, t - i) = r + i /\ t - i = v /\ i >= 1
    BY <1>r, <1>3, <1>6, <1>t, <2>1, RankShift
  <2>3. Passed(q, v)
    BY <1>p, <1>3 DEF Passed
  <2>4. OpDone(Slot(v)) \/ ctx[Slot(v)].steps > Rank(q, v)
    BY <1>5, <2>3 DEF Progress
  <2>5. QED
    BY <1>5, <2>2, <2>4
<1>7. CASE ~ (t - v <= Last - r)
  <2>1. PICK i \in Nat : i = Last - r
    BY <1>3, <1>t
  <2>2. PICK u \in Nat : u = t - i /\ v < u /\ u < t
    BY <1>3, <1>7, <1>t, <2>1
  <2>3. Rank(q, u) = Last
    <3>1. Rank(q, t) + i = Last /\ t \in Int
      BY <1>r, <1>t, <2>1
    <3>2. Rank(q, t - i) = Rank(q, t) + i
      BY <1>t, <3>1, RankShift
    <3>3. QED
      BY <2>2, <3>1, <3>2
  <2>4. \A p \in Pipes : u < pipe[p].tid
    <3>1. \A p \in Pipes : Rank(p, u) <= Last
      BY <1>t, RankRange
    <3>2. QED
      BY <1>t, <1>p, <2>2, <2>3, <3>1 DEF PipeInv
  <2>5. PICK p \in Pipes : Rank(p, v) = Last
    BY <1>t, RankOnto
  <2>6. Passed(p, v)
    BY <1>t, <2>2, <2>4 DEF Passed, TypeOK, PipeStates
  <2>7. OpDone(Slot(v)) \/ ctx[Slot(v)].steps > Last
    BY <1>5, <2>5, <2>6 DEF Progress
  <2>8. QED
    BY <1>3, <1>5, <1>t, <2>7
<1>8. QED
  BY <1>6, <1>7

\* wait_stage(ctx, k) keeps a ticket that has run NPipes + k - 1 handlers or fewer
\* behind the version it copies from.
LEMMA StageAhead ==
  ASSUME IInv, NEW t \in Nat, nCommitted < t, t <= mon.init,
         NEW k \in Nat \ {0}, ctx[Slot(t)].steps <= NPipes + k - 2, WaitStage(Slot(t), k)
  PROVE  Behind(Slot(t))
<1>t. /\ TypeOK /\ MonitorInv /\ ClientInv /\ RingInv /\ nCommitted \in Nat
      /\ NPipes \in Nat
  BY PipesAssumption DEF IInv, TypeOK
<1>1. Slot(t) \in Slots /\ Progress(t)
  BY <1>t, InFlight
<1>v. PICK v \in Nat : v = ctx[Slot(t)].past
  BY <1>t, <1>1 DEF TypeOK, Contexts
<1>2. v < t /\ ctx[Slot(t)].steps \in Nat
  BY <1>v, <1>t, <1>1 DEF Progress, TypeOK, Contexts
<1>3. CASE nCommitted < v
  <2>1. ctx[Slot(v)].tid = v /\ Progress(v) /\ Slot(v) \in Slots
    BY <1>t, <1>2, <1>3, InFlight DEF TypeOK, MonStates
  <2>2. ctx[Slot(v)].steps \in Nat /\ stage[Slot(v)] \in Nat
    BY <1>t, <2>1 DEF TypeOK, Contexts
  <2>3. stage[Slot(v)] >= k
    BY <1>v, <1>t, <1>3 DEF WaitStage
  <2>4. OpDone(Slot(v)) \/ ctx[Slot(v)].steps >= NPipes + stage[Slot(v)]
    BY <2>1, <2>2, <2>3 DEF Progress
  <2>5. QED
    BY <1>t, <1>v, <1>2, <2>1, <2>2, <2>3, <2>4 DEF Behind
<1>4. CASE ~ (nCommitted < v)
  BY <1>v, <1>t, <1>4 DEF Behind
<1>5. QED
  BY <1>3, <1>4

\* A handler that may run may still run after any step that leaves its own
\* context alone: the context of the version it copies from only grows.
LEMMA BehindFrame ==
  ASSUME TypeOK, MonitorInv, ClientInv, RingInv,
         NEW t \in Nat, nCommitted < t, t <= mon.init,
         Behind(Slot(t)), ctx'[Slot(t)] = ctx[Slot(t)],
         nCommitted' \in Nat, nCommitted <= nCommitted',
         \A v \in Nat : nCommitted < v /\ v <= mon.init =>
           /\ ctx'[Slot(v)].tid = ctx[Slot(v)].tid
           /\ ctx'[Slot(v)].steps \in Nat /\ ctx[Slot(v)].steps <= ctx'[Slot(v)].steps
           /\ OpDone(Slot(v)) => ctx'[Slot(v)] = ctx[Slot(v)]
  PROVE  Behind(Slot(t))'
<1>1. Slot(t) \in Slots /\ Progress(t)
  BY InFlight
<1>v. PICK v \in Nat : v = ctx[Slot(t)].past
  BY <1>1 DEF TypeOK, Contexts
<1>2. v < t /\ ctx[Slot(t)].steps \in Nat
  BY <1>v, <1>1 DEF Progress, TypeOK, Contexts
<1>3. ctx'[Slot(t)].past = v /\ nCommitted \in Nat
  BY <1>v DEF TypeOK
<1>4. CASE v <= nCommitted
  BY <1>2, <1>3, <1>4 DEF Behind, Slot
<1>5. CASE ~ (v <= nCommitted)
  <2>1. nCommitted < v /\ v <= mon.init /\ Slot(v) \in Slots
    BY <1>2, <1>5, <1>3, SlotFacts DEF TypeOK, MonStates
  <2>2. ctx[Slot(v)].steps \in Nat
    BY <2>1 DEF TypeOK, Contexts
  <2>3. /\ ctx[Slot(v)].tid = v
        /\ OpDone(Slot(v)) \/ ctx[Slot(v)].steps >= ctx[Slot(t)].steps + 2
    BY <1>v, <1>5 DEF Behind
  <2>4. /\ ctx'[Slot(v)].tid = v
        /\ OpDone(Slot(v))' \/ ctx'[Slot(v)].steps >= ctx'[Slot(t)].steps + 2
    BY <1>2, <2>1, <2>2, <2>3 DEF OpDone, Slot
  <2>5. QED
    BY <1>3, <2>4 DEF Behind, Slot
<1>6. QED
  BY <1>4, <1>5

\* A pipe thread begins its handler behind the version it copies from.
LEMMA BeginBehind ==
  ASSUME IInv, NEW q \in Pipes, EntryBegin(q) \/ InnerBegin(q) \/ ExitBegin(q)
  PROVE  Behind(Slot(pipe[q].tid))
<1>t. /\ TypeOK /\ MonitorInv /\ ClientInv /\ RingInv /\ PipeInv
      /\ Last \in Nat \ {0} /\ nInited \in Nat
  BY PipesAssumption DEF IInv, TypeOK, Last
<1>p. PICK t \in Nat : t = pipe[q].tid
  BY <1>t DEF TypeOK, PipeStates
<1>1. CASE EntryBegin(q)
  <2>1. Rank(q, t) = 0 /\ t <= nInited /\ pipe[q].pc = "wait"
    BY <1>1, <1>p, <1>t, RoleFacts DEF EntryBegin
  <2>2. QED
    BY <1>p, <1>t, <2>1, ChainAhead
<1>2. CASE InnerBegin(q)
  <2>1. Rank(q, t) # 0 /\ Rank(q, t) # Last /\ pace[q] >= t /\ pipe[q].pc = "wait"
    BY <1>2, <1>p, RoleFacts DEF InnerBegin
  <2>2. t <= nInited
    BY <1>p, <1>t, <2>1, Ready
  <2>3. QED
    BY <1>p, <2>1, <2>2, ChainAhead
<1>3. CASE ExitBegin(q)
  <2>1. /\ ExitOf(t) = q /\ pace[q] >= t /\ pipe[q].pc = "wait"
        /\ ~ OpDone(Slot(t)) /\ WaitStage(Slot(t), 1)
    BY <1>3, <1>p DEF ExitBegin
  <2>2. Rank(q, t) = Last
    BY <2>1, RoleFacts
  <2>3. t <= nInited
    BY <1>p, <1>t, <2>1, <2>2, Ready
  <2>4. nCommitted < t /\ t <= mon.init
    BY <1>p, <1>t, <2>3 DEF PipeInv, MonitorInv, MonStates, TypeOK
  <2>5. Progress(t) /\ ctx[Slot(t)].steps \in Nat
    BY <1>t, <2>4, InFlight DEF TypeOK, Contexts
  <2>6. ctx[Slot(t)].steps <= Last
    BY <1>p, <1>t, <2>1, <2>2, <2>5 DEF Progress, Passed
  <2>7. ctx[Slot(t)].steps <= NPipes + 1 - 2
    BY <2>5, <2>6, PipesAssumption DEF Last
  <2>8. QED
    BY <1>p, <2>1, <2>4, <2>7, StageAhead
<1>4. QED
  BY <1>1, <1>2, <1>3

\* Fill stores into no slot of a ticket in flight.
LEMMA FillElsewhere ==
  ASSUME TypeOK, MonitorInv, ClientInv, RingInv, NEW u \in Tickets, Fill(u),
         NEW v \in Nat, nCommitted < v, v <= mon.init
  PROVE  ctx'[Slot(v)] = ctx[Slot(v)]
<1> USE RingAssumption, TicketAssumption
<1>1. mon.init < u /\ u < nCommitted + B /\ u \in Nat /\ Slot(v) \in Slots
  <2>1. Slot(v) \in Slots /\ u \in Nat
    BY SlotFacts DEF Tickets
  <2>2. client[u] = "drawn" /\ u < nCommitted + B
    BY DEF Fill
  <2>3. QED
    BY <2>1, <2>2 DEF ClientInv, TypeOK, MonStates
<1>2. u \in Window /\ u # v
  BY <1>1 DEF Window, MonitorInv, MonStates, TypeOK
<1>3. Slot(u) # Slot(v)
  BY <1>1, <1>2, OtherSlot
<1>4. QED
  BY <1>1, <1>3 DEF Fill, TypeOK

\* Contexts of tickets in flight keep their ticket and only run handlers.
LEMMA ContextGrows ==
  ASSUME IInv, [Next]_vars, NEW v \in Nat, nCommitted < v, v <= mon.init
  PROVE  /\ ctx'[Slot(v)].tid = ctx[Slot(v)].tid
         /\ ctx'[Slot(v)].steps \in Nat /\ ctx[Slot(v)].steps <= ctx'[Slot(v)].steps
         /\ OpDone(Slot(v)) => ctx'[Slot(v)] = ctx[Slot(v)]
<1>t. /\ TypeOK /\ MonitorInv /\ ClientInv /\ RingInv
      /\ pipe \in [Pipes -> PipeStates] /\ worker \in [Workers -> WorkerStates]
  BY DEF IInv, TypeOK
<1>s. Slot(v) \in Slots /\ ctx[Slot(v)].steps \in Nat
  <2>1. Slot(v) \in Slots
    BY SlotFacts
  <2>2. QED
    BY <1>t, <2>1 DEF TypeOK, Contexts
<1>1. CASE ctx' = ctx
  BY <1>1, <1>s
<1>2. ASSUME NEW u \in Tickets, Fill(u) PROVE ctx'[Slot(v)] = ctx[Slot(v)]
  BY <1>2, <1>t, FillElsewhere
<1>3. ASSUME NEW s \in Slots, Handle(s)
      PROVE  /\ ctx'[Slot(v)].tid = ctx[Slot(v)].tid
             /\ ctx[Slot(v)].steps <= ctx'[Slot(v)].steps
             /\ OpDone(Slot(v)) => ctx'[Slot(v)] = ctx[Slot(v)]
  BY <1>t, <1>s, <1>3, HandleEffect
<1>4. \A q \in Pipes : Slot(pipe[q].tid) \in Slots
  BY <1>t, SlotFacts DEF PipeStates
<1>5. \A w \in Workers : Slot(worker[w].tid) \in Slots
  BY <1>t, SlotFacts DEF WorkerStates
<1>6. \/ ctx' = ctx
      \/ \E u \in Tickets : Fill(u)
      \/ \E s \in Slots : Handle(s)
  <2>1. ASSUME NEW q \in Pipes, Pipe(q) PROVE ctx' = ctx \/ Handle(Slot(pipe[q].tid))
    BY <2>1 DEF Pipe, EntryBegin, InnerBegin, HandOver, ExitDone, ExitBegin, ExitHandle, Dispatch
  <2>2. ASSUME NEW w \in Workers, Worker(w) PROVE ctx' = ctx \/ Handle(Slot(worker[w].tid))
    BY <2>2 DEF Worker, WorkerBegin, WorkerStep, WorkerFinish, WorkerPush
  <2>3. Draw \/ MonInit \/ MonCommit \/ UNCHANGED vars => ctx' = ctx
    BY DEF Draw, MonInit, MonCommit, vars
  <2>4. ASSUME NEW u \in Tickets, Release(u) PROVE ctx' = ctx
    BY <2>4 DEF Release
  <2>5. QED
    BY <1>4, <1>5, <2>1, <2>2, <2>3, <2>4 DEF Next, Clients, Monitor
<1>7. ctx'[Slot(v)].steps \in Nat
  BY <1>s, TypeStep DEF IInv, TypeOK, Contexts
<1>8. QED
  BY <1>1, <1>2, <1>3, <1>6, <1>7, <1>s

LEMMA OrderStep == IInv /\ [Next]_vars => StageOrder'
<1> SUFFICES ASSUME IInv, [Next]_vars PROVE StageOrder'
  OBVIOUS
<1>t. /\ TypeOK /\ TypeOK' /\ MonitorInv /\ ClientInv /\ RingInv /\ PipeInv /\ WorkerInv
      /\ StageOrder /\ nCommitted \in Nat /\ nCommitted' \in Nat
      /\ pipe \in [Pipes -> PipeStates] /\ worker \in [Workers -> WorkerStates]
  BY TypeStep DEF IInv, TypeOK
<1>c. nCommitted <= nCommitted'
  <2>1. MonInit \/ MonCommit => nCommitted <= nCommitted'
    BY <1>t, MonitorEffect DEF MonitorInv
  <2>2. ~ (MonInit \/ MonCommit) => nCommitted' = nCommitted
    BY DEF Next, Draw, Clients, Fill, Release, Monitor, Pipe, EntryBegin, InnerBegin,
           HandOver, ExitDone, ExitBegin, ExitHandle, Dispatch, Worker, WorkerBegin,
           WorkerStep, WorkerFinish, WorkerPush, vars
  <2>3. QED
    BY <1>t, <2>1, <2>2
<1>p. \A q \in Pipes : /\ pipe[q].tid \in Nat /\ Slot(pipe[q].tid) \in Slots
                       /\ pipe[q].pc # "wait" => /\ nCommitted < pipe[q].tid
                                                 /\ pipe[q].tid <= mon.init
  BY <1>t, SlotFacts, Running DEF PipeStates
<1>w. \A w \in Workers : /\ worker[w].tid \in Nat /\ Slot(worker[w].tid) \in Slots
                         /\ Busy(w) => /\ nCommitted < worker[w].tid
                                       /\ worker[w].tid <= mon.init
  BY <1>t, SlotFacts, Working DEF WorkerStates
\* A ticket in flight whose context nobody touches.
<1>k. ASSUME NEW t \in Nat, nCommitted < t, t <= mon.init,
             Behind(Slot(t)), ctx'[Slot(t)] = ctx[Slot(t)]
      PROVE  Behind(Slot(t))'
  BY <1>t, <1>c, <1>k, ContextGrows, BehindFrame
<1>d. \A s \in Slots : ctx'[s] = ctx[s] => (OpDone(s)' <=> OpDone(s))
  BY DEF OpDone
\* Threads that keep running after a step that leaves their context alone.
<1>q. ASSUME NEW q \in Pipes, pipe'[q] = pipe[q],
             ctx'[Slot(pipe[q].tid)] = ctx[Slot(pipe[q].tid)]
      PROVE  (pipe[q].pc = "run" /\ ~ OpDone(Slot(pipe[q].tid)) => Behind(Slot(pipe[q].tid)))'
  BY <1>t, <1>p, <1>k, <1>q DEF StageOrder, OpDone, Slot
<1>v. ASSUME NEW w \in Workers, worker'[w] = worker[w],
             ctx'[Slot(worker[w].tid)] = ctx[Slot(worker[w].tid)]
      PROVE  (worker[w].pc = "run" => Behind(Slot(worker[w].tid)))'
  BY <1>t, <1>w, <1>k, <1>v DEF StageOrder, Slot, Busy
\* A step of another part of the controller.
<1>0. ASSUME UNCHANGED <<pipe, worker>>,
             \A t \in Nat : nCommitted < t /\ t <= mon.init => ctx'[Slot(t)] = ctx[Slot(t)]
      PROVE  StageOrder'
  <2>1. \A q \in Pipes : (pipe[q].pc = "run" /\ ~ OpDone(Slot(pipe[q].tid))
                           => Behind(Slot(pipe[q].tid)))'
    <3> SUFFICES ASSUME NEW q \in Pipes, pipe[q].pc = "run"
                 PROVE  (~ OpDone(Slot(pipe[q].tid)) => Behind(Slot(pipe[q].tid)))'
      BY <1>0
    <3>1. QED
      BY <1>0, <1>p, <1>q
  <2>2. \A w \in Workers : (worker[w].pc = "run" => Behind(Slot(worker[w].tid)))'
    <3> SUFFICES ASSUME NEW w \in Workers, worker[w].pc = "run"
                 PROVE  Behind(Slot(worker[w].tid))'
      BY <1>0
    <3>1. QED
      BY <1>0, <1>w, <1>v DEF Busy
  <2>3. QED
    BY <2>1, <2>2 DEF StageOrder
<1>1. CASE Draw \/ Monitor \/ (\E u \in Tickets : Release(u)) \/ UNCHANGED vars
  BY <1>0, <1>1 DEF Draw, Monitor, MonInit, MonCommit, Release, threadvars, vars
<1>2. ASSUME NEW u \in Tickets, Fill(u) PROVE StageOrder'
  <2>1. UNCHANGED <<pipe, worker>>
    BY <1>2 DEF Fill, threadvars
  <2>2. QED
    BY <1>0, <1>2, <1>t, <2>1, FillElsewhere
<1>3. ASSUME NEW q \in Pipes, Pipe(q) PROVE StageOrder'
  <2>p. PICK t \in Nat : t = pipe[q].tid
    BY <1>p
  <2>u. \A p \in Pipes \ {q} : pipe'[p] = pipe[p]
    BY <1>3, <1>t DEF Pipe, EntryBegin, InnerBegin, HandOver, ExitDone, ExitBegin,
                      ExitHandle, Dispatch, NextTicket
  <2>1. CASE EntryBegin(q) \/ InnerBegin(q) \/ ExitBegin(q)
    <3>1. UNCHANGED <<ctx, worker, nCommitted>> /\ pipe[q].pc = "wait"
      BY <2>1 DEF EntryBegin, InnerBegin, ExitBegin
    <3>2. Behind(Slot(t))
      BY <2>1, <2>p, BeginBehind
    <3>3. pipe'[q].tid = t
      BY <2>1, <2>p, <1>t DEF EntryBegin, InnerBegin, ExitBegin, PipeStates
    <3>4. Behind(Slot(t))'
      BY <3>1, <3>2 DEF Behind, OpDone, Slot
    <3>5. \A p \in Pipes : (pipe[p].pc = "run" /\ ~ OpDone(Slot(pipe[p].tid))
                            => Behind(Slot(pipe[p].tid)))'
      <4>1. (Behind(Slot(pipe[q].tid)))'
        BY <3>3, <3>4 DEF Behind, OpDone, Slot
      <4>2. ASSUME NEW p \in Pipes \ {q}
            PROVE  (pipe[p].pc = "run" /\ ~ OpDone(Slot(pipe[p].tid))
                    => Behind(Slot(pipe[p].tid)))'
        BY <2>u, <3>1, <1>q
      <4>3. QED
        BY <4>1, <4>2
    <3>6. \A w \in Workers : (worker[w].pc = "run" => Behind(Slot(worker[w].tid)))'
      BY <3>1, <1>v
    <3>7. QED
      BY <3>5, <3>6 DEF StageOrder
  <2>2. CASE ExitDone(q) \/ Dispatch(q)
    <3>1. UNCHANGED <<ctx, nCommitted>> /\ pipe'[q].pc = "wait"
      BY <2>2, <1>t DEF ExitDone, Dispatch, NextTicket
    <3>2. \A w \in Workers : worker'[w] = worker[w] \/ worker'[w].pc = "wait"
      BY <2>2, <1>t DEF ExitDone, Dispatch
    <3>3. \A p \in Pipes : (pipe[p].pc = "run" /\ ~ OpDone(Slot(pipe[p].tid))
                            => Behind(Slot(pipe[p].tid)))'
      BY <2>u, <3>1, <1>q
    <3>4. \A w \in Workers : (worker[w].pc = "run" => Behind(Slot(worker[w].tid)))'
      BY <3>1, <3>2, <1>v
    <3>5. QED
      BY <3>3, <3>4 DEF StageOrder
  <2>3. CASE HandOver(q) \/ ExitHandle(q)
    <3>1. /\ Handle(Slot(t)) /\ UNCHANGED worker /\ pipe[q].pc = "run"
          /\ pipe'[q].pc # "run"
      BY <2>3, <2>p, <1>t DEF HandOver, ExitHandle, NextTicket, PipeStates
    <3>2. /\ nCommitted < t /\ t <= mon.init /\ Slot(t) \in Slots
          /\ \A r \in Slots \ {Slot(t)} : ctx'[r] = ctx[r]
      BY <2>p, <3>1, <1>t, <1>p, HandleEffect
    <3>3. ASSUME NEW p \in Pipes, (pipe[p].pc = "run")'
          PROVE  (~ OpDone(Slot(pipe[p].tid)) => Behind(Slot(pipe[p].tid)))'
      <4>1. p # q /\ pipe'[p] = pipe[p] /\ pipe[p].pc = "run"
        BY <2>u, <3>1, <3>3
      <4>2. pipe[p].tid # t
        BY <2>p, <3>1, <4>1, <1>t, RunApart
      <4>3. Slot(pipe[p].tid) # Slot(t)
        BY <1>t, <1>p, <3>2, <4>1, <4>2, OtherSlot
      <4>4. QED
        BY <1>p, <1>q, <3>2, <4>1, <4>3
    <3>4. ASSUME NEW w \in Workers, (worker[w].pc = "run")'
          PROVE  Behind(Slot(worker[w].tid))'
      <4>1. worker'[w] = worker[w] /\ Busy(w)
        BY <3>1, <3>4 DEF Busy
      <4>2. worker[w].tid # t
        BY <2>p, <4>1, <1>t, <1>p DEF WorkerInv, WorkerOK
      <4>3. Slot(worker[w].tid) # Slot(t)
        BY <1>t, <1>w, <3>2, <4>1, <4>2, OtherSlot
      <4>4. QED
        BY <1>w, <1>v, <3>2, <3>4, <4>1, <4>3
    <3>5. QED
      BY <3>3, <3>4 DEF StageOrder
  <2>4. QED
    BY <1>3, <2>1, <2>2, <2>3 DEF Pipe
<1>4. ASSUME NEW w \in Workers, Worker(w) PROVE StageOrder'
  <2>p. PICK t \in Nat : t = worker[w].tid
    BY <1>w
  <2>u. UNCHANGED <<pipe, nCommitted>> /\ \A v \in Workers \ {w} : worker'[v] = worker[v]
    BY <1>4, <1>t DEF Worker, WorkerBegin, WorkerStep, WorkerFinish, WorkerPush
  <2>1. CASE WorkerFinish(w) \/ WorkerPush(w)
    <3>1. UNCHANGED ctx /\ worker'[w].pc # "run"
      BY <2>1, <1>t DEF WorkerFinish, WorkerPush
    <3>2. \A p \in Pipes : (pipe[p].pc = "run" /\ ~ OpDone(Slot(pipe[p].tid))
                            => Behind(Slot(pipe[p].tid)))'
      BY <2>u, <3>1, <1>q
    <3>3. \A v \in Workers : (worker[v].pc = "run" => Behind(Slot(worker[v].tid)))'
      BY <2>u, <3>1, <1>v
    <3>4. QED
      BY <3>2, <3>3 DEF StageOrder
  <2>2. CASE WorkerBegin(w)
    <3>1. /\ UNCHANGED ctx /\ worker'[w].tid = t /\ Busy(w) /\ ~ OpDone(Slot(t))
          /\ WaitStage(Slot(t), worker[w].stage + 1)
      BY <2>2, <2>p, <1>t DEF WorkerBegin, WorkerStates, Busy
    <3>2. /\ nCommitted < t /\ t <= mon.init
          /\ ctx[Slot(t)].steps = NPipes + worker[w].stage - 1
          /\ worker[w].stage \in Nat
      BY <2>p, <3>1, <1>t, <1>w DEF WorkerInv, WorkerOK, WorkerStates
    <3>3. Behind(Slot(t))
      <4>1. PICK k \in Nat \ {0} : k = worker[w].stage + 1
        BY <3>2
      <4>2. ctx[Slot(t)].steps <= NPipes + k - 2
        BY <3>2, <4>1, PipesAssumption
      <4>3. QED
        BY <3>1, <3>2, <4>1, <4>2, StageAhead
    <3>4. (Behind(Slot(worker[w].tid)))'
      BY <2>u, <3>1, <3>3 DEF Behind, OpDone, Slot
    <3>5. \A p \in Pipes : (pipe[p].pc = "run" /\ ~ OpDone(Slot(pipe[p].tid))
                            => Behind(Slot(pipe[p].tid)))'
      BY <2>u, <3>1, <1>q
    <3>6. \A v \in Workers : (worker[v].pc = "run" => Behind(Slot(worker[v].tid)))'
      BY <2>u, <3>1, <3>4, <1>v
    <3>7. QED
      BY <3>5, <3>6 DEF StageOrder
  <2>3. CASE WorkerStep(w)
    <3>1. /\ Handle(Slot(t)) /\ Busy(w) /\ worker'[w].pc # "run"
      BY <2>3, <2>p, <1>t DEF WorkerStep, Busy
    <3>2. /\ nCommitted < t /\ t <= mon.init /\ Slot(t) \in Slots
          /\ \A r \in Slots \ {Slot(t)} : ctx'[r] = ctx[r]
      BY <2>p, <3>1, <1>t, <1>w, HandleEffect
    <3>3. ASSUME NEW p \in Pipes, (pipe[p].pc = "run")'
          PROVE  (~ OpDone(Slot(pipe[p].tid)) => Behind(Slot(pipe[p].tid)))'
      <4>1. pipe'[p] = pipe[p] /\ pipe[p].pc = "run"
        BY <2>u, <3>3
      <4>2. pipe[p].tid # t
        BY <2>p, <3>1, <1>t, <1>p DEF WorkerInv, WorkerOK
      <4>3. Slot(pipe[p].tid) # Slot(t)
        BY <1>t, <1>p, <3>2, <4>1, <4>2, OtherSlot
      <4>4. QED
        BY <1>p, <1>q, <3>2, <4>1, <4>3
    <3>4. ASSUME NEW v \in Workers, (worker[v].pc = "run")'
          PROVE  Behind(Slot(worker[v].tid))'
      <4>1. v # w /\ worker'[v] = worker[v] /\ Busy(v)
        BY <2>u, <3>1, <3>4 DEF Busy
      <4>2. worker[v].tid # t
        BY <2>p, <3>1, <4>1, <1>t DEF WorkerInv
      <4>3. Slot(worker[v].tid) # Slot(t)
        BY <1>t, <1>w, <3>2, <4>1, <4>2, OtherSlot
      <4>4. QED
        BY <1>w, <1>v, <3>2, <3>4, <4>1, <4>3
    <3>5. QED
      BY <3>3, <3>4 DEF StageOrder
  <2>4. QED
    BY <1>4, <2>1, <2>2, <2>3 DEF Worker
<1>5. QED
  BY <1>1, <1>2, <1>3, <1>4 DEF Next, Clients

-----------------------------------------------------------------------------
(* What the invariant says of the ring.                                    *)

\* Every state of the controller satisfies the invariant.
THEOREM Invariance == Spec => []IInv
<1>1. Init => IInv
  BY InitIInv
<1>2. IInv /\ [Next]_vars => IInv'
  BY TypeStep, MonitorStep, PipeStep, WorkersStep, RingStep, OrderStep DEF IInv
<1>3. QED
  BY <1>1, <1>2, PTL DEF Spec

\* The users of a slot, by kind.
LEMMA UserKinds ==
  ASSUME NEW s \in Slots, NEW u \in Users(s)
  PROVE  \/ \E t \in Tickets : /\ u = <<"client", t>> /\ client[t] = "filling" /\ Slot(t) = s
         \/ \E q \in Pipes : /\ u = <<q, pipe[q].tid>> /\ pipe[q].pc = "run"
                             /\ Slot(pipe[q].tid) = s
         \/ \E w \in Workers : /\ u = <<w, worker[w].tid>> /\ Busy(w)
                               /\ Slot(worker[w].tid) = s
BY DEF Users, Busy

\* A user of a slot works on a ticket of the window, and the slot holds it.
LEMMA UserTicket ==
  ASSUME IInv, NEW s \in Slots, NEW u \in Users(s)
  PROVE  u[2] \in Window /\ Slot(u[2]) = s /\ ctx[s].tid = u[2]
<1>t. TypeOK /\ MonitorInv /\ ClientInv /\ RingInv /\ PipeInv /\ WorkerInv
  BY DEF IInv
<1>1. ASSUME NEW t \in Tickets, u = <<"client", t>>, client[t] = "filling", Slot(t) = s
      PROVE  u[2] \in Window /\ Slot(u[2]) = s /\ ctx[s].tid = u[2]
  <2>1. ~ (t <= mon.init) /\ t < nCommitted + B /\ t \in Nat
    BY <1>1, <1>t, TicketAssumption DEF ClientInv, Tickets
  <2>2. t \in Window
    BY <2>1, <1>t, RingAssumption DEF Window, TypeOK, MonitorInv, MonStates
  <2>3. SlotOK(t)
    BY <2>2, <1>t DEF RingInv
  <2>4. QED
    BY <1>1, <2>2, <2>3 DEF SlotOK
<1>2. ASSUME NEW q \in Pipes, u = <<q, pipe[q].tid>>, pipe[q].pc = "run",
             Slot(pipe[q].tid) = s
      PROVE  u[2] \in Window /\ Slot(u[2]) = s /\ ctx[s].tid = u[2]
  BY <1>2, <1>t, Running, InFlight
<1>3. ASSUME NEW w \in Workers, u = <<w, worker[w].tid>>, Busy(w), Slot(worker[w].tid) = s
      PROVE  u[2] \in Window /\ Slot(u[2]) = s /\ ctx[s].tid = u[2]
  BY <1>3, <1>t, Working, InFlight
<1>4. QED
  BY <1>1, <1>2, <1>3, UserKinds

LEMMA InvOneOwner == IInv => OneOwner
<1> SUFFICES ASSUME IInv, NEW s \in Slots, NEW u \in Users(s), NEW v \in Users(s)
             PROVE  u = v
  BY UserTicket DEF OneOwner
<1>t. TypeOK /\ MonitorInv /\ ClientInv /\ RingInv /\ PipeInv /\ WorkerInv
  BY DEF IInv
<1>1. u[2] = v[2]
  BY <1>t, UserTicket, WindowSlots
\* A ticket still being filled has no thread yet.
<1>2. ASSUME NEW t \in Tickets, client[t] = "filling"
      PROVE  /\ \A q \in Pipes : pipe[q].pc = "run" => pipe[q].tid # t
             /\ \A w \in Workers : Busy(w) => worker[w].tid # t
  <2>1. ~ (t <= mon.init)
    BY <1>2, <1>t DEF ClientInv
  <2>2. QED
    BY <1>t, <2>1, Running, Working
\* A ticket given to a worker has left the pipe.
<1>3. ASSUME NEW q \in Pipes, NEW w \in Workers, Busy(w)
      PROVE  pipe[q].tid # worker[w].tid
  BY <1>3, <1>t DEF WorkerInv, WorkerOK, TypeOK, PipeStates, WorkerStates
<1>4. \A p, q \in Pipes : pipe[p].pc = "run" /\ pipe[q].pc = "run"
                          /\ pipe[p].tid = pipe[q].tid => p = q
  BY <1>t, RunApart
<1>5. \A w, x \in Workers : Busy(w) /\ Busy(x) /\ worker[w].tid = worker[x].tid => w = x
  BY <1>t DEF WorkerInv
<1>6. CASE \E t \in Tickets : u = <<"client", t>> /\ client[t] = "filling"
  BY <1>1, <1>2, <1>6, UserKinds
<1>7. CASE \E q \in Pipes : u = <<q, pipe[q].tid>> /\ pipe[q].pc = "run"
  BY <1>1, <1>2, <1>3, <1>4, <1>7, UserKinds
<1>8. CASE \E w \in Workers : u = <<w, worker[w].tid>> /\ Busy(w)
  BY <1>1, <1>2, <1>3, <1>5, <1>8, UserKinds
<1>9. QED
  BY <1>6, <1>7, <1>8, UserKinds

LEMMA InvPreviousRoot == IInv => PreviousRoot
<1> SUFFICES ASSUME IInv, NEW q \in Pipes, pipe[q].pc = "run", EntryOf(pipe[q].tid) = q
             PROVE  LET t == pipe[q].tid IN
                    /\ ctx[Slot(t - 1)].tid = t - 1
                    /\ t > 1 => ctx[Slot(t - 1)].steps >= 1
  BY DEF PreviousRoot
<1>t. /\ TypeOK /\ MonitorInv /\ ClientInv /\ RingInv /\ PipeInv
      /\ Last \in Nat \ {0} /\ nCommitted \in Nat /\ mon \in MonStates
  BY PipesAssumption DEF IInv, TypeOK, Last
<1>p. PICK t \in Nat \ {0} : t = pipe[q].tid
  BY <1>t DEF TypeOK, PipeStates
<1>v. PICK v \in Nat : v = t - 1
  OBVIOUS
<1>1. mon.comm < t /\ t <= mon.init /\ nCommitted < t
  BY <1>p, <1>t, Running
<1>2. /\ ctx[Slot(v)].tid = v
      /\ v >= 1 => /\ ctx[Slot(v)].need >= 1 /\ ctx[Slot(v)].steps \in Nat
                   /\ Progress(v)
                   /\ mon.comm < v \/ stage[Slot(v)] = Done
  <2>1. t \in Window
    BY <1>1, <1>t, InFlight
  <2>2. v \in Window
    BY <2>1, <1>1, <1>t, <1>v, RingAssumption DEF Window, MonitorInv, MonStates
  <2>3. SlotOK(v) /\ Slot(v) \in Slots
    BY <2>2, <1>t, SlotFacts DEF RingInv
  <2>4. v >= 1 => v \in Tickets /\ client[v] = "returned"
    <3>1. v <= MaxTicket /\ v <= mon.init
      BY <1>1, <1>v, <1>t, TicketAssumption DEF MonitorInv, MonStates, TypeOK
    <3>2. QED
      BY <3>1, <1>t, TicketAssumption DEF ClientInv, Tickets
  <2>5. v >= 1 => ctx[Slot(v)].need >= 1 /\ Progress(v) /\ ctx[Slot(v)].tid = v
    BY <2>3, <2>4, TicketAssumption DEF SlotOK
  <2>6. v = 0 => v <= mon.comm
    BY <1>t DEF MonStates
  <2>7. QED
    BY <2>3, <2>5, <2>6, <1>t DEF SlotOK, TypeOK, Contexts, MonStates
<1>3. ASSUME v >= 1 PROVE ctx[Slot(v)].steps >= 1
  <2>1. CASE stage[Slot(v)] = Done
    BY <1>2, <1>3, <2>1 DEF Progress, OpDone
  <2>2. CASE stage[Slot(v)] # Done
    <3>1. Rank(q, t) = 0
      BY <1>p, RoleFacts
    <3>2. Rank(q, t - 1) = 1
      BY <1>t, <3>1, RankShift
    <3>3. Passed(q, v)
      BY <1>p, <1>v DEF Passed
    <3>4. OpDone(Slot(v)) \/ ctx[Slot(v)].steps > 1
      BY <1>2, <1>3, <1>v, <3>2, <3>3 DEF Progress
    <3>5. QED
      BY <1>2, <1>3, <3>4 DEF OpDone
  <2>3. QED
    BY <2>1, <2>2
<1>4. QED
  BY <1>p, <1>v, <1>2, <1>3

\* Ring reuse.  However many threads, slots and tickets there are, a slot of
\* ctxs_ has one user at a time - the client that fills it, one pipe thread or
\* one worker - and holds that user's ticket.
THEOREM SlotHasOneOwner == Spec => []OneOwner
BY Invariance, InvOneOwner, PTL

\* process_entry starts from ctxs_[(tid - 1) % BUFFER_SIZE].root: while it runs, that
\* slot still holds the ticket before, with its root made.
THEOREM PreviousRootPresent == Spec => []PreviousRoot
BY Invariance, InvPreviousRoot, PTL

\* wait_stage and the order of the pipe threads keep every handler behind the
\* handler that completes the node it copies from.
THEOREM HandlersInOrder == Spec => []StageOrder
<1>1. IInv => StageOrder
  BY DEF IInv
<1>2. QED
  BY <1>1, Invariance, PTL
=============================================================================
