--------------------------- MODULE ShutdownProofs ---------------------------
(***************************************************************************)
(* Proofs about Shutdown for any number of pipe threads, batch, tickets    *)
(* and clients, and for both controllers: a controller that stops has      *)
(* committed everything, and a collection reflects the guards dropped      *)
(* before it was asked for.                                                *)
(***************************************************************************)
EXTENDS Shutdown, WellFoundedInduction, TLAPS

(***************************************************************************)
(* The strengthening.  Rank(q, t) is the position of pipe thread q in the  *)
(* chain that handles ticket t: it moves with the ticket if the roles      *)
(* rotate.  Held are the versions a reader may still enter.                *)
(***************************************************************************)
Rank(q, t) == IF rotating THEN (q - t + 1) % NPipes ELSE q
Last == NPipes - 1
Held == Guarded \cup {mon.comm}

PipeStates   == [pc : {"test", "batch", "rest", "ended"}, next : Nat \ {0}, last : Nat]
MonStates    == [pc : {"pass", "request", "scan", "acknowledge", "ended"},
                 stop : BOOLEAN, sub : Nat, comm : Nat, req : Nat, frontier : Nat]
ClientStates == [guard : Nat \cup {None}, req : Nat, need : Nat]

TypeOK ==
  /\ bound \in Nat \X Nat /\ rotating \in BOOLEAN /\ stop \in BOOLEAN
  /\ nSubmitted \in Nat /\ nInited \in Nat /\ committed \in Nat
  /\ pace \in [Pipes -> Nat] /\ pipe \in [Pipes -> PipeStates]
  /\ mon \in MonStates
  /\ requested \in Nat /\ completed \in Nat /\ reclaimed \in Nat
  /\ client \in [Clients -> ClientStates]

\* Where a thread stands in its iteration; the last one goes up to nSubmitted,
\* which no longer moves.
ControlInv ==
  \A q \in Pipes :
    /\ pipe[q].pc = "test" => pipe[q].next = pipe[q].last + 1
    /\ pipe[q].pc = "batch" => pipe[q].next <= pipe[q].last + 1
    /\ pipe[q].pc \in {"rest", "ended"} => stop /\ nSubmitted <= pipe[q].last
    /\ pipe[q].pc = "ended" => pipe[q].last < pipe[q].next

MonitorInv ==
  /\ mon.stop => stop
  /\ IF mon.pc = "ended" THEN stop ELSE nInited <= nSubmitted
  /\ mon.comm <= committed

\* A thread that passed a ticket comes after every thread of a lower rank.
PipeInv ==
  /\ \A q \in Pipes : pace[Follow(q)] < pipe[q].next /\ pipe[q].next - 1 <= nInited
  /\ \A p, q \in Pipes : \A t \in Nat :
       t < pipe[q].next /\ Rank(p, t) <= Rank(q, t) => t < pipe[p].next

\* A submitted ticket is committed when its exit has passed it, and not before.
CommitInv ==
  /\ committed <= nSubmitted
  /\ \A q \in Pipes : committed < pipe[q].next
  /\ \A q \in Pipes : \A t \in Nat :
       t < pipe[q].next /\ Rank(q, t) = Last /\ t <= nSubmitted => t <= committed

\* What a request must reclaim is no longer held, and is reclaimed before the
\* request is acknowledged.
CollectInv ==
  /\ mon.req <= requested /\ completed <= requested
  /\ \A c \in Clients :
       /\ client[c].req <= requested
       /\ client[c].req > 0 =>
            /\ \A v \in Held : client[c].need <= v
            /\ mon.pc = "acknowledge" /\ client[c].req <= mon.req => client[c].need <= reclaimed
            /\ client[c].req <= completed => client[c].need <= reclaimed

IInv == TypeOK /\ ControlInv /\ MonitorInv /\ PipeInv /\ CommitInv /\ CollectInv
-----------------------------------------------------------------------------
(* Ranks, rounds and minima.                                               *)

LEMMA NPipesPositive == NPipes \in Nat \ {0}
BY PipesAssumption

\* A remainder is the rest left by any quotient that leaves it in range.
LEMMA ModUnique ==
  ASSUME NEW m \in Nat \ {0}, NEW a \in Int, NEW k \in Int, NEW r \in 0 .. m - 1,
         a = (m * k) + r
  PROVE  a % m = r
<1> DEFINE d == a \div m
           s == a % m
<1>1. d \in Int /\ s \in 0 .. m - 1 /\ a = (m * d) + s
  OBVIOUS
<1> HIDE DEF d, s
<1>2. ASSUME d < k PROVE FALSE
  <2>1. m * (k - d) >= m
    BY <1>1, <1>2
  <2>2. QED
    BY <2>1, <1>1
<1>3. ASSUME d > k PROVE FALSE
  <2>1. m * (d - k) >= m
    BY <1>1, <1>3
  <2>2. QED
    BY <2>1, <1>1
<1>4. s = r
  BY <1>1, <1>2, <1>3
<1>5. QED
  BY <1>4 DEF s

\* Ticket t starts at thread (t - 1) % NPipes and goes round once.
LEMMA RankIs ==
  ASSUME rotating, NEW t \in Int
  PROVE  \E x \in Pipes :
           /\ x = EntryOf(t) /\ ExitOf(t) = IF x = 0 THEN Last ELSE x - 1
           /\ \A q \in Pipes : Rank(q, t) = IF q >= x THEN q - x ELSE (q - x) + NPipes
<1>1. PICK n \in Nat \ {0} : n = NPipes
  BY NPipesPositive
<1>2. PICK b \in Int : b = t - 1
  OBVIOUS
<1>3. PICK d \in Int, x \in 0 .. n - 1 : d = b \div n /\ x = b % n /\ b = (n * d) + x
  OBVIOUS
<1>4. x \in Pipes /\ x = EntryOf(t)
  BY <1>1, <1>2, <1>3 DEF Pipes, EntryOf
<1>5. ExitOf(t) = IF x = 0 THEN Last ELSE x - 1
  <2>1. PICK a \in Int : a = t + n - 2
    OBVIOUS
  <2>2. a = b + (n - 1)
    BY <1>2, <2>1
  <2>3. CASE x = 0
    <3>1. a = (n * d) + (n - 1) /\ n - 1 \in 0 .. n - 1
      BY <1>3, <2>2, <2>3
    <3>2. a % n = n - 1
      BY ONLY <3>1, a \in Int, d \in Int, n \in Nat \ {0}, ModUnique
    <3>3. QED
      BY <1>1, <2>1, <2>3, <3>2 DEF ExitOf, Last
  <2>4. CASE x # 0
    <3>1. a = (n * (d + 1)) + (x - 1) /\ x - 1 \in 0 .. n - 1
      BY <1>3, <2>2, <2>4
    <3>2. a % n = x - 1
      BY ONLY <3>1, a \in Int, d \in Int, x \in 0 .. n - 1, n \in Nat \ {0}, ModUnique
    <3>3. QED
      BY <1>1, <2>1, <2>4, <3>2 DEF ExitOf
  <2>5. QED
    BY <2>3, <2>4
<1>6. ASSUME NEW q \in Pipes PROVE Rank(q, t) = IF q >= x THEN q - x ELSE (q - x) + n
  <2>1. PICK a \in Int : a = q - t + 1
    BY <1>1 DEF Pipes
  <2>2. q \in 0 .. n - 1 /\ a = q - b
    BY <1>1, <1>2, <2>1 DEF Pipes
  <2>3. CASE q >= x
    <3>1. a = (n * (0 - d)) + (q - x) /\ q - x \in 0 .. n - 1
      BY <1>3, <2>2, <2>3
    <3>2. a % n = q - x
      BY ONLY <3>1, <2>2, a \in Int, d \in Int, x \in 0 .. n - 1, n \in Nat \ {0}, ModUnique
    <3>3. QED
      BY <1>1, <2>1, <2>3, <3>2 DEF Rank
  <2>4. CASE q < x
    <3>1. PICK k \in Int, r \in 0 .. n - 1 : k = 0 - (d + 1) /\ r = (q - x) + n
      BY <2>2, <2>4
    <3>b. a = (n * k) + r
      BY <1>3, <2>2, <3>1
    <3>2. a % n = r
      BY ONLY <3>b, a \in Int, k \in Int, r \in 0 .. n - 1, n \in Nat \ {0}, ModUnique
    <3>3. ~ (q >= x)
      BY <2>2, <2>4, x \in 0 .. n - 1
    <3>4. Rank(q, t) = a % n
      BY <1>1, <2>1 DEF Rank
    <3>5. QED
      BY <3>1, <3>2, <3>3, <3>4
  <2>5. QED
    BY <2>2, <2>3, <2>4
<1>7. QED
  BY <1>1, <1>4, <1>5, <1>6

LEMMA FollowIs ==
  ASSUME NEW q \in Pipes
  PROVE  Follow(q) = IF q = Last THEN 0 ELSE q + 1
<1>1. PICK n \in Nat \ {0} : n = NPipes /\ q \in 0 .. n - 1
  BY NPipesPositive DEF Pipes
<1>2. CASE q = n - 1
  BY <1>1, <1>2, ModUnique DEF Follow, Last
<1>3. CASE q # n - 1
  BY <1>1, <1>3, ModUnique DEF Follow, Last
<1>4. QED
  BY <1>2, <1>3

\* The ranks of the pipe threads on one ticket are 0 .. Last, each once.
LEMMA RankFacts ==
  ASSUME TypeOK, NEW t \in Int
  PROVE  /\ \A q \in Pipes : Rank(q, t) \in 0 .. Last
         /\ \A p, q \in Pipes : Rank(p, t) = Rank(q, t) => p = q
         /\ \A k \in 0 .. Last : \E q \in Pipes : Rank(q, t) = k
<1>1. CASE rotating
  <2>1. PICK x \in Pipes : \A q \in Pipes : Rank(q, t) = IF q >= x THEN q - x ELSE (q - x) + NPipes
    BY <1>1, RankIs
  <2>2. \A q \in Pipes : Rank(q, t) \in 0 .. Last
    BY <2>1, NPipesPositive DEF Pipes, Last
  <2>3. \A p, q \in Pipes : Rank(p, t) = Rank(q, t) => p = q
    BY <2>1, NPipesPositive DEF Pipes
  <2>4. ASSUME NEW k \in 0 .. Last PROVE \E q \in Pipes : Rank(q, t) = k
    <3>1. PICK q \in Int : q = IF k + x <= Last THEN k + x ELSE (k + x) - NPipes
      BY NPipesPositive DEF Pipes, Last
    <3>2. q \in Pipes /\ k = IF q >= x THEN q - x ELSE (q - x) + NPipes
      BY <3>1, NPipesPositive DEF Pipes, Last
    <3>3. QED
      BY <2>1, <3>2
  <2>5. QED
    BY <2>2, <2>3, <2>4
<1>2. CASE ~ rotating
  BY <1>2, NPipesPositive DEF Rank, Pipes, Last
<1>3. QED
  BY <1>1, <1>2

\* Entry and exit in terms of ranks.
LEMMA RoleFacts ==
  ASSUME TypeOK, NEW q \in Pipes, NEW t \in Nat
  PROVE  /\ EntryOf(t) = q <=> Rank(q, t) = 0
         /\ ExitOf(t) = q <=> Rank(q, t) = Last
<1>1. CASE rotating
  <2>1. PICK x \in Pipes : /\ x = EntryOf(t) /\ ExitOf(t) = IF x = 0 THEN Last ELSE x - 1
                           /\ Rank(q, t) = IF q >= x THEN q - x ELSE (q - x) + NPipes
    BY <1>1, RankIs
  <2>2. QED
    BY <2>1, NPipesPositive DEF Pipes, Last
<1>2. CASE ~ rotating
  BY <1>2, NPipesPositive DEF Pipes, Last, Rank, EntryOf, ExitOf
<1>3. QED
  BY <1>1, <1>2

\* The following thread has the next rank; every thread follows one other.
LEMMA FollowFacts ==
  ASSUME TypeOK, NEW q \in Pipes
  PROVE  /\ Follow(q) \in Pipes
         /\ \A p \in Pipes : Follow(p) = Follow(q) => p = q
         /\ \A t \in Int : Rank(q, t) # Last => Rank(Follow(q), t) = Rank(q, t) + 1
<1>1. \A p \in Pipes : Follow(p) = IF p = Last THEN 0 ELSE p + 1
  BY FollowIs
<1>2. /\ Follow(q) \in Pipes
      /\ \A p \in Pipes : Follow(p) = Follow(q) => p = q
  BY <1>1, NPipesPositive DEF Pipes, Last
<1>3. CASE rotating
  <2>1. ASSUME NEW t \in Int, Rank(q, t) # Last
        PROVE  Rank(Follow(q), t) = Rank(q, t) + 1
    <3>1. PICK x \in Pipes : \A p \in Pipes : Rank(p, t) = IF p >= x THEN p - x ELSE (p - x) + NPipes
      BY <1>3, RankIs
    <3>2. QED
      BY <1>1, <1>2, <2>1, <3>1, NPipesPositive DEF Pipes, Last
  <2>2. QED
    BY <1>2, <2>1
<1>4. CASE ~ rotating
  BY <1>1, <1>2, <1>4 DEF Rank
<1>5. QED
  BY <1>3, <1>4

\* The thread before q in the chain of a ticket that q does not take in.
LEMMA Predecessor ==
  ASSUME TypeOK, NEW q \in Pipes, NEW t \in Nat, Rank(q, t) # 0
  PROVE  \E r \in Pipes : Follow(r) = q /\ Rank(r, t) = Rank(q, t) - 1
<1>1. PICK k \in Nat : k + 1 = Rank(q, t) /\ k \in 0 .. Last /\ k # Last
  <2>1. Rank(q, t) \in 1 .. Last
    BY RankFacts, NPipesPositive DEF Last
  <2>2. Rank(q, t) - 1 \in Nat /\ Rank(q, t) - 1 \in 0 .. Last /\ Rank(q, t) - 1 # Last
    BY <2>1, NPipesPositive DEF Last
  <2>3. QED
    BY <2>1, <2>2
<1>2. PICK r \in Pipes : Rank(r, t) = k
  BY <1>1, RankFacts
<1>3. Rank(Follow(r), t) = k + 1 /\ Follow(r) \in Pipes
  BY <1>1, <1>2, FollowFacts
<1>4. Follow(r) = q
  BY <1>1, <1>3, RankFacts
<1>5. QED
  BY <1>1, <1>2, <1>4

\* The last iteration of a thread does not stop before the last ticket.
LEMMA RoundCovers ==
  ASSUME TypeOK, NEW a \in Nat, NEW b \in Nat
  PROVE  RoundEnd(a, b) \in Nat /\ b <= RoundEnd(a, b)
<1>1. CASE rotating /\ b > a
  <2>1. PICK n \in Nat \ {0} : n = NPipes
    BY NPipesPositive
  <2>2. PICK d \in Nat : d = b - a
    BY <1>1
  <2> DEFINE x == d + (n - 1)
             k == x \div n
             r == x % n
  <2>3. k \in Int /\ r \in 0 .. n - 1 /\ x = (n * k) + r
    OBVIOUS
  <2>4. RoundEnd(a, b) = a + (n * k)
    <3>1. RoundEnd(a, b) = a + NPipes * ((b - a + NPipes - 1) \div NPipes)
      BY <1>1 DEF RoundEnd
    <3>2. b - a + NPipes - 1 = x
      BY <2>1, <2>2
    <3>3. QED
      BY <2>1, <3>1, <3>2
  <2>5. n * k \in Int
    BY <2>3
  <2> HIDE DEF k, r
  <2>6. d <= n * k
    BY <2>3, <2>5
  <2>7. QED
    BY <2>2, <2>4, <2>5, <2>6
<1>2. CASE ~ (rotating /\ b > a)
  BY <1>2 DEF RoundEnd
<1>3. QED
  BY <1>1, <1>2

\* A non-empty set of versions has a lowest one.
LEMMA LowestFacts ==
  ASSUME NEW S, S \subseteq Nat, S # {}
  PROVE  Lowest(S) \in S /\ \A v \in S : Lowest(S) <= v
<1> DEFINE R == {uv \in Nat \X Nat : uv[1] < uv[2]}
<1>1. IsWellFoundedOn(R, Nat)
  BY NatLessThanWellFounded DEF OpToRel
<1> HIDE DEF R
<1>2. PICK u \in S : \A v \in S : ~ (<<v, u>> \in R)
  BY <1>1, WFMin
<1>3. ASSUME NEW v \in S PROVE u <= v
  <2>1. ~ (<<v, u>> \in R)
    BY <1>2
  <2>2. QED
    BY <2>1 DEF R
<1>4. QED
  BY <1>3 DEF Lowest

LEMMA HeldFacts == TypeOK => /\ Held \subseteq Nat
                             /\ Lowest(Held) \in Held /\ \A v \in Held : Lowest(Held) <= v
<1> SUFFICES ASSUME TypeOK
             PROVE  /\ Held \subseteq Nat
                    /\ Lowest(Held) \in Held /\ \A v \in Held : Lowest(Held) <= v
  OBVIOUS
<1>1. Held \subseteq Nat
  BY DEF TypeOK, Held, Guarded, ClientStates, MonStates
<1>2. Held # {}
  BY DEF Held
<1>3. QED
  BY <1>1, <1>2, LowestFacts
-----------------------------------------------------------------------------
(* Initial states and types.                                               *)

LEMMA InitIInv == Init => IInv
<1> SUFFICES ASSUME Init PROVE IInv
  OBVIOUS
<1>b. bound \in Nat \X Nat /\ rotating \in BOOLEAN
  BY PipesAssumption, BatchAssumption DEF Init
<1> USE DEF Init
<1>1. TypeOK
  <2>1. mon \in MonStates
    BY DEF MonStates
  <2>2. pipe \in [Pipes -> PipeStates] /\ pace \in [Pipes -> Nat]
    BY DEF PipeStates
  <2>3. client \in [Clients -> ClientStates]
    BY DEF ClientStates
  <2>4. QED
    BY <1>b, <2>1, <2>2, <2>3 DEF TypeOK
<1>2. ControlInv /\ MonitorInv
  BY DEF ControlInv, MonitorInv
<1>3. PipeInv
  BY <1>1, FollowFacts DEF PipeInv
<1>4. CommitInv
  BY DEF CommitInv
<1>5. CollectInv
  BY DEF CollectInv
<1>6. QED
  BY <1>1, <1>2, <1>3, <1>4, <1>5 DEF IInv

\* What a step of a pipe thread does: it moves itself on, and a ticket with it.
LEMMA PipeEffect ==
  ASSUME TypeOK, NEW q \in Pipes, Pipe(q)
  PROVE  /\ pipe' \in [Pipes -> PipeStates] /\ pace' \in [Pipes -> Nat] /\ committed' \in Nat
         /\ \A p \in Pipes \ {q} : pipe'[p] = pipe[p]
         /\ UNCHANGED <<bound, rotating, calm, stop, nSubmitted, nInited, mon, gcvars>>
<1>t. pipe \in [Pipes -> PipeStates] /\ pace \in [Pipes -> Nat] /\ pipe[q] \in PipeStates
      /\ Follow(q) \in Pipes
  BY FollowFacts DEF TypeOK
<1>1. CASE TestStop(q)
  <2>1. RoundEnd(pipe[q].last, nSubmitted) \in Nat
    BY <1>t, RoundCovers DEF PipeStates, TypeOK
  <2>2. PICK s \in PipeStates : pipe' = [pipe EXCEPT ![q] = s]
    <3> DEFINE f == pipe[q].last
               s == IF stop THEN [pc |-> "rest", next |-> f + 1, last |-> RoundEnd(f, nSubmitted)]
                    ELSE [pc |-> "batch", next |-> f + 1, last |-> f + Batch]
    <3>1. s \in PipeStates
      BY <1>t, <2>1, BatchAssumption DEF PipeStates
    <3>2. pipe' = [pipe EXCEPT ![q] = s]
      BY <1>1 DEF TestStop
    <3>3. QED
      BY <3>1, <3>2
  <2>3. QED
    BY <1>1, <1>t, <2>2 DEF TestStop, TypeOK
<1>2. CASE IterationEnd(q)
  <2>1. PICK s \in {"test", "ended"} : pipe' = [pipe EXCEPT ![q].pc = s]
    BY <1>2 DEF IterationEnd
  <2>2. QED
    BY <1>2, <1>t, <2>1 DEF IterationEnd, TypeOK, PipeStates
<1>3. CASE Process(q)
  <2>1. PICK t \in Nat \ {0} : t = pipe[q].next
    BY <1>t DEF PipeStates
  <2>2. pipe' = [pipe EXCEPT ![q].next = t + 1]
    BY <1>3, <2>1 DEF Process
  <2>3. /\ pace' = pace \/ pace' = [pace EXCEPT ![Follow(q)] = t]
        /\ committed' = t \/ committed' = committed
    BY <1>3, <2>1 DEF Process
  <2>4. pipe' \in [Pipes -> PipeStates]
    BY <1>t, <2>1, <2>2 DEF PipeStates
  <2>5. pace' \in [Pipes -> Nat] /\ committed' \in Nat
    BY <1>t, <2>1, <2>3 DEF TypeOK
  <2>6. QED
    BY <1>3, <1>t, <2>2, <2>4, <2>5 DEF Process
<1>4. QED
  BY <1>1, <1>2, <1>3 DEF Pipe

\* A request, and the return from it, set two fields of the client.
LEMMA RequestMoves ==
  ASSUME TypeOK, NEW c \in Clients, Request(c)
  PROVE  /\ client' \in [Clients -> ClientStates]
         /\ client'[c].guard = client[c].guard
         /\ client'[c].req = requested + 1 /\ client'[c].need = Lowest(Held)
         /\ \A d \in Clients \ {c} : client'[d] = client[d]
<1>1. PICK a \in Nat, v \in Nat : a = requested + 1 /\ v = Lowest(Held)
  <2>1. requested + 1 \in Nat
    BY DEF TypeOK
  <2>2. Lowest(Held) \in Nat
    BY HeldFacts
  <2>3. QED
    BY <2>1, <2>2
<1> DEFINE h == [client EXCEPT ![c].req = a]
<1>2. /\ h \in [Clients -> ClientStates]
      /\ h[c].guard = client[c].guard /\ h[c].req = a
      /\ \A d \in Clients \ {c} : h[d] = client[d]
  BY <1>1 DEF TypeOK, ClientStates
<1>3. client' = [h EXCEPT ![c].need = v]
  BY <1>1 DEF Request, Held
<1> HIDE DEF h
<1>4. /\ client' \in [Clients -> ClientStates]
      /\ client'[c].guard = client[c].guard /\ client'[c].req = a /\ client'[c].need = v
      /\ \A d \in Clients \ {c} : client'[d] = client[d]
  BY <1>1, <1>2, <1>3 DEF ClientStates
<1>5. QED
  BY <1>1, <1>4

LEMMA ReturnMoves ==
  ASSUME TypeOK, NEW c \in Clients, Return(c)
  PROVE  /\ client' \in [Clients -> ClientStates]
         /\ client'[c].guard = client[c].guard /\ client'[c].req = 0
         /\ \A d \in Clients \ {c} : client'[d] = client[d]
<1>1. 0 \in Nat
  OBVIOUS
<1> DEFINE h == [client EXCEPT ![c].req = 0]
<1>2. /\ h \in [Clients -> ClientStates]
      /\ h[c].guard = client[c].guard /\ h[c].req = 0
      /\ \A d \in Clients \ {c} : h[d] = client[d]
  BY <1>1 DEF TypeOK, ClientStates
<1>3. client' = [h EXCEPT ![c].need = 0]
  BY <1>1 DEF Return
<1> HIDE DEF h
<1>4. /\ client' \in [Clients -> ClientStates]
      /\ client'[c].guard = client[c].guard /\ client'[c].req = 0 /\ client'[c].need = 0
      /\ \A d \in Clients \ {c} : client'[d] = client[d]
  BY <1>1, <1>2, <1>3 DEF ClientStates
<1>5. QED
  BY <1>1, <1>4

\* What a step of a client does: it moves itself on, or asks for one collection more.
LEMMA ClientEffect ==
  ASSUME TypeOK, NEW c \in Clients, Client(c)
  PROVE  /\ client' \in [Clients -> ClientStates] /\ requested' \in Nat
         /\ requested <= requested'
         /\ \A d \in Clients \ {c} : client'[d] = client[d]
         /\ UNCHANGED <<pipevars, mon, completed, reclaimed>>
<1>t. client \in [Clients -> ClientStates] /\ client[c] \in ClientStates /\ requested \in Nat
      /\ mon.comm \in Nat
  BY DEF TypeOK, MonStates
<1>1. CASE Pin(c)
  BY <1>1, <1>t DEF Pin, ClientStates
<1>2. CASE Unpin(c)
  BY <1>2, <1>t DEF Unpin, ClientStates
<1>3. CASE Request(c)
  <2>1. requested' = requested + 1 /\ UNCHANGED <<pipevars, mon, completed, reclaimed>>
    BY <1>3 DEF Request
  <2>2. QED
    BY <1>3, <1>t, <2>1, RequestMoves
<1>4. CASE Return(c)
  <2>1. UNCHANGED <<pipevars, mon, requested, completed, reclaimed>>
    BY <1>4 DEF Return
  <2>2. QED
    BY <1>4, <1>t, <2>1, ReturnMoves
<1>5. QED
  BY <1>1, <1>2, <1>3, <1>4 DEF Client

LEMMA TypeStep == TypeOK /\ [Next]_vars => TypeOK'
<1> SUFFICES ASSUME TypeOK, [Next]_vars PROVE TypeOK'
  OBVIOUS
<1>1. CASE UNCHANGED vars
  BY <1>1 DEF TypeOK, vars, gcvars
<1>2. CASE Submit
  BY <1>2 DEF Submit, TypeOK, gcvars
<1>3. CASE Stop
  BY <1>3 DEF Stop, TypeOK, gcvars
<1>4. CASE Monitor
  <2>t. mon \in MonStates /\ nSubmitted \in Nat /\ committed \in Nat /\ nInited \in Nat
        /\ stop \in BOOLEAN /\ requested \in Nat
    BY DEF TypeOK
  <2>1. CASE MonitorPass
    <3>1. mon' \in MonStates
      BY <2>1, <2>t DEF MonitorPass, MonStates
    <3>2. QED
      BY <2>1, <2>t, <3>1 DEF MonitorPass, TypeOK, gcvars
  <2>2. CASE MonitorEnd
    <3>1. mon' \in MonStates
      BY <2>2, <2>t DEF MonitorEnd, MonStates
    <3>2. nInited' \in Nat
      <4> DEFINE x == Batch - (nInited % Batch)
      <4>1. x \in Int
        BY <2>t, BatchAssumption
      <4>2. nInited' = nInited + (Batch + (x % Batch)) + (IF rotating THEN NPipes ELSE 0)
        BY <2>2 DEF MonitorEnd
      <4> HIDE DEF x
      <4>3. x % Batch \in Nat
        BY <4>1, BatchAssumption
      <4>4. QED
        BY <2>t, <4>2, <4>3, BatchAssumption, PipesAssumption
    <3>3. QED
      BY <2>2, <2>t, <3>1, <3>2 DEF MonitorEnd, TypeOK, gcvars
  <2>3. CASE LoadRequest
    <3>1. mon' \in MonStates
      BY <2>3, <2>t DEF LoadRequest, MonStates
    <3>2. QED
      BY <2>3, <3>1 DEF LoadRequest, TypeOK, pipevars, gcvars
  <2>4. CASE Reclaim
    <3>1. mon' \in MonStates
      BY <2>4, <2>t DEF Reclaim, MonStates
    <3>2. reclaimed' = Lowest(Held)
      BY <2>4 DEF Reclaim, Held
    <3>3. reclaimed' \in Nat
      BY <3>2, HeldFacts
    <3>4. QED
      BY <2>4, <3>1, <3>3 DEF Reclaim, TypeOK, pipevars
  <2>5. CASE Acknowledge
    <3>1. mon' \in MonStates /\ completed' \in Nat
      BY <2>5, <2>t DEF Acknowledge, MonStates
    <3>2. QED
      BY <2>5, <3>1 DEF Acknowledge, TypeOK, pipevars
  <2>6. QED
    BY <1>4, <2>1, <2>2, <2>3, <2>4, <2>5 DEF Monitor
<1>5. ASSUME NEW q \in Pipes, Pipe(q) PROVE TypeOK'
  <2>1. pipe' \in [Pipes -> PipeStates] /\ pace' \in [Pipes -> Nat] /\ committed' \in Nat
        /\ UNCHANGED <<bound, rotating, calm, stop, nSubmitted, nInited, mon, gcvars>>
    BY <1>5, PipeEffect
  <2>2. QED
    BY <2>1 DEF TypeOK, gcvars
<1>6. ASSUME NEW c \in Clients, Client(c) PROVE TypeOK'
  <2>1. client' \in [Clients -> ClientStates] /\ requested' \in Nat
        /\ UNCHANGED <<pipevars, mon, completed, reclaimed>>
    BY <1>6, ClientEffect
  <2>2. QED
    BY <2>1 DEF TypeOK, pipevars
<1>7. QED
  BY <1>1, <1>2, <1>3, <1>4, <1>5, <1>6 DEF Next
\* The three steps of a pipe thread, as they change its own state.
LEMMA PipeMoves ==
  ASSUME TypeOK, NEW q \in Pipes, Pipe(q)
  PROVE  \/ /\ pipe[q].pc = "test" /\ pipe'[q].next = pipe[q].last + 1
            /\ pipe'[q].pc = IF stop THEN "rest" ELSE "batch"
            /\ stop => nSubmitted <= pipe'[q].last
            /\ ~ stop => pipe'[q].next <= pipe'[q].last + 1
            /\ UNCHANGED <<pace, committed>>
         \/ /\ pipe[q].pc \in {"batch", "rest"} /\ pipe[q].next > pipe[q].last
            /\ pipe'[q].next = pipe[q].next /\ pipe'[q].last = pipe[q].last
            /\ pipe'[q].pc = IF pipe[q].pc = "batch" THEN "test" ELSE "ended"
            /\ UNCHANGED <<pace, committed>>
         \/ /\ pipe[q].pc \in {"batch", "rest"} /\ pipe[q].next <= pipe[q].last
            /\ pipe'[q].next = pipe[q].next + 1 /\ pipe'[q].last = pipe[q].last
            /\ pipe'[q].pc = pipe[q].pc
            /\ Process(q)
<1>t. pipe \in [Pipes -> PipeStates] /\ pipe[q] \in PipeStates
  BY DEF TypeOK
<1>1. CASE TestStop(q)
  <2>1. PICK f \in Nat : f = pipe[q].last
    BY <1>t DEF PipeStates
  <2>2. PICK e \in Nat : e = RoundEnd(f, nSubmitted) /\ nSubmitted <= e
    BY RoundCovers DEF TypeOK
  <2>3. pipe'[q] = IF stop THEN [pc |-> "rest", next |-> f + 1, last |-> e]
                   ELSE [pc |-> "batch", next |-> f + 1, last |-> f + Batch]
    BY <1>1, <1>t, <2>1, <2>2 DEF TestStop
  <2>4. pipe[q].pc = "test" /\ UNCHANGED <<pace, committed>>
    BY <1>1 DEF TestStop
  <2>5. CASE stop
    BY <2>1, <2>2, <2>3, <2>4, <2>5
  <2>6. CASE ~ stop
    <3>1. pipe'[q].next <= pipe'[q].last + 1
      BY <2>1, <2>3, <2>6, BatchAssumption
    <3>2. QED
      BY <2>1, <2>3, <2>4, <2>6, <3>1
  <2>7. QED
    BY <2>5, <2>6
<1>2. CASE IterationEnd(q)
  <2>1. PICK s \in {"test", "ended"} : /\ s = IF pipe[q].pc = "batch" THEN "test" ELSE "ended"
                                       /\ pipe' = [pipe EXCEPT ![q].pc = s]
    BY <1>2 DEF IterationEnd
  <2>2. pipe'[q].pc = s /\ pipe'[q].next = pipe[q].next /\ pipe'[q].last = pipe[q].last
    BY <1>t, <2>1 DEF PipeStates
  <2>3. QED
    BY <1>2, <2>1, <2>2 DEF IterationEnd
<1>3. CASE Process(q)
  <2>1. PICK t \in Nat \ {0} : t = pipe[q].next
    BY <1>t DEF PipeStates
  <2>2. pipe' = [pipe EXCEPT ![q].next = t + 1]
    BY <1>3, <2>1 DEF Process
  <2>3. pipe'[q].next = t + 1 /\ pipe'[q].pc = pipe[q].pc /\ pipe'[q].last = pipe[q].last
    BY <1>t, <2>1, <2>2 DEF PipeStates
  <2>4. QED
    BY <1>3, <2>1, <2>3 DEF Process
<1>4. QED
  BY <1>1, <1>2, <1>3 DEF Pipe

-----------------------------------------------------------------------------
(* The invariant, part by part.                                            *)

LEMMA ControlStep == TypeOK /\ ControlInv /\ [Next]_vars => ControlInv'
<1> SUFFICES ASSUME TypeOK, ControlInv, [Next]_vars PROVE ControlInv'
  OBVIOUS
<1>1. ASSUME UNCHANGED <<stop, nSubmitted, pipe>> PROVE ControlInv'
  BY <1>1 DEF ControlInv
<1>2. ASSUME ~ stop, UNCHANGED pipe PROVE ControlInv'
  BY <1>2 DEF ControlInv
<1>3. ASSUME NEW q \in Pipes, Pipe(q) PROVE ControlInv'
  <2>1. /\ \A p \in Pipes \ {q} : pipe'[p] = pipe[p]
        /\ UNCHANGED <<stop, nSubmitted>>
    BY <1>3, PipeEffect
  <2>2. /\ pipe[q] \in PipeStates /\ nSubmitted \in Nat
        /\ pipe[q].pc = "test" => pipe[q].next = pipe[q].last + 1
        /\ pipe[q].pc = "batch" => pipe[q].next <= pipe[q].last + 1
        /\ pipe[q].pc \in {"rest", "ended"} => stop /\ nSubmitted <= pipe[q].last
    BY DEF ControlInv, TypeOK
  <2>3. (/\ pipe[q].pc = "test" => pipe[q].next = pipe[q].last + 1
         /\ pipe[q].pc = "batch" => pipe[q].next <= pipe[q].last + 1
         /\ pipe[q].pc \in {"rest", "ended"} => stop /\ nSubmitted <= pipe[q].last
         /\ pipe[q].pc = "ended" => pipe[q].last < pipe[q].next)'
    BY <1>3, <2>1, <2>2, PipeMoves DEF PipeStates
  <2>4. QED
    BY <2>1, <2>3 DEF ControlInv
<1>4. CASE Submit \/ Stop
  BY <1>2, <1>4 DEF Submit, Stop
<1>5. CASE Monitor
  BY <1>1, <1>5 DEF Monitor, MonitorPass, MonitorEnd, LoadRequest, Reclaim, Acknowledge, pipevars
<1>6. ASSUME NEW c \in Clients, Client(c) PROVE ControlInv'
  BY <1>1, <1>6, ClientEffect DEF pipevars
<1>7. CASE UNCHANGED vars
  BY <1>1, <1>7 DEF vars
<1>8. QED
  BY <1>3, <1>4, <1>5, <1>6, <1>7 DEF Next

LEMMA MonitorStep ==
  TypeOK /\ MonitorInv /\ CommitInv /\ [Next]_vars => MonitorInv'
<1> SUFFICES ASSUME TypeOK, MonitorInv, CommitInv, [Next]_vars PROVE MonitorInv'
  OBVIOUS
<1>t. /\ nSubmitted \in Nat /\ nInited \in Nat /\ committed \in Nat /\ stop \in BOOLEAN
      /\ mon \in MonStates
  BY DEF TypeOK
<1>1. CASE Submit
  BY <1>1, <1>t DEF Submit, MonitorInv
<1>2. CASE Stop
  BY <1>2, <1>t DEF Stop, MonitorInv
<1>3. CASE MonitorPass
  BY <1>3, <1>t DEF MonitorPass, MonitorInv, MonStates
<1>4. CASE MonitorEnd
  BY <1>4, <1>t DEF MonitorEnd, MonitorInv, MonStates
<1>5. CASE LoadRequest
  BY <1>5, <1>t DEF LoadRequest, MonitorInv, MonStates, pipevars
<1>6. CASE Reclaim
  BY <1>6, <1>t DEF Reclaim, MonitorInv, MonStates, pipevars
<1>7. CASE Acknowledge
  BY <1>7, <1>t DEF Acknowledge, MonitorInv, MonStates, pipevars
<1>8. ASSUME NEW q \in Pipes, Pipe(q) PROVE MonitorInv'
  <2>1. committed <= committed'
    <3>1. committed' = committed \/ (Process(q) /\ committed' = pipe[q].next)
      BY <1>8, PipeMoves DEF Process
    <3>2. committed < pipe[q].next /\ pipe[q].next \in Nat
      BY DEF CommitInv, TypeOK, PipeStates
    <3>3. QED
      BY <1>t, <3>1, <3>2
  <2>2. UNCHANGED <<stop, nSubmitted, nInited, mon>> /\ committed' \in Nat
    BY <1>8, PipeEffect
  <2>3. QED
    BY <1>t, <2>1, <2>2 DEF MonitorInv, MonStates
<1>9. ASSUME NEW c \in Clients, Client(c) PROVE MonitorInv'
  BY <1>9, ClientEffect DEF pipevars, MonitorInv
<1>10. CASE UNCHANGED vars
  BY <1>10 DEF vars, MonitorInv
<1>11. QED
  BY <1>1, <1>2, <1>3, <1>4, <1>5, <1>6, <1>7, <1>8, <1>9, <1>10 DEF Next, Monitor
\* The turn of a thread that handles a ticket: the ticket is initialised, and every
\* thread before it in the chain has handled the ticket.
LEMMA TurnTaken ==
  ASSUME TypeOK, PipeInv, NEW q \in Pipes, Process(q), NEW t \in Nat, t = pipe[q].next
  PROVE  /\ t <= nInited
         /\ \A p \in Pipes \ {q} : Rank(p, t) <= Rank(q, t) => t < pipe[p].next
<1>t. /\ nInited \in Nat /\ pace[q] \in Nat /\ \A p \in Pipes : pipe[p].next \in Nat
  BY DEF TypeOK, PipeStates
<1>r. /\ \A p \in Pipes : Rank(p, t) \in Nat
      /\ \A p \in Pipes \ {q} : Rank(p, t) # Rank(q, t)
  <2>1. \A p \in Pipes : Rank(p, t) \in 0 .. Last
    BY RankFacts
  <2>2. 0 .. Last \subseteq Nat
    BY NPipesPositive DEF Last
  <2>3. \A p \in Pipes \ {q} : Rank(p, t) # Rank(q, t)
    BY RankFacts
  <2>4. QED
    BY <2>1, <2>2, <2>3
<1>1. CASE Rank(q, t) = 0
  <2>1. t <= nInited
    BY <1>1, RoleFacts DEF Process
  <2>2. ASSUME NEW p \in Pipes \ {q}, Rank(p, t) <= Rank(q, t) PROVE FALSE
    BY <1>1, <1>r, <2>2
  <2>3. QED
    BY <2>1, <2>2
<1>2. CASE Rank(q, t) # 0
  <2>1. t <= pace[q]
    BY <1>2, RoleFacts DEF Process
  <2>2. PICK r \in Pipes : Follow(r) = q /\ Rank(r, t) = Rank(q, t) - 1
    BY <1>2, Predecessor
  <2>3. pace[q] < pipe[r].next /\ pipe[r].next - 1 <= nInited
    BY <2>2 DEF PipeInv
  <2>4. t < pipe[r].next /\ t <= nInited
    BY <1>t, <2>1, <2>3
  <2>5. ASSUME NEW p \in Pipes \ {q}, Rank(p, t) <= Rank(q, t) PROVE t < pipe[p].next
    <3>1. Rank(p, t) <= Rank(r, t)
      BY <1>r, <2>2, <2>5
    <3>2. QED
      BY <2>4, <3>1 DEF PipeInv
  <2>6. QED
    BY <2>4, <2>5
<1>3. QED
  BY <1>1, <1>2

\* A step of a pipe thread that handles no ticket leaves the tickets where they are.
LEMMA PipeQuiet ==
  ASSUME TypeOK, ControlInv, NEW q \in Pipes, Pipe(q), ~ Process(q)
  PROVE  UNCHANGED <<pace, committed>> /\ \A p \in Pipes : pipe'[p].next = pipe[p].next
<1>1. /\ UNCHANGED <<pace, committed>>
      /\ \/ pipe[q].pc = "test" /\ pipe'[q].next = pipe[q].last + 1
         \/ pipe'[q].next = pipe[q].next
  BY PipeMoves
<1>2. pipe'[q].next = pipe[q].next
  BY <1>1 DEF ControlInv
<1>3. QED
  BY <1>1, <1>2, PipeEffect

LEMMA PipeStep ==
  TypeOK /\ ControlInv /\ MonitorInv /\ PipeInv /\ [Next]_vars => PipeInv'
<1> SUFFICES ASSUME TypeOK, ControlInv, MonitorInv, PipeInv, [Next]_vars PROVE PipeInv'
  OBVIOUS
<1>t. /\ nSubmitted \in Nat /\ nInited \in Nat
      /\ \A q \in Pipes : pace[q] \in Nat /\ pipe[q].next \in Nat
  BY DEF TypeOK, PipeStates
<1>1. ASSUME UNCHANGED <<rotating, pace, pipe>>, nInited <= nInited', nInited' \in Nat
      PROVE  PipeInv'
  <2>1. \A q \in Pipes : (pace[Follow(q)] < pipe[q].next /\ pipe[q].next - 1 <= nInited)'
    BY <1>1, <1>t DEF PipeInv, Follow
  <2>2. \A p, q \in Pipes : \A t \in Nat :
          (t < pipe[q].next /\ Rank(p, t) <= Rank(q, t) => t < pipe[p].next)'
    BY <1>1 DEF PipeInv, Rank
  <2>3. QED
    BY <2>1, <2>2 DEF PipeInv
<1>2. ASSUME NEW q \in Pipes, Process(q) PROVE PipeInv'
  <2>p. Pipe(q)
    BY <1>2 DEF Pipe
  <2>1. PICK t \in Nat : t = pipe[q].next
    BY <1>t
  <2>2. /\ t <= nInited
        /\ \A p \in Pipes \ {q} : Rank(p, t) <= Rank(q, t) => t < pipe[p].next
    BY <1>2, <2>1, TurnTaken
  <2>3. /\ \A p \in Pipes \ {q} : pipe'[p] = pipe[p]
        /\ UNCHANGED <<rotating, nInited>>
    BY <2>p, PipeEffect
  <2>4. pipe'[q].next = t + 1
    <3>1. pipe' = [pipe EXCEPT ![q].next = t + 1] /\ pipe \in [Pipes -> PipeStates]
      BY <1>2, <2>1 DEF Process, TypeOK
    <3>2. QED
      BY <3>1 DEF PipeStates
  <2>5. pace' = pace \/ pace' = [pace EXCEPT ![Follow(q)] = t]
    BY <1>2, <2>1 DEF Process
  <2>6. \A p \in Pipes : (pace[Follow(p)] < pipe[p].next /\ pipe[p].next - 1 <= nInited)'
    <3> TAKE p \in Pipes
    <3>1. Follow(p) \in Pipes /\ Follow(q) \in Pipes /\ pace \in [Pipes -> Nat]
      BY FollowFacts DEF TypeOK
    <3>2. Follow(p)' = Follow(p)
      BY DEF Follow
    <3>3. pace[Follow(p)] < pipe[p].next /\ pipe[p].next - 1 <= nInited
      BY DEF PipeInv
    <3>4. CASE p = q
      BY <1>t, <2>1, <2>2, <2>3, <2>4, <2>5, <3>1, <3>2, <3>3, <3>4
    <3>5. CASE p # q
      <4>1. Follow(p) # Follow(q)
        BY <3>5, FollowFacts
      <4>2. QED
        BY <1>t, <2>3, <2>5, <3>1, <3>2, <3>3, <3>5, <4>1
    <3>6. QED
      BY <3>4, <3>5
  <2>7. ASSUME NEW p \in Pipes, NEW r \in Pipes, NEW u \in Nat,
               u < pipe'[r].next, Rank(p, u)' <= Rank(r, u)'
        PROVE  u < pipe'[p].next
    <3>1. Rank(p, u) <= Rank(r, u)
      BY <2>3, <2>7 DEF Rank
    <3>2. CASE u < pipe[r].next
      <4>1. u < pipe[p].next
        BY <3>1, <3>2 DEF PipeInv
      <4>2. QED
        BY <1>t, <2>1, <2>3, <2>4, <4>1
    <3>3. CASE ~ (u < pipe[r].next)
      <4>1. r = q
        BY <2>3, <2>7, <3>3
      <4>2. u = t
        BY <2>1, <2>4, <2>7, <3>3, <4>1
      <4>3. QED
        BY <2>2, <2>3, <2>4, <3>1, <4>1, <4>2
    <3>4. QED
      BY <3>2, <3>3
  <2>8. QED
    BY <2>6, <2>7 DEF PipeInv
<1>3. ASSUME NEW q \in Pipes, Pipe(q), ~ Process(q) PROVE PipeInv'
  <2>1. /\ UNCHANGED <<pace, rotating, nInited>>
        /\ \A p \in Pipes : pipe'[p].next = pipe[p].next
    BY <1>3, PipeQuiet, PipeEffect
  <2>2. \A p \in Pipes : (pace[Follow(p)] < pipe[p].next /\ pipe[p].next - 1 <= nInited)'
    BY <2>1 DEF PipeInv, Follow
  <2>3. ASSUME NEW p \in Pipes, NEW r \in Pipes, NEW u \in Nat,
               u < pipe'[r].next, Rank(p, u)' <= Rank(r, u)'
        PROVE  u < pipe'[p].next
    <3>1. Rank(p, u) <= Rank(r, u)
      BY <2>1, <2>3 DEF Rank
    <3>2. QED
      BY <2>1, <2>3, <3>1 DEF PipeInv
  <2>4. QED
    BY <2>2, <2>3 DEF PipeInv
<1>4. CASE Submit \/ Stop
  <2>1. UNCHANGED <<rotating, pace, pipe, nInited>>
    BY <1>4 DEF Submit, Stop
  <2>2. QED
    BY <1>1, <1>t, <2>1
<1>5. CASE Monitor
  <2>1. UNCHANGED <<rotating, pace, pipe>>
    BY <1>5 DEF Monitor, MonitorPass, MonitorEnd, LoadRequest, Reclaim, Acknowledge, pipevars
  <2>2. nInited <= nInited' /\ nInited' \in Nat
    <3>1. CASE MonitorPass
      BY <3>1, <1>t DEF MonitorPass, MonitorInv
    <3>2. CASE MonitorEnd
      <4> DEFINE x == Batch - (nInited % Batch)
      <4>1. x \in Int
        BY <1>t, BatchAssumption
      <4>2. nInited' = nInited + (Batch + (x % Batch)) + (IF rotating THEN NPipes ELSE 0)
        BY <3>2 DEF MonitorEnd
      <4> HIDE DEF x
      <4>3. x % Batch \in Nat
        BY <4>1, BatchAssumption
      <4>4. QED
        BY <1>t, <4>2, <4>3, BatchAssumption, PipesAssumption
    <3>3. CASE LoadRequest \/ Reclaim \/ Acknowledge
      BY <3>3, <1>t DEF LoadRequest, Reclaim, Acknowledge, pipevars
    <3>4. QED
      BY <1>5, <3>1, <3>2, <3>3 DEF Monitor
  <2>3. QED
    BY <1>1, <2>1, <2>2
<1>6. ASSUME NEW c \in Clients, Client(c) PROVE PipeInv'
  <2>1. UNCHANGED pipevars
    BY <1>6, ClientEffect
  <2>2. QED
    BY <1>1, <1>t, <2>1 DEF pipevars
<1>7. CASE UNCHANGED vars
  BY <1>1, <1>t, <1>7 DEF vars
<1>8. QED
  BY <1>2, <1>3, <1>4, <1>5, <1>6, <1>7 DEF Next
LEMMA CommitStep ==
  TypeOK /\ ControlInv /\ MonitorInv /\ PipeInv /\ CommitInv /\ [Next]_vars => CommitInv'
<1> SUFFICES ASSUME TypeOK, ControlInv, MonitorInv, PipeInv, CommitInv, [Next]_vars
             PROVE  CommitInv'
  OBVIOUS
<1>t. /\ nSubmitted \in Nat /\ nInited \in Nat /\ committed \in Nat
      /\ \A q \in Pipes : pipe[q].next \in Nat
  BY DEF TypeOK, PipeStates
<1>1. ASSUME UNCHANGED <<rotating, nSubmitted, committed>>,
             \A q \in Pipes : pipe'[q].next = pipe[q].next
      PROVE  CommitInv'
  BY <1>1 DEF CommitInv, Rank
<1>2. CASE Submit
  <2>1. /\ nSubmitted' = nSubmitted + 1 /\ UNCHANGED <<rotating, committed, pipe>>
        /\ nInited <= nSubmitted
    BY <1>2 DEF Submit, MonitorInv
  \* Nothing beyond the prefix was handled, so the new ticket was not.
  <2>2. \A q \in Pipes : pipe[q].next <= nSubmitted + 1
    <3> TAKE q \in Pipes
    <3>1. pipe[q].next - 1 <= nInited
      BY DEF PipeInv
    <3>2. QED
      BY <1>t, <2>1, <3>1
  <2>3. \A q \in Pipes : \A t \in Nat :
          (t < pipe[q].next /\ Rank(q, t) = Last /\ t <= nSubmitted => t <= committed)'
    <3> SUFFICES ASSUME NEW q \in Pipes, NEW t \in Nat, t < pipe[q].next, Rank(q, t) = Last
                 PROVE  t <= committed
      BY <2>1 DEF Rank, Last
    <3>1. t <= nSubmitted
      BY <1>t, <2>2
    <3>2. QED
      BY <3>1 DEF CommitInv
  <2>4. committed' <= nSubmitted'
    BY <1>t, <2>1 DEF CommitInv
  <2>5. \A q \in Pipes : (committed < pipe[q].next)'
    BY <2>1 DEF CommitInv
  <2>6. QED
    BY <2>3, <2>4, <2>5 DEF CommitInv
<1>3. ASSUME NEW q \in Pipes, Process(q) PROVE CommitInv'
  <2>p. Pipe(q)
    BY <1>3 DEF Pipe
  <2>1. PICK t \in Nat : t = pipe[q].next
    BY <1>t
  <2>2. \A p \in Pipes \ {q} : Rank(p, t) <= Rank(q, t) => t < pipe[p].next
    BY <1>3, <2>1, TurnTaken
  <2>3. /\ \A p \in Pipes \ {q} : pipe'[p] = pipe[p]
        /\ UNCHANGED <<rotating, nSubmitted>>
    BY <2>p, PipeEffect
  <2>4. pipe'[q].next = t + 1
    <3>1. pipe' = [pipe EXCEPT ![q].next = t + 1] /\ pipe \in [Pipes -> PipeStates]
      BY <1>3, <2>1 DEF Process, TypeOK
    <3>2. QED
      BY <3>1 DEF PipeStates
  <2>5. committed' = IF Rank(q, t) = Last /\ t <= nSubmitted THEN t ELSE committed
    <3>1. ExitOf(t) = q <=> Rank(q, t) = Last
      BY RoleFacts
    <3>2. QED
      BY <1>3, <2>1, <3>1 DEF Process
  <2>6. committed <= committed' /\ committed' <= nSubmitted /\ committed' \in Nat
    <3>1. committed < pipe[q].next /\ committed <= nSubmitted
      BY DEF CommitInv
    <3>2. QED
      BY <1>t, <2>1, <2>5, <3>1
  <2>7. ASSUME NEW p \in Pipes PROVE committed' < pipe'[p].next
    <3>1. committed < pipe[p].next
      BY DEF CommitInv
    <3>2. CASE p = q
      BY <1>t, <2>1, <2>4, <2>5, <3>1, <3>2
    <3>3. CASE p # q
      <4>1. Rank(q, t) = Last => Rank(p, t) <= Rank(q, t)
        <5>1. Rank(p, t) \in 0 .. Last
          BY RankFacts
        <5>2. QED
          BY <5>1, NPipesPositive DEF Last
      <4>2. QED
        BY <2>2, <2>3, <2>5, <3>1, <3>3, <4>1
    <3>4. QED
      BY <3>2, <3>3
  <2>8. ASSUME NEW p \in Pipes, NEW u \in Nat,
               u < pipe'[p].next, Rank(p, u)' = Last, u <= nSubmitted
        PROVE  u <= committed'
    <3>1. Rank(p, u) = Last
      BY <2>3, <2>8 DEF Rank
    <3>2. CASE u < pipe[p].next
      <4>1. u <= committed
        BY <2>8, <3>1, <3>2 DEF CommitInv
      <4>2. QED
        BY <1>t, <2>6, <4>1
    <3>3. CASE ~ (u < pipe[p].next)
      <4>1. p = q
        BY <2>3, <2>8, <3>3
      <4>2. u = t
        BY <2>1, <2>4, <2>8, <3>3, <4>1
      <4>3. QED
        BY <2>5, <2>8, <3>1, <4>1, <4>2
    <3>4. QED
      BY <3>2, <3>3
  <2>9. QED
    BY <2>3, <2>6, <2>7, <2>8 DEF CommitInv, Last
<1>4. ASSUME NEW q \in Pipes, Pipe(q), ~ Process(q) PROVE CommitInv'
  <2>1. /\ UNCHANGED <<committed, rotating, nSubmitted>>
        /\ \A p \in Pipes : pipe'[p].next = pipe[p].next
    BY <1>4, PipeQuiet, PipeEffect
  <2>2. QED
    BY <1>1, <2>1
<1>5. CASE Stop
  <2>1. UNCHANGED <<rotating, nSubmitted, committed, pipe>>
    BY <1>5 DEF Stop
  <2>2. QED
    BY <1>1, <2>1
<1>6. CASE Monitor
  <2>1. UNCHANGED <<rotating, nSubmitted, committed, pipe>>
    BY <1>6 DEF Monitor, MonitorPass, MonitorEnd, LoadRequest, Reclaim, Acknowledge, pipevars
  <2>2. QED
    BY <1>1, <2>1
<1>7. ASSUME NEW c \in Clients, Client(c) PROVE CommitInv'
  <2>1. UNCHANGED pipevars
    BY <1>7, ClientEffect
  <2>2. QED
    BY <1>1, <2>1 DEF pipevars
<1>8. CASE UNCHANGED vars
  BY <1>1, <1>8 DEF vars
<1>9. QED
  BY <1>2, <1>3, <1>4, <1>5, <1>6, <1>7, <1>8 DEF Next
\* The four steps of a client, as they change its own state.
LEMMA ClientMoves ==
  ASSUME TypeOK, NEW c \in Clients, Client(c)
  PROVE  \/ /\ client'[c].guard \in {mon.comm, None} /\ UNCHANGED requested
            /\ client'[c].req = client[c].req /\ client'[c].need = client[c].need
         \/ /\ client'[c].guard = client[c].guard /\ requested' = requested + 1
            /\ client'[c].req = requested + 1 /\ client'[c].need = Lowest(Held)
         \/ /\ client'[c].guard = client[c].guard /\ UNCHANGED requested
            /\ client'[c].req = 0
            /\ client[c].req > 0 /\ client[c].req <= completed
<1>t. /\ client \in [Clients -> ClientStates] /\ client[c] \in ClientStates
      /\ requested \in Nat /\ completed \in Nat
  BY DEF TypeOK
<1>1. CASE Pin(c)
  BY <1>1, <1>t DEF Pin, ClientStates
<1>2. CASE Unpin(c)
  BY <1>2, <1>t DEF Unpin, ClientStates
<1>3. CASE Request(c)
  <2>1. requested' = requested + 1
    BY <1>3 DEF Request
  <2>2. QED
    BY <1>3, <2>1, RequestMoves
<1>4. CASE Return(c)
  <2>1. UNCHANGED requested /\ client[c].req > 0 /\ completed >= client[c].req
    BY <1>4 DEF Return
  <2>2. client[c].req <= completed
    BY <1>t, <2>1 DEF ClientStates
  <2>3. QED
    BY <1>4, <2>1, <2>2, ReturnMoves
<1>5. QED
  BY <1>1, <1>2, <1>3, <1>4 DEF Client

\* No step lets a reader in below what is held already.
LEMMA HeldRises ==
  ASSUME TypeOK, MonitorInv, [Next]_vars
  PROVE  \A v \in Held' : \E u \in Held : u <= v
<1>t. /\ mon.comm \in Nat /\ committed \in Nat /\ Held \subseteq Nat /\ None \notin Nat
      /\ client \in [Clients -> ClientStates]
  BY HeldFacts DEF TypeOK, MonStates, None
<1>1. ASSUME UNCHANGED client, mon'.comm \in {mon.comm, committed}
      PROVE  \A v \in Held' : \E u \in Held : u <= v
  <2>1. Held' = Guarded \cup {mon'.comm} /\ Held = Guarded \cup {mon.comm}
    BY <1>1 DEF Held, Guarded
  <2>2. mon.comm <= mon'.comm
    BY <1>1, <1>t DEF MonitorInv
  <2>3. \A v \in Guarded : v <= v
    BY <1>t, <2>1
  <2>4. QED
    BY <2>1, <2>2, <2>3
<1>2. ASSUME NEW c \in Clients, Client(c)
      PROVE  \A v \in Held' : \E u \in Held : u <= v
  <2>1. /\ client' \in [Clients -> ClientStates] /\ UNCHANGED mon
        /\ \A d \in Clients \ {c} : client'[d] = client[d]
    BY <1>2, ClientEffect
  <2>2. client'[c].guard \in {mon.comm, None, client[c].guard}
    BY <1>2, ClientMoves
  <2>3. Held' \subseteq Held
    BY <2>1, <2>2 DEF Held, Guarded
  <2>4. \A v \in Held : v <= v
    BY <1>t
  <2>5. QED
    BY <2>3, <2>4
<1>3. CASE Monitor
  <2>1. UNCHANGED client
    BY <1>3 DEF Monitor, MonitorPass, MonitorEnd, LoadRequest, Reclaim, Acknowledge, gcvars
  <2>2. mon'.comm \in {mon.comm, committed}
    <3>1. mon \in MonStates
      BY DEF TypeOK
    <3>2. QED
      BY <1>3, <3>1 DEF Monitor, MonitorPass, MonitorEnd, LoadRequest, Reclaim, Acknowledge,
                        MonStates
  <2>3. QED
    BY <1>1, <2>1, <2>2
<1>4. CASE Submit \/ Stop
  BY <1>1, <1>4 DEF Submit, Stop, gcvars
<1>5. ASSUME NEW q \in Pipes, Pipe(q) PROVE UNCHANGED <<client, mon>>
  BY <1>5, PipeEffect DEF gcvars
<1>6. CASE UNCHANGED vars
  BY <1>1, <1>6 DEF vars, gcvars
<1>7. QED
  BY <1>1, <1>2, <1>3, <1>4, <1>5, <1>6 DEF Next
LEMMA CollectStep ==
  TypeOK /\ MonitorInv /\ CollectInv /\ [Next]_vars => CollectInv'
<1> SUFFICES ASSUME TypeOK, MonitorInv, CollectInv, [Next]_vars PROVE CollectInv'
  OBVIOUS
<1>t. /\ requested \in Nat /\ completed \in Nat /\ reclaimed \in Nat
      /\ mon \in MonStates /\ mon.req \in Nat /\ Held \subseteq Nat
      /\ \A c \in Clients : client[c].req \in Nat /\ client[c].need \in Nat
  BY HeldFacts DEF TypeOK, MonStates, ClientStates
<1>h. Held' \subseteq Nat /\ \A v \in Held' : \E u \in Held : u <= v
  <2>1. TypeOK'
    BY TypeStep
  <2>2. Held' \subseteq Nat
    BY <2>1 DEF TypeOK, Held, Guarded, ClientStates, MonStates
  <2>3. QED
    BY <2>2, HeldRises
\* No step adds a reader below what a pending request must reclaim.
<1>n. ASSUME NEW c \in Clients, client[c].req > 0
      PROVE  \A v \in Held' : client[c].need <= v
  <2> TAKE v \in Held'
  <2>1. PICK u \in Held : u <= v
    BY <1>h
  <2>2. client[c].need <= u
    BY <1>n DEF CollectInv
  <2>3. QED
    BY <1>t, <1>h, <2>1, <2>2
<1>1. ASSUME UNCHANGED <<client, requested, completed, reclaimed>>, mon'.req = mon.req,
             mon'.pc # "acknowledge" \/ mon'.pc = mon.pc
      PROVE  CollectInv'
  BY <1>1, <1>n DEF CollectInv
<1>2. CASE LoadRequest
  <2>1. /\ mon'.req = requested /\ mon'.pc # "acknowledge"
        /\ UNCHANGED <<client, requested, completed, reclaimed>>
    BY <1>2, <1>t DEF LoadRequest, MonStates, gcvars
  <2>2. QED
    BY <1>t, <1>n, <2>1 DEF CollectInv
<1>3. CASE Reclaim
  <2>1. /\ reclaimed' = Lowest(Held) /\ mon'.req = mon.req
        /\ UNCHANGED <<client, requested, completed>>
    BY <1>3, <1>t DEF Reclaim, Held, MonStates
  <2>2. \A c \in Clients : client[c].req > 0 => client[c].need <= reclaimed'
    <3>1. reclaimed' \in Held
      BY <2>1, HeldFacts
    <3>2. QED
      BY <3>1 DEF CollectInv
  <2>3. QED
    BY <1>t, <1>n, <2>1, <2>2 DEF CollectInv
<1>4. CASE Acknowledge
  <2>1. /\ completed' = mon.req /\ mon'.req = mon.req /\ mon.pc = "acknowledge"
        /\ mon'.pc = "pass" /\ UNCHANGED <<client, requested, reclaimed>>
    BY <1>4, <1>t DEF Acknowledge, MonStates
  <2>2. QED
    BY <1>t, <1>n, <2>1 DEF CollectInv
<1>5. ASSUME NEW c \in Clients, Client(c) PROVE CollectInv'
  <2>1. /\ requested <= requested' /\ requested' \in Nat
        /\ \A d \in Clients \ {c} : client'[d] = client[d]
        /\ UNCHANGED <<mon, completed, reclaimed>>
    BY <1>5, ClientEffect
  <2>2. mon'.req <= requested' /\ completed' <= requested'
    BY <1>t, <2>1 DEF CollectInv
  <2>3. ASSUME NEW d \in Clients \ {c}
        PROVE  /\ client'[d].req <= requested'
               /\ client'[d].req > 0 =>
                    /\ \A v \in Held' : client'[d].need <= v
                    /\ mon'.pc = "acknowledge" /\ client'[d].req <= mon'.req
                         => client'[d].need <= reclaimed'
                    /\ client'[d].req <= completed' => client'[d].need <= reclaimed'
    BY <1>t, <1>n, <2>1 DEF CollectInv
  <2>4. /\ client'[c].req <= requested'
        /\ client'[c].req > 0 =>
             /\ \A v \in Held' : client'[c].need <= v
             /\ mon'.pc = "acknowledge" /\ client'[c].req <= mon'.req
                  => client'[c].need <= reclaimed'
             /\ client'[c].req <= completed' => client'[c].need <= reclaimed'
    <3>1. CASE UNCHANGED requested /\ client'[c].req = client[c].req
               /\ client'[c].need = client[c].need
      BY <1>t, <1>n, <2>1, <3>1 DEF CollectInv
    <3>2. CASE /\ requested' = requested + 1 /\ client'[c].req = requested + 1
               /\ client'[c].need = Lowest(Held)
      <4>1. \A v \in Held' : Lowest(Held) <= v
        <5> TAKE v \in Held'
        <5>1. PICK u \in Held : u <= v
          BY <1>h
        <5>2. Lowest(Held) <= u /\ Lowest(Held) \in Nat
          BY HeldFacts
        <5>3. QED
          BY <1>t, <1>h, <5>1, <5>2
      <4>2. mon'.req < client'[c].req /\ completed' < client'[c].req
        BY <1>t, <2>1, <3>2 DEF CollectInv
      <4>3. client'[c].req \in Nat /\ mon'.req \in Nat /\ completed' \in Nat
        BY <1>t, <2>1, <3>2
      <4>4. QED
        BY <1>t, <3>2, <4>1, <4>2, <4>3
    <3>3. CASE client'[c].req = 0
      BY <1>t, <2>1, <3>3
    <3>4. QED
      BY <1>5, <3>1, <3>2, <3>3, ClientMoves
  <2>5. QED
    BY <2>2, <2>3, <2>4 DEF CollectInv
<1>6. CASE MonitorPass \/ MonitorEnd
  <2>1. /\ mon'.req = mon.req /\ mon'.pc # "acknowledge"
        /\ UNCHANGED <<client, requested, completed, reclaimed>>
    BY <1>6, <1>t DEF MonitorPass, MonitorEnd, MonStates, gcvars
  <2>2. QED
    BY <1>1, <2>1
<1>7. CASE Submit \/ Stop
  <2>1. UNCHANGED <<client, requested, completed, reclaimed, mon>>
    BY <1>7 DEF Submit, Stop, gcvars
  <2>2. QED
    BY <1>1, <2>1
<1>8. ASSUME NEW q \in Pipes, Pipe(q) PROVE CollectInv'
  <2>1. UNCHANGED <<mon, gcvars>>
    BY <1>8, PipeEffect
  <2>2. QED
    BY <1>1, <2>1 DEF gcvars
<1>9. CASE UNCHANGED vars
  BY <1>1, <1>9 DEF vars, gcvars
<1>10. QED
  BY <1>2, <1>3, <1>4, <1>5, <1>6, <1>7, <1>8, <1>9 DEF Next, Monitor

-----------------------------------------------------------------------------
(* What the invariant says of the controllers.                             *)

\* Every state of either controller satisfies the invariant.
THEOREM Invariance == Spec => []IInv
<1>1. Init => IInv
  BY InitIInv
<1>2. IInv /\ [Next]_vars => IInv'
  BY TypeStep, ControlStep, MonitorStep, PipeStep, CommitStep, CollectStep DEF IInv
<1>3. QED
  BY <1>1, <1>2, PTL DEF Spec

LEMMA InvDrained == IInv => Drained
<1> SUFFICES ASSUME IInv, \A q \in Pipes : pipe[q].pc = "ended" PROVE committed = nSubmitted
  BY DEF Drained
<1>t. TypeOK /\ ControlInv /\ CommitInv /\ nSubmitted \in Nat /\ committed \in Nat
  BY DEF IInv, TypeOK
<1>1. PICK q \in Pipes : Rank(q, nSubmitted) = Last
  <2>1. Last \in 0 .. Last /\ nSubmitted \in Int
    BY <1>t, NPipesPositive DEF Last
  <2>2. QED
    BY <1>t, <2>1, RankFacts
<1>2. nSubmitted < pipe[q].next
  <2>1. nSubmitted <= pipe[q].last /\ pipe[q].last < pipe[q].next
    BY <1>t DEF ControlInv
  <2>2. pipe[q].last \in Nat /\ pipe[q].next \in Nat
    BY <1>t DEF TypeOK, PipeStates
  <2>3. QED
    BY <1>t, <2>1, <2>2
<1>3. nSubmitted <= committed /\ committed <= nSubmitted
  BY <1>t, <1>1, <1>2 DEF CommitInv
<1>4. QED
  BY <1>t, <1>3

\* A client's request leaves it by the return only.
LEMMA StepCollectReflects ==
  IInv /\ [Next]_vars =>
    [\A c \in Clients : client[c].req > 0 /\ client'[c].req = 0
                        => reclaimed >= client[c].need]_vars
<1> SUFFICES ASSUME IInv, [Next]_vars, NEW c \in Clients,
                    client[c].req > 0, client'[c].req = 0
             PROVE  reclaimed >= client[c].need
  OBVIOUS
<1>t. /\ TypeOK /\ CollectInv /\ reclaimed \in Nat /\ requested \in Nat
      /\ client[c].req \in Nat /\ client[c].need \in Nat
  BY DEF IInv, TypeOK, ClientStates
<1>1. client'[c] # client[c]
  BY <1>t
<1>2. PICK d \in Clients : Client(d)
  <2>1. ASSUME UNCHANGED client PROVE FALSE
    BY <1>1, <2>1
  <2>2. ~ (Submit \/ Stop)
    BY <2>1 DEF Submit, Stop, gcvars
  <2>3. ~ Monitor
    BY <2>1 DEF Monitor, MonitorPass, MonitorEnd, LoadRequest, Reclaim, Acknowledge, gcvars
  <2>4. ASSUME NEW q \in Pipes, Pipe(q) PROVE FALSE
    BY <1>t, <2>1, <2>4, PipeEffect DEF gcvars
  <2>5. ~ UNCHANGED vars
    BY <2>1 DEF vars, gcvars
  <2>6. QED
    BY <2>2, <2>3, <2>4, <2>5 DEF Next
<1>3. d = c
  BY <1>1, <1>2, <1>t, ClientEffect
<1>4. client[c].req <= completed
  BY <1>2, <1>3, <1>t, ClientMoves
<1>5. client[c].need <= reclaimed
  BY <1>4, <1>t DEF CollectInv
<1>6. QED
  BY <1>t, <1>5

\* The destructor drains: whichever iteration each thread ended in, everything
\* submitted was committed, in its order and by its own exit thread.
THEOREM StopDrains == Spec => []Drained
BY Invariance, InvDrained, PTL

\* collect_garbage returns only after all is freed that no reader could still enter
\* when it was called, also if the call came in the middle of a pass of the monitor.
THEOREM CollectionsReflect == Spec => CollectReflects
BY Invariance, StepCollectReflects, PTL DEF Spec, CollectReflects
=============================================================================
