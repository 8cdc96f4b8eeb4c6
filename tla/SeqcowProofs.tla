---------------------------- MODULE SeqcowProofs ----------------------------
(***************************************************************************)
(* Proofs about Seqcow with fat slots, for any ring, leaf size, keys,      *)
(* clients and tickets.  Without fat slots the ring is a data race and     *)
(* nothing of this holds.                                                  *)
(***************************************************************************)
EXTENDS Seqcow, Integers, WellFoundedInduction, SequenceTheorems, TLAPS

(***************************************************************************)
(* The strengthening.  The ring holds the tickets worker.done .. nSubmitted *)
(* and the one being filled; they fit because a client waits for a free    *)
(* slot.  The tickets up to Frontier are executed.                         *)
(***************************************************************************)
Contexts      == [op : {"init", "copy", "done"}, sno : Nat, key : Keys,
                  past : Nat \ {0}, root : Nat \ {0}]
ClientStates  == [pc : {"idle", "wait", "fill"}, tid : Nat, key : Keys, todo : SUBSET Fields]
WorkerStates  == [pc : {"stop", "sub", "batch", "first", "run", "store", "ended"},
                  stop : BOOLEAN, sub : Nat, next : Nat, done : Nat]
VersionedSlots == [sno : Nat, key : Keys]
Leaves        == [base : [Keys -> Nat], slots : Seq(VersionedSlots)]

TypeOK ==
  /\ nSubmitted \in Nat /\ nCommitted \in Nat /\ stop \in BOOLEAN
  /\ ctx \in [0 .. B - 1 -> Contexts]
  /\ client \in [Clients -> ClientStates]
  /\ worker \in WorkerStates
  /\ leaves \in Seq(Leaves)
  /\ log \in Seq(Keys)

\* The mutex: one client at a time, whose ticket is the next one.
ClientInv ==
  /\ \A c, d \in Clients : client[c].pc # "idle" /\ client[d].pc # "idle" => c = d
  /\ \A c \in Clients : client[c].pc # "idle" =>
       client[c].tid = nSubmitted + 1 /\ client[c].key \in setup.keys
  /\ \A c \in Clients : client[c].pc = "fill" =>
       /\ client[c].tid < nCommitted + B
       /\ "op" \notin client[c].todo => ctx[Slot(client[c].tid)].op = "init"
       /\ "sno" \notin client[c].todo => ctx[Slot(client[c].tid)].sno = client[c].tid
       /\ "key" \notin client[c].todo => ctx[Slot(client[c].tid)].key = client[c].key

\* The worker's tickets, and those that wait for it.
WorkerInv ==
  /\ nCommitted = worker.done /\ worker.done <= worker.next
  /\ worker.next <= worker.sub /\ worker.sub <= nSubmitted
  /\ nSubmitted < worker.done + B /\ Len(log) = nSubmitted
  /\ worker.pc \in {"stop", "sub", "ended"} => worker.next = worker.done
  /\ worker.pc \in {"first", "run"} => worker.done < worker.next

Executing == \/ worker.pc = "first"
             \/ worker.pc = "run" /\ ctx[Slot(worker.next)].op = "copy"
Frontier  == IF Executing THEN worker.next - 1 ELSE worker.next

\* A leaf that holds version v.
Holds(leaf, v) == leaf \in DOMAIN leaves /\ View(leaf, v) = Promise(v)

RingInv ==
  /\ \A t \in worker.done .. nSubmitted : ctx[Slot(t)].sno = t
  /\ \A t \in worker.done + 1 .. nSubmitted : ctx[Slot(t)].key = log[t]
  /\ \A t \in worker.next + 1 .. nSubmitted : ctx[Slot(t)].op = "init"
  /\ worker.pc = "first" => ctx[Slot(worker.next)].op = "init"
  /\ worker.pc = "run" => ctx[Slot(worker.next)].op # "init"
  /\ Executing => ctx[Slot(worker.next)].past = ctx[Slot(worker.next - 1)].root
  /\ \A t \in worker.done .. Frontier : Holds(ctx[Slot(t)].root, t)

\* No slot of a leaf is newer than the tickets executed; what is published stays.
LeavesInv ==
  /\ \A l \in DOMAIN leaves : \A i \in DOMAIN leaves[l].slots :
       leaves[l].slots[i].sno <= Frontier
  /\ \A v \in DOMAIN published :
       /\ v \in 0 .. IF worker.pc = "store" THEN worker.next ELSE worker.done
       /\ Holds(published[v], v)

FatInv == TypeOK /\ ClientInv /\ WorkerInv /\ RingInv /\ LeavesInv
IInv   == setup \in Setups /\ (fat => FatInv)
-----------------------------------------------------------------------------
(* Versioned slots and promises.                                           *)

\* What a leaf has for a key at version v.
Newest(l, k, v) ==
  LET s == LastSlot(l, k, v) IN
  IF s = {} THEN l.base[k] ELSE l.slots[CHOOSE i \in s : \A j \in s : j <= i].sno

LEMMA ViewNewest == \A leaf, v : View(leaf, v) = [k \in Keys |-> Newest(leaves[leaf], k, v)]
BY DEF View, Newest

\* A non-empty set of positions has a highest one.
LEMMA HighestFacts ==
  ASSUME NEW n \in Nat, NEW S, S \subseteq 1 .. n, S # {}
  PROVE  (CHOOSE i \in S : \A j \in S : j <= i) \in S
<1> DEFINE R == {uv \in Nat \X Nat : uv[1] < uv[2]}
           T == {n - i : i \in S}
<1>1. IsWellFoundedOn(R, Nat)
  BY NatLessThanWellFounded DEF OpToRel
<1>2. T \subseteq Nat /\ T # {}
  OBVIOUS
<1> HIDE DEF R
<1>3. PICK u \in T : \A v \in T : ~ (<<v, u>> \in R)
  BY <1>1, <1>2, WFMin
<1>4. PICK i \in S : u = n - i
  BY <1>3
<1>5. ASSUME NEW j \in S PROVE j <= i
  <2>1. ~ (<<n - j, u>> \in R) /\ n - j \in Nat
    BY <1>3, <1>5
  <2>2. QED
    BY <1>2, <1>4, <2>1 DEF R
<1>6. QED
  BY <1>5

\* A slot of a later version or of another key does not change what a leaf has ...
LEMMA NewestHidden ==
  ASSUME NEW l \in Leaves, NEW e \in VersionedSlots, NEW m, NEW k \in Keys, NEW v \in Nat,
         v < e.sno \/ k # e.key, m.base = l.base, m.slots = Append(l.slots, e)
  PROVE  Newest(m, k, v) = Newest(l, k, v)
<1>1. PICK n \in Nat : n = Len(l.slots) /\ DOMAIN l.slots = 1 .. n
  BY DEF Leaves
<1>2. /\ DOMAIN m.slots = 1 .. n + 1 /\ m.slots[n + 1] = e
      /\ \A i \in 1 .. n : m.slots[i] = l.slots[i]
  BY <1>1 DEF Leaves
<1>3. LastSlot(m, k, v) = LastSlot(l, k, v)
  <2>1. n + 1 \notin LastSlot(m, k, v)
    BY <1>2 DEF LastSlot, VersionedSlots
  <2>2. LastSlot(m, k, v) \subseteq 1 .. n
    BY <1>2, <2>1 DEF LastSlot
  <2>3. QED
    BY <1>1, <1>2, <2>2 DEF LastSlot
<1>4. PICK s : s = LastSlot(l, k, v) /\ s \subseteq 1 .. n
  BY <1>1 DEF LastSlot
<1>5. CASE s = {}
  BY <1>3, <1>4, <1>5 DEF Newest
<1>6. CASE s # {}
  <2>1. PICK h \in s : h = CHOOSE i \in s : \A j \in s : j <= i
    BY <1>4, <1>6, HighestFacts
  <2>2. m.slots[h] = l.slots[h]
    BY <1>2, <1>4, <2>1
  <2>3. QED
    BY <1>3, <1>4, <1>6, <2>1, <2>2 DEF Newest
<1>7. QED
  BY <1>5, <1>6

\* ... and one of version v gives its key that version.
LEMMA NewestAppended ==
  ASSUME NEW l \in Leaves, NEW e \in VersionedSlots, NEW m, m.slots = Append(l.slots, e)
  PROVE  Newest(m, e.key, e.sno) = e.sno
<1>1. PICK n \in Nat : n = Len(l.slots)
  BY DEF Leaves
<1>2. DOMAIN m.slots = 1 .. n + 1 /\ m.slots[n + 1] = e
  BY <1>1 DEF Leaves
<1>3. PICK s : s = LastSlot(m, e.key, e.sno)
  OBVIOUS
<1>4. n + 1 \in s /\ s \subseteq 1 .. n + 1
  BY <1>2, <1>3 DEF LastSlot, VersionedSlots
<1>5. (CHOOSE i \in s : \A j \in s : j <= i) = n + 1
  <2>1. \A j \in s : j <= n + 1
    BY <1>4
  <2>2. \A i \in s : (\A j \in s : j <= i) => i = n + 1
    BY <1>4
  <2>3. QED
    BY <1>4, <2>1, <2>2
<1>6. QED
  BY <1>2, <1>3, <1>4, <1>5 DEF Newest

\* A leaf has the same at all versions from its newest slot on.
LEMMA NewestStays ==
  ASSUME NEW l \in Leaves, NEW k \in Keys, NEW u \in Nat, NEW v \in Nat, u <= v,
         \A i \in DOMAIN l.slots : l.slots[i].sno <= u
  PROVE  Newest(l, k, v) = Newest(l, k, u)
<1>1. \A i \in DOMAIN l.slots : l.slots[i].sno \in Nat
  <2>1. l.slots \in Seq(VersionedSlots)
    BY DEF Leaves
  <2>2. \A i \in DOMAIN l.slots : l.slots[i] \in VersionedSlots
    BY <2>1
  <2>3. QED
    BY <2>2 DEF VersionedSlots
<1>2. LastSlot(l, k, v) = LastSlot(l, k, u)
  BY <1>1 DEF LastSlot
<1>3. QED
  BY <1>2 DEF Newest

\* The promise of a version: its ticket's key gets the ticket, the others what the
\* version before has.
LEMMA PromiseStep ==
  ASSUME NEW n \in Nat, NEW k \in Keys, log \in Seq(Keys), n + 1 \in 1 .. Len(log)
  PROVE  Promise(n + 1)[k] = IF log[n + 1] = k THEN n + 1 ELSE Promise(n)[k]
<1> DEFINE P(m, t) == log[t] = k /\ \A u \in t + 1 .. m : log[u] # k
<1>1. \A m : Promise(m)[k] = IF \E t \in 1 .. m : log[t] = k
                             THEN CHOOSE t \in 1 .. m : P(m, t) ELSE 0
  BY DEF Promise, Abstract!Executed
<1>2. CASE log[n + 1] = k
  <2>1. P(n + 1, n + 1)
    BY <1>2
  <2>2. \A t \in 1 .. n + 1 : P(n + 1, t) => t = n + 1
    <3> SUFFICES ASSUME NEW t \in 1 .. n + 1, P(n + 1, t), t # n + 1 PROVE FALSE
      OBVIOUS
    <3>1. n + 1 \in t + 1 .. n + 1
      OBVIOUS
    <3>2. QED
      BY <1>2, <3>1
  <2>3. (CHOOSE t \in 1 .. n + 1 : P(n + 1, t)) = n + 1
    BY <2>1, <2>2
  <2>4. QED
    BY <1>1, <1>2, <2>3
<1>3. CASE log[n + 1] # k
  <2>1. \A t \in 1 .. n : P(n + 1, t) <=> P(n, t)
    <3> TAKE t \in 1 .. n
    <3>1. t + 1 .. n + 1 = (t + 1 .. n) \cup {n + 1}
      OBVIOUS
    <3>2. QED
      BY <1>3, <3>1
  <2>2. ~ P(n + 1, n + 1)
    BY <1>3
  <2>3. 1 .. n + 1 = (1 .. n) \cup {n + 1}
    OBVIOUS
  <2>4. (CHOOSE t \in 1 .. n + 1 : P(n + 1, t)) = CHOOSE t \in 1 .. n : P(n, t)
    <3> HIDE DEF P
    <3>1. \A t : (t \in 1 .. n + 1 /\ P(n + 1, t)) <=> (t \in 1 .. n /\ P(n, t))
      BY <2>1, <2>2, <2>3
    <3>2. QED
      BY <3>1
  <2>5. (\E t \in 1 .. n + 1 : log[t] = k) <=> (\E t \in 1 .. n : log[t] = k)
    BY <1>3, <2>3
  <2>6. QED
    BY <1>1, <1>3, <2>4, <2>5
<1>4. QED
  BY <1>2, <1>3

\* Tickets drawn later do not change it.
LastWriter(keys, n, k) ==
  IF \E t \in 1 .. n : keys[t] = k
  THEN CHOOSE t \in 1 .. n : keys[t] = k /\ \A u \in t + 1 .. n : keys[u] # k
  ELSE 0

Given(keys, n) == [k \in Keys |-> LastWriter(keys, n, k)]

LEMMA PromiseGiven == \A n : Promise(n) = Given(log, n)
BY DEF Promise, Abstract!Executed, Given, LastWriter

LEMMA PromiseGivenNext == \A n : Promise(n)' = Given(log', n)
BY DEF Promise, Abstract!Executed, Given, LastWriter

LEMMA GivenStays ==
  ASSUME NEW l \in Seq(Keys), NEW k \in Keys, NEW v \in 0 .. Len(l)
  PROVE  Given(Append(l, k), v) = Given(l, v)
<1> DEFINE m == Append(l, k)
<1>1. \A t \in 1 .. v : m[t] = l[t]
  OBVIOUS
<1>2. \A t \in 1 .. v : \A u \in t + 1 .. v : m[u] = l[u]
  OBVIOUS
<1> HIDE DEF m
<1>3. ASSUME NEW j \in Keys PROVE LastWriter(m, v, j) = LastWriter(l, v, j)
  <2>1. \A t : (t \in 1 .. v /\ m[t] = j /\ \A u \in t + 1 .. v : m[u] # j)
               <=> (t \in 1 .. v /\ l[t] = j /\ \A u \in t + 1 .. v : l[u] # j)
    BY <1>1, <1>2
  <2>2. (CHOOSE t \in 1 .. v : m[t] = j /\ \A u \in t + 1 .. v : m[u] # j)
        = (CHOOSE t \in 1 .. v : l[t] = j /\ \A u \in t + 1 .. v : l[u] # j)
    BY <2>1
  <2>3. (\E t \in 1 .. v : m[t] = j) <=> \E t \in 1 .. v : l[t] = j
    BY <1>1
  <2>4. CASE \E t \in 1 .. v : l[t] = j
    <3>1. LastWriter(m, v, j) = CHOOSE t \in 1 .. v : m[t] = j /\ \A u \in t + 1 .. v : m[u] # j
      BY <2>3, <2>4 DEF LastWriter
    <3>2. LastWriter(l, v, j) = CHOOSE t \in 1 .. v : l[t] = j /\ \A u \in t + 1 .. v : l[u] # j
      BY <2>4 DEF LastWriter
    <3>3. QED
      BY <2>2, <3>1, <3>2
  <2>5. CASE ~ \E t \in 1 .. v : l[t] = j
    BY <2>3, <2>5 DEF LastWriter
  <2>6. QED
    BY <2>4, <2>5
<1>4. Given(m, v) = Given(l, v)
  BY <1>3 DEF Given
<1>5. QED
  BY <1>4 DEF m
-----------------------------------------------------------------------------
(* The ring, and the initial states.                                       *)

\* Numbers less than m apart have distinct remainders.
LEMMA ModDistinct ==
  ASSUME NEW m \in Nat \ {0}, NEW a \in Int, NEW b \in Int,
         a % m = b % m, a - b < m, b - a < m
  PROVE  a = b
<1> DEFINE s == a % m
           d == a \div m
           e == b \div m
<1>1. d \in Int /\ e \in Int /\ s \in 0 .. m - 1 /\ a = (m * d) + s /\ b = (m * e) + s
  OBVIOUS
<1> HIDE DEF d, e, s
<1>2. ASSUME d < e PROVE FALSE
  <2>1. m * (e - d) >= m
    BY <1>1, <1>2
  <2>2. QED
    BY <2>1, <1>1
<1>3. ASSUME d > e PROVE FALSE
  <2>1. m * (d - e) >= m
    BY <1>1, <1>3
  <2>2. QED
    BY <2>1, <1>1
<1>4. QED
  BY <1>1, <1>2, <1>3

\* Tickets less than B apart have slots of their own.
LEMMA SlotFacts ==
  /\ \A t \in Int : Slot(t) \in 0 .. B - 1
  /\ \A t, u \in Int : Slot(t) = Slot(u) /\ t - u < B /\ u - t < B => t = u
<1>m. B \in Nat \ {0}
  BY RingAssumption
<1>1. \A t \in Int : Slot(t) \in 0 .. B - 1
  BY <1>m DEF Slot
<1>2. \A t, u \in Int : Slot(t) = Slot(u) /\ t - u < B /\ u - t < B => t = u
  BY <1>m, ModDistinct DEF Slot
<1>3. QED
  BY <1>1, <1>2

LEMMA InitFat == Init => IInv
<1> SUFFICES ASSUME Init PROVE IInv
  OBVIOUS
<1>1. NoKey \in Keys
  BY SetupAssumption DEF NoKey
<1>2. TypeOK
  <2>1. ctx \in [0 .. B - 1 -> Contexts]
    BY <1>1, RingAssumption DEF Init, Contexts
  <2>2. client \in [Clients -> ClientStates]
    BY <1>1 DEF Init, ClientStates, Idle
  <2>3. worker \in WorkerStates
    BY DEF Init, WorkerStates
  <2>4. leaves \in Seq(Leaves)
    <3>1. [base |-> [k \in Keys |-> 0], slots |-> <<>>] \in Leaves
      BY DEF Leaves
    <3>2. QED
      BY <3>1 DEF Init
  <2>5. nSubmitted \in Nat /\ nCommitted \in Nat /\ stop \in BOOLEAN /\ log \in Seq(Keys)
    BY DEF Init
  <2>6. QED
    BY <2>1, <2>2, <2>3, <2>4, <2>5 DEF TypeOK
<1>3. ClientInv /\ WorkerInv
  BY RingAssumption DEF Init, ClientInv, WorkerInv, Idle
<1>4. ~ Executing /\ Frontier = 0
  BY DEF Init, Executing, Frontier
<1>5. Holds(1, 0)
  <2>1. \A k \in Keys : Newest(leaves[1], k, 0) = 0
    BY DEF Init, Newest, LastSlot
  <2>2. View(1, 0) = [k \in Keys |-> 0]
    BY <2>1, ViewNewest
  <2>3. \A k \in Keys : LastWriter(log, 0, k) = 0
    BY DEF LastWriter
  <2>4. Promise(0) = [k \in Keys |-> 0]
    BY <2>3, PromiseGiven DEF Given
  <2>5. QED
    BY <2>2, <2>4 DEF Init, Holds
<1>6. RingInv
  <2>1. Slot(0) \in 0 .. B - 1
    BY RingAssumption, SlotFacts
  <2>2. ctx[Slot(0)].sno = 0 /\ ctx[Slot(0)].root = 1
    BY <2>1 DEF Init
  <2>3. QED
    BY <1>4, <1>5, <2>2 DEF Init, RingInv
<1>7. LeavesInv
  BY <1>4, <1>5 DEF Init, LeavesInv
<1>8. QED
  BY <1>2, <1>3, <1>6, <1>7 DEF Init, IInv, FatInv

\* The tickets in the ring, and the one a client fills, do not share slots.
LEMMA RingApart ==
  ASSUME FatInv
  PROVE  /\ \A t, u \in worker.done .. nSubmitted : Slot(t) = Slot(u) => t = u
         /\ \A c \in Clients : client[c].pc = "fill" =>
              \A t \in worker.done .. nSubmitted : Slot(client[c].tid) # Slot(t)
<1>t. /\ worker.done \in Nat /\ nSubmitted \in Nat /\ nSubmitted < worker.done + B
      /\ B \in Nat /\ nCommitted = worker.done
  BY RingAssumption DEF FatInv, TypeOK, WorkerStates, WorkerInv
<1>1. ASSUME NEW t \in worker.done .. nSubmitted, NEW u \in worker.done .. nSubmitted,
             Slot(t) = Slot(u)
      PROVE  t = u
  <2>1. t \in Int /\ u \in Int /\ t - u < B /\ u - t < B
    BY <1>t
  <2>2. QED
    BY <1>1, <2>1, SlotFacts
<1>2. ASSUME NEW c \in Clients, client[c].pc = "fill", NEW t \in worker.done .. nSubmitted,
             Slot(client[c].tid) = Slot(t)
      PROVE  FALSE
  <2>1. client[c].tid = nSubmitted + 1 /\ client[c].tid < nCommitted + B
    BY <1>2 DEF FatInv, ClientInv
  <2>2. PICK u \in Nat : u = nSubmitted + 1
    BY <1>t
  <2>3. t \in Int /\ u - t < B /\ t - u < B /\ u # t
    BY <1>t, <2>1, <2>2
  <2>4. QED
    BY <1>2, <2>1, <2>2, <2>3, SlotFacts
<1>3. QED
  BY <1>1, <1>2

\* What a leaf holds depends on the leaves and on the log only.
LEMMA HoldsSame ==
  ASSUME UNCHANGED <<leaves, log>>
  PROVE  \A l, v : Holds(l, v)' <=> Holds(l, v)
<1>1. \A l, v : View(l, v)' = View(l, v)
  BY DEF View
<1>2. \A v : Promise(v)' = Promise(v)
  BY PromiseGiven, PromiseGivenNext
<1>3. QED
  BY <1>1, <1>2 DEF Holds
\* A step that leaves the contexts of the tickets alone keeps the ring and the leaves.
LEMMA RingSame ==
  ASSUME FatInv, UNCHANGED <<nSubmitted, worker, leaves, log, published>>,
         \A t \in worker.done .. nSubmitted : ctx'[Slot(t)] = ctx[Slot(t)]
  PROVE  RingInv' /\ LeavesInv'
<1>t. /\ worker.done \in Nat /\ nSubmitted \in Nat /\ worker.next \in Nat
      /\ worker.done <= worker.next /\ worker.next <= nSubmitted /\ worker.sub \in Nat
      /\ worker.pc \in {"first", "run"} => worker.done < worker.next
  BY DEF FatInv, TypeOK, WorkerStates, WorkerInv
<1>1. /\ \A t \in worker.done .. nSubmitted : ctx'[Slot(t)] = ctx[Slot(t)]
      /\ ctx'[Slot(worker.next)] = ctx[Slot(worker.next)]
      /\ worker.pc \in {"first", "run"} =>
           ctx'[Slot(worker.next - 1)] = ctx[Slot(worker.next - 1)]
  <2>1. worker.next \in worker.done .. nSubmitted
    BY <1>t
  <2>2. worker.pc \in {"first", "run"} => worker.next - 1 \in worker.done .. nSubmitted
    BY <1>t
  <2>3. QED
    BY <2>1, <2>2
<1>2. (Executing' <=> Executing) /\ Frontier' = Frontier /\ (\A t : Slot(t)' = Slot(t))
  BY <1>1 DEF Executing, Frontier, Slot
<1>3. \A l, v : Holds(l, v)' <=> Holds(l, v)
  BY HoldsSame
<1>4. Frontier <= nSubmitted /\ Frontier \in Int
  BY <1>t DEF Frontier
<1>5. RingInv /\ LeavesInv
  BY DEF FatInv
<1>6. RingInv'
  <2>1. \A t \in worker.done .. Frontier : Holds(ctx'[Slot(t)].root, t)
    BY <1>t, <1>1, <1>4, <1>5 DEF RingInv
  <2>2. /\ \A t \in worker.done .. nSubmitted : ctx'[Slot(t)].sno = t
        /\ \A t \in worker.done + 1 .. nSubmitted : ctx'[Slot(t)].key = log[t]
        /\ \A t \in worker.next + 1 .. nSubmitted : ctx'[Slot(t)].op = "init"
    BY <1>t, <1>1, <1>5 DEF RingInv
  <2>3. Executing => worker.pc \in {"first", "run"}
    BY DEF Executing
  <2>4. QED
    BY <1>1, <1>2, <1>3, <1>5, <2>1, <2>2, <2>3 DEF RingInv
<1>7. LeavesInv'
  BY <1>2, <1>3, <1>5 DEF LeavesInv
<1>8. QED
  BY <1>6, <1>7

\* update(): a client takes the mutex, waits for its slot and fills it.
LEMMA LockStep ==
  ASSUME setup \in Setups, FatInv, NEW c \in setup.clients, Lock(c)
  PROVE  FatInv'
<1>t. /\ setup.clients \subseteq Clients /\ setup.keys \subseteq Keys
      /\ nSubmitted \in Nat /\ client \in [Clients -> ClientStates]
  BY SetupAssumption DEF FatInv, TypeOK
<1>1. PICK k \in setup.keys :
        client' = [client EXCEPT ![c] = [pc |-> "wait", tid |-> nSubmitted + 1, key |-> k, todo |-> {}]]
  BY DEF Lock
<1>2. /\ UNCHANGED <<nSubmitted, ctx, log, worker, stop, nCommitted, leaves, published, setup>>
      /\ \A d \in Clients : client[d].pc = "idle"
  BY DEF Lock, rest
<1>3. [pc |-> "wait", tid |-> nSubmitted + 1, key |-> k, todo |-> {}] \in ClientStates
  BY <1>t DEF ClientStates
<1>4. TypeOK'
  <2>1. client' \in [Clients -> ClientStates]
    BY <1>t, <1>1, <1>3
  <2>2. QED
    BY <1>2, <2>1 DEF FatInv, TypeOK
<1>5. ClientInv'
  <2>1. \A d \in Clients : client'[d].pc # "idle" => d = c
    BY <1>t, <1>1, <1>2
  <2>2. client'[c].pc = "wait" /\ client'[c].tid = nSubmitted + 1 /\ client'[c].key = k
    BY <1>t, <1>1
  <2>3. QED
    BY <1>2, <2>1, <2>2 DEF ClientInv
<1>6. WorkerInv'
  BY <1>2 DEF FatInv, WorkerInv
<1>7. RingInv' /\ LeavesInv'
  BY <1>2, RingSame
<1>8. QED
  BY <1>4, <1>5, <1>6, <1>7 DEF FatInv

LEMMA WaitStep ==
  ASSUME setup \in Setups, FatInv, NEW c \in setup.clients, Wait(c)
  PROVE  FatInv'
<1>t. c \in Clients /\ client \in [Clients -> ClientStates]
  BY SetupAssumption DEF FatInv, TypeOK
<1>1. /\ client[c].pc = "wait" /\ client[c].tid < nCommitted + B
      /\ client' = [client EXCEPT ![c].pc = "fill", ![c].todo = Fields]
      /\ UNCHANGED <<nSubmitted, ctx, log, worker, stop, nCommitted, leaves, published, setup>>
  BY DEF Wait, Free, rest
<1>2. /\ client' \in [Clients -> ClientStates]
      /\ client'[c].pc = "fill" /\ client'[c].todo = Fields
      /\ client'[c].tid = client[c].tid /\ client'[c].key = client[c].key
      /\ \A d \in Clients \ {c} : client'[d] = client[d]
  <2> DEFINE h == [client EXCEPT ![c].pc = "fill"]
  <2>1. /\ h \in [Clients -> ClientStates]
        /\ h[c].pc = "fill" /\ h[c].tid = client[c].tid /\ h[c].key = client[c].key
        /\ \A d \in Clients \ {c} : h[d] = client[d]
    BY <1>t DEF ClientStates
  <2>2. client' = [h EXCEPT ![c].todo = Fields]
    BY <1>1
  <2> HIDE DEF h
  <2>3. QED
    BY <1>t, <2>1, <2>2 DEF ClientStates
<1>3. TypeOK'
  BY <1>1, <1>2 DEF FatInv, TypeOK
<1>4. ClientInv'
  <2>1. ClientInv
    BY DEF FatInv
  <2>2. \A d \in Clients \ {c} : client[d].pc = "idle"
    BY <1>t, <1>1, <2>1 DEF ClientInv
  <2>3. {"op", "sno", "key"} \subseteq client'[c].todo
    BY <1>2 DEF Fields
  <2>4. QED
    BY <1>t, <1>1, <1>2, <2>1, <2>2, <2>3 DEF ClientInv
<1>5. WorkerInv'
  BY <1>1 DEF FatInv, WorkerInv
<1>6. RingInv' /\ LeavesInv'
  BY <1>1, RingSame
<1>7. QED
  BY <1>3, <1>4, <1>5, <1>6 DEF FatInv

\* A store into the slot of the ticket being filled.
LEMMA FillStep ==
  ASSUME setup \in Setups, FatInv, NEW c \in setup.clients, Fill(c)
  PROVE  FatInv'
<1>t. /\ c \in Clients /\ client \in [Clients -> ClientStates] /\ client[c] \in ClientStates
      /\ ctx \in [0 .. B - 1 -> Contexts]
  BY SetupAssumption DEF FatInv, TypeOK
<1>1. PICK f \in client[c].todo :
        /\ client[c].pc = "fill"
        /\ client' = [client EXCEPT ![c].todo = @ \ {f}]
        /\ LET s == Slot(client[c].tid) IN
           ctx' = CASE f = "op"  -> [ctx EXCEPT ![s].op = "init"]
                    [] f = "sno" -> [ctx EXCEPT ![s].sno = client[c].tid]
                    [] f = "key" -> [ctx EXCEPT ![s].key = client[c].key]
        /\ UNCHANGED <<nSubmitted, log, worker, stop, nCommitted, leaves, published, setup>>
  BY DEF Fill, rest
<1>2. PICK n \in Nat : n = client[c].tid
  BY <1>t DEF ClientStates
<1>3. PICK s \in 0 .. B - 1 : s = Slot(n)
  BY SlotFacts
<1>4. f \in {"op", "sno", "key"}
  BY <1>t, <1>1 DEF ClientStates, Fields
<1>5. /\ ctx' \in [0 .. B - 1 -> Contexts]
      /\ \A r \in (0 .. B - 1) \ {s} : ctx'[r] = ctx[r]
      /\ ctx'[s].op = IF f = "op" THEN "init" ELSE ctx[s].op
      /\ ctx'[s].sno = IF f = "sno" THEN n ELSE ctx[s].sno
      /\ ctx'[s].key = IF f = "key" THEN client[c].key ELSE ctx[s].key
  <2>1. CASE f = "op"
    <3>1. ctx' = [ctx EXCEPT ![s].op = "init"]
      BY <1>1, <1>2, <1>3, <2>1
    <3>2. QED
      BY <1>t, <2>1, <3>1 DEF Contexts
  <2>2. CASE f = "sno"
    <3>1. ctx' = [ctx EXCEPT ![s].sno = n]
      BY <1>1, <1>2, <1>3, <2>2
    <3>2. QED
      BY <1>t, <2>2, <3>1 DEF Contexts
  <2>3. CASE f = "key"
    <3>1. ctx' = [ctx EXCEPT ![s].key = client[c].key] /\ client[c].key \in Keys
      BY <1>1, <1>2, <1>3, <1>t, <2>3 DEF ClientStates
    <3>2. QED
      BY <1>t, <2>3, <3>1 DEF Contexts
  <2>4. QED
    BY <1>4, <2>1, <2>2, <2>3
<1>6. /\ client' \in [Clients -> ClientStates] /\ client'[c].todo = client[c].todo \ {f}
      /\ client'[c].pc = "fill" /\ client'[c].tid = n /\ client'[c].key = client[c].key
      /\ \A d \in Clients \ {c} : client'[d] = client[d]
  BY <1>t, <1>1, <1>2 DEF ClientStates
<1>7. TypeOK'
  BY <1>1, <1>5, <1>6 DEF FatInv, TypeOK
<1>8. ClientInv'
  <2>1. ClientInv
    BY DEF FatInv
  <2>2. \A d \in Clients \ {c} : client[d].pc = "idle"
    BY <1>t, <1>1, <2>1 DEF ClientInv
  <2>3. Slot(n)' = s /\ Slot(n) = s
    BY <1>3 DEF Slot
  <2>4. /\ n = nSubmitted + 1 /\ client[c].key \in setup.keys /\ n < nCommitted + B
        /\ "op" \notin client[c].todo => ctx[s].op = "init"
        /\ "sno" \notin client[c].todo => ctx[s].sno = n
        /\ "key" \notin client[c].todo => ctx[s].key = client[c].key
    BY <1>t, <1>1, <1>2, <1>3, <2>1 DEF ClientInv
  <2>5. /\ "op" \notin client'[c].todo => ctx'[s].op = "init"
        /\ "sno" \notin client'[c].todo => ctx'[s].sno = n
        /\ "key" \notin client'[c].todo => ctx'[s].key = client[c].key
    BY <1>5, <1>6, <2>4
  <2>6. QED
    BY <1>1, <1>6, <2>2, <2>3, <2>4, <2>5 DEF ClientInv
<1>9. WorkerInv'
  BY <1>1 DEF FatInv, WorkerInv
<1>10. RingInv' /\ LeavesInv'
  <2>1. \A t \in worker.done .. nSubmitted : Slot(t) \in (0 .. B - 1) \ {s}
    <3> TAKE t \in worker.done .. nSubmitted
    <3>1. Slot(t) \in 0 .. B - 1
      BY SlotFacts DEF FatInv, TypeOK, WorkerStates
    <3>2. Slot(t) # s
      BY <1>t, <1>1, <1>2, <1>3, RingApart
    <3>3. QED
      BY <3>1, <3>2
  <2>2. QED
    BY <1>1, <1>5, <2>1, RingSame
<1>11. QED
  BY <1>7, <1>8, <1>9, <1>10 DEF FatInv
\* The ticket is released with its context complete.
LEMMA ReturnStep ==
  ASSUME setup \in Setups, fat, FatInv, NEW c \in setup.clients, Return(c)
  PROVE  FatInv'
<1>t. /\ c \in Clients /\ client \in [Clients -> ClientStates] /\ client[c] \in ClientStates
      /\ nSubmitted \in Nat /\ log \in Seq(Keys) /\ Len(log) = nSubmitted
      /\ worker.done \in Nat /\ worker.next \in Nat /\ worker.sub \in Nat
      /\ worker.done <= worker.next /\ worker.next <= worker.sub /\ worker.sub <= nSubmitted
      /\ worker.pc \in {"first", "run"} => worker.done < worker.next
      /\ nCommitted = worker.done /\ NoKey \in Keys
  BY SetupAssumption DEF FatInv, TypeOK, WorkerStates, WorkerInv, NoKey
<1>1. /\ client[c].pc = "fill" /\ client[c].todo = {}
      /\ client' = [client EXCEPT ![c] = Idle]
      /\ nSubmitted' = client[c].tid /\ log' = Append(log, client[c].key)
      /\ UNCHANGED <<ctx, worker, stop, nCommitted, leaves, published, setup>>
  BY DEF Return, rest
<1>2. PICK n \in Nat, k \in Keys : n = nSubmitted + 1 /\ k = client[c].key
  BY <1>t DEF ClientStates
<1>3. /\ client[c].tid = n /\ n < worker.done + B
      /\ ctx[Slot(n)].op = "init" /\ ctx[Slot(n)].sno = n /\ ctx[Slot(n)].key = k
      /\ \A d \in Clients \ {c} : client[d].pc = "idle"
  BY <1>t, <1>1, <1>2 DEF FatInv, ClientInv
<1>4. /\ log' \in Seq(Keys) /\ Len(log') = n /\ log'[n] = k
      /\ \A t \in 1 .. nSubmitted : log'[t] = log[t]
  BY <1>t, <1>1, <1>2
<1>5. TypeOK'
  <2>1. client' \in [Clients -> ClientStates]
    BY <1>t, <1>1 DEF Idle, ClientStates
  <2>2. QED
    BY <1>1, <1>2, <1>3, <1>4, <2>1 DEF FatInv, TypeOK
<1>6. ClientInv'
  <2>1. \A d \in Clients : client'[d].pc = "idle"
    BY <1>t, <1>1, <1>3 DEF Idle
  <2>2. QED
    BY <2>1 DEF ClientInv
<1>7. WorkerInv'
  <2>1. WorkerInv
    BY DEF FatInv
  <2>2. worker.sub <= n /\ n < worker.done + B
    BY <1>t, <1>2, <1>3
  <2>3. nSubmitted' = n /\ UNCHANGED <<worker, nCommitted>>
    BY <1>1, <1>3
  <2>4. QED
    BY <1>4, <2>1, <2>2, <2>3 DEF WorkerInv
<1>8. (Executing' <=> Executing) /\ Frontier' = Frontier /\ (\A t : Slot(t)' = Slot(t))
  BY <1>1 DEF Executing, Frontier, Slot
<1>9. \A l : \A v \in 0 .. nSubmitted : Holds(l, v)' <=> Holds(l, v)
  <2>1. \A l, v : View(l, v)' = View(l, v)
    BY <1>1 DEF View
  <2>2. \A v \in 0 .. nSubmitted : Promise(v)' = Promise(v)
    BY <1>t, <1>1, <1>2, PromiseGiven, PromiseGivenNext, GivenStays
  <2>3. QED
    BY <1>1, <2>1, <2>2 DEF Holds
<1>10. RingInv'
  <2>r. RingInv
    BY DEF FatInv
  <2>1. \A t \in worker.done .. n : ctx[Slot(t)].sno = t
    <3>1. worker.done .. n = (worker.done .. nSubmitted) \cup {n}
      BY <1>t, <1>2
    <3>2. QED
      BY <1>3, <2>r, <3>1 DEF RingInv
  <2>2. \A t \in worker.done + 1 .. n : ctx[Slot(t)].key = log'[t]
    <3>1. /\ worker.done + 1 .. n = (worker.done + 1 .. nSubmitted) \cup {n}
          /\ worker.done + 1 .. nSubmitted \subseteq 1 .. nSubmitted
      BY <1>t, <1>2
    <3>2. QED
      BY <1>3, <1>4, <2>r, <3>1 DEF RingInv
  <2>3. \A t \in worker.next + 1 .. n : ctx[Slot(t)].op = "init"
    <3>1. worker.next + 1 .. n = (worker.next + 1 .. nSubmitted) \cup {n}
      BY <1>t, <1>2
    <3>2. QED
      BY <1>3, <2>r, <3>1 DEF RingInv
  <2>4. \A t \in worker.done .. Frontier : Holds(ctx[Slot(t)].root, t)'
    <3>1. worker.done .. Frontier \subseteq 0 .. nSubmitted
      BY <1>t DEF Frontier
    <3>2. QED
      BY <1>1, <1>8, <1>9, <2>r, <3>1 DEF RingInv
  <2>5. UNCHANGED <<ctx, worker>> /\ nSubmitted' = n
    BY <1>1, <1>3
  <2>6. QED
    BY <1>8, <2>r, <2>1, <2>2, <2>3, <2>4, <2>5 DEF RingInv
<1>11. LeavesInv'
  <2>1. LeavesInv
    BY DEF FatInv
  <2>2. \A v \in DOMAIN published : v \in 0 .. nSubmitted
    BY <1>t, <2>1 DEF LeavesInv
  <2>3. QED
    BY <1>1, <1>8, <1>9, <2>1, <2>2 DEF LeavesInv
<1>12. QED
  BY <1>5, <1>6, <1>7, <1>10, <1>11 DEF FatInv

\* The worker between two batches: no ticket is in execution.
LEMMA BetweenTickets ==
  ASSUME FatInv, UNCHANGED <<nSubmitted, client, log, ctx, leaves, setup>>,
         worker.pc \notin {"first", "run"}, worker'.pc \notin {"first", "run"},
         worker'.next = worker.next, worker'.done \in worker.done .. worker.next,
         nCommitted <= nCommitted', nCommitted' \in Nat
  PROVE  ClientInv' /\ RingInv' /\ Frontier' = Frontier /\ \A l, v : Holds(l, v)' <=> Holds(l, v)
<1>t. /\ worker.done \in Nat /\ worker.next \in Nat /\ B \in Nat /\ nCommitted \in Nat
      /\ \A c \in Clients : client[c].tid \in Nat
  BY RingAssumption DEF FatInv, TypeOK, WorkerStates, ClientStates
<1>1. ~ Executing /\ ~ Executing' /\ (\A t : Slot(t)' = Slot(t))
  BY DEF Executing, Slot
<1>2. Frontier = worker.next /\ Frontier' = worker.next
  BY <1>1 DEF Frontier
<1>3. \A l, v : Holds(l, v)' <=> Holds(l, v)
  BY HoldsSame
<1>4. ClientInv'
  <2>1. \A i \in Nat : i < nCommitted + B => i < nCommitted' + B
    <3>1. \A i, a, b, m \in Nat : a <= b /\ i < a + m => i < b + m
      OBVIOUS
    <3>2. B \in Nat /\ nCommitted \in Nat
      BY <1>t
    <3>3. QED
      BY <3>1, <3>2
  <2>2. ClientInv
    BY DEF FatInv
  <2>3. \A c \in Clients : client[c].pc = "fill" => client[c].tid < nCommitted' + B
    BY <1>t, <2>1, <2>2 DEF ClientInv
  <2>4. QED
    BY <1>1, <2>2, <2>3 DEF ClientInv
<1>5. RingInv'
  <2>1. RingInv
    BY DEF FatInv
  <2>2. /\ worker'.done .. nSubmitted \subseteq worker.done .. nSubmitted
        /\ worker'.done + 1 .. nSubmitted \subseteq worker.done + 1 .. nSubmitted
        /\ worker'.done .. worker.next \subseteq worker.done .. worker.next
    BY <1>t
  <2>3. \A t \in worker'.done .. worker.next : Holds(ctx[Slot(t)].root, t)
    BY <1>2, <2>1, <2>2 DEF RingInv
  <2>4. QED
    BY <1>1, <1>2, <1>3, <2>1, <2>2, <2>3 DEF RingInv
<1>6. QED
  BY <1>2, <1>3, <1>4, <1>5

\* The worker's loop: stop_ and n_submitted_ are loaded between two batches.
LEMMA LoadStep ==
  ASSUME FatInv, LoadStop \/ LoadSubmitted
  PROVE  FatInv'
<1>t. /\ worker \in WorkerStates /\ nSubmitted \in Nat /\ stop \in BOOLEAN
      /\ worker.next = worker.done /\ worker.sub <= nSubmitted
      /\ worker.done <= worker.sub /\ worker.pc \in {"stop", "sub"}
      /\ nCommitted \in Nat
  BY DEF FatInv, TypeOK, WorkerStates, WorkerInv, LoadStop, LoadSubmitted
<1>1. /\ UNCHANGED <<nSubmitted, client, stop, log, nCommitted, ctx, leaves, published, setup>>
      /\ worker'.done = worker.done /\ worker'.next = worker.next
      /\ worker'.sub \in {worker.sub, nSubmitted}
      /\ worker'.pc \in {"ended", "sub", "batch"}
  <2>1. CASE LoadStop
    BY <1>t, <2>1 DEF LoadStop, NextPc, WorkerStates, clientside
  <2>2. CASE LoadSubmitted
    BY <1>t, <2>2 DEF LoadSubmitted, WorkerStates, clientside
  <2>3. QED
    BY <2>1, <2>2
<1>2. worker' \in WorkerStates
  <2>1. CASE LoadStop
    BY <1>t, <2>1 DEF LoadStop, NextPc, WorkerStates
  <2>2. CASE LoadSubmitted
    BY <1>t, <2>2 DEF LoadSubmitted, WorkerStates
  <2>3. QED
    BY <2>1, <2>2
<1>3. TypeOK'
  BY <1>1, <1>2 DEF FatInv, TypeOK
<1>4. ClientInv' /\ RingInv' /\ Frontier' = Frontier /\ \A l, v : Holds(l, v)' <=> Holds(l, v)
  <2>1. worker'.done \in worker.done .. worker.next /\ nCommitted <= nCommitted'
    BY <1>t, <1>1 DEF WorkerStates
  <2>2. QED
    BY <1>t, <1>1, <2>1, BetweenTickets
<1>5. WorkerInv'
  BY <1>t, <1>1 DEF FatInv, WorkerInv, WorkerStates
<1>6. LeavesInv'
  <2>1. LeavesInv /\ worker.pc # "store" /\ worker'.pc # "store"
    BY <1>t, <1>1 DEF FatInv
  <2>2. QED
    BY <1>1, <1>4, <2>1 DEF LeavesInv
<1>7. QED
  BY <1>3, <1>4, <1>5, <1>6 DEF FatInv

\* A batch ends: its last version is published, then n_committed_ stored.
LEMMA PublishStep ==
  ASSUME FatInv, Publish
  PROVE  FatInv'
<1>t. /\ worker \in WorkerStates /\ nSubmitted \in Nat /\ nCommitted \in Nat
      /\ worker.done <= worker.next /\ worker.pc = "batch"
  BY DEF FatInv, TypeOK, WorkerInv, Publish
<1>1. /\ UNCHANGED <<nSubmitted, client, stop, log, nCommitted, ctx, leaves, setup>>
      /\ worker' = [worker EXCEPT !.pc = IF worker.next > worker.done THEN "store" ELSE "stop"]
  BY DEF Publish, NextPc, clientside
<1>2. /\ worker' \in WorkerStates
      /\ worker'.done = worker.done /\ worker'.next = worker.next /\ worker'.sub = worker.sub
      /\ worker'.pc = IF worker.next > worker.done THEN "store" ELSE "stop"
  BY <1>t, <1>1 DEF WorkerStates
<1>3. TypeOK'
  BY <1>1, <1>2 DEF FatInv, TypeOK
<1>4. ClientInv' /\ RingInv' /\ Frontier' = Frontier /\ \A l, v : Holds(l, v)' <=> Holds(l, v)
  <2>1. worker'.done \in worker.done .. worker.next /\ nCommitted <= nCommitted'
    BY <1>t, <1>1, <1>2 DEF WorkerStates
  <2>2. worker'.pc \notin {"first", "run"}
    BY <1>2
  <2>3. QED
    BY <1>t, <1>1, <1>2, <2>1, <2>2, BetweenTickets
<1>5. WorkerInv'
  BY <1>t, <1>1, <1>2 DEF FatInv, WorkerInv, WorkerStates
<1>6. LeavesInv'
  <2>1. LeavesInv /\ RingInv
    BY DEF FatInv
  <2>2. CASE worker.next > worker.done
    <3>1. published' = [v \in DOMAIN published \cup {worker.next} |->
                          IF v = worker.next THEN ctx[Slot(v)].root ELSE published[v]]
      BY <2>2 DEF Publish
    <3>2. worker'.pc = "store"
      BY <1>2, <2>2
    <3>3. Holds(ctx[Slot(worker.next)].root, worker.next)
      <4>1. Frontier = worker.next
        BY <1>t DEF Frontier, Executing
      <4>2. worker.next \in worker.done .. worker.next
        BY <1>t DEF WorkerStates
      <4>3. QED
        BY <2>1, <4>1, <4>2 DEF RingInv
    <3>4. ASSUME NEW v \in DOMAIN published'
          PROVE  v \in 0 .. worker.next /\ Holds(published'[v], v)
      <4>1. CASE v = worker.next
        BY <1>t, <3>1, <3>3, <4>1 DEF WorkerStates
      <4>2. CASE v # worker.next
        <5>1. v \in DOMAIN published /\ published'[v] = published[v]
          BY <3>1, <3>4, <4>2
        <5>2. v \in 0 .. worker.done /\ Holds(published[v], v)
          BY <1>t, <2>1, <5>1 DEF LeavesInv
        <5>3. QED
          BY <1>t, <5>1, <5>2 DEF WorkerStates
      <4>3. QED
        BY <4>1, <4>2
    <3>5. QED
      BY <1>1, <1>2, <1>4, <2>1, <3>2, <3>4 DEF LeavesInv
  <2>3. CASE ~ (worker.next > worker.done)
    <3>1. UNCHANGED published /\ worker'.pc = "stop"
      BY <1>2, <2>3 DEF Publish
    <3>2. QED
      BY <1>t, <1>1, <1>2, <1>4, <2>1, <3>1 DEF LeavesInv
  <2>4. QED
    BY <2>2, <2>3
<1>7. QED
  BY <1>3, <1>4, <1>5, <1>6 DEF FatInv

LEMMA StoreStep ==
  ASSUME FatInv, Store
  PROVE  FatInv'
<1>t. /\ worker \in WorkerStates /\ nSubmitted \in Nat /\ nCommitted = worker.done
      /\ worker.done <= worker.next /\ worker.pc = "store" /\ B \in Nat
  BY RingAssumption DEF FatInv, TypeOK, WorkerInv, Store
<1>1. /\ UNCHANGED <<nSubmitted, client, stop, log, ctx, leaves, published, setup>>
      /\ nCommitted' = worker.next
      /\ worker' = [worker EXCEPT !.pc = "stop", !.done = worker.next]
  BY DEF Store, clientside
<1>2. /\ worker' \in WorkerStates /\ nCommitted' \in Nat
      /\ worker'.done = worker.next /\ worker'.next = worker.next /\ worker'.sub = worker.sub
      /\ worker'.pc = "stop"
  BY <1>t, <1>1 DEF WorkerStates
<1>3. TypeOK'
  BY <1>1, <1>2 DEF FatInv, TypeOK
<1>4. ClientInv' /\ RingInv' /\ Frontier' = Frontier /\ \A l, v : Holds(l, v)' <=> Holds(l, v)
  <2>1. worker'.done \in worker.done .. worker.next /\ nCommitted <= nCommitted'
    BY <1>t, <1>1, <1>2 DEF WorkerStates
  <2>2. QED
    BY <1>t, <1>1, <1>2, <2>1, BetweenTickets
<1>5. WorkerInv'
  <2>1. nSubmitted < worker.next + B
    BY <1>t DEF FatInv, WorkerInv, WorkerStates
  <2>2. QED
    BY <1>t, <1>1, <1>2, <2>1 DEF FatInv, WorkerInv, WorkerStates
<1>6. LeavesInv'
  <2>1. LeavesInv
    BY DEF FatInv
  <2>2. QED
    BY <1>t, <1>1, <1>2, <1>4, <2>1 DEF LeavesInv
<1>7. QED
  BY <1>3, <1>4, <1>5, <1>6 DEF FatInv

LEMMA DestroyStep ==
  ASSUME FatInv, Destroy
  PROVE  FatInv'
<1>1. /\ UNCHANGED <<setup, nSubmitted, nCommitted, ctx, client, worker, leaves, log, published>>
      /\ stop' = TRUE
  BY DEF Destroy
<1>2. TypeOK'
  BY <1>1 DEF FatInv, TypeOK
<1>3. (\A t : Slot(t)' = Slot(t)) /\ ClientInv /\ WorkerInv
  BY DEF Slot, FatInv
<1>4. ClientInv'
  BY <1>1, <1>3 DEF ClientInv
<1>5. WorkerInv'
  BY <1>1, <1>3 DEF WorkerInv
<1>6. RingInv' /\ LeavesInv'
  BY <1>1, RingSame
<1>7. QED
  BY <1>2, <1>4, <1>5, <1>6 DEF FatInv

\* The next ticket of the batch takes the root of the one before.
LEMMA BeginStep ==
  ASSUME FatInv, Begin
  PROVE  FatInv'
<1>t. /\ worker \in WorkerStates /\ worker.next \in Nat /\ worker.done \in Nat /\ nSubmitted \in Nat
      /\ worker.done <= worker.next /\ worker.next < worker.sub /\ worker.sub <= nSubmitted
      /\ worker.sub \in Nat /\ worker.pc = "batch" /\ ctx \in [0 .. B - 1 -> Contexts]
  BY DEF FatInv, TypeOK, WorkerStates, WorkerInv, Begin, InBatch
<1>1. PICK n \in Nat : n = worker.next + 1
  BY <1>t
<1>2. PICK s \in 0 .. B - 1 : s = Slot(n)
  BY SlotFacts
<1>3. PICK p : p = ctx[Slot(worker.next)].root
  OBVIOUS
<1>4. /\ UNCHANGED <<nSubmitted, client, stop, log, nCommitted, leaves, published, setup>>
      /\ worker' = [worker EXCEPT !.pc = "first", !.next = @ + 1]
      /\ ctx' = [ctx EXCEPT ![s].past = p]
  BY <1>1, <1>2, <1>3 DEF Begin, clientside
<1>5. p \in Nat \ {0}
  <2>1. PICK m \in Int : m = worker.next
    BY <1>t
  <2>2. Slot(m) \in 0 .. B - 1
    BY SlotFacts
  <2>3. QED
    BY <1>t, <1>3, <2>1, <2>2 DEF Contexts
<1>6. /\ worker' \in WorkerStates /\ worker'.pc = "first" /\ worker'.next = n
      /\ worker'.done = worker.done /\ worker'.sub = worker.sub
  BY <1>t, <1>1, <1>4 DEF WorkerStates
<1>7. /\ ctx' \in [0 .. B - 1 -> Contexts] /\ ctx'[s].past = p
      /\ \A r \in 0 .. B - 1 : /\ ctx'[r].op = ctx[r].op /\ ctx'[r].sno = ctx[r].sno
                               /\ ctx'[r].key = ctx[r].key /\ ctx'[r].root = ctx[r].root
  BY <1>t, <1>4, <1>5 DEF Contexts
<1>8. TypeOK'
  BY <1>4, <1>6, <1>7 DEF FatInv, TypeOK
<1>9. \A t \in Int : /\ ctx'[Slot(t)].op = ctx[Slot(t)].op /\ ctx'[Slot(t)].sno = ctx[Slot(t)].sno
                     /\ ctx'[Slot(t)].key = ctx[Slot(t)].key /\ ctx'[Slot(t)].root = ctx[Slot(t)].root
  BY <1>7, SlotFacts
<1>10. \A t : Slot(t)' = Slot(t)
  BY DEF Slot
<1>11. ClientInv'
  <2>1. ClientInv /\ \A c \in Clients : client[c].tid \in Int
    BY DEF FatInv, TypeOK, ClientStates
  <2>2. QED
    BY <1>4, <1>9, <1>10, <2>1 DEF ClientInv
<1>12. WorkerInv'
  BY <1>t, <1>1, <1>4, <1>6 DEF FatInv, WorkerInv
<1>13. Frontier = worker.next /\ Frontier' = worker.next
  BY <1>t, <1>1, <1>6 DEF Frontier, Executing
<1>14. \A l, v : Holds(l, v)' <=> Holds(l, v)
  BY <1>4, HoldsSame
<1>15. RingInv'
  <2>1. RingInv
    BY DEF FatInv
  <2>2. n \in worker.next + 1 .. nSubmitted /\ n + 1 .. nSubmitted \subseteq worker.next + 1 .. nSubmitted
    BY <1>t, <1>1
  <2>3. ctx'[Slot(n)].op = "init"
    BY <1>9, <2>1, <2>2 DEF RingInv
  <2>4. ctx'[Slot(n)].past = ctx'[Slot(n - 1)].root
    <3>1. n - 1 = worker.next /\ n - 1 \in Int
      BY <1>t, <1>1
    <3>2. QED
      BY <1>2, <1>3, <1>7, <1>9, <3>1
  <2>5. \A t \in worker.done .. worker.next : Holds(ctx'[Slot(t)].root, t)
    BY <1>9, <1>13, <2>1 DEF RingInv
  <2>6. /\ \A t \in worker.done .. nSubmitted : ctx'[Slot(t)].sno = t
        /\ \A t \in worker.done + 1 .. nSubmitted : ctx'[Slot(t)].key = log[t]
        /\ \A t \in n + 1 .. nSubmitted : ctx'[Slot(t)].op = "init"
    BY <1>9, <2>1, <2>2 DEF RingInv
  <2>7. QED
    BY <1>4, <1>6, <1>10, <1>13, <1>14, <2>3, <2>4, <2>5, <2>6 DEF RingInv
<1>16. LeavesInv'
  BY <1>t, <1>4, <1>6, <1>13, <1>14 DEF FatInv, LeavesInv
<1>17. QED
  BY <1>8, <1>11, <1>12, <1>15, <1>16 DEF FatInv
-----------------------------------------------------------------------------
(* The execution of a ticket.                                              *)

LEMMA NewestTyped ==
  ASSUME NEW l \in Leaves, NEW k \in Keys, NEW v \in Nat
  PROVE  Newest(l, k, v) \in Nat
<1>1. PICK n \in Nat : DOMAIN l.slots = 1 .. n
  BY DEF Leaves
<1>2. \A i \in 1 .. n : l.slots[i].sno \in Nat
  <2>1. l.slots \in Seq(VersionedSlots)
    BY DEF Leaves
  <2>2. \A i \in 1 .. n : l.slots[i] \in VersionedSlots
    BY <1>1, <2>1
  <2>3. QED
    BY <2>2 DEF VersionedSlots
<1>3. PICK s : s = LastSlot(l, k, v) /\ s \subseteq 1 .. n
  BY <1>1 DEF LastSlot
<1>4. CASE s = {}
  BY <1>3, <1>4 DEF Newest, Leaves
<1>5. CASE s # {}
  <2>1. PICK h \in s : h = CHOOSE i \in s : \A j \in s : j <= i
    BY <1>3, <1>5, HighestFacts
  <2>2. QED
    BY <1>2, <1>3, <1>5, <2>1 DEF Newest
<1>6. QED
  BY <1>4, <1>5

\* A leaf that holds the version before gives all keys but the ticket's.
LEMMA NextVersion ==
  ASSUME log \in Seq(Keys), NEW n \in Nat, n \in 1 .. Len(log), NEW l \in Leaves,
         \A i \in DOMAIN l.slots : l.slots[i].sno <= n - 1,
         \A k \in Keys : Newest(l, k, n - 1) = Promise(n - 1)[k]
  PROVE  \A k \in Keys : Promise(n)[k] = IF k = log[n] THEN n ELSE Newest(l, k, n)
<1>1. PICK u \in Nat : n = u + 1 /\ n - 1 = u /\ u <= n
  OBVIOUS
<1>2. ASSUME NEW k \in Keys
      PROVE  Promise(n)[k] = IF k = log[n] THEN n ELSE Newest(l, k, n)
  <2>1. Promise(n)[k] = IF log[n] = k THEN n ELSE Promise(u)[k]
    BY <1>1, PromiseStep
  <2>2. Newest(l, k, n) = Newest(l, k, u)
    BY <1>1, NewestStays
  <2>3. Newest(l, k, u) = Promise(u)[k]
    BY <1>1
  <2>4. QED
    BY <2>1, <2>2, <2>3
<1>3. QED
  BY <1>2

Done(f, s, root) == [f EXCEPT ![s].op = "done", ![s].root = root]

IsDone(f, s, root, g) ==
  /\ g \in [0 .. B - 1 -> Contexts] /\ g[s].op = "done" /\ g[s].root = root
  /\ g[s].sno = f[s].sno /\ g[s].key = f[s].key
  /\ \A r \in (0 .. B - 1) \ {s} : g[r] = f[r]

LEMMA ContextDone ==
  ASSUME NEW f, NEW s, NEW root, f \in [0 .. B - 1 -> Contexts], s \in 0 .. B - 1,
         root \in Nat \ {0}
  PROVE  IsDone(f, s, root, Done(f, s, root))
<1> DEFINE g == Done(f, s, root)
<1> HIDE DEF g
<1> DEFINE h == [f EXCEPT ![s].op = "done"]
<1>1. /\ h \in [0 .. B - 1 -> Contexts] /\ h[s].op = "done"
      /\ h[s].sno = f[s].sno /\ h[s].key = f[s].key
      /\ \A r \in (0 .. B - 1) \ {s} : h[r] = f[r]
  BY DEF Contexts
<1>2. g = [h EXCEPT ![s].root = root]
  BY DEF Done, g
<1> HIDE DEF h
<1>3. h[s] \in Contexts /\ \A r \in (0 .. B - 1) \ {s} : g[r] = h[r]
  BY <1>1, <1>2
<1>4. g[s] = [h[s] EXCEPT !.root = root] /\ DOMAIN g = 0 .. B - 1 /\ g = [r \in 0 .. B - 1 |-> g[r]]
  BY <1>1, <1>2
<1>5. /\ g[s] \in Contexts /\ g[s].op = h[s].op /\ g[s].root = root
      /\ g[s].sno = h[s].sno /\ g[s].key = h[s].key
  BY <1>3, <1>4 DEF Contexts
<1>6. \A r \in 0 .. B - 1 : g[r] \in Contexts
  BY <1>1, <1>3, <1>5
<1>7. IsDone(f, s, root, g)
  BY <1>1, <1>3, <1>4, <1>5, <1>6 DEF IsDone
<1>8. QED
  BY <1>7 DEF g

\* handlers[i] is done: the ticket's root holds its version, the older ones stay.
LEMMA Executed ==
  ASSUME FatInv, Executing, NEW n \in Nat, n = worker.next, NEW root \in Nat \ {0},
         UNCHANGED <<nSubmitted, nCommitted, client, stop, log, published, setup>>,
         worker' = [worker EXCEPT !.pc = "run"],
         NEW s, s = Slot(n),
         ctx' = Done(ctx, s, root),
         leaves' \in Seq(Leaves), DOMAIN leaves \subseteq DOMAIN leaves',
         \A l \in DOMAIN leaves, v \in 0 .. n - 1 : View(l, v)' = View(l, v),
         Holds(root, n)',
         \A l \in DOMAIN leaves' : \A i \in DOMAIN leaves'[l].slots : leaves'[l].slots[i].sno <= n
  PROVE  FatInv'
<1>t. /\ worker \in WorkerStates /\ worker.done \in Nat /\ nSubmitted \in Nat
      /\ worker.done < n /\ n <= worker.sub /\ worker.sub <= nSubmitted
      /\ worker.sub \in Nat /\ worker.pc \in {"first", "run"} /\ ctx \in [0 .. B - 1 -> Contexts]
  BY DEF FatInv, TypeOK, WorkerStates, WorkerInv, Executing
<1>1. s \in 0 .. B - 1
  BY SlotFacts
<1>2. /\ worker' \in WorkerStates /\ worker'.pc = "run" /\ worker'.next = n
      /\ worker'.done = worker.done /\ worker'.sub = worker.sub
  BY <1>t DEF WorkerStates
<1>3. /\ ctx' \in [0 .. B - 1 -> Contexts] /\ ctx'[s].op = "done" /\ ctx'[s].root = root
      /\ ctx'[s].sno = ctx[s].sno /\ ctx'[s].key = ctx[s].key
      /\ \A r \in (0 .. B - 1) \ {s} : ctx'[r] = ctx[r]
  <2>1. IsDone(ctx, s, root, Done(ctx, s, root))
    BY <1>t, <1>1, ContextDone
  <2>2. QED
    BY <2>1 DEF IsDone
<1>4. TypeOK'
  BY <1>2, <1>3 DEF FatInv, TypeOK
<1>5. \A t : Slot(t)' = Slot(t)
  BY DEF Slot
<1>6. \A t \in worker.done .. nSubmitted : t # n => Slot(t) \in 0 .. B - 1 /\ Slot(t) # s
  <2>1. n \in worker.done .. nSubmitted
    BY <1>t
  <2>2. \A t \in worker.done .. nSubmitted : t \in Int
    OBVIOUS
  <2>3. QED
    BY <2>1, <2>2, SlotFacts, RingApart
<1>7. \A c \in Clients : client[c].pc = "fill" =>
        Slot(client[c].tid) \in 0 .. B - 1 /\ Slot(client[c].tid) # s
  <2>1. n \in worker.done .. nSubmitted
    BY <1>t
  <2>2. \A c \in Clients : client[c].tid \in Int
    BY DEF FatInv, TypeOK, ClientStates
  <2>3. QED
    BY <2>1, <2>2, SlotFacts, RingApart
<1>8. ClientInv'
  <2>1. ClientInv
    BY DEF FatInv
  <2>2. \A c \in Clients : client[c].pc = "fill" =>
          ctx'[Slot(client[c].tid)] = ctx[Slot(client[c].tid)]
    BY <1>3, <1>7
  <2>3. QED
    BY <1>5, <2>1, <2>2 DEF ClientInv
<1>9. WorkerInv'
  BY <1>t, <1>2 DEF FatInv, WorkerInv
<1>10. Frontier = n - 1 /\ Frontier' = n /\ ~ Executing'
  <2>1. ctx'[Slot(n)].op = "done"
    BY <1>3
  <2>2. ~ Executing'
    BY <1>2, <1>5, <2>1 DEF Executing
  <2>3. QED
    BY <1>2, <2>2 DEF Frontier
<1>11. \A l : \A v \in 0 .. n - 1 : Holds(l, v) => Holds(l, v)'
  <2>1. \A v : Promise(v)' = Promise(v)
    BY PromiseGiven, PromiseGivenNext
  <2>2. QED
    BY <2>1 DEF Holds
<1>12. RingInv'
  <2>1. RingInv
    BY DEF FatInv
  <2>2. /\ \A t \in worker.done .. nSubmitted : ctx'[Slot(t)].sno = ctx[Slot(t)].sno
        /\ \A t \in worker.done .. nSubmitted : ctx'[Slot(t)].key = ctx[Slot(t)].key
        /\ \A t \in worker.done .. nSubmitted : t # n => ctx'[Slot(t)] = ctx[Slot(t)]
    BY <1>3, <1>6
  <2>3. /\ worker.done + 1 .. nSubmitted \subseteq worker.done .. nSubmitted
        /\ n + 1 .. nSubmitted \subseteq worker.done .. nSubmitted /\ n \notin n + 1 .. nSubmitted
    BY <1>t
  <2>4. /\ \A t \in worker.done .. nSubmitted : ctx'[Slot(t)].sno = t
        /\ \A t \in worker.done + 1 .. nSubmitted : ctx'[Slot(t)].key = log[t]
        /\ \A t \in n + 1 .. nSubmitted : ctx'[Slot(t)].op = "init"
    BY <2>1, <2>2, <2>3 DEF RingInv
  <2>5. \A t \in worker.done .. n : Holds(ctx[Slot(t)].root, t)'
    <3>1. worker.done .. n = (worker.done .. n - 1) \cup {n}
      BY <1>t
    <3>2. \A t \in worker.done .. n - 1 : /\ t \in 0 .. n - 1 /\ t \in worker.done .. nSubmitted
                                          /\ t # n
      BY <1>t
    <3>3. \A t \in worker.done .. n - 1 : Holds(ctx[Slot(t)].root, t)
      BY <1>10, <2>1 DEF RingInv
    <3>4. ASSUME NEW t \in worker.done .. n - 1 PROVE Holds(ctx[Slot(t)].root, t)'
      <4>1. PICK r : r = ctx[Slot(t)].root
        OBVIOUS
      <4>2. Holds(r, t)'
        BY <1>11, <3>2, <3>3, <4>1
      <4>3. ctx'[Slot(t)].root = r
        BY <2>2, <3>2, <4>1
      <4>4. QED
        BY <1>5, <4>2, <4>3
    <3>5. Holds(ctx[Slot(n)].root, n)'
      BY <1>3, <1>5
    <3>6. QED
      BY <3>1, <3>4, <3>5
  <2>6. ctx'[Slot(n)].op = "done"
    BY <1>3
  <2>7. QED
    BY <1>2, <1>5, <1>10, <2>4, <2>5, <2>6 DEF RingInv
<1>13. LeavesInv'
  <2>1. LeavesInv /\ \A v \in DOMAIN published : v \in 0 .. n - 1
    BY <1>t DEF FatInv, LeavesInv
  <2>2. QED
    BY <1>t, <1>2, <1>10, <1>11, <2>1 DEF LeavesInv
<1>14. QED
  BY <1>4, <1>8, <1>9, <1>12, <1>13 DEF FatInv

\* t_past is the root of a leaf that holds the version before.
LEMMA PastHolds ==
  ASSUME FatInv, Executing, NEW n \in Nat, n = worker.next, NEW x, x = ctx[Slot(n)]
  PROVE  /\ n \in 1 .. Len(log) /\ log \in Seq(Keys) /\ log[n] \in Keys
         /\ x.sno = n /\ x.key = log[n]
         /\ x.past \in DOMAIN leaves /\ leaves[x.past] \in Leaves /\ x.past \in Nat \ {0}
         /\ \A l \in DOMAIN leaves : \A i \in DOMAIN leaves[l].slots :
              leaves[l].slots[i].sno <= n - 1
         /\ \A k \in Keys : Newest(leaves[x.past], k, n - 1) = Promise(n - 1)[k]
<1>t. /\ worker.done \in Nat /\ nSubmitted \in Nat /\ worker.done < n /\ n <= nSubmitted
      /\ Len(log) = nSubmitted /\ log \in Seq(Keys) /\ leaves \in Seq(Leaves)
  BY DEF FatInv, TypeOK, WorkerStates, WorkerInv, Executing
<1>1. RingInv /\ LeavesInv /\ Frontier = n - 1
  BY DEF FatInv, Frontier
<1>2. /\ n \in worker.done .. nSubmitted /\ n \in worker.done + 1 .. nSubmitted
      /\ n - 1 \in worker.done .. n - 1 /\ n \in 1 .. Len(log)
  BY <1>t
<1>3. log[n] \in Keys
  BY <1>t, <1>2
<1>4. x.sno = n /\ x.key = log[n]
  BY <1>1, <1>2 DEF RingInv
<1>5. PICK p : p = x.past /\ p = ctx[Slot(n - 1)].root
  BY <1>1 DEF RingInv
<1>6. Holds(p, n - 1)
  BY <1>1, <1>2, <1>5 DEF RingInv
<1>7. p \in DOMAIN leaves /\ View(p, n - 1) = Promise(n - 1)
  BY <1>6 DEF Holds
<1>8. leaves[p] \in Leaves /\ p \in Nat \ {0}
  BY <1>t, <1>7
<1>9. ASSUME NEW k \in Keys PROVE Newest(leaves[p], k, n - 1) = Promise(n - 1)[k]
  <2>1. View(p, n - 1)[k] = Newest(leaves[p], k, n - 1)
    BY ViewNewest
  <2>2. QED
    BY <1>7, <2>1
<1>10. QED
  BY <1>t, <1>1, <1>2, <1>3, <1>4, <1>5, <1>7, <1>8, <1>9 DEF LeavesInv

\* handlers[0]: the ticket's slot is appended, or a copy begun.
LEMMA FirstStep ==
  ASSUME FatInv, First
  PROVE  FatInv'
<1>t. /\ worker \in WorkerStates /\ worker.next \in Nat /\ leaves \in Seq(Leaves)
      /\ ctx \in [0 .. B - 1 -> Contexts] /\ worker.pc = "first" /\ Executing
  BY DEF FatInv, TypeOK, WorkerStates, First, Executing
<1>1. PICK n \in Nat : n = worker.next
  BY <1>t
<1>2. PICK s \in 0 .. B - 1 : s = Slot(n)
  BY SlotFacts
<1>3. PICK x : x = ctx[s]
  OBVIOUS
<1>4. /\ UNCHANGED <<nSubmitted, nCommitted, client, stop, log, published, setup>>
      /\ worker' = [worker EXCEPT !.pc = "run"] /\ HandleInit(s)
  BY <1>1, <1>2 DEF First, NextPc, clientside
<1>5. /\ n \in 1 .. Len(log) /\ log \in Seq(Keys) /\ log[n] \in Keys
      /\ x.sno = n /\ x.key = log[n]
      /\ x.past \in DOMAIN leaves /\ leaves[x.past] \in Leaves /\ x.past \in Nat \ {0}
      /\ \A l \in DOMAIN leaves : \A i \in DOMAIN leaves[l].slots :
           leaves[l].slots[i].sno <= n - 1
      /\ \A k \in Keys : Newest(leaves[x.past], k, n - 1) = Promise(n - 1)[k]
  BY <1>t, <1>1, <1>2, <1>3, PastHolds
<1>6. PICK p, l : p = x.past /\ l = leaves[p]
  OBVIOUS
<1>7. CASE fat /\ Len(l.slots) < Room
  <2> DEFINE e == [sno |-> n, key |-> log[n]]
             m == [l EXCEPT !.slots = Append(@, e)]
  <2>1. leaves' = [leaves EXCEPT ![p] = m]
    BY <1>3, <1>4, <1>5, <1>6, <1>7 DEF HandleInit
  <2>2. ctx' = Done(ctx, s, p)
    BY <1>3, <1>4, <1>6, <1>7 DEF HandleInit, Done
  <2>3. /\ e \in VersionedSlots /\ e.sno = n /\ e.key = log[n]
        /\ l \in Leaves /\ m \in Leaves /\ m.base = l.base /\ m.slots = Append(l.slots, e)
    <3>1. e \in VersionedSlots /\ e.sno = n /\ e.key = log[n] /\ l \in Leaves
      BY <1>5, <1>6 DEF VersionedSlots
    <3> HIDE DEF e
    <3>2. m.base = l.base /\ m.slots = Append(l.slots, e)
      BY <3>1 DEF Leaves
    <3>3. m.slots \in Seq(VersionedSlots)
      BY <3>1, <3>2 DEF Leaves
    <3>4. m \in Leaves
      BY <3>1, <3>2, <3>3 DEF Leaves
    <3>5. QED
      BY <3>1, <3>2, <3>4
  <2> HIDE DEF e, m
  <2>4. /\ leaves' \in Seq(Leaves) /\ DOMAIN leaves' = DOMAIN leaves /\ leaves'[p] = m
        /\ \A q \in DOMAIN leaves : q # p => leaves'[q] = leaves[q]
    BY <1>t, <1>5, <1>6, <2>1, <2>3
  <2>5. ASSUME NEW q \in DOMAIN leaves, NEW v \in 0 .. n - 1
        PROVE  View(q, v)' = View(q, v)
    <3>1. \A k \in Keys : Newest(leaves'[q], k, v) = Newest(leaves[q], k, v)
      <4>1. CASE q # p
        BY <2>4, <4>1
      <4>2. CASE q = p
        <5>1. v \in Nat /\ v < e.sno
          BY <2>3
        <5>2. \A k \in Keys : Newest(m, k, v) = Newest(l, k, v)
          BY <2>3, <5>1, NewestHidden
        <5>3. QED
          BY <1>6, <2>4, <4>2, <5>2
      <4>3. QED
        BY <4>1, <4>2
    <3>2. View(q, v)' = [k \in Keys |-> Newest(leaves'[q], k, v)]
      BY DEF View, Newest
    <3>3. QED
      BY <3>1, <3>2, ViewNewest
  <2>6. Holds(p, n)'
    <3>1. \A k \in Keys : Promise(n)[k] = IF k = log[n] THEN n ELSE Newest(l, k, n)
      <4>1. l \in Leaves /\ n \in 1 .. Len(log) /\ log \in Seq(Keys)
        BY <1>5, <2>3
      <4>2. /\ \A i \in DOMAIN l.slots : l.slots[i].sno <= n - 1
            /\ \A k \in Keys : Newest(l, k, n - 1) = Promise(n - 1)[k]
        BY <1>5, <1>6
      <4>3. QED
        BY <4>1, <4>2, NextVersion
    <3>2. ASSUME NEW k \in Keys PROVE Newest(m, k, n) = Promise(n)[k]
      <4>1. CASE k = log[n]
        BY <2>3, <3>1, <4>1, NewestAppended
      <4>2. CASE k # log[n]
        <5>1. Newest(m, k, n) = Newest(l, k, n)
          BY <2>3, <4>2, NewestHidden
        <5>2. QED
          BY <3>1, <4>2, <5>1
      <4>3. QED
        BY <4>1, <4>2
    <3>3. Promise(n)' = Promise(n)
      BY <1>4, PromiseGiven, PromiseGivenNext
    <3>4. View(p, n)' = [k \in Keys |-> Newest(m, k, n)]
      BY <2>4 DEF View, Newest
    <3>5. Promise(n) = [k \in Keys |-> Promise(n)[k]]
      BY PromiseGiven DEF Given
    <3>6. View(p, n)' = Promise(n)
      BY <3>2, <3>4, <3>5
    <3>7. QED
      BY <1>5, <1>6, <2>4, <3>3, <3>6 DEF Holds
  <2>7. \A q \in DOMAIN leaves' : \A i \in DOMAIN leaves'[q].slots : leaves'[q].slots[i].sno <= n
    <3>1. ASSUME NEW i \in DOMAIN m.slots PROVE m.slots[i].sno <= n
      <4>1. PICK h \in Nat : h = Len(l.slots) /\ DOMAIN l.slots = 1 .. h
        BY <2>3 DEF Leaves
      <4>2. DOMAIN m.slots = 1 .. h + 1 /\ m.slots[h + 1] = e /\ \A j \in 1 .. h : m.slots[j] = l.slots[j]
        BY <2>3, <4>1 DEF Leaves
      <4>3. CASE i = h + 1
        BY <2>3, <4>2, <4>3
      <4>4. CASE i # h + 1
        <5>1. i \in 1 .. h /\ m.slots[i] = l.slots[i]
          BY <3>1, <4>2, <4>4
        <5>2. l.slots[i].sno <= n - 1 /\ l.slots[i].sno \in Nat
          <6>1. l.slots[i].sno <= n - 1
            BY <1>5, <1>6, <4>1, <5>1
          <6>2. l.slots \in Seq(VersionedSlots)
            BY <2>3 DEF Leaves
          <6>3. l.slots[i] \in VersionedSlots
            BY <4>1, <5>1, <6>2
          <6>4. QED
            BY <6>1, <6>3 DEF VersionedSlots
        <5>3. QED
          BY <5>1, <5>2
      <4>5. QED
        BY <4>3, <4>4
    <3>2. ASSUME NEW q \in DOMAIN leaves, q # p, NEW i \in DOMAIN leaves[q].slots
          PROVE  leaves[q].slots[i].sno <= n
      <4>1. leaves[q].slots[i].sno <= n - 1
        BY <1>5
      <4>2. leaves[q] \in Leaves
        BY <1>t
      <4>3. leaves[q].slots \in Seq(VersionedSlots)
        BY <4>2 DEF Leaves
      <4>4. leaves[q].slots[i] \in VersionedSlots
        BY <4>3
      <4>5. QED
        BY <4>1, <4>4 DEF VersionedSlots
    <3>3. QED
      BY <2>4, <3>1, <3>2
  <2>8. p \in Nat \ {0}
    BY <1>5, <1>6
  <2>9. QED
    BY <1>t, <1>1, <1>2, <1>4, <2>2, <2>4, <2>5, <2>6, <2>7, <2>8, Executed
<1>8. CASE ~ (fat /\ Len(l.slots) < Room)
  <2>1. ctx' = [ctx EXCEPT ![s].op = "copy"] /\ UNCHANGED leaves
    BY <1>3, <1>4, <1>6, <1>8 DEF HandleInit
  <2>2. /\ ctx' \in [0 .. B - 1 -> Contexts] /\ ctx'[s].op = "copy"
        /\ \A r \in 0 .. B - 1 :
             /\ r # s => ctx'[r].op = ctx[r].op
             /\ ctx'[r].sno = ctx[r].sno /\ ctx'[r].key = ctx[r].key
             /\ ctx'[r].past = ctx[r].past /\ ctx'[r].root = ctx[r].root
    BY <1>t, <2>1 DEF Contexts
  <2>3. /\ worker' \in WorkerStates /\ worker'.pc = "run" /\ worker'.next = n
        /\ worker'.done = worker.done /\ worker'.sub = worker.sub
    BY <1>t, <1>1, <1>4 DEF WorkerStates
  <2>4. TypeOK'
    BY <1>4, <2>1, <2>2, <2>3 DEF FatInv, TypeOK
  <2>5. \A t : Slot(t)' = Slot(t)
    BY DEF Slot
  <2>6. \A t \in Int : /\ Slot(t) # s => ctx'[Slot(t)].op = ctx[Slot(t)].op
                       /\ ctx'[Slot(t)].sno = ctx[Slot(t)].sno /\ ctx'[Slot(t)].key = ctx[Slot(t)].key
                       /\ ctx'[Slot(t)].past = ctx[Slot(t)].past
                       /\ ctx'[Slot(t)].root = ctx[Slot(t)].root
    BY <2>2, SlotFacts
  <2>7. /\ worker.done \in Nat /\ nSubmitted \in Nat /\ worker.sub \in Nat
        /\ worker.done < n /\ n <= worker.sub /\ worker.sub <= nSubmitted
    BY <1>t, <1>1 DEF FatInv, TypeOK, WorkerStates, WorkerInv
  <2>8. /\ n \in worker.done .. nSubmitted
        /\ \A t \in n + 1 .. nSubmitted : t \in Int /\ t \in worker.done .. nSubmitted /\ t # n
    BY <2>7
  <2>9. ClientInv'
    <3>1. ClientInv /\ \A c \in Clients : client[c].tid \in Int
      BY DEF FatInv, TypeOK, ClientStates
    <3>2. \A c \in Clients : client[c].pc = "fill" => Slot(client[c].tid) # s
      BY <1>2, <2>8, RingApart
    <3>3. QED
      BY <1>4, <2>5, <2>6, <3>1, <3>2 DEF ClientInv
  <2>10. WorkerInv'
    BY <1>t, <1>1, <1>4, <2>3, <2>7 DEF FatInv, WorkerInv
  <2>11. Executing' /\ Frontier = n - 1 /\ Frontier' = n - 1
    BY <1>t, <1>1, <1>2, <2>2, <2>3, <2>5 DEF Executing, Frontier
  <2>12. \A q, v : Holds(q, v)' <=> Holds(q, v)
    BY <1>4, <2>1, HoldsSame
  <2>13. RingInv'
    <3>1. RingInv
      BY DEF FatInv
    <3>2. \A t \in n + 1 .. nSubmitted : ctx'[Slot(t)].op = "init"
      <4>1. \A t \in n + 1 .. nSubmitted : Slot(t) # s
        BY <1>2, <2>8, RingApart
      <4>2. QED
        BY <1>1, <2>6, <2>8, <3>1, <4>1 DEF RingInv
    <3>3. /\ \A t \in worker.done .. nSubmitted : ctx'[Slot(t)].sno = t
          /\ \A t \in worker.done + 1 .. nSubmitted : ctx'[Slot(t)].key = log[t]
      BY <2>6, <3>1 DEF RingInv
    <3>4. ctx'[Slot(n)].past = ctx'[Slot(n - 1)].root
      <4>1. n \in Int /\ n - 1 \in Int
        OBVIOUS
      <4>2. QED
        BY <1>t, <1>1, <2>6, <3>1, <4>1 DEF RingInv
    <3>5. \A t \in worker.done .. n - 1 : Holds(ctx'[Slot(t)].root, t)
      BY <2>6, <2>11, <3>1 DEF RingInv
    <3>6. ctx'[Slot(n)].op = "copy"
      BY <1>2, <2>2
    <3>7. QED
      BY <1>4, <2>3, <2>5, <2>11, <2>12, <3>2, <3>3, <3>4, <3>5, <3>6 DEF RingInv
  <2>14. LeavesInv'
    BY <1>t, <1>4, <2>1, <2>3, <2>11, <2>12 DEF FatInv, LeavesInv
  <2>15. QED
    BY <2>4, <2>9, <2>10, <2>13, <2>14 DEF FatInv
<1>9. QED
  BY <1>7, <1>8

\* The later handlers: the copy is built, and a ticket that is done ends its turn.
LEMMA RunStep ==
  ASSUME FatInv, Run
  PROVE  FatInv'
<1>t. /\ worker \in WorkerStates /\ worker.next \in Nat /\ leaves \in Seq(Leaves)
      /\ ctx \in [0 .. B - 1 -> Contexts] /\ worker.pc = "run"
  BY DEF FatInv, TypeOK, WorkerStates, Run
<1>1. PICK n \in Nat : n = worker.next
  BY <1>t
<1>2. PICK s \in 0 .. B - 1 : s = Slot(n)
  BY SlotFacts
<1>3. PICK x : x = ctx[s]
  OBVIOUS
<1>4. UNCHANGED <<nSubmitted, nCommitted, client, stop, log, published, setup>>
  BY DEF Run, clientside
<1>5. x.op \in {"copy", "done"}
  BY <1>t, <1>1, <1>2, <1>3 DEF FatInv, RingInv, Contexts
<1>6. CASE x.op = "copy"
  <2>1. HandleCopy(s) /\ UNCHANGED worker /\ Executing
    BY <1>t, <1>1, <1>2, <1>3, <1>6 DEF Run, Executing
  <2>2. /\ n \in 1 .. Len(log) /\ log \in Seq(Keys) /\ log[n] \in Keys
        /\ x.sno = n /\ x.key = log[n]
        /\ x.past \in DOMAIN leaves /\ leaves[x.past] \in Leaves /\ x.past \in Nat \ {0}
        /\ \A l \in DOMAIN leaves : \A i \in DOMAIN leaves[l].slots :
             leaves[l].slots[i].sno <= n - 1
        /\ \A k \in Keys : Newest(leaves[x.past], k, n - 1) = Promise(n - 1)[k]
    BY <1>1, <1>2, <1>3, <2>1, PastHolds
  <2>3. PICK p, l : p = x.past /\ l = leaves[p]
    OBVIOUS
  <2>4. PICK w : w = View(p, n)
    OBVIOUS
  <2>5. w = [k \in Keys |-> Newest(l, k, n)]
    BY <2>3, <2>4, ViewNewest
  <2>6. \A k \in Keys : Newest(l, k, n) \in Nat
    BY <2>2, <2>3, NewestTyped
  <2>r. PICK r : r = Len(leaves) + 1
    OBVIOUS
  <2>m. PICK m : m = [base |-> [w EXCEPT ![log[n]] = n], slots |-> <<>>]
    OBVIOUS
  <2>7. leaves' = Append(leaves, m) /\ ctx' = Done(ctx, s, r)
    BY <1>3, <2>1, <2>2, <2>3, <2>4, <2>r, <2>m DEF HandleCopy, Done
  <2>8. /\ m \in Leaves /\ m.slots = <<>>
        /\ \A k \in Keys : m.base[k] = IF k = log[n] THEN n ELSE Newest(l, k, n)
    <3>1. w \in [Keys -> Nat]
      BY <2>5, <2>6
    <3>2. [w EXCEPT ![log[n]] = n] \in [Keys -> Nat]
      BY <3>1
    <3>3. \A k \in Keys : [w EXCEPT ![log[n]] = n][k] = IF k = log[n] THEN n ELSE w[k]
      BY <3>1
    <3>4. \A k \in Keys : w[k] = Newest(l, k, n)
      BY <2>5
    <3>5. QED
      BY <2>m, <3>2, <3>3, <3>4 DEF Leaves
  <2>9. /\ r \in Nat \ {0} /\ leaves' \in Seq(Leaves) /\ DOMAIN leaves' = DOMAIN leaves \cup {r}
        /\ leaves'[r] = m /\ \A q \in DOMAIN leaves : leaves'[q] = leaves[q] /\ q # r
    BY <1>t, <2>r, <2>7, <2>8
  <2>10. ASSUME NEW q \in DOMAIN leaves, NEW v \in 0 .. n - 1
         PROVE  View(q, v)' = View(q, v)
    <3>1. View(q, v)' = [k \in Keys |-> Newest(leaves'[q], k, v)]
      BY DEF View, Newest
    <3>2. leaves'[q] = leaves[q]
      BY <2>9
    <3>3. QED
      BY <3>1, <3>2, ViewNewest
  <2>11. Holds(r, n)'
    <3>1. \A k \in Keys : Promise(n)[k] = IF k = log[n] THEN n ELSE Newest(l, k, n)
      <4>1. l \in Leaves /\ n \in 1 .. Len(log) /\ log \in Seq(Keys)
        BY <2>2, <2>3
      <4>2. /\ \A i \in DOMAIN l.slots : l.slots[i].sno <= n - 1
            /\ \A k \in Keys : Newest(l, k, n - 1) = Promise(n - 1)[k]
        BY <2>2, <2>3
      <4>3. QED
        BY <4>1, <4>2, NextVersion
    <3>2. \A k \in Keys : Newest(m, k, n) = m.base[k]
      <4>1. \A k \in Keys : LastSlot(m, k, n) = {}
        BY <2>8 DEF LastSlot
      <4>2. QED
        BY <4>1 DEF Newest
    <3>3. Promise(n)' = Promise(n)
      BY <1>4, PromiseGiven, PromiseGivenNext
    <3>4. View(r, n)' = [k \in Keys |-> Newest(m, k, n)]
      BY <2>9 DEF View, Newest
    <3>5. Promise(n) = [k \in Keys |-> Promise(n)[k]]
      BY PromiseGiven DEF Given
    <3>6. View(r, n)' = Promise(n)
      BY <2>8, <3>1, <3>2, <3>4, <3>5
    <3>7. QED
      BY <2>9, <3>3, <3>6 DEF Holds
  <2>12. \A q \in DOMAIN leaves' : \A i \in DOMAIN leaves'[q].slots : leaves'[q].slots[i].sno <= n
    <3>1. ASSUME NEW q \in DOMAIN leaves, NEW i \in DOMAIN leaves[q].slots
          PROVE  leaves[q].slots[i].sno <= n
      <4>1. leaves[q].slots[i].sno <= n - 1
        BY <2>2
      <4>2. leaves[q] \in Leaves
        BY <1>t
      <4>3. leaves[q].slots \in Seq(VersionedSlots)
        BY <4>2 DEF Leaves
      <4>4. leaves[q].slots[i] \in VersionedSlots
        BY <4>3
      <4>5. QED
        BY <4>1, <4>4 DEF VersionedSlots
    <3>2. DOMAIN m.slots = {}
      BY <2>8
    <3>3. QED
      BY <2>9, <3>1, <3>2
  <2>13. worker' = [worker EXCEPT !.pc = "run"]
    BY <1>t, <2>1 DEF WorkerStates
  <2>14. QED
    BY <1>1, <1>2, <1>4, <2>1, <2>7, <2>9, <2>10, <2>11, <2>12, <2>13, Executed
<1>7. CASE x.op = "done"
  <2>1. worker' = [worker EXCEPT !.pc = "batch"] /\ UNCHANGED <<ctx, leaves>>
    BY <1>t, <1>1, <1>2, <1>3, <1>7 DEF Run, NextPc
  <2>2. /\ worker' \in WorkerStates /\ worker'.pc = "batch" /\ worker'.next = worker.next
        /\ worker'.done = worker.done /\ worker'.sub = worker.sub
    BY <1>t, <2>1 DEF WorkerStates
  <2>3. (\A t : Slot(t)' = Slot(t)) /\ ~ Executing /\ ~ Executing'
    BY <1>t, <1>1, <1>2, <1>3, <1>7, <2>2 DEF Slot, Executing
  <2>4. Frontier = worker.next /\ Frontier' = worker.next
    BY <2>2, <2>3 DEF Frontier
  <2>5. \A q, v : Holds(q, v)' <=> Holds(q, v)
    BY <1>4, <2>1, HoldsSame
  <2>6. TypeOK'
    BY <1>4, <2>1, <2>2 DEF FatInv, TypeOK
  <2>7. ClientInv'
    BY <1>4, <2>1, <2>3 DEF FatInv, ClientInv
  <2>8. WorkerInv'
    BY <1>t, <1>4, <2>2 DEF FatInv, WorkerInv
  <2>9. RingInv'
    BY <1>4, <2>1, <2>2, <2>3, <2>4, <2>5 DEF FatInv, RingInv
  <2>10. LeavesInv'
    BY <1>t, <1>4, <2>1, <2>2, <2>4, <2>5 DEF FatInv, LeavesInv
  <2>11. QED
    BY <2>6, <2>7, <2>8, <2>9, <2>10 DEF FatInv
<1>8. QED
  BY <1>5, <1>6, <1>7
-----------------------------------------------------------------------------
(* The results.                                                            *)

LEMMA StepFat ==
  ASSUME setup \in Setups, fat, FatInv, [Next]_vars
  PROVE  FatInv'
<1>1. ASSUME NEW c \in setup.clients, Client(c) PROVE FatInv'
  <2>1. ~ Draw(c)
    BY DEF Draw
  <2>2. QED
    BY <1>1, <2>1, LockStep, WaitStep, FillStep, ReturnStep DEF Client
<1>2. CASE Worker
  BY <1>2, LoadStep, BeginStep, FirstStep, RunStep, PublishStep, StoreStep DEF Worker
<1>3. CASE Destroy
  BY <1>3, DestroyStep
<1>4. CASE UNCHANGED vars
  <2>1. UNCHANGED <<setup, nSubmitted, nCommitted, ctx, client, worker, stop, leaves, log, published>>
    BY <1>4 DEF vars
  <2>2. (\A t : Slot(t)' = Slot(t)) /\ ClientInv /\ WorkerInv /\ TypeOK
    BY DEF Slot, FatInv
  <2>3. TypeOK' /\ WorkerInv'
    BY <2>1, <2>2 DEF TypeOK, WorkerInv
  <2>4. ClientInv'
    BY <2>1, <2>2 DEF ClientInv
  <2>5. RingInv' /\ LeavesInv'
    BY <2>1, RingSame
  <2>6. QED
    BY <2>3, <2>4, <2>5 DEF FatInv
<1>5. QED
  BY <1>1, <1>2, <1>3, <1>4 DEF Next

LEMMA SetupStays == [Next]_vars => UNCHANGED setup
<1> SUFFICES ASSUME [Next]_vars PROVE UNCHANGED setup
  OBVIOUS
<1>1. CASE Worker
  BY <1>1 DEF Worker, LoadStop, LoadSubmitted, Begin, First, Run, Publish, Store
<1>2. ASSUME NEW c \in setup.clients, Client(c) PROVE UNCHANGED setup
  BY <1>2 DEF Client, Lock, Draw, Wait, Fill, Return, rest
<1>3. CASE Destroy
  BY <1>3 DEF Destroy
<1>4. QED
  BY <1>1, <1>2, <1>3 DEF Next, vars

\* Every state of the controller with fat slots satisfies the invariant.
THEOREM Invariance == Spec => []IInv
<1>1. IInv /\ [Next]_vars => IInv'
  <2> SUFFICES ASSUME IInv, [Next]_vars PROVE IInv'
    OBVIOUS
  <2>1. UNCHANGED setup /\ (fat' <=> fat)
    BY SetupStays DEF fat
  <2>2. fat => FatInv'
    BY StepFat DEF IInv
  <2>3. QED
    BY <2>1, <2>2 DEF IInv
<1>2. QED
  BY <1>1, InitFat, PTL DEF Spec

\* The slots that exec_task_, retire and publish read hold their tickets' complete
\* contexts, and no client writes to them.
THEOREM RingSettled == Spec => []ContextSettled
<1>1. IInv => ContextSettled
  <2> SUFFICES ASSUME FatInv, fat PROVE ContextSettled
    BY DEF IInv, ContextSettled
  <2>1. /\ worker.done \in Nat /\ worker.next \in Nat /\ nSubmitted \in Nat /\ worker.sub \in Nat
        /\ worker.next <= worker.sub /\ worker.sub <= nSubmitted
    BY DEF FatInv, TypeOK, WorkerStates, WorkerInv
  <2>2. worker.done .. worker.next \subseteq worker.done .. nSubmitted
    BY <2>1
  <2>3. QED
    BY <2>2, RingApart DEF FatInv, RingInv, ContextSettled
<1>2. QED
  BY <1>1, Invariance, PTL

\* A snapshot that was published holds for ever what its tickets give, though the
\* worker appends to the leaf it shares with later ones.
THEOREM VersionsKept == Spec => []SnapshotsKept
<1>1. IInv => SnapshotsKept
  BY DEF IInv, FatInv, LeavesInv, Holds, SnapshotsKept
<1>2. QED
  BY <1>1, Invariance, PTL

\* The version is published by gc_.publish; n_committed_ follows it.
Snap == INSTANCE Snapshots WITH
  start   <- [k \in Keys |-> 0],
  version <- IF worker.pc = "store" THEN worker.next ELSE worker.done,
  views   <- [v \in DOMAIN published |-> View(published[v], v)]

LEMMA SnapInit == Init => Snap!Init
<1> SUFFICES ASSUME Init PROVE Snap!Init
  OBVIOUS
<1>1. published = [v \in {0} |-> 1] /\ log = <<>> /\ worker.pc = "stop" /\ worker.done = 0
  BY DEF Init
<1>2. View(1, 0) = [k \in Keys |-> 0]
  <2>1. \A k \in Keys : Newest(leaves[1], k, 0) = 0
    BY DEF Init, Newest, LastSlot
  <2>2. QED
    BY <2>1, ViewNewest
<1>3. [v \in DOMAIN published |-> View(published[v], v)] = [v \in {0} |-> [k \in Keys |-> 0]]
  BY <1>1, <1>2
<1>4. QED
  BY <1>1, <1>3 DEF Snap!Init

\* Whatever a step does to the leaves, what was published stays.
LEMMA ViewsStay ==
  ASSUME FatInv, FatInv', UNCHANGED <<log, published>>
  PROVE  [v \in DOMAIN published |-> View(published[v], v)]'
         = [v \in DOMAIN published |-> View(published[v], v)]
<1>1. \A v \in DOMAIN published : View(published[v], v) = Promise(v)
  BY DEF FatInv, LeavesInv, Holds
<1>2. \A v \in DOMAIN published' : View(published[v], v)' = Promise(v)'
  BY DEF FatInv, LeavesInv, Holds
<1>3. \A v : Promise(v)' = Promise(v)
  BY PromiseGiven, PromiseGivenNext
<1>4. QED
  BY <1>1, <1>2, <1>3

LEMMA SnapStep ==
  ASSUME setup \in Setups, fat, FatInv, FatInv', [Next]_vars
  PROVE  [Snap!Next]_<<[k \in Keys |-> 0], log,
                       IF worker.pc = "store" THEN worker.next ELSE worker.done,
                       [v \in DOMAIN published |-> View(published[v], v)]>>
<1> DEFINE ver == IF worker.pc = "store" THEN worker.next ELSE worker.done
           vs  == [v \in DOMAIN published |-> View(published[v], v)]
<1>1. ASSUME NEW c \in setup.clients, Return(c) PROVE Snap!Next
  <2>1. log' = Append(log, client[c].key) /\ UNCHANGED <<worker, published, leaves>>
    BY <1>1 DEF Return, rest
  <2>2. client[c].key \in Keys
    BY SetupAssumption DEF FatInv, TypeOK, ClientStates
  <2>3. ver' = ver
    BY <2>1
  <2>4. vs' = vs
    BY <2>1 DEF View
  <2>5. QED
    BY <2>1, <2>2, <2>3, <2>4 DEF Snap!Next, Snap!Submit
<1>2. CASE Publish /\ worker.next > worker.done
  <2>1. /\ log' = log /\ worker' = [worker EXCEPT !.pc = "store"] /\ worker.pc = "batch"
        /\ DOMAIN published' = DOMAIN published \cup {worker.next}
    BY <1>2 DEF Publish, NextPc, clientside
  <2>2. /\ worker \in WorkerStates /\ worker.next \in Nat /\ worker.done \in Nat
        /\ worker.next <= Len(log) /\ Len(log) \in Nat
    BY DEF FatInv, TypeOK, WorkerStates, WorkerInv
  <2>3. ver = worker.done /\ ver' = worker.next /\ ver' \in ver + 1 .. Len(log)
    BY <1>2, <2>1, <2>2 DEF WorkerStates
  <2>4. \A v \in DOMAIN published' : View(published[v], v)' = Snap!Executed(v)
    <3>1. \A v \in DOMAIN published' : View(published[v], v)' = Promise(v)'
      BY DEF FatInv, LeavesInv, Holds
    <3>2. \A v : Promise(v)' = Snap!Executed(v)
      BY <2>1, PromiseGiven, PromiseGivenNext DEF Promise, Abstract!Executed, Snap!Executed
    <3>3. QED
      BY <3>1, <3>2
  <2>5. vs' = [v \in DOMAIN vs \cup {ver'} |-> Snap!Executed(v)]
    BY <2>1, <2>3, <2>4
  <2>6. QED
    BY <2>1, <2>3, <2>5 DEF Snap!Next, Snap!Publish
<1>3. ASSUME UNCHANGED <<log, published>>, ver' = ver
      PROVE  UNCHANGED <<[k \in Keys |-> 0], log, ver, vs>>
  BY <1>3, ViewsStay
<1>4. ASSUME NEW c \in setup.clients, Lock(c) \/ Wait(c) \/ Fill(c)
      PROVE  UNCHANGED <<log, published>> /\ ver' = ver
  BY <1>4 DEF Lock, Wait, Fill, rest
<1>5. CASE LoadStop \/ LoadSubmitted \/ Begin \/ First \/ Run
  <2>1. UNCHANGED <<log, published>> /\ worker \in WorkerStates
    BY <1>5 DEF LoadStop, LoadSubmitted, Begin, First, Run, clientside, FatInv, TypeOK
  <2>2. worker.pc # "store" /\ worker'.pc # "store" /\ worker'.done = worker.done
    <3>1. CASE LoadStop
      BY <2>1, <3>1 DEF LoadStop, NextPc, WorkerStates
    <3>2. CASE LoadSubmitted
      BY <2>1, <3>2 DEF LoadSubmitted, WorkerStates
    <3>3. CASE Begin
      BY <2>1, <3>3 DEF Begin, WorkerStates
    <3>4. CASE First
      BY <2>1, <3>4 DEF First, NextPc, WorkerStates
    <3>5. CASE Run
      <4>1. worker.pc = "run"
        BY <3>5 DEF Run
      <4>2. UNCHANGED worker \/ worker' = [worker EXCEPT !.pc = "batch"]
        <5>1. PICK n \in Int : n = worker.next
          BY <2>1 DEF WorkerStates
        <5>2. ctx[Slot(n)].op \in {"init", "copy", "done"}
          BY SlotFacts DEF FatInv, TypeOK, Contexts
        <5>3. QED
          BY <3>5, <5>1, <5>2 DEF Run, NextPc
      <4>3. QED
        BY <2>1, <4>1, <4>2 DEF WorkerStates
    <3>6. QED
      BY <1>5, <3>1, <3>2, <3>3, <3>4, <3>5
  <2>3. QED
    BY <1>3, <2>1, <2>2
<1>6. CASE Publish /\ ~ (worker.next > worker.done)
  <2>1. UNCHANGED <<log, published>> /\ worker' = [worker EXCEPT !.pc = "stop"] /\ worker.pc = "batch"
    BY <1>6 DEF Publish, NextPc, clientside
  <2>2. ver' = ver
    BY <2>1 DEF FatInv, TypeOK, WorkerStates
  <2>3. QED
    BY <1>3, <2>1, <2>2
<1>7. CASE Store
  <2>1. /\ UNCHANGED <<log, published>> /\ worker.pc = "store"
        /\ worker' = [worker EXCEPT !.pc = "stop", !.done = worker.next]
    BY <1>7 DEF Store, clientside
  <2>2. ver' = ver
    BY <2>1 DEF FatInv, TypeOK, WorkerStates
  <2>3. QED
    BY <1>3, <2>1, <2>2
<1>8. CASE Destroy \/ UNCHANGED vars
  <2>1. UNCHANGED <<log, published, worker>>
    BY <1>8 DEF Destroy, vars
  <2>2. QED
    BY <1>3, <2>1
<1>9. \A c \in setup.clients : ~ Draw(c)
  BY DEF Draw
<1>10. QED
  BY <1>1, <1>2, <1>3, <1>4, <1>5, <1>6, <1>7, <1>8, <1>9 DEF Next, Worker, Client

\* With fat slots the controller implements what all controllers promise: a ticket
\* is submitted when its client releases it, versions are published in order, and
\* every other step of clients and worker is a stutter.
THEOREM ImplementsSnapshots == Spec /\ fat => Snap!Spec
<1>1. IInv /\ fat /\ [Next]_vars => IInv' /\ fat'
  BY SetupStays, StepFat DEF IInv, fat
<1>2. Init => Snap!Init
  BY SnapInit
<1>3. IInv /\ IInv' /\ fat /\ fat' /\ [Next]_vars =>
        [Snap!Next]_<<[k \in Keys |-> 0], log,
                      IF worker.pc = "store" THEN worker.next ELSE worker.done,
                      [v \in DOMAIN published |-> View(published[v], v)]>>
  BY SnapStep DEF IInv
<1>4. QED
  BY <1>1, <1>2, <1>3, InitFat, PTL DEF Spec, Snap!Spec
=============================================================================
