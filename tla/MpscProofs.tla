------------------------------ MODULE MpscProofs ------------------------------
(***************************************************************************)
(* Proofs about MpscList for any number of workers: it implements          *)
(* WorkerQueue.                                                            *)
(***************************************************************************)
EXTENDS MpscList, Integers, SequenceTheorems, TLAPS

(***************************************************************************)
(* The chain of items from tail_ to head_ is the queue with the stub after *)
(* its first k workers, or without the stub when k = -1.  Neighbours are   *)
(* joined by the next field, or will be by a push that has exchanged head_ *)
(* and not stored it yet.                                                  *)
(***************************************************************************)
TypeOK ==
  /\ next \in [Items -> Items \cup {null}]
  /\ head \in Items /\ tail \in Items
  /\ wpc \in [Workers -> {"busy", "exchange", "link", "idle"}]
  /\ wprev \in [Workers -> Items \cup {null}]
  /\ ppc \in {"idle", "stub", "test", "clear", "exchange", "link", "reload"}
  /\ ptail \in Items /\ pnext \in Items \cup {null} /\ pprev \in Items \cup {null}
  /\ queue \in Seq(Workers)

\* The push of item y still has to store y behind x.
Linking(x, y) == IF y = stub THEN ppc = "link" /\ pprev = x
                             ELSE wpc[y] = "link" /\ wprev[y] = x

Joined(x, y) == \/ next[x] = y /\ (IF y = stub THEN ppc # "link" ELSE wpc[y] = "idle")
                \/ next[x] = null /\ Linking(x, y)

\* Each worker in the list is there once.
QueueInv ==
  /\ \A i, j \in 1 .. Len(queue) : queue[i] = queue[j] => i = j
  /\ \A w \in Workers : wpc[w] \in {"link", "idle"} <=> \E i \in 1 .. Len(queue) : queue[i] = w

ChainInv(k) ==
  LET n == Len(queue) IN
  /\ k # n => n >= 1
  /\ head = IF k = n THEN stub ELSE queue[n]
  /\ tail = IF k = 0 THEN stub ELSE queue[1]
  /\ next[head] = null
  /\ \A i \in 1 .. n - 1 : i # k => Joined(queue[i], queue[i + 1])
  /\ k \in 1 .. n => Joined(queue[k], stub)
  /\ k \in 0 .. n - 1 => Joined(stub, queue[k + 1])
  /\ k # 0 => wpc[queue[1]] = "idle"

\* Who writes a next field before it is in the list, and what the consumer knows.
StepInv(k) ==
  /\ \A w \in Workers : wpc[w] = "exchange" => next[w] = null
  /\ ppc = "exchange" => next[stub] = null
  /\ ppc \in {"clear", "exchange"} => k = -1
  /\ ppc = "link" => k >= 1
  /\ ppc = "stub" => k = 0
  /\ ppc \notin {"idle", "stub"} => k # 0
  /\ ppc # "idle" => ptail = tail
  /\ ppc \in {"stub", "test"} => pnext = null \/ pnext = next[tail]

ListInv == \E k \in -1 .. Len(queue) : ChainInv(k) /\ StepInv(k)

IInv == TypeOK /\ QueueInv /\ ListInv

-----------------------------------------------------------------------------
\* The item that stands first leaves the rest of the queue behind it.
LEMMA WithoutFirst ==
  ASSUME queue \in Seq(Workers), queue # <<>>, QueueInv
  PROVE  Without(queue[1]) = Tail(queue)
<1>1. Len(queue) \in Nat \ {0} /\ DOMAIN queue = 1 .. Len(queue)
  BY EmptySeq, LenProperties
<1> DEFINE i == CHOOSE j \in DOMAIN queue : queue[j] = queue[1]
<1>2. i = 1
  <2>1. \A j \in DOMAIN queue : queue[j] = queue[1] => j = 1
    BY <1>1 DEF QueueInv
  <2>2. QED
    BY <1>1, <2>1
<1>3. Without(queue[1]) = SubSeq(queue, 1, 0) \o SubSeq(queue, 2, Len(queue))
  <2>1. \E j \in DOMAIN queue : queue[j] = queue[1]
    BY <1>1
  <2>2. Without(queue[1]) = SubSeq(queue, 1, i - 1) \o SubSeq(queue, i + 1, Len(queue))
    BY <2>1, Zenon DEF Without
  <2> HIDE DEF i
  <2>3. i - 1 = 0 /\ i + 1 = 2
    BY <1>2
  <2>4. QED
    BY <2>2, <2>3
<1>4. SubSeq(queue, 1, 0) = <<>>
  BY SubSeqEmpty
<1>5. SubSeq(queue, 2, Len(queue)) = Tail(queue) /\ Tail(queue) \in Seq(Workers)
  BY TailIsSubSeq, HeadTailProperties
<1>6. <<>> \o Tail(queue) = Tail(queue)
  BY <1>5, ConcatEmptySeq
<1>7. QED
  BY <1>3, <1>4, <1>5, <1>6

LEMMA InitIInv == Init => IInv
<1> SUFFICES ASSUME Init PROVE IInv
  OBVIOUS
<1> USE ItemAssumption DEF Init
<1>1. Len(queue) = 0 /\ queue \in Seq(Workers)
  BY EmptySeq
<1>2. TypeOK
  BY <1>1 DEF TypeOK, Items
<1>3. QueueInv
  BY <1>1 DEF QueueInv
<1>4. ChainInv(0) /\ StepInv(0)
  BY <1>1 DEF ChainInv, StepInv, Items
<1>5. QED
  BY <1>1, <1>2, <1>3, <1>4 DEF IInv, ListInv

\* What is taken from the list is its first worker, and its successor follows.
LEMMA TakeFacts ==
  ASSUME TypeOK, NEW k \in -1 .. Len(queue), ChainInv(k), StepInv(k), PopTake
  PROVE  /\ k # 0 /\ ptail = queue[1] /\ tail = queue[1] /\ queue # <<>>
         /\ Len(queue) \in Nat \ {0}
         /\ pnext = next[tail] /\ tail # head
<1>1. Len(queue) \in Nat /\ (queue # <<>> => Len(queue) \in Nat \ {0})
      /\ (queue = <<>> => Len(queue) = 0)
  BY EmptySeq, LenProperties DEF TypeOK
<1>2. k # 0 /\ ptail = tail /\ pnext = next[tail] /\ pnext # null
  BY DEF PopTake, StepInv
<1>3. tail = queue[1] /\ next[head] = null
  BY <1>2 DEF ChainInv
<1>4. Len(queue) # 0
  BY <1>1, <1>2 DEF ChainInv
<1>5. QED
  BY <1>1, <1>2, <1>3, <1>4

LEMMA TypeStep == IInv /\ [Next]_vars => TypeOK'
<1> SUFFICES ASSUME IInv, [Next]_vars PROVE TypeOK'
  OBVIOUS
<1> USE ItemAssumption DEF Items
<1>t. TypeOK
  BY DEF IInv
<1>1. ASSUME NEW w \in Workers, PushClear(w) \/ PushExchange(w) \/ PushLink(w) PROVE TypeOK'
  <2>1. CASE PushClear(w)
    BY <2>1, <1>t DEF PushClear, TypeOK, pvars
  <2>2. CASE PushExchange(w)
    <3>1. queue' \in Seq(Workers)
      BY <2>2, <1>t, AppendProperties DEF PushExchange, TypeOK
    <3>2. QED
      BY <2>2, <1>t, <3>1 DEF PushExchange, TypeOK, pvars
  <2>3. CASE PushLink(w)
    BY <2>3, <1>t DEF PushLink, TypeOK, pvars
  <2>4. QED
    BY <1>1, <2>1, <2>2, <2>3
<1>2. CASE PopLoad \/ PopStub \/ PopHead \/ PopReload
  BY <1>2, <1>t DEF PopLoad, PopStub, PopHead, PopReload, ReturnNull, TypeOK, wvars
<1>3. CASE StubClear \/ StubExchange \/ StubLink
  BY <1>3, <1>t DEF StubClear, StubExchange, StubLink, TypeOK, wvars, pvars
<1>4. CASE PopTake
  <2>1. queue # <<>> /\ ptail = queue[1] /\ Len(queue) \in Nat \ {0}
    BY <1>4, <1>t, TakeFacts DEF IInv, ListInv
  <2>2. queue' = Tail(queue)
    BY <1>4, <1>t, <2>1, WithoutFirst DEF PopTake, Return, IInv, TypeOK
  <2>3. queue' \in Seq(Workers) /\ ptail \in Workers
    BY <1>t, <2>1, <2>2, HeadTailProperties, ElementOfSeq DEF TypeOK
  <2>4. QED
    BY <1>4, <1>t, <2>3 DEF PopTake, Return, TypeOK
<1>5. CASE UNCHANGED vars
  BY <1>5, <1>t DEF vars, wvars, pvars, TypeOK
<1>6. QED
  BY <1>1, <1>2, <1>3, <1>4, <1>5 DEF Next, Push, Pop

\* The queue after an exchange of head_ and after a successful pop.
LEMMA QueueEffect ==
  ASSUME IInv
  PROVE  /\ Len(queue) \in Nat /\ \A i \in 1 .. Len(queue) : queue[i] \in Workers
         /\ \A w \in Workers : PushExchange(w) =>
              /\ Len(queue') = Len(queue) + 1 /\ queue'[Len(queue) + 1] = w
              /\ \A i \in 1 .. Len(queue) : queue'[i] = queue[i]
         /\ PopTake => /\ queue # <<>> /\ queue' = Tail(queue)
                       /\ Len(queue) >= 1 /\ Len(queue') = Len(queue) - 1
                       /\ \A i \in 1 .. Len(queue) - 1 : queue'[i] = queue[i + 1]
                       /\ ptail = queue[1] /\ ptail \in Workers
<1>t. queue \in Seq(Workers) /\ Len(queue) \in Nat
  BY LenProperties DEF IInv, TypeOK
<1>1. \A i \in 1 .. Len(queue) : queue[i] \in Workers
  BY <1>t, ElementOfSeq
<1>2. ASSUME NEW w \in Workers, PushExchange(w)
      PROVE  /\ Len(queue') = Len(queue) + 1 /\ queue'[Len(queue) + 1] = w
             /\ \A i \in 1 .. Len(queue) : queue'[i] = queue[i]
  BY <1>t, <1>2, AppendProperties DEF PushExchange
<1>3. ASSUME PopTake
      PROVE  /\ queue # <<>> /\ queue' = Tail(queue)
             /\ Len(queue) >= 1 /\ Len(queue') = Len(queue) - 1
             /\ \A i \in 1 .. Len(queue) - 1 : queue'[i] = queue[i + 1]
             /\ ptail = queue[1] /\ ptail \in Workers
  <2>1. queue # <<>> /\ ptail = queue[1] /\ Len(queue) \in Nat \ {0}
    BY <1>3, TakeFacts DEF IInv, ListInv
  <2>2. queue' = Tail(queue)
    BY <1>3, <1>t, <2>1, WithoutFirst DEF PopTake, Return, IInv
  <2>3. QED
    BY <1>t, <1>1, <2>1, <2>2, HeadTailProperties
<1>4. QED
  BY <1>t, <1>1, <1>2, <1>3

LEMMA QueueStep == IInv /\ [Next]_vars => QueueInv'
<1> SUFFICES ASSUME IInv, [Next]_vars PROVE QueueInv'
  OBVIOUS
<1>t. TypeOK /\ QueueInv /\ wpc \in [Workers -> {"busy", "exchange", "link", "idle"}]
  BY DEF IInv, TypeOK
<1>n. Len(queue) \in Nat /\ \A i \in 1 .. Len(queue) : queue[i] \in Workers
  BY QueueEffect
<1>0. ASSUME UNCHANGED queue,
             \A w \in Workers : wpc'[w] \in {"link", "idle"} <=> wpc[w] \in {"link", "idle"}
      PROVE  QueueInv'
  BY <1>0, <1>t DEF QueueInv
<1>1. ASSUME NEW w \in Workers, PushClear(w) \/ PushLink(w) PROVE QueueInv'
  BY <1>0, <1>1, <1>t DEF PushClear, PushLink
<1>2. ASSUME NEW w \in Workers, PushExchange(w) PROVE QueueInv'
  <2>1. /\ Len(queue') = Len(queue) + 1 /\ queue'[Len(queue) + 1] = w
        /\ \A i \in 1 .. Len(queue) : queue'[i] = queue[i]
    BY <1>2, QueueEffect
  <2>2. wpc[w] = "exchange" /\ wpc' = [wpc EXCEPT ![w] = "link"]
    BY <1>2 DEF PushExchange
  <2>3. \A i \in 1 .. Len(queue) : queue[i] # w
    BY <1>t, <2>2 DEF QueueInv
  <2>4. \A i, j \in 1 .. Len(queue') : queue'[i] = queue'[j] => i = j
    BY <1>t, <1>n, <2>1, <2>3 DEF QueueInv
  <2>5. ASSUME NEW v \in Workers
        PROVE  wpc'[v] \in {"link", "idle"} <=> \E i \in 1 .. Len(queue') : queue'[i] = v
    <3>1. CASE v = w
      <4>1. Len(queue) + 1 \in 1 .. Len(queue')
        BY <1>n, <2>1
      <4>2. QED
        BY <3>1, <4>1, <1>t, <2>1, <2>2
    <3>2. CASE v # w
      <4>1. (\E i \in 1 .. Len(queue') : queue'[i] = v)
            <=> \E i \in 1 .. Len(queue) : queue[i] = v
        BY <1>n, <2>1, <3>2
      <4>2. wpc'[v] = wpc[v]
        BY <1>t, <2>2, <3>2
      <4>3. QED
        BY <1>t, <4>1, <4>2 DEF QueueInv
    <3>3. QED
      BY <3>1, <3>2
  <2>6. QED
    BY <2>4, <2>5 DEF QueueInv
<1>3. CASE PopTake
  <2>1. /\ Len(queue) >= 1 /\ Len(queue') = Len(queue) - 1
        /\ \A i \in 1 .. Len(queue) - 1 : queue'[i] = queue[i + 1]
        /\ ptail = queue[1] /\ ptail \in Workers
    BY <1>3, QueueEffect
  <2>2. wpc' = [wpc EXCEPT ![ptail] = "busy"]
    BY <1>3 DEF PopTake, Return
  <2>3. \A i, j \in 1 .. Len(queue') : queue'[i] = queue'[j] => i = j
    BY <1>t, <1>n, <2>1 DEF QueueInv
  <2>4. ASSUME NEW v \in Workers
        PROVE  wpc'[v] \in {"link", "idle"} <=> \E i \in 1 .. Len(queue') : queue'[i] = v
    <3>1. CASE v = ptail
      BY <3>1, <1>t, <1>n, <2>1, <2>2 DEF QueueInv
    <3>2. CASE v # ptail
      <4>1. ASSUME NEW i \in 1 .. Len(queue), queue[i] = v
            PROVE  \E j \in 1 .. Len(queue') : queue'[j] = v
        <5>1. i - 1 \in 1 .. Len(queue') /\ queue'[i - 1] = v
          BY <1>n, <2>1, <3>2, <4>1
        <5>2. QED
          BY <5>1
      <4>2. ASSUME NEW j \in 1 .. Len(queue'), queue'[j] = v
            PROVE  \E i \in 1 .. Len(queue) : queue[i] = v
        <5>1. j + 1 \in 1 .. Len(queue) /\ queue[j + 1] = v
          BY <1>n, <2>1, <4>2
        <5>2. QED
          BY <5>1
      <4>3. wpc'[v] = wpc[v]
        BY <1>t, <2>2, <3>2
      <4>4. QED
        BY <1>t, <4>1, <4>2, <4>3 DEF QueueInv
    <3>3. QED
      BY <3>1, <3>2
  <2>5. QED
    BY <2>3, <2>4 DEF QueueInv
<1>4. CASE \/ PopLoad \/ PopStub \/ PopHead \/ PopReload
           \/ StubClear \/ StubExchange \/ StubLink \/ UNCHANGED vars
  BY <1>0, <1>4 DEF PopLoad, PopStub, PopHead, PopReload, StubClear, StubExchange, StubLink,
                    vars, wvars
<1>5. QED
  BY <1>1, <1>2, <1>3, <1>4 DEF Next, Push, Pop

-----------------------------------------------------------------------------
(* The chain, action by action.                                            *)

\* push: the item is not in the list until its exchange.
LEMMA ClearChain ==
  ASSUME IInv, NEW w \in Workers, PushClear(w)
  PROVE  ListInv'
<1>t. TypeOK /\ QueueInv /\ stub \notin Workers /\ null \notin Items
  BY ItemAssumption DEF IInv, Items
<1>n. Len(queue) \in Nat /\ \A i \in 1 .. Len(queue) : queue[i] \in Workers
  BY QueueEffect
<1>k. PICK k \in -1 .. Len(queue) : ChainInv(k) /\ StepInv(k)
  BY DEF IInv, ListInv
<1>1. /\ wpc[w] = "busy" /\ UNCHANGED <<queue, head, tail, wprev, ppc, ptail, pnext, pprev>>
      /\ wpc' = [wpc EXCEPT ![w] = "exchange"] /\ next' = [next EXCEPT ![w] = null]
  BY DEF PushClear, pvars
<1>2. \A i \in 1 .. Len(queue) : /\ queue[i] # w /\ queue[i] # stub
                                 /\ next'[queue[i]] = next[queue[i]]
                                 /\ wpc'[queue[i]] = wpc[queue[i]]
  BY <1>t, <1>n, <1>1 DEF QueueInv, TypeOK, Items
<1>3. next'[stub] = next[stub] /\ next'[w] = null
  BY <1>t, <1>1 DEF TypeOK, Items
<1>4. head # w /\ tail # w /\ next'[head] = next[head] /\ next'[tail] = next[tail]
  BY <1>t, <1>n, <1>k, <1>1, <1>2, <1>3 DEF ChainInv, TypeOK
<1>5. ChainInv(k)'
  BY <1>n, <1>k, <1>1, <1>2, <1>3, <1>4 DEF ChainInv, Joined, Linking
<1>6. StepInv(k)'
  BY <1>t, <1>k, <1>1, <1>3, <1>4 DEF StepInv, TypeOK, Items
<1>7. QED
  BY <1>1, <1>5, <1>6 DEF ListInv

\* push: the exchange appends the item behind head_.
LEMMA ExchangeChain ==
  ASSUME IInv, NEW w \in Workers, PushExchange(w)
  PROVE  ListInv'
<1>t. TypeOK /\ QueueInv /\ stub \notin Workers /\ null \notin Items
  BY ItemAssumption DEF IInv, Items
<1> DEFINE n == Len(queue)
<1>n. n \in Nat /\ \A i \in 1 .. n : queue[i] \in Workers
  BY QueueEffect
<1>q. /\ Len(queue') = n + 1 /\ queue'[n + 1] = w
      /\ \A i \in 1 .. n : queue'[i] = queue[i]
  BY QueueEffect
<1> HIDE DEF n
<1>k. PICK k \in -1 .. n : ChainInv(k) /\ StepInv(k)
  BY DEF IInv, ListInv, n
<1>1. /\ wpc[w] = "exchange" /\ UNCHANGED <<next, tail, ppc, ptail, pnext, pprev>>
      /\ wpc' = [wpc EXCEPT ![w] = "link"] /\ wprev' = [wprev EXCEPT ![w] = head]
      /\ head' = w
  BY DEF PushExchange, pvars
<1>2. \A i \in 1 .. n : /\ queue[i] # w /\ queue[i] # stub
                        /\ wpc'[queue[i]] = wpc[queue[i]]
                        /\ wprev'[queue[i]] = wprev[queue[i]]
  BY <1>t, <1>n, <1>1 DEF QueueInv, TypeOK, n
<1>3. wpc'[w] = "link" /\ wprev'[w] = head /\ next[head] = null /\ next'[w] = null
  BY <1>t, <1>k, <1>1 DEF TypeOK, ChainInv, StepInv
<1>4. /\ k # n + 1 /\ n + 1 >= 1 /\ (k # 0 => n >= 1)
      /\ head = IF k = n THEN stub ELSE queue[n]
      /\ k # n => n >= 1
  BY <1>n, <1>k DEF ChainInv, n
<1>5. \A i \in 1 .. n : i # k => Joined(queue[i], queue[i + 1])'
  <2> SUFFICES ASSUME NEW i \in 1 .. n, i # k PROVE Joined(queue[i], queue[i + 1])'
    OBVIOUS
  <2>1. CASE i = n
    BY <1>t, <1>n, <1>q, <1>1, <1>3, <1>4, <2>1 DEF Joined, Linking
  <2>2. CASE i # n
    <3>1. i \in 1 .. n - 1 /\ i + 1 \in 1 .. n
      BY <1>n, <2>2
    <3>2. Joined(queue[i], queue[i + 1])
      BY <1>k, <3>1 DEF ChainInv, n
    <3>3. QED
      BY <1>q, <1>1, <1>2, <3>1, <3>2 DEF Joined, Linking
  <2>3. QED
    BY <2>1, <2>2
<1>6. k \in 1 .. n => Joined(queue[k], stub)'
  BY <1>k, <1>q, <1>1 DEF ChainInv, Joined, Linking, n
<1>7. k \in 0 .. n => Joined(stub, queue[k + 1])'
  <2>1. CASE k = n
    BY <1>t, <1>n, <1>q, <1>1, <1>3, <1>4, <2>1 DEF Joined, Linking
  <2>2. CASE k \in 0 .. n - 1
    <3>1. k + 1 \in 1 .. n /\ Joined(stub, queue[k + 1])
      BY <1>n, <1>k, <2>2 DEF ChainInv, n
    <3>2. QED
      BY <1>q, <1>1, <1>2, <3>1 DEF Joined, Linking
  <2>3. QED
    BY <1>n, <2>1, <2>2
<1>8. k # 0 => wpc'[queue'[1]] = "idle"
  BY <1>n, <1>k, <1>q, <1>2, <1>4 DEF ChainInv
<1>9. tail' = IF k = 0 THEN stub ELSE queue'[1]
  BY <1>n, <1>k, <1>q, <1>1, <1>4 DEF ChainInv
<1>10. ChainInv(k)'
  <2>1. /\ Len(queue') - 1 = n /\ Len(queue') >= 1
        /\ head' = IF k = Len(queue') THEN stub ELSE queue'[Len(queue')]
        /\ next'[head'] = null
    BY <1>n, <1>q, <1>1, <1>3, <1>4
  <2>2. k \in 1 .. Len(queue') => k \in 1 .. n
    BY <1>n, <1>k, <1>q
  <2>3. QED
    BY <2>1, <2>2, <1>5, <1>6, <1>7, <1>8, <1>9 DEF ChainInv
<1>11. StepInv(k)'
  BY <1>t, <1>k, <1>1 DEF StepInv, TypeOK
<1>12. QED
  BY <1>n, <1>k, <1>q, <1>10, <1>11 DEF ListInv

\* push: the store joins the item to the one before it.
LEMMA LinkChain ==
  ASSUME IInv, NEW w \in Workers, PushLink(w)
  PROVE  ListInv'
<1>t. TypeOK /\ QueueInv /\ stub \notin Workers /\ null \notin Items
  BY ItemAssumption DEF IInv, Items
<1> DEFINE n == Len(queue)
<1>n. n \in Nat /\ \A i \in 1 .. n : queue[i] \in Workers
  BY QueueEffect
<1> HIDE DEF n
<1>k. PICK k \in -1 .. n : ChainInv(k) /\ StepInv(k)
  BY DEF IInv, ListInv, n
<1>x. PICK x : x = wprev[w]
  OBVIOUS
<1>1. /\ wpc[w] = "link" /\ UNCHANGED <<queue, head, tail, ppc, ptail, pnext, pprev>>
      /\ wpc' = [wpc EXCEPT ![w] = "idle"] /\ wprev' = [wprev EXCEPT ![w] = null]
      /\ next' = [next EXCEPT ![x] = w]
  BY <1>x DEF PushLink, pvars
<1>2. PICK j \in 1 .. n : queue[j] = w
  BY <1>t, <1>1 DEF QueueInv, n
<1>3. \A i \in 1 .. n : queue[i] # stub /\ (i # j => queue[i] # w)
  BY <1>t, <1>n, <1>2 DEF QueueInv, n
<1>4. x = IF j = k + 1 THEN stub ELSE queue[j - 1]
  <2>1. CASE j = k + 1
    <3>1. Joined(stub, queue[j])
      BY <1>n, <1>k, <2>1 DEF ChainInv, n
    <3>2. QED
      BY <1>t, <1>x, <1>1, <1>2, <2>1, <3>1 DEF Joined, Linking
  <2>2. CASE j # k + 1
    <3>1. j # 1
      BY <1>k, <1>1, <1>2, <2>2 DEF ChainInv
    <3>2. j - 1 \in 1 .. n - 1 /\ j - 1 # k
      BY <1>n, <1>k, <2>2, <3>1
    <3>3. Joined(queue[j - 1], queue[j])
      BY <1>k, <3>2 DEF ChainInv, n
    <3>4. QED
      BY <1>t, <1>x, <1>1, <1>2, <2>2, <3>3 DEF Joined, Linking
  <2>3. QED
    BY <2>1, <2>2
<1>5. j # k + 1 => j - 1 \in 1 .. n /\ j - 1 # k
  <2>1. j = 1 => k = 0
    BY <1>k, <1>1, <1>2 DEF ChainInv
  <2>2. QED
    BY <1>n, <1>k, <2>1
<1>6. next[x] = null /\ x # null /\ x \in Items
  <2>1. CASE j = k + 1
    <3>1. Joined(stub, queue[j])
      BY <1>n, <1>k, <2>1 DEF ChainInv, n
    <3>2. QED
      BY <1>t, <1>1, <1>2, <1>4, <2>1, <3>1 DEF Joined, Items
  <2>2. CASE j # k + 1
    <3>1. j - 1 \in 1 .. n - 1 /\ j - 1 # k
      BY <1>n, <1>k, <2>2, <1>5
    <3>2. Joined(queue[j - 1], queue[j])
      BY <1>k, <3>1 DEF ChainInv, n
    <3>3. QED
      BY <1>t, <1>n, <1>1, <1>2, <1>4, <1>5, <2>2, <3>2 DEF Joined, Items
  <2>3. QED
    BY <2>1, <2>2
<1>7. /\ next'[x] = w /\ (\A i \in Items : i # x => next'[i] = next[i])
      /\ wpc'[w] = "idle" 
      /\ \A v \in Workers : v # w => wpc'[v] = wpc[v] /\ wprev'[v] = wprev[v]
  BY <1>t, <1>1, <1>6 DEF TypeOK
<1>8. head # x
  BY <1>t, <1>n, <1>k, <1>2, <1>3, <1>4, <1>5 DEF ChainInv, QueueInv, n
<1>9. \A i \in 1 .. n - 1 : i # k => Joined(queue[i], queue[i + 1])'
  <2> SUFFICES ASSUME NEW i \in 1 .. n - 1, i # k PROVE Joined(queue[i], queue[i + 1])'
    OBVIOUS
  <2>1. i \in 1 .. n /\ i + 1 \in 1 .. n /\ Joined(queue[i], queue[i + 1])
    BY <1>n, <1>k DEF ChainInv, n
  <2>2. CASE i + 1 = j
    <3>1. queue[i] = x /\ queue[i + 1] = w
      BY <1>2, <1>4, <1>n, <1>k, <2>2
    <3>2. QED
      BY <1>1, <1>7, <3>1, <1>t DEF Joined
  <2>3. CASE i + 1 # j
    <3>1. queue[i] # x
      BY <1>n, <1>3, <1>4, <1>5, <2>1, <2>3, <1>t DEF QueueInv, n
    <3>2. queue[i + 1] # w /\ queue[i] \in Items /\ queue[i + 1] \in Workers
      BY <1>n, <1>3, <2>1, <2>3 DEF Items
    <3>3. next'[queue[i]] = next[queue[i]] /\ wpc'[queue[i + 1]] = wpc[queue[i + 1]]
          /\ wprev'[queue[i + 1]] = wprev[queue[i + 1]]
      BY <1>7, <3>1, <3>2
    <3>4. QED
      BY <1>1, <2>1, <3>3 DEF Joined, Linking
  <2>4. QED
    BY <2>2, <2>3
<1>10. k \in 1 .. n => Joined(queue[k], stub)'
  <2>1. k \in 1 .. n => queue[k] # x /\ queue[k] \in Items /\ Joined(queue[k], stub)
    BY <1>t, <1>n, <1>k, <1>3, <1>4, <1>5 DEF ChainInv, QueueInv, Items, n
  <2>2. QED
    BY <1>1, <1>7, <2>1 DEF Joined, Linking
<1>11. k \in 0 .. n - 1 => Joined(stub, queue[k + 1])'
  <2>1. CASE j = k + 1
    BY <1>1, <1>2, <1>4, <1>7, <2>1, <1>t DEF Joined
  <2>2. CASE j # k + 1
    <3>1. k \in 0 .. n - 1 => /\ queue[k + 1] # w /\ queue[k + 1] \in Workers
                              /\ Joined(stub, queue[k + 1])
      BY <1>n, <1>k, <1>3, <2>2 DEF ChainInv, n
    <3>2. stub # x /\ stub \in Items
      BY <1>3, <1>4, <1>5, <2>2 DEF Items
    <3>3. QED
      BY <1>1, <1>7, <3>1, <3>2 DEF Joined, Linking
  <2>3. QED
    BY <2>1, <2>2
<1>12. k # 0 => wpc'[queue[1]] = "idle"
  <2>1. k # 0 => queue[1] \in Workers /\ wpc[queue[1]] = "idle"
    BY <1>n, <1>k DEF ChainInv, n
  <2>2. QED
    BY <1>7, <2>1
<1>13. next'[head] = null
  BY <1>t, <1>k, <1>7, <1>8 DEF ChainInv, TypeOK
<1>14. ChainInv(k)'
  BY <1>k, <1>1, <1>9, <1>10, <1>11, <1>12, <1>13 DEF ChainInv, n
<1>15. StepInv(k)'
  <2>1. \A v \in Workers : wpc'[v] = "exchange" => next'[v] = null
    <3>1. ASSUME NEW v \in Workers, wpc'[v] = "exchange" PROVE next'[v] = null
      <4>1. wpc[v] = "exchange" /\ v # w /\ v \in Items
        BY <1>7, <3>1 DEF Items
      <4>2. v # x
        BY <1>t, <1>n, <1>4, <1>5, <4>1 DEF QueueInv, n
      <4>3. QED
        BY <1>k, <1>7, <4>1, <4>2 DEF StepInv
    <3>2. QED
      BY <3>1
  <2>2. ppc = "exchange" => next'[stub] = null
    BY <1>k, <1>n, <1>2, <1>3, <1>4, <1>5, <1>7 DEF StepInv, Items
  <2>3. ppc \in {"stub", "test"} => pnext = null \/ pnext = next'[tail]
    BY <1>k, <1>t, <1>6, <1>7 DEF StepInv, TypeOK
  <2>4. QED
    BY <1>k, <1>1, <2>1, <2>2, <2>3 DEF StepInv
<1>16. QED
  BY <1>1, <1>14, <1>15 DEF ListInv, n

\* pop: the steps that only read, or that decide on what they have read.
LEMMA ReadChain ==
  ASSUME IInv, PopLoad \/ (PopStub /\ pnext = null) \/ PopHead \/ PopReload
  PROVE  ListInv'
<1>t. TypeOK /\ QueueInv /\ stub \notin Workers /\ null \notin Items
  BY ItemAssumption DEF IInv, Items
<1>n. Len(queue) \in Nat /\ \A i \in 1 .. Len(queue) : queue[i] \in Workers
  BY QueueEffect
<1>k. PICK k \in -1 .. Len(queue) : ChainInv(k) /\ StepInv(k)
  BY DEF IInv, ListInv
<1>1. UNCHANGED <<next, head, tail, queue, wpc, wprev, pprev>> /\ ppc # "link" /\ ppc' # "link"
  BY DEF PopLoad, PopStub, PopHead, PopReload, ReturnNull, wvars
<1>2. ChainInv(k)'
  BY <1>k, <1>1 DEF ChainInv, Joined, Linking
<1>3. tail = stub <=> k = 0
  BY <1>t, <1>n, <1>k DEF ChainInv
<1>4. CASE PopLoad
  <2>1. /\ ptail' = tail /\ pnext' = next[tail]
        /\ ppc' = IF tail = stub THEN "stub" ELSE "test"
    BY <1>4 DEF PopLoad
  <2>2. StepInv(k)'
    BY <1>k, <1>1, <1>3, <2>1 DEF StepInv
  <2>3. QED
    BY <1>1, <1>2, <2>2 DEF ListInv
<1>5. CASE PopReload
  <2>1. /\ ppc = "reload"
        /\ ppc' = "idle" \/ (ppc' = "test" /\ pnext' = next[ptail] /\ ptail' = ptail)
    BY <1>5 DEF PopReload, ReturnNull
  <2>2. StepInv(k)'
    BY <1>k, <1>1, <2>1 DEF StepInv
  <2>3. QED
    BY <1>1, <1>2, <2>2 DEF ListInv
<1>6. CASE PopHead
  <2>1. /\ ppc = "test"
        /\ \/ ppc' = "idle"
           \/ ppc' = "clear" /\ tail = head /\ ptail' = ptail
    BY <1>6, <1>k DEF PopHead, ReturnNull, StepInv
  <2>2. ASSUME tail = head PROVE k = -1
    <3>1. k # 0
      BY <1>k, <2>1 DEF StepInv
    <3>2. CASE k = Len(queue)
      <4>1. tail = stub
        BY <1>k, <2>2, <3>2 DEF ChainInv
      <4>2. QED
        BY <1>3, <3>1, <4>1
    <3>3. CASE k # Len(queue)
      <4>1. Len(queue) >= 1 /\ head = queue[Len(queue)] /\ tail = queue[1]
        BY <1>k, <3>1, <3>3 DEF ChainInv
      <4>2. 1 \in 1 .. Len(queue) /\ Len(queue) \in 1 .. Len(queue)
        BY <1>n, <4>1
      <4>3. Len(queue) = 1
        <5>1. \A i, j \in 1 .. Len(queue) : queue[i] = queue[j] => i = j
          BY <1>t DEF QueueInv
        <5>2. queue[1] = queue[Len(queue)]
          BY <2>2, <4>1
        <5>3. QED
          BY <4>2, <5>1, <5>2
      <4>4. k <= 1 /\ k # 1 /\ k >= -1 /\ k \in Int
        BY <1>n, <3>3, <4>3
      <4>5. QED
        BY <3>1, <4>4
    <3>4. QED
      BY <3>2, <3>3
  <2>3. StepInv(k)'
    BY <1>k, <1>1, <2>1, <2>2 DEF StepInv
  <2>4. QED
    BY <1>1, <1>2, <2>3 DEF ListInv
<1>7. CASE PopStub /\ pnext = null
  <2>1. ppc' = "idle"
    BY <1>7 DEF PopStub, ReturnNull
  <2>2. StepInv(k)'
    BY <1>k, <1>1, <2>1 DEF StepInv
  <2>3. QED
    BY <1>1, <1>2, <2>2 DEF ListInv
<1>8. QED
  BY <1>4, <1>5, <1>6, <1>7

\* pop: tail_ steps over the stub, which leaves the list.
LEMMA SkipChain ==
  ASSUME IInv, PopStub, pnext # null
  PROVE  ListInv'
<1>t. TypeOK /\ QueueInv /\ stub \notin Workers /\ null \notin Items
  BY ItemAssumption DEF IInv, Items
<1>n. Len(queue) \in Nat /\ \A i \in 1 .. Len(queue) : queue[i] \in Workers
  BY QueueEffect
<1>k. PICK k \in -1 .. Len(queue) : ChainInv(k) /\ StepInv(k)
  BY DEF IInv, ListInv
<1>1. /\ UNCHANGED <<next, head, queue, wpc, wprev, pprev>>
      /\ tail' = pnext /\ ptail' = pnext /\ pnext' = next[pnext]
      /\ ppc = "stub" /\ ppc' = "test"
  BY DEF PopStub, wvars
<1>2. k = 0 /\ tail = stub /\ pnext = next[stub]
  BY <1>k, <1>1 DEF StepInv, ChainInv
<1>3. Len(queue) >= 1 /\ head = queue[Len(queue)]
  <2>1. head # stub
    BY <1>k, <1>2 DEF ChainInv
  <2>2. QED
    BY <1>k, <1>2, <2>1 DEF ChainInv
<1>4. Joined(stub, queue[1])
  BY <1>n, <1>k, <1>2, <1>3 DEF ChainInv
<1>5. pnext = queue[1] /\ wpc[queue[1]] = "idle"
  BY <1>n, <1>t, <1>2, <1>3, <1>4 DEF Joined
<1>6. ChainInv(-1)'
  <2>1. \A i \in 1 .. Len(queue) - 1 : Joined(queue[i], queue[i + 1])'
    BY <1>k, <1>1, <1>2 DEF ChainInv, Joined, Linking
  <2>2. next[head] = null
    BY <1>k DEF ChainInv
  <2>3. QED
    BY <1>n, <1>1, <1>3, <1>5, <2>1, <2>2 DEF ChainInv
<1>7. StepInv(-1)'
  BY <1>k, <1>1 DEF StepInv
<1>8. QED
  BY <1>n, <1>1, <1>6, <1>7 DEF ListInv

\* pop: tail_ moves on to the successor, and its item leaves the list.
LEMMA TakeChain ==
  ASSUME IInv, PopTake
  PROVE  ListInv'
<1>t. TypeOK /\ QueueInv /\ stub \notin Workers /\ null \notin Items
  BY ItemAssumption DEF IInv, Items
<1> DEFINE n == Len(queue)
<1>n. n \in Nat /\ \A i \in 1 .. n : queue[i] \in Workers
  BY QueueEffect
<1>q. /\ n >= 1 /\ Len(queue') = n - 1
      /\ \A i \in 1 .. n - 1 : queue'[i] = queue[i + 1]
      /\ ptail = queue[1] /\ ptail \in Workers
  BY QueueEffect
<1> HIDE DEF n
<1>k. PICK k \in -1 .. n : ChainInv(k) /\ StepInv(k)
  BY DEF IInv, ListInv, n
<1>1. /\ UNCHANGED <<next, head, wprev, pprev>> /\ tail' = pnext
      /\ wpc' = [wpc EXCEPT ![ptail] = "busy"] /\ ppc = "test" /\ ppc' = "idle"
      /\ pnext # null
  BY DEF PopTake, Return
<1>2. k # 0 /\ pnext = next[tail] /\ tail = queue[1] /\ tail # head
  BY <1>k, TakeFacts DEF IInv, n
<1>3. \A i \in 2 .. n : queue[i] # ptail /\ queue[i] # stub /\ wpc'[queue[i]] = wpc[queue[i]]
  BY <1>t, <1>n, <1>q, <1>1 DEF QueueInv, TypeOK, n
<1>c. /\ k # n => n >= 1
      /\ head = IF k = n THEN stub ELSE queue[n]
      /\ next[head] = null
      /\ \A i \in 1 .. n - 1 : i # k => Joined(queue[i], queue[i + 1])
      /\ k \in 1 .. n => Joined(queue[k], stub)
      /\ k \in 0 .. n - 1 => Joined(stub, queue[k + 1])
  BY <1>k DEF ChainInv, n
<1>4. \A i \in 1 .. n - 2 : i + 1 # k => Joined(queue[i], queue[i + 1])'
  <2> SUFFICES ASSUME NEW i \in 1 .. n - 2, i + 1 # k PROVE Joined(queue[i], queue[i + 1])'
    OBVIOUS
  <2>1. /\ i + 1 \in 2 .. n /\ i + 2 \in 2 .. n /\ i + 1 \in 1 .. n - 1
        /\ queue'[i] = queue[i + 1] /\ queue'[i + 1] = queue[i + 2]
    BY <1>n, <1>q
  <2>2. Joined(queue[i + 1], queue[(i + 1) + 1]) /\ (i + 1) + 1 = i + 2
    BY <1>c, <2>1
  <2>3. QED
    BY <1>1, <1>3, <2>1, <2>2 DEF Joined, Linking
<1>5. \A w \in Workers : wpc'[w] = "exchange" => next[w] = null
  BY <1>k, <1>1, <1>t DEF StepInv, TypeOK
\* The stub is next.
<1>7. CASE k = 1
  <2>1. Joined(queue[1], stub)
    BY <1>c, <1>q, <1>n, <1>7
  <2>2. tail' = stub
    BY <1>1, <1>2, <2>1 DEF Joined
  <2>3. n >= 2 => Joined(stub, queue[1])'
    <3>1. n >= 2 => Joined(stub, queue[2]) /\ queue'[1] = queue[2] /\ 2 \in 2 .. n
      BY <1>c, <1>q, <1>n, <1>7
    <3>2. QED
      BY <1>1, <1>3, <3>1 DEF Joined, Linking
  <2>4. head' = IF 0 = Len(queue') THEN stub ELSE queue'[Len(queue')]
    BY <1>1, <1>c, <1>q, <1>n, <1>7
  <2>5. \A i \in 1 .. Len(queue') - 1 : Joined(queue[i], queue[i + 1])'
    BY <1>n, <1>q, <1>4, <1>7
  <2>6. ChainInv(0)'
    BY <1>n, <1>q, <1>1, <1>c, <2>2, <2>3, <2>4, <2>5 DEF ChainInv
  <2>7. StepInv(0)'
    BY <1>1, <1>5 DEF StepInv
  <2>8. QED
    BY <1>n, <1>q, <2>6, <2>7 DEF ListInv
\* The second worker is next.
<1>8. CASE k # 1
  <2>1. n >= 2
    BY <1>n, <1>k, <1>q, <1>2, <1>c, <1>8
  <2>2. Joined(queue[1], queue[2]) /\ 1 \in 1 .. n - 1
    <3>1. 1 \in 1 .. n - 1 /\ 1 + 1 = 2
      BY <1>n, <2>1
    <3>2. QED
      BY <1>c, <1>8, <3>1
  <2>3. /\ tail' = queue[2] /\ wpc[queue[2]] = "idle" /\ queue'[1] = queue[2]
        /\ wpc'[queue[2]] = "idle"
    BY <1>1, <1>2, <1>3, <1>n, <1>q, <1>t, <2>1, <2>2 DEF Joined
  <2>4. PICK j \in -1 .. n - 1 : j = IF k = -1 THEN -1 ELSE k - 1
    BY <1>n, <1>k, <1>2
  <2>5. j # 0
    BY <1>k, <1>8, <2>4
  <2>6. head' = IF j = Len(queue') THEN stub ELSE queue'[Len(queue')]
    BY <1>1, <1>c, <1>q, <1>n, <1>k, <2>1, <2>4
  <2>7. \A i \in 1 .. Len(queue') - 1 : i # j => Joined(queue[i], queue[i + 1])'
    BY <1>n, <1>k, <1>q, <1>4, <2>4
  <2>8. j \in 1 .. Len(queue') => Joined(queue[j], stub)'
    <3>1. j \in 1 .. Len(queue') => /\ k \in 2 .. n /\ k \in 1 .. n /\ queue'[j] = queue[k]
      BY <1>n, <1>k, <1>q, <2>4
    <3>2. QED
      BY <1>1, <1>c, <3>1 DEF Joined, Linking
  <2>9. j \in 0 .. Len(queue') - 1 => Joined(stub, queue[j + 1])'
    <3>1. j \in 0 .. Len(queue') - 1 => /\ k \in 0 .. n - 1 /\ k + 1 \in 2 .. n
                                        /\ queue'[j + 1] = queue[k + 1]
      BY <1>n, <1>k, <1>q, <1>2, <2>4
    <3>2. QED
      BY <1>1, <1>3, <1>c, <3>1 DEF Joined, Linking
  <2>10. ChainInv(j)'
    BY <1>n, <1>q, <1>1, <1>c, <2>1, <2>3, <2>5, <2>6, <2>7, <2>8, <2>9 DEF ChainInv
  <2>11. StepInv(j)'
    BY <1>1, <1>5 DEF StepInv
  <2>12. QED
    BY <1>n, <1>q, <2>10, <2>11 DEF ListInv
<1>9. QED
  BY <1>7, <1>8

\* push(&stub_): the consumer's own push, of an item that is not in the list.
LEMMA StubChain ==
  ASSUME IInv, StubClear \/ StubExchange \/ StubLink
  PROVE  ListInv'
<1>t. TypeOK /\ QueueInv /\ stub \notin Workers /\ null \notin Items
  BY ItemAssumption DEF IInv, Items
<1> DEFINE n == Len(queue)
<1>n. n \in Nat /\ \A i \in 1 .. n : queue[i] \in Workers
  BY QueueEffect
<1> HIDE DEF n
<1>k. PICK k \in -1 .. n : ChainInv(k) /\ StepInv(k)
  BY DEF IInv, ListInv, n
<1>u. UNCHANGED <<tail, queue, wpc, wprev, ptail, pnext>>
  BY DEF StubClear, StubExchange, StubLink, wvars, pvars
<1>s. \A i \in 1 .. n : queue[i] # stub /\ queue[i] \in Items
  BY <1>n, <1>t DEF Items
<1>1. CASE StubClear
  <2>1. /\ ppc = "clear" /\ ppc' = "exchange" /\ next' = [next EXCEPT ![stub] = null]
        /\ UNCHANGED <<head, pprev>>
    BY <1>1 DEF StubClear, pvars
  <2>2. k = -1
    BY <1>k, <2>1 DEF StepInv
  <2>3. next'[stub] = null /\ \A i \in Items : i # stub => next'[i] = next[i]
    BY <1>t, <2>1 DEF TypeOK, Items
  <2>4. head # stub /\ head \in Items /\ next'[head] = null
    BY <1>n, <1>k, <1>s, <1>t, <2>2, <2>3 DEF ChainInv, TypeOK, n
  <2>5. \A i \in 1 .. n - 1 : Joined(queue[i], queue[i + 1])'
    <3> SUFFICES ASSUME NEW i \in 1 .. n - 1 PROVE Joined(queue[i], queue[i + 1])'
      OBVIOUS
    <3>1. i \in 1 .. n /\ i + 1 \in 1 .. n /\ Joined(queue[i], queue[i + 1])
      BY <1>n, <1>k, <2>2 DEF ChainInv, n
    <3>2. QED
      BY <1>s, <1>u, <2>1, <2>3, <3>1 DEF Joined, Linking
  <2>6. ChainInv(k)'
    BY <1>k, <1>u, <2>1, <2>2, <2>4, <2>5 DEF ChainInv, n
  <2>7. StepInv(k)'
    <3>1. \A w \in Workers : wpc'[w] = "exchange" => next'[w] = null
      BY <1>k, <1>t, <1>u, <2>3 DEF StepInv, Items
    <3>2. QED
      BY <1>k, <1>u, <2>1, <2>2, <2>3, <3>1 DEF StepInv
  <2>8. QED
    BY <1>u, <2>6, <2>7 DEF ListInv, n
<1>2. CASE StubExchange
  <2>1. /\ ppc = "exchange" /\ ppc' = "link" /\ head' = stub /\ pprev' = head
        /\ UNCHANGED next
    BY <1>2 DEF StubExchange
  <2>2. k = -1 /\ next[stub] = null
    BY <1>k, <2>1 DEF StepInv
  <2>3. n >= 1 /\ head = queue[n] /\ next[head] = null
    BY <1>n, <1>k, <2>2 DEF ChainInv, n
  <2>m. PICK m \in Nat : m = n
    BY <1>n
  <2>4. Joined(queue[m], stub)'
    BY <1>u, <2>m, <2>1, <2>3 DEF Joined, Linking
  <2>5. \A i \in 1 .. n - 1 : Joined(queue[i], queue[i + 1])'
    <3> SUFFICES ASSUME NEW i \in 1 .. n - 1 PROVE Joined(queue[i], queue[i + 1])'
      OBVIOUS
    <3>1. i \in 1 .. n /\ i + 1 \in 1 .. n /\ Joined(queue[i], queue[i + 1])
      BY <1>n, <1>k, <2>2 DEF ChainInv, n
    <3>2. QED
      BY <1>s, <1>u, <2>1, <3>1 DEF Joined, Linking
  <2>6. ChainInv(m)'
    <3>1. tail = queue[1] /\ wpc[queue[1]] = "idle"
      BY <1>k, <2>2 DEF ChainInv
    <3>2. QED
      BY <1>n, <1>u, <2>m, <2>1, <2>2, <2>3, <2>4, <2>5, <3>1 DEF ChainInv, n
  <2>7. StepInv(m)'
    BY <1>k, <1>n, <1>u, <2>m, <2>1, <2>3 DEF StepInv
  <2>8. QED
    BY <1>n, <1>u, <2>m, <2>6, <2>7 DEF ListInv, n
<1>3. CASE StubLink
  <2>1. /\ ppc = "link" /\ ppc' = "reload" /\ next' = [next EXCEPT ![pprev] = stub]
        /\ pprev' = null /\ UNCHANGED head
    BY <1>3 DEF StubLink
  <2>2. k \in 1 .. n
    BY <1>k, <2>1 DEF StepInv
  <2>3. pprev = queue[k] /\ next[queue[k]] = null
    BY <1>k, <2>1, <2>2 DEF ChainInv, Joined, Linking, n
  <2>4. next'[queue[k]] = stub /\ \A i \in Items : i # queue[k] => next'[i] = next[i]
    BY <1>t, <1>s, <2>1, <2>2, <2>3 DEF TypeOK
  <2>5. \A i \in 1 .. n : i # k => queue[i] # queue[k]
    BY <1>t, <2>2 DEF QueueInv, n
  <2>6. head \in Items /\ head # queue[k] /\ next[head] = null
    BY <1>n, <1>k, <1>s, <1>t, <2>2, <2>5 DEF ChainInv, TypeOK, n
  <2>7. \A i \in 1 .. n - 1 : i # k => Joined(queue[i], queue[i + 1])'
    <3> SUFFICES ASSUME NEW i \in 1 .. n - 1, i # k PROVE Joined(queue[i], queue[i + 1])'
      OBVIOUS
    <3>1. i \in 1 .. n /\ i + 1 \in 1 .. n /\ Joined(queue[i], queue[i + 1])
      BY <1>n, <1>k DEF ChainInv, n
    <3>2. next'[queue[i]] = next[queue[i]]
      BY <1>s, <2>4, <2>5, <3>1
    <3>3. QED
      BY <1>s, <1>u, <3>1, <3>2 DEF Joined, Linking
  <2>8. Joined(queue[k], stub)'
    BY <1>u, <2>1, <2>4 DEF Joined
  <2>9. k \in 0 .. n - 1 => Joined(stub, queue[k + 1])'
    <3>1. k \in 0 .. n - 1 => Joined(stub, queue[k + 1]) /\ k + 1 \in 1 .. n
      BY <1>n, <1>k DEF ChainInv, n
    <3>2. next'[stub] = next[stub]
      BY <1>s, <2>2, <2>4 DEF Items
    <3>3. QED
      BY <1>s, <1>u, <3>1, <3>2 DEF Joined, Linking
  <2>10. next'[head] = null
    BY <2>4, <2>6
  <2>11. ChainInv(k)'
    BY <1>k, <1>u, <2>1, <2>7, <2>8, <2>9, <2>10 DEF ChainInv, n
  <2>12. \A w \in Workers : wpc'[w] = "exchange" => next'[w] = null
    <3>1. ASSUME NEW w \in Workers, wpc[w] = "exchange" PROVE next'[w] = null
      <4>1. w # queue[k]
        BY <1>t, <2>2, <3>1 DEF QueueInv, n
      <4>2. QED
        BY <1>k, <2>4, <3>1, <4>1 DEF StepInv, Items
    <3>2. QED
      BY <1>u, <3>1
  <2>13. StepInv(k)'
    BY <1>k, <1>u, <2>1, <2>2, <2>12 DEF StepInv
  <2>14. QED
    BY <1>u, <2>11, <2>13 DEF ListInv, n
<1>4. QED
  BY <1>1, <1>2, <1>3

-----------------------------------------------------------------------------
(* The results.                                                            *)

\* Every state of the list satisfies the invariant.
THEOREM Invariance == Spec => []IInv
<1>1. Init => IInv
  BY InitIInv
<1>2. IInv /\ [Next]_vars => ListInv'
  <2> SUFFICES ASSUME IInv, [Next]_vars PROVE ListInv'
    OBVIOUS
  <2>1. ASSUME NEW w \in Workers, PushClear(w) \/ Push(w) PROVE ListInv'
    BY <2>1, ClearChain, ExchangeChain, LinkChain DEF Push
  <2>2. ASSUME Pop PROVE ListInv'
    BY <2>2, ReadChain, SkipChain, TakeChain, StubChain DEF Pop
  <2>3. CASE UNCHANGED vars
    BY <2>3 DEF vars, wvars, pvars, IInv, ListInv, ChainInv, StepInv, Joined, Linking
  <2>4. QED
    BY <2>1, <2>2, <2>3 DEF Next
<1>3. IInv /\ [Next]_vars => IInv'
  BY <1>2, TypeStep, QueueStep DEF IInv
<1>4. QED
  BY <1>1, <1>3, PTL DEF Spec

\* mpsc_list is a queue: pushes take effect at their exchange of head_, a pop that
\* returns an item removes the oldest one, and every other access is a stutter.
THEOREM ImplementsQueue == Spec => FirstInFirstOut
<1>1. Init => Abstract!Init
  BY DEF Init, Abstract!Init
<1>2. IInv /\ [Next]_vars => [Abstract!Next]_queue
  <2> SUFFICES ASSUME IInv, [Next]_vars PROVE [Abstract!Next]_queue
    OBVIOUS
  <2>1. ASSUME NEW w \in Workers, PushExchange(w) PROVE Abstract!Next
    BY <2>1 DEF PushExchange, Abstract!Next, Abstract!Push
  <2>2. CASE PopTake
    BY <2>2, QueueEffect DEF Abstract!Next, Abstract!Pop
  <2>3. ASSUME NEW w \in Workers, PushClear(w) \/ PushLink(w) PROVE UNCHANGED queue
    BY <2>3 DEF PushClear, PushLink
  <2>4. CASE \/ PopLoad \/ PopStub \/ PopHead \/ PopReload
             \/ StubClear \/ StubExchange \/ StubLink \/ UNCHANGED vars
    BY <2>4 DEF PopLoad, PopStub, PopHead, PopReload, StubClear, StubExchange, StubLink, vars
  <2>5. QED
    BY <2>1, <2>2, <2>3, <2>4 DEF Next, Push, Pop
<1>3. QED
  BY <1>1, <1>2, Invariance, PTL DEF Spec, FirstInFirstOut, Abstract!Spec

\* A worker is in the list from its exchange of head_ until pop returns it, and only
\* once: none is lost between two steps and none can be handed out twice.
NobodyLost ==
  \A w \in Workers :
    IF wpc[w] \in {"link", "idle"}
      THEN \E i \in DOMAIN queue : queue[i] = w /\ \A j \in DOMAIN queue : queue[j] = w => j = i
      ELSE \A i \in DOMAIN queue : queue[i] # w

\* mpsc_list neither loses nor duplicates a worker.
THEOREM ListKeepsWorkers == Spec => []NobodyLost
<1>1. IInv => NobodyLost
  <2> SUFFICES ASSUME IInv PROVE NobodyLost
    OBVIOUS
  <2>1. DOMAIN queue = 1 .. Len(queue)
    BY LenProperties DEF IInv, TypeOK
  <2>2. QueueInv
    BY DEF IInv
  <2>3. QED
    BY <2>1, <2>2 DEF QueueInv, NobodyLost
<1>2. QED
  BY <1>1, Invariance, PTL
=============================================================================
