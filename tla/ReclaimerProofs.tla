--------------------------- MODULE ReclaimerProofs ---------------------------
(***************************************************************************)
(* Proofs about Reclaimer for any number of readers, collectors and        *)
(* tickets.                                                                *)
(***************************************************************************)
EXTENDS Reclaimer, TLAPS

(***************************************************************************)
(* The strengthening.  A reader whose first load of the sequence is still  *)
(* current has seen no publication since, so its candidate is the          *)
(* published pair; a collector's minimum never exceeds the published       *)
(* version nor the version of a pinned reader whose slot it has passed.    *)
(***************************************************************************)
Publishing == ppc \in {"root", "version", "end"}

PublisherInv ==
  /\ version <= executed /\ committed <= version
  /\ Seqlocked => ((sequence % 2 = 1) <=> Publishing)
  /\ IF ppc \in {"version", "end"} THEN root = executed ELSE root = version
  /\ ppc \in {"end", "commit", "idle"} => version = executed

\* Reader r's candidate, its slot and what has been committed when it entered pin.
CandidateOK(r) ==
  Seqlocked =>
    /\ rpc[r] \in {"root", "version", "advertise", "validate"} =>
         rseq[r] <= sequence /\ rseq[r] % 2 = 0
    /\ rpc[r] \in {"version", "advertise", "validate"} /\ rseq[r] = sequence =>
         rroot[r] = root
    /\ rpc[r] \in {"advertise", "validate"} /\ rseq[r] = sequence =>
         rver[r] = version
    /\ rpc[r] = "pinned" => rroot[r] = rver[r]

SlotOK(r) == Enabled /\ rpc[r] \in {"validate", "pinned"} => slot[r] = rver[r]

FreshOK(r) ==
  /\ rstart[r] <= committed
  /\ rpc[r] \in {"version", "advertise", "validate", "pinned"} => rstart[r] <= rroot[r]
  /\ rpc[r] \in {"advertise", "validate", "pinned"} => rstart[r] <= rver[r]

\* Collector c has a minimum; it holds the mutex of the queue.
Scanned(c) == cpc[c] \in {"scan", "front", "pop"}
InQueue(c) == cpc[c] \in {"front", "pop"}

\* What pinning protects: nothing freed, and no scan that passed r's slot.
PinOK(r) ==
  Enabled /\ rpc[r] = "pinned" =>
    /\ \A b \in freed : b <= rver[r]
    /\ \A c \in Collectors : Scanned(c) /\ r < cidx[c] => cold[c] <= rver[r]

ReaderOK(r) == CandidateOK(r) /\ SlotOK(r) /\ FreshOK(r) /\ PinOK(r)

FreedInv ==
  /\ \A b \in freed : b <= version
  /\ \A c \in Collectors : Scanned(c) => cold[c] <= version
  /\ \A c \in Collectors : InQueue(c) => cidx[c] = NReaders

IInv == TypeOK /\ PublisherInv /\ FreedInv /\ \A r \in Readers : ReaderOK(r)

-----------------------------------------------------------------------------
LEMMA InitIInv == Init => IInv
<1> SUFFICES ASSUME Init PROVE IInv
  OBVIOUS
<1> USE ReadersAssumption, MaxAssumption, ModeAssumption DEF Init, Tickets
<1>1. TypeOK
  BY DEF TypeOK, TypePublisher, TypeReaders, TypeQueue, TypeCollectors
<1>2. PublisherInv /\ FreedInv
  BY DEF PublisherInv, FreedInv, Publishing, Scanned, InQueue
<1>3. \A r \in Readers : ReaderOK(r)
  BY DEF ReaderOK, CandidateOK, SlotOK, FreshOK, PinOK, Scanned
<1>4. QED
  BY <1>1, <1>2, <1>3 DEF IInv

\* What is published names an executed ticket; the marker of an idle slot is no ticket.
LEMMA PublishedTickets ==
  TypePublisher => {root, version, committed, executed} \subseteq Tickets
  BY MaxAssumption DEF TypePublisher, Tickets

LEMMA InactiveIsNoTicket == INACTIVE \in Nat /\ INACTIVE \notin Tickets
  BY MaxAssumption DEF INACTIVE, Tickets

\* Every step keeps the types.
LEMMA TypeStep == TypeOK /\ [Next]_vars => TypeOK'
<1> SUFFICES ASSUME TypeOK, [Next]_vars PROVE TypeOK'
  OBVIOUS
<1> USE ReadersAssumption, MaxAssumption DEF TypeOK
<1>p. UNCHANGED pubvars => TypePublisher'
  BY DEF TypePublisher, pubvars
<1>r. UNCHANGED rdvars => TypeReaders'
  BY DEF TypeReaders, rdvars
<1>q. UNCHANGED <<retired, freed>> => TypeQueue'
  BY DEF TypeQueue
<1>c. UNCHANGED colvars => TypeCollectors'
  BY DEF TypeCollectors, colvars
<1>1. CASE Retire
  <2>1. TypePublisher' /\ executed + 1 \in Tickets
    <3>1. 0 .. executed \subseteq 0 .. executed + 1
      BY DEF TypePublisher, Tickets
    <3>2. QED
      BY <1>1, <3>1 DEF Retire, TypePublisher, Tickets
  <2>2. TypeQueue'
    BY <1>1, <2>1 DEF Retire, TypeQueue
  <2>3. QED
    BY <1>1, <1>r, <1>c, <2>1, <2>2 DEF Retire
<1>2. ASSUME PublishBegin \/ PublishRoot \/ PublishVersion \/ PublishEnd \/ Commit
      PROVE  TypeOK'
  <2>1. TypePublisher'
    BY <1>2 DEF PublishBegin, PublishRoot, PublishVersion, PublishEnd, Commit,
                TypePublisher, Tickets
  <2>2. QED
    BY <1>2, <2>1, <1>r, <1>q, <1>c
    DEF PublishBegin, PublishRoot, PublishVersion, PublishEnd, Commit
<1>3. ASSUME NEW r \in Readers, PinStart(r) \/ Pin(r) \/ Unpin(r)
      PROVE  TypeOK'
  <2>1. TypeReaders'
    <3> USE DEF TypeReaders
    <3>1. CASE PinStart(r)
      BY <3>1, PublishedTickets DEF PinStart
    <3>2. CASE PinSequence(r) \/ PinRoot(r) \/ PinVersion(r)
      BY <3>2, PublishedTickets DEF PinSequence, PinRoot, PinVersion, TypePublisher
    <3>3. CASE PinAdvertise(r) \/ PinValidate(r)
      BY <3>3 DEF PinAdvertise, PinValidate
    <3>4. CASE PinWithdraw(r) \/ Unpin(r)
      BY <3>4 DEF PinWithdraw, Unpin, Forget, Tickets
    <3>5. QED
      BY <1>3, <3>1, <3>2, <3>3, <3>4 DEF Pin
  <2>2. QED
    BY <1>3, <2>1, <1>p, <1>q, <1>c
    DEF Pin, PinStart, PinSequence, PinRoot, PinVersion, PinAdvertise, PinValidate,
        PinWithdraw, Unpin
<1>4. ASSUME NEW c \in Collectors, CollectStart(c) \/ ScanVersion(c) \/ ScanSlot(c)
      PROVE  TypeOK'
  <2>1. TypeCollectors'
    <3> USE DEF TypeCollectors
    <3>1. CASE CollectStart(c)
      BY <3>1, PublishedTickets DEF CollectStart
    <3>2. CASE ScanVersion(c)
      BY <3>2, PublishedTickets DEF ScanVersion
    <3>3. CASE ScanSlot(c)
      <4>1. cidx[c] \in Readers
        BY <3>3 DEF ScanSlot, Readers
      <4>2. cold'[c] \in Tickets
        BY <3>3, <4>1 DEF ScanSlot, TypeReaders, Lower
      <4>3. QED
        BY <3>3, <4>2 DEF ScanSlot
    <3>4. QED
      BY <1>4, <3>1, <3>2, <3>3
  <2>2. QED
    BY <1>4, <2>1, <1>p, <1>q, <1>r DEF CollectStart, ScanVersion, ScanSlot
<1>5. ASSUME NEW c \in Collectors, Reclaim(c) PROVE TypeOK'
  <2>1. TypeQueue'
    <3>1. CASE FreeFront(c)
      BY <3>1 DEF FreeFront, FrontSafe, TypeQueue
    <3>2. CASE PopFront(c)
      BY <3>2 DEF PopFront, TypeQueue
    <3>3. CASE EnterQueue(c) \/ LeaveQueue(c)
      BY <3>3, <1>q DEF EnterQueue, LeaveQueue
    <3>4. QED
      BY <1>5, <3>1, <3>2, <3>3 DEF Reclaim
  <2>2. TypeCollectors'
    <3>1. 0 \in Tickets /\ 0 \in 0 .. NReaders
      BY DEF Tickets
    <3> USE DEF TypeCollectors
    <3>2. CASE EnterQueue(c)
      BY <3>2 DEF EnterQueue
    <3>3. CASE FreeFront(c)
      BY <3>3 DEF FreeFront
    <3>4. CASE PopFront(c)
      BY <3>4 DEF PopFront
    <3>5. CASE LeaveQueue(c)
      BY <3>5, <3>1 DEF LeaveQueue
    <3>6. QED
      BY <1>5, <3>2, <3>3, <3>4, <3>5 DEF Reclaim
  <2>3. QED
    BY <1>5, <2>1, <2>2, <1>p, <1>r
    DEF Reclaim, EnterQueue, FreeFront, PopFront, LeaveQueue
<1>6. CASE UNCHANGED vars
  BY <1>6, <1>p, <1>r, <1>q, <1>c DEF vars
<1>7. QED
  BY <1>1, <1>2, <1>3, <1>4, <1>5, <1>6 DEF Next, Publisher, Collect

-----------------------------------------------------------------------------
\* Every step keeps the invariant.  A step of the publishing thread can only
\* disturb what relates readers to the published pair; a step of a reader only
\* what is said of that reader; a step of a collector only its own minimum.
LEMMA InvStep == IInv /\ [Next]_vars => IInv'
<1> SUFFICES ASSUME IInv, [Next]_vars PROVE IInv'
  OBVIOUS
<1>0. TypeOK /\ TypeOK'
  BY TypeStep DEF IInv
<1> USE ReadersAssumption, MaxAssumption, ModeAssumption
<1>t. /\ sequence \in Nat /\ sequence' \in Nat
      /\ {root, version, committed, executed} \subseteq Nat
      /\ {root', version', committed', executed'} \subseteq Nat
      /\ freed \subseteq Nat /\ freed' \subseteq Nat
  <2>1. {root, version, committed, executed} \subseteq Tickets
        /\ {root', version', committed', executed'} \subseteq Tickets
    BY <1>0, PublishedTickets, MaxAssumption DEF TypeOK, TypePublisher, Tickets
  <2>2. QED
    BY <1>0, <2>1 DEF TypeOK, TypePublisher, TypeQueue, Tickets
<1>u. /\ {rseq, rroot, rver, rstart} \subseteq [Readers -> Nat]
      /\ \A c \in Collectors : cold[c] \in Nat /\ cidx[c] \in 0 .. NReaders
  BY <1>0 DEF TypeOK, TypeReaders, TypeCollectors, Tickets
<1>i. PublisherInv /\ FreedInv /\ \A r \in Readers : ReaderOK(r)
  BY DEF IInv
<1>m. root >= version /\ version >= committed
  BY <1>i, <1>t DEF PublisherInv
<1>1. ASSUME Publisher PROVE IInv'
  <2>0. UNCHANGED rdvars /\ UNCHANGED colvars /\ UNCHANGED freed
    BY <1>1 DEF Publisher, Retire, PublishBegin, PublishRoot, PublishVersion,
                PublishEnd, Commit
  <2>1. /\ PublisherInv'
        /\ version <= version' /\ committed <= committed' /\ sequence <= sequence'
        /\ Seqlocked /\ <<root, version>>' # <<root, version>> => sequence % 2 = 1
        /\ Seqlocked /\ sequence' # sequence => sequence' = sequence + 1
    <3> USE <1>t, <1>i DEF PublisherInv, Publishing
    <3>1. CASE Retire
      <4>1. ppc \in {"idle", "run"} /\ ppc' = "run"
            /\ UNCHANGED <<sequence, root, version, committed>> /\ executed' = executed + 1
        BY <3>1 DEF Retire
      <4>2. root = version
        BY <4>1
      <4>3. QED
        BY <4>1, <4>2
    <3>2. CASE PublishBegin
      BY <3>2 DEF PublishBegin
    <3>3. CASE PublishRoot
      BY <3>3 DEF PublishRoot
    <3>4. CASE PublishVersion
      BY <3>4 DEF PublishVersion
    <3>5. CASE PublishEnd
      BY <3>5 DEF PublishEnd
    <3>6. CASE Commit
      BY <3>6 DEF Commit
    <3>7. QED
      BY <1>1, <3>1, <3>2, <3>3, <3>4, <3>5, <3>6 DEF Publisher
  <2>2. FreedInv'
    BY <2>0, <2>1, <1>t, <1>u, <1>i DEF FreedInv, Scanned, InQueue, colvars
  <2>3. ASSUME NEW r \in Readers PROVE ReaderOK(r)'
    <3>1. CandidateOK(r)'
      BY <2>0, <2>1, <1>t, <1>u, <1>i DEF ReaderOK, CandidateOK, rdvars, Seqlocked
    <3>2. SlotOK(r)' /\ FreshOK(r)' /\ PinOK(r)'
      BY <2>0, <2>1, <1>t, <1>u, <1>i
      DEF ReaderOK, SlotOK, FreshOK, PinOK, Scanned, rdvars, colvars
    <3>3. QED
      BY <3>1, <3>2 DEF ReaderOK
  <2>4. QED
    BY <1>0, <2>1, <2>2, <2>3 DEF IInv
<1>2. ASSUME NEW r \in Readers, PinStart(r) \/ Pin(r) \/ Unpin(r)
      PROVE  IInv'
  <2>0. UNCHANGED pubvars /\ UNCHANGED colvars /\ UNCHANGED freed
    BY <1>2 DEF PinStart, Pin, Unpin, PinSequence, PinRoot, PinVersion, PinAdvertise,
                PinValidate, PinWithdraw
  <2>1. PublisherInv' /\ FreedInv'
    BY <2>0, <1>i DEF PublisherInv, Publishing, FreedInv, Scanned, InQueue, pubvars,
                      colvars
  <2>2. ASSUME NEW i \in Readers, i # r PROVE ReaderOK(i)'
    <3>1. UNCHANGED <<slot[i], rpc[i], rseq[i], rroot[i], rver[i], rstart[i]>>
      BY <1>2, <1>0, <2>2 DEF PinStart, Pin, Unpin, PinSequence, PinRoot, PinVersion,
         PinAdvertise, PinValidate, PinWithdraw, Forget, TypeOK, TypeReaders
    <3>2. QED
      BY <3>1, <2>0, <1>i DEF ReaderOK, CandidateOK, SlotOK, FreshOK, PinOK, Scanned,
         pubvars, colvars
  <2>3. ReaderOK(r)'
    <3> USE <2>0, <1>0, <1>t, <1>u, <1>i, <1>m
        DEF TypeOK, TypeReaders, ReaderOK, CandidateOK, SlotOK, FreshOK, PinOK,
            Scanned, pubvars, colvars
    <3>1. CASE PinStart(r)
      BY <3>1 DEF PinStart
    <3>2. CASE PinSequence(r)
      BY <3>2 DEF PinSequence
    <3>3. CASE PinRoot(r)
      BY <3>3 DEF PinRoot
    <3>4. CASE PinVersion(r)
      BY <3>4 DEF PinVersion, Seqlocked
    <3>5. CASE PinAdvertise(r)
      BY <3>5 DEF PinAdvertise
    <3>6. CASE PinValidate(r)
      BY <3>6 DEF PinValidate, Seqlocked, FreedInv, PublisherInv, Publishing
    <3>7. CASE PinWithdraw(r)
      BY <3>7 DEF PinWithdraw, Forget
    <3>8. CASE Unpin(r)
      BY <3>8 DEF Unpin, Forget
    <3>9. QED
      BY <1>2, <3>1, <3>2, <3>3, <3>4, <3>5, <3>6, <3>7, <3>8 DEF Pin
  <2>4. QED
    BY <1>0, <2>1, <2>2, <2>3 DEF IInv
<1>3. ASSUME NEW c \in Collectors, Collect(c) PROVE IInv'
  <2>0. UNCHANGED pubvars /\ UNCHANGED rdvars
    BY <1>3 DEF Collect, CollectStart, ScanVersion, ScanSlot, Reclaim, EnterQueue,
                FreeFront, PopFront, LeaveQueue
  <2>1. PublisherInv' /\ \A r \in Readers : (CandidateOK(r) /\ SlotOK(r) /\ FreshOK(r))'
    BY <2>0, <1>i DEF PublisherInv, Publishing, ReaderOK, CandidateOK, SlotOK, FreshOK,
                      pubvars, rdvars
  <2>a. ASSUME NEW d \in Collectors, d # c
        PROVE  UNCHANGED <<cpc[d], cold[d], cidx[d]>>
    BY <1>3, <1>0, <2>a DEF Collect, CollectStart, ScanVersion, ScanSlot, Reclaim,
       EnterQueue, FreeFront, PopFront, LeaveQueue, TypeOK, TypeCollectors
  <2>b. ASSUME NEW r \in Readers, Enabled, rpc[r] = "pinned"
        PROVE  slot[r] = rver[r] /\ slot[r] # INACTIVE /\ rver[r] \in Nat
    BY <2>b, <1>0, <1>i, <1>u, InactiveIsNoTicket
    DEF ReaderOK, SlotOK, TypeOK, TypeReaders
  <2>2. FreedInv' /\ \A r \in Readers : PinOK(r)'
    <3>1. CASE CollectStart(c) \/ ScanVersion(c)
      <4>1. freed' = freed /\ ~ InQueue(c)'
            /\ (Scanned(c)' => cold'[c] = version /\ cidx'[c] = 0)
        BY <3>1, <1>0 DEF CollectStart, ScanVersion, Scanned, InQueue, TypeOK,
                          TypeCollectors
      <4>2. FreedInv'
        BY <4>1, <2>a, <2>0, <1>i, <1>t DEF FreedInv, Scanned, InQueue, pubvars
      <4>3. ASSUME NEW r \in Readers PROVE PinOK(r)'
        <5>1. ~ (r < 0)
          BY DEF Readers
        <5>2. QED
          BY <5>1, <4>1, <2>a, <2>0, <1>i DEF ReaderOK, PinOK, Scanned, rdvars
      <4>4. QED
        BY <4>2, <4>3
    <3>2. CASE ScanSlot(c)
      <4>1. /\ freed' = freed /\ cpc' = cpc /\ cpc[c] = "scan" /\ cidx'[c] = cidx[c] + 1
            /\ cidx[c] \in Readers
            /\ cold'[c] = IF slot[cidx[c]] # INACTIVE THEN Lower(cold[c], slot[cidx[c]])
                          ELSE cold[c]
        BY <3>2, <1>0 DEF ScanSlot, TypeOK, TypeCollectors, Readers
      <4>2. slot[cidx[c]] \in Nat
        BY <4>1, <1>0, InactiveIsNoTicket DEF TypeOK, TypeReaders, Tickets
      <4>3. cold'[c] <= cold[c] /\ cold'[c] \in Nat
        BY <4>1, <4>2, <1>u DEF Lower
      <4>4. FreedInv'
        BY <4>1, <4>3, <2>a, <2>0, <1>i, <1>t, <1>u DEF FreedInv, Scanned, InQueue, pubvars
      <4>5. ASSUME NEW r \in Readers, Enabled, rpc[r] = "pinned", r < cidx'[c]
            PROVE  cold'[c] <= rver[r]
        <5>1. CASE r = cidx[c]
          BY <5>1, <4>1, <4>5, <2>b, <1>u DEF Lower
        <5>2. CASE r # cidx[c]
          <6>1. r < cidx[c]
            BY <5>2, <4>1, <4>5, <1>u DEF Readers
          <6>2. cold[c] <= rver[r]
            BY <6>1, <4>1, <4>5, <1>i DEF ReaderOK, PinOK, Scanned
          <6>3. QED
            BY <6>2, <4>3, <2>b, <4>5, <1>u
        <5>3. QED
          BY <5>1, <5>2
      <4>6. ASSUME NEW r \in Readers PROVE PinOK(r)'
        BY <4>1, <4>5, <2>a, <2>0, <1>i DEF ReaderOK, PinOK, Scanned, rdvars
      <4>7. QED
        BY <4>4, <4>6
    <3>3. CASE Reclaim(c)
      <4>1. /\ Scanned(c) /\ cidx[c] = NReaders
            /\ ~ Scanned(c)' \/ UNCHANGED <<cold[c], cidx[c]>>
            /\ \A b \in freed' : b \in freed \/ b <= Safe(c)
        BY <3>3, <1>0, <1>i
        DEF Reclaim, EnterQueue, FreeFront, PopFront, LeaveQueue, FrontSafe, Scanned,
            InQueue, FreedInv, TypeOK, TypeCollectors
      <4>2. Safe(c) <= cold[c] /\ Safe(c) \in Nat
        BY <1>0, <1>u DEF Safe, Lower, TypeOK, TypeCollectors, Tickets
      <4>3. ASSUME NEW b \in freed' PROVE b \in freed \/ b <= cold[c]
        BY <4>1, <4>2, <1>t, <1>u
      <4>4. FreedInv'
        BY <4>1, <4>3, <2>a, <2>0, <1>i, <1>t, <1>u DEF FreedInv, Scanned, InQueue, pubvars
      <4>5. ASSUME NEW r \in Readers, Enabled, rpc[r] = "pinned"
            PROVE  cold[c] <= rver[r]
        BY <4>1, <4>5, <1>i DEF ReaderOK, PinOK, Readers
      <4>6. ASSUME NEW r \in Readers PROVE PinOK(r)'
        <5>1. ASSUME Enabled, rpc[r] = "pinned" PROVE \A b \in freed' : b <= rver[r]
          <6>1. cold[c] <= rver[r] /\ rver[r] \in Nat /\ cold[c] \in Nat
            BY <5>1, <4>5, <2>b, <1>u
          <6>2. \A b \in freed : b <= rver[r]
            BY <5>1, <1>i DEF ReaderOK, PinOK
          <6>3. ASSUME NEW b \in freed' PROVE b <= rver[r]
            <7>1. b \in Nat
              BY <1>t
            <7>2. b \in freed \/ b <= cold[c]
              BY <4>3
            <7>3. QED
              BY <7>1, <7>2, <6>1, <6>2
          <6>4. QED
            BY <6>3
        <5>2. QED
          BY <5>1, <4>1, <4>5, <2>a, <2>0, <1>i DEF ReaderOK, PinOK, Scanned, rdvars
      <4>7. QED
        BY <4>4, <4>6
    <3>4. QED
      BY <1>3, <3>1, <3>2, <3>3 DEF Collect
  <2>3. QED
    BY <1>0, <2>1, <2>2 DEF IInv, ReaderOK
<1>4. CASE UNCHANGED vars
  BY <1>4, <1>0, <1>i DEF vars, pubvars, rdvars, colvars, IInv, PublisherInv, Publishing,
     FreedInv, Scanned, InQueue, ReaderOK, CandidateOK, SlotOK, FreshOK, PinOK
<1>5. QED
  BY <1>1, <1>2, <1>3, <1>4 DEF Next

-----------------------------------------------------------------------------
LEMMA Invariance == Spec => []IInv
<1>1. IInv /\ [Next]_vars => IInv'
  BY InvStep
<1>2. QED
  BY InitIInv, <1>1, PTL DEF Spec

\* The published root is at least the published version, and both bound what
\* has been freed; a pinned reader's root is its version.
LEMMA Consequences ==
  IInv => PinnedSafe /\ ConsistentPair /\ FreshSnapshot /\ PublishedRootSafe
<1> SUFFICES ASSUME IInv
             PROVE  PinnedSafe /\ ConsistentPair /\ FreshSnapshot /\ PublishedRootSafe
  OBVIOUS
<1>1. PinnedSafe /\ ConsistentPair
  BY ModeAssumption
  DEF IInv, ReaderOK, CandidateOK, PinOK, PinnedSafe, ConsistentPair, Seqlocked
<1>2. FreshSnapshot
  BY DEF IInv, ReaderOK, FreshOK, FreshSnapshot, TypeOK, TypeReaders, Tickets
<1>3. PublishedRootSafe
  BY MaxAssumption DEF IInv, FreedInv, PublisherInv, PublishedRootSafe, TypeOK,
     TypePublisher, TypeQueue, Tickets
<1>4. QED
  BY <1>1, <1>2, <1>3

\* Types of the reclaimer's variables, for every number of readers, collectors
\* and tickets.
THEOREM TypeCorrect == Spec => []TypeOK
<1>1. IInv => TypeOK
  BY DEF IInv
<1>2. QED
  BY Invariance, <1>1, PTL

\* pin / oldest_active_reader_ / try_reclaim: no batch that a live guard's root
\* can reach is freed, however publications and scans interleave with the pin.
THEOREM NoUseAfterFree == Spec => []PinnedSafe
  BY Invariance, Consequences, PTL

\* pin / publish: a guard's root and version were published together.
THEOREM AtomicSnapshot == Spec => []ConsistentPair
  BY Invariance, Consequences, PTL

\* pin / n_committed_: a snapshot contains every ticket committed before the pin.
THEOREM SnapshotIsFresh == Spec => []FreshSnapshot
  BY Invariance, Consequences, PTL

\* try_reclaim never frees nodes of the published tree.
THEOREM PublishedTreeKept == Spec => []PublishedRootSafe
  BY Invariance, Consequences, PTL

-----------------------------------------------------------------------------
(***************************************************************************)
(* The queue and the collections.  Batches enter the queue in ticket order *)
(* and leave it at the front, so freed batches are older than queued ones. *)
(* Once a collection began without a guard alive, every slot it can meet   *)
(* belongs to a reader that came later, with a version that is not older   *)
(* than the prefix to be freed.                                            *)
(***************************************************************************)
Popping == \E c \in Collectors : cpc[c] = "pop"

HolderInv ==
  /\ \A c, d \in Collectors : InQueue(c) /\ InQueue(d) => c = d
  /\ Popping => retired # <<>> /\ retired[1] \in freed

QueueInv ==
  /\ HolderInv
  /\ \A i \in 1 .. Len(retired) : retired[i] <= executed
  /\ \A i, j \in 1 .. Len(retired) : i < j => retired[i] < retired[j]
  /\ \A b \in freed : b <= executed
  /\ \A b \in freed : \A i \in 1 .. Len(retired) :
       b < retired[i] \/ (Popping /\ i = 1 /\ b = retired[1])

ActiveSlot(r) ==
  slot[r] # INACTIVE =>
    /\ rpc[r] \in {"validate", "pinned", "withdraw"}
    /\ slot[r] = rver[r] /\ rstart[r] <= rver[r]

QuietCollection(c) ==
  cquiet[c] /\ cpc[c] # "idle" =>
    /\ csafe[c] <= committed
    /\ \A r \in Readers : rpc[r] # "idle" => csafe[c] <= rstart[r]
    /\ Scanned(c) => csafe[c] <= cold[c]

DrainInv ==
  /\ QueueInv
  /\ \A r \in Readers : ActiveSlot(r)
  /\ \A c \in Collectors : QuietCollection(c)

LEMMA InitDrainInv == Init => DrainInv
<1> SUFFICES ASSUME Init PROVE DrainInv
  OBVIOUS
<1>1. QueueInv
  BY DEF Init, QueueInv, HolderInv, Popping, InQueue
<1>2. \A r \in Readers : ActiveSlot(r)
  BY DEF Init, ActiveSlot
<1>3. \A c \in Collectors : QuietCollection(c)
  BY DEF Init, QuietCollection, Scanned
<1>4. QED
  BY <1>1, <1>2, <1>3 DEF DrainInv

\* Retire appends a newer batch; the collector that holds the mutex frees the front
\* and pops it; nothing else touches the queue, what is freed, or who holds the mutex.
LEMMA QueueStep == IInv /\ QueueInv /\ [Next]_vars => QueueInv'
<1> SUFFICES ASSUME IInv, QueueInv, [Next]_vars PROVE QueueInv'
  OBVIOUS
<1>0. /\ retired \in Seq(Nat) /\ freed \subseteq Nat /\ executed \in Nat
      /\ \A c \in Collectors : csafe[c] \in Nat /\ cold[c] \in Nat
  BY MaxAssumption
  DEF IInv, TypeOK, TypePublisher, TypeQueue, TypeCollectors, Tickets
<1>1. CASE Retire
  <2>1. executed' = executed + 1 /\ freed' = freed /\ cpc' = cpc /\ ~ Popping
    BY <1>1 DEF Retire, QueueFree, Popping, colvars
  <2>p. HolderInv' /\ ~ Popping'
    BY <2>1 DEF QueueInv, HolderInv, Popping, InQueue
  <2>2. CASE retired' = retired
    <3>1. \A i \in 1 .. Len(retired') : retired'[i] <= executed'
      <4>1. \A i \in 1 .. Len(retired) : retired[i] \in Nat
        BY <1>0
      <4>2. QED
        BY <4>1, <2>1, <2>2, <1>0 DEF QueueInv
    <3>2. \A i, j \in 1 .. Len(retired') : i < j => retired'[i] < retired'[j]
      BY <2>2 DEF QueueInv
    <3>3. \A b \in freed' : b <= executed'
      BY <2>1, <1>0 DEF QueueInv
    <3>4. \A b \in freed' : \A i \in 1 .. Len(retired') : b < retired'[i]
      BY <2>1, <2>2 DEF QueueInv
    <3>5. QED
      BY <2>p, <3>1, <3>2, <3>3, <3>4 DEF QueueInv
  <2>3. CASE retired' = Append(retired, executed + 1)
    <3>1. Len(retired') = Len(retired) + 1
      BY <2>3, <1>0
    <3>2. ASSUME NEW i \in 1 .. Len(retired')
          PROVE  retired'[i] = IF i = Len(retired) + 1 THEN executed + 1 ELSE retired[i]
      BY <2>3, <3>1, <1>0
    <3>3. ASSUME NEW i \in 1 .. Len(retired)
          PROVE  retired[i] \in Nat /\ retired[i] <= executed
      BY <1>0 DEF QueueInv
    <3>4. ASSUME NEW i \in 1 .. Len(retired')
          PROVE  retired'[i] <= executed'
      <4>1. CASE i = Len(retired) + 1
        <5>1. retired'[i] = executed + 1
          BY <4>1, <3>2
        <5>2. QED
          BY <5>1, <2>1, <1>0
      <4>2. CASE i # Len(retired) + 1
        <5>1. i \in 1 .. Len(retired)
          BY <4>2, <3>1, <1>0
        <5>2. retired'[i] = retired[i]
          BY <4>2, <3>2
        <5>3. retired[i] \in Nat /\ retired[i] <= executed
          BY <5>1, <3>3
        <5>4. QED
          BY <5>2, <5>3, <2>1, <1>0
      <4>3. QED
        BY <4>1, <4>2
    <3>5. ASSUME NEW i \in 1 .. Len(retired'), NEW j \in 1 .. Len(retired'), i < j
          PROVE  retired'[i] < retired'[j]
      <4>1. i \in 1 .. Len(retired) /\ retired'[i] = retired[i]
        BY <3>5, <3>1, <3>2, <1>0
      <4>2. CASE j = Len(retired) + 1
        <5>1. retired'[j] = executed + 1
          BY <4>2, <3>2
        <5>2. QED
          BY <5>1, <4>1, <3>3, <1>0
      <4>3. CASE j # Len(retired) + 1
        <5>1. j \in 1 .. Len(retired) /\ retired'[j] = retired[j]
          BY <4>3, <3>1, <3>2, <1>0
        <5>2. QED
          BY <5>1, <4>1, <3>5 DEF QueueInv
      <4>4. QED
        BY <4>2, <4>3
    <3>6. ASSUME NEW b \in freed'
          PROVE  b <= executed' /\ \A i \in 1 .. Len(retired') : b < retired'[i]
      <4>1. b \in Nat /\ b <= executed /\ \A i \in 1 .. Len(retired) : b < retired[i]
        BY <2>1, <1>0 DEF QueueInv
      <4>2. b < executed + 1 /\ b <= executed'
        BY <4>1, <2>1, <1>0
      <4>3. ASSUME NEW i \in 1 .. Len(retired') PROVE b < retired'[i]
        <5>1. CASE i = Len(retired) + 1
          BY <5>1, <3>2, <4>2
        <5>2. CASE i # Len(retired) + 1
          <6>1. i \in 1 .. Len(retired) /\ retired'[i] = retired[i]
            BY <5>2, <3>1, <3>2, <1>0
          <6>2. QED
            BY <6>1, <4>1
        <5>3. QED
          BY <5>1, <5>2
      <4>4. QED
        BY <4>2, <4>3
    <3>7. QED
      BY <2>p, <3>4, <3>5, <3>6 DEF QueueInv
  <2>4. QED
    BY <1>1, <2>2, <2>3 DEF Retire
<1>2. ASSUME NEW c \in Collectors, EnterQueue(c) \/ LeaveQueue(c) PROVE QueueInv'
  <2>1. UNCHANGED <<retired, freed, executed>>
    BY <1>2 DEF EnterQueue, LeaveQueue, pubvars
  <2>2. ~ Popping /\ ~ Popping' /\ HolderInv'
    <3> USE DEF IInv, TypeOK, TypeCollectors, Popping, InQueue
    <3>1. CASE EnterQueue(c)
      <4>1. \A d \in Collectors : ~ InQueue(d)
        BY <3>1 DEF EnterQueue, QueueFree
      <4>2. \A d \in Collectors : cpc'[d] = IF d = c THEN "front" ELSE cpc[d]
        BY <3>1 DEF EnterQueue
      <4>3. QED
        BY <4>1, <4>2 DEF HolderInv
    <3>2. CASE LeaveQueue(c)
      <4>1. \A d \in Collectors : InQueue(d) => d = c
        BY <3>2 DEF LeaveQueue, QueueInv, HolderInv
      <4>2. cpc[c] = "front" /\ \A d \in Collectors : cpc'[d] = IF d = c THEN "idle" ELSE cpc[d]
        BY <3>2 DEF LeaveQueue
      <4>3. QED
        BY <4>1, <4>2 DEF HolderInv
    <3>3. QED
      BY <1>2, <3>1, <3>2
  <2>3. QED
    BY <2>1, <2>2 DEF QueueInv
<1>3. ASSUME NEW c \in Collectors, FreeFront(c) PROVE QueueInv'
  <2>1. /\ retired' = retired /\ executed' = executed /\ retired # <<>>
        /\ freed' = freed \cup {retired[1]} /\ cpc[c] = "front"
        /\ \A d \in Collectors : cpc'[d] = IF d = c THEN "pop" ELSE cpc[d]
    BY <1>0, <1>3 DEF FreeFront, FrontSafe, pubvars, IInv, TypeOK, TypeCollectors
  <2>2. 1 \in 1 .. Len(retired)
    BY <2>1, <1>0
  <2>3. ~ Popping /\ Popping' /\ HolderInv'
    BY <2>1 DEF QueueInv, HolderInv, Popping, InQueue
  <2>4. ASSUME NEW b \in freed', NEW i \in 1 .. Len(retired')
        PROVE  b < retired'[i] \/ (i = 1 /\ b = retired'[1])
    <3>1. CASE b \in freed
      BY <3>1, <2>1, <2>3 DEF QueueInv
    <3>2. CASE b = retired[1]
      <4>1. i = 1 \/ 1 < i
        BY <2>1, <1>0
      <4>2. QED
        BY <4>1, <3>2, <2>1, <2>2 DEF QueueInv
    <3>3. QED
      BY <2>1, <2>4, <3>1, <3>2
  <2>5. \A b \in freed' : b <= executed'
    BY <2>1, <2>2 DEF QueueInv
  <2>6. QED
    BY <2>1, <2>3, <2>4, <2>5 DEF QueueInv
<1>4. ASSUME NEW c \in Collectors, PopFront(c) PROVE QueueInv'
  <2>1. /\ retired' = SubSeq(retired, 2, Len(retired))
        /\ UNCHANGED <<executed, freed>> /\ cpc[c] = "pop"
        /\ \A d \in Collectors : cpc'[d] = IF d = c THEN "front" ELSE cpc[d]
    BY <1>4 DEF PopFront, pubvars, IInv, TypeOK, TypeCollectors
  <2>2. HolderInv'
    BY <2>1 DEF QueueInv, HolderInv, Popping, InQueue
  <2>3. retired # <<>>
    BY <2>1 DEF QueueInv, HolderInv, Popping
  <2>4. Len(retired') = Len(retired) - 1
    BY <2>1, <2>3, <1>0
  <2>5. ASSUME NEW i \in 1 .. Len(retired')
        PROVE  i + 1 \in 1 .. Len(retired) /\ retired'[i] = retired[i + 1] /\ i + 1 # 1
    BY <2>1, <2>4, <1>0
  <2>6. \A i \in 1 .. Len(retired') : retired'[i] <= executed'
    BY <2>1, <2>5 DEF QueueInv
  <2>7. ASSUME NEW i \in 1 .. Len(retired'), NEW j \in 1 .. Len(retired'), i < j
        PROVE  retired'[i] < retired'[j]
    <3>1. i + 1 < j + 1
      BY <2>7, <2>4, <1>0
    <3>2. QED
      BY <3>1, <2>5 DEF QueueInv
  <2>8. ASSUME NEW b \in freed'
        PROVE  b <= executed' /\ \A i \in 1 .. Len(retired') : b < retired'[i]
    BY <2>1, <2>5 DEF QueueInv
  <2>9. QED
    BY <2>2, <2>6, <2>7, <2>8 DEF QueueInv
<1>5. ASSUME UNCHANGED <<retired, freed, executed>>,
             \A c \in Collectors : UNCHANGED (cpc[c] = "pop") /\ UNCHANGED InQueue(c)
      PROVE  QueueInv'
  <2>1. UNCHANGED Popping
    BY <1>5 DEF Popping
  <2>2. HolderInv'
    BY <1>5, <2>1 DEF QueueInv, HolderInv
  <2>3. QED
    BY <1>5, <2>1, <2>2 DEF QueueInv
<1>6. QED
  <2>1. CASE PublishBegin \/ PublishRoot \/ PublishVersion \/ PublishEnd \/ Commit
    BY <2>1, <1>5 DEF PublishBegin, PublishRoot, PublishVersion, PublishEnd, Commit,
                      InQueue, colvars
  <2>2. ASSUME NEW r \in Readers, PinStart(r) \/ Pin(r) \/ Unpin(r) PROVE QueueInv'
    BY <2>2, <1>5 DEF Pin, PinStart, PinSequence, PinRoot, PinVersion, PinAdvertise,
       PinValidate, PinWithdraw, Unpin, InQueue, pubvars, colvars
  <2>3. ASSUME NEW c \in Collectors, CollectStart(c) \/ ScanVersion(c) \/ ScanSlot(c)
        PROVE  QueueInv'
    <3>1. UNCHANGED <<retired, freed, executed>>
      BY <2>3 DEF CollectStart, ScanVersion, ScanSlot, pubvars
    <3>2. ASSUME NEW d \in Collectors
          PROVE  UNCHANGED (cpc[d] = "pop") /\ UNCHANGED InQueue(d)
      BY <2>3 DEF CollectStart, ScanVersion, ScanSlot, InQueue, IInv, TypeOK, TypeCollectors
    <3>3. QED
      BY <3>1, <3>2, <1>5
  <2>4. CASE UNCHANGED vars
    BY <2>4, <1>5 DEF vars, pubvars, colvars, InQueue
  <2>5. QED
    BY <1>1, <1>2, <1>3, <1>4, <2>1, <2>2, <2>3, <2>4 DEF Next, Publisher, Collect, Reclaim

\* A slot is written by its reader only, with the version it loaded after it began.
LEMMA ActiveSlotStep ==
  IInv /\ (\A r \in Readers : ActiveSlot(r)) /\ [Next]_vars => \A r \in Readers : ActiveSlot(r)'
<1> SUFFICES ASSUME IInv, \A r \in Readers : ActiveSlot(r), [Next]_vars,
                    NEW r \in Readers
             PROVE  ActiveSlot(r)'
  OBVIOUS
<1>1. CASE UNCHANGED <<slot[r], rpc[r], rver[r], rstart[r]>>
  BY <1>1 DEF ActiveSlot
<1>2. CASE PinStart(r) \/ Pin(r) \/ Unpin(r)
  <2> USE DEF ActiveSlot, IInv, TypeOK, TypeReaders
  <2>1. CASE PinStart(r)
    BY <2>1 DEF PinStart
  <2>2. CASE PinSequence(r) \/ PinRoot(r)
    BY <2>2 DEF PinSequence, PinRoot
  <2>3. CASE PinVersion(r)
    BY <2>3 DEF PinVersion
  <2>4. CASE PinAdvertise(r)
    BY <2>4 DEF PinAdvertise, ReaderOK, FreshOK
  <2>5. CASE PinValidate(r)
    BY <2>5 DEF PinValidate
  <2>6. CASE PinWithdraw(r) \/ Unpin(r)
    BY <2>6 DEF PinWithdraw, Unpin, Forget
  <2>7. QED
    BY <1>2, <2>1, <2>2, <2>3, <2>4, <2>5, <2>6 DEF Pin
<1>3. ASSUME NEW i \in Readers, i # r, PinStart(i) \/ Pin(i) \/ Unpin(i)
      PROVE  ActiveSlot(r)'
  BY <1>1, <1>3 DEF Pin, PinStart, PinSequence, PinRoot, PinVersion, PinAdvertise,
     PinValidate, PinWithdraw, Unpin, Forget, IInv, TypeOK, TypeReaders
<1>4. CASE UNCHANGED rdvars
  BY <1>4, <1>1 DEF rdvars
<1>5. QED
  <2>1. CASE Publisher
    BY <2>1, <1>4 DEF Publisher, Retire, PublishBegin, PublishRoot, PublishVersion,
                      PublishEnd, Commit
  <2>2. ASSUME NEW c \in Collectors, Collect(c) PROVE ActiveSlot(r)'
    BY <2>2, <1>4 DEF Collect, CollectStart, ScanVersion, ScanSlot, Reclaim, EnterQueue,
                      FreeFront, PopFront, LeaveQueue
  <2>3. CASE UNCHANGED vars
    BY <2>3, <1>4 DEF vars
  <2>4. QED
    BY <1>2, <1>3, <2>1, <2>2, <2>3 DEF Next

\* A collection's own steps, a reader that begins, a commit: each keeps what the
\* collection relies on.
LEMMA QuietStep ==
  ASSUME IInv, DrainInv, [Next]_vars, NEW c \in Collectors
  PROVE  QuietCollection(c)'
<1>0. /\ {committed, version, executed} \subseteq Nat
      /\ \A d \in Collectors : csafe[d] \in Nat /\ cold[d] \in Nat
      /\ \A r \in Readers : rstart[r] \in Nat /\ slot[r] \in Nat \cup {INACTIVE}
  BY PublishedTickets, InactiveIsNoTicket
  DEF IInv, TypeOK, TypeReaders, TypeCollectors, Tickets
<1>1. QuietCollection(c) /\ \A r \in Readers : ActiveSlot(r)
  BY DEF DrainInv
<1>2. CASE Publisher
  <2>1. UNCHANGED rdvars /\ UNCHANGED colvars
    BY <1>2 DEF Publisher, Retire, PublishBegin, PublishRoot, PublishVersion, PublishEnd,
                Commit
  <2>2. committed <= committed' /\ committed' \in Nat
    BY <1>2, <1>0 DEF Publisher, Retire, PublishBegin, PublishRoot, PublishVersion,
       PublishEnd, Commit, IInv, PublisherInv
  <2>3. QED
    BY <2>1, <2>2, <1>0, <1>1 DEF QuietCollection, Scanned, rdvars, colvars
<1>3. ASSUME NEW r \in Readers, PinStart(r) \/ Pin(r) \/ Unpin(r)
      PROVE  QuietCollection(c)'
  <2>1. UNCHANGED colvars /\ committed' = committed
    BY <1>3 DEF PinStart, Pin, Unpin, PinSequence, PinRoot, PinVersion, PinAdvertise,
                PinValidate, PinWithdraw, pubvars
  <2>2. ASSUME NEW i \in Readers, rpc'[i] # "idle"
        PROVE  (rpc[i] # "idle" /\ rstart'[i] = rstart[i]) \/ rstart'[i] = committed
    BY <1>3, <2>2 DEF PinStart, Pin, Unpin, PinSequence, PinRoot, PinVersion, PinAdvertise,
       PinValidate, PinWithdraw, IInv, TypeOK, TypeReaders
  <2>3. QED
    BY <2>1, <2>2, <1>1 DEF QuietCollection, Scanned, colvars
<1>4. ASSUME NEW d \in Collectors, d # c, Collect(d) PROVE QuietCollection(c)'
  <2>1. UNCHANGED pubvars /\ UNCHANGED rdvars
    BY <1>4 DEF Collect, CollectStart, ScanVersion, ScanSlot, Reclaim, EnterQueue,
                FreeFront, PopFront, LeaveQueue
  <2>2. UNCHANGED <<cpc[c], csafe[c], cold[c], cquiet[c]>>
    BY <1>4 DEF Collect, CollectStart, ScanVersion, ScanSlot, Reclaim, EnterQueue,
       FreeFront, PopFront, LeaveQueue, IInv, TypeOK, TypeCollectors
  <2>3. QED
    BY <2>1, <2>2, <1>1 DEF QuietCollection, Scanned, pubvars, rdvars
<1>5. CASE Collect(c)
  <2>1. UNCHANGED pubvars /\ UNCHANGED rdvars
    BY <1>5 DEF Collect, CollectStart, ScanVersion, ScanSlot, Reclaim, EnterQueue,
                FreeFront, PopFront, LeaveQueue
  <2>2. CASE CollectStart(c)
    <3>1. /\ csafe'[c] = committed /\ cpc'[c] = "oldest"
          /\ cquiet'[c] => \A r \in Readers : rpc[r] = "idle"
      BY <2>2 DEF CollectStart, IInv, TypeOK, TypeCollectors
    <3>2. QED
      BY <3>1, <2>1, <1>0 DEF QuietCollection, Scanned, pubvars, rdvars
  <2>3. CASE ScanVersion(c)
    <3>1. /\ cold'[c] = version /\ cpc[c] = "oldest"
          /\ UNCHANGED <<csafe, cquiet>>
      BY <2>3 DEF ScanVersion, IInv, TypeOK, TypeCollectors
    <3>2. committed <= version
      BY DEF IInv, PublisherInv
    <3>3. QED
      BY <3>1, <3>2, <2>1, <1>0, <1>1 DEF QuietCollection, Scanned, pubvars, rdvars
  <2>4. CASE ScanSlot(c)
    <3>1. /\ cpc[c] = "scan" /\ UNCHANGED <<cpc, csafe, cquiet>>
          /\ cidx[c] \in Readers
          /\ cold'[c] = IF slot[cidx[c]] # INACTIVE THEN Lower(cold[c], slot[cidx[c]])
                        ELSE cold[c]
      BY <2>4, ReadersAssumption DEF ScanSlot, IInv, TypeOK, TypeCollectors, Readers
    <3>2. ASSUME cquiet[c], slot[cidx[c]] # INACTIVE
          PROVE  csafe[c] <= slot[cidx[c]] /\ slot[cidx[c]] \in Nat
      <4>1. csafe[c] <= rstart[cidx[c]] /\ rstart[cidx[c]] <= slot[cidx[c]]
        BY <3>1, <3>2, <1>1 DEF QuietCollection, ActiveSlot
      <4>2. QED
        BY <4>1, <3>1, <3>2, <1>0
    <3>3. cquiet[c] => csafe[c] <= cold'[c]
      BY <3>1, <3>2, <1>0, <1>1 DEF QuietCollection, Scanned, Lower
    <3>4. QED
      BY <3>1, <3>3, <2>1, <1>1 DEF QuietCollection, Scanned, pubvars, rdvars
  <2>5. CASE Reclaim(c)
    <3>1. CASE LeaveQueue(c)
      BY <3>1 DEF LeaveQueue, QuietCollection, IInv, TypeOK, TypeCollectors
    <3>2. CASE EnterQueue(c) \/ FreeFront(c) \/ PopFront(c)
      <4>1. Scanned(c) /\ UNCHANGED <<csafe, cold, cquiet>>
        BY <3>2 DEF EnterQueue, FreeFront, PopFront, Scanned
      <4>2. QED
        BY <4>1, <2>1, <1>1 DEF QuietCollection, Scanned, pubvars, rdvars
    <3>3. QED
      BY <2>5, <3>1, <3>2 DEF Reclaim
  <2>6. QED
    BY <1>5, <2>2, <2>3, <2>4, <2>5 DEF Collect
<1>6. CASE UNCHANGED vars
  BY <1>6, <1>1 DEF vars, pubvars, rdvars, colvars, QuietCollection, Scanned
<1>7. QED
  BY <1>2, <1>3, <1>4, <1>5, <1>6 DEF Next

LEMMA DrainInvariance == Spec => [](IInv /\ DrainInv)
<1>1. IInv /\ DrainInv /\ [Next]_vars => IInv' /\ DrainInv'
  BY InvStep, QueueStep, ActiveSlotStep, QuietStep DEF DrainInv
<1>2. QED
  BY InitIInv, InitDrainInv, <1>1, PTL DEF Spec

\* Only the last step of a collector's critical section makes it idle, and only
\* FreeFront takes it from the front to the pop.
LEMMA QueueSteps ==
  ASSUME IInv, [Next]_vars, NEW c \in Collectors, cpc[c] = "front"
  PROVE  /\ cpc'[c] = "idle" => LeaveQueue(c)
         /\ cpc'[c] = "pop" => FreeFront(c)
<1>1. cpc' = cpc => cpc'[c] = "front"
  OBVIOUS
<1>2. CASE Publisher
  BY <1>1, <1>2 DEF Publisher, Retire, PublishBegin, PublishRoot, PublishVersion,
                    PublishEnd, Commit, colvars
<1>3. ASSUME NEW r \in Readers, PinStart(r) \/ Pin(r) \/ Unpin(r)
      PROVE  cpc' = cpc
  BY <1>3 DEF PinStart, Pin, Unpin, PinSequence, PinRoot, PinVersion, PinAdvertise,
              PinValidate, PinWithdraw, colvars
<1>4. ASSUME NEW d \in Collectors, d # c, Collect(d)
      PROVE  cpc'[c] = "front"
  BY <1>4 DEF Collect, CollectStart, ScanVersion, ScanSlot, Reclaim, EnterQueue, FreeFront,
              PopFront, LeaveQueue, IInv, TypeOK, TypeCollectors
<1>5. CASE Collect(c)
  <2>1. FreeFront(c) \/ LeaveQueue(c)
    BY <1>5 DEF Collect, CollectStart, ScanVersion, ScanSlot, Reclaim, EnterQueue, PopFront
  <2>2. /\ FreeFront(c) => cpc'[c] = "pop"
        /\ LeaveQueue(c) => cpc'[c] = "idle"
    BY DEF FreeFront, LeaveQueue, IInv, TypeOK, TypeCollectors
  <2>3. QED
    BY <2>1, <2>2
<1>6. CASE UNCHANGED vars
  BY <1>1, <1>6 DEF vars, colvars
<1>7. QED
  BY <1>1, <1>2, <1>3, <1>4, <1>5, <1>6 DEF Next

\* retire / try_reclaim: the queue is in ticket order, its users exclude each other
\* and only the batch about to be popped is both freed and queued, so no batch is
\* freed twice and none is popped unfreed.
THEOREM NoDoubleFree == Spec => FreedOnce
<1>1. IInv /\ DrainInv /\ [Next]_vars
        => [\A c \in Collectors :
              /\ cpc[c] = "front" /\ cpc'[c] = "pop" => Head(retired) \notin freed
              /\ cpc[c] = "pop" /\ cpc'[c] = "front"
                   => retired # <<>> /\ Head(retired) \in freed]_vars
  <2> SUFFICES ASSUME IInv, DrainInv, [Next]_vars, NEW c \in Collectors
               PROVE  /\ cpc[c] = "front" /\ cpc'[c] = "pop" => Head(retired) \notin freed
                      /\ cpc[c] = "pop" /\ cpc'[c] = "front"
                           => retired # <<>> /\ Head(retired) \in freed
    OBVIOUS
  <2>0. retired \in Seq(Nat)
    BY MaxAssumption DEF IInv, TypeOK, TypeQueue, Tickets
  <2>1. QueueInv
    BY DEF DrainInv
  <2>2. ASSUME cpc[c] = "front", cpc'[c] = "pop" PROVE Head(retired) \notin freed
    <3>1. retired # <<>>
      BY <2>2, QueueSteps DEF FreeFront, FrontSafe
    <3>2. 1 \in 1 .. Len(retired) /\ Head(retired) = retired[1] /\ retired[1] \in Nat
      BY <3>1, <2>0
    <3>3. ~ Popping
      BY <2>1, <2>2 DEF QueueInv, HolderInv, Popping, InQueue
    <3>4. retired[1] \in freed => retired[1] < retired[1]
      BY <2>1, <3>2, <3>3 DEF QueueInv
    <3>5. QED
      BY <3>2, <3>4
  <2>3. ASSUME cpc[c] = "pop" PROVE retired # <<>> /\ Head(retired) \in freed
    BY <2>0, <2>1, <2>3 DEF QueueInv, HolderInv, Popping
  <2>4. QED
    BY <2>2, <2>3
<1>2. QED
  BY DrainInvariance, <1>1, PTL DEF Spec, FreedOnce

\* collect_garbage: a collection that began with no guard alive frees the whole
\* committed prefix it started from, whoever pins in the meantime.
THEOREM QuietCollectionDrains == Spec => QuietCollectDrains
<1>1. IInv /\ DrainInv /\ [Next]_vars
        => [\A c \in Collectors :
              cpc[c] = "front" /\ cpc'[c] = "idle" /\ cquiet[c]
                => \A i \in 1 .. Len(retired') : retired'[i] > csafe[c]]_vars
  <2> SUFFICES ASSUME IInv, DrainInv, [Next]_vars, NEW c \in Collectors,
                      cpc[c] = "front", cpc'[c] = "idle", cquiet[c],
                      NEW i \in 1 .. Len(retired')
               PROVE  retired'[i] > csafe[c]
    OBVIOUS
  <2>0. retired \in Seq(Nat) /\ csafe[c] \in Nat /\ cold[c] \in Nat
    BY MaxAssumption DEF IInv, TypeOK, TypeQueue, TypeCollectors, Tickets
  <2>1. retired' = retired /\ ~ FrontSafe(c)
    BY QueueSteps DEF LeaveQueue
  <2>2. Safe(c) = csafe[c]
    BY <2>0 DEF DrainInv, QuietCollection, Scanned, Safe, Lower
  <2>3. /\ i \in 1 .. Len(retired) /\ 1 \in 1 .. Len(retired) /\ retired # <<>>
        /\ retired[1] \in Nat /\ retired[i] \in Nat /\ Head(retired) = retired[1]
    BY <2>0, <2>1
  <2>4. csafe[c] < retired[1]
    BY <2>0, <2>1, <2>2, <2>3 DEF FrontSafe
  <2>5. i = 1 \/ 1 < i
    BY <2>3
  <2>6. retired[1] <= retired[i]
    BY <2>3, <2>5 DEF DrainInv, QueueInv
  <2>7. QED
    BY <2>0, <2>1, <2>3, <2>4, <2>6
<1>2. QED
  BY DrainInvariance, <1>1, PTL DEF Spec, QuietCollectDrains
=============================================================================
