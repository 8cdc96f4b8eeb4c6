------------------------------ MODULE Reclaimer ------------------------------
(***************************************************************************)
(* Reader-version based reclamation (lib/conctrl/reclamation.hpp).         *)
(*                                                                         *)
(* One thread executes tickets 1, 2, ... : it retires the nodes a ticket   *)
(* replaced, publishes the root of the last ticket of a run together with  *)
(* its version, and advertises that ticket as committed.  Readers pin a    *)
(* published root; collectors free retired batches.  Every atomic load or  *)
(* store of the code on a shared variable is a step of its own.            *)
(*                                                                         *)
(* A root is named by the ticket that built it.  A retired batch is named  *)
(* by the ticket that retired it: its nodes may be reachable from every    *)
(* root older than the ticket and are unreachable from all other roots.    *)
(***************************************************************************)
EXTENDS Integers, Sequences

CONSTANTS
  NReaders,    \* reader slots, n_readers_
  Owner,       \* the thread that publishes (and collects after publishing)
  Others,      \* further threads that may call try_reclaim (none if SingleOwner)
  MaxTicket,   \* bound on the tickets executed
  Enabled,     \* enabled_: garbage collection on
  Consistent   \* consistent_snapshot_ requested by a fat-node tree

ASSUME ReadersAssumption == NReaders \in Nat
ASSUME OwnerAssumption   == Owner \notin Others
ASSUME MaxAssumption     == MaxTicket \in Nat
ASSUME ModeAssumption    == Enabled \in BOOLEAN /\ Consistent \in BOOLEAN

VARIABLES
  sequence,    \* published_sequence_
  root,        \* published_root_
  version,     \* published_version_
  committed,   \* n_committed_ of the controller
  executed,    \* last ticket retired by the publishing thread
  ppc,         \* where the publishing thread is
  slot,        \* readers_[r].version
  rpc,         \* where reader r is
  rseq,        \* the sequence reader r loaded first
  rroot, rver, \* its candidate snapshot
  rstart,      \* history: what was committed when r entered pin
  retired,     \* retired_: the queue of batches not yet freed
  freed,       \* history: the batches freed
  cpc,         \* where collector c is
  csafe,       \* writer_safe_version passed to try_reclaim
  cold,        \* running minimum of oldest_active_reader_
  cidx,        \* next reader slot it loads
  cquiet       \* history: no reader held a guard when c began

pubvars == <<sequence, root, version, committed, executed, ppc>>
rdvars  == <<slot, rpc, rseq, rroot, rver, rstart>>
colvars == <<cpc, csafe, cold, cidx, cquiet>>
vars    == <<pubvars, rdvars, retired, freed, colvars>>

Readers    == 0 .. NReaders - 1
Collectors == {Owner} \cup Others
Tickets    == 0 .. MaxTicket
INACTIVE   == MaxTicket + 1   \* UINT64_MAX: above every version
Seqlocked  == Enabled \/ Consistent   \* the member consistent_snapshot_
Lower(a, b) == IF a <= b THEN a ELSE b

Init ==
  /\ sequence = 0 /\ root = 0 /\ version = 0
  /\ committed = 0 /\ executed = 0 /\ ppc = "idle"
  /\ slot = [r \in Readers |-> INACTIVE]
  /\ rpc = [r \in Readers |-> "idle"]
  /\ rseq = [r \in Readers |-> 0]
  /\ rroot = [r \in Readers |-> 0]
  /\ rver = [r \in Readers |-> 0]
  /\ rstart = [r \in Readers |-> 0]
  /\ retired = <<>> /\ freed = {}
  /\ cpc = [c \in Collectors |-> "idle"]
  /\ csafe = [c \in Collectors |-> 0]
  /\ cold = [c \in Collectors |-> 0]
  /\ cidx = [c \in Collectors |-> 0]
  /\ cquiet = [c \in Collectors |-> FALSE]

-----------------------------------------------------------------------------
(* Defective variants of the actions below, each a bug the code could have; *)
(* Next uses none of them.  They show that the properties notice the bug.   *)

\* n_committed_ stored with each ticket instead of after publish().
Retire_CommitFirst ==
  /\ ppc \in {"idle", "run"} /\ cpc[Owner] = "idle" /\ executed < MaxTicket
  /\ executed' = executed + 1 /\ committed' = executed + 1
  /\ ppc' = "run"
  /\ retired' = IF Enabled THEN Append(retired, executed + 1) ELSE retired
  /\ UNCHANGED <<sequence, root, version, rdvars, freed, colvars>>

\* The second increment of published_sequence_ forgotten.
PublishEnd_NoIncrement ==
  /\ ppc = "end" /\ ppc' = "commit"
  /\ UNCHANGED <<sequence, root, version, committed, executed, rdvars, retired,
                 freed, colvars>>

\* The test of the low bit dropped.
PinSequence_Odd(r) ==
  /\ rpc[r] = "sequence"
  /\ rseq' = [rseq EXCEPT ![r] = sequence]
  /\ rpc' = [rpc EXCEPT ![r] = "root"]
  /\ UNCHANGED <<pubvars, slot, rroot, rver, rstart, retired, freed, colvars>>

\* The snapshot used without loading the sequence again.
PinValidate_Never(r) ==
  /\ rpc[r] = "validate"
  /\ rpc' = [rpc EXCEPT ![r] = "pinned"]
  /\ UNCHANGED <<pubvars, slot, rseq, rroot, rver, rstart, retired, freed, colvars>>

\* The guard destroyed without clearing the reader's slot.
Unpin_SlotKept(r) ==
  /\ rpc[r] = "pinned"
  /\ rpc' = [rpc EXCEPT ![r] = "idle"]
  /\ UNCHANGED <<pubvars, slot, rseq, rroot, rver, rstart, retired, freed, colvars>>

\* n_committed_ stored as the number of the next ticket.
Commit_Next ==
  /\ ppc = "commit"
  /\ committed' = executed + 1
  /\ ppc' = "idle"
  /\ UNCHANGED <<sequence, root, version, executed, rdvars, retired, freed, colvars>>

\* The queue used without its mutex.
QueueFree_Always == TRUE

-----------------------------------------------------------------------------
(* The publishing thread: retire for each ticket of a run, then publish.   *)

\* access_retired_: no collector holds retired_mutex_.  With SingleOwner there is
\* no mutex, and no other collector either.
QueueFree == \A c \in Collectors : cpc[c] \notin {"front", "pop"}

\* retire(): a batch without nodes is not queued; nor is any when disabled.
Retire ==
  /\ ppc \in {"idle", "run"} /\ cpc[Owner] = "idle" /\ executed < MaxTicket /\ QueueFree
  /\ executed' = executed + 1
  /\ ppc' = "run"
  /\ \/ Enabled /\ retired' = Append(retired, executed + 1)
     \/ retired' = retired
  /\ UNCHANGED <<sequence, root, version, committed, rdvars, freed, colvars>>

PublishBegin ==
  /\ ppc = "run"
  /\ sequence' = IF Seqlocked THEN sequence + 1 ELSE sequence
  /\ ppc' = "root"
  /\ UNCHANGED <<root, version, committed, executed, rdvars, retired, freed, colvars>>

PublishRoot ==
  /\ ppc = "root"
  /\ root' = executed
  /\ ppc' = "version"
  /\ UNCHANGED <<sequence, version, committed, executed, rdvars, retired, freed, colvars>>

PublishVersion ==
  /\ ppc = "version"
  /\ version' = executed
  /\ ppc' = "end"
  /\ UNCHANGED <<sequence, root, committed, executed, rdvars, retired, freed, colvars>>

PublishEnd ==
  /\ ppc = "end"
  /\ sequence' = IF Seqlocked THEN sequence + 1 ELSE sequence
  /\ ppc' = "commit"
  /\ UNCHANGED <<root, version, committed, executed, rdvars, retired, freed, colvars>>

\* The controller stores n_committed_ after publish() returned.
Commit ==
  /\ ppc = "commit"
  /\ committed' = executed
  /\ ppc' = "idle"
  /\ UNCHANGED <<sequence, root, version, executed, rdvars, retired, freed, colvars>>

-----------------------------------------------------------------------------
(* Readers: pin() retries until the sequence is even and unchanged.        *)

\* The candidate snapshot goes out of scope.
Forget(r) ==
  /\ rseq' = [rseq EXCEPT ![r] = 0]
  /\ rroot' = [rroot EXCEPT ![r] = 0]
  /\ rver' = [rver EXCEPT ![r] = 0]

PinStart(r) ==
  /\ rpc[r] = "idle"
  /\ rpc' = [rpc EXCEPT ![r] = IF Seqlocked THEN "sequence" ELSE "root"]
  /\ rstart' = [rstart EXCEPT ![r] = committed]
  /\ UNCHANGED <<pubvars, slot, rseq, rroot, rver, retired, freed, colvars>>

\* An odd sequence is loaded again: the reader stays where it is.
PinSequence(r) ==
  /\ rpc[r] = "sequence" /\ sequence % 2 = 0
  /\ rseq' = [rseq EXCEPT ![r] = sequence]
  /\ rpc' = [rpc EXCEPT ![r] = "root"]
  /\ UNCHANGED <<pubvars, slot, rroot, rver, rstart, retired, freed, colvars>>

PinRoot(r) ==
  /\ rpc[r] = "root"
  /\ rroot' = [rroot EXCEPT ![r] = root]
  /\ rpc' = [rpc EXCEPT ![r] = "version"]
  /\ UNCHANGED <<pubvars, slot, rseq, rver, rstart, retired, freed, colvars>>

PinVersion(r) ==
  /\ rpc[r] = "version"
  /\ rver' = [rver EXCEPT ![r] = version]
  /\ rpc' = [rpc EXCEPT ![r] = IF Seqlocked THEN "advertise" ELSE "pinned"]
  /\ UNCHANGED <<pubvars, slot, rseq, rroot, rstart, retired, freed, colvars>>

PinAdvertise(r) ==
  /\ rpc[r] = "advertise"
  /\ slot' = IF Enabled THEN [slot EXCEPT ![r] = rver[r]] ELSE slot
  /\ rpc' = [rpc EXCEPT ![r] = "validate"]
  /\ UNCHANGED <<pubvars, rseq, rroot, rver, rstart, retired, freed, colvars>>

PinValidate(r) ==
  /\ rpc[r] = "validate"
  /\ rpc' = [rpc EXCEPT ![r] = IF sequence = rseq[r] THEN "pinned" ELSE "withdraw"]
  /\ UNCHANGED <<pubvars, slot, rseq, rroot, rver, rstart, retired, freed, colvars>>

PinWithdraw(r) ==
  /\ rpc[r] = "withdraw"
  /\ slot' = [slot EXCEPT ![r] = INACTIVE]
  /\ rpc' = [rpc EXCEPT ![r] = "sequence"]
  /\ Forget(r)
  /\ UNCHANGED <<pubvars, rstart, retired, freed, colvars>>

\* ~read_guard
Unpin(r) ==
  /\ rpc[r] = "pinned"
  /\ slot' = [slot EXCEPT ![r] = INACTIVE]
  /\ rpc' = [rpc EXCEPT ![r] = "idle"]
  /\ Forget(r)
  /\ rstart' = [rstart EXCEPT ![r] = 0]
  /\ UNCHANGED <<pubvars, retired, freed, colvars>>

-----------------------------------------------------------------------------
(* Collectors: try_reclaim(n_committed_).                                  *)

\* The owner collects between two runs; any other thread at any time.
CollectStart(c) ==
  /\ Enabled /\ cpc[c] = "idle"
  /\ c = Owner => ppc = "idle"
  /\ csafe' = [csafe EXCEPT ![c] = committed]
  /\ cquiet' = [cquiet EXCEPT ![c] = \A r \in Readers : rpc[r] = "idle"]
  /\ cpc' = [cpc EXCEPT ![c] = "oldest"]
  /\ UNCHANGED <<pubvars, rdvars, retired, freed, cold, cidx>>

ScanVersion(c) ==
  /\ cpc[c] = "oldest"
  /\ cold' = [cold EXCEPT ![c] = version]
  /\ cidx' = [cidx EXCEPT ![c] = 0]
  /\ cpc' = [cpc EXCEPT ![c] = "scan"]
  /\ UNCHANGED <<pubvars, rdvars, retired, freed, csafe, cquiet>>

ScanSlot(c) ==
  /\ cpc[c] = "scan" /\ cidx[c] < NReaders
  /\ cold' = [cold EXCEPT ![c] =
       IF slot[cidx[c]] # INACTIVE THEN Lower(cold[c], slot[cidx[c]]) ELSE cold[c]]
  /\ cidx' = [cidx EXCEPT ![c] = @ + 1]
  /\ UNCHANGED <<pubvars, rdvars, retired, freed, cpc, csafe, cquiet>>

\* access_retired_: take the mutex.
EnterQueue(c) ==
  /\ cpc[c] = "scan" /\ cidx[c] = NReaders /\ QueueFree
  /\ cpc' = [cpc EXCEPT ![c] = "front"]
  /\ UNCHANGED <<pubvars, rdvars, retired, freed, csafe, cold, cidx, cquiet>>

Safe(c) == Lower(csafe[c], cold[c])

\* Equality is safe: a reader pinned at the retirement version starts at the first
\* root that no longer reaches the batch.
FrontSafe(c) == retired # <<>> /\ Head(retired) <= Safe(c)

\* The nodes of the front batch are freed, ...
FreeFront(c) ==
  /\ cpc[c] = "front" /\ FrontSafe(c)
  /\ freed' = freed \cup {Head(retired)}
  /\ cpc' = [cpc EXCEPT ![c] = "pop"]
  /\ UNCHANGED <<pubvars, rdvars, retired, csafe, cold, cidx, cquiet>>

\* ... and then it leaves the queue.
PopFront(c) ==
  /\ cpc[c] = "pop"
  /\ retired' = SubSeq(retired, 2, Len(retired))
  /\ cpc' = [cpc EXCEPT ![c] = "front"]
  /\ UNCHANGED <<pubvars, rdvars, freed, csafe, cold, cidx, cquiet>>

\* The queue is empty or its front is not safe yet: release the mutex.
LeaveQueue(c) ==
  /\ cpc[c] = "front" /\ ~ FrontSafe(c)
  /\ cpc' = [cpc EXCEPT ![c] = "idle"]
  /\ csafe' = [csafe EXCEPT ![c] = 0]
  /\ cold' = [cold EXCEPT ![c] = 0]
  /\ cidx' = [cidx EXCEPT ![c] = 0]
  /\ cquiet' = [cquiet EXCEPT ![c] = FALSE]
  /\ UNCHANGED <<pubvars, rdvars, retired, freed>>

-----------------------------------------------------------------------------
Publisher ==
  \/ Retire \/ PublishBegin \/ PublishRoot \/ PublishVersion \/ PublishEnd \/ Commit

Pin(r) ==
  \/ PinSequence(r) \/ PinRoot(r) \/ PinVersion(r)
  \/ PinAdvertise(r) \/ PinValidate(r) \/ PinWithdraw(r)

Reclaim(c) == EnterQueue(c) \/ FreeFront(c) \/ PopFront(c) \/ LeaveQueue(c)

Collect(c) == CollectStart(c) \/ ScanVersion(c) \/ ScanSlot(c) \/ Reclaim(c)

Next ==
  \/ Publisher
  \/ \E r \in Readers : PinStart(r) \/ Pin(r) \/ Unpin(r)
  \/ \E c \in Collectors : Collect(c)

Spec == Init /\ [][Next]_vars

\* publish() and pin() are loops of the running threads without blocking calls.
Fairness ==
  /\ WF_vars(PublishRoot \/ PublishVersion \/ PublishEnd)
  /\ \A r \in Readers : WF_vars(Pin(r))

FairSpec == Spec /\ Fairness

-----------------------------------------------------------------------------
\* Types of the shared variables, the threads' locals and their positions: what is
\* published or committed names a ticket that was executed.
TypePublisher ==
  /\ sequence \in Nat /\ executed \in Tickets
  /\ {root, version, committed} \subseteq 0 .. executed
  /\ ppc \in {"idle", "run", "root", "version", "end", "commit"}

TypeReaders ==
  /\ slot \in [Readers -> Tickets \cup {INACTIVE}]
  /\ rpc \in [Readers -> {"idle", "sequence", "root", "version", "advertise",
                          "validate", "withdraw", "pinned"}]
  /\ rseq \in [Readers -> Nat]
  /\ rroot \in [Readers -> Tickets] /\ rver \in [Readers -> Tickets]
  /\ rstart \in [Readers -> Tickets]

TypeQueue == retired \in Seq(Tickets) /\ freed \subseteq Tickets

TypeCollectors ==
  /\ cpc \in [Collectors -> {"idle", "oldest", "scan", "front", "pop"}]
  /\ csafe \in [Collectors -> Tickets] /\ cold \in [Collectors -> Tickets]
  /\ cidx \in [Collectors -> 0 .. NReaders]
  /\ cquiet \in [Collectors -> BOOLEAN]

TypeOK == TypePublisher /\ TypeReaders /\ TypeQueue /\ TypeCollectors

\* No use after free: as long as a guard returned by pin() lives, no batch that
\* its root can still reach has been freed, whatever publication and scans ran
\* between the reader's loads (pin, oldest_active_reader_, try_reclaim).
PinnedSafe ==
  \A r \in Readers : rpc[r] = "pinned" /\ Enabled => \A b \in freed : b <= rroot[r]

\* A guard's root and version were published together ("Fat-node readers need
\* an atomic root/version pair even without freeing").
ConsistentPair ==
  \A r \in Readers : rpc[r] = "pinned" /\ Seqlocked => rroot[r] = rver[r]

\* Whoever saw wait_for_processing(n) return and then queries reads a snapshot
\* that contains ticket n.
FreshSnapshot ==
  \A r \in Readers : rpc[r] = "pinned" => rver[r] >= rstart[r] /\ rroot[r] >= rstart[r]

\* A batch whose nodes the published root still reaches is never freed, so the
\* next pin and the next ticket start from a whole tree.
PublishedRootSafe == \A b \in freed : b <= root

\* No double free and no leak by two collectors, or a collector and retire(), in
\* the queue at once: the batch whose nodes a collector frees was freed by nobody
\* before, and the one that it pops afterwards is that batch.
FreedOnce ==
  [][\A c \in Collectors :
       /\ cpc[c] = "front" /\ cpc'[c] = "pop" => Head(retired) \notin freed
       /\ cpc[c] = "pop" /\ cpc'[c] = "front" => retired # <<>> /\ Head(retired) \in freed]_vars

\* A collection that began when no guard was alive frees every batch of the
\* committed prefix it started from, although new readers may pin during the
\* scan ("unpin followed by collect_garbage() must be reflected in the
\* acknowledged collection").
QuietCollectDrains ==
  [][\A c \in Collectors :
       cpc[c] = "front" /\ cpc'[c] = "idle" /\ cquiet[c]
         => \A i \in 1 .. Len(retired') : retired'[i] > csafe[c]]_vars

\* pin() cannot be refused for ever: every publication leaves the sequence even,
\* and a reader whose validation failed gets its snapshot from a later attempt.
PinCompletes == \A r \in Readers : rpc[r] = "sequence" ~> rpc[r] = "pinned"

=============================================================================
