----------------------------- MODULE MCConcowFat -----------------------------
(* Instances of ConcowFat for TLC: trees that build() makes of 2 .. n. *)
EXTENDS ConcowFat
From2To(n) == [i \in 1 .. n - 1 |-> i + 1]
CONSTANTS c1, c2
Setup(clients, calls, queue, slots, replace, n, writes) ==
  [clients |-> clients, calls |-> calls, queue_capacity |-> queue, batch_size |-> queue,
   slots |-> slots, parallel_materialization |-> replace, contents |-> From2To(n), writes |-> writes]
\* One client, each kind of wave, on leaves 2 3, 4 5 and 6 7 8; and two clients
\* that fill the queue and wait, on a full leaf.
AllSetups ==
  {Setup({c1}, {"update"}, 3, slots, replace, 8, {0, 1, 9}) : slots \in {0, 1}, replace \in BOOLEAN} \cup
  {Setup({c1, c2}, {"update", "await"}, 2, 1, replace, 4, {0}) : replace \in BOOLEAN}
SomeWorker == Permutations(Workers)
==============================================================================
