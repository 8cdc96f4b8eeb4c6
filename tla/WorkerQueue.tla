------------------------------ MODULE WorkerQueue ------------------------------
(***************************************************************************)
(* What lib/conctrl/mpsc_list.hpp promises the controllers that use it for *)
(* idle workers: a first-in first-out queue.  Workers put themselves in;   *)
(* the exit of the pipeline takes the oldest one out, or fails to.         *)
(***************************************************************************)
EXTENDS Sequences
CONSTANT Workers
VARIABLE queue

Init == queue = <<>>
Push(w) == queue' = Append(queue, w)
Pop == queue # <<>> /\ queue' = Tail(queue)
Next == Pop \/ \E w \in Workers : Push(w)
Spec == Init /\ [][Next]_queue
=============================================================================
