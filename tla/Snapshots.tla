------------------------------ MODULE Snapshots ------------------------------
(***************************************************************************)
(* What every controller of lib/conctrl promises: tickets are numbered in  *)
(* the order of their submission, versions are published in that order     *)
(* (perhaps several tickets at once), and the snapshot of a version v that *)
(* was published holds for ever what executing tickets 1 .. v one by one   *)
(* gives.  Ticket t writes value t, so a snapshot tells which update each  *)
(* key was last written by.                                                *)
(***************************************************************************)
EXTENDS Naturals, Sequences

VARIABLES
  start,    \* the initial contents: a value for each key
  log,      \* the key of each ticket submitted
  version,  \* the last version published
  views     \* the snapshot of each version published

Executed(n) ==
  [k \in DOMAIN start |->
     IF \E t \in 1 .. n : log[t] = k
     THEN CHOOSE t \in 1 .. n : log[t] = k /\ \A u \in t + 1 .. n : log[u] # k
     ELSE start[k]]

Init == log = <<>> /\ version = 0 /\ views = [v \in {0} |-> start]

Submit ==
  /\ \E k \in DOMAIN start : log' = Append(log, k)
  /\ UNCHANGED <<start, version, views>>

Publish ==
  /\ version' \in version + 1 .. Len(log)
  /\ UNCHANGED <<start, log>>
  /\ views' = [v \in DOMAIN views \cup {version'} |-> Executed(v)]

Next == Submit \/ Publish

Spec == Init /\ [][Next]_<<start, log, version, views>>
=============================================================================
