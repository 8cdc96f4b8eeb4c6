----------------------------- MODULE UpdateContext -----------------------------
(***************************************************************************)
(* The context of an update (lib/conctrl/context.hpp): what the handlers   *)
(* of every tree read and write besides the nodes.  Ticket sno writes the  *)
(* value sno.                                                              *)
(***************************************************************************)
EXTENDS Integers, FiniteSets, Sequences, SequencesExt, TLC

CONSTANTS
  RetiredInline,  \* RETIRED_INLINE_CAPACITY: 6
  RetiredBlock    \* RETIRED_OVERFLOW_CAPACITY: 14

ASSUME CapacityAssumption == RetiredInline \in Nat /\ RetiredBlock \in Nat \ {0}

None    == <<0, 0>>    \* no node; what is read there holds nothing
Missing == -1          \* std::nullopt

\* What update() leaves in a context, and t_past, which the entry sets.
Fresh(sno, key, past) ==
  [sno |-> sno, key |-> key, op |-> "init", root |-> None, cur |-> None, past |-> past,
   ofs |-> 0, idx |-> 0, tag |-> -1, waitChild |-> FALSE, newCheckpoint |-> FALSE, rebuilt |-> FALSE,
   retired |-> [inline |-> <<>>, blocks |-> <<>>], checkpointed |-> <<>>, made |-> 0]

\* The i-th node that the next handler of c allocates.
New(c, i) == <<c.sno, c.made + i>>

\* A defect, not used: a new block that is not linked to the one before.
Retire_LinkLost(c, n) ==
  LET r == c.retired IN
  [c EXCEPT !.retired =
     IF Len(r.inline) < RetiredInline THEN [r EXCEPT !.inline = Append(@, n)]
     ELSE IF r.blocks = <<>> \/ Len(Head(r.blocks)) = RetiredBlock THEN [r EXCEPT !.blocks = << <<n>> >>]
     ELSE [r EXCEPT !.blocks[1] = Append(@, n)]]

\* retire_replaced: the inline entries, then blocks, the newest first.
Retire(c, n) ==
  LET r == c.retired IN
  [c EXCEPT !.retired =
     IF Len(r.inline) < RetiredInline THEN [r EXCEPT !.inline = Append(@, n)]
     ELSE IF r.blocks = <<>> \/ Len(Head(r.blocks)) = RetiredBlock THEN [r EXCEPT !.blocks = << <<n>> >> \o @]
     ELSE [r EXCEPT !.blocks[1] = Append(@, n)]]

\* drain_retired
Drained(c) == c.retired.inline \o FlattenSeq(c.retired.blocks)

\* The batch that gc_.retire makes of a context.
Batch(c) == Drained(c) \o c.checkpointed

\* A set of numbers in ascending order.
Ascending(S) == SortSeq(FoldSet(LAMBDA x, s : Append(s, x), <<>>, S), <)

\* The nodes below root in a heap whose nodes have the children Below(n).
Closure(nodes, root, Below(_)) ==
  LET down[n \in nodes] == {n} \cup UNION {down[m] : m \in Below(n)} IN down[root]
================================================================================
