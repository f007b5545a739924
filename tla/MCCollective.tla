---------------------------- MODULE MCCollective ----------------------------
(***************************************************************************)
(* OmpiCollective on three ranks: one passes what it likes, one has a      *)
(* malloc and a device runtime that fail, one does everything right.  An   *)
(* int of MPI ends at 2, so a broadcast of 3 elements takes two calls.     *)
(***************************************************************************)
EXTENDS OmpiCollective

Coll(op, count, type, root, avg) ==
  [op |-> op, count |-> count, type |-> type, root |-> root, avg |-> avg]

Wide(op, count) == Coll(op, count, "wide", 0, FALSE)

\* Every collective alone: with nothing to move, one element and two, the
\* rooted ones from both ends and on a root there is not, halves where the
\* bytes are moved as they are or reduced, counts beyond the range MPI takes,
\* and one that an int makes 1 again.
Single ==
  {Wide(op, count) : op \in Operations, count \in 0 .. 2}
    \cup {Coll(op, 2, "wide", root, FALSE) : op \in Rooted, root \in {2, 3}}
    \cup {Coll(op, 1, "wide", 2, TRUE) : op \in Reductions}
    \cup {Coll(op, count, "half", 0, FALSE) :
            op \in {"Broadcast", "Gather", "Scatter"}, count \in 1 .. 2}
    \cup {Coll(op, 1, "half", 0, FALSE) : op \in Reductions}
    \cup {Wide(op, 3) : op \in Operations}
    \cup {Wide(op, 7) : op \in {"AllGather", "AllReduce"}}

\* Two calls, where a failure in the first one makes the ranks part.
Pairs ==
  {<<Wide("Reduce", 1), Wide("Reduce", 1)>>,
   <<Wide("Scatter", 1), Wide("AllToAll", 1)>>,
   <<Wide("Broadcast", 3), Coll("Gather", 1, "half", 2, FALSE)>>,
   <<Wide("ReduceScatter", 3), Wide("AllReduce", 1)>>}

MCJobs == {<<c>> : c \in Single} \cup Pairs
MCViews == {[p \in 0 .. 2 |-> [rank |-> p, size |-> 3]]}
MCCareless == {2}
MCFaulty == {1}

\* This run has what the theorems ask for.
ASSUME HypothesesHold == TrueViews /\ WholeElements
=============================================================================
