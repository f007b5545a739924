-------------------------- MODULE MCCollectiveHalf --------------------------
(***************************************************************************)
(* OmpiCollective with 16 bit floating point elements, which have no MPI   *)
(* type of their own, on two ranks where nothing fails.                    *)
(***************************************************************************)
EXTENDS OmpiCollective

Halves(op) ==
  [op |-> op, count |-> 2, type |-> "half", root |-> 1, avg |-> FALSE]

MCJobs == {<<Halves(op)>> : op \in Operations \ Reductions}
MCViews == {[p \in 0 .. 1 |-> [rank |-> p, size |-> 2]]}
MCNone == {}

-----------------------------------------------------------------------------
\* A collective that only moves data is correct for every data type, kFloat16
\* and kBFloat16, which map to MPI_BYTE, included: what gather.h:42-43 and
\* scatter.h:42-43 say and all_gather.h, all_to_all.h do not do.
CorrectForEveryType ==
  \A p \in Ranks :
    pc[p] = "idle" /\ Len(status[p]) = 1 /\ status[p][1] = "success"
      => memory[p] = Expected(job[1], p, 1)
=============================================================================
