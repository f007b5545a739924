------------------------- MODULE MCCollectiveHybrid -------------------------
(***************************************************************************)
(* OmpiCollective on hybrid communicators: CommInitAll has given them      *)
(* MPI_COMM_WORLD, then CommInitRank a clique of the node, whose rank and  *)
(* size replaced those of the world.  Ranks 0 and 1 are on one node, 2 is  *)
(* on another; nothing fails.                                              *)
(***************************************************************************)
EXTENDS OmpiCollective

ToRank(root) ==
  [op |-> "Gather", count |-> 1, type |-> "wide", root |-> root, avg |-> FALSE]

MCJobs == {<<ToRank(0)>>}
MCViews == {[p \in 0 .. 2 |-> IF p = 2 THEN [rank |-> 0, size |-> 1]
                                       ELSE [rank |-> p, size |-> 2]]}
MCNone == {}

-----------------------------------------------------------------------------
\* "Only `root` allocates the receive side, since `MPI_Gather` writes the
\* gathered result only on `root`" (gather.h:50-51): in a gather the rank on
\* which MPI writes, and no other, has a host receive buffer.
OnlyRootAllocates ==
  \A p \in Ranks : \A n \in DOMAIN entry[p] :
    entry[p][n].call.op = "Gather" =>
      (entry[p][n].room > 0 <=> p = entry[p][n].call.root)
=============================================================================
