---------------------------- MODULE MCLifecycle -----------------------------
(***************************************************************************)
(* Two processes that call what they like, in any order, on one or two     *)
(* handle variables, with a clique of both processes whose ranks are not   *)
(* those of MPI and one of the first process alone.                        *)
(***************************************************************************)
EXTENDS CommLifecycle, TLC

CONSTANTS a1, a2, b1, both, solo

MCBuilds == {{"ompi", "ccl"}, {"ompi"}, {"ccl"}}
MCComms == {a1, a2, b1}
MCCommHome == (a1 :> 0) @@ (a2 :> 0) @@ (b1 :> 1)
MCCliqueSize == (both :> 2) @@ (solo :> 1)
MCCliqueRank == (both :> [p \in 0 .. 1 |-> 1 - p]) @@
                (solo :> [p \in 0 .. 1 |-> 0])
MCLocalRank == [p \in 0 .. 1 |-> p]

AnyCall(p) ==
  LET own == {c \in MCComms : MCCommHome[c] = p} IN
  [op: {"Init", "GetRank", "Finalize"}] \cup
  [op: {"CommInitAll", "CommDestroy"}, comm: own] \cup
  [op: {"CommInitRank"}, comm: own, clique: IF p = 0 THEN {both, solo} ELSE {both}]

\* The second process makes one call less.
MCCalls ==
  [p \in 0 .. 1 |-> [n \in 1 .. MaxCalls |->
     IF p = 1 /\ n = MaxCalls THEN {} ELSE AnyCall(p)]]
=============================================================================
