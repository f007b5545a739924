-------------------------- MODULE MCRendezvousLive --------------------------
(***************************************************************************)
(* Two processes, four threads in the first and two in the second, whose   *)
(* calls are well formed: each clique is used once, by as many threads as  *)
(* it has local ranks, and threads that share a clique meet the cliques in *)
(* the same order.                                                         *)
(***************************************************************************)
EXTENDS CnclRendezvous, TLC

CONSTANTS p1, p2, k1, k2

MCThreads == 1 .. 6
MCHome == [t \in MCThreads |-> IF t <= 4 THEN p1 ELSE p2]

\* Each thread owns two communicators left by CommInitAll (two processes,
\* two devices each) and one fresh one.
MCComms == MCThreads \X {"hybrid1", "hybrid2", "fresh"}
MCCommHome == [c \in MCComms |-> MCHome[c[1]]]

MCInitialComm ==
  [c \in MCComms |->
     IF c[2] = "fresh"
     THEN [dev |-> 0, rank |-> -1, size |-> 0, local |-> 0,
           inter |-> FALSE, intra |-> Null]
     ELSE [dev |-> 0, rank |-> IF MCHome[c[1]] = p1 THEN 0 ELSE 1, size |-> 2,
           local |-> 2, inter |-> TRUE, intra |-> Null]]

ACall(t, c, k, n, r) ==
  [handle |-> TRUE, comm |-> <<t, c>>, clique |-> k, nranks |-> n, rank |-> r,
   dev |-> t % 4]

\* Two cliques over both processes, two ranks in each, one after the other.
Global ==
  [t \in MCThreads |->
     IF t \in {3, 4} THEN <<>>
     ELSE <<ACall(t, "hybrid1", k1, 4, IF t <= 2 THEN t - 1 ELSE t - 3),
            ACall(t, "hybrid2", k2, 4, IF t <= 2 THEN t - 1 ELSE t - 3)>>]

\* One rank per process, the clique as large as the world.
PerProcess ==
  [t \in MCThreads |->
     IF t \in {1, 5} THEN <<ACall(t, "hybrid1", k1, 2, IF t = 1 THEN 0 ELSE 1)>>
     ELSE <<>>]

\* Two cliques of one process, on disjoint threads.
Disjoint ==
  [t \in MCThreads |->
     IF t <= 4 THEN <<ACall(t, "fresh", IF t % 2 = 0 THEN k1 ELSE k2, 2,
                            IF t <= 2 THEN 0 ELSE 1)>>
     ELSE <<>>]

\* A clique of one thread beside a clique of three.
Lopsided ==
  [t \in MCThreads |->
     IF t = 4 THEN <<ACall(t, "fresh", k2, 1, 0)>>
     ELSE IF t <= 3 THEN <<ACall(t, "fresh", k1, 3, t - 1)>>
     ELSE <<>>]

\* A clique of both processes beside one of the other threads of the first.
Mixed ==
  [t \in MCThreads |->
     IF t \in {3, 4} THEN <<ACall(t, "fresh", k2, 2, t - 3)>>
     ELSE <<ACall(t, "hybrid1", k1, 4, IF t <= 2 THEN t - 1 ELSE t - 3)>>]

MCPrograms == {Global, PerProcess, Disjoint, Lopsided, Mixed}

\* The hypotheses of the theorems about NoneRefused and SomeCallGoesOn are true
\* here.
ASSUME HypothesesHold == CallsWellFormed /\ CallsInTurn

==============================================================================
