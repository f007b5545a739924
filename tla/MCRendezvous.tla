---------------------------- MODULE MCRendezvous ----------------------------
(***************************************************************************)
(* One process with four threads that call CommInitRank as they like: own  *)
(* or shared communicators, equal ranks, devices used twice, two cliques,  *)
(* ranks out of range, a clique asked for again, no pointer to a handle.   *)
(***************************************************************************)
EXTENDS CnclRendezvous, TLC

CONSTANTS p1, t1, t2, t3, t4, c1, c2, c3, c4, k1, k2

MCThreads == {t1, t2, t3, t4}
MCHome == [t \in MCThreads |-> p1]
MCComms == {c1, c2, c3, c4}
MCCommHome == [c \in MCComms |-> p1]
Dev == (c1 :> 0) @@ (c2 :> 1) @@ (c3 :> 0) @@ (c4 :> 1)

MCInitialComm ==
  [c \in MCComms |-> [dev |-> 0, rank |-> -1, size |-> 0, local |-> 0,
                      inter |-> FALSE, intra |-> Null]]

ACall(c, k, n, r) ==
  [handle |-> TRUE, comm |-> c, clique |-> k, nranks |-> n, rank |-> r,
   dev |-> Dev[c]]

\* t1 may ask first for a rank that is out of range, and again for one rank.
First  == {<<ACall(c1, k, 2, 0)>> : k \in {k1, k2}} \cup
          {<<ACall(c1, k1, 2, r), ACall(c1, k, 1, 0)>> : r \in {0, 2}, k \in {k1, k2}}
Second == {<<ACall(c2, k1, 2, r)>> : r \in 0 .. 1} \cup
          {<<ACall(c1, k1, 2, 1)>>,
           <<[ACall(c2, k1, 2, 1) EXCEPT !.handle = FALSE]>>}
Third  == {<<ACall(c3, k, 2, 0)>> : k \in {k1, k2}} \cup
          {<<ACall(c1, k2, 2, 1)>>, <<ACall(c2, k2, 2, 0)>>}
Fourth == {<<ACall(c4, k2, 2, r)>> : r \in 0 .. 1} \cup {<<ACall(c4, k1, 2, 1)>>}

MCPrograms ==
  {(t1 :> a) @@ (t2 :> b) @@ (t3 :> c) @@ (t4 :> d) :
     a \in First, b \in Second, c \in Third, d \in Fourth}

==============================================================================
