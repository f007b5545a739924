-------------------------- MODULE MCLifecycleLive ---------------------------
(***************************************************************************)
(* Three processes on two nodes that run the hybrid examples: a            *)
(* communicator over the world with both slots, and for the processes of   *)
(* the first node a second one with a clique of their own, made before it  *)
(* gets its duplicate of the world.                                        *)
(***************************************************************************)
EXTENDS CommLifecycle, Sequences, TLC

CONSTANTS world, node

MCComms == (0 .. 2) \X {"first", "second"}
MCCommHome == [c \in MCComms |-> c[1]]
MCCliqueSize == (world :> 3) @@ (node :> 2)
MCCliqueRank == (world :> [p \in 0 .. 2 |-> p]) @@
                (node :> [p \in 0 .. 2 |-> 1 - p])
MCLocalRank == [p \in 0 .. 2 |-> p % 2]

Plain(op) == {[op |-> op]}
On(op, p, c) == {[op |-> op, comm |-> <<p, c>>]}
Join(p, c, k) == {[op |-> "CommInitRank", comm |-> <<p, c>>, clique |-> k]}

Script(p) ==
  <<Plain("Init"), Plain("GetRank"), On("CommInitAll", p, "first")>> \o
  (IF p = 2
   THEN <<Join(p, "first", world), On("CommInitAll", p, "second")>>
   ELSE <<Join(p, "second", node), Join(p, "first", world),
          On("CommInitAll", p, "second")>>) \o
  <<On("CommDestroy", p, "first"), On("CommDestroy", p, "second")>> \o
  (IF p = 2 THEN <<Plain("Finalize"), Plain("Finalize")>>
   ELSE <<Plain("Finalize")>>)

MCCalls == [p \in 0 .. 2 |-> Script(p)]
=============================================================================
