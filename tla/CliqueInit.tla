----------------------------- MODULE CliqueInit -----------------------------
(***************************************************************************)
(* What CommInitRank promises on CNCL, whatever the coordinator does: a    *)
(* call is pending until the pending calls of its process that name the    *)
(* same clique and sizes are as many as expected; then these calls, no     *)
(* more and no less, are settled at one stroke and with one answer.  On    *)
(* success their communicators, which are different and had no handle,     *)
(* get one; on failure no communicator changes.                            *)
(***************************************************************************)
EXTENDS Integers, FiniteSets

CONSTANTS Threads, Home, Comms, Cliques, Null

VARIABLES
  phase,   \* "out", "pending", "success" or "invalid"
  asked,   \* what the call of each thread asks for
  handle   \* the clique each communicator is in

svars == <<phase, asked, handle>>

Asked == [comm: Comms, clique: Cliques, nranks: Int, rank: Int, expected: Int]

SameKey(t, u) ==
  /\ Home[t] = Home[u]
  /\ asked[t].clique = asked[u].clique
  /\ asked[t].nranks = asked[u].nranks
  /\ asked[t].expected = asked[u].expected

SInit ==
  /\ phase = [t \in Threads |-> "out"]
  /\ asked = [t \in Threads |-> Null]
  /\ handle = [c \in Comms |-> Null]

Ask(t) ==
  /\ phase[t] = "out"
  /\ phase' = [phase EXCEPT ![t] = "pending"]
  /\ asked'[t] \in Asked
  /\ asked' = [asked EXCEPT ![t] = asked'[t]]
  /\ UNCHANGED handle

\* The group that can be settled: all members wait and agree.
Settles(S) ==
  /\ S # {}
  /\ \A t \in S : phase[t] = "pending" /\ Cardinality(S) = asked[t].expected
  /\ \A t, u \in S : SameKey(t, u)

Succeed(S) ==
  /\ Settles(S)
  /\ \A t \in S : handle[asked[t].comm] = Null
  /\ \A t, u \in S : t # u =>
       asked[t].comm # asked[u].comm /\ asked[t].rank # asked[u].rank
  /\ phase' = [t \in Threads |-> IF t \in S THEN "success" ELSE phase[t]]
  /\ handle' = [c \in Comms |->
       IF \E t \in S : asked[t].comm = c
       THEN asked[CHOOSE t \in S : asked[t].comm = c].clique ELSE handle[c]]
  /\ UNCHANGED asked

Fail(S) ==
  /\ Settles(S)
  /\ phase' = [t \in Threads |-> IF t \in S THEN "invalid" ELSE phase[t]]
  /\ UNCHANGED <<asked, handle>>

Leave(t) ==
  /\ phase[t] \in {"success", "invalid"}
  /\ phase' = [phase EXCEPT ![t] = "out"]
  /\ asked' = [asked EXCEPT ![t] = Null]
  /\ UNCHANGED handle

SNext == \/ \E t \in Threads : Ask(t) \/ Leave(t)
         \/ \E S \in SUBSET Threads : Succeed(S) \/ Fail(S)

SSpec == SInit /\ [][SNext]_svars

==============================================================================
