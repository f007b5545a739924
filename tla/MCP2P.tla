------------------------------- MODULE MCP2P -------------------------------
(***************************************************************************)
(* OmpiP2P on three ranks, one careless, one with a malloc and a device    *)
(* runtime that fail.  An int ends at 2, so that messages of 3 to 5 bytes  *)
(* take two or three chunks.  Rank 2 is in a clique of two besides.        *)
(***************************************************************************)
EXTENDS OmpiP2P, TLC

Msg(op, peer, count) == [op |-> op, peer |-> peer, count |-> count, width |-> 1]
Send(peer, count) == Msg("send", peer, count)
Recv(peer, count) == Msg("recv", peer, count)
Wide(call) == [call EXCEPT !.width = 2]

Prog(a, b, c) == 0 :> a @@ 1 :> b @@ 2 :> c

\* The sender and the receiver of the example, again and again.
Repeat(count) ==
  Prog(<<Send(1, count), Send(1, count), Send(1, count)>>,
       <<Recv(0, count), Recv(0, count), Recv(0, count)>>, <<>>)

\* Each rank has a neighbour to send to and one to receive from; rank 0 sends
\* first and the others receive first, or all send first.
Ring ==
  Prog(<<Send(1, 3), Recv(2, 3)>>, <<Recv(0, 3), Send(2, 3)>>,
       <<Recv(1, 3), Send(0, 3)>>)

AllSendFirst ==
  Prog(<<Send(1, 1), Recv(2, 1)>>, <<Send(2, 1), Recv(0, 1)>>,
       <<Send(0, 1), Recv(1, 1)>>)

ToItself == Prog(<<Send(0, 3), Recv(0, 3)>>, <<>>, <<>>)

\* Two senders, messages of several sizes and types, nothing in some.
Gathering ==
  Prog(<<Recv(2, 5), Recv(1, 1), Recv(2, 0), Wide(Recv(1, 2))>>,
       <<Send(0, 1), Send(0, 4)>>,
       <<Send(0, 5), Send(0, 0)>>)

\* Sizes that differ: too short, too long, one message taken for two, two for
\* one; sizes beyond size_t; a peer there is not, or not in the clique.
Unequal ==
  {Prog(<<Send(1, a), Send(1, b)>>, <<Recv(0, c), Recv(0, d)>>, <<>>) :
     a \in {1, 3, 4}, b \in {2, 3}, c \in {1, 2, 4}, d \in {3, 5}}
Refused ==
  Prog(<<Wide(Send(1, 4)), Send(3, 1), Wide(Send(1, 1))>>,
       <<Wide(Recv(0, 4)), Recv(-1, 1), Wide(Recv(0, 1))>>, <<Send(2, 1)>>)

MCUnsafe == {AllSendFirst, ToItself}
MCPrograms ==
  {Repeat(3), Repeat(4), Ring, Gathering, Refused} \cup MCUnsafe \cup Unequal
\* The turns of calls: their numbers, unless ranks skip turns of the others.
MCTurn == [g \in MCPrograms |->
  CASE g = Ring -> Prog(<<1, 3>>, <<1, 2>>, <<2, 3>>)
    [] g = Gathering -> Prog(<<1, 2, 3, 4>>, <<2, 4>>, <<1, 3>>)
    [] OTHER -> [p \in Ranks |-> [i \in DOMAIN g[p] |-> i]]]

\* The hypothesis of the theorem about SomeRankGoesOn is true here.
ASSUME HypothesisHolds == InTurn(MCTurn)

MCSizes == 0 :> 3 @@ 1 :> 3 @@ 2 :> 2
MCCareless == {0}
MCFaulty == {1}
=============================================================================
