--------------------------- MODULE MessageChannel ---------------------------
(***************************************************************************)
(* What Send and Recv promise.  Between each pair of ranks there is a      *)
(* sequence of messages, and the k-th receive of one rank from the other   *)
(* gets the k-th message in whole, as long as the two ranks have named the *)
(* same size for each message so far.                                      *)
(***************************************************************************)
EXTENDS Naturals, Sequences

CONSTANTS
  Ranks,
  Sizes,  \* of messages
  Lost    \* stands for a message that did not reach the caller

VARIABLES
  sent,      \* sizes of the messages of each pair, in the order of sending
  asked,     \* sizes of the receives of each pair, in their order
  delivered  \* what the receives have put in the buffers of their callers

Pairs == Ranks \X Ranks

\* Nothing shows that the first k messages are not of the sizes asked for.
Agreed(pair, k) ==
  \A j \in 1 .. k : j \in DOMAIN sent[pair] /\ j \in DOMAIN asked[pair]
                      => sent[pair][j] = asked[pair][j]

\* The bytes of message k, which are numbered from 0.
Whole(k, size) == [i \in 1 .. size |-> <<k, i - 1>>]

Init ==
  /\ sent = [pair \in Pairs |-> <<>>]
  /\ asked = [pair \in Pairs |-> <<>>]
  /\ delivered = [pair \in Pairs |-> <<>>]

Send(pair, size) ==
  /\ sent' = [sent EXCEPT ![pair] = Append(@, size)]
  /\ UNCHANGED <<asked, delivered>>

\* A receiver is in one receive at a time.
Ask(pair, size) ==
  /\ Len(asked[pair]) = Len(delivered[pair])
  /\ asked' = [asked EXCEPT ![pair] = Append(@, size)]
  /\ UNCHANGED <<sent, delivered>>

\* The value is the message, or anything when the ranks disagree about sizes.
\* A message may be lost behind MPI, in the copy to the caller, who is told.
Deliver(pair) ==
  LET k == Len(delivered[pair]) + 1
      value == delivered'[pair][k]
  IN
  /\ k = Len(asked[pair]) /\ k = Len(delivered'[pair])
  /\ Agreed(pair, k) =>
       k <= Len(sent[pair]) /\ value \in {Whole(k, sent[pair][k]), Lost}
  /\ delivered' = [delivered EXCEPT ![pair] = Append(@, value)]
  /\ UNCHANGED <<sent, asked>>

Next == \E pair \in Pairs :
  \/ Deliver(pair)
  \/ \E size \in Sizes : Send(pair, size) \/ Ask(pair, size)

Spec == Init /\ [][Next]_<<sent, asked, delivered>>
=============================================================================
