-------------------------- MODULE OmpiP2P_proofs ---------------------------
(***************************************************************************)
(* Send and Recv keep their promise, MessageChannel, for any number of     *)
(* ranks, programs, sizes and lengths of the chunks, and do not deadlock   *)
(* where each call is met in its turn.                                     *)
(***************************************************************************)
EXTENDS OmpiP2P, FiniteSetTheorems, WellFoundedInduction, TLAPS

InCall(p) == pc[p] # "idle"

\* The rank whose call a pair waits for is in a call that it checked.
CallsChecked ==
  \A p \in Ranks : InCall(p) =>
    /\ Number(p) \in DOMAIN prog[p]
    /\ Current(p).peer \in 0 .. Sizes[p] - 1 /\ Bytes(Current(p)) \in 1 .. MaxSize
    /\ pc[p] = "sending" => Current(p).op = "send"

Errors(s) == {n \in DOMAIN s : s[n] = "error"}

\* A host buffer for each copy that failed, and one in a call.
StagedExact ==
  \A p \in Ranks :
    staged[p] = Cardinality(Errors(status[p])) + (IF InCall(p) THEN 1 ELSE 0)

\* The sender, the receiver of a pair is in a call about the pair.
Out(pair) == InCall(pair[1]) /\ Current(pair[1]).op = "send" /\ PairOf(pair[1]) = pair
In(pair) == InCall(pair[2]) /\ Current(pair[2]).op = "recv" /\ PairOf(pair[2]) = pair

LastSent(pair) == sent[pair][Len(sent[pair])]
LastAsked(pair) == asked[pair][Len(asked[pair])]

\* The last message of a pair is the one of the call its ranks are in.
Counted(pair) ==
  /\ Out(pair) => /\ Len(sent[pair]) > 0
                  /\ LastSent(pair) = Bytes(Current(pair[1]))
                  /\ offset[pair[1]] <= LastSent(pair)
  /\ In(pair) => /\ Len(asked[pair]) = Len(delivered[pair]) + 1
                 /\ LastAsked(pair) = Bytes(Current(pair[2]))
                 /\ offset[pair[2]] <= LastAsked(pair)
  /\ ~In(pair) => Len(asked[pair]) = Len(delivered[pair])

\* The place of the next byte the sender puts and the receiver takes: the
\* number of its message and its place there.
SendAt(pair) ==
  IF Out(pair) /\ offset[pair[1]] < LastSent(pair)
  THEN <<Len(sent[pair]), offset[pair[1]]>>
  ELSE <<Len(sent[pair]) + 1, 0>>

RecvAt(pair) ==
  IF In(pair) /\ offset[pair[2]] < LastAsked(pair)
  THEN <<Len(asked[pair]), offset[pair[2]]>>
  ELSE <<Len(asked[pair]) + 1, 0>>

\* The places where a chunk begins and where the next one does.
Start(c) == <<c.msg, c.from>>
After(pair, c) ==
  IF c.from + c.len = sent[pair][c.msg] THEN <<c.msg + 1, 0>>
                                        ELSE <<c.msg, c.from + c.len>>

Cut(pair, c) ==
  /\ c.msg \in DOMAIN sent[pair] /\ c.from < sent[pair][c.msg]
  /\ c.len = Chunk(sent[pair][c.msg], c.from)

\* The chunks on their way are cut from the messages as the code cuts them and
\* follow each other without a gap, up to the place of the sender.
ChunksFollow(pair) ==
  \A i \in DOMAIN chan[pair] :
    /\ Cut(pair, chan[pair][i])
    /\ After(pair, chan[pair][i]) =
         IF i = Len(chan[pair]) THEN SendAt(pair) ELSE Start(chan[pair][i + 1])

AgreedSoFar(pair) == Channel!Agreed(pair, Len(asked[pair]))

\* They begin at the place of the receiver, while the ranks agree.
InStep(pair) ==
  AgreedSoFar(pair) =>
    RecvAt(pair) = IF chan[pair] = <<>> THEN SendAt(pair) ELSE Start(chan[pair][1])

\* What has been received of a message is in its place.
Arrived(pair) ==
  AgreedSoFar(pair) /\ In(pair) =>
    \A i \in 0 .. offset[pair[2]] - 1 :
      /\ i \in DOMAIN buffer[pair[2]]
      /\ buffer[pair[2]][i] = <<Len(asked[pair]), i>>

PairInv(pair) == Counted(pair) /\ ChunksFollow(pair) /\ InStep(pair) /\ Arrived(pair)

Flow == \A pair \in Pairs : PairInv(pair)

\* A rank that MPI has ended is in a receive for ever.
EndedInRecv == \A p \in aborted : InCall(p) /\ Current(p).op = "recv"

IInv ==
  /\ TypeOK /\ CallsChecked /\ StagedExact
  /\ Flow /\ EndedInRecv /\ TruncatedOnlyIfUnequal

Delivery == Seq(Nat \X Nat)

------------------------------------------------------------------------------
\* Facts about the constants and the operators.
LEMMA RanksFit == Ranks \subseteq Nat /\ 0 \in Ranks /\ Pairs = Ranks \X Ranks
BY ChannelAssumption DEF Ranks, Pairs

\* The ranks a Communicator knows of are ranks of MPI.
LEMMA PeerFits ==
  ASSUME NEW p \in Ranks, NEW peer \in 0 .. Sizes[p] - 1
  PROVE  peer \in Ranks
BY ChannelAssumption DEF Ranks

LEMMA ChunkFits ==
  ASSUME NEW total \in Nat, NEW done \in Nat, done < total
  PROVE  Chunk(total, done) \in 1 .. total - done
BY ChannelAssumption DEF Chunk

LEMMA Product ==
  ASSUME NEW m \in Nat, NEW w \in Nat \ {0}, NEW c \in Nat, c <= m \div w
  PROVE  c * w <= m
<1> DEFINE q == m \div w
<1>1. q \in Nat /\ q * w <= m
  OBVIOUS
<1>2. c * w <= q * w
  <2>1. c <= q /\ q \in Nat
    BY <1>1
  <2> HIDE DEF q
  <2>2. PICK d \in Nat : q = c + d
    BY <2>1
  <2>3. q * w = c * w + d * w /\ d * w >= 0
    BY <2>2
  <2> QED
    BY <2>3
<1> QED
  BY <1>1, <1>2

LEMMA Appended ==
  ASSUME NEW S, NEW s \in Seq(S), NEW e \in S
  PROVE  /\ Append(s, e) \in Seq(S) /\ Len(Append(s, e)) = Len(s) + 1
         /\ Append(s, e)[Len(s) + 1] = e
         /\ \A i \in 1 .. Len(s) : Append(s, e)[i] = s[i]
         /\ DOMAIN Append(s, e) = 1 .. Len(s) + 1
OBVIOUS

LEMMA PlaceIs ==
  ASSUME NEW done \in Nat, NEW len \in Nat
  PROVE  Place(done, len) = done .. (done + len) - 1
<1>1. done + (len - 1) = (done + len) - 1
  OBVIOUS
<1> QED
  BY <1>1 DEF Place

\* A buffer of n bytes is what a receive delivers.
LEMMA BytesTyped ==
  ASSUME NEW n \in Nat, NEW f \in [1 .. n -> Nat \X Nat]
  PROVE  f \in Delivery
BY DEF Delivery

LEMMA LostTyped == Lost \in Delivery
BY DEF Lost, Delivery

\* What the type invariant says of one rank and of one pair.
LEMMA RankTyped ==
  ASSUME TypeOK, NEW p \in Ranks
  PROVE  /\ prog[p] \in Seq(Call) /\ offset[p] \in Nat /\ staged[p] \in Nat
         /\ pc[p] \in {"idle", "mpi", "sending"}
         /\ status[p] \in Seq({"success", "invalid", "internal", "nomem", "error"})
         /\ Number(p) \in Nat \ {0}
BY ChannelAssumption DEF TypeOK, Number

LEMMA PairTyped ==
  ASSUME TypeOK, NEW pair \in Pairs
  PROVE  /\ chan[pair] \in Seq(ChunkRecord) /\ sent[pair] \in Seq(1 .. MaxSize)
         /\ asked[pair] \in Seq(1 .. MaxSize) /\ delivered[pair] \in Seq(Delivery)
         /\ pair[1] \in Ranks /\ pair[2] \in Ranks /\ pair = <<pair[1], pair[2]>>
BY DEF TypeOK, Pairs, Delivery

\* A call that passes the checks is about a pair and some bytes.
LEMMA Accepted ==
  ASSUME TypeOK, NEW p \in Ranks, NEW a \in Arguments, Calls(p, a),
         Checked(Current(p), p, a) = "go"
  PROVE  /\ Number(p) \in DOMAIN prog[p] /\ Current(p).peer \in Ranks
         /\ Current(p).peer \in 0 .. Sizes[p] - 1
         /\ Bytes(Current(p)) \in 1 .. MaxSize /\ PairOf(p) \in Pairs
         /\ Current(p).op \in {"send", "recv"}
<1>1. Number(p) \in DOMAIN prog[p]
  BY RankTyped DEF Calls, Number
<1>2. Current(p) \in Call
  BY <1>1, RankTyped DEF Current
<1> DEFINE c == Current(p)
<1>3. /\ c.op \in {"send", "recv"} /\ c.count \in Nat /\ c.width \in Nat \ {0}
      /\ MaxSize \in Nat
  BY <1>2, ChannelAssumption DEF Call
<1> HIDE DEF c
<1>4. ~InvalidArgs(c, p, a) /\ c.count > 0 /\ ~(c.count > MaxSize \div c.width)
  BY <1>3 DEF Checked, c
<1>5. c.peer \in 0 .. Sizes[p] - 1 /\ c.peer \in Ranks
  BY <1>4, PeerFits DEF InvalidArgs
<1>6. c.count <= MaxSize \div c.width
  BY <1>3, <1>4
<1>7. c.count * c.width <= MaxSize
  BY <1>3, <1>6, Product
<1>8. c.count * c.width >= 1 /\ c.count * c.width \in Nat
  BY <1>3, <1>4
<1>9. Bytes(c) \in 1 .. MaxSize
  BY <1>3, <1>7, <1>8 DEF Bytes
<1> QED
  BY <1>1, <1>3, <1>5, <1>9 DEF PairOf, Pairs, c

LEMMA CallTyped ==
  ASSUME TypeOK, CallsChecked, NEW p \in Ranks, InCall(p)
  PROVE  /\ Number(p) \in DOMAIN prog[p] /\ Current(p).op \in {"send", "recv"}
         /\ Current(p).peer \in Ranks /\ Bytes(Current(p)) \in 1 .. MaxSize
         /\ Current(p).peer \in 0 .. Sizes[p] - 1 /\ PairOf(p) \in Pairs
<1>1. /\ Number(p) \in DOMAIN prog[p] /\ Current(p).peer \in Ranks
      /\ Current(p).peer \in 0 .. Sizes[p] - 1 /\ Bytes(Current(p)) \in 1 .. MaxSize
  BY PeerFits DEF CallsChecked
<1>2. Current(p) \in Call
  BY <1>1, RankTyped DEF Current
<1> QED
  BY <1>1, <1>2 DEF Call, PairOf, Pairs

LEMMA ErrorsFinite ==
  ASSUME TypeOK, NEW p \in Ranks
  PROVE  IsFiniteSet(Errors(status[p])) /\ Cardinality(Errors(status[p])) \in Nat
<1>1. Len(status[p]) \in Nat /\ DOMAIN status[p] = 1 .. Len(status[p])
  BY RankTyped
<1>2. IsFiniteSet(1 .. Len(status[p])) /\ Errors(status[p]) \subseteq 1 .. Len(status[p])
  BY <1>1, FS_Interval DEF Errors
<1> QED
  BY <1>2, FS_Subset, FS_CardinalityType

\* What the receive of a rank copies to its caller.
LEMMA CopiedTyped ==
  ASSUME TypeOK, NEW p \in Ranks, Bytes(Current(p)) \in 1 .. MaxSize
  PROVE  /\ [i \in 1 .. Bytes(Current(p)) |->
                IF i - 1 \in DOMAIN buffer[p] THEN buffer[p][i - 1] ELSE Junk] \in Delivery
         /\ Lost \in Delivery
<1> DEFINE n == Bytes(Current(p))
           f == [i \in 1 .. n |->
                   IF i - 1 \in DOMAIN buffer[p] THEN buffer[p][i - 1] ELSE Junk]
<1>1. n \in Nat /\ f \in [1 .. n -> Nat \X Nat]
  BY DEF TypeOK, Junk
<1> HIDE DEF n, f
<1>2. f \in Delivery
  BY <1>1, BytesTyped
<1> QED
  BY <1>2, LostTyped DEF n, f

\* Next and the actions, one after the other.
LEMMA NextCases ==
  ASSUME Next
  PROVE  \E p \in Ranks :
           \/ PutChunk(p) \/ SendReturns(p) \/ SendBuffered(p) \/ FinishSend(p)
           \/ TakeChunk(p) \/ Truncated(p) \/ FinishRecv(p) \/ CopyOutFails(p)
           \/ \E a \in Arguments :
                \/ EnterSend(p, a) \/ EnterRecv(p, a)
                \/ Refuse(p, a) \/ NoMemory(p, a) \/ CopyInFails(p, a)
BY DEF Next, Step

\* What a step of one rank can change.
LEMMA Returned ==
  ASSUME TypeOK, NEW p \in Ranks,
         NEW s \in {"success", "invalid", "internal", "nomem", "error"}, Return(p, s)
  PROVE  /\ status' \in [Ranks ->
              Seq({"success", "invalid", "internal", "nomem", "error"})]
         /\ pc' \in [Ranks -> {"idle", "mpi", "sending"}]
         /\ pc'[p] = "idle" /\ \A q \in Ranks : q # p => pc'[q] = pc[q]
         /\ \A q \in Ranks : q # p => status'[q] = status[q]
         /\ status'[p] = Append(status[p], s)
<1>1. status[p] \in Seq({"success", "invalid", "internal", "nomem", "error"})
  BY RankTyped
<1>2. Append(status[p], s) \in Seq({"success", "invalid", "internal", "nomem", "error"})
  BY <1>1
<1> QED
  BY <1>2 DEF Return, TypeOK

LEMMA TypeStep == ASSUME IInv, Next PROVE TypeOK'
<1> USE DEF IInv
<1>1. PICK p \in Ranks :
        \/ PutChunk(p) \/ SendReturns(p) \/ SendBuffered(p) \/ FinishSend(p)
        \/ TakeChunk(p) \/ Truncated(p) \/ FinishRecv(p) \/ CopyOutFails(p)
        \/ \E a \in Arguments :
             \/ EnterSend(p, a) \/ EnterRecv(p, a)
             \/ Refuse(p, a) \/ NoMemory(p, a) \/ CopyInFails(p, a)
  BY NextCases
<1>2. CASE PutChunk(p)
  <2> DEFINE pair == PairOf(p)
             len == SendChunk(Bytes(Current(p)), offset[p])
             c == [msg |-> Len(sent[pair]), from |-> offset[p], len |-> len]
  <2>1. pair \in Pairs /\ Bytes(Current(p)) \in Nat /\ offset[p] \in Nat
        /\ offset[p] < Bytes(Current(p))
    BY <1>2, CallTyped, RankTyped DEF PutChunk, InCall, MoreToSend
  <2>2. len \in Nat
    BY <2>1, ChunkFits DEF SendChunk
  <2>3. c \in ChunkRecord /\ Append(chan[pair], c) \in Seq(ChunkRecord)
    BY <2>1, <2>2, PairTyped DEF ChunkRecord
  <2>4. /\ chan' = [chan EXCEPT ![pair] = Append(chan[pair], c)]
        /\ offset' = [offset EXCEPT ![p] = offset[p] + len]
        /\ pc' = [pc EXCEPT ![p] = "sending"]
        /\ UNCHANGED <<prog, status, staged, buffer, sent, asked, delivered, aborted>>
    BY <1>2 DEF PutChunk
  <2> HIDE DEF pair, len, c
  <2>5. chan' \in [Pairs -> Seq(ChunkRecord)]
    BY <2>3, <2>4 DEF TypeOK
  <2>6. offset' \in [Ranks -> Nat] /\ pc' \in [Ranks -> {"idle", "mpi", "sending"}]
    BY <2>1, <2>2, <2>4 DEF TypeOK
  <2> QED
    BY <2>4, <2>5, <2>6 DEF TypeOK
<1>3. CASE SendReturns(p) \/ SendBuffered(p)
  BY <1>3 DEF SendReturns, SendBuffered, TypeOK
<1>4. CASE FinishSend(p)
  <2>1. staged' = [staged EXCEPT ![p] = staged[p] - 1] /\ staged[p] - 1 \in Nat
    BY <1>4, ErrorsFinite, RankTyped DEF FinishSend, FreedBySend, StagedExact, InCall
  <2>2. staged' \in [Ranks -> Nat]
    BY <2>1 DEF TypeOK
  <2> QED
    BY <1>4, <2>2, Returned DEF FinishSend, TypeOK
<1>5. CASE TakeChunk(p)
  <2> DEFINE pair == PairOf(p)
             chunk == Head(chan[pair])
             room == RecvChunk(Bytes(Current(p)), offset[p])
             place == Place(offset[p], chunk.len)
  <2>1. pair \in Pairs /\ Bytes(Current(p)) \in Nat /\ offset[p] \in Nat
        /\ offset[p] < Bytes(Current(p)) /\ chan[pair] # <<>>
    BY <1>5, CallTyped, RankTyped DEF TakeChunk, InCall, MoreToRecv
  <2>2. room \in Nat
    BY <2>1, ChunkFits DEF RecvChunk
  <2>3. chunk \in ChunkRecord /\ Tail(chan[pair]) \in Seq(ChunkRecord)
    BY <2>1, PairTyped
  <2>4. /\ chan' = [chan EXCEPT ![pair] = Tail(chan[pair])]
        /\ offset' = [offset EXCEPT ![p] = offset[p] + room]
        /\ buffer' = [buffer EXCEPT ![p] =
             [i \in DOMAIN buffer[p] \cup place |->
                IF i \in place THEN <<chunk.msg, chunk.from + (i - offset[p])>>
                               ELSE buffer[p][i]]]
        /\ UNCHANGED <<prog, pc, status, staged, sent, asked, delivered, aborted>>
    BY <1>5 DEF TakeChunk
  <2>5. \A i \in place : <<chunk.msg, chunk.from + (i - offset[p])>> \in Nat \X Nat
    BY <2>1, <2>3 DEF Place, ChunkRecord
  <2> HIDE DEF pair, chunk, room, place
  <2>6. chan' \in [Pairs -> Seq(ChunkRecord)] /\ offset' \in [Ranks -> Nat]
    BY <2>1, <2>2, <2>3, <2>4 DEF TypeOK
  <2>7. DOMAIN buffer' = Ranks
        /\ \A q \in Ranks : \A i \in DOMAIN buffer'[q] : buffer'[q][i] \in Nat \X Nat
    BY <2>4, <2>5 DEF TypeOK
  <2> QED
    BY <2>4, <2>6, <2>7 DEF TypeOK
<1>6. CASE Truncated(p)
  BY <1>6 DEF Truncated, TypeOK
<1>7. CASE FinishRecv(p) \/ CopyOutFails(p)
  <2> DEFINE pair == PairOf(p)
  <2>1. /\ pair \in Pairs /\ Bytes(Current(p)) \in 1 .. MaxSize
        /\ UNCHANGED <<prog, offset, buffer, chan, sent, asked, aborted>>
        /\ InCall(p)
    BY <1>7, CallTyped DEF FinishRecv, CopyOutFails, ReceivedAll, InCall
  <2>2. \E value \in Delivery :
          delivered' = [delivered EXCEPT ![pair] = Append(delivered[pair], value)]
    <3> DEFINE value == [i \in 1 .. Bytes(Current(p)) |->
                           IF i - 1 \in DOMAIN buffer[p] THEN buffer[p][i - 1] ELSE Junk]
    <3>1. value \in Delivery /\ Lost \in Delivery
      BY <2>1, CopiedTyped
    <3> QED
      BY <1>7, <3>1 DEF FinishRecv, CopyOutFails
  <2>3. delivered' \in [Pairs -> Seq(Delivery)]
    <3>1. PICK value \in Delivery :
            delivered' = [delivered EXCEPT ![pair] = Append(delivered[pair], value)]
      BY <2>2
    <3>2. Append(delivered[pair], value) \in Seq(Delivery)
      BY <2>1, PairTyped
    <3> QED
      BY <3>1, <3>2 DEF TypeOK, Delivery
  <2>4. staged[p] >= 1 /\ staged[p] \in Nat
    BY <2>1, ErrorsFinite, RankTyped DEF StagedExact
  <2>5. staged' \in [Ranks -> Nat]
    <3>1. \E n \in Nat : staged' = [staged EXCEPT ![p] = n]
      BY <1>7, <2>4 DEF FinishRecv, CopyOutFails, LeftByCopy
    <3> QED
      BY <3>1 DEF TypeOK
  <2>6. \E s \in {"success", "error"} : Return(p, s)
    BY <1>7 DEF FinishRecv, CopyOutFails
  <2>7. /\ status' \in [Ranks ->
              Seq({"success", "invalid", "internal", "nomem", "error"})]
        /\ pc' \in [Ranks -> {"idle", "mpi", "sending"}]
    BY <2>6, Returned
  <2> QED
    BY <2>1, <2>3, <2>5, <2>7 DEF TypeOK, Delivery
<1>8. ASSUME NEW a \in Arguments, EnterSend(p, a) PROVE TypeOK'
  <2> DEFINE pair == PairOf(p)
  <2>1. pair \in Pairs /\ Bytes(Current(p)) \in 1 .. MaxSize
    BY <1>8, Accepted DEF EnterSend
  <2>2. Append(sent[pair], Bytes(Current(p))) \in Seq(1 .. MaxSize)
    BY <2>1, PairTyped, Appended
  <2>3. sent' \in [Pairs -> Seq(1 .. MaxSize)]
    BY <1>8, <2>2 DEF EnterSend, TypeOK
  <2>4. /\ staged' \in [Ranks -> Nat] /\ offset' \in [Ranks -> Nat]
        /\ pc' \in [Ranks -> {"idle", "mpi", "sending"}]
    BY <1>8 DEF EnterSend, TypeOK
  <2> QED
    BY <1>8, <2>3, <2>4 DEF EnterSend, TypeOK
<1>9. ASSUME NEW a \in Arguments, EnterRecv(p, a) PROVE TypeOK'
  <2> DEFINE pair == PairOf(p)
  <2>1. pair \in Pairs /\ Bytes(Current(p)) \in 1 .. MaxSize
    BY <1>9, Accepted DEF EnterRecv
  <2>2. Append(asked[pair], Bytes(Current(p))) \in Seq(1 .. MaxSize)
    BY <2>1, PairTyped, Appended
  <2>3. asked' \in [Pairs -> Seq(1 .. MaxSize)]
    BY <1>9, <2>2 DEF EnterRecv, TypeOK
  <2>4. /\ staged' \in [Ranks -> Nat] /\ offset' \in [Ranks -> Nat]
        /\ pc' \in [Ranks -> {"idle", "mpi", "sending"}]
    BY <1>9 DEF EnterRecv, TypeOK
  <2>5. DOMAIN buffer' = Ranks
        /\ \A q \in Ranks : \A i \in DOMAIN buffer'[q] : buffer'[q][i] \in Nat \X Nat
    BY <1>9 DEF EnterRecv, TypeOK
  <2> QED
    BY <1>9, <2>3, <2>4, <2>5 DEF EnterRecv, TypeOK
<1>10. ASSUME NEW a \in Arguments, Refuse(p, a) \/ NoMemory(p, a) \/ CopyInFails(p, a)
       PROVE  TypeOK'
  <2>1. \E s \in {"success", "invalid", "internal", "nomem", "error"} : Return(p, s)
    <3>1. CASE Refuse(p, a)
      <4>1. Checked(Current(p), p, a) \in {"success", "invalid", "internal"}
        <5>1. Number(p) \in DOMAIN prog[p]
          BY <3>1, RankTyped DEF Refuse, Calls, Number
        <5>2. Current(p) \in Call
          BY <5>1, RankTyped DEF Current
        <5>3. Current(p).count \in Nat
          BY <5>2 DEF Call
        <5> QED
          BY <3>1, <5>3 DEF Refuse, Checked
      <4> QED
        BY <3>1, <4>1 DEF Refuse
    <3>2. CASE NoMemory(p, a) \/ CopyInFails(p, a)
      BY <3>2 DEF NoMemory, CopyInFails
    <3> QED
      BY <1>10, <3>1, <3>2
  <2>2. staged' \in [Ranks -> Nat]
    <3>1. staged' = staged \/ \E n \in Nat : staged' = [staged EXCEPT ![p] = n]
      BY <1>10, RankTyped DEF Refuse, NoMemory, CopyInFails, LeftByCopy
    <3> QED
      BY <3>1 DEF TypeOK
  <2>3. /\ status' \in [Ranks ->
              Seq({"success", "invalid", "internal", "nomem", "error"})]
        /\ pc' \in [Ranks -> {"idle", "mpi", "sending"}]
    BY <2>1, Returned
  <2> QED
    BY <1>10, <2>2, <2>3 DEF Refuse, NoMemory, CopyInFails, TypeOK
<1> QED
  BY <1>1, <1>2, <1>3, <1>4, <1>5, <1>6, <1>7, <1>8, <1>9, <1>10

------------------------------------------------------------------------------
LEMMA SameCall ==
  ASSUME NEW q \in Ranks, prog' = prog, status'[q] = status[q]
  PROVE  Number(q)' = Number(q) /\ Current(q)' = Current(q) /\ PairOf(q)' = PairOf(q)
BY DEF Number, Current, PairOf

\* The four kinds of steps: a call that does not begin, the beginning of a
\* call, a step in a call, and the end of a call.
NoCall(p) == pc[p] = "idle" /\ pc'[p] = "idle"
Enters(p) == /\ pc[p] = "idle" /\ pc'[p] = "mpi" /\ status'[p] = status[p]
             /\ \E a \in Arguments : Calls(p, a) /\ Checked(Current(p), p, a) = "go"
GoesOn(p) == /\ InCall(p) /\ pc'[p] # "idle" /\ status'[p] = status[p]
             /\ pc'[p] = "sending" => Current(p).op = "send"
Leaves(p) == InCall(p) /\ pc'[p] = "idle"

LEMMA StepKinds ==
  ASSUME IInv, Next
  PROVE  \E p \in Ranks :
           /\ NoCall(p) \/ Enters(p) \/ GoesOn(p) \/ Leaves(p)
           /\ prog' = prog /\ p \notin aborted
           /\ \A q \in Ranks : q # p =>
                /\ pc'[q] = pc[q] /\ status'[q] = status[q] /\ staged'[q] = staged[q]
           /\ \/ aborted' = aborted
              \/ aborted' = aborted \cup {p} /\ GoesOn(p) /\ Current(p).op = "recv"
<1> USE DEF IInv
<1>1. PICK p \in Ranks :
        \/ PutChunk(p) \/ SendReturns(p) \/ SendBuffered(p) \/ FinishSend(p)
        \/ TakeChunk(p) \/ Truncated(p) \/ FinishRecv(p) \/ CopyOutFails(p)
        \/ \E a \in Arguments :
             \/ EnterSend(p, a) \/ EnterRecv(p, a)
             \/ Refuse(p, a) \/ NoMemory(p, a) \/ CopyInFails(p, a)
  BY NextCases
<1>2. CASE PutChunk(p) \/ TakeChunk(p) \/ Truncated(p)
  BY <1>2 DEF PutChunk, TakeChunk, Truncated, GoesOn, InCall, TypeOK
<1>3. CASE SendReturns(p) \/ SendBuffered(p)
  BY <1>3 DEF SendReturns, SendBuffered, GoesOn, InCall, TypeOK
<1>4. CASE FinishSend(p)
  BY <1>4 DEF FinishSend, Return, Leaves, InCall, TypeOK
<1>5. CASE FinishRecv(p) \/ CopyOutFails(p)
  BY <1>5 DEF FinishRecv, CopyOutFails, ReceivedAll, Return, Leaves, InCall, TypeOK
<1>6. ASSUME NEW a \in Arguments, EnterSend(p, a) \/ EnterRecv(p, a)
      PROVE  /\ Enters(p) /\ prog' = prog /\ p \notin aborted /\ aborted' = aborted
             /\ \A q \in Ranks : q # p =>
                  /\ pc'[q] = pc[q] /\ status'[q] = status[q] /\ staged'[q] = staged[q]
  BY <1>6 DEF EnterSend, EnterRecv, Calls, Enters, TypeOK
<1>7. ASSUME NEW a \in Arguments, Refuse(p, a) \/ NoMemory(p, a) \/ CopyInFails(p, a)
      PROVE  /\ NoCall(p) /\ prog' = prog /\ p \notin aborted /\ aborted' = aborted
             /\ \A q \in Ranks : q # p =>
                  /\ pc'[q] = pc[q] /\ status'[q] = status[q] /\ staged'[q] = staged[q]
  BY <1>7 DEF Refuse, NoMemory, CopyInFails, Return, Calls, NoCall, TypeOK
<1> QED
  BY <1>1, <1>2, <1>3, <1>4, <1>5, <1>6, <1>7

LEMMA ChecksStep == ASSUME IInv, Next PROVE CallsChecked' /\ EndedInRecv'
<1> USE DEF IInv
<1>1. PICK p \in Ranks :
        /\ NoCall(p) \/ Enters(p) \/ GoesOn(p) \/ Leaves(p)
        /\ prog' = prog /\ p \notin aborted
        /\ \A q \in Ranks : q # p =>
             /\ pc'[q] = pc[q] /\ status'[q] = status[q] /\ staged'[q] = staged[q]
        /\ \/ aborted' = aborted
           \/ aborted' = aborted \cup {p} /\ GoesOn(p) /\ Current(p).op = "recv"
  BY StepKinds
<1>2. \A q \in Ranks : Enters(q) =>
        /\ Number(q) \in DOMAIN prog[q]
        /\ Current(q).peer \in 0 .. Sizes[q] - 1 /\ Bytes(Current(q)) \in 1 .. MaxSize
  BY Accepted DEF Enters
<1>3. ASSUME NEW q \in Ranks, InCall(q)'
      PROVE  /\ Number(q)' \in DOMAIN prog'[q]
             /\ Current(q)'.peer \in 0 .. Sizes[q] - 1 /\ Bytes(Current(q)') \in 1 .. MaxSize
             /\ pc'[q] = "sending" => Current(q)'.op = "send"
  <2>1. status'[q] = status[q]
    BY <1>1, <1>3 DEF InCall, NoCall, Leaves, Enters, GoesOn
  <2>2. Number(q)' = Number(q) /\ Current(q)' = Current(q)
    BY <1>1, <2>1, SameCall
  <2>3. CASE q # p
    BY <1>1, <1>3, <2>2, <2>3 DEF CallsChecked, InCall
  <2>4. CASE q = p /\ Enters(p)
    BY <1>1, <1>2, <2>2, <2>4 DEF Enters
  <2>5. CASE q = p /\ GoesOn(p)
    BY <1>1, <2>2, <2>5 DEF CallsChecked, GoesOn, InCall
  <2> QED
    BY <1>1, <1>3, <2>3, <2>4, <2>5 DEF InCall, NoCall, Leaves
<1>4. CallsChecked'
  BY <1>3 DEF CallsChecked, Bytes
<1>5. EndedInRecv'
  <2>1. \A q \in aborted : q \in Ranks /\ q # p /\ InCall(q) /\ Current(q).op = "recv"
    BY <1>1 DEF EndedInRecv, TypeOK
  <2>2. \A q \in aborted : InCall(q)' /\ Current(q)'.op = "recv"
    BY <1>1, <2>1, SameCall DEF InCall
  <2>3. ASSUME GoesOn(p), Current(p).op = "recv"
        PROVE  InCall(p)' /\ Current(p)'.op = "recv"
    BY <1>1, <2>3, SameCall DEF GoesOn, InCall
  <2> QED
    BY <1>1, <2>2, <2>3 DEF EndedInRecv
<1> QED
  BY <1>4, <1>5

LEMMA ErrorAdded ==
  ASSUME TypeOK, NEW p \in Ranks,
         NEW s \in {"success", "invalid", "internal", "nomem", "error"}
  PROVE  Cardinality(Errors(Append(status[p], s))) =
           Cardinality(Errors(status[p])) + (IF s = "error" THEN 1 ELSE 0)
<1> DEFINE n == Len(status[p]) + 1
<1>1. status[p] \in Seq({"success", "invalid", "internal", "nomem", "error"})
  BY RankTyped
<1>2. /\ DOMAIN status[p] = 1 .. n - 1 /\ n \in Nat \ {0}
      /\ DOMAIN Append(status[p], s) = 1 .. n /\ Append(status[p], s)[n] = s
      /\ \A i \in 1 .. n - 1 : Append(status[p], s)[i] = status[p][i]
  BY <1>1, Appended
<1> HIDE DEF n
<1>3. CASE s = "error"
  <2>1. Errors(Append(status[p], s)) = Errors(status[p]) \cup {n} /\ n \notin Errors(status[p])
    BY <1>2, <1>3 DEF Errors
  <2> QED
    BY <1>3, <2>1, ErrorsFinite, FS_AddElement
<1>4. CASE s # "error"
  <2>1. Errors(Append(status[p], s)) = Errors(status[p])
    BY <1>2, <1>4 DEF Errors
  <2> QED
    BY <1>4, <2>1, ErrorsFinite
<1> QED
  BY <1>3, <1>4

\* Each step of a rank keeps its host buffers counted.
LEMMA StagedStep == ASSUME IInv, Next PROVE StagedExact'
<1> USE DEF IInv
<1>1. PICK p \in Ranks :
        \/ PutChunk(p) \/ SendReturns(p) \/ SendBuffered(p) \/ FinishSend(p)
        \/ TakeChunk(p) \/ Truncated(p) \/ FinishRecv(p) \/ CopyOutFails(p)
        \/ \E a \in Arguments :
             \/ EnterSend(p, a) \/ EnterRecv(p, a)
             \/ Refuse(p, a) \/ NoMemory(p, a) \/ CopyInFails(p, a)
  BY NextCases
<1>2. \A q \in Ranks : q # p =>
        pc'[q] = pc[q] /\ status'[q] = status[q] /\ staged'[q] = staged[q]
  BY <1>1 DEF PutChunk, SendReturns, SendBuffered, FinishSend, TakeChunk, Truncated,
     FinishRecv, CopyOutFails, ReceivedAll, EnterSend, EnterRecv, Refuse, NoMemory,
     CopyInFails, Return, TypeOK
<1> SUFFICES staged'[p] = Cardinality(Errors(status'[p])) + (IF InCall(p)' THEN 1 ELSE 0)
  BY <1>2 DEF StagedExact, InCall
<1>3. /\ staged[p] = Cardinality(Errors(status[p])) + (IF InCall(p) THEN 1 ELSE 0)
      /\ Cardinality(Errors(status[p])) \in Nat
  BY ErrorsFinite DEF StagedExact
<1>4. CASE \/ PutChunk(p) \/ SendReturns(p) \/ SendBuffered(p)
           \/ TakeChunk(p) \/ Truncated(p)
  BY <1>3, <1>4 DEF PutChunk, SendReturns, SendBuffered, TakeChunk, Truncated, InCall,
     TypeOK
<1>5. CASE FinishSend(p) \/ FinishRecv(p)
  <2>1. /\ pc[p] = "mpi" /\ pc'[p] = "idle" /\ staged'[p] = staged[p] - 1
        /\ status'[p] = Append(status[p], "success")
    BY <1>5 DEF FinishSend, FinishRecv, ReceivedAll, Return, FreedBySend, TypeOK
  <2> QED
    BY <1>3, <2>1, ErrorAdded DEF InCall
<1>6. CASE CopyOutFails(p)
  <2>1. /\ pc[p] = "mpi" /\ pc'[p] = "idle" /\ staged'[p] = staged[p] - 1 + 1
        /\ status'[p] = Append(status[p], "error")
    BY <1>6 DEF CopyOutFails, ReceivedAll, Return, LeftByCopy, TypeOK
  <2> QED
    BY <1>3, <2>1, ErrorAdded DEF InCall
<1>7. ASSUME NEW a \in Arguments, EnterSend(p, a) \/ EnterRecv(p, a)
      PROVE  staged'[p] = Cardinality(Errors(status'[p])) + (IF InCall(p)' THEN 1 ELSE 0)
  <2>1. /\ pc[p] = "idle" /\ pc'[p] = "mpi" /\ staged'[p] = staged[p] + 1
        /\ status'[p] = status[p]
    BY <1>7 DEF EnterSend, EnterRecv, Calls, TypeOK
  <2> QED
    BY <1>3, <2>1 DEF InCall
<1>8. ASSUME NEW a \in Arguments, Refuse(p, a) \/ NoMemory(p, a)
      PROVE  staged'[p] = Cardinality(Errors(status'[p])) + (IF InCall(p)' THEN 1 ELSE 0)
  <2>1. \E s \in {"success", "invalid", "internal", "nomem"} :
          status'[p] = Append(status[p], s)
    <3>1. CASE NoMemory(p, a)
      BY <3>1 DEF NoMemory, Return, TypeOK
    <3>2. CASE Refuse(p, a)
      <4>1. Number(p) \in DOMAIN prog[p]
        BY <3>2, RankTyped DEF Refuse, Calls, Number
      <4>2. Current(p) \in Call
        BY <4>1, RankTyped DEF Current
      <4>3. Current(p).count \in Nat
        BY <4>2 DEF Call
      <4>4. Checked(Current(p), p, a) \in {"success", "invalid", "internal"}
        BY <3>2, <4>3 DEF Refuse, Checked
      <4> QED
        BY <3>2, <4>4 DEF Refuse, Return, TypeOK
    <3> QED
      BY <1>8, <3>1, <3>2
  <2>2. pc[p] = "idle" /\ pc'[p] = "idle" /\ staged'[p] = staged[p]
    BY <1>8 DEF Refuse, NoMemory, Calls, Return, TypeOK
  <2> QED
    BY <1>3, <2>1, <2>2, ErrorAdded DEF InCall
<1>9. ASSUME NEW a \in Arguments, CopyInFails(p, a)
      PROVE  staged'[p] = Cardinality(Errors(status'[p])) + (IF InCall(p)' THEN 1 ELSE 0)
  <2>1. /\ pc[p] = "idle" /\ pc'[p] = "idle" /\ staged'[p] = staged[p] + 1
        /\ status'[p] = Append(status[p], "error")
    BY <1>9 DEF CopyInFails, Calls, Return, LeftByCopy, TypeOK
  <2> QED
    BY <1>3, <2>1, ErrorAdded DEF InCall
<1> QED
  BY <1>1, <1>4, <1>5, <1>6, <1>7, <1>8, <1>9

------------------------------------------------------------------------------
\* A pair keeps its places when its ranks stay in their calls, or out of them.
LEMMA SamePair ==
  ASSUME IInv, NEW pair \in Pairs,
         Out(pair)' <=> Out(pair), In(pair)' <=> In(pair),
         Out(pair) => /\ offset'[pair[1]] = offset[pair[1]]
                      /\ Current(pair[1])' = Current(pair[1]),
         In(pair) => /\ offset'[pair[2]] = offset[pair[2]]
                     /\ Current(pair[2])' = Current(pair[2])
                     /\ buffer'[pair[2]] = buffer[pair[2]],
         sent'[pair] = sent[pair], asked'[pair] = asked[pair],
         chan'[pair] = chan[pair], delivered'[pair] = delivered[pair]
  PROVE  PairInv(pair)'
<1>1. SendAt(pair)' = SendAt(pair) /\ RecvAt(pair)' = RecvAt(pair)
  BY DEF SendAt, RecvAt, LastSent, LastAsked
<1>2. AgreedSoFar(pair)' <=> AgreedSoFar(pair)
  BY DEF AgreedSoFar, Channel!Agreed
<1>3. PairInv(pair)
  BY DEF IInv, Flow
<1>4. Counted(pair)'
  BY <1>3 DEF PairInv, Counted, LastSent, LastAsked, Bytes
<1>5. ChunksFollow(pair)'
  BY <1>1, <1>3 DEF PairInv, ChunksFollow, Cut, After, Start
<1>6. InStep(pair)' /\ Arrived(pair)'
  BY <1>1, <1>2, <1>3 DEF PairInv, InStep, Arrived, Start
<1> QED
  BY <1>4, <1>5, <1>6 DEF PairInv

\* A pair is as it was if the step is that of a rank in a call about another.
LEMMA OtherPairs ==
  ASSUME IInv, NEW p \in Ranks, NEW q, NEW pair \in Pairs, pair # q,
         prog' = prog, InCall(p) => PairOf(p) = q, InCall(p)' => PairOf(p)' = q,
         \A r \in Ranks : r # p =>
           /\ pc'[r] = pc[r] /\ status'[r] = status[r]
           /\ offset'[r] = offset[r] /\ buffer'[r] = buffer[r],
         sent'[pair] = sent[pair], asked'[pair] = asked[pair],
         chan'[pair] = chan[pair], delivered'[pair] = delivered[pair]
  PROVE  PairInv(pair)'
<1> DEFINE s == pair[1]
           d == pair[2]
<1>1. s \in Ranks /\ d \in Ranks
  BY PairTyped DEF IInv
<1>2. Out(pair)' <=> Out(pair)
  <2>1. CASE s = p
    BY <2>1 DEF Out
  <2>2. CASE s # p
    BY <1>1, <2>2, SameCall DEF Out, InCall
  <2> QED
    BY <2>1, <2>2
<1>3. In(pair)' <=> In(pair)
  <2>1. CASE d = p
    BY <2>1 DEF In
  <2>2. CASE d # p
    BY <1>1, <2>2, SameCall DEF In, InCall
  <2> QED
    BY <2>1, <2>2
<1>4. Out(pair) => /\ s # p /\ offset'[s] = offset[s] /\ Current(s)' = Current(s)
  BY <1>1, SameCall DEF Out
<1>5. In(pair) => /\ d # p /\ offset'[d] = offset[d] /\ Current(d)' = Current(d)
                  /\ buffer'[d] = buffer[d]
  BY <1>1, SameCall DEF In
<1> QED
  BY <1>2, <1>3, <1>4, <1>5, SamePair

\* Which side of its pair a rank is on.
LEMMA SidesOf ==
  ASSUME IInv, NEW p \in Ranks, InCall(p)
  PROVE  /\ PairOf(p) \in Pairs /\ PairInv(PairOf(p))
         /\ Current(p).op = "send" =>
              PairOf(p)[1] = p /\ Out(PairOf(p)) /\ (PairOf(p)[2] = p => ~In(PairOf(p)))
         /\ Current(p).op = "recv" =>
              PairOf(p)[2] = p /\ In(PairOf(p)) /\ (PairOf(p)[1] = p => ~Out(PairOf(p)))
<1>1. PairOf(p) \in Pairs /\ PairInv(PairOf(p))
  BY CallTyped DEF IInv, Flow
<1>2. ASSUME Current(p).op = "send"
      PROVE  PairOf(p)[1] = p /\ Out(PairOf(p)) /\ (PairOf(p)[2] = p => ~In(PairOf(p)))
  BY <1>2 DEF PairOf, Out, In
<1>3. ASSUME Current(p).op = "recv"
      PROVE  PairOf(p)[2] = p /\ In(PairOf(p)) /\ (PairOf(p)[1] = p => ~Out(PairOf(p)))
  BY <1>3 DEF PairOf, Out, In
<1> QED
  BY <1>1, <1>2, <1>3

\* The pair of a rank through each of its steps.
LEMMA PutKeeps ==
  ASSUME IInv, NEW p \in Ranks, NEW q, q = PairOf(p), PutChunk(p) PROVE PairInv(q)'
<1> DEFINE total == Bytes(Current(p))
           len == SendChunk(total, offset[p])
           c == [msg |-> Len(sent[q]), from |-> offset[p], len |-> len]
<1>1. InCall(p) /\ Current(p).op = "send" /\ offset[p] < total
  BY DEF PutChunk, InCall, MoreToSend
<1>2. /\ q \in Pairs /\ PairInv(q) /\ q[1] = p /\ Out(q) /\ (q[2] = p => ~In(q))
  BY <1>1, SidesOf
<1>3. /\ total \in Nat /\ offset[p] \in Nat /\ Len(sent[q]) \in Nat
      /\ sent[q] \in Seq(1 .. MaxSize) /\ chan[q] \in Seq(ChunkRecord)
      /\ q[2] \in Ranks
  BY <1>1, <1>2, CallTyped, RankTyped, PairTyped DEF IInv
<1>4. /\ chan'[q] = Append(chan[q], c) /\ offset'[p] = offset[p] + len
      /\ \A r \in Ranks : r # p => offset'[r] = offset[r] /\ pc'[r] = pc[r]
      /\ pc'[p] = "sending"
      /\ UNCHANGED <<prog, status, buffer, sent, asked, delivered>>
  BY <1>2 DEF PutChunk, IInv, TypeOK
<1>5. len \in 1 .. total - offset[p] /\ len = Chunk(total, offset[p])
  BY <1>1, <1>3, ChunkFits DEF SendChunk
<1>6. Len(sent[q]) > 0 /\ LastSent(q) = total
  BY <1>2 DEF PairInv, Counted
<1>7. /\ Out(q)' /\ (In(q)' <=> In(q)) /\ \A r \in Ranks : Current(r)' = Current(r)
  <2>1. \A r \in Ranks : Current(r)' = Current(r) /\ PairOf(r)' = PairOf(r)
    BY <1>4, SameCall
  <2>2. \A r \in Ranks : InCall(r)' <=> InCall(r)
    BY <1>1, <1>4 DEF InCall
  <2> QED
    BY <1>2, <1>3, <2>1, <2>2 DEF Out, In
<1>8. /\ SendAt(q) = Start(c) /\ SendAt(q)' = After(q, c)
      /\ RecvAt(q)' = RecvAt(q) /\ (AgreedSoFar(q)' <=> AgreedSoFar(q))
  <2>1. SendAt(q) = Start(c)
    BY <1>1, <1>2, <1>6 DEF SendAt, Start
  <2>2. SendAt(q)' = After(q, c)
    <3>1. /\ offset'[q[1]] = offset[p] + len /\ sent'[q] = sent[q]
          /\ sent[q][Len(sent[q])] = total
      BY <1>2, <1>4, <1>6 DEF LastSent
    <3>2. c.msg = Len(sent[q]) /\ c.from = offset[p] /\ c.len = len
      OBVIOUS
    <3> HIDE DEF c, len, total
    <3>3. offset[p] + len < total <=> offset[p] + len # total
      BY <1>3, <1>5
    <3> QED
      BY <1>7, <3>1, <3>2, <3>3 DEF SendAt, After, LastSent
  <2>3. RecvAt(q)' = RecvAt(q)
    BY <1>2, <1>3, <1>4, <1>7 DEF RecvAt, LastAsked
  <2> QED
    BY <1>4, <2>1, <2>2, <2>3 DEF AgreedSoFar, Channel!Agreed
<1>9. Cut(q, c)
  BY <1>1, <1>3, <1>5, <1>6 DEF Cut, LastSent
<1>10. Len(chan[q]) \in Nat /\ Len(chan'[q]) = Len(chan[q]) + 1
       /\ chan'[q][Len(chan[q]) + 1] = c
       /\ (\A i \in 1 .. Len(chan[q]) : chan'[q][i] = chan[q][i])
       /\ DOMAIN chan[q] = 1 .. Len(chan[q]) /\ DOMAIN chan'[q] = 1 .. Len(chan[q]) + 1
  BY <1>3, <1>4
<1> HIDE DEF c, len, total
<1>11. Counted(q)'
  BY <1>2, <1>3, <1>4, <1>5, <1>6, <1>7 DEF PairInv, Counted, LastSent, LastAsked, Bytes, total
<1>12. ChunksFollow(q)'
  <2> SUFFICES ASSUME NEW i \in 1 .. Len(chan[q]) + 1
               PROVE  /\ Cut(q, chan'[q][i])
                      /\ After(q, chan'[q][i]) = IF i = Len(chan[q]) + 1 THEN SendAt(q)'
                                                ELSE Start(chan'[q][i + 1])
    <3>1. (\A e : Cut(q, e)' <=> Cut(q, e')) /\ (\A e : After(q, e)' = After(q, e'))
      BY <1>4 DEF Cut, After
    <3> QED
      BY <1>10, <3>1 DEF ChunksFollow, Start
  <2>1. CASE i = Len(chan[q]) + 1
    BY <1>8, <1>9, <1>10, <2>1
  <2>2. CASE i \in 1 .. Len(chan[q])
    <3>1. /\ Cut(q, chan[q][i])
          /\ After(q, chan[q][i]) = IF i = Len(chan[q]) THEN SendAt(q)
                                   ELSE Start(chan[q][i + 1])
      BY <1>2, <1>10, <2>2 DEF PairInv, ChunksFollow
    <3>2. i = Len(chan[q]) \/ i + 1 \in 1 .. Len(chan[q])
      BY <1>10, <2>2
    <3> QED
      BY <1>8, <1>10, <2>2, <3>1, <3>2
  <2> QED
    BY <1>10, <2>1, <2>2
<1>13. InStep(q)'
  <2>1. InStep(q) /\ chan'[q] # <<>>
    BY <1>2, <1>3, <1>10 DEF PairInv
  <2>2. CASE chan[q] = <<>>
    BY <1>8, <1>10, <2>1, <2>2 DEF InStep, Start
  <2>3. CASE chan[q] # <<>>
    BY <1>3, <1>8, <1>10, <2>1, <2>3 DEF InStep, Start
  <2> QED
    BY <2>2, <2>3
<1>14. Arrived(q)'
  BY <1>2, <1>3, <1>4, <1>7, <1>8 DEF PairInv, Arrived
<1> QED
  BY <1>11, <1>12, <1>13, <1>14 DEF PairInv

\* While the ranks agree, the first chunk is what the receiver asks for next.
LEMMA HeadFits ==
  ASSUME IInv, NEW p \in Ranks, NEW q, q = PairOf(p), InCall(p), Current(p).op = "recv",
         offset[p] < Bytes(Current(p)), chan[q] # <<>>, AgreedSoFar(q)
  PROVE  /\ chan[q][1].msg = Len(asked[q]) /\ chan[q][1].from = offset[p]
         /\ chan[q][1].len = Chunk(Bytes(Current(p)), offset[p])
         /\ sent[q][chan[q][1].msg] = Bytes(Current(p))
<1> DEFINE c == chan[q][1]
           k == Len(asked[q])
<1>1. q \in Pairs /\ PairInv(q) /\ q[2] = p /\ In(q)
  BY SidesOf
<1>2. /\ k \in Nat /\ chan[q] \in Seq(ChunkRecord) /\ asked[q] \in Seq(1 .. MaxSize)
      /\ 1 \in DOMAIN chan[q]
  BY <1>1, PairTyped DEF IInv
<1>3. Cut(q, c)
  BY <1>1, <1>2 DEF PairInv, ChunksFollow
<1>4. LastAsked(q) = Bytes(Current(p)) /\ k = Len(delivered[q]) + 1
  BY <1>1 DEF PairInv, Counted
<1>5. RecvAt(q) = <<k, offset[p]>>
  BY <1>1, <1>4 DEF RecvAt
<1>6. c.msg = k /\ c.from = offset[p]
  BY <1>1, <1>5 DEF PairInv, InStep, Start
<1>7. sent[q][k] = asked[q][k]
  <2>1. Len(delivered[q]) \in Nat
    BY <1>1, PairTyped DEF IInv
  <2>2. k \in 1 .. k /\ k \in DOMAIN asked[q] /\ k \in DOMAIN sent[q]
    BY <1>2, <1>3, <1>4, <1>6, <2>1 DEF Cut
  <2> QED
    BY <2>2 DEF AgreedSoFar, Channel!Agreed
<1> QED
  BY <1>3, <1>4, <1>6, <1>7 DEF Cut, LastAsked

\* The first chunk is of a message that was sent, and at the receiver's place.
LEMMA FirstChunk ==
  ASSUME IInv, NEW q \in Pairs, chan[q] # <<>>, AgreedSoFar(q)
  PROVE  chan[q][1].msg \in 1 .. Len(sent[q]) /\ RecvAt(q) = Start(chan[q][1])
<1>1. PairInv(q) /\ chan[q] \in Seq(ChunkRecord) /\ sent[q] \in Seq(1 .. MaxSize)
  BY PairTyped DEF IInv, Flow
<1>2. 1 \in DOMAIN chan[q] /\ DOMAIN sent[q] = 1 .. Len(sent[q])
  BY <1>1
<1>3. Cut(q, chan[q][1])
  BY <1>1, <1>2 DEF PairInv, ChunksFollow
<1>4. RecvAt(q) = Start(chan[q][1])
  BY <1>1 DEF PairInv, InStep
<1> QED
  BY <1>2, <1>3, <1>4 DEF Cut

LEMMA TakeKeeps ==
  ASSUME IInv, NEW p \in Ranks, NEW q, q = PairOf(p), TakeChunk(p) PROVE PairInv(q)'
<1> DEFINE total == Bytes(Current(p))
           c == chan[q][1]
           room == RecvChunk(total, offset[p])
           place == Place(offset[p], c.len)
<1>1. InCall(p) /\ Current(p).op = "recv" /\ offset[p] < total /\ chan[q] # <<>>
  BY DEF TakeChunk, InCall, MoreToRecv
<1>2. /\ q \in Pairs /\ PairInv(q) /\ q[2] = p /\ In(q) /\ (q[1] = p => ~Out(q))
  BY <1>1, SidesOf
<1>3. /\ total \in Nat /\ offset[p] \in Nat /\ Len(asked[q]) \in Nat
      /\ chan[q] \in Seq(ChunkRecord) /\ q[1] \in Ranks
      /\ c \in ChunkRecord /\ Head(chan[q]) = c
  BY <1>1, <1>2, CallTyped, RankTyped, PairTyped DEF IInv
<1>4. /\ chan'[q] = Tail(chan[q]) /\ offset'[p] = offset[p] + room
      /\ \A r \in Ranks : r # p => offset'[r] = offset[r]
      /\ buffer'[p] = [i \in DOMAIN buffer[p] \cup place |->
                         IF i \in place THEN <<c.msg, c.from + (i - offset[p])>>
                                        ELSE buffer[p][i]]
      /\ UNCHANGED <<prog, pc, status, sent, asked, delivered>>
  BY <1>2, <1>3 DEF TakeChunk, IInv, TypeOK
<1>5. room \in 1 .. total - offset[p] /\ room = Chunk(total, offset[p])
  BY <1>1, <1>3, ChunkFits DEF RecvChunk
<1>6. LastAsked(q) = total
  BY <1>2 DEF PairInv, Counted
<1>7. /\ In(q)' /\ (Out(q)' <=> Out(q)) /\ \A r \in Ranks : Current(r)' = Current(r)
  <2>1. \A r \in Ranks : Current(r)' = Current(r) /\ PairOf(r)' = PairOf(r)
    BY <1>4, SameCall
  <2> QED
    BY <1>2, <1>3, <1>4, <2>1 DEF Out, In, InCall
<1>8. /\ SendAt(q)' = SendAt(q) /\ (AgreedSoFar(q)' <=> AgreedSoFar(q))
  <2>1. SendAt(q)' = SendAt(q)
    BY <1>2, <1>3, <1>4, <1>7 DEF SendAt, LastSent
  <2> QED
    BY <1>4, <2>1 DEF AgreedSoFar, Channel!Agreed
<1>9. /\ Len(chan[q]) \in Nat \ {0} /\ Len(chan'[q]) = Len(chan[q]) - 1
      /\ chan'[q] \in Seq(ChunkRecord)
      /\ \A i \in 1 .. Len(chan[q]) - 1 : chan'[q][i] = chan[q][i + 1]
      /\ DOMAIN chan[q] = 1 .. Len(chan[q]) /\ DOMAIN chan'[q] = 1 .. Len(chan[q]) - 1
  BY <1>1, <1>3, <1>4
<1>10. ASSUME AgreedSoFar(q)
       PROVE  /\ c.msg = Len(asked[q]) /\ c.from = offset[p] /\ c.len = room
              /\ RecvAt(q)' = After(q, c)
  <2>1. /\ c.msg = Len(asked[q]) /\ c.from = offset[p] /\ c.len = room
        /\ sent[q][c.msg] = total
    BY <1>1, <1>5, <1>10, HeadFits
  <2>2. offset'[q[2]] = offset[p] + room /\ asked'[q] = asked[q] /\ sent'[q] = sent[q]
        /\ asked[q][Len(asked[q])] = total
    BY <1>2, <1>4, <1>6 DEF LastAsked
  <2> HIDE DEF c, room, total
  <2>3. offset[p] + room < total <=> offset[p] + room # total
    BY <1>3, <1>5
  <2> QED
    BY <1>7, <2>1, <2>2, <2>3 DEF RecvAt, After, LastAsked
<1> HIDE DEF c, room, total, place
<1>11. Counted(q)'
  BY <1>2, <1>3, <1>4, <1>5, <1>6, <1>7 DEF PairInv, Counted, LastSent, LastAsked, Bytes, total
<1>12. ChunksFollow(q)'
  <2> SUFFICES ASSUME NEW i \in 1 .. Len(chan[q]) - 1
               PROVE  /\ Cut(q, chan'[q][i])
                      /\ After(q, chan'[q][i]) = IF i = Len(chan[q]) - 1 THEN SendAt(q)'
                                                ELSE Start(chan'[q][i + 1])
    <3>1. (\A e : Cut(q, e)' <=> Cut(q, e')) /\ (\A e : After(q, e)' = After(q, e'))
      BY <1>4 DEF Cut, After
    <3> QED
      BY <1>9, <3>1 DEF ChunksFollow, Start
  <2> DEFINE j == i + 1
  <2>1. j \in 1 .. Len(chan[q]) /\ chan'[q][i] = chan[q][j]
    BY <1>9
  <2>2. /\ Cut(q, chan[q][j])
        /\ After(q, chan[q][j]) = IF j = Len(chan[q]) THEN SendAt(q)
                                 ELSE Start(chan[q][j + 1])
    BY <1>2, <1>9, <2>1 DEF PairInv, ChunksFollow
  <2>3. CASE i = Len(chan[q]) - 1
    BY <1>8, <1>9, <2>1, <2>2, <2>3
  <2>4. CASE j \in 1 .. Len(chan[q]) - 1
    <3>1. chan'[q][j] = chan[q][j + 1]
      BY <1>9, <2>4
    <3> QED
      BY <1>9, <2>1, <2>2, <2>4, <3>1
  <2> QED
    BY <1>9, <2>3, <2>4
<1>13. InStep(q)'
  <2> SUFFICES After(q, c) = IF chan'[q] = <<>> THEN SendAt(q) ELSE Start(chan'[q][1])
    BY <1>8, <1>10 DEF InStep, Start
  <2>1. 1 \in DOMAIN chan[q] /\ 1 + 1 = 2
    BY <1>9
  <2>2. After(q, c) = IF 1 = Len(chan[q]) THEN SendAt(q) ELSE Start(chan[q][2])
    BY <1>2, <2>1 DEF PairInv, ChunksFollow, c
  <2>3. CASE Len(chan[q]) = 1
    <3>1. chan'[q] = <<>>
      BY <1>9, <2>3
    <3> QED
      BY <2>2, <2>3, <3>1
  <2>4. CASE Len(chan[q]) # 1
    <3>1. 1 \in 1 .. Len(chan[q]) - 1
      <4> DEFINE n == Len(chan[q])
      <4>1. n \in Nat \ {0} /\ n # 1
        BY <1>9, <2>4
      <4> HIDE DEF n
      <4>2. 1 \in 1 .. n - 1
        BY <4>1
      <4> QED
        BY <4>2 DEF n
    <3>2. chan'[q] # <<>> /\ chan'[q][1] = chan[q][2]
      BY <1>9, <2>1, <3>1
    <3> QED
      BY <2>2, <2>4, <3>2
  <2> QED
    BY <2>3, <2>4
<1>14. Arrived(q)'
  <2> DEFINE end == offset[p] + room
  <2>1. SUFFICES ASSUME AgreedSoFar(q)
                 PROVE  \A i \in 0 .. offset'[q[2]] - 1 :
                          /\ i \in DOMAIN buffer'[q[2]]
                          /\ buffer'[q[2]][i] = <<Len(asked'[q]), i>>
    BY <1>8 DEF Arrived
  <2>2. /\ end \in Nat /\ offset[p] \in Nat /\ offset'[q[2]] = end
        /\ buffer'[q[2]] = buffer'[p] /\ asked'[q] = asked[q]
    BY <1>2, <1>3, <1>4, <1>5
  <2>3. place = offset[p] .. end - 1
    <3>1. c.len = room /\ room \in Nat
      BY <1>3, <1>5, <1>10, <2>1
    <3> QED
      BY <2>2, <3>1, PlaceIs DEF place, end
  <2> HIDE DEF end
  <2> SUFFICES ASSUME NEW i \in 0 .. end - 1
               PROVE  i \in DOMAIN buffer'[p] /\ buffer'[p][i] = <<Len(asked[q]), i>>
    BY <2>2
  <2>4. CASE i \in place
    BY <1>3, <1>4, <1>10, <2>1, <2>2, <2>3, <2>4
  <2>5. CASE i \notin place
    <3>1. i \in 0 .. offset[p] - 1
      BY <2>2, <2>3, <2>5
    <3>2. i \in DOMAIN buffer[p] /\ buffer[p][i] = <<Len(asked[q]), i>>
      BY <1>2, <2>1, <3>1 DEF PairInv, Arrived
    <3> QED
      BY <1>4, <2>5, <3>2
  <2> QED
    BY <2>4, <2>5
<1> QED
  BY <1>11, <1>12, <1>13, <1>14 DEF PairInv

\* More sent or asked shows no less about sizes.
LEMMA AgreedBefore ==
  ASSUME IInv, NEW q \in Pairs, AgreedSoFar(q)',
         \/ sent'[q] = sent[q]
         \/ \E n \in 1 .. MaxSize : sent'[q] = Append(sent[q], n),
         \/ asked'[q] = asked[q]
         \/ \E n \in 1 .. MaxSize : asked'[q] = Append(asked[q], n)
  PROVE  AgreedSoFar(q)
<1>1. sent[q] \in Seq(1 .. MaxSize) /\ asked[q] \in Seq(1 .. MaxSize)
  BY PairTyped DEF IInv
<1>2. \A j \in DOMAIN sent[q] : j \in DOMAIN sent'[q] /\ sent'[q][j] = sent[q][j]
  BY <1>1
<1>3. \A j \in DOMAIN asked[q] : j \in DOMAIN asked'[q] /\ asked'[q][j] = asked[q][j]
  BY <1>1
<1>4. \A j \in 1 .. Len(asked[q]) : j \in 1 .. Len(asked'[q])
  BY <1>1
<1> QED
  BY <1>2, <1>3, <1>4 DEF AgreedSoFar, Channel!Agreed

LEMMA FinishSendKeeps ==
  ASSUME IInv, NEW p \in Ranks, NEW q, q = PairOf(p), FinishSend(p) PROVE PairInv(q)'
<1>1. InCall(p) /\ Current(p).op = "send" /\ ~(offset[p] < Bytes(Current(p)))
  BY DEF FinishSend, InCall, MoreToSend
<1>2. /\ q \in Pairs /\ PairInv(q) /\ q[1] = p /\ Out(q) /\ (q[2] = p => ~In(q))
  BY <1>1, SidesOf
<1>3. q[2] \in Ranks /\ offset[p] \in Nat
  BY <1>2, PairTyped, RankTyped DEF IInv
<1>4. /\ pc'[p] = "idle"
      /\ \A r \in Ranks : r # p => pc'[r] = pc[r] /\ status'[r] = status[r]
      /\ UNCHANGED <<prog, offset, buffer, chan, sent, asked, delivered>>
  BY DEF FinishSend, Return, IInv, TypeOK
<1>5. /\ ~Out(q)' /\ (In(q)' <=> In(q))
      /\ In(q) => q[2] # p /\ Current(q[2])' = Current(q[2])
  BY <1>2, <1>3, <1>4, SameCall DEF Out, In, InCall
<1>6. /\ SendAt(q)' = SendAt(q) /\ RecvAt(q)' = RecvAt(q)
      /\ (AgreedSoFar(q)' <=> AgreedSoFar(q))
  BY <1>1, <1>2, <1>4, <1>5 DEF PairInv, Counted, SendAt, RecvAt, LastSent, LastAsked,
     AgreedSoFar, Channel!Agreed
<1>7. Counted(q)'
  BY <1>2, <1>4, <1>5 DEF PairInv, Counted, LastAsked, Bytes
<1>8. ChunksFollow(q)'
  BY <1>2, <1>4, <1>6 DEF PairInv, ChunksFollow, Cut, After, Start
<1>9. InStep(q)' /\ Arrived(q)'
  BY <1>2, <1>4, <1>5, <1>6 DEF PairInv, InStep, Arrived, Start
<1> QED
  BY <1>7, <1>8, <1>9 DEF PairInv

LEMMA EnterSendKeeps ==
  ASSUME IInv, NEW p \in Ranks, NEW q, q = PairOf(p), NEW a \in Arguments,
         EnterSend(p, a)
  PROVE  PairInv(q)'
<1> DEFINE total == Bytes(Current(p))
           n == Len(sent[q])
<1>1. /\ pc[p] = "idle" /\ Current(p).op = "send" /\ q \in Pairs /\ q[1] = p
      /\ total \in 1 .. MaxSize
  BY Accepted DEF EnterSend, Calls, PairOf, IInv
<1>2. /\ PairInv(q) /\ q[2] \in Ranks /\ sent[q] \in Seq(1 .. MaxSize)
      /\ chan[q] \in Seq(ChunkRecord)
  BY <1>1, PairTyped DEF IInv, Flow
<1>3. /\ pc'[p] = "mpi" /\ offset'[p] = 0 /\ sent'[q] = Append(sent[q], total)
      /\ \A r \in Ranks : r # p => pc'[r] = pc[r] /\ offset'[r] = offset[r]
      /\ UNCHANGED <<prog, status, buffer, chan, asked, delivered>>
  BY <1>1 DEF EnterSend, IInv, TypeOK
<1>4. \A r \in Ranks : Current(r)' = Current(r) /\ PairOf(r)' = PairOf(r)
  BY <1>3, SameCall
<1>5. /\ ~Out(q) /\ Out(q)' /\ (In(q)' <=> In(q)) /\ (In(q) => q[2] # p)
  BY <1>1, <1>2, <1>3, <1>4 DEF Out, In, InCall
<1>6. /\ n \in Nat /\ Len(sent'[q]) = n + 1 /\ sent'[q][n + 1] = total
      /\ DOMAIN sent[q] = 1 .. n /\ DOMAIN sent'[q] = 1 .. n + 1
      /\ \A j \in 1 .. n : sent'[q][j] = sent[q][j]
  BY <1>1, <1>2, <1>3, Appended
<1>7. AgreedSoFar(q)' => AgreedSoFar(q)
  BY <1>1, <1>3, AgreedBefore
<1> HIDE DEF n
<1>8. SendAt(q)' = SendAt(q)
  <2>1. SendAt(q) = <<n + 1, 0>>
    BY <1>5 DEF SendAt, n
  <2>2. SendAt(q)' = <<n + 1, 0>>
    BY <1>1, <1>3, <1>5, <1>6 DEF SendAt, LastSent
  <2> QED
    BY <2>1, <2>2
<1>9. RecvAt(q)' = RecvAt(q)
  BY <1>2, <1>3, <1>5 DEF RecvAt, LastAsked
<1>10. Counted(q)'
  <2>1. Len(sent'[q]) > 0 /\ LastSent(q)' = Bytes(Current(p)') /\ 0 <= LastSent(q)'
    BY <1>1, <1>4, <1>6 DEF LastSent, Bytes
  <2> QED
    BY <1>1, <1>2, <1>3, <1>4, <1>5, <2>1 DEF PairInv, Counted, LastAsked, Bytes
<1>11. ChunksFollow(q)'
  <2>1. \A i \in DOMAIN chan[q] :
          LET c == chan[q][i] IN
          /\ c.msg \in DOMAIN sent'[q] /\ sent'[q][c.msg] = sent[q][c.msg]
          /\ c.from < sent[q][c.msg] /\ c.len = Chunk(sent[q][c.msg], c.from)
    BY <1>2, <1>6 DEF PairInv, ChunksFollow, Cut
  <2>2. ASSUME NEW i \in DOMAIN chan'[q]
        PROVE  /\ Cut(q, chan[q][i])'
               /\ After(q, chan[q][i])' =
                    IF i = Len(chan'[q]) THEN SendAt(q)' ELSE Start(chan'[q][i + 1])
    <3>1. Cut(q, chan[q][i])'
      BY <1>3, <2>1 DEF Cut
    <3>2. After(q, chan[q][i])' = After(q, chan[q][i])
      BY <1>3, <2>1 DEF After
    <3>3. After(q, chan[q][i]) = IF i = Len(chan[q]) THEN SendAt(q)
                                                   ELSE Start(chan[q][i + 1])
      BY <1>2, <1>3 DEF PairInv, ChunksFollow
    <3> QED
      BY <1>3, <1>8, <3>1, <3>2, <3>3
  <2> QED
    BY <2>2 DEF ChunksFollow, Start
<1>12. InStep(q)' /\ Arrived(q)'
  BY <1>2, <1>3, <1>5, <1>7, <1>8, <1>9 DEF PairInv, InStep, Arrived, Start
<1> QED
  BY <1>10, <1>11, <1>12 DEF PairInv

LEMMA EnterRecvKeeps ==
  ASSUME IInv, NEW p \in Ranks, NEW q, q = PairOf(p), NEW a \in Arguments,
         EnterRecv(p, a)
  PROVE  PairInv(q)'
<1> DEFINE total == Bytes(Current(p))
           n == Len(asked[q])
<1>1. /\ pc[p] = "idle" /\ Current(p).op = "recv" /\ q \in Pairs /\ q[2] = p
      /\ total \in 1 .. MaxSize
  BY Accepted DEF EnterRecv, Calls, PairOf, IInv
<1>2. /\ PairInv(q) /\ q[1] \in Ranks /\ asked[q] \in Seq(1 .. MaxSize)
  BY <1>1, PairTyped DEF IInv, Flow
<1>3. /\ pc'[p] = "mpi" /\ offset'[p] = 0 /\ asked'[q] = Append(asked[q], total)
      /\ \A r \in Ranks : r # p => pc'[r] = pc[r] /\ offset'[r] = offset[r]
      /\ UNCHANGED <<prog, status, chan, sent, delivered>>
  BY <1>1 DEF EnterRecv, IInv, TypeOK
<1>4. \A r \in Ranks : Current(r)' = Current(r) /\ PairOf(r)' = PairOf(r)
  BY <1>3, SameCall
<1>5. /\ ~In(q) /\ In(q)' /\ (Out(q)' <=> Out(q)) /\ (Out(q) => q[1] # p)
  BY <1>1, <1>2, <1>3, <1>4 DEF Out, In, InCall
<1>6. /\ n \in Nat /\ Len(asked'[q]) = n + 1 /\ asked'[q][n + 1] = total
  BY <1>1, <1>2, <1>3, Appended
<1>7. AgreedSoFar(q)' => AgreedSoFar(q)
  BY <1>1, <1>3, AgreedBefore
<1>8. RecvAt(q)' = RecvAt(q)
  <2>1. RecvAt(q) = <<n + 1, 0>>
    BY <1>5 DEF RecvAt
  <2> HIDE DEF n
  <2>2. RecvAt(q)' = <<n + 1, 0>>
    BY <1>1, <1>3, <1>5, <1>6 DEF RecvAt, LastAsked
  <2> QED
    BY <2>1, <2>2
<1>9. SendAt(q)' = SendAt(q)
  BY <1>2, <1>3, <1>5 DEF SendAt, LastSent
<1>10. Counted(q)'
  <2>1. Len(delivered[q]) = n
    BY <1>2, <1>5 DEF PairInv, Counted
  <2>2. LastAsked(q)' = Bytes(Current(p)') /\ 0 <= LastAsked(q)'
    BY <1>1, <1>4, <1>6 DEF LastAsked, Bytes
  <2> QED
    BY <1>1, <1>2, <1>3, <1>4, <1>5, <1>6, <2>1, <2>2 DEF PairInv, Counted, LastSent,
       Bytes
<1>11. ChunksFollow(q)'
  BY <1>2, <1>3, <1>9 DEF PairInv, ChunksFollow, Cut, After, Start
<1>12. InStep(q)' /\ Arrived(q)'
  BY <1>1, <1>2, <1>3, <1>7, <1>8, <1>9 DEF PairInv, InStep, Arrived, Start
<1> QED
  BY <1>10, <1>11, <1>12 DEF PairInv

\* Either end of a receive.
EndsRecv(p) ==
  /\ ReceivedAll(p)
  /\ \E value \in Delivery :
       delivered' = [delivered EXCEPT ![PairOf(p)] = Append(@, value)]
  /\ \E s \in {"success", "error"} : Return(p, s)
  /\ UNCHANGED <<prog, offset, buffer, chan, sent, asked, aborted>>

LEMMA RecvEnds ==
  ASSUME IInv, NEW p \in Ranks, FinishRecv(p) \/ CopyOutFails(p) PROVE EndsRecv(p)
<1> DEFINE value == [i \in 1 .. Bytes(Current(p)) |->
                       IF i - 1 \in DOMAIN buffer[p] THEN buffer[p][i - 1] ELSE Junk]
<1>1. InCall(p)
  BY DEF FinishRecv, CopyOutFails, ReceivedAll, InCall
<1>2. Bytes(Current(p)) \in 1 .. MaxSize
  BY <1>1, CallTyped DEF IInv
<1>3. value \in Delivery /\ Lost \in Delivery
  BY <1>2, CopiedTyped DEF IInv
<1> QED
  BY <1>3 DEF FinishRecv, CopyOutFails, EndsRecv

LEMMA EndsRecvKeeps ==
  ASSUME IInv, NEW p \in Ranks, NEW q, q = PairOf(p), EndsRecv(p) PROVE PairInv(q)'
<1>1. InCall(p) /\ Current(p).op = "recv" /\ ~(offset[p] < Bytes(Current(p)))
  BY DEF EndsRecv, ReceivedAll, InCall, MoreToRecv
<1>2. /\ q \in Pairs /\ PairInv(q) /\ q[2] = p /\ In(q) /\ (q[1] = p => ~Out(q))
  BY <1>1, SidesOf
<1>3. q[1] \in Ranks /\ offset[p] \in Nat /\ delivered[q] \in Seq(Delivery)
  BY <1>2, PairTyped, RankTyped DEF IInv
<1>4. /\ pc'[p] = "idle" /\ Len(delivered'[q]) = Len(delivered[q]) + 1
      /\ \A r \in Ranks : r # p => pc'[r] = pc[r] /\ status'[r] = status[r]
      /\ UNCHANGED <<prog, offset, buffer, chan, sent, asked>>
  BY <1>2, <1>3, Appended DEF EndsRecv, Return, IInv, TypeOK
<1>5. /\ ~In(q)' /\ (Out(q)' <=> Out(q))
      /\ Out(q) => q[1] # p /\ Current(q[1])' = Current(q[1])
  BY <1>2, <1>3, <1>4, SameCall DEF Out, In, InCall
<1>6. /\ SendAt(q)' = SendAt(q) /\ RecvAt(q)' = RecvAt(q)
      /\ (AgreedSoFar(q)' <=> AgreedSoFar(q))
  BY <1>1, <1>2, <1>4, <1>5 DEF PairInv, Counted, SendAt, RecvAt, LastSent, LastAsked,
     AgreedSoFar, Channel!Agreed
<1>7. Counted(q)'
  BY <1>2, <1>4, <1>5 DEF PairInv, Counted, LastSent, Bytes
<1>8. ChunksFollow(q)'
  BY <1>2, <1>4, <1>6 DEF PairInv, ChunksFollow, Cut, After, Start
<1>9. InStep(q)' /\ Arrived(q)'
  BY <1>2, <1>4, <1>5, <1>6 DEF PairInv, InStep, Arrived, Start
<1> QED
  BY <1>7, <1>8, <1>9 DEF PairInv

------------------------------------------------------------------------------
\* A step of p changes p, and the messages of the pair of its call.
OnlyPair(p) ==
  /\ prog' = prog
  /\ InCall(p) \/ InCall(p)' => PairOf(p) \in Pairs
  /\ InCall(p)' => status'[p] = status[p]
  /\ \A r \in Ranks : r # p =>
       /\ pc'[r] = pc[r] /\ status'[r] = status[r]
       /\ offset'[r] = offset[r] /\ buffer'[r] = buffer[r]
  /\ \A pair \in Pairs : pair # PairOf(p) =>
       /\ sent'[pair] = sent[pair] /\ asked'[pair] = asked[pair]
       /\ chan'[pair] = chan[pair] /\ delivered'[pair] = delivered[pair]

Quiet(p) == /\ InCall(p)' <=> InCall(p)
            /\ UNCHANGED <<offset, buffer, chan, sent, asked, delivered>>

LEMMA PairSteps ==
  ASSUME IInv, Next
  PROVE  \E p \in Ranks :
           /\ OnlyPair(p)
           /\ \/ PutChunk(p) \/ FinishSend(p) \/ TakeChunk(p) \/ EndsRecv(p) \/ Quiet(p)
              \/ \E a \in Arguments : EnterSend(p, a) \/ EnterRecv(p, a)
<1> USE DEF IInv
<1>1. PICK p \in Ranks :
        \/ PutChunk(p) \/ SendReturns(p) \/ SendBuffered(p) \/ FinishSend(p)
        \/ TakeChunk(p) \/ Truncated(p) \/ FinishRecv(p) \/ CopyOutFails(p)
        \/ \E a \in Arguments :
             \/ EnterSend(p, a) \/ EnterRecv(p, a)
             \/ Refuse(p, a) \/ NoMemory(p, a) \/ CopyInFails(p, a)
  BY NextCases
<1>2. CASE PutChunk(p) \/ TakeChunk(p)
  <2>1. InCall(p)
    BY <1>2 DEF PutChunk, TakeChunk, InCall
  <2>2. PairOf(p) \in Pairs
    BY <2>1, CallTyped
  <2>3. OnlyPair(p)
    BY <1>2, <2>2 DEF PutChunk, TakeChunk, OnlyPair, TypeOK
  <2> QED
    BY <1>2, <2>3
<1>3. CASE SendReturns(p) \/ SendBuffered(p) \/ Truncated(p)
  <2>1. InCall(p) /\ Quiet(p)
    BY <1>3 DEF SendReturns, SendBuffered, Truncated, InCall, Quiet, TypeOK
  <2>2. PairOf(p) \in Pairs
    BY <2>1, CallTyped
  <2>3. OnlyPair(p)
    BY <1>3, <2>2 DEF SendReturns, SendBuffered, Truncated, OnlyPair, TypeOK
  <2> QED
    BY <2>1, <2>3
<1>4. CASE FinishSend(p)
  <2>1. InCall(p)
    BY <1>4 DEF FinishSend, InCall
  <2>2. PairOf(p) \in Pairs
    BY <2>1, CallTyped
  <2>3. OnlyPair(p)
    BY <1>4, <2>2 DEF FinishSend, Return, InCall, OnlyPair, TypeOK
  <2> QED
    BY <1>4, <2>3
<1>5. CASE FinishRecv(p) \/ CopyOutFails(p)
  <2>1. EndsRecv(p) /\ InCall(p)
    BY <1>5, RecvEnds DEF EndsRecv, ReceivedAll, InCall
  <2>2. PairOf(p) \in Pairs
    BY <2>1, CallTyped
  <2>3. OnlyPair(p)
    BY <2>1, <2>2 DEF EndsRecv, Return, InCall, OnlyPair, TypeOK
  <2> QED
    BY <2>1, <2>3
<1>6. ASSUME NEW a \in Arguments, EnterSend(p, a) \/ EnterRecv(p, a)
      PROVE  OnlyPair(p)
  <2>1. PairOf(p) \in Pairs
    BY <1>6, Accepted DEF EnterSend, EnterRecv
  <2> QED
    BY <1>6, <2>1 DEF EnterSend, EnterRecv, OnlyPair, TypeOK
<1>7. ASSUME NEW a \in Arguments, Refuse(p, a) \/ NoMemory(p, a) \/ CopyInFails(p, a)
      PROVE  OnlyPair(p) /\ Quiet(p)
  BY <1>7 DEF Refuse, NoMemory, CopyInFails, Return, Calls, InCall, OnlyPair, Quiet,
     TypeOK
<1> QED
  BY <1>1, <1>2, <1>3, <1>4, <1>5, <1>6, <1>7

LEMMA FlowStep == ASSUME IInv, Next PROVE Flow'
<1>1. PICK p \in Ranks :
        /\ OnlyPair(p)
        /\ \/ PutChunk(p) \/ FinishSend(p) \/ TakeChunk(p) \/ EndsRecv(p) \/ Quiet(p)
           \/ \E a \in Arguments : EnterSend(p, a) \/ EnterRecv(p, a)
  BY PairSteps
<1> SUFFICES ASSUME NEW pair \in Pairs PROVE PairInv(pair)'
  BY RanksFit DEF Flow, Pairs
<1>2. PICK q : q = PairOf(p)
  OBVIOUS
<1>3. InCall(p)' => PairOf(p)' = q
  BY <1>1, <1>2, SameCall DEF OnlyPair
<1>4. CASE pair # q
  BY <1>1, <1>2, <1>3, <1>4, OtherPairs DEF OnlyPair
<1>5. CASE pair = q /\ ~Quiet(p)
  BY <1>1, <1>2, <1>5, PutKeeps, FinishSendKeeps, TakeKeeps, EndsRecvKeeps,
     EnterSendKeeps, EnterRecvKeeps
<1>6. CASE pair = q /\ Quiet(p)
  <2> DEFINE s == pair[1]
             d == pair[2]
  <2>1. s \in Ranks /\ d \in Ranks
    BY PairTyped DEF IInv
  <2>2. \A r \in Ranks :
          /\ InCall(r)' <=> InCall(r)
          /\ InCall(r) => Current(r)' = Current(r) /\ PairOf(r)' = PairOf(r)
    <3> SUFFICES ASSUME NEW r \in Ranks
                 PROVE  /\ InCall(r)' <=> InCall(r)
                        /\ InCall(r) => /\ Current(r)' = Current(r)
                                        /\ PairOf(r)' = PairOf(r)
      OBVIOUS
    <3>1. InCall(r)' <=> InCall(r)
      BY <1>1, <1>6 DEF OnlyPair, Quiet, InCall
    <3>2. InCall(r) => status'[r] = status[r] /\ prog' = prog
      BY <1>1, <3>1 DEF OnlyPair
    <3> QED
      BY <3>1, <3>2, SameCall
  <2>3. (Out(pair)' <=> Out(pair)) /\ (In(pair)' <=> In(pair))
    BY <2>1, <2>2 DEF Out, In
  <2>4. /\ Out(pair) => Current(s)' = Current(s)
        /\ In(pair) => Current(d)' = Current(d)
    BY <2>1, <2>2 DEF Out, In
  <2> QED
    BY <1>6, <2>3, <2>4, SamePair DEF Quiet
<1> QED
  BY <1>4, <1>5, <1>6

LEMMA SizesGrow ==
  ASSUME IInv, Next, NEW pair \in Pairs
  PROVE  /\ \/ sent'[pair] = sent[pair]
            \/ \E n \in 1 .. MaxSize : sent'[pair] = Append(sent[pair], n)
         /\ \/ asked'[pair] = asked[pair]
            \/ \E n \in 1 .. MaxSize : asked'[pair] = Append(asked[pair], n)
<1>1. PICK p \in Ranks :
        /\ OnlyPair(p)
        /\ \/ PutChunk(p) \/ FinishSend(p) \/ TakeChunk(p) \/ EndsRecv(p) \/ Quiet(p)
           \/ \E a \in Arguments : EnterSend(p, a) \/ EnterRecv(p, a)
  BY PairSteps
<1>2. CASE pair # PairOf(p)
  BY <1>1, <1>2 DEF OnlyPair
<1>3. CASE \/ PutChunk(p) \/ FinishSend(p) \/ TakeChunk(p) \/ EndsRecv(p) \/ Quiet(p)
  BY <1>3 DEF PutChunk, FinishSend, TakeChunk, EndsRecv, Quiet
<1>4. ASSUME NEW a \in Arguments, EnterSend(p, a) \/ EnterRecv(p, a), pair = PairOf(p)
      PROVE  /\ \/ sent'[pair] = sent[pair]
                \/ \E n \in 1 .. MaxSize : sent'[pair] = Append(sent[pair], n)
             /\ \/ asked'[pair] = asked[pair]
                \/ \E n \in 1 .. MaxSize : asked'[pair] = Append(asked[pair], n)
  <2>1. Bytes(Current(p)) \in 1 .. MaxSize
    BY <1>4, Accepted DEF EnterSend, EnterRecv, IInv
  <2> QED
    BY <1>4, <2>1 DEF EnterSend, EnterRecv, IInv, TypeOK
<1> QED
  BY <1>1, <1>2, <1>3, <1>4

LEMMA TruncatedStep == ASSUME IInv, Next PROVE TruncatedOnlyIfUnequal'
<1>1. PICK p \in Ranks :
        \/ PutChunk(p) \/ SendReturns(p) \/ SendBuffered(p) \/ FinishSend(p)
        \/ TakeChunk(p) \/ Truncated(p) \/ FinishRecv(p) \/ CopyOutFails(p)
        \/ \E a \in Arguments :
             \/ EnterSend(p, a) \/ EnterRecv(p, a)
             \/ Refuse(p, a) \/ NoMemory(p, a) \/ CopyInFails(p, a)
  BY NextCases
<1>2. /\ p \notin aborted /\ prog' = prog
      /\ \A r \in Ranks : r # p => status'[r] = status[r]
      /\ aborted' # aborted => Truncated(p)
  BY <1>1 DEF PutChunk, SendReturns, SendBuffered, FinishSend, TakeChunk, Truncated,
     FinishRecv, CopyOutFails, ReceivedAll, EnterSend, EnterRecv, Refuse, NoMemory,
     CopyInFails, Return, Calls, IInv, TypeOK
<1>3. \A r \in aborted : r \in Ranks /\ InCall(r) /\ ~AgreedSoFar(PairOf(r))
  BY DEF IInv, TypeOK, EndedInRecv, TruncatedOnlyIfUnequal, AgreedSoFar
<1>4. ASSUME NEW r \in aborted PROVE ~AgreedSoFar(PairOf(r))'
  <2>1. r \in Ranks /\ r # p /\ InCall(r) /\ ~AgreedSoFar(PairOf(r))
    BY <1>2, <1>3
  <2>2. PICK q \in Pairs : q = PairOf(r)
    BY <2>1, CallTyped DEF IInv
  <2>3. PairOf(r)' = q
    BY <1>2, <2>1, <2>2, SameCall
  <2>4. ~AgreedSoFar(q)'
    BY <2>1, <2>2, AgreedBefore, SizesGrow
  <2> QED
    BY <2>3, <2>4 DEF AgreedSoFar
<1>5. ASSUME Truncated(p) PROVE ~AgreedSoFar(PairOf(p))'
  <2>1. /\ InCall(p) /\ Current(p).op = "recv" /\ offset[p] < Bytes(Current(p))
        /\ chan[PairOf(p)] # <<>>
        /\ Head(chan[PairOf(p)]).len > Chunk(Bytes(Current(p)), offset[p])
        /\ UNCHANGED <<prog, status, sent, asked>>
    BY <1>5 DEF Truncated, InCall, MoreToRecv, RecvChunk
  <2>2. PICK q \in Pairs : q = PairOf(p)
    BY <2>1, CallTyped DEF IInv
  <2>3. PairOf(p)' = q
    BY <2>1, <2>2, SameCall
  <2>4. ~AgreedSoFar(q)
    <3>1. /\ chan[q] \in Seq(ChunkRecord) /\ Head(chan[q]) = chan[q][1]
          /\ Bytes(Current(p)) \in Nat /\ offset[p] \in Nat
      BY <2>1, <2>2, PairTyped, RankTyped, CallTyped DEF IInv
    <3>2. Chunk(Bytes(Current(p)), offset[p]) \in Nat
      BY <2>1, <3>1, ChunkFits
    <3> QED
      BY <2>1, <2>2, <3>1, <3>2, HeadFits
  <2>5. ~AgreedSoFar(q)'
    BY <2>1, <2>4 DEF AgreedSoFar, Channel!Agreed
  <2> QED
    BY <2>3, <2>5 DEF AgreedSoFar
<1>6. aborted' \subseteq aborted \/ (Truncated(p) /\ aborted' \subseteq aborted \cup {p})
  BY <1>2 DEF Truncated
<1> QED
  BY <1>4, <1>5, <1>6 DEF TruncatedOnlyIfUnequal, AgreedSoFar

------------------------------------------------------------------------------
LEMMA InitIInv == ASSUME Init PROVE IInv
<1> USE DEF Init
<1>1. /\ \A pair \in Pairs : /\ sent[pair] = <<>> /\ asked[pair] = <<>>
                             /\ chan[pair] = <<>> /\ delivered[pair] = <<>>
      /\ \A p \in Ranks : pc[p] = "idle" /\ status[p] = <<>> /\ staged[p] = 0
      /\ \A pair \in Pairs : pair[1] \in Ranks /\ pair[2] \in Ranks
  BY DEF Pairs
<1>2. TypeOK
  BY DEF TypeOK
<1>3. CallsChecked /\ EndedInRecv /\ TruncatedOnlyIfUnequal
  BY <1>1 DEF CallsChecked, EndedInRecv, TruncatedOnlyIfUnequal, InCall
<1>4. StagedExact
  <2>1. \A p \in Ranks : Errors(status[p]) = {}
    BY <1>1 DEF Errors
  <2>2. \A p \in Ranks : Cardinality(Errors(status[p])) = 0
    BY <2>1, FS_EmptySet
  <2>3. \A p \in Ranks : staged[p] = 0 /\ ~InCall(p)
    BY <1>1 DEF InCall
  <2> HIDE DEF Init
  <2> QED
    BY <2>2, <2>3 DEF StagedExact
<1>5. ASSUME NEW pair \in Pairs PROVE PairInv(pair)
  <2>1. ~Out(pair) /\ ~In(pair)
    BY <1>1 DEF Out, In, InCall
  <2> QED
    BY <1>1, <2>1 DEF PairInv, Counted, ChunksFollow, InStep, Arrived, SendAt, RecvAt
<1> QED
  BY <1>2, <1>3, <1>4, <1>5 DEF IInv, Flow

LEMMA Stutter == ASSUME IInv, UNCHANGED vars PROVE IInv'
<1> USE DEF vars
<1>1. TypeOK'
  BY DEF IInv, TypeOK
<1>2. /\ \A p : /\ Number(p)' = Number(p) /\ Current(p)' = Current(p)
                /\ PairOf(p)' = PairOf(p) /\ (InCall(p)' <=> InCall(p))
      /\ \A pair : (Out(pair)' <=> Out(pair)) /\ (In(pair)' <=> In(pair))
      /\ \A pair : AgreedSoFar(pair)' <=> AgreedSoFar(pair)
  BY DEF Number, Current, PairOf, InCall, Out, In, AgreedSoFar, Channel!Agreed
<1>3. CallsChecked' /\ StagedExact' /\ EndedInRecv'
  BY <1>2 DEF IInv, CallsChecked, StagedExact, EndedInRecv, Bytes, InCall, Number,
     Current, Errors
<1>4. TruncatedOnlyIfUnequal'
  BY DEF IInv, TruncatedOnlyIfUnequal, Channel!Agreed, PairOf, Current, Number
<1>5. Flow'
  <2> SUFFICES ASSUME NEW pair \in Pairs PROVE PairInv(pair)'
    BY RanksFit DEF Flow, Pairs
  <2>1. (Out(pair)' <=> Out(pair)) /\ (In(pair)' <=> In(pair))
    BY <1>2
  <2>2. Current(pair[1])' = Current(pair[1]) /\ Current(pair[2])' = Current(pair[2])
    BY DEF Current, Number
  <2> QED
    BY <2>1, <2>2, SamePair
<1> QED
  BY <1>1, <1>3, <1>4, <1>5 DEF IInv

\* The invariant holds in every state.
THEOREM Inductive == Spec => []IInv
<1>1. Init => IInv
  BY InitIInv
<1>2. IInv /\ [Next]_vars => IInv'
  BY TypeStep, ChecksStep, StagedStep, FlowStep, TruncatedStep, Stutter DEF IInv
<1> QED
  BY <1>1, <1>2, PTL DEF Spec

------------------------------------------------------------------------------
\* Every variable stays in its type, in every state, for every number of ranks.
THEOREM Typing == Spec => []TypeOK
<1>1. IInv => TypeOK
  BY DEF IInv
<1> QED
  BY <1>1, Inductive, PTL

\* A rank between calls holds a host buffer for each copy that failed and no
\* other, whatever its calls were and whichever way they ended (send.h, recv.h).
THEOREM NoBufferKept == Spec => []BuffersReleased
<1>1. ASSUME IInv PROVE BuffersReleased
  <2> SUFFICES ASSUME NEW p \in Ranks, pc[p] = "idle"
               PROVE  staged[p] = Cardinality(Errors(status[p]))
    BY DEF BuffersReleased, Errors
  <2> QED
    BY <1>1, ErrorsFinite DEF IInv, StagedExact, InCall
<1> QED
  BY <1>1, Inductive, PTL

\* MPI ends no receiver for a chunk that is too long unless the two ranks have
\* named different sizes, for chunks of any length (send.h:54-62, recv.h:49-58).
THEOREM NoFalseTruncation == Spec => []TruncatedOnlyIfUnequal
<1>1. IInv => TruncatedOnlyIfUnequal
  BY DEF IInv
<1> QED
  BY <1>1, Inductive, PTL

\* What a pair has sent and received in whole leaves no chunk for the calls
\* that come later (send.h:54-62, recv.h:49-58).
THEOREM NoChunkLeft == Spec => []NothingLeftInMpi
<1>1. ASSUME IInv PROVE NothingLeftInMpi
  <2> SUFFICES ASSUME NEW q \in Pairs, pc[q[1]] = "idle", pc[q[2]] = "idle",
                      Len(sent[q]) = Len(asked[q]),
                      Channel!Agreed(q, Len(sent[q])), chan[q] # <<>>
               PROVE  FALSE
    BY DEF NothingLeftInMpi
  <2> DEFINE n == Len(sent[q])
             c == chan[q][1]
  <2>1. /\ PairInv(q) /\ n \in Nat /\ chan[q] \in Seq(ChunkRecord)
        /\ sent[q] \in Seq(1 .. MaxSize)
    BY <1>1, PairTyped DEF IInv, Flow
  <2>2. RecvAt(q) = <<n + 1, 0>> /\ AgreedSoFar(q)
    BY DEF RecvAt, In, InCall, AgreedSoFar
  <2>3. c.msg = n + 1 /\ c.msg \in 1 .. n
    BY <1>1, <2>2, FirstChunk DEF Start
  <2> HIDE DEF n, c
  <2> QED
    BY <2>1, <2>3
<1> QED
  BY <1>1, Inductive, PTL

\* The two together: the chunks of a message are cut and taken alike.
THEOREM ChunksAlike == Spec => []ChunksMatch
<1>1. TruncatedOnlyIfUnequal /\ NothingLeftInMpi => ChunksMatch
  BY DEF ChunksMatch
<1> QED
  BY <1>1, NoFalseTruncation, NoChunkLeft, PTL

------------------------------------------------------------------------------
\* The steps of the channel that a step of the program makes.
LEMMA SendIsSend ==
  ASSUME IInv, NEW p \in Ranks, NEW a \in Arguments, EnterSend(p, a)
  PROVE  Channel!Next
<1>1. PairOf(p) \in Pairs /\ Bytes(Current(p)) \in 1 .. MaxSize
  BY Accepted DEF EnterSend, IInv
<1>2. Channel!Send(PairOf(p), Bytes(Current(p)))
  BY DEF EnterSend, Channel!Send
<1> QED
  BY <1>1, <1>2 DEF Channel!Next, Channel!Pairs, Pairs

LEMMA RecvIsAsk ==
  ASSUME IInv, NEW p \in Ranks, NEW a \in Arguments, EnterRecv(p, a)
  PROVE  Channel!Next
<1>1. PairOf(p) \in Pairs /\ Bytes(Current(p)) \in 1 .. MaxSize
  BY Accepted DEF EnterRecv, IInv
<1>2. PICK q \in Pairs : q = PairOf(p)
  BY <1>1
<1>3. Counted(q)
  BY DEF IInv, Flow, PairInv
<1>4. q[2] = p /\ ~In(q)
  BY <1>2 DEF EnterRecv, Calls, PairOf, In, InCall
<1>5. Channel!Ask(q, Bytes(Current(p)))
  BY <1>2, <1>3, <1>4 DEF EnterRecv, Counted, Channel!Ask
<1> QED
  BY <1>1, <1>5 DEF Channel!Next, Channel!Pairs, Pairs

\* A receive that has asked for all its chunks has the whole message.
LEMMA WholeMessage ==
  ASSUME IInv, NEW p \in Ranks, NEW q \in Pairs, q = PairOf(p), ReceivedAll(p),
         AgreedSoFar(q)
  PROVE  /\ Len(asked[q]) <= Len(sent[q])
         /\ sent[q][Len(asked[q])] = Bytes(Current(p))
         /\ \A i \in 0 .. Bytes(Current(p)) - 1 :
              i \in DOMAIN buffer[p] /\ buffer[p][i] = <<Len(asked[q]), i>>
<1> DEFINE total == Bytes(Current(p))
           k == Len(asked[q])
           n == Len(sent[q])
<1>1. InCall(p) /\ Current(p).op = "recv" /\ ~(offset[p] < total)
  BY DEF ReceivedAll, InCall, MoreToRecv
<1>2. PairInv(q) /\ q[2] = p /\ In(q)
  BY <1>1, SidesOf
<1>3. /\ total \in 1 .. MaxSize /\ offset[p] \in Nat /\ chan[q] \in Seq(ChunkRecord)
      /\ sent[q] \in Seq(1 .. MaxSize) /\ asked[q] \in Seq(1 .. MaxSize)
      /\ delivered[q] \in Seq(Delivery) /\ MaxSize \in Nat
  BY <1>1, CallTyped, RankTyped, PairTyped, ChannelAssumption DEF IInv
<1>4. k = Len(delivered[q]) + 1 /\ LastAsked(q) = total /\ offset[p] <= total
  BY <1>2 DEF PairInv, Counted
<1>5. offset[p] = total
  BY <1>1, <1>3, <1>4
<1>6. RecvAt(q) = <<k + 1, 0>>
  BY <1>1, <1>2, <1>4 DEF RecvAt
<1>7. k <= n
  <2>1. k \in Nat /\ n \in Nat
    BY <1>3
  <2>2. CASE chan[q] = <<>>
    <3>1. SendAt(q) = <<k + 1, 0>>
      BY <1>2, <1>6, <2>2 DEF PairInv, InStep
    <3>2. (Out(q) /\ offset[q[1]] < LastSent(q) /\ n = k + 1) \/ n + 1 = k + 1
      BY <3>1 DEF SendAt
    <3> HIDE DEF k, n
    <3> QED
      BY <2>1, <3>2
  <2>3. CASE chan[q] # <<>>
    <3>1. chan[q][1].msg = k + 1 /\ chan[q][1].msg \in 1 .. n
      BY <1>6, <2>3, FirstChunk DEF Start
    <3> HIDE DEF k, n
    <3> QED
      BY <2>1, <3>1
  <2> QED
    BY <2>2, <2>3
<1>8. sent[q][k] = total
  <2>1. k \in Nat \ {0} /\ n \in Nat
    BY <1>3, <1>4
  <2>2. DOMAIN sent[q] = 1 .. n /\ DOMAIN asked[q] = 1 .. k
    BY <1>3
  <2> HIDE DEF k, n
  <2>3. k \in 1 .. k /\ k \in 1 .. n
    BY <1>7, <2>1
  <2>4. sent[q][k] = asked[q][k]
    BY <2>2, <2>3 DEF AgreedSoFar, Channel!Agreed, k
  <2> QED
    BY <1>4, <2>4 DEF LastAsked, k
<1>9. \A i \in 0 .. total - 1 : i \in DOMAIN buffer[p] /\ buffer[p][i] = <<k, i>>
  BY <1>2, <1>5 DEF PairInv, Arrived
<1> QED
  BY <1>7, <1>8, <1>9

LEMMA RecvIsDeliver ==
  ASSUME IInv, NEW p \in Ranks, FinishRecv(p) \/ CopyOutFails(p)
  PROVE  Channel!Next
<1> DEFINE all == [i \in 1 .. Bytes(Current(p)) |->
                     IF i - 1 \in DOMAIN buffer[p] THEN buffer[p][i - 1] ELSE Junk]
<1>1. ReceivedAll(p) /\ InCall(p) /\ Current(p).op = "recv"
  BY DEF FinishRecv, CopyOutFails, ReceivedAll, InCall
<1>2. PICK q \in Pairs : q = PairOf(p)
  BY <1>1, CallTyped DEF IInv
<1>3. PairInv(q) /\ In(q)
  BY <1>1, <1>2, SidesOf
<1>4. PICK value \in {all, Lost} :
        /\ delivered' = [delivered EXCEPT ![q] = Append(delivered[q], value)]
        /\ UNCHANGED <<sent, asked>>
  BY <1>2 DEF FinishRecv, CopyOutFails
<1> DEFINE k == Len(delivered[q]) + 1
<1>5. delivered[q] \in Seq(Delivery) /\ DOMAIN delivered = Pairs
  BY PairTyped DEF IInv, TypeOK
<1>6. value \in Delivery
  <2>1. Bytes(Current(p)) \in 1 .. MaxSize
    BY <1>1, CallTyped DEF IInv
  <2>2. all \in Delivery /\ Lost \in Delivery
    BY <2>1, CopiedTyped DEF IInv
  <2> QED
    BY <1>4, <2>2
<1>7. delivered'[q] = Append(delivered[q], value) /\ delivered'[q][k] = value
      /\ k = Len(delivered'[q])
  BY <1>4, <1>5, <1>6, Appended
<1>8. k = Len(asked[q])
  BY <1>3 DEF PairInv, Counted
<1>9. ASSUME Channel!Agreed(q, k)
      PROVE  k <= Len(sent[q]) /\ value \in {Channel!Whole(k, sent[q][k]), Lost}
  <2>1. /\ k <= Len(sent[q]) /\ sent[q][k] = Bytes(Current(p))
        /\ \A i \in 0 .. Bytes(Current(p)) - 1 :
             i \in DOMAIN buffer[p] /\ buffer[p][i] = <<k, i>>
    BY <1>1, <1>2, <1>8, <1>9, WholeMessage DEF AgreedSoFar
  <2>2. all = Channel!Whole(k, sent[q][k])
    <3>1. Bytes(Current(p)) \in Nat
      BY <1>1, CallTyped DEF IInv
    <3>2. \A i \in 1 .. Bytes(Current(p)) :
            i - 1 \in 0 .. Bytes(Current(p)) - 1 /\ all[i] = <<k, i - 1>>
      BY <2>1, <3>1
    <3> QED
      BY <2>1, <3>2 DEF Channel!Whole
  <2> QED
    BY <1>4, <2>1, <2>2
<1> HIDE DEF k, all
<1>10. Channel!Deliver(q)
  BY <1>4, <1>7, <1>8, <1>9 DEF Channel!Deliver, k
<1> QED
  BY <1>10 DEF Channel!Next, Channel!Pairs, Pairs

\* The program gives what the channel promises: the k-th receive of a rank from
\* another gets the k-th message in whole, whatever the lengths of messages and
\* chunks, the buffering of MPI and the calls that failed before (send.h, recv.h).
THEOREM Delivers == Spec => DeliversInOrder
<1>1. Init => Channel!Init
  BY DEF Init, Channel!Init, Channel!Pairs, Pairs
<1>2. ASSUME IInv, [Next]_vars
      PROVE  [Channel!Next]_<<sent, asked, delivered>>
  <2>1. CASE UNCHANGED vars
    BY <2>1 DEF vars
  <2>2. CASE Next
    <3>1. PICK p \in Ranks :
            \/ PutChunk(p) \/ SendReturns(p) \/ SendBuffered(p) \/ FinishSend(p)
            \/ TakeChunk(p) \/ Truncated(p) \/ FinishRecv(p) \/ CopyOutFails(p)
            \/ \E a \in Arguments :
                 \/ EnterSend(p, a) \/ EnterRecv(p, a)
                 \/ Refuse(p, a) \/ NoMemory(p, a) \/ CopyInFails(p, a)
      BY <2>2, NextCases
    <3>2. CASE FinishRecv(p) \/ CopyOutFails(p)
      BY <1>2, <3>2, RecvIsDeliver
    <3>3. CASE \E a \in Arguments : EnterSend(p, a) \/ EnterRecv(p, a)
      BY <1>2, <3>3, SendIsSend, RecvIsAsk
    <3>4. CASE \/ PutChunk(p) \/ SendReturns(p) \/ SendBuffered(p) \/ FinishSend(p)
               \/ TakeChunk(p) \/ Truncated(p)
               \/ \E a \in Arguments :
                    Refuse(p, a) \/ NoMemory(p, a) \/ CopyInFails(p, a)
      BY <3>4 DEF PutChunk, SendReturns, SendBuffered, FinishSend, TakeChunk,
         Truncated, Refuse, NoMemory, CopyInFails
    <3> QED
      BY <3>1, <3>2, <3>3, <3>4
  <2> QED
    BY <1>2, <2>1, <2>2
<1> QED
  BY <1>1, <1>2, Inductive, PTL DEF Spec, DeliversInOrder, Channel!Spec

------------------------------------------------------------------------------
\* How many calls a rank has begun.
Begun(p) == Len(status[p]) + (IF InCall(p) THEN 1 ELSE 0)

\* The calls a rank has begun to send to, or to receive from, a peer.
CallsTo(p, op, peer) ==
  {i \in 1 .. Begun(p) :
     Carries(prog[p][i], p) /\ prog[p][i].op = op /\ prog[p][i].peer = peer}

\* The turns of these calls.
Turns(turn, p, op, peer) == {turn[prog][p][i] : i \in CallsTo(p, op, peer)}

AllWell == \A p \in Ranks : \A n \in DOMAIN status[p] : status[p][n] = "success"

Counts(S, s) == IsFiniteSet(S) /\ Cardinality(S) = Len(s)

\* While nothing has failed, what the ranks of a pair have begun is what they
\* have sent and asked for.
AllCounted(turn) ==
  \A p, q \in Ranks :
    /\ Counts(Turns(turn, p, "send", q), sent[<<p, q>>])
    /\ Counts(Turns(turn, q, "recv", p), asked[<<p, q>>])

CountInv(turn) ==
  /\ \A p \in Ranks : Begun(p) <= Len(prog[p])
  /\ AllWell /\ prog \notin Unsafe => AllCounted(turn)

\* Turns are counted again only when a call begins.
LEMMA TurnsStay ==
  ASSUME NEW turn, NEW p \in Ranks, prog' = prog, Begun(p)' = Begun(p), NEW op, NEW q
  PROVE  Turns(turn, p, op, q)' = Turns(turn, p, op, q)
BY DEF Turns, CallsTo, Carries, Bytes

LEMMA BegunTyped ==
  ASSUME TypeOK, NEW p \in Ranks
  PROVE  /\ Begun(p) \in Nat /\ Len(status[p]) \in Nat /\ Len(prog[p]) \in Nat
         /\ DOMAIN prog[p] = 1 .. Len(prog[p])
<1>1. /\ prog[p] \in Seq(Call)
      /\ status[p] \in Seq({"success", "invalid", "internal", "nomem", "error"})
  BY RankTyped
<1>2. /\ Len(prog[p]) \in Nat /\ DOMAIN prog[p] = 1 .. Len(prog[p])
      /\ Len(status[p]) \in Nat
  BY <1>1
<1>3. \A n \in Nat : n + 0 \in Nat /\ n + 1 \in Nat
  OBVIOUS
<1>4. Begun(p) = Len(status[p]) + 0 \/ Begun(p) = Len(status[p]) + 1
  BY Zenon DEF Begun
<1>5. Begun(p) \in Nat
  BY <1>2, <1>3, <1>4, Zenon
<1> QED
  BY <1>2, <1>5

\* The turn of a call that begins, or ends at once.
LEMMA TurnAdded ==
  ASSUME NEW turn, TypeOK, NEW p \in Ranks, prog' = prog, Begun(p)' = Begun(p) + 1,
         NEW op, NEW q, NEW c, c = prog[p][Begun(p) + 1]
  PROVE  Turns(turn, p, op, q)' =
           IF Carries(c, p) /\ c.op = op /\ c.peer = q
           THEN Turns(turn, p, op, q) \cup {turn[prog][p][Begun(p) + 1]}
           ELSE Turns(turn, p, op, q)
<1> DEFINE n == Begun(p)
<1>1. n \in Nat /\ 1 .. n + 1 = (1 .. n) \cup {n + 1}
  BY BegunTyped
<1> DEFINE Good(i) == Carries(prog[p][i], p) /\ prog[p][i].op = op /\ prog[p][i].peer = q
<1>2. CallsTo(p, op, q) = {i \in 1 .. n : Good(i)}
  BY DEF CallsTo
<1>3. CallsTo(p, op, q)' = {i \in 1 .. n + 1 : Good(i)}
  BY DEF CallsTo, Carries, Bytes
<1>4. Turns(turn, p, op, q)' = {turn[prog][p][i] : i \in CallsTo(p, op, q)'}
  BY DEF Turns
<1>5. Good(n + 1) <=> Carries(c, p) /\ c.op = op /\ c.peer = q
  OBVIOUS
<1> HIDE DEF n, Good
<1>6. CASE Good(n + 1)
  <2>1. CallsTo(p, op, q)' = CallsTo(p, op, q) \cup {n + 1}
    BY <1>1, <1>2, <1>3, <1>6
  <2> QED
    BY <1>4, <1>5, <1>6, <2>1 DEF Turns, n
<1>7. CASE ~Good(n + 1)
  <2>1. CallsTo(p, op, q)' = CallsTo(p, op, q)
    BY <1>1, <1>2, <1>3, <1>7
  <2> QED
    BY <1>4, <1>5, <1>7, <2>1 DEF Turns
<1> QED
  BY <1>6, <1>7

\* The turns of a program are later than those before.
LEMMA TurnLater ==
  ASSUME NEW turn, InTurn(turn), TypeOK, prog \notin Unsafe, NEW p \in Ranks,
         NEW i \in DOMAIN prog[p], Carries(prog[p][i], p)
  PROVE  /\ turn[prog][p][i] \in Nat
         /\ \A j \in 1 .. i - 1 :
              Carries(prog[p][j], p) => turn[prog][p][j] < turn[prog][p][i]
<1>1. prog \in Programs \ Unsafe
  BY DEF TypeOK
<1> QED
  BY <1>1 DEF InTurn

\* The call that meets a call in its turn.
LEMMA TurnMet ==
  ASSUME NEW turn, InTurn(turn), TypeOK, prog \notin Unsafe, NEW p \in Ranks,
         NEW i \in DOMAIN prog[p], Carries(prog[p][i], p), NEW q, q = prog[p][i].peer
  PROVE  /\ q \in Ranks
         /\ \E j \in DOMAIN prog[q] :
              /\ Carries(prog[q][j], q) /\ turn[prog][q][j] = turn[prog][p][i]
              /\ prog[q][j].peer = p /\ prog[q][j].op # prog[p][i].op
<1>1. prog \in Programs \ Unsafe
  BY DEF TypeOK
<1>2. \E j \in DOMAIN prog[prog[p][i].peer] :
        /\ Carries(prog[prog[p][i].peer][j], prog[p][i].peer)
        /\ turn[prog][prog[p][i].peer][j] = turn[prog][p][i]
        /\ prog[prog[p][i].peer][j].peer = p /\ prog[prog[p][i].peer][j].op # prog[p][i].op
  BY <1>1 DEF InTurn
<1> QED
  BY <1>2, PeerFits DEF Carries

\* A new call has a new turn.
LEMMA TurnIsNew ==
  ASSUME NEW turn, InTurn(turn), TypeOK, prog \notin Unsafe, NEW p \in Ranks,
         Begun(p) + 1 \in DOMAIN prog[p], Carries(prog[p][Begun(p) + 1], p),
         NEW op, NEW q
  PROVE  turn[prog][p][Begun(p) + 1] \notin Turns(turn, p, op, q)
<1> DEFINE n == Begun(p) + 1
<1>1. Begun(p) \in Nat /\ n - 1 = Begun(p)
  BY BegunTyped
<1>2. turn[prog][p][n] \in Nat
      /\ \A j \in 1 .. n - 1 : Carries(prog[p][j], p) => turn[prog][p][j] < turn[prog][p][n]
  BY TurnLater
<1> SUFFICES ASSUME NEW i \in CallsTo(p, op, q), turn[prog][p][i] = turn[prog][p][n]
             PROVE  FALSE
  BY DEF Turns
<1>3. i \in 1 .. Begun(p) /\ Carries(prog[p][i], p)
  BY DEF CallsTo
<1>4. turn[prog][p][n] < turn[prog][p][n]
  BY <1>1, <1>2, <1>3
<1> HIDE DEF n
<1> QED
  BY <1>2, <1>4

LEMMA CountOneMore ==
  ASSUME NEW S, NEW T, NEW s \in Seq(T), Counts(S, s), NEW t, t \notin S, NEW e \in T
  PROVE  Counts(S \cup {t}, Append(s, e))
<1>1. IsFiniteSet(S \cup {t}) /\ Cardinality(S \cup {t}) = Cardinality(S) + 1
  BY FS_AddElement DEF Counts
<1>2. Len(Append(s, e)) = Len(s) + 1
  OBVIOUS
<1> QED
  BY <1>1, <1>2 DEF Counts

\* What a step does to the calls that have begun.
LEMMA BegunStep ==
  ASSUME IInv, Next
  PROVE  \E p \in Ranks :
           /\ prog' = prog /\ (AllWell' => AllWell)
           /\ \A q \in Ranks : q # p => Begun(q)' = Begun(q)
           /\ \/ Begun(p)' = Begun(p) /\ UNCHANGED <<sent, asked>>
              \/ /\ Begun(p)' = Begun(p) + 1 /\ Begun(p) + 1 \in DOMAIN prog[p]
                 /\ LET c == prog[p][Begun(p) + 1] IN
                    \/ UNCHANGED <<sent, asked>> /\ (AllWell' => ~Carries(c, p))
                    \/ /\ Carries(c, p) /\ c.op = "send" /\ asked' = asked
                       /\ sent' = [sent EXCEPT ![<<p, c.peer>>] = Append(@, Bytes(c))]
                    \/ /\ Carries(c, p) /\ c.op = "recv" /\ sent' = sent
                       /\ asked' = [asked EXCEPT ![<<c.peer, p>>] = Append(@, Bytes(c))]
<1> USE DEF IInv
<1> DEFINE Statuses == {"success", "invalid", "internal", "nomem", "error"}
<1>1. PICK p \in Ranks :
        \/ PutChunk(p) \/ SendReturns(p) \/ SendBuffered(p) \/ FinishSend(p)
        \/ TakeChunk(p) \/ Truncated(p) \/ FinishRecv(p) \/ CopyOutFails(p)
        \/ \E a \in Arguments :
             \/ EnterSend(p, a) \/ EnterRecv(p, a)
             \/ Refuse(p, a) \/ NoMemory(p, a) \/ CopyInFails(p, a)
  BY NextCases
<1>2. Len(status[p]) \in Nat /\ status[p] \in Seq(Statuses)
  BY BegunTyped, RankTyped
\* Others are as they were; a call that ends adds its status.
<1> DEFINE Same == \A q \in Ranks : q # p => pc'[q] = pc[q] /\ status'[q] = status[q]
<1>3. ASSUME Same PROVE \A q \in Ranks : q # p => Begun(q)' = Begun(q)
  BY <1>3 DEF Begun, InCall
<1>4. ASSUME Same, status'[p] = status[p] PROVE AllWell' => AllWell
  <2>1. \A q \in Ranks : status'[q] = status[q]
    BY <1>4
  <2> QED
    BY <2>1 DEF AllWell
<1>5. ASSUME NEW s \in Statuses, Return(p, s)
      PROVE  /\ Same /\ pc'[p] = "idle" /\ Len(status'[p]) = Len(status[p]) + 1
             /\ Begun(p)' = Len(status[p]) + 1
             /\ (AllWell' => AllWell /\ s = "success")
  <2>1. /\ Same /\ pc'[p] = "idle" /\ status'[p] = Append(status[p], s)
    BY <1>5, Returned
  <2>2. /\ Len(status'[p]) = Len(status[p]) + 1 /\ status'[p][Len(status[p]) + 1] = s
        /\ DOMAIN status[p] = 1 .. Len(status[p])
        /\ DOMAIN status'[p] = 1 .. Len(status[p]) + 1
        /\ \A n \in DOMAIN status[p] : status'[p][n] = status[p][n]
    BY <1>2, <2>1, Appended
  <2>3. Begun(p)' = Len(status[p]) + 1
    BY <1>2, <2>1, <2>2 DEF Begun, InCall
  <2>4. ASSUME AllWell' PROVE AllWell /\ s = "success"
    <3>1. \A q \in Ranks : \A n \in DOMAIN status'[q] : status'[q][n] = "success"
      BY <2>4 DEF AllWell
    <3>2. \A q \in Ranks : \A n \in DOMAIN status[q] :
            n \in DOMAIN status'[q] /\ status'[q][n] = status[q][n]
      BY <1>2, <2>1, <2>2
    <3>3. Len(status[p]) + 1 \in DOMAIN status'[p]
      BY <1>2, <2>2
    <3> QED
      BY <2>2, <3>1, <3>2, <3>3 DEF AllWell
  <2> QED
    BY <2>1, <2>2, <2>3, <2>4
\* A step in a call, and the end of a call.
<1>6. ASSUME PutChunk(p) \/ SendReturns(p) \/ SendBuffered(p) \/ TakeChunk(p) \/ Truncated(p)
      PROVE  Same /\ status'[p] = status[p] /\ Begun(p)' = Begun(p)
             /\ prog' = prog /\ UNCHANGED <<sent, asked>>
  <2>1. /\ status' = status /\ prog' = prog /\ UNCHANGED <<sent, asked>>
        /\ pc[p] # "idle" /\ pc'[p] # "idle" /\ \A q \in Ranks : q # p => pc'[q] = pc[q]
    BY <1>6 DEF PutChunk, SendReturns, SendBuffered, TakeChunk, Truncated, TypeOK
  <2> QED
    BY <2>1 DEF Begun, InCall
<1>7. ASSUME FinishSend(p) \/ FinishRecv(p) \/ CopyOutFails(p)
      PROVE  Same /\ Begun(p)' = Begun(p) /\ prog' = prog /\ UNCHANGED <<sent, asked>>
             /\ (AllWell' => AllWell)
  <2>1. PICK s \in Statuses : Return(p, s)
    BY <1>7 DEF FinishSend, FinishRecv, CopyOutFails
  <2>2. pc[p] # "idle" /\ prog' = prog /\ UNCHANGED <<sent, asked>>
    BY <1>7 DEF FinishSend, FinishRecv, CopyOutFails, ReceivedAll
  <2>3. Begun(p) = Len(status[p]) + 1
    BY <2>2 DEF Begun, InCall
  <2> QED
    BY <1>5, <2>1, <2>2, <2>3
\* A call that ends at once.
<1>8. ASSUME NEW a \in Arguments, Calls(p, a)
      PROVE  /\ Begun(p) = Len(status[p]) /\ Begun(p) + 1 \in DOMAIN prog[p]
             /\ Current(p) = prog[p][Begun(p) + 1] /\ Current(p) \in Call
  <2>1. Begun(p) = Len(status[p]) + 0
    BY <1>8 DEF Calls, Begun, InCall
  <2>2. Begun(p) = Len(status[p])
    BY <1>2, <2>1
  <2>3. Begun(p) + 1 \in DOMAIN prog[p]
    BY <1>2, <1>8, <2>2, BegunTyped DEF Calls
  <2>4. Current(p) = prog[p][Begun(p) + 1]
    BY <2>2 DEF Current, Number
  <2> QED
    BY <2>2, <2>3, <2>4, RankTyped
<1>9. ASSUME NEW a \in Arguments, Refuse(p, a) \/ NoMemory(p, a) \/ CopyInFails(p, a)
      PROVE  /\ Calls(p, a) /\ prog' = prog /\ UNCHANGED <<sent, asked>>
             /\ \E s \in Statuses : Return(p, s) /\ (s = "success" => ~Carries(Current(p), p))
  <2>1. Calls(p, a) /\ prog' = prog /\ UNCHANGED <<sent, asked>>
    BY <1>9 DEF Refuse, NoMemory, CopyInFails
  <2>2. CASE NoMemory(p, a) \/ CopyInFails(p, a)
    BY <2>1, <2>2 DEF NoMemory, CopyInFails
  <2>3. CASE Refuse(p, a)
    <3> DEFINE s == Checked(Current(p), p, a)
    <3>1. Return(p, s) /\ s # "go" /\ Current(p) \in Call
      BY <1>8, <2>1, <2>3 DEF Refuse
    <3>2. Current(p).count \in Nat /\ Current(p).width \in Nat
      BY <3>1 DEF Call
    <3>3. s \in Statuses /\ (s = "success" => Current(p).count = 0)
      BY <3>1, <3>2 DEF Checked
    <3>4. Current(p).count = 0 => ~Carries(Current(p), p)
      BY <3>2 DEF Carries, Bytes
    <3> QED
      BY <2>1, <3>1, <3>3, <3>4
  <2> QED
    BY <1>9, <2>1, <2>2, <2>3
<1>10. ASSUME NEW a \in Arguments, EnterSend(p, a) \/ EnterRecv(p, a)
       PROVE  /\ Calls(p, a) /\ prog' = prog /\ Same /\ status'[p] = status[p]
              /\ Begun(p)' = Begun(p) + 1 /\ Carries(Current(p), p)
              /\ \/ /\ Current(p).op = "send" /\ asked' = asked
                    /\ sent' = [sent EXCEPT ![<<p, Current(p).peer>>] =
                                  Append(@, Bytes(Current(p)))]
                 \/ /\ Current(p).op = "recv" /\ sent' = sent
                    /\ asked' = [asked EXCEPT ![<<Current(p).peer, p>>] =
                                   Append(@, Bytes(Current(p)))]
  <2>1. /\ Calls(p, a) /\ prog' = prog /\ Same /\ status'[p] = status[p]
        /\ pc'[p] = "mpi" /\ Checked(Current(p), p, a) = "go"
    BY <1>10 DEF EnterSend, EnterRecv, Calls, TypeOK
  <2>2. Carries(Current(p), p)
    BY <2>1, Accepted DEF Carries
  <2>3. Begun(p)' = Len(status[p]) + 1
    BY <2>1 DEF Begun, InCall
  <2>4. Begun(p)' = Begun(p) + 1
    BY <1>8, <2>1, <2>3
  <2>5. CASE EnterSend(p, a)
    BY <2>1, <2>2, <2>4, <2>5 DEF EnterSend, PairOf
  <2>6. CASE EnterRecv(p, a)
    BY <2>1, <2>2, <2>4, <2>6 DEF EnterRecv, PairOf
  <2> QED
    BY <1>10, <2>5, <2>6
<1> HIDE DEF Same, Statuses
<1>11. CASE PutChunk(p) \/ SendReturns(p) \/ SendBuffered(p) \/ TakeChunk(p) \/ Truncated(p)
  BY <1>3, <1>4, <1>6, <1>11
<1>12. CASE FinishSend(p) \/ FinishRecv(p) \/ CopyOutFails(p)
  BY <1>3, <1>7, <1>12
<1>13. ASSUME NEW a \in Arguments, Refuse(p, a) \/ NoMemory(p, a) \/ CopyInFails(p, a)
       PROVE  /\ prog' = prog /\ (AllWell' => AllWell) /\ Same
              /\ Begun(p)' = Begun(p) + 1 /\ Begun(p) + 1 \in DOMAIN prog[p]
              /\ UNCHANGED <<sent, asked>>
              /\ (AllWell' => ~Carries(prog[p][Begun(p) + 1], p))
  BY <1>5, <1>8, <1>9, <1>13
<1>14. CASE \E a \in Arguments : Refuse(p, a) \/ NoMemory(p, a) \/ CopyInFails(p, a)
  BY <1>3, <1>13, <1>14
<1>15. ASSUME NEW a \in Arguments, EnterSend(p, a) \/ EnterRecv(p, a)
       PROVE  /\ prog' = prog /\ (AllWell' => AllWell) /\ Same
              /\ Begun(p)' = Begun(p) + 1 /\ Begun(p) + 1 \in DOMAIN prog[p]
              /\ LET c == prog[p][Begun(p) + 1] IN
                 \/ /\ Carries(c, p) /\ c.op = "send" /\ asked' = asked
                    /\ sent' = [sent EXCEPT ![<<p, c.peer>>] = Append(@, Bytes(c))]
                 \/ /\ Carries(c, p) /\ c.op = "recv" /\ sent' = sent
                    /\ asked' = [asked EXCEPT ![<<c.peer, p>>] = Append(@, Bytes(c))]
  BY <1>4, <1>8, <1>10, <1>15
<1>16. CASE \E a \in Arguments : EnterSend(p, a) \/ EnterRecv(p, a)
  BY <1>3, <1>15, <1>16
<1> QED
  BY <1>1, <1>11, <1>12, <1>14, <1>16

Ops == {"send", "recv"}

\* The count of turns goes along with the messages.
LEMMA CountStep ==
  ASSUME NEW turn, InTurn(turn), IInv, CountInv(turn), Next
  PROVE  CountInv(turn)'
<1>1. PICK p \in Ranks :
           /\ prog' = prog /\ (AllWell' => AllWell)
           /\ \A q \in Ranks : q # p => Begun(q)' = Begun(q)
           /\ \/ Begun(p)' = Begun(p) /\ UNCHANGED <<sent, asked>>
              \/ /\ Begun(p)' = Begun(p) + 1 /\ Begun(p) + 1 \in DOMAIN prog[p]
                 /\ LET c == prog[p][Begun(p) + 1] IN
                    \/ UNCHANGED <<sent, asked>> /\ (AllWell' => ~Carries(c, p))
                    \/ /\ Carries(c, p) /\ c.op = "send" /\ asked' = asked
                       /\ sent' = [sent EXCEPT ![<<p, c.peer>>] = Append(@, Bytes(c))]
                    \/ /\ Carries(c, p) /\ c.op = "recv" /\ sent' = sent
                       /\ asked' = [asked EXCEPT ![<<c.peer, p>>] = Append(@, Bytes(c))]
  BY BegunStep
<1>2. TypeOK
  BY DEF IInv
<1>3. \A q \in Ranks : Begun(q)' <= Len(prog'[q])
  BY <1>1, <1>2, BegunTyped DEF CountInv
<1> SUFFICES ASSUME AllWell', prog' \notin Unsafe PROVE AllCounted(turn)'
  BY <1>3 DEF CountInv
<1>4. AllWell /\ prog \notin Unsafe /\ AllCounted(turn)
  BY <1>1 DEF CountInv
<1>5. \A q \in Ranks : Begun(q)' = Begun(q) =>
        \A r \in Ranks, op \in Ops : Turns(turn, q, op, r)' = Turns(turn, q, op, r)
  BY <1>1, TurnsStay
<1> DEFINE c == prog[p][Begun(p) + 1]
           t == turn[prog][p][Begun(p) + 1]
<1>6. CASE Begun(p)' = Begun(p) /\ UNCHANGED <<sent, asked>>
  <2>1. \A q, r \in Ranks, op \in Ops : Turns(turn, q, op, r)' = Turns(turn, q, op, r)
    BY <1>1, <1>5, <1>6
  <2> QED
    BY <1>4, <1>6, <2>1 DEF AllCounted, Counts, Ops
<1>7. CASE Begun(p)' = Begun(p) + 1 /\ Begun(p) + 1 \in DOMAIN prog[p]
  <2>1. \A r \in Ranks, op \in Ops : Turns(turn, p, op, r)' =
          IF Carries(c, p) /\ c.op = op /\ c.peer = r
          THEN Turns(turn, p, op, r) \cup {t} ELSE Turns(turn, p, op, r)
    BY <1>1, <1>2, <1>7, TurnAdded
  <2>2. Carries(c, p) => \A r \in Ranks, op \in Ops : t \notin Turns(turn, p, op, r)
    BY <1>2, <1>4, <1>7, TurnIsNew
  <2>3. \A q \in Ranks : q # p =>
          \A r \in Ranks, op \in Ops : Turns(turn, q, op, r)' = Turns(turn, q, op, r)
    BY <1>1, <1>5
  <2>4. Carries(c, p) => c.peer \in Ranks /\ Bytes(c) \in 1 .. MaxSize
    BY PeerFits DEF Carries
  <2>5. \A q, r \in Ranks : /\ sent[<<q, r>>] \in Seq(1 .. MaxSize)
                            /\ asked[<<q, r>>] \in Seq(1 .. MaxSize)
    BY <1>2, PairTyped DEF Pairs
  <2> HIDE DEF c, t
  <2>6. CASE UNCHANGED <<sent, asked>> /\ ~Carries(c, p)
    <3>1. \A q, r \in Ranks, op \in Ops : Turns(turn, q, op, r)' = Turns(turn, q, op, r)
      BY <2>1, <2>3, <2>6
    <3> QED
      BY <1>4, <2>6, <3>1 DEF AllCounted, Counts, Ops
  <2>7. CASE /\ Carries(c, p) /\ c.op = "send" /\ asked' = asked
             /\ sent' = [sent EXCEPT ![<<p, c.peer>>] = Append(@, Bytes(c))]
    <3>0. PICK k \in Ranks : k = c.peer /\ Bytes(c) \in 1 .. MaxSize
      BY <2>4, <2>7
    <3>1. /\ \A q, r \in Ranks : <<q, r>> # <<p, k>> => sent'[<<q, r>>] = sent[<<q, r>>]
          /\ sent'[<<p, k>>] = Append(sent[<<p, k>>], Bytes(c))
      BY <1>2, <2>7, <3>0 DEF TypeOK, Pairs
    <3>2. \A q, r \in Ranks :
            /\ Turns(turn, r, "recv", q)' = Turns(turn, r, "recv", q)
            /\ <<q, r>> # <<p, k>> =>
                 Turns(turn, q, "send", r)' = Turns(turn, q, "send", r)
      BY <2>1, <2>3, <2>7, <3>0 DEF Ops
    <3>3. Turns(turn, p, "send", k)' = Turns(turn, p, "send", k) \cup {t}
      BY <2>1, <2>7, <3>0 DEF Ops
    <3>4. Counts(Turns(turn, p, "send", k) \cup {t},
                 Append(sent[<<p, k>>], Bytes(c)))
      BY <1>4, <2>2, <2>5, <2>7, <3>0, CountOneMore DEF AllCounted, Ops
    <3>5. ASSUME NEW q \in Ranks, NEW r \in Ranks
          PROVE  /\ Counts(Turns(turn, q, "send", r), sent[<<q, r>>])'
                 /\ Counts(Turns(turn, r, "recv", q), asked[<<q, r>>])'
      <4>1. Counts(Turns(turn, r, "recv", q), asked[<<q, r>>])'
        BY <1>4, <2>7, <3>2 DEF AllCounted, Counts, Ops
      <4>2. CASE <<q, r>> = <<p, k>>
        BY <3>1, <3>3, <3>4, <4>1, <4>2 DEF Counts
      <4>3. CASE <<q, r>> # <<p, k>>
        BY <1>4, <3>1, <3>2, <4>1, <4>3 DEF AllCounted, Counts, Ops
      <4> QED
        BY <4>2, <4>3
    <3> QED
      BY <3>5 DEF AllCounted, Ops
  <2>8. CASE /\ Carries(c, p) /\ c.op = "recv" /\ sent' = sent
             /\ asked' = [asked EXCEPT ![<<c.peer, p>>] = Append(@, Bytes(c))]
    <3>0. PICK k \in Ranks : k = c.peer /\ Bytes(c) \in 1 .. MaxSize
      BY <2>4, <2>8
    <3>1. /\ \A q, r \in Ranks : <<q, r>> # <<k, p>> => asked'[<<q, r>>] = asked[<<q, r>>]
          /\ asked'[<<k, p>>] = Append(asked[<<k, p>>], Bytes(c))
      BY <1>2, <2>8, <3>0 DEF TypeOK, Pairs
    <3>2. \A q, r \in Ranks :
            /\ Turns(turn, q, "send", r)' = Turns(turn, q, "send", r)
            /\ <<q, r>> # <<k, p>> =>
                 Turns(turn, r, "recv", q)' = Turns(turn, r, "recv", q)
      BY <2>1, <2>3, <2>8, <3>0 DEF Ops
    <3>3. Turns(turn, p, "recv", k)' = Turns(turn, p, "recv", k) \cup {t}
      BY <2>1, <2>8, <3>0 DEF Ops
    <3>4. Counts(Turns(turn, p, "recv", k) \cup {t},
                 Append(asked[<<k, p>>], Bytes(c)))
      BY <1>4, <2>2, <2>5, <2>8, <3>0, CountOneMore DEF AllCounted, Ops
    <3>5. ASSUME NEW q \in Ranks, NEW r \in Ranks
          PROVE  /\ Counts(Turns(turn, q, "send", r), sent[<<q, r>>])'
                 /\ Counts(Turns(turn, r, "recv", q), asked[<<q, r>>])'
      <4>1. Counts(Turns(turn, q, "send", r), sent[<<q, r>>])'
        BY <1>4, <2>8, <3>2 DEF AllCounted, Counts, Ops
      <4>2. CASE <<q, r>> = <<k, p>>
        BY <3>1, <3>3, <3>4, <4>1, <4>2 DEF Counts
      <4>3. CASE <<q, r>> # <<k, p>>
        BY <1>4, <3>1, <3>2, <4>1, <4>3 DEF AllCounted, Counts, Ops
      <4> QED
        BY <4>2, <4>3
    <3> QED
      BY <3>5 DEF AllCounted, Ops
  <2> QED
    <3>1. Begun(p) \in Nat /\ Begun(p)' # Begun(p)
      BY <1>2, <1>7, BegunTyped
    <3> QED
      BY <1>1, <2>6, <2>7, <2>8, <3>1 DEF c
<1> QED
  BY <1>1, <1>6, <1>7

LEMMA CountInit ==
  ASSUME NEW turn, Init PROVE CountInv(turn)
<1>1. \A p \in Ranks : pc[p] = "idle" /\ status[p] = <<>>
  BY DEF Init
<1>2. \A p \in Ranks : Begun(p) = 0
  <2>1. \A p \in Ranks : Begun(p) = Len(status[p]) + 0
    BY <1>1, Zenon DEF Begun, InCall
  <2>2. \A p \in Ranks : Len(status[p]) = 0
    BY <1>1
  <2> QED
    BY <2>1, <2>2
<1>3. \A p, q \in Ranks, op \in Ops : Turns(turn, p, op, q) = {}
  BY <1>2 DEF Turns, CallsTo
<1>4. \A pair \in Pairs : sent[pair] = <<>> /\ asked[pair] = <<>>
  BY DEF Init
<1>5. AllCounted(turn)
  <2>1. Counts({}, <<>>)
    BY FS_EmptySet DEF Counts
  <2>2. \A p, q \in Ranks : sent[<<p, q>>] = <<>> /\ asked[<<p, q>>] = <<>>
    BY <1>4 DEF Pairs
  <2> QED
    BY <1>3, <2>1, <2>2 DEF AllCounted, Ops
<1>6. \A p \in Ranks : Len(prog[p]) \in Nat
  BY ChannelAssumption DEF Init
<1> QED
  BY <1>2, <1>5, <1>6 DEF CountInv

\* A call whose turn has come before the current one of p, or with it, and that
\* meets a call of p is a call q has made, if it has made the call that meets
\* the current one.
LEMMA MetBefore ==
  ASSUME NEW turn, InTurn(turn), IInv, prog \notin Unsafe,
         NEW p \in Ranks, NEW q \in Ranks, NEW op \in Ops, NEW other \in Ops, op # other,
         InCall(p), Current(p).op = op, Current(p).peer = q,
         NEW j \in 1 .. Len(status[q]), j \in DOMAIN prog[q], Carries(prog[q][j], q),
         turn[prog][q][j] = turn[prog][p][Number(p)]
  PROVE  /\ Turns(turn, p, op, q) \subseteq Turns(turn, q, other, p)
         /\ InCall(q) /\ Current(q).op = other /\ Current(q).peer = p =>
              \E t \in Turns(turn, q, other, p) : t \notin Turns(turn, p, op, q)
<1>1. /\ TypeOK /\ Number(p) \in DOMAIN prog[p] /\ Carries(Current(p), p)
      /\ Current(p) = prog[p][Number(p)]
  BY CallTyped DEF IInv, Carries, Current
<1>2. Begun(p) = Number(p) /\ Begun(p) \in Nat
  BY <1>1, BegunTyped DEF Begun, Number
<1>3. Begun(q) \in Nat /\ Len(status[q]) \in Nat /\ Len(status[q]) <= Begun(q)
  <2>1. Begun(q) = Len(status[q]) + 0 \/ Begun(q) = Len(status[q]) + 1
    BY Zenon DEF Begun
  <2> QED
    BY <1>1, <2>1, BegunTyped
<1> DEFINE now == turn[prog][p][Number(p)]
<1>4. \A i \in CallsTo(p, op, q) :
        /\ i \in DOMAIN prog[p] /\ turn[prog][p][i] \in Nat /\ turn[prog][p][i] <= now
        /\ Carries(prog[p][i], p) /\ prog[p][i].op = op /\ prog[p][i].peer = q
  <2> SUFFICES ASSUME NEW i \in CallsTo(p, op, q)
               PROVE  i \in DOMAIN prog[p] /\ turn[prog][p][i] \in Nat
                      /\ turn[prog][p][i] <= now
    BY DEF CallsTo
  <2>1. /\ i \in 1 .. Number(p) /\ Carries(prog[p][i], p)
        /\ Number(p) \in Nat /\ DOMAIN prog[p] = 1 .. Len(prog[p]) /\ Len(prog[p]) \in Nat
    BY <1>1, <1>2, BegunTyped DEF CallsTo
  <2>2. i \in DOMAIN prog[p]
    BY <1>1, <2>1
  <2>3. turn[prog][p][i] \in Nat
    BY <1>1, <2>1, <2>2, TurnLater
  <2>4. now \in Nat /\ \A k \in 1 .. Number(p) - 1 :
          Carries(prog[p][k], p) => turn[prog][p][k] < now
    BY <1>1, TurnLater
  <2>5. i = Number(p) \/ i \in 1 .. Number(p) - 1
    BY <2>1
  <2>6. turn[prog][p][i] <= now
    <3> HIDE DEF now
    <3>1. CASE i = Number(p)
      BY <2>3, <3>1 DEF now
    <3>2. CASE i \in 1 .. Number(p) - 1
      BY <2>1, <2>3, <2>4, <3>2
    <3> QED
      BY <2>5, <3>1, <3>2
  <2> QED
    BY <2>2, <2>3, <2>6
<1>5. now \in Nat /\ j \in Nat /\ turn[prog][q][j] = now
  BY <1>1, TurnLater
<1> HIDE DEF now
<1>6. ASSUME NEW i \in CallsTo(p, op, q)
      PROVE  turn[prog][p][i] \in Turns(turn, q, other, p)
  <2>1. PICK k \in DOMAIN prog[q] :
          /\ Carries(prog[q][k], q) /\ turn[prog][q][k] = turn[prog][p][i]
          /\ prog[q][k].peer = p /\ prog[q][k].op # op
    BY <1>1, <1>4, <1>6, TurnMet
  <2>2. k \in Nat \ {0} /\ turn[prog][q][k] <= now
    BY <1>1, <1>4, <1>6, <2>1, BegunTyped
  <2>3. turn[prog][q][k] \in Nat
        /\ \A l \in 1 .. k - 1 : Carries(prog[q][l], q) => turn[prog][q][l] < turn[prog][q][k]
    BY <1>1, <2>1, TurnLater
  <2>4. k <= j
    <3> SUFFICES ASSUME ~(k <= j) PROVE FALSE
      OBVIOUS
    <3>1. j \in 1 .. k - 1
      BY <1>3, <1>5, <2>2
    <3>2. turn[prog][q][j] < turn[prog][q][k]
      BY <2>3, <3>1
    <3> QED
      BY <1>5, <2>2, <2>3, <3>2
  <2>5. k \in 1 .. Begun(q)
    BY <1>3, <1>5, <2>2, <2>4
  <2>6. prog[q][k] \in Call
    BY <1>1, <2>1, RankTyped
  <2>7. prog[q][k].op = other
    BY <2>1, <2>6 DEF Call, Ops
  <2>8. k \in CallsTo(q, other, p)
    BY <2>1, <2>5, <2>7 DEF CallsTo
  <2> QED
    BY <2>1, <2>8 DEF Turns
<1>7. Turns(turn, p, op, q) \subseteq Turns(turn, q, other, p)
  BY <1>6 DEF Turns
<1>8. ASSUME InCall(q), Current(q).op = other, Current(q).peer = p
      PROVE  \E t \in Turns(turn, q, other, p) : t \notin Turns(turn, p, op, q)
  <2>1. /\ Number(q) \in DOMAIN prog[q] /\ Carries(Current(q), q)
        /\ Current(q) = prog[q][Number(q)]
    BY <1>8, CallTyped DEF IInv, Carries, Current
  <2>2. Begun(q) = Number(q) /\ Number(q) = Len(status[q]) + 1
    BY <1>8 DEF Begun, Number
  <2>3. Number(q) \in CallsTo(q, other, p)
    BY <1>3, <1>8, <2>1, <2>2 DEF CallsTo
  <2>4. /\ turn[prog][q][Number(q)] \in Nat
        /\ \A l \in 1 .. Number(q) - 1 :
             Carries(prog[q][l], q) => turn[prog][q][l] < turn[prog][q][Number(q)]
    BY <1>1, <2>1, TurnLater
  <2>5. now < turn[prog][q][Number(q)]
    <3>1. j \in 1 .. Number(q) - 1
      BY <1>3, <2>2
    <3> QED
      BY <1>5, <2>4, <3>1
  <2>6. \A t \in Turns(turn, p, op, q) : t \in Nat /\ t <= now
    BY <1>4 DEF Turns
  <2>7. turn[prog][q][Number(q)] \notin Turns(turn, p, op, q)
    BY <1>5, <2>4, <2>5, <2>6
  <2> QED
    BY <2>3, <2>7 DEF Turns
<1> QED
  BY <1>7, <1>8

LEMMA LeastTurn ==
  ASSUME NEW S \in SUBSET Nat, S # {}
  PROVE  \E m \in S : \A n \in S : ~(n < m)
<1> DEFINE R == OpToRel(<, Nat)
<1>1. IsWellFoundedOn(R, Nat)
  BY NatLessThanWellFounded
<1> HIDE DEF R
<1>2. PICK m \in S : \A n \in S : ~(<<n, m>> \in R)
  BY <1>1, WFMin
<1> QED
  BY <1>2 DEF R, OpToRel

LEMMA FewerTurns ==
  ASSUME NEW S, NEW T, NEW s, NEW t, Counts(S, s), Counts(T, t), S \subseteq T
  PROVE  /\ Len(s) <= Len(t)
         /\ (\E x \in T : x \notin S) => Len(s) # Len(t)
BY FS_Subset DEF Counts

\* A rank does not wait for a call that its peer has made.
LEMMA NotPastTurn ==
  ASSUME NEW turn, InTurn(turn), IInv, CountInv(turn), ~SomethingWrong,
         prog \notin Unsafe, NEW p \in Ranks, Waits(p), NEW q, q = Current(p).peer,
         NEW j \in 1 .. Len(status[q]), j \in DOMAIN prog[q], Carries(prog[q][j], q),
         turn[prog][q][j] = turn[prog][p][Number(p)]
  PROVE  FALSE
<1> DEFINE pair == PairOf(p)
           n == Len(sent[pair])
           m == Len(asked[pair])
<1>1. TypeOK /\ InCall(p) /\ q \in Ranks /\ Current(p).op \in Ops
  BY CallTyped DEF IInv, Waits, InCall, Ops
<1>2. AllCounted(turn) /\ AgreedSoFar(pair)
  <2>1. AllWell
    BY DEF SomethingWrong, AllWell
  <2>2. pair \in Pairs
    BY <1>1, CallTyped DEF IInv
  <2> QED
    BY <2>1, <2>2 DEF SomethingWrong, AgreedSoFar, CountInv
<1>3. /\ pair \in Pairs /\ PairInv(pair)
      /\ chan[pair] \in Seq(ChunkRecord) /\ n \in Nat /\ m \in Nat
  BY <1>1, SidesOf, PairTyped
<1>4. CASE pc[p] = "sending" /\ ~Received(p)
  <2>1. Current(p).op = "send" /\ pair = <<p, q>> /\ chan[pair] # <<>>
    BY <1>4 DEF IInv, CallsChecked, InCall, PairOf, Received
  <2>2. /\ Turns(turn, p, "send", q) \subseteq Turns(turn, q, "recv", p)
        /\ In(pair) => \E t \in Turns(turn, q, "recv", p) : t \notin Turns(turn, p, "send", q)
    <3>1. In(pair) => InCall(q) /\ Current(q).op = "recv" /\ Current(q).peer = p
      BY <2>1 DEF In, PairOf
    <3> QED
      BY <1>1, <2>1, <3>1, MetBefore DEF Ops
  <2>3. n <= m /\ (In(pair) => n # m)
    BY <1>1, <1>2, <2>1, <2>2, FewerTurns DEF AllCounted
  <2>4. chan[pair][1].msg \in 1 .. n /\ RecvAt(pair) = <<chan[pair][1].msg, chan[pair][1].from>>
    BY <1>2, <1>3, <2>1, FirstChunk DEF Start
  <2>5. chan[pair][1].msg = m + 1 \/ (In(pair) /\ chan[pair][1].msg = m)
    BY <2>4 DEF RecvAt
  <2> HIDE DEF n, m, pair
  <2> QED
    BY <1>3, <2>3, <2>4, <2>5
<1>5. CASE /\ pc[p] = "mpi" /\ Current(p).op = "recv"
           /\ MoreToRecv(Bytes(Current(p)), offset[p]) /\ chan[pair] = <<>>
  <2>1. pair = <<q, p>> /\ In(pair)
    BY <1>1, <1>5 DEF PairOf, In
  <2>2. /\ Turns(turn, p, "recv", q) \subseteq Turns(turn, q, "send", p)
        /\ Out(pair) => \E t \in Turns(turn, q, "send", p) : t \notin Turns(turn, p, "recv", q)
    <3>1. Out(pair) => InCall(q) /\ Current(q).op = "send" /\ Current(q).peer = p
      BY <2>1 DEF Out, PairOf
    <3> QED
      BY <1>1, <1>5, <3>1, MetBefore DEF Ops
  <2>3. m <= n /\ (Out(pair) => m # n)
    BY <1>1, <1>2, <2>1, <2>2, FewerTurns DEF AllCounted
  <2>4. RecvAt(pair) = <<m, offset[p]>>
    BY <1>3, <1>5, <2>1 DEF RecvAt, PairInv, Counted, MoreToRecv
  <2>5. SendAt(pair) = RecvAt(pair)
    BY <1>2, <1>3, <1>5 DEF PairInv, InStep
  <2>6. m = n + 1 \/ (Out(pair) /\ m = n)
    BY <2>4, <2>5 DEF SendAt
  <2> HIDE DEF n, m, pair
  <2> QED
    BY <1>3, <2>3, <2>6
<1> QED
  BY <1>4, <1>5 DEF Waits

\* If all ranks waited, the one whose call is first in turn would wait for a
\* call that its peer has made, or the two would wait in one pair.
LEMMA NotAllWait ==
  ASSUME NEW turn, InTurn(turn), IInv, CountInv(turn)
  PROVE  SomeRankGoesOn
<1> SUFFICES ASSUME ~SomethingWrong, prog \notin Unsafe,
                    \E p \in Ranks : Len(status[p]) < Len(prog[p]),
                    \A p \in Ranks : Len(status[p]) < Len(prog[p]) => Waits(p)
             PROVE  FALSE
  BY DEF SomeRankGoesOn
<1> DEFINE Left == {p \in Ranks : Len(status[p]) < Len(prog[p])}
           now(p) == turn[prog][p][Number(p)]
<1>1. TypeOK
  BY DEF IInv
<1>2. \A p \in Left :
        /\ InCall(p) /\ Number(p) \in DOMAIN prog[p] /\ Carries(Current(p), p)
        /\ Current(p) = prog[p][Number(p)] /\ now(p) \in Nat
        /\ \A j \in 1 .. Number(p) - 1 : Carries(prog[p][j], p) => turn[prog][p][j] < now(p)
  <2> SUFFICES ASSUME NEW p \in Left
               PROVE  /\ InCall(p) /\ Number(p) \in DOMAIN prog[p] /\ Carries(Current(p), p)
                      /\ Current(p) = prog[p][Number(p)] /\ now(p) \in Nat
                      /\ \A j \in 1 .. Number(p) - 1 :
                           Carries(prog[p][j], p) => turn[prog][p][j] < now(p)
    OBVIOUS
  <2>1. InCall(p)
    BY DEF Waits, InCall
  <2>2. Number(p) \in DOMAIN prog[p] /\ Carries(Current(p), p) /\ Current(p) = prog[p][Number(p)]
    BY <2>1, CallTyped DEF IInv, Carries, Current
  <2> QED
    BY <1>1, <2>1, <2>2, TurnLater
<1>3. PICK p \in Left : \A q \in Left : ~(now(q) < now(p))
  <2> DEFINE S == {now(q) : q \in Left}
  <2>1. S \in SUBSET Nat /\ S # {}
    BY <1>2
  <2>2. PICK m \in S : \A k \in S : ~(k < m)
    BY <2>1, LeastTurn
  <2> QED
    BY <2>2
<1>4. Waits(p) /\ p \in Ranks
  OBVIOUS
<1>5. PICK q \in Ranks : q = Current(p).peer
  BY <1>2, <1>4, PeerFits DEF Carries
<1>6. PICK j \in DOMAIN prog[q] :
        /\ Carries(prog[q][j], q) /\ turn[prog][q][j] = now(p)
        /\ prog[q][j].peer = p /\ prog[q][j].op # Current(p).op
  <2> DEFINE i == Number(p)
  <2>1. /\ i \in DOMAIN prog[p] /\ Carries(prog[p][i], p) /\ q = prog[p][i].peer
        /\ Current(p) = prog[p][i] /\ now(p) = turn[prog][p][i]
    BY <1>2, <1>5
  <2> HIDE DEF i, now
  <2>2. \E j \in DOMAIN prog[q] :
          /\ Carries(prog[q][j], q) /\ turn[prog][q][j] = turn[prog][p][i]
          /\ prog[q][j].peer = p /\ prog[q][j].op # prog[p][i].op
    BY <1>1, <1>4, <2>1, TurnMet
  <2> QED
    BY <2>1, <2>2
<1>7. /\ Len(status[q]) \in Nat /\ Len(prog[q]) \in Nat /\ j \in 1 .. Len(prog[q])
      /\ Number(q) = Len(status[q]) + 1
  BY <1>1, <1>6, BegunTyped DEF Number
<1>8. CASE j \in 1 .. Len(status[q])
  BY <1>4, <1>5, <1>6, <1>8, NotPastTurn
<1>9. CASE j = Number(q)
  <2>1. q \in Left /\ Waits(q)
    BY <1>7, <1>9
  <2>2. /\ Current(q) = prog[q][j] /\ InCall(p) /\ InCall(q)
        /\ Current(p).op \in Ops /\ Current(q).op \in Ops
    BY <1>2, <1>4, <1>9, <2>1, CallTyped DEF IInv, Ops
  <2>3. PairOf(q) = PairOf(p)
    BY <1>5, <1>6, <2>2 DEF PairOf, Ops
  <2>4. \A r \in {p, q} : IF Current(r).op = "send" THEN chan[PairOf(r)] # <<>>
                                                    ELSE chan[PairOf(r)] = <<>>
    BY <1>4, <2>1, <2>2 DEF Waits, Received, IInv, CallsChecked, Ops
  <2> QED
    BY <1>6, <2>2, <2>3, <2>4 DEF Ops
<1>10. CASE Number(q) < j
  <2>1. q \in Left /\ Number(q) \in Nat
    BY <1>7, <1>10
  <2>2. now(q) < turn[prog][q][j]
    <3>1. Number(q) \in 1 .. j - 1
      BY <1>7, <1>10
    <3>2. Carries(prog[q][Number(q)], q)
      BY <1>2, <2>1
    <3> QED
      BY <1>1, <1>6, <3>1, <3>2, TurnLater
  <2> QED
    BY <1>3, <1>6, <2>1, <2>2
<1> QED
  BY <1>7, <1>8, <1>9, <1>10

\* Ranks never come to wait for one another for good, though MPI buffers
\* nothing, if each call is met in its turn, for any number of ranks, programs,
\* sizes and lengths of the chunks (send.h:54-62, recv.h:49-58).
THEOREM NoRankStuck ==
  ASSUME NEW turn, InTurn(turn)
  PROVE  Spec => []SomeRankGoesOn
<1>1. Init => CountInv(turn)
  BY CountInit
<1>2. IInv /\ CountInv(turn) /\ [Next]_vars => CountInv(turn)'
  <2> SUFFICES ASSUME IInv, CountInv(turn), UNCHANGED vars PROVE CountInv(turn)'
    BY CountStep
  <2>1. \A p \in Ranks : Begun(p)' = Begun(p)
    BY DEF vars, Begun, InCall
  <2>2. prog' = prog /\ (AllWell' <=> AllWell) /\ UNCHANGED <<sent, asked>>
    BY DEF vars, AllWell
  <2>3. \A p, q \in Ranks, op \in Ops : Turns(turn, p, op, q)' = Turns(turn, p, op, q)
    BY <2>1, <2>2, TurnsStay
  <2> QED
    BY <2>1, <2>2, <2>3 DEF CountInv, AllCounted, Counts, Ops
<1>3. IInv /\ CountInv(turn) => SomeRankGoesOn
  BY NotAllWait
<1> QED
  BY <1>1, <1>2, <1>3, Inductive, PTL DEF Spec
=============================================================================
