------------------------------ MODULE OmpiP2P ------------------------------
(***************************************************************************)
(* Send and Recv of the OpenMPI backend.  A message is copied to a host    *)
(* buffer and goes through MPI as bytes, in chunks of at most MaxInt, with *)
(* a blocking MPI_Send or MPI_Recv for each chunk, all on tag 0 of the     *)
(* handle in inter_comm.  MPI keeps the chunks of each pair of ranks in    *)
(* order.  It may buffer a chunk of up to Eager bytes; a longer one blocks *)
(* its sender until it is received.                                        *)
(*                                                                         *)
(* A byte is traced as <<k, i>>: number i of the k-th message of the pair. *)
(***************************************************************************)
EXTENDS Integers, Sequences, FiniteSets

CONSTANTS
  N,         \* ranks of the MPI communicator
  Sizes,     \* the size in the Communicator of each rank
  Programs,  \* what the ranks do: a sequence of calls for each
  Unsafe,    \* the programs that rely on MPI to buffer
  Careless,  \* ranks that may pass arguments Execute refuses
  Faulty,    \* ranks where malloc and the device runtime may fail
  MaxInt,    \* std::numeric_limits<int>::max()
  MaxSize,   \* std::numeric_limits<size_t>::max()
  Eager      \* bytes MPI may buffer

Ranks == 0 .. N - 1

Pairs == Ranks \X Ranks

\* width is the size of the data type in bytes.
Call == [op: {"send", "recv"}, peer: Int, count: Nat, width: Nat \ {0}]

\* The size in a Communicator is that of the MPI communicator, unless
\* CommInitRank has put it in a clique of fewer ranks besides.
ASSUME ChannelAssumption ==
  /\ N \in Nat \ {0}
  /\ Sizes \in [Ranks -> 1 .. N]
  /\ MaxInt \in Nat \ {0}
  /\ MaxSize \in Nat /\ Eager \in Nat
  /\ Programs \subseteq [Ranks -> Seq(Call)]

VARIABLES
  prog,      \* the program of this run
  pc,        \* "idle", "mpi" (between MPI calls), "sending" (in MPI_Send)
  offset,    \* bytes of its message a rank has given to MPI or asked of it
  status,    \* what the calls of each rank have returned
  staged,    \* host buffers each rank has allocated and not freed
  buffer,    \* the bytes in the host buffer of a receiver
  chan,      \* chunks of each pair on their way
  sent,      \* sizes of the messages of each pair, in the order of sending
  asked,     \* sizes of the receives of each pair, in their order
  delivered, \* what the receives have put in the buffers of their callers
  aborted    \* ranks ended by INFINI_CHECK_MPI

vars == <<prog, pc, offset, status, staged, buffer, chan, sent, asked,
          delivered, aborted>>

-----------------------------------------------------------------------------
\* The call a rank is in or makes next, and its number.
Number(p) == Len(status[p]) + 1
Current(p) == prog[p][Number(p)]

Bytes(c) == c.count * c.width

\* The pair of ranks whose messages a call of p is about.
PairOf(p) == IF Current(p).op = "send" THEN <<p, Current(p).peer>>
                                       ELSE <<Current(p).peer, p>>

\* The next chunk of a message, and whether there is one.
Chunk(total, done) ==
  IF total - done > MaxInt THEN MaxInt ELSE total - done

SendChunk(total, done) == Chunk(total, done)

\* Defect: the receiver cuts its chunks one byte short.
RecvChunkShort(total, done) ==
  IF total - done >= MaxInt THEN MaxInt - 1 ELSE total - done
RecvChunk(total, done) == Chunk(total, done)

MoreToSend(total, done) == done < total

\* Defects: a chunk more, or the last byte is forgotten.
MoreToRecvOnce(total, done) == done <= total
MoreToRecvEarly(total, done) == done + 1 < total
MoreToRecv(total, done) == done < total

\* What a rank passes besides the call: a buffer that may be null, other
\* arguments that may be out of range, a communicator without inter_comm.
Arguments == [buff: BOOLEAN, valid: BOOLEAN, inter: BOOLEAN]

InvalidArgs(c, p, a) ==
  \/ ~a.valid
  \/ c.peer \notin 0 .. Sizes[p] - 1
  \/ c.count > 0 /\ ~a.buff

\* Execute and the head of Apply: a status, or "go" when there is a message.
Checked(c, p, a) ==
  CASE InvalidArgs(c, p, a) -> "invalid"
    [] ~InvalidArgs(c, p, a) /\ c.count = 0 -> "success"
    [] ~InvalidArgs(c, p, a) /\ c.count > 0 ->
         IF ~a.inter THEN "internal"
         ELSE IF c.count > MaxSize \div c.width THEN "invalid" ELSE "go"

Init ==
  /\ prog \in Programs
  /\ pc = [p \in Ranks |-> "idle"]
  /\ offset = [p \in Ranks |-> 0]
  /\ status = [p \in Ranks |-> <<>>]
  /\ staged = [p \in Ranks |-> 0]
  /\ buffer = [p \in Ranks |-> <<>>]
  /\ chan = [pair \in Pairs |-> <<>>]
  /\ sent = [pair \in Pairs |-> <<>>]
  /\ asked = [pair \in Pairs |-> <<>>]
  /\ delivered = [pair \in Pairs |-> <<>>]
  /\ aborted = {}

Calls(p, a) ==
  /\ p \notin aborted /\ pc[p] = "idle" /\ Len(status[p]) < Len(prog[p])
  /\ p \notin Careless => a.buff /\ a.valid /\ a.inter

Return(p, s) ==
  /\ status' = [status EXCEPT ![p] = Append(@, s)]
  /\ pc' = [pc EXCEPT ![p] = "idle"]

Refuse(p, a) ==
  /\ Calls(p, a)
  /\ Checked(Current(p), p, a) # "go"
  /\ Return(p, Checked(Current(p), p, a))
  /\ UNCHANGED <<prog, offset, staged, buffer, chan, sent, asked, delivered,
                 aborted>>

NoMemory(p, a) ==
  /\ Calls(p, a) /\ p \in Faulty
  /\ Checked(Current(p), p, a) = "go"
  /\ Return(p, "nomem")
  /\ UNCHANGED <<prog, offset, staged, buffer, chan, sent, asked, delivered,
                 aborted>>

-----------------------------------------------------------------------------
\* Send has copied its data and waited for the stream.
EnterSend(p, a) ==
  LET c == Current(p) IN
  /\ Calls(p, a) /\ c.op = "send"
  /\ Checked(c, p, a) = "go"
  /\ staged' = [staged EXCEPT ![p] = @ + 1]
  /\ offset' = [offset EXCEPT ![p] = 0]
  /\ sent' = [sent EXCEPT ![PairOf(p)] = Append(@, Bytes(c))]
  /\ pc' = [pc EXCEPT ![p] = "mpi"]
  /\ UNCHANGED <<prog, status, buffer, chan, asked, delivered, aborted>>

\* CHECK_STATUS returns from Apply and leaves the host buffer.
LeftByCopy == 1

CopyInFails(p, a) ==
  /\ Calls(p, a) /\ p \in Faulty /\ Current(p).op = "send"
  /\ Checked(Current(p), p, a) = "go"
  /\ staged' = [staged EXCEPT ![p] = @ + LeftByCopy]
  /\ Return(p, "error")
  /\ UNCHANGED <<prog, offset, buffer, chan, sent, asked, delivered, aborted>>

\* MPI_Send of the next chunk.
PutChunk(p) ==
  LET pair == PairOf(p)
      k == Len(sent[pair])
      len == SendChunk(Bytes(Current(p)), offset[p])
  IN
  /\ p \notin aborted /\ pc[p] = "mpi" /\ Current(p).op = "send"
  /\ MoreToSend(Bytes(Current(p)), offset[p])
  /\ chan' = [chan EXCEPT ![pair] =
       Append(@, [msg |-> k, from |-> offset[p], len |-> len])]
  /\ offset' = [offset EXCEPT ![p] = @ + len]
  /\ pc' = [pc EXCEPT ![p] = "sending"]
  /\ UNCHANGED <<prog, status, staged, buffer, sent, asked, delivered, aborted>>

\* MPI_Send returns when its chunk has been received, or when it is buffered.
Received(p) == chan[PairOf(p)] = <<>>

SendReturns(p) ==
  /\ p \notin aborted /\ pc[p] = "sending"
  /\ Received(p)
  /\ pc' = [pc EXCEPT ![p] = "mpi"]
  /\ UNCHANGED <<prog, offset, status, staged, buffer, chan, sent, asked,
                 delivered, aborted>>

SendBuffered(p) ==
  /\ p \notin aborted /\ pc[p] = "sending"
  /\ ~Received(p)
  /\ chan[PairOf(p)][Len(chan[PairOf(p)])].len <= Eager
  /\ pc' = [pc EXCEPT ![p] = "mpi"]
  /\ UNCHANGED <<prog, offset, status, staged, buffer, chan, sent, asked,
                 delivered, aborted>>

\* Defects: the host buffer is kept, or freed twice.
FreedBySendNone == 0
FreedBySendTwice == 2
FreedBySend == 1

FinishSend(p) ==
  /\ p \notin aborted /\ pc[p] = "mpi" /\ Current(p).op = "send"
  /\ ~MoreToSend(Bytes(Current(p)), offset[p])
  /\ staged' = [staged EXCEPT ![p] = @ - FreedBySend]
  /\ Return(p, "success")
  /\ UNCHANGED <<prog, offset, buffer, chan, sent, asked, delivered, aborted>>

-----------------------------------------------------------------------------
EnterRecv(p, a) ==
  LET c == Current(p) IN
  /\ Calls(p, a) /\ c.op = "recv"
  /\ Checked(c, p, a) = "go"
  /\ staged' = [staged EXCEPT ![p] = @ + 1]
  /\ offset' = [offset EXCEPT ![p] = 0]
  /\ buffer' = [buffer EXCEPT ![p] = <<>>]
  /\ asked' = [asked EXCEPT ![PairOf(p)] = Append(@, Bytes(c))]
  /\ pc' = [pc EXCEPT ![p] = "mpi"]
  /\ UNCHANGED <<prog, status, chan, sent, delivered, aborted>>

\* Where MPI_Recv writes a chunk of len bytes.  Defect: at the start.
PlaceAtStart(done, len) == 0 .. len - 1
Place(done, len) == done .. done + len - 1

\* MPI_Recv of the next chunk takes the first chunk of the pair.  It may be
\* shorter than the room for it, which nobody looks at (MPI_STATUS_IGNORE).
TakeChunk(p) ==
  LET pair == PairOf(p)
      chunk == Head(chan[pair])
      room == RecvChunk(Bytes(Current(p)), offset[p])
      place == Place(offset[p], chunk.len)
  IN
  /\ p \notin aborted /\ pc[p] = "mpi" /\ Current(p).op = "recv"
  /\ MoreToRecv(Bytes(Current(p)), offset[p])
  /\ chan[pair] # <<>> /\ chunk.len <= room
  /\ chan' = [chan EXCEPT ![pair] = Tail(@)]
  /\ buffer' = [buffer EXCEPT ![p] =
       [i \in DOMAIN @ \cup place |->
          IF i \in place THEN <<chunk.msg, chunk.from + (i - offset[p])>>
                         ELSE @[i]]]
  /\ offset' = [offset EXCEPT ![p] = @ + room]
  /\ UNCHANGED <<prog, pc, status, staged, sent, asked, delivered, aborted>>

\* A chunk that is too long is an error (MPI_ERR_TRUNCATE).
Truncated(p) ==
  /\ p \notin aborted /\ pc[p] = "mpi" /\ Current(p).op = "recv"
  /\ MoreToRecv(Bytes(Current(p)), offset[p])
  /\ chan[PairOf(p)] # <<>>
  /\ Head(chan[PairOf(p)]).len > RecvChunk(Bytes(Current(p)), offset[p])
  /\ aborted' = aborted \cup {p}
  /\ UNCHANGED <<prog, pc, offset, status, staged, buffer, chan, sent, asked,
                 delivered>>

\* What malloc left in a host buffer, and what became of a message whose copy
\* to the caller failed.
Junk == <<0, 0>>
Lost == <<>>

ReceivedAll(p) ==
  /\ p \notin aborted /\ pc[p] = "mpi" /\ Current(p).op = "recv"
  /\ ~MoreToRecv(Bytes(Current(p)), offset[p])

FinishRecv(p) ==
  LET value == [i \in 1 .. Bytes(Current(p)) |->
                  IF i - 1 \in DOMAIN buffer[p] THEN buffer[p][i - 1] ELSE Junk]
  IN
  /\ ReceivedAll(p)
  /\ delivered' = [delivered EXCEPT ![PairOf(p)] = Append(@, value)]
  /\ staged' = [staged EXCEPT ![p] = @ - 1]
  /\ Return(p, "success")
  /\ UNCHANGED <<prog, offset, buffer, chan, sent, asked, aborted>>

CopyOutFails(p) ==
  /\ ReceivedAll(p) /\ p \in Faulty
  /\ delivered' = [delivered EXCEPT ![PairOf(p)] = Append(@, Lost)]
  /\ staged' = [staged EXCEPT ![p] = @ - 1 + LeftByCopy]
  /\ Return(p, "error")
  /\ UNCHANGED <<prog, offset, buffer, chan, sent, asked, aborted>>

-----------------------------------------------------------------------------
Step(p) ==
  \/ PutChunk(p) \/ SendReturns(p) \/ FinishSend(p)
  \/ TakeChunk(p) \/ Truncated(p) \/ FinishRecv(p)
  \/ \E a \in Arguments : EnterSend(p, a) \/ EnterRecv(p, a) \/ Refuse(p, a)

Next == \E p \in Ranks :
  \/ Step(p) \/ SendBuffered(p) \/ CopyOutFails(p)
  \/ \E a \in Arguments : NoMemory(p, a) \/ CopyInFails(p, a)

Spec == Init /\ [][Next]_vars

\* A rank goes on and MPI moves the chunks it can; nothing makes it buffer.
FairSpec == Spec /\ \A p \in Ranks : WF_vars(Step(p))

-----------------------------------------------------------------------------
ChunkRecord == [msg: Nat, from: Nat, len: Nat]

TypeOK ==
  /\ prog \in Programs
  /\ pc \in [Ranks -> {"idle", "mpi", "sending"}]
  /\ offset \in [Ranks -> Nat]
  /\ status \in [Ranks ->
                   Seq({"success", "invalid", "internal", "nomem", "error"})]
  /\ staged \in [Ranks -> Nat]
  /\ DOMAIN buffer = Ranks
  /\ \A p \in Ranks : \A i \in DOMAIN buffer[p] : buffer[p][i] \in Nat \X Nat
  /\ chan \in [Pairs -> Seq(ChunkRecord)]
  /\ sent \in [Pairs -> Seq(1 .. MaxSize)]
  /\ asked \in [Pairs -> Seq(1 .. MaxSize)]
  /\ delivered \in [Pairs -> Seq(Seq(Nat \X Nat))]
  /\ aborted \subseteq Ranks

Channel == INSTANCE MessageChannel WITH Sizes <- 1 .. MaxSize

\* The k-th receive of one rank from another gets the k-th message in whole,
\* whatever its length in chunks, and although calls before it have failed on
\* either side, unless the two have named different sizes before
\* (backends/mpi/ompi/impl/send.h, recv.h).
DeliversInOrder == Channel!Spec

\* MPI ends a rank for a chunk that is too long only when it and its peer have
\* named different sizes: chunks are cut alike on both sides.
TruncatedOnlyIfUnequal ==
  \A p \in aborted : ~Channel!Agreed(PairOf(p), Len(asked[PairOf(p)]))

\* Between calls a rank holds one host buffer for each copy that failed, and
\* no other (CHECK_STATUS in send.h and recv.h).
BuffersReleased ==
  \A p \in Ranks : pc[p] = "idle" =>
    staged[p] = Cardinality({n \in DOMAIN status[p] : status[p][n] = "error"})

\* When all ranks are done and each receive had its message, of its size,
\* nothing is left in MPI: no later call on the communicator meets a chunk
\* of an earlier one.
NothingLeftInMpi ==
  \A pair \in Pairs :
    /\ pc[pair[1]] = "idle" /\ pc[pair[2]] = "idle"
    /\ Len(sent[pair]) = Len(asked[pair])
    /\ Channel!Agreed(pair, Len(sent[pair]))
    => chan[pair] = <<>>

\* The two together: chunks are cut and taken alike.
ChunksMatch == TruncatedOnlyIfUnequal /\ NothingLeftInMpi

\* A rank has had an error or was ended, or a pair has named unequal sizes.
SomethingWrong ==
  \/ aborted # {}
  \/ \E p \in Ranks : \E n \in DOMAIN status[p] : status[p][n] # "success"
  \/ \E pair \in Pairs : ~Channel!Agreed(pair, Len(asked[pair]))

\* A rank waits in MPI_Send for its chunk to be received, or in MPI_Recv for one.
Waits(p) ==
  \/ pc[p] = "sending" /\ ~Received(p)
  \/ /\ pc[p] = "mpi" /\ Current(p).op = "recv"
     /\ MoreToRecv(Bytes(Current(p)), offset[p])
     /\ chan[PairOf(p)] = <<>>

\* What SomeRankGoesOn depends on.  Each call that carries a message has a turn,
\* later than those of the calls before it, and is met in its turn by the
\* opposite call of its peer.
Carries(c, p) == c.peer \in 0 .. Sizes[p] - 1 /\ Bytes(c) \in 1 .. MaxSize

InTurn(turn) ==
  \A g \in Programs \ Unsafe : \A p \in Ranks : \A i \in DOMAIN g[p] :
    Carries(g[p][i], p) =>
      /\ turn[g][p][i] \in Nat
      /\ \A j \in 1 .. i - 1 :
           Carries(g[p][j], p) => turn[g][p][j] < turn[g][p][i]
      /\ LET q == g[p][i].peer IN
         \E j \in DOMAIN g[q] :
           /\ Carries(g[q][j], q) /\ turn[g][q][j] = turn[g][p][i]
           /\ g[q][j].peer = p /\ g[q][j].op # g[p][i].op

\* Ranks never come to wait for one another for good, even if MPI buffers
\* nothing: as long as nothing is wrong and some rank is not through its calls,
\* one of those does not wait (send.h:54-62, recv.h:49-58).
SomeRankGoesOn ==
  /\ ~SomethingWrong /\ prog \notin Unsafe
  /\ \E p \in Ranks : Len(status[p]) < Len(prog[p])
  => \E p \in Ranks : Len(status[p]) < Len(prog[p]) /\ ~Waits(p)

\* Every rank gets through its calls, without any buffering in MPI, unless
\* some call fails or the sizes differ (send.h:54-62, recv.h:49-58).
AllFinish ==
  <>(\/ \A p \in Ranks : Len(status[p]) = Len(prog[p])
     \/ SomethingWrong
     \/ prog \in Unsafe)
=============================================================================
