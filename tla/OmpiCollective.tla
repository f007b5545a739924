--------------------------- MODULE OmpiCollective ---------------------------
(***************************************************************************)
(* The collectives of the OpenMPI backend.  Each rank checks the arguments *)
(* of its call, copies its data to a host buffer, makes a blocking MPI     *)
(* call on the handle in inter_comm, copies what MPI left in a second host *)
(* buffer to the receive buffer of the caller and frees the host buffers.  *)
(* Nothing but the MPI call couples the ranks: one may refuse a call, run  *)
(* out of memory or fail to copy while the others wait for it.             *)
(*                                                                         *)
(* Memory is counted in units, the size of an MPI_BYTE here: "wide"        *)
(* elements have their own MPI type, an element of type "half" (kFloat16,  *)
(* kBFloat16) is two units and goes through MPI as bytes.  A value in      *)
(* memory is <<from, unit, div>>: the reduction over the <<rank, call>>    *)
(* pairs in from of unit number unit of the send buffer of that rank in    *)
(* that call, divided by div.                                              *)
(***************************************************************************)
EXTENDS Integers, Sequences, FiniteSets

CONSTANTS
  N,         \* ranks of the MPI communicator
  Jobs,      \* the sequences of collectives that all ranks call
  Views,     \* rank and size in the Communicator of each rank
  Careless,  \* ranks that may pass arguments Execute refuses
  Faulty,    \* ranks where malloc and the device runtime may fail
  MaxInt     \* std::numeric_limits<int>::max()

Ranks == 0 .. N - 1

Operations == {"AllGather", "AllReduce", "AllToAll", "Broadcast", "Gather",
               "Reduce", "ReduceScatter", "Scatter"}

Collective == [op: Operations, count: Nat, type: {"wide", "half"}, root: Int,
               avg: BOOLEAN]

View == [rank: Int, size: Nat]

ASSUME CollectiveAssumption ==
  /\ N \in Nat \ {0}
  /\ MaxInt \in Nat \ {0}
  /\ Jobs \subseteq Seq(Collective)
  /\ Views \subseteq [Ranks -> View]
  /\ Careless \subseteq Ranks /\ Faulty \subseteq Ranks

VARIABLES
  job,      \* the collectives of this run
  view,     \* the communicators of this run
  pc,       \* "idle", "mpi" (blocked in MPI) or "out" (MPI has returned)
  status,   \* what the calls of each rank have returned
  staged,   \* host buffers each rank has allocated and not freed
  entry,    \* what each rank gave to each of its MPI calls
  host,     \* the host receive buffer of the call under way
  memory,   \* the receive buffer of each rank's last call
  aborted   \* ranks ended by INFINI_CHECK_MPI

vars == <<job, view, pc, status, staged, entry, host, memory, aborted>>

-----------------------------------------------------------------------------
\* The call a rank is in or makes next, and its number.
Number(p) == Len(status[p]) + 1
Current(p) == job[Number(p)]

Rooted == {"Broadcast", "Gather", "Reduce", "Scatter"}
Reductions == {"AllReduce", "Reduce", "ReduceScatter"}

Width(type) == IF type = "half" THEN 2 ELSE 1

IsRoot(c, p) == view[p].rank = c.root

Bytes(c) == c.count * Width(c.type)

\* The int that MPI gets for a count of type size_t: the low bits, signed.
AsInt(count) ==
  LET width == 2 * (MaxInt + 1)
      low == count % width
  IN  IF low > MaxInt THEN low - width ELSE low

\* What Apply stages at rank p for each collective, in units: the length of the
\* host buffer MPI reads and of the one it writes, the count MPI is given
\* (kOmpiTypeMap has MPI_BYTE for a half), and whether the count is refused
\* because MPI counts with an int.
AllGather(c, p) ==
  [send |-> Bytes(c), recv |-> Bytes(c) * view[p].size,
   units |-> AsInt(c.count), tooLong |-> FALSE]

AllReduce(c, p) ==
  [send |-> Bytes(c), recv |-> Bytes(c),
   units |-> AsInt(c.count), tooLong |-> FALSE]

\* Defect: the block of one rank for the blocks of all.
AllToAllOneBlock(c, p) ==
  [send |-> Bytes(c), recv |-> Bytes(c) * view[p].size,
   units |-> c.count, tooLong |-> c.count > MaxInt]

AllToAll(c, p) ==
  [send |-> Bytes(c) * view[p].size, recv |-> Bytes(c) * view[p].size,
   units |-> c.count, tooLong |-> c.count > MaxInt]

\* Broadcast has one buffer, which MPI reads on the root.
Broadcast(c, p) ==
  [send |-> IF IsRoot(c, p) THEN Bytes(c) ELSE 0, recv |-> Bytes(c),
   units |-> Bytes(c), tooLong |-> FALSE]

\* Defect: MPI is told of elements where it moves bytes.
GatherElements(c, p) ==
  [send |-> Bytes(c),
   recv |-> IF IsRoot(c, p) THEN Bytes(c) * view[p].size ELSE 0,
   units |-> c.count, tooLong |-> Bytes(c) > MaxInt]

Gather(c, p) ==
  [send |-> Bytes(c),
   recv |-> IF IsRoot(c, p) THEN Bytes(c) * view[p].size ELSE 0,
   units |-> Bytes(c), tooLong |-> Bytes(c) > MaxInt]

Reduce(c, p) ==
  [send |-> Bytes(c), recv |-> IF IsRoot(c, p) THEN Bytes(c) ELSE 0,
   units |-> c.count, tooLong |-> c.count > MaxInt]

ReduceScatter(c, p) ==
  [send |-> Bytes(c) * view[p].size, recv |-> Bytes(c),
   units |-> c.count, tooLong |-> c.count > MaxInt]

Scatter(c, p) ==
  [send |-> IF IsRoot(c, p) THEN Bytes(c) * view[p].size ELSE 0,
   recv |-> Bytes(c), units |-> Bytes(c), tooLong |-> Bytes(c) > MaxInt]

Staging(c, p) ==
  CASE c.op = "AllGather" -> AllGather(c, p)
    [] c.op = "AllReduce" -> AllReduce(c, p)
    [] c.op = "AllToAll" -> AllToAll(c, p)
    [] c.op = "Broadcast" -> Broadcast(c, p)
    [] c.op = "Gather" -> Gather(c, p)
    [] c.op = "Reduce" -> Reduce(c, p)
    [] c.op = "ReduceScatter" -> ReduceScatter(c, p)
    [] c.op = "Scatter" -> Scatter(c, p)

\* The ranks whose send buffer, and whose receive buffer, the collective uses.
SendsAt(c, p) == c.op \in {"Broadcast", "Scatter"} => IsRoot(c, p)

ReceivesAt(c, p) == c.op \in {"Gather", "Reduce"} => IsRoot(c, p)

\* Broadcast cuts its bytes in calls of at most MaxInt.
Pieces(c) ==
  IF c.op = "Broadcast" THEN (Bytes(c) + MaxInt - 1) \div MaxInt ELSE 1

\* How many buffers Apply allocates.
Buffers(c, p, space) ==
  CASE c.op = "Broadcast" -> IF space = "device" THEN 1 ELSE 0
    [] c.op \in Rooted \ {"Broadcast"} -> IF IsRoot(c, p) THEN 2 ELSE 1
    [] OTHER -> 2

-----------------------------------------------------------------------------
\* What a rank passes besides the collective: pointers that may be null, other
\* arguments that may be out of range, a communicator that may have no
\* inter_comm, and a receive buffer on the device or not.
Arguments == [send: BOOLEAN, recv: BOOLEAN, valid: BOOLEAN, inter: BOOLEAN,
              space: {"device", "host"}]

\* Defect: the receive buffer is asked of all ranks.
NeedsRecvAll(c, p) == TRUE
NeedsRecv(c, p) == ReceivesAt(c, p)

InvalidArgs(c, p, a) ==
  \/ ~a.valid
  \/ c.op \in Rooted /\ c.root \notin 0 .. view[p].size - 1
  \/ SendsAt(c, p) /\ ~a.send
  \/ NeedsRecv(c, p) /\ ~a.recv

\* Execute and the head of Apply: a status, or "go" when the data is staged.
\* AllGather looks at the count before anything else, the rooted collectives
\* after their checks, the others never.
Checked(c, p, a) ==
  CASE c.op = "AllGather" /\ c.count = 0 -> "success"
    [] (c.op = "AllGather" => c.count > 0) /\ InvalidArgs(c, p, a) -> "invalid"
    [] OTHER ->
         IF c.op \in Rooted /\ c.count = 0 THEN "success"
         ELSE IF ~a.inter THEN "internal"
         ELSE IF Staging(c, p).tooLong /\ c.op # "ReduceScatter" THEN "invalid"
         ELSE "go"

\* MPI has no sum of bytes, no negative count and no root outside its
\* communicator.
MpiRefuses(c) ==
  \/ c.op \in Reductions /\ c.type = "half"
  \/ c.op \in {"AllReduce", "AllGather"} /\ AsInt(c.count) < 0
  \/ c.op \in Rooted /\ c.root \notin Ranks

Init ==
  /\ job \in Jobs /\ view \in Views
  /\ pc = [p \in Ranks |-> "idle"]
  /\ status = [p \in Ranks |-> <<>>]
  /\ staged = [p \in Ranks |-> 0]
  /\ entry = [p \in Ranks |-> <<>>]
  /\ host = [p \in Ranks |-> <<>>]
  /\ memory = [p \in Ranks |-> <<>>]
  /\ aborted = {}

\* A rank makes its next call; a careful one passes what the call needs, and
\* null where it may.
Calls(p, a) ==
  /\ p \notin aborted /\ pc[p] = "idle" /\ Len(status[p]) < Len(job)
  /\ p \notin Careless =>
       a.valid /\ a.inter /\ a.send = SendsAt(Current(p), p)
               /\ a.recv = ReceivesAt(Current(p), p)
  /\ memory' = [memory EXCEPT ![p] = <<>>]

Return(p, s) ==
  /\ status' = [status EXCEPT ![p] = Append(@, s)]
  /\ pc' = [pc EXCEPT ![p] = "idle"]

\* The call ends with nothing allocated; ReduceScatter frees its buffers first.
Refuse(p, a) ==
  LET c == Current(p)  s == Checked(c, p, a) IN
  /\ Calls(p, a)
  /\ \/ s # "go" /\ Return(p, s)
     \/ s = "go" /\ Staging(c, p).tooLong /\ Return(p, "invalid")
  /\ UNCHANGED <<job, view, staged, entry, host, aborted>>

\* Defects: the buffer that could be allocated is kept, or freed twice.
KeptByMallocOne == 1
KeptByMallocTwice == -1
KeptByMalloc == 0

NoMemory(p, a) ==
  LET c == Current(p) IN
  /\ Calls(p, a) /\ p \in Faulty
  /\ Checked(c, p, a) = "go" /\ Buffers(c, p, a.space) > 0
  /\ staged' = [staged EXCEPT ![p] = @ + KeptByMalloc]
  /\ Return(p, "nomem")
  /\ UNCHANGED <<job, view, entry, host, aborted>>

\* CHECK_STATUS returns from Apply and leaves the host buffers.
CopyInFails(p, a) ==
  LET c == Current(p) IN
  /\ Calls(p, a) /\ p \in Faulty
  /\ Checked(c, p, a) = "go"
  /\ c.op = "Broadcast" => a.space = "device" /\ IsRoot(c, p)
  /\ staged' = [staged EXCEPT ![p] = @ + Buffers(c, p, a.space)]
  /\ Return(p, "error")
  /\ UNCHANGED <<job, view, entry, host, aborted>>

\* What no rank has put there.
Junk(i) == <<{}, i, 0>>

\* The host send buffer of rank p in its n-th call.
Given(c, p, n) == [i \in 0 .. Staging(c, p).send - 1 |-> <<{<<p, n>>}, i, 1>>]

\* MPI does not see the number of the call; a proof goes by it.
Entry(p, piece, space) ==
  [call |-> Current(p), number |-> Number(p), piece |-> piece, space |-> space,
   data |-> Given(Current(p), p, Number(p)),
   room |-> Staging(Current(p), p).recv]

\* Copy to the host buffers and make the MPI call.
Enter(p, a) ==
  LET c == Current(p) IN
  /\ Calls(p, a)
  /\ Checked(c, p, a) = "go" /\ ~Staging(c, p).tooLong
  /\ staged' = [staged EXCEPT ![p] = @ + Buffers(c, p, a.space)]
  /\ entry' = [entry EXCEPT ![p] = Append(@, Entry(p, 1, a.space))]
  /\ host' = [host EXCEPT ![p] = <<>>]
  /\ pc' = [pc EXCEPT ![p] = "mpi"]
  /\ UNCHANGED <<job, view, status, aborted>>

-----------------------------------------------------------------------------
\* MPI.  The n-th calls of the ranks on a communicator belong together.
SameMpiCall(n, p, q) ==
  /\ entry[p][n].call = entry[q][n].call
  /\ entry[p][n].piece = entry[q][n].piece

\* A rank leaves as soon as what it needs has come.
Awaited(c, p) ==
  CASE c.op \in {"Gather", "Reduce"} -> IF p = c.root THEN Ranks ELSE {p}
    [] c.op \in {"Broadcast", "Scatter"} -> {p, c.root}
    [] OTHER -> Ranks

Meets(p, n) == \A q \in Awaited(entry[p][n].call, p) : Len(entry[q]) >= n

\* What a collective with blocks of m units writes at p, place by place, from
\* the data of the ranks.  Outside the buffers there is only junk.
Written(c, p, m, data) ==
  LET at(q, i) == IF i \in DOMAIN data[q] THEN data[q][i] ELSE Junk(i)
      sum(i) == <<UNION {at(q, i)[1] : q \in Ranks}, i, 1>>
      blocks == 0 .. m * N - 1
      block == 0 .. m - 1
  IN IF c.op \in {"Gather", "Reduce"} /\ p # c.root THEN <<>>
     ELSE CASE c.op \in {"AllGather", "Gather"} ->
                 [i \in blocks |-> at(i \div m, i % m)]
            [] c.op = "AllToAll" ->
                 [i \in blocks |-> at(i \div m, p * m + (i % m))]
            [] c.op \in {"AllReduce", "Reduce"} -> [i \in block |-> sum(i)]
            [] c.op = "ReduceScatter" -> [i \in block |-> sum(p * m + i)]
            [] c.op = "Scatter" -> [i \in block |-> at(c.root, p * m + i)]
            [] c.op = "Broadcast" -> [i \in block |-> at(c.root, i)]

\* The places one MPI call writes: a chunk of a broadcast, else all of them.
InPiece(c, piece, i) == c.op = "Broadcast" => i \div MaxInt = piece - 1

\* MPI may do anything when the ranks do not make the same call; here it
\* writes junk, and AbortInMpi and waiting for ever are possible too.
Complete(p) ==
  LET n == Len(entry[p])
      e == entry[p][n]
      data == [q \in Ranks |->
                 IF Len(entry[q]) >= n THEN entry[q][n].data ELSE <<>>]
      w == IF \A q \in Awaited(e.call, p) : SameMpiCall(n, p, q)
           THEN Written(e.call, p, Staging(e.call, p).units, data)
           ELSE <<>>
      new == {i \in DOMAIN w : InPiece(e.call, e.piece, i)}
  IN
  /\ p \notin aborted /\ pc[p] = "mpi" /\ ~MpiRefuses(e.call) /\ Meets(p, n)
  /\ host' = [host EXCEPT ![p] =
       [i \in DOMAIN host[p] \cup new |->
          IF i \in new THEN w[i] ELSE host[p][i]]]
  /\ \/ /\ e.piece < Pieces(e.call)
        /\ entry' =
             [entry EXCEPT ![p] = Append(@, Entry(p, e.piece + 1, e.space))]
        /\ UNCHANGED pc
     \/ /\ e.piece = Pieces(e.call)
        /\ pc' = [pc EXCEPT ![p] = "out"]
        /\ UNCHANGED entry
  /\ UNCHANGED <<job, view, status, staged, memory, aborted>>

\* INFINI_CHECK_MPI ends a process whose call MPI refuses, alone or because
\* the ranks do not make the same call.
AbortInMpi(p) ==
  LET n == Len(entry[p])  c == entry[p][n].call IN
  /\ p \notin aborted /\ pc[p] = "mpi"
  /\ \/ MpiRefuses(c)
     \/ ~MpiRefuses(c) /\ \E q \in Awaited(c, p) :
          Len(entry[q]) >= n /\ ~SameMpiCall(n, p, q)
  /\ aborted' = aborted \cup {p}
  /\ UNCHANGED <<job, view, pc, status, staged, entry, host, memory>>

-----------------------------------------------------------------------------
\* kAvg is a sum in MPI, scaled by the size of the communicator.
Scaled(c, p, v) ==
  IF c.op \in Reductions /\ c.avg THEN <<v[1], v[2], view[p].size>> ELSE v

\* Copy to the receive buffer, free the host buffers.
Deliver(p) ==
  LET c == Current(p) IN
  /\ p \notin aborted /\ pc[p] = "out"
  /\ memory' = [memory EXCEPT ![p] =
       [i \in 0 .. Staging(c, p).recv - 1 |->
          IF i \in DOMAIN host[p] THEN Scaled(c, p, host[p][i]) ELSE Junk(i)]]
  /\ staged' = [staged EXCEPT ![p] =
       @ - Buffers(c, p, entry[p][Len(entry[p])].space)]
  /\ Return(p, "success")
  /\ UNCHANGED <<job, view, entry, host, aborted>>

CopyOutFails(p) ==
  LET c == Current(p) IN
  /\ p \notin aborted /\ pc[p] = "out" /\ p \in Faulty
  /\ ReceivesAt(c, p)
  /\ c.op = "Broadcast" => entry[p][Len(entry[p])].space = "device"
  /\ Return(p, "error")
  /\ UNCHANGED <<job, view, staged, entry, host, memory, aborted>>

-----------------------------------------------------------------------------
Step(p) == Complete(p) \/ Deliver(p) \/ \E a \in Arguments : Enter(p, a)

Next == \E p \in Ranks :
  \/ Step(p) \/ AbortInMpi(p) \/ CopyOutFails(p)
  \/ \E a \in Arguments : Refuse(p, a) \/ NoMemory(p, a) \/ CopyInFails(p, a)

Spec == Init /\ [][Next]_vars

\* A rank goes on with its calls.  MPI lets it leave a call at the latest when
\* all ranks are in that call.
AllIn(p) == \A q \in Ranks : Len(entry[q]) >= Len(entry[p])

Goes(p) == Step(p) \/ AbortInMpi(p) \/ \E a \in Arguments : Refuse(p, a)

FairSpec ==
  Spec /\ \A p \in Ranks : WF_vars((pc[p] = "mpi" => AllIn(p)) /\ Goes(p))

-----------------------------------------------------------------------------
\* What RightResult and HostFits depend on.
\* The ranks have the rank and the size of the MPI communicator: they are not
\* in a clique besides (CommLifecycle).
TrueViews == \A v \in Views : \A p \in Ranks : v[p] = [rank |-> p, size |-> N]

\* AllGather and AllToAll give MPI the number of elements of type "half" for
\* the number of bytes.
WholeElements ==
  \A j \in Jobs : \A n \in DOMAIN j :
    j[n].type = "half" => j[n].op \notin {"AllGather", "AllToAll"}

\* AllGather and AllReduce do not look whether the count is an int.  From
\* 2 * (MaxInt + 1) on it comes back to numbers MPI takes, and too little is
\* moved.
Wraps(c) == c.op \in {"AllReduce", "AllGather"} /\ c.count > 2 * MaxInt + 1

Statuses == {"success", "invalid", "internal", "nomem", "error"}

Value == (SUBSET (Ranks \X Nat)) \X Nat \X Nat

\* The variables have their types, and no host buffer is freed twice.
TypeOK ==
  /\ job \in Jobs /\ view \in Views
  /\ pc \in [Ranks -> {"idle", "mpi", "out"}]
  /\ status \in [Ranks -> Seq(Statuses)]
  /\ staged \in [Ranks -> Nat]
  /\ \A p \in Ranks : \A n \in DOMAIN entry[p] :
       entry[p][n].call \in Collective /\ entry[p][n].room \in Nat
  /\ \A p \in Ranks : \A i \in DOMAIN host[p] : host[p][i] \in Value
  /\ \A p \in Ranks : \A i \in DOMAIN memory[p] : memory[p][i] \in Value
  /\ aborted \subseteq Ranks

\* One of the first n calls of a rank did not succeed, or ended the rank.
Failed(q, n) ==
  \/ q \in aborted
  \/ \E k \in DOMAIN status[q] : k <= n /\ status[q][k] # "success"

\* What the caller of collective c, the n-th call of the ranks, expects at p.
Expected(c, p, n) ==
  LET w == Written(c, p, Bytes(c), [q \in Ranks |->
             [i \in 0 .. Bytes(c) * N - 1 |-> <<{<<q, n>>}, i, 1>>]])
  IN [i \in DOMAIN w |->
        IF c.op \in Reductions /\ c.avg THEN <<w[i][1], w[i][2], N>> ELSE w[i]]

\* A rank whose call succeeds, when no rank has failed a call so far and the
\* count does not wrap, has in its receive buffer what the collective promises:
\* the right block of the right rank of the same call at each place, in full,
\* reduced over all the ranks and scaled by their number, and nothing where it
\* is not a receiver (backends/mpi/ompi/impl/*.h).
RightResult ==
  \A p \in Ranks :
    LET n == Len(status[p]) IN
    pc[p] = "idle" /\ n > 0 /\ ~Wraps(job[n]) /\ (\A q \in Ranks : ~Failed(q, n))
      => memory[p] = Expected(job[n], p, n)

\* Between calls a rank holds host buffers only if the device runtime has
\* failed in one of its calls, and at most two for each such call:
\* CHECK_STATUS returns without freeing them (runtime.h), every other way out
\* frees what it allocated.
BuffersReleased ==
  \A p \in Ranks : pc[p] = "idle" =>
    staged[p] <=
      2 * Cardinality({k \in DOMAIN status[p] : status[p][k] = "error"})

\* In a call MPI reads and writes inside the host buffers of the rank, though
\* they are sized from the rank and the size in the Communicator and MPI goes
\* by those of its own communicator (backends/mpi/ompi/impl/*.h).
HostFits ==
  \A p \in Ranks : pc[p] = "mpi" =>
    LET e == entry[p][Len(entry[p])]
        c == e.call
        m == Staging(c, p).units
        reads == CASE c.op \in {"AllToAll", "ReduceScatter"} -> m * N
                   [] c.op = "Scatter" -> IF p = c.root THEN m * N ELSE 0
                   [] c.op = "Broadcast" -> IF p = c.root THEN m ELSE 0
                   [] OTHER -> m
        writes == CASE c.op \in {"AllGather", "AllToAll"} -> m * N
                    [] c.op = "Gather" -> IF p = c.root THEN m * N ELSE 0
                    [] c.op = "Reduce" -> IF p = c.root THEN m ELSE 0
                    [] OTHER -> m
    IN reads <= Cardinality(DOMAIN e.data) /\ writes <= e.room

\* A careless rank has failed, a faulty one has run out of memory or failed to
\* copy, or MPI refuses one of the collectives altogether.
SomeoneFails ==
  \/ \E q \in Careless : Failed(q, Len(job))
  \/ \E q \in Faulty : \E n \in DOMAIN status[q] :
       status[q][n] \in {"nomem", "error"}
  \/ \E n \in DOMAIN job : MpiRefuses(job[n])

\* Ranks that pass what a collective needs, null where it may be null, are
\* never left waiting for one another: as long as no one else fails, MPI ends
\* no rank, and if not all are through, one of those left makes its next step
\* or is in an MPI call that all the ranks have come to, though some go through
\* the same collective another way (base/*.h, backends/mpi/ompi/impl/*.h).
NoneLeftWaiting ==
  ~SomeoneFails =>
    /\ aborted = {}
    /\ (\E p \in Ranks : Len(status[p]) < Len(job)) =>
         \E p \in Ranks :
           Len(status[p]) < Len(job) /\ (pc[p] = "mpi" => AllIn(p))

\* Every rank gets through all its calls unless someone fails: no rank that
\* took another way through the same call makes the others wait for ever
\* (base/*.h, backends/mpi/ompi/impl/*.h).
StuckOnlyByFailure ==
  <>((\A p \in Ranks : Len(status[p]) = Len(job)) \/ SomeoneFails)

=============================================================================
