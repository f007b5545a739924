----------------------- MODULE OmpiCollective_proofs -------------------------
(***************************************************************************)
(* The collectives of OmpiCollective, for any number of ranks, any calls   *)
(* and any data.                                                           *)
(***************************************************************************)
EXTENDS OmpiCollective, FiniteSetTheorems, WellFoundedInduction, TLAPS

InCall(p) == pc[p] # "idle"

Last(p) == entry[p][Len(entry[p])]

\* Nothing to move, and never a call to MPI.
Skips(c) == c.op \in Rooted \cup {"AllGather"} /\ c.count = 0

\* Each MPI call is part of a call of the rank, which is the last one while
\* the rank is in it.
EntryFits(p, e) ==
  /\ e.number \in DOMAIN job /\ e.call = job[e.number]
  /\ IF InCall(p) THEN e.number <= Number(p) ELSE e.number < Number(p)
  /\ e.piece \in 1 .. Pieces(e.call) /\ ~Skips(e.call)
  /\ e.data = Given(e.call, p, e.number)
  /\ e.room = Staging(e.call, p).recv

RankFits(p) ==
  /\ \A n \in DOMAIN entry[p] : EntryFits(p, entry[p][n])
  /\ InCall(p) => /\ entry[p] # <<>> /\ Last(p).number = Number(p)
                  /\ pc[p] = "out" => /\ Last(p).piece = Pieces(Last(p).call)
                                      /\ ~MpiRefuses(Last(p).call)
  /\ Len(status[p]) <= Len(job)

EntriesFit == \A p \in Ranks : RankFits(p)

\* From the n-th MPI call of p to its k-th call there is none to MPI: a call
\* in between had nothing to move or failed.
Gap(p, n, k) ==
  /\ n > 0 => /\ entry[p][n].number < k
              /\ \/ entry[p][n].piece = Pieces(entry[p][n].call)
                 \/ status[p][entry[p][n].number] # "success"
  /\ \A m \in 1 .. k - 1 : (n > 0 => m > entry[p][n].number) =>
       Skips(job[m]) \/ status[p][m] # "success"

\* The MPI calls of a rank are those of its calls, in order.
EntryFollows(p, n) ==
  IF entry[p][n].piece = 1 THEN Gap(p, n - 1, entry[p][n].number)
  ELSE /\ n > 1 /\ entry[p][n - 1].number = entry[p][n].number
       /\ entry[p][n - 1].piece = entry[p][n].piece - 1

RankFollows(p) ==
  /\ \A n \in DOMAIN entry[p] : EntryFollows(p, n)
  /\ ~InCall(p) => Gap(p, Len(entry[p]), Number(p))

EntriesFollow == \A p \in Ranks : RankFollows(p)

Errors(s) == {n \in DOMAIN s : s[n] = "error"}

\* The buffers of the call under way, and at most two for each copy that failed.
Used(p) == IF InCall(p) THEN Buffers(Last(p).call, p, Last(p).space) ELSE 0

RankStaged(p) ==
  Used(p) <= staged[p] /\ staged[p] <= 2 * Cardinality(Errors(status[p])) + Used(p)

StagedBound == \A p \in Ranks : RankStaged(p)

NoFailure(n) == \A q \in Ranks : ~Failed(q, n)

\* What the ranks give to MPI in their k-th calls, and what MPI writes at p then.
Full(k) == [q \in Ranks |-> Given(job[k], q, k)]

Whole(p, k) == Written(job[k], p, Staging(job[k], p).units, Full(k))

\* The places that have been written in the call under way.
Filled(p) ==
  {i \in DOMAIN Whole(p, Number(p)) :
     \/ pc[p] = "out"
     \/ Current(p).op = "Broadcast" /\ i \div MaxInt < Last(p).piece - 1}

RankHost(p) == InCall(p) /\ NoFailure(Number(p)) =>
  /\ DOMAIN host[p] = Filled(p)
  /\ \A i \in Filled(p) : host[p][i] = Whole(p, Number(p))[i]

HostRight == \A p \in Ranks : RankHost(p)

\* RightResult for one rank.
RankResult(p) ==
  /\ pc[p] = "idle" /\ Len(status[p]) > 0 /\ NoFailure(Len(status[p]))
  /\ ~Wraps(job[Len(status[p])])
  => memory[p] = Expected(job[Len(status[p])], p, Len(status[p]))

------------------------------------------------------------------------------
Data == UNION {[0 .. m - 1 -> Value] : m \in Nat}

MpiCall == [call: Collective, number: Nat, piece: Nat, space: {"device", "host"},
            data: Data, room: Nat]

Typed ==
  /\ TypeOK
  /\ entry \in [Ranks -> Seq(MpiCall)]
  /\ DOMAIN host = Ranks /\ DOMAIN memory = Ranks

LEMMA ConstantsFit ==
  /\ N \in Nat \ {0} /\ MaxInt \in Nat \ {0} /\ Ranks \subseteq Nat
  /\ Jobs \subseteq Seq(Collective) /\ Views \subseteq [Ranks -> View]
BY CollectiveAssumption DEF Ranks

LEMMA Division ==
  ASSUME NEW a \in Nat, NEW d \in Nat \ {0}
  PROVE  a \div d \in Nat /\ a % d \in 0 .. d - 1 /\ a = d * (a \div d) + (a % d)
OBVIOUS

\* The int of a count is no more than the count, and is the count unless it is
\* negative or the count wraps.
LEMMA AsIntTyped ==
  ASSUME NEW k \in Nat
  PROVE  /\ AsInt(k) \in Int /\ AsInt(k) <= k
         /\ k <= 2 * MaxInt + 1 /\ AsInt(k) >= 0 => AsInt(k) = k
<1>1. PICK width \in Nat \ {0} : width = 2 * (MaxInt + 1)
  BY ConstantsFit
<1>2. PICK q \in Nat, low \in 0 .. width - 1 : low = k % width /\ k = width * q + low
  BY <1>1, Division
<1>3. AsInt(k) = IF low > MaxInt THEN low - width ELSE low
  BY <1>1, <1>2 DEF AsInt
<1>4. width * q >= 0 /\ (q > 0 => width * q >= width)
  BY <1>1
<1>5. low <= k /\ (k < width => low = k)
  <2>1. PICK x \in Nat : x = width * q
    OBVIOUS
  <2>2. q = 0 => x = 0
    BY <2>1
  <2>3. /\ width \in Nat /\ q \in Nat /\ k = x + low /\ low \in 0 .. width - 1
        /\ q > 0 => x >= width
    BY <1>1, <1>2, <1>4, <2>1
  <2> HIDE <1>1, <1>2, <1>4
  <2> QED
    BY <2>2, <2>3
<1>6. PICK max \in Nat : max = MaxInt
  BY ConstantsFit
<1>7. CASE low > max
  <2>1. AsInt(k) = low - width
    BY <1>3, <1>6, <1>7
  <2> QED
    BY <1>1, <1>2, <1>5, <1>6, <2>1
<1>8. CASE ~(low > max)
  <2>1. AsInt(k) = low
    BY <1>3, <1>6, <1>8
  <2> QED
    BY <1>1, <1>2, <1>5, <1>6, <2>1
<1> QED
  BY <1>7, <1>8

\* Block number i \div d of n blocks of d.
LEMMA Below ==
  ASSUME NEW n \in Nat, NEW d \in Nat \ {0}, NEW i \in Nat, i < d * n
  PROVE  i \div d \in 0 .. n - 1
<1>1. PICK q \in Nat, r \in 0 .. d - 1 : q = i \div d /\ i = d * q + r
  BY Division
<1>2. ASSUME q >= n PROVE d * q >= d * n
  BY <1>2
<1> QED
  BY <1>1, <1>2

\* The chunks of d cover b bytes.
LEMMA Chunks ==
  ASSUME NEW b \in Nat, NEW d \in Nat \ {0}, NEW i \in 0 .. b - 1
  PROVE  i \div d < (b + d - 1) \div d
<1>1. PICK q \in Nat, r \in 0 .. d - 1 : q = i \div d /\ i = d * q + r
  BY Division
<1>2. PICK k \in Nat, s \in 0 .. d - 1 : k = (b + d - 1) \div d /\ b + d - 1 = d * k + s
  <2>1. b + d - 1 \in Nat
    OBVIOUS
  <2> QED
    BY <2>1, Division
<1>3. d * q <= b - 1 /\ d * k >= b
  BY <1>1, <1>2
<1>4. ASSUME k <= q PROVE d * k <= d * q
  BY <1>4
<1> QED
  BY <1>1, <1>2, <1>3, <1>4

\* A place in block p of n blocks of m.
LEMMA InBlock ==
  ASSUME NEW n \in Nat, NEW p \in 0 .. n - 1, NEW m \in Nat, NEW i \in 0 .. m - 1
  PROVE  p * m + i \in 0 .. m * n - 1
<1>1. p * m <= (n - 1) * m /\ p * m >= 0
  OBVIOUS
<1>2. (n - 1) * m = m * n - m
  OBVIOUS
<1> QED
  BY <1>1, <1>2

------------------------------------------------------------------------------
LEMMA BytesTyped ==
  ASSUME NEW c \in Collective
  PROVE  /\ Bytes(c) \in Nat /\ c.count \in Nat /\ c.count <= Bytes(c)
         /\ c.type = "wide" => Bytes(c) = c.count
         /\ c.count > 0 => Bytes(c) > 0
         /\ c.op \in Operations /\ c.type \in {"wide", "half"} /\ c.root \in Int
         /\ c.avg \in BOOLEAN
BY DEF Collective, Bytes, Width

LEMMA PiecesTyped ==
  ASSUME NEW c \in Collective
  PROVE  Pieces(c) \in Nat /\ (~Skips(c) => Pieces(c) >= 1)
<1>1. CASE c.op = "Broadcast"
  <2>1. PICK b \in Nat : b = Bytes(c)
    BY BytesTyped
  <2>2. Pieces(c) = (b + MaxInt - 1) \div MaxInt /\ b + MaxInt - 1 \in Nat
    BY <1>1, <2>1, ConstantsFit DEF Pieces
  <2>3. Pieces(c) \in Nat
    BY <2>2, ConstantsFit, Division
  <2>4. ASSUME ~Skips(c) PROVE Pieces(c) >= 1
    <3>1. 0 \in 0 .. b - 1
      BY <1>1, <2>1, <2>4, BytesTyped DEF Skips, Rooted
    <3>2. 0 \div MaxInt < Pieces(c)
      BY <2>2, <3>1, ConstantsFit, Chunks
    <3>3. 0 \div MaxInt \in Nat
      BY ConstantsFit, Division
    <3> QED
      BY <2>3, <3>2, <3>3
  <2> QED
    BY <2>3, <2>4
<1>2. CASE c.op # "Broadcast"
  BY <1>2 DEF Pieces
<1> QED
  BY <1>1, <1>2

\* What is staged, operation by operation.
LEMMA StagingIs ==
  ASSUME NEW c \in Collective, NEW p
  PROVE  /\ c.op = "AllGather" => Staging(c, p) = AllGather(c, p)
         /\ c.op = "AllReduce" => Staging(c, p) = AllReduce(c, p)
         /\ c.op = "AllToAll" => Staging(c, p) = AllToAll(c, p)
         /\ c.op = "Broadcast" => Staging(c, p) = Broadcast(c, p)
         /\ c.op = "Gather" => Staging(c, p) = Gather(c, p)
         /\ c.op = "Reduce" => Staging(c, p) = Reduce(c, p)
         /\ c.op = "ReduceScatter" => Staging(c, p) = ReduceScatter(c, p)
         /\ c.op = "Scatter" => Staging(c, p) = Scatter(c, p)
         /\ c.op \in {"AllGather", "AllReduce", "AllToAll", "Broadcast", "Gather",
                      "Reduce", "ReduceScatter", "Scatter"}
<1>1. c.op \in Operations
  BY BytesTyped
<1> QED
  BY <1>1 DEF Staging, Operations

LEMMA StagingTyped ==
  ASSUME NEW c \in Collective, NEW p \in Ranks, view[p] \in View
  PROVE  /\ Staging(c, p).send \in Nat /\ Staging(c, p).recv \in Nat
         /\ Staging(c, p).units \in Int
         /\ ~MpiRefuses(c) => Staging(c, p).units \in Nat
<1>1. PICK b \in Nat, k \in Nat : b = Bytes(c) /\ k = c.count
  BY BytesTyped
<1>a. /\ AsInt(k) \in Int
      /\ ~MpiRefuses(c) /\ c.op \in {"AllGather", "AllReduce"} => AsInt(k) \in Nat
  BY <1>1, AsIntTyped DEF MpiRefuses
<1>2. PICK all \in Nat : all = b * view[p].size
  BY DEF View
<1>3. MaxInt \in Nat
  BY ConstantsFit
<1>4. CASE c.op \in {"AllGather", "AllReduce", "AllToAll"}
  BY <1>1, <1>2, <1>3, <1>a, <1>4, StagingIs DEF AllGather, AllReduce, AllToAll
<1>5. CASE c.op \in {"Broadcast", "Gather", "Reduce"}
  BY <1>1, <1>2, <1>3, <1>5, StagingIs DEF Broadcast, Gather, Reduce
<1>6. CASE c.op \in {"ReduceScatter", "Scatter"}
  BY <1>1, <1>2, <1>3, <1>6, StagingIs DEF ReduceScatter, Scatter
<1> QED
  BY <1>4, <1>5, <1>6, StagingIs

LEMMA GivenTyped ==
  ASSUME NEW c \in Collective, NEW p \in Ranks, view[p] \in View, NEW n \in Nat
  PROVE  /\ Given(c, p, n) \in Data
         /\ DOMAIN Given(c, p, n) = 0 .. Staging(c, p).send - 1
         /\ \A i \in 0 .. Staging(c, p).send - 1 : Given(c, p, n)[i] = <<{<<p, n>>}, i, 1>>
<1>1. PICK m \in Nat : m = Staging(c, p).send
  BY StagingTyped
<1>2. \A i \in 0 .. m - 1 : <<{<<p, n>>}, i, 1>> \in Value
  BY DEF Value
<1>3. Given(c, p, n) = [i \in 0 .. m - 1 |-> <<{<<p, n>>}, i, 1>>]
  BY <1>1 DEF Given
<1>4. Given(c, p, n) \in [0 .. m - 1 -> Value]
  BY <1>2, <1>3
<1> QED
  BY <1>1, <1>3, <1>4 DEF Data

LEMMA BuffersTyped ==
  ASSUME NEW c, NEW p, NEW space
  PROVE  Buffers(c, p, space) \in 0 .. 2
BY DEF Buffers

\* The call of a rank that has calls to make.
LEMMA NextCall ==
  ASSUME TypeOK, NEW p \in Ranks
  PROVE  /\ job \in Seq(Collective) /\ view[p] \in View /\ view \in [Ranks -> View]
         /\ \A n \in DOMAIN job : job[n] \in Collective
         /\ Number(p) \in Nat \ {0} /\ Number(p) = Len(status[p]) + 1
         /\ Len(status[p]) < Len(job) =>
              Number(p) \in DOMAIN job /\ Current(p) \in Collective /\ Current(p) = job[Number(p)]
<1>1. job \in Seq(Collective) /\ view \in [Ranks -> View] /\ status[p] \in Seq(Statuses)
  BY ConstantsFit DEF TypeOK
<1>2. Len(status[p]) \in Nat /\ Len(job) \in Nat /\ DOMAIN job = 1 .. Len(job)
  BY <1>1
<1>3. Number(p) \in Nat \ {0} /\ Number(p) = Len(status[p]) + 1
  BY <1>2 DEF Number
<1>4. \A n \in DOMAIN job : job[n] \in Collective
  BY <1>1
<1> QED
  BY <1>1, <1>2, <1>3, <1>4 DEF Current

------------------------------------------------------------------------------
\* What MPI finds at place i of the data of rank q, and its reduction over all.
At(data, q, i) == IF i \in DOMAIN data[q] THEN data[q][i] ELSE Junk(i)

Total(data, i) == <<UNION {At(data, q, i)[1] : q \in Ranks}, i, 1>>

\* What MPI writes, operation by operation.
LEMMA WrittenIs ==
  ASSUME NEW c \in Collective, NEW p, NEW m, NEW data
  PROVE  /\ c.op \in {"Gather", "Reduce"} /\ p # c.root => Written(c, p, m, data) = <<>>
         /\ c.op = "AllGather" \/ (c.op = "Gather" /\ p = c.root) =>
              Written(c, p, m, data) = [i \in 0 .. m * N - 1 |-> At(data, i \div m, i % m)]
         /\ c.op = "AllToAll" =>
              Written(c, p, m, data) =
                [i \in 0 .. m * N - 1 |-> At(data, i \div m, p * m + (i % m))]
         /\ c.op = "AllReduce" \/ (c.op = "Reduce" /\ p = c.root) =>
              Written(c, p, m, data) = [i \in 0 .. m - 1 |-> Total(data, i)]
         /\ c.op = "ReduceScatter" =>
              Written(c, p, m, data) = [i \in 0 .. m - 1 |-> Total(data, p * m + i)]
         /\ c.op = "Scatter" =>
              Written(c, p, m, data) = [i \in 0 .. m - 1 |-> At(data, c.root, p * m + i)]
         /\ c.op = "Broadcast" =>
              Written(c, p, m, data) = [i \in 0 .. m - 1 |-> At(data, c.root, i)]
<1> USE DEF Written, At, Total
<1>1. c.op \in {"Gather", "Reduce"} /\ p # c.root => Written(c, p, m, data) = <<>>
  OBVIOUS
<1>2. c.op = "AllGather" \/ (c.op = "Gather" /\ p = c.root) =>
        Written(c, p, m, data) = [i \in 0 .. m * N - 1 |-> At(data, i \div m, i % m)]
  OBVIOUS
<1>3. c.op = "AllToAll" =>
        Written(c, p, m, data) =
          [i \in 0 .. m * N - 1 |-> At(data, i \div m, p * m + (i % m))]
  OBVIOUS
<1>4. c.op = "AllReduce" \/ (c.op = "Reduce" /\ p = c.root) =>
        Written(c, p, m, data) = [i \in 0 .. m - 1 |-> Total(data, i)]
  OBVIOUS
<1>5. c.op = "ReduceScatter" =>
        Written(c, p, m, data) = [i \in 0 .. m - 1 |-> Total(data, p * m + i)]
  OBVIOUS
<1>6. c.op = "Scatter" =>
        Written(c, p, m, data) = [i \in 0 .. m - 1 |-> At(data, c.root, p * m + i)]
  OBVIOUS
<1>7. c.op = "Broadcast" =>
        Written(c, p, m, data) = [i \in 0 .. m - 1 |-> At(data, c.root, i)]
  OBVIOUS
<1> HIDE DEF Written, At, Total
<1> QED
  BY <1>1, <1>2, <1>3, <1>4, <1>5, <1>6, <1>7

\* The kinds of collectives, for a rank that MPI lets go.
Kinds(c, p) ==
  \/ c.op \in {"Gather", "Reduce"} /\ p # c.root
  \/ c.op = "AllGather" \/ (c.op = "Gather" /\ p = c.root)
  \/ c.op = "AllToAll"
  \/ c.op = "AllReduce" \/ (c.op = "Reduce" /\ p = c.root)
  \/ c.op = "ReduceScatter" \/ c.op = "Scatter" \/ c.op = "Broadcast"

LEMMA KindsAre == ASSUME NEW c \in Collective, NEW p PROVE Kinds(c, p)
BY StagingIs DEF Kinds

\* Data of the right type at p.
LEMMA AtTyped ==
  ASSUME NEW data, NEW q, data[q] \in Data \cup {<<>>}, NEW i \in Nat
  PROVE  At(data, q, i) \in Value /\ At(data, q, i)[1] \in SUBSET (Ranks \X Nat)
<1>1. Junk(i) \in Value
  BY DEF Junk, Value
<1>2. ASSUME i \in DOMAIN data[q] PROVE data[q][i] \in Value
  <2>1. data[q] # <<>>
    BY <1>2
  <2>2. PICK m \in Nat : data[q] \in [0 .. m - 1 -> Value]
    BY <2>1 DEF Data
  <2> QED
    BY <1>2, <2>2
<1>3. At(data, q, i) \in Value
  BY <1>1, <1>2 DEF At
<1> QED
  BY <1>3 DEF Value

LEMMA TotalTyped ==
  ASSUME NEW data, \A q \in Ranks : data[q] \in Data \cup {<<>>}, NEW i \in Nat
  PROVE  Total(data, i) \in Value
<1>1. \A q \in Ranks : At(data, q, i)[1] \in SUBSET (Ranks \X Nat)
  BY AtTyped
<1>2. UNION {At(data, q, i)[1] : q \in Ranks} \in SUBSET (Ranks \X Nat)
  BY <1>1
<1> QED
  BY <1>2 DEF Total, Value

LEMMA WrittenTyped ==
  ASSUME NEW c \in Collective, NEW p \in Ranks, NEW m \in Nat, ~MpiRefuses(c),
         NEW data, \A q \in Ranks : data[q] \in Data \cup {<<>>},
         NEW i \in DOMAIN Written(c, p, m, data)
  PROVE  i \in Nat /\ Written(c, p, m, data)[i] \in Value
<1> DEFINE w == Written(c, p, m, data)
<1>0. /\ p \in Nat /\ p * m \in Nat /\ N \in Nat
      /\ c.op \in {"Broadcast", "Scatter"} => c.root \in Ranks
  BY ConstantsFit DEF MpiRefuses, Rooted
<1>a. ASSUME NEW k \in Nat, k <= m * N - 1
      PROVE  k \div m \in Ranks /\ k % m \in Nat
  <2>0. m * N \in Nat
    BY <1>0
  <2>1. m # 0
    <3>1. m = 0 => m * N = 0
      BY <1>0
    <3> QED
      BY <1>a, <3>1
  <2>2. k < m * N /\ m \in Nat \ {0}
    BY <1>a, <2>0, <2>1
  <2>3. k \div m \in 0 .. N - 1
    BY <1>0, <2>2, Below
  <2> QED
    BY <2>2, <2>3, Division DEF Ranks
<1>b. m * N \in Nat
  BY <1>0
<1>1. CASE c.op \in {"Gather", "Reduce"} /\ p # c.root
  BY <1>1, WrittenIs
<1>2. CASE c.op = "AllGather" \/ (c.op = "Gather" /\ p = c.root)
  <2>0. w = [k \in 0 .. m * N - 1 |-> At(data, k \div m, k % m)]
    BY <1>2, WrittenIs
  <2>1. i \in 0 .. m * N - 1 /\ w[i] = At(data, i \div m, i % m)
    BY <2>0
  <2> QED
    BY <1>a, <1>b, <2>1, AtTyped
<1>3. CASE c.op = "AllToAll"
  <2>0. w = [k \in 0 .. m * N - 1 |-> At(data, k \div m, p * m + (k % m))]
    BY <1>3, WrittenIs
  <2>1. i \in 0 .. m * N - 1 /\ w[i] = At(data, i \div m, p * m + (i % m))
    BY <2>0
  <2>2. i \div m \in Ranks /\ p * m + (i % m) \in Nat
    <3>1. i \in Nat /\ i <= m * N - 1
      BY <1>b, <2>1
    <3>2. PICK k \in Nat, x \in Nat : k = p * m /\ x = i % m /\ i \div m \in Ranks
      BY <1>0, <1>a, <3>1
    <3>3. k + x \in Nat
      OBVIOUS
    <3> QED
      BY <3>2, <3>3
  <2> QED
    BY <1>b, <2>1, <2>2, AtTyped
<1>4. CASE c.op = "AllReduce" \/ (c.op = "Reduce" /\ p = c.root)
  BY <1>4, WrittenIs, TotalTyped
<1>5. CASE c.op = "ReduceScatter"
  <2>1. i \in 0 .. m - 1 /\ w[i] = Total(data, p * m + i)
    BY <1>5, WrittenIs
  <2>2. p * m + i \in Nat
    BY <1>0, <2>1
  <2> QED
    BY <2>1, <2>2, TotalTyped
<1>6. CASE c.op = "Scatter"
  <2>1. i \in 0 .. m - 1 /\ w[i] = At(data, c.root, p * m + i)
    BY <1>6, WrittenIs
  <2>2. p * m + i \in Nat
    BY <1>0, <2>1
  <2>3. data[c.root] \in Data \cup {<<>>}
    BY <1>0, <1>6
  <2> QED
    BY <2>1, <2>2, <2>3, AtTyped
<1>7. CASE c.op = "Broadcast"
  <2>1. i \in 0 .. m - 1 /\ w[i] = At(data, c.root, i)
    BY <1>7, WrittenIs
  <2>3. data[c.root] \in Data \cup {<<>>}
    BY <1>0, <1>7
  <2> QED
    BY <2>1, <2>3, AtTyped
<1> QED
  BY <1>1, <1>2, <1>3, <1>4, <1>5, <1>6, <1>7, KindsAre DEF Kinds

------------------------------------------------------------------------------
IInv == Typed /\ EntriesFit /\ EntriesFollow /\ StagedBound

\* A call that ends before MPI: nothing but a copy that fails leaves a buffer
\* behind, and only a call with nothing to move succeeds.
Early(p, s, d) ==
  /\ p \notin aborted /\ pc[p] = "idle" /\ Len(status[p]) < Len(job)
  /\ status' = [status EXCEPT ![p] = Append(@, s)]
  /\ pc' = [pc EXCEPT ![p] = "idle"]
  /\ memory' = [memory EXCEPT ![p] = <<>>]
  /\ staged' = [staged EXCEPT ![p] = @ + d]
  /\ UNCHANGED <<job, view, entry, host, aborted>>
  /\ s \in Statuses /\ d \in 0 .. 2
  /\ s = "success" => Skips(Current(p))
  /\ d > 0 => s = "error"

LEMMA EarlyEnds ==
  ASSUME TypeOK, NEW p \in Ranks, NEW a \in Arguments,
         Refuse(p, a) \/ NoMemory(p, a) \/ CopyInFails(p, a)
  PROVE  \E s, d : Early(p, s, d)
<1>0. pc \in [Ranks -> {"idle", "mpi", "out"}] /\ staged \in [Ranks -> Nat]
  BY DEF TypeOK
<1>1. CASE Refuse(p, a)
  <2>1. Checked(Current(p), p, a) \in Statuses \cup {"go"}
    BY DEF Checked, Statuses
  <2>2. Checked(Current(p), p, a) = "success" => Skips(Current(p))
    BY DEF Checked, Skips
  <2>3. staged' = [staged EXCEPT ![p] = @ + 0]
    BY <1>0, <1>1 DEF Refuse
  <2>4. PICK s : /\ s = "invalid" \/ (s = Checked(Current(p), p, a) /\ s # "go")
                 /\ Return(p, s)
    BY <1>1 DEF Refuse
  <2>5. s \in Statuses /\ (s = "success" => Skips(Current(p)))
    BY <2>1, <2>2, <2>4 DEF Statuses
  <2>6. /\ p \notin aborted /\ pc[p] = "idle" /\ Len(status[p]) < Len(job)
        /\ memory' = [memory EXCEPT ![p] = <<>>]
        /\ UNCHANGED <<job, view, entry, host, aborted>>
    BY <1>1 DEF Refuse, Calls
  <2>7. Early(p, s, 0)
    BY <2>3, <2>4, <2>5, <2>6 DEF Return, Early
  <2> QED
    BY <2>7
<1>2. CASE NoMemory(p, a)
  <2>1. Early(p, "nomem", 0)
    BY <1>2 DEF NoMemory, KeptByMalloc, Calls, Return, Early, Statuses
  <2> QED
    BY <2>1
<1>3. CASE CopyInFails(p, a)
  <2>1. PICK d \in 0 .. 2 : d = Buffers(Current(p), p, a.space)
    BY BuffersTyped
  <2>2. Early(p, "error", d)
    BY <1>3, <2>1 DEF CopyInFails, Calls, Return, Early, Statuses
  <2> QED
    BY <2>2
<1> QED
  BY <1>1, <1>2, <1>3

LEMMA WhoActs ==
  ASSUME TypeOK, Next
  PROVE  \E p \in Ranks : \/ \E s, d : Early(p, s, d)
                          \/ \E a \in Arguments : Enter(p, a)
                          \/ Complete(p) \/ AbortInMpi(p) \/ Deliver(p) \/ CopyOutFails(p)
BY EarlyEnds DEF Next, Step

\* A rank in a call: its last call to MPI is of that call.
LEMMA LastCall ==
  ASSUME Typed, EntriesFit, NEW p \in Ranks, InCall(p)
  PROVE  /\ Len(entry[p]) \in DOMAIN entry[p] /\ Len(entry[p]) \in Nat \ {0}
         /\ Last(p) \in MpiCall /\ Last(p).call = Current(p) /\ Last(p).number = Number(p)
         /\ Number(p) \in DOMAIN job /\ Current(p) \in Collective /\ ~Skips(Current(p))
         /\ Last(p).piece \in 1 .. Pieces(Current(p))
         /\ pc[p] = "out" => Last(p).piece = Pieces(Current(p)) /\ ~MpiRefuses(Current(p))
<1>1. entry[p] \in Seq(MpiCall) /\ entry[p] # <<>> /\ TypeOK
  BY DEF Typed, EntriesFit, RankFits
<1>2. Len(entry[p]) \in DOMAIN entry[p] /\ Len(entry[p]) \in Nat \ {0} /\ Last(p) \in MpiCall
  BY <1>1 DEF Last
<1>3. /\ Last(p).number = Number(p) /\ Number(p) \in DOMAIN job /\ Last(p).call = job[Number(p)]
      /\ Last(p).piece \in 1 .. Pieces(Last(p).call) /\ ~Skips(Last(p).call)
      /\ pc[p] = "out" => Last(p).piece = Pieces(Last(p).call) /\ ~MpiRefuses(Last(p).call)
  BY <1>2 DEF EntriesFit, RankFits, EntryFits, Last
<1>4. job[Number(p)] = Current(p) /\ Current(p) \in Collective
  BY <1>1, <1>3, NextCall DEF Current
<1> QED
  BY <1>2, <1>3, <1>4

LEMMA EntryTyped ==
  ASSUME Typed, NEW p \in Ranks, Number(p) \in DOMAIN job, NEW piece \in Nat,
         NEW space \in {"device", "host"}
  PROVE  Entry(p, piece, space) \in MpiCall
<1>1. Current(p) \in Collective /\ view[p] \in View /\ Number(p) \in Nat
  BY NextCall DEF Typed, Current
<1>2. Given(Current(p), p, Number(p)) \in Data /\ Staging(Current(p), p).recv \in Nat
  BY <1>1, GivenTyped, StagingTyped
<1> QED
  BY <1>1, <1>2 DEF Entry, MpiCall

\* What the ranks gave to the n-th call of MPI, as Complete sees it.
GivenAt(n) == [q \in Ranks |-> IF Len(entry[q]) >= n THEN entry[q][n].data ELSE <<>>]

LEMMA GivenAtTyped ==
  ASSUME Typed, NEW n \in Nat \ {0}
  PROVE  \A q \in Ranks : GivenAt(n)[q] \in Data \cup {<<>>}
<1>1. ASSUME NEW q \in Ranks, Len(entry[q]) >= n PROVE entry[q][n].data \in Data
  <2>1. entry[q] \in Seq(MpiCall)
    BY DEF Typed
  <2>2. entry[q][n] \in MpiCall
    BY <1>1, <2>1
  <2> QED
    BY <2>2 DEF MpiCall
<1> QED
  BY <1>1 DEF GivenAt

\* What Complete does, when MPI writes w.
Completes(p, w) ==
  /\ \/ w = Written(Current(p), p, Staging(Current(p), p).units, GivenAt(Len(entry[p])))
     \/ w = <<>> /\ ~\A q \in Awaited(Current(p), p) : SameMpiCall(Len(entry[p]), p, q)
  /\ pc[p] = "mpi" /\ p \notin aborted /\ ~MpiRefuses(Current(p))
  /\ \A q \in Awaited(Current(p), p) : Len(entry[q]) >= Len(entry[p])
  /\ host' = [host EXCEPT ![p] =
       [i \in DOMAIN host[p] \cup {k \in DOMAIN w : InPiece(Current(p), Last(p).piece, k)} |->
          IF i \in DOMAIN w /\ InPiece(Current(p), Last(p).piece, i) THEN w[i] ELSE host[p][i]]]
  /\ \/ /\ Last(p).piece < Pieces(Current(p))
        /\ entry' = [entry EXCEPT ![p] = Append(@, Entry(p, Last(p).piece + 1, Last(p).space))]
        /\ UNCHANGED pc
     \/ /\ Last(p).piece = Pieces(Current(p))
        /\ pc' = [pc EXCEPT ![p] = "out"]
        /\ UNCHANGED entry
  /\ UNCHANGED <<job, view, status, staged, memory, aborted>>

LEMMA CompleteEffect ==
  ASSUME Typed, EntriesFit, NEW p \in Ranks, Complete(p)
  PROVE  \E w : Completes(p, w)
<1> DEFINE n == Len(entry[p])
           w == IF \A q \in Awaited(Current(p), p) : SameMpiCall(n, p, q)
                THEN Written(Current(p), p, Staging(Current(p), p).units, GivenAt(n)) ELSE <<>>
<1>1. pc[p] = "mpi" /\ InCall(p) /\ Last(p) = entry[p][n]
  BY DEF Complete, InCall, Last
<1>2. Last(p).call = Current(p) /\ entry[p][n].call = Current(p)
  BY <1>1, LastCall
<1>3. host' = [host EXCEPT ![p] =
         [i \in DOMAIN host[p] \cup {k \in DOMAIN w : InPiece(Current(p), Last(p).piece, k)} |->
            IF i \in {k \in DOMAIN w : InPiece(Current(p), Last(p).piece, k)}
            THEN w[i] ELSE host[p][i]]]
  BY <1>1, <1>2 DEF Complete, GivenAt
<1>4. w = Written(Current(p), p, Staging(Current(p), p).units, GivenAt(n))
        \/ (w = <<>> /\ ~\A q \in Awaited(Current(p), p) : SameMpiCall(n, p, q))
  OBVIOUS
<1>5. /\ ~MpiRefuses(Current(p)) /\ p \notin aborted
      /\ \A q \in Awaited(Current(p), p) : Len(entry[q]) >= n
      /\ \/ /\ Last(p).piece < Pieces(Current(p))
            /\ entry' = [entry EXCEPT ![p] = Append(@, Entry(p, Last(p).piece + 1, Last(p).space))]
            /\ UNCHANGED pc
         \/ /\ Last(p).piece = Pieces(Current(p))
            /\ pc' = [pc EXCEPT ![p] = "out"]
            /\ UNCHANGED entry
      /\ UNCHANGED <<job, view, status, staged, memory, aborted>>
  BY <1>1, <1>2 DEF Complete, Meets
<1> HIDE DEF w
<1> QED
  BY <1>1, <1>3, <1>4, <1>5 DEF Completes

------------------------------------------------------------------------------
LEMMA InitIInv == ASSUME Init PROVE IInv
<1> USE DEF Init
<1>1. Typed
  <2>1. job \in Jobs /\ view \in Views /\ staged \in [Ranks -> Nat]
          /\ pc \in [Ranks -> {"idle", "mpi", "out"}] /\ aborted \subseteq Ranks
    OBVIOUS
  <2>2. status \in [Ranks -> Seq(Statuses)] /\ entry \in [Ranks -> Seq(MpiCall)]
    OBVIOUS
  <2>3. \A p \in Ranks : entry[p] = <<>> /\ host[p] = <<>> /\ memory[p] = <<>>
    OBVIOUS
  <2> QED
    BY <2>1, <2>2, <2>3 DEF Typed, TypeOK
<1>2. \A p \in Ranks : /\ pc[p] = "idle" /\ status[p] = <<>> /\ entry[p] = <<>>
                       /\ staged[p] = 0 /\ Len(status[p]) = 0 /\ Len(entry[p]) = 0
  OBVIOUS
<1>3. Len(job) \in Nat
  BY ConstantsFit
<1>4. EntriesFit
  BY <1>2, <1>3 DEF EntriesFit, RankFits, InCall
<1>5. EntriesFollow
  BY <1>2 DEF EntriesFollow, RankFollows, EntryFollows, Gap, Number
<1>6. StagedBound
  <2>1. Errors(<<>>) = {}
    BY DEF Errors
  <2>2. Cardinality(Errors(<<>>)) = 0
    BY <2>1, FS_EmptySet
  <2> QED
    BY <1>2, <2>2 DEF StagedBound, RankStaged, Used, InCall
<1> QED
  BY <1>1, <1>4, <1>5, <1>6 DEF IInv

LEMMA TypedStep == ASSUME IInv, Next PROVE Typed'
<1> USE DEF IInv
<1>0. /\ Typed /\ TypeOK /\ job \in Jobs /\ view \in Views
      /\ pc \in [Ranks -> {"idle", "mpi", "out"}] /\ status \in [Ranks -> Seq(Statuses)]
      /\ staged \in [Ranks -> Nat] /\ aborted \subseteq Ranks
      /\ entry \in [Ranks -> Seq(MpiCall)] /\ DOMAIN host = Ranks /\ DOMAIN memory = Ranks
      /\ \A p \in Ranks : \A i \in DOMAIN host[p] : host[p][i] \in Value
      /\ \A p \in Ranks : \A i \in DOMAIN memory[p] : memory[p][i] \in Value
  BY DEF Typed, TypeOK
<1>a. ASSUME entry' \in [Ranks -> Seq(MpiCall)]
      PROVE  \A p \in Ranks : \A n \in DOMAIN entry'[p] :
               entry'[p][n].call \in Collective /\ entry'[p][n].room \in Nat
  <2>1. \A p \in Ranks : \A n \in DOMAIN entry'[p] : entry'[p][n] \in MpiCall
    BY <1>a
  <2> QED
    BY <2>1 DEF MpiCall
<1>b. ASSUME NEW p \in Ranks, NEW s \in Statuses, status' = [status EXCEPT ![p] = Append(@, s)]
      PROVE  status' \in [Ranks -> Seq(Statuses)]
  <2>1. Append(status[p], s) \in Seq(Statuses)
    BY <1>0
  <2> QED
    BY <1>0, <1>b, <2>1
<1>c. ASSUME NEW p \in Ranks, memory' = [memory EXCEPT ![p] = <<>>]
      PROVE  DOMAIN memory' = Ranks
               /\ \A q \in Ranks : \A i \in DOMAIN memory'[q] : memory'[q][i] \in Value
  BY <1>0, <1>c
<1>d. ASSUME NEW p \in Ranks, NEW e \in MpiCall, entry' = [entry EXCEPT ![p] = Append(@, e)]
      PROVE  entry' \in [Ranks -> Seq(MpiCall)]
  <2>1. Append(entry[p], e) \in Seq(MpiCall)
    BY <1>0
  <2> QED
    BY <1>0, <1>d, <2>1
<1>1. ASSUME NEW p \in Ranks, NEW s, NEW d, Early(p, s, d) PROVE Typed'
  <2>1. /\ UNCHANGED <<job, view, entry, host, aborted>>
        /\ pc' = [pc EXCEPT ![p] = "idle"] /\ staged' = [staged EXCEPT ![p] = @ + d]
        /\ s \in Statuses /\ d \in 0 .. 2
    BY <1>1 DEF Early
  <2>2. status' \in [Ranks -> Seq(Statuses)]
    BY <1>1, <1>b DEF Early
  <2>3. DOMAIN memory' = Ranks
          /\ \A q \in Ranks : \A i \in DOMAIN memory'[q] : memory'[q][i] \in Value
    BY <1>1, <1>c DEF Early
  <2>4. staged' \in [Ranks -> Nat] /\ pc' \in [Ranks -> {"idle", "mpi", "out"}]
    BY <1>0, <2>1
  <2>5. entry' \in [Ranks -> Seq(MpiCall)]
    BY <1>0, <2>1
  <2> QED
    BY <1>0, <1>a, <2>1, <2>2, <2>3, <2>4, <2>5 DEF Typed, TypeOK
<1>2. ASSUME NEW p \in Ranks, NEW a \in Arguments, Enter(p, a) PROVE Typed'
  <2>1. /\ UNCHANGED <<job, view, status, aborted>>
        /\ pc' = [pc EXCEPT ![p] = "mpi"] /\ host' = [host EXCEPT ![p] = <<>>]
        /\ memory' = [memory EXCEPT ![p] = <<>>]
        /\ staged' = [staged EXCEPT ![p] = @ + Buffers(Current(p), p, a.space)]
        /\ entry' = [entry EXCEPT ![p] = Append(@, Entry(p, 1, a.space))]
        /\ Len(status[p]) < Len(job) /\ a.space \in {"device", "host"}
    BY <1>2 DEF Enter, Calls, Arguments
  <2>2. Entry(p, 1, a.space) \in MpiCall
    BY <1>0, <2>1, NextCall, EntryTyped
  <2>3. entry' \in [Ranks -> Seq(MpiCall)]
    BY <2>1, <2>2, <1>d
  <2>4. staged' \in [Ranks -> Nat]
    <3>1. PICK k \in 0 .. 2 : k = Buffers(Current(p), p, a.space)
      BY BuffersTyped
    <3> QED
      BY <1>0, <2>1, <3>1
  <2>5. DOMAIN memory' = Ranks
          /\ \A q \in Ranks : \A i \in DOMAIN memory'[q] : memory'[q][i] \in Value
    BY <1>c, <2>1
  <2>6. DOMAIN host' = Ranks
          /\ \A q \in Ranks : \A i \in DOMAIN host'[q] : host'[q][i] \in Value
    BY <1>0, <2>1
  <2> QED
    BY <1>0, <1>a, <2>1, <2>3, <2>4, <2>5, <2>6 DEF Typed, TypeOK
<1>3. ASSUME NEW p \in Ranks, Complete(p) PROVE Typed'
  <2>0. PICK w : Completes(p, w)
    BY <1>0, <1>3, CompleteEffect
  <2>1. /\ \/ w = Written(Current(p), p, Staging(Current(p), p).units, GivenAt(Len(entry[p])))
           \/ w = <<>>
        /\ pc[p] = "mpi" /\ ~MpiRefuses(Current(p))
        /\ host' = [host EXCEPT ![p] =
             [i \in DOMAIN host[p] \cup {k \in DOMAIN w : InPiece(Current(p), Last(p).piece, k)} |->
                IF i \in DOMAIN w /\ InPiece(Current(p), Last(p).piece, i) THEN w[i]
                ELSE host[p][i]]]
        /\ \/ /\ entry' = [entry EXCEPT ![p] =
                              Append(@, Entry(p, Last(p).piece + 1, Last(p).space))]
              /\ UNCHANGED pc
           \/ pc' = [pc EXCEPT ![p] = "out"] /\ UNCHANGED entry
        /\ UNCHANGED <<job, view, status, staged, memory, aborted>>
    BY <2>0 DEF Completes
  <2>2. /\ InCall(p) /\ Number(p) \in DOMAIN job /\ Current(p) \in Collective
        /\ Last(p).piece \in Nat /\ Last(p).space \in {"device", "host"}
        /\ Len(entry[p]) \in Nat \ {0} /\ view[p] \in View
    <3>1. InCall(p)
      BY <2>1 DEF InCall
    <3>2. Last(p) \in MpiCall
      BY <1>0, <3>1, LastCall
    <3> QED
      BY <1>0, <3>1, <3>2, LastCall, NextCall DEF MpiCall
  <2>3. \A i \in DOMAIN w : w[i] \in Value
    <3>1. \A q \in Ranks : GivenAt(Len(entry[p]))[q] \in Data \cup {<<>>}
      BY <1>0, <2>2, GivenAtTyped
    <3>2. Staging(Current(p), p).units \in Nat
      BY <2>1, <2>2, StagingTyped
    <3> QED
      BY <2>1, <2>2, <3>1, <3>2, WrittenTyped
  <2>4. DOMAIN host' = Ranks
          /\ \A q \in Ranks : \A i \in DOMAIN host'[q] : host'[q][i] \in Value
    <3>1. \A q \in Ranks \ {p} : host'[q] = host[q]
      BY <1>0, <2>1
    <3>2. host'[p] =
            [i \in DOMAIN host[p] \cup {k \in DOMAIN w : InPiece(Current(p), Last(p).piece, k)} |->
               IF i \in DOMAIN w /\ InPiece(Current(p), Last(p).piece, i) THEN w[i]
               ELSE host[p][i]]
      BY <1>0, <2>1
    <3>3. \A i \in DOMAIN host'[p] : host'[p][i] \in Value
      BY <1>0, <2>3, <3>2
    <3> QED
      BY <1>0, <2>1, <3>1, <3>3
  <2>5. entry' \in [Ranks -> Seq(MpiCall)] /\ pc' \in [Ranks -> {"idle", "mpi", "out"}]
    <3>1. CASE UNCHANGED pc
      <4>1. Entry(p, Last(p).piece + 1, Last(p).space) \in MpiCall
        BY <1>0, <2>2, EntryTyped
      <4> QED
        BY <1>0, <1>d, <2>1, <3>1, <4>1
    <3>2. CASE pc' = [pc EXCEPT ![p] = "out"] /\ UNCHANGED entry
      BY <1>0, <3>2
    <3> QED
      BY <2>1, <3>1, <3>2
  <2> QED
    BY <1>0, <1>a, <2>1, <2>4, <2>5 DEF Typed, TypeOK
<1>4. ASSUME NEW p \in Ranks, AbortInMpi(p) PROVE Typed'
  BY <1>0, <1>a, <1>4 DEF AbortInMpi, Typed, TypeOK
<1>5. ASSUME NEW p \in Ranks, Deliver(p) PROVE Typed'
  <2>1. /\ UNCHANGED <<job, view, entry, host, aborted>> /\ pc[p] = "out"
        /\ memory' = [memory EXCEPT ![p] =
             [i \in 0 .. Staging(Current(p), p).recv - 1 |->
                IF i \in DOMAIN host[p] THEN Scaled(Current(p), p, host[p][i]) ELSE Junk(i)]]
        /\ staged' = [staged EXCEPT ![p] = @ - Buffers(Current(p), p, Last(p).space)]
        /\ status' = [status EXCEPT ![p] = Append(@, "success")]
        /\ pc' = [pc EXCEPT ![p] = "idle"]
    BY <1>5 DEF Deliver, Return, Last
  <2>2. InCall(p) /\ Last(p).call = Current(p) /\ Current(p) \in Collective /\ view[p] \in View
    BY <1>0, <2>1, LastCall, NextCall DEF InCall
  <2>3. status' \in [Ranks -> Seq(Statuses)]
    BY <1>b, <2>1 DEF Statuses
  <2>4. staged' \in [Ranks -> Nat]
    <3>1. Buffers(Current(p), p, Last(p).space) <= staged[p]
      BY <2>2 DEF StagedBound, RankStaged, Used
    <3>2. PICK k \in 0 .. 2 : k = Buffers(Current(p), p, Last(p).space)
      BY BuffersTyped
    <3> QED
      BY <1>0, <2>1, <3>1, <3>2
  <2>5. DOMAIN memory' = Ranks
          /\ \A q \in Ranks : \A i \in DOMAIN memory'[q] : memory'[q][i] \in Value
    <3>1. \A q \in Ranks \ {p} : memory'[q] = memory[q]
      BY <1>0, <2>1
    <3>2. memory'[p] = [i \in 0 .. Staging(Current(p), p).recv - 1 |->
             IF i \in DOMAIN host[p] THEN Scaled(Current(p), p, host[p][i]) ELSE Junk(i)]
      BY <1>0, <2>1
    <3>3. Staging(Current(p), p).recv \in Nat
      BY <2>2, StagingTyped
    <3>4. \A v \in Value : Scaled(Current(p), p, v) \in Value
      BY <2>2 DEF Scaled, Value, View
    <3>5. \A i \in Nat : Junk(i) \in Value
      BY DEF Junk, Value
    <3>6. \A i \in DOMAIN memory'[p] : memory'[p][i] \in Value
      BY <1>0, <3>2, <3>3, <3>4, <3>5
    <3> QED
      BY <1>0, <2>1, <3>1, <3>6
  <2> QED
    BY <1>0, <1>a, <2>1, <2>3, <2>4, <2>5 DEF Typed, TypeOK
<1>6. ASSUME NEW p \in Ranks, CopyOutFails(p) PROVE Typed'
  <2>1. /\ UNCHANGED <<job, view, staged, entry, host, memory, aborted>>
        /\ status' = [status EXCEPT ![p] = Append(@, "error")]
        /\ pc' = [pc EXCEPT ![p] = "idle"]
    BY <1>6 DEF CopyOutFails, Return
  <2>2. status' \in [Ranks -> Seq(Statuses)]
    BY <1>b, <2>1 DEF Statuses
  <2> QED
    BY <1>0, <1>a, <2>1, <2>2 DEF Typed, TypeOK
<1> QED
  BY <1>0, <1>1, <1>2, <1>3, <1>4, <1>5, <1>6, WhoActs

------------------------------------------------------------------------------
\* A rank that is left alone.
LEMMA LeftAlone ==
  ASSUME NEW q \in Ranks, UNCHANGED <<job, view>>, RankFits(q), RankFollows(q), RankStaged(q),
         entry'[q] = entry[q], status'[q] = status[q], pc'[q] = pc[q], staged'[q] = staged[q]
  PROVE  RankFits(q)' /\ RankFollows(q)' /\ RankStaged(q)'
<1>1. /\ InCall(q)' <=> InCall(q)
      /\ Number(q)' = Number(q) /\ Last(q)' = Last(q)
  BY DEF InCall, Number, Last
<1>2. \A c, n : Given(c, q, n)' = Given(c, q, n) /\ Staging(c, q)' = Staging(c, q)
                  /\ \A a : Buffers(c, q, a)' = Buffers(c, q, a)
  BY DEF Given, Staging, AllGather, AllReduce, AllToAll, Broadcast, Gather, Reduce,
         ReduceScatter, Scatter, Buffers, IsRoot
<1>3. RankFits(q)'
  BY <1>1, <1>2 DEF RankFits, EntryFits
<1>4. RankFollows(q)'
  BY <1>1 DEF RankFollows, EntryFollows, Gap
<1>5. RankStaged(q)'
  BY <1>1, <1>2 DEF RankStaged, Used
<1> QED
  BY <1>3, <1>4, <1>5

\* A call returns.
LEMMA Returned ==
  ASSUME TypeOK, NEW p \in Ranks, NEW s, status' = [status EXCEPT ![p] = Append(@, s)]
  PROVE  /\ Number(p)' = Number(p) + 1 /\ Number(p) \in Nat \ {0}
         /\ Len(status'[p]) = Number(p)
         /\ DOMAIN status[p] = 1 .. Number(p) - 1 /\ DOMAIN status'[p] = 1 .. Number(p)
         /\ \A k \in 1 .. Number(p) - 1 : status'[p][k] = status[p][k]
         /\ status'[p][Number(p)] = s
         /\ \A q \in Ranks \ {p} : status'[q] = status[q]
<1>1. status \in [Ranks -> Seq(Statuses)]
  BY DEF TypeOK
<1>2. status'[p] = Append(status[p], s) /\ status[p] \in Seq(Statuses)
  BY <1>1
<1>3. PICK n \in Nat : n = Len(status[p])
  BY <1>2
<1>4. /\ DOMAIN status[p] = 1 .. n /\ Len(status'[p]) = n + 1 /\ DOMAIN status'[p] = 1 .. n + 1
      /\ \A k \in 1 .. n : status'[p][k] = status[p][k]
      /\ status'[p][n + 1] = s
  BY <1>2, <1>3
<1>5. Number(p) = n + 1 /\ Number(p)' = n + 2
  BY <1>3, <1>4 DEF Number
<1> QED
  BY <1>1, <1>4, <1>5

LEMMA ErrorsTyped ==
  ASSUME NEW s \in Seq(Statuses)
  PROVE  IsFiniteSet(Errors(s)) /\ Cardinality(Errors(s)) \in Nat
<1>1. PICK n \in Nat : DOMAIN s = 1 .. n
  BY DEF Statuses
<1>2. Errors(s) \in SUBSET (1 .. n)
  BY <1>1 DEF Errors
<1>3. IsFiniteSet(1 .. n)
  BY FS_Interval
<1>4. IsFiniteSet(Errors(s))
  BY <1>2, <1>3, FS_Subset
<1> QED
  BY <1>4, FS_CardinalityType

\* The errors of a rank after a call.
LEMMA ErrorsGrow ==
  ASSUME TypeOK, NEW p \in Ranks, NEW s, status' = [status EXCEPT ![p] = Append(@, s)]
  PROVE  /\ Cardinality(Errors(status[p])) \in Nat
         /\ Cardinality(Errors(status'[p])) =
              Cardinality(Errors(status[p])) + (IF s = "error" THEN 1 ELSE 0)
<1>0. /\ Number(p) \in Nat \ {0}
      /\ DOMAIN status[p] = 1 .. Number(p) - 1 /\ DOMAIN status'[p] = 1 .. Number(p)
      /\ \A k \in 1 .. Number(p) - 1 : status'[p][k] = status[p][k]
      /\ status'[p][Number(p)] = s
  BY Returned
<1>1. PICK n \in Nat : Number(p) = n + 1
  <2>1. Number(p) - 1 \in Nat /\ Number(p) = (Number(p) - 1) + 1
    BY <1>0
  <2> QED
    BY <2>1
<1>2. /\ DOMAIN status[p] = 1 .. n /\ DOMAIN status'[p] = 1 .. n + 1
      /\ \A k \in 1 .. n : status'[p][k] = status[p][k]
      /\ status'[p][n + 1] = s
  BY <1>0, <1>1
<1>3. IsFiniteSet(Errors(status[p])) /\ n + 1 \notin Errors(status[p])
  <2>1. Errors(status[p]) \in SUBSET (1 .. n) /\ IsFiniteSet(1 .. n)
    BY <1>2, FS_Interval DEF Errors
  <2> QED
    BY <2>1, FS_Subset
<1>4. Errors(status'[p]) = IF s = "error" THEN Errors(status[p]) \cup {n + 1}
                                           ELSE Errors(status[p])
  BY <1>2 DEF Errors
<1> QED
  BY <1>3, <1>4, FS_AddElement, FS_CardinalityType

\* Between calls to MPI a call returns with s.
LEMMA GapGrows ==
  ASSUME TypeOK, NEW p \in Ranks, NEW s, status' = [status EXCEPT ![p] = Append(@, s)],
         UNCHANGED <<job, entry>>, NEW n \in Nat, n = 0 \/ n \in DOMAIN entry[p],
         n > 0 => entry[p][n].number \in Nat \ {0},
         Gap(p, n, Number(p)), s = "success" => Skips(job[Number(p)])
  PROVE  Gap(p, n, Number(p))'
<1>1. /\ Number(p)' = Number(p) + 1 /\ Number(p) \in Nat \ {0}
      /\ \A k \in 1 .. Number(p) - 1 : status'[p][k] = status[p][k]
      /\ status'[p][Number(p)] = s
  BY Returned
<1>2. PICK k \in Nat \ {0} : k = Number(p)
  BY <1>1
<1>3. Gap(p, n, k)
  BY <1>2
<1>4. ASSUME n > 0
      PROVE  /\ entry[p][n].number \in 1 .. k - 1
             /\ \/ entry[p][n].piece = Pieces(entry[p][n].call)
                \/ status'[p][entry[p][n].number] # "success"
  <2>1. PICK e : e = entry[p][n]
    OBVIOUS
  <2>2. e.number \in Nat \ {0} /\ e.number < k
    BY <1>3, <1>4, <2>1 DEF Gap
  <2>3. e.number \in 1 .. k - 1
    BY <2>2
  <2>4. status'[p][e.number] = status[p][e.number]
    BY <1>1, <1>2, <2>3
  <2>5. e.piece = Pieces(e.call) \/ status[p][e.number] # "success"
    BY <1>3, <1>4, <2>1 DEF Gap
  <2> QED
    BY <2>1, <2>3, <2>4, <2>5
<1>5. ASSUME NEW m \in 1 .. k, n > 0 => m > entry[p][n].number
      PROVE  Skips(job[m]) \/ status'[p][m] # "success"
  <2>1. CASE m = k
    BY <1>1, <1>2, <2>1
  <2>2. CASE m # k
    <3>1. m \in 1 .. k - 1
      BY <2>2
    <3>2. status'[p][m] = status[p][m]
      BY <1>1, <1>2, <3>1
    <3>3. Skips(job[m]) \/ status[p][m] # "success"
      BY <1>3, <1>5, <3>1 DEF Gap
    <3> QED
      BY <3>2, <3>3
  <2> QED
    BY <2>1, <2>2
<1>6. /\ n > 0 => /\ entry'[p][n].number < k + 1
                  /\ \/ entry'[p][n].piece = Pieces(entry'[p][n].call)
                     \/ status'[p][entry'[p][n].number] # "success"
      /\ \A m \in 1 .. k : (n > 0 => m > entry'[p][n].number) =>
           Skips(job'[m]) \/ status'[p][m] # "success"
  <2>1. entry' = entry /\ job' = job
    OBVIOUS
  <2>2. n > 0 => entry[p][n].number < k + 1
    BY <1>4
  <2>3. n > 0 => \/ entry[p][n].piece = Pieces(entry[p][n].call)
                 \/ status'[p][entry[p][n].number] # "success"
    BY <1>4
  <2>4. \A m \in 1 .. k : (n > 0 => m > entry[p][n].number) =>
           Skips(job[m]) \/ status'[p][m] # "success"
    BY <1>5
  <2> QED
    BY <2>1, <2>2, <2>3, <2>4
<1>7. Number(p)' = k + 1 /\ (k + 1) - 1 = k
  BY <1>1, <1>2
<1> QED
  BY <1>6, <1>7 DEF Gap

LEMMA GapStays ==
  ASSUME NEW p, NEW n \in Nat, NEW k \in Nat, UNCHANGED job, Gap(p, n, k),
         n > 0 => entry'[p][n] = entry[p][n] /\ entry[p][n].number \in Nat \ {0},
         \A m \in 1 .. k - 1 : status'[p][m] = status[p][m]
  PROVE  Gap(p, n, k)'
<1>1. ASSUME n > 0
      PROVE  /\ entry[p][n].number \in 1 .. k - 1
             /\ \/ entry[p][n].piece = Pieces(entry[p][n].call)
                \/ status'[p][entry[p][n].number] # "success"
  <2>1. entry[p][n].number \in Nat \ {0} /\ entry[p][n].number < k
    BY <1>1 DEF Gap
  <2>2. entry[p][n].number \in 1 .. k - 1
    BY <2>1
  <2>3. status'[p][entry[p][n].number] = status[p][entry[p][n].number]
    BY <2>2
  <2> QED
    BY <1>1, <2>2, <2>3 DEF Gap
<1>2. n > 0 => entry[p][n].number < k
  BY <1>1
<1>3. \A m \in 1 .. k - 1 : (n > 0 => m > entry[p][n].number) =>
        Skips(job[m]) \/ status'[p][m] # "success"
  BY DEF Gap
<1> QED
  BY <1>1, <1>2, <1>3 DEF Gap

\* The call whose last call to MPI is the n-th returns with s.
LEMMA GapAfter ==
  ASSUME TypeOK, NEW p \in Ranks, NEW s, status' = [status EXCEPT ![p] = Append(@, s)],
         NEW n \in Nat \ {0}, entry' = entry, entry[p][n].number = Number(p),
         entry[p][n].piece = Pieces(entry[p][n].call) \/ s # "success"
  PROVE  Gap(p, n, Number(p))'
<1>1. Number(p)' = Number(p) + 1 /\ Number(p) \in Nat \ {0} /\ status'[p][Number(p)] = s
  BY Returned
<1>2. PICK k \in Nat \ {0} : k = Number(p)
  BY <1>1
<1>3. /\ entry'[p][n].number < k + 1
      /\ \/ entry'[p][n].piece = Pieces(entry'[p][n].call)
         \/ status'[p][entry'[p][n].number] # "success"
  <2>1. entry'[p][n].number = k /\ status'[p][k] = s
    BY <1>1, <1>2
  <2>2. entry'[p][n].piece = Pieces(entry'[p][n].call) \/ s # "success"
    OBVIOUS
  <2>3. k < k + 1
    BY <1>2
  <2> QED
    BY <2>1, <2>2, <2>3
<1>4. \A m \in 1 .. k : ~(m > entry'[p][n].number)
  BY <1>2
<1>5. Number(p)' = k + 1 /\ (k + 1) - 1 = k /\ n > 0
  BY <1>1, <1>2
<1> QED
  BY <1>3, <1>4, <1>5 DEF Gap

\* The calls to MPI that a rank has made stay what they are.
LEMMA OldEntries ==
  ASSUME Typed, EntriesFit, NEW p \in Ranks, RankFollows(p), UNCHANGED <<job, view>>,
         \A n \in DOMAIN entry[p] : entry'[p][n] = entry[p][n],
         \A m \in 1 .. Number(p) - 1 : status'[p][m] = status[p][m],
         Number(p)' = IF InCall(p)' THEN Number(p) ELSE Number(p) + 1
  PROVE  \A n \in DOMAIN entry[p] : EntryFits(p, entry[p][n])' /\ EntryFollows(p, n)'
<1> SUFFICES ASSUME NEW n \in DOMAIN entry[p]
             PROVE  EntryFits(p, entry[p][n])' /\ EntryFollows(p, n)'
  OBVIOUS
<1>0. /\ Number(p) \in Nat \ {0} /\ entry[p] \in Seq(MpiCall)
      /\ \A m \in DOMAIN entry[p] : EntryFits(p, entry[p][m])
      /\ entry'[p][n] = entry[p][n] /\ TypeOK
  BY NextCall DEF Typed, EntriesFit, RankFits
<1>1. \A c, k : Given(c, p, k)' = Given(c, p, k) /\ Staging(c, p)' = Staging(c, p)
  BY DEF Given, Staging, AllGather, AllReduce, AllToAll, Broadcast, Gather, Reduce,
         ReduceScatter, Scatter, IsRoot
<1>a. DOMAIN job \subseteq Nat \ {0}
  BY <1>0, NextCall
<1>2. \A m \in DOMAIN entry[p] :
        entry[p][m].number \in Nat \ {0} /\ entry[p][m].number <= Number(p)
  BY <1>0, <1>a DEF EntryFits
<1>3. PICK e \in MpiCall : e = entry[p][n]
  BY <1>0
<1>4. EntryFits(p, e)'
  <2>1. e.number \in Nat \ {0} /\ e.number <= Number(p) /\ EntryFits(p, e)
    BY <1>0, <1>2, <1>3
  <2>2. IF InCall(p)' THEN e.number <= Number(p)' ELSE e.number < Number(p)'
    BY <1>0, <2>1
  <2> QED
    BY <1>1, <2>1, <2>2 DEF EntryFits
<1>5. EntryFollows(p, n)'
  <2>1. EntryFollows(p, n) /\ n \in Nat \ {0} /\ Len(entry[p]) \in Nat
        /\ DOMAIN entry[p] = 1 .. Len(entry[p])
    BY <1>0 DEF RankFollows
  <2>2. PICK m \in Nat : m = n - 1
    BY <2>1
  <2>3. m > 0 => m \in DOMAIN entry[p] /\ entry'[p][m] = entry[p][m]
                   /\ entry[p][m].number \in Nat \ {0}
    BY <1>2, <2>1, <2>2
  <2>4. CASE e.piece = 1
    <3>1. Gap(p, m, e.number)
      BY <1>3, <2>1, <2>2, <2>4 DEF EntryFollows
    <3>2. PICK k \in Nat : k = e.number /\ k <= Number(p)
      BY <1>2, <1>3
    <3>3. \A l \in 1 .. k - 1 : status'[p][l] = status[p][l]
      <4>1. \A l \in 1 .. k - 1 : l \in 1 .. Number(p) - 1
        BY <1>0, <3>2
      <4> QED
        BY <4>1
    <3>4. Gap(p, m, k)'
      BY <2>2, <2>3, <3>1, <3>2, <3>3, GapStays
    <3> QED
      BY <1>0, <1>3, <2>2, <2>4, <3>2, <3>4 DEF EntryFollows
  <2>5. CASE e.piece # 1
    <3>1. m > 0 /\ entry[p][m].number = e.number /\ entry[p][m].piece = e.piece - 1 /\ n > 1
      BY <1>3, <2>1, <2>2, <2>5 DEF EntryFollows
    <3> QED
      BY <1>0, <1>3, <2>2, <2>3, <2>5, <3>1 DEF EntryFollows
  <2> QED
    BY <2>4, <2>5
<1> QED
  BY <1>0, <1>3, <1>4, <1>5

Parts(p) == RankFits(p) /\ RankFollows(p) /\ RankStaged(p)

LEMMA ActsAt ==
  ASSUME IInv, NEW p \in Ranks, UNCHANGED <<job, view>>, Parts(p)',
         \A q \in Ranks \ {p} : /\ entry'[q] = entry[q] /\ status'[q] = status[q]
                                /\ pc'[q] = pc[q] /\ staged'[q] = staged[q]
  PROVE  EntriesFit' /\ EntriesFollow' /\ StagedBound'
<1>1. ASSUME NEW q \in Ranks PROVE RankFits(q)' /\ RankFollows(q)' /\ RankStaged(q)'
  <2>1. CASE q = p
    BY <2>1 DEF Parts
  <2>2. CASE q # p
    <3>1. RankFits(q) /\ RankFollows(q) /\ RankStaged(q)
      BY DEF IInv, EntriesFit, EntriesFollow, StagedBound
    <3> QED
      BY <2>2, <3>1, LeftAlone
  <2> QED
    BY <2>1, <2>2
<1> QED
  BY <1>1 DEF EntriesFit, EntriesFollow, StagedBound

\* What the invariant says of the rank that acts.
LEMMA Here ==
  ASSUME IInv, NEW p \in Ranks
  PROVE  /\ Typed /\ TypeOK /\ EntriesFit /\ RankFits(p) /\ RankFollows(p) /\ RankStaged(p)
         /\ pc \in [Ranks -> {"idle", "mpi", "out"}] /\ status \in [Ranks -> Seq(Statuses)]
         /\ staged \in [Ranks -> Nat] /\ entry \in [Ranks -> Seq(MpiCall)]
         /\ Len(entry[p]) \in Nat /\ DOMAIN entry[p] = 1 .. Len(entry[p])
         /\ Number(p) \in Nat \ {0} /\ Number(p) = Len(status[p]) + 1 /\ Len(job) \in Nat
         /\ DOMAIN job = 1 .. Len(job)
         /\ \A n \in DOMAIN entry[p] : entry[p][n].number \in Nat \ {0}
<1>1. /\ Typed /\ TypeOK /\ EntriesFit /\ RankFits(p) /\ RankFollows(p) /\ RankStaged(p)
      /\ pc \in [Ranks -> {"idle", "mpi", "out"}] /\ status \in [Ranks -> Seq(Statuses)]
      /\ staged \in [Ranks -> Nat] /\ entry \in [Ranks -> Seq(MpiCall)]
  BY DEF IInv, Typed, TypeOK, EntriesFit, EntriesFollow, StagedBound
<1>2. /\ job \in Seq(Collective) /\ entry[p] \in Seq(MpiCall)
      /\ Number(p) \in Nat \ {0} /\ Number(p) = Len(status[p]) + 1
  BY <1>1, NextCall
<1>3. Len(job) \in Nat /\ DOMAIN job = 1 .. Len(job)
  BY <1>2
<1>4. \A n \in DOMAIN entry[p] : entry[p][n].number \in Nat \ {0}
  BY <1>1, <1>3 DEF RankFits, EntryFits
<1> QED
  BY <1>1, <1>2, <1>3, <1>4

LEMMA EarlyParts ==
  ASSUME IInv, NEW p \in Ranks, NEW s, NEW d, Early(p, s, d)
  PROVE  Parts(p)'
<1>0. /\ Typed /\ TypeOK /\ EntriesFit /\ RankFits(p) /\ RankFollows(p) /\ RankStaged(p)
      /\ pc \in [Ranks -> {"idle", "mpi", "out"}] /\ staged \in [Ranks -> Nat]
      /\ Len(entry[p]) \in Nat /\ DOMAIN entry[p] = 1 .. Len(entry[p])
      /\ Number(p) \in Nat \ {0} /\ Number(p) = Len(status[p]) + 1 /\ Len(job) \in Nat
      /\ \A n \in DOMAIN entry[p] : entry[p][n].number \in Nat \ {0}
  BY Here
<1>1. /\ pc[p] = "idle" /\ Len(status[p]) < Len(job)
      /\ status' = [status EXCEPT ![p] = Append(@, s)]
      /\ pc' = [pc EXCEPT ![p] = "idle"]
      /\ staged' = [staged EXCEPT ![p] = @ + d]
      /\ UNCHANGED <<job, view, entry>>
      /\ d \in 0 .. 2 /\ (d > 0 => s = "error")
      /\ s = "success" => Skips(job[Number(p)])
  BY DEF Early, Current
<1>2. /\ Number(p)' = Number(p) + 1 /\ Len(status'[p]) = Number(p)
      /\ \A k \in 1 .. Number(p) - 1 : status'[p][k] = status[p][k]
  BY <1>0, <1>1, Returned
<1>3. ~InCall(p) /\ ~InCall(p)' /\ staged'[p] = staged[p] + d
  BY <1>0, <1>1 DEF InCall
<1>4. \A n \in DOMAIN entry[p] : EntryFits(p, entry[p][n])' /\ EntryFollows(p, n)'
  BY <1>0, <1>1, <1>2, <1>3, OldEntries
<1>5. RankFits(p)'
  <2>1. Len(status'[p]) <= Len(job)
    BY <1>0, <1>1, <1>2
  <2> QED
    BY <1>1, <1>3, <1>4, <2>1 DEF RankFits
<1>6. RankFollows(p)'
  <2>1. Gap(p, Len(entry[p]), Number(p))
    BY <1>0, <1>3 DEF RankFollows
  <2>2. Len(entry[p]) = 0 \/ Len(entry[p]) \in DOMAIN entry[p]
    BY <1>0
  <2>3. PICK n \in Nat : n = Len(entry[p])
    BY <1>0
  <2>4. n = 0 \/ n \in DOMAIN entry[p]
    BY <2>2, <2>3
  <2>a. n > 0 => entry[p][n].number \in Nat \ {0}
    BY <1>0, <2>4
  <2>b. Gap(p, n, Number(p)) /\ UNCHANGED <<job, entry>>
    BY <1>1, <2>1, <2>3
  <2>5. Gap(p, n, Number(p))'
    BY <1>0, <1>1, <2>4, <2>a, <2>b, GapGrows
  <2> QED
    BY <1>1, <1>4, <2>3, <2>5 DEF RankFollows
<1>7. RankStaged(p)'
  <2>1. PICK n \in Nat : n = Cardinality(Errors(status[p]))
    BY <1>0, <1>1, ErrorsGrow
  <2>2. Cardinality(Errors(status'[p])) = n + (IF s = "error" THEN 1 ELSE 0)
    BY <1>0, <1>1, <2>1, ErrorsGrow
  <2>3. staged[p] \in Nat /\ staged[p] <= 2 * n /\ Used(p)' = 0
    BY <1>0, <1>3, <2>1 DEF RankStaged, Used
  <2>4. 0 <= staged'[p] /\ staged'[p] <= 2 * Cardinality(Errors(status'[p]))
    BY <1>1, <1>3, <2>1, <2>2, <2>3
  <2>5. 2 * Cardinality(Errors(status'[p])) \in Nat
    BY <2>1, <2>2
  <2> QED
    BY <2>3, <2>4, <2>5 DEF RankStaged
<1> QED
  BY <1>5, <1>6, <1>7 DEF Parts

LEMMA EnterParts ==
  ASSUME IInv, NEW p \in Ranks, NEW a \in Arguments, Enter(p, a)
  PROVE  Parts(p)'
<1>0. /\ Typed /\ TypeOK /\ EntriesFit /\ RankFits(p) /\ RankFollows(p) /\ RankStaged(p)
      /\ pc \in [Ranks -> {"idle", "mpi", "out"}] /\ status \in [Ranks -> Seq(Statuses)]
      /\ staged \in [Ranks -> Nat] /\ entry \in [Ranks -> Seq(MpiCall)]
      /\ Len(entry[p]) \in Nat /\ DOMAIN entry[p] = 1 .. Len(entry[p])
      /\ Number(p) \in Nat \ {0} /\ Number(p) = Len(status[p]) + 1 /\ Len(job) \in Nat
      /\ \A n \in DOMAIN entry[p] : entry[p][n].number \in Nat \ {0}
  BY Here
<1>1. /\ pc[p] = "idle" /\ Len(status[p]) < Len(job)
      /\ pc' = [pc EXCEPT ![p] = "mpi"]
      /\ staged' = [staged EXCEPT ![p] = @ + Buffers(Current(p), p, a.space)]
      /\ entry' = [entry EXCEPT ![p] = Append(@, Entry(p, 1, a.space))]
      /\ UNCHANGED <<job, view, status>> /\ a.space \in {"device", "host"}
      /\ Checked(Current(p), p, a) = "go"
  BY DEF Enter, Calls, Arguments
<1>2. Number(p) \in DOMAIN job /\ Current(p) \in Collective /\ Current(p) = job[Number(p)]
  BY <1>0, <1>1, NextCall
<1>3. ~InCall(p) /\ InCall(p)' /\ Number(p)' = Number(p) /\ pc'[p] = "mpi"
  BY <1>0, <1>1 DEF InCall, Number
<1>4. PICK n \in Nat : n = Len(entry[p])
  BY <1>0
<1>5. PICK e : e = Entry(p, 1, a.space)
  OBVIOUS
<1>6. /\ e.call = Current(p) /\ e.number = Number(p) /\ e.piece = 1 /\ e.space = a.space
      /\ e.data = Given(Current(p), p, Number(p)) /\ e.room = Staging(Current(p), p).recv
  BY <1>5 DEF Entry
<1>7. /\ entry'[p] = Append(entry[p], e) /\ Len(entry'[p]) = n + 1
      /\ DOMAIN entry'[p] = 1 .. n + 1 /\ entry'[p][n + 1] = e
      /\ \A k \in DOMAIN entry[p] : entry'[p][k] = entry[p][k]
      /\ DOMAIN entry[p] = 1 .. n
  BY <1>0, <1>1, <1>4, <1>5
<1>8. \A k \in DOMAIN entry[p] : EntryFits(p, entry[p][k])' /\ EntryFollows(p, k)'
  BY <1>0, <1>1, <1>3, <1>7, OldEntries
<1>9. Last(p)' = e
  BY <1>7 DEF Last
<1>10. RankFits(p)'
  <2>1. ~Skips(Current(p))
    <3>1. Current(p).count \in Nat
      BY <1>2, BytesTyped
    <3> QED
      BY <1>1, <3>1 DEF Checked, Skips
  <2>2. 1 \in 1 .. Pieces(Current(p))
    BY <1>2, <2>1, PiecesTyped
  <2>3. /\ Given(Current(p), p, Number(p))' = Given(Current(p), p, Number(p))
        /\ Staging(Current(p), p)' = Staging(Current(p), p) /\ Current(p)' = Current(p)
    BY <1>1, <1>3 DEF Given, Staging, AllGather, AllReduce, AllToAll, Broadcast, Gather, Reduce,
         ReduceScatter, Scatter, IsRoot, Current
  <2>4. EntryFits(p, e)'
    <3>1. e.data = Given(e.call, p, e.number)'
      BY <1>6, <2>3, <1>3
    <3>2. e.room = Staging(e.call, p)'.recv
      BY <1>6, <2>3, <1>3
    <3>3. e.number \in DOMAIN job' /\ e.call = job'[e.number] /\ e.number <= Number(p)'
      BY <1>0, <1>1, <1>2, <1>3, <1>6
    <3>4. e.piece \in 1 .. Pieces(e.call) /\ ~Skips(e.call)
      BY <1>6, <2>1, <2>2
    <3> QED
      BY <1>3, <3>1, <3>2, <3>3, <3>4 DEF EntryFits
  <2>5. \A k \in DOMAIN entry'[p] : EntryFits(p, entry[p][k])'
    <3>1. \A k \in 1 .. n : EntryFits(p, entry[p][k])'
      BY <1>7, <1>8
    <3>2. EntryFits(p, entry[p][n + 1])'
      BY <1>7, <2>4 DEF EntryFits
    <3>3. \A k \in 1 .. n + 1 : k \in 1 .. n \/ k = n + 1
      BY <1>4
    <3> QED
      BY <1>7, <3>1, <3>2, <3>3
  <2>6. entry'[p] # <<>> /\ Last(p)'.number = Number(p)'
    BY <1>3, <1>4, <1>6, <1>7, <1>9
  <2>7. Len(status'[p]) <= Len(job')
    BY <1>0, <1>1
  <2> QED
    BY <1>3, <2>5, <2>6, <2>7 DEF RankFits
<1>11. RankFollows(p)'
  <2>1. Gap(p, n, Number(p))
    BY <1>0, <1>3, <1>4 DEF RankFollows
  <2>2. n > 0 => entry'[p][n] = entry[p][n] /\ entry[p][n].number \in Nat \ {0}
    <3>1. n > 0 => n \in DOMAIN entry[p]
      BY <1>4, <1>7
    <3> QED
      BY <1>0, <1>7, <3>1
  <2>3. PICK k \in Nat : k = Number(p)
    BY <1>0
  <2>4. Gap(p, n, k)'
    BY <1>1, <2>1, <2>2, <2>3, GapStays
  <2>5. EntryFollows(p, n + 1)'
    <3>1. (n + 1) - 1 = n
      OBVIOUS
    <3> QED
      BY <1>6, <1>7, <2>3, <2>4, <3>1 DEF EntryFollows
  <2>6. \A m \in 1 .. n + 1 : m \in 1 .. n \/ m = n + 1
    OBVIOUS
  <2> QED
    BY <1>3, <1>7, <1>8, <2>5, <2>6 DEF RankFollows
<1>12. RankStaged(p)'
  <2>1. PICK k \in 0 .. 2 : k = Buffers(Current(p), p, a.space)
    BY BuffersTyped
  <2>2. Used(p)' = k
    <3>1. Buffers(Current(p), p, a.space)' = Buffers(Current(p), p, a.space)
      BY <1>1, <1>3 DEF Buffers, IsRoot, Current
    <3>2. Current(p)' = Current(p)
      BY <1>1, <1>3 DEF Current
    <3> QED
      BY <1>3, <1>6, <1>9, <2>1, <3>1, <3>2 DEF Used
  <2>3. staged'[p] = staged[p] + k /\ staged[p] \in Nat
    BY <1>0, <1>1, <2>1
  <2>4. Used(p) = 0 /\ 0 <= staged[p] /\ staged[p] <= 2 * Cardinality(Errors(status[p])) + 0
    BY <1>0, <1>3 DEF RankStaged, Used
  <2>5. PICK m \in Nat : m = Cardinality(Errors(status[p]))
    BY <1>0, ErrorsTyped
  <2>6. Cardinality(Errors(status'[p])) = m
    BY <1>1, <2>5
  <2>7. k <= staged'[p] /\ staged'[p] <= 2 * m + k
    BY <2>1, <2>3, <2>4, <2>5
  <2> QED
    BY <2>2, <2>6, <2>7 DEF RankStaged
<1> QED
  BY <1>10, <1>11, <1>12 DEF Parts

LEMMA CompleteParts ==
  ASSUME IInv, NEW p \in Ranks, NEW w, Completes(p, w)
  PROVE  Parts(p)'
<1>0. /\ Typed /\ TypeOK /\ EntriesFit /\ RankFits(p) /\ RankFollows(p) /\ RankStaged(p)
      /\ pc \in [Ranks -> {"idle", "mpi", "out"}] /\ status \in [Ranks -> Seq(Statuses)]
      /\ staged \in [Ranks -> Nat] /\ entry \in [Ranks -> Seq(MpiCall)]
      /\ Len(entry[p]) \in Nat /\ DOMAIN entry[p] = 1 .. Len(entry[p])
      /\ Number(p) \in Nat \ {0} /\ Number(p) = Len(status[p]) + 1 /\ Len(job) \in Nat
      /\ \A n \in DOMAIN entry[p] : entry[p][n].number \in Nat \ {0}
  BY Here
<1>1. /\ pc[p] = "mpi" /\ ~MpiRefuses(Current(p)) /\ InCall(p)
      /\ \/ /\ Last(p).piece < Pieces(Current(p))
            /\ entry' = [entry EXCEPT ![p] =
                            Append(@, Entry(p, Last(p).piece + 1, Last(p).space))]
            /\ UNCHANGED pc
         \/ /\ Last(p).piece = Pieces(Current(p))
            /\ pc' = [pc EXCEPT ![p] = "out"]
            /\ UNCHANGED entry
      /\ UNCHANGED <<job, view, status, staged>>
  BY DEF Completes, InCall
<1>2. /\ Len(entry[p]) \in DOMAIN entry[p] /\ Len(entry[p]) \in Nat \ {0}
      /\ Last(p) \in MpiCall /\ Last(p).call = Current(p) /\ Last(p).number = Number(p)
      /\ Number(p) \in DOMAIN job /\ Current(p) \in Collective /\ ~Skips(Current(p))
      /\ Last(p).piece \in 1 .. Pieces(Current(p)) /\ Pieces(Current(p)) \in Nat
  BY <1>0, <1>1, LastCall, PiecesTyped
<1>3. Number(p)' = Number(p) /\ InCall(p)' /\ Current(p)' = Current(p)
      /\ Current(p) = job[Number(p)]
  BY <1>0, <1>1 DEF InCall, Number, Current
<1>4. CASE UNCHANGED entry /\ pc' = [pc EXCEPT ![p] = "out"] /\ Last(p).piece = Pieces(Current(p))
  <2>1. \A k \in DOMAIN entry[p] : EntryFits(p, entry[p][k])' /\ EntryFollows(p, k)'
    BY <1>0, <1>1, <1>3, <1>4, OldEntries
  <2>2. Last(p)' = Last(p)
    BY <1>4 DEF Last
  <2>3. RankFits(p)'
    <3>1. Last(p)'.number = Number(p)' /\ Last(p)'.piece = Pieces(Last(p)'.call)
            /\ ~MpiRefuses(Last(p)'.call)
      BY <1>1, <1>2, <1>3, <1>4, <2>2
    <3>2. entry'[p] # <<>> /\ Len(status'[p]) <= Len(job')
      BY <1>0, <1>1, <1>4 DEF RankFits
    <3>3. \A k \in DOMAIN entry'[p] : EntryFits(p, entry[p][k])'
      BY <1>4, <2>1
    <3> QED
      BY <3>1, <3>2, <3>3 DEF RankFits
  <2>4. RankFollows(p)'
    BY <1>3, <1>4, <2>1 DEF RankFollows
  <2>5. RankStaged(p)'
    <3>1. Used(p)' = Used(p)
      BY <1>1, <1>3, <2>2 DEF Used, Buffers, IsRoot
    <3> QED
      BY <1>0, <1>1, <3>1 DEF RankStaged
  <2> QED
    BY <2>3, <2>4, <2>5 DEF Parts
<1>5. CASE /\ Last(p).piece < Pieces(Current(p)) /\ UNCHANGED pc
           /\ entry' = [entry EXCEPT ![p] = Append(@, Entry(p, Last(p).piece + 1, Last(p).space))]
  <2>1. PICK n \in Nat \ {0} : n = Len(entry[p])
    BY <1>2
  <2>2. PICK old \in MpiCall : old = Last(p)
    BY <1>2
  <2>3. PICK e : e = Entry(p, old.piece + 1, old.space)
    OBVIOUS
  <2>4. /\ e.call = Current(p) /\ e.number = Number(p) /\ e.piece = old.piece + 1
        /\ e.space = old.space
        /\ e.data = Given(Current(p), p, Number(p)) /\ e.room = Staging(Current(p), p).recv
    BY <2>3 DEF Entry
  <2>5. /\ entry'[p] = Append(entry[p], e) /\ Len(entry'[p]) = n + 1
        /\ DOMAIN entry'[p] = 1 .. n + 1 /\ entry'[p][n + 1] = e
        /\ \A k \in DOMAIN entry[p] : entry'[p][k] = entry[p][k]
        /\ DOMAIN entry[p] = 1 .. n /\ n \in DOMAIN entry[p] /\ entry[p][n] = old
    BY <1>0, <1>5, <2>1, <2>2, <2>3 DEF Last
  <2>6. \A k \in DOMAIN entry[p] : EntryFits(p, entry[p][k])' /\ EntryFollows(p, k)'
    BY <1>0, <1>1, <1>3, <2>5, OldEntries
  <2>7. Last(p)' = e
    BY <2>5 DEF Last
  <2>8. RankFits(p)'
    <3>1. /\ Given(Current(p), p, Number(p))' = Given(Current(p), p, Number(p))
          /\ Staging(Current(p), p)' = Staging(Current(p), p)
      BY <1>1, <1>3 DEF Given, Staging, AllGather, AllReduce, AllToAll, Broadcast, Gather,
           Reduce, ReduceScatter, Scatter, IsRoot
    <3>2. e.data = Given(e.call, p, e.number)'
      BY <1>3, <2>4, <3>1
    <3>3. e.room = Staging(e.call, p)'.recv
      BY <1>3, <2>4, <3>1
    <3>4. e.number \in DOMAIN job' /\ e.call = job'[e.number] /\ e.number <= Number(p)'
      BY <1>0, <1>1, <1>2, <1>3, <2>4
    <3>5. e.piece \in 1 .. Pieces(e.call) /\ ~Skips(e.call)
      <4>1. old.piece + 1 \in 1 .. Pieces(Current(p))
        BY <1>2, <1>5, <2>2
      <4> QED
        BY <1>2, <2>4, <4>1
    <3>6. EntryFits(p, entry[p][n + 1])'
      BY <1>3, <2>5, <3>2, <3>3, <3>4, <3>5 DEF EntryFits
    <3>7. \A k \in 1 .. n + 1 : k \in 1 .. n \/ k = n + 1
      OBVIOUS
    <3>8. \A k \in DOMAIN entry'[p] : EntryFits(p, entry[p][k])'
      BY <2>5, <2>6, <3>6, <3>7
    <3>9. entry'[p] # <<>> /\ Last(p)'.number = Number(p)'
      BY <1>3, <2>4, <2>5, <2>7
    <3>10. Len(status'[p]) <= Len(job') /\ pc'[p] = "mpi"
      BY <1>0, <1>1, <1>5 DEF RankFits
    <3> QED
      BY <3>8, <3>9, <3>10 DEF RankFits
  <2>9. RankFollows(p)'
    <3>1. EntryFollows(p, n + 1)'
      <4>1. e.piece # 1 /\ e.piece - 1 = old.piece /\ (n + 1) - 1 = n /\ n + 1 > 1
        BY <1>2, <2>2, <2>4
      <4>2. entry'[p][n] = old /\ old.number = e.number
        BY <1>2, <2>2, <2>4, <2>5
      <4> QED
        BY <2>5, <4>1, <4>2 DEF EntryFollows
    <3>2. \A k \in 1 .. n + 1 : k \in 1 .. n \/ k = n + 1
      OBVIOUS
    <3> QED
      BY <1>3, <2>5, <2>6, <3>1, <3>2 DEF RankFollows
  <2>10. RankStaged(p)'
    <3>1. Used(p) = Buffers(Current(p), p, old.space)
      BY <1>1, <1>2, <2>2 DEF Used
    <3>2. Used(p)' = Buffers(Current(p), p, old.space)'
      BY <1>3, <2>4, <2>7 DEF Used
    <3>3. Buffers(Current(p), p, old.space)' = Buffers(Current(p), p, old.space)
      BY <1>1, <1>3 DEF Buffers, IsRoot
    <3> QED
      BY <1>0, <1>1, <3>1, <3>2, <3>3 DEF RankStaged
  <2> QED
    BY <2>8, <2>9, <2>10 DEF Parts
<1> QED
  BY <1>1, <1>4, <1>5

\* A rank returns from a call to MPI, with or without its buffers.
Leaves(p, s, d) ==
  /\ pc[p] = "out" /\ pc' = [pc EXCEPT ![p] = "idle"]
  /\ status' = [status EXCEPT ![p] = Append(@, s)]
  /\ staged' = [staged EXCEPT ![p] = @ - d]
  /\ UNCHANGED <<job, view, entry>>
  /\ \/ s = "success" /\ d = Used(p)
     \/ s = "error" /\ d = 0

LEMMA Leaving ==
  ASSUME IInv, NEW p \in Ranks, Deliver(p) \/ CopyOutFails(p)
  PROVE  \E s, d : Leaves(p, s, d)
<1>1. CASE Deliver(p)
  <2>1. pc[p] = "out" /\ InCall(p)
    BY <1>1 DEF Deliver, InCall
  <2>2. Last(p).call = Current(p)
    BY <2>1, Here, LastCall
  <2>3. Leaves(p, "success", Used(p))
    BY <1>1, <2>1, <2>2 DEF Deliver, Return, Leaves, Used, Last
  <2> QED
    BY <2>3
<1>2. CASE CopyOutFails(p)
  <2>1. staged' = [staged EXCEPT ![p] = @ - 0]
    <3>1. staged \in [Ranks -> Nat]
      BY Here
    <3> QED
      BY <1>2, <3>1 DEF CopyOutFails
  <2>2. Leaves(p, "error", 0)
    BY <1>2, <2>1 DEF CopyOutFails, Return, Leaves
  <2> QED
    BY <2>2
<1> QED
  BY <1>1, <1>2

LEMMA LeaveParts ==
  ASSUME IInv, NEW p \in Ranks, NEW s, NEW d, Leaves(p, s, d)
  PROVE  Parts(p)'
<1>0. /\ Typed /\ TypeOK /\ EntriesFit /\ RankFits(p) /\ RankFollows(p) /\ RankStaged(p)
      /\ pc \in [Ranks -> {"idle", "mpi", "out"}] /\ status \in [Ranks -> Seq(Statuses)]
      /\ staged \in [Ranks -> Nat] /\ entry \in [Ranks -> Seq(MpiCall)]
      /\ Len(entry[p]) \in Nat /\ DOMAIN entry[p] = 1 .. Len(entry[p])
      /\ Number(p) \in Nat \ {0} /\ Number(p) = Len(status[p]) + 1 /\ Len(job) \in Nat
      /\ DOMAIN job = 1 .. Len(job)
  BY Here
<1>1. /\ pc[p] = "out" /\ InCall(p)
      /\ pc' = [pc EXCEPT ![p] = "idle"]
      /\ status' = [status EXCEPT ![p] = Append(@, s)]
      /\ staged' = [staged EXCEPT ![p] = @ - d]
      /\ UNCHANGED <<job, view, entry>>
      /\ \/ s = "success" /\ d = Used(p)
         \/ s = "error" /\ d = 0
  BY DEF Leaves, InCall
<1>2. /\ Number(p)' = Number(p) + 1 /\ Len(status'[p]) = Number(p)
      /\ \A k \in 1 .. Number(p) - 1 : status'[p][k] = status[p][k]
  BY <1>0, <1>1, Returned
<1>3. /\ Len(entry[p]) \in DOMAIN entry[p] /\ Len(entry[p]) \in Nat \ {0}
      /\ Last(p).call = Current(p) /\ Last(p).number = Number(p)
      /\ Number(p) \in DOMAIN job /\ Last(p).piece = Pieces(Current(p))
  BY <1>0, <1>1, LastCall
<1>4. ~InCall(p)' /\ staged'[p] = staged[p] - d
  BY <1>0, <1>1 DEF InCall
<1>5. \A n \in DOMAIN entry[p] : EntryFits(p, entry[p][n])' /\ EntryFollows(p, n)'
  BY <1>0, <1>1, <1>2, <1>4, OldEntries
<1>6. RankFits(p)'
  <2>1. Len(status'[p]) <= Len(job)
    BY <1>0, <1>2, <1>3
  <2> QED
    BY <1>1, <1>4, <1>5, <2>1 DEF RankFits
<1>7. RankFollows(p)'
  <2>1. PICK n \in Nat \ {0} : n = Len(entry[p])
    BY <1>3
  <2>2. entry[p][n].number = Number(p) /\ entry[p][n].piece = Pieces(entry[p][n].call)
    BY <1>3, <2>1 DEF Last
  <2>3. Gap(p, n, Number(p))'
    BY <1>0, <1>1, <2>2, GapAfter
  <2> QED
    BY <1>1, <1>5, <2>1, <2>3 DEF RankFollows
<1>8. RankStaged(p)'
  <2>1. PICK n \in Nat : n = Cardinality(Errors(status[p]))
    BY <1>0, <1>1, ErrorsGrow
  <2>2. Cardinality(Errors(status'[p])) = n + (IF s = "error" THEN 1 ELSE 0)
    BY <1>0, <1>1, <2>1, ErrorsGrow
  <2>3. PICK k \in 0 .. 2 : k = Used(p)
    BY <1>1, BuffersTyped DEF Used
  <2>4. staged[p] \in Nat /\ k <= staged[p] /\ staged[p] <= 2 * n + k /\ Used(p)' = 0
    BY <1>0, <1>4, <2>1, <2>3 DEF RankStaged, Used
  <2>5. 0 <= staged'[p] /\ staged'[p] <= 2 * Cardinality(Errors(status'[p]))
    <3>1. CASE s = "success" /\ d = k
      BY <1>4, <2>1, <2>2, <2>3, <2>4, <3>1
    <3>2. CASE s = "error" /\ d = 0
      BY <1>4, <2>1, <2>2, <2>3, <2>4, <3>2
    <3> QED
      BY <1>1, <2>3, <3>1, <3>2
  <2>6. 2 * Cardinality(Errors(status'[p])) \in Nat
    BY <2>1, <2>2
  <2> QED
    BY <2>4, <2>5, <2>6 DEF RankStaged
<1> QED
  BY <1>6, <1>7, <1>8 DEF Parts

------------------------------------------------------------------------------
LEMMA StepIInv == ASSUME IInv, [Next]_vars PROVE IInv'
<1>0. Typed /\ TypeOK /\ pc \in [Ranks -> {"idle", "mpi", "out"}]
        /\ status \in [Ranks -> Seq(Statuses)] /\ staged \in [Ranks -> Nat]
        /\ entry \in [Ranks -> Seq(MpiCall)]
  BY DEF IInv, Typed, TypeOK
<1>1. CASE UNCHANGED vars
  <2>1. UNCHANGED <<job, view, pc, status, staged, entry, host, memory, aborted>>
    BY <1>1 DEF vars
  <2>2. Typed'
    BY <1>0, <2>1 DEF Typed, TypeOK
  <2>3. ASSUME NEW q \in Ranks PROVE RankFits(q)' /\ RankFollows(q)' /\ RankStaged(q)'
    <3>1. RankFits(q) /\ RankFollows(q) /\ RankStaged(q)
      BY DEF IInv, EntriesFit, EntriesFollow, StagedBound
    <3> QED
      BY <2>1, <3>1, LeftAlone
  <2> QED
    BY <2>2, <2>3 DEF IInv, EntriesFit, EntriesFollow, StagedBound
<1>2. CASE Next
  <2>1. Typed'
    BY <1>2, TypedStep
  <2>2. ASSUME NEW p \in Ranks, NEW s, NEW d, Early(p, s, d)
        PROVE  EntriesFit' /\ EntriesFollow' /\ StagedBound'
    <3>1. /\ UNCHANGED <<job, view>>
          /\ \A q \in Ranks \ {p} : /\ entry'[q] = entry[q] /\ status'[q] = status[q]
                                    /\ pc'[q] = pc[q] /\ staged'[q] = staged[q]
      BY <1>0, <2>2 DEF Early
    <3> QED
      BY <2>2, <3>1, EarlyParts, ActsAt
  <2>3. ASSUME NEW p \in Ranks, NEW a \in Arguments, Enter(p, a)
        PROVE  EntriesFit' /\ EntriesFollow' /\ StagedBound'
    <3>1. /\ UNCHANGED <<job, view>>
          /\ \A q \in Ranks \ {p} : /\ entry'[q] = entry[q] /\ status'[q] = status[q]
                                    /\ pc'[q] = pc[q] /\ staged'[q] = staged[q]
      BY <1>0, <2>3 DEF Enter
    <3> QED
      BY <2>3, <3>1, EnterParts, ActsAt
  <2>4. ASSUME NEW p \in Ranks, Complete(p)
        PROVE  EntriesFit' /\ EntriesFollow' /\ StagedBound'
    <3>0. PICK w : Completes(p, w)
      BY <1>0, <2>4, CompleteEffect DEF IInv
    <3>1. /\ UNCHANGED <<job, view>>
          /\ \A q \in Ranks \ {p} : /\ entry'[q] = entry[q] /\ status'[q] = status[q]
                                    /\ pc'[q] = pc[q] /\ staged'[q] = staged[q]
      BY <1>0, <3>0 DEF Completes
    <3> QED
      BY <3>0, <3>1, CompleteParts, ActsAt
  <2>5. ASSUME NEW p \in Ranks, AbortInMpi(p)
        PROVE  EntriesFit' /\ EntriesFollow' /\ StagedBound'
    <3>1. UNCHANGED <<job, view, pc, status, staged, entry>>
      BY <2>5 DEF AbortInMpi
    <3>2. ASSUME NEW q \in Ranks PROVE RankFits(q)' /\ RankFollows(q)' /\ RankStaged(q)'
      <4>1. RankFits(q) /\ RankFollows(q) /\ RankStaged(q)
        BY DEF IInv, EntriesFit, EntriesFollow, StagedBound
      <4> QED
        BY <3>1, <4>1, LeftAlone
    <3> QED
      BY <3>2 DEF EntriesFit, EntriesFollow, StagedBound
  <2>6. ASSUME NEW p \in Ranks, Deliver(p) \/ CopyOutFails(p)
        PROVE  EntriesFit' /\ EntriesFollow' /\ StagedBound'
    <3>0. PICK s, d : Leaves(p, s, d)
      BY <2>6, Leaving
    <3>1. /\ UNCHANGED <<job, view>>
          /\ \A q \in Ranks \ {p} : /\ entry'[q] = entry[q] /\ status'[q] = status[q]
                                    /\ pc'[q] = pc[q] /\ staged'[q] = staged[q]
      BY <1>0, <3>0 DEF Leaves
    <3> QED
      BY <3>0, <3>1, LeaveParts, ActsAt
  <2>7. EntriesFit' /\ EntriesFollow' /\ StagedBound'
    BY <1>0, <1>2, <2>2, <2>3, <2>4, <2>5, <2>6, WhoActs
  <2> QED
    BY <2>1, <2>7 DEF IInv
<1> QED
  BY <1>1, <1>2

LEMMA Inductive == Spec => []IInv
BY InitIInv, StepIInv, PTL DEF Spec

\* The variables have their types in every state, and staged is a natural
\* number: no call frees a host buffer that it has not allocated.
THEOREM Typing == Spec => []TypeOK
<1>1. IInv => TypeOK
  BY DEF IInv, Typed
<1> QED
  BY <1>1, Inductive, PTL

\* Between calls a rank holds host buffers only for copies that have failed,
\* at most two for each: every other way out of a collective frees them.
THEOREM Releases == Spec => []BuffersReleased
<1>1. IInv => BuffersReleased
  <2> SUFFICES ASSUME IInv, NEW p \in Ranks, pc[p] = "idle"
               PROVE  staged[p] <= 2 * Cardinality(Errors(status[p]))
    BY DEF BuffersReleased, Errors
  <2>1. RankStaged(p) /\ status[p] \in Seq(Statuses)
    BY Here
  <2>2. PICK n \in Nat : n = Cardinality(Errors(status[p]))
    BY <2>1, ErrorsTyped
  <2>3. staged[p] <= 2 * n + 0
    BY <2>1, <2>2 DEF RankStaged, Used, InCall
  <2>4. 2 * n + 0 = 2 * n
    OBVIOUS
  <2> QED
    BY <2>2, <2>3, <2>4
<1> QED
  BY <1>1, Inductive, PTL

\* MPI reads and writes inside the host buffers of a rank when the Communicator
\* of the rank has the rank and the size of the MPI communicator; in a clique
\* of another size it does not (run collective_hybrid).
THEOREM Fits == TrueViews => (Spec => []HostFits)
<1> SUFFICES ASSUME TrueViews PROVE Spec => []HostFits
  OBVIOUS
<1>1. ASSUME IInv PROVE HostFits
  <2> SUFFICES ASSUME NEW p \in Ranks, pc[p] = "mpi"
      PROVE LET e == entry[p][Len(entry[p])]
                c == e.call
                m == Staging(c, p).units
                reads == CASE c.op \in {"AllToAll", "ReduceScatter"} -> m * N
                           [] c.op = "Scatter" -> IF p = c.root THEN m * N ELSE 0
                           [] c.op = "Broadcast" -> IF p = c.root THEN m ELSE 0
                           [] OTHER -> m
                writes == CASE c.op \in {"AllGather", "AllToAll"} -> m * N
                            [] c.op = "Gather" -> IF p = c.root THEN m * N ELSE 0
                            [] c.op = "Reduce" -> IF p = c.root THEN m ELSE 0
                            [] OTHER -> m
            IN reads <= Cardinality(DOMAIN e.data) /\ writes <= e.room
    BY DEF HostFits
  <2>0. /\ Typed /\ TypeOK /\ EntriesFit /\ RankFits(p) /\ view \in Views
    BY <1>1, Here DEF TypeOK
  <2>1. view[p] = [rank |-> p, size |-> N] /\ N \in Nat \ {0}
    BY <2>0, ConstantsFit DEF TrueViews
  <2>2. /\ Len(entry[p]) \in DOMAIN entry[p]
        /\ Last(p).call = Current(p) /\ Last(p).number = Number(p) /\ Number(p) \in Nat \ {0}
        /\ Current(p) \in Collective
    BY <2>0, LastCall, NextCall DEF InCall
  <2>3. Last(p).data = Given(Current(p), p, Number(p)) /\ Last(p).room = Staging(Current(p), p).recv
    BY <2>0, <2>2 DEF RankFits, EntryFits, Last
  <2>4. PICK c \in Collective : c = Current(p)
    BY <2>2
  <2>5. PICK s \in Nat, r \in Nat, m \in Int :
          s = Staging(c, p).send /\ r = Staging(c, p).recv /\ m = Staging(c, p).units
    <3>1. view[p] \in View
      BY <2>0, NextCall
    <3> QED
      BY <3>1, StagingTyped
  <2>6. Cardinality(DOMAIN Last(p).data) = s
    <3>1. DOMAIN Last(p).data = 0 .. s - 1
      BY <2>3, <2>4, <2>5 DEF Given
    <3>2. Cardinality(0 .. s - 1) = IF 0 > s - 1 THEN 0 ELSE (s - 1) - 0 + 1
      BY FS_Interval
    <3> QED
      BY <3>1, <3>2
  <2>7. PICK b \in Nat, k \in Nat : b = Bytes(c) /\ k = c.count /\ k <= b
    BY BytesTyped
  <2>8. PICK all \in Nat : all = b * N
    BY <2>1
  <2>9. k * N <= all
    BY <2>1, <2>7, <2>8
  <2>10. IsRoot(c, p) <=> p = c.root
    BY <2>1 DEF IsRoot
  <2>11. Last(p) = entry[p][Len(entry[p])] /\ Last(p).call = c /\ Last(p).room = r
    BY <2>2, <2>3, <2>4, <2>5 DEF Last
  <2>12. /\ c.op = "AllGather" => m <= k /\ s = b /\ r = all
         /\ c.op = "AllReduce" => m <= k /\ s = b /\ r = b
         /\ c.op = "AllToAll" => m = k /\ s = all /\ r = all
         /\ c.op = "Broadcast" => m = b /\ (p = c.root => s = b) /\ r = b
         /\ c.op = "Gather" => m = b /\ s = b /\ (p = c.root => r = all)
         /\ c.op = "Reduce" => m = k /\ s = b /\ (p = c.root => r = b)
         /\ c.op = "ReduceScatter" => m = k /\ s = all /\ r = b
         /\ c.op = "Scatter" => m = b /\ (p = c.root => s = all) /\ r = b
    <3>0. AsInt(k) <= k
      BY AsIntTyped
    <3>1. CASE c.op \in {"AllGather", "AllReduce", "AllToAll"}
      BY <2>1, <2>5, <2>7, <2>8, <3>0, <3>1, StagingIs DEF AllGather, AllReduce, AllToAll
    <3>2. CASE c.op \in {"Broadcast", "Gather", "Reduce"}
      BY <2>1, <2>5, <2>7, <2>8, <2>10, <3>2, StagingIs DEF Broadcast, Gather, Reduce
    <3>3. CASE c.op \in {"ReduceScatter", "Scatter"}
      BY <2>1, <2>5, <2>7, <2>8, <2>10, <3>3, StagingIs DEF ReduceScatter, Scatter
    <3> QED
      BY <3>1, <3>2, <3>3, StagingIs
  <2> DEFINE reads == CASE c.op \in {"AllToAll", "ReduceScatter"} -> m * N
                        [] c.op = "Scatter" -> IF p = c.root THEN m * N ELSE 0
                        [] c.op = "Broadcast" -> IF p = c.root THEN m ELSE 0
                        [] OTHER -> m
             writes == CASE c.op \in {"AllGather", "AllToAll"} -> m * N
                         [] c.op = "Gather" -> IF p = c.root THEN m * N ELSE 0
                         [] c.op = "Reduce" -> IF p = c.root THEN m ELSE 0
                         [] OTHER -> m
  <2>13. PICK mN \in Int : mN = m * N /\ (m <= k => mN <= all) /\ (m = b => mN = all)
    <3>1. m <= k => m * N <= k * N
      BY <2>1
    <3>2. m * N \in Int /\ k * N \in Int
      BY <2>1
    <3> QED
      BY <2>8, <2>9, <3>1, <3>2
  <2>14. reads <= s /\ writes <= r
    <3>1. CASE c.op \in {"AllGather", "AllReduce", "AllToAll"}
      BY <2>7, <2>9, <2>12, <2>13, <3>1
    <3>2. CASE c.op \in {"Broadcast", "Gather", "Reduce"}
      BY <2>7, <2>9, <2>12, <2>13, <3>2
    <3>3. CASE c.op \in {"ReduceScatter", "Scatter"}
      BY <2>7, <2>9, <2>12, <2>13, <3>3
    <3> QED
      BY <3>1, <3>2, <3>3, StagingIs
  <2> QED
    BY <2>5, <2>6, <2>11, <2>14
<1> QED
  BY <1>1, Inductive, PTL

------------------------------------------------------------------------------
\* A set of naturals that is not empty has a least element.
LEMMA LeastElement ==
  ASSUME NEW S \in SUBSET Nat, S # {}
  PROVE  \E m \in S : \A q \in S : ~(q < m)
<1> DEFINE R == OpToRel(<, Nat)
<1>1. IsWellFoundedOn(R, Nat)
  BY NatLessThanWellFounded
<1> HIDE DEF R
<1>2. PICK m \in S : \A q \in S : ~(<<q, m>> \in R)
  BY <1>1, WFMin
<1> QED
  BY <1>2 DEF R, OpToRel

\* The i-th calls of the two ranks are of the same collective and chunk.
Level(p, q, i) ==
  entry[p][i].number = entry[q][i].number /\ entry[p][i].piece = entry[q][i].piece

\* What is known of one MPI call of one rank.
LEMMA EntryIs ==
  ASSUME IInv, NEW p \in Ranks, NEW i \in DOMAIN entry[p]
  PROVE  /\ entry[p][i].number \in Nat \ {0} /\ entry[p][i].number \in DOMAIN job
         /\ entry[p][i].call = job[entry[p][i].number]
         /\ entry[p][i].number - 1 <= Len(status[p]) /\ Len(status[p]) \in Nat
         /\ entry[p][i].piece \in Nat /\ Pieces(entry[p][i].call) \in Nat
         /\ entry[p][i].piece <= Pieces(entry[p][i].call) /\ ~Skips(job[entry[p][i].number])
         /\ entry[p][i].data = Given(entry[p][i].call, p, entry[p][i].number)
         /\ EntryFollows(p, i) /\ i \in Nat \ {0}
<1>1. /\ TypeOK /\ RankFits(p) /\ RankFollows(p) /\ entry[p] \in Seq(MpiCall)
      /\ Number(p) \in Nat \ {0} /\ Number(p) = Len(status[p]) + 1
      /\ DOMAIN entry[p] = 1 .. Len(entry[p]) /\ Len(entry[p]) \in Nat
      /\ status[p] \in Seq(Statuses) /\ entry[p][i].number \in Nat \ {0}
  BY Here
<1>2. EntryFits(p, entry[p][i]) /\ EntryFollows(p, i)
  BY <1>1 DEF RankFits, RankFollows
<1>3. entry[p][i].number \in DOMAIN job /\ entry[p][i].call = job[entry[p][i].number]
      /\ entry[p][i].piece \in 1 .. Pieces(entry[p][i].call) /\ ~Skips(entry[p][i].call)
      /\ entry[p][i].data = Given(entry[p][i].call, p, entry[p][i].number)
  BY <1>2 DEF EntryFits
<1>4. entry[p][i].call \in Collective
  BY <1>1, <1>3, NextCall
<1>5. Pieces(entry[p][i].call) \in Nat
  BY <1>4, PiecesTyped
<1>6. entry[p][i].number <= Number(p)
  <2>1. entry[p][i].number <= Number(p) \/ entry[p][i].number < Number(p)
    BY <1>2 DEF EntryFits
  <2> QED
    BY <1>1, <2>1
<1>7. entry[p][i].number - 1 <= Len(status[p]) /\ Len(status[p]) \in Nat
  BY <1>1, <1>6
<1> QED
  BY <1>1, <1>2, <1>3, <1>5, <1>7

\* A call with a number below that of an MPI call of the rank has returned.
LEMMA HasReturned ==
  ASSUME IInv, NEW p \in Ranks, NEW i \in DOMAIN entry[p], NEW m \in Nat \ {0},
         m < entry[p][i].number, NEW k \in Nat, m <= k, NoFailure(k)
  PROVE  status[p][m] = "success"
<1>1. entry[p][i].number \in Nat /\ entry[p][i].number - 1 <= Len(status[p])
        /\ Len(status[p]) \in Nat /\ status[p] \in Seq(Statuses)
  BY EntryIs, Here
<1>2. m \in DOMAIN status[p]
  BY <1>1
<1> QED
  BY <1>2 DEF NoFailure, Failed

\* The step of the induction: two ranks that have made the same MPI calls so
\* far make the same one next, as no call has failed.
LEMMA LevelNext ==
  ASSUME IInv, NEW p \in Ranks, NEW q \in Ranks, NEW k \in Nat, NoFailure(k),
         NEW i \in DOMAIN entry[p], i \in DOMAIN entry[q], entry[p][i].number <= k,
         i > 1 => i - 1 \in DOMAIN entry[p] /\ i - 1 \in DOMAIN entry[q] /\ Level(p, q, i - 1)
  PROVE  Level(p, q, i)
<1>1. PICK a : a = entry[p][i]
  OBVIOUS
<1>2. PICK b : b = entry[q][i]
  OBVIOUS
<1>3. /\ i \in Nat \ {0} /\ a.number \in Nat \ {0} /\ b.number \in Nat \ {0}
      /\ a.call = job[a.number] /\ b.call = job[b.number]
      /\ ~Skips(job[a.number]) /\ ~Skips(job[b.number]) /\ a.number <= k
      /\ a.piece \in Nat /\ b.piece \in Nat /\ Pieces(a.call) \in Nat /\ Pieces(b.call) \in Nat
      /\ a.piece <= Pieces(a.call) /\ b.piece <= Pieces(b.call)
      /\ EntryFollows(p, i) /\ EntryFollows(q, i)
  BY <1>1, <1>2, EntryIs
<1>4. PICK j \in Nat : j = i - 1
  BY <1>3
<1>5. /\ a.piece = 1 => Gap(p, j, a.number)
      /\ a.piece # 1 => /\ i > 1 /\ entry[p][j].number = a.number
                        /\ entry[p][j].piece = a.piece - 1
      /\ b.piece = 1 => Gap(q, j, b.number)
      /\ b.piece # 1 => /\ i > 1 /\ entry[q][j].number = b.number
                        /\ entry[q][j].piece = b.piece - 1
  BY <1>1, <1>2, <1>3, <1>4 DEF EntryFollows
<1>6. j > 0 => /\ i > 1 /\ entry[p][j].number = entry[q][j].number
               /\ entry[p][j].piece = entry[q][j].piece
               /\ entry[p][j].call = entry[q][j].call
               /\ entry[p][j].number \in Nat \ {0} /\ entry[q][j].piece \in Nat
               /\ entry[p][j].call = job[entry[p][j].number]
  <2>1. ASSUME j > 0
        PROVE  i > 1 /\ j \in DOMAIN entry[p] /\ j \in DOMAIN entry[q] /\ Level(p, q, j)
    BY <1>3, <1>4, <2>1
  <2>2. ASSUME j > 0
        PROVE  /\ entry[p][j].number \in Nat \ {0}
               /\ entry[p][j].call = job[entry[p][j].number]
               /\ entry[q][j].call = job[entry[q][j].number]
               /\ entry[q][j].piece \in Nat
    BY <2>1, <2>2, EntryIs
  <2>3. ASSUME j > 0
        PROVE  entry[p][j].number = entry[q][j].number /\ entry[p][j].piece = entry[q][j].piece
    BY <2>1, <2>3 DEF Level
  <2> QED
    BY <2>1, <2>2, <2>3
<1>7. i > 1 <=> j > 0
  BY <1>3, <1>4
<1>8. CASE a.piece = 1 /\ b.piece = 1
  <2>1. Gap(p, j, a.number) /\ Gap(q, j, b.number)
    BY <1>5, <1>8
  <2>2. ASSUME a.number < b.number PROVE FALSE
    <3>1. a.number \in 1 .. b.number - 1 /\ (j > 0 => a.number > entry[q][j].number)
      <4>1. j > 0 => entry[p][j].number < a.number
        BY <2>1 DEF Gap
      <4>2. j > 0 => entry[q][j].number < a.number /\ entry[q][j].number \in Nat
        BY <1>6, <4>1
      <4>3. a.number \in 1 .. b.number - 1
        BY <1>3, <2>2
      <4> QED
        BY <1>3, <4>2, <4>3
    <3>2. status[q][a.number] # "success"
      BY <1>3, <2>1, <3>1 DEF Gap
    <3>3. status[q][a.number] = "success"
      BY <1>2, <1>3, <2>2, HasReturned
    <3> QED
      BY <3>2, <3>3
  <2>3. ASSUME b.number < a.number PROVE FALSE
    <3>1. b.number \in 1 .. a.number - 1 /\ (j > 0 => b.number > entry[p][j].number)
      <4>1. j > 0 => entry[q][j].number < b.number
        BY <2>1 DEF Gap
      <4>2. j > 0 => entry[p][j].number < b.number /\ entry[p][j].number \in Nat
        BY <1>6, <4>1
      <4>3. b.number \in 1 .. a.number - 1
        BY <1>3, <2>3
      <4> QED
        BY <1>3, <4>2, <4>3
    <3>2. status[p][b.number] # "success"
      BY <1>3, <2>1, <3>1 DEF Gap
    <3>3. b.number <= k
      BY <1>3, <2>3
    <3>4. status[p][b.number] = "success"
      BY <1>1, <1>3, <2>3, <3>3, HasReturned
    <3> QED
      BY <3>2, <3>4
  <2>4. a.number = b.number
    BY <1>3, <2>2, <2>3
  <2> QED
    BY <1>1, <1>2, <1>8, <2>4 DEF Level
<1>9. CASE a.piece = 1 /\ b.piece # 1
  <2>1. Gap(p, j, a.number) /\ j > 0 /\ entry[q][j].number = b.number
          /\ entry[q][j].piece = b.piece - 1
    BY <1>5, <1>7, <1>9
  <2>2. entry[p][j].number < a.number
    BY <2>1 DEF Gap
  <2>3. entry[p][j].piece = Pieces(entry[p][j].call) \/ status[p][entry[p][j].number] # "success"
    BY <2>1 DEF Gap
  <2>4. CASE entry[p][j].piece = Pieces(entry[p][j].call)
    <3>1. b.call = entry[p][j].call /\ entry[p][j].piece = b.piece - 1
      BY <1>3, <1>6, <2>1
    <3>2. b.piece - 1 = Pieces(b.call)
      BY <2>4, <3>1
    <3> QED
      BY <1>3, <3>2
  <2>5. CASE status[p][entry[p][j].number] # "success"
    <3>1. PICK m \in Nat \ {0} : m = entry[p][j].number
      BY <1>6, <2>1
    <3>2. m < a.number /\ m <= k
      BY <1>3, <2>2, <3>1
    <3>3. status[p][m] = "success"
      BY <1>1, <3>2, HasReturned
    <3> QED
      BY <2>5, <3>1, <3>3
  <2> QED
    BY <2>3, <2>4, <2>5
<1>10. CASE a.piece # 1 /\ b.piece = 1
  <2>1. Gap(q, j, b.number) /\ j > 0 /\ entry[p][j].number = a.number
          /\ entry[p][j].piece = a.piece - 1
    BY <1>5, <1>7, <1>10
  <2>2. entry[q][j].number < b.number
    BY <2>1 DEF Gap
  <2>3. entry[q][j].piece = Pieces(entry[q][j].call) \/ status[q][entry[q][j].number] # "success"
    BY <2>1 DEF Gap
  <2>4. CASE entry[q][j].piece = Pieces(entry[q][j].call)
    <3>1. a.call = entry[q][j].call /\ entry[q][j].piece = a.piece - 1
      BY <1>3, <1>6, <2>1
    <3>2. a.piece - 1 = Pieces(a.call)
      BY <2>4, <3>1
    <3> QED
      BY <1>3, <3>2
  <2>5. CASE status[q][entry[q][j].number] # "success"
    <3>1. entry[q][j].number = a.number
      BY <1>6, <2>1
    <3>2. status[q][a.number] = "success"
      BY <1>2, <1>3, <2>2, <3>1, HasReturned
    <3> QED
      BY <2>5, <3>1, <3>2
  <2> QED
    BY <2>3, <2>4, <2>5
<1>11. CASE a.piece # 1 /\ b.piece # 1
  <2>1. j > 0 /\ entry[p][j].number = a.number /\ entry[p][j].piece = a.piece - 1
          /\ entry[q][j].number = b.number /\ entry[q][j].piece = b.piece - 1
    BY <1>5, <1>7, <1>11
  <2>2. a.number = b.number /\ a.piece - 1 = b.piece - 1
    BY <1>6, <2>1
  <2>3. a.piece = b.piece
    BY <1>3, <2>2
  <2> QED
    BY <1>1, <1>2, <2>2, <2>3 DEF Level
<1> QED
  BY <1>8, <1>9, <1>10, <1>11

\* While no call up to the k-th has failed, the MPI calls of any two ranks up
\* to that call are the same, one by one.
LEMMA Aligned ==
  ASSUME IInv, NEW p \in Ranks, NEW q \in Ranks, NEW k \in Nat, NoFailure(k),
         NEW n \in DOMAIN entry[p], n \in DOMAIN entry[q], entry[p][n].number <= k
  PROVE  Level(p, q, n)
<1> DEFINE Bad == {i \in DOMAIN entry[p] :
                     i \in DOMAIN entry[q] /\ entry[p][i].number <= k /\ ~Level(p, q, i)}
<1>0. /\ Len(entry[p]) \in Nat /\ DOMAIN entry[p] = 1 .. Len(entry[p])
      /\ Len(entry[q]) \in Nat /\ DOMAIN entry[q] = 1 .. Len(entry[q])
  BY Here
<1>1. SUFFICES ASSUME Bad # {} PROVE FALSE
  OBVIOUS
<1>2. Bad \in SUBSET Nat
  BY <1>0
<1> HIDE DEF Bad
<1>3. PICK i \in Bad : \A j \in Bad : ~(j < i)
  BY <1>1, <1>2, LeastElement
<1>4. i \in DOMAIN entry[p] /\ i \in DOMAIN entry[q] /\ entry[p][i].number <= k
        /\ ~Level(p, q, i) /\ i \in Nat \ {0}
  BY <1>0, <1>3 DEF Bad
<1>5. ASSUME i > 1
      PROVE  i - 1 \in DOMAIN entry[p] /\ i - 1 \in DOMAIN entry[q] /\ Level(p, q, i - 1)
  <2>1. PICK j \in Nat \ {0} : j = i - 1
    BY <1>4, <1>5
  <2>2. j \in DOMAIN entry[p] /\ j \in DOMAIN entry[q] /\ j < i
    BY <1>0, <1>4, <2>1
  <2>3. entry[p][j].number <= k
    <3>1. PICK x \in Nat, y \in Nat : x = entry[p][j].number /\ y = entry[p][i].number
      BY <1>4, <2>2, EntryIs
    <3>2. EntryFollows(p, i)
      BY <1>4, EntryIs
    <3>3. x <= y
      <4>1. CASE entry[p][i].piece = 1
        <5>1. Gap(p, i - 1, entry[p][i].number)
          BY <3>2, <4>1 DEF EntryFollows
        <5>2. Gap(p, j, y)
          BY <2>1, <3>1, <5>1
        <5>3. j > 0
          OBVIOUS
        <5> QED
          BY <3>1, <5>2, <5>3 DEF Gap
      <4>2. CASE entry[p][i].piece # 1
        BY <2>1, <3>1, <3>2, <4>2 DEF EntryFollows
      <4> QED
        BY <4>1, <4>2
    <3> QED
      BY <1>4, <3>1, <3>3
  <2>4. Level(p, q, j)
    BY <1>3, <2>2, <2>3 DEF Bad
  <2> QED
    BY <2>1, <2>2, <2>4
<1> QED
  BY <1>4, <1>5, LevelNext

------------------------------------------------------------------------------
\* What MPI writes at a rank depends on the data of the ranks it waits for.
LEMMA Depends ==
  ASSUME NEW c \in Collective, NEW p \in Ranks, NEW m \in Nat, NEW f, NEW g,
         f = [q \in Ranks |-> f[q]], g = [q \in Ranks |-> g[q]],
         \A q \in Awaited(c, p) : f[q] = g[q]
  PROVE  Written(c, p, m, f) = Written(c, p, m, g)
<1>1. CASE c.op \in {"Gather", "Reduce"} /\ p # c.root
  BY <1>1, WrittenIs
<1>2. CASE c.op \in {"Broadcast", "Scatter"}
  <2>1. f[c.root] = g[c.root]
    BY <1>2 DEF Awaited
  <2>2. \A i : At(f, c.root, i) = At(g, c.root, i)
    BY <2>1 DEF At
  <2>3. CASE c.op = "Broadcast"
    <3>1. Written(c, p, m, f) = [i \in 0 .. m - 1 |-> At(f, c.root, i)]
      BY <2>3, WrittenIs
    <3>2. Written(c, p, m, g) = [i \in 0 .. m - 1 |-> At(g, c.root, i)]
      BY <2>3, WrittenIs
    <3> QED
      BY <2>2, <3>1, <3>2
  <2>4. CASE c.op = "Scatter"
    <3>1. Written(c, p, m, f) = [i \in 0 .. m - 1 |-> At(f, c.root, p * m + i)]
      BY <2>4, WrittenIs
    <3>2. Written(c, p, m, g) = [i \in 0 .. m - 1 |-> At(g, c.root, p * m + i)]
      BY <2>4, WrittenIs
    <3> QED
      BY <2>2, <3>1, <3>2
  <2> QED
    BY <1>2, <2>3, <2>4
<1>3. CASE /\ c.op \notin {"Broadcast", "Scatter"}
           /\ ~(c.op \in {"Gather", "Reduce"} /\ p # c.root)
  <2>1. Awaited(c, p) = Ranks
    BY <1>3 DEF Awaited
  <2>2. \A q \in Ranks : f[q] = g[q]
    BY <2>1
  <2>3. f = g
    BY <2>2
  <2> QED
    BY <2>3
<1> QED
  BY <1>1, <1>2, <1>3

\* While no call has failed, MPI writes at p what belongs there.
LEMMA WritesWhole ==
  ASSUME IInv, NEW p \in Ranks, NEW w, Completes(p, w), NoFailure(Number(p))
  PROVE  w = Whole(p, Number(p))
<1>1. /\ w = Written(Current(p), p, Staging(Current(p), p).units, GivenAt(Len(entry[p])))
           \/ ~\A q \in Awaited(Current(p), p) : SameMpiCall(Len(entry[p]), p, q)
      /\ pc[p] = "mpi" /\ InCall(p) /\ ~MpiRefuses(Current(p))
      /\ \A q \in Awaited(Current(p), p) : Len(entry[q]) >= Len(entry[p])
  BY DEF Completes, InCall
<1>2. PICK n \in Nat \ {0}, k \in Nat \ {0} : n = Len(entry[p]) /\ k = Number(p)
  <2>1. Typed /\ EntriesFit /\ Number(p) \in Nat \ {0}
    BY Here
  <2> QED
    BY <1>1, <2>1, LastCall
<1>3. /\ n \in DOMAIN entry[p] /\ entry[p][n].number = k /\ entry[p][n].call = job[k]
      /\ Current(p) = job[k] /\ job[k] \in Collective
  <2>1. Typed /\ EntriesFit
    BY Here
  <2>2. n \in DOMAIN entry[p] /\ entry[p][n].number = k /\ entry[p][n].call = Current(p)
          /\ Current(p) \in Collective
    BY <1>1, <1>2, <2>1, LastCall DEF Last
  <2>3. Current(p) = job[k]
    BY <1>2 DEF Current
  <2> QED
    BY <2>2, <2>3
<1>4. Awaited(job[k], p) \subseteq Ranks
  <2>1. job[k].op \in Rooted => job[k].root \in Ranks
    BY <1>1, <1>3 DEF MpiRefuses
  <2> QED
    BY <2>1 DEF Awaited, Rooted
<1>5. ASSUME NEW q \in Awaited(job[k], p)
      PROVE  SameMpiCall(n, p, q) /\ GivenAt(n)[q] = Full(k)[q]
  <2>0. q \in Ranks /\ Len(entry[q]) >= n
    BY <1>1, <1>2, <1>3, <1>4, <1>5
  <2>1. n \in DOMAIN entry[q]
    <3>1. Len(entry[q]) \in Nat /\ DOMAIN entry[q] = 1 .. Len(entry[q])
      BY <2>0, Here
    <3> QED
      BY <2>0, <3>1
  <2>2. Level(p, q, n)
    <3>1. entry[p][n].number <= k /\ NoFailure(k) /\ k \in Nat
      BY <1>2, <1>3
    <3> QED
      BY <1>3, <2>0, <2>1, <3>1, Aligned
  <2>3. entry[q][n].number = k /\ entry[q][n].piece = entry[p][n].piece
    BY <1>3, <2>2 DEF Level
  <2>4. entry[q][n].call = job[k] /\ entry[q][n].data = Given(job[k], q, k)
    BY <2>0, <2>1, <2>3, EntryIs
  <2>5. GivenAt(n)[q] = entry[q][n].data
    BY <2>0 DEF GivenAt
  <2> QED
    BY <1>3, <2>0, <2>3, <2>4, <2>5 DEF SameMpiCall, Full
<1>6. w = Written(job[k], p, Staging(job[k], p).units, GivenAt(n))
  BY <1>1, <1>2, <1>3, <1>5
<1>7. /\ GivenAt(n) = [q \in Ranks |-> GivenAt(n)[q]]
      /\ Full(k) = [q \in Ranks |-> Full(k)[q]]
  BY DEF GivenAt, Full
<1>8. Written(job[k], p, Staging(job[k], p).units, GivenAt(n)) = Whole(p, k)
  <2>1. Staging(job[k], p).units \in Nat
    <3>1. view[p] \in View
      BY Here, NextCall
    <3> QED
      BY <1>1, <1>3, <3>1, StagingTyped
  <2> QED
    BY <1>3, <1>5, <1>7, <2>1, Depends DEF Whole
<1> QED
  BY <1>2, <1>6, <1>8

\* The places that a broadcast writes.
LEMMA WholeBroadcast ==
  ASSUME NEW p \in Ranks, NEW k, job[k] \in Collective, job[k].op = "Broadcast"
  PROVE  DOMAIN Whole(p, k) = 0 .. Bytes(job[k]) - 1
<1>1. Staging(job[k], p).units = Bytes(job[k])
  BY StagingIs DEF Broadcast
<1>2. Whole(p, k) = [i \in 0 .. Bytes(job[k]) - 1 |-> At(Full(k), job[k].root, i)]
  <2>1. PICK c \in Collective : c = job[k]
    OBVIOUS
  <2>2. PICK m \in Nat : m = Bytes(c)
    BY BytesTyped
  <2>3. Written(c, p, m, Full(k)) = [i \in 0 .. m - 1 |-> At(Full(k), c.root, i)]
    BY <2>1, WrittenIs
  <2> QED
    BY <1>1, <2>1, <2>2, <2>3 DEF Whole
<1> QED
  BY <1>2

LEMMA WholeStays ==
  ASSUME NEW p, NEW k, UNCHANGED <<job, view>>
  PROVE  Whole(p, k)' = Whole(p, k) /\ Expected(job[k], p, k)' = Expected(job[k], p, k)
<1>1. \A q : Given(job[k], q, k)' = Given(job[k], q, k)
               /\ Staging(job[k], q)' = Staging(job[k], q)
  BY DEF Given, Staging, AllGather, AllReduce, AllToAll, Broadcast, Gather, Reduce,
         ReduceScatter, Scatter, IsRoot
<1>2. Full(k)' = Full(k)
  BY <1>1 DEF Full
<1>3. Whole(p, k)' = Whole(p, k)
  BY <1>1, <1>2 DEF Whole
<1>4. Expected(job[k], p, k)' = Expected(job[k], p, k)
  BY DEF Expected
<1> QED
  BY <1>3, <1>4

\* What has failed stays failed.
Grows ==
  /\ aborted \subseteq aborted'
  /\ \A q \in Ranks : \A m \in DOMAIN status[q] :
       m \in DOMAIN status'[q] /\ status'[q][m] = status[q][m]

LEMMA FailureStays ==
  ASSUME Grows, NEW n \in Nat, NoFailure(n)'
  PROVE  NoFailure(n)
BY DEF Grows, NoFailure, Failed

LEMMA StepGrows == ASSUME IInv, [Next]_vars PROVE Grows
<1>1. CASE UNCHANGED <<status, aborted>>
  BY <1>1 DEF Grows
<1>2. ASSUME NEW p \in Ranks, NEW s, status' = [status EXCEPT ![p] = Append(@, s)],
             aborted' = aborted
      PROVE  Grows
  <2>1. TypeOK /\ \A q \in Ranks : status[q] \in Seq(Statuses)
    BY Here
  <2>2. /\ Number(p) \in Nat \ {0}
        /\ DOMAIN status[p] = 1 .. Number(p) - 1 /\ DOMAIN status'[p] = 1 .. Number(p)
        /\ \A k \in 1 .. Number(p) - 1 : status'[p][k] = status[p][k]
        /\ \A q \in Ranks \ {p} : status'[q] = status[q]
    BY <1>2, <2>1, Returned
  <2>3. \A m \in DOMAIN status[p] : m \in DOMAIN status'[p] /\ status'[p][m] = status[p][m]
    BY <2>2
  <2> QED
    BY <1>2, <2>2, <2>3 DEF Grows
<1>3. CASE Next
  <2>0. TypeOK
    BY DEF IInv, Typed
  <2>1. ASSUME NEW p \in Ranks, AbortInMpi(p) PROVE Grows
    BY <2>1 DEF AbortInMpi, Grows
  <2>2. ASSUME NEW p \in Ranks, Complete(p) PROVE UNCHANGED <<status, aborted>>
    BY <2>2 DEF Complete
  <2>3. ASSUME NEW p \in Ranks, NEW s, NEW d, Early(p, s, d) PROVE Grows
    BY <1>2, <2>3 DEF Early
  <2>4. ASSUME NEW p \in Ranks, NEW a, Enter(p, a) PROVE UNCHANGED <<status, aborted>>
    BY <2>4 DEF Enter
  <2>5. ASSUME NEW p \in Ranks, Deliver(p) \/ CopyOutFails(p) PROVE Grows
    BY <1>2, <2>5 DEF Deliver, CopyOutFails, Return
  <2> QED
    BY <1>1, <1>3, <2>0, <2>1, <2>2, <2>3, <2>4, <2>5, WhoActs
<1> QED
  BY <1>1, <1>3 DEF vars

------------------------------------------------------------------------------
\* All the data of the ranks, of which Expected takes what the collective needs.
Ideal(c, k) == [q \in Ranks |-> [i \in 0 .. Bytes(c) * N - 1 |-> <<{<<q, k>>}, i, 1>>]]

\* What is staged, for ranks that have the rank and size of MPI's communicator.
LEMMA StagedIs ==
  ASSUME NEW c \in Collective, NEW q \in Ranks, view[q] = [rank |-> q, size |-> N]
  PROVE  LET b == Bytes(c)  all == Bytes(c) * N  s == Staging(c, q) IN
         /\ c.op = "AllGather" => s.send = b /\ s.recv = all
         /\ c.op = "AllReduce" => s.send = b /\ s.recv = b
         /\ c.op = "AllToAll" => s.send = all /\ s.recv = all
         /\ c.op = "Broadcast" => (q = c.root => s.send = b) /\ s.recv = b
         /\ c.op = "Gather" => s.send = b /\ s.recv = (IF q = c.root THEN all ELSE 0)
         /\ c.op = "Reduce" => s.send = b /\ s.recv = (IF q = c.root THEN b ELSE 0)
         /\ c.op = "ReduceScatter" => s.send = all /\ s.recv = b
         /\ c.op = "Scatter" => (q = c.root => s.send = all) /\ s.recv = b
<1>1. PICK b \in Nat : b = Bytes(c)
  BY BytesTyped
<1>2. PICK all \in Nat : all = b * N
  BY ConstantsFit
<1>3. IsRoot(c, q) <=> q = c.root
  BY DEF IsRoot
<1>4. view[q].size = N
  OBVIOUS
<1>5. CASE c.op \in {"AllGather", "AllReduce", "AllToAll"}
  BY <1>1, <1>2, <1>4, <1>5, StagingIs DEF AllGather, AllReduce, AllToAll
<1>6. CASE c.op \in {"Broadcast", "Gather", "Reduce"}
  BY <1>1, <1>2, <1>3, <1>4, <1>6, StagingIs DEF Broadcast, Gather, Reduce
<1>7. CASE c.op \in {"ReduceScatter", "Scatter"}
  BY <1>1, <1>2, <1>3, <1>4, <1>7, StagingIs DEF ReduceScatter, Scatter
<1> QED
  BY <1>5, <1>6, <1>7, StagingIs

\* MPI is told of all the units.
LEMMA UnitsAre ==
  ASSUME WholeElements, job \in Jobs, NEW k \in DOMAIN job, job[k] \in Collective,
         ~MpiRefuses(job[k]), ~Wraps(job[k]), NEW q
  PROVE  Staging(job[k], q).units = Bytes(job[k])
<1>1. job[k].type = "half" => job[k].op \in {"Broadcast", "Gather", "Scatter"}
  <2>1. job[k].type = "half" => job[k].op \notin {"AllGather", "AllToAll"} \cup Reductions
    BY DEF WholeElements, MpiRefuses
  <2> QED
    BY <2>1, StagingIs DEF Reductions
<1>2. job[k].type = "wide" => Bytes(job[k]) = job[k].count
  BY BytesTyped
<1>3. job[k].type \in {"wide", "half"}
  BY BytesTyped
<1>4. CASE job[k].op \in {"Broadcast", "Gather", "Scatter"}
  BY <1>4, StagingIs DEF Broadcast, Gather, Scatter
<1>5. CASE job[k].op \in {"AllGather", "AllReduce", "AllToAll"}
  <2>1. PICK count \in Nat : count = job[k].count
    BY BytesTyped
  <2>2. ASSUME job[k].op \in {"AllGather", "AllReduce"} PROVE AsInt(count) = count
    <3>1. ~(AsInt(count) < 0) /\ ~(count > 2 * MaxInt + 1)
      BY <2>1, <2>2 DEF MpiRefuses, Wraps
    <3> QED
      BY <3>1, AsIntTyped, ConstantsFit
  <2> QED
    BY <1>1, <1>2, <1>3, <1>5, <2>1, <2>2, StagingIs DEF AllGather, AllReduce, AllToAll
<1>6. CASE job[k].op \in {"Reduce", "ReduceScatter"}
  BY <1>1, <1>2, <1>3, <1>6, StagingIs DEF Reduce, ReduceScatter
<1> QED
  BY <1>4, <1>5, <1>6, StagingIs

LEMMA AtSame ==
  ASSUME NEW c \in Collective, NEW q \in Ranks, NEW k \in Nat, NEW f,
         f[q] = Given(c, q, k), NEW i \in Nat,
         i \in 0 .. Staging(c, q).send - 1, i \in 0 .. Bytes(c) * N - 1
  PROVE  At(f, q, i) = At(Ideal(c, k), q, i)
<1>1. At(f, q, i) = <<{<<q, k>>}, i, 1>>
  BY DEF At, Given
<1>2. At(Ideal(c, k), q, i) = <<{<<q, k>>}, i, 1>>
  BY DEF At, Ideal
<1> QED
  BY <1>1, <1>2

LEMMA TotalSame ==
  ASSUME NEW c, NEW k, NEW f, NEW i,
         \A q \in Ranks : At(f, q, i) = At(Ideal(c, k), q, i)
  PROVE  Total(f, i) = Total(Ideal(c, k), i)
<1>1. {At(f, q, i)[1] : q \in Ranks} = {At(Ideal(c, k), q, i)[1] : q \in Ranks}
  OBVIOUS
<1> QED
  BY <1>1 DEF Total

\* Block q of place i of a whole buffer of N blocks of b units.
LEMMA Places ==
  ASSUME NEW b \in Nat, NEW p \in Ranks
  PROVE  /\ b * N \in Nat
         /\ \A i \in 0 .. b - 1 : /\ i \in Nat /\ i \in 0 .. b * N - 1
                                  /\ p * b + i \in Nat /\ p * b + i \in 0 .. b * N - 1
         /\ \A i \in 0 .. b * N - 1 :
              /\ i \div b \in Ranks /\ i % b \in 0 .. b - 1
              /\ i % b \in Nat /\ i % b \in 0 .. b * N - 1
              /\ p * b + (i % b) \in Nat /\ p * b + (i % b) \in 0 .. b * N - 1
<1>0. N \in Nat \ {0} /\ p \in 0 .. N - 1 /\ p \in Nat
  BY ConstantsFit DEF Ranks
<1>1. b * N \in Nat
  BY <1>0
<1>2. ASSUME NEW i \in 0 .. b - 1
      PROVE  /\ i \in Nat /\ i \in 0 .. b * N - 1
             /\ p * b + i \in Nat /\ p * b + i \in 0 .. b * N - 1
  <2>1. p * b + i \in 0 .. b * N - 1
    BY <1>0, InBlock
  <2>2. 0 * b + i \in 0 .. b * N - 1
    <3>1. 0 \in 0 .. N - 1
      BY <1>0
    <3> QED
      BY <1>0, <3>1, InBlock
  <2>3. 0 * b + i = i
    OBVIOUS
  <2>4. p * b + i \in Nat
    BY <1>1, <2>1
  <2> QED
    BY <2>1, <2>2, <2>3, <2>4
<1>3. ASSUME NEW i \in 0 .. b * N - 1
      PROVE  i \div b \in Ranks /\ i % b \in 0 .. b - 1
  <2>1. b # 0
    <3>1. b = 0 => b * N = 0
      BY <1>0
    <3> QED
      BY <1>1, <3>1
  <2>2. i \in Nat /\ i < b * N
    BY <1>1
  <2> QED
    BY <1>0, <2>1, <2>2, Below, Division DEF Ranks
<1>4. ASSUME NEW i \in 0 .. b * N - 1
      PROVE  /\ i \div b \in Ranks /\ i % b \in 0 .. b - 1
             /\ i % b \in Nat /\ i % b \in 0 .. b * N - 1
             /\ p * b + (i % b) \in Nat /\ p * b + (i % b) \in 0 .. b * N - 1
  <2>1. PICK x \in 0 .. b - 1 : x = i % b
    BY <1>3
  <2> QED
    BY <1>2, <1>3, <2>1
<1> QED
  BY <1>1, <1>2, <1>4

\* What MPI writes in a call that it does not refuse is what the collective
\* promises before the scaling, and fills the host buffer.
LEMMA WholeIsIdeal ==
  ASSUME TrueViews, WholeElements, TypeOK, NEW p \in Ranks, NEW k \in DOMAIN job,
         ~MpiRefuses(job[k]), ~Wraps(job[k])
  PROVE  /\ Whole(p, k) = Written(job[k], p, Bytes(job[k]), Ideal(job[k], k))
         /\ DOMAIN Whole(p, k) = 0 .. Staging(job[k], p).recv - 1
<1>0. /\ job \in Jobs /\ view \in Views /\ job[k] \in Collective /\ k \in Nat
      /\ \A q \in Ranks : view[q] = [rank |-> q, size |-> N]
  <2>1. job \in Jobs /\ view \in Views /\ job \in Seq(Collective)
    BY NextCall DEF TypeOK
  <2> QED
    BY <2>1 DEF TrueViews
<1>1. PICK c \in Collective : c = job[k]
  BY <1>0
<1>2. PICK b \in Nat : b = Bytes(c)
  BY BytesTyped
<1>3. PICK f : f = Full(k) /\ \A q \in Ranks : f[q] = Given(c, q, k)
  <2>1. \A q \in Ranks : Full(k)[q] = Given(c, q, k)
    BY <1>1 DEF Full
  <2> QED
    BY <2>1
<1>4. PICK g : g = Ideal(c, k)
  OBVIOUS
<1>5. Whole(p, k) = Written(c, p, b, f)
  BY <1>0, <1>1, <1>2, <1>3, UnitsAre DEF Whole
<1>6. c.op \in {"Broadcast", "Scatter"} => c.root \in Ranks
  BY <1>1 DEF MpiRefuses, Rooted
<1>7. ASSUME NEW q \in Ranks, NEW i \in Nat, i \in 0 .. Staging(c, q).send - 1,
             i \in 0 .. b * N - 1
      PROVE  At(f, q, i) = At(g, q, i)
  BY <1>0, <1>2, <1>3, <1>4, <1>7, AtSame
<1>8. ASSUME NEW i, \A q \in Ranks : At(f, q, i) = At(g, q, i)
      PROVE  Total(f, i) = Total(g, i)
  BY <1>4, <1>8, TotalSame
<1>9. /\ b * N \in Nat
      /\ \A i \in 0 .. b - 1 : /\ i \in Nat /\ i \in 0 .. b * N - 1
                               /\ p * b + i \in Nat /\ p * b + i \in 0 .. b * N - 1
      /\ \A i \in 0 .. b * N - 1 :
           /\ i \div b \in Ranks /\ i % b \in 0 .. b - 1
           /\ i % b \in Nat /\ i % b \in 0 .. b * N - 1
           /\ p * b + (i % b) \in Nat /\ p * b + (i % b) \in 0 .. b * N - 1
  BY Places
<1>10. CASE c.op \in {"Gather", "Reduce"} /\ p # c.root
  <2>1. Written(c, p, b, f) = <<>> /\ Written(c, p, b, g) = <<>>
    BY <1>10, WrittenIs
  <2>2. Staging(c, p).recv = 0
    BY <1>0, <1>10, StagedIs
  <2>3. DOMAIN <<>> = 0 .. 0 - 1
    OBVIOUS
  <2> QED
    BY <1>1, <1>2, <1>4, <1>5, <2>1, <2>2, <2>3
<1>11. CASE c.op = "AllGather" \/ (c.op = "Gather" /\ p = c.root)
  <2>1. Written(c, p, b, f) = [i \in 0 .. b * N - 1 |-> At(f, i \div b, i % b)]
    BY <1>11, WrittenIs
  <2>2. Written(c, p, b, g) = [i \in 0 .. b * N - 1 |-> At(g, i \div b, i % b)]
    BY <1>11, WrittenIs
  <2>3. Staging(c, p).recv = b * N /\ \A q \in Ranks : Staging(c, q).send = b
    BY <1>0, <1>2, <1>11, StagedIs
  <2>4. \A i \in 0 .. b * N - 1 : At(f, i \div b, i % b) = At(g, i \div b, i % b)
    BY <1>7, <1>9, <2>3
  <2> QED
    BY <1>1, <1>2, <1>4, <1>5, <2>1, <2>2, <2>3, <2>4
<1>12. CASE c.op = "AllToAll"
  <2>1. Written(c, p, b, f) = [i \in 0 .. b * N - 1 |-> At(f, i \div b, p * b + (i % b))]
    BY <1>12, WrittenIs
  <2>2. Written(c, p, b, g) = [i \in 0 .. b * N - 1 |-> At(g, i \div b, p * b + (i % b))]
    BY <1>12, WrittenIs
  <2>3. Staging(c, p).recv = b * N /\ \A q \in Ranks : Staging(c, q).send = b * N
    BY <1>0, <1>2, <1>12, StagedIs
  <2>4. \A i \in 0 .. b * N - 1 :
          At(f, i \div b, p * b + (i % b)) = At(g, i \div b, p * b + (i % b))
    BY <1>7, <1>9, <2>3
  <2> QED
    BY <1>1, <1>2, <1>4, <1>5, <2>1, <2>2, <2>3, <2>4
<1>13. CASE c.op = "AllReduce" \/ (c.op = "Reduce" /\ p = c.root)
  <2>1. Written(c, p, b, f) = [i \in 0 .. b - 1 |-> Total(f, i)]
    BY <1>13, WrittenIs
  <2>2. Written(c, p, b, g) = [i \in 0 .. b - 1 |-> Total(g, i)]
    BY <1>13, WrittenIs
  <2>3. Staging(c, p).recv = b /\ \A q \in Ranks : Staging(c, q).send = b
    BY <1>0, <1>2, <1>13, StagedIs
  <2>4. \A i \in 0 .. b - 1 : Total(f, i) = Total(g, i)
    BY <1>7, <1>8, <1>9, <2>3
  <2> QED
    BY <1>1, <1>2, <1>4, <1>5, <2>1, <2>2, <2>3, <2>4
<1>14. CASE c.op = "ReduceScatter"
  <2>1. Written(c, p, b, f) = [i \in 0 .. b - 1 |-> Total(f, p * b + i)]
    BY <1>14, WrittenIs
  <2>2. Written(c, p, b, g) = [i \in 0 .. b - 1 |-> Total(g, p * b + i)]
    BY <1>14, WrittenIs
  <2>3. Staging(c, p).recv = b /\ \A q \in Ranks : Staging(c, q).send = b * N
    BY <1>0, <1>2, <1>14, StagedIs
  <2>4. \A i \in 0 .. b - 1 : Total(f, p * b + i) = Total(g, p * b + i)
    BY <1>7, <1>8, <1>9, <2>3
  <2> QED
    BY <1>1, <1>2, <1>4, <1>5, <2>1, <2>2, <2>3, <2>4
<1>15. CASE c.op = "Scatter"
  <2>1. Written(c, p, b, f) = [i \in 0 .. b - 1 |-> At(f, c.root, p * b + i)]
    BY <1>15, WrittenIs
  <2>2. Written(c, p, b, g) = [i \in 0 .. b - 1 |-> At(g, c.root, p * b + i)]
    BY <1>15, WrittenIs
  <2>3. Staging(c, p).recv = b
    BY <1>0, <1>2, <1>15, StagedIs
  <2>4. c.root \in Ranks /\ Staging(c, c.root).send = b * N
    BY <1>0, <1>2, <1>6, <1>15, StagedIs
  <2>5. \A i \in 0 .. b - 1 : At(f, c.root, p * b + i) = At(g, c.root, p * b + i)
    BY <1>7, <1>9, <2>4
  <2> QED
    BY <1>1, <1>2, <1>4, <1>5, <2>1, <2>2, <2>3, <2>5
<1>16. CASE c.op = "Broadcast"
  <2>1. Written(c, p, b, f) = [i \in 0 .. b - 1 |-> At(f, c.root, i)]
    BY <1>16, WrittenIs
  <2>2. Written(c, p, b, g) = [i \in 0 .. b - 1 |-> At(g, c.root, i)]
    BY <1>16, WrittenIs
  <2>3. Staging(c, p).recv = b
    BY <1>0, <1>2, <1>16, StagedIs
  <2>4. c.root \in Ranks /\ Staging(c, c.root).send = b
    BY <1>0, <1>2, <1>6, <1>16, StagedIs
  <2>5. \A i \in 0 .. b - 1 : At(f, c.root, i) = At(g, c.root, i)
    BY <1>7, <1>9, <2>4
  <2> QED
    BY <1>1, <1>2, <1>4, <1>5, <2>1, <2>2, <2>3, <2>5
<1> QED
  BY <1>10, <1>11, <1>12, <1>13, <1>14, <1>15, <1>16, KindsAre DEF Kinds

------------------------------------------------------------------------------
RInv == IInv /\ HostRight /\ \A p \in Ranks : RankResult(p)

\* What is right at a rank that is left alone stays right.
LEMMA ResultAlone ==
  ASSUME IInv, NEW q \in Ranks, UNCHANGED <<job, view>>, Grows, RankHost(q), RankResult(q),
         entry'[q] = entry[q], status'[q] = status[q], pc'[q] = pc[q],
         host'[q] = host[q], memory'[q] = memory[q]
  PROVE  RankHost(q)' /\ RankResult(q)'
<1>1. Number(q) \in Nat /\ Len(status[q]) \in Nat
  <2>1. status[q] \in Seq(Statuses) /\ Number(q) \in Nat \ {0}
    BY Here
  <2> QED
    BY <2>1
<1>2. /\ InCall(q)' <=> InCall(q)
      /\ Number(q)' = Number(q) /\ Last(q)' = Last(q) /\ Current(q)' = Current(q)
  BY DEF InCall, Number, Last, Current
<1>3. RankHost(q)'
  <2>1. PICK k \in Nat : k = Number(q)
    BY <1>1
  <2>2. Whole(q, k)' = Whole(q, k)
    BY WholeStays
  <2>3. Filled(q)' = Filled(q)
    BY <1>2, <2>1, <2>2 DEF Filled
  <2>4. InCall(q)' /\ NoFailure(k)' => InCall(q) /\ NoFailure(k)
    BY <1>2, FailureStays
  <2> QED
    BY <1>2, <2>1, <2>2, <2>3, <2>4 DEF RankHost
<1>4. RankResult(q)'
  <2>1. PICK n \in Nat : n = Len(status[q])
    BY <1>1
  <2>2. NoFailure(n)' => NoFailure(n)
    BY FailureStays
  <2>3. Expected(job[n], q, n)' = Expected(job[n], q, n)
    BY WholeStays
  <2> QED
    BY <2>1, <2>2, <2>3 DEF RankResult
<1> QED
  BY <1>3, <1>4

\* A collective with nothing to move leaves nothing.
LEMMA NothingExpected ==
  ASSUME NEW c \in Collective, Skips(c), NEW p \in Ranks, NEW n
  PROVE  Expected(c, p, n) = <<>>
<1>1. Bytes(c) = 0
  <2>1. c.count = 0
    BY DEF Skips
  <2>2. 0 * 1 = 0 /\ 0 * 2 = 0
    OBVIOUS
  <2> QED
    BY <2>1, <2>2 DEF Bytes, Width
<1>2. 0 * N - 1 = 0 - 1 /\ 0 .. 0 - 1 = {}
  BY ConstantsFit
<1>3. \A data : DOMAIN Written(c, p, 0, data) = {}
  <2> TAKE data
  <2>1. c.op \in {"Gather", "Reduce"} /\ p # c.root => Written(c, p, 0, data) = <<>>
    BY WrittenIs
  <2>2. CASE c.op \in {"Gather", "Reduce"} /\ p # c.root
    BY <2>1, <2>2
  <2>3. CASE c.op = "AllGather" \/ (c.op = "Gather" /\ p = c.root)
    <3>1. Written(c, p, 0, data) = [i \in 0 .. 0 * N - 1 |-> At(data, i \div 0, i % 0)]
      BY <2>3, WrittenIs
    <3> QED
      BY <1>2, <3>1
  <2>4. CASE c.op = "Reduce" /\ p = c.root
    <3>1. Written(c, p, 0, data) = [i \in 0 .. 0 - 1 |-> Total(data, i)]
      BY <2>4, WrittenIs
    <3> QED
      BY <1>2, <3>1
  <2>5. CASE c.op = "Scatter"
    <3>1. Written(c, p, 0, data) = [i \in 0 .. 0 - 1 |-> At(data, c.root, p * 0 + i)]
      BY <2>5, WrittenIs
    <3> QED
      BY <1>2, <3>1
  <2>6. CASE c.op = "Broadcast"
    <3>1. Written(c, p, 0, data) = [i \in 0 .. 0 - 1 |-> At(data, c.root, i)]
      BY <2>6, WrittenIs
    <3> QED
      BY <1>2, <3>1
  <2> QED
    BY <2>2, <2>3, <2>4, <2>5, <2>6 DEF Skips, Rooted
<1>4. PICK w : /\ w = Written(c, p, Bytes(c), [q \in Ranks |->
                       [i \in 0 .. Bytes(c) * N - 1 |-> <<{<<q, n>>}, i, 1>>]])
               /\ DOMAIN w = {}
  BY <1>1, <1>3
<1>5. Expected(c, p, n) = [i \in DOMAIN w |->
        IF c.op \in Reductions /\ c.avg THEN <<w[i][1], w[i][2], N>> ELSE w[i]]
  BY <1>4 DEF Expected
<1>6. \A f : f = [i \in DOMAIN w |-> f[i]] => f = <<>>
  <2>1. <<>> = [i \in {} |-> <<>>[i]]
    OBVIOUS
  <2> QED
    BY <1>4, <2>1
<1> QED
  BY <1>5, <1>6

\* A rank whose call has failed is expected to have nothing.
LEMMA FailedCall ==
  ASSUME IInv, NEW p \in Ranks, NEW s, status' = [status EXCEPT ![p] = Append(@, s)],
         s # "success"
  PROVE  RankResult(p)'
<1>1. /\ Number(p) \in Nat \ {0} /\ Len(status'[p]) = Number(p)
      /\ DOMAIN status'[p] = 1 .. Number(p) /\ status'[p][Number(p)] = s
  <2>1. TypeOK
    BY Here
  <2> QED
    BY <2>1, Returned
<1>2. PICK n \in Nat \ {0} : n = Number(p)
  BY <1>1
<1>3. n \in DOMAIN status'[p] /\ n <= n /\ status'[p][n] # "success"
  BY <1>1, <1>2
<1>4. Failed(p, n)'
  BY <1>3 DEF Failed
<1>5. ~NoFailure(n)'
  BY <1>4 DEF NoFailure
<1> QED
  BY <1>1, <1>2, <1>5 DEF RankResult

LEMMA EarlyResult ==
  ASSUME IInv, NEW p \in Ranks, NEW s, NEW d, Early(p, s, d)
  PROVE  RankHost(p)' /\ RankResult(p)'
<1>0. /\ TypeOK /\ pc \in [Ranks -> {"idle", "mpi", "out"}] /\ DOMAIN memory = Ranks
      /\ Number(p) \in Nat \ {0} /\ Number(p) = Len(status[p]) + 1
  BY Here DEF Typed
<1>1. /\ Len(status[p]) < Len(job)
      /\ status' = [status EXCEPT ![p] = Append(@, s)]
      /\ pc'[p] = "idle" /\ memory'[p] = <<>> /\ UNCHANGED <<job, view>>
      /\ s = "success" => Skips(Current(p))
  BY <1>0 DEF Early
<1>2. RankHost(p)'
  BY <1>1 DEF RankHost, InCall
<1>3. CASE s # "success"
  BY <1>1, <1>2, <1>3, FailedCall
<1>4. CASE s = "success"
  <2>1. PICK n \in Nat \ {0} : n = Number(p)
    BY <1>0
  <2>2. Len(status'[p]) = n
    BY <1>0, <1>1, <2>1, Returned
  <2>3. job[n] \in Collective /\ Skips(job[n])
    BY <1>0, <1>1, <1>4, <2>1, NextCall
  <2>4. Expected(job[n], p, n) = <<>>
    BY <2>3, NothingExpected
  <2>5. Expected(job[n], p, n)' = <<>>
    BY <1>1, <2>4, WholeStays
  <2> QED
    BY <1>1, <1>2, <2>2, <2>5 DEF RankResult
<1> QED
  BY <1>3, <1>4

LEMMA EnterResult ==
  ASSUME IInv, NEW p \in Ranks, NEW a \in Arguments, Enter(p, a)
  PROVE  RankHost(p)' /\ RankResult(p)'
<1>0. /\ TypeOK /\ pc \in [Ranks -> {"idle", "mpi", "out"}] /\ DOMAIN host = Ranks
      /\ entry \in [Ranks -> Seq(MpiCall)]
      /\ Number(p) \in Nat \ {0} /\ Number(p) = Len(status[p]) + 1
  BY Here DEF Typed
<1>1. /\ Len(status[p]) < Len(job) /\ pc'[p] = "mpi" /\ host'[p] = <<>>
      /\ UNCHANGED <<job, view, status>>
      /\ entry'[p] = Append(entry[p], Entry(p, 1, a.space))
  BY <1>0 DEF Enter, Calls
<1>2. RankResult(p)'
  BY <1>1 DEF RankResult
<1>3. PICK k \in Nat \ {0} : k = Number(p) /\ Number(p)' = k
  BY <1>0, <1>1 DEF Number
<1>4. job[k] \in Collective /\ Current(p)' = job[k]
  BY <1>0, <1>1, <1>3, NextCall DEF Current
<1>5. Last(p)'.piece = 1
  <2>0. Entry(p, 1, a.space).piece = 1
    BY DEF Entry
  <2>1. PICK e : e = Entry(p, 1, a.space) /\ e.piece = 1
    BY <2>0
  <2>2. entry'[p] = Append(entry[p], e) /\ entry[p] \in Seq(MpiCall)
    BY <1>0, <1>1, <2>1
  <2>3. entry'[p][Len(entry'[p])] = e
    BY <2>2
  <2> QED
    BY <2>1, <2>3 DEF Last
<1>6. Whole(p, k)' = Whole(p, k)
  BY <1>1, WholeStays
<1>7. ASSUME NEW i \in DOMAIN Whole(p, k), job[k].op = "Broadcast", i \div MaxInt < 1 - 1
      PROVE  FALSE
  <2>1. DOMAIN Whole(p, k) = 0 .. Bytes(job[k]) - 1 /\ Bytes(job[k]) \in Nat
    BY <1>4, <1>7, WholeBroadcast, BytesTyped
  <2>2. i \in Nat /\ MaxInt \in Nat \ {0}
    BY <2>1, ConstantsFit
  <2>3. i \div MaxInt \in Nat
    BY <2>2, Division
  <2> QED
    BY <1>7, <2>3
<1>8. Filled(p)' = {}
  BY <1>1, <1>3, <1>4, <1>5, <1>6, <1>7 DEF Filled
<1>9. RankHost(p)'
  BY <1>1, <1>8 DEF RankHost
<1> QED
  BY <1>2, <1>9

LEMMA CompleteResult ==
  ASSUME IInv, NEW p \in Ranks, NEW w, Completes(p, w), RankHost(p), Grows
  PROVE  RankHost(p)' /\ RankResult(p)'
<1>0. /\ Typed /\ TypeOK /\ EntriesFit
      /\ pc \in [Ranks -> {"idle", "mpi", "out"}] /\ DOMAIN host = Ranks
      /\ entry \in [Ranks -> Seq(MpiCall)] /\ Number(p) \in Nat \ {0}
  BY Here DEF Typed
<1>1. /\ pc[p] = "mpi" /\ InCall(p)
      /\ host' = [host EXCEPT ![p] =
           [i \in DOMAIN host[p] \cup {k \in DOMAIN w : InPiece(Current(p), Last(p).piece, k)} |->
              IF i \in DOMAIN w /\ InPiece(Current(p), Last(p).piece, i) THEN w[i]
              ELSE host[p][i]]]
      /\ \/ /\ Last(p).piece < Pieces(Current(p))
            /\ entry' = [entry EXCEPT ![p] =
                            Append(@, Entry(p, Last(p).piece + 1, Last(p).space))]
            /\ UNCHANGED pc
         \/ /\ Last(p).piece = Pieces(Current(p))
            /\ pc' = [pc EXCEPT ![p] = "out"]
            /\ UNCHANGED entry
      /\ UNCHANGED <<job, view, status>>
  BY DEF Completes, InCall
<1>2. /\ Number(p)' = Number(p) /\ Current(p)' = Current(p)
      /\ Current(p) = job[Number(p)] /\ pc'[p] # "idle"
  BY <1>0, <1>1 DEF Number, Current
<1>3. RankResult(p)'
  BY <1>2 DEF RankResult
<1>4. PICK k \in Nat \ {0}, x \in Nat, c \in Collective :
        /\ k = Number(p) /\ x = Last(p).piece /\ c = Current(p) /\ c = job[k]
        /\ x >= 1 /\ x <= Pieces(c) /\ Pieces(c) \in Nat
  BY <1>0, <1>1, <1>2, LastCall, PiecesTyped
<1>5. CASE ~NoFailure(k)'
  BY <1>2, <1>3, <1>4, <1>5 DEF RankHost
<1>6. CASE NoFailure(k)'
  <2>1. NoFailure(k)
    BY <1>6, FailureStays
  <2>2. w = Whole(p, k)
    BY <1>4, <2>1, WritesWhole
  <2>3. DOMAIN host[p] = Filled(p) /\ \A i \in Filled(p) : host[p][i] = w[i]
    BY <1>1, <1>4, <2>1, <2>2 DEF RankHost
  <2>4. Filled(p) = {i \in DOMAIN w : c.op = "Broadcast" /\ i \div MaxInt < x - 1}
    BY <1>1, <1>4, <2>2 DEF Filled
  <2> DEFINE new == {i \in DOMAIN w : InPiece(c, x, i)}
  <2>5. host'[p] = [i \in Filled(p) \cup new |-> IF i \in new THEN w[i] ELSE host[p][i]]
    BY <1>0, <1>1, <1>4, <2>3
  <2>6. DOMAIN host'[p] = Filled(p) \cup new
          /\ \A i \in Filled(p) \cup new : host'[p][i] = w[i]
    BY <2>3, <2>5
  <2>7. Whole(p, k)' = w
    BY <1>1, <2>2, WholeStays
  <2>8. c.op = "Broadcast" =>
          \A i \in DOMAIN w : i \div MaxInt \in Nat /\ i \div MaxInt < Pieces(c)
    <3>1. SUFFICES ASSUME c.op = "Broadcast", NEW i \in DOMAIN w
                   PROVE  i \div MaxInt \in Nat /\ i \div MaxInt < Pieces(c)
      OBVIOUS
    <3>2. PICK b \in Nat : b = Bytes(c)
      BY BytesTyped
    <3>3. i \in 0 .. b - 1
      BY <1>4, <2>2, <3>1, <3>2, WholeBroadcast
    <3>4. Pieces(c) = (b + MaxInt - 1) \div MaxInt
      BY <3>1, <3>2 DEF Pieces
    <3>5. MaxInt \in Nat \ {0} /\ i \in Nat
      BY <3>3, ConstantsFit
    <3>6. i \div MaxInt \in Nat
      BY <3>5, Division
    <3>7. i \div MaxInt < (b + MaxInt - 1) \div MaxInt
      BY <3>3, <3>5, Chunks
    <3> QED
      BY <3>4, <3>6, <3>7
  <2>9. Filled(p)' = Filled(p) \cup new
    <3>1. CASE /\ x < Pieces(c) /\ UNCHANGED pc
               /\ entry' = [entry EXCEPT ![p] = Append(@, Entry(p, x + 1, Last(p).space))]
      <4>1. Last(p)'.piece = x + 1
        <5>0. Entry(p, x + 1, Last(p).space).piece = x + 1
          BY DEF Entry
        <5>1. PICK e : e = Entry(p, x + 1, Last(p).space) /\ e.piece = x + 1
          BY <5>0
        <5>2. entry'[p] = Append(entry[p], e) /\ entry[p] \in Seq(MpiCall)
          BY <1>0, <3>1, <5>1
        <5>3. entry'[p][Len(entry'[p])] = e
          BY <5>2
        <5> QED
          BY <5>1, <5>3 DEF Last
      <4>2. c.op = "Broadcast"
        BY <1>4, <3>1 DEF Pieces
      <4>3. Filled(p)' = {i \in DOMAIN w : c.op = "Broadcast" /\ i \div MaxInt < (x + 1) - 1}
        BY <1>1, <1>2, <1>4, <2>7, <3>1, <4>1 DEF Filled
      <4>4. \A i \in DOMAIN w : i \div MaxInt < (x + 1) - 1 <=>
                i \div MaxInt < x - 1 \/ i \div MaxInt = x - 1
        <5>1. \A y \in Nat : y < (x + 1) - 1 <=> y < x - 1 \/ y = x - 1
          BY <1>4
        <5> QED
          BY <2>8, <4>2, <5>1
      <4> QED
        BY <2>4, <4>2, <4>3, <4>4 DEF InPiece
    <3>2. CASE x = Pieces(c) /\ pc' = [pc EXCEPT ![p] = "out"]
      <4>1. Filled(p)' = DOMAIN w
        <5>1. pc'[p] = "out"
          BY <1>0, <3>2
        <5> QED
          BY <1>2, <1>4, <2>7, <5>1 DEF Filled
      <4>2. CASE c.op = "Broadcast"
        <5>1. \A y \in Nat : y < x => y < x - 1 \/ y = x - 1
          BY <1>4
        <5>2. \A i \in DOMAIN w : i \div MaxInt < x - 1 \/ i \div MaxInt = x - 1
          BY <2>8, <3>2, <4>2, <5>1
        <5> QED
          BY <2>4, <4>1, <4>2, <5>2 DEF InPiece
      <4>3. CASE c.op # "Broadcast"
        BY <2>4, <4>1, <4>3 DEF InPiece
      <4> QED
        BY <4>2, <4>3
    <3> QED
      BY <1>1, <1>4, <3>1, <3>2
  <2> HIDE DEF new
  <2>10. RankHost(p)'
    BY <1>2, <1>4, <2>6, <2>7, <2>9 DEF RankHost
  <2> QED
    BY <1>3, <2>10
<1> QED
  BY <1>5, <1>6

LEMMA DeliverResult ==
  ASSUME TrueViews, WholeElements, IInv, NEW p \in Ranks, Deliver(p), RankHost(p), Grows
  PROVE  RankHost(p)' /\ RankResult(p)'
<1>0. /\ Typed /\ TypeOK /\ EntriesFit
      /\ pc \in [Ranks -> {"idle", "mpi", "out"}] /\ DOMAIN memory = Ranks
      /\ Number(p) \in Nat \ {0} /\ view \in Views
  BY Here DEF Typed, TypeOK
<1>1. /\ pc[p] = "out" /\ pc'[p] = "idle" /\ InCall(p)
      /\ memory'[p] = [i \in 0 .. Staging(Current(p), p).recv - 1 |->
           IF i \in DOMAIN host[p] THEN Scaled(Current(p), p, host[p][i]) ELSE Junk(i)]
      /\ status' = [status EXCEPT ![p] = Append(@, "success")]
      /\ UNCHANGED <<job, view>>
  BY <1>0 DEF Deliver, Return, InCall
<1>2. RankHost(p)'
  BY <1>1 DEF RankHost, InCall
<1>3. PICK k \in Nat \ {0} : k = Number(p) /\ Len(status'[p]) = k
  BY <1>0, <1>1, Returned
<1>4. k \in DOMAIN job /\ Current(p) = job[k] /\ ~MpiRefuses(job[k])
  BY <1>0, <1>1, <1>3, LastCall DEF Current
<1>5. CASE ~NoFailure(k)' \/ Wraps(job[k])
  <2>1. job'[k] = job[k]
    BY <1>1
  <2>2. CASE ~NoFailure(k)'
    BY <1>2, <1>3, <2>2 DEF RankResult
  <2>3. CASE Wraps(job[k])
    <3>1. Wraps(job'[k])
      BY <2>1, <2>3
    <3> QED
      BY <1>2, <1>3, <3>1 DEF RankResult
  <2> QED
    BY <1>5, <2>2, <2>3
<1>6. CASE NoFailure(k)' /\ ~Wraps(job[k])
  <2>1. NoFailure(k)
    BY <1>6, FailureStays
  <2>2. PICK w : w = Whole(p, k)
    OBVIOUS
  <2>3. DOMAIN host[p] = DOMAIN w /\ \A i \in DOMAIN w : host[p][i] = w[i]
    <3>1. Filled(p) = DOMAIN w
      BY <1>1, <1>3, <2>2 DEF Filled
    <3> QED
      BY <1>1, <1>3, <2>1, <2>2, <3>1 DEF RankHost
  <2>4. /\ w = Written(job[k], p, Bytes(job[k]), Ideal(job[k], k))
        /\ DOMAIN w = 0 .. Staging(job[k], p).recv - 1
    BY <1>0, <1>4, <1>6, <2>2, WholeIsIdeal
  <2>5. memory'[p] = [i \in DOMAIN w |-> Scaled(job[k], p, w[i])]
    BY <1>1, <1>4, <2>3, <2>4
  <2>6. \A v : Scaled(job[k], p, v) =
                 IF job[k].op \in Reductions /\ job[k].avg THEN <<v[1], v[2], N>> ELSE v
    <3>0. view[p] = [rank |-> p, size |-> N]
      BY <1>0 DEF TrueViews
    <3>1. view[p].size = N
      BY <3>0
    <3> QED
      BY <3>1 DEF Scaled
  <2>7. Expected(job[k], p, k) = [i \in DOMAIN w |->
          IF job[k].op \in Reductions /\ job[k].avg THEN <<w[i][1], w[i][2], N>> ELSE w[i]]
    BY <2>4 DEF Expected, Ideal
  <2>8. memory'[p] = Expected(job[k], p, k)
    BY <2>5, <2>6, <2>7
  <2>9. Expected(job[k], p, k)' = Expected(job[k], p, k)
    BY <1>1, WholeStays
  <2>10. RankResult(p)'
    BY <1>3, <2>8, <2>9 DEF RankResult
  <2> QED
    BY <1>2, <2>10
<1> QED
  BY <1>5, <1>6

------------------------------------------------------------------------------
LEMMA InitRInv == ASSUME Init PROVE RInv
<1>1. IInv
  BY InitIInv
<1>2. \A p \in Ranks : pc[p] = "idle" /\ status[p] = <<>>
  BY DEF Init
<1>3. HostRight
  BY <1>2 DEF HostRight, RankHost, InCall
<1>4. \A p \in Ranks : RankResult(p)
  BY <1>2 DEF RankResult
<1> QED
  BY <1>1, <1>3, <1>4 DEF RInv

LEMMA StepRInv == ASSUME TrueViews, WholeElements, RInv, [Next]_vars PROVE RInv'
<1>0. /\ IInv /\ Grows /\ TypeOK
      /\ \A p \in Ranks : RankHost(p) /\ RankResult(p)
  BY StepGrows DEF RInv, HostRight, IInv, Typed
<1>a. /\ status \in [Ranks -> Seq(Statuses)] /\ pc \in [Ranks -> {"idle", "mpi", "out"}]
      /\ entry \in [Ranks -> Seq(MpiCall)] /\ DOMAIN host = Ranks /\ DOMAIN memory = Ranks
  BY <1>0 DEF TypeOK, IInv, Typed
<1>1. IInv'
  BY <1>0, StepIInv
<1>2. ASSUME NEW p \in Ranks, UNCHANGED <<job, view>>, RankHost(p)' /\ RankResult(p)',
             \A q \in Ranks \ {p} : /\ entry'[q] = entry[q] /\ status'[q] = status[q]
                                    /\ pc'[q] = pc[q] /\ host'[q] = host[q]
                                    /\ memory'[q] = memory[q]
      PROVE  \A q \in Ranks : RankHost(q)' /\ RankResult(q)'
  BY <1>0, <1>2, ResultAlone
<1>3. ASSUME UNCHANGED <<job, view, pc, status, entry, host, memory>>
      PROVE  \A q \in Ranks : RankHost(q)' /\ RankResult(q)'
  BY <1>0, <1>3, ResultAlone
<1>4. CASE Next
  <2>1. ASSUME NEW p \in Ranks, NEW s, NEW d, Early(p, s, d)
        PROVE  \A q \in Ranks : RankHost(q)' /\ RankResult(q)'
    <3>1. RankHost(p)' /\ RankResult(p)'
      BY <1>0, <2>1, EarlyResult
    <3>2. /\ UNCHANGED <<job, view>>
          /\ \A q \in Ranks \ {p} : /\ entry'[q] = entry[q] /\ status'[q] = status[q]
                                    /\ pc'[q] = pc[q] /\ host'[q] = host[q]
                                    /\ memory'[q] = memory[q]
      BY <1>a, <2>1 DEF Early
    <3> QED
      BY <1>2, <3>1, <3>2
  <2>2. ASSUME NEW p \in Ranks, NEW a \in Arguments, Enter(p, a)
        PROVE  \A q \in Ranks : RankHost(q)' /\ RankResult(q)'
    <3>1. RankHost(p)' /\ RankResult(p)'
      BY <1>0, <2>2, EnterResult
    <3>2. /\ UNCHANGED <<job, view>>
          /\ \A q \in Ranks \ {p} : /\ entry'[q] = entry[q] /\ status'[q] = status[q]
                                    /\ pc'[q] = pc[q] /\ host'[q] = host[q]
                                    /\ memory'[q] = memory[q]
      BY <1>a, <2>2 DEF Enter, Calls
    <3> QED
      BY <1>2, <3>1, <3>2
  <2>3. ASSUME NEW p \in Ranks, Complete(p)
        PROVE  \A q \in Ranks : RankHost(q)' /\ RankResult(q)'
    <3>0. PICK w : Completes(p, w)
      BY <1>0, <2>3, CompleteEffect DEF IInv
    <3>1. RankHost(p)' /\ RankResult(p)'
      BY <1>0, <3>0, CompleteResult
    <3>2. /\ UNCHANGED <<job, view>>
          /\ \A q \in Ranks \ {p} : /\ entry'[q] = entry[q] /\ status'[q] = status[q]
                                    /\ pc'[q] = pc[q] /\ host'[q] = host[q]
                                    /\ memory'[q] = memory[q]
      BY <1>a, <3>0 DEF Completes
    <3> QED
      BY <1>2, <3>1, <3>2
  <2>4. ASSUME NEW p \in Ranks, AbortInMpi(p)
        PROVE  \A q \in Ranks : RankHost(q)' /\ RankResult(q)'
    <3>1. UNCHANGED <<job, view, pc, status, entry, host, memory>>
      BY <2>4 DEF AbortInMpi
    <3> QED
      BY <1>3, <3>1
  <2>5. ASSUME NEW p \in Ranks, Deliver(p)
        PROVE  \A q \in Ranks : RankHost(q)' /\ RankResult(q)'
    <3>1. RankHost(p)' /\ RankResult(p)'
      BY <1>0, <2>5, DeliverResult
    <3>2. /\ UNCHANGED <<job, view>>
          /\ \A q \in Ranks \ {p} : /\ entry'[q] = entry[q] /\ status'[q] = status[q]
                                    /\ pc'[q] = pc[q] /\ host'[q] = host[q]
                                    /\ memory'[q] = memory[q]
      BY <1>a, <2>5 DEF Deliver, Return
    <3> QED
      BY <1>2, <3>1, <3>2
  <2>6. ASSUME NEW p \in Ranks, CopyOutFails(p)
        PROVE  \A q \in Ranks : RankHost(q)' /\ RankResult(q)'
    <3>1. RankResult(p)'
      BY <1>0, <2>6, FailedCall DEF CopyOutFails, Return
    <3>2. RankHost(p)'
      BY <1>a, <2>6 DEF CopyOutFails, Return, RankHost, InCall
    <3>3. /\ UNCHANGED <<job, view>>
          /\ \A q \in Ranks \ {p} : /\ entry'[q] = entry[q] /\ status'[q] = status[q]
                                    /\ pc'[q] = pc[q] /\ host'[q] = host[q]
                                    /\ memory'[q] = memory[q]
      BY <1>a, <2>6 DEF CopyOutFails, Return
    <3> QED
      BY <1>2, <3>1, <3>2, <3>3
  <2>7. \A q \in Ranks : RankHost(q)' /\ RankResult(q)'
    BY <1>0, <1>4, <2>1, <2>2, <2>3, <2>4, <2>5, <2>6, WhoActs
  <2> QED
    BY <1>1, <2>7 DEF RInv, HostRight
<1>5. CASE UNCHANGED vars
  <2>1. UNCHANGED <<job, view, pc, status, entry, host, memory>>
    BY <1>5 DEF vars
  <2>2. \A q \in Ranks : RankHost(q)' /\ RankResult(q)'
    BY <1>3, <2>1
  <2> QED
    BY <1>1, <2>2 DEF RInv, HostRight
<1> QED
  BY <1>4, <1>5

\* A rank whose collective succeeds, none having failed so far, has in its
\* receive buffer what the collective promises, whatever the ranks did before,
\* in any order, when the Communicators have the rank and the size of MPI's and
\* no AllGather or AllToAll is of elements of type "half"; without either it
\* does not hold (runs collective_hybrid and collective_half).  Nothing is said
\* of an AllReduce or AllGather of more than 2 * MaxInt + 1 elements, whose
\* count may wrap to a small one.
THEOREM ResultsRight == TrueViews /\ WholeElements => (Spec => []RightResult)
<1> SUFFICES ASSUME TrueViews, WholeElements PROVE Spec => []RightResult
  OBVIOUS
<1>1. Init => RInv
  BY InitRInv
<1>2. RInv /\ [Next]_vars => RInv'
  BY StepRInv
<1>3. RInv => RightResult
  BY DEF RInv, RankResult, RightResult, NoFailure
<1> QED
  BY <1>1, <1>2, <1>3, PTL DEF Spec

------------------------------------------------------------------------------
\* MPI counts with an int: every rank refuses such a call.
TooLong(c) ==
  \/ c.op \in {"AllToAll", "Reduce", "ReduceScatter"} /\ c.count > MaxInt
  \/ c.op \in {"Gather", "Scatter"} /\ Bytes(c) > MaxInt

\* The refusal does not depend on the rank.
LEMMA TooLongForAll ==
  ASSUME NEW c \in Collective, NEW p
  PROVE  Staging(c, p).tooLong <=> TooLong(c)
<1> DEFINE many == c.count > MaxInt
           long == Bytes(c) > MaxInt
<1>1. /\ c.op \in {"AllGather", "AllReduce", "Broadcast"} => Staging(c, p).tooLong = FALSE
      /\ c.op \in {"AllToAll", "Reduce", "ReduceScatter"} => Staging(c, p).tooLong = many
      /\ c.op \in {"Gather", "Scatter"} => Staging(c, p).tooLong = long
  <2> HIDE DEF many, long
  <2>1. /\ AllGather(c, p).tooLong = FALSE /\ AllReduce(c, p).tooLong = FALSE
        /\ Broadcast(c, p).tooLong = FALSE
    BY DEF AllGather, AllReduce, Broadcast
  <2>2. AllToAll(c, p).tooLong = many
    BY Zenon DEF AllToAll, many
  <2>3. Reduce(c, p).tooLong = many
    BY Zenon DEF Reduce, many
  <2>4. ReduceScatter(c, p).tooLong = many
    BY Zenon DEF ReduceScatter, many
  <2>5. Gather(c, p).tooLong = long
    BY Zenon DEF Gather, long
  <2>6. Scatter(c, p).tooLong = long
    BY Zenon DEF Scatter, long
  <2> QED
    BY <2>1, <2>2, <2>3, <2>4, <2>5, <2>6, StagingIs
<1>2. /\ c.op \in {"AllGather", "AllReduce", "Broadcast"} => ~TooLong(c)
      /\ c.op \in {"AllToAll", "Reduce", "ReduceScatter"} => (TooLong(c) <=> many)
      /\ c.op \in {"Gather", "Scatter"} => (TooLong(c) <=> long)
  BY DEF TooLong
<1>3. \/ c.op \in {"AllGather", "AllReduce", "Broadcast"}
      \/ c.op \in {"AllToAll", "Reduce", "ReduceScatter"}
      \/ c.op \in {"Gather", "Scatter"}
  BY StagingIs
<1> HIDE DEF many, long
<1> QED
  BY <1>1, <1>2, <1>3, Zenon

\* Calls that take no rank to MPI.
Passes(c) == Skips(c) \/ TooLong(c)

\* A rank goes to MPI with all the other calls and with none of these.
OneWay(p) ==
  /\ \A m \in DOMAIN status[p] : status[p][m] # "success" => Passes(job[m])
  /\ \A n \in DOMAIN entry[p] : ~Passes(entry[p][n].call)

\* As long as no one fails, all ranks take the same way through their calls.
SameWay == ~SomeoneFails => aborted = {} /\ \A p \in Ranks : OneWay(p)

WInv == IInv /\ SameWay

\* From one MPI call to the next there are only calls that pass.
LEMMA Passed ==
  ASSUME IInv, NEW p \in Ranks, OneWay(p), NEW n \in Nat, n > 0 => n \in DOMAIN entry[p],
         NEW k \in Nat, k <= Number(p), Gap(p, n, k)
  PROVE  /\ n > 0 => entry[p][n].number < k /\ entry[p][n].piece = Pieces(entry[p][n].call)
         /\ \A m \in 1 .. k - 1 : (n > 0 => m > entry[p][n].number) => Passes(job[m])
<1>1. /\ Number(p) \in Nat \ {0} /\ Number(p) = Len(status[p]) + 1
      /\ status[p] \in Seq(Statuses)
  BY Here
<1>2. DOMAIN status[p] = 1 .. Number(p) - 1
  BY <1>1
<1>3. ASSUME n > 0
      PROVE  entry[p][n].number < k /\ entry[p][n].piece = Pieces(entry[p][n].call)
  <2>1. n \in DOMAIN entry[p] /\ entry[p][n].number < k
    BY <1>3 DEF Gap
  <2>2. /\ entry[p][n].number \in Nat \ {0} /\ entry[p][n].call = job[entry[p][n].number]
    BY <2>1, EntryIs
  <2>3. entry[p][n].number \in DOMAIN status[p]
    BY <1>1, <1>2, <2>1, <2>2
  <2>4. status[p][entry[p][n].number] = "success"
    BY <2>1, <2>2, <2>3 DEF OneWay
  <2> QED
    BY <1>3, <2>1, <2>4 DEF Gap
<1>4. ASSUME NEW m \in 1 .. k - 1, n > 0 => m > entry[p][n].number
      PROVE  Passes(job[m])
  <2>1. m \in DOMAIN status[p]
    BY <1>1, <1>2
  <2>2. Skips(job[m]) \/ status[p][m] # "success"
    BY <1>4 DEF Gap
  <2> QED
    BY <2>1, <2>2 DEF OneWay, Passes
<1> QED
  BY <1>3, <1>4

\* What is known of the i-th MPI call of a rank when no one fails.
LEMMA EntryOnWay ==
  ASSUME IInv, NEW p \in Ranks, OneWay(p), NEW i \in DOMAIN entry[p]
  PROVE  LET e == entry[p][i]
             d == entry[p][i - 1]
         IN  /\ i \in Nat \ {0} /\ i - 1 \in Nat
             /\ e.number \in Nat \ {0} /\ e.number \in DOMAIN job /\ e.call = job[e.number]
             /\ e.piece \in Nat /\ Pieces(e.call) \in Nat /\ e.piece <= Pieces(e.call)
             /\ ~Passes(job[e.number])
             /\ i > 1 => i - 1 \in DOMAIN entry[p]
             /\ e.piece = 1 =>
                  /\ i > 1 => d.number < e.number /\ d.piece = Pieces(d.call)
                  /\ \A m \in 1 .. e.number - 1 : (i > 1 => m > d.number) => Passes(job[m])
             /\ e.piece # 1 => i > 1 /\ d.number = e.number /\ d.piece = e.piece - 1
<1> DEFINE e == entry[p][i]
           d == entry[p][i - 1]
<1>1. /\ e.number \in Nat \ {0} /\ e.number \in DOMAIN job /\ e.call = job[e.number]
      /\ e.piece \in Nat /\ Pieces(e.call) \in Nat /\ e.piece <= Pieces(e.call)
      /\ EntryFollows(p, i) /\ i \in Nat \ {0} /\ e.number - 1 <= Len(status[p])
      /\ Len(status[p]) \in Nat
  BY EntryIs
<1>2. /\ Len(entry[p]) \in Nat /\ DOMAIN entry[p] = 1 .. Len(entry[p])
      /\ Number(p) = Len(status[p]) + 1
  BY Here
<1>3. PICK j \in Nat : j = i - 1
  BY <1>1
<1>4. (i > 1 <=> j > 0) /\ (i > 1 => j \in DOMAIN entry[p])
  BY <1>1, <1>2, <1>3
<1>5. ~Passes(job[e.number])
  BY <1>1 DEF OneWay
<1>6. ASSUME e.piece = 1
      PROVE  /\ i > 1 => d.number < e.number /\ d.piece = Pieces(d.call)
             /\ \A m \in 1 .. e.number - 1 : (i > 1 => m > d.number) => Passes(job[m])
  <2>1. Gap(p, j, e.number)
    BY <1>1, <1>3, <1>6 DEF EntryFollows
  <2>2. e.number \in Nat /\ e.number <= Number(p)
    BY <1>1, <1>2
  <2>3. /\ j > 0 => entry[p][j].number < e.number /\ entry[p][j].piece = Pieces(entry[p][j].call)
        /\ \A m \in 1 .. e.number - 1 : (j > 0 => m > entry[p][j].number) => Passes(job[m])
    BY <1>4, <2>1, <2>2, Passed
  <2> QED
    BY <1>3, <1>4, <2>3
<1>7. e.piece # 1 => i > 1 /\ d.number = e.number /\ d.piece = e.piece - 1
  BY <1>1 DEF EntryFollows
<1> QED
  BY <1>1, <1>3, <1>4, <1>5, <1>6, <1>7

\* Half of the step of the induction: the next MPI call of q is not ahead of
\* that of p.
LEMMA NotAhead ==
  ASSUME IInv, NEW p \in Ranks, NEW q \in Ranks, OneWay(p), OneWay(q),
         NEW i \in DOMAIN entry[p], i \in DOMAIN entry[q], i > 1 => Level(p, q, i - 1)
  PROVE  /\ entry[p][i].piece = 1 => entry[q][i].piece = 1
         /\ entry[p][i].piece = 1 => ~(entry[p][i].number < entry[q][i].number)
         /\ entry[p][i].piece # 1 /\ entry[q][i].piece # 1 => Level(p, q, i)
<1> DEFINE a == entry[p][i]
           b == entry[q][i]
           c == entry[p][i - 1]
           d == entry[q][i - 1]
<1>1. /\ i \in Nat \ {0} /\ i - 1 \in Nat
      /\ a.number \in Nat \ {0} /\ a.piece \in Nat /\ ~Passes(job[a.number])
      /\ i > 1 => i - 1 \in DOMAIN entry[p]
      /\ a.piece = 1 => (i > 1 => c.number < a.number /\ c.piece = Pieces(c.call))
      /\ a.piece # 1 => i > 1 /\ c.number = a.number /\ c.piece = a.piece - 1
  BY EntryOnWay
<1>2. /\ b.number \in Nat \ {0} /\ b.call = job[b.number] /\ b.piece \in Nat
      /\ Pieces(b.call) \in Nat /\ b.piece <= Pieces(b.call)
      /\ i > 1 => i - 1 \in DOMAIN entry[q]
      /\ b.piece = 1 => \A m \in 1 .. b.number - 1 : (i > 1 => m > d.number) => Passes(job[m])
      /\ b.piece # 1 => i > 1 /\ d.number = b.number /\ d.piece = b.piece - 1
  BY EntryOnWay
<1>3. i > 1 => /\ c.number = d.number /\ c.piece = d.piece /\ c.number \in Nat
               /\ c.call = job[c.number] /\ d.call = job[d.number]
  BY <1>1, <1>2, EntryOnWay DEF Level
<1>4. ASSUME a.piece = 1, b.piece # 1 PROVE FALSE
  <2>1. c.piece = Pieces(c.call) /\ d.number = b.number /\ d.piece = b.piece - 1
    BY <1>1, <1>2, <1>4
  <2>2. c.call = b.call /\ c.piece = b.piece - 1
    BY <1>2, <1>3, <1>4, <2>1
  <2> QED
    BY <1>2, <2>1, <2>2
<1>5. ASSUME a.piece = 1, a.number < b.number PROVE FALSE
  <2>1. b.piece = 1
    BY <1>4, <1>5
  <2>2. a.number \in 1 .. b.number - 1
    BY <1>1, <1>2, <1>5
  <2>3. i > 1 => a.number > d.number
    BY <1>1, <1>3, <1>5
  <2> QED
    BY <1>1, <1>2, <2>1, <2>2, <2>3
<1>6. ASSUME a.piece # 1, b.piece # 1 PROVE a.number = b.number /\ a.piece = b.piece
  BY <1>1, <1>2, <1>3, <1>6
<1> QED
  BY <1>4, <1>5, <1>6 DEF Level

\* When no one fails, the MPI calls of any two ranks are the same one by one.
LEMMA AllLevel ==
  ASSUME IInv, NEW p \in Ranks, NEW q \in Ranks, OneWay(p), OneWay(q),
         NEW n \in DOMAIN entry[p], n \in DOMAIN entry[q]
  PROVE  Level(p, q, n)
<1> DEFINE Bad == {i \in DOMAIN entry[p] : i \in DOMAIN entry[q] /\ ~Level(p, q, i)}
<1>0. /\ Len(entry[p]) \in Nat /\ DOMAIN entry[p] = 1 .. Len(entry[p])
      /\ Len(entry[q]) \in Nat /\ DOMAIN entry[q] = 1 .. Len(entry[q])
  BY Here
<1>1. SUFFICES ASSUME Bad # {} PROVE FALSE
  OBVIOUS
<1>2. Bad \in SUBSET Nat
  BY <1>0
<1> HIDE DEF Bad
<1>3. PICK i \in Bad : \A j \in Bad : ~(j < i)
  BY <1>1, <1>2, LeastElement
<1>4. i \in DOMAIN entry[p] /\ i \in DOMAIN entry[q] /\ ~Level(p, q, i) /\ i \in Nat \ {0}
  BY <1>0, <1>3 DEF Bad
<1>5. i > 1 => Level(p, q, i - 1) /\ Level(q, p, i - 1)
  <2>1. ASSUME i > 1 PROVE Level(p, q, i - 1)
    <3>1. i - 1 \in DOMAIN entry[p] /\ i - 1 \in DOMAIN entry[q] /\ i - 1 < i
      BY <1>0, <1>4, <2>1
    <3> QED
      BY <1>3, <3>1 DEF Bad
  <2> QED
    BY <2>1 DEF Level
<1>6. /\ entry[p][i].piece = 1 <=> entry[q][i].piece = 1
      /\ entry[p][i].piece = 1 => /\ ~(entry[p][i].number < entry[q][i].number)
                                  /\ ~(entry[q][i].number < entry[p][i].number)
      /\ entry[p][i].piece # 1 => Level(p, q, i)
  BY <1>4, <1>5, NotAhead
<1>7. entry[p][i].number \in Nat /\ entry[q][i].number \in Nat
  BY <1>4, EntryIs
<1>8. Level(p, q, i)
  BY <1>6, <1>7 DEF Level
<1> QED
  BY <1>4, <1>8

\* A rank through with its calls has made every MPI call that another has.
LEMMA ThroughHasAll ==
  ASSUME IInv, NEW p \in Ranks, NEW q \in Ranks, OneWay(p), OneWay(q),
         Len(status[q]) = Len(job)
  PROVE  Len(entry[p]) <= Len(entry[q])
<1>0. /\ Len(entry[p]) \in Nat /\ DOMAIN entry[p] = 1 .. Len(entry[p])
      /\ Len(entry[q]) \in Nat /\ DOMAIN entry[q] = 1 .. Len(entry[q])
      /\ Len(job) \in Nat /\ DOMAIN job = 1 .. Len(job) /\ Number(q) = Len(job) + 1
  BY Here
<1>1. SUFFICES ASSUME Len(entry[q]) < Len(entry[p]) PROVE FALSE
  BY <1>0
<1>2. ~InCall(q) /\ Gap(q, Len(entry[q]), Number(q))
  <2>1. ASSUME InCall(q) PROVE FALSE
    <3>1. Number(q) \in DOMAIN job
      BY <2>1, LastCall DEF IInv
    <3> QED
      BY <1>0, <3>1
  <2> QED
    BY <2>1, Here DEF RankFollows
<1>3. PICK l \in Nat, i \in Nat \ {0} : l = Len(entry[q]) /\ i = l + 1 /\ l = i - 1
  BY <1>0
<1>4. i \in DOMAIN entry[p] /\ (i > 1 => l \in DOMAIN entry[p] /\ l \in DOMAIN entry[q] /\ l > 0)
  BY <1>0, <1>1, <1>3
<1> DEFINE a == entry[p][i]
<1>5. /\ l > 0 => entry[q][l].number < Number(q) /\ entry[q][l].piece = Pieces(entry[q][l].call)
      /\ \A m \in 1 .. Len(job) : (l > 0 => m > entry[q][l].number) => Passes(job[m])
  <2>1. l > 0 => l \in DOMAIN entry[q]
    BY <1>0, <1>3
  <2>2. Number(q) \in Nat /\ Number(q) <= Number(q) /\ Number(q) - 1 = Len(job)
    BY <1>0
  <2> QED
    BY <1>2, <1>3, <2>1, <2>2, Passed
<1>6. i > 1 => Level(p, q, l)
  BY <1>4, AllLevel
<1>7. /\ a.number \in Nat \ {0} /\ a.number \in DOMAIN job /\ a.call = job[a.number]
      /\ a.piece \in Nat /\ Pieces(a.call) \in Nat /\ a.piece <= Pieces(a.call)
      /\ ~Passes(job[a.number])
      /\ a.piece = 1 => (i > 1 => entry[p][l].number < a.number)
      /\ a.piece # 1 => i > 1 /\ entry[p][l].number = a.number /\ entry[p][l].piece = a.piece - 1
  <2> DEFINE d == entry[p][i - 1]
  <2>1. /\ a.number \in Nat \ {0} /\ a.number \in DOMAIN job /\ a.call = job[a.number]
        /\ a.piece \in Nat /\ Pieces(a.call) \in Nat /\ a.piece <= Pieces(a.call)
        /\ ~Passes(job[a.number])
        /\ a.piece = 1 => (i > 1 => d.number < a.number)
        /\ a.piece # 1 => i > 1 /\ d.number = a.number /\ d.piece = a.piece - 1
    BY <1>4, EntryOnWay
  <2> QED
    BY <1>3, <2>1
<1>8. CASE a.piece = 1
  <2>1. l > 0 => entry[q][l].number < a.number /\ entry[q][l].number \in Nat
    <3>1. l > 0 => i > 1
      BY <1>3
    <3>2. l > 0 => entry[q][l].number \in Nat
      BY <1>4, <3>1, EntryIs
    <3> QED
      BY <1>6, <1>7, <1>8, <3>1, <3>2 DEF Level
  <2> QED
    BY <1>0, <1>5, <1>7, <2>1
<1>9. CASE a.piece # 1
  <2>1. entry[q][l].number = a.number /\ entry[q][l].piece = a.piece - 1 /\ l > 0
    BY <1>4, <1>6, <1>7, <1>9 DEF Level
  <2>2. entry[q][l].call = a.call
    BY <1>4, <1>7, <1>9, <2>1, EntryIs
  <2> QED
    BY <1>5, <1>7, <2>1, <2>2
<1> QED
  BY <1>8, <1>9

\* Who has failed once has failed for good.
LEMMA FailureLasts ==
  ASSUME IInv, Grows, UNCHANGED job, SomeoneFails
  PROVE  SomeoneFails'
<1>0. Careless \subseteq Ranks /\ Faulty \subseteq Ranks
  BY CollectiveAssumption
<1>1. ASSUME NEW q \in Careless, Failed(q, Len(job)) PROVE SomeoneFails'
  <2>1. Failed(q, Len(job))'
    BY <1>0, <1>1 DEF Failed, Grows
  <2> QED
    BY <2>1 DEF SomeoneFails
<1>2. ASSUME NEW q \in Faulty, NEW n \in DOMAIN status[q], status[q][n] \in {"nomem", "error"}
      PROVE  SomeoneFails'
  <2>1. n \in DOMAIN status'[q] /\ status'[q][n] \in {"nomem", "error"}
    BY <1>0, <1>2 DEF Grows
  <2> QED
    BY <2>1 DEF SomeoneFails
<1>3. ASSUME NEW n \in DOMAIN job, MpiRefuses(job[n]) PROVE SomeoneFails'
  <2>1. n \in DOMAIN job' /\ MpiRefuses(job'[n])
    BY <1>3
  <2> QED
    BY <2>1 DEF SomeoneFails, MpiRefuses
<1> QED
  BY <1>1, <1>2, <1>3 DEF SomeoneFails

\* A rank that passes what the call needs is refused only what all are refused.
LEMMA RefusedByAll ==
  ASSUME TrueViews, TypeOK, NEW p \in Ranks \ Careless, NEW a \in Arguments, Refuse(p, a),
         ~MpiRefuses(Current(p))
  PROVE  Passes(Current(p))
<1> DEFINE c == Current(p)
<1>1. /\ c \in Collective /\ view[p].rank = p /\ view[p].size = N
      /\ a.valid /\ a.inter /\ a.send = SendsAt(c, p) /\ a.recv = ReceivesAt(c, p)
  <2>1. Len(status[p]) < Len(job) /\ p \notin Careless /\ p \in Ranks
    BY DEF Refuse, Calls
  <2>2. view[p] = [rank |-> p, size |-> N]
    BY DEF TypeOK, TrueViews
  <2>3. c \in Collective
    BY <2>1, NextCall
  <2> QED
    BY <2>1, <2>2, <2>3 DEF Refuse, Calls
<1>2. ~InvalidArgs(c, p, a)
  BY <1>1 DEF InvalidArgs, MpiRefuses, Ranks, NeedsRecv
<1>3. Staging(c, p).tooLong <=> TooLong(c)
  BY <1>1, TooLongForAll
<1>4. \/ Checked(c, p, a) # "go" \/ Staging(c, p).tooLong
  BY DEF Refuse
<1>5. ASSUME ~Passes(c) PROVE FALSE
  <2>1. ~Skips(c) /\ ~Staging(c, p).tooLong
    BY <1>3, <1>5 DEF Passes
  <2>2. Checked(c, p, a) = "go"
    BY <1>1, <1>2, <2>1 DEF Checked, Skips
  <2> QED
    BY <1>4, <2>1, <2>2
<1> QED
  BY <1>5

\* A call returns s: the rank is still on the way of all if that is success or
\* all are refused.
LEMMA ReturnsOnWay ==
  ASSUME IInv, NEW p \in Ranks, OneWay(p), NEW s,
         status' = [status EXCEPT ![p] = Append(@, s)], UNCHANGED <<job, entry>>,
         Len(status[p]) < Len(job), s # "success" => Passes(Current(p))
  PROVE  OneWay(p)'
<1>1. TypeOK
  BY Here
<1>2. /\ Number(p) \in Nat \ {0}
      /\ DOMAIN status[p] = 1 .. Number(p) - 1 /\ DOMAIN status'[p] = 1 .. Number(p)
      /\ \A k \in 1 .. Number(p) - 1 : status'[p][k] = status[p][k]
      /\ status'[p][Number(p)] = s
  BY <1>1, Returned
<1>3. ASSUME NEW m \in DOMAIN status'[p], status'[p][m] # "success" PROVE Passes(job'[m])
  <2>1. CASE m = Number(p)
    BY <1>2, <1>3, <2>1 DEF Current
  <2>2. CASE m # Number(p)
    <3>1. m \in DOMAIN status[p] /\ status[p][m] = status'[p][m]
      BY <1>2, <2>2
    <3> QED
      BY <1>3, <3>1 DEF OneWay
  <2> QED
    BY <2>1, <2>2
<1>4. \A n \in DOMAIN entry'[p] : ~Passes(entry'[p][n].call)
  BY DEF OneWay
<1> QED
  BY <1>3, <1>4 DEF OneWay, Passes, Skips, TooLong, Bytes

\* A rank makes one more MPI call, of a collective that all take to MPI.
LEMMA EntersOnWay ==
  ASSUME IInv, NEW p \in Ranks, OneWay(p), NEW e,
         entry' = [entry EXCEPT ![p] = Append(@, e)], UNCHANGED <<job, status>>,
         ~Passes(e.call)
  PROVE  OneWay(p)'
<1>1. PICK n \in Nat : n = Len(entry[p]) /\ DOMAIN entry[p] = 1 .. n
  BY Here
<1>2. entry \in [Ranks -> Seq(MpiCall)]
  BY Here
<1>3. /\ DOMAIN entry'[p] = 1 .. n + 1 /\ entry'[p][n + 1] = e
      /\ \A k \in 1 .. n : entry'[p][k] = entry[p][k]
  BY <1>1, <1>2
<1>4. ASSUME NEW k \in DOMAIN entry'[p] PROVE ~Passes(entry'[p][k].call)
  <2>1. CASE k = n + 1
    BY <1>3, <2>1
  <2>2. CASE k # n + 1
    <3>1. k \in DOMAIN entry[p] /\ entry'[p][k] = entry[p][k]
      BY <1>1, <1>3, <2>2
    <3> QED
      BY <3>1 DEF OneWay
  <2> QED
    BY <2>1, <2>2
<1>5. \A m \in DOMAIN status'[p] : status'[p][m] # "success" => Passes(job'[m])
  BY DEF OneWay
<1> QED
  BY <1>4, <1>5 DEF OneWay, Passes, Skips, TooLong, Bytes

\* Only the rank that acts can leave the way.
LEMMA OthersOnWay ==
  ASSUME SameWay, UNCHANGED <<job, aborted>>, NEW p \in Ranks, ~SomeoneFails, OneWay(p)',
         \A q \in Ranks \ {p} : entry'[q] = entry[q] /\ status'[q] = status[q]
  PROVE  SameWay'
<1>1. aborted' = {} /\ \A q \in Ranks : OneWay(q)
  BY DEF SameWay
<1>2. ASSUME NEW q \in Ranks \ {p} PROVE OneWay(q)'
  BY <1>1, <1>2 DEF OneWay, Passes, Skips, TooLong, Bytes
<1> QED
  BY <1>1, <1>2 DEF SameWay

\* Each step keeps the ranks on one way, or someone has failed.
LEMMA StepSameWay == ASSUME TrueViews, WInv, Next, ~SomeoneFails' PROVE SameWay'
<1>0. /\ IInv /\ SameWay /\ TypeOK /\ Grows /\ job' = job
      /\ entry \in [Ranks -> Seq(MpiCall)] /\ status \in [Ranks -> Seq(Statuses)]
      /\ Careless \subseteq Ranks /\ Faulty \subseteq Ranks
  <2>1. job' = job
    BY DEF Next, Step, Refuse, NoMemory, CopyInFails, Enter, Complete, AbortInMpi, Deliver,
           CopyOutFails
  <2> QED
    BY <2>1, StepGrows, CollectiveAssumption DEF WInv, IInv, Typed, TypeOK
<1>1. ~SomeoneFails
  BY <1>0, FailureLasts
<1>2. aborted = {} /\ \A q \in Ranks : OneWay(q)
  BY <1>0, <1>1 DEF SameWay
<1>3. ASSUME NEW p \in Ranks, NEW s, status' = [status EXCEPT ![p] = Append(@, s)],
             Len(status[p]) < Len(job)
      PROVE  /\ p \in Faulty => s \notin {"nomem", "error"}
             /\ p \in Careless => s = "success"
  <2>1. /\ Number(p) \in Nat \ {0} /\ Number(p) \in DOMAIN status'[p]
        /\ status'[p][Number(p)] = s /\ Number(p) <= Len(job)
    <3>1. Number(p) \in Nat \ {0} /\ DOMAIN status'[p] = 1 .. Number(p) /\ status'[p][Number(p)] = s
      BY <1>0, <1>3, Returned
    <3>2. Number(p) \in DOMAIN job /\ DOMAIN job = 1 .. Len(job) /\ Len(job) \in Nat
      BY <1>0, <1>3, NextCall, Here
    <3> QED
      BY <3>1, <3>2
  <2>2. p \in Careless => ~Failed(p, Len(job))'
    BY DEF SomeoneFails
  <2>3. p \in Faulty => s \notin {"nomem", "error"}
    BY <2>1 DEF SomeoneFails
  <2>4. p \in Careless => s = "success"
    BY <1>0, <2>1, <2>2 DEF Failed
  <2> QED
    BY <2>3, <2>4
<1>4. ASSUME NEW p \in Ranks, Len(status[p]) < Len(job)
      PROVE  ~MpiRefuses(Current(p))
  <2>1. Number(p) \in DOMAIN job /\ Current(p) = job[Number(p)]
    BY <1>0, <1>4, NextCall
  <2> QED
    BY <1>1, <2>1 DEF SomeoneFails
<1>5. ASSUME NEW p \in Ranks, NEW s, status' = [status EXCEPT ![p] = Append(@, s)],
             Len(status[p]) < Len(job), s # "success" => Passes(Current(p)),
             UNCHANGED <<job, entry, aborted>>
      PROVE  SameWay'
  <2>1. OneWay(p)'
    BY <1>0, <1>2, <1>5, ReturnsOnWay
  <2>2. \A q \in Ranks \ {p} : entry'[q] = entry[q] /\ status'[q] = status[q]
    BY <1>0, <1>5
  <2> QED
    BY <1>0, <1>1, <1>5, <2>1, <2>2, OthersOnWay
<1>6. ASSUME NEW p \in Ranks, NEW e, entry' = [entry EXCEPT ![p] = Append(@, e)],
             UNCHANGED <<job, status, aborted>>, ~Passes(e.call)
      PROVE  SameWay'
  <2>1. OneWay(p)'
    BY <1>0, <1>2, <1>6, EntersOnWay
  <2>2. \A q \in Ranks \ {p} : entry'[q] = entry[q] /\ status'[q] = status[q]
    BY <1>0, <1>6
  <2> QED
    BY <1>0, <1>1, <1>6, <2>1, <2>2, OthersOnWay
<1>7. ASSUME NEW p \in Ranks, NEW a \in Arguments, Refuse(p, a) PROVE SameWay'
  <2>1. Len(status[p]) < Len(job) /\ UNCHANGED <<job, entry, aborted>>
    BY <1>7 DEF Refuse, Calls
  <2>2. PICK s : status' = [status EXCEPT ![p] = Append(@, s)]
    BY <1>7 DEF Refuse, Return
  <2>3. s # "success" => Passes(Current(p))
    <3>1. CASE p \in Careless
      BY <1>3, <2>1, <2>2, <3>1
    <3>2. CASE p \notin Careless
      BY <1>0, <1>4, <1>7, <2>1, <3>2, RefusedByAll
    <3> QED
      BY <3>1, <3>2
  <2> QED
    BY <1>5, <2>1, <2>2, <2>3
<1>8. ASSUME NEW p \in Ranks, NEW a \in Arguments, NoMemory(p, a) \/ CopyInFails(p, a) PROVE FALSE
  <2>1. Len(status[p]) < Len(job) /\ p \in Faulty
    BY <1>8 DEF NoMemory, CopyInFails, Calls
  <2>2. \/ status' = [status EXCEPT ![p] = Append(@, "nomem")]
        \/ status' = [status EXCEPT ![p] = Append(@, "error")]
    BY <1>8 DEF NoMemory, CopyInFails, Return
  <2> QED
    BY <1>3, <2>1, <2>2
<1>9. ASSUME NEW p \in Ranks, InCall(p)
      PROVE  Len(status[p]) < Len(job)
  <2>1. Number(p) \in DOMAIN job /\ DOMAIN job = 1 .. Len(job) /\ Len(job) \in Nat
        /\ Number(p) = Len(status[p]) + 1 /\ Number(p) \in Nat \ {0}
    BY <1>0, <1>9, LastCall, Here DEF IInv
  <2> QED
    BY <2>1
<1>10. ASSUME NEW p \in Ranks, CopyOutFails(p) PROVE FALSE
  <2>1. p \in Faulty /\ InCall(p) /\ status' = [status EXCEPT ![p] = Append(@, "error")]
    BY <1>10 DEF CopyOutFails, Return, InCall
  <2> QED
    BY <1>3, <1>9, <2>1
<1>11. ASSUME NEW p \in Ranks, Deliver(p) PROVE SameWay'
  <2>1. /\ InCall(p) /\ status' = [status EXCEPT ![p] = Append(@, "success")]
        /\ UNCHANGED <<job, entry, aborted>>
    BY <1>11 DEF Deliver, Return, InCall
  <2> QED
    BY <1>5, <1>9, <2>1
<1>12. ASSUME NEW p \in Ranks, NEW a \in Arguments, Enter(p, a) PROVE SameWay'
  <2>1. /\ Len(status[p]) < Len(job) /\ UNCHANGED <<job, status, aborted>>
        /\ entry' = [entry EXCEPT ![p] = Append(@, Entry(p, 1, a.space))]
        /\ Checked(Current(p), p, a) = "go" /\ ~Staging(Current(p), p).tooLong
    BY <1>12 DEF Enter, Calls
  <2>2. Current(p) \in Collective
    BY <1>0, <2>1, NextCall
  <2>3. ~TooLong(Current(p))
    BY <2>1, <2>2, TooLongForAll
  <2>4. ~Skips(Current(p))
    <3>1. Current(p).count \in Nat
      BY <2>2, BytesTyped
    <3> QED
      BY <2>1, <3>1 DEF Checked, Skips
  <2>5. Entry(p, 1, a.space).call = Current(p)
    BY DEF Entry
  <2> QED
    BY <1>6, <2>1, <2>3, <2>4, <2>5 DEF Passes
<1>13. ASSUME NEW p \in Ranks, Complete(p) PROVE SameWay'
  <2>1. InCall(p) /\ UNCHANGED <<job, status, aborted>>
    BY <1>13 DEF Complete, InCall
  <2>2. /\ Len(entry[p]) \in DOMAIN entry[p] /\ Last(p).call = Current(p)
    BY <1>0, <2>1, LastCall DEF IInv
  <2>3. ~Passes(Current(p))
    BY <1>2, <2>2 DEF OneWay, Last
  <2>4. CASE UNCHANGED entry
    <3>1. \A q \in Ranks : OneWay(q)'
      BY <1>2, <2>1, <2>4 DEF OneWay, Passes, Skips, TooLong, Bytes
    <3> QED
      BY <1>2, <2>1, <3>1 DEF SameWay
  <2>5. ASSUME NEW k, NEW x, entry' = [entry EXCEPT ![p] = Append(@, Entry(p, k, x))]
        PROVE  SameWay'
    <3>1. Entry(p, k, x).call = Current(p)
      BY DEF Entry
    <3> QED
      BY <1>6, <2>1, <2>3, <2>5, <3>1
  <2>6. PICK w : Completes(p, w)
    BY <1>0, <1>13, CompleteEffect DEF IInv
  <2> QED
    BY <2>4, <2>5, <2>6 DEF Completes
<1>14. ASSUME NEW p \in Ranks, AbortInMpi(p) PROVE FALSE
  <2> DEFINE n == Len(entry[p])
  <2>1. InCall(p)
    BY <1>14 DEF AbortInMpi, InCall
  <2>2. n \in DOMAIN entry[p] /\ n \in Nat \ {0} /\ entry[p][n].call = Current(p)
    BY <1>0, <2>1, LastCall DEF IInv, Last
  <2>3. ~MpiRefuses(entry[p][n].call)
    BY <1>4, <1>9, <2>1, <2>2
  <2>4. PICK q \in Awaited(entry[p][n].call, p) : Len(entry[q]) >= n /\ ~SameMpiCall(n, p, q)
    BY <1>14, <2>3 DEF AbortInMpi
  <2>5. q \in Ranks
    <3>1. entry[p][n].call.op \in Rooted => entry[p][n].call.root \in Ranks
      BY <2>3 DEF MpiRefuses
    <3> QED
      BY <2>4, <3>1 DEF Awaited, Rooted
  <2>6. n \in DOMAIN entry[q]
    BY <1>0, <2>2, <2>4, <2>5, Here
  <2>7. Level(p, q, n)
    BY <1>0, <1>2, <2>2, <2>5, <2>6, AllLevel
  <2>8. entry[p][n].call = entry[q][n].call
    BY <1>0, <2>2, <2>5, <2>6, <2>7, EntryIs DEF Level
  <2> QED
    BY <2>4, <2>7, <2>8 DEF Level, SameMpiCall
<1> QED
  BY <1>7, <1>8, <1>10, <1>11, <1>12, <1>13, <1>14 DEF Next, Step

\* The ranks that are left all wait in MPI: the one that has made the fewest
\* MPI calls is in one that all have come to.
LEMMA SomeoneGoes == ASSUME WInv PROVE NoneLeftWaiting
<1> SUFFICES ASSUME ~SomeoneFails PROVE /\ aborted = {}
                                        /\ (\E p \in Ranks : Len(status[p]) < Len(job)) =>
                                             \E p \in Ranks : /\ Len(status[p]) < Len(job)
                                                              /\ pc[p] = "mpi" => AllIn(p)
  BY DEF NoneLeftWaiting
<1>1. IInv /\ aborted = {} /\ \A q \in Ranks : OneWay(q)
  BY DEF WInv, SameWay
<1>2. ASSUME NEW r \in Ranks, Len(status[r]) < Len(job)
      PROVE  \E p \in Ranks : Len(status[p]) < Len(job) /\ (pc[p] = "mpi" => AllIn(p))
  <2> DEFINE Left == {p \in Ranks : Len(status[p]) < Len(job)}
             Made == {Len(entry[p]) : p \in Left}
  <2>1. \A p \in Ranks : Len(entry[p]) \in Nat /\ Len(status[p]) \in Nat /\ Len(job) \in Nat
    <3>1. ASSUME NEW p \in Ranks
          PROVE  Len(entry[p]) \in Nat /\ status[p] \in Seq(Statuses) /\ Len(job) \in Nat
      BY <1>1, Here
    <3> QED
      BY <3>1
  <2>2. Made \in SUBSET Nat /\ Made # {}
    BY <1>2, <2>1
  <2> HIDE DEF Made
  <2>3. PICK m \in Made : \A k \in Made : ~(k < m)
    BY <2>2, LeastElement
  <2>4. PICK p \in Left : m = Len(entry[p])
    BY <2>3 DEF Made
  <2>5. ASSUME NEW q \in Ranks PROVE Len(entry[q]) >= Len(entry[p])
    <3>1. CASE q \in Left
      BY <2>1, <2>3, <2>4, <3>1 DEF Made
    <3>2. CASE q \notin Left
      <4>1. Len(status[q]) = Len(job)
        <5>1. Len(status[q]) <= Len(job)
          BY <1>1, Here DEF RankFits
        <5> QED
          BY <2>1, <3>2, <5>1
      <4>2. Len(entry[p]) <= Len(entry[q])
        BY <1>1, <2>4, <4>1, ThroughHasAll
      <4> QED
        BY <2>1, <2>4, <4>2
    <3> QED
      BY <3>1, <3>2
  <2> QED
    BY <2>4, <2>5 DEF AllIn
<1> QED
  BY <1>1, <1>2

\* Whatever the number of ranks, the calls and the data: ranks that have the
\* rank and the size of MPI's and pass what each collective needs are never
\* all left waiting in MPI, unless another one fails.
THEOREM NoneWaitsInVain == TrueViews => (Spec => []NoneLeftWaiting)
<1> SUFFICES ASSUME TrueViews PROVE Spec => []NoneLeftWaiting
  OBVIOUS
<1>1. Init => WInv
  <2> SUFFICES ASSUME Init PROVE WInv
    OBVIOUS
  <2>1. aborted = {} /\ \A p \in Ranks : status[p] = <<>> /\ entry[p] = <<>>
    BY DEF Init
  <2>2. SameWay
    BY <2>1 DEF SameWay, OneWay
  <2> QED
    BY <2>2, InitIInv DEF WInv
<1>2. WInv /\ [Next]_vars => WInv'
  <2> SUFFICES ASSUME WInv, [Next]_vars PROVE WInv'
    OBVIOUS
  <2>1. IInv'
    BY StepIInv DEF WInv
  <2>2. CASE Next
    BY <2>1, <2>2, StepSameWay DEF WInv, SameWay
  <2>3. CASE UNCHANGED vars
    BY <2>1, <2>3 DEF WInv, SameWay, SomeoneFails, Failed, MpiRefuses, OneWay, Passes, Skips,
                      TooLong, Bytes, vars
  <2> QED
    BY <2>2, <2>3
<1>3. WInv => NoneLeftWaiting
  BY SomeoneGoes
<1> QED
  BY <1>1, <1>2, <1>3, PTL DEF Spec

==============================================================================
