--------------------------- MODULE ExamplePrograms --------------------------
(***************************************************************************)
(* The programs below examples/ and the library as they see it.  A job     *)
(* runs one program on some ranks: the threads of one process ("ccl", one  *)
(* thread for each device) or the processes of an MPI job ("mpi" and       *)
(* "ccl_mpi_hybrid").  Each rank goes through its steps; a step that calls *)
(* the library is routed by Dispatch and needs the slot of the             *)
(* communicator that its backend uses.                                     *)
(*                                                                         *)
(* Ranks exchange data by calls that block (OpenMPI, HCCL on its own       *)
(* stream, Send and Recv of CNCL on its default queue) or that only put    *)
(* work on the default stream, which runs later.  A program ends with the  *)
(* first status that is not success: CHECK_INFINI and CHECK_RT call exit,  *)
(* which ends all threads, and mpirun ends the other processes.            *)
(*                                                                         *)
(* A buffer holds "seed" (what the program put in), "zero", "answer" (the  *)
(* result of its exchange), or "junk".                                     *)
(***************************************************************************)
EXTENDS Dispatch

CONSTANTS
  Builds,    \* the builds of the library
  Programs,  \* the programs run on them
  Sizes,     \* numbers of ranks
  Warmup,    \* warmup_iter
  Profile    \* profile_iter

Threaded == {"ccl/all_gather", "ccl/all_reduce", "ccl/reduce_scatter",
             "ccl/send_recv"}
Hybrid == {"hybrid/all_gather", "hybrid/all_reduce", "hybrid/send_recv"}
Mpi == {"mpi/all_gather", "mpi/all_reduce", "mpi/all_to_all", "mpi/broadcast",
        "mpi/gather", "mpi/reduce", "mpi/reduce_scatter", "mpi/scatter",
        "mpi/send_recv"}
AllPrograms == Threaded \cup Hybrid \cup Mpi

ASSUME ExamplesAssumption ==
  /\ \A b \in Builds : IsBuild(b)
  /\ Programs \subseteq AllPrograms
  /\ Sizes \subseteq Nat \ {0}
  /\ Warmup \in Nat \ {0} /\ Profile \in Nat

VARIABLES
  build,    \* devices and backends
  program,  \* the program of the job
  size,     \* its ranks are 0 .. size - 1
  todo,     \* per rank: the steps it has still to take
  comm,     \* per rank: who filled the slots of its communicator
  mpi,      \* per rank: "none", "up" or "down"
  buffer,   \* per rank: the buffers it has and what is in them
  host,     \* per rank: what was last copied from the device
  issued,   \* per rank: the exchanges it has called
  done,     \* per rank: how many of them have run
  wrong,    \* ranks whose validation found something else than the answer
  exit      \* "spawn", "running", "success" or a status that is not success

vars == <<build, program, size, todo, comm, mpi, buffer, host, issued, done,
          wrong, exit>>

Ranks == 0 .. size - 1

-----------------------------------------------------------------------------
\* Steps and pieces of programs.
Api(op) == <<[do |-> "api", op |-> op, from |-> "none", to |-> "none"]>>
Exchange(op, from, to) ==
  <<[do |-> "exchange", op |-> op, from |-> from, to |-> to]>>
Fill(buf, value) ==
  <<[do |-> "fill", op |-> "none", from |-> value, to |-> buf]>>
Local(do, buf) == <<[do |-> do, op |-> "none", from |-> buf, to |-> buf]>>

Sync == Local("sync", "none")
CopyOut(buf) == Local("copyOut", buf)
Validate == Local("validate", "none")
ClearHost == Local("clear", "none")
When(condition, steps) == IF condition THEN steps ELSE <<>>

\* A call is one step, or none on a rank that has no part in it.
Times(n, call) == [i \in 1 .. n * Len(call) |-> call[1]]

\* The first call and what follows it, warm up, the measured calls.
Measured(call, first, last) ==
  call \o first \o Times(Warmup - 1, call) \o Sync \o Times(Profile, call)
    \o Sync \o last

MpiSetup == Api("Init") \o Api("GetRank") \o Api("GetSize")
Buffers(gives) ==
  Fill("send", IF gives THEN "seed" ELSE "zero")
    \o Fill("recv", "zero") \o Sync
Cleanup == Local("free", "send") \o Local("free", "recv") \o Api("CommDestroy")

-----------------------------------------------------------------------------
MpiAllReduce(r) ==
  MpiSetup \o Api("CommInitAll") \o Buffers(TRUE)
    \o Measured(Exchange("AllReduce", "send", "recv"), CopyOut("recv"), <<>>)
    \o Validate \o Cleanup \o Api("Finalize")

MpiAllGather(r) ==
  MpiSetup \o Api("CommInitAll") \o Buffers(TRUE)
    \o Measured(Exchange("AllGather", "send", "recv"), CopyOut("recv"),
                CopyOut("recv"))
    \o Validate \o Cleanup \o Api("Finalize")

MpiAllToAll(r) ==
  MpiSetup \o Api("CommInitAll") \o Buffers(TRUE)
    \o Measured(Exchange("AllToAll", "send", "recv"), CopyOut("recv"),
                CopyOut("recv"))
    \o Validate \o Cleanup \o Api("Finalize")

MpiReduceScatter(r) ==
  MpiSetup \o Api("CommInitAll") \o Buffers(TRUE)
    \o Measured(Exchange("ReduceScatter", "send", "recv"), CopyOut("recv"),
                CopyOut("recv"))
    \o Validate \o Cleanup \o Api("Finalize")

\* Defect: every rank validates what only the root gets.
MpiGatherValidatesAll(r) ==
  MpiSetup \o Api("CommInitAll") \o Buffers(TRUE)
    \o Measured(Exchange("Gather", "send", "recv"), <<>>, <<>>)
    \o CopyOut("recv") \o Validate \o Cleanup \o Api("Finalize")

MpiGather(r) ==
  MpiSetup \o Api("CommInitAll") \o Buffers(TRUE)
    \o Measured(Exchange("Gather", "send", "recv"), <<>>, <<>>)
    \o When(r = 0, CopyOut("recv") \o Validate)
    \o Cleanup \o Api("Finalize")

MpiReduce(r) ==
  MpiSetup \o Api("CommInitAll") \o Buffers(TRUE)
    \o Measured(Exchange("Reduce", "send", "recv"),
                When(r = 0, CopyOut("recv")), <<>>)
    \o When(r = 0, Validate) \o Cleanup \o Api("Finalize")

MpiScatter(r) ==
  MpiSetup \o Api("CommInitAll") \o Buffers(r = 0)
    \o Measured(Exchange("Scatter", "send", "recv"), <<>>, CopyOut("recv"))
    \o Validate \o Cleanup \o Api("Finalize")

\* Out of place, in place with two buffers that are one, and the old call
\* with one buffer.
MpiBroadcast(r) ==
  LET inplace == IF r = 0 THEN "send" ELSE "recv"
      Scenario(call, buf) == Measured(call, CopyOut(buf), <<>>) \o Validate
  IN  MpiSetup \o Api("CommInitAll") \o Buffers(r = 0)
        \o Scenario(Exchange("Broadcast", "send", "recv"), "recv")
        \o ClearHost
        \o Scenario(Exchange("Broadcast", inplace, inplace), inplace)
        \o ClearHost
        \o Scenario(Exchange("Bcast", inplace, inplace), inplace)
        \o Cleanup \o Api("Finalize")

\* Defect: the test of who sends is lost, and both ranks receive.
BothReceive(r) == When(r < 2, Exchange("Recv", "recv", "recv"))

\* send_recv_call: the sender is rank 0, the receiver rank 1.
SendsOrReceives(r) ==
  When(r = 0, Exchange("Send", "send", "send"))
    \o When(r = 1, Exchange("Recv", "recv", "recv"))

MpiSendRecv(n, r) ==
  MpiSetup \o
  IF n < 2 THEN Api("Finalize")
  ELSE Api("CommInitAll") \o Buffers(r = 0)
         \o Measured(SendsOrReceives(r), When(r = 1, CopyOut("recv")),
                     When(r = 1, CopyOut("recv")))
         \o When(r = 1, Validate) \o Cleanup \o Api("Finalize")

-----------------------------------------------------------------------------
\* An id made by one rank and broadcast over MPI starts the CCL library.
HybridSetup(r) ==
  Local("SetDevice", "none") \o Api("CommInitAll")
    \o When(r = 0, Api("GetUniqueId"))
    \o Exchange("Broadcast", "id", "id") \o Api("CommInitRank")

HybridAllReduce(r) ==
  MpiSetup \o HybridSetup(r) \o Buffers(TRUE)
    \o Measured(Exchange("AllReduce", "send", "recv"), CopyOut("recv"), <<>>)
    \o Sync \o Validate \o Cleanup \o Api("Finalize")

HybridAllGather(r) ==
  MpiSetup \o HybridSetup(r) \o Buffers(TRUE)
    \o Measured(Exchange("AllGather", "send", "recv"), CopyOut("recv"),
                CopyOut("recv"))
    \o Validate \o Cleanup \o Api("Finalize")

HybridSendRecv(n, r) ==
  MpiSetup \o
  IF n < 2 THEN Local("SetDevice", "none") \o Api("Finalize")
  ELSE HybridSetup(r) \o Buffers(r = 0)
         \o Measured(SendsOrReceives(r), When(r = 1, CopyOut("recv")),
                     When(r = 1, CopyOut("recv")))
         \o When(r = 1, Validate) \o Cleanup \o Api("Finalize")

-----------------------------------------------------------------------------
\* Threads of one process, which get the id from the main thread.
ThreadSetup == Local("SetDevice", "none") \o Api("CommInitRank")

\* Defect: nothing waits for the measured calls.
TimedNoSync(call) == Times(Warmup, call) \o Sync \o Times(Profile, call)

\* All the calls are made one after the other, with a look at the stream
\* after the warm up and at the end.
Timed(call) == Times(Warmup, call) \o Sync \o Times(Profile, call) \o Sync

ThreadAllReduce(r) ==
  ThreadSetup \o Buffers(TRUE)
    \o Timed(Exchange("AllReduce", "send", "recv")) \o CopyOut("recv")
    \o Validate \o Cleanup

\* The receive buffer is not initialised.  The second call gathers in place:
\* its block of the receive buffer is what a rank gives.
ThreadAllGather(r) ==
  ThreadSetup \o Fill("send", "seed") \o Fill("recv", "junk") \o Sync
    \o Timed(Exchange("AllGather", "send", "recv")) \o CopyOut("recv")
    \o Validate
    \o Fill("recv", "seed") \o Exchange("AllGather", "recv", "recv") \o Sync
    \o CopyOut("recv") \o Validate \o Cleanup

ThreadReduceScatter(r) ==
  ThreadSetup \o Fill("send", "seed") \o Fill("recv", "junk") \o Sync
    \o Timed(Exchange("ReduceScatter", "send", "recv")) \o CopyOut("recv")
    \o Validate \o Cleanup

\* One buffer for each of the two ranks.
ThreadSendRecv(r) ==
  ThreadSetup \o Fill("recv", IF r = 0 THEN "seed" ELSE "zero") \o Sync
    \o Timed(IF r = 0 THEN Exchange("Send", "recv", "recv")
                      ELSE Exchange("Recv", "recv", "recv"))
    \o When(r = 1, CopyOut("recv") \o Validate)
    \o Local("free", "recv") \o Api("CommDestroy")

Steps(p, n, r) ==
  CASE p = "ccl/all_gather" -> ThreadAllGather(r)
    [] p = "ccl/all_reduce" -> ThreadAllReduce(r)
    [] p = "ccl/reduce_scatter" -> ThreadReduceScatter(r)
    [] p = "ccl/send_recv" -> ThreadSendRecv(r)
    [] p = "hybrid/all_gather" -> HybridAllGather(r)
    [] p = "hybrid/all_reduce" -> HybridAllReduce(r)
    [] p = "hybrid/send_recv" -> HybridSendRecv(n, r)
    [] p = "mpi/all_gather" -> MpiAllGather(r)
    [] p = "mpi/all_reduce" -> MpiAllReduce(r)
    [] p = "mpi/all_to_all" -> MpiAllToAll(r)
    [] p = "mpi/broadcast" -> MpiBroadcast(r)
    [] p = "mpi/gather" -> MpiGather(r)
    [] p = "mpi/reduce" -> MpiReduce(r)
    [] p = "mpi/reduce_scatter" -> MpiReduceScatter(r)
    [] p = "mpi/scatter" -> MpiScatter(r)
    [] p = "mpi/send_recv" -> MpiSendRecv(n, r)

\* kRankCount: one example is for two ranks, whatever the machine has.
SizesOf(p) == IF p = "ccl/send_recv" THEN {2} ELSE Sizes

\* The template instances of a step: the backend and the device its operation
\* was compiled for, and the device of the program's own runtime (kDevType).
Compiled(step) ==
  [do |-> step.do, op |-> step.op, from |-> step.from, to |-> step.to,
   route |-> IF step.op \in Operations THEN Call(step.op, build) ELSE <<>>,
   device |-> ListGetBest(DevicePriority, BuildOrder, EnabledDevices(build))]

-----------------------------------------------------------------------------
NoComm == [inter |-> <<>>, intra |-> <<>>]

Init ==
  /\ build \in Builds
  /\ program \in Programs
  /\ size \in SizesOf(program)
  /\ todo = [r \in Ranks |->
              LET steps == Steps(program, size, r)
              IN  [i \in 1 .. Len(steps) |-> Compiled(steps[i])]]
  /\ comm = [r \in Ranks |-> NoComm]
  /\ mpi = [r \in Ranks |-> "none"]
  /\ buffer = [r \in Ranks |-> [b \in {"send", "recv", "id"} |-> "none"]]
  /\ host = [r \in Ranks |-> "zero"]
  /\ issued = [r \in Ranks |-> <<>>]
  /\ done = [r \in Ranks |-> 0]
  /\ wrong = {}
  /\ exit = IF program \in Threaded THEN "spawn" ELSE "running"

Drained(r) == done[r] = Len(issued[r])

\* OpenMPI returns when its part is done, HCCL and the point to point calls of
\* CNCL wait for their own stream, and making a communicator is collective.
Blocking(call) ==
  \/ call.op \in {"CommInitAll", "CommInitRank"}
  \/ call.route[1] \in {"Ompi", "Hccl"}
  \/ call.route[1] = "Cncl" /\ call.op \in {"Send", "Recv"}

Returned(r) == ~Drained(r) => ~Blocking(issued[r][Len(issued[r])])

Ready(r) == exit = "running" /\ Returned(r) /\ todo[r] # <<>>

NextStep(r) == Head(todo[r])

Advance(r) == todo' = [todo EXCEPT ![r] = Tail(@)]

Joins == {"CommInitAll", "CommInitRank"}
LocalCalls == {"Init", "GetRank", "GetSize", "GetUniqueId", "CommDestroy",
               "Finalize"}

\* The slot of the communicator that a backend uses.
Slot(route) == IF route[1] = "Ompi" THEN "inter" ELSE "intra"

\* Defect: a combination that is not supported is executed all the same.
SucceedsAnyway(r, step) ==
  /\ step.op \in {"GetRank", "GetSize", "CommInitAll"} => mpi[r] = "up"
  /\ step.op \notin LocalCalls \cup Joins =>
       comm[r][Slot(step.route)] # <<>> /\ step.route[2] = step.device

\* A call succeeds if the build has the operation, MPI is up, the slot is
\* filled and the device of the program is the one of the library.
Succeeds(r, step) ==
  /\ step.route \notin {Aborted, NotSupported}
  /\ step.op \in {"GetRank", "GetSize", "CommInitAll"} => mpi[r] = "up"
  /\ step.op = "CommInitRank" => buffer[r].id \in {"seed", "answer"}
  /\ step.op \notin LocalCalls \cup Joins =>
       comm[r][Slot(step.route)] # <<>> /\ step.route[2] = step.device

\* CHECK_INFINI: the first status that is not success ends the job.
Fail(r) ==
  /\ Ready(r) /\ NextStep(r).op \in Operations
  /\ ~Succeeds(r, NextStep(r))
  /\ exit' = "failure"
  /\ UNCHANGED <<build, program, size, todo, comm, mpi, buffer, host, issued,
                 done, wrong>>

CallLocal(r) ==
  /\ Ready(r) /\ NextStep(r).op \in LocalCalls /\ Succeeds(r, NextStep(r))
  /\ Advance(r)
  /\ LET op == NextStep(r).op
     IN  /\ mpi' = IF op = "Init" THEN [mpi EXCEPT ![r] = "up"]
                   ELSE IF op = "Finalize" THEN [mpi EXCEPT ![r] = "down"]
                   ELSE mpi
         /\ comm' = IF op = "CommDestroy" THEN [comm EXCEPT ![r] = NoComm]
                    ELSE comm
         /\ buffer' = IF op = "GetUniqueId"
                      THEN [buffer EXCEPT ![r].id = "seed"] ELSE buffer
  /\ UNCHANGED <<build, program, size, host, issued, done, wrong, exit>>

\* A call that other ranks have a part in.  Its source is read when the call
\* is made: nothing that is still to run writes the source of a later call.
Issue(r) ==
  /\ Ready(r) /\ NextStep(r).op \in Operations \ LocalCalls
  /\ Succeeds(r, NextStep(r))
  /\ Advance(r)
  /\ LET step == NextStep(r)
     IN  issued' = [issued EXCEPT ![r] = Append(@,
           [op |-> step.op, route |-> step.route,
            from |-> step.from, to |-> step.to,
            gives |-> IF step.op \in Joins THEN "seed"
                      ELSE buffer[r][step.from]])]
  /\ UNCHANGED <<build, program, size, comm, mpi, buffer, host, done, wrong,
                 exit>>

-----------------------------------------------------------------------------
\* The ranks whose data rank r gets, and those that have to take part before
\* the call of rank r is sure to run.
Sources(op, r) ==
  CASE op \in {"Broadcast", "Bcast", "Scatter", "Recv"} -> {0, r}
    [] op \in {"Gather", "Reduce"} -> IF r = 0 THEN Ranks ELSE {r}
    [] op = "Send" -> {r}
    [] OTHER -> Ranks

Participants(op) == IF op \in {"Send", "Recv"} THEN {0, 1} ELSE Ranks

\* Call number k of rank s has begun and belongs to op.
HasBegun(s, k, op) ==
  /\ k <= Len(issued[s]) /\ k <= done[s] + 1
  /\ issued[s][k].op = (IF op \in {"Send", "Recv"}
                        THEN (IF s = 0 THEN "Send" ELSE "Recv") ELSE op)

MayRun(r, ranks) ==
  /\ exit = "running" /\ ~Drained(r)
  /\ \A s \in ranks : HasBegun(s, done[r] + 1, issued[r][done[r] + 1].op)

\* What an exchange leaves: its answer if all it gets is what was to be sent.
Result(r, k) ==
  LET op == issued[r][k].op
      from == IF op \in {"Broadcast", "Bcast", "Scatter", "Recv"} THEN {0}
              ELSE Sources(op, r)
      wanted == IF op \in {"Broadcast", "Bcast"} THEN {"seed", "answer"}
                ELSE {"seed"}
  IN  IF \A s \in from : issued[s][k].gives \in wanted THEN "answer"
      ELSE "junk"

Writes(op, r) ==
  op \notin Joins \cup {"Send"} /\ (op \in {"Gather", "Reduce"} => r = 0)

\* The next call of rank r runs.
Run(r) ==
  LET k == done[r] + 1
      call == issued[r][k]
  IN  /\ MayRun(r, Sources(call.op, r))
      /\ done' = [done EXCEPT ![r] = k]
      /\ comm' = IF call.op \in Joins
                 THEN [comm EXCEPT ![r][Slot(call.route)] = call.route]
                 ELSE comm
      /\ buffer' = IF Writes(call.op, r)
                   THEN [buffer EXCEPT ![r][call.to] = Result(r, k)]
                   ELSE buffer
      /\ UNCHANGED <<build, program, size, todo, mpi, host, issued, wrong,
                     exit>>

-----------------------------------------------------------------------------
\* Malloc and the copy of the initial values to the device.
FillBuffer(r) ==
  /\ Ready(r) /\ NextStep(r).do = "fill" /\ Drained(r)
  /\ Advance(r)
  /\ buffer' = [buffer EXCEPT ![r][NextStep(r).to] = NextStep(r).from]
  /\ UNCHANGED <<build, program, size, comm, mpi, host, issued, done, wrong,
                 exit>>

\* StreamSynchronize(nullptr), and SetDevice, which has nothing to wait for.
Synchronize(r) ==
  /\ Ready(r) /\ NextStep(r).do \in {"sync", "SetDevice"} /\ Drained(r)
  /\ Advance(r)
  /\ UNCHANGED <<build, program, size, comm, mpi, buffer, host, issued, done,
                 wrong, exit>>

\* The host buffer is cleared between the scenarios of broadcast.
ClearHostBuffer(r) ==
  /\ Ready(r) /\ NextStep(r).do = "clear"
  /\ Advance(r)
  /\ host' = [host EXCEPT ![r] = "zero"]
  /\ UNCHANGED <<build, program, size, comm, mpi, buffer, issued, done, wrong,
                 exit>>

\* A copy to the host comes after the work on the default stream.
CopyToHost(r) ==
  /\ Ready(r) /\ NextStep(r).do = "copyOut" /\ Drained(r)
  /\ Advance(r)
  /\ host' = [host EXCEPT ![r] = buffer[r][NextStep(r).from]]
  /\ UNCHANGED <<build, program, size, comm, mpi, buffer, issued, done, wrong,
                 exit>>

ValidateResult(r) ==
  /\ Ready(r) /\ NextStep(r).do = "validate"
  /\ Advance(r)
  /\ wrong' = IF host[r] = "answer" THEN wrong ELSE wrong \cup {r}
  /\ UNCHANGED <<build, program, size, comm, mpi, buffer, host, issued, done,
                 exit>>

\* Free is not trusted to wait for the work that uses the buffer.
FreeBuffer(r) ==
  /\ Ready(r) /\ NextStep(r).do = "free"
  /\ Advance(r)
  /\ buffer' = [buffer EXCEPT ![r][NextStep(r).from] = "none"]
  /\ UNCHANGED <<build, program, size, comm, mpi, host, issued, done, wrong,
                 exit>>

\* main of a threaded program makes the id and starts the threads.
Spawn ==
  /\ exit = "spawn"
  /\ IF Succeeds(0, [op |-> "GetUniqueId",
                     route |-> Call("GetUniqueId", build)])
     THEN /\ exit' = "running"
          /\ buffer' = [r \in Ranks |-> [buffer[r] EXCEPT !.id = "seed"]]
     ELSE exit' = "failure" /\ UNCHANGED buffer
  /\ UNCHANGED <<build, program, size, todo, comm, mpi, host, issued, done,
                 wrong>>

\* Programs whose exit status tells what their validation found.
Reporting == {"ccl/all_gather", "ccl/reduce_scatter", "ccl/send_recv",
              "hybrid/all_gather", "hybrid/send_recv", "mpi/all_gather",
              "mpi/send_recv"}

\* main joins its threads, mpirun its processes.
Join ==
  /\ exit = "running"
  /\ \A r \in Ranks : todo[r] = <<>> /\ Returned(r)
  /\ exit' = IF wrong # {} /\ program \in Reporting THEN "failure"
             ELSE "success"
  /\ UNCHANGED <<build, program, size, todo, comm, mpi, buffer, host, issued,
                 done, wrong>>

Step(r) ==
  \/ Fail(r) \/ CallLocal(r) \/ Issue(r) \/ FillBuffer(r) \/ Synchronize(r)
  \/ ClearHostBuffer(r) \/ CopyToHost(r) \/ ValidateResult(r) \/ FreeBuffer(r)

Next == Spawn \/ Join \/ \E r \in Ranks : Step(r) \/ Run(r)

Spec == Init /\ [][Next]_vars

\* Threads and processes are scheduled, and a call runs once all its
\* participants have made it; before that it may run or wait.
FairSpec ==
  /\ Spec /\ WF_vars(Spawn) /\ WF_vars(Join)
  /\ \A r \in UNION {0 .. n - 1 : n \in Sizes \cup {2}} :
       /\ WF_vars(r \in Ranks /\ Step(r))
       /\ WF_vars(/\ r \in Ranks /\ ~Drained(r)
                  /\ MayRun(r, Participants(issued[r][done[r] + 1].op))
                  /\ Run(r))
-----------------------------------------------------------------------------
TypeOK ==
  /\ build \in Builds /\ program \in Programs /\ size \in SizesOf(program)
  /\ \A r \in Ranks :
       /\ \A i \in DOMAIN todo[r] : todo[r][i].op \in Operations \cup {"none"}
       /\ \A slot \in {"inter", "intra"} :
            comm[r][slot] \in {<<>>} \cup (BackendType \X DeviceType)
       /\ mpi[r] \in {"none", "up", "down"}
       /\ \A b \in DOMAIN buffer[r] :
            buffer[r][b] \in {"none", "zero", "seed", "answer", "junk"}
       /\ host[r] \in {"none", "zero", "seed", "answer", "junk"}
       /\ done[r] \in 0 .. Len(issued[r])
  /\ wrong \subseteq Ranks
  /\ exit \in {"spawn", "running", "success", "failure"}

\* Every rank that validates finds the answer of the exchange before, whatever
\* the order in which the ranks run and whether their calls block or are put
\* on a stream (the copies of the results in examples/).
RightAnswer == wrong = {}

\* No example frees a buffer or destroys a communicator, and none copies over
\* a buffer, while a call that uses it is still to run: the program itself
\* waits, without counting on a Free or CommDestroy that does (the cleanup at
\* the end of each example).
WorkHasItsBuffers ==
  \A r \in Ranks : \A k \in done[r] + 1 .. Len(issued[r]) :
    LET call == issued[r][k]
    IN  call.op \notin Joins /\ call.from # "id" =>
          /\ comm[r][Slot(call.route)] # <<>>
          /\ "none" \notin {buffer[r][call.from], buffer[r][call.to]}

\* Whatever the build, a call of a CCL backend runs for the backend and the
\* device that made the communicator it is given: the static_cast of intra_comm
\* to the CclCommInstance of a backend is to its own type.
OneOwner ==
  \A r \in Ranks : \A k \in done[r] + 1 .. Len(issued[r]) :
    LET call == issued[r][k]
    IN  call.op \notin Joins => call.route = comm[r][Slot(call.route)]

\* The operations a program is an example of, and the builds it is meant for:
\* where the backend of its directory is the best one that has them.
OpsOf(p) ==
  {s.op : s \in {t \in UNION {ToSet(Steps(p, 2, r)) : r \in {0, 1}} :
                 t.do = "exchange" /\ t.from # "id"}}

MeantFor(p, b) ==
  LET ccl == {c \in b.backends \cap CclBackends :
                OpsOf(p) \subseteq CclOperations(c)}
  IN  CASE p \in Threaded -> ccl # {}
        [] p \in Hybrid -> ccl # {} /\ "Ompi" \in b.backends
        [] OTHER -> ccl = {} /\ "Ompi" \in b.backends

\* No call of an example fails in a build it is meant for that has at most
\* one kind of accelerator: the routes of all its calls lead to the backend
\* whose communicator the calls before have made.
SucceedsInItsBuild ==
  exit = "failure" => ~OneAccelerator(build) \/ ~MeantFor(program, build)

\* Every program ends: its ranks agree on the order of their calls, and none
\* waits for a rank that has no part in the call or has ended.
AllEnd == <>(exit \in {"success", "failure"})
=============================================================================
