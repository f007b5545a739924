# Verification of InfiniCCL

TLA+ models of the InfiniCCL library, the TLC runs that check them on small
instances and the TLAPS proofs for all instances. Paths are relative to the
repository root.

## The system

InfiniCCL is a C interface (`include/comm.h`) over several communication
libraries. A build contains some devices (CPU, NVIDIA, Cambricon, Ascend, ...)
and some backends (OpenMPI, NCCL, MCCL, CNCL, HCCL). A public function goes to
`Operation::Call` (`src/operation.h`), which takes the best backend and the best
device of the build and calls `Execute` of the operation (`src/base/*.h`: checks
on the arguments) and then `Apply` of the backend (`src/backends/**/impl/*.h`).

| Component | State | Operations | Interacts with |
|---|---|---|---|
| Rendezvous of CNCL communicators (`src/backends/ccl/cncl/impl/comm_init_rank.h`) | a static `ThreadCoordinator` per process: mutex, condition variable, the active and the deferred requests, the key of the active group | `CommInitRank` | the threads of a process through the mutex; other processes through `cnclInitComms`, which blocks; the slots of a communicator |
| Life cycle of communicators (`src/communicator.h`, `src/base/comm_*.h`, `init.h`, `finalize.h`) | per communicator two slots, rank, size, local size, device; per process whether MPI is up | `Init`, `CommInitAll`, `CommInitRank`, `CommDestroy`, `GetRank`, `GetSize`, `Finalize` | MPI and the CCL library, whose calls join all processes |
| Staged collectives on OpenMPI (`src/backends/mpi/ompi/impl/*.h`) | none between calls; in a call host buffers and the position in MPI | `AllGather`, `AllReduce`, `AllToAll`, `Broadcast`, `Bcast`, `Gather`, `Reduce`, `ReduceScatter`, `Scatter` | the device runtime (copies that may fail), MPI (blocking) |
| Point to point on OpenMPI (`send.h`, `recv.h`) | none between calls; in a call a host buffer and the bytes given to MPI so far | `Send`, `Recv` | device runtime, MPI channels of each pair of ranks |
| Collectives on the CCL backends (`src/backends/ccl/common/impl`) | none | one vendor call each | vendor library, streams |
| CNCL default queue (`src/backends/ccl/cncl/api.h`) | a `thread_local` queue and its device | `Send`, `Recv` | device runtime |
| HCCL average (`src/backends/ccl/hccl`) | `thread_local`: a cache of plans and a default stream | `AllReduce`, `ReduceScatter` with `kAvg` | streams that run later |
| Dispatch (`operation.h`, `dispatcher.h`, `traits.h`, `backend.h`, `device.h`, `scripts/gen_bridge.py`) | none, compile time | choice of backend and device | all operations |
| Data types and casts (`devices/cpu/data_type_.h`, `caster.h`) | none | conversions, scaling of averages | collectives |
| Examples (`examples/`) | buffers and a communicator per rank | 16 programs on threads, on MPI processes, on both | the public interface |
| Device runtimes, launcher (`scripts/icclrun*.py`), build system | | | |

What is hard in it: threads that meet on the coordinator and sleep while others
act for them; processes blocked inside vendor calls, one of them with a mutex
held; local failures on one rank of a collective; one communicator written by two
kinds of initialisation; limits of `int` and of data types without an MPI type;
messages that are several messages to MPI; work that runs on a stream long after
the call that asked for it, with objects the thread may have reused since; a
backend and a device that are chosen apart.
`PROJECT.json` lists these hazards line by line, with the properties that cover
them.

## Modules

| Module | Models | Checked by | Proved in |
|---|---|---|---|
| `CnclRendezvous` | `CommInitRank` on CNCL, every access to the coordinator | `rendezvous`, `rendezvous_live` | `CnclRendezvous_proofs`, `CommInitRank_proofs` |
| `CliqueInit` | abstract: what `CommInitRank` promises | as property `SettlesGroupsWhole` | `CommInitRank_proofs` |
| `CommLifecycle` | the slots of communicators from `Init` to `Finalize` | `lifecycle`, `lifecycle_live` | `CommLifecycle_proofs` |
| `OmpiCollective` | the collectives on OpenMPI | `collective`, `collective_half`, `collective_hybrid` | `OmpiCollective_proofs` |
| `OmpiP2P` | `Send` and `Recv` on OpenMPI | `p2p` | `OmpiP2P_proofs` |
| `MessageChannel` | abstract: whole messages between pairs of ranks | as property `DeliversInOrder` | |
| `HcclAverage` | averages on HCCL: streams, plans, caches | `average` | `HcclAverage_proofs` |
| `Dispatch` | the backend and device of an operation in a build (operators) | through `ExamplePrograms` | `ExamplePrograms_proofs` |
| `ExamplePrograms` | the examples on the library as they see it; uses `Dispatch` | `examples`, `examples_mixed` | `ExamplePrograms_proofs` |
| `CpuAverage` | the average of integers and the 16 bit casts on the host | `cpu_average` | `CpuAverage_proofs` |

Each module `MC...` gives the constants of one run.

A definition whose comment begins with "Defect" is its neighbour with a mistake
a programmer could make. No specification uses it: `PROJECT.json` names for each
property a defect that violates it, which shows what the property can see.

### CnclRendezvous

`cnclInitComms` takes the communicators of all local ranks at once, but the
public call is made once per rank and thread. The threads of a process meet in
`ThreadCoordinator`. One action per section between two points where another
thread can run:

| Action | Code (`comm_init_rank.h`) |
|---|---|
| `RefuseNull`, `GetDeviceFails` | `Execute` returns early (`base/comm_init_rank.h` 19-22, 29) |
| `Refuse`, `Enter` | `Execute` and the checks before the lock (176-195) |
| `JoinActive`, `JoinDeferred` | lock, open or join the group, or be deferred (197-209) |
| `Wait`, `Wake`, `SpuriousWake` | `condition.wait` (217) |
| `RejectGroup` | `CompleteGroup` when `ValidateRequests` says no |
| `CallInitComms`, `FinishGroup` | `CompleteGroup` around the blocking `cnclInitComms` (148), with the mutex held |
| `InitCommsFails`, `RefuseClique` | `INFINI_CHECK_CNCL` ends the process |
| `Return` | the answer is read from the request (221) |

`pc` says where a thread is; "loop" and "init" hold the mutex. The request of a
thread lives in its frame, so threads stand for pointers. The vectors are sets
(they are filtered, counted and sorted by rank), `ahead` keeps the order of
`deferred_requests`, whose front opens the next group. The vendor library is
external: it returns when all ranks of a clique have called and refuses an id a
process has used.

Run `rendezvous`: one process, four threads, two cliques, programs of one or two
calls with wrong ranks, equal ranks, shared communicators, groups that never
fill, a handle pointer that is null, one spurious wake-up, `GetDevice` and `cnclInitComms`
that fail. Four threads are what a
group of two, a deferred group of two and threads of both that come late need.
It shows that the vectors hold exactly the blocked, unanswered requests and that
groups never mix (`QueuesRight`: `NoDanglingRequest`, `OneActiveGroup`), that no wake-up
is lost (`NoLostWakeup`), that ranks in a clique differ (`CliqueRanksDistinct`),
that handles are never replaced (`HandleWrittenOnce`), that success is true when
the sleeping thread reads it (`SuccessMeansMember`), and that the whole refines
`CliqueInit` (`SettlesGroupsWhole`): the requests of a group are settled at one
stroke, all of them and no other, with one answer. The refinement mapping
(`Phase`, `AskedOf`, `HandleOf`) hides the coordinator: a call is pending from
the push of its request to `CompleteGroup`.

Run `rendezvous_live`: six threads of two processes, plain and hybrid
communicators, one or several local ranks, cliques of one process and of two side
by side, all calls well formed and made in turn: none is refused and until all have
returned some thread can go on (`SomeCallGoesOn`, of which `NoneRefused` is a part),
and every call returns. Fairness is weak fairness of the steps of each
thread: the operating system schedules a thread that can run, a notified thread
gets the mutex after the threads ahead of it, and the library returns when all
ranks are there. Spurious wake-ups and errors get no fairness: a `GetDevice` that fails in one
thread leaves the others of its group waiting for good, which is outside `rendezvous_live`. Programs that ask
for overlapping cliques in opposite order hang by design and are left out.

### CommLifecycle

Each process makes public calls one after the other; `CommInitAll`,
`CommInitRank` and `Finalize` are two actions each, because they wait for other
processes. `build` is "ompi", "ccl" or both and decides what `Supported` says and
which slot `CommDestroy` releases in `Apply`; the destructor of `Communicator`
releases the other. `handle` is a history of each handle (none, live, freed,
lost, released twice). A vendor's `CommDestroy` may fail: its status is dropped
and the handle forgotten (`comm_instance.h` 20-21), the call still reports
success, and the handle is "lost".

`CommDestroy` gets the handle by value and deletes the `Communicator`, so it leaves
the variable of the caller `dangling`; another `CommDestroy` or `CommInit*` on it is
a use after free, of which nothing can be said. The model assumes of callers that
they do not do that: `Begin` lets no call have a dangling variable, and
`ResetVariable` is the caller setting one to null, after which it is like new. Nor
do callers copy a handle variable.

Run `lifecycle`: two processes, three handle variables, two cliques, any five
calls in any order (but for that rule) on each of the three builds, while
`SetDevice` and the library may fail, in `CommDestroy` too, and null pointers may be
passed. Five calls reach: initialise both slots, have one call fail, destroy, clear
the variable, initialise again. Shown: each live handle is in exactly one slot,
nothing is released twice, and a handle is left behind only where the vendor failed
to release it (`HandlesOwned`); rank and size are always those of a slot, of either
when both are filled (`WorldOfSlot`); a filled slot is kept (`SlotsKept`). A process
that calls MPI before `Init` or after `Finalize`, `CommDestroy` included, ends
(`aborted`), as `INFINI_CHECK_MPI` does.

Run `lifecycle_live`: three processes with the calls of the hybrid examples:
every call succeeds and every program ends with MPI down and every handle released.
Weak fairness per process: a
program goes on, and a collective call returns when all have joined.

### OmpiCollective

All ranks of an MPI communicator go through a list of collectives `job`. A call
is `Refuse` (checks in `Execute` and at the head of `Apply`), `NoMemory`,
`CopyInFails`, or `Enter` (host buffers, copy, MPI call), then `Complete` for
each MPI call (`Broadcast` makes one per chunk) and `Deliver` (scale, copy out,
free) or `CopyOutFails`. One operator per collective (`AllGather` ... `Scatter`)
gives the lengths it stages and the count it hands to MPI. Memory is counted in
units of a byte of MPI: an element of type "half" is two units. A value is
traced, not computed: it says which ranks' calls went into it, from which place,
and what it was divided by.

MPI is external: the n-th calls of the ranks belong together, a rank leaves when
what it needs has come, calls that differ have no defined outcome (junk, abort
or waiting), a sum of `MPI_BYTE` or a negative count ends the process. `AllReduce` and
`AllGather` pass their `size_t` count as an `int` without a check: `AsInt` keeps the low
bits, so a count just beyond `INT_MAX` is negative and one beyond 2 `INT_MAX` + 1 may be
small again, and succeed with part of the data (`Wraps`; `RightResult` says nothing of
these).

Run `collective`: three ranks; one passes any arguments, one has a `malloc` and
a device runtime that fail, one does everything right. Every collective alone
with counts 0 to 3, roots at both ends and outside, halves, averages; four
pairs, in which a failure in the first call makes the ranks part. `MaxInt` is 2,
so that 3 is beyond the range of MPI and a broadcast of 3 takes two chunks with
a remainder. Shown: a success, of a count that does not wrap, is the right data in full
(`RightResult`), only a
failed copy leaks buffers, two at most (`BuffersReleased`), MPI stays inside the
host buffers (`HostFits`), as long as no one fails some rank can always go on
(`NoneLeftWaiting`), and ranks are stuck only by a failure of another rank or of a
call MPI cannot take (`StuckOnlyByFailure`). Fairness: a rank goes on, and MPI lets
a rank leave at the latest when all ranks are in the call.

Run `collective_half` is expected to fail: `AllGather` and `AllToAll` give MPI
the number of elements with the type `MPI_BYTE` for 16 bit floats and so move
half of the data, which `gather.h` and `scatter.h` (lines 42-43) avoid.

Run `collective_hybrid` is expected to fail too. On a communicator that
`CommInitAll` gave the world and `CommInitRank` a clique of one node, the rank
and size are those of the clique (`WorldOfSlot` of `CommLifecycle`), while MPI
gathers over the world: a rank that MPI does not take for the root stages the
result, and the root stages fewer blocks than MPI writes. The constant `Views`
holds what the communicators say; in `collective` it is what MPI says.

Not modelled: numbers (sums and averages as values), a `Bcast` apart from
`Broadcast` in place, 64 bit overflow of sizes.

### OmpiP2P and MessageChannel

A message goes through a host buffer and MPI in chunks of at most `INT_MAX` bytes,
all on one tag. Each chunk is one blocking MPI call: `EnterSend`, then `PutChunk`
and `SendReturns` (or `SendBuffered`) for each chunk, then `FinishSend`; on the
other side `EnterRecv`, `TakeChunk`, `FinishRecv` or `CopyOutFails`. MPI is
external: it keeps the chunks of a pair of ranks in order, may buffer a chunk of
at most `Eager` bytes, puts a chunk that is shorter than asked for where it
belongs without a word (the code ignores the status) and ends a rank for a chunk
that is longer (`Truncated`). `Sizes` is the size in the communicator of each rank, which
is what a peer is compared with: a clique beside the OpenMPI communicator makes it smaller
than MPI's. That it is never larger is assumed. A byte is traced as its message and its place.

Run `p2p`: three ranks, the first careless with arguments, the
last with a clique of two, the second with a `malloc` and device runtime that fail. Programs: a pair that repeats, a ring, two
senders to one receiver with several types and empty messages, arguments that are
refused, and 36 pairs of sizes that mostly differ. `MaxInt` is 2, so that messages of up
to 5 bytes take three chunks with and without a remainder; `MaxSize` is 7, so that
the multiplication of count and width is refused as it is for `size_t`. Shown: as
long as two ranks have named equal sizes, the k-th receive gets the k-th message
whole, whatever failed before on either side (`DeliversInOrder`, the refinement of
`MessageChannel`); MPI ends a rank only after sizes that differ and nothing stays in
MPI behind a program that went right (`ChunksMatch`: `TruncatedOnlyIfUnequal`,
`NothingLeftInMpi`); only a failed copy leaks, one buffer (`BuffersReleased`); as long
as nothing is wrong the ranks never all wait for one another (`SomeRankGoesOn`) and
programs end without any buffering in MPI (`AllFinish`). Fairness is weak fairness
of the steps of each rank, not of `SendBuffered`, since MPI promises no
buffering. The two programs in which all ranks send first, or one sends to itself,
are named in `Unsafe` and are left out of the last two: they hang, as such programs
do on MPI itself.

### HcclAverage

HCCL does not average, so a call with `kAvg` puts a sum and then a division on a
stream. `Call` stands for the checks, `DefaultStream` and `NewDefaultStream` for
`GetDefaultStream`, `Prepare` for `PrepareHcclAverage` with `EvictCompleted`, `Sum`
and `SumFails` for the call of the library, `Divide` for `Run` of the plan, `End`
for the wait on the default stream, `Exit` for the end of the thread, which
destroys its cache and its stream. `Execute` is the device: the next task of some
stream. What the caller does in between is part of the model: another device, new
streams, the end of a stream whose handle comes back for another one.

A plan is a number with its key; a cache is a set of numbers, the oldest the
smallest. A buffer holds over how many ranks it was summed and by what it was
divided. Assumed of the vendor: `aclrtDestroyStream` waits for the stream; tasks
of a stream run in order. Assumed of callers: a stream they name is there and of
the current device, and a buffer is on one stream at a time.

Run `average`: one thread, for nothing is shared between threads (the theorems
below are for any number); two devices; two handles, one for the stream of the
caller and one for the default stream, so that each of them is used again; two
warm plans instead of eight; four calls out of nine kinds, which reach three plans
in flight at once and an eviction after that. Shown: a plan is never freed while
the device needs it (`InFlightKept`); the cache outgrows its bound only by plans in
flight (`GrowsOnlyInFlight`); a buffer ends with the sum of the last call divided
once, by the right number (`RightAverage`); a null stream makes the call
synchronous (`NullIsSynchronous`); tasks go to a stream of the current device
(`StreamsInUse`). A call that fails is not waited for, so `RightAverage` says
nothing of its buffer until the next call on it.

### Dispatch and ExamplePrograms

`Dispatch` has the priorities, the lists and the templates of `src/` as operators:
`Filter`, `ListGetBest`, `DispatchFunc`, and `Call`, which tells the backend and
device an operation of a build runs for, or `kNotSupported`. A filtered list is the
set of its values, beside the list they come from, whose order breaks ties.

`ExamplePrograms` runs a program of `examples/` on a build. Each program is
written as the sequence of its steps (`MpiAllReduce` ... `ThreadSendRecv`), with the
tests of the rank that are in it. `Compiled` routes each step by `Dispatch`; a step
succeeds when the build has the operation, MPI is up, the slot the backend reads is
filled and the device is the one of the program. `Issue` makes a call, `Run` lets
it happen once the ranks it depends on have made theirs: at once for calls that
block, later for calls that only put work on the default stream. The source of a
call is read when it is made, which is the same as long as nothing that is still
to run writes it: the examples that give a buffer they have received in do so in
calls that block. `Free` is not
trusted to wait for work on the stream; a copy to the host is ordered after it, as
all the runtimes do for the default stream. Collectives of CNCL, which pass the
null queue of the example on, count as work on the default stream.

Run `examples`: all 16 programs, one to three ranks, nine builds for no, one and two
accelerators, two calls to warm up and one measured. Every loop of a program is
over these calls, and more of them repeat what two show. Shown: who validates finds
the answer (`RightAnswer`); no buffer or communicator goes while a call still has to
run on it (`WorkHasItsBuffers`); an operation is only ever given a communicator made
by its own backend and device (`OneOwner`, which the casts of `intra_comm` rely on);
a program does not fail in a build it is meant for with one accelerator at most
(`SucceedsInItsBuild`); all programs end (`AllEnd`). `MeantFor` says what a build is
meant for: the directory names the backend, and where a build has a CCL library the
operations both have go to it, so that the programs of `examples/mpi` are for
builds without one. Fairness: threads and processes run, and a call runs when all
who take part have made it. The exit of one process ends the others, as `mpirun`
does.

Run `examples_mixed` is expected to fail. `README.md` lists a CCL backend as available
in a build with one of its devices. In a build for two accelerators the best backend
and the best device are taken apart from each other; with Metax, Cambricon, MCCL and
CNCL, for instance, they do not go together and every operation is not supported.

### CpuAverage

On the host an average is the sum made a `double`, times a `float` next to 1/n, cut to
an integer. `Double` rounds as the hardware does, to the nearest and a tie to the even
one, once for the sum and once for the product (`IntegerAverage`); `CastBack` may give
any number when the cut product is out of range, as C++ allows. `Float16FromFloat`,
`Float16ToFloat`, `BFloat16FromFloat` and `BFloat16ToFloat` are the bit arithmetic of
`devices/cpu/data_type_.h` with the widths as constants. MPI refuses to sum 16 bit types
(they are `MPI_BYTE` to it), so an average on this backend does not reach these casts;
they are checked for themselves.

Run `cpu_average`: every sum of 9 bits, signed and unsigned, on 1 to 24 ranks, with a
`double` of 6 bits of mantissa and a `float` of 4 exponent and 4 mantissa bits, so that
sums exceed the `double` as 64 bit sums do; and every one of the 512 floats cast to both
16 bit types. The relations between the formats are those of the real ones: `Float16`
has fewer exponents and a shorter mantissa than `float`, `BFloat16` the same exponents;
hence carries, subnormals, infinity and ties occur.
Shown: `MeanOfIntegers`, which says how far from the mean an average may be (exact
averages come out one too low on some sizes; it never changes sign, and on two ranks and
more it never leaves the type), and `HalvesRound`. On one rank the average of the largest
64 bit number is 2^63 (or 2^64) before the cast back, which is out of range: what is
stored then is undefined, and nothing is claimed of it. Not every NaN stays one in
`BFloat16`: only the quiet one is claimed.

## What is proved

`CnclRendezvous_proofs` proves, for any processes, threads, communicators,
cliques and programs, `Spec => []` of `TypeOK`, `QueuesRight`
(`NoDanglingRequest` and `OneActiveGroup`), `NoLostWakeup` and `CliqueRanksDistinct`, and the action
properties `HandleWrittenOnce` and `SuccessMeansMember`. The assumptions are the
named ones of the module: threads are finite and belong to a process, threads
pass communicators of their process, communicators start without a CNCL handle.

The inductive invariant `IInv` adds to the properties: `RequestInFrame` (a
blocked thread has the request of its current call), `MutualExclusion`,
`GroupStaysValid` (what `ValidateRequests` found is still true when
`cnclInitComms` returns: needed because the mutex is held across the call while
other threads go on with `set_device_id`), `AnsweredIsMember` (a request answered
with success has its communicator in the clique until it is read) and
`HandlesUsed` (a handle of a clique comes from a call of its process, so an id
that may still be used has none). Each action has a lemma; the two ways to
complete a group share `EndGroupEffect` and `EndGroupKeepsQueues`.

`CommInitRank_proofs` proves the refinement: `GroupsSettledWhole` is `Spec =>
SettlesGroupsWhole`, so for any instance every behaviour of the coordinator is one of
`CliqueInit`. It rests on the same invariant: `OneActiveGroup` and `NoDanglingRequest`
make the active requests a group that can be settled (`ActiveSettles`), and
`GroupStaysValid` keeps its communicators different and without a handle through
`cnclInitComms`. Each action maps to `Ask`, `Succeed`, `Fail`, `Leave` or a stutter.

It also proves `CallsWellFormed => (Spec => []NoneRefused)` on top of
the same invariant. `CallsWellFormed` is about constants only: neither
`GetDevice` nor `cnclInitComms` fails, and in each program the calls pass the checks, each passes a communicator of
its own, and those of a process that name a clique agree on its sizes, differ in rank
and device, and are no more than the sizes say. The module of `rendezvous_live`
assumes it, so TLC checks that its programs meet it; `rendezvous` has programs that do
not, and are refused. The added invariant is `WInv`: communicators with calls still to
come are as they were (`CommsFresh`), requests ask for what their calls need
(`RequestsFit`), and once a clique has been handed to CNCL no call of the process
still needs it (`CliqueSpent`). The last is a matter of counting: a group that is
complete has as many requests as the program has calls for the clique, hence all of
them (`CompleteHasAll`), though requests were deferred and moved on the way.

`CallsWellFormed /\ CallsInTurn => (Spec => []SomeCallGoesOn)` says that the rendezvous
is free of deadlock. `CallsInTurn`: every rank of a clique is passed by some thread and
each process passes as many as it is expected to; the threads of a process that meet in
a clique have been through the same cliques before; and cliques of several processes
have an order in which each process comes to its own, all threads of the next after the
last. It is not enough that threads meet their cliques in one order: with k1, k2 in one
thread, k2 in a second and k1 in a third, the second may open the group of k2, and the
other two are deferred for good. The run assumes both hypotheses. The added invariant
`RInv` compares each thread with its whole program `g`: the calls of a process that name
a clique are answered together, after CNCL got all their ranks (`Together`), and a
thread in `cnclInitComms` has brought them all (`AllJoined`). Where no thread holds the
mutex not all can be asleep (`NotAllAsleep`): whoever is missing in the active group
would have to be at an earlier clique, which the members have behind them. So if no one
went on, each process with calls to make would be inside `cnclInitComms`; the one whose
clique is first in turn would wait for a process that is in a later one, and has
therefore been through the first (`SomeoneGoesOn`).

`CommLifecycle_proofs` proves, for any processes, handle variables, cliques,
builds and number of calls, `Spec => []` of `TypeOK`, `HandlesOwned` and
`WorldOfSlot`, and the action property `SlotsKept`. It assumes that a process
passes its own handle variables, none of them dangling, and, to `CommInitRank`,
ranks below `nranks`.

Its inductive invariant adds four parts to the properties. `SlotKinds`: what
`CommInitAll` makes is in `inter_comm`, what `CommInitRank` makes in
`intra_comm`, so no handle is in both. `BlockedOn`: while a process waits in a
collective call, the slot to be filled is still empty and its handle not made;
the check of the slot comes before the call, so this is what carries it over.
`DupsCounted` and `HandlesAsked`: a duplicate or a clique that was not asked for
has no handle, so a new handle is new. `SlotFilled` and `SlotsReleased` are the
two ways ownership changes; `OthersBlocked` says that a step of one process
leaves the calls of the others alone.

`HcclAverage_proofs` proves, for any threads, devices, streams, buffers, calls and
size of the cache, `Spec => []` of `TypeOK`, `InFlightKept` and `StreamsInUse`, and the
action property `GrowsOnlyInFlight`. It assumes that the null stream is not a stream
and that some call can be asked for.

Its inductive invariant has two groups. For the streams: `OnStream` (a call is on the
stream of the caller or the default stream, one of its device) needs `CallersOwn` (the
stream a caller named is nobody's default stream, so replacing a default stream leaves
it alone), `DefaultThere` (a default stream is on the device it was made for) and
`DefaultsDistinct` (the stream a thread destroys is not that of another). For the
plans: `EventsBehind` (every division is followed on its stream by the event of its
plan) carries `InFlightKept`: the code asks only for the event before it evicts a
plan, so the event must not be over before the division is; `PlanCached` says that
a call still has its plan when it comes to use it. `SumBehind`, `DivideBehind` and
`ExecuteBehind` are the three ways a stream changes, `EvictedIsDone` is about the
eviction.

It also proves `Spec => []` of `RightAverage` and `NullIsSynchronous`, with
one more assumption, `BuffersApart`: two threads do not reduce into one buffer, which
would be a race in their own code. Its invariant `BInv` says where each buffer is
heading: `Outcome` finds in the queues the sum that will be the last to write it and,
behind that, the one division, or the thread that is about to add it; everything that
is queued ahead of the sum is overwritten, so what was left by calls that failed or by
a stream that was replaced does not matter. `OneStream` (all tasks on a buffer are on
one stream, so that they run in order), `PlanFits` (the plan a call divides by was made
for its buffer and its number of ranks) and `Waited` carry it.

`OmpiCollective_proofs` proves, for any number of ranks, lists of calls, counts, range
of MPI (`MaxInt`) and careless or faulty ranks, `Spec => []` of `TypeOK` and
`BuffersReleased` (two buffers at most for each copy that failed, none otherwise), and
under hypotheses about constants those of `HostFits`
(`TrueViews`) and `RightResult` (`TrueViews` and `WholeElements`). `TrueViews`: the
communicators have the rank and size of MPI, so there is no clique in them besides.
`WholeElements`: no `AllGather` or `AllToAll` is of 16 bit floats. Neither can be
dropped: the counterexamples are the runs `collective_hybrid` and `collective_half`.
`RightResult` itself leaves out the counts that wrap.
The module of run `collective` assumes both, so TLC checks that they hold there.

The invariant follows each rank through MPI. `EntriesFit`: each MPI call is the right
piece, with the right data, of a call of the rank (the field `number` says which;
MPI does not see it). `EntriesFollow`: the pieces come in order, and between two MPI
calls there are only calls that had nothing to move or failed. From these `Aligned`:
while no call up to the k-th has failed anywhere, the MPI calls of any two ranks up to
there are the same one by one, so MPI never mixes two collectives. It is shown for the
least MPI call at which two ranks differ. `WritesWhole`, with `Depends` (what MPI
writes depends only on the ranks it waits for), then says that MPI writes what belongs
there, and `WholeIsIdeal` that this is what the collective promises. `HostRight` and
`RankResult` carry it from MPI to the receive buffer; `StagedBound` counts buffers.

Under `TrueViews` alone, `Spec => []NoneLeftWaiting`: the collectives are free of
deadlock as long as no one fails. By `SameWay` all ranks then take the same of their
calls to MPI, whatever the way each takes through the checks, and so their MPI calls
are the same one by one, not only as far as both have come (`AllLevel`), which keeps
MPI from ending a rank. A rank that is through has made every MPI call
(`ThroughHasAll`); so of the ranks that are not, one with the fewest MPI calls either
has a step of its own or is in a call that all the others have come to.

`OmpiP2P_proofs` proves, for any number of ranks, programs, sizes, lengths of the
chunks (`MaxInt`), sizes in the communicators and buffering of MPI, `Spec => []` of `TypeOK`, `BuffersReleased`,
`ChunksMatch` (`TruncatedOnlyIfUnequal` and `NothingLeftInMpi`), and that `Spec`
implements `MessageChannel`. It assumes of a call only that its count is not negative and its
data type has a width; the checks of `Execute` must do the rest.

The inductive invariant follows each pair of ranks. `SendAt` is the place (message,
byte) of the next byte its sender puts, `RecvAt` that of the next byte its receiver
asks for. `ChunksFollow`: the chunks on their way are cut from the messages as the
code cuts them, and each begins where the one before it ends, up to `SendAt`.
`InStep`: as long as the sizes named agree, the first begins at `RecvAt`; so a chunk
is never longer than the room for it, and when both ranks are done nothing is left.
`Arrived`: what a receiver has taken is in its place. `Counted` ties the last size
of each sequence to the call a rank is in, and `StagedExact` counts the host buffers.
`PutKeeps`, `TakeKeeps`, `EnterSendKeeps`, `EnterRecvKeeps`, `FinishSendKeeps` and
`EndsRecvKeeps` treat the pair of the call, `OtherPairs` all the others.
`WholeMessage` is the step from the invariant to the promise.

`NoRankStuck` proves that blocking `Send` and `Recv` do not deadlock: `InTurn(turn)`
implies `Spec => []SomeRankGoesOn`, for any `turn`. The hypothesis is about the
programs only: each call that carries a message has a turn, later than those of the
calls before it on its rank, and its peer makes the opposite call in the same turn. The
run assumes it of all its programs but the `Unsafe` ones, which have no turns. Sizes
need not be equal, calls may be refused or fail: `SomethingWrong` then releases the
promise. The added invariant `CountInv` says that while nothing has failed the turns a
rank has begun are as many as the messages of each pair it has sent and asked for. If
all ranks waited, one would wait in the earliest turn. Its peer cannot be at an earlier
call; if it is at the opposite one, the two see one and the same sequence of chunks, and
the sender waits for it to be empty, the receiver for a chunk; and if it has made that
call, it has begun at least as many calls of the pair as the waiting rank
(`MetBefore`), so that by `InStep` the chunk would have been there, or been taken
(`NotPastTurn`).

`ExamplePrograms_proofs` proves, for any builds that `IsBuild` allows, any numbers of
ranks, of calls to warm up (one at least) and of measured calls, `Spec => []` of
`TypeOK`, `RightAnswer`, `WorkHasItsBuffers`, `OneOwner` and `SucceedsInItsBuild`.

A program is a long sequence of steps, so the invariant cannot name the places it has
come to. It types what is left of it instead (`Typed`): there is something known of
the rank (a record of `Known`: what its buffers and its host copy may hold, which
buffers a call still has to write, what is made, whether work may be pending) that is
true of its state (`Agrees`) and from which its remaining steps can be run (`Runs`):
each meets what it `Needs` and leads to what is known `After` it. A step of the rank
takes the first of the remaining steps off and moves on to what is known next; the
other ranks touch none of it. Three parts go with it: `Shape` (types, with steps
and calls routed as the build says), `wrong = {}`, and `CallsInOrder`: calls that have
yet to run have their slot, their source and their target, a slot is filled for the
backend it belongs to, and every call gave what its operation asks of its rank
(`GivesRight`). The last is what the *other* ranks need: the answer of an exchange
depends on what they gave, when they called, however late it runs.

That each of the sixteen programs can be run from its start (`EveryProgram`) is proved
piece by piece: `Leads` composes over the concatenation, and the loops are typed once
for any number of turns. `Dispatch` comes in by `BestOfList` (`ListGetBest` finds the
first of the best, on any list), `OneRoute` (all routes of a build to one slot are
the same) and, for `SucceedsInItsBuild`, `OneDevice`, `CallIntra` and `CallInter`: with
one accelerator at most the library and the program choose the same device, and an
operation goes to a CCL backend if the build has one that knows it, to OpenMPI if not.

`CpuAverage_proofs` proves, for all widths of the formats and of the integers and any
number of ranks that `FormatAssumption` allows, `Spec => []` of `MeanOfIntegers` and
`HalvesRound`; the real formats, 64 bit integers and a `double` of 52 bits of mantissa
among them, are an instance that TLC could not enumerate. The assumption says that the
formats nest as the real ones do, that a size is a `float` and that 1/n is not
subnormal; no integer type is too wide.

The invariant of the specification is small (`StoredByItsCast`); the work is arithmetic.
The provers know no law of powers, but the library has 2^n as the number of subsets of n
elements, from which `PowerNext` and `PowerOfSum` follow; quotients and remainders are
unique (`DivModUnique`), so a pattern and its three fields determine each other
(`FieldsOfPattern`, `PatternOfFields`). For the averages: the float that `Scale` chooses
exists (`LowExists`), it is the nearest one to 1/n (`ScaleIsNearest`) and 1/n itself for
a power of two (`PowersHaveExactScale`), so it misses 1/n by one part in
2^(`FloatMantissa` + 1) at most (`ScalePrecision`). Rounding to a `double` misses by far
less (`DoublePrecision`), passes no power of two (`DoubleBound`) and leaves alone what has
few digits (`ExactDouble`); `NearlyTheMean` carries the three errors through the cut. For `BFloat16`: magnitudes are evenly spaced up to the next exponent
(`MagnitudeAfter`), so adding and dropping low bits rounds, carries and all
(`BFloatRounds`), and only a NaN can wrap. For `Float16`, one lemma for each branch of
`FromFloat` (`LargeIsRight`, `NormalIsRight`, `SubnormalIsRight`, `SmallIsRight`); that
the float and the next one enclose the value needs the order across the border between
subnormal and normal numbers (`NextSubnormal`) and from the largest one to infinity.

Only model-checked:

- Liveness (`AllCallsReturn`, `EndsClean`, `StuckOnlyByFailure`, `AllFinish`,
  `AllEnd`): fairness is about `ENABLED`, which the provers do not handle. The safe
  part of the first, the third and the fourth, that someone can go on, is proved
  (`SomeCallGoesOn`, `NoneLeftWaiting`, `SomeRankGoesOn`).

Every invariant and every action property of the passing runs, and both abstract
specifications, are stated by a theorem.

## Not modelled

- The tables of types and operations of each vendor and the bodies of the vendor
  calls: constants and external code. The CCL collectives are one such call each;
  their slots, owners and blocking are in `ExamplePrograms`.
- The queue object of CNCL: every call that uses it waits for it, so it carries
  nothing from one call to the next.
- The device runtimes: wrappers of one call each; they appear as steps that may fail
  and as streams that run later.
- The launcher (command lines, remote shells, `mpirun`) and the build system. What a
  build may contain is `IsBuild` in `Dispatch`.
- The variants of `DispatchFunc` over data types, and the list templates nothing at
  run time depends on.
- NaN payloads, hardware casts, sums and rounding of floating point data.

## Plan

1. An abstract specification of the collectives ("every rank gets the result of the
   call or an error") that `OmpiCollective` implements under the hypotheses of
   `ResultsRight`, as `MessageChannel` is for `OmpiP2P`.
2. Properties for the hazards of `PROJECT.json` that have none yet.
