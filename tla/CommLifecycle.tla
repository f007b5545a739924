--------------------------- MODULE CommLifecycle ----------------------------
(***************************************************************************)
(* The life of communicators in a job of N processes.  A Communicator has  *)
(* two slots, inter_comm (a duplicate of MPI_COMM_WORLD, made by           *)
(* CommInitAll) and intra_comm (a handle of an NCCL-like library, made by  *)
(* CommInitRank), and one rank and size that both calls write.             *)
(* CommDestroy runs the code of the best backend of the build, which       *)
(* releases one slot; the destructor of Communicator releases the other.   *)
(*                                                                         *)
(* The main thread of each process makes the calls, one after the other.   *)
(* The calls that other processes have to join are two actions.            *)
(*                                                                         *)
(* CommDestroy gets the handle by value and deletes the Communicator, so   *)
(* the variable of the caller is left dangling, and a further call with it *)
(* is undefined.  Callers are taken to make none (Begin) before they have  *)
(* set the variable to null (ResetVariable); every other order of calls    *)
(* is possible.                                                            *)
(***************************************************************************)
EXTENDS Integers, FiniteSets

CONSTANTS
  N,            \* processes of the MPI job
  Builds,       \* sets of backends the library is built with
  Comms,        \* handle variables of the caller
  CommHome,     \* the process of a handle variable
  Cliques,      \* unique ids
  CliqueSize,   \* nranks of the calls with this id
  CliqueRank,   \* rank of the call with this id in each of its processes
  LocalRank,    \* OMPI_COMM_WORLD_LOCAL_RANK
  LocalDevices, \* n_dev of CommInitAll
  MaxCalls,     \* bound on the calls of a process
  Calls,        \* the calls a process may make as its first, second, ...
  Careless,     \* processes that may pass a null pointer or no devices
  Faulty,       \* processes in which a vendor call may return an error
  Null          \* a null handle or an empty slot

Processes == 0 .. N - 1

Handles == ({"mpi"} \X (1 .. MaxCalls)) \cup ({"ccl"} \X Cliques)

\* A call of the public interface, with the handle variable and the unique id
\* it is given.
Call == [op: {"Init", "GetRank", "Finalize"}] \cup
        [op: {"CommInitAll", "CommDestroy"}, comm: Comms] \cup
        [op: {"CommInitRank"}, comm: Comms, clique: Cliques]

Communicator == [rank: Int, size: Int, local: Nat, dev: Nat,
                 inter: Handles \cup {Null}, intra: Handles \cup {Null}]

ASSUME LifecycleAssumption ==
  /\ N \in Nat \ {0}
  /\ Builds \subseteq SUBSET {"ompi", "ccl"}
  /\ MaxCalls \in Nat
  /\ CommHome \in [Comms -> Processes]
  /\ CliqueSize \in [Cliques -> Nat \ {0}]
  /\ CliqueRank \in [Cliques -> [Processes -> Int]]
  /\ LocalRank \in [Processes -> Nat]
  /\ LocalDevices \in Nat \ {0}
  /\ Calls \in [Processes -> [1 .. MaxCalls -> SUBSET Call]]
  /\ \A p \in Processes, n \in 1 .. MaxCalls : \A call \in Calls[p][n] :
       "comm" \in DOMAIN call => CommHome[call.comm] = p
  /\ \A p \in Processes, n \in 1 .. MaxCalls : \A call \in Calls[p][n] :
       call.op = "CommInitRank" =>
         CliqueRank[call.clique][p] \in 0 .. CliqueSize[call.clique] - 1
  /\ Null \notin Handles
  /\ Null \notin Communicator

VARIABLES
  build,    \* the backends of this build: "ompi", "ccl" or both
  mpi,      \* "none", "up" or "down": what MPI_Initialized/_Finalized tell
  comm,     \* the communicator each handle variable points to, if any
  dangling, \* handle variables whose communicator has been deleted
  pc,       \* "idle", or the collective call the process is blocked in
  target,   \* the handle variable of the call under way
  asked,    \* the unique id of the call under way
  made,     \* calls begun
  result,   \* status of the last call
  dups,     \* duplicates of MPI_COMM_WORLD asked for
  joined,   \* processes that joined a clique
  handle,   \* the handles of each process: "none", "live", "freed", "lost"
            \* (forgotten after a failed release) or released "twice"
  device,   \* current device
  aborted   \* processes that INFINI_CHECK_MPI has ended

vars == <<build, mpi, comm, dangling, pc, target, asked, made, result, dups,
          joined, handle, device, aborted>>

-----------------------------------------------------------------------------
\* BackendEnabled for the backends of the build, then the best of them.
Supported(op) ==
  CASE op = "CommDestroy" -> TRUE
    [] op = "CommInitRank" -> "ccl" \in build
    [] OTHER -> "ompi" \in build

BestIsCcl == "ccl" \in build

\* A call leaves nothing behind but its status; the rest of the step says
\* what else it changes.
Begin(p, call) ==
  /\ p \notin aborted /\ pc[p] = "idle" /\ made[p] < MaxCalls
  /\ call \in Calls[p][made[p] + 1]
  /\ "comm" \in DOMAIN call => call.comm \notin dangling
  /\ made' = [made EXCEPT ![p] = @ + 1]

Return(p, status) == result' = [result EXCEPT ![p] = status]

Abort(p) == aborted' = aborted \cup {p} /\ UNCHANGED result

\* Defect: local_size_ starts like the rank.
AllocatedNoLocal(c, dev) ==
  IF comm[c] # Null THEN comm[c]
  ELSE [rank |-> -1, size |-> 0, local |-> -1, dev |-> dev,
        inter |-> Null, intra |-> Null]

\* new Communicator(kDev, dev) when the handle is null.
Allocated(c, dev) ==
  IF comm[c] # Null THEN comm[c]
  ELSE [rank |-> -1, size |-> 0, local |-> 0, dev |-> dev,
        inter |-> Null, intra |-> Null]

Slots(c) == IF comm[c] = Null THEN {}
            ELSE {comm[c].inter, comm[c].intra} \ {Null}

\* Defect: a handle released in Apply is released again by the destructor.
ReleaseAgain(hs, lost, old) ==
  [h \in Handles |-> IF h \in hs THEN "twice" ELSE old[h]]

\* The handles of hs whose release may fail without notice: the status of the
\* vendor's CommDestroy is dropped.
MayLose(p, hs) == IF p \in Faulty THEN SUBSET {h \in hs : h[1] = "ccl"} ELSE {{}}

\* What a release does to the handles hs of a process, those in lost failing.
Release(hs, lost, old) ==
  [h \in Handles |-> IF h \notin hs THEN old[h]
                     ELSE IF old[h] # "live" THEN "twice"
                     ELSE IF h \in lost THEN "lost" ELSE "freed"]

Init ==
  /\ build \in Builds
  /\ mpi = [p \in Processes |-> "none"]
  /\ comm = [c \in Comms |-> Null]
  /\ dangling = {}
  /\ pc = [p \in Processes |-> "idle"]
  /\ target = [p \in Processes |-> Null]
  /\ asked = [p \in Processes |-> Null]
  /\ made = [p \in Processes |-> 0]
  /\ result = [p \in Processes |-> "none"]
  /\ dups = [p \in Processes |-> 0]
  /\ joined = [k \in Cliques |-> {}]
  /\ handle = [p \in Processes |-> [h \in Handles |-> "none"]]
  /\ device = [p \in Processes |-> 0]
  /\ aborted = {}

-----------------------------------------------------------------------------
\* An operation that no backend of the build has, or whose arguments are
\* refused before anything is done with them: a null pointer, n_dev <= 0.
Refuse(p) ==
  \E call \in Call :
    /\ Begin(p, call)
    /\ \/ ~Supported(call.op) /\ Return(p, "unsupported")
       \/ /\ Supported(call.op) /\ p \in Careless
          /\ call.op \in {"CommInitAll", "CommInitRank"}
          /\ Return(p, "invalid")
    /\ UNCHANGED <<build, mpi, comm, dangling, pc, target, asked, dups, joined,
                   handle, device, aborted>>

\* MPI_Initialized stays true after MPI_Finalize.
InitMpi(p) ==
  /\ Begin(p, [op |-> "Init"]) /\ Supported("Init")
  /\ mpi' = [mpi EXCEPT ![p] = IF @ = "none" THEN "up" ELSE @]
  /\ Return(p, "success")
  /\ UNCHANGED <<build, comm, dangling, pc, target, asked, dups, joined,
                 handle, device, aborted>>

\* MPI_COMM_WORLD may be asked about while MPI is up.
GetRank(p) ==
  /\ Begin(p, [op |-> "GetRank"]) /\ Supported("GetRank")
  /\ IF mpi[p] = "up" THEN Return(p, "success") /\ UNCHANGED aborted
                      ELSE Abort(p)
  /\ UNCHANGED <<build, mpi, comm, dangling, pc, target, asked, dups, joined,
                 handle, device>>

\* CommInitAll::Execute, up to the call of MPI_Comm_dup.
BeginCommInitAll(p, c) ==
  /\ Begin(p, [op |-> "CommInitAll", comm |-> c]) /\ Supported("CommInitAll")
  /\ comm' = [comm EXCEPT ![c] = Allocated(c, 0)]
  /\ \/ /\ comm'[c].inter # Null
        /\ Return(p, "invalid")
        /\ UNCHANGED <<pc, target, dups, aborted>>
     \/ /\ comm'[c].inter = Null /\ mpi[p] # "up"
        /\ Abort(p)
        /\ UNCHANGED <<pc, target, dups>>
     \/ /\ comm'[c].inter = Null /\ mpi[p] = "up"
        /\ pc' = [pc EXCEPT ![p] = "dup"]
        /\ target' = [target EXCEPT ![p] = c]
        /\ dups' = [dups EXCEPT ![p] = @ + 1]
        /\ UNCHANGED <<result, aborted>>
  /\ UNCHANGED <<build, mpi, dangling, asked, joined, handle, device>>

\* Defect: the world information is left to CommInitRank.
WithInterNoWorld(p, c) ==
  [comm[c] EXCEPT !.local = LocalDevices, !.dev = LocalRank[p],
                  !.inter = <<"mpi", dups[p]>>]

\* The communicator once the world is duplicated.
WithInter(p, c) ==
  [comm[c] EXCEPT !.rank = p, !.size = N, !.local = LocalDevices,
                  !.dev = LocalRank[p], !.inter = <<"mpi", dups[p]>>]

\* All processes have asked for this duplicate.  SetDevice comes last: when it
\* fails the communicator keeps its slot.
EndCommInitAll(p) ==
  /\ p \notin aborted /\ pc[p] = "dup"
  /\ \A q \in Processes : dups[q] >= dups[p]
  /\ comm' = [comm EXCEPT ![target[p]] = WithInter(p, target[p])]
  /\ handle' = [handle EXCEPT ![p][<<"mpi", dups[p]>>] = "live"]
  /\ pc' = [pc EXCEPT ![p] = "idle"]
  /\ \/ Return(p, "success") /\ device' = [device EXCEPT ![p] = LocalRank[p]]
     \/ p \in Faulty /\ Return(p, "error") /\ UNCHANGED device
  /\ UNCHANGED <<build, mpi, dangling, target, asked, made, dups, joined,
                 aborted>>

\* Defect: a communicator that is in a clique may join another.
MayJoinAgain(c) == TRUE
MayJoin(c) == Allocated(c, 0).intra = Null

\* CommInitRank::Execute, up to the call of the library, which waits for the
\* other ranks.  The caller uses an id once in a process.
BeginCommInitRank(p, c, k) ==
  /\ Begin(p, [op |-> "CommInitRank", comm |-> c, clique |-> k])
  /\ Supported("CommInitRank") /\ p \notin joined[k]
  /\ \/ /\ p \in Faulty /\ Return(p, "error")
        /\ UNCHANGED <<comm, pc, target, asked, joined>>
     \/ /\ comm' = [comm EXCEPT ![c] =
             [Allocated(c, 0) EXCEPT !.dev = device[p]]]
        /\ \/ /\ ~MayJoin(c)
              /\ Return(p, "invalid")
              /\ UNCHANGED <<pc, target, asked, joined>>
           \/ /\ MayJoin(c)
              /\ pc' = [pc EXCEPT ![p] = "clique"]
              /\ target' = [target EXCEPT ![p] = c]
              /\ asked' = [asked EXCEPT ![p] = k]
              /\ joined' = [joined EXCEPT ![k] = @ \cup {p}]
              /\ UNCHANGED result
  /\ UNCHANGED <<build, mpi, dangling, dups, handle, device, aborted>>

\* set_world_info and set_intra_comm.
WithIntra(p, c, k) ==
  [comm[c] EXCEPT !.rank = CliqueRank[k][p], !.size = CliqueSize[k],
                  !.intra = <<"ccl", k>>]

EndCommInitRank(p) ==
  LET k == asked[p]  c == target[p] IN
  /\ p \notin aborted /\ pc[p] = "clique"
  /\ Cardinality(joined[k]) = CliqueSize[k]
  /\ comm' = [comm EXCEPT ![c] = WithIntra(p, c, k)]
  /\ handle' = [handle EXCEPT ![p][<<"ccl", k>>] = "live"]
  /\ pc' = [pc EXCEPT ![p] = "idle"]
  /\ Return(p, "success")
  /\ UNCHANGED <<build, mpi, dangling, target, asked, made, dups, joined,
                 device, aborted>>

\* Defect: the world information is written before the library answers.
AfterCclErrorEarly(p, c) ==
  [comm[c] EXCEPT !.rank = CliqueRank[asked[p]][p],
                  !.size = CliqueSize[asked[p]]]

\* The communicator after the library has returned an error.
AfterCclError(p, c) == comm[c]

FailCommInitRank(p) ==
  /\ p \notin aborted /\ pc[p] = "clique" /\ p \in Faulty
  /\ comm' = [comm EXCEPT ![target[p]] = AfterCclError(p, target[p])]
  /\ pc' = [pc EXCEPT ![p] = "idle"]
  /\ Return(p, "error")
  /\ UNCHANGED <<build, mpi, dangling, target, asked, made, dups, joined,
                 handle, device, aborted>>

\* Defect: the slot the backend does not know is not released.
DestroyedBestOnly(c) == {comm[c].intra} \ {Null}

\* The handles CommDestroy releases: those of the best backend in Apply, the
\* others in the destructor.
Destroyed(c) == Slots(c)

\* MPI_Comm_free needs MPI; the handle of the best backend is released first.
\* Success is reported whatever the release of a vendor's handle returned.
CommDestroy(p, c) ==
  /\ Begin(p, [op |-> "CommDestroy", comm |-> c])
  /\ \/ /\ comm[c] = Null
        /\ Return(p, "invalid")
        /\ UNCHANGED <<comm, dangling, handle, aborted>>
     \/ /\ comm[c] # Null /\ (comm[c].inter = Null \/ mpi[p] = "up")
        /\ \E lost \in MayLose(p, Destroyed(c)) :
             handle' = [handle EXCEPT ![p] = Release(Destroyed(c), lost, @)]
        /\ comm' = [comm EXCEPT ![c] = Null]
        /\ dangling' = dangling \cup {c}
        /\ Return(p, "success")
        /\ UNCHANGED aborted
     \/ /\ comm[c] # Null /\ comm[c].inter # Null /\ mpi[p] # "up"
        /\ \E gone \in {IF BestIsCcl THEN {comm[c].intra} \ {Null} ELSE {}} :
             \E lost \in MayLose(p, gone) :
               handle' = [handle EXCEPT ![p] = Release(gone, lost, @)]
        /\ comm' = [comm EXCEPT ![c].intra = IF BestIsCcl THEN Null ELSE @]
        /\ Abort(p)
        /\ UNCHANGED dangling
  /\ UNCHANGED <<build, mpi, pc, target, asked, dups, joined, device>>

\* The caller clears a variable it has destroyed, to use it again.
ResetVariable(p, c) ==
  /\ p \notin aborted /\ pc[p] = "idle"
  /\ c \in dangling /\ CommHome[c] = p
  /\ dangling' = dangling \ {c}
  /\ UNCHANGED <<build, mpi, comm, pc, target, asked, made, result, dups,
                 joined, handle, device, aborted>>

BeginFinalize(p) ==
  /\ Begin(p, [op |-> "Finalize"]) /\ Supported("Finalize")
  /\ \/ mpi[p] = "none" /\ Abort(p) /\ UNCHANGED pc
     \/ mpi[p] = "up" /\ pc' = [pc EXCEPT ![p] = "finalize"]
                      /\ UNCHANGED <<result, aborted>>
     \/ mpi[p] = "down" /\ Return(p, "success") /\ UNCHANGED <<pc, aborted>>
  /\ UNCHANGED <<build, mpi, comm, dangling, target, asked, dups, joined,
                 handle, device>>

\* MPI_Finalize returns once all processes call it.
EndFinalize(p) ==
  /\ p \notin aborted /\ pc[p] = "finalize"
  /\ \A q \in Processes : pc[q] = "finalize" \/ mpi[q] = "down"
  /\ mpi' = [mpi EXCEPT ![p] = "down"]
  /\ pc' = [pc EXCEPT ![p] = "idle"]
  /\ Return(p, "success")
  /\ UNCHANGED <<build, comm, dangling, target, asked, made, dups, joined,
                 handle, device, aborted>>

-----------------------------------------------------------------------------
Step(p) ==
  \/ InitMpi(p) \/ GetRank(p) \/ BeginFinalize(p) \/ EndFinalize(p)
  \/ EndCommInitAll(p) \/ EndCommInitRank(p)
  \/ \E c \in Comms : BeginCommInitAll(p, c) \/ CommDestroy(p, c)
  \/ \E c \in Comms, k \in Cliques : BeginCommInitRank(p, c, k)

Next == \E p \in Processes :
          \/ Step(p) \/ Refuse(p) \/ FailCommInitRank(p)
          \/ \E c \in Comms : ResetVariable(p, c)

Spec == Init /\ [][Next]_vars

\* A process goes on with its program, and MPI and the libraries finish a
\* collective call that all its processes have joined.
FairSpec == Spec /\ \A p \in Processes : WF_vars(Step(p))

-----------------------------------------------------------------------------
\* The variables have their types.
TypeOK ==
  /\ build \in Builds
  /\ mpi \in [Processes -> {"none", "up", "down"}]
  /\ comm \in [Comms -> Communicator \cup {Null}]
  /\ dangling \subseteq Comms
  /\ pc \in [Processes -> {"idle", "dup", "clique", "finalize"}]
  /\ target \in [Processes -> Comms \cup {Null}]
  /\ asked \in [Processes -> Cliques \cup {Null}]
  /\ made \in [Processes -> 0 .. MaxCalls]
  /\ result \in [Processes ->
                   {"none", "success", "invalid", "error", "unsupported"}]
  /\ dups \in [Processes -> 0 .. MaxCalls]
  /\ joined \in [Cliques -> SUBSET Processes]
  /\ handle \in [Processes ->
                   [Handles -> {"none", "live", "freed", "lost", "twice"}]]
  /\ device \in [Processes -> Nat]
  /\ aborted \subseteq Processes

\* Each MPI or library handle that a process holds is in a slot of one of its
\* communicators, in one slot only, and CommDestroy releases none twice,
\* whichever backend it goes to (comm_destroy.h 17-32) and whatever failed
\* before, for callers that use no variable they have destroyed.  A handle is
\* in no slot and not released only where the vendor's CommDestroy failed
\* (comm_instance.h 20), and MPI has no such case.
HandlesOwned ==
  /\ \A p \in Processes, h \in Handles :
       /\ handle[p][h] # "twice"
       /\ handle[p][h] = "lost" => h[1] = "ccl" /\ p \in Faulty
       /\ handle[p][h] = "live" <=>
            \E c \in Comms : CommHome[c] = p /\ h \in Slots(c)
  /\ \A c, d \in Comms :
       c # d /\ CommHome[c] = CommHome[d] => Slots(c) \cap Slots(d) = {}

\* The rank and size of the communicator m at p are those of its clique, those
\* of the process in MPI, or unset.
RightWorld(p, m) ==
  \/ m.inter = Null /\ m.intra = Null /\ m.rank = -1 /\ m.size = 0
  \/ m.inter # Null /\ m.rank = p /\ m.size = N
  \/ /\ m.intra # Null
     /\ m.rank = CliqueRank[m.intra[2]][p] /\ m.size = CliqueSize[m.intra[2]]

\* The rank and size of a communicator are those of one of its slots, and of
\* no clique that was asked for in vain: with inter_comm alone they are the
\* rank and size of the process in MPI.
WorldOfSlot ==
  \A c \in Comms :
    comm[c] # Null /\ CommHome[c] \notin aborted
      => RightWorld(CommHome[c], comm[c])

\* A filled slot is not filled again: a second CommInitAll or CommInitRank on
\* a communicator leaves the instance it has in place.
SlotsKept ==
  [][\A c \in Comms : comm[c] # Null /\ comm'[c] # Null =>
       /\ comm[c].inter # Null => comm'[c].inter = comm[c].inter
       /\ comm[c].intra # Null =>
            comm'[c].intra \in {comm[c].intra, Null}]_vars

\* A program that makes its calls in the order of the examples gets success
\* from every call and ends with MPI down and every handle released.
EndsClean ==
  \A p \in Processes :
    /\ [](result[p] \in {"none", "success"})
    /\ <>[](/\ made[p] = MaxCalls /\ pc[p] = "idle" /\ mpi[p] = "down"
            /\ result[p] = "success"
            /\ \A h \in Handles : handle[p][h] \in {"none", "freed"})
=============================================================================
