------------------------------ MODULE Dispatch ------------------------------
(***************************************************************************)
(* Which backend and which device an operation goes to.  A build is a set  *)
(* of devices and a set of backends.  scripts/gen_bridge.py includes the   *)
(* headers of what the build contains, the headers enable backends and     *)
(* devices, and Operation::Call takes the best of each, by templates that  *)
(* filter, compare and match lists.  A filtered list keeps the order of    *)
(* the list it comes from and has no duplicates: here it is the set of its *)
(* values, given together with that list where the order counts.           *)
(***************************************************************************)
EXTENDS Naturals, Sequences, FiniteSets, SequencesExt

AllBackendTypes ==
  <<"Ompi", "Gloo", "Nccl", "Mccl", "Rccl", "Cncl", "Hccl">>

AllDeviceTypes ==
  <<"Cpu", "Nvidia", "Cambricon", "Ascend", "Metax", "Moore", "Iluvatar",
    "Kunlun", "Hygon", "Thead", "Qy">>

BackendType == ToSet(AllBackendTypes)
DeviceType == ToSet(AllDeviceTypes)
CclBackends == {"Nccl", "Mccl", "Cncl", "Hccl"}

\* Defect: OpenMPI, which is in most builds, is preferred.
OmpiFirst == [b \in BackendType |-> IF b = "Ompi" THEN 20 ELSE 10]

BackendPriority ==
  [b \in BackendType |-> IF b = "Ompi" THEN 1
                         ELSE IF b \in CclBackends THEN 10 ELSE 0]

DevicePriority ==
  [d \in DeviceType |-> IF d = "Cpu" THEN 1
                        ELSE IF d \in {"Kunlun", "Qy"} THEN 0 ELSE 5]

\* Defect: the table says which backends are known, not where they run.
KnownCombination(b, d) == b \in CclBackends \cup {"Ompi"}

IsSupportedCombination(b, d) ==
  CASE b = "Ompi" -> TRUE
    [] b = "Nccl" -> d \in {"Nvidia", "Thead", "Iluvatar", "Hygon"}
    [] b = "Mccl" -> d \in {"Metax", "Moore"}
    [] b = "Cncl" -> d = "Cambricon"
    [] b = "Hccl" -> d = "Ascend"
    [] OTHER -> FALSE

-----------------------------------------------------------------------------
\* The operations with a header below backends/*/<backend>/impl.
OmpiOperations ==
  {"Init", "Finalize", "GetRank", "GetSize", "CommInitAll", "CommDestroy",
   "AllGather", "AllReduce", "AllToAll", "Bcast", "Broadcast", "Gather",
   "Recv", "Reduce", "ReduceScatter", "Scatter", "Send"}

CclOperations(b) ==
  {"GetUniqueId", "CommInitRank", "CommDestroy", "AllGather", "AllReduce",
   "Recv", "Send"} \cup (IF b = "Cncl" THEN {} ELSE {"ReduceScatter"})

Operations == OmpiOperations \cup CclOperations("Nccl")

\* A header of an implementation enables its backend for its operation.
BackendEnabled(op, b) ==
  \/ b = "Ompi" /\ op \in OmpiOperations
  \/ b \in CclBackends /\ op \in CclOperations(b)

-----------------------------------------------------------------------------
\* The values of a list that a functor takes (is invocable with).
Filter(list, invocable) == ToSet(list) \cap invocable

Precedes(list, v, w) ==
  \E i, j \in DOMAIN list : i < j /\ list[i] = v /\ list[j] = w

\* The first of the values with the highest priority.
ListGetBest(priority, list, values) ==
  CHOOSE best \in values : \A v \in values \ {best} :
    \/ priority[best] > priority[v]
    \/ priority[best] = priority[v] /\ Precedes(list, best, v)

ActiveBackends(op, build) ==
  Filter(AllBackendTypes, {b \in build.backends : BackendEnabled(op, b)})

ActiveDevices(build) == Filter(AllDeviceTypes, build.devices)

Aborted == <<"std::abort">>

\* The functor is called for the value that matches; without a match, or
\* without a list, nothing is handled.
Match(value, values) == value \in values

\* One dimension after the other: the functor gets the resolved values, and
\* the first dimension that is not handled aborts.
DispatchFunc(values, lists) ==
  IF \A i \in DOMAIN lists : Match(values[i], lists[i]) THEN values
  ELSE Aborted

NotSupported == <<"kNotSupported">>

\* Operation::Call(backend, device): the pair Execute runs for.
CallWith(op, b, d, build) ==
  LET pair == DispatchFunc(<<b, d>>, <<ActiveBackends(op, build),
                                       ActiveDevices(build)>>)
  IN  IF pair = Aborted THEN Aborted
      ELSE IF IsSupportedCombination(pair[1], pair[2]) THEN pair
      ELSE NotSupported

\* A public function: an operation no backend of the build has is not
\* compiled, the others go to the best backend and the best device.
Call(op, build) ==
  IF ActiveBackends(op, build) = {} THEN NotSupported
  ELSE CallWith(op,
                ListGetBest(BackendPriority, AllBackendTypes,
                            ActiveBackends(op, build)),
                ListGetBest(DevicePriority, AllDeviceTypes,
                            ActiveDevices(build)), build)

\* The order of the devices in EnabledDevices, which programs choose from.
BuildOrder == <<"Cpu", "Nvidia", "Thead", "Iluvatar", "Metax", "Moore",
                "Cambricon", "Ascend", "Hygon">>

EnabledDevices(build) == Filter(BuildOrder, build.devices)

-----------------------------------------------------------------------------
\* CMake refuses a CCL backend without one of its devices, and a build has a
\* backend.  The CPU is always there.
IsBuild(build) ==
  /\ "Cpu" \in build.devices /\ build.devices \subseteq ToSet(BuildOrder)
  /\ build.backends # {} /\ build.backends \subseteq CclBackends \cup {"Ompi"}
  /\ \A b \in build.backends :
       \E d \in build.devices : IsSupportedCombination(b, d)

OneAccelerator(build) == Cardinality(build.devices \ {"Cpu"}) <= 1
=============================================================================
