----------------------- MODULE ExamplePrograms_proofs -----------------------
(***************************************************************************)
(* The examples are right on every build, for any numbers of ranks, of     *)
(* calls to warm up and of measured calls.                                 *)
(***************************************************************************)
EXTENDS ExamplePrograms, FiniteSetTheorems, WellFoundedInduction, TLAPS

\* Sets of numbers have a least element.
LEMMA LeastElement ==
  ASSUME NEW S \in SUBSET Nat, S # {}
  PROVE  \E n \in S : \A m \in S : n <= m
<1> DEFINE R == OpToRel(<, Nat)
<1>1. IsWellFoundedOn(R, Nat)
  BY NatLessThanWellFounded
<1> HIDE DEF R
<1>2. PICK n \in S : \A m \in S : ~(<<m, n>> \in R)
  BY <1>1, WFMin
<1>3. \A m \in S : ~(m < n)
  BY <1>2 DEF R, OpToRel
<1> QED
  BY <1>2, <1>3

-----------------------------------------------------------------------------
\* Dispatch.

\* best is the first of the values with the highest priority.
IsBest(best, priority, list, values) ==
  /\ best \in values
  /\ \A v \in values \ {best} :
       \/ priority[best] > priority[v]
       \/ priority[best] = priority[v] /\ Precedes(list, best, v)

\* A list has a best value.
LEMMA BestOfList ==
  ASSUME NEW list, DOMAIN list \in SUBSET Nat, NEW values \in SUBSET ToSet(list),
         values # {}, NEW priority, \A v \in values : priority[v] \in 0 .. 20
  PROVE  IsBest(ListGetBest(priority, list, values), priority, list, values)
<1> DEFINE Behind == {20 - priority[v] : v \in values}
<1>1. Behind \in SUBSET Nat /\ Behind # {}
  OBVIOUS
<1>2. PICK p \in Behind : \A q \in Behind : p <= q
  BY <1>1, LeastElement
<1> DEFINE At == {i \in DOMAIN list : list[i] \in values /\ 20 - priority[list[i]] = p}
<1>3. At \in SUBSET Nat /\ At # {}
  <2>1. PICK v \in values : p = 20 - priority[v]
    BY <1>2
  <2>2. PICK i \in DOMAIN list : list[i] = v
    BY DEF ToSet
  <2> QED
    BY <2>1, <2>2
<1>4. PICK i \in At : \A j \in At : i <= j
  BY <1>3, LeastElement
<1>5. ASSUME NEW v \in values \ {list[i]}
      PROVE  \/ priority[list[i]] > priority[v]
             \/ priority[list[i]] = priority[v] /\ Precedes(list, list[i], v)
  <2>1. PICK j \in DOMAIN list : list[j] = v
    BY DEF ToSet
  <2>2. /\ i \in DOMAIN list /\ list[i] \in values /\ 20 - priority[list[i]] = p
        /\ i \in Nat /\ j \in Nat /\ priority[v] \in 0 .. 20 /\ priority[list[i]] \in 0 .. 20
    BY <2>1
  <2>3. p <= 20 - priority[v]
    BY <1>2
  <2>4. CASE priority[v] = priority[list[i]]
    <3>1. j \in At
      BY <2>1, <2>2, <2>4
    <3>2. i <= j /\ i # j
      BY <1>4, <2>1, <3>1
    <3>3. i < j
      BY <2>2, <3>2
    <3> QED
      BY <2>1, <2>2, <2>4, <3>3 DEF Precedes
  <2> QED
    BY <2>2, <2>3, <2>4
<1>6. list[i] \in values
  OBVIOUS
<1> QED
  BY <1>5, <1>6 DEF ListGetBest, IsBest

LEMMA Lists ==
  /\ DOMAIN AllBackendTypes \in SUBSET Nat
  /\ DOMAIN AllDeviceTypes \in SUBSET Nat
  /\ DOMAIN BuildOrder \in SUBSET Nat
  /\ BackendType = {"Ompi", "Gloo", "Nccl", "Mccl", "Rccl", "Cncl", "Hccl"}
  /\ DeviceType = {"Cpu", "Nvidia", "Cambricon", "Ascend", "Metax", "Moore",
                   "Iluvatar", "Kunlun", "Hygon", "Thead", "Qy"}
  /\ ToSet(BuildOrder) = {"Cpu", "Nvidia", "Thead", "Iluvatar", "Metax",
                          "Moore", "Cambricon", "Ascend", "Hygon"}
<1>1. /\ DOMAIN AllBackendTypes = 1 .. 7 /\ DOMAIN AllDeviceTypes = 1 .. 11
      /\ DOMAIN BuildOrder = 1 .. 9
  BY DEF AllBackendTypes, AllDeviceTypes, BuildOrder
<1>2. BackendType = {AllBackendTypes[i] : i \in {1, 2, 3, 4, 5, 6, 7}}
  <2>1. 1 .. 7 = {1, 2, 3, 4, 5, 6, 7}
    OBVIOUS
  <2> QED
    BY <1>1, <2>1 DEF BackendType, ToSet
<1>3. DeviceType = {AllDeviceTypes[i] : i \in {1, 2, 3, 4, 5, 6, 7, 8, 9, 10, 11}}
  <2>1. 1 .. 11 = {1, 2, 3, 4, 5, 6, 7, 8, 9, 10, 11}
    OBVIOUS
  <2> QED
    BY <1>1, <2>1 DEF DeviceType, ToSet
<1>4. ToSet(BuildOrder) = {BuildOrder[i] : i \in {1, 2, 3, 4, 5, 6, 7, 8, 9}}
  <2>1. 1 .. 9 = {1, 2, 3, 4, 5, 6, 7, 8, 9}
    OBVIOUS
  <2> QED
    BY <1>1, <2>1 DEF ToSet
<1> QED
  BY <1>1, <1>2, <1>3, <1>4 DEF AllBackendTypes, AllDeviceTypes, BuildOrder

LEMMA Priorities ==
  /\ \A b \in BackendType : BackendPriority[b] \in 0 .. 20
  /\ \A d \in DeviceType : DevicePriority[d] \in 0 .. 20
  /\ BackendPriority["Ompi"] = 1
  /\ \A b \in CclBackends : BackendPriority[b] = 10
  /\ DevicePriority["Cpu"] = 1
  /\ \A d \in ToSet(BuildOrder) \ {"Cpu"} : DevicePriority[d] = 5
BY Lists DEF BackendPriority, DevicePriority, CclBackends

\* The device the library and the device the program choose.
BestDevice(b) == ListGetBest(DevicePriority, AllDeviceTypes, ActiveDevices(b))
ProgramDevice(b) == ListGetBest(DevicePriority, BuildOrder, EnabledDevices(b))
BestBackend(op, b) ==
  ListGetBest(BackendPriority, AllBackendTypes, ActiveBackends(op, b))

LEMMA DevicesOf ==
  ASSUME NEW b, IsBuild(b)
  PROVE  /\ ActiveDevices(b) = b.devices /\ EnabledDevices(b) = b.devices
         /\ BestDevice(b) \in b.devices /\ ProgramDevice(b) \in b.devices
         /\ BestDevice(b) = "Cpu" => b.devices = {"Cpu"}
         /\ ProgramDevice(b) = "Cpu" => b.devices = {"Cpu"}
<1>1. /\ b.devices \subseteq ToSet(BuildOrder) /\ b.devices \subseteq DeviceType
      /\ b.devices # {}
  BY Lists DEF IsBuild
<1>2. ActiveDevices(b) = b.devices /\ EnabledDevices(b) = b.devices
  BY <1>1 DEF ActiveDevices, EnabledDevices, Filter, DeviceType
<1>3. \A v \in b.devices : DevicePriority[v] \in 0 .. 20
  BY <1>1, Priorities
<1>4. /\ BestDevice(b) \in b.devices
      /\ \A v \in b.devices \ {BestDevice(b)} :
           DevicePriority[BestDevice(b)] >= DevicePriority[v]
  <2>1. b.devices \in SUBSET ToSet(AllDeviceTypes)
    BY <1>1 DEF DeviceType
  <2> QED
    <3>1. IsBest(BestDevice(b), DevicePriority, AllDeviceTypes, b.devices)
      BY <1>1, <1>2, <1>3, <2>1, Lists, BestOfList DEF BestDevice
    <3> QED
      BY <1>1, <1>3, <3>1 DEF IsBest
<1>5. /\ ProgramDevice(b) \in b.devices
      /\ \A v \in b.devices \ {ProgramDevice(b)} :
           DevicePriority[ProgramDevice(b)] >= DevicePriority[v]
  <2>1. IsBest(ProgramDevice(b), DevicePriority, BuildOrder, b.devices)
    BY <1>1, <1>2, <1>3, Lists, BestOfList DEF ProgramDevice
  <2> QED
    BY <1>1, <1>3, <2>1 DEF IsBest
<1>6. ASSUME NEW best \in b.devices, best = "Cpu",
             \A v \in b.devices \ {best} : DevicePriority[best] >= DevicePriority[v]
      PROVE  b.devices = {"Cpu"}
  BY <1>1, <1>6, Priorities
<1> QED
  BY <1>2, <1>4, <1>5, <1>6

LEMMA BackendsOf ==
  ASSUME NEW b, IsBuild(b), NEW op
  PROVE  /\ ActiveBackends(op, b) = {x \in b.backends : BackendEnabled(op, x)}
         /\ ActiveBackends(op, b) # {} =>
              /\ BestBackend(op, b) \in ActiveBackends(op, b)
              /\ \A x \in ActiveBackends(op, b) :
                   BackendPriority[BestBackend(op, b)] >= BackendPriority[x]
<1>1. b.backends \subseteq BackendType
  BY Lists DEF IsBuild, CclBackends
<1>2. ActiveBackends(op, b) = {x \in b.backends : BackendEnabled(op, x)}
  BY <1>1 DEF ActiveBackends, Filter, BackendType
<1>3. ASSUME ActiveBackends(op, b) # {}
      PROVE  /\ BestBackend(op, b) \in ActiveBackends(op, b)
             /\ \A x \in ActiveBackends(op, b) \ {BestBackend(op, b)} :
                  BackendPriority[BestBackend(op, b)] >= BackendPriority[x]
  <2>1. \A v \in ActiveBackends(op, b) : BackendPriority[v] \in 0 .. 20
    BY <1>1, <1>2, Priorities
  <2>2. ActiveBackends(op, b) \in SUBSET ToSet(AllBackendTypes)
    BY <1>1, <1>2 DEF BackendType
  <2> QED
    <3>1. IsBest(BestBackend(op, b), BackendPriority, AllBackendTypes, ActiveBackends(op, b))
      BY <1>3, <2>1, <2>2, Lists, BestOfList DEF BestBackend
    <3> QED
      BY <2>1, <3>1 DEF IsBest
<1>4. ASSUME ActiveBackends(op, b) # {}
      PROVE  BackendPriority[BestBackend(op, b)] \in Nat
  BY <1>1, <1>2, <1>3, <1>4, Priorities
<1> QED
  BY <1>2, <1>3, <1>4

\* A public function runs for the best backend that has the operation, if that
\* one runs on the best device.
LEMMA CallIs ==
  ASSUME NEW b, IsBuild(b), NEW op
  PROVE  Call(op, b) = IF /\ ActiveBackends(op, b) # {}
                          /\ IsSupportedCombination(BestBackend(op, b), BestDevice(b))
                       THEN <<BestBackend(op, b), BestDevice(b)>>
                       ELSE NotSupported
<1>1. CASE ActiveBackends(op, b) = {}
  BY <1>1 DEF Call
<1>2. CASE ActiveBackends(op, b) # {}
  <2> DEFINE pair == <<BestBackend(op, b), BestDevice(b)>>
             lists == <<ActiveBackends(op, b), ActiveDevices(b)>>
  <2>1. BestBackend(op, b) \in ActiveBackends(op, b) /\ BestDevice(b) \in ActiveDevices(b)
    BY <1>2, BackendsOf, DevicesOf
  <2>2. \A i \in DOMAIN lists : Match(pair[i], lists[i])
    BY <2>1 DEF Match
  <2>3. DispatchFunc(pair, lists) = pair
    BY <2>2 DEF DispatchFunc
  <2>4. pair # Aborted
    <3>1. 2 \in DOMAIN pair /\ 2 \notin DOMAIN Aborted
      BY DEF Aborted
    <3> QED
      BY <3>1
  <2>5. pair[1] = BestBackend(op, b) /\ pair[2] = BestDevice(b)
    OBVIOUS
  <2> HIDE DEF pair
  <2>6. CallWith(op, BestBackend(op, b), BestDevice(b), b) =
          IF IsSupportedCombination(pair[1], pair[2]) THEN pair ELSE NotSupported
    BY <2>3, <2>4 DEF CallWith, pair
  <2>7. Call(op, b) = CallWith(op, BestBackend(op, b), BestDevice(b), b)
    BY <1>2 DEF Call, BestBackend, BestDevice
  <2> QED
    BY <1>2, <2>5, <2>6, <2>7 DEF pair
<1> QED
  BY <1>1, <1>2

\* The routes of a build: its backends that run on its best device.
Routes(b) ==
  {<<x, BestDevice(b)>> :
     x \in {y \in b.backends : IsSupportedCombination(y, BestDevice(b))}}

LEMMA RoutesOf ==
  ASSUME NEW b, IsBuild(b), NEW x \in Routes(b)
  PROVE  /\ x = <<x[1], x[2]>>
         /\ x[1] \in b.backends /\ x[1] \in CclBackends \cup {"Ompi"}
         /\ x[2] = BestDevice(b) /\ IsSupportedCombination(x[1], x[2])
         /\ x \in BackendType \X DeviceType
<1>1. PICK y \in b.backends :
        x = <<y, BestDevice(b)>> /\ IsSupportedCombination(y, BestDevice(b))
  BY DEF Routes
<1>2. y \in CclBackends \cup {"Ompi"} /\ BestDevice(b) \in DeviceType
  BY DevicesOf, Lists DEF IsBuild
<1>3. y \in BackendType
  BY <1>2, Lists DEF CclBackends
<1> QED
  BY <1>1, <1>2, <1>3

\* An operation that the build has takes a route of the build, on a backend
\* that has the operation.
LEMMA CallRoutes ==
  ASSUME NEW b, IsBuild(b), NEW op, Call(op, b) # NotSupported
  PROVE  /\ Call(op, b) \in Routes(b)
         /\ BackendEnabled(op, Call(op, b)[1])
<1>1. /\ ActiveBackends(op, b) # {}
      /\ IsSupportedCombination(BestBackend(op, b), BestDevice(b))
      /\ Call(op, b) = <<BestBackend(op, b), BestDevice(b)>>
  BY CallIs
<1>2. BestBackend(op, b) \in b.backends /\ BackendEnabled(op, BestBackend(op, b))
  BY <1>1, BackendsOf
<1> QED
  BY <1>1, <1>2 DEF Routes

LEMMA RouteIsNoFailure ==
  ASSUME NEW b, IsBuild(b), NEW x \in Routes(b)
  PROVE  x \notin {Aborted, NotSupported, <<>>}
<1>1. PICK y : x = <<y, BestDevice(b)>>
  BY DEF Routes
<1>2. 2 \in DOMAIN x
  BY <1>1
<1>3. 2 \notin DOMAIN Aborted /\ 2 \notin DOMAIN NotSupported /\ 2 \notin DOMAIN <<>>
  BY DEF Aborted, NotSupported
<1> QED
  BY <1>2, <1>3

\* A device has one CCL backend: two routes to the same slot are one.
LEMMA OneRoute ==
  ASSUME NEW b, IsBuild(b), NEW x \in Routes(b), NEW y \in Routes(b), Slot(x) = Slot(y)
  PROVE  x = y
<1>1. /\ x = <<x[1], x[2]>> /\ y = <<y[1], y[2]>> /\ x[2] = y[2]
      /\ x[1] \in CclBackends \cup {"Ompi"} /\ y[1] \in CclBackends \cup {"Ompi"}
      /\ IsSupportedCombination(x[1], x[2]) /\ IsSupportedCombination(y[1], y[2])
  BY RoutesOf
<1>2. x[1] = "Ompi" <=> y[1] = "Ompi"
  BY DEF Slot
<1>3. CASE x[1] = "Ompi"
  BY <1>1, <1>2, <1>3
<1>4. CASE x[1] # "Ompi"
  <2> DEFINE d == x[2]
             p == x[1]
             q == y[1]
  <2>1. p \in {"Nccl", "Mccl", "Cncl", "Hccl"} /\ q \in {"Nccl", "Mccl", "Cncl", "Hccl"}
    BY <1>1, <1>2, <1>4 DEF CclBackends
  <2>2. IsSupportedCombination(p, d) /\ IsSupportedCombination(q, d)
    BY <1>1
  <2> HIDE DEF d, p, q
  <2>3. p = q
    BY <2>1, <2>2 DEF IsSupportedCombination
  <2> QED
    BY <1>1, <2>3 DEF p, q
<1> QED
  BY <1>3, <1>4

\* Only OpenMPI makes a communicator by CommInitAll and has Broadcast, only a
\* CCL backend makes one by CommInitRank.
LEMMA SlotsOfCalls ==
  ASSUME NEW b, IsBuild(b), NEW op, Call(op, b) # NotSupported
  PROVE  /\ op \in OmpiOperations \ CclOperations("Nccl") => Slot(Call(op, b)) = "inter"
         /\ op \notin OmpiOperations => Slot(Call(op, b)) = "intra"
BY CallRoutes DEF BackendEnabled, CclOperations, CclBackends, Slot

-----------------------------------------------------------------------------
\* With one kind of accelerator at most, the library and the program choose
\* the same device, and all CCL backends of the build run on it.
LEMMA OneDevice ==
  ASSUME NEW b, IsBuild(b), OneAccelerator(b)
  PROVE  /\ ProgramDevice(b) = BestDevice(b)
         /\ \A x \in b.backends : IsSupportedCombination(x, BestDevice(b))
<1> DEFINE A == b.devices \ {"Cpu"}
<1>1. IsFiniteSet(b.devices)
  <2>1. BuildOrder \in Surjection(1 .. 9, ToSet(BuildOrder))
    <3>1. DOMAIN BuildOrder = 1 .. 9 /\ BuildOrder = [i \in 1 .. 9 |-> BuildOrder[i]]
      BY DEF BuildOrder
    <3>2. ToSet(BuildOrder) = {BuildOrder[i] : i \in 1 .. 9}
      BY <3>1 DEF ToSet
    <3>3. BuildOrder \in [1 .. 9 -> ToSet(BuildOrder)]
      BY <3>1, <3>2
    <3> QED
      BY <3>2, <3>3 DEF Surjection
  <2>2. IsFiniteSet(1 .. 9)
    <3>1. \A m, n \in Int : IsFiniteSet(m .. n)
      BY FS_Interval
    <3>2. 1 \in Int /\ 9 \in Int
      OBVIOUS
    <3> QED
      BY <3>1, <3>2, Zenon
  <2> QED
    BY <2>1, <2>2, FS_Surjection, FS_Subset DEF IsBuild
<1>2. \A d, e \in A : d = e
  <2>1. IsFiniteSet(A) /\ Cardinality(A) <= 1
    BY <1>1, FS_Subset DEF OneAccelerator
  <2>2. Cardinality(A) \in Nat
    BY <2>1, FS_CardinalityType
  <2>3. SUFFICES ASSUME NEW d \in A, NEW e \in A, d # e PROVE FALSE
    OBVIOUS
  <2>4. Cardinality({d, e}) <= Cardinality(A)
    BY <2>1, FS_Subset
  <2>5. Cardinality({d, e}) = 2
    <3>1. IsFiniteSet({d}) /\ Cardinality({d}) = 1
      BY FS_Singleton
    <3>2. {d} \cup {e} = {d, e} /\ e \notin {d}
      BY <2>3
    <3> QED
      BY <3>1, <3>2, FS_AddElement
  <2> QED
    BY <2>1, <2>2, <2>4, <2>5
<1>3. ProgramDevice(b) = BestDevice(b)
  <2>1. CASE b.devices = {"Cpu"}
    BY <2>1, DevicesOf
  <2>2. CASE b.devices # {"Cpu"}
    BY <2>2, <1>2, DevicesOf
  <2> QED
    BY <2>1, <2>2
<1>4. ASSUME NEW x \in b.backends
      PROVE  IsSupportedCombination(x, BestDevice(b))
  <2>1. PICK d \in b.devices : IsSupportedCombination(x, d)
    BY DEF IsBuild
  <2>2. CASE x = "Ompi"
    BY <2>2 DEF IsSupportedCombination
  <2>3. CASE x # "Ompi"
    <3>1. x \in {"Nccl", "Mccl", "Cncl", "Hccl"}
      BY <2>3 DEF IsBuild, CclBackends
    <3>2. d # "Cpu"
      BY <2>1, <3>1 DEF IsSupportedCombination
    <3>3. BestDevice(b) = d
      BY <1>2, <3>2, DevicesOf
    <3> QED
      BY <2>1, <3>3
  <2> QED
    BY <2>2, <2>3
<1> QED
  BY <1>3, <1>4

LEMMA CallSupported ==
  ASSUME NEW b, IsBuild(b), OneAccelerator(b), NEW op, NEW x \in b.backends, BackendEnabled(op, x)
  PROVE  /\ Call(op, b) = <<BestBackend(op, b), BestDevice(b)>>
         /\ BestBackend(op, b) \in b.backends /\ BackendEnabled(op, BestBackend(op, b))
         /\ BackendPriority[BestBackend(op, b)] >= BackendPriority[x]
         /\ Call(op, b) \in Routes(b)
<1>1. x \in ActiveBackends(op, b)
  BY BackendsOf
<1>2. /\ BestBackend(op, b) \in b.backends /\ BackendEnabled(op, BestBackend(op, b))
      /\ BackendPriority[BestBackend(op, b)] >= BackendPriority[x]
  BY <1>1, BackendsOf
<1>3. IsSupportedCombination(BestBackend(op, b), BestDevice(b))
  BY <1>2, OneDevice
<1>4. Call(op, b) = <<BestBackend(op, b), BestDevice(b)>>
  BY <1>1, <1>3, CallIs
<1> QED
  BY <1>2, <1>3, <1>4 DEF Routes

\* An operation of a CCL backend of the build goes to a CCL backend.
LEMMA CallIntra ==
  ASSUME NEW b, IsBuild(b), OneAccelerator(b), NEW op,
         NEW x \in b.backends \cap CclBackends, op \in CclOperations(x)
  PROVE  Call(op, b) \in Routes(b) /\ Slot(Call(op, b)) = "intra"
<1>1. /\ Call(op, b) = <<BestBackend(op, b), BestDevice(b)>>
      /\ BackendPriority[BestBackend(op, b)] >= BackendPriority[x]
      /\ Call(op, b) \in Routes(b)
  BY CallSupported DEF BackendEnabled
<1>2. BestBackend(op, b) # "Ompi"
  BY <1>1, Priorities
<1> QED
  BY <1>1, <1>2 DEF Slot

\* An operation that only OpenMPI has in the build goes to OpenMPI.
LEMMA CallInter ==
  ASSUME NEW b, IsBuild(b), OneAccelerator(b), "Ompi" \in b.backends,
         NEW op \in OmpiOperations,
         \A x \in b.backends \cap CclBackends : op \notin CclOperations(x)
  PROVE  Call(op, b) \in Routes(b) /\ Slot(Call(op, b)) = "inter"
<1>1. /\ Call(op, b) = <<BestBackend(op, b), BestDevice(b)>>
      /\ BestBackend(op, b) \in b.backends /\ BackendEnabled(op, BestBackend(op, b))
      /\ Call(op, b) \in Routes(b)
  BY CallSupported DEF BackendEnabled
<1>2. BestBackend(op, b) = "Ompi"
  BY <1>1 DEF BackendEnabled
<1> QED
  BY <1>1, <1>2 DEF Slot

-----------------------------------------------------------------------------
\* Programs are typed: what is known of a rank before a step, what the step
\* needs, and what is known after it.

Buf == {"send", "recv", "id"}
Content == {"none", "zero", "seed", "answer", "junk"}
Slots == {"inter", "intra"}
OmpiOnly == OmpiOperations \ CclOperations("Nccl")

\* What each buffer and the host may hold, the buffers that hold the answer
\* once the calls made so far have run, whether some of these may be still to
\* run when the rank goes on, MPI, and the slots that are filled.
Known == [has: [Buf -> SUBSET Content], host: SUBSET Content, writes: SUBSET Buf,
          busy: BOOLEAN, mpi: {"none", "up", "down"}, made: SUBSET Slots]

\* All calls have run.
Drain(a) ==
  [a EXCEPT !.has = [b \in Buf |-> IF b \in a.writes THEN {"answer"} ELSE a.has[b]],
            !.writes = {}, !.busy = FALSE]

\* The rank goes on.
Settled(a) == IF a.busy THEN a ELSE Drain(a)

\* b says no more than a.
Covers(b, a) ==
  /\ \A x \in Buf : a.has[x] \subseteq b.has[x]
  /\ a.host \subseteq b.host /\ b.writes \subseteq a.writes
  /\ a.busy => b.busy
  /\ b.mpi = a.mpi /\ b.made \subseteq a.made

\* The operations of a program that exchange data.
Exchanges(p) ==
  CASE p \in {"ccl/all_gather", "hybrid/all_gather", "mpi/all_gather"} -> {"AllGather"}
    [] p \in {"ccl/all_reduce", "hybrid/all_reduce", "mpi/all_reduce"} -> {"AllReduce"}
    [] p \in {"ccl/reduce_scatter", "mpi/reduce_scatter"} -> {"ReduceScatter"}
    [] p \in {"ccl/send_recv", "hybrid/send_recv", "mpi/send_recv"} -> {"Send", "Recv"}
    [] p = "mpi/all_to_all" -> {"AllToAll"}
    [] p = "mpi/broadcast" -> {"Broadcast", "Bcast"}
    [] p = "mpi/gather" -> {"Gather"}
    [] p = "mpi/reduce" -> {"Reduce"}
    [] p = "mpi/scatter" -> {"Scatter"}

MpiApis == {"Init", "GetRank", "GetSize", "CommInitAll", "Finalize"}
CclApis == {"GetUniqueId", "CommInitRank"}

\* What a rank must give to an exchange for the others to get their answer.
GivesRight(op, r, value) ==
  CASE op \in Joins \cup {"Recv"} -> TRUE
    [] op \in {"Broadcast", "Bcast"} -> r = 0 => value \in {"seed", "answer"}
    [] op = "Scatter" -> r = 0 => value = "seed"
    [] OTHER -> value = "seed"

\* The slot a step is meant to use.
MeantSlot(p, x) == IF p \in Mpi \/ x.from = "id" THEN "inter" ELSE "intra"

ApiNeeds(p, x, a) ==
  /\ x.op \in {"GetRank", "GetSize", "CommInitAll"} => a.mpi = "up"
  /\ x.op = "CommInitRank" => Settled(a).has["id"] \subseteq {"seed", "answer"}
  /\ x.op \in {"CommDestroy", "GetUniqueId"} => ~a.busy
  /\ x.op \in (IF p \in Threaded THEN {} ELSE MpiApis)
              \cup (IF p \in Mpi THEN {} ELSE CclApis) \cup {"CommDestroy"}

ExchangeNeeds(p, r, x, a) ==
  /\ x.from \in Buf /\ x.to \in Buf
  /\ IF x.from = "id" THEN x.op = "Broadcast" /\ p \in Hybrid
     ELSE /\ x.op \in Exchanges(p)
          /\ "none" \notin Settled(a).has[x.from] \cup Settled(a).has[x.to]
  /\ \A value \in Settled(a).has[x.from] : GivesRight(x.op, r, value)
  /\ MeantSlot(p, x) \in a.made

Needs(p, r, x, a) ==
  CASE x.do = "api" -> ApiNeeds(p, x, a)
    [] x.do = "exchange" -> ExchangeNeeds(p, r, x, a)
    [] x.do = "fill" -> x.op = "none" /\ x.to \in Buf /\ x.from \in Content \ {"none"}
    [] x.do = "copyOut" -> x.op = "none" /\ x.from \in Buf
    [] x.do = "validate" -> x.op = "none" /\ a.host \subseteq {"answer"}
    [] x.do = "free" -> x.op = "none" /\ x.from \in Buf /\ ~a.busy
    [] x.do \in {"sync", "SetDevice", "clear"} -> x.op = "none"
    [] OTHER -> FALSE

\* A buffer is filled or freed, or copied to the host, when all calls have run.
Filled(a, x, value) ==
  [Drain(a) EXCEPT !.has = [Drain(a).has EXCEPT ![x] = {value}]]
Copied(a, x) == [Drain(a) EXCEPT !.host = Drain(a).has[x]]

\* A communicator is destroyed, or a slot of it is about to be made.
Destroyed(a) == [Drain(a) EXCEPT !.made = {}]
Joined(a, slot) == [a EXCEPT !.made = @ \cup {slot}, !.busy = FALSE]

AfterApi(x, a) ==
  CASE x.op = "Init" -> [a EXCEPT !.mpi = "up"]
    [] x.op = "Finalize" -> [a EXCEPT !.mpi = "down"]
    [] x.op = "CommInitAll" -> Joined(a, "inter")
    [] x.op = "CommInitRank" -> Joined(a, "intra")
    [] x.op = "CommDestroy" -> Destroyed(a)
    [] x.op = "GetUniqueId" -> Filled(a, "id", "seed")
    [] OTHER -> a

AfterExchange(r, x, a) ==
  LET s == Settled(a)
  IN  [s EXCEPT
         !.has = IF Writes(x.op, r)
                 THEN [s.has EXCEPT ![x.to] = s.has[x.to] \cup {"answer"}] ELSE s.has,
         !.writes = IF Writes(x.op, r) THEN s.writes \cup {x.to} ELSE s.writes,
         !.busy = x.op \notin OmpiOnly]

After(r, x, a) ==
  CASE x.do = "api" -> AfterApi(x, a)
    [] x.do = "exchange" -> AfterExchange(r, x, a)
    [] x.do = "fill" -> Filled(a, x.to, x.from)
    [] x.do = "copyOut" -> Copied(a, x.from)
    [] x.do = "clear" -> [a EXCEPT !.host = {"zero"}]
    [] x.do = "free" -> Filled(a, x.from, "none")
    [] x.do \in {"sync", "SetDevice"} -> Drain(a)
    [] OTHER -> a

StepOK(p, r, x, a, b) ==
  /\ a \in Known /\ b \in Known
  /\ Needs(p, r, x, a) /\ Covers(b, After(r, x, a))

\* The steps s lead a rank from a to b.
Runs(p, r, s, a, b) ==
  \E f \in [0 .. Len(s) -> Known] :
    /\ f[0] = a /\ f[Len(s)] = b
    /\ \A i \in 1 .. Len(s) : StepOK(p, r, s[i], f[i - 1], f[i])

Pending(calls, k) == k + 1 .. Len(calls)
Newest(calls) == calls[Len(calls)]

\* The state of rank r is as a says: what its buffers, the host and MPI have,
\* its slots, the calls it has made and how many of them have run.
Agrees(r, held, copy, up, slots, calls, k, a) ==
  /\ \A x \in Buf : held[x] \in a.has[x]
  /\ copy \in a.host
  /\ up = a.mpi
  /\ \A x \in a.writes :
       \/ held[x] = "answer"
       \/ \E i \in Pending(calls, k) : Writes(calls[i].op, r) /\ calls[i].to = x
  /\ \A i \in Pending(calls, k) : Writes(calls[i].op, r) => "answer" \in a.has[calls[i].to]
  /\ ~a.busy => k = Len(calls) \/ Blocking(Newest(calls))
  /\ \A slot \in a.made :
       \/ slots[slot] # <<>>
       \/ k # Len(calls) /\ Newest(calls).op \in Joins /\ Slot(Newest(calls).route) = slot

\* The id is there once the threads are.
Held(r) ==
  IF exit = "spawn" THEN [buffer[r] EXCEPT !["id"] = "seed"] ELSE buffer[r]

Fits(r, a) ==
  Agrees(r, Held(r), host[r], mpi[r], comm[r], issued[r], done[r], a)

-----------------------------------------------------------------------------
\* The invariant.

Names == Buf \cup Content
Doings == {"api", "exchange", "fill", "sync", "SetDevice", "copyOut", "clear", "validate", "free"}

CompiledStep ==
  {x \in [do: Doings, op: Operations \cup {"none"}, from: Names, to: Names,
          route: {Call(op, build) : op \in Operations} \cup {<<>>},
          device: {ProgramDevice(build)}] :
     x.op \in Operations => x.route = Call(x.op, build)}

MadeCall ==
  {c \in [op: Operations \ LocalCalls, route: Routes(build), from: Names, to: Names,
          gives: Content] :
     c.op \notin Joins => c.from \in Buf /\ c.to \in Buf}

Shape ==
  /\ build \in Builds /\ IsBuild(build)
  /\ program \in Programs /\ program \in AllPrograms
  /\ size \in SizesOf(program) /\ size \in Nat \ {0}
  /\ todo \in [Ranks -> Seq(CompiledStep)]
  /\ comm \in [Ranks -> [inter: Routes(build) \cup {<<>>}, intra: Routes(build) \cup {<<>>}]]
  /\ mpi \in [Ranks -> {"none", "up", "down"}]
  /\ buffer \in [Ranks -> [Buf -> Content]]
  /\ host \in [Ranks -> Content]
  /\ issued \in [Ranks -> Seq(MadeCall)]
  /\ done \in [Ranks -> Nat]
  /\ exit \in {"spawn", "running", "success", "failure"}

\* A slot holds what a call for that slot has made, and so do the buffers and
\* slots that a call is still to use.
CallsInOrder(r) ==
  /\ done[r] <= Len(issued[r])
  /\ \A slot \in Slots : comm[r][slot] # <<>> => Slot(comm[r][slot]) = slot
  /\ \A k \in DOMAIN issued[r] :
       GivesRight(issued[r][k].op, r, issued[r][k].gives)
  /\ \A k \in Pending(issued[r], done[r]) : issued[r][k].op \notin Joins =>
       /\ comm[r][Slot(issued[r][k].route)] # <<>>
       /\ issued[r][k].from # "id" =>
            "none" \notin {buffer[r][issued[r][k].from], buffer[r][issued[r][k].to]}

\* What a rank has still to do fits its state.
Typed(r) ==
  \E a \in Known, b \in Known : Fits(r, a) /\ Runs(program, r, todo[r], a, b)

IInv ==
  /\ Shape
  /\ \A r \in Ranks : CallsInOrder(r)
  /\ wrong = {}
  /\ exit \in {"spawn", "running"} => \A r \in Ranks : Typed(r)

-----------------------------------------------------------------------------
\* Knowledge.

LEMMA KnownOf ==
  ASSUME NEW a \in Known
  PROVE  /\ a.has \in [Buf -> SUBSET Content] /\ a.host \in SUBSET Content
         /\ a.writes \in SUBSET Buf /\ a.busy \in BOOLEAN
         /\ a.mpi \in {"none", "up", "down"} /\ a.made \in SUBSET Slots
BY DEF Known

LEMMA DrainOf ==
  ASSUME NEW a \in Known
  PROVE  /\ Drain(a) \in Known
         /\ \A b \in Buf : Drain(a).has[b] = IF b \in a.writes THEN {"answer"} ELSE a.has[b]
         /\ Drain(a).writes = {} /\ Drain(a).busy = FALSE /\ Drain(a).host = a.host
         /\ Drain(a).mpi = a.mpi /\ Drain(a).made = a.made
BY DEF Drain, Known, Content

LEMMA SettledOf ==
  ASSUME NEW a \in Known
  PROVE  /\ Settled(a) \in Known /\ Settled(a).host = a.host
         /\ Settled(a).mpi = a.mpi /\ Settled(a).made = a.made
         /\ a.busy => Settled(a) = a
         /\ ~a.busy => Settled(a) = Drain(a)
BY DrainOf DEF Settled

\* Less may be said.
LEMMA AgreesLess ==
  ASSUME NEW r, NEW held, NEW copy, NEW up, NEW slots, NEW calls, NEW k,
         NEW a \in Known, NEW b \in Known,
         Agrees(r, held, copy, up, slots, calls, k, a), Covers(b, a),
         \A i \in Pending(calls, k) : Writes(calls[i].op, r) => calls[i].to \in Buf
  PROVE  Agrees(r, held, copy, up, slots, calls, k, b)
<1>1. \A x \in Buf : held[x] \in b.has[x]
  BY DEF Agrees, Covers
<1>2. copy \in b.host /\ up = b.mpi
  BY DEF Agrees, Covers
<1>3. \A x \in b.writes :
        \/ held[x] = "answer"
        \/ \E i \in Pending(calls, k) : Writes(calls[i].op, r) /\ calls[i].to = x
  BY DEF Agrees, Covers
<1>4. \A i \in Pending(calls, k) : Writes(calls[i].op, r) => "answer" \in b.has[calls[i].to]
  BY DEF Agrees, Covers
<1>5. ~b.busy => k = Len(calls) \/ Blocking(Newest(calls))
  BY DEF Agrees, Covers
<1>6. \A slot \in b.made :
        \/ slots[slot] # <<>>
        \/ k # Len(calls) /\ Newest(calls).op \in Joins /\ Slot(Newest(calls).route) = slot
  BY DEF Agrees, Covers
<1> QED
  BY <1>1, <1>2, <1>3, <1>4, <1>5, <1>6 DEF Agrees

\* Once all calls have run, the buffers they write hold the answer.
LEMMA AgreesDrained ==
  ASSUME NEW r, NEW held, NEW copy, NEW up, NEW slots, NEW calls, Len(calls) \in Nat,
         NEW a \in Known, Agrees(r, held, copy, up, slots, calls, Len(calls), a)
  PROVE  Agrees(r, held, copy, up, slots, calls, Len(calls), Drain(a))
<1>1. Pending(calls, Len(calls)) = {}
  BY DEF Pending
<1>2. \A x \in Buf : held[x] \in Drain(a).has[x]
  <2>1. \A x \in a.writes : held[x] = "answer"
    BY <1>1 DEF Agrees
  <2>2. \A x \in Buf : held[x] \in a.has[x]
    BY DEF Agrees
  <2>3. \A x \in Buf : Drain(a).has[x] = IF x \in a.writes THEN {"answer"} ELSE a.has[x]
    BY DrainOf
  <2> QED
    BY <2>1, <2>2, <2>3
<1> QED
  BY <1>1, <1>2, DrainOf DEF Agrees

\* A rank that goes on has no blocking call that is still to run.
LEMMA AgreesSettled ==
  ASSUME NEW r, NEW held, NEW copy, NEW up, NEW slots, NEW calls, Len(calls) \in Nat,
         NEW k, k # Len(calls) => ~Blocking(Newest(calls)),
         NEW a \in Known, Agrees(r, held, copy, up, slots, calls, k, a)
  PROVE  /\ Agrees(r, held, copy, up, slots, calls, k, Settled(a))
         /\ ~a.busy => k = Len(calls)
         /\ \A slot \in a.made : slots[slot] # <<>>
<1>1. ~a.busy => k = Len(calls)
  BY DEF Agrees
<1>2. Agrees(r, held, copy, up, slots, calls, k, Settled(a))
  BY <1>1, AgreesDrained DEF Settled
<1>3. \A slot \in a.made : slots[slot] # <<>>
  BY DEF Agrees, Blocking, Joins
<1> QED
  BY <1>1, <1>2, <1>3

-----------------------------------------------------------------------------
\* Programs.

LEMMA RunsNothing ==
  ASSUME NEW p, NEW r, NEW a \in Known
  PROVE  Runs(p, r, <<>>, a, a)
<1> DEFINE f == [i \in 0 .. 0 |-> a]
<1>1. f \in [0 .. 0 -> Known] /\ f[0] = a /\ \A i \in 1 .. 0 : StepOK(p, r, <<>>[i], f[i - 1], f[i])
  OBVIOUS
<1>2. Len(<<>>) = 0
  OBVIOUS
<1> QED
  BY <1>1, <1>2 DEF Runs

LEMMA RunsStep ==
  ASSUME NEW p, NEW r, NEW x, NEW a, NEW b, StepOK(p, r, x, a, b)
  PROVE  Runs(p, r, <<x>>, a, b)
<1> DEFINE f == [i \in 0 .. 1 |-> IF i = 0 THEN a ELSE b]
<1>1. f \in [0 .. 1 -> Known] /\ f[0] = a /\ f[1] = b
  BY DEF StepOK
<1>2. Len(<<x>>) = 1 /\ <<x>>[1] = x
  OBVIOUS
<1>3. \A i \in 1 .. 1 : StepOK(p, r, <<x>>[i], f[i - 1], f[i])
  <2>1. SUFFICES ASSUME NEW i \in 1 .. 1 PROVE StepOK(p, r, <<x>>[i], f[i - 1], f[i])
    OBVIOUS
  <2>2. i = 1 /\ i - 1 = 0
    OBVIOUS
  <2> HIDE DEF f
  <2> QED
    BY <1>1, <1>2, <2>2
<1> HIDE DEF f
<1> QED
  BY <1>1, <1>2, <1>3 DEF Runs

LEMMA RunsThen ==
  ASSUME NEW p, NEW r, NEW S, NEW s \in Seq(S), NEW t \in Seq(S), NEW a, NEW b, NEW c,
         Runs(p, r, s, a, b), Runs(p, r, t, b, c)
  PROVE  Runs(p, r, s \o t, a, c)
<1>1. PICK f \in [0 .. Len(s) -> Known] :
        /\ f[0] = a /\ f[Len(s)] = b
        /\ \A i \in 1 .. Len(s) : StepOK(p, r, s[i], f[i - 1], f[i])
  BY DEF Runs
<1>2. PICK g \in [0 .. Len(t) -> Known] :
        /\ g[0] = b /\ g[Len(t)] = c
        /\ \A i \in 1 .. Len(t) : StepOK(p, r, t[i], g[i - 1], g[i])
  BY DEF Runs
<1>0. PICK m \in Nat, n \in Nat : m = Len(s) /\ n = Len(t)
  OBVIOUS
<1> DEFINE h == [i \in 0 .. m + n |-> IF i <= m THEN f[i] ELSE g[i - m]]
<1>3. Len(s \o t) = m + n
  BY <1>0
<1>4. h \in [0 .. m + n -> Known]
  BY <1>0
<1>5. h[0] = a /\ h[m + n] = c
  <2>1. h[0] = a
    BY <1>1
  <2>2. CASE n = 0
    BY <1>0, <1>1, <1>2, <2>2
  <2>3. CASE n # 0
    <3>1. m + n \in 0 .. m + n /\ ~(m + n <= m) /\ (m + n) - m = n
      BY <2>3
    <3>2. h[m + n] = g[n]
      BY <3>1
    <3> QED
      BY <1>0, <1>2, <2>1, <3>2
  <2> QED
    BY <2>1, <2>2, <2>3
<1>6. ASSUME NEW i \in 1 .. m + n
      PROVE  StepOK(p, r, (s \o t)[i], h[i - 1], h[i])
  <2>1. CASE i <= m
    <3>1. i \in 1 .. m /\ (s \o t)[i] = s[i] /\ h[i - 1] = f[i - 1] /\ h[i] = f[i]
      BY <1>0, <2>1
    <3> QED
      BY <1>0, <1>1, <3>1
  <2>2. CASE i > m
    <3>1. PICK j \in 1 .. n : j = i - m
      <4>1. i - m \in 1 .. n
        BY <2>2
      <4> QED
        BY <4>1
    <3>2. (s \o t)[i] = t[j] /\ h[i] = g[j]
      BY <1>0, <2>2, <3>1
    <3>3. h[i - 1] = g[j - 1]
      <4>1. CASE j = 1
        <5>1. i - 1 = m
          BY <3>1, <4>1
        <5> QED
          BY <1>0, <1>1, <1>2, <4>1, <5>1
      <4>2. CASE j > 1
        BY <3>1, <4>2
      <4> QED
        BY <4>1, <4>2
    <3> QED
      BY <1>0, <1>2, <3>1, <3>2, <3>3
  <2>3. i <= m \/ i > m
    OBVIOUS
  <2> HIDE DEF h
  <2> QED
    BY <2>1, <2>2, <2>3
<1> HIDE DEF h
<1> QED
  BY <1>0, <1>3, <1>4, <1>5, <1>6 DEF Runs

LEMMA RunsTimes ==
  ASSUME NEW p, NEW r, NEW S, NEW call \in Seq(S), Len(call) \in {0, 1}, NEW n \in Nat,
         NEW a \in Known, Runs(p, r, call, a, a)
  PROVE  Runs(p, r, Times(n, call), a, a)
<1> DEFINE m == n * Len(call)
           f == [i \in 0 .. m |-> a]
<1>1. m \in Nat /\ m = (IF Len(call) = 0 THEN 0 ELSE n)
  <2>1. CASE Len(call) = 0
    BY <2>1
  <2>2. CASE Len(call) = 1
    BY <2>2
  <2> QED
    BY <2>1, <2>2
<1>2. Times(n, call) = [i \in 1 .. m |-> call[1]] /\ Len(Times(n, call)) = m
  BY <1>1 DEF Times
<1>3. ASSUME NEW i \in 1 .. m
      PROVE  StepOK(p, r, Times(n, call)[i], a, a)
  <2>1. Len(call) = 1 /\ 1 \in 1 .. Len(call)
    BY <1>1, <1>3
  <2>2. PICK g \in [0 .. Len(call) -> Known] :
        /\ g[0] = a /\ g[Len(call)] = a
        /\ \A j \in 1 .. Len(call) : StepOK(p, r, call[j], g[j - 1], g[j])
    BY DEF Runs
  <2>3. StepOK(p, r, call[1], g[1 - 1], g[1])
    BY <2>1, <2>2
  <2>4. Times(n, call)[i] = call[1] /\ 1 - 1 = 0
    BY <1>2
  <2> QED
    BY <2>1, <2>2, <2>3, <2>4
<1>4. f \in [0 .. m -> Known] /\ f[0] = a /\ f[m] = a
  BY <1>1
<1>5. \A i \in 1 .. m : f[i - 1] = a /\ f[i] = a
  BY <1>1
<1> HIDE DEF f, m
<1> QED
  BY <1>2, <1>3, <1>4, <1>5 DEF Runs

LEMMA RunsOn ==
  ASSUME NEW p, NEW r, NEW S, NEW s \in Seq(S), s # <<>>, NEW a, NEW b, Runs(p, r, s, a, b)
  PROVE  \E c \in Known : StepOK(p, r, Head(s), a, c) /\ Runs(p, r, Tail(s), c, b)
<1>1. PICK f \in [0 .. Len(s) -> Known] :
        /\ f[0] = a /\ f[Len(s)] = b
        /\ \A i \in 1 .. Len(s) : StepOK(p, r, s[i], f[i - 1], f[i])
  BY DEF Runs
<1>2. PICK n \in Nat : Len(s) = n + 1
  <2>1. Len(s) \in Nat /\ Len(s) # 0
    OBVIOUS
  <2> QED
    BY <2>1
<1> DEFINE g == [i \in 0 .. n |-> f[i + 1]]
<1>3. Head(s) = s[1] /\ Len(Tail(s)) = n /\ \A i \in 1 .. n : Tail(s)[i] = s[i + 1]
  BY <1>2
<1>4. StepOK(p, r, Head(s), a, f[1]) /\ f[1] \in Known
  <2>1. 1 \in 1 .. Len(s) /\ 1 - 1 = 0
    BY <1>2
  <2> QED
    BY <1>1, <1>3, <2>1
<1>5. g \in [0 .. n -> Known] /\ g[0] = f[1] /\ g[n] = b
  BY <1>1, <1>2
<1>6. ASSUME NEW i \in 1 .. n
      PROVE  StepOK(p, r, Tail(s)[i], g[i - 1], g[i])
  <2>1. PICK j \in 1 .. Len(s) : j = i + 1
    BY <1>2
  <2>2. g[i - 1] = f[j - 1] /\ g[i] = f[j] /\ Tail(s)[i] = s[j]
    BY <1>2, <1>3, <2>1
  <2> QED
    BY <1>1, <2>2
<1> HIDE DEF g
<1>7. Runs(p, r, Tail(s), f[1], b)
  BY <1>3, <1>5, <1>6 DEF Runs
<1> QED
  BY <1>4, <1>7

\* Compiled steps run as the steps they come from.
LEMMA RunsCompiled ==
  ASSUME NEW p, NEW r, NEW s, NEW t, Len(s) \in Nat, Len(t) = Len(s),
         \A i \in 1 .. Len(s) : /\ t[i].do = s[i].do /\ t[i].op = s[i].op
                                /\ t[i].from = s[i].from /\ t[i].to = s[i].to,
         NEW a, NEW b, Runs(p, r, s, a, b)
  PROVE  Runs(p, r, t, a, b)
<1>1. PICK f \in [0 .. Len(s) -> Known] :
        /\ f[0] = a /\ f[Len(s)] = b
        /\ \A i \in 1 .. Len(s) : StepOK(p, r, s[i], f[i - 1], f[i])
  BY DEF Runs
<1>2. ASSUME NEW i \in 1 .. Len(t)
      PROVE  StepOK(p, r, t[i], f[i - 1], f[i])
  <2> DEFINE y == t[i]
             x == s[i]
             c == f[i - 1]
             d == f[i]
  <2>1. y.do = x.do /\ y.op = x.op /\ y.from = x.from /\ y.to = x.to /\ StepOK(p, r, x, c, d)
    BY <1>1
  <2> HIDE DEF y, x, c, d
  <2>2. Needs(p, r, y, c) <=> Needs(p, r, x, c)
    BY <2>1 DEF Needs, ApiNeeds, ExchangeNeeds, MeantSlot
  <2>3. After(r, y, c) = After(r, x, c)
    BY <2>1 DEF After, AfterApi, AfterExchange
  <2>4. StepOK(p, r, y, c, d)
    BY <2>1, <2>2, <2>3 DEF StepOK
  <2> QED
    BY <2>4 DEF y, c, d
<1> QED
  BY <1>1, <1>2 DEF Runs

-----------------------------------------------------------------------------
\* What is known after each kind of step.

LEMMA AfterFill ==
  ASSUME NEW r, NEW held \in [Buf -> Content], NEW copy, NEW up, NEW slots, NEW calls,
         Len(calls) \in Nat, NEW a \in Known,
         Agrees(r, held, copy, up, slots, calls, Len(calls), a),
         NEW x \in Buf, NEW value \in Content,
         NEW d, d = Filled(a, x, value)
  PROVE  d \in Known /\ Agrees(r, [held EXCEPT ![x] = value], copy, up, slots, calls, Len(calls), d)
<1>1. /\ Drain(a) \in Known /\ Drain(a).writes = {} /\ Drain(a).busy = FALSE
      /\ Agrees(r, held, copy, up, slots, calls, Len(calls), Drain(a))
  BY AgreesDrained, DrainOf
<1> DEFINE s == Drain(a)
<1> HIDE DEF s
<1>2. /\ d = [s EXCEPT !.has = [s.has EXCEPT ![x] = {value}]]
      /\ s \in Known /\ s.writes = {} /\ s.busy = FALSE
      /\ Agrees(r, held, copy, up, slots, calls, Len(calls), s)
  BY <1>1 DEF s, Filled, Copied, Destroyed
<1>3. /\ d.has = [s.has EXCEPT ![x] = {value}] /\ d.host = s.host /\ d.writes = {}
      /\ d.busy = FALSE /\ d.mpi = s.mpi /\ d.made = s.made /\ d \in Known
  <2>1. [s.has EXCEPT ![x] = {value}] \in [Buf -> SUBSET Content]
    BY <1>2, KnownOf
  <2> QED
    BY <1>2, <2>1 DEF Known
<1>4. Pending(calls, Len(calls)) = {}
  BY DEF Pending
<1>5. \A y \in Buf : [held EXCEPT ![x] = value][y] \in d.has[y]
  BY <1>2, <1>3, KnownOf DEF Agrees
<1> QED
  BY <1>2, <1>3, <1>4, <1>5 DEF Agrees

LEMMA AfterCopy ==
  ASSUME NEW r, NEW held, NEW copy, NEW up, NEW slots, NEW calls,
         Len(calls) \in Nat, NEW a \in Known,
         Agrees(r, held, copy, up, slots, calls, Len(calls), a), NEW x \in Buf,
         NEW d, d = Copied(a, x)
  PROVE  d \in Known /\ Agrees(r, held, held[x], up, slots, calls, Len(calls), d)
<1>1. /\ Drain(a) \in Known
      /\ Agrees(r, held, copy, up, slots, calls, Len(calls), Drain(a))
  BY AgreesDrained, DrainOf
<1> DEFINE s == Drain(a)
<1> HIDE DEF s
<1>2. /\ d = [s EXCEPT !.host = s.has[x]] /\ s \in Known
      /\ Agrees(r, held, copy, up, slots, calls, Len(calls), s)
  BY <1>1 DEF s, Filled, Copied, Destroyed
<1>3. /\ d.has = s.has /\ d.host = s.has[x] /\ d.writes = s.writes
      /\ d.busy = s.busy /\ d.mpi = s.mpi /\ d.made = s.made /\ d \in Known
  BY <1>2 DEF Known
<1> QED
  BY <1>2, <1>3 DEF Agrees

LEMMA AfterClear ==
  ASSUME NEW r, NEW held, NEW copy, NEW up, NEW slots, NEW calls, NEW k, NEW a \in Known,
         Agrees(r, held, copy, up, slots, calls, k, a),
         NEW d, d = [a EXCEPT !.host = {"zero"}]
  PROVE  d \in Known /\ Agrees(r, held, "zero", up, slots, calls, k, d)
<1>1. /\ d.has = a.has /\ d.host = {"zero"} /\ d.writes = a.writes
      /\ d.busy = a.busy /\ d.mpi = a.mpi /\ d.made = a.made /\ d \in Known
  BY DEF Known, Content
<1> QED
  BY <1>1 DEF Agrees

LEMMA AfterMpi ==
  ASSUME NEW r, NEW held, NEW copy, NEW up, NEW slots, NEW calls, NEW k, NEW a \in Known,
         Agrees(r, held, copy, up, slots, calls, k, a), NEW m \in {"up", "down"},
         NEW d, d = [a EXCEPT !.mpi = m]
  PROVE  d \in Known /\ Agrees(r, held, copy, m, slots, calls, k, d)
<1>1. /\ d.has = a.has /\ d.host = a.host /\ d.writes = a.writes
      /\ d.busy = a.busy /\ d.mpi = m /\ d.made = a.made /\ d \in Known
  BY DEF Known
<1> QED
  BY <1>1 DEF Agrees

LEMMA AfterDestroy ==
  ASSUME NEW r, NEW held, NEW copy, NEW up, NEW slots, NEW calls,
         Len(calls) \in Nat, NEW a \in Known,
         Agrees(r, held, copy, up, slots, calls, Len(calls), a),
         NEW d, d = Destroyed(a)
  PROVE  d \in Known /\ Agrees(r, held, copy, up, NoComm, calls, Len(calls), d)
<1>1. /\ Drain(a) \in Known
      /\ Agrees(r, held, copy, up, slots, calls, Len(calls), Drain(a))
  BY AgreesDrained, DrainOf
<1> DEFINE s == Drain(a)
<1> HIDE DEF s
<1>2. /\ d = [s EXCEPT !.made = {}] /\ s \in Known
      /\ Agrees(r, held, copy, up, slots, calls, Len(calls), s)
  BY <1>1 DEF s, Filled, Copied, Destroyed
<1>3. /\ d.has = s.has /\ d.host = s.host /\ d.writes = s.writes
      /\ d.busy = s.busy /\ d.mpi = s.mpi /\ d.made = {} /\ d \in Known
  BY <1>2 DEF Known
<1> QED
  BY <1>2, <1>3 DEF Agrees

\* A call that makes a communicator is put in the queue.
LEMMA AfterJoin ==
  ASSUME NEW r, NEW held, NEW copy, NEW up, NEW slots, NEW S, NEW calls \in Seq(S),
         NEW k \in Nat, k <= Len(calls), NEW a \in Known,
         Agrees(r, held, copy, up, slots, calls, k, a),
         \A slot \in a.made : slots[slot] # <<>>,
         NEW c \in S, c.op \in Joins, Slot(c.route) \in Slots,
         NEW d, d = Joined(a, Slot(c.route))
  PROVE  d \in Known /\ Agrees(r, held, copy, up, slots, Append(calls, c), k, d)
<1>1. PICK n \in Nat : n = Len(calls)
  OBVIOUS
<1>2. PICK longer : longer = Append(calls, c)
  OBVIOUS
<1>3. /\ Len(longer) = n + 1 /\ longer[n + 1] = c
      /\ \A i \in 1 .. n : longer[i] = calls[i]
  BY <1>1, <1>2
<1>4. /\ d.has = a.has /\ d.host = a.host /\ d.writes = a.writes
      /\ d.busy = FALSE /\ d.mpi = a.mpi /\ d.made = a.made \cup {Slot(c.route)} /\ d \in Known
  BY DEF Known, Joined
<1>5. Blocking(c) /\ ~Writes(c.op, r)
  BY DEF Blocking, Joins, Writes
<1>6. Newest(longer) = c /\ k # Len(longer)
  BY <1>1, <1>3 DEF Newest
<1>7. \A i \in Pending(longer, k) : i # n + 1 => i \in Pending(calls, k) /\ longer[i] = calls[i]
  <2>1. ASSUME NEW i \in Pending(longer, k), i # n + 1
        PROVE  i \in Pending(calls, k) /\ longer[i] = calls[i]
    <3>1. i \in k + 1 .. n /\ i \in 1 .. n
      BY <1>3, <2>1 DEF Pending
    <3> QED
      BY <1>1, <1>3, <3>1 DEF Pending
  <2> QED
    BY <2>1
<1>8. \A i \in Pending(calls, k) : i \in Pending(longer, k) /\ longer[i] = calls[i]
  BY <1>1, <1>3 DEF Pending
<1>9. \A x \in d.writes :
        \/ held[x] = "answer"
        \/ \E i \in Pending(longer, k) : Writes(longer[i].op, r) /\ longer[i].to = x
  BY <1>4, <1>8 DEF Agrees
<1>10. \A i \in Pending(longer, k) : Writes(longer[i].op, r) => "answer" \in d.has[longer[i].to]
  BY <1>3, <1>4, <1>5, <1>7 DEF Agrees
<1>11. Agrees(r, held, copy, up, slots, longer, k, d)
  BY <1>4, <1>5, <1>6, <1>9, <1>10 DEF Agrees
<1> QED
  BY <1>2, <1>4, <1>11

\* An exchange is put in the queue.
LEMMA AfterIssue ==
  ASSUME NEW r, NEW held, NEW copy, NEW up, NEW slots, NEW S, NEW calls \in Seq(S),
         NEW k \in Nat, k <= Len(calls), NEW a \in Known,
         Agrees(r, held, copy, up, slots, calls, k, Settled(a)),
         \A slot \in a.made : slots[slot] # <<>>,
         NEW x, NEW c \in S, c.op = x.op, c.to = x.to, x.op \notin Joins, x.to \in Buf,
         x.op \in OmpiOnly => Blocking(c)
  PROVE  /\ AfterExchange(r, x, a) \in Known
         /\ Agrees(r, held, copy, up, slots, Append(calls, c), k, AfterExchange(r, x, a))
<1>1. PICK n \in Nat : n = Len(calls)
  OBVIOUS
<1>2. PICK longer : longer = Append(calls, c)
  OBVIOUS
<1>3. /\ Len(longer) = n + 1 /\ longer[n + 1] = c
      /\ \A i \in 1 .. n : longer[i] = calls[i]
  BY <1>1, <1>2
<1> DEFINE s == Settled(a)
           d == AfterExchange(r, x, a)
<1>4. s \in Known /\ s.made = a.made
  BY SettledOf
<1>5. d = [s EXCEPT
         !.has = IF Writes(x.op, r)
                 THEN [s.has EXCEPT ![x.to] = s.has[x.to] \cup {"answer"}] ELSE s.has,
         !.writes = IF Writes(x.op, r) THEN s.writes \cup {x.to} ELSE s.writes,
         !.busy = x.op \notin OmpiOnly]
  BY DEF AfterExchange
<1>6. Agrees(r, held, copy, up, slots, calls, k, s)
  OBVIOUS
<1> HIDE DEF s, d
<1>7. /\ d.has = IF Writes(x.op, r)
                 THEN [s.has EXCEPT ![x.to] = s.has[x.to] \cup {"answer"}] ELSE s.has
      /\ d.writes = IF Writes(x.op, r) THEN s.writes \cup {x.to} ELSE s.writes
      /\ d.busy = (x.op \notin OmpiOnly)
      /\ d.host = s.host /\ d.mpi = s.mpi /\ d.made = s.made
  BY <1>4, <1>5 DEF Known
<1>8. d \in Known
  <2>1. /\ s.has \in [Buf -> SUBSET Content] /\ s.writes \in SUBSET Buf
    BY <1>4, KnownOf
  <2>2. [s.has EXCEPT ![x.to] = s.has[x.to] \cup {"answer"}] \in [Buf -> SUBSET Content]
    BY <2>1 DEF Content
  <2>3. s.writes \cup {x.to} \in SUBSET Buf
    BY <2>1
  <2> QED
    BY <1>4, <1>5, <2>1, <2>2, <2>3 DEF Known
<1>9. \A y \in Buf : s.has[y] \subseteq d.has[y]
  BY <1>4, <1>7, KnownOf
<1>10. Newest(longer) = c
  BY <1>3 DEF Newest
<1>11. n + 1 \in Pending(longer, k)
  BY <1>1, <1>3 DEF Pending
<1>12. \A i \in Pending(longer, k) : i # n + 1 => i \in Pending(calls, k) /\ longer[i] = calls[i]
  <2>1. ASSUME NEW i \in Pending(longer, k), i # n + 1
        PROVE  i \in Pending(calls, k) /\ longer[i] = calls[i]
    <3>1. i \in k + 1 .. n /\ i \in 1 .. n
      BY <1>3, <2>1 DEF Pending
    <3> QED
      BY <1>1, <1>3, <3>1 DEF Pending
  <2> QED
    BY <2>1
<1>13. \A i \in Pending(calls, k) : i \in Pending(longer, k) /\ longer[i] = calls[i]
  BY <1>1, <1>3 DEF Pending
<1>14. \A y \in d.writes :
         \/ held[y] = "answer"
         \/ \E i \in Pending(longer, k) : Writes(longer[i].op, r) /\ longer[i].to = y
  <2>1. SUFFICES ASSUME NEW y \in d.writes
                 PROVE  \/ held[y] = "answer"
                        \/ \E i \in Pending(longer, k) : Writes(longer[i].op, r) /\ longer[i].to = y
    OBVIOUS
  <2>2. CASE y \in s.writes
    BY <1>6, <1>13, <2>2 DEF Agrees
  <2>3. CASE Writes(x.op, r) /\ y = x.to
    BY <1>3, <1>11, <2>3
  <2> QED
    BY <1>7, <2>1, <2>2, <2>3
<1>15. ASSUME NEW i \in Pending(longer, k), Writes(longer[i].op, r)
       PROVE  "answer" \in d.has[longer[i].to]
  <2>1. CASE i = n + 1
    BY <1>3, <1>4, <1>7, <1>15, <2>1, KnownOf
  <2>2. CASE i # n + 1
    <3>0. i \in Pending(calls, k) /\ longer[i] = calls[i]
      BY <1>12, <2>2
    <3>1. "answer" \in s.has[longer[i].to]
      BY <1>6, <1>15, <3>0 DEF Agrees
    <3>2. CASE longer[i].to \in Buf
      BY <1>9, <3>1, <3>2
    <3>3. CASE longer[i].to \notin Buf
      BY <1>4, <1>7, <3>1, <3>3, KnownOf
    <3> QED
      BY <3>2, <3>3
  <2> QED
    BY <2>1, <2>2
<1>16. Agrees(r, held, copy, up, slots, longer, k, d)
  <2>1. \A y \in Buf : held[y] \in d.has[y]
    BY <1>6, <1>9 DEF Agrees
  <2>2. \A slot \in d.made : slots[slot] # <<>>
    BY <1>4, <1>7
  <2>3. ~d.busy => Blocking(Newest(longer))
    BY <1>7, <1>10
  <2>4. copy \in d.host /\ up = d.mpi
    BY <1>6, <1>7 DEF Agrees
  <2> QED
    BY <1>14, <1>15, <2>1, <2>2, <2>3, <2>4 DEF Agrees
<1> QED
  BY <1>2, <1>8, <1>16 DEF d

\* A call runs.
LEMMA AfterRun ==
  ASSUME NEW r, NEW held \in [Buf -> Content], NEW copy, NEW up,
         NEW T, NEW slots \in [inter: T, intra: T], NEW calls, Len(calls) \in Nat,
         NEW k \in Nat, k < Len(calls), NEW a \in Known,
         Agrees(r, held, copy, up, slots, calls, k, a),
         NEW c, c = calls[k + 1], Writes(c.op, r) => c.to \in Buf,
         c.route # <<>>, c.route \in T,
         NEW now, now = IF Writes(c.op, r) THEN [held EXCEPT ![c.to] = "answer"] ELSE held,
         NEW filled, filled = IF c.op \in Joins THEN [slots EXCEPT ![Slot(c.route)] = c.route]
                              ELSE slots
  PROVE  Agrees(r, now, copy, up, filled, calls, k + 1, a)
<1>1. k + 1 \in Pending(calls, k)
  BY DEF Pending
<1>2. \A i \in Pending(calls, k) : i = k + 1 \/ i \in Pending(calls, k + 1)
  BY DEF Pending
<1>3. \A i \in Pending(calls, k + 1) : i \in Pending(calls, k)
  BY DEF Pending
<1>4. \A x \in Buf : now[x] \in a.has[x]
  BY <1>1, KnownOf DEF Agrees
<1>5. \A x \in a.writes :
        \/ now[x] = "answer"
        \/ \E i \in Pending(calls, k + 1) : Writes(calls[i].op, r) /\ calls[i].to = x
  <2>1. SUFFICES ASSUME NEW x \in a.writes
                 PROVE  \/ now[x] = "answer"
                        \/ \E i \in Pending(calls, k + 1) : Writes(calls[i].op, r) /\ calls[i].to = x
    OBVIOUS
  <2>2. x \in Buf
    BY KnownOf
  <2>3. CASE held[x] = "answer"
    BY <2>2, <2>3
  <2>4. CASE \E i \in Pending(calls, k) : Writes(calls[i].op, r) /\ calls[i].to = x
    <3>1. PICK i \in Pending(calls, k) : Writes(calls[i].op, r) /\ calls[i].to = x
      BY <2>4
    <3>2. CASE i = k + 1
      BY <2>2, <3>1, <3>2
    <3> QED
      BY <1>2, <3>1, <3>2
  <2> QED
    BY <2>3, <2>4 DEF Agrees
<1>6. \A slot \in a.made :
        \/ filled[slot] # <<>>
        \/ k + 1 # Len(calls) /\ Newest(calls).op \in Joins /\ Slot(Newest(calls).route) = slot
  <2>1. SUFFICES ASSUME NEW slot \in a.made
                 PROVE  \/ filled[slot] # <<>>
                        \/ k + 1 # Len(calls) /\ Newest(calls).op \in Joins
                           /\ Slot(Newest(calls).route) = slot
    OBVIOUS
  <2>2. slot \in {"inter", "intra"}
    BY KnownOf DEF Slots
  <2>3. CASE slots[slot] # <<>>
    BY <2>2, <2>3
  <2>4. CASE Newest(calls).op \in Joins /\ Slot(Newest(calls).route) = slot /\ k + 1 = Len(calls)
    <3>1. c.op \in Joins /\ Slot(c.route) = slot
      BY <2>4 DEF Newest
    <3> QED
      BY <2>2, <3>1
  <2> QED
    BY <2>1, <2>3, <2>4 DEF Agrees
<1> QED
  BY <1>3, <1>4, <1>5, <1>6 DEF Agrees

-----------------------------------------------------------------------------
\* Steps.

LEMMA ExchangesOf ==
  ASSUME NEW p \in AllPrograms
  PROVE  Exchanges(p) \subseteq Operations \ (LocalCalls \cup Joins)
BY DEF AllPrograms, Threaded, Hybrid, Mpi, Exchanges, Operations, OmpiOperations,
       CclOperations, LocalCalls, Joins

LEMMA NoOperation == "none" \notin Operations
BY DEF Operations, OmpiOperations, CclOperations

\* A step that calls the library is a call of its own or an exchange.
LEMMA KindOfStep ==
  ASSUME NEW p \in AllPrograms, NEW r, NEW x, NEW a \in Known, Needs(p, r, x, a),
         x.op \in Operations
  PROVE  \/ x.do = "api" /\ x.op \in LocalCalls \cup Joins /\ ApiNeeds(p, x, a)
         \/ /\ x.do = "exchange" /\ x.op \notin LocalCalls \cup Joins
            /\ ExchangeNeeds(p, r, x, a)
<1>1. x.op # "none"
  BY NoOperation
<1>2. CASE x.do = "api"
  <2>1. ApiNeeds(p, x, a)
    BY <1>2 DEF Needs
  <2>2. x.op \in LocalCalls \cup Joins
    BY <2>1 DEF ApiNeeds, MpiApis, CclApis, LocalCalls, Joins
  <2> QED
    BY <1>2, <2>1, <2>2
<1>3. CASE x.do = "exchange"
  <2>1. ExchangeNeeds(p, r, x, a)
    BY <1>3 DEF Needs
  <2>2. x.op = "Broadcast" \/ x.op \in Exchanges(p)
    BY <2>1 DEF ExchangeNeeds
  <2>3. x.op \notin LocalCalls \cup Joins
    BY <2>2, ExchangesOf DEF LocalCalls, Joins
  <2> QED
    BY <1>3, <2>1, <2>3
<1>4. CASE x.do \notin {"api", "exchange"}
  BY <1>1, <1>4 DEF Needs
<1> QED
  BY <1>2, <1>3, <1>4

LEMMA RanksOf ==
  ASSUME Shape
  PROVE  /\ Ranks = 0 .. size - 1 /\ 0 \in Ranks
         /\ \A r \in Ranks :
              /\ todo[r] \in Seq(CompiledStep) /\ issued[r] \in Seq(MadeCall)
              /\ Len(issued[r]) \in Nat /\ done[r] \in Nat
              /\ buffer[r] \in [Buf -> Content] /\ host[r] \in Content
              /\ comm[r] \in [inter: Routes(build) \cup {<<>>}, intra: Routes(build) \cup {<<>>}]
BY DEF Shape, Ranks

\* What is known of a rank that goes on, and what its next step needs.
LEMMA ReadyKnows ==
  ASSUME IInv, NEW r \in Ranks, Ready(r)
  PROVE  \E a, b, c \in Known :
           /\ Fits(r, a) /\ Fits(r, Settled(a))
           /\ ~a.busy => Drained(r)
           /\ \A slot \in a.made : comm[r][slot] # <<>>
           /\ StepOK(program, r, NextStep(r), a, c)
           /\ Runs(program, r, Tail(todo[r]), c, b)
<1>1. exit = "running" /\ Returned(r) /\ todo[r] # <<>> /\ todo[r] \in Seq(CompiledStep)
      /\ Len(issued[r]) \in Nat
  BY RanksOf DEF Ready, IInv
<1>2. PICK a \in Known, b \in Known : Fits(r, a) /\ Runs(program, r, todo[r], a, b)
  BY <1>1 DEF IInv, Typed
<1>3. PICK c \in Known : /\ StepOK(program, r, NextStep(r), a, c)
                         /\ Runs(program, r, Tail(todo[r]), c, b)
  BY <1>1, <1>2, RunsOn DEF NextStep
<1>4. done[r] # Len(issued[r]) => ~Blocking(Newest(issued[r]))
  BY <1>1 DEF Returned, Drained, Newest
<1>5. /\ Fits(r, Settled(a)) /\ (~a.busy => Drained(r))
      /\ \A slot \in a.made : comm[r][slot] # <<>>
  BY <1>1, <1>2, <1>4, AgreesSettled DEF Fits, Drained
<1> QED
  BY <1>2, <1>3, <1>5

LEMMA NextStepOf ==
  ASSUME Shape, NEW r \in Ranks, Ready(r)
  PROVE  /\ NextStep(r) \in CompiledStep /\ Tail(todo[r]) \in Seq(CompiledStep)
         /\ exit = "running" /\ Held(r) = buffer[r]
<1>1. todo[r] \in Seq(CompiledStep) /\ todo[r] # <<>> /\ exit = "running"
  BY DEF Shape, Ready
<1> QED
  BY <1>1 DEF NextStep, Held

\* A step of one rank leaves the others as they are.
LEMMA StepKeeps ==
  ASSUME IInv, NEW r \in Ranks, Ready(r), Advance(r), Shape',
         UNCHANGED <<build, program, size, exit>>, wrong' = {},
         \A q \in Ranks \ {r} :
           /\ comm'[q] = comm[q] /\ mpi'[q] = mpi[q] /\ buffer'[q] = buffer[q]
           /\ host'[q] = host[q] /\ issued'[q] = issued[q] /\ done'[q] = done[q],
         CallsInOrder(r)',
         NEW b \in Known, NEW c \in Known, NEW d \in Known,
         Runs(program, r, Tail(todo[r]), c, b), Fits(r, d)', Covers(c, d)
  PROVE  IInv'
<1>1. Ranks' = Ranks /\ r \in Ranks' /\ exit' = "running" /\ exit = "running"
  BY DEF Ranks, Ready
<1>2. \A q \in Ranks : todo'[q] = IF q = r THEN Tail(todo[r]) ELSE todo[q]
  BY DEF Advance, IInv, Shape
<1>3. Typed(r)'
  <2>1. Agrees(r, Held(r)', host'[r], mpi'[r], comm'[r], issued'[r], done'[r], d)
    BY DEF Fits
  <2>2. \A i \in Pending(issued'[r], done'[r]) :
          Writes(issued'[r][i].op, r) => issued'[r][i].to \in Buf
    <3>0. MadeCall' = MadeCall
      BY DEF MadeCall
    <3>1. issued'[r] \in Seq(MadeCall) /\ done'[r] \in Nat
      BY <1>1, <3>0 DEF Shape
    <3>2. SUFFICES ASSUME NEW i \in Pending(issued'[r], done'[r])
                   PROVE  Writes(issued'[r][i].op, r) => issued'[r][i].to \in Buf
      OBVIOUS
    <3>3. issued'[r][i] \in MadeCall
      BY <3>1, <3>2 DEF Pending
    <3> QED
      BY <3>3 DEF MadeCall, Writes
  <2>3. Agrees(r, Held(r)', host'[r], mpi'[r], comm'[r], issued'[r], done'[r], c)
    BY <2>1, <2>2, AgreesLess
  <2> QED
    BY <1>1, <1>2, <2>3 DEF Typed, Fits
<1>4. ASSUME NEW q \in Ranks, q # r
      PROVE  Typed(q)' /\ CallsInOrder(q)'
  <2>1. Typed(q) /\ CallsInOrder(q)
    BY <1>1, <1>4 DEF IInv
  <2>2. Held(q)' = Held(q)
    BY <1>4 DEF Held
  <2>3. Typed(q)'
    BY <1>2, <1>4, <2>1, <2>2 DEF Typed, Fits
  <2> QED
    BY <1>4, <2>1, <2>3 DEF CallsInOrder
<1> QED
  BY <1>1, <1>3, <1>4 DEF IInv

LEMMA SameJob ==
  ASSUME Shape, UNCHANGED <<build, program, size>>
  PROVE  /\ Ranks' = Ranks /\ CompiledStep' = CompiledStep /\ MadeCall' = MadeCall
         /\ build' \in Builds /\ IsBuild(build')
         /\ program' \in Programs /\ program' \in AllPrograms
         /\ size' \in SizesOf(program') /\ size' \in Nat \ {0}
BY DEF Shape, Ranks, CompiledStep, MadeCall

LEMMA AdvanceTodo ==
  ASSUME Shape, NEW r \in Ranks, Ready(r), Advance(r)
  PROVE  todo' \in [Ranks -> Seq(CompiledStep)]
BY NextStepOf DEF Shape, Advance

\* The calls of a rank that makes and runs none, and keeps its communicator.
LEMMA NoCall ==
  ASSUME NEW r, CallsInOrder(r), issued'[r] = issued[r], done'[r] = done[r],
         comm'[r] = comm[r],
         buffer'[r] = buffer[r] \/ (Drained(r) /\ done[r] \in Nat)
  PROVE  CallsInOrder(r)'
<1>1. Pending(issued[r], done[r])' = Pending(issued[r], done[r])
  OBVIOUS
<1>2. Drained(r) /\ done[r] \in Nat => Pending(issued[r], done[r]) = {}
  BY DEF Drained, Pending
<1> QED
  BY <1>1, <1>2 DEF CallsInOrder

LEMMA FillKeeps ==
  ASSUME IInv, NEW r \in Ranks, FillBuffer(r)
  PROVE  IInv'
<1>1. /\ Shape /\ Ready(r) /\ Drained(r) /\ Advance(r) /\ NextStep(r).do = "fill"
      /\ buffer' = [buffer EXCEPT ![r][NextStep(r).to] = NextStep(r).from]
      /\ UNCHANGED <<build, program, size, comm, mpi, host, issued, done, wrong, exit>>
  BY DEF FillBuffer, IInv
<1> DEFINE x == NextStep(r)
<1>2. PICK a \in Known, b \in Known, c \in Known :
        /\ Fits(r, a) /\ StepOK(program, r, x, a, c)
        /\ Runs(program, r, Tail(todo[r]), c, b)
  BY <1>1, ReadyKnows
<1>3. x.to \in Buf /\ x.from \in Content
  BY <1>1, <1>2 DEF StepOK, Needs
<1>4. PICK d : d = Filled(a, x.to, x.from)
  OBVIOUS
<1>5. After(r, x, a) = d
  BY <1>1, <1>4 DEF After
<1>6. Covers(c, d)
  BY <1>2, <1>5 DEF StepOK
<1> HIDE DEF x
<1>7. buffer'[r] = [buffer[r] EXCEPT ![x.to] = x.from]
  BY <1>1, RanksOf DEF Shape, x
<1>8. Held(r)' = [Held(r) EXCEPT ![x.to] = x.from] /\ Held(r) = buffer[r]
  BY <1>1, <1>7 DEF Held, Ready
<1>9. d \in Known /\ Fits(r, d)'
  <2>1. Agrees(r, Held(r), host[r], mpi[r], comm[r], issued[r], Len(issued[r]), a)
    BY <1>1, <1>2 DEF Fits, Drained
  <2>2. Held(r) \in [Buf -> Content] /\ Len(issued[r]) \in Nat
    BY <1>1, <1>8, RanksOf
  <2>3. PICK y \in Buf, v \in Content, h \in [Buf -> Content] :
          y = x.to /\ v = x.from /\ h = Held(r)
    BY <1>3, <2>2
  <2>4. /\ d = Filled(a, y, v)
        /\ Agrees(r, h, host[r], mpi[r], comm[r], issued[r], Len(issued[r]), a)
    BY <1>4, <2>1, <2>3
  <2>5. d \in Known /\ Agrees(r, [h EXCEPT ![y] = v], host[r], mpi[r], comm[r],
                              issued[r], Len(issued[r]), d)
    BY <2>2, <2>4, AfterFill
  <2> QED
    BY <1>1, <1>8, <2>3, <2>5 DEF Fits, Drained
<1>10. Shape'
  <2>1. buffer' \in [Ranks -> [Buf -> Content]]
    BY <1>1, <1>3 DEF Shape, x
  <2> QED
    BY <1>1, <2>1, SameJob, AdvanceTodo DEF Shape
<1>11. CallsInOrder(r)'
  BY <1>1, NoCall, RanksOf DEF IInv
<1>12. \A q \in Ranks \ {r} : buffer'[q] = buffer[q]
  BY <1>1 DEF Shape, x
<1>13. wrong' = {}
  BY <1>1 DEF IInv
<1> QED
  BY <1>1, <1>2, <1>6, <1>9, <1>10, <1>11, <1>12, <1>13, StepKeeps

LEMMA FreeKeeps ==
  ASSUME IInv, NEW r \in Ranks, FreeBuffer(r)
  PROVE  IInv'
<1>1. /\ Shape /\ Ready(r) /\ Advance(r) /\ NextStep(r).do = "free"
      /\ buffer' = [buffer EXCEPT ![r][NextStep(r).from] = "none"]
      /\ UNCHANGED <<build, program, size, comm, mpi, host, issued, done, wrong, exit>>
  BY DEF FreeBuffer, IInv
<1> DEFINE x == NextStep(r)
<1>2. PICK a \in Known, b \in Known, c \in Known :
        /\ Fits(r, a) /\ StepOK(program, r, x, a, c) /\ (~a.busy => Drained(r))
        /\ Runs(program, r, Tail(todo[r]), c, b)
  BY <1>1, ReadyKnows
<1>3. x.from \in Buf /\ Drained(r)
  BY <1>1, <1>2 DEF StepOK, Needs
<1>4. PICK d : d = Filled(a, x.from, "none")
  OBVIOUS
<1>5. After(r, x, a) = d
  BY <1>1, <1>4 DEF After
<1>6. Covers(c, d)
  BY <1>2, <1>5 DEF StepOK
<1> HIDE DEF x
<1>7. buffer'[r] = [buffer[r] EXCEPT ![x.from] = "none"]
  BY <1>1, RanksOf DEF Shape, x
<1>8. Held(r)' = [Held(r) EXCEPT ![x.from] = "none"] /\ Held(r) = buffer[r]
  BY <1>1, <1>7 DEF Held, Ready
<1>9. d \in Known /\ Fits(r, d)'
  <2>1. Agrees(r, Held(r), host[r], mpi[r], comm[r], issued[r], Len(issued[r]), a)
    BY <1>2, <1>3 DEF Fits, Drained
  <2>2. Held(r) \in [Buf -> Content] /\ Len(issued[r]) \in Nat
    BY <1>1, <1>8, RanksOf
  <2>3. PICK y \in Buf, v \in Content, h \in [Buf -> Content] :
          y = x.from /\ v = "none" /\ h = Held(r)
    BY <1>3, <2>2 DEF Content
  <2>4. /\ d = Filled(a, y, v)
        /\ Agrees(r, h, host[r], mpi[r], comm[r], issued[r], Len(issued[r]), a)
    BY <1>4, <2>1, <2>3
  <2>5. d \in Known /\ Agrees(r, [h EXCEPT ![y] = v], host[r], mpi[r], comm[r],
                              issued[r], Len(issued[r]), d)
    BY <2>2, <2>4, AfterFill
  <2> QED
    BY <1>1, <1>3, <1>8, <2>3, <2>5 DEF Fits, Drained
<1>10. Shape'
  <2>1. buffer' \in [Ranks -> [Buf -> Content]]
    BY <1>1, <1>3 DEF Shape, x, Content
  <2> QED
    BY <1>1, <2>1, SameJob, AdvanceTodo DEF Shape
<1>11. CallsInOrder(r)'
  BY <1>1, <1>3, NoCall, RanksOf DEF IInv
<1>12. \A q \in Ranks \ {r} : buffer'[q] = buffer[q]
  BY <1>1 DEF Shape, x
<1>13. wrong' = {}
  BY <1>1 DEF IInv
<1> QED
  BY <1>1, <1>2, <1>6, <1>9, <1>10, <1>11, <1>12, <1>13, StepKeeps

LEMMA SyncKeeps ==
  ASSUME IInv, NEW r \in Ranks, Synchronize(r)
  PROVE  IInv'
<1>1. /\ Shape /\ Ready(r) /\ Drained(r) /\ Advance(r) /\ NextStep(r).do \in {"sync", "SetDevice"}
      /\ UNCHANGED <<build, program, size, comm, mpi, buffer, host, issued, done, wrong, exit>>
  BY DEF Synchronize, IInv
<1>2. PICK a \in Known, b \in Known, c \in Known :
        /\ Fits(r, a) /\ StepOK(program, r, NextStep(r), a, c)
        /\ Runs(program, r, Tail(todo[r]), c, b)
  BY <1>1, ReadyKnows
<1>3. After(r, NextStep(r), a) = Drain(a)
  BY <1>1 DEF After
<1>4. Covers(c, Drain(a)) /\ Drain(a) \in Known
  BY <1>2, <1>3, DrainOf DEF StepOK
<1>5. Fits(r, Drain(a))'
  <2>1. Fits(r, Drain(a))
    BY <1>1, <1>2, AgreesDrained, RanksOf DEF Fits, Drained
  <2> QED
    BY <1>1, <2>1 DEF Fits, Held
<1>6. Shape'
  BY <1>1, SameJob, AdvanceTodo DEF Shape
<1>7. CallsInOrder(r)' /\ wrong' = {}
  <2>1. CallsInOrder(r) /\ wrong = {}
    BY DEF IInv
  <2> QED
    BY <1>1, <2>1, NoCall
<1> QED
  BY <1>1, <1>2, <1>4, <1>5, <1>6, <1>7, StepKeeps

LEMMA CopyKeeps ==
  ASSUME IInv, NEW r \in Ranks, CopyToHost(r)
  PROVE  IInv'
<1>1. /\ Shape /\ Ready(r) /\ Drained(r) /\ Advance(r) /\ NextStep(r).do = "copyOut"
      /\ host' = [host EXCEPT ![r] = buffer[r][NextStep(r).from]]
      /\ UNCHANGED <<build, program, size, comm, mpi, buffer, issued, done, wrong, exit>>
  BY DEF CopyToHost, IInv
<1> DEFINE x == NextStep(r)
<1>2. PICK a \in Known, b \in Known, c \in Known :
        /\ Fits(r, a) /\ StepOK(program, r, x, a, c)
        /\ Runs(program, r, Tail(todo[r]), c, b)
  BY <1>1, ReadyKnows
<1>3. x.from \in Buf
  BY <1>1, <1>2 DEF StepOK, Needs
<1>4. PICK d : d = Copied(a, x.from)
  OBVIOUS
<1>5. After(r, x, a) = d
  BY <1>1, <1>4 DEF After
<1>6. Covers(c, d)
  BY <1>2, <1>5 DEF StepOK
<1> HIDE DEF x
<1>7. host'[r] = Held(r)[x.from] /\ Held(r)' = Held(r) /\ Held(r) = buffer[r]
  BY <1>1 DEF Held, Ready, Shape, x
<1>8. d \in Known /\ Fits(r, d)'
  <2>1. Agrees(r, Held(r), host[r], mpi[r], comm[r], issued[r], Len(issued[r]), a)
    BY <1>1, <1>2 DEF Fits, Drained
  <2>2. Len(issued[r]) \in Nat
    BY <1>1, RanksOf
  <2>3. PICK y \in Buf : y = x.from
    BY <1>3
  <2>4. d = Copied(a, y)
    BY <1>4, <2>3
  <2>5. d \in Known /\ Agrees(r, Held(r), Held(r)[y], mpi[r], comm[r],
                              issued[r], Len(issued[r]), d)
    BY <2>1, <2>2, <2>4, AfterCopy
  <2> QED
    BY <1>1, <1>7, <2>3, <2>5 DEF Fits, Drained
<1>9. Shape'
  <2>1. host' \in [Ranks -> Content]
    BY <1>1, <1>3, RanksOf DEF Shape, x
  <2> QED
    BY <1>1, <2>1, SameJob, AdvanceTodo DEF Shape
<1>10. CallsInOrder(r)' /\ wrong' = {}
  <2>1. CallsInOrder(r) /\ wrong = {}
    BY DEF IInv
  <2> QED
    BY <1>1, <2>1, NoCall
<1>11. \A q \in Ranks \ {r} : host'[q] = host[q]
  BY <1>1 DEF Shape
<1> QED
  BY <1>1, <1>2, <1>6, <1>8, <1>9, <1>10, <1>11, StepKeeps

LEMMA ClearKeeps ==
  ASSUME IInv, NEW r \in Ranks, ClearHostBuffer(r)
  PROVE  IInv'
<1>1. /\ Shape /\ Ready(r) /\ Advance(r) /\ NextStep(r).do = "clear"
      /\ host' = [host EXCEPT ![r] = "zero"]
      /\ UNCHANGED <<build, program, size, comm, mpi, buffer, issued, done, wrong, exit>>
  BY DEF ClearHostBuffer, IInv
<1>2. PICK a \in Known, b \in Known, c \in Known :
        /\ Fits(r, a) /\ StepOK(program, r, NextStep(r), a, c)
        /\ Runs(program, r, Tail(todo[r]), c, b)
  BY <1>1, ReadyKnows
<1>3. PICK d : d = [a EXCEPT !.host = {"zero"}]
  OBVIOUS
<1>4. After(r, NextStep(r), a) = d
  BY <1>1, <1>3 DEF After
<1>5. Covers(c, d)
  BY <1>2, <1>4 DEF StepOK
<1>6. host'[r] = "zero" /\ Held(r)' = Held(r)
  BY <1>1 DEF Held, Shape
<1>7. d \in Known /\ Fits(r, d)'
  BY <1>1, <1>2, <1>3, <1>6, AfterClear DEF Fits
<1>8. Shape'
  <2>1. host' \in [Ranks -> Content]
    BY <1>1 DEF Shape, Content
  <2> QED
    BY <1>1, <2>1, SameJob, AdvanceTodo DEF Shape
<1>9. CallsInOrder(r)' /\ wrong' = {}
  <2>1. CallsInOrder(r) /\ wrong = {}
    BY DEF IInv
  <2> QED
    BY <1>1, <2>1, NoCall
<1>10. \A q \in Ranks \ {r} : host'[q] = host[q]
  BY <1>1 DEF Shape
<1> QED
  BY <1>1, <1>2, <1>5, <1>7, <1>8, <1>9, <1>10, StepKeeps

\* A rank validates what it knows to be the answer.
LEMMA ValidateKeeps ==
  ASSUME IInv, NEW r \in Ranks, ValidateResult(r)
  PROVE  IInv'
<1>1. /\ Shape /\ Ready(r) /\ Advance(r) /\ NextStep(r).do = "validate"
      /\ wrong' = IF host[r] = "answer" THEN wrong ELSE wrong \cup {r}
      /\ UNCHANGED <<build, program, size, comm, mpi, buffer, host, issued, done, exit>>
  BY DEF ValidateResult, IInv
<1>2. PICK a \in Known, b \in Known, c \in Known :
        /\ Fits(r, a) /\ StepOK(program, r, NextStep(r), a, c)
        /\ Runs(program, r, Tail(todo[r]), c, b)
  BY <1>1, ReadyKnows
<1>3. After(r, NextStep(r), a) = a
  BY <1>1 DEF After
<1>4. Covers(c, a)
  BY <1>2, <1>3 DEF StepOK
<1>5. host[r] = "answer"
  <2>1. a.host \subseteq {"answer"}
    BY <1>1, <1>2 DEF StepOK, Needs
  <2> QED
    BY <1>2, <2>1 DEF Fits, Agrees
<1>6. wrong' = {}
  BY <1>1, <1>5 DEF IInv
<1>7. Fits(r, a)'
  BY <1>1, <1>2 DEF Fits, Held
<1>8. Shape'
  BY <1>1, SameJob, AdvanceTodo DEF Shape
<1>9. CallsInOrder(r)'
  <2>1. CallsInOrder(r)
    BY DEF IInv
  <2> QED
    BY <1>1, <2>1, NoCall
<1> QED
  BY <1>1, <1>2, <1>4, <1>6, <1>7, <1>8, <1>9, StepKeeps

\* MPI starts and ends, the communicator is destroyed, an id is made.
LEMMA LocalKeeps ==
  ASSUME IInv, NEW r \in Ranks, CallLocal(r)
  PROVE  IInv'
<1> DEFINE x == NextStep(r)
<1>1. /\ Shape /\ Ready(r) /\ Advance(r) /\ x.op \in LocalCalls
      /\ mpi' = IF x.op = "Init" THEN [mpi EXCEPT ![r] = "up"]
                ELSE IF x.op = "Finalize" THEN [mpi EXCEPT ![r] = "down"] ELSE mpi
      /\ comm' = IF x.op = "CommDestroy" THEN [comm EXCEPT ![r] = NoComm] ELSE comm
      /\ buffer' = IF x.op = "GetUniqueId" THEN [buffer EXCEPT ![r].id = "seed"] ELSE buffer
      /\ UNCHANGED <<build, program, size, host, issued, done, wrong, exit>>
  BY DEF CallLocal, IInv
<1>2. PICK a \in Known, b \in Known, c \in Known :
        /\ Fits(r, a) /\ (~a.busy => Drained(r)) /\ StepOK(program, r, x, a, c)
        /\ Runs(program, r, Tail(todo[r]), c, b)
  BY <1>1, ReadyKnows
<1>3. x.op \in Operations
  BY <1>1 DEF LocalCalls, Operations, OmpiOperations, CclOperations
<1>4. x.do = "api" /\ ApiNeeds(program, x, a)
  BY <1>1, <1>2, <1>3, KindOfStep DEF StepOK, Shape
<1>5. Covers(c, AfterApi(x, a))
  BY <1>2, <1>4 DEF StepOK, After
<1>6. x.op \in {"CommDestroy", "GetUniqueId"} => Drained(r)
  BY <1>2, <1>4 DEF ApiNeeds
<1> HIDE DEF x
<1>7. Ranks' = Ranks /\ Held(r) = buffer[r] /\ Held(r)' = buffer'[r] /\ Len(issued[r]) \in Nat
      /\ buffer[r] \in [Buf -> Content]
  BY <1>1, RanksOf DEF Held, Ready, Ranks
<1>8. Agrees(r, buffer[r], host[r], mpi[r], comm[r], issued[r], done[r], a)
  BY <1>2, <1>7 DEF Fits
<1>9. \E d \in Known : Covers(c, d) /\ Fits(r, d)'
  <2>1. SUFFICES \E d \in Known :
                   /\ d = AfterApi(x, a)
                   /\ Agrees(r, buffer'[r], host[r], mpi'[r], comm'[r], issued[r], done[r], d)
    BY <1>1, <1>5, <1>7 DEF Fits
  <2>2. CASE x.op = "Init"
    <3>1. PICK d : d = [a EXCEPT !.mpi = "up"]
      OBVIOUS
    <3>2. mpi'[r] = "up" /\ comm'[r] = comm[r] /\ buffer'[r] = buffer[r]
      BY <1>1, <2>2 DEF Shape
    <3> QED
      BY <1>8, <2>2, <3>1, <3>2, AfterMpi DEF AfterApi
  <2>3. CASE x.op = "Finalize"
    <3>1. PICK d : d = [a EXCEPT !.mpi = "down"]
      OBVIOUS
    <3>2. mpi'[r] = "down" /\ comm'[r] = comm[r] /\ buffer'[r] = buffer[r]
      BY <1>1, <2>3 DEF Shape
    <3> QED
      BY <1>8, <2>3, <3>1, <3>2, AfterMpi DEF AfterApi
  <2>4. CASE x.op = "CommDestroy"
    <3>1. PICK d : d = Destroyed(a)
      OBVIOUS
    <3>2. mpi'[r] = mpi[r] /\ comm'[r] = NoComm /\ buffer'[r] = buffer[r]
          /\ done[r] = Len(issued[r])
      BY <1>1, <1>6, <2>4 DEF Shape, Drained
    <3>3. d \in Known /\ Agrees(r, buffer[r], host[r], mpi[r], NoComm, issued[r], Len(issued[r]), d)
      BY <1>7, <1>8, <3>1, <3>2, AfterDestroy
    <3> QED
      BY <2>4, <3>1, <3>2, <3>3 DEF AfterApi
  <2>5. CASE x.op = "GetUniqueId"
    <3>0. PICK y \in Buf, v \in Content, h \in [Buf -> Content] :
            y = "id" /\ v = "seed" /\ h = buffer[r]
      BY <1>7 DEF Buf, Content
    <3>1. PICK d : d = Filled(a, y, v) /\ y = "id" /\ v = "seed" /\ h = buffer[r]
      BY <3>0
    <3>2. /\ mpi'[r] = mpi[r] /\ comm'[r] = comm[r] /\ done[r] = Len(issued[r])
          /\ buffer'[r] = [h EXCEPT ![y] = v]
      BY <1>1, <1>6, <2>5, <3>1 DEF Shape, Drained
    <3>3. d \in Known /\ Agrees(r, [h EXCEPT ![y] = v], host[r], mpi[r], comm[r], issued[r], Len(issued[r]), d)
      BY <1>7, <1>8, <3>1, <3>2, AfterFill
    <3> QED
      BY <2>5, <3>1, <3>2, <3>3 DEF AfterApi
  <2>6. CASE x.op \in {"GetRank", "GetSize"}
    <3>1. mpi'[r] = mpi[r] /\ comm'[r] = comm[r] /\ buffer'[r] = buffer[r]
      BY <1>1, <2>6
    <3> QED
      BY <1>8, <2>6, <3>1 DEF AfterApi
  <2> QED
    BY <1>1, <2>2, <2>3, <2>4, <2>5, <2>6 DEF LocalCalls
<1>10. Shape'
  <2>1. mpi' \in [Ranks -> {"none", "up", "down"}]
    BY <1>1 DEF Shape
  <2>2. comm' \in [Ranks -> [inter: Routes(build) \cup {<<>>}, intra: Routes(build) \cup {<<>>}]]
    BY <1>1 DEF Shape, NoComm
  <2>3. buffer' \in [Ranks -> [Buf -> Content]]
    <3>1. PICK h \in [Ranks -> [Buf -> Content]], y \in Buf, v \in Content :
            h = buffer /\ y = "id" /\ v = "seed"
      BY <1>1 DEF Shape, Buf, Content
    <3>2. [h EXCEPT ![r][y] = v] \in [Ranks -> [Buf -> Content]]
      OBVIOUS
    <3> QED
      BY <1>1, <3>1, <3>2
  <2> QED
    BY <1>1, <2>1, <2>2, <2>3, SameJob, AdvanceTodo DEF Shape
<1>11. CallsInOrder(r)'
  <2>1. CallsInOrder(r)
    BY DEF IInv
  <2>2. CASE x.op = "CommDestroy"
    <3>1. Pending(issued[r], done[r]) = {} /\ done[r] <= Len(issued[r])
      BY <1>6, <1>7, <2>2 DEF Drained, Pending
    <3>2. comm'[r] = NoComm
      BY <1>1, <2>2 DEF Shape
    <3> QED
      BY <1>1, <2>1, <3>1, <3>2 DEF CallsInOrder, NoComm, Slots
  <2>3. CASE x.op # "CommDestroy"
    <3>1. comm'[r] = comm[r]
      BY <1>1, <2>3
    <3>2. buffer'[r] = buffer[r] \/ (Drained(r) /\ done[r] \in Nat)
      BY <1>1, <1>6, RanksOf
    <3> QED
      BY <1>1, <2>1, <3>1, <3>2, NoCall
  <2> QED
    BY <2>2, <2>3
<1>12. \A q \in Ranks \ {r} : mpi'[q] = mpi[q] /\ comm'[q] = comm[q] /\ buffer'[q] = buffer[q]
  BY <1>1 DEF Shape
<1>13. wrong' = {}
  BY <1>1 DEF IInv
<1> QED
  BY <1>1, <1>2, <1>9, <1>10, <1>11, <1>12, <1>13, StepKeeps

\* A call that other ranks have a part in is put in the queue.
LEMMA IssueKeeps ==
  ASSUME IInv, NEW r \in Ranks, Issue(r)
  PROVE  IInv'
<1> DEFINE x == NextStep(r)
           made == [op |-> x.op, route |-> x.route, from |-> x.from, to |-> x.to,
                    gives |-> IF x.op \in Joins THEN "seed" ELSE buffer[r][x.from]]
<1>1. /\ Shape /\ Ready(r) /\ Advance(r) /\ x.op \in Operations \ LocalCalls /\ Succeeds(r, x)
      /\ issued' = [issued EXCEPT ![r] = Append(@, made)]
      /\ UNCHANGED <<build, program, size, comm, mpi, buffer, host, done, wrong, exit>>
  BY DEF Issue, IInv
<1>2. PICK a \in Known, b \in Known, e \in Known :
        /\ Fits(r, Settled(a)) /\ Fits(r, a) /\ StepOK(program, r, x, a, e)
        /\ \A slot \in a.made : comm[r][slot] # <<>>
        /\ Runs(program, r, Tail(todo[r]), e, b)
  BY <1>1, ReadyKnows
<1>3. PICK c : c = made
  OBVIOUS
<1>4. /\ x \in CompiledStep /\ x.route = Call(x.op, build) /\ x.from \in Names /\ x.to \in Names
      /\ IsBuild(build) /\ program \in AllPrograms
  BY <1>1, NextStepOf DEF CompiledStep, Shape
<1>5. x.route \in Routes(build) /\ Call(x.op, build) # NotSupported
  BY <1>1, <1>4, CallRoutes DEF Succeeds
<1>6. \/ x.do = "api" /\ x.op \in Joins /\ ApiNeeds(program, x, a)
      \/ /\ x.do = "exchange" /\ x.op \notin LocalCalls \cup Joins
         /\ ExchangeNeeds(program, r, x, a)
  BY <1>1, <1>2, <1>4, KindOfStep DEF StepOK
<1>7. /\ c.op = x.op /\ c.route = x.route /\ c.from = x.from /\ c.to = x.to
      /\ c.gives = IF x.op \in Joins THEN "seed" ELSE buffer[r][x.from]
      /\ issued' = [issued EXCEPT ![r] = Append(@, c)]
      /\ c = made
  BY <1>1, <1>3
<1>8. x.op \notin Joins => x.from \in Buf /\ x.to \in Buf
  BY <1>6 DEF ExchangeNeeds
<1>9. buffer[r] \in [Buf -> Content] /\ issued[r] \in Seq(MadeCall) /\ done[r] \in Nat
      /\ comm[r] \in [inter: Routes(build) \cup {<<>>}, intra: Routes(build) \cup {<<>>}]
      /\ done[r] <= Len(issued[r]) /\ Held(r) = buffer[r] /\ Held(r)' = Held(r)
  BY <1>1, RanksOf DEF IInv, CallsInOrder, Held, Ready
<1>10. c \in MadeCall
  <2>1. c.gives \in Content
    BY <1>7, <1>8, <1>9 DEF Content
  <2>2. c \in [op: Operations \ LocalCalls, route: Routes(build), from: Names, to: Names,
               gives: Content]
    BY <1>1, <1>4, <1>5, <1>7, <2>1
  <2> QED
    BY <1>7, <1>8, <2>2 DEF MadeCall
<1> HIDE DEF made
<1>11. issued'[r] = Append(issued[r], c) /\ \A q \in Ranks \ {r} : issued'[q] = issued[q]
  BY <1>7, <1>1 DEF Shape
<1>12. Covers(e, After(r, x, a)) /\ Needs(program, r, x, a)
  BY <1>2 DEF StepOK
<1> HIDE DEF x
<1>13. \E d \in Known : Covers(e, d) /\ Fits(r, d)'
  <2>1. SUFFICES \E d \in Known :
                   /\ d = After(r, x, a)
                   /\ Agrees(r, Held(r), host[r], mpi[r], comm[r], Append(issued[r], c), done[r], d)
    BY <1>1, <1>9, <1>11, <1>12 DEF Fits
  <2>2. CASE x.op \in Joins
    <3>1. x.do = "api"
      BY <1>6, <2>2
    <3>2. Slot(c.route) = IF x.op = "CommInitAll" THEN "inter" ELSE "intra"
      BY <1>4, <1>5, <1>7, <2>2, SlotsOfCalls DEF Joins, OmpiOperations, CclOperations
    <3>3. PICK d : d = Joined(a, Slot(c.route))
      OBVIOUS
    <3>4. d = After(r, x, a)
      BY <2>2, <3>1, <3>2, <3>3 DEF After, AfterApi, Joins
    <3>5. Slot(c.route) \in Slots
      BY DEF Slot, Slots
    <3>6. Agrees(r, Held(r), host[r], mpi[r], comm[r], issued[r], done[r], a)
      BY <1>2 DEF Fits
    <3>7. d \in Known /\ Agrees(r, Held(r), host[r], mpi[r], comm[r], Append(issued[r], c), done[r], d)
      BY <1>2, <1>7, <1>9, <1>10, <2>2, <3>3, <3>5, <3>6, AfterJoin
    <3> QED
      BY <3>4, <3>7
  <2>3. CASE x.op \notin Joins
    <3>1. After(r, x, a) = AfterExchange(r, x, a)
      BY <1>6, <2>3 DEF After
    <3>2. x.op \in OmpiOnly => Blocking(c)
      BY <1>4, <1>5, <1>7, SlotsOfCalls DEF OmpiOnly, Blocking, Slot
    <3>3. Agrees(r, Held(r), host[r], mpi[r], comm[r], issued[r], done[r], Settled(a))
      BY <1>2 DEF Fits
    <3>4. /\ c.op = x.op /\ c.to = x.to /\ x.to \in Buf /\ c \in MadeCall
          /\ issued[r] \in Seq(MadeCall) /\ done[r] \in Nat /\ done[r] <= Len(issued[r])
          /\ \A slot \in a.made : comm[r][slot] # <<>>
      BY <1>2, <1>7, <1>8, <1>9, <1>10, <2>3
    <3>5. /\ AfterExchange(r, x, a) \in Known
          /\ Agrees(r, Held(r), host[r], mpi[r], comm[r], Append(issued[r], c), done[r],
                    AfterExchange(r, x, a))
      BY <2>3, <3>2, <3>3, <3>4, AfterIssue
    <3> QED
      BY <3>1, <3>5
  <2> QED
    BY <2>2, <2>3
<1>14. Shape'
  <2>0. Append(issued[r], c) \in Seq(MadeCall) /\ issued \in [Ranks -> Seq(MadeCall)]
    BY <1>1, <1>9, <1>10 DEF Shape
  <2>1. issued' \in [Ranks -> Seq(MadeCall)]
    BY <1>7, <2>0
  <2> QED
    BY <1>1, <2>1, SameJob, AdvanceTodo DEF Shape
<1>15. CallsInOrder(r)'
  <2>1. PICK n \in Nat : n = Len(issued[r])
    BY <1>9
  <2>2. PICK longer : longer = Append(issued[r], c)
    OBVIOUS
  <2>3. /\ Len(longer) = n + 1 /\ longer[n + 1] = c /\ DOMAIN longer = 1 .. n + 1
        /\ \A i \in 1 .. n : longer[i] = issued[r][i] /\ DOMAIN issued[r] = 1 .. n
    BY <1>9, <1>10, <2>1, <2>2
  <2>4. CallsInOrder(r)
    BY DEF IInv
  <2>5. GivesRight(c.op, r, c.gives)
    <3>1. CASE x.op \in Joins
      BY <1>7, <3>1 DEF GivesRight
    <3>2. CASE x.op \notin Joins
      <4>1. buffer[r][x.from] \in Settled(a).has[x.from]
        BY <1>2, <1>8, <1>9, <3>2 DEF Fits, Agrees
      <4>2. GivesRight(x.op, r, buffer[r][x.from])
        BY <1>6, <3>2, <4>1 DEF ExchangeNeeds
      <4> QED
        BY <1>7, <3>2, <4>2
    <3> QED
      BY <3>1, <3>2
  <2>6. c.op \notin Joins =>
          /\ comm[r][Slot(c.route)] # <<>>
          /\ c.from # "id" => "none" \notin {buffer[r][c.from], buffer[r][c.to]}
    <3>1. SUFFICES ASSUME x.op \notin Joins
                   PROVE  /\ comm[r][Slot(x.route)] # <<>>
                          /\ x.from # "id" => "none" \notin {buffer[r][x.from], buffer[r][x.to]}
      BY <1>7
    <3>2. comm[r][Slot(x.route)] # <<>>
      BY <1>1, <3>1 DEF Succeeds
    <3>3. ASSUME x.from # "id"
          PROVE  "none" \notin {buffer[r][x.from], buffer[r][x.to]}
      <4>1. "none" \notin Settled(a).has[x.from] \cup Settled(a).has[x.to]
        BY <1>6, <3>1, <3>3 DEF ExchangeNeeds
      <4>2. /\ buffer[r][x.from] \in Settled(a).has[x.from]
            /\ buffer[r][x.to] \in Settled(a).has[x.to]
        BY <1>2, <1>8, <1>9, <3>1 DEF Fits, Agrees
      <4> QED
        BY <4>1, <4>2
    <3> QED
      BY <3>2, <3>3
  <2>7. ASSUME NEW k \in DOMAIN longer
        PROVE  GivesRight(longer[k].op, r, longer[k].gives)
    <3>1. CASE k = n + 1
      BY <2>3, <2>5, <3>1
    <3>2. CASE k # n + 1
      <4>1. k \in DOMAIN issued[r] /\ longer[k] = issued[r][k]
        BY <2>3, <2>7, <3>2
      <4> QED
        BY <2>4, <4>1 DEF CallsInOrder
    <3> QED
      BY <3>1, <3>2
  <2>8. ASSUME NEW k \in Pending(longer, done[r]), longer[k].op \notin Joins
        PROVE  /\ comm[r][Slot(longer[k].route)] # <<>>
               /\ longer[k].from # "id" =>
                    "none" \notin {buffer[r][longer[k].from], buffer[r][longer[k].to]}
    <3>0. k \in done[r] + 1 .. n + 1
      BY <2>3 DEF Pending
    <3>1. CASE k = n + 1
      BY <2>3, <2>6, <2>8, <3>1
    <3>2. CASE k # n + 1
      <4>1. k \in Pending(issued[r], done[r]) /\ longer[k] = issued[r][k]
        BY <1>9, <2>1, <2>3, <3>0, <3>2 DEF Pending
      <4> QED
        BY <2>4, <2>8, <4>1 DEF CallsInOrder
    <3> QED
      BY <3>1, <3>2
  <2>9. done[r] <= Len(longer)
    BY <1>9, <2>1, <2>3
  <2>10. \A slot \in Slots : comm[r][slot] # <<>> => Slot(comm[r][slot]) = slot
    BY <2>4 DEF CallsInOrder
  <2> QED
    BY <1>1, <1>11, <2>2, <2>7, <2>8, <2>9, <2>10 DEF CallsInOrder
<1>16. wrong' = {}
  BY <1>1 DEF IInv
<1> QED
  BY <1>1, <1>2, <1>11, <1>13, <1>14, <1>15, <1>16, StepKeeps

\* An exchange leaves the answer: all the calls whose data it gets belong to
\* it and give what was to be sent.
LEMMA ResultIsAnswer ==
  ASSUME IInv, NEW r \in Ranks, NEW k \in Nat \ {0}, NEW op, op = issued[r][k].op, Writes(op, r),
         \A s \in Sources(op, r) : HasBegun(s, k, op)
  PROVE  Result(r, k) = "answer"
<1> DEFINE from == IF op \in {"Broadcast", "Bcast", "Scatter", "Recv"} THEN {0} ELSE Sources(op, r)
           wanted == IF op \in {"Broadcast", "Bcast"} THEN {"seed", "answer"} ELSE {"seed"}
<1>1. op \notin Joins /\ op # "Send"
  BY DEF Writes
<1>2. from \subseteq Sources(op, r) /\ from \subseteq Ranks
  BY <1>1, RanksOf DEF Sources, IInv
<1>3. ASSUME NEW s \in from
      PROVE  issued[s][k].gives \in wanted
  <2>1. HasBegun(s, k, op) /\ s \in Ranks
    BY <1>2
  <2>2. k \in DOMAIN issued[s]
    BY <2>1, RanksOf DEF HasBegun, IInv
  <2>3. GivesRight(issued[s][k].op, s, issued[s][k].gives)
    BY <2>1, <2>2 DEF IInv, CallsInOrder
  <2>4. CASE op \in {"Broadcast", "Bcast"}
    <3>1. issued[s][k].op = op /\ s = 0
      BY <2>1, <2>4 DEF HasBegun
    <3> QED
      BY <2>3, <2>4, <3>1 DEF GivesRight, Joins
  <2>5. CASE op = "Scatter"
    <3>1. issued[s][k].op = op /\ s = 0
      BY <2>1, <2>5 DEF HasBegun
    <3> QED
      BY <2>3, <2>5, <3>1 DEF GivesRight, Joins
  <2>6. CASE op = "Recv"
    <3>1. issued[s][k].op = "Send"
      BY <2>1, <2>6 DEF HasBegun
    <3> QED
      BY <2>3, <2>6, <3>1 DEF GivesRight, Joins
  <2>7. CASE op \notin {"Broadcast", "Bcast", "Scatter", "Recv"}
    <3>1. issued[s][k].op = op
      BY <1>1, <2>1, <2>7 DEF HasBegun
    <3> QED
      BY <1>1, <2>3, <2>7, <3>1 DEF GivesRight
  <2> QED
    BY <2>4, <2>5, <2>6, <2>7
<1> HIDE DEF from, wanted
<1>4. Result(r, k) = IF \A s \in from : issued[s][k].gives \in wanted THEN "answer" ELSE "junk"
  BY DEF Result, from, wanted
<1> QED
  BY <1>3, <1>4

LEMMA RunKeeps ==
  ASSUME IInv, NEW r \in Ranks, Run(r)
  PROVE  IInv'
<1>1. PICK k, c : k = done[r] + 1 /\ c = issued[r][k]
  OBVIOUS
<1>2. /\ Shape /\ MayRun(r, Sources(c.op, r)) /\ done' = [done EXCEPT ![r] = k]
      /\ comm' = IF c.op \in Joins THEN [comm EXCEPT ![r][Slot(c.route)] = c.route] ELSE comm
      /\ buffer' = IF Writes(c.op, r) THEN [buffer EXCEPT ![r][c.to] = Result(r, k)] ELSE buffer
      /\ UNCHANGED <<build, program, size, todo, mpi, host, issued, wrong, exit>>
  BY <1>1 DEF Run, IInv
<1>3. /\ exit = "running" /\ done[r] # Len(issued[r])
      /\ \A s \in Sources(c.op, r) : HasBegun(s, k, c.op)
  BY <1>1, <1>2 DEF MayRun, Drained
<1>4. /\ issued[r] \in Seq(MadeCall) /\ Len(issued[r]) \in Nat /\ done[r] \in Nat
      /\ buffer[r] \in [Buf -> Content] /\ IsBuild(build)
      /\ comm[r] \in [inter: Routes(build) \cup {<<>>}, intra: Routes(build) \cup {<<>>}]
  BY <1>2, RanksOf DEF Shape
<1>5. CallsInOrder(r) /\ wrong = {}
  BY DEF IInv
<1>6. k \in Nat \ {0} /\ k \in DOMAIN issued[r] /\ c \in MadeCall /\ done[r] < Len(issued[r])
  <2>1. done[r] < Len(issued[r])
    BY <1>3, <1>4, <1>5 DEF CallsInOrder
  <2>2. k \in 1 .. Len(issued[r])
    BY <1>1, <1>4, <2>1
  <2> QED
    BY <1>1, <1>4, <2>1, <2>2
<1>7. c.route \in Routes(build) /\ c.route # <<>> /\ (Writes(c.op, r) => c.to \in Buf)
  BY <1>4, <1>6, RouteIsNoFailure DEF MadeCall, Writes
<1>8. Writes(c.op, r) => Result(r, k) = "answer"
  BY <1>1, <1>3, <1>6, ResultIsAnswer
<1>9. Slot(c.route) \in Slots
  BY DEF Slot, Slots
<1>10. PICK now : now = IF Writes(c.op, r) THEN [buffer[r] EXCEPT ![c.to] = "answer"] ELSE buffer[r]
  OBVIOUS
<1>11. PICK filled : filled = IF c.op \in Joins THEN [comm[r] EXCEPT ![Slot(c.route)] = c.route]
                              ELSE comm[r]
  OBVIOUS
<1>12. buffer'[r] = now /\ comm'[r] = filled /\ done'[r] = k
  BY <1>2, <1>8, <1>10, <1>11 DEF Shape
<1>13. \A q \in Ranks \ {r} : buffer'[q] = buffer[q] /\ comm'[q] = comm[q] /\ done'[q] = done[q]
  BY <1>2 DEF Shape
<1>14. now \in [Buf -> Content]
  BY <1>4, <1>7, <1>10 DEF Content
<1>15. filled \in [inter: Routes(build) \cup {<<>>}, intra: Routes(build) \cup {<<>>}]
  BY <1>4, <1>7, <1>9, <1>11 DEF Slots
<1>16. Ranks' = Ranks
  BY <1>2 DEF Ranks
<1>17. Shape'
  <2>1. buffer' \in [Ranks -> [Buf -> Content]]
    <3>1. CASE Writes(c.op, r)
      <4>1. PICK h \in [Ranks -> [Buf -> Content]], y \in Buf, v \in Content :
              h = buffer /\ y = c.to /\ v = "answer"
        BY <1>2, <1>7, <3>1 DEF Shape, Content
      <4>2. [h EXCEPT ![r][y] = v] \in [Ranks -> [Buf -> Content]]
        OBVIOUS
      <4> QED
        BY <1>2, <1>8, <3>1, <4>1, <4>2
    <3>2. CASE ~Writes(c.op, r)
      BY <1>2, <3>2 DEF Shape
    <3> QED
      BY <3>1, <3>2
  <2>2. comm' \in [Ranks -> [inter: Routes(build) \cup {<<>>}, intra: Routes(build) \cup {<<>>}]]
    <3>1. CASE c.op \in Joins
      <4>1. comm' = [comm EXCEPT ![r] = filled]
        BY <1>2, <1>11, <3>1
      <4> QED
        BY <1>2, <1>15, <4>1 DEF Shape
    <3>2. CASE c.op \notin Joins
      BY <1>2, <3>2 DEF Shape
    <3> QED
      BY <3>1, <3>2
  <2>3. done' \in [Ranks -> Nat]
    BY <1>2, <1>6 DEF Shape
  <2> QED
    BY <1>2, <2>1, <2>2, <2>3, SameJob DEF Shape
<1>18. CallsInOrder(r)'
  <2>1. \A i \in Pending(issued[r], k) : i \in Pending(issued[r], done[r])
    BY <1>1, <1>4 DEF Pending
  <2>2. k <= Len(issued[r])
    BY <1>1, <1>4, <1>6
  <2>3. \A slot \in Slots : filled[slot] # <<>> => Slot(filled[slot]) = slot
    BY <1>4, <1>5, <1>9, <1>11 DEF CallsInOrder, Slots
  <2>4. \A slot \in Slots : comm[r][slot] # <<>> => filled[slot] # <<>>
    BY <1>4, <1>7, <1>9, <1>11 DEF Slots
  <2>5. \A y \in Buf : buffer[r][y] # "none" => now[y] # "none"
    BY <1>4, <1>7, <1>10
  <2>6. ASSUME NEW i \in Pending(issued[r], k), issued[r][i].op \notin Joins
        PROVE  /\ filled[Slot(issued[r][i].route)] # <<>>
               /\ issued[r][i].from # "id" =>
                    "none" \notin {now[issued[r][i].from], now[issued[r][i].to]}
    <3>1. issued[r][i] \in MadeCall
      BY <1>4, <1>6, <2>6 DEF Pending
    <3>2. issued[r][i].from \in Buf /\ issued[r][i].to \in Buf
      BY <2>6, <3>1 DEF MadeCall
    <3>3. Slot(issued[r][i].route) \in Slots
      BY DEF Slot, Slots
    <3> QED
      BY <1>5, <2>1, <2>4, <2>5, <2>6, <3>2, <3>3 DEF CallsInOrder
  <2> QED
    BY <1>2, <1>5, <1>12, <2>2, <2>3, <2>6 DEF CallsInOrder
<1>19. Typed(r)'
  <2>1. PICK a \in Known, b \in Known : Fits(r, a) /\ Runs(program, r, todo[r], a, b)
    BY <1>3 DEF IInv, Typed
  <2>2. Held(r) = buffer[r] /\ Held(r)' = buffer'[r]
    BY <1>2, <1>3 DEF Held
  <2>3. Agrees(r, buffer[r], host[r], mpi[r], comm[r], issued[r], done[r], a)
    BY <2>1, <2>2 DEF Fits
  <2>4. Agrees(r, now, host[r], mpi[r], filled, issued[r], k, a)
    <3>1. PICK T : T = Routes(build) \cup {<<>>}
      OBVIOUS
    <3>2. comm[r] \in [inter: T, intra: T] /\ c.route \in T
      BY <1>4, <1>7, <3>1
    <3> QED
      BY <1>1, <1>4, <1>6, <1>7, <1>10, <1>11, <2>3, <3>2, AfterRun
  <2>5. Fits(r, a)'
    BY <1>2, <1>12, <2>2, <2>4 DEF Fits
  <2> QED
    BY <1>2, <2>1, <2>5 DEF Typed
<1>20. ASSUME NEW q \in Ranks, q # r
       PROVE  Typed(q)' /\ CallsInOrder(q)'
  <2>1. Typed(q) /\ CallsInOrder(q)
    BY <1>3 DEF IInv
  <2>2. Held(q)' = Held(q)
    BY <1>2, <1>13, <1>20 DEF Held
  <2>3. Typed(q)'
    BY <1>2, <1>13, <1>20, <2>1, <2>2 DEF Typed, Fits
  <2> QED
    BY <1>2, <1>13, <1>20, <2>1, <2>3 DEF CallsInOrder
<1> QED
  BY <1>2, <1>5, <1>16, <1>17, <1>18, <1>19, <1>20 DEF IInv

\* The job ends.
LEMMA EndKeeps ==
  ASSUME IInv, exit' \in {"success", "failure"},
         UNCHANGED <<build, program, size, todo, comm, mpi, buffer, host, issued, done, wrong>>
  PROVE  IInv'
<1>1. Shape'
  BY SameJob DEF IInv, Shape
<1>2. Ranks' = Ranks /\ \A r \in Ranks : CallsInOrder(r)'
  BY DEF IInv, CallsInOrder, Ranks
<1> QED
  BY <1>1, <1>2 DEF IInv

LEMMA SpawnKeeps ==
  ASSUME IInv, Spawn
  PROVE  IInv'
<1>1. exit = "spawn" /\ Shape
      /\ UNCHANGED <<build, program, size, todo, comm, mpi, host, issued, done, wrong>>
  BY DEF Spawn, IInv
<1>2. CASE exit' = "failure" /\ UNCHANGED buffer
  BY <1>1, <1>2, EndKeeps
<1>3. CASE exit' = "running" /\ buffer' = [r \in Ranks |-> [buffer[r] EXCEPT !.id = "seed"]]
  <2>1. Ranks' = Ranks
    BY <1>1 DEF Ranks
  <2>2. ASSUME NEW r \in Ranks
        PROVE  /\ buffer'[r] = [buffer[r] EXCEPT !["id"] = "seed"]
               /\ buffer'[r] \in [Buf -> Content]
               /\ \A y \in Buf : buffer'[r][y] = "none" => buffer[r][y] = "none"
    <3>1. buffer[r] \in [Buf -> Content]
      BY <1>1, RanksOf
    <3>2. buffer'[r] = [buffer[r] EXCEPT !["id"] = "seed"]
      BY <1>3
    <3>3. PICK h \in [Buf -> Content], y \in Buf, v \in Content :
            h = buffer[r] /\ y = "id" /\ v = "seed" /\ buffer'[r] = [h EXCEPT ![y] = v]
      BY <3>1, <3>2 DEF Buf, Content
    <3>4. [h EXCEPT ![y] = v] \in [Buf -> Content] /\ v # "none"
      BY <3>3
    <3> QED
      BY <3>2, <3>3, <3>4
  <2>3. Shape'
    <3>1. buffer' \in [Ranks -> [Buf -> Content]]
      <4>1. DOMAIN buffer' = Ranks /\ buffer' = [r \in Ranks |-> buffer'[r]]
        BY <1>3
      <4> QED
        BY <2>2, <4>1
    <3> QED
      BY <1>1, <1>3, <3>1, SameJob DEF Shape
  <2>4. ASSUME NEW r \in Ranks
        PROVE  CallsInOrder(r)'
    <3>1. CallsInOrder(r) /\ issued[r] \in Seq(MadeCall) /\ done[r] \in Nat
      BY <1>1, RanksOf DEF IInv
    <3>2. \A k \in Pending(issued[r], done[r]) : issued[r][k].op \notin Joins =>
            issued[r][k].from \in Buf /\ issued[r][k].to \in Buf
      <4>1. \A k \in Pending(issued[r], done[r]) : issued[r][k] \in MadeCall
        BY <3>1 DEF Pending
      <4> QED
        BY <4>1 DEF MadeCall
    <3> QED
      BY <1>1, <2>2, <3>1, <3>2 DEF CallsInOrder
  <2>5. ASSUME NEW r \in Ranks
        PROVE  Typed(r)'
    <3>1. Typed(r)
      BY <1>1 DEF IInv
    <3>2. Held(r)' = Held(r)
      BY <1>1, <1>3, <2>2 DEF Held
    <3> QED
      BY <1>1, <3>1, <3>2 DEF Typed, Fits
  <2> QED
    BY <1>1, <2>1, <2>3, <2>4, <2>5 DEF IInv
<1> QED
  BY <1>2, <1>3 DEF Spawn

LEMMA JoinKeeps ==
  ASSUME IInv, Join
  PROVE  IInv'
BY EndKeeps DEF Join

LEMMA NextKeeps ==
  ASSUME IInv, [Next]_vars
  PROVE  IInv'
<1>1. CASE Spawn
  BY <1>1, SpawnKeeps
<1>2. CASE Join
  BY <1>2, JoinKeeps
<1>3. ASSUME NEW r \in Ranks, Step(r)
      PROVE  IInv'
  <2>1. CASE Fail(r)
    BY <2>1, EndKeeps DEF Fail
  <2>2. CASE CallLocal(r)
    BY <2>2, LocalKeeps
  <2>3. CASE Issue(r)
    BY <2>3, IssueKeeps
  <2>4. CASE FillBuffer(r)
    BY <2>4, FillKeeps
  <2>5. CASE Synchronize(r)
    BY <2>5, SyncKeeps
  <2>6. CASE ClearHostBuffer(r)
    BY <2>6, ClearKeeps
  <2>7. CASE CopyToHost(r)
    BY <2>7, CopyKeeps
  <2>8. CASE ValidateResult(r)
    BY <2>8, ValidateKeeps
  <2>9. CASE FreeBuffer(r)
    BY <2>9, FreeKeeps
  <2> QED
    BY <1>3, <2>1, <2>2, <2>3, <2>4, <2>5, <2>6, <2>7, <2>8, <2>9 DEF Step
<1>4. ASSUME NEW r \in Ranks, Run(r)
      PROVE  IInv'
  BY <1>4, RunKeeps
<1>5. CASE UNCHANGED vars
  <2>1. /\ UNCHANGED <<build, program, size>>
        /\ UNCHANGED <<todo, comm, mpi, buffer, host, issued, done, wrong, exit>>
    BY <1>5 DEF vars
  <2>2. Shape'
    BY <2>1, SameJob DEF IInv, Shape
  <2>3. Ranks' = Ranks /\ \A r \in Ranks : CallsInOrder(r)' = CallsInOrder(r) /\ Typed(r)' = Typed(r)
    BY <2>1 DEF Ranks, CallsInOrder, Typed, Fits, Held
  <2> QED
    BY <2>1, <2>2, <2>3 DEF IInv
<1> QED
  BY <1>1, <1>2, <1>3, <1>4, <1>5 DEF Next

-----------------------------------------------------------------------------
\* What the invariant says.

LEMMA CallsOfRanks ==
  ASSUME IInv, NEW r \in Ranks, NEW k \in done[r] + 1 .. Len(issued[r])
  PROVE  /\ k \in Pending(issued[r], done[r]) /\ issued[r][k] \in MadeCall
         /\ issued[r][k].op \notin Joins =>
              /\ comm[r][Slot(issued[r][k].route)] # <<>>
              /\ issued[r][k].from # "id" =>
                   "none" \notin {buffer[r][issued[r][k].from], buffer[r][issued[r][k].to]}
<1>1. issued[r] \in Seq(MadeCall) /\ done[r] \in Nat /\ CallsInOrder(r)
  BY RanksOf DEF IInv
<1>2. k \in 1 .. Len(issued[r])
  BY <1>1
<1> QED
  BY <1>1, <1>2 DEF Pending, CallsInOrder

LEMMA IInvTypes ==
  ASSUME IInv
  PROVE  TypeOK
<1>1. Shape
  BY DEF IInv
<1>2. ASSUME NEW r \in Ranks
      PROVE  /\ \A i \in DOMAIN todo[r] : todo[r][i].op \in Operations \cup {"none"}
             /\ \A slot \in {"inter", "intra"} :
                  comm[r][slot] \in {<<>>} \cup (BackendType \X DeviceType)
             /\ mpi[r] \in {"none", "up", "down"}
             /\ \A b \in DOMAIN buffer[r] :
                  buffer[r][b] \in {"none", "zero", "seed", "answer", "junk"}
             /\ host[r] \in {"none", "zero", "seed", "answer", "junk"}
             /\ done[r] \in 0 .. Len(issued[r])
  <2>1. /\ todo[r] \in Seq(CompiledStep) /\ issued[r] \in Seq(MadeCall)
        /\ Len(issued[r]) \in Nat /\ done[r] \in Nat
        /\ buffer[r] \in [Buf -> Content] /\ host[r] \in Content
        /\ comm[r] \in [inter: Routes(build) \cup {<<>>}, intra: Routes(build) \cup {<<>>}]
    BY <1>1, RanksOf
  <2>2. \A i \in DOMAIN todo[r] : todo[r][i].op \in Operations \cup {"none"}
    <3>1. \A i \in DOMAIN todo[r] : todo[r][i] \in CompiledStep
      BY <2>1
    <3> QED
      BY <3>1 DEF CompiledStep
  <2>3. \A slot \in {"inter", "intra"} :
          comm[r][slot] \in {<<>>} \cup (BackendType \X DeviceType)
    <3>1. \A y \in Routes(build) : y \in BackendType \X DeviceType
      BY <1>1, RoutesOf DEF Shape
    <3> QED
      BY <2>1, <3>1
  <2>4. mpi[r] \in {"none", "up", "down"}
    BY <1>1 DEF Shape
  <2>5. done[r] \in 0 .. Len(issued[r])
    BY <2>1 DEF IInv, CallsInOrder
  <2> QED
    BY <2>1, <2>2, <2>3, <2>4, <2>5 DEF Content
<1>3. wrong \subseteq Ranks
  BY DEF IInv
<1> QED
  BY <1>1, <1>2, <1>3 DEF TypeOK, Shape

LEMMA IInvWork ==
  ASSUME IInv
  PROVE  WorkHasItsBuffers
BY CallsOfRanks DEF WorkHasItsBuffers

LEMMA IInvOwner ==
  ASSUME IInv
  PROVE  OneOwner
<1>1. SUFFICES ASSUME NEW r \in Ranks, NEW k \in done[r] + 1 .. Len(issued[r]),
                      issued[r][k].op \notin Joins
               PROVE  issued[r][k].route = comm[r][Slot(issued[r][k].route)]
  BY DEF OneOwner
<1>2. PICK route \in Routes(build) : route = issued[r][k].route
  BY CallsOfRanks DEF MadeCall
<1>3. comm[r][Slot(route)] # <<>> /\ CallsInOrder(r)
      /\ comm[r] \in [inter: Routes(build) \cup {<<>>}, intra: Routes(build) \cup {<<>>}]
  BY <1>1, <1>2, CallsOfRanks, RanksOf DEF IInv
<1>4. Slot(route) \in {"inter", "intra"}
  BY DEF Slot
<1>5. comm[r][Slot(route)] \in Routes(build) /\ Slot(comm[r][Slot(route)]) = Slot(route)
  BY <1>3, <1>4 DEF CallsInOrder, Slots
<1> QED
  BY <1>2, <1>5, OneRoute DEF IInv, Shape

-----------------------------------------------------------------------------
\* The pieces the programs are made of.

SourceStep == [do: Doings, op: Operations \cup {"none"}, from: Names, to: Names]

Leads(p, r, s, a, b) == s \in Seq(SourceStep) /\ Runs(p, r, s, a, b)

\* What is known of a rank once it has its id: nothing of the id.
Knows(send, recv, copy, writes, state, up, made) ==
  [has |-> [x \in Buf |-> IF x = "send" THEN send ELSE IF x = "recv" THEN recv ELSE Content],
   host |-> copy, writes |-> writes, busy |-> state = "busy", mpi |-> up, made |-> made]

Contents == SUBSET Content
Ups == {"none", "up", "down"}
Targets == SUBSET {"send", "recv"}
SlotSets == SUBSET Slots

LEMMA LeadsNothing ==
  ASSUME NEW p, NEW r, NEW a \in Known
  PROVE  Leads(p, r, <<>>, a, a)
BY RunsNothing DEF Leads

LEMMA LeadsThen ==
  ASSUME NEW p, NEW r, NEW s, NEW t, NEW a, NEW b, NEW c,
         Leads(p, r, s, a, b), Leads(p, r, t, b, c)
  PROVE  Leads(p, r, s \o t, a, c)
BY RunsThen DEF Leads

LEMMA LeadsStep ==
  ASSUME NEW p, NEW r, NEW x \in SourceStep, NEW a, NEW b, StepOK(p, r, x, a, b)
  PROVE  Leads(p, r, <<x>>, a, b)
BY RunsStep DEF Leads

LEMMA LeadsTimes ==
  ASSUME NEW p, NEW r, NEW call, Len(call) \in {0, 1}, NEW n \in Nat,
         NEW a \in Known, Leads(p, r, call, a, a)
  PROVE  Leads(p, r, Times(n, call), a, a)
<1>1. Runs(p, r, Times(n, call), a, a)
  BY RunsTimes DEF Leads
<1>2. Times(n, call) \in Seq(SourceStep)
  <2>1. CASE Len(call) = 0
    <3>1. n * Len(call) = 0
      BY <2>1
    <3> QED
      BY <3>1 DEF Times
  <2>2. CASE Len(call) = 1
    <3>1. n * Len(call) = n /\ call[1] \in SourceStep
      BY <2>2 DEF Leads
    <3>2. [i \in 1 .. n |-> call[1]] \in Seq(SourceStep)
      BY <3>1
    <3> QED
      BY <3>1, <3>2 DEF Times
  <2> QED
    BY <2>1, <2>2
<1> QED
  BY <1>1, <1>2 DEF Leads

\* The first call may lead to what the others keep.
LEMMA LeadsTimesFrom ==
  ASSUME NEW p, NEW r, NEW call, Len(call) = 1, NEW n \in Nat \ {0},
         NEW a \in Known, NEW b \in Known, Leads(p, r, call, a, b), Leads(p, r, call, b, b)
  PROVE  Leads(p, r, Times(n, call), a, b)
<1> DEFINE f == [i \in 0 .. n |-> IF i = 0 THEN a ELSE b]
<1>1. n * Len(call) = n /\ call[1] \in SourceStep
  BY DEF Leads
<1>2. Times(n, call) = [i \in 1 .. n |-> call[1]] /\ Len(Times(n, call)) = n
      /\ Times(n, call) \in Seq(SourceStep)
  BY <1>1 DEF Times
<1>3. ASSUME NEW c \in {a, b}
      PROVE  StepOK(p, r, call[1], c, b)
  <2>1. PICK g \in [0 .. Len(call) -> Known] :
        /\ g[0] = c /\ g[Len(call)] = b
        /\ \A j \in 1 .. Len(call) : StepOK(p, r, call[j], g[j - 1], g[j])
    <3>1. Runs(p, r, call, c, b)
      BY DEF Leads
    <3> QED
      BY <3>1 DEF Runs
  <2>2. StepOK(p, r, call[1], g[1 - 1], g[1])
    BY <2>1
  <2> QED
    BY <2>1, <2>2
<1>4. f \in [0 .. n -> Known] /\ f[0] = a /\ f[n] = b
  OBVIOUS
<1>5. \A i \in 1 .. n : f[i - 1] \in {a, b} /\ f[i] = b
  OBVIOUS
<1> HIDE DEF f
<1>6. \A i \in 1 .. n : StepOK(p, r, Times(n, call)[i], f[i - 1], f[i])
  BY <1>2, <1>3, <1>5
<1> QED
  BY <1>2, <1>4, <1>6 DEF Leads, Runs

LEMMA Words ==
  /\ \A x \in Buf \cup Content : x \in Names
  /\ "none" \in Names /\ "zero" \in Names /\ "seed" \in Names /\ "junk" \in Names
  /\ "send" \in Names /\ "recv" \in Names /\ "id" \in Names
BY DEF Names, Buf, Content

LEMMA LocalSteps ==
  ASSUME NEW do \in Doings, NEW from \in Names, NEW to \in Names
  PROVE  [do |-> do, op |-> "none", from |-> from, to |-> to] \in SourceStep
BY DEF SourceStep

Sorts(S, R, H, W, B, m, M) ==
  /\ S \in Contents /\ R \in Contents /\ H \in Contents /\ W \in Targets
  /\ B \in {"busy", "idle"} /\ m \in Ups /\ M \in SlotSets

LEMMA KnowsOf ==
  ASSUME NEW S, NEW R, NEW H, NEW W, NEW B, NEW m, NEW M, Sorts(S, R, H, W, B, m, M),
         NEW a, a = Knows(S, R, H, W, B, m, M)
  PROVE  /\ a \in Known
         /\ a.has["send"] = S /\ a.has["recv"] = R /\ a.has["id"] = Content
         /\ a.host = H /\ a.writes = W /\ (a.busy <=> B = "busy") /\ a.mpi = m /\ a.made = M
<1>1. [x \in Buf |-> IF x = "send" THEN S ELSE IF x = "recv" THEN R ELSE Content]
        \in [Buf -> SUBSET Content]
  BY DEF Contents, Sorts
<1>2. a \in Known
  BY <1>1 DEF Sorts, Knows, Known, Contents, Ups, Targets, SlotSets, Buf
<1> QED
  BY <1>2 DEF Knows, Buf

\* What is left of the contents of a buffer when all calls have run.
Left(x, C, W) == IF x \in W THEN {"answer"} ELSE C

LEMMA DrainKnows ==
  ASSUME NEW a \in Known, a.writes \in Targets
  PROVE  /\ Drain(a) \in Known
         /\ Drain(a).has["send"] = Left("send", a.has["send"], a.writes)
         /\ Drain(a).has["recv"] = Left("recv", a.has["recv"], a.writes)
         /\ Drain(a).has["id"] = a.has["id"]
         /\ Drain(a).writes = {} /\ Drain(a).busy = FALSE /\ Drain(a).host = a.host
         /\ Drain(a).mpi = a.mpi /\ Drain(a).made = a.made
<1>1. "send" \in Buf /\ "recv" \in Buf /\ "id" \in Buf /\ "id" \notin a.writes
  BY DEF Buf, Targets
<1> QED
  BY <1>1, DrainOf DEF Left

\* Waiting for the stream.
LEMMA SyncLeads ==
  ASSUME NEW p, NEW r, NEW S, NEW R, NEW H, NEW W, NEW B, NEW m, NEW M, NEW T, NEW U, NEW C,
         Sorts(S, R, H, W, B, m, M), Sorts(T, U, H, {}, C, m, M),
         Left("send", S, W) \subseteq T, Left("recv", R, W) \subseteq U
  PROVE  Leads(p, r, Sync, Knows(S, R, H, W, B, m, M), Knows(T, U, H, {}, C, m, M))
<1> DEFINE x == [do |-> "sync", op |-> "none", from |-> "none", to |-> "none"]
<1>1. PICK a, b : a = Knows(S, R, H, W, B, m, M) /\ b = Knows(T, U, H, {}, C, m, M)
  OBVIOUS
<1>0. "sync" \in Doings
  BY DEF Doings
<1>2. /\ b \in Known
      /\ b.has["send"] = T /\ b.has["recv"] = U /\ b.has["id"] = Content
      /\ b.host = H /\ b.writes = {} /\ b.mpi = m /\ b.made = M
  BY <1>1, KnowsOf
<1>3. /\ a \in Known
      /\ a.has["send"] = S /\ a.has["recv"] = R /\ a.has["id"] = Content
      /\ a.host = H /\ a.writes = W /\ (a.busy <=> B = "busy") /\ a.mpi = m /\ a.made = M
      /\ W \in Targets
  BY <1>1, KnowsOf DEF Sorts
<1>4. /\ Drain(a).has["send"] = Left("send", S, W)
      /\ Drain(a).has["recv"] = Left("recv", R, W) /\ Drain(a).has["id"] = Content
      /\ Drain(a).writes = {} /\ Drain(a).busy = FALSE /\ Drain(a).host = H
      /\ Drain(a).mpi = m /\ Drain(a).made = M
  BY <1>3, DrainKnows
<1>4a. Covers(b, Drain(a))
  BY <1>2, <1>4 DEF Covers, Buf
<1>5. StepOK(p, r, x, a, b)
  BY <1>2, <1>3, <1>4a DEF StepOK, Needs, After
<1>6. x \in SourceStep
  BY <1>0, Words, LocalSteps
<1>7. Leads(p, r, <<x>>, a, b)
  BY <1>5, <1>6, LeadsStep
<1> QED
  BY <1>1, <1>7 DEF Sync, Local

Holds(x, S, R) == IF x = "send" THEN S ELSE R

\* A copy to the host.
LEMMA CopyLeads ==
  ASSUME NEW p, NEW r, NEW S, NEW R, NEW H, NEW W, NEW B, NEW m, NEW M, NEW T, NEW U, NEW J,
         NEW C, Sorts(S, R, H, W, B, m, M), Sorts(T, U, J, {}, C, m, M),
         Left("send", S, W) \subseteq T, Left("recv", R, W) \subseteq U,
         NEW from \in {"send", "recv"}, Holds(from, T, U) \subseteq J
  PROVE  Leads(p, r, CopyOut(from), Knows(S, R, H, W, B, m, M), Knows(T, U, J, {}, C, m, M))
<1> DEFINE x == [do |-> "copyOut", op |-> "none", from |-> from, to |-> from]
<1>1. PICK a, b : a = Knows(S, R, H, W, B, m, M) /\ b = Knows(T, U, J, {}, C, m, M)
  OBVIOUS
<1>2. /\ b \in Known
      /\ b.has["send"] = T /\ b.has["recv"] = U /\ b.has["id"] = Content
      /\ b.host = J /\ b.writes = {} /\ b.mpi = m /\ b.made = M
  BY <1>1, KnowsOf
<1>3. /\ a \in Known
      /\ a.has["send"] = S /\ a.has["recv"] = R /\ a.has["id"] = Content
      /\ a.host = H /\ a.writes = W /\ (a.busy <=> B = "busy") /\ a.mpi = m /\ a.made = M
  BY <1>1, KnowsOf
<1>4. PICK d : d = Drain(a) /\ W \in Targets
  BY DEF Sorts
<1>5. /\ d \in Known /\ d.has["send"] = Left("send", S, W)
      /\ d.has["recv"] = Left("recv", R, W) /\ d.has["id"] = Content
      /\ d.writes = {} /\ d.busy = FALSE /\ d.host = H
      /\ d.mpi = m /\ d.made = M
  BY <1>3, <1>4, DrainKnows
<1>6. PICK e : e = Copied(a, from)
  OBVIOUS
<1>7. /\ e.has = d.has /\ e.writes = {} /\ e.busy = FALSE /\ e.host = d.has[from]
      /\ e.mpi = m /\ e.made = M
  BY <1>4, <1>5, <1>6 DEF Copied, Known
<1>8. Covers(b, e)
  BY <1>2, <1>5, <1>7 DEF Covers, Buf, Holds
<1>9. StepOK(p, r, x, a, b)
  BY <1>2, <1>3, <1>6, <1>8 DEF StepOK, Needs, After, Buf
<1>10. x \in SourceStep
  BY Words, LocalSteps DEF Doings
<1>11. Leads(p, r, <<x>>, a, b)
  BY <1>9, <1>10, LeadsStep
<1> QED
  BY <1>1, <1>11 DEF CopyOut, Local

\* A buffer is filled or freed.
LEMMA FillLeads ==
  ASSUME NEW p, NEW r, NEW S, NEW R, NEW H, NEW B, NEW m, NEW M,
         Sorts(S, R, H, {}, B, m, M),
         NEW to \in {"send", "recv"}, NEW value \in Content
  PROVE  LET after == Knows(IF to = "send" THEN {value} ELSE S,
                            IF to = "recv" THEN {value} ELSE R, H, {}, "idle", m, M)
         IN  /\ value # "none" =>
                  Leads(p, r, Fill(to, value), Knows(S, R, H, {}, B, m, M), after)
             /\ value = "none" =>
                  Leads(p, r, Local("free", to), Knows(S, R, H, {}, "idle", m, M), after)
<1>1. PICK a, b, T, U, C :
        /\ a = Knows(S, R, H, {}, C, m, M) /\ C = IF value = "none" THEN "idle" ELSE B
        /\ b = Knows(T, U, H, {}, "idle", m, M)
        /\ T = (IF to = "send" THEN {value} ELSE S) /\ U = IF to = "recv" THEN {value} ELSE R
  OBVIOUS
<1>2. /\ b \in Known
      /\ b.has["send"] = T /\ b.has["recv"] = U /\ b.has["id"] = Content
      /\ b.host = H /\ b.writes = {} /\ ~b.busy /\ b.mpi = m /\ b.made = M
  <2>1. Sorts(T, U, H, {}, "idle", m, M)
    BY <1>1 DEF Contents, Sorts
  <2> QED
    BY <1>1, <2>1, KnowsOf
<1>3. /\ a \in Known
      /\ a.has["send"] = S /\ a.has["recv"] = R /\ a.has["id"] = Content
      /\ a.host = H /\ a.writes = {} /\ a.mpi = m /\ a.made = M
      /\ (a.busy <=> C = "busy")
  <2>1. Sorts(S, R, H, {}, C, m, M)
    BY <1>1 DEF Sorts
  <2> QED
    BY <1>1, <2>1, KnowsOf
<1>4. PICK d : d = Drain(a)
  OBVIOUS
<1>5. /\ d \in Known /\ d.has["send"] = S /\ d.has["recv"] = R /\ d.has["id"] = Content
      /\ d.writes = {} /\ d.busy = FALSE /\ d.host = H /\ d.mpi = m /\ d.made = M
  <2>1. Left("send", S, {}) = S /\ Left("recv", R, {}) = R
    BY DEF Left
  <2>2. {} \in Targets
    BY DEF Targets
  <2> QED
    BY <1>3, <1>4, <2>1, <2>2, DrainKnows
<1>6. PICK e : e = Filled(a, to, value)
  OBVIOUS
<1>7. /\ e.has = [d.has EXCEPT ![to] = {value}] /\ e.writes = {} /\ e.busy = FALSE /\ e.host = H
      /\ e.mpi = m /\ e.made = M
  BY <1>4, <1>5, <1>6 DEF Filled, Known
<1>8. e.has["send"] = T /\ e.has["recv"] = U /\ e.has["id"] = Content
  BY <1>1, <1>5, <1>7, KnownOf DEF Buf
<1>9. Covers(b, e)
  BY <1>2, <1>7, <1>8 DEF Covers, Buf
<1>10. ASSUME value # "none"
       PROVE  Leads(p, r, Fill(to, value), a, b)
  <2> DEFINE x == [do |-> "fill", op |-> "none", from |-> value, to |-> to]
  <2>1. StepOK(p, r, x, a, b)
    BY <1>2, <1>3, <1>6, <1>9, <1>10 DEF StepOK, Needs, After, Buf
  <2>2. x \in SourceStep
    BY Words, LocalSteps DEF Doings
  <2>3. Leads(p, r, <<x>>, a, b)
    BY <2>1, <2>2, LeadsStep
  <2> QED
    BY <2>3 DEF Fill
<1>11. ASSUME value = "none"
       PROVE  Leads(p, r, Local("free", to), a, b)
  <2> DEFINE x == [do |-> "free", op |-> "none", from |-> to, to |-> to]
  <2>1. StepOK(p, r, x, a, b)
    BY <1>1, <1>2, <1>3, <1>6, <1>9, <1>11 DEF StepOK, Needs, After, Buf
  <2>2. x \in SourceStep
    BY Words, LocalSteps DEF Doings
  <2>3. Leads(p, r, <<x>>, a, b)
    BY <2>1, <2>2, LeadsStep
  <2> QED
    BY <2>3 DEF Local
<1> QED
  BY <1>1, <1>10, <1>11

\* The host buffer is cleared, or holds the answer when it is validated.
LEMMA HostLeads ==
  ASSUME NEW p, NEW r, NEW S, NEW R, NEW B, NEW m, NEW M,
         Sorts(S, R, {"answer"}, {}, B, m, M)
  PROVE  /\ Leads(p, r, ClearHost, Knows(S, R, {"answer"}, {}, B, m, M),
                                   Knows(S, R, {"zero"}, {}, B, m, M))
         /\ Leads(p, r, Validate, Knows(S, R, {"answer"}, {}, B, m, M),
                                  Knows(S, R, {"answer"}, {}, B, m, M))
<1>1. PICK a, b : /\ a = Knows(S, R, {"answer"}, {}, B, m, M)
                  /\ b = Knows(S, R, {"zero"}, {}, B, m, M)
  OBVIOUS
<1>2. Sorts(S, R, {"zero"}, {}, B, m, M)
  BY DEF Sorts, Contents, Content
<1>3. /\ a \in Known
      /\ a.has["send"] = S /\ a.has["recv"] = R /\ a.has["id"] = Content
      /\ a.host = {"answer"} /\ a.writes = {} /\ (a.busy <=> B = "busy") /\ a.mpi = m /\ a.made = M
  BY <1>1, <1>2, KnowsOf
<1>4. /\ b \in Known
      /\ b.has["send"] = S /\ b.has["recv"] = R /\ b.has["id"] = Content
      /\ b.host = {"zero"} /\ b.writes = {} /\ (b.busy <=> B = "busy") /\ b.mpi = m /\ b.made = M
  BY <1>1, <1>2, KnowsOf
<1>5. Leads(p, r, ClearHost, a, b)
  <2> DEFINE x == [do |-> "clear", op |-> "none", from |-> "none", to |-> "none"]
  <2>1. PICK d : d = [a EXCEPT !.host = {"zero"}]
    OBVIOUS
  <2>2. /\ d.has = a.has /\ d.host = {"zero"} /\ d.writes = {} /\ (d.busy <=> B = "busy") /\ d.mpi = m
        /\ d.made = M
    BY <1>3, <2>1 DEF Known
  <2>3. Covers(b, d)
    BY <1>3, <1>4, <2>2 DEF Covers, Buf
  <2>4. StepOK(p, r, x, a, b)
    BY <1>3, <1>4, <2>1, <2>3 DEF StepOK, Needs, After
  <2>5. x \in SourceStep
    BY Words, LocalSteps DEF Doings
  <2>6. Leads(p, r, <<x>>, a, b)
    BY <2>4, <2>5, LeadsStep
  <2> QED
    BY <2>6 DEF ClearHost, Local
<1>6. Leads(p, r, Validate, a, a)
  <2> DEFINE x == [do |-> "validate", op |-> "none", from |-> "none", to |-> "none"]
  <2>1. Covers(a, a)
    BY DEF Covers
  <2>2. StepOK(p, r, x, a, a)
    BY <1>3, <2>1 DEF StepOK, Needs, After
  <2>3. x \in SourceStep
    BY Words, LocalSteps DEF Doings
  <2>4. Leads(p, r, <<x>>, a, a)
    BY <2>2, <2>3, LeadsStep
  <2> QED
    BY <2>4 DEF Validate, Local
<1> QED
  BY <1>1, <1>5, <1>6

\* The slot of the exchanges of a program.
OwnSlot(p) == IF p \in Mpi THEN "inter" ELSE "intra"

\* An exchange.
LEMMA ExchangeLeads ==
  ASSUME NEW p \in AllPrograms, NEW r, NEW op \in Exchanges(p),
         NEW S, NEW R, NEW H, NEW W, NEW B, NEW m, NEW M, NEW T, NEW U, NEW V,
         Sorts(S, R, H, W, B, m, M), Sorts(T, U, H, V, "busy", m, M),
         B = "busy" \/ W = {}, OwnSlot(p) \in M, S \subseteq T, R \subseteq U,
         NEW from \in {"send", "recv"}, NEW to \in {"send", "recv"},
         "none" \notin Holds(from, S, R), "none" \notin Holds(to, S, R),
         \A value \in Holds(from, S, R) : GivesRight(op, r, value),
         Writes(op, r) => "answer" \in Holds(to, T, U),
         V \subseteq W \/ (Writes(op, r) /\ V = {to})
  PROVE  Leads(p, r, Exchange(op, from, to), Knows(S, R, H, W, B, m, M),
                                             Knows(T, U, H, V, "busy", m, M))
<1> DEFINE x == [do |-> "exchange", op |-> op, from |-> from, to |-> to]
<1>1. PICK a, b : a = Knows(S, R, H, W, B, m, M) /\ b = Knows(T, U, H, V, "busy", m, M)
  OBVIOUS
<1>2. /\ b \in Known
      /\ b.has["send"] = T /\ b.has["recv"] = U /\ b.has["id"] = Content
      /\ b.host = H /\ b.writes = V /\ b.busy /\ b.mpi = m /\ b.made = M
  BY <1>1, KnowsOf
<1>3. /\ a \in Known
      /\ a.has["send"] = S /\ a.has["recv"] = R /\ a.has["id"] = Content
      /\ a.host = H /\ a.writes = W /\ (a.busy <=> B = "busy") /\ a.mpi = m /\ a.made = M
  BY <1>1, KnowsOf
<1>4. PICK d : d = Settled(a)
  OBVIOUS
<1>5. /\ d \in Known /\ d.has["send"] = S /\ d.has["recv"] = R /\ d.has["id"] = Content
      /\ d.writes = W /\ d.host = H /\ d.mpi = m /\ d.made = M
  <2>1. CASE B = "busy"
    BY <1>3, <1>4, <2>1, SettledOf
  <2>2. CASE B # "busy"
    <3>1. W = {} /\ d = Drain(a) /\ W \in Targets
      BY <1>3, <1>4, <2>2, SettledOf DEF Sorts
    <3>3. a.writes \in Targets /\ a.writes = {}
      BY <1>3, <3>1
    <3>4. /\ d \in Known /\ d.has["send"] = a.has["send"] /\ d.has["recv"] = a.has["recv"]
          /\ d.has["id"] = a.has["id"]
          /\ d.writes = {} /\ d.host = a.host /\ d.mpi = a.mpi /\ d.made = a.made
      BY <1>3, <3>1, <3>3, DrainKnows DEF Left
    <3> QED
      BY <1>3, <3>1, <3>4
  <2> QED
    BY <2>1, <2>2
<1>6. op \in Operations /\ op \notin Joins
  BY ExchangesOf
<1>7. Needs(p, r, x, a)
  <2>1. d.has[from] = Holds(from, S, R) /\ d.has[to] = Holds(to, S, R)
    BY <1>5 DEF Holds
  <2>2. MeantSlot(p, x) \in M
    BY DEF MeantSlot, OwnSlot
  <2>3. ExchangeNeeds(p, r, x, a)
    BY <1>3, <1>4, <2>1, <2>2 DEF ExchangeNeeds, Buf
  <2> QED
    BY <2>3 DEF Needs
<1>8. PICK e : e = AfterExchange(r, x, a)
  OBVIOUS
<1>9. /\ e.has = IF Writes(op, r) THEN [d.has EXCEPT ![to] = d.has[to] \cup {"answer"}] ELSE d.has
      /\ e.writes = IF Writes(op, r) THEN W \cup {to} ELSE W
      /\ e.host = H /\ e.mpi = m /\ e.made = M
  BY <1>4, <1>5, <1>8 DEF AfterExchange, Known
<1>10. \A y \in Buf : e.has[y] \subseteq b.has[y]
  <2>1. \A y \in Buf : d.has[y] \subseteq b.has[y]
    BY <1>2, <1>5 DEF Buf
  <2>2. Writes(op, r) => "answer" \in b.has[to]
    BY <1>2 DEF Holds
  <2> QED
    BY <1>5, <1>9, <2>1, <2>2, KnownOf
<1>11. Covers(b, e)
  BY <1>2, <1>9, <1>10 DEF Covers
<1>12. StepOK(p, r, x, a, b)
  BY <1>2, <1>3, <1>7, <1>8, <1>11 DEF StepOK, After
<1>13. x \in SourceStep
  BY <1>6, Words DEF SourceStep, Doings
<1>14. Leads(p, r, <<x>>, a, b)
  BY <1>12, <1>13, LeadsStep
<1> QED
  BY <1>1, <1>14 DEF Exchange

-----------------------------------------------------------------------------
\* How programs start and end.

\* A rank without buffers: id is what it may have as an id.
Fresh(id, writes, up, made) ==
  [has |-> [x \in Buf |-> IF x = "id" THEN id ELSE {"none"}], host |-> {"zero"},
   writes |-> writes, busy |-> FALSE, mpi |-> up, made |-> made]

FreshSorts(I, W, m, M) ==
  I \in Contents /\ W \in SUBSET Buf /\ m \in Ups /\ M \in SlotSets

LEMMA FreshOf ==
  ASSUME NEW I, NEW W, NEW m, NEW M, FreshSorts(I, W, m, M), NEW a, a = Fresh(I, W, m, M)
  PROVE  /\ a \in Known
         /\ a.has["send"] = {"none"} /\ a.has["recv"] = {"none"} /\ a.has["id"] = I
         /\ a.host = {"zero"} /\ a.writes = W /\ ~a.busy /\ a.mpi = m /\ a.made = M
<1>1. [x \in Buf |-> IF x = "id" THEN I ELSE {"none"}] \in [Buf -> SUBSET Content]
  BY DEF Contents, Content, FreshSorts
<1>2. a \in Known
  <2>1. {"zero"} \in SUBSET Content
    BY DEF Content
  <2>2. W \in SUBSET Buf /\ m \in {"none", "up", "down"} /\ M \in SUBSET Slots
    BY DEF FreshSorts, Ups, SlotSets
  <2> QED
    BY <1>1, <2>1, <2>2 DEF Fresh, Known
<1> QED
  BY <1>2 DEF Fresh, Buf

Start(p) == Fresh(IF p \in Threaded THEN {"seed"} ELSE {"none"}, {}, "none", {})
Started(up, made) == Knows({"none"}, {"none"}, {"zero"}, {}, "idle", up, made)

LEMMA ApiLeads ==
  ASSUME NEW p, NEW r, NEW op \in Operations, NEW a \in Known, NEW b \in Known,
         NEW x, x = [do |-> "api", op |-> op, from |-> "none", to |-> "none"],
         ApiNeeds(p, x, a), Covers(b, AfterApi(x, a))
  PROVE  Leads(p, r, Api(op), a, b)
<1>1. StepOK(p, r, x, a, b)
  BY DEF StepOK, Needs, After
<1>2. x \in SourceStep
  BY Words DEF SourceStep, Doings
<1>3. Leads(p, r, <<x>>, a, b)
  BY <1>1, <1>2, LeadsStep
<1> QED
  BY <1>3 DEF Api

LEMMA SetDeviceLeads ==
  ASSUME NEW p, NEW r, NEW I, NEW m, NEW M, FreshSorts(I, {}, m, M)
  PROVE  Leads(p, r, Local("SetDevice", "none"), Fresh(I, {}, m, M), Fresh(I, {}, m, M))
<1> DEFINE x == [do |-> "SetDevice", op |-> "none", from |-> "none", to |-> "none"]
<1>1. PICK a : a = Fresh(I, {}, m, M)
  OBVIOUS
<1>2. a \in Known /\ a.writes = {} /\ ~a.busy
  BY <1>1, FreshOf
<1>3. Covers(a, Drain(a))
  BY <1>2, DrainOf DEF Covers
<1>4. StepOK(p, r, x, a, a)
  BY <1>2, <1>3 DEF StepOK, Needs, After
<1>5. x \in SourceStep
  BY Words, LocalSteps DEF Doings
<1>6. Leads(p, r, <<x>>, a, a)
  BY <1>4, <1>5, LeadsStep
<1> QED
  BY <1>1, <1>6 DEF Local

\* MPI starts, or ends at once.
LEMMA MpiSetupLeads ==
  ASSUME NEW p \in Hybrid \cup Mpi, NEW r
  PROVE  /\ Leads(p, r, MpiSetup, Start(p), Fresh({"none"}, {}, "up", {}))
         /\ Leads(p, r, Api("Finalize"), Fresh({"none"}, {}, "up", {}),
                                         Fresh({"none"}, {}, "down", {}))
<1>0. p \notin Threaded /\ Start(p) = Fresh({"none"}, {}, "none", {})
  BY DEF Threaded, Hybrid, Mpi, Start
<1>1. PICK a, b, c : /\ a = Fresh({"none"}, {}, "none", {}) /\ b = Fresh({"none"}, {}, "up", {})
                     /\ c = Fresh({"none"}, {}, "down", {})
  OBVIOUS
<1>2. \A m \in Ups : FreshSorts({"none"}, {}, m, {})
  BY DEF FreshSorts, Contents, Content, Ups, SlotSets
<1>3. /\ a \in Known /\ b \in Known /\ c \in Known
      /\ \A y \in Buf : b.has[y] = a.has[y] /\ c.has[y] = a.has[y]
      /\ b.host = a.host /\ b.writes = a.writes /\ b.made = a.made /\ b.mpi = "up"
      /\ c.host = a.host /\ c.writes = a.writes /\ c.made = a.made /\ c.mpi = "down"
      /\ ~a.busy /\ ~b.busy /\ ~c.busy
  <2>1. \A m \in Ups : LET d == Fresh({"none"}, {}, m, {}) IN
          /\ d \in Known
          /\ d.has["send"] = {"none"} /\ d.has["recv"] = {"none"} /\ d.has["id"] = {"none"}
          /\ d.host = {"zero"} /\ d.writes = {} /\ ~d.busy /\ d.mpi = m /\ d.made = {}
    BY <1>2, FreshOf
  <2> QED
    BY <1>1, <2>1 DEF Ups, Buf
<1>4. PICK d, e : d = [a EXCEPT !.mpi = "up"] /\ e = [b EXCEPT !.mpi = "down"]
  OBVIOUS
<1>5. Covers(b, d) /\ Covers(c, e) /\ Covers(b, b)
  <2>1. /\ d.has = a.has /\ d.host = a.host /\ d.writes = a.writes /\ d.made = a.made
        /\ d.mpi = "up" /\ d.busy = a.busy
        /\ e.has = b.has /\ e.host = b.host /\ e.writes = b.writes /\ e.made = b.made
        /\ e.mpi = "down" /\ e.busy = b.busy
    BY <1>3, <1>4 DEF Known
  <2> QED
    BY <1>3, <2>1 DEF Covers
<1>6. {"Init", "GetRank", "GetSize", "Finalize"} \subseteq Operations
  BY DEF Operations, OmpiOperations
<1>7. Leads(p, r, Api("Init"), a, b)
  <2>1. PICK x : x = [do |-> "api", op |-> "Init", from |-> "none", to |-> "none"]
    OBVIOUS
  <2>2. AfterApi(x, a) = d /\ ApiNeeds(p, x, a)
    BY <1>0, <1>4, <2>1 DEF AfterApi, ApiNeeds, MpiApis
  <2> QED
    BY <1>3, <1>5, <1>6, <2>1, <2>2, ApiLeads
<1>8. ASSUME NEW op \in {"GetRank", "GetSize"}
      PROVE  Leads(p, r, Api(op), b, b)
  <2>1. PICK x : x = [do |-> "api", op |-> op, from |-> "none", to |-> "none"]
    OBVIOUS
  <2>2. AfterApi(x, b) = b /\ ApiNeeds(p, x, b)
    BY <1>0, <1>3, <2>1 DEF AfterApi, ApiNeeds, MpiApis
  <2> QED
    BY <1>3, <1>5, <1>6, <2>1, <2>2, ApiLeads
<1>9. Leads(p, r, Api("Finalize"), b, c)
  <2>1. PICK x : x = [do |-> "api", op |-> "Finalize", from |-> "none", to |-> "none"]
    OBVIOUS
  <2>2. AfterApi(x, b) = e /\ ApiNeeds(p, x, b)
    BY <1>0, <1>4, <2>1 DEF AfterApi, ApiNeeds, MpiApis
  <2> QED
    BY <1>3, <1>5, <1>6, <2>1, <2>2, ApiLeads
<1>10. Leads(p, r, Api("Init") \o Api("GetRank"), a, b)
  BY <1>7, <1>8, LeadsThen
<1>11. Leads(p, r, Api("Init") \o Api("GetRank") \o Api("GetSize"), a, b)
  BY <1>8, <1>10, LeadsThen
<1> QED
  BY <1>0, <1>1, <1>9, <1>11 DEF MpiSetup

LEMMA StartedOf ==
  ASSUME NEW m \in Ups, NEW M \in SlotSets, NEW b, b = Started(m, M)
  PROVE  /\ Sorts({"none"}, {"none"}, {"zero"}, {}, "idle", m, M)
         /\ b \in Known
         /\ b.has["send"] = {"none"} /\ b.has["recv"] = {"none"} /\ b.has["id"] = Content
         /\ b.host = {"zero"} /\ b.writes = {} /\ ~b.busy /\ b.mpi = m /\ b.made = M
<1>1. Sorts({"none"}, {"none"}, {"zero"}, {}, "idle", m, M)
  BY DEF Sorts, Contents, Content, Targets
<1>2. b = Knows({"none"}, {"none"}, {"zero"}, {}, "idle", m, M)
  BY DEF Started
<1> QED
  BY <1>1, <1>2, KnowsOf

\* The communicator of OpenMPI or of a CCL backend is made.
LEMMA JoinLeads ==
  ASSUME NEW p, NEW r, NEW I, NEW W, NEW m, NEW M, FreshSorts(I, W, m, M),
         NEW op \in Joins,
         op = "CommInitAll" => m = "up" /\ p \notin Threaded,
         op = "CommInitRank" => /\ p \notin Mpi
                                /\ "id" \in W \/ (W = {} /\ I \subseteq {"seed", "answer"}),
         NEW N \in SlotSets,
         N \subseteq M \cup {IF op = "CommInitAll" THEN "inter" ELSE "intra"}
  PROVE  /\ Leads(p, r, Api(op), Fresh(I, W, m, M), Started(m, N))
         /\ Leads(p, r, Api(op), Fresh(I, W, m, M), Fresh(I, W, m, N))
<1>1. PICK a, b, c : a = Fresh(I, W, m, M) /\ b = Started(m, N) /\ c = Fresh(I, W, m, N)
  OBVIOUS
<1>2. /\ a \in Known
      /\ a.has["send"] = {"none"} /\ a.has["recv"] = {"none"} /\ a.has["id"] = I
      /\ a.host = {"zero"} /\ a.writes = W /\ ~a.busy /\ a.mpi = m /\ a.made = M
  BY <1>1, FreshOf
<1>3. /\ b \in Known
      /\ b.has["send"] = {"none"} /\ b.has["recv"] = {"none"} /\ b.has["id"] = Content
      /\ b.host = {"zero"} /\ b.writes = {} /\ ~b.busy /\ b.mpi = m /\ b.made = N
  <2>1. m \in Ups
    BY DEF FreshSorts
  <2> QED
    BY <1>1, <2>1, StartedOf
<1>4. /\ c \in Known
      /\ c.has["send"] = {"none"} /\ c.has["recv"] = {"none"} /\ c.has["id"] = I
      /\ c.host = {"zero"} /\ c.writes = W /\ ~c.busy /\ c.mpi = m /\ c.made = N
  <2>1. FreshSorts(I, W, m, N)
    BY DEF FreshSorts
  <2> QED
    BY <1>1, <2>1, FreshOf
<1>5. PICK x, d, slot :
        /\ x = [do |-> "api", op |-> op, from |-> "none", to |-> "none"]
        /\ d = Joined(a, slot) /\ slot = IF op = "CommInitAll" THEN "inter" ELSE "intra"
  OBVIOUS
<1>6. AfterApi(x, a) = d
  BY <1>5 DEF AfterApi, Joins
<1>7. /\ d.has = a.has /\ d.host = a.host /\ d.writes = W /\ d.busy = FALSE /\ d.mpi = m
      /\ N \subseteq d.made
  BY <1>2, <1>5 DEF Joined, Known
<1>8. Covers(b, d) /\ Covers(c, d)
  <2>1. I \subseteq Content
    BY DEF FreshSorts, Contents
  <2> QED
    BY <1>2, <1>3, <1>4, <1>7, <2>1 DEF Covers, Buf
<1>9. ApiNeeds(p, x, a)
  <2>1. CASE op = "CommInitAll"
    BY <1>2, <1>5, <2>1 DEF ApiNeeds, MpiApis
  <2>2. CASE op = "CommInitRank"
    <3>1. Settled(a).has["id"] \subseteq {"seed", "answer"}
      <4>1. Settled(a) = Drain(a) /\ "id" \in Buf
        BY <1>2, SettledOf DEF Buf
      <4>2. Drain(a).has["id"] = IF "id" \in a.writes THEN {"answer"} ELSE a.has["id"]
        BY <1>2, <4>1, DrainOf
      <4> QED
        BY <1>2, <2>2, <4>1, <4>2
    <3> QED
      BY <1>5, <2>2, <3>1 DEF ApiNeeds, CclApis
  <2> QED
    BY <2>1, <2>2 DEF Joins
<1>10. op \in Operations
  BY DEF Joins, Operations, OmpiOperations, CclOperations
<1>11. Leads(p, r, Api(op), a, b) /\ Leads(p, r, Api(op), a, c)
  BY <1>2, <1>3, <1>4, <1>5, <1>6, <1>8, <1>9, <1>10, ApiLeads
<1> QED
  BY <1>1, <1>11

\* The id is made by rank 0 and broadcast over MPI.
LEMMA IdLeads ==
  ASSUME NEW p \in Hybrid, NEW r, NEW I, FreshSorts(I, {}, "up", {"inter"})
  PROVE  /\ Leads(p, r, Api("GetUniqueId"), Fresh(I, {}, "up", {"inter"}),
                                            Fresh({"seed"}, {}, "up", {"inter"}))
         /\ (r = 0 => I \subseteq {"seed", "answer"}) =>
              Leads(p, r, Exchange("Broadcast", "id", "id"), Fresh(I, {}, "up", {"inter"}),
                    Fresh(I \cup {"answer"}, {"id"}, "up", {"inter"}))
<1>0. p \notin Mpi /\ p \in AllPrograms
  BY DEF Hybrid, Mpi, AllPrograms
<1>1. PICK a, b, c : /\ a = Fresh(I, {}, "up", {"inter"})
                     /\ b = Fresh({"seed"}, {}, "up", {"inter"})
                     /\ c = Fresh(I \cup {"answer"}, {"id"}, "up", {"inter"})
  OBVIOUS
<1>2. /\ a \in Known
      /\ a.has["send"] = {"none"} /\ a.has["recv"] = {"none"} /\ a.has["id"] = I
      /\ a.host = {"zero"} /\ a.writes = {} /\ ~a.busy /\ a.mpi = "up" /\ a.made = {"inter"}
  BY <1>1, FreshOf
<1>3. /\ b \in Known
      /\ b.has["send"] = {"none"} /\ b.has["recv"] = {"none"} /\ b.has["id"] = {"seed"}
      /\ b.host = {"zero"} /\ b.writes = {} /\ ~b.busy /\ b.mpi = "up" /\ b.made = {"inter"}
  <2>1. FreshSorts({"seed"}, {}, "up", {"inter"})
    BY DEF FreshSorts, Contents, Content, Ups, SlotSets, Slots
  <2> QED
    BY <1>1, <2>1, FreshOf
<1>4. /\ c \in Known
      /\ c.has["send"] = {"none"} /\ c.has["recv"] = {"none"} /\ c.has["id"] = I \cup {"answer"}
      /\ c.host = {"zero"} /\ c.writes = {"id"} /\ ~c.busy /\ c.mpi = "up" /\ c.made = {"inter"}
  <2>1. FreshSorts(I \cup {"answer"}, {"id"}, "up", {"inter"})
    BY DEF FreshSorts, Contents, Content, Buf
  <2>2. PICK J, W : J = I \cup {"answer"} /\ W = {"id"}
    OBVIOUS
  <2>3. FreshSorts(J, W, "up", {"inter"}) /\ c = Fresh(J, W, "up", {"inter"})
    BY <1>1, <2>1, <2>2
  <2>4. /\ c \in Known
        /\ c.has["send"] = {"none"} /\ c.has["recv"] = {"none"} /\ c.has["id"] = J
        /\ c.host = {"zero"} /\ c.writes = W /\ ~c.busy /\ c.mpi = "up" /\ c.made = {"inter"}
    BY <2>3, FreshOf
  <2> QED
    BY <2>2, <2>4
<1>5. PICK d : d = Drain(a)
  OBVIOUS
<1>6. /\ d \in Known /\ Settled(a) = d
      /\ d.has["send"] = {"none"} /\ d.has["recv"] = {"none"} /\ d.has["id"] = I
      /\ d.host = {"zero"} /\ d.writes = {} /\ d.busy = FALSE /\ d.mpi = "up" /\ d.made = {"inter"}
  <2>1. \A y \in Buf : d.has[y] = a.has[y]
    BY <1>2, <1>5, DrainOf
  <2> QED
    BY <1>2, <1>5, <2>1, DrainOf, SettledOf DEF Buf
<1>7. Leads(p, r, Api("GetUniqueId"), a, b)
  <2>1. PICK x : x = [do |-> "api", op |-> "GetUniqueId", from |-> "none", to |-> "none"]
    OBVIOUS
  <2>2. PICK e : e = Filled(a, "id", "seed")
    OBVIOUS
  <2>3. /\ e.has = [d.has EXCEPT !["id"] = {"seed"}] /\ e.host = {"zero"} /\ e.writes = {}
        /\ e.busy = FALSE /\ e.mpi = "up" /\ e.made = {"inter"}
    BY <1>5, <1>6, <2>2 DEF Filled, Known
  <2>4. e.has["send"] = {"none"} /\ e.has["recv"] = {"none"} /\ e.has["id"] = {"seed"}
    BY <1>6, <2>3, KnownOf DEF Buf
  <2>5. Covers(b, e)
    BY <1>3, <2>3, <2>4 DEF Covers, Buf
  <2>6. AfterApi(x, a) = e /\ ApiNeeds(p, x, a)
    BY <1>0, <1>2, <2>1, <2>2 DEF AfterApi, ApiNeeds, CclApis
  <2>7. "GetUniqueId" \in Operations
    BY DEF Operations, CclOperations
  <2> QED
    BY <1>2, <1>3, <2>1, <2>5, <2>6, <2>7, ApiLeads
<1>8. ASSUME r = 0 => I \subseteq {"seed", "answer"}
      PROVE  Leads(p, r, Exchange("Broadcast", "id", "id"), a, c)
  <2>1. PICK x : x = [do |-> "exchange", op |-> "Broadcast", from |-> "id", to |-> "id"]
    OBVIOUS
  <2>2. /\ Writes(x.op, r) /\ x.op \in OmpiOnly /\ x.op \in Operations
    BY <2>1 DEF Writes, Joins, OmpiOnly, OmpiOperations, CclOperations, Operations
  <2>3. PICK e : e = AfterExchange(r, x, a)
    OBVIOUS
  <2>4. /\ e.has = [d.has EXCEPT !["id"] = d.has["id"] \cup {"answer"}] /\ e.host = {"zero"}
        /\ e.writes = {"id"} /\ e.busy = FALSE /\ e.mpi = "up" /\ e.made = {"inter"}
    BY <1>6, <2>1, <2>2, <2>3 DEF AfterExchange, Known
  <2>5. e.has["send"] = {"none"} /\ e.has["recv"] = {"none"} /\ e.has["id"] = I \cup {"answer"}
    BY <1>6, <2>4, KnownOf DEF Buf
  <2>6. Covers(c, e)
    BY <1>4, <2>4, <2>5 DEF Covers, Buf
  <2>7. Needs(p, r, x, a)
    <3>1. \A value \in I : GivesRight("Broadcast", r, value)
      BY <1>8 DEF GivesRight, Joins
    <3>2. MeantSlot(p, x) \in a.made
      BY <1>2, <2>1 DEF MeantSlot
    <3>3. ExchangeNeeds(p, r, x, a)
      BY <1>6, <2>1, <3>1, <3>2 DEF ExchangeNeeds, Buf
    <3> QED
      BY <2>1, <3>3 DEF Needs
  <2>8. StepOK(p, r, x, a, c)
    BY <1>2, <1>4, <2>1, <2>3, <2>6, <2>7 DEF StepOK, After
  <2>9. x \in SourceStep
    BY <2>1, <2>2, Words DEF SourceStep, Doings
  <2>10. Leads(p, r, <<x>>, a, c)
    BY <2>8, <2>9, LeadsStep
  <2> QED
    BY <2>1, <2>10 DEF Exchange
<1> QED
  BY <1>1, <1>7, <1>8

LEMMA MpiStart ==
  ASSUME NEW p \in Mpi, NEW r
  PROVE  Leads(p, r, MpiSetup \o Api("CommInitAll"), Start(p), Started("up", {"inter"}))
<1>1. FreshSorts({"none"}, {}, "up", {}) /\ {"inter"} \in SlotSets
  BY DEF FreshSorts, Contents, Content, Ups, SlotSets, Slots
<1>2. p \notin Threaded
  BY DEF Threaded, Mpi
<1>3. Leads(p, r, Api("CommInitAll"), Fresh({"none"}, {}, "up", {}), Started("up", {"inter"}))
  BY <1>1, <1>2, JoinLeads DEF Joins
<1> QED
  BY <1>3, MpiSetupLeads, LeadsThen

LEMMA HybridStart ==
  ASSUME NEW p \in Hybrid, NEW r
  PROVE  Leads(p, r, HybridSetup(r), Fresh({"none"}, {}, "up", {}), Started("up", {"inter", "intra"}))
<1>0. p \notin Threaded /\ p \notin Mpi
  BY DEF Hybrid, Threaded, Mpi
<1>1. /\ \A I \in {{"none"}, {"seed"}} : FreshSorts(I, {}, "up", {}) /\ FreshSorts(I, {}, "up", {"inter"})
      /\ \A I \in {{"none"}, {"seed"}} : FreshSorts(I \cup {"answer"}, {"id"}, "up", {"inter"})
      /\ {"inter"} \in SlotSets /\ {"inter", "intra"} \in SlotSets
  BY DEF FreshSorts, Contents, Content, Ups, SlotSets, Slots, Buf
<1>2. PICK a, b : a = Fresh({"none"}, {}, "up", {}) /\ b = Fresh({"none"}, {}, "up", {"inter"})
  OBVIOUS
<1>3. Leads(p, r, Local("SetDevice", "none"), a, a)
  BY <1>1, <1>2, SetDeviceLeads
<1>4. Leads(p, r, Api("CommInitAll"), a, b)
  BY <1>0, <1>1, <1>2, JoinLeads DEF Joins
<1>5. PICK I \in {{"none"}, {"seed"}} : I = IF r = 0 THEN {"seed"} ELSE {"none"}
  OBVIOUS
<1>6. PICK c, d : c = Fresh(I, {}, "up", {"inter"}) /\ d = Fresh(I \cup {"answer"}, {"id"}, "up", {"inter"})
  OBVIOUS
<1>7. Leads(p, r, When(r = 0, Api("GetUniqueId")), b, c)
  <2>1. CASE r = 0
    <3>2. FreshSorts({"none"}, {}, "up", {"inter"}) /\ I = {"seed"}
      BY <1>1, <1>5, <2>1
    <3>3. Leads(p, r, Api("GetUniqueId"), b, c)
      BY <1>2, <1>6, <3>2, IdLeads
    <3> QED
      BY <2>1, <3>3 DEF When
  <2>2. CASE r # 0
    <3>1. b \in Known /\ b = c
      BY <1>1, <1>2, <1>5, <1>6, <2>2, FreshOf
    <3> QED
      BY <2>2, <3>1, LeadsNothing DEF When
  <2> QED
    BY <2>1, <2>2
<1>8. Leads(p, r, Exchange("Broadcast", "id", "id"), c, d)
  BY <1>1, <1>5, <1>6, IdLeads
<1>9. Leads(p, r, Api("CommInitRank"), d, Started("up", {"inter", "intra"}))
  BY <1>0, <1>1, <1>5, <1>6, JoinLeads DEF Joins
<1>10. Leads(p, r, Local("SetDevice", "none") \o Api("CommInitAll"), a, b)
  BY <1>3, <1>4, LeadsThen
<1>11. Leads(p, r, Local("SetDevice", "none") \o Api("CommInitAll")
                     \o When(r = 0, Api("GetUniqueId")), a, c)
  BY <1>7, <1>10, LeadsThen
<1>12. Leads(p, r, Local("SetDevice", "none") \o Api("CommInitAll")
                     \o When(r = 0, Api("GetUniqueId")) \o Exchange("Broadcast", "id", "id"), a, d)
  BY <1>8, <1>11, LeadsThen
<1> QED
  BY <1>2, <1>9, <1>12, LeadsThen DEF HybridSetup

LEMMA ThreadStart ==
  ASSUME NEW p \in Threaded, NEW r
  PROVE  Leads(p, r, ThreadSetup, Start(p), Started("none", {"intra"}))
<1>1. FreshSorts({"seed"}, {}, "none", {}) /\ {"intra"} \in SlotSets
  BY DEF FreshSorts, Contents, Content, Ups, SlotSets, Slots
<1>2. p \notin Mpi
  BY DEF Threaded, Mpi
<1>3. Start(p) = Fresh({"seed"}, {}, "none", {})
  BY DEF Start
<1>4. Leads(p, r, Local("SetDevice", "none"), Start(p), Start(p))
  BY <1>1, <1>3, SetDeviceLeads
<1>5. Leads(p, r, Api("CommInitRank"), Fresh({"seed"}, {}, "none", {}), Started("none", {"intra"}))
  BY <1>1, <1>2, JoinLeads DEF Joins
<1> QED
  BY <1>3, <1>4, <1>5, LeadsThen DEF ThreadSetup

\* The buffers are filled, and given back at the end.
LEMMA FillsLeads ==
  ASSUME NEW p, NEW r, NEW m \in Ups, NEW M \in SlotSets,
         NEW given \in Content \ {"none"}, NEW taken \in Content \ {"none"}
  PROVE  LET filled == Knows({given}, {taken}, {"zero"}, {}, "idle", m, M)
         IN  /\ Leads(p, r, Fill("send", given), Started(m, M),
                      Knows({given}, {"none"}, {"zero"}, {}, "idle", m, M))
             /\ Leads(p, r, Fill("recv", taken),
                      Knows({given}, {"none"}, {"zero"}, {}, "idle", m, M), filled)
             /\ Leads(p, r, Sync, filled, filled)
             /\ Leads(p, r, Fill("send", given) \o Fill("recv", taken) \o Sync, Started(m, M), filled)
<1>1. PICK a, b, c, G, T : /\ a = Started(m, M) /\ G = {given} /\ T = {taken}
                           /\ b = Knows(G, {"none"}, {"zero"}, {}, "idle", m, M)
                           /\ c = Knows(G, T, {"zero"}, {}, "idle", m, M)
  OBVIOUS
<1>2. a = Knows({"none"}, {"none"}, {"zero"}, {}, "idle", m, M)
  BY <1>1 DEF Started
<1>3. /\ Sorts({"none"}, {"none"}, {"zero"}, {}, "idle", m, M)
      /\ Sorts(G, {"none"}, {"zero"}, {}, "idle", m, M)
      /\ Sorts(G, T, {"zero"}, {}, "idle", m, M)
  BY <1>1 DEF Sorts, Contents, Content, Targets
<1>4. Leads(p, r, Fill("send", given), a, b)
  <2>1. LET after == Knows(IF "send" = "send" THEN {given} ELSE {"none"},
                           IF "send" = "recv" THEN {given} ELSE {"none"},
                           {"zero"}, {}, "idle", m, M)
        IN  Leads(p, r, Fill("send", given),
                  Knows({"none"}, {"none"}, {"zero"}, {}, "idle", m, M), after)
    BY <1>3, FillLeads
  <2> QED
    BY <1>1, <1>2, <2>1
<1>5. Leads(p, r, Fill("recv", taken), b, c)
  <2>1. LET after == Knows(IF "recv" = "send" THEN {taken} ELSE G,
                           IF "recv" = "recv" THEN {taken} ELSE {"none"},
                           {"zero"}, {}, "idle", m, M)
        IN  Leads(p, r, Fill("recv", taken),
                  Knows(G, {"none"}, {"zero"}, {}, "idle", m, M), after)
    BY <1>3, FillLeads
  <2> QED
    BY <1>1, <2>1
<1>6. Leads(p, r, Sync, c, c)
  <2>1. Left("send", G, {}) = G /\ Left("recv", T, {}) = T
    BY DEF Left
  <2> QED
    BY <1>1, <1>3, <2>1, SyncLeads
<1>7. Leads(p, r, Fill("send", given) \o Fill("recv", taken), a, c)
  BY <1>4, <1>5, LeadsThen
<1>8. Leads(p, r, Fill("send", given) \o Fill("recv", taken) \o Sync, a, c)
  BY <1>6, <1>7, LeadsThen
<1> QED
  BY <1>1, <1>4, <1>5, <1>6, <1>8

LEMMA FreeLeads ==
  ASSUME NEW p, NEW r, NEW S, NEW R, NEW H, NEW m, NEW M, Sorts(S, R, H, {}, "idle", m, M)
  PROVE  /\ Leads(p, r, Local("free", "send"), Knows(S, R, H, {}, "idle", m, M),
                  Knows({"none"}, R, H, {}, "idle", m, M))
         /\ Leads(p, r, Local("free", "recv"), Knows(S, R, H, {}, "idle", m, M),
                  Knows(S, {"none"}, H, {}, "idle", m, M))
<1>0. "none" \in Content
  BY DEF Content
<1>1. LET after == Knows(IF "send" = "send" THEN {"none"} ELSE S,
                         IF "send" = "recv" THEN {"none"} ELSE R, H, {}, "idle", m, M)
      IN  Leads(p, r, Local("free", "send"), Knows(S, R, H, {}, "idle", m, M), after)
  BY <1>0, FillLeads
<1>2. LET after == Knows(IF "recv" = "send" THEN {"none"} ELSE S,
                         IF "recv" = "recv" THEN {"none"} ELSE R, H, {}, "idle", m, M)
      IN  Leads(p, r, Local("free", "recv"), Knows(S, R, H, {}, "idle", m, M), after)
  BY <1>0, FillLeads
<1> QED
  BY <1>1, <1>2

LEMMA DestroyLeads ==
  ASSUME NEW p, NEW r, NEW S, NEW R, NEW H, NEW m, NEW M, Sorts(S, R, H, {}, "idle", m, M)
  PROVE  /\ Leads(p, r, Api("CommDestroy"), Knows(S, R, H, {}, "idle", m, M),
                  Knows(S, R, H, {}, "idle", m, {}))
         /\ p \notin Threaded =>
              Leads(p, r, Api("Finalize"), Knows(S, R, H, {}, "idle", m, M),
                    Knows(S, R, H, {}, "idle", "down", M))
<1>1. PICK a, b, c : /\ a = Knows(S, R, H, {}, "idle", m, M)
                     /\ b = Knows(S, R, H, {}, "idle", m, {})
                     /\ c = Knows(S, R, H, {}, "idle", "down", M)
  OBVIOUS
<1>2. /\ a \in Known
      /\ a.has["send"] = S /\ a.has["recv"] = R /\ a.has["id"] = Content
      /\ a.host = H /\ a.writes = {} /\ ~a.busy /\ a.mpi = m /\ a.made = M
  BY <1>1, KnowsOf
<1>3. /\ b \in Known
      /\ b.has["send"] = S /\ b.has["recv"] = R /\ b.has["id"] = Content
      /\ b.host = H /\ b.writes = {} /\ ~b.busy /\ b.mpi = m /\ b.made = {}
  <2>1. Sorts(S, R, H, {}, "idle", m, {})
    BY DEF Sorts, SlotSets
  <2> QED
    BY <1>1, <2>1, KnowsOf
<1>4. /\ c \in Known
      /\ c.has["send"] = S /\ c.has["recv"] = R /\ c.has["id"] = Content
      /\ c.host = H /\ c.writes = {} /\ ~c.busy /\ c.mpi = "down" /\ c.made = M
  <2>1. Sorts(S, R, H, {}, "idle", "down", M)
    BY DEF Sorts, Ups
  <2> QED
    BY <1>1, <2>1, KnowsOf
<1>5. Leads(p, r, Api("CommDestroy"), a, b)
  <2>1. PICK x : x = [do |-> "api", op |-> "CommDestroy", from |-> "none", to |-> "none"]
    OBVIOUS
  <2>2. PICK d, e : d = Drain(a) /\ e = Destroyed(a)
    OBVIOUS
  <2>3. /\ d \in Known /\ \A y \in Buf : d.has[y] = a.has[y]
        /\ d.host = H /\ d.writes = {} /\ d.busy = FALSE /\ d.mpi = m /\ d.made = M
    BY <1>2, <2>2, DrainOf
  <2>4. e.has = d.has /\ e.host = H /\ e.writes = {} /\ e.busy = FALSE /\ e.mpi = m /\ e.made = {}
    BY <2>2, <2>3 DEF Destroyed, Known
  <2>5. Covers(b, e)
    BY <1>2, <1>3, <2>3, <2>4 DEF Covers, Buf
  <2>6. AfterApi(x, a) = e /\ ApiNeeds(p, x, a)
    BY <1>2, <2>1, <2>2 DEF AfterApi, ApiNeeds
  <2>7. "CommDestroy" \in Operations
    BY DEF Operations, OmpiOperations
  <2> QED
    BY <1>2, <1>3, <2>1, <2>5, <2>6, <2>7, ApiLeads
<1>6. ASSUME p \notin Threaded
      PROVE  Leads(p, r, Api("Finalize"), a, c)
  <2>1. PICK x : x = [do |-> "api", op |-> "Finalize", from |-> "none", to |-> "none"]
    OBVIOUS
  <2>2. PICK e : e = [a EXCEPT !.mpi = "down"]
    OBVIOUS
  <2>3. /\ e.has = a.has /\ e.host = H /\ e.writes = {} /\ e.busy = a.busy /\ e.mpi = "down"
        /\ e.made = M
    BY <1>2, <2>2 DEF Known
  <2>4. Covers(c, e)
    BY <1>2, <1>4, <2>3 DEF Covers, Buf
  <2>5. AfterApi(x, a) = e /\ ApiNeeds(p, x, a)
    BY <1>6, <2>1, <2>2 DEF AfterApi, ApiNeeds, MpiApis
  <2>6. "Finalize" \in Operations
    BY DEF Operations, OmpiOperations
  <2> QED
    BY <1>2, <1>4, <2>1, <2>4, <2>5, <2>6, ApiLeads
<1> QED
  BY <1>1, <1>5, <1>6

\* The end of every program.
Leaves(p, r, s, a) == \E b \in Known : Leads(p, r, s, a, b)

LEMMA EndLeads ==
  ASSUME NEW p, NEW r, NEW S, NEW R, NEW H, NEW m, NEW M, Sorts(S, R, H, {}, "idle", m, M),
         NEW a, NEW s, Leads(p, r, s, a, Knows(S, R, H, {}, "idle", m, M))
  PROVE  /\ Leaves(p, r, s \o Cleanup, a)
         /\ p \notin Threaded => Leaves(p, r, s \o Cleanup \o Api("Finalize"), a)
<1>1. PICK b, c, d, e, f :
        /\ b = Knows(S, R, H, {}, "idle", m, M) /\ c = Knows({"none"}, R, H, {}, "idle", m, M)
        /\ d = Knows({"none"}, {"none"}, H, {}, "idle", m, M)
        /\ e = Knows({"none"}, {"none"}, H, {}, "idle", m, {})
        /\ f = Knows({"none"}, {"none"}, H, {}, "idle", "down", {})
  OBVIOUS
<1>2. /\ Sorts({"none"}, R, H, {}, "idle", m, M)
      /\ Sorts({"none"}, {"none"}, H, {}, "idle", m, M)
      /\ Sorts({"none"}, {"none"}, H, {}, "idle", m, {})
      /\ Sorts({"none"}, {"none"}, H, {}, "idle", "down", {})
  BY DEF Sorts, Contents, Content, SlotSets, Ups
<1>3. Leads(p, r, Local("free", "send"), b, c) /\ Leads(p, r, Local("free", "recv"), c, d)
  BY <1>1, <1>2, FreeLeads
<1>4. Leads(p, r, Api("CommDestroy"), d, e)
      /\ (p \notin Threaded => Leads(p, r, Api("Finalize"), e, f))
  BY <1>1, <1>2, DestroyLeads
<1>5. Leads(p, r, Local("free", "send") \o Local("free", "recv"), b, d)
  BY <1>3, LeadsThen
<1>6. Leads(p, r, Cleanup, b, e)
  BY <1>4, <1>5, LeadsThen DEF Cleanup
<1>7. Leads(p, r, s \o Cleanup, a, e)
  BY <1>1, <1>6, LeadsThen
<1>8. p \notin Threaded => Leads(p, r, s \o Cleanup \o Api("Finalize"), a, f)
  BY <1>4, <1>7, LeadsThen
<1>9. e \in Known /\ f \in Known
  BY <1>1, <1>2, KnowsOf
<1> QED
  BY <1>7, <1>8, <1>9 DEF Leaves

-----------------------------------------------------------------------------
\* The measured calls.

LEMMA MeasuredLeads ==
  ASSUME NEW p, NEW r, NEW call, Len(call) \in {0, 1}, NEW first, NEW last,
         NEW a, NEW b, NEW c \in Known, NEW d \in Known, NEW e, NEW f,
         Leads(p, r, call, a, b), Leads(p, r, first, b, c), Leads(p, r, call, c, c),
         Leads(p, r, Sync, c, d), Leads(p, r, call, d, d), Leads(p, r, Sync, d, e),
         Leads(p, r, last, e, f)
  PROVE  Leads(p, r, Measured(call, first, last), a, f)
<1>1. Warmup - 1 \in Nat /\ Profile \in Nat
  BY ExamplesAssumption
<1>2. Leads(p, r, Times(Warmup - 1, call), c, c) /\ Leads(p, r, Times(Profile, call), d, d)
  BY <1>1, LeadsTimes
<1>3. Leads(p, r, call \o first, a, c)
  BY LeadsThen
<1>4. Leads(p, r, call \o first \o Times(Warmup - 1, call), a, c)
  BY <1>2, <1>3, LeadsThen
<1>5. Leads(p, r, call \o first \o Times(Warmup - 1, call) \o Sync, a, d)
  BY <1>4, LeadsThen
<1>6. Leads(p, r, call \o first \o Times(Warmup - 1, call) \o Sync \o Times(Profile, call), a, d)
  BY <1>2, <1>5, LeadsThen
<1>7. Leads(p, r, call \o first \o Times(Warmup - 1, call) \o Sync \o Times(Profile, call) \o Sync,
            a, e)
  BY <1>6, LeadsThen
<1>8. Leads(p, r, call \o first \o Times(Warmup - 1, call) \o Sync \o Times(Profile, call) \o Sync
                    \o last, a, f)
  BY <1>7, LeadsThen
<1> QED
  BY <1>8 DEF Measured

LEMMA TimedLeads ==
  ASSUME NEW p, NEW r, NEW call, Len(call) = 1, NEW a \in Known, NEW b \in Known, NEW c \in Known,
         NEW d, Leads(p, r, call, a, b), Leads(p, r, call, b, b),
         Leads(p, r, Sync, b, c), Leads(p, r, call, c, c), Leads(p, r, Sync, c, d)
  PROVE  Leads(p, r, Timed(call), a, d)
<1>1. Warmup \in Nat \ {0} /\ Profile \in Nat
  BY ExamplesAssumption
<1>2. Leads(p, r, Times(Warmup, call), a, b) /\ Leads(p, r, Times(Profile, call), c, c)
  BY <1>1, LeadsTimes, LeadsTimesFrom
<1>3. Leads(p, r, Times(Warmup, call) \o Sync, a, c)
  BY <1>2, LeadsThen
<1>4. Leads(p, r, Times(Warmup, call) \o Sync \o Times(Profile, call), a, c)
  BY <1>2, <1>3, LeadsThen
<1>5. Leads(p, r, Times(Warmup, call) \o Sync \o Times(Profile, call) \o Sync, a, d)
  BY <1>4, LeadsThen
<1> QED
  BY <1>5 DEF Timed

LEMMA OneCall ==
  ASSUME NEW op, NEW from, NEW to
  PROVE  Len(Exchange(op, from, to)) = 1
BY DEF Exchange

\* What the buffers of an exchange hold before it, and what is known of them.
Gives(r, op, from, to, S, R) ==
  /\ from \in {"send", "recv"} /\ to \in {"send", "recv"}
  /\ "none" \notin Holds(from, S, R) /\ "none" \notin Holds(to, S, R)
  /\ \A value \in Holds(from, S, R) : GivesRight(op, r, value)

\* What is known before the calls (S, R), after the first (V, W) and once it has
\* run (T, U), where the calls write the buffer "to".
WritesWell(p, r, call, to, S, R, V, W, T, U, m, M) ==
  /\ Leads(p, r, call, Knows(S, R, {"zero"}, {}, "idle", m, M),
                       Knows(V, W, {"zero"}, {to}, "busy", m, M))
  /\ Leads(p, r, call, Knows(V, W, {"zero"}, {to}, "busy", m, M),
                       Knows(V, W, {"zero"}, {to}, "busy", m, M))
  /\ Leads(p, r, CopyOut(to), Knows(V, W, {"zero"}, {to}, "busy", m, M),
                              Knows(T, U, {"answer"}, {}, "busy", m, M))
  /\ Leads(p, r, Sync, Knows(V, W, {"zero"}, {to}, "busy", m, M),
                       Knows(T, U, {"zero"}, {}, "busy", m, M))
  /\ \A H \in {{"zero"}, {"answer"}} :
       /\ Leads(p, r, call, Knows(T, U, H, {}, "busy", m, M), Knows(T, U, H, {}, "busy", m, M))
       /\ Leads(p, r, Sync, Knows(T, U, H, {}, "busy", m, M), Knows(T, U, H, {}, "busy", m, M))
       /\ Leads(p, r, Sync, Knows(T, U, H, {}, "busy", m, M), Knows(T, U, H, {}, "idle", m, M))
       /\ Leads(p, r, CopyOut(to), Knows(T, U, H, {}, "idle", m, M),
                                   Knows(T, U, {"answer"}, {}, "idle", m, M))
  /\ \A H \in {{"zero"}, {"answer"}}, B \in {"busy", "idle"} :
       Sorts(T, U, H, {}, B, m, M)
  /\ Sorts(V, W, {"zero"}, {to}, "busy", m, M)

\* The exchange writes the buffer it names, and may do so again.
LEMMA WritingLeads ==
  ASSUME NEW p \in AllPrograms, NEW r, NEW op \in Exchanges(p), Writes(op, r),
         NEW S, NEW R, NEW m, NEW M, Sorts(S, R, {"zero"}, {}, "idle", m, M), OwnSlot(p) \in M,
         NEW from, NEW to, Gives(r, op, from, to, S, R), from = to => GivesRight(op, r, "answer"),
         NEW T, NEW U, T = (IF to = "send" THEN {"answer"} ELSE S),
         U = (IF to = "recv" THEN {"answer"} ELSE R),
         NEW V, NEW W, V = (IF to = "send" THEN S \cup {"answer"} ELSE S),
         W = (IF to = "recv" THEN R \cup {"answer"} ELSE R),
         NEW call, call = Exchange(op, from, to)
  PROVE  WritesWell(p, r, call, to, S, R, V, W, T, U, m, M)
<1>1. /\ from \in {"send", "recv"} /\ to \in {"send", "recv"}
      /\ "none" \notin Holds(from, S, R) /\ "none" \notin Holds(to, S, R)
      /\ \A value \in Holds(from, S, R) : GivesRight(op, r, value)
  BY DEF Gives
<1>2. Sorts(V, W, {"zero"}, {to}, "busy", m, M)
  BY <1>1 DEF Sorts, Contents, Content, Targets
<1>3. \A H \in {{"zero"}, {"answer"}}, B \in {"busy", "idle"} : Sorts(T, U, H, {}, B, m, M)
  BY <1>1 DEF Sorts, Contents, Content, Targets
<1>4. S \subseteq V /\ R \subseteq W /\ "answer" \in Holds(to, V, W)
  BY <1>1 DEF Holds
<1>5. /\ Left("send", V, {to}) = T /\ Left("recv", W, {to}) = U
      /\ Left("send", T, {}) = T /\ Left("recv", U, {}) = U
  BY <1>1 DEF Left
<1>6. Holds(to, T, U) = {"answer"}
  BY <1>1 DEF Holds
<1>7. /\ "none" \notin Holds(from, V, W) /\ "none" \notin Holds(to, V, W)
      /\ \A value \in Holds(from, V, W) : GivesRight(op, r, value)
  <2>1. \A value \in Holds(from, V, W) : value \in Holds(from, S, R) \/ (value = "answer" /\ from = to)
    BY <1>1 DEF Holds
  <2>2. \A value \in Holds(to, V, W) : value \in Holds(to, S, R) \/ value = "answer"
    BY <1>1 DEF Holds
  <2> QED
    BY <1>1, <2>1, <2>2
<1>8. /\ "none" \notin Holds(from, T, U) /\ "none" \notin Holds(to, T, U)
      /\ \A value \in Holds(from, T, U) : GivesRight(op, r, value)
  <2>1. \A value \in Holds(from, T, U) : value \in Holds(from, S, R) \/ (value = "answer" /\ from = to)
    BY <1>1 DEF Holds
  <2> QED
    BY <1>1, <1>6, <2>1
<1>9. Leads(p, r, call, Knows(S, R, {"zero"}, {}, "idle", m, M),
                        Knows(V, W, {"zero"}, {to}, "busy", m, M))
  BY <1>1, <1>2, <1>4, ExchangeLeads
<1>10. Leads(p, r, call, Knows(V, W, {"zero"}, {to}, "busy", m, M),
                         Knows(V, W, {"zero"}, {to}, "busy", m, M))
  BY <1>1, <1>2, <1>4, <1>7, ExchangeLeads
<1>11. Leads(p, r, CopyOut(to), Knows(V, W, {"zero"}, {to}, "busy", m, M),
                                Knows(T, U, {"answer"}, {}, "busy", m, M))
  <2>1. Sorts(T, U, {"answer"}, {}, "busy", m, M)
    BY <1>3
  <2> QED
    BY <1>1, <1>2, <1>5, <1>6, <2>1, CopyLeads
<1>12. Leads(p, r, Sync, Knows(V, W, {"zero"}, {to}, "busy", m, M),
                         Knows(T, U, {"zero"}, {}, "busy", m, M))
  <2>1. Sorts(T, U, {"zero"}, {}, "busy", m, M)
    BY <1>3
  <2> QED
    BY <1>2, <1>5, <2>1, SyncLeads
<1>13. ASSUME NEW H \in {{"zero"}, {"answer"}}
       PROVE  /\ Leads(p, r, call, Knows(T, U, H, {}, "busy", m, M), Knows(T, U, H, {}, "busy", m, M))
              /\ Leads(p, r, Sync, Knows(T, U, H, {}, "busy", m, M), Knows(T, U, H, {}, "busy", m, M))
              /\ Leads(p, r, Sync, Knows(T, U, H, {}, "busy", m, M), Knows(T, U, H, {}, "idle", m, M))
              /\ Leads(p, r, CopyOut(to), Knows(T, U, H, {}, "idle", m, M),
                                          Knows(T, U, {"answer"}, {}, "idle", m, M))
  <2>1. Sorts(T, U, H, {}, "busy", m, M) /\ Sorts(T, U, H, {}, "idle", m, M)
        /\ Sorts(T, U, {"answer"}, {}, "idle", m, M)
    BY <1>3
  <2>2. Leads(p, r, call, Knows(T, U, H, {}, "busy", m, M), Knows(T, U, H, {}, "busy", m, M))
    BY <1>1, <1>6, <1>8, <2>1, ExchangeLeads
  <2>3. Leads(p, r, Sync, Knows(T, U, H, {}, "busy", m, M), Knows(T, U, H, {}, "busy", m, M))
    BY <1>5, <2>1, SyncLeads
  <2>4. Leads(p, r, Sync, Knows(T, U, H, {}, "busy", m, M), Knows(T, U, H, {}, "idle", m, M))
    BY <1>5, <2>1, SyncLeads
  <2>5. Leads(p, r, CopyOut(to), Knows(T, U, H, {}, "idle", m, M),
                                 Knows(T, U, {"answer"}, {}, "idle", m, M))
    BY <1>1, <1>5, <1>6, <2>1, CopyLeads
  <2> QED
    BY <2>2, <2>3, <2>4, <2>5
<1> QED
  BY <1>2, <1>3, <1>9, <1>10, <1>11, <1>12, <1>13 DEF WritesWell

\* The answer is copied after the first call, and perhaps again at the end.
LEMMA MeasuredCopied ==
  ASSUME NEW p \in AllPrograms, NEW r, NEW op \in Exchanges(p), Writes(op, r),
         NEW S, NEW R, NEW m, NEW M, Sorts(S, R, {"zero"}, {}, "idle", m, M), OwnSlot(p) \in M,
         NEW from, NEW to, Gives(r, op, from, to, S, R), from = to => GivesRight(op, r, "answer"),
         NEW T, NEW U, T = (IF to = "send" THEN {"answer"} ELSE S),
         U = (IF to = "recv" THEN {"answer"} ELSE R),
         NEW last \in {<<>>, CopyOut(to)}
  PROVE  /\ Leads(p, r, Measured(Exchange(op, from, to), CopyOut(to), last),
                  Knows(S, R, {"zero"}, {}, "idle", m, M), Knows(T, U, {"answer"}, {}, "idle", m, M))
         /\ Sorts(T, U, {"answer"}, {}, "idle", m, M) /\ Sorts(T, U, {"zero"}, {}, "idle", m, M)
<1>1. PICK V, W, call : /\ V = (IF to = "send" THEN S \cup {"answer"} ELSE S)
                        /\ W = (IF to = "recv" THEN R \cup {"answer"} ELSE R)
                        /\ call = Exchange(op, from, to)
  OBVIOUS
<1>2. PICK a, b, c, e, H : /\ a = Knows(S, R, {"zero"}, {}, "idle", m, M)
                           /\ b = Knows(V, W, {"zero"}, {to}, "busy", m, M)
                           /\ c = Knows(T, U, H, {}, "busy", m, M)
                           /\ e = Knows(T, U, H, {}, "idle", m, M) /\ H = {"answer"}
  OBVIOUS
<1>3. WritesWell(p, r, call, to, S, R, V, W, T, U, m, M)
  BY <1>1, WritingLeads
<1>4. /\ Leads(p, r, call, a, b) /\ Leads(p, r, CopyOut(to), b, c) /\ Leads(p, r, call, c, c)
      /\ Leads(p, r, Sync, c, c) /\ Leads(p, r, Sync, c, e) /\ Leads(p, r, CopyOut(to), e, e)
      /\ Sorts(T, U, H, {}, "busy", m, M) /\ Sorts(T, U, H, {}, "idle", m, M)
      /\ Sorts(T, U, {"zero"}, {}, "idle", m, M)
  BY <1>2, <1>3 DEF WritesWell
<1>5. c \in Known /\ e \in Known
  BY <1>2, <1>4, KnowsOf
<1>6. Leads(p, r, last, e, e)
  BY <1>4, <1>5, LeadsNothing
<1>7. Len(call) \in {0, 1}
  BY <1>1, OneCall
<1>8. Leads(p, r, Measured(call, CopyOut(to), last), a, e)
  BY <1>4, <1>5, <1>6, <1>7, MeasuredLeads
<1> QED
  BY <1>1, <1>2, <1>4, <1>8

\* The answer is copied at the end only.
LEMMA MeasuredLate ==
  ASSUME NEW p \in AllPrograms, NEW r, NEW op \in Exchanges(p), Writes(op, r),
         NEW S, NEW R, NEW m, NEW M, Sorts(S, R, {"zero"}, {}, "idle", m, M), OwnSlot(p) \in M,
         Gives(r, op, "send", "recv", S, R)
  PROVE  LET end == Knows(S, {"answer"}, {"answer"}, {}, "idle", m, M)
             call == Exchange(op, "send", "recv")
         IN  /\ Leads(p, r, Measured(call, <<>>, CopyOut("recv")),
                      Knows(S, R, {"zero"}, {}, "idle", m, M), end)
             /\ Leads(p, r, Measured(call, <<>>, <<>>) \o CopyOut("recv"),
                      Knows(S, R, {"zero"}, {}, "idle", m, M), end)
             /\ \E b \in Known :
                  /\ Leads(p, r, Measured(call, <<>>, <<>>), Knows(S, R, {"zero"}, {}, "idle", m, M), b)
                  /\ Leads(p, r, CopyOut("recv"), b, end)
             /\ Sorts(S, {"answer"}, {"answer"}, {}, "idle", m, M)
<1>1. PICK T, U, V, W, from, to, call :
        /\ T = (IF to = "send" THEN {"answer"} ELSE S) /\ U = (IF to = "recv" THEN {"answer"} ELSE R)
        /\ V = (IF to = "send" THEN S \cup {"answer"} ELSE S)
        /\ W = (IF to = "recv" THEN R \cup {"answer"} ELSE R)
        /\ call = Exchange(op, from, to) /\ from = "send" /\ to = "recv"
  OBVIOUS
<1>2. PICK a, b, c, d, e : /\ a = Knows(S, R, {"zero"}, {}, "idle", m, M)
                           /\ b = Knows(V, W, {"zero"}, {to}, "busy", m, M)
                           /\ c = Knows(T, U, {"zero"}, {}, "busy", m, M)
                           /\ d = Knows(T, U, {"zero"}, {}, "idle", m, M)
                           /\ e = Knows(T, U, {"answer"}, {}, "idle", m, M)
  OBVIOUS
<1>3. WritesWell(p, r, call, to, S, R, V, W, T, U, m, M)
  <2>1. Gives(r, op, from, to, S, R) /\ from # to
    BY <1>1
  <2> QED
    BY <1>1, <2>1, WritingLeads
<1>4. /\ Leads(p, r, call, a, b) /\ Leads(p, r, call, b, b) /\ Leads(p, r, Sync, b, c)
      /\ Leads(p, r, call, c, c) /\ Leads(p, r, Sync, c, d) /\ Leads(p, r, CopyOut(to), d, e)
      /\ Sorts(T, U, {"zero"}, {}, "busy", m, M) /\ Sorts(T, U, {"zero"}, {}, "idle", m, M)
      /\ Sorts(T, U, {"answer"}, {}, "idle", m, M)
      /\ Sorts(V, W, {"zero"}, {to}, "busy", m, M)
  BY <1>2, <1>3 DEF WritesWell
<1>5. b \in Known /\ c \in Known /\ d \in Known
  BY <1>2, <1>4, KnowsOf
<1>6. Leads(p, r, <<>>, b, b) /\ Leads(p, r, <<>>, d, d) /\ Len(call) \in {0, 1}
  BY <1>1, <1>5, LeadsNothing, OneCall
<1>7. Leads(p, r, Measured(call, <<>>, CopyOut(to)), a, e)
  BY <1>4, <1>5, <1>6, MeasuredLeads
<1>8. Leads(p, r, Measured(call, <<>>, <<>>), a, d)
  BY <1>4, <1>5, <1>6, MeasuredLeads
<1>9. Leads(p, r, Measured(call, <<>>, <<>>) \o CopyOut(to), a, e)
  BY <1>4, <1>8, LeadsThen
<1>10. /\ T = S /\ U = {"answer"} /\ call = Exchange(op, "send", "recv") /\ to = "recv"
       /\ e = Knows(S, {"answer"}, {"answer"}, {}, "idle", m, M)
  BY <1>1, <1>2
<1> QED
  BY <1>2, <1>4, <1>5, <1>7, <1>8, <1>9, <1>10

\* The rank gets nothing.
LEMMA QuietLeads ==
  ASSUME NEW p \in AllPrograms, NEW r, NEW op \in Exchanges(p), ~Writes(op, r),
         NEW S, NEW R, NEW m, NEW M, Sorts(S, R, {"zero"}, {}, "idle", m, M), OwnSlot(p) \in M,
         NEW from, NEW to, Gives(r, op, from, to, S, R),
         NEW call, call = Exchange(op, from, to),
         NEW a, NEW b, a = Knows(S, R, {"zero"}, {}, "idle", m, M),
         b = Knows(S, R, {"zero"}, {}, "busy", m, M)
  PROVE  /\ Leads(p, r, call, a, b) /\ Leads(p, r, call, b, b)
         /\ Leads(p, r, Sync, b, b) /\ Leads(p, r, Sync, b, a)
         /\ a \in Known /\ b \in Known
<1>1. /\ from \in {"send", "recv"} /\ to \in {"send", "recv"}
      /\ "none" \notin Holds(from, S, R) /\ "none" \notin Holds(to, S, R)
      /\ \A value \in Holds(from, S, R) : GivesRight(op, r, value)
  BY DEF Gives
<1>2. Sorts(S, R, {"zero"}, {}, "busy", m, M)
  BY DEF Sorts
<1>3. Left("send", S, {}) = S /\ Left("recv", R, {}) = R
  BY DEF Left
<1>4. Leads(p, r, call, Knows(S, R, {"zero"}, {}, "idle", m, M),
                        Knows(S, R, {"zero"}, {}, "busy", m, M))
  BY <1>1, <1>2, ExchangeLeads
<1>5. Leads(p, r, call, Knows(S, R, {"zero"}, {}, "busy", m, M),
                        Knows(S, R, {"zero"}, {}, "busy", m, M))
  BY <1>1, <1>2, ExchangeLeads
<1>6. /\ Leads(p, r, Sync, Knows(S, R, {"zero"}, {}, "busy", m, M),
                           Knows(S, R, {"zero"}, {}, "busy", m, M))
      /\ Leads(p, r, Sync, Knows(S, R, {"zero"}, {}, "busy", m, M),
                           Knows(S, R, {"zero"}, {}, "idle", m, M))
  BY <1>2, <1>3, SyncLeads
<1>7. a \in Known /\ b \in Known
  BY <1>2, KnowsOf
<1> QED
  BY <1>4, <1>5, <1>6, <1>7

LEMMA MeasuredQuiet ==
  ASSUME NEW p \in AllPrograms, NEW r, NEW op \in Exchanges(p), ~Writes(op, r),
         NEW S, NEW R, NEW m, NEW M, Sorts(S, R, {"zero"}, {}, "idle", m, M), OwnSlot(p) \in M,
         NEW from, NEW to, Gives(r, op, from, to, S, R)
  PROVE  Leads(p, r, Measured(Exchange(op, from, to), <<>>, <<>>),
               Knows(S, R, {"zero"}, {}, "idle", m, M), Knows(S, R, {"zero"}, {}, "idle", m, M))
<1>1. PICK a, b, call : /\ a = Knows(S, R, {"zero"}, {}, "idle", m, M)
                        /\ b = Knows(S, R, {"zero"}, {}, "busy", m, M)
                        /\ call = Exchange(op, from, to)
  OBVIOUS
<1>2. /\ Leads(p, r, call, a, b) /\ Leads(p, r, call, b, b)
      /\ Leads(p, r, Sync, b, b) /\ Leads(p, r, Sync, b, a) /\ a \in Known /\ b \in Known
  BY <1>1, QuietLeads
<1>3. Leads(p, r, <<>>, b, b) /\ Leads(p, r, <<>>, a, a) /\ Len(call) \in {0, 1}
  BY <1>1, <1>2, LeadsNothing, OneCall
<1>4. Leads(p, r, Measured(call, <<>>, <<>>), a, a)
  BY <1>2, <1>3, MeasuredLeads
<1> QED
  BY <1>1, <1>4

\* The rank has no part in the call.
LEMMA MeasuredNothing ==
  ASSUME NEW p, NEW r, NEW S, NEW R, NEW m, NEW M, Sorts(S, R, {"zero"}, {}, "idle", m, M)
  PROVE  Leads(p, r, Measured(<<>>, <<>>, <<>>),
               Knows(S, R, {"zero"}, {}, "idle", m, M), Knows(S, R, {"zero"}, {}, "idle", m, M))
<1>1. PICK a : a = Knows(S, R, {"zero"}, {}, "idle", m, M)
  OBVIOUS
<1>2. a \in Known
  BY <1>1, KnowsOf
<1>3. Left("send", S, {}) = S /\ Left("recv", R, {}) = R
  BY DEF Left
<1>4. Leads(p, r, Sync, a, a)
  BY <1>1, <1>3, SyncLeads
<1>5. Leads(p, r, <<>>, a, a) /\ Len(<<>>) \in {0, 1}
  BY <1>2, LeadsNothing
<1>6. Leads(p, r, Measured(<<>>, <<>>, <<>>), a, a)
  BY <1>2, <1>4, <1>5, MeasuredLeads
<1> QED
  BY <1>1, <1>6

\* The calls of the threads.
LEMMA TimedWriting ==
  ASSUME NEW p \in AllPrograms, NEW r, NEW op \in Exchanges(p), Writes(op, r),
         NEW S, NEW R, NEW m, NEW M, Sorts(S, R, {"zero"}, {}, "idle", m, M), OwnSlot(p) \in M,
         NEW from, Gives(r, op, from, "recv", S, R), from = "recv" => GivesRight(op, r, "answer")
  PROVE  LET b == Knows(S, {"answer"}, {"zero"}, {}, "idle", m, M)
             c == Knows(S, {"answer"}, {"answer"}, {}, "idle", m, M)
         IN  /\ Leads(p, r, Timed(Exchange(op, from, "recv")),
                      Knows(S, R, {"zero"}, {}, "idle", m, M), b)
             /\ Leads(p, r, CopyOut("recv"), b, c)
             /\ Sorts(S, {"answer"}, {"answer"}, {}, "idle", m, M)
<1>1. PICK T, U, V, W, to, call :
        /\ T = (IF to = "send" THEN {"answer"} ELSE S) /\ U = (IF to = "recv" THEN {"answer"} ELSE R)
        /\ V = (IF to = "send" THEN S \cup {"answer"} ELSE S)
        /\ W = (IF to = "recv" THEN R \cup {"answer"} ELSE R)
        /\ call = Exchange(op, from, to) /\ to = "recv"
  OBVIOUS
<1>2. PICK a, b, c, d, e : /\ a = Knows(S, R, {"zero"}, {}, "idle", m, M)
                           /\ b = Knows(V, W, {"zero"}, {to}, "busy", m, M)
                           /\ c = Knows(T, U, {"zero"}, {}, "busy", m, M)
                           /\ d = Knows(T, U, {"zero"}, {}, "idle", m, M)
                           /\ e = Knows(T, U, {"answer"}, {}, "idle", m, M)
  OBVIOUS
<1>3. WritesWell(p, r, call, to, S, R, V, W, T, U, m, M)
  <2>1. Gives(r, op, from, to, S, R) /\ (from = to => GivesRight(op, r, "answer"))
    BY <1>1
  <2> QED
    BY <1>1, <2>1, WritingLeads
<1>4. /\ Leads(p, r, call, a, b) /\ Leads(p, r, call, b, b) /\ Leads(p, r, Sync, b, c)
      /\ Leads(p, r, call, c, c) /\ Leads(p, r, Sync, c, d) /\ Leads(p, r, CopyOut(to), d, e)
      /\ Sorts(T, U, {"zero"}, {}, "busy", m, M) /\ Sorts(T, U, {"zero"}, {}, "idle", m, M)
      /\ Sorts(T, U, {"answer"}, {}, "idle", m, M)
      /\ Sorts(V, W, {"zero"}, {to}, "busy", m, M)
  BY <1>2, <1>3 DEF WritesWell
<1>5. a \in Known /\ b \in Known /\ c \in Known /\ d \in Known
  BY <1>2, <1>4, KnowsOf
<1>6. Len(call) = 1
  BY <1>1, OneCall
<1>7. Leads(p, r, Timed(call), a, d)
  BY <1>4, <1>5, <1>6, TimedLeads
<1>8. /\ T = S /\ U = {"answer"} /\ call = Exchange(op, from, "recv") /\ to = "recv"
  BY <1>1
<1> QED
  BY <1>2, <1>4, <1>7, <1>8

LEMMA TimedQuiet ==
  ASSUME NEW p \in AllPrograms, NEW r, NEW op \in Exchanges(p), ~Writes(op, r),
         NEW S, NEW R, NEW m, NEW M, Sorts(S, R, {"zero"}, {}, "idle", m, M), OwnSlot(p) \in M,
         NEW from, NEW to, Gives(r, op, from, to, S, R)
  PROVE  Leads(p, r, Timed(Exchange(op, from, to)),
               Knows(S, R, {"zero"}, {}, "idle", m, M), Knows(S, R, {"zero"}, {}, "idle", m, M))
<1>1. PICK a, b, call : /\ a = Knows(S, R, {"zero"}, {}, "idle", m, M)
                        /\ b = Knows(S, R, {"zero"}, {}, "busy", m, M)
                        /\ call = Exchange(op, from, to)
  OBVIOUS
<1>2. /\ Leads(p, r, call, a, b) /\ Leads(p, r, call, b, b)
      /\ Leads(p, r, Sync, b, b) /\ Leads(p, r, Sync, b, a) /\ a \in Known /\ b \in Known
  BY <1>1, QuietLeads
<1>3. Leads(p, r, Timed(call), a, a)
  BY <1>1, <1>2, OneCall, TimedLeads
<1> QED
  BY <1>1, <1>3

-----------------------------------------------------------------------------
\* The programs.

LEMMA SeedIsRight ==
  ASSUME NEW op, NEW r
  PROVE  GivesRight(op, r, "seed")
BY DEF GivesRight

LEMMA BuffersAre ==
  ASSUME NEW r
  PROVE  /\ Buffers(TRUE) = Fill("send", "seed") \o Fill("recv", "zero") \o Sync
         /\ r = 0 => Buffers(r = 0) = Fill("send", "seed") \o Fill("recv", "zero") \o Sync
         /\ r # 0 => Buffers(r = 0) = Fill("send", "zero") \o Fill("recv", "zero") \o Sync
BY DEF Buffers

\* A program has its buffers: the first holds what the rank gives.
Prepared(given, up, made) == Knows({given}, {"zero"}, {"zero"}, {}, "idle", up, made)

LEMMA BuffersLead ==
  ASSUME NEW p, NEW r, NEW m \in Ups, NEW M \in SlotSets, NEW a, NEW s,
         Leads(p, r, s, a, Started(m, M))
  PROVE  /\ Leads(p, r, s \o Buffers(TRUE), a, Prepared("seed", m, M))
         /\ r = 0 => Leads(p, r, s \o Buffers(r = 0), a, Prepared("seed", m, M))
         /\ r # 0 => Leads(p, r, s \o Buffers(r = 0), a, Prepared("zero", m, M))
<1>1. ASSUME NEW g \in {"seed", "zero"}
      PROVE  Leads(p, r, s \o (Fill("send", g) \o Fill("recv", "zero") \o Sync), a, Prepared(g, m, M))
  <2>1. g \in Content \ {"none"} /\ "zero" \in Content \ {"none"}
    BY DEF Content
  <2>2. Leads(p, r, Fill("send", g) \o Fill("recv", "zero") \o Sync, Started(m, M), Prepared(g, m, M))
    BY <2>1, FillsLeads DEF Prepared
  <2> QED
    BY <2>2, LeadsThen
<1>2. /\ Leads(p, r, s \o (Fill("send", "seed") \o Fill("recv", "zero") \o Sync), a, Prepared("seed", m, M))
      /\ Leads(p, r, s \o (Fill("send", "zero") \o Fill("recv", "zero") \o Sync), a, Prepared("zero", m, M))
  BY <1>1
<1> QED
  BY <1>2, BuffersAre

\* What a rank can do with a call once it has its buffers.
LEMMA FilledGives ==
  ASSUME NEW g \in {"seed", "zero"}, NEW m \in Ups, NEW M \in SlotSets, NEW r, NEW op
  PROVE  /\ Sorts({g}, {"zero"}, {"zero"}, {}, "idle", m, M)
         /\ GivesRight(op, r, g) => /\ Gives(r, op, "send", "recv", {g}, {"zero"})
                                    /\ Gives(r, op, "send", "send", {g}, {"zero"})
         /\ GivesRight(op, r, "zero") => Gives(r, op, "recv", "recv", {g}, {"zero"})
BY DEF Sorts, Contents, Content, Targets, Gives, Holds

\* All ranks get the answer, and validate it.
LEMMA AnsweredLeaves ==
  ASSUME NEW p \in AllPrograms, p \notin Threaded, NEW r, NEW op \in Exchanges(p), Writes(op, r),
         NEW m \in Ups, NEW M \in SlotSets, OwnSlot(p) \in M,
         NEW g \in {"seed", "zero"}, NEW from, Gives(r, op, from, "recv", {g}, {"zero"}),
         from = "recv" => GivesRight(op, r, "answer"),
         NEW a, NEW s, Leads(p, r, s, a, Prepared(g, m, M)),
         NEW last \in {<<>>, CopyOut("recv")}
  PROVE  LET calls == Measured(Exchange(op, from, "recv"), CopyOut("recv"), last)
         IN  /\ Leaves(p, r, s \o calls \o Validate \o Cleanup \o Api("Finalize"), a)
             /\ Leaves(p, r, s \o calls \o Sync \o Validate \o Cleanup \o Api("Finalize"), a)
             /\ Leaves(p, r, s \o calls \o Cleanup \o Api("Finalize"), a)
<1>1. PICK S, R, H, to, calls :
        /\ S = {g} /\ R = {"answer"} /\ H = {"answer"} /\ to = "recv"
        /\ calls = Measured(Exchange(op, from, to), CopyOut(to), last)
  OBVIOUS
<1>2. PICK T, U, b, c : /\ T = (IF to = "send" THEN {"answer"} ELSE S)
                        /\ U = (IF to = "recv" THEN {"answer"} ELSE {"zero"})
                        /\ b = Knows(S, {"zero"}, {"zero"}, {}, "idle", m, M)
                        /\ c = Knows(T, U, {"answer"}, {}, "idle", m, M)
  OBVIOUS
<1>3. /\ Sorts(S, {"zero"}, {"zero"}, {}, "idle", m, M) /\ Gives(r, op, from, to, S, {"zero"})
      /\ (from = to => GivesRight(op, r, "answer")) /\ last \in {<<>>, CopyOut(to)} /\ b = Prepared(g, m, M)
  BY <1>1, <1>2, FilledGives DEF Prepared
<1>4. Leads(p, r, calls, b, c) /\ Sorts(T, U, {"answer"}, {}, "idle", m, M)
  BY <1>1, <1>2, <1>3, MeasuredCopied
<1>5. T = S /\ U = R
  BY <1>1, <1>2
<1>6. Leads(p, r, calls, b, c) /\ c = Knows(S, R, H, {}, "idle", m, M)
      /\ Sorts(S, R, H, {}, "idle", m, M)
  BY <1>1, <1>2, <1>4, <1>5
<1>7. Leads(p, r, Validate, c, c)
  BY <1>1, <1>6, HostLeads
<1>8. Leads(p, r, Sync, c, c)
  <2>1. Left("send", S, {}) = S /\ Left("recv", R, {}) = R
    BY DEF Left
  <2> QED
    BY <1>6, <2>1, SyncLeads
<1>9. Leads(p, r, s, a, b)
  BY <1>3
<1>10. /\ Leads(p, r, s \o calls, a, c) /\ Leads(p, r, s \o calls \o Validate, a, c)
       /\ Leads(p, r, s \o calls \o Sync, a, c) /\ Leads(p, r, s \o calls \o Sync \o Validate, a, c)
  BY <1>6, <1>7, <1>8, <1>9, LeadsThen
<1>11. /\ Leaves(p, r, s \o calls \o Validate \o Cleanup \o Api("Finalize"), a)
       /\ Leaves(p, r, s \o calls \o Sync \o Validate \o Cleanup \o Api("Finalize"), a)
       /\ Leaves(p, r, s \o calls \o Cleanup \o Api("Finalize"), a)
  BY <1>6, <1>10, EndLeads
<1> QED
  BY <1>1, <1>11

\* The answer is copied after all the calls.
LEMMA LateLeaves ==
  ASSUME NEW p \in AllPrograms, p \notin Threaded, NEW r, NEW op \in Exchanges(p), Writes(op, r),
         NEW m \in Ups, NEW M \in SlotSets, OwnSlot(p) \in M,
         NEW g \in {"seed", "zero"}, Gives(r, op, "send", "recv", {g}, {"zero"}),
         NEW a, NEW s, Leads(p, r, s, a, Prepared(g, m, M))
  PROVE  LET call == Exchange(op, "send", "recv")
         IN  /\ Leaves(p, r, s \o Measured(call, <<>>, CopyOut("recv")) \o Validate \o Cleanup
                               \o Api("Finalize"), a)
             /\ Leaves(p, r, s \o Measured(call, <<>>, <<>>) \o (CopyOut("recv") \o Validate)
                               \o Cleanup \o Api("Finalize"), a)
<1>1. PICK S, R, H, Z : S = {g} /\ R = {"answer"} /\ H = {"answer"} /\ Z = {"zero"}
  OBVIOUS
<1>2. PICK b, c, call, late, calls :
        /\ b = Knows(S, Z, {"zero"}, {}, "idle", m, M) /\ c = Knows(S, R, H, {}, "idle", m, M)
        /\ call = Exchange(op, "send", "recv")
        /\ late = Measured(call, <<>>, CopyOut("recv")) /\ calls = Measured(call, <<>>, <<>>)
  OBVIOUS
<1>3. Sorts(S, Z, {"zero"}, {}, "idle", m, M) /\ Gives(r, op, "send", "recv", S, Z)
  BY <1>1, FilledGives
<1>4. /\ Leads(p, r, Measured(Exchange(op, "send", "recv"), <<>>, CopyOut("recv")),
               Knows(S, Z, {"zero"}, {}, "idle", m, M),
               Knows(S, {"answer"}, {"answer"}, {}, "idle", m, M))
      /\ \E d \in Known :
           /\ Leads(p, r, Measured(Exchange(op, "send", "recv"), <<>>, <<>>),
                    Knows(S, Z, {"zero"}, {}, "idle", m, M), d)
           /\ Leads(p, r, CopyOut("recv"), d, Knows(S, {"answer"}, {"answer"}, {}, "idle", m, M))
      /\ Sorts(S, {"answer"}, {"answer"}, {}, "idle", m, M)
  BY <1>3, MeasuredLate
<1>5. Leads(p, r, late, b, c) /\ Sorts(S, R, H, {}, "idle", m, M)
  BY <1>1, <1>2, <1>4
<1>6. PICK d \in Known : Leads(p, r, calls, b, d) /\ Leads(p, r, CopyOut("recv"), d, c)
  BY <1>1, <1>2, <1>4
<1>7. Leads(p, r, Validate, c, c)
  BY <1>1, <1>2, <1>5, HostLeads
<1>8. Leads(p, r, s, a, b)
  BY <1>1, <1>2 DEF Prepared
<1>9. Leads(p, r, s \o late, a, c) /\ Leads(p, r, s \o calls, a, d)
      /\ Leads(p, r, CopyOut("recv") \o Validate, d, c)
  BY <1>5, <1>6, <1>7, <1>8, LeadsThen
<1>10. /\ Leads(p, r, s \o late \o Validate, a, c)
       /\ Leads(p, r, s \o calls \o (CopyOut("recv") \o Validate), a, c)
  BY <1>7, <1>9, LeadsThen
<1>11. /\ Leaves(p, r, s \o late \o Validate \o Cleanup \o Api("Finalize"), a)
       /\ Leaves(p, r, s \o calls \o (CopyOut("recv") \o Validate) \o Cleanup \o Api("Finalize"), a)
  BY <1>2, <1>5, <1>10, EndLeads
<1> QED
  BY <1>2, <1>11

\* A rank that gets nothing, or has no part in the calls.
LEMMA QuietLeaves ==
  ASSUME NEW p \in AllPrograms, p \notin Threaded, NEW r,
         NEW m \in Ups, NEW M \in SlotSets, OwnSlot(p) \in M,
         NEW g \in {"seed", "zero"}, NEW a, NEW s, Leads(p, r, s, a, Prepared(g, m, M))
  PROVE  /\ \A op \in Exchanges(p) : \A from, to :
              ~Writes(op, r) /\ Gives(r, op, from, to, {g}, {"zero"}) =>
                Leaves(p, r, s \o Measured(Exchange(op, from, to), <<>>, <<>>) \o <<>> \o Cleanup
                               \o Api("Finalize"), a)
         /\ Leaves(p, r, s \o Measured(<<>>, <<>>, <<>>) \o <<>> \o Cleanup \o Api("Finalize"), a)
<1>1. PICK S, R, b : S = {g} /\ R = {"zero"} /\ b = Knows(S, R, R, {}, "idle", m, M)
  OBVIOUS
<1>2. Sorts(S, R, {"zero"}, {}, "idle", m, M) /\ Sorts(S, R, R, {}, "idle", m, M)
  BY <1>1, FilledGives
<1>3. Leads(p, r, s, a, b) /\ b \in Known
  BY <1>1, <1>2, KnowsOf DEF Prepared
<1>4. ASSUME NEW calls, Leads(p, r, calls, b, b)
      PROVE  Leaves(p, r, s \o calls \o <<>> \o Cleanup \o Api("Finalize"), a)
  <2>1. Leads(p, r, s \o calls, a, b)
    BY <1>3, <1>4, LeadsThen
  <2>2. Leads(p, r, s \o calls \o <<>>, a, b)
    BY <1>3, <2>1, LeadsThen, LeadsNothing
  <2> QED
    BY <1>1, <1>2, <2>2, EndLeads
<1>5. Leads(p, r, Measured(<<>>, <<>>, <<>>), b, b)
  BY <1>1, <1>2, MeasuredNothing
<1>6. ASSUME NEW op \in Exchanges(p), NEW from, NEW to, ~Writes(op, r), Gives(r, op, from, to, S, R)
      PROVE  Leads(p, r, Measured(Exchange(op, from, to), <<>>, <<>>), b, b)
  BY <1>1, <1>2, <1>6, MeasuredQuiet
<1> QED
  BY <1>1, <1>4, <1>5, <1>6

LEMMA MpiPrepared ==
  ASSUME NEW p \in Mpi, NEW r
  PROVE  LET s == MpiSetup \o Api("CommInitAll")
         IN  /\ Leads(p, r, s \o Buffers(TRUE), Start(p), Prepared("seed", "up", {"inter"}))
             /\ r = 0 => Leads(p, r, s \o Buffers(r = 0), Start(p), Prepared("seed", "up", {"inter"}))
             /\ r # 0 => Leads(p, r, s \o Buffers(r = 0), Start(p), Prepared("zero", "up", {"inter"}))
             /\ "up" \in Ups /\ {"inter"} \in SlotSets /\ OwnSlot(p) \in {"inter"}
             /\ p \in AllPrograms /\ p \notin Threaded
<1>1. "up" \in Ups /\ {"inter"} \in SlotSets
  BY DEF Ups, SlotSets, Slots
<1>2. OwnSlot(p) \in {"inter"} /\ p \in AllPrograms /\ p \notin Threaded
  BY DEF OwnSlot, AllPrograms, Mpi, Threaded
<1>3. PICK s : s = MpiSetup \o Api("CommInitAll")
  OBVIOUS
<1>4. Leads(p, r, s, Start(p), Started("up", {"inter"}))
  BY <1>3, MpiStart
<1>5. /\ Leads(p, r, s \o Buffers(TRUE), Start(p), Prepared("seed", "up", {"inter"}))
      /\ r = 0 => Leads(p, r, s \o Buffers(r = 0), Start(p), Prepared("seed", "up", {"inter"}))
      /\ r # 0 => Leads(p, r, s \o Buffers(r = 0), Start(p), Prepared("zero", "up", {"inter"}))
  BY <1>1, <1>4, BuffersLead
<1> QED
  BY <1>1, <1>2, <1>3, <1>5

LEMMA HybridPrepared ==
  ASSUME NEW p \in Hybrid, NEW r
  PROVE  LET s == MpiSetup \o HybridSetup(r)
         IN  /\ Leads(p, r, s \o Buffers(TRUE), Start(p), Prepared("seed", "up", Slots))
             /\ r = 0 => Leads(p, r, s \o Buffers(r = 0), Start(p), Prepared("seed", "up", Slots))
             /\ r # 0 => Leads(p, r, s \o Buffers(r = 0), Start(p), Prepared("zero", "up", Slots))
             /\ "up" \in Ups /\ Slots \in SlotSets /\ OwnSlot(p) \in Slots
             /\ p \in AllPrograms /\ p \notin Threaded
<1>1. "up" \in Ups /\ Slots \in SlotSets
  BY DEF Ups, SlotSets, Slots
<1>2. OwnSlot(p) \in Slots /\ p \in AllPrograms /\ p \notin Threaded
  BY DEF OwnSlot, AllPrograms, Hybrid, Threaded, Slots
<1>3. PICK s : s = MpiSetup \o HybridSetup(r)
  OBVIOUS
<1>4. Leads(p, r, s, Start(p), Started("up", Slots))
  <2>1. Leads(p, r, MpiSetup, Start(p), Fresh({"none"}, {}, "up", {}))
    BY MpiSetupLeads
  <2>2. Leads(p, r, HybridSetup(r), Fresh({"none"}, {}, "up", {}), Started("up", Slots))
    BY HybridStart DEF Slots
  <2> QED
    BY <1>3, <2>1, <2>2, LeadsThen
<1>5. /\ Leads(p, r, s \o Buffers(TRUE), Start(p), Prepared("seed", "up", Slots))
      /\ r = 0 => Leads(p, r, s \o Buffers(r = 0), Start(p), Prepared("seed", "up", Slots))
      /\ r # 0 => Leads(p, r, s \o Buffers(r = 0), Start(p), Prepared("zero", "up", Slots))
  BY <1>1, <1>4, BuffersLead
<1> QED
  BY <1>1, <1>2, <1>3, <1>5

LEMMA AnsweringPrograms ==
  ASSUME NEW n, NEW r
  PROVE  /\ \A p \in {"mpi/all_reduce", "mpi/all_gather", "mpi/all_to_all", "mpi/reduce_scatter"} :
              Leaves(p, r, Steps(p, n, r), Start(p))
         /\ \A p \in {"hybrid/all_reduce", "hybrid/all_gather"} :
              Leaves(p, r, Steps(p, n, r), Start(p))
<1>1. ASSUME NEW op \in {"AllReduce", "AllGather", "AllToAll", "ReduceScatter"},
             NEW m \in Ups, NEW M \in SlotSets
      PROVE  Writes(op, r) /\ Gives(r, op, "send", "recv", {"seed"}, {"zero"})
  <2>1. Gives(r, op, "send", "recv", {"seed"}, {"zero"})
    BY SeedIsRight, FilledGives
  <2> QED
    BY <2>1 DEF Writes, Joins
<1>2. ASSUME NEW p \in {"mpi/all_reduce", "mpi/all_gather", "mpi/all_to_all", "mpi/reduce_scatter"},
             NEW op \in {"AllReduce", "AllGather", "AllToAll", "ReduceScatter"}, op \in Exchanges(p),
             NEW last \in {<<>>, CopyOut("recv")}
      PROVE  Leaves(p, r, MpiSetup \o Api("CommInitAll") \o Buffers(TRUE)
                            \o Measured(Exchange(op, "send", "recv"), CopyOut("recv"), last)
                            \o Validate \o Cleanup \o Api("Finalize"), Start(p))
  <2>1. PICK s : s = MpiSetup \o Api("CommInitAll") \o Buffers(TRUE)
    OBVIOUS
  <2>2. p \in Mpi
    BY DEF Mpi
  <2>3. /\ Leads(p, r, s, Start(p), Prepared("seed", "up", {"inter"}))
        /\ "up" \in Ups /\ {"inter"} \in SlotSets /\ OwnSlot(p) \in {"inter"}
        /\ p \in AllPrograms /\ p \notin Threaded
    BY <2>1, <2>2, MpiPrepared
  <2>4. Writes(op, r) /\ Gives(r, op, "send", "recv", {"seed"}, {"zero"})
    BY <1>1, <2>3
  <2>5. Leaves(p, r, s \o Measured(Exchange(op, "send", "recv"), CopyOut("recv"), last)
                       \o Validate \o Cleanup \o Api("Finalize"), Start(p))
    BY <1>2, <2>3, <2>4, AnsweredLeaves
  <2> QED
    BY <2>1, <2>5
<1>3. ASSUME NEW p \in {"hybrid/all_reduce", "hybrid/all_gather"},
             NEW op \in {"AllReduce", "AllGather"}, op \in Exchanges(p),
             NEW last \in {<<>>, CopyOut("recv")}
      PROVE  /\ Leaves(p, r, MpiSetup \o HybridSetup(r) \o Buffers(TRUE)
                               \o Measured(Exchange(op, "send", "recv"), CopyOut("recv"), last)
                               \o Validate \o Cleanup \o Api("Finalize"), Start(p))
             /\ Leaves(p, r, MpiSetup \o HybridSetup(r) \o Buffers(TRUE)
                               \o Measured(Exchange(op, "send", "recv"), CopyOut("recv"), last)
                               \o Sync \o Validate \o Cleanup \o Api("Finalize"), Start(p))
  <2>1. PICK s : s = MpiSetup \o HybridSetup(r) \o Buffers(TRUE)
    OBVIOUS
  <2>2. p \in Hybrid
    BY DEF Hybrid
  <2>3. /\ Leads(p, r, s, Start(p), Prepared("seed", "up", Slots))
        /\ "up" \in Ups /\ Slots \in SlotSets /\ OwnSlot(p) \in Slots
        /\ p \in AllPrograms /\ p \notin Threaded
    BY <2>1, <2>2, HybridPrepared
  <2>4. Writes(op, r) /\ Gives(r, op, "send", "recv", {"seed"}, {"zero"})
    BY <1>1, <2>3
  <2>5. /\ Leaves(p, r, s \o Measured(Exchange(op, "send", "recv"), CopyOut("recv"), last)
                          \o Validate \o Cleanup \o Api("Finalize"), Start(p))
        /\ Leaves(p, r, s \o Measured(Exchange(op, "send", "recv"), CopyOut("recv"), last)
                          \o Sync \o Validate \o Cleanup \o Api("Finalize"), Start(p))
    BY <1>3, <2>3, <2>4, AnsweredLeaves
  <2> QED
    BY <2>1, <2>5
<1>4. Leaves("mpi/all_reduce", r, MpiAllReduce(r), Start("mpi/all_reduce"))
  BY <1>2 DEF MpiAllReduce, Exchanges
<1>5. Leaves("mpi/all_gather", r, MpiAllGather(r), Start("mpi/all_gather"))
  BY <1>2 DEF MpiAllGather, Exchanges
<1>6. Leaves("mpi/all_to_all", r, MpiAllToAll(r), Start("mpi/all_to_all"))
  BY <1>2 DEF MpiAllToAll, Exchanges
<1>7. Leaves("mpi/reduce_scatter", r, MpiReduceScatter(r), Start("mpi/reduce_scatter"))
  BY <1>2 DEF MpiReduceScatter, Exchanges
<1>8. Leaves("hybrid/all_reduce", r, HybridAllReduce(r), Start("hybrid/all_reduce"))
  BY <1>3 DEF HybridAllReduce, Exchanges
<1>9. Leaves("hybrid/all_gather", r, HybridAllGather(r), Start("hybrid/all_gather"))
  BY <1>3 DEF HybridAllGather, Exchanges
<1>10. /\ Steps("mpi/all_reduce", n, r) = MpiAllReduce(r)
       /\ Steps("mpi/all_gather", n, r) = MpiAllGather(r)
       /\ Steps("mpi/all_to_all", n, r) = MpiAllToAll(r)
       /\ Steps("mpi/reduce_scatter", n, r) = MpiReduceScatter(r)
       /\ Steps("hybrid/all_reduce", n, r) = HybridAllReduce(r)
       /\ Steps("hybrid/all_gather", n, r) = HybridAllGather(r)
  BY DEF Steps
<1> QED
  BY <1>4, <1>5, <1>6, <1>7, <1>8, <1>9, <1>10

\* One rank has it all, in the beginning or in the end.
LEMMA RootPrograms ==
  ASSUME NEW n, NEW r
  PROVE  \A p \in {"mpi/gather", "mpi/reduce", "mpi/scatter"} : Leaves(p, r, Steps(p, n, r), Start(p))
<1>1. ASSUME NEW p \in {"mpi/gather", "mpi/reduce", "mpi/scatter"}, NEW s,
             s = MpiSetup \o Api("CommInitAll") \o Buffers(TRUE)
      PROVE  /\ Leads(p, r, s, Start(p), Prepared("seed", "up", {"inter"}))
             /\ "up" \in Ups /\ {"inter"} \in SlotSets /\ OwnSlot(p) \in {"inter"}
             /\ p \in AllPrograms /\ p \notin Threaded
             /\ \A op : Gives(r, op, "send", "recv", {"seed"}, {"zero"})
  <2>1. p \in Mpi
    BY DEF Mpi
  <2>2. /\ Leads(p, r, s, Start(p), Prepared("seed", "up", {"inter"}))
        /\ "up" \in Ups /\ {"inter"} \in SlotSets /\ OwnSlot(p) \in {"inter"}
        /\ p \in AllPrograms /\ p \notin Threaded
    BY <1>1, <2>1, MpiPrepared
  <2> QED
    BY <2>2, SeedIsRight, FilledGives
<1>2. Leaves("mpi/gather", r, MpiGather(r), Start("mpi/gather"))
  <2>1. PICK p, op, s, call :
          /\ p = "mpi/gather" /\ op = "Gather" /\ s = MpiSetup \o Api("CommInitAll") \o Buffers(TRUE)
          /\ call = Exchange(op, "send", "recv")
    OBVIOUS
  <2>2. op \in Exchanges(p) /\ (Writes(op, r) <=> r = 0)
    BY <2>1 DEF Exchanges, Writes, Joins
  <2>3. /\ Leads(p, r, s, Start(p), Prepared("seed", "up", {"inter"}))
        /\ "up" \in Ups /\ {"inter"} \in SlotSets /\ OwnSlot(p) \in {"inter"}
        /\ p \in AllPrograms /\ p \notin Threaded
        /\ Gives(r, op, "send", "recv", {"seed"}, {"zero"})
    BY <1>1, <2>1
  <2>4. MpiGather(r) = s \o Measured(call, <<>>, <<>>)
                         \o When(r = 0, CopyOut("recv") \o Validate) \o Cleanup \o Api("Finalize")
    BY <2>1 DEF MpiGather
  <2>5. CASE r = 0
    <3>1. Leaves(p, r, s \o Measured(call, <<>>, <<>>) \o (CopyOut("recv") \o Validate)
                         \o Cleanup \o Api("Finalize"), Start(p))
      BY <2>1, <2>2, <2>3, <2>5, LateLeaves
    <3> QED
      BY <2>1, <2>4, <2>5, <3>1 DEF When
  <2>6. CASE r # 0
    <3>1. Leaves(p, r, s \o Measured(call, <<>>, <<>>) \o <<>> \o Cleanup \o Api("Finalize"), Start(p))
      BY <2>1, <2>2, <2>3, <2>6, QuietLeaves
    <3> QED
      BY <2>1, <2>4, <2>6, <3>1 DEF When
  <2> QED
    BY <2>5, <2>6
<1>3. Leaves("mpi/reduce", r, MpiReduce(r), Start("mpi/reduce"))
  <2>1. PICK p, op, s, call :
          /\ p = "mpi/reduce" /\ op = "Reduce" /\ s = MpiSetup \o Api("CommInitAll") \o Buffers(TRUE)
          /\ call = Exchange(op, "send", "recv")
    OBVIOUS
  <2>2. op \in Exchanges(p) /\ (Writes(op, r) <=> r = 0)
    BY <2>1 DEF Exchanges, Writes, Joins
  <2>3. /\ Leads(p, r, s, Start(p), Prepared("seed", "up", {"inter"}))
        /\ "up" \in Ups /\ {"inter"} \in SlotSets /\ OwnSlot(p) \in {"inter"}
        /\ p \in AllPrograms /\ p \notin Threaded
        /\ Gives(r, op, "send", "recv", {"seed"}, {"zero"})
    BY <1>1, <2>1
  <2>4. MpiReduce(r) = s \o Measured(call, When(r = 0, CopyOut("recv")), <<>>)
                         \o When(r = 0, Validate) \o Cleanup \o Api("Finalize")
    BY <2>1 DEF MpiReduce
  <2>5. CASE r = 0
    <3>1. Leaves(p, r, s \o Measured(call, CopyOut("recv"), <<>>) \o Validate
                         \o Cleanup \o Api("Finalize"), Start(p))
      BY <2>1, <2>2, <2>3, <2>5, AnsweredLeaves
    <3> QED
      BY <2>1, <2>4, <2>5, <3>1 DEF When
  <2>6. CASE r # 0
    <3>1. Leaves(p, r, s \o Measured(call, <<>>, <<>>) \o <<>> \o Cleanup \o Api("Finalize"), Start(p))
      BY <2>1, <2>2, <2>3, <2>6, QuietLeaves
    <3> QED
      BY <2>1, <2>4, <2>6, <3>1 DEF When
  <2> QED
    BY <2>5, <2>6
<1>4. Leaves("mpi/scatter", r, MpiScatter(r), Start("mpi/scatter"))
  <2>1. PICK p, op, s, call, g :
          /\ p = "mpi/scatter" /\ op = "Scatter"
          /\ s = MpiSetup \o Api("CommInitAll") \o Buffers(r = 0)
          /\ call = Exchange(op, "send", "recv") /\ g = (IF r = 0 THEN "seed" ELSE "zero")
    OBVIOUS
  <2>2. op \in Exchanges(p) /\ Writes(op, r) /\ GivesRight(op, r, g) /\ g \in {"seed", "zero"}
    BY <2>1 DEF Exchanges, Writes, Joins, GivesRight
  <2>3. /\ Leads(p, r, s, Start(p), Prepared(g, "up", {"inter"}))
        /\ "up" \in Ups /\ {"inter"} \in SlotSets /\ OwnSlot(p) \in {"inter"}
        /\ p \in AllPrograms /\ p \notin Threaded
    <3>1. p \in Mpi
      BY <2>1 DEF Mpi
    <3> QED
      BY <2>1, <3>1, MpiPrepared
  <2>4. Gives(r, op, "send", "recv", {g}, {"zero"})
    BY <2>2, <2>3, FilledGives
  <2>5. Leaves(p, r, s \o Measured(call, <<>>, CopyOut("recv")) \o Validate
                       \o Cleanup \o Api("Finalize"), Start(p))
    BY <2>1, <2>2, <2>3, <2>4, LateLeaves
  <2> QED
    BY <2>1, <2>5 DEF MpiScatter
<1>5. /\ Steps("mpi/gather", n, r) = MpiGather(r) /\ Steps("mpi/reduce", n, r) = MpiReduce(r)
      /\ Steps("mpi/scatter", n, r) = MpiScatter(r)
  BY DEF Steps
<1> QED
  BY <1>2, <1>3, <1>4, <1>5

\* A scenario of broadcast, after which the next one may begin.
Plays(r, scenario, S, R, T, U, m, M) ==
  /\ Leads("mpi/broadcast", r, scenario, Knows(S, R, {"zero"}, {}, "idle", m, M),
                                         Knows(T, U, {"answer"}, {}, "idle", m, M))
  /\ Leads("mpi/broadcast", r, ClearHost, Knows(T, U, {"answer"}, {}, "idle", m, M),
                                          Knows(T, U, {"zero"}, {}, "idle", m, M))
  /\ Sorts(T, U, {"zero"}, {}, "idle", m, M) /\ Sorts(T, U, {"answer"}, {}, "idle", m, M)

LEMMA ScenarioLeads ==
  ASSUME NEW r, NEW op \in {"Broadcast", "Bcast"},
         NEW S, NEW R, NEW m, NEW M, Sorts(S, R, {"zero"}, {}, "idle", m, M), "inter" \in M,
         NEW from, NEW to, Gives(r, op, from, to, S, R),
         NEW T, NEW U, T = (IF to = "send" THEN {"answer"} ELSE S),
         U = (IF to = "recv" THEN {"answer"} ELSE R),
         NEW scenario, scenario = Measured(Exchange(op, from, to), CopyOut(to), <<>>) \o Validate
  PROVE  Plays(r, scenario, S, R, T, U, m, M)
<1>0. PICK a, b, c : /\ a = Knows(S, R, {"zero"}, {}, "idle", m, M)
                     /\ b = Knows(T, U, {"answer"}, {}, "idle", m, M)
                     /\ c = Knows(T, U, {"zero"}, {}, "idle", m, M)
  OBVIOUS
<1>1. PICK p, last : p = "mpi/broadcast" /\ last = <<>>
  OBVIOUS
<1>2. /\ p \in AllPrograms /\ op \in Exchanges(p) /\ Writes(op, r) /\ OwnSlot(p) \in M
      /\ (from = to => GivesRight(op, r, "answer")) /\ last \in {<<>>, CopyOut(to)}
  BY <1>1 DEF AllPrograms, Mpi, Exchanges, Writes, Joins, OwnSlot, GivesRight
<1>3. /\ Leads(p, r, Measured(Exchange(op, from, to), CopyOut(to), last),
               Knows(S, R, {"zero"}, {}, "idle", m, M), Knows(T, U, {"answer"}, {}, "idle", m, M))
      /\ Sorts(T, U, {"answer"}, {}, "idle", m, M) /\ Sorts(T, U, {"zero"}, {}, "idle", m, M)
  BY <1>2, MeasuredCopied
<1>4. Leads(p, r, Validate, b, b) /\ Leads(p, r, ClearHost, b, c)
  BY <1>0, <1>3, HostLeads
<1>5. Leads(p, r, Measured(Exchange(op, from, to), CopyOut(to), last) \o Validate, a, b)
  BY <1>0, <1>3, <1>4, LeadsThen
<1> QED
  BY <1>0, <1>1, <1>3, <1>4, <1>5 DEF Plays

LEMMA BroadcastProgram ==
  ASSUME NEW n, NEW r
  PROVE  Leaves("mpi/broadcast", r, Steps("mpi/broadcast", n, r), Start("mpi/broadcast"))
<1>1. PICK p, m, M, g, x, s :
        /\ p = "mpi/broadcast" /\ m = "up" /\ M = {"inter"}
        /\ g = (IF r = 0 THEN "seed" ELSE "zero") /\ x = (IF r = 0 THEN "send" ELSE "recv")
        /\ s = MpiSetup \o Api("CommInitAll") \o Buffers(r = 0)
  OBVIOUS
<1>2. PICK S, Z, U, T : /\ S = {g} /\ Z = {"zero"} /\ U = {"answer"}
                        /\ T = (IF x = "send" THEN {"answer"} ELSE S)
  OBVIOUS
<1>3. PICK a, b, c, d, e : /\ a = Knows(S, Z, {"zero"}, {}, "idle", m, M)
                           /\ b = Knows(S, U, {"answer"}, {}, "idle", m, M)
                           /\ c = Knows(S, U, {"zero"}, {}, "idle", m, M)
                           /\ d = Knows(T, U, {"answer"}, {}, "idle", m, M)
                           /\ e = Knows(T, U, {"zero"}, {}, "idle", m, M)
  OBVIOUS
<1>4. /\ Leads(p, r, s, Start(p), a) /\ "inter" \in M /\ Sorts(S, Z, {"zero"}, {}, "idle", m, M)
      /\ p \notin Threaded
  <2>1. p \in Mpi
    BY <1>1 DEF Mpi
  <2>2. Leads(p, r, s, Start(p), Prepared(g, m, M)) /\ m \in Ups /\ M \in SlotSets /\ p \notin Threaded
    BY <1>1, <2>1, MpiPrepared
  <2>3. Sorts(S, Z, {"zero"}, {}, "idle", m, M)
    BY <1>1, <1>2, <2>2, FilledGives
  <2> QED
    BY <1>1, <1>2, <1>3, <2>2, <2>3 DEF Prepared
<1>5. ASSUME NEW op \in {"Broadcast", "Bcast"}
      PROVE  /\ Gives(r, op, "send", "recv", S, Z) /\ Gives(r, op, x, x, S, U)
             /\ Gives(r, op, x, x, T, U)
  BY <1>1, <1>2 DEF Gives, Holds, GivesRight, Joins
<1>6. PICK first, second, third :
        /\ first = Measured(Exchange("Broadcast", "send", "recv"), CopyOut("recv"), <<>>) \o Validate
        /\ second = Measured(Exchange("Broadcast", x, x), CopyOut(x), <<>>) \o Validate
        /\ third = Measured(Exchange("Bcast", x, x), CopyOut(x), <<>>) \o Validate
  OBVIOUS
<1>7. Plays(r, first, S, Z, S, U, m, M)
  <2>1. PICK from, to, op : from = "send" /\ to = "recv" /\ op = "Broadcast"
    OBVIOUS
  <2>2. S = (IF to = "send" THEN {"answer"} ELSE S) /\ U = (IF to = "recv" THEN {"answer"} ELSE Z)
    BY <1>2, <2>1
  <2>3. op \in {"Broadcast", "Bcast"} /\ Gives(r, op, from, to, S, Z)
    BY <1>5, <2>1
  <2>4. first = Measured(Exchange(op, from, to), CopyOut(to), <<>>) \o Validate
    BY <1>6, <2>1
  <2> QED
    BY <1>4, <2>2, <2>3, <2>4, ScenarioLeads
<1>8. Plays(r, second, S, U, T, U, m, M)
  <2>1. PICK op : op = "Broadcast"
    OBVIOUS
  <2>2. T = (IF x = "send" THEN {"answer"} ELSE S) /\ U = (IF x = "recv" THEN {"answer"} ELSE U)
    BY <1>2
  <2>3. op \in {"Broadcast", "Bcast"} /\ Gives(r, op, x, x, S, U)
    BY <1>5, <2>1
  <2>4. second = Measured(Exchange(op, x, x), CopyOut(x), <<>>) \o Validate
    BY <1>6, <2>1
  <2>5. Sorts(S, U, {"zero"}, {}, "idle", m, M)
    BY <1>7 DEF Plays
  <2> QED
    BY <1>4, <2>2, <2>3, <2>4, <2>5, ScenarioLeads
<1>9. Plays(r, third, T, U, T, U, m, M)
  <2>1. PICK op : op = "Bcast"
    OBVIOUS
  <2>2. T = (IF x = "send" THEN {"answer"} ELSE T) /\ U = (IF x = "recv" THEN {"answer"} ELSE U)
    BY <1>2
  <2>3. op \in {"Broadcast", "Bcast"} /\ Gives(r, op, x, x, T, U)
    BY <1>5, <2>1
  <2>4. third = Measured(Exchange(op, x, x), CopyOut(x), <<>>) \o Validate
    BY <1>6, <2>1
  <2>5. Sorts(T, U, {"zero"}, {}, "idle", m, M)
    BY <1>8 DEF Plays
  <2> QED
    BY <1>4, <2>2, <2>3, <2>4, <2>5, ScenarioLeads
<1>10. Leads(p, r, s \o first \o ClearHost \o second \o ClearHost \o third, Start(p), d)
  <2>1. /\ Leads(p, r, first, a, b) /\ Leads(p, r, ClearHost, b, c) /\ Leads(p, r, second, c, d)
        /\ Leads(p, r, ClearHost, d, e) /\ Leads(p, r, third, e, d)
    BY <1>1, <1>3, <1>7, <1>8, <1>9 DEF Plays
  <2>2. Leads(p, r, s \o first, Start(p), b)
    BY <1>4, <2>1, LeadsThen
  <2>3. Leads(p, r, s \o first \o ClearHost, Start(p), c)
    BY <2>1, <2>2, LeadsThen
  <2>4. Leads(p, r, s \o first \o ClearHost \o second, Start(p), d)
    BY <2>1, <2>3, LeadsThen
  <2>5. Leads(p, r, s \o first \o ClearHost \o second \o ClearHost, Start(p), e)
    BY <2>1, <2>4, LeadsThen
  <2> QED
    BY <2>1, <2>5, LeadsThen
<1>11. Leaves(p, r, s \o first \o ClearHost \o second \o ClearHost \o third
                      \o Cleanup \o Api("Finalize"), Start(p))
  <2>1. PICK H : H = {"answer"}
    OBVIOUS
  <2>2. Sorts(T, U, H, {}, "idle", m, M) /\ d = Knows(T, U, H, {}, "idle", m, M)
    BY <1>3, <1>9, <2>1 DEF Plays
  <2> QED
    BY <1>4, <1>10, <2>2, EndLeads
<1>12. MpiBroadcast(r) = s \o first \o ClearHost \o second \o ClearHost \o third
                           \o Cleanup \o Api("Finalize")
  BY <1>1, <1>6 DEF MpiBroadcast
<1> QED
  BY <1>1, <1>11, <1>12 DEF Steps

-----------------------------------------------------------------------------
\* Sending and receiving.

LEMMA NoSteps ==
  ASSUME NEW op, NEW from, NEW to
  PROVE  /\ Exchange(op, from, to) \o <<>> = Exchange(op, from, to)
         /\ <<>> \o Exchange(op, from, to) = Exchange(op, from, to)
         /\ <<>> \o <<>> = <<>>
BY DEF Exchange

LEMMA WhoSends ==
  ASSUME NEW r
  PROVE  /\ r = 0 => SendsOrReceives(r) = Exchange("Send", "send", "send")
         /\ r = 1 => SendsOrReceives(r) = Exchange("Recv", "recv", "recv")
         /\ r \notin {0, 1} => SendsOrReceives(r) = <<>>
<1>1. CASE r = 0
  BY <1>1, NoSteps DEF SendsOrReceives, When
<1>2. CASE r = 1
  BY <1>2, NoSteps DEF SendsOrReceives, When
<1>3. CASE r \notin {0, 1}
  BY <1>3, NoSteps DEF SendsOrReceives, When
<1> QED
  BY <1>1, <1>2, <1>3

LEMMA SendRecvLeaves ==
  ASSUME NEW p \in {"mpi/send_recv", "hybrid/send_recv"}, NEW r,
         NEW m \in Ups, NEW M \in SlotSets, OwnSlot(p) \in M, NEW g,
         g = (IF r = 0 THEN "seed" ELSE "zero"), NEW a, NEW s, Leads(p, r, s, a, Prepared(g, m, M))
  PROVE  Leaves(p, r, s \o Measured(SendsOrReceives(r), When(r = 1, CopyOut("recv")),
                                    When(r = 1, CopyOut("recv")))
                        \o When(r = 1, Validate) \o Cleanup \o Api("Finalize"), a)
<1>1. /\ p \in AllPrograms /\ p \notin Threaded /\ g \in {"seed", "zero"}
      /\ "Send" \in Exchanges(p) /\ "Recv" \in Exchanges(p)
      /\ ~Writes("Send", r) /\ Writes("Recv", r)
      /\ (r = 0 => GivesRight("Send", r, g)) /\ GivesRight("Recv", r, "zero")
      /\ GivesRight("Recv", r, "answer")
  BY DEF AllPrograms, Mpi, Hybrid, Threaded, Exchanges, Writes, Joins, GivesRight
<1>2. CASE r = 0
  <2>1. PICK op, from : op = "Send" /\ from = "send"
    OBVIOUS
  <2>2. Gives(r, op, from, from, {g}, {"zero"}) /\ op \in Exchanges(p) /\ ~Writes(op, r)
    BY <1>1, <1>2, <2>1, FilledGives
  <2>3. Leaves(p, r, s \o Measured(Exchange(op, from, from), <<>>, <<>>) \o <<>> \o Cleanup
                       \o Api("Finalize"), a)
    BY <1>1, <2>2, QuietLeaves
  <2> QED
    BY <1>2, <2>1, <2>3, WhoSends DEF When
<1>3. CASE r = 1
  <2>1. PICK op, from, last : op = "Recv" /\ from = "recv" /\ last = CopyOut("recv")
    OBVIOUS
  <2>2. /\ Gives(r, op, from, "recv", {g}, {"zero"}) /\ op \in Exchanges(p) /\ Writes(op, r)
        /\ (from = "recv" => GivesRight(op, r, "answer")) /\ last \in {<<>>, CopyOut("recv")}
    BY <1>1, <2>1, FilledGives
  <2>3. Leaves(p, r, s \o Measured(Exchange(op, from, "recv"), CopyOut("recv"), last) \o Validate
                       \o Cleanup \o Api("Finalize"), a)
    BY <1>1, <2>2, AnsweredLeaves
  <2> QED
    BY <1>3, <2>1, <2>3, WhoSends DEF When
<1>4. CASE r \notin {0, 1}
  <2>1. Leaves(p, r, s \o Measured(<<>>, <<>>, <<>>) \o <<>> \o Cleanup \o Api("Finalize"), a)
    BY <1>1, QuietLeaves
  <2> QED
    BY <1>4, <2>1, WhoSends DEF When
<1> QED
  BY <1>2, <1>3, <1>4

LEMMA LeavesAfter ==
  ASSUME NEW p, NEW r, NEW s, NEW t, NEW a, NEW b, Leads(p, r, s, a, b), Leaves(p, r, t, b)
  PROVE  Leaves(p, r, s \o t, a)
BY LeadsThen DEF Leaves

LEMMA SendRecvPrograms ==
  ASSUME NEW n, NEW r
  PROVE  \A p \in {"mpi/send_recv", "hybrid/send_recv"} : Leaves(p, r, Steps(p, n, r), Start(p))
<1>1. PICK a, d, g : /\ a = Fresh({"none"}, {}, "up", {}) /\ d = Fresh({"none"}, {}, "down", {})
                     /\ g = (IF r = 0 THEN "seed" ELSE "zero")
  OBVIOUS
<1>2. /\ FreshSorts({"none"}, {}, "up", {}) /\ FreshSorts({"none"}, {}, "down", {})
      /\ "up" \in Ups /\ {"inter"} \in SlotSets /\ Slots \in SlotSets
  BY DEF FreshSorts, Contents, Content, Ups, SlotSets, Slots
<1>3. ASSUME NEW p \in {"mpi/send_recv", "hybrid/send_recv"}
      PROVE  Leads(p, r, MpiSetup, Start(p), a) /\ Leads(p, r, Api("Finalize"), a, d) /\ d \in Known
  <2>1. p \in Hybrid \cup Mpi
    BY DEF Hybrid, Mpi
  <2> QED
    BY <1>1, <1>2, <2>1, MpiSetupLeads, FreshOf
<1>4. ASSUME NEW p \in {"mpi/send_recv", "hybrid/send_recv"}, NEW s, NEW M \in SlotSets,
             OwnSlot(p) \in M, Leads(p, r, s, a, Started("up", M))
      PROVE  Leaves(p, r, s \o Buffers(r = 0)
                            \o Measured(SendsOrReceives(r), When(r = 1, CopyOut("recv")),
                                        When(r = 1, CopyOut("recv")))
                            \o When(r = 1, Validate) \o Cleanup \o Api("Finalize"), a)
  <2>1. PICK m : m = "up"
    OBVIOUS
  <2>2. m \in Ups /\ Leads(p, r, s, a, Started(m, M))
    BY <1>2, <1>4, <2>1
  <2>3. Leads(p, r, s \o Buffers(r = 0), a, Prepared(g, m, M))
    BY <1>1, <2>2, BuffersLead
  <2> QED
    BY <1>1, <1>4, <2>2, <2>3, SendRecvLeaves
<1>5. Leaves("mpi/send_recv", r, MpiSendRecv(n, r), Start("mpi/send_recv"))
  <2>1. PICK p : p = "mpi/send_recv"
    OBVIOUS
  <2>2. p \in {"mpi/send_recv", "hybrid/send_recv"}
    BY <2>1
  <2>3. OwnSlot(p) \in {"inter"} /\ p \notin Threaded
    BY <2>1 DEF OwnSlot, Mpi, Threaded
  <2>4. CASE n < 2
    <3>1. Leads(p, r, MpiSetup \o Api("Finalize"), Start(p), d) /\ d \in Known
      BY <1>3, <2>2, LeadsThen
    <3> QED
      BY <2>1, <2>4, <3>1 DEF MpiSendRecv, Leaves
  <2>5. CASE ~(n < 2)
    <3>1. Leads(p, r, Api("CommInitAll"), a, Started("up", {"inter"}))
      BY <1>1, <1>2, <2>3, JoinLeads DEF Joins
    <3>2. Leaves(p, r, Api("CommInitAll") \o Buffers(r = 0)
                         \o Measured(SendsOrReceives(r), When(r = 1, CopyOut("recv")),
                                     When(r = 1, CopyOut("recv")))
                         \o When(r = 1, Validate) \o Cleanup \o Api("Finalize"), a)
      BY <1>2, <1>4, <2>2, <2>3, <3>1
    <3>3. Leaves(p, r, MpiSetup \o
                   (Api("CommInitAll") \o Buffers(r = 0)
                      \o Measured(SendsOrReceives(r), When(r = 1, CopyOut("recv")),
                                  When(r = 1, CopyOut("recv")))
                      \o When(r = 1, Validate) \o Cleanup \o Api("Finalize")), Start(p))
      BY <1>3, <2>2, <3>2, LeavesAfter
    <3> QED
      BY <2>1, <2>5, <3>3 DEF MpiSendRecv
  <2> QED
    BY <2>4, <2>5
<1>6. Leaves("hybrid/send_recv", r, HybridSendRecv(n, r), Start("hybrid/send_recv"))
  <2>1. PICK p : p = "hybrid/send_recv"
    OBVIOUS
  <2>2. p \in {"mpi/send_recv", "hybrid/send_recv"} /\ p \in Hybrid
    BY <2>1 DEF Hybrid
  <2>3. OwnSlot(p) \in Slots /\ p \notin Threaded
    BY <2>1 DEF OwnSlot, Mpi, Threaded, Slots
  <2>4. CASE n < 2
    <3>1. Leads(p, r, Local("SetDevice", "none"), a, a)
      BY <1>1, <1>2, SetDeviceLeads
    <3>2. Leads(p, r, Local("SetDevice", "none") \o Api("Finalize"), a, d)
      BY <1>3, <2>2, <3>1, LeadsThen
    <3>3. Leads(p, r, MpiSetup \o (Local("SetDevice", "none") \o Api("Finalize")), Start(p), d)
          /\ d \in Known
      BY <1>3, <2>2, <3>2, LeadsThen
    <3> QED
      BY <2>1, <2>4, <3>3 DEF HybridSendRecv, Leaves
  <2>5. CASE ~(n < 2)
    <3>1. Leads(p, r, HybridSetup(r), a, Started("up", Slots))
      BY <1>1, <2>2, HybridStart DEF Slots
    <3>2. Leaves(p, r, HybridSetup(r) \o Buffers(r = 0)
                         \o Measured(SendsOrReceives(r), When(r = 1, CopyOut("recv")),
                                     When(r = 1, CopyOut("recv")))
                         \o When(r = 1, Validate) \o Cleanup \o Api("Finalize"), a)
      BY <1>2, <1>4, <2>2, <2>3, <3>1
    <3>3. Leaves(p, r, MpiSetup \o
                   (HybridSetup(r) \o Buffers(r = 0)
                      \o Measured(SendsOrReceives(r), When(r = 1, CopyOut("recv")),
                                  When(r = 1, CopyOut("recv")))
                      \o When(r = 1, Validate) \o Cleanup \o Api("Finalize")), Start(p))
      BY <1>3, <2>2, <3>2, LeavesAfter
    <3> QED
      BY <2>1, <2>5, <3>3 DEF HybridSendRecv
  <2> QED
    BY <2>4, <2>5
<1>7. /\ Steps("mpi/send_recv", n, r) = MpiSendRecv(n, r)
      /\ Steps("hybrid/send_recv", n, r) = HybridSendRecv(n, r)
  BY DEF Steps
<1> QED
  BY <1>5, <1>6, <1>7

-----------------------------------------------------------------------------
\* The threaded programs.

LEMMA ThreadTimed ==
  ASSUME NEW p \in AllPrograms, NEW r, NEW op \in Exchanges(p), Writes(op, r),
         NEW S, NEW R, NEW A, A = {"answer"}, NEW m, NEW M,
         Sorts(S, R, {"zero"}, {}, "idle", m, M), OwnSlot(p) \in M, Gives(r, op, "send", "recv", S, R),
         NEW a, NEW b, NEW d, NEW s, Leads(p, r, s, a, b),
         b = Knows(S, R, {"zero"}, {}, "idle", m, M), d = Knows(S, A, A, {}, "idle", m, M)
  PROVE  /\ Leads(p, r, s \o Timed(Exchange(op, "send", "recv")) \o CopyOut("recv") \o Validate, a, d)
         /\ Sorts(S, A, A, {}, "idle", m, M)
<1>1. PICK from, c : from = "send" /\ c = Knows(S, A, {"zero"}, {}, "idle", m, M)
  OBVIOUS
<1>2. Gives(r, op, from, "recv", S, R) /\ (from = "recv" => GivesRight(op, r, "answer"))
  BY <1>1
<1>3. /\ Leads(p, r, Timed(Exchange(op, from, "recv")), Knows(S, R, {"zero"}, {}, "idle", m, M),
               Knows(S, {"answer"}, {"zero"}, {}, "idle", m, M))
      /\ Leads(p, r, CopyOut("recv"), Knows(S, {"answer"}, {"zero"}, {}, "idle", m, M),
               Knows(S, {"answer"}, {"answer"}, {}, "idle", m, M))
      /\ Sorts(S, {"answer"}, {"answer"}, {}, "idle", m, M)
  BY <1>2, TimedWriting
<1>4. /\ Leads(p, r, Timed(Exchange(op, from, "recv")), b, c) /\ Leads(p, r, CopyOut("recv"), c, d)
      /\ Sorts(S, A, A, {}, "idle", m, M) /\ Leads(p, r, s, a, b)
  BY <1>1, <1>3
<1>5. Leads(p, r, Validate, d, d)
  BY <1>4, HostLeads
<1>6. Leads(p, r, s \o Timed(Exchange(op, from, "recv")), a, c)
  BY <1>4, LeadsThen
<1>7. Leads(p, r, s \o Timed(Exchange(op, from, "recv")) \o CopyOut("recv"), a, d)
  BY <1>4, <1>6, LeadsThen
<1>8. Leads(p, r, s \o Timed(Exchange(op, from, "recv")) \o CopyOut("recv") \o Validate, a, d)
  BY <1>5, <1>7, LeadsThen
<1> QED
  BY <1>1, <1>4, <1>8

LEMMA ThreadPrepared ==
  ASSUME NEW p \in Threaded, NEW r
  PROVE  /\ Leads(p, r, ThreadSetup \o Buffers(TRUE), Start(p),
                  Knows({"seed"}, {"zero"}, {"zero"}, {}, "idle", "none", {"intra"}))
         /\ Leads(p, r, ThreadSetup \o Fill("send", "seed") \o Fill("recv", "junk") \o Sync, Start(p),
                  Knows({"seed"}, {"junk"}, {"zero"}, {}, "idle", "none", {"intra"}))
         /\ "none" \in Ups /\ {"intra"} \in SlotSets /\ OwnSlot(p) \in {"intra"}
<1>1. "none" \in Ups /\ {"intra"} \in SlotSets /\ OwnSlot(p) \in {"intra"}
  BY DEF Ups, SlotSets, Slots, OwnSlot, Mpi, Threaded
<1>2. PICK a, b, m, M : /\ a = Start(p) /\ b = Started(m, M) /\ m = "none" /\ M = {"intra"}
  OBVIOUS
<1>3. Leads(p, r, ThreadSetup, a, b)
  BY <1>2, ThreadStart
<1>4. Leads(p, r, ThreadSetup \o Buffers(TRUE), a, Prepared("seed", m, M))
  BY <1>1, <1>2, <1>3, BuffersLead
<1>5. PICK given, taken : given = "seed" /\ taken = "junk"
  OBVIOUS
<1>6. PICK c, d : /\ c = Knows({given}, {"none"}, {"zero"}, {}, "idle", m, M)
                  /\ d = Knows({given}, {taken}, {"zero"}, {}, "idle", m, M)
  OBVIOUS
<1>7. Leads(p, r, Fill("send", given), b, c) /\ Leads(p, r, Fill("recv", taken), c, d)
      /\ Leads(p, r, Sync, d, d)
  <2>1. m \in Ups /\ M \in SlotSets /\ given \in Content \ {"none"} /\ taken \in Content \ {"none"}
    BY <1>1, <1>2, <1>5 DEF Content
  <2>2. /\ Leads(p, r, Fill("send", given), Started(m, M),
                 Knows({given}, {"none"}, {"zero"}, {}, "idle", m, M))
        /\ Leads(p, r, Fill("recv", taken), Knows({given}, {"none"}, {"zero"}, {}, "idle", m, M),
                 Knows({given}, {taken}, {"zero"}, {}, "idle", m, M))
        /\ Leads(p, r, Sync, Knows({given}, {taken}, {"zero"}, {}, "idle", m, M),
                 Knows({given}, {taken}, {"zero"}, {}, "idle", m, M))
    BY <2>1, FillsLeads
  <2> QED
    BY <1>2, <1>6, <2>2
<1>8. Leads(p, r, ThreadSetup \o Fill("send", given), a, c)
  BY <1>3, <1>7, LeadsThen
<1>9. Leads(p, r, ThreadSetup \o Fill("send", given) \o Fill("recv", taken), a, d)
  BY <1>7, <1>8, LeadsThen
<1>10. Leads(p, r, ThreadSetup \o Fill("send", given) \o Fill("recv", taken) \o Sync, a, d)
  BY <1>7, <1>9, LeadsThen
<1>11. Leads(p, r, ThreadSetup \o Buffers(TRUE), Start(p),
             Knows({"seed"}, {"zero"}, {"zero"}, {}, "idle", "none", {"intra"}))
  BY <1>2, <1>4 DEF Prepared
<1>12. Leads(p, r, ThreadSetup \o Fill("send", "seed") \o Fill("recv", "junk") \o Sync, Start(p),
             Knows({"seed"}, {"junk"}, {"zero"}, {}, "idle", "none", {"intra"}))
  BY <1>2, <1>5, <1>6, <1>10
<1> QED
  BY <1>1, <1>11, <1>12

\* The second exchange of all_gather is in place, on a buffer just filled.
LEMMA InPlaceLeads ==
  ASSUME NEW p, p = "ccl/all_gather", NEW r, NEW m \in Ups, NEW M \in SlotSets, OwnSlot(p) \in M,
         NEW S, NEW A, S = {"seed"}, A = {"answer"}, NEW d, d = Knows(S, A, A, {}, "idle", m, M)
  PROVE  \E e, f : /\ Leads(p, r, Fill("recv", "seed"), d, e)
                   /\ Leads(p, r, Exchange("AllGather", "recv", "recv"), e, f)
                   /\ Leads(p, r, Sync, f, d) /\ Leads(p, r, CopyOut("recv"), d, d)
                   /\ Leads(p, r, Validate, d, d)
<1>1. PICK R, B, W, e, f, to, op, value :
        /\ R = {"seed"} /\ B = {"seed", "answer"} /\ W = {"recv"}
        /\ e = Knows(S, R, A, {}, "idle", m, M) /\ f = Knows(S, B, A, W, "busy", m, M)
        /\ to = "recv" /\ op = "AllGather" /\ value = "seed"
  OBVIOUS
<1>2. /\ Sorts(S, A, A, {}, "idle", m, M) /\ Sorts(S, R, A, {}, "idle", m, M)
      /\ Sorts(S, B, A, W, "busy", m, M)
  BY <1>1 DEF Sorts, Contents, Content, Targets
<1>3. Leads(p, r, Fill(to, value), d, e)
  <2>1. PICK T, U : T = (IF to = "send" THEN {value} ELSE S) /\ U = (IF to = "recv" THEN {value} ELSE A)
    OBVIOUS
  <2>2. to \in {"send", "recv"} /\ value \in Content /\ value # "none"
    BY <1>1 DEF Content
  <2>3. Leads(p, r, Fill(to, value), Knows(S, A, A, {}, "idle", m, M),
              Knows(IF to = "send" THEN {value} ELSE S, IF to = "recv" THEN {value} ELSE A,
                    A, {}, "idle", m, M))
    BY <1>2, <2>2, FillLeads
  <2>4. T = S /\ U = R
    BY <1>1, <2>1
  <2> QED
    BY <1>1, <2>1, <2>3, <2>4
<1>4. Leads(p, r, Exchange(op, to, to), e, f)
  <2>1. p \in AllPrograms /\ op \in Exchanges(p) /\ Writes(op, r)
    BY <1>1 DEF AllPrograms, Threaded, Exchanges, Writes, Joins
  <2>2. /\ to \in {"send", "recv"} /\ "none" \notin Holds(to, S, R)
        /\ \A v \in Holds(to, S, R) : GivesRight(op, r, v)
    BY <1>1, SeedIsRight DEF Holds
  <2>3. "answer" \in Holds(to, S, B) /\ S \subseteq S /\ R \subseteq B /\ W = {to}
    BY <1>1 DEF Holds
  <2> QED
    BY <1>1, <1>2, <2>1, <2>2, <2>3, ExchangeLeads
<1>5. Leads(p, r, Sync, f, d)
  <2>1. Left("send", S, W) \subseteq S /\ Left("recv", B, W) \subseteq A
    BY <1>1 DEF Left
  <2> QED
    BY <1>1, <1>2, <2>1, SyncLeads
<1>6. Leads(p, r, CopyOut(to), d, d)
  <2>1. Left("send", S, {}) \subseteq S /\ Left("recv", A, {}) \subseteq A
    BY DEF Left
  <2>2. to \in {"send", "recv"} /\ Holds(to, S, A) \subseteq A
    BY <1>1 DEF Holds
  <2> QED
    BY <1>2, <2>1, <2>2, CopyLeads
<1>7. Leads(p, r, Validate, d, d)
  BY <1>2, HostLeads
<1> QED
  BY <1>1, <1>3, <1>4, <1>5, <1>6, <1>7

LEMMA ThreadPrograms ==
  ASSUME NEW n, NEW r
  PROVE  \A p \in {"ccl/all_reduce", "ccl/reduce_scatter", "ccl/all_gather"} :
           Leaves(p, r, Steps(p, n, r), Start(p))
<1>1. PICK S, A, m, M, d :
        /\ S = {"seed"} /\ A = {"answer"} /\ m = "none" /\ M = {"intra"}
        /\ d = Knows(S, A, A, {}, "idle", m, M)
  OBVIOUS
<1>3. ASSUME NEW p \in {"ccl/all_reduce", "ccl/reduce_scatter", "ccl/all_gather"}
      PROVE  /\ p \in Threaded /\ m \in Ups /\ M \in SlotSets /\ OwnSlot(p) \in M
             /\ Leads(p, r, ThreadSetup \o Buffers(TRUE), Start(p),
                      Knows(S, {"zero"}, {"zero"}, {}, "idle", m, M))
             /\ Leads(p, r, ThreadSetup \o Fill("send", "seed") \o Fill("recv", "junk") \o Sync, Start(p),
                      Knows(S, {"junk"}, {"zero"}, {}, "idle", m, M))
  <2>1. p \in Threaded
    BY DEF Threaded
  <2> QED
    BY <1>1, <2>1, ThreadPrepared
<1>4. ASSUME NEW p \in {"ccl/all_reduce", "ccl/reduce_scatter", "ccl/all_gather"},
             NEW op \in {"AllReduce", "AllGather", "ReduceScatter"}, op \in Exchanges(p),
             NEW R, R \in {{"zero"}, {"junk"}}, NEW s,
             Leads(p, r, s, Start(p), Knows(S, R, {"zero"}, {}, "idle", m, M))
      PROVE  /\ Leads(p, r, s \o Timed(Exchange(op, "send", "recv")) \o CopyOut("recv") \o Validate,
                      Start(p), d)
             /\ Leaves(p, r, s \o Timed(Exchange(op, "send", "recv")) \o CopyOut("recv") \o Validate
                               \o Cleanup, Start(p))
  <2>1. /\ Leads(p, r, s \o Timed(Exchange(op, "send", "recv")) \o CopyOut("recv") \o Validate,
                 Start(p), Knows(S, A, A, {}, "idle", m, M))
        /\ Sorts(S, A, A, {}, "idle", m, M)
    <3>1. /\ p \in AllPrograms /\ OwnSlot(p) \in M /\ op \in Exchanges(p) /\ Writes(op, r)
          /\ A = {"answer"}
      BY <1>1, <1>3, <1>4 DEF AllPrograms, Writes, Joins
    <3>2. Sorts(S, R, {"zero"}, {}, "idle", m, M)
      BY <1>1, <1>3, <1>4 DEF Sorts, Contents, Content, Targets
    <3>3. PICK a, b : a = Start(p) /\ b = Knows(S, R, {"zero"}, {}, "idle", m, M)
      OBVIOUS
    <3>4. Gives(r, op, "send", "recv", S, R)
      BY <1>1, <1>4, SeedIsRight DEF Gives, Holds
    <3>5. Leads(p, r, s, a, b) /\ d = Knows(S, A, A, {}, "idle", m, M)
      BY <1>1, <1>4, <3>3
    <3>6. /\ Leads(p, r, s \o Timed(Exchange(op, "send", "recv")) \o CopyOut("recv") \o Validate, a, d)
          /\ Sorts(S, A, A, {}, "idle", m, M)
      BY <3>1, <3>2, <3>3, <3>4, <3>5, ThreadTimed
    <3> QED
      BY <1>1, <3>3, <3>6
  <2> QED
    BY <1>1, <2>1, EndLeads
<1>5. Leaves("ccl/all_reduce", r, ThreadAllReduce(r), Start("ccl/all_reduce"))
  <2>1. PICK p, op, R, s : /\ p = "ccl/all_reduce" /\ op = "AllReduce" /\ R = {"zero"}
                           /\ s = ThreadSetup \o Buffers(TRUE)
    OBVIOUS
  <2>2. Leads(p, r, s, Start(p), Knows(S, R, {"zero"}, {}, "idle", m, M)) /\ op \in Exchanges(p)
    BY <1>3, <2>1 DEF Exchanges
  <2>3. Leaves(p, r, s \o Timed(Exchange(op, "send", "recv")) \o CopyOut("recv") \o Validate
                       \o Cleanup, Start(p))
    BY <1>4, <2>1, <2>2
  <2> QED
    BY <2>1, <2>3 DEF ThreadAllReduce
<1>6. Leaves("ccl/reduce_scatter", r, ThreadReduceScatter(r), Start("ccl/reduce_scatter"))
  <2>1. PICK p, op, R, s :
          /\ p = "ccl/reduce_scatter" /\ op = "ReduceScatter" /\ R = {"junk"}
          /\ s = ThreadSetup \o Fill("send", "seed") \o Fill("recv", "junk") \o Sync
    OBVIOUS
  <2>2. Leads(p, r, s, Start(p), Knows(S, R, {"zero"}, {}, "idle", m, M)) /\ op \in Exchanges(p)
    BY <1>3, <2>1 DEF Exchanges
  <2>3. Leaves(p, r, s \o Timed(Exchange(op, "send", "recv")) \o CopyOut("recv") \o Validate
                       \o Cleanup, Start(p))
    BY <1>4, <2>1, <2>2
  <2> QED
    BY <2>1, <2>3 DEF ThreadReduceScatter
<1>7. Leaves("ccl/all_gather", r, ThreadAllGather(r), Start("ccl/all_gather"))
  <2>1. PICK p, op, R, s, t :
          /\ p = "ccl/all_gather" /\ op = "AllGather" /\ R = {"junk"}
          /\ s = ThreadSetup \o Fill("send", "seed") \o Fill("recv", "junk") \o Sync
          /\ t = s \o Timed(Exchange(op, "send", "recv")) \o CopyOut("recv") \o Validate
    OBVIOUS
  <2>2. Leads(p, r, s, Start(p), Knows(S, R, {"zero"}, {}, "idle", m, M)) /\ op \in Exchanges(p)
    BY <1>3, <2>1 DEF Exchanges
  <2>3. Leads(p, r, t, Start(p), d)
    BY <1>4, <2>1, <2>2
  <2>4. PICK e, f : /\ Leads(p, r, Fill("recv", "seed"), d, e)
                    /\ Leads(p, r, Exchange("AllGather", "recv", "recv"), e, f)
                    /\ Leads(p, r, Sync, f, d) /\ Leads(p, r, CopyOut("recv"), d, d)
                    /\ Leads(p, r, Validate, d, d)
    BY <1>1, <1>3, <2>1, InPlaceLeads
  <2>5. Leads(p, r, t \o Fill("recv", "seed"), Start(p), e)
    BY <2>3, <2>4, LeadsThen
  <2>6. Leads(p, r, t \o Fill("recv", "seed") \o Exchange(op, "recv", "recv"), Start(p), f)
    BY <2>1, <2>4, <2>5, LeadsThen
  <2>7. Leads(p, r, t \o Fill("recv", "seed") \o Exchange(op, "recv", "recv") \o Sync, Start(p), d)
    BY <2>4, <2>6, LeadsThen
  <2>8. Leads(p, r, t \o Fill("recv", "seed") \o Exchange(op, "recv", "recv") \o Sync
                      \o CopyOut("recv") \o Validate, Start(p), d)
    BY <2>4, <2>7, LeadsThen
  <2>9. Sorts(S, A, A, {}, "idle", m, M)
    BY <1>1, <1>3, <2>1 DEF Sorts, Contents, Content, Targets
  <2>10. Leaves(p, r, t \o Fill("recv", "seed") \o Exchange(op, "recv", "recv") \o Sync
                        \o CopyOut("recv") \o Validate \o Cleanup, Start(p))
    BY <1>1, <2>8, <2>9, EndLeads
  <2> QED
    BY <2>1, <2>10 DEF ThreadAllGather
<1>8. /\ Steps("ccl/all_reduce", n, r) = ThreadAllReduce(r)
      /\ Steps("ccl/reduce_scatter", n, r) = ThreadReduceScatter(r)
      /\ Steps("ccl/all_gather", n, r) = ThreadAllGather(r)
  BY DEF Steps
<1> QED
  BY <1>5, <1>6, <1>7, <1>8

LEMMA ThreadSendRecvProgram ==
  ASSUME NEW r \in {0, 1}, NEW n
  PROVE  Leaves("ccl/send_recv", r, Steps("ccl/send_recv", n, r), Start("ccl/send_recv"))
<1>1. PICK p, m, M, N, g, G, Z, A, op, to, call :
        /\ p = "ccl/send_recv" /\ m = "none" /\ M = {"intra"} /\ N = {"none"}
        /\ g = (IF r = 0 THEN "seed" ELSE "zero") /\ G = {g} /\ Z = {"zero"} /\ A = {"answer"}
        /\ op = (IF r = 0 THEN "Send" ELSE "Recv") /\ to = "recv"
        /\ call = Exchange(op, to, to)
  OBVIOUS
<1>2. PICK b, c, d, e : /\ b = Started(m, M) /\ c = Knows(N, G, Z, {}, "idle", m, M)
                        /\ d = Knows(N, A, Z, {}, "idle", m, M)
                        /\ e = Knows(N, A, A, {}, "idle", m, M)
  OBVIOUS
<1>3. /\ p \in Threaded /\ p \in AllPrograms /\ OwnSlot(p) \in M /\ op \in Exchanges(p)
      /\ Writes(op, r) <=> r = 1
  BY <1>1 DEF Threaded, AllPrograms, OwnSlot, Mpi, Exchanges, Writes, Joins
<1>4. /\ Sorts(N, N, Z, {}, "idle", m, M) /\ Sorts(N, G, Z, {}, "idle", m, M)
      /\ Sorts(N, A, A, {}, "idle", m, M) /\ Sorts(N, A, Z, {}, "idle", m, M)
  BY <1>1 DEF Sorts, Contents, Content, Targets, Ups, SlotSets, Slots
<1>5. Leads(p, r, ThreadSetup, Start(p), b)
  BY <1>1, <1>2, <1>3, ThreadStart
<1>6. Leads(p, r, Fill(to, g), b, c)
  <2>1. PICK T, U : T = (IF to = "send" THEN {g} ELSE N) /\ U = (IF to = "recv" THEN {g} ELSE N)
    OBVIOUS
  <2>2. to \in {"send", "recv"} /\ g \in Content /\ g # "none"
    BY <1>1 DEF Content
  <2>3. Leads(p, r, Fill(to, g), Knows(N, N, Z, {}, "idle", m, M),
              Knows(IF to = "send" THEN {g} ELSE N, IF to = "recv" THEN {g} ELSE N,
                    Z, {}, "idle", m, M))
    BY <1>4, <2>2, FillLeads
  <2>4. T = N /\ U = G
    BY <1>1, <2>1
  <2>5. b = Knows(N, N, Z, {}, "idle", m, M)
    BY <1>1, <1>2 DEF Started
  <2> QED
    BY <1>2, <2>1, <2>3, <2>4, <2>5
<1>7. Leads(p, r, Sync, c, c)
  <2>1. Left("send", N, {}) \subseteq N /\ Left("recv", G, {}) \subseteq G
    BY DEF Left
  <2> QED
    BY <1>2, <1>4, <2>1, SyncLeads
<1>8. Leads(p, r, ThreadSetup \o Fill(to, g) \o Sync, Start(p), c)
  <2>1. Leads(p, r, ThreadSetup \o Fill(to, g), Start(p), c)
    BY <1>5, <1>6, LeadsThen
  <2> QED
    BY <1>7, <2>1, LeadsThen
<1>9. Gives(r, op, to, to, N, G)
  BY <1>1 DEF Gives, Holds, GivesRight, Joins
<1>10. PICK s, t : /\ s = ThreadSetup \o Fill(to, g) \o Sync
                   /\ t = s \o Timed(call) \o When(r = 1, CopyOut("recv") \o Validate)
  OBVIOUS
<1>11. \E R, H : Leads(p, r, t, Start(p), Knows(N, R, H, {}, "idle", m, M))
                 /\ Sorts(N, R, H, {}, "idle", m, M)
  <2>1. CASE r = 0
    <3>1. Leads(p, r, Timed(call), c, c)
      <4>1. ~Writes(op, r) /\ Sorts(N, G, {"zero"}, {}, "idle", m, M)
        BY <1>1, <1>3, <1>4, <2>1
      <4>2. Leads(p, r, Timed(Exchange(op, to, to)), Knows(N, G, {"zero"}, {}, "idle", m, M),
                  Knows(N, G, {"zero"}, {}, "idle", m, M))
        BY <1>3, <1>9, <4>1, TimedQuiet
      <4> QED
        BY <1>1, <1>2, <4>2
    <3>2. Leads(p, r, s \o Timed(call), Start(p), c)
      BY <1>8, <1>10, <3>1, LeadsThen
    <3>3. c \in Known
      BY <1>2, <1>4, KnowsOf
    <3>4. Leads(p, r, s \o Timed(call) \o <<>>, Start(p), c)
      BY <3>2, <3>3, LeadsNothing, LeadsThen
    <3>5. Leads(p, r, t, Start(p), c)
      BY <1>10, <2>1, <3>4 DEF When
    <3> QED
      BY <1>2, <1>4, <3>5
  <2>2. CASE r = 1
    <3>1. Leads(p, r, Timed(call), c, d) /\ Leads(p, r, CopyOut("recv"), d, e)
      <4>1. Writes(op, r) /\ Sorts(N, G, {"zero"}, {}, "idle", m, M) /\ GivesRight(op, r, "answer")
        BY <1>1, <1>3, <1>4, <2>2 DEF GivesRight
      <4>2. Gives(r, op, to, "recv", N, G)
        BY <1>1, <1>9
      <4>3. /\ Leads(p, r, Timed(Exchange(op, to, "recv")), Knows(N, G, {"zero"}, {}, "idle", m, M),
                     Knows(N, {"answer"}, {"zero"}, {}, "idle", m, M))
            /\ Leads(p, r, CopyOut("recv"), Knows(N, {"answer"}, {"zero"}, {}, "idle", m, M),
                     Knows(N, {"answer"}, {"answer"}, {}, "idle", m, M))
        BY <1>3, <4>1, <4>2, TimedWriting
      <4> QED
        BY <1>1, <1>2, <4>3
    <3>2. Leads(p, r, Validate, e, e)
      BY <1>1, <1>2, <1>4, HostLeads
    <3>3. Leads(p, r, CopyOut("recv") \o Validate, d, e) /\ Leads(p, r, s \o Timed(call), Start(p), d)
      BY <1>8, <1>10, <3>1, <3>2, LeadsThen
    <3>4. Leads(p, r, s \o Timed(call) \o (CopyOut("recv") \o Validate), Start(p), e)
      BY <3>3, LeadsThen
    <3>5. Leads(p, r, t, Start(p), e)
      BY <1>10, <2>2, <3>4 DEF When
    <3> QED
      BY <1>2, <1>4, <3>5
  <2> QED
    BY <2>1, <2>2
<1>12. PICK R, H : Leads(p, r, t, Start(p), Knows(N, R, H, {}, "idle", m, M))
                   /\ Sorts(N, R, H, {}, "idle", m, M)
  BY <1>11
<1>13. Leaves(p, r, t \o Local("free", "recv") \o Api("CommDestroy"), Start(p))
  <2>1. PICK x, y, z : /\ x = Knows(N, R, H, {}, "idle", m, M)
                       /\ y = Knows(N, {"none"}, H, {}, "idle", m, M)
                       /\ z = Knows(N, {"none"}, H, {}, "idle", m, {})
    OBVIOUS
  <2>2. Sorts(N, {"none"}, H, {}, "idle", m, M) /\ Sorts(N, {"none"}, H, {}, "idle", m, {})
    BY <1>12 DEF Sorts, Contents, Content, SlotSets
  <2>3. Leads(p, r, Local("free", "recv"), x, y) /\ Leads(p, r, Api("CommDestroy"), y, z) /\ z \in Known
    BY <1>12, <2>1, <2>2, FreeLeads, DestroyLeads, KnowsOf
  <2>4. Leads(p, r, t \o Local("free", "recv"), Start(p), y)
    BY <1>12, <2>1, <2>3, LeadsThen
  <2>5. Leads(p, r, t \o Local("free", "recv") \o Api("CommDestroy"), Start(p), z)
    BY <2>3, <2>4, LeadsThen
  <2> QED
    BY <2>3, <2>5 DEF Leaves
<1>14. /\ g = (IF r = 0 THEN "seed" ELSE "zero")
       /\ call = IF r = 0 THEN Exchange("Send", "recv", "recv") ELSE Exchange("Recv", "recv", "recv")
  BY <1>1
<1>15. ThreadSendRecv(r) = t \o Local("free", "recv") \o Api("CommDestroy")
  BY <1>1, <1>10, <1>14 DEF ThreadSendRecv
<1> QED
  BY <1>1, <1>13, <1>15 DEF Steps

LEMMA EveryProgram ==
  ASSUME NEW p \in AllPrograms, NEW n, NEW r, p = "ccl/send_recv" => r \in {0, 1}
  PROVE  Leaves(p, r, Steps(p, n, r), Start(p))
<1>1. CASE p \in {"mpi/all_reduce", "mpi/all_gather", "mpi/all_to_all", "mpi/reduce_scatter",
                  "hybrid/all_reduce", "hybrid/all_gather"}
  BY <1>1, AnsweringPrograms
<1>2. CASE p \in {"mpi/gather", "mpi/reduce", "mpi/scatter"}
  BY <1>2, RootPrograms
<1>3. CASE p = "mpi/broadcast"
  BY <1>3, BroadcastProgram
<1>4. CASE p \in {"mpi/send_recv", "hybrid/send_recv"}
  BY <1>4, SendRecvPrograms
<1>5. CASE p \in {"ccl/all_reduce", "ccl/reduce_scatter", "ccl/all_gather"}
  BY <1>5, ThreadPrograms
<1>6. CASE p = "ccl/send_recv"
  BY <1>6, ThreadSendRecvProgram
<1> QED
  BY <1>1, <1>2, <1>3, <1>4, <1>5, <1>6 DEF AllPrograms, Threaded, Hybrid, Mpi

-----------------------------------------------------------------------------
\* The invariant holds from the start.

LEMMA CompiledSteps ==
  ASSUME NEW s \in Seq(SourceStep), NEW t, t = [i \in 1 .. Len(s) |-> Compiled(s[i])]
  PROVE  /\ t \in Seq(CompiledStep) /\ Len(t) = Len(s)
         /\ \A i \in 1 .. Len(s) : /\ t[i].do = s[i].do /\ t[i].op = s[i].op
                                   /\ t[i].from = s[i].from /\ t[i].to = s[i].to
<1>1. ASSUME NEW x \in SourceStep
      PROVE  /\ Compiled(x) \in CompiledStep /\ Compiled(x).do = x.do /\ Compiled(x).op = x.op
             /\ Compiled(x).from = x.from /\ Compiled(x).to = x.to
  <2>1. x.do \in Doings /\ x.op \in Operations \cup {"none"} /\ x.from \in Names /\ x.to \in Names
    BY DEF SourceStep
  <2>2. PICK route, device :
          /\ route = (IF x.op \in Operations THEN Call(x.op, build) ELSE <<>>)
          /\ device = ProgramDevice(build)
    OBVIOUS
  <2>3. Compiled(x) = [do |-> x.do, op |-> x.op, from |-> x.from, to |-> x.to, route |-> route,
                       device |-> device]
    BY <2>2 DEF Compiled, ProgramDevice
  <2>4. route \in {Call(op, build) : op \in Operations} \cup {<<>>} /\ device \in {ProgramDevice(build)}
        /\ (x.op \in Operations => route = Call(x.op, build))
    BY <2>1, <2>2
  <2> QED
    BY <2>1, <2>3, <2>4 DEF CompiledStep
<1>2. \A i \in 1 .. Len(s) : s[i] \in SourceStep
  OBVIOUS
<1>3. t \in [1 .. Len(s) -> CompiledStep] /\ \A i \in 1 .. Len(s) : t[i] = Compiled(s[i])
  BY <1>1, <1>2
<1>4. Len(s) \in Nat
  OBVIOUS
<1>5. t \in Seq(CompiledStep) /\ Len(t) = Len(s)
  BY <1>3, <1>4
<1> QED
  BY <1>1, <1>2, <1>3, <1>5

LEMMA StartAgrees ==
  ASSUME NEW p, NEW r, NEW held,
         held = [b \in Buf |-> IF b = "id" /\ p \in Threaded THEN "seed" ELSE "none"]
  PROVE  Start(p) \in Known /\ Agrees(r, held, "zero", "none", NoComm, <<>>, 0, Start(p))
<1>1. PICK I, a : I = (IF p \in Threaded THEN {"seed"} ELSE {"none"}) /\ a = Fresh(I, {}, "none", {})
  OBVIOUS
<1>2. FreshSorts(I, {}, "none", {})
  BY <1>1 DEF FreshSorts, Contents, Content, Ups, SlotSets
<1>3. /\ a \in Known
      /\ a.has["send"] = {"none"} /\ a.has["recv"] = {"none"} /\ a.has["id"] = I
      /\ a.host = {"zero"} /\ a.writes = {} /\ ~a.busy /\ a.mpi = "none" /\ a.made = {}
  BY <1>1, <1>2, FreshOf
<1>4. \A x \in Buf : held[x] \in a.has[x]
  BY <1>1, <1>3 DEF Buf
<1>5. Pending(<<>>, 0) = {} /\ Len(<<>>) = 0
  BY DEF Pending
<1>6. Agrees(r, held, "zero", "none", NoComm, <<>>, 0, a)
  BY <1>3, <1>4, <1>5 DEF Agrees
<1> QED
  BY <1>1, <1>3, <1>6 DEF Start

LEMMA InitInvariant == Init => IInv
<1> SUFFICES ASSUME Init PROVE IInv
  OBVIOUS
<1>1. /\ build \in Builds /\ IsBuild(build) /\ program \in Programs /\ program \in AllPrograms
      /\ size \in SizesOf(program) /\ size \in Nat \ {0}
  BY ExamplesAssumption DEF Init, SizesOf
<1>2. ASSUME NEW r \in Ranks
      PROVE  /\ todo[r] \in Seq(CompiledStep)
             /\ \E b \in Known : Runs(program, r, todo[r], Start(program), b)
  <2>1. PICK s : s = Steps(program, size, r)
    OBVIOUS
  <2>2. todo[r] = [i \in 1 .. Len(s) |-> Compiled(s[i])]
    BY <2>1 DEF Init
  <2>3. Leaves(program, r, s, Start(program))
    <3>1. program = "ccl/send_recv" => r \in {0, 1}
      BY <1>1 DEF SizesOf, Ranks
    <3> QED
      BY <1>1, <2>1, <3>1, EveryProgram
  <2>4. PICK b \in Known : s \in Seq(SourceStep) /\ Runs(program, r, s, Start(program), b)
    BY <2>3 DEF Leaves, Leads
  <2>5. /\ todo[r] \in Seq(CompiledStep) /\ Len(todo[r]) = Len(s)
        /\ \A i \in 1 .. Len(s) : /\ todo[r][i].do = s[i].do /\ todo[r][i].op = s[i].op
                                  /\ todo[r][i].from = s[i].from /\ todo[r][i].to = s[i].to
    BY <2>2, <2>4, CompiledSteps
  <2>6. PICK a, t : a = Start(program) /\ t = todo[r]
    OBVIOUS
  <2>7. Runs(program, r, t, a, b)
    BY <2>4, <2>5, <2>6, RunsCompiled
  <2> QED
    BY <2>4, <2>5, <2>6, <2>7
<1>3. todo \in [Ranks -> Seq(CompiledStep)]
  BY <1>2 DEF Init
<1>4. /\ comm = [r \in Ranks |-> NoComm] /\ mpi = [r \in Ranks |-> "none"]
      /\ buffer = [r \in Ranks |-> [b \in Buf |-> "none"]] /\ host = [r \in Ranks |-> "zero"]
      /\ issued = [r \in Ranks |-> <<>>] /\ done = [r \in Ranks |-> 0] /\ wrong = {}
      /\ exit = IF program \in Threaded THEN "spawn" ELSE "running"
  BY DEF Init, Buf
<1>5. Shape
  <2>1. NoComm \in [inter: Routes(build) \cup {<<>>}, intra: Routes(build) \cup {<<>>}]
    BY DEF NoComm
  <2>2. comm \in [Ranks -> [inter: Routes(build) \cup {<<>>}, intra: Routes(build) \cup {<<>>}]]
    BY <1>4, <2>1
  <2>3. buffer \in [Ranks -> [Buf -> Content]]
    BY <1>4 DEF Content
  <2>4. mpi \in [Ranks -> {"none", "up", "down"}] /\ host \in [Ranks -> Content]
        /\ issued \in [Ranks -> Seq(MadeCall)] /\ done \in [Ranks -> Nat]
    BY <1>4 DEF Content
  <2>5. exit \in {"spawn", "running", "success", "failure"}
    BY <1>4
  <2> QED
    BY <1>1, <1>3, <2>2, <2>3, <2>4, <2>5 DEF Shape
<1>6. ASSUME NEW r \in Ranks
      PROVE  CallsInOrder(r)
  <2>1. issued[r] = <<>> /\ done[r] = 0 /\ Pending(<<>>, 0) = {} /\ DOMAIN <<>> = {} /\ Len(<<>>) = 0
    BY <1>4 DEF Pending
  <2>2. \A slot \in Slots : comm[r][slot] = <<>>
    BY <1>4 DEF NoComm, Slots
  <2> QED
    BY <2>1, <2>2 DEF CallsInOrder
<1>7. ASSUME NEW r \in Ranks
      PROVE  Typed(r)
  <2>1. Held(r) = [b \in Buf |-> IF b = "id" /\ program \in Threaded THEN "seed" ELSE "none"]
    <3>1. buffer[r] = [b \in Buf |-> "none"]
      BY <1>4
    <3>2. CASE program \in Threaded
      BY <1>4, <3>1, <3>2 DEF Held, Buf
    <3>3. CASE program \notin Threaded
      BY <1>4, <3>1, <3>3 DEF Held
    <3> QED
      BY <3>2, <3>3
  <2>2. /\ host[r] = "zero" /\ mpi[r] = "none" /\ comm[r] = NoComm /\ issued[r] = <<>> /\ done[r] = 0
    BY <1>4
  <2>3. PICK held : held = Held(r)
    OBVIOUS
  <2>4. Start(program) \in Known /\ Agrees(r, held, "zero", "none", NoComm, <<>>, 0, Start(program))
    BY <2>1, <2>3, StartAgrees
  <2>5. Fits(r, Start(program))
    BY <2>2, <2>3, <2>4 DEF Fits
  <2> QED
    BY <1>2, <2>4, <2>5 DEF Typed
<1> QED
  BY <1>4, <1>5, <1>6, <1>7 DEF IInv

-----------------------------------------------------------------------------
\* A build a program is meant for has what the program calls.

LEMMA StepsOfConcat ==
  ASSUME NEW S, NEW s \in Seq(S), NEW t \in Seq(S)
  PROVE  /\ s \o t \in Seq(S)
         /\ \A x \in ToSet(s) \cup ToSet(t) : x \in ToSet(s \o t)
<1>1. \A i \in 1 .. Len(s) : i \in DOMAIN (s \o t) /\ (s \o t)[i] = s[i]
  OBVIOUS
<1>2. \A i \in 1 .. Len(t) : Len(s) + i \in DOMAIN (s \o t) /\ (s \o t)[Len(s) + i] = t[i]
  OBVIOUS
<1>3. \A x \in ToSet(s) : x \in ToSet(s \o t)
  BY <1>1 DEF ToSet
<1>4. ASSUME NEW x \in ToSet(t)
      PROVE  x \in ToSet(s \o t)
  <2>1. PICK i \in 1 .. Len(t) : x = t[i]
    BY DEF ToSet
  <2>2. PICK j : j = Len(s) + i
    OBVIOUS
  <2>3. j \in DOMAIN (s \o t) /\ (s \o t)[j] = x
    BY <1>2, <2>1, <2>2
  <2> QED
    BY <2>3 DEF ToSet
<1> QED
  BY <1>3, <1>4

\* The operations a program is an example of are among those it exchanges data by.
LEMMA OpsAreExchanges ==
  ASSUME NEW p \in AllPrograms
  PROVE  OpsOf(p) \subseteq Exchanges(p)
<1>1. ASSUME NEW r \in {0, 1}, NEW x \in ToSet(Steps(p, 2, r)), x.do = "exchange", x.from # "id"
      PROVE  x.op \in Exchanges(p)
  <2>1. PICK s : s = Steps(p, 2, r)
    OBVIOUS
  <2>2. PICK b : s \in Seq(SourceStep) /\ Runs(p, r, s, Start(p), b)
    BY <2>1, EveryProgram DEF Leaves, Leads
  <2>3. PICK f : \A i \in 1 .. Len(s) : StepOK(p, r, s[i], f[i - 1], f[i])
    BY <2>2 DEF Runs
  <2>4. PICK i \in 1 .. Len(s) : x = s[i]
    BY <1>1, <2>1, <2>2 DEF ToSet
  <2>5. PICK a : Needs(p, r, x, a)
    BY <2>3, <2>4 DEF StepOK
  <2> QED
    BY <1>1, <2>5 DEF Needs, ExchangeNeeds
<1>2. ASSUME NEW op \in OpsOf(p)
      PROVE  \E r \in {0, 1} : \E x \in ToSet(Steps(p, 2, r)) :
               x.do = "exchange" /\ x.from # "id" /\ x.op = op
  BY DEF OpsOf
<1> QED
  BY <1>1, <1>2

LEMMA ReduceScatters == "ReduceScatter" \in OpsOf("ccl/reduce_scatter")
<1>1. PICK op : op = "ReduceScatter"
  OBVIOUS
<1>2. PICK x, call : /\ x = [do |-> "exchange", op |-> op, from |-> "send", to |-> "recv"]
                     /\ call = Exchange(op, "send", "recv")
  OBVIOUS
<1>3. call = <<x>> /\ x \in SourceStep /\ call \in Seq(SourceStep) /\ Len(call) = 1 /\ call[1] = x
  <2>1. op \in Operations
    BY <1>1 DEF Operations, OmpiOperations
  <2>2. x \in SourceStep
    BY <1>2, <2>1, Words DEF SourceStep, Doings
  <2> QED
    BY <1>2, <2>2 DEF Exchange
<1>4. /\ Sync \in Seq(SourceStep) /\ CopyOut("recv") \in Seq(SourceStep)
      /\ Validate \in Seq(SourceStep)
  <2>1. /\ [do |-> "sync", op |-> "none", from |-> "none", to |-> "none"] \in SourceStep
        /\ [do |-> "copyOut", op |-> "none", from |-> "recv", to |-> "recv"] \in SourceStep
        /\ [do |-> "validate", op |-> "none", from |-> "none", to |-> "none"] \in SourceStep
    BY Words, LocalSteps DEF Doings
  <2> QED
    BY <2>1 DEF Sync, CopyOut, Validate, Local
<1>5. Cleanup \in Seq(SourceStep)
  <2>1. /\ [do |-> "free", op |-> "none", from |-> "send", to |-> "send"] \in SourceStep
        /\ [do |-> "free", op |-> "none", from |-> "recv", to |-> "recv"] \in SourceStep
    BY Words, LocalSteps DEF Doings
  <2>2. [do |-> "api", op |-> "CommDestroy", from |-> "none", to |-> "none"] \in SourceStep
    BY Words DEF SourceStep, Doings, Operations, OmpiOperations
  <2>3. /\ Local("free", "send") \in Seq(SourceStep) /\ Local("free", "recv") \in Seq(SourceStep)
        /\ Api("CommDestroy") \in Seq(SourceStep)
    BY <2>1, <2>2 DEF Local, Api
  <2>4. Local("free", "send") \o Local("free", "recv") \in Seq(SourceStep)
    BY <2>3, StepsOfConcat
  <2> QED
    BY <2>3, <2>4, StepsOfConcat DEF Cleanup
<1>6. PICK s : /\ s = ThreadSetup \o Fill("send", "seed") \o Fill("recv", "junk") \o Sync
               /\ s \in Seq(SourceStep)
  <2>1. "ccl/reduce_scatter" \in Threaded
    BY DEF Threaded
  <2> QED
    BY <2>1, ThreadPrepared DEF Leads
<1>7. Timed(call) \in Seq(SourceStep) /\ x \in ToSet(Timed(call))
  <2>1. PICK warm, hot : warm = Times(Warmup, call) /\ hot = Times(Profile, call)
    OBVIOUS
  <2>2. Warmup \in Nat \ {0} /\ Profile \in Nat
    BY ExamplesAssumption
  <2>3. warm = [i \in 1 .. Warmup |-> x] /\ hot = [i \in 1 .. Profile |-> x]
    BY <1>3, <2>1, <2>2 DEF Times
  <2>4. warm \in Seq(SourceStep) /\ hot \in Seq(SourceStep) /\ x \in ToSet(warm)
    <3>1. warm \in Seq(SourceStep) /\ hot \in Seq(SourceStep)
      BY <1>3, <2>2, <2>3
    <3>2. 1 \in DOMAIN warm /\ warm[1] = x
      BY <2>2, <2>3
    <3> QED
      BY <3>1, <3>2 DEF ToSet
  <2>5. warm \o Sync \in Seq(SourceStep) /\ x \in ToSet(warm \o Sync)
    BY <1>4, <2>4, StepsOfConcat
  <2>6. warm \o Sync \o hot \in Seq(SourceStep) /\ x \in ToSet(warm \o Sync \o hot)
    BY <2>4, <2>5, StepsOfConcat
  <2>7. warm \o Sync \o hot \o Sync \in Seq(SourceStep) /\ x \in ToSet(warm \o Sync \o hot \o Sync)
    BY <1>4, <2>6, StepsOfConcat
  <2> QED
    BY <2>1, <2>7 DEF Timed
<1>8. s \o Timed(call) \in Seq(SourceStep) /\ x \in ToSet(s \o Timed(call))
  BY <1>6, <1>7, StepsOfConcat
<1>9. PICK t : t = s \o Timed(call) \o CopyOut("recv")
  OBVIOUS
<1>10. t \in Seq(SourceStep) /\ x \in ToSet(t)
  BY <1>4, <1>8, <1>9, StepsOfConcat
<1>11. t \o Validate \in Seq(SourceStep) /\ x \in ToSet(t \o Validate)
  BY <1>4, <1>10, StepsOfConcat
<1>12. x \in ToSet(t \o Validate \o Cleanup)
  BY <1>5, <1>11, StepsOfConcat
<1>13. Steps("ccl/reduce_scatter", 2, 0) = t \o Validate \o Cleanup
  BY <1>1, <1>2, <1>6, <1>9 DEF Steps, ThreadReduceScatter
<1>14. x \in ToSet(Steps("ccl/reduce_scatter", 2, 0)) /\ x.do = "exchange" /\ x.from # "id"
       /\ x.op = "ReduceScatter"
  BY <1>1, <1>2, <1>12, <1>13
<1> QED
  BY <1>14 DEF OpsOf

\* The calls a program makes, in a build it is meant for: they have a route, to
\* the slot of the communicator they are meant to use.
LEMMA MeantBackends ==
  ASSUME NEW p \in AllPrograms, NEW b, IsBuild(b), MeantFor(p, b)
  PROVE  /\ p \notin Threaded => "Ompi" \in b.backends
         /\ p \notin Mpi => \E c \in b.backends \cap CclBackends : Exchanges(p) \subseteq CclOperations(c)
         /\ p \in Mpi => \A c \in b.backends \cap CclBackends : \A op \in Exchanges(p) :
                           op \notin CclOperations(c)
<1>1. p \notin Threaded => "Ompi" \in b.backends
  BY DEF MeantFor, AllPrograms, Hybrid
<1>2. ASSUME p \notin Mpi
      PROVE  \E c \in b.backends \cap CclBackends : Exchanges(p) \subseteq CclOperations(c)
  <2>1. PICK c \in b.backends \cap CclBackends : OpsOf(p) \subseteq CclOperations(c)
    BY <1>2 DEF MeantFor, AllPrograms
  <2>2. CASE p = "ccl/reduce_scatter"
    <3>1. Exchanges(p) = {"ReduceScatter"}
      BY <2>2 DEF Exchanges
    <3> QED
      BY <2>1, <2>2, <3>1, ReduceScatters
  <2>3. CASE p # "ccl/reduce_scatter"
    <3>1. Exchanges(p) \subseteq {"AllGather", "AllReduce", "Send", "Recv"}
      BY <1>2, <2>3 DEF Exchanges, AllPrograms, Threaded, Hybrid
    <3> QED
      BY <2>1, <3>1 DEF CclOperations
  <2> QED
    BY <2>2, <2>3
<1>3. ASSUME p \in Mpi, NEW c \in b.backends \cap CclBackends, NEW op \in Exchanges(p)
      PROVE  op \notin CclOperations(c)
  <2>1. ~(Exchanges(p) \subseteq CclOperations(c))
    <3>1. p \notin Threaded /\ p \notin Hybrid
      BY <1>3 DEF Threaded, Hybrid, Mpi
    <3>2. ~(OpsOf(p) \subseteq CclOperations(c))
      BY <1>3, <3>1 DEF MeantFor
    <3> QED
      BY <3>2, OpsAreExchanges
  <2>2. CASE p \in {"mpi/send_recv", "mpi/broadcast"}
    BY <2>1, <2>2, <1>3 DEF Exchanges, CclOperations
  <2>3. CASE p \notin {"mpi/send_recv", "mpi/broadcast"}
    <3>1. Exchanges(p) = {op}
      BY <1>3, <2>3 DEF Exchanges, Mpi
    <3> QED
      BY <2>1, <3>1
  <2> QED
    BY <2>2, <2>3
<1> QED
  BY <1>1, <1>2, <1>3

LEMMA ApisHaveRoutes ==
  ASSUME NEW p \in AllPrograms, NEW b, IsBuild(b), OneAccelerator(b), MeantFor(p, b),
         NEW x, NEW a, ApiNeeds(p, x, a)
  PROVE  Call(x.op, b) \in Routes(b)
<1>1. CASE p \notin Threaded /\ x.op \in MpiApis \cup {"CommDestroy"}
  <2>1. "Ompi" \in b.backends /\ BackendEnabled(x.op, "Ompi")
    BY <1>1, MeantBackends DEF BackendEnabled, OmpiOperations, MpiApis
  <2> QED
    BY <2>1, CallSupported
<1>2. CASE p \notin Mpi /\ x.op \in CclApis \cup {"CommDestroy"}
  <2>1. PICK c \in b.backends \cap CclBackends : TRUE
    BY <1>2, MeantBackends
  <2>2. BackendEnabled(x.op, c)
    BY <1>2, <2>1 DEF BackendEnabled, CclOperations, CclApis
  <2> QED
    BY <2>1, <2>2, CallSupported
<1>3. p \notin Threaded \/ p \notin Mpi
  BY DEF Threaded, Mpi
<1> QED
  BY <1>1, <1>2, <1>3 DEF ApiNeeds

LEMMA ExchangesHaveRoutes ==
  ASSUME NEW p \in AllPrograms, NEW b, IsBuild(b), OneAccelerator(b), MeantFor(p, b),
         NEW r, NEW x, NEW a, ExchangeNeeds(p, r, x, a)
  PROVE  Call(x.op, b) \in Routes(b) /\ Slot(Call(x.op, b)) = MeantSlot(p, x)
<1>1. CASE x.from = "id"
  <2>1. x.op = "Broadcast" /\ p \in Hybrid
    BY <1>1 DEF ExchangeNeeds
  <2>2. "Ompi" \in b.backends /\ x.op \in OmpiOperations /\ \A c : x.op \notin CclOperations(c)
    BY <2>1, MeantBackends DEF Hybrid, Threaded, OmpiOperations, CclOperations
  <2> QED
    BY <1>1, <2>2, CallInter DEF MeantSlot
<1>2. CASE x.from # "id" /\ p \in Mpi
  <2>1. x.op \in Exchanges(p)
    BY <1>2 DEF ExchangeNeeds
  <2>2. x.op \in OmpiOperations /\ "Ompi" \in b.backends
    BY <1>2, <2>1, MeantBackends DEF Exchanges, Mpi, Threaded, OmpiOperations
  <2>3. \A c \in b.backends \cap CclBackends : x.op \notin CclOperations(c)
    BY <1>2, <2>1, MeantBackends
  <2> QED
    BY <1>2, <2>2, <2>3, CallInter DEF MeantSlot
<1>3. CASE x.from # "id" /\ p \notin Mpi
  <2>1. x.op \in Exchanges(p)
    BY <1>3 DEF ExchangeNeeds
  <2>2. PICK c \in b.backends \cap CclBackends : x.op \in CclOperations(c)
    BY <1>3, <2>1, MeantBackends
  <2> QED
    BY <1>3, <2>2, CallIntra DEF MeantSlot
<1> QED
  BY <1>1, <1>2, <1>3

-----------------------------------------------------------------------------
\* No call fails where the program belongs.

\* Threads are there to be started in a threaded program only.
Belongs == exit = "spawn" => program \in Threaded

LEMMA CallsSucceed ==
  ASSUME IInv, OneAccelerator(build), MeantFor(program, build),
         NEW r \in Ranks, Ready(r), NextStep(r).op \in Operations
  PROVE  Succeeds(r, NextStep(r))
<1>1. PICK x : x = NextStep(r)
  OBVIOUS
<1>2. PICK a, c \in Known :
        /\ Fits(r, a) /\ Fits(r, Settled(a))
        /\ \A slot \in a.made : comm[r][slot] # <<>>
        /\ StepOK(program, r, x, a, c)
  BY <1>1, ReadyKnows
<1>3. /\ x \in CompiledStep /\ Held(r) = buffer[r] /\ IsBuild(build) /\ program \in AllPrograms
  BY <1>1, NextStepOf DEF IInv, Shape
<1>4. x.route = Call(x.op, build) /\ x.device = ProgramDevice(build)
  BY <1>1, <1>3 DEF CompiledStep
<1>5. ProgramDevice(build) = BestDevice(build)
  BY <1>3, OneDevice
<1>6. \/ x.op \in LocalCalls \cup Joins /\ ApiNeeds(program, x, a)
      \/ x.op \notin LocalCalls \cup Joins /\ ExchangeNeeds(program, r, x, a)
  BY <1>1, <1>2, <1>3, KindOfStep DEF StepOK
<1>7. x.route \in Routes(build)
  BY <1>3, <1>4, <1>6, ApisHaveRoutes, ExchangesHaveRoutes
<1>8. x.route \notin {Aborted, NotSupported}
  BY <1>3, <1>7, RouteIsNoFailure
<1>9. x.op \in {"GetRank", "GetSize", "CommInitAll"} => mpi[r] = "up"
  <2>1. mpi[r] = a.mpi
    BY <1>2 DEF Fits, Agrees
  <2>2. x.op \in {"GetRank", "GetSize", "CommInitAll"} => x.op \in LocalCalls \cup Joins
    BY DEF LocalCalls, Joins
  <2> QED
    BY <1>6, <2>1, <2>2 DEF ApiNeeds
<1>10. x.op = "CommInitRank" => buffer[r].id \in {"seed", "answer"}
  <2>1. buffer[r]["id"] \in Settled(a).has["id"]
    BY <1>2, <1>3 DEF Fits, Agrees, Buf
  <2>2. x.op = "CommInitRank" => x.op \in Joins
    BY DEF Joins
  <2> QED
    BY <1>6, <2>1, <2>2 DEF ApiNeeds
<1>11. x.op \notin LocalCalls \cup Joins =>
         comm[r][Slot(x.route)] # <<>> /\ x.route[2] = x.device
  <2> SUFFICES ASSUME x.op \notin LocalCalls \cup Joins
               PROVE  comm[r][Slot(x.route)] # <<>> /\ x.route[2] = x.device
    OBVIOUS
  <2>1. ExchangeNeeds(program, r, x, a)
    BY <1>6
  <2>2. Slot(x.route) = MeantSlot(program, x)
    BY <1>3, <1>4, <2>1, ExchangesHaveRoutes
  <2>3. MeantSlot(program, x) \in a.made
    BY <2>1 DEF ExchangeNeeds
  <2>4. x.route[2] = BestDevice(build)
    BY <1>3, <1>7, RoutesOf
  <2> QED
    BY <1>2, <1>4, <1>5, <2>2, <2>3, <2>4
<1> QED
  BY <1>1, <1>8, <1>9, <1>10, <1>11 DEF Succeeds

LEMMA SpawnSucceeds ==
  ASSUME IInv, Belongs, exit = "spawn", OneAccelerator(build), MeantFor(program, build)
  PROVE  Succeeds(0, [op |-> "GetUniqueId", route |-> Call("GetUniqueId", build)])
<1>1. program \in Threaded /\ IsBuild(build) /\ program \in AllPrograms
  BY DEF Belongs, IInv, Shape
<1>2. PICK x, a : x = [op |-> "GetUniqueId", route |-> Call("GetUniqueId", build)]
  OBVIOUS
<1>3. PICK c \in build.backends \cap CclBackends : TRUE
  BY <1>1, MeantBackends DEF Threaded, Mpi
<1>4. BackendEnabled("GetUniqueId", c)
  BY <1>3 DEF BackendEnabled, CclOperations
<1>5. x.route \in Routes(build)
  BY <1>1, <1>2, <1>3, <1>4, CallSupported
<1>6. x.route \notin {Aborted, NotSupported} /\ x.op = "GetUniqueId"
  BY <1>1, <1>2, <1>5, RouteIsNoFailure
<1>7. Succeeds(0, x)
  BY <1>6 DEF Succeeds, LocalCalls
<1> QED
  BY <1>2, <1>7

LEMMA SuccessKeeps ==
  ASSUME IInv, Belongs, SucceedsInItsBuild, [Next]_vars
  PROVE  Belongs' /\ SucceedsInItsBuild'
<1>1. UNCHANGED <<build, program>>
  BY DEF Next, Spawn, Join, Step, Fail, CallLocal, Issue, FillBuffer, Synchronize, ClearHostBuffer,
         CopyToHost, ValidateResult, FreeBuffer, Run, vars
<1>2. CASE exit' = exit
  BY <1>1, <1>2 DEF Belongs, SucceedsInItsBuild
<1>3. CASE exit' # exit
  <2>1. Spawn \/ Join \/ \E r \in Ranks : Fail(r)
    BY <1>3 DEF Next, Step, CallLocal, Issue, FillBuffer, Synchronize, ClearHostBuffer,
                CopyToHost, ValidateResult, FreeBuffer, Run, vars
  <2>2. exit' # "spawn"
    BY <2>1 DEF Spawn, Join, Fail
  <2>3. exit' = "failure" => ~OneAccelerator(build) \/ ~MeantFor(program, build)
    <3>1. CASE Spawn
      BY <3>1, SpawnSucceeds DEF Spawn
    <3>2. CASE Join
      BY <3>2 DEF Join, IInv
    <3>3. ASSUME NEW r \in Ranks, Fail(r)
          PROVE  ~OneAccelerator(build) \/ ~MeantFor(program, build)
      BY <3>3, CallsSucceed DEF Fail
    <3> QED
      BY <2>1, <3>1, <3>2, <3>3
  <2>4. build' = build /\ program' = program
    BY <1>1
  <2> QED
    BY <2>2, <2>3, <2>4 DEF Belongs, SucceedsInItsBuild
<1> QED
  BY <1>2, <1>3

-----------------------------------------------------------------------------
\* The invariant the other theorems follow from, in every reachable state: each
\* rank has done what brings it to a point of its program from which the rest of
\* the program can be run, call by call, whatever the other ranks do.
THEOREM ProgramsFit == Spec => []IInv
<1>1. Init => IInv
  BY InitInvariant
<1>2. IInv /\ [Next]_vars => IInv'
  BY NextKeeps
<1> QED
  BY <1>1, <1>2, PTL DEF Spec

\* The variables keep their types whatever the builds, the sizes and the number
\* of measured calls.
THEOREM ExampleTypes == Spec => []TypeOK
<1>1. IInv => TypeOK
  BY IInvTypes
<1> QED
  BY <1>1, ProgramsFit, PTL

\* Every rank that validates what it copied from the device finds the answer of
\* the exchange before, for any number of ranks and of warm up and measured calls
\* and in any build, whether its calls block or are put on a stream.
THEOREM ExamplesFindTheAnswer == Spec => []RightAnswer
<1>1. IInv => RightAnswer
  BY DEF IInv, RightAnswer
<1> QED
  BY <1>1, ProgramsFit, PTL

\* No program frees a buffer or destroys a communicator while one of its calls is
\* still to use it.
THEOREM WorkKeepsItsBuffers == Spec => []WorkHasItsBuffers
<1>1. IInv => WorkHasItsBuffers
  BY IInvWork
<1> QED
  BY <1>1, ProgramsFit, PTL

\* A call that runs is given the communicator that its own backend made for its
\* own device.
THEOREM CallsHaveTheirOwner == Spec => []OneOwner
<1>1. IInv => OneOwner
  BY IInvOwner
<1> QED
  BY <1>1, ProgramsFit, PTL

\* No program ends with a failure on a build it is meant for that has at most one
\* kind of accelerator: no call of a rank fails and no validation does.
THEOREM ExamplesSucceed == Spec => []SucceedsInItsBuild
<1>1. Init => Belongs /\ SucceedsInItsBuild
  BY DEF Init, Belongs, SucceedsInItsBuild
<1>2. IInv /\ Belongs /\ SucceedsInItsBuild /\ [Next]_vars => Belongs' /\ SucceedsInItsBuild'
  BY SuccessKeeps
<1> QED
  BY <1>1, <1>2, ProgramsFit, PTL DEF Spec

=============================================================================
