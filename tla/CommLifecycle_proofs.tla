------------------------ MODULE CommLifecycle_proofs ------------------------
(***************************************************************************)
(* The handles and the world information of CommLifecycle are right for    *)
(* any number of processes, communicators, cliques and calls.              *)
(***************************************************************************)
EXTENDS CommLifecycle, TLAPS

\* inter_comm holds what CommInitAll made, intra_comm what CommInitRank made.
SlotKinds ==
  \A c \in Comms : comm[c] # Null =>
    /\ comm[c].inter \in ({"mpi"} \X (1 .. MaxCalls)) \cup {Null}
    /\ comm[c].intra \in ({"ccl"} \X Cliques) \cup {Null}

\* A process blocked in a call has the communicator of that call allocated,
\* with the slot that is to be filled still empty and its handle not made.
InDup(p) ==
  /\ target[p] \in Comms /\ CommHome[target[p]] = p
  /\ comm[target[p]] # Null /\ comm[target[p]].inter = Null
  /\ dups[p] \in 1 .. MaxCalls
  /\ handle[p][<<"mpi", dups[p]>>] = "none"

InClique(p) ==
  /\ target[p] \in Comms /\ CommHome[target[p]] = p
  /\ comm[target[p]] # Null /\ comm[target[p]].intra = Null
  /\ asked[p] \in Cliques /\ p \in joined[asked[p]]
  /\ handle[p][<<"ccl", asked[p]>>] = "none"

BlockedOn ==
  \A p \in Processes : /\ pc[p] = "dup" => InDup(p)
                       /\ pc[p] = "clique" => InClique(p)

\* Each duplicate is asked for by a call of its own.
DupsCounted == \A p \in Processes : dups[p] <= made[p]

\* A handle that was not asked for was not made.
HandlesAsked ==
  \A p \in Processes :
    /\ \A i \in 1 .. MaxCalls : i > dups[p] => handle[p][<<"mpi", i>>] = "none"
    /\ \A k \in Cliques : p \notin joined[k] => handle[p][<<"ccl", k>>] = "none"

IInv == /\ TypeOK /\ SlotKinds /\ BlockedOn /\ DupsCounted /\ HandlesAsked
        /\ HandlesOwned /\ WorldOfSlot

\* What most steps need of the constants.
LEMMA Constants ==
  /\ N \in Nat \ {0} /\ MaxCalls \in Nat /\ LocalDevices \in Nat
  /\ CommHome \in [Comms -> Processes]
  /\ Null \notin Handles /\ Null \notin Communicator
  BY LifecycleAssumption

USE Constants

-----------------------------------------------------------------------------
\* The invariant holds initially.
LEMMA InitIInv == Init => IInv
<1> SUFFICES ASSUME Init PROVE IInv
  OBVIOUS
<1>1. TypeOK
  BY DEF Init, TypeOK, Communicator
<1>2. \A c \in Comms : comm[c] = Null /\ Slots(c) = {}
  BY DEF Init, Slots
<1>3. HandlesOwned
  BY <1>2 DEF Init, HandlesOwned
<1>4. WorldOfSlot
  BY <1>2 DEF WorldOfSlot
<1>5. SlotKinds /\ BlockedOn /\ DupsCounted /\ HandlesAsked
  BY <1>2 DEF Init, SlotKinds, BlockedOn, DupsCounted, HandlesAsked, Handles
<1> QED
  BY <1>1, <1>3, <1>4, <1>5 DEF IInv

\* What all calls that begin have in common.
Began(p) ==
  /\ pc[p] = "idle" /\ p \notin aborted
  /\ made' \in [Processes -> 0 .. MaxCalls]
  /\ made' = [made EXCEPT ![p] = @ + 1] /\ made[p] < MaxCalls

\* The first part of every call.
LEMMA CallBegins ==
  ASSUME TypeOK, NEW p \in Processes, NEW call, Begin(p, call)
  PROVE  Began(p) /\ call \in Calls[p][made[p] + 1] /\ made[p] + 1 \in 1 .. MaxCalls
<1>1. made \in [Processes -> 0 .. MaxCalls] /\ MaxCalls \in Nat
  BY DEF TypeOK
<1> QED
  BY <1>1 DEF Begin, Began

\* It counts one more call.
LEMMA DupsKept ==
  ASSUME TypeOK, DupsCounted, NEW p \in Processes, Began(p), UNCHANGED dups
  PROVE  DupsCounted'
<1> SUFFICES ASSUME NEW q \in Processes PROVE dups[q] <= made'[q]
  BY DEF DupsCounted
<1>1. made[q] \in Nat /\ dups[q] \in Nat /\ dups[q] <= made[q]
  BY DEF TypeOK, DupsCounted
<1>2. made'[q] = made[q] \/ made'[q] = made[q] + 1
  BY DEF Began, TypeOK
<1> QED
  BY <1>1, <1>2

\* A call that returns, or is ended by INFINI_CHECK_MPI, leaves a status.
LEMMA Status ==
  ASSUME TypeOK, NEW p \in Processes,
         \/ /\ \E s \in {"success", "invalid", "error", "unsupported"} : Return(p, s)
            /\ UNCHANGED aborted
         \/ Abort(p)
         \/ UNCHANGED <<result, aborted>>
  PROVE  /\ result' \in [Processes ->
                        {"none", "success", "invalid", "error", "unsupported"}]
         /\ aborted \subseteq aborted' /\ aborted' \subseteq Processes
<1>1. CASE Abort(p)
  BY <1>1 DEF TypeOK, Abort
<1>2. CASE \E s \in {"success", "invalid", "error", "unsupported"} : Return(p, s)
                                                        /\ UNCHANGED aborted
  BY <1>2 DEF TypeOK, Return
<1> QED
  BY <1>1, <1>2 DEF TypeOK

\* A call is on a communicator of the process.
LEMMA CallAtHome ==
  ASSUME NEW p \in Processes, NEW n \in 1 .. MaxCalls, NEW call \in Calls[p][n]
  PROVE  "comm" \in DOMAIN call => CommHome[call.comm] = p
  BY LifecycleAssumption

\* Steps that touch neither communicators nor handles.
LEMMA QuietIInv ==
  ASSUME IInv, UNCHANGED <<comm, handle, joined, dups, target, asked>>, TypeOK',
         DupsCounted', aborted \subseteq aborted',
         \A p \in Processes : pc'[p] \in {"dup", "clique"} => pc'[p] = pc[p]
  PROVE  IInv'
<1>1. \A c \in Comms : Slots(c)' = Slots(c)
  BY DEF Slots
<1>2. SlotKinds' /\ HandlesAsked' /\ HandlesOwned'
  BY <1>1 DEF IInv, SlotKinds, HandlesAsked, HandlesOwned
<1>3. BlockedOn'
  BY DEF IInv, BlockedOn, InDup, InClique
<1>4. WorldOfSlot'
  BY DEF IInv, WorldOfSlot, RightWorld
<1> QED
  BY <1>2, <1>3, <1>4 DEF IInv

\* Calls that leave the communicators alone.
LEMMA QuietSteps ==
  ASSUME IInv, NEW p \in Processes,
         \/ Refuse(p) \/ InitMpi(p) \/ GetRank(p)
         \/ BeginFinalize(p) \/ EndFinalize(p)
  PROVE  IInv'
<1> USE DEF IInv
<1>1. CASE Refuse(p)
  <2> PICK call \in Call :
        /\ Begin(p, call)
        /\ Return(p, "unsupported") \/ Return(p, "invalid")
        /\ UNCHANGED <<build, mpi, comm, dangling, pc, target, asked, dups,
                       joined, handle, device, aborted>>
    BY <1>1 DEF Refuse
  <2>0. Began(p)
    BY CallBegins
  <2>1. TypeOK'
    BY <2>0 DEF TypeOK, Return, Began
  <2>2. DupsCounted'
    BY <2>0, DupsKept
  <2> QED
    BY <2>1, <2>2, QuietIInv
<1>2. CASE InitMpi(p)
  <2>1. Began(p)
    BY CallBegins, <1>2 DEF InitMpi
  <2>2. TypeOK'
    BY <1>2, <2>1 DEF TypeOK, InitMpi, Return, Began
  <2>4. DupsCounted'
    BY <1>2, <2>1, DupsKept DEF InitMpi
  <2> QED
    BY <1>2, <2>2, <2>4, QuietIInv DEF InitMpi
<1>3. CASE GetRank(p)
  <2>1. Began(p)
    BY CallBegins, <1>3 DEF GetRank
  <2>3. \/ Return(p, "success") /\ UNCHANGED aborted
        \/ Abort(p)
    BY <1>3 DEF GetRank
  <2>5. /\ result' \in [Processes ->
                       {"none", "success", "invalid", "error", "unsupported"}]
        /\ aborted \subseteq aborted' /\ aborted' \subseteq Processes
    BY <2>3, Status
  <2>2. TypeOK'
    BY <1>3, <2>1, <2>5 DEF TypeOK, GetRank, Began
  <2>4. DupsCounted'
    BY <1>3, <2>1, DupsKept DEF GetRank
  <2> QED
    BY <1>3, <2>2, <2>4, <2>5, QuietIInv DEF GetRank
<1>4. CASE BeginFinalize(p)
  <2>1. Began(p)
    BY CallBegins, <1>4 DEF BeginFinalize
  <2>6. \/ Return(p, "success") /\ UNCHANGED aborted
        \/ Abort(p)
        \/ UNCHANGED <<result, aborted>>
    BY <1>4 DEF BeginFinalize
  <2>5. /\ result' \in [Processes ->
                       {"none", "success", "invalid", "error", "unsupported"}]
        /\ aborted \subseteq aborted' /\ aborted' \subseteq Processes
    BY <2>6, Status
  <2>7. pc' \in [Processes -> {"idle", "dup", "clique", "finalize"}]
    BY <1>4 DEF TypeOK, BeginFinalize
  <2>2. TypeOK'
    BY <1>4, <2>1, <2>5, <2>7 DEF TypeOK, BeginFinalize, Began
  <2>4. DupsCounted'
    BY <1>4, <2>1, DupsKept DEF BeginFinalize
  <2>3. \A q \in Processes : pc'[q] \in {"dup", "clique"} => pc'[q] = pc[q]
    BY <1>4 DEF TypeOK, BeginFinalize
  <2> QED
    BY <1>4, <2>2, <2>3, <2>4, <2>5, QuietIInv DEF BeginFinalize
<1>5. CASE EndFinalize(p)
  <2>1. TypeOK' /\ DupsCounted'
    BY <1>5 DEF TypeOK, DupsCounted, EndFinalize, Return
  <2>2. \A q \in Processes : pc'[q] \in {"dup", "clique"} => pc'[q] = pc[q]
    BY <1>5 DEF TypeOK, EndFinalize
  <2> QED
    BY <1>5, <2>1, <2>2, QuietIInv DEF EndFinalize
<1> QED
  BY <1>1, <1>2, <1>3, <1>4, <1>5

-----------------------------------------------------------------------------
\* Allocated has the slots of the communicator there was, if any.
LEMMA AllocatedSlots ==
  ASSUME IInv, NEW c \in Comms, NEW dev \in Nat
  PROVE  LET m == Allocated(c, dev) IN
         /\ m \in Communicator /\ m # Null
         /\ {m.inter, m.intra} \ {Null} = Slots(c)
         /\ comm[c] # Null => m = comm[c]
         /\ comm[c] = Null =>
              m.inter = Null /\ m.intra = Null /\ m.rank = -1 /\ m.size = 0
<1>1. comm[c] \in Communicator \cup {Null}
  BY DEF IInv, TypeOK
<1>2. Allocated(c, dev) \in Communicator
  BY <1>1 DEF Allocated, Communicator
<1> QED
  BY <1>1, <1>2 DEF Allocated, Slots

\* Steps after which all slots hold what they held.
LEMMA SameSlots ==
  ASSUME IInv, UNCHANGED handle, \A c \in Comms : Slots(c)' = Slots(c)
  PROVE  HandlesOwned'
  BY DEF IInv, HandlesOwned

\* A step of p that changes only communicators and handles of p.
OnlyOf(p) ==
  /\ \A c \in Comms : CommHome[c] # p => comm'[c] = comm[c]
  /\ \A q \in Processes \ {p} :
       /\ pc'[q] = pc[q] /\ target'[q] = target[q] /\ asked'[q] = asked[q]
       /\ dups'[q] = dups[q] /\ handle'[q] = handle[q]
  /\ \A q \in Processes, k \in Cliques :
       /\ q \in joined[k] => q \in joined'[k]
       /\ q # p /\ q \in joined'[k] => q \in joined[k]

\* It does not disturb the calls of the others.
LEMMA OthersBlocked ==
  ASSUME IInv, NEW p \in Processes, OnlyOf(p)
  PROVE  \A q \in Processes \ {p} :
           /\ pc'[q] = "dup" => InDup(q)'
           /\ pc'[q] = "clique" => InClique(q)'
<1> SUFFICES ASSUME NEW q \in Processes \ {p}
             PROVE  /\ pc'[q] = "dup" => InDup(q)'
                    /\ pc'[q] = "clique" => InClique(q)'
  OBVIOUS
<1>1. /\ pc'[q] = pc[q] /\ target'[q] = target[q] /\ asked'[q] = asked[q]
      /\ dups'[q] = dups[q] /\ handle'[q] = handle[q]
  BY DEF OnlyOf
<1>2. \A c \in Comms : CommHome[c] = q => comm'[c] = comm[c]
  BY DEF OnlyOf
<1>3. CASE pc[q] = "dup"
  <2>1. InDup(q)
    BY <1>3 DEF IInv, BlockedOn
  <2>2. InDup(q)'
    BY <1>1, <1>2, <2>1 DEF InDup
  <2> QED
    BY <1>1, <1>3, <2>2
<1>4. CASE pc[q] = "clique"
  <2>1. InClique(q)
    BY <1>4 DEF IInv, BlockedOn
  <2>2. InClique(q)'
    BY <1>1, <1>2, <2>1 DEF InClique, OnlyOf
  <2> QED
    BY <1>1, <1>4, <2>2
<1> QED
  BY <1>1, <1>3, <1>4

\* CommInitAll up to MPI_Comm_dup.
LEMMA BeginCommInitAllIInv ==
  ASSUME IInv, NEW p \in Processes, NEW c \in Comms, BeginCommInitAll(p, c)
  PROVE  IInv'
<1> DEFINE m == Allocated(c, 0)
<1> USE DEF IInv
<1>1. Begin(p, [op |-> "CommInitAll", comm |-> c]) /\ comm' = [comm EXCEPT ![c] = m]
  BY DEF BeginCommInitAll
<1>2. Began(p) /\ CommHome[c] = p
  <2>1. /\ Began(p) /\ made[p] + 1 \in 1 .. MaxCalls
        /\ [op |-> "CommInitAll", comm |-> c] \in Calls[p][made[p] + 1]
    BY <1>1, CallBegins
  <2> QED
    BY <2>1, CallAtHome
<1>3. /\ m \in Communicator /\ m # Null /\ {m.inter, m.intra} \ {Null} = Slots(c)
      /\ comm[c] # Null => m = comm[c]
      /\ comm[c] = Null =>
           m.inter = Null /\ m.intra = Null /\ m.rank = -1 /\ m.size = 0
  BY AllocatedSlots
<1> HIDE DEF m
<1>4. /\ comm' \in [Comms -> Communicator \cup {Null}] /\ comm'[c] = m
      /\ \A d \in Comms : d # c => comm'[d] = comm[d]
      /\ UNCHANGED <<build, mpi, dangling, asked, joined, handle, device>>
  BY <1>1, <1>3 DEF TypeOK, BeginCommInitAll
<1>5. dups[p] + 1 \in 1 .. MaxCalls /\ dups[p] + 1 <= made'[p]
  BY <1>2 DEF TypeOK, DupsCounted, Began
<1>6. \/ UNCHANGED <<pc, target, dups>> /\ aborted \subseteq aborted'
                                        /\ aborted' \subseteq Processes
      \/ /\ m.inter = Null
         /\ pc' = [pc EXCEPT ![p] = "dup"]
         /\ target' = [target EXCEPT ![p] = c]
         /\ dups' = [dups EXCEPT ![p] = @ + 1]
         /\ UNCHANGED aborted
  BY <1>4 DEF BeginCommInitAll, TypeOK, Abort
<1>7. result' \in [Processes ->
                     {"none", "success", "invalid", "error", "unsupported"}]
  BY DEF BeginCommInitAll, TypeOK, Return, Abort
<1>8. TypeOK'
  <2>1. aborted' \subseteq Processes
    BY <1>6 DEF TypeOK
  <2>2. pc' \in [Processes -> {"idle", "dup", "clique", "finalize"}]
    BY <1>6 DEF TypeOK
  <2>3. target' \in [Processes -> Comms \cup {Null}]
    BY <1>6 DEF TypeOK
  <2>4. dups' \in [Processes -> 0 .. MaxCalls]
    <3>1. dups \in [Processes -> 0 .. MaxCalls] /\ dups[p] + 1 \in 0 .. MaxCalls
      BY <1>5 DEF TypeOK
    <3> QED
      BY <1>6, <3>1
  <2>5. made' \in [Processes -> 0 .. MaxCalls]
    BY <1>2 DEF Began
  <2> QED
    BY <1>4, <1>7, <2>1, <2>2, <2>3, <2>4, <2>5 DEF TypeOK
<1>9. \A d \in Comms : Slots(d)' = Slots(d)
  BY <1>3, <1>4 DEF Slots
<1>10. HandlesOwned'
  BY <1>4, <1>9, SameSlots
<1>11. SlotKinds'
  BY <1>3, <1>4 DEF SlotKinds
<1>12. DupsCounted' /\ HandlesAsked'
  <2>0. \A q \in Processes :
          /\ dups[q] \in Nat /\ made[q] \in Nat /\ dups[q] <= made[q]
          /\ dups'[q] = dups[q] \/ (q = p /\ dups'[q] = dups[q] + 1)
          /\ made'[q] = IF q = p THEN made[q] + 1 ELSE made[q]
    BY <1>2, <1>6 DEF TypeOK, DupsCounted, Began
  <2>1. ASSUME NEW q \in Processes
        PROVE  /\ dups'[q] <= made'[q]
               /\ \A i \in 1 .. MaxCalls : i > dups'[q] => i > dups[q]
    <3> DEFINE d == dups[q]  n == made[q]  d2 == dups'[q]  n2 == made'[q]
    <3>1. /\ d \in Nat /\ n \in Nat /\ d <= n
          /\ (d2 = d /\ n2 \in {n, n + 1}) \/ (d2 = d + 1 /\ n2 = n + 1)
      BY ONLY <2>0, q \in Processes
    <3> HIDE DEF d, n, d2, n2
    <3>2. d2 <= n2 /\ \A i \in 1 .. MaxCalls : i > d2 => i > d
      BY <3>1
    <3> QED
      BY <3>2 DEF d, n, d2, n2
  <2>2. DupsCounted'
    BY <2>1 DEF DupsCounted
  <2>3. HandlesAsked'
    BY <1>4, <2>1 DEF HandlesAsked
  <2> QED
    BY <2>2, <2>3
<1>13. BlockedOn'
  <2>1. CASE UNCHANGED <<pc, target, dups>>
    <3>1. OnlyOf(p)
      BY <1>2, <1>4, <2>1 DEF OnlyOf
    <3>2. pc'[p] = "idle"
      BY <1>2, <2>1 DEF Began
    <3> QED
      BY <3>1, <3>2, OthersBlocked DEF BlockedOn
  <2>2. CASE /\ m.inter = Null
             /\ pc' = [pc EXCEPT ![p] = "dup"]
             /\ target' = [target EXCEPT ![p] = c]
             /\ dups' = [dups EXCEPT ![p] = @ + 1]
    <3>1. OnlyOf(p)
      BY <1>2, <1>4, <2>2 DEF OnlyOf, TypeOK
    <3>2. pc'[p] = "dup" /\ target'[p] = c /\ dups'[p] = dups[p] + 1
      BY <2>2 DEF TypeOK
    <3>3. handle[p][<<"mpi", dups[p] + 1>>] = "none"
      <4>1. dups[p] + 1 > dups[p]
        BY DEF TypeOK
      <4> QED
        BY <1>5, <4>1 DEF HandlesAsked
    <3>4. InDup(p)'
      BY <1>2, <1>3, <1>4, <1>5, <2>2, <3>2, <3>3 DEF InDup
    <3> QED
      BY <3>1, <3>2, <3>4, OthersBlocked DEF BlockedOn
  <2> QED
    BY <1>6, <2>1, <2>2
<1>14. WorldOfSlot'
  <2> SUFFICES ASSUME NEW d \in Comms, comm'[d] # Null, CommHome[d] \notin aborted
               PROVE  RightWorld(CommHome[d], comm'[d])
    BY <1>6 DEF WorldOfSlot, RightWorld
  <2>1. comm[d] # Null => RightWorld(CommHome[d], comm[d])
    BY DEF WorldOfSlot
  <2>2. comm[d] = Null => RightWorld(CommHome[d], comm'[d])
    BY <1>3, <1>4 DEF RightWorld
  <2> QED
    BY <1>3, <1>4, <2>1, <2>2
<1> QED
  BY <1>8, <1>10, <1>11, <1>12, <1>13, <1>14

-----------------------------------------------------------------------------
\* A handle that was not made before, put into a slot that was empty.
LEMMA SlotFilled ==
  ASSUME IInv, NEW p \in Processes, NEW c \in Comms, NEW h \in Handles,
         CommHome[c] = p, handle[p][h] = "none",
         handle' = [handle EXCEPT ![p][h] = "live"],
         Slots(c)' = Slots(c) \cup {h},
         \A d \in Comms : d # c => Slots(d)' = Slots(d)
  PROVE  HandlesOwned'
<1>1. /\ handle \in [Processes ->
                    [Handles -> {"none", "live", "freed", "lost", "twice"}]]
      /\ HandlesOwned
  BY DEF IInv, TypeOK
<1>2. \A q \in Processes, g \in Handles :
        handle'[q][g] = IF q = p /\ g = h THEN "live" ELSE handle[q][g]
  <2>1. handle'[p] = [handle[p] EXCEPT ![h] = "live"]
    BY <1>1
  <2>2. \A q \in Processes : q # p => handle'[q] = handle[q]
    BY <1>1
  <2>3. handle[p] \in [Handles -> {"none", "live", "freed", "lost", "twice"}]
    BY <1>1
  <2> QED
    BY <2>1, <2>2, <2>3
<1>3. \A d \in Comms : CommHome[d] = p => h \notin Slots(d)
  BY <1>1 DEF HandlesOwned
<1>4. ASSUME NEW q \in Processes, NEW g \in Handles
      PROVE  /\ handle'[q][g] # "twice"
             /\ handle'[q][g] = "lost" => g[1] = "ccl" /\ q \in Faulty
             /\ handle'[q][g] = "live" <=>
                  \E d \in Comms : CommHome[d] = q /\ g \in Slots(d)'
  <2>1. CASE q = p /\ g = h
    BY <1>2, <2>1
  <2>2. CASE ~(q = p /\ g = h)
    <3>1. handle'[q][g] = handle[q][g]
      BY <1>2, <2>2
    <3>2. \A d \in Comms : CommHome[d] = q => (g \in Slots(d)' <=> g \in Slots(d))
      BY <2>2
    <3> QED
      BY <1>1, <3>1, <3>2 DEF HandlesOwned
  <2> QED
    BY <2>1, <2>2
<1>5. ASSUME NEW d \in Comms, NEW e \in Comms, d # e, CommHome[d] = CommHome[e]
      PROVE  Slots(d)' \cap Slots(e)' = {}
  <2>1. Slots(d) \cap Slots(e) = {}
    BY <1>1, <1>5 DEF HandlesOwned
  <2>2. CASE d = c
    <3>1. h \notin Slots(e) /\ Slots(e)' = Slots(e) /\ Slots(d)' = Slots(d) \cup {h}
      BY <1>3, <1>5, <2>2
    <3> QED
      BY <2>1, <3>1
  <2>3. CASE e = c
    <3>1. h \notin Slots(d) /\ Slots(d)' = Slots(d) /\ Slots(e)' = Slots(e) \cup {h}
      BY <1>3, <1>5, <2>3
    <3> QED
      BY <2>1, <3>1
  <2> QED
    BY <2>1, <2>2, <2>3
<1> QED
  BY <1>4, <1>5 DEF HandlesOwned

\* Handles in slots of one communicator, released and taken out of them;
\* the release of those in lost fails.
LEMMA SlotsReleased ==
  ASSUME IInv, NEW p \in Processes, NEW c \in Comms, NEW hs \in SUBSET Slots(c),
         NEW lost \in MayLose(p, hs),
         CommHome[c] = p,
         handle' = [handle EXCEPT ![p] = Release(hs, lost, @)],
         Slots(c)' = Slots(c) \ hs,
         \A d \in Comms : d # c => Slots(d)' = Slots(d)
  PROVE  /\ HandlesOwned'
         /\ handle' \in [Processes ->
                          [Handles -> {"none", "live", "freed", "lost", "twice"}]]
         /\ \A q \in Processes, h \in Handles :
              handle[q][h] = "none" => handle'[q][h] = "none"
<1> DEFINE Gone(h) == IF h \in lost THEN "lost" ELSE "freed"
<1>1. /\ handle \in [Processes ->
                    [Handles -> {"none", "live", "freed", "lost", "twice"}]]
      /\ HandlesOwned
  BY DEF IInv, TypeOK
<1>2. \A h \in Handles : h \in hs => handle[p][h] = "live"
  BY <1>1 DEF HandlesOwned
<1>3. /\ handle' \in [Processes ->
                    [Handles -> {"none", "live", "freed", "lost", "twice"}]]
      /\ \A q \in Processes, h \in Handles :
           handle'[q][h] = IF q = p /\ h \in hs THEN Gone(h) ELSE handle[q][h]
  <2>1. /\ handle'[p] = Release(hs, lost, handle[p])
        /\ \A q \in Processes : q # p => handle'[q] = handle[q]
    BY <1>1
  <2>2. /\ handle'[p] \in [Handles -> {"none", "live", "freed", "lost", "twice"}]
        /\ \A h \in Handles :
             handle'[p][h] = IF h \in hs THEN Gone(h) ELSE handle[p][h]
    BY <1>1, <1>2, <2>1 DEF Release, Gone
  <2>3. handle' \in [Processes ->
                      [Handles -> {"none", "live", "freed", "lost", "twice"}]]
    <3>1. handle' = [q \in Processes |-> IF q = p THEN handle'[p] ELSE handle[q]]
      BY <1>1, <2>1
    <3> QED
      BY <1>1, <2>2, <3>1
  <2> QED
    BY <2>1, <2>2, <2>3
<1>4. \A d \in Comms : CommHome[d] = p /\ d # c => hs \cap Slots(d) = {}
  BY <1>1 DEF HandlesOwned
<1>5. ASSUME NEW q \in Processes, NEW h \in Handles
      PROVE  /\ handle'[q][h] # "twice"
             /\ handle'[q][h] = "lost" => h[1] = "ccl" /\ q \in Faulty
             /\ handle'[q][h] = "live" <=>
                  \E d \in Comms : CommHome[d] = q /\ h \in Slots(d)'
  <2>1. CASE q = p /\ h \in hs
    <3>1. handle'[q][h] = Gone(h)
      BY <1>3, <2>1
    <3>3. h \in lost => h[1] = "ccl" /\ q \in Faulty
      BY <2>1 DEF MayLose
    <3>2. \A d \in Comms : CommHome[d] = q => h \notin Slots(d)'
      BY <1>4, <2>1
    <3> QED
      BY <3>1, <3>2, <3>3 DEF Gone
  <2>2. CASE ~(q = p /\ h \in hs)
    <3>1. handle'[q][h] = handle[q][h]
      BY <1>3, <2>2
    <3>2. \A d \in Comms : CommHome[d] = q => (h \in Slots(d)' <=> h \in Slots(d))
      BY <2>2
    <3> QED
      BY <1>1, <3>1, <3>2 DEF HandlesOwned
  <2> QED
    BY <2>1, <2>2
<1>6. ASSUME NEW d \in Comms, NEW e \in Comms, d # e, CommHome[d] = CommHome[e]
      PROVE  Slots(d)' \cap Slots(e)' = {}
  <2>1. Slots(d) \cap Slots(e) = {}
    BY <1>1, <1>6 DEF HandlesOwned
  <2>2. Slots(d)' \subseteq Slots(d) /\ Slots(e)' \subseteq Slots(e)
    <3>1. \A f \in Comms : Slots(f)' \subseteq Slots(f)
      BY SMT
    <3> QED
      BY <3>1
  <2> QED
    BY <2>1, <2>2
<1>7. HandlesOwned'
  BY <1>5, <1>6 DEF HandlesOwned
<1> QED
  BY <1>2, <1>3, <1>7

\* CommInitAll once the world is duplicated.
LEMMA EndCommInitAllIInv ==
  ASSUME IInv, NEW p \in Processes, EndCommInitAll(p)
  PROVE  IInv'
<1> USE DEF IInv
<1>0. pc[p] = "dup" /\ InDup(p)
  BY DEF EndCommInitAll, BlockedOn
<1>1. PICK c \in Comms : c = target[p]
  BY <1>0 DEF InDup
<1>2. PICK h \in {"mpi"} \X (1 .. MaxCalls) : h = <<"mpi", dups[p]>>
  BY <1>0 DEF InDup
<1>3. h \in Handles /\ h # Null
  BY DEF Handles
<1> DEFINE m == WithInter(p, c)
<1>4. /\ CommHome[c] = p /\ comm[c] # Null /\ comm[c].inter = Null
      /\ dups[p] \in 1 .. MaxCalls /\ handle[p][h] = "none"
      /\ comm[c] \in Communicator
  BY <1>0, <1>1, <1>2 DEF InDup, TypeOK
<1>5. /\ m \in Communicator /\ m.inter = h /\ m.intra = comm[c].intra
      /\ m.rank = p /\ m.size = N /\ m # Null
  <2>1. LocalRank[p] \in Nat /\ N \in Int /\ p \in Int
    BY LifecycleAssumption DEF Processes
  <2>2. m = [comm[c] EXCEPT !.rank = p, !.size = N, !.local = LocalDevices,
                            !.dev = LocalRank[p], !.inter = h]
    BY <1>2 DEF WithInter
  <2> HIDE DEF m
  <2> QED
    BY <1>3, <1>4, <2>1, <2>2 DEF Communicator
<1>6. /\ comm' = [comm EXCEPT ![c] = m]
      /\ handle' = [handle EXCEPT ![p][h] = "live"]
      /\ pc' = [pc EXCEPT ![p] = "idle"]
      /\ UNCHANGED <<build, mpi, dangling, target, asked, made, dups, joined,
                     aborted>>
  BY <1>1, <1>2 DEF EndCommInitAll
<1> HIDE DEF m
<1>7. comm'[c] = m /\ \A d \in Comms : d # c => comm'[d] = comm[d]
  BY <1>6 DEF TypeOK
<1>8. /\ Slots(c)' = Slots(c) \cup {h}
      /\ \A d \in Comms : d # c => Slots(d)' = Slots(d)
  BY <1>3, <1>4, <1>5, <1>7 DEF Slots
<1>9. HandlesOwned'
  BY <1>3, <1>4, <1>6, <1>8, SlotFilled
<1>10. TypeOK'
  <2>1. comm' \in [Comms -> Communicator \cup {Null}]
    BY <1>5, <1>6 DEF TypeOK
  <2>2. handle' \in [Processes ->
                    [Handles -> {"none", "live", "freed", "lost", "twice"}]]
    BY <1>3, <1>6 DEF TypeOK
  <2>3. pc' \in [Processes -> {"idle", "dup", "clique", "finalize"}]
    BY <1>6 DEF TypeOK
  <2>4. result' \in [Processes ->
                      {"none", "success", "invalid", "error", "unsupported"}]
    BY DEF EndCommInitAll, Return, TypeOK
  <2>5. device' \in [Processes -> Nat]
    <3>1. device' = [device EXCEPT ![p] = LocalRank[p]] \/ UNCHANGED device
      BY DEF EndCommInitAll
    <3>2. LocalRank[p] \in Nat
      BY LifecycleAssumption
    <3> QED
      BY <3>1, <3>2 DEF TypeOK
  <2> QED
    BY <1>6, <2>1, <2>2, <2>3, <2>4, <2>5 DEF TypeOK
<1>11. SlotKinds'
  BY <1>4, <1>5, <1>7 DEF SlotKinds
<1>12. BlockedOn'
  <2>1. OnlyOf(p)
    <3>1. \A d \in Comms : CommHome[d] # p => comm'[d] = comm[d]
      BY <1>4, <1>7
    <3>2. \A q \in Processes \ {p} :
            /\ pc'[q] = pc[q] /\ target'[q] = target[q] /\ asked'[q] = asked[q]
            /\ dups'[q] = dups[q]
      BY <1>6 DEF TypeOK
    <3>3. \A q \in Processes \ {p} : handle'[q] = handle[q]
      BY <1>6 DEF TypeOK
    <3> QED
      BY <1>6, <3>1, <3>2, <3>3 DEF OnlyOf
  <2>2. pc'[p] = "idle"
    BY <1>6 DEF TypeOK
  <2> QED
    BY <2>1, <2>2, OthersBlocked DEF BlockedOn
<1>13. DupsCounted'
  BY <1>6 DEF DupsCounted
<1>14. HandlesAsked'
  <2>1. \A q \in Processes, g \in Handles :
          ~(q = p /\ g = h) => handle'[q][g] = handle[q][g]
    BY <1>6 DEF TypeOK
  <2>2. ASSUME NEW q \in Processes, NEW i \in 1 .. MaxCalls, i > dups[q]
        PROVE  handle'[q][<<"mpi", i>>] = "none"
    <3>1. <<"mpi", i>> \in Handles /\ ~(q = p /\ <<"mpi", i>> = h)
      BY <1>2, <1>4, <2>2 DEF Handles
    <3> QED
      BY <2>1, <2>2, <3>1 DEF HandlesAsked
  <2>3. ASSUME NEW q \in Processes, NEW k \in Cliques, q \notin joined[k]
        PROVE  handle'[q][<<"ccl", k>>] = "none"
    <3>1. <<"ccl", k>> \in Handles /\ <<"ccl", k>> # h
      BY <1>2 DEF Handles
    <3> QED
      BY <2>1, <2>3, <3>1 DEF HandlesAsked
  <2> QED
    BY <1>6, <2>2, <2>3 DEF HandlesAsked
<1>15. WorldOfSlot'
  <2> SUFFICES ASSUME NEW d \in Comms, comm'[d] # Null, CommHome[d] \notin aborted
               PROVE  RightWorld(CommHome[d], comm'[d])
    BY <1>6 DEF WorldOfSlot, RightWorld
  <2>1. CASE d = c
    <3>1. m.inter # Null
      BY <1>3, <1>5
    <3> QED
      BY <1>4, <1>5, <1>7, <2>1, <3>1 DEF RightWorld
  <2>2. CASE d # c
    BY <1>7, <2>2 DEF WorldOfSlot
  <2> QED
    BY <2>1, <2>2
<1> QED
  BY <1>9, <1>10, <1>11, <1>12, <1>13, <1>14, <1>15

\* CommInitRank up to the call of the library.
LEMMA BeginCommInitRankIInv ==
  ASSUME IInv, NEW p \in Processes, NEW c \in Comms, NEW k \in Cliques,
         BeginCommInitRank(p, c, k)
  PROVE  IInv'
<1> DEFINE a == Allocated(c, 0)
           m == [Allocated(c, 0) EXCEPT !.dev = device[p]]
<1> USE DEF IInv
<1>1. Begin(p, [op |-> "CommInitRank", comm |-> c, clique |-> k])
  BY DEF BeginCommInitRank
<1>2. Began(p) /\ CommHome[c] = p
  <2>1. /\ Began(p) /\ made[p] + 1 \in 1 .. MaxCalls
        /\ [op |-> "CommInitRank", comm |-> c, clique |-> k]
             \in Calls[p][made[p] + 1]
    BY <1>1, CallBegins
  <2> QED
    BY <2>1, CallAtHome
<1>3. DupsCounted'
  BY <1>2, DupsKept DEF BeginCommInitRank
<1>4. CASE Return(p, "error") /\ UNCHANGED <<comm, pc, target, asked, joined>>
  <2>1. UNCHANGED <<build, mpi, dangling, dups, handle, device, aborted>>
    BY DEF BeginCommInitRank
  <2>2. TypeOK'
    BY <1>2, <1>4, <2>1 DEF TypeOK, Return, Began
  <2> QED
    BY <1>3, <1>4, <2>1, <2>2, QuietIInv
<1>5. CASE ~(Return(p, "error") /\ UNCHANGED <<comm, pc, target, asked, joined>>)
  <2>1. /\ comm' = [comm EXCEPT ![c] = m]
        /\ UNCHANGED <<build, mpi, dangling, dups, handle, device, aborted>>
    BY <1>5 DEF BeginCommInitRank
  <2>2. \/ UNCHANGED <<pc, target, asked, joined>>
        \/ /\ m.intra = Null
           /\ pc' = [pc EXCEPT ![p] = "clique"]
           /\ target' = [target EXCEPT ![p] = c]
           /\ asked' = [asked EXCEPT ![p] = k]
           /\ joined' = [joined EXCEPT ![k] = @ \cup {p}]
    <3>1. m.intra = a.intra
      BY AllocatedSlots DEF Communicator
    <3> QED
      BY <1>5, <3>1 DEF BeginCommInitRank, MayJoin
  <2>3. /\ m \in Communicator /\ m # Null /\ {m.inter, m.intra} \ {Null} = Slots(c)
        /\ comm[c] # Null =>
             /\ m.inter = comm[c].inter /\ m.intra = comm[c].intra
             /\ m.rank = comm[c].rank /\ m.size = comm[c].size
        /\ comm[c] = Null =>
             m.inter = Null /\ m.intra = Null /\ m.rank = -1 /\ m.size = 0
    <3>1. /\ a \in Communicator /\ {a.inter, a.intra} \ {Null} = Slots(c)
          /\ comm[c] # Null => a = comm[c]
          /\ comm[c] = Null =>
               a.inter = Null /\ a.intra = Null /\ a.rank = -1 /\ a.size = 0
      BY AllocatedSlots
    <3>2. device[p] \in Nat
      BY DEF TypeOK
    <3>3. m = [a EXCEPT !.dev = device[p]]
      OBVIOUS
    <3> HIDE DEF a, m
    <3>4. /\ m \in Communicator /\ m.inter = a.inter /\ m.intra = a.intra
          /\ m.rank = a.rank /\ m.size = a.size
      BY <3>1, <3>2, <3>3 DEF Communicator
    <3> QED
      BY <3>1, <3>4
  <2> HIDE DEF a, m
  <2>4. comm'[c] = m /\ \A d \in Comms : d # c => comm'[d] = comm[d]
    BY <2>1 DEF TypeOK
  <2>5. TypeOK'
    <3>1. comm' \in [Comms -> Communicator \cup {Null}]
      BY <2>1, <2>3 DEF TypeOK
    <3>2. pc' \in [Processes -> {"idle", "dup", "clique", "finalize"}]
      BY <2>2 DEF TypeOK
    <3>3. target' \in [Processes -> Comms \cup {Null}]
      BY <2>2 DEF TypeOK
    <3>4. asked' \in [Processes -> Cliques \cup {Null}]
      BY <2>2 DEF TypeOK
    <3>5. joined' \in [Cliques -> SUBSET Processes]
      <4>1. /\ joined \in [Cliques -> SUBSET Processes]
            /\ joined[k] \cup {p} \in SUBSET Processes
        BY DEF TypeOK
      <4> QED
        BY <2>2, <4>1
    <3>6. result' \in [Processes ->
                        {"none", "success", "invalid", "error", "unsupported"}]
      BY DEF BeginCommInitRank, Return, TypeOK
    <3> QED
      BY <1>2, <2>1, <3>1, <3>2, <3>3, <3>4, <3>5, <3>6 DEF TypeOK, Began
  <2>6. \A d \in Comms : Slots(d)' = Slots(d)
    BY <2>3, <2>4 DEF Slots
  <2>7. HandlesOwned'
    BY <2>1, <2>6, SameSlots
  <2>8. SlotKinds'
    BY <2>3, <2>4 DEF SlotKinds
  <2>9. \A q \in Processes, l \in Cliques :
          /\ q \in joined[l] => q \in joined'[l]
          /\ q # p /\ q \in joined'[l] => q \in joined[l]
    <3>1. joined \in [Cliques -> SUBSET Processes]
      BY DEF TypeOK
    <3>2. CASE UNCHANGED joined
      BY <3>2
    <3>3. CASE joined' = [joined EXCEPT ![k] = @ \cup {p}]
      <4>1. /\ joined'[k] = joined[k] \cup {p}
            /\ \A l \in Cliques : l # k => joined'[l] = joined[l]
        BY <3>1, <3>3
      <4> QED
        BY <4>1
    <3> QED
      BY <2>2, <3>2, <3>3
  <2>10. HandlesAsked'
    BY <2>1, <2>9 DEF HandlesAsked
  <2>11. BlockedOn'
    <3>1. OnlyOf(p)
      <4>1. \A d \in Comms : CommHome[d] # p => comm'[d] = comm[d]
        BY <1>2, <2>4
      <4>2. \A q \in Processes \ {p} :
              pc'[q] = pc[q] /\ target'[q] = target[q] /\ asked'[q] = asked[q]
        BY <2>2 DEF TypeOK
      <4> QED
        BY <2>1, <2>9, <4>1, <4>2 DEF OnlyOf
    <3>2. CASE UNCHANGED pc
      <4>1. pc'[p] = "idle"
        BY <1>2, <3>2 DEF Began
      <4> QED
        BY <3>1, <4>1, OthersBlocked DEF BlockedOn
    <3>3. CASE /\ m.intra = Null
               /\ pc' = [pc EXCEPT ![p] = "clique"]
               /\ target' = [target EXCEPT ![p] = c]
               /\ asked' = [asked EXCEPT ![p] = k]
               /\ joined' = [joined EXCEPT ![k] = @ \cup {p}]
      <4>1. /\ pc'[p] = "clique" /\ target'[p] = c /\ asked'[p] = k
            /\ p \in joined'[k]
        BY <3>3 DEF TypeOK
      <4>2. handle[p][<<"ccl", k>>] = "none"
        BY DEF BeginCommInitRank, HandlesAsked
      <4>3. InClique(p)'
        BY <1>2, <2>1, <2>3, <2>4, <3>3, <4>1, <4>2 DEF InClique
      <4> QED
        BY <3>1, <4>1, <4>3, OthersBlocked DEF BlockedOn
    <3> QED
      BY <2>2, <3>2, <3>3
  <2>12. WorldOfSlot'
    <3> SUFFICES ASSUME NEW d \in Comms, comm'[d] # Null, CommHome[d] \notin aborted
                 PROVE  RightWorld(CommHome[d], comm'[d])
      BY <2>1 DEF WorldOfSlot, RightWorld
    <3>1. comm[d] # Null => RightWorld(CommHome[d], comm[d])
      BY DEF WorldOfSlot
    <3> QED
      BY <2>3, <2>4, <3>1 DEF RightWorld
  <2> QED
    BY <1>3, <2>5, <2>7, <2>8, <2>10, <2>11, <2>12
<1> QED
  BY <1>4, <1>5

\* CommInitRank once all ranks of the clique are there.
LEMMA EndCommInitRankIInv ==
  ASSUME IInv, NEW p \in Processes, EndCommInitRank(p)
  PROVE  IInv'
<1> USE DEF IInv
<1>0. pc[p] = "clique" /\ InClique(p)
  BY DEF EndCommInitRank, BlockedOn
<1>1. PICK c \in Comms : c = target[p]
  BY <1>0 DEF InClique
<1>2. PICK k \in Cliques : k = asked[p]
  BY <1>0 DEF InClique
<1>3. PICK h \in {"ccl"} \X Cliques : h = <<"ccl", k>>
  OBVIOUS
<1>4. h \in Handles /\ h # Null /\ h[2] = k
  BY <1>3 DEF Handles
<1> DEFINE m == WithIntra(p, c, k)
<1>5. /\ CommHome[c] = p /\ comm[c] # Null /\ comm[c].intra = Null
      /\ p \in joined[k] /\ handle[p][h] = "none" /\ comm[c] \in Communicator
  BY <1>0, <1>1, <1>2, <1>3 DEF InClique, TypeOK
<1>6. /\ m \in Communicator /\ m.intra = h /\ m.inter = comm[c].inter
      /\ m.rank = CliqueRank[k][p] /\ m.size = CliqueSize[k] /\ m # Null
  <2>1. CliqueRank[k][p] \in Int /\ CliqueSize[k] \in Int
    BY LifecycleAssumption
  <2>2. m = [comm[c] EXCEPT !.rank = CliqueRank[k][p], !.size = CliqueSize[k],
                            !.intra = h]
    BY <1>3 DEF WithIntra
  <2> HIDE DEF m
  <2> QED
    BY <1>4, <1>5, <2>1, <2>2 DEF Communicator
<1>7. /\ comm' = [comm EXCEPT ![c] = m]
      /\ handle' = [handle EXCEPT ![p][h] = "live"]
      /\ pc' = [pc EXCEPT ![p] = "idle"]
      /\ Return(p, "success")
      /\ UNCHANGED <<build, mpi, dangling, target, asked, made, dups, joined,
                     device, aborted>>
  BY <1>1, <1>2, <1>3 DEF EndCommInitRank
<1> HIDE DEF m
<1>8. comm'[c] = m /\ \A d \in Comms : d # c => comm'[d] = comm[d]
  BY <1>7 DEF TypeOK
<1>9. /\ Slots(c)' = Slots(c) \cup {h}
      /\ \A d \in Comms : d # c => Slots(d)' = Slots(d)
  BY <1>4, <1>5, <1>6, <1>8 DEF Slots
<1>10. HandlesOwned'
  BY <1>4, <1>5, <1>7, <1>9, SlotFilled
<1>11. TypeOK'
  <2>1. comm' \in [Comms -> Communicator \cup {Null}]
    BY <1>6, <1>7 DEF TypeOK
  <2>2. handle' \in [Processes ->
                    [Handles -> {"none", "live", "freed", "lost", "twice"}]]
    BY <1>4, <1>7 DEF TypeOK
  <2>3. pc' \in [Processes -> {"idle", "dup", "clique", "finalize"}]
    BY <1>7 DEF TypeOK
  <2>4. result' \in [Processes ->
                      {"none", "success", "invalid", "error", "unsupported"}]
    BY <1>7 DEF Return, TypeOK
  <2> QED
    BY <1>7, <2>1, <2>2, <2>3, <2>4 DEF TypeOK
<1>12. SlotKinds' /\ DupsCounted'
  BY <1>3, <1>5, <1>6, <1>7, <1>8 DEF SlotKinds, DupsCounted
<1>13. BlockedOn'
  <2>1. OnlyOf(p)
    <3>1. \A d \in Comms : CommHome[d] # p => comm'[d] = comm[d]
      BY <1>5, <1>8
    <3>2. \A q \in Processes \ {p} :
            /\ pc'[q] = pc[q] /\ target'[q] = target[q] /\ asked'[q] = asked[q]
            /\ dups'[q] = dups[q]
      BY <1>7 DEF TypeOK
    <3>3. \A q \in Processes \ {p} : handle'[q] = handle[q]
      BY <1>7 DEF TypeOK
    <3> QED
      BY <1>7, <3>1, <3>2, <3>3 DEF OnlyOf
  <2>2. pc'[p] = "idle"
    BY <1>7 DEF TypeOK
  <2> QED
    BY <2>1, <2>2, OthersBlocked DEF BlockedOn
<1>14. HandlesAsked'
  <2>1. \A q \in Processes, g \in Handles :
          ~(q = p /\ g = h) => handle'[q][g] = handle[q][g]
    BY <1>7 DEF TypeOK
  <2>2. ASSUME NEW q \in Processes, NEW i \in 1 .. MaxCalls, i > dups[q]
        PROVE  handle'[q][<<"mpi", i>>] = "none"
    <3>1. <<"mpi", i>> \in Handles /\ <<"mpi", i>> # h
      BY <1>3 DEF Handles
    <3> QED
      BY <2>1, <2>2, <3>1 DEF HandlesAsked
  <2>3. ASSUME NEW q \in Processes, NEW l \in Cliques, q \notin joined[l]
        PROVE  handle'[q][<<"ccl", l>>] = "none"
    <3>1. <<"ccl", l>> \in Handles /\ ~(q = p /\ <<"ccl", l>> = h)
      BY <1>3, <1>5, <2>3 DEF Handles
    <3> QED
      BY <2>1, <2>3, <3>1 DEF HandlesAsked
  <2> QED
    BY <1>7, <2>2, <2>3 DEF HandlesAsked
<1>15. WorldOfSlot'
  <2> SUFFICES ASSUME NEW d \in Comms, comm'[d] # Null, CommHome[d] \notin aborted
               PROVE  RightWorld(CommHome[d], comm'[d])
    BY <1>7 DEF WorldOfSlot, RightWorld
  <2>1. CASE d = c
    BY <1>4, <1>5, <1>6, <1>8, <2>1 DEF RightWorld
  <2>2. CASE d # c
    BY <1>8, <2>2 DEF WorldOfSlot
  <2> QED
    BY <2>1, <2>2
<1> QED
  BY <1>10, <1>11, <1>12, <1>13, <1>14, <1>15

\* CommInitRank when the library answers with an error.
LEMMA FailCommInitRankIInv ==
  ASSUME IInv, NEW p \in Processes, FailCommInitRank(p)
  PROVE  IInv'
<1> USE DEF IInv
<1>1. /\ pc' = [pc EXCEPT ![p] = "idle"] /\ Return(p, "error")
      /\ UNCHANGED <<build, mpi, dangling, target, asked, made, dups, joined,
                     handle, device, aborted>>
  BY DEF FailCommInitRank
<1>2. UNCHANGED comm
  BY DEF FailCommInitRank, AfterCclError, TypeOK
<1>3. TypeOK' /\ DupsCounted'
  BY <1>1, <1>2 DEF TypeOK, DupsCounted, Return
<1>4. \A q \in Processes : pc'[q] \in {"dup", "clique"} => pc'[q] = pc[q]
  BY <1>1 DEF TypeOK
<1> QED
  BY <1>1, <1>2, <1>3, <1>4, QuietIInv

\* CommDestroy on a communicator: hs is what it releases, in Apply and in the
\* destructor or, when MPI is not up, in Apply alone.
LEMMA DestroyIInv ==
  ASSUME IInv, NEW p \in Processes, NEW c \in Comms, NEW hs \in SUBSET Slots(c),
         NEW lost \in MayLose(p, hs),
         Began(p), CommHome[c] = p, SlotKinds', TypeOK', DupsCounted',
         UNCHANGED <<pc, target, asked, dups, joined>>,
         aborted \subseteq aborted',
         handle' = [handle EXCEPT ![p] = Release(hs, lost, @)],
         Slots(c)' = Slots(c) \ hs,
         \A d \in Comms : d # c => comm'[d] = comm[d],
         comm'[c] = Null \/ p \in aborted'
  PROVE  IInv'
<1>1. \A d \in Comms : d # c => Slots(d)' = Slots(d)
  BY DEF Slots
<1>2. /\ HandlesOwned'
      /\ \A q \in Processes, h \in Handles :
           handle[q][h] = "none" => handle'[q][h] = "none"
  BY <1>1, SlotsReleased
<1>3. HandlesAsked'
  BY <1>2 DEF IInv, HandlesAsked, Handles
<1>4. BlockedOn'
  <2>1. OnlyOf(p)
    <3>1. \A q \in Processes \ {p} : handle'[q] = handle[q]
      BY DEF IInv, TypeOK
    <3> QED
      BY <3>1 DEF OnlyOf
  <2>2. pc'[p] = "idle"
    BY DEF Began
  <2> QED
    BY <2>1, <2>2, OthersBlocked DEF BlockedOn
<1>5. WorldOfSlot'
  BY DEF IInv, WorldOfSlot, RightWorld
<1> QED
  BY <1>2, <1>3, <1>4, <1>5 DEF IInv

\* CommDestroy.
LEMMA CommDestroyIInv ==
  ASSUME IInv, NEW p \in Processes, NEW c \in Comms, CommDestroy(p, c)
  PROVE  IInv'
<1> USE DEF IInv
<1>1. /\ Begin(p, [op |-> "CommDestroy", comm |-> c])
      /\ UNCHANGED <<build, mpi, pc, target, asked, dups, joined, device>>
  BY DEF CommDestroy
<1>2. Began(p) /\ CommHome[c] = p
  <2>1. /\ Began(p) /\ made[p] + 1 \in 1 .. MaxCalls
        /\ [op |-> "CommDestroy", comm |-> c] \in Calls[p][made[p] + 1]
    BY <1>1, CallBegins
  <2> QED
    BY <2>1, CallAtHome
<1>3. DupsCounted'
  BY <1>1, <1>2, DupsKept
<1>4. CASE Return(p, "invalid") /\ UNCHANGED <<comm, dangling, handle, aborted>>
  <2>1. TypeOK'
    BY <1>1, <1>2, <1>4 DEF TypeOK, Return, Began
  <2> QED
    BY <1>1, <1>3, <1>4, <2>1, QuietIInv
<1>5. CASE /\ comm[c] # Null
           /\ \E lost \in MayLose(p, Destroyed(c)) :
                handle' = [handle EXCEPT ![p] = Release(Destroyed(c), lost, @)]
           /\ comm' = [comm EXCEPT ![c] = Null]
           /\ dangling' = dangling \cup {c}
           /\ Return(p, "success")
           /\ UNCHANGED aborted
  <2>1. comm'[c] = Null /\ \A d \in Comms : d # c => comm'[d] = comm[d]
    BY <1>5 DEF TypeOK
  <2>2. PICK hs \in SUBSET Slots(c) : hs = Destroyed(c) /\ hs = Slots(c)
    BY DEF Destroyed
  <2>3. Slots(c)' = Slots(c) \ hs
    BY <2>1, <2>2 DEF Slots
  <2>8. PICK lost \in MayLose(p, hs) :
          handle' = [handle EXCEPT ![p] = Release(hs, lost, @)]
    BY <1>5, <2>2
  <2>4. /\ handle' = [handle EXCEPT ![p] = Release(hs, lost, @)]
        /\ \A d \in Comms : d # c => Slots(d)' = Slots(d)
    BY <2>1, <2>8 DEF Slots
  <2>5. TypeOK'
    <3>1. handle' \in [Processes ->
                        [Handles -> {"none", "live", "freed", "lost", "twice"}]]
      BY <1>2, <2>3, <2>4, SlotsReleased
    <3>2. comm' \in [Comms -> Communicator \cup {Null}]
      BY <1>5 DEF TypeOK
    <3>3. result' \in [Processes ->
                        {"none", "success", "invalid", "error", "unsupported"}]
      BY <1>5 DEF TypeOK, Return
    <3> QED
      BY <1>1, <1>2, <1>5, <3>1, <3>2, <3>3 DEF TypeOK, Began
  <2>6. SlotKinds'
    BY <2>1 DEF SlotKinds
  <2>7. aborted \subseteq aborted'
    BY <1>5
  <2> QED
    BY <1>1, <1>2, <1>3, <2>1, <2>3, <2>4, <2>5, <2>6, <2>7, DestroyIInv
<1>6. CASE /\ comm[c] # Null
           /\ \E gone \in {IF BestIsCcl THEN {comm[c].intra} \ {Null} ELSE {}} :
                \E lost \in MayLose(p, gone) :
                  handle' = [handle EXCEPT ![p] = Release(gone, lost, @)]
           /\ comm' = [comm EXCEPT ![c].intra = IF BestIsCcl THEN Null ELSE @]
           /\ Abort(p)
           /\ UNCHANGED dangling
  <2>1. comm[c] \in Communicator
    BY <1>6 DEF TypeOK
  <2>2. PICK hs \in SUBSET Slots(c) :
          hs = IF BestIsCcl THEN {comm[c].intra} \ {Null} ELSE {}
    BY <1>6 DEF Slots
  <2> DEFINE new == IF BestIsCcl THEN Null ELSE comm[c].intra
             m == [comm[c] EXCEPT !.intra = new]
  <2>3. comm' = [comm EXCEPT ![c] = m]
    BY <1>6
  <2>4. /\ m \in Communicator /\ m # Null
        /\ m.inter = comm[c].inter /\ m.intra = new
    <3>1. new \in Handles \cup {Null}
      BY <2>1 DEF Communicator
    <3> HIDE DEF new
    <3>2. m \in Communicator /\ m.inter = comm[c].inter /\ m.intra = new
      BY <2>1, <3>1 DEF Communicator
    <3> QED
      BY <3>2
  <2> HIDE DEF m
  <2>5. comm'[c] = m /\ \A d \in Comms : d # c => comm'[d] = comm[d]
    BY <2>3 DEF TypeOK
  <2>6. SlotKinds'
    BY <1>6, <2>4, <2>5 DEF SlotKinds
  <2>7. Slots(c)' = Slots(c) \ hs
    <3>1. comm[c].inter # Null /\ comm[c].intra # Null
            => comm[c].inter # comm[c].intra
      BY <1>6 DEF SlotKinds
    <3>2. Slots(c) = {comm[c].inter, comm[c].intra} \ {Null}
      BY <1>6 DEF Slots
    <3>3. Slots(c)' = {comm[c].inter, new} \ {Null}
      BY <2>4, <2>5 DEF Slots
    <3> QED
      BY <2>2, <3>1, <3>2, <3>3
  <2>11. PICK lost \in MayLose(p, hs) :
           handle' = [handle EXCEPT ![p] = Release(hs, lost, @)]
    BY <1>6, <2>2
  <2>8. /\ handle' = [handle EXCEPT ![p] = Release(hs, lost, @)]
        /\ \A d \in Comms : d # c => Slots(d)' = Slots(d)
    BY <2>5, <2>11 DEF Slots
  <2>9. /\ p \in aborted' /\ aborted \subseteq aborted'
        /\ aborted' \subseteq Processes
    BY <1>6 DEF Abort, TypeOK
  <2>10. TypeOK'
    <3>1. handle' \in [Processes ->
                        [Handles -> {"none", "live", "freed", "lost", "twice"}]]
      BY <1>2, <2>7, <2>8, SlotsReleased
    <3>2. comm' \in [Comms -> Communicator \cup {Null}]
      BY <2>3, <2>4 DEF TypeOK
    <3> QED
      BY <1>1, <1>2, <1>6, <2>9, <3>1, <3>2 DEF TypeOK, Began, Abort
  <2> QED
    BY <1>1, <1>2, <1>3, <2>5, <2>6, <2>7, <2>8, <2>9, <2>10, DestroyIInv
<1> QED
  BY <1>4, <1>5, <1>6 DEF CommDestroy

-----------------------------------------------------------------------------
\* Every step preserves the invariant.
LEMMA NextIInv == IInv /\ [Next]_vars => IInv'
<1> SUFFICES ASSUME IInv, [Next]_vars PROVE IInv'
  OBVIOUS
<1>1. CASE UNCHANGED vars
  <2>1. TypeOK' /\ DupsCounted'
    BY <1>1 DEF IInv, TypeOK, DupsCounted, vars
  <2> QED
    BY <1>1, <2>1, QuietIInv DEF vars
<1>2. ASSUME NEW p \in Processes, Step(p) PROVE IInv'
  <2>1. CASE InitMpi(p) \/ GetRank(p) \/ BeginFinalize(p) \/ EndFinalize(p)
    BY <2>1, QuietSteps
  <2>2. CASE EndCommInitAll(p)
    BY <2>2, EndCommInitAllIInv
  <2>3. CASE EndCommInitRank(p)
    BY <2>3, EndCommInitRankIInv
  <2>4. CASE \E c \in Comms : BeginCommInitAll(p, c)
    BY <2>4, BeginCommInitAllIInv
  <2>5. CASE \E c \in Comms : CommDestroy(p, c)
    BY <2>5, CommDestroyIInv
  <2>6. CASE \E c \in Comms, k \in Cliques : BeginCommInitRank(p, c, k)
    BY <2>6, BeginCommInitRankIInv
  <2> QED
    BY <1>2, <2>1, <2>2, <2>3, <2>4, <2>5, <2>6 DEF Step
<1>3. ASSUME NEW p \in Processes, Refuse(p) PROVE IInv'
  BY <1>3, QuietSteps
<1>4. ASSUME NEW p \in Processes, FailCommInitRank(p) PROVE IInv'
  BY <1>4, FailCommInitRankIInv
<1>5. ASSUME NEW p \in Processes, NEW c \in Comms, ResetVariable(p, c) PROVE IInv'
  <2>1. TypeOK' /\ DupsCounted'
    BY <1>5 DEF IInv, TypeOK, DupsCounted, ResetVariable
  <2> QED
    BY <1>5, <2>1, QuietIInv DEF ResetVariable
<1> QED
  BY <1>1, <1>2, <1>3, <1>4, <1>5 DEF Next

\* It holds in every state.
LEMMA SpecIInv == Spec => []IInv
<1> QED
  BY InitIInv, NextIInv, PTL DEF Spec

\* The variables have their types, for any number of processes, handle
\* variables, cliques and calls.
THEOREM Typing == Spec => []TypeOK
<1>1. IInv => TypeOK
  BY DEF IInv
<1> QED
  BY <1>1, SpecIInv, PTL

\* Nothing is shared or released twice: CommDestroy in Apply and the
\* destructor of Communicator together release each handle once, after any
\* calls of callers that use no variable they have destroyed and after any
\* failures of the vendor libraries.  A handle is left behind only where the
\* vendor's own CommDestroy fails, whose status the code drops.
THEOREM NothingLeaked == Spec => []HandlesOwned
<1>1. IInv => HandlesOwned
  BY DEF IInv
<1> QED
  BY <1>1, SpecIInv, PTL

\* The rank and size CommInitAll and CommInitRank write into the one
\* Communicator are always those of a slot it has.
THEOREM RightRankAndSize == Spec => []WorldOfSlot
<1>1. IInv => WorldOfSlot
  BY DEF IInv
<1> QED
  BY <1>1, SpecIInv, PTL

\* No step of any process fills a slot that is filled.
THEOREM NoSlotFilledTwice == Spec => SlotsKept
<1> DEFINE Kept(c) ==
      comm[c] # Null /\ comm'[c] # Null =>
        /\ comm[c].inter # Null => comm'[c].inter = comm[c].inter
        /\ comm[c].intra # Null => comm'[c].intra \in {comm[c].intra, Null}
<1>1. ASSUME IInv, Next, NEW c \in Comms PROVE Kept(c)
  <2>1. comm \in [Comms -> Communicator \cup {Null}]
    BY <1>1 DEF IInv, TypeOK
  <2>2. CASE comm'[c] = comm[c]
    BY <2>2
  <2>3. ASSUME NEW p \in Processes, EndCommInitAll(p) PROVE Kept(c)
    <3>1. CASE c = target[p]
      <4>1. comm[c].inter = Null
        BY <1>1, <2>3, <3>1 DEF EndCommInitAll, IInv, BlockedOn, InDup
      <4>2. comm'[c] = WithInter(p, c)
        BY <2>1, <2>3, <3>1 DEF EndCommInitAll
      <4>3. comm[c] # Null => comm'[c].intra = comm[c].intra
        BY <2>1, <4>2 DEF WithInter, Communicator
      <4> QED
        BY <4>1, <4>3
    <3>2. CASE c # target[p]
      BY <2>1, <2>3, <3>2 DEF EndCommInitAll
    <3> QED
      BY <3>1, <3>2
  <2>4. ASSUME NEW p \in Processes, EndCommInitRank(p) PROVE Kept(c)
    <3>1. CASE c = target[p]
      <4>1. comm[c].intra = Null
        BY <1>1, <2>4, <3>1 DEF EndCommInitRank, IInv, BlockedOn, InClique
      <4>2. comm'[c] = WithIntra(p, c, asked[p])
        BY <2>1, <2>4, <3>1 DEF EndCommInitRank
      <4>3. comm[c] # Null => comm'[c].inter = comm[c].inter
        BY <2>1, <4>2 DEF WithIntra, Communicator
      <4> QED
        BY <4>1, <4>3
    <3>2. CASE c # target[p]
      BY <2>1, <2>4, <3>2 DEF EndCommInitRank
    <3> QED
      BY <3>1, <3>2
  <2>5. ASSUME NEW p \in Processes, NEW d \in Comms, BeginCommInitAll(p, d)
        PROVE  Kept(c)
    BY <2>1, <2>5 DEF BeginCommInitAll, Allocated
  <2>6. ASSUME NEW p \in Processes, NEW d \in Comms, NEW k \in Cliques,
               BeginCommInitRank(p, d, k)
        PROVE  Kept(c)
    <3>1. \/ UNCHANGED comm
          \/ comm' = [comm EXCEPT ![d] = [Allocated(d, 0) EXCEPT !.dev = device[p]]]
      BY <2>6 DEF BeginCommInitRank
    <3>2. CASE c = d /\ comm[c] # Null /\ ~UNCHANGED comm
      <4>1. comm'[c] = [comm[c] EXCEPT !.dev = device[p]]
        BY <2>1, <3>1, <3>2 DEF Allocated
      <4> QED
        BY <2>1, <3>2, <4>1 DEF Communicator
    <3> QED
      BY <2>1, <3>1, <3>2
  <2>7. ASSUME NEW p \in Processes, NEW d \in Comms, CommDestroy(p, d)
        PROVE  Kept(c)
    <3>1. \/ UNCHANGED comm
          \/ comm' = [comm EXCEPT ![d] = Null]
          \/ comm' = [comm EXCEPT ![d].intra = IF BestIsCcl THEN Null ELSE @]
      BY <2>7 DEF CommDestroy
    <3>2. CASE c = d /\ comm[c] # Null
               /\ comm' = [comm EXCEPT ![d].intra = IF BestIsCcl THEN Null ELSE @]
      <4>1. comm'[c] = [comm[c] EXCEPT !.intra = IF BestIsCcl THEN Null ELSE @]
        BY <2>1, <3>2
      <4> QED
        BY <2>1, <3>2, <4>1 DEF Communicator
    <3> QED
      BY <2>1, <3>1, <3>2
  <2>8. ASSUME NEW p \in Processes,
               \/ Refuse(p) \/ InitMpi(p) \/ GetRank(p) \/ BeginFinalize(p)
               \/ EndFinalize(p) \/ FailCommInitRank(p)
        PROVE  comm'[c] = comm[c]
    <3>1. CASE FailCommInitRank(p)
      BY <2>1, <3>1 DEF FailCommInitRank, AfterCclError
    <3>2. CASE Refuse(p)
      BY <3>2 DEF Refuse
    <3> QED
      BY <2>8, <3>1, <3>2 DEF InitMpi, GetRank, BeginFinalize, EndFinalize
  <2>9. ASSUME NEW p \in Processes, NEW d \in Comms, ResetVariable(p, d)
        PROVE  comm'[c] = comm[c]
    BY <2>9 DEF ResetVariable
  <2> QED
    BY <1>1, <2>2, <2>3, <2>4, <2>5, <2>6, <2>7, <2>8, <2>9 DEF Next, Step
<1>2. IInv /\ [Next]_vars => [\A c \in Comms : Kept(c)]_vars
  BY <1>1
<1> QED
  BY <1>2, SpecIInv, PTL DEF Spec, SlotsKept
=============================================================================
