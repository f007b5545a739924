----------------------- MODULE CnclRendezvous_proofs -----------------------
(***************************************************************************)
(* The coordinator of CnclRendezvous is correct for any number of          *)
(* processes, threads, communicators, cliques and calls.                   *)
(***************************************************************************)
EXTENDS CnclRendezvous, TLAPS

\* The calls of a thread are on communicators of its process.
ProgramsAtHome ==
  \A t \in Threads : \A i \in DOMAIN prog[t] : CommHome[prog[t][i].comm] = Home[t]

\* A thread in Apply has the request of its current call, on a communicator
\* of its process.
RequestInFrame ==
  \A t \in Threads : pc[t] # "idle" =>
    /\ req[t] \in Request
    /\ CommHome[req[t].comm] = Home[t]
    /\ pc[t] = "enter" => ~req[t].done
    /\ prog[t] # <<>>
    /\ req[t].comm = Head(prog[t]).comm
    /\ req[t].clique = Head(prog[t]).clique
    /\ req[t].nranks = Head(prog[t]).nranks
    /\ req[t].rank = Head(prog[t]).rank

\* One thread of a process holds the mutex at a time.
MutualExclusion ==
  \A t, u \in Threads :
    (Home[t] = Home[u] /\ pc[t] \in {"loop", "init"} /\ pc[u] \in {"loop", "init"})
      => t = u

\* While a thread is in cnclInitComms, its group stays as it was validated.
GroupStaysValid ==
  \A t \in Threads : pc[t] = "init" =>
    /\ t \in active[Home[t]]
    /\ Cardinality(active[Home[t]]) = group[Home[t]].expected
    /\ group[Home[t]].clique \in Cliques
    /\ \E x \in joined[group[Home[t]].clique] : x[1] = Home[t]
    /\ \A u \in active[Home[t]] : comms[req[u].comm].intra = Null
    /\ \A u, v \in active[Home[t]] : u # v =>
         req[u].comm # req[v].comm /\ req[u].rank # req[v].rank
    /\ \A c \in Comms :
         CommHome[c] = Home[t] => comms[c].intra # group[Home[t]].clique

\* A request answered with success has its communicator in the clique.
AnsweredIsMember ==
  \A t \in Threads :
    InCall(t) /\ req[t].done /\ req[t].status = "success" =>
      /\ comms[req[t].comm].intra = req[t].clique
      /\ comms[req[t].comm].rank = req[t].rank
      /\ comms[req[t].comm].size = req[t].nranks

\* A handle of a clique comes from a cnclInitComms of its process.
HandlesUsed ==
  \A c \in Comms : comms[c].intra # Null =>
    \E x \in joined[comms[c].intra] : x[1] = CommHome[c]

IInv == /\ TypeOK /\ ProgramsAtHome /\ RequestInFrame /\ MutualExclusion
        /\ GroupStaysValid /\ AnsweredIsMember /\ HandlesUsed
        /\ CliqueRanksDistinct
        /\ NoDanglingRequest /\ OneActiveGroup /\ NoLostWakeup

USE ThreadsAssumption, CommAssumption

------------------------------------------------------------------------------
\* The invariant holds initially.
LEMMA InitIInv == Init => IInv
<1> SUFFICES ASSUME Init PROVE IInv
  OBVIOUS
<1> USE DEF Init
<1>1. TypeOK
  BY ProgramsAssumption DEF TypeOK, Locations, Key
<1>2. ProgramsAtHome
  BY ProgramsAssumption DEF ProgramsAtHome
<1>3. NoDanglingRequest /\ OneActiveGroup /\ NoLostWakeup
  BY DEF NoDanglingRequest, OneActiveGroup, NoLostWakeup, InCall
<1>4. RequestInFrame /\ MutualExclusion /\ GroupStaysValid /\ AnsweredIsMember
  BY DEF RequestInFrame, MutualExclusion, GroupStaysValid, AnsweredIsMember, InCall
<1>5. HandlesUsed /\ CliqueRanksDistinct
  BY DEF HandlesUsed, CliqueRanksDistinct
<1>6. QED
  BY <1>1, <1>2, <1>3, <1>4, <1>5 DEF IInv

\* What is known of a request in the coordinator's vectors.
LEMMA Queued ==
  ASSUME IInv, NEW q \in Processes, NEW u \in active[q] \cup deferred[q]
  PROVE  /\ u \in Threads /\ Home[u] = q
         /\ pc[u] \in {"loop", "init", "waiting", "notified"}
         /\ req[u] \in Request /\ ~req[u].done /\ req[u].comm \in Comms
         /\ CommHome[req[u].comm] = q
<1>1. u \in Threads
  BY DEF IInv, TypeOK
<1>2. Home[u] = q /\ InCall(u) /\ ~req[u].done
  BY <1>1 DEF IInv, NoDanglingRequest
<1>3. QED
  BY <1>1, <1>2 DEF IInv, RequestInFrame, InCall, Request

\* The calls that are refused, and the first half of the others.
LEMMA HeadIsCall ==
  ASSUME IInv, NEW t \in Threads, prog[t] # <<>>
  PROVE  /\ Head(prog[t]) \in Call
         /\ CommHome[Head(prog[t]).comm] = Home[t]
         /\ Tail(prog[t]) \in Seq(Call)
         /\ \A i \in DOMAIN Tail(prog[t]) : CommHome[Tail(prog[t])[i].comm] = Home[t]
<1>1. prog[t] \in Seq(Call) /\ Len(prog[t]) > 0
  BY DEF IInv, TypeOK
<1>2. Head(prog[t]) = prog[t][1] /\ 1 \in DOMAIN prog[t]
  BY <1>1
<1>3. \A i \in DOMAIN Tail(prog[t]) : Tail(prog[t])[i] = prog[t][i + 1] /\ i + 1 \in DOMAIN prog[t]
  BY <1>1
<1>4. QED
  BY <1>1, <1>2, <1>3 DEF IInv, ProgramsAtHome

\* The communicators keep their type when a call stores its device.
LEMMA DeviceTyped ==
  ASSUME comms \in [Comms -> Communicator], NEW call \in Call
  PROVE  LET after == [comms EXCEPT ![call.comm].dev = call.dev] IN
         /\ after \in [Comms -> Communicator]
         /\ \A c \in Comms : /\ after[c].intra = comms[c].intra
                             /\ after[c].rank = comms[c].rank
                             /\ after[c].size = comms[c].size
<1>1. call.comm \in Comms /\ call.dev \in Int
  BY DEF Call
<1>2. [comms[call.comm] EXCEPT !.dev = call.dev] \in Communicator
  BY <1>1 DEF Communicator
<1>3. QED
  BY <1>1, <1>2 DEF Communicator

\* Steps that give no handle.
LEMMA HandlesKept ==
  ASSUME IInv, \A c \in Comms : comms'[c].intra = comms[c].intra /\ comms'[c].rank = comms[c].rank,
         \A k \in Cliques : joined[k] \subseteq joined'[k]
  PROVE  HandlesUsed' /\ CliqueRanksDistinct'
<1>1. \A c \in Comms : comms[c].intra \in Cliques \cup {Null}
  BY DEF IInv, TypeOK, Communicator
<1>2. QED
  BY <1>1 DEF IInv, HandlesUsed, CliqueRanksDistinct

\* A call that ends before the lock.
EndsEarly(t) == RefuseNull(t) \/ GetDeviceFails(t) \/ Refuse(t)

LEMMA EarlyEffect ==
  ASSUME NEW t \in Threads, EndsEarly(t)
  PROVE  /\ pc[t] = "idle" /\ prog[t] # <<>>
         /\ \E s \in {"invalid", "error"} : result' = [result EXCEPT ![t] = s]
         /\ prog' = [prog EXCEPT ![t] = Tail(@)]
         /\ \/ comms' = comms
            \/ comms' = [comms EXCEPT ![Head(prog[t]).comm].dev = Head(prog[t]).dev]
         /\ UNCHANGED <<pc, req, active, deferred, ahead, group, hasActive, joined,
                        aborted, spurious>>
BY DEF EndsEarly, RefuseNull, GetDeviceFails, Refuse, Refused, Calls, coordinator

LEMMA EarlyIInv == ASSUME IInv, NEW t \in Threads, EndsEarly(t) PROVE IInv'
<1> USE DEF IInv
<1>0. /\ pc[t] = "idle" /\ prog[t] # <<>> /\ prog' = [prog EXCEPT ![t] = Tail(@)]
      /\ UNCHANGED <<pc, req, active, deferred, ahead, group, hasActive, joined,
                     aborted, spurious>>
  BY EarlyEffect
<1>a. /\ comms' \in [Comms -> Communicator]
      /\ \A c \in Comms : /\ comms'[c].intra = comms[c].intra
                          /\ comms'[c].rank = comms[c].rank
                          /\ comms'[c].size = comms[c].size
  <2>1. Head(prog[t]) \in Call
    BY <1>0, HeadIsCall
  <2>2. CASE comms' = comms
    BY <2>2 DEF TypeOK
  <2>3. CASE comms' = [comms EXCEPT ![Head(prog[t]).comm].dev = Head(prog[t]).dev]
    BY <2>1, <2>3, DeviceTyped DEF TypeOK
  <2> QED
    BY <2>2, <2>3, EarlyEffect
<1>1. TypeOK'
  <2>1. result' \in [Threads -> {"none", "success", "invalid", "error"}]
    BY EarlyEffect DEF TypeOK
  <2> QED
    BY <1>0, <1>a, <2>1, HeadIsCall DEF TypeOK
<1>2. ProgramsAtHome'
  BY <1>0, HeadIsCall DEF ProgramsAtHome, TypeOK
<1>3. RequestInFrame' /\ MutualExclusion'
  BY <1>0 DEF RequestInFrame, MutualExclusion, TypeOK
<1>4. GroupStaysValid'
  <2>1. \A q \in Processes : \A u \in active[q] : req[u].comm \in Comms
    BY Queued
  <2> QED
    BY <1>0, <1>a, <2>1 DEF GroupStaysValid
<1>5. NoDanglingRequest' /\ OneActiveGroup' /\ NoLostWakeup'
  BY <1>0 DEF NoDanglingRequest, OneActiveGroup, NoLostWakeup, InCall, IsSameGroup, KeyOf
<1>6. AnsweredIsMember'
  BY <1>0, <1>a DEF AnsweredIsMember, RequestInFrame, InCall, Request
<1>7. HandlesUsed' /\ CliqueRanksDistinct'
  BY <1>0, <1>a, HandlesKept
<1>8. QED
  BY <1>1, <1>2, <1>3, <1>4, <1>5, <1>6, <1>7

\* A call that builds its request.
LEMMA EnterIInv == ASSUME IInv, NEW t \in Threads, Enter(t) PROVE IInv'
<1> USE DEF IInv, Enter, Calls, coordinator
<1> DEFINE call == Head(prog[t])
<1>0. call \in Call /\ CommHome[call.comm] = Home[t]
  BY HeadIsCall
<1>a. /\ comms' \in [Comms -> Communicator]
      /\ \A c \in Comms : /\ comms'[c].intra = comms[c].intra
                          /\ comms'[c].rank = comms[c].rank
                          /\ comms'[c].size = comms[c].size
  BY <1>0, DeviceTyped DEF TypeOK
<1>b. NewRequest(call) \in Request /\ NewRequest(call).comm = call.comm
        /\ NewRequest(call).clique = call.clique
        /\ NewRequest(call).nranks = call.nranks
        /\ NewRequest(call).rank = call.rank
        /\ NewRequest(call).done = FALSE
  <2>1. ExpectedLocalRanks(comms[call.comm], call.nranks) \in Int
    BY <1>0 DEF PreCheck
  <2>2. QED
    BY <1>0, <2>1 DEF NewRequest, Request, Call
<1>c. req' = [req EXCEPT ![t] = NewRequest(call)] /\ req' \in [Threads -> Request \cup {Null}]
  BY <1>b DEF TypeOK
<1>d. pc' = [pc EXCEPT ![t] = "enter"] /\ pc[t] = "idle" /\ pc \in [Threads -> Locations]
        /\ pc' \in [Threads -> Locations]
  BY DEF TypeOK, Locations
<1>f. prog[t] # <<>> /\ call = Head(prog[t])
  OBVIOUS
<1> HIDE DEF Enter, call
<1>e. UNCHANGED <<prog, result, active, deferred, ahead, group, hasActive, joined, aborted, spurious>>
  BY DEF Enter
<1>1. TypeOK'
  BY <1>a, <1>c, <1>d, <1>e DEF TypeOK
<1>2. ProgramsAtHome'
  BY <1>e DEF ProgramsAtHome
<1>3. RequestInFrame'
  BY <1>0, <1>b, <1>c, <1>d, <1>e, <1>f DEF RequestInFrame, TypeOK
<1>4. MutualExclusion'
  BY <1>d DEF MutualExclusion
<1>5. \A p \in Processes : t \notin active[p] \cup deferred[p]
  BY <1>d DEF NoDanglingRequest, InCall
<1>6. NoDanglingRequest'
  BY <1>5, <1>b, <1>c, <1>d, <1>e DEF NoDanglingRequest, InCall, TypeOK
<1>7. OneActiveGroup'
  <2>1. \A u \in Threads : u # t => req'[u] = req[u]
    BY <1>c DEF TypeOK
  <2>2. QED
    BY <1>5, <2>1, <1>e, Queued DEF OneActiveGroup, IsSameGroup, KeyOf
<1>8. NoLostWakeup'
  BY <1>5, <1>c, <1>d, <1>e DEF NoLostWakeup, TypeOK
<1>9. GroupStaysValid'
  <2>1. \A u \in Threads : u # t => req'[u] = req[u]
    BY <1>c DEF TypeOK
  <2>2. \A u \in Threads : pc'[u] = "init" => pc[u] = "init"
    BY <1>d
  <2>3. \A q \in Processes : \A u \in active[q] : req'[u] = req[u] /\ req[u].comm \in Comms
    BY <2>1, <1>5, Queued
  <2>4. QED
    BY <1>a, <1>e, <2>2, <2>3 DEF GroupStaysValid
<1>10. AnsweredIsMember'
  <2>1. \A u \in Threads : InCall(u)' => InCall(u) /\ req'[u] = req[u]
    BY <1>c, <1>d DEF InCall, TypeOK
  <2>2. QED
    BY <1>a, <2>1 DEF AnsweredIsMember, RequestInFrame, InCall, Request
<1>11. HandlesUsed' /\ CliqueRanksDistinct'
  BY <1>a, <1>e, HandlesKept
<1>12. QED
  BY <1>1, <1>2, <1>3, <1>4, <1>6, <1>7, <1>8, <1>9, <1>10, <1>11 DEF IInv

\* Taking the mutex and pushing the request.
LEMMA JoinActiveIInv == ASSUME IInv, NEW t \in Threads, JoinActive(t) PROVE IInv'
<1> USE DEF IInv, JoinActive, coordinator
<1> DEFINE p == Home[t]
<1>0. p \in Processes /\ req[t] \in Request /\ ~req[t].done
        /\ \A q \in Processes : t \notin active[q] \cup deferred[q]
  BY DEF RequestInFrame, NoDanglingRequest, InCall
<1>a. KeyOf(t) \in Key
  BY <1>0 DEF KeyOf, Key, Request
<1>b. hasActive[p] => group' = group
  BY <1>0 DEF IsSameGroup, TypeOK
<1>1. TypeOK'
  BY <1>0, <1>a DEF TypeOK, Locations
<1>2. ProgramsAtHome' /\ RequestInFrame'
  BY DEF ProgramsAtHome, RequestInFrame, TypeOK
<1>3. MutualExclusion'
  BY DEF MutualExclusion, MutexFree, TypeOK
<1>4. NoDanglingRequest'
  BY <1>0 DEF NoDanglingRequest, InCall, TypeOK
<1>5. OneActiveGroup'
  <2>1. \A u \in Threads : KeyOf(u)' = KeyOf(u)
    BY DEF KeyOf
  <2>2. group'[p] = KeyOf(t) /\ active'[p] = active[p] \cup {t} /\ hasActive'[p]
    BY <1>0 DEF TypeOK
  <2>3. \A q \in Processes : q # p =>
          group'[q] = group[q] /\ active'[q] = active[q] /\ hasActive'[q] = hasActive[q]
    BY DEF TypeOK
  <2>4. hasActive[p] => group[p] = KeyOf(t)
    BY DEF IsSameGroup
  <2>5. (\A u \in active[p] : KeyOf(u) = KeyOf(t)) /\ (\A u \in deferred[p] : KeyOf(u) # KeyOf(t))
    BY <1>0, <2>4, Queued DEF OneActiveGroup, IsSameGroup
  <2>6. \A u \in active'[p] : IsSameGroup(u)'
    BY <1>0, <2>1, <2>2, <2>5, Queued DEF IsSameGroup
  <2>7. \A u \in deferred[p] : ~IsSameGroup(u)'
    BY <1>0, <2>1, <2>2, <2>5, Queued DEF IsSameGroup
  <2>8. \A q \in Processes : q # p =>
          (\A u \in active[q] : IsSameGroup(u)') /\ (\A u \in deferred[q] : ~IsSameGroup(u)')
    BY <2>1, <2>3, Queued DEF OneActiveGroup, IsSameGroup
  <2>9. QED
    BY <1>0, <2>2, <2>3, <2>6, <2>7, <2>8 DEF OneActiveGroup
<1>6. NoLostWakeup'
  <2>1. t \in active'[p] /\ pc'[t] = "loop" /\ (\A u \in Threads : u # t => pc'[u] = pc[u])
    BY <1>0 DEF TypeOK
  <2>2. \A q \in Processes : q # p => group'[q] = group[q] /\ active'[q] = active[q]
    BY DEF TypeOK
  <2>3. \A q \in Processes : q # p => t \notin active[q]
    BY <1>0
  <2>4. QED
    BY <1>0, <2>1, <2>2, <2>3, Queued DEF NoLostWakeup
<1>7. GroupStaysValid'
  BY <1>0 DEF GroupStaysValid, MutexFree, TypeOK
<1>8. AnsweredIsMember'
  BY <1>0 DEF AnsweredIsMember, InCall, TypeOK
<1>9. HandlesUsed' /\ CliqueRanksDistinct'
  BY HandlesKept
<1>10. QED
  BY <1>1, <1>2, <1>3, <1>4, <1>5, <1>6, <1>7, <1>8, <1>9

\* The same for a request of another group than the active one.
LEMMA JoinDeferredIInv == ASSUME IInv, NEW t \in Threads, JoinDeferred(t) PROVE IInv'
<1> USE DEF IInv, JoinDeferred, coordinator
<1> DEFINE p == Home[t]
<1>0. p \in Processes /\ req[t] \in Request /\ ~req[t].done
        /\ \A q \in Processes : t \notin active[q] \cup deferred[q]
  BY DEF RequestInFrame, NoDanglingRequest, InCall
<1>1. TypeOK'
  BY <1>0 DEF TypeOK, Locations
<1>2. ProgramsAtHome' /\ RequestInFrame'
  BY DEF ProgramsAtHome, RequestInFrame, TypeOK
<1>3. MutualExclusion'
  BY DEF MutualExclusion, MutexFree, TypeOK
<1>4. NoDanglingRequest'
  BY <1>0 DEF NoDanglingRequest, InCall, TypeOK
<1>5. OneActiveGroup'
  BY <1>0 DEF OneActiveGroup, IsSameGroup, KeyOf, TypeOK
<1>6. NoLostWakeup'
  BY <1>0 DEF NoLostWakeup, OneActiveGroup, TypeOK
<1>7. GroupStaysValid'
  BY <1>0 DEF GroupStaysValid, MutexFree, TypeOK
<1>8. AnsweredIsMember'
  BY <1>0 DEF AnsweredIsMember, InCall, TypeOK
<1>9. HandlesUsed' /\ CliqueRanksDistinct'
  BY HandlesKept
<1>10. QED
  BY <1>1, <1>2, <1>3, <1>4, <1>5, <1>6, <1>7, <1>8, <1>9

\* Waiting, waking and returning.
LEMMA WaitIInv == ASSUME IInv, NEW t \in Threads, Wait(t) PROVE IInv'
<1> USE DEF IInv, Wait, coordinator
<1>1. TypeOK'
  BY DEF TypeOK, Locations
<1>2. ProgramsAtHome' /\ RequestInFrame' /\ MutualExclusion' /\ GroupStaysValid' /\ AnsweredIsMember'
  BY DEF ProgramsAtHome, RequestInFrame, MutualExclusion, GroupStaysValid, AnsweredIsMember, InCall, TypeOK
<1>3. NoDanglingRequest' /\ OneActiveGroup'
  BY DEF NoDanglingRequest, InCall, OneActiveGroup, IsSameGroup, KeyOf, TypeOK
<1>4. NoLostWakeup'
  <2>1. ASSUME NEW q \in Processes, t \in active[q]
        PROVE  Cardinality(active[q]) # group[q].expected
    BY <2>1, Queued DEF OneActiveGroup, GroupComplete, IsSameGroup, KeyOf
  <2>2. pc'[t] = "waiting" /\ (\A u \in Threads : u # t => pc'[u] = pc[u])
    BY DEF TypeOK
  <2>3. QED
    BY <2>1, <2>2, Queued DEF NoLostWakeup
<1>5. HandlesUsed' /\ CliqueRanksDistinct'
  BY HandlesKept
<1>6. QED
  BY <1>1, <1>2, <1>3, <1>4, <1>5

\* A wait that ends, notified or spuriously.
LEMMA WakeIInv ==
  ASSUME IInv, NEW t \in Threads, Wake(t) \/ SpuriousWake(t) PROVE IInv'
<1> USE DEF IInv, coordinator
<1>0. /\ pc[t] \in {"waiting", "notified"} /\ MutexFree(Home[t])
      /\ pc' = [pc EXCEPT ![t] = "loop"]
      /\ UNCHANGED <<prog, req, result, comms, active, deferred, ahead, group,
                     hasActive, joined, aborted>>
      /\ spurious' \in Nat
  BY DEF Wake, SpuriousWake, TypeOK
<1>1. TypeOK'
  BY <1>0 DEF TypeOK, Locations
<1>2. ProgramsAtHome' /\ RequestInFrame' /\ MutualExclusion' /\ GroupStaysValid' /\ AnsweredIsMember'
  BY <1>0 DEF ProgramsAtHome, RequestInFrame, MutualExclusion, MutexFree, GroupStaysValid, AnsweredIsMember, InCall, TypeOK
<1>3. NoDanglingRequest'
  BY <1>0 DEF NoDanglingRequest, InCall, TypeOK
<1>4. OneActiveGroup'
  BY <1>0 DEF OneActiveGroup, IsSameGroup, KeyOf
<1>5. NoLostWakeup'
  <2>1. pc'[t] = "loop" /\ (\A u \in Threads : u # t => pc'[u] = pc[u])
    BY <1>0 DEF TypeOK
  <2>2. QED
    BY <1>0, <2>1, Queued DEF NoLostWakeup
<1>6. HandlesUsed' /\ CliqueRanksDistinct'
  BY <1>0, HandlesKept
<1>7. QED
  BY <1>1, <1>2, <1>3, <1>4, <1>5, <1>6

\* A call that returns its answer.
LEMMA ReturnIInv == ASSUME IInv, NEW t \in Threads, Return(t) PROVE IInv'
<1> USE DEF IInv, Return, coordinator
<1>0. /\ prog[t] # <<>> /\ Tail(prog[t]) \in Seq(Call)
      /\ \A i \in DOMAIN Tail(prog[t]) : CommHome[Tail(prog[t])[i].comm] = Home[t]
      /\ req[t] \in Request
  BY HeadIsCall DEF RequestInFrame
<1>a. \A q \in Processes : t \notin active[q] \cup deferred[q]
  BY Queued
<1>b. /\ pc' = [pc EXCEPT ![t] = "idle"] /\ pc[t] = "loop" /\ pc \in [Threads -> Locations]
      /\ prog' = [prog EXCEPT ![t] = Tail(prog[t])] /\ prog \in [Threads -> Seq(Call)]
      /\ UNCHANGED <<req, comms, active, deferred, ahead, group, hasActive,
                     joined, aborted, spurious>>
  BY DEF TypeOK
<1>1. TypeOK'
  BY <1>0 DEF TypeOK, Locations, Request
<1> HIDE DEF Return
<1>2. ProgramsAtHome'
  BY <1>0, <1>b DEF ProgramsAtHome
<1>3. RequestInFrame' /\ MutualExclusion' /\ AnsweredIsMember'
  BY <1>b DEF RequestInFrame, MutualExclusion, AnsweredIsMember, InCall
<1>4. GroupStaysValid'
  BY <1>b DEF GroupStaysValid
<1>5. NoDanglingRequest'
  BY <1>a, <1>b DEF NoDanglingRequest, InCall
<1>6. OneActiveGroup'
  BY <1>b DEF OneActiveGroup, IsSameGroup, KeyOf
<1>7. NoLostWakeup'
  BY <1>a, <1>b DEF NoLostWakeup
<1>8. HandlesUsed' /\ CliqueRanksDistinct'
  BY <1>b, HandlesKept
<1>9. QED
  BY <1>1, <1>2, <1>3, <1>4, <1>5, <1>6, <1>7, <1>8 DEF IInv

\* A thread that sees its group complete belongs to the active group.
LEMMA CompleterIsMember ==
  ASSUME IInv, NEW t \in Threads, pc[t] = "loop", ~req[t].done, GroupComplete(t)
  PROVE  t \in active[Home[t]]
BY DEF IInv, GroupComplete, NoDanglingRequest, InCall, OneActiveGroup

\* What the end of CompleteGroup leaves in the coordinator.
LEMMA EndGroupEffect ==
  ASSUME IInv, NEW t \in Threads, t \in active[Home[t]], pc[t] \in {"loop", "init"},
         NEW status \in {"success", "invalid"}, EndGroup(t, status),
         NEW p, p = Home[t]
  PROVE  /\ req' \in [Threads -> Request \cup {Null}]
         /\ pc' \in [Threads -> Locations]
         /\ \A u \in Threads :
              /\ u \in active[p] => /\ req'[u] \in Request
                                    /\ req'[u].done /\ req'[u].status = status
                                    /\ req'[u].comm = req[u].comm
                                    /\ req'[u].clique = req[u].clique
                                    /\ req'[u].nranks = req[u].nranks
                                    /\ req'[u].rank = req[u].rank
                                    /\ req'[u].expected = req[u].expected
              /\ u \notin active[p] => req'[u] = req[u]
              /\ u = t => pc'[u] = "loop"
              /\ u # t /\ Home[u] = p /\ pc[u] = "waiting" => pc'[u] = "notified"
              /\ u # t /\ ~(Home[u] = p /\ pc[u] = "waiting") => pc'[u] = pc[u]
              /\ InCall(u)' <=> InCall(u)
         /\ \A q \in Processes : q # p =>
              /\ active'[q] = active[q] /\ deferred'[q] = deferred[q]
              /\ group'[q] = group[q] /\ hasActive'[q] = hasActive[q]
         /\ active'[p] \cup deferred'[p] = deferred[p]
         /\ active' \in [Processes -> SUBSET Threads]
         /\ deferred' \in [Processes -> SUBSET Threads]
         /\ group' \in [Processes -> Key]
         /\ hasActive' \in [Processes -> BOOLEAN]
         /\ hasActive'[p] <=> active'[p] # {}
         /\ deferred'[p] # {} => hasActive'[p]
         /\ \A u \in active'[p] : KeyOf(u) = group'[p]
         /\ \A u \in deferred'[p] : KeyOf(u) # group'[p]
         /\ UNCHANGED <<prog, result, ahead, aborted, spurious>>
<1> USE DEF IInv
<1>0. p \in Processes
  OBVIOUS
<1>1. \A u \in active[p] : u \in Threads /\ req[u] \in Request
  BY <1>0, Queued
<1>2. /\ req' \in [Threads -> Request \cup {Null}]
      /\ \A u \in Threads :
              /\ u \in active[p] => /\ req'[u] \in Request
                                    /\ req'[u].done /\ req'[u].status = status
                                    /\ req'[u].comm = req[u].comm
                                    /\ req'[u].clique = req[u].clique
                                    /\ req'[u].nranks = req[u].nranks
                                    /\ req'[u].rank = req[u].rank
                                    /\ req'[u].expected = req[u].expected
              /\ u \notin active[p] => req'[u] = req[u]
  <2>1. \A u \in active[p] :
          LET r == [req[u] EXCEPT !.status = status, !.done = TRUE] IN
          /\ r \in Request /\ r.done /\ r.status = status /\ r.comm = req[u].comm
          /\ r.clique = req[u].clique /\ r.nranks = req[u].nranks
          /\ r.rank = req[u].rank /\ r.expected = req[u].expected
    BY <1>1 DEF Request
  <2>2. req' = [u \in Threads |->
       IF u \in active[p] THEN [req[u] EXCEPT !.status = status, !.done = TRUE]
       ELSE req[u]]
    BY DEF EndGroup
  <2>3. QED
    BY <2>1, <2>2 DEF TypeOK
<1>3. /\ pc' \in [Threads -> Locations]
      /\ \A u \in Threads :
              /\ u = t => pc'[u] = "loop"
              /\ u # t /\ Home[u] = p /\ pc[u] = "waiting" => pc'[u] = "notified"
              /\ u # t /\ ~(Home[u] = p /\ pc[u] = "waiting") => pc'[u] = pc[u]
              /\ InCall(u)' <=> InCall(u)
  BY DEF EndGroup, NotifyAll, TypeOK, Locations, InCall
<1>4. CASE deferred[p] = {}
  <2>1. /\ hasActive' = [hasActive EXCEPT ![p] = FALSE]
        /\ active' = [active EXCEPT ![p] = {}]
        /\ UNCHANGED <<deferred, group>>
    BY <1>4 DEF EndGroup, StartDeferredGroup
  <2>2. QED
    BY <1>0, <1>2, <1>3, <1>4, <2>1 DEF EndGroup, TypeOK
<1>5. CASE deferred[p] # {}
  <2>1. PICK first \in deferred[p] :
          /\ group' = [group EXCEPT ![p] = KeyOf(first)]
          /\ active' = [active EXCEPT ![p] = {u \in deferred[p] : KeyOf(u) = KeyOf(first)}]
          /\ deferred' = [deferred EXCEPT ![p] = @ \ {u \in deferred[p] : KeyOf(u) = KeyOf(first)}]
          /\ hasActive' = [hasActive EXCEPT ![p] = TRUE]
    BY <1>5 DEF EndGroup, StartDeferredGroup
  <2>2. KeyOf(first) \in Key
    BY <1>0, Queued DEF KeyOf, Key, Request
  <2> DEFINE members == {u \in deferred[p] : KeyOf(u) = KeyOf(first)}
  <2>3. /\ active'[p] = members /\ deferred'[p] = deferred[p] \ members
        /\ group'[p] = KeyOf(first) /\ hasActive'[p] = TRUE
        /\ first \in members
    BY <1>0, <2>1 DEF TypeOK
  <2>4. /\ active' \in [Processes -> SUBSET Threads]
        /\ deferred' \in [Processes -> SUBSET Threads]
        /\ group' \in [Processes -> Key]
        /\ hasActive' \in [Processes -> BOOLEAN]
    BY <1>0, <2>1, <2>2 DEF TypeOK
  <2>5. \A q \in Processes : q # p =>
              /\ active'[q] = active[q] /\ deferred'[q] = deferred[q]
              /\ group'[q] = group[q] /\ hasActive'[q] = hasActive[q]
    BY <2>1 DEF TypeOK
  <2>6. UNCHANGED <<prog, result, ahead, aborted, spurious>>
    BY DEF EndGroup
  <2>7. QED
    BY <1>2, <1>3, <2>3, <2>4, <2>5, <2>6
<1>6. QED
  BY <1>4, <1>5

\* The parts of the invariant that do not depend on the communicators.
LEMMA EndGroupKeepsQueues ==
  ASSUME IInv, NEW t \in Threads, t \in active[Home[t]], pc[t] \in {"loop", "init"},
         NEW status \in {"success", "invalid"}, EndGroup(t, status)
  PROVE  /\ ProgramsAtHome' /\ RequestInFrame' /\ MutualExclusion'
         /\ NoDanglingRequest' /\ OneActiveGroup' /\ NoLostWakeup'
<1> DEFINE p == Home[t]
<1> USE DEF IInv
<1>0. p \in Processes
  OBVIOUS
<1> HIDE DEF p
<1>e. /\ req' \in [Threads -> Request \cup {Null}]
      /\ pc' \in [Threads -> Locations]
      /\ \A u \in Threads :
           /\ u \in active[p] => /\ req'[u] \in Request
                                 /\ req'[u].done /\ req'[u].status = status
                                 /\ req'[u].comm = req[u].comm
                                 /\ req'[u].clique = req[u].clique
                                 /\ req'[u].nranks = req[u].nranks
                                 /\ req'[u].rank = req[u].rank
                                 /\ req'[u].expected = req[u].expected
           /\ u \notin active[p] => req'[u] = req[u]
           /\ u = t => pc'[u] = "loop"
           /\ u # t /\ Home[u] = p /\ pc[u] = "waiting" => pc'[u] = "notified"
           /\ u # t /\ ~(Home[u] = p /\ pc[u] = "waiting") => pc'[u] = pc[u]
           /\ InCall(u)' <=> InCall(u)
      /\ \A q \in Processes : q # p =>
           /\ active'[q] = active[q] /\ deferred'[q] = deferred[q]
           /\ group'[q] = group[q] /\ hasActive'[q] = hasActive[q]
      /\ active'[p] \cup deferred'[p] = deferred[p]
      /\ hasActive'[p] <=> active'[p] # {}
      /\ deferred'[p] # {} => hasActive'[p]
      /\ \A u \in active'[p] : KeyOf(u) = group'[p]
      /\ \A u \in deferred'[p] : KeyOf(u) # group'[p]
      /\ UNCHANGED <<prog, result, ahead, aborted, spurious>>
  BY EndGroupEffect DEF p
<1>1. p = Home[t]
  BY DEF p
<1>2. \A q \in Processes : \A u \in active[q] \cup deferred[q] :
        u \in Threads /\ Home[u] = q /\ ~req[u].done
        /\ pc[u] \in {"loop", "init", "waiting", "notified"}
  BY Queued
<1>3. \A u \in Threads : Home[u] = p /\ pc[u] \in {"loop", "init"} => u = t
  BY <1>1 DEF MutualExclusion
<1>4. active[p] \cap deferred[p] = {}
  BY <1>0 DEF OneActiveGroup
<1>5. ProgramsAtHome'
  BY <1>e DEF ProgramsAtHome
<1>6. RequestInFrame'
  <2>1. \A u \in Threads : pc'[u] # "idle" => pc[u] # "idle" /\ (pc'[u] = "enter" => pc[u] = "enter")
    BY <1>e
  <2>2. \A u \in active[p] : pc[u] # "enter"
    BY <1>0, <1>2
  <2>3. QED
    BY <1>e, <2>1, <2>2 DEF RequestInFrame
<1>7. MutualExclusion'
  BY <1>e, <1>1 DEF MutualExclusion
<1>8. NoDanglingRequest'
  <2>1. ASSUME NEW q \in Processes, NEW u \in Threads, q = p
        PROVE  u \in active'[q] \cup deferred'[q] <=> Home[u] = q /\ InCall(u)' /\ ~req'[u].done
    BY <1>0, <1>2, <1>4, <1>e, <2>1 DEF NoDanglingRequest
  <2>2. ASSUME NEW q \in Processes, NEW u \in Threads, q # p
        PROVE  u \in active'[q] \cup deferred'[q] <=> Home[u] = q /\ InCall(u)' /\ ~req'[u].done
    <3>1. u \in active[p] => Home[u] = p /\ u \notin active[q] \cup deferred[q]
      BY <1>0, <1>2, <2>2
    <3>2. QED
      BY <1>e, <2>2, <3>1 DEF NoDanglingRequest
  <2>3. QED
    BY <2>1, <2>2 DEF NoDanglingRequest
<1>9. OneActiveGroup'
  <2>1. \A q \in Processes : \A u \in active'[q] \cup deferred'[q] : req'[u] = req[u] /\ Home[u] = q
    BY <1>0, <1>2, <1>4, <1>e
  <2>2. \A q \in Processes : \A u \in active'[q] \cup deferred'[q] :
          KeyOf(u)' = KeyOf(u) /\ (IsSameGroup(u)' <=> KeyOf(u) = group'[q])
    BY <2>1 DEF KeyOf, IsSameGroup
  <2>3. ASSUME NEW q \in Processes, q # p
        PROVE  /\ \A u \in active'[q] : KeyOf(u) = group'[q]
               /\ \A u \in deferred'[q] : KeyOf(u) # group'[q]
               /\ hasActive'[q] <=> active'[q] # {}
               /\ deferred'[q] # {} => hasActive'[q]
    BY <1>e, <1>2, <2>3 DEF OneActiveGroup, IsSameGroup
  <2>4. QED
    BY <1>0, <1>e, <2>2, <2>3 DEF OneActiveGroup
<1>10. NoLostWakeup'
  <2>1. \A u \in Threads : pc'[u] = "waiting" => ~req'[u].done
    BY <1>e, <1>0, <1>2 DEF NoLostWakeup
  <2>2. \A u \in active'[p] : pc'[u] \in {"loop", "notified"}
    BY <1>0, <1>2, <1>3, <1>e
  <2>3. ASSUME NEW q \in Processes, q # p, NEW u \in active[q]
        PROVE  pc'[u] = pc[u]
    BY <1>e, <1>1, <1>2, <2>3
  <2>4. QED
    BY <1>e, <2>1, <2>2, <2>3 DEF NoLostWakeup
<1>11. QED
  BY <1>5, <1>6, <1>7, <1>8, <1>9, <1>10

\* A group that ValidateRequests refuses.
LEMMA RejectGroupIInv == ASSUME IInv, NEW t \in Threads, RejectGroup(t) PROVE IInv'
<1> USE DEF IInv
<1> DEFINE p == Home[t]
<1>0. /\ p \in Processes /\ pc[t] = "loop" /\ t \in active[p]
      /\ EndGroup(t, "invalid") /\ UNCHANGED <<comms, joined>>
  BY CompleterIsMember DEF RejectGroup
<1>1. /\ ProgramsAtHome' /\ RequestInFrame' /\ MutualExclusion'
      /\ NoDanglingRequest' /\ OneActiveGroup' /\ NoLostWakeup'
  BY <1>0, EndGroupKeepsQueues
<1>2. /\ req' \in [Threads -> Request \cup {Null}] /\ pc' \in [Threads -> Locations]
      /\ active' \in [Processes -> SUBSET Threads]
      /\ deferred' \in [Processes -> SUBSET Threads]
      /\ group' \in [Processes -> Key] /\ hasActive' \in [Processes -> BOOLEAN]
      /\ UNCHANGED <<prog, result, ahead, aborted, spurious>>
  BY <1>0, EndGroupEffect
<1>3. TypeOK'
  BY <1>0, <1>2 DEF TypeOK
<1>4. /\ \A u \in Threads : u \in active[p] => req'[u].status = "invalid"
      /\ \A u \in Threads : u \notin active[p] => req'[u] = req[u]
      /\ \A u \in Threads : pc'[u] = "init" => u # t /\ pc[u] = "init"
      /\ \A u \in Threads : InCall(u)' <=> InCall(u)
      /\ \A q \in Processes : q # p => active'[q] = active[q] /\ group'[q] = group[q]
  BY <1>0, EndGroupEffect
<1>5. GroupStaysValid'
  <2>1. ASSUME NEW u \in Threads, pc'[u] = "init" PROVE Home[u] # p
    BY <1>0, <1>4, <2>1 DEF MutualExclusion
  <2>2. \A q \in Processes : q # p => \A v \in active[q] : req'[v] = req[v]
    BY <1>0, <1>4, Queued
  <2>3. QED
    BY <1>0, <1>4, <2>1, <2>2 DEF GroupStaysValid
<1>6. AnsweredIsMember'
  BY <1>0, <1>4 DEF AnsweredIsMember
<1>7. HandlesUsed' /\ CliqueRanksDistinct'
  BY <1>0, HandlesKept
<1>8. QED
  BY <1>1, <1>3, <1>5, <1>6, <1>7

\* The start of cnclInitComms.
LEMMA CallInitCommsIInv ==
  ASSUME IInv, NEW t \in Threads, CallInitComms(t) PROVE IInv'
<1> USE DEF IInv, coordinator
<1> DEFINE p == Home[t]
<1>0. /\ p \in Processes /\ pc[t] = "loop" /\ t \in active[p] /\ ValidGroup(p) /\ ~CliqueUsed(p)
      /\ pc' = [pc EXCEPT ![t] = "init"]
      /\ joined' = [joined EXCEPT ![group[p].clique] =
                     @ \cup {<<p, req[u].rank>> : u \in active[p]}]
      /\ UNCHANGED <<prog, req, result, comms, active, deferred, ahead, group,
                     hasActive, aborted, spurious>>
  BY CompleterIsMember DEF CallInitComms
<1>1. group[p].clique \in Cliques
  <2>1. KeyOf(t) = group[p]
    BY <1>0 DEF OneActiveGroup, IsSameGroup
  <2>2. KeyOf(t).clique \in Cliques
    BY <1>0, Queued DEF KeyOf, Request
  <2>3. QED
    BY <2>1, <2>2
<1>2. TypeOK'
  <2>1. {<<p, req[u].rank>> : u \in active[p]} \subseteq Processes \X Int
    BY <1>0, Queued DEF Request
  <2>2. QED
    BY <1>0, <1>1, <2>1 DEF TypeOK, Locations
<1>3. ProgramsAtHome' /\ RequestInFrame' /\ MutualExclusion' /\ AnsweredIsMember'
  BY <1>0 DEF ProgramsAtHome, RequestInFrame, MutualExclusion, AnsweredIsMember, InCall, TypeOK
<1>4. GroupStaysValid'
  <2>1. \A u, v \in active[p] : u # v =>
          req[u].comm # req[v].comm /\ req[u].rank # req[v].rank
    BY <1>0 DEF ValidGroup
  <2>3. \A c \in Comms : CommHome[c] = p => comms[c].intra # group[p].clique
    BY <1>0, <1>1 DEF CliqueUsed, HandlesUsed
  <2>2. \A u \in active[p] : comms[req[u].comm].intra = Null
    BY <1>0 DEF ValidGroup
  <2>4. <<p, req[t].rank>> \in joined'[group[p].clique]
    BY <1>0, <1>1 DEF TypeOK
  <2>5. \A k \in Cliques : joined[k] \subseteq joined'[k]
    BY <1>0 DEF TypeOK
  <2>6. \A u \in Threads : u # t => (pc'[u] = "init" <=> pc[u] = "init")
    BY <1>0 DEF TypeOK
  <2>7. ASSUME NEW u \in Threads, pc'[u] = "init", u # t
        PROVE  \E x \in joined'[group[Home[u]].clique] : x[1] = Home[u]
    BY <2>5, <2>6, <2>7 DEF GroupStaysValid
  <2>8. \E x \in joined'[group[p].clique] : x[1] = p
    BY <2>4
  <2>9. Cardinality(active[p]) = group[p].expected
    BY <1>0 DEF ValidGroup
  <2>10. QED
    BY <1>0, <1>1, <2>1, <2>2, <2>3, <2>6, <2>7, <2>8, <2>9 DEF GroupStaysValid
<1>5. NoDanglingRequest' /\ OneActiveGroup' /\ NoLostWakeup'
  <2>1. pc \in [Threads -> Locations]
    BY DEF TypeOK
  <2>2. NoDanglingRequest' /\ OneActiveGroup'
    BY <1>0, <2>1 DEF NoDanglingRequest, InCall, OneActiveGroup, IsSameGroup, KeyOf
  <2>3. NoLostWakeup'
    BY <1>0, <2>1 DEF NoLostWakeup
  <2> QED
    BY <2>2, <2>3
<1>6. HandlesUsed' /\ CliqueRanksDistinct'
  <2>1. \A k \in Cliques : joined[k] \subseteq joined'[k]
    BY <1>0 DEF TypeOK
  <2>2. QED
    BY <1>0, <2>1, HandlesKept
<1>7. QED
  BY <1>2, <1>3, <1>4, <1>5, <1>6

\* A process that ends changes nothing but that.
LEMMA AbortIInv ==
  ASSUME IInv, NEW t \in Threads, RefuseClique(t) \/ InitCommsFails(t) PROVE IInv'
<1>1. /\ aborted' \subseteq Processes
      /\ UNCHANGED <<prog, pc, req, result, comms, active, deferred, ahead, group,
                     hasActive, joined, spurious>>
  BY DEF RefuseClique, InitCommsFails, IInv, TypeOK, coordinator
<1>2. TypeOK' /\ ProgramsAtHome' /\ RequestInFrame' /\ MutualExclusion'
  BY <1>1 DEF IInv, TypeOK, ProgramsAtHome, RequestInFrame, MutualExclusion
<1>3. GroupStaysValid' /\ AnsweredIsMember'
  BY <1>1 DEF IInv, GroupStaysValid, AnsweredIsMember, InCall
<1>4. NoDanglingRequest' /\ OneActiveGroup' /\ NoLostWakeup'
  BY <1>1 DEF IInv, NoDanglingRequest, InCall, OneActiveGroup, IsSameGroup, KeyOf, NoLostWakeup
<1>5. HandlesUsed' /\ CliqueRanksDistinct'
  BY <1>1, HandlesKept
<1>6. QED
  BY <1>2, <1>3, <1>4, <1>5 DEF IInv

\* cnclInitComms returns: the communicators of the group, and only these, get
\* their handle, and each its own rank.
LEMMA FinishGroupEffect ==
  ASSUME IInv, NEW t \in Threads, FinishGroup(t), NEW p, p = Home[t]
  PROVE  /\ p \in Processes /\ pc[t] = "init" /\ t \in active[p]
         /\ EndGroup(t, "success") /\ UNCHANGED joined
         /\ comms' \in [Comms -> Communicator]
         /\ \A u \in active[p] :
              LET c == comms'[req[u].comm] IN
              /\ c.intra = req[u].clique /\ c.rank = req[u].rank
              /\ c.size = req[u].nranks
         /\ \A c \in Comms : (\A u \in active[p] : req[u].comm # c) => comms'[c] = comms[c]
         /\ \A u \in active[p] : /\ comms[req[u].comm].intra = Null
                                 /\ req[u].clique = group[p].clique
                                 /\ req[u].comm \in Comms
                                 /\ CommHome[req[u].comm] = p
<1> USE DEF IInv
<1>1. /\ p \in Processes /\ pc[t] = "init" /\ t \in active[p]
      /\ EndGroup(t, "success") /\ UNCHANGED joined
      /\ comms' = [c \in Comms |->
           IF \E u \in active[p] : req[u].comm = c THEN JoinedComm(p, c) ELSE comms[c]]
      /\ group[p].clique \in Cliques
  BY DEF FinishGroup, GroupStaysValid
<1>2. \A u, v \in active[p] : req[u].comm = req[v].comm => u = v
  BY <1>1 DEF GroupStaysValid
<1>3. \A u \in active[p] :
        /\ req[u].comm \in Comms /\ req[u].rank \in Int /\ req[u].clique \in Cliques
        /\ req[u].clique = group[p].clique /\ req[u].nranks = group[p].nranks
  <2>1. \A u \in active[p] : KeyOf(u) = group[p]
    BY <1>1, Queued DEF OneActiveGroup, IsSameGroup
  <2>2. \A u \in active[p] : KeyOf(u).clique = req[u].clique /\ KeyOf(u).nranks = req[u].nranks
    BY DEF KeyOf
  <2>3. QED
    BY <1>1, <2>1, <2>2, Queued DEF Request
<1>4. ASSUME NEW u \in active[p]
      PROVE  JoinedComm(p, req[u].comm) =
               [comms[req[u].comm] EXCEPT !.rank = req[u].rank, !.size = group[p].nranks,
                                          !.intra = group[p].clique]
  <2>1. (CHOOSE v \in active[p] : req[v].comm = req[u].comm) = u
    BY <1>2
  <2>2. QED
    BY <2>1 DEF JoinedComm
<1>5. ASSUME NEW u \in active[p]
      PROVE  /\ JoinedComm(p, req[u].comm) \in Communicator
             /\ JoinedComm(p, req[u].comm).intra = req[u].clique
             /\ JoinedComm(p, req[u].comm).rank = req[u].rank
             /\ JoinedComm(p, req[u].comm).size = req[u].nranks
  <2>1. comms[req[u].comm] \in Communicator /\ group[p].nranks \in Int
    BY <1>1, <1>3 DEF TypeOK, Key
  <2>2. QED
    BY <1>1, <1>3, <1>4, <2>1 DEF Communicator
<1>6. comms' \in [Comms -> Communicator]
  BY <1>1, <1>5 DEF TypeOK
<1>7. \A u \in active[p] : comms[req[u].comm].intra = Null
  BY <1>1 DEF GroupStaysValid
<1>8. QED
  BY <1>1, <1>3, <1>5, <1>6, <1>7, Queued

\* The end of cnclInitComms.
LEMMA FinishGroupIInv == ASSUME IInv, NEW t \in Threads, FinishGroup(t) PROVE IInv'
<1> USE DEF IInv
<1> DEFINE p == Home[t]
<1>0. /\ p \in Processes /\ pc[t] = "init" /\ t \in active[p]
      /\ EndGroup(t, "success") /\ UNCHANGED joined
      /\ comms' \in [Comms -> Communicator]
      /\ \A u \in active[p] :
           LET c == comms'[req[u].comm] IN
           c.intra = req[u].clique /\ c.rank = req[u].rank /\ c.size = req[u].nranks
      /\ \A c \in Comms : (\A u \in active[p] : req[u].comm # c) => comms'[c] = comms[c]
      /\ \A u \in active[p] : /\ comms[req[u].comm].intra = Null
                              /\ req[u].clique = group[p].clique
                              /\ req[u].comm \in Comms
                              /\ CommHome[req[u].comm] = p
  BY FinishGroupEffect
<1>1. /\ ProgramsAtHome' /\ RequestInFrame' /\ MutualExclusion'
      /\ NoDanglingRequest' /\ OneActiveGroup' /\ NoLostWakeup'
  BY <1>0, EndGroupKeepsQueues
<1>2. /\ req' \in [Threads -> Request \cup {Null}] /\ pc' \in [Threads -> Locations]
      /\ active' \in [Processes -> SUBSET Threads]
      /\ deferred' \in [Processes -> SUBSET Threads]
      /\ group' \in [Processes -> Key] /\ hasActive' \in [Processes -> BOOLEAN]
      /\ UNCHANGED <<prog, result, ahead, aborted, spurious>>
  BY <1>0, EndGroupEffect
<1>3. TypeOK'
  BY <1>0, <1>2 DEF TypeOK
<1>4. /\ \A u \in active[p] : /\ req'[u].comm = req[u].comm /\ req'[u].clique = req[u].clique
                              /\ req'[u].rank = req[u].rank /\ req'[u].nranks = req[u].nranks
      /\ \A u \in Threads : u \notin active[p] => req'[u] = req[u]
      /\ \A u \in Threads : pc'[u] = "init" => u # t /\ pc[u] = "init"
      /\ \A u \in Threads : InCall(u)' <=> InCall(u)
      /\ \A q \in Processes : q # p => active'[q] = active[q] /\ group'[q] = group[q]
  BY <1>0, EndGroupEffect, Queued
<1>5. GroupStaysValid'
  <2>1. ASSUME NEW u \in Threads, pc'[u] = "init" PROVE Home[u] # p
    BY <1>0, <1>4, <2>1 DEF MutualExclusion
  <2>2. ASSUME NEW q \in Processes, q # p, NEW v \in active[q]
        PROVE  req'[v] = req[v] /\ comms'[req[v].comm] = comms[req[v].comm]
    <3>1. v \in Threads /\ v \notin active[p] /\ req[v].comm \in Comms /\ CommHome[req[v].comm] = q
      BY <1>0, <2>2, Queued
    <3>2. \A u \in active[p] : req[u].comm # req[v].comm
      BY <1>0, <2>2, <3>1, Queued
    <3>3. QED
      BY <1>0, <1>4, <3>1, <3>2
  <2>3. \A c \in Comms : CommHome[c] # p => comms'[c] = comms[c]
    BY <1>0
  <2>4. QED
    BY <1>0, <1>4, <2>1, <2>2, <2>3 DEF GroupStaysValid
<1>6. AnsweredIsMember'
  <2>1. ASSUME NEW u \in Threads, u \notin active[p], InCall(u), req[u].done,
               req[u].status = "success"
        PROVE  comms'[req[u].comm] = comms[req[u].comm]
    <3>1. comms[req[u].comm].intra = req[u].clique /\ req[u].clique \in Cliques
            /\ req[u].comm \in Comms
      BY <2>1 DEF AnsweredIsMember, RequestInFrame, InCall, Request
    <3>2. \A v \in active[p] : req[v].comm # req[u].comm
      BY <1>0, <3>1
    <3>3. QED
      BY <1>0, <3>1, <3>2
  <2>2. QED
    BY <1>0, <1>4, <2>1 DEF AnsweredIsMember
<1>7. HandlesUsed' /\ CliqueRanksDistinct'
  <2>1. /\ \E x \in joined[group[p].clique] : x[1] = p
        /\ \A c \in Comms : CommHome[c] = p => comms[c].intra # group[p].clique
        /\ \A u, v \in active[p] : u # v => req[u].rank # req[v].rank
        /\ group[p].clique \in Cliques
    BY <1>0 DEF GroupStaysValid
  <2> DEFINE InGroup(c) == \E u \in active[p] : req[u].comm = c
  <2>2. \A c \in Comms :
          /\ InGroup(c) => CommHome[c] = p /\ comms'[c].intra = group[p].clique
          /\ ~InGroup(c) => comms'[c] = comms[c]
    BY <1>0
  <2>3. HandlesUsed'
    BY <1>0, <2>1, <2>2 DEF HandlesUsed
  <2>4. ASSUME NEW c \in Comms, NEW d \in Comms, c # d, CommHome[c] = CommHome[d],
               comms'[c].intra # Null, comms'[c].intra = comms'[d].intra
        PROVE  comms'[c].rank # comms'[d].rank
    <3>1. CASE InGroup(c) /\ InGroup(d)
      <4>1. PICK u \in active[p] : req[u].comm = c
        BY <3>1
      <4>2. PICK v \in active[p] : req[v].comm = d
        BY <3>1
      <4>3. QED
        BY <1>0, <2>1, <2>4, <4>1, <4>2
    <3>2. CASE ~InGroup(c) /\ ~InGroup(d)
      BY <2>2, <2>4, <3>2 DEF CliqueRanksDistinct
    <3>3. CASE InGroup(c) /\ ~InGroup(d)
      BY <2>1, <2>2, <2>4, <3>3
    <3>4. CASE ~InGroup(c) /\ InGroup(d)
      BY <2>1, <2>2, <2>4, <3>4
    <3>5. QED
      BY <3>1, <3>2, <3>3, <3>4
  <2>5. QED
    BY <2>3, <2>4 DEF CliqueRanksDistinct
<1>8. QED
  BY <1>1, <1>3, <1>5, <1>6, <1>7

------------------------------------------------------------------------------
\* The invariant is inductive.
LEMMA NextIInv == IInv /\ [Next]_vars => IInv'
<1> SUFFICES ASSUME IInv, [Next]_vars PROVE IInv'
  OBVIOUS
<1>1. ASSUME NEW t \in Threads, Step(t) \/ SpuriousWake(t) \/ GetDeviceFails(t)
                                  \/ InitCommsFails(t)
      PROVE  IInv'
  BY <1>1, EarlyIInv, EnterIInv, JoinActiveIInv, JoinDeferredIInv, WaitIInv,
     WakeIInv, ReturnIInv, RejectGroupIInv, CallInitCommsIInv, AbortIInv,
     FinishGroupIInv DEF Step, EndsEarly
<1>2. CASE UNCHANGED vars
  <2>1. UNCHANGED <<prog, pc, req, result, comms, active, deferred, ahead, group,
                    hasActive, joined, aborted, spurious>>
    BY <1>2 DEF vars, coordinator
  <2>2. TypeOK' /\ ProgramsAtHome' /\ RequestInFrame' /\ MutualExclusion'
    BY <2>1 DEF IInv, TypeOK, ProgramsAtHome, RequestInFrame, MutualExclusion
  <2>3. GroupStaysValid' /\ AnsweredIsMember'
    BY <2>1 DEF IInv, GroupStaysValid, AnsweredIsMember, InCall
  <2>4. NoDanglingRequest' /\ OneActiveGroup' /\ NoLostWakeup'
    BY <2>1 DEF IInv, NoDanglingRequest, InCall, OneActiveGroup, IsSameGroup, KeyOf, NoLostWakeup
  <2>5. HandlesUsed' /\ CliqueRanksDistinct'
    BY <2>1, HandlesKept
  <2>6. QED
    BY <2>2, <2>3, <2>4, <2>5 DEF IInv
<1>3. QED
  BY <1>1, <1>2 DEF Next

\* The invariant holds in every reachable state.
LEMMA SpecIInv == Spec => []IInv
BY InitIInv, NextIInv, PTL DEF Spec

\* Type correctness of the rendezvous.
THEOREM Typing == Spec => []TypeOK
BY SpecIInv, PTL DEF IInv

\* The coordinator holds exactly the requests that are blocked and not
\* answered, so no pointer to a dead frame.
THEOREM RequestsAlive == Spec => []NoDanglingRequest
BY SpecIInv, PTL DEF IInv

\* One group is active, and requests wait for it only while it is.
THEOREM GroupsSeparate == Spec => []OneActiveGroup
BY SpecIInv, PTL DEF IInv

\* The two together: whatever is moved between the vectors, they hold the
\* right requests.
THEOREM QueuesStayRight == Spec => []QueuesRight
<1>1. IInv => QueuesRight
  BY DEF IInv, QueuesRight
<1> QED
  BY SpecIInv, <1>1, PTL

\* A complete group always has a member that will look at it, and nobody
\* sleeps on an answer.
THEOREM WakeupsKept == Spec => []NoLostWakeup
BY SpecIInv, PTL DEF IInv

\* Two communicators of a process never have one rank of one clique.
THEOREM RanksDistinct == Spec => []CliqueRanksDistinct
BY SpecIInv, PTL DEF IInv

\* A communicator that has its handle keeps it, with its rank and size.
THEOREM HandlesStay == Spec => HandleWrittenOnce
<1>1. ASSUME IInv, [Next]_vars
      PROVE  [\A c \in Comms : comms[c].intra # Null =>
                /\ comms'[c].intra = comms[c].intra
                /\ comms'[c].rank = comms[c].rank
                /\ comms'[c].size = comms[c].size]_vars
  <2>1. ASSUME NEW t \in Threads, EndsEarly(t) \/ Enter(t)
        PROVE  \A c \in Comms : /\ comms'[c].intra = comms[c].intra
                                /\ comms'[c].rank = comms[c].rank
                                /\ comms'[c].size = comms[c].size
    <3>1. prog[t] # <<>> /\ Head(prog[t]) \in Call
      BY <1>1, <2>1, EarlyEffect, HeadIsCall DEF Enter, Calls
    <3>2. \/ comms' = comms
          \/ comms' = [comms EXCEPT ![Head(prog[t]).comm].dev = Head(prog[t]).dev]
      BY <2>1, EarlyEffect DEF Enter
    <3> QED
      BY <1>1, <3>1, <3>2, DeviceTyped DEF IInv, TypeOK
  <2>2. ASSUME NEW t \in Threads, FinishGroup(t), NEW c \in Comms, comms[c].intra # Null
        PROVE  comms'[c] = comms[c]
    BY <1>1, <2>2, FinishGroupEffect
  <2>3. ASSUME NEW t \in Threads,
               JoinActive(t) \/ JoinDeferred(t) \/ Wait(t) \/ Wake(t) \/ Return(t)
                 \/ RejectGroup(t) \/ CallInitComms(t) \/ RefuseClique(t)
                 \/ SpuriousWake(t) \/ InitCommsFails(t)
        PROVE  comms' = comms
    BY <2>3 DEF JoinActive, JoinDeferred, Wait, Wake, Return, RejectGroup,
      CallInitComms, RefuseClique, SpuriousWake, InitCommsFails
  <2>4. QED
    BY <1>1, <2>1, <2>2, <2>3 DEF Next, Step, EndsEarly
<1>2. QED
  BY <1>1, SpecIInv, PTL DEF Spec, HandleWrittenOnce

\* The answer a thread takes home is true of its communicator.
THEOREM AnswersTrue == Spec => SuccessMeansMember
<1>1. ASSUME IInv, [Next]_vars
      PROVE  [\A t \in Threads :
       prog'[t] # prog[t] /\ pc[t] = "loop" =>
         LET c == comms[req[t].comm]  call == Head(prog[t]) IN
         result'[t] = "success" =>
           /\ c.intra = call.clique
           /\ c.rank = call.rank
           /\ c.size = call.nranks]_vars
  <2>1. ASSUME NEW t \in Threads, prog'[t] # prog[t], pc[t] = "loop"
        PROVE  Return(t)
    <3>1. ASSUME NEW u \in Threads, EndsEarly(u)
          PROVE  pc[u] = "idle" /\ (u # t => prog'[t] = prog[t])
      <4>1. pc[u] = "idle" /\ prog' = [prog EXCEPT ![u] = Tail(@)]
        BY <3>1, EarlyEffect
      <4> QED
        BY <1>1, <4>1 DEF IInv, TypeOK
    <3>2. \A u \in Threads : Return(u) => (u # t => prog'[t] = prog[t])
      BY <1>1 DEF Return, IInv, TypeOK
    <3>3. \A u \in Threads :
            (Enter(u) \/ JoinActive(u) \/ JoinDeferred(u) \/ Wait(u) \/ Wake(u)
               \/ RejectGroup(u) \/ CallInitComms(u) \/ RefuseClique(u) \/ FinishGroup(u)
               \/ SpuriousWake(u) \/ InitCommsFails(u)) => prog' = prog
      BY DEF Enter, JoinActive, JoinDeferred, Wait, Wake, RejectGroup, CallInitComms,
        RefuseClique, FinishGroup, SpuriousWake, InitCommsFails, EndGroup
    <3>4. UNCHANGED vars => prog' = prog
      BY DEF vars
    <3>5. QED
      BY <1>1, <2>1, <3>1, <3>2, <3>3, <3>4 DEF Next, Step, EndsEarly
  <2>2. ASSUME NEW t \in Threads, Return(t), result'[t] = "success", pc[t] = "loop"
        PROVE  LET c == comms[req[t].comm]  call == Head(prog[t]) IN
               c.intra = call.clique /\ c.rank = call.rank /\ c.size = call.nranks
    <3>1. req[t].done /\ req[t].status = "success" /\ InCall(t)
      BY <1>1, <2>2 DEF Return, InCall, IInv, TypeOK
    <3>2. QED
      BY <1>1, <2>2, <3>1 DEF IInv, AnsweredIsMember, RequestInFrame
  <2>3. QED
    BY <2>1, <2>2
<1>2. QED
  BY <1>1, SpecIInv, PTL DEF Spec, SuccessMeansMember

==============================================================================
