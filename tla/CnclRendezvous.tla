--------------------------- MODULE CnclRendezvous ---------------------------
(***************************************************************************)
(* CommInitRank on the CNCL backend.  cnclInitComms must be called once    *)
(* per process and clique with the communicators of all the local ranks,   *)
(* while the public call is made once per rank, from one thread per rank.  *)
(* The threads of a process meet in a static ThreadCoordinator (a mutex, a *)
(* condition variable, a vector of requests of the active group and one of *)
(* requests deferred for later groups); the thread that finds the active   *)
(* group complete makes the call for all of them.                          *)
(*                                                                         *)
(* A request lives in the frame of the thread that waits for it, so a      *)
(* thread stands for the pointer to its request.  The vectors are only     *)
(* pushed to, filtered, counted, sorted by rank and asked for their front: *)
(* they are sets of threads here, and ahead[t] holds the requests that     *)
(* were in deferred_requests when t was pushed.                            *)
(***************************************************************************)
EXTENDS Integers, Sequences, FiniteSets

CONSTANTS
  Processes,    \* processes of the job
  Threads,      \* threads that call infinicclCommInitRank
  Home,         \* the process of a thread
  Comms,        \* communicator objects
  CommHome,     \* the process that owns a communicator
  Cliques,      \* unique ids handed to the calls
  Programs,     \* the calls each thread makes, one function per scenario
  InitialComm,  \* the communicators as CommInitAll or the caller left them
  Faulty,       \* processes in which GetDevice and cnclInitComms may fail
  MaxSpurious,  \* bound on the spurious wake-ups of the condition variable
  Null      \* an empty intra_comm_ slot

\* handle is false when the pointer to the handle is null; dev is the current
\* device of the thread.
Call == [handle: BOOLEAN, comm: Comms, clique: Cliques, nranks: Int, rank: Int,
         dev: Int]

Communicator == [dev: Int, rank: Int, size: Int, local: Int, inter: BOOLEAN,
                 intra: Cliques \cup {Null}]

Key == [clique: Cliques \cup {Null}, nranks: Int, expected: Int]

ASSUME ThreadsAssumption ==
  /\ IsFiniteSet(Threads)
  /\ Home \in [Threads -> Processes]
  /\ CommHome \in [Comms -> Processes]
  /\ Null \notin Cliques
  /\ MaxSpurious \in Nat

ASSUME CommAssumption ==
  /\ InitialComm \in [Comms -> Communicator]
  /\ \A c \in Comms : InitialComm[c].intra = Null

\* A communicator is a pointer: only threads of its process can pass it.
\* Threads that pass the same one have the same current device, otherwise
\* set_device_id would be a data race.
ASSUME ProgramsAssumption ==
  /\ Programs \subseteq [Threads -> Seq(Call)]
  /\ \A g \in Programs, t \in Threads :
       \A i \in DOMAIN g[t] : CommHome[g[t][i].comm] = Home[t]
  /\ \A g \in Programs : \A t, u \in Threads :
       \A i \in DOMAIN g[t], j \in DOMAIN g[u] :
         g[t][i].comm = g[u][j].comm => g[t][i].dev = g[u][j].dev

VARIABLES
  prog,       \* calls each thread still has to make; the head is under way
  pc,         \* where each thread is in the call
  req,        \* the Request in each thread's frame
  result,     \* what the last call of each thread returned
  comms,      \* the Communicator objects
  active,     \* active_requests
  deferred,   \* deferred_requests
  ahead,      \* order of deferred_requests
  group,      \* active_clique_id, active_nranks, active_expected_local_ranks
  hasActive,  \* has_active_group
  joined,     \* <<process, rank>> pairs given to cnclInitComms, per clique
  aborted,    \* processes ended by INFINI_CHECK_CNCL
  spurious    \* spurious wake-ups still allowed

coordinator == <<active, deferred, ahead, group, hasActive>>
vars == <<prog, pc, req, result, comms, coordinator, joined, aborted,
          spurious>>

Request == [comm: Comms, clique: Cliques, nranks: Int, rank: Int,
            expected: Int, status: {"success", "invalid"}, done: BOOLEAN]

Locations == {"idle", "enter", "loop", "init", "waiting", "notified"}

\* "loop" and "init" hold the coordinator's mutex; "init" is inside
\* cnclInitComms.  "waiting" and "notified" are inside condition.wait.
InCall(t) == pc[t] \in {"loop", "init", "waiting", "notified"}
MutexFree(p) == \A t \in Threads : Home[t] = p => pc[t] \notin {"loop", "init"}

KeyOf(t) == [clique |-> req[t].clique, nranks |-> req[t].nranks,
             expected |-> req[t].expected]
IsSameGroup(t) == KeyOf(t) = group[Home[t]]

------------------------------------------------------------------------------
ExpectedLocalRanks(comm, nranks) ==
  IF ~comm.inter THEN nranks
  ELSE IF nranks = comm.size \/ comm.local <= 0 THEN 1
  ELSE comm.local

\* The checks Apply makes before it takes the mutex.
PreCheck(comm, call) ==
  /\ comm.intra = Null
  /\ call.nranks > 0
  /\ call.rank \in 0 .. call.nranks - 1
  /\ ExpectedLocalRanks(comm, call.nranks) \in 1 .. call.nranks

\* A definition named a Defect is what its neighbour would be with a mistake:
\* the properties are tried against it.  Defect: status has no default.
NewRequestNoStatus(call) ==
  [comm |-> call.comm, clique |-> call.clique, nranks |-> call.nranks,
   rank |-> call.rank,
   expected |-> ExpectedLocalRanks(comms[call.comm], call.nranks),
   status |-> "undefined", done |-> FALSE]

NewRequest(call) ==
  [comm |-> call.comm, clique |-> call.clique, nranks |-> call.nranks,
   rank |-> call.rank,
   expected |-> ExpectedLocalRanks(comms[call.comm], call.nranks),
   status |-> "success", done |-> FALSE]

\* Defects: ValidateRequests without the second look at intra_comm or
\* the search for equal devices.
ValidGroupNoRecheck(p) ==
  /\ Cardinality(active[p]) = group[p].expected
  /\ \A t, u \in active[p] : t # u =>
       /\ req[t].rank # req[u].rank
       /\ comms[req[t].comm].dev # comms[req[u].comm].dev
ValidGroupAnyDevices(p) ==
  /\ \A t \in active[p] : comms[req[t].comm].intra = Null
  /\ \A t, u \in active[p] : t # u => req[t].rank # req[u].rank

\* The answer of ValidateRequests for the active group of p.
ValidGroup(p) ==
  /\ Cardinality(active[p]) = group[p].expected
  /\ \A t \in active[p] :
       /\ comms[req[t].comm].intra = Null
       /\ req[t].rank \in 0 .. group[p].nranks - 1
  /\ \A t, u \in active[p] : t # u =>
       /\ req[t].rank # req[u].rank
       /\ comms[req[t].comm].dev # comms[req[u].comm].dev

\* Defect: the members are not counted.
GroupCompleteUncounted(t) == IsSameGroup(t)

\* The test of the while loop in Apply.
GroupComplete(t) ==
  IsSameGroup(t) /\ Cardinality(active[Home[t]]) = req[t].expected

Running(t) == Home[t] \notin aborted

------------------------------------------------------------------------------
Init ==
  /\ prog \in Programs
  /\ pc = [t \in Threads |-> "idle"]
  /\ req = [t \in Threads |-> Null]
  /\ result = [t \in Threads |-> "none"]
  /\ comms = InitialComm
  /\ active = [p \in Processes |-> {}]
  /\ deferred = [p \in Processes |-> {}]
  /\ ahead = [t \in Threads |-> {}]
  /\ group = [p \in Processes |->
               [clique |-> Null, nranks |-> 0, expected |-> 0]]
  /\ hasActive = [p \in Processes |-> FALSE]
  /\ joined = [k \in Cliques |-> {}]
  /\ aborted = {}
  /\ spurious = MaxSpurious

------------------------------------------------------------------------------
\* The thread makes its next call, or returns from CommInitRank::Execute.
Calls(t) == Running(t) /\ pc[t] = "idle" /\ prog[t] # <<>>

Refused(t, status) ==
  /\ result' = [result EXCEPT ![t] = status]
  /\ prog' = [prog EXCEPT ![t] = Tail(@)]
  /\ UNCHANGED <<pc, req, coordinator, joined, aborted, spurious>>

\* Execute does not look at anything but the pointer to the handle, ...
RefuseNull(t) ==
  /\ Calls(t) /\ ~Head(prog[t]).handle
  /\ Refused(t, "invalid")
  /\ UNCHANGED comms

\* ... returns before it has touched the communicator, ...
GetDeviceFails(t) ==
  /\ Calls(t) /\ Head(prog[t]).handle /\ Home[t] \in Faulty
  /\ Refused(t, "error")
  /\ UNCHANGED comms

\* ... or stores the current device in it and Apply refuses the call.  A null
\* handle gets a new Communicator, which has the fields of a fresh InitialComm.
Refuse(t) ==
  LET call == Head(prog[t]) IN
  /\ Calls(t) /\ call.handle /\ ~PreCheck(comms[call.comm], call)
  /\ comms' = [comms EXCEPT ![call.comm].dev = call.dev]
  /\ Refused(t, "invalid")

\* The same up to the lock: the thread builds its Request.
Enter(t) ==
  LET call == Head(prog[t]) IN
  /\ Calls(t) /\ call.handle /\ PreCheck(comms[call.comm], call)
  /\ comms' = [comms EXCEPT ![call.comm].dev = call.dev]
  /\ req' = [req EXCEPT ![t] = NewRequest(call)]
  /\ pc' = [pc EXCEPT ![t] = "enter"]
  /\ UNCHANGED <<prog, result, coordinator, joined, aborted, spurious>>

\* Take the mutex and push the request: the first one opens a group.
JoinActive(t) ==
  LET p == Home[t] IN
  /\ Running(t) /\ pc[t] = "enter" /\ MutexFree(p)
  /\ hasActive[p] => IsSameGroup(t)
  /\ group' = [group EXCEPT ![p] = KeyOf(t)]
  /\ hasActive' = [hasActive EXCEPT ![p] = TRUE]
  /\ active' = [active EXCEPT ![p] = @ \cup {t}]
  /\ pc' = [pc EXCEPT ![t] = "loop"]
  /\ UNCHANGED <<prog, req, result, comms, deferred, ahead, joined, aborted,
                 spurious>>

JoinDeferred(t) ==
  LET p == Home[t] IN
  /\ Running(t) /\ pc[t] = "enter" /\ MutexFree(p)
  /\ hasActive[p] /\ ~IsSameGroup(t)
  /\ deferred' = [deferred EXCEPT ![p] = @ \cup {t}]
  /\ ahead' = [ahead EXCEPT ![t] = deferred[p]]
  /\ pc' = [pc EXCEPT ![t] = "loop"]
  /\ UNCHANGED <<prog, req, result, comms, active, group, hasActive, joined,
                 aborted, spurious>>

\* The active group is incomplete: release the mutex and wait.
Wait(t) ==
  /\ Running(t) /\ pc[t] = "loop"
  /\ ~req[t].done /\ ~GroupComplete(t)
  /\ pc' = [pc EXCEPT ![t] = "waiting"]
  /\ UNCHANGED <<prog, req, result, comms, coordinator, joined, aborted,
                 spurious>>

\* condition.wait returns with the mutex held, after notify_all ...
Wake(t) ==
  /\ Running(t) /\ pc[t] = "notified" /\ MutexFree(Home[t])
  /\ pc' = [pc EXCEPT ![t] = "loop"]
  /\ UNCHANGED <<prog, req, result, comms, coordinator, joined, aborted,
                 spurious>>

\* ... or spuriously.
SpuriousWake(t) ==
  /\ Running(t) /\ pc[t] = "waiting" /\ MutexFree(Home[t])
  /\ spurious > 0
  /\ spurious' = spurious - 1
  /\ pc' = [pc EXCEPT ![t] = "loop"]
  /\ UNCHANGED <<prog, req, result, comms, coordinator, joined, aborted>>

Return(t) ==
  /\ Running(t) /\ pc[t] = "loop" /\ req[t].done
  /\ result' = [result EXCEPT ![t] = req[t].status]
  /\ prog' = [prog EXCEPT ![t] = Tail(@)]
  /\ pc' = [pc EXCEPT ![t] = "idle"]
  /\ UNCHANGED <<req, comms, coordinator, joined, aborted, spurious>>

------------------------------------------------------------------------------
\* The end of CompleteGroup: every request of the group gets its status, the
\* deferred group of the oldest request becomes active, all are notified.
IsFront(t, p) == t \in deferred[p] /\ ahead[t] \cap deferred[p] = {}

\* Defects: the finished requests stay in active_requests; only the front
\* request is moved, not its group.
StartDeferredGroupKeep(p) ==
  /\ deferred[p] = {}
  /\ hasActive' = [hasActive EXCEPT ![p] = FALSE]
  /\ UNCHANGED <<active, deferred, group>>
StartDeferredGroupFront(p) ==
  \E t \in deferred[p] :
    /\ IsFront(t, p)
    /\ group' = [group EXCEPT ![p] = KeyOf(t)]
    /\ active' = [active EXCEPT ![p] = {t}]
    /\ deferred' = [deferred EXCEPT ![p] = @ \ {t}]
    /\ UNCHANGED hasActive

StartDeferredGroup(p) ==
  \/ /\ deferred[p] = {}
     /\ hasActive' = [hasActive EXCEPT ![p] = FALSE]
     /\ active' = [active EXCEPT ![p] = {}]
     /\ UNCHANGED <<deferred, group>>
  \/ \E first \in deferred[p] :
       LET members == {t \in deferred[p] : KeyOf(t) = KeyOf(first)} IN
       /\ IsFront(first, p)
       /\ group' = [group EXCEPT ![p] = KeyOf(first)]
       /\ active' = [active EXCEPT ![p] = members]
       /\ deferred' = [deferred EXCEPT ![p] = @ \ members]
       /\ hasActive' = [hasActive EXCEPT ![p] = TRUE]

\* Defect: the waiting threads are not told.
NotifyNone(t) == pc' = [pc EXCEPT ![t] = "loop"]

\* notify_all by t, which goes on with the mutex.
NotifyAll(t) ==
  pc' = [u \in Threads |->
    IF u = t THEN "loop"
    ELSE IF Home[u] = Home[t] /\ pc[u] = "waiting" THEN "notified"
    ELSE pc[u]]

EndGroup(t, status) ==
  LET p == Home[t] IN
  /\ req' = [u \in Threads |->
       IF u \in active[p] THEN [req[u] EXCEPT !.status = status, !.done = TRUE]
       ELSE req[u]]
  /\ StartDeferredGroup(p)
  /\ NotifyAll(t)
  /\ UNCHANGED <<prog, result, ahead, aborted, spurious>>

\* CompleteGroup for a group that ValidateRequests refuses.
RejectGroup(t) ==
  /\ Running(t) /\ pc[t] = "loop" /\ ~req[t].done
  /\ GroupComplete(t) /\ ~ValidGroup(Home[t])
  /\ EndGroup(t, "invalid")
  /\ UNCHANGED <<comms, joined>>

\* "CNCL accepts each clique ID only once per process".
CliqueUsed(p) == \E x \in joined[group[p].clique] : x[1] = p

\* CompleteGroup up to the call of cnclInitComms, which blocks, with the
\* mutex held, until the other processes have made theirs.
CallInitComms(t) ==
  LET p == Home[t] IN
  /\ Running(t) /\ pc[t] = "loop" /\ ~req[t].done
  /\ GroupComplete(t) /\ ValidGroup(p) /\ ~CliqueUsed(p)
  /\ joined' = [joined EXCEPT ![group[p].clique] =
                  @ \cup {<<p, req[u].rank>> : u \in active[p]}]
  /\ pc' = [pc EXCEPT ![t] = "init"]
  /\ UNCHANGED <<prog, req, result, comms, coordinator, aborted, spurious>>

\* INFINI_CHECK_CNCL ends the process when cnclInitComms refuses a clique it
\* has seen, ...
RefuseClique(t) ==
  LET p == Home[t] IN
  /\ Running(t) /\ pc[t] = "loop" /\ ~req[t].done
  /\ GroupComplete(t) /\ ValidGroup(p) /\ CliqueUsed(p)
  /\ aborted' = aborted \cup {p}
  /\ UNCHANGED <<prog, pc, req, result, comms, coordinator, joined, spurious>>

\* ... and when it returns any other error.
InitCommsFails(t) ==
  /\ Running(t) /\ pc[t] = "init" /\ Home[t] \in Faulty
  /\ aborted' = aborted \cup {Home[t]}
  /\ UNCHANGED <<prog, pc, req, result, comms, coordinator, joined, spurious>>

\* All ranks of the clique have arrived.
CliqueReady(k, nranks) ==
  \A r \in 0 .. nranks - 1 : \E x \in joined[k] : x[2] = r

\* Defect: the ranks are not aligned with the communicators.
JoinedCommFirst(p, c) ==
  [comms[c] EXCEPT !.rank = 0, !.size = group[p].nranks,
                   !.intra = group[p].clique]

\* The communicator c of the active group of p with its handle.
JoinedComm(p, c) ==
  LET u == CHOOSE v \in active[p] : req[v].comm = c IN
  [comms[c] EXCEPT !.rank = req[u].rank, !.size = group[p].nranks,
                   !.intra = group[p].clique]

FinishGroup(t) ==
  LET p == Home[t] IN
  /\ Running(t) /\ pc[t] = "init"
  /\ CliqueReady(group[p].clique, group[p].nranks)
  /\ comms' = [c \in Comms |->
       IF \E u \in active[p] : req[u].comm = c THEN JoinedComm(p, c)
       ELSE comms[c]]
  /\ EndGroup(t, "success")
  /\ UNCHANGED joined

------------------------------------------------------------------------------
Step(t) == \/ RefuseNull(t) \/ Refuse(t) \/ Enter(t)
           \/ JoinActive(t) \/ JoinDeferred(t) \/ Wait(t) \/ Wake(t) \/ Return(t)
           \/ RejectGroup(t) \/ CallInitComms(t) \/ RefuseClique(t)
           \/ FinishGroup(t)

Next == \E t \in Threads :
  Step(t) \/ SpuriousWake(t) \/ GetDeviceFails(t) \/ InitCommsFails(t)

Spec == Init /\ [][Next]_vars

\* A thread that can run is scheduled, and std::mutex lets it in once no
\* other thread takes it for good.
FairSpec == Spec /\ \A t \in Threads : WF_vars(Step(t))

------------------------------------------------------------------------------
\* The variables have their types; a request always has a status.
TypeOK ==
  /\ prog \in [Threads -> Seq(Call)]
  /\ pc \in [Threads -> Locations]
  /\ req \in [Threads -> Request \cup {Null}]
  /\ result \in [Threads -> {"none", "success", "invalid", "error"}]
  /\ comms \in [Comms -> Communicator]
  /\ active \in [Processes -> SUBSET Threads]
  /\ deferred \in [Processes -> SUBSET Threads]
  /\ ahead \in [Threads -> SUBSET Threads]
  /\ group \in [Processes -> Key]
  /\ hasActive \in [Processes -> BOOLEAN]
  /\ joined \in [Cliques -> SUBSET (Processes \X Int)]
  /\ aborted \subseteq Processes
  /\ spurious \in Nat

\* The coordinator's vectors hold exactly the requests whose threads are still
\* blocked in Apply and not answered: a pointer to a frame that has returned
\* is never left behind, and no blocked request is forgotten (comm_init_rank.h
\* 166-171 and 205-209).
NoDanglingRequest ==
  \A p \in Processes, t \in Threads :
    t \in active[p] \cup deferred[p]
      <=> Home[t] = p /\ InCall(t) /\ ~req[t].done

\* One group at a time (37-38): the requests of active_requests, and no
\* deferred one, are of the active group, and requests are deferred only while
\* there is one.
OneActiveGroup ==
  \A p \in Processes :
    /\ \A t \in active[p] : IsSameGroup(t)
    /\ \A t \in deferred[p] : ~IsSameGroup(t)
    /\ hasActive[p] <=> active[p] # {}
    /\ deferred[p] # {} => hasActive[p]

\* The two together: the queues are right, whatever was moved between them
\* (StartDeferredGroup, 108-124).
QueuesRight == NoDanglingRequest /\ OneActiveGroup

\* No wake-up is lost (172 and 211-219): no thread sleeps on an answered
\* request, and while the active group has all its members one of them is
\* awake or has been notified, so that CompleteGroup will run.
NoLostWakeup ==
  /\ \A t \in Threads : pc[t] = "waiting" => ~req[t].done
  /\ \A p \in Processes :
       active[p] # {} /\ Cardinality(active[p]) = group[p].expected =>
         \E t \in active[p] : pc[t] \in {"loop", "init", "notified"}

\* Two communicators of a process that are in the same clique have different
\* ranks in it: what ValidateRequests is for (63-69).
CliqueRanksDistinct ==
  \A c, d \in Comms :
    (c # d /\ CommHome[c] = CommHome[d] /\ comms[c].intra # Null
       /\ comms[c].intra = comms[d].intra) => comms[c].rank # comms[d].rank

\* A CNCL communicator is never replaced, whatever requests share it: the
\* check made before the lock (178) is made again with it (63).
HandleWrittenOnce ==
  [][\A c \in Comms : comms[c].intra # Null =>
       /\ comms'[c].intra = comms[c].intra
       /\ comms'[c].rank = comms[c].rank
       /\ comms'[c].size = comms[c].size]_vars

\* A call that reports success leaves its communicator in its clique, with the
\* rank and the size it asked for, however long its thread slept since the group
\* was completed (comm_init_rank.h 154-164 and 211-221).
SuccessMeansMember ==
  [][\A t \in Threads :
       prog'[t] # prog[t] /\ pc[t] = "loop" =>
         LET c == comms[req[t].comm]  call == Head(prog[t]) IN
         result'[t] = "success" =>
           /\ c.intra = call.clique
           /\ c.rank = call.rank
           /\ c.size = call.nranks]_vars

\* Every thread makes all its calls.
AllCallsReturn == \A t \in Threads : <>(prog[t] = <<>>)

\* What NoneRefused depends on: the calls of a program pass the checks on the
\* communicators as they were; each passes its own; the calls of a process
\* that name a clique agree on its sizes, differ in rank and device, and are no
\* more than the sizes say.
Passed(g, p, k) ==
  {c \in Comms : \E t \in Threads : /\ Home[t] = p
                                    /\ \E i \in DOMAIN g[t] :
                                         g[t][i].comm = c /\ g[t][i].clique = k}

Expected(call) == ExpectedLocalRanks(InitialComm[call.comm], call.nranks)

Compatible(a, b) ==
  /\ a.nranks = b.nranks /\ Expected(a) = Expected(b)
  /\ a.rank # b.rank /\ a.dev # b.dev

WellFormed(g) ==
  /\ \A t \in Threads : \A i \in DOMAIN g[t] :
       /\ g[t][i].handle /\ PreCheck(InitialComm[g[t][i].comm], g[t][i])
       /\ Cardinality(Passed(g, Home[t], g[t][i].clique)) <= Expected(g[t][i])
  /\ \A t, u \in Threads : \A i \in DOMAIN g[t], j \in DOMAIN g[u] :
       <<t, i>> # <<u, j>> =>
         /\ g[t][i].comm # g[u][j].comm
         /\ Home[t] = Home[u] /\ g[t][i].clique = g[u][j].clique =>
              Compatible(g[t][i], g[u][j])

CallsWellFormed == Faulty = {} /\ \A g \in Programs : WellFormed(g)

\* No call is refused and no process ends in INFINI_CHECK_CNCL.
NoneRefused == aborted = {} /\ \A t \in Threads : result[t] \notin {"invalid", "error"}

\* A thread makes its next step unless it sleeps, the mutex it needs is taken,
\* or cnclInitComms has still to wait for ranks of other processes.
GoesOn(t) ==
  /\ Running(t) /\ prog[t] # <<>> /\ pc[t] # "waiting"
  /\ pc[t] \in {"enter", "notified"} => MutexFree(Home[t])
  /\ pc[t] = "init" => CliqueReady(group[Home[t]].clique, group[Home[t]].nranks)

\* What SomeCallGoesOn depends on besides.  Every rank of a clique is passed by
\* some thread, and each process passes as many as it is expected to.
Attended(g) ==
  \A t \in Threads : \A i \in DOMAIN g[t] :
    LET call == g[t][i] IN
    /\ Cardinality(Passed(g, Home[t], call.clique)) = Expected(call)
    /\ \A r \in 0 .. call.nranks - 1 :
         \E u \in Threads : \E j \in DOMAIN g[u] :
           g[u][j].clique = call.clique /\ g[u][j].rank = r

\* The cliques t has been through before its i-th call.
Before(g, t, i) == {g[t][j].clique : j \in 1 .. i - 1}

\* The clique has ranks in several processes.
Spans(g, k) ==
  \E t, u \in Threads : /\ Home[t] # Home[u]
                        /\ \E i \in DOMAIN g[t] : g[t][i].clique = k
                        /\ \E j \in DOMAIN g[u] : g[u][j].clique = k

\* The threads of a process that meet in a clique have been through the same
\* cliques before, and the cliques of several processes have an order in which
\* each process comes to its own, all threads of the next after the last.
InTurn(g) ==
  /\ \A t, u \in Threads : \A i \in DOMAIN g[t], j \in DOMAIN g[u] :
       Home[t] = Home[u] /\ g[t][i].clique = g[u][j].clique =>
         Before(g, t, i) = Before(g, u, j)
  /\ \E turn \in [Cliques -> 0 .. Cardinality(Cliques)] :
       \A t, u \in Threads : \A i \in DOMAIN g[t], j \in DOMAIN g[u] :
         LET k == g[t][i].clique  l == g[u][j].clique IN
         /\ Home[t] = Home[u] /\ Spans(g, k) /\ Spans(g, l)
         /\ k # l /\ turn[k] <= turn[l]
         => k \in Before(g, u, j)

CallsInTurn ==
  IsFiniteSet(Cliques) /\ \A g \in Programs : Attended(g) /\ InTurn(g)

\* None is refused, and the calls never come to wait for one another for good,
\* in the process for the members of the active group, for the mutex another
\* thread holds inside cnclInitComms, or there for other processes: until all
\* have returned, some thread goes on (comm_init_rank.h 147-148 and 197-220).
SomeCallGoesOn ==
  /\ NoneRefused
  /\ (\E t \in Threads : prog[t] # <<>>) => \E t \in Threads : GoesOn(t)

------------------------------------------------------------------------------
\* The calls as CliqueInit sees them: outside while they only hold a frame,
\* pending in the coordinator, then answered.
Phase == [t \in Threads |->
  IF ~InCall(t) THEN "out"
  ELSE IF req[t].done THEN req[t].status ELSE "pending"]

AskedOf == [t \in Threads |->
  IF ~InCall(t) THEN Null
  ELSE [comm |-> req[t].comm, clique |-> req[t].clique,
        nranks |-> req[t].nranks, rank |-> req[t].rank,
        expected |-> req[t].expected]]

HandleOf == [c \in Comms |-> comms[c].intra]

Service == INSTANCE CliqueInit
             WITH phase <- Phase, asked <- AskedOf, handle <- HandleOf

\* The rendezvous settles whole groups at one stroke, as CliqueInit asks.
SettlesGroupsWhole == Service!SSpec

==============================================================================
