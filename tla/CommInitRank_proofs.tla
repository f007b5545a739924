------------------------ MODULE CommInitRank_proofs -------------------------
(***************************************************************************)
(* What CommInitRank promises on CNCL, for any number of processes,        *)
(* threads, communicators and cliques.  If every program is WellFormed the *)
(* coordinator finds every group valid and hands each clique to CNCL once  *)
(* per process: no call is refused.  If the calls are in turn as well, the *)
(* threads never all wait for one another.  And the coordinator implements *)
(* CliqueInit: calls are answered a whole group at a time.                 *)
(***************************************************************************)
EXTENDS CnclRendezvous_proofs, FiniteSetTheorems, WellFoundedInduction

\* The call at place i of the program of t has its answer.
Answered(t, i) == i = 1 /\ InCall(t) /\ req[t].done

\* A communicator that a call still has to use is as it was at the start but
\* for its device.
CommsFresh ==
  \A t \in Threads : \A i \in DOMAIN prog[t] :
    Answered(t, i) \/
      LET c == prog[t][i].comm IN
      /\ comms[c].intra = Null
      /\ comms[c].inter = InitialComm[c].inter
      /\ comms[c].size = InitialComm[c].size
      /\ comms[c].local = InitialComm[c].local

\* A request that waits asks for the group its call needs, and its
\* communicator has the device of the call.
RequestsFit ==
  \A t \in Threads : pc[t] # "idle" /\ ~req[t].done =>
    /\ req[t].expected = Expected(Head(prog[t]))
    /\ comms[req[t].comm].dev = Head(prog[t]).dev

\* Once a process has handed a clique to CNCL, the calls that name it are
\* answered or will be when cnclInitComms returns.
CliqueSpent ==
  \A p \in Processes, k \in Cliques :
    (\E x \in joined[k] : x[1] = p) =>
      \A t \in Threads : Home[t] = p =>
        \A i \in DOMAIN prog[t] : prog[t][i].clique = k =>
          \/ Answered(t, i)
          \/ /\ i = 1 /\ t \in active[p]
             /\ \E u \in Threads : Home[u] = p /\ pc[u] = "init"

\* No answer is a refusal.
NoneAnsweredInvalid ==
  \A t \in Threads : InCall(t) /\ req[t].done => req[t].status = "success"

WInv == /\ WellFormed(prog) /\ CommsFresh /\ RequestsFit /\ CliqueSpent
        /\ NoneAnsweredInvalid /\ NoneRefused

USE ThreadsAssumption, CommAssumption

------------------------------------------------------------------------------
\* A process passes finitely many communicators with a clique.
LEMMA PassedFinite ==
  ASSUME NEW g \in [Threads -> Seq(Call)], NEW p, NEW k
  PROVE  IsFiniteSet(Passed(g, p, k))
<1> DEFINE of(t) == {g[t][i].comm : i \in DOMAIN g[t]}
           all == {of(t) : t \in Threads}
<1>1. ASSUME NEW t \in Threads PROVE IsFiniteSet(of(t))
  <2> DEFINE f == [i \in 1 .. Len(g[t]) |-> g[t][i].comm]
  <2>1. g[t] \in Seq(Call) /\ Len(g[t]) \in Nat /\ DOMAIN g[t] = 1 .. Len(g[t])
    OBVIOUS
  <2>2. f \in Surjection(1 .. Len(g[t]), of(t))
    BY <2>1 DEF Surjection
  <2>3. IsFiniteSet(1 .. Len(g[t]))
    BY <2>1, FS_Interval
  <2> QED
    BY <2>2, <2>3, FS_Surjection
<1>2. IsFiniteSet(all)
  <2> DEFINE f == [t \in Threads |-> of(t)]
  <2>1. f \in Surjection(Threads, all)
    <3> HIDE DEF of
    <3> QED
      BY DEF Surjection
  <2> QED
    BY <2>1, FS_Surjection
<1>3. IsFiniteSet(UNION all)
  <2>1. \A T \in all : IsFiniteSet(T)
    BY <1>1
  <2> HIDE DEF all
  <2> QED
    BY <1>2, <2>1, FS_UNION
<1>4. Passed(g, p, k) \subseteq UNION all
  BY DEF Passed
<1> HIDE DEF all
<1> QED
  BY <1>3, <1>4, FS_Subset

\* A program stays well formed when its next call is over.
LEMMA TailWellFormed ==
  ASSUME NEW g \in [Threads -> Seq(Call)], WellFormed(g),
         NEW t \in Threads, g[t] # <<>>,
         NEW h, h = [g EXCEPT ![t] = Tail(@)]
  PROVE  WellFormed(h)
<1> DEFINE old(u, i) == IF u = t THEN i + 1 ELSE i
<1>1. ASSUME NEW u \in Threads, NEW i \in DOMAIN h[u]
      PROVE  old(u, i) \in DOMAIN g[u] /\ h[u][i] = g[u][old(u, i)] /\ i \in Nat
  <2>1. g[u] \in Seq(Call)
    OBVIOUS
  <2>2. CASE u = t
    BY <2>1, <2>2
  <2>3. CASE u # t
    BY <2>1, <2>3
  <2> QED
    BY <2>2, <2>3
<1>2. ASSUME NEW p, NEW k PROVE Cardinality(Passed(h, p, k)) <= Cardinality(Passed(g, p, k))
  <2>1. Passed(h, p, k) \subseteq Passed(g, p, k)
    <3>1. SUFFICES ASSUME NEW c \in Comms, NEW u \in Threads, Home[u] = p,
                          NEW i \in DOMAIN h[u], h[u][i].comm = c, h[u][i].clique = k
                   PROVE  \E j \in DOMAIN g[u] : g[u][j].comm = c /\ g[u][j].clique = k
      BY DEF Passed
    <3> QED
      BY <3>1, <1>1
  <2> QED
    BY <2>1, PassedFinite, FS_Subset
<1>3. ASSUME NEW u \in Threads, NEW i \in DOMAIN h[u]
      PROVE  /\ h[u][i].handle /\ PreCheck(InitialComm[h[u][i].comm], h[u][i])
             /\ Cardinality(Passed(h, Home[u], h[u][i].clique)) <= Expected(h[u][i])
  <2> DEFINE call == h[u][i]
  <2>1. call = g[u][old(u, i)] /\ old(u, i) \in DOMAIN g[u]
    BY <1>1
  <2>2. /\ call.handle /\ PreCheck(InitialComm[call.comm], call)
        /\ Cardinality(Passed(g, Home[u], call.clique)) <= Expected(call)
    BY <2>1 DEF WellFormed
  <2>3. Cardinality(Passed(h, Home[u], call.clique)) <= Cardinality(Passed(g, Home[u], call.clique))
    BY <1>2
  <2>4. /\ Cardinality(Passed(h, Home[u], call.clique)) \in Nat
        /\ Cardinality(Passed(g, Home[u], call.clique)) \in Nat
    <3>1. h \in [Threads -> Seq(Call)]
      OBVIOUS
    <3> QED
      BY <3>1, PassedFinite, FS_CardinalityType
  <2>5. Expected(call) \in Int
    BY <2>2 DEF PreCheck, Expected
  <2> QED
    BY <2>2, <2>3, <2>4, <2>5
<1>4. ASSUME NEW u \in Threads, NEW v \in Threads, NEW i \in DOMAIN h[u], NEW j \in DOMAIN h[v],
             <<u, i>> # <<v, j>>
      PROVE  /\ h[u][i].comm # h[v][j].comm
             /\ Home[u] = Home[v] /\ h[u][i].clique = h[v][j].clique =>
                  Compatible(h[u][i], h[v][j])
  <2>1. <<u, old(u, i)>> # <<v, old(v, j)>>
    BY <1>1, <1>4
  <2> QED
    BY <1>1, <2>1 DEF WellFormed
<1> QED
  BY <1>3, <1>4 DEF WellFormed

------------------------------------------------------------------------------
\* What is known of the call a thread is in.
LEMMA CurrentCall ==
  ASSUME IInv, WInv, NEW t \in Threads, pc[t] # "idle"
  PROVE  /\ prog[t] \in Seq(Call) /\ 1 \in DOMAIN prog[t]
         /\ prog[t][1] = Head(prog[t]) /\ prog[t][1] \in Call
         /\ req[t] \in Request
         /\ req[t].comm = prog[t][1].comm /\ req[t].clique = prog[t][1].clique
         /\ req[t].nranks = prog[t][1].nranks /\ req[t].rank = prog[t][1].rank
         /\ ~req[t].done =>
              /\ req[t].expected = Expected(prog[t][1])
              /\ comms[req[t].comm].dev = prog[t][1].dev
              /\ comms[req[t].comm].intra = Null
<1>1. prog[t] \in Seq(Call) /\ prog[t] # <<>>
  BY DEF IInv, TypeOK, RequestInFrame
<1>2. Len(prog[t]) > 0 /\ 1 \in DOMAIN prog[t] /\ prog[t][1] = Head(prog[t]) /\ prog[t][1] \in Call
  BY <1>1
<1>3. /\ req[t] \in Request
      /\ req[t].comm = prog[t][1].comm /\ req[t].clique = prog[t][1].clique
      /\ req[t].nranks = prog[t][1].nranks /\ req[t].rank = prog[t][1].rank
  BY <1>2 DEF IInv, RequestInFrame
<1>4. ASSUME ~req[t].done
      PROVE  /\ req[t].expected = Expected(prog[t][1])
             /\ comms[req[t].comm].dev = prog[t][1].dev
             /\ comms[req[t].comm].intra = Null
  <2>1. ~Answered(t, 1)
    BY <1>4 DEF Answered
  <2>2. comms[prog[t][1].comm].intra = Null
    BY <1>2, <2>1 DEF WInv, CommsFresh
  <2> QED
    BY <1>2, <1>3, <1>4, <2>2 DEF WInv, RequestsFit
<1> QED
  BY <1>1, <1>2, <1>3, <1>4

\* The requests of the active group go together.
LEMMA ActiveApart ==
  ASSUME IInv, WInv, NEW p \in Processes
  PROVE  /\ \A u \in active[p] :
              /\ u \in Threads /\ Home[u] = p /\ pc[u] # "idle" /\ InCall(u) /\ ~req[u].done
              /\ group[p].clique = req[u].clique /\ group[p].nranks = req[u].nranks
              /\ group[p].expected = req[u].expected
         /\ \A u, v \in active[p] : u # v =>
              /\ req[u].comm # req[v].comm /\ req[u].rank # req[v].rank
              /\ comms[req[u].comm].dev # comms[req[v].comm].dev
<1>1. ASSUME NEW u \in active[p]
      PROVE  /\ u \in Threads /\ Home[u] = p /\ pc[u] # "idle" /\ InCall(u) /\ ~req[u].done
             /\ group[p].clique = req[u].clique /\ group[p].nranks = req[u].nranks
             /\ group[p].expected = req[u].expected
  <2>1. u \in Threads /\ Home[u] = p /\ pc[u] # "idle" /\ InCall(u) /\ ~req[u].done
    BY Queued DEF InCall
  <2>2. KeyOf(u) = group[p]
    BY <2>1 DEF IInv, OneActiveGroup, IsSameGroup
  <2> QED
    BY <2>1, <2>2 DEF KeyOf
<1>2. ASSUME NEW u \in active[p], NEW v \in active[p], u # v
      PROVE  /\ req[u].comm # req[v].comm /\ req[u].rank # req[v].rank
             /\ comms[req[u].comm].dev # comms[req[v].comm].dev
  <2>1. <<u, 1>> # <<v, 1>>
    BY <1>2
  <2>2. prog[u][1].comm # prog[v][1].comm /\ Compatible(prog[u][1], prog[v][1])
    <3>1. /\ 1 \in DOMAIN prog[u] /\ 1 \in DOMAIN prog[v]
          /\ Home[u] = Home[v] /\ prog[u][1].clique = prog[v][1].clique
      BY <1>1, CurrentCall
    <3> QED
      BY <1>1, <2>1, <3>1 DEF WInv, WellFormed
  <2> QED
    BY <1>1, <2>2, CurrentCall DEF Compatible
<1> QED
  BY <1>1, <1>2

\* A group that has all its members is valid.
LEMMA CompleteIsValid ==
  ASSUME IInv, WInv, NEW t \in Threads, pc[t] = "loop", ~req[t].done, GroupComplete(t)
  PROVE  ValidGroup(Home[t])
<1> DEFINE p == Home[t]
<1>1. p \in Processes /\ t \in active[p]
  BY CompleterIsMember
<1>2. Cardinality(active[p]) = group[p].expected
  BY <1>1, ActiveApart DEF GroupComplete
<1>3. ASSUME NEW u \in active[p]
      PROVE  comms[req[u].comm].intra = Null /\ req[u].rank \in 0 .. group[p].nranks - 1
  <2>1. PreCheck(InitialComm[prog[u][1].comm], prog[u][1])
    BY <1>1, ActiveApart, CurrentCall DEF WInv, WellFormed
  <2>2. req[u].rank \in 0 .. req[u].nranks - 1
    BY <1>1, <2>1, ActiveApart, CurrentCall DEF PreCheck
  <2> QED
    BY <1>1, <2>2, ActiveApart, CurrentCall
<1> QED
  BY <1>1, <1>2, <1>3, ActiveApart DEF ValidGroup

\* It has all the calls of its process that name the clique.
LEMMA CompleteHasAll ==
  ASSUME IInv, WInv, NEW p \in Processes, NEW t \in active[p],
         Cardinality(active[p]) = group[p].expected,
         NEW u \in Threads, Home[u] = p, NEW i \in DOMAIN prog[u],
         prog[u][i].clique = group[p].clique
  PROVE  i = 1 /\ u \in active[p]
<1> DEFINE k == group[p].clique
           S == Passed(prog, p, k)
           f == [v \in active[p] |-> req[v].comm]
<1>1. prog \in [Threads -> Seq(Call)] /\ active[p] \subseteq Threads
  BY DEF IInv, TypeOK
<1>2. IsFiniteSet(S)
  BY <1>1, PassedFinite
<1>3. f \in Injection(active[p], S)
  <2>1. ASSUME NEW v \in active[p] PROVE req[v].comm \in S
    <3>1. /\ v \in Threads /\ Home[v] = p /\ 1 \in DOMAIN prog[v]
          /\ prog[v][1].comm = req[v].comm /\ prog[v][1].clique = k
          /\ prog[v][1] \in Call
      BY ActiveApart, CurrentCall
    <3>2. req[v].comm \in Comms
      BY <3>1 DEF Call
    <3> QED
      BY <3>1, <3>2 DEF Passed
  <2>2. f \in [active[p] -> S]
    BY <2>1
  <2>3. \A v, w \in active[p] : f[v] = f[w] => v = w
    BY ActiveApart
  <2> HIDE DEF f, S
  <2> QED
    BY <2>2, <2>3 DEF Injection, IsInjective
<1>4. Cardinality(S) = Cardinality(active[p])
  <2>1. Cardinality(S) <= Expected(prog[t][1])
    BY ActiveApart, CurrentCall DEF WInv, WellFormed
  <2>2. Expected(prog[t][1]) = Cardinality(active[p])
    BY ActiveApart, CurrentCall
  <2>3. Cardinality(active[p]) <= Cardinality(S)
    BY <1>2, <1>3, FS_Injection
  <2>4. Cardinality(S) \in Nat /\ Cardinality(active[p]) \in Nat
    BY <1>1, <1>2, FS_CardinalityType, FS_Subset
  <2> QED
    BY <2>1, <2>2, <2>3, <2>4
<1>5. f \in Surjection(active[p], S)
  BY <1>2, <1>3, <1>4, FS_Injection
<1>6. prog[u][i].comm \in S
  <2>1. prog[u][i] \in Call
    BY <1>1
  <2>2. prog[u][i].comm \in Comms
    BY <2>1 DEF Call
  <2> QED
    BY <2>2 DEF Passed
<1>7. PICK v \in active[p] : req[v].comm = prog[u][i].comm
  BY <1>5, <1>6 DEF Surjection
<1>8. v \in Threads /\ 1 \in DOMAIN prog[v] /\ prog[v][1].comm = prog[u][i].comm
  BY <1>7, ActiveApart, CurrentCall
<1>9. <<u, i>> = <<v, 1>>
  BY <1>8 DEF WInv, WellFormed
<1> QED
  BY <1>9

LEMMA SameProgram == ASSUME WellFormed(prog), UNCHANGED prog PROVE WellFormed(prog)'
BY DEF WellFormed, Passed, Compatible, Expected

------------------------------------------------------------------------------
LEMMA InitWInv == Init /\ CallsWellFormed => WInv
<1> SUFFICES ASSUME Init, CallsWellFormed PROVE WInv
  OBVIOUS
<1> USE DEF Init
<1>1. prog \in Programs /\ WellFormed(prog)
  BY DEF CallsWellFormed
<1>2. CommsFresh
  <2>1. SUFFICES ASSUME NEW t \in Threads, NEW i \in DOMAIN prog[t]
                 PROVE  InitialComm[prog[t][i].comm].intra = Null
    BY DEF CommsFresh
  <2> QED
    BY <1>1 DEF WellFormed, PreCheck
<1>3. RequestsFit /\ CliqueSpent /\ NoneAnsweredInvalid /\ NoneRefused
  BY DEF RequestsFit, CliqueSpent, NoneAnsweredInvalid, NoneRefused, InCall
<1> QED
  BY <1>1, <1>2, <1>3 DEF WInv

\* A communicator that is fresh takes the call as the initial one does.
LEMMA FreshPasses ==
  ASSUME IInv, WInv, NEW t \in Threads, pc[t] = "idle", prog[t] # <<>>,
         NEW call, call = Head(prog[t])
  PROVE  /\ 1 \in DOMAIN prog[t] /\ call = prog[t][1] /\ call \in Call
         /\ PreCheck(comms[call.comm], call)
         /\ ExpectedLocalRanks(comms[call.comm], call.nranks) = Expected(call)
<1>1. prog[t] \in Seq(Call) /\ Len(prog[t]) > 0
  BY DEF IInv, TypeOK
<1>2. 1 \in DOMAIN prog[t] /\ call = prog[t][1] /\ call \in Call
  BY <1>1
<1>3. ~Answered(t, 1)
  BY DEF Answered, InCall
<1> DEFINE c == comms[call.comm]
           d == InitialComm[call.comm]
<1>4. c.intra = Null /\ c.inter = d.inter /\ c.size = d.size /\ c.local = d.local
  BY <1>2, <1>3 DEF WInv, CommsFresh
<1>5. PreCheck(d, call)
  BY <1>2 DEF WInv, WellFormed
<1>6. ExpectedLocalRanks(c, call.nranks) = ExpectedLocalRanks(d, call.nranks)
  BY <1>4 DEF ExpectedLocalRanks
<1> QED
  BY <1>2, <1>4, <1>5, <1>6 DEF PreCheck, Expected

\* What a well formed program cannot do.
LEMMA NoneEndsEarly ==
  ASSUME CallsWellFormed, IInv, WInv, NEW t \in Threads PROVE ~EndsEarly(t)
<1>1. ~Refuse(t)
  BY FreshPasses DEF Refuse, Calls
<1>2. ~GetDeviceFails(t)
  BY DEF CallsWellFormed, GetDeviceFails
<1>3. ~RefuseNull(t)
  <2> SUFFICES ASSUME prog[t] # <<>> PROVE Head(prog[t]).handle
    BY DEF RefuseNull, Calls
  <2>1. prog[t] \in Seq(Call)
    BY DEF IInv, TypeOK
  <2>2. 1 \in DOMAIN prog[t] /\ Head(prog[t]) = prog[t][1]
    BY <2>1
  <2> QED
    BY <2>2 DEF WInv, WellFormed
<1> QED
  BY <1>1, <1>2, <1>3 DEF EndsEarly

LEMMA NoReject == ASSUME IInv, WInv, NEW t \in Threads PROVE ~RejectGroup(t)
BY CompleteIsValid DEF RejectGroup

LEMMA NoRefuseClique == ASSUME IInv, WInv, NEW t \in Threads PROVE ~RefuseClique(t)
<1> SUFFICES ASSUME RefuseClique(t) PROVE FALSE
  OBVIOUS
<1> DEFINE p == Home[t]
<1>1. p \in Processes /\ t \in active[p] /\ pc[t] = "loop" /\ ~req[t].done
  BY CompleterIsMember DEF RefuseClique
<1>2. /\ 1 \in DOMAIN prog[t] /\ prog[t][1].clique = group[p].clique
      /\ prog[t][1].clique \in Cliques
  BY <1>1, ActiveApart, CurrentCall DEF Call
<1>3. \E x \in joined[prog[t][1].clique] : x[1] = p
  BY <1>2 DEF RefuseClique, CliqueUsed
<1>4. \E u \in Threads : Home[u] = p /\ pc[u] = "init"
  BY <1>1, <1>2, <1>3 DEF WInv, CliqueSpent, Answered
<1> QED
  BY <1>1, <1>4 DEF IInv, MutualExclusion

\* Joining a group, waiting and waking.
LEMMA QuietKeeps ==
  ASSUME IInv, WInv, NEW t \in Threads,
         pc[t] \in {"enter", "loop", "waiting", "notified"},
         NEW l \in {"loop", "waiting"}, pc' = [pc EXCEPT ![t] = l],
         UNCHANGED <<prog, req, result, comms, joined, aborted>>,
         \A p \in Processes : active[p] \subseteq active'[p]
  PROVE  WInv'
<1>1. pc \in [Threads -> Locations]
  BY DEF IInv, TypeOK
<1>2. \A u \in Threads : /\ InCall(u) => InCall(u)'
                         /\ pc'[u] # "idle" => pc[u] # "idle"
                         /\ pc[u] = "init" => pc'[u] = "init"
                         /\ InCall(u)' /\ req[u].done => InCall(u)
  BY <1>1 DEF InCall, IInv, RequestInFrame
<1>3. \A u \in Threads : \A i : Answered(u, i) => Answered(u, i)'
  BY <1>2 DEF Answered
<1>4. WellFormed(prog)' /\ CommsFresh'
  BY <1>3, SameProgram DEF WInv, CommsFresh
<1>5. RequestsFit'
  BY <1>2 DEF WInv, RequestsFit, Expected
<1>6. CliqueSpent'
  <2>1. SUFFICES ASSUME NEW p \in Processes, NEW k \in Cliques, \E x \in joined[k] : x[1] = p,
                        NEW u \in Threads, Home[u] = p,
                        NEW i \in DOMAIN prog[u], prog[u][i].clique = k
                 PROVE  \/ Answered(u, i)'
                        \/ /\ i = 1 /\ u \in active'[p]
                           /\ \E v \in Threads : Home[v] = p /\ pc'[v] = "init"
    BY DEF CliqueSpent
  <2> QED
    BY <1>2, <1>3, <2>1 DEF WInv, CliqueSpent
<1>7. NoneAnsweredInvalid' /\ NoneRefused'
  BY <1>2 DEF WInv, NoneAnsweredInvalid, NoneRefused
<1> QED
  BY <1>4, <1>5, <1>6, <1>7 DEF WInv

LEMMA QuietWInv ==
  ASSUME IInv, WInv, NEW t \in Threads,
         JoinActive(t) \/ JoinDeferred(t) \/ Wait(t) \/ Wake(t) \/ SpuriousWake(t)
  PROVE  WInv'
<1>1. /\ pc[t] \in {"enter", "loop", "waiting", "notified"}
      /\ \E l \in {"loop", "waiting"} : pc' = [pc EXCEPT ![t] = l]
      /\ UNCHANGED <<prog, req, result, comms, joined, aborted>>
  BY DEF JoinActive, JoinDeferred, Wait, Wake, SpuriousWake
<1>2. \A p \in Processes : active[p] \subseteq active'[p]
  <2>1. active \in [Processes -> SUBSET Threads]
    BY DEF IInv, TypeOK
  <2> QED
    BY <2>1 DEF JoinActive, JoinDeferred, Wait, Wake, SpuriousWake, coordinator
<1> QED
  BY <1>1, <1>2, QuietKeeps

\* A call that builds its request.
LEMMA EnterWInv == ASSUME IInv, WInv, NEW t \in Threads, Enter(t) PROVE WInv'
<1> DEFINE call == Head(prog[t])
<1>1. /\ pc[t] = "idle" /\ prog[t] # <<>>
      /\ comms' = [comms EXCEPT ![call.comm].dev = call.dev]
      /\ req' = [req EXCEPT ![t] = NewRequest(call)]
      /\ pc' = [pc EXCEPT ![t] = "enter"]
      /\ UNCHANGED <<prog, result, active, joined, aborted>>
  BY DEF Enter, Calls, coordinator
<1>2. /\ pc \in [Threads -> Locations] /\ comms \in [Comms -> Communicator]
      /\ req \in [Threads -> Request \cup {Null}]
      /\ prog \in [Threads -> Seq(Call)]
  BY DEF IInv, TypeOK
<1>3. /\ 1 \in DOMAIN prog[t] /\ call = prog[t][1] /\ call \in Call
      /\ ExpectedLocalRanks(comms[call.comm], call.nranks) = Expected(call)
  BY <1>1, FreshPasses
<1>4. call.comm \in Comms /\ call.dev \in Int
  BY <1>3 DEF Call
<1>5. /\ req'[t].comm = call.comm /\ req'[t].expected = Expected(call) /\ ~req'[t].done
      /\ \A u \in Threads : u # t => req'[u] = req[u] /\ pc'[u] = pc[u]
      /\ pc'[t] = "enter"
  BY <1>1, <1>2, <1>3 DEF NewRequest
<1>6. \A c \in Comms : /\ comms'[c].intra = comms[c].intra /\ comms'[c].inter = comms[c].inter
                       /\ comms'[c].size = comms[c].size /\ comms'[c].local = comms[c].local
                       /\ comms'[c].dev = IF c = call.comm THEN call.dev ELSE comms[c].dev
  <2>1. comms[call.comm] \in Communicator
    BY <1>2, <1>4
  <2> QED
    BY <1>1, <1>2, <1>4, <2>1 DEF Communicator
<1>7. \A u \in Threads : (InCall(u)' <=> InCall(u)) /\ (pc'[u] = "init" <=> pc[u] = "init")
  BY <1>1, <1>5 DEF InCall
<1>8. \A u \in Threads : \A i : Answered(u, i)' <=> Answered(u, i)
  BY <1>1, <1>5, <1>7 DEF Answered, InCall
<1>9. WellFormed(prog)'
  BY <1>1, SameProgram DEF WInv
<1>10. CommsFresh'
  <2>1. \A u \in Threads : \A i \in DOMAIN prog[u] : prog[u][i].comm \in Comms
    <3>1. \A u \in Threads : \A i \in DOMAIN prog[u] : prog[u][i] \in Call
      BY <1>2
    <3> QED
      BY <3>1 DEF Call
  <2> QED
    BY <1>1, <1>6, <1>8, <2>1 DEF WInv, CommsFresh
<1>11. RequestsFit'
  <2>1. SUFFICES ASSUME NEW u \in Threads, pc'[u] # "idle", ~req'[u].done
                 PROVE  /\ req'[u].expected = Expected(Head(prog[u]))
                        /\ comms'[req'[u].comm].dev = Head(prog[u]).dev
    BY <1>1 DEF RequestsFit, Expected
  <2>2. CASE u = t
    BY <1>4, <1>5, <1>6, <2>2
  <2>3. CASE u # t
    <3>1. pc[u] # "idle" /\ req'[u] = req[u] /\ ~req[u].done
      BY <1>5, <2>1, <2>3
    <3>2. 1 \in DOMAIN prog[u] /\ req[u].comm = prog[u][1].comm /\ req[u].comm \in Comms
      BY <3>1, CurrentCall DEF Request
    <3>3. <<u, 1>> # <<t, 1>>
      BY <2>3
    <3>4. req[u].comm # call.comm
      BY <1>3, <3>2, <3>3 DEF WInv, WellFormed
    <3> QED
      BY <1>6, <3>1, <3>2, <3>4 DEF WInv, RequestsFit
  <2> QED
    BY <2>2, <2>3
<1>12. CliqueSpent'
  <2>1. SUFFICES ASSUME NEW p \in Processes, NEW k \in Cliques, \E x \in joined[k] : x[1] = p,
                        NEW u \in Threads, Home[u] = p,
                        NEW i \in DOMAIN prog[u], prog[u][i].clique = k
                 PROVE  \/ Answered(u, i)'
                        \/ /\ i = 1 /\ u \in active'[p]
                           /\ \E v \in Threads : Home[v] = p /\ pc'[v] = "init"
    BY <1>1 DEF CliqueSpent
  <2> QED
    BY <1>1, <1>7, <1>8, <2>1 DEF WInv, CliqueSpent
<1>13. NoneAnsweredInvalid' /\ NoneRefused'
  <2>1. \A u \in Threads : InCall(u)' => u # t
    BY <1>5 DEF InCall
  <2> QED
    BY <1>1, <1>5, <1>7, <2>1 DEF WInv, NoneAnsweredInvalid, NoneRefused
<1> QED
  BY <1>9, <1>10, <1>11, <1>12, <1>13 DEF WInv

\* A call that returns.
LEMMA ReturnWInv == ASSUME IInv, WInv, NEW t \in Threads, Return(t) PROVE WInv'
<1>1. /\ pc[t] = "loop" /\ req[t].done
      /\ result' = [result EXCEPT ![t] = req[t].status]
      /\ prog' = [prog EXCEPT ![t] = Tail(@)]
      /\ pc' = [pc EXCEPT ![t] = "idle"]
      /\ UNCHANGED <<req, comms, active, joined, aborted>>
  BY DEF Return, coordinator
<1>2. /\ pc \in [Threads -> Locations] /\ prog \in [Threads -> Seq(Call)]
      /\ result \in [Threads -> {"none", "success", "invalid", "error"}]
  BY DEF IInv, TypeOK
<1>3. prog[t] \in Seq(Call) /\ prog[t] # <<>>
  BY <1>1, <1>2 DEF IInv, RequestInFrame
<1>4. /\ \A u \in Threads : u # t => prog'[u] = prog[u] /\ pc'[u] = pc[u]
      /\ prog'[t] = Tail(prog[t]) /\ pc'[t] = "idle"
  BY <1>1, <1>2
<1>5. \A i \in DOMAIN prog'[t] : /\ i + 1 \in DOMAIN prog[t] /\ prog'[t][i] = prog[t][i + 1]
                                 /\ i + 1 # 1
  BY <1>3, <1>4
<1>6. \A u \in Threads : \A i : u # t => (Answered(u, i)' <=> Answered(u, i))
  BY <1>1, <1>4 DEF Answered, InCall
<1>7. \A i \in DOMAIN prog'[t] : ~Answered(t, i + 1)
  BY <1>5 DEF Answered
<1>8. WellFormed(prog)'
  <2>1. WellFormed(prog')
    BY <1>1, <1>2, <1>3, TailWellFormed DEF WInv
  <2> QED
    BY <2>1 DEF WellFormed, Passed, Compatible, Expected
<1>9. CommsFresh'
  <2>1. ASSUME NEW u \in Threads, NEW i \in DOMAIN prog'[u], ~Answered(u, i)'
        PROVE  \E j \in DOMAIN prog[u] : prog'[u][i] = prog[u][j] /\ ~Answered(u, j)
    <3>1. CASE u = t
      BY <1>5, <1>7, <3>1
    <3>2. CASE u # t
      BY <1>4, <1>6, <2>1, <3>2
    <3> QED
      BY <3>1, <3>2
  <2> QED
    BY <1>1, <2>1 DEF WInv, CommsFresh
<1>10. RequestsFit'
  BY <1>1, <1>4 DEF WInv, RequestsFit, Expected
<1>11. CliqueSpent'
  <2>1. SUFFICES ASSUME NEW p \in Processes, NEW k \in Cliques, \E x \in joined[k] : x[1] = p,
                        NEW u \in Threads, Home[u] = p,
                        NEW i \in DOMAIN prog'[u], prog'[u][i].clique = k
                 PROVE  \/ Answered(u, i)'
                        \/ /\ i = 1 /\ u \in active[p]
                           /\ \E v \in Threads : Home[v] = p /\ pc'[v] = "init"
    BY <1>1 DEF CliqueSpent
  <2>2. CASE u = t
    BY <1>5, <1>7, <2>1, <2>2 DEF WInv, CliqueSpent
  <2>3. CASE u # t
    <3>1. \A v \in Threads : pc[v] = "init" => pc'[v] = "init"
      BY <1>1, <1>4
    <3> QED
      BY <1>4, <1>6, <2>1, <2>3, <3>1 DEF WInv, CliqueSpent
  <2> QED
    BY <2>2, <2>3
<1>12. NoneAnsweredInvalid'
  BY <1>1, <1>4 DEF WInv, NoneAnsweredInvalid, InCall
<1>13. NoneRefused'
  <2>1. req[t].status = "success"
    BY <1>1 DEF WInv, NoneAnsweredInvalid, InCall
  <2> QED
    BY <1>1, <1>2, <2>1 DEF WInv, NoneRefused
<1> QED
  BY <1>8, <1>9, <1>10, <1>11, <1>12, <1>13 DEF WInv

\* Handing a complete group to CNCL spends the clique of the process.
LEMMA CallInitCommsWInv ==
  ASSUME IInv, WInv, NEW t \in Threads, CallInitComms(t) PROVE WInv'
<1> DEFINE p == Home[t]
           k == group[p].clique
<1>1. /\ pc[t] = "loop" /\ ~req[t].done /\ GroupComplete(t)
      /\ joined' = [joined EXCEPT ![k] = @ \cup {<<p, req[u].rank>> : u \in active[p]}]
      /\ pc' = [pc EXCEPT ![t] = "init"]
      /\ UNCHANGED <<prog, req, result, comms, active, aborted>>
  BY DEF CallInitComms, coordinator
<1>2. /\ pc \in [Threads -> Locations] /\ p \in Processes
      /\ joined \in [Cliques -> SUBSET (Processes \X Int)]
  BY DEF IInv, TypeOK
<1>3. /\ t \in active[p] /\ Cardinality(active[p]) = group[p].expected
  BY <1>1, CompleterIsMember, ActiveApart DEF GroupComplete
<1>4. pc'[t] = "init" /\ \A u \in Threads : u # t => pc'[u] = pc[u]
  BY <1>1, <1>2
<1>5. \A u \in Threads : (InCall(u)' <=> InCall(u)) /\ (pc[u] = "init" => pc'[u] = "init")
                         /\ (pc'[u] # "idle" <=> pc[u] # "idle")
  BY <1>1, <1>4 DEF InCall
<1>6. \A u \in Threads : \A i : Answered(u, i)' <=> Answered(u, i)
  BY <1>1, <1>5 DEF Answered
<1>7. WellFormed(prog)' /\ CommsFresh'
  BY <1>1, <1>6, SameProgram DEF WInv, CommsFresh
<1>8. RequestsFit'
  BY <1>1, <1>5 DEF WInv, RequestsFit, Expected
<1>9. CliqueSpent'
  <2>1. SUFFICES ASSUME NEW q \in Processes, NEW j \in Cliques, \E x \in joined'[j] : x[1] = q,
                        NEW u \in Threads, Home[u] = q,
                        NEW i \in DOMAIN prog[u], prog[u][i].clique = j
                 PROVE  \/ Answered(u, i)
                        \/ /\ i = 1 /\ u \in active[q]
                           /\ \E v \in Threads : Home[v] = q /\ pc'[v] = "init"
    BY <1>1, <1>6 DEF CliqueSpent
  <2>2. CASE \E x \in joined[j] : x[1] = q
    BY <1>5, <2>1, <2>2 DEF WInv, CliqueSpent
  <2>3. CASE ~\E x \in joined[j] : x[1] = q
    <3>1. j = k /\ q = p
      BY <1>1, <1>2, <2>1, <2>3
    <3>2. i = 1 /\ u \in active[p]
      BY <1>2, <1>3, <2>1, <3>1, CompleteHasAll
    <3> QED
      BY <1>4, <3>1, <3>2
  <2> QED
    BY <2>2, <2>3
<1>10. NoneAnsweredInvalid' /\ NoneRefused'
  BY <1>1, <1>5 DEF WInv, NoneAnsweredInvalid, NoneRefused
<1> QED
  BY <1>7, <1>8, <1>9, <1>10 DEF WInv

\* The end of the group answers what the clique was spent on.
LEMMA FinishGroupWInv ==
  ASSUME IInv, WInv, NEW t \in Threads, FinishGroup(t) PROVE WInv'
<1> DEFINE p == Home[t]
<1>1. /\ p \in Processes /\ pc[t] = "init" /\ t \in active[p]
      /\ EndGroup(t, "success") /\ UNCHANGED joined
      /\ \A c \in Comms : (\A u \in active[p] : req[u].comm # c) => comms'[c] = comms[c]
  BY FinishGroupEffect
<1>2. /\ \A u \in Threads :
           /\ u \in active[p] => req'[u].done /\ req'[u].status = "success"
           /\ u \notin active[p] => req'[u] = req[u]
           /\ pc[u] # "init" => pc'[u] # "init"
           /\ u # t /\ pc[u] = "init" => pc'[u] = "init"
           /\ pc'[u] # "idle" => pc[u] # "idle"
           /\ InCall(u)' <=> InCall(u)
      /\ \A q \in Processes : q # p => active'[q] = active[q]
      /\ UNCHANGED <<prog, result, aborted>>
  <2>1. "success" \in {"success", "invalid"} /\ pc[t] \in {"loop", "init"}
    BY <1>1
  <2> QED
    BY <1>1, <2>1, EndGroupEffect
<1>3. \A u \in active[p] : u \in Threads /\ Home[u] = p /\ InCall(u)
  BY <1>1, ActiveApart
<1>4. \A u \in Threads : \A i : Answered(u, i) => Answered(u, i)'
  BY <1>2 DEF Answered
<1>5. \A u \in active[p] : Answered(u, 1)'
  BY <1>2, <1>3 DEF Answered
<1>6. ASSUME NEW u \in Threads, NEW i \in DOMAIN prog[u], ~Answered(u, i)'
      PROVE  comms'[prog[u][i].comm] = comms[prog[u][i].comm]
  <2>1. \A v \in active[p] : <<u, i>> # <<v, 1>>
    BY <1>5, <1>6
  <2>2. \A v \in active[p] : /\ v \in Threads /\ 1 \in DOMAIN prog[v]
                             /\ req[v].comm = prog[v][1].comm
    BY <1>1, ActiveApart, CurrentCall
  <2>3. \A v \in active[p] : req[v].comm # prog[u][i].comm
    BY <2>1, <2>2 DEF WInv, WellFormed
  <2>4. prog[u][i].comm \in Comms
    <3>1. prog[u] \in Seq(Call)
      BY DEF IInv, TypeOK
    <3>2. prog[u][i] \in Call
      BY <3>1
    <3> QED
      BY <3>2 DEF Call
  <2> QED
    BY <1>1, <2>3, <2>4
<1>7. WellFormed(prog)'
  <2>1. prog' = prog
    BY <1>2
  <2> QED
    BY <2>1, SameProgram DEF WInv
<1>8. CommsFresh'
  <2>1. SUFFICES ASSUME NEW u \in Threads, NEW i \in DOMAIN prog[u], ~Answered(u, i)'
                 PROVE  LET c == prog[u][i].comm IN
                        /\ comms'[c].intra = Null /\ comms'[c].inter = InitialComm[c].inter
                        /\ comms'[c].size = InitialComm[c].size
                        /\ comms'[c].local = InitialComm[c].local
    BY <1>2 DEF CommsFresh
  <2> QED
    BY <1>4, <1>6, <2>1 DEF WInv, CommsFresh
<1>9. RequestsFit'
  <2>1. SUFFICES ASSUME NEW u \in Threads, pc'[u] # "idle", ~req'[u].done
                 PROVE  /\ req'[u].expected = Expected(Head(prog[u]))
                        /\ comms'[req'[u].comm].dev = Head(prog[u]).dev
    BY <1>2 DEF RequestsFit, Expected
  <2>2. pc[u] # "idle" /\ req'[u] = req[u] /\ ~req[u].done
    BY <1>2, <2>1
  <2>3. 1 \in DOMAIN prog[u] /\ req[u].comm = prog[u][1].comm
    BY <2>2, CurrentCall
  <2>4. ~Answered(u, 1)'
    BY <2>1 DEF Answered
  <2> QED
    BY <1>6, <2>2, <2>3, <2>4 DEF WInv, RequestsFit
<1>10. CliqueSpent'
  <2>1. SUFFICES ASSUME NEW q \in Processes, NEW k \in Cliques, \E x \in joined[k] : x[1] = q,
                        NEW u \in Threads, Home[u] = q,
                        NEW i \in DOMAIN prog[u], prog[u][i].clique = k
                 PROVE  \/ Answered(u, i)'
                        \/ /\ i = 1 /\ u \in active'[q]
                           /\ \E v \in Threads : Home[v] = q /\ pc'[v] = "init"
    BY <1>1, <1>2 DEF CliqueSpent
  <2>2. \/ Answered(u, i)
        \/ /\ i = 1 /\ u \in active[q]
           /\ \E v \in Threads : Home[v] = q /\ pc[v] = "init"
    BY <2>1 DEF WInv, CliqueSpent
  <2>3. CASE q = p
    BY <1>4, <1>5, <2>2, <2>3
  <2>4. CASE q # p
    <3>1. \A v \in Threads : Home[v] = q /\ pc[v] = "init" => pc'[v] = "init"
      BY <1>2, <2>4
    <3> QED
      BY <1>2, <1>4, <2>2, <2>4, <3>1
  <2> QED
    BY <2>3, <2>4
<1>11. NoneAnsweredInvalid' /\ NoneRefused'
  BY <1>2 DEF WInv, NoneAnsweredInvalid, NoneRefused
<1> QED
  BY <1>7, <1>8, <1>9, <1>10, <1>11 DEF WInv

------------------------------------------------------------------------------
LEMMA StepWInv == ASSUME CallsWellFormed, IInv, WInv, [Next]_vars PROVE WInv'
<1>1. ASSUME NEW t \in Threads, Step(t) \/ SpuriousWake(t) \/ GetDeviceFails(t)
                                  \/ InitCommsFails(t)
      PROVE  WInv'
  <2>1. ~InitCommsFails(t)
    BY DEF CallsWellFormed, InitCommsFails
  <2> QED
    BY <1>1, <2>1, NoneEndsEarly, NoReject, NoRefuseClique, QuietWInv, EnterWInv, ReturnWInv,
       CallInitCommsWInv, FinishGroupWInv DEF Step, EndsEarly
<1>2. CASE UNCHANGED vars
  <2>1. UNCHANGED <<prog, pc, req, result, comms, active, joined, aborted>>
    BY <1>2 DEF vars, coordinator
  <2>2. WellFormed(prog)' /\ CommsFresh'
    BY <2>1, SameProgram DEF WInv, CommsFresh, Answered, InCall
  <2>3. RequestsFit' /\ CliqueSpent'
    BY <2>1 DEF WInv, RequestsFit, CliqueSpent, Answered, InCall, Expected
  <2>4. NoneAnsweredInvalid' /\ NoneRefused'
    BY <2>1 DEF WInv, NoneAnsweredInvalid, NoneRefused, InCall
  <2> QED
    BY <2>2, <2>3, <2>4 DEF WInv
<1> QED
  BY <1>1, <1>2 DEF Next

\* Well formed calls are never refused, by the checks of Apply, by
\* ValidateRequests or by CNCL, in whatever order the threads come: deferring
\* the requests of other groups keeps every group whole, and no clique is
\* handed to CNCL twice.
THEOREM NoRefusal == CallsWellFormed => (Spec => []NoneRefused)
<1> SUFFICES ASSUME CallsWellFormed PROVE Spec => []NoneRefused
  OBVIOUS
<1>1. Init => WInv
  BY InitWInv
<1>2. IInv /\ WInv /\ [Next]_vars => WInv'
  BY StepWInv
<1>3. WInv => NoneRefused
  BY DEF WInv
<1> QED
  BY SpecIInv, <1>1, <1>2, <1>3, PTL DEF Spec

-----------------------------------------------------------------------------
\* The calls a thread has made, all in all those of g.
Past(g, t) == Len(g[t]) - Len(prog[t])

Follows(g) ==
  \A t \in Threads :
    /\ Past(g, t) \in Nat
    /\ \A i \in DOMAIN prog[t] : prog[t][i] = g[t][Past(g, t) + i]

\* The i-th call of t has its answer.
Over(g, t, i) ==
  i <= Past(g, t) \/ (i = Past(g, t) + 1 /\ InCall(t) /\ req[t].done)

\* The calls of a process that name one clique are answered together, when
\* CNCL has all their ranks.
Together(g) ==
  \A t, u \in Threads : \A i \in DOMAIN g[t], j \in DOMAIN g[u] :
    Home[t] = Home[u] /\ g[t][i].clique = g[u][j].clique /\ Over(g, t, i) =>
      Over(g, u, j) /\ <<Home[u], g[u][j].rank>> \in joined[g[u][j].clique]

\* A thread in cnclInitComms has brought the ranks of all these calls.
AllJoined(g) ==
  \A t, u \in Threads : \A j \in DOMAIN g[u] :
    pc[t] = "init" /\ Home[t] = Home[u] /\ g[u][j].clique = group[Home[t]].clique =>
      <<Home[u], g[u][j].rank>> \in joined[g[u][j].clique]

RInv(g) == Follows(g) /\ Together(g) /\ AllJoined(g)

\* What Together says of two calls.
LEMMA Alike ==
  ASSUME NEW g, RInv(g), NEW t \in Threads, NEW u \in Threads,
         NEW i \in DOMAIN g[t], NEW j \in DOMAIN g[u],
         Home[t] = Home[u], g[t][i].clique = g[u][j].clique, Over(g, t, i)
  PROVE  Over(g, u, j) /\ <<Home[u], g[u][j].rank>> \in joined[g[u][j].clique]
BY DEF RInv, Together

\* What is left of a program.
LEMMA Placed ==
  ASSUME IInv, NEW g \in [Threads -> Seq(Call)], Follows(g), NEW t \in Threads
  PROVE  /\ Past(g, t) \in Nat
         /\ \A i \in DOMAIN prog[t] : /\ i \in Nat \ {0} /\ Past(g, t) + i \in DOMAIN g[t]
                                      /\ prog[t][i] = g[t][Past(g, t) + i]
         /\ \A i \in DOMAIN g[t] : /\ i \in Nat \ {0}
                                   /\ i > Past(g, t) => /\ i - Past(g, t) \in DOMAIN prog[t]
                                                        /\ Past(g, t) + 1 \in DOMAIN g[t]
                                                        /\ prog[t] # <<>>
<1>1. /\ prog[t] \in Seq(Call) /\ g[t] \in Seq(Call)
  BY DEF IInv, TypeOK
<1>2. /\ DOMAIN prog[t] = 1 .. Len(prog[t]) /\ DOMAIN g[t] = 1 .. Len(g[t])
      /\ Len(prog[t]) \in Nat /\ Len(g[t]) \in Nat
  BY <1>1
<1>3. Past(g, t) \in Nat /\ Past(g, t) = Len(g[t]) - Len(prog[t])
  BY DEF Follows, Past
<1>4. \A i \in DOMAIN prog[t] : prog[t][i] = g[t][Past(g, t) + i]
  BY DEF Follows
<1>5. \A i \in DOMAIN g[t] : i > Past(g, t) => Len(prog[t]) > 0
  BY <1>2, <1>3
<1>6. Len(prog[t]) > 0 => prog[t] # <<>>
  BY <1>1
<1> QED
  BY <1>2, <1>3, <1>4, <1>5, <1>6

\* The call an unanswered request is made for.
LEMMA PendingCall ==
  ASSUME IInv, WInv, NEW g \in [Threads -> Seq(Call)], Follows(g),
         NEW u \in Threads, InCall(u), ~req[u].done, NEW i, i = Past(g, u) + 1
  PROVE  /\ i \in DOMAIN g[u] /\ g[u][i] = prog[u][1] /\ 1 \in DOMAIN prog[u]
         /\ ~Over(g, u, i) /\ i \in Nat
         /\ g[u][i].clique = req[u].clique /\ g[u][i].comm = req[u].comm
         /\ g[u][i].nranks = req[u].nranks /\ g[u][i].rank = req[u].rank
         /\ Expected(g[u][i]) = req[u].expected
<1>1. pc[u] # "idle"
  BY DEF InCall
<1>2. 1 \in DOMAIN prog[u] /\ i \in DOMAIN g[u] /\ prog[u][1] = g[u][i] /\ Past(g, u) \in Nat
  BY <1>1, CurrentCall, Placed
<1>3. ~Over(g, u, i)
  BY <1>2 DEF Over
<1> QED
  BY <1>1, <1>2, <1>3, CurrentCall

\* A request of the active group.
LEMMA MemberCall ==
  ASSUME IInv, WInv, NEW g \in [Threads -> Seq(Call)], Follows(g),
         NEW p \in Processes, NEW u \in active[p], NEW i, i = Past(g, u) + 1
  PROVE  /\ u \in Threads /\ Home[u] = p /\ i \in DOMAIN g[u] /\ ~Over(g, u, i)
         /\ g[u][i].clique = group[p].clique /\ g[u][i].nranks = group[p].nranks
         /\ Expected(g[u][i]) = group[p].expected
         /\ g[u][i].comm = req[u].comm /\ g[u][i].rank = req[u].rank
BY ActiveApart, PendingCall

\* Once the group of a clique is complete it has all calls that name it.
LEMMA CallersAreMembers ==
  ASSUME IInv, WInv, NEW g \in [Threads -> Seq(Call)], RInv(g),
         NEW p \in Processes, NEW t \in active[p], Cardinality(active[p]) = group[p].expected,
         NEW u \in Threads, Home[u] = p, NEW j \in DOMAIN g[u],
         g[u][j].clique = group[p].clique
  PROVE  j = Past(g, u) + 1 /\ u \in active[p]
<1>1. ~Over(g, u, j)
  <2> DEFINE i == Past(g, t) + 1
  <2>1. Follows(g)
    BY DEF RInv
  <2>2. /\ t \in Threads /\ Home[t] = p /\ i \in DOMAIN g[t]
        /\ ~Over(g, t, i) /\ g[t][i].clique = group[p].clique
    BY <2>1, MemberCall
  <2> HIDE DEF i
  <2> QED
    BY <2>2, Alike
<1>2. Past(g, u) \in Nat /\ j \in Nat
  BY Placed DEF RInv
<1>3. j > Past(g, u)
  BY <1>1, <1>2 DEF Over
<1>4. /\ j - Past(g, u) \in DOMAIN prog[u]
      /\ prog[u][j - Past(g, u)] = g[u][Past(g, u) + (j - Past(g, u))]
  BY <1>3, Placed DEF RInv
<1>5. prog[u][j - Past(g, u)] = g[u][j]
  BY <1>2, <1>4
<1>6. j - Past(g, u) = 1 /\ u \in active[p]
  BY <1>4, <1>5, CompleteHasAll
<1> QED
  BY <1>2, <1>6

LEMMA InitRInv ==
  ASSUME Init, NEW g, g = prog PROVE RInv(g)
<1>1. prog \in [Threads -> Seq(Call)]
  BY ProgramsAssumption DEF Init
<1>2. \A t \in Threads : Past(g, t) = 0 /\ \A i \in DOMAIN prog[t] : i \in Nat \ {0}
  BY <1>1 DEF Past
<1>3. Follows(g)
  BY <1>1, <1>2 DEF Follows
<1>4. \A t \in Threads : \A i \in DOMAIN g[t] : ~Over(g, t, i)
  BY <1>1, <1>2 DEF Over, Init, InCall
<1>5. Together(g) /\ AllJoined(g)
  BY <1>4 DEF Together, AllJoined, Init
<1> QED
  BY <1>3, <1>5 DEF RInv

\* Steps that answer no call and enter no clique.
LEMMA QuietRInv ==
  ASSUME NEW g, RInv(g), UNCHANGED <<prog, joined>>,
         \A u \in Threads : /\ InCall(u)' /\ req'[u].done <=> InCall(u) /\ req[u].done
                            /\ pc'[u] = "init" =>
                                 pc[u] = "init" /\ group'[Home[u]] = group[Home[u]]
  PROVE  RInv(g)'
<1>1. \A u \in Threads : \A i : Over(g, u, i)' <=> Over(g, u, i)
  BY DEF Over, Past
<1>2. Follows(g)'
  BY DEF RInv, Follows, Past
<1>3. Together(g)'
  BY <1>1 DEF RInv, Together
<1>4. AllJoined(g)'
  BY DEF RInv, AllJoined
<1> QED
  BY <1>2, <1>3, <1>4 DEF RInv

\* Entering, joining a group, waiting and waking.
LEMMA WaitingRInv ==
  ASSUME IInv, NEW g, RInv(g), NEW t \in Threads,
         Enter(t) \/ JoinActive(t) \/ JoinDeferred(t) \/ Wait(t) \/ Wake(t) \/ SpuriousWake(t)
  PROVE  RInv(g)'
<1>1. /\ pc \in [Threads -> Locations] /\ req \in [Threads -> Request \cup {Null}]
      /\ group \in [Processes -> Key]
  BY DEF IInv, TypeOK
<1>2. UNCHANGED <<prog, joined>>
  BY DEF Enter, Calls, JoinActive, JoinDeferred, Wait, Wake, SpuriousWake
<1>3. ASSUME NEW u \in Threads
      PROVE  /\ InCall(u)' /\ req'[u].done <=> InCall(u) /\ req[u].done
             /\ pc'[u] = "init" => pc[u] = "init"
  <2>1. CASE Enter(t)
    BY <1>1, <2>1 DEF Enter, Calls, InCall
  <2>2. CASE JoinActive(t) \/ JoinDeferred(t)
    <3>1. pc[t] = "enter" /\ pc' = [pc EXCEPT ![t] = "loop"] /\ req' = req
      BY <2>2 DEF JoinActive, JoinDeferred
    <3>2. ~req[t].done
      BY <3>1 DEF IInv, RequestInFrame
    <3> QED
      BY <1>1, <3>1, <3>2 DEF InCall
  <2>3. CASE Wait(t) \/ Wake(t) \/ SpuriousWake(t)
    <3>1. /\ req' = req /\ pc[t] \in {"loop", "waiting", "notified"}
          /\ \E l \in {"loop", "waiting"} : pc' = [pc EXCEPT ![t] = l]
      BY <2>3 DEF Wait, Wake, SpuriousWake
    <3> QED
      BY <1>1, <3>1 DEF InCall
  <2> QED
    BY <2>1, <2>2, <2>3
<1>4. ASSUME NEW u \in Threads, pc[u] = "init" PROVE group'[Home[u]] = group[Home[u]]
  <2>1. CASE JoinActive(t)
    <3>1. Home[u] # Home[t]
      BY <1>4, <2>1 DEF JoinActive, MutexFree
    <3> QED
      BY <1>1, <2>1, <3>1 DEF JoinActive
  <2>2. CASE ~JoinActive(t)
    BY <2>2 DEF Enter, JoinDeferred, Wait, Wake, SpuriousWake, coordinator
  <2> QED
    BY <2>1, <2>2
<1> QED
  BY <1>2, <1>3, <1>4, QuietRInv

\* A call that returns was answered before.
LEMMA ReturnRInv ==
  ASSUME IInv, WInv, NEW g \in [Threads -> Seq(Call)], RInv(g), NEW t \in Threads, Return(t)
  PROVE  RInv(g)'
<1>1. /\ pc[t] = "loop" /\ req[t].done
      /\ prog' = [prog EXCEPT ![t] = Tail(@)]
      /\ pc' = [pc EXCEPT ![t] = "idle"]
      /\ UNCHANGED <<req, group, joined>>
  BY DEF Return, coordinator
<1>2. pc \in [Threads -> Locations] /\ prog \in [Threads -> Seq(Call)]
  BY DEF IInv, TypeOK
<1>3. prog[t] \in Seq(Call) /\ prog[t] # <<>>
  BY <1>1, <1>2 DEF IInv, RequestInFrame
<1>4. /\ \A u \in Threads : u # t => prog'[u] = prog[u] /\ pc'[u] = pc[u]
      /\ prog'[t] = Tail(prog[t]) /\ pc'[t] = "idle"
  BY <1>1, <1>2
<1>5. /\ Len(prog'[t]) = Len(prog[t]) - 1 /\ Len(prog[t]) \in Nat \ {0}
      /\ \A i \in DOMAIN prog'[t] : i + 1 \in DOMAIN prog[t] /\ prog'[t][i] = prog[t][i + 1]
                                    /\ i \in Nat
  BY <1>3, <1>4
<1>6. Len(g[t]) \in Nat /\ Past(g, t) \in Nat
  BY DEF RInv, Follows
<1>7. Past(g, t)' = Past(g, t) + 1
  BY <1>5, <1>6 DEF Past
<1>8. \A u \in Threads : u # t => Past(g, u)' = Past(g, u)
  BY <1>4 DEF Past
<1>9. ASSUME NEW u \in Threads, NEW i \in DOMAIN g[u] PROVE Over(g, u, i)' <=> Over(g, u, i)
  <2>1. i \in Nat
    BY Placed DEF RInv
  <2>2. CASE u = t
    <3>1. ~InCall(t)' /\ InCall(t)
      BY <1>1, <1>4 DEF InCall
    <3> QED
      BY <1>1, <1>6, <1>7, <2>1, <2>2, <3>1 DEF Over
  <2>3. CASE u # t
    BY <1>1, <1>4, <1>8, <2>3 DEF Over, InCall
  <2> QED
    BY <2>2, <2>3
<1>10. Follows(g)'
  <2>1. ASSUME NEW u \in Threads
        PROVE  /\ Past(g, u)' \in Nat
               /\ \A i \in DOMAIN prog'[u] : prog'[u][i] = g[u][Past(g, u)' + i]
    <3>1. CASE u = t
      <4>1. ASSUME NEW i \in DOMAIN prog'[t] PROVE prog'[t][i] = g[t][Past(g, t)' + i]
        <5>1. prog'[t][i] = g[t][Past(g, t) + (i + 1)]
          <6>1. i + 1 \in DOMAIN prog[t] /\ prog'[t][i] = prog[t][i + 1]
            BY <1>5
          <6> QED
            BY <6>1 DEF RInv, Follows
        <5>2. i \in Nat
          BY <1>5
        <5>3. Past(g, t) + (i + 1) = (Past(g, t) + 1) + i
          BY <1>6, <5>2
        <5> QED
          BY <1>7, <5>1, <5>3
      <4> QED
        BY <1>6, <1>7, <3>1, <4>1
    <3>2. CASE u # t
      BY <1>4, <1>8, <3>2 DEF RInv, Follows
    <3> QED
      BY <3>1, <3>2
  <2> QED
    BY <2>1 DEF Follows
<1>11. Together(g)'
  BY <1>1, <1>9 DEF RInv, Together
<1>12. AllJoined(g)'
  BY <1>1, <1>4 DEF RInv, AllJoined
<1> QED
  BY <1>10, <1>11, <1>12 DEF RInv

\* cnclInitComms gets the ranks of all calls that name the clique.
LEMMA CallInitCommsRInv ==
  ASSUME IInv, WInv, NEW g \in [Threads -> Seq(Call)], RInv(g), NEW t \in Threads,
         CallInitComms(t)
  PROVE  RInv(g)'
<1> DEFINE p == Home[t]
           k == group[p].clique
<1>1. /\ pc[t] = "loop" /\ ~req[t].done /\ GroupComplete(t)
      /\ joined' = [joined EXCEPT ![k] = @ \cup {<<p, req[u].rank>> : u \in active[p]}]
      /\ pc' = [pc EXCEPT ![t] = "init"]
      /\ UNCHANGED <<prog, req, group>>
  BY DEF CallInitComms, coordinator
<1>2. /\ pc \in [Threads -> Locations] /\ p \in Processes
      /\ joined \in [Cliques -> SUBSET (Processes \X Int)]
  BY DEF IInv, TypeOK
<1>3. /\ t \in active[p] /\ Cardinality(active[p]) = group[p].expected
  BY <1>1, CompleterIsMember, ActiveApart DEF GroupComplete
<1>4. pc'[t] = "init" /\ \A u \in Threads : u # t => pc'[u] = pc[u]
  BY <1>1, <1>2
<1>5. \A u \in Threads : \A i : Over(g, u, i)' <=> Over(g, u, i)
  <2>1. \A u \in Threads : InCall(u)' <=> InCall(u)
    BY <1>1, <1>4 DEF InCall
  <2> QED
    BY <1>1, <2>1 DEF Over, Past
<1>6. \A l \in Cliques : joined[l] \subseteq joined'[l]
  BY <1>1, <1>2
<1>7. \A u \in Threads : \A j \in DOMAIN g[u] : g[u][j].clique \in Cliques
  <2>1. ASSUME NEW u \in Threads, NEW j \in DOMAIN g[u] PROVE g[u][j].clique \in Cliques
    <3>1. g[u] \in Seq(Call)
      OBVIOUS
    <3>2. g[u][j] \in Call
      BY <3>1
    <3> QED
      BY <3>2 DEF Call
  <2> QED
    BY <2>1
<1>8. Follows(g)'
  BY <1>1 DEF RInv, Follows, Past
<1>9. Together(g)'
  <2>1. SUFFICES ASSUME NEW v \in Threads, NEW u \in Threads, NEW i \in DOMAIN g[v],
                        NEW j \in DOMAIN g[u], Home[v] = Home[u],
                        g[v][i].clique = g[u][j].clique, Over(g, v, i)'
                 PROVE  Over(g, u, j)' /\ <<Home[u], g[u][j].rank>> \in joined'[g[u][j].clique]
    BY DEF Together
  <2>2. Over(g, u, j) /\ <<Home[u], g[u][j].rank>> \in joined[g[u][j].clique]
    BY <1>5, <2>1 DEF RInv, Together
  <2> QED
    BY <1>5, <1>6, <1>7, <2>2
<1>10. AllJoined(g)'
  <2>1. SUFFICES ASSUME NEW v \in Threads, NEW u \in Threads, NEW j \in DOMAIN g[u],
                        pc'[v] = "init", Home[v] = Home[u],
                        g[u][j].clique = group[Home[v]].clique
                 PROVE  <<Home[u], g[u][j].rank>> \in joined'[g[u][j].clique]
    BY <1>1 DEF AllJoined
  <2>2. CASE v = t
    <3>1. j = Past(g, u) + 1 /\ u \in active[p]
      BY <1>2, <1>3, <2>1, <2>2, CallersAreMembers
    <3>2. g[u][j].rank = req[u].rank
      <4>1. g[u][Past(g, u) + 1].rank = req[u].rank
        <5>1. Follows(g) /\ p \in Processes /\ u \in active[p]
          BY <1>2, <3>1 DEF RInv
        <5> QED
          BY <5>1, MemberCall
      <4> QED
        BY <3>1, <4>1
    <3> QED
      BY <1>1, <1>2, <1>7, <2>1, <2>2, <3>1, <3>2
  <2>3. CASE v # t
    BY <1>4, <1>6, <1>7, <2>1, <2>3 DEF RInv, AllJoined
  <2> QED
    BY <2>2, <2>3
<1> QED
  BY <1>8, <1>9, <1>10 DEF RInv

\* The end of the group answers all of them.
LEMMA FinishGroupRInv ==
  ASSUME IInv, WInv, NEW g \in [Threads -> Seq(Call)], RInv(g), NEW t \in Threads,
         FinishGroup(t)
  PROVE  RInv(g)'
<1> DEFINE p == Home[t]
<1>1. /\ p \in Processes /\ pc[t] = "init" /\ t \in active[p]
      /\ EndGroup(t, "success") /\ UNCHANGED joined
  BY FinishGroupEffect
<1>2. /\ \A u \in Threads :
           /\ u \in active[p] => req'[u].done
           /\ u \notin active[p] => req'[u] = req[u]
           /\ u # t /\ pc'[u] = "init" => pc[u] = "init"
           /\ pc'[t] = "loop"
           /\ InCall(u)' <=> InCall(u)
      /\ \A q \in Processes : q # p => group'[q] = group[q]
      /\ UNCHANGED prog
  <2>1. "success" \in {"success", "invalid"} /\ pc[t] \in {"loop", "init"}
    BY <1>1
  <2>2. /\ \A u \in Threads :
             /\ u \in active[p] => req'[u].done
             /\ u \notin active[p] => req'[u] = req[u]
             /\ InCall(u)' <=> InCall(u)
        /\ \A q \in Processes : q # p => group'[q] = group[q]
        /\ UNCHANGED prog
    BY <1>1, <2>1, EndGroupEffect
  <2>3. \A u \in Threads :
          /\ u = t => pc'[u] = "loop"
          /\ u # t /\ Home[u] = p /\ pc[u] = "waiting" => pc'[u] = "notified"
          /\ u # t /\ ~(Home[u] = p /\ pc[u] = "waiting") => pc'[u] = pc[u]
    BY <1>1, <2>1, EndGroupEffect
  <2> QED
    BY <2>2, <2>3
<1>3. Cardinality(active[p]) = group[p].expected
  BY <1>1 DEF IInv, GroupStaysValid
<1>4. \A u \in active[p] : u \in Threads /\ Home[u] = p /\ InCall(u)
  BY <1>1, ActiveApart
<1>5. \A u \in Threads : \A i :
        Over(g, u, i)' <=> Over(g, u, i) \/ (u \in active[p] /\ i = Past(g, u) + 1)
  BY <1>2, <1>4 DEF Over, Past
<1>6. Follows(g)'
  BY <1>2 DEF RInv, Follows, Past
<1>7. Together(g)'
  <2>1. SUFFICES ASSUME NEW v \in Threads, NEW u \in Threads, NEW i \in DOMAIN g[v],
                        NEW j \in DOMAIN g[u], Home[v] = Home[u],
                        g[v][i].clique = g[u][j].clique, Over(g, v, i)'
                 PROVE  Over(g, u, j)' /\ <<Home[u], g[u][j].rank>> \in joined[g[u][j].clique]
    BY <1>1 DEF Together
  <2>2. CASE Over(g, v, i)
    BY <1>5, <2>1, <2>2 DEF RInv, Together
  <2>3. CASE v \in active[p] /\ i = Past(g, v) + 1
    <3>1. Home[v] = p /\ g[v][i].clique = group[p].clique
      BY <1>1, <2>3, MemberCall DEF RInv
    <3>2. j = Past(g, u) + 1 /\ u \in active[p]
      BY <1>1, <1>3, <2>1, <3>1, CallersAreMembers
    <3> QED
      BY <1>1, <1>5, <2>1, <3>1, <3>2 DEF RInv, AllJoined
  <2> QED
    BY <1>5, <2>1, <2>2, <2>3
<1>8. AllJoined(g)'
  <2>1. ASSUME NEW v \in Threads, pc'[v] = "init"
        PROVE  pc[v] = "init" /\ group'[Home[v]] = group[Home[v]]
    <3>1. v # t /\ pc[v] = "init"
      BY <1>2, <2>1
    <3>2. Home[v] # p /\ Home[v] \in Processes
      BY <1>1, <3>1 DEF IInv, MutualExclusion
    <3> QED
      BY <1>2, <3>1, <3>2
  <2> QED
    BY <1>1, <2>1 DEF RInv, AllJoined
<1> QED
  BY <1>6, <1>7, <1>8 DEF RInv

LEMMA StepRInv ==
  ASSUME CallsWellFormed, IInv, WInv, NEW g \in [Threads -> Seq(Call)], RInv(g), [Next]_vars
  PROVE  RInv(g)'
<1>1. ASSUME NEW t \in Threads, Step(t) \/ SpuriousWake(t) \/ GetDeviceFails(t)
                                  \/ InitCommsFails(t)
      PROVE  RInv(g)'
  <2>1. ~InitCommsFails(t)
    BY DEF CallsWellFormed, InitCommsFails
  <2> QED
    BY <1>1, <2>1, NoneEndsEarly, NoReject, NoRefuseClique, WaitingRInv, ReturnRInv,
       CallInitCommsRInv, FinishGroupRInv DEF Step, EndsEarly
<1>2. CASE UNCHANGED vars
  <2>1. UNCHANGED <<prog, joined, pc, req, group>>
    BY <1>2 DEF vars, coordinator
  <2> QED
    BY <2>1, QuietRInv DEF InCall
<1> QED
  BY <1>1, <1>2 DEF Next

------------------------------------------------------------------------------
\* A set of naturals that is not empty has a least element.
LEMMA LeastTurn ==
  ASSUME NEW S \in SUBSET Nat, S # {}
  PROVE  \E m \in S : \A q \in S : ~(q < m)
<1> DEFINE R == OpToRel(<, Nat)
<1>1. IsWellFoundedOn(R, Nat)
  BY NatLessThanWellFounded
<1> HIDE DEF R
<1>2. PICK m \in S : \A q \in S : ~(<<q, m>> \in R)
  BY <1>1, WFMin
<1> QED
  BY <1>2 DEF R, OpToRel

\* A call that a thread has made before its pending one is over.
LEMMA EarlierOver ==
  ASSUME IInv, NEW g \in [Threads -> Seq(Call)], Follows(g), NEW t \in Threads,
         NEW k \in Before(g, t, Past(g, t) + 1), Past(g, t) + 1 \in DOMAIN g[t]
  PROVE  \E j \in DOMAIN g[t] : g[t][j].clique = k /\ Over(g, t, j)
<1>1. PICK j \in 1 .. (Past(g, t) + 1) - 1 : g[t][j].clique = k
  BY DEF Before
<1>2. Past(g, t) \in Nat /\ g[t] \in Seq(Call)
  BY DEF Follows
<1>3. j \in DOMAIN g[t] /\ j <= Past(g, t)
  BY <1>1, <1>2
<1> QED
  BY <1>1, <1>3 DEF Over

\* The threads of a process are never all asleep with calls to make.
LEMMA NotAllAsleep ==
  ASSUME IInv, WInv, NEW g \in [Threads -> Seq(Call)], RInv(g), Attended(g), InTurn(g),
         NEW p \in Processes, NEW t \in Threads, Home[t] = p, prog[t] # <<>>
  PROVE  \E u \in Threads : Home[u] = p /\ prog[u] # <<>> /\ pc[u] # "waiting"
<1> SUFFICES ASSUME \A u \in Threads : Home[u] = p /\ prog[u] # <<>> => pc[u] = "waiting"
             PROVE  FALSE
  OBVIOUS
<1> DEFINE k == group[p].clique
           S == Passed(g, p, k)
           next(u) == Past(g, u) + 1
<1>1. \A u \in Threads : Home[u] = p /\ prog[u] # <<>> =>
        /\ pc[u] = "waiting" /\ InCall(u) /\ ~req[u].done
        /\ u \in active[p] \cup deferred[p]
  BY DEF IInv, NoLostWakeup, InCall, NoDanglingRequest
<1>2. PICK a \in active[p] : TRUE
  BY <1>1 DEF IInv, OneActiveGroup
<1>3. /\ a \in Threads /\ Home[a] = p /\ next(a) \in DOMAIN g[a] /\ ~Over(g, a, next(a))
      /\ g[a][next(a)].clique = k /\ Expected(g[a][next(a)]) = group[p].expected
  BY <1>2, MemberCall DEF RInv
<1>4. Cardinality(active[p]) # group[p].expected
  <2>1. \A u \in active[p] : pc[u] = "waiting"
    BY <1>1, ActiveApart DEF IInv, RequestInFrame
  <2> QED
    BY <1>2, <2>1 DEF IInv, NoLostWakeup
<1>5. ASSUME NEW u \in Threads, Home[u] = p, NEW j \in DOMAIN g[u], g[u][j].clique = k
      PROVE  u \in active[p] /\ j = next(u)
  <2>1. ~Over(g, u, j)
    <3> DEFINE i == next(a)
    <3>1. i \in DOMAIN g[a] /\ ~Over(g, a, i) /\ g[a][i].clique = k
      BY <1>3
    <3> HIDE DEF i, k
    <3> QED
      BY <1>3, <1>5, <3>1, Alike
  <2>2. /\ Past(g, u) \in Nat /\ j \in Nat /\ j > Past(g, u)
        /\ prog[u] # <<>> /\ next(u) \in DOMAIN g[u]
    <3>1. Past(g, u) \in Nat /\ j \in Nat
      BY Placed DEF RInv
    <3>2. j > Past(g, u)
      BY <2>1, <3>1 DEF Over
    <3> QED
      BY <3>1, <3>2, Placed DEF RInv
  <2>3. pc[u] = "waiting" /\ InCall(u) /\ ~req[u].done /\ u \in active[p] \cup deferred[p]
    BY <1>1, <1>5, <2>2
  <2>4. j = next(u)
    <3>1. SUFFICES ASSUME j # next(u) PROVE FALSE
      OBVIOUS
    <3>2. next(u) \in 1 .. j - 1
      BY <2>2, <3>1
    <3>3. g[u][next(u)].clique \in Before(g, u, j)
      BY <3>2 DEF Before
    <3>4. Before(g, u, j) = Before(g, a, next(a))
      BY <1>3, <1>5 DEF InTurn
    <3>5. PICK i \in DOMAIN g[a] : g[a][i].clique = g[u][next(u)].clique /\ Over(g, a, i)
      BY <1>3, <3>3, <3>4, EarlierOver DEF RInv
    <3>6. Over(g, u, next(u))
      <4> DEFINE m == next(u)
      <4>1. m \in DOMAIN g[u] /\ g[a][i].clique = g[u][m].clique
        BY <2>2, <3>5
      <4> HIDE DEF m
      <4>2. Over(g, u, m)
        BY <1>3, <1>5, <3>5, <4>1, Alike
      <4> QED
        BY <4>2 DEF m
    <3> QED
      BY <2>2, <2>3, <3>6 DEF Over
  <2>5. KeyOf(u) = group[p]
    <3>1. CASE u = a
      BY <1>2, <1>3, <3>1 DEF IInv, OneActiveGroup, IsSameGroup
    <3>2. CASE u # a
      <4>1. /\ 1 \in DOMAIN prog[u] /\ prog[u][1].clique = k
            /\ req[u].clique = k /\ req[u].nranks = prog[u][1].nranks
            /\ req[u].expected = Expected(prog[u][1])
        <5>1. g[u][next(u)].clique = k
          BY <1>5, <2>4
        <5> QED
          BY <2>3, <5>1, PendingCall, CurrentCall DEF RInv, InCall
      <4>2. /\ 1 \in DOMAIN prog[a] /\ prog[a][1].clique = k
            /\ group[p].nranks = prog[a][1].nranks
            /\ group[p].expected = Expected(prog[a][1])
        BY <1>2, ActiveApart, CurrentCall
      <4>3. Compatible(prog[u][1], prog[a][1])
        <5>1. <<u, 1>> # <<a, 1>>
          BY <3>2
        <5> QED
          BY <1>3, <1>5, <4>1, <4>2, <5>1 DEF WInv, WellFormed
      <4>4. group[p] \in Key
        BY DEF IInv, TypeOK
      <4> QED
        BY <4>1, <4>2, <4>3, <4>4 DEF Compatible, KeyOf, Key
    <3> QED
      BY <3>1, <3>2
  <2>6. u \notin deferred[p]
    BY <1>5, <2>5 DEF IInv, OneActiveGroup, IsSameGroup
  <2> QED
    BY <2>3, <2>4, <2>6
<1>6. Cardinality(active[p]) = Cardinality(S)
  <2> DEFINE f == [u \in active[p] |-> req[u].comm]
  <2>1. \A u \in active[p] : /\ u \in Threads /\ Home[u] = p /\ next(u) \in DOMAIN g[u]
                             /\ g[u][next(u)].clique = k /\ g[u][next(u)].comm = req[u].comm
                             /\ req[u].comm \in Comms
    BY MemberCall, Queued DEF RInv
  <2>2. f \in [active[p] -> S]
    BY <2>1 DEF Passed
  <2>3. \A u, v \in active[p] : f[u] = f[v] => u = v
    BY ActiveApart
  <2>4. \A c \in S : \E u \in active[p] : f[u] = c
    <3>1. SUFFICES ASSUME NEW c \in S PROVE \E u \in active[p] : req[u].comm = c
      OBVIOUS
    <3>2. PICK u \in Threads : Home[u] = p /\ \E j \in DOMAIN g[u] :
                                   g[u][j].comm = c /\ g[u][j].clique = k
      BY DEF Passed
    <3>3. PICK j \in DOMAIN g[u] : g[u][j].comm = c /\ g[u][j].clique = k
      BY <3>2
    <3>4. u \in active[p] /\ j = next(u)
      BY <1>5, <3>2, <3>3
    <3> QED
      BY <2>1, <3>3, <3>4
  <2>5. f \in Bijection(active[p], S)
    <3> HIDE DEF f, S
    <3> QED
      BY <2>2, <2>3, <2>4 DEF Bijection, Injection, Surjection, IsInjective
  <2>6. ExistsBijection(active[p], S)
    BY <2>5 DEF ExistsBijection
  <2>7. IsFiniteSet(active[p])
    <3>1. active[p] \subseteq Threads
      BY DEF IInv, TypeOK
    <3> QED
      BY <3>1, FS_Subset
  <2> HIDE DEF f, S
  <2> QED
    BY <2>6, <2>7, FS_Bijection
<1>7. Cardinality(S) = group[p].expected
  BY <1>3 DEF Attended
<1> QED
  BY <1>4, <1>6, <1>7

\* If no thread goes on, one of each process with calls to make is in
\* cnclInitComms.
LEMMA OneInside ==
  ASSUME IInv, WInv, NEW g \in [Threads -> Seq(Call)], RInv(g), Attended(g), InTurn(g),
         \A u \in Threads : ~GoesOn(u), NEW t \in Threads, prog[t] # <<>>
  PROVE  \E h \in Threads : Home[h] = Home[t] /\ pc[h] = "init"
<1> DEFINE p == Home[t]
<1> SUFFICES ASSUME \A h \in Threads : Home[h] = p => pc[h] # "init"
             PROVE  FALSE
  OBVIOUS
<1>1. \A u \in Threads : Running(u) /\ (pc[u] # "idle" => prog[u] # <<>>)
  BY DEF WInv, NoneRefused, Running, IInv, RequestInFrame
<1>2. \A u \in Threads : Home[u] = p => pc[u] # "loop"
  BY <1>1 DEF GoesOn
<1>3. MutexFree(p)
  BY <1>2 DEF MutexFree
<1>4. p \in Processes
  OBVIOUS
<1>5. PICK u \in Threads : Home[u] = p /\ prog[u] # <<>> /\ pc[u] # "waiting"
  BY <1>4, NotAllAsleep
<1>6. GoesOn(u)
  BY <1>1, <1>3, <1>5 DEF GoesOn
<1> QED
  BY <1>6

\* What a thread in cnclInitComms still waits for: a rank of its clique that a
\* thread of another process has to bring.
LEMMA WaitsForOther ==
  ASSUME IInv, WInv, NEW g \in [Threads -> Seq(Call)], RInv(g), Attended(g),
         NEW h \in Threads, pc[h] = "init", ~GoesOn(h)
  PROVE  /\ Past(g, h) + 1 \in DOMAIN g[h] /\ group[Home[h]].clique \in Cliques
         /\ g[h][Past(g, h) + 1].clique = group[Home[h]].clique
         /\ \E u \in Threads : \E j \in DOMAIN g[u] :
              /\ Home[u] # Home[h] /\ g[u][j].clique = group[Home[h]].clique
              /\ <<Home[u], g[u][j].rank>> \notin joined[g[u][j].clique]
              /\ ~Over(g, u, j) /\ prog[u] # <<>>
<1> DEFINE p == Home[h]
           k == group[p].clique
           i == Past(g, h) + 1
<1>1. p \in Processes /\ h \in active[p] /\ k \in Cliques
  BY DEF IInv, GroupStaysValid
<1>2. i \in DOMAIN g[h] /\ g[h][i].clique = k /\ g[h][i].nranks = group[p].nranks
  BY <1>1, MemberCall DEF RInv
<1>3. ~CliqueReady(k, group[p].nranks)
  BY DEF GoesOn, WInv, NoneRefused, Running, IInv, RequestInFrame
<1>4. PICK r \in 0 .. group[p].nranks - 1 : \A x \in joined[k] : x[2] # r
  BY <1>3 DEF CliqueReady
<1>5. PICK u \in Threads : \E j \in DOMAIN g[u] : g[u][j].clique = k /\ g[u][j].rank = r
  BY <1>2, <1>4 DEF Attended
<1>6. PICK j \in DOMAIN g[u] : g[u][j].clique = k /\ g[u][j].rank = r
  BY <1>5
<1>7. <<Home[u], g[u][j].rank>> \notin joined[g[u][j].clique]
  <2>1. <<Home[u], r>>[2] = r
    OBVIOUS
  <2> QED
    BY <1>4, <1>6, <2>1
<1>8. Home[u] # p
  BY <1>6, <1>7 DEF RInv, AllJoined
<1>9. ~Over(g, u, j)
  BY <1>7 DEF RInv, Together
<1>10. prog[u] # <<>>
  <2>1. Past(g, u) \in Nat /\ j \in Nat
    BY Placed DEF RInv
  <2>2. j > Past(g, u)
    BY <1>9, <2>1 DEF Over
  <2> QED
    BY <2>2, Placed DEF RInv
<1> QED
  BY <1>1, <1>2, <1>6, <1>7, <1>8, <1>9, <1>10

\* Of the cliques that threads are in cnclInitComms for, the first in turn
\* would be waiting for a process that has it behind.
LEMMA SomeoneGoesOn ==
  ASSUME IInv, WInv, NEW g \in [Threads -> Seq(Call)], RInv(g), Attended(g), InTurn(g),
         IsFiniteSet(Cliques), NEW t \in Threads, prog[t] # <<>>
  PROVE  \E u \in Threads : GoesOn(u)
<1> SUFFICES ASSUME \A u \in Threads : ~GoesOn(u) PROVE FALSE
  OBVIOUS
<1> DEFINE Inside == {h \in Threads : pc[h] = "init"}
           clique(h) == group[Home[h]].clique
           next(h) == Past(g, h) + 1
<1>1. PICK turn \in [Cliques -> 0 .. Cardinality(Cliques)] :
        \A v, u \in Threads : \A i \in DOMAIN g[v], j \in DOMAIN g[u] :
          LET k == g[v][i].clique  l == g[u][j].clique IN
          /\ Home[v] = Home[u] /\ Spans(g, k) /\ Spans(g, l)
          /\ k # l /\ turn[k] <= turn[l]
          => k \in Before(g, u, j)
  BY DEF InTurn
<1>2. Inside # {}
  BY OneInside
<1>3. \A h \in Inside : clique(h) \in Cliques
  BY WaitsForOther
<1>4. \A k \in Cliques : turn[k] \in Nat
  <2>1. Cardinality(Cliques) \in Nat
    BY FS_CardinalityType
  <2> QED
    BY <2>1
<1>5. PICK h \in Inside : \A v \in Inside : turn[clique(h)] <= turn[clique(v)]
  <2> DEFINE S == {turn[clique(v)] : v \in Inside}
  <2>1. S \in SUBSET Nat /\ S # {}
    BY <1>2, <1>3, <1>4
  <2>2. PICK m \in S : \A q \in S : ~(q < m)
    BY <2>1, LeastTurn
  <2>3. PICK v \in Inside : m = turn[clique(v)]
    BY <2>2
  <2>4. \A w \in Inside : ~(turn[clique(w)] < turn[clique(v)])
    BY <2>2, <2>3
  <2>5. \A w \in Inside : turn[clique(w)] \in Nat
    BY <1>3, <1>4
  <2> QED
    <3> HIDE DEF clique, Inside
    <3>1. \A w \in Inside : turn[clique(v)] <= turn[clique(w)]
      BY <2>3, <2>4, <2>5
    <3> QED
      BY <2>3, <3>1
<1>6. next(h) \in DOMAIN g[h] /\ g[h][next(h)].clique = clique(h)
  BY WaitsForOther
<1>7. PICK u \in Threads : \E j \in DOMAIN g[u] :
              /\ Home[u] # Home[h] /\ g[u][j].clique = clique(h)
              /\ <<Home[u], g[u][j].rank>> \notin joined[g[u][j].clique]
              /\ ~Over(g, u, j) /\ prog[u] # <<>>
  BY WaitsForOther
<1>8. PICK j \in DOMAIN g[u] :
              /\ Home[u] # Home[h] /\ g[u][j].clique = clique(h)
              /\ <<Home[u], g[u][j].rank>> \notin joined[g[u][j].clique]
              /\ ~Over(g, u, j) /\ prog[u] # <<>>
  BY <1>7
<1>9. PICK w \in Inside : Home[w] = Home[u]
  BY <1>8, OneInside
<1>10. /\ next(w) \in DOMAIN g[w] /\ g[w][next(w)].clique = clique(w)
       /\ \E v \in Threads : \E i \in DOMAIN g[v] :
            /\ Home[v] # Home[w] /\ g[v][i].clique = clique(w)
            /\ <<Home[v], g[v][i].rank>> \notin joined[g[v][i].clique]
            /\ ~Over(g, v, i) /\ prog[v] # <<>>
  <2>1. w \in Threads /\ pc[w] = "init" /\ ~GoesOn(w)
    OBVIOUS
  <2> HIDE DEF Inside
  <2> QED
    BY <2>1, WaitsForOther
<1>11. clique(w) # clique(h)
  BY <1>8, <1>9 DEF RInv, AllJoined
<1>12. Spans(g, clique(h)) /\ Spans(g, clique(w))
  BY <1>6, <1>8, <1>10 DEF Spans
<1>13. clique(h) \in Before(g, w, next(w))
  BY <1>1, <1>5, <1>8, <1>9, <1>10, <1>11, <1>12
<1>14. PICK i \in DOMAIN g[w] : g[w][i].clique = clique(h) /\ Over(g, w, i)
  BY <1>10, <1>13, EarlierOver DEF RInv
<1> QED
  BY <1>8, <1>9, <1>14 DEF RInv, Together

\* The calls never come to wait for one another for good if they are well
\* formed, every clique gets all its ranks, and cliques are taken in turn: with
\* one group at a time in each process, the mutex held inside cnclInitComms and
\* requests deferred and moved, there is always a thread that goes on.
THEOREM NoDeadlock == CallsWellFormed /\ CallsInTurn => (Spec => []SomeCallGoesOn)
<1> SUFFICES ASSUME CallsWellFormed, CallsInTurn PROVE Spec => []SomeCallGoesOn
  OBVIOUS
<1> DEFINE Inv == \E g \in Programs : RInv(g)
<1>1. Init => WInv
  BY InitWInv
<1>2. IInv /\ WInv /\ [Next]_vars => WInv'
  BY StepWInv
<1>3. Init => Inv
  <2> SUFFICES ASSUME Init PROVE Inv
    OBVIOUS
  <2>1. prog \in Programs
    BY DEF Init
  <2> QED
    BY <2>1, InitRInv
<1>4. IInv /\ WInv /\ Inv /\ [Next]_vars => Inv'
  <2> SUFFICES ASSUME IInv, WInv, Inv, [Next]_vars PROVE Inv'
    OBVIOUS
  <2>1. PICK g \in Programs : RInv(g)
    OBVIOUS
  <2>2. g \in [Threads -> Seq(Call)]
    BY ProgramsAssumption
  <2>3. RInv(g)'
    BY <2>1, <2>2, StepRInv
  <2> QED
    BY <2>3
<1>5. IInv /\ WInv /\ Inv => SomeCallGoesOn
  <2> SUFFICES ASSUME IInv, WInv, Inv, NEW t \in Threads, prog[t] # <<>>
               PROVE  \E u \in Threads : GoesOn(u)
    BY DEF SomeCallGoesOn, WInv
  <2>1. PICK g \in Programs : RInv(g)
    OBVIOUS
  <2>2. /\ g \in [Threads -> Seq(Call)] /\ Attended(g) /\ InTurn(g) /\ IsFiniteSet(Cliques)
    BY ProgramsAssumption DEF CallsInTurn
  <2> QED
    BY <2>1, <2>2, SomeoneGoesOn
<1> HIDE DEF Inv
<1> QED
  BY SpecIInv, <1>1, <1>2, <1>3, <1>4, <1>5, PTL DEF Spec

-----------------------------------------------------------------------------
\* The coordinator implements CliqueInit.
\* CliqueInit counts as CnclRendezvous does.
LEMMA OneCardinality == \A S : Service!Cardinality(S) = Cardinality(S)
BY Zenon DEF Service!Cardinality, Cardinality

\* What is settled when a group ends: the active requests are all pending,
\* have one key, and are as many as it asks for.
LEMMA ActiveSettles ==
  ASSUME IInv, NEW p \in Processes, active[p] # {},
         Cardinality(active[p]) = group[p].expected
  PROVE  Service!Settles(active[p])
<1>1. \A u \in active[p] : /\ u \in Threads /\ Home[u] = p /\ InCall(u) /\ ~req[u].done
                           /\ KeyOf(u) = group[p]
  BY Queued DEF IInv, OneActiveGroup, IsSameGroup, InCall
<1>2. \A u \in active[p] : Phase[u] = "pending"
  BY <1>1 DEF Phase
<1>3. \A u \in active[p] : /\ AskedOf[u].clique = group[p].clique
                           /\ AskedOf[u].nranks = group[p].nranks
                           /\ AskedOf[u].expected = group[p].expected
  <2>1. \A u \in active[p] : /\ AskedOf[u].clique = req[u].clique
                             /\ AskedOf[u].nranks = req[u].nranks
                             /\ AskedOf[u].expected = req[u].expected
    BY <1>1 DEF AskedOf
  <2>2. \A u \in active[p] : /\ KeyOf(u).clique = req[u].clique
                             /\ KeyOf(u).nranks = req[u].nranks
                             /\ KeyOf(u).expected = req[u].expected
    BY DEF KeyOf
  <2>3. QED
    BY <1>1, <2>1, <2>2
<1>4. QED
  BY <1>1, <1>2, <1>3, OneCardinality DEF Service!Settles, Service!SameKey

\* What the end of a group does to the calls as CliqueInit sees them.
LEMMA EndGroupSettles ==
  ASSUME IInv, NEW t \in Threads, t \in active[Home[t]], pc[t] \in {"loop", "init"},
         NEW status \in {"success", "invalid"}, EndGroup(t, status),
         NEW p, p = Home[t]
  PROVE  /\ Phase' = [u \in Threads |-> IF u \in active[p] THEN status ELSE Phase[u]]
         /\ AskedOf' = AskedOf
<1>1. \A u \in Threads :
        /\ u \in active[p] => /\ req'[u].done /\ req'[u].status = status
                              /\ req'[u].comm = req[u].comm
                              /\ req'[u].clique = req[u].clique
                              /\ req'[u].nranks = req[u].nranks
                              /\ req'[u].rank = req[u].rank
                              /\ req'[u].expected = req[u].expected
        /\ u \notin active[p] => req'[u] = req[u]
        /\ InCall(u)' <=> InCall(u)
  BY EndGroupEffect
<1>2. \A u \in active[p] : InCall(u)
  BY Queued DEF InCall
<1>3. \A u \in Threads : Phase'[u] = IF u \in active[p] THEN status ELSE Phase[u]
  BY <1>1, <1>2 DEF Phase
<1>4. \A u \in Threads : AskedOf'[u] = AskedOf[u]
  BY <1>1 DEF AskedOf
<1>5. QED
  BY <1>3, <1>4 DEF Phase, AskedOf

------------------------------------------------------------------------------
\* Steps CliqueInit does not see: the calls keep their phase and request, the
\* communicators their handle.
LEMMA InvisibleSteps ==
  ASSUME IInv, NEW t \in Threads,
         \/ EndsEarly(t) \/ Enter(t) \/ Wait(t) \/ Wake(t) \/ SpuriousWake(t)
         \/ CallInitComms(t) \/ RefuseClique(t) \/ InitCommsFails(t)
  PROVE  UNCHANGED <<Phase, AskedOf, HandleOf>>
<1>1. \A c \in Comms : comms'[c].intra = comms[c].intra
  <2>1. CASE EndsEarly(t) \/ Enter(t)
    <3>1. prog[t] # <<>> /\ Head(prog[t]) \in Call
      BY <2>1, EarlyEffect, HeadIsCall DEF Enter, Calls
    <3>2. \/ comms' = comms
          \/ comms' = [comms EXCEPT ![Head(prog[t]).comm].dev = Head(prog[t]).dev]
      BY <2>1, EarlyEffect DEF Enter
    <3> QED
      BY <3>1, <3>2, DeviceTyped DEF IInv, TypeOK
  <2>2. CASE ~(EndsEarly(t) \/ Enter(t))
    BY <2>2 DEF Wait, Wake, SpuriousWake, CallInitComms, RefuseClique, InitCommsFails
  <2>3. QED
    BY <2>1, <2>2
<1>2. \A u \in Threads : (InCall(u)' <=> InCall(u)) /\ (InCall(u) => req'[u] = req[u])
  <2>1. CASE EndsEarly(t)
    BY <2>1, EarlyEffect DEF InCall
  <2>2. CASE ~EndsEarly(t)
    BY <2>2 DEF IInv, TypeOK, InCall, Enter, Calls, Wait, Wake, SpuriousWake,
      CallInitComms, RefuseClique, InitCommsFails
  <2> QED
    BY <2>1, <2>2
<1>3. \A u \in Threads : Phase'[u] = Phase[u] /\ AskedOf'[u] = AskedOf[u]
  BY <1>2 DEF Phase, AskedOf
<1>4. QED
  BY <1>1, <1>3 DEF Phase, AskedOf, HandleOf

\* A request that enters the coordinator is asked for.
LEMMA JoinAsks ==
  ASSUME IInv, NEW t \in Threads, JoinActive(t) \/ JoinDeferred(t)
  PROVE  Service!Ask(t)
<1>1. /\ pc[t] = "enter" /\ pc' = [pc EXCEPT ![t] = "loop"]
      /\ UNCHANGED <<req, comms>> /\ req[t] \in Request /\ ~req[t].done
  BY DEF JoinActive, JoinDeferred, IInv, RequestInFrame
<1>2. /\ ~InCall(t) /\ InCall(t)'
      /\ \A u \in Threads : u # t => (InCall(u)' <=> InCall(u))
  BY <1>1 DEF InCall, IInv, TypeOK
<1>3. Phase[t] = "out" /\ Phase' = [Phase EXCEPT ![t] = "pending"]
  BY <1>1, <1>2 DEF Phase
<1>4. AskedOf'[t] \in Service!Asked
  BY <1>1, <1>2 DEF AskedOf, Service!Asked, Request
<1>5. AskedOf' = [AskedOf EXCEPT ![t] = AskedOf'[t]]
  BY <1>1, <1>2 DEF AskedOf
<1>6. HandleOf' = HandleOf
  BY <1>1 DEF HandleOf
<1>7. QED
  BY <1>3, <1>4, <1>5, <1>6 DEF Service!Ask

\* A thread that returns leaves.
LEMMA ReturnLeaves == ASSUME IInv, NEW t \in Threads, Return(t) PROVE Service!Leave(t)
<1>1. /\ pc[t] = "loop" /\ pc' = [pc EXCEPT ![t] = "idle"] /\ UNCHANGED <<req, comms>>
      /\ req[t].done /\ req[t] \in Request
  BY DEF Return, IInv, RequestInFrame
<1>2. /\ InCall(t) /\ ~InCall(t)'
      /\ \A u \in Threads : u # t => (InCall(u)' <=> InCall(u))
  BY <1>1 DEF InCall, IInv, TypeOK
<1>3. Phase[t] \in {"success", "invalid"} /\ Phase' = [Phase EXCEPT ![t] = "out"]
  BY <1>1, <1>2 DEF Phase, Request
<1>4. AskedOf' = [AskedOf EXCEPT ![t] = Null]
  BY <1>1, <1>2 DEF AskedOf
<1>5. HandleOf' = HandleOf
  BY <1>1 DEF HandleOf
<1>6. QED
  BY <1>3, <1>4, <1>5 DEF Service!Leave

\* A refused group fails as a whole.
LEMMA RejectFails ==
  ASSUME IInv, NEW t \in Threads, RejectGroup(t)
  PROVE  Service!Fail(active[Home[t]])
<1> DEFINE p == Home[t]
<1>1. /\ p \in Processes /\ pc[t] = "loop" /\ t \in active[p]
      /\ EndGroup(t, "invalid") /\ UNCHANGED comms
      /\ Cardinality(active[p]) = group[p].expected
  <2>1. t \in active[p] /\ IsSameGroup(t) /\ Cardinality(active[p]) = req[t].expected
    BY CompleterIsMember DEF RejectGroup, GroupComplete
  <2>2. req[t].expected = group[p].expected
    <3>1. KeyOf(t).expected = req[t].expected
      BY DEF KeyOf
    <3>2. QED
      BY <2>1, <3>1 DEF IsSameGroup
  <2>3. QED
    BY <2>1, <2>2 DEF RejectGroup
<1>2. Service!Settles(active[p])
  BY <1>1, ActiveSettles
<1>3. /\ Phase' = [u \in Threads |-> IF u \in active[p] THEN "invalid" ELSE Phase[u]]
      /\ AskedOf' = AskedOf
  BY <1>1, EndGroupSettles
<1>4. HandleOf' = HandleOf
  BY <1>1 DEF HandleOf
<1>5. QED
  BY <1>2, <1>3, <1>4 DEF Service!Fail

\* cnclInitComms returns: the group succeeds as a whole.
LEMMA FinishSucceeds ==
  ASSUME IInv, NEW t \in Threads, FinishGroup(t)
  PROVE  Service!Succeed(active[Home[t]])
<1> DEFINE p == Home[t]
<1>0. /\ p \in Processes /\ pc[t] = "init" /\ t \in active[p]
      /\ EndGroup(t, "success")
      /\ \A u \in active[p] : comms'[req[u].comm].intra = req[u].clique
      /\ \A c \in Comms : (\A u \in active[p] : req[u].comm # c) => comms'[c] = comms[c]
      /\ \A u \in active[p] : /\ comms[req[u].comm].intra = Null
                              /\ req[u].clique = group[p].clique
                              /\ req[u].comm \in Comms
  BY FinishGroupEffect
<1>1. Cardinality(active[p]) = group[p].expected
        /\ \A u, v \in active[p] : u # v => req[u].comm # req[v].comm /\ req[u].rank # req[v].rank
  BY <1>0 DEF IInv, GroupStaysValid
<1>2. Service!Settles(active[p])
  BY <1>0, <1>1, ActiveSettles
<1>3. /\ Phase' = [u \in Threads |-> IF u \in active[p] THEN "success" ELSE Phase[u]]
      /\ AskedOf' = AskedOf
  BY <1>0, EndGroupSettles
<1>4. \A u \in active[p] : /\ AskedOf[u].comm = req[u].comm
                           /\ AskedOf[u].clique = group[p].clique
                           /\ AskedOf[u].rank = req[u].rank
  BY <1>0, Queued DEF AskedOf, InCall
<1>5. \A u \in active[p] : HandleOf[AskedOf[u].comm] = Null
  BY <1>0, <1>4 DEF HandleOf
<1>6. \A c \in Comms :
        comms'[c].intra =
          IF \E u \in active[p] : AskedOf[u].comm = c
          THEN AskedOf[CHOOSE u \in active[p] : AskedOf[u].comm = c].clique
          ELSE HandleOf[c]
  <2>1. ASSUME NEW c \in Comms, \E u \in active[p] : AskedOf[u].comm = c
        PROVE  /\ comms'[c].intra = group[p].clique
               /\ AskedOf[CHOOSE u \in active[p] : AskedOf[u].comm = c].clique = group[p].clique
    <3>1. (CHOOSE u \in active[p] : AskedOf[u].comm = c) \in active[p]
      BY <2>1
    <3>2. QED
      BY <1>0, <1>4, <2>1, <3>1
  <2>2. ASSUME NEW c \in Comms, ~\E u \in active[p] : AskedOf[u].comm = c
        PROVE  comms'[c].intra = HandleOf[c]
    BY <1>0, <1>4, <2>2 DEF HandleOf
  <2>3. QED
    BY <2>1, <2>2
<1>7. HandleOf' = [c \in Comms |->
         IF \E u \in active[p] : AskedOf[u].comm = c
         THEN AskedOf[CHOOSE u \in active[p] : AskedOf[u].comm = c].clique
         ELSE HandleOf[c]]
  BY <1>6 DEF HandleOf
<1>8. QED
  BY <1>1, <1>2, <1>3, <1>4, <1>5, <1>7 DEF Service!Succeed

------------------------------------------------------------------------------
\* The initial states map to initial states.
LEMMA InitMaps == Init => Service!SInit
BY DEF Init, Service!SInit, Phase, AskedOf, HandleOf, InCall

\* Every step maps to a step of CliqueInit or to none.
LEMMA NextMaps == IInv /\ [Next]_vars => [Service!SNext]_(Service!svars)
<1> SUFFICES ASSUME IInv, [Next]_vars
             PROVE  [Service!SNext]_(Service!svars)
  OBVIOUS
<1>1. ASSUME NEW t \in Threads, Step(t) \/ SpuriousWake(t) \/ GetDeviceFails(t)
                                  \/ InitCommsFails(t)
      PROVE  Service!SNext \/ UNCHANGED <<Phase, AskedOf, HandleOf>>
  <2>1. active[Home[t]] \in SUBSET Threads
    BY DEF IInv, TypeOK
  <2>2. CASE JoinActive(t) \/ JoinDeferred(t)
    BY <2>2, JoinAsks DEF Service!SNext
  <2>3. CASE Return(t)
    BY <2>3, ReturnLeaves DEF Service!SNext
  <2>4. CASE RejectGroup(t)
    BY <2>1, <2>4, RejectFails DEF Service!SNext
  <2>5. CASE FinishGroup(t)
    BY <2>1, <2>5, FinishSucceeds DEF Service!SNext
  <2>6. QED
    BY <1>1, <2>2, <2>3, <2>4, <2>5, InvisibleSteps DEF Step, EndsEarly
<1>2. CASE UNCHANGED vars
  BY <1>2 DEF vars, Phase, AskedOf, HandleOf, InCall, Service!svars
<1>3. QED
  BY <1>1, <1>2 DEF Next, Service!svars

\* The coordinator of comm_init_rank.h settles whole groups at one stroke, with
\* one answer, and gives a handle exactly to the communicators of a group that
\* succeeds: CnclRendezvous implements CliqueInit.
THEOREM GroupsSettledWhole == Spec => SettlesGroupsWhole
BY InitMaps, NextMaps, SpecIInv, PTL DEF Spec, SettlesGroupsWhole, Service!SSpec
=============================================================================
