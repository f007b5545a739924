---------------------------- MODULE HcclAverage ----------------------------
(***************************************************************************)
(* Averages on HCCL, which only sums.  AllReduce and ReduceScatter with    *)
(* kAvg put the sum and then a division on a stream.  What the device      *)
(* needs for the division (executor, workspace, an event that tells when   *)
(* it is over) is a plan, kept in a cache of the calling thread for the    *)
(* next call with the same arguments.  Each thread also has a default      *)
(* stream that stands in for a null stream; a call on it is synchronous.   *)
(*                                                                         *)
(* The device takes the tasks of each stream one after the other, while    *)
(* the threads go on.  A buffer holds <<n, d>>: the sum over n ranks,      *)
(* divided by d.  Plans are numbered in the order they are made.           *)
(***************************************************************************)
EXTENDS Integers, Sequences, FiniteSets

CONSTANTS
  Threads,
  Devices,   \* each with its default context
  Streams,   \* handles of streams; one may be used again for a new stream
  Null,      \* the null stream
  Buffers,   \* receive buffers
  BufferOf,  \* the buffers of each thread
  CallSet,   \* the reductions threads may ask for
  Warm,      \* kWarmPlans
  MaxCalls   \* bound on the calls of each thread

\* kAverageTypes: how a division rounds (0 not at all, 1 to zero), and whether
\* it is supported (not -1).
RoundingMode ==
  [int8 |-> 1, int16 |-> 1, int32 |-> -1, int64 |-> -1, uint8 |-> -1,
   uint16 |-> -1, uint32 |-> -1, uint64 |-> -1, fp16 |-> 0, bfp16 |-> 0,
   fp32 |-> 0, fp64 |-> -1]

Supported(type) == RoundingMode[type] >= 0

\* n is the size of the communicator.
Reduction == [buf: Buffers, n: Nat, avg: BOOLEAN, type: DOMAIN RoundingMode,
              count: {"none", "some", "tooMany"}, stream: Streams \cup {Null}]

ASSUME AverageAssumption ==
  /\ Null \notin Streams \cup Devices
  /\ BufferOf \in [Threads -> SUBSET Buffers]
  /\ CallSet # {} /\ CallSet \subseteq Reduction
  /\ Warm \in Nat \ {0} /\ MaxCalls \in [Threads -> Nat]

\* Two threads that reduce into one buffer race in their own code.
ASSUME BuffersApart ==
  \A t, u \in Threads : t # u => BufferOf[t] \cap BufferOf[u] = {}

VARIABLES
  device,    \* the current device of each thread
  context,   \* the device of each stream there is, Null for a free handle
  work,      \* the tasks of each stream that are not done
  default,   \* DefaultStream of each thread: a stream and its device_id
  plans,     \* the keys of all the plans that were made
  cache,     \* plans_ of each thread, oldest first
  submitted, \* plans that have been run
  pc,        \* where each thread is in its call
  call,      \* the reduction of each thread
  stream,    \* the stream it goes to
  plan,      \* its plan, 0 for none
  status,    \* what the calls of each thread have returned
  value,     \* what the buffers hold
  want       \* what they should hold when their streams are through, or Null

vars == <<device, context, work, default, plans, cache, submitted, pc, call,
          stream, plan, status, value, want>>

-----------------------------------------------------------------------------
Tasks(task(_)) == {h \in Streams : \E i \in DOMAIN work[h] : task(work[h][i])}

\* The division or the event of plan p is still to come.
InFlight(p) == Tasks(LAMBDA w : w.do # "sum" /\ w.plan = p) # {}

EventPending(p) == Tasks(LAMBDA w : w.do = "event" /\ w.plan = p) # {}

BufferOfTask(w) == IF w.do = "sum" THEN w.buf ELSE plans[w.plan].buf

Pending(b) == Tasks(LAMBDA w : BufferOfTask(w) = b)

Enqueue(h, tasks) == work' = [work EXCEPT ![h] = @ \o tasks]

Init ==
  /\ device \in [Threads -> Devices]
  /\ context = [h \in Streams |-> Null]
  /\ work = [h \in Streams |-> <<>>]
  /\ default = [t \in Threads |-> [stream |-> Null, device |-> Null]]
  /\ plans = <<>>
  /\ cache = [t \in Threads |-> {}]
  /\ submitted = {}
  /\ pc = [t \in Threads |-> "idle"]
  /\ call = [t \in Threads |-> CHOOSE c \in CallSet : TRUE]
  /\ stream = [t \in Threads |-> Null]
  /\ plan = [t \in Threads |-> 0]
  /\ status = [t \in Threads |-> <<>>]
  /\ value = [b \in Buffers |-> <<0, 1>>]
  /\ want = [b \in Buffers |-> <<0, 1>>]

Goto(t, label) == pc' = [pc EXCEPT ![t] = label]

Return(t, s) ==
  /\ status' = [status EXCEPT ![t] = Append(@, s)]
  /\ Goto(t, "idle")

-----------------------------------------------------------------------------
\* What the caller does between calls: another device; streams of its own, a
\* new one on the handle of one that is gone.
SetDevice(t) ==
  /\ pc[t] = "idle" /\ Len(status[t]) < MaxCalls[t]
  /\ \E d \in Devices \ {device[t]} : device' = [device EXCEPT ![t] = d]
  /\ UNCHANGED <<context, work, default, plans, cache, submitted, pc, call,
                 stream, plan, status, value, want>>

Users == Streams \ {default[t].stream : t \in Threads}

\* Bound: handles are left for the default streams.
CreateStream(t, h) ==
  /\ pc[t] = "idle" /\ Len(status[t]) < MaxCalls[t]
  /\ context[h] = Null
  /\ Cardinality({g \in Users : context[g] # Null}) + Cardinality(Threads)
       < Cardinality(Streams)
  /\ context' = [context EXCEPT ![h] = device[t]]
  /\ UNCHANGED <<device, work, default, plans, cache, submitted, pc, call,
                 stream, plan, status, value, want>>

\* aclrtDestroyStream waits for the tasks of the stream.
DestroyStream(t, h) ==
  /\ pc[t] = "idle" /\ Len(status[t]) < MaxCalls[t]
  /\ h \in Users /\ context[h] # Null /\ work[h] = <<>>
  /\ \A u \in Threads : pc[u] # "idle" => stream[u] # h /\ call[u].stream # h
  /\ context' = [context EXCEPT ![h] = Null]
  /\ UNCHANGED <<device, work, default, plans, cache, submitted, pc, call,
                 stream, plan, status, value, want>>

-----------------------------------------------------------------------------
\* AllReduce or ReduceScatter.  A caller names a stream of its device, and
\* does not have a buffer in two streams at a time.
Call(t, c) ==
  /\ pc[t] = "idle" /\ Len(status[t]) < MaxCalls[t]
  /\ c.buf \in BufferOf[t]
  /\ c.stream # Null => c.stream \in Users /\ context[c.stream] = device[t]
  /\ Pending(c.buf) \subseteq
       {IF c.stream = Null THEN default[t].stream ELSE c.stream}
  /\ call' = [call EXCEPT ![t] = c]
  /\ plan' = [plan EXCEPT ![t] = 0]
  /\ CASE c.avg /\ ~Supported(c.type) ->
              Return(t, "unsupported") /\ UNCHANGED stream
       [] c.avg /\ Supported(c.type) /\ c.n = 0 ->
              Return(t, "para") /\ UNCHANGED stream
       [] OTHER -> /\ stream' = [stream EXCEPT ![t] = c.stream]
                   /\ Goto(t, IF c.stream = Null THEN "resolve" ELSE "prepare")
                   /\ UNCHANGED status
  /\ UNCHANGED <<device, context, work, default, plans, cache, submitted,
                 value, want>>

\* Defect: a default stream is kept for good.
OtherDeviceNever(t) == default[t].device = Null
OtherDevice(t) == default[t].device # device[t]

\* GetDefaultStream: the one there is, or a new one in place of that of another
\* device, which is destroyed and so waited for.
DefaultStream(t) ==
  /\ pc[t] = "resolve" /\ ~OtherDevice(t)
  /\ stream' = [stream EXCEPT ![t] = default[t].stream]
  /\ Goto(t, "prepare")
  /\ UNCHANGED <<device, context, work, default, plans, cache, submitted, call,
                 plan, status, value, want>>

NewDefaultStream(t, h) ==
  LET old == default[t].stream
      destroyed == [g \in Streams |-> IF g = old THEN Null ELSE context[g]]
  IN
  /\ pc[t] = "resolve" /\ OtherDevice(t)
  /\ old # Null => work[old] = <<>>
  /\ destroyed[h] = Null
  /\ context' = [destroyed EXCEPT ![h] = device[t]]
  /\ default' = [default EXCEPT ![t] = [stream |-> h, device |-> device[t]]]
  /\ stream' = [stream EXCEPT ![t] = h]
  /\ Goto(t, "prepare")
  /\ UNCHANGED <<device, work, plans, cache, submitted, call, plan, status,
                 value, want>>

-----------------------------------------------------------------------------
\* The AverageKey of a call.  Defect: made of the stream of the caller.
KeyOfCaller(t) ==
  [context |-> device[t], stream |-> call[t].stream, buf |-> call[t].buf,
   count |-> call[t].count, type |-> call[t].type, n |-> call[t].n]
Key(t) ==
  [context |-> device[t], stream |-> stream[t], buf |-> call[t].buf,
   count |-> call[t].count, type |-> call[t].type, n |-> call[t].n]

\* Defect: calls on communicators of different sizes share a plan.
MatchesAnySize(p, t) == [plans[p] EXCEPT !.n = call[t].n] = Key(t)
Matches(p, t) == plans[p] = Key(t)

Found(t) == {p \in cache[t] : Matches(p, t)}

\* Defect: a plan may go while the device uses it.
ReadyAlways(p) == TRUE
Ready(p) == p \in submitted => ~EventPending(p)

CanEvict(p, t) == plans[p].context = device[t] /\ Ready(p)

\* Defect: one plan stays too many.
TooManyByOne(t) == Cardinality(cache[t]) - Warm
TooMany(t) == Cardinality(cache[t]) - Warm + 1

\* EvictCompleted goes through the cache once and erases plans that are done
\* and of this context until fewer than Warm are left.
Evicted(t) ==
  LET completed == {p \in cache[t] : CanEvict(p, t)} IN
  {p \in completed : Cardinality({q \in completed : q < p}) < TooMany(t)}

\* Before the sum: no plan is needed, the arguments are refused, a plan is
\* found, or a new one is made.
Prepare(t) ==
  LET c == call[t]
      needed == c.avg /\ c.count # "none" /\ c.n > 1
  IN
  /\ pc[t] = "prepare"
  /\ \/ ~needed /\ Goto(t, "sum") /\ UNCHANGED <<plans, cache, plan, status>>
     \/ /\ needed /\ c.count = "tooMany"
        /\ Return(t, "para") /\ UNCHANGED <<plans, cache, plan>>
     \/ /\ needed /\ c.count = "some" /\ Found(t) # {}
        /\ \E p \in Found(t) : plan' = [plan EXCEPT ![t] = p]
        /\ Goto(t, "sum") /\ UNCHANGED <<plans, cache, status>>
     \/ /\ needed /\ c.count = "some" /\ Found(t) = {}
        /\ plans' = Append(plans, Key(t))
        /\ cache' = [cache EXCEPT ![t] = (@ \ Evicted(t)) \cup {Len(plans) + 1}]
        /\ plan' = [plan EXCEPT ![t] = Len(plans) + 1]
        /\ Goto(t, "sum") /\ UNCHANGED status
  /\ UNCHANGED <<device, context, work, default, submitted, call, stream,
                 value, want>>

\* HcclAllReduce or HcclReduceScatter puts the sum on the stream.
Sum(t) ==
  LET c == call[t]  b == c.buf IN
  /\ pc[t] = "sum"
  /\ IF c.count = "none" THEN UNCHANGED <<work, want>>
     ELSE /\ Enqueue(stream[t], <<[do |-> "sum", buf |-> b, n |-> c.n]>>)
          /\ want' = [want EXCEPT ![b] = <<c.n, IF c.avg THEN c.n ELSE 1>>]
  /\ Goto(t, IF plan[t] # 0 THEN "divide" ELSE "end")
  /\ UNCHANGED <<device, context, default, plans, cache, submitted, call,
                 stream, plan, status, value>>

\* The library refuses; it may have started.  A call that failed is not
\* waited for, on any stream.
SumFails(t) ==
  LET c == call[t]  b == c.buf IN
  /\ pc[t] = "sum"
  /\ \/ Enqueue(stream[t], <<[do |-> "sum", buf |-> b, n |-> c.n]>>)
     \/ UNCHANGED work
  /\ want' = [want EXCEPT ![b] = Null]
  /\ Return(t, "error")
  /\ UNCHANGED <<device, context, default, plans, cache, submitted, call,
                 stream, plan, value>>

\* Run: the division, and the event behind it.
Divide(t) ==
  LET p == plan[t] IN
  /\ pc[t] = "divide"
  /\ Enqueue(plans[p].stream,
             <<[do |-> "div", plan |-> p], [do |-> "event", plan |-> p]>>)
  /\ submitted' = submitted \cup {p}
  /\ Goto(t, "end")
  /\ UNCHANGED <<device, context, default, plans, cache, call, stream, plan,
                 status, value, want>>

\* Defect: nobody waits.
WaitsForNever(t) == FALSE
WaitsFor(t) == call[t].stream = Null

End(t) ==
  /\ pc[t] = "end"
  /\ WaitsFor(t) => work[stream[t]] = <<>>
  /\ Return(t, "success")
  /\ UNCHANGED <<device, context, work, default, plans, cache, submitted, call,
                 stream, plan, value, want>>

\* The end of a thread destroys its plans, after their events, and its default
\* stream, after its tasks.
Exit(t) ==
  LET own == default[t].stream IN
  /\ pc[t] = "idle"
  /\ \A p \in cache[t] : p \in submitted => ~EventPending(p)
  /\ own # Null => work[own] = <<>>
  /\ cache' = [cache EXCEPT ![t] = {}]
  /\ context' = [h \in Streams |-> IF h = own THEN Null ELSE context[h]]
  /\ default' = [default EXCEPT ![t] = [stream |-> Null, device |-> Null]]
  /\ Goto(t, "gone")
  /\ UNCHANGED <<device, work, plans, submitted, call, stream, plan, status,
                 value, want>>

\* The device does the next task of a stream.
Execute(h) ==
  LET w == Head(work[h])  b == BufferOfTask(w) IN
  /\ work[h] # <<>>
  /\ work' = [work EXCEPT ![h] = Tail(@)]
  /\ value' = CASE w.do = "sum" -> [value EXCEPT ![b] = <<w.n, 1>>]
                [] w.do = "div" ->
                     [value EXCEPT ![b] = <<@[1], @[2] * plans[w.plan].n>>]
                [] w.do = "event" -> value
  /\ UNCHANGED <<device, context, default, plans, cache, submitted, pc, call,
                 stream, plan, status, want>>

-----------------------------------------------------------------------------
Next ==
  \/ \E t \in Threads :
       \/ DefaultStream(t) \/ Prepare(t) \/ Sum(t) \/ SumFails(t)
       \/ Divide(t) \/ End(t) \/ SetDevice(t) \/ Exit(t)
       \/ \E c \in CallSet : Call(t, c)
       \/ \E h \in Streams : NewDefaultStream(t, h) \/ CreateStream(t, h)
                               \/ DestroyStream(t, h)
  \/ \E h \in Streams : Execute(h)

Spec == Init /\ [][Next]_vars

-----------------------------------------------------------------------------
Task == [do: {"sum"}, buf: Buffers, n: Nat] \cup [do: {"div", "event"}, plan: Nat]

Locations ==
  {"idle", "resolve", "prepare", "sum", "divide", "end", "gone"}
Result == {"success", "unsupported", "para", "error"}

AverageKey == [context: Devices, stream: Streams, buf: Buffers, count: {"some"},
               type: DOMAIN RoundingMode, n: Nat]

TypeOK ==
  /\ device \in [Threads -> Devices]
  /\ context \in [Streams -> Devices \cup {Null}]
  /\ work \in [Streams -> Seq(Task)]
  /\ default \in [Threads -> [stream: Streams \cup {Null},
                              device: Devices \cup {Null}]]
  /\ plans \in Seq(AverageKey)
  /\ cache \in [Threads -> SUBSET DOMAIN plans]
  /\ submitted \subseteq DOMAIN plans
  /\ pc \in [Threads -> Locations]
  /\ call \in [Threads -> Reduction]
  /\ stream \in [Threads -> Streams \cup {Null}]
  /\ plan \in [Threads -> DOMAIN plans \cup {0}]
  /\ status \in [Threads -> Seq(Result)]
  /\ value \in [Buffers -> Nat \X Nat]
  /\ want \in [Buffers -> (Nat \X Nat) \cup {Null}]

\* Whatever the device has still to do with a plan, the plan is there, in one
\* cache: an eviction, an erased vector element or the end of a thread never
\* frees the workspace of a division that has not been made
\* (average.cc:73-99, 205-216).
InFlightKept ==
  \A p \in DOMAIN plans :
    \/ ~InFlight(p)
    \/ \E t \in Threads : p \in cache[t]

\* A cache grows past Warm only by a plan that cannot take the place of any
\* other: those of its context are all in flight (EvictCompleted,
\* average.cc:205-216).
GrowsOnlyInFlight ==
  [][\A t \in Threads :
       /\ Cardinality(cache'[t]) > Cardinality(cache[t])
       /\ Cardinality(cache'[t]) > Warm
       => \A p \in cache[t] :
            plans[p].context = device[t] => InFlight(p)]_vars

\* When the streams are through with a buffer it holds the sum over the ranks
\* of the last call on it, divided once by their number if an average was asked
\* for; a call that is refused before the sum has not touched it
\* (WithReduction in hccl/api.h, PrepareHcclAverage).
RightAverage ==
  \A b \in Buffers :
    Pending(b) = {} /\ want[b] # Null
    /\ (\A t \in Threads : call[t].buf = b => pc[t] # "divide")
      => value[b] = want[b]

\* A call on the null stream that succeeds has its result when it returns
\* (api.h:76).
NullIsSynchronous ==
  \A t \in Threads :
    LET n == Len(status[t]) IN
    pc[t] = "idle" /\ n > 0 /\ call[t].stream = Null =>
      (status[t][n] = "success" =>
         want[call[t].buf] \in {value[call[t].buf], Null})

\* A thread puts its tasks on a stream that is there and belongs to its
\* device, whichever devices it has been on before (GetDefaultStream,
\* api.h:54-66).
StreamsInUse ==
  \A t \in Threads : pc[t] \in {"prepare", "sum", "divide"} =>
    context[stream[t]] = device[t]
=============================================================================
