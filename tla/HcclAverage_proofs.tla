------------------------ MODULE HcclAverage_proofs -------------------------
(***************************************************************************)
(* The streams and plans of HcclAverage are kept right for any number of   *)
(* threads, devices, streams, buffers and calls.                           *)
(***************************************************************************)
EXTENDS HcclAverage, FiniteSetTheorems, WellFoundedInduction, TLAPS

Working == {"prepare", "sum", "divide", "end"}

\* A call goes to the stream the caller named, or to the default stream of the
\* thread, and that stream is one of the current device.
OnStream ==
  \A t \in Threads : pc[t] \in Working =>
    /\ stream[t] \in Streams /\ context[stream[t]] = device[t]
    /\ stream[t] = IF call[t].stream = Null THEN default[t].stream
                                            ELSE call[t].stream

Resolving == \A t \in Threads : pc[t] = "resolve" => call[t].stream = Null

\* The stream that a caller named is nobody's default stream.
CallersOwn ==
  \A t, u \in Threads : pc[t] \in Working /\ call[t].stream # Null =>
    default[u].stream # call[t].stream

\* A default stream is on the device it was made for.
DefaultThere ==
  \A t \in Threads :
    /\ default[t].stream = Null <=> default[t].device = Null
    /\ default[t].stream # Null => context[default[t].stream] = default[t].device

DefaultsDistinct ==
  \A t, u \in Threads :
    t # u /\ default[t].stream # Null => default[t].stream # default[u].stream

\* A call has no plan before it prepares, and its plan stays in the cache until
\* the call has used it.
PlanCached ==
  \A t \in Threads :
    /\ pc[t] \in {"resolve", "prepare"} => plan[t] = 0
    /\ pc[t] \in {"sum", "divide"} /\ plan[t] # 0 => plan[t] \in cache[t]
    /\ pc[t] = "divide" => plan[t] # 0

\* The device meets the event of a plan after its division, and only tasks of
\* plans that were run.
EventsBehind ==
  \A h \in Streams : \A i \in DOMAIN work[h] :
    /\ work[h][i].do # "sum" => work[h][i].plan \in submitted
    /\ work[h][i].do = "div" =>
         \E j \in DOMAIN work[h] : /\ j > i
                                   /\ work[h][j].do = "event"
                                   /\ work[h][j].plan = work[h][i].plan

StreamInv == OnStream /\ Resolving /\ CallersOwn /\ DefaultThere /\ DefaultsDistinct

IInv == TypeOK /\ StreamInv /\ PlanCached /\ EventsBehind /\ InFlightKept

Constants ==
  /\ Null \notin Streams \cup Devices
  /\ BufferOf \in [Threads -> SUBSET Buffers]
  /\ CallSet # {} /\ CallSet \subseteq Reduction
  /\ Warm \in Nat \ {0}

LEMMA ConstantsFit == Constants
BY AverageAssumption DEF Constants

------------------------------------------------------------------------------
LEMMA InitIInv == ASSUME Init PROVE IInv
<1> USE DEF Init
<1>1. TypeOK
  <2>1. (CHOOSE c \in CallSet : TRUE) \in Reduction
    BY ConstantsFit DEF Constants
  <2> DEFINE first == CHOOSE c \in CallSet : TRUE
  <2> HIDE DEF first
  <2>2. call = [t \in Threads |-> first] /\ first \in Reduction
    BY <2>1 DEF first
  <2>3. call \in [Threads -> Reduction]
    BY <2>2
  <2>4. /\ work \in [Streams -> Seq(Task)] /\ plans = <<>>
        /\ plans \in Seq(AverageKey)
    OBVIOUS
  <2>5. value \in [Buffers -> Nat \X Nat] /\ want \in [Buffers -> (Nat \X Nat) \cup {Null}]
    OBVIOUS
  <2>6. default \in [Threads -> [stream: Streams \cup {Null}, device: Devices \cup {Null}]]
    OBVIOUS
  <2> QED
    BY <2>3, <2>4, <2>5, <2>6 DEF TypeOK, Locations
<1>2. StreamInv
  BY DEF StreamInv, OnStream, Resolving, CallersOwn, DefaultThere,
         DefaultsDistinct, Working
<1>3. PlanCached /\ EventsBehind /\ InFlightKept
  BY DEF PlanCached, EventsBehind, InFlightKept
<1> QED
  BY <1>1, <1>2, <1>3 DEF IInv

------------------------------------------------------------------------------
LEMMA EnqueueTyped ==
  ASSUME TypeOK, NEW h \in Streams, NEW tasks \in Seq(Task), Enqueue(h, tasks)
  PROVE  work' \in [Streams -> Seq(Task)]
<1>1. work[h] \in Seq(Task)
  BY DEF TypeOK
<1>2. work[h] \o tasks \in Seq(Task)
  BY <1>1
<1> QED
  BY <1>2 DEF Enqueue, TypeOK

LEMMA PlanTyped ==
  ASSUME TypeOK, NEW p \in DOMAIN plans
  PROVE  /\ p \in Nat \ {0} /\ plans[p] \in AverageKey
         /\ plans[p].stream \in Streams /\ plans[p].context \in Devices
         /\ plans[p].buf \in Buffers /\ plans[p].n \in Nat
<1>1. plans \in Seq(AverageKey)
  BY DEF TypeOK
<1>2. plans[p] \in AverageKey /\ p \in Nat \ {0}
  BY <1>1
<1> QED
  BY <1>2 DEF AverageKey

LEMMA ReturnTyped ==
  ASSUME TypeOK, NEW t \in Threads, NEW s \in Result, Return(t, s)
  PROVE  status' \in [Threads -> Seq(Result)] /\ pc' \in [Threads -> Locations]
<1>1. status[t] \in Seq(Result)
  BY DEF TypeOK
<1>2. Append(status[t], s) \in Seq(Result)
  BY <1>1
<1> QED
  BY <1>2 DEF Return, Goto, TypeOK, Locations

\* Each action keeps the types.
LEMMA TypeStep == ASSUME IInv, Next PROVE TypeOK'
<1> USE DEF IInv
<1>0. TypeOK
  OBVIOUS
<1>1. ASSUME NEW t \in Threads, SetDevice(t) PROVE TypeOK'
  BY <1>1 DEF SetDevice, TypeOK
<1>2. ASSUME NEW t \in Threads, NEW h \in Streams, CreateStream(t, h) PROVE TypeOK'
  BY <1>2 DEF CreateStream, TypeOK
<1>3. ASSUME NEW t \in Threads, NEW h \in Streams, DestroyStream(t, h) PROVE TypeOK'
  BY <1>3 DEF DestroyStream, TypeOK
<1>4. ASSUME NEW t \in Threads, NEW c \in CallSet, Call(t, c) PROVE TypeOK'
  <2>1. c \in Reduction /\ c.stream \in Streams \cup {Null}
    BY ConstantsFit DEF Constants, Reduction
  <2>a. \/ Return(t, "unsupported") /\ UNCHANGED stream
        \/ Return(t, "para") /\ UNCHANGED stream
        \/ /\ stream' = [stream EXCEPT ![t] = c.stream]
           /\ Goto(t, "resolve") \/ Goto(t, "prepare")
           /\ UNCHANGED status
    BY <1>4 DEF Call
  <2>2. call' \in [Threads -> Reduction] /\ stream' \in [Threads -> Streams \cup {Null}]
    BY <1>4, <2>1, <2>a DEF Call, Return, TypeOK
  <2>3. plan' \in [Threads -> DOMAIN plans \cup {0}]
    BY <1>4 DEF Call, TypeOK
  <2>4. pc' \in [Threads -> Locations]
    BY <2>a, ReturnTyped DEF Goto, TypeOK, Result, Locations
  <2>5. status' \in [Threads -> Seq(Result)]
    BY <2>a, ReturnTyped DEF TypeOK, Result
  <2> QED
    BY <1>4, <2>2, <2>3, <2>4, <2>5 DEF Call, TypeOK
<1>5. ASSUME NEW t \in Threads, DefaultStream(t) PROVE TypeOK'
  BY <1>5 DEF DefaultStream, Goto, TypeOK, Locations
<1>6. ASSUME NEW t \in Threads, NEW h \in Streams, NewDefaultStream(t, h) PROVE TypeOK'
  BY <1>6 DEF NewDefaultStream, Goto, TypeOK, Locations
<1>7. ASSUME NEW t \in Threads, Prepare(t) PROVE TypeOK'
  <2> DEFINE new == Len(plans) + 1
  <2>1. pc[t] = "prepare" /\ stream[t] \in Streams
    BY <1>7 DEF Prepare, StreamInv, OnStream, Working
  <2>2. CASE UNCHANGED <<plans, cache>>
    <3>1. /\ plan' \in [Threads -> DOMAIN plans \cup {0}]
          /\ status' \in [Threads -> Seq(Result)]
          /\ pc' \in [Threads -> Locations]
      <4>1. CASE Return(t, "para") /\ UNCHANGED plan
        BY <4>1, ReturnTyped DEF TypeOK, Result
      <4>2. CASE Goto(t, "sum") /\ UNCHANGED <<plan, status>>
        BY <4>2 DEF Goto, TypeOK, Locations
      <4>3. CASE /\ \E p \in Found(t) : plan' = [plan EXCEPT ![t] = p]
                 /\ Goto(t, "sum") /\ UNCHANGED status
        BY <4>3 DEF Found, Goto, TypeOK, Locations
      <4>4. plans' # Append(plans, Key(t))
        BY <2>2 DEF TypeOK
      <4> QED
        BY <1>7, <4>1, <4>2, <4>3, <4>4 DEF Prepare
    <3> QED
      BY <1>7, <2>2, <3>1 DEF Prepare, TypeOK
  <2>3. CASE /\ call[t].count = "some"
             /\ plans' = Append(plans, Key(t))
             /\ cache' = [cache EXCEPT ![t] = (@ \ Evicted(t)) \cup {new}]
             /\ plan' = [plan EXCEPT ![t] = new]
             /\ Goto(t, "sum") /\ UNCHANGED status
    <3>1. Key(t) \in AverageKey
      BY <2>1, <2>3 DEF Key, AverageKey, TypeOK, Reduction
    <3>2. plans' \in Seq(AverageKey) /\ DOMAIN plans' = DOMAIN plans \cup {new}
      BY <2>3, <3>1 DEF TypeOK
    <3>3. cache' \in [Threads -> SUBSET DOMAIN plans']
      BY <2>3, <3>2 DEF TypeOK
    <3>4. plan' \in [Threads -> DOMAIN plans' \cup {0}] /\ submitted \subseteq DOMAIN plans'
      BY <2>3, <3>2 DEF TypeOK
    <3> QED
      BY <1>7, <2>3, <3>2, <3>3, <3>4 DEF Prepare, Goto, TypeOK, Locations
  <2> QED
    BY <1>7, <2>2, <2>3 DEF Prepare
<1>8. ASSUME NEW t \in Threads, Sum(t) PROVE TypeOK'
  <2>0. stream[t] \in Streams
    BY <1>8 DEF Sum, StreamInv, OnStream, Working
  <2>1. call[t].buf \in Buffers /\ call[t].n \in Nat
    BY DEF TypeOK, Reduction
  <2>2. <<[do |-> "sum", buf |-> call[t].buf, n |-> call[t].n]>> \in Seq(Task)
    BY <2>1 DEF Task
  <2>3. work' \in [Streams -> Seq(Task)]
    BY <1>8, <2>0, <2>2, EnqueueTyped DEF Sum, TypeOK
  <2>4. want' \in [Buffers -> (Nat \X Nat) \cup {Null}]
    <3>1. <<call[t].n, IF call[t].avg THEN call[t].n ELSE 1>> \in Nat \X Nat
      BY <2>1
    <3> QED
      BY <1>8, <2>1, <3>1 DEF Sum, TypeOK
  <2> QED
    BY <1>8, <2>3, <2>4 DEF Sum, Goto, TypeOK, Locations
<1>9. ASSUME NEW t \in Threads, SumFails(t) PROVE TypeOK'
  <2>0. stream[t] \in Streams
    BY <1>9 DEF SumFails, StreamInv, OnStream, Working
  <2>1. call[t].buf \in Buffers /\ call[t].n \in Nat
    BY DEF TypeOK, Reduction
  <2>2. <<[do |-> "sum", buf |-> call[t].buf, n |-> call[t].n]>> \in Seq(Task)
    BY <2>1 DEF Task
  <2>3. work' \in [Streams -> Seq(Task)]
    BY <1>9, <2>0, <2>2, EnqueueTyped DEF SumFails, TypeOK
  <2> QED
    BY <1>9, <2>1, <2>3, ReturnTyped DEF SumFails, TypeOK, Result
<1>10. ASSUME NEW t \in Threads, Divide(t) PROVE TypeOK'
  <2>1. plan[t] \in DOMAIN plans /\ plan[t] \in Nat
    BY <1>10 DEF Divide, PlanCached, TypeOK
  <2>2. <<[do |-> "div", plan |-> plan[t]], [do |-> "event", plan |-> plan[t]]>> \in Seq(Task)
    BY <2>1 DEF Task
  <2>0. plans[plan[t]].stream \in Streams
    BY <2>1, PlanTyped
  <2>3. work' \in [Streams -> Seq(Task)]
    BY <1>10, <2>0, <2>2, EnqueueTyped DEF Divide, TypeOK
  <2> QED
    BY <1>10, <2>1, <2>3 DEF Divide, Goto, TypeOK, Locations
<1>11. ASSUME NEW t \in Threads, End(t) PROVE TypeOK'
  BY <1>11, ReturnTyped DEF End, TypeOK, Result
<1>12. ASSUME NEW t \in Threads, Exit(t) PROVE TypeOK'
  BY <1>12 DEF Exit, Goto, TypeOK, Locations
<1>13. ASSUME NEW h \in Streams, Execute(h) PROVE TypeOK'
  <2>1. Head(work[h]) \in Task /\ Tail(work[h]) \in Seq(Task) /\ 1 \in DOMAIN work[h]
          /\ Head(work[h]) = work[h][1]
    BY <1>13 DEF Execute, TypeOK
  <2>2. work' \in [Streams -> Seq(Task)]
    BY <1>13, <2>1 DEF Execute, TypeOK
  <2>3. value' \in [Buffers -> Nat \X Nat]
    <3> DEFINE w == Head(work[h])  b == BufferOfTask(w)
    <3>1. CASE w.do = "sum"
      BY <1>13, <2>1, <3>1 DEF Execute, Task, TypeOK
    <3>2. CASE w.do = "div"
      <4>1. plans[w.plan].n \in Nat
        <5>1. w.plan \in DOMAIN plans
          BY <2>1, <3>2 DEF EventsBehind, TypeOK
        <5> QED
          BY <5>1, PlanTyped
      <4>2. ASSUME b \in Buffers
            PROVE  <<value[b][1], value[b][2] * plans[w.plan].n>> \in Nat \X Nat
        BY <4>1, <4>2 DEF TypeOK
      <4> HIDE DEF b
      <4>3. value' = [value EXCEPT ![b] = <<@[1], @[2] * plans[w.plan].n>>]
        BY <1>13, <3>2 DEF Execute, b
      <4> QED
        BY <4>2, <4>3 DEF TypeOK
    <3>3. CASE w.do = "event"
      BY <1>13, <3>3 DEF Execute, TypeOK
    <3> QED
      BY <2>1, <3>1, <3>2, <3>3 DEF Task
  <2> QED
    BY <1>13, <2>2, <2>3 DEF Execute, TypeOK
<1> QED
  BY <1>1, <1>2, <1>3, <1>4, <1>5, <1>6, <1>7, <1>8, <1>9, <1>10, <1>11, <1>12,
     <1>13 DEF Next

------------------------------------------------------------------------------
\* Steps that leave streams, devices and calls alone.
LEMMA SameStreams ==
  ASSUME TypeOK, StreamInv, UNCHANGED <<device, context, default, call, stream>>,
         \A t \in Threads : (pc'[t] \in Working) => (pc[t] \in Working),
         \A t \in Threads : (pc'[t] = "resolve") => (pc[t] = "resolve")
  PROVE  StreamInv'
<1>1. OnStream'
  BY DEF StreamInv, OnStream, Working
<1>2. Resolving' /\ CallersOwn'
  BY DEF StreamInv, Resolving, CallersOwn, Working
<1>3. DefaultThere' /\ DefaultsDistinct'
  BY DEF StreamInv, DefaultThere, DefaultsDistinct
<1> QED
  BY <1>1, <1>2, <1>3 DEF StreamInv

LEMMA NewDefaultStreamInv ==
  ASSUME TypeOK, StreamInv, NEW t \in Threads, NEW h \in Streams, NewDefaultStream(t, h)
  PROVE  StreamInv'
<1> DEFINE old == default[t].stream
<1> USE DEF StreamInv
<1>1. /\ default \in [Threads -> [stream: Streams \cup {Null}, device: Devices \cup {Null}]]
      /\ device \in [Threads -> Devices] /\ pc \in [Threads -> Locations]
      /\ context \in [Streams -> Devices \cup {Null}]
      /\ stream \in [Threads -> Streams \cup {Null}]
      /\ Null \notin Streams \cup Devices
  BY ConstantsFit DEF TypeOK, Constants
<1>2. /\ pc[t] = "resolve"
      /\ h = old \/ context[h] = Null
      /\ context' = [g \in Streams |-> IF g = h THEN device[t]
                                       ELSE IF g = old THEN Null ELSE context[g]]
      /\ default' = [default EXCEPT ![t] = [stream |-> h, device |-> device[t]]]
      /\ stream' = [stream EXCEPT ![t] = h]
      /\ pc' = [pc EXCEPT ![t] = "prepare"]
      /\ UNCHANGED <<device, call>>
  BY <1>1 DEF NewDefaultStream, Goto
<1>3. \A u \in Threads \ {t} : /\ pc'[u] = pc[u] /\ stream'[u] = stream[u]
                               /\ default'[u] = default[u]
  BY <1>1, <1>2
<1>4. /\ pc'[t] = "prepare" /\ stream'[t] = h /\ call'[t].stream = Null
      /\ default'[t] = [stream |-> h, device |-> device[t]]
  BY <1>1, <1>2 DEF Resolving
<1>5. ASSUME NEW g \in Streams, g # old, context[g] # Null PROVE g # h /\ context'[g] = context[g]
  BY <1>2, <1>5
<1>6. \A u \in Threads : default[u].stream # Null =>
         default[u].stream \in Streams /\ context[default[u].stream] # Null
  BY <1>1 DEF DefaultThere
<1>7. \A u \in Threads \ {t} : pc[u] \in Working =>
         /\ stream[u] \in Streams /\ stream[u] # old /\ context[stream[u]] # Null
  BY <1>1 DEF OnStream, CallersOwn, DefaultsDistinct
<1>8. OnStream'
  BY <1>1, <1>2, <1>3, <1>4, <1>5, <1>7 DEF OnStream
<1>9. Resolving'
  BY <1>2, <1>3, <1>4 DEF Resolving
<1>10. CallersOwn'
  BY <1>1, <1>2, <1>3, <1>4, <1>5, <1>7 DEF CallersOwn, OnStream
<1>11. DefaultThere'
  BY <1>1, <1>2, <1>3, <1>4, <1>5, <1>6 DEF DefaultThere, DefaultsDistinct
<1>12. DefaultsDistinct'
  BY <1>1, <1>3, <1>4, <1>5, <1>6 DEF DefaultsDistinct
<1> QED
  BY <1>8, <1>9, <1>10, <1>11, <1>12

LEMMA ExitStreamInv ==
  ASSUME TypeOK, StreamInv, NEW t \in Threads, Exit(t)
  PROVE  StreamInv'
<1> DEFINE own == default[t].stream
<1> USE DEF StreamInv
<1>1. /\ default \in [Threads -> [stream: Streams \cup {Null}, device: Devices \cup {Null}]]
      /\ pc \in [Threads -> Locations] /\ Null \notin Streams \cup Devices
      /\ stream \in [Threads -> Streams \cup {Null}]
  BY ConstantsFit DEF TypeOK, Constants
<1>2. /\ context' = [h \in Streams |-> IF h = own THEN Null ELSE context[h]]
      /\ default' = [default EXCEPT ![t] = [stream |-> Null, device |-> Null]]
      /\ pc' = [pc EXCEPT ![t] = "gone"]
      /\ UNCHANGED <<device, call, stream>>
  BY DEF Exit, Goto
<1>3. \A u \in Threads \ {t} : pc'[u] = pc[u] /\ default'[u] = default[u]
  BY <1>1, <1>2
<1>4. pc'[t] = "gone" /\ default'[t] = [stream |-> Null, device |-> Null]
  BY <1>1, <1>2
<1>5. \A u \in Threads \ {t} : pc[u] \in Working => stream[u] # own
  BY <1>1 DEF OnStream, CallersOwn, DefaultsDistinct
<1>6. OnStream'
  BY <1>1, <1>2, <1>3, <1>4, <1>5 DEF OnStream, Working
<1>7. Resolving' /\ CallersOwn'
  BY <1>2, <1>3, <1>4 DEF Resolving, CallersOwn, Working
<1>8. DefaultThere'
  BY <1>1, <1>2, <1>3, <1>4 DEF DefaultThere, DefaultsDistinct
<1>9. DefaultsDistinct'
  BY <1>1, <1>3, <1>4 DEF DefaultsDistinct
<1> QED
  BY <1>6, <1>7, <1>8, <1>9

LEMMA CallStreamInv ==
  ASSUME TypeOK, StreamInv, NEW t \in Threads, NEW c \in CallSet, Call(t, c)
  PROVE  StreamInv'
<1> USE DEF StreamInv
<1>1. /\ pc \in [Threads -> Locations] /\ call \in [Threads -> Reduction]
      /\ stream \in [Threads -> Streams \cup {Null}]
      /\ device \in [Threads -> Devices] /\ Null \notin Streams \cup Devices
      /\ c.stream \in Streams \cup {Null}
  BY ConstantsFit DEF TypeOK, Constants, Reduction
<1>2. /\ call' = [call EXCEPT ![t] = c]
      /\ c.stream # Null => c.stream \in Users /\ context[c.stream] = device[t]
      /\ UNCHANGED <<device, context, default>>
  BY DEF Call
<1>3. \/ pc' = [pc EXCEPT ![t] = "idle"] /\ UNCHANGED stream
      \/ /\ stream' = [stream EXCEPT ![t] = c.stream]
         /\ pc' = [pc EXCEPT ![t] = IF c.stream = Null THEN "resolve" ELSE "prepare"]
  BY DEF Call, Return, Goto
<1>4. \A u \in Threads \ {t} : /\ pc'[u] = pc[u] /\ stream'[u] = stream[u]
                               /\ call'[u] = call[u]
  BY <1>1, <1>2, <1>3
<1>5. /\ call'[t] = c
      /\ pc'[t] \in Working => c.stream # Null /\ stream'[t] = c.stream
      /\ pc'[t] = "resolve" => c.stream = Null
  BY <1>1, <1>2, <1>3 DEF Working
<1>6. OnStream' /\ Resolving'
  BY <1>1, <1>2, <1>4, <1>5 DEF OnStream, Resolving
<1>7. CallersOwn'
  BY <1>1, <1>2, <1>4, <1>5 DEF CallersOwn, Users
<1>8. DefaultThere' /\ DefaultsDistinct'
  BY <1>2 DEF DefaultThere, DefaultsDistinct
<1> QED
  BY <1>6, <1>7, <1>8

LEMMA StreamStep == ASSUME IInv, Next PROVE StreamInv'
<1> USE DEF IInv
<1>0. /\ pc \in [Threads -> Locations] /\ Null \notin Streams \cup Devices
      /\ device \in [Threads -> Devices] /\ context \in [Streams -> Devices \cup {Null}]
  BY ConstantsFit DEF TypeOK, Constants
<1>1. ASSUME NEW t \in Threads, SetDevice(t) PROVE StreamInv'
  BY <1>0, <1>1 DEF SetDevice, StreamInv, OnStream, Resolving, CallersOwn, DefaultThere,
                    DefaultsDistinct, Working
<1>2. ASSUME NEW t \in Threads, NEW h \in Streams, CreateStream(t, h) PROVE StreamInv'
  <2>1. \A g \in Streams : context[g] # Null => context'[g] = context[g]
    BY <1>0, <1>2 DEF CreateStream
  <2>2. UNCHANGED <<device, default, pc, call, stream>>
    BY <1>2 DEF CreateStream
  <2> QED
    BY <1>0, <2>1, <2>2 DEF StreamInv, OnStream, Resolving, CallersOwn, DefaultThere,
                            DefaultsDistinct, TypeOK
<1>3. ASSUME NEW t \in Threads, NEW h \in Streams, DestroyStream(t, h) PROVE StreamInv'
  <2>1. /\ \A g \in Streams \ {h} : context'[g] = context[g]
        /\ \A u \in Threads : pc[u] \in Working => stream[u] # h
        /\ \A u \in Threads : default[u].stream # h
    BY <1>0, <1>3 DEF DestroyStream, Users, Working
  <2>2. UNCHANGED <<device, default, pc, call, stream>>
    BY <1>3 DEF DestroyStream
  <2> QED
    BY <1>0, <2>1, <2>2 DEF StreamInv, OnStream, Resolving, CallersOwn, DefaultThere,
                            DefaultsDistinct, TypeOK
<1>4. ASSUME NEW t \in Threads, NEW c \in CallSet, Call(t, c) PROVE StreamInv'
  BY <1>4, CallStreamInv
<1>5. ASSUME NEW t \in Threads, DefaultStream(t) PROVE StreamInv'
  <2>1. /\ pc[t] = "resolve" /\ default[t].device = device[t]
        /\ stream' = [stream EXCEPT ![t] = default[t].stream]
        /\ pc' = [pc EXCEPT ![t] = "prepare"] /\ UNCHANGED <<device, context, default, call>>
    BY <1>5 DEF DefaultStream, OtherDevice, Goto
  <2>2. default[t].stream \in Streams /\ context[default[t].stream] = device[t]
    BY <1>0, <2>1 DEF StreamInv, DefaultThere, TypeOK
  <2> QED
    BY <1>0, <2>1, <2>2 DEF StreamInv, OnStream, Resolving, CallersOwn, DefaultThere,
                            DefaultsDistinct, TypeOK
<1>6. ASSUME NEW t \in Threads, NEW h \in Streams, NewDefaultStream(t, h) PROVE StreamInv'
  BY <1>6, NewDefaultStreamInv
<1>7. ASSUME NEW t \in Threads, Prepare(t) PROVE StreamInv'
  BY <1>0, <1>7, SameStreams DEF Prepare, Return, Goto, Working
<1>8. ASSUME NEW t \in Threads, Sum(t) PROVE StreamInv'
  BY <1>0, <1>8, SameStreams DEF Sum, Goto, Working
<1>9. ASSUME NEW t \in Threads, SumFails(t) PROVE StreamInv'
  BY <1>0, <1>9, SameStreams DEF SumFails, Return, Goto, Working
<1>10. ASSUME NEW t \in Threads, Divide(t) PROVE StreamInv'
  BY <1>0, <1>10, SameStreams DEF Divide, Goto, Working
<1>11. ASSUME NEW t \in Threads, End(t) PROVE StreamInv'
  BY <1>0, <1>11, SameStreams DEF End, Return, Goto, Working
<1>12. ASSUME NEW t \in Threads, Exit(t) PROVE StreamInv'
  BY <1>12, ExitStreamInv
<1>13. ASSUME NEW h \in Streams, Execute(h) PROVE StreamInv'
  BY <1>13, SameStreams DEF Execute
<1> QED
  BY <1>1, <1>2, <1>3, <1>4, <1>5, <1>6, <1>7, <1>8, <1>9, <1>10, <1>11, <1>12,
     <1>13 DEF Next

------------------------------------------------------------------------------
LEMMA PendingEvent ==
  ASSUME NEW p
  PROVE  /\ EventPending(p) <=> \E h \in Streams : \E i \in DOMAIN work[h] :
                                  work[h][i].do = "event" /\ work[h][i].plan = p
         /\ InFlight(p) <=> \E h \in Streams : \E i \in DOMAIN work[h] :
                              work[h][i].do # "sum" /\ work[h][i].plan = p
BY DEF EventPending, InFlight, Tasks

LEMMA PendingEventNext ==
  ASSUME NEW p
  PROVE  InFlight(p)' <=> \E h \in Streams : \E i \in DOMAIN work'[h] :
                            work'[h][i].do # "sum" /\ work'[h][i].plan = p
BY DEF InFlight, Tasks

\* A plan in flight was run, and its event is still to come.
LEMMA FlightShows ==
  ASSUME TypeOK, EventsBehind, NEW p, InFlight(p)
  PROVE  p \in submitted /\ p \in DOMAIN plans /\ EventPending(p)
<1>0. PICK h \in Streams : \E i \in DOMAIN work[h] :
             work[h][i].do # "sum" /\ work[h][i].plan = p
  BY PendingEvent
<1>1. PICK i \in DOMAIN work[h] : work[h][i].do # "sum" /\ work[h][i].plan = p
  BY <1>0
<1>2. work[h] \in Seq(Task) /\ work[h][i] \in Task
  BY DEF TypeOK
<1>3. work[h][i].do \in {"div", "event"}
  BY <1>1, <1>2 DEF Task
<1>4. EventPending(p)
  BY <1>1, <1>3, PendingEvent DEF EventsBehind
<1> QED
  BY <1>1, <1>4 DEF EventsBehind, TypeOK

\* Tasks put behind others.
LEMMA Behind ==
  ASSUME TypeOK, NEW h \in Streams, NEW tasks \in Seq(Task), Enqueue(h, tasks)
  PROVE  /\ \A g \in Streams \ {h} : work'[g] = work[g]
         /\ DOMAIN work'[h] = 1 .. Len(work[h]) + Len(tasks)
         /\ DOMAIN work[h] = 1 .. Len(work[h]) /\ Len(work[h]) \in Nat
         /\ \A i \in 1 .. Len(work[h]) : work'[h][i] = work[h][i]
         /\ \A i \in 1 .. Len(tasks) : work'[h][Len(work[h]) + i] = tasks[i]
<1>1. work[h] \in Seq(Task) /\ work \in [Streams -> Seq(Task)]
  BY DEF TypeOK
<1>2. work' = [work EXCEPT ![h] = work[h] \o tasks]
  BY DEF Enqueue
<1>3. work'[h] = work[h] \o tasks /\ \A g \in Streams \ {h} : work'[g] = work[g]
  BY <1>1, <1>2
<1> QED
  BY <1>1, <1>3

\* A task that is done leaves the others in their order.
LEMMA Done ==
  ASSUME TypeOK, NEW h \in Streams, Execute(h)
  PROVE  /\ \A g \in Streams \ {h} : work'[g] = work[g]
         /\ DOMAIN work[h] = 1 .. Len(work[h]) /\ Len(work[h]) \in Nat \ {0}
         /\ DOMAIN work'[h] = 1 .. Len(work[h]) - 1
         /\ \A i \in DOMAIN work'[h] : work'[h][i] = work[h][i + 1]
<1>1. work[h] \in Seq(Task) /\ work \in [Streams -> Seq(Task)] /\ work[h] # <<>>
  BY DEF TypeOK, Execute
<1>2. work'[h] = Tail(work[h]) /\ \A g \in Streams \ {h} : work'[g] = work[g]
  BY <1>1 DEF Execute
<1> QED
  BY <1>1, <1>2

\* Steps that put no task on a stream.
LEMMA SameWork ==
  ASSUME EventsBehind, UNCHANGED <<work, submitted>>
  PROVE  EventsBehind'
BY DEF EventsBehind

\* A sum alone changes nothing for the plans.
LEMMA SumBehind ==
  ASSUME TypeOK, EventsBehind, NEW h \in Streams, NEW b \in Buffers, NEW n \in Nat,
         Enqueue(h, <<[do |-> "sum", buf |-> b, n |-> n]>>), UNCHANGED submitted
  PROVE  EventsBehind' /\ \A p : InFlight(p)' => InFlight(p)
<1> DEFINE tasks == <<[do |-> "sum", buf |-> b, n |-> n]>>
<1>1. tasks \in Seq(Task) /\ Len(tasks) = 1 /\ tasks[1].do = "sum"
  BY DEF Task
<1>2. Enqueue(h, tasks)
  OBVIOUS
<1> HIDE DEF tasks
<1>a. /\ \A g \in Streams \ {h} : work'[g] = work[g]
      /\ DOMAIN work'[h] = 1 .. Len(work[h]) + Len(tasks)
      /\ DOMAIN work[h] = 1 .. Len(work[h]) /\ Len(work[h]) \in Nat
      /\ \A i \in 1 .. Len(work[h]) : work'[h][i] = work[h][i]
      /\ \A i \in 1 .. Len(tasks) : work'[h][Len(work[h]) + i] = tasks[i]
  BY <1>1, <1>2, Behind
<1>b. /\ DOMAIN work'[h] = 1 .. Len(work[h]) + 1
      /\ work'[h][Len(work[h]) + 1].do = "sum"
  BY <1>1, <1>a
<1>3. ASSUME NEW g \in Streams, NEW i \in DOMAIN work'[g]
      PROVE  \/ i \in DOMAIN work[g] /\ work'[g][i] = work[g][i]
             \/ work'[g][i].do = "sum"
  <2>1. CASE g = h
    <3>1. i \in 1 .. Len(work[h]) \/ i = Len(work[h]) + 1
      BY <1>a, <1>b, <2>1
    <3> QED
      BY <1>a, <1>b, <2>1, <3>1
  <2>2. CASE g # h
    BY <1>a, <2>2
  <2> QED
    BY <2>1, <2>2
<1>4. ASSUME NEW g \in Streams, NEW i \in DOMAIN work[g]
      PROVE  i \in DOMAIN work'[g] /\ work'[g][i] = work[g][i]
  BY <1>a, <1>b
<1>5. EventsBehind'
  BY <1>3, <1>4 DEF EventsBehind
<1>6. ASSUME NEW p, InFlight(p)' PROVE InFlight(p)
  BY <1>3, <1>6, PendingEvent, PendingEventNext
<1> QED
  BY <1>5, <1>6

\* A division comes with its event.
LEMMA DivideBehind ==
  ASSUME IInv, NEW t \in Threads, Divide(t)
  PROVE  EventsBehind' /\ \A p : InFlight(p)' => InFlight(p) \/ p = plan[t]
<1> DEFINE q == plan[t]  h == plans[q].stream
           tasks == <<[do |-> "div", plan |-> q], [do |-> "event", plan |-> q]>>
<1>0. TypeOK /\ EventsBehind
  BY DEF IInv
<1>1. q \in DOMAIN plans /\ h \in Streams /\ q \in Nat
  <2>1. q \in DOMAIN plans
    BY DEF IInv, TypeOK, Divide, PlanCached
  <2> QED
    BY <2>1, <1>0, PlanTyped
<1>2. Enqueue(h, tasks) /\ submitted' = submitted \cup {q}
  BY DEF Divide
<1>3. /\ tasks \in Seq(Task) /\ Len(tasks) = 2
      /\ tasks[1] = [do |-> "div", plan |-> q] /\ tasks[2] = [do |-> "event", plan |-> q]
  BY <1>1 DEF Task
<1> HIDE DEF tasks, h, q
<1>4. /\ \A g \in Streams \ {h} : work'[g] = work[g]
      /\ DOMAIN work'[h] = 1 .. Len(work[h]) + 2
      /\ DOMAIN work[h] = 1 .. Len(work[h]) /\ Len(work[h]) \in Nat
      /\ \A i \in 1 .. Len(work[h]) : work'[h][i] = work[h][i]
      /\ work'[h][Len(work[h]) + 1] = [do |-> "div", plan |-> q]
      /\ work'[h][Len(work[h]) + 2] = [do |-> "event", plan |-> q]
  <2>1. /\ \A g \in Streams \ {h} : work'[g] = work[g]
        /\ DOMAIN work'[h] = 1 .. Len(work[h]) + Len(tasks)
        /\ DOMAIN work[h] = 1 .. Len(work[h]) /\ Len(work[h]) \in Nat
        /\ \A i \in 1 .. Len(work[h]) : work'[h][i] = work[h][i]
        /\ \A i \in 1 .. Len(tasks) : work'[h][Len(work[h]) + i] = tasks[i]
    BY <1>0, <1>1, <1>2, <1>3, Behind
  <2>2. /\ 1 \in 1 .. Len(tasks) /\ 2 \in 1 .. Len(tasks)
    BY <1>3
  <2>3. /\ work'[h][Len(work[h]) + 1] = tasks[1]
        /\ work'[h][Len(work[h]) + 2] = tasks[2]
    BY <2>1, <2>2
  <2> QED
    BY <1>3, <2>1, <2>3
<1>5. ASSUME NEW g \in Streams, NEW i \in DOMAIN work'[g]
      PROVE  \/ i \in DOMAIN work[g] /\ work'[g][i] = work[g][i]
             \/ g = h /\ i = Len(work[h]) + 1
             \/ g = h /\ i = Len(work[h]) + 2
  BY <1>4
<1>6. \A g \in Streams : \A i \in DOMAIN work[g] :
         i \in DOMAIN work'[g] /\ work'[g][i] = work[g][i]
  BY <1>4
<1>7. EventsBehind'
  <2> SUFFICES ASSUME NEW g \in Streams, NEW i \in DOMAIN work'[g]
               PROVE  /\ work'[g][i].do # "sum" => work'[g][i].plan \in submitted'
                      /\ work'[g][i].do = "div" =>
                           \E j \in DOMAIN work'[g] : /\ j > i
                                                      /\ work'[g][j].do = "event"
                                                      /\ work'[g][j].plan = work'[g][i].plan
    BY DEF EventsBehind
  <2>1. CASE i \in DOMAIN work[g] /\ work'[g][i] = work[g][i]
    BY <1>0, <1>2, <1>6, <2>1 DEF EventsBehind
  <2>2. CASE g = h /\ i = Len(work[h]) + 1
    BY <1>1, <1>2, <1>4, <2>2
  <2>3. CASE g = h /\ i = Len(work[h]) + 2
    BY <1>1, <1>2, <1>4, <2>3
  <2> QED
    BY <1>5, <2>1, <2>2, <2>3
<1>8. ASSUME NEW p, InFlight(p)' PROVE InFlight(p) \/ p = q
  <2>0. PICK g \in Streams : \E i \in DOMAIN work'[g] :
               work'[g][i].do # "sum" /\ work'[g][i].plan = p
    BY <1>8, PendingEventNext
  <2>1. PICK i \in DOMAIN work'[g] : work'[g][i].do # "sum" /\ work'[g][i].plan = p
    BY <2>0
  <2> QED
    BY <1>1, <1>4, <1>5, <2>1, PendingEvent
<1> QED
  BY <1>7, <1>8 DEF q

LEMMA ExecuteBehind ==
  ASSUME TypeOK, EventsBehind, NEW h \in Streams, Execute(h)
  PROVE  EventsBehind' /\ \A p : InFlight(p)' => InFlight(p)
<1>1. /\ \A g \in Streams \ {h} : work'[g] = work[g]
      /\ DOMAIN work[h] = 1 .. Len(work[h]) /\ Len(work[h]) \in Nat \ {0}
      /\ DOMAIN work'[h] = 1 .. Len(work[h]) - 1
      /\ \A i \in DOMAIN work'[h] : work'[h][i] = work[h][i + 1]
  BY Done
<1>2. UNCHANGED submitted
  BY DEF Execute
<1>3. EventsBehind'
  <2> SUFFICES ASSUME NEW g \in Streams, NEW i \in DOMAIN work'[g]
               PROVE  /\ work'[g][i].do # "sum" => work'[g][i].plan \in submitted
                      /\ work'[g][i].do = "div" =>
                           \E j \in DOMAIN work'[g] : /\ j > i
                                                      /\ work'[g][j].do = "event"
                                                      /\ work'[g][j].plan = work'[g][i].plan
    BY <1>2 DEF EventsBehind
  <2>1. CASE g # h
    BY <1>1, <2>1 DEF EventsBehind
  <2>2. CASE g = h
    <3>1. i \in Nat /\ i + 1 \in DOMAIN work[h] /\ work'[h][i] = work[h][i + 1]
      BY <1>1, <2>2
    <3>2. work[h][i + 1].do # "sum" => work[h][i + 1].plan \in submitted
      BY <3>1 DEF EventsBehind
    <3>3. ASSUME work[h][i + 1].do = "div"
          PROVE  \E j \in DOMAIN work'[h] : /\ j > i
                                            /\ work'[h][j].do = "event"
                                            /\ work'[h][j].plan = work[h][i + 1].plan
      <4>1. PICK k \in DOMAIN work[h] : /\ k > i + 1
                                        /\ work[h][k].do = "event"
                                        /\ work[h][k].plan = work[h][i + 1].plan
        BY <3>1, <3>3 DEF EventsBehind
      <4>2. k - 1 \in DOMAIN work'[h] /\ k - 1 > i /\ (k - 1) + 1 = k
        BY <1>1, <3>1, <4>1
      <4> QED
        BY <1>1, <4>1, <4>2
    <3> QED
      BY <2>2, <3>1, <3>2, <3>3
  <2> QED
    BY <2>1, <2>2
<1>4. ASSUME NEW p, InFlight(p)' PROVE InFlight(p)
  <2>0. PICK g \in Streams : \E i \in DOMAIN work'[g] :
               work'[g][i].do # "sum" /\ work'[g][i].plan = p
    BY <1>4, PendingEventNext
  <2>1. PICK i \in DOMAIN work'[g] : work'[g][i].do # "sum" /\ work'[g][i].plan = p
    BY <2>0
  <2>2. CASE g # h
    BY <1>1, <2>1, <2>2, PendingEvent
  <2>3. CASE g = h
    <3>1. i + 1 \in DOMAIN work[h] /\ work'[h][i] = work[h][i + 1]
      BY <1>1, <2>3
    <3> QED
      BY <2>1, <2>3, <3>1, PendingEvent
  <2> QED
    BY <2>2, <2>3
<1> QED
  BY <1>3, <1>4

------------------------------------------------------------------------------
\* Steps that leave the caches alone.
LEMMA SameCaches ==
  ASSUME TypeOK, EventsBehind, InFlightKept, UNCHANGED <<cache, plans>>,
         \A p : InFlight(p)' => InFlight(p)
  PROVE  InFlightKept'
BY DEF InFlightKept

\* A plan that is evicted is not in flight.
LEMMA EvictedIsDone ==
  ASSUME TypeOK, EventsBehind, NEW t \in Threads, NEW p \in Evicted(t)
  PROVE  ~InFlight(p)
BY FlightShows DEF Evicted, CanEvict, Ready

LEMMA PrepareKeeps ==
  ASSUME IInv, NEW t \in Threads, Prepare(t)
  PROVE  PlanCached' /\ InFlightKept'
<1> DEFINE new == Len(plans) + 1
<1> USE DEF IInv
<1>0. /\ pc \in [Threads -> Locations] /\ plan \in [Threads -> DOMAIN plans \cup {0}]
      /\ cache \in [Threads -> SUBSET DOMAIN plans] /\ pc[t] = "prepare"
      /\ UNCHANGED <<work, submitted>>
  BY DEF TypeOK, Prepare
<1>1. ASSUME NEW p PROVE InFlight(p)' <=> InFlight(p)
  BY <1>0, PendingEvent, PendingEventNext
<1>2. CASE UNCHANGED <<plans, cache, plan, status>> /\ Goto(t, "sum")
  <2>1. PlanCached'
    BY <1>0, <1>2 DEF PlanCached, Goto
  <2> QED
    BY <1>1, <1>2, <2>1, SameCaches
<1>3. CASE Return(t, "para") /\ UNCHANGED <<plans, cache, plan>>
  <2>1. PlanCached'
    BY <1>0, <1>3 DEF PlanCached, Return, Goto
  <2> QED
    BY <1>1, <1>3, <2>1, SameCaches
<1>4. CASE /\ \E p \in Found(t) : plan' = [plan EXCEPT ![t] = p]
           /\ Goto(t, "sum") /\ UNCHANGED <<plans, cache, status>>
  <2>1. PlanCached'
    BY <1>0, <1>4 DEF PlanCached, Found, Goto
  <2> QED
    BY <1>1, <1>4, <2>1, SameCaches
<1>5. CASE /\ plans' = Append(plans, Key(t))
           /\ cache' = [cache EXCEPT ![t] = (@ \ Evicted(t)) \cup {new}]
           /\ plan' = [plan EXCEPT ![t] = new]
           /\ Goto(t, "sum") /\ UNCHANGED status
  <2>1. PlanCached'
    BY <1>0, <1>5 DEF PlanCached, Goto
  <2>2. InFlightKept'
    <3> SUFFICES ASSUME NEW p, InFlight(p)' PROVE \E u \in Threads : p \in cache'[u]
      BY DEF InFlightKept
    <3>1. InFlight(p) /\ p \in DOMAIN plans
      BY <1>1, FlightShows
    <3>2. PICK u \in Threads : p \in cache[u]
      BY <3>1 DEF InFlightKept
    <3>3. p \notin Evicted(t)
      BY <3>1, EvictedIsDone
    <3> QED
      BY <1>0, <1>5, <3>2, <3>3
  <2> QED
    BY <2>1, <2>2
<1> QED
  BY <1>2, <1>3, <1>4, <1>5 DEF Prepare

\* Steps after which no thread is newly about to use a plan.
LEMMA SamePlans ==
  ASSUME PlanCached, UNCHANGED <<cache, plan>>,
         \A t \in Threads : \/ pc'[t] = pc[t]
                            \/ pc[t] = "resolve" /\ pc'[t] = "prepare"
                            \/ pc'[t] \in {"idle", "end", "gone"}
  PROVE  PlanCached'
BY DEF PlanCached

LEMMA PlanStep == ASSUME IInv, Next PROVE PlanCached' /\ EventsBehind' /\ InFlightKept'
<1> USE DEF IInv
<1>0. /\ pc \in [Threads -> Locations] /\ plan \in [Threads -> DOMAIN plans \cup {0}]
      /\ cache \in [Threads -> SUBSET DOMAIN plans]
  BY DEF TypeOK
<1>a. ASSUME UNCHANGED <<work, submitted, cache, plans>>
      PROVE  EventsBehind' /\ InFlightKept'
  <2>1. \A p : InFlight(p)' => InFlight(p)
    BY <1>a, PendingEvent, PendingEventNext
  <2> QED
    BY <1>a, <2>1, SameWork, SameCaches
<1>1. ASSUME NEW t \in Threads, SetDevice(t) PROVE PlanCached' /\ EventsBehind' /\ InFlightKept'
  BY <1>1, <1>a, SamePlans DEF SetDevice
<1>2. ASSUME NEW t \in Threads, NEW h \in Streams, CreateStream(t, h)
      PROVE  PlanCached' /\ EventsBehind' /\ InFlightKept'
  BY <1>2, <1>a, SamePlans DEF CreateStream
<1>3. ASSUME NEW t \in Threads, NEW h \in Streams, DestroyStream(t, h)
      PROVE  PlanCached' /\ EventsBehind' /\ InFlightKept'
  BY <1>3, <1>a, SamePlans DEF DestroyStream
<1>4. ASSUME NEW t \in Threads, NEW c \in CallSet, Call(t, c)
      PROVE  PlanCached' /\ EventsBehind' /\ InFlightKept'
  <2>1. /\ plan' = [plan EXCEPT ![t] = 0] /\ UNCHANGED cache
        /\ \E to \in {"idle", "resolve", "prepare"} : pc' = [pc EXCEPT ![t] = to]
    BY <1>4 DEF Call, Return, Goto
  <2>2. PlanCached'
    BY <1>0, <2>1 DEF PlanCached
  <2> QED
    BY <1>4, <1>a, <2>2 DEF Call
<1>5. ASSUME NEW t \in Threads, DefaultStream(t)
      PROVE  PlanCached' /\ EventsBehind' /\ InFlightKept'
  BY <1>0, <1>5, <1>a, SamePlans DEF DefaultStream, Goto
<1>6. ASSUME NEW t \in Threads, NEW h \in Streams, NewDefaultStream(t, h)
      PROVE  PlanCached' /\ EventsBehind' /\ InFlightKept'
  BY <1>0, <1>6, <1>a, SamePlans DEF NewDefaultStream, Goto
<1>7. ASSUME NEW t \in Threads, Prepare(t)
      PROVE  PlanCached' /\ EventsBehind' /\ InFlightKept'
  BY <1>7, PrepareKeeps, SameWork DEF Prepare
<1>8. ASSUME NEW t \in Threads, Sum(t)
      PROVE  PlanCached' /\ EventsBehind' /\ InFlightKept'
  <2>1. PlanCached'
    BY <1>0, <1>8 DEF Sum, Goto, PlanCached
  <2>2. CASE UNCHANGED work
    BY <1>8, <1>a, <2>1, <2>2 DEF Sum
  <2>3. CASE Enqueue(stream[t], <<[do |-> "sum", buf |-> call[t].buf, n |-> call[t].n]>>)
    <3>1. stream[t] \in Streams /\ call[t].buf \in Buffers /\ call[t].n \in Nat
      BY <1>8 DEF Sum, StreamInv, OnStream, Working, TypeOK, Reduction
    <3>2. EventsBehind' /\ \A p : InFlight(p)' => InFlight(p)
      BY <1>8, <2>3, <3>1, SumBehind DEF Sum
    <3> QED
      BY <1>8, <2>1, <3>2, SameCaches DEF Sum
  <2> QED
    BY <1>8, <2>2, <2>3 DEF Sum
<1>9. ASSUME NEW t \in Threads, SumFails(t)
      PROVE  PlanCached' /\ EventsBehind' /\ InFlightKept'
  <2>1. PlanCached'
    BY <1>0, <1>9 DEF SumFails, Return, Goto, PlanCached
  <2>2. CASE UNCHANGED work
    BY <1>9, <1>a, <2>1, <2>2 DEF SumFails
  <2>3. CASE Enqueue(stream[t], <<[do |-> "sum", buf |-> call[t].buf, n |-> call[t].n]>>)
    <3>1. stream[t] \in Streams /\ call[t].buf \in Buffers /\ call[t].n \in Nat
      BY <1>9 DEF SumFails, StreamInv, OnStream, Working, TypeOK, Reduction
    <3>2. EventsBehind' /\ \A p : InFlight(p)' => InFlight(p)
      BY <1>9, <2>3, <3>1, SumBehind DEF SumFails
    <3> QED
      BY <1>9, <2>1, <3>2, SameCaches DEF SumFails
  <2> QED
    BY <1>9, <2>2, <2>3 DEF SumFails
<1>10. ASSUME NEW t \in Threads, Divide(t)
       PROVE  PlanCached' /\ EventsBehind' /\ InFlightKept'
  <2>1. PlanCached'
    BY <1>0, <1>10 DEF Divide, Goto, PlanCached
  <2>2. EventsBehind' /\ \A p : InFlight(p)' => InFlight(p) \/ p = plan[t]
    BY <1>10, DivideBehind
  <2>3. plan[t] \in cache[t] /\ UNCHANGED <<cache, plans>>
    BY <1>10 DEF Divide, PlanCached
  <2>4. InFlightKept'
    BY <2>2, <2>3 DEF InFlightKept
  <2> QED
    BY <2>1, <2>2, <2>4
<1>11. ASSUME NEW t \in Threads, End(t)
       PROVE  PlanCached' /\ EventsBehind' /\ InFlightKept'
  BY <1>0, <1>11, <1>a, SamePlans DEF End, Return, Goto
<1>12. ASSUME NEW t \in Threads, Exit(t)
       PROVE  PlanCached' /\ EventsBehind' /\ InFlightKept'
  <2>1. /\ cache' = [cache EXCEPT ![t] = {}] /\ UNCHANGED <<work, submitted, plans, plan>>
        /\ pc' = [pc EXCEPT ![t] = "gone"]
    BY <1>12 DEF Exit, Goto
  <2>2. PlanCached'
    BY <1>0, <2>1 DEF PlanCached
  <2>3. EventsBehind'
    BY <2>1, SameWork
  <2>4. InFlightKept'
    <3> SUFFICES ASSUME NEW p, InFlight(p)' PROVE \E u \in Threads : p \in cache'[u]
      BY DEF InFlightKept
    <3>1. InFlight(p) /\ p \in submitted /\ p \in DOMAIN plans /\ EventPending(p)
      BY <2>1, PendingEvent, PendingEventNext, FlightShows
    <3>2. PICK u \in Threads : p \in cache[u]
      BY <3>1 DEF InFlightKept
    <3>3. u # t
      BY <1>12, <3>1, <3>2 DEF Exit
    <3> QED
      BY <1>0, <2>1, <3>2, <3>3
  <2> QED
    BY <2>2, <2>3, <2>4
<1>13. ASSUME NEW h \in Streams, Execute(h)
       PROVE  PlanCached' /\ EventsBehind' /\ InFlightKept'
  BY <1>13, ExecuteBehind, SameCaches, SamePlans DEF Execute
<1> QED
  BY <1>1, <1>2, <1>3, <1>4, <1>5, <1>6, <1>7, <1>8, <1>9, <1>10, <1>11, <1>12,
     <1>13 DEF Next

------------------------------------------------------------------------------
LEMMA Inductive == Spec => []IInv
<1>1. ASSUME IInv, [Next]_vars PROVE IInv'
  <2>1. CASE Next
    BY <1>1, <2>1, TypeStep, StreamStep, PlanStep DEF IInv
  <2>2. CASE UNCHANGED vars
    <3>1. TypeOK' /\ PlanCached' /\ EventsBehind'
      BY <1>1, <2>2 DEF vars, IInv, TypeOK, PlanCached, EventsBehind
    <3>2. StreamInv'
      BY <1>1, <2>2, SameStreams DEF vars, IInv
    <3>3. InFlightKept'
      BY <1>1, <2>2, SameCaches, PendingEvent, PendingEventNext DEF vars, IInv
    <3> QED
      BY <3>1, <3>2, <3>3 DEF IInv
  <2> QED
    BY <1>1, <2>1, <2>2
<1> QED
  BY InitIInv, <1>1, PTL DEF Spec

\* Every variable keeps its type.
THEOREM Typing == Spec => []TypeOK
<1>1. IInv => TypeOK
  BY DEF IInv
<1> QED
  BY Inductive, <1>1, PTL

\* No plan is freed while the device has still to do its division.
THEOREM FlightsKept == Spec => []InFlightKept
<1>1. IInv => InFlightKept
  BY DEF IInv
<1> QED
  BY Inductive, <1>1, PTL

\* Tasks go to streams that are there, of the current device of the thread.
THEOREM StreamsThere == Spec => []StreamsInUse
<1>1. IInv => StreamsInUse
  BY DEF IInv, StreamInv, OnStream, Working, StreamsInUse
<1> QED
  BY Inductive, <1>1, PTL

------------------------------------------------------------------------------
\* A set of naturals that is not empty has a least element.
LEMMA LeastElement ==
  ASSUME NEW S \in SUBSET Nat, S # {}
  PROVE  \E m \in S : \A q \in S : ~(q < m)
<1> DEFINE R == OpToRel(<, Nat)
<1>1. IsWellFoundedOn(R, Nat)
  BY NatLessThanWellFounded
<1> HIDE DEF R
<1>2. PICK m \in S : \A q \in S : ~(<<q, m>> \in R)
  BY <1>1, WFMin
<1> QED
  BY <1>2 DEF R, OpToRel

LEMMA CacheFinite ==
  ASSUME TypeOK, NEW t \in Threads
  PROVE  /\ cache[t] \in SUBSET Nat /\ IsFiniteSet(cache[t])
         /\ Cardinality(cache[t]) \in Nat
<1>1. cache[t] \subseteq 1 .. Len(plans) /\ Len(plans) \in Nat
  BY DEF TypeOK
<1>2. IsFiniteSet(1 .. Len(plans))
  BY <1>1, FS_Interval
<1>3. IsFiniteSet(cache[t])
  BY <1>1, <1>2, FS_Subset
<1>4. Cardinality(cache[t]) \in Nat
  BY <1>3, FS_CardinalityType
<1> QED
  BY <1>1, <1>3, <1>4

\* A full cache with a plan that can go loses one.
LEMMA EvictsOne ==
  ASSUME TypeOK, NEW t \in Threads, Cardinality(cache[t]) >= Warm,
         NEW p \in cache[t], CanEvict(p, t)
  PROVE  Evicted(t) # {}
<1> DEFINE completed == {q \in cache[t] : CanEvict(q, t)}
<1>1. completed \in SUBSET Nat /\ completed # {}
  BY CacheFinite
<1>2. PICK m \in completed : \A q \in completed : ~(q < m)
  BY <1>1, LeastElement
<1>3. Cardinality({q \in completed : q < m}) = 0
  <2>1. {q \in completed : q < m} = {}
    BY <1>2
  <2> QED
    BY <2>1, FS_EmptySet
<1>4. TooMany(t) > 0
  BY CacheFinite, ConstantsFit DEF TooMany, Constants
<1>5. m \in Evicted(t)
  BY <1>3, <1>4 DEF Evicted
<1> QED
  BY <1>5

\* What is evicted makes room.
LEMMA EvictionShrinks ==
  ASSUME TypeOK, NEW t \in Threads, Evicted(t) # {}, NEW new
  PROVE  Cardinality((cache[t] \ Evicted(t)) \cup {new}) <= Cardinality(cache[t])
<1> DEFINE left == cache[t] \ Evicted(t)
<1>1. IsFiniteSet(cache[t]) /\ Cardinality(cache[t]) \in Nat
  BY CacheFinite
<1>2. PICK p : p \in cache[t] /\ p \in Evicted(t)
  BY DEF Evicted
<1>3. /\ IsFiniteSet(cache[t] \ {p})
      /\ Cardinality(cache[t] \ {p}) = Cardinality(cache[t]) - 1
  BY <1>1, <1>2, FS_RemoveElement
<1>4. left \in SUBSET (cache[t] \ {p})
  BY <1>2
<1> HIDE DEF left
<1>5. IsFiniteSet(left) /\ Cardinality(left) <= Cardinality(cache[t] \ {p})
  BY <1>3, <1>4, FS_Subset
<1>6. Cardinality(left) \in Nat
  BY <1>5, FS_CardinalityType
<1>7. Cardinality(left \cup {new}) = IF new \in left THEN Cardinality(left)
                                                    ELSE Cardinality(left) + 1
  BY <1>5, FS_AddElement
<1>8. Cardinality(left \cup {new}) <= Cardinality(cache[t])
  BY <1>1, <1>3, <1>5, <1>6, <1>7
<1> QED
  BY <1>8 DEF left

\* The only step that makes a cache larger.
LEMMA OnlyPrepareGrows ==
  ASSUME TypeOK, Next, NEW t \in Threads, cache'[t] # cache[t]
  PROVE  \/ cache'[t] = {}
         \/ \E new : cache'[t] = (cache[t] \ Evicted(t)) \cup {new}
<1>1. \A u \in Threads : Exit(u) => (u = t => cache'[t] = {}) /\ (u # t => cache'[t] = cache[t])
  BY DEF Exit, TypeOK
<1>2. ASSUME NEW u \in Threads, Prepare(u)
      PROVE  \E new : cache'[t] = (cache[t] \ Evicted(t)) \cup {new}
  <2>1. PICK new : cache' = [cache EXCEPT ![u] = (cache[u] \ Evicted(u)) \cup {new}]
    BY <1>2 DEF Prepare, TypeOK
  <2>2. u = t /\ cache'[u] = (cache[u] \ Evicted(u)) \cup {new}
    BY <2>1 DEF TypeOK
  <2> QED
    BY <2>2
<1>3. /\ \A u \in Threads :
           (DefaultStream(u) \/ Sum(u) \/ SumFails(u) \/ Divide(u) \/ End(u) \/ SetDevice(u))
             => cache' = cache
      /\ \A u \in Threads : \A c \in CallSet : Call(u, c) => cache' = cache
      /\ \A u \in Threads : \A h \in Streams :
           (NewDefaultStream(u, h) \/ CreateStream(u, h) \/ DestroyStream(u, h))
             => cache' = cache
      /\ \A h \in Streams : Execute(h) => cache' = cache
  BY DEF DefaultStream, Sum, SumFails, Divide, End, SetDevice, Call, NewDefaultStream,
         CreateStream, DestroyStream, Execute
<1> QED
  BY <1>1, <1>2, <1>3 DEF Next

\* A cache grows past Warm only when every plan of the current device in it is
\* in flight.
THEOREM GrowthForced == Spec => GrowsOnlyInFlight
<1> DEFINE Grows(t) == /\ Cardinality(cache'[t]) > Cardinality(cache[t])
                       /\ Cardinality(cache'[t]) > Warm
           Busy(t) == \A p \in cache[t] : plans[p].context = device[t] => InFlight(p)
<1>1. ASSUME IInv, [Next]_vars
      PROVE  [\A t \in Threads : Grows(t) => Busy(t)]_vars
  <2> SUFFICES ASSUME Next, NEW t \in Threads, Grows(t), NEW p \in cache[t],
                      plans[p].context = device[t]
               PROVE  InFlight(p)
    BY <1>1
  <2>0. TypeOK
    BY <1>1 DEF IInv
  <2>1. /\ IsFiniteSet(cache[t]) /\ Cardinality(cache[t]) \in Nat
        /\ Cardinality({}) = 0
    BY <2>0, CacheFinite, FS_EmptySet
  <2>2. PICK new : cache'[t] = (cache[t] \ Evicted(t)) \cup {new}
    <3>1. cache'[t] # cache[t] /\ cache'[t] # {}
      BY <2>1
    <3> QED
      BY <2>0, <3>1, OnlyPrepareGrows
  <2>3. Evicted(t) = {}
    <3>1. Evicted(t) # {} => Cardinality(cache'[t]) <= Cardinality(cache[t])
      BY <2>0, <2>2, EvictionShrinks
    <3>2. \E k \in Nat : Cardinality(cache'[t]) = k
      <4>1. IsFiniteSet((cache[t] \ Evicted(t)) \cup {new})
        <5>1. IsFiniteSet(cache[t] \ Evicted(t))
          BY <2>1, FS_Subset
        <5> QED
          BY <5>1, FS_AddElement
      <4> QED
        BY <2>2, <4>1, FS_CardinalityType
    <3> QED
      BY <2>1, <3>1, <3>2
  <2>4. Cardinality(cache'[t]) <= Cardinality(cache[t]) + 1 /\ Cardinality(cache'[t]) \in Nat
    <3>1. cache'[t] = cache[t] \cup {new}
      BY <2>2, <2>3
    <3>2. /\ IsFiniteSet(cache[t] \cup {new})
          /\ Cardinality(cache[t] \cup {new}) =
               IF new \in cache[t] THEN Cardinality(cache[t]) ELSE Cardinality(cache[t]) + 1
      BY <2>1, FS_AddElement
    <3> QED
      BY <2>1, <3>1, <3>2
  <2>5. Cardinality(cache[t]) >= Warm
    BY <2>1, <2>4, ConstantsFit DEF Constants
  <2>6. ~CanEvict(p, t)
    BY <2>0, <2>3, <2>5, EvictsOne
  <2>7. EventPending(p)
    BY <2>6 DEF CanEvict, Ready
  <2> QED
    BY <2>7, PendingEvent
<1> QED
  BY <1>1, Inductive, PTL DEF Spec, GrowsOnlyInFlight

-----------------------------------------------------------------------------
(***************************************************************************)
(* What the buffers hold when their streams are through.                   *)
(***************************************************************************)

\* The i-th task of stream h writes buffer b; it is its sum over n ranks, or
\* its division by d.
OnBuffer(h, i, b) == work[h][i].do # "event" /\ BufferOfTask(work[h][i]) = b

SumAt(h, i, b, n) ==
  work[h][i].do = "sum" /\ work[h][i].buf = b /\ work[h][i].n = n

DivisionAt(h, i, b, d) ==
  /\ work[h][i].do = "div"
  /\ plans[work[h][i].plan].buf = b /\ plans[work[h][i].plan].n = d

\* Nothing else than the tasks S of stream h writes b.
OnlyAt(h, b, S) ==
  \A g \in Streams : \A k \in DOMAIN work[g] : OnBuffer(g, k, b) => g = h /\ k \in S

NoneLeft(b) == \A g \in Streams : \A k \in DOMAIN work[g] : ~OnBuffer(g, k, b)

\* When the streams are through, b will hold the sum over n ranks, ...
Summed(b, n) ==
  \/ NoneLeft(b) /\ value[b] = <<n, 1>>
  \/ \E h \in Streams : \E i \in DOMAIN work[h] :
       SumAt(h, i, b, n) /\ OnlyAt(h, b, 1 .. i)

\* ... or that sum divided by d.
Divided(b, n, d) ==
  \/ NoneLeft(b) /\ value[b] = <<n, d>>
  \/ \E h \in Streams : \E j \in DOMAIN work[h] :
       /\ DivisionAt(h, j, b, d)
       /\ \/ value[b] = <<n, 1>> /\ OnlyAt(h, b, {j})
          \/ \E i \in 1 .. j - 1 :
               SumAt(h, i, b, n) /\ OnlyAt(h, b, (1 .. i) \cup {j})

Dividing(t, b) == pc[t] = "divide" /\ call[t].buf = b

\* The tasks on a buffer, and the division its thread is about to add, lead to
\* the sum over n ranks, divided by d.
ComesTo(b, n, d) ==
  \/ \E t \in Threads : /\ Dividing(t, b) /\ call[t].n = n /\ d = n
                        /\ Summed(b, n)
  \/ /\ \A t \in Threads : ~Dividing(t, b)
     /\ (d = 1 /\ Summed(b, n)) \/ Divided(b, n, d)

Outcome ==
  \A b \in Buffers : want[b] # Null =>
    \E n, d \in Nat : want[b] = <<n, d>> /\ ComesTo(b, n, d)

\* The plan of a call was made for the like of it; an average without a plan
\* is over one rank, or of nothing.
PlanFits ==
  \A t \in Threads : pc[t] \in {"sum", "divide"} =>
    /\ plan[t] # 0 => /\ plans[plan[t]] = Key(t)
                      /\ call[t].avg /\ call[t].count = "some"
    /\ call[t].avg /\ plan[t] = 0 /\ call[t].count # "none" => call[t].n = 1

\* No average over no rank comes as far as the library.
SomeRanks ==
  \A t \in Threads :
    pc[t] \in {"resolve", "prepare"} /\ call[t].avg => call[t].n > 0

CallHome ==
  \A t \in Threads :
    pc[t] \notin {"idle", "gone"} \/ status[t] # <<>> => call[t].buf \in BufferOf[t]

\* The tasks on a buffer are on one stream, that of the call that is under way.
OneStream ==
  /\ \A b \in Buffers : \A g, h \in Pending(b) : g = h
  /\ \A t \in Threads :
       /\ pc[t] = "resolve" => Pending(call[t].buf) \subseteq {default[t].stream}
       /\ pc[t] \in Working => Pending(call[t].buf) \subseteq {stream[t]}

\* A call on the null stream has been waited for.
Waited ==
  \A t \in Threads :
    /\ pc[t] = "idle" /\ status[t] # <<>> /\ call[t].stream = Null
    /\ status[t][Len(status[t])] = "success"
    => Pending(call[t].buf) = {}

BInv == Outcome /\ PlanFits /\ SomeRanks /\ CallHome /\ OneStream /\ Waited

------------------------------------------------------------------------------
LEMMA PendingIs ==
  ASSUME NEW b, NEW h
  PROVE  /\ h \in Pending(b) <=> h \in Streams /\ \E i \in DOMAIN work[h] :
                                   BufferOfTask(work[h][i]) = b
         /\ h \in Pending(b)' <=> h \in Streams /\ \E i \in DOMAIN work'[h] :
                                   BufferOfTask(work[h][i])' = b
BY DEF Pending, Tasks, BufferOfTask

\* A task is of one of three kinds, and a plan that it names was made.
LEMMA TaskKinds ==
  ASSUME TypeOK, EventsBehind, NEW h \in Streams, NEW i \in DOMAIN work[h]
  PROVE  /\ work[h][i] \in Task /\ work[h][i].do \in {"sum", "div", "event"}
         /\ work[h][i].do = "sum" => work[h][i].buf \in Buffers
         /\ work[h][i].do # "sum" => work[h][i].plan \in DOMAIN plans
         /\ BufferOfTask(work[h][i]) \in Buffers
<1>1. work[h] \in Seq(Task) /\ work[h][i] \in Task
  BY DEF TypeOK
<1>2. work[h][i].do # "sum" => work[h][i].plan \in DOMAIN plans
  BY DEF EventsBehind, TypeOK
<1>3. work[h][i].do \in {"sum", "div", "event"}
        /\ (work[h][i].do = "sum" => work[h][i].buf \in Buffers)
  BY <1>1 DEF Task
<1> QED
  BY <1>1, <1>2, <1>3, PlanTyped DEF BufferOfTask

\* A buffer whose tasks stay where they are comes to the same.
LEMMA SameTasks ==
  ASSUME TypeOK, EventsBehind, NEW b, value'[b] = value[b],
         \A p \in DOMAIN plans : plans'[p] = plans[p],
         \A g \in Streams : \A i \in DOMAIN work[g] :
           OnBuffer(g, i, b) => i \in DOMAIN work'[g] /\ work'[g][i] = work[g][i],
         \A g \in Streams : \A i \in DOMAIN work'[g] :
           OnBuffer(g, i, b)' => i \in DOMAIN work[g] /\ work'[g][i] = work[g][i],
         NEW n, NEW d
  PROVE  /\ Summed(b, n) => Summed(b, n)'
         /\ Divided(b, n, d) => Divided(b, n, d)'
<1>1. ASSUME NEW g \in Streams, NEW i \in DOMAIN work[g], work'[g][i] = work[g][i]
      PROVE  /\ OnBuffer(g, i, b)' <=> OnBuffer(g, i, b)
             /\ SumAt(g, i, b, n) => OnBuffer(g, i, b) /\ SumAt(g, i, b, n)'
             /\ DivisionAt(g, i, b, d) => OnBuffer(g, i, b) /\ DivisionAt(g, i, b, d)'
  BY <1>1, TaskKinds DEF OnBuffer, SumAt, DivisionAt, BufferOfTask
<1>2. NoneLeft(b) => NoneLeft(b)'
  BY <1>1 DEF NoneLeft
<1>3. \A h, S : OnlyAt(h, b, S) => OnlyAt(h, b, S)'
  BY <1>1 DEF OnlyAt
<1>4. ASSUME NEW h \in Streams, NEW i \in DOMAIN work[h], SumAt(h, i, b, n)
      PROVE  i \in DOMAIN work'[h] /\ SumAt(h, i, b, n)'
  <2>1. OnBuffer(h, i, b)
    BY <1>4 DEF OnBuffer, SumAt, BufferOfTask
  <2> QED
    BY <1>1, <1>4, <2>1
<1>5. ASSUME NEW h \in Streams, NEW i \in DOMAIN work[h], DivisionAt(h, i, b, d)
      PROVE  i \in DOMAIN work'[h] /\ DivisionAt(h, i, b, d)'
  <2>1. OnBuffer(h, i, b)
    BY <1>5 DEF OnBuffer, DivisionAt, BufferOfTask
  <2> QED
    BY <1>1, <1>5, <2>1
<1>6. Summed(b, n) => Summed(b, n)'
  BY <1>2, <1>3, <1>4 DEF Summed
<1>7. ASSUME NEW h \in Streams, NEW j \in DOMAIN work[h], NEW i \in 1 .. j - 1
      PROVE  i \in DOMAIN work[h]
  BY DEF TypeOK
<1>8. Divided(b, n, d) => Divided(b, n, d)'
  BY <1>2, <1>3, <1>4, <1>5, <1>7 DEF Divided
<1> QED
  BY <1>6, <1>8

\* Steps that leave the streams and the buffers alone.
LEMMA SameOutcome ==
  ASSUME TypeOK, EventsBehind, Outcome, UNCHANGED <<work, value, want>>,
         \A p \in DOMAIN plans : plans'[p] = plans[p],
         \A t \in Threads : /\ pc'[t] = "divide" <=> pc[t] = "divide"
                            /\ pc[t] = "divide" => call'[t] = call[t]
  PROVE  /\ Outcome'
         /\ \A b : Pending(b)' = Pending(b)
<1>1. ASSUME NEW g \in Streams, NEW i \in DOMAIN work[g]
      PROVE  BufferOfTask(work[g][i])' = BufferOfTask(work[g][i])
  BY <1>1, TaskKinds DEF BufferOfTask
<1>2. \A b : Pending(b)' = Pending(b)
  <2> SUFFICES ASSUME NEW b, NEW h PROVE h \in Pending(b)' <=> h \in Pending(b)
    BY DEF Pending, Tasks
  <2> QED
    BY <1>1, PendingIs
<1>3. \A b, n, d : /\ Summed(b, n) => Summed(b, n)'
                   /\ Divided(b, n, d) => Divided(b, n, d)'
  BY SameTasks
<1>4. \A t \in Threads : \A b : Dividing(t, b)' <=> Dividing(t, b)
  BY DEF Dividing
<1>5. ASSUME NEW b, NEW n, NEW d, ComesTo(b, n, d) PROVE ComesTo(b, n, d)'
  BY <1>3, <1>4, <1>5 DEF ComesTo, Dividing
<1>6. Outcome'
  BY <1>5 DEF Outcome
<1> QED
  BY <1>2, <1>6

------------------------------------------------------------------------------
\* Tasks put behind others on h, that write no buffer but b, leave the other
\* buffers alone.
LEMMA OthersKept ==
  ASSUME TypeOK, EventsBehind, UNCHANGED <<plans, value>>, NEW b, NEW h \in Streams,
         \A g \in Streams : \A i \in DOMAIN work[g] :
           i \in DOMAIN work'[g] /\ work'[g][i] = work[g][i],
         \A g \in Streams : \A i \in DOMAIN work'[g] :
           \/ i \in DOMAIN work[g]
           \/ g = h /\ BufferOfTask(work[g][i])' = b,
         NEW c
  PROVE  /\ c # b => /\ Pending(c)' = Pending(c)
                     /\ \A n, d : /\ Summed(c, n) => Summed(c, n)'
                                  /\ Divided(c, n, d) => Divided(c, n, d)'
         /\ c = b => Pending(c)' \subseteq Pending(c) \cup {h}
<1>1. ASSUME NEW g \in Streams, NEW i \in DOMAIN work[g]
      PROVE  BufferOfTask(work[g][i])' = BufferOfTask(work[g][i])
  BY <1>1 DEF BufferOfTask
<1>2. ASSUME c # b PROVE Pending(c)' = Pending(c)
  <2>1. ASSUME NEW g PROVE g \in Pending(c)' <=> g \in Pending(c)
    BY <1>1, <1>2, PendingIs
  <2> QED
    BY <2>1 DEF Pending, Tasks
<1>3. ASSUME c = b PROVE Pending(c)' \subseteq Pending(c) \cup {h}
  <2>1. ASSUME NEW g, g \in Pending(c)' PROVE g \in Pending(c) \cup {h}
    BY <1>1, <1>3, <2>1, PendingIs
  <2> QED
    BY <2>1
<1>4. ASSUME c # b, NEW n, NEW d
      PROVE  /\ Summed(c, n) => Summed(c, n)'
             /\ Divided(c, n, d) => Divided(c, n, d)'
  <2>1. \A g \in Streams : \A i \in DOMAIN work'[g] :
           OnBuffer(g, i, c)' => i \in DOMAIN work[g] /\ work'[g][i] = work[g][i]
    BY <1>4 DEF OnBuffer
  <2> QED
    BY <2>1, SameTasks
<1> QED
  BY <1>2, <1>3, <1>4

\* A sum behind the tasks on its buffer makes up what the buffer comes to.
LEMMA SumSums ==
  ASSUME TypeOK, EventsBehind, UNCHANGED <<plans, value>>,
         NEW h \in Streams, NEW b \in Buffers, NEW n \in Nat,
         Enqueue(h, <<[do |-> "sum", buf |-> b, n |-> n]>>), Pending(b) \subseteq {h}
  PROVE  /\ Summed(b, n)' /\ Pending(b)' \subseteq {h}
         /\ \A c : c # b =>
              /\ Pending(c)' = Pending(c)
              /\ \A m, d : /\ Summed(c, m) => Summed(c, m)'
                           /\ Divided(c, m, d) => Divided(c, m, d)'
<1> DEFINE tasks == <<[do |-> "sum", buf |-> b, n |-> n]>>
<1>0. PICK last \in Nat : last = Len(work[h]) + 1
  BY DEF TypeOK
<1>1. tasks \in Seq(Task) /\ Len(tasks) = 1 /\ tasks[1] = [do |-> "sum", buf |-> b, n |-> n]
  BY DEF Task
<1>2. Enqueue(h, tasks)
  OBVIOUS
<1> HIDE DEF tasks
<1>3. /\ \A g \in Streams \ {h} : work'[g] = work[g]
      /\ DOMAIN work'[h] = 1 .. Len(work[h]) + Len(tasks)
      /\ DOMAIN work[h] = 1 .. Len(work[h]) /\ Len(work[h]) \in Nat
      /\ \A i \in 1 .. Len(work[h]) : work'[h][i] = work[h][i]
      /\ \A i \in 1 .. Len(tasks) : work'[h][Len(work[h]) + i] = tasks[i]
  BY <1>1, <1>2, Behind
<1>4. /\ DOMAIN work'[h] = 1 .. last /\ last \in DOMAIN work'[h]
      /\ work'[h][last] = [do |-> "sum", buf |-> b, n |-> n]
  BY <1>0, <1>1, <1>3
<1>5. /\ \A g \in Streams : \A i \in DOMAIN work[g] :
           i \in DOMAIN work'[g] /\ work'[g][i] = work[g][i]
      /\ \A g \in Streams : \A i \in DOMAIN work'[g] :
           \/ i \in DOMAIN work[g]
           \/ g = h /\ i = last
  <2>1. ASSUME NEW g \in Streams, g # h PROVE work'[g] = work[g]
    BY <1>3, <2>1
  <2>2. \A i \in DOMAIN work[h] : i \in DOMAIN work'[h] /\ work'[h][i] = work[h][i]
    BY <1>0, <1>3, <1>4
  <2>3. \A i \in DOMAIN work'[h] : i \in DOMAIN work[h] \/ i = last
    BY <1>0, <1>3, <1>4
  <2> QED
    BY <1>0, <2>1, <2>2, <2>3
<1>6. \A g \in Streams : \A i \in DOMAIN work'[g] :
           \/ i \in DOMAIN work[g]
           \/ g = h /\ BufferOfTask(work[g][i])' = b
  BY <1>4, <1>5 DEF BufferOfTask
<1>7. Pending(b)' \subseteq {h}
  BY <1>5, <1>6, OthersKept
<1>8. SumAt(h, last, b, n)'
  BY <1>4 DEF SumAt
<1>9. OnlyAt(h, b, 1 .. last)'
  <2> SUFFICES ASSUME NEW g \in Streams, NEW k \in DOMAIN work'[g], OnBuffer(g, k, b)'
               PROVE  g = h /\ k \in 1 .. last
    BY <1>3 DEF OnlyAt
  <2>1. g \in Pending(b)'
    BY PendingIs DEF OnBuffer
  <2> QED
    BY <1>4, <1>7, <2>1
<1>10. Summed(b, n)'
  BY <1>4, <1>8, <1>9 DEF Summed
<1> QED
  BY <1>5, <1>6, <1>7, <1>10, OthersKept

\* A division behind the sum divides it.
LEMMA DivisionDivides ==
  ASSUME TypeOK, EventsBehind, UNCHANGED <<plans, value>>, NEW p \in DOMAIN plans,
         NEW h, h = plans[p].stream, NEW b, b = plans[p].buf, Pending(b) \subseteq {h},
         Enqueue(h, <<[do |-> "div", plan |-> p], [do |-> "event", plan |-> p]>>)
  PROVE  /\ \A n : Summed(b, n) => Divided(b, n, plans[p].n)'
         /\ Pending(b)' \subseteq {h}
         /\ \A c : c # b =>
              /\ Pending(c)' = Pending(c)
              /\ \A m, d : /\ Summed(c, m) => Summed(c, m)'
                           /\ Divided(c, m, d) => Divided(c, m, d)'
<1> DEFINE tasks == <<[do |-> "div", plan |-> p], [do |-> "event", plan |-> p]>>
<1>0. h \in Streams /\ p \in Nat
  BY PlanTyped
<1>a. PICK old \in Nat : old = Len(work[h])
  BY <1>0 DEF TypeOK
<1>1. /\ tasks \in Seq(Task) /\ Len(tasks) = 2
      /\ tasks[1] = [do |-> "div", plan |-> p] /\ tasks[2] = [do |-> "event", plan |-> p]
  BY <1>0 DEF Task
<1>2. Enqueue(h, tasks)
  OBVIOUS
<1> HIDE DEF tasks
<1>3. /\ \A g \in Streams \ {h} : work'[g] = work[g]
      /\ DOMAIN work'[h] = 1 .. Len(work[h]) + Len(tasks)
      /\ DOMAIN work[h] = 1 .. old /\ old \in Nat
      /\ \A i \in 1 .. Len(work[h]) : work'[h][i] = work[h][i]
      /\ \A i \in 1 .. Len(tasks) : work'[h][Len(work[h]) + i] = tasks[i]
  BY <1>0, <1>1, <1>2, <1>a, Behind
<1>4. /\ DOMAIN work'[h] = 1 .. old + 2
      /\ old + 1 \in DOMAIN work'[h] /\ old + 2 \in DOMAIN work'[h]
      /\ work'[h][old + 1] = [do |-> "div", plan |-> p]
      /\ work'[h][old + 2] = [do |-> "event", plan |-> p]
  <2>1. 1 \in 1 .. Len(tasks) /\ 2 \in 1 .. Len(tasks)
    BY <1>1
  <2>2. work'[h][old + 1] = tasks[1] /\ work'[h][old + 2] = tasks[2]
    BY <1>a, <1>3, <2>1
  <2> QED
    BY <1>a, <1>1, <1>3, <2>2
<1>5. /\ \A g \in Streams : \A i \in DOMAIN work[g] :
           i \in DOMAIN work'[g] /\ work'[g][i] = work[g][i]
      /\ \A g \in Streams : \A i \in DOMAIN work'[g] :
           \/ i \in DOMAIN work[g]
           \/ g = h /\ (i = old + 1 \/ i = old + 2)
  <2>1. ASSUME NEW g \in Streams, g # h PROVE work'[g] = work[g]
    BY <1>3, <2>1
  <2>2. \A i \in DOMAIN work[h] : i \in DOMAIN work'[h] /\ work'[h][i] = work[h][i]
    BY <1>a, <1>3, <1>4
  <2>3. \A i \in DOMAIN work'[h] : i \in DOMAIN work[h] \/ i = old + 1 \/ i = old + 2
    <3>1. DOMAIN work[h] = 1 .. old
      BY <1>a, <1>3
    <3>2. \A i \in 1 .. old + 2 : i \in 1 .. old \/ i = old + 1 \/ i = old + 2
      OBVIOUS
    <3> QED
      BY <1>4, <3>1, <3>2
  <2>4. ASSUME NEW g \in Streams, NEW i \in DOMAIN work[g]
        PROVE  i \in DOMAIN work'[g] /\ work'[g][i] = work[g][i]
    BY <2>1, <2>2
  <2>5. ASSUME NEW g \in Streams, NEW i \in DOMAIN work'[g]
        PROVE  i \in DOMAIN work[g] \/ (g = h /\ (i = old + 1 \/ i = old + 2))
    BY <2>1, <2>3
  <2> QED
    BY <2>4, <2>5
<1>6. \A g \in Streams : \A i \in DOMAIN work'[g] :
           \/ i \in DOMAIN work[g]
           \/ g = h /\ BufferOfTask(work[g][i])' = b
  BY <1>4, <1>5 DEF BufferOfTask
<1>7. Pending(b)' \subseteq {h}
  BY <1>0, <1>5, <1>6, OthersKept
<1>8. DivisionAt(h, old + 1, b, plans[p].n)'
  BY <1>4 DEF DivisionAt
<1>9. ASSUME NEW g \in Streams, NEW k \in DOMAIN work'[g], OnBuffer(g, k, b)'
      PROVE  g = h /\ (k = old + 1 \/ (k \in DOMAIN work[h] /\ OnBuffer(h, k, b)))
  <2>1. g \in Pending(b)'
    BY <1>9, PendingIs DEF OnBuffer
  <2>2. g = h
    BY <1>7, <2>1
  <2>3. k # old + 2
    BY <1>4, <1>9, <2>2 DEF OnBuffer
  <2>4. ASSUME k \in DOMAIN work[h] PROVE OnBuffer(h, k, b)
    BY <1>5, <1>9, <2>2, <2>4 DEF OnBuffer, BufferOfTask
  <2>5. k \in DOMAIN work[h] \/ k = old + 1
    BY <1>5, <2>2, <2>3
  <2> QED
    BY <2>2, <2>4, <2>5
<1>10. ASSUME NEW n, Summed(b, n) PROVE Divided(b, n, plans[p].n)'
  <2>1. CASE NoneLeft(b) /\ value[b] = <<n, 1>>
    <3>1. OnlyAt(h, b, {old + 1})'
      BY <1>0, <1>9, <2>1 DEF OnlyAt, NoneLeft
    <3> QED
      BY <1>0, <1>4, <1>8, <2>1, <3>1 DEF Divided
  <2>2. CASE ~(NoneLeft(b) /\ value[b] = <<n, 1>>)
    <3>0. PICK g \in Streams : \E i \in DOMAIN work[g] :
                 SumAt(g, i, b, n) /\ OnlyAt(g, b, 1 .. i)
      BY <1>10, <2>2 DEF Summed
    <3>1. PICK i \in DOMAIN work[g] : SumAt(g, i, b, n) /\ OnlyAt(g, b, 1 .. i)
      BY <3>0
    <3>2. g \in Pending(b)
      BY <3>1, PendingIs DEF SumAt, BufferOfTask
    <3>3. g = h /\ i \in 1 .. old
      BY <1>3, <3>2
    <3>4. SumAt(h, i, b, n)'
      BY <1>5, <3>1, <3>3 DEF SumAt
    <3>5. OnlyAt(h, b, (1 .. i) \cup {old + 1})'
      BY <1>9, <3>1, <3>3, <1>0 DEF OnlyAt
    <3>6. i \in 1 .. (old + 1) - 1
      BY <1>3, <3>3
    <3> QED
      BY <1>0, <1>4, <1>8, <3>4, <3>5, <3>6 DEF Divided
  <2> QED
    BY <2>1, <2>2
<1> QED
  BY <1>0, <1>5, <1>6, <1>7, <1>10, OthersKept

------------------------------------------------------------------------------
\* The device does a task: the others move up, and only the buffer of the task
\* changes.
LEMMA ExecuteEffect ==
  ASSUME TypeOK, EventsBehind, NEW h \in Streams, Execute(h), NEW b \in Buffers
  PROVE  /\ UNCHANGED plans
         /\ 1 \in DOMAIN work[h] /\ (DOMAIN work[h]) \subseteq Nat \ {0}
         /\ \A g \in Streams \ {h} : work'[g] = work[g]
         /\ \A k \in DOMAIN work'[h] : /\ k \in Nat \ {0} /\ k + 1 \in DOMAIN work[h]
                                       /\ work'[h][k] = work[h][k + 1]
         /\ \A k \in DOMAIN work[h] : k # 1 => /\ k - 1 \in DOMAIN work'[h]
                                               /\ work'[h][k - 1] = work[h][k]
         /\ ~OnBuffer(h, 1, b) => value'[b] = value[b]
         /\ \A n \in Nat : SumAt(h, 1, b, n) => value'[b] = <<n, 1>>
         /\ \A n, d \in Nat : DivisionAt(h, 1, b, d) /\ value[b] = <<n, 1>>
                                => value'[b] = <<n, d>>
<1>1. /\ \A g \in Streams \ {h} : work'[g] = work[g]
      /\ DOMAIN work[h] = 1 .. Len(work[h]) /\ Len(work[h]) \in Nat \ {0}
      /\ DOMAIN work'[h] = 1 .. Len(work[h]) - 1
      /\ \A i \in DOMAIN work'[h] : work'[h][i] = work[h][i + 1]
  BY Done
<1>2. \A k \in DOMAIN work'[h] : /\ k \in Nat \ {0} /\ k + 1 \in DOMAIN work[h]
                                 /\ work'[h][k] = work[h][k + 1]
  BY <1>1
<1>3. ASSUME NEW k \in DOMAIN work[h], k # 1
      PROVE  k - 1 \in DOMAIN work'[h] /\ work'[h][k - 1] = work[h][k]
  <2>1. k \in Nat /\ k - 1 \in DOMAIN work'[h] /\ (k - 1) + 1 = k
    BY <1>1, <1>3
  <2> QED
    BY <1>1, <2>1
<1>4. 1 \in DOMAIN work[h] /\ (DOMAIN work[h]) \subseteq Nat \ {0}
  BY <1>1
<1>5. Head(work[h]) = work[h][1] /\ UNCHANGED plans
  BY <1>4 DEF Execute, TypeOK
<1>6. /\ work[h][1].do \in {"sum", "div", "event"}
      /\ BufferOfTask(work[h][1]) \in Buffers /\ value \in [Buffers -> Nat \X Nat]
      /\ value' = CASE work[h][1].do = "sum" ->
                         [value EXCEPT ![BufferOfTask(work[h][1])] = <<work[h][1].n, 1>>]
                    [] work[h][1].do = "div" ->
                         [value EXCEPT ![BufferOfTask(work[h][1])] =
                            <<@[1], @[2] * plans[work[h][1].plan].n>>]
                    [] work[h][1].do = "event" -> value
  BY <1>4, <1>5, TaskKinds DEF Execute, TypeOK
<1>7. ~OnBuffer(h, 1, b) => value'[b] = value[b]
  BY <1>6 DEF OnBuffer
<1>8. \A n \in Nat : SumAt(h, 1, b, n) => value'[b] = <<n, 1>>
  BY <1>6 DEF SumAt, BufferOfTask
<1>9. ASSUME NEW n \in Nat, NEW d \in Nat, DivisionAt(h, 1, b, d), value[b] = <<n, 1>>
      PROVE  value'[b] = <<n, d>>
  <2>1. work[h][1].do = "div" /\ BufferOfTask(work[h][1]) = b
          /\ plans[work[h][1].plan].n = d
    BY <1>9 DEF DivisionAt, BufferOfTask
  <2>2. value' = [value EXCEPT ![b] = <<@[1], @[2] * d>>]
    BY <1>6, <2>1
  <2>3. value'[b] = <<value[b][1], value[b][2] * d>>
    BY <1>6, <2>2
  <2>4. value[b][1] = n /\ value[b][2] * d = d
    BY <1>9
  <2> QED
    BY <2>3, <2>4
<1> QED
  BY <1>1, <1>2, <1>3, <1>4, <1>5, <1>7, <1>8, <1>9

\* What is left on b after a step of the device.
LEMMA ExecuteShift ==
  ASSUME TypeOK, EventsBehind, NEW h \in Streams, Execute(h), NEW b \in Buffers
  PROVE  /\ \A k \in DOMAIN work'[h] : OnBuffer(h, k, b)' <=> OnBuffer(h, k + 1, b)
         /\ Pending(b)' \subseteq Pending(b)
         /\ \A n, d : \A k \in DOMAIN work[h] : k # 1 =>
              /\ SumAt(h, k, b, n) => SumAt(h, k - 1, b, n)'
              /\ DivisionAt(h, k, b, d) => DivisionAt(h, k - 1, b, d)'
         /\ \A g \in Streams \ {h} : \A k \in DOMAIN work[g] :
              OnBuffer(g, k, b)' <=> OnBuffer(g, k, b)
<1>0. /\ UNCHANGED plans
      /\ \A g \in Streams \ {h} : work'[g] = work[g]
      /\ \A k \in DOMAIN work'[h] : /\ k + 1 \in DOMAIN work[h]
                                    /\ work'[h][k] = work[h][k + 1]
      /\ \A k \in DOMAIN work[h] : k # 1 => work'[h][k - 1] = work[h][k]
  BY ExecuteEffect
<1>1. \A k \in DOMAIN work'[h] :
        /\ BufferOfTask(work[h][k])' = BufferOfTask(work[h][k + 1])
        /\ OnBuffer(h, k, b)' <=> OnBuffer(h, k + 1, b)
  BY <1>0 DEF OnBuffer, BufferOfTask
<1>2. \A g \in Streams \ {h} : \A k \in DOMAIN work[g] :
        /\ BufferOfTask(work[g][k])' = BufferOfTask(work[g][k])
        /\ OnBuffer(g, k, b)' <=> OnBuffer(g, k, b)
  BY <1>0 DEF OnBuffer, BufferOfTask
<1>3. \A n, d : \A k \in DOMAIN work[h] : k # 1 =>
        /\ SumAt(h, k, b, n) => SumAt(h, k - 1, b, n)'
        /\ DivisionAt(h, k, b, d) => DivisionAt(h, k - 1, b, d)'
  BY <1>0 DEF SumAt, DivisionAt
<1>4. ASSUME NEW g, g \in Pending(b)' PROVE g \in Pending(b)
  <2>1. PICK k \in DOMAIN work'[g] : BufferOfTask(work[g][k])' = b
    BY <1>4, PendingIs
  <2>2. g \in Streams
    BY <1>4, PendingIs
  <2>3. CASE g = h
    BY <1>0, <1>1, <2>1, <2>3, PendingIs
  <2>4. CASE g # h
    BY <1>0, <1>2, <2>1, <2>2, <2>4, PendingIs
  <2> QED
    BY <2>3, <2>4
<1> QED
  BY <1>1, <1>2, <1>3, <1>4

\* The tasks on b after a step of the device on h.
LEMMA ExecuteOnly ==
  ASSUME TypeOK, EventsBehind, NEW h \in Streams, Execute(h), NEW b \in Buffers, NEW S
  PROVE  /\ \A g \in Streams \ {h} : OnlyAt(g, b, S) => OnlyAt(g, b, S)'
         /\ \A T : /\ OnlyAt(h, b, S)
                   /\ \A k \in Nat \ {0} : k + 1 \in S => k \in T
                   => OnlyAt(h, b, T)'
         /\ OnlyAt(h, b, S) /\ (\A k \in Nat \ {0} : k + 1 \notin S) => NoneLeft(b)'
         /\ NoneLeft(b) => NoneLeft(b)'
<1>1. /\ \A g \in Streams \ {h} : work'[g] = work[g]
      /\ \A k \in DOMAIN work'[h] : k \in Nat \ {0} /\ k + 1 \in DOMAIN work[h]
      /\ \A k \in DOMAIN work'[h] : OnBuffer(h, k, b)' <=> OnBuffer(h, k + 1, b)
      /\ \A g \in Streams \ {h} : \A k \in DOMAIN work[g] :
           OnBuffer(g, k, b)' <=> OnBuffer(g, k, b)
  BY ExecuteEffect, ExecuteShift
<1>2. ASSUME NEW g \in Streams, g # h, OnlyAt(g, b, S) PROVE OnlyAt(g, b, S)'
  BY <1>1, <1>2 DEF OnlyAt
<1>3. ASSUME NEW T, OnlyAt(h, b, S), \A k \in Nat \ {0} : k + 1 \in S => k \in T
      PROVE  OnlyAt(h, b, T)'
  <2> SUFFICES ASSUME NEW g \in Streams, NEW k \in DOMAIN work'[g], OnBuffer(g, k, b)'
               PROVE  g = h /\ k \in T
    BY DEF OnlyAt
  <2>1. g = h
    BY <1>1, <1>3 DEF OnlyAt
  <2>2. k \in Nat \ {0} /\ k + 1 \in S
    BY <1>1, <1>3, <2>1 DEF OnlyAt
  <2> QED
    BY <1>3, <2>1, <2>2
<1>4. ASSUME OnlyAt(h, b, S), \A k \in Nat \ {0} : k + 1 \notin S PROVE NoneLeft(b)'
  <2>1. OnlyAt(h, b, {})'
    BY <1>3, <1>4
  <2> QED
    BY <2>1 DEF OnlyAt, NoneLeft
<1>5. NoneLeft(b) => NoneLeft(b)'
  <2> SUFFICES ASSUME NoneLeft(b), NEW g \in Streams, NEW k \in DOMAIN work'[g]
               PROVE  ~OnBuffer(g, k, b)'
    BY DEF NoneLeft
  <2> QED
    BY <1>1 DEF NoneLeft
<1> QED
  BY <1>2, <1>3, <1>4, <1>5

\* A step of the device changes nothing about what a buffer comes to.
LEMMA ExecuteSums ==
  ASSUME TypeOK, EventsBehind, NEW h \in Streams, Execute(h), NEW b \in Buffers,
         NEW n \in Nat, Summed(b, n)
  PROVE  Summed(b, n)'
<1>1. CASE NoneLeft(b) /\ value[b] = <<n, 1>>
  <2>1. value'[b] = value[b]
    BY <1>1, ExecuteEffect DEF NoneLeft
  <2> QED
    BY <1>1, <2>1, ExecuteOnly DEF Summed
<1>2. CASE ~(NoneLeft(b) /\ value[b] = <<n, 1>>)
  <2>1. PICK g \in Streams : \E i \in DOMAIN work[g] : SumAt(g, i, b, n) /\ OnlyAt(g, b, 1 .. i)
    BY <1>2 DEF Summed
  <2>2. PICK i \in DOMAIN work[g] : SumAt(g, i, b, n) /\ OnlyAt(g, b, 1 .. i)
    BY <2>1
  <2>3. CASE g # h
    <3>1. work'[g] = work[g]
      BY <2>3, ExecuteEffect
    <3>2. OnlyAt(g, b, 1 .. i)'
      BY <2>2, <2>3, ExecuteOnly
    <3>3. SumAt(g, i, b, n)'
      BY <2>2, <3>1 DEF SumAt
    <3> QED
      BY <3>1, <3>2, <3>3 DEF Summed
  <2>4. CASE g = h /\ i = 1
    <3>1. \A k \in Nat \ {0} : k + 1 \notin 1 .. 1
      OBVIOUS
    <3>2. NoneLeft(b)'
      BY <2>2, <2>4, <3>1, ExecuteOnly
    <3>3. value'[b] = <<n, 1>>
      BY <2>2, <2>4, ExecuteEffect
    <3> QED
      BY <3>2, <3>3 DEF Summed
  <2>5. CASE g = h /\ i # 1
    <3>0. i \in Nat
      BY <2>5, ExecuteEffect
    <3>1. \A k \in Nat \ {0} : k + 1 \in 1 .. i => k \in 1 .. i - 1
      BY <3>0
    <3>2. OnlyAt(h, b, 1 .. i - 1)'
      BY <2>2, <2>5, <3>1, ExecuteOnly
    <3>3. SumAt(h, i - 1, b, n)' /\ i - 1 \in DOMAIN work'[h]
      BY <2>2, <2>5, ExecuteEffect, ExecuteShift
    <3> QED
      BY <3>2, <3>3 DEF Summed
  <2> QED
    BY <2>3, <2>4, <2>5
<1> QED
  BY <1>1, <1>2

LEMMA ExecuteDivides ==
  ASSUME TypeOK, EventsBehind, NEW h \in Streams, Execute(h), NEW b \in Buffers,
         NEW n \in Nat, NEW d \in Nat, Divided(b, n, d)
  PROVE  Divided(b, n, d)'
<1>1. CASE NoneLeft(b) /\ value[b] = <<n, d>>
  <2>1. value'[b] = value[b]
    BY <1>1, ExecuteEffect DEF NoneLeft
  <2> QED
    BY <1>1, <2>1, ExecuteOnly DEF Divided
<1>2. CASE ~(NoneLeft(b) /\ value[b] = <<n, d>>)
  <2>1. PICK g \in Streams : \E j \in DOMAIN work[g] :
               /\ DivisionAt(g, j, b, d)
               /\ \/ value[b] = <<n, 1>> /\ OnlyAt(g, b, {j})
                  \/ \E i \in 1 .. j - 1 :
                       SumAt(g, i, b, n) /\ OnlyAt(g, b, (1 .. i) \cup {j})
    BY <1>2 DEF Divided
  <2>2. PICK j \in DOMAIN work[g] :
               /\ DivisionAt(g, j, b, d)
               /\ \/ value[b] = <<n, 1>> /\ OnlyAt(g, b, {j})
                  \/ \E i \in 1 .. j - 1 :
                       SumAt(g, i, b, n) /\ OnlyAt(g, b, (1 .. i) \cup {j})
    BY <2>1
  <2>3. CASE g # h
    <3>1. work'[g] = work[g]
      BY <2>3, ExecuteEffect
    <3>2. DivisionAt(g, j, b, d)'
      BY <2>2, <3>1, ExecuteEffect DEF DivisionAt
    <3>3. ASSUME value[b] = <<n, 1>>, OnlyAt(g, b, {j})
          PROVE  value'[b] = <<n, 1>> /\ OnlyAt(g, b, {j})'
      <4>1. ~OnBuffer(h, 1, b)
        BY <2>3, <3>3, ExecuteEffect DEF OnlyAt
      <4> QED
        BY <2>3, <3>3, <4>1, ExecuteEffect, ExecuteOnly
    <3>4. ASSUME NEW i \in 1 .. j - 1, SumAt(g, i, b, n), OnlyAt(g, b, (1 .. i) \cup {j})
          PROVE  SumAt(g, i, b, n)' /\ OnlyAt(g, b, (1 .. i) \cup {j})'
      <4>1. SumAt(g, i, b, n)'
        BY <3>1, <3>4 DEF SumAt
      <4> QED
        BY <2>3, <3>4, <4>1, ExecuteOnly
    <3> QED
      BY <2>2, <3>1, <3>2, <3>3, <3>4 DEF Divided
  <2>4. CASE g = h /\ j = 1
    <3>1. \A i : i \notin 1 .. j - 1
      BY <2>4
    <3>2. value[b] = <<n, 1>> /\ OnlyAt(h, b, {1}) /\ DivisionAt(h, 1, b, d)
      BY <2>2, <2>4, <3>1
    <3>3. \A k \in Nat \ {0} : k + 1 \notin {1}
      OBVIOUS
    <3>4. NoneLeft(b)' /\ value'[b] = <<n, d>>
      BY <3>2, <3>3, ExecuteEffect, ExecuteOnly
    <3> QED
      BY <3>4 DEF Divided
  <2>5. CASE g = h /\ j # 1
    <3>0. j \in Nat \ {0}
      BY <2>5, ExecuteEffect
    <3>1. DivisionAt(h, j - 1, b, d)' /\ j - 1 \in DOMAIN work'[h]
      BY <2>2, <2>5, ExecuteEffect, ExecuteShift
    <3>2. CASE value[b] = <<n, 1>> /\ OnlyAt(h, b, {j})
      <4>1. ~OnBuffer(h, 1, b)
        BY <2>5, <3>2, ExecuteEffect DEF OnlyAt
      <4>2. \A k \in Nat \ {0} : k + 1 \in {j} => k \in {j - 1}
        BY <3>0
      <4>3. OnlyAt(h, b, {j - 1})' /\ value'[b] = <<n, 1>>
        BY <3>2, <4>1, <4>2, ExecuteEffect, ExecuteOnly
      <4> QED
        BY <3>1, <4>3 DEF Divided
    <3>3. ASSUME NEW i \in 1 .. j - 1, SumAt(h, i, b, n), OnlyAt(h, b, (1 .. i) \cup {j})
          PROVE  Divided(b, n, d)'
      <4>1. CASE i = 1
        <5>1. \A k \in Nat \ {0} : k + 1 \in (1 .. i) \cup {j} => k \in {j - 1}
          BY <3>0, <4>1
        <5>2. OnlyAt(h, b, {j - 1})' /\ value'[b] = <<n, 1>>
          BY <3>3, <4>1, <5>1, ExecuteEffect, ExecuteOnly
        <5> QED
          BY <3>1, <5>2 DEF Divided
      <4>2. CASE i # 1
        <5>1. \A k \in Nat \ {0} :
                k + 1 \in (1 .. i) \cup {j} => k \in (1 .. i - 1) \cup {j - 1}
          BY <3>0, <4>2
        <5>2. OnlyAt(h, b, (1 .. i - 1) \cup {j - 1})'
          BY <3>3, <5>1, ExecuteOnly
        <5>3. i \in DOMAIN work[h] /\ i - 1 \in 1 .. (j - 1) - 1
          BY <2>5, <3>0, <4>2 DEF TypeOK
        <5>4. SumAt(h, i - 1, b, n)'
          BY <3>3, <4>2, <5>3, ExecuteShift
        <5> QED
          BY <3>1, <5>2, <5>3, <5>4 DEF Divided
      <4> QED
        BY <4>1, <4>2
    <3> QED
      BY <2>2, <2>5, <3>2, <3>3
  <2> QED
    BY <2>3, <2>4, <2>5
<1> QED
  BY <1>1, <1>2

------------------------------------------------------------------------------
\* What the thread t does.
Acts(t) ==
  \/ DefaultStream(t) \/ Prepare(t) \/ Sum(t) \/ SumFails(t)
  \/ Divide(t) \/ End(t) \/ SetDevice(t) \/ Exit(t)
  \/ \E c \in CallSet : Call(t, c)
  \/ \E h \in Streams : NewDefaultStream(t, h) \/ CreateStream(t, h) \/ DestroyStream(t, h)

LEMMA WhoActs ==
  ASSUME Next PROVE (\E t \in Threads : Acts(t)) \/ (\E h \in Streams : Execute(h))
BY DEF Next, Acts

\* A thread leaves the calls of the others alone, and plans are only added.
LEMMA OnlyOne ==
  ASSUME IInv, NEW t \in Threads, Acts(t)
  PROVE  /\ \A u \in Threads \ {t} :
              /\ pc'[u] = pc[u] /\ call'[u] = call[u] /\ status'[u] = status[u]
              /\ stream'[u] = stream[u] /\ plan'[u] = plan[u]
              /\ default'[u] = default[u] /\ device'[u] = device[u]
         /\ \A p \in DOMAIN plans : plans'[p] = plans[p]
<1>1. TypeOK
  BY DEF IInv
<1>2. \A p \in DOMAIN plans : plans'[p] = plans[p]
  <2>1. CASE Prepare(t)
    <3>1. plans' = plans \/ plans' = Append(plans, Key(t))
      BY <2>1 DEF Prepare
    <3>2. plans \in Seq(AverageKey)
      BY <1>1 DEF TypeOK
    <3>3. \A p \in DOMAIN plans : Append(plans, Key(t))[p] = plans[p]
      <4> DEFINE key == Key(t)
      <4> HIDE DEF key
      <4>1. DOMAIN plans = 1 .. Len(plans) /\ Len(plans) \in Nat
        BY <3>2
      <4>2. \A p \in 1 .. Len(plans) : Append(plans, key)[p] = plans[p]
        BY <3>2
      <4> QED
        BY <4>1, <4>2 DEF key
    <3> QED
      BY <3>1, <3>3
  <2>2. CASE ~Prepare(t)
    BY <2>2 DEF Acts, DefaultStream, Sum, SumFails, Divide, End, SetDevice, Exit, Call,
                NewDefaultStream, CreateStream, DestroyStream
  <2> QED
    BY <2>1, <2>2
<1>3. \A u \in Threads \ {t} : device'[u] = device[u] /\ call'[u] = call[u]
  <2>1. device' = device \/ \E d : device' = [device EXCEPT ![t] = d]
    BY DEF Acts, DefaultStream, Prepare, Sum, SumFails, Divide, End, SetDevice, Exit, Call,
           NewDefaultStream, CreateStream, DestroyStream
  <2>2. call' = call \/ \E c : call' = [call EXCEPT ![t] = c]
    BY DEF Acts, DefaultStream, Prepare, Sum, SumFails, Divide, End, SetDevice, Exit, Call,
           NewDefaultStream, CreateStream, DestroyStream
  <2> QED
    BY <1>1, <2>1, <2>2 DEF TypeOK
<1>4. \A u \in Threads \ {t} : pc'[u] = pc[u] /\ status'[u] = status[u]
  <2>1. pc' = pc \/ \E l : pc' = [pc EXCEPT ![t] = l]
    BY DEF Acts, DefaultStream, Prepare, Sum, SumFails, Divide, End, SetDevice, Exit, Call,
           NewDefaultStream, CreateStream, DestroyStream, Goto, Return
  <2>2. status' = status \/ \E s : status' = [status EXCEPT ![t] = s]
    BY DEF Acts, DefaultStream, Prepare, Sum, SumFails, Divide, End, SetDevice, Exit, Call,
           NewDefaultStream, CreateStream, DestroyStream, Return
  <2> QED
    BY <1>1, <2>1, <2>2 DEF TypeOK
<1>5. \A u \in Threads \ {t} : stream'[u] = stream[u] /\ plan'[u] = plan[u]
  <2>1. stream' = stream \/ \E s : stream' = [stream EXCEPT ![t] = s]
    BY DEF Acts, DefaultStream, Prepare, Sum, SumFails, Divide, End, SetDevice, Exit, Call,
           NewDefaultStream, CreateStream, DestroyStream
  <2>2. plan' = plan \/ \E p : plan' = [plan EXCEPT ![t] = p]
    BY DEF Acts, DefaultStream, Prepare, Sum, SumFails, Divide, End, SetDevice, Exit, Call,
           NewDefaultStream, CreateStream, DestroyStream
  <2> QED
    BY <1>1, <2>1, <2>2 DEF TypeOK
<1>6. \A u \in Threads \ {t} : default'[u] = default[u]
  <2>1. default' = default \/ \E d : default' = [default EXCEPT ![t] = d]
    BY DEF Acts, DefaultStream, Prepare, Sum, SumFails, Divide, End, SetDevice, Exit, Call,
           NewDefaultStream, CreateStream, DestroyStream
  <2> QED
    BY <1>1, <2>1 DEF TypeOK
<1> QED
  BY <1>2, <1>3, <1>4, <1>5, <1>6

\* Steps after which the streams and buffers are what they were.
Quiet(t) ==
  \/ DefaultStream(t) \/ Prepare(t) \/ End(t) \/ SetDevice(t) \/ Exit(t)
  \/ \E c \in CallSet : Call(t, c)
  \/ \E h \in Streams : NewDefaultStream(t, h) \/ CreateStream(t, h) \/ DestroyStream(t, h)

LEMMA QuietKeeps ==
  ASSUME IInv, NEW t \in Threads, Quiet(t)
  PROVE  /\ Outcome => Outcome'
         /\ \A b : Pending(b)' = Pending(b)
         /\ pc[t] # "divide" /\ pc'[t] # "divide"
<1>1. TypeOK /\ EventsBehind /\ pc \in [Threads -> Locations]
  BY DEF IInv, TypeOK
<1>2. Acts(t) /\ UNCHANGED <<work, value, want>>
  BY DEF Acts, Quiet, DefaultStream, Prepare, End, SetDevice, Exit, Call, NewDefaultStream,
         CreateStream, DestroyStream
<1>3. pc[t] # "divide" /\ pc'[t] # "divide"
  BY <1>1 DEF Quiet, DefaultStream, Prepare, End, SetDevice, Exit, Call, NewDefaultStream,
         CreateStream, DestroyStream, Goto, Return
<1>4. /\ \A p \in DOMAIN plans : plans'[p] = plans[p]
      /\ \A u \in Threads : /\ pc'[u] = "divide" <=> pc[u] = "divide"
                            /\ pc[u] = "divide" => call'[u] = call[u]
  BY <1>2, <1>3, OnlyOne
<1>5. \A b : Pending(b)' = Pending(b)
  <2> SUFFICES ASSUME NEW b, NEW h PROVE h \in Pending(b)' <=> h \in Pending(b)
    BY DEF Pending, Tasks
  <2>1. \A g \in Streams : \A i \in DOMAIN work[g] :
          BufferOfTask(work[g][i])' = BufferOfTask(work[g][i])
    BY <1>1, <1>2, <1>4, TaskKinds DEF BufferOfTask
  <2> QED
    BY <1>2, <2>1, PendingIs
<1> QED
  BY <1>1, <1>2, <1>3, <1>4, <1>5, SameOutcome

------------------------------------------------------------------------------
LEMMA InitBInv == ASSUME Init PROVE BInv
<1> USE DEF Init
<1>1. Outcome
  <2> SUFFICES ASSUME NEW b \in Buffers
               PROVE  \E n, d \in Nat : want[b] = <<n, d>> /\ ComesTo(b, n, d)
    BY DEF Outcome
  <2>1. NoneLeft(b) /\ value[b] = <<0, 1>> /\ want[b] = <<0, 1>>
    BY DEF NoneLeft
  <2>2. \A t \in Threads : ~Dividing(t, b)
    BY DEF Dividing
  <2>3. ComesTo(b, 0, 1)
    BY <2>1, <2>2 DEF ComesTo, Summed
  <2> QED
    BY <2>1, <2>3
<1>2. \A b, h : h \notin Pending(b)
  BY PendingIs
<1>3. PlanFits /\ SomeRanks /\ CallHome /\ OneStream /\ Waited
  BY <1>2 DEF PlanFits, SomeRanks, CallHome, OneStream, Waited, Working
<1> QED
  BY <1>1, <1>3 DEF BInv

\* Threads that are in a call have buffers of their own.
LEMMA Apart ==
  ASSUME CallHome, NEW t \in Threads, NEW u \in Threads, t # u,
         pc[t] \notin {"idle", "gone"} \/ status[t] # <<>>,
         pc[u] \notin {"idle", "gone"} \/ status[u] # <<>>
  PROVE  call[t].buf # call[u].buf
<1>1. call[t].buf \in BufferOf[t] /\ call[u].buf \in BufferOf[u]
  BY DEF CallHome
<1>2. BufferOf[t] \cap BufferOf[u] = {}
  BY BuffersApart
<1> QED
  BY <1>1, <1>2

LEMMA CallHomeStep == ASSUME IInv, CallHome, Next PROVE CallHome'
<1>1. ASSUME NEW t \in Threads, Acts(t) PROVE CallHome'
  <2>1. ASSUME NEW u \in Threads, u # t
        PROVE  pc'[u] \notin {"idle", "gone"} \/ status'[u] # <<>> => call'[u].buf \in BufferOf[u]
    BY <1>1, <2>1, OnlyOne DEF CallHome
  <2>2. pc'[t] \notin {"idle", "gone"} \/ status'[t] # <<>> => call'[t].buf \in BufferOf[t]
    <3>0. /\ pc \in [Threads -> Locations] /\ status \in [Threads -> Seq(Result)]
          /\ call \in [Threads -> Reduction]
      BY DEF IInv, TypeOK
    <3>1. CASE \E c \in CallSet : Call(t, c)
      BY <3>0, <3>1 DEF Call
    <3>2. CASE SetDevice(t) \/ Exit(t) \/ \E h \in Streams : CreateStream(t, h) \/ DestroyStream(t, h)
      BY <3>0, <3>2 DEF SetDevice, Exit, CreateStream, DestroyStream, CallHome, Goto
    <3>3. CASE \/ DefaultStream(t) \/ Prepare(t) \/ Sum(t) \/ SumFails(t) \/ Divide(t) \/ End(t)
               \/ \E h \in Streams : NewDefaultStream(t, h)
      BY <3>0, <3>3 DEF DefaultStream, Prepare, Sum, SumFails, Divide, End, NewDefaultStream, CallHome
    <3> QED
      BY <1>1, <3>1, <3>2, <3>3 DEF Acts
  <2> QED
    BY <2>1, <2>2 DEF CallHome
<1>2. ASSUME NEW h \in Streams, Execute(h) PROVE CallHome'
  BY <1>2 DEF Execute, CallHome
<1> QED
  BY <1>1, <1>2, WhoActs

LEMMA SomeRanksStep == ASSUME IInv, SomeRanks, Next PROVE SomeRanks'
<1>1. ASSUME NEW t \in Threads, Acts(t) PROVE SomeRanks'
  <2>1. ASSUME NEW u \in Threads, u # t
        PROVE  pc'[u] \in {"resolve", "prepare"} /\ call'[u].avg => call'[u].n > 0
    BY <1>1, <2>1, OnlyOne DEF SomeRanks
  <2>2. pc'[t] \in {"resolve", "prepare"} /\ call'[t].avg => call'[t].n > 0
    <3>0. pc \in [Threads -> Locations] /\ call \in [Threads -> Reduction]
      BY DEF IInv, TypeOK
    <3>1. ASSUME NEW c \in CallSet, Call(t, c)
          PROVE  pc'[t] \in {"resolve", "prepare"} /\ call'[t].avg => call'[t].n > 0
      <4>1. call'[t] = c /\ c.n \in Nat /\ c.avg \in BOOLEAN
        BY <3>0, <3>1, ConstantsFit DEF Call, Constants, Reduction
      <4>2. c.avg /\ (~Supported(c.type) \/ c.n = 0) => pc'[t] = "idle"
        BY <3>0, <3>1, <4>1 DEF Call, Return, Goto
      <4> QED
        BY <4>1, <4>2
    <3>2. CASE SetDevice(t) \/ Exit(t) \/ \E h \in Streams : CreateStream(t, h) \/ DestroyStream(t, h)
      BY <3>0, <3>2 DEF SetDevice, Exit, CreateStream, DestroyStream, Goto
    <3>3. CASE \/ DefaultStream(t)
               \/ \E h \in Streams : NewDefaultStream(t, h)
      BY <3>0, <3>3 DEF DefaultStream, NewDefaultStream, SomeRanks, Goto
    <3>4. CASE Prepare(t) \/ Sum(t) \/ SumFails(t) \/ Divide(t) \/ End(t)
      BY <3>0, <3>4 DEF Prepare, Sum, SumFails, Divide, End, Goto, Return
    <3> QED
      BY <1>1, <3>1, <3>2, <3>3, <3>4 DEF Acts
  <2> QED
    BY <2>1, <2>2 DEF SomeRanks
<1>2. ASSUME NEW h \in Streams, Execute(h) PROVE SomeRanks'
  BY <1>2 DEF Execute, SomeRanks
<1> QED
  BY <1>1, <1>2, WhoActs

\* A call gets the plan that was made for the like of it.
LEMMA PlanFitsStep == ASSUME IInv, PlanFits, SomeRanks, Next PROVE PlanFits'
<1> DEFINE Fits(u) ==
      /\ plan[u] # 0 => /\ plans[plan[u]] = Key(u)
                        /\ call[u].avg /\ call[u].count = "some"
      /\ call[u].avg /\ plan[u] = 0 /\ call[u].count # "none" => call[u].n = 1
<1>0. /\ pc \in [Threads -> Locations] /\ call \in [Threads -> Reduction]
      /\ plan \in [Threads -> DOMAIN plans \cup {0}] /\ plans \in Seq(AverageKey)
      /\ cache \in [Threads -> SUBSET DOMAIN plans]
  BY DEF IInv, TypeOK
<1>1. ASSUME NEW t \in Threads, Acts(t) PROVE PlanFits'
  <2>1. ASSUME NEW u \in Threads, u # t, pc'[u] \in {"sum", "divide"}
        PROVE  Fits(u)'
    <3>1. Key(u)' = Key(u)
      BY <1>1, <2>1, OnlyOne DEF Key
    <3>2. Fits(u)
      BY <1>1, <2>1, OnlyOne DEF PlanFits
    <3>3. plan[u] # 0 => plans'[plan[u]] = plans[plan[u]]
      BY <1>0, <1>1, OnlyOne
    <3> QED
      BY <1>1, <2>1, <3>1, <3>2, <3>3, OnlyOne
  <2>2. ASSUME pc'[t] \in {"sum", "divide"} PROVE Fits(t)'
    <3>1. CASE Sum(t)
      <4>1. Key(t)' = Key(t) /\ UNCHANGED <<plan, plans, call>>
        BY <3>1 DEF Sum, Key
      <4>2. Fits(t)
        BY <3>1 DEF PlanFits, Sum
      <4> QED
        BY <4>1, <4>2
    <3>2. CASE Prepare(t)
      <4>0. /\ UNCHANGED <<device, call, stream>> /\ pc[t] = "prepare"
            /\ plan[t] = 0 /\ call[t].n \in Nat /\ call[t].avg \in BOOLEAN
            /\ call[t].count \in {"none", "some", "tooMany"} /\ pc'[t] = "sum"
        BY <1>0, <2>2, <3>2 DEF Prepare, IInv, PlanCached, Goto, Return, Reduction
      <4>1. Key(t)' = Key(t) /\ call'[t] = call[t]
        BY <4>0 DEF Key
      <4>2. CASE /\ ~(call[t].avg /\ call[t].count # "none" /\ call[t].n > 1)
                 /\ UNCHANGED plan
        <5>1. call[t].avg /\ call[t].count # "none" => call[t].n = 1
          BY <4>0, <4>2 DEF SomeRanks
        <5> QED
          BY <4>0, <4>1, <4>2, <5>1
      <4>3. CASE /\ call[t].avg /\ call[t].count = "some"
                 /\ \E p \in Found(t) : plan' = [plan EXCEPT ![t] = p]
                 /\ UNCHANGED plans
        <5>1. PICK p \in Found(t) : plan' = [plan EXCEPT ![t] = p]
          BY <4>3
        <5>2. plan'[t] = p /\ p # 0 /\ plans[p] = Key(t)
          BY <1>0, <5>1 DEF Found, Matches
        <5> QED
          BY <4>1, <4>3, <5>2
      <4>4. CASE /\ call[t].avg /\ call[t].count = "some"
                 /\ plans' = Append(plans, Key(t))
                 /\ plan' = [plan EXCEPT ![t] = Len(plans) + 1]
        <5> DEFINE key == Key(t)
        <5> HIDE DEF key
        <5>1. plans' = Append(plans, key)
          BY <4>4 DEF key
        <5>2. plan'[t] = Len(plans) + 1 /\ plans'[Len(plans) + 1] = key /\ Len(plans) \in Nat
          BY <1>0, <4>4, <5>1
        <5>3. plan'[t] # 0 /\ plans'[plan'[t]] = Key(t)
          BY <5>2 DEF key
        <5> QED
          BY <4>1, <4>4, <5>3
      <4>5. CASE Return(t, "para")
        BY <1>0, <4>0, <4>5 DEF Return, Goto
      <4> QED
        BY <3>2, <4>2, <4>3, <4>4, <4>5 DEF Prepare
    <3>3. CASE ~Sum(t) /\ ~Prepare(t)
      <4>1. pc'[t] \notin {"sum", "divide"}
        BY <1>0, <1>1, <3>3 DEF Acts, DefaultStream, SumFails, Divide, End, SetDevice, Exit,
           Call, NewDefaultStream, CreateStream, DestroyStream, Goto, Return
      <4> QED
        BY <2>2, <4>1
    <3> QED
      BY <3>1, <3>2, <3>3
  <2> QED
    BY <2>1, <2>2 DEF PlanFits
<1>2. ASSUME NEW h \in Streams, Execute(h) PROVE PlanFits'
  BY <1>2 DEF Execute, PlanFits, Key
<1> QED
  BY <1>1, <1>2, WhoActs

\* What a thread that is about to put a sum on its stream knows.
LEMMA AtSum ==
  ASSUME IInv, BInv, NEW t \in Threads, pc[t] = "sum"
  PROVE  /\ stream[t] \in Streams /\ Pending(call[t].buf) \subseteq {stream[t]}
         /\ call[t].buf \in Buffers /\ call[t].n \in Nat
         /\ call[t].count = "none" => plan[t] = 0
         /\ \A u \in Threads \ {t} : pc[u] \notin {"idle", "gone"} => call[u].buf # call[t].buf
<1>1. stream[t] \in Streams /\ call[t].buf \in Buffers /\ call[t].n \in Nat
  BY DEF IInv, StreamInv, OnStream, Working, TypeOK, Reduction
<1>2. Pending(call[t].buf) \subseteq {stream[t]}
  BY DEF BInv, OneStream, Working
<1>3. call[t].count = "none" => plan[t] = 0
  BY DEF BInv, PlanFits
<1>4. \A u \in Threads \ {t} : pc[u] \notin {"idle", "gone"} => call[u].buf # call[t].buf
  BY Apart DEF BInv
<1> QED
  BY <1>1, <1>2, <1>3, <1>4

\* Or a division.
LEMMA AtDivide ==
  ASSUME IInv, BInv, NEW t \in Threads, pc[t] = "divide"
  PROVE  /\ plan[t] \in DOMAIN plans /\ plans[plan[t]] = Key(t)
         /\ plans[plan[t]].stream = stream[t] /\ plans[plan[t]].buf = call[t].buf
         /\ plans[plan[t]].n = call[t].n
         /\ Pending(call[t].buf) \subseteq {stream[t]}
         /\ call[t].buf \in Buffers /\ call[t].n \in Nat
         /\ \A u \in Threads \ {t} : pc[u] \notin {"idle", "gone"} => call[u].buf # call[t].buf
<1>1. plan[t] \in DOMAIN plans /\ plan[t] # 0
  BY DEF IInv, PlanCached, TypeOK
<1>2. plans[plan[t]] = Key(t)
  BY <1>1 DEF BInv, PlanFits
<1>3. /\ plans[plan[t]].stream = stream[t] /\ plans[plan[t]].buf = call[t].buf
      /\ plans[plan[t]].n = call[t].n
  BY <1>2 DEF Key
<1>4. Pending(call[t].buf) \subseteq {stream[t]}
  BY DEF BInv, OneStream, Working
<1>5. \A u \in Threads \ {t} : pc[u] \notin {"idle", "gone"} => call[u].buf # call[t].buf
  BY Apart DEF BInv
<1>6. call[t].buf \in Buffers /\ call[t].n \in Nat
  BY DEF IInv, TypeOK, Reduction
<1> QED
  BY <1>1, <1>2, <1>3, <1>4, <1>5, <1>6

\* A buffer that is left alone comes to what it came to.
LEMMA Carried ==
  ASSUME NEW b \in Buffers, UNCHANGED want[b],
         \A n, d \in Nat : /\ Summed(b, n) => Summed(b, n)'
                           /\ Divided(b, n, d) => Divided(b, n, d)',
         \A u \in Threads : /\ Dividing(u, b)' <=> Dividing(u, b)
                            /\ Dividing(u, b) => call'[u] = call[u],
         Outcome
  PROVE  want'[b] # Null => \E n, d \in Nat : want'[b] = <<n, d>> /\ ComesTo(b, n, d)'
<1>1. ASSUME NEW n \in Nat, NEW d \in Nat, ComesTo(b, n, d) PROVE ComesTo(b, n, d)'
  BY <1>1 DEF ComesTo
<1> QED
  BY <1>1 DEF Outcome

LEMMA NoTask ==
  ASSUME TypeOK, EventsBehind, UNCHANGED <<work, value, plans>>
  PROVE  \A b : /\ Pending(b)' = Pending(b)
                /\ \A n, d : /\ Summed(b, n) => Summed(b, n)'
                             /\ Divided(b, n, d) => Divided(b, n, d)'
<1>1. \A g \in Streams : \A i \in DOMAIN work[g] :
        BufferOfTask(work[g][i])' = BufferOfTask(work[g][i])
  BY DEF BufferOfTask
<1>2. ASSUME NEW b PROVE Pending(b)' = Pending(b)
  <2> SUFFICES ASSUME NEW h PROVE h \in Pending(b)' <=> h \in Pending(b)
    BY DEF Pending, Tasks
  <2> QED
    BY <1>1, PendingIs
<1> QED
  BY <1>2, SameTasks

\* A thread that puts tasks on its stream touches the buffer of its call only.
LEMMA TouchesOne ==
  ASSUME IInv, BInv, NEW t \in Threads, Sum(t) \/ SumFails(t) \/ Divide(t)
  PROVE  /\ Pending(call[t].buf)' \subseteq {stream[t]}
         /\ \A c : c # call[t].buf =>
              /\ Pending(c)' = Pending(c)
              /\ \A m, d : /\ Summed(c, m) => Summed(c, m)'
                           /\ Divided(c, m, d) => Divided(c, m, d)'
<1>0. TypeOK /\ EventsBehind
  BY DEF IInv
<1>1. CASE Divide(t)
  <2>0. pc[t] = "divide" /\ UNCHANGED <<plans, value>>
    BY <1>1 DEF Divide
  <2>1. PICK p \in DOMAIN plans : p = plan[t]
    BY <2>0, AtDivide
  <2>a. PICK h, b : h = stream[t] /\ b = call[t].buf
    OBVIOUS
  <2>2. h = plans[p].stream /\ b = plans[p].buf /\ Pending(b) \subseteq {h}
    BY <2>0, <2>1, <2>a, AtDivide
  <2>3. Enqueue(h, <<[do |-> "div", plan |-> p], [do |-> "event", plan |-> p]>>)
    BY <1>1, <2>1, <2>2 DEF Divide
  <2>4. /\ Pending(b)' \subseteq {h}
        /\ \A c : c # b =>
              /\ Pending(c)' = Pending(c)
              /\ \A m, d : /\ Summed(c, m) => Summed(c, m)'
                           /\ Divided(c, m, d) => Divided(c, m, d)'
    BY <1>0, <2>0, <2>2, <2>3, DivisionDivides
  <2>5. UNCHANGED call
    BY <1>1 DEF Divide
  <2> QED
    BY <2>4, <2>5, <2>a
<1>2. CASE Sum(t) \/ SumFails(t)
  <2>0. pc[t] = "sum" /\ UNCHANGED <<plans, value, call>>
    BY <1>2 DEF Sum, SumFails
  <2>1. PICK h \in Streams, b \in Buffers, n \in Nat :
          h = stream[t] /\ b = call[t].buf /\ n = call[t].n /\ Pending(b) \subseteq {h}
    BY <2>0, AtSum
  <2>2. UNCHANGED work \/ Enqueue(h, <<[do |-> "sum", buf |-> b, n |-> n]>>)
    BY <1>2, <2>1 DEF Sum, SumFails
  <2>3. /\ Pending(b)' \subseteq {h}
        /\ \A c : c # b =>
              /\ Pending(c)' = Pending(c)
              /\ \A m, d : /\ Summed(c, m) => Summed(c, m)'
                           /\ Divided(c, m, d) => Divided(c, m, d)'
    <3>1. CASE UNCHANGED work
      BY <1>0, <2>0, <2>1, <3>1, NoTask
    <3>2. CASE Enqueue(h, <<[do |-> "sum", buf |-> b, n |-> n]>>)
      BY <1>0, <2>0, <2>1, <3>2, SumSums
    <3> QED
      BY <2>2, <3>1, <3>2
  <2> QED
    BY <2>0, <2>1, <2>3
<1> QED
  BY <1>1, <1>2

LEMMA OutcomeStep == ASSUME IInv, BInv, Next PROVE Outcome'
<1> DEFINE Right(b) == want[b] # Null => \E n, d \in Nat : want[b] = <<n, d>> /\ ComesTo(b, n, d)
<1>0. /\ TypeOK /\ EventsBehind /\ Outcome /\ PlanFits
      /\ pc \in [Threads -> Locations] /\ want \in [Buffers -> (Nat \X Nat) \cup {Null}]
  BY DEF IInv, BInv, TypeOK
<1>1. ASSUME NEW t \in Threads, Quiet(t) PROVE Outcome'
  BY <1>0, <1>1, QuietKeeps
<1>2. ASSUME NEW t \in Threads, Sum(t) \/ SumFails(t) \/ Divide(t),
             NEW b \in Buffers, b # call[t].buf
      PROVE  Right(b)'
  <2>1. UNCHANGED call /\ want'[b] = want[b] /\ \A u \in Threads \ {t} : pc'[u] = pc[u]
    BY <1>0, <1>2 DEF Sum, SumFails, Divide, Goto, Return
  <2>2. \A u \in Threads : Dividing(u, b)' <=> Dividing(u, b)
    BY <1>2, <2>1 DEF Dividing
  <2> QED
    BY <1>0, <1>2, <2>1, <2>2, TouchesOne, Carried
<1>3. ASSUME NEW t \in Threads, Sum(t), NEW b \in Buffers, b = call[t].buf
      PROVE  Right(b)'
  <2>0. /\ pc[t] = "sum" /\ UNCHANGED <<plans, value, call, plan>>
        /\ pc' = [pc EXCEPT ![t] = IF plan[t] # 0 THEN "divide" ELSE "end"]
    BY <1>3 DEF Sum, Goto
  <2>1. /\ stream[t] \in Streams /\ Pending(b) \subseteq {stream[t]}
        /\ b \in Buffers /\ call[t].n \in Nat
        /\ call[t].count = "none" => plan[t] = 0
        /\ \A u \in Threads \ {t} : pc[u] = "divide" => call[u].buf # b
    BY <1>3, <2>0, AtSum
  <2>2. \A u \in Threads : Dividing(u, b)' <=> u = t /\ plan[t] # 0
    BY <1>0, <1>3, <2>0, <2>1 DEF Dividing
  <2>3. CASE call[t].count = "none"
    <3>1. UNCHANGED want[b] /\ UNCHANGED work
      BY <1>3, <2>3 DEF Sum
    <3>2. \A u \in Threads : ~Dividing(u, b) /\ ~Dividing(u, b)'
      BY <1>3, <2>0, <2>1, <2>2, <2>3 DEF Dividing
    <3> QED
      BY <1>0, <2>0, <2>1, <3>1, <3>2, NoTask, Carried
  <2>4. CASE call[t].count # "none"
    <3>1. /\ Enqueue(stream[t], <<[do |-> "sum", buf |-> b, n |-> call[t].n]>>)
          /\ want'[b] = <<call[t].n, IF call[t].avg THEN call[t].n ELSE 1>>
      BY <1>0, <1>3, <2>1, <2>4 DEF Sum
    <3>2. Summed(b, call[t].n)'
      BY <1>0, <2>0, <2>1, <3>1, SumSums
    <3>3. CASE plan[t] # 0
      <4>1. call[t].avg
        BY <1>0, <2>0, <3>3 DEF PlanFits
      <4>2. ComesTo(b, call[t].n, call[t].n)'
        BY <2>0, <2>2, <3>2, <3>3 DEF ComesTo
      <4> QED
        BY <2>0, <2>1, <3>1, <4>1, <4>2
    <3>4. CASE plan[t] = 0
      <4>1. call[t].avg => call[t].n = 1
        BY <1>0, <2>0, <2>4, <3>4 DEF PlanFits
      <4>2. want'[b] = <<call[t].n, 1>>
        BY <3>1, <4>1
      <4>3. ComesTo(b, call[t].n, 1)'
        BY <2>2, <3>2, <3>4 DEF ComesTo
      <4> QED
        BY <2>0, <2>1, <4>2, <4>3
    <3> QED
      BY <3>3, <3>4
  <2> QED
    BY <2>3, <2>4
<1>4. ASSUME NEW t \in Threads, SumFails(t), NEW b \in Buffers, b = call[t].buf
      PROVE  Right(b)'
  <2>1. want' = [want EXCEPT ![b] = Null]
    BY <1>4 DEF SumFails
  <2>2. want'[b] = Null
    BY <1>0, <2>1
  <2> QED
    BY <2>2
<1>5. ASSUME NEW t \in Threads, Divide(t), NEW b \in Buffers, b = call[t].buf
      PROVE  Right(b)'
  <2>0. /\ pc[t] = "divide" /\ UNCHANGED <<plans, value, call, want>>
        /\ pc' = [pc EXCEPT ![t] = "end"]
    BY <1>5 DEF Divide, Goto
  <2>1. PICK p \in DOMAIN plans : p = plan[t]
    BY <2>0, AtDivide
  <2>2. /\ plans[p].stream = stream[t] /\ plans[p].buf = b /\ plans[p].n = call[t].n
        /\ Pending(b) \subseteq {stream[t]} /\ b \in Buffers
        /\ \A u \in Threads \ {t} : pc[u] = "divide" => call[u].buf # b
    BY <1>5, <2>0, <2>1, AtDivide
  <2>3. Enqueue(plans[p].stream, <<[do |-> "div", plan |-> p], [do |-> "event", plan |-> p]>>)
    BY <1>5, <2>1 DEF Divide
  <2>a. PICK m : m = plans[p].n
    OBVIOUS
  <2>4. \A n : Summed(b, n) => Divided(b, n, m)'
    BY <1>0, <2>0, <2>2, <2>3, <2>a, DivisionDivides
  <2>5. \A u \in Threads : (Dividing(u, b) <=> u = t) /\ ~Dividing(u, b)'
    BY <1>0, <1>5, <2>0, <2>2 DEF Dividing
  <2>6. ASSUME NEW n \in Nat, NEW d \in Nat, ComesTo(b, n, d) PROVE ComesTo(b, n, d)'
    <3>1. call[t].n = n /\ d = n /\ Summed(b, n)
      BY <2>5, <2>6 DEF ComesTo
    <3>2. Divided(b, n, d)'
      BY <2>2, <2>4, <2>a, <3>1
    <3> QED
      BY <2>5, <3>2 DEF ComesTo
  <2> QED
    BY <1>0, <2>0, <2>2, <2>6 DEF Outcome
<1>6. ASSUME NEW h \in Streams, Execute(h) PROVE Outcome'
  <2> SUFFICES ASSUME NEW b \in Buffers PROVE Right(b)'
    BY DEF Outcome
  <2>1. UNCHANGED <<pc, call, want>>
    BY <1>6 DEF Execute
  <2>2. \A u \in Threads : Dividing(u, b)' <=> Dividing(u, b)
    BY <2>1 DEF Dividing
  <2> QED
    BY <1>0, <1>6, <2>1, <2>2, ExecuteSums, ExecuteDivides, Carried
<1>7. ASSUME NEW t \in Threads, Sum(t) \/ SumFails(t) \/ Divide(t) PROVE Outcome'
  <2>1. call' = call
    BY <1>7 DEF Sum, SumFails, Divide
  <2>2. \A b \in Buffers : Right(b)'
    BY <1>2, <1>3, <1>4, <1>5, <1>7
  <2> QED
    BY <2>2 DEF Outcome
<1> QED
  BY <1>1, <1>6, <1>7, WhoActs DEF Acts, Quiet

\* The tasks on a buffer that is touched are on the stream of the call.
LEMMA OneStreamStep == ASSUME IInv, BInv, Next PROVE OneStream'
<1>0. /\ TypeOK /\ EventsBehind /\ OneStream
      /\ pc \in [Threads -> Locations] /\ call \in [Threads -> Reduction]
      /\ stream \in [Threads -> Streams \cup {Null}]
  BY DEF IInv, BInv, TypeOK
<1>1. ASSUME NEW t \in Threads, Quiet(t) PROVE OneStream'
  <2>0. Acts(t) /\ \A b : Pending(b)' = Pending(b)
    BY <1>1, QuietKeeps DEF Acts, Quiet
  <2>1. \A b \in Buffers : \A g, h \in Pending(b)' : g = h
    BY <1>0, <2>0 DEF OneStream
  <2>2. ASSUME NEW u \in Threads, u # t
        PROVE  /\ pc'[u] = "resolve" => Pending(call[u].buf)' \subseteq {default'[u].stream}
               /\ pc'[u] \in Working => Pending(call[u].buf)' \subseteq {stream'[u]}
    <3>1. /\ pc'[u] = pc[u] /\ call'[u] = call[u]
          /\ stream'[u] = stream[u] /\ default'[u] = default[u]
      BY <2>0, <2>2, OnlyOne
    <3>2. Pending(call[u].buf)' = Pending(call[u].buf)
      BY <2>0, <3>1
    <3> QED
      BY <1>0, <3>1, <3>2 DEF OneStream
  <2>3. /\ pc'[t] = "resolve" => Pending(call[t].buf)' \subseteq {default'[t].stream}
        /\ pc'[t] \in Working => Pending(call[t].buf)' \subseteq {stream'[t]}
    <3>0. PICK b : b = call'[t].buf /\ Pending(b)' = Pending(b)
      BY <2>0
    <3>1. ASSUME NEW c \in CallSet, Call(t, c)
          PROVE  /\ pc'[t] = "resolve" => Pending(b) \subseteq {default'[t].stream}
                 /\ pc'[t] \in Working => Pending(b) \subseteq {stream'[t]}
      <4>1. b = c.buf /\ default' = default
        BY <1>0, <3>0, <3>1 DEF Call
      <4>2. \/ pc'[t] = "idle"
            \/ stream'[t] = c.stream /\ pc'[t] = IF c.stream = Null THEN "resolve" ELSE "prepare"
        BY <1>0, <3>1 DEF Call, Return, Goto
      <4>3. Pending(b) \subseteq {IF c.stream = Null THEN default[t].stream ELSE c.stream}
        BY <3>1, <4>1 DEF Call
      <4> QED
        BY <4>1, <4>2, <4>3 DEF Working
    <3>2. CASE DefaultStream(t)
      BY <1>0, <3>0, <3>2 DEF DefaultStream, Goto, OneStream
    <3>3. ASSUME NEW h \in Streams, NewDefaultStream(t, h)
          PROVE  pc'[t] = "prepare" /\ Pending(b) = {}
      <4>1. b = call[t].buf /\ pc[t] = "resolve" /\ pc'[t] = "prepare"
        BY <1>0, <3>0, <3>3 DEF NewDefaultStream, Goto
      <4>2. Pending(b) \subseteq {default[t].stream}
        BY <1>0, <4>1 DEF OneStream
      <4>3. default[t].stream \notin Pending(b)
        BY <3>3, ConstantsFit, PendingIs DEF NewDefaultStream, Constants
      <4> QED
        BY <4>1, <4>2, <4>3
    <3>4. CASE Prepare(t)
      <4>1. /\ b = call[t].buf /\ pc[t] = "prepare" /\ pc'[t] \in {"sum", "idle"}
            /\ stream'[t] = stream[t]
        BY <1>0, <3>0, <3>4 DEF Prepare, Goto, Return
      <4> QED
        BY <1>0, <3>0, <4>1 DEF OneStream, Working
    <3>5. CASE \/ End(t) \/ SetDevice(t) \/ Exit(t)
               \/ \E h \in Streams : CreateStream(t, h) \/ DestroyStream(t, h)
      <4>1. pc'[t] \in {"idle", "gone"}
        BY <1>0, <3>5 DEF End, SetDevice, Exit, CreateStream, DestroyStream, Goto, Return
      <4> QED
        BY <4>1 DEF Working
    <3> QED
      BY <1>1, <3>0, <3>1, <3>2, <3>3, <3>4, <3>5 DEF Quiet
  <2> QED
    BY <2>1, <2>2, <2>3 DEF OneStream
<1>2. ASSUME NEW t \in Threads, Sum(t) \/ SumFails(t) \/ Divide(t) PROVE OneStream'
  <2>0. /\ UNCHANGED <<call, stream, default>> /\ pc[t] \in {"sum", "divide"}
        /\ pc'[t] \in {"divide", "end", "idle"} /\ Acts(t)
    BY <1>0, <1>2 DEF Acts, Sum, SumFails, Divide, Goto, Return
  <2>1. /\ Pending(call[t].buf)' \subseteq {stream[t]}
        /\ \A c : c # call[t].buf => Pending(c)' = Pending(c)
    BY <1>2, TouchesOne
  <2>2. PICK h, b : h = stream[t] /\ b = call[t].buf
    OBVIOUS
  <2>3. Pending(b)' \subseteq {h}
    BY <2>0, <2>1, <2>2
  <2>4. \A c : c # b => Pending(c)' = Pending(c)
    BY <2>1, <2>2
  <2>5. \A c \in Buffers : \A f, g \in Pending(c)' : f = g
    BY <1>0, <2>3, <2>4 DEF OneStream
  <2>6. ASSUME NEW u \in Threads, u # t
        PROVE  /\ pc'[u] = "resolve" => Pending(call[u].buf)' \subseteq {default'[u].stream}
               /\ pc'[u] \in Working => Pending(call[u].buf)' \subseteq {stream'[u]}
    <3>1. pc'[u] = pc[u]
      BY <2>0, <2>6, OnlyOne
    <3>2. PICK c : c = call[u].buf /\ c = call'[u].buf
      BY <2>0
    <3>3. pc[u] \notin {"idle", "gone"} => c # b
      BY <2>0, <2>2, <2>6, <3>2, AtSum, AtDivide
    <3>4. pc[u] \notin {"idle", "gone"} => Pending(c)' = Pending(c)
      BY <2>4, <3>3
    <3> QED
      BY <1>0, <2>0, <3>1, <3>2, <3>4 DEF OneStream, Working
  <2> QED
    BY <2>0, <2>2, <2>3, <2>5, <2>6 DEF OneStream
<1>3. ASSUME NEW h \in Streams, Execute(h) PROVE OneStream'
  <2>1. UNCHANGED <<pc, call, stream, default>>
    BY <1>3 DEF Execute
  <2>2. \A b \in Buffers : Pending(b)' \subseteq Pending(b)
    BY <1>0, <1>3, ExecuteShift
  <2>3. \A u \in Threads : call[u].buf \in Buffers
    BY <1>0 DEF Reduction
  <2>4. \A b \in Buffers : \A f, g \in Pending(b)' : f = g
    BY <1>0, <2>2 DEF OneStream
  <2>5. ASSUME NEW u \in Threads
        PROVE  /\ pc'[u] = "resolve" => Pending(call[u].buf)' \subseteq {default'[u].stream}
               /\ pc'[u] \in Working => Pending(call[u].buf)' \subseteq {stream'[u]}
    <3>1. PICK b \in Buffers : b = call[u].buf /\ b = call'[u].buf
      BY <2>1, <2>3
    <3> QED
      BY <1>0, <2>1, <2>2, <3>1 DEF OneStream
  <2> QED
    BY <2>4, <2>5 DEF OneStream
<1> QED
  BY <1>1, <1>2, <1>3, WhoActs DEF Acts, Quiet

\* What a call on the null stream waits for stays away.
LEMMA WaitedStep == ASSUME IInv, BInv, Next PROVE Waited'
<1> DEFINE Due(u) == /\ pc[u] = "idle" /\ status[u] # <<>> /\ call[u].stream = Null
                     /\ status[u][Len(status[u])] = "success"
<1>0. /\ TypeOK /\ EventsBehind /\ Waited /\ OneStream /\ CallHome
      /\ pc \in [Threads -> Locations] /\ call \in [Threads -> Reduction]
      /\ status \in [Threads -> Seq(Result)]
  BY DEF IInv, BInv, TypeOK
<1>1. ASSUME NEW t \in Threads, NEW s \in Result, Return(t, s)
      PROVE  Len(status'[t]) \in Nat /\ status'[t][Len(status'[t])] = s
  <2>1. status[t] \in Seq(Result) /\ status'[t] = Append(status[t], s)
    BY <1>0, <1>1 DEF Return
  <2> QED
    BY <2>1
<1>2. ASSUME NEW t \in Threads, Acts(t), NEW u \in Threads, u # t, Due(u)'
      PROVE  Pending(call[u].buf)' = {}
  <2>1. Due(u) /\ call'[u] = call[u]
    BY <1>2, OnlyOne
  <2>2. PICK c : c = call[u].buf /\ c = call'[u].buf /\ Pending(c) = {}
    BY <1>0, <2>1 DEF Waited
  <2>3. CASE Quiet(t)
    BY <2>2, <2>3, QuietKeeps
  <2>4. CASE Sum(t) \/ SumFails(t) \/ Divide(t)
    <3>1. pc[t] \in {"sum", "divide"}
      BY <2>4 DEF Sum, SumFails, Divide
    <3>2. c # call[t].buf
      BY <1>0, <1>2, <2>1, <2>2, <3>1, Apart
    <3>3. Pending(c)' = Pending(c)
      BY <2>4, <3>2, TouchesOne
    <3> QED
      BY <2>2, <3>3
  <2> QED
    BY <1>2, <2>3, <2>4 DEF Acts, Quiet
<1>3. ASSUME NEW t \in Threads, Acts(t), Due(t)' PROVE Pending(call[t].buf)' = {}
  <2>1. CASE End(t)
    <3>1. PICK b : b = call[t].buf /\ b = call'[t].buf
      BY <2>1 DEF End
    <3>2. pc[t] = "end" /\ call[t].stream = Null
      BY <1>3, <2>1 DEF End
    <3>3. Pending(b) \subseteq {stream[t]} /\ work[stream[t]] = <<>>
      BY <1>0, <2>1, <3>1, <3>2 DEF OneStream, Working, End, WaitsFor
    <3>4. stream[t] \notin Pending(b)
      BY <3>3, PendingIs
    <3>5. Pending(b)' = Pending(b)
      BY <2>1, QuietKeeps DEF Quiet
    <3> QED
      BY <3>1, <3>3, <3>4, <3>5
  <2>2. CASE SetDevice(t) \/ \E h \in Streams : CreateStream(t, h) \/ DestroyStream(t, h)
    <3>1. Due(t) /\ UNCHANGED call
      BY <1>3, <2>2 DEF SetDevice, CreateStream, DestroyStream
    <3>2. PICK b : b = call[t].buf /\ b = call'[t].buf /\ Pending(b) = {}
      BY <1>0, <3>1 DEF Waited
    <3>3. Pending(b)' = Pending(b)
      BY <2>2, QuietKeeps DEF Quiet
    <3> QED
      BY <3>2, <3>3
  <2>3. CASE \E s \in Result \ {"success"} : Return(t, s)
    BY <1>1, <1>3, <2>3
  <2>4. \/ pc'[t] # "idle"
        \/ End(t)
        \/ SetDevice(t) \/ \E h \in Streams : CreateStream(t, h) \/ DestroyStream(t, h)
        \/ \E s \in Result \ {"success"} : Return(t, s)
    <3>1. CASE \E c \in CallSet : Call(t, c)
      BY <1>0, <3>1 DEF Call, Goto, Result
    <3>2. CASE DefaultStream(t) \/ Sum(t) \/ Divide(t) \/ Exit(t)
               \/ \E h \in Streams : NewDefaultStream(t, h)
      BY <1>0, <3>2 DEF DefaultStream, Sum, Divide, Exit, NewDefaultStream, Goto
    <3>3. CASE Prepare(t) \/ SumFails(t)
      BY <1>0, <3>3 DEF Prepare, SumFails, Goto, Result
    <3> QED
      BY <1>3, <3>1, <3>2, <3>3 DEF Acts
  <2> QED
    BY <1>3, <2>1, <2>2, <2>3, <2>4
<1>4. ASSUME NEW h \in Streams, Execute(h) PROVE Waited'
  <2>1. UNCHANGED <<pc, call, status>>
    BY <1>4 DEF Execute
  <2>2. \A u \in Threads : call[u].buf \in Buffers
    BY <1>0 DEF Reduction
  <2>3. ASSUME NEW u \in Threads, Due(u)' PROVE Pending(call[u].buf)' = {}
    <3>1. PICK b \in Buffers : b = call[u].buf /\ b = call'[u].buf
      BY <2>1, <2>2
    <3>2. Pending(b) = {}
      BY <1>0, <2>1, <2>3, <3>1 DEF Waited
    <3> QED
      BY <1>0, <1>4, <3>1, <3>2, ExecuteShift
  <2> QED
    BY <2>3 DEF Waited
<1>5. ASSUME NEW t \in Threads, Acts(t) PROVE Waited'
  BY <1>2, <1>3, <1>5 DEF Waited
<1> QED
  BY <1>4, <1>5, WhoActs

------------------------------------------------------------------------------
LEMMA OutcomeKept == Spec => [](IInv /\ BInv)
<1>1. ASSUME IInv, BInv, [Next]_vars PROVE BInv'
  <2>1. CASE Next
    BY <1>1, <2>1, OutcomeStep, PlanFitsStep, SomeRanksStep, CallHomeStep, OneStreamStep,
       WaitedStep DEF BInv
  <2>2. CASE UNCHANGED vars
    <3>0. TypeOK /\ EventsBehind /\ UNCHANGED <<work, value, want, plans, pc, call>>
      BY <1>1, <2>2 DEF vars, IInv
    <3>1. Outcome' /\ \A b : Pending(b)' = Pending(b)
      BY <1>1, <3>0, SameOutcome DEF BInv
    <3>2. PlanFits' /\ SomeRanks' /\ CallHome'
      BY <1>1, <2>2 DEF vars, BInv, PlanFits, SomeRanks, CallHome, Key
    <3>3. OneStream' /\ Waited'
      BY <1>1, <2>2, <3>1 DEF vars, BInv, OneStream, Waited
    <3> QED
      BY <3>1, <3>2, <3>3 DEF BInv
  <2> QED
    BY <1>1, <2>1, <2>2
<1> QED
  BY Inductive, InitBInv, <1>1, PTL DEF Spec

\* When the streams are through with a buffer it holds what the last call on it
\* asked for: the sum, divided once by the number of ranks for an average.
THEOREM AverageRight == Spec => []RightAverage
<1>1. ASSUME IInv, BInv PROVE RightAverage
  <2> SUFFICES ASSUME NEW b \in Buffers, Pending(b) = {}, want[b] # Null,
                      \A t \in Threads : call[t].buf = b => pc[t] # "divide"
               PROVE  value[b] = want[b]
    BY DEF RightAverage
  <2>1. PICK n \in Nat, d \in Nat : want[b] = <<n, d>> /\ ComesTo(b, n, d)
    BY <1>1 DEF BInv, Outcome
  <2>2. \A g \in Streams : \A k \in DOMAIN work[g] : BufferOfTask(work[g][k]) # b
    BY PendingIs
  <2>3. Summed(b, n) => value[b] = <<n, 1>>
    BY <2>2 DEF Summed, SumAt, BufferOfTask
  <2>4. Divided(b, n, d) => value[b] = <<n, d>>
    BY <2>2 DEF Divided, DivisionAt, BufferOfTask
  <2>5. (d = 1 /\ Summed(b, n)) \/ Divided(b, n, d)
    BY <2>1 DEF ComesTo, Dividing
  <2> QED
    BY <2>1, <2>3, <2>4, <2>5
<1> QED
  BY OutcomeKept, <1>1, PTL

\* A call on the null stream that succeeded has its result when it is back.
THEOREM NullSynchronous == Spec => []NullIsSynchronous
<1>1. ASSUME IInv, BInv, RightAverage PROVE NullIsSynchronous
  <2> SUFFICES ASSUME NEW t \in Threads, pc[t] = "idle", Len(status[t]) > 0,
                      call[t].stream = Null, status[t][Len(status[t])] = "success"
               PROVE  want[call[t].buf] \in {value[call[t].buf], Null}
    BY DEF NullIsSynchronous
  <2>1. status[t] # <<>> /\ call[t].buf \in Buffers
    BY <1>1 DEF IInv, TypeOK, Reduction
  <2>2. Pending(call[t].buf) = {}
    BY <1>1, <2>1 DEF BInv, Waited
  <2>3. \A u \in Threads : call[u].buf = call[t].buf => pc[u] # "divide"
    BY <1>1, <2>1, Apart DEF BInv
  <2> QED
    BY <1>1, <2>1, <2>2, <2>3 DEF RightAverage
<1> QED
  BY OutcomeKept, AverageRight, <1>1, PTL

=============================================================================
