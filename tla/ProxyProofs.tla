---------------------------- MODULE ProxyProofs ----------------------------
(***************************************************************************)
(* Proofs about Proxy for every configuration: any devices, any routes,    *)
(* rings of any size, any number of inputs.                                *)
(***************************************************************************)
EXTENDS Proxy, TLAPS

\* What a device's queue names as ReplyDevice is the reply of a route to it.
ReplyInv ==
  \A d \in Devices :
    reply[d] # NoDevice =>
      \E i \in RouteIds : d \in Targets(i) /\ reply[d] = Routes[i].reply

\* A thread in the router works on a buffer of its own, for targets of a
\* route of its own or for the reply device of a route to it.
ThreadOK(d) ==
  /\ buf[d].origin = d /\ buf[d].asks = 0
  /\ pc[d] = "action" =>
       /\ router[d] \in RouteIds
       /\ Routes[router[d]].from = d
       /\ todo[d] # <<>>
       /\ Range(todo[d]) \subseteq Targets(router[d])
  /\ pc[d] = "forward" =>
       \E i \in RouteIds : /\ d \in Targets(i)
                           /\ dest[d] \in Devices
                           /\ dest[d] = Routes[i].reply

ThreadInv == \A d \in Threads : ThreadOK(d)

IInv == TypeOK /\ ReplyInv /\ ThreadInv /\ OnlyRouted /\ CrashOnlyByUnknownTarget

\* d is a target of route i, and its queue names the route's reply device.
Owed(d, i) ==
  d \in Targets(i) /\ reply[d] = GetDeviceInfo(Routes[i].reply)

\* Under a consistent configuration, from the moment a command is queued for
\* a device until its answer is forwarded, the device's queue names the right
\* reply device.
QueuedInv ==
  \A d \in Devices : \A m \in Range(queue[d]) :
    /\ m.asks # 0 => Owed(d, m.asks)
    /\ m.answers # 0 => Routes[m.answers].reply = d

AskedInv ==
  \A d \in Threads : \A i \in asked[d] : Owed(d, i) /\ lastSend[d]

AnswerInv ==
  \A d \in Threads :
    buf[d].answers # 0 =>
      /\ pc[d] \in {"notify", "forward"} => Owed(d, buf[d].answers) /\ lastSend[d]
      /\ pc[d] = "forward" => dest[d] = Routes[buf[d].answers].reply

CInv == QueuedInv /\ AskedInv /\ AnswerInv

------------------------------------------------------------------------------
(* Sequences, routes and messages.                                         *)

LEMMA RangeOfEmpty == Range(<<>>) = {}
BY DEF Range

LEMMA RangeOfAppend ==
  ASSUME NEW S, NEW q \in Seq(S), NEW m \in S
  PROVE  Append(q, m) \in Seq(S) /\ Range(Append(q, m)) = Range(q) \cup {m}
<1>1. Append(q, m) \in Seq(S) /\ Len(Append(q, m)) = Len(q) + 1
  OBVIOUS
<1>2. \A i \in 1 .. Len(q) : Append(q, m)[i] = q[i]
  OBVIOUS
<1>3. Append(q, m)[Len(q) + 1] = m
  OBVIOUS
<1>4. DOMAIN q = 1 .. Len(q) /\ DOMAIN Append(q, m) = 1 .. Len(q) + 1
  BY <1>1
<1>5. Len(q) \in Nat
  OBVIOUS
<1> QED
  BY <1>1, <1>2, <1>3, <1>4, <1>5 DEF Range

LEMMA HeadAndTail ==
  ASSUME NEW S, NEW q \in Seq(S), q # <<>>
  PROVE  /\ Head(q) \in S /\ Tail(q) \in Seq(S)
         /\ Head(q) \in Range(q) /\ Range(Tail(q)) \subseteq Range(q)
<1>1. Len(q) \in Nat \ {0} /\ DOMAIN q = 1 .. Len(q)
  OBVIOUS
<1>2. Head(q) = q[1] /\ Head(q) \in S
  BY <1>1
<1>3. /\ Tail(q) \in Seq(S) /\ DOMAIN Tail(q) = 1 .. Len(q) - 1
      /\ \A i \in 1 .. Len(q) - 1 : Tail(q)[i] = q[i + 1]
  BY <1>1
<1> QED
  BY <1>1, <1>2, <1>3 DEF Range

LEMMA ElementOfSeq ==
  ASSUME NEW S, NEW q \in Seq(S), NEW i \in 1 .. Len(q)
  PROVE  q[i] \in S
OBVIOUS

LEMMA RouteShape ==
  ASSUME NEW i \in RouteIds
  PROVE  /\ Routes[i].cmd \in Commands
         /\ Routes[i].from \in Names
         /\ Routes[i].to \in Seq(Names)
         /\ Routes[i].reply \in Names
         /\ i \in 0 .. Len(Routes)
<1>1. Len(Routes) \in Nat
  BY ProxyAssumption
<1> DEFINE R == [cmd : Commands, from : Names, to : Seq(Names), reply : Names]
<1>a. Routes \in Seq(R)
  BY ProxyAssumption
<1>2. Routes[i] \in R
  <2> HIDE DEF R
  <2> QED
    BY <1>a, ElementOfSeq DEF RouteIds
<1> QED
  BY <1>1, <1>2 DEF RouteIds

LEMMA MsgShape ==
  ASSUME NEW t \in Texts, NEW d \in Devices,
         NEW i \in 0 .. Len(Routes), NEW j \in 0 .. Len(Routes)
  PROVE  /\ Msg(t, d, i, j) \in Messages
         /\ Msg(t, d, i, j).text = t /\ Msg(t, d, i, j).origin = d
         /\ Msg(t, d, i, j).asks = i /\ Msg(t, d, i, j).answers = j
BY DEF Msg, Messages

LEMMA ThreadsAreDevices ==
  /\ \A d \in Threads : d \in Devices
  /\ \A d \in Devices : d # NoDevice
  /\ 0 \in 0 .. Len(Routes)
  /\ Data \in Texts /\ SendFail \in Texts
<1>1. Len(Routes) \in Nat
  BY ProxyAssumption
<1> QED
  BY ProxyAssumption, <1>1 DEF Texts

\* What a call of try_send_data can do to the queues.
Pushed(to, m, r) ==
  \A d \in Devices :
    /\ d # to => Range(queue'[d]) \subseteq Range(queue[d]) /\ reply'[d] = reply[d]
    /\ d = to => Range(queue'[d]) \subseteq Range(queue[d]) \cup {m} /\ reply'[d] = r

LEMMA TrySendEffect ==
  ASSUME TypeOK, NEW to, NEW m \in Messages, NEW r \in Devices \cup {NoDevice},
         TrySendData(to, m, r)
  PROVE  /\ queue' \in [Devices -> Seq(Messages)]
         /\ reply' \in [Devices -> Devices \cup {NoDevice}]
         /\ crashed' \in BOOLEAN
         /\ crashed' => crashed \/ to \notin Devices
         /\ Pushed(to, m, r)
<1>1. CASE to \notin Devices
  BY <1>1 DEF TypeOK, TrySendData, Pushed
<1>2. CASE to \in Devices
  <2> DEFINE q == IF Len(queue[to]) + 1 = MAX_SEND_BUFFER_COUNT THEN <<>>
                  ELSE Append(queue[to], m)
  <2>1. /\ queue' = [queue EXCEPT ![to] = q]
        /\ reply' = [reply EXCEPT ![to] = r]
        /\ UNCHANGED crashed
    BY <1>2 DEF TrySendData
  <2>2. queue[to] \in Seq(Messages)
    BY <1>2 DEF TypeOK
  <2>3. q \in Seq(Messages) /\ Range(q) \subseteq Range(queue[to]) \cup {m}
    BY <2>2, RangeOfAppend, RangeOfEmpty
  <2> HIDE DEF q
  <2>4. queue' \in [Devices -> Seq(Messages)] /\ reply' \in [Devices -> Devices \cup {NoDevice}]
    BY <1>2, <2>1, <2>3 DEF TypeOK
  <2>5. \A d \in Devices : /\ queue'[d] = IF d = to THEN q ELSE queue[d]
                           /\ reply'[d] = IF d = to THEN r ELSE reply[d]
    BY <1>2, <2>1 DEF TypeOK
  <2> QED
    BY <1>2, <2>1, <2>3, <2>4, <2>5 DEF TypeOK, Pushed
<1> QED
  BY <1>1, <1>2

------------------------------------------------------------------------------
(* Every thread's step, and what it does to the queues.                    *)

\* The command a thread pushes, and the queue entry it becomes.
LEMMA ActionPush ==
  ASSUME TypeOK, ThreadInv, NEW d \in Threads, Action(d)
  PROVE  LET r  == Routes[router[d]]
             to == Head(todo[d])
             m  == Msg(Encode(r.cmd, to), d, router[d], 0)
         IN  /\ router[d] \in RouteIds /\ r.from = d
             /\ to \in Targets(router[d])
             /\ m \in Messages
             /\ m.origin = d /\ m.text = Encode(r.cmd, to)
             /\ m.asks = router[d] /\ m.answers = 0
             /\ GetDeviceInfo(r.reply) \in Devices \cup {NoDevice}
             /\ TrySendData(to, m, GetDeviceInfo(r.reply))
             /\ Tail(todo[d]) \in Seq(Names)
             /\ Range(Tail(todo[d])) \subseteq Targets(router[d])
<1> DEFINE r  == Routes[router[d]]
           to == Head(todo[d])
           m  == Msg(Encode(r.cmd, to), d, router[d], 0)
<1>1. /\ router[d] \in RouteIds /\ r.from = d /\ todo[d] # <<>>
      /\ Range(todo[d]) \subseteq Targets(router[d])
  BY DEF ThreadInv, ThreadOK, Action
<1>2. todo[d] \in Seq(Names)
  BY DEF TypeOK
<1>3. /\ to \in Range(todo[d]) /\ Tail(todo[d]) \in Seq(Names)
      /\ Range(Tail(todo[d])) \subseteq Range(todo[d])
  BY <1>1, <1>2, HeadAndTail
<1>4. Encode(r.cmd, to) \in Texts
  BY <1>1, RouteShape DEF Encode, Texts
<1>5. /\ m \in Messages /\ m.origin = d /\ m.text = Encode(r.cmd, to)
      /\ m.asks = router[d] /\ m.answers = 0
  <2>1. d \in Devices /\ router[d] \in 0 .. Len(Routes) /\ 0 \in 0 .. Len(Routes)
    BY <1>1, RouteShape, ThreadsAreDevices
  <2> QED
    BY <2>1, <1>4, MsgShape
<1>6. TrySendData(to, m, GetDeviceInfo(r.reply))
  BY DEF Action
<1>7. GetDeviceInfo(r.reply) \in Devices \cup {NoDevice}
  BY DEF GetDeviceInfo
<1> QED
  BY <1>1, <1>3, <1>5, <1>6, <1>7

\* What a thread pops.
LEMMA PopShape ==
  ASSUME TypeOK, NEW d \in Threads, Pop(d)
  PROVE  /\ d \in Devices
         /\ Head(queue[d]) \in Messages /\ Head(queue[d]) \in Range(queue[d])
         /\ queue' \in [Devices -> Seq(Messages)]
         /\ \A e \in Devices : Range(queue'[e]) \subseteq Range(queue[e])
         /\ wire' \in [Threads -> Messages]
         /\ lastSend' \in [Threads -> BOOLEAN]
         /\ \A e \in Threads : lastSend[e] \/ e = d => lastSend'[e]
         /\ reply' = reply /\ crashed' = crashed
<1>1. d \in Devices
  BY ThreadsAreDevices
<1>2. queue[d] \in Seq(Messages) /\ queue[d] # <<>>
  BY <1>1 DEF TypeOK, Pop
<1>3. /\ Head(queue[d]) \in Messages /\ Tail(queue[d]) \in Seq(Messages)
      /\ Head(queue[d]) \in Range(queue[d])
      /\ Range(Tail(queue[d])) \subseteq Range(queue[d])
  BY <1>2, HeadAndTail
<1>4. queue' = [queue EXCEPT ![d] = Tail(queue[d])]
  BY DEF Pop
<1>5. queue' \in [Devices -> Seq(Messages)]
  BY <1>1, <1>3, <1>4 DEF TypeOK
<1>6. \A e \in Devices : Range(queue'[e]) \subseteq Range(queue[e])
  <2> TAKE e \in Devices
  <2>1. queue'[e] = IF e = d THEN Tail(queue[d]) ELSE queue[e]
    BY <1>1, <1>4 DEF TypeOK
  <2> QED
    BY <2>1, <1>3
<1>7. wire' \in [Threads -> Messages] /\ lastSend' \in [Threads -> BOOLEAN]
  BY <1>3 DEF TypeOK, Pop
<1>8. \A e \in Threads : lastSend[e] \/ e = d => lastSend'[e]
  BY DEF TypeOK, Pop
<1> QED
  BY <1>1, <1>3, <1>5, <1>6, <1>7, <1>8 DEF Pop

LEMMA IncomingShape ==
  ASSUME TypeOK, NEW d \in Threads, NEW m \in Incoming(d)
  PROVE  /\ m \in Messages /\ m.origin = d /\ m.asks = 0
         /\ m.answers # 0 => m.answers \in asked[d]
<1>1. d \in Devices /\ 0 \in 0 .. Len(Routes) /\ Data \in Texts
  BY ThreadsAreDevices
<1>2. CASE \E t \in Commands \cup {Data} : m = Msg(t, d, 0, 0)
  BY <1>1, <1>2, MsgShape DEF Texts
<1>3. CASE \E i \in asked[d] : m = Msg(Data, d, 0, i)
  <2>1. asked[d] \subseteq 0 .. Len(Routes)
    BY RouteShape DEF TypeOK
  <2> QED
    BY <1>1, <1>3, <2>1, MsgShape
<1> QED
  BY <1>2, <1>3 DEF Incoming

LEMMA FailShape ==
  ASSUME TypeOK, NEW d \in Threads, Pop(d)
  PROVE  LET m == Msg(SendFail, d, 0, Head(queue[d]).asks)
         IN  /\ m \in Messages /\ m.origin = d /\ m.asks = 0
             /\ m.answers = Head(queue[d]).asks
<1>1. Head(queue[d]).asks \in 0 .. Len(Routes)
  BY PopShape DEF Messages
<1> QED
  BY <1>1, ThreadsAreDevices, MsgShape

------------------------------------------------------------------------------
(* The inductive invariant of every configuration.                         *)

LEMMA InitIInv == Init => IInv
<1> SUFFICES ASSUME Init PROVE IInv
  OBVIOUS
<1>1. \A d \in Threads : NoMsg(d) \in Messages /\ NoMsg(d).origin = d /\ NoMsg(d).asks = 0
  BY ThreadsAreDevices, MsgShape DEF NoMsg
<1>2. TypeOK
  <2>1. buf \in [Threads -> Messages] /\ wire \in [Threads -> Messages]
    BY <1>1 DEF Init
  <2>2. up \in [Threads -> BOOLEAN] /\ lastSend \in [Threads -> BOOLEAN]
    BY Zenon DEF Init
  <2>3. /\ router \in [Threads -> 0 .. Len(Routes)]
        /\ todo \in [Threads -> Seq(Names)]
        /\ queue \in [Devices -> Seq(Messages)]
    BY ThreadsAreDevices DEF Init
  <2> QED
    BY <2>1, <2>2, <2>3 DEF Init, TypeOK
<1>3. ReplyInv
  BY DEF Init, ReplyInv
<1>4. ThreadInv
  BY <1>1 DEF Init, ThreadInv, ThreadOK
<1>5. OnlyRouted
  BY RangeOfEmpty DEF Init, OnlyRouted
<1>6. CrashOnlyByUnknownTarget
  BY DEF Init, CrashOnlyByUnknownTarget
<1> QED
  BY <1>2, <1>3, <1>4, <1>5, <1>6 DEF IInv

LEMMA NextTypeOK == IInv /\ [Next]_vars => TypeOK'
<1> SUFFICES ASSUME TypeOK, ThreadInv, [Next]_vars
             PROVE  TypeOK'
  BY DEF IInv
<1> USE DEF TypeOK
<1>1. CASE UNCHANGED vars
  BY <1>1 DEF vars, threadVars, queueVars, lineVars
<1>2. ASSUME NEW d \in Threads, Connect(d) PROVE TypeOK'
  BY <1>2 DEF Connect, threadVars, queueVars
<1>3. ASSUME NEW d \in Threads, Disconnect(d) PROVE TypeOK'
  BY <1>3 DEF Disconnect, threadVars, queueVars
<1>4. ASSUME NEW d \in Threads, Receive(d) PROVE TypeOK'
  <2>1. buf' \in [Threads -> Messages]
    BY <1>4, IncomingShape DEF Receive
  <2> QED
    BY <1>4, <2>1 DEF Receive, queueVars
<1>5. ASSUME NEW d \in Threads, Idle(d) PROVE TypeOK'
  BY <1>5 DEF Idle, queueVars, lineVars
<1>6. ASSUME NEW d \in Threads, NotifyCommand(d) PROVE TypeOK'
  <2>1. PICK i \in RouteIds :
          /\ router' = [router EXCEPT ![d] = i]
          /\ todo' = [todo EXCEPT ![d] = Routes[i].to]
          /\ pc' = [pc EXCEPT ![d] = IF Routes[i].to = <<>> THEN ReturnTo(d) ELSE "action"]
    BY <1>6 DEF NotifyCommand
  <2>2. router' \in [Threads -> 0 .. Len(Routes)] /\ todo' \in [Threads -> Seq(Names)]
    BY <2>1, RouteShape
  <2>3. pc' \in [Threads -> {"recv", "notify", "action", "forward", "send"}]
    BY <2>1 DEF ReturnTo
  <2> QED
    BY <1>6, <2>2, <2>3 DEF NotifyCommand, queueVars, lineVars
<1>7. ASSUME NEW d \in Threads, NotifyReply(d) PROVE TypeOK'
  <2>1. d \in Devices
    BY ThreadsAreDevices
  <2>2. dest' \in [Threads -> Devices \cup {NoDevice}]
    BY <1>7, <2>1 DEF NotifyReply
  <2>3. pc' \in [Threads -> {"recv", "notify", "action", "forward", "send"}]
    BY <1>7 DEF NotifyReply, ReturnTo
  <2> QED
    BY <1>7, <2>2, <2>3 DEF NotifyReply, queueVars, lineVars
<1>8. ASSUME NEW d \in Threads, Action(d) PROVE TypeOK'
  <2> DEFINE r  == Routes[router[d]]
             to == Head(todo[d])
             m  == Msg(Encode(r.cmd, to), d, router[d], 0)
  <2>0. /\ m \in Messages /\ GetDeviceInfo(r.reply) \in Devices \cup {NoDevice}
        /\ TrySendData(to, m, GetDeviceInfo(r.reply))
    BY <1>8, ActionPush
  <2> HIDE DEF m, to
  <2>1. /\ queue' \in [Devices -> Seq(Messages)]
        /\ reply' \in [Devices -> Devices \cup {NoDevice}]
        /\ crashed' \in BOOLEAN
    BY <2>0, TrySendEffect
  <2>2. todo' \in [Threads -> Seq(Names)]
    BY <1>8, ActionPush DEF Action
  <2>3. pc' \in [Threads -> {"recv", "notify", "action", "forward", "send"}]
    BY <1>8 DEF Action, ReturnTo
  <2> QED
    BY <1>8, <2>1, <2>2, <2>3 DEF Action, lineVars
<1>9. ASSUME NEW d \in Threads, Forward(d) PROVE TypeOK'
  <2>1. /\ queue' \in [Devices -> Seq(Messages)]
        /\ reply' \in [Devices -> Devices \cup {NoDevice}]
        /\ crashed' \in BOOLEAN
    BY <1>9, TrySendEffect DEF Forward
  <2>2. pc' \in [Threads -> {"recv", "notify", "action", "forward", "send"}]
    BY <1>9 DEF Forward, ReturnTo
  <2> QED
    BY <1>9, <2>1, <2>2 DEF Forward, lineVars
<1>10. ASSUME NEW d \in Threads, SendNothing(d) PROVE TypeOK'
  BY <1>10 DEF SendNothing, queueVars, lineVars
<1>11. ASSUME NEW d \in Threads, SendOk(d) PROVE TypeOK'
  <2>1. Pop(d)
    BY <1>11 DEF SendOk
  <2>2. asked' \in [Threads -> SUBSET RouteIds]
    <3>1. Head(queue[d]).asks \in 0 .. Len(Routes)
      BY <2>1, PopShape DEF Messages
    <3>2. Len(Routes) \in Nat
      BY ProxyAssumption
    <3>3. {Head(queue[d]).asks} \ {0} \subseteq RouteIds
      BY <3>1, <3>2 DEF RouteIds
    <3> QED
      BY <1>11, <3>3 DEF SendOk
  <2> QED
    BY <1>11, <2>1, <2>2, PopShape DEF SendOk, Pop
<1>12. ASSUME NEW d \in Threads, SendShort(d) PROVE TypeOK'
  <2>1. Pop(d)
    BY <1>12 DEF SendShort
  <2>2. buf' \in [Threads -> Messages]
    BY <1>12, <2>1, FailShape DEF SendShort
  <2> QED
    BY <1>12, <2>1, <2>2, PopShape DEF SendShort, Pop
<1> QED
  BY <1>1, <1>2, <1>3, <1>4, <1>5, <1>6, <1>7, <1>8, <1>9, <1>10, <1>11, <1>12
  DEF Next, ThreadStep, Outside

\* Only the two calls of try_send_data add to a queue or change a reply.
LEMMA QueueSteps ==
  ASSUME TypeOK, [Next]_vars
  PROVE  \/ /\ reply' = reply /\ crashed' = crashed
            /\ \A e \in Devices : Range(queue'[e]) \subseteq Range(queue[e])
         \/ \E d \in Threads : Action(d) \/ Forward(d)
<1>1. CASE UNCHANGED <<queue, reply, crashed>>
  BY <1>1
<1>2. ASSUME NEW d \in Threads, Pop(d)
      PROVE  /\ reply' = reply /\ crashed' = crashed
             /\ \A e \in Devices : Range(queue'[e]) \subseteq Range(queue[e])
  BY <1>2, PopShape
<1>3. CASE UNCHANGED vars
  BY <1>1, <1>3 DEF vars, queueVars
<1>4. ASSUME NEW d \in Threads, ThreadStep(d) \/ Outside(d)
      PROVE  \/ UNCHANGED <<queue, reply, crashed>> \/ Pop(d) \/ Action(d) \/ Forward(d)
  BY <1>4 DEF ThreadStep, Outside, Connect, Disconnect, Receive, Idle, NotifyCommand,
              NotifyReply, SendNothing, SendOk, SendShort, queueVars
<1> QED
  BY <1>1, <1>2, <1>3, <1>4 DEF Next

LEMMA NextQueues ==
  IInv /\ [Next]_vars => ReplyInv' /\ OnlyRouted' /\ CrashOnlyByUnknownTarget'
<1> SUFFICES ASSUME TypeOK, ReplyInv, ThreadInv, OnlyRouted, CrashOnlyByUnknownTarget,
                    [Next]_vars
             PROVE  ReplyInv' /\ OnlyRouted' /\ CrashOnlyByUnknownTarget'
  BY DEF IInv
<1>1. CASE /\ reply' = reply /\ crashed' = crashed
           /\ \A e \in Devices : Range(queue'[e]) \subseteq Range(queue[e])
  <2>1. CrashOnlyByUnknownTarget'
    <3>1. crashed' => UNCHANGED vars
      BY <1>1 DEF Next
    <3> QED
      BY <3>1 DEF CrashOnlyByUnknownTarget, vars, threadVars, queueVars
  <2> QED
    BY <1>1, <2>1 DEF ReplyInv, OnlyRouted
<1>2. ASSUME NEW d \in Threads, Action(d)
      PROVE  ReplyInv' /\ OnlyRouted' /\ CrashOnlyByUnknownTarget'
  <2> DEFINE r  == Routes[router[d]]
             to == Head(todo[d])
             m  == Msg(Encode(r.cmd, to), d, router[d], 0)
  <2>1. /\ router[d] \in RouteIds /\ r.from = d /\ to \in Targets(router[d])
        /\ m \in Messages /\ m.origin = d /\ m.text = Encode(r.cmd, to)
        /\ GetDeviceInfo(r.reply) \in Devices \cup {NoDevice}
        /\ TrySendData(to, m, GetDeviceInfo(r.reply))
    BY <1>2, ActionPush
  <2> HIDE DEF m
  <2>2. Pushed(to, m, GetDeviceInfo(r.reply))
    BY <2>1, TrySendEffect
  <2>c. crashed' => crashed \/ to \notin Devices
    BY <2>1, TrySendEffect
  <2>3. Commanded(m, to)
    BY <2>1 DEF Commanded
  <2>4. OnlyRouted'
    BY <2>2, <2>3 DEF OnlyRouted, Pushed
  <2>5. ReplyInv'
    BY <2>1, <2>2 DEF ReplyInv, GetDeviceInfo, Pushed
  <2>6. CrashOnlyByUnknownTarget'
    <3>1. router' = router
      BY <1>2 DEF Action
    <3>2. router[d] # 0 /\ (to \notin Devices => ~ (Targets(router[d]) \subseteq Devices))
      BY <2>1 DEF RouteIds
    <3>3. crashed' => crashed \/ ~ (Targets(router[d]) \subseteq Devices)
      BY <2>c, <3>2
    <3> QED
      BY <3>1, <3>2, <3>3 DEF CrashOnlyByUnknownTarget, Targets
  <2> QED
    BY <2>4, <2>5, <2>6
<1>3. ASSUME NEW d \in Threads, Forward(d)
      PROVE  ReplyInv' /\ OnlyRouted' /\ CrashOnlyByUnknownTarget'
  <2>1. /\ TrySendData(dest[d], buf[d], NoDevice) /\ buf[d] \in Messages
        /\ buf[d].origin = d
    BY <1>3 DEF Forward, TypeOK, ThreadInv, ThreadOK
  <2>2. PICK i \in RouteIds :
          d \in Targets(i) /\ dest[d] \in Devices /\ dest[d] = Routes[i].reply
    BY <1>3 DEF Forward, ThreadInv, ThreadOK
  <2>3. Pushed(dest[d], buf[d], NoDevice)
    BY <2>1, <2>2, TrySendEffect
  <2>c. crashed' => crashed
    BY <2>1, <2>2, TrySendEffect
  <2>4. RepliedTo(buf[d], dest[d])
    BY <2>1, <2>2 DEF RepliedTo
  <2>5. OnlyRouted'
    BY <2>3, <2>4 DEF OnlyRouted, Pushed
  <2>6. ReplyInv'
    BY <2>3 DEF ReplyInv, Pushed
  <2>7. CrashOnlyByUnknownTarget'
    BY <1>3, <2>c DEF Forward, CrashOnlyByUnknownTarget, Targets
  <2> QED
    BY <2>5, <2>6, <2>7
<1> QED
  BY <1>1, <1>2, <1>3, QueueSteps

\* A step of one thread leaves the local variables of the others alone.
LEMMA OthersKeep ==
  ASSUME TypeOK, NEW d \in Threads, ThreadStep(d) \/ Outside(d),
         NEW e \in Threads, e # d
  PROVE  /\ pc'[e] = pc[e] /\ buf'[e] = buf[e] /\ router'[e] = router[e]
         /\ todo'[e] = todo[e] /\ dest'[e] = dest[e]
         /\ lastSend'[e] = lastSend[e] /\ asked'[e] = asked[e]
BY DEF TypeOK, ThreadStep, Outside, Connect, Disconnect, Receive, Idle, NotifyCommand,
       NotifyReply, Action, Forward, SendNothing, SendOk, SendShort, Pop,
       threadVars, queueVars, lineVars

LEMMA NextThreadInv == IInv /\ [Next]_vars => ThreadInv'
<1> SUFFICES ASSUME TypeOK, ReplyInv, ThreadInv, [Next]_vars
             PROVE  ThreadInv'
  BY DEF IInv
<1>1. CASE UNCHANGED vars
  BY <1>1 DEF vars, threadVars, ThreadInv, ThreadOK
<1>2. ASSUME NEW d \in Threads, ThreadStep(d) \/ Outside(d)
      PROVE  ThreadInv'
  <2>1. ASSUME NEW e \in Threads, e # d PROVE ThreadOK(e)'
    BY <1>2, <2>1, OthersKeep DEF ThreadInv, ThreadOK
  <2>2. ThreadOK(d)
    BY DEF ThreadInv
  <2>3. ASSUME Connect(d) \/ Disconnect(d) PROVE ThreadOK(d)'
    BY <2>2, <2>3 DEF Connect, Disconnect, ThreadOK, threadVars
  <2>4. ASSUME Receive(d) PROVE ThreadOK(d)'
    <3>1. buf'[d].origin = d /\ buf'[d].asks = 0 /\ pc'[d] = "notify"
      BY <2>4, IncomingShape DEF Receive, TypeOK
    <3> QED
      BY <3>1 DEF ThreadOK
  <2>5. ASSUME Idle(d) \/ SendNothing(d) PROVE ThreadOK(d)'
    BY <2>2, <2>5 DEF Idle, SendNothing, ThreadOK, TypeOK
  <2>6. ASSUME NotifyCommand(d) PROVE ThreadOK(d)'
    <3>1. PICK i \in RouteIds :
            /\ IsFirstMatch(i, d, buf[d].text)
            /\ router' = [router EXCEPT ![d] = i]
            /\ todo' = [todo EXCEPT ![d] = Routes[i].to]
            /\ pc' = [pc EXCEPT ![d] = IF Routes[i].to = <<>> THEN ReturnTo(d) ELSE "action"]
      BY <2>6 DEF NotifyCommand
    <3>2. router'[d] = i /\ todo'[d] = Routes[i].to /\ buf' = buf
      BY <2>6, <3>1 DEF TypeOK, NotifyCommand
    <3>3. Routes[i].from = d
      BY <3>1 DEF IsFirstMatch, Matching
    <3>4. pc'[d] # "forward" /\ (pc'[d] = "action" => Routes[i].to # <<>>)
      BY <3>1 DEF TypeOK, ReturnTo
    <3> QED
      BY <2>2, <3>1, <3>2, <3>3, <3>4 DEF ThreadOK, Targets
  <2>7. ASSUME NotifyReply(d) PROVE ThreadOK(d)'
    <3>1. buf' = buf /\ pc'[d] # "action"
      BY <2>7 DEF NotifyReply, TypeOK, ReturnTo
    <3>2. pc'[d] = "forward" => reply[d] # NoDevice /\ dest'[d] = reply[d]
      BY <2>7 DEF NotifyReply, TypeOK, ReturnTo
    <3>3. d \in Devices /\ reply[d] \in Devices \cup {NoDevice}
      BY ThreadsAreDevices DEF TypeOK
    <3> QED
      BY <2>2, <3>1, <3>2, <3>3 DEF ThreadOK, ReplyInv
  <2>8. ASSUME Action(d) PROVE ThreadOK(d)'
    <3>1. buf' = buf /\ router' = router /\ todo'[d] = Tail(todo[d]) /\ pc'[d] # "forward"
      BY <2>8 DEF Action, TypeOK, ReturnTo
    <3>2. pc'[d] = "action" => Tail(todo[d]) # <<>>
      BY <2>8 DEF Action, TypeOK, ReturnTo
    <3>3. /\ Range(Tail(todo[d])) \subseteq Targets(router[d])
          /\ router[d] \in RouteIds /\ Routes[router[d]].from = d
      BY <2>8, ActionPush
    <3> QED
      BY <2>2, <3>1, <3>2, <3>3 DEF ThreadOK
  <2>9. ASSUME Forward(d) PROVE ThreadOK(d)'
    BY <2>2, <2>9 DEF Forward, TypeOK, ReturnTo, ThreadOK
  <2>10. ASSUME SendOk(d) PROVE ThreadOK(d)'
    BY <2>2, <2>10 DEF SendOk, TypeOK, ThreadOK
  <2>11. ASSUME SendShort(d) PROVE ThreadOK(d)'
    <3>1. Pop(d)
      BY <2>11 DEF SendShort
    <3>2. buf'[d].origin = d /\ buf'[d].asks = 0 /\ pc'[d] = "notify"
      BY <2>11, <3>1, FailShape DEF SendShort, TypeOK
    <3> QED
      BY <3>2 DEF ThreadOK
  <2>12. ThreadOK(d)'
    BY <1>2, <2>3, <2>4, <2>5, <2>6, <2>7, <2>8, <2>9, <2>10, <2>11
    DEF ThreadStep, Outside
  <2> QED
    BY <2>1, <2>12 DEF ThreadInv
<1> QED
  BY <1>1, <1>2 DEF Next

(* In every configuration, type correctness and the invariants below hold    *)
(* of every reachable state of the router and its threads.                   *)
THEOREM Inductive == Spec => []IInv
<1>1. IInv /\ [Next]_vars => IInv'
  BY NextTypeOK, NextThreadInv, NextQueues DEF IInv
<1> QED
  BY <1>1, InitIInv, PTL DEF Spec

(* The variables of the router and its threads keep their types.             *)
THEOREM TypeCorrect == Spec => []TypeOK
<1>1. IInv => TypeOK
  BY DEF IInv
<1> QED
  BY <1>1, Inductive, PTL

(* notify_data_recv puts nothing into a device's queue but commands routed   *)
(* to it and data from devices whose routes reply to it, however the threads *)
(* interleave and whether or not the routes are consistent.                  *)
THEOREM RoutedOnly == Spec => []OnlyRouted
<1>1. IInv => OnlyRouted
  BY DEF IInv
<1> QED
  BY <1>1, Inductive, PTL

(* try_send_data dereferences NULL only for a route whose target list names  *)
(* a device that get_device_info does not find.                              *)
THEOREM CrashNeedsUnknownTarget == Spec => []CrashOnlyByUnknownTarget
<1>1. IInv => CrashOnlyByUnknownTarget
  BY DEF IInv
<1> QED
  BY <1>1, Inductive, PTL

------------------------------------------------------------------------------
(* Answers, under a consistent configuration.                              *)

\* No push changes whom a device with a command outstanding replies to: a
\* command pushed has the same reply, and forwarded data goes to no target.
LEMMA OwedStable ==
  ASSUME Consistent, IInv, [Next]_vars,
         NEW e \in Devices, NEW i \in RouteIds, Owed(e, i)
  PROVE  Owed(e, i)'
<1> SUFFICES reply'[e] = reply[e]
  BY DEF Owed, Targets, GetDeviceInfo
<1> USE DEF IInv
<1>1. CASE reply' = reply
  BY <1>1
<1>2. ASSUME NEW d \in Threads, Action(d) PROVE reply'[e] = reply[e]
  <2> DEFINE r  == Routes[router[d]]
             to == Head(todo[d])
             m  == Msg(Encode(r.cmd, to), d, router[d], 0)
  <2>1. /\ router[d] \in RouteIds /\ to \in Targets(router[d]) /\ m \in Messages
        /\ GetDeviceInfo(r.reply) \in Devices \cup {NoDevice}
        /\ TrySendData(to, m, GetDeviceInfo(r.reply))
    BY <1>2, ActionPush
  <2> HIDE DEF m
  <2>2. Pushed(to, m, GetDeviceInfo(r.reply))
    BY <2>1, TrySendEffect
  <2>3. CASE e = to
    <3>1. Routes[i].reply = r.reply
      BY <2>1, <2>3 DEF Owed, Consistent
    <3> QED
      BY <2>2, <2>3, <3>1 DEF Pushed, Owed
  <2>4. CASE e # to
    BY <2>2, <2>4 DEF Pushed
  <2> QED
    BY <2>3, <2>4
<1>3. ASSUME NEW d \in Threads, Forward(d) PROVE reply'[e] = reply[e]
  <2>1. TrySendData(dest[d], buf[d], NoDevice) /\ buf[d] \in Messages
    BY <1>3 DEF Forward, TypeOK
  <2>2. PICK k \in RouteIds : dest[d] = Routes[k].reply
    BY <1>3 DEF Forward, ThreadInv, ThreadOK
  <2>3. e # dest[d]
    BY <2>2 DEF Owed, Consistent
  <2>4. Pushed(dest[d], buf[d], NoDevice)
    BY <2>1, TrySendEffect
  <2> QED
    BY <2>3, <2>4 DEF Pushed
<1> QED
  BY <1>1, <1>2, <1>3, QueueSteps

\* A command pushed is owed an answer from then on.
LEMMA ActionOwes ==
  ASSUME IInv, NEW d \in Threads, Action(d), Head(todo[d]) \in Devices
  PROVE  /\ Head(todo[d]) \in Targets(router[d])
         /\ reply'[Head(todo[d])] = GetDeviceInfo(Routes[router[d]].reply)
<1> USE DEF IInv
<1> DEFINE r  == Routes[router[d]]
           to == Head(todo[d])
           m  == Msg(Encode(r.cmd, to), d, router[d], 0)
<1>1. /\ to \in Targets(router[d]) /\ m \in Messages
      /\ GetDeviceInfo(r.reply) \in Devices \cup {NoDevice}
      /\ TrySendData(to, m, GetDeviceInfo(r.reply))
  BY ActionPush
<1> HIDE DEF m
<1>2. Pushed(to, m, GetDeviceInfo(r.reply))
  BY <1>1, TrySendEffect
<1> QED
  BY <1>1, <1>2 DEF Pushed

LEMMA InitCInv == Init => CInv
<1> SUFFICES ASSUME Init PROVE CInv
  OBVIOUS
<1>1. \A d \in Threads : NoMsg(d).answers = 0
  BY ThreadsAreDevices, MsgShape DEF NoMsg
<1> QED
  BY <1>1, RangeOfEmpty DEF Init, CInv, QueuedInv, AskedInv, AnswerInv

\* What CInv says of one queued message.
Settled(m, e) ==
  /\ m.asks # 0 => Owed(e, m.asks)
  /\ m.answers # 0 => Routes[m.answers].reply = e

LEMMA SettledStable ==
  ASSUME Consistent, IInv, [Next]_vars,
         NEW e \in Devices, NEW m \in Messages, Settled(m, e)
  PROVE  Settled(m, e)'
<1>1. m.asks \in 0 .. Len(Routes) /\ Len(Routes) \in Nat
  BY ProxyAssumption DEF Messages
<1>2. m.asks # 0 => m.asks \in RouteIds
  BY <1>1 DEF RouteIds
<1>3. m.asks # 0 => Owed(e, m.asks)'
  BY <1>2, OwedStable DEF Settled
<1> QED
  BY <1>3 DEF Settled

LEMMA NextQueued ==
  ASSUME Consistent PROVE IInv /\ CInv /\ [Next]_vars => QueuedInv'
<1> SUFFICES ASSUME IInv, CInv, [Next]_vars,
                    NEW e \in Devices, NEW m \in Range(queue'[e])
             PROVE  Settled(m, e)'
  BY DEF QueuedInv, Settled
<1>1. m \in Range(queue[e]) => Settled(m, e)'
  <2> SUFFICES ASSUME m \in Range(queue[e]) PROVE Settled(m, e)'
    OBVIOUS
  <2>1. Settled(m, e)
    BY DEF CInv, QueuedInv, Settled
  <2>2. queue[e] \in Seq(Messages)
    BY DEF IInv, TypeOK
  <2>3. m \in Messages
    BY <2>2, ElementOfSeq DEF Range
  <2> QED
    BY <2>1, <2>3, SettledStable
<1> USE DEF IInv
<1>2. CASE Range(queue'[e]) \subseteq Range(queue[e])
  BY <1>1, <1>2
<1>3. ASSUME NEW d \in Threads, Action(d) PROVE Settled(m, e)'
  <2> DEFINE r  == Routes[router[d]]
             to == Head(todo[d])
             n  == Msg(Encode(r.cmd, to), d, router[d], 0)
  <2>1. /\ router[d] \in RouteIds /\ n \in Messages
        /\ n.asks = router[d] /\ n.answers = 0
        /\ GetDeviceInfo(r.reply) \in Devices \cup {NoDevice}
        /\ TrySendData(to, n, GetDeviceInfo(r.reply))
    BY <1>3, ActionPush
  <2> HIDE DEF n
  <2>2. Pushed(to, n, GetDeviceInfo(r.reply))
    BY <2>1, TrySendEffect
  <2>3. CASE m \notin Range(queue[e])
    <3>1. e = to /\ m = n
      BY <2>2, <2>3 DEF Pushed
    <3>2. e \in Targets(router[d]) /\ reply'[e] = GetDeviceInfo(r.reply)
      BY <1>3, <3>1, ActionOwes
    <3> QED
      BY <2>1, <3>1, <3>2 DEF Settled, Owed, Targets, GetDeviceInfo
  <2> QED
    BY <1>1, <2>3
<1>4. ASSUME NEW d \in Threads, Forward(d) PROVE Settled(m, e)'
  <2>1. /\ TrySendData(dest[d], buf[d], NoDevice) /\ buf[d] \in Messages
        /\ buf[d].asks = 0
        /\ buf[d].answers # 0 => dest[d] = Routes[buf[d].answers].reply
    BY <1>4 DEF Forward, TypeOK, ThreadInv, ThreadOK, CInv, AnswerInv
  <2>2. Pushed(dest[d], buf[d], NoDevice)
    BY <2>1, TrySendEffect
  <2>3. CASE m \notin Range(queue[e])
    <3>1. e = dest[d] /\ m = buf[d]
      BY <2>2, <2>3 DEF Pushed
    <3> QED
      BY <2>1, <3>1 DEF Settled
  <2> QED
    BY <1>1, <2>3
<1> QED
  BY <1>2, <1>3, <1>4, QueueSteps

LEMMA NextAsked ==
  ASSUME Consistent PROVE IInv /\ CInv /\ [Next]_vars => AskedInv'
<1> SUFFICES ASSUME IInv, CInv, [Next]_vars,
                    NEW e \in Threads, NEW i \in asked'[e]
             PROVE  Owed(e, i)' /\ lastSend'[e]
  BY DEF AskedInv, Owed
<1> USE DEF IInv
<1>1. e \in Devices
  BY ThreadsAreDevices
<1>2. i \in asked[e] => Owed(e, i)'
  BY <1>1, OwedStable DEF CInv, AskedInv, TypeOK
<1>3. CASE asked'[e] = asked[e] /\ (lastSend[e] => lastSend'[e])
  BY <1>2, <1>3 DEF CInv, AskedInv
<1>4. ASSUME NEW d \in Threads, SendOk(d), e = d
      PROVE  Owed(e, i)' /\ lastSend'[e]
  <2>1. Pop(d)
    BY <1>4 DEF SendOk
  <2>2. Head(queue[d]) \in Range(queue[d]) /\ Head(queue[d]) \in Messages /\ lastSend'[e]
    BY <2>1, <1>4, PopShape
  <2>3. i \in asked[e] \/ (i = Head(queue[d]).asks /\ i # 0)
    BY <1>4 DEF SendOk, TypeOK
  <2>4. i = Head(queue[d]).asks /\ i # 0 => Owed(e, i) /\ i \in RouteIds
    <3>1. Len(Routes) \in Nat /\ Head(queue[d]).asks \in 0 .. Len(Routes)
      BY <2>2, ProxyAssumption DEF Messages
    <3> QED
      BY <1>1, <1>4, <2>2, <3>1 DEF CInv, QueuedInv, RouteIds
  <2> QED
    BY <1>1, <1>2, <2>2, <2>3, <2>4, OwedStable
<1>5. ASSUME NEW d \in Threads, ThreadStep(d) \/ Outside(d), ~ SendOk(d) \/ e # d
      PROVE  asked'[e] = asked[e] /\ (lastSend[e] => lastSend'[e])
  <2>1. CASE e # d
    BY <1>5, <2>1, OthersKeep
  <2>2. CASE SendShort(d) /\ e = d
    BY <2>2, PopShape DEF SendShort
  <2>3. CASE UNCHANGED <<asked, lastSend>>
    BY <2>3
  <2> QED
    BY <1>5, <2>1, <2>2, <2>3
    DEF ThreadStep, Outside, Connect, Disconnect, Receive, Idle, NotifyCommand,
        NotifyReply, Action, Forward, SendNothing, threadVars, lineVars
<1>6. CASE UNCHANGED vars
  BY <1>3, <1>6 DEF vars, threadVars, lineVars
<1> QED
  BY <1>3, <1>4, <1>5, <1>6 DEF Next

\* What AnswerInv says of one thread.
AnswerOK(d) ==
  buf[d].answers # 0 =>
    /\ pc[d] \in {"notify", "forward"} => Owed(d, buf[d].answers) /\ lastSend[d]
    /\ pc[d] = "forward" => dest[d] = Routes[buf[d].answers].reply

LEMMA NextAnswer ==
  ASSUME Consistent PROVE IInv /\ CInv /\ [Next]_vars => AnswerInv'
<1> SUFFICES ASSUME IInv, CInv, [Next]_vars, NEW e \in Threads
             PROVE  AnswerOK(e)'
  BY DEF AnswerInv, AnswerOK
<1> USE DEF IInv
<1>1. e \in Devices
  BY ThreadsAreDevices
<1>2. AnswerOK(e) /\ ThreadOK(e)
  BY DEF CInv, AnswerInv, AnswerOK, ThreadInv
<1>3. \A i \in RouteIds : Owed(e, i) => Owed(e, i)'
  BY <1>1, OwedStable
<1>4. /\ buf[e] \in Messages /\ Len(Routes) \in Nat
      /\ buf[e].answers # 0 => buf[e].answers \in RouteIds
  <2>1. buf[e] \in Messages /\ Len(Routes) \in Nat
    BY ProxyAssumption DEF TypeOK
  <2>2. buf[e].answers \in 0 .. Len(Routes)
    BY <2>1 DEF Messages
  <2> QED
    BY <2>1, <2>2 DEF RouteIds
\* Nothing about this thread changes but what other threads may have pushed.
<1>5. CASE buf'[e] = buf[e] /\ pc'[e] = pc[e] /\ dest'[e] = dest[e] /\ lastSend'[e] = lastSend[e]
  BY <1>2, <1>3, <1>4, <1>5 DEF AnswerOK, Owed
\* The thread is not in the router.
<1>6. CASE pc'[e] \notin {"notify", "forward"}
  BY <1>6 DEF AnswerOK
<1>7. ASSUME Receive(e) PROVE AnswerOK(e)'
  <2>1. PICK m \in Incoming(e) : buf' = [buf EXCEPT ![e] = m]
    BY <1>7 DEF Receive
  <2>2. buf'[e] = m /\ pc'[e] = "notify" /\ lastSend' = lastSend
    BY <1>7, <2>1 DEF Receive, TypeOK
  <2>3. m.answers # 0 => m.answers \in asked[e]
    BY IncomingShape
  <2>4. m.answers # 0 => Owed(e, m.answers) /\ lastSend[e] /\ m.answers \in RouteIds
    BY <2>3 DEF CInv, AskedInv, TypeOK
  <2>5. m.answers # 0 => Owed(e, m.answers)'
    BY <1>3, <2>4
  <2> QED
    BY <2>2, <2>4, <2>5 DEF AnswerOK, Owed
<1>8. ASSUME NotifyReply(e) PROVE AnswerOK(e)'
  <2>1. buf' = buf /\ lastSend' = lastSend /\ reply' = reply /\ pc[e] = "notify"
    BY <1>8 DEF NotifyReply, queueVars
  <2>2. CASE pc'[e] = "forward" /\ buf[e].answers # 0
    <3>1. dest'[e] = reply[e] /\ reply[e] # NoDevice
      BY <1>8, <2>2 DEF NotifyReply, TypeOK, ReturnTo
    <3>2. Owed(e, buf[e].answers) /\ lastSend[e]
      BY <1>2, <2>1, <2>2 DEF AnswerOK
    <3>3. dest'[e] = Routes[buf[e].answers].reply
      BY <3>1, <3>2 DEF Owed, GetDeviceInfo
    <3> QED
      BY <2>1, <3>2, <3>3 DEF AnswerOK, Owed
  <2>3. pc'[e] # "notify"
    BY <1>8 DEF NotifyReply, TypeOK, ReturnTo
  <2> QED
    BY <1>6, <2>1, <2>2, <2>3 DEF AnswerOK
<1>9. ASSUME SendShort(e) PROVE AnswerOK(e)'
  <2>1. Pop(e)
    BY <1>9 DEF SendShort
  <2>2. /\ Head(queue[e]) \in Range(queue[e]) /\ Head(queue[e]) \in Messages
        /\ lastSend'[e] /\ reply' = reply
    BY <2>1, PopShape
  <2>3. buf'[e].answers = Head(queue[e]).asks /\ pc'[e] = "notify"
    BY <1>9, <2>1, FailShape DEF SendShort, TypeOK
  <2>4. Head(queue[e]).asks # 0 => Owed(e, Head(queue[e]).asks)
    BY <1>1, <2>2 DEF CInv, QueuedInv
  <2> QED
    BY <2>2, <2>3, <2>4 DEF AnswerOK, Owed
<1>10. ASSUME NEW d \in Threads, ThreadStep(d) \/ Outside(d) PROVE AnswerOK(e)'
  <2>1. CASE e # d
    BY <1>5, <1>10, <2>1, OthersKeep
  <2>2. CASE e = d /\ (Connect(d) \/ Disconnect(d))
    BY <1>5, <2>2 DEF Connect, Disconnect, threadVars
  <2>3. CASE e = d /\ (Idle(d) \/ NotifyCommand(d) \/ Action(d) \/ Forward(d)
                         \/ SendNothing(d) \/ SendOk(d))
    <3>1. pc'[e] \notin {"notify", "forward"}
      BY <2>3 DEF Idle, NotifyCommand, Action, Forward, SendNothing, SendOk, TypeOK, ReturnTo
    <3> QED
      BY <1>6, <3>1
  <2> QED
    BY <1>7, <1>8, <1>9, <1>10, <2>1, <2>2, <2>3 DEF ThreadStep, Outside
<1>11. CASE UNCHANGED vars
  BY <1>5, <1>11 DEF vars, threadVars
<1> QED
  BY <1>10, <1>11 DEF Next

(* If the routes to each target agree on one reply device and no reply       *)
(* device is a target (Consistent), answers and failure reports find the     *)
(* reply device of their own command in ReplyDevice, whatever else has been  *)
(* queued for the device since, and are handed to no other device.           *)
THEOREM AnswersComeBack == Consistent => (Spec => []AnswersReturn)
<1> SUFFICES ASSUME Consistent PROVE Spec => []AnswersReturn
  OBVIOUS
<1>1. Init => IInv /\ CInv
  BY InitIInv, InitCInv
<1>2. IInv /\ CInv /\ [Next]_vars => IInv' /\ CInv'
  BY NextTypeOK, NextThreadInv, NextQueues, NextQueued, NextAsked, NextAnswer
  DEF IInv, CInv
<1>3. IInv /\ CInv => AnswersReturn
  BY DEF CInv, QueuedInv, AnswerInv, AnswersReturn, Owed
<1> QED
  BY <1>1, <1>2, <1>3, PTL DEF Spec

------------------------------------------------------------------------------
(* Each device's line is a Fifo, which is what SendQueue promises Proxy for  *)
(* taking a call of try_send_data, and a pop and its write, as one step.     *)

\* The queue and line of one device, as the other threads see them.
Line(d) == INSTANCE Fifo WITH queue <- queue[d], inflight <- NoMsg(d),
                              wire <- wire[d], None <- NoMsg(d),
                              Capacity <- MAX_SEND_BUFFER_COUNT - 1

\* A call of try_send_data for d that finds one free slot only.
Overruns(d) ==
  /\ Len(queue[d]) + 1 = MAX_SEND_BUFFER_COUNT
  /\ \E e \in Threads : \/ Action(e) /\ Head(todo[e]) = d
                        \/ Forward(e) /\ dest[e] = d

LEMMA PushIsPush ==
  ASSUME TypeOK, NEW d \in Threads, NEW to, NEW m \in Messages, NEW r,
         TrySendData(to, m, r), UNCHANGED wire,
         to = d => Len(queue[d]) + 1 # MAX_SEND_BUFFER_COUNT,
         Len(queue[d]) < MAX_SEND_BUFFER_COUNT
  PROVE  Line(d)!Push(m) \/ UNCHANGED Line(d)!vars
<1>1. d \in Devices
  BY ThreadsAreDevices
<1>2. CASE to # d
  <2>1. queue'[d] = queue[d]
    BY <1>1, <1>2 DEF TrySendData, TypeOK
  <2> QED
    BY <2>1 DEF Line!vars
<1>3. CASE to = d
  <2>1. queue'[d] = Append(queue[d], m)
    BY <1>1, <1>3 DEF TrySendData, TypeOK
  <2>2. Len(queue[d]) \in Nat /\ MAX_SEND_BUFFER_COUNT \in Nat
    BY <1>1, ProxyAssumption DEF TypeOK
  <2>3. Len(queue[d]) < MAX_SEND_BUFFER_COUNT - 1
    BY <1>3, <2>2
  <2> QED
    BY <2>1, <2>3 DEF Line!Push
<1> QED
  BY <1>2, <1>3

\* What fits into a ring of which one slot is always spare.
RingsFit == \A d \in Devices : Len(queue[d]) < MAX_SEND_BUFFER_COUNT

LEMMA LengthOfAppend ==
  ASSUME NEW S, NEW q \in Seq(S), NEW m
  PROVE  /\ Len(q) \in Nat
         /\ Len(Append(q, m)) = Len(q) + 1
         /\ q # <<>> => Len(Tail(q)) = Len(q) - 1 /\ Len(q) > 0
OBVIOUS

\* One call of try_send_data keeps every ring within its slots.
LEMMA TrySendFits ==
  ASSUME TypeOK, RingsFit, NEW to, NEW m \in Messages, NEW r, TrySendData(to, m, r)
  PROVE  RingsFit'
<1> SUFFICES ASSUME NEW d \in Devices PROVE Len(queue'[d]) < MAX_SEND_BUFFER_COUNT
  BY DEF RingsFit
<1>1. queue[d] \in Seq(Messages) /\ MAX_SEND_BUFFER_COUNT \in Nat \ {0, 1}
  BY ProxyAssumption DEF TypeOK
<1>2. Len(queue[d]) < MAX_SEND_BUFFER_COUNT
  BY DEF RingsFit
<1>3. CASE to \notin Devices \/ to # d
  <2>1. queue'[d] = queue[d]
    BY <1>3 DEF TrySendData, TypeOK
  <2> QED
    BY <1>2, <2>1
<1>4. CASE to = d
  <2>1. queue'[d] = IF Len(queue[d]) + 1 = MAX_SEND_BUFFER_COUNT THEN <<>>
                    ELSE Append(queue[d], m)
    BY <1>4 DEF TrySendData, TypeOK
  <2>2. Len(queue[d]) \in Nat /\ Len(Append(queue[d], m)) = Len(queue[d]) + 1
    BY <1>1, LengthOfAppend
  <2>3. Len(<<>>) = 0
    OBVIOUS
  <2> QED
    BY <1>1, <1>2, <2>1, <2>2, <2>3
<1> QED
  BY <1>3, <1>4

\* What a step does to the queues: nothing, one push, or one thread's pop.
LEMMA QueueStepKinds ==
  ASSUME TypeOK, [Next]_vars
  PROVE  \/ UNCHANGED <<queue, wire>>
         \/ \E e \in Threads : Action(e) \/ Forward(e) \/ Pop(e)
<1>1. CASE UNCHANGED vars
  BY <1>1 DEF vars, queueVars, lineVars
<1>2. ASSUME NEW e \in Threads, ThreadStep(e) \/ Outside(e)
      PROVE  UNCHANGED <<queue, wire>> \/ Action(e) \/ Forward(e) \/ Pop(e)
  BY <1>2 DEF ThreadStep, Outside, Connect, Disconnect, Receive, Idle, NotifyCommand,
              NotifyReply, SendNothing, SendOk, SendShort, queueVars, lineVars
<1> QED
  BY <1>1, <1>2 DEF Next

LEMMA NextRingsFit == IInv /\ RingsFit /\ [Next]_vars => RingsFit'
<1> SUFFICES ASSUME TypeOK, ThreadInv, RingsFit, [Next]_vars PROVE RingsFit'
  BY DEF IInv
<1>1. CASE UNCHANGED <<queue, wire>>
  BY <1>1 DEF RingsFit
<1>2. ASSUME NEW e \in Threads, Action(e) PROVE RingsFit'
  <2> DEFINE r  == Routes[router[e]]
             to == Head(todo[e])
             m  == Msg(Encode(r.cmd, to), e, router[e], 0)
  <2>1. m \in Messages /\ TrySendData(to, m, GetDeviceInfo(r.reply))
    BY <1>2, ActionPush
  <2> HIDE DEF m, to
  <2> QED
    BY <2>1, TrySendFits
<1>3. ASSUME NEW e \in Threads, Forward(e) PROVE RingsFit'
  <2>1. buf[e] \in Messages /\ TrySendData(dest[e], buf[e], NoDevice)
    BY <1>3 DEF Forward, TypeOK
  <2> QED
    BY <2>1, TrySendFits
<1>4. ASSUME NEW e \in Threads, Pop(e) PROVE RingsFit'
  <2> SUFFICES ASSUME NEW d \in Devices PROVE Len(queue'[d]) < MAX_SEND_BUFFER_COUNT
    BY DEF RingsFit
  <2>1. /\ queue[d] \in Seq(Messages) /\ MAX_SEND_BUFFER_COUNT \in Nat
        /\ Len(queue[d]) < MAX_SEND_BUFFER_COUNT
    BY ProxyAssumption DEF TypeOK, RingsFit
  <2>2. queue'[d] = queue[d] \/ (queue[d] # <<>> /\ queue'[d] = Tail(queue[d]))
    BY <1>4 DEF Pop, TypeOK
  <2>3. Len(queue[d]) \in Nat /\ (queue[d] # <<>> => Len(Tail(queue[d])) = Len(queue[d]) - 1)
    BY <2>1, LengthOfAppend
  <2>4. PICK n \in Nat : n = Len(queue[d])
    BY <2>3
  <2>5. n < MAX_SEND_BUFFER_COUNT /\ n - 1 < MAX_SEND_BUFFER_COUNT
    BY <2>1, <2>4
  <2>6. Len(queue'[d]) = n \/ Len(queue'[d]) = n - 1
    BY <2>2, <2>3, <2>4
  <2> QED
    BY <2>5, <2>6
<1> QED
  BY <1>1, <1>2, <1>3, <1>4, QueueStepKinds

(* As long as the ring of a device is not overrun, its queue and line are a  *)
(* Fifo, whatever the threads of all devices do at the same time and however *)
(* many rings of other devices are overrun: what try_send_data is given for  *)
(* the device is written to it in that order, nothing lost and nothing       *)
(* twice.                                                                    *)
THEOREM LineIsFifo ==
  ASSUME NEW d \in Threads
  PROVE  Spec /\ [][~Overruns(d)]_vars => Line(d)!Spec
<1>1. Init => IInv /\ RingsFit
  <2>1. Len(<<>>) = 0
    OBVIOUS
  <2>2. Init => RingsFit
    BY <2>1, ProxyAssumption DEF Init, RingsFit
  <2> QED
    BY <2>2, InitIInv
<1>2. IInv /\ RingsFit /\ [Next]_vars => IInv' /\ RingsFit'
  BY NextRingsFit, NextTypeOK, NextThreadInv, NextQueues DEF IInv
<1>3. Init => Line(d)!Init
  BY ThreadsAreDevices DEF Init, Line!Init
<1>4. IInv /\ RingsFit /\ [Next]_vars /\ [~Overruns(d)]_vars
        => [Line(d)!Next]_(Line(d)!vars)
  <2> SUFFICES ASSUME TypeOK, ThreadInv, RingsFit, [Next]_vars, [~Overruns(d)]_vars
               PROVE  [Line(d)!Next]_(Line(d)!vars)
    BY DEF IInv
  <2>1. d \in Devices /\ Len(queue[d]) < MAX_SEND_BUFFER_COUNT
    BY ThreadsAreDevices DEF RingsFit
  <2>2. CASE UNCHANGED vars
    BY <2>2 DEF vars, queueVars, lineVars, Line!vars
  <2>3. CASE UNCHANGED <<queue, wire>>
    BY <2>3 DEF Line!vars
  <2>4. ASSUME NEW e \in Threads, Action(e), ~Overruns(d)
        PROVE  [Line(d)!Next]_(Line(d)!vars)
    <3> DEFINE r  == Routes[router[e]]
               to == Head(todo[e])
               m  == Msg(Encode(r.cmd, to), e, router[e], 0)
    <3>1. m \in Messages /\ TrySendData(to, m, GetDeviceInfo(r.reply))
      BY <2>4, ActionPush
    <3>2. UNCHANGED wire /\ (to = d => Len(queue[d]) + 1 # MAX_SEND_BUFFER_COUNT)
      BY <2>4 DEF Overruns, Action, lineVars
    <3> HIDE DEF m, to
    <3>3. Line(d)!Push(m) \/ UNCHANGED Line(d)!vars
      BY <2>1, <3>1, <3>2, PushIsPush
    <3> QED
      BY <3>1, <3>3 DEF Line!Next
  <2>5. ASSUME NEW e \in Threads, Forward(e), ~Overruns(d)
        PROVE  [Line(d)!Next]_(Line(d)!vars)
    <3>1. buf[e] \in Messages /\ TrySendData(dest[e], buf[e], NoDevice)
      BY <2>5 DEF Forward, TypeOK
    <3>2. UNCHANGED wire /\ (dest[e] = d => Len(queue[d]) + 1 # MAX_SEND_BUFFER_COUNT)
      BY <2>5 DEF Overruns, Forward, lineVars
    <3>3. Line(d)!Push(buf[e]) \/ UNCHANGED Line(d)!vars
      BY <2>1, <3>1, <3>2, PushIsPush
    <3> QED
      BY <3>1, <3>3 DEF Line!Next
  <2>6. ASSUME NEW e \in Threads, Pop(e) PROVE [Line(d)!Next]_(Line(d)!vars)
    <3>1. CASE e = d
      <4>1. /\ queue[d] # <<>>
            /\ queue'[d] = Tail(queue[d]) /\ wire'[d] = Head(queue[d])
        BY <2>1, <2>6, <3>1 DEF Pop, TypeOK
      <4> QED
        BY <4>1 DEF Line!Next, Line!Deliver
    <3>2. CASE e # d
      <4>1. queue'[d] = queue[d] /\ wire'[d] = wire[d]
        BY <2>1, <2>6, <3>2 DEF Pop, TypeOK
      <4> QED
        BY <4>1 DEF Line!vars
    <3> QED
      BY <3>1, <3>2
  <2> QED
    BY <2>2, <2>3, <2>4, <2>5, <2>6, QueueStepKinds
<1> QED
  BY <1>1, <1>2, <1>3, <1>4, PTL DEF Spec, Line!Spec

------------------------------------------------------------------------------
(* Each device's thread is a DeviceLoop, as SockClient and SerialPort are.   *)

\* While it is in the router a thread is still receiving, or, with the report
\* of a failed write, done with its turn.
TurnOf(d) ==
  IF pc[d] = "recv" \/ (pc[d] # "send" /\ buf[d].text = SendFail)
  THEN "receive" ELSE "send"

AsLoop(d) == INSTANCE DeviceLoop WITH up <- up[d], turn <- TurnOf(d),
                                      waiting <- Len(queue[d])

\* A device's thread as its own steps leave it alone.
Left(d) == up'[d] = up[d] /\ TurnOf(d)' = TurnOf(d)

\* A call of try_send_data, by whatever thread and for whatever device, is for
\* each device one message more, all of them lost, or nothing.
LEMMA TrySendIsPush ==
  ASSUME TypeOK, NEW d \in Threads, Left(d),
         NEW to, NEW m \in Messages, NEW r, TrySendData(to, m, r)
  PROVE  AsLoop(d)!Push \/ AsLoop(d)!Overflow \/ UNCHANGED AsLoop(d)!vars
<1>1. d \in Devices /\ queue[d] \in Seq(Messages)
  BY ThreadsAreDevices DEF TypeOK
<1>2. \/ queue'[d] = queue[d] \/ queue'[d] = <<>> \/ queue'[d] = Append(queue[d], m)
  BY <1>1 DEF TrySendData, TypeOK
<1>3. Len(Append(queue[d], m)) = Len(queue[d]) + 1
  BY <1>1, LengthOfAppend
<1>4. Len(<<>>) = 0
  OBVIOUS
<1>5. \/ Len(queue'[d]) = Len(queue[d]) \/ Len(queue'[d]) = 0
      \/ Len(queue'[d]) = Len(queue[d]) + 1
  BY <1>2, <1>3, <1>4
<1> QED
  BY <1>5 DEF Left, AsLoop!Push, AsLoop!Overflow, AsLoop!vars

\* The steps of another thread, and those in the router of its own.
LEMMA OthersLeave ==
  ASSUME TypeOK, NEW d \in Threads, NEW e \in Threads, e # d,
         ThreadStep(e) \/ Outside(e)
  PROVE  Left(d)
<1>1. up'[d] = up[d] /\ pc'[d] = pc[d] /\ buf'[d] = buf[d]
  BY DEF ThreadStep, Outside, Connect, Disconnect, Receive, Idle, NotifyCommand, NotifyReply,
         Action, Forward, SendNothing, SendOk, SendShort, Pop, threadVars, queueVars, lineVars,
         TypeOK
<1> QED
  BY <1>1 DEF Left, TurnOf

LEMMA RouterLeaves ==
  ASSUME TypeOK, NEW d \in Threads,
         NotifyCommand(d) \/ NotifyReply(d) \/ Action(d) \/ Forward(d)
  PROVE  Left(d)
<1>1. up' = up /\ buf' = buf /\ pc[d] \in {"notify", "action", "forward"}
  BY DEF NotifyCommand, NotifyReply, Action, Forward, lineVars
<1>2. pc'[d] \in {"action", "forward", ReturnTo(d)}
  BY DEF NotifyCommand, NotifyReply, Action, Forward, TypeOK
<1> QED
  BY <1>1, <1>2 DEF Left, TurnOf, ReturnTo


\* What the router does, in whatever thread, to the queue of a device whose
\* thread it leaves where it is.
LEMMA RouterPushes ==
  ASSUME TypeOK, ThreadInv, NEW d \in Threads, NEW e \in Threads, Left(d),
         Action(e) \/ Forward(e)
  PROVE  AsLoop(d)!Push \/ AsLoop(d)!Overflow \/ UNCHANGED AsLoop(d)!vars
<1>1. CASE Action(e)
  <2> DEFINE r  == Routes[router[e]]
             to == Head(todo[e])
             m  == Msg(Encode(r.cmd, to), e, router[e], 0)
  <2>1. m \in Messages /\ TrySendData(to, m, GetDeviceInfo(r.reply))
    BY <1>1, ActionPush
  <2> HIDE DEF m, to
  <2> QED
    BY <2>1, TrySendIsPush
<1>2. CASE Forward(e)
  <2>1. buf[e] \in Messages /\ TrySendData(dest[e], buf[e], NoDevice)
    BY <1>2 DEF Forward, TypeOK
  <2> QED
    BY <2>1, TrySendIsPush
<1> QED
  BY <1>1, <1>2

\* The steps of a thread that are none of its router.
LEMMA OwnStep ==
  ASSUME TypeOK, NEW d \in Threads,
         \/ Connect(d) \/ Disconnect(d) \/ Receive(d) \/ Idle(d)
         \/ SendNothing(d) \/ SendOk(d) \/ SendShort(d)
  PROVE  AsLoop(d)!Next
<1>1. /\ up[d] \in BOOLEAN /\ d \in Devices /\ queue[d] \in Seq(Messages)
      /\ DOMAIN up = Threads /\ DOMAIN pc = Threads /\ DOMAIN buf = Threads
      /\ DOMAIN queue = Devices
  BY ThreadsAreDevices DEF TypeOK
<1>2. CASE Connect(d) \/ Disconnect(d)
  <2>1. /\ pc[d] = "recv" /\ pc' = pc /\ buf' = buf /\ queue' = queue
        /\ up'[d] = ~up[d]
    BY <1>1, <1>2, Zenon DEF Connect, Disconnect, threadVars, queueVars
  <2>2. TurnOf(d) = "receive" /\ TurnOf(d)' = "receive"
    BY <2>1 DEF TurnOf
  <2> QED
    BY <1>1, <2>1, <2>2 DEF AsLoop!Next, AsLoop!Connect, AsLoop!Disconnect
<1>3. CASE Receive(d) \/ Idle(d)
  <2>1. /\ pc[d] = "recv" /\ up[d] = TRUE /\ up' = up /\ queue' = queue
        /\ \/ pc'[d] = "send"
           \/ pc'[d] = "notify" /\ buf'[d] \in Incoming(d)
    BY <1>1, <1>3 DEF Receive, Idle, queueVars, lineVars
  <2>2. \A m \in Incoming(d) : m.text # SendFail
    BY ProxyAssumption DEF Incoming, Msg
  <2>3. TurnOf(d) = "receive" /\ TurnOf(d)' = "send"
    BY <2>1, <2>2 DEF TurnOf
  <2> QED
    BY <2>1, <2>3 DEF AsLoop!Next, AsLoop!Receive
<1>4. CASE SendNothing(d)
  <2>1. /\ pc[d] = "send" /\ pc'[d] = "recv" /\ up' = up
        /\ queue[d] = <<>> /\ queue' = queue
    BY <1>1, <1>4 DEF SendNothing, queueVars, lineVars
  <2>2. TurnOf(d) = "send" /\ TurnOf(d)' = "receive"
    BY <2>1 DEF TurnOf
  <2>3. Len(<<>>) = 0
    OBVIOUS
  <2> QED
    BY <2>1, <2>2, <2>3 DEF AsLoop!Next, AsLoop!Send
<1>5. CASE SendOk(d) \/ SendShort(d)
  <2>1. /\ pc[d] = "send" /\ up' = up
        /\ queue[d] # <<>> /\ queue'[d] = Tail(queue[d])
        /\ \/ pc'[d] = "recv"
           \/ pc'[d] = "notify" /\ buf'[d].text = SendFail
    BY <1>1, <1>5 DEF SendOk, SendShort, Pop, Msg
  <2>2. TurnOf(d) = "send" /\ TurnOf(d)' = "receive"
    BY <2>1 DEF TurnOf
  <2>3. Len(queue[d]) # 0 /\ Len(queue'[d]) = Len(queue[d]) - 1
    BY <1>1, <2>1, LengthOfAppend
  <2> QED
    BY <2>1, <2>2, <2>3 DEF AsLoop!Next, AsLoop!Send
<1> QED
  BY <1>2, <1>3, <1>4, <1>5

(* In every configuration the thread of each device is a DeviceLoop, whatever *)
(* the router does in all threads at once: the report of a failed write does  *)
(* not cost the thread a receive or give it a second send, and what others    *)
(* route to it, or it to itself, only adds to what waits or overflows.        *)
THEOREM ThreadIsLoop ==
  ASSUME NEW d \in Threads
  PROVE  Spec => AsLoop(d)!Spec
<1>1. Init => AsLoop(d)!Init
  <2>1. Len(<<>>) = 0
    OBVIOUS
  <2> QED
    BY <2>1, ThreadsAreDevices DEF Init, TurnOf, AsLoop!Init
<1>2. IInv /\ [Next]_vars => [AsLoop(d)!Next]_(AsLoop(d)!vars)
  <2> SUFFICES ASSUME TypeOK, ThreadInv, [Next]_vars
               PROVE  AsLoop(d)!Next \/ UNCHANGED AsLoop(d)!vars
    BY DEF IInv
  <2>1. CASE UNCHANGED vars
    BY <2>1 DEF vars, threadVars, queueVars, lineVars, TurnOf, AsLoop!vars
  <2>2. ASSUME NEW e \in Threads, Action(e) \/ Forward(e), Left(d)
        PROVE  AsLoop(d)!Next \/ UNCHANGED AsLoop(d)!vars
    BY <2>2, RouterPushes DEF AsLoop!Next
  <2>3. ASSUME queue'[d] = queue[d], Left(d)
        PROVE  UNCHANGED AsLoop(d)!vars
    BY <2>3 DEF Left, AsLoop!vars
  <2>4. ASSUME NEW e \in Threads, e # d, ThreadStep(e) \/ Outside(e)
        PROVE  AsLoop(d)!Next \/ UNCHANGED AsLoop(d)!vars
    <3>1. Left(d)
      BY <2>4, OthersLeave
    <3>2. CASE UNCHANGED queue
      BY <2>3, <3>1, <3>2
    <3>3. CASE Action(e) \/ Forward(e)
      BY <2>2, <3>1, <3>3
    <3>4. CASE Pop(e)
      <4>1. queue'[d] = queue[d]
        BY <2>4, <3>4, ThreadsAreDevices DEF Pop, TypeOK
      <4> QED
        BY <2>3, <3>1, <4>1
    <3> QED
      BY <2>4, <3>2, <3>3, <3>4 DEF ThreadStep, Outside, Connect, Disconnect, Receive, Idle,
         NotifyCommand, NotifyReply, SendNothing, SendOk, SendShort, queueVars, lineVars
  <2>5. ASSUME ThreadStep(d) \/ Outside(d)
        PROVE  AsLoop(d)!Next \/ UNCHANGED AsLoop(d)!vars
    <3>1. CASE NotifyCommand(d) \/ NotifyReply(d)
      <4>1. queue' = queue /\ Left(d)
        BY <3>1, RouterLeaves DEF NotifyCommand, NotifyReply, queueVars
      <4> QED
        BY <2>3, <4>1
    <3>2. CASE Action(d) \/ Forward(d)
      BY <2>2, <3>2, RouterLeaves
    <3>3. CASE \/ Connect(d) \/ Disconnect(d) \/ Receive(d) \/ Idle(d)
               \/ SendNothing(d) \/ SendOk(d) \/ SendShort(d)
      BY <3>3, OwnStep
    <3> QED
      BY <2>5, <3>1, <3>2, <3>3 DEF ThreadStep, Outside
  <2> QED
    BY <2>1, <2>4, <2>5 DEF Next
<1> QED
  BY <1>1, <1>2, Inductive, PTL DEF Spec, AsLoop!Spec

==============================================================================
