-------------------------------- MODULE Proxy --------------------------------
(***************************************************************************)
(* The proxy at work: one thread per device (tcpSocketClientThread in      *)
(* sock.c, SerialPortThread in uart.c) receives, hands what it received to *)
(* notify_data_recv (main.c) on its own stack, and then sends at most one  *)
(* message from its own send queue.  The router in notify_data_recv is the *)
(* only way from one device to another: it pushes commands onto the queues *)
(* of their targets, and everything else onto the queue of the device that *)
(* the sender's queue names as ReplyDevice.                                *)
(*                                                                         *)
(* One call of try_send_data is one step here, and so are the pop and the  *)
(* write of check_and_send_data: module SendQueue takes them apart.        *)
(***************************************************************************)
EXTENDS Integers, Sequences, Functions

CONSTANTS
  Names,                  \* every device name in the configuration file
  Devices,                \* the names under DEVICES
  Threads,                \* those whose thread runs its loop (no SockServer)
  Sockets,                \* those of them that are SockClient
  Commands,               \* the names under CMDROUTE
  Routes,                 \* CMDROUTE: a sequence of [cmd, from, to, reply]
  Readers,                \* devices whose name begins with SGRFID
  ReadCommands,           \* commands that begin with READ
  ReadFrame,              \* send_rfid_cmd_read_40
  Data,                   \* anything a device may send that is no command
  SendFail,               \* "ERR:SENDFAIL#", as check_and_send_data reports it
  NoDevice,               \* the NULL device
  MAX_SEND_BUFFER_COUNT,  \* slots of each device's ring
  MaxInputs               \* bound: inputs and disconnections from outside

RouteIds == 1 .. Len(Routes)
Texts    == Commands \cup {ReadFrame, Data, SendFail}

ASSUME ProxyAssumption ==
  /\ Sockets \subseteq Threads /\ Threads \subseteq Devices /\ Devices \subseteq Names
  /\ NoDevice \notin Names
  /\ Routes \in Seq([cmd : Commands, from : Names, to : Seq(Names), reply : Names])
  /\ {Data, SendFail} \cap Commands = {} /\ Data # SendFail
  /\ MAX_SEND_BUFFER_COUNT \in Nat \ {0, 1}
  /\ MaxInputs \in Nat

(* A buffer on its way: its text, and as history the device it came from,   *)
(* the route it was sent under (asks) and the route whose command it is the *)
(* answer to or failed to send (answers); 0 stands for no route.            *)
Messages == [text : Texts, origin : Devices,
             asks : 0 .. Len(Routes), answers : 0 .. Len(Routes)]

VARIABLES
  up,        \* Connected, as the device's thread sees it
  pc,        \* where each thread is in its loop or in notify_data_recv
  buf,       \* the buffer it is handing to notify_data_recv
  router,    \* router: the route of the command it is carrying out
  todo,      \* item_to: targets of the command not served yet
  dest,      \* reply_device, between reading it and sending to it
  queue,     \* SendQueue: the messages between PopIndex and PushIndex
  reply,     \* SendQueue.ReplyDevice
  lastSend,  \* whether LastSendQueue is set
  wire,      \* the message last given to write()
  asked,     \* external: routes whose command the device has been sent
  crashed,   \* the process has dereferenced NULL
  inputs     \* inputs and disconnections so far

threadVars == <<pc, buf, router, todo, dest, lastSend>>
queueVars  == <<queue, reply, crashed>>
lineVars   == <<up, wire, asked, inputs>>
vars       == <<threadVars, queueVars, lineVars>>

Msg(t, d, i, j) == [text |-> t, origin |-> d, asks |-> i, answers |-> j]

NoMsg(d) == Msg(Data, d, 0, 0)

Init ==
  /\ up = [d \in Threads |-> FALSE]
  /\ pc = [d \in Threads |-> "recv"]
  /\ buf = [d \in Threads |-> NoMsg(d)]
  /\ router = [d \in Threads |-> 0]
  /\ todo = [d \in Threads |-> <<>>]
  /\ dest = [d \in Threads |-> NoDevice]
  /\ queue = [d \in Devices |-> <<>>]
  /\ reply = [d \in Devices |-> NoDevice]
  /\ lastSend = [d \in Threads |-> FALSE]
  /\ wire = [d \in Threads |-> NoMsg(d)]
  /\ asked = [d \in Threads |-> {}]
  /\ crashed = FALSE
  /\ inputs = 0

------------------------------------------------------------------------------
(* Helpers of the router.                                                  *)

\* Fault: a lookup that does not end with NULL.
GetDeviceInfoUnchecked(name) == name

\* get_device_info: NULL for a name that is no device's.
GetDeviceInfo(name) == IF name \in Devices THEN name ELSE NoDevice

\* Fault: a command counts whoever sends it.
MatchingAnySender(d, t) == {i \in RouteIds : Routes[i].cmd = t}

\* The routes whose from and cmd both match what the device has sent: at
\* least as long as the command, and the same over all it has received, so a
\* text (which holds no NUL) is the exact command.
Matching(d, t) == {i \in RouteIds : Routes[i].from = d /\ Routes[i].cmd = t}

\* The walk along the router list stops at the first of them.
IsFirstMatch(i, d, t) ==
  /\ i \in Matching(d, t)
  /\ \A j \in Matching(d, t) : i <= j

\* do_command_action: READ* goes to an SGRFID reader as its binary frame.
Encode(cmd, to) ==
  IF to \in Readers /\ cmd \in ReadCommands THEN ReadFrame ELSE cmd

\* Where the thread goes on when notify_data_recv returns: a report made by
\* check_and_send_data ends the turn, received data is followed by a send.
ReturnTo(d) == IF buf[d].text = SendFail THEN "recv" ELSE "send"

(* try_send_data: a NULL target is dereferenced; a ring that would become   *)
(* full has equal indices and looks empty.                                  *)
TrySendData(to, m, replyTo) ==
  IF to \notin Devices
  THEN /\ crashed' = TRUE
       /\ UNCHANGED <<queue, reply>>
  ELSE /\ queue' = [queue EXCEPT ![to] =
                      IF Len(@) + 1 = MAX_SEND_BUFFER_COUNT THEN <<>>
                      ELSE Append(@, m)]
       /\ reply' = [reply EXCEPT ![to] = replyTo]
       /\ UNCHANGED crashed

------------------------------------------------------------------------------
(* The loop of a device thread.                                            *)

\* connect() succeeds, or the serial port is open.
Connect(d) ==
  /\ pc[d] = "recv" /\ ~up[d]
  /\ up' = [up EXCEPT ![d] = TRUE]
  /\ UNCHANGED <<threadVars, queueVars, wire, asked, inputs>>

\* recv() returns 0: the thread starts over without a look at its queue.
Disconnect(d) ==
  /\ d \in Sockets
  /\ pc[d] = "recv" /\ up[d]
  /\ inputs < MaxInputs
  /\ inputs' = inputs + 1
  /\ up' = [up EXCEPT ![d] = FALSE]
  /\ UNCHANGED <<threadVars, queueVars, wire, asked>>

\* What a device may send next: any text at any time, or the answer to a
\* command it has been sent, however late and in whatever order.
Incoming(d) ==
  {Msg(t, d, 0, 0) : t \in Commands \cup {Data}}
    \cup {Msg(Data, d, 0, i) : i \in asked[d]}

\* recv() or read() returns data, which ProcessRecv hands to the callback.
Receive(d) ==
  /\ pc[d] = "recv" /\ up[d]
  /\ inputs < MaxInputs
  /\ inputs' = inputs + 1
  /\ \E m \in Incoming(d) : buf' = [buf EXCEPT ![d] = m]
  /\ pc' = [pc EXCEPT ![d] = "notify"]
  /\ UNCHANGED <<router, todo, dest, lastSend, queueVars, up, wire, asked>>

\* It times out, or nothing is left once the invalid tail is cut off.
Idle(d) ==
  /\ pc[d] = "recv" /\ up[d]
  /\ pc' = [pc EXCEPT ![d] = "send"]
  /\ UNCHANGED <<buf, router, todo, dest, lastSend, queueVars, lineVars>>

\* notify_data_recv finds a route: it turns to the route's targets.
NotifyCommand(d) ==
  /\ pc[d] = "notify"
  /\ \E i \in RouteIds :
       /\ IsFirstMatch(i, d, buf[d].text)
       /\ router' = [router EXCEPT ![d] = i]
       /\ todo' = [todo EXCEPT ![d] = Routes[i].to]
       /\ pc' = [pc EXCEPT ![d] =
                   IF Routes[i].to = <<>> THEN ReturnTo(d) ELSE "action"]
  /\ UNCHANGED <<buf, dest, lastSend, queueVars, lineVars>>

\* Fault: the reply device is not compared with NULL.
NotifyReplyUnchecked(d) ==
  /\ pc[d] = "notify"
  /\ Matching(d, buf[d].text) = {}
  /\ dest' = [dest EXCEPT ![d] = IF lastSend[d] THEN reply[d] ELSE NoDevice]
  /\ pc' = [pc EXCEPT ![d] = IF lastSend[d] THEN "forward" ELSE ReturnTo(d)]
  /\ UNCHANGED <<buf, router, todo, lastSend, queueVars, lineVars>>

\* It finds none: it reads, without the lock, whom the sender's queue replies to.
NotifyReply(d) ==
  /\ pc[d] = "notify"
  /\ Matching(d, buf[d].text) = {}
  /\ LET known == lastSend[d] /\ reply[d] # NoDevice
     IN  /\ dest' = [dest EXCEPT ![d] = IF known THEN reply[d] ELSE NoDevice]
         /\ pc' = [pc EXCEPT ![d] = IF known THEN "forward" ELSE ReturnTo(d)]
  /\ UNCHANGED <<buf, router, todo, lastSend, queueVars, lineVars>>

\* Faults: return after the first target; from passed as reply.
ActionFirstOnly(d) ==
  /\ pc[d] = "action"
  /\ LET r == Routes[router[d]]
         to == Head(todo[d])
     IN  TrySendData(to, Msg(Encode(r.cmd, to), d, router[d], 0),
                     GetDeviceInfo(r.reply))
  /\ todo' = [todo EXCEPT ![d] = Tail(@)]
  /\ pc' = [pc EXCEPT ![d] = ReturnTo(d)]
  /\ UNCHANGED <<buf, router, dest, lastSend, lineVars>>

ActionReplyFrom(d) ==
  /\ pc[d] = "action"
  /\ LET r == Routes[router[d]]
         to == Head(todo[d])
     IN  TrySendData(to, Msg(Encode(r.cmd, to), d, router[d], 0),
                     GetDeviceInfo(r.from))
  /\ todo' = [todo EXCEPT ![d] = Tail(@)]
  /\ pc' = [pc EXCEPT ![d] = IF Tail(todo[d]) = <<>> THEN ReturnTo(d) ELSE "action"]
  /\ UNCHANGED <<buf, router, dest, lastSend, lineVars>>

\* do_command_action for the next target.
Action(d) ==
  /\ pc[d] = "action"
  /\ LET r == Routes[router[d]]
         to == Head(todo[d])
     IN  TrySendData(to, Msg(Encode(r.cmd, to), d, router[d], 0),
                     GetDeviceInfo(r.reply))
  /\ todo' = [todo EXCEPT ![d] = Tail(@)]
  /\ pc' = [pc EXCEPT ![d] = IF Tail(todo[d]) = <<>> THEN ReturnTo(d) ELSE "action"]
  /\ UNCHANGED <<buf, router, dest, lastSend, lineVars>>

\* Fault: the forwarding device passed as reply.
ForwardWithReply(d) ==
  /\ pc[d] = "forward"
  /\ TrySendData(dest[d], buf[d], d)
  /\ pc' = [pc EXCEPT ![d] = ReturnTo(d)]
  /\ UNCHANGED <<buf, router, todo, dest, lastSend, lineVars>>

\* try_send_to_data: no reply is expected to what is forwarded.
Forward(d) ==
  /\ pc[d] = "forward"
  /\ TrySendData(dest[d], buf[d], NoDevice)
  /\ pc' = [pc EXCEPT ![d] = ReturnTo(d)]
  /\ UNCHANGED <<buf, router, todo, dest, lastSend, lineVars>>

\* check_and_send_data with nothing to send.
SendNothing(d) ==
  /\ pc[d] = "send"
  /\ queue[d] = <<>>
  /\ pc' = [pc EXCEPT ![d] = "recv"]
  /\ UNCHANGED <<buf, router, todo, dest, lastSend, queueVars, lineVars>>

\* Fault: LastSendQueue is not set.
PopUnrecorded(d) ==
  /\ pc[d] = "send"
  /\ queue[d] # <<>>
  /\ queue' = [queue EXCEPT ![d] = Tail(@)]
  /\ wire' = [wire EXCEPT ![d] = Head(queue[d])]
  /\ UNCHANGED <<router, todo, dest, lastSend, reply, crashed, up, inputs>>

\* check_and_send_data pops the oldest message and gives it to write().
Pop(d) ==
  /\ pc[d] = "send"
  /\ queue[d] # <<>>
  /\ queue' = [queue EXCEPT ![d] = Tail(@)]
  /\ wire' = [wire EXCEPT ![d] = Head(queue[d])]
  /\ lastSend' = [lastSend EXCEPT ![d] = TRUE]
  /\ UNCHANGED <<router, todo, dest, reply, crashed, up, inputs>>

SendOk(d) ==
  /\ Pop(d)
  /\ asked' = [asked EXCEPT ![d] = @ \cup ({Head(queue[d]).asks} \ {0})]
  /\ pc' = [pc EXCEPT ![d] = "recv"]
  /\ UNCHANGED buf

\* write() falls short: the router is told, in the device's own name.
SendShort(d) ==
  /\ Pop(d)
  /\ buf' = [buf EXCEPT ![d] = Msg(SendFail, d, 0, Head(queue[d]).asks)]
  /\ pc' = [pc EXCEPT ![d] = "notify"]
  /\ UNCHANGED asked

------------------------------------------------------------------------------
ThreadStep(d) ==
  \/ Connect(d) \/ Idle(d)
  \/ NotifyCommand(d) \/ NotifyReply(d) \/ Action(d) \/ Forward(d)
  \/ SendNothing(d) \/ SendOk(d) \/ SendShort(d)

Outside(d) == Receive(d) \/ Disconnect(d)

Next == ~crashed /\ \E d \in Threads : ThreadStep(d) \/ Outside(d)

Spec == Init /\ [][Next]_vars

(* A thread keeps turning: recv() returns after half a second at the latest *)
(* (SO_RCVTIMEO; VTIME on a serial line), and a peer that has closed the    *)
(* connection accepts a new one at some time.                               *)
FairSpec == Spec /\ \A d \in Threads : WF_vars(~crashed /\ ThreadStep(d))

------------------------------------------------------------------------------
TypeOK ==
  /\ up \in [Threads -> BOOLEAN]
  /\ pc \in [Threads -> {"recv", "notify", "action", "forward", "send"}]
  /\ buf \in [Threads -> Messages]
  /\ router \in [Threads -> 0 .. Len(Routes)]
  /\ todo \in [Threads -> Seq(Names)]
  /\ dest \in [Threads -> Devices \cup {NoDevice}]
  /\ queue \in [Devices -> Seq(Messages)]
  /\ reply \in [Devices -> Devices \cup {NoDevice}]
  /\ lastSend \in [Threads -> BOOLEAN]
  /\ wire \in [Threads -> Messages]
  /\ asked \in [Threads -> SUBSET RouteIds]
  /\ crashed \in BOOLEAN
  /\ inputs \in Nat

Targets(i) == Range(Routes[i].to)

\* m is the command of a route that names d among its targets.
Commanded(m, d) ==
  \E i \in RouteIds : /\ d \in Targets(i)
                      /\ m.origin = Routes[i].from
                      /\ m.text = Encode(Routes[i].cmd, d)

\* m comes from a target of a route that names d as its reply.
RepliedTo(m, d) ==
  \E i \in RouteIds : m.origin \in Targets(i) /\ d = Routes[i].reply

(* Nothing reaches a device but what the configuration sends there: whatever*)
(* the threads do at the same time, a message in a device's queue is either *)
(* the command of a route to it, from that route's source, or comes from a  *)
(* target of a route that replies to it.                                    *)
OnlyRouted ==
  \A d \in Devices : \A m \in Range(queue[d]) : Commanded(m, d) \/ RepliedTo(m, d)

(* The process dereferences NULL only at a thread that carries out a route  *)
(* with a target that is not configured; an unknown or missing reply device *)
(* never brings it down.                                                    *)
CrashOnlyByUnknownTarget ==
  crashed => \E d \in Threads :
               router[d] # 0 /\ ~ (Targets(router[d]) \subseteq Devices)

(* What the single ReplyDevice per queue demands of the configuration: the  *)
(* routes to one target agree on the reply, and no reply device is itself a *)
(* target.                                                                  *)
Consistent ==
  \A i, j \in RouteIds :
    /\ Targets(i) \cap Targets(j) # {} => Routes[i].reply = Routes[j].reply
    /\ Routes[i].reply \notin Targets(j)

(* An answer goes back to the reply device of the command it answers, and a *)
(* failure to send goes to that of the command not sent, although commands  *)
(* of other threads may have been queued for the device in the meantime:    *)
(* when the router looks, the device's queue names that reply device (or    *)
(* none, if it is not configured), and nothing else is ever found there.    *)
AnswersReturn ==
  /\ \A d \in Threads :
       pc[d] = "notify" /\ buf[d].answers # 0 =>
         /\ lastSend[d]
         /\ reply[d] = GetDeviceInfo(Routes[buf[d].answers].reply)
  /\ \A d \in Devices : \A m \in Range(queue[d]) :
       m.answers # 0 => Routes[m.answers].reply = d

(* A command handed to the router reaches the line of each of its targets.  *)
CommandsReachTargets ==
  \A i \in RouteIds :
    \A d \in Threads \cap {Routes[i].from}, t \in Threads \cap Targets(i) :
      (pc[d] = "action" /\ router[d] = i /\ t \in Range(todo[d]))
        ~> wire[t].asks = i

(* An answer reaches the line of the device its route replies to.           *)
AnswersReachLine ==
  \A i \in RouteIds :
    \A d \in Threads \cap Targets(i), t \in Threads \cap {Routes[i].reply} :
      (pc[d] = "notify" /\ buf[d].answers = i)
        ~> (wire[t].answers = i /\ wire[t].origin = d)

(* Reports of failures do not breed: even if every write fails and devices  *)
(* are both targets and reply devices, the queues of all threads run empty  *)
(* once no input arrives any more, unless the process crashes before.       *)
ReportsDieOut ==
  <>[] (crashed \/ \A d \in Threads : queue[d] = <<>> /\ pc[d] \in {"recv", "send"})
==============================================================================
