----------------------------- MODULE DeviceLoop -----------------------------
(***************************************************************************)
(* What the thread of a device is to the rest of the program, be it a      *)
(* socket or a serial port: it receives only while it is connected, gives  *)
(* its send queue one look after each receive and writes at most one       *)
(* message then; what others queue waits through any number of lost        *)
(* connections, unless the ring overflows.  SockClient and SerialPort      *)
(* implement this for one device, Proxy for every device at once.          *)
(***************************************************************************)
EXTENDS Naturals

VARIABLES
  up,       \* it counts as connected
  turn,     \* "receive" or "send": what it does next
  waiting   \* how many messages wait in its queue

vars == <<up, turn, waiting>>

Init == up = FALSE /\ turn = "receive" /\ waiting = 0

\* A connection comes, or goes; the queue is not looked at in between.
Connect ==
  /\ turn = "receive" /\ up = FALSE
  /\ up' = TRUE
  /\ UNCHANGED <<turn, waiting>>

Disconnect ==
  /\ turn = "receive" /\ up = TRUE
  /\ up' = FALSE
  /\ UNCHANGED <<turn, waiting>>

\* A receive ends, with data or without, and the router is done with the data.
Receive ==
  /\ turn = "receive" /\ up = TRUE
  /\ turn' = "send"
  /\ UNCHANGED <<up, waiting>>

\* One look at the queue: one message is written, if there is one.
Send ==
  /\ turn = "send"
  /\ turn' = "receive"
  /\ waiting' = IF waiting = 0 THEN 0 ELSE waiting - 1
  /\ UNCHANGED up

\* Some thread, be it this one, queues a message; or the ring overflows.
Push ==
  /\ waiting' = waiting + 1
  /\ UNCHANGED <<up, turn>>

Overflow ==
  /\ waiting' = 0
  /\ UNCHANGED <<up, turn>>

Next == Connect \/ Disconnect \/ Receive \/ Send \/ Push \/ Overflow

Spec == Init /\ [][Next]_vars
=============================================================================
