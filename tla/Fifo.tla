-------------------------------- MODULE Fifo --------------------------------
(***************************************************************************)
(* What a device's send queue promises to the threads that use it: a       *)
(* message handed over is put on the device's line exactly once, whole,    *)
(* and in the order in which the calls were made.  SendQueue implements    *)
(* this as long as its ring is never overrun.                              *)
(***************************************************************************)
EXTENDS Naturals, Sequences

CONSTANTS
  Messages,   \* what callers hand over
  None,       \* no message
  Capacity    \* how many messages may wait at once

VARIABLES
  queue,      \* messages handed over and not yet taken by the device thread
  inflight,   \* the message the device thread is writing, or None
  wire        \* the message last written to the device, or None

vars == <<queue, inflight, wire>>

Init ==
  /\ queue = <<>>
  /\ inflight = None
  /\ wire = None

Push(m) ==
  /\ Len(queue) < Capacity
  /\ queue' = Append(queue, m)
  /\ UNCHANGED <<inflight, wire>>

Pop ==
  /\ queue # <<>>
  /\ inflight = None
  /\ inflight' = Head(queue)
  /\ queue' = Tail(queue)
  /\ UNCHANGED wire

Write ==
  /\ inflight # None
  /\ wire' = inflight
  /\ inflight' = None
  /\ UNCHANGED queue

\* Pop and Write in one: a writer between the two is not seen.
Deliver ==
  /\ queue # <<>>
  /\ inflight = None
  /\ wire' = Head(queue)
  /\ queue' = Tail(queue)
  /\ UNCHANGED inflight

Next == (\E m \in Messages : Push(m)) \/ Pop \/ Write \/ Deliver

Spec == Init /\ [][Next]_vars
=============================================================================
