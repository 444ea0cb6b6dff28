------------------------------ MODULE SendQueue ------------------------------
(***************************************************************************)
(* One device's QueueManager (common.h) at the grain of its shared-memory  *)
(* accesses: any number of threads call try_send_data (command.c) or       *)
(* process_try_send (profile.c) on it while the device's own thread runs   *)
(* check_and_send_data (profile.c).                                        *)
(*                                                                         *)
(* The spin lock covers the indices, but the device thread tests the       *)
(* indices before it takes the lock, and reads the slot it has popped      *)
(* after it has released it; nothing in the code tests for a full ring.    *)
(***************************************************************************)
EXTENDS Integers, Sequences

CONSTANTS
  MAX_SEND_BUFFER_COUNT,  \* slots of the ring (10 in common.h)
  Callers,                \* threads that hand messages to this device
  Messages,               \* the (buffer, reply) pairs they hand over
  ReplyTo,                \* ReplyTo[m]: the reply argument that goes with m
  Devices,                \* devices a reply argument may point at
  NoDevice,               \* the NULL reply
  KeepReply,              \* process_try_send: no reply argument at all
  NoData,                 \* a call with no data; a slot whose Len is 0
  Torn,                   \* a slot whose Buf and Len are being written
  None,                   \* nothing: no lock holder, no message written yet
  MaxWaiting              \* bound: a call starts with fewer messages waiting

N == MAX_SEND_BUFFER_COUNT

ASSUME SendQueueAssumption ==
  /\ N \in Nat \ {0, 1}
  /\ MaxWaiting \in Nat
  /\ KeepReply \notin Devices \cup {NoDevice}
  /\ ReplyTo \in [Messages -> Devices \cup {NoDevice, KeepReply}]
  /\ {NoData, Torn, None} \cap Messages = {}
  /\ NoData # Torn /\ NoData # None /\ Torn # None
  /\ None \notin Callers

VARIABLES
  buffer,         \* Buffer[]: the content of each slot
  pushIndex,      \* PushIndex
  popIndex,       \* PopIndex
  lock,           \* LockObject: the caller that holds it, or None
  replyDevice,    \* ReplyDevice
  lastSendQueue,  \* whether the device's LastSendQueue is set
  callerPc,       \* where each caller is in try_send_data
  sending,        \* the message of each caller's current call
  devicePc,       \* where the device thread is in check_and_send_data
  ptr,            \* its local ptr: the slot it popped last
  wire,           \* what the last write() put on the line
  wroteAll,       \* whether that write() returned the full length
  reported,       \* whether the last round reported ERR:SENDFAIL#
  unsent          \* history: messages published and not popped

queueVars  == <<buffer, pushIndex, replyDevice, callerPc, sending, lock>>
deviceVars == <<popIndex, devicePc, ptr, lastSendQueue, wire, wroteAll, reported>>
vars       == <<queueVars, deviceVars, unsent>>

Slots == 0 .. N - 1

\* Faults: the wrap one slot late, or one early.
SuccLate(i)  == IF i + 1 > N THEN 0 ELSE i + 1
SuccEarly(i) == IF i + 1 >= N - 1 THEN 0 ELSE i + 1

\* index++; if (index >= MAX_SEND_BUFFER_COUNT) index = 0;
Succ(i) == IF i + 1 >= N THEN 0 ELSE i + 1

Init ==
  /\ buffer = [i \in Slots |-> NoData]
  /\ pushIndex = 0
  /\ popIndex = 0
  /\ lock = None
  /\ replyDevice = NoDevice
  /\ lastSendQueue = FALSE
  /\ callerPc = [c \in Callers |-> "idle"]
  /\ sending = [c \in Callers |-> NoData]
  /\ devicePc = "poll"
  /\ ptr = 0
  /\ wire = None
  /\ wroteAll = TRUE
  /\ reported = FALSE
  /\ unsent = 0

------------------------------------------------------------------------------
(* try_send_data and process_try_send: the critical section, in the order  *)
(* of its stores.                                                          *)

\* Fault: no pthread_spin_lock before the slot is chosen.
LockUnguarded(c, m) ==
  /\ callerPc[c] = "idle"
  /\ unsent < MaxWaiting
  /\ lock' = c
  /\ sending' = [sending EXCEPT ![c] = m]
  /\ buffer' = [buffer EXCEPT ![pushIndex] = Torn]
  /\ callerPc' = [callerPc EXCEPT ![c] = "store"]
  /\ UNCHANGED <<pushIndex, replyDevice, deviceVars, unsent>>

\* pthread_spin_lock, and the memcpy (or memset) into the slot begins.
Lock(c, m) ==
  /\ callerPc[c] = "idle"
  /\ lock = None
  /\ unsent < MaxWaiting
  /\ lock' = c
  /\ sending' = [sending EXCEPT ![c] = m]
  /\ buffer' = [buffer EXCEPT ![pushIndex] = Torn]
  /\ callerPc' = [callerPc EXCEPT ![c] = "store"]
  /\ UNCHANGED <<pushIndex, replyDevice, deviceVars, unsent>>

\* Buf and Len are both in place; a call without data leaves the slot zeroed.
Store(c) ==
  /\ callerPc[c] = "store"
  /\ buffer' = [buffer EXCEPT ![pushIndex] = sending[c]]
  /\ callerPc' = [callerPc EXCEPT ![c] =
                    IF sending[c] = NoData THEN "unlock" ELSE "reply"]
  /\ UNCHANGED <<pushIndex, lock, replyDevice, sending, deviceVars, unsent>>

\* ReplyDevice = reply: try_send_data only.
SetReply(c) ==
  /\ callerPc[c] = "reply"
  /\ replyDevice' = IF ReplyTo[sending[c]] = KeepReply
                    THEN replyDevice ELSE ReplyTo[sending[c]]
  /\ callerPc' = [callerPc EXCEPT ![c] = "publish"]
  /\ UNCHANGED <<buffer, pushIndex, lock, sending, deviceVars, unsent>>

\* PushIndex = index: from here on the device thread sees the message.
Publish(c) ==
  /\ callerPc[c] = "publish"
  /\ pushIndex' = Succ(pushIndex)
  /\ unsent' = unsent + 1
  /\ callerPc' = [callerPc EXCEPT ![c] = "unlock"]
  /\ UNCHANGED <<buffer, lock, replyDevice, sending, deviceVars>>

Unlock(c) ==
  /\ callerPc[c] = "unlock"
  /\ lock' = None
  /\ callerPc' = [callerPc EXCEPT ![c] = "idle"]
  /\ UNCHANGED <<buffer, pushIndex, replyDevice, sending, deviceVars, unsent>>

------------------------------------------------------------------------------
(* check_and_send_data, run by the device's thread.                        *)

\* Fault: a test that forgets that the indices wrap.
PollGreater ==
  /\ devicePc = "poll"
  /\ pushIndex > popIndex
  /\ devicePc' = "take"
  /\ UNCHANGED <<queueVars, popIndex, ptr, lastSendQueue, wire, wroteAll,
                 reported, unsent>>

\* The unlocked test PushIndex != PopIndex.
Poll ==
  /\ devicePc = "poll"
  /\ pushIndex # popIndex
  /\ devicePc' = "take"
  /\ UNCHANGED <<queueVars, popIndex, ptr, lastSendQueue, wire, wroteAll,
                 reported, unsent>>

\* Fault: PopIndex is advanced before the slot is chosen.
TakeNext ==
  /\ devicePc = "take"
  /\ lock = None
  /\ ptr' = Succ(popIndex)
  /\ popIndex' = Succ(popIndex)
  /\ unsent' = unsent - 1
  /\ devicePc' = "check"
  /\ UNCHANGED <<queueVars, lastSendQueue, wire, wroteAll, reported>>

\* Its critical section: only PopIndex, which no caller reads, is written.
Take ==
  /\ devicePc = "take"
  /\ lock = None
  /\ ptr' = popIndex
  /\ popIndex' = Succ(popIndex)
  /\ unsent' = unsent - 1
  /\ devicePc' = "check"
  /\ UNCHANGED <<queueVars, lastSendQueue, wire, wroteAll, reported>>

\* if (ptr->Len > 0): a slot being rewritten may show either length.
Check ==
  /\ devicePc = "check"
  /\ \/ buffer[ptr] # NoData /\ devicePc' = "write"
     \/ buffer[ptr] \in {NoData, Torn} /\ devicePc' = "poll"
  /\ UNCHANGED <<queueVars, popIndex, ptr, lastSendQueue, wire, wroteAll,
                 reported, unsent>>

\* write(fd, ptr->Buf, ptr->Len), complete or not, then LastSendQueue.
Write ==
  /\ devicePc = "write"
  /\ wire' = buffer[ptr]
  /\ wroteAll' \in BOOLEAN
  /\ lastSendQueue' = TRUE
  /\ devicePc' = "compare"
  /\ UNCHANGED <<queueVars, popIndex, ptr, reported, unsent>>

\* if (len != ptr->Len) Callback(Name, "ERR:SENDFAIL#"): ptr->Len is read
\* again, and differs from what write() was given if the slot has changed.
Compare ==
  /\ devicePc = "compare"
  /\ reported' \in IF buffer[ptr] = wire THEN {~wroteAll} ELSE BOOLEAN
  /\ devicePc' = "poll"
  /\ UNCHANGED <<queueVars, popIndex, ptr, lastSendQueue, wire, wroteAll, unsent>>

------------------------------------------------------------------------------
CallerNext(c) ==
  \/ \E m \in Messages \cup {NoData} : Lock(c, m)
  \/ Store(c)
  \/ SetReply(c)
  \/ Publish(c)
  \/ Unlock(c)

DeviceNext == Poll \/ Take \/ Check \/ Write \/ Compare

Next == DeviceNext \/ \E c \in Callers : CallerNext(c)

Spec == Init /\ [][Next]_vars

(* A thread inside the critical section leaves it.  The device thread       *)
(* keeps polling (its loop calls ProcessSend on every turn); a spin lock is *)
(* not a queue, but callers release it for tens of milliseconds between two *)
(* calls, so the device thread does not lose it for ever.                   *)
Fairness ==
  /\ \A c \in Callers : WF_vars(Store(c) \/ SetReply(c) \/ Publish(c) \/ Unlock(c))
  /\ WF_vars(Poll \/ Check \/ Write \/ Compare)
  /\ SF_vars(Take)

FairSpec == Spec /\ Fairness

------------------------------------------------------------------------------
(* What the indices say is waiting, and where.                             *)

Outstanding == IF pushIndex >= popIndex THEN pushIndex - popIndex
               ELSE pushIndex - popIndex + N

SlotAt(i) == IF popIndex + i >= N THEN popIndex + i - N ELSE popIndex + i

Waiting == [i \in 1 .. unsent |-> buffer[SlotAt(i - 1)]]

InFlight == IF devicePc \in {"check", "write"} THEN buffer[ptr] ELSE None

TypeOK ==
  /\ buffer \in [Slots -> Messages \cup {NoData, Torn}]
  /\ pushIndex \in Slots /\ popIndex \in Slots /\ ptr \in Slots
  /\ lock \in Callers \cup {None}
  /\ replyDevice \in Devices \cup {NoDevice}
  /\ callerPc \in [Callers -> {"idle", "store", "reply", "publish", "unlock"}]
  /\ sending \in [Callers -> Messages \cup {NoData}]
  /\ devicePc \in {"poll", "take", "check", "write", "compare"}
  /\ wire \in Messages \cup {NoData, Torn, None}
  /\ wroteAll \in BOOLEAN /\ reported \in BOOLEAN /\ lastSendQueue \in BOOLEAN
  /\ unsent \in Nat

(* "Is there data waiting in the local buffer; if so send it" (common.h, the *)
(* comment on ProcessSend): the index test of check_and_send_data finds the  *)
(* ring empty only if no message is waiting in it.                           *)
PollSeesWaiting == unsent > 0 => pushIndex # popIndex

(* The slot the device thread is about to write still holds a whole message: *)
(* no caller has begun to overwrite it, and no empty call has zeroed it,     *)
(* although the thread let go of the lock before reading it.                 *)
SlotInFlightIntact ==
  devicePc \in {"check", "write", "compare"} => buffer[ptr] \in Messages

(* When calls outrun the device thread, what is lost is lost a whole ring at *)
(* a time: the messages written and still to be written differ from those    *)
(* handed over by a multiple of MAX_SEND_BUFFER_COUNT.                       *)
LossIsWholeRings == (unsent - Outstanding) % N = 0

(* ERR:SENDFAIL# is reported for a round exactly when its write() fell short;*)
(* the second read of ptr->Len never turns a good write into a failure.      *)
ReportIsTruthful == devicePc = "poll" => (reported <=> ~wroteAll)

(* Outside a critical section ReplyDevice is the reply argument of the       *)
(* newest waiting message: slot, reply and index are published together, so  *)
(* two callers never leave one's message under the other's reply device.     *)
ReplyOfNewest ==
  (lock = None /\ unsent > 0) =>
    LET newest == Waiting[unsent]
    IN  newest \in Messages
        /\ ReplyTo[newest] \in {KeepReply, replyDevice}

(* The ring is a first-in first-out queue: no message is lost, duplicated,   *)
(* reordered or mixed with another on its way to write().                    *)
RingIsFifo == INSTANCE Fifo WITH queue <- Waiting, inflight <- InFlight,
                                 Capacity <- N - 1

ImplementsFifo == RingIsFifo!Spec

(* A message that a call has stored is eventually written to the device.     *)
EventuallyWritten ==
  \A m \in Messages :
    (\E c \in Callers : callerPc[c] = "publish" /\ sending[c] = m)
      ~> (devicePc = "compare" /\ wire = m)
==============================================================================
