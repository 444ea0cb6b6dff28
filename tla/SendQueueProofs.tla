--------------------------- MODULE SendQueueProofs ---------------------------
(***************************************************************************)
(* Proofs about SendQueue for a ring of any size, any callers and any      *)
(* messages.  While fewer messages wait than the ring has slots (Paced),   *)
(* the ring is a FIFO; the argument is that the slot being filled, the     *)
(* slots waiting and the slot being written out never coincide.            *)
(***************************************************************************)
EXTENDS SendQueue, TLAPS

\* The callers' discipline the code relies on and does not enforce.
Paced == MaxWaiting < N

\* The spin lock is held by exactly the caller inside its critical section.
LockInv == \A c \in Callers : callerPc[c] # "idle" <=> lock = c

\* The indices count the waiting messages, and one slot is always spare.
CountInv == unsent = Outstanding

\* A caller inside its critical section entered it with room for one more,
\* and past Store its message is in the slot about to be published.
CallerInv ==
  \A c \in Callers :
    /\ callerPc[c] \in {"store", "reply", "publish"} => unsent < N - 1
    /\ callerPc[c] \in {"reply", "publish"} =>
         sending[c] \in Messages /\ buffer[pushIndex] = sending[c]
    /\ callerPc[c] = "publish" => ReplyTo[sending[c]] \in {KeepReply, replyDevice}

\* Every waiting slot holds a whole message.
RingInv == \A i \in 0 .. N - 1 : i < unsent => buffer[SlotAt(i)] \in Messages

\* The device thread pops only when there is something to pop; the slot it
\* works on is the one just behind PopIndex, and stays as it was.
DeviceInv ==
  /\ devicePc = "take" => unsent > 0
  /\ devicePc \in {"check", "write", "compare"} =>
       popIndex = Succ(ptr) /\ buffer[ptr] \in Messages
  /\ devicePc = "compare" => wire = buffer[ptr]
  /\ devicePc # "compare" => (reported <=> ~wroteAll)

\* ReplyDevice goes with the newest waiting message, except between the two
\* stores of a critical section.
ReplyInv ==
  (unsent > 0 /\ \A c \in Callers : callerPc[c] # "publish") =>
     ReplyTo[buffer[SlotAt(unsent - 1)]] \in {KeepReply, replyDevice}

IInv == TypeOK /\ LockInv /\ CountInv /\ CallerInv /\ RingInv /\ DeviceInv /\ ReplyInv

------------------------------------------------------------------------------
(* Ring arithmetic.                                                        *)

LEMMA SlotInRing ==
  ASSUME TypeOK, NEW i \in 0 .. N - 1
  PROVE  SlotAt(i) \in Slots
BY SendQueueAssumption DEF TypeOK, SlotAt, Slots, N

\* The waiting messages end just before the slot PushIndex points at.
LEMMA PushIsNext ==
  ASSUME TypeOK, CountInv
  PROVE  unsent \in 0 .. N - 1 /\ SlotAt(unsent) = pushIndex
BY SendQueueAssumption DEF TypeOK, CountInv, Outstanding, SlotAt, Slots, N

LEMMA SlotsDistinct ==
  ASSUME TypeOK, NEW i \in 0 .. N - 1, NEW j \in 0 .. N - 1, i # j
  PROVE  SlotAt(i) # SlotAt(j)
BY SendQueueAssumption DEF TypeOK, SlotAt, Slots, N

\* The slot popped last is the one farthest ahead of PopIndex.
LEMMA PoppedIsFarthest ==
  ASSUME TypeOK, popIndex = Succ(ptr)
  PROVE  ptr = SlotAt(N - 1)
BY SendQueueAssumption DEF TypeOK, SlotAt, Succ, Slots, N

LEMMA PublishCounts ==
  ASSUME TypeOK, CountInv, unsent < N - 1, pushIndex' = Succ(pushIndex),
         popIndex' = popIndex, unsent' = unsent + 1
  PROVE  CountInv' /\ pushIndex' \in Slots /\ unsent' \in Nat
BY SendQueueAssumption DEF TypeOK, CountInv, Outstanding, Succ, Slots, N

LEMMA TakeCounts ==
  ASSUME TypeOK, CountInv, unsent > 0, popIndex' = Succ(popIndex),
         pushIndex' = pushIndex, unsent' = unsent - 1
  PROVE  CountInv' /\ popIndex' \in Slots /\ unsent' \in Nat
BY SendQueueAssumption DEF TypeOK, CountInv, Outstanding, Succ, Slots, N

LEMMA TakeShifts ==
  ASSUME TypeOK, popIndex' = Succ(popIndex), NEW i \in 0 .. N - 2
  PROVE  SlotAt(i)' = SlotAt(i + 1)
BY SendQueueAssumption DEF TypeOK, SlotAt, Succ, Slots, N

\* The slot being filled is neither waiting nor in flight.
LEMMA FillingIsFree ==
  ASSUME TypeOK, CountInv, DeviceInv, unsent < N - 1
  PROVE  /\ \A i \in 0 .. N - 1 : i < unsent => SlotAt(i) # pushIndex
         /\ devicePc \in {"check", "write", "compare"} => ptr # pushIndex
<1>1. unsent \in 0 .. N - 1 /\ SlotAt(unsent) = pushIndex
  BY PushIsNext
<1>2. N - 1 \in 0 .. N - 1 /\ N \in Nat
  BY SendQueueAssumption DEF N
<1>3. \A i \in 0 .. N - 1 : i < unsent => SlotAt(i) # pushIndex
  BY <1>1, SlotsDistinct
<1>4. SlotAt(N - 1) # pushIndex
  BY <1>1, <1>2, SlotsDistinct
<1>5. devicePc \in {"check", "write", "compare"} => ptr # pushIndex
  BY <1>4, PoppedIsFarthest DEF DeviceInv
<1> QED BY <1>3, <1>5

------------------------------------------------------------------------------
(* The invariant is inductive: one lemma per operation of the code.        *)

LEMMA InitEstablishes == Init => IInv
<1> SUFFICES ASSUME Init PROVE IInv
  OBVIOUS
<1> USE SendQueueAssumption DEF Init, N
<1>0. 0 \in Slots
  BY DEF Slots
<1>1. TypeOK
  BY <1>0 DEF TypeOK
<1>2. LockInv
  BY DEF LockInv
<1>3. CountInv /\ RingInv
  BY DEF CountInv, Outstanding, RingInv
<1>4. CallerInv /\ DeviceInv /\ ReplyInv
  BY DEF CallerInv, DeviceInv, ReplyInv
<1> QED BY <1>1, <1>2, <1>3, <1>4 DEF IInv

\* Lock starts filling a free slot: nothing that waits is touched.
LEMMA LockPreserves ==
  ASSUME Paced, IInv, NEW c \in Callers, NEW m \in Messages \cup {NoData},
         Lock(c, m)
  PROVE  IInv'
<1> USE SendQueueAssumption
<1>0. /\ unsent < N - 1 /\ unsent \in Nat /\ N \in Nat
      /\ pushIndex \in Slots /\ lock = None
  BY DEF Paced, IInv, TypeOK, Lock, N
<1>1. /\ \A i \in 0 .. N - 1 : i < unsent => SlotAt(i) # pushIndex
      /\ devicePc \in {"check", "write", "compare"} => ptr # pushIndex
  BY <1>0, FillingIsFree DEF IInv
<1>2. \A i \in Slots \ {pushIndex} : buffer'[i] = buffer[i]
  BY DEF IInv, TypeOK, Lock
<1>3. \A i \in 0 .. N - 1 : SlotAt(i) \in Slots /\ SlotAt(i)' = SlotAt(i)
  BY SlotInRing DEF IInv, SlotAt, Lock, deviceVars
<1>4. TypeOK'
  BY <1>0 DEF IInv, TypeOK, Lock, deviceVars
<1>5. LockInv'
  BY <1>0 DEF IInv, TypeOK, LockInv, Lock
<1>6. CountInv'
  BY DEF IInv, CountInv, Outstanding, Lock, deviceVars
<1>7. CallerInv'
  BY <1>0 DEF IInv, TypeOK, CallerInv, LockInv, Lock
<1>8. RingInv'
  BY <1>1, <1>2, <1>3 DEF IInv, RingInv, Lock
<1>9. DeviceInv'
  BY <1>1, <1>2 DEF IInv, TypeOK, DeviceInv, Succ, Lock, deviceVars
<1>10. ReplyInv'
  <2>1. unsent > 0 => unsent - 1 \in 0 .. N - 1 /\ unsent - 1 < unsent
    BY <1>0
  <2>2. \A d \in Callers : callerPc[d] # "publish"
    BY <1>0 DEF IInv, LockInv
  <2> QED BY <1>1, <1>2, <1>3, <2>1, <2>2 DEF IInv, ReplyInv, Lock, deviceVars
<1> QED BY <1>4, <1>5, <1>6, <1>7, <1>8, <1>9, <1>10 DEF IInv

\* Store completes the slot Lock began; a call with no data stops here.
LEMMA StorePreserves ==
  ASSUME Paced, IInv, NEW c \in Callers, Store(c)
  PROVE  IInv'
<1> USE SendQueueAssumption
<1>0. /\ unsent < N - 1 /\ unsent \in Nat /\ N \in Nat
      /\ pushIndex \in Slots /\ sending[c] \in Messages \cup {NoData}
      /\ \A d \in Callers \ {c} : callerPc[d] = "idle"
  BY DEF IInv, TypeOK, LockInv, CallerInv, Store, N
<1>1. /\ \A i \in 0 .. N - 1 : i < unsent => SlotAt(i) # pushIndex
      /\ devicePc \in {"check", "write", "compare"} => ptr # pushIndex
  BY <1>0, FillingIsFree DEF IInv
<1>2. /\ \A i \in Slots \ {pushIndex} : buffer'[i] = buffer[i]
      /\ buffer'[pushIndex] = sending[c]
  BY <1>0 DEF IInv, TypeOK, Store
<1>3. \A i \in 0 .. N - 1 : SlotAt(i) \in Slots /\ SlotAt(i)' = SlotAt(i)
  BY SlotInRing DEF IInv, SlotAt, Store, deviceVars
<1>4. TypeOK'
  BY <1>0 DEF IInv, TypeOK, Store, deviceVars
<1>5. LockInv'
  BY DEF IInv, TypeOK, LockInv, Store
<1>6. CountInv'
  BY DEF IInv, CountInv, Outstanding, Store, deviceVars
<1>7. CallerInv'
  BY <1>0, <1>2 DEF IInv, TypeOK, CallerInv, Store
<1>8. RingInv'
  BY <1>1, <1>2, <1>3 DEF IInv, RingInv, Store
<1>9. DeviceInv'
  BY <1>1, <1>2 DEF IInv, TypeOK, DeviceInv, Succ, Store, deviceVars
<1>10. ReplyInv'
  <2>1. unsent > 0 => unsent - 1 \in 0 .. N - 1 /\ unsent - 1 < unsent
    BY <1>0
  <2>2. \A d \in Callers : callerPc[d] # "publish"
    BY <1>0 DEF Store
  <2> QED BY <1>1, <1>2, <1>3, <2>1, <2>2 DEF IInv, ReplyInv, Store, deviceVars
<1> QED BY <1>4, <1>5, <1>6, <1>7, <1>8, <1>9, <1>10 DEF IInv

LEMMA SetReplyPreserves ==
  ASSUME IInv, NEW c \in Callers, SetReply(c)
  PROVE  IInv'
<1> USE SendQueueAssumption
<1>1. TypeOK'
  BY DEF IInv, TypeOK, CallerInv, SetReply, deviceVars
<1>2. LockInv'
  BY DEF IInv, TypeOK, LockInv, SetReply
<1>3. CountInv' /\ RingInv'
  BY DEF IInv, CountInv, RingInv, Outstanding, SlotAt, SetReply, deviceVars
<1>4. CallerInv'
  BY DEF IInv, TypeOK, LockInv, CallerInv, SetReply
<1>5. DeviceInv'
  BY DEF IInv, DeviceInv, Succ, SetReply, deviceVars
<1>6. ReplyInv'
  BY DEF IInv, TypeOK, ReplyInv, SetReply
<1> QED BY <1>1, <1>2, <1>3, <1>4, <1>5, <1>6 DEF IInv

\* Publish makes the filled slot the newest waiting one.
LEMMA PublishPreserves ==
  ASSUME IInv, NEW c \in Callers, Publish(c)
  PROVE  IInv'
<1> USE SendQueueAssumption
<1>0. /\ unsent < N - 1 /\ unsent \in Nat /\ N \in Nat /\ N > 1
      /\ sending[c] \in Messages /\ buffer[pushIndex] = sending[c]
      /\ ReplyTo[sending[c]] \in {KeepReply, replyDevice}
      /\ \A d \in Callers \ {c} : callerPc[d] = "idle"
  BY DEF IInv, TypeOK, LockInv, CallerInv, Publish, N
<1>1. SlotAt(unsent) = pushIndex
  BY PushIsNext DEF IInv
<1>2. \A i \in 0 .. N - 1 : SlotAt(i)' = SlotAt(i)
  BY DEF SlotAt, Publish, deviceVars
<1>3. CountInv' /\ pushIndex' \in Slots /\ unsent' \in Nat
  BY <1>0, PublishCounts DEF IInv, Publish, deviceVars
<1>4. TypeOK'
  BY <1>3 DEF IInv, TypeOK, Publish, deviceVars
<1>5. LockInv'
  BY DEF IInv, TypeOK, LockInv, Publish
<1>6. CallerInv'
  BY <1>0 DEF IInv, TypeOK, CallerInv, Publish
<1>7. RingInv'
  BY <1>0, <1>1, <1>2 DEF IInv, RingInv, Publish
<1>8. DeviceInv'
  BY <1>0 DEF IInv, DeviceInv, Succ, Publish, deviceVars
<1>9. ReplyInv'
  <2>1. unsent' - 1 = unsent /\ unsent \in 0 .. N - 1
    BY <1>0 DEF Publish
  <2> QED BY <1>0, <1>1, <1>2, <2>1 DEF ReplyInv, Publish
<1> QED BY <1>3, <1>4, <1>5, <1>6, <1>7, <1>8, <1>9 DEF IInv

LEMMA UnlockPreserves ==
  ASSUME IInv, NEW c \in Callers, Unlock(c)
  PROVE  IInv'
<1> USE SendQueueAssumption
<1>1. TypeOK'
  BY DEF IInv, TypeOK, Unlock, deviceVars
<1>2. LockInv'
  BY DEF IInv, TypeOK, LockInv, Unlock
<1>3. CountInv' /\ RingInv'
  BY DEF IInv, CountInv, RingInv, Outstanding, SlotAt, Unlock, deviceVars
<1>4. CallerInv'
  BY DEF IInv, TypeOK, LockInv, CallerInv, Unlock
<1>5. DeviceInv'
  BY DEF IInv, DeviceInv, Succ, Unlock, deviceVars
<1>6. ReplyInv'
  <2>1. \A d \in Callers : callerPc[d] # "publish"
    BY DEF IInv, LockInv, Unlock
  <2>2. ReplyTo[buffer[SlotAt(unsent - 1)]]' = ReplyTo[buffer[SlotAt(unsent - 1)]]
    BY DEF SlotAt, Unlock, deviceVars
  <2> QED BY <2>1, <2>2 DEF IInv, ReplyInv, Unlock
<1> QED BY <1>1, <1>2, <1>3, <1>4, <1>5, <1>6 DEF IInv

\* The unlocked index test is right when it says there is something to send.
LEMMA PollPreserves ==
  ASSUME IInv, Poll
  PROVE  IInv'
<1> USE SendQueueAssumption
<1>1. unsent > 0
  BY DEF IInv, TypeOK, CountInv, Outstanding, Slots, Poll, N
<1>2. TypeOK' /\ LockInv' /\ CountInv'
  BY DEF IInv, TypeOK, LockInv, CountInv, Outstanding, Poll, queueVars
<1>3. CallerInv' /\ RingInv' /\ ReplyInv'
  BY DEF IInv, CallerInv, RingInv, ReplyInv, SlotAt, Poll, queueVars
<1>4. DeviceInv'
  BY <1>1 DEF IInv, DeviceInv, Succ, Poll, queueVars
<1> QED BY <1>2, <1>3, <1>4 DEF IInv

\* Take turns the oldest waiting slot into the one in flight.
LEMMA TakePreserves ==
  ASSUME IInv, Take
  PROVE  IInv'
<1> USE SendQueueAssumption
<1>0. /\ unsent > 0 /\ unsent \in Nat /\ N \in Nat /\ N > 1
      /\ SlotAt(0) = popIndex
  BY DEF IInv, TypeOK, DeviceInv, Take, SlotAt, Slots, N
<1>1. unsent \in 0 .. N - 1
  BY PushIsNext DEF IInv
<1>2. CountInv' /\ popIndex' \in Slots /\ unsent' \in Nat
  BY <1>0, TakeCounts DEF IInv, Take, queueVars
<1>3. \A i \in 0 .. N - 2 : SlotAt(i)' = SlotAt(i + 1)
  BY TakeShifts DEF IInv, Take
<1>4. TypeOK'
  BY <1>2 DEF IInv, TypeOK, Take, queueVars
<1>5. LockInv'
  BY DEF IInv, LockInv, Take, queueVars
<1>6. CallerInv'
  BY DEF IInv, LockInv, CallerInv, Take, queueVars
<1>7. RingInv'
  <2> SUFFICES ASSUME NEW i \in 0 .. N - 1, i < unsent'
               PROVE  buffer'[SlotAt(i)'] \in Messages
    BY DEF RingInv
  <2>1. i \in 0 .. N - 2 /\ i + 1 \in 0 .. N - 1 /\ i + 1 < unsent
    BY <1>0, <1>1 DEF Take
  <2>2. buffer[SlotAt(i + 1)] \in Messages
    BY <2>1 DEF IInv, RingInv
  <2> QED BY <1>3, <2>1, <2>2 DEF Take, queueVars
<1>8. DeviceInv'
  <2>1. buffer[popIndex] \in Messages
    BY <1>0 DEF IInv, RingInv
  <2> QED BY <2>1 DEF IInv, DeviceInv, Take, queueVars, Succ
<1>9. ReplyInv'
  <2>1. CASE unsent = 1
    BY <2>1 DEF ReplyInv, Take
  <2>2. CASE unsent > 1
    <3>1. SlotAt(unsent - 1)' = SlotAt(unsent - 1)
      BY <1>1, <2>2 DEF IInv, TypeOK, SlotAt, Succ, Slots, Take, N
    <3> QED BY <1>0, <3>1 DEF IInv, ReplyInv, Take, queueVars
  <2> QED BY <1>0, <2>1, <2>2
<1> QED BY <1>2, <1>4, <1>5, <1>6, <1>7, <1>8, <1>9 DEF IInv

\* The slot in flight is whole, so Check always goes on to write.
LEMMA CheckPreserves ==
  ASSUME IInv, Check
  PROVE  IInv' /\ devicePc' = "write"
<1> USE SendQueueAssumption
<1>1. devicePc' = "write"
  BY DEF IInv, DeviceInv, Check
<1>2. TypeOK' /\ LockInv' /\ CountInv'
  BY <1>1 DEF IInv, TypeOK, LockInv, CountInv, Outstanding, Check, queueVars
<1>3. CallerInv' /\ RingInv' /\ ReplyInv'
  BY DEF IInv, CallerInv, RingInv, ReplyInv, SlotAt, Check, queueVars
<1>4. DeviceInv'
  BY <1>1 DEF IInv, DeviceInv, Succ, Check, queueVars
<1> QED BY <1>1, <1>2, <1>3, <1>4 DEF IInv

LEMMA WritePreserves ==
  ASSUME IInv, Write
  PROVE  IInv'
<1> USE SendQueueAssumption
<1>1. TypeOK'
  BY DEF IInv, TypeOK, DeviceInv, Write, queueVars
<1>2. LockInv' /\ CountInv'
  BY DEF IInv, LockInv, CountInv, Outstanding, Write, queueVars
<1>3. CallerInv' /\ RingInv' /\ ReplyInv'
  BY DEF IInv, CallerInv, RingInv, ReplyInv, SlotAt, Write, queueVars
<1>4. DeviceInv'
  BY DEF IInv, DeviceInv, Succ, Write, queueVars
<1> QED BY <1>1, <1>2, <1>3, <1>4 DEF IInv

\* ptr->Len has not changed since write(): the report follows its result.
LEMMA ComparePreserves ==
  ASSUME IInv, Compare
  PROVE  IInv'
<1> USE SendQueueAssumption
<1>1. reported' = ~wroteAll /\ wroteAll' = wroteAll
  BY DEF IInv, DeviceInv, Compare
<1>2. TypeOK'
  BY <1>1 DEF IInv, TypeOK, Compare, queueVars
<1>3. LockInv' /\ CountInv'
  BY DEF IInv, LockInv, CountInv, Outstanding, Compare, queueVars
<1>4. CallerInv' /\ RingInv' /\ ReplyInv'
  BY DEF IInv, CallerInv, RingInv, ReplyInv, SlotAt, Compare, queueVars
<1>5. DeviceInv'
  <2>1. devicePc' = "poll"
    BY DEF Compare
  <2>2. reported' <=> ~wroteAll'
    BY ONLY <1>1, Zenon
  <2> QED BY <2>1, <2>2 DEF DeviceInv
<1> QED BY <1>2, <1>3, <1>4, <1>5 DEF IInv

LEMMA StutterPreserves ==
  ASSUME IInv, UNCHANGED vars
  PROVE  IInv'
BY DEF IInv, TypeOK, LockInv, CountInv, CallerInv, RingInv, DeviceInv, ReplyInv,
       Outstanding, SlotAt, Succ, vars, queueVars, deviceVars

LEMMA NextPreserves ==
  ASSUME Paced, IInv, [Next]_vars
  PROVE  IInv'
<1>1. ASSUME NEW c \in Callers, CallerNext(c)
      PROVE  IInv'
  BY <1>1, LockPreserves, StorePreserves, SetReplyPreserves,
     PublishPreserves, UnlockPreserves DEF CallerNext
<1>2. CASE DeviceNext
  BY <1>2, PollPreserves, TakePreserves, CheckPreserves, WritePreserves,
     ComparePreserves DEF DeviceNext
<1> QED BY <1>1, <1>2, StutterPreserves DEF Next

\* While callers are paced, the inductive invariant holds of every behaviour
\* of try_send_data and check_and_send_data, whatever the ring size.
THEOREM Inductive == Paced => (Spec => []IInv)
<1> SUFFICES ASSUME Paced PROVE Spec => []IInv
  OBVIOUS
<1>1. IInv /\ [Next]_vars => IInv'
  BY NextPreserves
<1> QED BY InitEstablishes, <1>1, PTL DEF Spec

------------------------------------------------------------------------------
(* The properties of SendQueue follow from the invariant.                  *)

\* Paced callers: the variables keep their types.
THEOREM TypeCorrect == Paced => (Spec => []TypeOK)
<1>1. IInv => TypeOK
  BY DEF IInv
<1> QED BY <1>1, Inductive, PTL

\* Paced callers: check_and_send_data never takes a ring with messages in it
\* for an empty one.
THEOREM NothingOverlooked == Paced => (Spec => []PollSeesWaiting)
<1>1. IInv => PollSeesWaiting
  BY SendQueueAssumption
     DEF IInv, TypeOK, CountInv, PollSeesWaiting, Outstanding, Slots, N
<1> QED BY <1>1, Inductive, PTL

\* Paced callers: the slot read after the lock is released is never
\* overwritten or zeroed before write() is done with it.
THEOREM InFlightIntact == Paced => (Spec => []SlotInFlightIntact)
<1>1. IInv => SlotInFlightIntact
  BY DEF IInv, DeviceInv, SlotInFlightIntact
<1> QED BY <1>1, Inductive, PTL

\* Paced callers: ERR:SENDFAIL# is raised exactly for writes that fell short.
THEOREM ReportsTruthful == Paced => (Spec => []ReportIsTruthful)
<1>1. IInv => ReportIsTruthful
  BY DEF IInv, DeviceInv, ReportIsTruthful
<1> QED BY <1>1, Inductive, PTL

\* Paced callers: outside the critical sections ReplyDevice belongs to the
\* newest waiting message.
THEOREM ReplyFollowsMessage == Paced => (Spec => []ReplyOfNewest)
<1>1. ASSUME IInv, lock = None, unsent > 0
      PROVE  /\ Waiting[unsent] \in Messages
             /\ ReplyTo[Waiting[unsent]] \in {KeepReply, replyDevice}
  <2>1. unsent \in 1 .. N - 1 /\ unsent - 1 \in 0 .. N - 1 /\ unsent - 1 < unsent
    BY <1>1, PushIsNext, SendQueueAssumption DEF IInv, TypeOK
  <2>2. Waiting[unsent] = buffer[SlotAt(unsent - 1)]
    BY <2>1 DEF Waiting
  <2>3. \A c \in Callers : callerPc[c] # "publish"
    BY <1>1, SendQueueAssumption DEF IInv, LockInv
  <2> QED BY <1>1, <2>1, <2>2, <2>3 DEF IInv, RingInv, ReplyInv
<1>2. IInv => ReplyOfNewest
  BY <1>1 DEF ReplyOfNewest
<1> QED BY <1>2, Inductive, PTL

------------------------------------------------------------------------------
(* Refinement of Fifo.                                                     *)

\* A step that leaves the indices alone and writes at most into the free
\* slot leaves the abstract queue and the message in flight as they were.
LEMMA FillingIsInvisible ==
  ASSUME IInv, unsent < N - 1,
         \A i \in Slots \ {pushIndex} : buffer'[i] = buffer[i],
         UNCHANGED <<popIndex, unsent, devicePc, ptr>>
  PROVE  Waiting' = Waiting /\ InFlight' = InFlight
<1>1. /\ \A i \in 0 .. N - 1 : i < unsent => SlotAt(i) # pushIndex
      /\ devicePc \in {"check", "write", "compare"} => ptr # pushIndex
  BY FillingIsFree DEF IInv
<1>2. \A i \in 0 .. N - 1 : SlotAt(i) \in Slots /\ SlotAt(i)' = SlotAt(i)
  BY SlotInRing DEF IInv, SlotAt
<1>3. unsent \in 0 .. N - 1 /\ N \in Nat /\ ptr \in Slots
  BY PushIsNext, SendQueueAssumption DEF IInv, TypeOK
<1>4. \A i \in 1 .. unsent : buffer'[SlotAt(i - 1)'] = buffer[SlotAt(i - 1)]
  <2> SUFFICES ASSUME NEW i \in 1 .. unsent
               PROVE  buffer'[SlotAt(i - 1)'] = buffer[SlotAt(i - 1)]
    OBVIOUS
  <2>1. i - 1 \in 0 .. N - 1 /\ i - 1 < unsent
    BY <1>3
  <2> QED BY <1>1, <1>2, <2>1
<1>5. Waiting' = Waiting
  BY <1>4 DEF Waiting
<1>6. InFlight' = InFlight
  BY <1>1, <1>3 DEF InFlight
<1> QED BY <1>5, <1>6

LEMMA PublishIsPush ==
  ASSUME IInv, NEW c \in Callers, Publish(c)
  PROVE  RingIsFifo!Push(sending[c]) /\ sending[c] \in Messages
<1>0. /\ unsent < N - 1 /\ unsent \in Nat /\ unsent' = unsent + 1
      /\ sending[c] \in Messages /\ buffer[pushIndex] = sending[c]
      /\ N \in Nat
  BY SendQueueAssumption DEF IInv, TypeOK, CallerInv, Publish
<1>1. SlotAt(unsent) = pushIndex
  BY PushIsNext DEF IInv
<1>2. \A i \in 1 .. unsent + 1 : buffer'[SlotAt(i - 1)'] = buffer[SlotAt(i - 1)]
  BY DEF Publish, deviceVars, SlotAt
<1>3. Len(Waiting) = unsent
  BY <1>0 DEF Waiting
<1>4. Waiting' = Append(Waiting, sending[c])
  <2>1. Waiting' = [i \in 1 .. unsent + 1 |-> buffer[SlotAt(i - 1)]]
    BY <1>0, <1>2 DEF Waiting
  <2>2. (unsent + 1) - 1 = unsent
    BY <1>0
  <2> QED BY <1>0, <1>1, <1>3, <2>1, <2>2 DEF Waiting
<1>5. InFlight' = InFlight /\ wire' = wire
  BY DEF InFlight, Publish, deviceVars
<1> QED BY <1>0, <1>3, <1>4, <1>5 DEF RingIsFifo!Push

LEMMA TakeIsPop ==
  ASSUME IInv, Take
  PROVE  RingIsFifo!Pop
<1>0. /\ unsent \in 1 .. N - 1 /\ N \in Nat /\ unsent' = unsent - 1
      /\ SlotAt(0) = popIndex
  BY PushIsNext, SendQueueAssumption
     DEF IInv, TypeOK, DeviceInv, Take, SlotAt, Slots, N
<1>1. \A i \in 0 .. N - 2 : SlotAt(i)' = SlotAt(i + 1)
  BY TakeShifts DEF IInv, Take
<1>2. Waiting # <<>> /\ Head(Waiting) = buffer[popIndex]
  BY <1>0 DEF Waiting
<1>3. Waiting' = Tail(Waiting)
  <2>1. \A i \in 1 .. unsent - 1 : SlotAt(i - 1)' = SlotAt(i)
    BY <1>0, <1>1
  <2>2. Waiting' = [i \in 1 .. unsent - 1 |-> buffer[SlotAt(i)]]
    BY <1>0, <2>1 DEF Waiting, Take, queueVars
  <2>3. Len(Waiting) = unsent
    BY <1>0 DEF Waiting
  <2>4. Tail(Waiting) = [i \in 1 .. unsent - 1 |-> Waiting[i + 1]]
    BY <1>0, <2>3 DEF Waiting
  <2>5. \A i \in 1 .. unsent - 1 : Waiting[i + 1] = buffer[SlotAt(i)]
    BY <1>0 DEF Waiting
  <2> QED BY <2>2, <2>4, <2>5
<1>4. InFlight = None /\ InFlight' = buffer[popIndex]
  BY DEF InFlight, Take, queueVars
<1>5. wire' = wire
  BY DEF Take
<1> QED BY <1>2, <1>3, <1>4, <1>5 DEF RingIsFifo!Pop

LEMMA WriteIsWrite ==
  ASSUME IInv, Write
  PROVE  RingIsFifo!Write
<1>1. Waiting' = Waiting
  BY DEF Waiting, SlotAt, Write, queueVars
<1>2. InFlight = buffer[ptr] /\ InFlight # None /\ InFlight' = None
  BY SendQueueAssumption DEF IInv, DeviceInv, InFlight, Write
<1>3. wire' = buffer[ptr]
  BY DEF Write
<1> QED BY <1>1, <1>2, <1>3 DEF RingIsFifo!Write

\* Paced callers: the ring with its partly locked accesses implements the
\* abstract FIFO, so no message is lost, duplicated, reordered or torn.
THEOREM Refinement == Paced => (Spec => ImplementsFifo)
<1> SUFFICES ASSUME Paced PROVE Spec => ImplementsFifo
  OBVIOUS
<1>1. Init => RingIsFifo!Init
  BY DEF Init, RingIsFifo!Init, Waiting, InFlight
<1>2. IInv /\ [Next]_vars => [RingIsFifo!Next]_RingIsFifo!vars
  <2> SUFFICES ASSUME IInv, [Next]_vars
               PROVE  [RingIsFifo!Next]_RingIsFifo!vars
    OBVIOUS
  <2> DEFINE Hidden == Waiting' = Waiting /\ InFlight' = InFlight /\ wire' = wire
  <2>0. ASSUME Hidden PROVE UNCHANGED RingIsFifo!vars
    BY <2>0 DEF RingIsFifo!vars
  <2>1. ASSUME NEW c \in Callers, NEW m \in Messages \cup {NoData}, Lock(c, m)
        PROVE  Hidden
    <3>1. unsent < N - 1
      BY <2>1, SendQueueAssumption DEF Paced, IInv, TypeOK, Lock
    <3>2. \A i \in Slots \ {pushIndex} : buffer'[i] = buffer[i]
      BY <2>1 DEF IInv, TypeOK, Lock
    <3> QED BY <2>1, <3>1, <3>2, FillingIsInvisible DEF Lock, deviceVars
  <2>2. ASSUME NEW c \in Callers, Store(c) PROVE Hidden
    <3>1. unsent < N - 1
      BY <2>2 DEF IInv, CallerInv, Store
    <3>2. \A i \in Slots \ {pushIndex} : buffer'[i] = buffer[i]
      BY <2>2 DEF IInv, TypeOK, Store
    <3> QED BY <2>2, <3>1, <3>2, FillingIsInvisible DEF Store, deviceVars
  <2>3. ASSUME NEW c \in Callers, SetReply(c) \/ Unlock(c) PROVE Hidden
    BY <2>3 DEF SetReply, Unlock, Waiting, InFlight, SlotAt, deviceVars
  <2>4. ASSUME NEW c \in Callers, Publish(c) PROVE RingIsFifo!Next
    BY <2>4, PublishIsPush DEF RingIsFifo!Next
  <2>5. CASE Poll
    BY <2>5 DEF Poll, Waiting, InFlight, SlotAt, queueVars, RingIsFifo!vars
  <2>6. CASE Take
    BY <2>6, TakeIsPop DEF RingIsFifo!Next
  <2>7. CASE Check
    <3>1. devicePc = "check" /\ devicePc' = "write"
      BY <2>7, CheckPreserves DEF Check
    <3> QED BY <2>7, <3>1 DEF Check, Waiting, InFlight, SlotAt, queueVars,
                              RingIsFifo!vars
  <2>8. CASE Write
    BY <2>8, WriteIsWrite DEF RingIsFifo!Next
  <2>9. CASE Compare
    BY <2>9 DEF Compare, Waiting, InFlight, SlotAt, queueVars, RingIsFifo!vars
  <2>10. CASE UNCHANGED vars
    BY <2>10 DEF vars, queueVars, deviceVars, Waiting, InFlight, SlotAt,
                 RingIsFifo!vars
  <2> QED BY <2>0, <2>1, <2>2, <2>3, <2>4, <2>5, <2>6, <2>7, <2>8, <2>9, <2>10
          DEF Next, CallerNext, DeviceNext
<1> QED BY <1>1, <1>2, Inductive, PTL DEF Spec, ImplementsFifo, RingIsFifo!Spec

------------------------------------------------------------------------------
(* Beyond Paced: calls that outrun the device thread.                      *)

\* The indices agree with what is waiting but for whole rings; the device
\* thread pops only when something is waiting, also when callers have made the
\* indices equal between its test and its pop.
OverrunInv ==
  /\ pushIndex \in Slots /\ popIndex \in Slots /\ unsent \in Nat
  /\ \E rings \in Nat : unsent = Outstanding + rings * N
  /\ devicePc = "take" => unsent > 0

\* Arithmetic of a constant that is no numeral.
LEMMA Multiples ==
  ASSUME NEW n \in Nat \ {0}, NEW k \in Nat
  PROVE  k * n \in Nat /\ (k + 1) * n = k * n + n /\ (k * n) % n = 0 /\ (k # 0 => k * n >= n)
<1>1. k * n \in Nat /\ (k + 1) * n = k * n + n
  BY SMT
<1>2. (k * n) % n = 0
  BY SMT
<1>3. k # 0 => k * n >= n
  BY SMT
<1> QED BY <1>1, <1>2, <1>3

LEMMA IndicesInRing ==
  ASSUME pushIndex \in Slots, popIndex \in Slots
  PROVE  /\ Outstanding \in 0 .. N - 1
         /\ pushIndex # popIndex => Outstanding > 0
BY SendQueueAssumption DEF Outstanding, Slots, N

LEMMA OverrunPreserved == OverrunInv /\ [Next]_vars => OverrunInv'
<1> SUFFICES ASSUME OverrunInv, [Next]_vars PROVE OverrunInv'
  OBVIOUS
<1> USE SendQueueAssumption DEF N
<1>1. CASE UNCHANGED <<pushIndex, popIndex, unsent>> /\ (devicePc' = "take" => devicePc = "take")
  BY <1>1 DEF OverrunInv, Outstanding
<1>2. CASE \E c \in Callers : Publish(c)
  <2>1. /\ pushIndex' = Succ(pushIndex) /\ unsent' = unsent + 1
        /\ popIndex' = popIndex /\ devicePc' = devicePc
    BY <1>2 DEF Publish, deviceVars
  <2>2. pushIndex' \in Slots /\ unsent' \in Nat /\ unsent' > 0
    BY <2>1 DEF OverrunInv, Succ, Slots
  <2>3. \/ Outstanding' = Outstanding + 1
        \/ Outstanding = N - 1 /\ Outstanding' = 0
    BY <2>1 DEF OverrunInv, Succ, Outstanding, Slots
  <2>4. PICK rings \in Nat : unsent = Outstanding + rings * N
    BY DEF OverrunInv
  <2>5. rings * N \in Nat /\ (rings + 1) * N = rings * N + N /\ Outstanding \in Int
    BY Multiples, IndicesInRing DEF OverrunInv
  <2>6. \E r \in Nat : unsent' = Outstanding' + r * N
    <3>1. CASE Outstanding' = Outstanding + 1
      BY <2>1, <2>4, <2>5, <3>1
    <3>2. CASE Outstanding = N - 1 /\ Outstanding' = 0
      <4>1. PICK k \in Nat : k = rings + 1
        OBVIOUS
      <4>2. unsent' = Outstanding' + k * N
        BY <2>1, <2>4, <2>5, <3>2, <4>1
      <4> QED BY <4>2
    <3> QED BY <2>3, <3>1, <3>2
  <2> QED BY <2>1, <2>2, <2>6 DEF OverrunInv
<1>3. CASE Poll
  <2>1. UNCHANGED <<pushIndex, popIndex, unsent>> /\ pushIndex # popIndex
    BY <1>3 DEF Poll, queueVars
  <2>2. Outstanding \in 0 .. N - 1 /\ Outstanding > 0
    BY <2>1, IndicesInRing DEF OverrunInv
  <2>3. unsent > 0
    <3>1. PICK rings \in Nat : unsent = Outstanding + rings * N
      BY DEF OverrunInv
    <3>2. rings * N \in Nat
      BY Multiples
    <3> QED BY <2>2, <3>1, <3>2
  <2> QED BY <2>1, <2>3 DEF OverrunInv, Outstanding
<1>4. CASE Take
  <2>1. /\ pushIndex' = pushIndex /\ unsent' = unsent - 1 /\ unsent > 0
        /\ popIndex' = Succ(popIndex) /\ devicePc' # "take"
    BY <1>4 DEF Take, queueVars, OverrunInv
  <2>2. popIndex' \in Slots /\ unsent' \in Nat
    BY <2>1 DEF OverrunInv, Succ, Slots
  <2>3. \/ Outstanding > 0 /\ Outstanding' = Outstanding - 1
        \/ Outstanding = 0 /\ Outstanding' = N - 1
    BY <2>1 DEF OverrunInv, Succ, Outstanding, Slots
  <2>4. PICK rings \in Nat : unsent = Outstanding + rings * N
    BY DEF OverrunInv
  <2>5. Outstanding \in Int /\ rings * N \in Nat
    BY Multiples, IndicesInRing DEF OverrunInv
  <2>6. \E r \in Nat : unsent' = Outstanding' + r * N
    <3>1. CASE Outstanding' = Outstanding - 1
      BY <2>1, <2>4, <2>5, <3>1
    <3>2. CASE Outstanding = 0 /\ Outstanding' = N - 1
      <4>1. rings # 0
        BY <2>1, <2>4, <3>2
      <4>2. PICK k \in Nat : k = rings - 1
        BY <4>1
      <4>3. k * N \in Nat /\ (k + 1) * N = k * N + N /\ k + 1 = rings
        BY <4>2, Multiples
      <4>4. unsent' = Outstanding' + k * N
        BY <2>1, <2>4, <3>2, <4>3
      <4> QED BY <4>4
    <3> QED BY <2>3, <3>1, <3>2
  <2> QED BY <2>1, <2>2, <2>6 DEF OverrunInv
<1> QED
  BY <1>1, <1>2, <1>3, <1>4
  DEF Next, DeviceNext, CallerNext, Lock, Store, SetReply, Unlock, Check, Write, Compare,
      vars, queueVars, deviceVars

\* However far calls outrun the device thread, the indices lose whole rings
\* and never a part of one.
THEOREM OverrunLosesRings == Spec => []LossIsWholeRings
<1>1. Init => OverrunInv
  <2> SUFFICES ASSUME Init PROVE OverrunInv
    OBVIOUS
  <2>1. Outstanding = 0 /\ 0 \in Slots /\ unsent = 0
    BY SendQueueAssumption DEF Init, Outstanding, Slots, N
  <2>2. unsent = Outstanding + 0 * N
    BY <2>1, SendQueueAssumption DEF N
  <2> QED BY <2>1, <2>2 DEF Init, OverrunInv
<1>2. OverrunInv => LossIsWholeRings
  <2> SUFFICES ASSUME OverrunInv PROVE LossIsWholeRings
    OBVIOUS
  <2>1. PICK rings \in Nat : unsent = Outstanding + rings * N
    BY DEF OverrunInv
  <2>2. Outstanding \in Int /\ rings * N \in Nat /\ (rings * N) % N = 0
    BY SendQueueAssumption, Multiples, IndicesInRing DEF OverrunInv, N
  <2>3. unsent - Outstanding = rings * N
    BY <2>1, <2>2
  <2> QED BY <2>2, <2>3 DEF LossIsWholeRings
<1> QED BY <1>1, <1>2, OverrunPreserved, PTL DEF Spec
==============================================================================
