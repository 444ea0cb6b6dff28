--------------------------- MODULE LifecycleProofs ---------------------------
(***************************************************************************)
(* Proofs about Lifecycle for any device list and any number of signals.   *)
(***************************************************************************)
EXTENDS Lifecycle, TLAPS

\* A cleared handler belongs to a thread that has ended, or to none.
ClearedInv == \A d \in Devices : ~handler[d] => threadPc[d] \in {"none", "done"}

\* A device without its thread lies ahead of main's first list walk.
UnstartedInv ==
  \A d \in Threaded :
    threadPc[d] = "none" => mainPc \in {"start", "killed"} /\ cursor <= d

\* Main's second list walk is at a device while it joins a thread, ...
AtDeviceInv == mainPc \in {"join", "joining"} => cursor \in Devices

\* ... and leaves only ended threads behind it.
JoinedInv ==
  mainPc \in {"test", "join", "joining"} =>
    \A d \in Threaded : d < cursor => threadPc[d] = "done"

\* Freeing the configuration is the last thing main does but return.
FreedInv == freed => mainPc \in {"freed", "returned"}

IInv ==
  /\ TypeOK /\ ClearedInv /\ UnstartedInv /\ AtDeviceInv
  /\ JoinedInv /\ FreedInv /\ QuietWhenFreed

LEMMA InitIInv == Init => IInv
<1> SUFFICES ASSUME Init PROVE IInv
  OBVIOUS
<1>1. handler \in [Devices -> BOOLEAN] /\ exitFlag \in [Devices -> BOOLEAN]
  BY Zenon DEF Init
<1>2. NumDevices \in Nat
  BY LifecycleAssumption
<1>3. threadPc \in [Devices -> {"none", "created", "init", "loop", "turn",
                                "close", "clear", "done"}]
  BY DEF Init
<1>4. TypeOK
  <2>1. cursor \in 1 .. NumDevices + 1 /\ sigCursor \in 0 .. NumDevices + 1 /\ signals \in Nat
    BY <1>2 DEF Init
  <2>2. quitFlag \in BOOLEAN /\ freed \in BOOLEAN
    BY Zenon DEF Init
  <2>3. mainPc \in {"start", "wait", "test", "join", "joining",
                   "freed", "crashed", "killed", "returned"}
    BY DEF Init
  <2> QED
    BY <1>1, <1>3, <2>1, <2>2, <2>3 DEF TypeOK
<1>5. ClearedInv
  BY DEF Init, ClearedInv
<1>6. UnstartedInv
  BY LifecycleAssumption DEF Init, UnstartedInv, Devices
<1>7. AtDeviceInv /\ JoinedInv /\ FreedInv /\ QuietWhenFreed
  BY DEF Init, AtDeviceInv, JoinedInv, FreedInv, QuietWhenFreed
<1> QED
  BY <1>4, <1>5, <1>6, <1>7 DEF IInv

\* Types.
LEMMA NextTypeOK == IInv /\ [Next]_vars => TypeOK'
<1> SUFFICES ASSUME TypeOK, ClearedInv, UnstartedInv, AtDeviceInv,
                    JoinedInv, FreedInv, QuietWhenFreed,
                    [Next]_vars
             PROVE  TypeOK'
  BY DEF IInv
<1> USE LifecycleAssumption DEF TypeOK, AtDeviceInv, Devices, Running, Over, mainVars, signalVars
<1>1. CASE StartThread
  <2>1. CASE cursor \in Threaded
    <3>1. handler' \in [Devices -> BOOLEAN] /\ exitFlag' \in [Devices -> BOOLEAN]
      <4>1. handler' = [handler EXCEPT ![cursor] = TRUE] /\ exitFlag' = exitFlag
        BY <1>1, <2>1 DEF StartThread
      <4> QED
        BY <4>1, Zenon
    <3>2. threadPc' \in [Devices -> {"none", "created", "init", "loop", "turn",
                                      "close", "clear", "done"}]
      BY <1>1, <2>1 DEF StartThread
    <3>3. cursor' \in 1 .. NumDevices + 1 /\ sigCursor' \in 0 .. NumDevices + 1
      BY <1>1, <2>1 DEF StartThread
    <3>4. /\ mainPc' = mainPc /\ quitFlag' = quitFlag
          /\ signals' = signals /\ freed' = freed
      BY <1>1, <2>1 DEF StartThread
    <3> QED
      BY <3>1, <3>2, <3>3, <3>4
  <2>2. CASE cursor \notin Threaded
    BY <1>1, <2>2 DEF StartThread
  <2> QED
    BY <2>1, <2>2
<1>2. CASE InstallHandler
  BY <1>2 DEF InstallHandler
<1>3. CASE StopWaiting
  BY <1>3 DEF StopWaiting
<1>4. CASE TestHandler
  BY <1>4 DEF TestHandler
<1>5. CASE PassHandler
  BY <1>5 DEF PassHandler
<1>6. CASE Joined
  BY <1>6 DEF Joined
<1>7. CASE Free
  BY <1>7 DEF Free
<1>8. CASE Return
  BY <1>8 DEF Return
<1>9. CASE Interrupt
  BY <1>9 DEF Interrupt
<1>10. CASE RaiseFlag
  BY <1>10 DEF RaiseFlag
<1>11. CASE RaiseQuit
  BY <1>11 DEF RaiseQuit
<1>12. ASSUME NEW d \in Devices, Begin(d) PROVE TypeOK'
  BY <1>12 DEF Begin
<1>13. ASSUME NEW d \in Devices, Initialise(d) PROVE TypeOK'
  BY <1>13 DEF Initialise
<1>14. ASSUME NEW d \in Devices, TestExit(d) PROVE TypeOK'
  BY <1>14 DEF TestExit
<1>15. ASSUME NEW d \in Devices, Turn(d) PROVE TypeOK'
  BY <1>15 DEF Turn
<1>16. ASSUME NEW d \in Devices, Close(d) PROVE TypeOK'
  BY <1>16 DEF Close
<1>17. ASSUME NEW d \in Devices, ClearHandler(d) PROVE TypeOK'
  BY <1>17 DEF ClearHandler
<1>18. CASE UNCHANGED vars
  BY <1>18 DEF vars
<1> QED
  BY <1>1, <1>2, <1>3, <1>4, <1>5, <1>6, <1>7, <1>8, <1>9, <1>10, <1>11, <1>12, <1>13, <1>14, <1>15, <1>16, <1>17, <1>18
  DEF Next, MainNext, ThreadNext

\* Only ClearHandler clears a handler, as the thread ends.
LEMMA NextCleared == IInv /\ [Next]_vars => ClearedInv'
<1> SUFFICES ASSUME TypeOK, ClearedInv, UnstartedInv, AtDeviceInv,
                    JoinedInv, FreedInv, QuietWhenFreed,
                    [Next]_vars
             PROVE  ClearedInv'
  BY DEF IInv
<1> USE LifecycleAssumption DEF TypeOK, ClearedInv, Devices, Running, Over, mainVars, signalVars
<1>1. CASE StartThread
  <2>1. CASE cursor \in Threaded
    BY <1>1, <2>1 DEF StartThread
  <2>2. CASE cursor \notin Threaded
    BY <1>1, <2>2 DEF StartThread
  <2> QED
    BY <2>1, <2>2
<1>2. CASE InstallHandler
  BY <1>2 DEF InstallHandler
<1>3. CASE StopWaiting
  BY <1>3 DEF StopWaiting
<1>4. CASE TestHandler
  BY <1>4 DEF TestHandler
<1>5. CASE PassHandler
  BY <1>5 DEF PassHandler
<1>6. CASE Joined
  BY <1>6 DEF Joined
<1>7. CASE Free
  BY <1>7 DEF Free
<1>8. CASE Return
  BY <1>8 DEF Return
<1>9. CASE Interrupt
  BY <1>9 DEF Interrupt
<1>10. CASE RaiseFlag
  BY <1>10 DEF RaiseFlag
<1>11. CASE RaiseQuit
  BY <1>11 DEF RaiseQuit
<1>12. ASSUME NEW d \in Devices, Begin(d) PROVE ClearedInv'
  BY <1>12 DEF Begin
<1>13. ASSUME NEW d \in Devices, Initialise(d) PROVE ClearedInv'
  BY <1>13 DEF Initialise
<1>14. ASSUME NEW d \in Devices, TestExit(d) PROVE ClearedInv'
  BY <1>14 DEF TestExit
<1>15. ASSUME NEW d \in Devices, Turn(d) PROVE ClearedInv'
  BY <1>15 DEF Turn
<1>16. ASSUME NEW d \in Devices, Close(d) PROVE ClearedInv'
  BY <1>16 DEF Close
<1>17. ASSUME NEW d \in Devices, ClearHandler(d) PROVE ClearedInv'
  BY <1>17 DEF ClearHandler
<1>18. CASE UNCHANGED vars
  BY <1>18 DEF vars
<1> QED
  BY <1>1, <1>2, <1>3, <1>4, <1>5, <1>6, <1>7, <1>8, <1>9, <1>10, <1>11, <1>12, <1>13, <1>14, <1>15, <1>16, <1>17, <1>18
  DEF Next, MainNext, ThreadNext

\* main starts the threads in list order and leaves start after the last.
LEMMA NextUnstarted == IInv /\ [Next]_vars => UnstartedInv'
<1> SUFFICES ASSUME TypeOK, ClearedInv, UnstartedInv, AtDeviceInv,
                    JoinedInv, FreedInv, QuietWhenFreed,
                    [Next]_vars
             PROVE  UnstartedInv'
  BY DEF IInv
<1> USE LifecycleAssumption DEF TypeOK, UnstartedInv, Devices, Running, Over, mainVars, signalVars
<1>1. CASE StartThread
  <2>1. CASE cursor \in Threaded
    BY <1>1, <2>1 DEF StartThread
  <2>2. CASE cursor \notin Threaded
    BY <1>1, <2>2 DEF StartThread
  <2> QED
    BY <2>1, <2>2
<1>2. CASE InstallHandler
  BY <1>2 DEF InstallHandler
<1>3. CASE StopWaiting
  BY <1>3 DEF StopWaiting
<1>4. CASE TestHandler
  BY <1>4 DEF TestHandler
<1>5. CASE PassHandler
  BY <1>5 DEF PassHandler
<1>6. CASE Joined
  BY <1>6 DEF Joined
<1>7. CASE Free
  BY <1>7 DEF Free
<1>8. CASE Return
  BY <1>8 DEF Return
<1>9. CASE Interrupt
  BY <1>9 DEF Interrupt
<1>10. CASE RaiseFlag
  BY <1>10 DEF RaiseFlag
<1>11. CASE RaiseQuit
  BY <1>11 DEF RaiseQuit
<1>12. ASSUME NEW d \in Devices, Begin(d) PROVE UnstartedInv'
  BY <1>12 DEF Begin
<1>13. ASSUME NEW d \in Devices, Initialise(d) PROVE UnstartedInv'
  BY <1>13 DEF Initialise
<1>14. ASSUME NEW d \in Devices, TestExit(d) PROVE UnstartedInv'
  BY <1>14 DEF TestExit
<1>15. ASSUME NEW d \in Devices, Turn(d) PROVE UnstartedInv'
  BY <1>15 DEF Turn
<1>16. ASSUME NEW d \in Devices, Close(d) PROVE UnstartedInv'
  BY <1>16 DEF Close
<1>17. ASSUME NEW d \in Devices, ClearHandler(d) PROVE UnstartedInv'
  BY <1>17 DEF ClearHandler
<1>18. CASE UNCHANGED vars
  BY <1>18 DEF vars
<1> QED
  BY <1>1, <1>2, <1>3, <1>4, <1>5, <1>6, <1>7, <1>8, <1>9, <1>10, <1>11, <1>12, <1>13, <1>14, <1>15, <1>16, <1>17, <1>18
  DEF Next, MainNext, ThreadNext

\* main joins at a device of the list.
LEMMA NextAtDevice == IInv /\ [Next]_vars => AtDeviceInv'
<1> SUFFICES ASSUME TypeOK, ClearedInv, UnstartedInv, AtDeviceInv,
                    JoinedInv, FreedInv, QuietWhenFreed,
                    [Next]_vars
             PROVE  AtDeviceInv'
  BY DEF IInv
<1> USE LifecycleAssumption DEF TypeOK, AtDeviceInv, Devices, Running, Over, mainVars, signalVars
<1>1. CASE StartThread
  <2>1. CASE cursor \in Threaded
    BY <1>1, <2>1 DEF StartThread
  <2>2. CASE cursor \notin Threaded
    BY <1>1, <2>2 DEF StartThread
  <2> QED
    BY <2>1, <2>2
<1>2. CASE InstallHandler
  BY <1>2 DEF InstallHandler
<1>3. CASE StopWaiting
  BY <1>3 DEF StopWaiting
<1>4. CASE TestHandler
  BY <1>4 DEF TestHandler
<1>5. CASE PassHandler
  BY <1>5 DEF PassHandler
<1>6. CASE Joined
  BY <1>6 DEF Joined
<1>7. CASE Free
  BY <1>7 DEF Free
<1>8. CASE Return
  BY <1>8 DEF Return
<1>9. CASE Interrupt
  BY <1>9 DEF Interrupt
<1>10. CASE RaiseFlag
  BY <1>10 DEF RaiseFlag
<1>11. CASE RaiseQuit
  BY <1>11 DEF RaiseQuit
<1>12. ASSUME NEW d \in Devices, Begin(d) PROVE AtDeviceInv'
  BY <1>12 DEF Begin
<1>13. ASSUME NEW d \in Devices, Initialise(d) PROVE AtDeviceInv'
  BY <1>13 DEF Initialise
<1>14. ASSUME NEW d \in Devices, TestExit(d) PROVE AtDeviceInv'
  BY <1>14 DEF TestExit
<1>15. ASSUME NEW d \in Devices, Turn(d) PROVE AtDeviceInv'
  BY <1>15 DEF Turn
<1>16. ASSUME NEW d \in Devices, Close(d) PROVE AtDeviceInv'
  BY <1>16 DEF Close
<1>17. ASSUME NEW d \in Devices, ClearHandler(d) PROVE AtDeviceInv'
  BY <1>17 DEF ClearHandler
<1>18. CASE UNCHANGED vars
  BY <1>18 DEF vars
<1> QED
  BY <1>1, <1>2, <1>3, <1>4, <1>5, <1>6, <1>7, <1>8, <1>9, <1>10, <1>11, <1>12, <1>13, <1>14, <1>15, <1>16, <1>17, <1>18
  DEF Next, MainNext, ThreadNext

\* main passes a device whose thread has ended, joined or not.
LEMMA NextJoined == IInv /\ [Next]_vars => JoinedInv'
<1> SUFFICES ASSUME TypeOK, ClearedInv, UnstartedInv, AtDeviceInv,
                    JoinedInv, FreedInv, QuietWhenFreed,
                    [Next]_vars
             PROVE  JoinedInv'
  BY DEF IInv
<1> USE LifecycleAssumption DEF TypeOK, ClearedInv, UnstartedInv, JoinedInv, Devices, Running, Over, mainVars, signalVars
<1>1. CASE StartThread
  <2>1. CASE cursor \in Threaded
    BY <1>1, <2>1 DEF StartThread
  <2>2. CASE cursor \notin Threaded
    BY <1>1, <2>2 DEF StartThread
  <2> QED
    BY <2>1, <2>2
<1>2. CASE InstallHandler
  BY <1>2 DEF InstallHandler
<1>3. CASE StopWaiting
  BY <1>3 DEF StopWaiting
<1>4. CASE TestHandler
  BY <1>4 DEF TestHandler
<1>5. CASE PassHandler
  BY <1>5 DEF PassHandler
<1>6. CASE Joined
  BY <1>6 DEF Joined
<1>7. CASE Free
  BY <1>7 DEF Free
<1>8. CASE Return
  BY <1>8 DEF Return
<1>9. CASE Interrupt
  BY <1>9 DEF Interrupt
<1>10. CASE RaiseFlag
  BY <1>10 DEF RaiseFlag
<1>11. CASE RaiseQuit
  BY <1>11 DEF RaiseQuit
<1>12. ASSUME NEW d \in Devices, Begin(d) PROVE JoinedInv'
  BY <1>12 DEF Begin
<1>13. ASSUME NEW d \in Devices, Initialise(d) PROVE JoinedInv'
  BY <1>13 DEF Initialise
<1>14. ASSUME NEW d \in Devices, TestExit(d) PROVE JoinedInv'
  BY <1>14 DEF TestExit
<1>15. ASSUME NEW d \in Devices, Turn(d) PROVE JoinedInv'
  BY <1>15 DEF Turn
<1>16. ASSUME NEW d \in Devices, Close(d) PROVE JoinedInv'
  BY <1>16 DEF Close
<1>17. ASSUME NEW d \in Devices, ClearHandler(d) PROVE JoinedInv'
  BY <1>17 DEF ClearHandler
<1>18. CASE UNCHANGED vars
  BY <1>18 DEF vars
<1> QED
  BY <1>1, <1>2, <1>3, <1>4, <1>5, <1>6, <1>7, <1>8, <1>9, <1>10, <1>11, <1>12, <1>13, <1>14, <1>15, <1>16, <1>17, <1>18
  DEF Next, MainNext, ThreadNext

\* After Free main only returns, and no signal interrupts what is over.
LEMMA NextFreed == IInv /\ [Next]_vars => FreedInv'
<1> SUFFICES ASSUME FreedInv, [Next]_vars
             PROVE  FreedInv'
  BY DEF IInv
<1> USE DEF FreedInv, Running, Over, mainVars, signalVars
<1>1. ASSUME MainNext PROVE FreedInv'
  BY <1>1 DEF MainNext, StartThread, InstallHandler, StopWaiting, TestHandler,
              PassHandler, Joined, Free, Return
<1>2. ASSUME Interrupt \/ RaiseFlag \/ RaiseQuit PROVE FreedInv'
  BY <1>2 DEF Interrupt, RaiseFlag, RaiseQuit
<1>3. ASSUME NEW d \in Devices, ThreadNext(d) PROVE FreedInv'
  BY <1>3 DEF ThreadNext, Begin, Initialise, TestExit, Turn, Close, ClearHandler
<1>4. CASE UNCHANGED vars
  BY <1>4 DEF vars
<1> QED
  BY <1>1, <1>2, <1>3, <1>4 DEF Next

\* main frees after its walk, and an ended thread takes no step.
LEMMA NextQuiet == IInv /\ [Next]_vars => QuietWhenFreed'
<1> SUFFICES ASSUME TypeOK, ClearedInv, UnstartedInv, AtDeviceInv,
                    JoinedInv, FreedInv, QuietWhenFreed,
                    [Next]_vars
             PROVE  QuietWhenFreed'
  BY DEF IInv
<1> USE LifecycleAssumption DEF TypeOK, JoinedInv, FreedInv, QuietWhenFreed, Devices, Running, Over, mainVars, signalVars
<1>1. CASE StartThread
  <2>1. CASE cursor \in Threaded
    BY <1>1, <2>1 DEF StartThread
  <2>2. CASE cursor \notin Threaded
    BY <1>1, <2>2 DEF StartThread
  <2> QED
    BY <2>1, <2>2
<1>2. CASE InstallHandler
  BY <1>2 DEF InstallHandler
<1>3. CASE StopWaiting
  BY <1>3 DEF StopWaiting
<1>4. CASE TestHandler
  BY <1>4 DEF TestHandler
<1>5. CASE PassHandler
  BY <1>5 DEF PassHandler
<1>6. CASE Joined
  BY <1>6 DEF Joined
<1>7. CASE Free
  BY <1>7 DEF Free
<1>8. CASE Return
  BY <1>8 DEF Return
<1>9. CASE Interrupt
  BY <1>9 DEF Interrupt
<1>10. CASE RaiseFlag
  BY <1>10 DEF RaiseFlag
<1>11. CASE RaiseQuit
  BY <1>11 DEF RaiseQuit
<1>12. ASSUME NEW d \in Devices, Begin(d) PROVE QuietWhenFreed'
  BY <1>12 DEF Begin
<1>13. ASSUME NEW d \in Devices, Initialise(d) PROVE QuietWhenFreed'
  BY <1>13 DEF Initialise
<1>14. ASSUME NEW d \in Devices, TestExit(d) PROVE QuietWhenFreed'
  BY <1>14 DEF TestExit
<1>15. ASSUME NEW d \in Devices, Turn(d) PROVE QuietWhenFreed'
  BY <1>15 DEF Turn
<1>16. ASSUME NEW d \in Devices, Close(d) PROVE QuietWhenFreed'
  BY <1>16 DEF Close
<1>17. ASSUME NEW d \in Devices, ClearHandler(d) PROVE QuietWhenFreed'
  BY <1>17 DEF ClearHandler
<1>18. CASE UNCHANGED vars
  BY <1>18 DEF vars
<1> QED
  BY <1>1, <1>2, <1>3, <1>4, <1>5, <1>6, <1>7, <1>8, <1>9, <1>10, <1>11, <1>12, <1>13, <1>14, <1>15, <1>16, <1>17, <1>18
  DEF Next, MainNext, ThreadNext

(* Type correctness and what main knows of the threads hold throughout.      *)
THEOREM Inductive == Spec => []IInv
<1>1. IInv /\ [Next]_vars => IInv'
  BY NextTypeOK, NextCleared, NextUnstarted, NextAtDevice, NextJoined, NextFreed, NextQuiet DEF IInv
<1> QED
  BY <1>1, InitIInv, PTL DEF Spec

(* main, signal_handler and the threads keep their variables' types.         *)
THEOREM TypeCorrect == Spec => []TypeOK
<1>1. IInv => TypeOK
  BY DEF IInv
<1> QED
  BY <1>1, Inductive, PTL

(* free_profile_info runs only when every device thread has ended: the       *)
(* handlers main skips are those of threads past their last access.          *)
THEOREM FreedInQuiet == Spec => []QuietWhenFreed
<1>1. IInv => QuietWhenFreed
  BY DEF IInv
<1> QED
  BY <1>1, Inductive, PTL
==============================================================================
