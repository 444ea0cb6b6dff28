------------------------------ MODULE Lifecycle ------------------------------
(***************************************************************************)
(* From start to exit: main (main.c) starts one thread per device, waits   *)
(* for a signal, joins the threads and frees the configuration;            *)
(* signal_handler tells everybody to stop; each device thread              *)
(* (tcpSocketClientThread in sock.c, SerialPortThread in uart.c) resets    *)
(* its own ExitFlag when it begins and its own handler when it ends.       *)
(*                                                                         *)
(* The handler of a signal sent to the process runs on the main thread,    *)
(* which does nothing else meanwhile; the device threads go on.            *)
(***************************************************************************)
EXTENDS Naturals

CONSTANTS
  NumDevices,   \* length of the device list
  Threaded,     \* positions of the devices that get a thread (no SockServer)
  MaxSignals    \* bound: how many times SIGINT is sent

Devices == 1 .. NumDevices

ASSUME LifecycleAssumption ==
  /\ NumDevices \in Nat
  /\ Threaded \subseteq Devices
  /\ MaxSignals \in Nat

VARIABLES
  mainPc,       \* where main is
  cursor,       \* info: the device main is at in its two list walks
  handler,      \* whether the device's handler is a thread's, not 0
  exitFlag,     \* ExitFlag
  quitFlag,     \* quit_flag
  threadPc,     \* where each device thread is
  sigCursor,    \* the device signal_handler is at; 0 when it is not running
  signals,      \* signals sent so far
  freed         \* whether free_profile_info has freed the routes

mainVars   == <<mainPc, cursor, freed>>
signalVars == <<quitFlag, sigCursor, signals>>
vars       == <<mainVars, handler, exitFlag, threadPc, signalVars>>

Init ==
  /\ mainPc = "start" /\ cursor = 1
  /\ handler = [d \in Devices |-> FALSE]
  /\ exitFlag = [d \in Devices |-> FALSE]
  /\ quitFlag = FALSE
  /\ threadPc = [d \in Devices |-> "none"]
  /\ sigCursor = 0 /\ signals = 0
  /\ freed = FALSE

------------------------------------------------------------------------------
(* main.                                                                   *)

Running(pc) == mainPc = pc /\ sigCursor = 0

\* Fault: a walk that does not stop at the end of the list.
StartThreadPastEnd ==
  /\ Running("start") /\ cursor <= NumDevices + 1
  /\ cursor' = cursor + 1
  /\ IF cursor \in Threaded
     THEN /\ handler' = [handler EXCEPT ![cursor] = TRUE]
          /\ threadPc' = [threadPc EXCEPT ![cursor] = "created"]
     ELSE UNCHANGED <<handler, threadPc>>
  /\ UNCHANGED <<mainPc, freed, exitFlag, signalVars>>

\* pthread_create for the next device of the list, unless it is a SockServer.
StartThread ==
  /\ Running("start") /\ cursor \in Devices
  /\ cursor' = cursor + 1
  /\ IF cursor \in Threaded
     THEN /\ handler' = [handler EXCEPT ![cursor] = TRUE]
          /\ threadPc' = [threadPc EXCEPT ![cursor] = "created"]
     ELSE UNCHANGED <<handler, threadPc>>
  /\ UNCHANGED <<mainPc, freed, exitFlag, signalVars>>

\* signal(SIGINT, signal_handler), once the list is done.
InstallHandler ==
  /\ Running("start") /\ cursor \notin Devices
  /\ mainPc' = "wait"
  /\ UNCHANGED <<cursor, freed, handler, exitFlag, threadPc, signalVars>>

\* while(!quit_flag) sleep(2);
StopWaiting ==
  /\ Running("wait") /\ quitFlag
  /\ mainPc' = "test" /\ cursor' = 1
  /\ UNCHANGED <<freed, handler, exitFlag, threadPc, signalVars>>

\* if(info->handler != 0)
TestHandler ==
  /\ Running("test") /\ cursor \in Devices
  /\ IF handler[cursor] THEN mainPc' = "join" /\ UNCHANGED cursor
                        ELSE cursor' = cursor + 1 /\ UNCHANGED mainPc
  /\ UNCHANGED <<freed, handler, exitFlag, threadPc, signalVars>>

\* pthread_join(info->handler, NULL) reads handler again: joining thread 0
\* dereferences NULL.
PassHandler ==
  /\ Running("join")
  /\ mainPc' = IF handler[cursor] THEN "joining" ELSE "crashed"
  /\ UNCHANGED <<cursor, freed, handler, exitFlag, threadPc, signalVars>>

Joined ==
  /\ Running("joining") /\ threadPc[cursor] = "done"
  /\ mainPc' = "test" /\ cursor' = cursor + 1
  /\ UNCHANGED <<freed, handler, exitFlag, threadPc, signalVars>>

\* free_profile_info frees the routes; its cast of RealPtr makes it miss the
\* devices, which a signal handled afterwards still walks along.
Free ==
  /\ Running("test") /\ cursor \notin Devices
  /\ mainPc' = "freed" /\ freed' = TRUE
  /\ UNCHANGED <<cursor, handler, exitFlag, threadPc, signalVars>>

\* main returns, and the process is gone.
Return ==
  /\ Running("freed")
  /\ mainPc' = "returned"
  /\ UNCHANGED <<cursor, freed, handler, exitFlag, threadPc, signalVars>>

Over == mainPc \in {"crashed", "killed", "returned"}

------------------------------------------------------------------------------
(* SIGINT.                                                                 *)

\* Before signal() is called SIGINT kills the process, or is ignored if a
\* shell has started it in the background (launch.sh); after, it interrupts
\* main at any point.
Interrupt ==
  /\ ~Over /\ sigCursor = 0
  /\ signals < MaxSignals
  /\ signals' = signals + 1
  /\ IF mainPc = "start"
     THEN mainPc' \in {"killed", "start"} /\ UNCHANGED sigCursor
     ELSE sigCursor' = 1 /\ UNCHANGED mainPc
  /\ UNCHANGED <<cursor, freed, handler, exitFlag, threadPc, quitFlag>>

\* signal_handler: ExitFlag = 1 for the next device of the list, ...
RaiseFlag ==
  /\ ~Over /\ sigCursor \in Devices
  /\ exitFlag' = [exitFlag EXCEPT ![sigCursor] = TRUE]
  /\ sigCursor' = sigCursor + 1
  /\ UNCHANGED <<mainVars, handler, threadPc, quitFlag, signals>>

\* ... and quit_flag = 1 after the last.
RaiseQuit ==
  /\ ~Over /\ sigCursor = NumDevices + 1
  /\ quitFlag' = TRUE
  /\ sigCursor' = 0
  /\ UNCHANGED <<mainVars, handler, exitFlag, threadPc, signals>>

------------------------------------------------------------------------------
(* A device thread.                                                        *)

\* ExitFlag = 0, whatever it was.
Begin(d) ==
  /\ threadPc[d] = "created"
  /\ exitFlag' = [exitFlag EXCEPT ![d] = FALSE]
  /\ threadPc' = [threadPc EXCEPT ![d] = "init"]
  /\ UNCHANGED <<mainVars, handler, signalVars>>

\* Fault: ExitFlag is reset once more when the initialisation is over.
InitialiseResets(d) ==
  /\ threadPc[d] = "init"
  /\ \E next \in {"loop", "done"} : threadPc' = [threadPc EXCEPT ![d] = next]
  /\ exitFlag' = [exitFlag EXCEPT ![d] = FALSE]
  /\ UNCHANGED <<mainVars, handler, signalVars>>

\* The address or the serial port is ready, or the thread returns at once.
Initialise(d) ==
  /\ threadPc[d] = "init"
  /\ \E next \in {"loop", "done"} : threadPc' = [threadPc EXCEPT ![d] = next]
  /\ UNCHANGED <<mainVars, handler, exitFlag, signalVars>>

\* while(info->ExitFlag == 0)
TestExit(d) ==
  /\ threadPc[d] = "loop"
  /\ threadPc' = [threadPc EXCEPT ![d] = IF exitFlag[d] THEN "close" ELSE "turn"]
  /\ UNCHANGED <<mainVars, handler, exitFlag, signalVars>>

\* One turn: the thread may go through the routes and any device's queue.
Turn(d) ==
  /\ threadPc[d] = "turn"
  /\ threadPc' = [threadPc EXCEPT ![d] = "loop"]
  /\ UNCHANGED <<mainVars, handler, exitFlag, signalVars>>

\* Fault: handler = 0 before the thread has finished.
CloseEarlyClear(d) ==
  /\ threadPc[d] = "close"
  /\ handler' = [handler EXCEPT ![d] = FALSE]
  /\ threadPc' = [threadPc EXCEPT ![d] = "clear"]
  /\ UNCHANGED <<mainVars, exitFlag, signalVars>>

\* close(fd); Connected = 0; fd = -1;
Close(d) ==
  /\ threadPc[d] = "close"
  /\ threadPc' = [threadPc EXCEPT ![d] = "clear"]
  /\ UNCHANGED <<mainVars, handler, exitFlag, signalVars>>

\* handler = 0, the last thing the thread does.
ClearHandler(d) ==
  /\ threadPc[d] = "clear"
  /\ handler' = [handler EXCEPT ![d] = FALSE]
  /\ threadPc' = [threadPc EXCEPT ![d] = "done"]
  /\ UNCHANGED <<mainVars, exitFlag, signalVars>>

------------------------------------------------------------------------------
MainNext ==
  \/ StartThread \/ InstallHandler \/ StopWaiting
  \/ TestHandler \/ PassHandler \/ Joined \/ Free \/ Return

ThreadNext(d) ==
  /\ ~Over
  /\ \/ Begin(d) \/ Initialise(d) \/ TestExit(d) \/ Turn(d)
     \/ Close(d) \/ ClearHandler(d)

Next ==
  \/ MainNext \/ Interrupt \/ RaiseFlag \/ RaiseQuit
  \/ \E d \in Devices : ThreadNext(d)

Spec == Init /\ [][Next]_vars

(* Every thread gets the processor, and every call a device thread blocks   *)
(* in returns: recv() and read() time out, connect() fails sooner or later. *)
(* Nobody has to send a signal.                                             *)
FairSpec ==
  /\ Spec
  /\ WF_vars(MainNext) /\ WF_vars(RaiseFlag \/ RaiseQuit)
  /\ \A d \in Devices : WF_vars(ThreadNext(d))

------------------------------------------------------------------------------
TypeOK ==
  /\ mainPc \in {"start", "wait", "test", "join", "joining",
                 "freed", "crashed", "killed", "returned"}
  /\ cursor \in 1 .. NumDevices + 1
  /\ handler \in [Devices -> BOOLEAN]
  /\ exitFlag \in [Devices -> BOOLEAN]
  /\ quitFlag \in BOOLEAN
  /\ threadPc \in [Devices -> {"none", "created", "init", "loop", "turn",
                               "close", "clear", "done"}]
  /\ sigCursor \in 0 .. NumDevices + 1
  /\ signals \in Nat
  /\ freed \in BOOLEAN

(* The routes and devices outlive their users: when main has freed the       *)
(* configuration no thread is anywhere but at its end, although main does    *)
(* not join a thread whose handler it finds cleared.                         *)
QuietWhenFreed == freed => \A d \in Threaded : threadPc[d] = "done"

(* Once every thread has begun, one SIGINT is enough: the process ends,      *)
(* whatever the threads are doing and however the flags are seen.            *)
SignalEndsProcess ==
  (sigCursor = 1 /\ \A d \in Threaded : threadPc[d] # "created") ~> Over

(* "main(10) waiting for exit signal" (main.c): from here on SIGINT ends     *)
(* the process.                                                              *)
WaitingForExitSignal == (mainPc = "wait" /\ sigCursor = 1) ~> Over

(* The guard in front of pthread_join (main.c): a thread is joined only if   *)
(* its handler is not 0.                                                     *)
JoinsOnlyThreads == mainPc # "crashed"
==============================================================================
