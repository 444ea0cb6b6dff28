----------------------------- MODULE SockClient -----------------------------
(***************************************************************************)
(* The thread of one SockClient device (tcpSocketClientThread in sock.c)   *)
(* from its first socket() to its return, with what Proxy leaves out: the  *)
(* descriptor in its two copies (the local fd, which is connected, read    *)
(* and closed, and info->fd, which check_and_send_data writes to), the     *)
(* descriptors that other threads open and close meanwhile, the ways a     *)
(* connection ends, and the byte stream that recv() cuts where it likes.   *)
(*                                                                         *)
(* The peer and the kernel are external.  The kernel is Linux's: after an  *)
(* orderly close recv() returns what is left and then 0, and write()       *)
(* succeeds; a reset is reported once, by whichever of recv() and write()  *)
(* comes first, and after that recv() returns 0 and write() raises         *)
(* SIGPIPE, for which the program installs no handler; a reset on top of a *)
(* close raises SIGPIPE at the first write().                              *)
(***************************************************************************)
EXTENDS Integers, Sequences, SequencesExt

CONSTANTS
  Fds,         \* descriptors the process may have
  Messages,    \* what the peer says, each a sequence of pieces
  Commands,    \* the commands of the device's routes, likewise
  Terminator,  \* what the peer ends a message with
  Blank,       \* pieces that are cut off the end: NUL, CR, LF, space, < 32
  RevbufSize,  \* pieces that fit revbuf[256]
  MaxSaid, MaxPushes, MaxBreaks  \* bounds: messages either way, lost connections

NoFd == -1

ASSUME SockClientAssumption ==
  /\ Fds \subseteq Nat /\ Fds # {}
  /\ Commands \subseteq Messages
  /\ \A m \in Messages \cup {Terminator} : m \in Seq(ToSet(m))
  /\ RevbufSize \in Nat \ {0}
  /\ {MaxSaid, MaxPushes, MaxBreaks} \subseteq Nat

VARIABLES
  pc,         \* where the thread is in its loop; "killed": the process is gone
  fd,         \* the local variable
  infoFd,     \* info->fd
  connected,  \* info->Connected
  exitFlag,   \* info->ExitFlag
  revbuf,     \* the text last received
  pushed, given,  \* messages put on SendQueue, and given to write() so far
  owner,      \* external: who has a descriptor open
  conn,       \* external: the state of this thread's socket
  line,       \* external: pieces that have arrived and are not yet received
  breaks,     \* connections the peer has ended so far
  said,       \* history: messages the peer has sent
  sent,       \* history: the pieces of all of them, as they went onto the line
  heard       \* history: commands the router has recognised

thread == <<pc, fd, infoFd, connected, revbuf, heard>>
socket == <<owner, conn, line>>
peer   == <<said, sent, breaks>>
vars   == <<thread, exitFlag, pushed, given, socket, peer>>

Init ==
  /\ pc = "start" /\ fd = NoFd /\ infoFd = NoFd
  /\ connected = FALSE /\ exitFlag = FALSE
  /\ revbuf = <<>> /\ heard = <<>> /\ said = <<>> /\ sent = <<>>
  /\ pushed = 0 /\ given = 0 /\ breaks = 0
  /\ owner = [n \in Fds |-> "free"]
  /\ conn = "none" /\ line = <<>>

------------------------------------------------------------------------------
(* Opening, connecting, closing.                                           *)

Free == {n \in Fds : owner[n] = "free"}
Mine == {n \in Fds : owner[n] = "mine"}

\* socket() gives the lowest descriptor that is free.
Lowest(n) == n \in Free /\ \A m \in Free : n <= m

NewSocket(n) ==
  /\ Lowest(n)
  /\ owner' = [owner EXCEPT ![n] = "mine"]
  /\ conn' = "fresh" /\ line' = <<>>
  /\ fd' = n

\* close(fd): what has arrived and was not received is gone.
CloseSocket ==
  /\ owner' = [n \in Fds |-> IF n = fd THEN "free" ELSE owner[n]]
  /\ conn' = "none" /\ line' = <<>>
  /\ fd' = NoFd

\* The name resolves and the first socket() succeeds, or the thread returns.
Start ==
  /\ pc = "start"
  /\ \/ \E n \in Fds : NewSocket(n) /\ infoFd' = n /\ pc' = "loop"
     \/ pc' = "done" /\ UNCHANGED <<fd, infoFd, socket>>
  /\ UNCHANGED <<connected, revbuf, heard, exitFlag, pushed, given, peer>>

\* Fault: the new descriptor is not stored in info->fd.
OpenUnshared ==
  /\ pc = "loop" /\ ~exitFlag /\ fd = NoFd
  /\ \E n \in Fds : NewSocket(n)
  /\ pc' = IF connected THEN "recv" ELSE "connect"
  /\ UNCHANGED <<infoFd, connected, revbuf, heard, exitFlag, pushed, given, peer>>

\* The top of the loop without a socket: it gets a new one.
Open ==
  /\ pc = "loop" /\ ~exitFlag /\ fd = NoFd
  /\ \E n \in Fds : NewSocket(n) /\ infoFd' = n
  /\ pc' = IF connected THEN "recv" ELSE "connect"
  /\ UNCHANGED <<connected, revbuf, heard, exitFlag, pushed, given, peer>>

\* socket() fails: the thread sleeps 1.5 s.
OpenFails ==
  /\ pc = "loop" /\ ~exitFlag /\ fd = NoFd
  /\ pc' = "sleep"
  /\ UNCHANGED <<fd, infoFd, connected, revbuf, heard, exitFlag, pushed, given, socket, peer>>

\* Fault: connect() is tried again at once until it succeeds.
WakeRetries ==
  /\ pc = "sleep"
  /\ pc' = IF fd # NoFd THEN "connect" ELSE "loop"
  /\ UNCHANGED <<fd, infoFd, connected, revbuf, heard, exitFlag, pushed, given, socket, peer>>

\* After each sleep the loop starts over.
Wake ==
  /\ pc = "sleep"
  /\ pc' = "loop"
  /\ UNCHANGED <<fd, infoFd, connected, revbuf, heard, exitFlag, pushed, given, socket, peer>>

\* The top of the loop with a socket.
Enter ==
  /\ pc = "loop" /\ ~exitFlag /\ fd # NoFd
  /\ pc' = IF connected THEN "recv" ELSE "connect"
  /\ UNCHANGED <<fd, infoFd, connected, revbuf, heard, exitFlag, pushed, given, socket, peer>>

ConnectOk ==
  /\ pc = "connect"
  /\ connected' = TRUE /\ conn' = "up"
  /\ pc' = "recv"
  /\ UNCHANGED <<fd, infoFd, revbuf, heard, exitFlag, pushed, given, owner, line, peer>>

\* connect() fails: the thread sleeps 5 s, and keeps the socket.
ConnectFails ==
  /\ pc = "connect"
  /\ connected' = FALSE
  /\ pc' = "sleep"
  /\ UNCHANGED <<fd, infoFd, revbuf, heard, exitFlag, pushed, given, socket, peer>>

\* ExitFlag is set: the socket, if there is one, is closed, handler is cleared.
Finish ==
  /\ pc = "loop" /\ exitFlag
  /\ CloseSocket
  /\ connected' = FALSE /\ infoFd' = NoFd
  /\ pc' = "done"
  /\ UNCHANGED <<revbuf, heard, exitFlag, pushed, given, peer>>

------------------------------------------------------------------------------
(* Receiving.                                                              *)

\* The text up to its last piece that is not blank.
Trim(s) ==
  [i \in {i \in DOMAIN s : \E j \in DOMAIN s : i <= j /\ s[j] \notin Blank} |-> s[i]]

\* ProcessRecv: text that is left goes to the router, which knows a command
\* only by all of it.
Process(s) ==
  /\ revbuf' = s
  /\ heard' = IF s # <<>> /\ s \in Commands THEN Append(heard, s) ELSE heard

\* recv() returns what has arrived, or the first part of it.
ReceiveData ==
  /\ pc = "recv" /\ conn # "fresh"
  /\ \E n \in 1 .. Len(line) :
       /\ n <= RevbufSize
       /\ Process(Trim(SubSeq(line, 1, n)))
       /\ line' = SubSeq(line, n + 1, Len(line))
  /\ pc' = "send"
  /\ UNCHANGED <<fd, infoFd, connected, exitFlag, pushed, given, owner, conn, peer>>

\* Fault: len is not tested before ProcessRecv.
ReceiveErrorProcessed ==
  /\ pc = "recv" /\ line = <<>> /\ conn \in {"up", "reset", "fresh"}
  /\ conn' = IF conn = "reset" THEN "dead" ELSE conn
  /\ pc' = "send"
  /\ Process(revbuf)
  /\ UNCHANGED <<fd, infoFd, connected, exitFlag, pushed, given, owner, line, peer>>

\* Fault: after an error the loop starts over without a look at the queue.
ReceiveErrorContinues ==
  /\ pc = "recv" /\ line = <<>> /\ conn \in {"up", "reset", "fresh"}
  /\ conn' = IF conn = "reset" THEN "dead" ELSE conn
  /\ pc' = "loop"
  /\ UNCHANGED <<fd, infoFd, connected, revbuf, heard, exitFlag, pushed, given,
                 owner, line, peer>>

\* recv() returns -1: no data for 0.5 s, or the news of a reset.  The code does
\* not tell the two apart and goes on to send.
ReceiveError ==
  /\ pc = "recv" /\ line = <<>> /\ conn \in {"up", "reset", "fresh"}
  /\ conn' = IF conn = "reset" THEN "dead" ELSE conn
  /\ pc' = "send"
  /\ UNCHANGED <<fd, infoFd, connected, revbuf, heard, exitFlag, pushed, given,
                 owner, line, peer>>

\* Faults: Connected stays 1; the socket is not closed; an orderly end is taken
\* for a timeout.
ReceiveEndStaysConnected ==
  /\ pc = "recv" /\ line = <<>> /\ conn \in {"fin", "finReset", "dead"}
  /\ CloseSocket
  /\ pc' = "sleep"
  /\ UNCHANGED <<connected, infoFd, revbuf, heard, exitFlag, pushed, given, peer>>

ReceiveEndUnclosed ==
  /\ pc = "recv" /\ line = <<>> /\ conn \in {"fin", "finReset", "dead"}
  /\ fd' = NoFd
  /\ connected' = FALSE
  /\ pc' = "sleep"
  /\ UNCHANGED <<infoFd, revbuf, heard, exitFlag, pushed, given, socket, peer>>

ReceiveEndIgnored ==
  /\ pc = "recv" /\ line = <<>> /\ conn \in {"fin", "finReset", "dead"}
  /\ pc' = "send"
  /\ UNCHANGED <<fd, infoFd, connected, revbuf, heard, exitFlag, pushed, given, socket, peer>>

\* recv() returns 0: the socket is closed, info->fd keeps its number, and the
\* thread sleeps 5 s.
ReceiveEnd ==
  /\ pc = "recv" /\ line = <<>> /\ conn \in {"fin", "finReset", "dead"}
  /\ CloseSocket
  /\ connected' = FALSE
  /\ pc' = "sleep"
  /\ UNCHANGED <<infoFd, revbuf, heard, exitFlag, pushed, given, peer>>

------------------------------------------------------------------------------
(* Sending: check_and_send_data with the queue of module SendQueue.        *)

SendNothing ==
  /\ pc = "send" /\ given = pushed
  /\ pc' = "loop"
  /\ UNCHANGED <<fd, infoFd, connected, revbuf, heard, exitFlag, pushed, given, socket, peer>>

\* Fault: the indices are not compared.
SendUnasked ==
  /\ pc = "send"
  /\ given' = given + 1
  /\ IF infoFd = fd /\ conn \in {"finReset", "dead", "fresh"}
     THEN pc' = "killed" /\ UNCHANGED conn
     ELSE pc' = "loop" /\ conn' = IF conn = "reset" THEN "dead" ELSE conn
  /\ UNCHANGED <<fd, infoFd, connected, revbuf, heard, exitFlag, pushed, owner, line, peer>>

\* Fault: the queue is emptied in one turn.
SendAll ==
  /\ pc = "send" /\ given < pushed
  /\ given' = pushed
  /\ IF infoFd = fd /\ conn \in {"finReset", "dead", "fresh"}
     THEN pc' = "killed" /\ UNCHANGED conn
     ELSE pc' = "loop" /\ conn' = IF conn = "reset" THEN "dead" ELSE conn
  /\ UNCHANGED <<fd, infoFd, connected, revbuf, heard, exitFlag, pushed, owner, line, peer>>

\* The oldest message is given to write(info->fd, ...): it succeeds, also when
\* the peer has closed; it fails once when the peer has reset the connection;
\* a socket that is not connected (any more) raises SIGPIPE.  Whether it
\* succeeds matters to the router only, which Proxy has.
Send ==
  /\ pc = "send" /\ given < pushed
  /\ given' = given + 1
  /\ IF infoFd = fd /\ conn \in {"finReset", "dead", "fresh"}
     THEN pc' = "killed" /\ UNCHANGED conn
     ELSE pc' = "loop" /\ conn' = IF conn = "reset" THEN "dead" ELSE conn
  /\ UNCHANGED <<fd, infoFd, connected, revbuf, heard, exitFlag, pushed, owner, line, peer>>

ThreadStep ==
  \/ Start \/ Open \/ OpenFails \/ Wake \/ Enter \/ ConnectOk \/ ConnectFails \/ Finish
  \/ ReceiveData \/ ReceiveError \/ ReceiveEnd \/ SendNothing \/ Send

------------------------------------------------------------------------------
(* Around it: other threads, the signal handler, the peer.                 *)

Running == pc \notin {"done", "killed"}

\* Another thread's router queues a message.
Push ==
  /\ Running /\ pushed < MaxPushes
  /\ pushed' = pushed + 1
  /\ UNCHANGED <<thread, exitFlag, given, socket, peer>>

\* Another thread opens or closes a socket of its own.
OtherOpens ==
  /\ Running /\ \A n \in Fds : owner[n] # "other"
  /\ \E n \in Fds : Lowest(n) /\ owner' = [owner EXCEPT ![n] = "other"]
  /\ UNCHANGED <<thread, exitFlag, pushed, given, conn, line, peer>>

OtherCloses ==
  /\ Running
  /\ \E n \in Fds : owner[n] = "other" /\ owner' = [owner EXCEPT ![n] = "free"]
  /\ UNCHANGED <<thread, exitFlag, pushed, given, conn, line, peer>>

Stop ==
  /\ Running /\ ~exitFlag
  /\ exitFlag' = TRUE
  /\ UNCHANGED <<thread, pushed, given, socket, peer>>

Say ==
  /\ conn = "up" /\ Running /\ Len(said) < MaxSaid
  /\ \E m \in Messages : /\ said' = Append(said, m)
                        /\ sent' = sent \o m \o Terminator
                        /\ line' = line \o m \o Terminator
  /\ UNCHANGED <<thread, exitFlag, pushed, given, owner, conn, breaks>>

\* The peer closes, or its host resets the connection, also after a close.
HangUp ==
  /\ Running /\ breaks < MaxBreaks
  /\ \/ conn = "up" /\ conn' \in {"fin", "reset"}
     \/ conn = "fin" /\ conn' = "finReset"
  /\ breaks' = breaks + 1
  /\ UNCHANGED <<thread, exitFlag, pushed, given, owner, line, said, sent>>

Outside == Push \/ OtherOpens \/ OtherCloses \/ Stop \/ Say \/ HangUp

Next == ThreadStep \/ Outside

Spec == Init /\ [][Next]_vars

(* recv(), connect(), write() and the sleeps end; nothing is assumed of how. *)
FairSpec == Spec /\ WF_vars(ThreadStep)

------------------------------------------------------------------------------
TypeOK ==
  /\ pc \in {"start", "loop", "sleep", "connect", "recv", "send", "done", "killed"}
  /\ {fd, infoFd} \subseteq Fds \cup {NoFd}
  /\ {connected, exitFlag} \subseteq BOOLEAN
  /\ pushed \in 0 .. MaxPushes /\ given \in 0 .. pushed
  /\ owner \in [Fds -> {"free", "mine", "other"}]
  /\ conn \in {"none", "fresh", "up", "fin", "reset", "finReset", "dead"}
  /\ breaks \in 0 .. MaxBreaks

(* What is written goes to this device's own connection: when the thread    *)
(* comes to write, info->fd is the descriptor it has open and connected,    *)
(* not a number that was closed and may by now be another device's socket.  *)
WritesOwnConnection ==
  pc = "send" => /\ infoFd = fd
                 /\ Mine = {fd}
                 /\ conn \notin {"none", "fresh"}

(* However connections are lost, the thread has the one socket it knows of  *)
(* open and no other, and none once it has returned.                        *)
NoDescriptorLeaks ==
  /\ Mine = {fd} \ {NoFd}
  /\ pc = "done" => Mine = {}

(* The process is killed by SIGPIPE only on a connection that the peer has  *)
(* reset: neither an orderly close nor the thread's own reconnection, with  *)
(* messages waiting through both, leads there.                              *)
KilledOnlyAfterReset == pc = "killed" => conn \in {"finReset", "dead"}

(* What the router carries out is made of what the peer has sent: each      *)
(* command recognised is a stretch of the stream, none of which serves      *)
(* twice, in the order sent, wherever recv() cuts or joins and whatever is  *)
(* lost with a connection.                                                  *)
CommandsFromStream ==
  \E at \in [DOMAIN heard -> 0 .. Len(sent)] :
    /\ \A i \in DOMAIN heard :
         /\ at[i] + Len(heard[i]) <= Len(sent)
         /\ \A j \in DOMAIN heard[i] : heard[i][j] = sent[at[i] + j]
    /\ \A i, j \in DOMAIN heard : i < j => at[i] + Len(heard[i]) <= at[j]

(* A comment of the router has it that a command is recognised as "the      *)
(* message of the device that starts it" (main.c:57), and the list of       *)
(* commands keeps TEST01 and RETEST01 apart (main.c:28): each command that  *)
(* is carried out is a message that the peer has sent, in their order.      *)
CommandsAsSent ==
  \E at \in [DOMAIN heard -> DOMAIN said] :
    /\ \A i \in DOMAIN heard : heard[i] = said[at[i]]
    /\ \A i, j \in DOMAIN heard : i < j => at[i] < at[j]

\* What a message has in it, and the commands that are told from every message
\* they are not: messages are ended by something that is not in the command, and
\* it is no part of a longer message.
Infixes(m) == {SubSeq(m, i, j) : i \in 1 .. Len(m), j \in 1 .. Len(m)} \ {<<>>, m}

Told(c) ==
  /\ Terminator # <<>>
  /\ ToSet(c) \cap ToSet(Terminator) = {}
  /\ \A m \in Messages : c \notin Infixes(m)

ToldPlaces(hd) == {i \in DOMAIN hd : Told(hd[i])}

(* A command that is no part of another message is carried out only when it *)
(* was sent, at most once each time and in the order sent, also when others *)
(* of the same device are mistaken for one another.                         *)
ToldCommandsAsSent ==
  \E at \in [ToldPlaces(heard) -> DOMAIN said] :
    /\ \A i \in ToldPlaces(heard) : heard[i] = said[at[i]]
    /\ \A i, j \in ToldPlaces(heard) : i < j => at[i] < at[j]

(* To the rest of the program the thread is a DeviceLoop: it takes at most  *)
(* one message for each receive, none without a connection, and keeps what  *)
(* waits through lost connections, refused attempts and missing sockets.    *)
AsLoop == INSTANCE DeviceLoop WITH
            up <- connected,
            turn <- IF pc = "send" THEN "send" ELSE "receive",
            waiting <- pushed - given

ImplementsLoop == AsLoop!Spec

(* A connection that the peer has ended is noticed: the thread closes it,   *)
(* or a write to it kills the process, although recv() returning -1 is      *)
(* taken for a timeout.                                                     *)
EndIsNoticed ==
  (conn \in {"fin", "reset", "finReset", "dead"}) ~> (conn = "none" \/ pc = "killed")

(* A message waits out any number of lost connections and refused attempts: *)
(* if the peer accepts a connection in the end, it is given to write(),     *)
(* unless the thread is told to stop or cannot start.                       *)
MessagesOutlastReconnection ==
  []<>(conn \notin {"none", "fresh"}) =>
    \A n \in 1 .. MaxPushes :
      (pushed >= n) ~> (given >= n \/ exitFlag \/ pc \in {"done", "killed"})

(* ExitFlag ends the thread wherever it is, also while the peer refuses     *)
(* every connection and no socket is to be had.                             *)
StopsWhenTold == exitFlag ~> pc \in {"done", "killed"}
=============================================================================
