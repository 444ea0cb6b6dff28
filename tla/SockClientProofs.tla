-------------------------- MODULE SockClientProofs --------------------------
(***************************************************************************)
(* What holds of the socket thread's descriptor and connection for any set *)
(* of descriptors, whatever is said, queued and lost, as often as may be;  *)
(* and of the commands it hears, for any messages and commands: where they *)
(* come from in what the peer sends, and which of them must be whole       *)
(* messages.                                                               *)
(***************************************************************************)
EXTENDS SockClient, SequenceTheorems, TLAPS

(* The thread has open exactly the descriptor that its local variable has. *)
OwnInv == \A n \in Fds : owner[n] = "mine" <=> n = fd

(* Whenever the thread has a socket, write() would use it too; without one *)
(* it is not connected.                                                    *)
SharedInv ==
  /\ fd # NoFd /\ pc # "done" => infoFd = fd
  /\ pc \in {"connect", "recv", "send"} => fd # NoFd
  /\ pc \in {"start", "done"} => fd = NoFd
  /\ connected /\ pc # "killed" => fd # NoFd

(* A socket that counts as connected has been; one that is to be connected *)
(* does not count as such.                                                 *)
ConnInv ==
  /\ connected /\ pc # "killed" => conn \notin {"none", "fresh"}
  /\ pc \in {"recv", "send"} => connected
  /\ pc = "killed" => conn \in {"finReset", "dead"}

Inv == TypeOK /\ OwnInv /\ SharedInv /\ ConnInv

LEMMA InitInv == Init => Inv
<1> SUFFICES ASSUME Init PROVE Inv
  OBVIOUS
<1>1. TypeOK
  <2>1. pushed \in 0 .. MaxPushes /\ given \in 0 .. pushed /\ breaks \in 0 .. MaxBreaks
    BY SockClientAssumption DEF Init
  <2>2. connected \in BOOLEAN /\ exitFlag \in BOOLEAN
    BY Zenon DEF Init
  <2>3. {fd, infoFd} \subseteq Fds \cup {NoFd}
    BY DEF Init
  <2>4. owner \in [Fds -> {"free", "mine", "other"}]
    BY DEF Init
  <2>5. /\ pc \in {"start", "loop", "sleep", "connect", "recv", "send", "done", "killed"}
        /\ conn \in {"none", "fresh", "up", "fin", "reset", "finReset", "dead"}
    BY DEF Init
  <2> QED
    BY <2>1, <2>2, <2>3, <2>4, <2>5 DEF TypeOK
<1>2. OwnInv
  BY SockClientAssumption DEF Init, OwnInv, NoFd
<1>3. SharedInv /\ ConnInv
  BY DEF Init, SharedInv, ConnInv
<1> QED
  BY <1>1, <1>2, <1>3 DEF Inv

\* The parts of the invariant, one after the other; each rests on the others.
LEMMA NextTypeOK == Inv /\ [Next]_vars => TypeOK'
<1> SUFFICES ASSUME Inv, [Next]_vars PROVE TypeOK'
  OBVIOUS
<1> USE SockClientAssumption DEF NoFd, thread, socket, peer
<1>1. CASE Start
  BY <1>1 DEF Start, NewSocket, Lowest, Free, Inv, TypeOK
<1>2. CASE Open
  BY <1>2 DEF Open, NewSocket, Lowest, Free, Inv, TypeOK
<1>3. CASE OpenFails
  BY <1>3 DEF OpenFails, Inv, TypeOK
<1>4. CASE Wake
  BY <1>4 DEF Wake, Inv, TypeOK
<1>5. CASE Enter
  BY <1>5 DEF Enter, Inv, TypeOK
<1>6. CASE ConnectOk
  BY <1>6 DEF ConnectOk, Inv, TypeOK
<1>7. CASE ConnectFails
  BY <1>7 DEF ConnectFails, Inv, TypeOK
<1>8. CASE Finish
  BY <1>8 DEF Finish, CloseSocket, Inv, TypeOK
<1>9. CASE ReceiveData
  BY <1>9 DEF ReceiveData, Process, Inv, TypeOK
<1>10. CASE ReceiveError
  BY <1>10 DEF ReceiveError, Inv, TypeOK
<1>11. CASE ReceiveEnd
  BY <1>11 DEF ReceiveEnd, CloseSocket, Inv, TypeOK
<1>12. CASE SendNothing
  BY <1>12 DEF SendNothing, Inv, TypeOK
<1>13. CASE Send
  BY <1>13 DEF Send, Inv, TypeOK
<1>14. CASE Push
  BY <1>14 DEF Push, Running, Inv, TypeOK
<1>15. CASE OtherOpens
  BY <1>15 DEF OtherOpens, Running, Lowest, Free, Inv, TypeOK
<1>16. CASE OtherCloses
  BY <1>16 DEF OtherCloses, Running, Inv, TypeOK
<1>17. CASE Stop
  BY <1>17 DEF Stop, Running, Inv, TypeOK
<1>18. CASE Say
  BY <1>18 DEF Say, Running, Inv, TypeOK
<1>19. CASE HangUp
  BY <1>19 DEF HangUp, Running, Inv, TypeOK
<1>20. CASE UNCHANGED vars
  BY <1>20 DEF vars, Inv, TypeOK
<1> QED
  BY <1>1, <1>2, <1>3, <1>4, <1>5, <1>6, <1>7, <1>8, <1>9, <1>10, <1>11, <1>12, <1>13, <1>14, <1>15, <1>16, <1>17, <1>18, <1>19, <1>20 DEF Next, ThreadStep, Outside

\* Only opening and closing, by this thread or another, say who owns what.
LEMMA NextOwn == Inv /\ [Next]_vars => OwnInv'
<1> SUFFICES ASSUME Inv, [Next]_vars PROVE OwnInv'
  OBVIOUS
<1> USE SockClientAssumption DEF NoFd
<1>1. ASSUME NEW n \in Fds, NewSocket(n), fd = NoFd PROVE OwnInv'
  BY <1>1 DEF NewSocket, Lowest, Free, Inv, TypeOK, OwnInv
<1>2. CASE CloseSocket
  BY <1>2 DEF CloseSocket, Inv, TypeOK, OwnInv
<1>3. CASE OtherOpens
  BY <1>3 DEF OtherOpens, Lowest, Free, Inv, TypeOK, OwnInv, thread
<1>4. CASE OtherCloses
  BY <1>4 DEF OtherCloses, Inv, TypeOK, OwnInv, thread
<1>5. CASE UNCHANGED <<owner, fd>>
  BY <1>5 DEF Inv, OwnInv
<1>6. CASE Start
  BY <1>1, <1>5, <1>6 DEF Start, Inv, SharedInv, socket
<1>7. CASE Open
  BY <1>1, <1>7 DEF Open
<1>8. CASE Finish \/ ReceiveEnd
  BY <1>2, <1>8 DEF Finish, ReceiveEnd
<1>9. CASE OpenFails \/ Wake \/ Enter \/ ConnectOk \/ ConnectFails
  BY <1>5, <1>9 DEF OpenFails, Wake, Enter, ConnectOk, ConnectFails, socket
<1>10. CASE ReceiveData \/ ReceiveError \/ SendNothing \/ Send
  BY <1>5, <1>10 DEF ReceiveData, ReceiveError, SendNothing, Send, socket
<1>11. CASE Push \/ Stop \/ Say \/ HangUp \/ UNCHANGED vars
  BY <1>5, <1>11 DEF Push, Stop, Say, HangUp, vars, thread, socket
<1> QED
  BY <1>3, <1>4, <1>6, <1>7, <1>8, <1>9, <1>10, <1>11 DEF Next, ThreadStep, Outside

\* A socket is new in both copies at once, and gone while Connected is cleared.
LEMMA NextShared == Inv /\ [Next]_vars => SharedInv'
<1> SUFFICES ASSUME Inv, [Next]_vars PROVE SharedInv'
  OBVIOUS
<1> USE SockClientAssumption DEF NoFd, Inv, TypeOK, SharedInv, ConnInv, socket
<1>1. CASE Start
  BY <1>1 DEF Start, NewSocket, Lowest, Free
<1>2. CASE Open
  BY <1>2 DEF Open, NewSocket, Lowest, Free
<1>3. CASE OpenFails \/ Wake \/ Enter
  BY <1>3 DEF OpenFails, Wake, Enter
<1>4. CASE ConnectOk \/ ConnectFails
  BY <1>4 DEF ConnectOk, ConnectFails
<1>5. CASE Finish
  BY <1>5 DEF Finish, CloseSocket
<1>6. CASE ReceiveData \/ ReceiveError
  BY <1>6 DEF ReceiveData, ReceiveError
<1>7. CASE ReceiveEnd
  BY <1>7 DEF ReceiveEnd, CloseSocket
<1>8. CASE SendNothing \/ Send
  BY <1>8 DEF SendNothing, Send
<1>9. CASE Outside
  BY <1>9 DEF Outside, Push, OtherOpens, OtherCloses, Stop, Say, HangUp, Running, thread
<1>10. CASE UNCHANGED vars
  BY <1>10 DEF vars, thread
<1> QED
  BY <1>1, <1>2, <1>3, <1>4, <1>5, <1>6, <1>7, <1>8, <1>9, <1>10 DEF Next, ThreadStep

\* Connected is set by connect() alone; only a reset leads to the kill.
LEMMA NextConn == Inv /\ [Next]_vars => ConnInv'
<1> SUFFICES ASSUME Inv, [Next]_vars PROVE ConnInv'
  OBVIOUS
<1> USE SockClientAssumption DEF NoFd, Inv, TypeOK, SharedInv, ConnInv, socket
<1>1. CASE Start
  BY <1>1 DEF Start, NewSocket, Lowest, Free
<1>2. CASE Open
  BY <1>2 DEF Open, NewSocket, Lowest, Free
<1>3. CASE OpenFails \/ Wake \/ Enter
  BY <1>3 DEF OpenFails, Wake, Enter
<1>4. CASE ConnectOk \/ ConnectFails
  BY <1>4 DEF ConnectOk, ConnectFails
<1>5. CASE Finish
  BY <1>5 DEF Finish, CloseSocket
<1>6. CASE ReceiveData \/ ReceiveError
  BY <1>6 DEF ReceiveData, ReceiveError
<1>7. CASE ReceiveEnd
  BY <1>7 DEF ReceiveEnd, CloseSocket
<1>8. CASE SendNothing \/ Send
  BY <1>8 DEF SendNothing, Send
<1>9. CASE Outside
  BY <1>9 DEF Outside, Push, OtherOpens, OtherCloses, Stop, Say, HangUp, Running, thread
<1>10. CASE UNCHANGED vars
  BY <1>10 DEF vars, thread
<1> QED
  BY <1>1, <1>2, <1>3, <1>4, <1>5, <1>6, <1>7, <1>8, <1>9, <1>10 DEF Next, ThreadStep

------------------------------------------------------------------------------
(* The stream: what the router recognises, wherever recv() cuts it.        *)

\* What a message or its end is made of, and what the peer sends of a message.
Pieces == UNION {ToSet(m) : m \in Messages \cup {Terminator}}
Whole(m) == m \o Terminator

(* Of each piece on the line it is known which message it comes from, and  *)
(* which piece of it that is.  The rest of that message follows it at      *)
(* once, and what comes later was said later.                              *)
Left(sd, msg, off, j) == Len(Whole(sd[msg[j]])) - off[j]

Labelled(sd, ln, msg, off) ==
  /\ \A j \in DOMAIN ln : ln[j] = Whole(sd[msg[j]])[off[j]]
  /\ \A j \in DOMAIN ln : /\ 0 <= Left(sd, msg, off, j)
                          /\ j + Left(sd, msg, off, j) <= Len(ln)
  /\ \A j, l \in DOMAIN ln :
       j <= l /\ l <= j + Left(sd, msg, off, j) =>
         msg[l] = msg[j] /\ off[l] = off[j] + (l - j)
  /\ \A j, l \in DOMAIN ln : j < l => msg[j] < msg[l] \/ (msg[j] = msg[l] /\ off[j] < off[l])

(* The commands recognised that are told from all other messages are       *)
(* messages said, in their order,                                          *)
Matched(sd, hd, at) ==
  /\ \A i \in ToldPlaces(hd) : hd[i] = sd[at[i]]
  /\ \A i, j \in ToldPlaces(hd) : i < j => at[i] < at[j]

(* and the first piece of none of them is still to be received.            *)
Later(hd, ln, at, msg, off) ==
  \A i \in ToldPlaces(hd), j \in DOMAIN ln : at[i] < msg[j] \/ (at[i] = msg[j] /\ off[j] > 1)

Traced(sd, hd, ln) ==
  \E at \in [ToldPlaces(hd) -> DOMAIN sd],
     msg \in [DOMAIN ln -> DOMAIN sd], off \in [DOMAIN ln -> Nat \ {0}] :
    Matched(sd, hd, at) /\ Labelled(sd, ln, msg, off) /\ Later(hd, ln, at, msg, off)

StreamInv ==
  /\ said \in Seq(Messages) /\ heard \in Seq(Commands) /\ line \in Seq(Pieces)
  /\ Traced(said, heard, line)

\* Messages and their end are sequences of pieces.
LEMMA MessageSeq == \A m \in Messages \cup {Terminator} : m \in Seq(Pieces)
<1> SUFFICES ASSUME NEW m \in Messages \cup {Terminator} PROVE m \in Seq(Pieces)
  OBVIOUS
<1>1. m \in Seq(ToSet(m))
  BY SockClientAssumption
<1>2. ToSet(m) \subseteq Pieces
  BY DEF Pieces
<1> QED
  BY <1>1, <1>2, SeqMonotonic

\* The pieces of a message as it is sent are its own and then those of its end.
LEMMA WholeParts ==
  ASSUME NEW m \in Messages
  PROVE  /\ Whole(m) \in Seq(Pieces)
         /\ Len(m) \in Nat /\ Len(Terminator) \in Nat
         /\ Len(Whole(m)) = Len(m) + Len(Terminator)
         /\ \A i \in 1 .. Len(m) : Whole(m)[i] = m[i] /\ m[i] \in ToSet(m)
         /\ \A i \in Len(m) + 1 .. Len(Whole(m)) : Whole(m)[i] \in ToSet(Terminator)
<1>1. m \in Seq(Pieces) /\ Terminator \in Seq(Pieces)
  BY MessageSeq
<1>2. /\ Whole(m) \in Seq(Pieces)
      /\ Len(Whole(m)) = Len(m) + Len(Terminator)
      /\ \A i \in 1 .. Len(m) + Len(Terminator) :
           Whole(m)[i] = IF i <= Len(m) THEN m[i] ELSE Terminator[i - Len(m)]
  BY <1>1, ConcatProperties DEF Whole
<1>3. /\ Len(m) \in Nat /\ DOMAIN m = 1 .. Len(m)
      /\ Len(Terminator) \in Nat /\ DOMAIN Terminator = 1 .. Len(Terminator)
  BY <1>1, LenProperties
<1>4. \A i \in 1 .. Len(m) : Whole(m)[i] = m[i] /\ m[i] \in ToSet(m)
  BY <1>2, <1>3 DEF ToSet
<1>5. ASSUME NEW i \in Len(m) + 1 .. Len(Whole(m)) PROVE Whole(m)[i] \in ToSet(Terminator)
  <2>1. i \in 1 .. Len(m) + Len(Terminator) /\ ~(i <= Len(m)) /\ i - Len(m) \in 1 .. Len(Terminator)
    BY <1>2, <1>3
  <2>2. Whole(m)[i] = Terminator[i - Len(m)]
    BY <1>2, <2>1
  <2> QED
    BY <1>3, <2>1, <2>2 DEF ToSet
<1> QED
  BY <1>2, <1>3, <1>4, <1>5

\* A message is put on the line with its end.
LEMMA WholeJoins ==
  ASSUME NEW s \in Seq(Pieces), NEW m \in Messages
  PROVE  s \o m \o Terminator = s \o Whole(m)
<1>1. m \in Seq(Pieces) /\ Terminator \in Seq(Pieces)
  BY MessageSeq
<1> QED
  BY <1>1, ConcatAssociative DEF Whole

\* What follows the first n of a sequence.
LEMMA RestShape ==
  ASSUME NEW S, NEW s \in Seq(S), NEW n \in Nat, n <= Len(s)
  PROVE  /\ SubSeq(s, n + 1, Len(s)) \in Seq(S)
         /\ Len(SubSeq(s, n + 1, Len(s))) = Len(s) - n
         /\ \A j \in 1 .. Len(s) - n : SubSeq(s, n + 1, Len(s))[j] = s[j + n]
  OBVIOUS

\* Places keep their distances when all are counted from another one.
LEMMA Shifted ==
  ASSUME NEW j \in Nat, NEW l \in Nat, NEW n \in Nat, NEW f \in Int
  PROVE  /\ (j <= l) <=> (j + n <= l + n)
         /\ (l <= j + f) <=> (l + n <= (j + n) + f)
         /\ (j < l) <=> (j + n < l + n)
         /\ (l + n) - (j + n) = l - j
  OBVIOUS

\* What is left of the line, and its labels, when n pieces have been received.
Rest(ln, n)         == SubSeq(ln, n + 1, Len(ln))
RestLabel(ln, n, f) == [j \in DOMAIN Rest(ln, n) |-> f[j + n]]

LabelsMoved(ln, n, msg, off) ==
  \A j \in DOMAIN Rest(ln, n) :
    /\ j + n \in DOMAIN ln /\ j + n > 1
    /\ RestLabel(ln, n, msg)[j] = msg[j + n] /\ RestLabel(ln, n, off)[j] = off[j + n]

\* The labels when m has been said after it, as the k-th message.
SaidMsg(ln, m, msg, k) == [j \in DOMAIN (ln \o Whole(m)) |-> IF j <= Len(ln) THEN msg[j] ELSE k]
SaidOff(ln, m, off)    == [j \in DOMAIN (ln \o Whole(m)) |->
                             IF j <= Len(ln) THEN off[j] ELSE j - Len(ln)]

\* recv() takes the first n pieces; the others keep their labels.
LEMMA CutLabelled ==
  ASSUME NEW sd \in Seq(Messages), NEW ln \in Seq(Pieces),
         NEW msg \in [DOMAIN ln -> DOMAIN sd], NEW off \in [DOMAIN ln -> Nat \ {0}],
         Labelled(sd, ln, msg, off), NEW n \in DOMAIN ln
  PROVE  /\ Rest(ln, n) \in Seq(Pieces)
         /\ LabelsMoved(ln, n, msg, off)
         /\ RestLabel(ln, n, msg) \in [DOMAIN Rest(ln, n) -> DOMAIN sd]
         /\ RestLabel(ln, n, off) \in [DOMAIN Rest(ln, n) -> Nat \ {0}]
         /\ Labelled(sd, Rest(ln, n), RestLabel(ln, n, msg), RestLabel(ln, n, off))
<1> DEFINE rest == Rest(ln, n)
           msg2 == RestLabel(ln, n, msg)
           off2 == RestLabel(ln, n, off)
<1>12. /\ rest = SubSeq(ln, n + 1, Len(ln))
       /\ msg2 = [j \in DOMAIN rest |-> msg[j + n]]
       /\ off2 = [j \in DOMAIN rest |-> off[j + n]]
  BY DEF Rest, RestLabel
<1> HIDE DEF rest, msg2, off2
<1>1. Len(ln) \in Nat /\ DOMAIN ln = 1 .. Len(ln) /\ n \in Nat /\ 1 <= n /\ n <= Len(ln)
  BY LenProperties
<1>2. /\ rest \in Seq(Pieces) /\ Len(rest) = Len(ln) - n
      /\ \A j \in 1 .. Len(ln) - n : rest[j] = ln[j + n]
  BY <1>12, <1>1, RestShape
<1>3. DOMAIN rest = 1 .. Len(ln) - n
  BY <1>2, LenProperties
<1>4. \A j \in DOMAIN rest : j \in Nat /\ j + n \in DOMAIN ln /\ j + n > 1
  BY <1>1, <1>3
<1>5. \A j \in DOMAIN rest : rest[j] = ln[j + n] /\ msg2[j] = msg[j + n] /\ off2[j] = off[j + n]
  BY <1>12, <1>2, <1>3
<1>6. msg2 \in [DOMAIN rest -> DOMAIN sd] /\ off2 \in [DOMAIN rest -> Nat \ {0}]
  BY <1>12, <1>4
<1>7. \A j \in DOMAIN rest : Left(sd, msg2, off2, j) = Left(sd, msg, off, j + n)
  BY <1>5 DEF Left
<1>8. \A j \in DOMAIN ln : Left(sd, msg, off, j) \in Int
  <2> SUFFICES ASSUME NEW j \in DOMAIN ln PROVE Left(sd, msg, off, j) \in Int
    OBVIOUS
  <2>1. sd[msg[j]] \in Messages
    BY ElementOfSeq
  <2>2. Len(Whole(sd[msg[j]])) \in Nat /\ off[j] \in Nat
    BY <2>1, WholeParts, LenProperties
  <2> QED
    BY <2>2 DEF Left
<1>9. ASSUME NEW j \in DOMAIN rest
      PROVE  /\ rest[j] = Whole(sd[msg2[j]])[off2[j]]
             /\ 0 <= Left(sd, msg2, off2, j)
             /\ j + Left(sd, msg2, off2, j) <= Len(rest)
  <2>1. PICK f \in Int : f = Left(sd, msg, off, j + n)
    BY <1>4, <1>8
  <2>2. /\ ln[j + n] = Whole(sd[msg[j + n]])[off[j + n]]
        /\ 0 <= f /\ (j + n) + f <= Len(ln)
    BY <1>4, <2>1 DEF Labelled
  <2>3. j + f <= Len(ln) - n
    BY <1>1, <1>4, <2>2
  <2> QED
    BY <1>2, <1>5, <1>7, <2>1, <2>2, <2>3
<1>10. ASSUME NEW j \in DOMAIN rest, NEW l \in DOMAIN rest
       PROVE  /\ j <= l /\ l <= j + Left(sd, msg2, off2, j) =>
                   msg2[l] = msg2[j] /\ off2[l] = off2[j] + (l - j)
              /\ j < l => msg2[j] < msg2[l] \/ (msg2[j] = msg2[l] /\ off2[j] < off2[l])
  <2>1. /\ j + n \in DOMAIN ln /\ l + n \in DOMAIN ln
        /\ j \in Nat /\ l \in Nat
    BY <1>4
  <2>2. PICK f \in Int : f = Left(sd, msg, off, j + n)
    BY <1>8, <2>1
  <2>3. /\ (j + n <= l + n /\ l + n <= (j + n) + f) =>
               msg[l + n] = msg[j + n] /\ off[l + n] = off[j + n] + ((l + n) - (j + n))
        /\ j + n < l + n =>
             msg[j + n] < msg[l + n] \/ (msg[j + n] = msg[l + n] /\ off[j + n] < off[l + n])
    BY <2>1, <2>2 DEF Labelled
  <2>4. /\ (j <= l) <=> (j + n <= l + n)
        /\ (l <= j + f) <=> (l + n <= (j + n) + f)
        /\ (j < l) <=> (j + n < l + n)
        /\ (l + n) - (j + n) = l - j
    BY <1>1, <2>1, Shifted
  <2>5. /\ (j <= l /\ l <= j + f) =>
               msg[l + n] = msg[j + n] /\ off[l + n] = off[j + n] + (l - j)
        /\ j < l =>
             msg[j + n] < msg[l + n] \/ (msg[j + n] = msg[l + n] /\ off[j + n] < off[l + n])
    BY <2>3, <2>4
  <2> QED
    BY <1>5, <1>7, <2>2, <2>5
<1>11. Labelled(sd, rest, msg2, off2)
  <2>1. \A j \in DOMAIN rest : rest[j] = Whole(sd[msg2[j]])[off2[j]]
    BY <1>9
  <2>2. \A j \in DOMAIN rest : /\ 0 <= Left(sd, msg2, off2, j)
                              /\ j + Left(sd, msg2, off2, j) <= Len(rest)
    BY <1>9
  <2>3. \A j, l \in DOMAIN rest :
          j <= l /\ l <= j + Left(sd, msg2, off2, j) =>
            msg2[l] = msg2[j] /\ off2[l] = off2[j] + (l - j)
    BY <1>10
  <2>4. \A j, l \in DOMAIN rest :
          j < l => msg2[j] < msg2[l] \/ (msg2[j] = msg2[l] /\ off2[j] < off2[l])
    BY <1>10
  <2> QED
    BY <2>1, <2>2, <2>3, <2>4 DEF Labelled
<1> QED
  BY <1>2, <1>4, <1>5, <1>6, <1>11 DEF LabelsMoved, rest, msg2, off2

\* What the peer says comes last, and is the newest message.
LEMMA SayLabelled ==
  ASSUME NEW sd \in Seq(Messages), NEW ln \in Seq(Pieces),
         NEW msg \in [DOMAIN ln -> DOMAIN sd], NEW off \in [DOMAIN ln -> Nat \ {0}],
         Labelled(sd, ln, msg, off), NEW m \in Messages
  PROVE  LET ln2  == ln \o Whole(m)
             msg2 == SaidMsg(ln, m, msg, Len(sd) + 1)
             off2 == SaidOff(ln, m, off)
         IN  /\ ln2 \in Seq(Pieces)
             /\ \A j \in DOMAIN ln2 : \/ j \in DOMAIN ln /\ msg2[j] = msg[j] /\ off2[j] = off[j]
                                      \/ j \notin DOMAIN ln /\ msg2[j] = Len(sd) + 1
             /\ msg2 \in [DOMAIN ln2 -> DOMAIN Append(sd, m)] /\ off2 \in [DOMAIN ln2 -> Nat \ {0}]
             /\ Labelled(Append(sd, m), ln2, msg2, off2)
<1> DEFINE M == Whole(m)
           sd2  == Append(sd, m)
           ln2  == ln \o M
           msg2 == SaidMsg(ln, m, msg, Len(sd) + 1)
           off2 == SaidOff(ln, m, off)
<1>1. /\ M \in Seq(Pieces) /\ Len(M) \in Nat /\ DOMAIN M = 1 .. Len(M)
  BY WholeParts, LenProperties
<1>2. /\ Len(ln) \in Nat /\ DOMAIN ln = 1 .. Len(ln)
      /\ Len(sd) \in Nat /\ DOMAIN sd = 1 .. Len(sd)
  BY LenProperties
<1>3. /\ sd2 = Append(sd, m) /\ ln2 = ln \o M
      /\ msg2 = [j \in DOMAIN ln2 |-> IF j <= Len(ln) THEN msg[j] ELSE Len(sd) + 1]
      /\ off2 = [j \in DOMAIN ln2 |-> IF j <= Len(ln) THEN off[j] ELSE j - Len(ln)]
  BY DEF SaidMsg, SaidOff
<1> HIDE DEF M, sd2, ln2, msg2, off2
<1>4. /\ ln2 \in Seq(Pieces) /\ Len(ln2) = Len(ln) + Len(M) /\ DOMAIN ln2 = 1 .. Len(ln) + Len(M)
      /\ \A j \in 1 .. Len(ln) + Len(M) : ln2[j] = IF j <= Len(ln) THEN ln[j] ELSE M[j - Len(ln)]
  BY <1>1, <1>3, ConcatProperties, LenProperties
<1>5. /\ DOMAIN sd2 = 1 .. Len(sd) + 1 /\ sd2[Len(sd) + 1] = m
      /\ \A k \in DOMAIN sd : sd2[k] = sd[k]
  BY <1>2, <1>3, AppendProperties
<1>6. \A j \in DOMAIN ln : /\ j \in DOMAIN ln2 /\ j <= Len(ln) /\ ln2[j] = ln[j]
                           /\ msg2[j] = msg[j] /\ off2[j] = off[j] /\ sd2[msg[j]] = sd[msg[j]]
  BY <1>1, <1>2, <1>3, <1>4, <1>5
<1>7. \A j \in DOMAIN ln2 \ DOMAIN ln :
        /\ j \in Nat /\ j > Len(ln) /\ j - Len(ln) \in 1 .. Len(M) /\ ln2[j] = M[j - Len(ln)]
        /\ msg2[j] = Len(sd) + 1 /\ off2[j] = j - Len(ln) /\ sd2[msg2[j]] = m
  <2> SUFFICES ASSUME NEW j \in DOMAIN ln2 \ DOMAIN ln
               PROVE  /\ j \in Nat /\ j > Len(ln) /\ j - Len(ln) \in 1 .. Len(M)
                      /\ ln2[j] = M[j - Len(ln)]
                      /\ msg2[j] = Len(sd) + 1 /\ off2[j] = j - Len(ln) /\ sd2[msg2[j]] = m
    OBVIOUS
  <2>1. j \in Nat /\ j > Len(ln) /\ j <= Len(ln) + Len(M)
    BY <1>1, <1>2, <1>4
  <2>2. ~(j <= Len(ln)) /\ j - Len(ln) \in 1 .. Len(M)
    BY <1>1, <1>2, <2>1
  <2>3. ln2[j] = M[j - Len(ln)]
    BY <1>4, <2>2
  <2>4. msg2[j] = Len(sd) + 1 /\ off2[j] = j - Len(ln)
    BY <1>3, <2>2
  <2> QED
    BY <1>5, <2>1, <2>2, <2>3, <2>4
<1>8. /\ msg2 \in [DOMAIN ln2 -> DOMAIN sd2] /\ off2 \in [DOMAIN ln2 -> Nat \ {0}]
  <2>1. \A j \in DOMAIN ln2 : msg2[j] \in DOMAIN sd2 /\ off2[j] \in Nat \ {0}
    <3>1. \A j \in DOMAIN ln : msg[j] \in 1 .. Len(sd) + 1 /\ off[j] \in Nat \ {0}
      BY <1>2
    <3>2. \A j \in DOMAIN ln2 \ DOMAIN ln : msg2[j] \in 1 .. Len(sd) + 1 /\ off2[j] \in Nat \ {0}
      BY <1>1, <1>2, <1>7
    <3> QED
      BY <1>5, <1>6, <3>1, <3>2
  <2> QED
    BY <1>3, <2>1
<1>9. \A j \in DOMAIN ln : Left(sd2, msg2, off2, j) = Left(sd, msg, off, j)
  BY <1>6 DEF Left
<1>10. \A j \in DOMAIN ln2 \ DOMAIN ln : Left(sd2, msg2, off2, j) = Len(M) - (j - Len(ln))
  BY <1>7 DEF Left, M
<1>11. \A j \in DOMAIN ln : Left(sd, msg, off, j) \in Int
  <2> SUFFICES ASSUME NEW j \in DOMAIN ln PROVE Left(sd, msg, off, j) \in Int
    OBVIOUS
  <2>1. sd[msg[j]] \in Messages
    BY ElementOfSeq
  <2>2. Len(Whole(sd[msg[j]])) \in Nat /\ off[j] \in Nat
    BY <2>1, WholeParts, LenProperties
  <2> QED
    BY <2>2 DEF Left
<1>12. ASSUME NEW j \in DOMAIN ln2
       PROVE  /\ ln2[j] = Whole(sd2[msg2[j]])[off2[j]]
              /\ 0 <= Left(sd2, msg2, off2, j)
              /\ j + Left(sd2, msg2, off2, j) <= Len(ln2)
  <2>1. CASE j \in DOMAIN ln
    <3>1. PICK f \in Int : f = Left(sd, msg, off, j)
      BY <1>11, <2>1
    <3>2. 0 <= f /\ j + f <= Len(ln) /\ ln[j] = Whole(sd[msg[j]])[off[j]]
      BY <2>1, <3>1 DEF Labelled
    <3>3. j \in Nat /\ j + f <= Len(ln) + Len(M)
      BY <1>1, <1>2, <2>1, <3>2
    <3> QED
      BY <1>4, <1>6, <1>9, <2>1, <3>1, <3>2, <3>3
  <2>2. CASE j \notin DOMAIN ln
    <3>1. Left(sd2, msg2, off2, j) = Len(M) - (j - Len(ln))
      BY <1>10, <2>2
    <3>2. ln2[j] = Whole(sd2[msg2[j]])[off2[j]]
      BY <1>7, <2>2 DEF M
    <3>3. j \in Nat /\ j - Len(ln) \in 1 .. Len(M)
      BY <1>7, <2>2
    <3>4. /\ 0 <= Len(M) - (j - Len(ln))
          /\ j + (Len(M) - (j - Len(ln))) <= Len(ln) + Len(M)
      BY <1>1, <1>2, <3>3
    <3> QED
      BY <1>4, <3>1, <3>2, <3>4
  <2> QED
    BY <2>1, <2>2
<1>13. ASSUME NEW j \in DOMAIN ln2, NEW l \in DOMAIN ln2
       PROVE  /\ j <= l /\ l <= j + Left(sd2, msg2, off2, j) =>
                   msg2[l] = msg2[j] /\ off2[l] = off2[j] + (l - j)
              /\ j < l => msg2[j] < msg2[l] \/ (msg2[j] = msg2[l] /\ off2[j] < off2[l])
  <2>1. CASE j \in DOMAIN ln /\ l \in DOMAIN ln
    BY <1>6, <1>9, <2>1 DEF Labelled
  <2>2. CASE j \in DOMAIN ln /\ l \notin DOMAIN ln
    <3>1. PICK f \in Int : f = Left(sd, msg, off, j)
      BY <1>11, <2>2
    <3>2. j + f <= Len(ln) /\ l > Len(ln) /\ l \in Nat
      BY <1>7, <2>2, <3>1 DEF Labelled
    <3>3. ~(l <= j + f)
      BY <1>2, <2>2, <3>1, <3>2
    <3>4. msg[j] \in 1 .. Len(sd) /\ msg2[j] = msg[j] /\ msg2[l] = Len(sd) + 1
      BY <1>2, <1>6, <1>7, <2>2
    <3>5. msg2[j] < msg2[l]
      BY <1>2, <3>4
    <3> QED
      BY <1>9, <2>2, <3>1, <3>3, <3>5
  <2>3. CASE j \notin DOMAIN ln /\ l \in DOMAIN ln
    <3>1. j > Len(ln) /\ l <= Len(ln) /\ j \in Nat /\ l \in Nat
      BY <1>2, <1>7, <2>3
    <3>2. ~(j <= l) /\ ~(j < l)
      BY <1>2, <3>1
    <3> QED
      BY <3>2
  <2>4. CASE j \notin DOMAIN ln /\ l \notin DOMAIN ln
    <3>1. /\ msg2[j] = Len(sd) + 1 /\ off2[j] = j - Len(ln) /\ j \in Nat
          /\ msg2[l] = Len(sd) + 1 /\ off2[l] = l - Len(ln) /\ l \in Nat
      BY <1>7, <2>4
    <3>2. /\ l - Len(ln) = (j - Len(ln)) + (l - j)
          /\ j < l => j - Len(ln) < l - Len(ln)
      BY <1>2, <3>1
    <3> QED
      BY <3>1, <3>2
  <2> QED
    BY <2>1, <2>2, <2>3, <2>4
<1>14. Labelled(sd2, ln2, msg2, off2)
  <2>1. \A j \in DOMAIN ln2 : ln2[j] = Whole(sd2[msg2[j]])[off2[j]]
    BY <1>12
  <2>2. \A j \in DOMAIN ln2 : /\ 0 <= Left(sd2, msg2, off2, j)
                              /\ j + Left(sd2, msg2, off2, j) <= Len(ln2)
    BY <1>12
  <2>3. \A j, l \in DOMAIN ln2 :
          j <= l /\ l <= j + Left(sd2, msg2, off2, j) =>
            msg2[l] = msg2[j] /\ off2[l] = off2[j] + (l - j)
    BY <1>13
  <2>4. \A j, l \in DOMAIN ln2 :
          j < l => msg2[j] < msg2[l] \/ (msg2[j] = msg2[l] /\ off2[j] < off2[l])
    BY <1>13
  <2> QED
    BY <2>1, <2>2, <2>3, <2>4 DEF Labelled
<1>15. \A j \in DOMAIN ln2 : \/ j \in DOMAIN ln /\ msg2[j] = msg[j] /\ off2[j] = off[j]
                             \/ j \notin DOMAIN ln /\ msg2[j] = Len(sd) + 1
  BY <1>6, <1>7
<1> QED
  BY <1>4, <1>8, <1>14, <1>15 DEF ln2, M, sd2, msg2, off2

\* What the trimmed text has is at the beginning of what was received.
LEMMA TrimShape ==
  ASSUME NEW ln \in Seq(Pieces), NEW n \in DOMAIN ln,
         NEW c \in Seq(Pieces), c = Trim(SubSeq(ln, 1, n)), c # <<>>
  PROVE  /\ Len(c) \in 1 .. n /\ Len(c) \in 1 .. Len(ln)
         /\ \A i \in 1 .. Len(c) : i \in DOMAIN ln /\ c[i] = ln[i]
<1> DEFINE t == SubSeq(ln, 1, n)
<1>1. Len(ln) \in Nat /\ DOMAIN ln = 1 .. Len(ln) /\ n \in Nat /\ n <= Len(ln)
  BY LenProperties
<1>2. DOMAIN t = 1 .. n /\ \A i \in 1 .. n : t[i] = ln[i]
  BY <1>1
<1>3. Len(c) \in Nat /\ DOMAIN c = 1 .. Len(c) /\ Len(c) # 0
  BY LenProperties, EmptySeq
<1>4. DOMAIN c \subseteq DOMAIN t /\ \A i \in DOMAIN c : c[i] = t[i]
  BY DEF Trim
<1>5. Len(c) \in 1 .. Len(c)
  BY <1>3
<1>6. Len(c) \in 1 .. n
  BY <1>2, <1>3, <1>4, <1>5
<1>7. \A i \in 1 .. Len(c) : i \in 1 .. n /\ c[i] = ln[i]
  BY <1>2, <1>3, <1>4
<1> QED
  BY <1>1, <1>6, <1>7

\* The line begins with all of a message that has been said, and that is c.
BeginsWith(sd, ln, msg, off, c) == 1 \in DOMAIN ln /\ c = sd[msg[1]] /\ off[1] = 1

\* What the router recognises begins at the first piece of a message and is all
\* of it, if the command is told from other messages.
LEMMA Recognised ==
  ASSUME NEW sd \in Seq(Messages), NEW ln \in Seq(Pieces),
         NEW msg \in [DOMAIN ln -> DOMAIN sd], NEW off \in [DOMAIN ln -> Nat \ {0}],
         Labelled(sd, ln, msg, off), NEW n \in DOMAIN ln,
         NEW c \in Commands, c = Trim(SubSeq(ln, 1, n)), c # <<>>, Told(c)
  PROVE  BeginsWith(sd, ln, msg, off, c)
<1>1. c \in Messages /\ c \in Seq(Pieces)
  BY MessageSeq, SockClientAssumption
<1>2. /\ Len(c) \in 1 .. Len(ln)
      /\ \A i \in 1 .. Len(c) : i \in DOMAIN ln /\ c[i] = ln[i]
  BY <1>1, TrimShape
<1>3. /\ Len(ln) \in Nat /\ DOMAIN ln = 1 .. Len(ln) /\ 1 \in DOMAIN ln
      /\ Len(c) \in Nat /\ DOMAIN c = 1 .. Len(c)
  <2>1. Len(ln) \in Nat /\ DOMAIN ln = 1 .. Len(ln)
    BY LenProperties
  <2>2. Len(c) \in Nat /\ DOMAIN c = 1 .. Len(c)
    BY <1>1, LenProperties
  <2> QED
    BY <1>2, <2>1, <2>2
<1> DEFINE m == sd[msg[1]]
<1>4. m \in Messages /\ m \in Seq(Pieces)
  <2>1. msg[1] \in DOMAIN sd
    BY <1>3
  <2>2. m \in Messages
    BY <2>1
  <2> QED
    BY <2>2, MessageSeq
<1>5. /\ Len(m) \in Nat /\ DOMAIN m = 1 .. Len(m) /\ Len(Terminator) \in Nat
      /\ Len(Whole(m)) = Len(m) + Len(Terminator)
      /\ \A i \in 1 .. Len(m) : Whole(m)[i] = m[i]
      /\ \A i \in Len(m) + 1 .. Len(Whole(m)) : Whole(m)[i] \in ToSet(Terminator)
  BY <1>4, WholeParts, LenProperties
<1>6. PICK p \in Nat \ {0} : p = off[1]
  BY <1>3
<1>7. PICK w \in Nat : w = Len(Whole(m))
  BY <1>5
<1>8. Left(sd, msg, off, 1) = w - p
  BY <1>6, <1>7 DEF Left
<1> HIDE DEF m
<1>9. Len(Terminator) # 0
  <2>1. Terminator \in Seq(Pieces) /\ Terminator # <<>>
    BY MessageSeq DEF Told
  <2> QED
    BY <2>1, EmptySeq
<1>10. \A i \in 1 .. Len(c) : ln[i] \notin ToSet(Terminator)
  <2>1. \A i \in 1 .. Len(c) : ln[i] \in ToSet(c)
    BY <1>2, <1>3 DEF ToSet
  <2> QED
    BY <2>1 DEF Told
<1>11. \A i \in DOMAIN ln : i <= 1 + (w - p) =>
         /\ off[i] = p + (i - 1)
         /\ ln[i] = Whole(m)[p + (i - 1)]
  <2> SUFFICES ASSUME NEW i \in DOMAIN ln, i <= 1 + (w - p)
               PROVE  off[i] = p + (i - 1) /\ ln[i] = Whole(m)[p + (i - 1)]
    OBVIOUS
  <2>1. 1 <= i
    BY <1>3
  <2>2. msg[i] = msg[1] /\ off[i] = off[1] + (i - 1)
    BY <1>3, <1>8, <2>1 DEF Labelled
  <2>3. ln[i] = Whole(sd[msg[i]])[off[i]]
    BY DEF Labelled
  <2> QED
    BY <1>6, <2>2, <2>3 DEF m
<1>12. 0 <= w - p /\ 1 + (w - p) <= Len(ln)
  BY <1>3, <1>8 DEF Labelled
<1>13. Len(c) <= w - p
  <2> SUFFICES ASSUME ~(Len(c) <= w - p) PROVE FALSE
    OBVIOUS
  <2>1. 1 + (w - p) \in 1 .. Len(c) /\ p + ((1 + (w - p)) - 1) = w
    BY <1>3, <1>12
  <2>2. 1 + (w - p) \in DOMAIN ln /\ 1 + (w - p) <= 1 + (w - p)
    BY <1>3, <1>12
  <2>3. ln[1 + (w - p)] = Whole(m)[w]
    BY <1>11, <2>1, <2>2
  <2>4. w \in Len(m) + 1 .. w
    BY <1>5, <1>7, <1>9
  <2>5. Whole(m)[w] \in ToSet(Terminator)
    BY <1>5, <1>7, <2>4
  <2> QED
    BY <1>10, <2>1, <2>3, <2>5
<1>14. \A i \in 1 .. Len(c) : c[i] = Whole(m)[p + (i - 1)] /\ p + (i - 1) <= Len(m)
  <2> SUFFICES ASSUME NEW i \in 1 .. Len(c)
               PROVE  c[i] = Whole(m)[p + (i - 1)] /\ p + (i - 1) <= Len(m)
    OBVIOUS
  <2>1. i \in Nat /\ i <= 1 + (w - p) /\ p + (i - 1) \in Nat /\ p + (i - 1) <= w
    BY <1>3, <1>13
  <2>2. ln[i] = Whole(m)[p + (i - 1)]
    BY <1>2, <1>11, <2>1
  <2>3. ASSUME ~(p + (i - 1) <= Len(m)) PROVE FALSE
    <3>1. p + (i - 1) \in Len(m) + 1 .. w
      BY <1>5, <2>1, <2>3
    <3>2. Whole(m)[p + (i - 1)] \in ToSet(Terminator)
      BY <1>5, <1>7, <3>1
    <3> QED
      BY <1>10, <2>2, <3>2
  <2> QED
    BY <1>2, <2>2, <2>3
<1>15. PICK q \in Nat : q = p + (Len(c) - 1)
  <2>1. p + (Len(c) - 1) \in Nat
    BY <1>2, <1>3
  <2> QED
    BY <2>1
<1>16. /\ Len(c) = q - p + 1 /\ Len(c) >= 1
       /\ p \in 1 .. Len(m) /\ q \in 1 .. Len(m)
  <2>1. Len(c) \in 1 .. Len(c)
    BY <1>2, <1>3
  <2>2. q <= Len(m)
    BY <1>14, <1>15, <2>1
  <2> QED
    BY <1>3, <1>5, <1>15, <2>1, <2>2
<1>17. c = SubSeq(m, p, q)
  <2>1. \A i \in p .. q : m[i] \in Pieces
    <3>1. \A i \in p .. q : i \in 1 .. Len(m)
      BY <1>5, <1>16
    <3> QED
      BY <1>4, <3>1, ElementOfSeq
  <2>2. /\ SubSeq(m, p, q) \in Seq(Pieces)
        /\ Len(SubSeq(m, p, q)) = IF p <= q THEN q - p + 1 ELSE 0
        /\ \A i \in 1 .. q - p + 1 : SubSeq(m, p, q)[i] = m[p + i - 1]
    BY <2>1, SubSeqProperties
  <2>3. p <= q
    BY <1>3, <1>16
  <2>4. \A i \in 1 .. Len(c) : c[i] = SubSeq(m, p, q)[i]
    <3> SUFFICES ASSUME NEW i \in 1 .. Len(c) PROVE c[i] = SubSeq(m, p, q)[i]
      OBVIOUS
    <3>1. p + (i - 1) = p + i - 1 /\ p + (i - 1) \in 1 .. Len(m)
      BY <1>3, <1>5, <1>14
    <3>2. c[i] = m[p + (i - 1)]
      BY <1>5, <1>14, <3>1
    <3>3. SubSeq(m, p, q)[i] = m[p + i - 1]
      BY <1>16, <2>2
    <3> QED
      BY <3>1, <3>2, <3>3
  <2>5. Len(c) = Len(SubSeq(m, p, q))
    BY <1>16, <2>2, <2>3
  <2> QED
    BY <1>1, <2>2, <2>4, <2>5, SeqEqual
<1>18. c = m
  <2> SUFFICES ASSUME c # m PROVE FALSE
    OBVIOUS
  <2>1. c \in {SubSeq(m, i, j) : i \in 1 .. Len(m), j \in 1 .. Len(m)}
    BY <1>16, <1>17
  <2>2. c \notin {<<>>, m}
    OBVIOUS
  <2>3. c \in Infixes(m)
    BY <2>1, <2>2 DEF Infixes
  <2>4. c \notin Infixes(m)
    BY <1>4, Zenon DEF Told
  <2> QED
    BY <2>3, <2>4, Zenon
<1>19. p = 1
  BY <1>5, <1>16, <1>18
<1> QED
  BY <1>3, <1>6, <1>18, <1>19 DEF m, BeginsWith

\* With the connection, what was on the line is gone; what was recognised stays.
LEMMA EmptyTraced ==
  ASSUME NEW sd, NEW hd, NEW ln, Traced(sd, hd, ln)
  PROVE  Traced(sd, hd, <<>>)
<1>1. PICK at \in [ToldPlaces(hd) -> DOMAIN sd] : Matched(sd, hd, at)
  BY DEF Traced
<1>2. DOMAIN <<>> = {}
  OBVIOUS
<1>3. <<>> \in [DOMAIN <<>> -> DOMAIN sd] /\ <<>> \in [DOMAIN <<>> -> Nat \ {0}]
  BY <1>2
<1>4. Labelled(sd, <<>>, <<>>, <<>>) /\ Later(hd, <<>>, at, <<>>, <<>>)
  BY <1>2 DEF Labelled, Later
<1> QED
  BY <1>1, <1>3, <1>4 DEF Traced

\* A new message comes after all that was recognised.
LEMMA SayTraced ==
  ASSUME NEW sd \in Seq(Messages), NEW hd, NEW ln \in Seq(Pieces), Traced(sd, hd, ln),
         NEW m \in Messages
  PROVE  ln \o Whole(m) \in Seq(Pieces) /\ Traced(Append(sd, m), hd, ln \o Whole(m))
<1>1. PICK at \in [ToldPlaces(hd) -> DOMAIN sd], msg \in [DOMAIN ln -> DOMAIN sd],
           off \in [DOMAIN ln -> Nat \ {0}] :
        Matched(sd, hd, at) /\ Labelled(sd, ln, msg, off) /\ Later(hd, ln, at, msg, off)
  BY DEF Traced
<1> DEFINE sd2  == Append(sd, m)
           ln2  == ln \o Whole(m)
           msg2 == SaidMsg(ln, m, msg, Len(sd) + 1)
           off2 == SaidOff(ln, m, off)
<1>2. /\ ln2 \in Seq(Pieces)
      /\ \A j \in DOMAIN ln2 : \/ j \in DOMAIN ln /\ msg2[j] = msg[j] /\ off2[j] = off[j]
                               \/ j \notin DOMAIN ln /\ msg2[j] = Len(sd) + 1
      /\ msg2 \in [DOMAIN ln2 -> DOMAIN sd2] /\ off2 \in [DOMAIN ln2 -> Nat \ {0}]
      /\ Labelled(sd2, ln2, msg2, off2)
  BY <1>1, SayLabelled
<1>3. /\ Len(sd) \in Nat /\ DOMAIN sd = 1 .. Len(sd) /\ DOMAIN sd2 = 1 .. Len(sd) + 1
      /\ \A k \in DOMAIN sd : sd2[k] = sd[k]
  <2>1. sd2 \in Seq(Messages) /\ Len(sd2) = Len(sd) + 1
    BY AppendProperties
  <2> QED
    BY <2>1, LenProperties, AppendProperties
<1> HIDE DEF sd2, ln2, msg2, off2
<1>4. at \in [ToldPlaces(hd) -> DOMAIN sd2] /\ Matched(sd2, hd, at)
  <2>1. DOMAIN sd \subseteq DOMAIN sd2
    BY <1>3
  <2>2. at \in [ToldPlaces(hd) -> DOMAIN sd2]
    BY <1>1, <2>1
  <2>3. \A i \in ToldPlaces(hd) : sd2[at[i]] = sd[at[i]]
    BY <1>1, <1>3
  <2> QED
    BY <1>1, <2>2, <2>3 DEF Matched
<1>5. Later(hd, ln2, at, msg2, off2)
  <2> SUFFICES ASSUME NEW i \in ToldPlaces(hd), NEW j \in DOMAIN ln2
               PROVE  at[i] < msg2[j] \/ (at[i] = msg2[j] /\ off2[j] > 1)
    BY DEF Later
  <2>1. CASE j \in DOMAIN ln
    BY <1>1, <1>2, <2>1 DEF Later
  <2>2. CASE j \notin DOMAIN ln
    <3>1. msg2[j] = Len(sd) + 1
      BY <1>2, <2>2
    <3>2. at[i] \in 1 .. Len(sd)
      BY <1>1, <1>3
    <3> QED
      BY <1>3, <3>1, <3>2
  <2> QED
    BY <2>1, <2>2
<1>6. Traced(sd2, hd, ln2)
  BY <1>2, <1>4, <1>5 DEF Traced
<1> QED
  BY <1>2, <1>6 DEF sd2, ln2

\* What recv() takes is gone from the line, whether it is recognised or not.
LEMMA CutTraced ==
  ASSUME NEW sd \in Seq(Messages), NEW hd, NEW ln \in Seq(Pieces), Traced(sd, hd, ln),
         NEW n \in DOMAIN ln
  PROVE  Rest(ln, n) \in Seq(Pieces) /\ Traced(sd, hd, Rest(ln, n))
<1>1. PICK at \in [ToldPlaces(hd) -> DOMAIN sd], msg \in [DOMAIN ln -> DOMAIN sd],
           off \in [DOMAIN ln -> Nat \ {0}] :
        Matched(sd, hd, at) /\ Labelled(sd, ln, msg, off) /\ Later(hd, ln, at, msg, off)
  BY DEF Traced
<1> DEFINE rest == Rest(ln, n)
           msg2 == RestLabel(ln, n, msg)
           off2 == RestLabel(ln, n, off)
<1>2. /\ rest \in Seq(Pieces)
      /\ \A j \in DOMAIN rest : /\ j + n \in DOMAIN ln
                                /\ msg2[j] = msg[j + n] /\ off2[j] = off[j + n]
      /\ msg2 \in [DOMAIN rest -> DOMAIN sd] /\ off2 \in [DOMAIN rest -> Nat \ {0}]
      /\ Labelled(sd, rest, msg2, off2)
  <2>1. /\ Rest(ln, n) \in Seq(Pieces)
        /\ RestLabel(ln, n, msg) \in [DOMAIN Rest(ln, n) -> DOMAIN sd]
        /\ RestLabel(ln, n, off) \in [DOMAIN Rest(ln, n) -> Nat \ {0}]
        /\ Labelled(sd, Rest(ln, n), RestLabel(ln, n, msg), RestLabel(ln, n, off))
    BY <1>1, CutLabelled, Zenon
  <2>2. LabelsMoved(ln, n, msg, off)
    BY <1>1, CutLabelled, Zenon
  <2> QED
    BY <2>1, <2>2 DEF LabelsMoved
<1> HIDE DEF rest, msg2, off2
<1>3. Later(hd, rest, at, msg2, off2)
  BY <1>1, <1>2 DEF Later
<1>4. Traced(sd, hd, rest)
  BY <1>1, <1>2, <1>3 DEF Traced
<1> QED
  BY <1>2, <1>4 DEF rest

\* A command that is recognised takes its place after the others; it is among
\* those told from other messages, or they stay the same.
LEMMA HeardPlaces ==
  ASSUME NEW hd \in Seq(Commands), NEW c \in Commands
  PROVE  /\ Len(hd) \in Nat /\ DOMAIN hd = 1 .. Len(hd)
         /\ \A i \in DOMAIN hd : Append(hd, c)[i] = hd[i]
         /\ Append(hd, c)[Len(hd) + 1] = c
         /\ Told(c) => ToldPlaces(Append(hd, c)) = ToldPlaces(hd) \cup {Len(hd) + 1}
         /\ ~Told(c) => ToldPlaces(Append(hd, c)) = ToldPlaces(hd)
<1>1. /\ Append(hd, c) \in Seq(Commands) /\ Len(Append(hd, c)) = Len(hd) + 1
      /\ \A i \in 1 .. Len(hd) : Append(hd, c)[i] = hd[i]
      /\ Append(hd, c)[Len(hd) + 1] = c
  BY AppendProperties
<1>2. Len(hd) \in Nat /\ DOMAIN hd = 1 .. Len(hd)
  BY LenProperties
<1>3. DOMAIN Append(hd, c) = DOMAIN hd \cup {Len(hd) + 1}
  <2>1. DOMAIN Append(hd, c) = 1 .. Len(hd) + 1
    BY <1>1, LenProperties
  <2> QED
    BY <1>2, <2>1
<1> QED
  BY <1>1, <1>2, <1>3 DEF ToldPlaces

\* A command that may be a part of another message leaves all this as it was.
LEMMA UntoldTraced ==
  ASSUME NEW sd, NEW hd \in Seq(Commands), NEW ln, Traced(sd, hd, ln),
         NEW c \in Commands, ~Told(c)
  PROVE  Traced(sd, Append(hd, c), ln)
<1> DEFINE hd2 == Append(hd, c)
<1>1. ToldPlaces(hd2) = ToldPlaces(hd) /\ \A i \in ToldPlaces(hd) : hd2[i] = hd[i]
  BY HeardPlaces DEF ToldPlaces
<1> HIDE DEF hd2
<1>2. PICK at \in [ToldPlaces(hd) -> DOMAIN sd], msg \in [DOMAIN ln -> DOMAIN sd],
           off \in [DOMAIN ln -> Nat \ {0}] :
        Matched(sd, hd, at) /\ Labelled(sd, ln, msg, off) /\ Later(hd, ln, at, msg, off)
  BY DEF Traced
<1>3. at \in [ToldPlaces(hd2) -> DOMAIN sd]
  BY <1>1, <1>2
<1>4. Matched(sd, hd2, at)
  BY <1>1, <1>2 DEF Matched
<1>5. Later(hd2, ln, at, msg, off)
  BY <1>1, <1>2 DEF Later
<1>6. Traced(sd, hd2, ln)
  BY <1>2, <1>3, <1>4, <1>5 DEF Traced
<1> QED
  BY <1>6 DEF hd2

\* A told command that is recognised is the message that the line began with,
\* which comes after all that were recognised before.
LEMMA HearTraced ==
  ASSUME NEW sd \in Seq(Messages), NEW hd \in Seq(Commands), NEW ln \in Seq(Pieces),
         Traced(sd, hd, ln), NEW n \in DOMAIN ln,
         NEW c \in Commands, c = Trim(SubSeq(ln, 1, n)), c # <<>>, Told(c)
  PROVE  Traced(sd, Append(hd, c), Rest(ln, n))
<1> DEFINE rest == Rest(ln, n)
           hd2  == Append(hd, c)
<1>1. PICK at \in [ToldPlaces(hd) -> DOMAIN sd], msg \in [DOMAIN ln -> DOMAIN sd],
           off \in [DOMAIN ln -> Nat \ {0}] :
        Matched(sd, hd, at) /\ Labelled(sd, ln, msg, off) /\ Later(hd, ln, at, msg, off)
  BY DEF Traced
<1>2. 1 \in DOMAIN ln /\ c = sd[msg[1]] /\ off[1] = 1
  <2>1. BeginsWith(sd, ln, msg, off, c)
    BY <1>1, Recognised, Zenon
  <2> QED
    BY <2>1 DEF BeginsWith
<1> DEFINE msg2 == RestLabel(ln, n, msg)
           off2 == RestLabel(ln, n, off)
           at2  == [i \in ToldPlaces(hd2) |-> IF i \in DOMAIN hd THEN at[i] ELSE msg[1]]
<1>3. /\ rest \in Seq(Pieces)
      /\ \A j \in DOMAIN rest : /\ j + n \in DOMAIN ln /\ j + n > 1
                                /\ msg2[j] = msg[j + n] /\ off2[j] = off[j + n]
      /\ msg2 \in [DOMAIN rest -> DOMAIN sd] /\ off2 \in [DOMAIN rest -> Nat \ {0}]
      /\ Labelled(sd, rest, msg2, off2)
  <2>1. /\ Rest(ln, n) \in Seq(Pieces)
        /\ RestLabel(ln, n, msg) \in [DOMAIN Rest(ln, n) -> DOMAIN sd]
        /\ RestLabel(ln, n, off) \in [DOMAIN Rest(ln, n) -> Nat \ {0}]
        /\ Labelled(sd, Rest(ln, n), RestLabel(ln, n, msg), RestLabel(ln, n, off))
    BY <1>1, CutLabelled, Zenon
  <2>2. LabelsMoved(ln, n, msg, off)
    BY <1>1, CutLabelled, Zenon
  <2> QED
    BY <2>1, <2>2 DEF LabelsMoved
<1>5. /\ Len(hd) \in Nat /\ DOMAIN hd = 1 .. Len(hd)
      /\ ToldPlaces(hd2) = ToldPlaces(hd) \cup {Len(hd) + 1}
      /\ \A i \in ToldPlaces(hd) : i \in DOMAIN hd /\ hd2[i] = hd[i]
      /\ hd2[Len(hd) + 1] = c
      /\ Len(sd) \in Nat /\ DOMAIN sd = 1 .. Len(sd)
  <2>1. Len(sd) \in Nat /\ DOMAIN sd = 1 .. Len(sd)
    BY LenProperties
  <2> QED
    BY <2>1, HeardPlaces DEF ToldPlaces
<1>6. \A i \in ToldPlaces(hd2) :
        \/ i \in ToldPlaces(hd) /\ i \in DOMAIN hd /\ i <= Len(hd) /\ at2[i] = at[i]
        \/ i \notin DOMAIN hd /\ i = Len(hd) + 1 /\ at2[i] = msg[1]
  BY <1>5
<1>7. at2 \in [ToldPlaces(hd2) -> DOMAIN sd]
  BY <1>1, <1>2, <1>5
<1>8. msg[1] \in Nat /\ \A i \in ToldPlaces(hd) : at[i] \in Nat /\ at[i] < msg[1]
  <2>1. msg[1] \in Nat /\ \A i \in ToldPlaces(hd) : at[i] \in Nat
    BY <1>1, <1>2, <1>5
  <2>2. \A i \in ToldPlaces(hd) : at[i] < msg[1] \/ off[1] > 1
    BY <1>1, <1>2 DEF Later
  <2>3. ~(off[1] > 1)
    BY <1>2
  <2> QED
    BY <2>1, <2>2, <2>3
<1>9. \A j \in DOMAIN rest :
        /\ msg[j + n] \in Nat /\ off[j + n] \in Nat
        /\ msg[1] < msg[j + n] \/ (msg[1] = msg[j + n] /\ off[j + n] > 1)
  <2> SUFFICES ASSUME NEW j \in DOMAIN rest
               PROVE  /\ msg[j + n] \in Nat /\ off[j + n] \in Nat
                      /\ msg[1] < msg[j + n] \/ (msg[1] = msg[j + n] /\ off[j + n] > 1)
    OBVIOUS
  <2>1. j + n \in DOMAIN ln /\ 1 < j + n
    BY <1>3
  <2>2. msg[1] < msg[j + n] \/ (msg[1] = msg[j + n] /\ off[1] < off[j + n])
    BY <1>1, <1>2, <2>1 DEF Labelled
  <2>3. msg[j + n] \in Nat /\ off[j + n] \in Nat
    BY <1>1, <1>5, <2>1
  <2> QED
    BY <1>2, <2>2, <2>3
<1> HIDE DEF rest, hd2, msg2, off2, at2
<1>10. Matched(sd, hd2, at2)
  <2>1. \A i \in ToldPlaces(hd2) : hd2[i] = sd[at2[i]]
    BY <1>1, <1>2, <1>5, <1>6 DEF Matched
  <2>2. ASSUME NEW i \in ToldPlaces(hd2), NEW j \in ToldPlaces(hd2), i < j PROVE at2[i] < at2[j]
    <3>1. i \in ToldPlaces(hd) /\ i <= Len(hd) /\ at2[i] = at[i]
      BY <1>5, <1>6, <2>2
    <3>2. CASE j \in DOMAIN hd
      BY <1>1, <1>6, <2>2, <3>1, <3>2 DEF Matched
    <3>3. CASE j \notin DOMAIN hd
      BY <1>6, <1>8, <3>1, <3>3
    <3> QED
      BY <3>2, <3>3
  <2> QED
    BY <2>1, <2>2 DEF Matched
<1>11. Later(hd2, rest, at2, msg2, off2)
  <2> SUFFICES ASSUME NEW i \in ToldPlaces(hd2), NEW j \in DOMAIN rest
               PROVE  at2[i] < msg[j + n] \/ (at2[i] = msg[j + n] /\ off[j + n] > 1)
    BY <1>3 DEF Later
  <2>1. CASE i \in DOMAIN hd
    <3>1. at2[i] = at[i] /\ at[i] \in Nat /\ at[i] < msg[1]
      BY <1>6, <1>8, <2>1
    <3>2. \A a, b, k \in Nat : a < b /\ (b < k \/ b = k) => a < k
      OBVIOUS
    <3>3. at[i] < msg[j + n]
      BY <1>8, <1>9, <3>1, <3>2
    <3> QED
      BY <3>1, <3>3
  <2>2. CASE i \notin DOMAIN hd
    <3>1. at2[i] = msg[1]
      BY <1>6, <2>2
    <3> QED
      BY <1>9, <3>1
  <2> QED
    BY <2>1, <2>2
<1>12. Traced(sd, hd2, rest)
  BY <1>3, <1>7, <1>10, <1>11 DEF Traced
<1> QED
  BY <1>12 DEF rest, hd2

LEMMA InitStream == Init => StreamInv
<1> SUFFICES ASSUME Init PROVE StreamInv
  OBVIOUS
<1>1. said = <<>> /\ heard = <<>> /\ line = <<>> /\ DOMAIN <<>> = {}
  BY DEF Init
<1>2. <<>> \in [{} -> {}] /\ <<>> \in [{} -> Nat \ {0}]
  OBVIOUS
<1>3. Matched(<<>>, <<>>, <<>>) /\ Labelled(<<>>, <<>>, <<>>, <<>>) /\ Later(<<>>, <<>>, <<>>, <<>>, <<>>)
  BY <1>1 DEF Matched, Labelled, Later, ToldPlaces
<1>4. Traced(<<>>, <<>>, <<>>)
  BY <1>1, <1>2, <1>3 DEF Traced, ToldPlaces
<1> QED
  BY <1>1, <1>4 DEF StreamInv

LEMMA NextStream == StreamInv /\ [Next]_vars => StreamInv'
<1> SUFFICES ASSUME StreamInv, [Next]_vars PROVE StreamInv'
  OBVIOUS
<1>1. ASSUME said' = said, heard' = heard, line' = line PROVE StreamInv'
  BY <1>1 DEF StreamInv
<1>2. ASSUME said' = said, heard' = heard, line' = <<>> PROVE StreamInv'
  <2>1. Traced(said, heard, <<>>)
    BY EmptyTraced DEF StreamInv
  <2> QED
    BY <1>2, <2>1 DEF StreamInv
<1>3. CASE Start
  BY <1>1, <1>2, <1>3 DEF Start, NewSocket, socket, peer
<1>4. CASE Open
  BY <1>2, <1>4 DEF Open, NewSocket, peer
<1>5. CASE Finish \/ ReceiveEnd
  BY <1>2, <1>5 DEF Finish, ReceiveEnd, CloseSocket, peer
<1>6. CASE OpenFails \/ Wake \/ Enter \/ ConnectOk \/ ConnectFails
  BY <1>1, <1>6 DEF OpenFails, Wake, Enter, ConnectOk, ConnectFails, socket, peer
<1>7. CASE ReceiveError \/ SendNothing \/ Send
  BY <1>1, <1>7 DEF ReceiveError, SendNothing, Send, socket, peer
<1>8. CASE Push \/ OtherOpens \/ OtherCloses \/ Stop \/ HangUp
  BY <1>1, <1>8 DEF Push, OtherOpens, OtherCloses, Stop, HangUp, thread, socket, peer
<1>9. CASE UNCHANGED vars
  BY <1>1, <1>9 DEF vars, thread, socket, peer
<1>10. CASE Say
  <2>1. PICK m \in Messages : said' = Append(said, m) /\ line' = line \o m \o Terminator
    BY <1>10 DEF Say
  <2>2. heard' = heard
    BY <1>10 DEF Say, thread
  <2>3. line' = line \o Whole(m)
    <3>1. line \in Seq(Pieces)
      BY DEF StreamInv
    <3> QED
      BY <2>1, <3>1, WholeJoins
  <2>4. line' \in Seq(Pieces) /\ Traced(said', heard, line')
    BY <2>1, <2>3, SayTraced DEF StreamInv
  <2>5. said' \in Seq(Messages)
    BY <2>1, AppendProperties DEF StreamInv
  <2> QED
    BY <2>2, <2>4, <2>5 DEF StreamInv
<1>11. CASE ReceiveData
  <2>1. PICK n \in 1 .. Len(line) : /\ Process(Trim(SubSeq(line, 1, n)))
                                    /\ line' = Rest(line, n)
    BY <1>11 DEF ReceiveData, Rest
  <2>2. said' = said
    BY <1>11 DEF ReceiveData, peer
  <2> DEFINE c == Trim(SubSeq(line, 1, n))
  <2> HIDE DEF c
  <2>3. line' \in Seq(Pieces) /\ Traced(said, heard, line')
    BY <2>1, CutTraced DEF StreamInv
  <2>4. CASE c # <<>> /\ c \in Commands
    <3>1. heard' = Append(heard, c)
      BY <2>1, <2>4 DEF Process, c
    <3>2. Traced(said, Append(heard, c), line')
      <4>1. CASE Told(c)
        BY <2>1, <2>4, <4>1, HearTraced DEF StreamInv, c
      <4>2. CASE ~Told(c)
        BY <2>3, <2>4, <4>2, UntoldTraced DEF StreamInv
      <4> QED
        BY <4>1, <4>2
    <3>3. heard' \in Seq(Commands)
      BY <2>4, <3>1, AppendProperties DEF StreamInv
    <3> QED
      BY <2>2, <2>3, <3>1, <3>2, <3>3 DEF StreamInv
  <2>5. CASE ~(c # <<>> /\ c \in Commands)
    <3>1. heard' = heard
      BY <2>1, <2>5 DEF Process, c
    <3> QED
      BY <2>2, <2>3, <3>1 DEF StreamInv
  <2> QED
    BY <2>4, <2>5
<1> QED
  BY <1>3, <1>4, <1>5, <1>6, <1>7, <1>8, <1>9, <1>10, <1>11 DEF Next, ThreadStep, Outside

------------------------------------------------------------------------------
(* Where in what the peer has sent the commands are.                       *)

(* The line is the end of what was sent, as long as it is connected.       *)
IsRest(st, ln) ==
  /\ Len(ln) <= Len(st)
  /\ \A j \in DOMAIN ln : ln[j] = st[(Len(st) - Len(ln)) + j]

(* The command at place a is a stretch that begins there.                  *)
Stretch(st, c, a) == \A j \in DOMAIN c : c[j] = st[a + j]

(* The commands are stretches that follow each other, all within the first *)
(* k pieces sent.                                                          *)
Placed(st, hd, at, k) ==
  /\ \A i \in DOMAIN hd : Stretch(st, hd[i], at[i]) /\ at[i] + Len(hd[i]) <= k
  /\ \A i, j \in DOMAIN hd : i < j => at[i] + Len(hd[i]) <= at[j]

Received == Len(sent) - Len(line)

StretchInv ==
  /\ sent \in Seq(Pieces) /\ heard \in Seq(Commands) /\ line \in Seq(Pieces)
  /\ IsRest(sent, line)
  /\ \E at \in [DOMAIN heard -> Nat] : Placed(sent, heard, at, Received)

\* The commands recognised are sequences.
LEMMA StretchLengths ==
  ASSUME StretchInv
  PROVE  \A i \in DOMAIN heard : Len(heard[i]) \in Nat /\ DOMAIN heard[i] = 1 .. Len(heard[i])
<1>1. \A i \in DOMAIN heard : heard[i] \in Commands
  BY ElementOfSeq DEF StretchInv
<1>2. \A i \in DOMAIN heard : heard[i] \in Seq(Pieces)
  BY <1>1, MessageSeq, SockClientAssumption
<1> QED
  BY <1>2, LenProperties

\* Stretches of what was received are stretches of what was sent.
LEMMA StretchProperty == StretchInv => CommandsFromStream
<1> SUFFICES ASSUME StretchInv PROVE CommandsFromStream
  OBVIOUS
<1>1. PICK at \in [DOMAIN heard -> Nat] : Placed(sent, heard, at, Received)
  BY DEF StretchInv
<1>2. \A i \in DOMAIN heard : Len(heard[i]) \in Nat
  BY StretchLengths
<1>3. Len(sent) \in Nat /\ Len(line) \in Nat
  BY LenProperties DEF StretchInv
<1>4. ASSUME NEW i \in DOMAIN heard
      PROVE  at[i] \in 0 .. Len(sent) /\ at[i] + Len(heard[i]) <= Len(sent)
  <2>1. at[i] + Len(heard[i]) <= Len(sent) - Len(line)
    BY <1>1 DEF Placed, Received
  <2> QED
    BY <1>2, <1>3, <2>1
<1>5. at \in [DOMAIN heard -> 0 .. Len(sent)]
  BY <1>4
<1>6. \A i \in DOMAIN heard : \A j \in DOMAIN heard[i] : heard[i][j] = sent[at[i] + j]
  BY <1>1 DEF Placed, Stretch
<1>7. \A i, j \in DOMAIN heard : i < j => at[i] + Len(heard[i]) <= at[j]
  BY <1>1 DEF Placed
<1> QED
  BY <1>4, <1>5, <1>6, <1>7 DEF CommandsFromStream

LEMMA InitStretch == Init => StretchInv
<1> SUFFICES ASSUME Init PROVE StretchInv
  OBVIOUS
<1>1. sent = <<>> /\ heard = <<>> /\ line = <<>> /\ DOMAIN <<>> = {} /\ Len(<<>>) = 0
  BY DEF Init
<1>2. <<>> \in [DOMAIN heard -> Nat] /\ Placed(sent, heard, <<>>, Received)
  BY <1>1 DEF Placed
<1>3. IsRest(sent, line)
  BY <1>1 DEF IsRest
<1>4. /\ sent \in Seq(Pieces) /\ heard \in Seq(Commands) /\ line \in Seq(Pieces)
  BY <1>1
<1>5. \E at \in [DOMAIN heard -> Nat] : Placed(sent, heard, at, Received)
  BY <1>2
<1> QED
  BY <1>3, <1>4, <1>5 DEF StretchInv

\* What is lost with a connection counts as received; no command comes of it.
LEMMA StretchLost ==
  ASSUME StretchInv, sent' = sent, heard' = heard, line' = <<>>
  PROVE  StretchInv'
<1>1. PICK at \in [DOMAIN heard -> Nat] : Placed(sent, heard, at, Received)
  BY DEF StretchInv
<1>2. Len(sent) \in Nat /\ Len(line) \in Nat /\ Len(<<>>) = 0 /\ DOMAIN <<>> = {}
  BY LenProperties DEF StretchInv
<1>3. \A i \in DOMAIN heard : Len(heard[i]) \in Nat
  BY StretchLengths
<1>4. Placed(sent, heard, at, Len(sent))
  <2>1. \A i \in DOMAIN heard : at[i] + Len(heard[i]) <= Len(sent)
    BY <1>1, <1>2, <1>3 DEF Placed, Received
  <2> QED
    BY <1>1, <2>1 DEF Placed
<1>5. Received' = Len(sent)
  BY <1>2 DEF Received
<1>6. IsRest(sent', line')
  BY <1>2 DEF IsRest
<1> QED
  BY <1>4, <1>5, <1>6 DEF StretchInv

\* A new message comes after all that was sent.
LEMMA StretchSaid ==
  ASSUME StretchInv, NEW m \in Messages, heard' = heard,
         sent' = sent \o m \o Terminator, line' = line \o m \o Terminator
  PROVE  StretchInv'
<1> DEFINE M == Whole(m)
<1>1. /\ M \in Seq(Pieces) /\ sent' = sent \o M /\ line' = line \o M
  <2>1. sent \in Seq(Pieces) /\ line \in Seq(Pieces)
    BY DEF StretchInv
  <2>2. sent' = sent \o M
    BY <2>1, WholeJoins
  <2>3. line' = line \o M
    BY <2>1, WholeJoins
  <2> QED
    BY <2>2, <2>3, WholeParts
<1> HIDE DEF M
<1>2. /\ Len(sent) \in Nat /\ Len(line) \in Nat /\ Len(M) \in Nat /\ Len(line) <= Len(sent)
      /\ DOMAIN line = 1 .. Len(line)
  BY <1>1, LenProperties DEF StretchInv, IsRest
<1>3. /\ sent' \in Seq(Pieces) /\ Len(sent') = Len(sent) + Len(M)
      /\ \A j \in 1 .. Len(sent) + Len(M) :
           sent'[j] = IF j <= Len(sent) THEN sent[j] ELSE M[j - Len(sent)]
  BY <1>1, ConcatProperties DEF StretchInv
<1>4. /\ line' \in Seq(Pieces) /\ Len(line') = Len(line) + Len(M)
      /\ \A j \in 1 .. Len(line) + Len(M) :
           line'[j] = IF j <= Len(line) THEN line[j] ELSE M[j - Len(line)]
  BY <1>1, ConcatProperties DEF StretchInv
<1>5. DOMAIN line' = 1 .. Len(line) + Len(M)
  BY <1>4, LenProperties
<1>6. PICK k \in Nat : k = Len(sent) - Len(line)
  <2>1. Len(sent) - Len(line) \in Nat
    BY <1>2
  <2> QED
    BY <2>1
<1>7. Received = k /\ Len(sent') - Len(line') = k
  BY <1>2, <1>3, <1>4, <1>6 DEF Received
<1>8. IsRest(sent', line')
  <2>1. Len(line') <= Len(sent')
    BY <1>2, <1>3, <1>4
  <2>2. ASSUME NEW j \in DOMAIN line' PROVE line'[j] = sent'[k + j]
    <3>1. j \in 1 .. Len(line) + Len(M) /\ k + j \in 1 .. Len(sent) + Len(M)
      BY <1>2, <1>5, <1>6
    <3>2. CASE j <= Len(line)
      <4>1. k + j <= Len(sent) /\ j \in DOMAIN line
        BY <1>2, <1>6, <3>1, <3>2
      <4>2. line[j] = sent[k + j]
        BY <1>6, <4>1 DEF StretchInv, IsRest
      <4> QED
        BY <1>3, <1>4, <3>1, <3>2, <4>1, <4>2
    <3>3. CASE ~(j <= Len(line))
      <4>1. ~(k + j <= Len(sent)) /\ (k + j) - Len(sent) = j - Len(line)
        BY <1>2, <1>6, <3>1, <3>3
      <4> QED
        BY <1>3, <1>4, <3>1, <3>3, <4>1
    <3> QED
      BY <3>2, <3>3
  <2> QED
    BY <1>7, <2>1, <2>2 DEF IsRest
<1>9. PICK at \in [DOMAIN heard -> Nat] : Placed(sent, heard, at, k)
  BY <1>7 DEF StretchInv
<1>10. ASSUME NEW i \in DOMAIN heard PROVE Stretch(sent', heard[i], at[i])
  <2> SUFFICES ASSUME NEW j \in DOMAIN heard[i] PROVE heard[i][j] = sent'[at[i] + j]
    BY DEF Stretch
  <2>1. heard[i][j] = sent[at[i] + j]
    BY <1>9 DEF Placed, Stretch
  <2>2. Len(heard[i]) \in Nat /\ DOMAIN heard[i] = 1 .. Len(heard[i])
    BY StretchLengths
  <2>3. at[i] \in Nat /\ at[i] + Len(heard[i]) <= k
    BY <1>9 DEF Placed
  <2>4. at[i] + j \in 1 .. Len(sent)
    BY <1>2, <1>6, <2>2, <2>3
  <2>5. at[i] + j \in 1 .. Len(sent) + Len(M) /\ at[i] + j <= Len(sent)
    BY <1>2, <2>4
  <2> QED
    BY <1>3, <2>1, <2>5
<1>11. Placed(sent', heard, at, k)
  BY <1>9, <1>10 DEF Placed
<1>12. Received' = k
  BY <1>7 DEF Received
<1> QED
  BY <1>3, <1>4, <1>8, <1>9, <1>11, <1>12 DEF StretchInv

\* What recv() takes begins where the rest of the line began, and so does the
\* command that is recognised in it.
LEMMA StretchReceived ==
  ASSUME StretchInv, NEW n \in DOMAIN line, sent' = sent, line' = Rest(line, n),
         Process(Trim(SubSeq(line, 1, n)))
  PROVE  StretchInv'
<1> DEFINE c == Trim(SubSeq(line, 1, n))
<1>1. heard' = IF c # <<>> /\ c \in Commands THEN Append(heard, c) ELSE heard
  BY DEF Process
<1> HIDE DEF c
<1>2. /\ Len(sent) \in Nat /\ Len(line) \in Nat /\ Len(line) <= Len(sent)
      /\ DOMAIN line = 1 .. Len(line) /\ n \in Nat /\ 1 <= n /\ n <= Len(line)
  BY LenProperties DEF StretchInv, IsRest
<1>3. /\ line' \in Seq(Pieces) /\ Len(line') = Len(line) - n /\ DOMAIN line' = 1 .. Len(line) - n
      /\ \A j \in 1 .. Len(line) - n : line'[j] = line[j + n]
  <2>1. /\ line' \in Seq(Pieces) /\ Len(line') = Len(line) - n
        /\ \A j \in 1 .. Len(line) - n : line'[j] = line[j + n]
    BY <1>2, RestShape DEF Rest, StretchInv
  <2> QED
    BY <2>1, LenProperties
<1>4. PICK k \in Nat : k = Len(sent) - Len(line)
  <2>1. Len(sent) - Len(line) \in Nat
    BY <1>2
  <2> QED
    BY <2>1
<1>5. Received = k /\ Received' = k + n
  BY <1>2, <1>3, <1>4 DEF Received
<1>6. IsRest(sent', line')
  <2>1. Len(line') <= Len(sent)
    BY <1>2, <1>3
  <2>2. ASSUME NEW j \in DOMAIN line' PROVE line'[j] = sent[(Len(sent) - Len(line')) + j]
    <3>1. j + n \in DOMAIN line /\ j \in 1 .. Len(line) - n
      BY <1>2, <1>3
    <3>2. line'[j] = line[j + n]
      BY <1>3, <3>1
    <3>3. line[j + n] = sent[(Len(sent) - Len(line)) + (j + n)]
      BY <3>1 DEF StretchInv, IsRest
    <3>4. (Len(sent) - Len(line)) + (j + n) = (Len(sent) - Len(line')) + j
      BY <1>2, <1>3, <3>1
    <3> QED
      BY <3>2, <3>3, <3>4
  <2> QED
    BY <2>1, <2>2 DEF IsRest
<1>7. PICK at \in [DOMAIN heard -> Nat] : Placed(sent, heard, at, k)
  BY <1>5 DEF StretchInv
<1>8. \A i \in DOMAIN heard : Len(heard[i]) \in Nat /\ at[i] + Len(heard[i]) <= k
  BY <1>7, StretchLengths DEF Placed
<1>9. CASE c # <<>> /\ c \in Commands
  <2> DEFINE hd2 == Append(heard, c)
             at2 == [i \in DOMAIN hd2 |-> IF i \in DOMAIN heard THEN at[i] ELSE k]
  <2>1. heard' = hd2 /\ hd2 \in Seq(Commands)
    BY <1>1, <1>9, AppendProperties DEF StretchInv
  <2>2. /\ Len(heard) \in Nat /\ DOMAIN heard = 1 .. Len(heard)
        /\ \A i \in DOMAIN heard : hd2[i] = heard[i]
        /\ hd2[Len(heard) + 1] = c
    BY <1>9, HeardPlaces DEF StretchInv
  <2>3. DOMAIN hd2 = 1 .. Len(heard) + 1
    BY <2>1, LenProperties, AppendProperties DEF StretchInv
  <2>4. \A i \in DOMAIN hd2 :
          \/ i \in DOMAIN heard /\ at2[i] = at[i] /\ hd2[i] = heard[i] /\ i <= Len(heard)
          \/ i \notin DOMAIN heard /\ i = Len(heard) + 1 /\ at2[i] = k /\ hd2[i] = c
    BY <2>2, <2>3
  <2>5. at2 \in [DOMAIN hd2 -> Nat]
    OBVIOUS
  <2>6. c \in Seq(Pieces) /\ Len(c) \in Nat /\ DOMAIN c = 1 .. Len(c)
    <3>1. c \in Seq(Pieces)
      BY <1>9, MessageSeq, SockClientAssumption
    <3> QED
      BY <3>1, LenProperties
  <2>7. Len(c) <= n /\ \A i \in 1 .. Len(c) : i \in DOMAIN line /\ c[i] = line[i]
    <3>1. Len(c) \in 1 .. n /\ \A i \in 1 .. Len(c) : i \in DOMAIN line /\ c[i] = line[i]
      BY <1>9, <2>6, TrimShape DEF c, StretchInv
    <3> QED
      BY <1>2, <2>6, <3>1
  <2>8. Stretch(sent, c, k)
    <3> SUFFICES ASSUME NEW j \in DOMAIN c PROVE c[j] = sent[k + j]
      BY DEF Stretch
    <3>1. j \in DOMAIN line /\ c[j] = line[j]
      BY <2>6, <2>7
    <3> QED
      BY <1>4, <3>1 DEF StretchInv, IsRest
  <2> HIDE DEF hd2, at2
  <2>9. ASSUME NEW i \in DOMAIN hd2
        PROVE  Stretch(sent, hd2[i], at2[i]) /\ at2[i] + Len(hd2[i]) <= k + n
    <3>1. CASE i \in DOMAIN heard
      <4>1. Stretch(sent, heard[i], at[i])
        BY <1>7, <3>1 DEF Placed
      <4>2. at[i] + Len(heard[i]) <= k + n
        BY <1>2, <1>8, <3>1
      <4> QED
        BY <2>4, <3>1, <4>1, <4>2
    <3>2. CASE i \notin DOMAIN heard
      <4>1. k + Len(c) <= k + n
        BY <1>2, <2>6, <2>7
      <4> QED
        BY <2>4, <2>8, <3>2, <4>1
    <3> QED
      BY <3>1, <3>2
  <2>10. ASSUME NEW i \in DOMAIN hd2, NEW j \in DOMAIN hd2, i < j
         PROVE  at2[i] + Len(hd2[i]) <= at2[j]
    <3>1. i \in DOMAIN heard
      BY <2>2, <2>3, <2>10
    <3>2. at2[i] = at[i] /\ hd2[i] = heard[i]
      BY <2>4, <3>1
    <3>3. CASE j \in DOMAIN heard
      BY <1>7, <2>4, <2>10, <3>1, <3>2, <3>3 DEF Placed
    <3>4. CASE j \notin DOMAIN heard
      BY <1>8, <2>4, <3>1, <3>2, <3>4
    <3> QED
      BY <3>3, <3>4
  <2>11. Placed(sent, hd2, at2, k + n)
    BY <2>9, <2>10 DEF Placed
  <2> QED
    BY <1>3, <1>5, <1>6, <2>1, <2>5, <2>11 DEF StretchInv
<1>10. CASE ~(c # <<>> /\ c \in Commands)
  <2>1. heard' = heard
    BY <1>1, <1>10
  <2>2. \A i \in DOMAIN heard : at[i] + Len(heard[i]) <= k + n
    BY <1>2, <1>8
  <2>3. Placed(sent, heard, at, k + n)
    BY <1>7, <2>2 DEF Placed
  <2> QED
    BY <1>3, <1>5, <1>6, <1>7, <2>1, <2>3 DEF StretchInv
<1> QED
  BY <1>9, <1>10

LEMMA NextStretch == StretchInv /\ [Next]_vars => StretchInv'
<1> SUFFICES ASSUME StretchInv, [Next]_vars PROVE StretchInv'
  OBVIOUS
<1>1. ASSUME sent' = sent, heard' = heard, line' = line PROVE StretchInv'
  BY <1>1 DEF StretchInv, Received
<1>2. ASSUME sent' = sent, heard' = heard, line' = <<>> PROVE StretchInv'
  BY <1>2, StretchLost
<1>3. CASE Start
  BY <1>1, <1>2, <1>3 DEF Start, NewSocket, socket, peer
<1>4. CASE Open
  BY <1>2, <1>4 DEF Open, NewSocket, peer
<1>5. CASE Finish \/ ReceiveEnd
  BY <1>2, <1>5 DEF Finish, ReceiveEnd, CloseSocket, peer
<1>6. CASE OpenFails \/ Wake \/ Enter \/ ConnectOk \/ ConnectFails
  BY <1>1, <1>6 DEF OpenFails, Wake, Enter, ConnectOk, ConnectFails, socket, peer
<1>7. CASE ReceiveError \/ SendNothing \/ Send
  BY <1>1, <1>7 DEF ReceiveError, SendNothing, Send, socket, peer
<1>8. CASE Push \/ OtherOpens \/ OtherCloses \/ Stop \/ HangUp
  BY <1>1, <1>8 DEF Push, OtherOpens, OtherCloses, Stop, HangUp, thread, socket, peer
<1>9. CASE UNCHANGED vars
  BY <1>1, <1>9 DEF vars, thread, socket, peer
<1>10. CASE Say
  <2>1. PICK m \in Messages : sent' = sent \o m \o Terminator /\ line' = line \o m \o Terminator
    BY <1>10 DEF Say
  <2>2. heard' = heard
    BY <1>10 DEF Say, thread
  <2> QED
    BY <2>1, <2>2, StretchSaid
<1>11. CASE ReceiveData
  <2>1. PICK n \in 1 .. Len(line) : /\ Process(Trim(SubSeq(line, 1, n)))
                                    /\ line' = Rest(line, n)
    BY <1>11 DEF ReceiveData, Rest
  <2>2. sent' = sent
    BY <1>11 DEF ReceiveData, peer
  <2>3. n \in DOMAIN line
    BY LenProperties DEF StretchInv
  <2> QED
    BY <2>1, <2>2, <2>3, StretchReceived
<1> QED
  BY <1>3, <1>4, <1>5, <1>6, <1>7, <1>8, <1>9, <1>10, <1>11 DEF Next, ThreadStep, Outside

------------------------------------------------------------------------------
(* What holds of every behaviour.                                          *)

(* The thread and its socket keep what the invariant says of them: for any *)
(* descriptors, messages and bounds.                                       *)
THEOREM Inductive == Spec => []Inv
<1>1. Inv /\ [Next]_vars => Inv'
  BY NextTypeOK, NextOwn, NextShared, NextConn DEF Inv
<1> QED
  BY InitInv, <1>1, PTL DEF Spec

(* sock.c: every variable of the thread keeps its type.                    *)
THEOREM TypeCorrect == Spec => []TypeOK
<1>1. Inv => TypeOK
  BY DEF Inv
<1> QED
  BY Inductive, <1>1, PTL

(* profile.c: write() goes to the connection that the thread has open,     *)
(* whatever other threads do with descriptors meanwhile.                   *)
THEOREM WritesOwn == Spec => []WritesOwnConnection
<1>1. Inv => WritesOwnConnection
  BY DEF Inv, TypeOK, OwnInv, SharedInv, ConnInv, WritesOwnConnection, Mine
<1> QED
  BY Inductive, <1>1, PTL

(* sock.c: the thread has the one descriptor it knows of, and none in the  *)
(* end, after any number of lost connections.                              *)
THEOREM NothingLeaks == Spec => []NoDescriptorLeaks
<1>1. Inv => NoDescriptorLeaks
  <2> SUFFICES ASSUME Inv PROVE NoDescriptorLeaks
    OBVIOUS
  <2>1. fd \in Fds \cup {NoFd}
    BY DEF Inv, TypeOK
  <2>2. \A n : n \in Mine <=> n \in Fds /\ n = fd
    BY DEF Inv, OwnInv, Mine
  <2>3. NoFd \notin Fds
    BY SockClientAssumption DEF NoFd
  <2>4. Mine = {fd} \ {NoFd}
    BY <2>1, <2>2, <2>3
  <2>5. pc = "done" => Mine = {}
    BY <2>4 DEF Inv, SharedInv
  <2> QED
    BY <2>4, <2>5 DEF NoDescriptorLeaks
<1> QED
  BY Inductive, <1>1, PTL

(* sock.c, profile.c: SIGPIPE takes a reset by the peer.                   *)
THEOREM KillNeedsReset == Spec => []KilledOnlyAfterReset
<1>1. Inv => KilledOnlyAfterReset
  BY DEF Inv, ConnInv, KilledOnlyAfterReset
<1> QED
  BY Inductive, <1>1, PTL

(* sock.c, main.c: however recv() cuts the stream and whatever is lost     *)
(* with a connection, the commands carried out are stretches of what the   *)
(* peer has sent, in their order and none twice, whatever messages there   *)
(* are.                                                                    *)
THEOREM CommandsInStream == Spec => []CommandsFromStream
<1>1. StretchInv => CommandsFromStream
  BY StretchProperty
<1> QED
  BY InitStretch, NextStretch, <1>1, PTL DEF Spec

(* sock.c, main.c: a command that is no part of another message is carried *)
(* out only as a message that the peer has sent, in their order and none   *)
(* twice, also beside others that are mistaken for one another.            *)
THEOREM ToldCommandsFaithful == Spec => []ToldCommandsAsSent
<1>1. StreamInv => ToldCommandsAsSent
  BY DEF StreamInv, Traced, Matched, ToldCommandsAsSent
<1> QED
  BY InitStream, NextStream, <1>1, PTL DEF Spec
------------------------------------------------------------------------------
(* The thread as the rest of the program sees it.                          *)

\* What Connected, the place in the loop and the queue have to do with it.
LEMMA LoopStep ==
  ASSUME TypeOK, ConnInv, ThreadStep
  PROVE  AsLoop!Next \/ UNCHANGED AsLoop!vars
<1>1. pushed - given \in Nat /\ connected \in BOOLEAN
  BY SockClientAssumption DEF TypeOK
<1>2. CASE Start \/ Open \/ OpenFails \/ Wake \/ Enter
  BY <1>2 DEF Start, Open, OpenFails, Wake, Enter, AsLoop!vars
<1>3. CASE ConnectOk
  BY <1>1, <1>3 DEF ConnectOk, AsLoop!vars, AsLoop!Next, AsLoop!Connect
<1>4. CASE ConnectFails \/ Finish \/ ReceiveEnd
  BY <1>1, <1>4 DEF ConnectFails, Finish, ReceiveEnd, AsLoop!vars, AsLoop!Next, AsLoop!Disconnect
<1>5. CASE ReceiveData \/ ReceiveError
  <2>1. pc = "recv" /\ connected = TRUE
    BY <1>1, <1>5 DEF ReceiveData, ReceiveError, ConnInv
  <2> QED
    BY <1>5, <2>1 DEF ReceiveData, ReceiveError, AsLoop!Next, AsLoop!Receive
<1>6. CASE SendNothing
  <2>1. pushed - given = 0 /\ pushed' - given' = 0
    BY <1>6 DEF SendNothing, TypeOK
  <2> QED
    BY <1>6, <2>1 DEF SendNothing, AsLoop!Next, AsLoop!Send
<1>7. CASE Send
  <2>1. pushed - given # 0 /\ pushed' - given' = (pushed - given) - 1
    BY <1>7, SockClientAssumption DEF Send, TypeOK
  <2>2. pc = "send" /\ pc' # "send" /\ connected' = connected
    BY <1>7 DEF Send
  <2> QED
    BY <2>1, <2>2 DEF AsLoop!Next, AsLoop!Send
<1> QED
  BY <1>2, <1>3, <1>4, <1>5, <1>6, <1>7 DEF ThreadStep

(* sock.c: whatever becomes of its connections, descriptors and the stream, *)
(* to the rest of the program the thread is a DeviceLoop.                   *)
THEOREM LoopImplemented == Spec => ImplementsLoop
<1>1. Init => AsLoop!Init
  BY DEF Init, AsLoop!Init
<1>2. Inv /\ [Next]_vars => [AsLoop!Next]_(AsLoop!vars)
  <2> SUFFICES ASSUME Inv, [Next]_vars
               PROVE  AsLoop!Next \/ UNCHANGED AsLoop!vars
    OBVIOUS
  <2>1. CASE ThreadStep
    BY <2>1, LoopStep DEF Inv
  <2>2. CASE Push
    <3>1. pushed' - given' = (pushed - given) + 1
      BY <2>2, SockClientAssumption DEF Push, Inv, TypeOK
    <3>2. UNCHANGED <<pc, connected>>
      BY <2>2 DEF Push, thread
    <3> QED
      BY <3>1, <3>2 DEF AsLoop!Next, AsLoop!Push
  <2>3. CASE OtherOpens \/ OtherCloses \/ Stop \/ Say \/ HangUp
    BY <2>3 DEF OtherOpens, OtherCloses, Stop, Say, HangUp, thread, AsLoop!vars
  <2>4. CASE UNCHANGED vars
    BY <2>4 DEF vars, thread, AsLoop!vars
  <2> QED
    BY <2>1, <2>2, <2>3, <2>4 DEF Next, Outside
<1> QED
  BY <1>1, <1>2, Inductive, PTL DEF Spec, ImplementsLoop, AsLoop!Spec

=============================================================================
