-------------------------- MODULE SerialPortProofs --------------------------
(***************************************************************************)
(* What holds of the serial thread and its reader for any payloads, any    *)
(* sizes of the buffers, however the line cuts, spoils and loses frames.   *)
(***************************************************************************)
EXTENDS SerialPort, Crc16Proofs, SequenceTheorems

Commands == {send_rfid_cmd_manual_mode, send_rfid_cmd_store, send_rfid_cmd_read_40}

Typed ==
  /\ TypeOK
  /\ crowded \in BOOLEAN
  /\ commands \in Seq(Commands)
  /\ frames \in Seq(ReaderFrames) /\ Len(frames) <= MaxFrames
  /\ reads \in 0 .. MaxReads /\ waiting <= reads

(* What is left in revbuf waits for the rest of a frame.                   *)
PartInv == part # <<>> => Incomplete(part, 0)

(* Without crowding there is one frame at most, on the line and in revbuf. *)
RoomInv == ~crowded => Len(part) + Len(wire) <= CopySize + 2

Inv == Typed /\ PartInv /\ RoomInv

(* At the wrong speed nothing is received but noise, and no answer.        *)
LineInv ==
  /\ pc = "open" => ~Understood(line)
  /\ ~Understood(line) => /\ \A i \in 1 .. Len(wire) : wire[i] = Noise
                          /\ Len(wire) <= 3 * Len(frames)
                          /\ pc # "store" /\ connected = FALSE

(* Until the first answer is read, a first frame is still there as it has  *)
(* arrived, and once it is read there is nothing left of it.               *)
StageInv ==
  /\ wire # <<>> => frames # <<>>
  /\ pc \in {"open", "mode"} /\ Len(frames) = 1 => wire \in Arrivals
  /\ pc = "store" => frames # <<>> /\ (Len(frames) = 1 => wire = <<>>)
  /\ connected => Len(frames) >= 2

LEMMA Sizes ==
  /\ BufSize \in Nat /\ LENGTH \in Nat /\ CopySize \in Nat
  /\ MaxFrames \in Nat /\ MaxFaults \in Nat /\ MaxReads \in Nat
  BY SerialPortAssumption

LEMMA ConcatBytes ==
  ASSUME NEW s \in Seq(Byte), NEW t \in Seq(Byte)
  PROVE  s \o t \in Seq(Byte) /\ Len(s \o t) = Len(s) + Len(t)
  OBVIOUS

LEMMA ConcatAt ==
  ASSUME NEW s \in Seq(Byte), NEW t \in Seq(Byte), NEW i \in 1 .. Len(t)
  PROVE  (s \o t)[Len(s) + i] = t[i]
  OBVIOUS

------------------------------------------------------------------------------
(* The frames.                                                             *)

LEMMA FrameBytes ==
  ASSUME NEW cmd \in Byte, NEW status \in Byte, NEW p \in Seq(Byte), Len(p) + 5 \in Byte
  PROVE  \E m \in Seq(Byte) : Frame(cmd, status, p) = Sealed(m) /\ Len(m) = Len(p) + 6
<1> DEFINE start == 255
           n     == Len(p) + 5
           head  == <<start, n, cmd, 0, 0, status>>
           m     == head \o p
<1>1. start \in Byte /\ 0 \in Byte /\ n \in Byte
  BY DEF Byte
<1> HIDE DEF start, n
<1>2. head \in Seq(Byte) /\ Len(head) = 6
  BY <1>1
<1> HIDE DEF head
<1>3. m \in Seq(Byte) /\ Len(m) = 6 + Len(p)
  BY <1>2, ConcatBytes
<1>4. Frame(cmd, status, p) = Sealed(m)
  BY Zenon DEF Frame, head, start, n
<1> HIDE DEF m
<1> QED
  BY <1>3, <1>4

LEMMA FrameIsSealed ==
  ASSUME NEW f \in ReaderFrames
  PROVE  \E m \in Seq(Byte) : f = Sealed(m) /\ Len(m) \in 6 .. CopySize
<1>1. <<>> \in Seq(Byte) /\ Len(<<>>) = 0 /\ 5 \in Byte
  BY DEF Byte
<1>2. {28, 22, 17, 160, 0, 8} \subseteq Byte
  BY DEF Byte
<1>3. PICK p \in Payloads \cup {<<>>}, cmd \in {28, 22, 17, 160}, status \in {0, 8} :
        f = Frame(cmd, status, p)
  BY DEF ReaderFrames
<1>4. CopySize \in Nat /\ CopySize >= 6
  BY SerialPortAssumption
<1>5. p \in Seq(Byte) /\ Len(p) <= CopySize - 6 /\ Len(p) + 5 \in Byte
  <2>1. CASE p = <<>>
    BY <1>1, <1>4, <2>1
  <2>2. CASE p \in Payloads
    BY <2>2, SerialPortAssumption
  <2> QED
    BY <2>1, <2>2
<1>6. PICK m \in Seq(Byte) : f = Sealed(m) /\ Len(m) = Len(p) + 6
  <2>1. cmd \in Byte /\ status \in Byte
    BY <1>2, <1>3
  <2> QED
    BY <1>3, <1>5, <2>1, FrameBytes
<1>7. Len(p) \in Nat
  BY <1>5
<1>8. Len(m) \in 6 .. CopySize
  BY <1>4, <1>5, <1>6, <1>7
<1> QED
  BY <1>6, <1>8

LEMMA FrameShape ==
  ASSUME NEW f \in ReaderFrames
  PROVE  f \in Seq(Byte) /\ Len(f) \in 8 .. CopySize + 2
<1>1. PICK m \in Seq(Byte) : f = Sealed(m) /\ Len(m) \in 6 .. CopySize
  BY FrameIsSealed
<1>2. f \in Seq(Byte) /\ Len(f) = Len(m) + 2
  BY <1>1, SealedShape
<1> QED
  BY <1>1, <1>2, Sizes

(* Every frame of the reader passes crc_func as it was sent, and none does   *)
(* with one byte changed, wherever that is and whatever the tag says.        *)
THEOREM FramesAreTold ==
  ASSUME NEW f \in ReaderFrames
  PROVE  /\ crc_func(f) = 0
         /\ \A i \in 1 .. Len(f) : \A b \in Byte \ {f[i]} : crc_func(ReplaceAt(f, i, b)) # 0
<1>1. f \in Seq(Byte) /\ Len(f) \in 8 .. CopySize + 2 /\ CopySize \in Nat
  BY FrameShape, Sizes
<1>2. f \in Seq(Byte) /\ Len(f) >= 3
  BY <1>1
<1>3. PICK m \in Seq(Byte) : f = Sealed(m)
  BY FrameIsSealed
<1>4. SubSeq(f, 1, Len(f) - 2) = m
  <2>1. Len(f) = Len(m) + 2 /\ SubSeq(f, 1, Len(m)) = m /\ Len(m) \in Nat
    BY <1>3, SealedShape
  <2>2. Len(f) - 2 = Len(m)
    BY <2>1
  <2> QED
    BY <2>1, <2>2, Zenon
<1>5. crc_func(f) = 0
  BY <1>2, <1>3, <1>4, PassesIfSealed
<1>6. ASSUME NEW i \in 1 .. Len(f), NEW b \in Byte \ {f[i]}
      PROVE  crc_func(ReplaceAt(f, i, b)) # 0
  <2>1. crc_func([f EXCEPT ![i] = b]) # 0
    BY <1>2, <1>5, OneByteDetected
  <2> QED
    BY <2>1, Zenon DEF ReplaceAt
<1> QED
  BY <1>5, <1>6

LEMMA SpoiltShape ==
  ASSUME NEW f \in ReaderFrames, NEW g \in Spoilt(f)
  PROVE  g \in Seq(Byte) /\ Len(g) \in 1 .. CopySize + 2
<1>1. f \in Seq(Byte) /\ Len(f) \in 8 .. CopySize + 2
  BY FrameShape
<1>2. ASSUME NEW i \in {2, Len(f) - 2}, g = ReplaceAt(f, i, (f[i] + 4) % 256)
      PROVE  g \in Seq(Byte) /\ Len(g) = Len(f)
  <2>1. i \in 1 .. Len(f)
    BY <1>1
  <2>2. (f[i] + 4) % 256 \in Byte
    <3>0. f[i] \in Byte
      BY <1>1, <2>1
    <3>1. PICK x \in 0 .. 255 : x = f[i]
      BY <3>0 DEF Byte
    <3>2. (x + 4) % 256 \in 0 .. 255
      OBVIOUS
    <3> QED
      BY <3>1, <3>2 DEF Byte
  <2> QED
    BY <1>1, <1>2, <2>1, <2>2 DEF ReplaceAt
<1>3. ASSUME g = SubSeq(f, 1, 6) PROVE g \in Seq(Byte) /\ Len(g) = 6
  BY <1>1, <1>3
<1>4. CopySize \in Nat
  BY SerialPortAssumption
<1>5. \/ \E i \in {2, Len(f) - 2} : g = ReplaceAt(f, i, (f[i] + 4) % 256)
      \/ g = SubSeq(f, 1, 6)
  BY DEF Spoilt
<1>6. g \in Seq(Byte) /\ (Len(g) = Len(f) \/ Len(g) = 6)
  BY <1>2, <1>3, <1>5
<1>7. PICK n \in 8 .. CopySize + 2 : n = Len(f)
  BY <1>1
<1>8. n \in 1 .. CopySize + 2 /\ 6 \in 1 .. CopySize + 2
  BY <1>4
<1> QED
  BY <1>6, <1>7, <1>8

LEMMA ArrivalShape ==
  ASSUME NEW g \in Arrivals
  PROVE  g \in Seq(Byte) /\ Len(g) \in 1 .. CopySize + 2
<1>1. Garbled \in Seq(Byte) /\ Len(Garbled) = 3
  BY DEF Garbled, Noise, Byte
<1>2. CopySize \in Nat /\ CopySize >= 6
  BY SerialPortAssumption
<1>3. CASE g = Garbled
  <2>1. 3 \in 1 .. CopySize + 2
    BY <1>2
  <2> QED
    BY <1>1, <1>3, <2>1
<1>4. CASE g \in ReaderFrames
  BY <1>2, <1>4, FrameShape
<1>5. CASE \E f \in ReaderFrames : g \in Spoilt(f)
  BY <1>5, SpoiltShape
<1> QED
  BY <1>3, <1>4, <1>5 DEF Arrivals, ArrivesAs

------------------------------------------------------------------------------
(* The line and the reader.                                                *)

\* read() moves the beginning of what is on the line to the end of the buffer.
LEMMA ReadShape ==
  ASSUME wire \in Seq(Byte), NEW room \in Nat, NEW n \in Arrived(room), Take(n)
  PROVE  /\ n \in 0 .. room /\ n <= Len(wire)
         /\ Taken(n) \in Seq(Byte) /\ Len(Taken(n)) = n
         /\ \A i \in 1 .. n : Taken(n)[i] = wire[i]
         /\ wire' \in Seq(Byte) /\ Len(wire') = Len(wire) - n
         /\ \A i \in 1 .. Len(wire) - n : wire'[i] = wire[n + i]
<1>1. n \in 0 .. room /\ n <= Len(wire) /\ Len(wire) \in Nat
  BY SerialPortAssumption DEF Arrived
<1>2. wire' = SubSeq(wire, n + 1, Len(wire)) /\ Taken(n) = SubSeq(wire, 1, n)
  BY DEF Take, Taken
<1> QED
  BY <1>1, <1>2

LEMMA WriteShape ==
  ASSUME commands \in Seq(Commands), NEW cmd \in Commands, NEW l, WriteCommand(cmd, l)
  PROVE  commands' \in Seq(Commands)
  BY DEF WriteCommand

\* What a step of the reader or the line may do.
Emits == \E f \in ReaderFrames : Emit(f)

LEMMA AnswerEmits ==
  ASSUME Typed, Answer
  PROVE  Emits /\ commands' \in Seq(Commands) /\ auto' \in BOOLEAN
<1> DEFINE c == Head(commands)
<1>1. c \in Commands /\ commands' \in Seq(Commands)
  BY DEF Answer, Typed
<1>2. auto' \in BOOLEAN
  BY DEF Answer
<1>3. CASE c = send_rfid_cmd_read_40
  <2>1. Emit(Frame(c[3], 8, <<>>)) \/ \E p \in Payloads : Emit(Frame(c[3], 0, p))
    BY <1>3 DEF Answer
  <2>2. c[3] = 17
    BY <1>3 DEF send_rfid_cmd_read_40
  <2> HIDE DEF c
  <2> QED
    BY <1>1, <1>2, <2>1, <2>2 DEF Emits, ReaderFrames
<1>4. CASE c # send_rfid_cmd_read_40
  <2>1. Emit(Frame(c[3], 0, <<>>))
    BY <1>4 DEF Answer
  <2>2. c[3] \in {28, 22}
    BY <1>1, <1>4 DEF Commands, send_rfid_cmd_manual_mode, send_rfid_cmd_store
  <2> HIDE DEF c
  <2> QED
    BY <1>1, <1>2, <2>1, <2>2 DEF Emits, ReaderFrames
<1> QED
  BY <1>3, <1>4

LEMMA NoticeEmits == Notice => Emits
  BY DEF Notice, Emits, ReaderFrames

\* One more frame is on the line, as it arrives there.
LEMMA EmitShape ==
  ASSUME Typed, Emits
  PROVE  /\ \E g \in Arrivals : /\ wire' = wire \o g
                                /\ ~Understood(line) => g = Garbled
         /\ frames' \in Seq(ReaderFrames) /\ Len(frames') = Len(frames) + 1
         /\ Len(frames') <= MaxFrames
         /\ faults' \in 0 .. MaxFaults
         /\ crowded' = (crowded \/ wire # <<>> \/ (part # <<>> /\ Incomplete(part, 0)))
<1>1. PICK f \in ReaderFrames : Emit(f)
  BY DEF Emits
<1>2. \E g \in Arrivals : wire' = wire \o g /\ (~Understood(line) => g = Garbled)
  BY <1>1 DEF Emit, Arrivals, ArrivesAs
<1>3. frames' = Append(frames, f) /\ Len(frames) < MaxFrames
  BY <1>1 DEF Emit
<1>4. frames' \in Seq(ReaderFrames) /\ Len(frames') = Len(frames) + 1
  BY <1>3 DEF Typed
<1>5. Len(frames') <= MaxFrames
  <2>1. Len(frames) \in Nat
    BY DEF Typed
  <2> QED
    BY <1>3, <1>4, <2>1, Sizes
<1>6. faults' \in 0 .. MaxFaults
  <2>1. faults \in 0 .. MaxFaults
    BY DEF Typed, TypeOK
  <2>2. faults' = faults \/ (faults < MaxFaults /\ faults' = faults + 1)
    BY <1>1 DEF Emit
  <2> QED
    BY <2>1, <2>2, Sizes
<1>7. crowded' = (crowded \/ wire # <<>> \/ (part # <<>> /\ Incomplete(part, 0)))
  BY <1>1 DEF Emit
<1> QED
  BY <1>2, <1>4, <1>5, <1>6, <1>7

------------------------------------------------------------------------------
(* Types.                                                                  *)

LEMMA InitInv == Init => Inv
<1> SUFFICES ASSUME Init PROVE Inv
  OBVIOUS
<1>1. pc = "open" /\ part = <<>> /\ wire = <<>> /\ commands = <<>> /\ frames = <<>>
  BY DEF Init
<1>2. waiting = 0 /\ faults = 0 /\ reads = 0
  BY DEF Init
<1>3. TypeOK
  <2>1. connected \in BOOLEAN /\ auto \in BOOLEAN
    BY DEF Init
  <2>2. /\ part \in Seq(Byte) /\ Len(part) <= BufSize
        /\ waiting \in 0 .. MaxReads /\ wire \in Seq(Byte) /\ faults \in 0 .. MaxFaults
    BY <1>1, <1>2, Sizes
  <2> QED
    BY <1>1, <2>1, <2>2 DEF TypeOK
<1>4. Typed
  <2>1. crowded \in BOOLEAN
    BY DEF Init
  <2>2. /\ commands \in Seq(Commands)
        /\ frames \in Seq(ReaderFrames) /\ Len(frames) <= MaxFrames
        /\ reads \in 0 .. MaxReads /\ waiting <= reads
    BY <1>1, <1>2, Sizes
  <2> QED
    BY <1>3, <2>1, <2>2 DEF Typed
<1>5. PartInv
  BY <1>1 DEF PartInv
<1>6. RoomInv
  BY <1>1, Sizes DEF RoomInv
<1> QED
  BY <1>4, <1>5, <1>6 DEF Inv

\* Where a step leaves the thread's buffer and the line.
LEMMA TurnShape ==
  ASSUME Typed, Turn
  PROVE  \E n \in 0 .. BufSize - Len(part), buf \in Seq(Byte) :
           /\ n <= Len(wire) /\ buf = part \o Taken(n)
           /\ Len(buf) = Len(part) + n
           /\ wire' \in Seq(Byte) /\ Len(wire') = Len(wire) - n
           /\ \/ part' = <<>>
              \/ part' = buf /\ Incomplete(buf, Len(part)) /\ pc' = pc
           /\ pc' = "smashed" => Overruns(buf)
<1>1. /\ part \in Seq(Byte) /\ wire \in Seq(Byte) /\ BufSize - Len(part) \in Nat
  BY Sizes DEF Typed, TypeOK
<1>2. PICK n \in Arrived(BufSize - Len(part)) :
        /\ Take(n)
        /\ \/ part' = <<>>
           \/ part' = part \o Taken(n) /\ Incomplete(part \o Taken(n), Len(part)) /\ pc' = pc
        /\ pc' = "smashed" => Overruns(part \o Taken(n))
  BY DEF Turn
<1>3. /\ n \in 0 .. BufSize - Len(part) /\ n <= Len(wire)
      /\ Taken(n) \in Seq(Byte) /\ Len(Taken(n)) = n
      /\ wire' \in Seq(Byte) /\ Len(wire') = Len(wire) - n
  BY <1>1, <1>2, ReadShape
<1>4. part \o Taken(n) \in Seq(Byte) /\ Len(part \o Taken(n)) = Len(part) + n
  <2>1. part \o Taken(n) \in Seq(Byte) /\ Len(part \o Taken(n)) = Len(part) + Len(Taken(n))
    BY <1>1, <1>3, ConcatBytes
  <2> QED
    BY <1>3, <2>1
<1> QED
  BY <1>2, <1>3, <1>4

LEMMA AnswerReadShape ==
  ASSUME Typed, ModeAnswer \/ StoreAnswer
  PROVE  \E n \in 0 .. LENGTH :
           /\ n <= Len(wire) /\ Take(n)
           /\ Len(Taken(n)) = n /\ \A i \in 1 .. n : Taken(n)[i] = wire[i]
           /\ wire' \in Seq(Byte) /\ Len(wire') = Len(wire) - n
           /\ pc' = "smashed" => Overruns(Taken(n))
           /\ pc' \in {"store", "loop"} => n > 0 /\ crc_func(Taken(n)) = 0
           /\ pc' \in {"store", "loop", "done", "smashed"}
           /\ pc' = "store" => pc = "mode"
           /\ pc' = "loop" => pc = "store"
<1>1. wire \in Seq(Byte)
  BY DEF Typed, TypeOK
<1>2. PICK n \in Arrived(LENGTH) : /\ Take(n)
                                   /\ \/ pc = "mode" /\ Acknowledge(Taken(n), "store")
                                      \/ pc = "store" /\ Acknowledge(Taken(n), "loop")
  BY DEF ModeAnswer, StoreAnswer
<1>3. /\ n \in 0 .. LENGTH /\ n <= Len(wire)
      /\ Taken(n) \in Seq(Byte) /\ Len(Taken(n)) = n
      /\ \A i \in 1 .. n : Taken(n)[i] = wire[i]
      /\ wire' \in Seq(Byte) /\ Len(wire') = Len(wire) - n
  BY <1>1, <1>2, ReadShape, Sizes
<1>4. /\ pc' = "smashed" => Overruns(Taken(n))
      /\ pc' \in {"store", "loop"} => Taken(n) # <<>> /\ crc_func(Taken(n)) = 0
      /\ pc' \in {"store", "loop", "done", "smashed"}
      /\ pc' = "store" => pc = "mode"
      /\ pc' = "loop" => pc = "store"
  BY <1>2 DEF Acknowledge
<1>5. Taken(n) # <<>> => n > 0
  BY <1>3
<1> QED
  BY <1>2, <1>3, <1>4, <1>5

LEMMA TypeStep ==
  ASSUME Typed, Next
  PROVE  Typed'
<1>1. /\ part \in Seq(Byte) /\ wire \in Seq(Byte) /\ Len(part) <= BufSize
      /\ waiting \in 0 .. MaxReads /\ faults \in 0 .. MaxFaults /\ reads \in 0 .. MaxReads
      /\ waiting <= reads /\ Len(frames) \in Nat
  BY DEF Typed, TypeOK
<1>2. CASE Open
  <2>1. commands' \in Seq(Commands)
    BY <1>2, WriteShape DEF Open, Typed, Commands
  <2> QED
    BY <1>2, <2>1 DEF Open, Typed, TypeOK
<1>3. CASE ModeAnswer
  <2>1. commands' \in Seq(Commands)
    BY <1>3, WriteShape DEF ModeAnswer, Typed, Commands
  <2>2. wire' \in Seq(Byte) /\ pc' \in {"store", "loop", "done", "smashed"}
    BY <1>3, AnswerReadShape
  <2> QED
    BY <1>3, <2>1, <2>2 DEF ModeAnswer, Typed, TypeOK
<1>4. CASE StoreAnswer
  <2>1. wire' \in Seq(Byte) /\ pc' \in {"store", "loop", "done", "smashed"}
    BY <1>4, AnswerReadShape
  <2>2. connected' \in BOOLEAN
    BY <1>4 DEF StoreAnswer
  <2> QED
    BY <1>4, <2>1, <2>2 DEF StoreAnswer, Typed, TypeOK
<1>5. CASE Turn
  <2>1. PICK n \in 0 .. BufSize - Len(part), buf \in Seq(Byte) :
          /\ Len(buf) = Len(part) + n /\ wire' \in Seq(Byte)
          /\ part' = <<>> \/ part' = buf
    BY <1>5, TurnShape
  <2>2. part' \in Seq(Byte) /\ Len(part') <= BufSize
    <3>1. Len(part) \in Nat /\ Len(buf) <= BufSize
      BY <1>1, <2>1, Sizes
    <3>2. <<>> \in Seq(Byte) /\ Len(<<>>) <= BufSize
      BY Sizes
    <3> QED
      BY <2>1, <3>1, <3>2
  <2>3. pc' \in {"loop", "send", "smashed"}
    BY <1>5 DEF Turn
  <2> QED
    BY <1>5, <2>1, <2>2, <2>3 DEF Turn, Typed, TypeOK
<1>6. CASE Send
  <2>1. commands' \in Seq(Commands)
    BY <1>6, WriteShape DEF Send, Typed, Commands
  <2>2. waiting' \in 0 .. MaxReads /\ waiting' <= reads
    BY <1>1, <1>6, Sizes DEF Send
  <2> QED
    BY <1>6, <2>1, <2>2 DEF Send, Typed, TypeOK
<1>7. CASE Finish
  BY <1>7 DEF Finish, reader, Typed, TypeOK
<1>8. CASE Read
  <2>1. reads' \in 0 .. MaxReads /\ waiting' \in 0 .. MaxReads /\ waiting' <= reads'
    BY <1>1, <1>8, Sizes DEF Read
  <2> QED
    BY <1>8, <2>1 DEF Read, thread, reader, Typed, TypeOK
<1>9. ASSUME Emits, UNCHANGED <<thread, waiting, reads>>,
             commands' \in Seq(Commands), auto' \in BOOLEAN
      PROVE  Typed'
  <2>1. wire' \in Seq(Byte)
    <3>1. PICK g \in Arrivals : wire' = wire \o g
      BY <1>9, EmitShape
    <3> QED
      BY <1>1, <3>1, ArrivalShape, ConcatBytes
  <2>2. crowded' \in BOOLEAN
    BY <1>9, EmitShape
  <2>3. frames' \in Seq(ReaderFrames) /\ Len(frames') <= MaxFrames /\ faults' \in 0 .. MaxFaults
    BY <1>9, EmitShape
  <2> QED
    BY <1>9, <2>1, <2>2, <2>3 DEF thread, Typed, TypeOK
<1>10. CASE Answer
  BY <1>9, <1>10, AnswerEmits DEF Answer
<1>11. CASE Notice
  BY <1>9, <1>11, NoticeEmits DEF Notice, Typed, TypeOK
<1>12. CASE Lose
  <2>1. faults' \in 0 .. MaxFaults
    BY <1>1, <1>12, Sizes DEF Lose
  <2>2. commands' \in Seq(Commands)
    BY <1>12 DEF Lose, Typed
  <2> QED
    BY <1>12, <2>1, <2>2 DEF Lose, thread, Typed, TypeOK
<1> QED
  BY <1>2, <1>3, <1>4, <1>5, <1>6, <1>7, <1>8, <1>10, <1>11, <1>12 DEF Next, ThreadStep

------------------------------------------------------------------------------
(* The room for one frame.                                                 *)

\* Whatever was there before the last read(), what it has added to is waited for.
LEMMA IncompleteFromStart ==
  ASSUME NEW buf \in Seq(Byte), buf # <<>>, NEW n, Incomplete(buf, n)
  PROVE  Incomplete(buf, 0)
  BY DEF Incomplete

LEMMA PartStep ==
  ASSUME Typed, PartInv, Next
  PROVE  PartInv'
<1>1. CASE Turn
  <2>1. PICK buf \in Seq(Byte) : part' = <<>> \/ (part' = buf /\ Incomplete(buf, Len(part)))
    BY <1>1, TurnShape
  <2> QED
    BY <2>1, IncompleteFromStart DEF PartInv
<1>2. CASE ~Turn
  <2>1. part' = part
    BY <1>2 DEF Next, ThreadStep, Open, ModeAnswer, StoreAnswer, Send, Finish, Read, Answer, Lose, Notice, thread
  <2> QED
    BY <2>1 DEF PartInv, Incomplete
<1> QED
  BY <1>1, <1>2

LEMMA RoomStep ==
  ASSUME Typed, PartInv, RoomInv, Next
  PROVE  RoomInv'
<1> SUFFICES ASSUME ~crowded' PROVE Len(part') + Len(wire') <= CopySize + 2
  BY DEF RoomInv
<1>1. Len(part) \in Nat /\ Len(wire) \in Nat /\ part \in Seq(Byte) /\ wire \in Seq(Byte)
  BY DEF Typed, TypeOK
<1>2. CASE Emits /\ UNCHANGED thread
  <2>1. ~crowded /\ wire = <<>> /\ part = <<>>
    BY <1>2, EmitShape DEF PartInv
  <2>2. PICK g \in Arrivals : wire' = wire \o g
    BY <1>2, EmitShape
  <2>3. Len(wire') \in 1 .. CopySize + 2 /\ Len(part') = 0
    BY <1>2, <2>1, <2>2, ArrivalShape DEF thread
  <2> QED
    BY <2>3, Sizes
<1>3. CASE ~crowded /\ UNCHANGED <<part, wire>>
  BY <1>3 DEF RoomInv
<1>4. CASE Turn
  <2>1. ~crowded
    BY <1>4 DEF Turn
  <2>2. PICK n \in Nat, buf \in Seq(Byte) :
          /\ n <= Len(wire) /\ Len(buf) = Len(part) + n /\ Len(wire') = Len(wire) - n
          /\ part' = <<>> \/ part' = buf
    BY <1>4, TurnShape
  <2> QED
    BY <1>1, <2>1, <2>2, Sizes DEF RoomInv
<1>5. CASE ModeAnswer \/ StoreAnswer
  <2>1. ~crowded /\ part' = part
    BY <1>5 DEF ModeAnswer, StoreAnswer
  <2>2. PICK n \in Nat : Len(wire') = Len(wire) - n
    BY <1>5, AnswerReadShape
  <2> QED
    BY <1>1, <2>1, <2>2, Sizes DEF RoomInv
<1>6. (Answer \/ Notice) => Emits /\ UNCHANGED thread
  BY AnswerEmits, NoticeEmits DEF Answer, Notice
<1>7. (Open \/ Send \/ Finish \/ Read \/ Lose) => ~crowded /\ UNCHANGED <<part, wire>>
  BY DEF Open, Send, Finish, Read, Lose, thread, reader
<1> QED
  BY <1>2, <1>3, <1>4, <1>5, <1>6, <1>7 DEF Next, ThreadStep
LEMMA NextInv == Inv /\ [Next]_vars => Inv'
<1> SUFFICES ASSUME Inv, [Next]_vars PROVE Inv'
  OBVIOUS
<1>1. CASE Next
  BY <1>1, TypeStep, PartStep, RoomStep DEF Inv
<1>2. CASE UNCHANGED vars
  <2>1. UNCHANGED <<pc, part, connected, waiting, auto, commands, wire, frames, crowded, faults, reads>>
    BY <1>2 DEF vars, thread, reader
  <2> QED
    BY <2>1 DEF Inv, Typed, TypeOK, PartInv, RoomInv, Incomplete
<1> QED
  BY <1>1, <1>2

(* The invariant of the thread, its buffer and the line.                   *)
THEOREM SerialInv == Spec => []Inv
<1> QED
  BY InitInv, NextInv, PTL DEF Spec

(* revbuf never holds more than its size, and everything on the line and   *)
(* in it is a byte (the read of the loop asks for the rest of revbuf only). *)
THEOREM TypeCorrect == Spec => []TypeOK
<1>1. Inv => TypeOK
  BY DEF Inv, Typed
<1> QED
  BY <1>1, SerialInv, PTL

(* The code's checksum accepts exactly what the polynomial accepts, for     *)
(* whatever comes to be on the line or in revbuf, however long.             *)
THEOREM ChecksumAgreesAlways == Spec => []ChecksumAgrees
<1>1. TypeOK => ChecksumAgrees
  <2> SUFFICES ASSUME TypeOK, NEW buf \in {part, wire}, Len(buf) >= 3
               PROVE  crc_func(buf) = 0 <=> Sealed(SubSeq(buf, 1, Len(buf) - 2)) = buf
    BY DEF ChecksumAgrees
  <2>1. buf \in Seq(Byte)
    BY DEF TypeOK
  <2> QED
    BY <2>1, PassesIfSealed
<1> QED
  BY <1>1, TypeCorrect, PTL

------------------------------------------------------------------------------
(* data[100] of crc_func.                                                  *)

LEMMA SmashStep ==
  ASSUME Inv, OverrunNeedsCrowding, Next
  PROVE  OverrunNeedsCrowding'
<1> SUFFICES ASSUME pc' = "smashed", ~crowded' PROVE FALSE
  BY DEF OverrunNeedsCrowding
<1>1. Typed /\ PartInv /\ RoomInv
  BY DEF Inv
<1>2. Len(part) \in Nat /\ Len(wire) \in Nat /\ part \in Seq(Byte) /\ wire \in Seq(Byte)
  BY <1>1 DEF Typed, TypeOK
<1>3. CASE Turn
  <2>1. PICK n \in Nat, buf \in Seq(Byte) :
          n <= Len(wire) /\ Len(buf) = Len(part) + n /\ Overruns(buf)
    BY <1>1, <1>3, TurnShape
  <2>2. Len(part) + Len(wire) <= CopySize + 2
    BY <1>1, <1>3 DEF RoomInv, Turn
  <2> QED
    BY <1>2, <2>1, <2>2, Sizes DEF Overruns
<1>4. CASE ModeAnswer \/ StoreAnswer
  <2>1. PICK n \in Nat : n <= Len(wire) /\ Len(Taken(n)) = n /\ Overruns(Taken(n))
    BY <1>1, <1>4, AnswerReadShape
  <2>2. Len(part) + Len(wire) <= CopySize + 2
    BY <1>1, <1>4 DEF RoomInv, ModeAnswer, StoreAnswer
  <2> QED
    BY <1>2, <2>1, <2>2, Sizes DEF Overruns
<1>5. CASE Answer \/ Notice
  <2>1. pc = "smashed"
    BY <1>5 DEF Answer, Notice, thread
  <2> QED
    BY <1>5, <2>1 DEF Answer, Notice, Done
<1>6. CASE Open \/ Send \/ Finish \/ Read \/ Lose
  BY <1>6 DEF Open, Send, Finish, Read, Lose, Done, thread
<1> QED
  BY <1>3, <1>4, <1>5, <1>6 DEF Next, ThreadStep

(* Whatever the tags say, up to what a READ asks for, and however a frame  *)
(* arrives: one by itself never overruns data[100] in crc_func.            *)
THEOREM OneFrameFits == Spec => []OverrunNeedsCrowding
<1>1. Init => OverrunNeedsCrowding
  BY DEF Init, OverrunNeedsCrowding
<1>2. Inv /\ OverrunNeedsCrowding /\ [Next]_vars => OverrunNeedsCrowding'
  <2>1. ASSUME Inv, OverrunNeedsCrowding, UNCHANGED vars PROVE OverrunNeedsCrowding'
    BY <2>1 DEF OverrunNeedsCrowding, vars, thread, reader
  <2> QED
    BY <2>1, SmashStep
<1> QED
  BY <1>1, <1>2, SerialInv, PTL DEF Spec

------------------------------------------------------------------------------
(* The answers to init_rfid.                                               *)

LEMMA InitReady == Init => LineInv /\ StageInv
<1> SUFFICES ASSUME Init PROVE LineInv /\ StageInv
  OBVIOUS
<1>1. pc = "open" /\ connected = FALSE /\ wire = <<>> /\ frames = <<>> /\ line = LineDefault
  BY DEF Init
<1>2. ~Understood(LineDefault)
  <2>1. LineDefault.raw = FALSE
    BY DEF LineDefault
  <2>2. uart_init(ReaderSpeed).raw = TRUE
    BY DEF uart_init, set_Parity, set_speed, LineDefault
  <2> QED
    BY <2>1, <2>2 DEF Understood
<1> QED
  BY <1>1, <1>2 DEF LineInv, StageInv

LEMMA LineStep ==
  ASSUME NoFalseFrame, Typed, LineInv, Next
  PROVE  LineInv'
<1>1. /\ wire \in Seq(Byte) /\ Len(wire) \in Nat
      /\ Len(frames) \in Nat /\ Len(frames) <= MaxFrames
  BY DEF Typed, TypeOK
<1>2. pc' = "open" => pc = "open" /\ line' = line
  BY DEF Next, ThreadStep, Open, ModeAnswer, StoreAnswer, Acknowledge, Turn, Send, Finish, Read,
         Answer, Lose, Notice, thread
<1>3. pc' = "open" => ~Understood(line')
  BY <1>2 DEF LineInv
<1> SUFFICES ASSUME ~Understood(line')
             PROVE  /\ \A i \in 1 .. Len(wire') : wire'[i] = Noise
                    /\ Len(wire') <= 3 * Len(frames')
                    /\ pc' # "store" /\ connected' = FALSE
  BY <1>3 DEF LineInv, Understood
<1>4. ~Understood(line)
  BY DEF Next, ThreadStep, Open, ModeAnswer, StoreAnswer, Turn, Send, Finish, Read, Answer, Lose,
         Notice, thread, LineInv
<1>5. /\ \A i \in 1 .. Len(wire) : wire[i] = Noise
      /\ Len(wire) <= 3 * Len(frames)
      /\ pc # "store" /\ connected = FALSE
  BY <1>4 DEF LineInv
<1>6. CASE UNCHANGED <<wire, frames, connected>> /\ pc' # "store"
  BY <1>5, <1>6
<1>7. CASE Emits /\ UNCHANGED thread
  <2>1. wire' = wire \o Garbled /\ Len(frames') = Len(frames) + 1
    BY <1>4, <1>7, EmitShape
  <2>2. Garbled \in Seq(Byte) /\ Len(Garbled) = 3 /\ \A i \in 1 .. 3 : Garbled[i] = Noise
    BY DEF Garbled, Noise, Byte
  <2>3. Len(wire') = Len(wire) + 3
    BY <1>1, <2>1, <2>2, ConcatBytes
  <2>4. \A i \in 1 .. Len(wire') : wire'[i] = Noise
    <3> SUFFICES ASSUME NEW i \in 1 .. Len(wire) + 3 PROVE wire'[i] = Noise
      BY <2>3
    <3>1. CASE i <= Len(wire)
      BY <1>1, <1>5, <2>1, <2>2, <3>1
    <3>2. CASE i > Len(wire)
      <4>1. PICK j \in 1 .. 3 : j = i - Len(wire)
        BY <1>1, <3>2
      <4>2. i = Len(wire) + j
        BY <1>1, <4>1
      <4> QED
        BY <1>1, <2>1, <2>2, <4>2, ConcatAt
    <3> QED
      BY <1>1, <3>1, <3>2
  <2>5. Len(wire') <= 3 * Len(frames')
    BY <1>1, <1>5, <2>1, <2>3
  <2> QED
    BY <1>5, <1>7, <2>4, <2>5 DEF thread
<1>8. CASE Turn
  <2>1. PICK n \in Arrived(BufSize - Len(part)) : Take(n)
    BY <1>8 DEF Turn
  <2>2. BufSize - Len(part) \in Nat
    BY Sizes DEF Typed, TypeOK
  <2>3. /\ n \in Nat /\ n <= Len(wire) /\ Len(wire') = Len(wire) - n
        /\ \A i \in 1 .. Len(wire) - n : wire'[i] = wire[n + i]
    BY <1>1, <2>1, <2>2, ReadShape
  <2>4. frames' = frames /\ connected' = connected /\ pc' # "store"
    BY <1>8 DEF Turn
  <2>5. \A i \in 1 .. Len(wire') : wire'[i] = Noise
    BY <1>1, <1>5, <2>3
  <2> QED
    BY <1>1, <1>5, <2>3, <2>4, <2>5
<1>9. CASE ModeAnswer \/ StoreAnswer
  <2>1. pc = "mode" /\ ModeAnswer
    BY <1>5, <1>9 DEF ModeAnswer, StoreAnswer
  <2>2. PICK n \in 0 .. LENGTH :
          /\ n <= Len(wire) /\ Take(n)
          /\ Len(Taken(n)) = n /\ \A i \in 1 .. n : Taken(n)[i] = wire[i]
          /\ wire' \in Seq(Byte) /\ Len(wire') = Len(wire) - n
          /\ pc' \in {"store", "loop"} => n > 0 /\ crc_func(Taken(n)) = 0
    BY <1>9, AnswerReadShape
  <2>3. \A i \in 1 .. Len(wire') : wire'[i] = Noise
    <3>1. \A i \in 1 .. Len(wire) - n : wire'[i] = wire[n + i]
      BY <1>1, <2>2, Sizes DEF Take
    <3> QED
      BY <1>1, <1>5, <2>2, <3>1, Sizes
  <2>4. pc' # "store"
    <3> SUFFICES ASSUME pc' = "store" PROVE FALSE
      OBVIOUS
    <3>1. n \in 1 .. 3 * MaxFrames
      BY <1>1, <1>5, <2>2, Sizes
    <3>2. Taken(n) = [i \in 1 .. n |-> Noise]
      BY <1>1, <1>5, <2>2, Sizes DEF Taken
    <3> QED
      BY <2>2, <3>1, <3>2 DEF NoFalseFrame
  <2> QED
    BY <1>1, <1>5, <2>1, <2>2, <2>3, <2>4, Sizes DEF ModeAnswer
<1>10. (Answer \/ Notice) => Emits /\ UNCHANGED thread
  BY AnswerEmits, NoticeEmits DEF Answer, Notice
<1>11. (Open \/ Send \/ Finish \/ Read \/ Lose) => UNCHANGED <<wire, frames, connected>> /\ pc' # "store"
  BY <1>5 DEF Open, Send, Finish, Read, Lose, thread, reader
<1> QED
  BY <1>6, <1>7, <1>8, <1>9, <1>10, <1>11 DEF Next, ThreadStep

LEMMA StageStep ==
  ASSUME NoFalseFrame, Typed, LineInv, StageInv, Next
  PROVE  StageInv'
<1>1. /\ wire \in Seq(Byte) /\ Len(wire) \in Nat /\ (wire = <<>> <=> Len(wire) = 0)
      /\ frames \in Seq(ReaderFrames) /\ Len(frames) \in Nat /\ (frames = <<>> <=> Len(frames) = 0)
  BY DEF Typed, TypeOK
<1>2. CASE Emits /\ UNCHANGED thread
  <2>1. PICK g \in Arrivals : wire' = wire \o g
    BY <1>2, EmitShape
  <2>2. frames' # <<>> /\ Len(frames') = Len(frames) + 1
    BY <1>1, <1>2, EmitShape
  <2>3. ASSUME pc \in {"open", "mode"}, Len(frames') = 1 PROVE wire' \in Arrivals
    <3>1. wire = <<>>
      <4>1. \A k \in Nat : k + 1 = 1 => k = 0
        OBVIOUS
      <4>2. Len(frames) = 0
        BY <1>1, <2>2, <2>3, <4>1
      <4>3. frames = <<>>
        BY <1>1, <4>2
      <4> QED
        BY <4>3 DEF StageInv
    <3>2. g \in Seq(Byte)
      BY ArrivalShape
    <3> QED
      BY <2>1, <3>1, <3>2
  <2>4. pc = "store" => Len(frames') > 1
    BY <1>1, <2>2 DEF StageInv
  <2>5. connected => Len(frames') >= 2
    BY <1>1, <2>2 DEF StageInv
  <2> QED
    BY <1>2, <2>2, <2>3, <2>4, <2>5 DEF StageInv, thread
<1>3. CASE /\ UNCHANGED <<frames, connected>> /\ (wire' # <<>> => wire # <<>>)
           /\ pc' \notin {"open", "mode", "store"}
  BY <1>3 DEF StageInv
<1>4. CASE Turn
  <2>1. PICK n \in Nat : n <= Len(wire) /\ Len(wire') = Len(wire) - n /\ wire' \in Seq(Byte)
    BY <1>4, TurnShape
  <2>2. wire' # <<>> => wire # <<>>
    BY <1>1, <2>1
  <2> QED
    BY <1>3, <1>4, <2>2 DEF Turn
<1>5. CASE ModeAnswer \/ StoreAnswer
  <2>1. PICK n \in 0 .. LENGTH :
          /\ n <= Len(wire) /\ Take(n)
          /\ wire' \in Seq(Byte) /\ Len(wire') = Len(wire) - n
          /\ pc' \in {"store", "loop"} => n > 0 /\ crc_func(Taken(n)) = 0
          /\ pc' \in {"store", "loop", "done", "smashed"}
          /\ pc' = "store" => pc = "mode"
          /\ pc' = "loop" => pc = "store"
    BY <1>5, AnswerReadShape
  <2>2. frames' = frames
    BY <1>5 DEF ModeAnswer, StoreAnswer
  <2>3. wire' # <<>> => wire # <<>>
    BY <1>1, <2>1, Sizes
  <2>4. pc' \in {"store", "loop"} => frames # <<>>
    BY <1>1, <2>1, Sizes DEF StageInv
  <2>5. ASSUME pc' = "store", Len(frames) = 1 PROVE wire' = <<>>
    <3>1. wire \in Arrivals
      BY <2>1, <2>5 DEF StageInv
    <3>2. n = Len(wire)
      <4> SUFFICES ASSUME n < Len(wire) PROVE FALSE
        BY <1>1, <2>1, Sizes
      <4>1. n \in 1 .. Len(wire) - 1
        BY <1>1, <2>1, <2>5, Sizes
      <4>2. crc_func(SubSeq(wire, 1, n)) # 0
        BY <3>1, <4>1 DEF NoFalseFrame
      <4> QED
        BY <2>1, <2>5, <4>2 DEF Taken
    <3> QED
      BY <1>1, <2>1, <3>2
  <2>6. ASSUME pc' = "loop" PROVE Len(frames) >= 2
    <3>1. pc = "store" /\ wire # <<>>
      BY <1>1, <2>1, <2>6
    <3>2. Len(frames) # 0 /\ Len(frames) # 1
      BY <1>1, <2>4, <2>6, <3>1 DEF StageInv
    <3>3. \A k \in Nat : k # 0 /\ k # 1 => k >= 2
      OBVIOUS
    <3> QED
      BY <1>1, <3>2, <3>3
  <2>7. connected' => Len(frames) >= 2
    BY <1>5, <2>6 DEF ModeAnswer, StoreAnswer, StageInv
  <2> QED
    BY <2>1, <2>2, <2>3, <2>4, <2>5, <2>7 DEF StageInv
<1>6. (Answer \/ Notice) => Emits /\ UNCHANGED thread
  BY AnswerEmits, NoticeEmits DEF Answer, Notice
<1>7. CASE Open
  BY <1>7 DEF Open, StageInv
<1>8. (Send \/ Finish) => UNCHANGED <<frames, connected, wire>> /\ pc' \notin {"open", "mode", "store"}
  BY DEF Send, Finish, reader
<1>9. CASE Read \/ Lose
  BY <1>9 DEF Read, Lose, thread, reader, StageInv
<1> QED
  BY <1>2, <1>3, <1>4, <1>5, <1>6, <1>7, <1>8, <1>9 DEF Next, ThreadStep

(* If no beginning of a frame passes the checksum, and no noise does: the  *)
(* device counts as connected only when the line runs at the reader's      *)
(* speed and two of its frames have passed, however they were cut by       *)
(* read(), spoilt or mixed with tags noticed before (init_rfid).           *)
THEOREM ConnectedWhenReady == NoFalseFrame => (Spec => []ReadyMeansAnswered)
<1> SUFFICES ASSUME NoFalseFrame PROVE Spec => []ReadyMeansAnswered
  OBVIOUS
<1>1. Inv /\ LineInv /\ StageInv /\ [Next]_vars => LineInv' /\ StageInv'
  <2>1. ASSUME LineInv, StageInv, UNCHANGED vars PROVE LineInv' /\ StageInv'
    BY <2>1 DEF LineInv, StageInv, Understood, vars, thread, reader
  <2> QED
    BY <2>1, LineStep, StageStep DEF Inv
<1>2. LineInv /\ StageInv => ReadyMeansAnswered
  BY DEF LineInv, StageInv, ReadyMeansAnswered
<1> QED
  BY <1>1, <1>2, InitReady, SerialInv, PTL DEF Spec
------------------------------------------------------------------------------
(* The thread as the rest of the program sees it.                          *)

AsLoop == INSTANCE DeviceLoop WITH
            up <- connected,
            turn <- IF pc = "send" THEN "send" ELSE "receive"

\* The loop is reached with the device connected, and keeps it so.
LoopInv == pc \in {"loop", "send"} => connected = TRUE

(* uart.c: however frames are cut, spoilt and put together, to the rest of  *)
(* the program the thread is a DeviceLoop: one READ at most is written for  *)
(* each frame handed on or read() that brings nothing, none before the      *)
(* reader is set up, and what the router queues waits.                      *)
THEOREM LoopImplemented == Spec => AsLoop!Spec
<1>1. Init => LoopInv /\ AsLoop!Init
  BY DEF Init, LoopInv, AsLoop!Init
<1>2. Typed /\ LoopInv /\ [Next]_vars => LoopInv' /\ [AsLoop!Next]_(AsLoop!vars)
  <2> SUFFICES ASSUME Typed, LoopInv, [Next]_vars
               PROVE  LoopInv' /\ (AsLoop!Next \/ UNCHANGED AsLoop!vars)
    OBVIOUS
  <2>1. connected \in BOOLEAN /\ waiting \in Nat
    BY Sizes DEF Typed, TypeOK
  <2>2. CASE Open
    BY <2>2 DEF Open, LoopInv, AsLoop!vars
  <2>3. CASE ModeAnswer
    BY <2>3 DEF ModeAnswer, Acknowledge, LoopInv, AsLoop!vars
  <2>4. CASE StoreAnswer
    <3>1. pc = "store" /\ pc' \in {"loop", "done", "smashed"} /\ waiting' = waiting
      BY <2>4 DEF StoreAnswer, Acknowledge
    <3>2. connected' = (pc' = "loop")
      BY <2>4 DEF StoreAnswer
    <3>3. CASE pc' = "loop"
      BY <2>1, <3>1, <3>2, <3>3 DEF LoopInv, AsLoop!vars, AsLoop!Next, AsLoop!Connect
    <3>4. CASE pc' # "loop"
      BY <2>1, <3>1, <3>2, <3>4 DEF LoopInv, AsLoop!vars, AsLoop!Next, AsLoop!Disconnect
    <3> QED
      BY <3>3, <3>4
  <2>5. CASE Turn
    <3>1. pc = "loop" /\ pc' \in {"loop", "send", "smashed"} /\ UNCHANGED <<connected, waiting>>
      BY <2>5 DEF Turn
    <3>2. connected = TRUE
      BY <3>1 DEF LoopInv
    <3> QED
      BY <3>1, <3>2 DEF LoopInv, AsLoop!vars, AsLoop!Next, AsLoop!Receive
  <2>6. CASE Send
    <3>1. pc = "send" /\ pc' = "loop" /\ connected' = connected
      BY <2>6 DEF Send
    <3>2. waiting' = IF waiting = 0 THEN 0 ELSE waiting - 1
      BY <2>1, <2>6 DEF Send
    <3> QED
      BY <3>1, <3>2 DEF LoopInv, AsLoop!Next, AsLoop!Send
  <2>7. CASE Read
    BY <2>7 DEF Read, thread, LoopInv, AsLoop!Next, AsLoop!Push
  <2>8. CASE Finish \/ Answer \/ Lose \/ Notice
    BY <2>8 DEF Finish, Answer, Lose, Notice, thread, LoopInv, AsLoop!vars
  <2>9. CASE UNCHANGED vars
    BY <2>9 DEF vars, thread, LoopInv, AsLoop!vars
  <2> QED
    BY <2>2, <2>3, <2>4, <2>5, <2>6, <2>7, <2>8, <2>9 DEF Next, ThreadStep
<1>3. Inv => Typed
  BY DEF Inv
<1> QED
  BY <1>1, <1>2, <1>3, SerialInv, PTL DEF Spec, AsLoop!Spec

=============================================================================
