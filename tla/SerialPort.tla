----------------------------- MODULE SerialPort -----------------------------
(***************************************************************************)
(* The serial thread with its RFID reader (SerialPortThread, init_rfid and *)
(* uart_init in uart.c): the line is opened and set up, the reader is put  *)
(* into interactive mode and told to store that, and then the thread turns *)
(* between read() and its send queue, putting frames together in revbuf    *)
(* over as many reads as they take.                                        *)
(*                                                                         *)
(* The reader and the line are external: the reader understands a command  *)
(* with a correct checksum, answers at any later time or not at all, and   *)
(* sends tags of its own accord while it is in automatic mode; the line    *)
(* may spoil or lose a byte of a frame, and read() returns whatever has    *)
(* arrived.                                                                *)
(***************************************************************************)
EXTENDS RfidFrame

CONSTANTS
  Payloads,   \* what the tags say
  Speeds,     \* the speed configured for the device
  BufSize,    \* sizeof revbuf: 300,
  LENGTH,     \*   and in init_rfid: 256
  CopySize,   \* sizeof data in crc_func: 100
  Chunks,     \* bounds: how many bytes read() may return, if not all there are,
  MaxFrames,  \*   frames the reader sends,
  MaxFaults,  \*   frames spoilt on the way or commands lost,
  MaxReads    \*   READ commands of the router

ReaderSpeed == 115200
Noise       == 254   \* a byte received at the wrong speed
Garbled     == <<Noise, Noise, Noise>>

Frame(cmd, status, payload) ==
  Sealed(<<255, Len(payload) + 5, cmd, 0, 0, status>> \o payload)

\* The ways a frame may be spoilt: in its length or its last byte before the
\* checksum; cut off after the status.
Spoilt(f) ==
  {ReplaceAt(f, i, (f[i] + 4) % 256) : i \in {2, Len(f) - 2}} \cup {SubSeq(f, 1, 6)}

\* Whatever the reader has to say, when asked or by itself.
ReaderFrames ==
  {Frame(28, 0, <<>>), Frame(22, 0, <<>>), Frame(17, 8, <<>>)}
    \cup {Frame(cmd, 0, p) : cmd \in {17, 160}, p \in Payloads}

\* What may arrive of a frame: all, or it spoilt, or what the wrong speed makes of it.
ArrivesAs(f) == {f, Garbled} \cup Spoilt(f)
Arrivals == UNION {ArrivesAs(f) : f \in ReaderFrames}

\* A frame alone fits crc_func, a READ asks for forty bytes, and its length goes
\* into a byte.
ASSUME SerialPortAssumption ==
  /\ {BufSize, LENGTH, CopySize, MaxFrames, MaxFaults, MaxReads} \cup Chunks \subseteq Nat
  /\ CopySize >= 6
  /\ \A p \in Payloads : p \in Seq(Byte) /\ Len(p) <= CopySize - 6 /\ Len(p) + 5 \in Byte

VARIABLES
  pc,         \* where the thread is
  line,       \* the settings of the serial port
  part,       \* revbuf[0 .. read_offset)
  connected,  \* info->Connected
  waiting,    \* READ commands in the send queue
  handed,     \* history: the texts handed to the router, each with the verdict
              \*   that it was handed on under
  auto,       \* external: the reader is in automatic mode
  commands,   \* external: commands on the way to the reader
  wire,       \* external: bytes on the way from it
  frames,     \* history: the frames it has sent
  crowded,    \* history: it has sent one before the last was read and complete
  faults, reads  \* faults and READ commands so far

thread == <<pc, line, part, connected, handed>>
reader == <<auto, commands, wire, frames, crowded, faults>>
vars   == <<thread, waiting, reads, reader>>

------------------------------------------------------------------------------
(* The settings of the line.                                               *)

name_arr == {115200, 57600, 38400, 19200, 9600, 4800, 2400, 1200}

\* A speed that is not in the table leaves the line as it is.
set_speed(l, speed) ==
  IF speed \in name_arr THEN [l EXCEPT !.speed = speed] ELSE l

\* Eight or seven bits, a parity by its letter, one stop bit or two; raw mode,
\* read() returns after 0.3 s with what there is.  Nothing changes if one of
\* them is not supported.
set_Parity(l, databits, stopbits, parity) ==
  IF \/ databits \notin {7, 8} \/ stopbits \notin {1, 2}
     \/ parity \notin {"n", "N", "o", "O", "e", "E", "s", "S"}
  THEN l
  ELSE [l EXCEPT !.databits = databits, !.stopbits = stopbits,
                 !.parity = CASE parity \in {"o", "O"} -> "odd"
                              [] parity \in {"e", "E"} -> "even"
                              [] OTHER -> "none",
                 !.raw = TRUE, !.vtime = 3, !.vmin = 0]

\* What the driver has when the port has not been set up.
LineDefault == [speed |-> 9600, databits |-> 8, stopbits |-> 1, parity |-> "none",
                raw |-> FALSE, vtime |-> 0, vmin |-> 1]

uart_init(speed) == set_Parity(set_speed(LineDefault, speed), 8, 1, "N")

Understood(l) == l = uart_init(ReaderSpeed)

------------------------------------------------------------------------------
Init ==
  /\ pc = "open" /\ line = LineDefault /\ part = <<>> /\ connected = FALSE
  /\ waiting = 0 /\ handed = <<>>
  /\ auto \in BOOLEAN
  /\ commands = <<>> /\ wire = <<>> /\ frames = <<>>
  /\ crowded = FALSE /\ faults = 0 /\ reads = 0

Done == pc \in {"done", "smashed"}

\* The thread writes a command; the line may be at the wrong speed for it.
WriteCommand(cmd, l) ==
  commands' = IF Understood(l) THEN Append(commands, cmd) ELSE commands

\* The port opens and is set up, and the mode command is written; or the
\* thread returns.
Open ==
  /\ pc = "open"
  /\ \/ /\ \E speed \in Speeds : line' = uart_init(speed)
        /\ WriteCommand(send_rfid_cmd_manual_mode, line')
        /\ pc' = "mode"
     \/ pc' = "done" /\ UNCHANGED <<line, commands>>
  /\ UNCHANGED <<part, connected, handed, waiting, reads,
                 auto, wire, frames, crowded, faults>>

\* read() takes the first n bytes of what is on the line, if there is room.
Arrived(room) == {n \in Chunks \cup {room, Len(wire)} : n <= room /\ n <= Len(wire)}
Take(n) == wire' = SubSeq(wire, n + 1, Len(wire))
Taken(n) == SubSeq(wire, 1, n)

\* crc_func copies all but two bytes into data[CopySize].
Overruns(buf) == Len(buf) - 2 > CopySize

\* Fault: the checksum of the answer is not looked at.
AcknowledgeUnchecked(buf, next) ==
  pc' = IF buf = <<>> THEN "done" ELSE IF Overruns(buf) THEN "smashed" ELSE next

\* init_rfid goes on if the answer, read once after 0.3 s or 0.2 s, is one
\* correct frame, of whatever kind and status; otherwise the thread returns
\* and leaves the port open.
Acknowledge(buf, next) ==
  pc' = IF buf = <<>> THEN "done" ELSE IF Overruns(buf) THEN "smashed"
        ELSE IF crc_func(buf) = 0 THEN next ELSE "done"

ModeAnswer ==
  /\ pc = "mode"
  /\ \E n \in Arrived(LENGTH) : \E buf \in {Taken(n)} : Take(n) /\ Acknowledge(buf, "store")
  /\ IF pc' = "store" THEN WriteCommand(send_rfid_cmd_store, line) ELSE UNCHANGED commands
  /\ UNCHANGED <<line, part, connected, handed, waiting, reads,
                 auto, frames, crowded, faults>>

StoreAnswer ==
  /\ pc = "store"
  /\ \E n \in Arrived(LENGTH) : \E buf \in {Taken(n)} : Take(n) /\ Acknowledge(buf, "loop")
  /\ connected' = (pc' = "loop")
  /\ UNCHANGED <<line, part, handed, waiting, reads,
                 auto, commands, frames, crowded, faults>>

\* A text of no length is not handed on.
HandOn(e) == handed' = IF e.text = <<>> THEN handed ELSE Append(handed, e)

\* Fault: read_offset keeps its value.
TurnKeepsOffset ==
  /\ pc = "loop"
  /\ \E n \in Arrived(BufSize - Len(part)) : \E buf \in {part \o Taken(n)} :
       /\ Take(n)
       /\ \/ /\ buf = <<>>
             /\ pc' = "send" /\ part' = <<>> /\ UNCHANGED handed
          \/ /\ buf # <<>> /\ Incomplete(buf, Len(part))
             /\ part' = buf /\ UNCHANGED <<pc, handed>>
          \/ /\ buf # <<>> /\ ~Incomplete(buf, Len(part))
             /\ part' = buf
             /\ IF buf[1] = 255 /\ Overruns(buf)
                THEN pc' = "smashed" /\ UNCHANGED handed
                ELSE pc' = "send" /\ \E e \in Prepared(buf) : HandOn(e)
  /\ UNCHANGED <<line, connected, waiting, reads, auto, commands, frames, crowded, faults>>

\* One read() of the loop, up to the end of revbuf, and what becomes of it: not
\* complete, and the loop starts over; or prepared and handed on.
Turn ==
  /\ pc = "loop"
  /\ \E n \in Arrived(BufSize - Len(part)) : \E buf \in {part \o Taken(n)} :
       /\ Take(n)
       /\ \/ /\ buf = <<>>
             /\ pc' = "send" /\ part' = <<>> /\ UNCHANGED handed
          \/ /\ buf # <<>> /\ Incomplete(buf, Len(part))
             /\ part' = buf /\ UNCHANGED <<pc, handed>>
          \/ /\ buf # <<>> /\ ~Incomplete(buf, Len(part))
             /\ part' = <<>>
             /\ IF buf[1] = 255 /\ Overruns(buf)
                THEN pc' = "smashed" /\ UNCHANGED handed
                ELSE pc' = "send" /\ \E e \in Prepared(buf) : HandOn(e)
  /\ UNCHANGED <<line, connected, waiting, reads, auto, commands, frames, crowded, faults>>

\* Fault: the queue is not asked whether it has something.
SendUnasked ==
  /\ pc = "send"
  /\ pc' = "loop"
  /\ waiting' = waiting - 1 /\ WriteCommand(send_rfid_cmd_read_40, line)
  /\ UNCHANGED <<line, part, connected, handed, reads, auto, wire, frames, crowded, faults>>

\* ProcessSend with the queue of module SendQueue.
Send ==
  /\ pc = "send"
  /\ pc' = "loop"
  /\ IF waiting > 0
     THEN waiting' = waiting - 1 /\ WriteCommand(send_rfid_cmd_read_40, line)
     ELSE UNCHANGED <<waiting, commands>>
  /\ UNCHANGED <<line, part, connected, handed, reads, auto, wire, frames, crowded, faults>>

\* signal_handler has set ExitFlag (module Lifecycle).
Finish ==
  /\ pc = "loop"
  /\ pc' = "done"
  /\ UNCHANGED <<line, part, connected, handed, waiting, reads, reader>>

ThreadStep == Open \/ ModeAnswer \/ StoreAnswer \/ Turn \/ Send

------------------------------------------------------------------------------
(* Around the thread.                                                      *)

\* The router queues a READ.
Read ==
  /\ ~Done /\ reads < MaxReads
  /\ reads' = reads + 1 /\ waiting' = waiting + 1
  /\ UNCHANGED <<thread, reader>>

\* The reader sends a frame.
Emit(f) ==
  /\ Len(frames) < MaxFrames
  /\ frames' = Append(frames, f)
  /\ crowded' = (crowded \/ wire # <<>> \/ (part # <<>> /\ Incomplete(part, 0)))
  /\ \/ wire' = wire \o (IF Understood(line) THEN f ELSE Garbled)
        /\ UNCHANGED faults
     \/ /\ Understood(line) /\ faults < MaxFaults /\ faults' = faults + 1
        /\ \E g \in Spoilt(f) : wire' = wire \o g

\* It takes the next command, changes its mode, and answers: a mode or store
\* command with an acknowledgement, a read with a tag, or a status if it has none.
Answer ==
  /\ ~Done /\ commands # <<>>
  /\ commands' = Tail(commands)
  /\ LET c == Head(commands)
         body == SubSeq(c, 1, Len(c) - 2)
     IN  /\ Sealed(body) = c
         /\ auto' = (auto /\ c # send_rfid_cmd_manual_mode)
         /\ IF c = send_rfid_cmd_read_40
            THEN Emit(Frame(c[3], 8, <<>>)) \/ \E p \in Payloads : Emit(Frame(c[3], 0, p))
            ELSE Emit(Frame(c[3], 0, <<>>))
  /\ UNCHANGED <<thread, waiting, reads>>

\* It does not get the command, or does not understand it.
Lose ==
  /\ ~Done /\ commands # <<>> /\ faults < MaxFaults
  /\ commands' = Tail(commands)
  /\ faults' = faults + 1
  /\ UNCHANGED <<thread, waiting, reads, auto, wire, frames, crowded>>

\* It comes across a tag in automatic mode.
Notice ==
  /\ ~Done /\ auto
  /\ \E p \in Payloads : Emit(Frame(160, 0, p))
  /\ UNCHANGED <<thread, waiting, reads, auto, commands>>

Next == ThreadStep \/ Finish \/ Read \/ Answer \/ Lose \/ Notice

Spec == Init /\ [][Next]_vars

(* read() and write() return; the reader need not answer.                   *)
FairSpec == Spec /\ WF_vars(ThreadStep)

------------------------------------------------------------------------------
TypeOK ==
  /\ pc \in {"open", "mode", "store", "loop", "send", "done", "smashed"}
  /\ part \in Seq(Byte) /\ Len(part) <= BufSize
  /\ connected \in BOOLEAN /\ auto \in BOOLEAN
  /\ waiting \in 0 .. MaxReads
  /\ wire \in Seq(Byte)
  /\ faults \in 0 .. MaxFaults

PayloadOf(f) == SubSeq(f, 7, Len(f) - 2)

\* What a frame says to the router.  With two bytes of payload or more, the text
\* is the printable beginning of the payload, and what it leaves out is blank to
\* the end or begins with a byte that no text has.  A frame with less has no
\* text in it: the whole frame is handed on.
Says(text, f) ==
  IF Len(f) < 10 THEN text = f
  ELSE LET p == PayloadOf(f)
           n == Len(text)
       IN  /\ n <= Len(p)
           /\ \A i \in DOMAIN text : text[i] = p[i] /\ p[i] \in Printable
           /\ IF \A i \in n + 1 .. Len(p) : p[i] \in Blanks
              THEN n > 0 => p[n] \notin Blanks
              ELSE p[n + 1] \notin Printable

(* Whatever reads a frame is pieced together from, whatever is lost, spoilt *)
(* or joined with the next frame: what the router gets as data are frames   *)
(* the reader has sent with status 0, each at most once, in their order,    *)
(* and what they say, no byte more or less.                                 *)
DataIsGenuine ==
  LET data == {i \in DOMAIN handed : handed[i].verdict = "frame"}
      good == {j \in DOMAIN frames : frames[j][6] = 0}
  IN  \E at \in [data -> good] :
        /\ \A i \in data : Says(handed[i].text, frames[at[i]])
        /\ \A i, j \in data : i < j => at[i] < at[j]

(* The list at the head of uart.c (uart.c:17-20) has the error texts that   *)
(* devices report, and the checks put them into revbuf (uart.c:284): an     *)
(* error reaches the router as the text that stands for it.                 *)
ErrorsArriveWhole ==
  \A i \in DOMAIN handed :
    handed[i].verdict # "frame" => handed[i].text = ErrorText[handed[i].verdict]

(* A frame alone never overruns data[100] in crc_func, in however many      *)
(* pieces and with whatever error it arrives: that takes a frame sent while *)
(* bytes of an earlier one were still unread or waited for the rest.        *)
OverrunNeedsCrowding == pc = "smashed" => crowded

(* No beginning of what a frame arrives as passes the checksum, nor does   *)
(* any number of bytes received at the wrong speed.                        *)
NoFalseFrame ==
  /\ \A g \in Arrivals : \A n \in 1 .. Len(g) - 1 : crc_func(SubSeq(g, 1, n)) # 0
  /\ \A n \in 1 .. 3 * MaxFrames : crc_func([i \in 1 .. n |-> Noise]) # 0

\* As much of s as crc_func can look at, and its two bytes.
FirstBytes(s) == IF Len(s) > CopySize + 2 THEN SubSeq(s, 1, CopySize + 2) ELSE s

(* The checksum tells a frame from everything else that may be put together *)
(* behind a byte 255 of one arrival and what follows it: of all beginnings  *)
(* short enough for crc_func, only the frame itself passes.  Tails are the  *)
(* first bytes of whatever arrivals may follow, in any number.              *)
OnlyFramesPass(Tails) ==
  /\ <<>> \in Tails
  /\ \A t \in Tails, g \in Arrivals : FirstBytes(t \o g) \in Tails
  /\ \A f \in ReaderFrames : \A g \in ArrivesAs(f) : \A k \in DOMAIN g : \A t \in Tails :
       g[k] = 255 =>
         LET s == FirstBytes(SubSeq(g, k, Len(g)) \o t)
         IN  \A n \in DOMAIN s :
               crc_func(SubSeq(s, 1, n)) = 0 => k = 1 /\ n = Len(g) /\ g = f

(* The device counts as connected only if the line runs at the reader's     *)
(* speed and two frames of the reader have passed the checksum.  (That they *)
(* are the answers to the two commands is not ensured: a tag noticed in     *)
(* automatic mode will do.)                                                 *)
ReadyMeansAnswered == connected => Understood(line) /\ Len(frames) >= 2

(* The code's checksum accepts exactly what the polynomial accepts, for     *)
(* whatever is on the line or put together in revbuf.                       *)
ChecksumAgrees ==
  \A buf \in {part, wire} :
    Len(buf) >= 3 =>
      (crc_func(buf) = 0 <=> Sealed(SubSeq(buf, 1, Len(buf) - 2)) = buf)

(* What has been read does not lie about: a frame that is never completed,  *)
(* or announces more than it brings, is handed on or reported, and the send *)
(* queue gets its turn again.                                               *)
NothingLiesAbout == part # <<>> ~> (part = <<>> \/ Done)

(* A waiting READ is written to the reader, unless the thread stops.        *)
ReadsAreWritten == connected /\ waiting > 0 ~> (waiting = 0 \/ Done)
=============================================================================
