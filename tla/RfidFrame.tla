------------------------------ MODULE RfidFrame ------------------------------
(***************************************************************************)
(* The frames of the RFID reader as uart.c takes them apart: 0xFF, the     *)
(* length less three, a command, two address bytes, a status, the payload, *)
(* the checksum.  prepare_filter_recv_data_rfid turns what has been read   *)
(* into the text for the router, or finds that it is not complete.  char   *)
(* is unsigned (ARM).                                                      *)
(***************************************************************************)
EXTENDS Crc16

send_rfid_cmd_manual_mode == <<255, 11, 28, 0, 0, 0, 0, 1, 1, 0, 1, 0, 53, 234>>
send_rfid_cmd_store       == <<255, 4, 22, 0, 0, 224, 208>>
send_rfid_cmd_read_40     == <<255, 7, 17, 0, 0, 0, 0, 40, 144, 122>>

\* "ERR:HEADER#", "ERR:CRC#" and "ERR:RESP#".
ErrHeader == <<69, 82, 82, 58, 72, 69, 65, 68, 69, 82, 35>>
ErrCrc    == <<69, 82, 82, 58, 67, 82, 67, 35>>
ErrResp   == <<69, 82, 82, 58, 82, 69, 83, 80, 35>>

Blanks    == {0, 10, 13, 32}
Printable == 32 .. 126

\* Fault: a frame that nothing has been added to is still waited for.
IncompleteForEver(buf, read_offset) ==
  /\ buf[1] = 255
  /\ Len(buf) >= 3 => buf[2] > (Len(buf) - 3) % 256

\* The length announced, compared in eight bits, is not there yet; unless the
\* last read() has added nothing to what was there before.
Incomplete(buf, read_offset) ==
  /\ buf[1] = 255
  /\ read_offset # Len(buf)
  /\ Len(buf) >= 3 => buf[2] > (Len(buf) - 3) % 256

\* The status byte; past the end of a short frame it is whatever an earlier
\* read() left in revbuf.
Status(buf) == IF Len(buf) >= 6 THEN {buf[6]} ELSE {0, 1}

\* What the checks come to: one of the errors, or a frame.
Verdict(buf, status) ==
  IF buf[1] # 255 THEN "header"
  ELSE IF crc_func(buf) # 0 THEN "crc"
  ELSE IF status # 0 THEN "resp"
  ELSE "frame"

\* What revbuf holds after them: the frame, or an error text over it.
ErrorText == [header |-> ErrHeader, crc |-> ErrCrc, resp |-> ErrResp]

Checked(buf, verdict) == IF verdict = "frame" THEN buf ELSE ErrorText[verdict]

\* The longest beginning of s that has no trailing blank, and of that the
\* longest that is printable.
Longest(s, Ok(_)) ==
  SubSeq(s, 1, CHOOSE n \in 0 .. Len(s) : Ok(n) /\ \A m \in n + 1 .. Len(s) : ~Ok(m))
TrimBlanks(s)   == Longest(s, LAMBDA n : n > 0 => s[n] \notin Blanks)
CutAtInvalid(s) == Longest(s, LAMBDA n : \A i \in 1 .. n : s[i] \in Printable)

\* Fault: the payload is taken one byte too far.
ExtractPastEnd(text) ==
  IF Len(text) < 10 THEN text
  ELSE CutAtInvalid(TrimBlanks(SubSeq(text, 7, Len(text) - 1)))

\* From ten bytes on, the payload without header and checksum.  The error texts
\* were to be left out of this, but memcpy stands where memcmp was meant: of
\* "ERR:HEADER#" the router gets "ADE".
Extract(text) ==
  IF Len(text) < 10 THEN text
  ELSE CutAtInvalid(TrimBlanks(SubSeq(text, 7, Len(text) - 2)))

\* What prepare_filter_recv_data_rfid leaves of a complete frame, with what it
\* has found.
Prepared(buf) ==
  {[verdict |-> v, text |-> Extract(Checked(buf, v))] : v \in {Verdict(buf, s) : s \in Status(buf)}}
=============================================================================
