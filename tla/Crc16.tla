-------------------------------- MODULE Crc16 --------------------------------
(***************************************************************************)
(* crc.c: the checksum of the RFID reader's frames, computed a nibble at a *)
(* time from a table of sixteen words, beside its definition by the        *)
(* generator polynomial a bit at a time (CRC-16/MODBUS).                   *)
(***************************************************************************)
EXTENDS Integers, Sequences, SequencesExt

\* What the remainder is before the first byte: all sixteen bits set.
Preset == 65535

Byte == 0 .. 255
Word == 0 .. Preset

\* Exclusive or: of bytes by a table (a tuple: TLC computes it once), of words
\* byte by byte.
ByteXor ==
  <<>> \o [k \in 1 .. 65536 |->
            LET bit(i) == (((k - 1) \div 2^(8 + i) + (k - 1) \div 2^i) % 2) * 2^i
            IN  bit(0) + bit(1) + bit(2) + bit(3) + bit(4) + bit(5) + bit(6) + bit(7)]
Xor(a, b) ==
  256 * ByteXor[256 * (a \div 256) + (b \div 256) + 1] + ByteXor[256 * (a % 256) + (b % 256) + 1]

\* wCRCTalbeAbs.
Table ==
  << 0, 52225, 55297, 5120, 61441, 15360, 10240, 58369,
     40961, 27648, 30720, 46081, 20480, 39937, 34817, 17408 >>

\* What one nibble of the message makes of the remainder.
Nibble(wCRC, n) == Xor(Table[1 + Xor(n, wCRC % 16)], wCRC \div 16)

\* The loop over a message; step says of each byte what it makes
\* of the remainder.
Loop(step, msg) ==
  LET wCRC[i \in 0 .. Len(msg)] == IF i = 0 THEN Preset ELSE step[msg[i]][wCRC[i - 1]]
  IN  wCRC[Len(msg)]

\* Fault: the low nibble of the byte is used twice.
CRC16LowNibble(msg) ==
  Loop([c \in Byte |-> [wCRC \in Word |-> Nibble(Nibble(wCRC, c % 16), c % 16)]], msg)

CRC16(msg) ==
  Loop([c \in Byte |-> [wCRC \in Word |-> Nibble(Nibble(wCRC, c % 16), c \div 16)]], msg)

\* crc_func: 0 if the last two bytes are the checksum of the rest, the high one
\* first.  The copy of the rest into data[100] is module SerialPort's subject.
crc_func(buf) ==
  LET n == Len(buf)
      an == CRC16(SubSeq(buf, 1, n - 2))
  IN  IF n >= 3 /\ buf[n - 1] = an \div 256 /\ buf[n] = an % 256 THEN 0 ELSE 1

\* The definition: shift out a bit, and subtract the polynomial if it was set;
\* Remainder is what eight of these steps make of a byte.
Shift(crc) == IF crc % 2 = 1 THEN Xor(crc \div 2, 40961) ELSE crc \div 2
Remainder ==
  LET after[n \in 0 .. 8, c \in Byte] == IF n = 0 THEN c ELSE Shift(after[n - 1, c])
  IN  <<>> \o [c \in 1 .. 256 |-> after[8, c - 1]]

Modbus(msg) ==
  Loop([c \in Byte |-> [wCRC \in Word |->
         Xor(Remainder[1 + Xor(c, wCRC % 256)], wCRC \div 256)]], msg)

Sealed(msg) == msg \o <<Modbus(msg) \div 256, Modbus(msg) % 256>>

------------------------------------------------------------------------------
(* What the proofs use of the tables: formulas without a parameter, so that *)
(* TLC's evaluation settles them.                                           *)

Half == 0 .. 15

\* Xor goes by halves of a byte, and either operand can be cancelled.
ASSUME XorAssumption ==
  /\ \A a, b \in Byte :
       Xor(a, b) = 16 * Xor(a \div 16, b \div 16) + Xor(a % 16, b % 16)
  /\ \A a, b \in Half : Xor(a, b) \in Half
  /\ \A a, b, c \in Half : Xor(a, b) = Xor(a, c) \/ Xor(b, a) = Xor(c, a) => b = c

\* Half a byte at a time by Table, a byte that meets the low byte 16 * j + l of
\* the remainder leaves, in every higher part h of it, what Remainder holds for
\* their difference; and no two words of Remainder have the same high byte.
ASSUME TableAssumption ==
  /\ \A x \in Byte : Remainder[1 + x] \in Word
  /\ \A i, j, k \in Half, h \in Byte :
       Nibble(Xor(Table[1 + i], 16 * h + j), k) = Xor(Remainder[1 + 16 * Xor(k, j) + i], h)
  /\ \A x, h \in Byte :
       Xor(Remainder[1 + x], h)
         = 256 * (Remainder[1 + x] \div 256) + Xor(Remainder[1 + x] % 256, h)
  /\ \A x, y \in Byte : Remainder[1 + x] \div 256 = Remainder[1 + y] \div 256 => x = y
=============================================================================
