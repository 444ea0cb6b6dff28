------------------------------ MODULE JsonText ------------------------------
(***************************************************************************)
(* Strings as cJSON.c reads them: sequences of byte values, in the file    *)
(* between quotes and with escapes, in memory decoded and ended by the     *)
(* first NUL.                                                              *)
(***************************************************************************)
EXTENDS Integers, Sequences, SequencesExt

\* What strcmp and its like see of a decoded string.
CString(s) == IF Contains(s, 0) THEN SubSeq(s, 1, SelectInSeq(s, LAMBDA c : c = 0) - 1) ELSE s

tolower(c) == IF c \in 65 .. 90 THEN c + 32 ELSE c

\* 0 if they are equal but for the case of letters.
case_insensitive_strcmp(s, t) ==
  IF [i \in DOMAIN s |-> tolower(s[i])] = [i \in DOMAIN t |-> tolower(t[i])] THEN 0 ELSE 1

Hex == (48 .. 57) \cup (65 .. 70) \cup (97 .. 102)

\* The value of four hexadecimal digits; 0 if one of them is none.
parse_hex4(s) ==
  LET digit(c) == IF c <= 57 THEN c - 48 ELSE tolower(c) - 87
  IN  IF \E i \in DOMAIN s : s[i] \notin Hex THEN 0
      ELSE FoldLeft(LAMBDA h, c : 16 * h + digit(c), 0, s)

HighSurrogates == 55296 .. 56319
LowSurrogates  == 56320 .. 57343

NoLiteral == [length |-> 0, utf8 |-> <<>>]

\* Fault: the pairs do not begin above the sixteen-bit characters.
CodePointLow(first, second) == (first % 1024) * 1024 + (second % 1024)

\* The character of a surrogate pair.
CodePoint(first, second) == 65536 + (first % 1024) * 1024 + (second % 1024)

\* The encoding of a character in one to four bytes.
UTF8(code) ==
  LET part(n) == 128 + ((code \div 64^n) % 64)
  IN  IF code < 128 THEN <<code>>
      ELSE IF code < 2048 THEN <<192 + (code \div 64), part(0)>>
      ELSE IF code < 65536 THEN <<224 + (code \div 4096), part(1), part(0)>>
      ELSE <<240 + (code \div 262144), part(2), part(1), part(0)>>

\* What the string s, from a \u on, begins with: one escape or a pair of them.
utf16_literal_to_utf8(s) ==
  LET first  == IF Len(s) < 6 THEN 0 ELSE parse_hex4(SubSeq(s, 3, 6))
      second == IF Len(s) < 12 THEN 0 ELSE parse_hex4(SubSeq(s, 9, 12))
  IN  IF Len(s) < 6 \/ first \in LowSurrogates THEN NoLiteral
      ELSE IF first \notin HighSurrogates THEN [length |-> 6, utf8 |-> UTF8(first)]
      ELSE IF Len(s) < 12 \/ SubSeq(s, 7, 8) # <<92, 117>> \/ second \notin LowSurrogates THEN NoLiteral
      ELSE [length |-> 12, utf8 |-> UTF8(CodePoint(first, second))]

\* \b \f \n \r \t, and the three that stand for themselves; -1 for any other.
Simple(c) ==
  CASE c = 98 -> 8 [] c = 102 -> 12 [] c = 110 -> 10 [] c = 114 -> 13 [] c = 116 -> 9
    [] c \in {34, 92, 47} -> c
    [] OTHER -> -1

\* The second loop of parse_string: the bytes that raw stands for, or <<-1>>
\* where it fails.
Unescaped(raw) ==
  LET from[i \in 1 .. Len(raw) + 1] ==
        IF i > Len(raw) THEN <<>>
        ELSE IF raw[i] # 92 THEN <<raw[i]>> \o from[i + 1]
        ELSE IF Simple(raw[i + 1]) # -1 THEN <<Simple(raw[i + 1])>> \o from[i + 2]
        ELSE IF raw[i + 1] # 117 THEN <<-1>>
        ELSE LET literal == utf16_literal_to_utf8(SubSeq(raw, i, Len(raw)))
             IN  IF literal.length = 0 THEN <<-1>> ELSE literal.utf8 \o from[i + literal.length]
  IN  from[1]
Fails(bytes) == Contains(bytes, -1)

------------------------------------------------------------------------------
(* The definition: how JSON writes a character, and how UTF-8 reads one.   *)

HexDigits(n) ==
  [i \in 1 .. 4 |-> LET d == (n \div 16^(4 - i)) % 16 IN IF d < 10 THEN 48 + d ELSE 87 + d]
Escape(code) ==
  IF code < 65536 THEN <<92, 117>> \o HexDigits(code)
  ELSE <<92, 117>> \o HexDigits(55296 + ((code - 65536) \div 1024))
       \o <<92, 117>> \o HexDigits(56320 + ((code - 65536) % 1024))

\* The characters that bytes are the UTF-8 of: a byte below 128 is one, one of
\* 192 and more begins one, the others go on with it.
CodePoints(bytes) ==
  LET lead(b) == IF b < 128 THEN b ELSE IF b < 224 THEN b - 192 ELSE IF b < 240 THEN b - 224 ELSE b - 240
  IN  FoldLeft(LAMBDA codes, b :
                 IF b \in 128 .. 191
                 THEN [codes EXCEPT ![Len(codes)] = @ * 64 + b - 128]
                 ELSE Append(codes, lead(b)),
               <<>>, bytes)
=============================================================================
