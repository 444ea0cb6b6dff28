---------------------------- MODULE Crc16Proofs ----------------------------
(***************************************************************************)
(* What holds of the checksum for messages of every length.  Induction     *)
(* over a message needs no operator as a parameter: it is stated of sets   *)
(* of natural numbers.                                                     *)
(***************************************************************************)
EXTENDS Crc16, FiniteSetTheorems, TLAPS

------------------------------------------------------------------------------
(* Induction.                                                              *)

\* Of the intervals from 0 to a member, one has none below it.
LEMMA LeastMember ==
  ASSUME NEW S, S \subseteq Nat, S # {}
  PROVE  \E m \in S : \A k \in S : m <= k
<1> DEFINE T == {0 .. k : k \in S}
<1>1. IsWellFoundedOn(StrictSubsetOrdering(Nat), FiniteSubsetsOf(Nat))
  BY FS_StrictSubsetOrderingWellFounded
<1>2. ASSUME NEW k \in S
      PROVE  0 .. k \in FiniteSubsetsOf(Nat)
  <2>1. IsFiniteSet(0 .. k) /\ 0 .. k \subseteq Nat
    BY FS_Interval
  <2> QED
    BY <2>1, Zenon DEF FiniteSubsetsOf
<1>3. T \subseteq FiniteSubsetsOf(Nat) /\ T # {}
  BY <1>2
<1>4. \E x \in T : \A y \in T : <<y, x>> \notin StrictSubsetOrdering(Nat)
  <2> HIDE DEF T
  <2> QED
    BY <1>1, <1>3, WFMin
<1>5. PICK m \in S : \A y \in T : <<y, 0 .. m>> \notin StrictSubsetOrdering(Nat)
  BY <1>4
<1>6. ASSUME NEW k \in S, ~ (m <= k)
      PROVE  FALSE
  <2> DEFINE A == 0 .. k
             B == 0 .. m
  <2>1. A \subseteq B /\ m \in B /\ m \notin A
    BY <1>6
  <2>2. A \in SUBSET Nat /\ B \in SUBSET Nat /\ A \in T
    BY <1>2, Zenon DEF FiniteSubsetsOf
  <2> HIDE DEF A, B
  <2>3. <<A, B>> \in StrictSubsetOrdering(Nat)
    BY <2>1, <2>2 DEF StrictSubsetOrdering
  <2> QED
    BY <1>5, <2>2, <2>3, Zenon DEF B
<1> QED
  BY <1>6

LEMMA NatSets ==
  ASSUME NEW S, 0 \in S, \A n \in Nat : n \in S => n + 1 \in S
  PROVE  \A n \in Nat : n \in S
<1> SUFFICES ASSUME NEW n \in Nat, n \notin S
             PROVE  FALSE
  OBVIOUS
<1> DEFINE T == {k \in Nat : k \notin S}
<1>1. T \subseteq Nat /\ T # {}
  OBVIOUS
<1>2. PICK m \in T : \A k \in T : m <= k
  <2> HIDE DEF T
  <2> QED
    BY <1>1, LeastMember
<1>3. m \in Nat /\ m \notin S /\ m # 0
  OBVIOUS
<1>4. m - 1 \in Nat /\ ~ (m <= m - 1) /\ m = (m - 1) + 1
  BY <1>3
<1> QED
  BY <1>2, <1>3, <1>4

------------------------------------------------------------------------------
(* The loop over a message: f holds the remainders it goes through.        *)

IsRun(f, n, step, msg) ==
  f = [i \in 0 .. n |-> IF i = 0 THEN Preset ELSE step[msg[i]][f[i - 1]]]

LEMMA RunAt ==
  ASSUME NEW step, NEW msg, NEW n \in Nat, NEW f, IsRun(f, n, step, msg)
  PROVE  f[0] = Preset /\ \A i \in 1 .. n : f[i] = step[msg[i]][f[i - 1]]
<1> DEFINE e(i) == IF i = 0 THEN Preset ELSE step[msg[i]][f[i - 1]]
<1>1. f = [i \in 0 .. n |-> e(i)]
  BY Zenon DEF IsRun
<1> HIDE DEF e
<1>2. \A i \in 0 .. n : f[i] = e(i)
  BY <1>1, Zenon
<1>3. 0 \in 0 .. n /\ \A i \in 1 .. n : i \in 0 .. n /\ i # 0
  OBVIOUS
<1> QED
  BY <1>2, <1>3, Zenon DEF e

LEMMA RunStarts ==
  ASSUME NEW step, NEW msg
  PROVE  \E f : IsRun(f, 0, step, msg)
<1> DEFINE f == [i \in 0 .. 0 |-> Preset]
<1>1. \A i \in 0 .. 0 : i = 0
  OBVIOUS
<1>2. f = [i \in 0 .. 0 |-> IF i = 0 THEN Preset ELSE step[msg[i]][f[i - 1]]]
  BY <1>1, Zenon
<1> HIDE DEF f
<1> QED
  BY <1>2, Zenon DEF IsRun

LEMMA RunGoesOn ==
  ASSUME NEW step, NEW msg, NEW n \in Nat, NEW f, IsRun(f, n, step, msg)
  PROVE  \E g : IsRun(g, n + 1, step, msg)
<1> DEFINE last == step[msg[n + 1]][f[n]]
           g == [i \in 0 .. n + 1 |-> IF i = n + 1 THEN last ELSE f[i]]
<1>1. f[0] = Preset /\ \A i \in 1 .. n : f[i] = step[msg[i]][f[i - 1]]
  BY RunAt
<1>2. ASSUME NEW i \in 0 .. n + 1
      PROVE  g[i] = IF i = 0 THEN Preset ELSE step[msg[i]][g[i - 1]]
  <2>1. CASE i = n + 1
    <3>1. i # 0 /\ i - 1 = n /\ n \in 0 .. n + 1 /\ n # n + 1
      BY <2>1
    <3>2. g[i] = last /\ g[i - 1] = f[n]
      BY <2>1, <3>1, Zenon
    <3> QED
      BY <2>1, <3>1, <3>2, Zenon
  <2>2. CASE i # n + 1 /\ i # 0
    <3>1. i \in 1 .. n /\ i - 1 \in 0 .. n + 1 /\ i - 1 # n + 1
      BY <2>2
    <3>2. g[i] = f[i] /\ g[i - 1] = f[i - 1]
      BY <2>2, <3>1, Zenon
    <3> QED
      BY <1>1, <2>2, <3>1, <3>2, Zenon
  <2>3. CASE i = 0
    <3>1. i # n + 1
      BY <2>3
    <3> QED
      BY <1>1, <2>3, <3>1, Zenon
  <2> QED
    BY <2>1, <2>2, <2>3
<1>3. g = [i \in 0 .. n + 1 |-> g[i]]
  BY Zenon
<1> HIDE DEF g
<1>4. g = [i \in 0 .. n + 1 |-> IF i = 0 THEN Preset ELSE step[msg[i]][g[i - 1]]]
  BY <1>2, <1>3, Zenon
<1> QED
  BY <1>4, Zenon DEF IsRun

\* The recursive definition in Loop has a solution, and Loop is its last value.
LEMMA LoopRuns ==
  ASSUME NEW step, NEW msg, Len(msg) \in Nat
  PROVE  \E f : IsRun(f, Len(msg), step, msg) /\ Loop(step, msg) = f[Len(msg)]
<1> DEFINE S == {n \in Nat : \E f : IsRun(f, n, step, msg)}
<1>1. 0 \in S
  BY RunStarts
<1>2. ASSUME NEW n \in Nat, n \in S
      PROVE  n + 1 \in S
  <2>1. n + 1 \in Nat
    OBVIOUS
  <2>2. PICK f : IsRun(f, n, step, msg)
    BY <1>2
  <2> QED
    BY <2>1, <2>2, RunGoesOn
<1>3. \A n \in Nat : n \in S
  <2> HIDE DEF S
  <2> QED
    BY <1>1, <1>2, NatSets
<1> DEFINE r == CHOOSE f : IsRun(f, Len(msg), step, msg)
<1>4. IsRun(r, Len(msg), step, msg)
  BY <1>3, Zenon
<1>5. Loop(step, msg) = r[Len(msg)]
  BY Zenon DEF Loop, IsRun
<1> QED
  BY <1>4, <1>5, Zenon

LEMMA RunTyped ==
  ASSUME NEW W, NEW B, NEW step \in [B -> [W -> W]], NEW msg \in Seq(B), Preset \in W,
         NEW f, IsRun(f, Len(msg), step, msg)
  PROVE  \A n \in 0 .. Len(msg) : f[n] \in W
<1> DEFINE S == {n \in Nat : n <= Len(msg) => f[n] \in W}
<1>1. f[0] = Preset /\ \A i \in 1 .. Len(msg) : f[i] = step[msg[i]][f[i - 1]]
  BY RunAt
<1>2. 0 \in S
  BY <1>1
<1>3. ASSUME NEW n \in Nat, n \in S
      PROVE  n + 1 \in S
  <2>1. SUFFICES ASSUME n + 1 <= Len(msg)
                 PROVE  f[n + 1] \in W
    OBVIOUS
  <2>2. n <= Len(msg) /\ n + 1 \in 1 .. Len(msg) /\ (n + 1) - 1 = n
    BY <2>1
  <2>3. f[n] \in W /\ msg[n + 1] \in B
    BY <1>3, <2>2
  <2>4. f[n + 1] = step[msg[n + 1]][f[n]]
    BY <1>1, <2>2
  <2> QED
    BY <2>3, <2>4
<1>4. \A n \in Nat : n \in S
  <2> HIDE DEF S
  <2> QED
    BY <1>2, <1>3, NatSets
<1> QED
  BY <1>4

LEMMA LoopTyped ==
  ASSUME NEW W, NEW B, NEW step \in [B -> [W -> W]], NEW msg \in Seq(B), Preset \in W
  PROVE  Loop(step, msg) \in W
<1>1. Len(msg) \in Nat /\ Len(msg) \in 0 .. Len(msg)
  OBVIOUS
<1>2. PICK f : IsRun(f, Len(msg), step, msg) /\ Loop(step, msg) = f[Len(msg)]
  BY <1>1, LoopRuns
<1>3. \A n \in 0 .. Len(msg) : f[n] \in W
  BY <1>2, RunTyped
<1> QED
  BY <1>1, <1>2, <1>3

\* Messages that differ in one place leave different remainders, if no byte
\* makes the same of two remainders and the two at that place never agree.
Differ(s, t, at) ==
  /\ Len(t) = Len(s) /\ at \in 1 .. Len(s)
  /\ \A i \in 1 .. Len(s) : i # at => t[i] = s[i]

Injective(step, B, W) ==
  \A c \in B : \A v, w \in W : step[c][v] = step[c][w] => v = w

NeverAgree(step, c, d, W) == \A w \in W : step[c][w] # step[d][w]

ApartFrom(f, g, n, at) == IF n < at THEN g[n] = f[n] ELSE g[n] # f[n]

LEMMA RunsDiffer ==
  ASSUME NEW W, NEW B, NEW step \in [B -> [W -> W]], Preset \in W,
         Injective(step, B, W),
         NEW s \in Seq(B), NEW t \in Seq(B), NEW at, Differ(s, t, at),
         NeverAgree(step, s[at], t[at], W),
         NEW f, IsRun(f, Len(s), step, s), NEW g, IsRun(g, Len(t), step, t)
  PROVE  \A n \in 0 .. Len(s) : ApartFrom(f, g, n, at)
<1> DEFINE S == {n \in Nat : n <= Len(s) => ApartFrom(f, g, n, at)}
<1>0. Len(s) \in Nat /\ Len(t) = Len(s) /\ at \in 1 .. Len(s)
  BY DEF Differ
<1>1. f[0] = Preset /\ \A i \in 1 .. Len(s) : f[i] = step[s[i]][f[i - 1]]
  <2>1. IsRun(f, Len(s), step, s)
    OBVIOUS
  <2> QED
    BY <1>0, <2>1, RunAt
<1>2. g[0] = Preset /\ \A i \in 1 .. Len(s) : g[i] = step[t[i]][g[i - 1]]
  <2>1. IsRun(g, Len(s), step, t)
    BY <1>0, Zenon
  <2> QED
    BY <1>0, <2>1, RunAt
<1>3. \A n \in 0 .. Len(s) : f[n] \in W /\ g[n] \in W
  BY <1>0, RunTyped
<1>4. 0 \in S
  BY <1>0, <1>1, <1>2 DEF ApartFrom
<1>5. ASSUME NEW n \in Nat, n \in S
      PROVE  n + 1 \in S
  <2>1. SUFFICES ASSUME n + 1 <= Len(s)
                 PROVE  ApartFrom(f, g, n + 1, at)
    OBVIOUS
  <2>2. ApartFrom(f, g, n, at) /\ n \in 0 .. Len(s) /\ n + 1 \in 1 .. Len(s) /\ (n + 1) - 1 = n
    BY <1>0, <1>5, <2>1
  <2>3. f[n] \in W /\ g[n] \in W /\ s[n + 1] \in B /\ t[n + 1] \in B
    BY <1>0, <1>3, <2>2
  <2>4. f[n + 1] = step[s[n + 1]][f[n]] /\ g[n + 1] = step[t[n + 1]][g[n]]
    BY <1>1, <1>2, <2>2
  <2>5. CASE n + 1 = at
    <3>1. n < at /\ ~ (n + 1 < at)
      BY <2>5
    <3> QED
      BY <2>2, <2>3, <2>4, <2>5, <3>1 DEF ApartFrom, NeverAgree
  <2>6. CASE n + 1 # at
    <3>1. t[n + 1] = s[n + 1] /\ (n < at <=> n + 1 < at)
      BY <1>0, <2>2, <2>6 DEF Differ
    <3> QED
      BY <2>2, <2>3, <2>4, <3>1 DEF ApartFrom, Injective
  <2> QED
    BY <2>5, <2>6
<1>6. \A n \in Nat : n \in S
  <2> HIDE DEF S
  <2> QED
    BY <1>4, <1>5, NatSets
<1> QED
  BY <1>6

LEMMA LoopsDiffer ==
  ASSUME NEW W, NEW B, NEW step \in [B -> [W -> W]], Preset \in W,
         Injective(step, B, W),
         NEW s \in Seq(B), NEW t \in Seq(B), NEW at, Differ(s, t, at),
         NeverAgree(step, s[at], t[at], W)
  PROVE  Loop(step, t) # Loop(step, s)
<1>1. Len(s) \in Nat /\ Len(t) = Len(s) /\ Len(s) \in 0 .. Len(s) /\ ~ (Len(s) < at)
  BY DEF Differ
<1>2. PICK f : IsRun(f, Len(s), step, s) /\ Loop(step, s) = f[Len(s)]
  BY <1>1, LoopRuns
<1>3. PICK g : IsRun(g, Len(t), step, t) /\ Loop(step, t) = g[Len(t)]
  BY <1>1, LoopRuns
<1>4. \A n \in 0 .. Len(s) : ApartFrom(f, g, n, at)
  <2>1. IsRun(f, Len(s), step, s) /\ IsRun(g, Len(t), step, t)
    BY <1>2, <1>3
  <2> QED
    BY <2>1, RunsDiffer, Zenon
<1> QED
  BY <1>1, <1>2, <1>3, <1>4 DEF ApartFrom

------------------------------------------------------------------------------
(* One byte: the code's two steps by Table and the one by Remainder.       *)

CodeStep == [c \in Byte |-> [wCRC \in Word |-> Nibble(Nibble(wCRC, c % 16), c \div 16)]]

ModbusStep ==
  [c \in Byte |-> [wCRC \in Word |->
     Xor(Remainder[1 + Xor(c, wCRC % 256)], wCRC \div 256)]]

LEMMA Halves ==
  ASSUME NEW c \in Byte
  PROVE  c % 16 \in Half /\ c \div 16 \in Half /\ c = 16 * (c \div 16) + (c % 16)
<1>1. c \in Int /\ 0 <= c /\ c <= 255
  BY DEF Byte
<1>2. c % 16 \in 0 .. 15
  BY <1>1
<1>3. c \div 16 \in 0 .. 15
  BY <1>1
<1>4. c = 16 * (c \div 16) + (c % 16)
  BY <1>1
<1> QED
  BY <1>2, <1>3, <1>4 DEF Half

LEMMA Bytes ==
  ASSUME NEW w \in Word
  PROVE  /\ w \div 256 \in Byte /\ w % 256 \in Byte
         /\ w = 256 * (w \div 256) + (w % 256)
         /\ (w % 256) % 16 = w % 16
         /\ w \div 16 = 16 * (w \div 256) + (w % 256) \div 16
<1>1. w \in Int /\ 0 <= w /\ w <= 65535
  BY DEF Word, Preset
<1>2. w \div 256 \in 0 .. 255
  BY <1>1
<1>3. w % 256 \in 0 .. 255
  BY <1>1
<1>4. w = 256 * (w \div 256) + (w % 256)
  BY <1>1
<1>5. (w % 256) % 16 = w % 16
  BY <1>1
<1>6. w \div 16 = 16 * (w \div 256) + (w % 256) \div 16
  BY <1>1
<1> QED
  BY <1>2, <1>3, <1>4, <1>5, <1>6 DEF Byte

LEMMA XorByte ==
  ASSUME NEW a \in Byte, NEW b \in Byte
  PROVE  Xor(a, b) \in Byte
<1>1. PICK x \in 0 .. 15 : x = Xor(a \div 16, b \div 16)
  BY Halves, XorAssumption DEF Half
<1>2. PICK y \in 0 .. 15 : y = Xor(a % 16, b % 16)
  BY Halves, XorAssumption DEF Half
<1>3. Xor(a, b) = 16 * x + y
  BY <1>1, <1>2, XorAssumption
<1>4. 16 * x + y \in 0 .. 255
  OBVIOUS
<1> QED
  BY <1>3, <1>4 DEF Byte

LEMMA XorCancels ==
  ASSUME NEW a \in Byte, NEW b \in Byte, NEW c \in Byte,
         Xor(a, b) = Xor(a, c) \/ Xor(b, a) = Xor(c, a)
  PROVE  b = c
<1>1. ASSUME NEW x \in Half, NEW y \in Half, NEW u \in Half, NEW v \in Half,
             16 * x + y = 16 * u + v
      PROVE  x = u /\ y = v
  BY <1>1 DEF Half
<1>2. /\ a \div 16 \in Half /\ a % 16 \in Half
      /\ b \div 16 \in Half /\ b % 16 \in Half
      /\ c \div 16 \in Half /\ c % 16 \in Half
  BY Halves
<1>3. /\ Xor(a, b) = 16 * Xor(a \div 16, b \div 16) + Xor(a % 16, b % 16)
      /\ Xor(a, c) = 16 * Xor(a \div 16, c \div 16) + Xor(a % 16, c % 16)
      /\ Xor(b, a) = 16 * Xor(b \div 16, a \div 16) + Xor(b % 16, a % 16)
      /\ Xor(c, a) = 16 * Xor(c \div 16, a \div 16) + Xor(c % 16, a % 16)
  BY XorAssumption
<1>4. b \div 16 = c \div 16 /\ b % 16 = c % 16
  <2>1. CASE Xor(a, b) = Xor(a, c)
    <3>1. /\ Xor(a \div 16, b \div 16) \in Half /\ Xor(a % 16, b % 16) \in Half
          /\ Xor(a \div 16, c \div 16) \in Half /\ Xor(a % 16, c % 16) \in Half
      BY <1>2, XorAssumption
    <3>2. /\ Xor(a \div 16, b \div 16) = Xor(a \div 16, c \div 16)
          /\ Xor(a % 16, b % 16) = Xor(a % 16, c % 16)
      BY <1>1, <1>3, <2>1, <3>1
    <3> QED
      BY <1>2, <3>2, XorAssumption
  <2>2. CASE Xor(b, a) = Xor(c, a)
    <3>1. /\ Xor(b \div 16, a \div 16) \in Half /\ Xor(b % 16, a % 16) \in Half
          /\ Xor(c \div 16, a \div 16) \in Half /\ Xor(c % 16, a % 16) \in Half
      BY <1>2, XorAssumption
    <3>2. /\ Xor(b \div 16, a \div 16) = Xor(c \div 16, a \div 16)
          /\ Xor(b % 16, a % 16) = Xor(c % 16, a % 16)
      BY <1>1, <1>3, <2>2, <3>1
    <3> QED
      BY <1>2, <3>2, XorAssumption
  <2> QED
    BY <2>1, <2>2
<1>5. b = 16 * (b \div 16) + (b % 16) /\ c = 16 * (c \div 16) + (c % 16)
  BY Halves
<1> QED
  BY <1>4, <1>5

LEMMA StepsAgree ==
  ASSUME NEW w \in Word, NEW c \in Byte
  PROVE  Nibble(Nibble(w, c % 16), c \div 16)
           = Xor(Remainder[1 + Xor(c, w % 256)], w \div 256)
<1> DEFINE i == Xor(c % 16, w % 16)
           j == (w % 256) \div 16
           k == c \div 16
           h == w \div 256
<1>1. /\ h \in Byte /\ w % 256 \in Byte /\ j \in Half /\ k \in Half
      /\ w % 16 \in Half /\ c % 16 \in Half
      /\ w \div 16 = 16 * h + j
      /\ (w % 256) % 16 = w % 16
  <2>1. /\ h \in Byte /\ w % 256 \in Byte
        /\ w \div 16 = 16 * h + j /\ (w % 256) % 16 = w % 16
    BY Bytes
  <2>2. (w % 256) % 16 \in Half /\ j \in Half
    BY <2>1, Halves
  <2>3. k \in Half /\ c % 16 \in Half
    BY Halves
  <2> QED
    BY <2>1, <2>2, <2>3
<1>2. i \in Half /\ Xor(k, j) \in Half
  BY <1>1, XorAssumption
<1>3. Nibble(w, c % 16) = Xor(Table[1 + i], 16 * h + j)
  BY <1>1 DEF Nibble
<1>4. Xor(c, w % 256) = 16 * Xor(k, j) + i
  BY <1>1, XorAssumption
<1> HIDE DEF i, j, k, h
<1>5. Nibble(Xor(Table[1 + i], 16 * h + j), k) = Xor(Remainder[1 + 16 * Xor(k, j) + i], h)
  BY <1>1, <1>2, TableAssumption
<1>6. 1 + Xor(c, w % 256) = 1 + 16 * Xor(k, j) + i
  BY <1>2, <1>4 DEF Half
<1>7. Nibble(Nibble(w, c % 16), k) = Xor(Remainder[1 + Xor(c, w % 256)], h)
  BY <1>3, <1>5, <1>6, Zenon
<1> QED
  BY <1>7 DEF k, h

LEMMA SameStep == CodeStep = ModbusStep
<1>1. ASSUME NEW c \in Byte
      PROVE  [wCRC \in Word |-> Nibble(Nibble(wCRC, c % 16), c \div 16)]
               = [wCRC \in Word |-> Xor(Remainder[1 + Xor(c, wCRC % 256)], wCRC \div 256)]
  <2>1. \A w \in Word : Nibble(Nibble(w, c % 16), c \div 16)
                          = Xor(Remainder[1 + Xor(c, w % 256)], w \div 256)
    BY StepsAgree
  <2> QED
    BY <2>1, Zenon
<1> QED
  BY <1>1, Zenon DEF CodeStep, ModbusStep

\* A step, by the two bytes of what it leaves.
Met(c, w)      == Xor(c, w % 256)
HighLeft(c, w) == Remainder[1 + Met(c, w)] \div 256
LowLeft(c, w)  == Xor(Remainder[1 + Met(c, w)] % 256, w \div 256)

LEMMA StepBytes ==
  ASSUME NEW c \in Byte, NEW w \in Word
  PROVE  /\ Met(c, w) \in Byte /\ HighLeft(c, w) \in Byte /\ LowLeft(c, w) \in Byte
         /\ ModbusStep[c][w] = 256 * HighLeft(c, w) + LowLeft(c, w)
<1> DEFINE x == Met(c, w)
<1>1. w % 256 \in Byte /\ w \div 256 \in Byte
  BY Bytes
<1>2. x \in Byte
  BY <1>1, XorByte DEF Met
<1>3. ModbusStep[c][w] = Xor(Remainder[1 + x], w \div 256)
  BY DEF ModbusStep, Met
<1> HIDE DEF x
<1>4. Remainder[1 + x] \in Word
  BY <1>2, TableAssumption
<1>5. Remainder[1 + x] \div 256 \in Byte /\ Remainder[1 + x] % 256 \in Byte
  BY <1>4, Bytes
<1>6. Xor(Remainder[1 + x] % 256, w \div 256) \in Byte
  BY <1>1, <1>5, XorByte
<1>7. Xor(Remainder[1 + x], w \div 256)
        = 256 * (Remainder[1 + x] \div 256) + Xor(Remainder[1 + x] % 256, w \div 256)
  BY <1>1, <1>2, TableAssumption
<1>8. HighLeft(c, w) = Remainder[1 + x] \div 256
  BY Zenon DEF HighLeft, x
<1>9. LowLeft(c, w) = Xor(Remainder[1 + x] % 256, w \div 256)
  BY Zenon DEF LowLeft, x
<1>10. Met(c, w) \in Byte
  BY <1>2, Zenon DEF x
<1>11. HighLeft(c, w) \in Byte /\ LowLeft(c, w) \in Byte
  BY <1>5, <1>6, <1>8, <1>9
<1>12. ModbusStep[c][w] = 256 * HighLeft(c, w) + LowLeft(c, w)
  BY <1>3, <1>7, <1>8, <1>9
<1> QED
  BY <1>10, <1>11, <1>12

LEMMA WordOfBytes ==
  ASSUME NEW p \in Byte, NEW q \in Byte
  PROVE  256 * p + q \in Word
<1>1. p \in Int /\ 0 <= p /\ p <= 255
  BY DEF Byte
<1>2. q \in Int /\ 0 <= q /\ q <= 255
  BY DEF Byte
<1>3. 256 * p + q \in Int /\ 0 <= 256 * p + q /\ 256 * p + q <= Preset
  BY <1>1, <1>2 DEF Preset
<1> QED
  BY <1>3 DEF Word

LEMMA BytesOfWord ==
  ASSUME NEW p \in Byte, NEW q \in Byte, NEW u \in Byte, NEW v \in Byte,
         256 * p + q = 256 * u + v
  PROVE  p = u /\ q = v
  BY DEF Byte

LEMMA SameBytes ==
  ASSUME NEW v \in Word, NEW w \in Word,
         v \div 256 = w \div 256, v % 256 = w % 256
  PROVE  v = w
<1>1. v = 256 * (v \div 256) + (v % 256)
  BY Bytes
<1>2. w = 256 * (w \div 256) + (w % 256)
  BY Bytes
<1>3. 256 * (v \div 256) + (v % 256) = 256 * (w \div 256) + (w % 256)
  OBVIOUS
<1> QED
  BY <1>1, <1>2, <1>3, Zenon

LEMMA StepType == ModbusStep \in [Byte -> [Word -> Word]]
<1>1. ASSUME NEW c \in Byte, NEW w \in Word
      PROVE  Xor(Remainder[1 + Xor(c, w % 256)], w \div 256) \in Word
  <2>1. HighLeft(c, w) \in Byte /\ LowLeft(c, w) \in Byte
    BY StepBytes
  <2>2. 256 * HighLeft(c, w) + LowLeft(c, w) \in Word
    BY <2>1, WordOfBytes
  <2>3. ModbusStep[c][w] \in Word
    BY <2>2, StepBytes
  <2>4. ModbusStep[c][w] = Xor(Remainder[1 + Xor(c, w % 256)], w \div 256)
    BY DEF ModbusStep
  <2> QED
    BY <2>3, <2>4
<1> QED
  BY <1>1 DEF ModbusStep

\* What a step leaves tells the remainder if the byte is known, and the byte if
\* the remainder is.
LEMMA StepTells ==
  ASSUME NEW c \in Byte, NEW d \in Byte, NEW v \in Word, NEW w \in Word,
         ModbusStep[c][v] = ModbusStep[d][w]
  PROVE  Xor(c, v % 256) = Xor(d, w % 256) /\ v \div 256 = w \div 256
<1>1. /\ Met(c, v) \in Byte /\ HighLeft(c, v) \in Byte /\ LowLeft(c, v) \in Byte
      /\ ModbusStep[c][v] = 256 * HighLeft(c, v) + LowLeft(c, v)
  BY StepBytes
<1>2. /\ Met(d, w) \in Byte /\ HighLeft(d, w) \in Byte /\ LowLeft(d, w) \in Byte
      /\ ModbusStep[d][w] = 256 * HighLeft(d, w) + LowLeft(d, w)
  BY StepBytes
<1>3. 256 * HighLeft(c, v) + LowLeft(c, v) = 256 * HighLeft(d, w) + LowLeft(d, w)
  BY <1>1, <1>2, Zenon
<1>4. HighLeft(c, v) = HighLeft(d, w) /\ LowLeft(c, v) = LowLeft(d, w)
  BY <1>1, <1>2, <1>3, BytesOfWord
<1>5. Met(c, v) = Met(d, w)
  <2>1. Remainder[1 + Met(c, v)] \div 256 = Remainder[1 + Met(d, w)] \div 256
    BY <1>4, Zenon DEF HighLeft
  <2> QED
    BY <1>1, <1>2, <2>1, TableAssumption
<1>6. v \div 256 = w \div 256
  <2> DEFINE r == Remainder[1 + Met(c, v)]
  <2>1. Xor(r % 256, v \div 256) = Xor(r % 256, w \div 256)
    BY <1>4, <1>5, Zenon DEF LowLeft
  <2>2. r \in Word
    BY <1>1, TableAssumption
  <2> HIDE DEF r
  <2>3. r % 256 \in Byte
    BY <2>2, Bytes
  <2>4. v \div 256 \in Byte /\ w \div 256 \in Byte
    BY Bytes
  <2> QED
    BY <2>1, <2>3, <2>4, XorCancels
<1> QED
  BY <1>5, <1>6, Zenon DEF Met

LEMMA StepInjective == Injective(ModbusStep, Byte, Word)
<1> SUFFICES ASSUME NEW c \in Byte, NEW v \in Word, NEW w \in Word,
                    ModbusStep[c][v] = ModbusStep[c][w]
             PROVE  v = w
  BY DEF Injective
<1>1. Xor(c, v % 256) = Xor(c, w % 256) /\ v \div 256 = w \div 256
  BY StepTells
<1>2. v % 256 \in Byte /\ w % 256 \in Byte
  BY Bytes
<1>3. v % 256 = w % 256
  BY <1>1, <1>2, XorCancels
<1>4. v = 256 * (v \div 256) + (v % 256) /\ w = 256 * (w \div 256) + (w % 256)
  BY Bytes
<1> QED
  BY <1>1, <1>3, <1>4

LEMMA StepSeparates ==
  ASSUME NEW c \in Byte, NEW d \in Byte, c # d
  PROVE  NeverAgree(ModbusStep, c, d, Word)
<1> SUFFICES ASSUME NEW w \in Word, ModbusStep[c][w] = ModbusStep[d][w]
             PROVE  FALSE
  BY DEF NeverAgree
<1>1. Xor(c, w % 256) = Xor(d, w % 256)
  BY StepTells
<1>2. w % 256 \in Byte
  BY Bytes
<1> QED
  BY <1>1, <1>2, XorCancels

------------------------------------------------------------------------------
(* The checksum.                                                           *)

(* For every message the code's checksum, by sixteen words and a nibble at  *)
(* a time, is the one that the polynomial defines.                          *)
THEOREM SameChecksum == \A msg : CRC16(msg) = Modbus(msg)
  BY SameStep, Zenon DEF CRC16, Modbus, CodeStep, ModbusStep

LEMMA ChecksumType ==
  ASSUME NEW msg \in Seq(Byte)
  PROVE  Modbus(msg) \in Word
<1>1. Preset \in Word
  BY DEF Word, Preset
<1>2. Loop(ModbusStep, msg) \in Word
  BY <1>1, StepType, LoopTyped
<1>3. Loop(ModbusStep, msg) = Modbus(msg)
  BY Zenon DEF Modbus, ModbusStep
<1> QED
  BY <1>2, <1>3, Zenon

LEMMA SealedShape ==
  ASSUME NEW msg \in Seq(Byte)
  PROVE  /\ Sealed(msg) \in Seq(Byte) /\ Len(Sealed(msg)) = Len(msg) + 2
         /\ SubSeq(Sealed(msg), 1, Len(msg)) = msg
         /\ Sealed(msg)[Len(msg) + 1] = Modbus(msg) \div 256
         /\ Sealed(msg)[Len(msg) + 2] = Modbus(msg) % 256
<1> DEFINE p == Modbus(msg) \div 256
           q == Modbus(msg) % 256
<1>1. p \in Byte /\ q \in Byte
  BY ChecksumType, Bytes
<1>2. Sealed(msg) = msg \o <<p, q>>
  BY Zenon DEF Sealed
<1> HIDE DEF p, q
<1>3. <<p, q>> \in Seq(Byte) /\ Len(<<p, q>>) = 2
  BY <1>1
<1>4. Sealed(msg) \in Seq(Byte) /\ Len(Sealed(msg)) = Len(msg) + 2
  BY <1>2, <1>3
<1>5. Sealed(msg)[Len(msg) + 1] = p /\ Sealed(msg)[Len(msg) + 2] = q
  BY <1>2, <1>3
<1>6. SubSeq(Sealed(msg), 1, Len(msg)) = msg
  BY <1>2, <1>3
<1> QED
  BY <1>4, <1>5, <1>6, Zenon DEF p, q

LEMMA BodyShape ==
  ASSUME NEW buf \in Seq(Byte), Len(buf) >= 3
  PROVE  /\ SubSeq(buf, 1, Len(buf) - 2) \in Seq(Byte)
         /\ Len(SubSeq(buf, 1, Len(buf) - 2)) = Len(buf) - 2
         /\ \A i \in 1 .. Len(buf) - 2 : SubSeq(buf, 1, Len(buf) - 2)[i] = buf[i]
  OBVIOUS

LEMMA PassesWhen ==
  ASSUME NEW buf \in Seq(Byte)
  PROVE  crc_func(buf) = 0
           <=> /\ Len(buf) >= 3
               /\ buf[Len(buf) - 1] = Modbus(SubSeq(buf, 1, Len(buf) - 2)) \div 256
               /\ buf[Len(buf)] = Modbus(SubSeq(buf, 1, Len(buf) - 2)) % 256
<1>1. CRC16(SubSeq(buf, 1, Len(buf) - 2)) = Modbus(SubSeq(buf, 1, Len(buf) - 2))
  BY SameChecksum, Zenon
<1> QED
  BY <1>1 DEF crc_func

(* crc_func accepts exactly the messages that end in their checksum.        *)
THEOREM PassesIfSealed ==
  ASSUME NEW buf \in Seq(Byte), Len(buf) >= 3
  PROVE  crc_func(buf) = 0 <=> Sealed(SubSeq(buf, 1, Len(buf) - 2)) = buf
<1> DEFINE body == SubSeq(buf, 1, Len(buf) - 2)
           s    == Sealed(body)
<1>1. /\ body \in Seq(Byte) /\ Len(body) = Len(buf) - 2
      /\ \A i \in 1 .. Len(buf) - 2 : body[i] = buf[i]
  BY BodyShape
<1>2. crc_func(buf) = 0 <=> /\ buf[Len(buf) - 1] = Modbus(body) \div 256
                            /\ buf[Len(buf)] = Modbus(body) % 256
  BY PassesWhen
<1> HIDE DEF body
<1>3. /\ s \in Seq(Byte) /\ Len(s) = Len(body) + 2 /\ SubSeq(s, 1, Len(body)) = body
      /\ s[Len(body) + 1] = Modbus(body) \div 256 /\ s[Len(body) + 2] = Modbus(body) % 256
  BY <1>1, SealedShape
<1> HIDE DEF s
<1>4. /\ Len(s) = Len(buf)
      /\ s[Len(buf) - 1] = Modbus(body) \div 256 /\ s[Len(buf)] = Modbus(body) % 256
  BY <1>1, <1>3
<1>5. ASSUME s = buf
      PROVE  crc_func(buf) = 0
  BY <1>2, <1>4, <1>5, Zenon
<1>6. ASSUME crc_func(buf) = 0
      PROVE  s = buf
  <2>1. ASSUME NEW i \in 1 .. Len(buf)
        PROVE  s[i] = buf[i]
    <3>1. CASE i \in 1 .. Len(buf) - 2
      <4>1. s[i] = SubSeq(s, 1, Len(body))[i]
        BY <1>1, <1>3, <3>1
      <4> QED
        BY <1>1, <1>3, <3>1, <4>1
    <3>2. CASE i = Len(buf) - 1 \/ i = Len(buf)
      BY <1>2, <1>4, <1>6, <3>2
    <3> QED
      BY <2>1, <3>1, <3>2
  <2> QED
    BY <1>3, <1>4, <2>1
<1> QED
  BY <1>5, <1>6 DEF s, body

(* A single byte that arrives wrong, at whatever place of a message of      *)
(* whatever length, is never taken for the message: crc_func refuses it.    *)
THEOREM OneByteDetected ==
  ASSUME NEW buf \in Seq(Byte), crc_func(buf) = 0,
         NEW at \in 1 .. Len(buf), NEW b \in Byte, b # buf[at]
  PROVE  crc_func([buf EXCEPT ![at] = b]) # 0
<1> DEFINE bad  == [buf EXCEPT ![at] = b]
           s    == SubSeq(buf, 1, Len(buf) - 2)
           t    == SubSeq(bad, 1, Len(buf) - 2)
<1>1. bad \in Seq(Byte) /\ Len(bad) = Len(buf) /\ bad[at] = b
  OBVIOUS
<1>2. \A i \in 1 .. Len(buf) : i # at => bad[i] = buf[i]
  OBVIOUS
<1> HIDE DEF bad
<1>3. /\ Len(buf) >= 3
      /\ buf[Len(buf) - 1] = Modbus(s) \div 256 /\ buf[Len(buf)] = Modbus(s) % 256
  BY PassesWhen
<1>4. SUFFICES ASSUME crc_func(bad) = 0
               PROVE  FALSE
  BY Zenon DEF bad
<1>5. /\ bad[Len(buf) - 1] = Modbus(t) \div 256 /\ bad[Len(buf)] = Modbus(t) % 256
  BY <1>1, <1>4, PassesWhen
<1>6. /\ s \in Seq(Byte) /\ Len(s) = Len(buf) - 2
      /\ \A i \in 1 .. Len(buf) - 2 : s[i] = buf[i]
  BY <1>3, BodyShape
<1>7. /\ t \in Seq(Byte) /\ Len(t) = Len(buf) - 2
      /\ \A i \in 1 .. Len(buf) - 2 : t[i] = bad[i]
  BY <1>1, <1>3, BodyShape
<1> HIDE DEF s, t
<1>8. CASE at \in 1 .. Len(buf) - 2
  <2>1. Differ(s, t, at)
    BY <1>2, <1>6, <1>7, <1>8 DEF Differ
  <2>2. s[at] \in Byte /\ t[at] \in Byte /\ s[at] # t[at]
    BY <1>1, <1>6, <1>7, <1>8
  <2>3. NeverAgree(ModbusStep, s[at], t[at], Word)
    BY <2>2, StepSeparates
  <2>4. Preset \in Word
    BY DEF Word, Preset
  <2>5. Loop(ModbusStep, t) # Loop(ModbusStep, s)
    BY <1>6, <1>7, <2>1, <2>3, <2>4, StepType, StepInjective, LoopsDiffer
  <2>6. Modbus(t) # Modbus(s)
    BY <2>5, Zenon DEF Modbus, ModbusStep
  <2>7. bad[Len(buf) - 1] = buf[Len(buf) - 1] /\ bad[Len(buf)] = buf[Len(buf)]
    BY <1>2, <1>3, <1>8
  <2>8. Modbus(t) \div 256 = Modbus(s) \div 256 /\ Modbus(t) % 256 = Modbus(s) % 256
    BY <1>3, <1>5, <2>7
  <2>9. Modbus(s) \in Word /\ Modbus(t) \in Word
    BY <1>6, <1>7, ChecksumType
  <2> QED
    BY <2>6, <2>8, <2>9, SameBytes
<1>9. CASE at = Len(buf) - 1 \/ at = Len(buf)
  <2>1. \A i \in 1 .. Len(s) : t[i] = s[i]
    BY <1>2, <1>3, <1>6, <1>7, <1>9
  <2>2. t = s
    BY <1>6, <1>7, <2>1
  <2> QED
    BY <1>1, <1>3, <1>5, <1>9, <2>2
<1> QED
  BY <1>3, <1>8, <1>9
=============================================================================
