-------------------------- MODULE ReaderDataProofs --------------------------
(***************************************************************************)
(* What the router gets of a reader's frames, whatever reads they are      *)
(* pieced together from and whatever is lost, spoilt or joined on the way, *)
(* if the checksum tells the frames sent from everything else that may be  *)
(* on the line (OnlyFramesPass).                                           *)
(***************************************************************************)
EXTENDS SerialPortProofs

Limit == CopySize + 2

\* What has arrived and is not yet dealt with.
Unread == part \o wire

From(s, x) == SubSeq(s, x, Len(s))

\* Every byte belongs to some frame sent, own[x], as it has arrived: from there
\* on there is the rest of it, and behind that only bytes of later frames.
Belongs(s, own, fs, Tails, x) ==
  \E g \in ArrivesAs(fs[own[x]]) : \E k \in DOMAIN g : \E t \in Seq(Byte) :
    /\ FirstBytes(t) \in Tails
    /\ From(s, x) = From(g, k) \o t
    /\ \A y \in DOMAIN s : y > x + (Len(g) - k) => own[x] < own[y]

Labelled(s, own, fs, Tails) ==
  /\ own \in [DOMAIN s -> DOMAIN fs]
  /\ \A x \in DOMAIN s : Belongs(s, own, fs, Tails, x)

\* What is handed on as data is what a frame sent says, at[i].
IsData(e) == e.verdict = "frame"

Means(h, at, fs, i) ==
  IsData(h[i]) => /\ at[i] \in DOMAIN fs
                  /\ fs[at[i]][6] = 0
                  /\ Says(h[i].text, fs[at[i]])

Matched(h, at, fs) ==
  /\ at \in [DOMAIN h -> Nat]
  /\ \A i \in DOMAIN h : Means(h, at, fs, i)
  /\ \A i, j \in DOMAIN h :
       i < j /\ IsData(h[i]) /\ IsData(h[j]) => at[i] < at[j]

\* All that is unread belongs to later frames.
Later(s, own, h, at) ==
  \A i \in DOMAIN h, x \in DOMAIN s : IsData(h[i]) => at[i] < own[x]

IsSequence(h) == \E S : h \in Seq(S)

Traced(s, h, fs, Tails) ==
  \E own \in [DOMAIN s -> DOMAIN fs], at \in [DOMAIN h -> Nat] :
    Labelled(s, own, fs, Tails) /\ Matched(h, at, fs) /\ Later(s, own, h, at)

------------------------------------------------------------------------------
(* Ends and beginnings of sequences.                                       *)

LEMMA FromShape ==
  ASSUME NEW s \in Seq(Byte), NEW x \in 1 .. Len(s) + 1
  PROVE  /\ From(s, x) \in Seq(Byte)
         /\ Len(From(s, x)) = Len(s) - x + 1
         /\ \A i \in 1 .. Len(s) - x + 1 : From(s, x)[i] = s[x + i - 1]
<1>1. Len(s) \in Nat
  OBVIOUS
<1>2. \A i \in x .. Len(s) : s[i] \in Byte
  BY <1>1, ElementOfSeq
<1>3. /\ SubSeq(s, x, Len(s)) \in Seq(Byte)
      /\ Len(SubSeq(s, x, Len(s))) = IF x <= Len(s) THEN Len(s) - x + 1 ELSE 0
      /\ \A i \in 1 .. Len(s) - x + 1 : SubSeq(s, x, Len(s))[i] = s[x + i - 1]
  BY <1>1, <1>2, SubSeqProperties
<1> QED
  BY <1>1, <1>3 DEF From

LEMMA FromConcat ==
  ASSUME NEW s \in Seq(Byte), NEW g \in Seq(Byte), NEW x \in 1 .. Len(s)
  PROVE  From(s \o g, x) = From(s, x) \o g
<1>1. /\ Len(s) \in Nat /\ Len(g) \in Nat
      /\ s \o g \in Seq(Byte) /\ Len(s \o g) = Len(s) + Len(g)
      /\ \A i \in 1 .. Len(s) + Len(g) :
           (s \o g)[i] = IF i <= Len(s) THEN s[i] ELSE g[i - Len(s)]
  BY ConcatProperties, LenProperties
<1>2. x \in 1 .. Len(s \o g) + 1 /\ x \in 1 .. Len(s) + 1
  BY <1>1
<1> DEFINE a == From(s \o g, x)
           b == From(s, x)
<1>3. /\ a \in Seq(Byte) /\ Len(a) = Len(s) + Len(g) - x + 1
      /\ \A i \in 1 .. Len(s) + Len(g) - x + 1 : a[i] = (s \o g)[x + i - 1]
  <2>1. /\ a \in Seq(Byte) /\ Len(a) = Len(s \o g) - x + 1
        /\ \A i \in 1 .. Len(s \o g) - x + 1 : a[i] = (s \o g)[x + i - 1]
    <3> DEFINE c == s \o g
    <3>1. c \in Seq(Byte) /\ x \in 1 .. Len(c) + 1
      BY <1>1, <1>2
    <3> HIDE DEF c
    <3>2. /\ From(c, x) \in Seq(Byte) /\ Len(From(c, x)) = Len(c) - x + 1
          /\ \A i \in 1 .. Len(c) - x + 1 : From(c, x)[i] = c[x + i - 1]
      BY <3>1, FromShape
    <3> QED
      BY <3>2 DEF c
  <2>2. Len(s \o g) = Len(s) + Len(g)
    BY <1>1
  <2> HIDE DEF a
  <2> QED
    BY <2>1, <2>2
<1>4. /\ b \in Seq(Byte) /\ Len(b) = Len(s) - x + 1
      /\ \A i \in 1 .. Len(s) - x + 1 : b[i] = s[x + i - 1]
  BY <1>2, FromShape
<1> HIDE DEF a, b
<1>5. /\ b \o g \in Seq(Byte) /\ Len(b \o g) = Len(b) + Len(g)
      /\ \A i \in 1 .. Len(b) + Len(g) :
           (b \o g)[i] = IF i <= Len(b) THEN b[i] ELSE g[i - Len(b)]
  BY <1>4, ConcatProperties
<1>6. Len(a) = Len(b \o g)
  BY <1>1, <1>3, <1>4, <1>5
<1>7. ASSUME NEW i \in 1 .. Len(a) PROVE a[i] = (b \o g)[i]
  <2>1. /\ i \in 1 .. Len(s) + Len(g) - x + 1 /\ x + i - 1 \in 1 .. Len(s) + Len(g)
        /\ i \in 1 .. Len(b) + Len(g)
        /\ (x + i - 1 <= Len(s) <=> i <= Len(b))
        /\ (x + i - 1) - Len(s) = i - Len(b)
    BY <1>1, <1>3, <1>4
  <2>2. CASE i <= Len(b)
    BY <1>1, <1>3, <1>4, <1>5, <2>1, <2>2
  <2>3. CASE ~(i <= Len(b))
    BY <1>1, <1>3, <1>5, <2>1, <2>3
  <2> QED
    BY <2>2, <2>3
<1>8. a = b \o g
  BY <1>3, <1>5, <1>6, <1>7, SeqEqual
<1> QED
  BY <1>8 DEF a, b

LEMMA FromSecond ==
  ASSUME NEW s \in Seq(Byte), NEW g \in Seq(Byte), NEW k \in 1 .. Len(g)
  PROVE  From(s \o g, Len(s) + k) = From(g, k)
<1>1. /\ Len(s) \in Nat /\ Len(g) \in Nat
      /\ s \o g \in Seq(Byte) /\ Len(s \o g) = Len(s) + Len(g)
  BY ConcatProperties, LenProperties
<1>2. /\ Len(s) + k \in Len(s) + 1 .. Len(s) + Len(g)
      /\ Len(s) + Len(g) \in Len(s) + 1 .. Len(s) + Len(g)
      /\ (Len(s) + k) - Len(s) = k /\ (Len(s) + Len(g)) - Len(s) = Len(g)
  BY <1>1
<1>3. SubSeq(s \o g, Len(s) + k, Len(s) + Len(g)) = SubSeq(g, (Len(s) + k) - Len(s), (Len(s) + Len(g)) - Len(s))
  BY <1>2, SubSeqOfConcat2
<1> QED
  BY <1>1, <1>2, <1>3 DEF From

LEMMA FromFrom ==
  ASSUME NEW s \in Seq(Byte), NEW n \in 0 .. Len(s), NEW x \in 1 .. Len(s) - n
  PROVE  From(From(s, n + 1), x) = From(s, x + n)
<1>1. Len(s) \in Nat
  OBVIOUS
<1>2. n + 1 \in 1 .. Len(s) + 1 /\ x + n \in 1 .. Len(s) + 1
  BY <1>1
<1> DEFINE a == From(s, n + 1)
           b == From(s, x + n)
<1>3. /\ a \in Seq(Byte) /\ Len(a) = Len(s) - n
      /\ \A i \in 1 .. Len(s) - n : a[i] = s[n + i]
  <2>1. /\ a \in Seq(Byte) /\ Len(a) = Len(s) - (n + 1) + 1
        /\ \A i \in 1 .. Len(s) - (n + 1) + 1 : a[i] = s[(n + 1) + i - 1]
    BY <1>2, FromShape
  <2>2. Len(s) - (n + 1) + 1 = Len(s) - n /\ \A i \in Int : (n + 1) + i - 1 = n + i
    BY <1>1
  <2> HIDE DEF a
  <2> QED
    BY <2>1, <2>2
<1>4. /\ b \in Seq(Byte) /\ Len(b) = Len(s) - (x + n) + 1
      /\ \A i \in 1 .. Len(s) - (x + n) + 1 : b[i] = s[(x + n) + i - 1]
  BY <1>2, FromShape
<1> HIDE DEF a, b
<1> DEFINE c == From(a, x)
<1>5. /\ c \in Seq(Byte) /\ Len(c) = Len(s) - n - x + 1
      /\ \A i \in 1 .. Len(s) - n - x + 1 : c[i] = a[x + i - 1]
  <2>1. x \in 1 .. Len(a) + 1
    BY <1>1, <1>3
  <2> QED
    BY <1>3, <2>1, FromShape
<1> HIDE DEF c
<1>6. Len(b) = Len(c)
  BY <1>1, <1>4, <1>5
<1>7. ASSUME NEW i \in 1 .. Len(b) PROVE b[i] = c[i]
  <2>1. /\ i \in 1 .. Len(s) - n - x + 1 /\ i \in 1 .. Len(s) - (x + n) + 1
        /\ x + i - 1 \in 1 .. Len(s) - n /\ n + (x + i - 1) = (x + n) + i - 1
    BY <1>1, <1>4
  <2>2. c[i] = a[x + i - 1] /\ a[x + i - 1] = s[n + (x + i - 1)] /\ b[i] = s[(x + n) + i - 1]
    BY <1>3, <1>4, <1>5, <2>1
  <2> QED
    BY <2>1, <2>2
<1>8. b = c
  BY <1>4, <1>5, <1>6, <1>7, SeqEqual
<1> QED
  BY <1>8 DEF a, b, c

LEMMA FirstShape ==
  ASSUME NEW s \in Seq(Byte)
  PROVE  /\ FirstBytes(s) \in Seq(Byte)
         /\ Len(FirstBytes(s)) = IF Len(s) > Limit THEN Limit ELSE Len(s)
         /\ \A i \in DOMAIN FirstBytes(s) : FirstBytes(s)[i] = s[i]
<1>1. Len(s) \in Nat /\ Limit \in Nat /\ DOMAIN s = 1 .. Len(s)
  BY Sizes, LenProperties DEF Limit
<1>2. CASE Len(s) > Limit
  <2>1. \A i \in 1 .. Limit : s[i] \in Byte
    BY <1>1, <1>2, ElementOfSeq
  <2>2. /\ SubSeq(s, 1, Limit) \in Seq(Byte)
        /\ Len(SubSeq(s, 1, Limit)) = Limit
        /\ \A i \in 1 .. Limit : SubSeq(s, 1, Limit)[i] = s[i]
    <3>1. /\ SubSeq(s, 1, Limit) \in Seq(Byte)
          /\ Len(SubSeq(s, 1, Limit)) = IF 1 <= Limit THEN Limit - 1 + 1 ELSE 0
          /\ \A i \in 1 .. Limit - 1 + 1 : SubSeq(s, 1, Limit)[i] = s[1 + i - 1]
      BY <1>1, <2>1, SubSeqProperties
    <3>2. Limit - 1 + 1 = Limit /\ (~(1 <= Limit) => Limit = 0) /\ \A i \in Int : 1 + i - 1 = i
      BY <1>1
    <3> QED
      BY <3>1, <3>2
  <2>3. FirstBytes(s) = SubSeq(s, 1, Limit)
    BY <1>2 DEF FirstBytes, Limit
  <2>4. DOMAIN SubSeq(s, 1, Limit) = 1 .. Limit
    BY <2>2, LenProperties
  <2> QED
    BY <1>2, <2>2, <2>3, <2>4
<1>3. CASE ~(Len(s) > Limit)
  <2>1. FirstBytes(s) = s
    BY <1>3 DEF FirstBytes, Limit
  <2> QED
    BY <1>3, <2>1
<1> QED
  BY <1>2, <1>3

LEMMA ConcatThree ==
  ASSUME NEW a \in Seq(Byte), NEW t \in Seq(Byte), NEW g \in Seq(Byte)
  PROVE  (a \o t) \o g = a \o (t \o g)
  BY ConcatAssociative

LEMMA LimitNat == Limit \in Nat
  BY Sizes DEF Limit

\* The first bytes depend on no others.
LEMMA SameFirst ==
  ASSUME NEW u \in Seq(Byte), NEW v \in Seq(Byte),
         Len(u) = Len(v) \/ (Len(u) >= Limit /\ Len(v) >= Limit),
         \A i \in 1 .. Limit : i <= Len(u) /\ i <= Len(v) => u[i] = v[i]
  PROVE  FirstBytes(u) = FirstBytes(v)
<1> DEFINE a == FirstBytes(u)
           b == FirstBytes(v)
<1>1. /\ a \in Seq(Byte) /\ Len(a) = IF Len(u) > Limit THEN Limit ELSE Len(u)
      /\ \A i \in DOMAIN a : a[i] = u[i]
  BY FirstShape
<1>2. /\ b \in Seq(Byte) /\ Len(b) = IF Len(v) > Limit THEN Limit ELSE Len(v)
      /\ \A i \in DOMAIN b : b[i] = v[i]
  BY FirstShape
<1> HIDE DEF a, b
<1>3. DOMAIN a = 1 .. Len(a) /\ DOMAIN b = 1 .. Len(b)
  BY <1>1, <1>2, LenProperties
<1>4. Len(u) \in Nat /\ Len(v) \in Nat /\ Limit \in Nat
  BY LimitNat
<1>5. Len(a) = Len(b) /\ \A i \in 1 .. Len(a) : i \in 1 .. Limit /\ i <= Len(u) /\ i <= Len(v)
  <2>1. ASSUME NEW x \in Nat, NEW y \in Nat, NEW m \in Nat, x = y \/ (x >= m /\ y >= m)
        PROVE  /\ (IF x > m THEN m ELSE x) = (IF y > m THEN m ELSE y)
               /\ \A i \in 1 .. (IF x > m THEN m ELSE x) : i \in 1 .. m /\ i <= x /\ i <= y
    BY <2>1
  <2> QED
    BY <1>1, <1>2, <1>4, <2>1
<1>6. \A i \in 1 .. Len(a) : a[i] = b[i]
  BY <1>1, <1>2, <1>3, <1>5
<1>7. a = b
  BY <1>1, <1>2, <1>5, <1>6, SeqEqual
<1> QED
  BY <1>7 DEF a, b

LEMMA FirstOfSecond ==
  ASSUME NEW a \in Seq(Byte), NEW t \in Seq(Byte)
  PROVE  FirstBytes(a \o t) = FirstBytes(a \o FirstBytes(t))
<1> DEFINE t1 == FirstBytes(t)
           u  == a \o t
           v  == a \o t1
<1>1. /\ t1 \in Seq(Byte) /\ Len(t1) = IF Len(t) > Limit THEN Limit ELSE Len(t)
      /\ \A i \in DOMAIN t1 : t1[i] = t[i]
  BY FirstShape
<1> HIDE DEF t1
<1>2. /\ u \in Seq(Byte) /\ Len(u) = Len(a) + Len(t)
      /\ \A i \in 1 .. Len(a) + Len(t) : u[i] = IF i <= Len(a) THEN a[i] ELSE t[i - Len(a)]
  BY ConcatProperties
<1>3. /\ v \in Seq(Byte) /\ Len(v) = Len(a) + Len(t1)
      /\ \A i \in 1 .. Len(a) + Len(t1) : v[i] = IF i <= Len(a) THEN a[i] ELSE t1[i - Len(a)]
  BY <1>1, ConcatProperties
<1> HIDE DEF u, v
<1>4. /\ Len(a) \in Nat /\ Len(t) \in Nat /\ Len(t1) \in Nat /\ Limit \in Nat
      /\ DOMAIN t1 = 1 .. Len(t1)
  BY <1>1, LimitNat, LenProperties
<1>5. Len(u) = Len(v) \/ (Len(u) >= Limit /\ Len(v) >= Limit)
  BY <1>1, <1>2, <1>3, <1>4
<1>6. ASSUME NEW i \in 1 .. Limit, i <= Len(u), i <= Len(v) PROVE u[i] = v[i]
  <2>1. i \in 1 .. Len(a) + Len(t) /\ i \in 1 .. Len(a) + Len(t1)
    BY <1>2, <1>3, <1>4, <1>6
  <2>2. CASE i <= Len(a)
    BY <1>2, <1>3, <2>1, <2>2
  <2>3. CASE ~(i <= Len(a))
    <3>1. i - Len(a) \in DOMAIN t1
      BY <1>4, <2>1, <2>3
    <3>2. t1[i - Len(a)] = t[i - Len(a)]
      BY <1>1, <3>1
    <3> QED
      BY <1>2, <1>3, <2>1, <2>3, <3>2
  <2> QED
    BY <2>2, <2>3
<1>7. FirstBytes(u) = FirstBytes(v)
  BY <1>2, <1>3, <1>5, <1>6, SameFirst
<1> QED
  BY <1>7 DEF u, v, t1

LEMMA FirstOfFirst ==
  ASSUME NEW t \in Seq(Byte), NEW g \in Seq(Byte)
  PROVE  FirstBytes(t \o g) = FirstBytes(FirstBytes(t) \o g)
<1> DEFINE t1 == FirstBytes(t)
           u  == t \o g
           v  == t1 \o g
<1>1. /\ t1 \in Seq(Byte) /\ Len(t1) = IF Len(t) > Limit THEN Limit ELSE Len(t)
      /\ \A i \in DOMAIN t1 : t1[i] = t[i]
  BY FirstShape
<1>0. ~(Len(t) > Limit) => t1 = t
  BY DEF FirstBytes, Limit
<1> HIDE DEF t1
<1>2. /\ u \in Seq(Byte) /\ Len(u) = Len(t) + Len(g)
      /\ \A i \in 1 .. Len(t) + Len(g) : u[i] = IF i <= Len(t) THEN t[i] ELSE g[i - Len(t)]
  BY ConcatProperties
<1>3. /\ v \in Seq(Byte) /\ Len(v) = Len(t1) + Len(g)
      /\ \A i \in 1 .. Len(t1) + Len(g) : v[i] = IF i <= Len(t1) THEN t1[i] ELSE g[i - Len(t1)]
  BY <1>1, ConcatProperties
<1>4. /\ Len(g) \in Nat /\ Len(t) \in Nat /\ Len(t1) \in Nat /\ Limit \in Nat
      /\ DOMAIN t1 = 1 .. Len(t1)
  BY <1>1, LimitNat, LenProperties
<1>5. CASE ~(Len(t) > Limit)
  BY <1>0, <1>5 DEF t1
<1>6. CASE Len(t) > Limit
  <2> HIDE DEF u, v
  <2>1. Len(t1) = Limit
    BY <1>1, <1>6
  <2>2. Len(u) >= Limit /\ Len(v) >= Limit
    BY <1>2, <1>3, <1>4, <1>6, <2>1
  <2>3. ASSUME NEW i \in 1 .. Limit, i <= Len(u), i <= Len(v) PROVE u[i] = v[i]
    <3>1. /\ i \in 1 .. Len(t) + Len(g) /\ i \in 1 .. Len(t1) + Len(g)
          /\ i <= Len(t) /\ i <= Len(t1) /\ i \in DOMAIN t1
      BY <1>4, <1>6, <2>1
    <3> QED
      BY <1>1, <1>2, <1>3, <3>1
  <2>4. FirstBytes(u) = FirstBytes(v)
    BY <1>2, <1>3, <2>2, <2>3, SameFirst
  <2> QED
    BY <2>4 DEF u, v, t1
<1> QED
  BY <1>5, <1>6

\* A beginning that crc_func can look at is one of the first bytes.
LEMMA BeginningOfFirst ==
  ASSUME NEW s \in Seq(Byte), NEW n \in 1 .. Len(s), n <= Limit
  PROVE  n \in DOMAIN FirstBytes(s) /\ SubSeq(FirstBytes(s), 1, n) = SubSeq(s, 1, n)
<1> DEFINE f == FirstBytes(s)
<1>1. /\ f \in Seq(Byte) /\ Len(f) = IF Len(s) > Limit THEN Limit ELSE Len(s)
      /\ \A i \in DOMAIN f : f[i] = s[i]
  BY FirstShape
<1> HIDE DEF f
<1>2. Len(s) \in Nat /\ Limit \in Nat /\ DOMAIN f = 1 .. Len(f)
  BY <1>1, LimitNat, LenProperties
<1>3. n \in DOMAIN f /\ \A i \in 1 .. n : i \in DOMAIN f
  BY <1>1, <1>2
<1>4. \A i \in 1 .. n : f[i] = s[i]
  BY <1>1, <1>3
<1>5. SubSeq(f, 1, n) = SubSeq(s, 1, n)
  BY <1>2, <1>4
<1> QED
  BY <1>3, <1>5 DEF f

------------------------------------------------------------------------------
(* Whose the unread bytes are.                                             *)

LEMMA ArrivesShape ==
  ASSUME NEW f \in ReaderFrames, NEW g \in ArrivesAs(f)
  PROVE  g \in Arrivals /\ g \in Seq(Byte) /\ Len(g) \in Nat /\ DOMAIN g = 1 .. Len(g)
<1>1. g \in Arrivals
  BY DEF Arrivals
<1>2. g \in Seq(Byte)
  BY <1>1, ArrivalShape
<1> QED
  BY <1>1, <1>2, LenProperties

\* The bytes that arrive belong to the frame sent last.
EmitOwn(s, g, own, last) == [x \in DOMAIN (s \o g) |-> IF x \in DOMAIN s THEN own[x] ELSE last]

LEMMA EmitLabelled ==
  ASSUME NEW Tails, OnlyFramesPass(Tails),
         NEW fs \in Seq(ReaderFrames), NEW f \in ReaderFrames, NEW g \in ArrivesAs(f),
         NEW s \in Seq(Byte), NEW own, Labelled(s, own, fs, Tails)
  PROVE  Labelled(s \o g, EmitOwn(s, g, own, Len(fs) + 1), Append(fs, f), Tails)
<1> DEFINE s2   == s \o g
           fs2  == Append(fs, f)
           own2 == EmitOwn(s, g, own, Len(fs) + 1)
<1>1. g \in Arrivals /\ g \in Seq(Byte) /\ Len(g) \in Nat /\ DOMAIN g = 1 .. Len(g)
  BY ArrivesShape
<1>2. /\ Len(s) \in Nat /\ DOMAIN s = 1 .. Len(s)
      /\ s2 \in Seq(Byte) /\ Len(s2) = Len(s) + Len(g) /\ DOMAIN s2 = 1 .. Len(s) + Len(g)
  BY <1>1, ConcatProperties, LenProperties
<1>3. /\ Len(fs) \in Nat /\ DOMAIN fs = 1 .. Len(fs) /\ DOMAIN fs2 = 1 .. Len(fs) + 1
      /\ \A j \in DOMAIN fs : fs2[j] = fs[j]
      /\ fs2[Len(fs) + 1] = f
  <2>1. fs2 \in Seq(ReaderFrames) /\ Len(fs2) = Len(fs) + 1
    BY AppendProperties
  <2> QED
    BY <2>1, AppendProperties, LenProperties
<1>4. own \in [DOMAIN s -> DOMAIN fs]
  BY DEF Labelled
<1>5. \A x \in DOMAIN s2 : own2[x] = IF x \in DOMAIN s THEN own[x] ELSE Len(fs) + 1
  BY DEF EmitOwn
<1>6. own2 \in [DOMAIN s2 -> DOMAIN fs2]
  <2>1. \A x \in DOMAIN s2 : (IF x \in DOMAIN s THEN own[x] ELSE Len(fs) + 1) \in DOMAIN fs2
    BY <1>3, <1>4
  <2> QED
    BY <2>1 DEF EmitOwn
<1> HIDE DEF fs2, own2
<1>7. ASSUME NEW x \in DOMAIN s PROVE Belongs(s2, own2, fs2, Tails, x)
  <2>1. own[x] \in DOMAIN fs /\ fs[own[x]] \in ReaderFrames
    BY <1>3, <1>4, ElementOfSeq
  <2>2. PICK h \in ArrivesAs(fs[own[x]]) : \E k \in DOMAIN h : \E t \in Seq(Byte) :
          /\ FirstBytes(t) \in Tails
          /\ From(s, x) = From(h, k) \o t
          /\ \A y \in DOMAIN s : y > x + (Len(h) - k) => own[x] < own[y]
    BY DEF Labelled, Belongs
  <2>3. PICK k \in DOMAIN h : \E t \in Seq(Byte) :
          /\ FirstBytes(t) \in Tails
          /\ From(s, x) = From(h, k) \o t
          /\ \A y \in DOMAIN s : y > x + (Len(h) - k) => own[x] < own[y]
    BY <2>2
  <2>4. PICK t \in Seq(Byte) :
          /\ FirstBytes(t) \in Tails
          /\ From(s, x) = From(h, k) \o t
          /\ \A y \in DOMAIN s : y > x + (Len(h) - k) => own[x] < own[y]
    BY <2>3
  <2>5. t \o g \in Seq(Byte) /\ FirstBytes(t \o g) \in Tails
    <3>1. t \o g \in Seq(Byte)
      BY <1>1, ConcatProperties
    <3>2. FirstBytes(t \o g) = FirstBytes(FirstBytes(t) \o g)
      BY <1>1, FirstOfFirst
    <3>3. FirstBytes(FirstBytes(t) \o g) \in Tails
      BY <1>1, <2>4 DEF OnlyFramesPass
    <3> QED
      BY <3>1, <3>2, <3>3
  <2>6. From(s2, x) = From(h, k) \o (t \o g)
    <3>1. x \in 1 .. Len(s) /\ From(s2, x) = From(s, x) \o g
      BY <1>1, <1>2, FromConcat
    <3>2. From(h, k) \in Seq(Byte)
      <4>1. h \in Seq(Byte) /\ Len(h) \in Nat /\ k \in 1 .. Len(h)
        BY <2>1, ArrivesShape
      <4>2. k \in 1 .. Len(h) + 1
        BY <4>1
      <4> QED
        BY <4>1, <4>2, FromShape
    <3>3. (From(h, k) \o t) \o g = From(h, k) \o (t \o g)
      BY <1>1, <3>2, ConcatThree, Zenon
    <3> QED
      BY <2>4, <3>1, <3>3
  <2>7. own2[x] = own[x] /\ fs2[own2[x]] = fs[own[x]]
    BY <1>2, <1>3, <1>5, <2>1
  <2>8. ASSUME NEW y \in DOMAIN s2, y > x + (Len(h) - k) PROVE own2[x] < own2[y]
    <3>1. CASE y \in DOMAIN s
      BY <1>5, <2>4, <2>7, <2>8, <3>1
    <3>2. CASE y \notin DOMAIN s
      <4>1. own2[y] = Len(fs) + 1
        BY <1>5, <3>2
      <4> QED
        BY <1>3, <2>1, <2>7, <4>1
    <3> QED
      BY <3>1, <3>2
  <2>9. h \in ArrivesAs(fs2[own2[x]])
    BY <2>2, <2>7
  <2> QED
    BY <2>5, <2>6, <2>8, <2>9 DEF Belongs
<1>8. ASSUME NEW x \in DOMAIN s2, x \notin DOMAIN s PROVE Belongs(s2, own2, fs2, Tails, x)
  <2>1. PICK k \in DOMAIN g : x = Len(s) + k
    <3>1. x - Len(s) \in DOMAIN g /\ x = Len(s) + (x - Len(s))
      BY <1>1, <1>2, <1>8
    <3> QED
      BY <3>1
  <2>2. own2[x] = Len(fs) + 1 /\ g \in ArrivesAs(fs2[own2[x]])
    BY <1>3, <1>5, <1>8
  <2>3. From(s2, x) = From(g, k) \o <<>>
    <3>1. From(s2, x) = From(g, k)
      BY <1>1, <2>1, FromSecond
    <3>2. k \in 1 .. Len(g) + 1
      BY <1>1
    <3>3. From(g, k) \in Seq(Byte)
      BY <1>1, <3>2, FromShape
    <3> QED
      BY <3>1, <3>3, ConcatEmptySeq
  <2>4. <<>> \in Seq(Byte) /\ FirstBytes(<<>>) \in Tails
    <3>1. Len(<<>>) = 0 /\ <<>> \in Seq(Byte)
      BY EmptySeq
    <3>2. FirstBytes(<<>>) = <<>>
      BY <3>1, LimitNat DEF FirstBytes, Limit
    <3> QED
      BY <3>1, <3>2 DEF OnlyFramesPass
  <2>5. \A y \in DOMAIN s2 : ~(y > x + (Len(g) - k))
    BY <1>1, <1>2, <2>1
  <2> QED
    BY <2>2, <2>3, <2>4, <2>5 DEF Belongs
<1>9. Labelled(s2, own2, fs2, Tails)
  BY <1>6, <1>7, <1>8 DEF Labelled
<1> QED
  BY <1>9 DEF s2, own2, fs2

\* What is left keeps its owners.
RestOwn(s, n, own) == [x \in DOMAIN From(s, n + 1) |-> own[x + n]]

LEMMA RestDomain ==
  ASSUME NEW s \in Seq(Byte), NEW n \in 0 .. Len(s)
  PROVE  /\ From(s, n + 1) \in Seq(Byte)
         /\ DOMAIN From(s, n + 1) = 1 .. Len(s) - n
         /\ \A x \in DOMAIN From(s, n + 1) : x + n \in DOMAIN s /\ x + n > n
<1> DEFINE r == From(s, n + 1)
<1>1. Len(s) \in Nat /\ DOMAIN s = 1 .. Len(s)
  BY LenProperties
<1>2. n + 1 \in 1 .. Len(s) + 1
  BY <1>1
<1>3. r \in Seq(Byte) /\ Len(r) = Len(s) - (n + 1) + 1
  BY <1>2, FromShape
<1> HIDE DEF r
<1>4. Len(s) - (n + 1) + 1 = Len(s) - n
  BY <1>1
<1>5. DOMAIN r = 1 .. Len(s) - n
  BY <1>3, <1>4, LenProperties
<1>6. \A x \in DOMAIN r : x + n \in DOMAIN s /\ x + n > n
  BY <1>1, <1>5
<1> QED
  BY <1>3, <1>5, <1>6 DEF r

LEMMA RestLabelled ==
  ASSUME NEW Tails, NEW fs \in Seq(ReaderFrames),
         NEW s \in Seq(Byte), NEW own, Labelled(s, own, fs, Tails),
         NEW n \in 0 .. Len(s)
  PROVE  Labelled(From(s, n + 1), RestOwn(s, n, own), fs, Tails)
<1> DEFINE r    == From(s, n + 1)
           own2 == RestOwn(s, n, own)
<1>1. Len(s) \in Nat /\ DOMAIN s = 1 .. Len(s)
  BY LenProperties
<1>2. r \in Seq(Byte) /\ DOMAIN r = 1 .. Len(s) - n
  BY RestDomain
<1>3. \A x \in DOMAIN r : x + n \in DOMAIN s
  BY RestDomain
<1>4. own \in [DOMAIN s -> DOMAIN fs]
  BY DEF Labelled
<1>5. \A x \in DOMAIN r : own2[x] = own[x + n]
  BY DEF RestOwn
<1>6. own2 \in [DOMAIN r -> DOMAIN fs]
  BY <1>3, <1>4 DEF RestOwn
<1> HIDE DEF own2
<1>7. ASSUME NEW x \in DOMAIN r PROVE Belongs(r, own2, fs, Tails, x)
  <2>1. x + n \in DOMAIN s /\ own2[x] = own[x + n]
    BY <1>3, <1>5
  <2>2. PICK g \in ArrivesAs(fs[own[x + n]]) : \E k \in DOMAIN g : \E t \in Seq(Byte) :
          /\ FirstBytes(t) \in Tails
          /\ From(s, x + n) = From(g, k) \o t
          /\ \A y \in DOMAIN s : y > (x + n) + (Len(g) - k) => own[x + n] < own[y]
    BY <2>1 DEF Labelled, Belongs
  <2>3. PICK k \in DOMAIN g : \E t \in Seq(Byte) :
          /\ FirstBytes(t) \in Tails
          /\ From(s, x + n) = From(g, k) \o t
          /\ \A y \in DOMAIN s : y > (x + n) + (Len(g) - k) => own[x + n] < own[y]
    BY <2>2
  <2>4. From(r, x) = From(s, x + n)
    BY <1>1, <1>2, FromFrom
  <2> HIDE DEF r
  <2>5. ASSUME NEW y \in DOMAIN r, y > x + (Len(g) - k),
               \A z \in DOMAIN s : z > (x + n) + (Len(g) - k) => own[x + n] < own[z]
        PROVE  own2[x] < own2[y]
    <3>1. y + n \in DOMAIN s /\ own2[y] = own[y + n]
      BY <1>3, <1>5
    <3>2. y + n > (x + n) + (Len(g) - k)
      <4>1. fs[own[x + n]] \in ReaderFrames
        BY <1>4, <2>1, ElementOfSeq
      <4>2. Len(g) \in Nat /\ k \in 1 .. Len(g)
        BY <4>1, ArrivesShape
      <4> QED
        BY <1>1, <1>2, <2>5, <4>2
    <3> QED
      BY <2>1, <2>5, <3>1, <3>2
  <2> QED
    BY <2>1, <2>3, <2>4, <2>5 DEF Belongs
<1>8. Labelled(r, own2, fs, Tails)
  BY <1>6, <1>7 DEF Labelled
<1> QED
  BY <1>8 DEF r, own2

\* The first n bytes are a frame sent, and all others belong to later ones.
IsFrame(s, own, fs, n) ==
  /\ 1 \in DOMAIN s
  /\ SubSeq(s, 1, n) = fs[own[1]]
  /\ \A y \in DOMAIN s : y > n => own[1] < own[y]

LEMMA FromFirst ==
  ASSUME NEW g \in Seq(Byte), NEW k \in 1 .. Len(g)
  PROVE  /\ From(g, k) \in Seq(Byte) /\ Len(From(g, k)) = Len(g) - k + 1
         /\ Len(From(g, k)) \in Nat \ {0} /\ From(g, k)[1] = g[k]
<1>1. Len(g) \in Nat /\ k \in 1 .. Len(g) + 1
  OBVIOUS
<1>2. /\ From(g, k) \in Seq(Byte) /\ Len(From(g, k)) = Len(g) - k + 1
      /\ \A i \in 1 .. Len(g) - k + 1 : From(g, k)[i] = g[k + i - 1]
  BY <1>1, FromShape
<1>3. 1 \in 1 .. Len(g) - k + 1 /\ k + 1 - 1 = k /\ Len(g) - k + 1 \in Nat \ {0}
  BY <1>1
<1> QED
  BY <1>2, <1>3

LEMMA OnlyAtStart ==
  ASSUME NEW Tails, OnlyFramesPass(Tails), NEW f \in ReaderFrames, NEW g \in ArrivesAs(f),
         NEW k \in DOMAIN g, g[k] = 255, NEW t, FirstBytes(t) \in Tails
  PROVE  \A m \in DOMAIN FirstBytes(From(g, k) \o FirstBytes(t)) :
           crc_func(SubSeq(FirstBytes(From(g, k) \o FirstBytes(t)), 1, m)) = 0
             => k = 1 /\ m = Len(g) /\ g = f
<1> DEFINE P(h, e, k2, u) ==
             h[k2] = 255 =>
               \A m \in DOMAIN FirstBytes(SubSeq(h, k2, Len(h)) \o u) :
                 crc_func(SubSeq(FirstBytes(SubSeq(h, k2, Len(h)) \o u), 1, m)) = 0
                   => k2 = 1 /\ m = Len(h) /\ h = e
<1>1. \A e \in ReaderFrames : \A h \in ArrivesAs(e) : \A k2 \in DOMAIN h : \A u \in Tails : P(h, e, k2, u)
  BY DEF OnlyFramesPass
<1> HIDE DEF P
<1>2. P(g, f, k, FirstBytes(t))
  BY <1>1, Zenon
<1> QED
  BY <1>2, Zenon DEF From, P

\* What passes the checksum is a frame as it was sent.
LEMMA Recognised ==
  ASSUME NEW Tails, OnlyFramesPass(Tails), NEW fs \in Seq(ReaderFrames),
         NEW s \in Seq(Byte), NEW own, Labelled(s, own, fs, Tails),
         NEW n \in 1 .. Len(s), n <= Limit, s[1] = 255, crc_func(SubSeq(s, 1, n)) = 0
  PROVE  IsFrame(s, own, fs, n)
<1>1. Len(s) \in Nat /\ DOMAIN s = 1 .. Len(s) /\ 1 \in DOMAIN s
  BY LenProperties
<1>2. fs[own[1]] \in ReaderFrames
  <2>1. own[1] \in 1 .. Len(fs)
    BY <1>1, LenProperties DEF Labelled
  <2> QED
    BY <2>1, ElementOfSeq
<1>3. Belongs(s, own, fs, Tails, 1)
  BY <1>1 DEF Labelled
<1>4. PICK g \in ArrivesAs(fs[own[1]]) : \E k \in DOMAIN g : \E t \in Seq(Byte) :
        /\ FirstBytes(t) \in Tails
        /\ From(s, 1) = From(g, k) \o t
        /\ \A y \in DOMAIN s : y > 1 + (Len(g) - k) => own[1] < own[y]
  BY <1>3, Zenon DEF Belongs
<1>5. PICK k \in DOMAIN g, t \in Seq(Byte) :
        /\ FirstBytes(t) \in Tails
        /\ From(s, 1) = From(g, k) \o t
        /\ \A y \in DOMAIN s : y > 1 + (Len(g) - k) => own[1] < own[y]
  BY <1>4
<1> DEFINE f == fs[own[1]]
<1>6. g \in Seq(Byte) /\ Len(g) \in Nat /\ k \in 1 .. Len(g)
  BY <1>2, ArrivesShape
<1> DEFINE r == From(g, k)
<1>7. r \in Seq(Byte) /\ Len(r) = Len(g) - k + 1 /\ Len(r) \in Nat \ {0} /\ r[1] = g[k]
  BY <1>6, FromFirst
<1>8. s = r \o t
  BY <1>1, <1>5, SubSeqFull DEF From
<1>9. g[k] = 255
  <2> HIDE DEF r
  <2>1. (r \o t)[1] = r[1]
    BY <1>7
  <2> QED
    BY <1>7, <1>8, <2>1
<1>10. FirstBytes(s) = FirstBytes(r \o FirstBytes(t))
  <2> HIDE DEF r
  <2> QED
    BY <1>7, <1>8, FirstOfSecond
<1>11. n \in DOMAIN FirstBytes(s) /\ crc_func(SubSeq(FirstBytes(s), 1, n)) = 0
  BY BeginningOfFirst
<1>12. k = 1 /\ n = Len(g) /\ g = f
  <2>1. \A m \in DOMAIN FirstBytes(r \o FirstBytes(t)) :
          crc_func(SubSeq(FirstBytes(r \o FirstBytes(t)), 1, m)) = 0
            => k = 1 /\ m = Len(g) /\ g = f
    BY <1>2, <1>5, <1>9, OnlyAtStart
  <2> QED
    BY <1>10, <1>11, <2>1
<1>13. SubSeq(s, 1, n) = g
  <2>1. r = g
    BY <1>6, <1>12, SubSeqFull DEF From
  <2>2. n \in 1 .. Len(g) /\ 1 \in 1 .. Len(g)
    BY <1>6, <1>12
  <2>3. SubSeq(g \o t, 1, n) = SubSeq(g, 1, n)
    BY <1>6, <2>2, SubSeqOfConcat1
  <2> QED
    BY <1>6, <1>8, <1>12, <2>1, <2>3, SubSeqFull
<1>14. ASSUME NEW y \in DOMAIN s, y > n PROVE own[1] < own[y]
  <2>1. 1 + (Len(g) - k) = n
    BY <1>6, <1>12
  <2> QED
    BY <1>5, <1>14, <2>1
<1> QED
  BY <1>1, <1>12, <1>13, <1>14 DEF IsFrame, f

------------------------------------------------------------------------------
(* Texts and the frames they are traced to.                                *)

LEMMA AppendShape ==
  ASSUME NEW h, IsSequence(h), NEW e
  PROVE  /\ IsSequence(Append(h, e))
         /\ Len(h) \in Nat /\ DOMAIN h = 1 .. Len(h)
         /\ DOMAIN Append(h, e) = 1 .. Len(h) + 1
         /\ \A i \in DOMAIN h : Append(h, e)[i] = h[i]
         /\ Append(h, e)[Len(h) + 1] = e
<1>1. PICK S : h \in Seq(S)
  BY DEF IsSequence
<1>2. h \in Seq(S \cup {e}) /\ e \in S \cup {e}
  BY <1>1, SeqMonotonic
<1>3. /\ Append(h, e) \in Seq(S \cup {e})
      /\ Len(Append(h, e)) = Len(h) + 1
      /\ \A i \in 1 .. Len(h) : Append(h, e)[i] = h[i]
      /\ Append(h, e)[Len(h) + 1] = e
  BY <1>2, AppendProperties
<1>4. /\ Len(h) \in Nat /\ DOMAIN h = 1 .. Len(h)
      /\ DOMAIN Append(h, e) = 1 .. Len(h) + 1
  BY <1>1, <1>3, LenProperties
<1> QED
  BY <1>3, <1>4 DEF IsSequence

LEMMA EmitTraced ==
  ASSUME NEW Tails, OnlyFramesPass(Tails),
         NEW fs \in Seq(ReaderFrames), NEW f \in ReaderFrames, NEW g \in ArrivesAs(f),
         NEW s \in Seq(Byte), NEW h, Traced(s, h, fs, Tails)
  PROVE  Traced(s \o g, h, Append(fs, f), Tails)
<1> DEFINE s2   == s \o g
           fs2  == Append(fs, f)
<1>1. PICK own \in [DOMAIN s -> DOMAIN fs], at \in [DOMAIN h -> Nat] :
        Labelled(s, own, fs, Tails) /\ Matched(h, at, fs) /\ Later(s, own, h, at)
  BY DEF Traced
<1> DEFINE own2 == EmitOwn(s, g, own, Len(fs) + 1)
<1>2. Labelled(s2, own2, fs2, Tails)
  BY <1>1, EmitLabelled
<1>3. /\ Len(fs) \in Nat /\ DOMAIN fs = 1 .. Len(fs) /\ DOMAIN fs2 = 1 .. Len(fs) + 1
      /\ \A j \in DOMAIN fs : fs2[j] = fs[j]
  <2>1. fs2 \in Seq(ReaderFrames) /\ Len(fs2) = Len(fs) + 1
    BY AppendProperties
  <2> QED
    BY <2>1, AppendProperties, LenProperties
<1>4. \A x \in DOMAIN s2 : own2[x] = IF x \in DOMAIN s THEN own[x] ELSE Len(fs) + 1
  BY DEF EmitOwn
<1> HIDE DEF s2, own2, fs2
<1>5. Matched(h, at, fs2)
  <2>1. DOMAIN fs \subseteq DOMAIN fs2
    BY <1>3
  <2>2. ASSUME NEW i \in DOMAIN h PROVE Means(h, at, fs2, i)
    <3>1. Means(h, at, fs, i)
      BY <1>1 DEF Matched
    <3> QED
      BY <1>3, <2>1, <3>1 DEF Means
  <2> QED
    BY <1>1, <2>2 DEF Matched
<1>6. Later(s2, own2, h, at)
  <2> SUFFICES ASSUME NEW i \in DOMAIN h, NEW x \in DOMAIN s2, IsData(h[i])
               PROVE  at[i] < own2[x]
    BY DEF Later
  <2>1. CASE x \in DOMAIN s
    BY <1>1, <1>4, <2>1 DEF Later
  <2>2. CASE x \notin DOMAIN s
    <3>1. at[i] \in DOMAIN fs
      BY <1>1 DEF Matched, Means
    <3> QED
      BY <1>3, <1>4, <2>2, <3>1
  <2> QED
    BY <2>1, <2>2
<1>7. own2 \in [DOMAIN s2 -> DOMAIN fs2]
  BY <1>2 DEF Labelled
<1>8. Traced(s2, h, fs2, Tails)
  BY <1>1, <1>2, <1>5, <1>6, <1>7 DEF Traced
<1> QED
  BY <1>8 DEF s2, fs2

\* What is read and not handed on.
LEMMA RestTraced ==
  ASSUME NEW Tails, NEW fs \in Seq(ReaderFrames), NEW s \in Seq(Byte), NEW h,
         Traced(s, h, fs, Tails), NEW n \in 0 .. Len(s)
  PROVE  Traced(From(s, n + 1), h, fs, Tails)
<1> DEFINE r == From(s, n + 1)
<1>1. PICK own \in [DOMAIN s -> DOMAIN fs], at \in [DOMAIN h -> Nat] :
        Labelled(s, own, fs, Tails) /\ Matched(h, at, fs) /\ Later(s, own, h, at)
  BY DEF Traced
<1> DEFINE own2 == RestOwn(s, n, own)
<1>2. Labelled(r, own2, fs, Tails)
  BY <1>1, RestLabelled
<1>3. \A x \in DOMAIN r : x + n \in DOMAIN s /\ own2[x] = own[x + n]
  BY RestDomain DEF RestOwn
<1> HIDE DEF r, own2
<1>4. own2 \in [DOMAIN r -> DOMAIN fs]
  BY <1>2 DEF Labelled
<1>5. Later(r, own2, h, at)
  BY <1>1, <1>3 DEF Later
<1>6. Traced(r, h, fs, Tails)
  BY <1>1, <1>2, <1>4, <1>5 DEF Traced
<1> QED
  BY <1>6 DEF r

\* What is not handed on as data is traced to nothing.
LEMMA ErrorTraced ==
  ASSUME NEW Tails, NEW fs \in Seq(ReaderFrames), NEW s, NEW h, IsSequence(h),
         Traced(s, h, fs, Tails), NEW e, ~IsData(e)
  PROVE  Traced(s, Append(h, e), fs, Tails)
<1> DEFINE h2 == Append(h, e)
<1>1. PICK own \in [DOMAIN s -> DOMAIN fs], at \in [DOMAIN h -> Nat] :
        Labelled(s, own, fs, Tails) /\ Matched(h, at, fs) /\ Later(s, own, h, at)
  BY DEF Traced
<1>2. /\ Len(h) \in Nat /\ DOMAIN h = 1 .. Len(h) /\ DOMAIN h2 = 1 .. Len(h) + 1
      /\ \A i \in DOMAIN h : h2[i] = h[i]
      /\ h2[Len(h) + 1] = e
  BY AppendShape
<1> DEFINE at2 == [i \in DOMAIN h2 |-> IF i \in DOMAIN h THEN at[i] ELSE 0]
<1>3. at2 \in [DOMAIN h2 -> Nat]
  BY <1>1
<1> HIDE DEF h2
<1>4. ASSUME NEW i \in DOMAIN h2, IsData(h2[i])
      PROVE  i \in DOMAIN h /\ h2[i] = h[i] /\ at2[i] = at[i]
  <2>1. i # Len(h) + 1
    BY <1>2, <1>4
  <2>2. i \in DOMAIN h
    BY <1>2, <2>1
  <2> QED
    BY <1>2, <2>2
<1> HIDE DEF at2
<1>5. ASSUME NEW i \in DOMAIN h2 PROVE Means(h2, at2, fs, i)
  BY <1>1, <1>4 DEF Matched, Means
<1>6. \A i, j \in DOMAIN h2 :
        i < j /\ IsData(h2[i]) /\ IsData(h2[j]) => at2[i] < at2[j]
  BY <1>1, <1>4 DEF Matched
<1>7. Matched(h2, at2, fs)
  BY <1>3, <1>5, <1>6 DEF Matched
<1>8. Later(s, own, h2, at2)
  BY <1>1, <1>4 DEF Later
<1>9. Traced(s, h2, fs, Tails)
  BY <1>1, <1>3, <1>7, <1>8 DEF Traced
<1> QED
  BY <1>9 DEF h2

\* What passes is traced to the frame it is, which is later than all before.
LEMMA FrameTraced ==
  ASSUME NEW Tails, OnlyFramesPass(Tails), NEW fs \in Seq(ReaderFrames),
         NEW s \in Seq(Byte), NEW h, IsSequence(h), Traced(s, h, fs, Tails),
         NEW n \in 1 .. Len(s), n <= Limit, s[1] = 255, crc_func(SubSeq(s, 1, n)) = 0,
         Len(SubSeq(s, 1, n)) >= 6 => SubSeq(s, 1, n)[6] = 0,
         NEW e, Says(e.text, SubSeq(s, 1, n))
  PROVE  Traced(From(s, n + 1), Append(h, e), fs, Tails)
<1> DEFINE buf == SubSeq(s, 1, n)
           r   == From(s, n + 1)
           h2  == Append(h, e)
<1>1. PICK own \in [DOMAIN s -> DOMAIN fs], at \in [DOMAIN h -> Nat] :
        Labelled(s, own, fs, Tails) /\ Matched(h, at, fs) /\ Later(s, own, h, at)
  BY DEF Traced
<1>0. Says(e.text, buf)
  OBVIOUS
<1>2. 1 \in DOMAIN s /\ buf = fs[own[1]] /\ \A y \in DOMAIN s : y > n => own[1] < own[y]
  BY <1>1, Recognised DEF IsFrame
<1> DEFINE own2 == RestOwn(s, n, own)
<1>3. Labelled(r, own2, fs, Tails)
  <2>1. n \in 0 .. Len(s)
    OBVIOUS
  <2> QED
    BY <1>1, <2>1, RestLabelled
<1>4. \A x \in DOMAIN r : x + n \in DOMAIN s /\ x + n > n /\ own2[x] = own[x + n]
  <2>1. n \in 0 .. Len(s)
    OBVIOUS
  <2> QED
    BY <2>1, RestDomain DEF RestOwn
<1>5. own[1] \in DOMAIN fs /\ own[1] \in Nat /\ fs[own[1]] \in ReaderFrames
  <2>1. own[1] \in DOMAIN fs /\ DOMAIN fs = 1 .. Len(fs) /\ Len(fs) \in Nat
    BY <1>1, <1>2, LenProperties
  <2> QED
    BY <2>1, ElementOfSeq
<1>6. fs[own[1]][6] = 0
  <2>1. Len(fs[own[1]]) \in 8 .. CopySize + 2
    BY <1>5, FrameShape
  <2>2. Len(fs[own[1]]) >= 6
    BY <2>1, Sizes
  <2> QED
    BY <1>2, <2>2
<1> HIDE DEF buf, r, own2
<1>7. /\ Len(h) \in Nat /\ DOMAIN h = 1 .. Len(h) /\ DOMAIN h2 = 1 .. Len(h) + 1
      /\ \A i \in DOMAIN h : h2[i] = h[i]
      /\ h2[Len(h) + 1] = e
  BY AppendShape
<1> HIDE DEF h2
<1> DEFINE at2 == [i \in DOMAIN h2 |-> IF i \in DOMAIN h THEN at[i] ELSE own[1]]
<1>8. at2 \in [DOMAIN h2 -> Nat]
  BY <1>1, <1>5
<1>9. \A i \in DOMAIN h2 :
        \/ i \in DOMAIN h /\ i <= Len(h) /\ h2[i] = h[i] /\ at2[i] = at[i]
        \/ i = Len(h) + 1 /\ h2[i] = e /\ at2[i] = own[1]
  BY <1>7
<1> HIDE DEF at2
<1>10. \A i \in DOMAIN h : IsData(h[i]) => at[i] < own[1]
  BY <1>1, <1>2 DEF Later
<1>11. ASSUME NEW i \in DOMAIN h2 PROVE Means(h2, at2, fs, i)
  <2>1. CASE i \in DOMAIN h /\ h2[i] = h[i] /\ at2[i] = at[i]
    BY <1>1, <2>1 DEF Matched, Means
  <2>2. CASE h2[i] = e /\ at2[i] = own[1]
    BY <1>0, <1>2, <1>5, <1>6, <2>2 DEF Means
  <2> QED
    BY <1>9, <2>1, <2>2
<1>12. ASSUME NEW i \in DOMAIN h2, NEW j \in DOMAIN h2, i < j,
              IsData(h2[i]), IsData(h2[j])
       PROVE  at2[i] < at2[j]
  <2>1. i \in DOMAIN h /\ h2[i] = h[i] /\ at2[i] = at[i]
    BY <1>7, <1>9, <1>12
  <2>2. CASE j \in DOMAIN h /\ h2[j] = h[j] /\ at2[j] = at[j]
    BY <1>1, <1>12, <2>1, <2>2 DEF Matched
  <2>3. CASE at2[j] = own[1]
    BY <1>10, <1>12, <2>1, <2>3
  <2> QED
    BY <1>9, <2>2, <2>3
<1>13. Matched(h2, at2, fs)
  BY <1>8, <1>11, <1>12 DEF Matched
<1>14. Later(r, own2, h2, at2)
  <2> SUFFICES ASSUME NEW i \in DOMAIN h2, NEW x \in DOMAIN r, IsData(h2[i])
               PROVE  at2[i] < own2[x]
    BY DEF Later
  <2>1. x + n \in DOMAIN s /\ x + n > n /\ own2[x] = own[x + n]
    BY <1>4
  <2>2. CASE i \in DOMAIN h /\ h2[i] = h[i] /\ at2[i] = at[i]
    BY <1>1, <2>1, <2>2 DEF Later
  <2>3. CASE at2[i] = own[1]
    BY <1>2, <2>1, <2>3
  <2> QED
    BY <1>9, <2>2, <2>3
<1>15. own2 \in [DOMAIN r -> DOMAIN fs]
  BY <1>3 DEF Labelled
<1>16. Traced(r, h2, fs, Tails)
  BY <1>3, <1>8, <1>13, <1>14, <1>15 DEF Traced
<1> QED
  BY <1>16 DEF r, h2, buf

------------------------------------------------------------------------------
(* The texts.                                                              *)

\* A bounded set of numbers has a greatest one.
LEMMA Greatest ==
  ASSUME NEW N \in Nat, NEW S, S \subseteq 0 .. N, S # {}
  PROVE  \E n \in S : \A m \in n + 1 .. N : m \notin S
<1> DEFINE R == {N - k : k \in S}
<1>1. R \subseteq Nat /\ R # {}
  <2>1. \A k \in S : N - k \in Nat
    OBVIOUS
  <2>2. PICK k \in S : TRUE
    OBVIOUS
  <2>3. N - k \in R
    OBVIOUS
  <2> QED
    BY <2>1, <2>3
<1> HIDE DEF R
<1>2. PICK l \in R : \A k \in R : l <= k
  BY <1>1, LeastMember
<1>3. PICK n \in S : l = N - n
  BY <1>2 DEF R
<1>4. ASSUME NEW m \in n + 1 .. N, m \in S PROVE FALSE
  <2>1. N - m \in R
    BY <1>4 DEF R
  <2>2. N - n <= N - m
    BY <1>2, <1>3, <2>1
  <2>3. n \in Nat /\ m \in Nat /\ n < m
    OBVIOUS
  <2> QED
    BY <2>2, <2>3
<1> QED
  BY <1>4

\* Only blanks are cut off the end, and all of them.
LEMMA TrimShape ==
  ASSUME NEW s \in Seq(Byte)
  PROVE  \E k \in 0 .. Len(s) :
           /\ TrimBlanks(s) = SubSeq(s, 1, k)
           /\ k > 0 => s[k] \notin Blanks
           /\ \A m \in k + 1 .. Len(s) : s[m] \in Blanks
<1> DEFINE Ok(n) == n > 0 => s[n] \notin Blanks
           S == {n \in 0 .. Len(s) : Ok(n)}
           IsEnd(n) == Ok(n) /\ \A m \in n + 1 .. Len(s) : ~Ok(m)
           k == CHOOSE n \in 0 .. Len(s) : IsEnd(n)
<1>1. Len(s) \in Nat
  OBVIOUS
<1>2. TrimBlanks(s) = SubSeq(s, 1, k)
  BY DEF TrimBlanks, Longest
<1>3. S \subseteq 0 .. Len(s) /\ 0 \in S
  BY <1>1
<1>4. PICK n \in S : \A m \in n + 1 .. Len(s) : m \notin S
  <2> HIDE DEF S
  <2> QED
    BY <1>1, <1>3, Greatest
<1>5. n \in 0 .. Len(s) /\ IsEnd(n)
  BY <1>1, <1>4
<1>6. k \in 0 .. Len(s) /\ IsEnd(k)
  <2> HIDE DEF IsEnd
  <2> QED
    BY <1>5
<1> HIDE DEF k
<1>7. \A m \in k + 1 .. Len(s) : s[m] \in Blanks
  BY <1>6
<1> QED
  BY <1>2, <1>6, <1>7

\* What is left is printable, and ends where the next byte is not.
LEMMA CutShape ==
  ASSUME NEW s \in Seq(Byte)
  PROVE  \E k \in 0 .. Len(s) :
           /\ CutAtInvalid(s) = SubSeq(s, 1, k)
           /\ \A i \in 1 .. k : s[i] \in Printable
           /\ k < Len(s) => s[k + 1] \notin Printable
<1> DEFINE Ok(n) == \A i \in 1 .. n : s[i] \in Printable
           S == {n \in 0 .. Len(s) : Ok(n)}
           IsEnd(n) == Ok(n) /\ \A m \in n + 1 .. Len(s) : ~Ok(m)
           k == CHOOSE n \in 0 .. Len(s) : IsEnd(n)
<1>1. Len(s) \in Nat
  OBVIOUS
<1>2. CutAtInvalid(s) = SubSeq(s, 1, k)
  BY DEF CutAtInvalid, Longest
<1>3. S \subseteq 0 .. Len(s) /\ 0 \in S
  BY <1>1
<1>4. PICK n \in S : \A m \in n + 1 .. Len(s) : m \notin S
  <2> HIDE DEF S
  <2> QED
    BY <1>1, <1>3, Greatest
<1>5. n \in 0 .. Len(s) /\ IsEnd(n)
  BY <1>1, <1>4
<1>6. k \in 0 .. Len(s) /\ IsEnd(k)
  <2> HIDE DEF IsEnd
  <2> QED
    BY <1>5
<1> HIDE DEF k
<1>7. ASSUME k < Len(s) PROVE s[k + 1] \notin Printable
  <2>1. k \in Nat /\ k + 1 \in k + 1 .. Len(s)
    BY <1>1, <1>6, <1>7
  <2>2. PICK i \in 1 .. k + 1 : s[i] \notin Printable
    BY <1>6, <2>1
  <2>3. i \notin 1 .. k
    BY <1>6, <2>2
  <2>4. i = k + 1
    BY <2>1, <2>3
  <2> QED
    BY <2>2, <2>4
<1> QED
  BY <1>2, <1>6, <1>7

\* What is taken out of a frame is what it says.
LEMMA ExtractSays ==
  ASSUME NEW buf \in Seq(Byte)
  PROVE  Says(Extract(buf), buf)
<1>1. CASE Len(buf) < 10
  BY <1>1 DEF Extract, Says
<1>2. CASE ~(Len(buf) < 10)
  <2> DEFINE p == PayloadOf(buf)
             t == TrimBlanks(p)
             text == CutAtInvalid(t)
  <2>1. Extract(buf) = text
    BY <1>2 DEF Extract, PayloadOf
  <2>2. p \in Seq(Byte) /\ Len(p) \in Nat
    BY <1>2 DEF PayloadOf
  <2> HIDE DEF p
  <2>3. PICK k \in 0 .. Len(p) : /\ t = SubSeq(p, 1, k)
                                 /\ k > 0 => p[k] \notin Blanks
                                 /\ \A m \in k + 1 .. Len(p) : p[m] \in Blanks
    BY <2>2, TrimShape
  <2> HIDE DEF t
  <2>4. t \in Seq(Byte) /\ Len(t) = k /\ \A i \in 1 .. k : t[i] = p[i]
    BY <2>2, <2>3
  <2>5. PICK n \in 0 .. Len(t) : /\ text = SubSeq(t, 1, n)
                                 /\ \A i \in 1 .. n : t[i] \in Printable
                                 /\ n < Len(t) => t[n + 1] \notin Printable
    BY <2>4, CutShape
  <2> HIDE DEF text
  <2>6. /\ n \in Nat /\ k \in Nat /\ n <= k /\ k <= Len(p)
        /\ Len(text) = n /\ DOMAIN text = 1 .. n /\ \A i \in 1 .. n : text[i] = t[i]
    BY <2>2, <2>4, <2>5
  <2>7. \A i \in DOMAIN text : text[i] = p[i] /\ p[i] \in Printable
    BY <2>4, <2>5, <2>6
  <2>8. n < k => p[n + 1] \notin Printable
    <3>1. n < k => n + 1 \in 1 .. k
      BY <2>6
    <3> QED
      BY <2>4, <2>5, <3>1
  <2>9. CASE n = k
    <3>1. \A i \in n + 1 .. Len(p) : p[i] \in Blanks
      BY <2>3, <2>9
    <3>2. n > 0 => p[n] \notin Blanks
      BY <2>3, <2>9
    <3>3. n <= Len(p)
      BY <2>2, <2>6
    <3> QED
      BY <1>2, <2>1, <2>6, <2>7, <3>1, <3>2, <3>3 DEF Says, p
  <2>10. CASE n < k
    <3>1. k \in n + 1 .. Len(p) /\ k > 0
      BY <2>2, <2>6, <2>10
    <3>2. ~(\A i \in n + 1 .. Len(p) : p[i] \in Blanks)
      BY <2>3, <3>1
    <3>3. n <= Len(p)
      BY <2>2, <2>6
    <3> QED
      BY <1>2, <2>1, <2>6, <2>7, <2>8, <2>10, <3>2, <3>3 DEF Says, p
  <2> QED
    BY <2>6, <2>9, <2>10
<1> QED
  BY <1>1, <1>2

\* What is handed on as data is what a frame that has passed says.
LEMMA TextKinds ==
  ASSUME NEW buf \in Seq(Byte), buf # <<>>, NEW e \in Prepared(buf), IsData(e)
  PROVE  /\ buf[1] = 255 /\ crc_func(buf) = 0
         /\ Len(buf) >= 6 => buf[6] = 0
         /\ Says(e.text, buf)
<1>1. PICK status \in Status(buf) :
        e = [verdict |-> Verdict(buf, status), text |-> Extract(Checked(buf, Verdict(buf, status)))]
  BY DEF Prepared
<1>2. Verdict(buf, status) = "frame" /\ e.text = Extract(Checked(buf, "frame"))
  BY <1>1 DEF IsData
<1>3. buf[1] = 255 /\ crc_func(buf) = 0 /\ status = 0
  BY <1>2 DEF Verdict
<1>4. Len(buf) >= 6 => buf[6] = 0
  BY <1>1, <1>3 DEF Status
<1>5. Checked(buf, "frame") = buf
  BY DEF Checked
<1> QED
  BY <1>2, <1>3, <1>4, <1>5, ExtractSays

------------------------------------------------------------------------------
(* The steps.                                                              *)

\* What is read is the beginning of what is unread.
LEMMA Split ==
  ASSUME NEW w \in Seq(Byte), NEW n \in 0 .. Len(w)
  PROVE  w = SubSeq(w, 1, n) \o SubSeq(w, n + 1, Len(w))
<1> DEFINE a == SubSeq(w, 1, n)
           b == SubSeq(w, n + 1, Len(w))
<1>1. Len(w) \in Nat
  OBVIOUS
<1>2. a \in Seq(Byte) /\ Len(a) = n /\ \A i \in 1 .. n : a[i] = w[i]
  BY <1>1
<1>3. b \in Seq(Byte) /\ Len(b) = Len(w) - n /\ \A i \in 1 .. Len(w) - n : b[i] = w[n + i]
  BY <1>1
<1> HIDE DEF a, b
<1>4. /\ a \o b \in Seq(Byte) /\ Len(a \o b) = Len(a) + Len(b)
      /\ \A i \in 1 .. Len(a) + Len(b) :
           (a \o b)[i] = IF i <= Len(a) THEN a[i] ELSE b[i - Len(a)]
  BY <1>2, <1>3, ConcatProperties
<1>5. Len(w) = Len(a \o b)
  BY <1>1, <1>2, <1>3, <1>4
<1>6. ASSUME NEW i \in 1 .. Len(w) PROVE w[i] = (a \o b)[i]
  <2>1. i \in 1 .. Len(a) + Len(b)
    BY <1>4, <1>5
  <2>2. CASE i <= Len(a)
    BY <1>2, <1>4, <2>1, <2>2
  <2>3. CASE ~(i <= Len(a))
    <3>1. i - n \in 1 .. Len(w) - n /\ n + (i - n) = i
      BY <1>1, <1>2, <2>3
    <3> QED
      BY <1>2, <1>3, <1>4, <2>1, <2>3, <3>1
  <2> QED
    BY <2>2, <2>3
<1>7. w = a \o b
  BY <1>4, <1>5, <1>6, SeqEqual
<1> QED
  BY <1>7 DEF a, b

LEMMA Ends ==
  ASSUME NEW a \in Seq(Byte), NEW b \in Seq(Byte)
  PROVE  /\ a \o b \in Seq(Byte) /\ Len(a) \in 0 .. Len(a \o b)
         /\ SubSeq(a \o b, 1, Len(a)) = a
         /\ From(a \o b, Len(a) + 1) = b
<1>1. /\ Len(a) \in Nat /\ Len(b) \in Nat
      /\ a \o b \in Seq(Byte) /\ Len(a \o b) = Len(a) + Len(b)
      /\ \A i \in 1 .. Len(a) + Len(b) :
           (a \o b)[i] = IF i <= Len(a) THEN a[i] ELSE b[i - Len(a)]
  BY ConcatProperties, LenProperties
<1>2. Len(a) \in 0 .. Len(a \o b)
  BY <1>1
<1> DEFINE c == a \o b
           d == SubSeq(c, 1, Len(a))
           e == SubSeq(c, Len(a) + 1, Len(c))
<1> HIDE DEF c
<1>3. c \in Seq(Byte) /\ Len(c) = Len(a) + Len(b) /\ \A i \in 1 .. Len(a) + Len(b) :
        c[i] = IF i <= Len(a) THEN a[i] ELSE b[i - Len(a)]
  BY <1>1 DEF c
<1>4. d \in Seq(Byte) /\ Len(d) = Len(a) /\ \A i \in 1 .. Len(a) : d[i] = c[i]
  BY <1>1, <1>3
<1>5. e \in Seq(Byte) /\ Len(e) = Len(b) /\ \A i \in 1 .. Len(b) : e[i] = c[Len(a) + i]
  BY <1>1, <1>3
<1> HIDE DEF d, e
<1>6. d = a
  <2>1. \A i \in 1 .. Len(a) : d[i] = a[i]
    BY <1>1, <1>3, <1>4
  <2> QED
    BY <1>4, <2>1, SeqEqual
<1>7. e = b
  <2>1. ASSUME NEW i \in 1 .. Len(b) PROVE e[i] = b[i]
    <3>1. /\ Len(a) + i \in 1 .. Len(a) + Len(b)
          /\ ~(Len(a) + i <= Len(a)) /\ (Len(a) + i) - Len(a) = i
      BY <1>1
    <3>2. c[Len(a) + i] = b[(Len(a) + i) - Len(a)]
      BY <1>3, <3>1
    <3> QED
      BY <1>5, <3>1, <3>2
  <2> QED
    BY <1>5, <2>1, SeqEqual
<1> QED
  BY <1>1, <1>2, <1>6, <1>7 DEF c, d, e, From

\* What a turn of the loop does to what is unread.
TurnKeeps(buf) == part' = buf /\ handed' = handed
TurnDrops(buf) == part' = <<>> /\ handed' = handed
TurnHands(buf) ==
  /\ buf # <<>> /\ part' = <<>>
  /\ buf[1] = 255 => ~Overruns(buf)
  /\ \E e \in Prepared(buf) : HandOn(e)

LEMMA TurnSplit ==
  ASSUME Typed, Turn
  PROVE  \E buf \in Seq(Byte) :
           /\ Unread = buf \o wire' /\ wire' \in Seq(Byte)
           /\ TurnKeeps(buf) \/ TurnDrops(buf) \/ TurnHands(buf)
<1>1. part \in Seq(Byte) /\ wire \in Seq(Byte) /\ BufSize - Len(part) \in Nat
  BY Sizes DEF Typed, TypeOK
<1>2. PICK n \in Arrived(BufSize - Len(part)) :
        /\ Take(n)
        /\ \/ TurnKeeps(part \o Taken(n))
           \/ TurnDrops(part \o Taken(n))
           \/ TurnHands(part \o Taken(n))
  <2>1. PICK n \in Arrived(BufSize - Len(part)) : \E buf \in {part \o Taken(n)} :
          /\ Take(n)
          /\ \/ /\ buf = <<>>
                /\ pc' = "send" /\ part' = <<>> /\ UNCHANGED handed
             \/ /\ buf # <<>> /\ Incomplete(buf, Len(part))
                /\ part' = buf /\ UNCHANGED <<pc, handed>>
             \/ /\ buf # <<>> /\ ~Incomplete(buf, Len(part))
                /\ part' = <<>>
                /\ IF buf[1] = 255 /\ Overruns(buf)
                   THEN pc' = "smashed" /\ UNCHANGED handed
                   ELSE pc' = "send" /\ \E e \in Prepared(buf) : HandOn(e)
    BY Zenon DEF Turn
  <2> DEFINE b == part \o Taken(n)
  <2>2. /\ Take(n)
        /\ \/ part' = <<>> /\ handed' = handed
           \/ part' = b /\ handed' = handed
           \/ /\ b # <<>> /\ part' = <<>>
              /\ b[1] = 255 => ~Overruns(b)
              /\ \E e \in Prepared(b) : HandOn(e)
    BY <2>1
  <2> HIDE DEF b
  <2>3. Take(n) /\ (TurnKeeps(b) \/ TurnDrops(b) \/ TurnHands(b))
    BY <2>2 DEF TurnKeeps, TurnDrops, TurnHands
  <2> QED
    BY <2>3 DEF b
<1>3. n \in 0 .. Len(wire) /\ Taken(n) \in Seq(Byte) /\ wire' \in Seq(Byte)
  BY <1>1, <1>2, ReadShape
<1>4. wire = Taken(n) \o wire'
  BY <1>1, <1>2, <1>3, Split DEF Take, Taken
<1>5. Unread = (part \o Taken(n)) \o wire'
  BY <1>1, <1>3, <1>4, ConcatThree DEF Unread
<1>6. part \o Taken(n) \in Seq(Byte)
  BY <1>1, <1>3, ConcatBytes
<1> QED
  BY <1>2, <1>3, <1>5, <1>6

\* In revbuf there is nothing before the loop has begun.
EarlyInv == pc \in {"open", "mode", "store"} => part = <<>>

DataInv(Tails) == EarlyInv /\ IsSequence(handed) /\ Traced(Unread, handed, frames, Tails)

LEMMA InitData ==
  ASSUME NEW Tails, Init
  PROVE  DataInv(Tails)
<1>1. EarlyInv
  BY DEF Init, EarlyInv
<1>2. IsSequence(handed)
  BY DEF Init, IsSequence
<1>3. Unread = <<>> /\ handed = <<>> /\ frames = <<>>
  BY DEF Init, Unread
<1>4. Traced(<<>>, <<>>, <<>>, Tails)
  <2> DEFINE own == [x \in DOMAIN <<>> |-> 0]
  <2>1. DOMAIN <<>> = {}
    OBVIOUS
  <2>2. own \in [DOMAIN <<>> -> DOMAIN <<>>] /\ own \in [DOMAIN <<>> -> Nat]
    BY <2>1
  <2>3. Labelled(<<>>, own, <<>>, Tails)
    BY <2>1, <2>2 DEF Labelled
  <2>4. Matched(<<>>, own, <<>>)
    BY <2>1, <2>2 DEF Matched
  <2>5. Later(<<>>, own, <<>>, own)
    BY <2>1 DEF Later
  <2> HIDE DEF own
  <2> QED
    BY <2>2, <2>3, <2>4, <2>5 DEF Traced
<1> QED
  BY <1>1, <1>2, <1>3, <1>4 DEF DataInv

\* A frame, spoilt or not, comes behind all that is unread.
LEMMA EmitData ==
  ASSUME NEW Tails, OnlyFramesPass(Tails), Typed, Traced(Unread, handed, frames, Tails),
         Emits, UNCHANGED thread
  PROVE  Traced(Unread', handed', frames', Tails)
<1>1. part \in Seq(Byte) /\ wire \in Seq(Byte) /\ frames \in Seq(ReaderFrames)
  BY DEF Typed, TypeOK
<1>2. PICK f \in ReaderFrames : Emit(f)
  BY DEF Emits
<1>3. frames' = Append(frames, f)
  BY <1>2 DEF Emit
<1>4. PICK g \in ArrivesAs(f) : wire' = wire \o g
  BY <1>2 DEF Emit, ArrivesAs
<1>5. g \in Seq(Byte)
  BY ArrivesShape
<1>6. Unread' = Unread \o g
  BY <1>1, <1>4, <1>5, ConcatThree DEF Unread, thread
<1>7. Unread \in Seq(Byte)
  BY <1>1, ConcatBytes DEF Unread
<1>8. Traced(Unread \o g, handed, Append(frames, f), Tails)
  <2> DEFINE s == Unread
  <2>1. s \in Seq(Byte) /\ Traced(s, handed, frames, Tails)
    BY <1>7
  <2> HIDE DEF s
  <2>2. Traced(s \o g, handed, Append(frames, f), Tails)
    BY <1>1, <2>1, EmitTraced
  <2> QED
    BY <2>2 DEF s
<1> QED
  BY <1>3, <1>6, <1>8 DEF thread

\* What is handed on is an error or what the next frame says.
LEMMA HandTraced ==
  ASSUME NEW Tails, OnlyFramesPass(Tails), NEW fs \in Seq(ReaderFrames),
         NEW buf \in Seq(Byte), NEW w \in Seq(Byte), buf # <<>>,
         buf[1] = 255 => ~Overruns(buf),
         NEW h, IsSequence(h), Traced(buf \o w, h, fs, Tails),
         NEW e \in Prepared(buf)
  PROVE  Traced(w, Append(h, e), fs, Tails)
<1> DEFINE s == buf \o w
<1>1. /\ s \in Seq(Byte) /\ Len(buf) \in 0 .. Len(s)
      /\ SubSeq(s, 1, Len(buf)) = buf /\ From(s, Len(buf) + 1) = w
  BY Ends
<1>2. s[1] = buf[1] /\ Len(buf) \in Nat \ {0}
  OBVIOUS
<1>3. Traced(s, h, fs, Tails)
  OBVIOUS
<1> HIDE DEF s
<1>4. CASE ~IsData(e)
  <2>1. Traced(From(s, Len(buf) + 1), h, fs, Tails)
    BY <1>1, <1>3, RestTraced
  <2>2. Traced(w, h, fs, Tails)
    BY <1>1, <2>1
  <2> QED
    BY <1>4, <2>2, ErrorTraced
<1>5. CASE IsData(e)
  <2>1. /\ buf[1] = 255 /\ crc_func(buf) = 0 /\ (Len(buf) >= 6 => buf[6] = 0)
        /\ Says(e.text, buf)
    BY <1>5, TextKinds
  <2>2. PICK n \in 1 .. Len(s) : n = Len(buf) /\ n <= Limit
    <3>1. ~(Len(buf) - 2 > CopySize)
      BY <2>1 DEF Overruns
    <3>2. \A x, y \in Nat : x # 0 /\ ~(x - 2 > y) => x <= y + 2
      OBVIOUS
    <3>3. Len(buf) \in 1 .. Len(s) /\ Len(buf) <= CopySize + 2
      BY <1>1, <1>2, <3>1, <3>2, Sizes
    <3> QED
      BY <3>3 DEF Limit
  <2>3. s[1] = 255 /\ SubSeq(s, 1, n) = buf /\ From(s, n + 1) = w
    BY <1>1, <1>2, <2>1, <2>2
  <2>4. /\ crc_func(SubSeq(s, 1, n)) = 0 /\ (Len(SubSeq(s, 1, n)) >= 6 => SubSeq(s, 1, n)[6] = 0)
        /\ Says(e.text, SubSeq(s, 1, n))
    BY <2>1, <2>3
  <2>5. Traced(From(s, n + 1), Append(h, e), fs, Tails)
    BY <1>1, <1>3, <2>2, <2>3, <2>4, FrameTraced
  <2> QED
    BY <2>1, <2>3, <2>5
<1> QED
  BY <1>4, <1>5

LEMMA TurnData ==
  ASSUME NEW Tails, OnlyFramesPass(Tails), Typed, IsSequence(handed),
         Traced(Unread, handed, frames, Tails), Turn
  PROVE  Traced(Unread', handed', frames', Tails) /\ IsSequence(handed')
<1>1. frames \in Seq(ReaderFrames) /\ frames' = frames
  BY DEF Typed, Turn
<1>2. PICK buf \in Seq(Byte) :
        /\ Unread = buf \o wire' /\ wire' \in Seq(Byte)
        /\ TurnKeeps(buf) \/ TurnDrops(buf) \/ TurnHands(buf)
  BY TurnSplit
<1>3. Traced(buf \o wire', handed, frames, Tails)
  BY <1>2
<1>4. part' = <<>> => Unread' = wire'
  BY <1>2 DEF Unread
<1>5. Traced(wire', handed, frames, Tails)
  <2> DEFINE s == buf \o wire'
  <2>1. s \in Seq(Byte) /\ Len(buf) \in 0 .. Len(s) /\ From(s, Len(buf) + 1) = wire'
    BY <1>2, Ends
  <2>2. Traced(s, handed, frames, Tails)
    BY <1>3
  <2> HIDE DEF s
  <2>3. Traced(From(s, Len(buf) + 1), handed, frames, Tails)
    BY <1>1, <2>1, <2>2, RestTraced
  <2> QED
    BY <2>1, <2>3
<1>6. CASE TurnKeeps(buf)
  <2>1. Unread' = buf \o wire'
    BY <1>6 DEF TurnKeeps, Unread
  <2> QED
    BY <1>1, <1>3, <1>6, <2>1 DEF TurnKeeps
<1>7. CASE TurnDrops(buf)
  BY <1>1, <1>4, <1>5, <1>7 DEF TurnDrops
<1>8. CASE TurnHands(buf)
  <2>1. PICK e \in Prepared(buf) : HandOn(e)
    BY <1>8 DEF TurnHands
  <2>2. Unread' = wire'
    BY <1>4, <1>8 DEF TurnHands
  <2>3. CASE e.text = <<>>
    BY <1>1, <1>5, <2>1, <2>2, <2>3 DEF HandOn
  <2>4. CASE e.text # <<>>
    <3>1. handed' = Append(handed, e)
      BY <2>1, <2>4 DEF HandOn
    <3>2. buf # <<>> /\ (buf[1] = 255 => ~Overruns(buf))
      BY <1>8 DEF TurnHands
    <3>3. Traced(wire', Append(handed, e), frames, Tails)
      BY <1>1, <1>2, <1>3, <3>2, HandTraced
    <3>4. IsSequence(Append(handed, e))
      BY AppendShape
    <3> QED
      BY <1>1, <2>2, <3>1, <3>3, <3>4
  <2> QED
    BY <2>3, <2>4
<1> QED
  BY <1>2, <1>6, <1>7, <1>8

\* init_rfid looks at an answer and hands nothing on.
LEMMA AnswerReadData ==
  ASSUME NEW Tails, Typed, EarlyInv, Traced(Unread, handed, frames, Tails),
         ModeAnswer \/ StoreAnswer
  PROVE  Traced(Unread', handed', frames', Tails)
<1>1. /\ wire \in Seq(Byte) /\ Len(wire) \in Nat
      /\ frames \in Seq(ReaderFrames) /\ frames' = frames /\ handed' = handed
  BY DEF Typed, TypeOK, ModeAnswer, StoreAnswer
<1>2. part = <<>> /\ part' = <<>>
  BY DEF EarlyInv, ModeAnswer, StoreAnswer
<1>3. PICK n \in 0 .. LENGTH : n <= Len(wire) /\ Take(n) /\ wire' \in Seq(Byte)
  BY AnswerReadShape
<1>4. n \in 0 .. Len(wire)
  BY <1>1, <1>3, Sizes
<1>5. Unread = wire /\ Unread' = From(wire, n + 1)
  BY <1>1, <1>2, <1>3 DEF Unread, Take, From
<1>6. Traced(wire, handed, frames, Tails)
  BY <1>5
<1>7. Traced(From(wire, n + 1), handed, frames, Tails)
  BY <1>1, <1>4, <1>6, RestTraced
<1> QED
  BY <1>1, <1>5, <1>7

LEMMA DataStep ==
  ASSUME NEW Tails, OnlyFramesPass(Tails), Typed, DataInv(Tails), Next
  PROVE  DataInv(Tails)'
<1>1. EarlyInv /\ IsSequence(handed) /\ Traced(Unread, handed, frames, Tails)
  BY DEF DataInv
<1>2. CASE Turn
  <2>1. EarlyInv'
    BY <1>2 DEF Turn, EarlyInv
  <2> QED
    BY <1>1, <1>2, <2>1, TurnData DEF DataInv
<1>3. CASE ModeAnswer \/ StoreAnswer
  <2>1. EarlyInv' /\ handed' = handed
    BY <1>1, <1>3 DEF ModeAnswer, StoreAnswer, EarlyInv
  <2> QED
    BY <1>1, <1>3, <2>1, AnswerReadData DEF DataInv
<1>4. CASE Answer \/ Notice
  <2>1. Emits /\ UNCHANGED thread
    BY <1>4, AnswerEmits, NoticeEmits DEF Answer, Notice
  <2>2. EarlyInv' /\ handed' = handed
    BY <1>1, <2>1 DEF thread, EarlyInv
  <2> QED
    BY <1>1, <2>1, <2>2, EmitData DEF DataInv
<1>5. CASE Open \/ Send \/ Finish \/ Read \/ Lose
  <2>1. UNCHANGED <<part, wire, handed, frames>>
    BY <1>5 DEF Open, Send, Finish, Read, Lose, thread, reader
  <2>2. EarlyInv'
    BY <1>1, <1>5 DEF Open, Send, Finish, Read, Lose, thread, EarlyInv
  <2> QED
    BY <1>1, <2>1, <2>2 DEF DataInv, Unread
<1> QED
  BY <1>2, <1>3, <1>4, <1>5 DEF Next, ThreadStep

------------------------------------------------------------------------------
(* The result.                                                             *)

LEMMA TracedIsGenuine ==
  ASSUME NEW Tails, Typed, DataInv(Tails)
  PROVE  DataIsGenuine
<1> DEFINE data == {i \in DOMAIN handed : handed[i].verdict = "frame"}
           good == {j \in DOMAIN frames : frames[j][6] = 0}
<1>1. PICK at \in [DOMAIN handed -> Nat] : Matched(handed, at, frames)
  BY DEF DataInv, Traced
<1> DEFINE at2 == [i \in data |-> at[i]]
<1>2. \A i \in data : at[i] \in good /\ Says(handed[i].text, frames[at[i]])
  BY <1>1 DEF Matched, Means, IsData
<1>3. at2 \in [data -> good]
  BY <1>2
<1>4. \A i \in data : Says(handed[i].text, frames[at2[i]])
  BY <1>2
<1>5. \A i, j \in data : i < j => at2[i] < at2[j]
  BY <1>1 DEF Matched, IsData
<1> QED
  BY <1>3, <1>4, <1>5 DEF DataIsGenuine

(* Whatever the tags say, whatever sizes the buffers have, and however     *)
(* read() cuts the line, frames are spoilt, lost or joined: if the         *)
(* checksum tells a frame from everything else that may follow a byte 255  *)
(* on the line, then what the router gets as data is what frames sent with *)
(* status 0 say, each once at most and in order.                           *)
THEOREM GenuineData ==
  ASSUME NEW CONSTANT Tails, OnlyFramesPass(Tails)
  PROVE  Spec => []DataIsGenuine
<1>1. Init => DataInv(Tails)
  BY InitData
<1>2. Inv /\ DataInv(Tails) /\ [Next]_vars => DataInv(Tails)'
  <2>1. ASSUME DataInv(Tails), UNCHANGED vars PROVE DataInv(Tails)'
    BY <2>1 DEF DataInv, EarlyInv, Unread, vars, thread, reader
  <2> QED
    BY <2>1, DataStep DEF Inv
<1>3. Inv /\ DataInv(Tails) => DataIsGenuine
  BY TracedIsGenuine DEF Inv
<1> QED
  BY <1>1, <1>2, <1>3, SerialInv, PTL DEF Spec
=============================================================================
