-------------------------- MODULE MeterAnswerProofs --------------------------
(***************************************************************************)
(* Proofs about the answers of the metering chip in MeterLink, for every     *)
(* size of a word, every calibration table and every order of task steps     *)
(* and interrupts: an answer that gets out undamaged is what the task uses,   *)
(* and one fault on the line neither makes CheckRegDataWrited report a write   *)
(* that did not happen nor CalibVoltage accept a word that is not a reading.  *)
(***************************************************************************)
EXTENDS MeterLinkProofs

-----------------------------------------------------------------------------
(***************************************************************************)
(* The invariant.                                                          *)
(***************************************************************************)
\* The command that was or will be sent next.
Current == Head(todo)

\* ReadRegBackBuf holds the word w.
Holds(b, w) == SubSeq(b, 4, 3 + WORD_BYTES) = Bytes(w)

\* What an interrupt finds when the parser can follow: an answer (or nothing,
\* when it reports an error), the first byte of one, or all the others.
IsAnswer(f) == \E c \in Commands : \E w \in Word : f = Answer(c, w)
Full(ch)    == IsAnswer(ch.bytes)
FirstByte(ch) == ch = [bytes |-> <<FE>>, err |-> FALSE]
OtherBytes(ch) == ~ch.err /\ \E f \in Seq(Byte) : IsAnswer(f) /\ ch.bytes = Rest(f, 1)

\* A parser in state n can follow the line l.
Feeds(n, l) ==
  /\ n \in {0, 1}
  /\ n = 1 <=> (l # <<>> /\ OtherBytes(l[1]))
  /\ \A i \in 1..Len(l) :
       \/ Full(l[i])
       \/ FirstByte(l[i]) /\ i < Len(l) /\ OtherBytes(l[i + 1])
       \/ OtherBytes(l[i]) /\ (i = 1 \/ FirstByte(l[i - 1]))

\* The answer f is the last to come.
LastIs(l, f) == ~l[Len(l)].err /\ l[Len(l)].bytes \in {f, Rest(f, 1)}

\* The commands that Meter_init has left: every write is followed by a read of
\* the same register, the next write is to another one, and the last register
\* is the control register.
InitCommands(s) ==
  /\ s[Len(s)] = ReadCmd(MeterControlReg0Add, MC0Word)
  /\ \A i \in 1..(Len(s) - 1) :
       \/ s[i].k = "write" /\ s[i + 1] = ReadCmd(s[i].reg, s[i].data)
       \/ s[i].k = "read" /\ s[i + 1].k = "write" /\ s[i + 1].reg # s[i].reg

TodoOK ==
  IF phase = "init" THEN InitCommands(todo) /\ pc # "use" ELSE todo = ReadAARTU

\* An undamaged answer is on the line or in ReadRegBackBuf.
Underway ==
  /\ ring = <<>>
  /\ Feeds(rx_len, line)
  /\ pc = "wait" /\ asked # NoWord =>
       IF line = <<>> THEN Current.k = "read" => Holds(back, asked)
                      ELSE LastIs(line, Answer(Current, asked))
  /\ pc = "use" /\ asked # NoWord => line = <<>> /\ Holds(back, asked)

\* Before the first fault.
Faultless ==
  /\ ~broken
  /\ pc # "wait" => line = <<>>
  /\ pc = "wait" =>
       /\ asked # NoWord
       /\ Current.k = "read" => asked \in Reading(Current.reg)
       /\ line \in {<<>>, Whole(Answer(Current, asked))}

\* A write that did not happen was the only fault, and the read that follows it
\* will tell.
Written ==
  \/ chip[Current.reg] = Current.data
  \/ /\ ~broken
     /\ faults = 1
     /\ pc = "wait" /\ Current.k = "read" => asked = chip[Current.reg]

\* The register of the last comparison is not written before the next one.
CheckedOK ==
  checked.ok = 1 =>
    /\ checked.reg \in Registers
    /\ phase # "init" => checked.reg = MeterControlReg0Add
    /\ phase = "init" /\ pc = "send" /\ Current.k = "write" => checked.reg # Current.reg

\* What CalibVoltage may be working on.
TopByte(w) == w \div Place[WORD_BYTES - 1]
ErrOnly(l) == l = <<>> \/ (Len(l) = 1 /\ l[1].err)
IsReading(w) == Holds(back, w) /\ \A j \in 1..Len(word) : word[j] = Bytes(w)[ReadOrder[j]]

Calibrating ==
  /\ pc = "send" => (faults = 0 => Holds(back, MC0Word))
  /\ pc = "wait" =>
       \/ asked \in Measured /\ (faults = 0 => (line = <<>> \/ Holds(back, MC0Word)))
       \/ asked = NoWord /\ faults = 1 /\ Holds(back, MC0Word) /\ ErrOnly(line)
  /\ pc = "use" =>
       \/ word # <<>> /\ word[1] = TopByte(MC0Word)
       \/ line = <<>> /\ \E w \in Measured : IsReading(w)
       \/ /\ word = <<>>
          /\ Holds(back, MC0Word)
          /\ \/ ErrOnly(line)
             \/ \E w \in Measured : line = Whole(Answer(ReadCmd(AARTU, 0), w))

UnderwayInv == ~broken => Underway
FaultlessInv == faults = 0 => Faultless
WrittenInv ==
  phase = "init" /\ faults <= 1 /\ (Current.k = "read" \/ pc = "wait") => Written
CalibInv ==
  ReadOrder[1] = WORD_BYTES /\ phase = "calib" /\ ~broken /\ faults <= 1 => Calibrating

AInv ==
  /\ TodoOK
  /\ pc # "use" => word = <<>>
  /\ UnderwayInv
  /\ FaultlessInv
  /\ WrittenInv
  /\ CheckedOK
  /\ VerifiedWrite
  /\ CalibInv
  /\ AcceptedIsReading
-----------------------------------------------------------------------------
(***************************************************************************)
(* Words and their bytes.                                                  *)
(***************************************************************************)
\* A quotient is known by its remainder.
LEMMA QuotientIs ==
  ASSUME NEW m \in Nat \ {0}, NEW a \in Nat, NEW s \in 0..(m - 1)
  PROVE  (m * a + s) \div m = a
<1> DEFINE x == m * a + s
           q == x \div m
           r == x % m
<1>1. x \in Nat
  OBVIOUS
<1> HIDE DEF x
<1>2. q \in Nat /\ r \in 0..(m - 1) /\ x = m * q + r
  BY <1>1
<1> HIDE DEF q, r
<1>3. m * q + r = m * a + s
  BY <1>2 DEF x
<1>4. ASSUME q > a PROVE FALSE
  <2>1. q - a >= 1 /\ m * (q - a) = s - r
    BY <1>2, <1>3, <1>4
  <2>2. m * (q - a) >= m
    BY <1>2, <2>1
  <2> QED BY <1>2, <2>1, <2>2
<1>5. ASSUME a > q PROVE FALSE
  <2>1. a - q >= 1 /\ m * (a - q) = r - s
    BY <1>2, <1>3, <1>5
  <2>2. m * (a - q) >= m
    BY <1>2, <2>1
  <2> QED BY <1>2, <2>1, <2>2
<1>6. q = a
  BY <1>2, <1>4, <1>5
<1> QED BY <1>6 DEF q, x

\* Two divisions are one, and what the second leaves.
TwoDivs(w, p) ==
  /\ (w \div p) \div 256 = w \div (256 * p)
  /\ w \div p = 256 * (w \div (256 * p)) + ((w \div p) % 256)

\* That is so.
LEMMA DivDiv == ASSUME NEW w \in Nat, NEW p \in Nat \ {0} PROVE TwoDivs(w, p)
<1> DEFINE q == w \div p
           r == w % p
           a == q \div 256
           b == q % 256
<1>1. q \in Nat /\ r \in 0..(p - 1) /\ w = p * q + r
  OBVIOUS
<1> HIDE DEF q, r
<1>2. a \in Nat /\ b \in 0..255 /\ q = 256 * a + b
  BY <1>1
<1> HIDE DEF a, b
<1>3. p * b + r \in 0..((256 * p) - 1)
  <2>1. p * b <= p * 255 /\ p * b >= 0 /\ p * b \in Nat
    BY <1>2
  <2> QED BY <1>1, <2>1
<1>4. w = (256 * p) * a + (p * b + r)
  <2>1. p * q = p * (256 * a) + p * b
    BY <1>1, <1>2
  <2>2. p * (256 * a) = (256 * p) * a
    BY <1>2
  <2>3. p * b \in Nat /\ p * q \in Nat /\ (256 * p) * a \in Nat
    BY <1>1, <1>2
  <2> QED BY <1>1, <2>1, <2>2, <2>3
<1>5. 256 * p \in Nat \ {0}
  OBVIOUS
<1>6. w \div (256 * p) = a
  BY <1>2, <1>3, <1>4, <1>5, QuotientIs
<1> QED BY <1>2, <1>6 DEF q, a, b, TwoDivs

\* A word by its bytes.
LEMMA BytesAt ==
  ASSUME NEW w \in Word
  PROVE  \A i \in 1..WORD_BYTES : Bytes(w)[i] = (w \div Place[i - 1]) % 256
BY DEF Bytes

\* Counting the bytes of a word from its other end.
LEMMA OtherEnd ==
  ASSUME NEW n \in Nat, NEW m \in Nat, m + 1 <= n
  PROVE  /\ m + 1 \in 1..n /\ (m + 1) - 1 = m
         /\ n + 1 - (m + 1) = (n - (m + 1)) + 1 /\ n - m = (n - (m + 1)) + 1
         /\ (n - (m + 1)) + 1 \in 1..n /\ ((n - (m + 1)) + 1) - 1 = n - (m + 1)
         /\ n - (m + 1) \in 0..n
  OBVIOUS

\* The bytes of a word, the highest first, have its value.
LEMMA BytesValue ==
  ASSUME NEW w \in Word, NEW b \in Seq(Byte), Len(b) = WORD_BYTES,
         \A j \in 1..WORD_BYTES : b[j] = Bytes(w)[WORD_BYTES + 1 - j]
  PROVE  Value(b) = w
<1> DEFINE n == WORD_BYTES
<1>1. n \in Nat \ {0} /\ w \in Nat /\ w < Place[n] /\ Place[n] \in Nat \ {0}
  BY WordSize, PlaceType, MeterAssumption DEF Word
<1>2. PICK v : Value(b) = v[n] /\ v[0] = 0 /\ \A i \in 1..n : v[i] = 256 * v[i - 1] + b[i]
  BY ValueIs, ZenonT(30)
<1> DEFINE T == {m \in Nat : m <= n => v[m] = w \div Place[n - m]}
<1>3. T = Nat
  <2>1. 0 \in T
    <3>1. \A x \in Nat : \A y \in Nat \ {0} : x < y => x \div y = 0
      OBVIOUS
    <3>2. w \div Place[n] = 0 /\ n - 0 = n
      BY <1>1, <3>1
    <3> QED BY <1>2, <3>2
  <2>2. ASSUME NEW m \in T PROVE m + 1 \in T
    <3> SUFFICES ASSUME m + 1 <= n PROVE v[m + 1] = w \div Place[n - (m + 1)]
      OBVIOUS
    <3> DEFINE k == n - (m + 1)
    <3>1. /\ m \in Nat /\ m + 1 \in 1..n /\ (m + 1) - 1 = m /\ n + 1 - (m + 1) = k + 1
          /\ k + 1 \in 1..n /\ (k + 1) - 1 = k /\ k \in 0..n /\ n - m = k + 1
      <4>1. m \in Nat /\ n \in Nat
        BY <1>1
      <4> QED BY <4>1, OtherEnd
    <3>2. v[m] = w \div Place[k + 1]
      <4>1. m <= n /\ n - m = k + 1
        BY <1>1, <3>1
      <4>2. m <= n => v[m] = w \div Place[n - m]
        OBVIOUS
      <4> QED BY ONLY <4>1, <4>2
    <3>3. v[m + 1] = 256 * v[m] + b[m + 1]
      BY <1>2, <3>1
    <3>4. b[m + 1] = Bytes(w)[k + 1]
      BY <3>1
    <3> HIDE DEF k
    <3>5. Place[k + 1] = 256 * Place[k] /\ Place[k] \in Nat \ {0}
      BY <3>1, PlaceDef, PlaceType
    <3> DEFINE p == Place[k]
    <3>6. Bytes(w)[k + 1] = (w \div p) % 256
      BY <3>1, BytesAt
    <3>7. p \in Nat \ {0} /\ v[m] = w \div (256 * p)
      BY <3>2, <3>5
    <3> HIDE DEF p
    <3>8. w \div p = 256 * (w \div (256 * p)) + ((w \div p) % 256)
      <4>1. TwoDivs(w, p)
        BY <1>1, <3>7, DivDiv
      <4> QED BY <4>1 DEF TwoDivs
    <3>9. v[m + 1] = w \div p
      BY <3>3, <3>4, <3>6, <3>7, <3>8, SMTT(30)
    <3> QED BY <3>9 DEF k, p
  <2>3. T \in SUBSET Nat
    OBVIOUS
  <2> HIDE DEF T
  <2> QED BY <2>1, <2>2, <2>3, SetInduction
<1>4. n \in T /\ n - n = 0
  BY <1>1, <1>3
<1>5. v[n] = w \div Place[0]
  BY <1>1, <1>4
<1>6. w \div 1 = w
  BY <1>1
<1> QED BY <1>2, <1>5, <1>6, PlaceDef

\* Different words have different bytes.
LEMMA BytesInjective ==
  ASSUME NEW u \in Word, NEW w \in Word, Bytes(u) = Bytes(w)
  PROVE  u = w
<1> DEFINE n == WORD_BYTES
           c == Bytes(u)
           b == [j \in 1..n |-> c[n + 1 - j]]
<1>1. n \in Nat /\ c \in Seq(Byte) /\ Len(c) = n
  BY WordSize, BytesType
<1> HIDE DEF c
<1>2. \A j \in 1..n : c[n + 1 - j] \in Byte
  <2> TAKE j \in 1..n
  <2>1. n + 1 - j \in 1..n
    BY <1>1
  <2> QED BY <1>1, <2>1, ElementOfSeq
<1>3. b \in Seq(Byte) /\ Len(b) = n
  BY <1>1, <1>2
<1>4. \A j \in 1..n : b[j] = c[n + 1 - j]
  OBVIOUS
<1> HIDE DEF b
<1>5. Value(b) = u
  BY <1>3, <1>4, BytesValue DEF c
<1>6. Value(b) = w
  BY <1>3, <1>4, BytesValue DEF c
<1> QED BY <1>5, <1>6

\* A word has no more than WORD_BYTES bytes.
LEMMA TopByteIs == Bytes(MC0Word)[WORD_BYTES] = TopByte(MC0Word)
<1> DEFINE p == Place[WORD_BYTES - 1]
           q == MC0Word \div p
<1>1. MC0Word \in Nat /\ MC0Word < 256 * p /\ p \in Nat \ {0} /\ MC0Word \in Word
      /\ WORD_BYTES \in 1..WORD_BYTES
  BY MeterAssumption, WordSize, PlaceType, PlaceDef DEF Word
<1> HIDE DEF p
<1>2. q \in Nat /\ q \div 256 = MC0Word \div (256 * p)
  <2>1. \A x \in Nat : \A y \in Nat \ {0} : x \div y \in Nat
    OBVIOUS
  <2>2. (MC0Word \div p) \div 256 = MC0Word \div (256 * p)
    <3>1. MC0Word \in Nat /\ p \in Nat \ {0}
      BY <1>1
    <3>2. TwoDivs(MC0Word, p)
      BY <3>1, DivDiv
    <3> QED BY <3>2 DEF TwoDivs
  <2> QED BY <1>1, <2>1, <2>2
<1>3. \A x \in Nat : \A y \in Nat \ {0} : x < y => x \div y = 0
  OBVIOUS
<1>4. MC0Word \div (256 * p) = 0
  BY <1>1, <1>3
<1> HIDE DEF q
<1>5. q % 256 = q
  BY <1>2, <1>4
<1> QED BY <1>1, <1>5, BytesAt DEF p, q, TopByte

\* A negative difference wraps around once.
LEMMA Wrapped ==
  ASSUME NEW m \in Nat \ {0}, NEW y \in 0..(m - 1), NEW x \in 0..(m - 1), y < x
  PROVE  (y - x) % m = y - x + m
OBVIOUS

\* A word that begins as the one Meter_init ends with is not accepted.
LEMMA StaleNotPrecise ==
  ASSUME NEW b \in Seq(Byte), Len(b) = WORD_BYTES, b[1] = TopByte(MC0Word)
  PROVE  ~Precise(Value(b))
<1> DEFINE n == WORD_BYTES
           p == Place[n - 1]
           t == b[1]
<1>1. /\ n \in Nat \ {0} /\ p \in Nat \ {0} /\ Standard \in Nat \ {0}
      /\ U32 = 256 * p /\ Standard < U32 /\ Standard \div p < t /\ t \in 0..255
  <2>1. n \in Nat \ {0} /\ n - 1 \in 0..n /\ n \in 1..n /\ 1 \in 1..n
    BY WordSize
  <2>2. p \in Nat \ {0} /\ U32 = 256 * p
    BY <2>1, PlaceType, PlaceDef, MeterAssumption
  <2>3. Standard \in Nat \ {0} /\ Standard < U32
    BY MeterAssumption, WordSize DEF Word
  <2>4. Standard \div p < t
    BY InitAssumption DEF TopByte
  <2>5. t \in 0..255
    BY <2>1, ValueIs, ZenonT(30)
  <2> QED BY <2>1, <2>2, <2>3, <2>4, <2>5, Zenon
<1>2. PICK v : Value(b) = v[n] /\ v[0] = 0 /\ \A i \in 1..n : v[i] = 256 * v[i - 1] + b[i]
  BY ValueIs, ZenonT(30)
<1>3. t = b[1] /\ \A i \in 1..n : b[i] \in 0..255
  BY ValueIs, ZenonT(30)
<1> HIDE DEF t
<1> DEFINE T == {m \in Nat : m + 1 <= n => v[m + 1] \in Nat /\ v[m + 1] >= t * Place[m]}
<1>4. T = Nat
  <2>1. 0 \in T
    <3>1. v[1] = 256 * v[0] + b[1]
      <4>1. 1 \in 1..n /\ 1 - 1 = 0
        BY <1>1
      <4> QED BY <1>2, <4>1
    <3>2. v[1] = t
      BY <1>1, <1>2, <1>3, <3>1
    <3>3. t * 1 = t /\ t \in Nat
      BY <1>1
    <3>4. t * Place[0] = t
      BY <3>3, PlaceDef
    <3>5. 0 + 1 = 1
      OBVIOUS
    <3> QED BY <3>2, <3>3, <3>4, <3>5
  <2>2. ASSUME NEW m \in T PROVE m + 1 \in T
    <3> DEFINE x == v[m + 1]
               y == b[m + 2]
               l == Place[m]
    <3> SUFFICES ASSUME m + 2 <= n
                 PROVE  v[m + 2] \in Nat /\ v[m + 2] >= t * Place[m + 1]
      OBVIOUS
    <3>1. m \in Nat /\ m + 2 \in 1..n /\ (m + 2) - 1 = m + 1 /\ m + 1 \in 1..n
          /\ (m + 1) - 1 = m /\ m \in 0..n /\ m + 1 <= n
      BY <1>1
    <3>2. x \in Nat /\ x >= t * l
      BY <3>1
    <3>3. v[m + 2] = 256 * x + y /\ y \in 0..255
      BY <1>2, <1>3, <3>1
    <3>4. Place[m + 1] = 256 * l /\ l \in Nat
      BY <3>1, PlaceDef, PlaceType
    <3> HIDE DEF x, y, l
    <3>5. t * (256 * l) = 256 * (t * l) /\ t * l \in Nat
      BY <1>1, <3>4
    <3>6. 256 * x + y \in Nat /\ 256 * x + y >= 256 * (t * l)
      BY <3>2, <3>3, <3>5
    <3> QED BY <3>3, <3>4, <3>5, <3>6
  <2>3. T \in SUBSET Nat
    OBVIOUS
  <2> HIDE DEF T
  <2> QED BY <2>1, <2>2, <2>3, SetInduction
<1>5. v[n] \in Nat /\ v[n] >= t * p
  <2>1. n - 1 \in Nat /\ (n - 1) + 1 = n
    BY <1>1
  <2>2. n - 1 \in T
    BY <1>4, <2>1, Zenon
  <2> QED BY <1>1, <2>1, <2>2
<1>6. Value(b) \in Nat /\ Value(b) < U32
  BY ValueType, WordSize DEF Word
<1> DEFINE x == Value(b)
           s == Standard \div p
           r == Standard % p
<1>7. s \in Nat /\ r \in 0..(p - 1) /\ Standard = p * s + r
  <2>1. \A y \in Nat : \A z \in Nat \ {0} :
          y \div z \in Nat /\ y % z \in 0..(z - 1) /\ y = z * (y \div z) + (y % z)
    OBVIOUS
  <2> HIDE DEF p
  <2> QED BY <1>1, <2>1, Zenon DEF s, r
<1>8. x >= t * p
  BY <1>2, <1>5
<1> HIDE DEF x, p, s, r, t
<1>9. s + 1 <= t
  BY <1>1, <1>7 DEF s
<1>10. t * p >= (s + 1) * p /\ (s + 1) * p = p * s + p
  BY <1>1, <1>7, <1>9
<1>11. x > Standard
  <2>1. p * s \in Nat /\ t * p \in Nat /\ x \in Nat
    BY <1>1, <1>6, <1>7 DEF x
  <2> QED BY <1>1, <1>7, <1>8, <1>10, <2>1
<1>12. x \in Nat /\ x < U32
  BY <1>6 DEF x
<1>13. (Standard - x) % U32 = Standard - x + U32
  BY <1>1, <1>11, <1>12, Wrapped, SMTT(30)
<1>14. Standard - x + U32 >= Standard
  BY <1>1, <1>12
<1>15. \A y \in Nat : \A z \in Nat \ {0} : y >= z => y \div z # 0
  OBVIOUS
<1>16. ((Standard - x) % U32) \div Standard # 0
  BY <1>1, <1>12, <1>13, <1>14, <1>15
<1> QED BY <1>16 DEF Precise, x

-----------------------------------------------------------------------------
(***************************************************************************)
(* The parser and the answers.                                             *)
(***************************************************************************)
\* The lower half of a header is the kind of the command, so no header is FE.
LEMMA HeaderKind ==
  ASSUME NEW reg \in RegAddr, NEW rac \in {RacWrite, RacRead}
  PROVE  Header(reg, rac) \in Byte /\ Header(reg, rac) % 16 = rac /\ Header(reg, rac) # FE
<1>1. reg \div 256 \in 0..15
  BY DEF RegAddr
<1>2. \A x \in 0..15 : \A y \in 1..2 :
        (x * 16 + y) % 16 = y /\ x * 16 + y \in 0..255 /\ x * 16 + y # 254
  OBVIOUS
<1>3. rac \in 1..2
  BY DEF RacWrite, RacRead
<1> QED BY <1>1, <1>2, <1>3 DEF Header, Byte, FE

\* A sequence with its last element.
LEMMA FramedAt ==
  ASSUME NEW b \in Seq(Byte)
  PROVE  /\ Framed(b) \in Seq(Byte) /\ Len(Framed(b)) = Len(b) + 1
         /\ \A i \in 1..Len(b) : Framed(b)[i] = b[i]
         /\ Framed(b)[Len(b) + 1] = Check(b)
         /\ SubSeq(Framed(b), 1, Len(b)) = b
<1> DEFINE f == Framed(b)
           n == Len(b)
           t == SubSeq(f, 1, n)
<1>1. Check(b) \in Byte /\ n \in Nat
  BY CheckType, LenProperties
<1>2. /\ f \in Seq(Byte) /\ Len(f) = n + 1 /\ f[n + 1] = Check(b)
      /\ \A i \in 1..n : f[i] = b[i]
  BY <1>1, AppendProperties DEF Framed
<1> HIDE DEF f
<1>3. \A i \in 1..n : f[i] \in Byte
  BY <1>1, <1>2, ElementOfSeq
<1>4. /\ t \in Seq(Byte)
      /\ Len(t) = IF 1 <= n THEN n - 1 + 1 ELSE 0
      /\ \A i \in 1..(n - 1 + 1) : t[i] = f[1 + i - 1]
  BY <1>1, <1>3, SubSeqProperties
<1> HIDE DEF t
<1>5. Len(t) = Len(b)
  BY <1>1, <1>4
<1>6. \A i \in 1..Len(t) : t[i] = b[i]
  <2> TAKE i \in 1..Len(t)
  <2>1. i \in 1..n /\ i \in 1..(n - 1 + 1) /\ 1 + i - 1 = i
    BY <1>1, <1>5
  <2> QED BY <1>2, <1>4, <2>1
<1>7. t = b
  BY <1>4, <1>5, <1>6, SeqEqual
<1> QED BY <1>2, <1>7 DEF f, t, n

\* The answer to a write command.
LEMMA WriteAnswerShape ==
  ASSUME NEW c \in Commands, NEW w \in Word, c.k = "write"
  PROVE  LET f == Answer(c, w)
         IN  /\ f \in Seq(Byte) /\ Len(f) = 4 /\ f[1] = FE
             /\ f[2] % 16 = RacWrite /\ f[2] \in Byte /\ f[2] # FE
<1> DEFINE b == <<FE, Header(c.reg, RacWrite), c.reg % 256>>
<1>1. c.reg \in RegAddr
  BY RegistersType DEF Commands
<1>2. FE \in Byte /\ c.reg % 256 \in Byte
  <2>1. \A r \in RegAddr : r % 256 \in 0..255
    BY DEF RegAddr
  <2>2. FE \in 0..255
    BY DEF FE
  <2> QED BY <1>1, <2>1, <2>2 DEF Byte
<1>3. b \in Seq(Byte) /\ Len(b) = 3 /\ b[1] = FE /\ b[2] = Header(c.reg, RacWrite)
  BY <1>1, <1>2, HeaderKind
<1>4. Answer(c, w) = Framed(b)
  BY DEF Answer
<1> HIDE DEF b
<1>5. 1 \in 1..Len(b) /\ 2 \in 1..Len(b) /\ Len(b) + 1 = 4
  BY <1>3
<1>6. /\ Framed(b) \in Seq(Byte) /\ Len(Framed(b)) = 4 /\ Framed(b)[1] = FE
      /\ Framed(b)[2] = Header(c.reg, RacWrite)
  BY <1>3, <1>5, FramedAt
<1> QED BY <1>1, <1>4, <1>6, HeaderKind

\* The answer to a read command.
LEMMA ReadAnswerShape ==
  ASSUME NEW c \in Commands, NEW w \in Word, c.k = "read"
  PROVE  LET f == Answer(c, w)
         IN  /\ f \in Seq(Byte) /\ Len(f) = FrameLen /\ f[1] = FE
             /\ f[2] % 16 = RacRead /\ f[2] \in Byte /\ f[2] # FE /\ f[3] = 1
             /\ f[FrameLen] = Check(SubSeq(f, 1, FrameLen - 1))
             /\ \A i \in 1..WORD_BYTES : f[i + 3] = Bytes(w)[i]
<1> DEFINE h == <<FE, Header(c.reg, RacRead), 1>>
           d == Bytes(w)
           b == h \o d
           f == Framed(b)
<1>1. c.reg \in RegAddr
  BY RegistersType DEF Commands
<1>2. FE \in Byte /\ 1 \in Byte
  BY DEF FE, Byte
<1>3. h \in Seq(Byte) /\ Len(h) = 3 /\ h[1] = FE /\ h[2] = Header(c.reg, RacRead) /\ h[3] = 1
  BY <1>1, <1>2, HeaderKind
<1>4. d \in Seq(Byte) /\ Len(d) = WORD_BYTES /\ WORD_BYTES \in Nat
  BY BytesType, WordSize
<1>5. Answer(c, w) = f
  BY DEF Answer
<1> HIDE DEF h, d
<1>6. /\ b \in Seq(Byte) /\ Len(b) = Len(h) + Len(d)
      /\ \A i \in 1..(Len(h) + Len(d)) : b[i] = IF i <= Len(h) THEN h[i] ELSE d[i - Len(h)]
  BY <1>3, <1>4, ConcatProperties
<1> HIDE DEF b
<1>7. /\ f \in Seq(Byte) /\ Len(f) = Len(b) + 1 /\ \A i \in 1..Len(b) : f[i] = b[i]
      /\ f[Len(b) + 1] = Check(b) /\ SubSeq(f, 1, Len(b)) = b
  BY <1>6, FramedAt
<1> HIDE DEF f
<1>8. Len(b) = FrameLen - 1 /\ Len(b) + 1 = FrameLen /\ Len(b) = WORD_BYTES + 3
  BY <1>3, <1>4, <1>6 DEF FrameLen
<1>9. \A i \in 1..3 : f[i] = h[i]
  <2> TAKE i \in 1..3
  <2>1. i \in 1..Len(b) /\ i \in 1..(Len(h) + Len(d)) /\ i <= Len(h)
    BY <1>3, <1>4, <1>8
  <2> QED BY <1>6, <1>7, <2>1
<1>10. \A i \in 1..WORD_BYTES : f[i + 3] = d[i]
  <2> TAKE i \in 1..WORD_BYTES
  <2>1. /\ i + 3 \in 1..Len(b) /\ i + 3 \in 1..(Len(h) + Len(d)) /\ ~(i + 3 <= Len(h))
        /\ (i + 3) - Len(h) = i
    BY <1>3, <1>4, <1>8
  <2> QED BY <1>6, <1>7, <2>1
<1>11. f[1] = FE /\ f[2] = Header(c.reg, RacRead) /\ f[3] = 1
  BY <1>3, <1>9
<1>12. f[FrameLen] = Check(SubSeq(f, 1, FrameLen - 1))
  BY <1>7, <1>8
<1>13. f \in Seq(Byte) /\ Len(f) = FrameLen
  BY <1>7, <1>8
<1> QED BY <1>1, <1>5, <1>10, <1>11, <1>12, <1>13, HeaderKind DEF d

\* What is left of a sequence after all or the first of its elements.
LEMMA RestAll == ASSUME NEW S, NEW s \in Seq(S), NEW n, n = Len(s) PROVE Rest(s, n) = <<>>
<1>1. n \in Nat /\ n + 1 \in Int /\ Len(s) < n + 1
  BY LenProperties
<1> QED BY <1>1, SubSeqEmpty DEF Rest

\* The first element off.
LEMMA RestOne ==
  ASSUME NEW S, NEW s \in Seq(S), s # <<>>
  PROVE  Rest(s, 1) = Tail(s)
BY TailIsSubSeq DEF Rest

\* The elements of a tail.
LEMMA TailAt ==
  ASSUME NEW S, NEW s \in Seq(S), NEW n \in Nat \ {0}, Len(s) = n
  PROVE  /\ s # <<>> /\ Tail(s) \in Seq(S) /\ Len(Tail(s)) = n - 1
         /\ \A i \in 1..(n - 1) : Tail(s)[i] = s[i + 1]
<1>1. s # <<>>
  BY EmptySeq
<1>2. Tail(s) \in Seq(S) /\ Len(Tail(s)) = n - 1
      /\ \A i \in 1..Len(Tail(s)) : Tail(s)[i] = s[i + 1]
  BY <1>1, HeadTailProperties
<1> QED BY <1>1, <1>2

\* The parser after an answer.
Parse(b) == [ring |-> <<>>, rx_len |-> 0, back |-> b]

\* The rest of an answer to a write command leaves nothing.
LEMMA AnsweredWrite ==
  ASSUME NEW c \in Commands, NEW w \in Word, c.k = "write", NEW b
  PROVE  Answered(Tail(Answer(c, w)), b) = Parse(b)
<1> DEFINE f == Answer(c, w)
           s == Tail(f)
           t == Tail(s)
<1>1. f \in Seq(Byte) /\ Len(f) = 4 /\ f[2] % 16 = RacWrite
  BY WriteAnswerShape
<1> HIDE DEF f
<1>2. s \in Seq(Byte) /\ Len(s) = 3 /\ s[1] = f[2] /\ s # <<>>
  <2> DEFINE n == 4
  <2>1. n \in Nat \ {0} /\ Len(f) = n /\ n - 1 = 3 /\ 1 \in 1..(n - 1) /\ 1 + 1 = 2
    BY <1>1
  <2> HIDE DEF n
  <2>2. Tail(f) \in Seq(Byte) /\ Len(Tail(f)) = n - 1 /\ \A i \in 1..(n - 1) : Tail(f)[i] = f[i + 1]
    BY <1>1, <2>1, TailAt
  <2>3. s \in Seq(Byte) /\ Len(s) = 3 /\ Len(s) # 0
    BY <2>1, <2>2
  <2>4. s[1] = f[2]
    BY <2>1, <2>2, Zenon
  <2> HIDE DEF s
  <2> QED BY <2>3, <2>4, EmptySeq
<1> HIDE DEF s
<1>3. t \in Seq(Byte) /\ Len(t) = 2
  <2>1. Tail(s) \in Seq(Byte) /\ Len(Tail(s)) = 3 - 1
    BY <1>2, TailAt
  <2> QED BY <2>1
<1> HIDE DEF t
<1>4. AfterRead(t, 2) = <<>>
  <2>1. Readable(t, 2)
    BY <1>3 DEF Readable
  <2>2. Rest(t, 2) = <<>>
    BY <1>3, RestAll
  <2> QED BY <2>1, <2>2 DEF AfterRead
<1>5. Answered(s, b) = [ring |-> AfterRead(Tail(s), 2), rx_len |-> 0, back |-> b]
  <2>1. RacRead # RacWrite
    BY DEF RacRead, RacWrite
  <2> QED BY <1>1, <1>2, <2>1 DEF Answered
<1> QED BY <1>4, <1>5 DEF Parse, t, s, f

\* The rest of an answer to a read command goes to ReadRegBackBuf.
LEMMA AnsweredRead ==
  ASSUME NEW c \in Commands, NEW w \in Word, c.k = "read", NEW b
  PROVE  Answered(Tail(Answer(c, w)), b) = Parse(Answer(c, w))
<1> DEFINE f == Answer(c, w)
           s == Tail(f)
           t == Tail(s)
           k == WORD_BYTES + 2
<1>1. /\ f \in Seq(Byte) /\ Len(f) = FrameLen /\ f[1] = FE
      /\ f[2] % 16 = RacRead /\ f[2] \in Byte /\ f[3] = 1
      /\ f[FrameLen] = Check(SubSeq(f, 1, FrameLen - 1))
  BY ReadAnswerShape
<1>2. FrameLen \in Nat /\ FrameLen >= 5 /\ k \in Nat /\ k = FrameLen - 2 /\ 2 <= k
      /\ WORD_BYTES \in Nat
  BY Sizes, WordSize DEF FrameLen
<1> HIDE DEF f, k
<1>3. /\ s \in Seq(Byte) /\ Len(s) = FrameLen - 1 /\ s # <<>>
      /\ \A i \in 1..(FrameLen - 1) : s[i] = f[i + 1]
  <2>1. Tail(f) \in Seq(Byte) /\ Len(Tail(f)) = FrameLen - 1
        /\ \A i \in 1..(FrameLen - 1) : Tail(f)[i] = f[i + 1]
    BY <1>1, <1>2, TailAt
  <2>2. Len(s) # 0
    BY <1>2, <2>1
  <2> QED BY <2>1, <2>2, EmptySeq
<1> HIDE DEF s
<1>4. /\ t \in Seq(Byte) /\ Len(t) = k /\ t # <<>>
      /\ \A i \in 1..k : t[i] = s[i + 1]
  <2> DEFINE m == FrameLen - 1
  <2>1. m \in Nat \ {0} /\ Len(s) = m /\ m - 1 = k
    BY <1>2, <1>3
  <2> HIDE DEF m
  <2>2. Tail(s) \in Seq(Byte) /\ Len(Tail(s)) = m - 1 /\ \A i \in 1..(m - 1) : Tail(s)[i] = s[i + 1]
    BY <1>3, <2>1, TailAt
  <2>3. Len(t) # 0
    BY <1>2, <2>1, <2>2
  <2> QED BY <2>1, <2>2, <2>3, EmptySeq
<1> HIDE DEF t
<1>5. \A i \in 1..k : t[i] = f[i + 2]
  <2> TAKE i \in 1..k
  <2>1. i + 1 \in 1..(FrameLen - 1) /\ (i + 1) + 1 = i + 2
    BY <1>2
  <2> QED BY <1>3, <1>4, <2>1
<1>6. t[1] = 1 /\ t[k] = f[FrameLen]
  <2>1. 1 \in 1..k /\ k \in 1..k /\ 1 + 2 = 3 /\ k + 2 = FrameLen
    BY <1>2
  <2> QED BY <1>1, <1>5, <2>1
<1>7. s[1] = f[2]
  <2>1. 1 \in 1..(FrameLen - 1) /\ 1 + 1 = 2
    BY <1>2
  <2> QED BY <1>3, <2>1
<1> DEFINE g == <<FE, f[2]>> \o SubSeq(t, 1, k)
<1>8. g = f
  <2> DEFINE h == <<FE, f[2]>>
  <2>1. SubSeq(t, 1, k) = t
    BY <1>4, SubSeqFull
  <2>2. h \in Seq(Byte) /\ Len(h) = 2 /\ h[1] = FE /\ h[2] = f[2]
    BY <1>1 DEF FE, Byte
  <2> HIDE DEF h
  <2>3. /\ h \o t \in Seq(Byte) /\ Len(h \o t) = Len(h) + Len(t)
        /\ \A i \in 1..(Len(h) + Len(t)) : (h \o t)[i] = IF i <= Len(h) THEN h[i] ELSE t[i - Len(h)]
    BY <1>4, <2>2, ConcatProperties
  <2> DEFINE x == h \o t
  <2>4. x \in Seq(Byte) /\ Len(x) = FrameLen
    BY <1>2, <1>4, <2>2, <2>3
  <2>5. \A i \in 1..FrameLen : x[i] = IF i <= 2 THEN h[i] ELSE t[i - 2]
    BY <1>2, <1>4, <2>2, <2>3
  <2> HIDE DEF x
  <2>6. \A i \in 1..FrameLen : x[i] = f[i]
    <3> TAKE i \in 1..FrameLen
    <3>1. CASE i = 1
      BY <1>1, <2>2, <2>5, <3>1
    <3>2. CASE i = 2
      BY <1>1, <2>2, <2>5, <3>2
    <3>3. CASE ~(i <= 2)
      <4>1. i - 2 \in 1..k /\ (i - 2) + 2 = i
        BY <1>2, <3>3
      <4> QED BY <1>5, <2>5, <3>3, <4>1
    <3> QED BY <3>1, <3>2, <3>3
  <2>7. x = f
    BY <1>1, <2>4, <2>6, SeqEqual
  <2> QED BY <2>1, <2>7 DEF x, h
<1>9. Padded(f) = f
  <2>1. k + 2 = FrameLen /\ k <= Len(t)
    BY <1>2, <1>4
  <2>2. Padded(g) = g
    BY <1>1, <1>2, <1>4, <2>1, WholeFrame
  <2> QED BY <1>8, <2>2
<1> DEFINE a == WORD_BYTES * t[1] + 1
           e == WORD_BYTES * t[1] + 2
           n == WORD_BYTES * t[1] + 3
<1>10. a = k - 1 /\ e = k /\ n = FrameLen - 1 /\ a \in Nat /\ ~(t[1] > 1)
  <2>1. WORD_BYTES * 1 = WORD_BYTES
    BY <1>2
  <2> QED BY <1>2, <1>6, <2>1 DEF k, FrameLen
<1> HIDE DEF a, e, n
<1>11. Readable(Tail(t), a)
  <2>1. Len(Tail(t)) = k - 1
    BY <1>2, <1>4, TailAt
  <2> QED BY <1>2, <1>10, <2>1 DEF Readable
<1>12. Rest(t, e) = <<>>
  BY <1>4, <1>10, RestAll
<1>13. Saved(<<FE, f[2]>> \o SubSeq(t, 1, e), n, t[e], b) = f
  <2>1. t[e] = Check(SubSeq(f, 1, n))
    BY <1>1, <1>6, <1>10
  <2>2. <<FE, f[2]>> \o SubSeq(t, 1, e) = f
    BY <1>8, <1>10
  <2> QED BY <1>9, <2>1, <2>2 DEF Saved
<1>14. ReadAnswer(t, f[2], b) =
         [ring |-> Rest(t, e), rx_len |-> 0,
          back |-> Saved(<<FE, f[2]>> \o SubSeq(t, 1, e), n, t[e], b)]
  BY <1>4, <1>10, <1>11 DEF ReadAnswer, a, e, n
<1>15. Answered(s, b) = ReadAnswer(t, f[2], b)
  <2>1. RacRead # RacWrite
    BY DEF RacRead, RacWrite
  <2> QED BY <1>1, <1>3, <1>7, <2>1 DEF Answered, t
<1> QED BY <1>12, <1>13, <1>14, <1>15 DEF Parse, s, f

\* ReadRegBackBuf after an answer.
After(c, w, b) == IF c.k = "write" THEN b ELSE Answer(c, w)

\* An answer, in one piece or after its first byte, is taken as a whole, and an
\* interrupt without bytes changes nothing.
LEMMA ParserFollows ==
  ASSUME NEW c \in Commands, NEW w \in Word, NEW b
  PROVE  /\ Uart1RxHandle(Answer(c, w), 0, b) = Parse(After(c, w, b))
         /\ Uart1RxHandle(Rest(Answer(c, w), 1), 1, b) = Parse(After(c, w, b))
<1> DEFINE f == Answer(c, w)
<1>1. f \in Seq(Byte) /\ f[1] = FE /\ f # <<>>
  <2>1. c.k = "write" \/ c.k = "read"
    BY DEF Commands
  <2>2. f \in Seq(Byte) /\ f[1] = FE /\ Len(f) # 0
    <3>1. FrameLen # 0 /\ 4 # 0
      BY Sizes
    <3> QED BY <2>1, <3>1, WriteAnswerShape, ReadAnswerShape
  <2> HIDE DEF f
  <2> QED BY <2>2, EmptySeq
<1>2. Answered(Tail(f), b) = Parse(After(c, w, b))
  <2>1. CASE c.k = "write"
    BY <2>1, AnsweredWrite DEF After
  <2>2. CASE c.k = "read"
    BY <2>2, AnsweredRead DEF After
  <2> QED BY <2>1, <2>2 DEF Commands
<1> HIDE DEF f
<1>3. Rest(f, 1) = Tail(f)
  BY <1>1, RestOne
<1>4. Uart1RxHandle(f, 0, b) = Answered(Tail(f), b)
  BY <1>1 DEF Uart1RxHandle
<1>5. Uart1RxHandle(Tail(f), 1, b) = Answered(Tail(f), b)
  BY DEF Uart1RxHandle
<1> QED BY <1>2, <1>3, <1>4, <1>5 DEF f

\* The first byte alone, and no byte at all.
LEMMA ParserWaits ==
  ASSUME NEW b
  PROVE  /\ Uart1RxHandle(<<FE>>, 0, b) = [ring |-> <<>>, rx_len |-> 1, back |-> b]
         /\ Uart1RxHandle(<<>>, 0, b) = Parse(b)
<1>1. Uart1RxHandle(<<FE>>, 0, b) = Answered(Tail(<<FE>>), b)
  BY DEF Uart1RxHandle
<1>2. Tail(<<FE>>) = <<>>
  BY DEF FE
<1>3. Answered(<<>>, b) = [ring |-> <<>>, rx_len |-> 1, back |-> b]
  BY DEF Answered
<1>4. Uart1RxHandle(<<>>, 0, b) = [ring |-> AfterRead(<<>>, 1), rx_len |-> 0, back |-> b]
  BY DEF Uart1RxHandle
<1>5. AfterRead(<<>>, 1) = <<>>
  BY DEF AfterRead, Readable
<1> QED BY <1>1, <1>2, <1>3, <1>4, <1>5 DEF Parse

\* The answer to a read command holds the word.
LEMMA AnswerHolds ==
  ASSUME NEW c \in Commands, NEW w \in Word, c.k = "read"
  PROVE  Holds(Answer(c, w), w)
<1> DEFINE f == Answer(c, w)
           d == Bytes(w)
           n == 3 + WORD_BYTES
           s == SubSeq(f, 4, n)
<1>1. f \in Seq(Byte) /\ Len(f) = FrameLen /\ \A i \in 1..WORD_BYTES : f[i + 3] = d[i]
  BY ReadAnswerShape
<1>2. WORD_BYTES \in Nat \ {0} /\ n \in Nat /\ FrameLen = n + 1 /\ n - 4 + 1 = WORD_BYTES
      /\ 4 <= n
  BY WordSize DEF FrameLen
<1>3. d \in Seq(Byte) /\ Len(d) = WORD_BYTES
  BY BytesType
<1> HIDE DEF f, d, n
<1>4. 4 \in Int /\ n \in Int /\ \A i \in 4..n : f[i] \in Byte
  <2>1. \A i \in 4..n : i \in 1..Len(f)
    BY <1>1, <1>2
  <2> QED BY <1>1, <1>2, <2>1, ElementOfSeq
<1>5. /\ s \in Seq(Byte) /\ Len(s) = IF 4 <= n THEN n - 4 + 1 ELSE 0
      /\ \A i \in 1..(n - 4 + 1) : s[i] = f[4 + i - 1]
  BY <1>4, SubSeqProperties
<1> HIDE DEF s
<1>6. Len(s) = Len(d)
  BY <1>2, <1>3, <1>5
<1>7. \A i \in 1..Len(s) : s[i] = d[i]
  <2> TAKE i \in 1..Len(s)
  <2>1. i \in 1..WORD_BYTES /\ i \in 1..(n - 4 + 1) /\ 4 + i - 1 = i + 3
    BY <1>2, <1>3, <1>6
  <2> QED BY <1>1, <1>5, <2>1
<1>8. s = d
  BY <1>3, <1>5, <1>6, <1>7, SeqEqual
<1> QED BY <1>8 DEF Holds, s, f, d, n

\* The bytes of the word ReadRegBackBuf holds.
LEMMA HoldsAt ==
  ASSUME NEW b \in [1..FrameLen -> Byte], NEW w \in Word, Holds(b, w)
  PROVE  \A i \in 1..WORD_BYTES : b[i + 3] = Bytes(w)[i]
<1> DEFINE n == 3 + WORD_BYTES
           s == SubSeq(b, 4, n)
<1>1. WORD_BYTES \in Nat \ {0} /\ n \in Nat /\ FrameLen = n + 1 /\ n - 4 + 1 = WORD_BYTES
  BY WordSize DEF FrameLen
<1>2. s = Bytes(w)
  BY DEF Holds
<1> HIDE DEF n
<1>3. 4 \in Int /\ n \in Int /\ \A i \in 4..n : b[i] \in Byte
  BY <1>1
<1>4. \A i \in 1..(n - 4 + 1) : s[i] = b[4 + i - 1]
  BY <1>3, SubSeqProperties
<1> HIDE DEF s
<1> TAKE i \in 1..WORD_BYTES
<1>5. i \in 1..(n - 4 + 1) /\ 4 + i - 1 = i + 3
  BY <1>1
<1> QED BY <1>2, <1>4, <1>5

-----------------------------------------------------------------------------
(***************************************************************************)
(* The line.                                                               *)
(***************************************************************************)
\* What all answers have in common.
LEMMA AnswerFacts ==
  ASSUME NEW f, IsAnswer(f)
  PROVE  /\ f \in Seq(Byte) /\ Len(f) \in Nat /\ Len(f) >= 4 /\ Len(f) <= FrameLen
         /\ f[1] = FE /\ f # <<>> /\ Rest(f, 1) = Tail(f)
         /\ Tail(f) \in Seq(Byte) /\ Tail(f)[1] # FE
<1>1. PICK c \in Commands, w \in Word : f = Answer(c, w)
  BY DEF IsAnswer
<1>2. c.k = "write" \/ c.k = "read"
  BY DEF Commands
<1>3. FrameLen \in Nat /\ FrameLen >= 4 /\ 4 \in Nat /\ 4 >= 4
  BY Sizes
<1>4. f \in Seq(Byte) /\ Len(f) \in {4, FrameLen} /\ f[1] = FE /\ f[2] # FE
  BY <1>1, <1>2, WriteAnswerShape, ReadAnswerShape
<1>5. Len(f) \in Nat /\ Len(f) >= 4 /\ Len(f) <= FrameLen
  <2>1. \A x \in {4, FrameLen} : x \in Nat /\ x >= 4 /\ x <= FrameLen
    BY <1>3
  <2> QED BY <1>4, <2>1, Zenon
<1> DEFINE n == Len(f)
<1>6. n \in Nat \ {0} /\ 1 \in 1..(n - 1) /\ 1 + 1 = 2
  BY <1>5
<1>7. f # <<>> /\ Tail(f) \in Seq(Byte) /\ \A i \in 1..(n - 1) : Tail(f)[i] = f[i + 1]
  <2> HIDE DEF n
  <2>1. Len(f) = n
    BY DEF n
  <2> QED BY <1>4, <1>6, <2>1, TailAt
<1>8. Tail(f)[1] = f[2]
  BY <1>6, <1>7, Zenon
<1>9. Rest(f, 1) = Tail(f)
  BY <1>4, <1>7, RestOne
<1> QED BY <1>4, <1>5, <1>7, <1>8, <1>9

\* The three kinds of chunks differ.
LEMMA KindsDiffer ==
  ASSUME NEW ch
  PROVE  /\ Full(ch) => ~FirstByte(ch) /\ ~OtherBytes(ch)
         /\ FirstByte(ch) => ~OtherBytes(ch)
<1>1. Full(ch) => ch.bytes[1] = FE /\ Len(ch.bytes) >= 4
  BY AnswerFacts DEF Full
<1>2. FirstByte(ch) => ch.bytes = <<FE>>
  BY DEF FirstByte
<1>3. <<FE>>[1] = FE /\ Len(<<FE>>) = 1 /\ ~(1 >= 4)
  OBVIOUS
<1>4. OtherBytes(ch) => ch.bytes[1] # FE
  <2> SUFFICES ASSUME OtherBytes(ch) PROVE ch.bytes[1] # FE
    OBVIOUS
  <2>1. PICK f \in Seq(Byte) : IsAnswer(f) /\ ch.bytes = Rest(f, 1)
    BY DEF OtherBytes
  <2> QED BY <2>1, AnswerFacts
<1> QED BY <1>1, <1>2, <1>3, <1>4

\* What is appended to the line.
LEMMA FeedsConcat ==
  ASSUME NEW l \in Seq(Chunks), NEW m \in Seq(Chunks), NEW n, Feeds(n, l), Feeds(0, m)
  PROVE  Feeds(n, l \o m)
<1> DEFINE a == Len(l)
           b == Len(m)
           s == l \o m
<1>1. a \in Nat /\ b \in Nat
  BY LenProperties
<1>2. /\ s \in Seq(Chunks) /\ Len(s) = a + b
      /\ \A i \in 1..(a + b) : s[i] = IF i <= a THEN l[i] ELSE m[i - a]
  BY ConcatProperties
<1>3. (l = <<>> <=> a = 0) /\ (m = <<>> <=> b = 0) /\ (s = <<>> <=> a + b = 0)
  BY <1>2, EmptySeq
<1> HIDE DEF s
<1>4. \A i \in 1..a : i \in 1..(a + b) /\ s[i] = l[i]
  BY <1>1, <1>2
<1>5. \A j \in 1..b : j + a \in 1..(a + b) /\ s[j + a] = m[j]
  <2> TAKE j \in 1..b
  <2>1. j + a \in 1..(a + b) /\ ~(j + a <= a) /\ (j + a) - a = j
    BY <1>1
  <2> QED BY <1>2, <2>1
<1>6. b # 0 => ~OtherBytes(m[1])
  BY <1>3 DEF Feeds
<1>7. n = 1 <=> (s # <<>> /\ OtherBytes(s[1]))
  <2>1. CASE a # 0
    <3>1. 1 \in 1..a /\ a + b # 0
      BY <1>1, <2>1
    <3>2. s[1] = l[1] /\ s # <<>> /\ l # <<>>
      BY <1>3, <1>4, <2>1, <3>1
    <3> QED BY <3>2 DEF Feeds
  <2>2. CASE a = 0
    <3>1. n # 1
      BY <1>3, <2>2 DEF Feeds
    <3>2. s # <<>> => ~OtherBytes(s[1])
      <4> SUFFICES ASSUME s # <<>> PROVE ~OtherBytes(s[1])
        OBVIOUS
      <4>1. b # 0 /\ 1 \in 1..b /\ 1 + a = 1
        BY <1>1, <1>3, <2>2
      <4>2. s[1] = m[1]
        BY <1>5, <4>1
      <4> QED BY <1>6, <4>1, <4>2
    <3> QED BY <3>1, <3>2
  <2> QED BY <2>1, <2>2
<1>8. ASSUME NEW i \in 1..Len(s)
      PROVE  \/ Full(s[i])
             \/ FirstByte(s[i]) /\ i < Len(s) /\ OtherBytes(s[i + 1])
             \/ OtherBytes(s[i]) /\ (i = 1 \/ FirstByte(s[i - 1]))
  <2>1. CASE i <= a
    <3>1. i \in 1..a /\ s[i] = l[i]
      BY <1>1, <1>4, <2>1
    <3>2. \/ Full(l[i])
          \/ FirstByte(l[i]) /\ i < a /\ OtherBytes(l[i + 1])
          \/ OtherBytes(l[i]) /\ (i = 1 \/ FirstByte(l[i - 1]))
      BY <3>1 DEF Feeds
    <3>3. i < a => i + 1 \in 1..a /\ i < Len(s)
      BY <1>1, <1>2, <3>1
    <3>4. i # 1 => i - 1 \in 1..a
      BY <1>1, <3>1
    <3> QED BY <1>4, <3>1, <3>2, <3>3, <3>4
  <2>2. CASE ~(i <= a)
    <3> DEFINE j == i - a
    <3>1. j \in 1..b /\ j + a = i
      BY <1>1, <1>2, <2>2
    <3> HIDE DEF j
    <3>2. s[i] = m[j]
      BY <1>5, <3>1
    <3>3. \/ Full(m[j])
          \/ FirstByte(m[j]) /\ j < b /\ OtherBytes(m[j + 1])
          \/ OtherBytes(m[j]) /\ (j = 1 \/ FirstByte(m[j - 1]))
      BY <3>1 DEF Feeds
    <3>4. j < b => j + 1 \in 1..b /\ (j + 1) + a = i + 1 /\ i < Len(s)
      <4> HIDE DEF a, b
      <4>1. \A x \in Nat : \A y \in Nat : \A z \in 1..y :
              z < y => z + 1 \in 1..y /\ (z + 1) + x = (z + x) + 1 /\ z + x < x + y
        OBVIOUS
      <4> QED BY <1>1, <1>2, <3>1, <4>1
    <3>5. j # 1 => j - 1 \in 1..b /\ (j - 1) + a = i - 1
      BY <1>1, <3>1
    <3>6. j = 1 => ~OtherBytes(m[j])
      <4>1. b # 0
        BY <1>1, <3>1
      <4> QED BY <1>6, <4>1
    <3>7. j < b => s[i + 1] = m[j + 1]
      BY <1>5, <3>4
    <3>8. j # 1 => s[i - 1] = m[j - 1]
      BY <1>5, <3>5
    <3> QED BY <3>2, <3>3, <3>4, <3>6, <3>7, <3>8
  <2> QED BY <2>1, <2>2
<1>9. Feeds(n, s)
  BY <1>7, <1>8 DEF Feeds
<1> QED BY <1>9 DEF s

\* The answers as they come: whole, cut after the first byte, or with an error.
LEMMA AnswerChunks ==
  ASSUME NEW f, IsAnswer(f)
  PROVE  /\ Whole(f) = <<[bytes |-> f, err |-> FALSE]>>
         /\ Cut(f, 1, FALSE) = <<[bytes |-> <<FE>>, err |-> FALSE],
                                 [bytes |-> Rest(f, 1), err |-> FALSE]>>
         /\ Cut(f, Len(f), TRUE) = <<[bytes |-> f, err |-> TRUE]>>
<1> DEFINE n == Len(f)
           A == [bytes |-> f, err |-> FALSE]
           B == [bytes |-> f, err |-> TRUE]
           C == [bytes |-> <<FE>>, err |-> FALSE]
           D == [bytes |-> Rest(f, 1), err |-> FALSE]
<1>0. f \in Seq(Byte) /\ n \in Nat /\ n >= 4 /\ f[1] = FE
  BY AnswerFacts
<1>1. 1 < n /\ ~(n < n)
  BY <1>0
<1>2. SubSeq(f, 1, n) = f
  BY <1>0, SubSeqFull
<1>3. SubSeq(f, 1, 1) = <<FE>>
  <2>1. 1 \in 1..Len(f) /\ 1 \in Int /\ FE \in Byte
    BY <1>0 DEF FE, Byte
  <2>2. \A i \in 1..1 : f[i] \in Byte
    BY <1>0, <2>1
  <2>3. /\ SubSeq(f, 1, 1) \in Seq(Byte) /\ Len(SubSeq(f, 1, 1)) = 1
        /\ SubSeq(f, 1, 1)[1] = f[1]
    <3>1. /\ SubSeq(f, 1, 1) \in Seq(Byte)
          /\ Len(SubSeq(f, 1, 1)) = IF 1 <= 1 THEN 1 - 1 + 1 ELSE 0
          /\ \A i \in 1..(1 - 1 + 1) : SubSeq(f, 1, 1)[i] = f[1 + i - 1]
      BY <2>1, <2>2, SubSeqProperties
    <3>2. 1 \in 1..(1 - 1 + 1) /\ 1 + 1 - 1 = 1 /\ (IF 1 <= 1 THEN 1 - 1 + 1 ELSE 0) = 1
      OBVIOUS
    <3> QED BY <3>1, <3>2
  <2>4. <<FE>> \in Seq(Byte) /\ Len(<<FE>>) = 1 /\ <<FE>>[1] = FE
    BY <2>1
  <2>5. \A i \in 1..1 : i = 1
    OBVIOUS
  <2> QED BY <1>0, <2>3, <2>4, <2>5, SeqEqual
<1>4. <<C>> \o <<D>> = <<C, D>> /\ <<B>> \o <<>> = <<B>>
  <2> HIDE DEF B, C, D
  <2> DEFINE x == <<C>>
             y == <<D>>
             z == <<C, D>>
             S == {C, D}
  <2>1. /\ x \in Seq(S) /\ Len(x) = 1 /\ x[1] = C /\ y \in Seq(S) /\ Len(y) = 1 /\ y[1] = D
        /\ z \in Seq(S) /\ Len(z) = 2 /\ z[1] = C /\ z[2] = D
    OBVIOUS
  <2>2. <<B>> \o <<>> = <<B>>
    <3>1. <<B>> \in Seq({B})
      OBVIOUS
    <3> QED BY <3>1, ConcatEmptySeq
  <2> HIDE DEF x, y, z, S
  <2>3. /\ x \o y \in Seq(S) /\ Len(x \o y) = Len(x) + Len(y)
        /\ \A i \in 1..(Len(x) + Len(y)) :
              (x \o y)[i] = IF i <= Len(x) THEN x[i] ELSE y[i - Len(x)]
    BY <2>1, ConcatProperties
  <2>4. Len(x \o y) = Len(z) /\ (x \o y)[1] = z[1] /\ (x \o y)[2] = z[2]
    BY <2>1, <2>3
  <2>5. \A i \in 1..Len(z) : i = 1 \/ i = 2
    BY <2>1
  <2>6. x \o y = z
    BY <2>1, <2>3, <2>4, <2>5, SeqEqual
  <2> QED BY <2>2, <2>6 DEF x, y, z
<1>5. Whole(f) = <<A>> /\ Whole(Rest(f, 1)) = <<D>>
  BY DEF Whole
<1>6. Cut(f, 1, FALSE) = <<C>> \o <<D>>
  BY <1>1, <1>3, <1>5 DEF Cut
<1>7. Cut(f, n, TRUE) = <<B>> \o <<>>
  BY <1>1, <1>2 DEF Cut
<1> QED BY <1>4, <1>5, <1>6, <1>7

\* The parser can follow them.
LEMMA FeedsAnswer ==
  ASSUME NEW f, IsAnswer(f)
  PROVE  /\ Feeds(0, <<>>)
         /\ Feeds(0, Whole(f))
         /\ Feeds(0, Cut(f, 1, FALSE))
         /\ Feeds(0, Cut(f, Len(f), TRUE))
<1> DEFINE n == Len(f)
           A == [bytes |-> f, err |-> FALSE]
           B == [bytes |-> f, err |-> TRUE]
           C == [bytes |-> <<FE>>, err |-> FALSE]
           D == [bytes |-> Rest(f, 1), err |-> FALSE]
<1>1. f \in Seq(Byte) /\ n \in Nat /\ n >= 4 /\ f[1] = FE
  BY AnswerFacts
<1>2. Full(A) /\ Full(B) /\ FirstByte(C) /\ OtherBytes(D)
  BY <1>1 DEF Full, FirstByte, OtherBytes
<1>3. ~OtherBytes(A) /\ ~OtherBytes(B) /\ ~OtherBytes(C)
  BY <1>2, KindsDiffer
<1>4. Whole(f) = <<A>> /\ Cut(f, 1, FALSE) = <<C, D>> /\ Cut(f, n, TRUE) = <<B>>
  BY AnswerChunks
<1> HIDE DEF A, B, C, D
<1>5. ASSUME NEW x, Full(x), ~OtherBytes(x) PROVE Feeds(0, <<x>>)
  BY <1>5 DEF Feeds
<1>6. Feeds(0, <<C, D>>)
  BY <1>2, <1>3 DEF Feeds
<1>7. Feeds(0, <<>>)
  BY DEF Feeds
<1> QED BY <1>2, <1>3, <1>4, <1>5, <1>6, <1>7

\* An interrupt takes the next chunk: the parser can go on, and what it makes of
\* the last one.
LEMMA FeedsTail ==
  ASSUME NEW l \in Seq(Chunks), l # <<>>, NEW n, Feeds(n, l), NEW b
  PROVE  LET rx == Uart1RxHandle(IF l[1].err THEN <<>> ELSE l[1].bytes, n, b)
         IN  /\ rx.ring = <<>>
             /\ Feeds(rx.rx_len, Tail(l))
             /\ l[1].err => rx.back = b
             /\ \A c \in Commands : \A w \in Word :
                  Len(l) = 1 /\ LastIs(l, Answer(c, w)) => rx.back = After(c, w, b)
<1> DEFINE got == IF l[1].err THEN <<>> ELSE l[1].bytes
           rx == Uart1RxHandle(got, n, b)
           m == Len(l)
           t == Tail(l)
<1>1. /\ m \in Nat \ {0} /\ t \in Seq(Chunks) /\ Len(t) = m - 1
      /\ \A i \in 1..(m - 1) : t[i] = l[i + 1]
  <2>1. m \in Nat /\ m # 0
    BY EmptySeq, LenProperties
  <2>2. m \in Nat \ {0} /\ Len(l) = m
    BY <2>1
  <2> HIDE DEF m
  <2> QED BY <2>2, TailAt
<1>2. t = <<>> <=> m = 1
  BY <1>1, EmptySeq, SMTT(30)
<1>3. \A i \in 1..m :
         \/ Full(l[i])
         \/ FirstByte(l[i]) /\ i < m /\ OtherBytes(l[i + 1])
         \/ OtherBytes(l[i]) /\ (i = 1 \/ FirstByte(l[i - 1]))
  BY DEF Feeds
<1> HIDE DEF t, m
<1>4. ASSUME NEW k \in {0, 1}, k = 1 <=> (t # <<>> /\ OtherBytes(t[1]))
      PROVE  Feeds(k, t)
  <2>1. ASSUME NEW i \in 1..Len(t)
        PROVE  \/ Full(t[i])
               \/ FirstByte(t[i]) /\ i < Len(t) /\ OtherBytes(t[i + 1])
               \/ OtherBytes(t[i]) /\ (i = 1 \/ FirstByte(t[i - 1]))
    <3>1. i \in 1..(m - 1) /\ i + 1 \in 1..m /\ (i + 1) - 1 = i /\ i + 1 # 1
      BY <1>1
    <3>2. i + 1 < m => i < Len(t) /\ i + 1 \in 1..(m - 1)
      BY <1>1, <3>1
    <3>3. i # 1 => i - 1 \in 1..(m - 1) /\ (i - 1) + 1 = i
      BY <1>1, <3>1
    <3>4. t[i] = l[i + 1] /\ (i + 1 < m => t[i + 1] = l[(i + 1) + 1])
          /\ (i # 1 => t[i - 1] = l[i])
      BY <1>1, <3>1, <3>2, <3>3
    <3>5. \/ Full(l[i + 1])
          \/ FirstByte(l[i + 1]) /\ i + 1 < m /\ OtherBytes(l[(i + 1) + 1])
          \/ OtherBytes(l[i + 1]) /\ (i + 1 = 1 \/ FirstByte(l[(i + 1) - 1]))
      BY <1>3, <3>1
    <3> QED BY <3>1, <3>2, <3>4, <3>5
  <2> QED BY <1>4, <2>1 DEF Feeds
<1>5. 1 \in 1..m /\ (t # <<>> => 1 \in 1..(m - 1) /\ 1 + 1 = 2 /\ 2 \in 1..m /\ 2 - 1 = 1 /\ 2 # 1)
  BY <1>1, <1>2
<1>6. ASSUME ~FirstByte(l[1]) PROVE Feeds(0, t)
  <2>1. t # <<>> => ~OtherBytes(t[1])
    <3> SUFFICES ASSUME t # <<>> PROVE ~OtherBytes(t[1])
      OBVIOUS
    <3>1. t[1] = l[2]
      BY <1>1, <1>5
    <3>2. \/ Full(l[2]) \/ FirstByte(l[2]) \/ FirstByte(l[1])
      BY <1>3, <1>5
    <3> QED BY <1>6, <3>1, <3>2, KindsDiffer
  <2>2. 0 \in {0, 1} /\ 0 # 1
    OBVIOUS
  <2> QED BY <1>4, <2>1, <2>2
<1>7. n \in {0, 1} /\ (n = 1 <=> OtherBytes(l[1]))
  BY DEF Feeds
<1> DEFINE Goal == /\ rx.ring = <<>>
                   /\ Feeds(rx.rx_len, t)
                   /\ l[1].err => rx.back = b
                   /\ \A c \in Commands : \A w \in Word :
                        m = 1 /\ LastIs(l, Answer(c, w)) => rx.back = After(c, w, b)
<1>8. ASSUME NEW c \in Commands, NEW w \in Word
      PROVE  /\ m = 1 /\ LastIs(l, Answer(c, w)) =>
                  ~l[1].err /\ l[1].bytes \in {Answer(c, w), Rest(Answer(c, w), 1)}
             /\ ~l[1].err /\ l[1].bytes = Answer(c, w) => Full(l[1])
             /\ ~l[1].err /\ l[1].bytes = Rest(Answer(c, w), 1) => OtherBytes(l[1])
  <2>1. IsAnswer(Answer(c, w)) /\ Answer(c, w) \in Seq(Byte)
    BY AnswerType DEF IsAnswer
  <2> QED BY <2>1 DEF LastIs, m, Full, OtherBytes
<1>9. CASE n = 1
  <2>1. OtherBytes(l[1]) /\ ~FirstByte(l[1]) /\ ~Full(l[1]) /\ ~l[1].err
    BY <1>7, <1>9, KindsDiffer DEF OtherBytes
  <2>2. PICK f \in Seq(Byte) : IsAnswer(f) /\ l[1].bytes = Rest(f, 1)
    BY <2>1 DEF OtherBytes
  <2>3. PICK c \in Commands, w \in Word : f = Answer(c, w)
    BY <2>2 DEF IsAnswer
  <2>4. rx = Parse(After(c, w, b))
    BY <1>9, <2>1, <2>2, <2>3, ParserFollows
  <2>5. ASSUME NEW d \in Commands, NEW v \in Word, m = 1, LastIs(l, Answer(d, v))
        PROVE  rx.back = After(d, v, b)
    <3>1. l[1].bytes = Rest(Answer(d, v), 1)
      BY <1>8, <2>1, <2>5
    <3>2. rx = Parse(After(d, v, b))
      BY <1>9, <2>1, <3>1, ParserFollows
    <3> QED BY <3>2 DEF Parse
  <2>6. rx.ring = <<>> /\ rx.rx_len = 0
    BY <2>4 DEF Parse
  <2>7. Feeds(0, t)
    BY <1>6, <2>1
  <2> HIDE DEF rx
  <2>8. Goal
    BY <2>1, <2>5, <2>6, <2>7
  <2> QED BY <2>8 DEF rx, t, m
<1>10. CASE n = 0 /\ Full(l[1])
  <2>1. ~OtherBytes(l[1]) /\ ~FirstByte(l[1])
    BY <1>10, KindsDiffer
  <2>2. Feeds(0, t)
    BY <1>6, <2>1
  <2>3. CASE l[1].err
    <3>1. rx = Parse(b)
      BY <1>10, <2>3, ParserWaits
    <3>2. rx.ring = <<>> /\ rx.rx_len = 0 /\ rx.back = b
      BY <3>1 DEF Parse
    <3> HIDE DEF rx
    <3>3. Goal
      BY <1>8, <2>2, <2>3, <3>2
    <3> QED BY <3>3 DEF rx, t, m
  <2>4. CASE ~l[1].err
    <3>1. PICK c \in Commands, w \in Word : l[1].bytes = Answer(c, w)
      BY <1>10 DEF Full, IsAnswer
    <3>2. rx = Parse(After(c, w, b))
      BY <1>10, <2>4, <3>1, ParserFollows
    <3>3. ASSUME NEW d \in Commands, NEW v \in Word, m = 1, LastIs(l, Answer(d, v))
          PROVE  rx.back = After(d, v, b)
      <4>1. l[1].bytes = Answer(d, v)
        BY <1>8, <2>1, <2>4, <3>3
      <4>2. rx = Parse(After(d, v, b))
        BY <1>10, <2>4, <4>1, ParserFollows
      <4> QED BY <4>2 DEF Parse
    <3>4. rx.ring = <<>> /\ rx.rx_len = 0
      BY <3>2 DEF Parse
    <3> HIDE DEF rx
    <3>5. Goal
      BY <2>2, <2>4, <3>3, <3>4
    <3> QED BY <3>5 DEF rx, t, m
  <2> QED BY <2>3, <2>4
<1>11. CASE n = 0 /\ ~Full(l[1])
  <2>1. FirstByte(l[1]) /\ 1 < m /\ OtherBytes(l[1 + 1])
    BY <1>3, <1>5, <1>7, <1>11
  <2>2. l[1].bytes = <<FE>> /\ ~l[1].err
    BY <2>1 DEF FirstByte
  <2>3. rx = [ring |-> <<>>, rx_len |-> 1, back |-> b]
    BY <1>11, <2>2, ParserWaits
  <2>4. rx.ring = <<>> /\ rx.rx_len = 1 /\ rx.back = b
    BY <2>3
  <2>5. m # 1 /\ t # <<>> /\ t[1] = l[1 + 1]
    BY <1>1, <1>2, <1>5, <2>1
  <2>6. Feeds(1, t)
    BY <1>4, <2>1, <2>5
  <2> HIDE DEF rx
  <2>7. Goal
    BY <2>4, <2>5, <2>6
  <2> QED BY <2>7 DEF rx, t, m
<1> QED BY <1>7, <1>9, <1>10, <1>11

-----------------------------------------------------------------------------
(***************************************************************************)
(* The commands of Meter_init.                                             *)
(***************************************************************************)
\* A table of writes, entry by entry.
LEMMA WritesAt ==
  ASSUME NEW regs \in Seq(Registers \X Word)
  PROVE  /\ Len(Writes(regs)) = 2 * Len(regs)
         /\ \A j \in 1..Len(regs) :
              /\ Writes(regs)[(2 * j) - 1] = WriteCmd(regs[j][1], regs[j][2])
              /\ Writes(regs)[2 * j] = ReadCmd(regs[j][1], regs[j][2])
<1> DEFINE n == Len(regs)
           C(i) == LET r == regs[(i + 1) \div 2]
                   IN  WriteV9261fReg(r[1], r[2])[IF i % 2 = 1 THEN 1 ELSE 2]
           s == [i \in 1..(2 * n) |-> C(i)]
<1>1. n \in Nat
  BY LenProperties
<1>2. Writes(regs) = s
  BY DEF Writes
<1>3. ASSUME NEW j \in 1..n
      PROVE  C((2 * j) - 1) = WriteCmd(regs[j][1], regs[j][2])
             /\ C(2 * j) = ReadCmd(regs[j][1], regs[j][2])
  <2>1. /\ (((2 * j) - 1) + 1) \div 2 = j /\ ((2 * j) - 1) % 2 = 1
        /\ ((2 * j) + 1) \div 2 = j /\ (2 * j) % 2 # 1
    BY <1>1
  <2> QED BY <2>1 DEF WriteV9261fReg
<1> HIDE DEF C
<1>4. Len(s) = 2 * n /\ \A i \in 1..(2 * n) : s[i] = C(i)
  BY <1>1
<1> HIDE DEF s
<1>5. \A j \in 1..n : (2 * j) - 1 \in 1..(2 * n) /\ 2 * j \in 1..(2 * n)
  BY <1>1
<1>6. \A j \in 1..n : s[(2 * j) - 1] = C((2 * j) - 1) /\ s[2 * j] = C(2 * j)
  BY <1>4, <1>5
<1> QED BY <1>2, <1>3, <1>4, <1>6

\* The table of Meter_init, entry by entry.
LEMMA InitWritesAt ==
  ASSUME NEW words \in [1..Len(ErrorRegs) -> Word]
  PROVE  LET r == InitWrites(words)
             a == Len(ControlWrites)
             n == Len(ControlWrites) + Len(ErrorRegs) + 1
         IN  /\ n \in Nat /\ n >= 2
             /\ r[n] = <<MeterControlReg0Add, MC0Word>>
             /\ \A i \in 1..(n - 1) :
                  r[i] = IF i <= a THEN ControlWrites[i]
                         ELSE <<ErrorRegs[i - a], words[i - a]>>
<1> DEFINE S == Registers \X Word
           T == (RegAddr \X Word)
           c == ControlWrites
           e == [i \in 1..Len(ErrorRegs) |-> <<ErrorRegs[i], words[i]>>]
           z == <<<<MeterControlReg0Add, MC0Word>>>>
           a == Len(c)
           m == Len(ErrorRegs)
           p == c \o e
           r == p \o z
<1>1. a \in Nat /\ m \in Nat /\ m # 0
  <2>1. a \in Nat /\ m \in Nat
    BY MeterAssumption, LenProperties
  <2>2. \E i \in 1..m : TRUE
    BY MeterAssumption
  <2> QED BY <2>1, <2>2
<1>2. c \in Seq(T) /\ ErrorRegs \in Seq(RegAddr)
  BY MeterAssumption
<1>3. e \in Seq(T) /\ Len(e) = m /\ \A i \in 1..m : e[i] = <<ErrorRegs[i], words[i]>>
  <2>1. \A i \in 1..m : <<ErrorRegs[i], words[i]>> \in T
    BY <1>2, ElementOfSeq
  <2> HIDE DEF T
  <2> QED BY <1>1, <2>1
<1>4. z \in Seq(T) /\ Len(z) = 1 /\ z[1] = <<MeterControlReg0Add, MC0Word>>
  <2>1. <<MeterControlReg0Add, MC0Word>> \in T
    BY MeterAssumption DEF MeterControlReg0Add, RegAddr
  <2> HIDE DEF T
  <2> QED BY <2>1
<1>5. InitWrites(words) = r
  BY DEF InitWrites
<1> HIDE DEF T, c, e, z
<1>6. /\ p \in Seq(T) /\ Len(p) = a + m
      /\ \A i \in 1..(a + m) : p[i] = IF i <= a THEN c[i] ELSE e[i - a]
  <2>1. /\ p \in Seq(T) /\ Len(p) = Len(c) + Len(e)
        /\ \A i \in 1..(Len(c) + Len(e)) : p[i] = IF i <= Len(c) THEN c[i] ELSE e[i - Len(c)]
    BY <1>2, <1>3, ConcatProperties
  <2> HIDE DEF p
  <2> QED BY <1>3, <2>1
<1> HIDE DEF p
<1>7. /\ Len(r) = Len(p) + 1
      /\ \A i \in 1..(Len(p) + 1) : r[i] = IF i <= Len(p) THEN p[i] ELSE z[i - Len(p)]
  <2>1. /\ Len(r) = Len(p) + Len(z)
        /\ \A i \in 1..(Len(p) + Len(z)) : r[i] = IF i <= Len(p) THEN p[i] ELSE z[i - Len(p)]
    <3>1. p \in Seq(T) /\ z \in Seq(T)
      BY <1>4, <1>6
    <3> QED BY <3>1, ConcatProperties
  <2> HIDE DEF r
  <2> QED BY <1>4, <2>1
<1> HIDE DEF r
<1> DEFINE n == a + m + 1
<1>8. n \in Nat /\ n >= 2 /\ n - 1 = a + m /\ Len(p) + 1 = n /\ Len(p) \in Nat
  BY <1>1, <1>6
<1>9. r[n] = z[1]
  <2>1. n \in 1..(Len(p) + 1) /\ ~(n <= Len(p)) /\ n - Len(p) = 1
    BY <1>8
  <2> HIDE DEF n
  <2> QED BY <1>7, <2>1
<1>10. \A i \in 1..(n - 1) : r[i] = IF i <= a THEN c[i] ELSE <<ErrorRegs[i - a], words[i - a]>>
  <2> TAKE i \in 1..(n - 1)
  <2>1. i \in 1..(Len(p) + 1) /\ i <= Len(p) /\ i \in 1..(a + m)
    BY <1>1, <1>6, <1>8
  <2>2. r[i] = IF i <= a THEN c[i] ELSE e[i - a]
    BY <1>6, <1>7, <2>1
  <2>3. ~(i <= a) => i - a \in 1..m
    BY <1>1, <2>1
  <2> QED BY <1>3, <2>2, <2>3
<1> QED BY <1>4, <1>5, <1>8, <1>9, <1>10 DEF c

\* Neighbours in the table are different registers, the last and the first too.
LEMMA NeighboursDiffer ==
  ASSUME NEW words \in [1..Len(ErrorRegs) -> Word]
  PROVE  LET r == InitWrites(words)
         IN  /\ r[1][1] # MeterControlReg0Add
             /\ \A i \in 1..(Len(r) - 1) : r[i][1] # r[i + 1][1]
<1> DEFINE r == InitWrites(words)
           q == InitWrites(CalibInit)
           n == Len(ControlWrites) + Len(ErrorRegs) + 1
<1>1. CalibInit \in [1..Len(ErrorRegs) -> Word]
  BY MeterAssumption
<1>2. Len(r) = n /\ Len(q) = n
  BY <1>1, InitWritesType
<1>3. n \in Nat /\ n >= 2 /\ r[n][1] = MeterControlReg0Add
  BY InitWritesAt
<1>4. \A i \in 1..n : r[i][1] = q[i][1]
  <2> TAKE i \in 1..n
  <2>1. CASE i = n
    BY <1>1, <2>1, InitWritesAt
  <2>2. CASE i # n
    <3>1. i \in 1..(n - 1)
      BY <1>3, <2>2
    <3> DEFINE a == Len(ControlWrites)
    <3>2. r[i] = IF i <= a THEN ControlWrites[i] ELSE <<ErrorRegs[i - a], words[i - a]>>
      BY <3>1, InitWritesAt
    <3>3. q[i] = IF i <= a THEN ControlWrites[i] ELSE <<ErrorRegs[i - a], CalibInit[i - a]>>
      BY <1>1, <3>1, InitWritesAt
    <3> HIDE DEF a, r, q
    <3> QED BY <3>2, <3>3
  <2> QED BY <2>1, <2>2
<1>5. \A i \in 1..n : q[i][1] # q[IF i = n THEN 1 ELSE i + 1][1]
  BY <1>2, InitAssumption
<1> HIDE DEF r, q, n
<1>6. r[n][1] # r[1][1]
  <2>1. n \in 1..n /\ 1 \in 1..n
    BY <1>3
  <2> QED BY <1>4, <1>5, <2>1
<1>7. \A i \in 1..(n - 1) : r[i][1] # r[i + 1][1]
  <2> TAKE i \in 1..(n - 1)
  <2>1. i \in 1..n /\ i + 1 \in 1..n /\ i # n
    BY <1>3
  <2> QED BY <1>4, <1>5, <2>1
<1> QED BY <1>2, <1>3, <1>6, <1>7 DEF r

\* What Meter_init sends.
LEMMA MeterInitChain ==
  ASSUME NEW words \in [1..Len(ErrorRegs) -> Word]
  PROVE  LET s == Meter_init(words)
         IN  /\ InitCommands(s)
             /\ s[1].k = "write" /\ s[1].reg # MeterControlReg0Add
<1> DEFINE r == InitWrites(words)
           s == Writes(r)
           n == Len(r)
<1>1. r \in Seq(Registers \X Word) /\ n \in Nat /\ n >= 2
      /\ r[n] = <<MeterControlReg0Add, MC0Word>>
  BY InitWritesType, InitWritesAt
<1>2. r[1][1] # MeterControlReg0Add /\ \A i \in 1..(n - 1) : r[i][1] # r[i + 1][1]
  BY NeighboursDiffer
<1>3. Meter_init(words) = s
  BY DEF Meter_init
<1> HIDE DEF r
<1>4. /\ Len(s) = 2 * n
      /\ \A j \in 1..n : /\ s[(2 * j) - 1] = WriteCmd(r[j][1], r[j][2])
                         /\ s[2 * j] = ReadCmd(r[j][1], r[j][2])
  BY <1>1, WritesAt
<1> HIDE DEF s, n
<1>5. s[Len(s)] = ReadCmd(MeterControlReg0Add, MC0Word)
  <2>1. n \in 1..n
    BY <1>1
  <2> QED BY <1>1, <1>4, <2>1
<1>6. s[1] = WriteCmd(r[1][1], r[1][2])
  <2>1. 1 \in 1..n /\ (2 * 1) - 1 = 1
    BY <1>1
  <2> QED BY <1>4, <2>1, Zenon
<1>7. ASSUME NEW i \in 1..(Len(s) - 1)
      PROVE  \/ s[i].k = "write" /\ s[i + 1] = ReadCmd(s[i].reg, s[i].data)
             \/ s[i].k = "read" /\ s[i + 1].k = "write" /\ s[i + 1].reg # s[i].reg
  <2>1. \/ \E j \in 1..n : i = (2 * j) - 1 /\ i + 1 = 2 * j
        \/ \E j \in 1..(n - 1) : i = 2 * j /\ i + 1 = (2 * (j + 1)) - 1
    <3>1. i \in Nat /\ i >= 1 /\ i <= (2 * n) - 1
      BY <1>1, <1>4
    <3> DEFINE q == i \div 2
    <3>2. q \in Nat /\ (i = 2 * q \/ i = (2 * q) + 1)
      BY <3>1
    <3> HIDE DEF q
    <3>3. CASE i = 2 * q
      <4>1. q \in 1..(n - 1) /\ i + 1 = (2 * (q + 1)) - 1
        BY <1>1, <3>1, <3>2, <3>3
      <4> QED BY <3>3, <4>1
    <3>4. CASE i = (2 * q) + 1
      <4>1. q + 1 \in 1..n /\ i = (2 * (q + 1)) - 1 /\ i + 1 = 2 * (q + 1)
        BY <1>1, <3>1, <3>2, <3>4
      <4> QED BY <4>1
    <3> QED BY <3>2, <3>3, <3>4
  <2>2. CASE \E j \in 1..n : i = (2 * j) - 1 /\ i + 1 = 2 * j
    <3>1. PICK j \in 1..n : i = (2 * j) - 1 /\ i + 1 = 2 * j
      BY <2>2
    <3>2. s[i] = WriteCmd(r[j][1], r[j][2]) /\ s[i + 1] = ReadCmd(r[j][1], r[j][2])
      BY <1>4, <3>1
    <3> QED BY <3>2 DEF WriteCmd, ReadCmd
  <2>3. CASE \E j \in 1..(n - 1) : i = 2 * j /\ i + 1 = (2 * (j + 1)) - 1
    <3>1. PICK j \in 1..(n - 1) : i = 2 * j /\ i + 1 = (2 * (j + 1)) - 1
      BY <2>3
    <3>2. j \in 1..n /\ j + 1 \in 1..n
      BY <1>1, <3>1
    <3>3. s[i] = ReadCmd(r[j][1], r[j][2]) /\ s[i + 1] = WriteCmd(r[j + 1][1], r[j + 1][2])
      BY <1>4, <3>1, <3>2
    <3>4. r[j][1] # r[j + 1][1]
      BY <1>2
    <3> QED BY <3>3, <3>4 DEF WriteCmd, ReadCmd
  <2> QED BY <2>1, <2>2, <2>3
<1>8. s[1].k = "write" /\ s[1].reg # MeterControlReg0Add
  BY <1>2, <1>6 DEF WriteCmd
<1> QED BY <1>3, <1>5, <1>7, <1>8 DEF InitCommands

-----------------------------------------------------------------------------
(***************************************************************************)
(* The steps.                                                              *)
(***************************************************************************)
\* The first state.
LEMMA AnswerInit == Init => AInv
<1> SUFFICES ASSUME Init PROVE AInv
  OBVIOUS
<1>1. CalibInit \in [1..Len(ErrorRegs) -> Word]
  BY MeterAssumption
<1>2. todo = Meter_init(CalibInit)
  BY DEF Init
<1>3. InitCommands(todo) /\ todo[1].k = "write"
  BY <1>1, <1>2, MeterInitChain
<1>4. Current = todo[1]
  <2>1. todo \in Seq(RegCommands) /\ todo # <<>>
    BY <1>1, <1>2, MeterInitType
  <2> QED BY <2>1 DEF Current
<1>5. TodoOK
  BY <1>3 DEF Init, TodoOK
<1>6. Feeds(0, <<>>)
  BY DEF Feeds
<1>7. UnderwayInv
  BY <1>6 DEF Init, UnderwayInv, Underway
<1>8. FaultlessInv
  BY DEF Init, FaultlessInv, Faultless
<1>9. WrittenInv
  BY <1>3, <1>4 DEF Init, WrittenInv
<1>10. CheckedOK /\ VerifiedWrite
  BY DEF Init, CheckedOK, VerifiedWrite
<1>11. CalibInv /\ AcceptedIsReading
  BY DEF Init, CalibInv, AcceptedIsReading
<1>12. word = <<>>
  BY DEF Init
<1> QED BY <1>5, <1>7, <1>8, <1>9, <1>10, <1>11, <1>12 DEF AInv

\* The command at hand.
LEMMA CurrentType ==
  ASSUME MInv
  PROVE  /\ todo \in Seq(Commands) /\ todo # <<>> /\ Len(todo) \in Nat /\ Len(todo) >= 1
         /\ Current = todo[1] /\ Current \in Commands
         /\ Current.k \in {"write", "read"} /\ Current.data \in Word
         /\ Current.reg \in Registers \cup {AARTU}
<1>1. todo \in Seq(Commands) /\ todo # <<>>
  BY DEF MInv, MeterTypeOK
<1>2. Len(todo) \in Nat /\ Len(todo) >= 1 /\ todo[1] \in Commands
  BY <1>1, TailType, LenProperties
<1>3. Current = todo[1]
  BY <1>1 DEF Current
<1> QED BY <1>1, <1>2, <1>3 DEF Commands

\* A chunk of the line taken by a parser that can follow.
LEMMA IrqFollows ==
  ASSUME MInv, Underway, UART1_IRQHandler
  PROVE  /\ line \in Seq(Chunks) /\ line # <<>> /\ Len(line) \in Nat /\ Len(line) >= 1
         /\ line' = Tail(line) /\ line' \in Seq(Chunks) /\ Len(line') = Len(line) - 1
         /\ line' = <<>> <=> Len(line) = 1
         /\ line' # <<>> => line'[Len(line')] = line[Len(line)]
         /\ ring' = <<>>
         /\ Feeds(rx_len', line')
         /\ line[1].err => back' = back
         /\ \A c \in Commands : \A w \in Word :
              Len(line) = 1 /\ LastIs(line, Answer(c, w)) => back' = After(c, w, back)
<1> DEFINE m == Len(line)
           X == IF line[1].err THEN <<>> ELSE line[1].bytes
           rx == Uart1RxHandle(X, rx_len, back)
<1>1. line \in Seq(Chunks) /\ line # <<>> /\ ring = <<>> /\ Feeds(rx_len, line)
  BY DEF MInv, MeterTypeOK, Underway, UART1_IRQHandler
<1>2. m \in Nat /\ m # 0
  BY <1>1, EmptySeq, LenProperties
<1>3. line' = Tail(line)
  BY DEF UART1_IRQHandler
<1>4. /\ line' \in Seq(Chunks) /\ Len(line') = m - 1
      /\ \A i \in 1..(m - 1) : line'[i] = line[i + 1]
  <2>1. m \in Nat \ {0} /\ Len(line) = m
    BY <1>2
  <2> HIDE DEF m
  <2> QED BY <1>1, <1>3, <2>1, TailAt
<1>5. line' = <<>> <=> m = 1
  BY <1>2, <1>4, EmptySeq
<1>6. line' # <<>> => line'[Len(line')] = line[m]
  <2> HIDE DEF m
  <2>1. m # 1 => m - 1 \in 1..(m - 1) /\ (m - 1) + 1 = m
    BY <1>2
  <2> QED BY <1>4, <1>5, <2>1
<1>7. MakeRoom(ring) = <<>>
  <2>1. Len(<<>>) = 0
    OBVIOUS
  <2>2. ~(TLS_UART_RX_BUF_SIZE - 1 - 0 <= RX_CACHE_LIMIT)
    BY Sizes
  <2> QED BY <1>1, <2>1, <2>2 DEF MakeRoom
<1>8. Head(line) = line[1] /\ line[1] \in Chunks
  BY <1>1, TailType
<1>9. MakeRoom(ring) \o (IF Head(line).err THEN <<>> ELSE Head(line).bytes) = X
  <2>1. X \in Seq(Byte)
    BY <1>8 DEF Chunks
  <2> HIDE DEF X
  <2>2. <<>> \o X = X
    BY <2>1, ConcatEmptySeq
  <2>3. (IF Head(line).err THEN <<>> ELSE Head(line).bytes) = X
    BY <1>8 DEF X
  <2> QED BY <1>7, <2>2, <2>3
<1>10. ring' = rx.ring /\ rx_len' = rx.rx_len /\ back' = rx.back
  <2> DEFINE Y == MakeRoom(ring) \o (IF Head(line).err THEN <<>> ELSE Head(line).bytes)
  <2>1. \E got \in {Y} : \E z \in {Uart1RxHandle(got, rx_len, back)} :
          ring' = z.ring /\ rx_len' = z.rx_len /\ back' = z.back
    BY DEF UART1_IRQHandler
  <2>2. Y = X
    BY <1>9
  <2> HIDE DEF X, Y
  <2> QED BY <2>1, <2>2
<1>11. /\ rx.ring = <<>> /\ Feeds(rx.rx_len, Tail(line))
       /\ line[1].err => rx.back = back
       /\ \A c \in Commands : \A w \in Word :
            Len(line) = 1 /\ LastIs(line, Answer(c, w)) => rx.back = After(c, w, back)
  BY <1>1, FeedsTail
<1> HIDE DEF rx
<1>12. /\ ring' = <<>> /\ Feeds(rx_len', line') /\ (line[1].err => back' = back)
       /\ \A c \in Commands : \A w \in Word :
            Len(line) = 1 /\ LastIs(line, Answer(c, w)) => back' = After(c, w, back)
  BY <1>3, <1>10, <1>11
<1> QED BY <1>1, <1>2, <1>3, <1>4, <1>5, <1>6, <1>12

\* One whole answer on the line.
LEMMA WholeLast ==
  ASSUME NEW f
  PROVE  /\ Whole(f) # <<>> /\ Len(Whole(f)) = 1 /\ LastIs(Whole(f), f)
         /\ Whole(f)[1] = [bytes |-> f, err |-> FALSE]
BY DEF Whole, LastIs

\* The interrupt.
LEMMA IrqAnswer == ASSUME MInv, AInv, UART1_IRQHandler PROVE AInv'
<1>1. /\ UNCHANGED <<phase, todo, pc, word, calib, calib_para, rounds, chip, checked,
                     asked, accepted, broken, faults>>
      /\ line # <<>> /\ line' = Tail(line)
  BY DEF UART1_IRQHandler, taskVars
<1>2. Current' = Current /\ Current \in Commands
  BY <1>1, CurrentType DEF Current
<1>3. asked \in Word \cup {NoWord}
  BY WordSize DEF MInv, MeterTypeOK, Word, NoWord
<1>4. TodoOK' /\ (pc' # "use" => word' = <<>>)
  BY <1>1 DEF AInv, TodoOK
<1>5. WrittenInv' /\ CheckedOK' /\ VerifiedWrite' /\ AcceptedIsReading'
  <2>1. WrittenInv'
    BY <1>1, <1>2 DEF AInv, WrittenInv, Written
  <2>2. CheckedOK'
    BY <1>1, <1>2 DEF AInv, CheckedOK
  <2>3. VerifiedWrite' /\ AcceptedIsReading'
    BY <1>1 DEF AInv, VerifiedWrite, AcceptedIsReading
  <2> QED BY <2>1, <2>2, <2>3
<1>6. ASSUME NEW w \in Word, line = Whole(Answer(Current, w)), Underway
      PROVE  line' = <<>> /\ (Current.k = "read" => Holds(back', w))
  <2>1. Len(line) = 1 /\ LastIs(line, Answer(Current, w))
    BY <1>6, WholeLast
  <2>2. line' = <<>> /\ back' = After(Current, w, back)
    BY <1>2, <1>6, <2>1, IrqFollows
  <2>3. Current.k = "read" => back' = Answer(Current, w)
    BY <2>2 DEF After
  <2> QED BY <1>2, <2>2, <2>3, AnswerHolds
<1>7. FaultlessInv'
  <2> SUFFICES ASSUME faults = 0 PROVE Faultless'
    BY <1>1 DEF FaultlessInv
  <2>1. Faultless /\ ~broken /\ Underway
    BY DEF AInv, FaultlessInv, Faultless, UnderwayInv
  <2>2. pc = "wait" /\ asked # NoWord /\ line = Whole(Answer(Current, asked))
    BY <1>1, <2>1 DEF Faultless
  <2>3. line' = <<>>
    BY <1>3, <1>6, <2>1, <2>2
  <2> QED BY <1>1, <1>2, <2>1, <2>2, <2>3 DEF Faultless, Reading
<1>8. UnderwayInv'
  <2> SUFFICES ASSUME ~broken PROVE Underway'
    BY <1>1 DEF UnderwayInv
  <2>1. Underway
    BY DEF AInv, UnderwayInv
  <2>2. ring' = <<>> /\ Feeds(rx_len', line')
    BY <2>1, IrqFollows
  <2>3. ~(pc = "use" /\ asked # NoWord)
    BY <1>1, <2>1 DEF Underway
  <2>4. ASSUME pc = "wait", asked # NoWord
        PROVE  IF line' = <<>> THEN Current.k = "read" => Holds(back', asked)
                               ELSE LastIs(line', Answer(Current, asked))
    <3>1. LastIs(line, Answer(Current, asked)) /\ asked \in Word
      BY <1>1, <1>3, <2>1, <2>4 DEF Underway
    <3>2. CASE line' = <<>>
      <4>1. Len(line) = 1
        BY <2>1, <3>2, IrqFollows
      <4>2. back' = After(Current, asked, back)
        BY <1>2, <2>1, <3>1, <4>1, IrqFollows
      <4>3. Current.k = "read" => back' = Answer(Current, asked)
        BY <4>2 DEF After
      <4> QED BY <1>2, <3>1, <3>2, <4>3, AnswerHolds
    <3>3. CASE line' # <<>>
      <4>1. line'[Len(line')] = line[Len(line)]
        BY <2>1, <3>3, IrqFollows
      <4> QED BY <3>1, <3>3, <4>1 DEF LastIs
    <3> QED BY <3>2, <3>3
  <2> QED BY <1>1, <1>2, <2>2, <2>3, <2>4 DEF Underway
<1>9. CalibInv'
  <2> SUFFICES ASSUME ReadOrder[1] = WORD_BYTES, phase = "calib", ~broken, faults <= 1
               PROVE  Calibrating'
    BY <1>1 DEF CalibInv
  <2>1. Calibrating /\ Underway /\ (faults = 0 => Faultless)
    BY DEF AInv, CalibInv, UnderwayInv, FaultlessInv
  <2>2. ASSUME ErrOnly(line) PROVE line' = <<>> /\ back' = back
    <3>1. Len(line) = 1 /\ line[1].err
      BY <1>1, <2>2 DEF ErrOnly
    <3> QED BY <2>1, <3>1, IrqFollows
  <2>3. CASE pc = "send"
    BY <1>1, <2>1, <2>3 DEF Calibrating, Faultless
  <2>4. CASE pc = "wait"
    <3>1. CASE asked \in Measured
      <4>1. faults = 0 => line' = <<>>
        <5>1. faults = 0 => asked # NoWord /\ line = Whole(Answer(Current, asked))
          BY <1>1, <2>1, <2>4 DEF Faultless
        <5> QED BY <1>3, <1>6, <2>1, <5>1
      <4> QED BY <1>1, <2>4, <3>1, <4>1 DEF Calibrating
    <3>2. CASE asked \notin Measured
      <4>1. asked = NoWord /\ faults = 1 /\ Holds(back, MC0Word) /\ ErrOnly(line)
        BY <2>1, <2>4, <3>2 DEF Calibrating
      <4>2. line' = <<>> /\ back' = back
        BY <2>2, <4>1
      <4> QED BY <1>1, <2>4, <4>1, <4>2 DEF Calibrating, ErrOnly
    <3> QED BY <3>1, <3>2
  <2>5. CASE pc = "use"
    <3>1. CASE word # <<>> /\ word[1] = TopByte(MC0Word)
      BY <1>1, <2>5, <3>1 DEF Calibrating, TopByte
    <3>2. CASE ~(word # <<>> /\ word[1] = TopByte(MC0Word))
      <4>1. /\ word = <<>> /\ Holds(back, MC0Word)
            /\ \/ ErrOnly(line)
               \/ \E w \in Measured : line = Whole(Answer(ReadCmd(AARTU, 0), w))
        BY <1>1, <2>1, <2>5, <3>2 DEF Calibrating
      <4>2. CASE ErrOnly(line)
        <5>1. line' = <<>> /\ back' = back
          BY <2>2, <4>2
        <5> QED BY <1>1, <2>5, <4>1, <5>1 DEF Calibrating, ErrOnly
      <4>3. CASE \E w \in Measured : line = Whole(Answer(ReadCmd(AARTU, 0), w))
        <5>1. PICK w \in Measured : line = Whole(Answer(ReadCmd(AARTU, 0), w))
          BY <4>3
        <5>2. Current = ReadCmd(AARTU, 0) /\ w \in Word
          <6>1. todo = ReadAARTU
            BY DEF AInv, TodoOK
          <6> QED BY <6>1, MeterAssumption DEF Current, ReadAARTU
        <5>3. line' = <<>> /\ Holds(back', w)
          BY <1>6, <2>1, <5>1, <5>2 DEF ReadCmd
        <5>4. IsReading(w)'
          <6>1. word' = <<>> /\ Len(<<>>) = 0 /\ 1..0 = {}
            BY <1>1, <4>1
          <6> QED BY <5>3, <6>1 DEF IsReading
        <5> QED BY <1>1, <2>5, <5>1, <5>3, <5>4 DEF Calibrating
      <4> QED BY <4>1, <4>2, <4>3
    <3> QED BY <3>1, <3>2
  <2> QED BY <1>1, <2>3, <2>4, <2>5 DEF MInv, MeterTypeOK
<1> QED BY <1>4, <1>5, <1>7, <1>8, <1>9 DEF AInv

\* What Send does to the command c, whose register gives w: the chip executes it
\* or not (done), and the line takes the chunks of its answer.
Sent(c, w, done, chunks) ==
  /\ Exchange(c, done, chunks)
  /\ faults' \in {faults, faults + 1}
  /\ ~broken' => ~broken /\ Feeds(0, chunks)
  /\ asked' \in {w, NoWord}
  /\ asked' # NoWord /\ ~broken' => chunks # <<>> /\ LastIs(chunks, Answer(c, w))
  /\ asked' = NoWord /\ ~broken' => ErrOnly(chunks)
  /\ faults' = faults =>
       done /\ chunks = Whole(Answer(c, w)) /\ asked' = w /\ broken' = broken
  /\ ~done => broken' = broken

\* An answer cut after its first byte ends with its other bytes; one that is
\* thrown away leaves an error.
LEMMA CutEnds ==
  ASSUME NEW f, IsAnswer(f)
  PROVE  /\ Cut(f, 1, FALSE) # <<>> /\ LastIs(Cut(f, 1, FALSE), f)
         /\ ErrOnly(Cut(f, Len(f), TRUE))
<1> DEFINE x == [bytes |-> <<FE>>, err |-> FALSE]
           y == [bytes |-> Rest(f, 1), err |-> FALSE]
           z == [bytes |-> f, err |-> TRUE]
<1>1. Cut(f, 1, FALSE) = <<x, y>> /\ Cut(f, Len(f), TRUE) = <<z>>
  BY AnswerChunks
<1>2. ~y.err /\ y.bytes = Rest(f, 1) /\ z.err
  OBVIOUS
<1> HIDE DEF x, y, z
<1>3. Len(<<x, y>>) = 2 /\ <<x, y>>[2] = y /\ <<x, y>> # <<>> /\ Len(<<z>>) = 1 /\ <<z>>[1] = z
  OBVIOUS
<1>4. LastIs(Cut(f, 1, FALSE), f) /\ Cut(f, 1, FALSE) # <<>>
  BY <1>1, <1>2, <1>3 DEF LastIs
<1>5. ErrOnly(Cut(f, Len(f), TRUE))
  BY <1>1, <1>2, <1>3 DEF ErrOnly
<1> QED BY <1>4, <1>5

\* Send is one of these.
LEMMA SendFacts ==
  ASSUME MInv, Send
  PROVE  \E w \in Word : \E done \in BOOLEAN : \E chunks \in Seq(Chunks) :
           w \in Reading(Current.reg) /\ Sent(Current, w, done, chunks)
<1> DEFINE c == Current
<1>1. c \in Commands /\ c.reg \in Registers \cup {AARTU}
  BY CurrentType
<1>2. PICK w \in Reading(c.reg) :
        LET f == Answer(c, w)
        IN  \/ /\ Exchange(c, TRUE, Whole(f))
               /\ asked' = w
               /\ UNCHANGED <<faults, broken>>
            \/ /\ faults' = faults + 1
               /\ \E done \in BOOLEAN : Exchange(c, done, <<>>)
               /\ asked' = NoWord
               /\ UNCHANGED broken
            \/ /\ faults' = faults + 1
               /\ \E n \in 1..(Len(f) - 1) :
                    /\ Exchange(c, TRUE, Cut(f, n, FALSE))
                    /\ broken' = (broken \/ n > 1)
               /\ asked' = w
            \/ /\ faults' = faults + 1
               /\ \E n \in 1..Len(f) :
                    /\ Exchange(c, TRUE, Cut(f, n, TRUE))
                    /\ broken' = (broken \/ n < Len(f))
               /\ asked' = NoWord
  BY DEF Send, Current
<1> HIDE DEF c
<1>3. w \in Word
  <2>1. CASE c.reg = AARTU
    BY <2>1, MeterAssumption DEF Reading
  <2>2. CASE c.reg # AARTU
    <3>1. c.reg \in Registers
      BY <1>1, <2>2
    <3>2. chip[c.reg] \in Word
      BY <3>1 DEF MInv, MeterTypeOK
    <3> QED BY <2>2, <3>2 DEF Reading
  <2> QED BY <2>1, <2>2
<1> DEFINE f == Answer(c, w)
<1>4. IsAnswer(f)
  BY <1>1, <1>3 DEF IsAnswer
<1>5. f \in Seq(Byte) /\ Len(f) <= FrameLen /\ Len(f) \in Nat
  BY <1>4, AnswerFacts
<1>6. /\ Whole(f) \in Seq(Chunks)
      /\ \A n \in 1..Len(f) : \A bad \in BOOLEAN : Cut(f, n, bad) \in Seq(Chunks)
  <2> HIDE DEF f
  <2>1. Seq(ShortChunks) \subseteq Seq(Chunks)
    <3>1. ShortChunks \subseteq Chunks
      BY DEF ShortChunks
    <3> QED BY <3>1, SeqMonotonic
  <2> QED BY <1>5, <2>1, ChunksType
<1>7. faults \in Nat /\ faults # faults + 1 /\ w # NoWord
  BY <1>3, WordSize DEF MInv, MeterTypeOK, Word, NoWord
<1>8. \E done \in BOOLEAN : \E chunks \in Seq(Chunks) : Sent(c, w, done, chunks)
  <2>1. ASSUME Exchange(c, TRUE, Whole(f)), asked' = w, UNCHANGED <<faults, broken>>
        PROVE  Sent(c, w, TRUE, Whole(f))
    <3>1. Feeds(0, Whole(f)) /\ Whole(f) # <<>> /\ LastIs(Whole(f), f)
      BY <1>4, FeedsAnswer, WholeLast
    <3> QED BY <1>7, <2>1, <3>1 DEF Sent
  <2>2. ASSUME NEW done \in BOOLEAN, Exchange(c, done, <<>>), faults' = faults + 1,
               asked' = NoWord, UNCHANGED broken
        PROVE  Sent(c, w, done, <<>>)
    <3>1. Feeds(0, <<>>)
      BY <1>4, FeedsAnswer
    <3> QED BY <1>7, <2>2, <3>1 DEF Sent, ErrOnly
  <2>3. ASSUME NEW n \in 1..(Len(f) - 1), Exchange(c, TRUE, Cut(f, n, FALSE)),
               faults' = faults + 1, asked' = w, broken' = (broken \/ n > 1)
        PROVE  Sent(c, w, TRUE, Cut(f, n, FALSE))
    <3>1. ~broken' => ~broken /\ n = 1
      <4>1. ~(n > 1) => n = 1
        BY <1>5
      <4> QED BY <2>3, <4>1
    <3>2. Feeds(0, Cut(f, 1, FALSE)) /\ Cut(f, 1, FALSE) # <<>> /\ LastIs(Cut(f, 1, FALSE), f)
      BY <1>4, FeedsAnswer, CutEnds
    <3> HIDE DEF f
    <3> QED BY <1>7, <2>3, <3>1, <3>2 DEF Sent, f
  <2>4. ASSUME NEW n \in 1..Len(f), Exchange(c, TRUE, Cut(f, n, TRUE)),
               faults' = faults + 1, asked' = NoWord, broken' = (broken \/ n < Len(f))
        PROVE  Sent(c, w, TRUE, Cut(f, n, TRUE))
    <3>1. ~broken' => ~broken /\ n = Len(f)
      <4>1. ~(n < Len(f)) => n = Len(f)
        BY <1>5
      <4> QED BY <2>4, <4>1
    <3>2. Feeds(0, Cut(f, Len(f), TRUE)) /\ ErrOnly(Cut(f, Len(f), TRUE))
      BY <1>4, FeedsAnswer, CutEnds
    <3> HIDE DEF f
    <3> QED BY <1>7, <2>4, <3>1, <3>2 DEF Sent, f
  <2>5. CASE Exchange(c, TRUE, Whole(f)) /\ asked' = w /\ UNCHANGED <<faults, broken>>
    BY <1>6, <2>1, <2>5
  <2>6. CASE /\ faults' = faults + 1 /\ asked' = NoWord /\ UNCHANGED broken
             /\ \E done \in BOOLEAN : Exchange(c, done, <<>>)
    <3>1. <<>> \in Seq(Chunks)
      OBVIOUS
    <3> QED BY <2>2, <2>6, <3>1
  <2>7. CASE /\ faults' = faults + 1 /\ asked' = w
             /\ \E n \in 1..(Len(f) - 1) :
                  Exchange(c, TRUE, Cut(f, n, FALSE)) /\ broken' = (broken \/ n > 1)
    <3>1. PICK n \in 1..(Len(f) - 1) :
            Exchange(c, TRUE, Cut(f, n, FALSE)) /\ broken' = (broken \/ n > 1)
      BY <2>7
    <3>2. n \in 1..Len(f)
      BY <1>5
    <3>3. Cut(f, n, FALSE) \in Seq(Chunks)
      BY <1>6, <3>2
    <3>4. Sent(c, w, TRUE, Cut(f, n, FALSE))
      BY <2>3, <2>7, <3>1
    <3> QED BY <3>3, <3>4
  <2>8. CASE /\ faults' = faults + 1 /\ asked' = NoWord
             /\ \E n \in 1..Len(f) :
                  Exchange(c, TRUE, Cut(f, n, TRUE)) /\ broken' = (broken \/ n < Len(f))
    <3>1. PICK n \in 1..Len(f) :
            Exchange(c, TRUE, Cut(f, n, TRUE)) /\ broken' = (broken \/ n < Len(f))
      BY <2>8
    <3>2. Cut(f, n, TRUE) \in Seq(Chunks)
      BY <1>6
    <3>3. Sent(c, w, TRUE, Cut(f, n, TRUE))
      BY <2>4, <2>8, <3>1
    <3> QED BY <3>2, <3>3
  <2> HIDE DEF f
  <2> QED BY <1>2, <2>5, <2>6, <2>7, <2>8 DEF f
<1> QED BY <1>2, <1>3, <1>8 DEF c

\* The chip after a command, and the end of the line.
LEMMA ExchangeFacts ==
  ASSUME MInv, NEW c \in Commands, NEW done \in BOOLEAN, NEW chunks \in Seq(Chunks),
         Exchange(c, done, chunks)
  PROVE  /\ line' = line \o chunks /\ line' \in Seq(Chunks)
         /\ line = <<>> => line' = chunks
         /\ chunks # <<>> => line' # <<>> /\ line'[Len(line')] = chunks[Len(chunks)]
         /\ c.k = "read" => chip' = chip
         /\ done /\ c.k = "write" /\ c.reg \in Registers => chip'[c.reg] = c.data
         /\ \A r \in Registers : r # c.reg => chip'[r] = chip[r]
<1>1. line \in Seq(Chunks) /\ chip \in [Registers -> Word]
  BY DEF MInv, MeterTypeOK
<1>2. line' = line \o chunks
  BY DEF Exchange
<1>3. /\ line' \in Seq(Chunks) /\ Len(line') = Len(line) + Len(chunks)
      /\ \A i \in 1..(Len(line) + Len(chunks)) :
            line'[i] = IF i <= Len(line) THEN line[i] ELSE chunks[i - Len(line)]
  BY <1>1, <1>2, ConcatProperties
<1>4. line = <<>> => line' = chunks
  BY <1>2, ConcatEmptySeq
<1>5. ASSUME chunks # <<>> PROVE line' # <<>> /\ line'[Len(line')] = chunks[Len(chunks)]
  <2> DEFINE a == Len(line)
             b == Len(chunks)
  <2>1. a \in Nat /\ b \in Nat /\ b # 0
    BY <1>1, <1>5, EmptySeq, LenProperties
  <2> HIDE DEF a, b
  <2>2. a + b \in 1..(a + b) /\ ~(a + b <= a) /\ (a + b) - a = b /\ a + b # 0
    BY <2>1
  <2>3. line'[a + b] = chunks[b]
    BY <1>3, <2>2 DEF a, b
  <2>4. Len(line') = a + b
    BY <1>3 DEF a, b
  <2>5. line' # <<>>
    BY <1>3, <2>2, <2>4, EmptySeq
  <2> QED BY <2>3, <2>4, <2>5 DEF b
<1>6. c.k = "read" => chip' = chip
  BY DEF Exchange
<1>7. done /\ c.k = "write" /\ c.reg \in Registers => chip'[c.reg] = c.data
  BY <1>1 DEF Exchange
<1>8. \A r \in Registers : r # c.reg => chip'[r] = chip[r]
  BY <1>1 DEF Exchange
<1> QED BY <1>2, <1>3, <1>4, <1>5, <1>6, <1>7, <1>8

\* A command is sent.
LEMMA SendAnswer == ASSUME MInv, AInv, Send PROVE AInv'
<1>1. /\ pc = "send" /\ pc' = "wait"
      /\ UNCHANGED <<phase, todo, word, calib, calib_para, rounds, ring, rx_len, back,
                     checked, accepted>>
  BY DEF Send, rxVars
<1>2. /\ Current' = Current /\ Current \in Commands /\ Current.k \in {"write", "read"}
      /\ Current.reg \in Registers \cup {AARTU}
  BY <1>1, CurrentType DEF Current
<1>3. PICK w \in Word : \E done \in BOOLEAN : \E chunks \in Seq(Chunks) :
        w \in Reading(Current.reg) /\ Sent(Current, w, done, chunks)
  BY SendFacts
<1>4. PICK done \in BOOLEAN : \E chunks \in Seq(Chunks) :
        w \in Reading(Current.reg) /\ Sent(Current, w, done, chunks)
  BY <1>3
<1>5. PICK chunks \in Seq(Chunks) : w \in Reading(Current.reg) /\ Sent(Current, w, done, chunks)
  BY <1>4
<1>6. Exchange(Current, done, chunks)
  BY <1>5 DEF Sent
<1>7. /\ line' = line \o chunks /\ line' \in Seq(Chunks)
      /\ line = <<>> => line' = chunks
      /\ chunks # <<>> => line' # <<>> /\ line'[Len(line')] = chunks[Len(chunks)]
      /\ Current.k = "read" => chip' = chip
      /\ done /\ Current.k = "write" /\ Current.reg \in Registers
           => chip'[Current.reg] = Current.data
      /\ \A r \in Registers : r # Current.reg => chip'[r] = chip[r]
  BY <1>2, <1>6, ExchangeFacts
<1>8. /\ faults \in Nat /\ faults' \in {faults, faults + 1}
      /\ w # NoWord /\ asked' \in {w, NoWord}
  <2>1. w # NoWord
    BY WordSize DEF Word, NoWord
  <2> QED BY <1>5, <2>1 DEF Sent, MInv, MeterTypeOK
<1>9. /\ ~broken' => ~broken
      /\ faults' = 0 => faults = 0 /\ faults' = faults
      /\ faults' <= 1 => faults <= 1
      /\ faults' <= 1 /\ faults' # faults => faults = 0 /\ faults' = 1
      /\ faults' <= 1 /\ faults = 1 => faults' = faults
  BY <1>5, <1>8 DEF Sent
<1>10. faults' = faults =>
         done /\ chunks = Whole(Answer(Current, w)) /\ asked' = w /\ broken' = broken
  BY <1>5 DEF Sent
<1>11. faults = 0 => Faultless /\ ~broken /\ line = <<>>
  BY <1>1 DEF AInv, FaultlessInv, Faultless
<1>12. phase = "init" => Current.reg \in Registers /\ Current.reg # AARTU
  <2> SUFFICES ASSUME phase = "init" PROVE Current.reg \in Registers
    BY InitAssumption
  <2>1. todo \in Seq(RegCommands) /\ todo # <<>>
    BY DEF MInv, MeterTypeOK
  <2>2. todo[1] \in RegCommands
    BY <2>1, TailType
  <2> QED BY <2>2, CurrentType DEF RegCommands
<1>13. phase # "init" => Current = ReadCmd(AARTU, 0) /\ Current.k = "read" /\ Current.reg = AARTU
  <2> SUFFICES ASSUME phase # "init" PROVE Current = ReadCmd(AARTU, 0)
    BY DEF ReadCmd
  <2>1. todo = ReadAARTU
    BY DEF AInv, TodoOK
  <2> QED BY <2>1 DEF Current, ReadAARTU
<1>14. TodoOK' /\ (pc' # "use" => word' = <<>>)
  BY <1>1 DEF AInv, TodoOK
<1>15. UnderwayInv'
  <2> SUFFICES ASSUME ~broken' PROVE Underway'
    BY DEF UnderwayInv
  <2>1. Underway
    BY <1>9 DEF AInv, UnderwayInv
  <2>2. Feeds(rx_len, line) /\ Feeds(0, chunks) /\ line \in Seq(Chunks)
    BY <1>5, <2>1 DEF Sent, Underway, MInv, MeterTypeOK
  <2>3. Feeds(rx_len, line \o chunks)
    BY <2>2, FeedsConcat
  <2>4. ASSUME asked' # NoWord
        PROVE  line' # <<>> /\ LastIs(line', Answer(Current, asked'))
    <3>1. asked' = w
      BY <1>8, <2>4
    <3>2. chunks # <<>> /\ LastIs(chunks, Answer(Current, w))
      BY <1>5, <2>4 DEF Sent
    <3> QED BY <1>7, <3>1, <3>2 DEF LastIs
  <2> QED BY <1>1, <1>2, <1>7, <2>1, <2>3, <2>4 DEF Underway
<1>16. FaultlessInv'
  <2> SUFFICES ASSUME faults' = 0 PROVE Faultless'
    BY DEF FaultlessInv
  <2>1. /\ chunks = Whole(Answer(Current, w)) /\ asked' = w /\ ~broken' /\ line = <<>>
    BY <1>9, <1>10, <1>11
  <2>2. line' = Whole(Answer(Current, w))
    BY <1>7, <2>1
  <2>3. Current.k = "read" => w \in Reading(Current.reg)'
    BY <1>2, <1>5, <1>7 DEF Reading
  <2> QED BY <1>1, <1>2, <1>8, <2>1, <2>2, <2>3 DEF Faultless
<1>17. WrittenInv'
  <2> SUFFICES ASSUME phase = "init", faults' <= 1 PROVE Written'
    BY <1>1 DEF WrittenInv
  <2>1. CASE Current.k = "write"
    <3>1. CASE done
      BY <1>2, <1>7, <1>12, <2>1, <3>1 DEF Written
    <3>2. CASE ~done
      <4>1. faults = 0 /\ faults' = 1 /\ broken' = broken
        BY <1>5, <1>9, <1>10, <3>2 DEF Sent
      <4> QED BY <1>2, <1>11, <2>1, <4>1 DEF Written
    <3> QED BY <3>1, <3>2
  <2>2. CASE Current.k = "read"
    <3>1. Written
      BY <1>9, <2>2 DEF AInv, WrittenInv
    <3>2. chip' = chip
      BY <1>7, <2>2
    <3>3. CASE chip[Current.reg] = Current.data
      BY <1>2, <3>2, <3>3 DEF Written
    <3>4. CASE chip[Current.reg] # Current.data
      <4>1. ~broken /\ faults = 1
        BY <3>1, <3>4 DEF Written
      <4>2. faults' = 1 /\ asked' = w /\ ~broken'
        BY <1>9, <1>10, <4>1
      <4>3. w = chip[Current.reg]
        BY <1>5, <1>12 DEF Reading
      <4> QED BY <1>2, <3>2, <4>2, <4>3 DEF Written
    <3> QED BY <3>3, <3>4
  <2> QED BY <1>2, <2>1, <2>2
<1>18. CheckedOK'
  BY <1>1 DEF AInv, CheckedOK
<1>19. VerifiedWrite'
  <2> SUFFICES ASSUME checked.ok = 1, faults' <= 1 PROVE chip'[checked.reg] = checked.data
    BY <1>1 DEF VerifiedWrite
  <2>1. chip[checked.reg] = checked.data /\ checked.reg \in Registers
    BY <1>9 DEF AInv, VerifiedWrite, CheckedOK
  <2>2. CASE Current.k = "read"
    BY <1>7, <2>1, <2>2
  <2>3. CASE Current.k = "write"
    <3>1. checked.reg # Current.reg
      BY <1>1, <1>13, <2>3 DEF AInv, CheckedOK
    <3> QED BY <1>7, <2>1, <3>1
  <2> QED BY <1>2, <2>2, <2>3
<1>20. CalibInv'
  <2> SUFFICES ASSUME ReadOrder[1] = WORD_BYTES, phase = "calib", ~broken', faults' <= 1
               PROVE  Calibrating'
    BY <1>1 DEF CalibInv
  <2>1. faults = 0 => Holds(back, MC0Word)
    BY <1>1, <1>9 DEF AInv, CalibInv, Calibrating
  <2>2. w \in Measured
    BY <1>5, <1>13 DEF Reading
  <2>3. CASE asked' = w
    BY <1>1, <1>9, <2>1, <2>2, <2>3 DEF Calibrating
  <2>4. CASE asked' = NoWord
    <3>1. faults = 0 /\ faults' = 1
      BY <1>8, <1>9, <1>10, <2>4
    <3>2. ErrOnly(chunks) /\ line' = chunks
      BY <1>5, <1>7, <1>11, <2>4, <3>1 DEF Sent
    <3> QED BY <1>1, <2>1, <2>4, <3>1, <3>2 DEF Calibrating
  <2> QED BY <1>8, <2>3, <2>4
<1>21. AcceptedIsReading'
  BY <1>1, <1>9 DEF AInv, AcceptedIsReading
<1> QED BY <1>14, <1>15, <1>16, <1>17, <1>18, <1>19, <1>20, <1>21 DEF AInv

\* The commands left after the first one.
LEMMA InitTail ==
  ASSUME NEW s \in Seq(Commands), InitCommands(s), Len(s) > 1
  PROVE  /\ InitCommands(Tail(s)) /\ Tail(s) # <<>> /\ Head(Tail(s)) = s[2]
         /\ \/ s[1].k = "write" /\ s[2] = ReadCmd(s[1].reg, s[1].data)
            \/ s[1].k = "read" /\ s[2].k = "write" /\ s[2].reg # s[1].reg
<1> DEFINE n == Len(s)
           t == Tail(s)
<1>1. n \in Nat /\ n > 1
  BY LenProperties
<1>2. n \in Nat \ {0}
  BY <1>1
<1>3. /\ t \in Seq(Commands) /\ Len(t) = n - 1
      /\ \A i \in 1..(n - 1) : t[i] = s[i + 1]
  BY <1>2, TailAt
<1>4. t # <<>>
  <2>1. \A x \in Nat : x > 1 => x - 1 # 0
    OBVIOUS
  <2>2. Len(t) # 0
    BY <1>1, <1>3, <2>1, Zenon
  <2> QED BY <1>3, <2>2, EmptySeq
<1>5. Head(t) = s[2]
  <2>1. 1 \in 1..(n - 1) /\ 1 + 1 = 2
    BY <1>1
  <2>2. Head(t) = t[1]
    BY <1>3, <1>4
  <2> QED BY <1>3, <2>1, <2>2
<1>6. s[n] = ReadCmd(MeterControlReg0Add, MC0Word)
      /\ \A i \in 1..(n - 1) :
           \/ s[i].k = "write" /\ s[i + 1] = ReadCmd(s[i].reg, s[i].data)
           \/ s[i].k = "read" /\ s[i + 1].k = "write" /\ s[i + 1].reg # s[i].reg
  BY DEF InitCommands
<1> HIDE DEF n, t
<1>7. t[Len(t)] = ReadCmd(MeterControlReg0Add, MC0Word)
  <2>1. n - 1 \in 1..(n - 1) /\ (n - 1) + 1 = n
    BY <1>1
  <2> QED BY <1>3, <1>6, <2>1
<1>8. ASSUME NEW i \in 1..(Len(t) - 1)
      PROVE  \/ t[i].k = "write" /\ t[i + 1] = ReadCmd(t[i].reg, t[i].data)
             \/ t[i].k = "read" /\ t[i + 1].k = "write" /\ t[i + 1].reg # t[i].reg
  <2>1. i \in 1..(n - 1) /\ i + 1 \in 1..(n - 1)
    BY <1>1, <1>3
  <2>2. t[i] = s[i + 1] /\ t[i + 1] = s[(i + 1) + 1]
    BY <1>3, <2>1
  <2> QED BY <1>6, <2>1, <2>2
<1>9. \/ s[1].k = "write" /\ s[2] = ReadCmd(s[1].reg, s[1].data)
      \/ s[1].k = "read" /\ s[2].k = "write" /\ s[2].reg # s[1].reg
  <2>1. 1 \in 1..(n - 1) /\ 1 + 1 = 2
    BY <1>1
  <2> QED BY <1>6, <2>1
<1> QED BY <1>4, <1>5, <1>7, <1>8, <1>9 DEF InitCommands, t

\* The delay after a command is over.
LEMMA DelayAnswer == ASSUME MInv, AInv, DelayOver PROVE AInv'
<1>1. /\ pc = "wait"
      /\ UNCHANGED <<word, calib, calib_para, rounds, chip, line, ring, rx_len, back,
                     accepted, broken>>
  BY DEF DelayOver, rxVars
<1>2. /\ todo \in Seq(Commands) /\ todo # <<>> /\ Len(todo) \in Nat /\ Len(todo) >= 1
      /\ Current = todo[1] /\ Current \in Commands /\ Current.k \in {"write", "read"}
      /\ Current.data \in Word
  BY CurrentType
<1>3. faults \in Nat
  BY DEF MInv, MeterTypeOK
<1>4. \/ line = <<>> /\ asked' = asked /\ faults' = faults
      \/ line # <<>> /\ asked' = NoWord /\ faults' = faults + 1
  BY DEF DelayOver
<1>5. /\ faults' = 0 => faults = 0 /\ line = <<>>
      /\ faults' <= 1 => faults <= 1
      /\ faults' <= 1 /\ faults = 1 => line = <<>> /\ faults' = 1
      /\ faults' <= 1 /\ line # <<>> => faults = 0 /\ faults' = 1
  BY <1>3, <1>4
<1>6. word = <<>>
  BY <1>1 DEF AInv
<1>7. phase # "init" => todo = ReadAARTU /\ Len(todo) = 1 /\ Current = ReadCmd(AARTU, 0)
                        /\ Current.k = "read" /\ Current.reg = AARTU
  <2>1. phase # "init" => todo = ReadAARTU
    BY DEF AInv, TodoOK
  <2> QED BY <2>1 DEF Current, ReadAARTU, ReadCmd
<1>8. phase = "init" => InitCommands(todo) /\ Current.reg \in Registers /\ Current.reg # AARTU
  <2> SUFFICES ASSUME phase = "init" PROVE InitCommands(todo) /\ Current.reg \in Registers
    BY InitAssumption
  <2>1. todo \in Seq(RegCommands)
    BY DEF MInv
  <2>2. todo[1] \in RegCommands
    BY <1>2, <2>1, TailType
  <2> QED BY <1>2, <2>2 DEF RegCommands, AInv, TodoOK
<1>9. phase = "init" /\ faults <= 1 => Written
  BY <1>1 DEF AInv, WrittenInv
<1>10. \/ /\ phase = "init" /\ Len(todo) > 1 /\ todo' = Tail(todo) /\ pc' = "send" /\ phase' = "init"
       \/ /\ phase = "init" /\ Len(todo) = 1 /\ phase' = "calib" /\ todo' = ReadAARTU
          /\ pc' = "send"
       \/ /\ phase # "init" /\ pc' = "use" /\ UNCHANGED <<phase, todo>>
  <2>1. Len(todo) > 1 => phase = "init"
    <3>1. \A x : x = 1 => ~(x > 1)
      OBVIOUS
    <3> QED BY <1>7, <3>1, Zenon
  <2> QED BY <2>1 DEF DelayOver
<1>11. phase' = "init" =>
         /\ phase = "init" /\ pc' = "send" /\ InitCommands(todo')
         /\ \/ Current.k = "write" /\ Current' = ReadCmd(Current.reg, Current.data)
            \/ Current.k = "read" /\ Current'.k = "write" /\ Current'.reg # Current.reg
  <2> SUFFICES ASSUME phase' = "init"
               PROVE  /\ phase = "init" /\ pc' = "send" /\ InitCommands(todo')
                      /\ \/ Current.k = "write" /\ Current' = ReadCmd(Current.reg, Current.data)
                         \/ /\ Current.k = "read" /\ Current'.k = "write"
                            /\ Current'.reg # Current.reg
    OBVIOUS
  <2>1. phase = "init" /\ Len(todo) > 1 /\ todo' = Tail(todo) /\ pc' = "send"
    BY <1>10
  <2>2. Current' = todo[2]
    BY <1>2, <1>8, <2>1, InitTail DEF Current
  <2> QED BY <1>2, <1>8, <2>1, <2>2, InitTail
<1>12. phase = "init" /\ phase' # "init" =>
         /\ phase' = "calib" /\ pc' = "send" /\ todo' = ReadAARTU
         /\ Current = ReadCmd(MeterControlReg0Add, MC0Word) /\ Current.k = "read"
         /\ Current.reg = MeterControlReg0Add /\ Current.data = MC0Word
  <2> SUFFICES ASSUME phase = "init", phase' # "init"
               PROVE  /\ phase' = "calib" /\ pc' = "send" /\ todo' = ReadAARTU
                      /\ Current = ReadCmd(MeterControlReg0Add, MC0Word)
    BY DEF ReadCmd
  <2>1. Len(todo) = 1 /\ phase' = "calib" /\ pc' = "send" /\ todo' = ReadAARTU
    BY <1>10
  <2>2. todo[1] = ReadCmd(MeterControlReg0Add, MC0Word)
    BY <1>8, <2>1 DEF InitCommands
  <2> QED BY <1>2, <2>1, <2>2
<1>13. phase # "init" => pc' = "use" /\ phase' = phase /\ todo' = todo /\ Current' = Current
  BY <1>10 DEF Current
<1>14. TodoOK' /\ (pc' # "use" => word' = <<>>)
  <2>1. phase = "init" \/ phase' = phase
    BY <1>13
  <2>2. TodoOK'
    BY <1>7, <1>11, <1>12, <1>13 DEF TodoOK
  <2> QED BY <1>1, <1>6, <2>2
<1>15. pc' = "send" \/ (pc' = "use" /\ phase # "init")
  BY <1>10
<1>16. ~broken /\ asked # NoWord /\ line = <<>> /\ Current.k = "read" => Holds(back, asked)
  BY <1>1 DEF AInv, UnderwayInv, Underway
<1>17. UnderwayInv'
  <2> SUFFICES ASSUME ~broken PROVE Underway'
    BY <1>1 DEF UnderwayInv
  <2>1. ring = <<>> /\ Feeds(rx_len, line)
    BY DEF AInv, UnderwayInv, Underway
  <2>2. pc' = "use" /\ asked' # NoWord => line = <<>> /\ Holds(back, asked')
    BY <1>4, <1>7, <1>15, <1>16
  <2> QED BY <1>1, <1>15, <2>1, <2>2 DEF Underway
<1>18. FaultlessInv'
  <2>1. faults' = 0 => ~broken /\ line = <<>>
    BY <1>5 DEF AInv, FaultlessInv, Faultless
  <2> QED BY <1>1, <1>15, <2>1 DEF FaultlessInv, Faultless
<1>19. WrittenInv'
  <2> SUFFICES ASSUME phase' = "init", faults' <= 1, (Current.k = "read")' PROVE Written'
    BY <1>15, <1>11 DEF WrittenInv
  <2>1. phase = "init" /\ pc' = "send" /\ Current' = ReadCmd(Current.reg, Current.data)
    BY <1>11
  <2>2. Written /\ Current'.reg = Current.reg /\ Current'.data = Current.data
    BY <1>5, <1>9, <2>1 DEF ReadCmd
  <2> QED BY <1>1, <1>5, <2>1, <2>2 DEF Written
<1>20. \/ /\ phase = "init" /\ Current.k = "read"
          /\ checked'.reg = Current.reg /\ checked'.data = Current.data
          /\ checked'.ok = 1 => Holds(back, Current.data)
       \/ ~(phase = "init" /\ Current.k = "read") /\ checked' = checked
  BY DEF DelayOver, CheckRegDataWrited, Current, Holds
<1>21. CheckedOK'
  <2> SUFFICES ASSUME checked'.ok = 1
               PROVE  /\ checked'.reg \in Registers
                      /\ phase' # "init" => checked'.reg = MeterControlReg0Add
                      /\ phase' = "init" /\ (Current.k = "write")' => checked'.reg # Current'.reg
    BY DEF CheckedOK
  <2>1. CASE phase = "init" /\ Current.k = "read"
    BY <1>8, <1>11, <1>12, <1>20, <2>1
  <2>2. CASE ~(phase = "init" /\ Current.k = "read")
    <3>1. checked' = checked
      BY <1>20, <2>2
    <3>2. phase # "init" \/ (phase' = "init" /\ Current' = ReadCmd(Current.reg, Current.data))
      BY <1>11, <1>12, <2>2
    <3>3. phase' = "init" => Current'.k = "read"
      BY <1>13, <3>2 DEF ReadCmd
    <3> QED BY <1>13, <3>1, <3>2, <3>3 DEF AInv, CheckedOK
  <2> QED BY <2>1, <2>2
<1>22. VerifiedWrite'
  <2> SUFFICES ASSUME checked'.ok = 1, faults' <= 1 PROVE chip[checked'.reg] = checked'.data
    BY <1>1 DEF VerifiedWrite
  <2>1. CASE phase = "init" /\ Current.k = "read"
    <3>1. checked'.reg = Current.reg /\ checked'.data = Current.data /\ Holds(back, Current.data)
      BY <1>20, <2>1
    <3>2. Written
      BY <1>5, <1>9, <2>1
    <3>3. CASE chip[Current.reg] = Current.data
      BY <3>1, <3>3
    <3>4. CASE chip[Current.reg] # Current.data
      <4>1. ~broken /\ faults = 1 /\ asked = chip[Current.reg]
        BY <1>1, <2>1, <3>2, <3>4 DEF Written
      <4>2. asked \in Word /\ asked # NoWord /\ line = <<>>
        <5>1. asked \in Word
          BY <1>8, <2>1, <4>1 DEF MInv, MeterTypeOK
        <5> QED BY <1>5, <4>1, <5>1, WordSize DEF Word, NoWord
      <4>3. Holds(back, asked)
        BY <1>16, <2>1, <4>1, <4>2
      <4>4. Bytes(asked) = Bytes(Current.data)
        BY <3>1, <4>3 DEF Holds
      <4>5. asked = Current.data
        BY <1>2, <4>2, <4>4, BytesInjective
      <4> QED BY <3>4, <4>1, <4>5
    <3> QED BY <3>3, <3>4
  <2>2. CASE ~(phase = "init" /\ Current.k = "read")
    BY <1>5, <1>20, <2>2 DEF AInv, VerifiedWrite
  <2> QED BY <2>1, <2>2
<1>23. CalibInv'
  <2> SUFFICES ASSUME ReadOrder[1] = WORD_BYTES, phase' = "calib", ~broken, faults' <= 1
               PROVE  Calibrating'
    BY <1>1 DEF CalibInv
  <2>1. CASE phase = "init"
    <3>1. faults' = 0 => Holds(back, MC0Word)
      <4> SUFFICES ASSUME faults' = 0 PROVE Holds(back, MC0Word)
        OBVIOUS
      <4>1. faults = 0 /\ line = <<>>
        BY <1>5
      <4>2. asked # NoWord /\ asked \in Reading(Current.reg) /\ Current.k = "read"
        BY <1>1, <1>12, <2>1, <4>1 DEF AInv, FaultlessInv, Faultless
      <4>3. asked = chip[Current.reg]
        BY <1>8, <2>1, <4>2 DEF Reading
      <4>4. chip[Current.reg] = MC0Word
        BY <1>9, <1>12, <2>1, <4>1 DEF Written
      <4> QED BY <1>16, <4>1, <4>2, <4>3, <4>4
    <3>2. pc' = "send"
      BY <1>12, <2>1
    <3> QED BY <1>1, <3>1, <3>2 DEF Calibrating, Holds
  <2>2. CASE phase # "init"
    <3>1. phase = "calib" /\ pc' = "use" /\ Current = ReadCmd(AARTU, 0) /\ Current.k = "read"
      BY <1>7, <1>13, <2>2
    <3>2. \/ asked \in Measured /\ (faults = 0 => (line = <<>> \/ Holds(back, MC0Word)))
          \/ asked = NoWord /\ faults = 1 /\ Holds(back, MC0Word) /\ ErrOnly(line)
      BY <1>1, <1>5, <3>1 DEF AInv, CalibInv, Calibrating
    <3>3. \A v \in Measured : v # NoWord
      BY MeterAssumption, WordSize DEF Word, NoWord
    <3>4. CASE asked \in Measured /\ line = <<>>
      <4>1. Holds(back, asked)
        BY <1>16, <3>1, <3>3, <3>4
      <4>2. IsReading(asked)
        <5>1. \A j \in 1..Len(word) : FALSE
          BY <1>6
        <5> QED BY <4>1, <5>1 DEF IsReading
      <4>3. line' = <<>> /\ \E v \in Measured : IsReading(v)'
        <5>1. \A v : IsReading(v) => IsReading(v)'
          BY <1>1 DEF IsReading, Holds
        <5> QED BY <1>1, <3>4, <4>2, <5>1
      <4> QED BY <3>1, <4>3 DEF Calibrating
    <3>5. CASE asked \in Measured /\ line # <<>>
      <4>1. faults = 0 /\ Holds(back, MC0Word)
        BY <1>5, <3>2, <3>3, <3>5
      <4>2. line = Whole(Answer(Current, asked))
        BY <1>1, <3>5, <4>1 DEF AInv, FaultlessInv, Faultless
      <4>3. word' = <<>> /\ Holds(back, MC0Word)'
            /\ \E v \in Measured : line' = Whole(Answer(ReadCmd(AARTU, 0), v))
        BY <1>1, <1>6, <3>1, <3>5, <4>1, <4>2 DEF Holds
      <4> QED BY <3>1, <4>3 DEF Calibrating
    <3>6. CASE asked \notin Measured
      <4>1. word' = <<>> /\ Holds(back, MC0Word)' /\ ErrOnly(line)'
        BY <1>1, <1>6, <3>2, <3>6 DEF Holds, ErrOnly
      <4> QED BY <3>1, <4>1 DEF Calibrating
    <3> QED BY <3>4, <3>5, <3>6
  <2> QED BY <2>1, <2>2
<1>24. AcceptedIsReading'
  BY <1>1, <1>5 DEF AInv, AcceptedIsReading
<1> QED BY <1>14, <1>17, <1>18, <1>19, <1>21, <1>22, <1>23, <1>24 DEF AInv

\* A byte of the answer is used.
LEMMA UseByteAnswer == ASSUME MInv, AInv, UseByte PROVE AInv'
<1> DEFINE n == WORD_BYTES
           k == Len(word)
           o == ReadOrder[k + 1]
           x == back[3 + o]
<1>1. /\ pc = "use" /\ k < n /\ word' = Append(word, x)
      /\ UNCHANGED <<phase, todo, pc, calib, calib_para, rounds, chip, line, ring, rx_len,
                     back, checked, asked, accepted, broken, faults>>
  BY DEF UseByte, rxVars
<1>2. /\ word \in Seq(Byte) /\ k \in Nat /\ back \in [1..FrameLen -> Byte]
      /\ n \in Nat \ {0} /\ MC0Word \in Word
  BY WordSize, MeterAssumption, LenProperties DEF MInv, MeterTypeOK
<1>3. x \in Byte /\ o \in 1..n /\ o + 3 = 3 + o
  <2>1. k + 1 \in 1..n
    BY <1>1, <1>2
  <2>2. o \in 1..n
    BY <2>1, ReadOrderType
  <2> HIDE DEF o
  <2>3. 3 + o \in 1..FrameLen /\ o + 3 = 3 + o
    BY <1>2, <2>2 DEF FrameLen
  <2> QED BY <1>2, <2>2, <2>3
<1> HIDE DEF k, x, n, o
<1>4. /\ Len(word') = k + 1 /\ word' # <<>>
      /\ \A j \in 1..k : word'[j] = word[j]
      /\ word'[k + 1] = x
  <2>1. /\ word' \in Seq(Byte) /\ Len(word') = Len(word) + 1
        /\ \A j \in 1..Len(word) : word'[j] = word[j]
        /\ word'[Len(word) + 1] = x
    BY <1>1, <1>2, <1>3, AppendProperties
  <2>2. \A y \in Nat : y + 1 # 0
    OBVIOUS
  <2>3. word' # <<>>
    BY <1>2, <2>1, <2>2, EmptySeq DEF k
  <2> QED BY <2>1, <2>3 DEF k
<1>5. ASSUME NEW w \in Word, Holds(back, w) PROVE x = Bytes(w)[o]
  <2>1. \A i \in 1..n : back[i + 3] = Bytes(w)[i]
    BY <1>2, <1>5, HoldsAt DEF n
  <2>2. back[o + 3] = Bytes(w)[o]
    BY <1>3, <2>1
  <2> QED BY <1>3, <2>2 DEF x
<1>6. TodoOK' /\ (pc' # "use" => word' = <<>>)
  BY <1>1 DEF AInv, TodoOK
<1>7. UnderwayInv' /\ FaultlessInv'
  BY <1>1 DEF AInv, UnderwayInv, Underway, FaultlessInv, Faultless, Current, Holds, Reading
<1>8. WrittenInv' /\ CheckedOK'
  BY <1>1 DEF AInv, WrittenInv, Written, CheckedOK, Current
<1>9. VerifiedWrite' /\ AcceptedIsReading'
  BY <1>1 DEF AInv, VerifiedWrite, AcceptedIsReading
<1>10. CalibInv'
  <2> SUFFICES ASSUME ReadOrder[1] = WORD_BYTES, phase = "calib", ~broken, faults <= 1
               PROVE  Calibrating'
    BY <1>1 DEF CalibInv
  <2>1. Calibrating
    BY DEF AInv, CalibInv
  <2>2. CASE word # <<>> /\ word[1] = TopByte(MC0Word)
    <3>1. 1 \in 1..k
      <4>1. k # 0
        BY <1>2, <2>2, EmptySeq DEF k
      <4> QED BY <1>2, <4>1
    <3>2. word' # <<>> /\ word'[1] = TopByte(MC0Word)
      BY <1>4, <2>2, <3>1
    <3> QED BY <1>1, <3>2 DEF Calibrating
  <2>3. CASE line = <<>> /\ \E w \in Measured : IsReading(w)
    <3>1. PICK w \in Measured : IsReading(w)
      BY <2>3
    <3>2. w \in Word /\ Holds(back, w) /\ \A j \in 1..k : word[j] = Bytes(w)[ReadOrder[j]]
      BY <3>1, MeterAssumption DEF IsReading, k, n
    <3>3. word'[k + 1] = Bytes(w)[ReadOrder[k + 1]]
      BY <1>4, <1>5, <3>2 DEF o
    <3>4. \A j \in 1..(k + 1) : word'[j] = Bytes(w)[ReadOrder[j]]
      <4> TAKE j \in 1..(k + 1)
      <4>1. j \in 1..k \/ j = k + 1
        BY <1>2
      <4> QED BY <1>4, <3>2, <3>3, <4>1
    <3>5. IsReading(w)'
      BY <1>1, <1>4, <3>2, <3>4 DEF IsReading, Holds, n
    <3> QED BY <1>1, <2>3, <3>5 DEF Calibrating
  <2>4. CASE word = <<>> /\ Holds(back, MC0Word)
    <3>1. k = 0 /\ k + 1 = 1 /\ o = n
      BY <1>2, <2>4 DEF k, o, n
    <3>2. word'[1] = Bytes(MC0Word)[n]
      BY <1>2, <1>4, <1>5, <2>4, <3>1
    <3>3. word' # <<>> /\ word'[1] = TopByte(MC0Word)
      BY <1>4, <3>2, TopByteIs DEF n
    <3> QED BY <1>1, <3>3 DEF Calibrating
  <2> QED BY <1>1, <2>1, <2>2, <2>3, <2>4 DEF Calibrating
<1> QED BY <1>6, <1>7, <1>8, <1>9, <1>10 DEF AInv

\* CalibVoltage decides.
LEMMA CalibratedAnswer == ASSUME MInv, AInv, Calibrated PROVE AInv'
<1> DEFINE b == Assembled(word)
           voltage == Value(b)
           stored == [calib EXCEPT ![WARTUIndex] = ErrRAM(voltage)]
<1>1. /\ pc = "use" /\ phase = "calib" /\ Len(word) = WORD_BYTES
      /\ \/ /\ Precise(voltage) /\ phase' = "metering" /\ todo' = ReadAARTU
            /\ accepted' = voltage
         \/ /\ phase' = "init" /\ calib' = stored /\ todo' = Meter_init(stored)
            /\ UNCHANGED accepted
      /\ pc' = "send" /\ word' = <<>>
      /\ UNCHANGED <<chip, line, ring, rx_len, back, checked, asked, broken, faults>>
  BY DEF Calibrated, rxVars
<1>2. calib' = stored /\ MInv'
  BY CalibratedInv DEF Calibrated
<1>3. stored \in [1..Len(ErrorRegs) -> Word]
  <2> HIDE DEF stored
  <2>1. calib' \in [1..Len(ErrorRegs) -> Word]
    BY <1>2 DEF MInv, MeterTypeOK
  <2> QED BY <1>2, <2>1
<1> HIDE DEF stored
<1>4. phase' = "init" =>
        /\ InitCommands(todo') /\ Current'.k = "write" /\ Current'.reg # MeterControlReg0Add
  <2> SUFFICES ASSUME phase' = "init"
               PROVE  /\ InitCommands(todo') /\ Current'.k = "write"
                      /\ Current'.reg # MeterControlReg0Add
    OBVIOUS
  <2>1. todo' = Meter_init(stored)
    BY <1>1
  <2>2. Current' = todo'[1]
    <3>1. todo' \in Seq(RegCommands) /\ todo' # <<>>
      BY <1>3, <2>1, MeterInitType
    <3> QED BY <3>1 DEF Current
  <2> QED BY <1>3, <2>1, <2>2, MeterInitChain
<1>5. TodoOK' /\ (pc' # "use" => word' = <<>>)
  BY <1>1, <1>4 DEF TodoOK
<1>6. UnderwayInv'
  BY <1>1 DEF AInv, UnderwayInv, Underway
<1>7. FaultlessInv'
  BY <1>1 DEF AInv, FaultlessInv, Faultless
<1>8. WrittenInv'
  BY <1>1, <1>4 DEF WrittenInv
<1>9. CheckedOK'
  BY <1>1, <1>4 DEF AInv, CheckedOK
<1>10. VerifiedWrite' /\ CalibInv'
  BY <1>1 DEF AInv, VerifiedWrite, CalibInv
<1>11. AcceptedIsReading'
  <2>1. CASE UNCHANGED accepted
    BY <1>1, <2>1 DEF AInv, AcceptedIsReading
  <2>2. CASE Precise(voltage) /\ accepted' = voltage
    <3> SUFFICES ASSUME ReadOrder[1] = WORD_BYTES, ~broken, faults <= 1
                 PROVE  voltage \in Measured
      BY <1>1, <2>2 DEF AcceptedIsReading
    <3>1. Calibrating /\ word \in Seq(Byte)
      BY <1>1 DEF AInv, CalibInv, MInv, MeterTypeOK
    <3>2. word # <<>>
      <4>1. Len(word) # 0
        BY <1>1, WordSize
      <4> QED BY <4>1
    <3>3. b \in Seq(Byte) /\ Len(b) = WORD_BYTES
      BY <1>1, <3>1, AssembledType
    <3>4. ASSUME NEW j \in 1..WORD_BYTES
          PROVE  /\ ReadAt(WORD_BYTES + 1 - j) \in 1..WORD_BYTES
                 /\ ReadOrder[ReadAt(WORD_BYTES + 1 - j)] = WORD_BYTES + 1 - j
                 /\ b[j] = word[ReadAt(WORD_BYTES + 1 - j)]
      <4>1. WORD_BYTES + 1 - j \in 1..WORD_BYTES
        BY WordSize
      <4> QED BY <4>1, ReadAtIs DEF Assembled
    <3>5. b[1] = word[1]
      <4>1. 1 \in 1..WORD_BYTES /\ WORD_BYTES + 1 - 1 = WORD_BYTES
        BY WordSize
      <4>2. ReadAt(WORD_BYTES) \in 1..WORD_BYTES /\ ReadOrder[ReadAt(WORD_BYTES)] = WORD_BYTES
            /\ b[1] = word[ReadAt(WORD_BYTES)]
        BY <3>4, <4>1
      <4>3. ReadAt(WORD_BYTES) = 1
        BY <4>1, <4>2, ReadOrderAssumption
      <4> QED BY <4>2, <4>3
    <3>6. word[1] # TopByte(MC0Word)
      BY <2>2, <3>3, <3>5, StaleNotPrecise
    <3>7. PICK w \in Measured : IsReading(w)
      BY <1>1, <3>1, <3>2, <3>6 DEF Calibrating
    <3>8. w \in Word /\ \A j \in 1..WORD_BYTES : word[j] = Bytes(w)[ReadOrder[j]]
      BY <1>1, <3>7, MeterAssumption DEF IsReading
    <3>9. \A j \in 1..WORD_BYTES : b[j] = Bytes(w)[WORD_BYTES + 1 - j]
      BY <3>4, <3>8
    <3>10. voltage = w
      BY <3>3, <3>8, <3>9, BytesValue
    <3> QED BY <3>10
  <2> QED BY <1>1, <2>1, <2>2
<1> QED BY <1>5, <1>6, <1>7, <1>8, <1>9, <1>10, <1>11 DEF AInv

\* ReadVoltage is done.
LEMMA MeteredAnswer == ASSUME MInv, AInv, Metered PROVE AInv'
<1>1. /\ pc = "use" /\ phase = "metering" /\ word' = <<>> /\ pc' = "send"
      /\ UNCHANGED <<phase, todo, calib, calib_para, rounds, chip, line, ring, rx_len,
                     back, checked, asked, accepted, broken, faults>>
  BY DEF Metered, rxVars
<1>2. TodoOK' /\ UnderwayInv' /\ FaultlessInv'
  BY <1>1 DEF AInv, TodoOK, UnderwayInv, Underway, FaultlessInv, Faultless
<1>3. WrittenInv' /\ CheckedOK' /\ VerifiedWrite' /\ CalibInv' /\ AcceptedIsReading'
  BY <1>1 DEF AInv, WrittenInv, CheckedOK, VerifiedWrite, CalibInv, AcceptedIsReading, Current
<1> QED BY <1>1, <1>2, <1>3 DEF AInv

\* Every step keeps the invariant.
LEMMA AnswerStep == MInv /\ AInv /\ [Next]_vars => AInv'
<1> SUFFICES ASSUME MInv, AInv, [Next]_vars PROVE AInv'
  OBVIOUS
<1>1. CASE TaskStep
  BY <1>1, SendAnswer, DelayAnswer, UseByteAnswer, CalibratedAnswer, MeteredAnswer DEF TaskStep
<1>2. CASE UART1_IRQHandler
  BY <1>2, IrqAnswer
<1>3. CASE UNCHANGED vars
  <2>1. UNCHANGED <<phase, todo, pc, word, calib, calib_para, rounds, chip, line, ring,
                    rx_len, back, checked, asked, accepted, broken, faults>>
    BY <1>3 DEF vars, taskVars, rxVars
  <2>2. UnderwayInv' /\ FaultlessInv'
    BY <2>1 DEF AInv, UnderwayInv, Underway, FaultlessInv, Faultless, Current, Holds, Reading
  <2>3. WrittenInv' /\ CheckedOK' /\ TodoOK' /\ (pc' # "use" => word' = <<>>)
    BY <2>1 DEF AInv, WrittenInv, Written, CheckedOK, Current, TodoOK
  <2>4. VerifiedWrite' /\ AcceptedIsReading'
    BY <2>1 DEF AInv, VerifiedWrite, AcceptedIsReading
  <2>5. CalibInv'
    <3>1. Calibrating => Calibrating'
      BY <2>1 DEF Calibrating, Holds, IsReading, ErrOnly
    <3> QED BY <2>1, <3>1 DEF AInv, CalibInv
  <2> QED BY <2>2, <2>3, <2>4, <2>5 DEF AInv
<1> QED BY <1>1, <1>2, <1>3 DEF Next, Bounded

\* What the line, ReadRegBackBuf and the chip have to do with each other in every
\* state of the metering task.
THEOREM AnswerInvariant == Spec => []AInv
BY AnswerInit, AnswerStep, MeterInvariant, PTL DEF Spec

\* As long as the parser is never cut off in a frame, an answer that got out
\* undamaged and in time is what the task finds in ReadRegBackBuf, also when
\* earlier ones were lost or late.
THEOREM AnswerIsProcessed == Spec => []WholeAnswerProcessed
<1>1. AInv => WholeAnswerProcessed
  BY DEF AInv, UnderwayInv, Underway, WholeAnswerProcessed, AnswerProcessed, Holds
<1> QED BY <1>1, AnswerInvariant, PTL

\* CheckRegDataWrited reports a word as written after at most one fault only if
\* it is in its register, though the answers do not name the register.
THEOREM WriteIsVerified == Spec => []VerifiedWrite
<1>1. AInv => VerifiedWrite
  BY DEF AInv
<1> QED BY <1>1, AnswerInvariant, PTL

\* After at most one fault CalibVoltage accepts only a word that the chip measured.
THEOREM AcceptedIsMeasured == Spec => []AcceptedIsReading
<1>1. AInv => AcceptedIsReading
  BY DEF AInv
<1> QED BY <1>1, AnswerInvariant, PTL
=============================================================================
