--------------------------- MODULE MeterLinkProofs ---------------------------
(***************************************************************************)
(* Proofs about MeterLink, for every size of a word, of the receive ring and  *)
(* of the calibration tables, and whatever the line loses, delays or cuts:    *)
(* the variables keep their types, the ring is never full, and                *)
(* ReadRegBackBuf never holds a part of an answer.                            *)
(***************************************************************************)
EXTENDS MeterLink, SumProofs

-----------------------------------------------------------------------------
(***************************************************************************)
(* Words and bytes.                                                        *)
(***************************************************************************)
\* The weights of the bytes follow their definition.
LEMMA PlaceDef ==
  /\ Place[0] = 1
  /\ \A i \in 1..WORD_BYTES : Place[i] = 256 * Place[i - 1]
<1> DEFINE Q(f) == f = [i \in 0..WORD_BYTES |-> IF i = 0 THEN 1 ELSE 256 * f[i - 1]]
           v == CHOOSE f : Q(f)
           G == [i \in 1..WORD_BYTES |-> [x \in Int |-> 256 * x]]
<1>1. WORD_BYTES \in Nat
  BY MeterAssumption
<1>2. G \in [1..WORD_BYTES -> [Int -> Int]]
  OBVIOUS
<1>3. PICK f : Recursive(f, WORD_BYTES, Int, 1, G)
  <2>1. 1 \in Int
    OBVIOUS
  <2> HIDE DEF G
  <2> QED BY <1>1, <1>2, <2>1, RecExists, Zenon
<1>4. \A i \in 1..WORD_BYTES : f[i] = 256 * f[i - 1]
  <2> TAKE i \in 1..WORD_BYTES
  <2>1. i - 1 \in 0..WORD_BYTES
    BY <1>1
  <2>2. f[i - 1] \in Int
    <3> HIDE DEF G
    <3> QED BY <1>3, <2>1 DEF Recursive
  <2> QED BY <1>3, <2>2 DEF Recursive
<1>5. Q(f)
  <2> HIDE DEF G
  <2>1. \A i \in 0..WORD_BYTES : f[i] = IF i = 0 THEN 1 ELSE 256 * f[i - 1]
    BY <1>1, <1>3, <1>4 DEF Recursive
  <2> QED BY <1>3, <2>1 DEF Recursive
<1>6. Q(v)
  <2> HIDE DEF Q
  <2> QED BY <1>5
<1>7. Place = v
  BY DEF Place
<1> HIDE DEF v
<1>8. \A i \in 0..WORD_BYTES : v[i] = IF i = 0 THEN 1 ELSE 256 * v[i - 1]
  BY <1>6, Zenon
<1>9. 0 \in 0..WORD_BYTES /\ \A i \in 1..WORD_BYTES : i \in 0..WORD_BYTES /\ i # 0
  BY <1>1
<1> HIDE DEF Q
<1> QED BY <1>7, <1>8, <1>9, ZenonT(30)

\* They are positive numbers.
LEMMA PlaceType == \A i \in 0..WORD_BYTES : Place[i] \in Nat \ {0}
<1> DEFINE T == {m \in Nat : m <= WORD_BYTES => Place[m] \in Nat \ {0}}
<1>1. WORD_BYTES \in Nat
  BY MeterAssumption
<1>2. T \in SUBSET Nat /\ 0 \in T
  BY PlaceDef
<1>3. ASSUME NEW m \in T PROVE m + 1 \in T
  <2> SUFFICES ASSUME m + 1 <= WORD_BYTES PROVE Place[m + 1] \in Nat \ {0}
    OBVIOUS
  <2>1. m + 1 \in 1..WORD_BYTES /\ (m + 1) - 1 = m /\ Place[m] \in Nat \ {0}
    BY <1>1
  <2>2. Place[m + 1] = 256 * Place[m]
    BY <2>1, PlaceDef
  <2>3. \A x \in Nat \ {0} : 256 * x \in Nat \ {0}
    OBVIOUS
  <2> QED BY <2>1, <2>2, <2>3
<1>4. T = Nat
  <2> HIDE DEF T
  <2> QED BY <1>2, <1>3, SetInduction
<1> QED BY <1>1, <1>4

\* The number of words is positive.
LEMMA WordSize == U32 \in Nat \ {0} /\ WORD_BYTES \in Nat \ {0}
BY MeterAssumption, PlaceType

\* A remainder is less than what one divides by.
LEMMA ModRange == ASSUME NEW a \in Int, NEW m \in Nat \ {0} PROVE a % m \in 0..(m - 1)
OBVIOUS

\* The bytes of a word are bytes.
LEMMA BytesType ==
  ASSUME NEW w \in Word
  PROVE  Bytes(w) \in Seq(Byte) /\ Len(Bytes(w)) = WORD_BYTES
<1>1. w \in Int /\ WORD_BYTES \in Nat
  BY WordSize DEF Word
<1>2. \A i \in 1..WORD_BYTES : (w \div Place[i - 1]) % 256 \in Byte
  <2> TAKE i \in 1..WORD_BYTES
  <2>1. i - 1 \in 0..WORD_BYTES
    BY <1>1
  <2> DEFINE d == Place[i - 1]
             e == w \div d
  <2>2. d \in Nat \ {0}
    BY <2>1, PlaceType
  <2> HIDE DEF d
  <2>3. e \in Int
    BY <1>1, <2>2
  <2> HIDE DEF e
  <2>4. e % 256 \in 0..255
    BY <2>3
  <2> QED BY <2>4 DEF Byte, d, e
<1> DEFINE B(i) == (w \div Place[i - 1]) % 256
<1>3. \A i \in 1..WORD_BYTES : B(i) \in Byte
  BY <1>2
<1>4. Bytes(w) = [i \in 1..WORD_BYTES |-> B(i)]
  BY DEF Bytes
<1> HIDE DEF B
<1> QED BY <1>1, <1>3, <1>4

\* The value of bytes follows its definition.
LEMMA ValueIs ==
  ASSUME NEW b \in Seq(Byte), Len(b) = WORD_BYTES
  PROVE  /\ \E v : /\ Value(b) = v[WORD_BYTES] /\ v[0] = 0
                  /\ \A i \in 1..WORD_BYTES : v[i] = 256 * v[i - 1] + b[i]
         /\ \A i \in 1..WORD_BYTES : b[i] \in 0..255
<1> DEFINE n == Len(b)
           Q(f) == f = [i \in 0..n |-> IF i = 0 THEN 0 ELSE 256 * f[i - 1] + b[i]]
           v == CHOOSE f : Q(f)
           G == [i \in 1..n |-> [x \in Int |-> 256 * x + b[i]]]
<1>1. n \in Nat /\ n = WORD_BYTES
  BY WordSize
<1>2. \A i \in 1..n : b[i] \in 0..255
  BY ElementOfSeq DEF Byte
<1> HIDE DEF n
<1>3. G \in [1..n -> [Int -> Int]]
  <2>1. \A i \in 1..n : \A x \in Int : 256 * x + b[i] \in Int
    <3>1. \A x \in Int : \A y \in 0..255 : 256 * x + y \in Int
      OBVIOUS
    <3> QED BY <1>2, <3>1, Zenon
  <2> QED BY <2>1
<1>4. PICK f : Recursive(f, n, Int, 0, G)
  <2>1. 0 \in Int
    OBVIOUS
  <2> HIDE DEF G
  <2> QED BY <1>1, <1>3, <2>1, RecExists, Zenon
<1>5. \A i \in 1..n : f[i] = 256 * f[i - 1] + b[i]
  <2> TAKE i \in 1..n
  <2>1. i - 1 \in 0..n
    BY <1>1
  <2>2. f[i - 1] \in Int
    <3> HIDE DEF G
    <3> QED BY <1>4, <2>1 DEF Recursive
  <2> QED BY <1>4, <2>2 DEF Recursive
<1>6. Q(f)
  <2> HIDE DEF G
  <2>1. \A i \in 0..n : f[i] = IF i = 0 THEN 0 ELSE 256 * f[i - 1] + b[i]
    BY <1>1, <1>4, <1>5 DEF Recursive
  <2> QED BY <1>4, <2>1 DEF Recursive
<1>7. Q(v)
  <2> HIDE DEF Q
  <2> QED BY <1>6
<1>8. Value(b) = v[n]
  BY DEF Value, n
<1> HIDE DEF v
<1>9. v[0] = 0 /\ \A i \in 1..n : v[i] = 256 * v[i - 1] + b[i]
  <2>1. \A i \in 0..n : v[i] = IF i = 0 THEN 0 ELSE 256 * v[i - 1] + b[i]
    BY <1>7, Zenon
  <2>2. 0 \in 0..n /\ \A i \in 1..n : i \in 0..n /\ i # 0
    BY <1>1
  <2> HIDE DEF Q
  <2> QED BY <2>1, <2>2, Zenon
<1> HIDE DEF Q
<1> QED BY <1>1, <1>2, <1>8, <1>9

\* So many bytes make a word.
LEMMA ValueType ==
  ASSUME NEW b \in Seq(Byte), Len(b) = WORD_BYTES
  PROVE  Value(b) \in Word
<1> DEFINE n == WORD_BYTES
<1>1. n \in Nat /\ n = WORD_BYTES
  BY WordSize
<1>2. \A i \in 1..n : b[i] \in 0..255
  BY ValueIs, ZenonT(30)
<1>3. PICK v : Value(b) = v[n] /\ v[0] = 0 /\ \A i \in 1..n : v[i] = 256 * v[i - 1] + b[i]
  BY ValueIs, ZenonT(30)
<1> HIDE DEF n
<1>4. v[0] = 0 /\ \A i \in 1..n : v[i] = 256 * v[i - 1] + b[i]
  BY <1>3
<1> DEFINE T == {m \in Nat : m <= n => v[m] \in 0..(Place[m] - 1)}
<1>5. T = Nat
  <2>1. T \in SUBSET Nat /\ 0 \in T
    BY <1>4, PlaceDef
  <2>2. ASSUME NEW m \in T PROVE m + 1 \in T
    <3> SUFFICES ASSUME m + 1 <= n PROVE v[m + 1] \in 0..(Place[m + 1] - 1)
      OBVIOUS
    <3>1. m + 1 \in 1..n /\ (m + 1) - 1 = m /\ v[m] \in 0..(Place[m] - 1) /\ m \in 0..n
      BY <1>1
    <3>2. v[m + 1] = 256 * v[m] + b[m + 1] /\ b[m + 1] \in 0..255
      BY <1>2, <1>4, <3>1
    <3>3. Place[m + 1] = 256 * Place[m] /\ Place[m] \in Nat \ {0}
      BY <1>1, <3>1, PlaceDef, PlaceType
    <3>4. \A p \in Nat \ {0} : \A x \in 0..(p - 1) : \A y \in 0..255 :
            256 * x + y \in 0..((256 * p) - 1)
      OBVIOUS
    <3>5. 256 * v[m] + b[m + 1] \in 0..((256 * Place[m]) - 1)
      <4> DEFINE x == v[m]
                 y == b[m + 1]
                 p == Place[m]
      <4>1. p \in Nat \ {0} /\ x \in 0..(p - 1) /\ y \in 0..255
        BY <3>1, <3>2, <3>3, Zenon
      <4> HIDE DEF x, y, p
      <4>2. 256 * x + y \in 0..((256 * p) - 1)
        BY <3>4, <4>1, SMTT(30)
      <4> QED BY <4>2 DEF x, y, p
    <3> QED BY <3>2, <3>3, <3>5, Zenon
  <2> HIDE DEF T
  <2> QED BY <2>1, <2>2, SetInduction
<1>6. v[n] \in 0..(Place[n] - 1)
  BY <1>1, <1>5
<1> QED BY <1>1, <1>3, <1>6, MeterAssumption DEF Word
-----------------------------------------------------------------------------
(***************************************************************************)
(* Frames.                                                                 *)
(***************************************************************************)
\* Bytes are numbers.
LEMMA ByteSeqInt == ASSUME NEW b \in Seq(Byte) PROVE b \in Seq(Int)
<1>1. Byte \subseteq Int
  BY DEF Byte
<1> QED BY <1>1, SeqMonotonic

\* A count of words is none, one or more.
LEMMA ByteCases == ASSUME NEW x \in Byte PROVE x \in Nat /\ (x > 1 \/ x = 0 \/ x = 1)
BY DEF Byte

\* The check byte is the one of the sum.
LEMMA CheckIs == ASSUME NEW b PROVE Check(b) = CheckOf(ByteSum(b))
BY DEF Check, CheckOf, ByteSum

\* It is a byte.
LEMMA CheckType == ASSUME NEW b \in Seq(Byte) PROVE Check(b) \in Byte
<1>1. ByteSum(b) \in Int
  BY ByteSeqInt, SumType
<1>2. CheckOf(ByteSum(b)) \in 0..255
  BY <1>1, CheckOfType
<1> QED BY <1>2, CheckIs DEF Byte

\* A frame is one byte longer than what it carries.
LEMMA FramedType ==
  ASSUME NEW b \in Seq(Byte)
  PROVE  Framed(b) \in Seq(Byte) /\ Len(Framed(b)) = Len(b) + 1
<1>1. Check(b) \in Byte
  BY CheckType
<1> QED BY <1>1, AppendProperties DEF Framed

\* The header of an answer.
LEMMA HeaderType ==
  ASSUME NEW reg \in RegAddr, NEW rac \in {RacWrite, RacRead}
  PROVE  Header(reg, rac) \in Byte
<1>1. reg \div 256 \in 0..15
  BY DEF RegAddr
<1>2. \A x \in 0..15 : \A y \in 1..2 : x * 16 + y \in 0..255
  OBVIOUS
<1> QED BY <1>1, <1>2 DEF Header, RacWrite, RacRead, Byte

\* A word with the header of a read answer that says one word follows and with
\* that count for a check byte does not pass the check.
LEMMA NoShortAnswer ==
  ASSUME NEW hdr \in Byte, hdr % 16 = RacRead
  PROVE  Check(<<FE, hdr, 1>>) # 1
<1> DEFINE b == <<FE, hdr, 1>>
<1>1. b \in Seq(Int) /\ Len(b) = 3 /\ b[1] = 254 /\ b[2] = hdr /\ b[3] = 1
  BY DEF FE, Byte
<1> HIDE DEF b
<1>2. PICK f : Sums(f, b, Len(b)) /\ ByteSum(b) = f[Len(b)]
  BY <1>1, SumIsLast
<1>3. f[0] = 0 /\ \A i \in 1..3 : f[i] = f[i - 1] + b[i]
  BY <1>1, <1>2 DEF Sums
<1>4. f[1] = 254
  BY <1>1, <1>3
<1>5. f[2] = 254 + hdr
  BY <1>1, <1>3, <1>4
<1>6. f[3] = 254 + hdr + 1
  BY <1>1, <1>3, <1>5
<1>7. ByteSum(b) = 255 + hdr
  BY <1>1, <1>2, <1>6 DEF Byte
<1>8. CheckOf(255 + hdr) # 1
  <2>1. hdr \in 0..255 /\ hdr % 16 = 1
    BY DEF Byte, RacRead
  <2>2. hdr # 50
    BY <2>1
  <2> QED BY <2>1, <2>2 DEF CheckOf
<1> QED BY <1>7, <1>8, CheckIs DEF b
-----------------------------------------------------------------------------
(***************************************************************************)
(* The parser.                                                             *)
(***************************************************************************)
\* What is left of the ring is part of it.
LEMMA RestType ==
  ASSUME NEW S, NEW s \in Seq(S), NEW n \in Nat
  PROVE  Rest(s, n) \in Seq(S) /\ Len(Rest(s, n)) <= Len(s)
<1>1. Len(s) \in Nat
  BY LenProperties
<1>2. n + 1 \in Int /\ Len(s) \in Int /\ \A i \in (n + 1)..Len(s) : s[i] \in S
  <2>1. \A i \in (n + 1)..Len(s) : i \in 1..Len(s)
    BY <1>1
  <2>2. \A i \in (n + 1)..Len(s) : s[i] \in S
    BY <2>1, ElementOfSeq
  <2> QED BY <1>1, <2>2
<1>3. /\ SubSeq(s, n + 1, Len(s)) \in Seq(S)
      /\ Len(SubSeq(s, n + 1, Len(s))) = IF n + 1 <= Len(s) THEN Len(s) - (n + 1) + 1 ELSE 0
  BY <1>2, SubSeqProperties
<1> QED BY <1>1, <1>3 DEF Rest

\* If it is asked for no more than it has, that much shorter.
LEMMA RestLen ==
  ASSUME NEW S, NEW s \in Seq(S), NEW n \in Nat, n <= Len(s)
  PROVE  Len(Rest(s, n)) = Len(s) - n
<1>1. Len(s) \in Nat
  BY LenProperties
<1>2. n + 1 \in Int /\ Len(s) \in Int /\ \A i \in (n + 1)..Len(s) : s[i] \in S
  <2>1. \A i \in (n + 1)..Len(s) : i \in 1..Len(s)
    BY <1>1
  <2>2. \A i \in (n + 1)..Len(s) : s[i] \in S
    BY <2>1, ElementOfSeq
  <2> QED BY <1>1, <2>2
<1>3. Len(SubSeq(s, n + 1, Len(s))) = IF n + 1 <= Len(s) THEN Len(s) - (n + 1) + 1 ELSE 0
  BY <1>2, SubSeqProperties
<1> QED BY <1>1, <1>3 DEF Rest

\* tls_uart_read.
LEMMA AfterReadType ==
  ASSUME NEW S, NEW s \in Seq(S), NEW n \in Nat
  PROVE  AfterRead(s, n) \in Seq(S) /\ Len(AfterRead(s, n)) <= Len(s)
<1>1. Len(s) \in Nat
  BY LenProperties
<1> QED BY <1>1, RestType DEF AfterRead

\* The ring without its first byte.
LEMMA TailType ==
  ASSUME NEW S, NEW s \in Seq(S), s # <<>>
  PROVE  /\ Tail(s) \in Seq(S) /\ Len(Tail(s)) <= Len(s) /\ s[1] \in S /\ Len(s) >= 1
         /\ Len(Tail(s)) = Len(s) - 1
<1>1. Len(s) \in Nat /\ Len(s) # 0
  BY EmptySeq, LenProperties
<1>2. Tail(s) \in Seq(S) /\ Len(Tail(s)) = Len(s) - 1
  BY HeadTailProperties
<1>3. s[1] \in S
  BY <1>1, ElementOfSeq
<1> QED BY <1>1, <1>2, <1>3

\* The type of ReadRegBackBuf.
BackBufs == [1..FrameLen -> Byte]

\* BackBufIntact for a given buffer.
Intact(b) ==
  \/ b = Zeros
  \/ b[3] = 0
  \/ b[FrameLen] = Check(SubSeq(b, 1, FrameLen - 1))

\* A new content of it.
LEMMA PaddedType ==
  ASSUME NEW bytes \in Seq(Byte)
  PROVE  Padded(bytes) \in BackBufs
<1>1. FrameLen \in Nat /\ Len(bytes) \in Nat
  BY WordSize, LenProperties DEF FrameLen
<1>2. \A i \in 1..FrameLen : (IF i <= Len(bytes) THEN bytes[i] ELSE 0) \in Byte
  <2> TAKE i \in 1..FrameLen
  <2>1. CASE i <= Len(bytes)
    <3>1. i \in 1..Len(bytes)
      BY <1>1, <2>1
    <3> QED BY <2>1, <3>1, ElementOfSeq
  <2>2. CASE ~(i <= Len(bytes))
    BY <2>2 DEF Byte
  <2> QED BY <2>1, <2>2
<1> QED BY <1>2 DEF Padded, BackBufs

\* A buffer that was saved because its check byte agrees.
LEMMA SavedIs ==
  ASSUME NEW bytes \in Seq(Byte), NEW n, NEW last, NEW b \in BackBufs, Intact(b),
         last = Check(SubSeq(bytes, 1, n)) => Intact(Padded(bytes))
  PROVE  Saved(bytes, n, last, b) \in BackBufs /\ Intact(Saved(bytes, n, last, b))
BY PaddedType DEF Saved

\* What the parser makes of a ring s: a part of s, and an intact buffer.
Parsed(rx, s) ==
  /\ rx.ring \in Seq(Byte)
  /\ Len(rx.ring) <= Len(s)
  /\ rx.rx_len \in 0..2
  /\ rx.back \in BackBufs
  /\ Intact(rx.back)

\* The first bytes of a short frame.
LEMMA ShortFrame ==
  ASSUME NEW hdr \in Byte, NEW c \in Byte
  PROVE  /\ <<FE, hdr>> \in Seq(Byte) /\ <<FE, hdr, c>> \in Seq(Byte)
         /\ Padded(<<FE, hdr>>)[3] = 0
         /\ Padded(<<FE, hdr, c>>)[3] = c
<1>1. FE \in Byte
  BY DEF FE, Byte
<1>2. 3 \in 1..FrameLen
  BY WordSize DEF FrameLen
<1>3. Padded(<<FE, hdr>>)[3] = 0
  BY <1>2 DEF Padded
<1>4. Padded(<<FE, hdr, c>>)[3] = c
  BY <1>2 DEF Padded
<1> QED BY <1>1, <1>3, <1>4

\* A whole answer of at most one word.
LEMMA WholeFrame ==
  ASSUME NEW s \in Seq(Byte), NEW hdr \in Byte, NEW k \in Nat, 2 <= k, k <= Len(s)
  PROVE  LET f == <<FE, hdr>> \o SubSeq(s, 1, k)
         IN  /\ f \in Seq(Byte) /\ Len(f) = k + 2 /\ f[3] = s[1] /\ f[k + 2] = s[k]
             /\ Padded(f)[3] = s[1]
             /\ k + 2 = FrameLen => Padded(f) = f
<1> DEFINE h == <<FE, hdr>>
           t == SubSeq(s, 1, k)
           f == h \o t
<1>1. h \in Seq(Byte) /\ Len(h) = 2
  BY DEF FE, Byte
<1>2. Len(s) \in Nat
  BY LenProperties
<1>3. 1 \in Int /\ k \in Int /\ \A i \in 1..k : s[i] \in Byte
  <2>1. \A i \in 1..k : i \in 1..Len(s)
    BY <1>2
  <2>2. \A i \in 1..k : s[i] \in Byte
    BY <2>1, ElementOfSeq
  <2> QED BY <2>2
<1>4. /\ t \in Seq(Byte)
      /\ Len(t) = IF 1 <= k THEN k - 1 + 1 ELSE 0
      /\ \A i \in 1..(k - 1 + 1) : t[i] = s[1 + i - 1]
  BY <1>3, SubSeqProperties
<1>5. Len(t) = k /\ t[1] = s[1] /\ t[k] = s[k]
  <2>1. Len(t) = k /\ 1 \in 1..(k - 1 + 1) /\ k \in 1..(k - 1 + 1) /\ 1 + 1 - 1 = 1
        /\ 1 + k - 1 = k
    BY <1>4
  <2> HIDE DEF t
  <2> QED BY <1>4, <2>1
<1> HIDE DEF h, t
<1>6. /\ f \in Seq(Byte)
      /\ Len(f) = Len(h) + Len(t)
      /\ \A i \in 1..(Len(h) + Len(t)) : f[i] = IF i <= Len(h) THEN h[i] ELSE t[i - Len(h)]
  BY <1>1, <1>4, ConcatProperties
<1>7. Len(f) = k + 2
  BY <1>1, <1>5, <1>6
<1>8. f[3] = t[1] /\ f[k + 2] = t[k]
  <2> HIDE DEF f
  <2>1. /\ 3 \in 1..(Len(h) + Len(t)) /\ ~(3 <= Len(h)) /\ 3 - Len(h) = 1
        /\ k + 2 \in 1..(Len(h) + Len(t)) /\ ~(k + 2 <= Len(h)) /\ (k + 2) - Len(h) = k
    BY <1>1, <1>5
  <2> QED BY <1>6, <2>1
<1> HIDE DEF f
<1>9. Padded(f)[3] = s[1]
  <2>1. 3 \in 1..FrameLen /\ 3 <= Len(f)
    BY <1>7, WordSize DEF FrameLen
  <2> QED BY <1>5, <1>8, <2>1 DEF Padded
<1>10. ASSUME k + 2 = FrameLen PROVE Padded(f) = f
  <2>1. f \in [1..FrameLen -> Byte] /\ Len(f) = FrameLen /\ FrameLen \in Nat
    BY <1>6, <1>7, <1>10
  <2>2. \A i \in 1..FrameLen : (IF i <= Len(f) THEN f[i] ELSE 0) = f[i]
    BY <2>1
  <2> QED BY <2>1, <2>2 DEF Padded
<1> QED BY <1>5, <1>6, <1>7, <1>8, <1>9, <1>10 DEF f, h, t

\* The answer to a read command, in as many pieces as it may come.
LEMMA ReadAnswerParsed ==
  ASSUME NEW s \in Seq(Byte), NEW hdr \in Byte, hdr % 16 = RacRead,
         NEW b \in BackBufs, Intact(b)
  PROVE  Parsed(ReadAnswer(s, hdr, b), s)
<1>1. CASE s = <<>>
  <2>1. Intact(Padded(<<FE, hdr>>))
    BY ShortFrame DEF Intact
  <2>2. <<FE, hdr>> \in Seq(Byte)
    BY ShortFrame
  <2> DEFINE v == Saved(<<FE, hdr>>, 2, hdr, b)
  <2>3. v \in BackBufs /\ Intact(v)
    BY <2>1, <2>2, SavedIs
  <2> HIDE DEF v
  <2>4. ReadAnswer(s, hdr, b) = [ring |-> s, rx_len |-> 0, back |-> v]
    BY <1>1 DEF ReadAnswer, v
  <2>5. Len(s) <= Len(s)
    BY LenProperties
  <2> QED BY <2>3, <2>4, <2>5 DEF Parsed
<1>2. CASE s # <<>> /\ ~Readable(Tail(s), WORD_BYTES * s[1] + 1)
  <2>1. Tail(s) \in Seq(Byte) /\ Len(Tail(s)) <= Len(s) /\ s[1] \in Byte
    BY <1>2, TailType
  <2> DEFINE v == IF s[1] > 1 THEN b ELSE Saved(<<FE, hdr, s[1]>>, 3, s[1], b)
  <2>2. ReadAnswer(s, hdr, b) = [ring |-> Tail(s), rx_len |-> 0, back |-> v]
    BY <1>2 DEF ReadAnswer
  <2>3. v \in BackBufs /\ Intact(v)
    <3>1. CASE s[1] > 1
      BY <3>1
    <3>2. CASE s[1] = 0
      <4>1. Intact(Padded(<<FE, hdr, s[1]>>))
        BY <2>1, <3>2, ShortFrame DEF Intact
      <4>2. <<FE, hdr, s[1]>> \in Seq(Byte)
        BY <2>1, ShortFrame
      <4>3. /\ Saved(<<FE, hdr, s[1]>>, 3, s[1], b) \in BackBufs
            /\ Intact(Saved(<<FE, hdr, s[1]>>, 3, s[1], b))
        BY <4>1, <4>2, SavedIs
      <4>4. v = Saved(<<FE, hdr, s[1]>>, 3, s[1], b)
        BY <3>2
      <4> QED BY <4>3, <4>4, Zenon
    <3>3. CASE s[1] = 1
      <4> DEFINE g == <<FE, hdr, 1>>
      <4>1. SubSeq(g, 1, 3) = g
        <5>1. g \in Seq(Byte) /\ Len(g) = 3
          BY DEF FE, Byte
        <5> HIDE DEF g
        <5> QED BY <5>1, SubSeqFull
      <4>2. Check(g) # 1
        BY NoShortAnswer
      <4>3. v = Saved(g, 3, 1, b)
        BY <3>3
      <4> HIDE DEF g, v
      <4> QED BY <4>1, <4>2, <4>3 DEF Saved
    <3>4. s[1] > 1 \/ s[1] = 0 \/ s[1] = 1
      BY <2>1, ByteCases, Zenon
    <3> QED BY <3>1, <3>2, <3>3, <3>4, Zenon
  <2> HIDE DEF v
  <2> QED BY <2>1, <2>2, <2>3 DEF Parsed
<1>3. CASE s # <<>> /\ Readable(Tail(s), WORD_BYTES * s[1] + 1)
  <2>1. Tail(s) \in Seq(Byte) /\ s[1] \in Byte /\ Len(s) >= 1 /\ Len(Tail(s)) = Len(s) - 1
    BY <1>3, TailType
  <2> DEFINE m == WORD_BYTES * s[1]
  <2>2. m \in Nat
    <3>1. \A x, y \in Nat : x * y \in Nat
      OBVIOUS
    <3>2. WORD_BYTES \in Nat /\ s[1] \in Nat
      BY <2>1, ByteCases, WordSize, Zenon
    <3> QED BY <3>1, <3>2, Zenon
  <2>3. m + 2 \in Nat /\ m + 2 <= Len(s) /\ 2 <= m + 2
    <3>1. Len(Tail(s)) >= m + 1
      BY <1>3 DEF Readable
    <3>2. Len(s) \in Nat
      BY LenProperties
    <3> HIDE DEF m
    <3> QED BY <2>1, <2>2, <3>1, <3>2
  <2> DEFINE f == <<FE, hdr>> \o SubSeq(s, 1, m + 2)
             v == IF s[1] > 1 THEN b ELSE Saved(f, m + 3, s[m + 2], b)
  <2>4. ReadAnswer(s, hdr, b) = [ring |-> Rest(s, m + 2), rx_len |-> 0, back |-> v]
    BY <1>3 DEF ReadAnswer
  <2>5. /\ f \in Seq(Byte) /\ Len(f) = m + 2 + 2 /\ f[m + 2 + 2] = s[m + 2]
        /\ Padded(f)[3] = s[1]
        /\ m + 2 + 2 = FrameLen => Padded(f) = f
    <3> HIDE DEF m
    <3> QED BY <2>3, WholeFrame
  <2>6. Rest(s, m + 2) \in Seq(Byte) /\ Len(Rest(s, m + 2)) <= Len(s)
    <3> HIDE DEF m
    <3> QED BY <2>3, RestType
  <2>7. v \in BackBufs /\ Intact(v)
    <3>1. CASE s[1] > 1
      BY <3>1
    <3>2. CASE s[1] = 0
      <4>1. Intact(Padded(f))
        <5> HIDE DEF f, m
        <5> QED BY <2>5, <3>2 DEF Intact
      <4>2. Saved(f, m + 3, s[m + 2], b) \in BackBufs /\ Intact(Saved(f, m + 3, s[m + 2], b))
        <5> HIDE DEF f, m
        <5> QED BY <2>5, <4>1, SavedIs
      <4>3. v = Saved(f, m + 3, s[m + 2], b)
        BY <3>2
      <4> QED BY <4>2, <4>3, Zenon
    <3>3. CASE s[1] = 1
      <4>1. m = WORD_BYTES /\ m + 2 + 2 = FrameLen /\ m + 3 = FrameLen - 1
        BY <3>3, WordSize DEF FrameLen
      <4>2. v = Saved(f, m + 3, s[m + 2], b)
        BY <3>3
      <4> HIDE DEF m, f, v
      <4>3. s[m + 2] = Check(SubSeq(f, 1, m + 3)) => Intact(Padded(f))
        BY <2>5, <4>1 DEF Intact
      <4> QED BY <2>5, <4>2, <4>3, SavedIs
    <3>4. s[1] > 1 \/ s[1] = 0 \/ s[1] = 1
      BY <2>1, ByteCases, Zenon
    <3> QED BY <3>1, <3>2, <3>3, <3>4, Zenon
  <2> HIDE DEF v, m, f
  <2> QED BY <2>4, <2>6, <2>7 DEF Parsed
<1> QED BY <1>1, <1>2, <1>3

\* A shorter ring is shorter than a longer one.
LEMMA ParsedLonger ==
  ASSUME NEW rx, NEW s \in Seq(Byte), NEW t \in Seq(Byte), Parsed(rx, s), Len(s) <= Len(t)
  PROVE  Parsed(rx, t)
<1>1. Len(s) \in Nat /\ Len(t) \in Nat /\ Len(rx.ring) \in Nat
  BY LenProperties DEF Parsed
<1> QED BY <1>1 DEF Parsed

\* After the first byte of a frame.
LEMMA AnsweredParsed ==
  ASSUME NEW s \in Seq(Byte), NEW b \in BackBufs, Intact(b)
  PROVE  Parsed(Answered(s, b), s)
<1>0. Len(s) \in Nat
  BY LenProperties
<1>1. CASE s = <<>>
  <2>1. Answered(s, b) = [ring |-> s, rx_len |-> 1, back |-> b]
    BY <1>1 DEF Answered
  <2> QED BY <1>0, <2>1 DEF Parsed
<1>2. CASE s # <<>> /\ s[1] % 16 = RacWrite
  <2>1. Tail(s) \in Seq(Byte) /\ Len(Tail(s)) <= Len(s)
    BY <1>2, TailType
  <2> DEFINE r == AfterRead(Tail(s), 2)
  <2>2. r \in Seq(Byte) /\ Len(r) <= Len(Tail(s))
    BY <2>1, AfterReadType
  <2>3. Answered(s, b) = [ring |-> r, rx_len |-> 0, back |-> b]
    BY <1>2 DEF Answered, RacWrite, RacRead
  <2> HIDE DEF r
  <2>4. Len(r) \in Nat /\ Len(Tail(s)) \in Nat
    BY <2>1, <2>2, LenProperties
  <2>5. Len(r) <= Len(s)
    BY <1>0, <2>1, <2>2, <2>4
  <2> QED BY <2>2, <2>3, <2>5 DEF Parsed
<1>3. CASE s # <<>> /\ s[1] % 16 = RacRead
  <2>1. Tail(s) \in Seq(Byte) /\ Len(Tail(s)) <= Len(s) /\ s[1] \in Byte
    BY <1>3, TailType
  <2>2. Answered(s, b) = ReadAnswer(Tail(s), s[1], b)
    BY <1>3 DEF Answered, RacWrite, RacRead
  <2>3. Parsed(ReadAnswer(Tail(s), s[1], b), Tail(s))
    BY <1>3, <2>1, ReadAnswerParsed
  <2> QED BY <2>1, <2>2, <2>3, ParsedLonger
<1>4. CASE s # <<>> /\ s[1] % 16 # RacWrite /\ s[1] % 16 # RacRead
  <2>1. Tail(s) \in Seq(Byte) /\ Len(Tail(s)) <= Len(s)
    BY <1>4, TailType
  <2>2. Answered(s, b) = [ring |-> Tail(s), rx_len |-> 2, back |-> b]
    BY <1>4 DEF Answered
  <2> QED BY <2>1, <2>2 DEF Parsed
<1> QED BY <1>1, <1>2, <1>3, <1>4

\* One call of the parser.
LEMMA Uart1RxHandleParsed ==
  ASSUME NEW s \in Seq(Byte), NEW n \in 0..2, NEW b \in BackBufs, Intact(b)
  PROVE  Parsed(Uart1RxHandle(s, n, b), s)
<1>0. Len(s) \in Nat
  BY LenProperties
<1>1. CASE n = 0 /\ s # <<>> /\ s[1] = FE
  <2>1. Tail(s) \in Seq(Byte) /\ Len(Tail(s)) <= Len(s)
    BY <1>1, TailType
  <2>2. Uart1RxHandle(s, n, b) = Answered(Tail(s), b)
    BY <1>1 DEF Uart1RxHandle
  <2>3. Parsed(Answered(Tail(s), b), Tail(s))
    BY <2>1, AnsweredParsed
  <2> QED BY <2>1, <2>2, <2>3, ParsedLonger
<1>2. CASE n = 0 /\ (s = <<>> \/ s[1] # FE)
  <2> DEFINE r == AfterRead(s, 1)
  <2>1. r \in Seq(Byte) /\ Len(r) <= Len(s)
    BY AfterReadType
  <2>2. Uart1RxHandle(s, n, b) = [ring |-> r, rx_len |-> 0, back |-> b]
    BY <1>2 DEF Uart1RxHandle
  <2> HIDE DEF r
  <2> QED BY <2>1, <2>2 DEF Parsed
<1>3. CASE n = 1
  <2>1. Uart1RxHandle(s, n, b) = Answered(s, b)
    BY <1>3 DEF Uart1RxHandle
  <2> QED BY <2>1, AnsweredParsed
<1>4. CASE n = 2
  <2>1. Uart1RxHandle(s, n, b) = [ring |-> s, rx_len |-> n, back |-> b]
    BY <1>4 DEF Uart1RxHandle
  <2> QED BY <1>0, <2>1 DEF Parsed
<1> QED BY <1>1, <1>2, <1>3, <1>4
-----------------------------------------------------------------------------
(***************************************************************************)
(* The invariant.                                                          *)
(***************************************************************************)
\* No interrupt finds more than a frame: the room that MakeRoom makes is enough.
ShortChunks == {c \in Chunks : Len(c.bytes) <= FrameLen}

\* Commands of Meter_init, whose answers CheckRegDataWrited looks at.
RegCommands == {c \in Commands : c.reg \in Registers}

MInv ==
  /\ MeterTypeOK
  /\ line \in Seq(ShortChunks)
  /\ phase = "init" => todo \in Seq(RegCommands)
  /\ RingBounded
  /\ BackBufIntact

\* The registers have addresses of twelve bits.
LEMMA RegistersType == Registers \cup {AARTU} \subseteq RegAddr
<1>1. ASSUME NEW i \in 1..Len(ControlWrites) PROVE ControlWrites[i][1] \in RegAddr
  <2>1. ControlWrites[i] \in RegAddr \X Word
    BY MeterAssumption, ElementOfSeq
  <2> QED BY <2>1
<1>2. ASSUME NEW i \in 1..Len(ErrorRegs) PROVE ErrorRegs[i] \in RegAddr
  BY MeterAssumption, ElementOfSeq
<1>3. MeterControlReg0Add \in RegAddr /\ AARTU \in RegAddr
  BY DEF MeterControlReg0Add, AARTU, RegAddr
<1>4. \A r \in Registers : r \in RegAddr
  BY <1>1, <1>2, <1>3 DEF Registers
<1> QED BY <1>3, <1>4

\* The commands of one write with its read.
LEMMA WriteType ==
  ASSUME NEW reg \in Registers, NEW w \in Word
  PROVE  /\ WriteV9261fReg(reg, w)[1] \in RegCommands
         /\ WriteV9261fReg(reg, w)[2] \in RegCommands
BY DEF WriteV9261fReg, WriteCmd, ReadCmd, RegCommands, Commands

\* The commands of a table of writes.
LEMMA WritesType ==
  ASSUME NEW regs \in Seq(Registers \X Word), regs # <<>>
  PROVE  Writes(regs) \in Seq(RegCommands) /\ Writes(regs) # <<>>
<1> DEFINE n == 2 * Len(regs)
           C(i) == LET r == regs[(i + 1) \div 2]
                   IN  WriteV9261fReg(r[1], r[2])[IF i % 2 = 1 THEN 1 ELSE 2]
<1>1. Len(regs) \in Nat /\ Len(regs) # 0
  BY EmptySeq, LenProperties
<1>2. n \in Nat /\ n # 0
  BY <1>1
<1>3. \A i \in 1..n : C(i) \in RegCommands
  <2> TAKE i \in 1..n
  <2>1. (i + 1) \div 2 \in 1..Len(regs)
    BY <1>1
  <2> DEFINE r == regs[(i + 1) \div 2]
  <2>2. r \in Registers \X Word
    BY <2>1, ElementOfSeq
  <2> HIDE DEF r
  <2>3. r[1] \in Registers /\ r[2] \in Word
    BY <2>2
  <2>4. /\ WriteV9261fReg(r[1], r[2])[1] \in RegCommands
        /\ WriteV9261fReg(r[1], r[2])[2] \in RegCommands
    BY <2>3, WriteType
  <2>5. WriteV9261fReg(r[1], r[2])[IF i % 2 = 1 THEN 1 ELSE 2] \in RegCommands
    BY <2>4
  <2> QED BY <2>5 DEF r
<1>4. Writes(regs) = [i \in 1..n |-> C(i)]
  BY DEF Writes
<1> HIDE DEF n, C
<1>5. [i \in 1..n |-> C(i)] \in Seq(RegCommands) /\ Len([i \in 1..n |-> C(i)]) = n
  BY <1>2, <1>3
<1>6. Len(Writes(regs)) # 0 /\ Writes(regs) \in Seq(RegCommands)
  BY <1>2, <1>4, <1>5
<1> QED BY <1>6, EmptySeq

\* The table of Meter_init.
LEMMA InitWritesType ==
  ASSUME NEW words \in [1..Len(ErrorRegs) -> Word]
  PROVE  /\ InitWrites(words) \in Seq(Registers \X Word) /\ InitWrites(words) # <<>>
         /\ Len(InitWrites(words)) = Len(ControlWrites) + Len(ErrorRegs) + 1
<1> DEFINE S == Registers \X Word
           a == ControlWrites
           e == [i \in 1..Len(ErrorRegs) |-> <<ErrorRegs[i], words[i]>>]
           z == <<<<MeterControlReg0Add, MC0Word>>>>
<1>1. a \in Seq(S)
  <2>1. a \in Seq(RegAddr \X Word) /\ Len(a) \in Nat
    BY MeterAssumption, LenProperties
  <2>2. \A i \in 1..Len(a) : a[i] \in RegAddr \X Word
    BY <2>1, ElementOfSeq
  <2>3. \A i \in 1..Len(a) : a[i] \in S
    <3> TAKE i \in 1..Len(a)
    <3>1. a[i][1] \in Registers
      BY DEF Registers
    <3> QED BY <2>2, <3>1
  <2> HIDE DEF S, a
  <2>4. a = [i \in 1..Len(a) |-> a[i]]
    BY <2>1
  <2>5. [i \in 1..Len(a) |-> a[i]] \in Seq(S)
    BY <2>1, <2>3
  <2> QED BY <2>4, <2>5, Zenon
<1>2. e \in Seq(S)
  <2>1. Len(ErrorRegs) \in Nat
    BY MeterAssumption, LenProperties
  <2>2. \A i \in 1..Len(ErrorRegs) : <<ErrorRegs[i], words[i]>> \in S
    BY DEF Registers
  <2> HIDE DEF S
  <2> QED BY <2>1, <2>2
<1>3. z \in Seq(S) /\ Len(z) = 1
  BY MeterAssumption DEF Registers
<1> HIDE DEF a, e, z, S
<1>4. a \o e \in Seq(S)
  BY <1>1, <1>2, ConcatProperties
<1>5. (a \o e) \o z \in Seq(S) /\ Len((a \o e) \o z) = Len(a \o e) + Len(z)
  BY <1>3, <1>4, ConcatProperties
<1>6. Len(a \o e) \in Nat
  BY <1>4, LenProperties
<1>7. (a \o e) \o z # <<>>
  <2>1. Len((a \o e) \o z) # 0
    BY <1>3, <1>5, <1>6
  <2> QED BY <1>5, <2>1, EmptySeq
<1>8. InitWrites(words) = (a \o e) \o z
  BY DEF InitWrites, a, e, z
<1>9. Len(a \o e) = Len(a) + Len(e)
  BY <1>1, <1>2, ConcatProperties
<1>10. Len(a) = Len(ControlWrites) /\ Len(e) = Len(ErrorRegs)
  BY MeterAssumption, LenProperties DEF a, e
<1> QED BY <1>3, <1>5, <1>7, <1>8, <1>9, <1>10 DEF S

\* Meter_init.
LEMMA MeterInitType ==
  ASSUME NEW words \in [1..Len(ErrorRegs) -> Word]
  PROVE  Meter_init(words) \in Seq(RegCommands) /\ Meter_init(words) # <<>>
BY InitWritesType, WritesType DEF Meter_init

\* A command of the task's loop.
LEMMA ReadAARTUType == ReadAARTU \in Seq(Commands) /\ ReadAARTU # <<>>
<1>1. ReadCmd(AARTU, 0) \in Commands
  BY WordSize DEF ReadCmd, Commands, Word
<1> QED BY <1>1 DEF ReadAARTU
-----------------------------------------------------------------------------
(***************************************************************************)
(* The steps.                                                              *)
(***************************************************************************)
\* A frame fits the cache.
LEMMA Sizes ==
  /\ FrameLen \in Nat /\ FrameLen >= 5
  /\ RX_CACHE_LIMIT \in Nat /\ TLS_UART_RX_BUF_SIZE \in Nat
  /\ FrameLen <= RX_CACHE_LIMIT
  /\ 2 * RX_CACHE_LIMIT < TLS_UART_RX_BUF_SIZE
BY MeterAssumption, WordSize DEF FrameLen

\* MakeRoom leaves room for a frame.
LEMMA RoomMade ==
  ASSUME NEW s \in Seq(Byte), Len(s) < TLS_UART_RX_BUF_SIZE
  PROVE  /\ MakeRoom(s) \in Seq(Byte)
         /\ Len(MakeRoom(s)) + FrameLen < TLS_UART_RX_BUF_SIZE
<1>1. Len(s) \in Nat
  BY LenProperties
<1>2. CASE TLS_UART_RX_BUF_SIZE - 1 - Len(s) <= RX_CACHE_LIMIT
  <2>1. RX_CACHE_LIMIT <= Len(s)
    BY <1>1, <1>2, Sizes
  <2>2. MakeRoom(s) = Rest(s, RX_CACHE_LIMIT)
    BY <1>2 DEF MakeRoom
  <2>3. Rest(s, RX_CACHE_LIMIT) \in Seq(Byte)
    BY Sizes, RestType
  <2>4. Len(Rest(s, RX_CACHE_LIMIT)) = Len(s) - RX_CACHE_LIMIT
    BY <2>1, Sizes, RestLen
  <2> QED BY <1>1, <2>2, <2>3, <2>4, Sizes
<1>3. CASE ~(TLS_UART_RX_BUF_SIZE - 1 - Len(s) <= RX_CACHE_LIMIT)
  <2>1. MakeRoom(s) = s
    BY <1>3 DEF MakeRoom
  <2> QED BY <1>1, <1>3, <2>1, Sizes
<1> QED BY <1>2, <1>3

\* The program starts in a state of the invariant.
LEMMA MeterInitInv == Init => MInv
<1> SUFFICES ASSUME Init PROVE MInv
  OBVIOUS
<1> USE WordSize, Sizes
<1>1. todo \in Seq(RegCommands) /\ todo # <<>>
  BY MeterAssumption, MeterInitType DEF Init
<1>2. todo \in Seq(Commands)
  <2>1. RegCommands \subseteq Commands
    BY DEF RegCommands
  <2> QED BY <1>1, <2>1, SeqMonotonic
<1>3. chip \in [Registers -> Word]
  BY DEF Init, Word
<1>4. back \in BackBufs
  BY DEF Init, Zeros, BackBufs, Byte
<1>5. checked \in [reg : Registers \cup {0}, data : Word, ok : {0, 1}]
  BY DEF Init, Word
<1>6. /\ <<>> \in Seq(Byte) /\ <<>> \in Seq(Chunks) /\ <<>> \in Seq(ShortChunks)
      /\ Len(<<>>) = 0
  OBVIOUS
<1>7. word = <<>> /\ line = <<>> /\ ring = <<>> /\ rx_len = 0 /\ phase = "init" /\ pc = "send"
      /\ calib = CalibInit /\ calib_para = CalibInit /\ asked = NoWord /\ accepted = NoWord
      /\ broken = FALSE /\ faults = 0 /\ rounds = 0 /\ back = Zeros
  BY DEF Init
<1>8. NoWord \in NoWord..(U32 - 1) /\ 0 \in 0..MaxFaults /\ 0 \in 0..MaxRounds
  BY MeterAssumption DEF NoWord
<1>9. calib \in [1..Len(ErrorRegs) -> Word] /\ calib_para \in [1..Len(ErrorRegs) -> Word]
  BY <1>7, MeterAssumption
<1>10. Len(word) <= WORD_BYTES /\ RingBounded
  BY <1>6, <1>7 DEF RingBounded
<1>11. MeterTypeOK
  <2>1. /\ phase \in {"init", "calib", "metering"} /\ pc \in {"send", "wait", "use"}
        /\ word \in Seq(Byte) /\ line \in Seq(Chunks) /\ ring \in Seq(Byte)
        /\ rx_len \in 0..2 /\ broken \in BOOLEAN
    <3>1. 0 \in 0..2
      OBVIOUS
    <3> QED BY <1>6, <1>7, <3>1, Zenon
  <2>2. /\ asked \in NoWord..(U32 - 1) /\ accepted \in NoWord..(U32 - 1)
        /\ faults \in 0..MaxFaults /\ rounds \in 0..MaxRounds
    BY <1>7, <1>8, Zenon
  <2> QED BY <1>1, <1>2, <1>3, <1>4, <1>5, <1>9, <1>10, <2>1, <2>2, Zenon
          DEF MeterTypeOK, BackBufs
<1>12. BackBufIntact
  BY <1>7 DEF BackBufIntact
<1> QED BY <1>1, <1>6, <1>7, <1>10, <1>11, <1>12 DEF MInv

\* The interrupt handler with the parser it calls.
LEMMA IrqInv == ASSUME MInv, UART1_IRQHandler PROVE MInv'
<1>1. /\ line \in Seq(ShortChunks) /\ line # <<>> /\ ring \in Seq(Byte)
      /\ Len(ring) < TLS_UART_RX_BUF_SIZE
      /\ rx_len \in 0..2 /\ back \in BackBufs /\ Intact(back)
  BY DEF MInv, MeterTypeOK, RingBounded, BackBufIntact, Intact, UART1_IRQHandler, BackBufs
<1>2. Tail(line) \in Seq(ShortChunks) /\ line[1] \in ShortChunks
  BY <1>1, TailType
<1>3. Head(line) = line[1]
  BY <1>1
<1> DEFINE got == MakeRoom(ring) \o (IF Head(line).err THEN <<>> ELSE Head(line).bytes)
           c == IF Head(line).err THEN <<>> ELSE Head(line).bytes
           rx == Uart1RxHandle(got, rx_len, back)
<1>4. c \in Seq(Byte) /\ Len(c) <= FrameLen
  <2>1. Head(line).bytes \in Seq(Byte) /\ Len(Head(line).bytes) <= FrameLen
    BY <1>2, <1>3 DEF ShortChunks, Chunks
  <2>2. <<>> \in Seq(Byte) /\ Len(<<>>) = 0
    OBVIOUS
  <2> QED BY <2>1, <2>2, Sizes
<1>5. MakeRoom(ring) \in Seq(Byte) /\ Len(MakeRoom(ring)) + FrameLen < TLS_UART_RX_BUF_SIZE
  BY <1>1, RoomMade
<1>6. got \in Seq(Byte) /\ Len(got) < TLS_UART_RX_BUF_SIZE
  <2> HIDE DEF c
  <2>1. got = MakeRoom(ring) \o c
    BY DEF c
  <2> HIDE DEF got
  <2>2. got \in Seq(Byte) /\ Len(got) = Len(MakeRoom(ring)) + Len(c)
    BY <1>4, <1>5, <2>1, ConcatProperties
  <2>3. Len(c) \in Nat /\ Len(MakeRoom(ring)) \in Nat
    BY <1>4, <1>5, LenProperties
  <2> QED BY <1>4, <1>5, <2>2, <2>3, Sizes
<1>7. /\ line' = Tail(line) /\ ring' = rx.ring /\ rx_len' = rx.rx_len /\ back' = rx.back
      /\ UNCHANGED <<phase, todo, pc, word, calib, calib_para, rounds, chip, checked, asked,
                     accepted, broken, faults>>
  <2> HIDE DEF c
  <2> QED BY DEF UART1_IRQHandler, taskVars
<1> HIDE DEF got, c
<1>8. Parsed(rx, got)
  BY <1>1, <1>6, Uart1RxHandleParsed
<1> HIDE DEF rx
<1>9. /\ ring' \in Seq(Byte) /\ Len(ring') < TLS_UART_RX_BUF_SIZE
      /\ rx_len' \in 0..2 /\ back' \in BackBufs /\ Intact(back')
  <2>1. ring' \in Seq(Byte) /\ Len(ring') <= Len(got)
    BY <1>7, <1>8 DEF Parsed
  <2>2. Len(ring') \in Nat /\ Len(got) \in Nat
    BY <1>6, <2>1, LenProperties
  <2>3. Len(ring') < TLS_UART_RX_BUF_SIZE
    BY <1>6, <2>1, <2>2, Sizes
  <2> QED BY <1>7, <1>8, <2>1, <2>3 DEF Parsed
<1>10. line' \in Seq(ShortChunks) /\ line' \in Seq(Chunks)
  <2>1. ShortChunks \subseteq Chunks
    BY DEF ShortChunks
  <2> QED BY <1>2, <1>7, <2>1, SeqMonotonic
<1>11. MeterTypeOK'
  BY <1>7, <1>9, <1>10 DEF MInv, MeterTypeOK, BackBufs
<1>12. RingBounded' /\ BackBufIntact'
  BY <1>9 DEF RingBounded, BackBufIntact, Intact
<1> QED BY <1>7, <1>10, <1>11, <1>12 DEF MInv

\* An answer of the chip is a frame.
LEMMA AnswerType ==
  ASSUME NEW c \in Commands, NEW w \in Word
  PROVE  Answer(c, w) \in Seq(Byte) /\ Len(Answer(c, w)) <= FrameLen
<1>1. c.reg \in RegAddr
  BY RegistersType DEF Commands
<1>2. FE \in Byte /\ c.reg % 256 \in Byte /\ 1 \in Byte
  <2>1. \A r \in RegAddr : r % 256 \in 0..255
    BY DEF RegAddr
  <2>2. FE \in 0..255 /\ 1 \in 0..255
    BY DEF FE
  <2> QED BY <1>1, <2>1, <2>2 DEF Byte
<1>3. Header(c.reg, RacWrite) \in Byte /\ Header(c.reg, RacRead) \in Byte
  BY <1>1, HeaderType
<1>4. CASE c.k = "write"
  <2> DEFINE b == <<FE, Header(c.reg, RacWrite), c.reg % 256>>
  <2>1. b \in Seq(Byte) /\ Len(b) = 3
    BY <1>2, <1>3
  <2> HIDE DEF b
  <2>2. Framed(b) \in Seq(Byte) /\ Len(Framed(b)) = Len(b) + 1
    BY <2>1, FramedType
  <2>3. Answer(c, w) = Framed(b)
    BY <1>4 DEF Answer, b
  <2>4. Len(Framed(b)) = 4
    BY <2>1, <2>2
  <2>5. 4 <= FrameLen
    BY Sizes
  <2> QED BY <2>2, <2>3, <2>4, <2>5
<1>5. CASE c.k # "write"
  <2> DEFINE h == <<FE, Header(c.reg, RacRead), 1>>
             d == Bytes(w)
             b == h \o d
  <2>1. h \in Seq(Byte) /\ Len(h) = 3
    BY <1>2, <1>3
  <2>2. d \in Seq(Byte) /\ Len(d) = WORD_BYTES
    BY BytesType
  <2> HIDE DEF h, d
  <2>3. b \in Seq(Byte) /\ Len(b) = Len(h) + Len(d)
    BY <2>1, <2>2, ConcatProperties
  <2> HIDE DEF b
  <2>4. Framed(b) \in Seq(Byte) /\ Len(Framed(b)) = Len(b) + 1
    BY <2>3, FramedType
  <2>5. Answer(c, w) = Framed(b)
    BY <1>5 DEF Answer, b, h, d
  <2> QED BY <2>1, <2>2, <2>3, <2>4, <2>5, WordSize DEF FrameLen
<1> QED BY <1>4, <1>5

\* A frame as the interrupts find it, whole or in two pieces.
LEMMA ChunksType ==
  ASSUME NEW f \in Seq(Byte), Len(f) <= FrameLen
  PROVE  /\ Whole(f) \in Seq(ShortChunks)
         /\ \A n \in 1..Len(f) : \A bad \in BOOLEAN : Cut(f, n, bad) \in Seq(ShortChunks)
<1>1. \A g \in Seq(Byte) : \A bad \in BOOLEAN :
        Len(g) <= FrameLen => <<[bytes |-> g, err |-> bad]>> \in Seq(ShortChunks)
  <2> TAKE g \in Seq(Byte)
  <2> TAKE bad \in BOOLEAN
  <2> HAVE Len(g) <= FrameLen
  <2>1. [bytes |-> g, err |-> bad] \in ShortChunks
    BY DEF ShortChunks, Chunks
  <2> QED BY <2>1
<1>2. \A g \in Seq(Byte) : Len(g) <= FrameLen => Whole(g) \in Seq(ShortChunks)
  BY <1>1 DEF Whole
<1>3. ASSUME NEW n \in 1..Len(f), NEW bad \in BOOLEAN PROVE Cut(f, n, bad) \in Seq(ShortChunks)
  <2>1. Len(f) \in Nat /\ FrameLen \in Nat
    BY LenProperties, Sizes
  <2> DEFINE a == SubSeq(f, 1, n)
             r == Rest(f, n)
             p == <<[bytes |-> a, err |-> bad]>>
             q == IF n < Len(f) THEN Whole(r) ELSE <<>>
  <2>2. 1 \in Int /\ n \in Int /\ \A i \in 1..n : f[i] \in Byte
    <3>1. \A i \in 1..n : i \in 1..Len(f)
      BY <2>1
    <3>2. \A i \in 1..n : f[i] \in Byte
      BY <3>1, ElementOfSeq
    <3> QED BY <3>2
  <2>3. a \in Seq(Byte) /\ Len(a) = IF 1 <= n THEN n - 1 + 1 ELSE 0
    BY <2>2, SubSeqProperties
  <2>4. r \in Seq(Byte) /\ Len(r) <= Len(f)
    BY RestType
  <2> HIDE DEF a, r
  <2>5. Len(a) <= FrameLen /\ Len(r) <= FrameLen
    <3>1. Len(r) \in Nat
      BY <2>4, LenProperties
    <3> QED BY <2>1, <2>3, <2>4, <3>1
  <2>6. p \in Seq(ShortChunks)
    BY <1>1, <2>3, <2>5
  <2>7. q \in Seq(ShortChunks)
    <3>1. <<>> \in Seq(ShortChunks)
      OBVIOUS
    <3>2. Whole(r) \in Seq(ShortChunks)
      BY <1>2, <2>4, <2>5
    <3> QED BY <3>1, <3>2
  <2>8. Cut(f, n, bad) = p \o q
    BY DEF Cut, a, r
  <2> HIDE DEF p, q
  <2> QED BY <2>6, <2>7, <2>8, ConcatProperties
<1> QED BY <1>2, <1>3

\* The chip executes a command or not, and its answer is added to the line.
LEMMA ExchangeType ==
  ASSUME MInv, NEW c \in Commands, NEW done \in BOOLEAN, NEW chunks \in Seq(ShortChunks),
         Exchange(c, done, chunks)
  PROVE  /\ line' \in Seq(ShortChunks) /\ line' \in Seq(Chunks)
         /\ chip' \in [Registers -> Word]
<1>1. line \in Seq(ShortChunks) /\ chip \in [Registers -> Word]
  BY DEF MInv, MeterTypeOK
<1>2. line' \in Seq(ShortChunks)
  BY <1>1, ConcatProperties DEF Exchange
<1>3. ShortChunks \subseteq Chunks
  BY DEF ShortChunks
<1>4. line' \in Seq(Chunks)
  BY <1>2, <1>3, SeqMonotonic
<1>5. c.data \in Word
  BY DEF Commands
<1>6. chip' \in [Registers -> Word]
  BY <1>1, <1>5 DEF Exchange
<1> QED BY <1>2, <1>4, <1>6

\* A command is sent.
LEMMA SendInv == ASSUME MInv, Send PROVE MInv'
<1> DEFINE c == Head(todo)
<1>1. todo \in Seq(Commands) /\ todo # <<>>
  BY DEF MInv, MeterTypeOK
<1>2. c \in Commands
  <2>1. todo[1] \in Commands
    BY <1>1, TailType
  <2> QED BY <1>1, <2>1
<1> HIDE DEF c
<1>3. PICK w \in Reading(c.reg) :
        LET f == Answer(c, w)
        IN  \/ /\ Exchange(c, TRUE, Whole(f))
               /\ asked' = w
               /\ UNCHANGED <<faults, broken>>
            \/ /\ faults < MaxFaults
               /\ faults' = faults + 1
               /\ \E done \in BOOLEAN : Exchange(c, done, <<>>)
               /\ asked' = NoWord
               /\ UNCHANGED broken
            \/ /\ faults < MaxFaults
               /\ faults' = faults + 1
               /\ \E n \in 1..(Len(f) - 1) :
                    /\ Exchange(c, TRUE, Cut(f, n, FALSE))
                    /\ broken' = (broken \/ n > 1)
               /\ asked' = w
            \/ /\ faults < MaxFaults
               /\ faults' = faults + 1
               /\ \E n \in 1..Len(f) :
                    /\ Exchange(c, TRUE, Cut(f, n, TRUE))
                    /\ broken' = (broken \/ n < Len(f))
               /\ asked' = NoWord
  BY DEF Send, c
<1>4. w \in Word
  <2>1. CASE c.reg = AARTU
    BY <2>1, MeterAssumption DEF Reading
  <2>2. CASE c.reg # AARTU
    <3>1. c.reg \in Registers
      BY <1>2, <2>2 DEF Commands
    <3>2. chip[c.reg] \in Word
      BY <3>1 DEF MInv, MeterTypeOK
    <3> QED BY <2>2, <3>2 DEF Reading
  <2> QED BY <2>1, <2>2
<1> DEFINE f == Answer(c, w)
<1>5. f \in Seq(Byte) /\ Len(f) <= FrameLen /\ Len(f) \in Nat
  BY <1>2, <1>4, AnswerType, LenProperties
<1> HIDE DEF f
<1>6. /\ Whole(f) \in Seq(ShortChunks)
      /\ \A n \in 1..Len(f) : \A bad \in BOOLEAN : Cut(f, n, bad) \in Seq(ShortChunks)
  BY <1>5, ChunksType
<1>7. \E done \in BOOLEAN : \E chunks \in Seq(ShortChunks) : Exchange(c, done, chunks)
  <2>1. <<>> \in Seq(ShortChunks)
    OBVIOUS
  <2>2. \A n \in 1..(Len(f) - 1) : n \in 1..Len(f)
    BY <1>5
  <2> QED BY <1>3, <1>6, <2>1, <2>2 DEF f
<1>8. /\ line' \in Seq(ShortChunks) /\ line' \in Seq(Chunks)
      /\ chip' \in [Registers -> Word]
  BY <1>2, <1>7, ExchangeType
<1>9. asked' \in NoWord..(U32 - 1)
  <2>1. w \in NoWord..(U32 - 1) /\ NoWord \in NoWord..(U32 - 1)
    BY <1>4, WordSize DEF Word, NoWord
  <2> QED BY <1>3, <2>1
<1>10. faults' \in 0..MaxFaults
  <2>1. faults \in 0..MaxFaults /\ MaxFaults \in Nat
    BY MeterAssumption DEF MInv, MeterTypeOK
  <2>2. faults' = faults \/ (faults < MaxFaults /\ faults' = faults + 1)
    BY <1>3
  <2> QED BY <2>1, <2>2
<1>11. broken' \in BOOLEAN
  <2>1. broken \in BOOLEAN
    BY DEF MInv, MeterTypeOK
  <2> QED BY <1>3, <2>1
<1>12. /\ pc' = "wait"
       /\ UNCHANGED <<phase, todo, word, calib, calib_para, rounds, ring, rx_len, back,
                      checked, accepted>>
  BY DEF Send, rxVars
<1>13. MeterTypeOK'
  BY <1>8, <1>9, <1>10, <1>11, <1>12 DEF MInv, MeterTypeOK
<1>14. RingBounded' /\ BackBufIntact'
  BY <1>12 DEF MInv, RingBounded, BackBufIntact
<1> QED BY <1>8, <1>12, <1>13, <1>14 DEF MInv

\* The delay after a command is over.
LEMMA DelayInv == ASSUME MInv, DelayOver PROVE MInv'
<1>1. todo \in Seq(Commands) /\ todo # <<>> /\ Len(todo) \in Nat /\ Len(todo) >= 1
  <2>1. todo \in Seq(Commands) /\ todo # <<>>
    BY DEF MInv, MeterTypeOK
  <2> QED BY <2>1, TailType, LenProperties
<1>2. /\ pc = "wait"
      /\ UNCHANGED <<word, calib, calib_para, rounds, chip, line, ring, rx_len, back,
                     accepted, broken>>
  BY DEF DelayOver, rxVars
<1>3. asked' \in NoWord..(U32 - 1)
  <2>1. asked \in NoWord..(U32 - 1) /\ NoWord \in NoWord..(U32 - 1)
    BY WordSize DEF MInv, MeterTypeOK, NoWord
  <2>2. asked' = asked \/ asked' = NoWord
    BY DEF DelayOver
  <2> QED BY <2>1, <2>2
<1>4. faults' \in 0..MaxFaults
  <2>1. faults \in 0..MaxFaults /\ MaxFaults \in Nat
    BY MeterAssumption DEF MInv, MeterTypeOK
  <2>2. faults' = faults \/ (faults < MaxFaults /\ faults' = faults + 1)
    BY DEF DelayOver
  <2> QED BY <2>1, <2>2
<1>5. checked' \in [reg : Registers \cup {0}, data : Word, ok : {0, 1}]
  <2> DEFINE c == Head(todo)
             k == IF SubSeq(back, 4, 3 + WORD_BYTES) = Bytes(c.data) THEN 1 ELSE 0
  <2>1. checked \in [reg : Registers \cup {0}, data : Word, ok : {0, 1}]
    BY DEF MInv, MeterTypeOK
  <2>2. checked' = checked \/ (phase = "init" /\ checked' = [reg |-> c.reg, data |-> c.data, ok |-> k])
    BY DEF DelayOver, CheckRegDataWrited
  <2>3. k \in {0, 1}
    OBVIOUS
  <2>4. phase = "init" => c \in RegCommands
    <3> SUFFICES ASSUME phase = "init" PROVE todo[1] \in RegCommands
      BY <1>1
    <3>1. todo \in Seq(RegCommands)
      BY DEF MInv
    <3> QED BY <1>1, <3>1, TailType
  <2>5. phase = "init" => c.reg \in Registers /\ c.data \in Word
    BY <2>4 DEF RegCommands, Commands
  <2> HIDE DEF c, k
  <2> QED BY <2>1, <2>2, <2>3, <2>5
<1>6. /\ phase' \in {"init", "calib", "metering"} /\ pc' \in {"send", "wait", "use"}
      /\ todo' \in Seq(Commands) /\ todo' # <<>>
      /\ phase' = "init" => todo' \in Seq(RegCommands)
  <2>0. phase \in {"init", "calib", "metering"} /\ (phase = "init" => todo \in Seq(RegCommands))
    BY DEF MInv, MeterTypeOK
  <2>1. CASE Len(todo) > 1 /\ todo' = Tail(todo) /\ pc' = "send" /\ UNCHANGED phase
    <3>1. Tail(todo) \in Seq(Commands) /\ Len(Tail(todo)) = Len(todo) - 1
      BY <1>1, TailType
    <3>2. Len(Tail(todo)) # 0
      BY <1>1, <2>1, <3>1
    <3>3. Tail(todo) # <<>>
      BY <3>1, <3>2, EmptySeq
    <3>4. phase = "init" => Tail(todo) \in Seq(RegCommands)
      BY <1>1, <2>0, TailType
    <3> QED BY <2>0, <2>1, <3>1, <3>3, <3>4
  <2>2. CASE phase' = "calib" /\ todo' = ReadAARTU /\ pc' = "send"
    BY <2>2, ReadAARTUType
  <2>3. CASE phase # "init" /\ pc' = "use" /\ UNCHANGED <<phase, todo>>
    BY <1>1, <2>0, <2>3
  <2> QED BY <2>1, <2>2, <2>3 DEF DelayOver
<1>7. MeterTypeOK'
  BY <1>2, <1>3, <1>4, <1>5, <1>6 DEF MInv, MeterTypeOK
<1>8. RingBounded' /\ BackBufIntact'
  BY <1>2 DEF MInv, RingBounded, BackBufIntact
<1> QED BY <1>2, <1>6, <1>7, <1>8 DEF MInv

\* The order in which the bytes of a word are loaded is a permutation of them.
LEMMA ReadAtIs ==
  ASSUME NEW m \in 1..WORD_BYTES
  PROVE  ReadAt(m) \in 1..WORD_BYTES /\ ReadOrder[ReadAt(m)] = m
  BY ReadOrderAssumption DEF ReadAt

LEMMA ReadOrderType == ASSUME NEW j \in 1..WORD_BYTES PROVE ReadOrder[j] \in 1..WORD_BYTES
  BY ReadOrderAssumption

LEMMA AssembledType ==
  ASSUME NEW b \in Seq(Byte), Len(b) = WORD_BYTES
  PROVE  Assembled(b) \in Seq(Byte) /\ Len(Assembled(b)) = WORD_BYTES
<1>1. ASSUME NEW i \in 1..WORD_BYTES PROVE b[ReadAt(WORD_BYTES + 1 - i)] \in Byte
  <2>1. WORD_BYTES + 1 - i \in 1..WORD_BYTES
    BY WordSize
  <2>2. ReadAt(WORD_BYTES + 1 - i) \in 1..Len(b)
    BY <2>1, ReadAtIs
  <2> QED BY <2>2, ElementOfSeq
<1>2. Assembled(b) \in [1..WORD_BYTES -> Byte]
  BY <1>1 DEF Assembled
<1> QED BY <1>2, WordSize

\* A byte of the answer is used.
LEMMA UseByteInv == ASSUME MInv, UseByte PROVE MInv'
<1>1. /\ Len(word) < WORD_BYTES
      /\ word' = Append(word, back[3 + ReadOrder[Len(word) + 1]])
      /\ UNCHANGED <<phase, todo, pc, calib, calib_para, rounds, chip, line, ring, rx_len,
                     back, checked, asked, accepted, broken, faults>>
  BY DEF UseByte, rxVars
<1>2. word \in Seq(Byte) /\ Len(word) \in Nat /\ back \in [1..FrameLen -> Byte]
  BY LenProperties DEF MInv, MeterTypeOK
<1>3. 3 + ReadOrder[Len(word) + 1] \in 1..FrameLen
  <2>1. Len(word) + 1 \in 1..WORD_BYTES
    BY <1>1, <1>2, WordSize
  <2>2. ReadOrder[Len(word) + 1] \in 1..WORD_BYTES
    BY <2>1, ReadOrderType
  <2> QED BY <2>2, WordSize DEF FrameLen
<1>4. back[3 + ReadOrder[Len(word) + 1]] \in Byte
  BY <1>2, <1>3
<1>5. word' \in Seq(Byte) /\ Len(word') = Len(word) + 1
  BY <1>1, <1>2, <1>4, AppendProperties
<1>6. Len(word') <= WORD_BYTES
  BY <1>1, <1>2, <1>5, WordSize
<1>7. MeterTypeOK'
  BY <1>1, <1>5, <1>6 DEF MInv, MeterTypeOK
<1> QED BY <1>1, <1>7 DEF MInv, RingBounded, BackBufIntact

\* CalibVoltage decides.
LEMMA CalibratedInv == ASSUME MInv, Calibrated PROVE MInv'
<1> DEFINE voltage == Value(Assembled(word))
           e == ErrRAM(voltage)
           stored == [calib EXCEPT ![WARTUIndex] = e]
<1>1. voltage \in Word
  <2>1. word \in Seq(Byte) /\ Len(word) = WORD_BYTES
    BY DEF MInv, MeterTypeOK, Calibrated
  <2>2. Assembled(word) \in Seq(Byte) /\ Len(Assembled(word)) = WORD_BYTES
    BY <2>1, AssembledType
  <2> QED BY <2>2, ValueType
<1>2. WARTUIndex \in 1..Len(ErrorRegs)
  BY MeterAssumption DEF WARTUIndex
<1>3. e \in Word
  <2>1. calib_para[WARTUIndex] \in Word
    BY <1>2 DEF MInv, MeterTypeOK
  <2>2. Standard \in Word
    BY MeterAssumption
  <2> HIDE DEF voltage
  <2> DEFINE x == Standard - voltage + calib_para[WARTUIndex]
  <2>3. x \in Int
    BY <1>1, <2>1, <2>2, WordSize DEF Word
  <2> HIDE DEF x
  <2>4. x % U32 \in 0..(U32 - 1)
    BY <2>3, WordSize, ModRange
  <2> QED BY <2>4 DEF ErrRAM, Word, x
<1> HIDE DEF voltage, e
<1>4. stored \in [1..Len(ErrorRegs) -> Word]
  BY <1>3 DEF MInv, MeterTypeOK
<1>5. /\ calib' = stored
      /\ \/ /\ phase' = "metering" /\ todo' = ReadAARTU /\ accepted' = voltage
            /\ UNCHANGED <<calib_para, rounds>>
         \/ /\ rounds < MaxRounds /\ rounds' = rounds + 1 /\ phase' = "init"
            /\ calib_para' = stored /\ todo' = Meter_init(stored) /\ UNCHANGED accepted
      /\ pc' = "send" /\ word' = <<>>
      /\ UNCHANGED <<chip, line, ring, rx_len, back, checked, asked, broken, faults>>
  BY DEF Calibrated, voltage, e, rxVars
<1> HIDE DEF stored
<1>6. rounds' \in 0..MaxRounds
  <2>1. rounds \in 0..MaxRounds /\ MaxRounds \in Nat
    BY MeterAssumption DEF MInv, MeterTypeOK
  <2>2. rounds' = rounds \/ (rounds < MaxRounds /\ rounds' = rounds + 1)
    BY <1>5
  <2> QED BY <2>1, <2>2
<1>7. accepted' \in NoWord..(U32 - 1)
  <2>1. voltage \in NoWord..(U32 - 1)
    BY <1>1, WordSize DEF Word, NoWord
  <2> QED BY <1>5, <2>1 DEF MInv, MeterTypeOK
<1>8. Meter_init(stored) \in Seq(RegCommands) /\ Meter_init(stored) # <<>>
  BY <1>4, MeterInitType
<1>9. Meter_init(stored) \in Seq(Commands)
  <2>1. RegCommands \subseteq Commands
    BY DEF RegCommands
  <2> QED BY <1>8, <2>1, SeqMonotonic
<1>10. /\ todo' \in Seq(Commands) /\ todo' # <<>>
       /\ phase' \in {"init", "calib", "metering"}
       /\ phase' = "init" => todo' \in Seq(RegCommands)
  BY <1>5, <1>8, <1>9, ReadAARTUType
<1>11. /\ calib' \in [1..Len(ErrorRegs) -> Word] /\ calib_para' \in [1..Len(ErrorRegs) -> Word]
  BY <1>4, <1>5 DEF MInv, MeterTypeOK
<1>12. word' \in Seq(Byte) /\ Len(word') <= WORD_BYTES
  BY <1>5, WordSize
<1>13. MeterTypeOK'
  BY <1>5, <1>6, <1>7, <1>10, <1>11, <1>12 DEF MInv, MeterTypeOK
<1> QED BY <1>5, <1>10, <1>13 DEF MInv, RingBounded, BackBufIntact

\* ReadVoltage is done.
LEMMA MeteredInv == ASSUME MInv, Metered PROVE MInv'
<1>1. /\ word' = <<>> /\ pc' = "send"
      /\ UNCHANGED <<phase, todo, calib, calib_para, rounds, chip, line, ring, rx_len,
                     back, checked, asked, accepted, broken, faults>>
  BY DEF Metered, rxVars
<1>2. word' \in Seq(Byte) /\ Len(word') <= WORD_BYTES
  BY <1>1, WordSize
<1>3. MeterTypeOK'
  BY <1>1, <1>2 DEF MInv, MeterTypeOK
<1> QED BY <1>1, <1>3 DEF MInv, RingBounded, BackBufIntact

\* Every step keeps the invariant.
LEMMA MeterStepInv == MInv /\ [Next]_vars => MInv'
<1> SUFFICES ASSUME MInv, [Next]_vars PROVE MInv'
  OBVIOUS
<1>1. CASE TaskStep
  BY <1>1, SendInv, DelayInv, UseByteInv, CalibratedInv, MeteredInv DEF TaskStep
<1>2. CASE UART1_IRQHandler
  BY <1>2, IrqInv
<1>3. CASE UNCHANGED vars
  <2>1. UNCHANGED <<phase, todo, pc, word, calib, calib_para, rounds, chip, line, ring,
                    rx_len, back, checked, asked, accepted, broken, faults>>
    BY <1>3 DEF vars, taskVars, rxVars
  <2> QED BY <2>1 DEF MInv, MeterTypeOK, RingBounded, BackBufIntact
<1> QED BY <1>1, <1>2, <1>3 DEF Next, Bounded

\* The invariant of the metering task, the interrupt handler and the line.
THEOREM MeterInvariant == Spec => []MInv
BY MeterInitInv, MeterStepInv, PTL DEF Spec

\* The variables keep their types; in particular the calibration words and the
\* accepted reading are words, however the subtractions of CalibVoltage wrap.
THEOREM MeterTypeCorrect == Spec => []MeterTypeOK
<1>1. MInv => MeterTypeOK
  BY DEF MInv
<1> QED BY <1>1, MeterInvariant, PTL

\* The receive ring is never full, so the driver never takes a full ring for an
\* empty one, even when the parser has stopped reading it.
THEOREM RingNeverFull == Spec => []RingBounded
<1>1. MInv => RingBounded
  BY DEF MInv
<1> QED BY <1>1, MeterInvariant, PTL

\* ReadRegBackBuf never holds a part of an answer, whatever pieces the answers
\* come in and whatever is lost.
THEOREM BackBufCorrect == Spec => []BackBufIntact
<1>1. MInv => BackBufIntact
  BY DEF MInv
<1> QED BY <1>1, MeterInvariant, PTL
=============================================================================
