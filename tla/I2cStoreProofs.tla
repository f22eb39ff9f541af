---------------------------- MODULE I2cStoreProofs ----------------------------
(***************************************************************************)
(* Proofs about I2cStore for every value of its constants: any lengths of     *)
(* dates and registers, any set of well-formed commands and of damaging       *)
(* bytes, any tasks on the bus, any number of preemptions and power failures.  *)
(***************************************************************************)
EXTENDS I2cStore, SumProofs

-----------------------------------------------------------------------------
(***************************************************************************)
(* The check byte.                                                         *)
(***************************************************************************)
\* The check byte is a function of the sum.
LEMMA CheckIs == ASSUME NEW b PROVE Check(b) = CheckOf(ByteSum(b))
BY DEF Check, CheckOf, ByteSum

\* Bytes are numbers.
LEMMA ByteSeq == ASSUME NEW b \in Seq(Byte) PROVE b \in Seq(Int)
<1>1. Byte \subseteq Int
  BY DEF Byte
<1> QED BY <1>1, SeqMonotonic

\* The check byte is a byte.
LEMMA CheckType == ASSUME NEW b \in Seq(Byte) PROVE Check(b) \in Byte
<1>1. ByteSum(b) \in Int
  BY ByteSeq, SumType
<1> QED BY <1>1, CheckIs, CheckOfType DEF Byte

\* One changed byte changes it.
LEMMA CheckDiffers ==
  ASSUME NEW b \in Seq(Byte), NEW k \in 1..Len(b), NEW x \in Byte, x # b[k]
  PROVE  Check([b EXCEPT ![k] = x]) # Check(b)
<1>1. b \in Seq(Int)
  BY ByteSeq
<1>2. b[k] \in 0..255 /\ x \in 0..255
  BY ElementOfSeq DEF Byte
<1>3. ByteSum(b) \in Int
  BY <1>1, SumType
<1>4. ByteSum([b EXCEPT ![k] = x]) = ByteSum(b) + (x - b[k])
  BY <1>1, <1>2, SumChange
<1>5. x - b[k] \in (-255)..255 /\ x - b[k] # 0
  BY <1>2, ByteDiff
<1> QED BY <1>3, <1>4, <1>5, CheckIs, CheckOfDiffers

\* A well-formed frame with one byte changed is refused.
LEMMA DamageDetected ==
  ASSUME NEW d \in Seq(Byte), Len(d) \in 5..255, Accepts(d),
         NEW i \in 1..Len(d), NEW b \in Byte, b # d[i]
  PROVE  ~Accepts([d EXCEPT ![i] = b])
<1> DEFINE e == [d EXCEPT ![i] = b]
           n == Len(d)
           p == SubSeq(d, 1, n - 2)
           q == SubSeq(e, 1, n - 2)
<1>1. /\ e \in Seq(Byte) /\ Len(e) = n
      /\ \A j \in 1..n : e[j] = IF j = i THEN b ELSE d[j]
  BY ExceptSeq
<1>2. n \in 5..255
  OBVIOUS
<1>3. n % 256 = n
  <2> HIDE DEF n
  <2>1. n \in 0..255
    BY <1>2
  <2> QED BY <2>1, ModSmall
<1>4. d[1] = HeadByte /\ d[n] = EndByte /\ d[n - 1] = Check(p)
  BY <1>3 DEF Accepts
<1>5. p \in Seq(Byte) /\ Len(p) = n - 2 /\ \A j \in 1..(n - 2) : p[j] = d[j]
  <2>1. \A j \in 1..n : d[j] \in Byte
    BY ElementOfSeq
  <2> HIDE DEF n, e
  <2>2. n - 2 \in Int /\ 1 <= n - 2 /\ \A j \in 1..(n - 2) : j \in 1..n
    BY <1>2
  <2>3. \A j \in 1..(n - 2) : d[j] \in Byte
    BY <2>1, <2>2
  <2> QED BY <2>2, <2>3, SubSeqProperties
<1>6. 1 \in 1..n /\ n \in 1..n /\ i \in 1..n
  <2>1. i \in 1..n
    OBVIOUS
  <2> HIDE DEF n, e
  <2> QED BY <1>2, <2>1
<1> SUFFICES ASSUME Accepts(e) PROVE FALSE
  OBVIOUS
<1>7. e[1] = HeadByte /\ e[n] = EndByte /\ e[n - 1] = Check(q)
  <2> HIDE DEF e
  <2>1. Len(e) = n
    BY <1>1
  <2> QED BY <1>3, <2>1 DEF Accepts
<1>8. i \in 2..(n - 1)
  <2>1. i # 1 /\ i # n
    BY <1>1, <1>4, <1>6, <1>7
  <2> HIDE DEF n, e
  <2> QED BY <1>2, <1>6, <2>1
<1>9. q \in Seq(Byte) /\ Len(q) = n - 2 /\ \A j \in 1..(n - 2) : q[j] = e[j]
  <2> HIDE DEF n, e
  <2>1. \A j \in 1..(n - 2) : e[j] \in Byte
    BY <1>1, <1>2, ElementOfSeq
  <2>2. n - 2 \in Int /\ 1 <= n - 2
    BY <1>2
  <2> QED BY <2>1, <2>2, SubSeqProperties
<1> HIDE DEF e, p, q, n
<1>10. CASE i = n - 1
  <2>1. \A j \in 1..(n - 2) : q[j] = p[j]
    BY <1>1, <1>2, <1>5, <1>9, <1>10
  <2>2. q = p
    BY <1>5, <1>9, <2>1, SeqEqual
  <2>3. e[n - 1] = b /\ b # d[n - 1]
    BY <1>1, <1>2, <1>10
  <2> QED BY <1>4, <1>7, <2>2, <2>3
<1>11. CASE i \in 2..(n - 2)
  <2>1. i \in 1..Len(p) /\ i \in 1..(n - 2)
    BY <1>2, <1>5, <1>11
  <2> DEFINE r == [p EXCEPT ![i] = b]
  <2>2. /\ r \in Seq(Byte) /\ Len(r) = n - 2
        /\ \A j \in 1..(n - 2) : r[j] = IF j = i THEN b ELSE p[j]
    BY <1>5, <2>1, ExceptSeq
  <2> HIDE DEF r
  <2>3. ASSUME NEW j \in 1..(n - 2) PROVE q[j] = r[j]
    <3>1. j \in 1..n
      BY <1>2
    <3>2. q[j] = e[j] /\ p[j] = d[j]
      BY <1>5, <1>9
    <3>3. e[j] = IF j = i THEN b ELSE d[j]
      BY <1>1, <3>1, Zenon
    <3>4. r[j] = IF j = i THEN b ELSE p[j]
      BY <2>2, Zenon
    <3> QED BY <3>2, <3>3, <3>4
  <2>4. q = r
    BY <1>5, <1>9, <2>2, <2>3, SeqEqual
  <2>5. e[n - 1] = d[n - 1] /\ b # p[i]
    BY <1>1, <1>2, <1>5, <1>11
  <2> QED BY <1>4, <1>5, <1>7, <2>1, <2>4, <2>5, CheckDiffers DEF r
<1> QED BY <1>2, <1>8, <1>10, <1>11

\* A datagram Data_Handle accepts is one that was sent.
LEMMA AcceptedWasSent ==
  ASSUME NEW d \in Datagrams, Accepts(d) PROVE d \in Sent
<1> SUFFICES ASSUME d \notin Sent PROVE FALSE
  OBVIOUS
<1>1. PICK s \in Sent : d \in Damaged(s)
  BY DEF Datagrams
<1>2. PICK i \in 1..Len(s), b \in Noise : d = [s EXCEPT ![i] = b]
  BY <1>1 DEF Damaged
<1>3. s \in Seq(Byte) /\ Len(s) \in 5..255 /\ Accepts(s)
  BY SentAssumption
<1>4. b \in Byte
  <2>1. Noise \subseteq Byte
    BY StoreAssumption, Zenon
  <2> QED BY <2>1
<1>5. CASE b = s[i]
  <2>1. d = s
    BY <1>2, <1>3, <1>5, SMTT(30)
  <2> QED BY <2>1
<1>6. CASE b # s[i]
  BY <1>2, <1>3, <1>4, <1>6, DamageDetected
<1> QED BY <1>5, <1>6
-----------------------------------------------------------------------------
(***************************************************************************)
(* The operations of the tasks.                                            *)
(***************************************************************************)
\* An EEPROM operation is about one byte, what is written are bytes, and a
\* clock operation names a register and has something to write or read.
GoodOps ==
  {o \in Op : /\ o.k \in {"ew", "er"} => Len(o.v) = 1
              /\ o.k \in {"ew", "cw"} => o.v \in Seq(Byte)
              /\ o.k \in {"cw", "cr"} => o.a \in Byte /\ o.v # <<>>}

\* Operations of which each adds at most one byte to an answer.
ReadOps == {o \in GoodOps : o.k \in {"er", "status"}}

\* The cells of the EEPROM are numbered from 0 to AddrSpan - 1.
LEMMA SpanIs == AddrSpan \in Nat \ {0} /\ AddrSpan = 256 * 256
BY DEF AddrSpan

LEMMA AddrIs == ASSUME NEW x PROVE x \in Addr16 <=> x \in Nat /\ x < AddrSpan
<1>1. AddrSpan \in Nat
  BY SpanIs
<1> QED BY <1>1 DEF Addr16

\* Small numbers are addresses.
LEMMA SmallAddr ==
  /\ Byte \subseteq Addr16
  /\ 0 \in Addr16
  /\ \A a \in 0..255 : \A i \in 1..255 : a + i - 1 \in Addr16
<1>1. AddrSpan \in Nat /\ AddrSpan > 600
  BY SpanIs
<1>2. AddrSpan - 1 \in Nat /\ AddrSpan - 1 >= 600 /\ Addr16 = 0..(AddrSpan - 1)
  BY <1>1 DEF Addr16
<1>3. \A x \in 0..600 : x \in Addr16
  BY <1>2, SMTT(30)
<1>4. Byte \subseteq Addr16
  BY <1>3 DEF Byte
<1>5. ASSUME NEW a \in 0..255, NEW i \in 1..255 PROVE a + i - 1 \in Addr16
  BY <1>3
<1>6. 0 \in Addr16
  BY <1>3
<1> QED BY <1>4, <1>5, <1>6

\* Sequences of one byte.
LEMMA OneByte ==
  ASSUME NEW S, NEW x \in S
  PROVE  <<x>> \in Seq(S) /\ Len(<<x>>) = 1 /\ <<x>>[1] = x /\ <<x>> # <<>>
OBVIOUS

\* An operation from its parts.
LEMMA MakeOp ==
  ASSUME NEW k \in {"ew", "er", "cw", "cr", "wait", "relay", "status"},
         NEW a \in Addr16, NEW v \in Seq(Byte \cup {AnyByte}),
         k \in {"ew", "er"} => Len(v) = 1,
         k \in {"ew", "cw"} => v \in Seq(Byte),
         k \in {"cw", "cr"} => a \in Byte /\ v # <<>>
  PROVE  [k |-> k, a |-> a, v |-> v] \in GoodOps
<1> DEFINE o == [k |-> k, a |-> a, v |-> v]
<1>1. o \in Op
  BY DEF Op
<1>2. o.k = k /\ o.a = a /\ o.v = v
  OBVIOUS
<1> HIDE DEF o
<1>3. o \in GoodOps
  BY <1>1, <1>2 DEF GoodOps
<1> QED BY <1>3 DEF o

\* A byte to write or to read and compare.
LEMMA GoodWrite ==
  ASSUME NEW a \in Addr16, NEW b \in Byte PROVE AT24CXX_WriteOneByte(a, b) \in GoodOps
<1> DEFINE v == <<b>>
<1>1. v \in Seq(Byte) /\ v \in Seq(Byte \cup {AnyByte}) /\ Len(v) = 1
  BY OneByte
<1> HIDE DEF v
<1>2. [k |-> "ew", a |-> a, v |-> v] \in GoodOps
  BY <1>1, MakeOp
<1> QED BY <1>2 DEF AT24CXX_WriteOneByte, v

LEMMA GoodRead ==
  ASSUME NEW a \in Addr16, NEW b \in Byte \cup {AnyByte}
  PROVE  AT24CXX_ReadOneByte(a, b) \in ReadOps
<1> DEFINE v == <<b>>
<1>1. v \in Seq(Byte \cup {AnyByte}) /\ Len(v) = 1
  BY OneByte
<1> HIDE DEF v
<1>2. [k |-> "er", a |-> a, v |-> v] \in GoodOps
  BY <1>1, MakeOp
<1>3. [k |-> "er", a |-> a, v |-> v] \in ReadOps
  BY <1>2 DEF ReadOps
<1> QED BY <1>3 DEF AT24CXX_ReadOneByte, v

LEMMA GoodDelay == Delay \in GoodOps
<1>1. <<>> \in Seq(Byte \cup {AnyByte}) /\ 0 \in Addr16
  <2>1. 0 \in Addr16
    BY SmallAddr, Zenon
  <2> QED BY <2>1
<1>2. [k |-> "wait", a |-> 0, v |-> <<>>] \in GoodOps
  BY <1>1, MakeOp
<1> QED BY <1>2 DEF Delay

LEMMA GoodRelay ==
  ASSUME NEW b \in Byte \cup {AnyByte}
  PROVE  UserRelayCtrl(b) \in GoodOps /\ GetRelayStatus(b) \in ReadOps
<1> DEFINE v == <<b>>
<1>1. v \in Seq(Byte \cup {AnyByte}) /\ 0 \in Addr16
  BY OneByte, SmallAddr
<1> HIDE DEF v
<1>2. [k |-> "relay", a |-> 0, v |-> v] \in GoodOps
  BY <1>1, MakeOp
<1>3. [k |-> "status", a |-> 0, v |-> v] \in GoodOps
  BY <1>1, MakeOp
<1>4. [k |-> "status", a |-> 0, v |-> v] \in ReadOps
  BY <1>3 DEF ReadOps
<1> QED BY <1>2, <1>4 DEF UserRelayCtrl, GetRelayStatus, v

\* Registers of the clock to write or to read.
LEMMA GoodClockWrite ==
  ASSUME NEW a \in Byte, NEW v \in Seq(Byte), v # <<>> PROVE ClockWrite(a, v) \in GoodOps
<1>1. v \in Seq(Byte \cup {AnyByte})
  BY SeqMonotonic
<1>2. a \in Addr16
  BY SmallAddr
<1> QED BY <1>1, <1>2, MakeOp DEF ClockWrite

LEMMA GoodClockRead ==
  ASSUME NEW a \in Byte, NEW n \in Nat \ {0}
  PROVE  ClockRead(a, n) \in GoodOps
<1> DEFINE v == [i \in 1..n |-> AnyByte]
<1>1. v \in Seq(Byte \cup {AnyByte}) /\ Len(v) = n
  OBVIOUS
<1>2. v # <<>>
  BY <1>1
<1>3. a \in Addr16
  BY SmallAddr
<1> HIDE DEF v
<1>4. [k |-> "cr", a |-> a, v |-> v] \in GoodOps
  BY <1>1, <1>2, <1>3, MakeOp
<1> QED BY <1>4 DEF ClockRead, v

\* AT24CXX_Write and AT24CXX_Read.
LEMMA GoodWrites ==
  ASSUME NEW a \in 0..255, NEW b \in Seq(Byte), Len(b) <= 255
  PROVE  AT24CXX_Write(a, b) \in Seq(GoodOps)
<1>1. Len(b) \in Nat /\ \A i \in 1..Len(b) : b[i] \in Byte
  BY LenProperties, ElementOfSeq
<1>2. \A i \in 1..Len(b) : i \in 1..255 /\ a + i - 1 \in Addr16
  <2>1. \A i \in 1..Len(b) : i \in 1..255
    BY <1>1
  <2> QED BY <2>1, SmallAddr
<1>3. ASSUME NEW i \in 1..Len(b)
      PROVE  AT24CXX_WriteOneByte(a + i - 1, b[i]) \in GoodOps
  <2>1. a + i - 1 \in Addr16 /\ b[i] \in Byte
    BY <1>1, <1>2
  <2> QED BY <2>1, GoodWrite
<1> QED BY <1>1, <1>3 DEF AT24CXX_Write

LEMMA GoodReads ==
  ASSUME NEW a \in 0..255, NEW n \in 0..255
  PROVE  /\ AT24CXX_Read(a, n) \in Seq(ReadOps) /\ AT24CXX_Read(a, n) \in Seq(GoodOps)
         /\ Len(AT24CXX_Read(a, n)) = n
<1>1. \A i \in 1..n : a + i - 1 \in Addr16
  <2>1. \A i \in 1..n : i \in 1..255
    OBVIOUS
  <2> QED BY <2>1, SmallAddr, Zenon
<1>2. ASSUME NEW i \in 1..n
      PROVE  AT24CXX_ReadOneByte(a + i - 1, AnyByte) \in ReadOps
  <2>1. a + i - 1 \in Addr16 /\ AnyByte \in Byte \cup {AnyByte}
    BY <1>1
  <2> QED BY <2>1, GoodRead
<1>3. AT24CXX_Read(a, n) \in Seq(ReadOps) /\ Len(AT24CXX_Read(a, n)) = n
  BY <1>2 DEF AT24CXX_Read
<1>4. ReadOps \subseteq GoodOps
  BY DEF ReadOps
<1> QED BY <1>3, <1>4, SeqMonotonic
\* Sequences of operations, put together.
LEMMA GoodConcat ==
  ASSUME NEW s \in Seq(GoodOps), NEW r \in Seq(GoodOps) PROVE s \o r \in Seq(GoodOps)
OBVIOUS

LEMMA GoodOne == ASSUME NEW o \in GoodOps PROVE <<o>> \in Seq(GoodOps)
OBVIOUS

\* A function on 1..n is a sequence.
LEMMA SeqOf ==
  ASSUME NEW n \in Nat, NEW S, NEW f \in [1..n -> S]
  PROVE  f \in Seq(S) /\ Len(f) = n /\ (n > 0 => f # <<>>)
OBVIOUS

\* The hour with the 24-hour bit set, and without it, is a byte.
LEMMA HourBit ==
  ASSUME NEW x \in 0..255 PROVE (x % 128) + 128 \in 0..255 /\ x % 128 \in 0..255
OBVIOUS

\* RTC_WriteDate.
LEMMA GoodDate ==
  ASSUME NEW t \in [1..TIME_LEN -> Byte] PROVE RTC_WriteDate(t) \in GoodOps
<1> DEFINE v == [t EXCEPT ![HOUR] = (@ % 128) + 128]
<1>1. TIME_LEN \in Nat /\ TIME_LEN > 0 /\ HOUR \in 1..TIME_LEN
  BY CommandAssumption
<1>2. t[HOUR] \in 0..255
  BY <1>1 DEF Byte
<1>3. (t[HOUR] % 128) + 128 \in Byte
  BY <1>2, HourBit DEF Byte
<1>4. v \in [1..TIME_LEN -> Byte]
  BY <1>1, <1>3
<1> HIDE DEF v
<1>5. v \in Seq(Byte) /\ v # <<>>
  BY <1>1, <1>4, SeqOf
<1>6. 0 \in Byte
  BY DEF Byte
<1> QED BY <1>5, <1>6, GoodClockWrite DEF RTC_WriteDate, v

\* The bytes of a datagram.
LEMMA TempType == ASSUME NEW d \in Seq(Byte), NEW k \in Nat PROVE Temp(d, k) \in Byte
<1>1. CASE k < Len(d)
  <2>1. k + 1 \in 1..Len(d)
    BY <1>1, LenProperties
  <2> QED BY <1>1, <2>1, ElementOfSeq DEF Temp
<1>2. CASE ~(k < Len(d))
  BY <1>2 DEF Temp, Byte
<1> QED BY <1>1, <1>2

LEMMA ClampType == ASSUME NEW d \in Seq(Byte) PROVE ClampedTime(d) \in [1..TIME_LEN -> Byte]
<1>1. ASSUME NEW i \in 1..TIME_LEN
      PROVE  (IF Temp(d, i + 2) > TimeLimits[i] THEN TimeDefaults[i] ELSE Temp(d, i + 2)) \in Byte
  <2>1. TimeDefaults[i] \in Byte
    BY CommandAssumption
  <2>2. Temp(d, i + 2) \in Byte
    BY TempType
  <2> QED BY <2>1, <2>2
<1> QED BY <1>1 DEF ClampedTime

\* The lengths the operations depend on.
LEMMA Lengths ==
  /\ TIME_LEN \in 1..255 /\ CLEAR_LEN \in 1..255 /\ ENERGY_LEN \in 1..255
  /\ UDPACK_SIZE \in 7..255 /\ ENERGY_LEN <= CLEAR_LEN
  /\ TIME_LEN <= UDPACK_SIZE - 6 /\ CLEAR_LEN <= UDPACK_SIZE - 6
  /\ ENERGY_LEN <= UDPACK_SIZE - 6
<1>1. TIME_LEN \in Nat \ {0} /\ CLEAR_LEN \in Nat \ {0} /\ ENERGY_LEN \in Nat \ {0}
  BY CommandAssumption
<1>2. /\ UDPACK_SIZE \in 0..255 /\ TIME_LEN + 6 <= UDPACK_SIZE
      /\ CLEAR_LEN + 6 <= UDPACK_SIZE
  BY StoreAssumption
<1>3. ENERGY_LEN <= CLEAR_LEN
  BY CommandAssumption
<1> QED BY <1>1, <1>2, <1>3

\* The beginning of the memory at address 0.
LEMMA RomType ==
  ASSUME NEW n \in 1..CLEAR_LEN
  PROVE  SubSeq(Rom, 1, n) \in Seq(Byte) /\ Len(SubSeq(Rom, 1, n)) = n
<1>1. CLEAR_LEN \in Nat /\ Rom \in [1..CLEAR_LEN -> Byte]
  BY CommandAssumption
<1>2. Rom \in Seq(Byte) /\ Len(Rom) = CLEAR_LEN
  BY <1>1, SeqOf
<1>3. \A i \in 1..n : Rom[i] \in Byte
  BY <1>1
<1>4. n \in Int /\ 1 <= n
  BY <1>1
<1> QED BY <1>3, <1>4, SubSeqProperties
\* The energy registers lie below 256.
LEMMA EnergyAtType == ASSUME NEW add \in EnergyAdds PROVE EnergyAt(add) \in 0..255
BY DEF EnergyAdds, EnergyAt, EnergyBase

\* The parameters are stored at one or two addresses.
LEMMA ParameterType ==
  ASSUME NEW add, IsParameter(add) PROVE ParameterAt(add) \in Seq(Byte)
<1>1. PICK p \in Parameters : p[1] = add
  BY DEF IsParameter
<1> DEFINE c == CHOOSE q \in Parameters : q[1] = add
<1>2. c \in Parameters
  BY <1>1
<1> HIDE DEF c
<1> DEFINE At == { <<\h71>>, <<\h90, \h91>>, <<\h92>>, <<\h93>>, <<\h94>>, <<\h95>>,
                   <<\hA2, \hA3>>, <<\hB2, \hB3>>, <<\hB4>>, <<\hB5>>, <<\hB6, \hB7>> }
<1>3. c[2] \in At
  BY <1>2 DEF Parameters
<1>4. At \subseteq Seq(Byte)
  BY DEF Byte
<1> HIDE DEF At
<1>5. c[2] \in Seq(Byte)
  BY <1>3, <1>4
<1> QED BY <1>5 DEF ParameterAt, c

\* The operations of a parameter command.
LEMMA GoodParameter ==
  ASSUME NEW d \in Seq(Byte), IsParameter(d[3]) PROVE ParameterOps(d) \in Seq(GoodOps)
<1> DEFINE at == ParameterAt(d[3])
           n == Len(at)
           w == [i \in 1..n |-> AT24CXX_WriteOneByte(at[i], Temp(d, i + 2))]
           r == [i \in 1..n |-> AT24CXX_ReadOneByte(at[i], Temp(d, i + 2))]
<1>1. at \in Seq(Byte)
  BY ParameterType
<1>2. n \in Nat /\ \A i \in 1..n : at[i] \in Byte
  <2> HIDE DEF at
  <2> QED BY <1>1, LenProperties, ElementOfSeq
<1>3. ParameterOps(d) = w \o r
  BY DEF ParameterOps
<1> HIDE DEF at, n
<1>4. ASSUME NEW i \in 1..n
      PROVE  /\ AT24CXX_WriteOneByte(at[i], Temp(d, i + 2)) \in GoodOps
             /\ AT24CXX_ReadOneByte(at[i], Temp(d, i + 2)) \in GoodOps
  <2>1. at[i] \in Addr16
    BY <1>2, SmallAddr
  <2>2. i + 2 \in Nat
    BY <1>2
  <2>3. Temp(d, i + 2) \in Byte
    BY <2>2, TempType
  <2>4. AT24CXX_ReadOneByte(at[i], Temp(d, i + 2)) \in ReadOps
    BY <2>1, <2>3, GoodRead
  <2> QED BY <2>1, <2>3, <2>4, GoodWrite DEF ReadOps
<1>5. w \in [1..n -> GoodOps] /\ r \in [1..n -> GoodOps]
  BY <1>4
<1> HIDE DEF w, r
<1>6. w \in Seq(GoodOps) /\ r \in Seq(GoodOps)
  BY <1>2, <1>5, SeqOf
<1> QED BY <1>3, <1>6, GoodConcat

\* What Write_Meter does.
LEMMA GoodWriteMeter == ASSUME NEW d \in Seq(Byte) PROVE Write_Meter(d) \in Seq(GoodOps)
<1> DEFINE add == d[3]
<1>1. Temp(d, 3) \in Byte
  BY TempType
<1>2. <<UserRelayCtrl(Temp(d, 3)), Delay, GetRelayStatus(Temp(d, 3))>> \in Seq(GoodOps)
  BY <1>1, GoodRelay, GoodDelay DEF ReadOps
<1>3. <<RTC_WriteDate(ClampedTime(d))>> \in Seq(GoodOps)
  BY ClampType, GoodDate, GoodOne
<1>4. ASSUME add \in EnergyAdds
      PROVE  AT24CXX_Write(EnergyAt(add), SubSeq(Rom, 1, ENERGY_LEN)) \in Seq(GoodOps)
  <2>1. ENERGY_LEN \in 1..CLEAR_LEN /\ ENERGY_LEN <= 255
    BY Lengths
  <2>2. EnergyAt(add) \in 0..255
    BY <1>4, EnergyAtType
  <2> QED BY <2>1, <2>2, RomType, GoodWrites
<1>5. AT24CXX_Write(EnergyBase, SubSeq(Rom, 1, CLEAR_LEN)) \in Seq(GoodOps)
  <2>1. CLEAR_LEN \in 1..CLEAR_LEN /\ CLEAR_LEN <= 255
    BY Lengths
  <2>2. EnergyBase \in 0..255
    BY DEF EnergyBase
  <2> QED BY <2>1, <2>2, RomType, GoodWrites
<1>6. AT24CXX_Write(\h72, ClampedTime(d)) \in Seq(GoodOps)
  <2>1. ClampedTime(d) \in Seq(Byte) /\ Len(ClampedTime(d)) = TIME_LEN
    BY ClampType, Lengths, SeqOf
  <2>2. Len(ClampedTime(d)) <= 255 /\ \h72 \in 0..255
    BY <2>1, Lengths
  <2> QED BY <2>1, <2>2, GoodWrites
<1>7. IsParameter(add) => ParameterOps(d) \in Seq(GoodOps)
  BY GoodParameter
<1>8. <<>> \in Seq(GoodOps)
  OBVIOUS
<1> QED BY <1>2, <1>3, <1>4, <1>5, <1>6, <1>7, <1>8 DEF Write_Meter

\* What Read_Meter does, and how much it reads.
LEMMA GoodReadMeter ==
  ASSUME NEW d \in Seq(Byte)
  PROVE  /\ Read_Meter(d) \in Seq(ReadOps)
         /\ Len(Read_Meter(d)) <= UDPACK_SIZE - 6
<1> DEFINE add == d[3]
           Fits(s) == s \in Seq(ReadOps) /\ Len(s) <= UDPACK_SIZE - 6
<1>1. ASSUME NEW a \in 0..255, NEW n \in 1..255, n <= UDPACK_SIZE - 6
      PROVE  Fits(AT24CXX_Read(a, n))
  <2>1. n \in 0..255
    OBVIOUS
  <2>2. AT24CXX_Read(a, n) \in Seq(ReadOps) /\ Len(AT24CXX_Read(a, n)) = n
    BY <2>1, GoodReads
  <2> QED BY <1>1, <2>2
<1>2. Fits(<<GetRelayStatus(AnyByte)>>)
  <2>1. GetRelayStatus(AnyByte) \in ReadOps
    BY GoodRelay
  <2> QED BY <2>1, Lengths
<1>3. Fits(<<>>)
  BY Lengths
<1> HIDE DEF Fits
<1>4. \A a \in 0..255 : /\ Fits(AT24CXX_Read(a, TIME_LEN)) /\ Fits(AT24CXX_Read(a, CLEAR_LEN))
                        /\ Fits(AT24CXX_Read(a, ENERGY_LEN))
  BY <1>1, Lengths
<1>5. \A a \in 0..255 : Fits(AT24CXX_Read(a, 1))
  <2>1. 1 \in 1..255 /\ 1 <= UDPACK_SIZE - 6
    BY Lengths
  <2> QED BY <1>1, <2>1
<1>6. \h00 \in 0..255 /\ \h11 \in 0..255 /\ \h71 \in 0..255 /\ \h72 \in 0..255
      /\ \h69 \in 0..255 /\ \h65 \in 0..255
  OBVIOUS
<1>7. /\ Fits(AT24CXX_Read(\h00, TIME_LEN)) /\ Fits(AT24CXX_Read(\h72, TIME_LEN))
      /\ Fits(AT24CXX_Read(\h69, ENERGY_LEN)) /\ Fits(AT24CXX_Read(\h65, ENERGY_LEN))
      /\ Fits(AT24CXX_Read(\h11, CLEAR_LEN)) /\ Fits(AT24CXX_Read(\h71, 1))
  BY <1>4, <1>5, <1>6, Zenon
<1>8. add \in EnergyAdds => Fits(AT24CXX_Read(EnergyAt(add), ENERGY_LEN))
  BY <1>1, Lengths, EnergyAtType
<1>9. Fits(Read_Meter(d))
  BY <1>2, <1>3, <1>7, <1>8 DEF Read_Meter
<1> QED BY <1>9 DEF Fits

\* What a command does.
LEMMA GoodCommand ==
  ASSUME NEW d \in Seq(Byte)
  PROVE  /\ CommandOps(d) \in Seq(GoodOps)
         /\ d[2] # Wflag => /\ CommandOps(d) \in Seq(ReadOps)
                            /\ Len(CommandOps(d)) <= UDPACK_SIZE - 6
<1>1. ReadOps \subseteq GoodOps
  BY DEF ReadOps
<1>2. Seq(ReadOps) \subseteq Seq(GoodOps)
  BY <1>1, SeqMonotonic
<1>3. <<>> \in Seq(ReadOps) /\ Len(<<>>) <= UDPACK_SIZE - 6
  BY Lengths
<1>4. CASE d[2] = Wflag
  <2>1. CommandOps(d) = Write_Meter(d)
    BY <1>4 DEF CommandOps, Wflag, Rflag
  <2> QED BY <1>4, <2>1, GoodWriteMeter
<1>5. CASE d[2] # Wflag /\ d[2] = Rflag
  <2>1. CommandOps(d) = Read_Meter(d)
    BY <1>5 DEF CommandOps
  <2> QED BY <1>2, <2>1, GoodReadMeter
<1>6. CASE d[2] # Wflag /\ d[2] # Rflag
  <2>1. CommandOps(d) = <<>>
    BY <1>6 DEF CommandOps
  <2> QED BY <1>2, <1>3, <2>1
<1> QED BY <1>4, <1>5, <1>6
-----------------------------------------------------------------------------
(***************************************************************************)
(* The inductive invariant.                                                *)
(***************************************************************************)
BusPhases == {"idle", "ehi", "elo", "edata", "eread", "cptr", "cdata", "cread"}

\* Call p, at byte i, is one operation o makes.
PhaseFits(o, p, i) ==
  /\ p = "start" => o.k \in {"ew", "er", "cw", "cr"}
  /\ p \in {"hi", "lo"} => o.k \in {"ew", "er"}
  /\ p = "ptr" => o.k \in {"cw", "cr"}
  /\ p \in {"data", "stop"} => o.k \in {"ew", "cw"}
  /\ p \in {"restart", "read"} => o.k \in {"er", "cr"}
  /\ p = "gpio" => o.k \in {"relay", "status"}
  /\ p \in {"start", "hi", "lo", "ptr", "restart"} => i = 1
  /\ p \in {"data", "read"} => i <= Len(o.v)

TasksOK ==
  /\ op \in [Tasks -> GoodOps]
  /\ ph \in [Tasks -> Phases]
  /\ idx \in [Tasks -> Nat \ {0}]
  /\ todo \in [Tasks -> Seq(GoodOps)]
  /\ got \in [Tasks -> Seq(Byte)]
  /\ \A t \in Tasks : PhaseFits(op[t], ph[t], idx[t])

BusTypeOK ==
  bus \in [ph : BusPhases, hi : Byte, eptr : Addr16, cptr : Byte, page : {bus.page}]

ChipsOK ==
  /\ BusTypeOK
  /\ eeprom \in [Addrs -> Byte]
  /\ ebusy \in {0, 1}
  /\ settled \subseteq Tasks
  /\ clock \in [ClockRegs -> Byte]
  /\ relay \in {0, 1}

RestOK ==
  /\ stage \in [Tasks -> {"reset", "show", "flag", "boot", "loop", "save", "init", "stored"}]
  /\ cmd \in Sent \cup {NoCmd}
  /\ ok \in {0, 1}
  /\ ack \in Seq(Byte)
  /\ hits \in 0..MaxHits
  /\ clashes = 0 \/ clashes \in 1..MaxClashes
  /\ loss \in 0..MaxLoss

\* The EEPROM is being addressed or given a byte.
Addressed == bus.ph \in {"ehi", "elo", "edata"}

\* It is t that does so, and what the chip holds is what t has sent.
Owns(t) ==
  /\ EepromOp(t)
  /\ \/ bus.ph = "ehi" /\ ph[t] = "hi" /\ bus.page = NoPage
     \/ bus.ph = "elo" /\ ph[t] = "lo" /\ bus.page = NoPage /\ bus.hi = op[t].a \div 256
     \/ /\ bus.ph = "edata" /\ ph[t] \in {"data", "restart"} /\ bus.page = NoPage
        /\ bus.eptr = op[t].a
     \/ bus.ph = "edata" /\ ph[t] = "stop" /\ bus.page = [a \in {op[t].a} |-> op[t].v[1]]

\* Phases of a task outside its transfers.
Between == {"start", "gpio", "pause", "delay", "end", "off"}

\* An EEPROM that is being addressed has an owner, and the tasks that preempt
\* the owner have not begun a transfer of their own.
BusOwned ==
  Addressed => \E t \in Tasks : Owns(t) /\ \A u \in Above(t) : ph[u] \in Between

\* The date exrtc_save is about to store has all its bytes.
RtcReading ==
  stage["rtc"] = "loop" =>
    \/ /\ op["rtc"] = Delay /\ ph["rtc"] \in {"pause", "delay"}
       /\ todo["rtc"] = <<RTC_ReadDate>> /\ got["rtc"] = <<>>
    \/ /\ op["rtc"] = RTC_ReadDate /\ ph["rtc"] \in {"start", "ptr", "restart", "read"}
       /\ todo["rtc"] = <<>> /\ Len(got["rtc"]) = idx["rtc"] - 1
    \/ ph["rtc"] = "end" /\ Len(got["rtc"]) = TIME_LEN

\* What a read command has read and has yet to read fits UDPAck.
RcvReading ==
  cmd # NoCmd /\ cmd[2] # Wflag =>
    /\ todo["rcv"] \in Seq(ReadOps)
    /\ IF ph["rcv"] = "end"
       THEN Len(got["rcv"]) <= UDPACK_SIZE - 6
       ELSE /\ op["rcv"] \in ReadOps
            /\ Len(got["rcv"]) + Len(todo["rcv"]) + 1 <= UDPACK_SIZE - 6

SInv ==
  /\ TasksOK /\ ChipsOK /\ RestOK
  /\ BusOwned /\ RtcReading /\ RcvReading
  /\ AckWellFormed
-----------------------------------------------------------------------------
(***************************************************************************)
(* Tasks and the bus.                                                      *)
(***************************************************************************)
\* The tasks other than t are left alone.
Others(t) ==
  \A u \in Tasks \ {t} : /\ op'[u] = op[u] /\ ph'[u] = ph[u] /\ idx'[u] = idx[u]
                         /\ todo'[u] = todo[u]

\* The first call of an operation.
LEMMA FirstFits ==
  ASSUME NEW o \in GoodOps
  PROVE  PhaseFits(o, First(o), 1) /\ First(o) \in {"start", "gpio", "pause"}
<1>1. o.k \in {"ew", "er", "cw", "cr", "wait", "relay", "status"}
  BY DEF GoodOps, Op
<1> QED BY <1>1 DEF PhaseFits, First

\* A task goes on with s.
LEMMA FollowOK ==
  ASSUME TasksOK, NEW t \in Tasks, NEW s \in Seq(GoodOps), Follow(t, s),
         got' \in [Tasks -> Seq(Byte)]
  PROVE  /\ TasksOK' /\ Others(t)
         /\ idx'[t] = 1
         /\ ph'[t] \in {"start", "gpio", "pause", "end"}
         /\ s = <<>> => ph'[t] = "end" /\ todo'[t] = <<>>
         /\ s # <<>> => /\ op'[t] = Head(s) /\ todo'[t] = Tail(s)
                        /\ ph'[t] = First(Head(s)) /\ ph'[t] # "end"
<1>1. CASE s = <<>>
  <2>1. /\ op' = [op EXCEPT ![t] = Delay] /\ ph' = [ph EXCEPT ![t] = "end"]
        /\ idx' = [idx EXCEPT ![t] = 1] /\ todo' = [todo EXCEPT ![t] = <<>>]
    BY <1>1 DEF Follow
  <2>2. /\ op' \in [Tasks -> GoodOps] /\ ph' \in [Tasks -> Phases]
        /\ idx' \in [Tasks -> Nat \ {0}] /\ todo' \in [Tasks -> Seq(GoodOps)]
    BY <2>1, GoodDelay DEF TasksOK, Phases
  <2>3. Others(t) /\ ph'[t] = "end" /\ idx'[t] = 1 /\ todo'[t] = <<>>
    BY <2>1 DEF TasksOK, Others
  <2>4. PhaseFits(op'[t], "end", 1)
    BY DEF PhaseFits
  <2>5. \A u \in Tasks : PhaseFits(op'[u], ph'[u], idx'[u])
    BY <2>3, <2>4 DEF TasksOK, Others
  <2> QED BY <1>1, <2>2, <2>3, <2>5 DEF TasksOK
<1>2. CASE s # <<>>
  <2>1. /\ op' = [op EXCEPT ![t] = Head(s)] /\ ph' = [ph EXCEPT ![t] = First(Head(s))]
        /\ idx' = [idx EXCEPT ![t] = 1] /\ todo' = [todo EXCEPT ![t] = Tail(s)]
    BY <1>2 DEF Follow
  <2>2. Head(s) \in GoodOps /\ Tail(s) \in Seq(GoodOps)
    BY <1>2
  <2>3. /\ PhaseFits(Head(s), First(Head(s)), 1)
        /\ First(Head(s)) \in {"start", "gpio", "pause"} /\ First(Head(s)) \in Phases
    BY <2>2, FirstFits DEF Phases
  <2>4. /\ op' \in [Tasks -> GoodOps] /\ ph' \in [Tasks -> Phases]
        /\ idx' \in [Tasks -> Nat \ {0}] /\ todo' \in [Tasks -> Seq(GoodOps)]
    BY <2>1, <2>2, <2>3 DEF TasksOK
  <2>5. /\ Others(t) /\ op'[t] = Head(s) /\ ph'[t] = First(Head(s)) /\ idx'[t] = 1
        /\ todo'[t] = Tail(s)
    BY <2>1 DEF TasksOK, Others
  <2>6. \A u \in Tasks : PhaseFits(op'[u], ph'[u], idx'[u])
    BY <2>3, <2>5 DEF TasksOK, Others
  <2> QED BY <1>2, <2>3, <2>4, <2>5, <2>6 DEF TasksOK
<1> QED BY <1>1, <1>2

\* A task goes on with another call of its operation.
LEMMA GotoOK ==
  ASSUME TasksOK, NEW t \in Tasks, NEW p \in Phases, Goto(t, p),
         NEW i \in Nat \ {0}, idx' = [idx EXCEPT ![t] = i], PhaseFits(op[t], p, i),
         got' \in [Tasks -> Seq(Byte)]
  PROVE  /\ TasksOK' /\ Others(t)
         /\ op'[t] = op[t] /\ ph'[t] = p /\ idx'[t] = i /\ todo'[t] = todo[t]
<1>1. op' = op /\ todo' = todo /\ ph' = [ph EXCEPT ![t] = p]
  BY DEF Goto
<1>2. ph' \in [Tasks -> Phases] /\ idx' \in [Tasks -> Nat \ {0}]
  BY <1>1 DEF TasksOK
<1>3. /\ Others(t)
      /\ op'[t] = op[t] /\ ph'[t] = p /\ idx'[t] = i /\ todo'[t] = todo[t]
  BY <1>1 DEF TasksOK, Others
<1>4. \A u \in Tasks : PhaseFits(op'[u], ph'[u], idx'[u])
  BY <1>3 DEF TasksOK, Others
<1> QED BY <1>1, <1>2, <1>3, <1>4 DEF TasksOK

\* Two tasks have different priorities.
LEMMA AboveTotal ==
  ASSUME NEW t \in Tasks, NEW u \in Tasks, t # u
  PROVE  (t \in Above(u) \/ u \in Above(t)) /\ t \notin Above(t) /\ Above(t) \subseteq Tasks
BY DEF Tasks, Above

LEMMA AboveOther ==
  ASSUME NEW t \in Tasks PROVE t \notin Above(t) /\ Above(t) \subseteq Tasks
BY DEF Tasks, Above

\* A running task in the middle of a transfer owns an EEPROM that is addressed.
LEMMA BusMine ==
  ASSUME BusOwned, Addressed, NEW t \in Tasks, Running(t), ph[t] \notin Between
  PROVE  Owns(t)
<1>1. PICK u \in Tasks : Owns(u) /\ \A v \in Above(u) : ph[v] \in Between
  BY DEF BusOwned
<1>2. ph[u] \in {"hi", "lo", "data", "restart", "stop"}
  BY <1>1 DEF Owns
<1>3. u \notin Above(t)
  BY <1>2 DEF Running, Blocked
<1>4. t \notin Above(u)
  BY <1>1
<1>5. t = u
  BY <1>3, <1>4, AboveTotal
<1> QED BY <1>1, <1>5

\* A task outside its transfers leaves the owner alone.
LEMMA BusKept ==
  ASSUME BusOwned, NEW t \in Tasks, Others(t), bus' = bus,
         ph[t] \in Between, ph'[t] \in Between
  PROVE  BusOwned'
<1> SUFFICES ASSUME Addressed'
             PROVE  \E u \in Tasks : Owns(u)' /\ \A v \in Above(u) : ph'[v] \in Between
  BY DEF BusOwned
<1>1. PICK u \in Tasks : Owns(u) /\ \A v \in Above(u) : ph[v] \in Between
  BY DEF BusOwned, Addressed
<1>2. u # t
  BY <1>1 DEF Owns, Between
<1>3. op'[u] = op[u] /\ ph'[u] = ph[u]
  BY <1>2 DEF Others
<1>4. Owns(u)'
  BY <1>1, <1>3 DEF Owns, EepromOp
<1>5. \A v \in Above(u) : ph'[v] \in Between
  BY <1>1, AboveOther DEF Others
<1> QED BY <1>4, <1>5

\* A running task that does own it keeps the others out.
LEMMA BusTaken ==
  ASSUME NEW t \in Tasks, Running(t), Others(t), Owns(t)' PROVE BusOwned'
<1>1. \A v \in Above(t) : ph'[v] = ph[v]
  BY AboveOther DEF Others
<1>2. \A v \in Above(t) : ph'[v] \in Between
  BY <1>1 DEF Running, Blocked, Between
<1> QED BY <1>2 DEF BusOwned

\* What the operations have in common.
LEMMA OpParts ==
  ASSUME NEW o \in GoodOps
  PROVE  /\ o.a \in Addr16 /\ o.v \in Seq(Byte \cup {AnyByte}) /\ Len(o.v) \in Nat
         /\ o.k \in {"ew", "er", "cw", "cr", "wait", "relay", "status"}
         /\ o.k \in {"ew", "er"} => Len(o.v) = 1
         /\ o.k \in {"cw", "cr"} => o.a \in Byte
         /\ o.k \in {"ew", "er", "cw", "cr"} => 1 <= Len(o.v)
         /\ o.k \in {"ew", "cw"} => o.v \in Seq(Byte)
<1>1. /\ o.a \in Addr16 /\ o.v \in Seq(Byte \cup {AnyByte})
      /\ o.k \in {"ew", "er", "cw", "cr", "wait", "relay", "status"}
  BY DEF GoodOps, Op
<1>2. Len(o.v) \in Nat
  BY <1>1, LenProperties
<1>3. /\ o.k \in {"ew", "er"} => Len(o.v) = 1
      /\ o.k \in {"ew", "cw"} => o.v \in Seq(Byte)
      /\ o.k \in {"cw", "cr"} => o.v # <<>> /\ o.a \in Byte
  BY DEF GoodOps
<1>4. o.v # <<>> => 1 <= Len(o.v)
  <2>1. Len(o.v) = 0 => o.v = <<>>
    BY <1>1, EmptySeq
  <2> HIDE <1>1
  <2> QED BY <1>2, <2>1
<1> QED BY <1>1, <1>2, <1>3, <1>4

\* RTC_ReadDate.
LEMMA ReadDate ==
  /\ RTC_ReadDate \in GoodOps /\ RTC_ReadDate.k = "cr" /\ Len(RTC_ReadDate.v) = TIME_LEN
  /\ \A i \in 1..TIME_LEN : RTC_ReadDate.v[i] = AnyByte
<1>1. TIME_LEN \in Nat \ {0} /\ 0 \in Byte
  BY CommandAssumption DEF Byte
<1>2. RTC_ReadDate \in GoodOps
  BY <1>1, GoodClockRead DEF RTC_ReadDate
<1> DEFINE v == [i \in 1..TIME_LEN |-> AnyByte]
<1>3. RTC_ReadDate.k = "cr" /\ RTC_ReadDate.v = v
  BY DEF RTC_ReadDate, ClockRead
<1>4. Len(v) = TIME_LEN /\ \A i \in 1..TIME_LEN : v[i] = AnyByte
  BY <1>1
<1> QED BY <1>2, <1>3, <1>4

\* A call that neither reads a byte nor ends its operation.
LEMMA MovesOn ==
  ASSUME RtcReading, RcvReading, NEW t \in Tasks, Others(t),
         op'[t] = op[t], todo'[t] = todo[t],
         got' = got, stage' = stage, cmd' = cmd,
         ph[t] \notin {"end", "read"}, ph'[t] # "end",
         op[t].k = "cr" => /\ ph'[t] \in {"ptr", "restart", "read"}
                           /\ idx'[t] = idx[t],
         op[t].k = "wait" => ph'[t] \in {"pause", "delay"}
  PROVE  RtcReading' /\ RcvReading'
<1>1. RTC_ReadDate.k = "cr" /\ Delay.k = "wait"
  BY ReadDate DEF Delay
<1>2. RtcReading'
  <2> SUFFICES ASSUME stage["rtc"] = "loop"
               PROVE \/ /\ op'["rtc"] = Delay /\ ph'["rtc"] \in {"pause", "delay"}
                        /\ todo'["rtc"] = <<RTC_ReadDate>> /\ got'["rtc"] = <<>>
                     \/ /\ op'["rtc"] = RTC_ReadDate
                        /\ ph'["rtc"] \in {"start", "ptr", "restart", "read"}
                        /\ todo'["rtc"] = <<>> /\ Len(got'["rtc"]) = idx'["rtc"] - 1
                     \/ ph'["rtc"] = "end" /\ Len(got'["rtc"]) = TIME_LEN
    BY DEF RtcReading
  <2>1. CASE t = "rtc"
    BY <1>1, <2>1 DEF RtcReading
  <2>2. CASE t # "rtc"
    BY <2>2 DEF RtcReading, Others, Tasks
  <2> QED BY <2>1, <2>2
<1>3. RcvReading'
  <2>1. CASE t = "rcv"
    BY <2>1 DEF RcvReading
  <2>2. CASE t # "rcv"
    <3>1. op'["rcv"] = op["rcv"] /\ ph'["rcv"] = ph["rcv"] /\ todo'["rcv"] = todo["rcv"]
      BY <2>2 DEF Others, Tasks
    <3> QED BY <3>1 DEF RcvReading
  <2> QED BY <2>1, <2>2
<1> QED BY <1>2, <1>3

\* The end of an operation that reads nothing.
LEMMA WriteDone ==
  ASSUME RtcReading, RcvReading, NEW t \in Tasks, Others(t),
         got' = got, stage' = stage, cmd' = cmd,
         ph[t] # "end", op[t].k \in {"ew", "cw"}
  PROVE  RtcReading' /\ RcvReading'
<1>1. RTC_ReadDate.k = "cr" /\ Delay.k = "wait"
  BY ReadDate DEF Delay
<1>2. \A o \in ReadOps : o.k \in {"er", "status"}
  BY DEF ReadOps
<1>3. RtcReading'
  <2>1. CASE t = "rtc"
    BY <1>1, <2>1 DEF RtcReading
  <2>2. CASE t # "rtc"
    BY <2>2 DEF RtcReading, Others, Tasks
  <2> QED BY <2>1, <2>2
<1>4. RcvReading'
  <2>1. CASE t = "rcv"
    BY <1>2, <2>1 DEF RcvReading
  <2>2. CASE t # "rcv"
    <3>1. op'["rcv"] = op["rcv"] /\ ph'["rcv"] = ph["rcv"] /\ todo'["rcv"] = todo["rcv"]
      BY <2>2 DEF Others, Tasks
    <3> QED BY <3>1 DEF RcvReading
  <2> QED BY <2>1, <2>2
<1> QED BY <1>3, <1>4
-----------------------------------------------------------------------------
(***************************************************************************)
(* The driver calls keep the invariant.                                    *)
(***************************************************************************)
LEMMA StartStep == ASSUME SInv, NEW t \in Tasks, CallStart(t) PROVE SInv'
<1> DEFINE reading == ph[t] = "restart"
           p == CASE reading -> "read"
                  [] ~reading /\ EepromOp(t) -> "hi"
                  [] OTHER -> "ptr"
           q == IF EepromOp(t)
                THEN CASE ebusy = 1 -> "idle"
                       [] ebusy # 1 /\ reading -> "eread"
                       [] OTHER -> "ehi"
                ELSE IF reading THEN "cread" ELSE "cptr"
<1>1. /\ TasksOK /\ ChipsOK /\ RestOK /\ BusOwned /\ RtcReading /\ RcvReading
      /\ AckWellFormed
  BY DEF SInv
<1>2. /\ Running(t) /\ ph[t] \in {"start", "restart"}
      /\ bus' = [bus EXCEPT !.page = NoPage, !.ph = q] /\ Goto(t, p)
      /\ UNCHANGED <<idx, got, stage, cmdVars, chipVars, relay, clashes, loss>>
  BY DEF CallStart
<1>3. PhaseFits(op[t], ph[t], idx[t]) /\ idx[t] \in Nat \ {0} /\ op[t] \in GoodOps
  BY <1>1 DEF TasksOK
<1>4. idx' = [idx EXCEPT ![t] = idx[t]] /\ got' \in [Tasks -> Seq(Byte)]
  BY <1>1, <1>2 DEF TasksOK
<1>5. p \in Phases /\ p \in {"read", "hi", "ptr"}
  BY DEF Phases
<1>6. PhaseFits(op[t], p, idx[t])
  <2>1. op[t].k \in {"er", "cr"} => 1 <= Len(op[t].v)
    BY <1>3, OpParts
  <2> QED BY <1>2, <1>3, <2>1 DEF PhaseFits, EepromOp
<1> HIDE DEF p
<1>7. /\ TasksOK' /\ Others(t)
      /\ op'[t] = op[t] /\ ph'[t] = p /\ idx'[t] = idx[t] /\ todo'[t] = todo[t]
  BY <1>1, <1>2, <1>3, <1>4, <1>5, <1>6, GotoOK
<1>8. q \in BusPhases
  BY DEF BusPhases
<1>9. BusTypeOK' /\ bus'.ph = q /\ bus'.page = NoPage
  <2> HIDE DEF q
  <2> QED BY <1>1, <1>2, <1>8 DEF ChipsOK, BusTypeOK
<1>10. ChipsOK'
  BY <1>1, <1>2, <1>9 DEF ChipsOK, chipVars
<1>11. BusOwned'
  <2>1. CASE q = "ehi"
    <3>1. EepromOp(t) /\ ph[t] = "start"
      BY <1>2, <2>1
    <3>2. ph'[t] = "hi"
      BY <1>7, <3>1 DEF p
    <3>3. Owns(t)'
      BY <1>7, <1>9, <2>1, <3>1, <3>2 DEF Owns, EepromOp
    <3> QED BY <1>2, <1>7, <3>3, BusTaken
  <2>2. CASE q # "ehi"
    <3>1. q \notin {"ehi", "elo", "edata"}
      BY <2>2
    <3> QED BY <1>9, <3>1 DEF BusOwned, Addressed
  <2> QED BY <2>1, <2>2
<1>12. RtcReading' /\ RcvReading'
  <2>1. op[t].k = "cr" => ph'[t] \in {"ptr", "restart", "read"}
    BY <1>5, <1>6, <1>7 DEF PhaseFits
  <2>2. op[t].k # "wait"
    BY <1>2, <1>3 DEF PhaseFits
  <2>3. got' = got /\ stage' = stage /\ cmd' = cmd
    BY <1>2 DEF cmdVars
  <2>4. ph[t] \notin {"end", "read"} /\ ph'[t] # "end"
    BY <1>2, <1>5, <1>7
  <2> QED BY <1>1, <1>7, <2>1, <2>2, <2>3, <2>4, MovesOn
<1>13. RestOK' /\ AckWellFormed'
  BY <1>1, <1>2 DEF RestOK, AckWellFormed, cmdVars
<1> QED BY <1>7, <1>10, <1>11, <1>12, <1>13 DEF SInv

\* The two bytes of an address, and the next address.
LEMMA AddrParts ==
  ASSUME NEW a \in Addr16
  PROVE  /\ a \div 256 \in Byte /\ a % 256 \in Byte
         /\ (a \div 256) * 256 + (a % 256) = a
         /\ (a + 1) % AddrSpan \in Addr16
<1>1. a \in Nat /\ a < 256 * 256
  <2>1. a \in Nat /\ a < AddrSpan
    BY AddrIs, Zenon
  <2> QED BY <2>1, SpanIs
<1>2. a \div 256 \in Byte
  BY <1>1 DEF Byte
<1>3. a % 256 \in Byte
  BY <1>1 DEF Byte
<1>4. (a \div 256) * 256 + (a % 256) = a
  BY <1>1
<1>5. (a + 1) % AddrSpan \in Addr16
  <2>1. \A x \in Nat : \A m \in Nat \ {0} : x % m \in Nat /\ x % m < m
    OBVIOUS
  <2>2. a + 1 \in Nat /\ AddrSpan \in Nat \ {0}
    BY <1>1, SpanIs
  <2>3. (a + 1) % AddrSpan \in Nat /\ (a + 1) % AddrSpan < AddrSpan
    BY <2>1, <2>2, Zenon
  <2> QED BY <2>3, AddrIs, Zenon
<1> QED BY <1>2, <1>3, <1>4, <1>5

LEMMA AddrOf == ASSUME NEW h \in Byte, NEW b \in Byte PROVE h * 256 + b \in Addr16
<1>1. h \in Nat /\ h <= 255 /\ b \in Nat /\ b <= 255
  BY DEF Byte
<1>2. h * 256 + b \in Nat /\ h * 256 + b < 256 * 256
  BY <1>1
<1>3. h * 256 + b < AddrSpan
  BY <1>2, SpanIs
<1> QED BY <1>2, <1>3, AddrIs, Zenon

LEMMA NextByte == ASSUME NEW b \in Byte PROVE (b + 1) % 256 \in Byte
BY DEF Byte

\* The chips take a byte.
LEMMA SendOK ==
  ASSUME ChipsOK, NEW b \in Byte, SendByte(b), UNCHANGED <<eeprom, ebusy, settled, relay>>
  PROVE  /\ ChipsOK'
         /\ ~Addressed => ~Addressed'
         /\ bus.ph = "ehi" => bus'.ph = "elo" /\ bus'.hi = b /\ bus'.page = bus.page
         /\ bus.ph = "elo" => /\ bus'.ph = "edata" /\ bus'.eptr = bus.hi * 256 + b
                              /\ bus'.page = bus.page
         /\ bus.ph = "edata" =>
              /\ bus'.ph = "edata"
              /\ bus'.page = [a \in DOMAIN bus.page \cup {bus.eptr} |->
                                IF a = bus.eptr THEN b ELSE bus.page[a]]
<1>1. /\ BusTypeOK /\ bus.ph \in BusPhases /\ bus.hi \in Byte /\ bus.eptr \in Addr16
      /\ bus.cptr \in Byte
  BY DEF ChipsOK, BusTypeOK
<1>2. clock \in [ClockRegs -> Byte]
  BY DEF ChipsOK
<1>3. CASE bus.ph = "ehi"
  <2>1. bus' = [bus EXCEPT !.ph = "elo", !.hi = b] /\ clock' = clock
    BY <1>3 DEF SendByte
  <2>2. BusTypeOK' /\ bus'.ph = "elo" /\ bus'.hi = b /\ bus'.page = bus.page
    BY <1>1, <2>1 DEF BusTypeOK, BusPhases
  <2> QED BY <1>2, <1>3, <2>1, <2>2 DEF ChipsOK, Addressed
<1>4. CASE bus.ph = "elo"
  <2> DEFINE e == bus.hi * 256 + b
  <2>1. bus' = [bus EXCEPT !.ph = "edata", !.eptr = e] /\ clock' = clock
    BY <1>4 DEF SendByte
  <2>2. e \in Addr16
    BY <1>1, AddrOf
  <2>3. BusTypeOK' /\ bus'.ph = "edata" /\ bus'.eptr = e /\ bus'.page = bus.page
    <3> HIDE DEF e
    <3> QED BY <1>1, <2>1, <2>2 DEF BusTypeOK, BusPhases
  <2> QED BY <1>2, <1>4, <2>1, <2>3 DEF ChipsOK, Addressed
<1>5. CASE bus.ph = "edata"
  <2> DEFINE e == (bus.eptr + 1) % AddrSpan
             g == [a \in DOMAIN bus.page \cup {bus.eptr} |->
                     IF a = bus.eptr THEN b ELSE bus.page[a]]
  <2>1. bus' = [bus EXCEPT !.eptr = e, !.page = g] /\ clock' = clock
    BY <1>5 DEF SendByte
  <2>2. e \in Addr16
    BY <1>1, AddrParts
  <2>3. BusTypeOK' /\ bus'.ph = bus.ph /\ bus'.page = g
    <3> HIDE DEF e, g
    <3> QED BY <1>1, <2>1, <2>2 DEF BusTypeOK
  <2> QED BY <1>2, <1>5, <2>1, <2>3 DEF ChipsOK, Addressed
<1>6. CASE bus.ph = "cptr"
  <2>1. bus' = [bus EXCEPT !.ph = "cdata", !.cptr = b] /\ clock' = clock
    BY <1>6 DEF SendByte
  <2>2. BusTypeOK' /\ bus'.ph = "cdata"
    BY <1>1, <2>1 DEF BusTypeOK, BusPhases
  <2> QED BY <1>2, <1>6, <2>1, <2>2 DEF ChipsOK, Addressed
<1>7. CASE bus.ph = "cdata"
  <2> DEFINE c == (bus.cptr + 1) % 256
  <2>1. bus' = [bus EXCEPT !.cptr = c] /\ ClockTakes(bus.cptr, b)
    BY <1>7 DEF SendByte
  <2>2. c \in Byte
    BY <1>1, NextByte
  <2>3. BusTypeOK' /\ bus'.ph = "cdata"
    <3> HIDE DEF c
    <3> QED BY <1>1, <1>7, <2>1, <2>2 DEF BusTypeOK
  <2>4. clock' \in [ClockRegs -> Byte]
    BY <1>2, <2>1 DEF ClockTakes
  <2> QED BY <1>7, <2>3, <2>4 DEF ChipsOK, Addressed
<1>8. CASE bus.ph \in {"idle", "eread", "cread"}
  <2>1. bus' = [bus EXCEPT !.ph = "idle"] /\ clock' = clock
    BY <1>8 DEF SendByte
  <2>2. BusTypeOK' /\ bus'.ph = "idle"
    BY <1>1, <2>1 DEF BusTypeOK, BusPhases
  <2> QED BY <1>2, <1>8, <2>1, <2>2 DEF ChipsOK, Addressed
<1> QED BY <1>1, <1>3, <1>4, <1>5, <1>6, <1>7, <1>8 DEF BusPhases

\* A byte of a transfer to the EEPROM goes where its owner means it to go.
LEMMA SendKeeps ==
  ASSUME TasksOK, ChipsOK, NEW t \in Tasks, Owns(t),
         NEW b \in Byte, SendByte(b), UNCHANGED <<eeprom, ebusy, settled, relay>>,
         op'[t] = op[t],
         ph[t] = "hi" => b = op[t].a \div 256 /\ ph'[t] = "lo",
         ph[t] = "lo" => b = op[t].a % 256 /\ ph'[t] \in {"data", "restart"},
         ph[t] = "data" /\ op[t].k = "ew" => b = op[t].v[1] /\ ph'[t] = "stop",
         ph[t] \in {"hi", "lo", "data", "ptr"}
  PROVE  Owns(t)'
<1>1. op[t] \in GoodOps /\ op[t].a \in Addr16
  BY OpParts DEF TasksOK
<1>2. PhaseFits(op[t], ph[t], idx[t])
  BY DEF TasksOK
<1>3. CASE bus.ph = "ehi"
  <2>1. ph[t] = "hi" /\ bus.page = NoPage /\ EepromOp(t)
    BY <1>3 DEF Owns
  <2>2. bus'.ph = "elo" /\ bus'.hi = b /\ bus'.page = bus.page
    BY <1>3, SendOK
  <2> QED BY <2>1, <2>2 DEF Owns, EepromOp
<1>4. CASE bus.ph = "elo"
  <2>1. ph[t] = "lo" /\ bus.page = NoPage /\ EepromOp(t) /\ bus.hi = op[t].a \div 256
    BY <1>4 DEF Owns
  <2>2. bus'.ph = "edata" /\ bus'.eptr = bus.hi * 256 + b /\ bus'.page = bus.page
    BY <1>4, SendOK
  <2>3. bus'.eptr = op[t].a
    BY <1>1, <2>1, <2>2, AddrParts
  <2> QED BY <2>1, <2>2, <2>3 DEF Owns, EepromOp
<1>5. CASE bus.ph = "edata"
  <2>1. ph[t] = "data" /\ bus.page = NoPage /\ EepromOp(t) /\ bus.eptr = op[t].a
    BY <1>5 DEF Owns
  <2>2. op[t].k = "ew"
    BY <1>2, <2>1 DEF PhaseFits, EepromOp
  <2>3. /\ bus'.ph = "edata"
        /\ bus'.page = [a \in DOMAIN bus.page \cup {bus.eptr} |->
                          IF a = bus.eptr THEN b ELSE bus.page[a]]
    BY <1>5, SendOK
  <2>4. DOMAIN bus.page \cup {bus.eptr} = {op[t].a}
    BY <2>1 DEF NoPage
  <2>5. bus'.page = [a \in {op[t].a} |-> op[t].v[1]]
    BY <2>1, <2>2, <2>3, <2>4
  <2> QED BY <2>1, <2>2, <2>3, <2>5 DEF Owns, EepromOp
<1> QED BY <1>3, <1>4, <1>5 DEF Owns

\* An EEPROM that is addressed keeps its owner.
LEMMA SendOwned ==
  ASSUME TasksOK, ChipsOK, BusOwned, NEW t \in Tasks, Running(t), ph[t] \notin Between,
         NEW b \in Byte, SendByte(b), UNCHANGED <<eeprom, ebusy, settled, relay>>,
         Others(t), op'[t] = op[t],
         ph[t] = "hi" => b = op[t].a \div 256 /\ ph'[t] = "lo",
         ph[t] = "lo" => b = op[t].a % 256 /\ ph'[t] \in {"data", "restart"},
         ph[t] = "data" /\ op[t].k = "ew" => b = op[t].v[1] /\ ph'[t] = "stop",
         ph[t] \in {"hi", "lo", "data", "ptr"}
  PROVE  BusOwned'
<1>1. CASE ~Addressed
  BY <1>1, SendOK DEF BusOwned
<1>2. CASE Addressed
  <2>1. Owns(t)
    BY <1>2, BusMine
  <2>2. Owns(t)'
    BY <2>1, SendKeeps
  <2> QED BY <2>2, BusTaken
<1> QED BY <1>1, <1>2

\* A byte is sent and the task goes on with call p at byte i.
LEMMA ByteDone ==
  ASSUME SInv, NEW t \in Tasks, Running(t), ph[t] \in {"hi", "lo", "data", "ptr"},
         NEW b \in Byte, SendByte(b), NEW p \in Phases, Goto(t, p), p # "end",
         NEW i \in Nat \ {0}, idx' = [idx EXCEPT ![t] = i], PhaseFits(op[t], p, i),
         UNCHANGED <<got, stage, cmdVars, eeprom, ebusy, settled, relay, clashes, loss>>,
         ph[t] = "hi" => b = op[t].a \div 256 /\ p = "lo",
         ph[t] = "lo" => b = op[t].a % 256 /\ p \in {"data", "restart"},
         ph[t] = "data" /\ op[t].k = "ew" => b = op[t].v[1] /\ p = "stop",
         op[t].k = "cr" => p \in {"ptr", "restart", "read"} /\ i = idx[t]
  PROVE  SInv'
<1>1. /\ TasksOK /\ ChipsOK /\ RestOK /\ BusOwned /\ RtcReading /\ RcvReading
      /\ AckWellFormed
  BY DEF SInv
<1>2. got' \in [Tasks -> Seq(Byte)]
  BY <1>1 DEF TasksOK
<1>3. /\ TasksOK' /\ Others(t)
      /\ op'[t] = op[t] /\ ph'[t] = p /\ idx'[t] = i /\ todo'[t] = todo[t]
  BY <1>1, <1>2, GotoOK
<1>4. ChipsOK'
  BY <1>1, SendOK
<1>5. ph[t] \notin Between
  BY DEF Between
<1>6. BusOwned'
  BY <1>1, <1>3, <1>5, SendOwned
<1>7. RtcReading' /\ RcvReading'
  <2>1. PhaseFits(op[t], ph[t], idx[t])
    BY <1>1 DEF TasksOK
  <2>2. op[t].k # "wait"
    BY <2>1 DEF PhaseFits
  <2>3. got' = got /\ stage' = stage /\ cmd' = cmd
    BY DEF cmdVars
  <2>4. ph[t] \notin {"end", "read"} /\ ph'[t] # "end"
    BY <1>3
  <2> QED BY <1>1, <1>3, <2>2, <2>3, <2>4, MovesOn
<1>8. RestOK' /\ AckWellFormed'
  BY <1>1 DEF RestOK, AckWellFormed, cmdVars
<1> QED BY <1>3, <1>4, <1>6, <1>7, <1>8 DEF SInv

LEMMA ByteStep == ASSUME SInv, NEW t \in Tasks, CallByte(t) PROVE SInv'
<1>1. /\ Running(t)
      /\ UNCHANGED <<got, stage, cmdVars, eeprom, ebusy, settled, relay, clashes, loss>>
  BY DEF CallByte
<1>2. /\ op[t] \in GoodOps /\ PhaseFits(op[t], ph[t], idx[t]) /\ idx[t] \in Nat \ {0}
      /\ idx = [idx EXCEPT ![t] = idx[t]]
  BY DEF SInv, TasksOK
<1>3. op[t].a \div 256 \in Byte /\ op[t].a % 256 \in Byte
  BY <1>2, OpParts, AddrParts
<1>4. CASE ph[t] = "hi"
  <2>1. SendByte(op[t].a \div 256) /\ Goto(t, "lo") /\ idx' = [idx EXCEPT ![t] = idx[t]]
    BY <1>2, <1>4 DEF CallByte
  <2>2. PhaseFits(op[t], "lo", idx[t]) /\ op[t].k # "cr" /\ "lo" \in Phases
    BY <1>2, <1>4 DEF PhaseFits, Phases
  <2> QED BY <1>1, <1>2, <1>3, <1>4, <2>1, <2>2, ByteDone
<1>5. CASE ph[t] = "lo"
  <2> DEFINE p == IF op[t].k = "ew" THEN "data" ELSE "restart"
  <2>1. SendByte(op[t].a % 256) /\ Goto(t, p) /\ idx' = [idx EXCEPT ![t] = idx[t]]
    BY <1>2, <1>5 DEF CallByte
  <2>2. op[t].k \in {"ew", "er"} /\ idx[t] = 1 /\ (op[t].k = "ew" => 1 <= Len(op[t].v))
    BY <1>2, <1>5, OpParts DEF PhaseFits
  <2>3. /\ PhaseFits(op[t], p, idx[t]) /\ op[t].k # "cr" /\ p \in Phases
        /\ p \in {"data", "restart"}
    BY <2>2 DEF PhaseFits, Phases
  <2> HIDE DEF p
  <2>4. p # "end"
    BY <2>3
  <2> QED BY <1>1, <1>2, <1>3, <1>5, <2>1, <2>3, <2>4, ByteDone
<1>6. CASE ph[t] = "ptr"
  <2> DEFINE p == IF op[t].k = "cw" THEN "data" ELSE "restart"
  <2>1. SendByte(op[t].a) /\ Goto(t, p) /\ idx' = [idx EXCEPT ![t] = idx[t]]
    BY <1>2, <1>6 DEF CallByte
  <2>2. op[t].k \in {"cw", "cr"} /\ idx[t] = 1 /\ 1 <= Len(op[t].v) /\ op[t].a \in Byte
    BY <1>2, <1>6, OpParts DEF PhaseFits
  <2>3. /\ PhaseFits(op[t], p, idx[t]) /\ p \in Phases /\ p \in {"data", "restart"}
        /\ op[t].k = "cr" => p = "restart"
    BY <2>2 DEF PhaseFits, Phases
  <2> HIDE DEF p
  <2>4. p # "end"
    BY <2>3
  <2> QED BY <1>1, <1>2, <1>6, <2>1, <2>2, <2>3, <2>4, ByteDone
<1>7. CASE ph[t] = "data"
  <2> DEFINE p == IF idx[t] < Len(op[t].v) THEN "data" ELSE "stop"
             b == op[t].v[idx[t]]
             i == idx[t] + 1
  <2>1. SendByte(b) /\ Goto(t, p) /\ idx' = [idx EXCEPT ![t] = i]
    BY <1>2, <1>7 DEF CallByte
  <2>2. /\ op[t].k \in {"ew", "cw"} /\ idx[t] <= Len(op[t].v) /\ op[t].v \in Seq(Byte)
        /\ Len(op[t].v) \in Nat /\ (op[t].k = "ew" => Len(op[t].v) = 1)
    BY <1>2, <1>7, OpParts DEF PhaseFits
  <2>3. idx[t] \in 1..Len(op[t].v) /\ i \in Nat \ {0}
    BY <1>2, <2>2
  <2>4. b \in Byte
    BY <2>2, <2>3, ElementOfSeq
  <2>5. op[t].k = "ew" => b = op[t].v[1] /\ p = "stop"
    <3> SUFFICES ASSUME op[t].k = "ew" PROVE b = op[t].v[1] /\ p = "stop"
      OBVIOUS
    <3>1. Len(op[t].v) = 1
      BY <2>2
    <3>2. idx[t] = 1
      BY <2>3, <3>1
    <3> QED BY <3>1, <3>2
  <2>6. PhaseFits(op[t], p, i)
    <3>1. p = "data" => i <= Len(op[t].v)
      BY <1>2, <2>2
    <3> QED BY <2>2, <3>1 DEF PhaseFits
  <2>7. p \in Phases /\ p # "end" /\ op[t].k # "cr"
    BY <2>2 DEF Phases
  <2> HIDE DEF p, b, i
  <2> QED BY <1>1, <1>7, <2>1, <2>3, <2>4, <2>5, <2>6, <2>7, ByteDone
<1> QED BY <1>4, <1>5, <1>6, <1>7 DEF CallByte

\* A STOP that programs the EEPROM is the end of AT24CXX_WriteOneByte.
LEMMA StopWrites ==
  ASSUME TasksOK, ChipsOK, BusOwned, NEW t \in Tasks, CallStop(t), eeprom' # eeprom
  PROVE  /\ op[t].k = "ew" /\ op[t].v[1] \in Byte
         /\ eeprom' = [eeprom EXCEPT ![op[t].a] = op[t].v[1]]
<1>1. Running(t) /\ ph[t] = "stop" /\ bus.ph = "edata"
  BY DEF CallStop
<1>2. eeprom' = [a \in Addrs |-> IF a \in DOMAIN bus.page THEN bus.page[a] ELSE eeprom[a]]
  BY DEF CallStop
<1>3. Owns(t)
  BY <1>1, BusMine DEF Addressed, Between
<1>4. EepromOp(t) /\ bus.page = [a \in {op[t].a} |-> op[t].v[1]]
  BY <1>1, <1>3 DEF Owns
<1>5. op[t].k = "ew" /\ op[t] \in GoodOps
  BY <1>1, <1>4 DEF TasksOK, PhaseFits, EepromOp
<1>6. op[t].v \in Seq(Byte) /\ Len(op[t].v) = 1
  BY <1>5, OpParts
<1>7. op[t].v[1] \in Byte
  BY <1>6, ElementOfSeq
<1>8. eeprom \in [Addrs -> Byte]
  BY DEF ChipsOK
<1>9. eeprom' = [eeprom EXCEPT ![op[t].a] = op[t].v[1]]
  BY <1>2, <1>4, <1>8
<1> QED BY <1>5, <1>7, <1>9

LEMMA StopStep == ASSUME SInv, NEW t \in Tasks, CallStop(t) PROVE SInv'
<1>1. /\ TasksOK /\ ChipsOK /\ RestOK /\ BusOwned /\ RtcReading /\ RcvReading
      /\ AckWellFormed
  BY DEF SInv
<1>2. /\ ph[t] = "stop" /\ bus' = [bus EXCEPT !.ph = "idle", !.page = NoPage]
      /\ UNCHANGED <<got, stage, cmdVars, clock, relay, clashes, loss>>
  BY DEF CallStop
<1>3. /\ op[t] \in GoodOps /\ idx[t] \in Nat \ {0} /\ todo[t] \in Seq(GoodOps)
      /\ op[t].k \in {"ew", "cw"} /\ got' \in [Tasks -> Seq(Byte)]
      /\ idx = [idx EXCEPT ![t] = idx[t]]
  BY <1>1, <1>2 DEF TasksOK, PhaseFits
<1>4. TasksOK' /\ Others(t)
  <2>1. CASE op[t].k = "ew"
    <3>1. Goto(t, "pause") /\ idx' = [idx EXCEPT ![t] = idx[t]]
      BY <1>3, <2>1 DEF CallStop
    <3>2. PhaseFits(op[t], "pause", idx[t]) /\ "pause" \in Phases
      BY DEF PhaseFits, Phases
    <3> QED BY <1>1, <1>3, <3>1, <3>2, GotoOK
  <2>2. CASE op[t].k # "ew"
    <3>1. Follow(t, todo[t])
      BY <2>2 DEF CallStop
    <3> QED BY <1>1, <1>3, <3>1, FollowOK
  <2> QED BY <2>1, <2>2
<1>5. BusTypeOK' /\ bus'.ph = "idle"
  BY <1>1, <1>2 DEF ChipsOK, BusTypeOK, BusPhases
<1>6. eeprom' \in [Addrs -> Byte]
  <2>1. eeprom \in [Addrs -> Byte]
    BY <1>1 DEF ChipsOK
  <2>2. CASE eeprom' # eeprom
    BY <1>1, <2>1, <2>2, StopWrites
  <2> QED BY <2>1, <2>2
<1>7. ebusy' \in {0, 1} /\ settled' \subseteq Tasks
  BY <1>1 DEF CallStop, ChipsOK
<1>8. ChipsOK'
  BY <1>1, <1>2, <1>5, <1>6, <1>7 DEF ChipsOK
<1>9. BusOwned'
  BY <1>5 DEF BusOwned, Addressed
<1>10. RtcReading' /\ RcvReading'
  BY <1>1, <1>2, <1>3, <1>4, WriteDone DEF cmdVars
<1>11. RestOK' /\ AckWellFormed'
  BY <1>1, <1>2 DEF RestOK, AckWellFormed, cmdVars
<1> QED BY <1>4, <1>8, <1>9, <1>10, <1>11 DEF SInv

\* The receive task ends an operation of a read command and goes on with what is
\* left of it, or with nothing.
LEMMA RcvGoesOn ==
  ASSUME TasksOK, RcvReading, ph["rcv"] # "end", cmd' = cmd,
         NEW s \in {<<>>, todo["rcv"]}, Follow("rcv", s),
         got' \in [Tasks -> Seq(Byte)],
         Len(got'["rcv"]) <= Len(got["rcv"]) + 1
  PROVE  RcvReading'
<1> SUFFICES ASSUME cmd # NoCmd, cmd[2] # Wflag
             PROVE  /\ todo'["rcv"] \in Seq(ReadOps)
                    /\ ph'["rcv"] = "end" => Len(got'["rcv"]) <= UDPACK_SIZE - 6
                    /\ ph'["rcv"] # "end" =>
                         /\ op'["rcv"] \in ReadOps
                         /\ Len(got'["rcv"]) + Len(todo'["rcv"]) + 1 <= UDPACK_SIZE - 6
  BY DEF RcvReading
<1> DEFINE t == "rcv"
           td == todo["rcv"]
           n == Len(got["rcv"])
           m == Len(got'["rcv"])
<1>1. /\ td \in Seq(ReadOps) /\ op["rcv"] \in ReadOps
      /\ n + Len(td) + 1 <= UDPACK_SIZE - 6
  BY DEF RcvReading
<1>2. n \in Nat /\ m \in Nat /\ Len(td) \in Nat /\ UDPACK_SIZE \in Nat
  <2>1. got["rcv"] \in Seq(Byte) /\ got'["rcv"] \in Seq(Byte)
    BY DEF TasksOK, Tasks
  <2> QED BY <1>1, <2>1, LenProperties, Lengths
<1>3. todo["rcv"] \in Seq(GoodOps) /\ t \in Tasks /\ <<>> \in Seq(GoodOps)
  BY DEF TasksOK, Tasks
<1>4. m <= n + 1
  OBVIOUS
<1>5. /\ s = <<>> => ph'["rcv"] = "end" /\ todo'["rcv"] = <<>>
      /\ s # <<>> => /\ op'["rcv"] = Head(s) /\ todo'["rcv"] = Tail(s)
                     /\ ph'["rcv"] # "end"
  <2>1. s \in Seq(GoodOps)
    BY <1>3
  <2> QED BY <1>3, <2>1, FollowOK
<1>6. CASE s = <<>>
  <2>1. m <= UDPACK_SIZE - 6
    <3> HIDE DEF n, m, td
    <3> QED BY <1>1, <1>2, <1>4
  <2>2. <<>> \in Seq(ReadOps)
    OBVIOUS
  <2> QED BY <1>5, <1>6, <2>1, <2>2
<1>7. CASE s # <<>>
  <2>1. s = td /\ td # <<>>
    BY <1>7
  <2>2. Head(td) \in ReadOps /\ Tail(td) \in Seq(ReadOps) /\ Len(Tail(td)) = Len(td) - 1
    BY <1>1, <2>1, HeadTailProperties
  <2>3. m + Len(Tail(td)) + 1 <= UDPACK_SIZE - 6
    <3> HIDE DEF n, m, td
    <3> QED BY <1>1, <1>2, <1>4, <2>2
  <2> QED BY <1>5, <1>7, <2>1, <2>2, <2>3
<1> QED BY <1>6, <1>7

\* What a read returns is a byte.
LEMMA BusByteType == ASSUME ChipsOK PROVE BusByte \in Byte
<1>1. OpenBus \in Byte
  BY DEF OpenBus, Byte
<1>2. eeprom \in [Addrs -> Byte] /\ clock \in [ClockRegs -> Byte]
  BY DEF ChipsOK
<1> QED BY <1>1, <1>2 DEF BusByte

LEMMA ReadStep == ASSUME SInv, NEW t \in Tasks, CallRead(t) PROVE SInv'
<1> DEFINE last == idx[t] = Len(op[t].v)
           want == op[t].v[idx[t]]
           keep == want = AnyByte /\ t \in Keepers
           n == Len(op[t].v)
<1>1. /\ TasksOK /\ ChipsOK /\ RestOK /\ BusOwned /\ RtcReading /\ RcvReading
      /\ AckWellFormed
  BY DEF SInv
<1>2. /\ Running(t) /\ ph[t] = "read"
      /\ bus' = [bus EXCEPT !.ph = IF last THEN "idle" ELSE @,
                            !.eptr = IF bus.ph = "eread" THEN (@ + 1) % AddrSpan ELSE @,
                            !.cptr = IF bus.ph = "cread" THEN (@ + 1) % 256 ELSE @]
      /\ got' = [got EXCEPT ![t] = IF keep THEN Append(@, BusByte) ELSE @]
      /\ UNCHANGED <<stage, cmd, ack, hits, chipVars, relay, clashes, loss>>
  BY DEF CallRead
<1>3. \/ want # AnyByte /\ want # BusByte /\ ok' = 0 /\ Follow(t, <<>>)
      \/ ~(want # AnyByte /\ want # BusByte) /\ last /\ Follow(t, todo[t]) /\ ok' = ok
      \/ /\ ~(want # AnyByte /\ want # BusByte) /\ ~last /\ Goto(t, "read")
         /\ idx' = [idx EXCEPT ![t] = @ + 1] /\ ok' = ok
  BY DEF CallRead
<1>4. /\ op[t] \in GoodOps /\ idx[t] \in Nat \ {0} /\ todo[t] \in Seq(GoodOps)
      /\ op[t].k \in {"er", "cr"} /\ idx[t] <= n /\ n \in Nat
  BY <1>1, <1>2, OpParts DEF TasksOK, PhaseFits
<1>5. got' \in [Tasks -> Seq(Byte)] /\ \A u \in Tasks \ {t} : got'[u] = got[u]
  <2>1. BusByte \in Byte
    BY <1>1, BusByteType
  <2>2. Append(got[t], BusByte) \in Seq(Byte)
    BY <1>1, <2>1, AppendProperties DEF TasksOK
  <2> QED BY <1>1, <1>2, <2>2 DEF TasksOK
<1>6. TasksOK' /\ Others(t)
  <2>1. CASE Follow(t, <<>>)
    <3>1. <<>> \in Seq(GoodOps)
      OBVIOUS
    <3> QED BY <1>1, <1>5, <2>1, <3>1, FollowOK
  <2>2. CASE Follow(t, todo[t])
    BY <1>1, <1>4, <1>5, <2>2, FollowOK
  <2>3. CASE ~last /\ Goto(t, "read") /\ idx' = [idx EXCEPT ![t] = @ + 1]
    <3>1. idx[t] + 1 <= n /\ idx[t] + 1 \in Nat \ {0}
      BY <1>4, <2>3
    <3>2. PhaseFits(op[t], "read", idx[t] + 1) /\ "read" \in Phases
      BY <1>4, <3>1 DEF PhaseFits, Phases
    <3> QED BY <1>1, <1>5, <2>3, <3>1, <3>2, GotoOK
  <2> QED BY <1>3, <2>1, <2>2, <2>3
<1>7. ~Addressed
  <2>1. Addressed => Owns(t)
    BY <1>1, <1>2, BusMine DEF Between
  <2> QED BY <1>2, <2>1 DEF Owns
<1>8. BusTypeOK' /\ bus'.ph \in {"idle", bus.ph}
  <2> DEFINE p == IF last THEN "idle" ELSE bus.ph
             e == IF bus.ph = "eread" THEN (bus.eptr + 1) % AddrSpan ELSE bus.eptr
             c == IF bus.ph = "cread" THEN (bus.cptr + 1) % 256 ELSE bus.cptr
  <2>1. BusTypeOK /\ bus.ph \in BusPhases /\ bus.eptr \in Addr16 /\ bus.cptr \in Byte
    BY <1>1 DEF ChipsOK, BusTypeOK
  <2>2. p \in BusPhases /\ p \in {"idle", bus.ph}
    BY <2>1 DEF BusPhases
  <2>3. e \in Addr16
    BY <2>1, AddrParts
  <2>4. c \in Byte
    BY <2>1, NextByte
  <2>5. bus' = [bus EXCEPT !.ph = p, !.eptr = e, !.cptr = c]
    BY <1>2
  <2> HIDE DEF p, e, c
  <2> QED BY <2>1, <2>2, <2>3, <2>4, <2>5 DEF BusTypeOK
<1>9. ChipsOK'
  BY <1>1, <1>2, <1>8 DEF ChipsOK, chipVars
<1>10. BusOwned'
  BY <1>7, <1>8 DEF BusOwned, Addressed
<1>11. RtcReading'
  <2>1. CASE t # "rtc"
    <3>1. /\ op'["rtc"] = op["rtc"] /\ ph'["rtc"] = ph["rtc"] /\ idx'["rtc"] = idx["rtc"]
          /\ todo'["rtc"] = todo["rtc"] /\ got'["rtc"] = got["rtc"]
      BY <1>5, <1>6, <2>1 DEF Others, Tasks
    <3> QED BY <1>1, <1>2, <3>1 DEF RtcReading
  <2>2. CASE t = "rtc" /\ stage["rtc"] = "loop"
    <3>1. op[t] = RTC_ReadDate /\ todo[t] = <<>> /\ Len(got[t]) = idx[t] - 1
      BY <1>1, <1>2, <2>2 DEF RtcReading
    <3>2. n = TIME_LEN /\ TIME_LEN \in Nat
      BY <3>1, ReadDate, Lengths
    <3>3. idx[t] \in 1..TIME_LEN
      BY <1>4, <3>2
    <3>4. want = AnyByte
      BY <3>1, <3>3, ReadDate
    <3>5. got'[t] = Append(got[t], BusByte) /\ got[t] \in Seq(Byte)
      BY <1>1, <1>2, <2>2, <3>4 DEF TasksOK, Keepers
    <3>6. BusByte \in Byte
      BY <1>1, BusByteType
    <3>7. Len(got'[t]) = idx[t]
      <4>1. Len(got'[t]) = Len(got[t]) + 1
        BY <3>5, <3>6, AppendProperties
      <4> QED BY <1>4, <3>1, <4>1
    <3>8. CASE last
      <4>1. Follow(t, <<>>) /\ <<>> \in Seq(GoodOps)
        BY <1>3, <3>1, <3>4, <3>8
      <4>2. ph'[t] = "end"
        BY <1>1, <1>5, <4>1, FollowOK
      <4> QED BY <2>2, <3>2, <3>7, <3>8, <4>2 DEF RtcReading
    <3>9. CASE ~last
      <4>1. Goto(t, "read") /\ idx' = [idx EXCEPT ![t] = @ + 1]
        BY <1>3, <3>4, <3>9
      <4>2. op'[t] = op[t] /\ ph'[t] = "read" /\ todo'[t] = todo[t] /\ idx'[t] = idx[t] + 1
        BY <1>1, <4>1 DEF Goto, TasksOK
      <4>3. Len(got'[t]) = idx'[t] - 1
        BY <1>4, <3>7, <4>2
      <4> QED BY <2>2, <3>1, <4>2, <4>3 DEF RtcReading
    <3> QED BY <3>8, <3>9
  <2>3. CASE t = "rtc" /\ stage["rtc"] # "loop"
    BY <1>2, <2>3 DEF RtcReading
  <2> QED BY <2>1, <2>2, <2>3
<1>12. RcvReading'
  <2>1. CASE t # "rcv"
    <3>1. /\ op'["rcv"] = op["rcv"] /\ ph'["rcv"] = ph["rcv"]
          /\ todo'["rcv"] = todo["rcv"] /\ got'["rcv"] = got["rcv"]
      BY <1>5, <1>6, <2>1 DEF Others, Tasks
    <3> QED BY <1>1, <1>2, <3>1 DEF RcvReading
  <2>2. CASE t = "rcv" /\ cmd # NoCmd /\ cmd[2] # Wflag
    <3>1. op[t] \in ReadOps
      BY <1>1, <1>2, <2>2 DEF RcvReading
    <3>2. op[t].k = "er" /\ n = 1
      BY <1>4, <3>1, OpParts DEF ReadOps
    <3>3. last
      BY <1>4, <3>2
    <3>4. PICK s \in {<<>>, todo["rcv"]} : Follow("rcv", s)
      BY <1>3, <2>2, <3>3
    <3>5. Len(got'["rcv"]) <= Len(got["rcv"]) + 1
      <4>1. got["rcv"] \in Seq(Byte) /\ BusByte \in Byte
        BY <1>1, <2>2, BusByteType DEF TasksOK
      <4>2. Len(got["rcv"]) \in Nat /\ Len(Append(got["rcv"], BusByte)) = Len(got["rcv"]) + 1
        BY <4>1, AppendProperties, LenProperties
      <4>3. got'["rcv"] \in {got["rcv"], Append(got["rcv"], BusByte)}
        BY <1>1, <1>2, <2>2 DEF TasksOK
      <4> QED BY <4>2, <4>3
    <3> QED BY <1>1, <1>2, <1>5, <2>2, <3>4, <3>5, RcvGoesOn
  <2>3. CASE cmd = NoCmd \/ cmd[2] = Wflag
    BY <1>2, <2>3 DEF RcvReading
  <2> QED BY <2>1, <2>2, <2>3
<1>13. RestOK' /\ AckWellFormed'
  BY <1>1, <1>2, <1>3 DEF RestOK, AckWellFormed
<1> QED BY <1>6, <1>9, <1>10, <1>11, <1>12, <1>13 DEF SInv

LEMMA DelayStep == ASSUME SInv, NEW t \in Tasks, CallDelay(t) PROVE SInv'
<1>1. /\ TasksOK /\ ChipsOK /\ RestOK /\ BusOwned /\ RtcReading /\ RcvReading
      /\ AckWellFormed
  BY DEF SInv
<1>2. /\ ph[t] = "pause" /\ Goto(t, "delay")
      /\ settled' = IF ebusy = 1 THEN settled \cup {t} ELSE settled
      /\ UNCHANGED <<idx, got, stage, cmdVars, bus, eeprom, ebusy, clock, relay, clashes, loss>>
  BY DEF CallDelay
<1>3. /\ idx[t] \in Nat \ {0} /\ idx' = [idx EXCEPT ![t] = idx[t]]
      /\ got' \in [Tasks -> Seq(Byte)]
  BY <1>1, <1>2 DEF TasksOK
<1>4. PhaseFits(op[t], "delay", idx[t]) /\ "delay" \in Phases
  BY DEF PhaseFits, Phases
<1>5. /\ TasksOK' /\ Others(t)
      /\ op'[t] = op[t] /\ ph'[t] = "delay" /\ idx'[t] = idx[t] /\ todo'[t] = todo[t]
  BY <1>1, <1>2, <1>3, <1>4, GotoOK
<1>6. ChipsOK'
  BY <1>1, <1>2 DEF ChipsOK, BusTypeOK
<1>7. BusOwned'
  BY <1>1, <1>2, <1>5, BusKept DEF Between
<1>8. RtcReading' /\ RcvReading'
  <2>1. /\ got' = got /\ stage' = stage /\ cmd' = cmd
        /\ ph[t] \notin {"end", "read"} /\ ph'[t] \notin {"end"}
    BY <1>2, <1>5 DEF cmdVars
  <2>2. RtcReading'
    <3>1. RTC_ReadDate.k = "cr" /\ Delay.k = "wait"
      BY ReadDate DEF Delay
    <3>2. CASE t = "rtc"
      BY <1>1, <1>2, <1>5, <2>1, <3>1, <3>2 DEF RtcReading
    <3>3. CASE t # "rtc"
      BY <1>1, <1>5, <2>1, <3>3 DEF RtcReading, Others, Tasks
    <3> QED BY <3>2, <3>3
  <2>3. RcvReading'
    <3>1. op'["rcv"] = op["rcv"] /\ todo'["rcv"] = todo["rcv"]
          /\ (ph'["rcv"] = "end" <=> ph["rcv"] = "end")
      BY <1>2, <1>5 DEF Others, Tasks
    <3> QED BY <1>1, <2>1, <3>1 DEF RcvReading
  <2> QED BY <2>2, <2>3
<1>9. RestOK' /\ AckWellFormed'
  BY <1>1, <1>2 DEF RestOK, AckWellFormed, cmdVars
<1> QED BY <1>5, <1>6, <1>7, <1>8, <1>9 DEF SInv

LEMMA GpioStep == ASSUME SInv, NEW t \in Tasks, CallGpio(t) PROVE SInv'
<1>1. /\ TasksOK /\ ChipsOK /\ RestOK /\ BusOwned /\ RtcReading /\ RcvReading
      /\ AckWellFormed
  BY DEF SInv
<1>2. /\ ph[t] = "gpio" /\ Follow(t, todo[t])
      /\ UNCHANGED <<stage, cmd, ack, hits, bus, chipVars, clashes, loss>>
  BY DEF CallGpio
<1>3. got' = got \/ got' = [got EXCEPT ![t] = Append(@, relay)]
  BY <1>1 DEF CallGpio, TasksOK
<1>4. relay \in Byte /\ relay' \in {0, 1} /\ ok' \in {0, 1}
  BY <1>1 DEF CallGpio, ChipsOK, RestOK, Byte
<1>5. /\ got' \in [Tasks -> Seq(Byte)] /\ \A u \in Tasks \ {t} : got'[u] = got[u]
      /\ got'[t] \in {got[t], Append(got[t], relay)}
  <2>1. Append(got[t], relay) \in Seq(Byte)
    BY <1>1, <1>4, AppendProperties DEF TasksOK
  <2> QED BY <1>1, <1>3, <2>1 DEF TasksOK
<1>6. todo[t] \in Seq(GoodOps) /\ op[t].k \in {"relay", "status"}
  BY <1>1, <1>2 DEF TasksOK, PhaseFits
<1>7. TasksOK' /\ Others(t) /\ ph'[t] \in {"start", "gpio", "pause", "end"}
  BY <1>1, <1>2, <1>5, <1>6, FollowOK
<1>8. ChipsOK'
  BY <1>1, <1>2, <1>4 DEF ChipsOK, BusTypeOK, chipVars
<1>9. BusOwned'
  BY <1>1, <1>2, <1>7, BusKept DEF Between
<1>10. RtcReading'
  <2>1. RTC_ReadDate.k = "cr" /\ Delay.k = "wait"
    BY ReadDate DEF Delay
  <2>2. CASE t = "rtc"
    BY <1>1, <1>2, <1>6, <2>1, <2>2 DEF RtcReading
  <2>3. CASE t # "rtc"
    <3>1. /\ op'["rtc"] = op["rtc"] /\ ph'["rtc"] = ph["rtc"] /\ idx'["rtc"] = idx["rtc"]
          /\ todo'["rtc"] = todo["rtc"] /\ got'["rtc"] = got["rtc"]
      BY <1>5, <1>7, <2>3 DEF Others, Tasks
    <3> QED BY <1>1, <1>2, <3>1 DEF RtcReading
  <2> QED BY <2>2, <2>3
<1>11. RcvReading'
  <2>1. CASE t # "rcv"
    <3>1. /\ op'["rcv"] = op["rcv"] /\ ph'["rcv"] = ph["rcv"]
          /\ todo'["rcv"] = todo["rcv"] /\ got'["rcv"] = got["rcv"]
      BY <1>5, <1>7, <2>1 DEF Others, Tasks
    <3> QED BY <1>1, <1>2, <3>1 DEF RcvReading
  <2>2. CASE t = "rcv"
    <3>1. got["rcv"] \in Seq(Byte)
      BY <1>1, <2>2 DEF TasksOK
    <3>2. Len(got["rcv"]) \in Nat /\ Len(Append(got["rcv"], relay)) = Len(got["rcv"]) + 1
      BY <1>4, <3>1, AppendProperties, LenProperties
    <3>3. Len(got'["rcv"]) <= Len(got["rcv"]) + 1
      BY <1>5, <2>2, <3>2
    <3> QED BY <1>1, <1>2, <1>5, <2>2, <3>3, RcvGoesOn
  <2> QED BY <2>1, <2>2
<1>12. RestOK' /\ AckWellFormed'
  BY <1>1, <1>2, <1>4 DEF RestOK, AckWellFormed
<1> QED BY <1>7, <1>8, <1>9, <1>10, <1>11, <1>12 DEF SInv

LEMMA DelayOverStep == ASSUME SInv, NEW t \in Tasks, DelayOver(t) PROVE SInv'
<1>1. /\ TasksOK /\ ChipsOK /\ RestOK /\ BusOwned /\ RtcReading /\ RcvReading
      /\ AckWellFormed
  BY DEF SInv
<1>2. /\ ph[t] = "delay" /\ Follow(t, todo[t]) /\ settled' = settled \ {t}
      /\ UNCHANGED <<got, stage, cmd, ok, ack, bus, eeprom, ebusy, clock, relay, loss>>
  BY DEF DelayOver
<1>3. /\ got' \in [Tasks -> Seq(Byte)] /\ todo[t] \in Seq(GoodOps)
      /\ <<RTC_ReadDate>> \in Seq(GoodOps)
  BY <1>1, <1>2, ReadDate, GoodOne DEF TasksOK
<1>4. /\ TasksOK' /\ Others(t) /\ ph'[t] \in {"start", "gpio", "pause", "end"}
      /\ idx'[t] = 1
      /\ todo[t] # <<>> => /\ op'[t] = Head(todo[t]) /\ todo'[t] = Tail(todo[t])
                           /\ ph'[t] = First(Head(todo[t]))
  BY <1>1, <1>2, <1>3, FollowOK
<1>5. ChipsOK'
  BY <1>1, <1>2 DEF ChipsOK, BusTypeOK
<1>6. BusOwned'
  BY <1>1, <1>2, <1>4, BusKept DEF Between
<1>7. RtcReading'
  <2>1. CASE t # "rtc"
    <3>1. /\ op'["rtc"] = op["rtc"] /\ ph'["rtc"] = ph["rtc"] /\ idx'["rtc"] = idx["rtc"]
          /\ todo'["rtc"] = todo["rtc"]
      BY <1>4, <2>1 DEF Others, Tasks
    <3> QED BY <1>1, <1>2, <3>1 DEF RtcReading
  <2>2. CASE t = "rtc" /\ stage["rtc"] = "loop"
    <3>1. todo[t] = <<RTC_ReadDate>> /\ got[t] = <<>>
      BY <1>1, <1>2, <2>2 DEF RtcReading
    <3> DEFINE o == RTC_ReadDate
    <3>2. First(o) = "start"
      BY ReadDate DEF First
    <3> HIDE DEF o
    <3>3. <<o>> # <<>> /\ Head(<<o>>) = o /\ Tail(<<o>>) = <<>> /\ Len(<<>>) = 0
      OBVIOUS
    <3>4. op'[t] = o /\ ph'[t] = "start" /\ todo'[t] = <<>> /\ Len(got[t]) = 1 - 1
      BY <1>4, <3>1, <3>2, <3>3 DEF o
    <3> QED BY <1>2, <1>4, <2>2, <3>4 DEF RtcReading, o
  <2>3. CASE stage["rtc"] # "loop"
    BY <1>2, <2>3 DEF RtcReading
  <2> QED BY <2>1, <2>2, <2>3
<1>8. RcvReading'
  <2>1. CASE t # "rcv"
    <3>1. /\ op'["rcv"] = op["rcv"] /\ ph'["rcv"] = ph["rcv"] /\ todo'["rcv"] = todo["rcv"]
      BY <1>4, <2>1 DEF Others, Tasks
    <3> QED BY <1>1, <1>2, <3>1 DEF RcvReading
  <2>2. CASE t = "rcv"
    <3>1. got["rcv"] \in Seq(Byte)
      BY <1>1, <2>2 DEF TasksOK
    <3>2. Len(got["rcv"]) \in Nat
      BY <3>1, LenProperties
    <3>3. Len(got'["rcv"]) <= Len(got["rcv"]) + 1
      BY <1>2, <3>2
    <3> QED BY <1>1, <1>2, <1>3, <2>2, <3>3, RcvGoesOn
  <2> QED BY <2>1, <2>2
<1>9. hits' \in 0..MaxHits
  BY <1>1 DEF RestOK, MaxHits, DelayOver
<1>10. clashes' = 0 \/ clashes' \in 1..MaxClashes
  <2>1. CASE clashes' = clashes
    BY <1>1, <2>1 DEF RestOK
  <2>2. CASE MaxClashes # Unbounded /\ clashes < MaxClashes /\ clashes' = clashes + 1
    <3>1. MaxClashes \in Nat
      BY <2>2, StoreAssumption
    <3> QED BY <1>1, <2>2, <3>1 DEF RestOK
  <2> QED BY <2>1, <2>2 DEF DelayOver
<1>11. RestOK' /\ AckWellFormed'
  BY <1>1, <1>2, <1>9, <1>10 DEF RestOK, AckWellFormed
<1> QED BY <1>4, <1>5, <1>6, <1>7, <1>8, <1>11 DEF SInv

LEMMA CycleOverStep == ASSUME SInv, CycleOver PROVE SInv'
<1>1. /\ UNCHANGED <<taskVars, stage, cmdVars, bus, eeprom, clock, relay, clashes, loss>>
      /\ ebusy' = 0 /\ settled' = {}
  BY DEF CycleOver
<1>2. UNCHANGED <<op, ph, idx, todo, got, stage, cmd, ok, ack, hits>>
  BY <1>1 DEF taskVars, cmdVars
<1>3. TasksOK' /\ RestOK' /\ AckWellFormed' /\ RtcReading' /\ RcvReading'
  BY <1>1, <1>2 DEF SInv, TasksOK, RestOK, AckWellFormed, RtcReading, RcvReading
<1>4. ChipsOK'
  BY <1>1 DEF SInv, ChipsOK, BusTypeOK
<1>5. BusOwned'
  BY <1>1, <1>2, ZenonT(30) DEF SInv, BusOwned, Addressed, Owns, EepromOp
<1> QED BY <1>3, <1>4, <1>5 DEF SInv
-----------------------------------------------------------------------------
(***************************************************************************)
(* The tasks' own code keeps the invariant.                                *)
(***************************************************************************)
Stages == {"reset", "show", "flag", "boot", "loop", "save", "init", "stored"}

\* A task other than the receive task begins the operations s.
LEMMA BeginStep ==
  ASSUME SInv, NEW t \in Tasks, t # "rcv", NEW p \in Stages, NEW s \in Seq(GoodOps),
         Begin(t, p, s), t = "rtc" /\ p = "loop" => s = <<Delay, RTC_ReadDate>>,
         UNCHANGED <<cmdVars, bus, chipVars, relay, clashes, loss>>
  PROVE  SInv'
<1>1. /\ TasksOK /\ ChipsOK /\ RestOK /\ BusOwned /\ RtcReading /\ RcvReading
      /\ AckWellFormed
  BY DEF SInv
<1>2. /\ ph[t] = "end" /\ stage' = [stage EXCEPT ![t] = p]
      /\ got' = [got EXCEPT ![t] = <<>>] /\ Follow(t, s)
  BY DEF Begin
<1>3. /\ got' \in [Tasks -> Seq(Byte)] /\ got'[t] = <<>>
      /\ \A u \in Tasks \ {t} : got'[u] = got[u]
  BY <1>1, <1>2 DEF TasksOK
<1>4. /\ TasksOK' /\ Others(t) /\ ph'[t] \in {"start", "gpio", "pause", "end"}
      /\ s # <<>> => /\ op'[t] = Head(s) /\ todo'[t] = Tail(s)
                     /\ ph'[t] = First(Head(s))
  BY <1>1, <1>2, <1>3, FollowOK
<1>5. ChipsOK'
  BY <1>1 DEF ChipsOK, BusTypeOK, chipVars
<1>6. BusOwned'
  BY <1>1, <1>2, <1>4, BusKept DEF Between
<1>7. RtcReading'
  <2>1. CASE t # "rtc"
    <3>1. /\ op'["rtc"] = op["rtc"] /\ ph'["rtc"] = ph["rtc"] /\ idx'["rtc"] = idx["rtc"]
          /\ todo'["rtc"] = todo["rtc"] /\ got'["rtc"] = got["rtc"]
      BY <1>3, <1>4, <2>1 DEF Others, Tasks
    <3>2. stage'["rtc"] = stage["rtc"]
      BY <1>1, <1>2, <2>1 DEF RestOK, Tasks
    <3> QED BY <1>1, <3>1, <3>2 DEF RtcReading
  <2>2. CASE t = "rtc" /\ p = "loop"
    <3> DEFINE o == Delay
               r == RTC_ReadDate
    <3>1. First(o) = "pause"
      BY DEF First, Delay
    <3> HIDE DEF o, r
    <3>2. <<o, r>> # <<>> /\ Head(<<o, r>>) = o /\ Tail(<<o, r>>) = <<r>>
      OBVIOUS
    <3>3. s = <<o, r>>
      BY <2>2 DEF o, r
    <3>4. op'[t] = o /\ ph'[t] = "pause" /\ todo'[t] = <<r>>
      BY <1>4, <3>1, <3>2, <3>3
    <3> QED BY <1>3, <2>2, <3>4 DEF RtcReading, o, r
  <2>3. CASE t = "rtc" /\ p # "loop"
    <3>1. stage'["rtc"] = p
      BY <1>1, <1>2, <2>3 DEF RestOK
    <3> QED BY <2>3, <3>1 DEF RtcReading
  <2> QED BY <2>1, <2>2, <2>3
<1>8. RcvReading'
  <2>1. /\ op'["rcv"] = op["rcv"] /\ ph'["rcv"] = ph["rcv"]
        /\ todo'["rcv"] = todo["rcv"] /\ got'["rcv"] = got["rcv"] /\ cmd' = cmd
    BY <1>3, <1>4 DEF Others, Tasks, cmdVars
  <2> QED BY <1>1, <2>1 DEF RcvReading
<1>9. stage' \in [Tasks -> Stages]
  BY <1>1, <1>2 DEF RestOK, Stages
<1>10. RestOK' /\ AckWellFormed'
  BY <1>1, <1>9 DEF RestOK, AckWellFormed, cmdVars, Stages
<1> QED BY <1>4, <1>5, <1>6, <1>7, <1>8, <1>10 DEF SInv

LEMMA LcdNextStep == ASSUME SInv, LcdNext PROVE SInv'
<1> DEFINE s == AT24CXX_Read(0, TIME_LEN) \o <<Delay>>
<1>1. Begin("lcd", "show", s) /\ UNCHANGED <<cmdVars, bus, chipVars, relay, clashes, loss>>
  BY DEF LcdNext
<1>2. TIME_LEN \in 0..255 /\ 0 \in 0..255
  BY Lengths
<1>3. AT24CXX_Read(0, TIME_LEN) \in Seq(GoodOps) /\ <<Delay>> \in Seq(GoodOps)
  BY <1>2, GoodReads, GoodDelay, GoodOne
<1>4. s \in Seq(GoodOps)
  BY <1>3, GoodConcat
<1>5. "lcd" \in Tasks /\ "show" \in Stages
  BY DEF Tasks, Stages
<1> HIDE DEF s
<1> QED BY <1>1, <1>4, <1>5, BeginStep

\* The operations of exrtc_save before its loop.
LEMMA GoodBoot ==
  /\ RTCFlag_ReadDate \in GoodOps
  /\ RTCFlag_WriteDate(FlagByte) \in Seq(GoodOps)
  /\ RTC_WriteDate(TimeInit) \in GoodOps
<1>1. /\ FlagReg \in Byte /\ CTR1 \in Byte /\ CTR2 \in Byte /\ FlagByte \in Byte
      /\ \h80 \in Byte /\ \h84 \in Byte /\ 0 \in Byte
  BY DEF FlagReg, CTR1, CTR2, FlagByte, Byte
<1>2. RTCFlag_ReadDate \in GoodOps
  <2>1. 1 \in Nat \ {0}
    OBVIOUS
  <2> QED BY <1>1, <2>1, GoodClockRead DEF RTCFlag_ReadDate
<1>3. \A x \in Byte : <<x>> \in Seq(Byte) /\ <<x>> # <<>>
  BY OneByte
<1>4. <<0, 0>> \in Seq(Byte) /\ <<0, 0>> # <<>>
  BY <1>1
<1>5. /\ ClockWrite(CTR2, <<\h80>>) \in GoodOps
      /\ ClockWrite(CTR1, <<\h84>>) \in GoodOps
      /\ ClockWrite(FlagReg, <<FlagByte>>) \in GoodOps
  BY <1>1, <1>3, GoodClockWrite
<1>6. ClockWrite(CTR1, <<0, 0>>) \in GoodOps
  BY <1>1, <1>4, GoodClockWrite
<1>7. RTCFlag_WriteDate(FlagByte) \in Seq(GoodOps)
  <2> DEFINE w == ClockWrite(CTR2, <<\h80>>)
             x == ClockWrite(CTR1, <<\h84>>)
             y == ClockWrite(FlagReg, <<FlagByte>>)
             z == ClockWrite(CTR1, <<0, 0>>)
  <2> HIDE DEF w, x, y, z
  <2>1. <<w, x, y, z>> \in Seq(GoodOps)
    BY <1>5, <1>6 DEF w, x, y, z
  <2> QED BY <2>1 DEF RTCFlag_WriteDate, w, x, y, z
<1>8. RTC_WriteDate(TimeInit) \in GoodOps
  <2>1. TimeInit \in [1..TIME_LEN -> Byte]
    BY StoreAssumption
  <2> QED BY <2>1, GoodDate
<1> QED BY <1>2, <1>7, <1>8

\* The operations of its loop: a date of TIME_LEN bytes is stored.
LEMMA SaveIs ==
  ASSUME NEW regs \in Seq(Byte), Len(regs) = TIME_LEN
  PROVE  \E v \in Seq(Byte) : Len(v) = TIME_LEN /\ SaveTimeOps(regs) = AT24CXX_Write(0, v)
<1> DEFINE h == regs[HOUR] % 128
           r == [regs EXCEPT ![HOUR] = @ % 128]
           v == [i \in 1..TIME_LEN |-> r[SaveOrder[i]]]
<1>1. TIME_LEN \in Nat /\ TIME_LEN <= 255 /\ HOUR \in 1..TIME_LEN
  BY CommandAssumption, Lengths
<1>2. regs \in [1..TIME_LEN -> Byte]
  BY <1>1
<1>3. h \in Byte
  <2>1. regs[HOUR] \in 0..255
    BY <1>1, <1>2 DEF Byte
  <2> QED BY <2>1, HourBit DEF Byte
<1>4. r \in [1..TIME_LEN -> Byte]
  <2>1. r = [regs EXCEPT ![HOUR] = h]
    OBVIOUS
  <2> HIDE DEF r, h
  <2> QED BY <1>2, <1>3, <2>1
<1>5. SaveOrder \in [1..TIME_LEN -> 1..TIME_LEN]
  BY StoreAssumption
<1>6. SaveTimeOps(regs) = AT24CXX_Write(0, v)
  BY DEF SaveTimeOps
<1> HIDE DEF r
<1>7. v \in [1..TIME_LEN -> Byte]
  BY <1>4, <1>5
<1> HIDE DEF v
<1>8. v \in Seq(Byte) /\ Len(v) = TIME_LEN
  BY <1>1, <1>7, SeqOf
<1> QED BY <1>6, <1>8

LEMMA GoodSave ==
  ASSUME NEW regs \in Seq(Byte), Len(regs) = TIME_LEN PROVE SaveTimeOps(regs) \in Seq(GoodOps)
<1>1. PICK v \in Seq(Byte) : Len(v) = TIME_LEN /\ SaveTimeOps(regs) = AT24CXX_Write(0, v)
  BY SaveIs
<1>2. Len(v) <= 255 /\ 0 \in 0..255
  BY <1>1, Lengths
<1> QED BY <1>1, <1>2, GoodWrites

LEMMA RtcNextStep == ASSUME SInv, RtcNext PROVE SInv'
<1>1. UNCHANGED <<cmdVars, bus, chipVars, relay, clashes, loss>>
  BY DEF RtcNext
<1>2. /\ "rtc" \in Tasks /\ "rtc" # "rcv" /\ "flag" \in Stages /\ "boot" \in Stages
      /\ "loop" \in Stages /\ "save" \in Stages
      /\ "flag" # "loop" /\ "boot" # "loop" /\ "save" # "loop"
  BY DEF Tasks, Stages
<1>3. CASE Begin("rtc", "flag", <<RTCFlag_ReadDate>>)
  <2>1. <<RTCFlag_ReadDate>> \in Seq(GoodOps)
    BY GoodBoot, GoodOne
  <2> QED BY <1>1, <1>2, <1>3, <2>1, BeginStep
<1>4. ASSUME Begin("rtc", "boot",
                 IF got["rtc"] # <<FlagByte>>
                 THEN RTCFlag_WriteDate(FlagByte)
                      \o <<RTCFlag_ReadDate, RTC_WriteDate(TimeInit), RTC_ReadDate>>
                 ELSE <<RTCFlag_ReadDate, RTC_ReadDate>>)
      PROVE  SInv'
  <2> DEFINE a == RTCFlag_ReadDate
             b == RTC_WriteDate(TimeInit)
             c == RTC_ReadDate
             w == RTCFlag_WriteDate(FlagByte)
             s == IF got["rtc"] # <<FlagByte>> THEN w \o <<a, b, c>> ELSE <<a, c>>
  <2>1. a \in GoodOps /\ b \in GoodOps /\ c \in GoodOps /\ w \in Seq(GoodOps)
    BY GoodBoot, ReadDate
  <2>2. Begin("rtc", "boot", s)
    BY <1>4
  <2> HIDE DEF a, b, c, w
  <2>3. <<a, b, c>> \in Seq(GoodOps) /\ <<a, c>> \in Seq(GoodOps)
    BY <2>1
  <2>4. s \in Seq(GoodOps)
    BY <2>1, <2>3, GoodConcat
  <2> HIDE DEF s
  <2> QED BY <1>1, <1>2, <2>2, <2>4, BeginStep
<1>5. CASE Begin("rtc", "loop", <<Delay, RTC_ReadDate>>)
  <2> DEFINE a == Delay
             c == RTC_ReadDate
             s == <<Delay, RTC_ReadDate>>
  <2>1. a \in GoodOps /\ c \in GoodOps
    BY GoodDelay, ReadDate
  <2> HIDE DEF a, c
  <2>2. <<a, c>> \in Seq(GoodOps)
    BY <2>1
  <2>3. s \in Seq(GoodOps)
    BY <2>2 DEF a, c
  <2> QED BY <1>1, <1>2, <1>5, <2>3, BeginStep
<1>6. ASSUME stage["rtc"] = "loop",
             Begin("rtc", "save", SaveTimeOps(got["rtc"]) \o AT24CXX_Read(0, TIME_LEN))
      PROVE  SInv'
  <2> DEFINE s == SaveTimeOps(got["rtc"]) \o AT24CXX_Read(0, TIME_LEN)
  <2>1. ph["rtc"] = "end" /\ got["rtc"] \in Seq(Byte)
    BY <1>2, <1>6 DEF Begin, SInv, TasksOK
  <2>2. Len(got["rtc"]) = TIME_LEN
    BY <1>6, <2>1 DEF SInv, RtcReading
  <2>3. TIME_LEN \in 0..255 /\ 0 \in 0..255
    BY Lengths
  <2>4. s \in Seq(GoodOps)
    BY <2>1, <2>2, <2>3, GoodSave, GoodReads, GoodConcat
  <2> HIDE DEF s
  <2>5. Begin("rtc", "save", s)
    BY <1>6 DEF s
  <2> QED BY <1>1, <1>2, <2>4, <2>5, BeginStep
<1> QED BY <1>3, <1>4, <1>5, <1>6 DEF RtcNext

LEMMA UartNextStep == ASSUME SInv, UartNext PROVE SInv'
<1>1. UNCHANGED <<cmdVars, bus, chipVars, relay, clashes, loss>>
  BY DEF UartNext
<1>2. "uart1" \in Tasks /\ "uart1" # "rcv" /\ "uart1" # "rtc"
      /\ "init" \in Stages /\ "stored" \in Stages
  BY DEF Tasks, Stages
<1>3. ASSUME Begin("uart1", "init",
                   <<Delay>> \o AT24CXX_Read(\h10, CALIB_LEN) \o <<Delay>>)
      PROVE  SInv'
  <2> DEFINE w == <<Delay>>
             r == AT24CXX_Read(\h10, CALIB_LEN)
             s == (w \o r) \o w
  <2>1. CALIB_LEN \in 0..255 /\ \h10 \in 0..255
    BY StoreAssumption
  <2>2. r \in Seq(GoodOps) /\ w \in Seq(GoodOps)
    BY <2>1, GoodReads, GoodDelay, GoodOne
  <2>3. Begin("uart1", "init", s)
    BY <1>3
  <2> HIDE DEF w, r
  <2>4. s \in Seq(GoodOps)
    BY <2>2, GoodConcat
  <2> HIDE DEF s
  <2> QED BY <1>1, <1>2, <2>3, <2>4, BeginStep
<1>4. ASSUME NEW b \in CalibBytes,
             Begin("uart1", "stored", AT24CXX_Write(\h14, [i \in 1..VOLT_LEN |-> b]))
      PROVE  SInv'
  <2> DEFINE v == [i \in 1..VOLT_LEN |-> b]
             s == AT24CXX_Write(\h14, v)
  <2>1. VOLT_LEN \in 1..255 /\ CalibBytes \subseteq Byte
    BY StoreAssumption
  <2>2. v \in [1..VOLT_LEN -> Byte]
    BY <2>1
  <2>3. Begin("uart1", "stored", s)
    BY <1>4
  <2> HIDE DEF v
  <2>4. v \in Seq(Byte) /\ Len(v) = VOLT_LEN
    BY <2>1, <2>2, SeqOf
  <2>5. Len(v) <= 255 /\ \h14 \in 0..255
    BY <2>1, <2>4
  <2>6. s \in Seq(GoodOps)
    BY <2>4, <2>5, GoodWrites
  <2> HIDE DEF s
  <2> QED BY <1>1, <1>2, <2>3, <2>6, BeginStep
<1>5. ASSUME ph["uart1"] = "end", ph' = [ph EXCEPT !["uart1"] = "off"],
             UNCHANGED <<op, idx, todo, got, stage>>
      PROVE  SInv'
  <2>1. /\ TasksOK /\ ChipsOK /\ RestOK /\ BusOwned /\ RtcReading /\ RcvReading
        /\ AckWellFormed
    BY DEF SInv
  <2>2. ph' \in [Tasks -> Phases] /\ ph'["uart1"] = "off"
        /\ \A u \in Tasks \ {"uart1"} : ph'[u] = ph[u]
    BY <1>2, <1>5, <2>1 DEF TasksOK, Phases
  <2>3. PhaseFits(op'["uart1"], "off", idx'["uart1"])
    BY DEF PhaseFits
  <2>4. \A u \in Tasks : PhaseFits(op'[u], ph'[u], idx'[u])
    BY <1>5, <2>1, <2>2, <2>3 DEF TasksOK
  <2>5. TasksOK' /\ Others("uart1")
    BY <1>5, <2>1, <2>2, <2>4 DEF TasksOK, Others
  <2>6. BusOwned'
    BY <1>1, <1>2, <1>5, <2>1, <2>2, <2>5, BusKept DEF Between
  <2>7. ChipsOK'
    BY <1>1, <2>1 DEF ChipsOK, BusTypeOK, chipVars
  <2>8. RtcReading' /\ RcvReading'
    <3>1. ph'["rtc"] = ph["rtc"] /\ ph'["rcv"] = ph["rcv"] /\ cmd' = cmd
      BY <1>1, <2>2 DEF Tasks, cmdVars
    <3> QED BY <1>5, <2>1, <3>1 DEF RtcReading, RcvReading
  <2>9. RestOK' /\ AckWellFormed'
    BY <1>1, <1>5, <2>1 DEF RestOK, AckWellFormed, cmdVars
  <2> QED BY <2>5, <2>6, <2>7, <2>8, <2>9 DEF SInv
<1> QED BY <1>3, <1>4, <1>5 DEF UartNext

LEMMA RcvCommandStep == ASSUME SInv, NEW d \in Datagrams, RcvCommand(d) PROVE SInv'
<1> DEFINE s == CommandOps(d)
           t == "rcv"
<1>1. /\ TasksOK /\ ChipsOK /\ RestOK /\ BusOwned /\ RtcReading /\ RcvReading
      /\ AckWellFormed
  BY DEF SInv
<1>2. /\ ph[t] = "end" /\ Accepts(d) /\ s # <<>> /\ cmd' = d /\ ok' = 1 /\ hits' = ebusy
      /\ ack' = <<>> /\ got' = [got EXCEPT ![t] = <<>>] /\ Follow(t, s)
      /\ UNCHANGED <<stage, bus, chipVars, relay, clashes, loss>>
  BY DEF RcvCommand
<1>3. d \in Sent /\ d \in Seq(Byte)
  BY <1>2, AcceptedWasSent, SentAssumption
<1>4. /\ s \in Seq(GoodOps)
      /\ d[2] # Wflag => s \in Seq(ReadOps) /\ Len(s) <= UDPACK_SIZE - 6
  BY <1>3, GoodCommand
<1> HIDE DEF s
<1>5. /\ got' \in [Tasks -> Seq(Byte)] /\ got'[t] = <<>> /\ t \in Tasks
      /\ \A u \in Tasks \ {t} : got'[u] = got[u]
  BY <1>1, <1>2 DEF TasksOK, Tasks
<1>6. /\ TasksOK' /\ Others(t) /\ ph'[t] \in {"start", "gpio", "pause", "end"}
      /\ op'[t] = Head(s) /\ todo'[t] = Tail(s) /\ ph'[t] # "end"
  BY <1>1, <1>2, <1>4, <1>5, FollowOK
<1>7. ChipsOK'
  BY <1>1, <1>2 DEF ChipsOK, BusTypeOK, chipVars
<1>8. BusOwned'
  BY <1>1, <1>2, <1>5, <1>6, BusKept DEF Between
<1>9. RtcReading'
  <2>1. /\ op'["rtc"] = op["rtc"] /\ ph'["rtc"] = ph["rtc"] /\ idx'["rtc"] = idx["rtc"]
        /\ todo'["rtc"] = todo["rtc"] /\ got'["rtc"] = got["rtc"]
    BY <1>5, <1>6 DEF Others, Tasks
  <2> QED BY <1>1, <1>2, <2>1 DEF RtcReading
<1>10. RcvReading'
  <2> SUFFICES ASSUME d[2] # Wflag
               PROVE  /\ todo'["rcv"] \in Seq(ReadOps) /\ op'["rcv"] \in ReadOps
                      /\ Len(got'["rcv"]) + Len(todo'["rcv"]) + 1 <= UDPACK_SIZE - 6
    BY <1>2, <1>6 DEF RcvReading
  <2>1. s \in Seq(ReadOps) /\ Len(s) <= UDPACK_SIZE - 6 /\ s # <<>>
    BY <1>2, <1>4
  <2>2. Head(s) \in ReadOps /\ Tail(s) \in Seq(ReadOps) /\ Len(Tail(s)) = Len(s) - 1
    BY <2>1, HeadTailProperties
  <2>3. Len(s) \in Nat /\ Len(<<>>) = 0 /\ UDPACK_SIZE \in Nat
    BY <2>1, LenProperties, Lengths
  <2>4. Len(<<>>) + Len(Tail(s)) + 1 <= UDPACK_SIZE - 6
    BY <2>1, <2>2, <2>3
  <2> QED BY <1>5, <1>6, <2>2, <2>4
<1>11. hits' \in 0..MaxHits
  BY <1>1, <1>2 DEF ChipsOK, MaxHits
<1>12. RestOK' /\ AckWellFormed'
  <2>1. <<>> \in Seq(Byte)
    OBVIOUS
  <2> QED BY <1>1, <1>2, <1>3, <1>11, <2>1 DEF RestOK, AckWellFormed
<1> QED BY <1>6, <1>7, <1>8, <1>9, <1>10, <1>12 DEF SInv

\* A frame made by Framed passes Data_Handle's test.
LEMMA FramedOK ==
  ASSUME NEW b \in Seq(Byte), Len(b) \in 4..253, b[1] = HeadByte
  PROVE  Framed(b) \in Seq(Byte) /\ Len(Framed(b)) = Len(b) + 2 /\ Accepts(Framed(b))
<1> DEFINE n == Len(b)
           c == Check(b)
           f == b \o <<c, EndByte>>
<1>1. c \in Byte /\ EndByte \in Byte
  BY CheckType DEF EndByte, Byte
<1> HIDE DEF c
<1>2. <<c, EndByte>> \in Seq(Byte) /\ Len(<<c, EndByte>>) = 2
  BY <1>1
<1>3. n \in 4..253
  OBVIOUS
<1>4. /\ f \in Seq(Byte) /\ Len(f) = n + 2
      /\ \A i \in 1..n : f[i] = b[i]
      /\ f[n + 1] = c /\ f[n + 2] = EndByte
  BY <1>2, <1>3
<1>5. f[1] = HeadByte
  BY <1>3, <1>4
<1> HIDE DEF f
<1>6. SubSeq(f, 1, n) = b
  <2>1. \A i \in 1..n : f[i] \in Byte
    BY <1>3, <1>4, ElementOfSeq
  <2>2. /\ SubSeq(f, 1, n) \in Seq(Byte) /\ Len(SubSeq(f, 1, n)) = n
        /\ \A i \in 1..n : SubSeq(f, 1, n)[i] = f[i]
    BY <1>3, <2>1, SubSeqProperties, SMTT(30)
  <2> QED BY <1>4, <2>2, SeqEqual
<1> HIDE DEF n
<1>7. Len(f) % 256 = n + 2
  <2>1. \A k \in 4..253 : (k + 2) % 256 = k + 2
    OBVIOUS
  <2>2. (n + 2) % 256 = n + 2
    BY <1>3, <2>1
  <2>3. Len(f) = n + 2
    BY <1>4
  <2> QED BY <2>2, <2>3, Zenon
<1>8. (n + 2) - 1 = n + 1 /\ (n + 2) - 2 = n /\ n + 2 >= 2
  BY <1>3
<1>9. Accepts(f)
  BY <1>4, <1>5, <1>6, <1>7, <1>8, ZenonT(30) DEF Accepts, c
<1> QED BY <1>4, <1>9 DEF Framed, f, c, n

LEMMA RcvAnswerStep == ASSUME SInv, RcvAnswer PROVE SInv'
<1>1. /\ TasksOK /\ ChipsOK /\ RestOK /\ BusOwned /\ RtcReading /\ RcvReading
      /\ AckWellFormed
  BY DEF SInv
<1>2. /\ ph["rcv"] = "end" /\ cmd # NoCmd
      /\ cmd' = NoCmd /\ ok' = 1 /\ hits' = 0 /\ got' = [got EXCEPT !["rcv"] = <<>>]
      /\ UNCHANGED <<op, ph, idx, todo, stage, bus, chipVars, relay, clashes, loss>>
  BY DEF RcvAnswer
<1>3. got' \in [Tasks -> Seq(Byte)] /\ got'["rtc"] = got["rtc"]
  BY <1>1, <1>2 DEF TasksOK, Tasks
<1>4. TasksOK'
  BY <1>1, <1>2, <1>3 DEF TasksOK
<1>5. ChipsOK'
  BY <1>1, <1>2 DEF ChipsOK, BusTypeOK, chipVars
<1>6. BusOwned'
  BY <1>1, <1>2, ZenonT(30) DEF BusOwned, Addressed, Owns, EepromOp
<1>7. RtcReading'
  BY <1>1, <1>2, <1>3 DEF RtcReading
<1>8. RcvReading'
  BY <1>2 DEF RcvReading
<1>9. cmd \in Seq(Byte) /\ cmd[3] \in Byte
  <2>1. cmd \in Seq(Byte) /\ Len(cmd) \in 5..255
    BY <1>1, <1>2, SentAssumption DEF RestOK
  <2>2. \A n \in 5..255 : 3 \in 1..n
    OBVIOUS
  <2>3. 3 \in 1..Len(cmd)
    BY <2>1, <2>2
  <2> QED BY <2>1, <2>3, ElementOfSeq
<1> DEFINE add == cmd[3]
           g == got["rcv"]
<1>10. /\ HeadByte \in Byte /\ Wflag \in Byte /\ Rflag \in Byte /\ 1 \in Byte
       /\ ok \in Byte /\ g \in Seq(Byte) /\ UDPACK_SIZE \in 7..255 /\ Len(g) \in Nat
  <2>1. g \in Seq(Byte)
    BY <1>1 DEF TasksOK, Tasks
  <2>2. ok \in Byte
    BY <1>1 DEF RestOK, Byte
  <2>3. HeadByte \in Byte /\ Wflag \in Byte /\ Rflag \in Byte /\ 1 \in Byte
    BY DEF HeadByte, Wflag, Rflag, Byte
  <2> QED BY <2>1, <2>2, <2>3, Lengths, LenProperties
<1>11. CASE cmd[2] = Wflag
  <2> DEFINE b == <<HeadByte, Wflag, add, ok>>
  <2>1. ack' = Framed(b)
    BY <1>11 DEF RcvAnswer, Write_Ack
  <2>2. b \in Seq(Byte) /\ Len(b) = 4 /\ b[1] = HeadByte
    BY <1>9, <1>10
  <2> HIDE DEF b
  <2>3. Len(b) \in 4..253
    BY <2>2
  <2>4. Framed(b) \in Seq(Byte) /\ Len(Framed(b)) = Len(b) + 2 /\ Accepts(Framed(b))
    BY <2>2, <2>3, FramedOK
  <2>5. ack' \in Seq(Byte) /\ Len(ack') <= UDPACK_SIZE /\ Accepts(ack')
    <3>1. 4 + 2 <= UDPACK_SIZE
      BY Lengths
    <3> QED BY <2>1, <2>2, <2>4, <3>1
  <2>6. AckWellFormed'
    BY <2>5 DEF AckWellFormed
  <2>7. RestOK'
    BY <1>1, <1>2, <2>5 DEF RestOK, MaxHits
  <2> QED BY <1>4, <1>5, <1>6, <1>7, <1>8, <2>6, <2>7 DEF SInv
<1>12. CASE cmd[2] # Wflag
  <2> DEFINE h == <<HeadByte, Rflag, add, 1>>
             b == h \o g
  <2>1. ack' = Framed(b)
    BY <1>12 DEF RcvAnswer, Read_Ack
  <2>2. h \in Seq(Byte) /\ Len(h) = 4 /\ h[1] = HeadByte
    BY <1>9, <1>10
  <2>3. Len(g) <= UDPACK_SIZE - 6
    BY <1>1, <1>2, <1>12 DEF RcvReading
  <2> HIDE DEF h
  <2> HIDE DEF g
  <2>4. b \in Seq(Byte) /\ Len(b) = 4 + Len(g) /\ b[1] = HeadByte
    <3>1. b \in Seq(Byte) /\ Len(b) = Len(h) + Len(g)
      BY <1>10, <2>2, ConcatProperties
    <3>2. 1 \in 1..(4 + Len(g)) /\ 1 <= 4
      BY <1>10
    <3>3. b[1] = h[1]
      BY <1>10, <2>2, <3>1, <3>2, ConcatProperties
    <3> QED BY <2>2, <3>1, <3>3
  <2> HIDE DEF b
  <2>5. Len(b) \in 4..253 /\ Len(b) + 2 <= UDPACK_SIZE
    <3>1. \A k \in Nat, u \in 7..255 :
            k <= u - 6 => 4 + k \in 4..253 /\ (4 + k) + 2 <= u
      OBVIOUS
    <3>2. 4 + Len(g) \in 4..253 /\ (4 + Len(g)) + 2 <= UDPACK_SIZE
      BY <1>10, <2>3, <3>1
    <3> QED BY <2>4, <3>2, Zenon
  <2>6. Framed(b) \in Seq(Byte) /\ Len(Framed(b)) = Len(b) + 2 /\ Accepts(Framed(b))
    BY <2>4, <2>5, FramedOK
  <2>7. ack' \in Seq(Byte) /\ Len(ack') <= UDPACK_SIZE /\ Accepts(ack')
    BY <2>1, <2>5, <2>6
  <2>8. AckWellFormed'
    BY <2>7 DEF AckWellFormed
  <2>9. RestOK'
    BY <1>1, <1>2, <2>7 DEF RestOK, MaxHits
  <2> QED BY <1>4, <1>5, <1>6, <1>7, <1>8, <2>8, <2>9 DEF SInv
<1> QED BY <1>11, <1>12

\* After a reset.
LEMMA Fresh ==
  /\ NoOps \in [Tasks -> GoodOps] /\ AtBoot \in [Tasks -> Phases]
  /\ Empty \in [Tasks -> Seq(GoodOps)] /\ Empty \in [Tasks -> Seq(Byte)]
  /\ [t \in Tasks |-> 1] \in [Tasks -> Nat \ {0}]
  /\ \A t \in Tasks : PhaseFits(NoOps[t], AtBoot[t], 1)
  /\ [t \in Tasks |-> "reset"] \in [Tasks -> Stages]
  /\ BusIdle \in [ph : BusPhases, hi : Byte, eptr : Addr16, cptr : Byte, page : {NoPage}]
<1>1. NoOps \in [Tasks -> GoodOps]
  BY GoodDelay DEF NoOps
<1>2. AtBoot \in [Tasks -> Phases] /\ \A t \in Tasks : AtBoot[t] \in {"end", "off"}
  BY DEF AtBoot, Phases
<1>3. Empty \in [Tasks -> Seq(GoodOps)] /\ Empty \in [Tasks -> Seq(Byte)]
  BY DEF Empty
<1>4. \A t \in Tasks : PhaseFits(NoOps[t], AtBoot[t], 1)
  BY <1>2 DEF PhaseFits
<1>5. [t \in Tasks |-> "reset"] \in [Tasks -> Stages]
  BY DEF Stages
<1>6. BusIdle \in [ph : BusPhases, hi : Byte, eptr : Addr16, cptr : Byte, page : {NoPage}]
  <2>1. 0 \in Byte /\ 0 \in Addr16 /\ "idle" \in BusPhases
    <3>1. 0 \in Byte /\ "idle" \in BusPhases
      BY DEF Byte, BusPhases
    <3> QED BY <3>1, SmallAddr, Zenon
  <2> QED BY <2>1 DEF BusIdle
<1> QED BY <1>1, <1>2, <1>3, <1>4, <1>5, <1>6

LEMMA FreshBus == BusIdle.ph = "idle" /\ BusIdle.page = NoPage
BY DEF BusIdle

LEMMA PowerLossStep == ASSUME SInv, PowerLoss PROVE SInv'
<1>1. /\ loss < MaxLoss /\ loss' = loss + 1 /\ op' = NoOps /\ ph' = AtBoot
      /\ idx' = [t \in Tasks |-> 1] /\ todo' = Empty /\ got' = Empty
      /\ stage' = [t \in Tasks |-> "reset"]
      /\ cmd' = NoCmd /\ ok' = 1 /\ ack' = <<>> /\ hits' = 0
      /\ bus' = BusIdle /\ ebusy' = 0 /\ settled' = {} /\ relay' = 0
      /\ UNCHANGED <<eeprom, clock, clashes>>
  BY DEF PowerLoss
<1>2. \A t \in Tasks : idx'[t] = 1
  BY <1>1
<1>3. TasksOK'
  BY <1>1, <1>2, Fresh DEF TasksOK
<1>4. BusTypeOK' /\ bus'.ph = "idle"
  BY <1>1, Fresh, FreshBus DEF BusTypeOK
<1>5. ChipsOK'
  BY <1>1, <1>4 DEF SInv, ChipsOK
<1>6. BusOwned'
  BY <1>4 DEF BusOwned, Addressed
<1>7. RtcReading' /\ RcvReading' /\ AckWellFormed'
  <2>1. stage'["rtc"] = "reset"
    BY <1>1 DEF Tasks
  <2> QED BY <1>1, <2>1 DEF RtcReading, RcvReading, AckWellFormed
<1>8. loss' \in 0..MaxLoss
  <2>1. MaxLoss \in Nat
    BY StoreAssumption
  <2> QED BY <1>1, <2>1 DEF SInv, RestOK
<1>9. RestOK'
  <2>1. <<>> \in Seq(Byte)
    OBVIOUS
  <2> QED BY <1>1, <1>8, <2>1, Fresh DEF SInv, RestOK, Stages, MaxHits
<1> QED BY <1>3, <1>5, <1>6, <1>7, <1>9 DEF SInv

LEMMA StoreInit == Init => SInv
<1> SUFFICES ASSUME Init PROVE SInv
  OBVIOUS
<1>1. /\ op = NoOps /\ ph = AtBoot /\ idx = [t \in Tasks |-> 1] /\ todo = Empty
      /\ got = Empty /\ stage = [t \in Tasks |-> "reset"]
      /\ cmd = NoCmd /\ ok = 1 /\ ack = <<>> /\ hits = 0
      /\ bus = BusIdle /\ ebusy = 0 /\ settled = {} /\ relay = 0
      /\ clashes = 0 /\ loss = 0
  BY DEF Init
<1>2. eeprom \in [Addrs -> Byte] /\ clock \in [ClockRegs -> Byte]
  <2>1. ClockReset \in Byte /\ 0 \in Byte /\ 255 \in Byte
    BY StoreAssumption DEF Byte
  <2> QED BY <2>1 DEF Init
<1>3. \A t \in Tasks : idx[t] = 1
  BY <1>1
<1>4. TasksOK
  BY <1>1, <1>3, Fresh DEF TasksOK
<1>5. BusTypeOK /\ bus.ph = "idle"
  BY <1>1, Fresh, FreshBus DEF BusTypeOK
<1>6. ChipsOK
  BY <1>1, <1>2, <1>5 DEF ChipsOK
<1>7. BusOwned
  BY <1>5 DEF BusOwned, Addressed
<1>8. RtcReading /\ RcvReading /\ AckWellFormed
  <2>1. stage["rtc"] = "reset"
    BY <1>1 DEF Tasks
  <2> QED BY <1>1, <2>1 DEF RtcReading, RcvReading, AckWellFormed
<1>9. RestOK
  <2>1. <<>> \in Seq(Byte) /\ 0 \in 0..MaxLoss
    BY StoreAssumption
  <2> QED BY <1>1, <2>1, Fresh DEF RestOK, Stages, MaxHits
<1> QED BY <1>4, <1>6, <1>7, <1>8, <1>9 DEF SInv

LEMMA StoreStep == SInv /\ [Next]_vars => SInv'
<1> SUFFICES ASSUME SInv, [Next]_vars PROVE SInv'
  OBVIOUS
<1>1. CASE UNCHANGED vars
  <2>1. UNCHANGED <<op, ph, idx, todo, got, stage, cmd, ok, ack, hits, bus, eeprom, ebusy,
                    settled, clock, relay, clashes, loss>>
    BY <1>1 DEF vars, taskVars, cmdVars, chipVars
  <2>2. TasksOK' /\ RestOK' /\ AckWellFormed' /\ RtcReading' /\ RcvReading'
    BY <2>1 DEF SInv, TasksOK, RestOK, AckWellFormed, RtcReading, RcvReading
  <2>3. ChipsOK'
    BY <2>1 DEF SInv, ChipsOK, BusTypeOK
  <2>4. BusOwned'
    BY <2>1 DEF SInv, BusOwned, Addressed, Owns, EepromOp
  <2> QED BY <2>2, <2>3, <2>4 DEF SInv
<1>2. ASSUME NEW t \in Tasks, Step(t) PROVE SInv'
  BY <1>2, StartStep, ByteStep, StopStep, ReadStep, DelayStep, GpioStep DEF Step
<1>3. \A t \in {"lcd", "rtc", "uart1", "rcv"} : t \in Tasks
  BY DEF Tasks
<1> QED
  BY <1>1, <1>2, <1>3, LcdNextStep, RtcNextStep, UartNextStep, RcvCommandStep,
     RcvAnswerStep, DelayOverStep, CycleOverStep, PowerLossStep
  DEF Next, LcdStep, RtcStep, UartStep, RcvStep
-----------------------------------------------------------------------------
(***************************************************************************)
(* The cells the tasks write.                                              *)
(***************************************************************************)
\* What the tasks other than the receive task write lies below the parameters.
LowOps == {o \in GoodOps : o.k = "ew" => o.a < \h71}
LowInv == \A t \in Tasks \ {"rcv"} : op[t] \in LowOps /\ todo[t] \in Seq(LowOps)

LEMMA LowAre ==
  /\ LowOps \subseteq GoodOps /\ ReadOps \subseteq LowOps
  /\ \A o \in GoodOps : o.k # "ew" => o \in LowOps
BY DEF LowOps, ReadOps

LEMMA LowDelay == Delay \in LowOps
<1>1. Delay.k = "wait"
  BY DEF Delay
<1> QED BY <1>1, GoodDelay, LowAre

LEMMA LowOne == ASSUME NEW o \in LowOps PROVE <<o>> \in Seq(LowOps)
OBVIOUS

LEMMA LowConcat ==
  ASSUME NEW s \in Seq(LowOps), NEW r \in Seq(LowOps) PROVE s \o r \in Seq(LowOps)
OBVIOUS

\* AT24CXX_Read writes nothing, and AT24CXX_Write fills the cells it is given.
LEMMA LowReads ==
  ASSUME NEW a \in 0..255, NEW n \in 0..255 PROVE AT24CXX_Read(a, n) \in Seq(LowOps)
<1>1. AT24CXX_Read(a, n) \in Seq(ReadOps)
  BY GoodReads
<1> QED BY <1>1, LowAre, SeqMonotonic

LEMMA LowWrites ==
  ASSUME NEW a \in 0..255, NEW b \in Seq(Byte), Len(b) <= 255, a + Len(b) <= \h71
  PROVE  AT24CXX_Write(a, b) \in Seq(LowOps)
<1> DEFINE w == AT24CXX_Write(a, b)
           n == Len(b)
<1>1. n \in Nat
  BY LenProperties
<1>2. w \in Seq(GoodOps)
  BY GoodWrites
<1>3. Len(w) = n /\ \A i \in 1..n : w[i] = AT24CXX_WriteOneByte(a + i - 1, b[i])
  BY <1>1 DEF AT24CXX_Write
<1>4. a + n <= \h71
  OBVIOUS
<1> HIDE DEF w, n
<1>5. ASSUME NEW i \in 1..n PROVE w[i] \in LowOps
  <2>1. w[i] \in GoodOps
    BY <1>2, <1>3, ElementOfSeq
  <2>2. w[i].a = a + i - 1
    BY <1>3 DEF AT24CXX_WriteOneByte
  <2>3. a + i - 1 < \h71
    BY <1>1, <1>4
  <2> QED BY <2>1, <2>2, <2>3 DEF LowOps
<1>6. w \in Seq(LowOps)
  BY <1>2, <1>3, <1>5, IsASeq
<1> QED BY <1>6 DEF w

\* Save_time stores a date at address 0.
LEMMA LowSave ==
  ASSUME NEW regs \in Seq(Byte), Len(regs) = TIME_LEN PROVE SaveTimeOps(regs) \in Seq(LowOps)
<1>1. PICK v \in Seq(Byte) : Len(v) = TIME_LEN /\ SaveTimeOps(regs) = AT24CXX_Write(0, v)
  BY SaveIs
<1>2. TIME_LEN \in Nat /\ TIME_LEN < 15
  BY CommandAssumption, StoreAssumption DEF CTR1
<1>3. Len(v) <= 255 /\ 0 \in 0..255 /\ 0 + Len(v) <= \h71
  BY <1>1, <1>2
<1> QED BY <1>1, <1>3, LowWrites

\* Clock operations write no cell.
LEMMA LowBoot ==
  /\ RTCFlag_ReadDate \in LowOps /\ RTC_ReadDate \in LowOps
  /\ RTCFlag_WriteDate(FlagByte) \in Seq(LowOps)
  /\ RTC_WriteDate(TimeInit) \in LowOps
<1>1. RTCFlag_ReadDate.k = "cr" /\ RTC_ReadDate.k = "cr" /\ RTC_WriteDate(TimeInit).k = "cw"
  BY DEF RTCFlag_ReadDate, RTC_ReadDate, RTC_WriteDate, ClockRead, ClockWrite
<1>2. /\ RTCFlag_ReadDate \in LowOps /\ RTC_ReadDate \in LowOps
      /\ RTC_WriteDate(TimeInit) \in LowOps
  BY <1>1, GoodBoot, ReadDate, LowAre
<1> DEFINE w == RTCFlag_WriteDate(FlagByte)
<1>3. w \in Seq(GoodOps)
  BY GoodBoot
<1>4. Len(w) = 4 /\ \A i \in 1..4 : w[i].k = "cw"
  <2> DEFINE a == ClockWrite(CTR2, <<\h80>>)
             b == ClockWrite(CTR1, <<\h84>>)
             c == ClockWrite(FlagReg, <<FlagByte>>)
             d == ClockWrite(CTR1, <<0, 0>>)
  <2>1. w = <<a, b, c, d>>
    BY DEF RTCFlag_WriteDate
  <2>2. a.k = "cw" /\ b.k = "cw" /\ c.k = "cw" /\ d.k = "cw"
    BY DEF ClockWrite
  <2> HIDE DEF a, b, c, d, w
  <2> QED BY <2>1, <2>2
<1> HIDE DEF w
<1>5. \A i \in 1..Len(w) : w[i] \in LowOps
  BY <1>3, <1>4, ElementOfSeq, LowAre
<1>6. w \in Seq(LowOps)
  BY <1>3, <1>5, IsASeq
<1> QED BY <1>2, <1>6 DEF w

\* A task goes on with low operations, or with another call of the one it has.
LEMMA LowFollow ==
  ASSUME TasksOK, LowInv, NEW t \in Tasks, NEW s \in Seq(GoodOps), Follow(t, s),
         t # "rcv" => s \in Seq(LowOps), got' \in [Tasks -> Seq(Byte)]
  PROVE  LowInv'
<1>1. /\ Others(t)
      /\ s = <<>> => op' = [op EXCEPT ![t] = Delay] /\ todo'[t] = <<>>
      /\ s # <<>> => op'[t] = Head(s) /\ todo'[t] = Tail(s)
  <2>1. s = <<>> => op' = [op EXCEPT ![t] = Delay]
    BY DEF Follow
  <2> QED BY <2>1, FollowOK
<1>2. t # "rcv" => op'[t] \in LowOps /\ todo'[t] \in Seq(LowOps)
  <2>1. CASE s = <<>>
    <3>1. op'[t] = Delay
      BY <1>1, <2>1 DEF TasksOK
    <3> QED BY <1>1, <2>1, <3>1, LowDelay
  <2>2. CASE s # <<>>
    BY <1>1, <2>2, HeadTailProperties
  <2> QED BY <2>1, <2>2
<1>3. \A u \in Tasks \ {t} : op'[u] = op[u] /\ todo'[u] = todo[u]
  BY <1>1 DEF Others
<1> QED BY <1>2, <1>3 DEF LowInv

LEMMA LowGoto == ASSUME LowInv, UNCHANGED <<op, todo>> PROVE LowInv'
BY DEF LowInv

\* The driver calls.
LEMMA LowStep ==
  ASSUME SInv, SInv', LowInv, NEW t \in Tasks, Step(t) \/ DelayOver(t) PROVE LowInv'
<1>1. TasksOK /\ todo[t] \in Seq(GoodOps) /\ <<>> \in Seq(GoodOps) /\ <<>> \in Seq(LowOps)
  BY DEF SInv, TasksOK
<1>2. got' \in [Tasks -> Seq(Byte)]
  BY DEF SInv, TasksOK
<1>3. t # "rcv" => todo[t] \in Seq(LowOps)
  BY DEF LowInv
<1>4. \/ UNCHANGED <<op, todo>> \/ Follow(t, todo[t]) \/ Follow(t, <<>>)
  <2>1. CASE CallStart(t) \/ CallByte(t) \/ CallDelay(t)
    BY <2>1 DEF CallStart, CallByte, CallDelay, Goto
  <2>2. CASE CallStop(t)
    BY <2>2 DEF CallStop, Goto
  <2>3. CASE CallRead(t)
    BY <2>3 DEF CallRead, Goto
  <2>4. CASE CallGpio(t) \/ DelayOver(t)
    BY <2>4 DEF CallGpio, DelayOver
  <2> QED BY <2>1, <2>2, <2>3, <2>4 DEF Step
<1> QED BY <1>1, <1>2, <1>3, <1>4, LowFollow, LowGoto

\* What the tasks begin.
LEMMA LowBegin ==
  ASSUME SInv, SInv', LowInv, NEW t \in Tasks, NEW p, NEW s \in Seq(LowOps), Begin(t, p, s)
  PROVE  LowInv'
<1>1. Seq(LowOps) \subseteq Seq(GoodOps)
  BY LowAre, SeqMonotonic
<1>2. TasksOK /\ got' \in [Tasks -> Seq(Byte)] /\ Follow(t, s)
  BY DEF SInv, TasksOK, Begin
<1> QED BY <1>1, <1>2, LowFollow

LEMMA LowNext ==
  ASSUME SInv, SInv', LowInv, LcdNext \/ RtcNext \/ UartNext PROVE LowInv'
<1>1. TIME_LEN \in 0..255 /\ CALIB_LEN \in 0..255 /\ 0 \in 0..255 /\ \h10 \in 0..255
      /\ "lcd" \in Tasks /\ "rtc" \in Tasks /\ "uart1" \in Tasks
  BY Lengths, StoreAssumption DEF Tasks
<1>2. /\ <<Delay>> \in Seq(LowOps)
      /\ AT24CXX_Read(0, TIME_LEN) \in Seq(LowOps)
      /\ AT24CXX_Read(\h10, CALIB_LEN) \in Seq(LowOps)
  BY <1>1, LowReads, LowDelay, LowOne
<1>3. CASE LcdNext
  <2>1. AT24CXX_Read(0, TIME_LEN) \o <<Delay>> \in Seq(LowOps)
    BY <1>2, LowConcat
  <2> QED BY <1>1, <1>3, <2>1, LowBegin DEF LcdNext
<1>4. CASE RtcNext
  <2> DEFINE a == RTCFlag_ReadDate
             b == RTC_WriteDate(TimeInit)
             c == RTC_ReadDate
             d == Delay
             w == RTCFlag_WriteDate(FlagByte)
             s == IF got["rtc"] # <<FlagByte>> THEN w \o <<a, b, c>> ELSE <<a, c>>
             v == SaveTimeOps(got["rtc"]) \o AT24CXX_Read(0, TIME_LEN)
  <2>1. a \in LowOps /\ b \in LowOps /\ c \in LowOps /\ d \in LowOps /\ w \in Seq(LowOps)
    BY LowBoot, LowDelay
  <2>2. \/ Begin("rtc", "flag", <<a>>) \/ Begin("rtc", "boot", s)
        \/ Begin("rtc", "loop", <<d, c>>)
        \/ stage["rtc"] = "loop" /\ Begin("rtc", "save", v)
    BY <1>4 DEF RtcNext
  <2> HIDE DEF a, b, c, d, w
  <2>3. /\ <<a>> \in Seq(LowOps) /\ <<a, c>> \in Seq(LowOps) /\ <<a, b, c>> \in Seq(LowOps)
        /\ <<d, c>> \in Seq(LowOps)
    BY <2>1
  <2>4. s \in Seq(LowOps)
    BY <2>1, <2>3, LowConcat
  <2>5. stage["rtc"] = "loop" /\ Begin("rtc", "save", v) => v \in Seq(LowOps)
    <3> SUFFICES ASSUME stage["rtc"] = "loop", Begin("rtc", "save", v) PROVE v \in Seq(LowOps)
      OBVIOUS
    <3>1. ph["rtc"] = "end" /\ got["rtc"] \in Seq(Byte)
      BY <1>1 DEF Begin, SInv, TasksOK
    <3>2. Len(got["rtc"]) = TIME_LEN
      BY <3>1 DEF SInv, RtcReading
    <3> QED BY <1>2, <3>1, <3>2, LowSave, LowConcat
  <2> HIDE DEF s, v
  <2> QED BY <1>1, <2>2, <2>3, <2>4, <2>5, LowBegin
<1>5. CASE UartNext
  <2> DEFINE w == <<Delay>>
             r == AT24CXX_Read(\h10, CALIB_LEN)
             s == (w \o r) \o w
             v(b) == [i \in 1..VOLT_LEN |-> b]
  <2>1. \/ Begin("uart1", "init", s)
        \/ \E b \in CalibBytes : Begin("uart1", "stored", AT24CXX_Write(\h14, v(b)))
        \/ UNCHANGED <<op, todo>>
    BY <1>5 DEF UartNext
  <2>2. s \in Seq(LowOps)
    <3> HIDE DEF w, r
    <3> QED BY <1>2, LowConcat DEF w, r
  <2>3. ASSUME NEW b \in CalibBytes PROVE AT24CXX_Write(\h14, v(b)) \in Seq(LowOps)
    <3>1. VOLT_LEN \in 1..255 /\ CalibBytes \subseteq Byte /\ \h14 + VOLT_LEN <= \h71
      BY StoreAssumption, CellsAssumption
    <3>2. v(b) \in [1..VOLT_LEN -> Byte]
      BY <3>1
    <3> HIDE DEF v
    <3>3. v(b) \in Seq(Byte) /\ Len(v(b)) = VOLT_LEN
      BY <3>1, <3>2, SeqOf
    <3>4. Len(v(b)) <= 255 /\ \h14 \in 0..255 /\ \h14 + Len(v(b)) <= \h71
      BY <3>1, <3>3
    <3> QED BY <3>3, <3>4, LowWrites
  <2> HIDE DEF s, v
  <2> QED BY <1>1, <2>1, <2>2, <2>3, LowBegin, LowGoto
<1> QED BY <1>3, <1>4, <1>5

LEMMA LowInit == Init => LowInv
<1> SUFFICES ASSUME Init, NEW t \in Tasks PROVE op[t] \in LowOps /\ todo[t] \in Seq(LowOps)
  BY DEF LowInv
<1>1. op[t] = Delay /\ todo[t] = <<>>
  BY DEF Init, NoOps, Empty
<1> QED BY <1>1, LowDelay

LEMMA LowKept == SInv /\ SInv' /\ LowInv /\ [Next]_vars => LowInv'
<1> SUFFICES ASSUME SInv, SInv', LowInv, [Next]_vars PROVE LowInv'
  OBVIOUS
<1>1. CASE UNCHANGED vars
  BY <1>1, LowGoto DEF vars, taskVars
<1>2. CASE CycleOver \/ RcvAnswer
  BY <1>2, LowGoto DEF CycleOver, RcvAnswer, taskVars
<1>3. CASE PowerLoss
  <2>1. op' = NoOps /\ todo' = Empty
    BY <1>3 DEF PowerLoss
  <2>2. \A t \in Tasks : op'[t] = Delay /\ todo'[t] = <<>>
    BY <2>1 DEF NoOps, Empty
  <2>3. <<>> \in Seq(LowOps)
    OBVIOUS
  <2> QED BY <2>2, <2>3, LowDelay DEF LowInv
<1>4. ASSUME NEW d \in Datagrams, RcvCommand(d) PROVE LowInv'
  <2>1. Follow("rcv", CommandOps(d)) /\ Accepts(d)
    BY <1>4 DEF RcvCommand
  <2>2. d \in Seq(Byte)
    BY <2>1, AcceptedWasSent, SentAssumption
  <2>3. CommandOps(d) \in Seq(GoodOps) /\ "rcv" \in Tasks
    BY <2>2, GoodCommand DEF Tasks
  <2>4. TasksOK /\ got' \in [Tasks -> Seq(Byte)]
    BY DEF SInv, TasksOK
  <2> QED BY <2>1, <2>3, <2>4, LowFollow
<1>5. \A t \in {"lcd", "rtc", "uart1", "rcv"} : t \in Tasks
  BY DEF Tasks
<1> QED BY <1>1, <1>2, <1>3, <1>4, <1>5, LowStep, LowNext
        DEF Next, LcdStep, RtcStep, UartStep, RcvStep
-----------------------------------------------------------------------------
(***************************************************************************)
(* A parameter command.                                                    *)
(***************************************************************************)
\* A parameter has one or two cells of its own, above what the other tasks write.
LEMMA CellsAre ==
  ASSUME NEW add, IsParameter(add)
  PROVE  /\ Len(ParameterAt(add)) \in 1..2
         /\ \A i \in 1..Len(ParameterAt(add)) :
              ParameterAt(add)[i] \in Byte /\ ParameterAt(add)[i] >= \h71
         /\ \A i, j \in 1..Len(ParameterAt(add)) :
              ParameterAt(add)[i] = ParameterAt(add)[j] => i = j
<1>1. PICK p \in Parameters : p[1] = add
  BY DEF IsParameter
<1> DEFINE c == CHOOSE q \in Parameters : q[1] = add
           Fit(s) == /\ Len(s) \in 1..2
                     /\ \A i \in 1..Len(s) : s[i] \in Byte /\ s[i] >= \h71
                     /\ \A i, j \in 1..Len(s) : s[i] = s[j] => i = j
<1>2. c \in Parameters
  BY <1>1
<1> HIDE DEF c
<1>3. ASSUME NEW x \in Byte, x >= \h71 PROVE Fit(<<x>>)
  <2> DEFINE s == <<x>>
  <2>1. Len(s) = 1 /\ s[1] = x
    OBVIOUS
  <2> HIDE DEF s
  <2>2. Fit(s)
    BY <1>3, <2>1
  <2> QED BY <2>2 DEF s
<1>4. ASSUME NEW x \in Byte, NEW y \in Byte, x >= \h71, y >= \h71, x # y PROVE Fit(<<x, y>>)
  <2> DEFINE s == <<x, y>>
  <2>1. Len(s) = 2 /\ s[1] = x /\ s[2] = y
    OBVIOUS
  <2> HIDE DEF s
  <2>2. Fit(s)
    BY <1>4, <2>1
  <2> QED BY <2>2 DEF s
<1> HIDE DEF Fit
<1>5. /\ Fit(<<\h71>>) /\ Fit(<<\h92>>) /\ Fit(<<\h93>>) /\ Fit(<<\h94>>)
      /\ Fit(<<\h95>>) /\ Fit(<<\hB4>>) /\ Fit(<<\hB5>>)
  BY <1>3 DEF Byte
<1>6. /\ Fit(<<\h90, \h91>>) /\ Fit(<<\hA2, \hA3>>) /\ Fit(<<\hB2, \hB3>>)
      /\ Fit(<<\hB6, \hB7>>)
  <2>1. \A x \in {\h90, \hA2, \hB2, \hB6} :
          /\ x \in Byte /\ x + 1 \in Byte /\ x >= \h71 /\ x + 1 >= \h71 /\ x # x + 1
    BY DEF Byte
  <2>2. ASSUME NEW x \in {\h90, \hA2, \hB2, \hB6} PROVE Fit(<<x, x + 1>>)
    <3>1. x \in Byte /\ x + 1 \in Byte /\ x >= \h71 /\ x + 1 >= \h71 /\ x # x + 1
      BY <2>1
    <3> QED BY <1>4, <3>1
  <2>3. /\ \h90 + 1 = \h91 /\ \hA2 + 1 = \hA3 /\ \hB2 + 1 = \hB3 /\ \hB6 + 1 = \hB7
    OBVIOUS
  <2> QED BY <2>2, <2>3
<1>7. Fit(c[2])
  BY <1>2, <1>5, <1>6 DEF Parameters
<1> QED BY <1>7 DEF ParameterAt, c, Fit

\* Setting a parameter is what a write command for its address does.
LEMMA ParameterCommand ==
  ASSUME NEW d, d[2] = Wflag, IsParameter(d[3]) PROVE CommandOps(d) = ParameterOps(d)
<1>1. CommandOps(d) = Write_Meter(d)
  BY DEF CommandOps, Wflag, Rflag
<1>2. d[3] \in {ScreenTimeAdd, NominalVoltage, \hF0, \hF1, \hF2, \hF3, \hF7, \hFC, \hFD, \hFE,
                \hFF}
  BY DEF IsParameter, Parameters
<1>3. d[3] \notin {RelayAdd, TimeAdd, ClearAll, BillTimeAdd} /\ d[3] \notin EnergyAdds
  BY <1>2 DEF ScreenTimeAdd, NominalVoltage, RelayAdd, TimeAdd, ClearAll, BillTimeAdd, EnergyAdds
<1>4. Write_Meter(d) = ParameterOps(d)
  BY <1>3 DEF Write_Meter
<1> QED BY <1>1, <1>4

\* Its operations: the bytes are written, then read back in the same order.
LEMMA ParameterPlan ==
  ASSUME NEW d \in Seq(Byte), IsParameter(d[3])
  PROVE  LET at == ParameterAt(d[3])
             n == Len(at)
             S == ParameterOps(d)
         IN  /\ n \in 1..2 /\ Len(S) = 2 * n /\ S \in Seq(GoodOps)
             /\ \A k \in 1..n : S[k] = AT24CXX_WriteOneByte(at[k], Temp(d, k + 2))
             /\ \A k \in 1..n : S[n + k] = AT24CXX_ReadOneByte(at[k], Temp(d, k + 2))
<1> DEFINE at == ParameterAt(d[3])
           n == Len(at)
           S == ParameterOps(d)
           w == [i \in 1..n |-> AT24CXX_WriteOneByte(at[i], Temp(d, i + 2))]
           r == [i \in 1..n |-> AT24CXX_ReadOneByte(at[i], Temp(d, i + 2))]
<1>1. n \in 1..2 /\ S \in Seq(GoodOps)
  BY CellsAre, GoodParameter
<1>2. S = w \o r
  BY DEF ParameterOps
<1>3. /\ \A k \in 1..n : w[k] = AT24CXX_WriteOneByte(at[k], Temp(d, k + 2))
      /\ \A k \in 1..n : r[k] = AT24CXX_ReadOneByte(at[k], Temp(d, k + 2))
  OBVIOUS
<1>4. /\ w \in Seq({w[k] : k \in 1..n}) /\ r \in Seq({r[k] : k \in 1..n})
      /\ Len(w) = n /\ Len(r) = n
  <2>1. w \in [1..n -> {w[k] : k \in 1..n}] /\ r \in [1..n -> {r[k] : k \in 1..n}]
    OBVIOUS
  <2>2. n \in Nat
    BY <1>1
  <2> HIDE DEF n, w, r
  <2> QED BY <2>1, <2>2, SeqOf
<1> HIDE DEF at, n, S, w, r
<1> DEFINE All == {w[k] : k \in 1..n} \cup {r[k] : k \in 1..n}
<1>5. w \in Seq(All) /\ r \in Seq(All)
  <2>1. {w[k] : k \in 1..n} \subseteq All /\ {r[k] : k \in 1..n} \subseteq All
    OBVIOUS
  <2> HIDE DEF All
  <2> QED BY <1>4, <2>1, SeqMonotonic
<1> HIDE DEF All
<1>6. /\ Len(S) = n + n
      /\ \A k \in 1..(n + n) : S[k] = IF k <= n THEN w[k] ELSE r[k - n]
  <2>1. /\ Len(w \o r) = Len(w) + Len(r)
        /\ \A k \in 1..(Len(w) + Len(r)) :
             (w \o r)[k] = IF k <= Len(w) THEN w[k] ELSE r[k - Len(w)]
    BY <1>5, ConcatProperties, Zenon
  <2> QED BY <1>2, <1>4, <2>1, Zenon
<1>7. \A k \in 1..n : S[k] = w[k] /\ S[n + k] = r[k]
  <2> SUFFICES ASSUME NEW k \in 1..n PROVE S[k] = w[k] /\ S[n + k] = r[k]
    OBVIOUS
  <2>1. k \in 1..(n + n) /\ k <= n /\ n + k \in 1..(n + n) /\ ~(n + k <= n) /\ (n + k) - n = k
    BY <1>1
  <2>2. S[n + k] = r[(n + k) - n]
    BY <1>6, <2>1, Zenon
  <2>3. S[k] = w[k]
    BY <1>6, <2>1, Zenon
  <2> QED BY <2>1, <2>2, <2>3
<1>8. n + n = 2 * n
  BY <1>1
<1> QED BY <1>1, <1>3, <1>6, <1>7, <1>8, Zenon DEF at, n, S
-----------------------------------------------------------------------------
(***************************************************************************)
(* A parameter command that was hit at most once.                          *)
(***************************************************************************)
\* A parameter is being set, the cells it has and the operations it takes.
Storing == cmd # NoCmd /\ cmd[2] = Wflag /\ IsParameter(cmd[3])
Cells == ParameterAt(cmd[3])
Count == Len(Cells)
Given(i) == Temp(cmd, i + 2)
Plan == ParameterOps(cmd)

Stored(i) == eeprom[Cells[i]] = Given(i)
AllStored == \A i \in 1..Count : Stored(i)

\* The receive task is at operation k.
Reached(k) ==
  /\ op["rcv"] = Plan[k]
  /\ Len(todo["rcv"]) = 2 * Count - k
  /\ \A i \in 1..(2 * Count - k) : todo["rcv"][i] = Plan[k + i]

\* No task above the receive task is awake.
Alone == \A u \in Above("rcv") : Blocked(u)

\* The EEPROM is where the receive task takes it to be.
Tracks ==
  \/ ph["rcv"] = "start"
  \/ Owns("rcv")
  \/ ph["rcv"] = "read" /\ bus.ph = "eread" /\ bus.eptr = op["rcv"].a

\* The delay of the receive task outlasts the write cycle.
Rested == ebusy = 1 => "rcv" \in settled

\* A command nothing has hit so far has stored every byte it has written.
Clean(k) ==
  /\ Alone /\ k <= Count
  /\ \A i \in 1..(k - 1) : Stored(i)
  /\ ph["rcv"] \in {"pause", "delay"} => Stored(k)
  /\ ph["rcv"] = "delay" => Rested
  /\ ph["rcv"] \notin {"pause", "delay"} => ebusy = 0 /\ Tracks

\* A command that was hit once, and lost a byte, reads back what is there: the
\* hit came before the last write ended, and nothing disturbs the comparison.
Faithful(k) ==
  \/ k < Count
  \/ k = Count /\ (ph["rcv"] = "delay" => Alone /\ Rested)
  \/ /\ k > Count /\ Alone /\ ebusy = 0 /\ Tracks
     /\ \A i \in 1..(k - Count - 1) : Stored(i)

AckInv ==
  Storing =>
    /\ ph["rcv"] = "end" => (ok = 1 /\ hits <= 1 => AllStored)
    /\ ph["rcv"] # "end" =>
         \E k \in 1..(2 * Count) :
           /\ Reached(k)
           /\ hits = 0 => AllStored \/ Clean(k)
           /\ hits = 1 => AllStored \/ Faithful(k)

\* The command and its operations.
LEMMA StoringAre ==
  ASSUME SInv, Storing
  PROVE  /\ Count \in 1..2 /\ Len(Plan) = 2 * Count /\ Plan \in Seq(GoodOps)
         /\ \A i \in 1..Count : /\ Cells[i] \in Addrs /\ Cells[i] \in Byte /\ Cells[i] >= \h71
                                /\ Given(i) \in Byte
         /\ \A i, j \in 1..Count : Cells[i] = Cells[j] => i = j
         /\ \A k \in 1..Count : Plan[k] = AT24CXX_WriteOneByte(Cells[k], Given(k))
         /\ \A k \in 1..Count : Plan[Count + k] = AT24CXX_ReadOneByte(Cells[k], Given(k))
<1>1. cmd \in Sent /\ cmd[2] = Wflag /\ IsParameter(cmd[3])
  BY DEF SInv, RestOK, Storing
<1>2. cmd \in Seq(Byte)
  BY <1>1, SentAssumption
<1>3. \A i \in 1..Count : Cells[i] \in Addrs
  BY <1>1, CellsAssumption DEF Cells, Count
<1>4. /\ Count \in 1..2 /\ \A i \in 1..Count : Cells[i] \in Byte /\ Cells[i] >= \h71
      /\ \A i, j \in 1..Count : Cells[i] = Cells[j] => i = j
  BY <1>1, CellsAre DEF Cells, Count
<1>5. \A i \in 1..Count : Given(i) \in Byte
  <2> SUFFICES ASSUME NEW i \in 1..Count PROVE Given(i) \in Byte
    OBVIOUS
  <2>1. i + 2 \in Nat
    BY <1>4
  <2> QED BY <1>2, <2>1, TempType DEF Given
<1>6. /\ Len(Plan) = 2 * Count /\ Plan \in Seq(GoodOps)
      /\ \A k \in 1..Count : Plan[k] = AT24CXX_WriteOneByte(Cells[k], Given(k))
      /\ \A k \in 1..Count : Plan[Count + k] = AT24CXX_ReadOneByte(Cells[k], Given(k))
  BY <1>1, <1>2, ParameterPlan, Zenon DEF Plan, Cells, Count, Given
<1> QED BY <1>3, <1>4, <1>5, <1>6

\* The operation the receive task is at.
LEMMA ReachedOp ==
  ASSUME SInv, Storing, NEW k \in 1..(2 * Count), Reached(k)
  PROVE  /\ Count \in 1..2 /\ op["rcv"] \in GoodOps
         /\ Len(op["rcv"].v) = 1
         /\ k <= Count => /\ op["rcv"].k = "ew" /\ op["rcv"].a = Cells[k]
                          /\ op["rcv"].v[1] = Given(k)
         /\ k > Count => /\ op["rcv"].k = "er" /\ op["rcv"].a = Cells[k - Count]
                         /\ op["rcv"].v[1] = Given(k - Count)
<1>1. Count \in 1..2 /\ op["rcv"] = Plan[k] /\ k \in 1..(2 * Count)
  BY StoringAre DEF Reached
<1>2. op["rcv"] \in GoodOps
  BY DEF SInv, TasksOK, Tasks
<1>3. CASE k <= Count
  <2>1. k \in 1..Count
    BY <1>1, <1>3
  <2>2. op["rcv"] = AT24CXX_WriteOneByte(Cells[k], Given(k))
    BY <1>1, <2>1, StoringAre
  <2>3. /\ op["rcv"].k = "ew" /\ op["rcv"].a = Cells[k] /\ op["rcv"].v = <<Given(k)>>
    BY <2>2 DEF AT24CXX_WriteOneByte
  <2> QED BY <1>1, <1>2, <1>3, <2>3
<1>4. CASE k > Count
  <2>1. k - Count \in 1..Count /\ Count + (k - Count) = k
    BY <1>1, <1>4
  <2>2. op["rcv"] = AT24CXX_ReadOneByte(Cells[k - Count], Given(k - Count))
    BY <1>1, <2>1, StoringAre
  <2>3. /\ op["rcv"].k = "er" /\ op["rcv"].a = Cells[k - Count]
        /\ op["rcv"].v = <<Given(k - Count)>>
    BY <2>2 DEF AT24CXX_ReadOneByte
  <2> QED BY <1>1, <1>2, <1>4, <2>3
<1> QED BY <1>1, <1>3, <1>4

\* An operation ends and the next one begins.
LEMMA Advance ==
  ASSUME SInv, Storing, NEW k \in 1..(2 * Count), Reached(k), cmd' = cmd,
         Follow("rcv", todo["rcv"]), got' \in [Tasks -> Seq(Byte)]
  PROVE  /\ Others("rcv")
         /\ k < 2 * Count => Reached(k + 1)' /\ ph'["rcv"] = "start" /\ k + 1 \in 1..(2 * Count)
         /\ k = 2 * Count => ph'["rcv"] = "end"
<1> DEFINE s == todo["rcv"]
           m == 2 * Count
<1>1. s \in Seq(GoodOps) /\ "rcv" \in Tasks /\ TasksOK
  BY DEF SInv, TasksOK, Tasks
<1>2. Len(s) = m - k /\ \A i \in 1..(m - k) : s[i] = Plan[k + i]
  BY DEF Reached
<1>3. Count \in 1..2 /\ m \in Nat /\ k \in 1..m
  BY StoringAre
<1>4. Plan' = Plan /\ Count' = Count
  BY DEF Plan, Count, Cells
<1>5. Others("rcv") /\ (s = <<>> => ph'["rcv"] = "end")
  BY <1>1, FollowOK
<1>6. s # <<>> => op'["rcv"] = Head(s) /\ todo'["rcv"] = Tail(s) /\ ph'["rcv"] = First(Head(s))
  BY <1>1, FollowOK
<1> HIDE DEF s, m
<1>7. CASE k = m
  <2>1. Len(s) = 0
    BY <1>2, <1>3, <1>7
  <2>2. s = <<>>
    BY <1>1, <2>1, EmptySeq
  <2>3. ~(k < 2 * Count)
    BY <1>3, <1>7 DEF m
  <2> QED BY <1>5, <2>2, <2>3
<1>8. CASE k < m
  <2>1. Len(s) > 0 /\ 1 \in 1..(m - k) /\ k + 1 \in 1..m
    BY <1>2, <1>3, <1>8
  <2>2. s # <<>>
    BY <2>1
  <2>3. /\ Head(s) = s[1] /\ Len(Tail(s)) = Len(s) - 1
        /\ \A i \in 1..Len(Tail(s)) : Tail(s)[i] = s[i + 1]
    BY <1>1, <2>2, HeadTailProperties
  <2>4. op'["rcv"] = Plan[k + 1]
    BY <1>2, <1>6, <2>1, <2>2, <2>3
  <2>5. Len(todo'["rcv"]) = m - (k + 1)
    <3>1. Len(todo'["rcv"]) = (m - k) - 1
      BY <1>2, <1>6, <2>2, <2>3
    <3> QED BY <1>3, <3>1
  <2>6. \A i \in 1..(m - (k + 1)) : todo'["rcv"][i] = Plan[(k + 1) + i]
    <3> SUFFICES ASSUME NEW i \in 1..(m - (k + 1)) PROVE todo'["rcv"][i] = Plan[(k + 1) + i]
      OBVIOUS
    <3>1. i + 1 \in 1..(m - k) /\ k + (i + 1) = (k + 1) + i
      BY <1>3
    <3>2. todo'["rcv"][i] = s[i + 1]
      BY <1>6, <2>2, <2>3, <2>5
    <3> QED BY <1>2, <3>1, <3>2
  <2>7. Reached(k + 1)'
    BY <1>4, <2>4, <2>5, <2>6 DEF Reached, m
  <2>8. First(Plan[k + 1]) = "start"
    <3>1. Plan[k + 1].k \in {"ew", "er"}
      <4>1. CASE k + 1 <= Count
        <5>1. k + 1 \in 1..Count
          BY <1>3, <4>1
        <5>2. Plan[k + 1] = AT24CXX_WriteOneByte(Cells[k + 1], Given(k + 1))
          BY <5>1, StoringAre
        <5> QED BY <5>2 DEF AT24CXX_WriteOneByte
      <4>2. CASE k + 1 > Count
        <5>1. (k + 1) - Count \in 1..Count /\ Count + ((k + 1) - Count) = k + 1
          BY <1>3, <1>8, <4>2 DEF m
        <5> DEFINE j == (k + 1) - Count
        <5>2. Plan[k + 1] = AT24CXX_ReadOneByte(Cells[j], Given(j))
          BY <5>1, StoringAre
        <5> QED BY <5>2 DEF AT24CXX_ReadOneByte
      <4> QED BY <1>3, <4>1, <4>2
    <3> QED BY <3>1 DEF First
  <2>9. ph'["rcv"] = "start"
    BY <1>6, <2>2, <2>4, <2>8
  <2>10. k # 2 * Count /\ k + 1 \in 1..(2 * Count)
    BY <1>3, <1>8, <2>1 DEF m
  <2> QED BY <1>5, <2>7, <2>9, <2>10
<1> QED BY <1>3, <1>7, <1>8

\* The step loses no byte that is stored.
Kept == \A i \in 1..Count : Stored(i) => Stored(i)'

LEMMA SameCommand ==
  ASSUME cmd' = cmd
  PROVE  /\ Storing' = Storing /\ Cells' = Cells /\ Count' = Count /\ Plan' = Plan
         /\ \A i : Given(i)' = Given(i)
BY DEF Storing, Cells, Count, Plan, Given

\* No cell changes.
LEMMA CellsUnchanged == ASSUME cmd' = cmd, eeprom' = eeprom PROVE Kept
BY SameCommand DEF Kept, Stored

\* The end of a write of another task.
LEMMA OthersKeep ==
  ASSUME SInv, LowInv, Storing, cmd' = cmd, NEW t \in Tasks \ {"rcv"}, CallStop(t)
  PROVE  Kept
<1>1. CASE eeprom' = eeprom
  BY <1>1, CellsUnchanged
<1>2. CASE eeprom' # eeprom
  <2>1. op[t].k = "ew" /\ eeprom' = [eeprom EXCEPT ![op[t].a] = op[t].v[1]]
    BY <1>2, StopWrites DEF SInv
  <2>2. op[t].a < \h71 /\ op[t] \in GoodOps
    BY <2>1 DEF LowInv, LowOps
  <2>3. op[t].a \in Nat
    <3>1. op[t].a \in Addr16
      BY <2>2, OpParts
    <3> QED BY <3>1, AddrIs
  <2>4. eeprom \in [Addrs -> Byte]
    BY DEF SInv, ChipsOK
  <2>5. ASSUME NEW i \in 1..Count PROVE eeprom'[Cells[i]] = eeprom[Cells[i]]
    <3>1. Cells[i] \in Addrs /\ Cells[i] \in Byte /\ Cells[i] >= \h71
      BY StoringAre
    <3>2. Cells[i] # op[t].a
      BY <2>2, <2>3, <3>1 DEF Byte
    <3> QED BY <2>1, <2>4, <3>1, <3>2
  <2> QED BY <2>5, SameCommand DEF Kept, Stored
<1> QED BY <1>1, <1>2

\* The end of a write of the receive task; it stores its byte if the EEPROM has
\* followed it.
LEMMA RcvKeeps ==
  ASSUME SInv, Storing, cmd' = cmd, CallStop("rcv"), NEW k \in 1..(2 * Count), Reached(k),
         k <= Count
  PROVE  Kept /\ (Owns("rcv") => Stored(k)')
<1>1. /\ Count \in 1..2 /\ op["rcv"].k = "ew" /\ op["rcv"].a = Cells[k]
      /\ op["rcv"].v[1] = Given(k)
  BY ReachedOp
<1>2. k \in 1..Count /\ Cells[k] \in Addrs /\ eeprom \in [Addrs -> Byte]
  <2>1. k \in 1..Count
    BY <1>1
  <2> QED BY <2>1, StoringAre DEF SInv, ChipsOK
<1>3. Kept
  <2>1. CASE eeprom' = eeprom
    BY <2>1, CellsUnchanged
  <2>2. CASE eeprom' # eeprom
    <3>1. eeprom' = [eeprom EXCEPT ![Cells[k]] = Given(k)]
      BY <1>1, <2>2, StopWrites DEF SInv, Tasks
    <3>2. ASSUME NEW i \in 1..Count, Stored(i) PROVE eeprom'[Cells[i]] = Given(i)
      <4>1. CASE i = k
        BY <1>2, <3>1, <4>1
      <4>2. CASE i # k
        <5>1. Cells[i] # Cells[k] /\ Cells[i] \in Addrs
          BY <1>2, <4>2, StoringAre
        <5> QED BY <1>2, <3>1, <3>2, <5>1 DEF Stored
      <4> QED BY <4>1, <4>2
    <3> QED BY <3>2, SameCommand DEF Kept, Stored
  <2> QED BY <2>1, <2>2
<1>4. ASSUME Owns("rcv") PROVE Stored(k)'
  <2>1. ph["rcv"] = "stop"
    BY DEF CallStop
  <2>2. bus.ph = "edata" /\ bus.page = [a \in {Cells[k]} |-> Given(k)]
    BY <1>1, <1>4, <2>1 DEF Owns
  <2>3. DOMAIN bus.page = {Cells[k]} /\ bus.page[Cells[k]] = Given(k)
    BY <2>2
  <2>4. bus.page # NoPage
    <3>1. DOMAIN NoPage = {}
      BY DEF NoPage
    <3> QED BY <2>3, <3>1
  <2>5. eeprom' = [a \in Addrs |-> IF a \in DOMAIN bus.page THEN bus.page[a] ELSE eeprom[a]]
    BY <2>2, <2>4 DEF CallStop
  <2>6. eeprom'[Cells[k]] = Given(k)
    BY <1>2, <2>3, <2>5
  <2> QED BY <2>6, SameCommand DEF Stored
<1> QED BY <1>3, <1>4

\* What does not touch the receive task leaves it where it is.
RcvRests ==
  /\ cmd' = cmd /\ op'["rcv"] = op["rcv"] /\ ph'["rcv"] = ph["rcv"]
  /\ todo'["rcv"] = todo["rcv"]

LEMMA ReachedStays ==
  ASSUME cmd' = cmd, op'["rcv"] = op["rcv"], todo'["rcv"] = todo["rcv"], NEW k, Reached(k)
  PROVE  Reached(k)'
<1>1. Plan' = Plan /\ Count' = Count
  BY SameCommand
<1> QED BY <1>1 DEF Reached

LEMMA KeptAll == ASSUME cmd' = cmd, Kept, AllStored PROVE AllStored'
<1>1. Count' = Count
  BY SameCommand
<1> QED BY <1>1 DEF Kept, AllStored

\* A task above the receive task runs: what it does to the bus does not matter,
\* for the hit has been counted.
LEMMA OtherStep ==
  ASSUME SInv, AckInv, RcvRests, hits' = hits, ok' \in {ok, 0}, Kept, ~Alone PROVE AckInv'
<1> SUFFICES ASSUME Storing
             PROVE  /\ ph'["rcv"] = "end" => (ok' = 1 /\ hits' <= 1 => AllStored')
                    /\ ph'["rcv"] # "end" =>
                         \E k \in 1..(2 * Count') :
                           /\ Reached(k)'
                           /\ hits' = 0 => AllStored' \/ Clean(k)'
                           /\ hits' = 1 => AllStored' \/ Faithful(k)'
  BY SameCommand DEF AckInv, RcvRests
<1>1. CASE ph["rcv"] = "end"
  BY <1>1, KeptAll DEF AckInv, RcvRests
<1>2. CASE ph["rcv"] # "end"
  <2>1. PICK k \in 1..(2 * Count) :
          /\ Reached(k)
          /\ hits = 0 => AllStored \/ Clean(k)
          /\ hits = 1 => AllStored \/ Faithful(k)
    BY <1>2 DEF AckInv
  <2>2. Reached(k)' /\ Count' = Count
    BY <2>1, ReachedStays, SameCommand DEF RcvRests
  <2>3. hits' = 0 => AllStored'
    BY <2>1, KeptAll DEF Clean, RcvRests
  <2>4. Faithful(k) => Faithful(k)'
    <3>1. CASE k < Count
      BY <2>2, <3>1 DEF Faithful
    <3>2. CASE k = Count /\ (ph["rcv"] = "delay" => Alone /\ Rested)
      BY <2>2, <3>2 DEF Faithful, RcvRests
    <3> QED BY <3>1, <3>2 DEF Faithful
  <2>5. hits' = 1 => AllStored' \/ Faithful(k)'
    BY <2>1, <2>4, KeptAll DEF RcvRests
  <2> QED BY <1>2, <2>2, <2>3, <2>5 DEF RcvRests
<1> QED BY <1>1, <1>2

\* The delay of a task above it ends: the command is hit.
LEMMA HitStep ==
  ASSUME SInv, AckInv, NEW t \in Tasks \ {"rcv"}, DelayOver(t) PROVE AckInv'
<1>1. /\ cmd' = cmd /\ ok' = ok /\ eeprom' = eeprom /\ Follow(t, todo[t]) /\ got' = got
      /\ hits' = IF cmd # NoCmd /\ hits < MaxHits THEN hits + 1 ELSE hits
  BY DEF DelayOver
<1>2. RcvRests
  <2>1. TasksOK /\ todo[t] \in Seq(GoodOps) /\ got' \in [Tasks -> Seq(Byte)]
    BY <1>1 DEF SInv, TasksOK
  <2>2. Others(t)
    BY <1>1, <2>1, FollowOK
  <2> QED BY <1>1, <2>2 DEF Others, RcvRests, Tasks
<1>3. Kept
  BY <1>1, CellsUnchanged
<1> SUFFICES ASSUME Storing
             PROVE  /\ ph'["rcv"] = "end" => (ok' = 1 /\ hits' <= 1 => AllStored')
                    /\ ph'["rcv"] # "end" =>
                         \E k \in 1..(2 * Count') :
                           /\ Reached(k)'
                           /\ hits' = 0 => AllStored' \/ Clean(k)'
                           /\ hits' = 1 => AllStored' \/ Faithful(k)'
  BY <1>1, SameCommand DEF AckInv
<1>4. /\ hits \in 0..2 /\ hits' \in 0..2 /\ hits <= hits' /\ hits' # 0 /\ (hits' = 1 => hits = 0)
  BY <1>1 DEF SInv, RestOK, MaxHits, Storing
<1>5. CASE ph["rcv"] = "end"
  <2>1. hits' <= 1 => hits <= 1
    BY <1>4
  <2> QED BY <1>1, <1>2, <1>3, <1>5, <2>1, KeptAll DEF AckInv, RcvRests
<1>6. CASE ph["rcv"] # "end"
  <2>1. PICK k \in 1..(2 * Count) :
          /\ Reached(k)
          /\ hits = 0 => AllStored \/ Clean(k)
          /\ hits = 1 => AllStored \/ Faithful(k)
    BY <1>6 DEF AckInv
  <2>2. Reached(k)' /\ Count' = Count
    BY <1>1, <1>2, <2>1, ReachedStays, SameCommand DEF RcvRests
  <2>3. ASSUME Clean(k) PROVE AllStored' \/ Faithful(k)'
    <3>1. Count \in 1..2 /\ k \in 1..(2 * Count) /\ k <= Count
      BY <2>3, StoringAre DEF Clean
    <3>2. CASE k < Count
      BY <2>2, <3>2 DEF Faithful
    <3>3. CASE k = Count /\ ph["rcv"] # "delay"
      BY <1>2, <2>2, <3>3 DEF Faithful, RcvRests
    <3>4. CASE k = Count /\ ph["rcv"] = "delay"
      <4>1. Stored(k) /\ \A i \in 1..(k - 1) : Stored(i)
        BY <2>3, <3>4 DEF Clean
      <4>2. \A i \in 1..Count : i = k \/ i \in 1..(k - 1)
        BY <3>1, <3>4
      <4>3. AllStored
        BY <4>1, <4>2 DEF AllStored
      <4> QED BY <1>1, <1>3, <4>3, KeptAll
    <3> QED BY <3>1, <3>2, <3>3, <3>4
  <2>4. hits' = 1 => AllStored' \/ Faithful(k)'
    BY <1>1, <1>3, <1>4, <2>1, <2>3, KeptAll
  <2> QED BY <1>2, <1>4, <1>6, <2>2, <2>4 DEF RcvRests
<1> QED BY <1>5, <1>6

\* A write cycle ends.
LEMMA CycleAck == ASSUME SInv, AckInv, CycleOver PROVE AckInv'
<1>1. /\ UNCHANGED <<op, ph, todo, cmd, ok, hits, bus, eeprom>> /\ ebusy' = 0
  BY DEF CycleOver, taskVars, cmdVars
<1>2. /\ Storing' = Storing /\ Count' = Count /\ AllStored' = AllStored
      /\ \A i : Stored(i)' = Stored(i)
      /\ \A k : Reached(k)' = Reached(k)
  BY <1>1, SameCommand DEF AllStored, Stored, Reached
<1>3. Alone' = Alone /\ Tracks' = Tracks /\ Rested'
  BY <1>1 DEF Alone, Blocked, Tracks, Owns, EepromOp, Rested
<1>4. \A k : Clean(k) => Clean(k)'
  BY <1>1, <1>2, <1>3 DEF Clean
<1>5. \A k : Faithful(k) => Faithful(k)'
  BY <1>1, <1>2, <1>3 DEF Faithful
<1> QED BY <1>1, <1>2, <1>4, <1>5 DEF AckInv

\* A parameter command begins.
LEMMA CommandAck == ASSUME SInv, NEW d \in Datagrams, RcvCommand(d) PROVE AckInv'
<1>1. /\ Running("rcv") /\ Accepts(d) /\ CommandOps(d) # <<>> /\ cmd' = d /\ hits' = ebusy
      /\ got' = [got EXCEPT !["rcv"] = <<>>] /\ Follow("rcv", CommandOps(d))
      /\ ebusy' = ebusy
  BY DEF RcvCommand, chipVars
<1>2. d \in Sent /\ d \in Seq(Byte)
  BY <1>1, AcceptedWasSent, SentAssumption
<1> SUFFICES ASSUME d[2] = Wflag, IsParameter(d[3])
             PROVE  /\ ph'["rcv"] # "end"
                    /\ \E k \in 1..(2 * Count') :
                         /\ Reached(k)'
                         /\ hits' = 0 => AllStored' \/ Clean(k)'
                         /\ hits' = 1 => AllStored' \/ Faithful(k)'
  BY <1>1 DEF AckInv, Storing
<1> DEFINE S == ParameterOps(d)
           n == Len(ParameterAt(d[3]))
<1>3. CommandOps(d) = S
  BY ParameterCommand
<1>4. /\ n \in 1..2 /\ Len(S) = 2 * n /\ S \in Seq(GoodOps)
      /\ \A k \in 1..n :
           S[k] = AT24CXX_WriteOneByte(ParameterAt(d[3])[k], Temp(d, k + 2))
  BY <1>2, ParameterPlan, Zenon
<1>5. Count' = n /\ Plan' = S
  BY <1>1 DEF Count, Cells, Plan
<1> HIDE DEF S, n
<1>6. TasksOK /\ "rcv" \in Tasks /\ got' \in [Tasks -> Seq(Byte)]
  BY <1>1 DEF SInv, TasksOK, Tasks
<1>7. /\ Others("rcv") /\ op'["rcv"] = Head(S) /\ todo'["rcv"] = Tail(S)
      /\ ph'["rcv"] = First(Head(S))
  BY <1>1, <1>3, <1>4, <1>6, FollowOK
<1>8. /\ Head(S) = S[1] /\ Len(Tail(S)) = Len(S) - 1
      /\ \A i \in 1..Len(Tail(S)) : Tail(S)[i] = S[i + 1]
  BY <1>1, <1>3, <1>4, HeadTailProperties
<1>9. ph'["rcv"] = "start"
  <2>1. 1 \in 1..n
    BY <1>4
  <2>2. S[1] = AT24CXX_WriteOneByte(ParameterAt(d[3])[1], Temp(d, 1 + 2))
    BY <1>4, <2>1, Zenon
  <2>3. S[1].k = "ew"
    BY <2>2 DEF AT24CXX_WriteOneByte
  <2> QED BY <1>7, <1>8, <2>3 DEF First
<1>10. Reached(1)'
  <2>1. Len(todo'["rcv"]) = 2 * n - 1
    BY <1>4, <1>7, <1>8
  <2>2. \A i \in 1..(2 * n - 1) : todo'["rcv"][i] = S[1 + i]
    <3> SUFFICES ASSUME NEW i \in 1..(2 * n - 1) PROVE todo'["rcv"][i] = S[1 + i]
      OBVIOUS
    <3>1. i + 1 = 1 + i
      BY <1>4
    <3> QED BY <1>7, <1>8, <2>1, <3>1
  <2> QED BY <1>5, <1>7, <1>8, <2>1, <2>2 DEF Reached
<1>11. Alone'
  BY <1>1, <1>7, AboveOther DEF Alone, Running, Blocked, Others, Tasks
<1>12. hits' = 0 => Clean(1)'
  <2> SUFFICES ASSUME hits' = 0 PROVE Clean(1)'
    OBVIOUS
  <2>1. ebusy' = 0 /\ Tracks'
    BY <1>1, <1>9 DEF Tracks
  <2>2. 1 <= Count' /\ \A i \in 1..(1 - 1) : Stored(i)'
    BY <1>4, <1>5
  <2> QED BY <1>9, <1>11, <2>1, <2>2 DEF Clean
<1>13. Faithful(1)'
  <2>1. 1 < Count' \/ 1 = Count'
    BY <1>4, <1>5
  <2> QED BY <1>9, <2>1 DEF Faithful
<1>14. 1 \in 1..(2 * Count')
  BY <1>4, <1>5
<1> QED BY <1>9, <1>10, <1>12, <1>13, <1>14

\* The receive task goes on with another call of its transfer.
LEMMA TransferAck ==
  ASSUME SInv, AckInv, Running("rcv"), Others("rcv"),
         UNCHANGED <<cmd, ok, hits, eeprom, ebusy>>,
         op'["rcv"] = op["rcv"], todo'["rcv"] = todo["rcv"],
         ph["rcv"] \notin {"pause", "delay", "end"},
         ph'["rcv"] \notin {"pause", "delay", "end"},
         Storing /\ ebusy = 0 /\ Tracks => Tracks'
  PROVE  AckInv'
<1> SUFFICES ASSUME Storing
             PROVE  \E k \in 1..(2 * Count') :
                       /\ Reached(k)'
                       /\ hits' = 0 => AllStored' \/ Clean(k)'
                       /\ hits' = 1 => AllStored' \/ Faithful(k)'
  BY SameCommand DEF AckInv
<1>1. PICK k \in 1..(2 * Count) :
        /\ Reached(k)
        /\ hits = 0 => AllStored \/ Clean(k)
        /\ hits = 1 => AllStored \/ Faithful(k)
  BY DEF AckInv
<1>2. Reached(k)' /\ Count' = Count
  BY <1>1, ReachedStays, SameCommand
<1>3. AllStored' = AllStored /\ \A i : Stored(i)' = Stored(i)
  BY SameCommand DEF AllStored, Stored
<1>4. Alone'
  BY AboveOther DEF Alone, Running, Blocked, Others, Tasks
<1>5. Clean(k) => Clean(k)'
  BY <1>2, <1>3, <1>4 DEF Clean
<1>6. Faithful(k) => Faithful(k)'
  <2>1. CASE k < Count \/ k = Count
    BY <1>2, <2>1 DEF Faithful
  <2>2. CASE /\ k > Count /\ Alone /\ ebusy = 0 /\ Tracks
             /\ \A i \in 1..(k - Count - 1) : Stored(i)
    BY <1>2, <1>3, <1>4, <2>2 DEF Faithful
  <2> QED BY <2>1, <2>2 DEF Faithful
<1> QED BY <1>1, <1>2, <1>3, <1>5, <1>6

\* It addresses the EEPROM.
LEMMA StartAck == ASSUME SInv, AckInv, CallStart("rcv") PROVE AckInv'
<1> DEFINE reading == ph["rcv"] = "restart"
           p == CASE reading -> "read"
                  [] ~reading /\ EepromOp("rcv") -> "hi"
                  [] OTHER -> "ptr"
           q == IF EepromOp("rcv")
                THEN CASE ebusy = 1 -> "idle"
                       [] ebusy # 1 /\ reading -> "eread"
                       [] OTHER -> "ehi"
                ELSE IF reading THEN "cread" ELSE "cptr"
<1>1. /\ Running("rcv") /\ ph["rcv"] \in {"start", "restart"}
      /\ bus' = [bus EXCEPT !.page = NoPage, !.ph = q] /\ Goto("rcv", p)
      /\ UNCHANGED <<idx, got, stage, cmdVars, chipVars, relay, clashes, loss>>
  BY DEF CallStart
<1>2. TasksOK /\ BusTypeOK /\ "rcv" \in Tasks
  BY DEF SInv, ChipsOK, Tasks
<1>3. /\ Others("rcv") /\ op'["rcv"] = op["rcv"] /\ todo'["rcv"] = todo["rcv"] /\ ph'["rcv"] = p
  <2> HIDE DEF p
  <2> QED BY <1>1, <1>2 DEF Goto, Others, TasksOK
<1>4. UNCHANGED <<cmd, ok, hits, eeprom, ebusy>>
  BY <1>1 DEF cmdVars, chipVars
<1>5. p \in {"read", "hi", "ptr"}
  OBVIOUS
<1>6. bus'.ph = q /\ bus'.page = NoPage /\ bus'.eptr = bus.eptr
  <2> HIDE DEF q
  <2> QED BY <1>1, <1>2 DEF BusTypeOK
<1>7. ASSUME Storing, ebusy = 0, Tracks PROVE Tracks'
  <2>1. EepromOp("rcv")
    <3>1. PICK k \in 1..(2 * Count) : Reached(k)
      BY <1>1, <1>7 DEF AckInv
    <3>2. op["rcv"].k \in {"ew", "er"}
      <4>1. k <= Count \/ k > Count
        BY <1>7, StoringAre
      <4> QED BY <1>7, <3>1, <4>1, ReachedOp
    <3> QED BY <3>2 DEF EepromOp
  <2>2. CASE reading
    <3>1. bus.eptr = op["rcv"].a
      BY <1>7, <2>2 DEF Tracks, Owns
    <3>2. p = "read" /\ q = "eread"
      BY <1>7, <2>1, <2>2
    <3> QED BY <1>3, <1>6, <3>1, <3>2 DEF Tracks
  <2>3. CASE ~reading
    <3>1. p = "hi" /\ q = "ehi"
      BY <1>7, <2>1, <2>3
    <3>2. Owns("rcv")'
      BY <1>3, <1>6, <2>1, <3>1 DEF Owns, EepromOp
    <3> QED BY <3>2 DEF Tracks
  <2> QED BY <2>2, <2>3
<1> HIDE DEF p, q
<1>8. ph["rcv"] \notin {"pause", "delay", "end"} /\ ph'["rcv"] \notin {"pause", "delay", "end"}
  BY <1>1, <1>3, <1>5
<1> QED BY <1>1, <1>3, <1>4, <1>7, <1>8, TransferAck

\* It sends a byte.
LEMMA ByteAck == ASSUME SInv, AckInv, CallByte("rcv") PROVE AckInv'
<1> DEFINE o == op["rcv"]
<1>1. /\ Running("rcv")
      /\ UNCHANGED <<got, stage, cmdVars, eeprom, ebusy, settled, relay, clashes, loss>>
      /\ ph["rcv"] \in {"hi", "lo", "ptr", "data"}
  BY DEF CallByte
<1>2. PICK p \in {"lo", "data", "restart", "stop"} : Goto("rcv", p)
  BY DEF CallByte
<1>3. TasksOK /\ ChipsOK /\ "rcv" \in Tasks
  BY DEF SInv, Tasks
<1>4. /\ Others("rcv") /\ op'["rcv"] = op["rcv"] /\ todo'["rcv"] = todo["rcv"] /\ ph'["rcv"] = p
  <2>1. op' = op /\ todo' = todo /\ ph' = [ph EXCEPT !["rcv"] = p]
    BY <1>2 DEF Goto
  <2>2. idx' = idx \/ idx' = [idx EXCEPT !["rcv"] = @ + 1]
    BY DEF CallByte
  <2> QED BY <1>3, <2>1, <2>2 DEF Others, TasksOK
<1>5. UNCHANGED <<cmd, ok, hits, eeprom, ebusy>> /\ UNCHANGED <<eeprom, ebusy, settled, relay>>
  BY <1>1 DEF cmdVars
<1>6. ASSUME Storing, Tracks PROVE Tracks'
  <2>1. Owns("rcv")
    BY <1>1, <1>6 DEF Tracks
  <2>2. /\ o \in GoodOps /\ PhaseFits(o, ph["rcv"], idx["rcv"]) /\ idx["rcv"] \in Nat \ {0}
        /\ o.k \in {"ew", "er"} /\ ph["rcv"] # "ptr"
    BY <1>3, <2>1 DEF TasksOK, Owns, EepromOp
  <2>3. /\ o.a \div 256 \in Byte /\ o.a % 256 \in Byte /\ Len(o.v) = 1
        /\ o.k = "ew" => o.v \in Seq(Byte)
    BY <2>2, OpParts, AddrParts
  <2>4. CASE ph["rcv"] = "hi"
    <3>1. SendByte(o.a \div 256) /\ ph'["rcv"] = "lo"
      BY <1>3, <2>4 DEF CallByte, Goto, TasksOK
    <3>2. Owns("rcv")'
      BY <1>3, <1>4, <1>5, <2>1, <2>3, <2>4, <3>1, SendKeeps
    <3> QED BY <3>2 DEF Tracks
  <2>5. CASE ph["rcv"] = "lo"
    <3>1. SendByte(o.a % 256) /\ ph'["rcv"] \in {"data", "restart"}
      BY <1>3, <2>5 DEF CallByte, Goto, TasksOK
    <3>2. Owns("rcv")'
      BY <1>3, <1>4, <1>5, <2>1, <2>3, <2>5, <3>1, SendKeeps
    <3> QED BY <3>2 DEF Tracks
  <2>6. CASE ph["rcv"] = "data"
    <3>1. o.k = "ew" /\ idx["rcv"] = 1
      BY <2>2, <2>3, <2>6 DEF PhaseFits
    <3>2. SendByte(o.v[1]) /\ ph'["rcv"] = "stop"
      BY <1>3, <2>3, <2>6, <3>1 DEF CallByte, Goto, TasksOK
    <3>3. o.v[1] \in Byte
      <4>1. 1 \in 1..Len(o.v)
        BY <2>3
      <4> QED BY <2>3, <3>1, <4>1, ElementOfSeq
    <3>4. Owns("rcv")'
      BY <1>3, <1>4, <1>5, <2>1, <2>6, <3>2, <3>3, SendKeeps
    <3> QED BY <3>4 DEF Tracks
  <2> QED BY <1>1, <2>2, <2>4, <2>5, <2>6
<1>7. ph["rcv"] \notin {"pause", "delay", "end"} /\ ph'["rcv"] \notin {"pause", "delay", "end"}
  BY <1>1, <1>4
<1> QED BY <1>1, <1>4, <1>5, <1>6, <1>7, TransferAck

\* It ends a write.
LEMMA StopAck == ASSUME SInv, AckInv, CallStop("rcv") PROVE AckInv'
<1>1. /\ Running("rcv") /\ ph["rcv"] = "stop" /\ cmd' = cmd /\ ok' = ok /\ hits' = hits
  BY DEF CallStop, cmdVars
<1> SUFFICES ASSUME Storing PROVE AckInv'
  BY <1>1, SameCommand DEF AckInv
<1>2. PICK k \in 1..(2 * Count) :
        /\ Reached(k)
        /\ hits = 0 => AllStored \/ Clean(k)
        /\ hits = 1 => AllStored \/ Faithful(k)
  BY <1>1 DEF AckInv
<1>3. TasksOK /\ "rcv" \in Tasks /\ PhaseFits(op["rcv"], ph["rcv"], idx["rcv"])
  BY DEF SInv, TasksOK, Tasks
<1>4. k <= Count /\ Count \in 1..2 /\ op["rcv"].k = "ew"
  <2>1. op["rcv"].k \in {"ew", "cw"}
    BY <1>1, <1>3 DEF PhaseFits
  <2>2. Count \in 1..2 /\ (k > Count => op["rcv"].k = "er")
    BY <1>2, ReachedOp
  <2>3. k <= Count
    BY <2>1, <2>2
  <2> QED BY <1>2, <2>2, <2>3, ReachedOp
<1>5. /\ Others("rcv") /\ op'["rcv"] = op["rcv"] /\ todo'["rcv"] = todo["rcv"]
      /\ ph'["rcv"] = "pause"
  <2>1. Goto("rcv", "pause") /\ idx' = idx
    BY <1>4 DEF CallStop
  <2> QED BY <1>3, <2>1 DEF Goto, Others, TasksOK
<1>6. Kept /\ (Owns("rcv") => Stored(k)')
  BY <1>1, <1>2, <1>4, RcvKeeps
<1>7. Reached(k)' /\ Count' = Count /\ Storing'
  BY <1>1, <1>2, <1>5, ReachedStays, SameCommand
<1>8. Alone'
  BY <1>1, <1>5, AboveOther DEF Alone, Running, Blocked, Others, Tasks
<1>9. Clean(k) => Clean(k)'
  <2> SUFFICES ASSUME Clean(k) PROVE Clean(k)'
    OBVIOUS
  <2>1. Owns("rcv")
    BY <1>1 DEF Clean, Tracks
  <2>2. \A i \in 1..(k - 1) : Stored(i)'
    <3>1. \A i \in 1..(k - 1) : i \in 1..Count
      BY <1>4
    <3> QED BY <1>6, <3>1 DEF Clean, Kept
  <2> QED BY <1>4, <1>5, <1>6, <1>7, <1>8, <2>1, <2>2 DEF Clean
<1>10. Faithful(k)'
  <2>1. k < Count \/ k = Count
    BY <1>4
  <2> QED BY <1>5, <1>7, <2>1 DEF Faithful
<1>11. AllStored => AllStored'
  BY <1>1, <1>6, KeptAll
<1> QED BY <1>1, <1>2, <1>5, <1>7, <1>9, <1>10, <1>11 DEF AckInv

\* It goes to sleep after the write.
LEMMA DelayAck == ASSUME SInv, AckInv, CallDelay("rcv") PROVE AckInv'
<1>1. /\ Running("rcv") /\ ph["rcv"] = "pause" /\ Goto("rcv", "delay")
      /\ settled' = (IF ebusy = 1 THEN settled \cup {"rcv"} ELSE settled)
      /\ UNCHANGED <<idx, cmd, ok, hits, eeprom, ebusy>>
  BY DEF CallDelay, cmdVars
<1> SUFFICES ASSUME Storing PROVE AckInv'
  BY <1>1, SameCommand DEF AckInv
<1>2. PICK k \in 1..(2 * Count) :
        /\ Reached(k)
        /\ hits = 0 => AllStored \/ Clean(k)
        /\ hits = 1 => AllStored \/ Faithful(k)
  BY <1>1 DEF AckInv
<1>3. TasksOK /\ "rcv" \in Tasks
  BY DEF SInv, Tasks
<1>4. /\ Others("rcv") /\ op'["rcv"] = op["rcv"] /\ todo'["rcv"] = todo["rcv"]
      /\ ph'["rcv"] = "delay"
  BY <1>1, <1>3 DEF Goto, Others, TasksOK
<1>5. Reached(k)' /\ Count' = Count /\ Storing'
  BY <1>1, <1>2, <1>4, ReachedStays, SameCommand
<1>6. AllStored' = AllStored /\ \A i : Stored(i)' = Stored(i)
  BY <1>1, SameCommand DEF AllStored, Stored
<1>7. Alone' /\ Rested'
  BY <1>1, <1>4, AboveOther DEF Alone, Running, Blocked, Others, Tasks, Rested
<1>8. Clean(k) => Clean(k)'
  BY <1>1, <1>4, <1>5, <1>6, <1>7 DEF Clean
<1>9. Faithful(k) => Faithful(k)'
  <2>1. ~Tracks
    BY <1>1 DEF Tracks, Owns
  <2> QED BY <1>5, <1>7, <2>1 DEF Faithful
<1> QED BY <1>1, <1>2, <1>4, <1>5, <1>6, <1>8, <1>9 DEF AckInv

\* It wakes up; the write cycle is over.
LEMMA WakeAck == ASSUME SInv, AckInv, DelayOver("rcv") PROVE AckInv'
<1>1. /\ ph["rcv"] = "delay" /\ ~(ebusy = 1 /\ "rcv" \in settled)
      /\ Follow("rcv", todo["rcv"])
      /\ UNCHANGED <<got, cmd, ok, hits, eeprom, ebusy>>
  BY DEF DelayOver
<1> SUFFICES ASSUME Storing PROVE AckInv'
  BY <1>1, SameCommand DEF AckInv
<1>2. PICK k \in 1..(2 * Count) :
        /\ Reached(k)
        /\ hits = 0 => AllStored \/ Clean(k)
        /\ hits = 1 => AllStored \/ Faithful(k)
  BY <1>1 DEF AckInv
<1>3. got' \in [Tasks -> Seq(Byte)]
  BY <1>1 DEF SInv, TasksOK
<1>4. /\ Others("rcv")
      /\ k < 2 * Count => Reached(k + 1)' /\ ph'["rcv"] = "start" /\ k + 1 \in 1..(2 * Count)
      /\ k = 2 * Count => ph'["rcv"] = "end"
  BY <1>1, <1>2, <1>3, Advance
<1>5. Count' = Count /\ Storing' /\ Count \in 1..2 /\ k \in 1..(2 * Count)
  BY <1>1, SameCommand, StoringAre
<1>6. AllStored' = AllStored /\ \A i : Stored(i)' = Stored(i)
  BY <1>1, SameCommand DEF AllStored, Stored
<1>7. ebusy \in {0, 1}
  BY DEF SInv, ChipsOK
<1>8. Alone => Alone'
  BY <1>4, AboveOther DEF Alone, Blocked, Others, Tasks
<1>9. ~Tracks
  BY <1>1 DEF Tracks, Owns
<1>10. ASSUME Clean(k) PROVE AllStored \/ (k < Count /\ Clean(k + 1)')
  <2>1. k <= Count /\ Stored(k) /\ Alone /\ \A i \in 1..(k - 1) : Stored(i)
    BY <1>1, <1>10 DEF Clean
  <2>2. \A i \in 1..k : Stored(i)
    <3>1. \A i \in 1..k : i = k \/ i \in 1..(k - 1)
      BY <1>5
    <3> QED BY <2>1, <3>1
  <2>3. CASE k = Count
    BY <2>2, <2>3 DEF AllStored
  <2>4. CASE k < Count
    <3>1. ebusy' = 0
      BY <1>1, <1>7, <1>10 DEF Clean, Rested
    <3>2. ph'["rcv"] = "start" /\ Tracks'
      BY <1>4, <1>5, <2>4 DEF Tracks
    <3>3. k + 1 <= Count' /\ (k + 1) - 1 = k
      BY <1>5, <2>4
    <3>4. \A i \in 1..((k + 1) - 1) : Stored(i)'
      BY <1>6, <2>2, <3>3
    <3>5. Clean(k + 1)'
      BY <1>8, <2>1, <3>1, <3>2, <3>3, <3>4 DEF Clean
    <3> QED BY <2>4, <3>5
  <2> QED BY <1>5, <2>1, <2>3, <2>4
<1>11. ASSUME Faithful(k) PROVE k < 2 * Count /\ Faithful(k + 1)'
  <2>1. k < Count \/ (k = Count /\ Alone /\ Rested)
    BY <1>1, <1>9, <1>11 DEF Faithful
  <2>2. k < 2 * Count
    BY <1>5, <2>1
  <2>3. ph'["rcv"] = "start" /\ Tracks'
    BY <1>4, <2>2 DEF Tracks
  <2>4. CASE k < Count
    <3>1. k + 1 < Count' \/ k + 1 = Count'
      BY <1>5, <2>4
    <3> QED BY <2>2, <2>3, <3>1 DEF Faithful
  <2>5. CASE k = Count /\ Alone /\ Rested
    <3>1. ebusy' = 0 /\ Alone'
      BY <1>1, <1>7, <1>8, <2>5 DEF Rested
    <3>2. k + 1 > Count' /\ \A i \in 1..((k + 1) - Count' - 1) : Stored(i)'
      BY <1>5, <2>5
    <3> QED BY <2>2, <2>3, <3>1, <3>2 DEF Faithful
  <2> QED BY <2>1, <2>4, <2>5
<1>12. CASE k = 2 * Count
  <2>1. ~(k < Count) /\ ~(k < 2 * Count)
    BY <1>5, <1>12
  <2>2. hits \in {0, 1} => AllStored
    BY <1>2, <1>10, <1>11, <2>1
  <2>3. hits <= 1 => hits \in {0, 1}
    BY DEF SInv, RestOK, MaxHits
  <2> QED BY <1>1, <1>4, <1>5, <1>6, <1>12, <2>2, <2>3 DEF AckInv
<1>13. CASE k < 2 * Count
  <2>1. Reached(k + 1)' /\ ph'["rcv"] = "start" /\ k + 1 \in 1..(2 * Count')
    BY <1>4, <1>5, <1>13
  <2>2. /\ hits' = 0 => AllStored' \/ Clean(k + 1)'
        /\ hits' = 1 => AllStored' \/ Faithful(k + 1)'
    BY <1>1, <1>2, <1>6, <1>10, <1>11
  <2> QED BY <1>5, <2>1, <2>2 DEF AckInv
<1> QED BY <1>5, <1>12, <1>13

\* It compares a byte it has stored with what the EEPROM holds.
LEMMA ReadAck == ASSUME SInv, AckInv, CallRead("rcv") PROVE AckInv'
<1> DEFINE want == op["rcv"].v[idx["rcv"]]
<1>1. /\ Running("rcv") /\ ph["rcv"] = "read" /\ UNCHANGED <<cmd, hits, eeprom, ebusy>>
  BY DEF CallRead, chipVars
<1> SUFFICES ASSUME Storing PROVE AckInv'
  BY <1>1, SameCommand DEF AckInv
<1>2. PICK k \in 1..(2 * Count) :
        /\ Reached(k)
        /\ hits = 0 => AllStored \/ Clean(k)
        /\ hits = 1 => AllStored \/ Faithful(k)
  BY <1>1 DEF AckInv
<1>3. /\ TasksOK /\ "rcv" \in Tasks /\ PhaseFits(op["rcv"], ph["rcv"], idx["rcv"])
      /\ idx["rcv"] \in Nat \ {0} /\ <<>> \in Seq(GoodOps)
  BY DEF SInv, TasksOK, Tasks
<1>4. Count' = Count /\ Storing' /\ Count \in 1..2 /\ k \in 1..(2 * Count)
  BY <1>1, SameCommand, StoringAre
<1>5. k > Count /\ Len(op["rcv"].v) = 1
  <2>1. op["rcv"].k \in {"er", "cr"}
    BY <1>1, <1>3 DEF PhaseFits
  <2>2. (k <= Count => op["rcv"].k = "ew") /\ Len(op["rcv"].v) = 1
    BY <1>2, ReachedOp
  <2>3. ~(k <= Count)
    BY <2>1, <2>2
  <2> QED BY <1>4, <2>2, <2>3
<1>6. idx["rcv"] = 1
  BY <1>1, <1>3, <1>5 DEF PhaseFits
<1> DEFINE j == k - Count
<1>7. op["rcv"].a = Cells[j] /\ want = Given(j) /\ j \in 1..Count
  BY <1>2, <1>4, <1>5, <1>6, ReachedOp
<1>8. Cells[j] \in Addrs /\ Given(j) \in Byte
  BY <1>7, StoringAre
<1>9. want # AnyByte
  BY <1>7, <1>8 DEF AnyByte, Byte
<1>10. got' \in [Tasks -> Seq(Byte)]
  <2>1. SInv'
    BY <1>3, ReadStep
  <2> QED BY <2>1 DEF SInv, TasksOK
<1> HIDE DEF want
<1>11. \/ want # BusByte /\ ok' = 0 /\ Follow("rcv", <<>>)
       \/ want = BusByte /\ Follow("rcv", todo["rcv"]) /\ ok' = ok
  BY <1>5, <1>6, <1>9 DEF CallRead, want
<1>12. CASE want # BusByte /\ ok' = 0 /\ Follow("rcv", <<>>)
  <2>1. ph'["rcv"] = "end"
    BY <1>3, <1>10, <1>12, FollowOK
  <2> QED BY <1>12, <2>1 DEF AckInv
<1>13. CASE want = BusByte /\ Follow("rcv", todo["rcv"]) /\ ok' = ok
  <2>1. /\ Others("rcv")
        /\ k < 2 * Count => Reached(k + 1)' /\ ph'["rcv"] = "start" /\ k + 1 \in 1..(2 * Count)
        /\ k = 2 * Count => ph'["rcv"] = "end"
    BY <1>1, <1>2, <1>10, <1>13, Advance
  <2>2. AllStored' = AllStored /\ \A i : Stored(i)' = Stored(i)
    BY <1>1, SameCommand DEF AllStored, Stored
  <2>3. Alone'
    BY <1>1, <2>1, AboveOther DEF Alone, Running, Blocked, Others, Tasks
  <2>4. ~Clean(k)
    BY <1>4, <1>5 DEF Clean
  <2>5. ASSUME Faithful(k) PROVE ebusy = 0 /\ \A i \in 1..j : Stored(i)
    <3>1. Alone /\ ebusy = 0 /\ Tracks /\ \A i \in 1..(j - 1) : Stored(i)
      BY <1>4, <1>5, <2>5 DEF Faithful
    <3>2. bus.ph = "eread" /\ bus.eptr = Cells[j]
      BY <1>1, <1>7, <3>1 DEF Tracks, Owns
    <3>3. BusByte = eeprom[Cells[j]]
      BY <1>8, <3>2 DEF BusByte
    <3>4. Stored(j)
      BY <1>7, <1>13, <3>3 DEF Stored
    <3>5. \A i \in 1..j : i = j \/ i \in 1..(j - 1)
      BY <1>7
    <3> HIDE DEF j
    <3> QED BY <3>1, <3>4, <3>5
  <2>6. CASE k = 2 * Count
    <3>1. j = Count
      BY <1>4, <2>6
    <3>2. hits \in {0, 1} => AllStored
      BY <1>2, <2>4, <2>5, <3>1 DEF AllStored
    <3>3. hits <= 1 => hits \in {0, 1}
      BY DEF SInv, RestOK, MaxHits
    <3> QED BY <1>1, <1>4, <2>1, <2>2, <2>6, <3>2, <3>3 DEF AckInv
  <2>7. CASE k < 2 * Count
    <3>1. Reached(k + 1)' /\ ph'["rcv"] = "start" /\ k + 1 \in 1..(2 * Count') /\ Tracks'
      BY <1>4, <2>1, <2>7 DEF Tracks
    <3>2. Faithful(k) => Faithful(k + 1)'
      <4>1. k + 1 > Count' /\ (k + 1) - Count' - 1 = j
        BY <1>4, <1>5
      <4>2. Faithful(k) => \A i \in 1..((k + 1) - Count' - 1) : Stored(i)'
        BY <2>2, <2>5, <4>1
      <4> QED BY <1>1, <2>3, <2>5, <3>1, <4>1, <4>2 DEF Faithful
    <3>3. /\ hits' = 0 => AllStored' \/ Clean(k + 1)'
          /\ hits' = 1 => AllStored' \/ Faithful(k + 1)'
      BY <1>1, <1>2, <2>2, <2>4, <3>2
    <3> QED BY <1>4, <3>1, <3>3 DEF AckInv
  <2> QED BY <1>4, <2>6, <2>7
<1> QED BY <1>11, <1>12, <1>13

\* It never touches the relay.
LEMMA GpioAck == ASSUME SInv, AckInv, CallGpio("rcv") PROVE AckInv'
<1>1. ph["rcv"] = "gpio" /\ cmd' = cmd
  BY DEF CallGpio
<1> SUFFICES ASSUME Storing PROVE FALSE
  BY <1>1, SameCommand DEF AckInv
<1>2. PICK k \in 1..(2 * Count) : Reached(k)
  BY <1>1 DEF AckInv
<1>3. PhaseFits(op["rcv"], ph["rcv"], idx["rcv"])
  BY DEF SInv, TasksOK, Tasks
<1>4. op["rcv"].k \in {"relay", "status"}
  BY <1>1, <1>3 DEF PhaseFits
<1>5. k <= Count \/ k > Count
  BY StoringAre
<1> QED BY <1>2, <1>4, <1>5, ReachedOp

\* A call of a task above it.
LEMMA CallOther ==
  ASSUME SInv, LowInv, AckInv, NEW t \in Tasks \ {"rcv"}, Step(t) PROVE AckInv'
<1>1. Running(t)
  BY DEF Step, CallStart, CallByte, CallStop, CallRead, CallDelay, CallGpio
<1>2. ~Alone
  BY <1>1 DEF Alone, Running, Above, Tasks
<1>3. cmd' = cmd /\ hits' = hits
  BY DEF Step, CallStart, CallByte, CallStop, CallRead, CallDelay, CallGpio, cmdVars
<1>4. ok' \in {ok, 0}
  BY DEF Step, CallStart, CallByte, CallStop, CallRead, CallDelay, CallGpio, cmdVars
<1>5. op'["rcv"] = op["rcv"] /\ ph'["rcv"] = ph["rcv"] /\ todo'["rcv"] = todo["rcv"]
  <2>1. (\E p : Goto(t, p)) \/ (\E s : Follow(t, s))
    BY DEF Step, CallStart, CallByte, CallStop, CallRead, CallDelay, CallGpio
  <2> QED BY <2>1 DEF Goto, Follow, SInv, TasksOK, Tasks
<1>6. CASE Storing
  <2>1. Kept
    <3>1. CASE CallStop(t)
      BY <1>3, <1>6, <3>1, OthersKeep
    <3>2. CASE ~CallStop(t)
      <4>1. eeprom' = eeprom
        BY <3>2 DEF Step, CallStart, CallByte, CallRead, CallDelay, CallGpio, chipVars
      <4> QED BY <1>3, <4>1, CellsUnchanged
    <3> QED BY <3>1, <3>2
  <2> QED BY <1>2, <1>3, <1>4, <1>5, <2>1, OtherStep DEF RcvRests
<1>7. CASE ~Storing
  BY <1>3, <1>7, SameCommand DEF AckInv
<1> QED BY <1>6, <1>7

\* A task above it begins something.
LEMMA NextOther ==
  ASSUME SInv, AckInv, LcdNext \/ RtcNext \/ UartNext PROVE AckInv'
<1>1. UNCHANGED <<cmd, ok, hits, eeprom>>
  BY DEF LcdNext, RtcNext, UartNext, cmdVars, chipVars
<1>2. PICK t \in Tasks \ {"rcv"} :
        /\ Running(t)
        /\ \/ \E s : Follow(t, s)
           \/ ph' = [ph EXCEPT ![t] = "off"] /\ UNCHANGED <<op, todo>>
  BY DEF LcdNext, RtcNext, UartNext, Begin, Tasks
<1>3. ~Alone
  BY <1>2 DEF Alone, Running, Above, Tasks
<1>4. RcvRests
  BY <1>1, <1>2 DEF RcvRests, Follow, SInv, TasksOK, Tasks
<1>5. Kept
  BY <1>1, CellsUnchanged
<1> QED BY <1>1, <1>3, <1>4, <1>5, OtherStep

LEMMA AckInit == Init => AckInv
BY DEF Init, AckInv, Storing

LEMMA AckKept == SInv /\ LowInv /\ AckInv /\ [Next]_vars => AckInv'
<1> SUFFICES ASSUME SInv, LowInv, AckInv, [Next]_vars PROVE AckInv'
  OBVIOUS
<1>1. CASE UNCHANGED vars
  <2>1. UNCHANGED <<op, ph, todo, cmd, ok, hits, bus, eeprom, ebusy, settled>>
    BY <1>1 DEF vars, taskVars, cmdVars, chipVars
  <2>2. /\ Storing' = Storing /\ Count' = Count /\ AllStored' = AllStored
        /\ \A i : Stored(i)' = Stored(i)
        /\ \A k : Reached(k)' = Reached(k)
    BY <2>1, SameCommand DEF AllStored, Stored, Reached
  <2>3. Alone' = Alone /\ Tracks' = Tracks /\ Rested' = Rested
    BY <2>1 DEF Alone, Blocked, Tracks, Owns, EepromOp, Rested
  <2>4. \A k : (Clean(k) => Clean(k)') /\ (Faithful(k) => Faithful(k)')
    BY <2>1, <2>2, <2>3 DEF Clean, Faithful
  <2> QED BY <2>1, <2>2, <2>4 DEF AckInv
<1>2. CASE PowerLoss \/ RcvAnswer
  <2>1. cmd' = NoCmd
    BY <1>2 DEF PowerLoss, RcvAnswer
  <2> QED BY <2>1 DEF AckInv, Storing
<1>3. CASE Step("rcv")
  BY <1>3, StartAck, ByteAck, StopAck, ReadAck, DelayAck, GpioAck DEF Step
<1>4. ASSUME NEW t \in Tasks, DelayOver(t) PROVE AckInv'
  BY <1>4, WakeAck, HitStep
<1>5. \A t \in {"lcd", "rtc", "uart1"} : t \in Tasks \ {"rcv"}
  BY DEF Tasks
<1> QED
  BY <1>1, <1>2, <1>3, <1>4, <1>5, CallOther, NextOther, CommandAck, CycleAck
  DEF Next, LcdStep, RtcStep, UartStep, RcvStep
-----------------------------------------------------------------------------
(***************************************************************************)
(* The theorems.                                                           *)
(***************************************************************************)
\* The inductive invariant: the tasks make the calls their operations consist
\* of, and an EEPROM that is addressed belongs to one task.
THEOREM StoreInvariant == Spec => []SInv
<1> QED BY StoreInit, StoreStep, PTL DEF Spec

\* Every variable keeps its type; in particular exrtc_save never stores a date
\* with a byte missing, and no byte outside 0..255 reaches a chip.
THEOREM StoreTypeCorrect == Spec => []StoreTypeOK
<1>1. SInv => StoreTypeOK
  <2> SUFFICES ASSUME SInv PROVE StoreTypeOK
    OBVIOUS
  <2>1. /\ op \in [Tasks -> Op] /\ todo \in [Tasks -> Seq(Op)]
    <3>1. GoodOps \subseteq Op
      BY DEF GoodOps
    <3>2. Seq(GoodOps) \subseteq Seq(Op)
      BY <3>1, SeqMonotonic
    <3> QED BY <3>1, <3>2 DEF SInv, TasksOK
  <2>2. cmd \in Datagrams \cup {NoCmd}
    BY DEF SInv, RestOK, Datagrams
  <2>3. /\ bus.ph \in BusPhases /\ bus.hi \in Byte /\ bus.eptr \in Addr16
        /\ bus.cptr \in Byte
    BY DEF SInv, ChipsOK, BusTypeOK
  <2> QED BY <2>1, <2>2, <2>3 DEF SInv, TasksOK, ChipsOK, RestOK, StoreTypeOK, BusPhases
<1> QED BY <1>1, StoreInvariant, PTL

\* A damaged datagram is never executed: Data_Handle's check byte finds one
\* changed byte wherever it is, for every command and every length.
THEOREM IntactCommands == Spec => []OnlyIntactCommands
<1>1. SInv => OnlyIntactCommands
  BY DEF SInv, RestOK, OnlyIntactCommands
<1> QED BY <1>1, StoreInvariant, PTL

\* Every answer fits UDPAck and passes the test Data_Handle applies to a frame.
THEOREM AnswersWellFormed == Spec => []AckWellFormed
<1>1. SInv => AckWellFormed
  BY DEF SInv
<1> QED BY <1>1, StoreInvariant, PTL

\* Whatever task is preempted at whatever call of a transfer, a cell of the
\* EEPROM changes only at the end of AT24CXX_WriteOneByte for that cell, to the
\* byte given there.
THEOREM NoStrayWrites == Spec => NoStrayWrite
<1> DEFINE Written == \E t \in Tasks :
                        /\ Running(t) /\ op[t].k = "ew" /\ ph[t] = "stop"
                        /\ eeprom' = [eeprom EXCEPT ![op[t].a] = op[t].v[1]]
<1>1. SInv /\ [Next]_vars => (eeprom' # eeprom => Written)
  <2> SUFFICES ASSUME SInv, [Next]_vars, eeprom' # eeprom PROVE Written
    OBVIOUS
  <2>1. ASSUME NEW t \in Tasks, CallStop(t) PROVE Written
    <3>1. Running(t) /\ ph[t] = "stop"
      BY <2>1 DEF CallStop
    <3>2. op[t].k = "ew" /\ eeprom' = [eeprom EXCEPT ![op[t].a] = op[t].v[1]]
      BY <2>1, StopWrites DEF SInv
    <3> QED BY <3>1, <3>2
  <2>2. ASSUME NEW t \in Tasks, Step(t) PROVE Written
    <3>1. CallStop(t)
      BY <2>2 DEF Step, CallStart, CallByte, CallRead, CallDelay, CallGpio, chipVars
    <3> QED BY <2>1, <3>1
  <2>3. \A t \in {"lcd", "rtc", "uart1", "rcv"} : t \in Tasks
    BY DEF Tasks
  <2>4. ~(\E t \in Tasks : DelayOver(t)) /\ ~CycleOver /\ ~PowerLoss
    BY DEF DelayOver, CycleOver, PowerLoss
  <2>5. ~LcdNext /\ ~RtcNext /\ ~UartNext /\ ~RcvAnswer
    BY DEF LcdNext, RtcNext, UartNext, RcvAnswer, chipVars
  <2>6. ~UNCHANGED vars /\ ~(\E d \in Datagrams : RcvCommand(d))
    BY DEF vars, RcvCommand, chipVars
  <2> QED BY <2>2, <2>3, <2>4, <2>5, <2>6 DEF Next, LcdStep, RtcStep, UartStep, RcvStep
<1>2. SInv /\ [Next]_vars =>
        [eeprom' # eeprom =>
           \E t \in Tasks :
             /\ Running(t)
             /\ op[t].k = "ew"
             /\ ph[t] = "stop"
             /\ eeprom' = [eeprom EXCEPT ![op[t].a] = op[t].v[1]]]_vars
  BY <1>1
<1> QED BY <1>2, StoreInvariant, PTL DEF Spec, NoStrayWrite

\* A parameter command answers that it succeeded only when its bytes are in the
\* EEPROM, even if one preemption at any call, or one write cycle that had not
\* ended when it began, hit it: what is lost in the writing is found when the
\* bytes are read back.
THEOREM VerifiedAnswers == Spec => []VerifiedAck
<1>1. Spec => [](SInv /\ LowInv)
  <2>1. Init => LowInv
    BY LowInit
  <2>2. LowInv /\ SInv /\ SInv' /\ [Next]_vars => LowInv'
    BY LowKept
  <2> QED BY <2>1, <2>2, StoreInvariant, PTL DEF Spec
<1>2. Spec => []AckInv
  BY <1>1, AckInit, AckKept, PTL DEF Spec
<1>3. AckInv => VerifiedAck
  BY DEF AckInv, VerifiedAck, Storing, AllStored, Stored, Cells, Count, Given
<1> QED BY <1>2, <1>3, PTL
=============================================================================
