--------------------------- MODULE FrontPanelProofs ---------------------------
(***************************************************************************)
(* Proofs about FrontPanel: its variables keep their types, whatever a        *)
(* preempted transfer leaves in the display controller, the button keeps its  *)
(* promises inside the composed system, the icon tells the state of the       *)
(* network, and a complete screen shows what it was made from.               *)
(***************************************************************************)
EXTENDS FrontPanel, KeyScanProofs, SumProofs

Bits == {0, 1}
Ram  == [Used -> SUBSET COMs]
-----------------------------------------------------------------------------
(***************************************************************************)
(* The controller.                                                         *)
(***************************************************************************)
\* A bit of an address is a bit.
LEMMA BitType == ASSUME NEW n \in Nat, NEW i \in 0..5 PROVE Bit(n, i) \in Bits
<1> DEFINE d == <<1, 2, 4, 8, 16, 32>>[i + 1]
<1>1. d \in Nat \ {0}
  OBVIOUS
<1> HIDE DEF d
<1>2. n \div d \in Int
  BY <1>1
<1> DEFINE e == n \div d
<1> HIDE DEF e
<1>3. e % 2 \in {0, 1}
  BY <1>2 DEF e
<1> QED BY <1>3 DEF Bit, Bits, d, e

\* A transfer is 13 bits.
LEMMA TransferType ==
  ASSUME NEW addr \in Nat, NEW coms
  PROVE  W1622_q(addr, coms) \in Seq(Bits) /\ Len(W1622_q(addr, coms)) = 13
<1> DEFINE a == [i \in 1..6 |-> Bit(addr, 6 - i)]
           d == [i \in 1..4 |-> IF 4 * (addr % 2) + i - 1 \in coms THEN 1 ELSE 0]
           c == <<1, 0, 1>>
<1>1. a \in Seq(Bits) /\ Len(a) = 6
  <2>1. \A i \in 1..6 : 6 - i \in 0..5
    OBVIOUS
  <2>2. \A i \in 1..6 : Bit(addr, 6 - i) \in Bits
    BY <2>1, BitType
  <2> QED BY <2>2
<1>2. d \in Seq(Bits) /\ Len(d) = 4
  BY DEF Bits
<1>3. c \in Seq(Bits) /\ Len(c) = 3
  BY DEF Bits
<1> HIDE DEF a, c, d
<1>4. c \o a \in Seq(Bits) /\ Len(c \o a) = 9
  <2>1. c \o a \in Seq(Bits) /\ Len(c \o a) = Len(c) + Len(a)
    BY <1>1, <1>3, ConcatProperties
  <2> QED BY <1>1, <1>3, <2>1
<1>5. (c \o a) \o d \in Seq(Bits) /\ Len((c \o a) \o d) = 13
  <2>1. (c \o a) \o d \in Seq(Bits) /\ Len((c \o a) \o d) = Len(c \o a) + Len(d)
    BY <1>2, <1>4, ConcatProperties
  <2> QED BY <1>2, <1>4, <2>1
<1> QED BY <1>5 DEF W1622_q, a, c, d

\* The address of a transfer is a number.
LEMMA AddrType == ASSUME NEW bits \in Seq(Bits), Len(bits) >= 9 PROVE Addr(bits) \in Int
<1> DEFINE Q(f) == f = [i \in 0..6 |-> IF i = 0 THEN 0 ELSE 2 * f[i - 1] + bits[3 + i]]
           v == CHOOSE f : Q(f)
           G == [i \in 1..6 |-> [x \in Int |-> 2 * x + bits[3 + i]]]
<1>1. \A i \in 1..6 : bits[3 + i] \in Int
  <2> TAKE i \in 1..6
  <2>1. 3 + i \in 1..Len(bits)
    OBVIOUS
  <2> QED BY <2>1, ElementOfSeq DEF Bits
<1>2. G \in [1..6 -> [Int -> Int]]
  <2>1. \A i \in 1..6 : \A x \in Int : 2 * x + bits[3 + i] \in Int
    BY <1>1
  <2> QED BY <2>1
<1>3. PICK f : Recursive(f, 6, Int, 0, G)
  <2> HIDE DEF G
  <2>1. 6 \in Nat /\ 0 \in Int
    OBVIOUS
  <2> QED BY <1>2, <2>1, RecExists, Zenon
<1>4. \A i \in 1..6 : f[i] = 2 * f[i - 1] + bits[3 + i]
  <2> TAKE i \in 1..6
  <2>1. i - 1 \in 0..6
    OBVIOUS
  <2>2. f[i - 1] \in Int
    <3> HIDE DEF G
    <3> QED BY <1>3, <2>1 DEF Recursive
  <2> QED BY <1>3, <2>2 DEF Recursive
<1>5. Q(f)
  BY <1>3, <1>4 DEF Recursive
<1>6. Q(v)
  <2> HIDE DEF Q
  <2> QED BY <1>5
<1>7. Addr(bits) = v[6]
  BY DEF Addr
<1> HIDE DEF v
<1>8. v[0] = 0 /\ \A i \in 1..6 : v[i] = 2 * v[i - 1] + bits[3 + i]
  BY <1>6
<1> DEFINE T == {m \in Nat : m <= 6 => v[m] \in Int}
<1>9. T = Nat
  <2>1. T \in SUBSET Nat /\ 0 \in T
    BY <1>8
  <2>2. ASSUME NEW m \in T PROVE m + 1 \in T
    <3> SUFFICES ASSUME m + 1 <= 6 PROVE v[m + 1] \in Int
      OBVIOUS
    <3>1. m + 1 \in 1..6 /\ (m + 1) - 1 = m /\ v[m] \in Int
      OBVIOUS
    <3>2. v[m + 1] = 2 * v[m] + bits[3 + (m + 1)] /\ bits[3 + (m + 1)] \in Int
      BY <1>1, <1>8, <3>1
    <3>3. \A x, y \in Int : 2 * x + y \in Int
      OBVIOUS
    <3> HIDE DEF T
    <3> QED BY <3>1, <3>2, <3>3
  <2> HIDE DEF T
  <2> QED BY <2>1, <2>2, SetInduction
<1>10. v[6] \in Int
  BY <1>9
<1> QED BY <1>7, <1>10

\* Four bits stored at any address leave a display of eight COMs per SEG.
LEMMA LatchType ==
  ASSUME NEW p \in Ram, NEW addr \in Int, NEW four
  PROVE  Latch(p, addr, four) \in Ram
<1> DEFINE seg  == addr \div 2
           base == 4 * (addr % 2)
<1>1. base \in {0, 4}
  OBVIOUS
<1> HIDE DEF base, seg
<1> DEFINE new == (p[seg] \ (base..(base + 3)))
                  \cup {base + i - 1 : i \in {j \in 1..4 : four[j] = 1}}
<1>2. CASE seg \in Used
  <2>1. p[seg] \subseteq 0..7
    BY <1>2 DEF Ram, COMs
  <2>2. {base + i - 1 : i \in {j \in 1..4 : four[j] = 1}} \subseteq 0..7
    BY <1>1
  <2>3. new \in SUBSET COMs
    BY <2>1, <2>2 DEF COMs
  <2>4. [p EXCEPT ![seg] = new] \in Ram
    BY <2>3 DEF Ram
  <2>5. Latch(p, addr, four) = [p EXCEPT ![seg] = new]
    BY <1>2 DEF Latch, Ram, base, seg
  <2> QED BY <2>4, <2>5
<1>3. CASE seg \notin Used
  BY <1>3 DEF Latch, Ram, base, seg
<1> QED BY <1>2, <1>3

\* Whatever bits were clocked in, the controller still has a display.
LEMMA StoredType ==
  ASSUME NEW p \in Ram, NEW bits \in Seq(Bits)
  PROVE  Stored(p, bits) \in Ram
<1>1. CASE Len(bits) < 9 \/ SubSeq(bits, 1, 3) # <<1, 0, 1>>
  BY <1>1 DEF Stored
<1>2. CASE ~(Len(bits) < 9 \/ SubSeq(bits, 1, 3) # <<1, 0, 1>>)
  <2> DEFINE n == (Len(bits) - 9) \div 4
             L(r, i) == Latch(r, (Addr(bits) + i - 1) % 64,
                              SubSeq(bits, 9 + 4 * i - 3, 9 + 4 * i))
             Q(f) == f = [i \in 0..n |-> IF i = 0 THEN p ELSE L(f[i - 1], i)]
             q == CHOOSE f : Q(f)
             G == [i \in 1..n |-> [r \in Ram |-> L(r, i)]]
  <2>1. Stored(p, bits) = q[n]
    BY <1>2 DEF Stored
  <2>2. Len(bits) >= 9 /\ Len(bits) \in Nat
    BY <1>2
  <2>3. n \in Nat
    BY <2>2
  <2> HIDE DEF n
  <2>4. Addr(bits) \in Int
    BY <2>2, AddrType
  <2>5. \A r \in Ram : \A i \in 1..n : L(r, i) \in Ram
    <3> TAKE r \in Ram
    <3> TAKE i \in 1..n
    <3>1. (Addr(bits) + i - 1) % 64 \in Int
      BY <2>3, <2>4
    <3> QED BY <3>1, LatchType
  <2> HIDE DEF L
  <2>6. G \in [1..n -> [Ram -> Ram]]
    BY <2>5
  <2>7. PICK f : Recursive(f, n, Ram, p, G)
    <3> HIDE DEF G
    <3> QED BY <2>3, <2>6, RecExists
  <2>8. \A i \in 1..n : f[i] = L(f[i - 1], i)
    <3> TAKE i \in 1..n
    <3>1. i - 1 \in 0..n
      BY <2>3
    <3>2. f[i - 1] \in Ram
      BY <2>7, <3>1 DEF Recursive
    <3> QED BY <2>7, <3>2 DEF Recursive
  <2>9. Q(f)
    <3>1. \A i \in 0..n : f[i] = IF i = 0 THEN p ELSE L(f[i - 1], i)
      BY <2>3, <2>7, <2>8 DEF Recursive
    <3> QED BY <2>7, <3>1 DEF Recursive
  <2>10. Q(q)
    <3> HIDE DEF Q
    <3> QED BY <2>9
  <2> HIDE DEF q
  <2>11. q[0] = p /\ \A i \in 1..n : q[i] = L(q[i - 1], i)
    BY <2>3, <2>10
  <2> DEFINE T == {m \in Nat : m <= n => q[m] \in Ram}
  <2>12. T = Nat
    <3>1. T \in SUBSET Nat /\ 0 \in T
      BY <2>11
    <3>2. ASSUME NEW m \in T PROVE m + 1 \in T
      <4> SUFFICES ASSUME m + 1 <= n PROVE q[m + 1] \in Ram
        OBVIOUS
      <4>1. m + 1 \in 1..n /\ (m + 1) - 1 = m /\ q[m] \in Ram
        BY <2>3
      <4>2. q[m + 1] = L(q[m], m + 1)
        BY <2>11, <4>1
      <4> QED BY <2>5, <4>1, <4>2
    <3> HIDE DEF T
    <3> QED BY <3>1, <3>2, SetInduction
  <2>13. q[n] \in Ram
    BY <2>3, <2>12
  <2> QED BY <2>1, <2>13
<1> QED BY <1>1, <1>2
-----------------------------------------------------------------------------
(***************************************************************************)
(* Screens.                                                                *)
(***************************************************************************)
\* One dispON or dispOFF of a screen: never the icon.
ScreenOps == {o \in [on : BOOLEAN, com : COMs, seg : Used] :
                ~(o.seg = ICON_SEG /\ o.com = ICON_COM)}

\* The SEGs of the eight digits.
LEMMA UsedSegs == Used = (6..11) \cup (14..23)
<1>1. Used \subseteq (6..11) \cup (14..23)
  <2>1. \A i \in 1..8 : \A j \in {1, 2} : Pins[i][j] \in (6..11) \cup (14..23)
    BY DEF Pins
  <2> QED BY <2>1 DEF Used
<1>2. \A i \in 1..8 : \A j \in {1, 2} : Pins[i][j] \in Used
  BY DEF Used
<1>3. /\ Pins[1][1] = 22 /\ Pins[1][2] = 23 /\ Pins[2][1] = 20 /\ Pins[2][2] = 21
      /\ Pins[3][1] = 18 /\ Pins[3][2] = 19 /\ Pins[4][1] = 16 /\ Pins[4][2] = 17
      /\ Pins[5][1] = 14 /\ Pins[5][2] = 15 /\ Pins[6][1] = 7 /\ Pins[6][2] = 6
      /\ Pins[7][1] = 9 /\ Pins[7][2] = 8 /\ Pins[8][1] = 11 /\ Pins[8][2] = 10
  BY DEF Pins
<1>4. {22, 23, 20, 21, 18, 19, 16, 17, 14, 15, 7, 6, 9, 8, 11, 10} \subseteq Used
  BY <1>2, <1>3
<1>5. (6..11) \cup (14..23) = {22, 23, 20, 21, 18, 19, 16, 17, 14, 15, 7, 6, 9, 8, 11, 10}
  OBVIOUS
<1> QED BY <1>1, <1>4, <1>5

\* A digit, whatever bars are lit.
LEMMA BarOpsType ==
  ASSUME NEW digit \in 1..8, NEW lit
  PROVE  BarOps(digit, lit) \in Seq(ScreenOps) /\ Len(BarOps(digit, lit)) = 7
<1>1. \A i \in 1..7 : Bars[i] \in 2..5
  BY DEF Bars
<1>2. \A i \in 1..7 : Pins[digit][IF i <= 3 THEN 1 ELSE 2] \in Used
  BY DEF Used
<1>3. \A i \in 1..7 : [on |-> i \in lit, com |-> Bars[i],
                       seg |-> Pins[digit][IF i <= 3 THEN 1 ELSE 2]] \in ScreenOps
  BY <1>1, <1>2 DEF ScreenOps, COMs, ICON_COM
<1> QED BY <1>3 DEF BarOps

\* A single dispON or dispOFF.
LEMMA DispType ==
  ASSUME NEW com \in COMs, NEW seg \in Used, ~(seg = ICON_SEG /\ com = ICON_COM)
  PROVE  dispON(com, seg) \in Seq(ScreenOps) /\ dispOFF(com, seg) \in Seq(ScreenOps)
<1>1. [on |-> TRUE, com |-> com, seg |-> seg] \in ScreenOps
  BY DEF ScreenOps
<1>2. [on |-> FALSE, com |-> com, seg |-> seg] \in ScreenOps
  BY DEF ScreenOps
<1> QED BY <1>1, <1>2 DEF dispON, dispOFF

\* Putting operations together.
LEMMA OpsConcat ==
  \A a, b \in Seq(ScreenOps) : a \o b \in Seq(ScreenOps)
BY ConcatProperties

\* The cells that belong to no digit can be written one by one.
LEMMA PointsDrawn ==
  /\ \A seg \in {22, 20, 18, 16, 14, 7, 9} :
       5 \in COMs /\ seg \in Used /\ ~(seg = ICON_SEG /\ 5 = ICON_COM)
  /\ \A seg \in {16, 7, 9, 10} :
       1 \in COMs /\ seg \in Used /\ ~(seg = ICON_SEG /\ 1 = ICON_COM)
BY UsedSegs DEF COMs, ICON_SEG, ICON_COM

\* The marks that are not part of a digit.
LEMMA MarksType ==
  /\ \A seg \in {22, 20, 18, 16, 14, 7, 9} :
       dispON(5, seg) \in Seq(ScreenOps) /\ dispOFF(5, seg) \in Seq(ScreenOps)
  /\ \A seg \in {16, 7, 9, 10} :
       dispON(1, seg) \in Seq(ScreenOps) /\ dispOFF(1, seg) \in Seq(ScreenOps)
<1>1. ASSUME NEW seg \in {22, 20, 18, 16, 14, 7, 9}
      PROVE  dispON(5, seg) \in Seq(ScreenOps) /\ dispOFF(5, seg) \in Seq(ScreenOps)
  BY PointsDrawn, DispType, Zenon
<1>2. ASSUME NEW seg \in {16, 7, 9, 10}
      PROVE  dispON(1, seg) \in Seq(ScreenOps) /\ dispOFF(1, seg) \in Seq(ScreenOps)
  BY PointsDrawn, DispType, Zenon
<1> QED BY <1>1, <1>2

\* Clearing the digits.
LEMMA ClearType == showClrtime \in Seq(ScreenOps)
<1>1. \A d \in 1..8 : BarOps(d, {}) \in Seq(ScreenOps)
  BY BarOpsType
<1> DEFINE a == BarOps(1, {}) \o BarOps(2, {}) \o BarOps(3, {}) \o BarOps(4, {})
                \o BarOps(5, {}) \o BarOps(6, {}) \o BarOps(7, {}) \o BarOps(8, {})
<1>2. a \in Seq(ScreenOps)
  BY <1>1, OpsConcat
<1> HIDE DEF a
<1>3. /\ dispOFF(5, 22) \in Seq(ScreenOps) /\ dispOFF(5, 20) \in Seq(ScreenOps)
      /\ dispOFF(5, 18) \in Seq(ScreenOps) /\ dispOFF(5, 16) \in Seq(ScreenOps)
      /\ dispOFF(5, 14) \in Seq(ScreenOps) /\ dispOFF(5, 7) \in Seq(ScreenOps)
      /\ dispOFF(5, 9) \in Seq(ScreenOps) /\ dispOFF(1, 16) \in Seq(ScreenOps)
      /\ dispOFF(1, 7) \in Seq(ScreenOps)
  BY MarksType
<1>4. a \o dispOFF(5, 22) \o dispOFF(5, 20) \o dispOFF(5, 18) \o dispOFF(5, 16)
      \o dispOFF(5, 14) \o dispOFF(5, 7) \o dispOFF(5, 9)
      \o dispOFF(1, 16) \o dispOFF(1, 7) \in Seq(ScreenOps)
  BY <1>2, <1>3, OpsConcat, SMTT(30)
<1> QED BY <1>4 DEF showClrtime, a

\* The operations of a screen.
LEMMA OpsType ==
  ASSUME NEW s \in Screens, NEW t \in Times
  PROVE  Ops[s][t] \in Seq(ScreenOps) /\ Ops[s][t] # <<>>
<1> DEFINE S == Seq(ScreenOps)
<1>1. \A digit \in 1..8 : \A num : shownum(digit, num) \in S
  BY BarOpsType DEF shownum
<1>2. \A a, b \in S : a \o b \in S
  BY OpsConcat
<1>3. showClrtime \in S
  BY ClearType
<1>4. /\ dispON(1, 9) \in S /\ dispON(1, 10) \in S /\ dispON(1, 16) \in S
      /\ dispON(5, 16) \in S /\ dispON(5, 7) \in S /\ dispON(1, 7) \in S
  BY MarksType
<1>5. \A a \in S : \A num : a \o shownum(8, num) \in S /\ a \o shownum(8, num) # <<>>
  <2> TAKE a \in S
  <2> TAKE num
  <2> DEFINE b == shownum(8, num)
  <2>1. b \in S /\ Len(b) = 7
    BY BarOpsType DEF shownum
  <2> HIDE DEF b
  <2>2. Len(a) \in Nat
    BY LenProperties
  <2>3. a \o b \in S /\ Len(a \o b) = Len(a) + Len(b)
    BY <2>1, ConcatProperties
  <2>4. Len(a \o b) # 0
    BY <2>1, <2>2, <2>3
  <2> QED BY <2>3, <2>4, EmptySeq DEF b
<1>6. Show_time(t) \in S /\ Show_time(t) # <<>>
  <2> DEFINE h == HexToDec(t.hour)
             m == HexToDec(t.minute)
             x == HexToDec(t.second)
  <2>1. Show_time(t)
          = dispON(1, 9) \o dispON(1, 10) \o showClrtime
            \o shownum(3, h \div 10) \o shownum(4, h % 10) \o dispON(1, 16) \o dispON(5, 16)
            \o shownum(5, m \div 10) \o shownum(6, m % 10) \o dispON(5, 7) \o dispON(1, 7)
            \o shownum(7, x \div 10) \o shownum(8, x % 10)
    BY DEF Show_time
  <2>2. /\ shownum(3, h \div 10) \in S /\ shownum(4, h % 10) \in S
        /\ shownum(5, m \div 10) \in S /\ shownum(6, m % 10) \in S
        /\ shownum(7, x \div 10) \in S /\ shownum(8, x % 10) \in S
    BY <1>1
  <2> HIDE DEF S, h, m, x
  <2>3. dispON(1, 9) \o dispON(1, 10) \o showClrtime
        \o shownum(3, h \div 10) \o shownum(4, h % 10) \o dispON(1, 16) \o dispON(5, 16)
        \o shownum(5, m \div 10) \o shownum(6, m % 10) \o dispON(5, 7) \o dispON(1, 7)
        \o shownum(7, x \div 10) \in S
    BY <1>2, <1>3, <1>4, <2>2, ZenonT(60)
  <2> QED BY <1>5, <2>1, <2>3, Zenon
<1>7. Show_date(t) \in S /\ Show_date(t) # <<>>
  <2> DEFINE y == HexToDec(t.year)
             m == HexToDec(t.month)
             d == HexToDec(t.day)
  <2>1. Show_date(t)
          = showClrtime
            \o shownum(1, y \div 10) \o shownum(2, y % 10) \o shownum(3, 16)
            \o shownum(4, m \div 10) \o shownum(5, m % 10) \o shownum(6, 16)
            \o shownum(7, d \div 10) \o shownum(8, d % 10)
    BY DEF Show_date
  <2>2. /\ shownum(1, y \div 10) \in S /\ shownum(2, y % 10) \in S /\ shownum(3, 16) \in S
        /\ shownum(4, m \div 10) \in S /\ shownum(5, m % 10) \in S /\ shownum(6, 16) \in S
        /\ shownum(7, d \div 10) \in S /\ shownum(8, d % 10) \in S
    BY <1>1
  <2> HIDE DEF S, y, m, d
  <2>3. showClrtime
        \o shownum(1, y \div 10) \o shownum(2, y % 10) \o shownum(3, 16)
        \o shownum(4, m \div 10) \o shownum(5, m % 10) \o shownum(6, 16)
        \o shownum(7, d \div 10) \in S
    BY <1>2, <1>3, <2>2, Zenon
  <2> QED BY <1>5, <2>1, <2>3, Zenon
<1>8. Ops[s][t] = IF s = "time" THEN Show_time(t) ELSE Show_date(t)
  BY DEF Ops, Screens
<1> QED BY <1>6, <1>7, <1>8

\* A screen leaves the icon in dispram as it is.
LEMMA ScreenKeepsIcon ==
  ASSUME NEW s \in Screens, NEW t \in Times
  PROVE  /\ NewRam(LastOp[s][t]) \in Ram
         /\ ICON_COM \in NewRam(LastOp[s][t])[ICON_SEG] <=> ICON_COM \in dispram[ICON_SEG]
<1> DEFINE ops == Ops[s][t]
           last == LastOp[s][t]
<1>1. ops \in Seq(ScreenOps)
  BY OpsType
<1> HIDE DEF ops
<1>2. DOMAIN last = {<<ops[i].seg, ops[i].com>> : i \in DOMAIN ops}
  BY DEF LastOp, ops
<1> HIDE DEF last
<1>3. <<ICON_SEG, ICON_COM>> \notin DOMAIN last
  <2> SUFFICES ASSUME NEW i \in DOMAIN ops,
                      <<ops[i].seg, ops[i].com>> = <<ICON_SEG, ICON_COM>>
               PROVE  FALSE
    BY <1>2
  <2>1. ops[i] \in ScreenOps
    BY <1>1, ElementOfSeq
  <2> QED BY <2>1 DEF ScreenOps
<1>4. ICON_SEG \in Used /\ ICON_COM \in COMs
  BY UsedSegs DEF ICON_SEG, ICON_COM, COMs
<1>5. NewRam(last) \in Ram
  BY DEF NewRam, Ram
<1>6. NewRam(last)[ICON_SEG]
        = {c \in COMs : IF <<ICON_SEG, c>> \in DOMAIN last THEN last[<<ICON_SEG, c>>]
                        ELSE c \in dispram[ICON_SEG]}
  BY <1>4 DEF NewRam
<1>7. ICON_COM \in NewRam(last)[ICON_SEG] <=> ICON_COM \in dispram[ICON_SEG]
  BY <1>3, <1>4, <1>6
<1> QED BY <1>5, <1>7 DEF last
-----------------------------------------------------------------------------
(***************************************************************************)
(* What the operations of a screen leave lit.                              *)
(***************************************************************************)
\* The cell of an operation, the cells that operations write, and those that the
\* last one on each leaves lit.
Cell(o) == <<o.seg, o.com>>
Written(ops) == {Cell(ops[i]) : i \in DOMAIN ops}
Final(ops, i) == \A j \in (i + 1)..Len(ops) : Cell(ops[j]) # Cell(ops[i])
Left(ops) == {Cell(ops[i]) : i \in {j \in DOMAIN ops : ops[j].on /\ Final(ops, j)}}

\* Operations that write the cells w and leave l of them lit.
Draws(ops, w, l) == ops \in Seq(ScreenOps) /\ Written(ops) = w /\ Left(ops) = l

\* The cells of a digit.
BarCells(digit) == {<<Pins[digit][IF i <= 3 THEN 1 ELSE 2], Bars[i]>> : i \in 1..7}

\* What comes later counts.
LEMMA DrawsConcat ==
  ASSUME NEW a, NEW b, NEW v, NEW w, NEW k, NEW l,
         Draws(a, v, k), Draws(b, w, l)
  PROVE  Draws(a \o b, v \cup w, (k \ w) \cup l)
<1> DEFINE m == Len(a)
           n == Len(b)
           c == a \o b
<1>1. a \in Seq(ScreenOps) /\ b \in Seq(ScreenOps)
  BY DEF Draws
<1>2. m \in Nat /\ n \in Nat /\ DOMAIN a = 1..m /\ DOMAIN b = 1..n
  BY <1>1, LenProperties
<1>3. /\ c \in Seq(ScreenOps) /\ Len(c) = m + n
      /\ \A i \in 1..(m + n) : c[i] = IF i <= m THEN a[i] ELSE b[i - m]
  BY <1>1, ConcatProperties
<1>4. DOMAIN c = 1..(m + n)
  BY <1>3, LenProperties
<1> HIDE DEF m, n, c
<1>5. \A i \in 1..m : i \in 1..(m + n) /\ c[i] = a[i]
  BY <1>2, <1>3
<1>6. \A i \in 1..n : m + i \in 1..(m + n) /\ c[m + i] = b[i]
  BY <1>2, <1>3
<1>7. \A i \in 1..(m + n) : i \in 1..m \/ \E j \in 1..n : i = m + j
  <2> TAKE i \in 1..(m + n)
  <2>1. CASE i > m
    <3>1. i - m \in 1..n /\ i = m + (i - m)
      BY <1>2, <2>1
    <3> QED BY <3>1
  <2> QED BY <1>2, <2>1
<1>8. Written(c) = v \cup w
  <2>1. v = {Cell(a[i]) : i \in 1..m} /\ w = {Cell(b[i]) : i \in 1..n}
    BY <1>2 DEF Written, Draws
  <2>2. Written(c) = {Cell(c[i]) : i \in 1..(m + n)}
    BY <1>4 DEF Written
  <2>3. v \cup w \subseteq Written(c)
    BY <1>5, <1>6, <2>1, <2>2
  <2>4. ASSUME NEW i \in 1..(m + n) PROVE Cell(c[i]) \in v \cup w
    BY <1>5, <1>6, <1>7, <2>1
  <2> QED BY <2>2, <2>3, <2>4
<1>9. \A i \in 1..n : Final(c, m + i) <=> Final(b, i)
  <2> TAKE i \in 1..n
  <2>1. ASSUME Final(c, m + i), NEW j \in (i + 1)..n PROVE Cell(b[j]) # Cell(b[i])
    <3>1. j \in 1..n /\ m + j \in (m + i + 1)..(m + n)
      BY <1>2
    <3> QED BY <1>3, <1>6, <2>1, <3>1 DEF Final, n
  <2>2. ASSUME Final(b, i), NEW j \in (m + i + 1)..(m + n) PROVE Cell(c[j]) # Cell(c[m + i])
    <3>1. j - m \in (i + 1)..n /\ j - m \in 1..n /\ m + (j - m) = j
      BY <1>2
    <3> QED BY <1>6, <2>2, <3>1 DEF Final, n
  <2> QED BY <1>3, <2>1, <2>2 DEF Final, n
<1>10. \A i \in 1..m : Final(c, i) <=> Final(a, i) /\ Cell(a[i]) \notin w
  <2> TAKE i \in 1..m
  <2>0. w = {Cell(b[j]) : j \in 1..n}
    BY <1>2 DEF Draws, Written
  <2>1. ASSUME Final(c, i), NEW j \in (i + 1)..m PROVE Cell(a[j]) # Cell(a[i])
    <3>1. j \in 1..m /\ j \in (i + 1)..(m + n)
      BY <1>2
    <3> QED BY <1>3, <1>5, <2>1, <3>1 DEF Final
  <2>2. ASSUME Final(c, i), NEW j \in 1..n PROVE Cell(b[j]) # Cell(a[i])
    <3>1. m + j \in (i + 1)..(m + n)
      BY <1>2
    <3> QED BY <1>3, <1>5, <1>6, <2>2, <3>1 DEF Final
  <2>3. ASSUME Final(a, i), Cell(a[i]) \notin w, NEW j \in (i + 1)..(m + n)
        PROVE  Cell(c[j]) # Cell(c[i])
    <3>1. j \in 1..(m + n)
      BY <1>2
    <3>2. CASE j \in 1..m
      <4>1. j \in (i + 1)..m
        BY <1>2, <3>2
      <4> QED BY <1>5, <2>3, <3>2, <4>1 DEF Final, m
    <3>3. CASE \E x \in 1..n : j = m + x
      BY <1>5, <1>6, <2>0, <2>3, <3>3
    <3> QED BY <1>7, <3>1, <3>2, <3>3
  <2>4. Final(a, i) <=> \A j \in (i + 1)..m : Cell(a[j]) # Cell(a[i])
    BY DEF Final, m
  <2>5. Final(c, i) <=> \A j \in (i + 1)..(m + n) : Cell(c[j]) # Cell(c[i])
    BY <1>3 DEF Final
  <2> QED BY <2>0, <2>1, <2>2, <2>3, <2>4, <2>5
<1>11. Left(c) = (k \ w) \cup l
  <2>1. k = {Cell(a[i]) : i \in {j \in 1..m : a[j].on /\ Final(a, j)}}
    BY <1>2 DEF Draws, Left
  <2>2. l = {Cell(b[i]) : i \in {j \in 1..n : b[j].on /\ Final(b, j)}}
    BY <1>2 DEF Draws, Left
  <2>3. Left(c) = {Cell(c[i]) : i \in {j \in 1..(m + n) : c[j].on /\ Final(c, j)}}
    BY <1>4 DEF Left
  <2>4. ASSUME NEW x \in Left(c) PROVE x \in (k \ w) \cup l
    <3>1. PICK i \in 1..(m + n) : c[i].on /\ Final(c, i) /\ x = Cell(c[i])
      BY <2>3
    <3>2. CASE i \in 1..m
      BY <1>5, <1>10, <2>1, <3>1, <3>2
    <3>3. CASE \E j \in 1..n : i = m + j
      BY <1>6, <1>9, <2>2, <3>1, <3>3
    <3> QED BY <1>7, <3>2, <3>3
  <2>5. ASSUME NEW x \in k \ w PROVE x \in Left(c)
    <3>1. PICK i \in 1..m : a[i].on /\ Final(a, i) /\ x = Cell(a[i])
      BY <2>1
    <3>2. i \in 1..(m + n) /\ c[i].on /\ Final(c, i) /\ x = Cell(c[i])
      BY <1>5, <1>10, <2>5, <3>1
    <3> QED BY <2>3, <3>2
  <2>6. ASSUME NEW x \in l PROVE x \in Left(c)
    <3>1. PICK i \in 1..n : b[i].on /\ Final(b, i) /\ x = Cell(b[i])
      BY <2>2
    <3>2. m + i \in 1..(m + n) /\ c[m + i].on /\ Final(c, m + i) /\ x = Cell(c[m + i])
      BY <1>6, <1>9, <3>1
    <3> QED BY <2>3, <3>2
  <2> QED BY <2>4, <2>5, <2>6
<1> QED BY <1>3, <1>8, <1>11 DEF Draws, c

\* The seven bars of a digit are seven cells.
LEMMA BarsDiffer ==
  ASSUME NEW digit \in 1..8, NEW i \in 1..7, NEW j \in 1..7,
         Pins[digit][IF i <= 3 THEN 1 ELSE 2] = Pins[digit][IF j <= 3 THEN 1 ELSE 2],
         Bars[i] = Bars[j]
  PROVE  i = j
<1>1. Pins[digit][1] # Pins[digit][2]
  BY DEF Pins
<1>2. (i <= 3) <=> (j <= 3)
  BY <1>1
<1> QED BY <1>2 DEF Bars

\* A digit is drawn as its lit bars.
LEMMA DrawsBars ==
  ASSUME NEW digit \in 1..8, NEW lit \in SUBSET (1..7)
  PROVE  Draws(BarOps(digit, lit), BarCells(digit),
               {<<Pins[digit][IF i <= 3 THEN 1 ELSE 2], Bars[i]>> : i \in lit})
<1> DEFINE ops == BarOps(digit, lit)
           P(i) == <<Pins[digit][IF i <= 3 THEN 1 ELSE 2], Bars[i]>>
<1>1. ops \in Seq(ScreenOps) /\ Len(ops) = 7 /\ DOMAIN ops = 1..7
  BY BarOpsType DEF BarOps
<1>2. \A i \in 1..7 : Cell(ops[i]) = P(i) /\ (ops[i].on <=> i \in lit)
  BY DEF BarOps, Cell
<1>3. \A i, j \in 1..7 : P(i) = P(j) => i = j
  BY BarsDiffer
<1> HIDE DEF ops, P
<1>4. \A i \in 1..7 : Final(ops, i)
  <2> SUFFICES ASSUME NEW i \in 1..7, NEW j \in (i + 1)..7 PROVE Cell(ops[j]) # Cell(ops[i])
    BY <1>1 DEF Final
  <2>1. j \in 1..7 /\ j # i
    OBVIOUS
  <2> QED BY <1>2, <1>3, <2>1
<1>5. Written(ops) = {P(i) : i \in 1..7}
  BY <1>1, <1>2 DEF Written
<1>6. Left(ops) = {P(i) : i \in lit}
  BY <1>1, <1>2, <1>4 DEF Left
<1> QED BY <1>1, <1>5, <1>6 DEF Draws, BarCells, ops, P

\* One cell.
LEMMA DrawsDisp ==
  ASSUME NEW com \in COMs, NEW seg \in Used, ~(seg = ICON_SEG /\ com = ICON_COM)
  PROVE  /\ Draws(dispON(com, seg), {<<seg, com>>}, {<<seg, com>>})
         /\ Draws(dispOFF(com, seg), {<<seg, com>>}, {})
<1>1. dispON(com, seg) \in Seq(ScreenOps) /\ dispOFF(com, seg) \in Seq(ScreenOps)
  BY DispType
<1>2. ASSUME NEW f \in BOOLEAN, NEW ops, ops = <<[on |-> f, com |-> com, seg |-> seg]>>
      PROVE  Written(ops) = {<<seg, com>>} /\ Left(ops) = IF f THEN {<<seg, com>>} ELSE {}
  <2>1. DOMAIN ops = {1} /\ Len(ops) = 1 /\ Cell(ops[1]) = <<seg, com>> /\ ops[1].on = f
    BY <1>2 DEF Cell
  <2>2. Final(ops, 1)
    BY <2>1 DEF Final
  <2> QED BY <2>1, <2>2 DEF Written, Left
<1> QED BY <1>1, <1>2 DEF Draws, dispON, dispOFF

\* A digit has no bars but its seven.
LEMMA LitBars == ASSUME NEW num \in 0..16 PROVE Lit(num) \in SUBSET (1..7)
BY DEF Lit

\* The cells of a screen that belong to no digit: the two marks of Show_time_flag,
\* and those that showClrtime clears besides the digits.
Flags  == {<<9, 1>>, <<10, 1>>}
Points == {<<22, 5>>, <<20, 5>>, <<18, 5>>, <<16, 5>>, <<14, 5>>, <<7, 5>>, <<9, 5>>,
           <<16, 1>>, <<7, 1>>}
Digits == UNION {BarCells(d) : d \in 1..8}
Cleared == Digits \cup Points

\* A cell belongs to one digit, or to none.
LEMMA DigitsApart ==
  ASSUME NEW d \in 1..8
  PROVE  /\ \A e \in 1..8 : d # e => BarCells(d) \cap BarCells(e) = {}
         /\ \A num \in 0..16 : Cells(d, num) \subseteq BarCells(d)
         /\ BarCells(d) \cap Flags = {}
         /\ BarCells(d) \cap Points = {}
         /\ BarCells(d) \subseteq Cleared
<1>1. ASSUME NEW e \in 1..8, d # e PROVE BarCells(d) \cap BarCells(e) = {}
  <2>1. \A i, j \in {1, 2} : Pins[d][i] # Pins[e][j]
    BY <1>1 DEF Pins
  <2> QED BY <2>1 DEF BarCells
<1>2. \A num \in 0..16 : Cells(d, num) \subseteq BarCells(d)
  BY LitBars DEF Cells, BarCells
<1>3. \A i \in 1..7 : Bars[i] \in 2..5 /\ (i <= 3 => Bars[i] \in 2..4)
  BY DEF Bars
<1>4. Pins[d][2] \notin {22, 20, 18, 16, 14, 7, 9}
  BY DEF Pins
<1>5. BarCells(d) \cap Flags = {}
  BY <1>3 DEF BarCells, Flags
<1>6. BarCells(d) \cap Points = {}
  BY <1>3, <1>4 DEF BarCells, Points
<1>7. BarCells(d) \subseteq Cleared
  BY DEF Cleared, Digits
<1> QED BY <1>1, <1>2, <1>5, <1>6, <1>7

\* A digit on top of cells that have been cleared.
LEMMA DrawsNum ==
  ASSUME NEW ops, NEW w, NEW l, Draws(ops, w, l),
         NEW d \in 1..8, NEW num \in 0..16, BarCells(d) \subseteq w, l \cap BarCells(d) = {}
  PROVE  Draws(ops \o shownum(d, num), w, l \cup Cells(d, num))
<1>1. Draws(shownum(d, num), BarCells(d), Cells(d, num))
  BY LitBars, DrawsBars DEF shownum, Cells
<1>2. Draws(ops \o shownum(d, num), w \cup BarCells(d), (l \ BarCells(d)) \cup Cells(d, num))
  BY <1>1, DrawsConcat
<1>3. w \cup BarCells(d) = w /\ l \ BarCells(d) = l
  OBVIOUS
<1> QED BY <1>2, <1>3

\* A point on top of cells that have been cleared.
LEMMA DrawsPoint ==
  ASSUME NEW ops, NEW w, NEW l, Draws(ops, w, l),
         NEW com \in COMs, NEW seg \in Used, ~(seg = ICON_SEG /\ com = ICON_COM),
         <<seg, com>> \in w
  PROVE  Draws(ops \o dispON(com, seg), w, l \cup {<<seg, com>>})
<1>1. Draws(dispON(com, seg), {<<seg, com>>}, {<<seg, com>>})
  BY DrawsDisp
<1>2. Draws(ops \o dispON(com, seg), w \cup {<<seg, com>>},
            (l \ {<<seg, com>>}) \cup {<<seg, com>>})
  BY <1>1, DrawsConcat
<1>3. w \cup {<<seg, com>>} = w /\ (l \ {<<seg, com>>}) \cup {<<seg, com>>} = l \cup {<<seg, com>>}
  OBVIOUS
<1> QED BY <1>2, <1>3

\* Two parts of the clearing.
LEMMA DrawsDark ==
  ASSUME NEW a, NEW b, NEW v, NEW w, Draws(a, v, {}), Draws(b, w, {})
  PROVE  Draws(a \o b, v \cup w, {})
<1>1. Draws(a \o b, v \cup w, ({} \ w) \cup {})
  BY DrawsConcat
<1> QED BY <1>1

\* showClrtime puts out the digits and the points.
LEMMA DrawsClear == Draws(showClrtime, Cleared, {})
<1> DEFINE B(d) == BarOps(d, {})
           O(com, seg) == dispOFF(com, seg)
<1>1. ASSUME NEW d \in 1..8 PROVE Draws(B(d), BarCells(d), {})
  <2>1. Draws(B(d), BarCells(d), {<<Pins[d][IF i <= 3 THEN 1 ELSE 2], Bars[i]>> : i \in {}})
    BY DrawsBars
  <2>2. {<<Pins[d][IF i <= 3 THEN 1 ELSE 2], Bars[i]>> : i \in {}} = {}
    OBVIOUS
  <2> QED BY <2>1, <2>2
<1>2. /\ Draws(B(1), BarCells(1), {}) /\ Draws(B(2), BarCells(2), {})
      /\ Draws(B(3), BarCells(3), {}) /\ Draws(B(4), BarCells(4), {})
      /\ Draws(B(5), BarCells(5), {}) /\ Draws(B(6), BarCells(6), {})
      /\ Draws(B(7), BarCells(7), {}) /\ Draws(B(8), BarCells(8), {})
  BY <1>1
<1> DEFINE a == B(1) \o B(2) \o B(3) \o B(4) \o B(5) \o B(6) \o B(7) \o B(8)
<1>3. Draws(a, BarCells(1) \cup BarCells(2) \cup BarCells(3) \cup BarCells(4)
               \cup BarCells(5) \cup BarCells(6) \cup BarCells(7) \cup BarCells(8), {})
  <2> HIDE DEF B
  <2> QED BY <1>2, DrawsDark, Zenon
<1>4. Digits = BarCells(1) \cup BarCells(2) \cup BarCells(3) \cup BarCells(4)
               \cup BarCells(5) \cup BarCells(6) \cup BarCells(7) \cup BarCells(8)
  <2>1. 1..8 = {1, 2, 3, 4, 5, 6, 7, 8}
    OBVIOUS
  <2> QED BY <2>1 DEF Digits
<1>5. Draws(a, Digits, {})
  BY <1>3, <1>4
<1> HIDE DEF a
<1>6. \A seg \in {22, 20, 18, 16, 14, 7, 9} : Draws(O(5, seg), {<<seg, 5>>}, {})
  BY DrawsDisp, PointsDrawn
<1>7. \A seg \in {16, 7} : Draws(O(1, seg), {<<seg, 1>>}, {})
  BY DrawsDisp, PointsDrawn
<1>8. /\ Draws(O(5, 22), {<<22, 5>>}, {}) /\ Draws(O(5, 20), {<<20, 5>>}, {})
      /\ Draws(O(5, 18), {<<18, 5>>}, {}) /\ Draws(O(5, 16), {<<16, 5>>}, {})
      /\ Draws(O(5, 14), {<<14, 5>>}, {}) /\ Draws(O(5, 7), {<<7, 5>>}, {})
      /\ Draws(O(5, 9), {<<9, 5>>}, {}) /\ Draws(O(1, 16), {<<16, 1>>}, {})
      /\ Draws(O(1, 7), {<<7, 1>>}, {})
  BY <1>6, <1>7
<1> HIDE DEF O
<1>9. Draws(a \o O(5, 22) \o O(5, 20) \o O(5, 18) \o O(5, 16) \o O(5, 14) \o O(5, 7)
              \o O(5, 9) \o O(1, 16) \o O(1, 7),
            Digits \cup {<<22, 5>>} \cup {<<20, 5>>} \cup {<<18, 5>>} \cup {<<16, 5>>}
              \cup {<<14, 5>>} \cup {<<7, 5>>} \cup {<<9, 5>>} \cup {<<16, 1>>}
              \cup {<<7, 1>>}, {})
  <2>1. Draws(a \o O(5, 22) \o O(5, 20) \o O(5, 18) \o O(5, 16),
              Digits \cup {<<22, 5>>} \cup {<<20, 5>>} \cup {<<18, 5>>} \cup {<<16, 5>>}, {})
    BY <1>5, <1>8, DrawsDark, Zenon
  <2>2. Draws(a \o O(5, 22) \o O(5, 20) \o O(5, 18) \o O(5, 16) \o O(5, 14) \o O(5, 7)
                \o O(5, 9),
              Digits \cup {<<22, 5>>} \cup {<<20, 5>>} \cup {<<18, 5>>} \cup {<<16, 5>>}
                \cup {<<14, 5>>} \cup {<<7, 5>>} \cup {<<9, 5>>}, {})
    BY <1>8, <2>1, DrawsDark, Zenon
  <2> QED BY <1>8, <2>2, DrawsDark, Zenon
<1>10. Cleared = Digits \cup {<<22, 5>>} \cup {<<20, 5>>} \cup {<<18, 5>>} \cup {<<16, 5>>}
              \cup {<<14, 5>>} \cup {<<7, 5>>} \cup {<<9, 5>>} \cup {<<16, 1>>}
              \cup {<<7, 1>>}
  BY DEF Cleared, Points
<1> QED BY <1>9, <1>10 DEF showClrtime, a, O

\* A byte gives two digits, or the hyphen and a digit.
LEMMA DigitsOf ==
  ASSUME NEW byte \in 0..255
  PROVE  HexToDec(byte) \div 10 \in 0..16 /\ HexToDec(byte) % 10 \in 0..16
<1>1. byte \div 16 \in 0..15 /\ byte % 16 \in 0..15
  OBVIOUS
<1>2. HexToDec(byte) \in 0..165
  BY <1>1 DEF HexToDec
<1> QED BY <1>2

\* A time shows its face, the two marks included.
LEMMA DrawsTime ==
  ASSUME NEW t \in Times
  PROVE  Draws(Show_time(t), Cleared \cup Flags, Face["time"][t])
<1> DEFINE W == Cleared \cup Flags
           H(x) == HexToDec(x) \div 10
           L(x) == HexToDec(x) % 10
<1>1. t.hour \in 0..255 /\ t.minute \in 0..255 /\ t.second \in 0..255
  BY PanelAssumption
<1>2. /\ H(t.hour) \in 0..16 /\ L(t.hour) \in 0..16 /\ H(t.minute) \in 0..16
      /\ L(t.minute) \in 0..16 /\ H(t.second) \in 0..16 /\ L(t.second) \in 0..16
  BY <1>1, DigitsOf
<1> DEFINE hh == H(t.hour)
           hl == L(t.hour)
           mh == H(t.minute)
           ml == L(t.minute)
           sh == H(t.second)
           sl == L(t.second)
           ops0 == dispON(1, 9) \o dispON(1, 10) \o showClrtime
           ops1 == ops0 \o shownum(3, hh) \o shownum(4, hl)
           ops2 == ops1 \o dispON(1, 16) \o dispON(5, 16)
           ops3 == ops2 \o shownum(5, mh) \o shownum(6, ml)
           ops4 == ops3 \o dispON(5, 7) \o dispON(1, 7)
           ops5 == ops4 \o shownum(7, sh) \o shownum(8, sl)
           l1 == (Flags \cup Cells(3, hh)) \cup Cells(4, hl)
           l2 == (l1 \cup {<<16, 1>>}) \cup {<<16, 5>>}
           l3 == (l2 \cup Cells(5, mh)) \cup Cells(6, ml)
           l4 == (l3 \cup {<<7, 5>>}) \cup {<<7, 1>>}
           l5 == (l4 \cup Cells(7, sh)) \cup Cells(8, sl)
<1>3. Show_time(t) = ops5
  BY DEF Show_time
<1>4. Face["time"][t] = l5
  BY DEF Face, Screens, Flags
<1>5. hh \in 0..16 /\ hl \in 0..16 /\ mh \in 0..16 /\ ml \in 0..16 /\ sh \in 0..16 /\ sl \in 0..16
  BY <1>2
<1> HIDE DEF hh, hl, mh, ml, sh, sl
<1>6. \A d \in 1..8 : BarCells(d) \subseteq W
  BY DigitsApart
<1>7. 3 \in 1..8 /\ 4 \in 1..8 /\ 5 \in 1..8 /\ 6 \in 1..8 /\ 7 \in 1..8 /\ 8 \in 1..8
  OBVIOUS
<1>8. ASSUME NEW ops, NEW l, Draws(ops, W, l), NEW d \in 1..8, NEW num \in 0..16,
             l \cap BarCells(d) = {}
      PROVE  Draws(ops \o shownum(d, num), W, l \cup Cells(d, num))
  BY <1>6, <1>8, DrawsNum, Zenon
<1>9. \A d, e \in 1..8 : d # e => \A num \in 0..16 : Cells(e, num) \cap BarCells(d) = {}
  BY DigitsApart
<1>10. \A d \in 1..8 : /\ Flags \cap BarCells(d) = {}
                      /\ {<<16, 1>>, <<16, 5>>, <<7, 5>>, <<7, 1>>} \cap BarCells(d) = {}
  BY DigitsApart DEF Points
<1>11. <<16, 1>> \in W /\ <<16, 5>> \in W /\ <<7, 5>> \in W /\ <<7, 1>> \in W
  BY DEF Cleared, Points
<1>12. Draws(ops0, W, Flags)
  <2>1. Draws(dispON(1, 9), {<<9, 1>>}, {<<9, 1>>}) /\ Draws(dispON(1, 10), {<<10, 1>>}, {<<10, 1>>})
    BY DrawsDisp, PointsDrawn
  <2>2. Draws(dispON(1, 9) \o dispON(1, 10), {<<9, 1>>} \cup {<<10, 1>>},
              ({<<9, 1>>} \ {<<10, 1>>}) \cup {<<10, 1>>})
    BY <2>1, DrawsConcat, Zenon
  <2>3. {<<9, 1>>} \cup {<<10, 1>>} = Flags /\ ({<<9, 1>>} \ {<<10, 1>>}) \cup {<<10, 1>>} = Flags
    BY DEF Flags
  <2>4. Draws(dispON(1, 9) \o dispON(1, 10), Flags, Flags)
    BY <2>2, <2>3
  <2>5. Draws(ops0, Flags \cup Cleared, (Flags \ Cleared) \cup {})
    BY <2>4, DrawsClear, DrawsConcat, Zenon
  <2>6. Flags \cap Cleared = {}
    <3>1. Flags \cap Points = {}
      BY DEF Flags, Points
    <3> QED BY <1>10, <3>1 DEF Cleared, Digits
  <2>7. Flags \cup Cleared = W /\ (Flags \ Cleared) \cup {} = Flags
    BY <2>6
  <2> QED BY <2>5, <2>7
<1> HIDE DEF W, ops0
<1>13. Draws(ops1, W, l1)
  <2>1. Draws(ops0 \o shownum(3, hh), W, Flags \cup Cells(3, hh))
    BY <1>5, <1>10, <1>12, <1>7, <1>8, Zenon
  <2>2. (Flags \cup Cells(3, hh)) \cap BarCells(4) = {}
    BY <1>5, <1>9, <1>10
  <2> QED BY <1>5, <1>7, <1>8, <2>1, <2>2, Zenon
<1> HIDE DEF ops1
<1>14. Draws(ops2, W, l2)
  <2> HIDE DEF l1
  <2>1. Draws(ops1 \o dispON(1, 16), W, l1 \cup {<<16, 1>>})
    BY <1>11, <1>13, DrawsPoint, PointsDrawn
  <2> QED BY <1>11, <2>1, DrawsPoint, PointsDrawn
<1> HIDE DEF ops2
<1>15. Draws(ops3, W, l3)
  <2>1. l2 \cap BarCells(5) = {}
    BY <1>5, <1>9, <1>10
  <2>2. (l2 \cup Cells(5, mh)) \cap BarCells(6) = {}
    BY <1>5, <1>9, <1>10
  <2> HIDE DEF l2
  <2>3. Draws(ops2 \o shownum(5, mh), W, l2 \cup Cells(5, mh))
    BY <1>5, <1>14, <1>7, <1>8, <2>1, Zenon
  <2> QED BY <1>5, <1>7, <1>8, <2>2, <2>3, Zenon
<1> HIDE DEF ops3
<1>16. Draws(ops4, W, l4)
  <2> HIDE DEF l3
  <2>1. Draws(ops3 \o dispON(5, 7), W, l3 \cup {<<7, 5>>})
    BY <1>11, <1>15, DrawsPoint, PointsDrawn
  <2> QED BY <1>11, <2>1, DrawsPoint, PointsDrawn
<1> HIDE DEF ops4
<1>17. Draws(ops5, W, l5)
  <2>1. l4 \cap BarCells(7) = {}
    BY <1>5, <1>9, <1>10
  <2>2. (l4 \cup Cells(7, sh)) \cap BarCells(8) = {}
    BY <1>5, <1>9, <1>10
  <2> HIDE DEF l4
  <2>3. Draws(ops4 \o shownum(7, sh), W, l4 \cup Cells(7, sh))
    BY <1>5, <1>16, <1>7, <1>8, <2>1, Zenon
  <2> QED BY <1>5, <1>7, <1>8, <2>2, <2>3, Zenon
<1> QED BY <1>3, <1>4, <1>17 DEF W

\* A date shows its face over the two marks.
LEMMA DrawsDate ==
  ASSUME NEW t \in Times
  PROVE  Draws(Show_date(t), Cleared, Face["date"][t] \ Flags)
<1> DEFINE H(x) == HexToDec(x) \div 10
           L(x) == HexToDec(x) % 10
<1>1. t.year \in 0..255 /\ t.month \in 0..255 /\ t.day \in 0..255
  BY PanelAssumption
<1>2. /\ H(t.year) \in 0..16 /\ L(t.year) \in 0..16 /\ H(t.month) \in 0..16
      /\ L(t.month) \in 0..16 /\ H(t.day) \in 0..16 /\ L(t.day) \in 0..16
  BY <1>1, DigitsOf
<1> DEFINE yh == H(t.year)
           yl == L(t.year)
           mh == H(t.month)
           ml == L(t.month)
           dh == H(t.day)
           dl == L(t.day)
           ops1 == showClrtime \o shownum(1, yh) \o shownum(2, yl) \o shownum(3, 16)
           ops2 == ops1 \o shownum(4, mh) \o shownum(5, ml) \o shownum(6, 16)
           ops3 == ops2 \o shownum(7, dh) \o shownum(8, dl)
           l1 == (({} \cup Cells(1, yh)) \cup Cells(2, yl)) \cup Cells(3, 16)
           l2 == ((l1 \cup Cells(4, mh)) \cup Cells(5, ml)) \cup Cells(6, 16)
           l3 == (l2 \cup Cells(7, dh)) \cup Cells(8, dl)
<1>3. Show_date(t) = ops3
  BY DEF Show_date
<1>4. Face["date"][t] = Flags \cup l3
  BY DEF Face, Screens, Flags
<1>5. /\ yh \in 0..16 /\ yl \in 0..16 /\ mh \in 0..16 /\ ml \in 0..16
      /\ dh \in 0..16 /\ dl \in 0..16 /\ 16 \in 0..16
  BY <1>2
<1> HIDE DEF yh, yl, mh, ml, dh, dl
<1>6. /\ 1 \in 1..8 /\ 2 \in 1..8 /\ 3 \in 1..8 /\ 4 \in 1..8
      /\ 5 \in 1..8 /\ 6 \in 1..8 /\ 7 \in 1..8 /\ 8 \in 1..8
  OBVIOUS
<1>7. ASSUME NEW ops, NEW l, Draws(ops, Cleared, l), NEW d \in 1..8, NEW num \in 0..16,
             l \cap BarCells(d) = {}
      PROVE  Draws(ops \o shownum(d, num), Cleared, l \cup Cells(d, num))
  BY <1>7, DigitsApart, DrawsNum, Zenon
<1>8. \A d, e \in 1..8 : d # e => \A num \in 0..16 : Cells(e, num) \cap BarCells(d) = {}
  BY DigitsApart
<1>9. \A d \in 1..8 : \A num \in 0..16 : Cells(d, num) \cap Flags = {}
  BY DigitsApart
<1>10. Draws(ops1, Cleared, l1)
  <2>1. Draws(showClrtime \o shownum(1, yh), Cleared, {} \cup Cells(1, yh))
    BY <1>5, <1>6, <1>7, DrawsClear, Zenon
  <2>2. ({} \cup Cells(1, yh)) \cap BarCells(2) = {}
    BY <1>5, <1>8
  <2>3. Draws(showClrtime \o shownum(1, yh) \o shownum(2, yl), Cleared,
              ({} \cup Cells(1, yh)) \cup Cells(2, yl))
    BY <1>5, <1>6, <1>7, <2>1, <2>2, Zenon
  <2>4. (({} \cup Cells(1, yh)) \cup Cells(2, yl)) \cap BarCells(3) = {}
    BY <1>5, <1>8
  <2> QED BY <1>5, <1>6, <1>7, <2>3, <2>4, Zenon
<1> HIDE DEF ops1
<1>11. Draws(ops2, Cleared, l2)
  <2>1. l1 \cap BarCells(4) = {}
    BY <1>5, <1>8
  <2>2. (l1 \cup Cells(4, mh)) \cap BarCells(5) = {}
    BY <1>5, <1>8
  <2>3. ((l1 \cup Cells(4, mh)) \cup Cells(5, ml)) \cap BarCells(6) = {}
    BY <1>5, <1>8
  <2> HIDE DEF l1
  <2>4. Draws(ops1 \o shownum(4, mh), Cleared, l1 \cup Cells(4, mh))
    BY <1>5, <1>6, <1>7, <1>10, <2>1, Zenon
  <2>5. Draws(ops1 \o shownum(4, mh) \o shownum(5, ml), Cleared,
              (l1 \cup Cells(4, mh)) \cup Cells(5, ml))
    BY <1>5, <1>6, <1>7, <2>2, <2>4, Zenon
  <2> QED BY <1>5, <1>6, <1>7, <2>3, <2>5, Zenon
<1> HIDE DEF ops2
<1>12. Draws(ops3, Cleared, l3)
  <2>1. l2 \cap BarCells(7) = {}
    BY <1>5, <1>8
  <2>2. (l2 \cup Cells(7, dh)) \cap BarCells(8) = {}
    BY <1>5, <1>8
  <2> HIDE DEF l2
  <2>3. Draws(ops2 \o shownum(7, dh), Cleared, l2 \cup Cells(7, dh))
    BY <1>5, <1>6, <1>7, <1>11, <2>1, Zenon
  <2> QED BY <1>5, <1>6, <1>7, <2>2, <2>3, Zenon
<1>13. (Flags \cup l3) \ Flags = l3
  BY <1>5, <1>9
<1> QED BY <1>3, <1>4, <1>12, <1>13

\* The cells a screen writes.
Painted(s) == IF s = "time" THEN Cleared \cup Flags ELSE Cleared

\* The cells of a screen are cells of the panel, and not the icon.
LEMMA PaintedCells ==
  /\ Cleared \cup Flags \subseteq Used \X COMs
  /\ <<ICON_SEG, ICON_COM>> \notin Cleared \cup Flags
  /\ \A seg \in Used : <<seg, 3>> \in Cleared /\ <<seg, 4>> \in Cleared
<1>1. \A i \in 1..7 : Bars[i] \in 2..5
  BY DEF Bars
<1>2. \A d \in 1..8 : \A i \in 1..7 : Pins[d][IF i <= 3 THEN 1 ELSE 2] \in Used
  BY DEF Used
<1>3. Digits \subseteq Used \X COMs /\ <<ICON_SEG, ICON_COM>> \notin Digits
  BY <1>1, <1>2 DEF Digits, BarCells, COMs, ICON_COM
<1>4. Points \cup Flags \subseteq Used \X COMs /\ <<ICON_SEG, ICON_COM>> \notin Points \cup Flags
  BY UsedSegs DEF Points, Flags, COMs, ICON_SEG
<1>5. ASSUME NEW seg \in Used PROVE <<seg, 3>> \in Digits /\ <<seg, 4>> \in Digits
  <2>1. PICK d \in 1..8, j \in {1, 2} : seg = Pins[d][j]
    BY DEF Used
  <2>2. Bars[2] = 3 /\ Bars[3] = 4 /\ Bars[5] = 4 /\ Bars[7] = 3
    BY DEF Bars
  <2>3. /\ <<Pins[d][1], 3>> \in BarCells(d) /\ <<Pins[d][1], 4>> \in BarCells(d)
        /\ <<Pins[d][2], 3>> \in BarCells(d) /\ <<Pins[d][2], 4>> \in BarCells(d)
    BY <2>2 DEF BarCells
  <2> QED BY <2>1, <2>3 DEF Digits
<1> QED BY <1>3, <1>4, <1>5 DEF Cleared

\* A screen writes the same cells whatever it shows, and leaves its face.
LEMMA ScreenDraws ==
  ASSUME NEW s \in Screens, NEW t \in Times
  PROVE  Draws(Ops[s][t], Painted(s), Face[s][t] \cap Painted(s))
<1>1. CASE s = "time"
  <2>1. Ops[s][t] = Show_time(t)
    BY <1>1 DEF Ops, Screens
  <2>2. Draws(Ops[s][t], Painted(s), Face[s][t])
    BY <1>1, <2>1, DrawsTime DEF Painted
  <2>3. Face[s][t] \subseteq Painted(s)
    BY <2>2 DEF Draws, Left, Written
  <2>4. Face[s][t] \cap Painted(s) = Face[s][t]
    BY <2>3
  <2> QED BY <2>2, <2>4
<1>2. CASE s = "date"
  <2>1. Ops[s][t] = Show_date(t)
    BY <1>2 DEF Ops, Screens
  <2>2. Draws(Ops[s][t], Painted(s), Face[s][t] \ Flags)
    BY <1>2, <2>1, DrawsDate DEF Painted
  <2>3. Face[s][t] \ Flags \subseteq Painted(s)
    BY <2>2 DEF Draws, Left, Written
  <2>4. Flags \cap Painted(s) = {}
    <3>1. Flags \cap Points = {}
      BY DEF Flags, Points
    <3>2. Flags \cap Digits = {}
      BY DigitsApart DEF Digits
    <3> QED BY <1>2, <3>1, <3>2 DEF Painted, Cleared
  <2>5. Face[s][t] \cap Painted(s) = Face[s][t] \ Flags
    BY <2>3, <2>4
  <2> QED BY <2>2, <2>5
<1> QED BY <1>1, <1>2 DEF Screens

\* What a screen makes of a cell: its own part of the face, and nothing of the
\* rest.
LEMMA NewCells ==
  ASSUME NEW s \in Screens, NEW t \in Times, NEW seg \in Used, NEW com \in COMs
  PROVE  com \in NewRam(LastOp[s][t])[seg] <=>
           IF <<seg, com>> \in Painted(s) THEN <<seg, com>> \in Face[s][t]
           ELSE com \in dispram[seg]
<1> DEFINE ops == Ops[s][t]
           last == LastOp[s][t]
<1>1. Draws(ops, Painted(s), Face[s][t] \cap Painted(s))
  BY ScreenDraws
<1> HIDE DEF ops
<1>2. /\ DOMAIN last = Written(ops)
      /\ \A c \in Written(ops) :
           last[c] <=> \E i \in DOMAIN ops :
                         /\ <<ops[i].seg, ops[i].com>> = c
                         /\ ops[i].on
                         /\ \A j \in (i + 1)..Len(ops) : <<ops[j].seg, ops[j].com>> # c
  BY DEF LastOp, Written, Cell, ops
<1> HIDE DEF last
<1>3. \A c \in Written(ops) : last[c] <=> c \in Left(ops)
  BY <1>2 DEF Left, Final, Cell
<1>4. com \in NewRam(last)[seg] <=>
        IF <<seg, com>> \in DOMAIN last THEN last[<<seg, com>>] ELSE com \in dispram[seg]
  BY DEF NewRam
<1> QED BY <1>1, <1>2, <1>3, <1>4 DEF Draws, last

\* Every SEG is sent again after the first operation of a screen: at least two
\* operations write it.
LEMMA AllRewritten ==
  ASSUME NEW s \in Screens, NEW t \in Times PROVE Used \subseteq Rewritten[s][t]
<1> DEFINE ops == Ops[s][t]
<1>1. Draws(ops, Painted(s), Face[s][t] \cap Painted(s))
  BY ScreenDraws
<1>2. Rewritten[s][t] = {ops[i].seg : i \in 2..Len(ops)}
  BY DEF Rewritten
<1> HIDE DEF ops
<1>3. DOMAIN ops = 1..Len(ops) /\ Len(ops) \in Nat
  BY <1>1, LenProperties DEF Draws
<1> SUFFICES ASSUME NEW seg \in Used PROVE seg \in Rewritten[s][t]
  OBVIOUS
<1>4. <<seg, 3>> \in Written(ops) /\ <<seg, 4>> \in Written(ops)
  BY <1>1, PaintedCells DEF Draws, Painted
<1>5. PICK i \in 1..Len(ops), j \in 1..Len(ops) :
        ops[i].seg = seg /\ ops[i].com = 3 /\ ops[j].seg = seg /\ ops[j].com = 4
  BY <1>3, <1>4 DEF Written, Cell
<1>6. i \in 2..Len(ops) \/ j \in 2..Len(ops)
  BY <1>3, <1>5
<1> QED BY <1>2, <1>5, <1>6
-----------------------------------------------------------------------------
(***************************************************************************)
(* The invariant.                                                          *)
(***************************************************************************)
IconLit == ICON_COM \in dispram[ICON_SEG]

\* While the WiFi task is in the middle of its command, the command is the last
\* one; from its store on, dispram has it; and so it stays while nothing
\* blinks, because the timer callback has nothing to store.
IconInv ==
  /\ pc["wifi"] # "idle" => (on["wifi"] <=> link = 1)
  /\ pc["wifi"] \in {"low", "lowbits", "high", "highbits"} => (link = 1 <=> IconLit)
  /\ pc["wifi"] = "idle" /\ gsBlinkStatus = 0 /\ ~raced => (link = 1 <=> IconLit)
  /\ gsBlinkStatus = 0 /\ ~raced => pc["timer"] \notin {"blink", "load", "store"}

PInv ==
  /\ PanelTypeOK
  /\ pc \in [Writers -> Steps \cup {"check", "blink"}]
  /\ IconInv

\* What is sent of a transfer before it is interrupted.
LEMMA PrefixesType ==
  ASSUME NEW x PROVE Transfer(x) \in Seq(Bits) /\ Prefixes(x) \subseteq Seq(Bits)
<1> DEFINE addr == 2 * ICON_SEG + (IF pc[x] = "lowbits" THEN 0 ELSE 1)
<1>1. addr \in Nat
  BY DEF ICON_SEG
<1> HIDE DEF addr
<1>2. Transfer(x) = W1622_q(addr, dat[x])
  BY DEF Transfer, addr
<1>3. Transfer(x) \in Seq(Bits) /\ Len(Transfer(x)) = 13
  BY <1>1, <1>2, TransferType
<1>4. \A n \in 0..13 : SubSeq(Transfer(x), 1, n) \in Seq(Bits)
  <2> TAKE n \in 0..13
  <2> DEFINE f == Transfer(x)
  <2> HIDE DEF f
  <2>1. f \in Seq(Bits) /\ Len(f) = 13
    BY <1>3 DEF f
  <2>2. 1 \in Int /\ n \in Int /\ \A i \in 1..n : f[i] \in Bits
    <3>1. \A i \in 1..n : i \in 1..Len(f)
      BY <2>1
    <3>2. \A i \in 1..n : f[i] \in Bits
      BY <2>1, <3>1, ElementOfSeq
    <3> QED BY <3>2
  <2>3. SubSeq(f, 1, n) \in Seq(Bits)
    BY <2>1, <2>2, SubSeqProperties
  <2> QED BY <2>3 DEF f
<1> QED BY <1>3, <1>4 DEF Prefixes

\* What a task finds clocked in.
LEMMA ClockedType == ASSUME PInv PROVE Clocked \subseteq Seq(Bits)
<1>1. CASE cs = 1
  <2>1. Clocked = {<<>>}
    BY <1>1 DEF Clocked
  <2>2. <<>> \in Seq(Bits)
    OBVIOUS
  <2> QED BY <2>1, <2>2
<1>2. CASE cs # 1 /\ pc["wifi"] \in {"lowbits", "highbits"}
  <2>1. Clocked = {shift \o bits : bits \in Prefixes("wifi")}
    BY <1>2 DEF Clocked, PInv, PanelTypeOK
  <2>2. shift \in Seq(Bits)
    BY DEF PInv, PanelTypeOK, Bits
  <2>3. \A bits \in Prefixes("wifi") : shift \o bits \in Seq(Bits)
    BY <2>2, PrefixesType, ConcatProperties
  <2> QED BY <2>1, <2>3
<1>3. CASE cs # 1 /\ pc["wifi"] \notin {"lowbits", "highbits"}
  <2>1. Clocked = Prefixes("timer")
    BY <1>3 DEF Clocked
  <2> QED BY <2>1, PrefixesType
<1> QED BY <1>1, <1>2, <1>3

\* The first operation of a screen, whatever it interrupts.
LEMMA FirstOpType ==
  ASSUME PInv, NEW op \in ScreenOps, NEW bits \in Clocked
  PROVE  FirstOp(op, bits) \in Ram
<1> DEFINE byte == IF op.on THEN dispram[op.seg] \cup {op.com}
                   ELSE dispram[op.seg] \ {op.com}
           t1 == W1622_q(2 * op.seg, byte)
           t2 == W1622_q(2 * op.seg + 1, byte)
<1>1. op.seg \in Nat
  <2>1. op.seg \in Used
    BY DEF ScreenOps
  <2> QED BY <2>1, UsedSegs
<1>2. 2 * op.seg \in Nat /\ 2 * op.seg + 1 \in Nat
  BY <1>1
<1>3. t1 \in Seq(Bits) /\ t2 \in Seq(Bits)
  <2> HIDE DEF byte
  <2> QED BY <1>2, TransferType
<1>4. FirstOp(op, bits) = Stored(Stored(panel, bits \o t1), t2)
  BY DEF FirstOp
<1> HIDE DEF t1, t2
<1>5. bits \o t1 \in Seq(Bits)
  BY <1>3, ClockedType, ConcatProperties
<1>6. panel \in Ram
  BY DEF PInv, PanelTypeOK, Ram
<1>7. Stored(panel, bits \o t1) \in Ram
  BY <1>5, <1>6, StoredType
<1> QED BY <1>3, <1>4, <1>7, StoredType
-----------------------------------------------------------------------------
(***************************************************************************)
(* The steps.                                                              *)
(***************************************************************************)
\* The program starts in a state of the invariant.
LEMMA PanelInitInv == Init => PInv
<1> SUFFICES ASSUME Init PROVE PInv
  OBVIOUS
<1> USE PanelAssumption
<1>1. ICON_SEG \in Used
  BY UsedSegs DEF ICON_SEG
<1>2. PanelTypeOK
  <2>1. 0 \in 0..BLINK_PERIOD /\ 0 \in 0..MaxMsgs /\ <<>> \in Seq({0, 1})
    OBVIOUS
  <2>2. [s \in Used |-> {}] \in [Used -> SUBSET COMs]
    OBVIOUS
  <2>3. [x \in Writers |-> {}] \in [Writers -> SUBSET COMs]
    OBVIOUS
  <2>4. [x \in Writers |-> FALSE] \in [Writers -> BOOLEAN]
    OBVIOUS
  <2>5. pc["wifi"] = "idle" /\ pc["timer"] = "idle"
    BY DEF Init, Writers
  <2> QED BY <2>1, <2>2, <2>3, <2>4, <2>5 DEF Init, PanelTypeOK, Steps, Screens
<1>3. pc \in [Writers -> Steps \cup {"check", "blink"}]
  BY DEF Init, Steps
<1>4. IconInv
  BY <1>1 DEF Init, IconInv, IconLit, Writers
<1> QED BY <1>2, <1>3, <1>4 DEF PInv

\* A screen.
LEMMA ShowInv ==
  ASSUME PInv, NEW s \in Screens, NEW t \in Times, Show(s, t), time' \in Times
  PROVE  PInv'
<1>1. dispram' \in Ram /\ (IconLit' <=> IconLit)
  BY ScreenKeepsIcon DEF Show, IconLit
<1>2. Ops[s][t][1] \in ScreenOps
  BY OpsType
<1>3. panel' \in Ram
  <2>1. PICK p \in {FirstOp(Ops[s][t][1], bits) : bits \in Clocked} :
          panel' = [seg \in Used |->
                      IF seg \in Rewritten[s][t] THEN dispram'[seg] ELSE p[seg]]
    BY DEF Show
  <2>2. p \in Ram
    BY <1>2, <2>1, FirstOpType
  <2> QED BY <1>1, <2>1, <2>2 DEF Ram
<1>4. /\ cs' = 1 /\ shift' = <<>> /\ screen' = s /\ msgs' = 0
      /\ UNCHANGED <<gsBlinkStatus, div_blink, pc, on, dat, oneshot, link, raced>>
  BY DEF Show
<1>5. PanelTypeOK'
  BY <1>1, <1>3, <1>4, PanelAssumption DEF PInv, PanelTypeOK, Ram, Screens
<1>6. IconInv'
  <2>1. UNCHANGED <<pc, on, link, gsBlinkStatus, raced>>
    BY <1>4
  <2> QED BY <1>1, <2>1 DEF PInv, IconInv
<1> QED BY <1>4, <1>5, <1>6 DEF PInv

\* An icon writer loads dispram.
LEMMA LoadInv == ASSUME PInv, NEW x \in Writers, Load(x) PROVE PInv'
<1> USE DEF PInv
<1>1. ICON_SEG \in Used
  BY UsedSegs DEF ICON_SEG
<1>2. /\ pc' = [pc EXCEPT ![x] = "store"] /\ pc[x] = "load"
      /\ x = "timer" => pc["wifi"] = "idle"
      /\ dat' = [dat EXCEPT ![x] = dispram[ICON_SEG]]
      /\ UNCHANGED <<dispram, panel, cs, shift, on, screen, time, gsBlinkStatus,
                     div_blink, oneshot, link, raced, msgs>>
  BY DEF Load, At, Goto, WriterOnly, lcdVars
<1>3. pc' \in [Writers -> Steps \cup {"check", "blink"}]
  BY <1>2 DEF Steps
<1>4. PanelTypeOK'
  BY <1>1, <1>2 DEF PanelTypeOK, Writers, Steps
<1>5. IconInv'
  BY <1>2 DEF IconInv, IconLit, Writers
<1> QED BY <1>3, <1>4, <1>5

\* An icon writer stores the new byte.
LEMMA StoreInv == ASSUME PInv, NEW x \in Writers, Store(x) PROVE PInv'
<1> USE DEF PInv
<1> DEFINE byte == IF on[x] THEN dat[x] \cup {ICON_COM} ELSE dat[x] \ {ICON_COM}
<1>1. ICON_SEG \in Used
  BY UsedSegs DEF ICON_SEG
<1>2. /\ pc' = [pc EXCEPT ![x] = "low"] /\ pc[x] = "store"
      /\ x = "timer" => pc["wifi"] = "idle"
      /\ dispram' = [dispram EXCEPT ![ICON_SEG] = byte]
      /\ dat' = [dat EXCEPT ![x] = byte]
      /\ UNCHANGED <<panel, cs, shift, on, screen, time, gsBlinkStatus,
                     div_blink, oneshot, link, raced, msgs>>
  BY DEF Store, At, Goto, WriterOnly
<1>3. byte \in SUBSET COMs /\ (ICON_COM \in byte <=> on[x])
  BY DEF PanelTypeOK, COMs, ICON_COM
<1> HIDE DEF byte
<1>4. dispram'[ICON_SEG] = byte
  BY <1>1, <1>2 DEF PanelTypeOK
<1>5. pc' \in [Writers -> Steps \cup {"check", "blink"}]
  BY <1>2 DEF Steps
<1>6. PanelTypeOK'
  BY <1>1, <1>2, <1>3 DEF PanelTypeOK, Writers, Steps
<1>7. IconInv'
  <2>1. CASE x = "wifi"
    BY <1>2, <1>3, <1>4, <2>1 DEF IconInv, IconLit, Writers
  <2>2. CASE x = "timer"
    BY <1>2, <2>2 DEF IconInv, IconLit, Writers
  <2> QED BY <2>1, <2>2 DEF Writers
<1> QED BY <1>5, <1>6, <1>7

\* A transfer of an icon writer begins.
LEMMA BeginInv == ASSUME PInv, NEW x \in Writers, Begin(x) PROVE PInv'
<1> USE DEF PInv
<1>1. ICON_SEG \in Used
  BY UsedSegs DEF ICON_SEG
<1>2. /\ \/ pc[x] = "low" /\ pc' = [pc EXCEPT ![x] = "lowbits"]
         \/ pc[x] = "high" /\ pc' = [pc EXCEPT ![x] = "highbits"]
      /\ x = "timer" => pc["wifi"] = "idle"
      /\ shift' \in Clocked /\ cs' = 0
      /\ UNCHANGED <<dispram, panel, on, screen, time, gsBlinkStatus,
                     div_blink, oneshot, link, raced, msgs>>
  BY DEF Begin, At, Goto, WriterOnly
<1>3. dat' \in [Writers -> SUBSET COMs]
  BY <1>1 DEF Begin, PanelTypeOK
<1>4. shift' \in Seq({0, 1})
  BY <1>2, ClockedType DEF Bits
<1>5. pc' \in [Writers -> Steps \cup {"check", "blink"}]
  BY <1>2 DEF Steps
<1>6. PanelTypeOK'
  BY <1>2, <1>3, <1>4 DEF PanelTypeOK, Writers, Steps
<1>7. IconInv'
  BY <1>2 DEF IconInv, IconLit, Writers
<1> QED BY <1>5, <1>6, <1>7

\* A transfer of an icon writer ends.
LEMMA EndInv == ASSUME PInv, NEW x \in Writers, End(x) PROVE PInv'
<1> USE DEF PInv
<1>1. /\ \/ /\ pc[x] = "lowbits" /\ pc' = [pc EXCEPT ![x] = "high"]
            /\ on' = on
         \/ /\ pc[x] = "highbits" /\ pc' = [pc EXCEPT ![x] = "idle"]
            /\ on' = [on EXCEPT ![x] = FALSE]
      /\ x = "timer" => pc["wifi"] = "idle"
      /\ cs' = 1 /\ shift' = <<>>
      /\ UNCHANGED <<dispram, screen, time, gsBlinkStatus,
                     div_blink, oneshot, link, raced, msgs>>
  BY DEF End, At, Goto, WriterOnly
<1>2. dat' \in [Writers -> SUBSET COMs]
  BY DEF End, PanelTypeOK
<1>3. panel' \in Ram
  <2>1. panel \in Ram /\ shift \in Seq(Bits)
    BY DEF PanelTypeOK, Ram, Bits
  <2>2. shift \o Transfer(x) \in Seq(Bits)
    BY <2>1, PrefixesType, ConcatProperties
  <2>3. Stored(panel, shift \o Transfer(x)) \in Ram
    BY <2>1, <2>2, StoredType
  <2>4. panel' = IF cs = 0 THEN Stored(panel, shift \o Transfer(x)) ELSE panel
    BY DEF End
  <2> QED BY <2>1, <2>3, <2>4
<1>4. pc' \in [Writers -> Steps \cup {"check", "blink"}]
  BY <1>1 DEF Steps
<1>5. PanelTypeOK'
  <2>1. on' \in [Writers -> BOOLEAN]
    BY <1>1 DEF PanelTypeOK
  <2>2. pc'["wifi"] \in Steps /\ pc'["timer"] \in Steps \cup {"check", "blink"}
    BY <1>1 DEF PanelTypeOK, Writers, Steps
  <2>3. <<>> \in Seq({0, 1})
    OBVIOUS
  <2> QED BY <1>1, <1>2, <1>3, <2>1, <2>2, <2>3 DEF PanelTypeOK, Ram
<1>6. IconInv'
  BY <1>1 DEF IconInv, IconLit, Writers
<1> QED BY <1>4, <1>5, <1>6

\* The timer callback.
LEMMA TimerInv ==
  ASSUME PInv, TimerScan \/ TimerCheck \/ TimerBlink PROVE PInv'
<1> USE DEF PInv
<1>1. CASE TimerScan
  <2>1. /\ pc["timer"] = "idle" /\ pc' = [pc EXCEPT !["timer"] = "check"]
        /\ UNCHANGED <<dispram, panel, cs, shift, screen, time, gsBlinkStatus, div_blink,
                       on, dat, link, raced, msgs>>
    BY <1>1 DEF TimerScan, At, Goto, lcdVars
  <2>2. oneshot' \in BOOLEAN
    BY <1>1 DEF TimerScan
  <2>3. pc' \in [Writers -> Steps \cup {"check", "blink"}]
    BY <2>1
  <2>4. pc'["wifi"] = pc["wifi"] /\ pc'["timer"] = "check"
    BY <2>1 DEF Writers
  <2>5. PanelTypeOK'
    BY <2>1, <2>2, <2>4 DEF PanelTypeOK
  <2>6. IconInv'
    BY <2>1, <2>4 DEF IconInv, IconLit
  <2> QED BY <2>3, <2>5, <2>6
<1>2. CASE TimerCheck
  <2>1. /\ pc["timer"] = "check"
        /\ pc' = [pc EXCEPT !["timer"] = IF gsBlinkStatus = 0 THEN "idle" ELSE "blink"]
        /\ UNCHANGED <<dispram, panel, cs, shift, screen, time, gsBlinkStatus, div_blink,
                       on, dat, oneshot, link, raced, msgs>>
    BY <1>2 DEF TimerCheck, At, Goto, lcdVars
  <2>2. pc' \in [Writers -> Steps \cup {"check", "blink"}]
    BY <2>1 DEF Steps
  <2>3. /\ pc'["wifi"] = pc["wifi"]
        /\ pc'["timer"] = IF gsBlinkStatus = 0 THEN "idle" ELSE "blink"
    BY <2>1 DEF Writers
  <2>4. PanelTypeOK'
    BY <2>1, <2>3 DEF PanelTypeOK, Steps
  <2>5. IconInv'
    BY <2>1, <2>3 DEF IconInv, IconLit
  <2> QED BY <2>2, <2>4, <2>5
<1>3. CASE TimerBlink
  <2>1. /\ pc["timer"] = "blink" /\ pc["wifi"] = "idle"
        /\ pc' = [pc EXCEPT !["timer"] =
                    IF div_blink + 1 <= BLINK_PERIOD THEN "load" ELSE "idle"]
        /\ on' = [on EXCEPT !["timer"] = div_blink + 1 <= BLINK_ON]
        /\ div_blink' = IF div_blink + 1 <= BLINK_PERIOD THEN div_blink + 1 ELSE 0
        /\ UNCHANGED <<dispram, panel, cs, shift, screen, time, gsBlinkStatus, dat,
                       oneshot, link, raced, msgs>>
    BY <1>3 DEF TimerBlink, At, Goto, lcdVars
  <2>2. pc' \in [Writers -> Steps \cup {"check", "blink"}]
    BY <2>1 DEF Steps
  <2>3. pc'["wifi"] = "idle" /\ pc'["timer"] \in {"load", "idle"}
    BY <2>1 DEF Writers
  <2>4. on' \in [Writers -> BOOLEAN] /\ on'["wifi"] = on["wifi"]
    BY <2>1 DEF PanelTypeOK, Writers
  <2>5. div_blink' \in 0..BLINK_PERIOD
    BY <2>1, PanelAssumption DEF PanelTypeOK
  <2>6. PanelTypeOK'
    BY <2>1, <2>3, <2>4, <2>5 DEF PanelTypeOK, Steps
  <2>7. IconInv'
    BY <2>1, <2>3, <2>4 DEF IconInv, IconLit
  <2> QED BY <2>2, <2>6, <2>7
<1> QED BY <1>1, <1>2, <1>3

\* The WiFi task begins a command.
LEMMA WifiInv ==
  ASSUME PInv, WifiNetUp \/ WifiNetDown \/ WifiOneshot PROVE PInv'
<1> USE DEF PInv
<1>1. ASSUME NEW status \in {0, 1}, UserLcdCtrl(status),
             gsBlinkStatus' = gsBlinkStatus \/ gsBlinkStatus' = 0
      PROVE  PInv'
  <2>1. /\ pc["wifi"] = "idle" /\ msgs < MaxMsgs /\ msgs' = msgs + 1
        /\ on' = [on EXCEPT !["wifi"] = (status = 1)]
        /\ pc' = [pc EXCEPT !["wifi"] = "load"]
        /\ link' = status
        /\ raced' = (pc["timer"] \in {"blink", "load", "store"})
        /\ UNCHANGED <<dispram, panel, cs, shift, screen, time, div_blink, dat, oneshot>>
    BY <1>1 DEF UserLcdCtrl, Goto, lcdVars
  <2>2. pc' \in [Writers -> Steps \cup {"check", "blink"}]
    BY <2>1 DEF Steps
  <2>3. pc'["wifi"] = "load" /\ pc'["timer"] = pc["timer"]
    BY <2>1 DEF Writers
  <2>4. on' \in [Writers -> BOOLEAN] /\ (on'["wifi"] <=> status = 1)
    BY <2>1 DEF PanelTypeOK, Writers
  <2>5. msgs' \in 0..MaxMsgs
    BY <2>1, PanelAssumption DEF PanelTypeOK
  <2>6. raced' \in BOOLEAN
    BY <2>1
  <2>7. PanelTypeOK'
    BY <1>1, <2>1, <2>3, <2>4, <2>5, <2>6 DEF PanelTypeOK, Steps
  <2>8. IconInv'
    BY <2>1, <2>3, <2>4 DEF IconInv, IconLit
  <2> QED BY <2>2, <2>7, <2>8
<1>2. CASE WifiOneshot
  <2>1. /\ oneshot' = FALSE /\ gsBlinkStatus' = 1
        /\ UNCHANGED <<dispram, panel, cs, shift, screen, time, div_blink, pc, on, dat,
                       link, raced, msgs>>
    BY <1>2 DEF WifiOneshot, lcdVars
  <2>2. PanelTypeOK'
    BY <2>1 DEF PanelTypeOK
  <2>3. IconInv'
    BY <2>1 DEF IconInv, IconLit
  <2> QED BY <2>1, <2>2, <2>3
<1> QED BY <1>1, <1>2 DEF WifiNetUp, WifiNetDown

\* Every step keeps the invariant.
LEMMA PanelStepInv == PInv /\ [Next]_vars => PInv'
<1> SUFFICES ASSUME PInv, [Next]_vars PROVE PInv'
  OBVIOUS
<1>1. CASE LcdTime
  <2>1. time' \in Times /\ Show("time", time')
    BY <1>1 DEF LcdTime
  <2> QED BY <2>1, ShowInv DEF Screens
<1>2. CASE LcdDate
  <2>1. time' \in Times /\ time \in Times /\ Show("date", time)
    BY <1>2 DEF LcdDate, PInv, PanelTypeOK
  <2> QED BY <2>1, ShowInv DEF Screens
<1>3. CASE WriterStep
  BY <1>3, LoadInv, StoreInv, BeginInv, EndInv DEF WriterStep
<1>4. CASE TimerScan \/ TimerCheck \/ TimerBlink
  BY <1>4, TimerInv
<1>5. CASE WifiNetUp \/ WifiNetDown \/ WifiOneshot
  BY <1>5, WifiInv
<1>6. CASE UNCHANGED vars
  <2>1. UNCHANGED <<dispram, panel, cs, shift, screen, time, gsBlinkStatus, div_blink,
                    pc, on, dat, oneshot, link, raced, msgs>>
    BY <1>6 DEF vars, lcdVars
  <2> QED BY <2>1 DEF PInv, PanelTypeOK, IconInv, IconLit
<1> QED BY <1>1, <1>2, <1>3, <1>4, <1>5, <1>6 DEF Next

\* The invariant of the three tasks that write the display.
THEOREM PanelInvariant == Spec => []PInv
BY PanelInitInv, PanelStepInv, PTL DEF Spec

\* The variables keep their types: in particular the display controller has a
\* byte for each SEG whatever transfers were cut or run into each other.
THEOREM PanelTypeCorrect == Spec => []PanelTypeOK
<1>1. PInv => PanelTypeOK
  BY DEF PInv
<1> QED BY <1>1, PanelInvariant, PTL

\* Once blinking is over, the icon in dispram tells whether the network is up,
\* however the LCD task, the WiFi task and the timer callback interleave.
THEOREM IconCorrect == Spec => []IconTellsLink
<1>1. PInv => IconTellsLink
  BY DEF PInv, IconInv, IconLit, IconTellsLink
<1> QED BY <1>1, PanelInvariant, PTL
-----------------------------------------------------------------------------
(***************************************************************************)
(* What a screen leaves.                                                   *)
(***************************************************************************)
\* The COMs of a SEG that can ever be lit.
Ink(seg) == {com \in COMs :
               <<seg, com>> \in Cleared \cup Flags \cup {<<ICON_SEG, ICON_COM>>}}

\* Nothing lights a cell that is neither a screen's nor the icon, not even an
\* icon writer that puts an old byte back; and the two marks stay lit from the
\* first screen on.
FaceInv ==
  /\ \A seg \in Used : dispram[seg] \subseteq Ink(seg)
  /\ \A x \in Writers : dat[x] \subseteq Ink(ICON_SEG)
  /\ screen # "none" => 1 \in dispram[9] /\ 1 \in dispram[10]

\* Both marks and the icon are cells of the panel.
LEMMA InkCells ==
  /\ 9 \in Used /\ 10 \in Used /\ 1 \in COMs
  /\ <<9, 1>> \in Flags /\ <<10, 1>> \in Flags
  /\ ICON_SEG \in Used /\ ICON_COM \in COMs
  /\ ICON_COM \in Ink(ICON_SEG)
  /\ ICON_SEG # 9 /\ ICON_SEG # 10
BY UsedSegs DEF COMs, Flags, Ink, ICON_SEG, ICON_COM

\* A screen.
LEMMA ShowFace ==
  ASSUME PInv, FaceInv, NEW s \in Screens, NEW t \in Times, Show(s, t),
         s = "date" => screen = "time"
  PROVE  /\ FaceInv'
         /\ (UNION {{<<seg, c>> : c \in panel'[seg]} : seg \in Used})
              \ {<<ICON_SEG, ICON_COM>>} = Face[s][t]
         /\ (ICON_COM \in panel'[ICON_SEG] <=> ICON_COM \in dispram'[ICON_SEG])
<1>1. dispram' = NewRam(LastOp[s][t]) /\ dat' = dat /\ screen' = s
  BY DEF Show
<1>2. ASSUME NEW seg \in Used PROVE panel'[seg] = dispram'[seg]
  <2>1. seg \in Rewritten[s][t]
    BY AllRewritten
  <2> QED BY <2>1 DEF Show
<1>3. dispram' \in Ram
  BY <1>1, ScreenKeepsIcon
<1>4. ASSUME NEW seg \in Used, NEW com \in COMs
      PROVE  com \in dispram'[seg] <=>
               IF <<seg, com>> \in Painted(s) THEN <<seg, com>> \in Face[s][t]
               ELSE com \in dispram[seg]
  BY <1>1, NewCells
<1>5. Face[s][t] \subseteq Painted(s) \cup Flags /\ Flags \subseteq Face[s][t]
  <2>1. Flags \subseteq Face[s][t]
    BY DEF Face, Flags, Screens
  <2>2. CASE s = "time"
    <3>1. Draws(Show_time(t), Painted(s), Face[s][t])
      BY <2>2, DrawsTime DEF Painted
    <3> QED BY <2>1, <3>1 DEF Draws, Left, Written
  <2>3. CASE s = "date"
    <3>1. Draws(Show_date(t), Painted(s), Face[s][t] \ Flags)
      BY <2>3, DrawsDate DEF Painted
    <3>2. Face[s][t] \ Flags \subseteq Painted(s)
      BY <3>1 DEF Draws, Left, Written
    <3> QED BY <2>1, <3>2
  <2> QED BY <2>2, <2>3 DEF Screens
<1>6. Painted(s) \subseteq Cleared \cup Flags
  BY DEF Painted
<1>7. 1 \in dispram'[9] /\ 1 \in dispram'[10]
  <2>1. CASE s = "time"
    <3>1. <<9, 1>> \in Painted(s) /\ <<10, 1>> \in Painted(s)
      BY <2>1, InkCells DEF Painted
    <3> QED BY <1>4, <1>5, <3>1, InkCells
  <2>2. CASE s = "date"
    <3>1. 1 \in dispram[9] /\ 1 \in dispram[10]
      BY <2>2 DEF FaceInv
    <3> QED BY <1>4, <1>5, <3>1, InkCells
  <2> QED BY <2>1, <2>2 DEF Screens
<1>8. ASSUME NEW seg \in Used, NEW com \in dispram'[seg]
      PROVE  com \in COMs /\ com \in Ink(seg)
  <2>1. com \in COMs
    BY <1>3 DEF Ram
  <2>2. CASE <<seg, com>> \in Painted(s)
    BY <1>6, <2>1, <2>2 DEF Ink
  <2>3. CASE <<seg, com>> \notin Painted(s)
    <3>1. com \in dispram[seg]
      BY <1>4, <2>1, <2>3
    <3> QED BY <2>1, <3>1 DEF FaceInv
  <2> QED BY <2>1, <2>2, <2>3
<1>9. FaceInv'
  <2>1. \A seg \in Used : dispram'[seg] \subseteq Ink(seg)
    BY <1>8
  <2> QED BY <1>1, <1>7, <2>1 DEF FaceInv
<1>10. ASSUME NEW seg \in Used, NEW com \in COMs, <<seg, com>> # <<ICON_SEG, ICON_COM>>
       PROVE  com \in panel'[seg] <=> <<seg, com>> \in Face[s][t]
  <2>1. com \in panel'[seg] <=> com \in dispram'[seg]
    BY <1>2
  <2>2. CASE <<seg, com>> \in Painted(s)
    BY <1>4, <2>1, <2>2
  <2>3. CASE <<seg, com>> \notin Painted(s) /\ <<seg, com>> \in Flags
    <3>1. com \in dispram'[seg]
      BY <1>7, <2>3 DEF Flags
    <3> QED BY <1>5, <2>1, <2>3, <3>1
  <2>4. CASE <<seg, com>> \notin Painted(s) /\ <<seg, com>> \notin Flags
    <3>1. <<seg, com>> \notin Cleared
      BY <2>4 DEF Painted
    <3>2. com \notin Ink(seg)
      BY <1>10, <2>4, <3>1 DEF Ink
    <3> QED BY <1>5, <1>8, <2>1, <2>4, <3>2
  <2> QED BY <2>2, <2>3, <2>4
<1>11. (UNION {{<<seg, c>> : c \in panel'[seg]} : seg \in Used}) \ {<<ICON_SEG, ICON_COM>>}
         = Face[s][t]
  <2>1. ASSUME NEW seg \in Used, NEW c \in panel'[seg], <<seg, c>> # <<ICON_SEG, ICON_COM>>
        PROVE  <<seg, c>> \in Face[s][t]
    BY <1>2, <1>8, <1>10, <2>1
  <2>2. ASSUME NEW cell \in Face[s][t]
        PROVE  /\ \E seg \in Used : \E c \in panel'[seg] : cell = <<seg, c>>
               /\ cell # <<ICON_SEG, ICON_COM>>
    <3>1. cell \in Cleared \cup Flags
      BY <1>5, <1>6
    <3>2. PICK seg \in Used, c \in COMs : cell = <<seg, c>>
      BY <3>1, PaintedCells
    <3>3. cell # <<ICON_SEG, ICON_COM>>
      BY <3>1, PaintedCells
    <3> QED BY <1>10, <3>2, <3>3
  <2> QED BY <2>1, <2>2
<1>12. ICON_COM \in panel'[ICON_SEG] <=> ICON_COM \in dispram'[ICON_SEG]
  BY <1>2, InkCells
<1> QED BY <1>9, <1>11, <1>12

\* The other steps draw no screen, and put back only what they took.
LEMMA FaceKept ==
  ASSUME PInv, FaceInv, [Next]_vars, ~LcdTime, ~LcdDate
  PROVE  FaceInv' /\ screen' = screen
<1> USE DEF FaceInv
<1>1. ASSUME UNCHANGED <<dispram, dat, screen>> PROVE FaceInv' /\ screen' = screen
  BY <1>1
<1>2. ASSUME NEW x \in Writers, Load(x) PROVE FaceInv' /\ screen' = screen
  <2>1. dat' = [dat EXCEPT ![x] = dispram[ICON_SEG]] /\ UNCHANGED <<dispram, screen>>
    BY <1>2 DEF Load, lcdVars, WriterOnly
  <2>2. \A y \in Writers : dat'[y] \subseteq Ink(ICON_SEG)
    BY <2>1, InkCells DEF PInv, PanelTypeOK
  <2> QED BY <2>1, <2>2
<1>3. ASSUME NEW x \in Writers, Store(x) PROVE FaceInv' /\ screen' = screen
  <2> DEFINE byte == IF on[x] THEN dat[x] \cup {ICON_COM} ELSE dat[x] \ {ICON_COM}
  <2>1. /\ dispram' = [dispram EXCEPT ![ICON_SEG] = byte]
        /\ dat' = [dat EXCEPT ![x] = byte]
        /\ screen' = screen
    BY <1>3 DEF Store, WriterOnly
  <2>2. byte \subseteq Ink(ICON_SEG)
    BY InkCells
  <2> HIDE DEF byte
  <2>3. \A y \in Writers : dat'[y] \subseteq Ink(ICON_SEG)
    BY <2>1, <2>2 DEF PInv, PanelTypeOK
  <2>4. \A seg \in Used : dispram'[seg] = IF seg = ICON_SEG THEN byte ELSE dispram[seg]
    BY <2>1 DEF PInv, PanelTypeOK
  <2>5. dispram'[9] = dispram[9] /\ dispram'[10] = dispram[10]
    BY <2>4, InkCells
  <2> QED BY <2>1, <2>2, <2>3, <2>4, <2>5
<1>4. ASSUME NEW x \in Writers, Begin(x) PROVE FaceInv' /\ screen' = screen
  <2>1. UNCHANGED <<dispram, screen>>
    BY <1>4 DEF Begin, WriterOnly
  <2>2. dat' = dat \/ \E byte \in {dat[x], dispram[ICON_SEG]} : dat' = [dat EXCEPT ![x] = byte]
    BY <1>4 DEF Begin
  <2>3. \A y \in Writers : dat'[y] \subseteq Ink(ICON_SEG)
    BY <2>2, InkCells DEF PInv, PanelTypeOK
  <2> QED BY <2>1, <2>3
<1>5. ASSUME NEW x \in Writers, End(x) PROVE FaceInv' /\ screen' = screen
  <2>1. UNCHANGED <<dispram, screen>> /\ (dat' = dat \/ dat' = [dat EXCEPT ![x] = {}])
    BY <1>5 DEF End, WriterOnly
  <2>2. \A y \in Writers : dat'[y] \subseteq Ink(ICON_SEG)
    BY <2>1 DEF PInv, PanelTypeOK
  <2> QED BY <2>1, <2>2
<1>6. CASE TimerScan \/ TimerCheck \/ TimerBlink
  BY <1>1, <1>6 DEF TimerScan, TimerCheck, TimerBlink, lcdVars
<1>7. CASE WifiNetUp \/ WifiNetDown \/ WifiOneshot
  BY <1>1, <1>7 DEF WifiNetUp, WifiNetDown, WifiOneshot, UserLcdCtrl, lcdVars
<1>8. CASE UNCHANGED vars
  BY <1>1, <1>8 DEF vars, lcdVars
<1> QED BY <1>2, <1>3, <1>4, <1>5, <1>6, <1>7, <1>8 DEF Next, WriterStep

\* Only what belongs to a screen, and the icon, is ever lit in dispram, and the
\* marks of Show_time_flag stay lit.
THEOREM FaceInvariant == Spec => []FaceInv
<1>1. Init => FaceInv
  <2> SUFFICES ASSUME Init PROVE FaceInv
    OBVIOUS
  <2> QED BY DEF Init, FaceInv
<1>2. PInv /\ FaceInv /\ [Next]_vars => FaceInv'
  <2> SUFFICES ASSUME PInv, FaceInv, [Next]_vars PROVE FaceInv'
    OBVIOUS
  <2>1. CASE LcdTime
    <3>1. time' \in Times /\ Show("time", time')
      BY <2>1 DEF LcdTime
    <3> QED BY <3>1, ShowFace DEF Screens
  <2>2. CASE LcdDate
    <3>1. time \in Times /\ Show("date", time) /\ screen = "time"
      BY <2>2 DEF LcdDate, PInv, PanelTypeOK
    <3> QED BY <3>1, ShowFace DEF Screens
  <2> QED BY <2>1, <2>2, FaceKept
<1> QED BY <1>1, <1>2, PanelInvariant, PTL DEF Spec

\* A screen shows exactly its cells when it is complete, and the icon as dispram
\* has it, whatever the icon writers had left half done in dispram and in the
\* controller.
THEOREM ScreensComplete == Spec => ScreenComplete
<1> DEFINE Complete ==
      screen' # screen =>
        /\ (UNION {{<<s, c>> : c \in panel'[s]} : s \in Used}) \ {<<ICON_SEG, ICON_COM>>}
             = Face[screen'][time']
        /\ (ICON_COM \in panel'[ICON_SEG] <=> ICON_COM \in dispram'[ICON_SEG])
<1>1. PInv /\ FaceInv /\ [Next]_vars => [Complete]_vars
  <2> SUFFICES ASSUME PInv, FaceInv, [Next]_vars PROVE Complete
    OBVIOUS
  <2>1. CASE LcdTime
    <3>1. time' \in Times /\ Show("time", time') /\ screen' = "time"
      BY <2>1 DEF LcdTime, Show
    <3> QED BY <3>1, ShowFace DEF Screens
  <2>2. CASE LcdDate
    <3>1. /\ time \in Times /\ Show("date", time) /\ screen = "time"
          /\ time' = time /\ screen' = "date"
      BY <2>2 DEF LcdDate, Show, PInv, PanelTypeOK
    <3> QED BY <3>1, ShowFace DEF Screens
  <2> QED BY <2>1, <2>2, FaceKept
<1> QED BY <1>1, PanelInvariant, FaceInvariant, PTL DEF Spec, ScreenComplete
-----------------------------------------------------------------------------
(***************************************************************************)
(* The button inside the panel.                                            *)
(***************************************************************************)
\* The panel is a system with a key scan in it: nothing but the timer callback
\* touches the button's state, and it does what KeyScan says.
THEOREM PanelScans == Spec => KeySpec
<1>1. Init => KeyInit
  BY DEF Init
<1>2. [Next]_vars => [KeyNext]_keyVars
  <2> SUFFICES ASSUME [Next]_vars PROVE [KeyNext]_keyVars
    OBVIOUS
  <2>1. CASE LcdTime \/ LcdDate
    BY <2>1 DEF LcdTime, LcdDate, Show
  <2>2. CASE WriterStep
    BY <2>2 DEF WriterStep, Load, Store, Begin, End, WriterOnly
  <2>3. CASE TimerScan
    BY <2>3 DEF TimerScan, KeyNext
  <2>4. CASE TimerCheck \/ TimerBlink
    BY <2>4 DEF TimerCheck, TimerBlink
  <2>5. CASE WifiNetUp \/ WifiNetDown \/ WifiOneshot
    BY <2>5 DEF WifiNetUp, WifiNetDown, WifiOneshot, UserLcdCtrl
  <2>6. CASE UNCHANGED vars
    BY <2>6 DEF vars
  <2> QED BY <2>1, <2>2, <2>3, <2>4, <2>5, <2>6 DEF Next
<1> QED BY <1>1, <1>2, PTL DEF Spec, KeySpec

\* So every press of the button is reported, once, and a long one as a long one.
THEOREM PanelButton ==
  Spec => []OneMessagePerPress /\ []LongPressReported /\ EveryPressReported
BY PanelScans, KeyOneMessage, KeyLongPress, KeyNoPressLost, PTL
=============================================================================
