------------------------------ MODULE SumProofs ------------------------------
(***************************************************************************)
(* The sum of a sequence of bytes, which the check bytes of the command       *)
(* protocol and of the metering chip are made of: it is a number, it follows  *)
(* its recursion, and one changed byte changes it by the difference.  And what  *)
(* that needs: induction for sets of naturals, functions defined by recursion. *)
(***************************************************************************)
EXTENDS Integers, Sequences, SequenceTheorems, WellFoundedInduction, TLAPS

\* The sum both Check operators compute.
ByteSum(bytes) ==
  LET sum[i \in 0..Len(bytes)] == IF i = 0 THEN 0 ELSE sum[i - 1] + bytes[i]
  IN  sum[Len(bytes)]

\* Induction over the naturals, for a set: the least number outside it has no
\* predecessor outside it.
LEMMA SetInduction ==
  ASSUME NEW T \in SUBSET Nat, 0 \in T, \A n \in T : n + 1 \in T
  PROVE  T = Nat
<1> DEFINE U == Nat \ T
           R == OpToRel(<, Nat)
<1> SUFFICES ASSUME U # {} PROVE FALSE
  OBVIOUS
<1>1. PICK x \in U : \A y \in U : ~(<<y, x>> \in R)
  <2>1. IsWellFoundedOn(R, Nat)
    BY NatLessThanWellFounded
  <2> HIDE DEF R
  <2> QED BY <2>1, WFMin
<1>2. x # 0 /\ x \in Nat
  OBVIOUS
<1>3. x - 1 \in Nat /\ x - 1 < x
  BY <1>2
<1>4. x - 1 \in U => <<x - 1, x>> \in R
  BY <1>2, <1>3 DEF OpToRel
<1>5. x - 1 \in T
  BY <1>1, <1>3, <1>4
<1> QED BY <1>2, <1>5

\* f is defined by recursion over 0..m: its value for i is made by G from i and its
\* value for i - 1.
Recursive(f, m, S, a, G) ==
  /\ f \in [0..m -> S]
  /\ f[0] = a
  /\ \A i \in 1..m : f[i] = G[i][f[i - 1]]

\* Such a function exists.
LEMMA RecExists ==
  ASSUME NEW S, NEW n \in Nat, NEW a \in S, NEW G \in [1..n -> [S -> S]]
  PROVE  \E f : Recursive(f, n, S, a, G)
<1> USE DEF Recursive
<1> DEFINE Rec(f, m) == Recursive(f, m, S, a, G)
           P(m) == m <= n => \E f : Rec(f, m)
           T == {m \in Nat : P(m)}
<1>1. P(0)
  <2>1. Rec([i \in 0..0 |-> a], 0)
    OBVIOUS
  <2> QED BY <2>1
<1>2. ASSUME NEW m \in Nat, P(m) PROVE P(m + 1)
  <2> SUFFICES ASSUME m + 1 <= n PROVE \E f : Rec(f, m + 1)
    OBVIOUS
  <2>1. PICK f : Rec(f, m)
    BY <1>2
  <2> DEFINE g == [i \in 0..(m + 1) |-> IF i = m + 1 THEN G[m + 1][f[m]] ELSE f[i]]
  <2>2. f[m] \in S /\ f \in [0..m -> S] /\ f[0] = a
    BY <2>1
  <2>3. G[m + 1][f[m]] \in S
    BY <2>2
  <2>4. \A i \in 0..m : g[i] = f[i]
    OBVIOUS
  <2>5. g[m + 1] = G[m + 1][f[m]]
    OBVIOUS
  <2>6. g \in [0..(m + 1) -> S]
    BY <2>2, <2>3
  <2>7. \A i \in 1..(m + 1) : g[i] = G[i][g[i - 1]]
    <3> HIDE DEF g
    <3> TAKE i \in 1..(m + 1)
    <3>1. CASE i = m + 1
      <4>1. i - 1 = m /\ m \in 0..m
        BY <3>1
      <4> QED BY <2>4, <2>5, <3>1, <4>1
    <3>2. CASE i # m + 1
      <4>1. i \in 1..m /\ i - 1 \in 0..m /\ i \in 0..m
        BY <3>2
      <4> QED BY <2>1, <2>4, <4>1
    <3> QED BY <3>1, <3>2
  <2>8. Rec(g, m + 1)
    <3> HIDE DEF g
    <3>1. g[0] = a
      BY <2>2, <2>4
    <3> QED BY <2>6, <2>7, <3>1
  <2> QED BY <2>8
<1>3. T = Nat
  <2>1. T \in SUBSET Nat /\ 0 \in T /\ \A m \in T : m + 1 \in T
    <3> HIDE DEF P
    <3> QED BY <1>1, <1>2
  <2> HIDE DEF T
  <2> QED BY <2>1, SetInduction
<1>4. P(n)
  <2> HIDE DEF P
  <2> QED BY <1>3
<1> QED BY <1>4

\* f[n] is the sum of the first n bytes of b, for every n up to m.
Sums(f, b, m) ==
  /\ f \in [0..m -> Int]
  /\ f[0] = 0
  /\ \A i \in 1..m : f[i] = f[i - 1] + b[i]

\* The sums of the prefixes exist.
LEMMA SumsExist ==
  ASSUME NEW b \in Seq(Int), NEW m \in 0..Len(b)
  PROVE  \E f : Sums(f, b, m)
<1> DEFINE P(n) == n <= Len(b) => \E f : Sums(f, b, n)
           T == {n \in Nat : P(n)}
<1>1. P(0)
  <2>1. Sums([i \in 0..0 |-> 0], b, 0)
    BY DEF Sums
  <2> QED BY <2>1
<1>2. ASSUME NEW n \in Nat, P(n) PROVE P(n + 1)
  <2> SUFFICES ASSUME n + 1 <= Len(b) PROVE \E f : Sums(f, b, n + 1)
    OBVIOUS
  <2>1. PICK f : Sums(f, b, n)
    BY <1>2
  <2> DEFINE g == [i \in 0..(n + 1) |-> IF i = n + 1 THEN f[n] + b[n + 1] ELSE f[i]]
  <2>2. b[n + 1] \in Int /\ f[n] \in Int /\ f \in [0..n -> Int] /\ f[0] = 0
    BY <2>1 DEF Sums
  <2>3. \A i \in 0..(n + 1) : g[i] = IF i = n + 1 THEN f[n] + b[n + 1] ELSE f[i]
    OBVIOUS
  <2>4. \A i \in 0..n : g[i] = f[i]
    BY <2>3
  <2>5. g[n + 1] = f[n] + b[n + 1]
    BY <2>3
  <2>6. g \in [0..(n + 1) -> Int]
    BY <2>2
  <2>7. \A i \in 1..(n + 1) : g[i] = g[i - 1] + b[i]
    <3> HIDE DEF g
    <3> TAKE i \in 1..(n + 1)
    <3>1. CASE i = n + 1
      <4>1. i - 1 = n /\ n \in 0..n
        BY <3>1
      <4> QED BY <2>4, <2>5, <3>1, <4>1
    <3>2. CASE i # n + 1
      <4>1. i \in 1..n /\ i - 1 \in 0..n /\ i \in 0..n
        BY <3>2
      <4>2. f[i] = f[i - 1] + b[i]
        BY <2>1, <4>1 DEF Sums
      <4> QED BY <2>4, <4>1, <4>2
    <3> QED BY <3>1, <3>2
  <2>8. g[0] = 0
    BY <2>2, <2>4
  <2>9. Sums(g, b, n + 1)
    <3> HIDE DEF g
    <3> QED BY <2>6, <2>7, <2>8 DEF Sums
  <2> QED BY <2>9
<1>3. T = Nat
  <2>1. T \in SUBSET Nat /\ 0 \in T /\ \A n \in T : n + 1 \in T
    <3> HIDE DEF P
    <3> QED BY <1>1, <1>2
  <2> HIDE DEF T
  <2> QED BY <2>1, SetInduction
<1>4. P(m)
  <2> HIDE DEF P
  <2> QED BY <1>3
<1> QED BY <1>4

\* The sum is the last one of them.
LEMMA SumIsLast ==
  ASSUME NEW b \in Seq(Int)
  PROVE  \E f : Sums(f, b, Len(b)) /\ ByteSum(b) = f[Len(b)]
<1> DEFINE Q(f) == f = [i \in 0..Len(b) |-> IF i = 0 THEN 0 ELSE f[i - 1] + b[i]]
           s == CHOOSE f : Q(f)
<1>1. PICK f : Sums(f, b, Len(b))
  BY SumsExist
<1>2. Q(f)
  <2>1. f \in [0..Len(b) -> Int]
    BY <1>1 DEF Sums
  <2>2. \A i \in 0..Len(b) : f[i] = IF i = 0 THEN 0 ELSE f[i - 1] + b[i]
    BY <1>1 DEF Sums
  <2> QED BY <2>1, <2>2
<1>3. Q(s)
  <2> HIDE DEF Q
  <2> QED BY <1>2
<1>4. ByteSum(b) = s[Len(b)]
  BY DEF ByteSum
<1>5. Sums(s, b, Len(b))
  <2> HIDE DEF s
  <2>1. \A i \in 0..Len(b) : s[i] = IF i = 0 THEN 0 ELSE s[i - 1] + b[i]
    BY <1>3
  <2>2. \A i \in 0..Len(b) : s[i] = f[i]
    <3> DEFINE T == {n \in Nat : n <= Len(b) => s[n] = f[n]}
    <3>1. 0 \in T
      BY <1>1, <2>1 DEF Sums
    <3>2. ASSUME NEW n \in T PROVE n + 1 \in T
      <4> SUFFICES ASSUME n + 1 <= Len(b) PROVE s[n + 1] = f[n + 1]
        OBVIOUS
      <4>1. n \in 0..Len(b) /\ n + 1 \in 1..Len(b) /\ s[n] = f[n]
        OBVIOUS
      <4>2. s[n + 1] = s[n] + b[n + 1]
        BY <2>1, <4>1
      <4>3. f[n + 1] = f[n] + b[n + 1]
        BY <1>1, <4>1 DEF Sums
      <4> QED BY <4>1, <4>2, <4>3
    <3>3. T = Nat
      <4>1. T \in SUBSET Nat
        OBVIOUS
      <4> HIDE DEF T
      <4> QED BY <3>1, <3>2, <4>1, SetInduction
    <3> QED BY <3>3
  <2>3. f \in [0..Len(b) -> Int]
    BY <1>1 DEF Sums
  <2>4. s = f
    BY <1>3, <2>2, <2>3
  <2> QED BY <1>1, <2>4
<1> QED BY <1>4, <1>5

\* A sum of bytes is a number.
LEMMA SumType == ASSUME NEW b \in Seq(Int) PROVE ByteSum(b) \in Int
<1>1. PICK f : Sums(f, b, Len(b)) /\ ByteSum(b) = f[Len(b)]
  BY SumIsLast
<1> QED BY <1>1 DEF Sums

\* One changed byte changes the sum by the difference.
LEMMA SumChange ==
  ASSUME NEW b \in Seq(Int), NEW k \in 1..Len(b), NEW x \in Int
  PROVE  ByteSum([b EXCEPT ![k] = x]) = ByteSum(b) + (x - b[k])
<1> DEFINE c == [b EXCEPT ![k] = x]
<1>1. /\ c \in Seq(Int) /\ Len(c) = Len(b) /\ c[k] = x
      /\ \A i \in 1..Len(b) : i # k => c[i] = b[i]
  OBVIOUS
<1>2. PICK f : Sums(f, b, Len(b)) /\ ByteSum(b) = f[Len(b)]
  BY SumIsLast
<1>3. PICK g : Sums(g, c, Len(c)) /\ ByteSum(c) = g[Len(c)]
  <2> HIDE DEF c
  <2> QED BY <1>1, SumIsLast
<1> HIDE DEF c
<1>4. /\ b[k] \in Int /\ Len(b) \in Nat /\ Len(b) >= k
      /\ \A i \in 0..Len(b) : f[i] \in Int /\ g[i] \in Int
  <2>1. b[k] \in Int /\ Len(b) \in Nat /\ Len(b) >= k
    OBVIOUS
  <2>2. f \in [0..Len(b) -> Int] /\ g \in [0..Len(b) -> Int]
    BY <1>1, <1>2, <1>3 DEF Sums
  <2> QED BY <2>1, <2>2
<1> DEFINE P(n) == n <= Len(b) => g[n] = IF n < k THEN f[n] ELSE f[n] + (x - b[k])
           T == {n \in Nat : P(n)}
<1>5. P(0)
  BY <1>2, <1>3 DEF Sums
<1>6. ASSUME NEW n \in Nat, P(n) PROVE P(n + 1)
  <2> SUFFICES ASSUME n + 1 <= Len(b)
               PROVE  g[n + 1] = IF n + 1 < k THEN f[n + 1] ELSE f[n + 1] + (x - b[k])
    OBVIOUS
  <2>1. n \in 0..Len(b) /\ n + 1 \in 1..Len(b) /\ b[n + 1] \in Int
    BY <1>4
  <2>2. g[n] = IF n < k THEN f[n] ELSE f[n] + (x - b[k])
    BY <1>6, <2>1
  <2>3. f[n + 1] = f[n] + b[n + 1] /\ g[n + 1] = g[n] + c[n + 1]
    BY <1>1, <1>2, <1>3, <2>1, SMTT(30) DEF Sums
  <2>4. f[n] \in Int /\ g[n] \in Int
    BY <1>4, <2>1
  <2>5. CASE n + 1 = k
    <3>1. g[n] = f[n] /\ c[n + 1] = x /\ ~(n + 1 < k) /\ b[k] = b[n + 1]
      BY <1>1, <2>2, <2>5
    <3> QED BY <2>1, <2>3, <2>4, <3>1
  <2>6. CASE n + 1 # k
    <3>1. c[n + 1] = b[n + 1]
      BY <1>1, <2>1, <2>6
    <3>2. CASE n < k
      <4>1. g[n] = f[n] /\ n + 1 < k
        BY <2>2, <2>6, <3>2
      <4> QED BY <2>3, <3>1, <4>1
    <3>3. CASE ~(n < k)
      <4>1. g[n] = f[n] + (x - b[k]) /\ ~(n + 1 < k)
        BY <2>2, <3>3
      <4> QED BY <1>4, <2>1, <2>3, <2>4, <3>1, <4>1, SMTT(30)
    <3> QED BY <3>2, <3>3
  <2> QED BY <2>5, <2>6
<1>7. T = Nat
  <2>1. T \in SUBSET Nat /\ 0 \in T /\ \A n \in T : n + 1 \in T
    <3> HIDE DEF P
    <3> QED BY <1>5, <1>6
  <2> HIDE DEF T
  <2> QED BY <2>1, SetInduction
<1>8. P(Len(b))
  <2> HIDE DEF P
  <2> QED BY <1>4, <1>7
<1> QED BY <1>1, <1>2, <1>3, <1>4, <1>8 DEF c

\* A length that fits a u8 passes through it unchanged.
LEMMA ModSmall == ASSUME NEW n \in 0..255 PROVE n % 256 = n
OBVIOUS

\* Two bytes differ by less than 256.
LEMMA ByteDiff ==
  ASSUME NEW x \in 0..255, NEW y \in 0..255, x # y
  PROVE  x - y \in (-255)..255 /\ x - y # 0
OBVIOUS

\* The check byte for a sum s: its complement plus 0x33, cut to a byte.
CheckOf(s) == ((255 - (s % 256)) + 51) % 256

\* It is a byte.
LEMMA CheckOfType == ASSUME NEW s \in Int PROVE CheckOf(s) \in 0..255
BY DEF CheckOf

\* Sums that differ by less than 256 have different check bytes.
LEMMA CheckOfDiffers ==
  ASSUME NEW s \in Int, NEW e \in (-255)..255, e # 0
  PROVE  CheckOf(s + e) # CheckOf(s)
<1>1. (s + e) % 256 # s % 256
  OBVIOUS
<1>2. s % 256 \in 0..255 /\ (s + e) % 256 \in 0..255
  OBVIOUS
<1> DEFINE p == s % 256
           q == (s + e) % 256
<1> HIDE DEF p, q
<1>3. ((255 - p) + 51) % 256 # ((255 - q) + 51) % 256
  BY <1>1, <1>2 DEF p, q
<1> QED BY <1>3 DEF CheckOf, p, q
=============================================================================
