------------------------------ MODULE LayoutLemmas ------------------------------
(***************************************************************************)
(* What the proofs about both layout macros need: the sizes of kinds, the  *)
(* offsets that adding up lengths gives, headers that are read as they     *)
(* were written, and arithmetic modulo the alignment of a primitive.       *)
(***************************************************************************)
EXTENDS LayoutTypes, InductionLemmas, SequenceTheorems

-----------------------------------------------------------------------------
(* Kinds.                                                                  *)

(* A kind has a size, and an alignment that is that of a primitive.        *)
LEMMA KindTypes ==
  ASSUME NEW kind \in FixedValueKind
  PROVE  Size(kind) \in Nat /\ Align(kind) \in PrimitiveSizes
<1>1. /\ kind.name \in KindNames /\ kind.int \in PrimitiveSizes /\ kind.len \in Nat
  BY DEF FixedValueKind
<1>2. kind.int \in Nat /\ kind.len * kind.int \in Nat /\ PubkeySize \in Nat
  BY <1>1, SizesAssumption DEF PrimitiveSizes
<1>3. Size(kind) \in Nat
  BY <1>1, <1>2 DEF Size, KindNames
<1>4. Align(kind) \in PrimitiveSizes
  BY <1>1 DEF Align, PrimitiveSizes
<1>. QED
  BY <1>3, <1>4

-----------------------------------------------------------------------------
(* Offsets.                                                                *)

(* Lengths can be added up: there is a function that starts at b and grows *)
(* by the length of each field.                                            *)
LEMMA OffsetsExist ==
  ASSUME NEW n \in Nat, NEW b \in Nat, NEW d, \A i \in 1 .. n : d[i] \in Nat
  PROVE  \E w \in [1 .. n + 1 -> Nat] : w[1] = b /\ \A i \in 1 .. n : w[i + 1] = w[i] + d[i]
<1>1. PICK g : g = [i \in 1 .. n |-> [x \in Nat |-> x + d[i]]]
  OBVIOUS
<1>2. ASSUME NEW i \in 1 .. n, NEW x \in Nat PROVE g[i][x] = x + d[i] /\ g[i][x] \in Nat
  <2>1. g[i] = [y \in Nat |-> y + d[i]]
    BY <1>1
  <2>2. g[i][x] = x + d[i]
    BY <2>1
  <2>. QED
    BY <2>2
<1>3. PICK V : V = Nat
  OBVIOUS
<1>4. PICK w \in [1 .. n + 1 -> Nat] : w[1] = b /\ \A i \in 1 .. n : w[i + 1] = g[i][w[i]]
  <2>1. b \in V /\ StepsWithin(g, n, V)
    BY <1>2, <1>3 DEF StepsWithin
  <2>2. \E w \in [1 .. n + 1 -> V] : w[1] = b /\ \A i \in 1 .. n : w[i + 1] = g[i][w[i]]
    BY <2>1, RecursionExists
  <2>. QED
    BY <1>3, <2>2
<1>5. ASSUME NEW i \in 1 .. n PROVE w[i + 1] = w[i] + d[i]
  <2>1. w[i] \in Nat /\ w[i + 1] = g[i][w[i]]
    BY <1>4
  <2>. QED
    BY <1>2, <2>1
<1>. QED
  BY <1>4, <1>5

(* Offsets never go back.                                                  *)
LEMMA OffsetsGrow ==
  ASSUME NEW n \in Nat, NEW w, \A i \in 1 .. n + 1 : w[i] \in Nat,
         \A i \in 1 .. n : w[i] <= w[i + 1]
  PROVE  \A i, k \in 1 .. n + 1 : i <= k => w[i] <= w[k]
<1>. DEFINE S == {k \in 1 .. n + 1 : \A i \in 1 .. n + 1 : i <= k => w[i] <= w[k]}
<1>1. 1 \in S
  OBVIOUS
<1>2. ASSUME NEW k \in 1 .. n + 1, k \in S, k < n + 1 PROVE k + 1 \in S
  <2>1. k \in 1 .. n /\ k + 1 \in 1 .. n + 1
    BY <1>2
  <2>2. w[k] <= w[k + 1] /\ w[k] \in Nat /\ w[k + 1] \in Nat
    BY <2>1
  <2>3. ASSUME NEW i \in 1 .. n + 1, i <= k + 1 PROVE w[i] <= w[k + 1]
    <3>1. CASE i = k + 1
      BY <3>1, <2>2
    <3>2. CASE i # k + 1
      <4>1. i <= k
        BY <2>3, <3>2
      <4>2. w[i] <= w[k] /\ w[i] \in Nat
        BY <1>2, <4>1
      <4>. QED
        BY <2>2, <4>2
    <3>. QED
      BY <3>1, <3>2
  <2>. QED
    BY <2>1, <2>3
<1>3. n + 1 \in Nat
  OBVIOUS
<1>4. 1 .. n + 1 \subseteq S
  <2>. HIDE DEF S
  <2>. QED
    BY <1>1, <1>2, <1>3, UpToInduction
<1>. QED
  BY <1>4

-----------------------------------------------------------------------------
(* Length headers.                                                         *)

(* A header is made of bytes.                                              *)
LEMMA LenHeaderType ==
  ASSUME NEW n \in Nat, NEW width \in 0 .. MaxLenWidth
  PROVE  LenHeader(n, width) \in Seq(Byte) /\ Len(LenHeader(n, width)) = width
<1>1. \A x \in Nat : x % Radix \in Byte /\ x \div Radix \in Nat
  BY RadixAssumption DEF Byte
<1>2. ToLe(n) \in Seq(Byte) /\ Len(ToLe(n)) = 8
  <2>. DEFINE d1 == n \div Radix   d2 == d1 \div Radix  d3 == d2 \div Radix
              d4 == d3 \div Radix  d5 == d4 \div Radix  d6 == d5 \div Radix
              d7 == d6 \div Radix
  <2>1. d1 \in Nat
    BY <1>1
  <2>. HIDE DEF d1
  <2>2. d2 \in Nat
    BY <1>1, <2>1
  <2>. HIDE DEF d2
  <2>3. d3 \in Nat
    BY <1>1, <2>2
  <2>. HIDE DEF d3
  <2>4. d4 \in Nat
    BY <1>1, <2>3
  <2>. HIDE DEF d4
  <2>5. d5 \in Nat
    BY <1>1, <2>4
  <2>. HIDE DEF d5
  <2>6. d6 \in Nat
    BY <1>1, <2>5
  <2>. HIDE DEF d6
  <2>7. d7 \in Nat
    BY <1>1, <2>6
  <2>. HIDE DEF d7
  <2>8. ToLe(n) = << n % Radix, d1 % Radix, d2 % Radix, d3 % Radix,
                     d4 % Radix, d5 % Radix, d6 % Radix, d7 % Radix >>
    BY DEF ToLe, d1, d2, d3, d4, d5, d6, d7
  <2>9. /\ n % Radix \in Byte /\ d1 % Radix \in Byte /\ d2 % Radix \in Byte
        /\ d3 % Radix \in Byte /\ d4 % Radix \in Byte /\ d5 % Radix \in Byte
        /\ d6 % Radix \in Byte /\ d7 % Radix \in Byte
    BY <1>1, <2>1, <2>2, <2>3, <2>4, <2>5, <2>6, <2>7
  <2>. QED
    BY <2>8, <2>9
<1>3. width \in 0 .. 8
  BY DEF MaxLenWidth
<1>a. \A i \in 1 .. width : ToLe(n)[i] \in Byte
  <2>. SUFFICES ASSUME NEW i \in 1 .. width PROVE ToLe(n)[i] \in Byte
    OBVIOUS
  <2>1. i \in 1 .. Len(ToLe(n))
    BY <1>2, <1>3
  <2>. QED
    BY <1>2, <2>1, ElementOfSeq
<1>4. /\ SubSeq(ToLe(n), 1, width) \in Seq(Byte)
      /\ Len(SubSeq(ToLe(n), 1, width)) = IF 1 <= width THEN width - 1 + 1 ELSE 0
  BY <1>3, <1>a, SubSeqProperties
<1>. QED
  BY <1>3, <1>4 DEF LenHeader

(* Reading one gives a number.                                             *)
LEMMA HeaderReadType ==
  ASSUME NEW m, NEW a \in Nat, NEW width \in 0 .. MaxLenWidth,
         \A i \in 1 .. width : m[a + i - 1] \in Nat
  PROVE  ReadLenHeader(m, a, width) \in Nat
<1>. DEFINE d == [i \in 1 .. 8 |-> IF i <= width THEN m[a + i - 1] ELSE 0]
<1>1. \A i \in 1 .. 8 : d[i] \in Nat
  <2>. SUFFICES ASSUME NEW i \in 1 .. 8 PROVE d[i] \in Nat
    OBVIOUS
  <2>1. CASE i <= width
    <3>1. i \in 1 .. width
      BY <2>1 DEF MaxLenWidth
    <3>. QED
      BY <2>1, <3>1
  <2>2. CASE ~(i <= width)
    BY <2>2
  <2>. QED
    BY <2>1, <2>2
<1>. HIDE DEF d
<1>2. \A x \in Nat : Radix * x \in Nat
  BY RadixAssumption
<1>3. FromLe(d) \in Nat
  <2>. DEFINE e7 == d[7] + Radix * d[8]  e6 == d[6] + Radix * e7  e5 == d[5] + Radix * e6
              e4 == d[4] + Radix * e5    e3 == d[3] + Radix * e4  e2 == d[2] + Radix * e3
  <2>7. e7 \in Nat
    BY <1>1, <1>2
  <2>. HIDE DEF e7
  <2>6. e6 \in Nat
    BY <1>1, <1>2, <2>7
  <2>. HIDE DEF e6
  <2>5. e5 \in Nat
    BY <1>1, <1>2, <2>6
  <2>. HIDE DEF e5
  <2>4. e4 \in Nat
    BY <1>1, <1>2, <2>5
  <2>. HIDE DEF e4
  <2>3. e3 \in Nat
    BY <1>1, <1>2, <2>4
  <2>. HIDE DEF e3
  <2>2. e2 \in Nat
    BY <1>1, <1>2, <2>3
  <2>. HIDE DEF e2
  <2>1. d[1] + Radix * e2 \in Nat
    BY <1>1, <1>2, <2>2
  <2>. QED
    BY <2>1 DEF FromLe, e2, e3, e4, e5, e6, e7
<1>. QED
  BY <1>3 DEF ReadLenHeader, d

(* One digit of a number, and the rest of it.                              *)
LEMMA DigitOf ==
  ASSUME NEW n \in Nat
  PROVE  /\ n % Radix \in Byte /\ n \div Radix \in Nat
         /\ n = (n % Radix) + Radix * (n \div Radix)
<1>. DEFINE R == Radix
<1>1. R \in Nat \ {0}
  BY RadixAssumption
<1>. HIDE DEF R
<1>2. n % R \in 0 .. R - 1 /\ n \div R \in Nat /\ n = (n % R) + R * (n \div R)
  BY ONLY <1>1, n \in Nat
<1>. QED
  BY <1>2 DEF R, Byte

LEMMA DigitFirst ==
  ASSUME NEW d \in Byte, NEW x \in Nat
  PROVE  (d + Radix * x) % Radix = d /\ (d + Radix * x) \div Radix = x
<1>. DEFINE R == Radix
<1>1. R \in Nat \ {0} /\ d \in 0 .. R - 1
  BY RadixAssumption DEF Byte
<1>. HIDE DEF R
<1>2. (d + R * x) % R = d /\ (d + R * x) \div R = x
  BY ONLY <1>1, x \in Nat
<1>. QED
  BY <1>2 DEF R

\* What is left of n when its first k - 1 digits are taken off.
Left(n) ==
  LET d1 == n \div Radix   d2 == d1 \div Radix  d3 == d2 \div Radix
      d4 == d3 \div Radix  d5 == d4 \div Radix  d6 == d5 \div Radix
      d7 == d6 \div Radix
  IN << n, d1, d2, d3, d4, d5, d6, d7, d7 \div Radix >>

LEMMA LeftStep ==
  ASSUME NEW n \in Nat
  PROVE  /\ Left(n)[1] = n
         /\ \A k \in 1 .. 8 : /\ Left(n)[k] \in Nat /\ Left(n)[k + 1] = Left(n)[k] \div Radix
                              /\ ToLe(n)[k] = Left(n)[k] % Radix
<1>. DEFINE q == Left(n)
<1>1. /\ q[1] = n
      /\ q[2] = q[1] \div Radix /\ q[3] = q[2] \div Radix /\ q[4] = q[3] \div Radix
      /\ q[5] = q[4] \div Radix /\ q[6] = q[5] \div Radix /\ q[7] = q[6] \div Radix
      /\ q[8] = q[7] \div Radix /\ q[9] = q[8] \div Radix
  BY DEF Left
<1>2. ToLe(n) = << q[1] % Radix, q[2] % Radix, q[3] % Radix, q[4] % Radix,
                   q[5] % Radix, q[6] % Radix, q[7] % Radix, q[8] % Radix >>
  BY DEF Left, ToLe
<1>. HIDE DEF q
<1>3. \A x \in Nat : x \div Radix \in Nat
  BY DigitOf
<1>4. /\ q[1] \in Nat /\ q[2] \in Nat /\ q[3] \in Nat /\ q[4] \in Nat
      /\ q[5] \in Nat /\ q[6] \in Nat /\ q[7] \in Nat /\ q[8] \in Nat
  <2>1. q[1] \in Nat
    BY <1>1
  <2>2. q[2] \in Nat
    BY <1>1, <1>3, <2>1, Zenon
  <2>3. q[3] \in Nat
    BY <1>1, <1>3, <2>2, Zenon
  <2>4. q[4] \in Nat
    BY <1>1, <1>3, <2>3, Zenon
  <2>5. q[5] \in Nat
    BY <1>1, <1>3, <2>4, Zenon
  <2>6. q[6] \in Nat
    BY <1>1, <1>3, <2>5, Zenon
  <2>7. q[7] \in Nat
    BY <1>1, <1>3, <2>6, Zenon
  <2>8. q[8] \in Nat
    BY <1>1, <1>3, <2>7, Zenon
  <2>. QED
    BY <2>1, <2>2, <2>3, <2>4, <2>5, <2>6, <2>7, <2>8
<1>5. ASSUME NEW k \in 1 .. 8 PROVE q[k] \in Nat /\ q[k + 1] = q[k] \div Radix
  <2>1. CASE k = 1
    <3>1. k + 1 = 2
      BY <2>1
    <3>. QED
      BY <1>1, <1>4, <2>1, <3>1, Zenon
  <2>2. CASE k = 2
    <3>1. k + 1 = 3
      BY <2>2
    <3>. QED
      BY <1>1, <1>4, <2>2, <3>1, Zenon
  <2>3. CASE k = 3
    <3>1. k + 1 = 4
      BY <2>3
    <3>. QED
      BY <1>1, <1>4, <2>3, <3>1, Zenon
  <2>4. CASE k = 4
    <3>1. k + 1 = 5
      BY <2>4
    <3>. QED
      BY <1>1, <1>4, <2>4, <3>1, Zenon
  <2>5. CASE k = 5
    <3>1. k + 1 = 6
      BY <2>5
    <3>. QED
      BY <1>1, <1>4, <2>5, <3>1, Zenon
  <2>6. CASE k = 6
    <3>1. k + 1 = 7
      BY <2>6
    <3>. QED
      BY <1>1, <1>4, <2>6, <3>1, Zenon
  <2>7. CASE k = 7
    <3>1. k + 1 = 8
      BY <2>7
    <3>. QED
      BY <1>1, <1>4, <2>7, <3>1, Zenon
  <2>8. CASE k = 8
    <3>1. k + 1 = 9
      BY <2>8
    <3>. QED
      BY <1>1, <1>4, <2>8, <3>1, Zenon
  <2>. QED
    BY <2>1, <2>2, <2>3, <2>4, <2>5, <2>6, <2>7, <2>8
<1>6. \A k \in 1 .. 8 : ToLe(n)[k] = q[k] % Radix
  BY <1>2
<1>. QED
  BY <1>1, <1>5, <1>6 DEF q

(* The header of a number that has no more than `width` digits is read as  *)
(* that number.  p holds the powers of the radix.                          *)
LEMMA HeaderReads ==
  ASSUME NEW m, NEW a \in Nat, NEW width \in 0 .. MaxLenWidth, NEW n \in Nat, NEW p,
         p[0] = 1, \A k \in 1 .. width : p[k - 1] \in Nat /\ p[k] = Radix * p[k - 1], n < p[width],
         \A i \in 1 .. width : m[a + i - 1] = LenHeader(n, width)[i]
  PROVE  ReadLenHeader(m, a, width) = n
<1>. DEFINE q == Left(n)
            d == [i \in 1 .. 8 |-> IF i <= width THEN m[a + i - 1] ELSE 0]
<1>1. /\ q[1] = n /\ width \in 0 .. 8
      /\ \A k \in 1 .. 8 : /\ q[k] \in Nat /\ q[k + 1] = q[k] \div Radix
                           /\ ToLe(n)[k] = q[k] % Radix
  BY LeftStep DEF MaxLenWidth
<1>2. \A i \in 1 .. width : LenHeader(n, width)[i] = q[i] % Radix
  <2>1. \A i \in 1 .. width : LenHeader(n, width)[i] = ToLe(n)[i] /\ i \in 1 .. 8
    BY <1>1 DEF LenHeader
  <2>. HIDE DEF q
  <2>. QED
    BY ONLY <1>1, <2>1
<1>. HIDE DEF q
<1>3. \A k \in 1 .. 9 : q[k] \in Nat
  <2>1. q[9] \in Nat
    BY <1>1, DigitOf
  <2>. QED
    BY <1>1, <2>1
<1>4. \A k \in 1 .. width + 1 : q[k] < p[width + 1 - k]
  <2>. DEFINE S == {k \in 1 .. width + 1 : q[k] < p[width + 1 - k]}
  <2>1. 1 \in S /\ width + 1 \in Nat
    BY <1>1
  <2>2. ASSUME NEW k \in 1 .. width + 1, k \in S, k < width + 1 PROVE k + 1 \in S
    <3>1. k \in 1 .. 8 /\ width + 1 - k \in 1 .. width /\ (width + 1 - k) - 1 = width + 1 - (k + 1)
      BY <1>1, <2>2
    <3>2. p[width + 1 - (k + 1)] \in Nat /\ p[width + 1 - k] = Radix * p[width + 1 - (k + 1)]
      BY <3>1
    <3>3. q[k] < Radix * p[width + 1 - (k + 1)] /\ q[k] \in Nat
      BY <1>1, <2>2, <3>1, <3>2
    <3>4. PICK x \in Nat, y \in Nat : x = q[k] \div Radix /\ y = p[width + 1 - (k + 1)]
      BY <3>2, <3>3, DigitOf
    <3>5. q[k] % Radix \in Nat /\ q[k] = (q[k] % Radix) + Radix * x
      BY <3>3, <3>4, DigitOf DEF Byte
    <3>6. Radix * x < Radix * y /\ Radix \in Nat
      BY <3>3, <3>4, <3>5, RadixAssumption
    <3>7. x < y
      BY <3>6
    <3>. QED
      BY <1>1, <3>1, <3>4, <3>7
  <2>3. 1 .. width + 1 \subseteq S
    <3>. HIDE DEF S
    <3>. QED
      BY <2>1, <2>2, UpToInduction
  <2>. QED
    BY <2>3
<1>5. q[width + 1] = 0
  <2>1. width + 1 \in 1 .. width + 1 /\ width + 1 - (width + 1) = 0 /\ width + 1 \in 1 .. 9
    BY <1>1
  <2>2. q[width + 1] < p[0] /\ q[width + 1] \in Nat
    BY <1>3, <1>4, <2>1
  <2>. QED
    BY <2>2
<1>6. \A k \in 1 .. 8 : q[k] = 0 => q[k + 1] = 0
  <2>1. 0 \div Radix = 0
    BY RadixAssumption
  <2>. QED
    BY <1>1, <2>1
<1>7. \A k \in 1 .. 9 : k > width => q[k] = 0
  <2>1. /\ q[1] = 0 => q[2] = 0
        /\ q[2] = 0 => q[3] = 0
        /\ q[3] = 0 => q[4] = 0
        /\ q[4] = 0 => q[5] = 0
        /\ q[5] = 0 => q[6] = 0
        /\ q[6] = 0 => q[7] = 0
        /\ q[7] = 0 => q[8] = 0
        /\ q[8] = 0 => q[9] = 0
    BY <1>6
  <2>. QED
    BY <1>1, <1>5, <2>1
<1>8. \A i \in 1 .. 8 : d[i] = q[i] % Radix
  <2>1. 0 % Radix = 0
    BY RadixAssumption
  <2>. SUFFICES ASSUME NEW i \in 1 .. 8 PROVE d[i] = q[i] % Radix
    OBVIOUS
  <2>2. CASE i <= width
    <3>1. i \in 1 .. width
      BY <1>1, <2>2
    <3>. QED
      BY <1>2, <2>2, <3>1
  <2>3. CASE i > width
    BY <1>1, <1>7, <2>1, <2>3
  <2>. QED
    BY <1>1, <2>2, <2>3
<1>. HIDE DEF d
<1>9. \A k \in 1 .. 8 : q[k] = d[k] + Radix * q[k + 1]
  BY <1>1, <1>8, DigitOf
<1>10. q[9] = 0 /\ q[8] = d[8]
  <2>1. q[9] = 0
    BY <1>1, <1>7
  <2>2. q[8] = d[8] + Radix * 0 /\ d[8] \in Nat
    <3>1. q[8] = d[8] + Radix * q[9]
      BY <1>9
    <3>. QED
      BY <1>1, <1>8, <2>1, <3>1, DigitOf DEF Byte
  <2>. QED
    BY <2>1, <2>2, RadixAssumption
<1>11. FromLe(d) = q[1]
  <2>1. /\ q[7] = d[7] + Radix * d[8] /\ q[6] = d[6] + Radix * q[7] /\ q[5] = d[5] + Radix * q[6]
        /\ q[4] = d[4] + Radix * q[5] /\ q[3] = d[3] + Radix * q[4] /\ q[2] = d[2] + Radix * q[3]
        /\ q[1] = d[1] + Radix * q[2]
    BY <1>9, <1>10
  <2>. QED
    BY ONLY <2>1 DEF FromLe
<1>. QED
  BY <1>1, <1>11 DEF ReadLenHeader, d

(* And the bytes of a header are the header of the number it is read as.   *)
LEMMA HeaderWrites ==
  ASSUME NEW m, NEW a \in Nat, NEW width \in 0 .. MaxLenWidth,
         \A i \in 1 .. width : m[a + i - 1] \in Byte
  PROVE  \A i \in 1 .. width : LenHeader(ReadLenHeader(m, a, width), width)[i] = m[a + i - 1]
<1>. DEFINE d == [i \in 1 .. 8 |-> IF i <= width THEN m[a + i - 1] ELSE 0]
            n == FromLe(d)
            q == Left(n)
<1>1. /\ d[1] \in Byte /\ d[2] \in Byte /\ d[3] \in Byte /\ d[4] \in Byte
      /\ d[5] \in Byte /\ d[6] \in Byte /\ d[7] \in Byte /\ d[8] \in Byte
  <2>1. \A i \in 1 .. 8 : d[i] \in Byte
    <3>. SUFFICES ASSUME NEW i \in 1 .. 8 PROVE d[i] \in Byte
      OBVIOUS
    <3>1. CASE i <= width
      <4>1. i \in 1 .. width
        BY <3>1 DEF MaxLenWidth
      <4>. QED
        BY <3>1, <4>1
    <3>2. CASE ~(i <= width)
      BY <3>2, RadixAssumption DEF Byte
    <3>. QED
      BY <3>1, <3>2
  <2>. HIDE DEF d
  <2>. QED
    BY <2>1
<1>2. ReadLenHeader(m, a, width) = n
  BY DEF ReadLenHeader
<1>3. \A i \in 1 .. width : d[i] = m[a + i - 1] /\ i \in 1 .. 8 /\ i <= width
  BY DEF MaxLenWidth
<1>. HIDE DEF d
<1>4. \A x \in Nat, c \in Byte : c + Radix * x \in Nat
  BY RadixAssumption DEF Byte
<1>5. \A i \in 1 .. 8 : n \in Nat /\ q[i] % Radix = d[i]
  <2>. DEFINE e7 == d[7] + Radix * d[8]  e6 == d[6] + Radix * e7  e5 == d[5] + Radix * e6
              e4 == d[4] + Radix * e5    e3 == d[3] + Radix * e4  e2 == d[2] + Radix * e3
  <2>1. n = d[1] + Radix * e2
    BY DEF FromLe
  <2>8. d[8] \in Nat /\ d[8] = d[8] + Radix * 0 /\ 0 \in Nat
    BY <1>1, RadixAssumption DEF Byte
  <2>7. e7 \in Nat /\ e7 % Radix = d[7] /\ e7 \div Radix = d[8]
    BY <1>1, <1>4, <2>8, DigitFirst
  <2>. HIDE DEF e7
  <2>6. e6 \in Nat /\ e6 % Radix = d[6] /\ e6 \div Radix = e7
    BY <1>1, <1>4, <2>7, DigitFirst
  <2>. HIDE DEF e6
  <2>5. e5 \in Nat /\ e5 % Radix = d[5] /\ e5 \div Radix = e6
    BY <1>1, <1>4, <2>6, DigitFirst
  <2>. HIDE DEF e5
  <2>4. e4 \in Nat /\ e4 % Radix = d[4] /\ e4 \div Radix = e5
    BY <1>1, <1>4, <2>5, DigitFirst
  <2>. HIDE DEF e4
  <2>3. e3 \in Nat /\ e3 % Radix = d[3] /\ e3 \div Radix = e4
    BY <1>1, <1>4, <2>4, DigitFirst
  <2>. HIDE DEF e3
  <2>2. e2 \in Nat /\ e2 % Radix = d[2] /\ e2 \div Radix = e3
    BY <1>1, <1>4, <2>3, DigitFirst
  <2>. HIDE DEF e2
  <2>9. n \in Nat /\ n % Radix = d[1] /\ n \div Radix = e2 /\ d[8] % Radix = d[8]
    <3>1. n \in Nat /\ n % Radix = d[1] /\ n \div Radix = e2
      BY <1>1, <1>4, <2>1, <2>2, DigitFirst
    <3>2. d[8] % Radix = d[8]
      BY <1>1, <2>8, DigitFirst
    <3>. QED
      BY <3>1, <3>2
  <2>. HIDE DEF n
  <2>10. /\ q[1] = n
         /\ q[2] = q[1] \div Radix /\ q[3] = q[2] \div Radix /\ q[4] = q[3] \div Radix
         /\ q[5] = q[4] \div Radix /\ q[6] = q[5] \div Radix /\ q[7] = q[6] \div Radix
         /\ q[8] = q[7] \div Radix
    BY DEF Left
  <2>. HIDE DEF q
  <2>11. /\ q[1] = n /\ q[2] = e2 /\ q[3] = e3 /\ q[4] = e4
         /\ q[5] = e5 /\ q[6] = e6 /\ q[7] = e7 /\ q[8] = d[8]
    <3>1. q[1] = n /\ q[2] = e2 /\ q[3] = e3
      BY ONLY <2>2, <2>9, <2>10
    <3>2. q[4] = e4 /\ q[5] = e5
      BY ONLY <2>3, <2>4, <2>10, <3>1
    <3>3. q[6] = e6 /\ q[7] = e7 /\ q[8] = d[8]
      BY ONLY <2>5, <2>6, <2>7, <2>10, <3>2
    <3>. QED
      BY ONLY <3>1, <3>2, <3>3
  <2>. QED
    BY <2>2, <2>3, <2>4, <2>5, <2>6, <2>7, <2>9, <2>11
<1>6. \A i \in 1 .. 8 : ToLe(n)[i] = q[i] % Radix
  BY <1>5, LeftStep
<1>. HIDE DEF n, q
<1>7. \A i \in 1 .. width : LenHeader(n, width)[i] = ToLe(n)[i]
  BY DEF LenHeader, MaxLenWidth
<1>. QED
  BY <1>2, <1>3, <1>5, <1>6, <1>7

-----------------------------------------------------------------------------
(* Alignment.  A buffer is known to start at a multiple of a base, or      *)
(* anywhere in the cycle of the base: what is aligned at both starts of    *)
(* the cycle is aligned at every one, and no more than the base is.        *)

LEMMA BaseMultiple ==
  ASSUME NEW b \in {1, 2, 4, 8}, NEW a \in PrimitiveSizes, a <= b,
         NEW x \in Nat, x % a = 0
  PROVE  (b + x) % a = 0
<1>1. CASE b = 1
  BY <1>1 DEF PrimitiveSizes
<1>2. CASE b = 2
  BY <1>2 DEF PrimitiveSizes
<1>3. CASE b = 4
  BY <1>3 DEF PrimitiveSizes
<1>4. CASE b = 8
  BY <1>4 DEF PrimitiveSizes
<1>. QED
  BY <1>1, <1>2, <1>3, <1>4

LEMMA BaseNoMultiple ==
  ASSUME NEW b \in {1, 2, 4, 8}, NEW a \in PrimitiveSizes, a > b,
         NEW x \in Nat, x % a = 0
  PROVE  (b + x) % a # 0
<1>1. CASE a = 1
  BY <1>1
<1>2. CASE a = 2
  BY <1>2
<1>3. CASE a = 4
  BY <1>3
<1>4. CASE a = 8
  BY <1>4
<1>5. CASE a = 16
  BY <1>5
<1>. QED
  BY <1>1, <1>2, <1>3, <1>4, <1>5 DEF PrimitiveSizes

(* An address is known modulo the alignment of the base, and so modulo any *)
(* smaller alignment.                                                      *)
LEMMA AddressResidue ==
  ASSUME NEW b \in {1, 2, 4, 8}, NEW a \in PrimitiveSizes, a <= b,
         NEW lo \in Nat, NEW r \in Nat, lo % b = r, NEW x \in Nat
  PROVE  (lo + x) % a = (r + x) % a
<1>1. CASE b = 1
  BY <1>1 DEF PrimitiveSizes
<1>2. CASE b = 2
  BY <1>2 DEF PrimitiveSizes
<1>3. CASE b = 4
  BY <1>3 DEF PrimitiveSizes
<1>4. CASE b = 8
  BY <1>4 DEF PrimitiveSizes
<1>. QED
  BY <1>1, <1>2, <1>3, <1>4
=============================================================================
