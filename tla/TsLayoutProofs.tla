----------------------------- MODULE TsLayoutProofs -----------------------------
(***************************************************************************)
(* Theorems about makeLayout, for every list of fields and gaps and every  *)
(* sequence of calls: its loops agree, and values read back.               *)
(***************************************************************************)
EXTENDS TsLayout, LayoutLemmas

-----------------------------------------------------------------------------
(* Values and their bytes.                                                 *)

\* p holds the powers of the radix up to that of a number of 64 bits.
WordPowers(p) ==
  /\ p[0] = 1 /\ p[1] = Radix /\ p[8] = Words
  /\ \A k \in 1 .. 8 : p[k - 1] \in Nat /\ p[k] \in Nat /\ p[k] = Radix * p[k - 1]

LEMMA WordPowersExist == \E p : WordPowers(p)
<1>. DEFINE R == Radix
            q2 == R * R   q3 == R * q2  q4 == R * q3  q5 == R * q4
            q6 == R * q5  q7 == R * q6  q8 == R * q7
<1>1. R \in Nat
  BY RadixAssumption
<1>2. q8 = Words
  BY DEF Words
<1>. HIDE DEF R
<1>3. \A x \in Nat : R * x \in Nat
  BY <1>1
<1>4. q2 \in Nat /\ q3 \in Nat /\ q4 \in Nat
  BY <1>1, <1>3
<1>. HIDE DEF q2, q3, q4
<1>5. q5 \in Nat /\ q6 \in Nat
  BY <1>3, <1>4
<1>. HIDE DEF q5, q6
<1>6. q7 \in Nat /\ q8 \in Nat
  BY <1>3, <1>5
<1>. HIDE DEF q7, q8
<1>7. /\ q2 = R * R /\ q3 = R * q2 /\ q4 = R * q3 /\ q5 = R * q4
      /\ q6 = R * q5 /\ q7 = R * q6 /\ q8 = R * q7 /\ R = R * 1
  BY <1>1 DEF q2, q3, q4, q5, q6, q7, q8
<1>8. PICK p : p = [k \in 0 .. 8 |-> CASE k = 0 -> 1 [] k = 1 -> R [] k = 2 -> q2 [] k = 3 -> q3
                                       [] k = 4 -> q4 [] k = 5 -> q5 [] k = 6 -> q6
                                       [] k = 7 -> q7 [] k = 8 -> q8]
  OBVIOUS
<1>9. /\ p[0] = 1 /\ p[1] = R /\ p[2] = q2 /\ p[3] = q3 /\ p[4] = q4 /\ p[5] = q5
      /\ p[6] = q6 /\ p[7] = q7 /\ p[8] = q8
  BY ONLY <1>8
<1>10. ASSUME NEW k \in 1 .. 8 PROVE p[k - 1] \in Nat /\ p[k] \in Nat /\ p[k] = R * p[k - 1]
  <2>1. k \in {1, 2, 3, 4, 5, 6, 7, 8}
    OBVIOUS
  <2>2. /\ p[0] \in Nat /\ p[1] \in Nat /\ p[2] \in Nat /\ p[3] \in Nat /\ p[4] \in Nat
        /\ p[5] \in Nat /\ p[6] \in Nat /\ p[7] \in Nat /\ p[8] \in Nat
    BY ONLY <1>1, <1>4, <1>5, <1>6, <1>9
  <2>3. /\ p[1] = R * p[0] /\ p[2] = R * p[1] /\ p[3] = R * p[2] /\ p[4] = R * p[3]
        /\ p[5] = R * p[4] /\ p[6] = R * p[5] /\ p[7] = R * p[6] /\ p[8] = R * p[7]
    BY ONLY <1>7, <1>9
  <2>. QED
    BY ONLY <2>1, <2>2, <2>3
<1>. QED
  BY <1>2, <1>9, <1>10 DEF WordPowers, R

\* Half of the numbers of 64 bits are the non-negative ones of an i64.
LEMMA WordsType ==
  /\ Words \in Nat /\ Words \div 2 \in Nat /\ Words = 2 * (Words \div 2)
  /\ \A n \in Byte : n < Radix
  /\ Radix \in Nat
<1>1. PICK p : WordPowers(p)
  BY WordPowersExist
<1>2. p[7] \in Nat /\ Words = Radix * p[7] /\ Words \in Nat
  <2>1. 8 - 1 = 7
    OBVIOUS
  <2>. QED
    BY <1>1, <2>1 DEF WordPowers
<1>3. Radix \in Nat /\ Radix = 2 * (Radix \div 2) /\ Radix \div 2 \in Nat
  BY RadixAssumption, TsInputsAssumption
<1>4. PICK h \in Nat : Radix = 2 * h
  BY <1>3
<1>5. PICK x \in Nat : x = h * p[7]
  BY <1>2, <1>4
<1>6. Words = 2 * x
  BY <1>2, <1>4, <1>5
<1>7. Words \div 2 = x
  BY ONLY <1>6, x \in Nat
<1>. QED
  BY <1>2, <1>3, <1>6, <1>7 DEF Byte

(* A number that is read has no more than `width` digits.                  *)
LEMMA HeaderBelow ==
  ASSUME NEW m, NEW width \in {1, 8}, \A j \in 1 .. width : m[1 + j - 1] \in Byte,
         NEW p, WordPowers(p)
  PROVE  ReadLenHeader(m, 1, width) \in Nat /\ ReadLenHeader(m, 1, width) < p[width]
<1>. DEFINE R == Radix
            d == [j \in 1 .. 8 |-> IF j <= width THEN m[1 + j - 1] ELSE 0]
<1>1. R \in Nat /\ 0 \in Byte
  BY RadixAssumption DEF Byte
<1>2. \A j \in 1 .. 8 : d[j] \in Byte /\ (j > width => d[j] = 0)
  BY <1>1
<1>3. ReadLenHeader(m, 1, width) = FromLe(d)
  BY DEF ReadLenHeader
<1>. HIDE DEF d
<1>4. \A x \in Byte : x \in Nat /\ x < R
  BY <1>1 DEF Byte
<1>. HIDE DEF R
<1>5. ASSUME NEW c \in Byte, NEW x \in Nat, NEW y \in Nat, x < y, NEW e, e = c + R * x
      PROVE  e \in Nat /\ e < R * y
  <2>1. PICK z \in Nat : y = x + 1 + z
    <3>1. y - x - 1 \in Nat /\ y = x + 1 + (y - x - 1)
      BY <1>5
    <3>. QED
      BY <3>1
  <2>2. R * y = R * x + R + R * z /\ R * x \in Nat /\ R * z \in Nat
    BY <1>1, <2>1
  <2>3. c \in Nat /\ c < R
    BY <1>4
  <2>. QED
    BY ONLY <1>1, <1>5, <2>2, <2>3
<1>. DEFINE e7 == d[7] + R * d[8]  e6 == d[6] + R * e7  e5 == d[5] + R * e6
            e4 == d[4] + R * e5    e3 == d[3] + R * e4  e2 == d[2] + R * e3  e1 == d[1] + R * e2
<1>6. FromLe(d) = e1
  BY DEF FromLe, R
<1>7. /\ \A k \in 0 .. 8 : p[k] \in Nat
      /\ p[1] = R /\ p[2] = R * p[1] /\ p[3] = R * p[2] /\ p[4] = R * p[3]
      /\ p[5] = R * p[4] /\ p[6] = R * p[5] /\ p[7] = R * p[6] /\ p[8] = R * p[7]
  <2>1. \A k \in 1 .. 8 : p[k - 1] \in Nat /\ p[k] \in Nat /\ p[k] = R * p[k - 1]
    BY DEF WordPowers, R
  <2>2. p[1] = R
    BY DEF WordPowers, R
  <2>3. \A k \in 0 .. 8 : p[k] \in Nat
    BY <2>1
  <2>4. /\ 2 - 1 = 1 /\ 3 - 1 = 2 /\ 4 - 1 = 3 /\ 5 - 1 = 4 /\ 6 - 1 = 5 /\ 7 - 1 = 6 /\ 8 - 1 = 7
        /\ \A k \in {2, 3, 4, 5, 6, 7, 8} : k \in 1 .. 8
    OBVIOUS
  <2>5. \A k \in {2, 3, 4, 5, 6, 7, 8} : p[k] = R * p[k - 1]
    BY <2>1, <2>4
  <2>. QED
    BY ONLY <2>2, <2>3, <2>4, <2>5
<1>8. CASE width = 8
  <2>8. d[8] \in Nat /\ d[8] < p[1]
    BY <1>2, <1>4, <1>7
  <2>7. e7 \in Nat /\ e7 < p[2]
    <3>1. d[7] \in Byte /\ p[1] \in Nat /\ p[2] = R * p[1] /\ e7 = d[7] + R * d[8]
      BY <1>2, <1>7
    <3>. HIDE DEF e7
    <3>. QED
      BY ONLY <1>5, <2>8, <3>1
  <2>. HIDE DEF e7
  <2>6. e6 \in Nat /\ e6 < p[3]
    <3>1. d[6] \in Byte /\ p[2] \in Nat /\ p[3] = R * p[2] /\ e6 = d[6] + R * e7
      BY <1>2, <1>7
    <3>. HIDE DEF e6
    <3>. QED
      BY ONLY <1>5, <2>7, <3>1
  <2>. HIDE DEF e6
  <2>5. e5 \in Nat /\ e5 < p[4]
    <3>1. d[5] \in Byte /\ p[3] \in Nat /\ p[4] = R * p[3] /\ e5 = d[5] + R * e6
      BY <1>2, <1>7
    <3>. HIDE DEF e5
    <3>. QED
      BY ONLY <1>5, <2>6, <3>1
  <2>. HIDE DEF e5
  <2>4. e4 \in Nat /\ e4 < p[5]
    <3>1. d[4] \in Byte /\ p[4] \in Nat /\ p[5] = R * p[4] /\ e4 = d[4] + R * e5
      BY <1>2, <1>7
    <3>. HIDE DEF e4
    <3>. QED
      BY ONLY <1>5, <2>5, <3>1
  <2>. HIDE DEF e4
  <2>3. e3 \in Nat /\ e3 < p[6]
    <3>1. d[3] \in Byte /\ p[5] \in Nat /\ p[6] = R * p[5] /\ e3 = d[3] + R * e4
      BY <1>2, <1>7
    <3>. HIDE DEF e3
    <3>. QED
      BY ONLY <1>5, <2>4, <3>1
  <2>. HIDE DEF e3
  <2>2. e2 \in Nat /\ e2 < p[7]
    <3>1. d[2] \in Byte /\ p[6] \in Nat /\ p[7] = R * p[6] /\ e2 = d[2] + R * e3
      BY <1>2, <1>7
    <3>. HIDE DEF e2
    <3>. QED
      BY ONLY <1>5, <2>3, <3>1
  <2>. HIDE DEF e2
  <2>1. e1 \in Nat /\ e1 < p[8]
    <3>1. d[1] \in Byte /\ p[7] \in Nat /\ p[8] = R * p[7] /\ e1 = d[1] + R * e2
      BY <1>2, <1>7
    <3>. HIDE DEF e1
    <3>. QED
      BY ONLY <1>5, <2>2, <3>1
  <2>. HIDE DEF e1
  <2>. QED
    BY <1>3, <1>6, <1>8, <2>1
<1>9. CASE width = 1
  <2>1. /\ d[2] = 0 /\ d[3] = 0 /\ d[4] = 0 /\ d[5] = 0 /\ d[6] = 0 /\ d[7] = 0 /\ d[8] = 0
    BY <1>2, <1>9
  <2>2. R * 0 = 0 /\ 0 + 0 = 0
    BY <1>1
  <2>3. e2 = 0
    BY ONLY <2>1, <2>2 DEF e2, e3, e4, e5, e6, e7
  <2>4. d[1] \in Nat /\ d[1] < R /\ d[1] + 0 = d[1]
    BY <1>2, <1>4
  <2>5. e1 = d[1]
    BY ONLY <2>2, <2>3, <2>4 DEF e1
  <2>. QED
    BY <1>3, <1>6, <1>7, <1>9, <2>4, <2>5
<1>. QED
  BY <1>8, <1>9

(* The class and the size of the values of a kind.                         *)
LEMMA FieldSizes ==
  ASSUME NEW f \in LayoutItem, f.kind \in FieldKinds
  PROVE  /\ ItemSize(f) \in Nat
         /\ f.kind = "u8" => ItemSize(f) = 1 /\ Class(f.kind) = "number"
         /\ f.kind \in {"u64", "i64"} => ItemSize(f) = 8 /\ Class(f.kind) = "bigint"
         /\ f.kind = "pubkey" => ItemSize(f) = PubkeySize /\ Class(f.kind) = "PublicKey"
<1>1. f.kind \in {"u8", "u64", "i64", "pubkey"} /\ PubkeySize \in Nat
  BY SizesAssumption DEF FieldKinds
<1>2. CASE f.kind = "u8"
  BY <1>2 DEF ItemSize, Class, Gaps
<1>3. CASE f.kind = "u64"
  BY <1>3 DEF ItemSize, Class, Gaps
<1>4. CASE f.kind = "i64"
  BY <1>4 DEF ItemSize, Class, Gaps
<1>5. CASE f.kind = "pubkey"
  BY <1>1, <1>5 DEF ItemSize, Class, Gaps
<1>. QED
  BY <1>1, <1>2, <1>3, <1>4, <1>5

LEMMA ItemSizes ==
  ASSUME NEW f \in LayoutItem, f.kind \in FieldKinds \cup Gaps
  PROVE  ItemSize(f) \in Nat /\ (f.kind \in Gaps => ItemSize(f) = f.size)
<1>1. CASE f.kind \in FieldKinds
  BY <1>1, FieldSizes DEF FieldKinds, Gaps
<1>2. CASE f.kind \in Gaps
  BY <1>2 DEF FieldKinds, Gaps, ItemSize, LayoutItem
<1>. QED
  BY <1>1, <1>2

\* The number whose digits a value is written as.
Digits(v) == IF v.n < 0 THEN v.n + Words ELSE v.n

LEMMA DigitsFit ==
  ASSUME NEW f \in LayoutItem, f.kind \in {"u8", "u64", "i64"}, NEW v \in JsValue, Fits(f.kind, v),
         NEW p, WordPowers(p)
  PROVE  /\ v.n \in Int /\ v = [class |-> v.class, n |-> v.n] /\ v.class = Class(f.kind)
         /\ Digits(v) \in Nat /\ Digits(v) < p[ItemSize(f)]
         /\ f.kind # "i64" => v.n >= 0
         /\ IF f.kind = "i64" /\ Digits(v) >= Words \div 2 THEN v.n = Digits(v) - Words
            ELSE v.n = Digits(v)
<1>1. ItemSize(f) = (IF f.kind = "u8" THEN 1 ELSE 8) /\ Class(f.kind) \in {"number", "bigint"}
  BY FieldSizes DEF FieldKinds
<1>2. v.class = Class(f.kind)
  BY DEF Fits
<1>3. v.n \in Int /\ v = [class |-> v.class, n |-> v.n]
  BY <1>1, <1>2 DEF JsValue
<1>4. p[1] = Radix /\ p[8] = Words
  BY DEF WordPowers
<1>5. PICK half \in Nat : half = Words \div 2 /\ Words = 2 * half
  BY WordsType
<1>6. CASE f.kind = "u8"
  BY <1>1, <1>2, <1>3, <1>4, <1>6, RadixAssumption DEF Fits, Digits, Byte
<1>7. CASE f.kind = "u64"
  <2>1. v.n \in 0 .. Words - 1 /\ Words \in Nat
    BY <1>7, WordsType DEF Fits
  <2>. QED
    BY <1>1, <1>2, <1>3, <1>4, <1>7, <2>1 DEF Digits
<1>8. CASE f.kind = "i64"
  <2>1. v.n \in -half .. half - 1
    BY <1>5, <1>8 DEF Fits
  <2>2. Digits(v) = IF v.n < 0 THEN v.n + 2 * half ELSE v.n
    BY <1>5 DEF Digits
  <2>3. /\ Digits(v) \in Nat /\ Digits(v) < 2 * half
        /\ IF Digits(v) >= half THEN v.n = Digits(v) - 2 * half ELSE v.n = Digits(v)
    BY ONLY <2>1, <2>2, half \in Nat
  <2>. QED
    BY <1>1, <1>2, <1>3, <1>4, <1>5, <1>8, <2>3
<1>. QED
  BY <1>6, <1>7, <1>8

LEMMA FirstHeaderReads ==
  ASSUME NEW m, NEW width \in 0 .. MaxLenWidth, NEW n \in Nat, NEW p,
         p[0] = 1, \A k \in 1 .. width : p[k - 1] \in Nat /\ p[k] = Radix * p[k - 1], n < p[width],
         \A k \in 1 .. width : m[k] = LenHeader(n, width)[k]
  PROVE  ReadLenHeader(m, 1, width) = n
<1>1. PICK a \in Nat : a = 1
  OBVIOUS
<1>2. \A k \in 1 .. width : a + k - 1 = k
  BY <1>1
<1>3. \A k \in 1 .. width : m[a + k - 1] = LenHeader(n, width)[k]
  BY <1>2
<1>4. ReadLenHeader(m, a, width) = n
  BY <1>3, HeaderReads
<1>. QED
  BY <1>1, <1>4

(* A value that fits is written in the bytes of its field, and read back   *)
(* from them.                                                              *)
LEMMA ValueReadsBack ==
  ASSUME NEW f \in LayoutItem, f.kind \in FieldKinds, NEW v \in JsValue, Fits(f.kind, v)
  PROVE  /\ Encoded(f, v) \in Seq(Byte) /\ Len(Encoded(f, v)) = ItemSize(f)
         /\ Decoded(f, Encoded(f, v)) = v
<1>1. CASE f.kind = "pubkey"
  <2>1. v.class = "PublicKey" /\ ItemSize(f) = PubkeySize
    BY <1>1, FieldSizes DEF Fits
  <2>2. v.bytes \in [1 .. PubkeySize -> Byte] /\ v = [class |-> "PublicKey", bytes |-> v.bytes]
    BY <2>1 DEF JsValue
  <2>3. v.bytes \in Seq(Byte) /\ Len(v.bytes) = PubkeySize
    BY <2>2, SizesAssumption
  <2>. QED
    BY <1>1, <2>1, <2>2, <2>3 DEF Encoded, Decoded
<1>2. CASE f.kind # "pubkey"
  <2>. DEFINE width == ItemSize(f)
  <2>1. PICK p : WordPowers(p)
    BY WordPowersExist
  <2>2. PICK u \in Nat : u = Digits(v)
    BY <1>2, <2>1, DigitsFit DEF FieldKinds
  <2>3. width \in {1, 8} /\ width \in 0 .. MaxLenWidth
    BY <1>2, FieldSizes DEF FieldKinds, MaxLenWidth
  <2>4. Encoded(f, v) = LenHeader(u, width)
    BY <1>2, <2>2 DEF Encoded, Digits
  <2>5. Encoded(f, v) \in Seq(Byte) /\ Len(Encoded(f, v)) = width
    BY <2>3, <2>4, LenHeaderType
  <2>6. Unsigned(f, Encoded(f, v)) = u
    <3>. DEFINE m == Encoded(f, v)
    <3>. HIDE DEF m
    <3>1. /\ p[0] = 1 /\ \A k \in 1 .. width : p[k - 1] \in Nat /\ p[k] = Radix * p[k - 1]
      BY <2>1, <2>3 DEF WordPowers
    <3>2. u < p[width]
      BY <1>2, <2>1, <2>2, DigitsFit DEF FieldKinds
    <3>3. m = LenHeader(u, width)
      BY <2>4 DEF m
    <3>4. \A k \in 1 .. width : m[k] = LenHeader(u, width)[k]
      BY <2>3, <3>3
    <3>. HIDE DEF width
    <3>5. ReadLenHeader(m, 1, width) = u
      BY <2>3, <3>1, <3>2, <3>4, FirstHeaderReads
    <3>. QED
      BY <3>5 DEF Unsigned, width, m
  <2>7. /\ v = [class |-> Class(f.kind), n |-> v.n]
        /\ IF f.kind = "i64" /\ u >= Words \div 2 THEN v.n = u - Words ELSE v.n = u
    BY <1>2, <2>1, <2>2, DigitsFit DEF FieldKinds
  <2>8. Decoded(f, Encoded(f, v)) = [class |-> Class(f.kind), n |-> v.n]
    BY <1>2, <2>6, <2>7 DEF Decoded
  <2>. QED
    BY <2>5, <2>7, <2>8
<1>. QED
  BY <1>1, <1>2

LEMMA FirstHeaderWrites ==
  ASSUME NEW m, NEW width \in 0 .. MaxLenWidth, \A k \in 1 .. width : m[k] \in Byte
  PROVE  \A k \in 1 .. width : LenHeader(ReadLenHeader(m, 1, width), width)[k] = m[k]
<1>1. PICK a \in Nat : a = 1
  OBVIOUS
<1>2. \A k \in 1 .. width : a + k - 1 = k
  BY <1>1
<1>3. \A k \in 1 .. width : m[a + k - 1] \in Byte
  BY <1>2
<1>4. \A k \in 1 .. width : LenHeader(ReadLenHeader(m, a, width), width)[k] = m[a + k - 1]
  BY <1>3, HeaderWrites
<1>. QED
  BY <1>1, <1>2, <1>4

(* The bytes of a field are read as a value that fits, and written back.   *)
LEMMA BytesWriteBack ==
  ASSUME NEW f \in LayoutItem, f.kind \in FieldKinds, NEW bytes \in Seq(Byte), Len(bytes) = ItemSize(f)
  PROVE  /\ Decoded(f, bytes) \in JsValue /\ Fits(f.kind, Decoded(f, bytes))
         /\ Decoded(f, bytes).class = Class(f.kind)
         /\ Encoded(f, Decoded(f, bytes)) = bytes
<1>1. CASE f.kind = "pubkey"
  <2>1. Class(f.kind) = "PublicKey" /\ Len(bytes) = PubkeySize
    BY <1>1, FieldSizes
  <2>2. bytes \in [1 .. PubkeySize -> Byte]
    BY <2>1
  <2>3. Decoded(f, bytes) = [class |-> "PublicKey", bytes |-> bytes]
    BY <1>1 DEF Decoded
  <2>. QED
    BY <1>1, <2>1, <2>2, <2>3 DEF JsValue, Fits, Encoded
<1>2. CASE f.kind # "pubkey"
  <2>. DEFINE width == ItemSize(f)
              u == Unsigned(f, bytes)
              v == Decoded(f, bytes)
  <2>1. PICK p : WordPowers(p)
    BY WordPowersExist
  <2>2. /\ width = (IF f.kind = "u8" THEN 1 ELSE 8) /\ width \in {1, 8} /\ width \in 0 .. MaxLenWidth
        /\ Class(f.kind) \in {"number", "bigint"}
    BY <1>2, FieldSizes DEF FieldKinds, MaxLenWidth
  <2>3. \A k \in 1 .. width : bytes[1 + k - 1] \in Byte /\ 1 + k - 1 = k
    BY <2>2
  <2>4. u = ReadLenHeader(bytes, 1, width)
    BY DEF Unsigned
  <2>5. u \in Nat /\ u < p[width]
    <3>. HIDE DEF width
    <3>. QED
      BY <2>1, <2>2, <2>3, <2>4, HeaderBelow
  <2>6. PICK half \in Nat : half = Words \div 2 /\ Words = 2 * half
    BY WordsType
  <2>7. v = [class |-> Class(f.kind), n |-> IF f.kind = "i64" /\ u >= half THEN u - Words ELSE u]
    BY <1>2, <2>6 DEF Decoded
  <2>. HIDE DEF v, u
  <2>8. /\ v.class = Class(f.kind) /\ v.n \in Int
        /\ v.n = IF f.kind = "i64" /\ u >= half THEN u - 2 * half ELSE u
    BY <2>5, <2>6, <2>7
  <2>9. v \in JsValue
    BY <2>2, <2>5, <2>6, <2>7, <2>8 DEF JsValue
  <2>10. p[1] = Radix /\ p[8] = 2 * half
    BY <2>1, <2>6 DEF WordPowers
  <2>11. f.kind \in {"u8", "u64", "i64"}
    BY <1>2 DEF FieldKinds
  <2>12. (IF v.n < 0 THEN v.n + Words ELSE v.n) = u
    <3>1. f.kind = "i64" => u < 2 * half
      BY <2>2, <2>5, <2>10
    <3>. QED
      BY <2>5, <2>6, <2>8, <3>1
  <2>13. Fits(f.kind, v)
    <3>1. f.kind = "u8" => v.n \in Byte
      <4>1. f.kind = "u8" => v.n = u /\ u < Radix
        BY <2>2, <2>5, <2>8, <2>10
      <4>. QED
        BY <2>5, <4>1, RadixAssumption DEF Byte
    <3>2. f.kind = "u64" => v.n \in 0 .. Words - 1
      BY <2>2, <2>5, <2>6, <2>8, <2>10
    <3>3. f.kind = "i64" => v.n \in -half .. half - 1
      BY <2>2, <2>5, <2>8, <2>10
    <3>. QED
      BY <2>6, <2>8, <3>1, <3>2, <3>3 DEF Fits
  <2>14. Encoded(f, v) = LenHeader(u, width)
    BY <1>2, <2>12 DEF Encoded
  <2>15. \A k \in 1 .. width : LenHeader(u, width)[k] = bytes[1 + k - 1]
    <3>1. \A k \in 1 .. width : bytes[1 + k - 1] \in Byte
      BY <2>3
    <3>. HIDE DEF width
    <3>2. \A k \in 1 .. width : bytes[k] \in Byte
      BY <2>3
    <3>3. \A k \in 1 .. width : LenHeader(ReadLenHeader(bytes, 1, width), width)[k] = bytes[k]
      BY <2>2, <3>2, FirstHeaderWrites
    <3>. QED
      BY <2>3, <2>4, <3>3
  <2>16. LenHeader(u, width) = bytes
    <3>1. LenHeader(u, width) \in Seq(Byte) /\ Len(LenHeader(u, width)) = width
      BY <2>2, <2>5, LenHeaderType
    <3>2. Len(bytes) = width
      OBVIOUS
    <3>3. PICK s \in Seq(Byte) : s = LenHeader(u, width)
      BY <3>1
    <3>4. \A k \in 1 .. width : s[k] = bytes[k]
      BY <2>3, <2>15, <3>3
    <3>. HIDE DEF width
    <3>5. s = bytes
      BY ONLY <3>1, <3>2, <3>3, <3>4, bytes \in Seq(Byte), s \in Seq(Byte)
    <3>. QED
      BY <3>3, <3>5
  <2>. QED
    BY <2>8, <2>9, <2>13, <2>14, <2>16 DEF v
<1>. QED
  BY <1>1, <1>2

-----------------------------------------------------------------------------
(* Lists of items.                                                         *)

LEMMA ItemTypes ==
  ASSUME NEW ds \in DefLists
  PROVE  /\ Len(ds) \in Nat /\ DOMAIN ds = 1 .. Len(ds)
         /\ \A d \in 1 .. Len(ds) : ds[d] \in LayoutItem /\ ds[d].name \in STRING
<1>1. ds \in Seq(LayoutItem)
  BY TsInputsAssumption
<1>2. \A f \in LayoutItem : f.name \in STRING
  BY DEF LayoutItem
<1>3. Len(ds) \in Nat /\ DOMAIN ds = 1 .. Len(ds) /\ \A d \in 1 .. Len(ds) : ds[d] \in LayoutItem
  BY <1>1
<1>. QED
  BY <1>2, <1>3

\* The first k items are of kinds that makeLayout handles.
Handled(ds, k) == \A d \in 1 .. k : ds[d].kind \in FieldKinds \cup Gaps

\* Item d begins w[d] bytes into the buffer.
AddsUp(ds, w) ==
  /\ w[1] = 0
  /\ \A d \in 1 .. Len(ds) + 1 : w[d] \in Nat
  /\ \A d \in 1 .. Len(ds) :
       ds[d].kind \in FieldKinds \cup Gaps => w[d + 1] = w[d] + ItemSize(ds[d])

LEMMA SumsExist ==
  ASSUME NEW ds \in DefLists
  PROVE  \E w : AddsUp(ds, w)
<1>. DEFINE n == Len(ds)
            b == 0
            s == [d \in 1 .. n |-> IF ds[d].kind \in FieldKinds \cup Gaps THEN ItemSize(ds[d]) ELSE 0]
<1>1. n \in Nat /\ b \in Nat
  BY ItemTypes
<1>2. \A k \in 1 .. n : s[k] \in Nat
  BY ItemTypes, ItemSizes
<1>3. PICK w \in [1 .. n + 1 -> Nat] : w[1] = b /\ \A k \in 1 .. n : w[k + 1] = w[k] + s[k]
  <2>. HIDE DEF n, b, s
  <2>1. \E w \in [1 .. n + 1 -> Nat] : w[1] = b /\ \A k \in 1 .. n : w[k + 1] = w[k] + s[k]
    BY ONLY <1>1, <1>2, OffsetsExist, SMTT(30)
  <2>. QED
    BY <2>1
<1>4. \A d \in 1 .. n : ds[d].kind \in FieldKinds \cup Gaps => w[d + 1] = w[d] + ItemSize(ds[d])
  BY <1>3
<1>. QED
  BY <1>3, <1>4 DEF AddsUp

(* Starts is where the items begin.                                        *)
LEMMA StartsAddUp ==
  ASSUME defs \in DefLists, Handled(defs, Len(defs)), NEW w, AddsUp(defs, w)
  PROVE  AddsUp(defs, Starts) /\ \A d \in 1 .. Len(defs) + 1 : Starts[d] = w[d]
<1>. DEFINE Step(v, d) == IF d = 1 THEN 0 ELSE v[d - 1] + ItemSize(defs[d - 1])
            at == Starts
<1>1. PICK n \in Nat : n = Len(defs)
  BY ItemTypes
<1>2. at = CHOOSE v : v = [d \in 1 .. n + 1 |-> Step(v, d)]
  BY <1>1 DEF Starts
<1>3. PICK u : u = [d \in 1 .. n + 1 |-> w[d]]
  OBVIOUS
<1>4. \A d \in 1 .. n : w[d + 1] = w[d] + ItemSize(defs[d])
  BY <1>1 DEF Handled, AddsUp
<1>5. ASSUME NEW d \in 1 .. n + 1 PROVE w[d] = Step(u, d)
  <2>1. CASE d = 1
    BY <2>1 DEF AddsUp
  <2>2. CASE d # 1
    <3>1. PICK k \in 1 .. n : d = k + 1 /\ d - 1 = k
      <4>1. d - 1 \in 1 .. n /\ d = (d - 1) + 1
        BY <2>2
      <4>. QED
        BY <4>1
    <3>2. w[d] = w[k] + ItemSize(defs[k]) /\ u[k] = w[k]
      BY <1>3, <1>4, <3>1
    <3>. QED
      BY <2>2, <3>1, <3>2
  <2>. QED
    BY <2>1, <2>2
<1>6. u = [d \in 1 .. n + 1 |-> Step(u, d)]
  BY <1>3, <1>5
<1>7. at = [d \in 1 .. n + 1 |-> Step(at, d)]
  <2>. HIDE DEF at
  <2>. QED
    BY <1>2, <1>6
<1>. HIDE DEF at
<1>8. at[1] = w[1]
  BY <1>7 DEF AddsUp
<1>9. ASSUME NEW d \in 1 .. n, at[d] = w[d] PROVE at[d + 1] = w[d + 1]
  <2>1. d + 1 \in 1 .. n + 1 /\ d + 1 # 1 /\ d + 1 - 1 = d
    OBVIOUS
  <2>2. at[d + 1] = Step(at, d + 1)
    BY <1>7, <2>1
  <2>. QED
    BY <1>4, <1>9, <2>1, <2>2
<1>10. n \in Nat /\ \A d \in 1 .. n : at[d] = w[d] => at[d + 1] = w[d + 1]
  BY <1>9
<1>11. \A d \in 1 .. n + 1 : at[d] = w[d]
  BY ONLY <1>8, <1>10, RecursionUnique, SMTT(30)
<1>. QED
  BY <1>1, <1>11 DEF AddsUp, at

(* Every item lies in the buffer.                                          *)
LEMMA ItemBounds ==
  ASSUME NEW ds \in DefLists, Handled(ds, Len(ds)), NEW w, AddsUp(ds, w)
  PROVE  /\ \A d \in 1 .. Len(ds) :
              /\ w[d] \in Nat /\ w[d + 1] \in Nat /\ ItemSize(ds[d]) \in Nat
              /\ w[d + 1] = w[d] + ItemSize(ds[d]) /\ w[d + 1] <= w[Len(ds) + 1]
         /\ \A d, e \in 1 .. Len(ds) + 1 : d <= e => w[d] <= w[e]
<1>1. PICK n \in Nat : n = Len(ds)
  BY ItemTypes
<1>2. \A d \in 1 .. n : ItemSize(ds[d]) \in Nat
  BY <1>1, ItemTypes, ItemSizes DEF Handled
<1>3. \A d \in 1 .. n : w[d + 1] = w[d] + ItemSize(ds[d])
  BY <1>1 DEF Handled, AddsUp
<1>4. \A d \in 1 .. n + 1 : w[d] \in Nat
  BY <1>1 DEF AddsUp
<1>5. \A d \in 1 .. n : w[d] <= w[d + 1]
  BY <1>2, <1>3, <1>4
<1>6. \A d, e \in 1 .. n + 1 : d <= e => w[d] <= w[e]
  BY <1>4, <1>5, OffsetsGrow
<1>7. \A d \in 1 .. n : d + 1 \in 1 .. n + 1 /\ d + 1 <= n + 1 /\ d \in 1 .. n + 1 /\ n + 1 \in 1 .. n + 1
  OBVIOUS
<1>. QED
  BY <1>1, <1>2, <1>3, <1>4, <1>6, <1>7

\* The bytes of item d.
Part(w, b, d) == SubSeq(b, w[d] + 1, w[d + 1])

LEMMA PartType ==
  ASSUME NEW ds \in DefLists, Handled(ds, Len(ds)), NEW w, AddsUp(ds, w),
         NEW b \in Seq(Byte), Len(b) = w[Len(ds) + 1], NEW d \in 1 .. Len(ds)
  PROVE  /\ Part(w, b, d) \in Seq(Byte) /\ Len(Part(w, b, d)) = ItemSize(ds[d])
         /\ \A x \in 1 .. ItemSize(ds[d]) : Part(w, b, d)[x] = b[w[d] + x]
<1>1. PICK size \in Nat, from \in Nat : /\ size = ItemSize(ds[d]) /\ from = w[d]
                                        /\ w[d + 1] = from + size /\ from + size <= Len(b)
  BY ItemBounds
<1>2. PICK m \in Nat, n \in Nat : m = from + 1 /\ n = from + size
  OBVIOUS
<1>3. \A x \in m .. n : b[x] \in Byte
  <2>1. \A x \in m .. n : x \in 1 .. Len(b)
    <3>1. PICK l \in Nat : l = Len(b)
      OBVIOUS
    <3>2. m = from + 1 /\ n <= l
      BY <1>1, <1>2, <3>1
    <3>3. \A x \in m .. n : x \in 1 .. l
      BY ONLY <3>2, from \in Nat, l \in Nat, m \in Nat, n \in Nat
    <3>. QED
      BY <3>1, <3>3
  <2>2. \A x \in 1 .. Len(b) : b[x] \in Byte
    OBVIOUS
  <2>. QED
    BY ONLY <2>1, <2>2
<1>4. SubSeq(b, m, n) \in Seq(Byte) /\ Len(SubSeq(b, m, n)) = (IF m <= n THEN n - m + 1 ELSE 0)
  BY <1>1, <1>2, <1>3, SubSeqProperties
<1>5. Len(SubSeq(b, m, n)) = size
  BY <1>2, <1>4
<1>6. \A x \in 1 .. size : SubSeq(b, m, n)[x] = b[from + x]
  <2>1. 1 .. size = 1 .. n - m + 1 /\ \A x \in 1 .. size : m + x - 1 = from + x
    BY <1>2
  <2>2. SubSeq(b, m, n) = [x \in 1 .. n - m + 1 |-> b[m + x - 1]]
    OBVIOUS
  <2>. QED
    BY <2>1, <2>2
<1>7. Part(w, b, d) = SubSeq(b, m, n)
  BY <1>1, <1>2 DEF Part
<1>. QED
  BY <1>1, <1>4, <1>5, <1>6, <1>7

(* Writing an item changes its bytes and no others.                        *)
LEMMA OverwriteType ==
  ASSUME NEW b \in Seq(Byte), NEW bytes \in Seq(Byte), NEW from \in Nat, from + Len(bytes) <= Len(b)
  PROVE  /\ Overwrite(b, from, bytes) \in Seq(Byte) /\ Len(Overwrite(b, from, bytes)) = Len(b)
         /\ \A x \in 1 .. Len(bytes) : Overwrite(b, from, bytes)[from + x] = bytes[x]
         /\ \A x \in 1 .. Len(b) : x <= from => Overwrite(b, from, bytes)[x] = b[x]
<1>1. PICK n \in Nat, k \in Nat : n = Len(b) /\ k = Len(bytes) /\ from + k <= n
  OBVIOUS
<1>2. PICK c : c = [d \in 1 .. n |-> IF d \in from + 1 .. from + k THEN bytes[d - from] ELSE b[d]]
  OBVIOUS
<1>3. c = Overwrite(b, from, bytes)
  BY <1>1, <1>2 DEF Overwrite
<1>4. ASSUME NEW d \in 1 .. n PROVE c[d] \in Byte
  <2>1. CASE d \in from + 1 .. from + k
    <3>1. d - from \in 1 .. k
      BY <2>1
    <3>2. bytes[d - from] \in Byte
      BY <1>1, <3>1
    <3>. QED
      BY <1>2, <2>1, <3>2
  <2>2. CASE d \notin from + 1 .. from + k
    BY <1>1, <1>2, <2>2
  <2>. QED
    BY <2>1, <2>2
<1>5. c \in [1 .. n -> Byte]
  BY <1>2, <1>4
<1>6. c \in Seq(Byte) /\ Len(c) = n
  BY <1>5
<1>7. ASSUME NEW x \in 1 .. k PROVE c[from + x] = bytes[x]
  <2>1. from + x \in 1 .. n /\ from + x \in from + 1 .. from + k /\ from + x - from = x
    BY <1>1
  <2>. QED
    BY <1>2, <2>1
<1>8. \A x \in 1 .. n : x <= from => c[x] = b[x]
  BY <1>2
<1>. QED
  BY <1>1, <1>3, <1>6, <1>7, <1>8

-----------------------------------------------------------------------------
(* Objects: fields that share a name leave one value, that of the last.    *)

IsField(ds, d) == ds[d].kind \in FieldKinds

\* Field d is the last of its name before item k.
LastOfName(ds, d, k) ==
  IsField(ds, d) /\ \A e \in d + 1 .. k - 1 : IsField(ds, e) => ds[e].name # ds[d].name

\* o holds the values v of the fields before item k.
Filled(ds, o, v, k) ==
  /\ o = [x \in DOMAIN o |-> o[x]]
  /\ \A x \in DOMAIN o : \E d \in 1 .. k - 1 : LastOfName(ds, d, k) /\ ds[d].name = x
  /\ \A d \in 1 .. k - 1 : IsField(ds, d) => ds[d].name \in DOMAIN o
  /\ \A d \in 1 .. k - 1 : LastOfName(ds, d, k) => o[ds[d].name] = v[d]

LEMMA FillsNothing == \A ds, v : Filled(ds, NoObject, v, 1)
BY DEF Filled, NoObject

LEMMA FillStep ==
  ASSUME NEW ds, NEW o, NEW v, NEW k \in Nat \ {0}, Filled(ds, o, v, k)
  PROVE  /\ IsField(ds, k) => Filled(ds, Set(o, ds[k].name, v[k]), v, k + 1)
         /\ ~IsField(ds, k) => Filled(ds, o, v, k + 1)
<1>0. /\ 1 .. k + 1 - 1 = 1 .. k /\ k \in 1 .. k /\ k \notin 1 .. k - 1
      /\ \A d \in 1 .. k : d # k => d \in 1 .. k - 1
      /\ \A d \in 1 .. k - 1 : d \in 1 .. k
      /\ \A d \in 1 .. k : d + 1 .. k + 1 - 1 = d + 1 .. k
      /\ k + 1 .. k = {}
      /\ \A d \in 1 .. k - 1 : \A e \in d + 1 .. k : e # k => e \in d + 1 .. k - 1
      /\ \A d \in 1 .. k - 1 : k \in d + 1 .. k /\ \A e \in d + 1 .. k - 1 : e \in d + 1 .. k
  OBVIOUS
<1>1. ASSUME NEW d \in 1 .. k - 1
      PROVE  LastOfName(ds, d, k + 1) <=>
               LastOfName(ds, d, k) /\ (IsField(ds, k) => ds[k].name # ds[d].name)
  BY <1>0 DEF LastOfName
<1>2. IsField(ds, k) <=> LastOfName(ds, k, k + 1)
  BY ONLY <1>0 DEF LastOfName
<1>3. ASSUME ~IsField(ds, k) PROVE Filled(ds, o, v, k + 1)
  <2>1. \A d \in 1 .. k - 1 : LastOfName(ds, d, k + 1) <=> LastOfName(ds, d, k)
    BY <1>1, <1>3
  <2>2. ~LastOfName(ds, k, k + 1)
    BY <1>2, <1>3
  <2>. QED
    BY <1>0, <1>3, <2>1, <2>2 DEF Filled
<1>4. ASSUME IsField(ds, k) PROVE Filled(ds, Set(o, ds[k].name, v[k]), v, k + 1)
  <2>. DEFINE name == ds[k].name
              s == Set(o, name, v[k])
  <2>1. /\ DOMAIN s = DOMAIN o \cup {name} /\ s = [x \in DOMAIN s |-> s[x]] /\ s[name] = v[k]
        /\ \A x \in DOMAIN o : x # name => s[x] = o[x]
    BY DEF Set
  <2>. HIDE DEF s
  <2>2. LastOfName(ds, k, k + 1)
    BY <1>2, <1>4
  <2>3. ASSUME NEW x \in DOMAIN s
        PROVE  \E d \in 1 .. k : LastOfName(ds, d, k + 1) /\ ds[d].name = x
    <3>1. CASE x = name
      BY <1>0, <2>2, <3>1
    <3>2. CASE x # name
      <4>1. PICK d \in 1 .. k - 1 : LastOfName(ds, d, k) /\ ds[d].name = x
        BY <2>1, <3>2 DEF Filled
      <4>. QED
        BY <1>0, <1>1, <3>2, <4>1
    <3>. QED
      BY <3>1, <3>2
  <2>4. ASSUME NEW d \in 1 .. k, IsField(ds, d) PROVE ds[d].name \in DOMAIN s
    BY <1>0, <2>1, <2>4 DEF Filled
  <2>5. ASSUME NEW d \in 1 .. k, LastOfName(ds, d, k + 1) PROVE s[ds[d].name] = v[d]
    <3>1. CASE d = k
      BY <2>1, <3>1
    <3>2. CASE d # k
      <4>1. d \in 1 .. k - 1
        BY <1>0, <3>2
      <4>2. LastOfName(ds, d, k) /\ ds[d].name # name
        BY <1>1, <1>4, <2>5, <4>1
      <4>3. ds[d].name \in DOMAIN o /\ o[ds[d].name] = v[d]
        BY <4>1, <4>2 DEF Filled, LastOfName
      <4>. QED
        BY <2>1, <4>2, <4>3
    <3>. QED
      BY <3>1, <3>2
  <2>6. Filled(ds, s, v, k + 1)
    BY ONLY <1>0, <2>1, <2>3, <2>4, <2>5 DEF Filled
  <2>. QED
    BY <2>6 DEF s
<1>. QED
  BY <1>3, <1>4

Classes(ds) == [d \in 1 .. Len(ds) |-> Class(ds[d].kind)]
Values(ds, w, b) == [d \in 1 .. Len(ds) |-> Decoded(ds[d], Part(w, b, d))]

\* encode accepts item d of an object.
Writable(ds, o, d) ==
  /\ ds[d].kind # "skip"
  /\ IsField(ds, d) => Fits(ds[d].kind, ValueFor(ds[d], o))

\* b holds what encode writes for the items before k.
Written(ds, w, o, b, k) ==
  \A d \in 1 .. k - 1 :
    /\ Writable(ds, o, d)
    /\ IsField(ds, d) => Part(w, b, d) = Encoded(ds[d], ValueFor(ds[d], o))
    /\ ds[d].kind = "padding" => \A x \in 1 .. ItemSize(ds[d]) : b[w[d] + x] = 0

(* A value that fits is written as it is.                                  *)
LEMMA ObjectValues ==
  ASSUME NEW f, f.kind \in FieldKinds, NEW o, f.name \in DOMAIN o, Fits(f.kind, o[f.name])
  PROVE  ValueFor(f, o) = o[f.name]
BY DEF ValueFor, ValueOf, IsNaN, Fits, Class

(* What is written is a value of the class of the field.  It is the one of *)
(* the object, or 0 for a number where the object has none.                *)
LEMMA FittingValues ==
  ASSUME NEW f \in LayoutItem, f.kind \in FieldKinds, NEW o, Object(o), Fits(f.kind, ValueFor(f, o))
  PROVE  /\ ValueFor(f, o) \in JsValue
         /\ ValueFor(f, o) = IF /\ Class(f.kind) = "number"
                               /\ ValueOf(o, f.name).class # "number"
                            THEN Zero ELSE o[f.name]
<1>. DEFINE v == ValueOf(o, f.name)
<1>1. /\ Class(f.kind) \in {"number", "bigint", "PublicKey"}
      /\ Class(f.kind) = "number" <=> f.kind = "u8"
  BY DEF Class, FieldKinds
<1>2. CASE f.kind = "u8" /\ IsNaN(v)
  <2>1. ValueFor(f, o) = Zero
    BY <1>2 DEF ValueFor
  <2>2. Zero \in JsValue
    BY DEF Zero, JsValue
  <2>3. v.class # "number"
    BY <1>2 DEF IsNaN
  <2>. QED
    BY <1>1, <1>2, <2>1, <2>2, <2>3
<1>3. CASE ~(f.kind = "u8" /\ IsNaN(v))
  <2>1. ValueFor(f, o) = v
    BY <1>3 DEF ValueFor
  <2>2. v.class = Class(f.kind)
    BY <2>1 DEF Fits
  <2>3. f.name \in DOMAIN o /\ v = o[f.name]
    BY <1>1, <2>2 DEF ValueOf, Missing
  <2>. QED
    BY <1>1, <2>1, <2>2, <2>3 DEF Object
<1>. QED
  BY <1>2, <1>3

(* The bytes of a field hold a value.                                      *)
LEMMA ValueTypes ==
  ASSUME NEW ds \in DefLists, Handled(ds, Len(ds)), NEW w, AddsUp(ds, w),
         NEW b \in Seq(Byte), Len(b) = w[Len(ds) + 1], NEW d \in 1 .. Len(ds), IsField(ds, d)
  PROVE  /\ Values(ds, w, b)[d] = Decoded(ds[d], Part(w, b, d))
         /\ Values(ds, w, b)[d] \in JsValue
         /\ Fits(ds[d].kind, Values(ds, w, b)[d])
         /\ Values(ds, w, b)[d].class = Class(ds[d].kind)
         /\ Encoded(ds[d], Values(ds, w, b)[d]) = Part(w, b, d)
<1>1. Values(ds, w, b)[d] = Decoded(ds[d], Part(w, b, d))
  BY DEF Values
<1>2. ds[d] \in LayoutItem /\ ds[d].kind \in FieldKinds
  BY ItemTypes DEF IsField
<1>3. Part(w, b, d) \in Seq(Byte) /\ Len(Part(w, b, d)) = ItemSize(ds[d])
  BY PartType
<1>. QED
  BY <1>1, <1>2, <1>3, BytesWriteBack

-----------------------------------------------------------------------------
(* The invariant: the layout that is made, the loop that runs or the call  *)
(* that has returned, and the last calls that returned something.          *)

Ready == pc \in {"idle", "decode", "encode"}

MadeInv ==
  /\ pc = "layout" => /\ i \in 1 .. Len(defs) + 1 /\ Handled(defs, i - 1)
                      /\ \E w : AddsUp(defs, w) /\ space = w[i]
                      /\ Filled(defs, shape, Classes(defs), i)
  /\ ~Ready => op = "none" /\ offset = 0 /\ encoded = Nothing /\ decoded = Nothing
  /\ Ready => /\ Handled(defs, Len(defs)) /\ AddsUp(defs, Starts) /\ space = Starts[Len(defs) + 1]
              /\ Filled(defs, shape, Classes(defs), Len(defs) + 1)

RunInv ==
  /\ pc \in {"decode", "encode"} =>
       op = pc /\ i \in 1 .. Len(defs) + 1 /\ offset = Starts[i] /\ Len(buf) = space
  /\ pc = "decode" => Filled(defs, obj, Values(defs, Starts, buf), i)
  /\ pc = "encode" => Written(defs, Starts, obj, buf, i)

DoneInv ==
  /\ Returned("decode") /\ Len(buf) = space =>
       ret = "ok" /\ Filled(defs, obj, Values(defs, Starts, buf), Len(defs) + 1)
  /\ Returned("encode") =>
       IF ret = "ok" THEN Len(buf) = space /\ Written(defs, Starts, obj, buf, Len(defs) + 1)
       ELSE \E d \in 1 .. Len(defs) : ~Writable(defs, obj, d)

PastInv ==
  /\ encoded # Nothing => /\ Len(encoded.buf) = space
                          /\ Written(defs, Starts, encoded.obj, encoded.buf, Len(defs) + 1)
  /\ decoded # Nothing =>
       /\ Len(decoded.buf) = space
       /\ Filled(defs, decoded.obj, Values(defs, Starts, decoded.buf), Len(defs) + 1)

TsInv == TsTypeOK /\ MadeInv /\ RunInv /\ DoneInv /\ PastInv

LEMMA NothingTypes == Object(NoObject) /\ Nothing.buf = << >> /\ Nothing.obj = NoObject
BY DEF Object, NoObject, Nothing

\* Where things are once the layout is made.
LEMMA ReadyBounds ==
  ASSUME TsInv, Ready
  PROVE  /\ defs \in DefLists /\ Len(defs) \in Nat /\ Handled(defs, Len(defs)) /\ AddsUp(defs, Starts)
         /\ Starts[1] = 0 /\ space = Starts[Len(defs) + 1] /\ space \in Nat
         /\ \A d \in 1 .. Len(defs) :
              /\ Starts[d] \in Nat /\ Starts[d + 1] \in Nat /\ ItemSize(defs[d]) \in Nat
              /\ Starts[d + 1] = Starts[d] + ItemSize(defs[d]) /\ Starts[d + 1] <= space
<1>1. defs \in DefLists /\ Handled(defs, Len(defs)) /\ AddsUp(defs, Starts) /\ space = Starts[Len(defs) + 1]
  BY DEF TsInv, TsTypeOK, MadeInv
<1>2. space \in Nat
  BY DEF TsInv, TsTypeOK
<1>. QED
  BY <1>1, <1>2, ItemTypes, ItemBounds DEF AddsUp

LEMMA StartsKept == defs' = defs => Starts' = Starts
BY DEF Starts

LEMMA MadeKept ==
  ASSUME TsInv, Ready, Ready', UNCHANGED layoutVars
  PROVE  MadeInv'
<1>1. Starts' = Starts
  BY StartsKept DEF layoutVars
<1>. QED
  BY <1>1 DEF TsInv, MadeInv, Ready, layoutVars

LEMMA PastKept ==
  ASSUME TsInv, UNCHANGED << layoutVars, historyVars >>
  PROVE  PastInv'
<1>1. Starts' = Starts
  BY StartsKept DEF layoutVars
<1>. QED
  BY <1>1 DEF TsInv, PastInv, layoutVars, historyVars

LEMMA InitInv == Init => TsInv
<1>. SUFFICES ASSUME Init PROVE TsInv
  OBVIOUS
<1>1. defs \in DefLists /\ Len(defs) \in Nat
  BY ItemTypes DEF Init
<1>2. TsTypeOK
  <2>1. << >> \in Seq(Byte) /\ DOMAIN NoObject = {}
    BY DEF NoObject
  <2>2. Nothing.buf \in Seq(Byte) /\ Object(Nothing.obj) /\ Object(obj) /\ buf \in Seq(Byte)
    BY <2>1, NothingTypes DEF Init
  <2>3. 0 \in 0 .. MaxCalls /\ 0 \in 0 .. 0
    BY TsInputsAssumption
  <2>. QED
    BY <1>1, <2>1, <2>2, <2>3 DEF Init, TsTypeOK
<1>3. PICK w : AddsUp(defs, w)
  BY <1>1, SumsExist
<1>4. Filled(defs, shape, Classes(defs), 1)
  BY FillsNothing DEF Init
<1>5. MadeInv
  BY <1>1, <1>3, <1>4 DEF Init, MadeInv, Ready, Handled, AddsUp
<1>6. RunInv /\ DoneInv /\ PastInv
  BY DEF Init, RunInv, DoneInv, PastInv, Returned
<1>. QED
  BY <1>2, <1>5, <1>6 DEF TsInv

-----------------------------------------------------------------------------
(* The layout.                                                             *)

LEMMA AddItemInv == ASSUME TsInv, AddItem PROVE TsInv'
<1>. DEFINE f == defs[i]
<1>1. /\ pc = "layout" /\ i \in 1 .. Len(defs) /\ i + 1 \in 1 .. Len(defs) + 1 /\ i + 1 - 1 = i
      /\ Len(defs) \in Nat /\ defs \in DefLists /\ f \in LayoutItem /\ f.name \in STRING
  <2>1. pc = "layout" /\ i <= Len(defs) /\ i \in Nat \ {0} /\ defs \in DefLists
    BY DEF TsInv, TsTypeOK, AddItem
  <2>2. Len(defs) \in Nat
    BY <2>1, ItemTypes
  <2>3. i \in 1 .. Len(defs) /\ i + 1 \in 1 .. Len(defs) + 1 /\ i + 1 - 1 = i
    BY ONLY <2>1, <2>2
  <2>. QED
    BY <2>1, <2>2, <2>3, ItemTypes
<1>2. /\ Handled(defs, i - 1) /\ Filled(defs, shape, Classes(defs), i)
      /\ op = "none" /\ offset = 0 /\ encoded = Nothing /\ decoded = Nothing
  BY <1>1 DEF TsInv, MadeInv, Ready
<1>3. PICK w : AddsUp(defs, w) /\ space = w[i]
  BY <1>1 DEF TsInv, MadeInv
<1>4. UNCHANGED << defs, calls, op, offset, buf, obj, ret, encoded, decoded >>
  BY DEF AddItem, historyVars
<1>5. f.kind \in FieldKinds \cup Gaps \cup {"unsupported"} /\ "unsupported" \notin FieldKinds \cup Gaps
  BY <1>1 DEF LayoutItem, FieldKinds, Gaps
<1>6. CASE f.kind = "unsupported"
  <2>1. pc' = "thrown" /\ UNCHANGED << i, space, shape >>
    BY <1>6 DEF AddItem
  <2>2. TsTypeOK'
    BY <1>4, <2>1 DEF TsInv, TsTypeOK, Object
  <2>3. MadeInv' /\ RunInv' /\ DoneInv' /\ PastInv'
    BY <1>2, <1>4, <2>1 DEF MadeInv, RunInv, DoneInv, PastInv, Returned, Ready
  <2>. QED
    BY <2>2, <2>3 DEF TsInv
<1>7. CASE f.kind \in FieldKinds \cup Gaps
  <2>1. /\ pc' = pc /\ i' = i + 1 /\ space' = space + ItemSize(f)
        /\ shape' = IF f.kind \in Gaps THEN shape ELSE Set(shape, f.name, Class(f.kind))
    BY <1>5, <1>7 DEF AddItem, ItemSpace
  <2>2. ItemSize(f) \in Nat
    BY <1>1, <1>7, ItemSizes
  <2>3. space' = w[i + 1]
    BY <1>1, <1>3, <1>7, <2>1 DEF AddsUp
  <2>4. Handled(defs, i)
    BY <1>1, <1>2, <1>7 DEF Handled
  <2>5. f.kind \in Gaps <=> ~IsField(defs, i)
    BY <1>7 DEF IsField, FieldKinds, Gaps
  <2>6. Classes(defs)[i] = Class(f.kind)
    BY <1>1 DEF Classes
  <2>7. Filled(defs, shape', Classes(defs), i + 1)
    BY <1>1, <1>2, <2>1, <2>5, <2>6, FillStep
  <2>8. \A name \in DOMAIN shape' :
          name \in STRING /\ shape'[name] \in {"number", "bigint", "PublicKey"}
    <3>1. \A name \in DOMAIN shape :
            name \in STRING /\ shape[name] \in {"number", "bigint", "PublicKey"}
      BY DEF TsInv, TsTypeOK
    <3>2. CASE f.kind \in Gaps
      BY <2>1, <3>1, <3>2
    <3>3. CASE f.kind \in FieldKinds
      <4>1. Class(f.kind) \in {"number", "bigint", "PublicKey"}
        BY <1>1, <3>3, FieldSizes DEF FieldKinds
      <4>2. shape' = Set(shape, f.name, Class(f.kind))
        BY <2>1, <2>5, <3>3 DEF IsField
      <4>. QED
        BY <1>1, <3>1, <4>1, <4>2 DEF Set
    <3>. QED
      BY <1>7, <3>2, <3>3
  <2>9. TsTypeOK'
    <3>1. space' \in Nat /\ i' \in Nat \ {0} /\ offset' \in 0 .. space'
      <4>1. space \in Nat /\ i \in Nat \ {0} /\ offset' = 0
        BY <1>2, <1>4 DEF TsInv, TsTypeOK
      <4>2. space' \in Nat /\ i' \in Nat \ {0}
        BY <2>1, <2>2, <4>1
      <4>. QED
        BY ONLY <4>1, <4>2
    <3>. QED
      BY <1>4, <2>1, <2>8, <3>1 DEF TsInv, TsTypeOK, Object
  <2>10. MadeInv'
    <3>1. \E u : AddsUp(defs, u) /\ space' = u[i + 1]
      BY <1>3, <2>3
    <3>. QED
      BY <1>1, <1>2, <1>4, <2>1, <2>4, <2>7, <3>1 DEF MadeInv, Ready
  <2>11. RunInv' /\ DoneInv' /\ PastInv'
    BY <1>1, <1>2, <1>4, <2>1 DEF RunInv, DoneInv, PastInv, Returned
  <2>. QED
    BY <2>9, <2>10, <2>11 DEF TsInv
<1>. QED
  BY <1>5, <1>6, <1>7

LEMMA LayoutMadeInv == ASSUME TsInv, LayoutMade PROVE TsInv'
<1>1. /\ pc = "layout" /\ i = Len(defs) + 1 /\ i - 1 = Len(defs) /\ Len(defs) \in Nat /\ defs \in DefLists
  BY ItemTypes DEF TsInv, TsTypeOK, MadeInv, LayoutMade
<1>2. /\ Handled(defs, Len(defs)) /\ Filled(defs, shape, Classes(defs), Len(defs) + 1)
      /\ op = "none" /\ encoded = Nothing /\ decoded = Nothing
  BY <1>1 DEF TsInv, MadeInv, Ready
<1>3. PICK w : AddsUp(defs, w) /\ space = w[Len(defs) + 1]
  BY <1>1 DEF TsInv, MadeInv
<1>4. AddsUp(defs, Starts) /\ space = Starts[Len(defs) + 1]
  BY <1>1, <1>2, <1>3, StartsAddUp
<1>5. pc' = "idle" /\ UNCHANGED << defs, i, space, shape, calls, op, offset, buf, obj, ret, encoded, decoded >>
  BY DEF LayoutMade, layoutVars, historyVars
<1>6. Starts' = Starts
  BY <1>5, StartsKept
<1>7. TsTypeOK'
  BY <1>5 DEF TsInv, TsTypeOK, Object
<1>8. MadeInv'
  BY <1>1, <1>2, <1>4, <1>5, <1>6 DEF MadeInv, Ready
<1>9. RunInv' /\ DoneInv' /\ PastInv'
  BY <1>2, <1>5 DEF RunInv, DoneInv, PastInv, Returned
<1>. QED
  BY <1>7, <1>8, <1>9 DEF TsInv

-----------------------------------------------------------------------------
(* decode.                                                                 *)

LEMMA StartDecodeInv == ASSUME TsInv, StartDecode PROVE TsInv'
<1>1. /\ pc = "idle" /\ Ready /\ calls < MaxCalls /\ calls' = calls + 1 /\ op' = "decode" /\ i' = 1
      /\ offset' = 0 /\ obj' = NoObject /\ UNCHANGED << layoutVars, historyVars >>
  BY DEF StartDecode, Start, Ready
<1>2. PICK b \in Buffers \cup {encoded.buf} :
        /\ buf' = b
        /\ IF Len(b) = space THEN pc' = "decode" /\ UNCHANGED ret ELSE Return("throw")
  BY DEF StartDecode, LengthAccepted
<1>3. b \in Seq(Byte)
  BY TsInputsAssumption DEF TsInv, TsTypeOK
<1>4. pc' \in {"idle", "decode"} /\ ret' \in {"none", "ok", "throw"}
  BY <1>2 DEF Return, TsInv, TsTypeOK
<1>5. TsTypeOK'
  <2>1. calls' \in 0 .. MaxCalls /\ i' \in Nat \ {0} /\ offset' \in 0 .. space /\ Object(obj')
    BY <1>1, NothingTypes, TsInputsAssumption DEF TsInv, TsTypeOK
  <2>. QED
    BY <1>1, <1>2, <1>3, <1>4, <2>1 DEF TsInv, TsTypeOK, Object, layoutVars, historyVars
<1>6. Ready'
  BY <1>4 DEF Ready
<1>7. MadeInv' /\ PastInv'
  BY <1>1, <1>6, MadeKept, PastKept
<1>8. Starts' = Starts /\ defs' = defs /\ space' = space
  BY <1>1, StartsKept DEF layoutVars
<1>9. Filled(defs, NoObject, Values(defs, Starts, b), 1)
  BY FillsNothing
<1>10. Starts[1] = 0 /\ 1 \in 1 .. Len(defs) + 1
  BY <1>1, ReadyBounds
<1>11. CASE Len(b) = space
  <2>1. pc' = "decode"
    BY <1>2, <1>11
  <2>. QED
    BY <1>1, <1>2, <1>5, <1>7, <1>8, <1>9, <1>10, <1>11, <2>1 DEF TsInv, RunInv, DoneInv, Returned
<1>12. CASE Len(b) # space
  <2>1. pc' = "idle"
    BY <1>2, <1>12 DEF Return
  <2>. QED
    BY <1>1, <1>2, <1>5, <1>7, <1>8, <1>12, <2>1 DEF TsInv, RunInv, DoneInv, Returned
<1>. QED
  BY <1>11, <1>12

LEMMA DecodeItemInv == ASSUME TsInv, DecodeItem PROVE TsInv'
<1>. DEFINE f == defs[i]
            v == Values(defs, Starts, buf)
<1>1. /\ pc = "decode" /\ Ready /\ i <= Len(defs)
      /\ UNCHANGED << layoutVars, calls, op, buf, encoded, decoded >>
  BY DEF DecodeItem, Ready, historyVars
<1>2. /\ op = "decode" /\ i \in 1 .. Len(defs) + 1 /\ offset = Starts[i] /\ Len(buf) = space
      /\ Filled(defs, obj, v, i) /\ buf \in Seq(Byte)
  BY <1>1 DEF TsInv, TsTypeOK, RunInv
<1>3. /\ i \in 1 .. Len(defs) /\ i + 1 \in 1 .. Len(defs) + 1 /\ i + 1 \in Nat \ {0} /\ i \in Nat \ {0}
      /\ Handled(defs, Len(defs)) /\ defs \in DefLists /\ AddsUp(defs, Starts)
      /\ space = Starts[Len(defs) + 1] /\ space \in Nat
      /\ Starts[i + 1] = offset + ItemSize(f) /\ Starts[i + 1] <= space /\ Starts[i + 1] \in Nat
  BY <1>1, <1>2, ReadyBounds
<1>4. f \in LayoutItem /\ f.name \in STRING /\ f.kind \in FieldKinds \cup Gaps
  BY <1>3, ItemTypes DEF Handled
<1>5. f.kind \in Gaps <=> ~IsField(defs, i)
  BY <1>4 DEF IsField, FieldKinds, Gaps
<1>6. ~(offset + ItemSize(f) > Len(buf))
  BY <1>2, <1>3
<1>7. /\ pc' = pc /\ ret' = ret /\ i' = i + 1 /\ offset' = Starts[i + 1]
      /\ obj' = IF f.kind \in Gaps THEN obj
                ELSE Set(obj, f.name, Decoded(f, SubSeq(buf, offset + 1, offset + ItemSize(f))))
  BY <1>3, <1>6 DEF DecodeItem
<1>8. Starts' = Starts /\ defs' = defs /\ space' = space
  BY <1>1, StartsKept DEF layoutVars
<1>9. CASE IsField(defs, i)
  <2>1. v[i] = Decoded(f, Part(Starts, buf, i)) /\ v[i] \in JsValue
    BY <1>2, <1>3, <1>9, ValueTypes
  <2>2. obj' = Set(obj, f.name, v[i])
    BY <1>2, <1>3, <1>5, <1>7, <1>9, <2>1 DEF Part
  <2>3. Filled(defs, obj', v, i + 1)
    BY <1>2, <1>3, <1>9, <2>2, FillStep
  <2>4. Object(obj')
    <3>1. Object(obj)
      BY DEF TsInv, TsTypeOK
    <3>. HIDE DEF v
    <3>. QED
      BY <1>4, <2>1, <2>2, <3>1 DEF Object, Set
  <2>. QED
    BY <1>1, <1>2, <1>3, <1>7, <1>8, <2>3, <2>4, MadeKept, PastKept
       DEF TsInv, TsTypeOK, RunInv, DoneInv, Returned, Ready, layoutVars, historyVars
<1>10. CASE ~IsField(defs, i)
  <2>1. obj' = obj
    BY <1>5, <1>7, <1>10
  <2>2. Filled(defs, obj', v, i + 1)
    BY <1>2, <1>3, <1>10, <2>1, FillStep
  <2>3. Object(obj')
    BY <2>1 DEF TsInv, TsTypeOK
  <2>. QED
    BY <1>1, <1>2, <1>3, <1>7, <1>8, <2>2, <2>3, MadeKept, PastKept
       DEF TsInv, TsTypeOK, RunInv, DoneInv, Returned, Ready, layoutVars, historyVars
<1>. QED
  BY <1>9, <1>10

LEMMA DecodeDoneInv == ASSUME TsInv, DecodeDone PROVE TsInv'
<1>. DEFINE n == Len(defs)
            v == Values(defs, Starts, buf)
<1>1. /\ pc = "decode" /\ Ready /\ i > n /\ UNCHANGED << layoutVars, i, calls, op, offset, buf, obj, encoded >>
  BY DEF DecodeDone, Ready
<1>2. /\ op = "decode" /\ i = n + 1 /\ n \in Nat /\ Len(buf) = space /\ buf \in Seq(Byte)
      /\ Filled(defs, obj, v, n + 1) /\ Object(obj)
  BY <1>1, ReadyBounds DEF TsInv, TsTypeOK, RunInv
<1>3. /\ Handled(defs, n) /\ defs \in DefLists /\ AddsUp(defs, Starts) /\ space = Starts[n + 1]
      /\ Filled(defs, shape, Classes(defs), n + 1)
  BY <1>1, ReadyBounds DEF TsInv, MadeInv
<1>4. ASSUME NEW name \in DOMAIN shape
      PROVE  name \in DOMAIN obj /\ obj[name].class = shape[name]
  <2>1. PICK d \in 1 .. n : LastOfName(defs, d, n + 1) /\ defs[d].name = name
    BY <1>2, <1>3 DEF Filled
  <2>2. IsField(defs, d)
    BY <2>1 DEF LastOfName
  <2>3. name \in DOMAIN obj /\ obj[name] = v[d] /\ shape[name] = Classes(defs)[d]
    BY <1>2, <1>3, <2>1, <2>2 DEF Filled
  <2>4. v[d].class = Class(defs[d].kind)
    BY <1>2, <1>3, <2>2, ValueTypes
  <2>. QED
    BY <2>3, <2>4 DEF Classes
<1>5. MatchesSchema(obj)
  BY <1>4 DEF MatchesSchema
<1>6. pc' = "idle" /\ ret' = "ok" /\ decoded' = [buf |-> buf, obj |-> obj]
  BY <1>5 DEF DecodeDone, Return
<1>7. Starts' = Starts /\ defs' = defs /\ space' = space
  BY <1>1, StartsKept DEF layoutVars
<1>8. decoded'.buf = buf /\ decoded'.obj = obj
  BY <1>6
<1>9. TsTypeOK'
  BY <1>1, <1>2, <1>6, <1>8 DEF TsInv, TsTypeOK, Object, layoutVars
<1>10. MadeInv'
  BY <1>1, <1>6, MadeKept DEF Ready
<1>11. PastInv'
  BY <1>1, <1>2, <1>7, <1>8 DEF TsInv, PastInv
<1>12. RunInv' /\ DoneInv'
  BY <1>1, <1>2, <1>6, <1>7 DEF RunInv, DoneInv, Returned
<1>. QED
  BY <1>9, <1>10, <1>11, <1>12 DEF TsInv

-----------------------------------------------------------------------------
(* encode.                                                                 *)

\* A part is the bytes it is made of.
LEMMA PartIs ==
  ASSUME NEW ds \in DefLists, Handled(ds, Len(ds)), NEW w, AddsUp(ds, w),
         NEW b \in Seq(Byte), Len(b) = w[Len(ds) + 1], NEW d \in 1 .. Len(ds),
         NEW s \in Seq(Byte), Len(s) = ItemSize(ds[d]),
         \A x \in 1 .. ItemSize(ds[d]) : b[w[d] + x] = s[x]
  PROVE  Part(w, b, d) = s
<1>1. PICK p \in Seq(Byte) : p = Part(w, b, d)
  BY PartType
<1>2. Len(p) = Len(s) /\ \A x \in 1 .. Len(s) : p[x] = s[x]
  <2>1. /\ Len(Part(w, b, d)) = ItemSize(ds[d])
        /\ \A x \in 1 .. ItemSize(ds[d]) : Part(w, b, d)[x] = b[w[d] + x]
    BY PartType
  <2>. QED
    BY <1>1, <2>1
<1>3. p = s
  BY ONLY <1>2, p \in Seq(Byte), s \in Seq(Byte)
<1>. QED
  BY <1>1, <1>3

\* Writing an item leaves the ones before it.
LEMMA WrittenStep ==
  ASSUME NEW ds \in DefLists, Handled(ds, Len(ds)), NEW w, AddsUp(ds, w),
         NEW b \in Seq(Byte), Len(b) = w[Len(ds) + 1], NEW k \in 1 .. Len(ds), NEW o,
         Written(ds, w, o, b, k), Writable(ds, o, k),
         NEW bytes \in Seq(Byte), Len(bytes) = ItemSize(ds[k]),
         IsField(ds, k) => bytes = Encoded(ds[k], ValueFor(ds[k], o)),
         ds[k].kind = "padding" => \A x \in 1 .. ItemSize(ds[k]) : bytes[x] = 0
  PROVE  LET c == Overwrite(b, w[k], bytes)
         IN c \in Seq(Byte) /\ Len(c) = Len(b) /\ Written(ds, w, o, c, k + 1)
<1>. DEFINE c == Overwrite(b, w[k], bytes)
<1>1. /\ w[k] \in Nat /\ w[k] + Len(bytes) <= Len(b) /\ Len(ds) \in Nat
      /\ \A d \in 1 .. Len(ds) : /\ w[d] \in Nat /\ ItemSize(ds[d]) \in Nat
                                 /\ w[d + 1] = w[d] + ItemSize(ds[d]) /\ w[d + 1] <= w[Len(ds) + 1]
      /\ \A d, e \in 1 .. Len(ds) + 1 : d <= e => w[d] <= w[e]
  <2>1. Len(ds) \in Nat
    BY ItemTypes
  <2>2. \A d \in 1 .. Len(ds) : /\ w[d] \in Nat /\ ItemSize(ds[d]) \in Nat
                                 /\ w[d + 1] = w[d] + ItemSize(ds[d]) /\ w[d + 1] <= w[Len(ds) + 1]
    BY ItemBounds
  <2>3. \A d, e \in 1 .. Len(ds) + 1 : d <= e => w[d] <= w[e]
    BY ItemBounds
  <2>4. w[k] \in Nat /\ w[k] + Len(bytes) <= Len(b)
    BY <2>2
  <2>. QED
    BY ONLY <2>1, <2>2, <2>3, <2>4
<1>2. /\ c \in Seq(Byte) /\ Len(c) = Len(b)
      /\ \A x \in 1 .. Len(bytes) : c[w[k] + x] = bytes[x]
      /\ \A x \in 1 .. Len(b) : x <= w[k] => c[x] = b[x]
  BY <1>1, OverwriteType
<1>. HIDE DEF c
<1>3. Part(w, c, k) = bytes
  <2>1. Len(c) = w[Len(ds) + 1] /\ \A x \in 1 .. ItemSize(ds[k]) : c[w[k] + x] = bytes[x]
    BY <1>2
  <2>2. Handled(ds, Len(ds)) /\ AddsUp(ds, w) /\ Len(bytes) = ItemSize(ds[k]) /\ c \in Seq(Byte)
    BY <1>2
  <2>. QED
    BY <2>1, <2>2, PartIs, SMTT(30)
<1>4. ASSUME NEW d \in 1 .. k - 1
      PROVE  /\ d \in 1 .. Len(ds) /\ Part(w, c, d) = Part(w, b, d)
             /\ \A x \in 1 .. ItemSize(ds[d]) : c[w[d] + x] = b[w[d] + x]
  <2>1. d \in 1 .. Len(ds) /\ d + 1 \in 1 .. Len(ds) + 1 /\ k \in 1 .. Len(ds) + 1 /\ d + 1 <= k
    <3>1. PICK n \in Nat : n = Len(ds)
      BY <1>1
    <3>2. k \in 1 .. n
      BY <3>1
    <3>3. d \in 1 .. n /\ d + 1 \in 1 .. n + 1 /\ k \in 1 .. n + 1 /\ d + 1 <= k
      BY <3>2
    <3>. QED
      BY ONLY <3>1, <3>3
  <2>2. w[d] + ItemSize(ds[d]) <= w[k] /\ w[d] \in Nat /\ ItemSize(ds[d]) \in Nat
    <3>1. w[d + 1] <= w[k]
      BY ONLY <1>1, <2>1
    <3>. QED
      BY <1>1, <2>1, <3>1
  <2>3. \A x \in 1 .. ItemSize(ds[d]) : w[d] + x \in 1 .. Len(b) /\ w[d] + x <= w[k]
    <3>1. PICK from \in Nat, size \in Nat, to \in Nat, m \in Nat, n \in Nat :
            /\ from = w[d] /\ size = ItemSize(ds[d]) /\ to = w[k] /\ m = Len(b) /\ n = Len(bytes)
      <4>1. Len(b) \in Nat /\ Len(bytes) \in Nat
        OBVIOUS
      <4>. QED
        BY ONLY <1>1, <2>2, <4>1
    <3>2. from + size <= to /\ to + n <= m
      BY <1>1, <2>2, <3>1
    <3>3. \A x \in 1 .. size : from + x \in 1 .. m /\ from + x <= to
      BY <3>2
    <3>. QED
      BY <3>1, <3>3
  <2>4. \A x \in 1 .. ItemSize(ds[d]) : c[w[d] + x] = b[w[d] + x]
    BY <1>2, <2>3
  <2>5. /\ Part(w, b, d) \in Seq(Byte) /\ Len(Part(w, b, d)) = ItemSize(ds[d])
        /\ \A x \in 1 .. ItemSize(ds[d]) : Part(w, b, d)[x] = b[w[d] + x]
    BY <2>1, PartType
  <2>6. Part(w, c, d) = Part(w, b, d)
    <3>1. PICK s \in Seq(Byte) : s = Part(w, b, d)
      BY <2>5
    <3>2. Len(s) = ItemSize(ds[d]) /\ \A x \in 1 .. ItemSize(ds[d]) : c[w[d] + x] = s[x]
      BY <2>4, <2>5, <3>1
    <3>3. Len(c) = w[Len(ds) + 1]
      BY <1>2
    <3>4. Part(w, c, d) = s
      BY <1>2, <2>1, <3>2, <3>3, PartIs
    <3>. QED
      BY <3>1, <3>4
  <2>. QED
    BY <2>1, <2>4, <2>6
<1>5. ASSUME NEW d \in 1 .. k
      PROVE  /\ Writable(ds, o, d)
             /\ IsField(ds, d) => Part(w, c, d) = Encoded(ds[d], ValueFor(ds[d], o))
             /\ ds[d].kind = "padding" => \A x \in 1 .. ItemSize(ds[d]) : c[w[d] + x] = 0
  <2>1. CASE d = k
    BY <1>2, <1>3, <2>1
  <2>2. CASE d # k
    <3>1. d \in 1 .. k - 1
      BY <2>2
    <3>. QED
      BY <1>4, <3>1 DEF Written
  <2>. QED
    BY <2>1, <2>2
<1>6. 1 .. k + 1 - 1 = 1 .. k
  BY <1>1
<1>7. Written(ds, w, o, c, k + 1)
  BY <1>5, <1>6 DEF Written
<1>. QED
  BY <1>2, <1>7 DEF c

LEMMA ZerosType ==
  ASSUME NEW n \in Nat
  PROVE  Zeros(n) \in Seq(Byte) /\ Len(Zeros(n)) = n /\ \A x \in 1 .. n : Zeros(n)[x] = 0
<1>1. 0 \in Byte
  BY RadixAssumption DEF Byte
<1>2. Zeros(n) \in [1 .. n -> Byte] /\ \A x \in 1 .. n : Zeros(n)[x] = 0
  BY <1>1 DEF Zeros
<1>. QED
  BY <1>2

LEMMA StartEncodeInv == ASSUME TsInv, StartEncode PROVE TsInv'
<1>1. /\ pc = "idle" /\ Ready /\ calls < MaxCalls /\ calls' = calls + 1 /\ op' = "encode" /\ i' = 1
      /\ offset' = 0 /\ pc' = "encode" /\ buf' = Zeros(space)
      /\ UNCHANGED << layoutVars, ret, historyVars >>
  BY DEF StartEncode, Start, Ready
<1>2. PICK o \in Objects \cup {decoded.obj} : obj' = o
  BY DEF StartEncode
<1>3. Object(o)
  BY TsInputsAssumption DEF TsInv, TsTypeOK, Object
<1>4. Starts[1] = 0 /\ 1 \in 1 .. Len(defs) + 1 /\ space \in Nat
  BY <1>1, ReadyBounds
<1>5. buf' \in Seq(Byte) /\ Len(buf') = space
  BY <1>1, <1>4, ZerosType
<1>6. TsTypeOK'
  <2>1. calls' \in 0 .. MaxCalls /\ i' \in Nat \ {0} /\ offset' \in 0 .. space
    BY <1>1, <1>4, TsInputsAssumption DEF TsInv, TsTypeOK
  <2>. QED
    BY <1>1, <1>2, <1>3, <1>5, <2>1 DEF TsInv, TsTypeOK, Object, layoutVars, historyVars
<1>7. MadeInv' /\ PastInv'
  BY <1>1, MadeKept, PastKept DEF Ready
<1>8. Starts' = Starts /\ defs' = defs /\ space' = space
  BY <1>1, StartsKept DEF layoutVars
<1>9. Written(defs, Starts, obj', buf', 1)
  BY DEF Written
<1>. QED
  BY <1>1, <1>4, <1>5, <1>6, <1>7, <1>8, <1>9 DEF TsInv, RunInv, DoneInv, Returned

LEMMA EncodeItemInv == ASSUME TsInv, EncodeItem PROVE TsInv'
<1>. DEFINE f == defs[i]
            bytes == IF f.kind = "padding" THEN Zeros(f.size) ELSE Encoded(f, ValueFor(f, obj))
<1>1. /\ pc = "encode" /\ Ready /\ i <= Len(defs)
      /\ UNCHANGED << layoutVars, calls, op, obj, encoded, decoded >>
  BY DEF EncodeItem, Ready, historyVars
<1>2. /\ op = "encode" /\ i \in 1 .. Len(defs) + 1 /\ offset = Starts[i] /\ Len(buf) = space
      /\ Written(defs, Starts, obj, buf, i) /\ buf \in Seq(Byte) /\ Object(obj)
  BY <1>1 DEF TsInv, TsTypeOK, RunInv
<1>3. /\ i \in 1 .. Len(defs) /\ i + 1 \in 1 .. Len(defs) + 1 /\ i + 1 \in Nat \ {0}
      /\ Handled(defs, Len(defs)) /\ defs \in DefLists /\ AddsUp(defs, Starts)
      /\ space = Starts[Len(defs) + 1] /\ space \in Nat /\ offset \in Nat
      /\ Starts[i + 1] = offset + ItemSize(f) /\ Starts[i + 1] <= space /\ Starts[i + 1] \in Nat
  BY <1>1, <1>2, ReadyBounds
<1>4. f \in LayoutItem /\ f.name \in STRING /\ f.kind \in FieldKinds \cup Gaps
  BY <1>3, ItemTypes DEF Handled
<1>5. offset + ItemSize(f) <= Len(buf)
  BY <1>2, <1>3
<1>6. Starts' = Starts /\ defs' = defs /\ space' = space
  BY <1>1, StartsKept DEF layoutVars
<1>7. IF Writable(defs, obj, i)
      THEN /\ buf' = Overwrite(buf, offset, bytes) /\ offset' = Starts[i + 1] /\ i' = i + 1
           /\ UNCHANGED << pc, ret >>
      ELSE pc' = "idle" /\ ret' = "throw" /\ UNCHANGED << i, offset, buf >>
  BY <1>3, <1>5 DEF EncodeItem, Writable, IsField, EncodedEnd, Return
<1>8. CASE Writable(defs, obj, i)
  <2>1. /\ bytes \in Seq(Byte) /\ Len(bytes) = ItemSize(f)
        /\ IsField(defs, i) => bytes = Encoded(f, ValueFor(f, obj))
        /\ f.kind = "padding" => \A x \in 1 .. ItemSize(f) : bytes[x] = 0
    <3>1. CASE IsField(defs, i)
      <4>1. f.kind \in FieldKinds /\ f.kind # "padding"
        BY <3>1 DEF IsField, FieldKinds
      <4>2. Fits(f.kind, ValueFor(f, obj))
        BY <1>8, <3>1 DEF Writable
      <4>3. ValueFor(f, obj) \in JsValue
        BY <1>2, <1>4, <4>1, <4>2, FittingValues
      <4>4. bytes = Encoded(f, ValueFor(f, obj))
        BY <4>1
      <4>5. /\ Encoded(f, ValueFor(f, obj)) \in Seq(Byte)
            /\ Len(Encoded(f, ValueFor(f, obj))) = ItemSize(f)
        BY <1>4, <4>1, <4>2, <4>3, ValueReadsBack
      <4>. QED
        BY <4>1, <4>4, <4>5
    <3>2. CASE ~IsField(defs, i)
      <4>1. f.kind = "padding"
        BY <1>4, <1>8, <3>2 DEF Writable, IsField, Gaps
      <4>2. ItemSize(f) = f.size /\ f.size \in Nat
        BY <1>4, <4>1, ItemSizes DEF Gaps
      <4>. QED
        BY <3>2, <4>1, <4>2, ZerosType
    <3>. QED
      BY <3>1, <3>2
  <2>. HIDE DEF bytes
  <2>2. buf' = Overwrite(buf, Starts[i], bytes) /\ offset' = Starts[i + 1] /\ i' = i + 1
        /\ UNCHANGED << pc, ret >>
    BY <1>2, <1>7, <1>8
  <2>3. buf' \in Seq(Byte) /\ Len(buf') = space /\ Written(defs, Starts, obj, buf', i + 1)
    BY <1>2, <1>3, <1>8, <2>1, <2>2, WrittenStep
  <2>. QED
    BY <1>1, <1>2, <1>3, <1>6, <2>2, <2>3, MadeKept, PastKept
       DEF TsInv, TsTypeOK, RunInv, DoneInv, Returned, Ready, layoutVars, historyVars
<1>9. CASE ~Writable(defs, obj, i)
  <2>1. pc' = "idle" /\ ret' = "throw" /\ UNCHANGED << i, offset, buf >>
    BY <1>7, <1>9
  <2>2. \E d \in 1 .. Len(defs) : ~Writable(defs, obj, d)
    BY <1>3, <1>9
  <2>. QED
    BY <1>1, <1>2, <1>6, <2>1, <2>2, MadeKept, PastKept
       DEF TsInv, TsTypeOK, RunInv, DoneInv, Returned, Ready, layoutVars, historyVars
<1>. QED
  BY <1>8, <1>9

LEMMA EncodeDoneInv == ASSUME TsInv, EncodeDone PROVE TsInv'
<1>1. /\ pc = "encode" /\ Ready /\ i > Len(defs) /\ pc' = "idle" /\ ret' = "ok"
      /\ encoded' = [buf |-> buf, obj |-> obj]
      /\ UNCHANGED << layoutVars, i, calls, op, offset, buf, obj, decoded >>
  BY DEF EncodeDone, Return, Ready
<1>2. /\ op = "encode" /\ i = Len(defs) + 1 /\ Len(buf) = space /\ buf \in Seq(Byte)
      /\ Written(defs, Starts, obj, buf, Len(defs) + 1) /\ Object(obj)
  BY <1>1, ReadyBounds DEF TsInv, TsTypeOK, RunInv
<1>3. Starts' = Starts /\ defs' = defs /\ space' = space
  BY <1>1, StartsKept DEF layoutVars
<1>4. encoded'.buf = buf /\ encoded'.obj = obj
  BY <1>1
<1>5. TsTypeOK'
  BY <1>1, <1>2, <1>4 DEF TsInv, TsTypeOK, Object, layoutVars
<1>6. MadeInv'
  BY <1>1, MadeKept DEF Ready
<1>7. PastInv'
  BY <1>1, <1>2, <1>3, <1>4 DEF TsInv, PastInv
<1>8. RunInv' /\ DoneInv'
  BY <1>1, <1>2, <1>3 DEF RunInv, DoneInv, Returned
<1>. QED
  BY <1>5, <1>6, <1>7, <1>8 DEF TsInv

-----------------------------------------------------------------------------
(* The theorems.                                                           *)

LEMMA NextInv == ASSUME TsInv, [Next]_vars PROVE TsInv'
<1>1. CASE UNCHANGED vars
  BY <1>1 DEF TsInv, TsTypeOK, Object, MadeInv, Ready, RunInv, DoneInv, PastInv, Returned, Starts,
              vars
<1>2. CASE Next
  BY <1>1, <1>2, AddItemInv, LayoutMadeInv, StartDecodeInv, DecodeItemInv, DecodeDoneInv,
     StartEncodeInv, EncodeItemInv, EncodeDoneInv DEF Next
<1>. QED
  BY <1>1, <1>2

LEMMA TsInvariant == Spec => []TsInv
<1>. QED
  BY InitInv, NextInv, PTL DEF Spec

(* Type correctness: no read, write or offset leaves the buffer.           *)
THEOREM TsTypeCorrect == Spec => []TsTypeOK
<1>1. TsInv => TsTypeOK
  BY DEF TsInv
<1>. QED
  BY <1>1, TsInvariant, PTL

(* decode and encode find every item where the layout has it; neither      *)
(* throws unless a value does not fit or the length is wrong.              *)
THEOREM TsLoopsAgree == Spec => []LoopsAgree
<1>1. ASSUME TsInv PROVE LoopsAgree
  <2>1. pc \in {"decode", "encode"} => offset = Starts[i] /\ space = Starts[Len(defs) + 1]
    BY <1>1, ReadyBounds DEF TsInv, RunInv, Ready
  <2>2. Returned("decode") /\ Len(buf) = space => ret = "ok"
    BY <1>1 DEF TsInv, DoneInv
  <2>3. ASSUME Returned("encode"), SkipsNothing, Names \subseteq DOMAIN obj,
               \A d \in DOMAIN defs : defs[d].kind \in FieldKinds => Fits(defs[d].kind, obj[defs[d].name])
        PROVE  ret = "ok"
    <3>1. DOMAIN defs = 1 .. Len(defs)
      BY <1>1, ItemTypes DEF TsInv, TsTypeOK
    <3>2. ASSUME NEW d \in 1 .. Len(defs), IsField(defs, d)
          PROVE  Fits(defs[d].kind, ValueFor(defs[d], obj))
      <4>1. Fits(defs[d].kind, obj[defs[d].name]) /\ defs[d].name \in DOMAIN obj
        BY <2>3, <3>1, <3>2 DEF IsField, Names
      <4>. QED
        BY <3>2, <4>1, ObjectValues DEF IsField
    <3>3. \A d \in 1 .. Len(defs) : Writable(defs, obj, d)
      BY <2>3, <3>1, <3>2 DEF Writable, SkipsNothing
    <3>. QED
      BY <1>1, <2>3, <3>3 DEF TsInv, DoneInv
  <2>. QED
    BY <2>1, <2>2, <2>3 DEF LoopsAgree
<1>. QED
  BY <1>1, TsInvariant, PTL

(* decode gives back the object encode was given, as far as the schema     *)
(* names it, with 0 for the numbers the object has not.                    *)
THEOREM TsEncodedReadsBack == Spec => []EncodedReadsBack
<1>1. ASSUME TsInv, Returned("decode"), encoded # Nothing, buf = encoded.buf
      PROVE  /\ ret = "ok" /\ DOMAIN obj = Names
             /\ \A name \in Names :
                  obj[name] = IF shape[name] = "number" /\ ValueOf(encoded.obj, name).class # "number"
                              THEN Zero
                              ELSE encoded.obj[name]
  <2>. DEFINE n == Len(defs)
              v == Values(defs, Starts, buf)
  <2>1. /\ Len(buf) = space /\ Written(defs, Starts, encoded.obj, buf, n + 1) /\ buf \in Seq(Byte)
        /\ Object(encoded.obj)
    BY <1>1 DEF TsInv, TsTypeOK, PastInv
  <2>2. ret = "ok" /\ Filled(defs, obj, v, n + 1) /\ Filled(defs, shape, Classes(defs), n + 1)
    BY <1>1, <2>1 DEF TsInv, DoneInv, MadeInv, Ready, Returned
  <2>3. /\ n \in Nat /\ defs \in DefLists /\ Handled(defs, n) /\ AddsUp(defs, Starts)
        /\ space = Starts[n + 1] /\ DOMAIN defs = 1 .. n /\ 1 .. n + 1 - 1 = 1 .. n
    BY <1>1, ReadyBounds, ItemTypes DEF Ready, Returned
  <2>4. \A x : x \in Names <=> \E d \in 1 .. n : IsField(defs, d) /\ defs[d].name = x
    BY <2>3 DEF Names, IsField
  <2>5. DOMAIN obj = Names
    <3>. HIDE DEF n, v
    <3>1. ASSUME NEW x \in DOMAIN obj PROVE x \in Names
      <4>1. PICK d \in 1 .. n : LastOfName(defs, d, n + 1) /\ defs[d].name = x
        BY <2>2, <2>3 DEF Filled
      <4>. QED
        BY <2>4, <4>1 DEF LastOfName
    <3>2. \A d \in 1 .. n : IsField(defs, d) => defs[d].name \in DOMAIN obj
      BY <2>2, <2>3 DEF Filled
    <3>. QED
      BY <2>4, <3>1, <3>2
  <2>6. ASSUME NEW x \in Names
        PROVE  obj[x] = IF shape[x] = "number" /\ ValueOf(encoded.obj, x).class # "number"
                        THEN Zero ELSE encoded.obj[x]
    <3>1. PICK d \in 1 .. n : LastOfName(defs, d, n + 1) /\ defs[d].name = x
      BY <2>2, <2>3, <2>5, <2>6 DEF Filled
    <3>2. IsField(defs, d) /\ obj[x] = v[d] /\ shape[x] = Class(defs[d].kind)
      BY <2>2, <2>3, <3>1 DEF Filled, LastOfName, Classes
    <3>3. v[d] = Decoded(defs[d], Part(Starts, buf, d))
      BY <2>1, <2>3, <3>2, ValueTypes
    <3>4. /\ Fits(defs[d].kind, ValueFor(defs[d], encoded.obj))
          /\ Part(Starts, buf, d) = Encoded(defs[d], ValueFor(defs[d], encoded.obj))
      BY <2>1, <2>3, <3>1, <3>2 DEF Written, Writable
    <3>5. defs[d] \in LayoutItem /\ defs[d].kind \in FieldKinds
      BY <2>3, <3>2, ItemTypes DEF IsField
    <3>6. /\ ValueFor(defs[d], encoded.obj) \in JsValue
          /\ ValueFor(defs[d], encoded.obj) =
               IF Class(defs[d].kind) = "number" /\ ValueOf(encoded.obj, x).class # "number"
               THEN Zero ELSE encoded.obj[x]
      BY <2>1, <3>1, <3>4, <3>5, FittingValues
    <3>7. obj[x] = ValueFor(defs[d], encoded.obj)
      BY <3>2, <3>3, <3>4, <3>5, <3>6, ValueReadsBack
    <3>. QED
      BY <3>2, <3>6, <3>7
  <2>. QED
    BY <2>2, <2>5, <2>6
<1>2. TsInv => EncodedReadsBack
  BY <1>1 DEF EncodedReadsBack
<1>. QED
  BY <1>2, TsInvariant, PTL

(* encode gives back the bytes decode was given, up to those of padding.   *)
THEOREM TsDecodedWritesBack == Spec => []DecodedWritesBack
<1>1. ASSUME TsInv, Returned("encode"), decoded # Nothing, obj = decoded.obj, SkipsNothing, NamesDistinct
      PROVE  /\ ret = "ok"
             /\ \A d \in DOMAIN defs, b \in 1 .. space :
                  b \in Starts[d] + 1 .. Starts[d + 1] =>
                    buf[b] = IF defs[d].kind = "padding" THEN 0 ELSE decoded.buf[b]
  <2>. DEFINE n == Len(defs)
              v == Values(defs, Starts, decoded.buf)
  <2>1. /\ n \in Nat /\ defs \in DefLists /\ Handled(defs, n) /\ AddsUp(defs, Starts)
        /\ space = Starts[n + 1] /\ DOMAIN defs = 1 .. n /\ 1 .. n + 1 - 1 = 1 .. n
        /\ \A d \in 1 .. n : /\ Starts[d] \in Nat /\ ItemSize(defs[d]) \in Nat
                             /\ Starts[d + 1] = Starts[d] + ItemSize(defs[d])
    BY <1>1, ReadyBounds, ItemTypes DEF Ready, Returned
  <2>2. /\ Len(decoded.buf) = space /\ Filled(defs, obj, v, n + 1) /\ decoded.buf \in Seq(Byte)
    BY <1>1 DEF TsInv, TsTypeOK, PastInv
  <2>3. ASSUME NEW d \in 1 .. n, IsField(defs, d)
        PROVE  /\ defs[d].name \in DOMAIN obj /\ Fits(defs[d].kind, obj[defs[d].name])
               /\ Encoded(defs[d], obj[defs[d].name]) = Part(Starts, decoded.buf, d)
    <3>1. \A e \in 1 .. n : IsField(defs, e) /\ defs[e].name = defs[d].name => e = d
      BY <1>1, <2>1, <2>3 DEF NamesDistinct, IsField
    <3>2. LastOfName(defs, d, n + 1)
      BY <2>1, <2>3, <3>1 DEF LastOfName
    <3>3. defs[d].name \in DOMAIN obj /\ obj[defs[d].name] = v[d]
      BY <2>1, <2>2, <2>3, <3>2 DEF Filled
    <3>4. Fits(defs[d].kind, v[d]) /\ Encoded(defs[d], v[d]) = Part(Starts, decoded.buf, d)
      <4>1. PICK c \in Seq(Byte) : c = decoded.buf
        BY <2>2
      <4>2. d \in 1 .. Len(defs) /\ Len(c) = Starts[Len(defs) + 1] /\ Handled(defs, Len(defs))
        BY <2>1, <2>2, <4>1
      <4>3. Fits(defs[d].kind, Values(defs, Starts, c)[d])
            /\ Encoded(defs[d], Values(defs, Starts, c)[d]) = Part(Starts, c, d)
        BY <2>1, <2>3, <4>2, ValueTypes
      <4>. QED
        BY <4>1, <4>3
    <3>. QED
      BY <3>3, <3>4
  <2>4. /\ \A d \in 1 .. n : Writable(defs, obj, d)
        /\ \A d \in 1 .. n : IsField(defs, d) => ValueFor(defs[d], obj) = obj[defs[d].name]
    <3>1. \A d \in 1 .. n : IsField(defs, d) => ValueFor(defs[d], obj) = obj[defs[d].name]
      BY <2>3, ObjectValues DEF IsField
    <3>. QED
      BY <1>1, <2>1, <2>3, <3>1 DEF Writable, SkipsNothing
  <2>5. ret = "ok" /\ Len(buf) = space /\ Written(defs, Starts, obj, buf, n + 1) /\ buf \in Seq(Byte)
    BY <1>1, <2>4 DEF TsInv, TsTypeOK, DoneInv
  <2>6. ASSUME NEW d \in 1 .. n, NEW x \in 1 .. ItemSize(defs[d])
        PROVE  buf[Starts[d] + x] = IF defs[d].kind = "padding" THEN 0 ELSE decoded.buf[Starts[d] + x]
    <3>1. CASE defs[d].kind = "padding"
      BY <2>1, <2>5, <3>1 DEF Written
    <3>2. CASE defs[d].kind # "padding"
      <4>1. IsField(defs, d)
        BY <1>1, <2>1, <3>2 DEF IsField, Handled, Gaps, SkipsNothing
      <4>2. Part(Starts, buf, d) = Part(Starts, decoded.buf, d)
        <5>1. Part(Starts, buf, d) = Encoded(defs[d], ValueFor(defs[d], obj))
          BY <2>1, <2>5, <4>1 DEF Written
        <5>2. Encoded(defs[d], obj[defs[d].name]) = Part(Starts, decoded.buf, d)
          BY <2>3, <4>1
        <5>3. ValueFor(defs[d], obj) = obj[defs[d].name]
          BY <2>4, <4>1
        <5>. QED
          BY ONLY <5>1, <5>2, <5>3
      <4>3. ASSUME NEW c \in Seq(Byte), Len(c) = space
            PROVE  Part(Starts, c, d)[x] = c[Starts[d] + x]
        <5>1. PICK ds, w : ds = defs /\ w = Starts
          OBVIOUS
        <5>2. /\ d \in 1 .. Len(ds) /\ Len(c) = w[Len(ds) + 1] /\ Handled(ds, Len(ds))
              /\ ds \in DefLists /\ AddsUp(ds, w)
          BY <2>1, <4>3, <5>1
        <5>3. \A y \in 1 .. ItemSize(ds[d]) : Part(w, c, d)[y] = c[w[d] + y]
          BY <5>2, PartType
        <5>. QED
          BY <5>1, <5>3
      <4>4. /\ Part(Starts, buf, d)[x] = buf[Starts[d] + x]
            /\ Part(Starts, decoded.buf, d)[x] = decoded.buf[Starts[d] + x]
        BY <2>2, <2>5, <4>3
      <4>. QED
        BY <3>2, <4>2, <4>4
    <3>. QED
      BY <3>1, <3>2
  <2>7. ASSUME NEW d \in DOMAIN defs, NEW b \in 1 .. space, b \in Starts[d] + 1 .. Starts[d + 1]
        PROVE  buf[b] = IF defs[d].kind = "padding" THEN 0 ELSE decoded.buf[b]
    <3>1. PICK x \in 1 .. ItemSize(defs[d]) : b = Starts[d] + x
      <4>1. b - Starts[d] \in 1 .. ItemSize(defs[d]) /\ b = Starts[d] + (b - Starts[d])
        BY <2>1, <2>7
      <4>. QED
        BY <4>1
    <3>. QED
      BY <2>1, <2>6, <3>1
  <2>. QED
    BY <2>5, <2>7
<1>2. TsInv => DecodedWritesBack
  BY <1>1 DEF DecodedWritesBack
<1>. QED
  BY <1>2, TsInvariant, PTL
=================================================================================
