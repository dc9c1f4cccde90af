--------------------------- MODULE FixedCodecProofs ---------------------------
(***************************************************************************)
(* Theorems about the code #[fixed_offset_layout] generates, for every     *)
(* struct, buffer, sequence of calls and value of the constants.           *)
(***************************************************************************)
EXTENDS FixedContract, FixedExpandProofs

-----------------------------------------------------------------------------
(* Bytes.                                                                  *)

(* A write keeps a memory a memory, and what is outside it.                *)
LEMMA FixedWriteType ==
  ASSUME NEW m \in Memory, NEW a \in Nat, NEW bytes \in Seq(Byte)
  PROVE  /\ Write(m, a, bytes) \in Memory
         /\ \A x \in DOMAIN m : x \notin a .. a + Len(bytes) - 1 => Write(m, a, bytes)[x] = m[x]
<1>1. DOMAIN m = 0 .. MemLen - 1
  BY DEF Memory
<1>2. \A x \in DOMAIN m : (IF x \in a .. a + Len(bytes) - 1 THEN bytes[x - a + 1] ELSE m[x]) \in Byte
  BY DEF Memory
<1>. QED
  BY <1>1, <1>2 DEF Write, Memory

(* What is read back where it was written.                                 *)
LEMMA BytesWritten ==
  ASSUME NEW m \in Memory, NEW a \in Nat, NEW bytes \in Seq(Byte), NEW to \in Nat,
         to = a + Len(bytes), bytes = << >> \/ to <= MemLen
  PROVE  Bytes(Write(m, a, bytes), a, to) = bytes
<1>. DEFINE n == Len(bytes)
            w == Write(m, a, bytes)
<1>1. n \in Nat /\ MemLen \in Nat /\ (n # 0 => to <= MemLen) /\ to - a = n
  BY FixedMemoryAssumption, LenProperties, EmptySeq
<1>2. bytes = [k \in 1 .. n |-> bytes[k]]
  BY LenProperties
<1>. HIDE DEF n
<1>3. \A k \in 1 .. n : w[a + k - 1] = bytes[k]
  <2>. SUFFICES ASSUME NEW k \in 1 .. n PROVE w[a + k - 1] = bytes[k]
    OBVIOUS
  <2>1. PICK x : x = a + k - 1
    OBVIOUS
  <2>2. x \in a .. a + n - 1 /\ x \in 0 .. MemLen - 1 /\ x - a + 1 = k
    BY <1>1, <2>1
  <2>3. x \in DOMAIN m
    BY <2>2 DEF Memory
  <2>4. w[x] = bytes[x - a + 1]
    BY <2>2, <2>3 DEF Write, n
  <2>. QED
    BY <2>1, <2>2, <2>4
<1>. HIDE DEF w
<1>4. Bytes(w, a, to) = [k \in 1 .. to - a |-> w[a + k - 1]]
  BY DEF Bytes
<1>. QED
  BY <1>1, <1>2, <1>3, <1>4 DEF w

(* What a later write leaves.                                              *)
LEMMA BytesKept ==
  ASSUME NEW m \in Memory, NEW a \in Nat, NEW bytes \in Seq(Byte),
         NEW from \in Nat, NEW to \in Nat, to <= a, to <= from \/ to <= MemLen
  PROVE  Bytes(Write(m, a, bytes), from, to) = Bytes(m, from, to)
<1>1. MemLen \in Nat /\ DOMAIN m = 0 .. MemLen - 1
  BY FixedMemoryAssumption DEF Memory
<1>2. \A k \in 1 .. to - from : Write(m, a, bytes)[from + k - 1] = m[from + k - 1]
  <2>. SUFFICES ASSUME NEW k \in 1 .. to - from
                PROVE  Write(m, a, bytes)[from + k - 1] = m[from + k - 1]
    OBVIOUS
  <2>1. PICK x : x = from + k - 1
    OBVIOUS
  <2>2. x \in DOMAIN m /\ x \notin a .. a + Len(bytes) - 1
    BY <1>1, <2>1
  <2>. QED
    BY <2>1, <2>2, FixedWriteType
<1>. QED
  BY <1>2 DEF Bytes

(* A slice of the buffer is made of bytes, and is as long as it says.      *)
LEMMA FixedBytesType ==
  ASSUME NEW m \in Memory, NEW from \in Nat, NEW to \in Nat, to <= MemLen, from <= to
  PROVE  Bytes(m, from, to) \in Seq(Byte)
<1>1. \A k \in 1 .. to - from : m[from + k - 1] \in Byte
  BY FixedMemoryAssumption DEF Memory
<1>2. to - from \in Nat
  OBVIOUS
<1>. QED
  BY <1>1, <1>2 DEF Bytes

LEMMA ZerosType ==
  ASSUME NEW n \in Nat
  PROVE  Zeros(n) \in Seq(Byte) /\ Len(Zeros(n)) = n
<1>1. 0 \in Byte
  BY RadixAssumption DEF Byte
<1>2. Zeros(n) = [k \in 1 .. n |-> 0]
  BY DEF Zeros
<1>. QED
  BY <1>1, <1>2

LEMMA HeaderAtType ==
  ASSUME mem \in Memory, slice \in Slice, NEW o \in Nat, NEW width \in 0 .. MaxFlexWidth,
         o + width <= SliceLen
  PROVE  HeaderAt(o, width) \in Nat
<1>1. slice.lo \in Nat /\ slice.hi \in Nat /\ slice.hi <= MemLen /\ MemLen \in Nat
  BY FixedMemoryAssumption DEF Slice
<1>2. PICK a \in Nat : a = slice.lo + o
  BY <1>1
<1>3. a + width <= MemLen /\ width \in 0 .. MaxLenWidth
  BY <1>1, <1>2 DEF SliceLen, MaxFlexWidth, MaxLenWidth
<1>4. \A i \in 1 .. width : a + i - 1 \in 0 .. MemLen - 1
  BY <1>1, <1>3 DEF MaxFlexWidth
<1>5. \A i \in 1 .. width : mem[a + i - 1] \in Nat
  BY <1>4, RadixAssumption DEF Memory, Byte
<1>6. ReadLenHeader(mem, a, width) \in Nat
  BY <1>3, <1>5, HeaderReadType
<1>. QED
  BY <1>2, <1>6 DEF HeaderAt

(* A field is encoded in as many bytes as its slot has, or its tail needs. *)
LEMMA FixedFieldBytes ==
  ASSUME NEW l \in FixedLayout, NEW v \in FieldValue, IsFieldValue(l, v), ~OverCapacity(l, v)
  PROVE  /\ FieldBytes(l, v) \in Seq(Byte)
         /\ Len(FieldBytes(l, v)) = EncodedFieldLen(l, v.count)
         /\ EncodedFieldLen(l, v.count) \in Nat
<1>. DEFINE size == Size(l.kind)
<1>1. /\ l.shape \in {"plain", "option", "tail_option", "vec", "tail_vec"}
      /\ l.width \in 0 .. MaxLenWidth /\ l.width \in Nat /\ l.capacity \in Nat /\ size \in Nat
  BY KindTypes DEF FixedLayout, MaxFlexWidth, MaxLenWidth
<1>2. v.count \in Nat /\ v.data \in Seq(Byte) /\ Len(v.data) = v.count * size
  BY DEF FieldValue, IsFieldValue
<1>3. << 1 >> \in Seq(Byte) /\ Len(<< 1 >>) = 1
  BY RadixAssumption DEF Byte
<1>4. LenHeader(v.count, l.width) \in Seq(Byte) /\ Len(LenHeader(v.count, l.width)) = l.width
  BY <1>1, <1>2, LenHeaderType
<1>. HIDE DEF size
<1>5. ASSUME NEW s \in Seq(Byte), NEW t \in Seq(Byte)
      PROVE  s \o t \in Seq(Byte) /\ Len(s \o t) = Len(s) + Len(t)
  BY ConcatProperties
<1>6. CASE l.shape = "plain"
  <2>1. v.count = 1 /\ SlotMinLen(l) = size /\ EncodedFieldLen(l, v.count) = SlotMinLen(l)
    BY <1>6 DEF IsFieldValue, SlotMinLen, EncodedFieldLen, IsTail, size
  <2>2. FieldBytes(l, v) = v.data
    BY <1>6 DEF FieldBytes
  <2>. QED
    BY <1>1, <1>2, <2>1, <2>2
<1>7. CASE l.shape = "option"
  <2>a. SlotMinLen(l) = 1 + size
    BY <1>7 DEF SlotMinLen, IsTail, size
  <2>1. v.count \in {0, 1} /\ EncodedFieldLen(l, v.count) = 1 + size
    BY <1>7, <2>a DEF IsFieldValue, EncodedFieldLen, IsVec
  <2>2. FieldBytes(l, v) = IF v.count = 1 THEN << 1 >> \o v.data ELSE Zeros(1 + size)
    BY <1>7 DEF FieldBytes, size
  <2>3. Zeros(1 + size) \in Seq(Byte) /\ Len(Zeros(1 + size)) = 1 + size
    BY <1>1, ZerosType
  <2>4. << 1 >> \o v.data \in Seq(Byte) /\ Len(<< 1 >> \o v.data) = 1 + v.count * size
    BY <1>2, <1>3, <1>5
  <2>5. 1 * size = size
    BY <1>1
  <2>. QED
    BY <1>1, <2>1, <2>2, <2>3, <2>4, <2>5
<1>8. CASE l.shape = "tail_option"
  <2>1. v.count \in {0, 1} /\ EncodedFieldLen(l, v.count) = IF v.count = 1 THEN 1 + size ELSE 0
    BY <1>8 DEF IsFieldValue, EncodedFieldLen, IsVec, size
  <2>2. FieldBytes(l, v) = IF v.count = 1 THEN << 1 >> \o v.data ELSE << >>
    BY <1>8 DEF FieldBytes
  <2>3. << >> \in Seq(Byte) /\ Len(<< >>) = 0
    OBVIOUS
  <2>4. << 1 >> \o v.data \in Seq(Byte) /\ Len(<< 1 >> \o v.data) = 1 + v.count * size
    BY <1>2, <1>3, <1>5
  <2>5. 1 * size = size
    BY <1>1
  <2>. QED
    BY <1>1, <2>1, <2>2, <2>3, <2>4, <2>5
<1>. DEFINE filled == LenHeader(v.count, l.width) \o v.data
<1>9. filled \in Seq(Byte) /\ Len(filled) = l.width + v.count * size /\ v.count * size \in Nat
  <2>1. v.count * size \in Nat
    BY <1>1, <1>2
  <2>. QED
    BY <1>2, <1>4, <1>5, <2>1
<1>10. CASE l.shape = "vec"
  <2>1. v.count <= l.capacity
    BY <1>1, <1>2, <1>10 DEF OverCapacity, IsVec
  <2>2. PICK rest \in Nat : rest = l.capacity - v.count
    BY <1>1, <1>2, <2>1
  <2>a. SlotMinLen(l) = l.width + size * l.capacity
    BY <1>10 DEF SlotMinLen, IsTail, size
  <2>3. EncodedFieldLen(l, v.count) = l.width + size * l.capacity
    BY <1>10, <2>a DEF EncodedFieldLen
  <2>4. FieldBytes(l, v) = filled \o Zeros(rest * size)
    BY <1>10, <2>2 DEF FieldBytes, size
  <2>5. PICK z \in Nat : z = rest * size
    BY <1>1, <2>2
  <2>6. Zeros(z) \in Seq(Byte) /\ Len(Zeros(z)) = z
    BY <2>5, ZerosType
  <2>7. size * l.capacity = v.count * size + z /\ size * l.capacity \in Nat
    <3>1. l.capacity = v.count + rest /\ size \in Nat /\ v.count \in Nat /\ rest \in Nat
      BY <1>1, <1>2, <2>2
    <3>2. \A a, b, c \in Nat : a * (b + c) = b * a + c * a /\ b * a \in Nat /\ c * a \in Nat
      OBVIOUS
    <3>. HIDE DEF size
    <3>3. size * (v.count + rest) = v.count * size + rest * size
          /\ v.count * size \in Nat /\ rest * size \in Nat
      BY ONLY <3>1, <3>2
    <3>. QED
      BY ONLY <2>5, <3>1, <3>3
  <2>. HIDE DEF filled
  <2>8. FieldBytes(l, v) \in Seq(Byte) /\ Len(FieldBytes(l, v)) = l.width + v.count * size + z
    BY <1>5, <1>9, <2>4, <2>5, <2>6
  <2>9. l.width \in Nat
    BY <1>1
  <2>10. Len(FieldBytes(l, v)) = EncodedFieldLen(l, v.count)
    <3>1. PICK n : n = v.count * size
      OBVIOUS
    <3>2. PICK whole : whole = size * l.capacity
      OBVIOUS
    <3>3. n \in Nat /\ whole = n + z
      BY ONLY <1>9, <2>7, <3>1, <3>2
    <3>4. l.width + n + z = l.width + whole
      BY ONLY <2>5, <2>9, <3>3
    <3>. QED
      BY ONLY <2>3, <2>8, <3>1, <3>2, <3>4
  <2>. QED
    BY <2>8, <2>10
<1>11. CASE l.shape = "tail_vec"
  <2>1. EncodedFieldLen(l, v.count) = IF v.count = 0 THEN 0 ELSE l.width + v.count * size
    BY <1>11 DEF EncodedFieldLen, size
  <2>2. FieldBytes(l, v) = IF v.count = 0 THEN << >> ELSE filled
    BY <1>11 DEF FieldBytes
  <2>3. << >> \in Seq(Byte) /\ Len(<< >>) = 0
    OBVIOUS
  <2>. HIDE DEF filled
  <2>. QED
    BY <1>1, <1>9, <2>1, <2>2, <2>3
<1>. QED
  BY <1>1, <1>6, <1>7, <1>8, <1>10, <1>11

-----------------------------------------------------------------------------
(* The slots of a struct that compiles. *)

LEMMA FixedEmitted ==
  ASSUME ExpandedInv, phase = "emitted"
  PROVE  /\ FieldCount \in Nat \ {0} /\ FieldCount = Len(layouts)
         /\ DataLen \in Nat /\ MinLen = DataLen /\ placed[1] = 0
         /\ DataLen = placed[FieldCount] + SlotMinLen(layouts[FieldCount])
         /\ \A i \in 1 .. FieldCount - 1 : placed[i + 1] = placed[i] + SlotMinLen(layouts[i])
         /\ HasTail <=> IsTail(layouts[FieldCount])
<1>1. FieldCount \in Nat /\ FieldCount # 0 /\ FieldCount = Len(layouts)
  BY RejectedState DEF ExpandedInv, ShapesInv, FixedInv, EmittedInv, FieldCount
<1>2. SlotsContiguous
  BY InvSlotsContiguous DEF ExpandedInv
<1>3. /\ 1 \in 1 .. FieldCount /\ FieldCount \in 1 .. FieldCount
      /\ \A i \in 1 .. FieldCount - 1 : i \in 1 .. FieldCount /\ i + 1 \in 1 .. FieldCount
  BY <1>1
<1>4. DataLen \in Nat
  <2>1. offsets \in Seq(Nat) /\ offsets # << >>
    BY DEF ExpandedInv, FixedInv, FixedTypeOK
  <2>2. Len(offsets) \in 1 .. Len(offsets)
    BY <2>1, EmptySeq, LenProperties
  <2>. QED
    BY <2>1, <2>2, ElementOfSeq DEF DataLen
<1>. QED
  BY <1>1, <1>2, <1>3, <1>4 DEF SlotsContiguous, HasTail

LEMMA EmittedField ==
  ASSUME ExpandedInv, phase = "emitted", NEW i \in 1 .. FieldCount
  PROVE  /\ layouts[i] \in FixedLayout /\ placed[i] \in Nat /\ SlotMinLen(layouts[i]) \in Nat
         /\ IsTail(layouts[i]) => i = FieldCount
         /\ placed[i] + SlotMinLen(layouts[i]) <= DataLen /\ OFFSETS[i] = placed[i]
         /\ ~Misaligned(layouts[i], placed[i])
<1>1. /\ FieldCount \in Nat \ {0} /\ FieldCount = Len(layouts)
      /\ DataLen \in Nat /\ DataLen = placed[FieldCount] + SlotMinLen(layouts[FieldCount])
      /\ \A k \in 1 .. FieldCount - 1 : placed[k + 1] = placed[k] + SlotMinLen(layouts[k])
  BY FixedEmitted
<1>2. \A k \in 1 .. FieldCount : /\ layouts[k] \in FixedLayout /\ placed[k] \in Nat
                                 /\ SlotMinLen(layouts[k]) \in Nat
  BY <1>1, RejectedState, SlotTypes
<1>3. IsTail(layouts[i]) => i = FieldCount
  <2>1. Len(layouts) <= Len(decl.fields) /\ (IsTail(layouts[i]) => i = Len(decl.fields))
    BY <1>1 DEF ExpandedInv, ShapesInv
  <2>2. i \in Nat /\ i <= Len(layouts)
    BY <1>1
  <2>. QED
    BY <1>1, <2>1, <2>2
<1>4. OFFSETS[i] = placed[i]
  BY InvOffsetsAgree DEF OffsetsAgree
<1>5. \A j, k \in 1 .. FieldCount : j <= k => placed[j] <= placed[k]
  <2>1. PICK n \in Nat : FieldCount = n + 1
    <3>1. FieldCount - 1 \in Nat /\ FieldCount = (FieldCount - 1) + 1
      BY <1>1
    <3>. QED
      BY <3>1
  <2>2. \A k \in 1 .. n : placed[k] <= placed[k + 1]
    <3>. SUFFICES ASSUME NEW k \in 1 .. n PROVE placed[k] <= placed[k + 1]
      OBVIOUS
    <3>1. k \in 1 .. FieldCount - 1 /\ k \in 1 .. FieldCount
      BY <2>1
    <3>2. placed[k + 1] = placed[k] + SlotMinLen(layouts[k])
      BY <1>1, <3>1
    <3>3. placed[k] \in Nat /\ SlotMinLen(layouts[k]) \in Nat
      BY <1>2, <3>1
    <3>. QED
      BY ONLY <3>2, <3>3
  <2>3. \A k \in 1 .. n + 1 : placed[k] \in Nat
    BY <1>2, <2>1
  <2>4. \A j, k \in 1 .. n + 1 : j <= k => placed[j] <= placed[k]
    BY ONLY <2>2, <2>3, OffsetsGrow
  <2>. QED
    BY <2>1, <2>4
<1>6. placed[i] + SlotMinLen(layouts[i]) <= DataLen
  <2>1. CASE i = FieldCount
    BY <1>1, <2>1
  <2>2. CASE i # FieldCount
    <3>1. i \in 1 .. FieldCount - 1 /\ i + 1 \in 1 .. FieldCount /\ FieldCount \in 1 .. FieldCount
      BY <1>1, <2>2
    <3>2. placed[i + 1] <= placed[FieldCount]
      BY <1>1, <1>5, <3>1
    <3>3. placed[i + 1] = placed[i] + SlotMinLen(layouts[i])
      BY <1>1, <3>1
    <3>4. /\ placed[i] \in Nat /\ SlotMinLen(layouts[i]) \in Nat
          /\ placed[FieldCount] \in Nat /\ SlotMinLen(layouts[FieldCount]) \in Nat
      BY <1>2, <3>1
    <3>5. DataLen = placed[FieldCount] + SlotMinLen(layouts[FieldCount])
      BY <1>1
    <3>. QED
      BY ONLY <3>2, <3>3, <3>4, <3>5
  <2>. QED
    BY <2>1, <2>2
<1>. QED
  BY <1>2, <1>3, <1>4, <1>6, InvBorrowsAligned DEF ExpandedInv

(* The fields of a value lie one behind the other in its buffer.           *)
LEMMA FieldReach ==
  ASSUME ExpandedInv, phase = "emitted", NEW v \in Seq(FieldValue), IsStruct(v),
         NEW i \in 1 .. FieldCount
  PROVE  /\ v[i] \in FieldValue /\ EncodeBufLen(v) \in Nat
         /\ Reached(v, i) = placed[i]
         /\ EncodedFieldLen(layouts[i], v[i].count) \in Nat
         /\ Reached(v, i + 1) = placed[i] + EncodedFieldLen(layouts[i], v[i].count)
         /\ Reached(v, i + 1) \in Nat /\ Reached(v, i + 1) <= EncodeBufLen(v)
<1>. DEFINE tail == layouts[FieldCount]
            count == v[FieldCount].count
            size == Size(tail.kind)
            extra == IF ~HasTail \/ count = 0 THEN 0 ELSE PayloadShift(tail) + count * size
<1>1. FieldCount \in Nat \ {0} /\ FieldCount \in 1 .. FieldCount
  BY FixedEmitted
<1>2. Len(v) = FieldCount
  BY DEF IsStruct
<1>3. \A k \in 1 .. FieldCount : v[k] \in FieldValue /\ IsFieldValue(layouts[k], v[k])
  <2>1. \A k \in 1 .. FieldCount : v[k] \in FieldValue
    BY <1>2, ElementOfSeq
  <2>. QED
    BY <2>1 DEF IsStruct
<1>4. /\ tail \in FixedLayout /\ PayloadShift(tail) \in Nat /\ size \in Nat /\ count \in Nat
      /\ count * size \in Nat
  <2>1. tail \in FixedLayout /\ tail.kind \in FixedValueKind
    BY <1>1, EmittedField DEF FixedLayout
  <2>2. PayloadShift(tail) \in Nat /\ size \in Nat
    BY <2>1, SlotTypes, KindTypes
  <2>3. count \in Nat
    BY <1>1, <1>3 DEF FieldValue
  <2>4. count * size \in Nat
    BY <2>2, <2>3
  <2>. QED
    BY <2>1, <2>2, <2>3, <2>4
<1>5. EncodeBufLen(v) = DataLen + extra
  BY DEF EncodeBufLen
<1>6. extra \in Nat
  BY <1>4
<1>7. EncodeBufLen(v) \in Nat /\ DataLen <= EncodeBufLen(v)
  <2>. HIDE DEF extra
  <2>. QED
    BY <1>5, <1>6, FixedEmitted
<1>8. Reached(v, i) = placed[i]
  BY <1>1 DEF Reached
<1>9. CASE i # FieldCount
  <2>1. i + 1 <= FieldCount /\ i \in 1 .. FieldCount - 1
    BY <1>1, <1>9
  <2>2. Reached(v, i + 1) = placed[i] + SlotMinLen(layouts[i])
    BY <2>1, FixedEmitted DEF Reached
  <2>3. EncodedFieldLen(layouts[i], v[i].count) = SlotMinLen(layouts[i])
    BY <1>9, EmittedField DEF EncodedFieldLen, IsTail
  <2>4. Reached(v, i + 1) <= DataLen /\ Reached(v, i + 1) \in Nat /\ DataLen \in Nat
    BY <2>2, EmittedField, FixedEmitted
  <2>5. Reached(v, i + 1) <= EncodeBufLen(v)
    BY ONLY <1>7, <2>4
  <2>. QED
    BY <1>3, <1>7, <1>8, <2>2, <2>3, <2>4, <2>5, EmittedField
<1>10. CASE i = FieldCount
  <2>1. Reached(v, i + 1) = EncodeBufLen(v)
    BY <1>1, <1>10 DEF Reached
  <2>2. DataLen = placed[FieldCount] + SlotMinLen(tail) /\ SlotMinLen(tail) \in Nat
        /\ placed[FieldCount] \in Nat
    BY <1>1, FixedEmitted, EmittedField
  <2>3. SlotMinLen(tail) + extra = EncodedFieldLen(tail, count)
    <3>1. IsFieldValue(tail, v[FieldCount])
      BY <1>1, <1>3
    <3>2. HasTail <=> IsTail(tail)
      BY FixedEmitted
    <3>3. CASE ~IsTail(tail)
      <4>1. EncodedFieldLen(tail, count) = SlotMinLen(tail) /\ extra = 0
        BY <3>2, <3>3 DEF EncodedFieldLen, IsTail
      <4>. HIDE DEF extra
      <4>. QED
        BY <2>2, <4>1
    <3>4. CASE tail.shape = "tail_option"
      <4>1. /\ count \in {0, 1} /\ SlotMinLen(tail) = 0 /\ PayloadShift(tail) = 1
            /\ extra = IF count = 0 THEN 0 ELSE 1 + count * size
        BY <3>1, <3>2, <3>4 DEF IsFieldValue, SlotMinLen, IsTail, PayloadShift, IsOption, IsVec
      <4>2. EncodedFieldLen(tail, count) = IF count = 1 THEN 1 + size ELSE 0
        BY <3>4 DEF EncodedFieldLen
      <4>3. 1 * size = size
        BY <1>4
      <4>. HIDE DEF extra, count, size
      <4>. QED
        BY <1>4, <4>1, <4>2, <4>3
    <3>5. CASE tail.shape = "tail_vec"
      <4>1. /\ SlotMinLen(tail) = 0 /\ PayloadShift(tail) = tail.width
            /\ extra = IF count = 0 THEN 0 ELSE PayloadShift(tail) + count * size
        BY <3>2, <3>5 DEF SlotMinLen, IsTail, PayloadShift, IsOption, IsVec
      <4>2. EncodedFieldLen(tail, count) = IF count = 0 THEN 0 ELSE tail.width + count * size
        BY <3>5 DEF EncodedFieldLen
      <4>. HIDE DEF extra, count, size
      <4>. QED
        BY <1>4, <4>1, <4>2
    <3>. QED
      BY <3>3, <3>4, <3>5 DEF IsTail
  <2>. HIDE DEF extra
  <2>4. EncodeBufLen(v) = placed[FieldCount] + EncodedFieldLen(tail, count)
    BY <1>5, <1>6, <2>2, <2>3
  <2>5. EncodedFieldLen(tail, count) \in Nat
    BY <1>6, <2>2, <2>3
  <2>. QED
    BY <1>3, <1>7, <1>8, <1>10, <2>1, <2>4, <2>5
<1>. QED
  BY <1>9, <1>10

-----------------------------------------------------------------------------
(* The inductive invariant.                                                *)

FixedResults == [res : {"none", "ok", "InvalidRealloc", "InvalidInstructionData"},
                 count : Nat, data : Seq(Byte)]

\* What decode checks of the slice s before its fields, and of field i: a getter
\* relies on both.
Accepted(s) == LenAccepted(s) /\ s.lo % BaseAlign = 0
FieldChecked(s, i) ==
  layouts[i].shape # "plain" =>
    /\ placed[i] + PayloadShift(layouts[i]) <= s.hi - s.lo
    /\ IsVec(layouts[i]) =>
         ReadLenHeader(mem, s.lo + placed[i], layouts[i].width) <= layouts[i].capacity

FixedCallInv ==
  /\ phase # "emitted" => pc = "idle" /\ op = "none" /\ view = NoView /\ wrote = NoEncoding
  /\ pc = "write" => /\ op \in {"encode_to", "encode"} /\ IsStruct(val)
                     /\ fi \in 1 .. FieldCount + 1
                     /\ op = "encode" => SliceLen = EncodeBufLen(val)
                     /\ view = NoView /\ wrote = NoEncoding
  /\ pc = "validate" => /\ op = "decode" /\ view = NoView
                        /\ Accepted(slice) /\ fi \in 1 .. FieldCount + 1
                        /\ \A i \in 1 .. fi - 1 : FieldChecked(slice, i)
  /\ pc = "read" => op = "get" /\ goal \in 1 .. FieldCount /\ view # NoView /\ slice = view

FixedViewInv ==
  view # NoView =>
    view \in Slice /\ Accepted(view) /\ \A i \in 1 .. FieldCount : FieldChecked(view, i)

\* Between two fields too, those before fi are in the buffer.
FixedWriteInv == pc = "write" => WrittenSoFar

FixedWroteInv ==
  wrote # NoEncoding =>
    \A i \in 1 .. FieldCount :
      Bytes(mem, wrote.lo + placed[i], wrote.lo + Reached(wrote.val, i + 1)) =
        FieldBytes(layouts[i], wrote.val[i])

\* What the properties say of the state after a call.
FixedReturnInv == PanicsOnlyAtTail /\ ReadsStayInSlot /\ FailedEncodeWritesPrefix

FixedCodecInv ==
  /\ FixedCodecTypeOK /\ FixedCallInv /\ FixedViewInv
  /\ FixedWriteInv /\ FixedWroteInv /\ FixedReturnInv

LEMMA FixedReturnTypes ==
  /\ NoReturn \in FixedResults
  /\ \A e \in {"ok", "InvalidRealloc", "InvalidInstructionData"} :
       [NoReturn EXCEPT !.res = e] \in FixedResults
<1>1. << >> \in Seq(Byte)
  OBVIOUS
<1>. QED
  BY <1>1 DEF NoReturn, FixedResults

LEMMA FixedCodecTypes ==
  ASSUME FixedCodecTypeOK
  PROVE  /\ mem \in Memory /\ before \in Memory /\ DOMAIN mem = 0 .. MemLen - 1
         /\ slice \in Slice /\ val \in Seq(FieldValue) /\ MemLen \in Nat
         /\ slice.lo \in Nat /\ slice.hi \in Nat /\ slice.lo <= slice.hi /\ slice.hi <= MemLen
         /\ SliceLen \in Nat /\ fi \in Nat \ {0} /\ ret \in FixedResults
         /\ calls \in 0 .. MaxCalls /\ MaxCalls \in Nat
  BY FixedMemoryAssumption, FixedCallsAssumption
     DEF FixedCodecTypeOK, Memory, Slice, SliceLen, FixedResults

LEMMA SameStruct ==
  ASSUME UNCHANGED expandVars
  PROVE  /\ layouts' = layouts /\ placed' = placed /\ FieldCount' = FieldCount /\ phase' = phase
         /\ DataLen' = DataLen /\ MinLen' = MinLen /\ MaxLen' = MaxLen /\ HasTail' = HasTail
BY DEF expandVars, FieldCount, DataLen, MinLen, MaxLen, HasTail

\* A step of a call that leaves the buffer and the view alone.
LEMMA SameViews ==
  ASSUME FixedViewInv, FixedWroteInv, UNCHANGED expandVars, mem' = mem
  PROVE  /\ view' = view \/ view' = NoView => FixedViewInv'
         /\ wrote' = wrote \/ wrote' = NoEncoding => FixedWroteInv'
<1>1. view' = view => FixedViewInv'
  BY SameStruct DEF FixedViewInv, Accepted, LenAccepted, FieldChecked
<1>2. view' = NoView => FixedViewInv'
  BY DEF FixedViewInv, NoView
<1>3. wrote' = wrote => FixedWroteInv'
  BY SameStruct DEF FixedWroteInv, Reached, EncodeBufLen
<1>4. wrote' = NoEncoding => FixedWroteInv'
  BY DEF FixedWroteInv, NoEncoding
<1>. QED
  BY <1>1, <1>2, <1>3, <1>4

(* Init, the expansion, and stuttering.                                    *)
LEMMA FixedCodecInit == Init => FixedCodecInv
<1>. SUFFICES ASSUME Init PROVE FixedCodecInv
  OBVIOUS
<1>1. /\ phase = "args" /\ mem \in InitialMems /\ calls = 0 /\ pc = "idle" /\ op = "none"
      /\ slice = [lo |-> 0, hi |-> 0] /\ val = << >> /\ fi = 1 /\ goal = 1
      /\ view = NoView /\ ret = NoReturn /\ wrote = NoEncoding /\ before = mem
  BY DEF Init, ExpandInit, CodecInit
<1>2. mem \in Memory /\ slice \in Slice /\ calls \in 0 .. MaxCalls
  BY <1>1, FixedMemoryAssumption, FixedCallsAssumption DEF Slice
<1>3. ret \in FixedResults
  BY <1>1, FixedReturnTypes
<1>4. view \in [lo : Nat, hi : Int] /\ wrote \in [lo : Nat, hi : Int, val : Seq(FieldValue)]
  BY <1>1 DEF NoView, NoEncoding
<1>5. FixedCodecTypeOK
  BY <1>1, <1>2, <1>3, <1>4 DEF FixedCodecTypeOK, FixedResults
<1>6. FixedCallInv /\ FixedViewInv /\ FixedWriteInv /\ FixedWroteInv
  BY <1>1 DEF FixedCallInv, FixedViewInv, FixedWriteInv, FixedWroteInv
<1>7. FixedReturnInv
  BY <1>1 DEF FixedReturnInv, PanicsOnlyAtTail, ReadsStayInSlot, FailedEncodeWritesPrefix, Returned
<1>. QED
  BY <1>5, <1>6, <1>7 DEF FixedCodecInv

LEMMA FixedExpandStep ==
  ASSUME FixedCodecInv, ExpandNext, UNCHANGED codecVars
  PROVE  FixedCodecInv'
<1>1. phase # "emitted"
  BY DEF ExpandNext, ParseArgs, AddField, FieldsDone
<1>2. pc' = "idle" /\ op' = "none" /\ view' = NoView /\ wrote' = NoEncoding
  BY <1>1 DEF FixedCodecInv, FixedCallInv, codecVars, callVars
<1>3. FixedCodecTypeOK'
  BY DEF FixedCodecInv, FixedCodecTypeOK, codecVars, callVars
<1>4. FixedCallInv' /\ FixedWriteInv'
  BY <1>2 DEF FixedCallInv, FixedWriteInv
<1>5. FixedViewInv' /\ FixedWroteInv'
  BY <1>2 DEF FixedViewInv, FixedWroteInv, NoView, NoEncoding
<1>6. FixedReturnInv'
  BY <1>2 DEF FixedReturnInv, PanicsOnlyAtTail, ReadsStayInSlot, FailedEncodeWritesPrefix, Returned
<1>. QED
  BY <1>3, <1>4, <1>5, <1>6 DEF FixedCodecInv

LEMMA FixedCodecStutter ==
  ASSUME FixedCodecInv, UNCHANGED vars
  PROVE  FixedCodecInv'
<1>1. /\ UNCHANGED expandVars
      /\ UNCHANGED << mem, calls, pc, op, slice, val, fi, goal, before, view, ret, wrote >>
  BY DEF vars, codecVars, callVars
<1>2. FixedCodecTypeOK'
  BY <1>1 DEF FixedCodecInv, FixedCodecTypeOK, expandVars
<1>3. FixedViewInv' /\ FixedWroteInv'
  BY <1>1, SameViews DEF FixedCodecInv
<1>4. FixedCallInv'
  BY <1>1, SameStruct
     DEF FixedCodecInv, FixedCallInv, IsStruct, SliceLen, EncodeBufLen, Accepted, LenAccepted, FieldChecked
<1>5. FixedWriteInv'
  BY <1>1, SameStruct DEF FixedCodecInv, FixedWriteInv, WrittenSoFar, Reached, EncodeBufLen
<1>6. FixedReturnInv'
  <2>1. PanicsOnlyAtTail'
    <3>1. SliceLen' = SliceLen /\ EncodeBufLen(val)' = EncodeBufLen(val) /\ TailLayout' = TailLayout
      BY <1>1, SameStruct DEF SliceLen, EncodeBufLen, TailLayout
    <3>2. CountAt(TailLayout, TailStart)' = CountAt(TailLayout, TailStart)
      BY <1>1, SameStruct DEF TailLayout, TailStart, CountAt, ByteAt, HeaderAt, IsOption, IsVec
    <3>. QED
      BY <1>1, <3>1, <3>2, SameStruct DEF FixedCodecInv, FixedReturnInv, PanicsOnlyAtTail
  <2>2. ReadsStayInSlot'
    BY <1>1, SameStruct DEF FixedCodecInv, FixedReturnInv, ReadsStayInSlot, Returned
  <2>3. FailedEncodeWritesPrefix'
    BY <1>1, SameStruct
       DEF FixedCodecInv, FixedReturnInv, FailedEncodeWritesPrefix, Returned, WrittenSoFar,
           Reached, EncodeBufLen, OverCapacity, IsVec
  <2>. QED
    BY <2>1, <2>2, <2>3 DEF FixedReturnInv
<1>. QED
  BY <1>2, <1>3, <1>4, <1>5, <1>6 DEF FixedCodecInv

-----------------------------------------------------------------------------
(* encode_to and encode.                                                   *)

LEMMA FixedStartEncode ==
  ASSUME ExpandedInv, FixedCodecInv, phase = "emitted", UNCHANGED expandVars,
         StartEncodeTo \/ StartEncode
  PROVE  FixedCodecInv'
<1>1. /\ FixedCodecTypeOK /\ FixedViewInv /\ FixedWroteInv
      /\ mem \in Memory /\ calls \in 0 .. MaxCalls /\ ret \in FixedResults
  BY FixedCodecTypes DEF FixedCodecInv
<1>2. PICK v \in Structs, s \in Slice, name \in {"encode_to", "encode"} :
         /\ IsStruct(v) /\ StartWriting(name, s, v) /\ before' = mem'
         /\ mem' \in Memory /\ (name = "encode" => s.hi - s.lo = EncodeBufLen(v))
  <2>1. CASE StartEncodeTo
    <3>1. PICK s \in Slices, v \in Structs : IsStruct(v) /\ StartWriting("encode_to", s, v)
      BY <2>1 DEF StartEncodeTo
    <3>2. before' = mem' /\ mem' \in Memory /\ s \in Slice
      BY <1>1, <2>1, FixedCallsAssumption DEF StartEncodeTo
    <3>3. "encode_to" \in {"encode_to", "encode"} /\ "encode_to" # "encode"
      OBVIOUS
    <3>. QED
      BY <3>1, <3>2, <3>3, Zenon
  <2>2. CASE StartEncode
    <3>1. PICK t \in Slices, v \in Structs :
            /\ IsStruct(v) /\ t.lo + EncodeBufLen(v) <= MemLen
            /\ StartWriting("encode", [lo |-> t.lo, hi |-> t.lo + EncodeBufLen(v)], v)
            /\ mem' = Write(mem, t.lo, Zeros(EncodeBufLen(v)))
      BY <2>2 DEF StartEncode
    <3>2. PICK s : s = [lo |-> t.lo, hi |-> t.lo + EncodeBufLen(v)]
      OBVIOUS
    <3>3. EncodeBufLen(v) \in Nat
      <4>1. 1 \in 1 .. FieldCount /\ v \in Seq(FieldValue)
        BY FixedEmitted, FixedCallsAssumption
      <4>. QED
        BY <3>1, <4>1, FieldReach
    <3>4. t.lo \in Nat /\ MemLen \in Nat
      BY FixedCallsAssumption, FixedMemoryAssumption DEF Slice
    <3>5. s \in Slice /\ s.hi - s.lo = EncodeBufLen(v)
      BY <3>1, <3>2, <3>3, <3>4 DEF Slice
    <3>6. mem' \in Memory /\ before' = mem'
      BY <1>1, <2>2, <3>1, <3>3, <3>4, ZerosType, FixedWriteType DEF StartEncode
    <3>7. "encode" \in {"encode_to", "encode"} /\ StartWriting("encode", s, v)
      BY <3>1, <3>2
    <3>. QED
      BY <3>1, <3>5, <3>6, <3>7, Zenon
  <2>. QED
    BY <2>1, <2>2
<1>3. /\ calls' = calls + 1 /\ op' = name /\ slice' = s /\ val' = v /\ pc' = "write" /\ fi' = 1
      /\ view' = NoView /\ wrote' = NoEncoding /\ UNCHANGED << ret, goal >>
  BY <1>2 DEF StartWriting
<1>4. calls' \in 0 .. MaxCalls
  <2>1. calls < MaxCalls
    BY DEF StartEncodeTo, StartEncode, MayCall
  <2>. QED
    BY <1>1, <1>3, <2>1, FixedCallsAssumption
<1>5. view' \in [lo : Nat, hi : Int] /\ wrote' \in [lo : Nat, hi : Int, val : Seq(FieldValue)]
  BY <1>3 DEF NoView, NoEncoding
<1>6. FixedCodecTypeOK'
  <2>1. val' \in Seq(FieldValue)
    BY <1>3, FixedCallsAssumption
  <2>. QED
    BY <1>1, <1>2, <1>3, <1>4, <1>5, <2>1 DEF FixedCodecTypeOK, FixedResults
<1>7. FixedViewInv' /\ FixedWroteInv'
  BY <1>3 DEF FixedViewInv, FixedWroteInv, NoView, NoEncoding
<1>8. FixedCallInv'
  <2>1. IsStruct(val)' /\ fi' \in 1 .. FieldCount' + 1
    BY <1>2, <1>3, SameStruct, FixedEmitted DEF IsStruct
  <2>2. op' = "encode" => SliceLen' = EncodeBufLen(val)'
    BY <1>2, <1>3, SameStruct DEF SliceLen, EncodeBufLen
  <2>. QED
    BY <1>3, <2>1, <2>2, SameStruct DEF FixedCallInv
<1>9. FixedWriteInv'
  <2>1. \A i \in 1 .. fi' - 1 : FALSE
    BY <1>3
  <2>. QED
    BY <1>2, <2>1 DEF FixedWriteInv, WrittenSoFar
<1>10. FixedReturnInv'
  BY <1>3 DEF FixedReturnInv, PanicsOnlyAtTail, ReadsStayInSlot, FailedEncodeWritesPrefix, Returned
<1>. QED
  BY <1>6, <1>7, <1>8, <1>9, <1>10 DEF FixedCodecInv

\* What a step of the writing loop starts from.
LEMMA FixedWriting ==
  ASSUME ExpandedInv, FixedCodecInv, phase = "emitted", pc = "write"
  PROVE  /\ op \in {"encode_to", "encode"} /\ IsStruct(val) /\ fi \in 1 .. FieldCount + 1
         /\ op = "encode" => SliceLen = EncodeBufLen(val)
         /\ view = NoView /\ wrote = NoEncoding /\ val \in Seq(FieldValue)
         /\ \A a \in DOMAIN mem :
              a \notin slice.lo .. slice.lo + Reached(val, fi) - 1 => mem[a] = before[a]
         /\ \A i \in 1 .. fi - 1 :
              Bytes(mem, slice.lo + placed[i], slice.lo + Reached(val, i + 1)) =
                FieldBytes(layouts[i], val[i])
BY FixedCodecTypes DEF FixedCodecInv, FixedCallInv, FixedWriteInv, WrittenSoFar

(* A field is written: behind the ones before it, up to where the next one *)
(* starts.                                                                 *)
LEMMA FieldWritten ==
  ASSUME ExpandedInv, FixedCodecInv, phase = "emitted", UNCHANGED expandVars,
         pc = "write", fi \in 1 .. FieldCount, ~OverCapacity(layouts[fi], val[fi]),
         FieldBytes(layouts[fi], val[fi]) = << >>
           \/ placed[fi] + Len(FieldBytes(layouts[fi], val[fi])) <= SliceLen,
         mem' = Write(mem, slice.lo + placed[fi], FieldBytes(layouts[fi], val[fi])),
         fi' = fi + 1, UNCHANGED << slice, val, before >>
  PROVE  mem' \in Memory /\ FixedWriteInv'
<1>. DEFINE bytes == FieldBytes(layouts[fi], val[fi])
            from == slice.lo + placed[fi]
            next == Reached(val, fi + 1)
<1>1. /\ IsStruct(val) /\ val \in Seq(FieldValue)
      /\ \A a \in DOMAIN mem :
           a \notin slice.lo .. slice.lo + Reached(val, fi) - 1 => mem[a] = before[a]
      /\ \A i \in 1 .. fi - 1 :
           Bytes(mem, slice.lo + placed[i], slice.lo + Reached(val, i + 1)) =
             FieldBytes(layouts[i], val[i])
  BY FixedWriting
<1>2. /\ mem \in Memory /\ DOMAIN mem = 0 .. MemLen - 1 /\ MemLen \in Nat
      /\ slice.lo \in Nat /\ slice.hi \in Nat /\ slice.lo <= slice.hi /\ slice.hi <= MemLen
      /\ SliceLen \in Nat /\ SliceLen = slice.hi - slice.lo
  BY FixedCodecTypes DEF FixedCodecInv, SliceLen
<1>3. /\ val[fi] \in FieldValue /\ Reached(val, fi) = placed[fi] /\ next \in Nat
      /\ next = placed[fi] + EncodedFieldLen(layouts[fi], val[fi].count)
  BY <1>1, FieldReach
<1>4. layouts[fi] \in FixedLayout /\ placed[fi] \in Nat
  BY EmittedField
<1>5. bytes \in Seq(Byte) /\ Len(bytes) \in Nat /\ next = placed[fi] + Len(bytes)
  <2>1. IsFieldValue(layouts[fi], val[fi])
    BY <1>1 DEF IsStruct
  <2>. QED
    BY <1>3, <1>4, <2>1, FixedFieldBytes
<1>6. PICK to \in Nat : to = slice.lo + next
  BY <1>2, <1>3
<1>7. from \in Nat /\ to = from + Len(bytes) /\ (bytes = << >> \/ to <= MemLen)
  <2>1. bytes = << >> \/ placed[fi] + Len(bytes) <= SliceLen
    OBVIOUS
  <2>. HIDE DEF bytes, next
  <2>2. from \in Nat
    BY <1>2, <1>4
  <2>3. to = from + Len(bytes)
    BY <1>2, <1>4, <1>5, <1>6
  <2>4. placed[fi] + Len(bytes) <= SliceLen => to <= MemLen
    <3>1. PICK n \in Nat : n = placed[fi]
      BY <1>4
    <3>2. PICK len \in Nat : len = Len(bytes)
      BY <1>5
    <3>3. to = slice.lo + (n + len)
      BY ONLY <1>2, <1>5, <1>6, <3>1, <3>2
    <3>4. /\ slice.lo \in Nat /\ slice.hi \in Nat /\ slice.hi <= MemLen /\ MemLen \in Nat
          /\ SliceLen = slice.hi - slice.lo
      BY <1>2
    <3>. QED
      BY ONLY <3>1, <3>2, <3>3, <3>4, SMTT(30)
  <2>. QED
    BY <2>1, <2>2, <2>3, <2>4
<1>8. mem' = Write(mem, from, bytes)
  OBVIOUS
<1>. HIDE DEF bytes, from, next
<1>9. mem' \in Memory
  BY <1>2, <1>5, <1>7, <1>8, FixedWriteType
<1>10. ASSUME NEW a \in DOMAIN mem', a \notin slice.lo .. slice.lo + next - 1
       PROVE  mem'[a] = before[a]
  <2>1. a \in DOMAIN mem /\ a \in Nat
    BY <1>2, <1>9 DEF Memory
  <2>2. a \notin from .. from + Len(bytes) - 1
    <3>1. slice.lo <= from
      BY <1>2, <1>4 DEF from
    <3>2. a \in from .. from + Len(bytes) - 1 => a \in slice.lo .. slice.lo + next - 1
      <4>1. slice.lo \in Nat /\ next \in Nat /\ Len(bytes) \in Nat
        BY <1>2, <1>3, <1>5
      <4>. QED
        BY ONLY <1>6, <1>7, <2>1, <3>1, <4>1
    <3>. QED
      BY <1>10, <3>2
  <2>3. mem'[a] = mem[a]
    BY <1>2, <1>5, <1>7, <1>8, <2>1, <2>2, FixedWriteType
  <2>4. a \notin slice.lo .. slice.lo + Reached(val, fi) - 1
    <3>1. /\ slice.lo \in Nat /\ next \in Nat /\ Reached(val, fi) \in Nat
          /\ Reached(val, fi) <= next
      BY <1>2, <1>3, <1>4, <1>5
    <3>. QED
      BY ONLY <1>10, <2>1, <3>1
  <2>. QED
    BY <1>1, <2>1, <2>3, <2>4
<1>11. ASSUME NEW i \in 1 .. fi
       PROVE  Bytes(mem', slice.lo + placed[i], slice.lo + Reached(val, i + 1)) =
                FieldBytes(layouts[i], val[i])
  <2>1. CASE i = fi
    <3>1. Bytes(mem', from, to) = bytes
      BY <1>2, <1>5, <1>7, <1>8, BytesWritten
    <3>. QED
      BY <1>6, <2>1, <3>1 DEF from, bytes, next
  <2>2. CASE i # fi
    <3>1. i \in 1 .. fi - 1 /\ i \in 1 .. FieldCount - 1 /\ i \in 1 .. FieldCount
      BY <2>2, FixedEmitted
    <3>2. Reached(val, i + 1) <= placed[fi] /\ Reached(val, i + 1) \in Nat
      <4>1. \A j \in 1 .. fi - 1 : Reached(val, j + 1) <= placed[fi]
        <5>1. PICK n \in Nat : fi = n + 1 /\ FieldCount \in Nat
          <6>1. fi - 1 \in Nat /\ fi = (fi - 1) + 1
            <7>1. FieldCount \in Nat /\ fi \in 1 .. FieldCount
              BY FixedEmitted
            <7>. QED
              BY ONLY <7>1
          <6>. QED
            BY <6>1, FixedEmitted
        <5>2. \A j \in 1 .. n + 1 : j \in 1 .. FieldCount /\ placed[j] \in Nat
          BY <5>1, EmittedField
        <5>3. \A j \in 1 .. n : placed[j] <= placed[j + 1]
          <6>. SUFFICES ASSUME NEW j \in 1 .. n PROVE placed[j] <= placed[j + 1]
            OBVIOUS
          <6>1. j \in 1 .. FieldCount - 1 /\ j \in 1 .. FieldCount
            BY <5>1
          <6>2. placed[j + 1] = placed[j] + SlotMinLen(layouts[j])
            BY <6>1, FixedEmitted
          <6>3. placed[j] \in Nat /\ SlotMinLen(layouts[j]) \in Nat
            BY <6>1, EmittedField
          <6>. QED
            BY ONLY <6>2, <6>3
        <5>4. \A j, k \in 1 .. n + 1 : j <= k => placed[j] <= placed[k]
          BY <5>2, <5>3, OffsetsGrow
        <5>. SUFFICES ASSUME NEW j \in 1 .. fi - 1 PROVE Reached(val, j + 1) <= placed[fi]
          OBVIOUS
        <5>5. j + 1 \in 1 .. n + 1 /\ fi \in 1 .. n + 1 /\ j + 1 <= fi /\ j + 1 <= FieldCount
          BY <5>1
        <5>. QED
          BY <5>4, <5>5 DEF Reached
      <4>. QED
        BY <1>1, <3>1, <4>1, FieldReach
    <3>3. placed[i] \in Nat
      BY <3>1, EmittedField
    <3>a. PICK b \in Nat : b = slice.lo + placed[i]
      BY <1>2, <3>3
    <3>4. PICK e \in Nat : e = slice.lo + Reached(val, i + 1)
      BY <1>2, <3>2
    <3>5. e <= from
      BY <1>2, <1>4, <3>2, <3>4 DEF from
    <3>6. CASE e <= MemLen
      <4>1. Bytes(mem', b, e) = Bytes(mem, b, e)
        BY <1>2, <1>5, <1>7, <1>8, <3>5, <3>6, BytesKept
      <4>. QED
        BY <1>1, <3>1, <3>a, <3>4, <4>1
    <3>7. CASE ~(e <= MemLen)
      <4>1. bytes = << >>
        BY <1>2, <1>5, <1>7, <3>5, <3>7
      <4>2. mem' = mem
        <5>1. Len(bytes) = 0
          BY <4>1
        <5>2. \A x \in DOMAIN mem : x \notin from .. from + Len(bytes) - 1
          BY <1>2, <1>7, <5>1
        <5>3. mem' = [x \in DOMAIN mem |-> mem[x]]
          BY <1>8, <5>2 DEF Write
        <5>. QED
          BY <1>2, <5>3 DEF Memory
      <4>. QED
        BY <1>1, <3>1, <4>2
    <3>. QED
      BY <3>6, <3>7
  <2>. QED
    BY <2>1, <2>2
<1>12. /\ slice' = slice /\ val' = val /\ before' = before /\ placed' = placed /\ layouts' = layouts
       /\ fi' - 1 = fi
  BY SameStruct
<1>13. \A i \in Nat : Reached(val, i)' = Reached(val, i)
  BY SameStruct DEF Reached, EncodeBufLen
<1>14. Reached(val, fi)' = next
  BY SameStruct DEF Reached, EncodeBufLen, next
<1>15. \A i \in 1 .. fi : Reached(val, i + 1)' = Reached(val, i + 1)
  BY SameStruct DEF Reached, EncodeBufLen
<1>. QED
  BY <1>9, <1>10, <1>11, <1>12, <1>14, <1>15 DEF FixedWriteInv, WrittenSoFar

\* What is written stays written when the call returns.
LEMMA PrefixKept ==
  ASSUME UNCHANGED expandVars, UNCHANGED << mem, before, slice, val, fi >>, WrittenSoFar
  PROVE  WrittenSoFar'
BY SameStruct DEF WrittenSoFar, Reached, EncodeBufLen

LEMMA FixedWriteField ==
  ASSUME ExpandedInv, FixedCodecInv, phase = "emitted", UNCHANGED expandVars, WriteField
  PROVE  FixedCodecInv'
<1>. DEFINE bytes == FieldBytes(layouts[fi], val[fi])
<1>1. /\ pc = "write" /\ fi \in 1 .. FieldCount /\ fi' \in {fi, fi + 1}
      /\ UNCHANGED << calls, op, slice, val, goal, before, view, wrote >>
  <2>1. fi \in Nat \ {0} /\ FieldCount \in Nat
    BY FixedCodecTypes, FixedEmitted DEF FixedCodecInv
  <2>. QED
    BY <2>1 DEF WriteField, Refuse, Fail, Return, Panic
<1>2. /\ op \in {"encode_to", "encode"} /\ IsStruct(val) /\ val \in Seq(FieldValue)
      /\ op = "encode" => SliceLen = EncodeBufLen(val)
      /\ view = NoView /\ wrote = NoEncoding
      /\ \A a \in DOMAIN mem :
           a \notin slice.lo .. slice.lo + Reached(val, fi) - 1 => mem[a] = before[a]
  BY <1>1, FixedWriting
<1>3. /\ FixedCodecTypeOK /\ FixedViewInv /\ FixedWroteInv /\ FieldCount \in Nat
      /\ mem \in Memory /\ ret \in FixedResults /\ SliceLen \in Nat /\ fi \in Nat \ {0}
  BY FixedCodecTypes, FixedEmitted DEF FixedCodecInv
<1>4. /\ Reached(val, fi) = placed[fi] /\ EncodeBufLen(val) \in Nat
      /\ Reached(val, fi + 1) = placed[fi] + EncodedFieldLen(layouts[fi], val[fi].count)
      /\ Reached(val, fi + 1) <= EncodeBufLen(val)
  BY <1>1, <1>2, FieldReach
<1>5. FixedViewInv' /\ FixedWroteInv'
  BY <1>1, <1>2 DEF FixedViewInv, FixedWroteInv, NoView, NoEncoding
<1>6. ASSUME mem' \in Memory, ret' \in FixedResults, pc' \in {"idle", "write", "panic"}
      PROVE  FixedCodecTypeOK'
  <2>1. fi' \in Nat \ {0}
    BY <1>1, <1>3
  <2>2. /\ calls' = calls /\ op' = op /\ slice' = slice /\ val' = val /\ goal' = goal
        /\ before' = before /\ view' = view /\ wrote' = wrote
    BY <1>1
  <2>. QED
    BY ONLY <1>3, <1>6, <2>1, <2>2 DEF FixedCodecTypeOK, FixedResults
<1>7. ASSUME pc' = "write" PROVE FixedCallInv'
  <2>1. IsStruct(val)' /\ fi' \in 1 .. FieldCount' + 1
    BY <1>1, <1>2, <1>3, SameStruct DEF IsStruct
  <2>2. op' = "encode" => SliceLen' = EncodeBufLen(val)'
    BY <1>1, <1>2, SameStruct DEF SliceLen, EncodeBufLen
  <2>. QED
    BY <1>1, <1>2, <1>7, <2>1, <2>2, SameStruct DEF FixedCallInv
<1>8. ASSUME pc' \in {"idle", "panic"} PROVE FixedCallInv' /\ FixedWriteInv'
  BY <1>8, SameStruct DEF FixedCallInv, FixedWriteInv
<1>9. CASE OverCapacity(layouts[fi], val[fi])
  <2>1. pc' = "idle" /\ ret' = [NoReturn EXCEPT !.res = "InvalidRealloc"] /\ mem' = mem /\ fi' = fi
    BY <1>9 DEF WriteField, Refuse, Fail, Return
  <2>2. ret' \in FixedResults /\ ret'.res # "ok"
    BY <2>1, FixedReturnTypes DEF NoReturn
  <2>3. WrittenSoFar'
    BY <1>1, <2>1, PrefixKept DEF FixedCodecInv, FixedWriteInv
  <2>4. FailedEncodeWritesPrefix'
    <3>1. OverCapacity(layouts[fi], val[fi])'
      BY <1>1, <1>9, <2>1, SameStruct DEF OverCapacity, IsVec
    <3>. QED
      BY <2>2, <2>3, <3>1 DEF FailedEncodeWritesPrefix
  <2>5. FixedReturnInv'
    BY <1>1, <1>2, <2>1, <2>4 DEF FixedReturnInv, PanicsOnlyAtTail, ReadsStayInSlot, Returned
  <2>. QED
    BY <1>3, <1>5, <1>6, <1>8, <2>1, <2>2, <2>5 DEF FixedCodecInv
<1>10. CASE /\ ~OverCapacity(layouts[fi], val[fi])
            /\ bytes # << >> /\ placed[fi] + Len(bytes) > SliceLen
  <2>1. pc' = "panic" /\ ret' = ret /\ mem' = mem /\ fi' = fi
    BY <1>10 DEF WriteField, Panic
  <2>2. Len(bytes) = EncodedFieldLen(layouts[fi], val[fi].count)
    <3>1. layouts[fi] \in FixedLayout /\ val[fi] \in FieldValue /\ IsFieldValue(layouts[fi], val[fi])
      BY <1>1, <1>2, EmittedField, FieldReach DEF IsStruct
    <3>. QED
      BY <1>10, <3>1, FixedFieldBytes
  <2>3. SliceLen < EncodeBufLen(val)
    <3>1. Reached(val, fi + 1) > SliceLen /\ Reached(val, fi + 1) \in Nat
      BY <1>1, <1>2, <1>4, <1>10, <2>2, FieldReach
    <3>. QED
      BY <1>3, <1>4, <3>1
  <2>4. op = "encode_to"
    BY <1>2, <1>3, <1>4, <2>3
  <2>5. SliceLen' = SliceLen /\ EncodeBufLen(val)' = EncodeBufLen(val) /\ op' = op
    BY <1>1, SameStruct DEF SliceLen, EncodeBufLen
  <2>6. PanicsOnlyAtTail'
    BY <2>3, <2>4, <2>5 DEF PanicsOnlyAtTail
  <2>7. FixedReturnInv'
    BY <2>1, <2>6 DEF FixedReturnInv, ReadsStayInSlot, FailedEncodeWritesPrefix, Returned
  <2>. QED
    BY <1>3, <1>5, <1>6, <1>8, <2>1, <2>7 DEF FixedCodecInv
<1>11. CASE /\ ~OverCapacity(layouts[fi], val[fi])
            /\ ~(bytes # << >> /\ placed[fi] + Len(bytes) > SliceLen)
  <2>1. /\ mem' = Write(mem, slice.lo + placed[fi], bytes) /\ fi' = fi + 1
        /\ pc' = pc /\ ret' = ret
    BY <1>11 DEF WriteField
  <2>2. bytes = << >> \/ placed[fi] + Len(bytes) <= SliceLen
    <3>1. placed[fi] \in Nat /\ Len(bytes) \in Nat
      <4>1. layouts[fi] \in FixedLayout /\ val[fi] \in FieldValue /\ IsFieldValue(layouts[fi], val[fi])
        BY <1>1, <1>2, EmittedField, FieldReach DEF IsStruct
      <4>2. bytes \in Seq(Byte)
        BY <1>11, <4>1, FixedFieldBytes
      <4>. QED
        BY <1>1, <4>2, EmittedField, LenProperties
    <3>. HIDE DEF bytes
    <3>. QED
      BY <1>3, <1>11, <3>1
  <2>3. mem' \in Memory /\ FixedWriteInv'
    BY <1>1, <1>11, <2>1, <2>2, FieldWritten
  <2>4. FixedReturnInv'
    BY <1>1, <2>1
       DEF FixedReturnInv, PanicsOnlyAtTail, ReadsStayInSlot, FailedEncodeWritesPrefix, Returned
  <2>. QED
    BY <1>1, <1>3, <1>5, <1>6, <1>7, <2>1, <2>3, <2>4 DEF FixedCodecInv
<1>. QED
  BY <1>9, <1>10, <1>11

LEMMA FixedEncodeDone ==
  ASSUME ExpandedInv, FixedCodecInv, phase = "emitted", UNCHANGED expandVars, EncodeDone
  PROVE  FixedCodecInv'
<1>1. /\ pc = "write" /\ fi > FieldCount /\ pc' = "idle"
      /\ ret' = [NoReturn EXCEPT !.res = "ok"]
      /\ wrote' = [lo |-> slice.lo, hi |-> slice.lo + EncodeBufLen(val), val |-> val]
      /\ UNCHANGED << mem, calls, op, slice, val, fi, goal, before, view >>
  BY DEF EncodeDone, Return, callVars
<1>2. /\ op \in {"encode_to", "encode"} /\ IsStruct(val) /\ val \in Seq(FieldValue)
      /\ fi \in 1 .. FieldCount + 1 /\ view = NoView
      /\ \A a \in DOMAIN mem :
           a \notin slice.lo .. slice.lo + Reached(val, fi) - 1 => mem[a] = before[a]
      /\ \A i \in 1 .. fi - 1 :
           Bytes(mem, slice.lo + placed[i], slice.lo + Reached(val, i + 1)) =
             FieldBytes(layouts[i], val[i])
  BY <1>1, FixedWriting
<1>3. /\ FixedCodecTypeOK /\ FixedViewInv /\ FieldCount \in Nat \ {0}
      /\ slice.lo \in Nat
  BY FixedCodecTypes, FixedEmitted DEF FixedCodecInv
<1>4. fi - 1 = FieldCount /\ ~(fi <= FieldCount)
  BY <1>1, <1>2, <1>3
<1>5. Reached(val, fi) = EncodeBufLen(val) /\ EncodeBufLen(val) \in Nat
  <2>1. 1 \in 1 .. FieldCount
    BY <1>3
  <2>. QED
    BY <1>2, <1>4, <2>1, FieldReach DEF Reached
<1>6. ret' \in FixedResults /\ ret'.res = "ok"
  BY <1>1, FixedReturnTypes DEF NoReturn
<1>7. wrote' \in [lo : Nat, hi : Int, val : Seq(FieldValue)]
  BY <1>1, <1>2, <1>3, <1>5
<1>8. FixedCodecTypeOK'
  BY <1>1, <1>3, <1>6, <1>7 DEF FixedCodecTypeOK, FixedResults
<1>9. FixedCallInv' /\ FixedWriteInv' /\ FixedViewInv'
  BY <1>1, <1>2, SameStruct DEF FixedCallInv, FixedWriteInv, FixedViewInv, NoView
<1>10. FixedWroteInv'
  <2>1. \A i \in 1 .. FieldCount : Reached(val, i + 1)' = Reached(val, i + 1)
    BY <1>1, SameStruct DEF Reached, EncodeBufLen
  <2>2. wrote'.lo = slice.lo /\ wrote'.val = val
    BY <1>1
  <2>3. \A i \in 1 .. FieldCount : Reached(wrote.val, i + 1)' = Reached(val, i + 1)
    BY <2>2, SameStruct DEF Reached, EncodeBufLen
  <2>. QED
    BY <1>1, <1>2, <1>4, <2>2, <2>3, SameStruct DEF FixedWroteInv
<1>11. FixedReturnInv'
  <2>1. WrittenSoFar'
    BY <1>1, PrefixKept DEF FixedCodecInv, FixedWriteInv
  <2>2. FailedEncodeWritesPrefix'
    <3>1. fi' = FieldCount' + 1
      BY <1>1, <1>2, <1>3, <1>4, SameStruct
    <3>. QED
      BY <1>6, <2>1, <3>1 DEF FailedEncodeWritesPrefix
  <2>. QED
    BY <1>1, <1>2, <2>2 DEF FixedReturnInv, PanicsOnlyAtTail, ReadsStayInSlot, Returned
<1>. QED
  BY <1>8, <1>9, <1>10, <1>11 DEF FixedCodecInv

-----------------------------------------------------------------------------
(* decode and the getters.                                                 *)

(* A slot has room for what its field may hold.                            *)
LEMMA CountFits ==
  ASSUME NEW l \in FixedLayout, ~IsTail(l), NEW count \in Nat,
         IF l.shape = "vec" THEN count <= l.capacity ELSE count <= 1
  PROVE  PayloadShift(l) + count * Size(l.kind) <= SlotMinLen(l)
<1>. DEFINE size == Size(l.kind)
<1>1. l.shape \in {"plain", "option", "vec"} /\ size \in Nat /\ l.width \in Nat /\ l.capacity \in Nat
  BY KindTypes DEF FixedLayout, IsTail, MaxFlexWidth
<1>2. CASE l.shape = "vec"
  <2>1. PayloadShift(l) = l.width /\ SlotMinLen(l) = l.width + size * l.capacity
    BY <1>2 DEF PayloadShift, SlotMinLen, IsOption, IsVec, IsTail
  <2>2. PICK rest \in Nat : l.capacity = count + rest
    <3>1. l.capacity - count \in Nat /\ l.capacity = count + (l.capacity - count)
      BY <1>1, <1>2
    <3>. QED
      BY <3>1
  <2>. HIDE DEF size
  <2>3. size * l.capacity = count * size + rest * size /\ count * size \in Nat /\ rest * size \in Nat
    BY ONLY <1>1, <2>2
  <2>. QED
    BY <1>1, <2>1, <2>3 DEF size
<1>3. CASE l.shape # "vec"
  <2>1. /\ PayloadShift(l) = IF l.shape = "option" THEN 1 ELSE 0
        /\ SlotMinLen(l) = PayloadShift(l) + size
    BY <1>1, <1>3 DEF PayloadShift, SlotMinLen, IsOption, IsVec, IsTail
  <2>2. count \in {0, 1}
    BY <1>3
  <2>3. 0 * size = 0 /\ 1 * size = size
    BY <1>1
  <2>. HIDE DEF size
  <2>. QED
    BY <1>1, <2>1, <2>2, <2>3 DEF size
<1>. QED
  BY <1>2, <1>3

(* A slice that decode has let through covers every slot.                  *)
LEMMA AcceptedCovers ==
  ASSUME ExpandedInv, phase = "emitted", NEW s \in Slice, Accepted(s)
  PROVE  /\ s.hi - s.lo \in Nat /\ MinLen \in Nat /\ MinLen <= s.hi - s.lo
         /\ \A i \in 1 .. FieldCount :
              /\ placed[i] + SlotMinLen(layouts[i]) <= s.hi - s.lo
              /\ IsTail(layouts[i]) => i = FieldCount /\ HasTail /\ placed[i] = MinLen
<1>1. MinLen \in Nat /\ DataLen = MinLen
  BY FixedEmitted
<1>2. s.hi - s.lo \in Nat
  BY FixedMemoryAssumption DEF Slice
<1>3. MinLen <= s.hi - s.lo
  BY DEF Accepted, LenAccepted
<1>. SUFFICES ASSUME NEW i \in 1 .. FieldCount
              PROVE  /\ placed[i] + SlotMinLen(layouts[i]) <= s.hi - s.lo
                     /\ IsTail(layouts[i]) => i = FieldCount /\ HasTail /\ placed[i] = MinLen
  BY <1>1, <1>2, <1>3
<1>4. /\ placed[i] \in Nat /\ SlotMinLen(layouts[i]) \in Nat /\ layouts[i] \in FixedLayout
      /\ placed[i] + SlotMinLen(layouts[i]) <= DataLen
      /\ IsTail(layouts[i]) => i = FieldCount
  BY EmittedField
<1>5. ASSUME IsTail(layouts[i]) PROVE i = FieldCount /\ HasTail /\ placed[i] = MinLen
  <2>1. SlotMinLen(layouts[i]) = 0 /\ i = FieldCount
    BY <1>4, <1>5, SlotTypes
  <2>. QED
    BY <1>1, <1>4, <1>5, <2>1, FixedEmitted
<1>. QED
  BY <1>1, <1>2, <1>3, <1>4, <1>5

LEMMA FixedStartDecode ==
  ASSUME ExpandedInv, FixedCodecInv, phase = "emitted", UNCHANGED expandVars, StartDecode
  PROVE  FixedCodecInv'
<1>1. PICK s \in Slices :
        /\ calls' = calls + 1 /\ op' = "decode" /\ slice' = s /\ fi' = 1
        /\ IF LenAccepted(s) /\ s.lo % BaseAlign = 0
           THEN pc' = "validate" /\ UNCHANGED ret
           ELSE pc' = "idle" /\ ret' = [NoReturn EXCEPT !.res = "InvalidInstructionData"]
  BY DEF StartDecode, Fail, Return
<1>2. view' = NoView /\ before' = mem /\ UNCHANGED << mem, val, goal, wrote >> /\ calls < MaxCalls
  BY DEF StartDecode, MayCall
<1>3. /\ FixedCodecTypeOK /\ FixedViewInv /\ FixedWroteInv /\ mem \in Memory
      /\ calls \in 0 .. MaxCalls /\ MaxCalls \in Nat /\ ret \in FixedResults
      /\ FieldCount \in Nat \ {0}
  BY FixedCodecTypes, FixedEmitted DEF FixedCodecInv
<1>4. calls' \in 0 .. MaxCalls /\ slice' \in Slice
  BY <1>1, <1>2, <1>3, FixedCallsAssumption
<1>5. ret' \in FixedResults /\ pc' \in {"idle", "validate"}
  BY <1>1, <1>3, FixedReturnTypes
<1>6. view' \in [lo : Nat, hi : Int]
  BY <1>2 DEF NoView
<1>7. FixedCodecTypeOK'
  BY <1>1, <1>2, <1>3, <1>4, <1>5, <1>6 DEF FixedCodecTypeOK, FixedResults
<1>8. FixedCallInv'
  <2>1. pc' = "validate" => Accepted(slice)'
    BY <1>1, SameStruct DEF Accepted, LenAccepted
  <2>2. fi' \in 1 .. FieldCount + 1 /\ \A i \in 1 .. fi' - 1 : FALSE
    BY <1>1, <1>3
  <2>. QED
    BY <1>1, <1>2, <1>5, <2>1, <2>2, SameStruct DEF FixedCallInv, NoView
<1>9. FixedViewInv' /\ FixedWroteInv'
  BY <1>2, <1>3, SameViews
<1>10. FixedWriteInv' /\ FixedReturnInv'
  BY <1>1, <1>5
     DEF FixedWriteInv, FixedReturnInv, PanicsOnlyAtTail, ReadsStayInSlot,
         FailedEncodeWritesPrefix, Returned
<1>. QED
  BY <1>7, <1>8, <1>9, <1>10 DEF FixedCodecInv

LEMMA FixedValidateField ==
  ASSUME ExpandedInv, FixedCodecInv, phase = "emitted", UNCHANGED expandVars, ValidateField
  PROVE  FixedCodecInv'
<1>. DEFINE l == layouts[fi]
            o == placed[fi]
            outcome == Validate(l, o)
<1>1. /\ FixedCodecTypeOK /\ FixedViewInv /\ FixedWroteInv /\ FieldCount \in Nat \ {0}
      /\ slice \in Slice /\ SliceLen \in Nat /\ fi \in Nat \ {0} /\ ret \in FixedResults
      /\ mem \in Memory /\ slice.lo \in Nat
  BY FixedCodecTypes, FixedEmitted DEF FixedCodecInv
<1>2. /\ pc = "validate" /\ fi \in 1 .. FieldCount
      /\ UNCHANGED << mem, calls, op, slice, val, goal, before, view, wrote >>
  BY <1>1 DEF ValidateField
<1>3. op = "decode" /\ Accepted(slice) /\ \A i \in 1 .. fi - 1 : FieldChecked(slice, i)
  BY <1>2 DEF FixedCodecInv, FixedCallInv
<1>4. FixedViewInv' /\ FixedWroteInv'
  BY <1>1, <1>2, SameViews
<1>5. outcome \in {"ok", "panic", "InvalidInstructionData"}
  BY DEF Validate
<1>6. \/ outcome = "ok" /\ fi' = fi + 1 /\ pc' = pc /\ ret' = ret
      \/ outcome = "panic" /\ fi' = fi /\ pc' = "panic" /\ ret' = ret
      \/ /\ outcome = "InvalidInstructionData" /\ fi' = fi /\ pc' = "idle"
         /\ ret' = [NoReturn EXCEPT !.res = "InvalidInstructionData"]
  <2>. HIDE DEF outcome
  <2>. QED
    BY <1>5 DEF ValidateField, Panic, Fail, Return, outcome, l, o
<1>7. ret' \in FixedResults /\ pc' \in {"idle", "validate", "panic"} /\ fi' \in Nat \ {0}
  BY <1>1, <1>2, <1>6, FixedReturnTypes
<1>8. FixedCodecTypeOK'
  BY <1>1, <1>2, <1>7 DEF FixedCodecTypeOK, FixedResults
<1>9. FixedWriteInv'
  BY <1>7 DEF FixedWriteInv
<1>10. /\ l \in FixedLayout /\ o \in Nat /\ PayloadShift(l) \in Nat /\ SlotMinLen(l) \in Nat
       /\ o + SlotMinLen(l) <= SliceLen
       /\ IsTail(l) => fi = FieldCount /\ HasTail /\ o = MinLen
  <2>1. l \in FixedLayout /\ o \in Nat
    BY <1>2, EmittedField
  <2>2. PayloadShift(l) \in Nat /\ SlotMinLen(l) \in Nat
    BY <2>1, SlotTypes
  <2>3. o + SlotMinLen(l) <= slice.hi - slice.lo
        /\ (IsTail(l) => fi = FieldCount /\ HasTail /\ o = MinLen)
    BY <1>1, <1>2, <1>3, AcceptedCovers
  <2>. QED
    BY <2>1, <2>2, <2>3 DEF SliceLen
<1>11. CASE outcome = "ok"
  <2>1. fi' = fi + 1 /\ pc' = "validate"
    BY <1>2, <1>6, <1>11
  <2>2. FieldChecked(slice, fi)
    <3>1. /\ l.shape # "plain" => ~(o + PayloadShift(l) > SliceLen)
          /\ l.shape # "plain" /\ ~IsOption(l) => HeaderAt(o, l.width) <= l.capacity
      BY <1>11 DEF Validate
    <3>2. IsVec(l) => ~IsOption(l)
      BY DEF IsVec, IsOption
    <3>3. l.shape # "plain" => o + PayloadShift(l) <= SliceLen
      BY <1>1, <1>10, <3>1
    <3>. QED
      BY <3>1, <3>2, <3>3 DEF FieldChecked, HeaderAt, SliceLen
  <2>3. \A i \in 1 .. fi' - 1 : FieldChecked(slice, i)
    <3>1. \A i \in 1 .. fi' - 1 : i \in 1 .. fi - 1 \/ i = fi
      BY <1>1, <2>1
    <3>. QED
      BY <1>3, <2>2, <3>1
  <2>4. Accepted(slice)' /\ \A i \in 1 .. fi' - 1 : FieldChecked(slice, i)'
    BY <1>2, <1>3, <2>3, SameStruct DEF Accepted, LenAccepted, FieldChecked
  <2>5. fi' \in 1 .. FieldCount' + 1
    BY <1>1, <1>2, <2>1, SameStruct
  <2>6. FixedCallInv'
    <3>1. view' = NoView
      BY <1>2, <1>3 DEF FixedCodecInv, FixedCallInv
    <3>. QED
      BY <1>2, <1>3, <2>1, <2>4, <2>5, <3>1, SameStruct DEF FixedCallInv, NoView
  <2>7. FixedReturnInv'
    BY <2>1 DEF FixedReturnInv, PanicsOnlyAtTail, ReadsStayInSlot, FailedEncodeWritesPrefix, Returned
  <2>. QED
    BY <1>4, <1>8, <1>9, <2>6, <2>7 DEF FixedCodecInv
<1>12. CASE outcome = "panic"
  <2>1. pc' = "panic"
    BY <1>6, <1>12
  <2>2. l.shape # "plain" /\ o + PayloadShift(l) > SliceLen
    BY <1>12 DEF Validate
  <2>3. IsTail(l)
    <3>1. SUFFICES ASSUME ~IsTail(l) PROVE FALSE
      OBVIOUS
    <3>2. PayloadShift(l) + 0 * Size(l.kind) <= SlotMinLen(l)
      <4>1. 0 <= l.capacity
        BY <1>10 DEF FixedLayout
      <4>. QED
        BY <1>10, <3>1, <4>1, CountFits
    <3>3. Size(l.kind) \in Nat
      BY <1>10, KindTypes DEF FixedLayout
    <3>. QED
      BY <1>1, <1>10, <2>2, <3>2, <3>3
  <2>4. HasTail /\ l = TailLayout /\ SliceLen < MinLen + PayloadShift(TailLayout)
    <3>1. l = TailLayout /\ HasTail /\ o = MinLen
      BY <1>10, <2>3 DEF TailLayout
    <3>2. SliceLen < o + PayloadShift(l)
      BY <1>1, <1>10, <2>2
    <3>. QED
      BY <3>1, <3>2
  <2>5. /\ SliceLen' = SliceLen /\ PayloadShift(TailLayout)' = PayloadShift(TailLayout)
        /\ HasTail' = HasTail /\ MinLen' = MinLen /\ op' = op
    BY <1>2, SameStruct DEF SliceLen, TailLayout
  <2>6. PanicsOnlyAtTail'
    BY <1>3, <2>4, <2>5 DEF PanicsOnlyAtTail
  <2>7. FixedReturnInv'
    BY <2>1, <2>6 DEF FixedReturnInv, ReadsStayInSlot, FailedEncodeWritesPrefix, Returned
  <2>8. FixedCallInv'
    BY <2>1, SameStruct DEF FixedCallInv
  <2>. QED
    BY <1>4, <1>8, <1>9, <2>7, <2>8 DEF FixedCodecInv
<1>13. CASE outcome = "InvalidInstructionData"
  <2>1. pc' = "idle" /\ op' = "decode"
    BY <1>2, <1>3, <1>6, <1>13
  <2>2. FixedReturnInv'
    BY <2>1 DEF FixedReturnInv, PanicsOnlyAtTail, ReadsStayInSlot, FailedEncodeWritesPrefix, Returned
  <2>3. FixedCallInv'
    BY <2>1, SameStruct DEF FixedCallInv
  <2>. QED
    BY <1>4, <1>8, <1>9, <2>2, <2>3 DEF FixedCodecInv
<1>. QED
  BY <1>5, <1>11, <1>12, <1>13

LEMMA FixedDecodeDone ==
  ASSUME ExpandedInv, FixedCodecInv, phase = "emitted", UNCHANGED expandVars, DecodeDone
  PROVE  FixedCodecInv'
<1>1. /\ pc = "validate" /\ fi > FieldCount /\ pc' = "idle"
      /\ ret' = [NoReturn EXCEPT !.res = "ok"]
      /\ view' = [lo |-> slice.lo, hi |-> slice.hi]
      /\ UNCHANGED << mem, calls, op, slice, val, fi, goal, before, wrote >>
  BY DEF DecodeDone, Return, callVars
<1>2. /\ FixedCodecTypeOK /\ FixedViewInv /\ FixedWroteInv /\ FieldCount \in Nat \ {0}
      /\ slice \in Slice /\ slice.lo \in Nat /\ slice.hi \in Nat
  BY FixedCodecTypes, FixedEmitted DEF FixedCodecInv
<1>3. /\ op = "decode" /\ Accepted(slice) /\ fi \in 1 .. FieldCount + 1
      /\ \A i \in 1 .. fi - 1 : FieldChecked(slice, i)
  BY <1>1 DEF FixedCodecInv, FixedCallInv
<1>4. fi - 1 = FieldCount
  BY <1>1, <1>2, <1>3
<1>5. view' = slice
  BY <1>1, <1>2 DEF Slice
<1>6. ret' \in FixedResults
  BY <1>1, FixedReturnTypes
<1>7. view' \in [lo : Nat, hi : Int]
  BY <1>1, <1>2
<1>8. FixedCodecTypeOK'
  BY <1>1, <1>2, <1>6, <1>7 DEF FixedCodecTypeOK, FixedResults
<1>9. FixedViewInv'
  <2>1. Accepted(view)' /\ \A i \in 1 .. FieldCount : FieldChecked(view, i)'
    BY <1>1, <1>3, <1>4, <1>5, SameStruct DEF Accepted, LenAccepted, FieldChecked
  <2>. QED
    BY <1>2, <1>5, <2>1, SameStruct DEF FixedViewInv
<1>10. FixedWroteInv'
  BY <1>1, <1>2, SameViews
<1>11. FixedCallInv' /\ FixedWriteInv'
  BY <1>1, SameStruct DEF FixedCallInv, FixedWriteInv
<1>12. FixedReturnInv'
  BY <1>1, <1>3
     DEF FixedReturnInv, PanicsOnlyAtTail, ReadsStayInSlot, FailedEncodeWritesPrefix, Returned
<1>. QED
  BY <1>8, <1>9, <1>10, <1>11, <1>12 DEF FixedCodecInv

LEMMA FixedStartGet ==
  ASSUME ExpandedInv, FixedCodecInv, phase = "emitted", UNCHANGED expandVars, StartGet
  PROVE  FixedCodecInv'
<1>1. /\ view # NoView /\ goal' \in 1 .. FieldCount /\ calls < MaxCalls
      /\ calls' = calls + 1 /\ op' = "get" /\ pc' = "read" /\ slice' = view /\ before' = mem
      /\ UNCHANGED << mem, val, fi, view, ret, wrote >>
  BY DEF StartGet, MayCall
<1>2. /\ FixedCodecTypeOK /\ FixedViewInv /\ FixedWroteInv /\ FieldCount \in Nat \ {0}
      /\ calls \in 0 .. MaxCalls /\ MaxCalls \in Nat /\ view \in Slice
  BY <1>1, FixedCodecTypes, FixedEmitted DEF FixedCodecInv, FixedViewInv
<1>3. calls' \in 0 .. MaxCalls /\ slice' \in Slice /\ goal' \in Nat \ {0}
  BY <1>1, <1>2
<1>4. FixedCodecTypeOK'
  BY <1>1, <1>2, <1>3 DEF FixedCodecTypeOK
<1>5. FixedViewInv' /\ FixedWroteInv'
  BY <1>1, <1>2, SameViews
<1>6. FixedCallInv' /\ FixedWriteInv'
  BY <1>1, SameStruct DEF FixedCallInv, FixedWriteInv
<1>7. FixedReturnInv'
  BY <1>1 DEF FixedReturnInv, PanicsOnlyAtTail, ReadsStayInSlot, FailedEncodeWritesPrefix, Returned
<1>. QED
  BY <1>4, <1>5, <1>6, <1>7 DEF FixedCodecInv

(* Where the base of the slice and the offset of the payload are aligned,  *)
(* its address is.                                                         *)
LEMMA AddressAligned ==
  ASSUME NEW lo \in Nat, lo % BaseAlign = 0, NEW x \in Nat, NEW a \in PrimitiveSizes,
         \A base \in {0, BaseAlign} : (base + x) % a = 0
  PROVE  (lo + x) % a = 0
<1>1. BaseAlign \in {1, 2, 4, 8}
  BY FixedBaseAlignAssumption
<1>2. (0 + x) % a = 0 /\ x % a = 0
  <2>1. 0 + x = x
    OBVIOUS
  <2>. QED
    BY <2>1
<1>3. ~(a > BaseAlign)
  BY BaseTooSmall
<1>4. CASE BaseAlign = 1
  BY <1>2, <1>3, <1>4 DEF PrimitiveSizes
<1>5. CASE BaseAlign = 2
  BY <1>2, <1>3, <1>5 DEF PrimitiveSizes
<1>6. CASE BaseAlign = 4
  BY <1>2, <1>3, <1>6 DEF PrimitiveSizes
<1>7. CASE BaseAlign = 8
  BY <1>2, <1>3, <1>7 DEF PrimitiveSizes
<1>. QED
  BY <1>1, <1>4, <1>5, <1>6, <1>7

(* A getter of a live view indexes no further than decode has checked,     *)
(* but for the elements of the tail.                                       *)
LEMMA GetterRange ==
  ASSUME ExpandedInv, FixedCodecInv, phase = "emitted", pc = "read",
         NEW l, l = layouts[goal], NEW o, o = placed[goal],
         NEW count, count = CountAt(l, o), NEW range, range = ReadRange(l, o, count)
  PROVE  /\ l \in FixedLayout /\ o \in Nat /\ count \in Nat
         /\ range.lo \in Nat /\ range.hi \in Nat /\ range.lo <= range.hi
         /\ range.lo = o + PayloadShift(l) /\ range.hi = range.lo + count * Size(l.kind)
         /\ o + PayloadShift(l) <= SliceLen /\ CastAligned(l, range.lo)
         /\ ~IsTail(l) => range.hi <= o + SlotMinLen(l) /\ o + SlotMinLen(l) <= SliceLen
         /\ IsTail(l) => goal = FieldCount /\ HasTail /\ o = MinLen
<1>1. /\ mem \in Memory /\ slice \in Slice /\ SliceLen \in Nat /\ slice.lo \in Nat
      /\ goal \in 1 .. FieldCount /\ view # NoView /\ slice = view
  BY FixedCodecTypes DEF FixedCodecInv, FixedCallInv
<1>2. Accepted(slice) /\ FieldChecked(slice, goal)
  BY <1>1 DEF FixedCodecInv, FixedViewInv
<1>3. /\ l \in FixedLayout /\ o \in Nat /\ SlotMinLen(l) \in Nat /\ ~Misaligned(l, o)
  BY <1>1, EmittedField
<1>4. /\ PayloadShift(l) \in Nat /\ Align(l.kind) \in PrimitiveSizes /\ Size(l.kind) \in Nat
      /\ l.width \in 0 .. MaxFlexWidth /\ l.capacity \in Nat
      /\ l.shape \in {"plain", "option", "tail_option", "vec", "tail_vec"}
  BY <1>3, SlotTypes, KindTypes DEF FixedLayout
<1>5. /\ o + SlotMinLen(l) <= SliceLen
      /\ IsTail(l) => goal = FieldCount /\ HasTail /\ o = MinLen
  BY <1>1, <1>2, AcceptedCovers DEF SliceLen
<1>6. o + PayloadShift(l) <= SliceLen
  <2>1. CASE l.shape = "plain"
    <3>1. PayloadShift(l) = 0
      BY <2>1 DEF PayloadShift, IsOption, IsVec
    <3>. QED
      BY <1>1, <1>3, <1>5, <3>1
  <2>2. CASE l.shape # "plain"
    BY <1>2, <2>2 DEF FieldChecked, SliceLen
  <2>. QED
    BY <2>1, <2>2
<1>7. count \in Nat /\ (~IsTail(l) => IF l.shape = "vec" THEN count <= l.capacity ELSE count <= 1)
  <2>1. CASE IsVec(l)
    <3>1. count = HeaderAt(o, l.width) /\ PayloadShift(l) = l.width
      BY <2>1 DEF CountAt, IsVec, IsOption, PayloadShift
    <3>2. HeaderAt(o, l.width) \in Nat
      BY <1>1, <1>3, <1>4, <1>6, <3>1, HeaderAtType
    <3>3. count <= l.capacity
      BY <1>2, <2>1, <3>1 DEF FieldChecked, HeaderAt, IsVec
    <3>4. ~IsTail(l) => l.shape = "vec"
      BY <2>1 DEF IsVec, IsTail
    <3>. QED
      BY <3>1, <3>2, <3>3, <3>4
  <2>2. CASE ~IsVec(l)
    <3>1. count \in {0, 1} /\ l.shape # "vec"
      BY <1>4, <2>2 DEF CountAt, IsVec, IsOption
    <3>. QED
      BY <3>1
  <2>. QED
    BY <2>1, <2>2
<1>8. range.lo = o + PayloadShift(l) /\ range.hi = o + PayloadShift(l) + count * Size(l.kind)
  BY DEF ReadRange
<1>9. count * Size(l.kind) \in Nat
  BY <1>4, <1>7
<1>10. /\ range.lo \in Nat /\ range.hi \in Nat /\ range.lo <= range.hi
       /\ range.hi = range.lo + count * Size(l.kind)
  BY <1>3, <1>4, <1>8, <1>9
<1>11. ~IsTail(l) => range.hi <= o + SlotMinLen(l)
  <2>1. SUFFICES ASSUME ~IsTail(l) PROVE range.hi <= o + SlotMinLen(l)
    OBVIOUS
  <2>2. PayloadShift(l) + count * Size(l.kind) <= SlotMinLen(l)
    BY <1>3, <1>7, <2>1, CountFits
  <2>. QED
    BY <1>3, <1>4, <1>8, <1>9, <2>2
<1>12. CastAligned(l, range.lo)
  <2>1. SUFFICES ASSUME Borrows(l) PROVE (slice.lo + range.lo) % Align(l.kind) = 0
    BY DEF CastAligned
  <2>2. \A base \in {0, BaseAlign} : (base + o + PayloadShift(l)) % Align(l.kind) = 0
    BY <1>3, <2>1 DEF Misaligned
  <2>3. \A base \in {0, BaseAlign} : base + o + PayloadShift(l) = base + range.lo
    BY <1>3, <1>4, <1>8, FixedBaseAlignAssumption
  <2>4. \A base \in {0, BaseAlign} : (base + range.lo) % Align(l.kind) = 0
    BY <2>2, <2>3
  <2>5. slice.lo % BaseAlign = 0
    BY <1>2 DEF Accepted
  <2>. QED
    BY <1>1, <1>4, <1>10, <2>4, <2>5, AddressAligned
<1>. QED
  BY <1>3, <1>5, <1>6, <1>7, <1>8, <1>10, <1>11, <1>12

LEMMA FixedGetRead ==
  ASSUME ExpandedInv, FixedCodecInv, phase = "emitted", UNCHANGED expandVars, GetRead
  PROVE  FixedCodecInv'
<1>1. PICK l, o : l = layouts[goal] /\ o = placed[goal]
  OBVIOUS
<1>2. PICK count : count = CountAt(l, o)
  OBVIOUS
<1>3. PICK range : range = ReadRange(l, o, count)
  OBVIOUS
<1>4. PICK outcome : outcome = GetOutcome(l, o)
  OBVIOUS
<1>5. /\ pc = "read" /\ UNCHANGED << mem, calls, op, slice, val, fi, goal, before, view, wrote >>
      /\ IF outcome = NoReturn THEN pc' = "panic" /\ ret' = ret ELSE pc' = "idle" /\ ret' = outcome
  BY <1>1, <1>4 DEF GetRead, Panic, Return, callVars
<1>6. /\ FixedCodecTypeOK /\ FixedViewInv /\ FixedWroteInv /\ FieldCount \in Nat \ {0}
      /\ mem \in Memory /\ SliceLen \in Nat /\ slice.lo \in Nat /\ slice.hi \in Nat
      /\ slice.hi <= MemLen /\ ret \in FixedResults /\ MemLen \in Nat /\ SliceLen = slice.hi - slice.lo
  BY FixedCodecTypes, FixedEmitted DEF FixedCodecInv, SliceLen
<1>7. op = "get" /\ goal \in 1 .. FieldCount
  BY <1>5 DEF FixedCodecInv, FixedCallInv
<1>8. /\ l \in FixedLayout /\ o \in Nat /\ count \in Nat
      /\ range.lo \in Nat /\ range.hi \in Nat /\ range.lo <= range.hi
      /\ range.lo = o + PayloadShift(l) /\ range.hi = range.lo + count * Size(l.kind)
      /\ o + PayloadShift(l) <= SliceLen /\ CastAligned(l, range.lo)
      /\ ~IsTail(l) => range.hi <= o + SlotMinLen(l) /\ o + SlotMinLen(l) <= SliceLen
      /\ IsTail(l) => goal = FieldCount /\ HasTail /\ o = MinLen
  BY <1>1, <1>2, <1>3, <1>5, GetterRange
<1>9. PayloadShift(l) \in Nat /\ SlotMinLen(l) \in Nat
  BY <1>8, SlotTypes
<1>10. ~(o + PayloadShift(l) > SliceLen)
  BY <1>6, <1>8, <1>9
<1>11. outcome = IF count = 0 /\ IsOption(l) THEN [res |-> "ok", count |-> 0, data |-> << >>]
                 ELSE IF range.hi > SliceLen THEN NoReturn
                 ELSE [res |-> "ok", count |-> count,
                       data |-> Typed(l, Bytes(mem, slice.lo + range.lo, slice.lo + range.hi))]
  BY <1>2, <1>3, <1>4, <1>8, <1>10 DEF GetOutcome
<1>12. outcome = NoReturn => IsTail(l) /\ range.hi > SliceLen
  <2>1. outcome = NoReturn => range.hi > SliceLen
    BY <1>11 DEF NoReturn
  <2>2. range.hi > SliceLen => IsTail(l)
    BY <1>6, <1>8, <1>9
  <2>. QED
    BY <2>1, <2>2
<1>13. outcome # NoReturn => outcome \in FixedResults /\ outcome.res = "ok" /\ outcome.count = count
  <2>1. CASE count = 0 /\ IsOption(l)
    <3>1. outcome = [res |-> "ok", count |-> 0, data |-> << >>] /\ << >> \in Seq(Byte)
      BY <1>11, <2>1
    <3>. QED
      BY <2>1, <3>1 DEF FixedResults
  <2>2. CASE ~(count = 0 /\ IsOption(l)) /\ ~(range.hi > SliceLen)
    <3>1. PICK from : from = slice.lo + range.lo
      OBVIOUS
    <3>2. PICK to : to = slice.lo + range.hi
      OBVIOUS
    <3>3. PICK data : data = Typed(l, Bytes(mem, from, to))
      OBVIOUS
    <3>4. from \in Nat /\ to \in Nat /\ from <= to /\ to <= MemLen
      BY <1>6, <1>8, <2>2, <3>1, <3>2
    <3>5. Bytes(mem, from, to) \in Seq(Byte)
      BY <1>6, <3>4, FixedBytesType
    <3>6. data \in Seq(Byte)
      <4>. DEFINE read == Bytes(mem, from, to)
      <4>1. DOMAIN read = 1 .. Len(read) /\ Len(read) \in Nat
        BY <3>5, LenProperties
      <4>2. 0 \in Byte /\ 1 \in Byte
        BY RadixAssumption DEF Byte
      <4>. HIDE DEF read
      <4>3. data = IF l.kind.name = "bool"
                   THEN [k \in 1 .. Len(read) |-> IF read[k] = 0 THEN 0 ELSE 1] ELSE read
        BY <3>3, <4>1 DEF Typed, read
      <4>4. [k \in 1 .. Len(read) |-> IF read[k] = 0 THEN 0 ELSE 1] \in Seq(Byte)
        BY <4>1, <4>2
      <4>. QED
        BY <3>5, <4>3, <4>4 DEF read
    <3>7. outcome = [res |-> "ok", count |-> count, data |-> data]
      BY <1>11, <2>2, <3>1, <3>2, <3>3
    <3>. QED
      BY <1>8, <3>6, <3>7 DEF FixedResults
  <2>. QED
    BY <1>11, <2>1, <2>2
<1>14. ret' \in FixedResults /\ pc' \in {"idle", "panic"}
  BY <1>5, <1>6, <1>13
<1>15. FixedCodecTypeOK'
  BY <1>5, <1>6, <1>14 DEF FixedCodecTypeOK, FixedResults
<1>16. FixedViewInv' /\ FixedWroteInv'
  BY <1>5, <1>6, SameViews
<1>17. FixedCallInv' /\ FixedWriteInv'
  BY <1>14, SameStruct DEF FixedCallInv, FixedWriteInv
<1>18. ASSUME outcome = NoReturn PROVE FixedReturnInv'
  <2>1. pc' = "panic" /\ IsTail(l) /\ range.hi > SliceLen
    BY <1>5, <1>12, <1>18
  <2>2. goal = FieldCount /\ HasTail /\ o = MinLen /\ l = TailLayout /\ o = TailStart
    BY <1>1, <1>8, <2>1 DEF TailLayout, TailStart
  <2>3. range.hi = MinLen + PayloadShift(TailLayout)
                     + CountAt(TailLayout, TailStart) * Size(TailLayout.kind)
    BY <1>2, <1>8, <2>2
  <2>4. SliceLen < MinLen + PayloadShift(TailLayout)
                     + CountAt(TailLayout, TailStart) * Size(TailLayout.kind)
    BY <1>6, <1>8, <2>1, <2>3
  <2>5. /\ SliceLen' = SliceLen /\ MinLen' = MinLen /\ HasTail' = HasTail
        /\ TailLayout' = TailLayout /\ goal' = goal /\ FieldCount' = FieldCount
        /\ op' = "get"
    BY <1>5, <1>7, SameStruct DEF SliceLen, TailLayout
  <2>6. CountAt(TailLayout, TailStart)' = CountAt(TailLayout, TailStart)
    BY <1>5, SameStruct DEF TailLayout, TailStart, CountAt, ByteAt, HeaderAt, IsOption, IsVec
  <2>7. PayloadShift(TailLayout)' = PayloadShift(TailLayout)
        /\ Size(TailLayout.kind)' = Size(TailLayout.kind)
    BY <2>5
  <2>8. PanicsOnlyAtTail'
    BY <2>2, <2>4, <2>5, <2>6, <2>7 DEF PanicsOnlyAtTail
  <2>. QED
    BY <2>1, <2>8 DEF FixedReturnInv, ReadsStayInSlot, FailedEncodeWritesPrefix, Returned
<1>19. ASSUME outcome # NoReturn PROVE FixedReturnInv'
  <2>1. pc' = "idle" /\ ret' = outcome /\ ret'.count = count /\ op' = "get"
    BY <1>5, <1>7, <1>13, <1>19
  <2>2. goal < FieldCount => ReadRange(l, o, count).hi <= placed[goal + 1]
    <3>1. SUFFICES ASSUME goal < FieldCount PROVE range.hi <= placed[goal + 1]
      BY <1>3
    <3>2. goal \in 1 .. FieldCount - 1 /\ ~IsTail(l)
      BY <1>6, <1>7, <1>8, <3>1
    <3>3. placed[goal + 1] = o + SlotMinLen(l)
      BY <1>1, <3>2, FixedEmitted
    <3>. QED
      BY <1>8, <3>2, <3>3
  <2>3. ReadRange(layouts[goal], placed[goal], ret.count)' = ReadRange(l, o, count)
    BY <1>1, <1>5, <2>1, SameStruct DEF ReadRange
  <2>4. ReadsStayInSlot'
    BY <1>5, <2>2, <2>3, SameStruct DEF ReadsStayInSlot
  <2>. QED
    BY <2>1, <2>4 DEF FixedReturnInv, PanicsOnlyAtTail, FailedEncodeWritesPrefix, Returned
<1>. QED
  BY <1>15, <1>16, <1>17, <1>18, <1>19 DEF FixedCodecInv

-----------------------------------------------------------------------------
(* The invariant is inductive.                                             *)

LEMMA FixedCodecStep ==
  ASSUME ExpandedInv, FixedCodecInv, [Next]_vars
  PROVE  FixedCodecInv'
<1>1. CASE ExpandNext /\ UNCHANGED codecVars
  BY <1>1, FixedExpandStep
<1>2. CASE phase = "emitted" /\ CodecNext /\ UNCHANGED expandVars
  <2>1. CASE StartEncodeTo \/ StartEncode
    BY <1>2, <2>1, FixedStartEncode
  <2>2. CASE StartDecode
    BY <1>2, <2>2, FixedStartDecode
  <2>3. CASE StartGet
    BY <1>2, <2>3, FixedStartGet
  <2>4. CASE WriteField
    BY <1>2, <2>4, FixedWriteField
  <2>5. CASE EncodeDone
    BY <1>2, <2>5, FixedEncodeDone
  <2>6. CASE ValidateField
    BY <1>2, <2>6, FixedValidateField
  <2>7. CASE DecodeDone
    BY <1>2, <2>7, FixedDecodeDone
  <2>8. CASE GetRead
    BY <1>2, <2>8, FixedGetRead
  <2>. QED
    BY <1>2, <2>1, <2>2, <2>3, <2>4, <2>5, <2>6, <2>7, <2>8 DEF CodecNext, Running
<1>3. CASE UNCHANGED vars
  BY <1>3, FixedCodecStutter
<1>. QED
  BY <1>1, <1>2, <1>3 DEF Next, Stopped

(* The runs of the codec go through the states of the expansion.           *)
LEMMA FixedRunExpands == Spec => ExpandSpec
<1>1. Init => ExpandInit
  BY DEF Init
<1>2. [Next]_vars => [ExpandNext \/ ExpandStopped]_expandVars
  BY DEF Next, Stopped, vars
<1>. QED
  BY <1>1, <1>2, PTL DEF Spec, ExpandSpec

LEMMA FixedCodecInvariant == Spec => [](ExpandedInv /\ FixedCodecInv)
<1>1. Spec => []ExpandedInv
  BY FixedRunExpands, ExpandedInvariant, PTL
<1>2. ExpandedInv /\ FixedCodecInv /\ [Next]_vars => FixedCodecInv'
  BY FixedCodecStep
<1>. QED
  BY <1>1, <1>2, FixedCodecInit, PTL DEF Spec

(* The state of the generated code keeps its types.                        *)
THEOREM FixedCodecTypeCorrect == Spec => []FixedCodecTypeOK
<1>1. FixedCodecInv => FixedCodecTypeOK
  BY DEF FixedCodecInv
<1>. QED
  BY <1>1, FixedCodecInvariant, PTL

(* Whatever the bytes and the slices a caller passes, the generated code   *)
(* panics in encode_to on a slice shorter than the encoding and at the     *)
(* trailing field of a #[flexible] struct, and nowhere else.               *)
THEOREM FixedPanics == Spec => []PanicsOnlyAtTail
<1>1. FixedCodecInv => PanicsOnlyAtTail
  BY DEF FixedCodecInv, FixedReturnInv
<1>. QED
  BY <1>1, FixedCodecInvariant, PTL

(* A getter of a field with a slot reads no byte of a later field.         *)
THEOREM FixedReads == Spec => []ReadsStayInSlot
<1>1. FixedCodecInv => ReadsStayInSlot
  BY DEF FixedCodecInv, FixedReturnInv
<1>. QED
  BY <1>1, FixedCodecInvariant, PTL

(* A refused encode_to stopped at a Vec that exceeds its capacity and left *)
(* exactly the fields before it in the buffer; one that succeeded wrote    *)
(* all fields and nothing outside the struct's own bytes.                  *)
THEOREM FixedFailedEncode == Spec => []FailedEncodeWritesPrefix
<1>1. FixedCodecInv => FailedEncodeWritesPrefix
  BY DEF FixedCodecInv, FixedReturnInv
<1>. QED
  BY <1>1, FixedCodecInvariant, PTL

(* An encoding fills every one of its slots, up to where the next begins.  *)
THEOREM FixedEncodingCovers == Spec => []EncodingCoversSlots
<1>1. ASSUME ExpandedInv, FixedCodecInv PROVE EncodingCoversSlots
  <2>1. SUFFICES ASSUME wrote # NoEncoding, NEW i \in 1 .. FieldCount
                 PROVE  Bytes(mem, wrote.lo + OFFSETS[i],
                              wrote.lo + IF i < FieldCount THEN OFFSETS[i + 1]
                                         ELSE EncodeBufLen(wrote.val))
                          = FieldBytes(layouts[i], wrote.val[i])
    BY DEF EncodingCoversSlots
  <2>2. phase = "emitted"
    BY <1>1, <2>1 DEF FixedCodecInv, FixedCallInv
  <2>3. FieldCount \in Nat /\ OFFSETS[i] = placed[i]
    BY <1>1, <2>2, FixedEmitted, EmittedField
  <2>4. Reached(wrote.val, i + 1) = IF i < FieldCount THEN OFFSETS[i + 1]
                                    ELSE EncodeBufLen(wrote.val)
    <3>1. CASE i < FieldCount
      <4>1. i + 1 \in 1 .. FieldCount /\ i + 1 <= FieldCount
        BY <2>3, <3>1
      <4>2. OFFSETS[i + 1] = placed[i + 1]
        BY <1>1, <2>2, <4>1, EmittedField
      <4>. QED
        BY <3>1, <4>1, <4>2 DEF Reached
    <3>2. CASE ~(i < FieldCount)
      <4>1. ~(i + 1 <= FieldCount)
        BY <2>3, <3>2
      <4>. QED
        BY <3>2, <4>1 DEF Reached
    <3>. QED
      BY <3>1, <3>2
  <2>. QED
    BY <1>1, <2>1, <2>3, <2>4 DEF FixedCodecInv, FixedWroteInv
<1>2. ExpandedInv /\ FixedCodecInv => EncodingCoversSlots
  BY <1>1
<1>. QED
  BY <1>2, FixedCodecInvariant, PTL

-----------------------------------------------------------------------------
(* The last encoding: a value no Vec of which exceeds its capacity, in as  *)
(* many bytes as encode allocates for it.                                  *)

FixedOwnInv ==
  /\ pc = "write" => \A i \in 1 .. fi - 1 : ~OverCapacity(layouts[i], val[i])
  /\ wrote # NoEncoding =>
       /\ IsStruct(wrote.val) /\ \A i \in 1 .. FieldCount : ~OverCapacity(layouts[i], wrote.val[i])
       /\ wrote.lo \in Nat /\ wrote.hi = wrote.lo + EncodeBufLen(wrote.val)

LEMMA FixedOwnInit == Init => FixedOwnInv
  BY DEF Init, CodecInit, FixedOwnInv

\* A call that is not about to write, and does not end an encoding.
LEMMA FixedOwnKept ==
  ASSUME FixedOwnInv, UNCHANGED expandVars, pc' # "write", wrote' = wrote
  PROVE  FixedOwnInv'
<1>1. FieldCount' = FieldCount /\ layouts' = layouts /\ NoEncoding' = NoEncoding
  BY SameStruct DEF NoEncoding
<1>2. IsStruct(wrote.val)' = IsStruct(wrote.val) /\ EncodeBufLen(wrote.val)' = EncodeBufLen(wrote.val)
  BY SameStruct DEF IsStruct, EncodeBufLen
<1>. QED
  BY <1>1, <1>2 DEF FixedOwnInv

LEMMA FixedOwnStep ==
  ASSUME ExpandedInv, FixedCodecInv, FixedOwnInv, [Next]_vars
  PROVE  FixedOwnInv'
<1>1. CASE ExpandNext /\ UNCHANGED codecVars
  <2>1. phase # "emitted"
    BY <1>1 DEF ExpandNext, ParseArgs, AddField, FieldsDone
  <2>2. pc' = "idle" /\ wrote' = NoEncoding /\ NoEncoding' = NoEncoding
    BY <1>1, <2>1 DEF FixedCodecInv, FixedCallInv, codecVars, callVars, NoEncoding
  <2>. QED
    BY <2>2 DEF FixedOwnInv
<1>2. CASE phase = "emitted" /\ CodecNext /\ UNCHANGED expandVars
  <2>1. CASE StartEncodeTo \/ StartEncode
    <3>1. fi' = 1 /\ wrote' = NoEncoding /\ NoEncoding' = NoEncoding
      BY <2>1 DEF StartEncodeTo, StartEncode, StartWriting, NoEncoding
    <3>. QED
      BY <3>1 DEF FixedOwnInv
  <2>2. CASE WriteField
    <3>1. /\ pc = "write" /\ fi <= FieldCount /\ UNCHANGED << val, wrote >>
          /\ \/ pc' # "write"
             \/ fi' = fi + 1 /\ ~OverCapacity(layouts[fi], val[fi])
      BY <2>2 DEF WriteField, Refuse, Fail, Return, Panic
    <3>2. CASE pc' # "write"
      BY <1>2, <3>1, <3>2, FixedOwnKept
    <3>3. CASE fi' = fi + 1 /\ ~OverCapacity(layouts[fi], val[fi])
      <4>1. fi \in Nat \ {0} /\ wrote = NoEncoding
        BY <3>1, FixedCodecTypes DEF FixedCodecInv, FixedCallInv
      <4>2. \A i \in 1 .. fi' - 1 : ~OverCapacity(layouts[i], val[i])
        <5>1. \A i \in 1 .. fi' - 1 : i \in 1 .. fi - 1 \/ i = fi
          BY <3>3, <4>1
        <5>. QED
          BY <3>1, <3>3, <5>1 DEF FixedOwnInv
      <4>3. layouts' = layouts /\ NoEncoding' = NoEncoding
        BY <1>2, SameStruct DEF NoEncoding
      <4>. QED
        BY <3>1, <4>1, <4>2, <4>3 DEF FixedOwnInv, OverCapacity, IsVec
    <3>. QED
      BY <3>1, <3>2, <3>3
  <2>3. CASE EncodeDone
    <3>1. /\ pc = "write" /\ ~(fi <= FieldCount) /\ pc' = "idle"
          /\ wrote' = [lo |-> slice.lo, hi |-> slice.lo + EncodeBufLen(val), val |-> val]
      <4>1. FieldCount \in Nat /\ fi \in Nat
        BY <1>2, FixedEmitted, FixedCodecTypes DEF FixedCodecInv
      <4>. QED
        BY <2>3, <4>1 DEF EncodeDone, Return
    <3>2. IsStruct(val) /\ fi \in 1 .. FieldCount + 1 /\ FieldCount \in Nat /\ slice.lo \in Nat
      BY <1>2, <3>1, FixedWriting, FixedEmitted, FixedCodecTypes DEF FixedCodecInv
    <3>3. \A i \in 1 .. FieldCount : ~OverCapacity(layouts[i], val[i])
      <4>1. \A i \in 1 .. FieldCount : i \in 1 .. fi - 1
        BY <3>1, <3>2
      <4>. QED
        BY <3>1, <4>1 DEF FixedOwnInv
    <3>4. /\ wrote'.val = val /\ wrote'.lo = slice.lo /\ wrote'.hi = slice.lo + EncodeBufLen(val)
      BY <3>1
    <3>5. FieldCount' = FieldCount /\ layouts' = layouts
      BY <1>2, SameStruct
    <3>6. IsStruct(wrote.val)' /\ EncodeBufLen(wrote.val)' = EncodeBufLen(val)
      BY <1>2, <3>2, <3>4, SameStruct DEF IsStruct, EncodeBufLen
    <3>7. \A i \in 1 .. FieldCount' : ~OverCapacity(layouts'[i], wrote'.val[i])
      BY <3>3, <3>4, <3>5
    <3>. QED
      BY <3>1, <3>2, <3>4, <3>6, <3>7 DEF FixedOwnInv
  <2>4. CASE StartDecode \/ StartGet \/ ValidateField \/ DecodeDone \/ GetRead
    <3>1. pc' # "write" /\ wrote' = wrote
      BY <2>4 DEF StartDecode, StartGet, ValidateField, DecodeDone, GetRead, Fail, Return, Panic
    <3>. QED
      BY <1>2, <3>1, FixedOwnKept
  <2>. QED
    BY <1>2, <2>1, <2>2, <2>3, <2>4 DEF CodecNext, Running
<1>3. CASE UNCHANGED vars
  <2>1. UNCHANGED << expandVars, pc, val, fi, wrote >>
    BY <1>3 DEF vars, codecVars, callVars
  <2>2. /\ FieldCount' = FieldCount /\ layouts' = layouts /\ NoEncoding' = NoEncoding
        /\ IsStruct(wrote.val)' = IsStruct(wrote.val)
        /\ EncodeBufLen(wrote.val)' = EncodeBufLen(wrote.val)
    BY <2>1, SameStruct DEF NoEncoding, IsStruct, EncodeBufLen
  <2>. QED
    BY <2>1, <2>2 DEF FixedOwnInv
<1>. QED
  BY <1>1, <1>2, <1>3 DEF Next, Stopped

LEMMA FixedOwnInvariant == Spec => [](ExpandedInv /\ FixedCodecInv /\ FixedOwnInv)
  BY FixedCodecInvariant, FixedOwnInit, FixedOwnStep, PTL DEF Spec

\* The bytes of a field: the tag or the header, the payload, and what fills
\* the slot.  An absent option has no payload to find.
LEMMA FixedFieldParts ==
  ASSUME NEW l \in FixedLayout, NEW v \in FieldValue, IsFieldValue(l, v), ~OverCapacity(l, v),
         IsTail(l) => v.count # 0, IsOption(l) => v.count # 0
  PROVE  \E head, fill \in Seq(Byte) :
           /\ FieldBytes(l, v) = (head \o v.data) \o fill /\ Len(head) = PayloadShift(l)
           /\ IsVec(l) => head = LenHeader(v.count, l.width)
<1>1. /\ l.shape \in {"plain", "option", "tail_option", "vec", "tail_vec"}
      /\ l.width \in 0 .. MaxLenWidth /\ l.capacity \in Nat /\ Size(l.kind) \in Nat
      /\ v.count \in Nat /\ v.data \in Seq(Byte)
  BY KindTypes DEF FixedLayout, FieldValue, MaxFlexWidth, MaxLenWidth
<1>2. << >> \in Seq(Byte) /\ << 1 >> \in Seq(Byte) /\ Len(<< 1 >>) = 1 /\ Len(<< >>) = 0
  BY RadixAssumption DEF Byte
<1>3. ASSUME NEW s \in Seq(Byte) PROVE s \o << >> = s /\ << >> \o s = s
  OBVIOUS
<1>4. LenHeader(v.count, l.width) \in Seq(Byte) /\ Len(LenHeader(v.count, l.width)) = l.width
  BY <1>1, LenHeaderType
<1>5. CASE l.shape = "plain"
  <2>1. FieldBytes(l, v) = v.data /\ PayloadShift(l) = 0 /\ ~IsVec(l)
    BY <1>5 DEF FieldBytes, PayloadShift, IsOption, IsVec
  <2>2. FieldBytes(l, v) = (<< >> \o v.data) \o << >>
    BY <1>1, <1>3, <2>1
  <2>. QED
    BY <1>2, <2>1, <2>2
<1>6. CASE l.shape \in {"option", "tail_option"}
  <2>1. v.count = 1
    BY <1>6 DEF IsFieldValue, IsOption, IsVec
  <2>2. FieldBytes(l, v) = << 1 >> \o v.data /\ PayloadShift(l) = 1 /\ ~IsVec(l)
    BY <1>6, <2>1 DEF FieldBytes, PayloadShift, IsOption, IsVec
  <2>3. << 1 >> \o v.data \in Seq(Byte)
    BY <1>1, <1>2
  <2>4. FieldBytes(l, v) = (<< 1 >> \o v.data) \o << >>
    BY <1>3, <2>2, <2>3
  <2>. QED
    BY <1>2, <2>2, <2>4
<1>7. CASE l.shape = "tail_vec"
  <2>1. /\ FieldBytes(l, v) = LenHeader(v.count, l.width) \o v.data /\ PayloadShift(l) = l.width
    BY <1>7 DEF FieldBytes, PayloadShift, IsOption, IsVec, IsTail
  <2>2. LenHeader(v.count, l.width) \o v.data \in Seq(Byte)
    BY <1>1, <1>4
  <2>3. FieldBytes(l, v) = (LenHeader(v.count, l.width) \o v.data) \o << >>
    BY <1>3, <2>1, <2>2
  <2>. QED
    BY <1>2, <1>4, <2>1, <2>3
<1>8. CASE l.shape = "vec"
  <2>. DEFINE fill == Zeros((l.capacity - v.count) * Size(l.kind))
  <2>1. /\ FieldBytes(l, v) = LenHeader(v.count, l.width) \o v.data \o fill
        /\ PayloadShift(l) = l.width
    BY <1>8 DEF FieldBytes, PayloadShift, IsOption, IsVec
  <2>2. fill \in Seq(Byte)
    <3>1. l.capacity - v.count \in Nat
      BY <1>1, <1>8 DEF OverCapacity, IsVec
    <3>2. (l.capacity - v.count) * Size(l.kind) \in Nat
      BY <1>1, <3>1
    <3>. QED
      BY <3>2, ZerosType
  <2>. QED
    BY <1>4, <2>1, <2>2
<1>. QED
  BY <1>1, <1>5, <1>6, <1>7, <1>8

\* Where the payload lies in them.
LEMMA FixedPayloadAt ==
  ASSUME NEW l \in FixedLayout, NEW v \in FieldValue, IsFieldValue(l, v), ~OverCapacity(l, v),
         IsTail(l) => v.count # 0, IsOption(l) => v.count # 0
  PROVE  /\ PayloadShift(l) \in Nat /\ v.data \in Seq(Byte) /\ v.count \in Nat
         /\ Len(v.data) = v.count * Size(l.kind)
         /\ PayloadShift(l) + Len(v.data) <= Len(FieldBytes(l, v))
         /\ \A k \in 1 .. Len(v.data) : FieldBytes(l, v)[PayloadShift(l) + k] = v.data[k]
         /\ IsVec(l) => \A k \in 1 .. l.width : FieldBytes(l, v)[k] = LenHeader(v.count, l.width)[k]
<1>. DEFINE bytes == FieldBytes(l, v)
            data == v.data
            shift == PayloadShift(l)
<1>1. shift \in Nat /\ data \in Seq(Byte) /\ v.count \in Nat /\ Len(data) = v.count * Size(l.kind)
  BY SlotTypes DEF FieldValue, IsFieldValue
<1>2. PICK head \in Seq(Byte), fill \in Seq(Byte) :
        /\ bytes = (head \o data) \o fill /\ Len(head) = shift
        /\ IsVec(l) => head = LenHeader(v.count, l.width)
  BY FixedFieldParts
<1>3. /\ Len(bytes) = shift + Len(data) + Len(fill) /\ Len(fill) \in Nat /\ Len(data) \in Nat
      /\ \A k \in 1 .. Len(data) : bytes[shift + k] = data[k]
      /\ \A k \in 1 .. shift : bytes[k] = head[k]
  <2>. HIDE DEF bytes, data, shift
  <2>1. head \o data \in Seq(Byte) /\ Len(head \o data) = shift + Len(data)
    BY <1>1, <1>2, ConcatProperties
  <2>2. PICK x \in Seq(Byte) : x = head \o data
    BY <2>1
  <2>3. /\ Len(bytes) = Len(x) + Len(fill) /\ Len(fill) \in Nat /\ Len(data) \in Nat
        /\ \A k \in 1 .. Len(x) : bytes[k] = x[k]
    BY ONLY <1>1, <1>2, <2>2, data \in Seq(Byte), fill \in Seq(Byte)
  <2>4. /\ \A k \in 1 .. shift : x[k] = head[k]
        /\ \A k \in 1 .. Len(data) : x[shift + k] = data[k]
    <3>1. ASSUME NEW s \in Seq(Byte), NEW t \in Seq(Byte)
          PROVE  /\ \A k \in 1 .. Len(s) : (s \o t)[k] = s[k]
                 /\ \A k \in 1 .. Len(t) : (s \o t)[Len(s) + k] = t[k]
      BY ONLY <3>1
    <3>2. data \in Seq(Byte) /\ Len(head) = shift
      BY <1>1, <1>2
    <3>3. /\ \A k \in 1 .. Len(head) : (head \o data)[k] = head[k]
          /\ \A k \in 1 .. Len(data) : (head \o data)[Len(head) + k] = data[k]
      BY <3>1, <3>2
    <3>. QED
      BY ONLY <2>2, <3>2, <3>3
  <2>5. shift \in Nat /\ Len(x) = shift + Len(data)
    BY ONLY <1>1, <2>1, <2>2
  <2>6. ASSUME NEW k \in 1 .. Len(data) PROVE bytes[shift + k] = data[k]
    <3>1. shift + k \in 1 .. Len(x)
      BY ONLY <2>3, <2>5
    <3>. QED
      BY <2>3, <2>4, <3>1
  <2>7. ASSUME NEW k \in 1 .. shift PROVE bytes[k] = head[k]
    <3>1. k \in 1 .. Len(x)
      BY ONLY <2>3, <2>5
    <3>. QED
      BY <2>3, <2>4, <3>1
  <2>8. Len(bytes) = shift + Len(data) + Len(fill)
    BY <2>3, <2>5
  <2>. QED
    BY <2>3, <2>6, <2>7, <2>8
<1>4. IsVec(l) => shift = l.width
  BY DEF PayloadShift, IsVec, IsOption
<1>. HIDE DEF bytes, data, shift
<1>5. shift + Len(data) <= Len(bytes)
  BY <1>1, <1>3
<1>. QED
  BY <1>1, <1>2, <1>3, <1>4, <1>5 DEF bytes, data, shift

\* A field of the last encoding, in the buffer.
LEMMA FixedOwnField ==
  ASSUME ExpandedInv, FixedCodecInv, FixedOwnInv, wrote # NoEncoding, NEW i \in 1 .. FieldCount
  PROVE  LET l == layouts[i]
             v == wrote.val[i]
             bytes == FieldBytes(l, v)
         IN /\ phase = "emitted" /\ l \in FixedLayout /\ v \in FieldValue
            /\ IsFieldValue(l, v) /\ ~OverCapacity(l, v)
            /\ wrote.lo \in Nat /\ placed[i] \in Nat /\ wrote.lo + placed[i] \in Nat
            /\ \A k \in 1 .. Len(bytes) : mem[wrote.lo + placed[i] + k - 1] = bytes[k]
            /\ EncodedFieldLen(l, v.count) = Len(bytes) /\ Len(bytes) \in Nat
            /\ placed[i] + Len(bytes) <= EncodeBufLen(wrote.val)
            /\ EncodeBufLen(wrote.val) \in Nat /\ wrote.hi = wrote.lo + EncodeBufLen(wrote.val)
<1>. DEFINE l == layouts[i]
            v == wrote.val[i]
            bytes == FieldBytes(l, v)
            a == wrote.lo + placed[i]
            e == wrote.lo + Reached(wrote.val, i + 1)
            n == EncodedFieldLen(l, v.count)
<1>1. phase = "emitted"
  BY DEF FixedCodecInv, FixedCallInv
<1>2. /\ IsStruct(wrote.val) /\ ~OverCapacity(l, v) /\ wrote.lo \in Nat
      /\ wrote.hi = wrote.lo + EncodeBufLen(wrote.val) /\ wrote.val \in Seq(FieldValue)
  BY DEF FixedOwnInv, FixedCodecInv, FixedCodecTypeOK
<1>3. l \in FixedLayout /\ placed[i] \in Nat
  BY <1>1, EmittedField
<1>4. /\ v \in FieldValue /\ n \in Nat /\ EncodeBufLen(wrote.val) \in Nat
      /\ Reached(wrote.val, i + 1) = placed[i] + n
      /\ Reached(wrote.val, i + 1) <= EncodeBufLen(wrote.val)
  BY <1>1, <1>2, FieldReach
<1>5. IsFieldValue(l, v)
  BY <1>2 DEF IsStruct
<1>6. bytes \in Seq(Byte) /\ Len(bytes) = n
  BY <1>2, <1>3, <1>4, <1>5, FixedFieldBytes
<1>7. Bytes(mem, a, e) = bytes
  BY DEF FixedCodecInv, FixedWroteInv
<1>. HIDE DEF bytes, n
<1>8. a \in Nat /\ e - a = n
  BY <1>2, <1>3, <1>4
<1>9. \A k \in 1 .. n : mem[a + k - 1] = bytes[k]
  <2>1. Bytes(mem, a, e) = [k \in 1 .. n |-> mem[a + k - 1]]
    BY <1>8 DEF Bytes
  <2>. HIDE DEF a, e
  <2>. QED
    BY <1>7, <2>1
<1>10. placed[i] + Len(bytes) <= EncodeBufLen(wrote.val)
  BY <1>4, <1>6
<1>. QED
  BY <1>1, <1>2, <1>3, <1>4, <1>5, <1>6, <1>8, <1>9, <1>10 DEF bytes, n

\* A value that can be decoded: its trailing field is there and announced.
LEMMA TailReadableField ==
  ASSUME ExpandedInv, phase = "emitted", NEW v, TailReadable(v), NEW i \in 1 .. FieldCount,
         IsTail(layouts[i])
  PROVE  /\ i = FieldCount /\ HasTail /\ v[i].count > 0
         /\ IsVec(layouts[i]) => v[i].count <= HeaderMax(layouts[i].width)
<1>1. i = FieldCount /\ FieldCount \in Nat /\ FieldCount > 0
  BY EmittedField, FixedEmitted
<1>2. HasTail
  BY <1>1 DEF HasTail
<1>. QED
  BY <1>1, <1>2 DEF TailReadable, TailLayout

\* A header of one or two bytes is read as the count it was written with.
LEMMA FixedHeaderReads ==
  ASSUME NEW m, NEW a \in Nat, NEW width \in 1 .. MaxFlexWidth, NEW n \in Nat, n <= HeaderMax(width),
         \A k \in 1 .. width : m[a + k - 1] = LenHeader(n, width)[k]
  PROVE  ReadLenHeader(m, a, width) = n
<1>1. width \in 0 .. MaxLenWidth
  BY DEF MaxFlexWidth, MaxLenWidth
<1>a. width \in {1, 2}
  BY DEF MaxFlexWidth
<1>2. \E p : /\ p[0] = 1 /\ \A k \in 1 .. width : p[k - 1] \in Nat /\ p[k] = Radix * p[k - 1]
             /\ n < p[width]
  <2>. DEFINE powers == [k \in 0 .. 2 |-> IF k = 0 THEN 1 ELSE IF k = 1 THEN Radix ELSE Radix * Radix]
  <2>1. powers[0] = 1 /\ powers[1] = Radix /\ powers[2] = Radix * Radix
    OBVIOUS
  <2>2. Radix \in Nat /\ Radix * Radix \in Nat /\ Radix * 1 = Radix /\ 2 - 1 = 1 /\ 1 - 1 = 0
    BY RadixAssumption
  <2>. HIDE DEF powers
  <2>3. n < powers[width]
    <3>1. CASE width = 1
      BY <2>1, <2>2, <3>1 DEF HeaderMax
    <3>2. CASE width = 2
      BY <2>1, <2>2, <3>2 DEF HeaderMax
    <3>. QED
      BY <1>a, <3>1, <3>2
  <2>4. \A k \in 1 .. width : k \in {1, 2}
    BY <1>a
  <2>5. \A k \in 1 .. width : powers[k - 1] \in Nat /\ powers[k] = Radix * powers[k - 1]
    BY <2>1, <2>2, <2>4
  <2>. QED
    BY <2>1, <2>3, <2>5
<1>3. PICK p : /\ p[0] = 1 /\ \A k \in 1 .. width : p[k - 1] \in Nat /\ p[k] = Radix * p[k - 1]
               /\ n < p[width]
  BY <1>2
<1>4. \A k \in 1 .. width : m[a + k - 1] = LenHeader(n, width)[k]
  OBVIOUS
<1>. QED
  BY ONLY <1>1, <1>3, <1>4, a \in Nat, n \in Nat, HeaderReads

\* Its tags and headers are read as what they announce.
LEMMA FixedOwnCount ==
  ASSUME ExpandedInv, FixedCodecInv, FixedOwnInv, wrote # NoEncoding, TailReadable(wrote.val),
         slice.lo = wrote.lo, NEW i \in 1 .. FieldCount
  PROVE  LET l == layouts[i]
             v == wrote.val[i]
         IN /\ CountAt(l, placed[i]) = v.count
            /\ IsOption(l) => ByteAt(placed[i]) \in {0, 1}
            /\ IsVec(l) => HeaderAt(placed[i], l.width) <= l.capacity
            /\ l.shape # "plain" => PayloadShift(l) <= Len(FieldBytes(l, v))
<1>. DEFINE l == layouts[i]
            v == wrote.val[i]
            bytes == FieldBytes(l, v)
            a == wrote.lo + placed[i]
<1>1. /\ phase = "emitted" /\ l \in FixedLayout /\ v \in FieldValue
      /\ IsFieldValue(l, v) /\ ~OverCapacity(l, v) /\ a \in Nat
      /\ \A k \in 1 .. Len(bytes) : mem[a + k - 1] = bytes[k]
      /\ Len(bytes) \in Nat /\ EncodedFieldLen(l, v.count) = Len(bytes)
  BY FixedOwnField
<1>2. /\ IsTail(l) => v.count > 0 /\ (IsVec(l) => v.count <= HeaderMax(l.width))
  BY <1>1, TailReadableField
<1>3. /\ l.shape \in {"plain", "option", "tail_option", "vec", "tail_vec"} /\ v.count \in Nat
      /\ l.capacity \in Nat /\ Size(l.kind) \in Nat
  BY <1>1, KindTypes DEF FixedLayout, FieldValue
<1>4. CASE l.shape = "plain"
  BY <1>1, <1>4 DEF CountAt, IsOption, IsVec, IsFieldValue
<1>5. CASE l.shape \in {"option", "tail_option"}
  <2>1. v.count \in {0, 1} /\ IsOption(l) /\ ~IsVec(l) /\ PayloadShift(l) = 1 /\ l.shape # "plain"
    BY <1>1, <1>5 DEF IsFieldValue, IsOption, IsVec, PayloadShift
  <2>2. Len(bytes) >= 1 /\ bytes[1] = v.count
    <3>1. CASE v.count = 1
      <4>1. bytes = << 1 >> \o v.data /\ v.data \in Seq(Byte)
        BY <1>1, <1>5, <3>1 DEF FieldBytes, FieldValue
      <4>2. (<< 1 >> \o v.data)[1] = 1 /\ Len(<< 1 >> \o v.data) >= 1
        BY <4>1
      <4>. QED
        BY <3>1, <4>1, <4>2
    <3>2. CASE v.count = 0
      <4>1. l.shape = "option"
        BY <1>2, <1>5, <3>2 DEF IsTail
      <4>2. bytes = Zeros(1 + Size(l.kind))
        BY <3>2, <4>1 DEF FieldBytes
      <4>3. PICK n \in Nat : n = 1 + Size(l.kind) /\ n >= 1
        BY <1>3
      <4>4. Zeros(n)[1] = 0 /\ Len(Zeros(n)) = n
        BY <4>3, ZerosType DEF Zeros
      <4>. QED
        BY <3>2, <4>2, <4>3, <4>4
    <3>. QED
      BY <2>1, <3>1, <3>2
  <2>3. ByteAt(placed[i]) = v.count
    <3>. HIDE DEF bytes, v
    <3>1. mem[a + 1 - 1] = bytes[1] /\ a + 1 - 1 = a
      BY <1>1, <2>2
    <3>. QED
      BY <2>2, <3>1 DEF ByteAt
  <2>4. CountAt(l, placed[i]) = v.count
    BY <1>5, <2>1, <2>3 DEF CountAt
  <2>. QED
    BY <2>1, <2>2, <2>3, <2>4
<1>6. CASE IsVec(l)
  <2>1. /\ l.shape \in {"vec", "tail_vec"} /\ ~IsOption(l) /\ PayloadShift(l) = l.width
        /\ v.count <= l.capacity
    BY <1>1, <1>3, <1>6 DEF IsVec, IsOption, PayloadShift, OverCapacity
  <2>2. l.width \in 1 .. 2 /\ v.count <= HeaderMax(l.width) /\ HeaderMax(l.width) \in Nat
    <3>1. /\ l.width \in 1 .. MaxFlexWidth
          /\ l.shape = "vec" => l.capacity <= HeaderMax(l.width)
      BY <1>6 DEF ExpandedInv, ShapesInv, FieldCount
    <3>2. HeaderMax(l.width) \in Nat
      <4>1. Radix * Radix \in Nat /\ Radix * Radix >= 1 /\ Radix \in Nat /\ Radix >= 1
        BY RadixAssumption
      <4>. QED
        BY <4>1 DEF HeaderMax
    <3>3. CASE l.shape = "vec"
      <4>. HIDE DEF l, v
      <4>. QED
        BY <1>3, <2>1, <3>1, <3>2, <3>3 DEF MaxFlexWidth
    <3>4. CASE l.shape = "tail_vec"
      <4>1. v.count <= HeaderMax(l.width)
        BY <1>2, <1>6, <3>4 DEF IsTail
      <4>. QED
        BY <3>1, <3>2, <4>1 DEF MaxFlexWidth
    <3>. QED
      BY <2>1, <3>3, <3>4
  <2>3. /\ l.width <= Len(bytes)
        /\ \A k \in 1 .. l.width : bytes[k] = LenHeader(v.count, l.width)[k]
    <3>1. (IsTail(l) => v.count # 0) /\ (IsOption(l) => v.count # 0)
      BY <1>2, <1>3, <2>1
    <3>2. /\ PayloadShift(l) + Len(v.data) <= Len(bytes) /\ v.data \in Seq(Byte)
          /\ \A k \in 1 .. l.width : bytes[k] = LenHeader(v.count, l.width)[k]
      BY <1>1, <1>6, <3>1, FixedPayloadAt
    <3>3. Len(v.data) \in Nat
      BY <3>2
    <3>. HIDE DEF bytes, v, l
    <3>. QED
      BY <1>1, <2>1, <2>2, <3>2, <3>3
  <2>4. HeaderAt(placed[i], l.width) = v.count
    <3>1. \A k \in 1 .. l.width : mem[a + k - 1] = LenHeader(v.count, l.width)[k]
      <4>1. \A k \in 1 .. l.width : k \in 1 .. Len(bytes)
        BY <1>1, <2>2, <2>3
      <4>. HIDE DEF bytes, a, v, l
      <4>. QED
        BY <1>1, <2>3, <4>1
    <3>2. l.width \in 1 .. MaxFlexWidth
      BY <2>2 DEF MaxFlexWidth
    <3>. HIDE DEF a, v, l
    <3>3. /\ a \in Nat /\ v.count \in Nat /\ l.width \in 1 .. MaxFlexWidth
          /\ v.count <= HeaderMax(l.width)
          /\ \A k \in 1 .. l.width : mem[a + k - 1] = LenHeader(v.count, l.width)[k]
      BY ONLY <1>1, <1>3, <2>2, <3>1, <3>2
    <3>4. ReadLenHeader(mem, a, l.width) = v.count
      BY ONLY <3>3, FixedHeaderReads
    <3>. QED
      BY <3>4 DEF HeaderAt, a
  <2>5. CountAt(l, placed[i]) = v.count
    BY <1>6, <2>1, <2>4 DEF CountAt
  <2>. QED
    BY <2>1, <2>3, <2>4, <2>5
<1>. QED
  BY <1>3, <1>4, <1>5, <1>6 DEF IsVec

\* Its fields pass validation.
LEMMA FixedOwnValid ==
  ASSUME ExpandedInv, FixedCodecInv, FixedOwnInv, wrote # NoEncoding, TailReadable(wrote.val),
         slice.lo = wrote.lo, slice.hi = wrote.hi, NEW i \in 1 .. FieldCount
  PROVE  Validate(layouts[i], placed[i]) = "ok"
<1>. DEFINE l == layouts[i]
            bytes == FieldBytes(l, wrote.val[i])
<1>1. /\ IsOption(l) => ByteAt(placed[i]) \in {0, 1}
      /\ IsVec(l) => HeaderAt(placed[i], l.width) <= l.capacity
      /\ l.shape # "plain" => PayloadShift(l) <= Len(bytes)
  BY FixedOwnCount
<1>2. /\ l \in FixedLayout /\ wrote.lo \in Nat /\ placed[i] \in Nat /\ Len(bytes) \in Nat
      /\ placed[i] + Len(bytes) <= EncodeBufLen(wrote.val)
      /\ EncodeBufLen(wrote.val) \in Nat /\ wrote.hi = wrote.lo + EncodeBufLen(wrote.val)
  BY FixedOwnField
<1>3. PayloadShift(l) \in Nat
  BY <1>2, SlotTypes
<1>4. l.shape # "plain" => ~(placed[i] + PayloadShift(l) > SliceLen)
  <2>. DEFINE total == EncodeBufLen(wrote.val)
  <2>1. SliceLen = total
    BY <1>2 DEF SliceLen
  <2>. HIDE DEF total, l, bytes
  <2>. QED
    BY <1>1, <1>2, <1>3, <2>1 DEF total
<1>5. l.shape # "plain" => IsOption(l) \/ IsVec(l)
  BY <1>2 DEF FixedLayout, IsOption, IsVec
<1>. QED
  BY <1>1, <1>4, <1>5 DEF Validate

\* The length of such an encoding is one that decode lets through.
LEMMA FixedOwnLength ==
  ASSUME ExpandedInv, FixedCodecInv, FixedOwnInv, wrote # NoEncoding, TailReadable(wrote.val)
  PROVE  wrote.hi - wrote.lo \in MinLen .. MaxLen
<1>. DEFINE i == FieldCount
            tail == layouts[i]
            n == wrote.val[i].count
            size == Size(tail.kind)
<1>1. phase = "emitted" /\ FieldCount \in Nat \ {0} /\ DataLen \in Nat /\ MinLen = DataLen
      /\ (HasTail <=> IsTail(tail))
  <2>1. phase = "emitted"
    BY DEF FixedCodecInv, FixedCallInv
  <2>. QED
    BY <2>1, FixedEmitted
<1>2. i \in 1 .. FieldCount
  BY <1>1
<1>3. /\ tail \in FixedLayout /\ wrote.val[i] \in FieldValue /\ IsFieldValue(tail, wrote.val[i])
      /\ wrote.lo \in Nat /\ EncodeBufLen(wrote.val) \in Nat
      /\ wrote.hi = wrote.lo + EncodeBufLen(wrote.val)
  BY <1>2, FixedOwnField
<1>4. wrote.hi - wrote.lo = EncodeBufLen(wrote.val)
  <2>. DEFINE total == EncodeBufLen(wrote.val)
  <2>1. total \in Nat /\ wrote.hi = wrote.lo + total
    BY <1>3
  <2>. HIDE DEF total
  <2>2. wrote.hi - wrote.lo = total
    BY <1>3, <2>1
  <2>. QED
    BY <2>2 DEF total
<1>5. n \in Nat /\ size \in Nat /\ n * size \in Nat
  <2>1. n \in Nat /\ size \in Nat
    BY <1>3, KindTypes DEF FieldValue, FixedLayout
  <2>. HIDE DEF n, size
  <2>. QED
    BY <2>1
<1>6. CASE ~HasTail
  <2>1. EncodeBufLen(wrote.val) = DataLen
    <3>1. EncodeBufLen(wrote.val) = DataLen + 0
      BY <1>6 DEF EncodeBufLen
    <3>. QED
      BY <1>1, <3>1
  <2>2. MaxLen = MinLen
    BY <1>6 DEF MaxLen, MinLen
  <2>. QED
    BY <1>1, <1>4, <2>1, <2>2
<1>7. CASE HasTail
  <2>1. n > 0 /\ (IsVec(tail) => n <= HeaderMax(tail.width))
    BY <1>1, <1>2, <1>7, TailReadableField
  <2>2. /\ EncodeBufLen(wrote.val) = DataLen + (PayloadShift(tail) + n * size)
        /\ MaxLen = DataLen + TailMaxLen(tail)
    BY <1>5, <1>7, <2>1 DEF EncodeBufLen, MaxLen
  <2>3. /\ PayloadShift(tail) + n * size \in Nat /\ TailMaxLen(tail) \in Nat
        /\ PayloadShift(tail) + n * size <= TailMaxLen(tail)
    <3>1. CASE tail.shape = "tail_option"
      <4>1. n \in {0, 1} /\ PayloadShift(tail) = 1 /\ TailMaxLen(tail) = 1 + size
        BY <1>3, <3>1 DEF IsFieldValue, IsVec, IsOption, PayloadShift, TailMaxLen
      <4>2. n = 1
        BY <2>1, <4>1
      <4>. HIDE DEF n, size
      <4>. QED
        BY <1>5, <4>1, <4>2
    <3>2. CASE tail.shape = "tail_vec"
      <4>1. /\ PayloadShift(tail) = tail.width /\ tail.width \in Nat
            /\ TailMaxLen(tail) = tail.width + HeaderMax(tail.width) * size
            /\ n <= HeaderMax(tail.width)
        BY <1>3, <2>1, <3>2 DEF IsVec, IsOption, PayloadShift, TailMaxLen, FixedLayout, MaxFlexWidth
      <4>2. PICK max \in Nat : max = HeaderMax(tail.width)
        <5>1. Radix * Radix \in Nat /\ Radix * Radix >= 1 /\ Radix \in Nat /\ Radix >= 1
          BY RadixAssumption
        <5>2. HeaderMax(tail.width) \in Nat
          BY <5>1 DEF HeaderMax
        <5>. QED
          BY <5>2
      <4>. HIDE DEF n, size, tail
      <4>3. PICK rest \in Nat : max = n + rest
        <5>1. max - n \in Nat /\ max = n + (max - n)
          BY <1>5, <4>1, <4>2
        <5>. QED
          BY <5>1
      <4>4. max * size = n * size + rest * size /\ rest * size \in Nat
        BY ONLY <1>5, <4>3
      <4>. QED
        BY <1>5, <4>1, <4>2, <4>4
    <3>. QED
      BY <1>1, <1>7, <3>1, <3>2 DEF IsTail
  <2>. HIDE DEF n, size, tail
  <2>. QED
    BY <1>1, <1>4, <2>2, <2>3
<1>. QED
  BY <1>6, <1>7

\* What a getter returns that finds `c` values and their bytes `data`.
LEMMA GetterShows ==
  ASSUME NEW l \in FixedLayout, NEW o \in Nat, NEW c \in Nat, NEW data \in Seq(Byte),
         slice.lo \in Nat, SliceLen \in Nat, CountAt(l, o) = c, Len(data) = c * Size(l.kind),
         o + PayloadShift(l) <= SliceLen, Typed(l, data) = data,
         \/ c = 0 /\ IsOption(l)
         \/ /\ o + PayloadShift(l) + Len(data) <= SliceLen
            /\ CastAligned(l, o + PayloadShift(l))
            /\ \A k \in 1 .. Len(data) : mem[slice.lo + (o + PayloadShift(l)) + k - 1] = data[k]
  PROVE  GetOutcome(l, o) = [res |-> "ok", count |-> c, data |-> data]
<1>1. PICK p \in Nat, n \in Nat, size \in Nat :
        p = o + PayloadShift(l) /\ n = Len(data) /\ size = Size(l.kind) /\ n = c * size
  <2>1. PayloadShift(l) \in Nat /\ Size(l.kind) \in Nat /\ Len(data) \in Nat
    BY SlotTypes, KindTypes DEF FixedLayout
  <2>. QED
    BY <2>1
<1>2. ~(p > SliceLen)
  BY <1>1
<1>3. CASE c = 0 /\ IsOption(l)
  <2>1. n = 0
    BY <1>1, <1>3
  <2>2. data = << >>
    BY <1>1, <2>1
  <2>. QED
    BY <1>1, <1>2, <1>3, <2>2 DEF GetOutcome
<1>4. CASE ~(c = 0 /\ IsOption(l))
  <2>1. /\ p + n <= SliceLen /\ CastAligned(l, p)
        /\ \A k \in 1 .. n : mem[slice.lo + p + k - 1] = data[k]
    BY <1>1, <1>4
  <2>2. ReadRange(l, o, c) = [lo |-> p, hi |-> p + n]
    BY <1>1 DEF ReadRange
  <2>3. Bytes(mem, slice.lo + p, slice.lo + (p + n)) = data
    <3>1. slice.lo + (p + n) - (slice.lo + p) = n
      OBVIOUS
    <3>2. Bytes(mem, slice.lo + p, slice.lo + (p + n)) = [k \in 1 .. n |-> mem[slice.lo + p + k - 1]]
      BY <3>1 DEF Bytes
    <3>3. data = [k \in 1 .. n |-> data[k]]
      BY <1>1
    <3>. QED
      BY <2>1, <3>2, <3>3
  <2>. DEFINE range == ReadRange(l, o, c)
  <2>4. range.lo = p /\ range.hi = p + n
    BY <2>2
  <2>5. ~(range.hi > SliceLen \/ ~CastAligned(l, range.lo))
    BY <2>1, <2>4
  <2>6. GetOutcome(l, o) =
          [res |-> "ok", count |-> c,
           data |-> Typed(l, Bytes(mem, slice.lo + range.lo, slice.lo + range.hi))]
    <3>1. ~(o + PayloadShift(l) > SliceLen)
      BY <1>1, <1>2
    <3>. QED
      BY <1>4, <2>5, <3>1 DEF GetOutcome
  <2>. HIDE DEF range
  <2>. QED
    BY <2>3, <2>4, <2>6
<1>. QED
  BY <1>3, <1>4

\* A `bool` is encoded as the byte it is read as.
LEMMA OwnTyped ==
  ASSUME ExpandedInv, phase = "emitted", NEW i \in 1 .. FieldCount, NEW v \in FieldValue,
         IsFieldValue(layouts[i], v)
  PROVE  Typed(layouts[i], v.data) = v.data
<1>1. CASE layouts[i].kind.name # "bool"
  BY <1>1 DEF Typed
<1>2. CASE layouts[i].kind.name = "bool"
  <2>1. ~IsVec(layouts[i])
    BY <1>2 DEF ExpandedInv, ShapesInv, FieldCount
  <2>2. v.count \in {0, 1} /\ Size(layouts[i].kind) = 1
    BY <1>2, <2>1 DEF IsFieldValue, Size
  <2>3. PICK d \in Seq(Byte) : d = v.data
    BY DEF FieldValue
  <2>4. Len(d) = v.count /\ (v.count = 1 => d[1] \in {0, 1})
    <3>1. Len(v.data) = v.count * Size(layouts[i].kind)
      BY DEF IsFieldValue
    <3>2. v.count = 1 => v.data[1] \in {0, 1}
      BY <1>2 DEF IsFieldValue
    <3>3. Len(d) = v.count * 1
      BY <2>2, <2>3, <3>1
    <3>. QED
      BY <2>2, <2>3, <3>2, <3>3
  <2>5. DOMAIN d = 1 .. Len(d) /\ \A k \in 1 .. Len(d) : d[k] \in {0, 1}
    BY <2>2, <2>4
  <2>6. [k \in DOMAIN d |-> IF d[k] = 0 THEN 0 ELSE 1] = d
    BY <2>5
  <2>. QED
    BY <1>2, <2>3, <2>6 DEF Typed
<1>. QED
  BY <1>1, <1>2

\* A getter of a view of it shows what was encoded.
LEMMA FixedReadsStored ==
  ASSUME ExpandedInv, FixedCodecInv, FixedOwnInv, wrote # NoEncoding, TailReadable(wrote.val),
         slice.lo = wrote.lo, slice.hi = wrote.hi, wrote.lo % BaseAlign = 0, NEW i \in 1 .. FieldCount
  PROVE  GetOutcome(layouts[i], placed[i])
           = [res |-> "ok", count |-> wrote.val[i].count, data |-> wrote.val[i].data]
<1>. DEFINE l == layouts[i]
            v == wrote.val[i]
            o == placed[i]
            bytes == FieldBytes(l, v)
<1>1. /\ phase = "emitted" /\ l \in FixedLayout /\ v \in FieldValue
      /\ IsFieldValue(l, v) /\ ~OverCapacity(l, v)
      /\ wrote.lo \in Nat /\ o \in Nat /\ wrote.lo + o \in Nat
      /\ \A k \in 1 .. Len(bytes) : mem[wrote.lo + o + k - 1] = bytes[k]
      /\ Len(bytes) \in Nat
      /\ o + Len(bytes) <= EncodeBufLen(wrote.val)
      /\ EncodeBufLen(wrote.val) \in Nat /\ wrote.hi = wrote.lo + EncodeBufLen(wrote.val)
  BY FixedOwnField
<1>2. CountAt(l, o) = v.count /\ (l.shape # "plain" => PayloadShift(l) <= Len(bytes))
  BY FixedOwnCount
<1>3. /\ v.count \in Nat /\ v.data \in Seq(Byte) /\ Len(v.data) = v.count * Size(l.kind)
      /\ l.shape \in {"plain", "option", "tail_option", "vec", "tail_vec"}
  BY <1>1 DEF FieldValue, IsFieldValue, FixedLayout
<1>4. PICK shift \in Nat : shift = PayloadShift(l)
  BY <1>1, SlotTypes
<1>5. SliceLen = EncodeBufLen(wrote.val) /\ SliceLen \in Nat
  <2>1. PICK total \in Nat : total = EncodeBufLen(wrote.val)
    BY <1>1
  <2>2. wrote.hi - wrote.lo = total
    BY <1>1, <2>1
  <2>. QED
    BY <2>1, <2>2 DEF SliceLen
<1>6. o + PayloadShift(l) <= SliceLen
  <2>1. l.shape = "plain" => shift = 0
    BY <1>4 DEF PayloadShift, IsOption, IsVec
  <2>2. shift <= Len(bytes)
    BY <1>1, <1>2, <1>4, <2>1
  <2>. HIDE DEF bytes, l
  <2>3. o + shift <= SliceLen
    BY <1>1, <1>5, <2>2
  <2>. QED
    BY <1>4, <2>3
<1>7. Typed(l, v.data) = v.data
  BY <1>1, OwnTyped
<1>8. \/ v.count = 0 /\ IsOption(l)
      \/ /\ o + PayloadShift(l) + Len(v.data) <= SliceLen
         /\ CastAligned(l, o + PayloadShift(l))
         /\ \A k \in 1 .. Len(v.data) : mem[slice.lo + (o + PayloadShift(l)) + k - 1] = v.data[k]
  <2>. SUFFICES ASSUME ~(v.count = 0 /\ IsOption(l))
                PROVE  /\ o + shift + Len(v.data) <= SliceLen
                       /\ CastAligned(l, o + shift)
                       /\ \A k \in 1 .. Len(v.data) : mem[slice.lo + (o + shift) + k - 1] = v.data[k]
    BY <1>4
  <2>1. (IsTail(l) => v.count # 0) /\ (IsOption(l) => v.count # 0)
    <3>1. IsTail(l) => v.count > 0
      BY <1>1, TailReadableField
    <3>. QED
      BY <1>3, <3>1
  <2>2. PICK n \in Nat :
          /\ n = Len(v.data) /\ shift + n <= Len(bytes)
          /\ \A k \in 1 .. n : bytes[shift + k] = v.data[k]
    <3>1. /\ PayloadShift(l) + Len(v.data) <= Len(bytes)
          /\ \A k \in 1 .. Len(v.data) : bytes[PayloadShift(l) + k] = v.data[k]
      BY <1>1, <2>1, FixedPayloadAt
    <3>2. Len(v.data) \in Nat
      BY <1>3
    <3>. QED
      BY <1>4, <3>1, <3>2
  <2>3. o + shift + n <= SliceLen
    <3>1. o \in Nat /\ o + Len(bytes) <= SliceLen /\ Len(bytes) \in Nat /\ SliceLen \in Nat
      BY <1>1, <1>5
    <3>2. shift + n <= Len(bytes)
      BY <2>2
    <3>. HIDE DEF bytes, o
    <3>. QED
      BY ONLY <3>1, <3>2, shift \in Nat, n \in Nat
  <2>4. CastAligned(l, o + shift)
    <3>1. PICK x \in Nat : x = o + shift
      <4>. HIDE DEF o
      <4>1. o \in Nat /\ shift \in Nat
        BY <1>1
      <4>. QED
        BY ONLY <4>1
    <3>2. Borrows(l) => \A base \in {0, BaseAlign} : (base + x) % Align(l.kind) = 0
      <4>1. ~Misaligned(l, o)
        BY <1>1, EmittedField
      <4>2. Borrows(l) => \A base \in {0, BaseAlign} : (base + o + shift) % Align(l.kind) = 0
        BY <1>4, <4>1 DEF Misaligned
      <4>3. \A base \in {0, BaseAlign} : base + o + shift = base + x
        <5>1. BaseAlign \in Nat
          BY FixedBaseAlignAssumption
        <5>. HIDE DEF o
        <5>. QED
          BY <1>1, <3>1, <5>1
      <4>. HIDE DEF l, o
      <4>. QED
        BY <4>2, <4>3
    <3>3. Borrows(l) => (wrote.lo + x) % Align(l.kind) = 0
      BY <1>1, <3>2, SlotTypes, AddressAligned
    <3>. QED
      BY <3>1, <3>3 DEF CastAligned
  <2>5. ASSUME NEW k \in 1 .. n PROVE mem[slice.lo + (o + shift) + k - 1] = v.data[k]
    <3>1. shift + k \in 1 .. Len(bytes)
      <4>. HIDE DEF bytes, v
      <4>. QED
        BY <1>1, <2>2
    <3>2. mem[wrote.lo + o + (shift + k) - 1] = bytes[shift + k]
      BY <1>1, <3>1
    <3>3. wrote.lo + o + (shift + k) - 1 = slice.lo + (o + shift) + k - 1
      <4>. HIDE DEF o
      <4>. QED
        BY <1>1
    <3>. HIDE DEF o, bytes, v
    <3>. QED
      BY <2>2, <3>2, <3>3
  <2>. QED
    BY <2>2, <2>3, <2>4, <2>5
<1>9. slice.lo \in Nat
  BY <1>1
<1>. HIDE DEF l, v, o
<1>10. GetOutcome(l, o) = [res |-> "ok", count |-> v.count, data |-> v.data]
  BY <1>1, <1>2, <1>3, <1>5, <1>6, <1>7, <1>8, <1>9, GetterShows
<1>. QED
  BY <1>10 DEF l, v, o

-----------------------------------------------------------------------------
(* Each step of the code is a step of the contract, or none.               *)

FSound == ExpandedInv /\ FixedCodecInv /\ FixedOwnInv

\* The stored value and the running call, as the contract sees them.
StoredNow == IF Readable THEN wrote.val ELSE << >>
BusyNow == pc \notin {"idle", "panic"}

\* What is stored is a value that has fields, and it lies in front of its end.
LEMMA FixedStoredValue ==
  ASSUME FSound, Readable
  PROVE  /\ wrote.val # << >> /\ DOMAIN wrote.val = 1 .. FieldCount /\ phase = "emitted"
         /\ LenAccepted([lo |-> wrote.lo, hi |-> wrote.hi]) /\ wrote.hi # -1
<1>1. wrote # NoEncoding /\ TailReadable(wrote.val) /\ phase = "emitted" /\ FieldCount \in Nat \ {0}
  <2>1. wrote # NoEncoding /\ TailReadable(wrote.val)
    BY DEF Readable
  <2>2. phase = "emitted"
    BY <2>1 DEF FSound, FixedCodecInv, FixedCallInv
  <2>. QED
    BY <2>1, <2>2, FixedEmitted DEF FSound
<1>2. wrote.hi - wrote.lo \in MinLen .. MaxLen
  BY <1>1, FixedOwnLength DEF FSound
<1>3. /\ IsStruct(wrote.val) /\ wrote.val \in Seq(FieldValue)
      /\ wrote.lo \in Nat /\ wrote.hi = wrote.lo + EncodeBufLen(wrote.val)
      /\ EncodeBufLen(wrote.val) \in Nat
  <2>1. 1 \in 1 .. FieldCount
    BY <1>1
  <2>. QED
    BY <1>1, <2>1, FixedOwnField DEF FSound, FixedOwnInv, FixedCodecInv, FixedCodecTypeOK
<1>4. DOMAIN wrote.val = 1 .. FieldCount /\ wrote.val # << >>
  BY <1>1, <1>3 DEF IsStruct
<1>5. wrote.hi # -1
  BY <1>3
<1>. QED
  BY <1>1, <1>2, <1>4, <1>5 DEF LenAccepted

LEMMA FixedNoView ==
  ASSUME FSound, view = NoView
  PROVE  ~ViewOfStored
<1>1. ASSUME ViewOfStored PROVE FALSE
  <2>1. Readable /\ wrote.hi = -1
    BY <1>1 DEF ViewOfStored, NoView
  <2>. QED
    BY <2>1, FixedStoredValue
<1>. QED
  BY <1>1

LEMMA FixedCallSeen ==
  /\ op = "none" => LastCall = Called("none", << >>, 0)
  /\ op \in {"encode", "encode_to"} => LastCall = Called("encode", val, 0)
  /\ op = "decode" => LastCall = Called(IF Readable /\ OfWritten THEN "decode" ELSE "other", << >>, 0)
  /\ op = "get" => LastCall = IF ViewOfStored THEN Called("get", << >>, goal)
                              ELSE Called("other", << >>, 0)
BY DEF LastCall

\* And the one it sees after a step.
LEMMA FixedCallSeenNext ==
  /\ op' = "none" => LastCall' = Called("none", << >>, 0)
  /\ op' \in {"encode", "encode_to"} => LastCall' = Called("encode", val', 0)
  /\ op' = "decode" =>
       LastCall' = Called(IF Readable' /\ OfWritten' THEN "decode" ELSE "other", << >>, 0)
  /\ op' = "get" => LastCall' = IF ViewOfStored' THEN Called("get", << >>, goal')
                                ELSE Called("other", << >>, 0)
BY DEF LastCall, Called

LEMMA FixedNothingShown ==
  /\ op # "get" \/ pc # "idle" => LastShown = [field |-> 0, shown |-> << >>]
  /\ op' # "get" \/ pc' # "idle" => LastShown' = [field |-> 0, shown |-> << >>]
BY DEF LastShown, Returned

\* A step that leaves the last encoding alone leaves what is stored.
LEMMA FixedStoredStays ==
  ASSUME UNCHANGED expandVars, wrote' = wrote
  PROVE  /\ Readable' = Readable /\ StoredNow' = StoredNow
         /\ view' = view => ViewOfStored' = ViewOfStored
<1>1. TailReadable(wrote.val)' = TailReadable(wrote.val)
  BY SameStruct DEF TailReadable, TailLayout
<1>2. Readable' = Readable
  BY <1>1 DEF Readable, NoEncoding
<1>. QED
  BY <1>2 DEF StoredNow, ViewOfStored

\* Between its first and its last step a call keeps what the contract sees.
LEMMA FixedCallGoesOn ==
  ASSUME UNCHANGED expandVars, UNCHANGED << wrote, view, op, val, slice, goal >>
  PROVE  /\ StoredNow' = StoredNow /\ ViewOfStored' = ViewOfStored
         /\ Readable' = Readable /\ OfWritten' = OfWritten /\ LastCall' = LastCall
<1>1. Readable' = Readable /\ ViewOfStored' = ViewOfStored /\ StoredNow' = StoredNow
  BY FixedStoredStays
<1>2. OfWritten' = OfWritten
  BY DEF OfWritten
<1>. QED
  BY <1>1, <1>2 DEF LastCall, Called

LEMMA FixedStepInside ==
  ASSUME UNCHANGED expandVars, BusyNow, BusyNow',
         UNCHANGED << wrote, view, op, val, slice, goal >>
  PROVE  UNCHANGED Contract!contractVars
<1>1. BusyNow' = BusyNow /\ LastShown' = LastShown
  BY FixedNothingShown DEF BusyNow
<1>. QED
  BY <1>1, FixedCallGoesOn DEF Contract!contractVars, StoredNow, BusyNow

\* The last step of a call that leaves the encoding and the view alone, a panic
\* included.
LEMMA FixedCallReturns ==
  ASSUME BusyNow, pc' \in {"idle", "panic"},
         UNCHANGED expandVars, UNCHANGED << wrote, view, op, val, slice, goal >>
  PROVE  /\ ~BusyNow'
         /\ StoredNow' = StoredNow /\ ViewOfStored' = ViewOfStored /\ LastCall' = LastCall
         /\ op # "get" => LastShown' = LastShown
<1>1. ~BusyNow'
  BY DEF BusyNow
<1>. QED
  BY <1>1, FixedCallGoesOn, FixedNothingShown

LEMMA FixedEncodeAsked ==
  ASSUME FixedCodecInv', UNCHANGED expandVars, StartEncodeTo \/ StartEncode
  PROVE  Contract!AskEncode
<1>1. /\ pc = "idle" /\ pc' = "write" /\ op' \in {"encode", "encode_to"} /\ wrote' = NoEncoding
      /\ val' \in Seq(FieldValue)
  BY DEF StartEncodeTo, StartEncode, StartWriting, MayCall, FixedCodecInv, FixedCodecTypeOK
<1>2. LastCall' = Called("encode", val', 0)
  BY <1>1, FixedCallSeenNext
<1>3. LastShown' = [field |-> 0, shown |-> << >>]
  BY <1>1, FixedNothingShown
<1>4. StoredNow' = << >> /\ ViewOfStored' = FALSE
  BY <1>1 DEF StoredNow, ViewOfStored, Readable, NoEncoding
<1>5. Called("encode", val', 0).value = val'
  BY DEF Called
<1>6. ~BusyNow /\ (BusyNow' = TRUE)
  BY <1>1 DEF BusyNow
<1>. QED
  BY <1>1, <1>2, <1>3, <1>4, <1>5, <1>6
  DEF Contract!AskEncode, Contract!Ask, Contract!NoAnswer, Contract!Nothing, Contract!Called,
      Called, StoredNow, BusyNow

LEMMA FixedWriteCounted ==
  ASSUME FSound, UNCHANGED expandVars, WriteField
  PROVE  Contract!NotStored \/ UNCHANGED Contract!contractVars
<1>1. /\ pc = "write" /\ pc' \in {"write", "idle", "panic"} /\ op \in {"encode", "encode_to"}
      /\ UNCHANGED << wrote, view, op, val, slice, goal >> /\ BusyNow
  BY DEF WriteField, Refuse, Fail, Return, Panic, FSound, FixedCodecInv, FixedCallInv, BusyNow
<1>2. CASE pc' = "write"
  <2>1. BusyNow'
    BY <1>2 DEF BusyNow
  <2>. QED
    BY <1>1, <2>1, FixedStepInside
<1>3. CASE pc' \in {"idle", "panic"}
  <2>1. LastCall.name = "encode"
    BY <1>1, FixedCallSeen DEF Called
  <2>. QED
    BY <1>1, <1>3, <2>1, FixedCallReturns
    DEF Contract!NotStored, Contract!Return, StoredNow, BusyNow
<1>. QED
  BY <1>1, <1>2, <1>3

\* What has been written is stored if it can be read back.
LEMMA FixedEncodeReturns ==
  ASSUME FSound, UNCHANGED expandVars, EncodeDone
  PROVE  Contract!Stored \/ Contract!NotStored
<1>1. /\ pc = "write" /\ pc' = "idle" /\ op \in {"encode", "encode_to"}
      /\ view = NoView /\ wrote = NoEncoding
      /\ UNCHANGED << view, op, val, slice, goal >> /\ LastCall = Called("encode", val, 0)
      /\ wrote'.val = val
  BY FixedCallSeen DEF EncodeDone, Return, callVars, FSound, FixedCodecInv, FixedCallInv
<1>2. LastCall' = LastCall
  BY <1>1, FixedCallSeenNext
<1>3. BusyNow /\ ~BusyNow'
  BY <1>1 DEF BusyNow
<1>4. ViewOfStored' = ViewOfStored
  <2>1. ~ViewOfStored
    BY <1>1, FixedNoView
  <2>2. wrote'.hi # -1
    <3>1. /\ 1 \in 1 .. FieldCount /\ IsStruct(val) /\ val \in Seq(FieldValue) /\ slice.lo \in Nat
          /\ phase = "emitted"
      <4>1. phase = "emitted"
        BY <1>1 DEF FSound, FixedCodecInv, FixedCallInv
      <4>. QED
        BY <1>1, <4>1, FixedEmitted, FixedCodecTypes
        DEF FSound, FixedCodecInv, FixedCallInv, FixedCodecTypeOK
    <3>2. EncodeBufLen(val) \in Nat
      BY <3>1, FieldReach DEF FSound
    <3>3. wrote'.hi = slice.lo + EncodeBufLen(val)
      BY DEF EncodeDone
    <3>. QED
      BY <3>1, <3>2, <3>3
  <2>3. ~ViewOfStored'
    BY <1>1, <2>2 DEF ViewOfStored, NoView
  <2>. QED
    BY <2>1, <2>3 DEF ViewOfStored
<1>5. StoredNow' = IF Readable' THEN LastCall.value ELSE << >>
  BY <1>1 DEF StoredNow, Called
<1>6. LastCall.name = "encode"
  BY <1>1 DEF Called
<1>. QED
  BY <1>1, <1>2, <1>3, <1>4, <1>5, <1>6, FixedNothingShown
  DEF Contract!Stored, Contract!NotStored, Contract!Return, Contract!Nothing, StoredNow, BusyNow

\* decode lets the slice of a stored value through.
LEMMA FixedDecodeAsked ==
  ASSUME FSound, UNCHANGED expandVars, StartDecode
  PROVE  Contract!AskDecode \/ Contract!AskOther
<1>1. PICK s \in Slices :
        /\ slice' = s /\ op' = "decode"
        /\ IF LenAccepted(s) /\ s.lo % BaseAlign = 0
           THEN pc' = "validate" /\ UNCHANGED ret
           ELSE pc' = "idle" /\ ret' = [NoReturn EXCEPT !.res = "InvalidInstructionData"]
  BY DEF StartDecode, Fail, Return
<1>2. pc = "idle" /\ view' = NoView /\ wrote' = wrote
  BY DEF StartDecode, MayCall
<1>3. LastCall' = Called(IF Readable' /\ OfWritten' THEN "decode" ELSE "other", << >>, 0)
  BY <1>1, FixedCallSeenNext
<1>4. Readable' = Readable /\ StoredNow' = StoredNow
  BY <1>2, FixedStoredStays
<1>5. ViewOfStored' = FALSE
  <2>1. ASSUME ViewOfStored' PROVE FALSE
    <3>1. Readable /\ wrote.hi = -1
      BY <1>2, <1>4, <2>1 DEF ViewOfStored, NoView
    <3>. QED
      BY <3>1, FixedStoredValue
  <2>. QED
    BY <2>1 DEF ViewOfStored
<1>6. LastShown' = [field |-> 0, shown |-> << >>]
  BY <1>1, FixedNothingShown
<1>7. ~BusyNow
  BY <1>2 DEF BusyNow
<1>8. ASSUME Readable', OfWritten'
      PROVE  (BusyNow' = TRUE) /\ StoredNow # << >>
  <2>1. /\ wrote.val # << >> /\ LenAccepted([lo |-> wrote.lo, hi |-> wrote.hi])
        /\ wrote.lo % BaseAlign = 0
    BY <1>4, <1>8, FixedStoredValue DEF Readable
  <2>2. s = [lo |-> wrote.lo, hi |-> wrote.hi]
    BY <1>1, <1>2, <1>8 DEF OfWritten
  <2>3. LenAccepted(s) /\ s.lo % BaseAlign = 0
    BY <2>1, <2>2
  <2>. QED
    BY <1>1, <1>4, <1>8, <2>1, <2>3 DEF BusyNow, StoredNow
<1>9. CASE Readable' /\ OfWritten'
  BY <1>3, <1>4, <1>5, <1>6, <1>7, <1>8, <1>9
  DEF Contract!AskDecode, Contract!Ask, Contract!NoAnswer, Contract!Nothing, Contract!Called,
      Called, StoredNow, BusyNow
<1>10. CASE ~(Readable' /\ OfWritten')
  BY <1>3, <1>4, <1>5, <1>6, <1>7, <1>10
  DEF Contract!AskOther, Contract!Ask, Contract!NoAnswer, Contract!Nothing, Contract!Called,
      Called, StoredNow, BusyNow
<1>. QED
  BY <1>9, <1>10

\* And none of its fields is refused.
LEMMA FixedValidateCounted ==
  ASSUME FSound, UNCHANGED expandVars, ValidateField
  PROVE  Contract!OtherDone \/ UNCHANGED Contract!contractVars
<1>. DEFINE outcome == Validate(layouts[fi], placed[fi])
<1>1. /\ pc = "validate" /\ op = "decode" /\ BusyNow /\ fi \in 1 .. FieldCount
      /\ UNCHANGED << wrote, view, op, val, slice, goal >>
      /\ outcome = "ok" => pc' = pc
      /\ pc' = pc \/ pc' \in {"idle", "panic"}
  <2>1. /\ pc = "validate" /\ op = "decode" /\ fi <= FieldCount /\ fi \in 1 .. FieldCount + 1
        /\ UNCHANGED << wrote, view, op, val, slice, goal >>
    BY DEF ValidateField, FSound, FixedCodecInv, FixedCallInv
  <2>2. \/ outcome = "ok" /\ UNCHANGED pc
        \/ outcome # "ok" /\ (Panic \/ Fail(outcome))
    BY DEF ValidateField
  <2>. HIDE DEF outcome
  <2>3. fi \in 1 .. FieldCount
    <3>1. phase = "emitted" => FieldCount \in Nat
      BY FixedEmitted DEF FSound
    <3>2. phase = "emitted"
      BY <2>1 DEF FSound, FixedCodecInv, FixedCallInv
    <3>. QED
      BY <2>1, <3>1, <3>2
  <2>. QED
    BY <2>1, <2>2, <2>3 DEF Panic, Fail, Return, BusyNow
<1>2. CASE pc' = pc
  <2>1. BusyNow'
    BY <1>1, <1>2 DEF BusyNow
  <2>. QED
    BY <1>1, <2>1, FixedStepInside
<1>3. CASE pc' # pc
  <2>1. ASSUME Readable, OfWritten PROVE FALSE
    <3>1. slice.lo = wrote.lo /\ slice.hi = wrote.hi
      BY <2>1 DEF OfWritten
    <3>2. outcome = "ok"
      BY <1>1, <2>1, <3>1, FixedOwnValid DEF FSound, Readable
    <3>. QED
      BY <1>1, <1>3, <3>2
  <2>2. LastCall.name = "other"
    BY <1>1, <2>1, FixedCallSeen DEF Called
  <2>3. pc' \in {"idle", "panic"}
    BY <1>1, <1>3
  <2>. QED
    BY <1>1, <2>2, <2>3, FixedCallReturns
    DEF Contract!OtherDone, Contract!Return, StoredNow, BusyNow
<1>. QED
  BY <1>2, <1>3

\* Decoding the stored value opens it, and nothing else does.
LEMMA FixedDecodeReturns ==
  ASSUME FSound, UNCHANGED expandVars, DecodeDone
  PROVE  Contract!Opened \/ Contract!OtherDone
<1>1. /\ pc = "validate" /\ pc' = "idle" /\ op = "decode"
      /\ UNCHANGED << wrote, op, val, slice, goal >>
      /\ view' = [lo |-> slice.lo, hi |-> slice.hi] /\ slice \in Slice
  BY FixedCodecTypes
  DEF DecodeDone, Return, callVars, FSound, FixedCodecInv, FixedCallInv
<1>2. Readable' = Readable /\ StoredNow' = StoredNow
  BY <1>1, FixedStoredStays
<1>3. OfWritten' = OfWritten
  BY <1>1 DEF OfWritten
<1>4. LastCall' = LastCall
      /\ LastCall = Called(IF Readable /\ OfWritten THEN "decode" ELSE "other", << >>, 0)
  BY <1>1, <1>2, <1>3, FixedCallSeen, FixedCallSeenNext
<1>5. LastShown' = LastShown
  BY <1>1, FixedNothingShown
<1>6. BusyNow /\ ~BusyNow'
  BY <1>1 DEF BusyNow
<1>7. ViewOfStored' = (Readable /\ OfWritten)
  <2>1. view' = slice
    BY <1>1 DEF Slice
  <2>. QED
    BY <1>1, <1>2, <2>1 DEF ViewOfStored, OfWritten
<1>8. CASE Readable /\ OfWritten
  <2>1. (ViewOfStored' = TRUE) /\ LastCall.name = "decode"
    BY <1>4, <1>7, <1>8 DEF Called
  <2>. QED
    BY <1>2, <1>4, <1>5, <1>6, <2>1
    DEF Contract!Opened, Contract!Return, StoredNow, BusyNow
<1>9. CASE ~(Readable /\ OfWritten)
  <2>1. view = NoView
    BY <1>1 DEF FSound, FixedCodecInv, FixedCallInv
  <2>2. (ViewOfStored' = ViewOfStored) /\ LastCall.name = "other"
    BY <1>4, <1>7, <1>9, <2>1, FixedNoView DEF Called, ViewOfStored
  <2>. QED
    BY <1>2, <1>4, <1>5, <1>6, <2>2
    DEF Contract!OtherDone, Contract!Return, StoredNow, BusyNow
<1>. QED
  BY <1>8, <1>9

LEMMA FixedGetAsked ==
  ASSUME FSound, UNCHANGED expandVars, StartGet
  PROVE  Contract!AskGet \/ Contract!AskOther
<1>1. /\ pc = "idle" /\ pc' = "read" /\ op' = "get" /\ UNCHANGED << wrote, view >>
      /\ goal' \in 1 .. FieldCount
  BY DEF StartGet, MayCall
<1>2. Readable' = Readable /\ ViewOfStored' = ViewOfStored /\ StoredNow' = StoredNow
  BY <1>1, FixedStoredStays
<1>3. LastShown' = [field |-> 0, shown |-> << >>]
  BY <1>1, FixedNothingShown
<1>4. ~BusyNow /\ (BusyNow' = TRUE)
  BY <1>1 DEF BusyNow
<1>5. CASE ViewOfStored
  <2>1. LastCall' = Called("get", << >>, goal')
    BY <1>1, <1>2, <1>5, FixedCallSeenNext
  <2>2. goal' \in DOMAIN StoredNow
    BY <1>1, <1>5, FixedStoredValue DEF StoredNow, ViewOfStored
  <2>. QED
    BY <1>2, <1>3, <1>4, <1>5, <2>1, <2>2
    DEF Contract!AskGet, Contract!Ask, Contract!NoAnswer, Contract!Nothing, Contract!Called,
        Called, StoredNow, BusyNow
<1>6. CASE ~ViewOfStored
  <2>1. LastCall' = Called("other", << >>, 0)
    BY <1>1, <1>2, <1>6, FixedCallSeenNext
  <2>2. ViewOfStored' = FALSE
    BY <1>2, <1>6 DEF ViewOfStored
  <2>. QED
    BY <1>2, <1>3, <1>4, <2>1, <2>2
    DEF Contract!AskOther, Contract!Ask, Contract!NoAnswer, Contract!Nothing, Contract!Called,
        Called, StoredNow, BusyNow
<1>. QED
  BY <1>5, <1>6

\* A getter of the stored value shows the field that was encoded.
LEMMA FixedReadReturns ==
  ASSUME FSound, UNCHANGED expandVars, GetRead
  PROVE  Contract!Shown \/ Contract!OtherDone
<1>. DEFINE outcome == GetOutcome(layouts[goal], placed[goal])
<1>1. /\ pc = "read" /\ pc' \in {"idle", "panic"} /\ op = "get" /\ op' = "get"
      /\ UNCHANGED << wrote, view, op, val, slice, goal >>
      /\ goal \in 1 .. FieldCount /\ slice = view
      /\ outcome # NoReturn => pc' = "idle" /\ ret' = outcome
  BY DEF GetRead, Return, Panic, callVars, FSound, FixedCodecInv, FixedCallInv
<1>2. BusyNow
  BY <1>1 DEF BusyNow
<1>3. /\ ~BusyNow' /\ StoredNow' = StoredNow /\ ViewOfStored' = ViewOfStored
      /\ LastCall' = LastCall
  BY <1>1, <1>2, FixedCallReturns
<1>4. CASE ViewOfStored
  <2>. DEFINE v == wrote.val[goal]
  <2>1. LastCall.name = "get" /\ LastCall.field = goal
    BY <1>1, <1>4, FixedCallSeen DEF Called
  <2>2. /\ Readable /\ StoredNow = wrote.val
        /\ slice.lo = wrote.lo /\ slice.hi = wrote.hi
    BY <1>1, <1>4 DEF ViewOfStored, StoredNow
  <2>3. /\ wrote # NoEncoding /\ TailReadable(wrote.val) /\ wrote.lo % BaseAlign = 0
    BY <2>2 DEF Readable
  <2>4. outcome = [res |-> "ok", count |-> v.count, data |-> v.data]
    BY <1>1, <2>2, <2>3, FixedReadsStored DEF FSound
  <2>5. v = [count |-> v.count, data |-> v.data]
    BY <1>1, <2>3, FixedOwnField DEF FSound, FieldValue
  <2>. HIDE DEF outcome, v
  <2>6. pc' = "idle" /\ ret'.count = v.count /\ ret'.data = v.data
    BY <1>1, <2>4 DEF NoReturn
  <2>7. LastShown' = [field |-> goal, shown |-> [count |-> ret'.count, data |-> ret'.data]]
    BY <1>1, <1>3, <1>4, <2>6 DEF LastShown, Returned
  <2>8. LastShown' = [field |-> LastCall.field, shown |-> StoredNow[LastCall.field]]
    BY <2>1, <2>2, <2>5, <2>6, <2>7 DEF v
  <2>. QED
    BY <1>2, <1>3, <1>4, <2>1, <2>8
    DEF Contract!Shown, Contract!Return, StoredNow, BusyNow
<1>5. CASE ~ViewOfStored
  <2>1. LastCall.name = "other"
    BY <1>1, <1>5, FixedCallSeen DEF Called
  <2>2. LastShown' = LastShown
    BY <1>3, <1>5 DEF LastShown
  <2>. QED
    BY <1>2, <1>3, <2>1, <2>2
    DEF Contract!OtherDone, Contract!Return, StoredNow, BusyNow
<1>. QED
  BY <1>4, <1>5

\* Before the expansion has ended the contract sees nothing.
LEMMA FixedExpandUnseen ==
  ASSUME FSound, ExpandNext, UNCHANGED codecVars
  PROVE  UNCHANGED Contract!contractVars
<1>1. phase # "emitted"
  BY DEF ExpandNext, ParseArgs, AddField, FieldsDone
<1>2. /\ wrote = NoEncoding /\ wrote' = NoEncoding /\ op = "none" /\ op' = "none"
      /\ UNCHANGED pc
  BY <1>1 DEF FSound, FixedCodecInv, FixedCallInv, codecVars, callVars
<1>3. /\ ~Readable /\ ~Readable' /\ ViewOfStored' = ViewOfStored
  BY <1>2 DEF Readable, ViewOfStored, NoEncoding
<1>4. LastCall' = LastCall
  BY <1>2, FixedCallSeen, FixedCallSeenNext
<1>. QED
  BY <1>2, <1>3, <1>4, FixedNothingShown DEF Contract!contractVars

LEMMA FixedContractNext ==
  ASSUME FSound, FSound', [Next]_vars
  PROVE  [Contract!Next]_(Contract!contractVars)
<1>1. CASE ExpandNext /\ UNCHANGED codecVars
  BY <1>1, FixedExpandUnseen
<1>2. CASE phase = "emitted" /\ CodecNext /\ UNCHANGED expandVars
  <2>1. FixedCodecInv'
    BY DEF FSound
  <2>. QED
    BY <1>2, <2>1, FixedEncodeAsked, FixedWriteCounted, FixedEncodeReturns, FixedDecodeAsked,
       FixedValidateCounted, FixedDecodeReturns, FixedGetAsked, FixedReadReturns
    DEF CodecNext, Running, Contract!Next
<1>3. CASE UNCHANGED vars
  <2>1. /\ UNCHANGED expandVars /\ UNCHANGED << wrote, view, op, val, slice, goal >>
        /\ UNCHANGED << pc, ret >>
    BY <1>3 DEF vars, codecVars, callVars
  <2>2. LastShown' = LastShown
    BY <2>1, FixedCallGoesOn DEF LastShown, Returned
  <2>. QED
    BY <2>1, <2>2, FixedCallGoesOn DEF Contract!contractVars, StoredNow
<1>. QED
  BY <1>1, <1>2, <1>3 DEF Next, Stopped

LEMMA FixedContractStart == Init => Contract!Init
<1>. SUFFICES ASSUME Init PROVE Contract!Init
  OBVIOUS
<1>1. wrote = NoEncoding /\ op = "none" /\ pc = "idle"
  BY DEF Init, CodecInit
<1>2. ~Readable /\ (ViewOfStored = FALSE)
  BY <1>1 DEF ViewOfStored, Readable
<1>. QED
  BY <1>1, <1>2, FixedCallSeen, FixedNothingShown
  DEF Contract!Init, Contract!NoCall, Contract!NoAnswer, Contract!Nothing, Contract!Called, Called

(* The code of #[fixed_offset_layout] keeps the same contract for every    *)
(* value its decoder can take: each step of encode, encode_to, decode and  *)
(* the getters, a panic included, is a step the contract allows, or none.  *)
(* (That every call returns is liveness.)                                  *)
THEOREM FixedKeepsContract == Spec => Contract!Safety
<1>1. Init => Contract!Init
  BY FixedContractStart
<1>2. FSound /\ FSound' /\ [Next]_vars => [Contract!Next]_(Contract!contractVars)
  BY FixedContractNext
<1>3. ExpandedInv /\ FixedCodecInv /\ FixedOwnInv => FSound
  BY DEF FSound
<1>. QED
  BY <1>1, <1>2, <1>3, FixedOwnInvariant, PTL DEF Spec, Contract!Safety
=============================================================================
