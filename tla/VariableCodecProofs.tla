-------------------------- MODULE VariableCodecProofs --------------------------
(***************************************************************************)
(* Theorems about the generated code, for every struct, buffer, sequence   *)
(* of calls and value of the constants: its types, its encoder, and its    *)
(* decoder and getters.  Then that these fit together: what is encoded is  *)
(* decoded again, a proper prefix of it is not, it holds its borrowed      *)
(* payloads aligned, and whatever is decoded is the encoding of the values *)
(* the getters read.  In the end the generated code keeps the contract of  *)
(* a layout.                                                               *)
(***************************************************************************)
EXTENDS VariableContract, VariableExpandProofs, SequenceTheorems

-----------------------------------------------------------------------------
(* Bytes.                                                                  *)

(* Reading a header inside the buffer gives a number.                      *)
LEMMA ReadLenHeaderType ==
  ASSUME NEW m \in Memory, NEW a \in Nat, NEW width \in 0 .. MaxLenWidth, a + width <= MemLen
  PROVE  ReadLenHeader(m, a, width) \in Nat
<1>1. \A i \in 1 .. width : a + i - 1 \in 0 .. MemLen - 1
  BY MemoryAssumption DEF MaxLenWidth
<1>2. \A i \in 1 .. width : m[a + i - 1] \in Nat
  BY <1>1, RadixAssumption DEF Memory, Byte
<1>. QED
  BY <1>2, HeaderReadType

(* A write keeps a memory a memory.                                        *)
LEMMA WriteType ==
  ASSUME NEW m \in Memory, NEW a \in Nat, NEW bytes \in Seq(Byte)
  PROVE  Write(m, a, bytes) \in Memory
<1>1. DOMAIN m = 0 .. MemLen - 1
  BY DEF Memory
<1>2. \A x \in DOMAIN m : (IF x \in a .. a + Len(bytes) - 1 THEN bytes[x - a + 1] ELSE m[x]) \in Byte
  BY DEF Memory
<1>. QED
  BY <1>1, <1>2 DEF Write, Memory

(* The bytes of a slice inside the buffer.                                 *)
LEMMA BytesType ==
  ASSUME NEW m \in Memory, NEW from \in Nat, NEW to \in Nat, from = to \/ to <= MemLen
  PROVE  Bytes(m, from, to) \in Seq(Byte)
<1>1. \A k \in 1 .. to - from : m[from + k - 1] \in Byte
  BY MemoryAssumption DEF Memory
<1>2. CASE from <= to
  <2>1. to - from \in Nat
    BY <1>2
  <2>. QED
    BY <1>1, <2>1 DEF Bytes
<1>3. CASE ~(from <= to)
  <2>1. 1 .. to - from = 1 .. 0
    BY <1>3
  <2>2. Bytes(m, from, to) = [k \in 1 .. 0 |-> m[from + k - 1]]
    BY <2>1 DEF Bytes
  <2>3. \A k \in 1 .. 0 : m[from + k - 1] \in Byte
    OBVIOUS
  <2>. QED
    BY <2>2, <2>3
<1>. QED
  BY <1>2, <1>3

(* What the encoder writes for a field, and how long that is.              *)
LEMMA FieldBytesType ==
  ASSUME NEW l \in FieldLayout, NEW v \in FieldValue
  PROVE  FieldBytes(l, v) \in Seq(Byte)
<1>1. /\ l.shape \in {"plain", "tagged", "implicit", "vec"} /\ l.width \in 0 .. MaxLenWidth
      /\ v.count \in Nat /\ v.data \in Seq(Byte)
  BY DEF FieldLayout, FieldValue
<1>2. LenHeader(v.count, l.width) \in Seq(Byte)
  BY <1>1, LenHeaderType
<1>3. << 1 >> \in Seq(Byte) /\ << 0 >> \in Seq(Byte)
  BY RadixAssumption DEF Byte
<1>4. CASE l.shape \in {"plain", "implicit"}
  BY <1>1, <1>4 DEF FieldBytes
<1>5. CASE l.shape = "tagged"
  <2>1. FieldBytes(l, v) = IF v.count = 1 THEN << 1 >> \o v.data ELSE << 0 >>
    BY <1>5 DEF FieldBytes
  <2>. QED
    BY <1>1, <1>3, <2>1, ConcatProperties
<1>6. CASE l.shape = "vec"
  <2>1. FieldBytes(l, v) = LenHeader(v.count, l.width) \o v.data
    BY <1>6 DEF FieldBytes
  <2>. QED
    BY <1>1, <1>2, <2>1, ConcatProperties
<1>. QED
  BY <1>1, <1>4, <1>5, <1>6

LEMMA EncodedFieldLenType ==
  ASSUME NEW l \in FieldLayout, NEW count \in Nat
  PROVE  EncodedFieldLen(l, count) \in Nat
<1>1. /\ l.shape \in {"plain", "tagged", "implicit", "vec"} /\ l.width \in Nat
      /\ Size(l.kind) \in Nat
  BY KindTypes DEF FieldLayout, MaxLenWidth
<1>2. count * Size(l.kind) \in Nat
  BY <1>1
<1>. QED
  BY <1>1, <1>2 DEF EncodedFieldLen

-----------------------------------------------------------------------------
(* Type correctness.  Indexing is in range because of what holds between   *)
(* the steps of a call: the value being encoded has a value for every      *)
(* field, a getter walks over fields that exist, and a view lies in the    *)
(* buffer.                                                                 *)

Results == [res : {"none", "ok"} \cup DecodeErrors \cup EncodeErrors,
            count : Nat, data : Seq(Byte), rest : Nat]

ViewInBuffer == view # NoView => [lo |-> view.lo, hi |-> view.hi] \in Slice

CallInv ==
  /\ phase # "emitted" => pc = "idle" /\ view = NoView
  /\ pc \in {"len", "write"} => IsStruct(val)
  /\ pc = "validate" => op \in {"decode", "decode_prefix"}
  /\ pc = "validate" /\ decl.option = "implicit" => op = "decode"
  /\ pc = "walk" => goal \in 1 .. FieldCount /\ fi <= goal
  /\ ViewInBuffer

CodecInv == CodecTypeOK /\ CallInv
ExpandInv == TypeInv /\ OffsetsInv

(* What the checks of a field return.                                      *)
LEMMA ValidateType ==
  ASSUME mem \in Memory, slice \in Slice, NEW l \in FieldLayout, NEW o \in Nat
  PROVE  Validate(l, o) \in [res : {"ok", "panic"} \cup DecodeErrors, end : Nat]
<1>. DEFINE Outcome == [res : {"ok", "panic"} \cup DecodeErrors, end : Nat]
<1>1. /\ l.shape \in {"plain", "tagged", "implicit", "vec"} /\ l.width \in 0 .. MaxLenWidth
      /\ l.width \in Nat /\ Size(l.kind) \in Nat
  BY KindTypes DEF FieldLayout, MaxLenWidth
<1>2. \A x \in Nat : Ok(x) \in Outcome
  BY DEF Ok
<1>3. \A e \in {"panic"} \cup DecodeErrors : Bad(e) \in Outcome
  BY DEF Bad
<1>a. {"InvalidFieldAlignment", "TruncatedPayload", "MissingOptionTag", "InvalidOptionTag",
       "MissingLengthHeader", "LengthExceedsCapacity", "TruncatedVectorPayload"}
        \subseteq DecodeErrors
  BY DEF DecodeErrors
<1>. HIDE DEF Outcome
<1>4. \A x \in Nat : ValidatePayload(l, x) \in Outcome
  BY <1>1, <1>2, <1>3, <1>a DEF ValidatePayload
<1>5. ValidateTagged(l, o) \in Outcome
  <2>1. /\ Ok(o + 1) \in Outcome /\ ValidatePayload(l, o + 1) \in Outcome
        /\ Bad("MissingOptionTag") \in Outcome /\ Bad("InvalidOptionTag") \in Outcome
    BY <1>2, <1>3, <1>4, <1>a
  <2>. QED
    BY <2>1 DEF ValidateTagged
<1>6. ValidateVec(l, o) \in Outcome
  <2>1. CASE o + l.width > SliceLen
    BY <2>1, <1>3, <1>a DEF ValidateVec
  <2>2. CASE ~(o + l.width > SliceLen)
    <3>1. HeaderAt(o, l.width) \in Nat
      <4>1. slice.lo + o \in Nat /\ slice.lo + o + l.width <= MemLen
        BY <2>2, <1>1, MemoryAssumption DEF Slice, SliceLen
      <4>. QED
        BY <4>1, <1>1, ReadLenHeaderType DEF HeaderAt
    <3>2. HeaderAt(o, l.width) * Size(l.kind) \in Nat
      BY <3>1, <1>1
    <3>3. o + l.width + HeaderAt(o, l.width) * Size(l.kind) \in Nat
      BY <3>2, <1>1
    <3>. QED
      BY <2>2, <3>3, <1>2, <1>3, <1>a DEF ValidateVec
  <2>. QED
    BY <2>1, <2>2
<1>7. Validate(l, o) \in Outcome
  BY <1>1, <1>2, <1>3, <1>4, <1>5, <1>6 DEF Validate
<1>. QED
  BY <1>7 DEF Outcome

LEMMA ReturnTypes ==
  /\ NoReturn \in Results
  /\ \A e \in DecodeErrors \cup EncodeErrors : [NoReturn EXCEPT !.res = e] \in Results
  /\ \A n \in Nat : [NoReturn EXCEPT !.res = "ok", !.rest = n] \in Results
  /\ \A n \in Nat, d \in Seq(Byte) :
       [NoReturn EXCEPT !.res = "ok", !.count = n, !.data = d] \in Results
<1>1. << >> \in Seq(Byte)
  OBVIOUS
<1>. QED
  BY <1>1 DEF NoReturn, Results

(* What a getter reads from a field that lies in its slice.                *)
LEMMA ReadBytesType ==
  ASSUME mem \in Memory, slice \in Slice, NEW l \in FieldLayout, NEW o \in Nat, NEW count \in Nat,
         count # 0 => InSlice(o + PayloadShift(l), o + PayloadShift(l) + count * Size(l.kind))
  PROVE  ReadBytes(l, o, count) \in Seq(Byte)
<1>. DEFINE start == slice.lo + o + PayloadShift(l)
            size == count * Size(l.kind)
<1>1. PayloadShift(l) \in Nat /\ Size(l.kind) \in Nat
  BY KindTypes DEF PayloadShift, FieldLayout, MaxLenWidth
<1>2. start \in Nat /\ size \in Nat /\ (count = 0 => size = 0)
  BY <1>1 DEF Slice
<1>3. count # 0 => start + size <= MemLen
  <2>1. count # 0 => o + PayloadShift(l) + size <= SliceLen
    BY DEF InSlice
  <2>2. slice.lo \in Nat /\ slice.hi \in Nat /\ slice.hi <= MemLen /\ MemLen \in Nat
    BY MemoryAssumption DEF Slice
  <2>. HIDE DEF size
  <2>. QED
    BY <1>1, <1>2, <2>1, <2>2 DEF SliceLen
<1>4. Bytes(mem, start, start + size) \in Seq(Byte)
  <2>. HIDE DEF start, size
  <2>1. start + size \in Nat
    BY <1>2
  <2>2. start = start + size \/ start + size <= MemLen
    BY <1>2, <1>3
  <2>. QED
    BY <1>2, <2>1, <2>2, BytesType
<1>5. \A data \in Seq(Byte) : Typed(l, data) \in Seq(Byte)
  <2>. SUFFICES ASSUME NEW data \in Seq(Byte) PROVE Typed(l, data) \in Seq(Byte)
    OBVIOUS
  <2>1. \A k \in 1 .. Len(data) : (IF data[k] = 0 THEN 0 ELSE 1) \in Byte
    BY RadixAssumption DEF Byte
  <2>2. [k \in 1 .. Len(data) |-> IF data[k] = 0 THEN 0 ELSE 1] \in Seq(Byte)
    BY <2>1
  <2>. QED
    BY <2>2 DEF Typed
<1>. QED
  BY <1>4, <1>5 DEF ReadBytes

(* The walk of a getter.                                                   *)
LEMMA CountType ==
  ASSUME mem \in Memory, slice \in Slice, NEW l \in FieldLayout, NEW o \in Nat, CanCount(l, o)
  PROVE  Count(l, o) \in Nat /\ WalkLen(l, o) \in Nat
<1>1. /\ l.shape \in {"plain", "tagged", "implicit", "vec"} /\ l.width \in 0 .. MaxLenWidth
      /\ l.width \in Nat /\ Size(l.kind) \in Nat
  BY KindTypes DEF FieldLayout, MaxLenWidth
<1>2. l.shape = "vec" => HeaderAt(o, l.width) \in Nat
  <2>. SUFFICES ASSUME l.shape = "vec" PROVE HeaderAt(o, l.width) \in Nat
    OBVIOUS
  <2>1. o + l.width <= SliceLen
    BY DEF CanCount, InSlice
  <2>2. slice.lo + o \in Nat /\ slice.lo + o + l.width <= MemLen
    BY <1>1, <2>1, MemoryAssumption DEF Slice, SliceLen
  <2>. QED
    BY <1>1, <2>2, ReadLenHeaderType DEF HeaderAt
<1>3. l.shape = "vec" => HeaderAt(o, l.width) * Size(l.kind) \in Nat
  BY <1>1, <1>2
<1>. QED
  BY <1>1, <1>2, <1>3 DEF Count, WalkLen

LEMMA WalkFromType ==
  ASSUME ExpandInv, phase = "emitted", NEW g \in 1 .. FieldCount
  PROVE  WalkFrom(g) \in 1 .. g /\ WalkStart(WalkFrom(g), g)
<1>1. \E b \in 1 .. g : WalkStart(b, g)
  BY DEF ExpandInv, OffsetsInv
<1>. QED
  BY <1>1 DEF WalkFrom, WalkStart

LEMMA Emitted ==
  ASSUME ExpandInv, phase = "emitted"
  PROVE  /\ FieldCount \in Nat /\ \A i \in 1 .. FieldCount : layouts[i] \in FieldLayout
         /\ \A i \in 1 .. FieldCount : offsets[i] \in Nat \cup {Variable}
<1>1. /\ layouts \in Seq(FieldLayout) /\ offsets \in Seq(Nat \cup {Variable})
      /\ Len(offsets) = FieldCount /\ FieldCount = Len(layouts)
  BY DEF ExpandInv, TypeInv, ExpandTypeOK, OffsetsInv, FieldCount
<1>. QED
  BY <1>1

LEMMA CodecInitTypes == Init => CodecInv
<1>. SUFFICES ASSUME Init PROVE CodecInv
  OBVIOUS
<1>1. mem \in Memory /\ before \in Memory
  BY MemoryAssumption DEF Init, CodecInit
<1>2. slice \in Slice /\ calls \in 0 .. MaxCalls
  BY MemoryAssumption, CallsAssumption DEF Init, CodecInit, Slice
<1>3. ret \in Results
  BY ReturnTypes DEF Init, CodecInit
<1>4. /\ view \in [lo : Nat, hi : Int, at : Seq(Nat)]
      /\ wrote \in [lo : Nat, hi : Int, val : Seq(FieldValue), at : Seq(Nat)]
  BY DEF Init, CodecInit, NoView, NoEncoding
<1>5. val \in Seq(FieldValue) /\ plan \in Seq(Nat) /\ at \in Seq(Nat)
  BY DEF Init, CodecInit
<1>6. /\ pc = "idle" /\ op = "none" /\ fi = 1 /\ off = 0 /\ lim = 0 /\ goal = 1
      /\ view = NoView
  BY DEF Init, CodecInit
<1>7. CodecTypeOK
  BY <1>1, <1>2, <1>3, <1>4, <1>5, <1>6 DEF CodecTypeOK, Results
<1>. QED
  BY <1>6, <1>7 DEF CodecInv, CallInv, ViewInBuffer

(* The steps of encode_to.                                                 *)
LEMMA EncodeTypes ==
  ASSUME ExpandInv, CodecInv, phase = "emitted", UNCHANGED expandVars,
         StartEncode \/ AddLen \/ CheckRoom \/ WriteField \/ EncodeDone
  PROVE  CodecInv'
<1>. USE DEF callVars, Return, Fail, Panic, Advance, StartLoop
<1>1. /\ CodecTypeOK /\ phase' = "emitted" /\ FieldCount' = FieldCount /\ layouts' = layouts
      /\ decl' = decl
  BY DEF CodecInv, expandVars, FieldCount
<1>2. FieldCount \in Nat /\ \A i \in 1 .. FieldCount : layouts[i] \in FieldLayout
  BY Emitted
<1>3. pc \in {"len", "write"} => IsStruct(val)
  BY DEF CodecInv, CallInv
<1>4. UNCHANGED view => ViewInBuffer'
  BY DEF CodecInv, CallInv, ViewInBuffer
<1>5. \A e \in EncodeErrors : [NoReturn EXCEPT !.res = e] \in Results
  BY ReturnTypes
<1>a. /\ fi \in Nat \ {0} /\ off \in Nat /\ lim \in Nat /\ slice.lo \in Nat
  BY <1>1 DEF CodecTypeOK, Slice
<1>b. /\ at \in Seq(Nat) /\ plan \in Seq(Nat) /\ val \in Seq(FieldValue)
      /\ wrote \in [lo : Nat, hi : Int, val : Seq(FieldValue), at : Seq(Nat)]
  BY <1>1 DEF CodecTypeOK
<1>c. ret \in Results
  BY <1>1 DEF CodecTypeOK, Results
<1>d. Append(at, off) \in Seq(Nat)
  BY <1>a, <1>b
<1>e. << >> \in Seq(Nat) /\ NoEncoding \in [lo : Nat, hi : Int, val : Seq(FieldValue), at : Seq(Nat)]
  BY DEF NoEncoding
<1>6. CASE StartEncode
  <2>1. PICK s \in Slices, v \in Structs : IsStruct(v) /\ val' = v /\ StartLoop("encode", s, "len")
    BY <1>6 DEF StartEncode
  <2>2. slice' \in Slice /\ val' \in Seq(FieldValue) /\ calls' \in 0 .. MaxCalls
    BY <2>1, <1>1, <1>6, CallsAssumption DEF StartEncode, MayCall, CodecTypeOK
  <2>3. view' = NoView /\ view' \in [lo : Nat, hi : Int, at : Seq(Nat)]
    BY <1>6 DEF StartEncode, NoView
  <2>4. CodecTypeOK'
    BY <1>1, <1>6, <2>1, <2>2, <2>3 DEF StartEncode, CodecTypeOK
  <2>5. IsStruct(val)'
    BY <1>1, <2>1 DEF IsStruct
  <2>. QED
    BY <1>1, <2>1, <2>3, <2>4, <2>5 DEF CodecInv, CallInv, ViewInBuffer
<1>7. CASE AddLen
  <2>1. fi \in 1 .. FieldCount /\ pc = "len"
    BY <1>a, <1>2, <1>7 DEF AddLen
  <2>2. val[fi] \in FieldValue /\ Len(val) = FieldCount
    <3>1. Len(val) = FieldCount
      BY <1>3, <2>1 DEF IsStruct
    <3>. QED
      BY ONLY <1>b, <2>1, <3>1
  <2>3. EncodedFieldLen(layouts[fi], val[fi].count) \in Nat
    BY <1>2, <2>1, <2>2, EncodedFieldLenType DEF FieldValue
  <2>4. IsStruct(val)'
    BY <1>1, <1>3, <1>7, <2>1 DEF AddLen, IsStruct
  <2>5. \/ /\ pc' = "idle" /\ ret' = [NoReturn EXCEPT !.res = "LengthExceedsCapacity"]
           /\ UNCHANGED << fi, off, at >>
        \/ /\ fi' = fi + 1 /\ off' = off + EncodedFieldLen(layouts[fi], val[fi].count)
           /\ at' = Append(at, off) /\ pc' = "len" /\ ret' = ret
    BY <1>7, <2>1 DEF AddLen
  <2>a. fi' \in Nat \ {0} /\ off' \in Nat /\ at' \in Seq(Nat) /\ pc' \in {"len", "idle"}
    <3>1. at' \in Seq(Nat)
      BY <1>b, <1>d, <2>5, Zenon
    <3>. DEFINE n == EncodedFieldLen(layouts[fi], val[fi].count)
    <3>2. n \in Nat
      BY <2>3
    <3>3. fi' \in {fi, fi + 1} /\ off' \in {off, off + n} /\ pc' \in {"len", "idle"}
      BY <2>5
    <3>. HIDE DEF n
    <3>4. fi' \in Nat \ {0} /\ off' \in Nat
      BY ONLY <1>a, <3>2, <3>3
    <3>. QED
      BY <3>1, <3>3, <3>4
  <2>b. ret' \in Results
    BY <1>5, <1>c, <2>5 DEF EncodeErrors
  <2>6. CodecTypeOK'
    BY <1>1, <1>7, <2>a, <2>b DEF AddLen, CodecTypeOK, Results
  <2>. QED
    BY <1>1, <1>4, <1>7, <2>4, <2>a, <2>6 DEF AddLen, CodecInv, CallInv
<1>8. CASE CheckRoom
  <2>1. IsStruct(val)'
    BY <1>1, <1>3, <1>8 DEF CheckRoom, IsStruct
  <2>2. \/ /\ pc' = "idle" /\ ret' = [NoReturn EXCEPT !.res = "OutputBufferTooSmall"]
           /\ UNCHANGED << fi, off, lim, plan, at, wrote >>
        \/ /\ pc' = "write" /\ fi' = 1 /\ off' = 0 /\ lim' = off /\ plan' = Append(at, off)
           /\ at' = << >> /\ wrote' = NoEncoding /\ ret' = ret
    BY <1>8 DEF CheckRoom
  <2>a. /\ fi' \in Nat \ {0} /\ off' \in Nat /\ lim' \in Nat /\ at' \in Seq(Nat)
        /\ plan' \in Seq(Nat) /\ pc' \in {"write", "idle"}
    <3>1. at' \in Seq(Nat) /\ plan' \in Seq(Nat)
      BY <1>b, <1>d, <1>e, <2>2, Zenon
    <3>. QED
      BY <1>a, <2>2, <3>1
  <2>b. ret' \in Results
    BY <1>5, <1>c, <2>2 DEF EncodeErrors
  <2>3. wrote' \in [lo : Nat, hi : Int, val : Seq(FieldValue), at : Seq(Nat)]
    BY <1>b, <1>e, <2>2
  <2>4. CodecTypeOK'
    BY <1>1, <1>8, <2>a, <2>b, <2>3 DEF CheckRoom, CodecTypeOK, Results
  <2>. QED
    BY <1>1, <1>4, <1>8, <2>1, <2>a, <2>4 DEF CheckRoom, CodecInv, CallInv
<1>9. CASE WriteField
  <2>. DEFINE bytes == FieldBytes(layouts[fi], val[fi])
  <2>1. fi \in 1 .. FieldCount /\ pc = "write"
    BY <1>1, <1>2, <1>9 DEF WriteField, CodecTypeOK
  <2>2. val[fi] \in FieldValue /\ Len(val) = FieldCount
    <3>1. Len(val) = FieldCount
      BY <1>3, <2>1 DEF IsStruct
    <3>. QED
      BY ONLY <1>b, <2>1, <3>1
  <2>3. bytes \in Seq(Byte)
    BY <1>2, <2>1, <2>2, FieldBytesType
  <2>4. \/ UNCHANGED << mem, fi, off, at, ret >> /\ pc' = "panic"
        \/ /\ mem' = Write(mem, slice.lo + off, bytes)
           /\ fi' = fi + 1 /\ off' = off + Len(bytes) /\ at' = Append(at, off)
           /\ UNCHANGED << pc, ret >>
    BY <1>9 DEF WriteField
  <2>. HIDE DEF bytes
  <2>5. mem' \in Memory
    <3>1. slice \in Slice /\ off \in Nat /\ mem \in Memory
      BY <1>1 DEF CodecTypeOK
    <3>2. slice.lo \in 0 .. MemLen
      BY <3>1 DEF Slice
    <3>3. slice.lo + off \in Nat
      BY <3>1, <3>2, MemoryAssumption
    <3>. QED
      BY <2>3, <2>4, <3>1, <3>3, WriteType
  <2>6. fi' \in Nat \ {0} /\ off' \in Nat /\ at' \in Seq(Nat)
    <3>1. at' \in Seq(Nat)
      BY <1>b, <1>d, <2>4, Zenon
    <3>2. Len(bytes) \in Nat
      BY <2>3
    <3>. QED
      BY <1>a, <2>4, <3>1, <3>2
  <2>7. CodecTypeOK'
    BY <1>1, <1>9, <2>1, <2>4, <2>5, <2>6 DEF WriteField, CodecTypeOK
  <2>8. IsStruct(val)'
    BY <1>1, <1>3, <1>9, <2>1 DEF WriteField, IsStruct
  <2>. QED
    BY <1>1, <1>4, <1>9, <2>1, <2>4, <2>7, <2>8 DEF WriteField, CodecInv, CallInv
<1>10. CASE EncodeDone
  <2>1. slice.lo + lim \in Nat /\ Append(at, off) \in Seq(Nat)
    BY <1>a, <1>b
  <2>2. ret' \in Results
    BY <1>10, <2>1, ReturnTypes DEF EncodeDone
  <2>3. wrote' \in [lo : Nat, hi : Int, val : Seq(FieldValue), at : Seq(Nat)]
    BY <1>a, <1>b, <1>10, <2>1 DEF EncodeDone
  <2>4. CodecTypeOK'
    BY <1>1, <1>10, <2>2, <2>3 DEF EncodeDone, CodecTypeOK, Results
  <2>. QED
    BY <1>1, <1>4, <1>10, <2>4 DEF EncodeDone, CodecInv, CallInv
<1>. QED
  BY <1>6, <1>7, <1>8, <1>9, <1>10

(* The steps of decode and decode_prefix.                                  *)
LEMMA DecodeTypes ==
  ASSUME ExpandInv, CodecInv, phase = "emitted", UNCHANGED expandVars,
         StartDecode \/ ValidateField \/ DecodeDone
  PROVE  CodecInv'
<1>. USE DEF callVars, Return, Fail, Panic, Advance, StartLoop
<1>1. /\ CodecTypeOK /\ phase' = "emitted" /\ FieldCount' = FieldCount /\ layouts' = layouts
      /\ decl' = decl
  BY DEF CodecInv, expandVars, FieldCount
<1>2. FieldCount \in Nat /\ \A i \in 1 .. FieldCount : layouts[i] \in FieldLayout
  BY Emitted
<1>3. /\ pc = "validate" => op \in {"decode", "decode_prefix"}
      /\ pc = "validate" /\ decl.option = "implicit" => op = "decode"
  BY DEF CodecInv, CallInv
<1>4. UNCHANGED view => ViewInBuffer'
  BY DEF CodecInv, CallInv, ViewInBuffer
<1>5. \A e \in DecodeErrors : [NoReturn EXCEPT !.res = e] \in Results
  BY ReturnTypes
<1>a. /\ fi \in Nat \ {0} /\ off \in Nat /\ mem \in Memory /\ slice \in Slice
      /\ slice.lo \in Nat /\ slice.hi \in Nat /\ slice.lo <= slice.hi /\ slice.hi <= MemLen
  BY <1>1, MemoryAssumption DEF CodecTypeOK, Slice
<1>b. at \in Seq(Nat) /\ Append(at, off) \in Seq(Nat) /\ << >> \in Seq(Nat)
  <2>1. at \in Seq(Nat)
    BY <1>1 DEF CodecTypeOK
  <2>. QED
    BY <1>a, <2>1
<1>c. ret \in Results
  BY <1>1 DEF CodecTypeOK, Results
<1>6. CASE StartDecode
  <2>1. PICK s \in Slices, name \in {"decode", "decode_prefix"} :
          /\ decl.option = "implicit" => name = "decode"
          /\ \/ StartLoop(name, s, "validate") /\ UNCHANGED ret
             \/ /\ EntryError(s) # "ok"
                /\ StartLoop(name, s, "idle") /\ ret' = [NoReturn EXCEPT !.res = EntryError(s)]
    BY <1>6 DEF StartDecode
  <2>2. EntryError(s) \in {"ok"} \cup DecodeErrors
    BY DEF EntryError, DecodeErrors
  <2>3. ret' \in Results
    BY <1>5, <1>c, <2>1, <2>2
  <2>a. slice' \in Slice
    BY <2>1, CallsAssumption
  <2>b. calls \in 0 .. MaxCalls /\ calls < MaxCalls /\ calls' = calls + 1
    BY <2>1, <1>1, <1>6 DEF StartDecode, MayCall, CodecTypeOK
  <2>4. calls' \in 0 .. MaxCalls
    BY <2>b, CallsAssumption
  <2>5. view' = NoView /\ view' \in [lo : Nat, hi : Int, at : Seq(Nat)]
    BY <1>6 DEF StartDecode, NoView
  <2>6. /\ op' = name /\ pc' \in {"validate", "idle"} /\ fi' = 1 /\ off' = 0 /\ at' = << >>
        /\ before' = mem
    BY <2>1
  <2>c. /\ op' \in {"decode", "decode_prefix"} /\ at' \in Seq(Nat) /\ before' \in Memory
        /\ fi' \in Nat \ {0} /\ off' \in Nat
    BY <1>a, <1>b, <2>6
  <2>d. UNCHANGED << mem, wrote, val, lim, plan, goal >>
    BY <1>6 DEF StartDecode
  <2>7. CodecTypeOK'
    BY <1>1, <2>a, <2>c, <2>d, <2>3, <2>4, <2>5, <2>6 DEF CodecTypeOK, Results
  <2>. QED
    BY <1>1, <2>1, <2>5, <2>6, <2>7 DEF CodecInv, CallInv, ViewInBuffer
<1>7. CASE ValidateField
  <2>. DEFINE outcome == Validate(layouts[fi], off)
  <2>1. fi \in 1 .. FieldCount /\ pc = "validate"
    BY <1>a, <1>2, <1>7 DEF ValidateField
  <2>2. outcome.res \in {"ok", "panic"} \cup DecodeErrors /\ outcome.end \in Nat
    BY <1>2, <1>a, <2>1, ValidateType
  <2>3. \/ /\ outcome.res = "ok"
           /\ fi' = fi + 1 /\ off' = outcome.end /\ at' = Append(at, off) /\ UNCHANGED << pc, ret >>
        \/ /\ outcome.res # "ok" /\ UNCHANGED << fi, off, at >>
           /\ \/ pc' = "panic" /\ ret' = ret
              \/ /\ outcome.res # "panic" /\ pc' = "idle"
                 /\ ret' = [NoReturn EXCEPT !.res = outcome.res]
    BY <1>7 DEF ValidateField
  <2>. HIDE DEF outcome
  <2>4. ret' \in Results
    BY <1>5, <1>c, <2>2, <2>3
  <2>5. at' \in Seq(Nat)
    BY <1>b, <2>3, Zenon
  <2>6. fi' \in Nat \ {0} /\ off' \in Nat /\ pc' \in {"validate", "panic", "idle"}
    BY <1>a, <2>1, <2>2, <2>3
  <2>7. CodecTypeOK'
    BY <1>1, <1>7, <2>4, <2>5, <2>6 DEF ValidateField, CodecTypeOK, Results
  <2>. QED
    BY <1>1, <1>3, <1>4, <1>7, <2>1, <2>6, <2>7 DEF ValidateField, CodecInv, CallInv
<1>8. CASE DecodeDone
  <2>1. /\ pc = "validate" /\ UNCHANGED << mem, calls, callVars, wrote >>
        /\ \/ pc' = "panic" /\ UNCHANGED << ret, view >>
           \/ pc' = "idle" /\ ret' = [NoReturn EXCEPT !.res = "InvalidDataLength"] /\ UNCHANGED view
           \/ /\ pc' = "idle"
              /\ decl.option = "implicit" \/ ~(off > SliceLen)
              /\ ~(op = "decode" /\ off # SliceLen)
              /\ ret' = [NoReturn EXCEPT !.res = "ok", !.rest = slice.lo + off]
              /\ view' = [lo |-> slice.lo, hi |-> slice.lo + off, at |-> Append(at, off)]
    BY <1>8 DEF DecodeDone
  <2>2. "InvalidDataLength" \in DecodeErrors
    BY DEF DecodeErrors
  <2>3. slice.lo + off \in Nat
    BY <1>a
  <2>4. ret' \in Results
    BY <1>5, <1>c, <2>1, <2>2, <2>3, ReturnTypes
  <2>5. view' \in [lo : Nat, hi : Int, at : Seq(Nat)] /\ ViewInBuffer'
    <3>1. CASE UNCHANGED view
      BY <1>1, <1>4, <3>1 DEF CodecTypeOK
    <3>2. CASE /\ decl.option = "implicit" \/ ~(off > SliceLen)
               /\ ~(op = "decode" /\ off # SliceLen)
               /\ view' = [lo |-> slice.lo, hi |-> slice.lo + off, at |-> Append(at, off)]
      <4>1. off <= SliceLen
        <5>1. CASE decl.option = "implicit"
          BY <5>1, <3>2, <2>1, <1>3, <1>a DEF SliceLen
        <5>2. CASE decl.option # "implicit"
          BY <5>2, <3>2, <1>a DEF SliceLen
        <5>. QED
          BY <5>1, <5>2
      <4>2. slice.lo + off \in slice.lo .. MemLen
        BY <4>1, <1>a, MemoryAssumption DEF SliceLen
      <4>. QED
        BY <3>2, <4>2, <1>a, <1>b, MemoryAssumption DEF ViewInBuffer, Slice
    <3>. QED
      BY <2>1, <3>1, <3>2
  <2>6. CodecTypeOK'
    BY <1>1, <2>1, <2>4, <2>5 DEF CodecTypeOK, Results
  <2>7. pc' \in {"panic", "idle"}
    BY <2>1
  <2>. QED
    BY <1>1, <2>5, <2>6, <2>7 DEF CodecInv, CallInv
<1>. QED
  BY <1>6, <1>7, <1>8

(* The steps of a getter.                                                  *)
LEMMA GetTypes ==
  ASSUME ExpandInv, CodecInv, phase = "emitted", UNCHANGED expandVars,
         StartGet \/ GetStep \/ GetRead
  PROVE  CodecInv'
<1>. USE DEF callVars, Return, Panic
<1>1. /\ CodecTypeOK /\ phase' = "emitted" /\ FieldCount' = FieldCount /\ layouts' = layouts
      /\ decl' = decl
  BY DEF CodecInv, expandVars, FieldCount
<1>2. FieldCount \in Nat /\ \A i \in 1 .. FieldCount : layouts[i] \in FieldLayout
  BY Emitted
<1>3. pc = "walk" => goal \in 1 .. FieldCount /\ fi <= goal
  BY DEF CodecInv, CallInv
<1>4. UNCHANGED view => ViewInBuffer'
  BY DEF CodecInv, CallInv, ViewInBuffer
<1>a. fi \in Nat \ {0} /\ off \in Nat /\ mem \in Memory /\ slice \in Slice
  BY <1>1 DEF CodecTypeOK
<1>c. ret \in Results
  BY <1>1 DEF CodecTypeOK, Results
<1>6. CASE StartGet
  <2>1. PICK g \in 1 .. FieldCount : goal' = g /\ fi' = WalkFrom(g) /\ off' = offsets[WalkFrom(g)]
    BY <1>6 DEF StartGet
  <2>2. WalkFrom(g) \in 1 .. g /\ offsets[WalkFrom(g)] # Variable
    BY <2>1, WalkFromType DEF WalkStart
  <2>3. offsets[WalkFrom(g)] \in Nat
    <3>1. WalkFrom(g) \in 1 .. FieldCount
      BY <1>2, <2>1, <2>2
    <3>. QED
      BY <2>2, <3>1, Emitted
  <2>4. slice' \in Slice
    BY <1>6 DEF StartGet, CodecInv, CallInv, ViewInBuffer
  <2>5. /\ goal' \in 1 .. FieldCount /\ goal' \in Nat \ {0} /\ fi' \in Nat \ {0}
        /\ fi' <= goal' /\ off' \in Nat
    BY <1>2, <2>1, <2>2, <2>3
  <2>6. calls' \in 0 .. MaxCalls
    BY <1>1, <1>6, CallsAssumption DEF StartGet, MayCall, CodecTypeOK
  <2>7. << >> \in Seq(Nat)
    OBVIOUS
  <2>8. CodecTypeOK'
    BY <1>1, <1>6, <2>4, <2>5, <2>6, <2>7 DEF StartGet, CodecTypeOK
  <2>. QED
    BY <1>1, <1>4, <1>6, <2>5, <2>8 DEF StartGet, CodecInv, CallInv
<1>7. CASE GetStep
  <2>1. fi \in 1 .. FieldCount /\ pc = "walk" /\ fi < goal
    BY <1>1, <1>2, <1>3, <1>7, <1>a DEF GetStep, CodecTypeOK
  <2>2. \/ /\ CanCount(layouts[fi], off) /\ fi' = fi + 1 /\ off' = off + WalkLen(layouts[fi], off)
           /\ UNCHANGED << pc, ret >>
        \/ pc' = "panic" /\ UNCHANGED << ret, fi, off >>
    BY <1>7 DEF GetStep
  <2>3. CanCount(layouts[fi], off) => WalkLen(layouts[fi], off) \in Nat
    BY <1>2, <1>a, <2>1, CountType
  <2>4. fi' \in Nat \ {0} /\ off' \in Nat /\ pc' \in {"walk", "panic"} /\ ret' = ret
    BY <1>a, <2>1, <2>2, <2>3
  <2>5. pc' = "walk" => fi' <= goal
    BY <1>1, <1>2, <1>3, <1>a, <2>1, <2>2
  <2>6. CodecTypeOK'
    BY <1>1, <1>7, <2>4 DEF GetStep, CodecTypeOK
  <2>. QED
    BY <1>1, <1>3, <1>4, <1>7, <2>1, <2>4, <2>5, <2>6 DEF GetStep, CodecInv, CallInv
<1>8. CASE GetRead
  <2>. DEFINE l == layouts[fi]
              count == Count(l, off)
              start == off + PayloadShift(l)
  <2>1. l \in FieldLayout /\ pc = "walk"
    BY <1>2, <1>3, <1>8 DEF GetRead
  <2>2. /\ UNCHANGED << mem, calls, callVars, view, wrote >>
        /\ \/ pc' = "panic" /\ ret' = ret
           \/ /\ pc' = "idle" /\ CanCount(l, off)
              /\ count # 0 => InSlice(start, start + count * Size(l.kind))
              /\ ret' = [NoReturn EXCEPT !.res = "ok", !.count = count,
                                         !.data = ReadBytes(l, off, count)]
    BY <1>8 DEF GetRead
  <2>3. ret' \in Results
    <3>1. CASE ret' = ret
      BY <1>c, <3>1
    <3>2. CASE /\ CanCount(l, off)
               /\ count # 0 => InSlice(start, start + count * Size(l.kind))
               /\ ret' = [NoReturn EXCEPT !.res = "ok", !.count = count,
                                          !.data = ReadBytes(l, off, count)]
      <4>1. count \in Nat
        BY <1>a, <2>1, <3>2, CountType
      <4>2. ReadBytes(l, off, count) \in Seq(Byte)
        BY <1>a, <2>1, <3>2, <4>1, ReadBytesType
      <4>. HIDE DEF count, l
      <4>. QED
        BY <3>2, <4>1, <4>2, ReturnTypes
    <3>. QED
      BY <2>2, <3>1, <3>2
  <2>4. CodecTypeOK'
    BY <1>1, <2>2, <2>3 DEF CodecTypeOK, Results
  <2>5. pc' \in {"panic", "idle"} /\ view' = view
    BY <2>2
  <2>. QED
    BY <1>1, <1>4, <2>4, <2>5 DEF CodecInv, CallInv
<1>. QED
  BY <1>6, <1>7, <1>8

LEMMA CodecStutter == CodecInv /\ UNCHANGED vars => CodecInv'
<1>. SUFFICES ASSUME CodecInv, UNCHANGED vars PROVE CodecInv'
  OBVIOUS
<1>. USE DEF vars, expandVars, codecVars, callVars
<1>1. CodecTypeOK'
  BY DEF CodecInv, CodecTypeOK
<1>2. CallInv'
  BY DEF CodecInv, CallInv, ViewInBuffer, IsStruct, FieldCount
<1>. QED
  BY <1>1, <1>2 DEF CodecInv

(* The expansion runs before any call is made.                             *)
LEMMA ExpandStepTypes ==
  ASSUME ExpandInv, CodecInv, ExpandNext, UNCHANGED codecVars
  PROVE  CodecInv'
<1>. USE DEF codecVars, callVars
<1>1. phase # "emitted"
  BY DEF ExpandNext, ParseArgs, ParseField, CheckStructOptions, AddPayload, SumsDone,
         NeedsNoAlignment, AlignmentBeyondBase, AddPossibleLen, CheckResidues, ResiduesApply,
         AlignmentDone, EmitField, EmitDone
<1>2. pc' = "idle" /\ view' = NoView
  BY <1>1 DEF CodecInv, CallInv
<1>3. CodecTypeOK'
  BY DEF CodecInv, CodecTypeOK
<1>. QED
  BY <1>2, <1>3 DEF CodecInv, CallInv, ViewInBuffer

LEMMA ExpandInvInit == Init => ExpandInv
  BY InitTypes, InitOffsets DEF Init, ExpandInv

LEMMA ExpandInvStep == ExpandInv /\ [Next]_vars => ExpandInv'
<1>. SUFFICES ASSUME ExpandInv, [Next]_vars PROVE ExpandInv'
  OBVIOUS
<1>1. CASE ExpandNext
  BY <1>1, StepTypes, StepOffsets DEF ExpandInv
<1>2. CASE UNCHANGED expandVars
  BY <1>2, StutterTypes, StutterOffsets DEF ExpandInv
<1>. QED
  BY <1>1, <1>2 DEF Next, Stopped, vars

LEMMA CodecInvStep == ExpandInv /\ CodecInv /\ [Next]_vars => CodecInv'
<1>. SUFFICES ASSUME ExpandInv, CodecInv, [Next]_vars PROVE CodecInv'
  OBVIOUS
<1>1. CASE ExpandNext /\ UNCHANGED codecVars
  BY <1>1, ExpandStepTypes
<1>2. CASE phase = "emitted" /\ CodecNext /\ UNCHANGED expandVars
  BY <1>2, EncodeTypes, DecodeTypes, GetTypes DEF CodecNext
<1>3. CASE UNCHANGED vars
  BY <1>3, CodecStutter
<1>. QED
  BY <1>1, <1>2, <1>3 DEF Next, Stopped

-----------------------------------------------------------------------------
(* What the generated code has from the macro: the certificate of          *)
(* alignment, the bounds and the subset sums hold when it is emitted, and  *)
(* no call changes them.                                                   *)

MacroInv == TypeInv /\ OffsetsInv /\ AlignInv /\ LengthsInv /\ SumsInv

LEMMA MacroInit == Init => MacroInv
<1>1. ExpandInit => AlignInv
  BY DEF ExpandInit, AlignInv, AlignmentRejectionJustified
<1>2. ExpandInit => LengthsInv
  BY DEF ExpandInit, LengthsInv
<1>3. ExpandInit => SumsInv
  BY DEF ExpandInit, SumsInv, SumsRejectionJustified, FieldCount
<1>. QED
  BY <1>1, <1>2, <1>3, InitTypes, InitOffsets DEF Init, MacroInv

LEMMA MacroStep == MacroInv /\ [Next]_vars => MacroInv'
<1>. SUFFICES ASSUME MacroInv, [Next]_vars PROVE MacroInv'
  OBVIOUS
<1>1. CASE ExpandNext
  BY <1>1, StepTypes, StepOffsets, StepAlign, StepLengths, StepSums DEF MacroInv
<1>2. CASE UNCHANGED expandVars
  BY <1>2, StutterTypes, StutterOffsets, StutterAlign, StutterLengths, StutterSums DEF MacroInv
<1>. QED
  BY <1>1, <1>2 DEF Next, Stopped, vars

LEMMA MacroInvariant == Spec => []MacroInv
  BY MacroInit, MacroStep, PTL DEF Spec

(* The certificate covers two addresses of the buffer; it then holds at    *)
(* every address buffer_offset allows, for all contents.                   *)
LEMMA AlignedAnywhere ==
  ASSUME MacroInv, phase = "emitted", NEW c \in AllContents, NEW i \in 1 .. FieldCount,
         Borrows(layouts[i]), c[i] > 0, NEW lo \in Nat, LegalAddress(lo)
  PROVE  /\ (lo + FieldStarts(c)[i] + PayloadShift(layouts[i])) % Align(layouts[i].kind) = 0
         /\ decl.buffer # Unaligned => Align(layouts[i].kind) <= BaseAlign
         /\ decl.buffer = Unaligned => Align(layouts[i].kind) = 1
<1>. DEFINE a == Align(layouts[i].kind)
            start == FieldStarts(c)[i]
            shift == PayloadShift(layouts[i])
<1>1. TypeInv /\ ArgsSupported
  BY DEF MacroInv, TypeInv, ArgsChecked
<1>2. a \in PrimitiveSizes /\ shift \in Nat /\ start \in Nat
  BY <1>1, AlignTypes, AllStartTypes
<1>3. \A s \in LegalStarts : (s + start + shift) % a = 0
  <2>1. ~BorrowedMisaligned(c, i)
    BY DEF MacroInv, AlignInv, Certified
  <2>. QED
    BY <2>1 DEF BorrowedMisaligned
<1>. HIDE DEF a, start, shift
<1>4. PICK x \in Nat : x = start + shift /\ \A s \in Nat : s + start + shift = s + x
  BY <1>2
<1>5. \A s \in LegalStarts : (s + x) % a = 0
  BY <1>1, <1>3, <1>4, LegalStartTypes
<1>6. CASE decl.buffer = Unaligned
  <2>1. (0 + x) % a = 0 /\ (1 + x) % a = 0
    BY <1>1, <1>5, <1>6, LegalStartTypes
  <2>2. x % a = 0
    BY <2>1
  <2>3. ~(a > 1)
    BY <1>2, <2>1, <2>2, BaseNoMultiple
  <2>4. a = 1
    BY <1>2, <2>3 DEF PrimitiveSizes
  <2>5. (lo + x) % a = 0
    BY <2>4
  <2>. QED
    BY <1>4, <1>6, <2>4, <2>5 DEF a, start, shift
<1>7. CASE decl.buffer # Unaligned
  <2>1. decl.buffer \in Nat /\ LegalStarts = {decl.buffer, decl.buffer + BaseAlign}
    BY <1>1, <1>7, LegalStartTypes
  <2>2. PICK y \in Nat : y = decl.buffer + x
    BY <2>1
  <2>3. y % a = 0 /\ (BaseAlign + y) % a = 0
    <3>1. (decl.buffer + BaseAlign) + x = BaseAlign + y
      BY <2>1, <2>2, BaseAlignAssumption
    <3>. QED
      BY <1>5, <2>1, <2>2, <3>1
  <2>4. ~(a > BaseAlign)
    BY <1>2, <2>3, BaseNoMultiple, BaseAlignAssumption
  <2>5. a <= BaseAlign
    BY <1>2, <2>4, BaseAlignAssumption DEF PrimitiveSizes
  <2>6. lo % BaseAlign = decl.buffer
    BY <1>7 DEF LegalAddress
  <2>7. (lo + x) % a = (decl.buffer + x) % a
    BY <1>2, <2>1, <2>5, <2>6, AddressResidue, BaseAlignAssumption
  <2>. QED
    BY <1>4, <1>7, <2>2, <2>3, <2>5, <2>7 DEF a, start, shift
<1>. QED
  BY <1>6, <1>7

(* The state of the generated code always has its types: in particular     *)
(* every address a decoder or a getter reads without panicking is one of   *)
(* the buffer.                                                             *)
THEOREM CodecTypeCorrect == Spec => []CodecTypeOK
<1>1. Init => ExpandInv /\ CodecInv
  BY ExpandInvInit, CodecInitTypes
<1>2. ExpandInv /\ CodecInv /\ [Next]_vars => (ExpandInv /\ CodecInv)'
  BY ExpandInvStep, CodecInvStep
<1>3. ExpandInv /\ CodecInv => CodecTypeOK
  BY DEF CodecInv
<1>. QED
  BY <1>1, <1>2, <1>3, PTL DEF Spec

-----------------------------------------------------------------------------
(* The encoder.  encode_to writes what encoded_len counted, never panics,  *)
(* and is all or nothing.  Both loops add the same lengths: the invariant  *)
(* relates the position of each to the offsets found so far.               *)

\* Where the running loop found field i, the current one included.
Found(i) == IF i = fi THEN off ELSE at[i]

\* encoded_len adds up the lengths of the fields.
LenLoop ==
  pc = "len" =>
    /\ fi <= FieldCount + 1 /\ Len(at) = fi - 1
    /\ Found(1) = 0
    /\ \A i \in 1 .. fi - 1 : Found(i + 1) = Found(i) + EncodedFieldLen(layouts[i], val[i].count)
    /\ \A i \in 1 .. fi : Found(i) <= off

\* The steps of encode_to are at the offsets it found.
WriteLoop ==
  pc = "write" =>
    /\ fi <= FieldCount + 1 /\ Len(plan) = FieldCount + 1
    /\ plan[1] = 0 /\ plan[FieldCount + 1] = lim
    /\ \A i \in 1 .. FieldCount : plan[i + 1] = plan[i] + EncodedFieldLen(layouts[i], val[i].count)
    /\ \A i \in 1 .. FieldCount + 1 : plan[i] <= lim
    /\ off = plan[fi]

\* What has been written so far lies within the encoding.
Untouched ==
  /\ pc = "len" => mem = before
  /\ pc = "write" => \A a \in DOMAIN mem : a \notin slice.lo .. slice.lo + lim - 1 => mem[a] = before[a]

EncodeInv ==
  /\ pc \in {"len", "write"} => op = "encode"
  /\ pc = "walk" => op = "get"
  /\ op = "encode" => pc # "panic"
  /\ LenLoop /\ WriteLoop /\ Untouched /\ EncodeAtomic

-----------------------------------------------------------------------------
(* A field is written in as many bytes as encoded_len counts for it.       *)
LEMMA FieldBytesLen ==
  ASSUME NEW l \in FieldLayout, NEW v \in FieldValue, IsFieldValue(l, v)
  PROVE  Len(FieldBytes(l, v)) = EncodedFieldLen(l, v.count)
<1>1. /\ l.shape \in {"plain", "tagged", "implicit", "vec"} /\ l.width \in 0 .. MaxLenWidth
      /\ l.width \in Nat /\ Size(l.kind) \in Nat
      /\ v.count \in Nat /\ v.data \in Seq(Byte)
  BY KindTypes DEF FieldLayout, FieldValue, MaxLenWidth
<1>2. /\ Len(v.data) = v.count * Size(l.kind)
      /\ l.shape = "plain" => v.count = 1
      /\ l.shape \in {"tagged", "implicit"} => v.count \in {0, 1}
  BY <1>1 DEF IsFieldValue
<1>3. /\ v.count = 0 => Len(v.data) = 0
      /\ v.count = 1 => Len(v.data) = Size(l.kind)
  BY <1>1, <1>2
<1>4. CASE l.shape \in {"plain", "implicit"}
  <2>1. FieldBytes(l, v) = v.data
    BY <1>4 DEF FieldBytes
  <2>2. EncodedFieldLen(l, v.count) = IF v.count = 1 THEN Size(l.kind) ELSE 0
    BY <1>2, <1>4 DEF EncodedFieldLen
  <2>. QED
    BY <1>2, <1>3, <1>4, <2>1, <2>2
<1>5. CASE l.shape = "tagged"
  <2>1. FieldBytes(l, v) = IF v.count = 1 THEN << 1 >> \o v.data ELSE << 0 >>
    BY <1>5 DEF FieldBytes
  <2>2. EncodedFieldLen(l, v.count) = IF v.count = 1 THEN 1 + Size(l.kind) ELSE 1
    BY <1>5 DEF EncodedFieldLen
  <2>3. << 1 >> \in Seq(Byte) /\ Len(<< 1 >>) = 1 /\ Len(<< 0 >>) = 1
    BY RadixAssumption DEF Byte
  <2>4. Len(<< 1 >> \o v.data) = 1 + Len(v.data)
    BY <1>1, <2>3, ConcatProperties
  <2>. QED
    BY <1>2, <1>3, <1>5, <2>1, <2>2, <2>3, <2>4
<1>6. CASE l.shape = "vec"
  <2>. DEFINE header == LenHeader(v.count, l.width)
  <2>1. FieldBytes(l, v) = header \o v.data
    BY <1>6 DEF FieldBytes
  <2>2. EncodedFieldLen(l, v.count) = l.width + v.count * Size(l.kind)
    BY <1>6 DEF EncodedFieldLen
  <2>3. header \in Seq(Byte) /\ Len(header) = l.width
    BY <1>1, LenHeaderType
  <2>. HIDE DEF header
  <2>4. Len(header \o v.data) = Len(header) + Len(v.data)
    BY <1>1, <2>3, ConcatProperties
  <2>. QED
    BY <1>2, <2>1, <2>2, <2>3, <2>4
<1>. QED
  BY <1>1, <1>4, <1>5, <1>6

(* A write changes nothing outside the bytes written.                      *)
LEMMA WriteOutside ==
  ASSUME NEW m \in Memory, NEW a \in Nat, NEW bytes \in Seq(Byte),
         NEW x \in DOMAIN m, x \notin a .. a + Len(bytes) - 1
  PROVE  Write(m, a, bytes)[x] = m[x]
  BY DEF Write

(* One more field has been found.                                          *)
LEMMA FoundStep ==
  ASSUME fi \in Nat \ {0}, at \in Seq(Nat), off \in Nat, Len(at) = fi - 1,
         fi' = fi + 1, at' = Append(at, off)
  PROVE  /\ Len(at') = fi' - 1
         /\ \A i \in 1 .. fi + 1 : i = fi + 1 => Found(i)' = off'
         /\ \A i \in 1 .. fi : Found(i)' = Found(i)
<1>1. Len(at') = fi /\ at'[fi] = off /\ \A i \in 1 .. fi - 1 : at'[i] = at[i]
  OBVIOUS
<1>. QED
  BY <1>1 DEF Found

\* What the steps below need of the types.
LEMMA EncodeTypesOf ==
  ASSUME ExpandInv, CodecInv
  PROVE  /\ fi \in Nat \ {0} /\ off \in Nat /\ lim \in Nat /\ at \in Seq(Nat) /\ plan \in Seq(Nat)
         /\ mem \in Memory /\ slice.lo \in Nat /\ FieldCount \in Nat /\ val \in Seq(FieldValue)
         /\ layouts \in Seq(FieldLayout) /\ Len(layouts) = FieldCount
<1>1. /\ fi \in Nat \ {0} /\ off \in Nat /\ lim \in Nat /\ at \in Seq(Nat) /\ plan \in Seq(Nat)
      /\ mem \in Memory /\ slice.lo \in Nat /\ val \in Seq(FieldValue)
  BY DEF CodecInv, CodecTypeOK, Slice
<1>2. FieldCount \in Nat /\ layouts \in Seq(FieldLayout) /\ Len(layouts) = FieldCount
  BY DEF ExpandInv, TypeInv, ExpandTypeOK, FieldCount
<1>. QED
  BY <1>1, <1>2

LEMMA EncodeInit == Init => EncodeInv
  BY DEF Init, CodecInit, EncodeInv, LenLoop, WriteLoop, Untouched, EncodeAtomic, Returned

LEMMA StepAddLen ==
  ASSUME ExpandInv, CodecInv, EncodeInv, UNCHANGED expandVars, AddLen
  PROVE  EncodeInv'
<1>. DEFINE len == EncodedFieldLen(layouts[fi], val[fi].count)
<1>1. /\ fi \in 1 .. FieldCount /\ off \in Nat /\ at \in Seq(Nat) /\ FieldCount \in Nat
      /\ FieldCount' = FieldCount /\ layouts' = layouts
  BY EncodeTypesOf DEF AddLen, expandVars, FieldCount
<1>2. /\ pc = "len" /\ op = "encode" /\ LenLoop /\ mem = before
      /\ op' = op /\ val' = val /\ mem' = mem /\ before' = before /\ plan' = plan /\ lim' = lim
  BY DEF AddLen, EncodeInv, Untouched
<1>3. len \in Nat
  <2>1. IsStruct(val)
    BY <1>2 DEF CodecInv, CallInv
  <2>2. val[fi] \in FieldValue /\ layouts[fi] \in FieldLayout
    BY <1>1, <2>1, EncodeTypesOf DEF IsStruct
  <2>. QED
    BY <2>2, EncodedFieldLenType DEF FieldValue
<1>4. CASE pc' = "idle" /\ ret' = [NoReturn EXCEPT !.res = "LengthExceedsCapacity"]
  BY <1>2, <1>4 DEF EncodeInv, LenLoop, WriteLoop, Untouched, EncodeAtomic, Returned, NoReturn
<1>5. CASE pc' = pc /\ fi' = fi + 1 /\ off' = off + len /\ at' = Append(at, off)
  <2>1. /\ Len(at) = fi - 1 /\ Found(1) = 0
        /\ \A i \in 1 .. fi - 1 : Found(i + 1) = Found(i) + EncodedFieldLen(layouts[i], val[i].count)
        /\ \A i \in 1 .. fi : Found(i) <= off
    BY <1>2 DEF LenLoop
  <2>2. /\ Len(at') = fi' - 1
        /\ \A i \in 1 .. fi + 1 : i = fi + 1 => Found(i)' = off'
        /\ \A i \in 1 .. fi : Found(i)' = Found(i)
    BY <1>1, <1>5, <2>1, FoundStep
  <2>3. Found(fi) = off /\ \A i \in 1 .. fi : Found(i) \in Nat
    BY <1>1, <2>1 DEF Found
  <2>. HIDE DEF len
  <2>4. Found(1)' = 0
    BY <1>1, <2>1, <2>2
  <2>5. ASSUME NEW i \in 1 .. fi
        PROVE  Found(i + 1)' = Found(i)' + EncodedFieldLen(layouts[i], val[i].count)
    <3>1. CASE i < fi
      BY <1>1, <2>1, <2>2, <3>1
    <3>2. CASE i = fi
      BY <1>1, <1>5, <2>2, <2>3, <3>2 DEF len
    <3>. QED
      BY <1>1, <3>1, <3>2
  <2>6. ASSUME NEW i \in 1 .. fi + 1 PROVE Found(i)' <= off'
    <3>1. CASE i <= fi
      BY <1>1, <1>3, <1>5, <2>1, <2>2, <2>3, <3>1
    <3>2. CASE i = fi + 1
      BY <1>1, <1>3, <1>5, <2>2, <3>2
    <3>. QED
      BY <1>1, <3>1, <3>2
  <2>7. LenLoop'
    BY <1>1, <1>2, <1>5, <2>2, <2>4, <2>5, <2>6 DEF LenLoop
  <2>. QED
    BY <1>2, <1>5, <2>7 DEF EncodeInv, WriteLoop, Untouched, EncodeAtomic, Returned
<1>. QED
  BY <1>4, <1>5 DEF AddLen, Fail, Return, Advance

LEMMA StepCheckRoom ==
  ASSUME ExpandInv, CodecInv, EncodeInv, UNCHANGED expandVars, CheckRoom
  PROVE  EncodeInv'
<1>1. /\ fi = FieldCount + 1 /\ off \in Nat /\ at \in Seq(Nat) /\ FieldCount \in Nat
      /\ FieldCount' = FieldCount /\ layouts' = layouts
  BY EncodeTypesOf DEF CheckRoom, EncodeInv, LenLoop, expandVars, FieldCount
<1>2. /\ pc = "len" /\ op = "encode" /\ mem = before
      /\ op' = op /\ val' = val /\ mem' = mem /\ before' = before
  BY DEF CheckRoom, EncodeInv, Untouched
<1>3. /\ Len(at) = fi - 1 /\ Found(1) = 0
      /\ \A i \in 1 .. fi - 1 : Found(i + 1) = Found(i) + EncodedFieldLen(layouts[i], val[i].count)
      /\ \A i \in 1 .. fi : Found(i) <= off
  BY <1>2 DEF EncodeInv, LenLoop
<1>4. CASE pc' = "idle" /\ ret' = [NoReturn EXCEPT !.res = "OutputBufferTooSmall"]
  BY <1>2, <1>4 DEF EncodeInv, LenLoop, WriteLoop, Untouched, EncodeAtomic, Returned, NoReturn
<1>5. CASE /\ pc' = "write" /\ fi' = 1 /\ off' = 0 /\ lim' = off
           /\ plan' = Append(at, off) /\ at' = << >>
  <2>1. /\ Len(plan') = FieldCount + 1 /\ \A i \in 1 .. FieldCount + 1 : plan'[i] = Found(i)
    BY <1>1, <1>3, <1>5 DEF Found
  <2>2. plan'[1] = 0 /\ plan'[FieldCount + 1] = lim'
    BY <1>1, <1>3, <1>5, <2>1 DEF Found
  <2>3. \A i \in 1 .. FieldCount : plan'[i + 1] = plan'[i] + EncodedFieldLen(layouts[i], val[i].count)
    BY <1>1, <1>3, <2>1
  <2>4. \A i \in 1 .. FieldCount + 1 : plan'[i] <= lim'
    BY <1>1, <1>3, <1>5, <2>1
  <2>5. WriteLoop'
    BY <1>1, <1>2, <1>5, <2>1, <2>2, <2>3, <2>4 DEF WriteLoop
  <2>. QED
    BY <1>2, <1>5, <2>5 DEF EncodeInv, LenLoop, Untouched, EncodeAtomic, Returned
<1>. QED
  BY <1>4, <1>5 DEF CheckRoom, Fail, Return

LEMMA StepWriteField ==
  ASSUME ExpandInv, CodecInv, EncodeInv, UNCHANGED expandVars, WriteField
  PROVE  EncodeInv'
<1>. DEFINE bytes == FieldBytes(layouts[fi], val[fi])
            len == EncodedFieldLen(layouts[fi], val[fi].count)
<1>1. /\ fi \in 1 .. FieldCount /\ off \in Nat /\ lim \in Nat /\ plan \in Seq(Nat) /\ FieldCount \in Nat
      /\ slice.lo \in Nat /\ mem \in Memory
      /\ FieldCount' = FieldCount /\ layouts' = layouts
  BY EncodeTypesOf DEF WriteField, expandVars, FieldCount
<1>2. /\ pc = "write" /\ op = "encode"
      /\ UNCHANGED << op, slice, val, lim, plan, before, wrote >>
  BY DEF WriteField, EncodeInv
<1>3. /\ Len(plan) = FieldCount + 1 /\ plan[1] = 0 /\ plan[FieldCount + 1] = lim
      /\ \A i \in 1 .. FieldCount : plan[i + 1] = plan[i] + EncodedFieldLen(layouts[i], val[i].count)
      /\ \A i \in 1 .. FieldCount + 1 : plan[i] <= lim
      /\ off = plan[fi]
  BY <1>2 DEF EncodeInv, WriteLoop
<1>4. layouts[fi] \in FieldLayout /\ val[fi] \in FieldValue /\ IsFieldValue(layouts[fi], val[fi])
  <2>1. IsStruct(val)
    BY <1>2 DEF CodecInv, CallInv
  <2>. QED
    BY <1>1, <2>1, EncodeTypesOf DEF IsStruct
<1>5. bytes \in Seq(Byte) /\ Len(bytes) = len
  BY <1>4, FieldBytesType, FieldBytesLen
<1>6. Len(bytes) \in Nat
  BY <1>5
<1>7. off + Len(bytes) = plan[fi + 1] /\ off + Len(bytes) <= lim
  <2>1. plan[fi + 1] = plan[fi] + len /\ plan[fi + 1] <= lim
    BY <1>1, <1>3
  <2>. QED
    BY <1>3, <1>5, <2>1
<1>. HIDE DEF bytes, len
<1>8. /\ mem' = Write(mem, slice.lo + off, bytes)
      /\ fi' = fi + 1 /\ off' = off + Len(bytes) /\ pc' = pc
  <2>1. ~(off + Len(bytes) > lim)
    BY <1>1, <1>6, <1>7
  <2>. QED
    BY <2>1 DEF WriteField, Advance, bytes
<1>9. WriteLoop'
  <2>1. fi' <= FieldCount + 1 /\ off' = plan[fi']
    BY <1>1, <1>7, <1>8
  <2>. QED
    BY <1>1, <1>2, <1>3, <1>8, <2>1 DEF WriteLoop
<1>10. Untouched'
  <2>1. DOMAIN mem' = DOMAIN mem
    BY <1>8 DEF Write
  <2>. SUFFICES ASSUME NEW a \in DOMAIN mem, a \notin slice.lo .. slice.lo + lim - 1
                PROVE  mem'[a] = before[a]
    BY <1>2, <1>8, <2>1 DEF Untouched
  <2>2. mem[a] = before[a]
    BY <1>2 DEF EncodeInv, Untouched
  <2>3. a \in Int
    BY <1>1 DEF Memory
  <2>4. a \notin slice.lo + off .. slice.lo + off + Len(bytes) - 1
    <3>. DEFINE lo == slice.lo
                n == Len(bytes)
    <3>1. lo \in Nat /\ off \in Nat /\ lim \in Nat /\ n \in Nat /\ off + n <= lim
          /\ a \notin lo .. lo + lim - 1
      BY <1>1, <1>6, <1>7
    <3>. HIDE DEF lo, n
    <3>2. a \notin lo + off .. lo + off + n - 1
      BY ONLY <2>3, <3>1
    <3>. QED
      BY <3>2 DEF lo, n
  <2>5. slice.lo + off \in Nat
    BY <1>1
  <2>6. Write(mem, slice.lo + off, bytes)[a] = mem[a]
    BY <1>1, <1>5, <2>4, <2>5, WriteOutside
  <2>. QED
    BY <1>8, <2>2, <2>6
<1>. QED
  BY <1>2, <1>8, <1>9, <1>10 DEF EncodeInv, LenLoop, EncodeAtomic, Returned

LEMMA StepEncodeDone ==
  ASSUME ExpandInv, CodecInv, EncodeInv, UNCHANGED expandVars, EncodeDone
  PROVE  EncodeInv'
<1>1. /\ pc = "write" /\ pc' = "idle" /\ op' = "encode" /\ mem' = mem /\ before' = before
      /\ wrote' = [lo |-> slice.lo, hi |-> slice.lo + lim, val |-> val, at |-> Append(at, off)]
  BY DEF EncodeDone, Return, callVars, EncodeInv
<1>2. \A a \in DOMAIN mem : a \notin slice.lo .. slice.lo + lim - 1 => mem[a] = before[a]
  BY <1>1 DEF EncodeInv, Untouched
<1>3. wrote'.lo = slice.lo /\ wrote'.hi = slice.lo + lim /\ ret'.res = "ok"
  BY <1>1 DEF EncodeDone, Return, NoReturn
<1>a. mem' = mem /\ before' = before
  BY <1>1
<1>4. \A a \in DOMAIN mem' : a \notin wrote'.lo .. wrote'.hi - 1 => mem'[a] = before'[a]
  <2>. SUFFICES ASSUME NEW a \in DOMAIN mem, a \notin wrote'.lo .. wrote'.hi - 1
                PROVE  mem[a] = before[a]
    BY <1>a
  <2>1. a \in Int /\ slice.lo \in Int /\ lim \in Int
    BY EncodeTypesOf DEF Memory
  <2>2. a \notin slice.lo .. slice.lo + lim - 1
    BY <1>3, <2>1
  <2>. QED
    BY <1>2, <2>2
<1>5. EncodeAtomic'
  BY <1>3, <1>4 DEF EncodeAtomic
<1>. QED
  BY <1>1, <1>5 DEF EncodeInv, LenLoop, WriteLoop, Untouched

\* The first step of a call starts its loop; the other calls do not encode.
LEMMA StepOtherCalls ==
  ASSUME ExpandInv, CodecInv, EncodeInv, UNCHANGED expandVars,
         \/ StartEncode \/ StartDecode \/ ValidateField \/ DecodeDone
         \/ StartGet \/ GetStep \/ GetRead
  PROVE  EncodeInv'
<1>1. CASE StartEncode
  <2>1. /\ pc' = "len" /\ op' = "encode" /\ fi' = 1 /\ off' = 0 /\ at' = << >>
        /\ mem' = mem /\ before' = mem
    BY <1>1 DEF StartEncode, StartLoop
  <2>2. FieldCount' \in Nat /\ FieldCount' = FieldCount
    BY EncodeTypesOf DEF expandVars, FieldCount
  <2>3. LenLoop'
    BY <2>1, <2>2 DEF LenLoop, Found
  <2>. QED
    BY <2>1, <2>3 DEF EncodeInv, WriteLoop, Untouched, EncodeAtomic, Returned
<1>2. ASSUME op' # "encode", pc' \notin {"len", "write"}, pc' = "walk" => op' = "get"
      PROVE  EncodeInv'
  BY <1>2 DEF EncodeInv, LenLoop, WriteLoop, Untouched, EncodeAtomic, Returned
<1>3. CASE StartDecode
  <2>1. op' \in {"decode", "decode_prefix"} /\ pc' \in {"validate", "idle"}
    BY <1>3 DEF StartDecode, StartLoop
  <2>. QED
    BY <1>2, <2>1
<1>4. CASE ValidateField \/ DecodeDone
  <2>1. op' = op /\ pc = "validate" /\ pc' \in {"validate", "panic", "idle"}
    BY <1>4 DEF ValidateField, DecodeDone, Panic, Fail, Return, Advance, callVars
  <2>2. op \in {"decode", "decode_prefix"}
    BY <2>1 DEF CodecInv, CallInv
  <2>. QED
    BY <1>2, <2>1, <2>2
<1>5. CASE StartGet \/ GetStep \/ GetRead
  <2>1. op' = "get" /\ pc' \in {"walk", "panic", "idle"}
    BY <1>5 DEF StartGet, GetStep, GetRead, Panic, Return, callVars, EncodeInv
  <2>. QED
    BY <1>2, <2>1
<1>. QED
  BY <1>1, <1>3, <1>4, <1>5

LEMMA EncodeStep == ExpandInv /\ CodecInv /\ EncodeInv /\ [Next]_vars => EncodeInv'
<1>. SUFFICES ASSUME ExpandInv, CodecInv, EncodeInv, [Next]_vars PROVE EncodeInv'
  OBVIOUS
<1>1. CASE ExpandNext /\ UNCHANGED codecVars
  <2>1. phase # "emitted"
    BY <1>1 DEF ExpandNext, ParseArgs, ParseField, CheckStructOptions, AddPayload, SumsDone,
           NeedsNoAlignment, AlignmentBeyondBase, AddPossibleLen, CheckResidues, ResiduesApply,
           AlignmentDone, EmitField, EmitDone
  <2>2. pc = "idle"
    BY <2>1 DEF CodecInv, CallInv
  <2>. QED
    BY <1>1, <2>2 DEF codecVars, callVars, EncodeInv, LenLoop, WriteLoop, Untouched, EncodeAtomic,
                     Returned
<1>2. CASE phase = "emitted" /\ CodecNext /\ UNCHANGED expandVars
  BY <1>2, StepAddLen, StepCheckRoom, StepWriteField, StepEncodeDone, StepOtherCalls DEF CodecNext
<1>3. CASE UNCHANGED vars
  BY <1>3 DEF vars, expandVars, codecVars, callVars, EncodeInv, LenLoop, WriteLoop, Untouched,
              EncodeAtomic, Returned, Found, FieldCount
<1>. QED
  BY <1>1, <1>2, <1>3 DEF Next, Stopped

LEMMA EncodeInvariant == Spec => [](ExpandInv /\ CodecInv /\ EncodeInv)
<1>1. Init => ExpandInv /\ CodecInv /\ EncodeInv
  BY ExpandInvInit, CodecInitTypes, EncodeInit
<1>2. ExpandInv /\ CodecInv /\ EncodeInv /\ [Next]_vars => (ExpandInv /\ CodecInv /\ EncodeInv)'
  BY ExpandInvStep, CodecInvStep, EncodeStep
<1>. QED
  BY <1>1, <1>2, PTL DEF Spec

(* The steps of encode_to write each field where encoded_len counted it,   *)
(* for every struct and every value.                                       *)
THEOREM EncoderWritesAsCounted == Spec => []WritesAsCounted
<1>1. EncodeInv => WritesAsCounted
  BY DEF EncodeInv, WriteLoop, WritesAsCounted
<1>. QED
  BY <1>1, EncodeInvariant, PTL

(* encode_to is all or nothing: it fails before it writes, and writes only *)
(* its own encoding.                                                       *)
THEOREM EncoderAtomic == Spec => []EncodeAtomic
<1>1. EncodeInv => EncodeAtomic
  BY DEF EncodeInv
<1>. QED
  BY <1>1, EncodeInvariant, PTL

(* encode_to never panics: each slice it copies into is in range.  This is *)
(* the encoder's half of NoPanic.                                          *)
THEOREM EncoderNeverPanics == Spec => [](op = "encode" => NoPanic)
<1>1. EncodeInv => (op = "encode" => NoPanic)
  BY DEF EncodeInv, NoPanic
<1>. QED
  BY <1>1, EncodeInvariant, PTL

-----------------------------------------------------------------------------
(* The decoder and the getters.  The decoder never panics, and a getter    *)
(* finds each field where the decoder validated it.  Validation and the    *)
(* walk of a getter are separate formulas over the same bytes; the         *)
(* invariant says that the offsets the decoder found are a walk from the   *)
(* start, through every fixed offset the macro computed, and stay so for   *)
(* as long as the view lives.                                              *)

\* What a walk adds for the field at address a of memory m.
StepLen(m, mask, a, l) ==
  CASE l.shape = "plain"    -> Size(l.kind)
    [] l.shape = "tagged"   -> IF m[a] = 0 THEN 1 ELSE 1 + Size(l.kind)
    [] l.shape = "implicit" -> IF l.bit \in mask THEN Size(l.kind) ELSE 0
    [] l.shape = "vec"      -> l.width + ReadLenHeader(m, a, l.width) * Size(l.kind)

\* The tag or header the decoder accepts at offset o, address a: it is among
\* the first len bytes and announces no more than it may.
Accepted(m, a, l, o, len) ==
  /\ l.shape = "tagged" => o < len /\ m[a] \in {0, 1}
  /\ l.shape = "vec" => /\ o + l.width <= len
                        /\ ReadLenHeader(m, a, l.width) <= Capacity(l.width)

\* Options are implicit in an implicit struct only.
OptionModes ==
  \A i \in 1 .. FieldCount : layouts[i].shape = "implicit" => decl.option = "implicit"

ValidateLoop ==
  pc = "validate" =>
    /\ fi <= FieldCount + 1 /\ Len(at) = fi - 1
    /\ Found(1) = 0 /\ LegalAddress(slice.lo)
    /\ decl.option = "implicit" => SliceLen \in ImplicitLens
    /\ \A i \in 1 .. fi - 1 :
         /\ Found(i + 1) = Found(i) + StepLen(mem, MaskForLen(SliceLen), slice.lo + Found(i), layouts[i])
         /\ Accepted(mem, slice.lo + Found(i), layouts[i], Found(i), Found(i + 1))
    /\ \A i \in 1 .. fi : Found(i) <= off
    /\ off <= SliceLen
    /\ \A i \in 1 .. fi : i <= FieldCount /\ offsets[i] # Variable => Found(i) = offsets[i]

\* The fields of the view v, in the bytes it was decoded from.
ViewWalks(v) ==
  /\ Len(v.at) = FieldCount + 1 /\ v.at[1] = 0 /\ LegalAddress(v.lo)
  /\ decl.option = "implicit" => v.hi - v.lo \in ImplicitLens
  /\ \A i \in 1 .. FieldCount :
       /\ v.at[i + 1] = v.at[i] + StepLen(mem, MaskForLen(v.hi - v.lo), v.lo + v.at[i], layouts[i])
       /\ Accepted(mem, v.lo + v.at[i], layouts[i], v.at[i], v.at[i + 1])
       /\ offsets[i] # Variable => v.at[i] = offsets[i]
  /\ \A i \in 1 .. FieldCount + 1 : v.at[i] <= v.hi - v.lo

GetLoop ==
  pc = "walk" => /\ view # NoView
                 /\ slice.lo = view.lo /\ slice.hi = view.hi
                 /\ off = view.at[fi]

ViewInv ==
  /\ OptionModes
  /\ pc \in {"len", "write", "validate"} => view = NoView
  /\ op \in {"decode", "decode_prefix"} => pc # "panic"
  /\ ValidateLoop /\ GetLoop
  /\ view # NoView => ViewWalks(view)

-----------------------------------------------------------------------------
LEMMA WalkLenIsStepLen ==
  ASSUME NEW l \in FieldLayout, NEW o \in Nat
  PROVE  WalkLen(l, o) = StepLen(mem, MaskForLen(SliceLen), slice.lo + o, l)
  BY DEF WalkLen, StepLen, ByteAt, HeaderAt, Present

(* What a field passes validation with is what a walk steps over.          *)
LEMMA ValidateOk ==
  ASSUME mem \in Memory, slice \in Slice, NEW l \in FieldLayout, NEW o \in Nat, o <= SliceLen,
         Validate(l, o).res = "ok"
  PROVE  LET step == StepLen(mem, MaskForLen(SliceLen), slice.lo + o, l)
         IN /\ step \in Nat /\ Validate(l, o).end = o + step /\ o + step <= SliceLen
            /\ Accepted(mem, slice.lo + o, l, o, o + step)
<1>. DEFINE size == Size(l.kind)
            step == StepLen(mem, MaskForLen(SliceLen), slice.lo + o, l)
<1>1. /\ l.shape \in {"plain", "tagged", "implicit", "vec"} /\ l.width \in 0 .. MaxLenWidth
      /\ l.width \in Nat /\ size \in Nat /\ SliceLen \in Int
  BY KindTypes DEF FieldLayout, MaxLenWidth, SliceLen, Slice
<1>2. ASSUME NEW x \in Nat, ValidatePayload(l, x).res = "ok"
      PROVE  ValidatePayload(l, x).end = x + size /\ x + size <= SliceLen
  <2>1. ValidatePayload(l, x) = Ok(x + size)
    BY <1>2 DEF ValidatePayload, Bad
  <2>2. ~(x + size > SliceLen)
    BY <1>2 DEF ValidatePayload, Bad
  <2>. HIDE DEF size
  <2>. QED
    BY <1>1, <2>1, <2>2 DEF Ok
<1>3. CASE l.shape = "plain"
  <2>1. Validate(l, o) = ValidatePayload(l, o) /\ step = size
    BY <1>3 DEF Validate, StepLen
  <2>2. Validate(l, o).end = o + size /\ o + size <= SliceLen
    BY <1>2, <2>1
  <2>. HIDE DEF step, size
  <2>. QED
    BY <1>1, <1>3, <2>1, <2>2 DEF Accepted, step
<1>4. CASE l.shape = "implicit"
  <2>1. /\ SliceLen \in ImplicitLens
        /\ Validate(l, o) = IF l.bit \in MaskForLen(SliceLen) THEN ValidatePayload(l, o) ELSE Ok(o)
    BY <1>4 DEF Validate, Present, Bad
  <2>2. step = IF l.bit \in MaskForLen(SliceLen) THEN size ELSE 0
    BY <1>4 DEF StepLen
  <2>3. Validate(l, o).end = o + step /\ o + step <= SliceLen /\ step \in Nat
    <3>. HIDE DEF step, size
    <3>1. CASE l.bit \in MaskForLen(SliceLen)
      BY <1>1, <1>2, <2>1, <2>2, <3>1
    <3>2. CASE l.bit \notin MaskForLen(SliceLen)
      BY <1>1, <2>1, <2>2, <3>2 DEF Ok
    <3>. QED
      BY <3>1, <3>2
  <2>. QED
    BY <1>4, <2>3 DEF Accepted
<1>5. CASE l.shape = "tagged"
  <2>1. /\ o < SliceLen
        /\ \/ ByteAt(o) = 0 /\ Validate(l, o) = Ok(o + 1)
           \/ ByteAt(o) = 1 /\ Validate(l, o) = ValidatePayload(l, o + 1)
    BY <1>1, <1>5 DEF Validate, ValidateTagged, Bad
  <2>2. step = IF ByteAt(o) = 0 THEN 1 ELSE 1 + size
    BY <1>5 DEF StepLen, ByteAt
  <2>3. Validate(l, o).end = o + step /\ o + step <= SliceLen /\ step \in Nat /\ step >= 1
    <3>. HIDE DEF step, size
    <3>1. CASE ByteAt(o) = 0 /\ Validate(l, o) = Ok(o + 1)
      BY <1>1, <2>1, <2>2, <3>1 DEF Ok
    <3>2. CASE ByteAt(o) = 1 /\ Validate(l, o) = ValidatePayload(l, o + 1)
      <4>1. Validate(l, o).end = o + 1 + size /\ o + 1 + size <= SliceLen
        BY <1>2, <3>2
      <4>. QED
        BY <1>1, <2>2, <3>2, <4>1
    <3>. QED
      BY <2>1, <3>1, <3>2
  <2>. HIDE DEF step
  <2>4. Accepted(mem, slice.lo + o, l, o, o + step)
    BY <1>5, <2>1, <2>3 DEF Accepted, ByteAt
  <2>. QED
    BY <2>3, <2>4 DEF step
<1>6. CASE l.shape = "vec"
  <2>. DEFINE header == HeaderAt(o, l.width)
  <2>1. /\ ~(o + l.width > SliceLen)
        /\ ~(o + l.width + header * size > SliceLen)
        /\ Validate(l, o) = Ok(o + l.width + header * size)
        /\ ~(header > Capacity(l.width))
    BY <1>6 DEF Validate, ValidateVec, Bad
  <2>2. header \in Nat
    <3>1. slice.lo + o \in Nat /\ slice.lo + o + l.width <= MemLen
      BY <1>1, <2>1, MemoryAssumption DEF Slice, SliceLen
    <3>. QED
      BY <1>1, <3>1, ReadLenHeaderType DEF HeaderAt
  <2>3. step = l.width + header * size
    BY <1>6 DEF StepLen, HeaderAt
  <2>. HIDE DEF header, size
  <2>4. header * size \in Nat
    BY <1>1, <2>2
  <2>. DEFINE data == header * size
  <2>. HIDE DEF data
  <2>5. data \in Nat /\ step = l.width + data /\ Validate(l, o) = Ok(o + l.width + data)
        /\ ~(o + l.width + data > SliceLen)
    BY <2>1, <2>3, <2>4 DEF data
  <2>. HIDE DEF step
  <2>6. Validate(l, o).end = o + step /\ o + step <= SliceLen /\ step \in Nat /\ l.width <= step
    BY <1>1, <2>5 DEF Ok
  <2>7. Accepted(mem, slice.lo + o, l, o, o + step)
    <3>1. header <= Capacity(l.width)
      BY <1>1, <2>1, <2>2, CapacityType
    <3>. QED
      BY <1>1, <1>6, <2>6, <3>1 DEF Accepted, header, HeaderAt
  <2>. QED
    BY <2>6, <2>7 DEF step
<1>. QED
  BY <1>1, <1>3, <1>4, <1>5, <1>6

LEMMA ValidateNeverPanics ==
  ASSUME mem \in Memory, slice \in Slice, NEW l \in FieldLayout, NEW o \in Nat,
         l.shape = "implicit" => SliceLen \in ImplicitLens
  PROVE  Validate(l, o).res # "panic"
<1>1. \A x : Ok(x).res # "panic"
  BY DEF Ok
<1>2. \A x : ValidatePayload(l, x).res # "panic"
  BY <1>1 DEF ValidatePayload, Bad
<1>3. ValidateTagged(l, o).res # "panic"
  BY <1>1, <1>2 DEF ValidateTagged, Bad
<1>4. ValidateVec(l, o).res # "panic"
  BY <1>1 DEF ValidateVec, Bad
<1>5. l.shape \in {"plain", "tagged", "implicit", "vec"}
  BY DEF FieldLayout
<1>. QED
  BY <1>1, <1>2, <1>3, <1>4, <1>5 DEF Validate

LEMMA ExpandOptionModes ==
  ASSUME ExpandInv, OptionModes, ExpandNext
  PROVE  OptionModes'
<1>1. decl' = decl /\ layouts \in Seq(FieldLayout)
  BY DEF ExpandInv, TypeInv, ExpandTypeOK, ExpandNext, ParseArgs, ParseField, CheckStructOptions,
         AddPayload, SumsDone, NeedsNoAlignment, AlignmentBeyondBase, AddPossibleLen,
         CheckResidues, ResiduesApply, AlignmentDone, EmitField, EmitDone
<1>2. CASE ParseField /\ layouts' # layouts
  <2>. DEFINE f == decl.fields[idx]
  <2>1. layouts' = Append(layouts, Classify(f)) /\ FieldSupported(f)
    BY <1>2 DEF ParseField
  <2>2. Classify(f).shape = "implicit" => decl.option = "implicit"
    BY <2>1 DEF Classify, FieldSupported
  <2>. DEFINE c == Classify(f)
  <2>. HIDE DEF c
  <2>3. layouts' = Append(layouts, c) /\ (c.shape = "implicit" => decl.option = "implicit")
    BY <2>1, <2>2 DEF c
  <2>4. /\ Len(layouts') = Len(layouts) + 1 /\ layouts'[Len(layouts) + 1] = c
        /\ \A i \in 1 .. Len(layouts) : layouts'[i] = layouts[i]
    BY <1>1, <2>3
  <2>. SUFFICES ASSUME NEW i \in 1 .. Len(layouts) + 1, layouts'[i].shape = "implicit"
                PROVE  decl.option = "implicit"
    BY <1>1, <2>4 DEF OptionModes, FieldCount
  <2>5. CASE i \in 1 .. Len(layouts)
    BY <2>4, <2>5 DEF OptionModes, FieldCount
  <2>6. CASE i = Len(layouts) + 1
    BY <2>3, <2>4, <2>6
  <2>. QED
    BY <1>1, <2>5, <2>6
<1>3. CASE layouts' = layouts
  BY <1>1, <1>3 DEF OptionModes, FieldCount
<1>. QED
  BY <1>2, <1>3 DEF ExpandNext, ParseArgs, CheckStructOptions, AddPayload, SumsDone,
     NeedsNoAlignment, AlignmentBeyondBase, AddPossibleLen, CheckResidues, AlignmentDone,
     EmitField, EmitDone

LEMMA ViewInit == Init => ViewInv
  BY DEF Init, ExpandInit, CodecInit, ViewInv, OptionModes, ValidateLoop, GetLoop, FieldCount

-----------------------------------------------------------------------------
(* The steps of the generated code.                                        *)

\* Nothing the walks depend on changes between the calls of one expansion.
LEMMA SameExpansion ==
  ASSUME UNCHANGED expandVars
  PROVE  /\ FieldCount' = FieldCount /\ layouts' = layouts /\ decl' = decl /\ offsets' = offsets
         /\ ImplicitLens' = ImplicitLens /\ \A n : MaskForLen(n)' = MaskForLen(n)
         /\ OptionModes => OptionModes' /\ \A a : LegalAddress(a)' = LegalAddress(a)
  BY DEF expandVars, FieldCount, ImplicitLens, MaskForLen, OptionModes, LegalAddress

LEMMA ViewKept ==
  ASSUME UNCHANGED expandVars, mem' = mem, view' = view, view # NoView => ViewWalks(view)
  PROVE  (view # NoView => ViewWalks(view))'
<1>1. /\ FieldCount' = FieldCount /\ layouts' = layouts /\ decl' = decl /\ offsets' = offsets
      /\ ImplicitLens' = ImplicitLens /\ MaskForLen(view.hi - view.lo)' = MaskForLen(view.hi - view.lo)
      /\ LegalAddress(view.lo)' = LegalAddress(view.lo)
  BY DEF expandVars, FieldCount, ImplicitLens, MaskForLen, LegalAddress
<1>. QED
  BY <1>1 DEF ViewWalks

LEMMA StepValidateField ==
  ASSUME ExpandInv, CodecInv, ViewInv, UNCHANGED expandVars, phase = "emitted", ValidateField
  PROVE  ViewInv'
<1>. DEFINE l == layouts[fi]
            outcome == Validate(l, off)
            step == StepLen(mem, MaskForLen(SliceLen), slice.lo + off, l)
<1>1. /\ fi \in 1 .. FieldCount /\ off \in Nat /\ at \in Seq(Nat) /\ FieldCount \in Nat
      /\ l \in FieldLayout /\ mem \in Memory /\ slice \in Slice
  <2>1. fi \in Nat \ {0} /\ off \in Nat /\ at \in Seq(Nat) /\ FieldCount \in Nat /\ mem \in Memory
    BY EncodeTypesOf
  <2>2. fi <= FieldCount
    BY DEF ValidateField
  <2>3. slice \in Slice
    BY DEF CodecInv, CodecTypeOK
  <2>4. fi \in 1 .. FieldCount
    BY <2>1, <2>2
  <2>. QED
    BY <2>1, <2>3, <2>4, Emitted
<1>2. /\ pc = "validate" /\ view = NoView /\ UNCHANGED << mem, op, slice, view >>
      /\ OptionModes /\ op \in {"decode", "decode_prefix"}
  BY DEF ValidateField, ViewInv, CodecInv, CallInv
<1>3. /\ Len(at) = fi - 1 /\ Found(1) = 0 /\ LegalAddress(slice.lo)
      /\ decl.option = "implicit" => SliceLen \in ImplicitLens
      /\ \A i \in 1 .. fi - 1 :
           /\ Found(i + 1) = Found(i) + StepLen(mem, MaskForLen(SliceLen), slice.lo + Found(i), layouts[i])
           /\ Accepted(mem, slice.lo + Found(i), layouts[i], Found(i), Found(i + 1))
      /\ \A i \in 1 .. fi : Found(i) <= off
      /\ off <= SliceLen
      /\ \A i \in 1 .. fi : i <= FieldCount /\ offsets[i] # Variable => Found(i) = offsets[i]
  BY <1>2 DEF ViewInv, ValidateLoop
<1>4. outcome.res # "panic"
  BY <1>1, <1>2, <1>3, ValidateNeverPanics DEF OptionModes
<1>5. CASE pc' = "idle"
  BY <1>2, <1>5, SameExpansion DEF ViewInv, ValidateLoop, GetLoop
<1>6. CASE /\ outcome.res = "ok" /\ pc' = pc
           /\ fi' = fi + 1 /\ off' = outcome.end /\ at' = Append(at, off)
  <2>1. /\ step \in Nat /\ off' = off + step /\ off + step <= SliceLen
        /\ Accepted(mem, slice.lo + off, l, off, off + step)
    BY <1>1, <1>3, <1>6, ValidateOk
  <2>2. /\ Len(at') = fi' - 1
        /\ \A i \in 1 .. fi + 1 : i = fi + 1 => Found(i)' = off'
        /\ \A i \in 1 .. fi : Found(i)' = Found(i)
    BY <1>1, <1>3, <1>6, FoundStep
  <2>3. Found(fi) = off /\ \A i \in 1 .. fi : Found(i) \in Nat
    BY <1>1, <1>3 DEF Found
  <2>4. SliceLen' = SliceLen /\ MaskForLen(SliceLen)' = MaskForLen(SliceLen)
    BY <1>2 DEF SliceLen, MaskForLen, expandVars
  <2>5. ASSUME NEW i \in 1 .. fi
        PROVE  /\ Found(i + 1)' = Found(i)' + StepLen(mem, MaskForLen(SliceLen), slice.lo + Found(i)', layouts[i])
               /\ Accepted(mem, slice.lo + Found(i)', layouts[i], Found(i)', Found(i + 1)')
    <3>. HIDE DEF step, l
    <3>1. CASE i < fi
      <4>1. i \in 1 .. fi - 1 /\ i + 1 \in 1 .. fi
        BY <1>1, <3>1
      <4>2. Found(i)' = Found(i) /\ Found(i + 1)' = Found(i + 1)
        BY <2>2, <4>1
      <4>. QED
        BY <1>3, <4>1, <4>2
    <3>2. CASE i = fi
      <4>1. Found(i)' = off /\ Found(i + 1)' = off + step
        BY <1>1, <2>1, <2>2, <2>3, <3>2
      <4>. QED
        BY <2>1, <3>2, <4>1 DEF step, l
    <3>. QED
      BY <1>1, <3>1, <3>2
  <2>6. ASSUME NEW i \in 1 .. fi + 1 PROVE Found(i)' <= off'
    <3>. HIDE DEF step, l
    <3>1. CASE i <= fi
      BY <1>1, <1>3, <2>1, <2>2, <2>3, <3>1
    <3>2. CASE i = fi + 1
      BY <1>1, <2>1, <2>2, <3>2
    <3>. QED
      BY <1>1, <3>1, <3>2
  <2>7. ASSUME NEW i \in 1 .. fi + 1, i <= FieldCount, offsets[i] # Variable
        PROVE  Found(i)' = offsets[i]
    <3>1. CASE i <= fi
      BY <1>1, <1>3, <2>2, <2>7, <3>1
    <3>2. CASE i = fi + 1
      <4>1. /\ offsets[fi] # Variable /\ IsFixed(l) /\ offsets[i] = offsets[fi] + Size(l.kind)
        <5>1. i \in 2 .. Len(offsets) /\ i - 1 = fi
          BY <1>1, <2>7, <3>2 DEF ExpandInv, OffsetsInv
        <5>. QED
          BY <5>1, <2>7 DEF ExpandInv, OffsetsInv
      <4>2. offsets[fi] = off
        BY <1>1, <1>3, <2>3, <4>1
      <4>3. step = Size(l.kind)
        BY <4>1 DEF IsFixed, StepLen
      <4>. HIDE DEF step, l
      <4>. QED
        BY <2>1, <2>2, <3>2, <4>1, <4>2, <4>3
    <3>. QED
      BY <1>1, <3>1, <3>2
  <2>. HIDE DEF step, l, outcome
  <2>8. Found(1)' = 0 /\ fi' <= FieldCount + 1
    BY <1>1, <1>3, <1>6, <2>2
  <2>9. ValidateLoop'
    BY <1>1, <1>2, <1>3, <1>6, <2>1, <2>2, <2>4, <2>5, <2>6, <2>7, <2>8, SameExpansion DEF ValidateLoop
  <2>. QED
    BY <1>2, <1>6, <2>9, SameExpansion DEF ViewInv, GetLoop
<1>. QED
  BY <1>4, <1>5, <1>6 DEF ValidateField, Panic, Fail, Return, Advance

LEMMA StepStartDecode ==
  ASSUME ExpandInv, CodecInv, ViewInv, UNCHANGED expandVars, phase = "emitted", StartDecode
  PROVE  ViewInv'
<1>1. PICK s \in Slices, name \in {"decode", "decode_prefix"} :
        \/ EntryError(s) = "ok" /\ StartLoop(name, s, "validate")
        \/ StartLoop(name, s, "idle")
  BY DEF StartDecode
<1>2. view' = NoView /\ OptionModes' /\ op' \in {"decode", "decode_prefix"} /\ pc' \in {"validate", "idle"}
  BY <1>1, SameExpansion DEF StartDecode, ViewInv, StartLoop
<1>3. CASE EntryError(s) = "ok" /\ StartLoop(name, s, "validate")
  <2>1. slice' = s /\ fi' = 1 /\ off' = 0 /\ at' = << >>
    BY <1>3 DEF StartLoop
  <2>2. s.lo \in Nat /\ s.hi \in Nat /\ s.lo <= s.hi
    BY CallsAssumption, MemoryAssumption DEF Slice
  <2>3. LegalAddress(s.lo) /\ (decl.option = "implicit" => s.hi - s.lo \in ImplicitLens)
    BY <1>3 DEF EntryError, LegalAddress
  <2>4. Found(1)' = 0 /\ \A i \in 1 .. fi' : i = 1
    BY <2>1 DEF Found
  <2>5. FieldCount \in Nat /\ (1 <= FieldCount => offsets[1] = 0)
    <3>1. FieldCount \in Nat
      BY EncodeTypesOf
    <3>2. offsets # << >> => offsets[1] = 0
      BY DEF ExpandInv, OffsetsInv
    <3>3. Len(offsets) = FieldCount
      BY DEF ExpandInv, OffsetsInv
    <3>. QED
      BY <3>1, <3>2, <3>3
  <2>6. SliceLen' = s.hi - s.lo
    BY <2>1 DEF SliceLen
  <2>7. \A i \in 1 .. fi' : Found(i)' = 0
    BY <2>4
  <2>8. LegalAddress(slice.lo)'
    BY <2>1, <2>3 DEF LegalAddress, expandVars
  <2>9. ValidateLoop'
    BY <1>2, <2>1, <2>2, <2>3, <2>4, <2>5, <2>6, <2>7, <2>8, SameExpansion DEF ValidateLoop
  <2>. QED
    BY <1>2, <1>3, <2>9 DEF ViewInv, GetLoop, StartLoop
<1>4. CASE StartLoop(name, s, "idle")
  BY <1>2, <1>4 DEF ViewInv, ValidateLoop, GetLoop, StartLoop
<1>. QED
  BY <1>1, <1>3, <1>4

LEMMA StepDecodeDone ==
  ASSUME ExpandInv, CodecInv, ViewInv, UNCHANGED expandVars, phase = "emitted", DecodeDone
  PROVE  ViewInv'
<1>1. /\ fi = FieldCount + 1 /\ off \in Nat /\ at \in Seq(Nat) /\ FieldCount \in Nat
      /\ slice.lo \in Nat /\ SliceLen \in Int
  <2>1. fi \in Nat \ {0} /\ off \in Nat /\ at \in Seq(Nat) /\ FieldCount \in Nat /\ slice.lo \in Nat
    BY EncodeTypesOf
  <2>2. fi > FieldCount /\ fi <= FieldCount + 1
    BY DEF DecodeDone, ViewInv, ValidateLoop
  <2>3. SliceLen \in Int
    <3>1. slice \in Slice
      BY DEF CodecInv, CodecTypeOK
    <3>2. slice.lo \in 0 .. MemLen /\ slice.hi \in 0 .. MemLen
      BY ONLY <3>1 DEF Slice
    <3>. QED
      BY ONLY <3>2, MemoryAssumption DEF SliceLen
  <2>4. fi = FieldCount + 1
    BY ONLY <2>1, <2>2
  <2>. QED
    BY <2>1, <2>3, <2>4
<1>2. /\ pc = "validate" /\ view = NoView /\ UNCHANGED << mem, callVars >>
      /\ op' = op /\ OptionModes /\ op \in {"decode", "decode_prefix"}
      /\ decl.option = "implicit" => op = "decode"
  BY DEF DecodeDone, ViewInv, CodecInv, CallInv, callVars
<1>3. /\ Len(at) = fi - 1 /\ Found(1) = 0 /\ LegalAddress(slice.lo)
      /\ decl.option = "implicit" => SliceLen \in ImplicitLens
      /\ \A i \in 1 .. fi - 1 :
           /\ Found(i + 1) = Found(i) + StepLen(mem, MaskForLen(SliceLen), slice.lo + Found(i), layouts[i])
           /\ Accepted(mem, slice.lo + Found(i), layouts[i], Found(i), Found(i + 1))
      /\ \A i \in 1 .. fi : Found(i) <= off
      /\ off <= SliceLen
      /\ \A i \in 1 .. fi : i <= FieldCount /\ offsets[i] # Variable => Found(i) = offsets[i]
  BY <1>2 DEF ViewInv, ValidateLoop
<1>4. /\ pc' = "idle"
      /\ \/ view' = view
         \/ /\ view' = [lo |-> slice.lo, hi |-> slice.lo + off, at |-> Append(at, off)]
            /\ op = "decode" => off = SliceLen
  <2>1. ~(off > SliceLen)
    BY <1>1, <1>3
  <2>. QED
    BY <2>1 DEF DecodeDone, Fail, Return
<1>5. CASE view' = view
  BY <1>2, <1>4, <1>5, SameExpansion DEF ViewInv, ValidateLoop, GetLoop
<1>6. CASE /\ view' = [lo |-> slice.lo, hi |-> slice.lo + off, at |-> Append(at, off)]
           /\ op = "decode" => off = SliceLen
  <2>1. /\ view'.lo = slice.lo /\ view'.hi = slice.lo + off /\ view'.hi - view'.lo = off
        /\ view'.at = Append(at, off)
    BY <1>1, <1>6
  <2>2. /\ Len(view'.at) = FieldCount + 1
        /\ \A i \in 1 .. FieldCount + 1 : view'.at[i] = Found(i)
    <3>1. Len(at) = FieldCount
      BY <1>1, <1>3
    <3>2. Len(Append(at, off)) = FieldCount + 1
      BY <1>1, <3>1
    <3>3. ASSUME NEW i \in 1 .. FieldCount + 1 PROVE Append(at, off)[i] = Found(i)
      <4>1. CASE i = FieldCount + 1
        BY <1>1, <3>1, <4>1 DEF Found
      <4>2. CASE i \in 1 .. FieldCount
        BY <1>1, <3>1, <4>2 DEF Found
      <4>3. i = FieldCount + 1 \/ i \in 1 .. FieldCount
        <5>1. FieldCount \in Nat
          BY <1>1
        <5>. QED
          BY <5>1
      <4>. QED
        BY <4>1, <4>2, <4>3, Zenon
    <3>. QED
      BY <2>1, <3>2, <3>3
  <2>3. decl.option = "implicit" => off = SliceLen
    BY <1>2, <1>6
  <2>4. ASSUME NEW i \in 1 .. FieldCount, NEW a
        PROVE  StepLen(mem, MaskForLen(off), a, layouts[i]) = StepLen(mem, MaskForLen(SliceLen), a, layouts[i])
    <3>1. CASE layouts[i].shape = "implicit"
      BY <1>2, <2>3, <3>1 DEF OptionModes
    <3>2. CASE layouts[i].shape # "implicit"
      BY <3>2, Emitted DEF StepLen, FieldLayout
    <3>. QED
      BY <3>1, <3>2
  <2>5. \A i \in 1 .. FieldCount : i + 1 \in 1 .. FieldCount + 1 /\ i \in 1 .. FieldCount + 1 /\ i \in 1 .. fi - 1
    BY <1>1
  <2>6. ASSUME NEW i \in 1 .. FieldCount
        PROVE  /\ view'.at[i + 1] = view'.at[i]
                    + StepLen(mem, MaskForLen(view'.hi - view'.lo), view'.lo + view'.at[i], layouts[i])
               /\ Accepted(mem, view'.lo + view'.at[i], layouts[i], view'.at[i], view'.at[i + 1])
               /\ offsets[i] # Variable => view'.at[i] = offsets[i]
    <3>1. view'.at[i] = Found(i) /\ view'.at[i + 1] = Found(i + 1) /\ i \in 1 .. fi - 1
      BY <2>2, <2>5
    <3>2. /\ Found(i + 1) = Found(i) + StepLen(mem, MaskForLen(SliceLen), slice.lo + Found(i), layouts[i])
          /\ Accepted(mem, slice.lo + Found(i), layouts[i], Found(i), Found(i + 1))
          /\ offsets[i] # Variable => Found(i) = offsets[i]
      <4>1. /\ Found(i + 1) = Found(i) + StepLen(mem, MaskForLen(SliceLen), slice.lo + Found(i), layouts[i])
            /\ Accepted(mem, slice.lo + Found(i), layouts[i], Found(i), Found(i + 1))
        BY <1>3, <3>1, Zenon
      <4>2. i \in 1 .. fi /\ i <= FieldCount
        BY <1>1
      <4>3. offsets[i] # Variable => Found(i) = offsets[i]
        BY <1>3, <4>2, Zenon
      <4>. QED
        BY <4>1, <4>3
    <3>. QED
      BY <2>1, <2>4, <3>1, <3>2
  <2>7. \A i \in 1 .. FieldCount + 1 : view'.at[i] <= view'.hi - view'.lo
    BY <1>1, <1>3, <2>1, <2>2
  <2>8. view'.at[1] = 0 /\ LegalAddress(view'.lo)
    BY <1>1, <1>3, <2>1, <2>2
  <2>9. decl.option = "implicit" => view'.hi - view'.lo \in ImplicitLens
    BY <1>3, <2>1, <2>3
  <2>10. MaskForLen(view.hi - view.lo)' = MaskForLen(view'.hi - view'.lo)
    BY DEF MaskForLen, expandVars
  <2>a. LegalAddress(view.lo)' = LegalAddress(view'.lo)
    BY DEF LegalAddress, expandVars
  <2>11. ViewWalks(view)'
    BY <1>2, <2>2, <2>6, <2>7, <2>8, <2>9, <2>10, <2>a, SameExpansion DEF ViewWalks
  <2>. QED
    BY <1>2, <1>4, <2>11, SameExpansion DEF ViewInv, ValidateLoop, GetLoop
<1>. QED
  BY <1>4, <1>5, <1>6

LEMMA StepGet ==
  ASSUME ExpandInv, CodecInv, EncodeInv, ViewInv, UNCHANGED expandVars, phase = "emitted",
         StartGet \/ GetStep \/ GetRead
  PROVE  ViewInv'
<1>1. /\ view' = view /\ mem' = mem /\ op' = "get" /\ OptionModes'
      /\ pc' \in {"walk", "panic", "idle"}
  <2>1. OptionModes'
    BY SameExpansion DEF ViewInv
  <2>. QED
    BY <2>1 DEF StartGet, GetStep, GetRead, callVars, EncodeInv, Panic, Return
<1>2. (view # NoView => ViewWalks(view))'
  BY <1>1, ViewKept DEF ViewInv
<1>3. ASSUME GetLoop' PROVE ViewInv'
  BY <1>1, <1>2, <1>3 DEF ViewInv, ValidateLoop
<1>4. CASE StartGet
  <2>1. PICK g \in 1 .. FieldCount : fi' = WalkFrom(g) /\ off' = offsets[WalkFrom(g)]
    BY <1>4 DEF StartGet
  <2>2. view # NoView /\ slice' = [lo |-> view.lo, hi |-> view.hi]
    BY <1>4 DEF StartGet
  <2>3. WalkFrom(g) \in 1 .. FieldCount /\ offsets[WalkFrom(g)] # Variable
    <3>1. WalkFrom(g) \in 1 .. g /\ WalkStart(WalkFrom(g), g)
      BY WalkFromType
    <3>2. FieldCount \in Nat
      BY EncodeTypesOf
    <3>. HIDE DEF WalkFrom
    <3>. QED
      BY <3>1, <3>2 DEF WalkStart
  <2>4. view.at[WalkFrom(g)] = offsets[WalkFrom(g)]
    BY <2>2, <2>3 DEF ViewInv, ViewWalks
  <2>5. GetLoop'
    BY <1>1, <2>1, <2>2, <2>4 DEF GetLoop
  <2>. QED
    BY <1>3, <2>5
<1>5. CASE GetStep
  <2>1. /\ pc = "walk" /\ view # NoView /\ slice.lo = view.lo /\ slice.hi = view.hi
        /\ off = view.at[fi] /\ slice' = slice
    BY <1>5 DEF GetStep, ViewInv, GetLoop
  <2>2. fi \in 1 .. FieldCount
    <3>1. fi \in Nat \ {0} /\ FieldCount \in Nat
      BY EncodeTypesOf
    <3>2. goal \in 1 .. FieldCount /\ fi <= goal
      BY <2>1 DEF CodecInv, CallInv
    <3>. QED
      BY <3>1, <3>2
  <2>3. CASE fi' = fi + 1 /\ off' = off + WalkLen(layouts[fi], off)
    <3>1. WalkLen(layouts[fi], off) = StepLen(mem, MaskForLen(SliceLen), slice.lo + off, layouts[fi])
      <4>1. layouts[fi] \in FieldLayout /\ off \in Nat
        BY <2>2, Emitted, EncodeTypesOf
      <4>. QED
        BY <4>1, WalkLenIsStepLen
    <3>2. view.at[fi + 1] = view.at[fi]
            + StepLen(mem, MaskForLen(view.hi - view.lo), view.lo + view.at[fi], layouts[fi])
      BY <2>1, <2>2 DEF ViewInv, ViewWalks
    <3>3. off' = view.at[fi']
      BY <2>1, <2>3, <3>1, <3>2 DEF SliceLen
    <3>. QED
      BY <1>1, <1>3, <2>1, <3>3 DEF GetLoop
  <2>4. CASE pc' = "panic"
    BY <1>3, <2>4 DEF GetLoop
  <2>. QED
    BY <1>5, <2>3, <2>4 DEF GetStep, Panic
<1>6. CASE GetRead
  BY <1>3, <1>6 DEF GetRead, GetLoop, Panic, Return
<1>. QED
  BY <1>4, <1>5, <1>6

\* The exclusive borrow of encode_to: no view is alive while it runs.
LEMMA StepEncodeEndsViews ==
  ASSUME EncodeInv, ViewInv, UNCHANGED expandVars,
         StartEncode \/ AddLen \/ CheckRoom \/ WriteField \/ EncodeDone
  PROVE  ViewInv'
<1>1. view' = NoView /\ OptionModes'
  BY SameExpansion DEF StartEncode, AddLen, CheckRoom, WriteField, EncodeDone, ViewInv
<1>2. op' = "encode" /\ pc' \notin {"validate", "walk"}
  <2>. USE DEF StartLoop, Fail, Return, Panic, Advance, callVars
  <2>1. CASE StartEncode
    BY <2>1 DEF StartEncode
  <2>2. CASE AddLen \/ CheckRoom
    BY <2>2 DEF AddLen, CheckRoom, EncodeInv
  <2>3. CASE WriteField \/ EncodeDone
    BY <2>3 DEF WriteField, EncodeDone, EncodeInv
  <2>. QED
    BY <2>1, <2>2, <2>3
<1>. QED
  BY <1>1, <1>2 DEF ViewInv, ValidateLoop, GetLoop

LEMMA ViewStep == ExpandInv /\ CodecInv /\ EncodeInv /\ ViewInv /\ [Next]_vars => ViewInv'
<1>. SUFFICES ASSUME ExpandInv, CodecInv, EncodeInv, ViewInv, [Next]_vars PROVE ViewInv'
  OBVIOUS
<1>1. CASE ExpandNext /\ UNCHANGED codecVars
  <2>1. phase # "emitted"
    BY <1>1 DEF ExpandNext, ParseArgs, ParseField, CheckStructOptions, AddPayload, SumsDone,
           NeedsNoAlignment, AlignmentBeyondBase, AddPossibleLen, CheckResidues, ResiduesApply,
           AlignmentDone, EmitField, EmitDone
  <2>2. pc = "idle" /\ view = NoView
    BY <2>1 DEF CodecInv, CallInv
  <2>3. OptionModes'
    BY <1>1, ExpandOptionModes DEF ViewInv
  <2>. QED
    BY <1>1, <2>2, <2>3 DEF codecVars, callVars, ViewInv, ValidateLoop, GetLoop
<1>2. CASE phase = "emitted" /\ CodecNext /\ UNCHANGED expandVars
  BY <1>2, StepEncodeEndsViews, StepStartDecode, StepValidateField, StepDecodeDone, StepGet
     DEF CodecNext
<1>3. CASE UNCHANGED vars
  <2>1. UNCHANGED expandVars /\ mem' = mem /\ view' = view /\ UNCHANGED << pc, op, slice, fi, off, at >>
    BY <1>3 DEF vars, codecVars, callVars
  <2>2. (view # NoView => ViewWalks(view))' /\ OptionModes'
    BY <2>1, ViewKept, SameExpansion DEF ViewInv
  <2>3. \A i : Found(i)' = Found(i)
    BY <2>1 DEF Found
  <2>4. SliceLen' = SliceLen /\ MaskForLen(SliceLen)' = MaskForLen(SliceLen)
    BY <2>1 DEF SliceLen, MaskForLen, expandVars
  <2>5. ValidateLoop'
    BY <2>1, <2>3, <2>4, SameExpansion DEF ViewInv, ValidateLoop
  <2>. QED
    BY <2>1, <2>2, <2>5 DEF ViewInv, GetLoop
<1>. QED
  BY <1>1, <1>2, <1>3 DEF Next, Stopped

LEMMA ViewInvariant == Spec => []ViewInv
<1>1. Init => ExpandInv /\ CodecInv /\ EncodeInv /\ ViewInv
  BY ExpandInvInit, CodecInitTypes, EncodeInit, ViewInit
<1>2. ExpandInv /\ CodecInv /\ EncodeInv /\ ViewInv /\ [Next]_vars
        => (ExpandInv /\ CodecInv /\ EncodeInv /\ ViewInv)'
  BY ExpandInvStep, CodecInvStep, EncodeStep, ViewStep
<1>. QED
  BY <1>1, <1>2, PTL DEF Spec

(* A getter finds each field where the decoder validated it, for every     *)
(* struct and whatever the bytes: the two walks of the generated code,     *)
(* __validate_prefix and find_data_offset, agree.                          *)
THEOREM GettersFollowValidation == Spec => []WalkFollowsValidation
<1>1. ViewInv => WalkFollowsValidation
  BY DEF ViewInv, GetLoop, WalkFollowsValidation
<1>. QED
  BY <1>1, ViewInvariant, PTL

(* decode and decode_prefix never panic, whatever the bytes.  This is the  *)
(* decoder's half of NoPanic.                                              *)
THEOREM DecoderNeverPanics == Spec => [](op \in {"decode", "decode_prefix"} => NoPanic)
<1>1. ViewInv => (op \in {"decode", "decode_prefix"} => NoPanic)
  BY DEF ViewInv, NoPanic
<1>. QED
  BY <1>1, ViewInvariant, PTL

-----------------------------------------------------------------------------
(* Reading is safe.  The counts a view announces are contents of the       *)
(* struct, and its fields start where these contents put them: so a getter *)
(* reads within the view, and the macro has certified every reference it   *)
(* hands out.                                                              *)

\* How many values the field at address a of memory m holds.
StepCount(m, mask, a, l) ==
  CASE l.shape = "plain"    -> 1
    [] l.shape = "tagged"   -> IF m[a] = 0 THEN 0 ELSE 1
    [] l.shape = "implicit" -> IF l.bit \in mask THEN 1 ELSE 0
    [] l.shape = "vec"      -> ReadLenHeader(m, a, l.width)

\* The contents a view has.
ViewContents(v) ==
  [i \in 1 .. FieldCount |-> StepCount(mem, MaskForLen(v.hi - v.lo), v.lo + v.at[i], layouts[i])]

LEMMA StepLenOfCount ==
  ASSUME NEW l \in FieldLayout, NEW m, NEW mask, NEW a
  PROVE  /\ StepLen(m, mask, a, l) = EncodedFieldLen(l, StepCount(m, mask, a, l))
         /\ StepCount(m, mask, a, l) # 0 =>
              StepLen(m, mask, a, l) = PayloadShift(l) + StepCount(m, mask, a, l) * Size(l.kind)
<1>1. l.shape \in {"plain", "tagged", "implicit", "vec"} /\ Size(l.kind) \in Nat
  BY KindTypes DEF FieldLayout
<1>2. CASE l.shape \in {"plain", "implicit"}
  BY <1>1, <1>2 DEF StepLen, StepCount, EncodedFieldLen, PayloadShift
<1>3. CASE l.shape = "tagged"
  BY <1>1, <1>3 DEF StepLen, StepCount, EncodedFieldLen, PayloadShift
<1>4. CASE l.shape = "vec"
  BY <1>4 DEF StepLen, StepCount, EncodedFieldLen, PayloadShift
<1>. QED
  BY <1>1, <1>2, <1>3, <1>4

(* A field the decoder accepts holds a count its contents may have.        *)
LEMMA AcceptedCount ==
  ASSUME mem \in Memory, NEW l \in FieldLayout, NEW a \in Nat, NEW o, NEW len, NEW mask,
         Accepted(mem, a, l, o, len), l.shape = "vec" => a + l.width <= MemLen
  PROVE  StepCount(mem, mask, a, l) \in AllCounts(l)
<1>1. l.shape \in {"plain", "tagged", "implicit", "vec"} /\ l.width \in 0 .. MaxLenWidth
  BY DEF FieldLayout
<1>2. CASE l.shape = "vec"
  <2>1. ReadLenHeader(mem, a, l.width) \in Nat
    BY <1>1, <1>2, ReadLenHeaderType
  <2>2. ReadLenHeader(mem, a, l.width) <= Capacity(l.width) /\ Capacity(l.width) \in Nat
    BY <1>1, <1>2, CapacityType DEF Accepted
  <2>. QED
    BY <1>2, <2>1, <2>2 DEF StepCount, AllCounts
<1>3. CASE l.shape # "vec"
  BY <1>1, <1>3 DEF StepCount, AllCounts
<1>. QED
  BY <1>2, <1>3

\* The types of a view.
LEMMA ViewTypes ==
  ASSUME ExpandInv, CodecInv, ViewInv, view # NoView
  PROVE  /\ phase = "emitted" /\ ViewWalks(view) /\ FieldCount \in Nat
         /\ view.lo \in Nat /\ view.hi \in Nat /\ view.lo <= view.hi /\ view.hi <= MemLen
         /\ \A i \in 1 .. FieldCount + 1 : view.at[i] \in Nat
         /\ \A i \in 1 .. FieldCount : /\ layouts[i] \in FieldLayout
                                       /\ i \in 1 .. FieldCount + 1 /\ i + 1 \in 1 .. FieldCount + 1
<1>1. phase = "emitted" /\ ViewWalks(view)
  BY DEF CodecInv, CallInv, ViewInv
<1>2. FieldCount \in Nat /\ \A i \in 1 .. FieldCount : layouts[i] \in FieldLayout
  BY <1>1, Emitted
<1>3. view.lo \in 0 .. MemLen /\ view.hi \in 0 .. MemLen /\ view.lo <= view.hi
  BY DEF CodecInv, CallInv, ViewInBuffer, Slice
<1>4. view.at \in Seq(Nat)
  BY DEF CodecInv, CodecTypeOK
<1>5. Len(view.at) = FieldCount + 1
  BY <1>1 DEF ViewWalks
<1>6. \A i \in 1 .. FieldCount + 1 : view.at[i] \in Nat
  BY <1>4, <1>5
<1>. QED
  BY <1>1, <1>2, <1>3, <1>6, MemoryAssumption

LEMMA ViewHasContents ==
  ASSUME MacroInv, ExpandInv, CodecInv, ViewInv, view # NoView
  PROVE  /\ ViewContents(view) \in AllContents
         /\ \A i \in 1 .. FieldCount + 1 : FieldStarts(ViewContents(view))[i] = view.at[i]
<1>. DEFINE c == ViewContents(view)
            mask == MaskForLen(view.hi - view.lo)
            Addr(i) == view.lo + view.at[i]
<1>1. ASSUME NEW i \in 1 .. FieldCount
      PROVE  /\ c[i] = StepCount(mem, mask, Addr(i), layouts[i])
             /\ c[i] \in AllCounts(layouts[i])
  <2>. DEFINE l == layouts[i]
  <2>1. c[i] = StepCount(mem, mask, Addr(i), l)
    BY DEF ViewContents
  <2>2. l \in FieldLayout /\ Accepted(mem, Addr(i), l, view.at[i], view.at[i + 1])
    BY ViewTypes DEF ViewWalks
  <2>3. Addr(i) \in Nat /\ (l.shape = "vec" => Addr(i) + l.width <= MemLen)
    <3>1. view.at[i] \in Nat /\ view.at[i + 1] \in Nat /\ view.at[i + 1] <= view.hi - view.lo
      BY ViewTypes DEF ViewWalks
    <3>2. l.width \in Nat /\ (l.shape = "vec" => view.at[i] + l.width <= view.at[i + 1])
      BY <2>2 DEF Accepted, FieldLayout, MaxLenWidth
    <3>. QED
      BY <3>1, <3>2, ViewTypes, MemoryAssumption
  <2>4. mem \in Memory
    BY DEF CodecInv, CodecTypeOK
  <2>5. StepCount(mem, mask, Addr(i), l) \in AllCounts(l)
    BY <2>2, <2>3, <2>4, AcceptedCount
  <2>. QED
    BY <2>1, <2>5
<1>2. c = [i \in 1 .. FieldCount |-> c[i]]
  BY DEF ViewContents
<1>. HIDE DEF c, mask
<1>3. c \in AllContents
  BY <1>1, <1>2, AllContentsOf
<1>4. \A i \in 1 .. FieldCount + 1 : FieldStarts(c)[i] = view.at[i]
  <2>1. TypeInv /\ FieldCount \in Nat
    BY ViewTypes DEF MacroInv
  <2>2. FieldStarts(c)[1] = view.at[1]
    BY <1>3, <2>1, StartsEquation, ViewTypes DEF ViewWalks
  <2>3. ASSUME NEW i \in 1 .. FieldCount, FieldStarts(c)[i] = view.at[i]
        PROVE  FieldStarts(c)[i + 1] = view.at[i + 1]
    <3>1. FieldStarts(c)[i + 1] = FieldStarts(c)[i] + EncodedFieldLen(layouts[i], c[i])
      BY <1>3, <2>1, StartsEquation
    <3>2. view.at[i + 1] = view.at[i] + StepLen(mem, mask, Addr(i), layouts[i])
      BY ViewTypes DEF ViewWalks, mask
    <3>3. StepLen(mem, mask, Addr(i), layouts[i]) = EncodedFieldLen(layouts[i], c[i])
      BY <1>1, ViewTypes, StepLenOfCount
    <3>. QED
      BY <2>3, <3>1, <3>2, <3>3
  <2>. DEFINE u == FieldStarts(c)
              w == view.at
  <2>4. u[1] = w[1] /\ \A i \in 1 .. FieldCount : u[i] = w[i] => u[i + 1] = w[i + 1]
    BY <2>2, <2>3
  <2>. HIDE DEF u, w
  <2>5. \A i \in 1 .. FieldCount + 1 : u[i] = w[i]
    BY <2>1, <2>4, RecursionUnique
  <2>. QED
    BY <2>5 DEF u, w
<1>. QED
  BY <1>3, <1>4 DEF c

\* The field a getter is at, in the contents of its view.
LEMMA AtField ==
  ASSUME MacroInv, ExpandInv, CodecInv, ViewInv, pc = "walk"
  PROVE  LET l == layouts[fi]
             c == ViewContents(view)
         IN /\ view # NoView /\ phase = "emitted" /\ fi \in 1 .. FieldCount
            /\ l \in FieldLayout /\ off \in Nat /\ off = view.at[fi]
            /\ slice.lo = view.lo /\ slice.hi = view.hi
            /\ CanCount(l, off) /\ c[fi] = Count(l, off) /\ c[fi] \in Nat
            /\ c[fi] # 0 => InSlice(off + PayloadShift(l), off + PayloadShift(l) + c[fi] * Size(l.kind))
<1>. DEFINE l == layouts[fi]
            c == ViewContents(view)
            n == c[fi]
<1>1. view # NoView /\ slice.lo = view.lo /\ slice.hi = view.hi /\ off = view.at[fi]
  BY DEF ViewInv, GetLoop
<1>2. fi \in 1 .. FieldCount
  <2>1. fi \in Nat \ {0} /\ FieldCount \in Nat
    BY EncodeTypesOf
  <2>2. goal \in 1 .. FieldCount /\ fi <= goal
    BY DEF CodecInv, CallInv
  <2>. QED
    BY <2>1, <2>2
<1>3. /\ phase = "emitted" /\ l \in FieldLayout /\ off \in Nat /\ view.at[fi + 1] \in Nat
      /\ view.at[fi + 1] = off + StepLen(mem, MaskForLen(view.hi - view.lo), view.lo + off, l)
      /\ Accepted(mem, view.lo + off, l, off, view.at[fi + 1])
      /\ view.at[fi + 1] <= SliceLen
      /\ decl.option = "implicit" => SliceLen \in ImplicitLens
      /\ SliceLen \in Nat /\ SliceLen = view.hi - view.lo
  <2>1. /\ phase = "emitted" /\ l \in FieldLayout /\ view.at[fi] \in Nat /\ view.at[fi + 1] \in Nat
        /\ view.lo \in Nat /\ view.hi \in Nat /\ view.lo <= view.hi /\ ViewWalks(view)
        /\ fi + 1 \in 1 .. FieldCount + 1
    BY <1>1, <1>2, ViewTypes
  <2>2. SliceLen = view.hi - view.lo /\ SliceLen \in Nat
    BY <1>1, <2>1 DEF SliceLen
  <2>3. /\ view.at[fi + 1] = view.at[fi]
             + StepLen(mem, MaskForLen(view.hi - view.lo), view.lo + view.at[fi], l)
        /\ Accepted(mem, view.lo + view.at[fi], l, view.at[fi], view.at[fi + 1])
    BY <1>2, <2>1 DEF ViewWalks
  <2>4. /\ view.at[fi + 1] <= view.hi - view.lo
        /\ decl.option = "implicit" => view.hi - view.lo \in ImplicitLens
    BY <2>1 DEF ViewWalks
  <2>. QED
    BY <1>1, <2>1, <2>2, <2>3, <2>4
<1>4. l.shape \in {"plain", "tagged", "implicit", "vec"} /\ l.width \in Nat /\ Size(l.kind) \in Nat
      /\ PayloadShift(l) \in Nat
  BY <1>3, KindTypes, ShiftType DEF FieldLayout, MaxLenWidth
<1>5. CanCount(l, off)
  <2>1. CASE l.shape = "tagged"
    BY <1>3, <2>1 DEF Accepted, CanCount
  <2>2. CASE l.shape = "vec"
    BY <1>3, <1>4, <2>2 DEF Accepted, CanCount, InSlice
  <2>3. CASE l.shape = "implicit"
    BY <1>2, <1>3, <2>3 DEF ViewInv, OptionModes, CanCount
  <2>4. CASE l.shape = "plain"
    BY <2>4 DEF CanCount
  <2>. QED
    BY <1>4, <2>1, <2>2, <2>3, <2>4
<1>6. n = StepCount(mem, MaskForLen(SliceLen), view.lo + off, l)
  BY <1>1, <1>2, <1>3 DEF ViewContents
<1>7. n = Count(l, off)
  BY <1>1, <1>4, <1>6 DEF StepCount, Count, ByteAt, HeaderAt, Present
<1>8. n \in Nat
  <2>1. c \in AllContents
    BY <1>1, ViewHasContents
  <2>. HIDE DEF c
  <2>. QED
    BY <1>2, <2>1, AllContentsTypes DEF MacroInv
<1>9. n # 0 => InSlice(off + PayloadShift(l), off + PayloadShift(l) + n * Size(l.kind))
  <2>. SUFFICES ASSUME n # 0
                PROVE  InSlice(off + PayloadShift(l), off + PayloadShift(l) + n * Size(l.kind))
    OBVIOUS
  <2>1. view.at[fi + 1] = off + (PayloadShift(l) + n * Size(l.kind))
    BY <1>3, <1>6, StepLenOfCount
  <2>2. PICK payload \in Nat : payload = n * Size(l.kind)
    BY <1>4, <1>8
  <2>. HIDE DEF n
  <2>. QED
    BY <1>3, <1>4, <2>1, <2>2 DEF InSlice
<1>. QED
  BY <1>1, <1>2, <1>3, <1>5, <1>7, <1>8, <1>9

(* A reference a getter hands out is aligned: the decoder checked where    *)
(* the slice is and the macro where the field is.                          *)
LEMMA CastsAreAligned ==
  ASSUME MacroInv, ExpandInv, CodecInv, ViewInv, pc = "walk", Count(layouts[fi], off) # 0
  PROVE  CastAligned(layouts[fi], off + PayloadShift(layouts[fi]))
<1>. DEFINE l == layouts[fi]
            c == ViewContents(view)
            a == Align(l.kind)
            shift == PayloadShift(l)
<1>1. /\ view # NoView /\ phase = "emitted" /\ fi \in 1 .. FieldCount /\ l \in FieldLayout
      /\ off = view.at[fi] /\ slice.lo = view.lo /\ off \in Nat
      /\ c[fi] = Count(l, off) /\ c[fi] \in Nat
  BY AtField
<1>2. c \in AllContents /\ FieldStarts(c)[fi] = off
  <2>1. fi \in 1 .. FieldCount + 1
    BY <1>1, ViewTypes
  <2>. QED
    BY <1>1, <2>1, ViewHasContents
<1>3. view.lo \in Nat /\ LegalAddress(view.lo)
  BY <1>1, ViewTypes DEF ViewWalks
<1>4. a \in PrimitiveSizes /\ shift \in Nat
  BY <1>1, KindTypes, ShiftType DEF FieldLayout
<1>5. CASE a = 1
  <2>1. (view.lo + (off + shift)) % a = 0
    BY <1>1, <1>3, <1>4, <1>5
  <2>. QED
    BY <1>1, <2>1 DEF CastAligned
<1>6. CASE a # 1 /\ (l.shape = "vec" \/ IsRef(l.kind))
  <2>1. a > 1
    BY <1>4, <1>6 DEF PrimitiveSizes
  <2>2. Borrows(l) /\ c[fi] > 0
    BY <1>1, <1>6, <2>1 DEF Borrows
  <2>. HIDE DEF c
  <2>3. (view.lo + FieldStarts(c)[fi] + shift) % a = 0
    BY <1>1, <1>2, <1>3, <2>2, AlignedAnywhere
  <2>. HIDE DEF a, shift
  <2>4. view.lo + (off + shift) = view.lo + off + shift
    BY <1>1, <1>3, <1>4
  <2>5. (slice.lo + (off + shift)) % a = 0
    BY <1>1, <1>2, <2>3, <2>4
  <2>. QED
    BY <2>5 DEF CastAligned, a, shift
<1>. QED
  BY <1>5, <1>6 DEF CastAligned

LEMMA GetterStep ==
  ASSUME MacroInv, ExpandInv, CodecInv, ViewInv, GetStep \/ GetRead
  PROVE  pc' # "panic"
<1>1. pc = "walk"
  BY DEF GetStep, GetRead
<1>2. /\ CanCount(layouts[fi], off)
      /\ Count(layouts[fi], off) # 0 =>
           InSlice(off + PayloadShift(layouts[fi]),
                   off + PayloadShift(layouts[fi]) + Count(layouts[fi], off) * Size(layouts[fi].kind))
  BY <1>1, AtField
<1>3. Count(layouts[fi], off) # 0 => CastAligned(layouts[fi], off + PayloadShift(layouts[fi]))
  BY <1>1, CastsAreAligned
<1>4. CASE GetStep
  BY <1>1, <1>2, <1>4 DEF GetStep
<1>5. CASE GetRead
  BY <1>2, <1>3, <1>5 DEF GetRead, Return
<1>. QED
  BY <1>4, <1>5

(* No call of the generated code panics: not encode_to, not decode on any  *)
(* bytes, and no getter of a view, whatever the struct.                    *)
THEOREM GeneratedCodeNeverPanics == Spec => []NoPanic
<1>1. Init => NoPanic
  BY DEF Init, CodecInit, NoPanic
<1>2. ASSUME MacroInv, ExpandInv, CodecInv, EncodeInv, ViewInv, (EncodeInv /\ ViewInv)', NoPanic, [Next]_vars
      PROVE  NoPanic'
  <2>1. CASE ExpandNext /\ UNCHANGED codecVars
    BY <1>2, <2>1 DEF codecVars, NoPanic
  <2>2. CASE CodecNext
    <3>1. CASE StartEncode \/ AddLen \/ CheckRoom \/ WriteField \/ EncodeDone
      <4>1. op' = "encode"
        <5>. USE DEF StartLoop, callVars
        <5>1. CASE StartEncode
          BY <5>1 DEF StartEncode
        <5>2. CASE AddLen \/ CheckRoom \/ WriteField \/ EncodeDone
          BY <1>2, <5>2 DEF AddLen, CheckRoom, WriteField, EncodeDone, EncodeInv
        <5>. QED
          BY <3>1, <5>1, <5>2
      <4>. QED
        BY <1>2, <4>1 DEF EncodeInv, NoPanic
    <3>2. CASE StartDecode \/ ValidateField \/ DecodeDone
      <4>1. op' \in {"decode", "decode_prefix"}
        <5>. USE DEF StartLoop, callVars
        <5>1. CASE StartDecode
          BY <5>1 DEF StartDecode
        <5>2. CASE ValidateField \/ DecodeDone
          BY <1>2, <5>2 DEF ValidateField, DecodeDone, CodecInv, CallInv
        <5>. QED
          BY <3>2, <5>1, <5>2
      <4>. QED
        BY <1>2, <4>1 DEF ViewInv, NoPanic
    <3>3. CASE StartGet
      BY <3>3 DEF StartGet, NoPanic
    <3>4. CASE GetStep \/ GetRead
      BY <1>2, <3>4, GetterStep DEF NoPanic
    <3>. QED
      BY <2>2, <3>1, <3>2, <3>3, <3>4 DEF CodecNext
  <2>3. CASE UNCHANGED vars
    BY <1>2, <2>3 DEF vars, codecVars, NoPanic
  <2>. QED
    BY <1>2, <2>1, <2>2, <2>3 DEF Next, Stopped
<1>. QED
  BY <1>1, <1>2, MacroInvariant, EncodeInvariant, ViewInvariant, PTL DEF Spec

-----------------------------------------------------------------------------
(* The sums of the decoder.  Each field it has passed is at most as long as*)
(* in the fullest contents, whose length is MAX_DATA_LEN.                  *)

\* The fullest contents leave room for every field.
LEMMA FullestStarts ==
  ASSUME MacroInv, phase = "emitted", NEW i \in 1 .. FieldCount
  PROVE  /\ FieldStarts(Most)[1] = 0
         /\ FieldStarts(Most)[i] \in Nat /\ FieldStarts(Most)[i + 1] \in Nat
         /\ FieldStarts(Most)[i + 1] <= maxLen /\ maxLen \in Nat
         /\ \A k \in AllCounts(layouts[i]) :
              /\ EncodedFieldLen(layouts[i], k) \in Nat
              /\ FieldStarts(Most)[i] + EncodedFieldLen(layouts[i], k) <= FieldStarts(Most)[i + 1]
<1>. DEFINE u == FieldStarts(Most)
            n == FieldCount
<1>1. TypeInv /\ n \in Nat /\ layouts[i] \in FieldLayout /\ maxLen \in Nat
  BY AlignTypes DEF MacroInv, TypeInv, ExpandTypeOK
<1>2. Most \in AllContents
  BY <1>1, MostIsContents, SomeContents
<1>3. /\ u[1] = 0 /\ \A j \in 1 .. n + 1 : u[j] \in Nat
      /\ \A j \in 1 .. n : /\ u[j + 1] = u[j] + EncodedFieldLen(layouts[j], Most[j])
                           /\ EncodedFieldLen(layouts[j], Most[j]) \in Nat
  BY <1>1, <1>2, StartsEquation, AllContentsTypes
<1>4. maxLen = u[n + 1]
  BY DEF MacroInv, LengthsInv, Bounded
<1>5. ASSUME NEW k \in AllCounts(layouts[i])
      PROVE  /\ EncodedFieldLen(layouts[i], k) \in Nat
             /\ EncodedFieldLen(layouts[i], k) <= EncodedFieldLen(layouts[i], Most[i])
  <2>1. Most[i] = IF layouts[i].shape = "vec" THEN Capacity(layouts[i].width) ELSE 1
    BY DEF Most
  <2>2. EncodedFieldLen(layouts[i], k) <= SlotMaxLen(layouts[i])
    BY <1>1, SlotLensExact
  <2>3. SlotMaxLen(layouts[i]) = EncodedFieldLen(layouts[i], Most[i])
    BY <1>1, <2>1, SlotLensExact
  <2>. QED
    BY <1>1, <2>2, <2>3, CountTypes
<1>. HIDE DEF u, n
<1>6. \A j, k \in 1 .. n + 1 : j <= k => u[j] <= u[k]
  <2>1. \A j \in 1 .. n : u[j] <= u[j + 1]
    BY <1>1, <1>3
  <2>. QED
    BY <1>1, <1>3, <2>1, OffsetsGrow
<1>7. i \in 1 .. n /\ i + 1 \in 1 .. n + 1 /\ i \in 1 .. n + 1 /\ n + 1 \in 1 .. n + 1
      /\ i + 1 <= n + 1
  BY <1>1 DEF n
<1>8. u[i] \in Nat /\ u[i + 1] \in Nat /\ u[i + 1] <= maxLen
  BY <1>3, <1>4, <1>6, <1>7
<1>9. u[i + 1] = u[i] + EncodedFieldLen(layouts[i], Most[i]) /\ EncodedFieldLen(layouts[i], Most[i]) \in Nat
  BY <1>3, <1>7
<1>10. ASSUME NEW k \in AllCounts(layouts[i])
       PROVE  EncodedFieldLen(layouts[i], k) \in Nat /\ u[i] + EncodedFieldLen(layouts[i], k) <= u[i + 1]
  BY ONLY <1>5, <1>8, <1>9, <1>10
<1>11. u[1] = 0
  BY <1>3
<1>. QED
  BY ONLY <1>1, <1>8, <1>10, <1>11 DEF u

LEMMA FoundBelowFullest ==
  ASSUME MacroInv, ExpandInv, CodecInv, ViewInv, pc = "validate", fi <= FieldCount
  PROVE  off <= FieldStarts(Most)[fi]
<1>. DEFINE u == FieldStarts(Most)
            mask == MaskForLen(SliceLen)
            len(i) == StepLen(mem, mask, slice.lo + Found(i), layouts[i])
<1>1. /\ phase = "emitted" /\ fi \in 1 .. FieldCount /\ at \in Seq(Nat) /\ off \in Nat
      /\ Len(at) = fi - 1 /\ mem \in Memory /\ slice.lo \in Nat /\ slice.hi \in 0 .. MemLen
      /\ Found(1) = 0 /\ off <= SliceLen /\ \A i \in 1 .. fi : Found(i) <= off
      /\ \A i \in 1 .. fi - 1 : /\ Found(i + 1) = Found(i) + len(i)
                                /\ Accepted(mem, slice.lo + Found(i), layouts[i], Found(i), Found(i + 1))
  <2>1. /\ phase = "emitted" /\ slice \in Slice
        /\ fi \in Nat \ {0} /\ FieldCount \in Nat /\ at \in Seq(Nat) /\ off \in Nat /\ mem \in Memory
    BY EncodeTypesOf DEF CodecInv, CallInv, CodecTypeOK
  <2>2. slice.lo \in Nat /\ slice.hi \in 0 .. MemLen
    BY <2>1, MemoryAssumption DEF Slice
  <2>3. /\ Len(at) = fi - 1 /\ Found(1) = 0 /\ off <= SliceLen /\ \A i \in 1 .. fi : Found(i) <= off
        /\ \A i \in 1 .. fi - 1 :
             /\ Found(i + 1) = Found(i) + len(i)
             /\ Accepted(mem, slice.lo + Found(i), layouts[i], Found(i), Found(i + 1))
    <3>1. ValidateLoop
      BY DEF ViewInv
    <3>. QED
      BY ONLY <3>1, pc = "validate" DEF ValidateLoop
  <2>4. fi \in 1 .. FieldCount
    BY <2>1
  <2>. HIDE DEF len
  <2>. QED
    BY ONLY <2>1, <2>2, <2>3, <2>4, Zenon
<1>2. FieldCount \in Nat /\ \A i \in 1 .. fi : Found(i) \in Nat
  <2>1. FieldCount \in Nat
    BY EncodeTypesOf
  <2>2. at \in Seq(Nat) /\ off \in Nat /\ Len(at) = fi - 1 /\ fi \in 1 .. FieldCount
    BY <1>1
  <2>3. \A i \in 1 .. fi : i # fi => i \in 1 .. Len(at)
    BY ONLY <2>1, <2>2
  <2>4. \A i \in 1 .. Len(at) : at[i] \in Nat
    BY <2>2, ElementOfSeq
  <2>. QED
    BY ONLY <2>1, <2>2, <2>3, <2>4 DEF Found
<1>3. ASSUME NEW i \in 1 .. fi - 1
      PROVE  /\ u[i] \in Nat /\ u[i + 1] \in Nat /\ len(i) \in Nat /\ u[i] + len(i) <= u[i + 1]
             /\ Found(i) \in Nat /\ Found(i + 1) = Found(i) + len(i)
  <2>. DEFINE l == layouts[i]
              a == slice.lo + Found(i)
  <2>1. i \in 1 .. FieldCount /\ i \in 1 .. fi /\ i + 1 \in 1 .. fi
    <3>1. fi \in 1 .. FieldCount /\ FieldCount \in Nat
      BY <1>1, <1>2
    <3>. QED
      BY ONLY i \in 1 .. fi - 1, <3>1
  <2>2. l \in FieldLayout
    BY <1>1, <2>1, Emitted
  <2>3. Found(i) \in Nat /\ Found(i + 1) \in Nat /\ Found(i + 1) <= off
    BY <1>1, <1>2, <2>1
  <2>4. a \in Nat /\ (l.shape = "vec" => a + l.width <= MemLen)
    <3>1. Accepted(mem, slice.lo + Found(i), layouts[i], Found(i), Found(i + 1))
      BY <1>1
    <3>2. l.width \in Nat
      BY <2>2 DEF FieldLayout, MaxLenWidth
    <3>3. l.shape = "vec" => Found(i) + l.width <= Found(i + 1)
      BY <3>1 DEF Accepted
    <3>4. off <= slice.hi - slice.lo
      BY <1>1 DEF SliceLen
    <3>5. slice.lo \in Nat /\ slice.hi \in 0 .. MemLen /\ off \in Nat
      BY <1>1
    <3>. QED
      BY ONLY <2>3, <3>2, <3>3, <3>4, <3>5, MemoryAssumption
  <2>5. StepCount(mem, mask, a, l) \in AllCounts(l)
    BY <1>1, <2>2, <2>4, AcceptedCount
  <2>6. len(i) = EncodedFieldLen(l, StepCount(mem, mask, a, l))
    BY <2>2, StepLenOfCount
  <2>7. /\ u[i] \in Nat /\ u[i + 1] \in Nat
        /\ \A k \in AllCounts(l) : EncodedFieldLen(l, k) \in Nat /\ u[i] + EncodedFieldLen(l, k) <= u[i + 1]
    BY <1>1, <2>1, FullestStarts
  <2>. HIDE DEF u, len, mask, a, l
  <2>8. len(i) \in Nat /\ u[i] + len(i) <= u[i + 1]
    BY <2>5, <2>6, <2>7
  <2>. QED
    BY <1>1, <2>3, <2>7, <2>8
<1>4. u[1] = 0
  BY <1>1, FullestStarts
<1>. HIDE DEF u, len
<1>5. \A i \in 1 .. fi : Found(i) <= u[i]
  <2>. DEFINE S == {i \in 1 .. fi : Found(i) <= u[i]}
  <2>1. 1 \in S /\ fi \in Nat
    BY <1>1, <1>4
  <2>2. ASSUME NEW i \in 1 .. fi, i \in S, i < fi PROVE i + 1 \in S
    <3>1. i \in 1 .. fi - 1 /\ i + 1 \in 1 .. fi /\ Found(i) <= u[i]
      BY <1>1, <2>2
    <3>2. /\ u[i] \in Nat /\ u[i + 1] \in Nat /\ len(i) \in Nat /\ u[i] + len(i) <= u[i + 1]
          /\ Found(i) \in Nat /\ Found(i + 1) = Found(i) + len(i)
      BY <1>3, <3>1
    <3>. QED
      BY <3>1, <3>2
  <2>3. 1 .. fi \subseteq S
    <3>. HIDE DEF S
    <3>. QED
      BY <2>1, <2>2, UpToInduction
  <2>. QED
    BY <2>3
<1>6. Found(fi) = off
  BY DEF Found
<1>. QED
  BY <1>1, <1>5, <1>6 DEF u

(* No header makes the decoder compute an end beyond MAX_DATA_LEN, for any *)
(* struct and any bytes: the sum it checks against the end of the slice is *)
(* one the compiler has evaluated.                                         *)
THEOREM DecoderStaysBounded == Spec => []DecoderSumsBounded
<1>1. ASSUME MacroInv, ExpandInv, CodecInv, ViewInv PROVE DecoderSumsBounded
  <2>. DEFINE l == layouts[fi]
              header == HeaderAt(off, l.width)
  <2>. SUFFICES ASSUME pc = "validate", fi <= FieldCount, l.shape = "vec",
                       Validate(l, off).res \in {"ok", "TruncatedVectorPayload"}
                PROVE  off + l.width + header * Size(l.kind) <= maxLen
    BY DEF DecoderSumsBounded
  <2>1. /\ phase = "emitted" /\ fi \in 1 .. FieldCount /\ off \in Nat /\ mem \in Memory
        /\ slice.lo \in Nat /\ slice.hi \in 0 .. MemLen
    <3>1. /\ phase = "emitted" /\ slice \in Slice
          /\ fi \in Nat \ {0} /\ FieldCount \in Nat /\ off \in Nat /\ mem \in Memory
      BY <1>1, EncodeTypesOf DEF CodecInv, CallInv, CodecTypeOK
    <3>. QED
      BY <3>1, MemoryAssumption DEF Slice
  <2>2. l \in FieldLayout
    BY <1>1, <2>1, Emitted
  <2>3. l.width \in 0 .. MaxLenWidth /\ l.width \in Nat /\ Size(l.kind) \in Nat
    BY <2>2, KindTypes DEF FieldLayout, MaxLenWidth
  <2>4. ~(off + l.width > SliceLen) /\ ~(header > Capacity(l.width))
    BY DEF Validate, ValidateVec, Bad
  <2>5. header \in Nat
    <3>1. slice.lo + off \in Nat /\ slice.lo + off + l.width <= MemLen
      BY <2>1, <2>3, <2>4, MemoryAssumption DEF SliceLen
    <3>. QED
      BY <2>1, <2>3, <3>1, ReadLenHeaderType DEF HeaderAt
  <2>6. header \in AllCounts(l)
    <3>1. Capacity(l.width) \in Nat
      BY <2>3, CapacityType
    <3>. QED
      BY <2>4, <2>5, <3>1 DEF AllCounts
  <2>7. EncodedFieldLen(l, header) = l.width + header * Size(l.kind)
    BY DEF EncodedFieldLen
  <2>8. /\ FieldStarts(Most)[fi] \in Nat /\ FieldStarts(Most)[fi + 1] \in Nat
        /\ FieldStarts(Most)[fi + 1] <= maxLen /\ maxLen \in Nat
        /\ EncodedFieldLen(l, header) \in Nat
        /\ FieldStarts(Most)[fi] + EncodedFieldLen(l, header) <= FieldStarts(Most)[fi + 1]
    BY <1>1, <2>1, <2>6, FullestStarts
  <2>9. off <= FieldStarts(Most)[fi]
    BY <1>1, FoundBelowFullest
  <2>10. header * Size(l.kind) \in Nat
    BY <2>3, <2>5
  <2>. QED
    BY <2>1, <2>3, <2>7, <2>8, <2>9, <2>10
<1>. QED
  BY <1>1, MacroInvariant, EncodeInvariant, ViewInvariant, PTL

-----------------------------------------------------------------------------
(* Encodings in memory.                                                    *)

\* The memory m holds these bytes at address a.
Holds(m, a, bytes) == \A k \in 1 .. Len(bytes) : m[a + k - 1] = bytes[k]

\* The first n fields of v have no more elements than their headers count.
CountsFit(v, n) == \A i \in 1 .. n : layouts[i].shape = "vec" => v[i].count <= Capacity(layouts[i].width)

\* The memory m holds the encoding w, field by field.
Encoding(m, w) ==
  /\ IsStruct(w.val) /\ CountsFit(w.val, FieldCount)
  /\ Len(w.at) = FieldCount + 1 /\ w.at[1] = 0
  /\ w.hi = w.lo + w.at[FieldCount + 1] /\ w.hi <= MemLen
  /\ \A i \in 1 .. FieldCount :
       /\ w.at[i + 1] = w.at[i] + EncodedFieldLen(layouts[i], w.val[i].count)
       /\ Holds(m, w.lo + w.at[i], FieldBytes(layouts[i], w.val[i]))

\* A Vec has a header and no bools, and an implicit option a bit of its own.
FieldIds ==
  /\ \A i \in 1 .. FieldCount :
       /\ layouts[i].shape = "vec" =>
            layouts[i].width \in 1 .. MaxLenWidth /\ layouts[i].kind.name # "bool"
       /\ layouts[i].shape = "implicit" => layouts[i].bit < nextBit
  /\ \A i, j \in 1 .. FieldCount :
       /\ layouts[i].shape = "implicit" /\ layouts[j].shape = "implicit"
       /\ layouts[i].bit = layouts[j].bit
       => i = j

\* The fields the running encode_to has counted, and those it has written.
Written ==
  /\ pc = "len" => CountsFit(val, fi - 1)
  /\ pc = "write" =>
       /\ CountsFit(val, FieldCount) /\ slice.lo + lim <= MemLen /\ wrote = NoEncoding
       /\ Len(at) = fi - 1
       /\ \A i \in 1 .. fi - 1 :
            at[i] = plan[i] /\ Holds(mem, slice.lo + plan[i], FieldBytes(layouts[i], val[i]))

WroteInv ==
  /\ FieldIds /\ Written
  /\ phase # "emitted" => wrote = NoEncoding
  /\ wrote # NoEncoding => Encoding(mem, wrote)

\* The decoder is given the bytes of the last encoding, or some of them; an
\* implicit layout has to be given its exact length.
OwnBytes ==
  /\ wrote # NoEncoding /\ slice.lo = wrote.lo
  /\ decl.option = "implicit" => slice.hi = wrote.hi

\* It finds the fields where they were written.
FollowInv ==
  /\ pc = "validate" /\ OwnBytes => \A i \in 1 .. fi : Found(i) = wrote.at[i]
  /\ RoundTrip /\ TruncationRejected

\* Between calls the slice is still that of the view.
ViewSlice ==
  view # NoView => slice.lo = view.lo /\ (decl.option = "implicit" => slice.hi = view.hi)

-----------------------------------------------------------------------------
(* Headers and fields.                                                     *)

(* The count a header can announce is less than the power of the radix     *)
(* with as many digits.                                                    *)
LEMMA CapacityPowers ==
  ASSUME NEW width \in 1 .. MaxLenWidth
  PROVE  \E p : /\ p[0] = 1 /\ \A k \in 1 .. width : p[k - 1] \in Nat /\ p[k] = Radix * p[k - 1]
                /\ \A n \in Nat : n <= Capacity(width) => n < p[width]
<1>. DEFINE R == Radix
            r2 == R * R
            r4 == r2 * r2
            p == [k \in 0 .. 8 |-> CASE k = 0 -> 1 [] k = 1 -> R [] k = 2 -> r2 [] k = 3 -> r2 * R
                                     [] k = 4 -> r4 [] k = 5 -> r4 * R [] k = 6 -> r4 * r2
                                     [] k = 7 -> r4 * r2 * R [] k = 8 -> R * (r4 * r2 * R)]
<1>1. R \in Nat /\ R >= 1
  BY RadixAssumption
<1>2. /\ p[0] = 1 /\ p[1] = R /\ p[2] = r2 /\ p[3] = r2 * R /\ p[4] = r4 /\ p[5] = r4 * R
      /\ p[6] = r4 * r2 /\ p[7] = r4 * r2 * R /\ p[8] = R * (r4 * r2 * R)
  OBVIOUS
<1>3. Capacity(width) = IF width = 8 THEN p[4] - 1 ELSE p[width] - 1
  BY <1>2 DEF Capacity, MaxLenWidth
<1>4. /\ p[1] = R * p[0] /\ p[2] = R * p[1] /\ p[3] = R * p[2] /\ p[4] = R * p[3]
      /\ p[5] = R * p[4] /\ p[6] = R * p[5] /\ p[7] = R * p[6] /\ p[8] = R * p[7]
  <2>. HIDE DEF R, p
  <2>1. \A x \in Nat : R * x = x * R /\ R * x \in Nat
    BY <1>1
  <2>2. r2 \in Nat /\ r2 * R \in Nat /\ r4 \in Nat /\ r2 * R = R * r2
    BY <1>1
  <2>3. R * (r2 * R) = r4
    BY <1>1
  <2>. HIDE DEF r2
  <2>. HIDE DEF r4
  <2>4. r4 * R \in Nat /\ R * r4 = r4 * R
    BY <1>1, <2>2
  <2>5. r4 * r2 \in Nat /\ r4 * r2 = R * (r4 * R)
    <3>1. \A x \in Nat : x * (R * R) = R * (x * R)
      BY <1>1
    <3>. QED
      BY <1>1, <2>2, <3>1 DEF r2
  <2>6. r4 * r2 * R = R * (r4 * r2)
    BY <1>1, <2>5
  <2>. QED
    BY <1>1, <1>2, <2>1, <2>2, <2>3, <2>4, <2>5, <2>6 DEF r2
<1>. HIDE DEF p, r2, r4, R
<1>5. ASSUME NEW x, NEW y, x \in Nat, y = R * x PROVE y \in Nat /\ y >= x
  BY <1>1, <1>5
<1>6. /\ p[0] \in Nat /\ p[1] \in Nat /\ p[2] \in Nat /\ p[3] \in Nat /\ p[4] \in Nat
      /\ p[5] \in Nat /\ p[6] \in Nat /\ p[7] \in Nat /\ p[8] \in Nat /\ p[8] >= p[4]
  <2>1. p[0] \in Nat
    BY <1>2
  <2>2. p[1] \in Nat
    BY <1>4, <1>5, <2>1
  <2>3. p[2] \in Nat
    BY <1>4, <1>5, <2>2
  <2>4. p[3] \in Nat
    BY <1>4, <1>5, <2>3
  <2>5. p[4] \in Nat
    BY <1>4, <1>5, <2>4
  <2>6. p[5] \in Nat /\ p[5] >= p[4]
    BY <1>4, <1>5, <2>5
  <2>7. p[6] \in Nat /\ p[6] >= p[5]
    BY <1>4, <1>5, <2>6
  <2>8. p[7] \in Nat /\ p[7] >= p[6]
    BY <1>4, <1>5, <2>7
  <2>9. p[8] \in Nat /\ p[8] >= p[7]
    BY <1>4, <1>5, <2>8
  <2>. QED
    BY <2>1, <2>2, <2>3, <2>4, <2>5, <2>6, <2>7, <2>8, <2>9
<1>7. ASSUME NEW k \in 1 .. 8 PROVE p[k - 1] \in Nat /\ p[k] \in Nat /\ p[k] = R * p[k - 1]
  <2>1. k - 1 \in 0 .. 7 /\ k = (k - 1) + 1
    OBVIOUS
  <2>2. k - 1 \in {0, 1, 2, 3, 4, 5, 6, 7}
    BY <2>1
  <2>. QED
    BY <1>4, <1>6, <2>1, <2>2
<1>8. \A n \in Nat : n <= Capacity(width) => n < p[width]
  <2>1. width \in 1 .. 8
    BY DEF MaxLenWidth
  <2>2. p[width] \in Nat /\ (width = 8 => p[8] >= p[4] /\ p[4] \in Nat /\ p[8] \in Nat)
    BY <1>6, <1>7, <2>1
  <2>. QED
    BY <1>3, <2>1, <2>2
<1>9. \A k \in 1 .. width : p[k - 1] \in Nat /\ p[k] = Radix * p[k - 1]
  BY <1>7 DEF MaxLenWidth, R
<1>. QED
  BY <1>2, <1>8, <1>9

(* The header of a Vec is read as the count it was written with.           *)
LEMMA OwnHeader ==
  ASSUME NEW m, NEW a \in Nat, NEW width \in 1 .. MaxLenWidth, NEW n \in Nat, n <= Capacity(width),
         Holds(m, a, LenHeader(n, width))
  PROVE  ReadLenHeader(m, a, width) = n
<1>1. width \in 0 .. MaxLenWidth
  BY DEF MaxLenWidth
<1>2. \A i \in 1 .. width : m[a + i - 1] = LenHeader(n, width)[i]
  BY <1>1, LenHeaderType DEF Holds
<1>3. PICK p : /\ p[0] = 1 /\ \A k \in 1 .. width : p[k - 1] \in Nat /\ p[k] = Radix * p[k - 1]
               /\ n < p[width]
  BY CapacityPowers
<1>. QED
  BY <1>1, <1>2, <1>3, HeaderReads

-----------------------------------------------------------------------------
(* The fields of a struct.                                                 *)

LEMMA FieldIdsInit == ExpandInit => FieldIds
  BY DEF ExpandInit, FieldIds, FieldCount

LEMMA FieldIdsParse ==
  ASSUME TypeInv, FieldIds, ParseField
  PROVE  FieldIds'
<1>. DEFINE f == decl.fields[idx]
            c == Classify(f)
            n == Len(layouts)
<1>1. layouts \in Seq(FieldLayout) /\ nextBit \in Nat /\ n \in Nat
  BY DEF TypeInv, ExpandTypeOK
<1>2. CASE UNCHANGED << layouts, nextBit >>
  BY <1>2 DEF FieldIds, FieldCount
<1>3. CASE /\ FieldSupported(f) /\ layouts' = Append(layouts, c)
           /\ nextBit' = IF c.shape = "implicit" THEN nextBit + 1 ELSE nextBit
  <2>1. /\ c.shape = "vec" => c.width \in 1 .. MaxLenWidth /\ c.kind.name # "bool"
        /\ c.shape = "implicit" => c.bit = nextBit
    <3>1. c.shape = "vec" /\ decl.option # "vec" => f.type = "vec"
      BY <1>3 DEF Classify, FieldSupported
    <3>2. decl.option # "vec"
      BY DEF TypeInv, ArgsChecked, ArgsSupported, ParseField
    <3>3. c.shape = "vec" => f.type = "vec" /\ c.width = f.flexible[1] /\ Len(f.flexible) = 1
      BY <1>3, <3>1, <3>2 DEF Classify, FieldSupported
    <3>4. f.type = "vec" => 1 \in DOMAIN f.flexible
      BY <1>3, <3>3 DEF FieldSupported
    <3>5. c.shape = "vec" => c.width \in 1 .. MaxLenWidth /\ c.kind.name # "bool"
      BY <1>3, <3>3, <3>4 DEF FieldSupported, Classify
    <3>6. c.shape = "implicit" => f.type = "option" /\ decl.option = "implicit"
      BY <1>3 DEF Classify, FieldSupported
    <3>7. c.shape = "implicit" => c.bit = nextBit
      BY <3>6 DEF Classify
    <3>. QED
      BY <3>5, <3>7
  <2>. HIDE DEF c, f
  <2>2. /\ FieldCount = n /\ FieldCount' = n + 1 /\ layouts'[n + 1] = c
        /\ \A i \in 1 .. n : layouts'[i] = layouts[i]
    BY <1>1, <1>3 DEF FieldCount
  <2>. HIDE DEF n
  <2>3. /\ \A i \in 1 .. n : /\ layouts[i].shape = "vec" =>
                                  layouts[i].width \in 1 .. MaxLenWidth /\ layouts[i].kind.name # "bool"
                             /\ layouts[i].shape = "implicit" => layouts[i].bit < nextBit
        /\ \A i, j \in 1 .. n : /\ layouts[i].shape = "implicit" /\ layouts[j].shape = "implicit"
                                /\ layouts[i].bit = layouts[j].bit
                                => i = j
    BY <2>2 DEF FieldIds
  <2>4. \A i \in 1 .. n : layouts[i].bit \in Nat
    <3>1. \A i \in 1 .. n : layouts[i] \in FieldLayout
      BY <1>1, <2>2, ElementOfSeq DEF FieldCount
    <3>. QED
      BY <3>1 DEF FieldLayout
  <2>5. \A i \in 1 .. n + 1 : i \in 1 .. n \/ i = n + 1
    BY <1>1
  <2>6. nextBit' \in Nat /\ nextBit <= nextBit' /\ (c.shape = "implicit" => nextBit < nextBit')
    BY <1>1, <1>3
  <2>7. ASSUME NEW i \in 1 .. n + 1
        PROVE  /\ layouts'[i].shape = "vec" =>
                    layouts'[i].width \in 1 .. MaxLenWidth /\ layouts'[i].kind.name # "bool"
               /\ layouts'[i].shape = "implicit" => layouts'[i].bit < nextBit'
    <3>1. CASE i \in 1 .. n
      BY <1>1, <2>2, <2>3, <2>4, <2>6, <3>1
    <3>2. CASE i = n + 1
      BY <1>1, <2>1, <2>2, <2>6, <3>2
    <3>. QED
      BY <2>5, <3>1, <3>2
  <2>8. ASSUME NEW i \in 1 .. n + 1, NEW j \in 1 .. n + 1,
               layouts'[i].shape = "implicit", layouts'[j].shape = "implicit",
               layouts'[i].bit = layouts'[j].bit
        PROVE  i = j
    <3>1. CASE i \in 1 .. n /\ j \in 1 .. n
      BY <2>2, <2>3, <2>8, <3>1
    <3>2. CASE i \in 1 .. n /\ j = n + 1
      BY <1>1, <2>1, <2>2, <2>3, <2>4, <2>8, <3>2
    <3>3. CASE i = n + 1 /\ j \in 1 .. n
      BY <1>1, <2>1, <2>2, <2>3, <2>4, <2>8, <3>3
    <3>4. CASE i = n + 1 /\ j = n + 1
      BY <3>4
    <3>. QED
      BY <2>5, <3>1, <3>2, <3>3, <3>4
  <2>. QED
    BY <2>2, <2>7, <2>8 DEF FieldIds
<1>. QED
  BY <1>2, <1>3 DEF ParseField

LEMMA FieldIdsExpand ==
  ASSUME TypeInv, FieldIds, ExpandNext
  PROVE  FieldIds'
<1>1. CASE ParseField
  BY <1>1, FieldIdsParse
<1>2. CASE UNCHANGED << layouts, nextBit >>
  BY <1>2 DEF FieldIds, FieldCount
<1>. QED
  BY <1>1, <1>2 DEF ExpandNext, ParseArgs, CheckStructOptions, AddPayload, SumsDone,
     NeedsNoAlignment, AlignmentBeyondBase, AddPossibleLen, ResiduesApply, CheckResidues,
     AlignmentDone, EmitField, EmitDone

-----------------------------------------------------------------------------
(* The last encoding is in the buffer.                                     *)

(* What a write writes is there afterwards.                                *)
LEMMA WriteHolds ==
  ASSUME NEW m \in Memory, NEW a \in Nat, NEW bytes \in Seq(Byte), a + Len(bytes) <= MemLen
  PROVE  Holds(Write(m, a, bytes), a, bytes)
<1>. SUFFICES ASSUME NEW k \in 1 .. Len(bytes) PROVE Write(m, a, bytes)[a + k - 1] = bytes[k]
  BY DEF Holds
<1>1. Len(bytes) \in Nat /\ k \in Nat
  OBVIOUS
<1>2. /\ a + k - 1 \in DOMAIN m /\ a + k - 1 \in a .. a + Len(bytes) - 1 /\ (a + k - 1) - a + 1 = k
  <2>1. DOMAIN m = 0 .. MemLen - 1
    BY DEF Memory
  <2>2. a + k - 1 \in 0 .. MemLen - 1 /\ a + k - 1 \in a .. a + Len(bytes) - 1 /\ (a + k - 1) - a + 1 = k
    BY <1>1, MemoryAssumption
  <2>. QED
    BY <2>1, <2>2
<1>. QED
  BY <1>2 DEF Write

(* It leaves alone what lies below it.                                     *)
LEMMA WriteKeepsBelow ==
  ASSUME NEW m \in Memory, NEW a \in Nat, NEW bytes \in Seq(Byte),
         NEW b \in Nat, NEW below \in Seq(Byte), b + Len(below) <= a, a <= MemLen,
         Holds(m, b, below)
  PROVE  Holds(Write(m, a, bytes), b, below)
<1>. SUFFICES ASSUME NEW k \in 1 .. Len(below) PROVE Write(m, a, bytes)[b + k - 1] = below[k]
  BY DEF Holds
<1>1. Len(bytes) \in Nat /\ k \in Nat /\ Len(below) \in Nat
  OBVIOUS
<1>2. b + k - 1 \in DOMAIN m /\ b + k - 1 \notin a .. a + Len(bytes) - 1
  <2>1. DOMAIN m = 0 .. MemLen - 1
    BY DEF Memory
  <2>2. b + k - 1 \in 0 .. MemLen - 1 /\ b + k - 1 \notin a .. a + Len(bytes) - 1
    BY <1>1, MemoryAssumption
  <2>. QED
    BY <2>1, <2>2
<1>3. Write(m, a, bytes)[b + k - 1] = m[b + k - 1]
  BY <1>2, WriteOutside
<1>. QED
  BY <1>3 DEF Holds

\* The value of a field while it is encoded.
LEMMA FieldOf ==
  ASSUME ExpandInv, CodecInv, NEW v \in Seq(FieldValue), IsStruct(v), NEW i \in 1 .. FieldCount
  PROVE  /\ layouts[i] \in FieldLayout /\ v[i] \in FieldValue /\ IsFieldValue(layouts[i], v[i])
         /\ FieldBytes(layouts[i], v[i]) \in Seq(Byte)
         /\ Len(FieldBytes(layouts[i], v[i])) = EncodedFieldLen(layouts[i], v[i].count)
         /\ EncodedFieldLen(layouts[i], v[i].count) \in Nat
<1>1. Len(v) = FieldCount /\ IsFieldValue(layouts[i], v[i])
  BY DEF IsStruct
<1>2. layouts[i] \in FieldLayout /\ v[i] \in FieldValue
  BY <1>1, EncodeTypesOf, ElementOfSeq
<1>3. FieldBytes(layouts[i], v[i]) \in Seq(Byte)
  BY <1>2, FieldBytesType
<1>4. Len(FieldBytes(layouts[i], v[i])) = EncodedFieldLen(layouts[i], v[i].count)
  BY <1>1, <1>2, FieldBytesLen
<1>5. v[i].count \in Nat
  BY <1>2 DEF FieldValue
<1>6. EncodedFieldLen(layouts[i], v[i].count) \in Nat
  BY <1>2, <1>5, EncodedFieldLenType
<1>. QED
  BY <1>1, <1>2, <1>3, <1>4, <1>6

LEMMA WroteAddLen ==
  ASSUME ExpandInv, CodecInv, EncodeInv, WroteInv, UNCHANGED expandVars, AddLen
  PROVE  WroteInv'
<1>1. /\ FieldCount' = FieldCount /\ layouts' = layouts /\ phase' = phase
      /\ UNCHANGED << mem, slice, val, lim, plan, wrote >>
  BY DEF AddLen, expandVars, FieldCount
<1>2. FieldIds' /\ (wrote # NoEncoding => Encoding(mem, wrote))' /\ (phase # "emitted" => wrote = NoEncoding)'
  <2>1. nextBit' = nextBit
    BY DEF expandVars
  <2>2. FieldIds'
    <3>1. FieldIds
      BY DEF WroteInv
    <3>. QED
      BY ONLY <1>1, <2>1, <3>1 DEF FieldIds
  <2>3. (wrote # NoEncoding => Encoding(mem, wrote))'
    <3>1. wrote # NoEncoding => Encoding(mem, wrote)
      BY DEF WroteInv
    <3>2. UNCHANGED << mem, wrote >> /\ NoEncoding' = NoEncoding
      BY <1>1
    <3>3. Encoding(mem, wrote)' <=> Encoding(mem, wrote)
      BY ONLY <1>1 DEF Encoding, CountsFit, IsStruct
    <3>. QED
      BY <3>1, <3>2, <3>3
  <2>4. (phase # "emitted" => wrote = NoEncoding)'
    BY <1>1 DEF WroteInv
  <2>. QED
    BY <2>2, <2>3, <2>4
<1>3. CASE pc' = "idle"
  BY <1>2, <1>3 DEF WroteInv, Written
<1>4. CASE /\ pc' = "len" /\ fi' = fi + 1
           /\ ~(layouts[fi].shape = "vec" /\ val[fi].count > Capacity(layouts[fi].width))
  <2>1. pc = "len" /\ fi \in 1 .. FieldCount /\ FieldCount \in Nat /\ (fi + 1) - 1 = fi
    BY EncodeTypesOf DEF AddLen
  <2>2. CountsFit(val, fi - 1)
    BY <2>1 DEF WroteInv, Written
  <2>3. layouts[fi].shape = "vec" => val[fi].count <= Capacity(layouts[fi].width)
    <3>1. IsStruct(val) /\ val \in Seq(FieldValue)
      BY <2>1, EncodeTypesOf DEF CodecInv, CallInv
    <3>2. layouts[fi] \in FieldLayout /\ val[fi] \in FieldValue
      BY <2>1, <3>1, FieldOf
    <3>3. layouts[fi].width \in 0 .. MaxLenWidth /\ val[fi].count \in Nat
      BY <3>2 DEF FieldLayout, FieldValue
    <3>4. Capacity(layouts[fi].width) \in Nat
      BY <3>3, CapacityType
    <3>. QED
      BY <1>4, <3>3, <3>4
  <2>4. \A i \in 1 .. fi : i \in 1 .. fi - 1 \/ i = fi
    BY <2>1
  <2>5. CountsFit(val, fi)
    BY <2>2, <2>3, <2>4 DEF CountsFit
  <2>6. CountsFit(val, fi - 1)'
    BY <1>1, <1>4, <2>1, <2>5 DEF CountsFit
  <2>. QED
    BY <1>2, <1>4, <2>6 DEF WroteInv, Written
<1>. QED
  BY <1>3, <1>4 DEF AddLen, Fail, Return, Advance

LEMMA WroteCheckRoom ==
  ASSUME ExpandInv, CodecInv, EncodeInv, WroteInv, UNCHANGED expandVars, CheckRoom
  PROVE  WroteInv'
<1>1. /\ FieldCount' = FieldCount /\ layouts' = layouts /\ phase' = phase
      /\ UNCHANGED << mem, slice, val >>
  BY DEF CheckRoom, expandVars, FieldCount
<1>2. FieldIds'
  BY <1>1 DEF WroteInv, FieldIds, expandVars
<1>3. CASE pc' = "idle" /\ wrote' = wrote
  <2>1. (wrote # NoEncoding => Encoding(mem, wrote))' /\ (phase # "emitted" => wrote = NoEncoding)'
    BY <1>1, <1>3 DEF WroteInv, Encoding, CountsFit, IsStruct
  <2>. QED
    BY <1>2, <1>3, <2>1 DEF WroteInv, Written
<1>4. CASE /\ pc' = "write" /\ fi' = 1 /\ lim' = off /\ at' = << >> /\ wrote' = NoEncoding
           /\ ~(slice.hi - slice.lo < off)
  <2>1. pc = "len" /\ fi = FieldCount + 1 /\ FieldCount \in Nat /\ (FieldCount + 1) - 1 = FieldCount
    BY EncodeTypesOf DEF CheckRoom, EncodeInv, LenLoop
  <2>2. CountsFit(val, FieldCount)
    BY <2>1 DEF WroteInv, Written
  <2>3. slice.lo + lim' <= MemLen
    <3>1. slice.lo \in 0 .. MemLen /\ slice.hi \in 0 .. MemLen /\ off \in Nat
      BY DEF CodecInv, CodecTypeOK, Slice
    <3>. QED
      BY <1>4, <3>1, MemoryAssumption
  <2>4. CountsFit(val, FieldCount)' /\ Len(at') = fi' - 1 /\ 1 .. fi' - 1 = {}
    BY <1>1, <1>4, <2>2 DEF CountsFit
  <2>. QED
    BY <1>1, <1>2, <1>4, <2>3, <2>4 DEF WroteInv, Written
<1>. QED
  BY <1>3, <1>4 DEF CheckRoom, Fail, Return

LEMMA WroteWriteField ==
  ASSUME ExpandInv, CodecInv, EncodeInv, WroteInv, UNCHANGED expandVars, WriteField
  PROVE  WroteInv'
<1>. DEFINE Field(i) == FieldBytes(layouts[i], val[i])
            bytes == Field(fi)
            start == slice.lo + off
<1>1. /\ FieldCount' = FieldCount /\ layouts' = layouts /\ phase' = phase
      /\ UNCHANGED << slice, val, lim, plan, wrote >> /\ pc = "write"
      /\ fi \in 1 .. FieldCount /\ FieldCount \in Nat /\ off \in Nat /\ lim \in Nat
      /\ at \in Seq(Nat) /\ plan \in Seq(Nat) /\ mem \in Memory /\ slice.lo \in Nat
      /\ val \in Seq(FieldValue) /\ IsStruct(val)
  <2>1. FieldCount' = FieldCount /\ layouts' = layouts /\ phase' = phase
    BY DEF expandVars, FieldCount
  <2>2. UNCHANGED << slice, val, lim, plan, wrote >> /\ pc = "write" /\ fi <= FieldCount
    BY DEF WriteField
  <2>3. IsStruct(val)
    BY <2>2 DEF CodecInv, CallInv
  <2>. QED
    BY <2>1, <2>2, <2>3, EncodeTypesOf
<1>2. /\ CountsFit(val, FieldCount) /\ slice.lo + lim <= MemLen /\ wrote = NoEncoding
      /\ Len(at) = fi - 1
      /\ \A i \in 1 .. fi - 1 : at[i] = plan[i] /\ Holds(mem, slice.lo + plan[i], Field(i))
  BY <1>1 DEF WroteInv, Written
<1>3. /\ Len(plan) = FieldCount + 1 /\ off = plan[fi]
      /\ \A i \in 1 .. FieldCount : plan[i + 1] = plan[i] + EncodedFieldLen(layouts[i], val[i].count)
      /\ \A i \in 1 .. FieldCount + 1 : plan[i] <= lim
  BY <1>1 DEF EncodeInv, WriteLoop
<1>4. \A i \in 1 .. FieldCount : /\ Field(i) \in Seq(Byte) /\ Len(Field(i)) \in Nat
                                 /\ plan[i + 1] = plan[i] + Len(Field(i))
                                 /\ plan[i] \in Nat /\ plan[i + 1] \in Nat /\ plan[i + 1] <= lim
  <2>. SUFFICES ASSUME NEW i \in 1 .. FieldCount
                PROVE  /\ Field(i) \in Seq(Byte) /\ Len(Field(i)) \in Nat
                       /\ plan[i + 1] = plan[i] + Len(Field(i))
                       /\ plan[i] \in Nat /\ plan[i + 1] \in Nat /\ plan[i + 1] <= lim
    OBVIOUS
  <2>1. /\ Field(i) \in Seq(Byte) /\ Len(Field(i)) = EncodedFieldLen(layouts[i], val[i].count)
        /\ EncodedFieldLen(layouts[i], val[i].count) \in Nat
    BY <1>1, FieldOf
  <2>2. i \in 1 .. FieldCount + 1 /\ i + 1 \in 1 .. FieldCount + 1
    BY <1>1
  <2>3. plan[i] \in Nat /\ plan[i + 1] \in Nat
    BY <1>1, <1>3, <2>2, ElementOfSeq
  <2>. HIDE DEF Field
  <2>. QED
    BY <1>3, <2>1, <2>2, <2>3
<1>5. /\ bytes \in Seq(Byte) /\ Len(bytes) \in Nat /\ start \in Nat /\ start + Len(bytes) <= MemLen
  <2>1. bytes \in Seq(Byte) /\ Len(bytes) \in Nat /\ off + Len(bytes) <= lim
    BY <1>1, <1>3, <1>4
  <2>2. slice.lo \in Nat /\ off \in Nat /\ lim \in Nat /\ slice.lo + lim <= MemLen /\ MemLen \in Nat
    BY <1>1, <1>2, MemoryAssumption
  <2>. HIDE DEF bytes
  <2>. QED
    BY ONLY <2>1, <2>2
<1>. HIDE DEF Field
<1>6. /\ mem' = Write(mem, start, bytes)
      /\ fi' = fi + 1 /\ at' = Append(at, off) /\ pc' = pc
  <2>1. off + Len(bytes) <= lim
    BY <1>1, <1>3, <1>4
  <2>2. ~(off + Len(bytes) > lim)
    <3>. HIDE DEF bytes
    <3>. QED
      BY <1>1, <1>5, <2>1
  <2>. QED
    BY <2>2 DEF WriteField, Advance, Field
<1>7. Holds(mem', start, bytes)
  BY <1>1, <1>5, <1>6, WriteHolds
<1>8. ASSUME NEW i \in 1 .. fi - 1
      PROVE  Holds(mem', slice.lo + plan[i], Field(i))
  <2>1. i \in 1 .. FieldCount /\ i + 1 \in 1 .. fi
    BY <1>1
  <2>2. plan[i + 1] <= plan[fi]
    <3>. DEFINE u == plan
    <3>1. \A j \in 1 .. FieldCount : u[j] <= u[j + 1]
      BY <1>4
    <3>2. \A j \in 1 .. FieldCount + 1 : u[j] \in Nat
      BY <1>1, <1>3, ElementOfSeq
    <3>. HIDE DEF u
    <3>3. \A j, k \in 1 .. FieldCount + 1 : j <= k => u[j] <= u[k]
      BY <1>1, <3>1, <3>2, OffsetsGrow
    <3>4. i + 1 \in 1 .. FieldCount + 1 /\ fi \in 1 .. FieldCount + 1 /\ i + 1 <= fi
      BY <1>1, <2>1
    <3>. QED
      BY <3>3, <3>4 DEF u
  <2>3. Field(i) \in Seq(Byte) /\ Len(Field(i)) \in Nat /\ plan[i] \in Nat /\ plan[i + 1] \in Nat
        /\ plan[i + 1] = plan[i] + Len(Field(i))
    BY <1>4, <2>1
  <2>4. slice.lo + plan[i] \in Nat /\ (slice.lo + plan[i]) + Len(Field(i)) <= start /\ start <= MemLen
    <3>1. ASSUME NEW lo \in Nat, NEW p \in Nat, NEW q \in Nat, NEW o \in Nat, NEW n \in Nat,
                 q = p + n, q <= o
          PROVE  lo + p \in Nat /\ (lo + p) + n <= lo + o
      BY <3>1
    <3>2. plan[i + 1] <= off
      BY <1>3, <2>2
    <3>3. slice.lo + plan[i] \in Nat /\ (slice.lo + plan[i]) + Len(Field(i)) <= slice.lo + off
      BY ONLY <1>1, <2>3, <3>1, <3>2
    <3>4. Len(bytes) \in Nat /\ start + Len(bytes) <= MemLen /\ MemLen \in Nat /\ start \in Nat
      BY <1>5, MemoryAssumption
    <3>5. start <= MemLen
      BY ONLY <3>4
    <3>. QED
      BY <3>3, <3>5
  <2>5. Holds(mem, slice.lo + plan[i], Field(i))
    BY <1>2
  <2>. QED
    BY <1>1, <1>5, <1>6, <2>3, <2>4, <2>5, WriteKeepsBelow
<1>9. Len(at') = fi' - 1 /\ \A i \in 1 .. fi : at'[i] = plan[i] /\ Holds(mem', slice.lo + plan[i], Field(i))
  <2>1. Len(at') = fi' - 1 /\ at'[fi] = off /\ \A i \in 1 .. fi - 1 : at'[i] = at[i]
    BY <1>1, <1>2, <1>6
  <2>2. \A i \in 1 .. fi : i \in 1 .. fi - 1 \/ i = fi
    BY <1>1
  <2>. QED
    BY <1>2, <1>3, <1>7, <1>8, <2>1, <2>2
<1>10. Written'
  <2>1. fi' - 1 = fi /\ pc' = "write"
    BY <1>1, <1>6
  <2>2. \A i \in 1 .. fi' - 1 : at'[i] = plan'[i] /\ Holds(mem', slice'.lo + plan'[i], FieldBytes(layouts'[i], val'[i]))
    BY <1>1, <1>9, <2>1 DEF Field
  <2>3. CountsFit(val, FieldCount)' /\ (slice.lo + lim <= MemLen)' /\ wrote' = NoEncoding
    BY <1>1, <1>2 DEF CountsFit
  <2>. QED
    BY <1>9, <2>1, <2>2, <2>3 DEF Written
<1>11. FieldIds'
  BY <1>1 DEF WroteInv, FieldIds, expandVars
<1>. QED
  BY <1>1, <1>2, <1>10, <1>11 DEF WroteInv

LEMMA WroteEncodeDone ==
  ASSUME ExpandInv, CodecInv, EncodeInv, WroteInv, UNCHANGED expandVars, phase = "emitted", EncodeDone
  PROVE  WroteInv'
<1>1. /\ FieldCount' = FieldCount /\ layouts' = layouts /\ phase' = phase
      /\ pc = "write" /\ pc' = "idle" /\ mem' = mem
      /\ wrote' = [lo |-> slice.lo, hi |-> slice.lo + lim, val |-> val, at |-> Append(at, off)]
  BY DEF EncodeDone, Return, expandVars, FieldCount
<1>2. /\ fi = FieldCount + 1 /\ FieldCount \in Nat /\ at \in Seq(Nat) /\ off \in Nat
      /\ (FieldCount + 1) - 1 = FieldCount
  <2>1. fi <= FieldCount + 1
    BY <1>1 DEF EncodeInv, WriteLoop
  <2>2. fi > FieldCount
    BY DEF EncodeDone
  <2>. QED
    BY <2>1, <2>2, EncodeTypesOf
<1>3. /\ CountsFit(val, FieldCount) /\ slice.lo + lim <= MemLen /\ IsStruct(val)
      /\ Len(at) = FieldCount
      /\ \A i \in 1 .. FieldCount : at[i] = plan[i] /\ Holds(mem, slice.lo + plan[i], FieldBytes(layouts[i], val[i]))
  BY <1>1, <1>2 DEF WroteInv, Written, CodecInv, CallInv
<1>4. /\ plan[1] = 0 /\ plan[FieldCount + 1] = lim /\ off = plan[FieldCount + 1]
      /\ \A i \in 1 .. FieldCount : plan[i + 1] = plan[i] + EncodedFieldLen(layouts[i], val[i].count)
  BY <1>1, <1>2 DEF EncodeInv, WriteLoop
<1>. DEFINE found == Append(at, off)
<1>5. Len(found) = FieldCount + 1 /\ \A i \in 1 .. FieldCount + 1 : found[i] = plan[i]
  <2>1. Len(found) = FieldCount + 1 /\ found[FieldCount + 1] = off /\ \A i \in 1 .. FieldCount : found[i] = at[i]
    BY <1>2, <1>3
  <2>2. \A i \in 1 .. FieldCount + 1 : i \in 1 .. FieldCount \/ i = FieldCount + 1
    BY <1>2
  <2>. HIDE DEF found
  <2>. QED
    BY <1>3, <1>4, <2>1, <2>2
<1>6. /\ wrote'.lo = slice.lo /\ wrote'.hi = slice.lo + lim /\ wrote'.val = val /\ wrote'.at = found
  BY <1>1
<1>. HIDE DEF found
<1>7. \A i \in 1 .. FieldCount : i \in 1 .. FieldCount + 1 /\ i + 1 \in 1 .. FieldCount + 1
  BY <1>2
<1>8. 1 \in 1 .. FieldCount + 1 /\ FieldCount + 1 \in 1 .. FieldCount + 1
  BY <1>2
<1>9. /\ IsStruct(wrote'.val) /\ CountsFit(wrote'.val, FieldCount)
      /\ Len(wrote'.at) = FieldCount + 1 /\ wrote'.at[1] = 0
      /\ wrote'.hi = wrote'.lo + wrote'.at[FieldCount + 1] /\ wrote'.hi <= MemLen
  BY <1>3, <1>4, <1>5, <1>6, <1>8
<1>10. ASSUME NEW i \in 1 .. FieldCount
       PROVE  /\ wrote'.at[i + 1] = wrote'.at[i] + EncodedFieldLen(layouts[i], wrote'.val[i].count)
              /\ Holds(mem, wrote'.lo + wrote'.at[i], FieldBytes(layouts[i], wrote'.val[i]))
  BY <1>3, <1>4, <1>5, <1>6, <1>7
<1>11. Encoding(mem, wrote)'
  BY <1>1, <1>9, <1>10 DEF Encoding, IsStruct, CountsFit
<1>12. FieldIds'
  BY <1>1 DEF WroteInv, FieldIds, expandVars
<1>. QED
  BY <1>1, <1>11, <1>12 DEF WroteInv, Written

\* The other steps write nothing.
LEMMA WroteOther ==
  ASSUME WroteInv, UNCHANGED expandVars,
         \/ StartEncode \/ StartDecode \/ ValidateField \/ DecodeDone
         \/ StartGet \/ GetStep \/ GetRead
  PROVE  WroteInv'
<1>1. /\ FieldCount' = FieldCount /\ layouts' = layouts /\ phase' = phase
  BY DEF expandVars, FieldCount
<1>2. mem' = mem /\ wrote' = wrote /\ (pc' = "len" => fi' = 1) /\ pc' # "write"
  <2>. USE DEF StartLoop, Return, Fail, Panic, Advance, callVars
  <2>1. CASE StartEncode
    BY <2>1 DEF StartEncode
  <2>2. CASE StartDecode
    BY <2>2 DEF StartDecode
  <2>3. CASE ValidateField
    BY <2>3 DEF ValidateField
  <2>4. CASE DecodeDone
    BY <2>4 DEF DecodeDone
  <2>5. CASE StartGet \/ GetStep \/ GetRead
    BY <2>5 DEF StartGet, GetStep, GetRead
  <2>. QED
    BY <2>1, <2>2, <2>3, <2>4, <2>5
<1>3. FieldIds'
  BY <1>1 DEF WroteInv, FieldIds, expandVars
<1>4. Written'
  BY <1>2 DEF Written, CountsFit
<1>5. (wrote # NoEncoding => Encoding(mem, wrote))' /\ (phase # "emitted" => wrote = NoEncoding)'
  BY <1>1, <1>2 DEF WroteInv, Encoding, CountsFit, IsStruct
<1>. QED
  BY <1>3, <1>4, <1>5 DEF WroteInv

LEMMA WroteInit == Init => WroteInv
<1>. SUFFICES ASSUME Init PROVE WroteInv
  OBVIOUS
<1>1. FieldIds
  BY FieldIdsInit DEF Init
<1>. QED
  BY <1>1 DEF Init, CodecInit, WroteInv, Written

LEMMA WroteStep ==
  ASSUME ExpandInv, CodecInv, EncodeInv, WroteInv, [Next]_vars
  PROVE  WroteInv'
<1>1. CASE ExpandNext /\ UNCHANGED codecVars
  <2>1. phase # "emitted"
    BY <1>1 DEF ExpandNext, ParseArgs, ParseField, CheckStructOptions, AddPayload, SumsDone,
           NeedsNoAlignment, AlignmentBeyondBase, AddPossibleLen, CheckResidues, ResiduesApply,
           AlignmentDone, EmitField, EmitDone
  <2>2. pc = "idle" /\ wrote = NoEncoding
    BY <2>1 DEF CodecInv, CallInv, WroteInv
  <2>3. FieldIds'
    BY <1>1, FieldIdsExpand DEF ExpandInv, WroteInv
  <2>. QED
    BY <1>1, <2>2, <2>3 DEF codecVars, callVars, WroteInv, Written
<1>2. CASE phase = "emitted" /\ CodecNext /\ UNCHANGED expandVars
  BY <1>2, WroteAddLen, WroteCheckRoom, WroteWriteField, WroteEncodeDone, WroteOther DEF CodecNext
<1>3. CASE UNCHANGED vars
  <2>1. UNCHANGED << mem, pc, slice, val, fi, lim, plan, at, wrote, phase, layouts, nextBit >>
    BY <1>3 DEF vars, codecVars, callVars, expandVars
  <2>2. FieldIds'
    BY <2>1 DEF WroteInv, FieldIds, FieldCount
  <2>3. Written'
    BY <2>1 DEF WroteInv, Written, CountsFit, FieldCount
  <2>4. (wrote # NoEncoding => Encoding(mem, wrote))' /\ (phase # "emitted" => wrote = NoEncoding)'
    BY <2>1 DEF WroteInv, Encoding, CountsFit, IsStruct, FieldCount
  <2>. QED
    BY <2>2, <2>3, <2>4 DEF WroteInv
<1>. QED
  BY <1>1, <1>2, <1>3 DEF Next, Stopped

LEMMA WroteInvariant == Spec => [](MacroInv /\ ExpandInv /\ CodecInv /\ EncodeInv /\ ViewInv /\ WroteInv)
  BY WroteInit, WroteStep, MacroInvariant, EncodeInvariant, ViewInvariant, PTL DEF Spec

-----------------------------------------------------------------------------
(* The last encoding has contents the macro counted with.                  *)

WroteContents == [i \in 1 .. FieldCount |-> wrote.val[i].count]

\* The fields of the last encoding.
LEMMA OwnField ==
  ASSUME ExpandInv, CodecInv, WroteInv, wrote # NoEncoding
  PROVE  /\ phase = "emitted" /\ FieldCount \in Nat /\ FieldIds
         /\ wrote.lo \in Nat /\ wrote.hi \in Nat /\ wrote.hi <= MemLen
         /\ wrote.at[1] = 0 /\ wrote.hi = wrote.lo + wrote.at[FieldCount + 1]
         /\ \A i \in 1 .. FieldCount + 1 : wrote.at[i] \in Nat
         /\ \A i \in 1 .. FieldCount :
              LET l == layouts[i]
                  v == wrote.val[i]
              IN /\ l \in FieldLayout /\ v \in FieldValue /\ IsFieldValue(l, v)
                 /\ EncodedFieldLen(l, v.count) \in Nat
                 /\ wrote.at[i + 1] = wrote.at[i] + EncodedFieldLen(l, v.count)
                 /\ Holds(mem, wrote.lo + wrote.at[i], FieldBytes(l, v))
                 /\ l.shape = "vec" => v.count <= Capacity(l.width)
<1>1. phase = "emitted" /\ FieldIds /\ Encoding(mem, wrote)
  BY DEF WroteInv
<1>2. wrote.lo \in Nat /\ wrote.hi \in Int /\ wrote.val \in Seq(FieldValue) /\ wrote.at \in Seq(Nat)
  BY DEF CodecInv, CodecTypeOK
<1>3. FieldCount \in Nat
  BY EncodeTypesOf
<1>4. /\ IsStruct(wrote.val) /\ CountsFit(wrote.val, FieldCount) /\ Len(wrote.at) = FieldCount + 1
      /\ wrote.at[1] = 0 /\ wrote.hi = wrote.lo + wrote.at[FieldCount + 1] /\ wrote.hi <= MemLen
      /\ \A i \in 1 .. FieldCount :
           /\ wrote.at[i + 1] = wrote.at[i] + EncodedFieldLen(layouts[i], wrote.val[i].count)
           /\ Holds(mem, wrote.lo + wrote.at[i], FieldBytes(layouts[i], wrote.val[i]))
  BY <1>1 DEF Encoding
<1>5. \A i \in 1 .. FieldCount + 1 : wrote.at[i] \in Nat
  BY <1>2, <1>4, ElementOfSeq
<1>6. FieldCount + 1 \in 1 .. FieldCount + 1
  BY <1>3
<1>7. wrote.hi \in Nat
  BY <1>2, <1>4, <1>5, <1>6
<1>8. \A i \in 1 .. FieldCount :
        /\ layouts[i] \in FieldLayout /\ wrote.val[i] \in FieldValue
        /\ IsFieldValue(layouts[i], wrote.val[i])
        /\ EncodedFieldLen(layouts[i], wrote.val[i].count) \in Nat
  BY <1>2, <1>4, FieldOf
<1>9. \A i \in 1 .. FieldCount :
        layouts[i].shape = "vec" => wrote.val[i].count <= Capacity(layouts[i].width)
  BY <1>4 DEF CountsFit
<1>. QED
  BY <1>1, <1>2, <1>3, <1>4, <1>5, <1>7, <1>8, <1>9

LEMMA OwnContents ==
  ASSUME MacroInv, ExpandInv, CodecInv, WroteInv, wrote # NoEncoding
  PROVE  /\ WroteContents \in AllContents
         /\ \A i \in 1 .. FieldCount : WroteContents[i] = wrote.val[i].count
         /\ \A i \in 1 .. FieldCount + 1 : FieldStarts(WroteContents)[i] = wrote.at[i]
<1>. DEFINE c == WroteContents
<1>1. \A i \in 1 .. FieldCount : c[i] = wrote.val[i].count
  BY DEF WroteContents
<1>2. ASSUME NEW i \in 1 .. FieldCount PROVE c[i] \in AllCounts(layouts[i])
  <2>. DEFINE l == layouts[i]
              v == wrote.val[i]
  <2>1. l \in FieldLayout /\ v \in FieldValue /\ IsFieldValue(l, v)
        /\ (l.shape = "vec" => v.count <= Capacity(l.width))
    BY OwnField
  <2>2. l.shape \in {"plain", "tagged", "implicit", "vec"} /\ l.width \in 0 .. MaxLenWidth
        /\ v.count \in Nat
    BY <2>1 DEF FieldLayout, FieldValue
  <2>3. Capacity(l.width) \in Nat
    BY <2>2, CapacityType
  <2>4. v.count \in AllCounts(l)
    BY <2>1, <2>2, <2>3 DEF IsFieldValue, AllCounts
  <2>. QED
    BY <1>1, <2>4
<1>3. c = [i \in 1 .. FieldCount |-> c[i]]
  BY DEF WroteContents
<1>. HIDE DEF c
<1>4. c \in AllContents
  BY <1>2, <1>3, AllContentsOf
<1>5. \A i \in 1 .. FieldCount + 1 : FieldStarts(c)[i] = wrote.at[i]
  <2>1. TypeInv /\ FieldCount \in Nat
    BY OwnField DEF MacroInv
  <2>2. FieldStarts(c)[1] = wrote.at[1]
    BY <1>4, <2>1, StartsEquation, OwnField
  <2>3. ASSUME NEW i \in 1 .. FieldCount, FieldStarts(c)[i] = wrote.at[i]
        PROVE  FieldStarts(c)[i + 1] = wrote.at[i + 1]
    <3>1. FieldStarts(c)[i + 1] = FieldStarts(c)[i] + EncodedFieldLen(layouts[i], c[i])
      BY <1>4, <2>1, StartsEquation
    <3>2. wrote.at[i + 1] = wrote.at[i] + EncodedFieldLen(layouts[i], wrote.val[i].count)
      BY OwnField
    <3>. QED
      BY <1>1, <2>3, <3>1, <3>2
  <2>. DEFINE u == FieldStarts(c)
              w == wrote.at
  <2>4. u[1] = w[1] /\ \A i \in 1 .. FieldCount : u[i] = w[i] => u[i + 1] = w[i + 1]
    BY <2>2, <2>3
  <2>. HIDE DEF u, w
  <2>5. \A i \in 1 .. FieldCount + 1 : u[i] = w[i]
    BY <2>1, <2>4, RecursionUnique
  <2>. QED
    BY <2>5 DEF u, w
<1>. QED
  BY <1>1, <1>4, <1>5 DEF c

LEMMA OwnAligned ==
  ASSUME MacroInv, ExpandInv, CodecInv, WroteInv, wrote # NoEncoding, LegalAddress(wrote.lo),
         NEW i \in 1 .. FieldCount, Borrows(layouts[i]), wrote.val[i].count > 0
  PROVE  /\ (wrote.lo + wrote.at[i] + PayloadShift(layouts[i])) % Align(layouts[i].kind) = 0
         /\ decl.buffer # Unaligned => Align(layouts[i].kind) <= BaseAlign
         /\ decl.buffer = Unaligned => Align(layouts[i].kind) = 1
<1>1. phase = "emitted" /\ wrote.lo \in Nat /\ i \in 1 .. FieldCount + 1
  BY OwnField
<1>2. WroteContents \in AllContents /\ WroteContents[i] > 0 /\ FieldStarts(WroteContents)[i] = wrote.at[i]
  BY <1>1, OwnContents
<1>3. /\ (wrote.lo + FieldStarts(WroteContents)[i] + PayloadShift(layouts[i])) % Align(layouts[i].kind) = 0
      /\ decl.buffer # Unaligned => Align(layouts[i].kind) <= BaseAlign
      /\ decl.buffer = Unaligned => Align(layouts[i].kind) = 1
  BY <1>1, <1>2, AlignedAnywhere
<1>. QED
  BY <1>2, <1>3

(* What encode_to writes at an address buffer_offset allows holds each     *)
(* borrowed payload aligned, whatever the struct and its contents.         *)
THEOREM EncodingsAreAligned == Spec => []EncodedAligned
<1>1. MacroInv /\ ExpandInv /\ CodecInv /\ WroteInv => EncodedAligned
  BY OwnAligned DEF EncodedAligned
<1>. QED
  BY <1>1, WroteInvariant, PTL

-----------------------------------------------------------------------------
(* The decoder reads the counts that were written.                         *)

(* The length of an implicit encoding is one the decoder knows, and marks  *)
(* the options that are present.                                           *)
LEMMA OwnMask ==
  ASSUME MacroInv, ExpandInv, CodecInv, WroteInv, wrote # NoEncoding, decl.option = "implicit"
  PROVE  /\ wrote.hi - wrote.lo \in ImplicitLens /\ wrote.hi - wrote.lo \in lens
         /\ \A i \in 1 .. FieldCount :
              /\ layouts[i].shape \in {"plain", "implicit"}
              /\ layouts[i].shape = "implicit" =>
                   (layouts[i].bit \in MaskForLen(wrote.hi - wrote.lo) <=> wrote.val[i].count = 1)
<1>. DEFINE c == WroteContents
            len == wrote.hi - wrote.lo
            Marked == {j \in 1 .. FieldCount : layouts[j].shape = "implicit" /\ c[j] = 1}
<1>1. phase = "emitted" /\ TypeInv /\ FieldCount \in Nat /\ FieldIds
  BY OwnField DEF MacroInv
<1>2. OptionsOnly
  BY <1>1 DEF MacroInv, SumsInv
<1>3. c \in AllContents /\ \A i \in 1 .. FieldCount : c[i] = wrote.val[i].count
  BY OwnContents
<1>4. c \in Contents
  <2>. HIDE DEF c
  <2>1. \A i \in 1 .. FieldCount : c[i] \in AllCounts(layouts[i])
    BY <1>1, <1>3, AllContentsTypes
  <2>2. \A i \in 1 .. FieldCount : c[i] \in Counts(layouts[i])
    BY <1>2, <2>1 DEF OptionsOnly, AllCounts, Counts
  <2>3. c = [i \in 1 .. FieldCount |-> c[i]]
    BY <1>3 DEF AllContents
  <2>. QED
    BY <2>2, <2>3, ContentsOf
<1>5. Total(c) = len
  <2>1. FieldStarts(c)[FieldCount + 1] = wrote.at[FieldCount + 1] /\ wrote.at[FieldCount + 1] \in Nat
    BY <1>1, OwnContents, OwnField
  <2>2. wrote.hi = wrote.lo + wrote.at[FieldCount + 1] /\ wrote.lo \in Nat
    BY OwnField
  <2>. QED
    BY <2>1, <2>2 DEF Total
<1>. HIDE DEF c, len
<1>6. lens = StartsOf(FieldCount + 1)
  <2>1. Bounded(FieldCount + 1)
    BY <1>1 DEF MacroInv, LengthsInv
  <2>2. ~ \E j \in 1 .. (FieldCount + 1) - 1 : layouts[j].shape = "vec"
    <3>1. (FieldCount + 1) - 1 = FieldCount
      BY <1>1
    <3>. QED
      BY <1>2, <3>1 DEF OptionsOnly
  <2>. QED
    BY <2>1, <2>2 DEF Bounded
<1>7. len \in lens
  BY <1>4, <1>5, <1>6 DEF StartsOf, Total
<1>8. ImplicitLens = lens /\ MaskForLen(len) = {layouts[i].bit : i \in Marked}
  <2>1. ImplicitLengthsIdentify
    BY LengthsIdentify DEF MacroInv
  <2>. QED
    BY <1>1, <1>4, <1>5, <2>1 DEF ImplicitLengthsIdentify
<1>9. ASSUME NEW i \in 1 .. FieldCount, layouts[i].shape = "implicit"
      PROVE  layouts[i].bit \in MaskForLen(len) <=> c[i] = 1
  <2>1. layouts[i].bit \in MaskForLen(len) <=> \E j \in Marked : layouts[i].bit = layouts[j].bit
    BY <1>8
  <2>2. \A j \in Marked : layouts[i].bit = layouts[j].bit => i = j
    BY <1>1, <1>9 DEF FieldIds
  <2>3. c[i] = 1 => i \in Marked
    BY <1>9
  <2>4. \A j \in Marked : c[j] = 1
    OBVIOUS
  <2>. HIDE DEF Marked
  <2>. QED
    BY <2>1, <2>2, <2>3, <2>4
<1>10. \A i \in 1 .. FieldCount : layouts[i].shape \in {"plain", "implicit"}
  BY <1>2 DEF OptionsOnly
<1>. QED
  BY <1>3, <1>7, <1>8, <1>9, <1>10 DEF len

(* The tag of an option is read as it was written.                         *)
LEMMA OwnTag ==
  ASSUME ExpandInv, CodecInv, WroteInv, wrote # NoEncoding,
         NEW i \in 1 .. FieldCount, layouts[i].shape = "tagged"
  PROVE  mem[wrote.lo + wrote.at[i]] = wrote.val[i].count
<1>. DEFINE l == layouts[i]
            v == wrote.val[i]
            a == wrote.lo + wrote.at[i]
<1>1. /\ v \in FieldValue /\ IsFieldValue(l, v) /\ Holds(mem, a, FieldBytes(l, v)) /\ a \in Nat
  <2>1. wrote.lo \in Nat /\ wrote.at[i] \in Nat
    BY OwnField
  <2>. QED
    BY <2>1, OwnField
<1>2. v.count \in {0, 1} /\ v.data \in Seq(Byte)
  BY <1>1 DEF IsFieldValue, FieldValue
<1>3. FieldBytes(l, v) = IF v.count = 1 THEN << 1 >> \o v.data ELSE << 0 >>
  BY DEF FieldBytes
<1>. HIDE DEF l, v
<1>4. Len(FieldBytes(l, v)) \in Nat /\ Len(FieldBytes(l, v)) >= 1 /\ FieldBytes(l, v)[1] = v.count
  <2>1. CASE v.count = 1
    <3>1. Len(<< 1 >> \o v.data) = 1 + Len(v.data) /\ (<< 1 >> \o v.data)[1] = 1 /\ Len(v.data) \in Nat
      BY <1>2
    <3>. QED
      BY <1>3, <2>1, <3>1
  <2>2. CASE v.count = 0
    BY <1>3, <2>2
  <2>. QED
    BY <1>2, <2>1, <2>2
<1>5. mem[a + 1 - 1] = v.count
  <2>1. 1 \in 1 .. Len(FieldBytes(l, v))
    BY <1>4
  <2>. QED
    BY <1>1, <1>4, <2>1 DEF Holds
<1>. HIDE DEF a
<1>6. mem[a] = v.count
  <2>1. a + 1 - 1 = a
    BY <1>1
  <2>. QED
    BY <1>5, <2>1
<1>. QED
  BY <1>6 DEF v, a

LEMMA OwnCount ==
  ASSUME MacroInv, ExpandInv, CodecInv, ViewInv, WroteInv, wrote # NoEncoding,
         NEW i \in 1 .. FieldCount, NEW mask,
         decl.option = "implicit" => mask = MaskForLen(wrote.hi - wrote.lo)
  PROVE  StepCount(mem, mask, wrote.lo + wrote.at[i], layouts[i]) = wrote.val[i].count
<1>. DEFINE l == layouts[i]
            v == wrote.val[i]
            a == wrote.lo + wrote.at[i]
<1>1. /\ l \in FieldLayout /\ v \in FieldValue /\ IsFieldValue(l, v)
      /\ Holds(mem, a, FieldBytes(l, v)) /\ (l.shape = "vec" => v.count <= Capacity(l.width))
      /\ a \in Nat /\ FieldIds
  <2>1. wrote.lo \in Nat /\ wrote.at[i] \in Nat
    BY OwnField
  <2>. QED
    BY <2>1, OwnField
<1>2. l.shape \in {"plain", "tagged", "implicit", "vec"} /\ v.count \in Nat /\ v.data \in Seq(Byte)
  BY <1>1 DEF FieldLayout, FieldValue
<1>3. CASE l.shape = "plain"
  BY <1>1, <1>3 DEF StepCount, IsFieldValue
<1>4. CASE l.shape = "implicit"
  <2>1. decl.option = "implicit"
    BY <1>4 DEF ViewInv, OptionModes
  <2>2. l.bit \in mask <=> v.count = 1
    BY <1>4, <2>1, OwnMask
  <2>3. v.count \in {0, 1}
    BY <1>1, <1>4 DEF IsFieldValue
  <2>. QED
    BY <1>4, <2>2, <2>3 DEF StepCount
<1>5. CASE l.shape = "tagged"
  <2>1. v.count \in {0, 1}
    BY <1>1, <1>5 DEF IsFieldValue
  <2>2. mem[a] = v.count
    BY <1>5, OwnTag
  <2>. HIDE DEF l, v, a
  <2>. QED
    BY <1>5, <2>1, <2>2 DEF StepCount, l, v, a
<1>6. CASE l.shape = "vec"
  <2>1. l.width \in 1 .. MaxLenWidth
    BY <1>1, <1>6 DEF FieldIds
  <2>2. FieldBytes(l, v) = LenHeader(v.count, l.width) \o v.data
    BY <1>6 DEF FieldBytes
  <2>3. l.width \in 0 .. MaxLenWidth
    BY <2>1 DEF MaxLenWidth
  <2>. HIDE DEF l, v, a
  <2>4. LenHeader(v.count, l.width) \in Seq(Byte)
    BY <1>2, <2>3, LenHeaderType
  <2>. DEFINE header == LenHeader(v.count, l.width)
  <2>. HIDE DEF header
  <2>5. \A k \in 1 .. Len(header) : k \in 1 .. Len(FieldBytes(l, v)) /\ FieldBytes(l, v)[k] = header[k]
    <3>1. FieldBytes(l, v) = header \o v.data /\ header \in Seq(Byte) /\ v.data \in Seq(Byte)
      BY <1>2, <2>2, <2>4 DEF header
    <3>. QED
      BY <3>1
  <2>6. Holds(mem, a, header)
    BY <1>1, <2>5 DEF Holds
  <2>7. ReadLenHeader(mem, a, l.width) = v.count
    BY <1>1, <1>2, <1>6, <2>1, <2>6, OwnHeader DEF header
  <2>. QED
    BY <1>6, <2>7 DEF StepCount, l, v, a
<1>. QED
  BY <1>2, <1>3, <1>4, <1>5, <1>6

-----------------------------------------------------------------------------
(* Decoding the last encoding.                                             *)

\* The fields of the last encoding follow each other up to its end.
LEMMA OwnOrder ==
  ASSUME ExpandInv, CodecInv, WroteInv, wrote # NoEncoding, NEW i \in 1 .. FieldCount
  PROVE  wrote.at[i + 1] <= wrote.hi - wrote.lo
<1>. DEFINE u == wrote.at
            n == FieldCount
<1>1. /\ n \in Nat /\ \A j \in 1 .. n + 1 : u[j] \in Nat
      /\ \A j \in 1 .. n : EncodedFieldLen(layouts[j], wrote.val[j].count) \in Nat
      /\ \A j \in 1 .. n : u[j + 1] = u[j] + EncodedFieldLen(layouts[j], wrote.val[j].count)
      /\ wrote.hi = wrote.lo + u[n + 1] /\ wrote.lo \in Nat
  BY OwnField
<1>. HIDE DEF u
<1>2. \A j \in 1 .. n : u[j] <= u[j + 1]
  BY <1>1
<1>. HIDE DEF n
<1>3. \A j, k \in 1 .. n + 1 : j <= k => u[j] <= u[k]
  BY <1>1, <1>2, OffsetsGrow
<1>4. i \in 1 .. n /\ i + 1 \in 1 .. n + 1 /\ n + 1 \in 1 .. n + 1 /\ i + 1 <= n + 1
  BY <1>1 DEF n
<1>5. u[i + 1] <= u[n + 1] /\ u[i + 1] \in Nat /\ u[n + 1] \in Nat
  BY <1>1, <1>3, <1>4
<1>. QED
  BY <1>1, <1>5 DEF u

\* Offsets and addresses of a buffer whose buffer_offset is a multiple.
LEMMA ResidueOfOffset ==
  ASSUME NEW a \in PrimitiveSizes, NEW r \in Nat, NEW x \in Nat, (r + x) % a = 0, r % a = 0
  PROVE  x % a = 0
<1>1. CASE a = 1
  BY <1>1
<1>2. CASE a = 2
  BY <1>2
<1>3. CASE a = 4
  BY <1>3
<1>4. CASE a = 8
  BY <1>4
<1>5. CASE a = 16
  BY <1>5
<1>. QED
  BY <1>1, <1>2, <1>3, <1>4, <1>5 DEF PrimitiveSizes

(* A payload the decoder finds misaligned in an encoding at a legal address*)
(* is one of a struct whose two alignment checks differ.                   *)
LEMMA OwnMisaligned ==
  ASSUME MacroInv, ExpandInv, CodecInv, WroteInv, wrote # NoEncoding, LegalAddress(wrote.lo),
         NEW i \in 1 .. FieldCount, wrote.val[i].count > 0,
         layouts[i].shape = "vec" \/ IsRef(layouts[i].kind),
         (wrote.at[i] + PayloadShift(layouts[i])) % Align(layouts[i].kind) # 0
  PROVE  ChecksDisagree
<1>. DEFINE l == layouts[i]
            a == Align(l.kind)
            o == wrote.at[i] + PayloadShift(l)
<1>1. wrote.lo \in Nat /\ wrote.at[i] \in Nat /\ l \in FieldLayout
  BY OwnField
<1>2. a \in PrimitiveSizes /\ PayloadShift(l) \in Nat
  BY <1>1, KindTypes, ShiftType DEF FieldLayout
<1>3. o \in Nat /\ o % a # 0
  BY <1>1, <1>2
<1>4. a > 1
  <2>. HIDE DEF a, o
  <2>1. a # 1
    BY <1>3
  <2>. QED
    BY <1>2, <2>1 DEF PrimitiveSizes
<1>5. Borrows(l)
  BY <1>4 DEF Borrows
<1>6. /\ (wrote.lo + wrote.at[i] + PayloadShift(l)) % a = 0
      /\ decl.buffer # Unaligned => a <= BaseAlign
      /\ decl.buffer = Unaligned => a = 1
  BY <1>5, OwnAligned
<1>7. decl.buffer # Unaligned /\ a <= BaseAlign /\ wrote.lo % BaseAlign = decl.buffer
  BY <1>4, <1>6 DEF LegalAddress
<1>8. decl.buffer \in Nat
  BY <1>7, OwnField DEF MacroInv, TypeInv, ArgsChecked, ArgsSupported
<1>9. (wrote.lo + o) % a = 0
  <2>1. wrote.lo + o = wrote.lo + wrote.at[i] + PayloadShift(l)
    BY <1>1, <1>2
  <2>. HIDE DEF o
  <2>. QED
    BY <1>6, <2>1
<1>. HIDE DEF o, a
<1>10. (decl.buffer + o) % a = 0
  <2>1. (wrote.lo + o) % a = (decl.buffer + o) % a
    BY <1>1, <1>2, <1>3, <1>7, <1>8, AddressResidue, BaseAlignAssumption
  <2>. QED
    BY <1>9, <2>1
<1>11. decl.buffer % a # 0
  BY <1>2, <1>3, <1>8, <1>10, ResidueOfOffset
<1>. QED
  BY <1>5, <1>7, <1>11 DEF ChecksDisagree, a

(* The decoder accepts a field of the last encoding, or complains about its*)
(* alignment.                                                              *)
LEMMA OwnFieldAccepted ==
  ASSUME MacroInv, ExpandInv, CodecInv, ViewInv, WroteInv, wrote # NoEncoding, LegalAddress(wrote.lo),
         slice.lo = wrote.lo, wrote.hi <= slice.hi, decl.option = "implicit" => slice.hi = wrote.hi,
         NEW i \in 1 .. FieldCount
  PROVE  LET outcome == Validate(layouts[i], wrote.at[i])
         IN \/ outcome.res = "ok"
            \/ outcome.res = "InvalidFieldAlignment" /\ ChecksDisagree
<1>. DEFINE l == layouts[i]
            n == wrote.val[i].count
            o == wrote.at[i]
            a == Align(l.kind)
            size == Size(l.kind)
            outcome == Validate(l, o)
<1>1. /\ l \in FieldLayout /\ wrote.val[i] \in FieldValue /\ IsFieldValue(l, wrote.val[i])
      /\ o \in Nat /\ wrote.at[i + 1] = o + EncodedFieldLen(l, n)
      /\ l.shape = "vec" => n <= Capacity(l.width)
  BY OwnField
<1>2. /\ l.shape \in {"plain", "tagged", "implicit", "vec"} /\ l.width \in 0 .. MaxLenWidth
      /\ l.width \in Nat /\ size \in Nat /\ n \in Nat
  BY <1>1, KindTypes DEF FieldLayout, FieldValue, MaxLenWidth
<1>3. o + EncodedFieldLen(l, n) <= SliceLen /\ SliceLen \in Int /\ EncodedFieldLen(l, n) \in Nat
  <2>1. wrote.at[i + 1] <= wrote.hi - wrote.lo /\ wrote.hi \in Nat /\ wrote.lo \in Nat
    BY OwnOrder, OwnField
  <2>2. slice.hi \in Int
    BY DEF CodecInv, CodecTypeOK, Slice
  <2>3. wrote.at[i + 1] \in Nat
    <3>1. i + 1 \in 1 .. FieldCount + 1
      BY OwnField
    <3>. QED
      BY <3>1, OwnField
  <2>4. EncodedFieldLen(l, n) \in Nat
    BY OwnField
  <2>5. wrote.at[i + 1] <= SliceLen /\ SliceLen \in Int
    BY <2>1, <2>2, <2>3 DEF SliceLen
  <2>. QED
    BY <1>1, <2>4, <2>5
<1>4. n > 0 /\ (l.shape = "vec" \/ IsRef(l.kind)) /\ (o + PayloadShift(l)) % a # 0 => ChecksDisagree
  BY OwnMisaligned
<1>5. ASSUME NEW x \in Nat, x = o + PayloadShift(l), n > 0, x + size <= SliceLen
      PROVE  LET p == ValidatePayload(l, x)
             IN p.res = "ok" \/ (p.res = "InvalidFieldAlignment" /\ ChecksDisagree)
  <2>1. CASE IsRef(l.kind) /\ x % a # 0
    BY <1>4, <1>5, <2>1 DEF ValidatePayload, Bad
  <2>2. CASE ~(IsRef(l.kind) /\ x % a # 0)
    <3>1. ~(x + size > SliceLen)
      <4>. HIDE DEF size
      <4>. QED
        BY <1>2, <1>3, <1>5
    <3>2. ValidatePayload(l, x) = Ok(x + size)
      BY <2>2, <3>1 DEF ValidatePayload
    <3>. QED
      BY <3>2 DEF Ok
  <2>. QED
    BY <2>1, <2>2
<1>6. CASE l.shape = "plain"
  <2>1. n = 1 /\ PayloadShift(l) = 0 /\ EncodedFieldLen(l, n) = size /\ outcome = ValidatePayload(l, o)
    BY <1>1, <1>6 DEF IsFieldValue, PayloadShift, EncodedFieldLen, Validate
  <2>2. o = o + PayloadShift(l) /\ n > 0 /\ o + size <= SliceLen
    BY <1>1, <1>3, <2>1
  <2>. QED
    BY <1>1, <1>5, <2>1, <2>2
<1>7. CASE l.shape = "implicit"
  <2>1. decl.option = "implicit"
    BY <1>7 DEF ViewInv, OptionModes
  <2>2. SliceLen = wrote.hi - wrote.lo
    BY <2>1 DEF SliceLen
  <2>3. SliceLen \in ImplicitLens /\ (l.bit \in MaskForLen(SliceLen) <=> n = 1)
    BY <1>7, <2>1, <2>2, OwnMask
  <2>4. outcome = IF n = 1 THEN ValidatePayload(l, o) ELSE Ok(o)
    BY <1>7, <2>3 DEF Validate, Present
  <2>5. CASE n = 1
    <3>1. PayloadShift(l) = 0 /\ EncodedFieldLen(l, n) = size
      BY <1>7, <2>5 DEF PayloadShift, EncodedFieldLen
    <3>2. o = o + PayloadShift(l) /\ n > 0 /\ o + size <= SliceLen
      BY <1>1, <1>3, <2>5, <3>1
    <3>. QED
      BY <1>1, <1>5, <2>4, <2>5, <3>2
  <2>6. CASE n # 1
    BY <2>4, <2>6 DEF Ok
  <2>. QED
    BY <2>5, <2>6
<1>8. CASE l.shape = "tagged"
  <2>1. n \in {0, 1}
    BY <1>1, <1>8 DEF IsFieldValue
  <2>2. ByteAt(o) = n
    BY <1>8, OwnTag DEF ByteAt
  <2>3. EncodedFieldLen(l, n) = IF n = 1 THEN 1 + size ELSE 1
    BY <1>8 DEF EncodedFieldLen
  <2>4. ~(o >= SliceLen)
    <3>. HIDE DEF size, n, o
    <3>. QED
      BY <1>1, <1>2, <1>3, <2>3
  <2>5. outcome = IF n = 0 THEN Ok(o + 1) ELSE ValidatePayload(l, o + 1)
    BY <1>8, <2>1, <2>2, <2>4 DEF Validate, ValidateTagged
  <2>6. CASE n = 0
    BY <2>5, <2>6 DEF Ok
  <2>7. CASE n = 1
    <3>1. PayloadShift(l) = 1
      BY <1>8 DEF PayloadShift
    <3>2. o + 1 \in Nat /\ o + 1 = o + PayloadShift(l) /\ n > 0 /\ (o + 1) + size <= SliceLen
      <4>. HIDE DEF size, n, o
      <4>. QED
        BY <1>1, <1>2, <1>3, <2>3, <2>7, <3>1
    <3>. QED
      BY <1>5, <2>5, <2>7, <3>2
  <2>. QED
    BY <2>1, <2>6, <2>7
<1>9. CASE l.shape = "vec"
  <2>1. HeaderAt(o, l.width) = n
    <3>. DEFINE mask == MaskForLen(wrote.hi - wrote.lo)
    <3>. HIDE DEF mask
    <3>1. StepCount(mem, mask, wrote.lo + o, l) = n
      BY OwnCount DEF mask
    <3>. QED
      BY <1>9, <3>1 DEF StepCount, HeaderAt
  <2>2. EncodedFieldLen(l, n) = l.width + n * size /\ PayloadShift(l) = l.width
    BY <1>9 DEF EncodedFieldLen, PayloadShift
  <2>3. outcome = ValidateVec(l, o)
    BY <1>9 DEF Validate
  <2>4. Capacity(l.width) \in Nat
    BY <1>2, CapacityType
  <2>5. PICK data \in Nat : data = n * size
    BY <1>2
  <2>6. ~(o + l.width > SliceLen) /\ ~(n > Capacity(l.width)) /\ ~(o + l.width + n * size > SliceLen)
    <3>. HIDE DEF size, n, o
    <3>. QED
      BY <1>1, <1>2, <1>3, <1>9, <2>2, <2>4, <2>5
  <2>7. CASE n # 0 /\ (o + l.width) % a # 0
    <3>1. outcome = Bad("InvalidFieldAlignment")
      BY <2>1, <2>3, <2>6, <2>7 DEF ValidateVec
    <3>2. n > 0
      BY <1>2, <2>7
    <3>. QED
      BY <1>4, <1>9, <2>2, <2>7, <3>1, <3>2 DEF Bad
  <2>8. CASE ~(n # 0 /\ (o + l.width) % a # 0)
    <3>1. outcome = Ok(o + l.width + n * size)
      BY <2>1, <2>3, <2>6, <2>8 DEF ValidateVec
    <3>. QED
      BY <3>1 DEF Ok
  <2>. QED
    BY <2>7, <2>8
<1>. QED
  BY <1>2, <1>6, <1>7, <1>8, <1>9

\* A slice that holds the last encoding passes the checks of the entry.
LEMMA OwnEntry ==
  ASSUME MacroInv, ExpandInv, CodecInv, WroteInv, wrote # NoEncoding, LegalAddress(wrote.lo),
         NEW s \in Slice, s.lo = wrote.lo, decl.option = "implicit" => s.hi = wrote.hi
  PROVE  EntryError(s) = "ok"
<1>1. ~(decl.buffer # Unaligned /\ s.lo % BaseAlign # decl.buffer)
  BY DEF LegalAddress
<1>2. decl.option = "implicit" => s.hi - s.lo \in lens /\ s.hi - s.lo \in ImplicitLens
  BY OwnMask
<1>. QED
  BY <1>1, <1>2 DEF EntryError

LEMMA FollowStartDecode ==
  ASSUME MacroInv, ExpandInv, CodecInv, WroteInv, UNCHANGED expandVars, phase = "emitted", StartDecode
  PROVE  FollowInv'
<1>1. /\ decl' = decl /\ lens' = lens /\ wrote' = wrote
      /\ op' \in {"decode", "decode_prefix"} /\ (decl.option = "implicit" => op' = "decode")
  BY DEF StartDecode, StartLoop, expandVars
<1>2. PICK s \in Slices :
        /\ slice' = s
        /\ \/ EntryError(s) = "ok" /\ pc' = "validate" /\ fi' = 1 /\ off' = 0
           \/ EntryError(s) # "ok" /\ pc' = "idle" /\ ret' = [NoReturn EXCEPT !.res = EntryError(s)]
  BY DEF StartDecode, StartLoop
<1>3. CASE pc' = "validate"
  <2>1. fi' = 1 /\ off' = 0
    BY <1>2, <1>3
  <2>2. Found(1)' = 0
    BY <2>1 DEF Found
  <2>3. \A i \in 1 .. fi' : i = 1
    BY <2>1
  <2>4. wrote # NoEncoding => wrote.at[1] = 0
    BY OwnField
  <2>5. (pc = "validate" /\ OwnBytes => \A i \in 1 .. fi : Found(i) = wrote.at[i])'
    BY <1>1, <2>2, <2>3, <2>4 DEF OwnBytes
  <2>. QED
    BY <1>3, <2>5 DEF FollowInv, RoundTrip, DecodedOwnEncoding, Returned, TruncationRejected
<1>4. CASE pc' = "idle"
  <2>1. EntryError(s) # "ok" /\ ret' = [NoReturn EXCEPT !.res = EntryError(s)]
    BY <1>2, <1>4
  <2>2. ret'.res # "ok"
    BY <2>1 DEF NoReturn
  <2>3. ~DecodedOwnEncoding'
    <3>. SUFFICES ASSUME DecodedOwnEncoding' PROVE FALSE
      OBVIOUS
    <3>1. /\ wrote # NoEncoding /\ LegalAddress(wrote.lo) /\ s.lo = wrote.lo
          /\ \/ op' = "decode" /\ s.hi = wrote.hi
             \/ op' = "decode_prefix"
      BY <1>1, <1>2 DEF DecodedOwnEncoding, Returned, LegalAddress
    <3>2. decl.option = "implicit" => s.hi = wrote.hi
      BY <1>1, <3>1
    <3>3. s \in Slice
      BY <1>2, CallsAssumption
    <3>. QED
      BY <2>1, <3>1, <3>2, <3>3, OwnEntry
  <2>. QED
    BY <1>4, <2>2, <2>3 DEF FollowInv, RoundTrip, TruncationRejected
<1>. QED
  BY <1>2, <1>3, <1>4

LEMMA FollowValidateField ==
  ASSUME MacroInv, ExpandInv, CodecInv, ViewInv, WroteInv, FollowInv,
         UNCHANGED expandVars, phase = "emitted", ValidateField
  PROVE  FollowInv'
<1>. DEFINE l == layouts[fi]
            outcome == Validate(l, off)
            mask == MaskForLen(SliceLen)
<1>1. /\ pc = "validate" /\ decl' = decl /\ layouts' = layouts /\ FieldCount' = FieldCount
      /\ UNCHANGED << slice, wrote, op >>
  BY DEF ValidateField, expandVars, FieldCount
<1>2. /\ fi \in 1 .. FieldCount /\ off \in Nat /\ at \in Seq(Nat) /\ mem \in Memory /\ slice \in Slice
      /\ l \in FieldLayout
  <2>1. fi \in Nat \ {0} /\ off \in Nat /\ at \in Seq(Nat) /\ FieldCount \in Nat /\ mem \in Memory
    BY EncodeTypesOf
  <2>2. fi <= FieldCount
    BY DEF ValidateField
  <2>3. slice \in Slice
    BY DEF CodecInv, CodecTypeOK
  <2>. QED
    BY <2>1, <2>2, <2>3, Emitted
<1>3. LegalAddress(slice.lo) /\ off <= SliceLen /\ Len(at) = fi - 1
  BY <1>1 DEF ViewInv, ValidateLoop
<1>4. OwnBytes => \A i \in 1 .. fi : Found(i) = wrote.at[i]
  BY <1>1 DEF FollowInv
<1>5. OwnBytes => off = wrote.at[fi]
  BY <1>2, <1>4 DEF Found
<1>6. CASE outcome.res = "ok" /\ fi' = fi + 1 /\ off' = outcome.end /\ at' = Append(at, off) /\ pc' = pc
  <2>1. ASSUME OwnBytes PROVE off' = wrote.at[fi + 1]
    <3>1. wrote # NoEncoding /\ slice.lo = wrote.lo /\ off = wrote.at[fi]
          /\ (decl.option = "implicit" => slice.hi = wrote.hi)
      BY <1>5, <2>1 DEF OwnBytes
    <3>2. Validate(l, off).end = off + StepLen(mem, mask, slice.lo + off, l)
      BY <1>2, <1>3, <1>6, ValidateOk
    <3>3. StepLen(mem, mask, slice.lo + off, l) = EncodedFieldLen(l, StepCount(mem, mask, slice.lo + off, l))
      BY <1>2, StepLenOfCount
    <3>4. decl.option = "implicit" => mask = MaskForLen(wrote.hi - wrote.lo)
      BY <3>1 DEF SliceLen
    <3>. HIDE DEF mask
    <3>5. StepCount(mem, mask, wrote.lo + wrote.at[fi], l) = wrote.val[fi].count
      BY <1>2, <3>1, <3>4, OwnCount
    <3>6. wrote.at[fi + 1] = wrote.at[fi] + EncodedFieldLen(l, wrote.val[fi].count)
      BY <1>2, <3>1, OwnField
    <3>. QED
      BY <1>6, <3>1, <3>2, <3>3, <3>5, <3>6
  <2>2. /\ \A i \in 1 .. fi + 1 : i = fi + 1 => Found(i)' = off'
        /\ \A i \in 1 .. fi : Found(i)' = Found(i)
    BY <1>2, <1>3, <1>6, FoundStep
  <2>3. ASSUME OwnBytes' PROVE \A i \in 1 .. fi' : Found(i)' = wrote'.at[i]
    <3>1. OwnBytes
      BY <1>1, <2>3 DEF OwnBytes
    <3>2. \A i \in 1 .. fi + 1 : i \in 1 .. fi \/ i = fi + 1
      BY <1>2
    <3>3. \A i \in 1 .. fi + 1 : Found(i)' = wrote.at[i]
      BY <1>4, <2>1, <2>2, <3>1, <3>2
    <3>. QED
      BY <1>1, <1>6, <3>3
  <2>. QED
    BY <1>1, <1>6, <2>3 DEF FollowInv, RoundTrip, DecodedOwnEncoding, Returned, TruncationRejected
<1>7. CASE /\ outcome.res # "ok"
           /\ pc' = "panic" \/ (ret' = [NoReturn EXCEPT !.res = outcome.res] /\ pc' = "idle")
  <2>1. pc' # "validate"
    BY <1>7
  <2>2. ASSUME pc' = "idle" PROVE ret'.res = outcome.res
    <3>. HIDE DEF outcome
    <3>. QED
      BY <1>7, <2>2 DEF NoReturn
  <2>3. ASSUME DecodedOwnEncoding'
        PROVE  ret'.res = "InvalidFieldAlignment" /\ ChecksDisagree
    <3>1. /\ pc' = "idle" /\ wrote # NoEncoding /\ LegalAddress(wrote.lo) /\ slice.lo = wrote.lo
          /\ \/ op = "decode" /\ slice.hi = wrote.hi
             \/ op = "decode_prefix" /\ slice.hi >= wrote.hi
      BY <1>1, <2>3 DEF DecodedOwnEncoding, Returned, LegalAddress
    <3>2. decl.option = "implicit" => slice.hi = wrote.hi
      BY <1>1, <3>1 DEF CodecInv, CallInv
    <3>3. wrote.hi <= slice.hi
      <4>1. wrote.hi \in Nat /\ slice.hi \in Int
        BY <1>2, <3>1, OwnField DEF Slice
      <4>. QED
        BY <3>1, <4>1
    <3>4. off = wrote.at[fi]
      BY <1>5, <3>1, <3>2 DEF OwnBytes
    <3>5. outcome.res = "ok" \/ (outcome.res = "InvalidFieldAlignment" /\ ChecksDisagree)
      BY <1>2, <3>1, <3>2, <3>3, <3>4, OwnFieldAccepted
    <3>. HIDE DEF outcome
    <3>. QED
      BY <1>7, <2>2, <3>1, <3>5
  <2>4. ChecksDisagree' <=> ChecksDisagree
    BY <1>1 DEF ChecksDisagree
  <2>. HIDE DEF outcome
  <2>5. RoundTrip'
    BY <2>3, <2>4 DEF RoundTrip
  <2>6. TruncationRejected'
    BY <1>7, <2>2 DEF TruncationRejected
  <2>. QED
    BY <2>1, <2>5, <2>6 DEF FollowInv
<1>. QED
  BY <1>6, <1>7 DEF ValidateField, Advance, Fail, Return, Panic

LEMMA FollowDecodeDone ==
  ASSUME MacroInv, ExpandInv, CodecInv, ViewInv, WroteInv, FollowInv,
         UNCHANGED expandVars, phase = "emitted", DecodeDone
  PROVE  FollowInv'
<1>1. /\ pc = "validate" /\ pc' \in {"idle", "panic"} /\ decl' = decl /\ FieldCount' = FieldCount
      /\ UNCHANGED << slice, wrote, op, fi, off, at >> /\ op \in {"decode", "decode_prefix"}
      /\ decl.option = "implicit" => op = "decode"
  BY DEF DecodeDone, Return, Fail, Panic, callVars, expandVars, FieldCount, CodecInv, CallInv
<1>2. /\ fi = FieldCount + 1 /\ off \in Nat /\ at \in Seq(Nat) /\ FieldCount \in Nat
      /\ slice.lo \in Nat /\ slice.hi \in Int /\ off <= SliceLen /\ Len(at) = FieldCount
      /\ LegalAddress(slice.lo)
  <2>1. fi \in Nat \ {0} /\ off \in Nat /\ at \in Seq(Nat) /\ FieldCount \in Nat /\ slice.lo \in Nat
    BY EncodeTypesOf
  <2>2. fi <= FieldCount + 1 /\ off <= SliceLen /\ Len(at) = fi - 1 /\ LegalAddress(slice.lo)
    BY <1>1 DEF ViewInv, ValidateLoop
  <2>3. fi > FieldCount
    BY DEF DecodeDone
  <2>4. slice.hi \in Int
    BY DEF CodecInv, CodecTypeOK, Slice
  <2>. QED
    BY <2>1, <2>2, <2>3, <2>4
<1>3. ASSUME OwnBytes
      PROVE  /\ wrote.hi = slice.lo + off /\ Append(at, off) = wrote.at
             /\ wrote.hi \in Nat /\ slice.lo = wrote.lo
  <2>1. wrote # NoEncoding /\ slice.lo = wrote.lo /\ \A i \in 1 .. FieldCount + 1 : Found(i) = wrote.at[i]
    BY <1>1, <1>2, <1>3 DEF OwnBytes, FollowInv
  <2>2. off = wrote.at[FieldCount + 1]
    BY <1>2, <2>1 DEF Found
  <2>3. wrote.hi = wrote.lo + wrote.at[FieldCount + 1] /\ wrote.hi \in Nat
    BY <2>1, OwnField
  <2>4. wrote.at \in Seq(Nat) /\ Len(wrote.at) = FieldCount + 1
    BY <2>1 DEF CodecInv, CodecTypeOK, WroteInv, Encoding
  <2>. DEFINE found == Append(at, off)
  <2>5. /\ found \in Seq(Nat) /\ Len(found) = FieldCount + 1
        /\ found[FieldCount + 1] = off /\ \A i \in 1 .. FieldCount : found[i] = at[i]
    BY <1>2
  <2>6. \A i \in 1 .. FieldCount : at[i] = wrote.at[i]
    BY <1>2, <2>1 DEF Found
  <2>. HIDE DEF found
  <2>7. \A i \in 1 .. FieldCount + 1 : found[i] = wrote.at[i]
    BY <1>2, <2>2, <2>5, <2>6
  <2>8. found = wrote.at
    BY <2>4, <2>5, <2>7
  <2>. QED
    BY <2>1, <2>2, <2>3, <2>8 DEF found
<1>4. /\ \/ pc' = "panic"
         \/ op = "decode" /\ off # SliceLen /\ ret'.res = "InvalidDataLength"
         \/ /\ ret'.res = "ok"
            /\ view' = [lo |-> slice.lo, hi |-> slice.lo + off, at |-> Append(at, off)]
  BY DEF DecodeDone, Return, Fail, Panic, NoReturn
<1>5. ASSUME DecodedOwnEncoding'
      PROVE  ret'.res = "ok" /\ view'.hi = wrote'.hi /\ view'.at = wrote'.at
  <2>1. /\ pc' = "idle" /\ wrote # NoEncoding /\ slice.lo = wrote.lo
        /\ \/ op = "decode" /\ slice.hi = wrote.hi
           \/ op = "decode_prefix"
    BY <1>1, <1>5 DEF DecodedOwnEncoding, Returned
  <2>2. decl.option = "implicit" => slice.hi = wrote.hi
    BY <1>1, <2>1
  <2>3. wrote.hi = slice.lo + off /\ Append(at, off) = wrote.at
    BY <1>3, <2>1, <2>2 DEF OwnBytes
  <2>4. ~(op = "decode" /\ off # SliceLen)
    BY <1>2, <2>1, <2>3 DEF SliceLen
  <2>5. view' = [lo |-> slice.lo, hi |-> slice.lo + off, at |-> Append(at, off)] /\ ret'.res = "ok"
    BY <1>4, <2>1, <2>4
  <2>. QED
    BY <1>1, <2>3, <2>5
<1>6. ASSUME ret'.res = "ok", pc' = "idle", decl.option = "tagged", wrote # NoEncoding,
             slice.lo = wrote.lo, slice.hi < wrote.hi
      PROVE  FALSE
  <2>1. wrote.hi = slice.lo + off /\ wrote.hi \in Nat
    BY <1>3, <1>6 DEF OwnBytes
  <2>. QED
    BY <1>2, <1>6, <2>1 DEF SliceLen
<1>7. RoundTrip'
  BY <1>5 DEF RoundTrip
<1>8. TruncationRejected'
  BY <1>1, <1>6 DEF TruncationRejected
<1>. QED
  BY <1>1, <1>7, <1>8 DEF FollowInv

\* A call that is not a decode is not about the bytes decoded before.
LEMMA FollowOther ==
  ASSUME EncodeInv,
         \/ StartEncode \/ AddLen \/ CheckRoom \/ WriteField \/ EncodeDone
         \/ StartGet \/ GetStep \/ GetRead
  PROVE  FollowInv'
<1>1. pc' # "validate" /\ op' \notin {"decode", "decode_prefix"}
  <2>. USE DEF StartLoop, Return, Fail, Panic, Advance, callVars, EncodeInv
  <2>1. CASE StartEncode
    BY <2>1 DEF StartEncode
  <2>2. CASE AddLen
    BY <2>2 DEF AddLen
  <2>3. CASE CheckRoom
    BY <2>3 DEF CheckRoom
  <2>4. CASE WriteField
    BY <2>4 DEF WriteField
  <2>5. CASE EncodeDone
    BY <2>5 DEF EncodeDone
  <2>6. CASE StartGet
    BY <2>6 DEF StartGet
  <2>7. CASE GetStep
    BY <2>7 DEF GetStep
  <2>8. CASE GetRead
    BY <2>8 DEF GetRead
  <2>. QED
    BY <2>1, <2>2, <2>3, <2>4, <2>5, <2>6, <2>7, <2>8
<1>. QED
  BY <1>1 DEF FollowInv, RoundTrip, TruncationRejected, DecodedOwnEncoding, Returned

LEMMA FollowInit == Init => FollowInv
  BY DEF Init, CodecInit, FollowInv, RoundTrip, TruncationRejected, DecodedOwnEncoding

LEMMA FollowStep ==
  ASSUME MacroInv, ExpandInv, CodecInv, EncodeInv, ViewInv, WroteInv, FollowInv, [Next]_vars
  PROVE  FollowInv'
<1>1. CASE ExpandNext /\ UNCHANGED codecVars
  <2>1. phase # "emitted"
    BY <1>1 DEF ExpandNext, ParseArgs, ParseField, CheckStructOptions, AddPayload, SumsDone,
           NeedsNoAlignment, AlignmentBeyondBase, AddPossibleLen, CheckResidues, ResiduesApply,
           AlignmentDone, EmitField, EmitDone
  <2>2. wrote' = NoEncoding /\ pc' = "idle"
    BY <1>1, <2>1 DEF CodecInv, CallInv, WroteInv, codecVars
  <2>. QED
    BY <2>2 DEF FollowInv, RoundTrip, TruncationRejected, DecodedOwnEncoding
<1>2. CASE phase = "emitted" /\ CodecNext /\ UNCHANGED expandVars
  BY <1>2, FollowStartDecode, FollowValidateField, FollowDecodeDone, FollowOther DEF CodecNext
<1>3. CASE UNCHANGED vars
  <2>1. UNCHANGED << pc, op, slice, fi, off, at, view, ret, wrote, decl, layouts >>
    BY <1>3 DEF vars, codecVars, callVars, expandVars
  <2>. QED
    BY <2>1 DEF FollowInv, OwnBytes, Found, RoundTrip, TruncationRejected, DecodedOwnEncoding, Returned,
         LegalAddress, ChecksDisagree, FieldCount
<1>. QED
  BY <1>1, <1>2, <1>3 DEF Next, Stopped

LEMMA FollowInvariant == Spec => []FollowInv
  BY FollowInit, FollowStep, WroteInvariant, PTL DEF Spec

(* Whatever a struct can hold and whatever lies behind its encoding, the   *)
(* encoding decodes at the offsets it was written at; the exception is the *)
(* alignment check of a struct with ChecksDisagree.                        *)
THEOREM EncodingsDecode == Spec => []RoundTrip
<1>1. FollowInv => RoundTrip
  BY DEF FollowInv
<1>. QED
  BY <1>1, FollowInvariant, PTL

(* No decoder accepts a proper prefix of a self-delimiting encoding.       *)
THEOREM PrefixesAreRefused == Spec => []TruncationRejected
<1>1. FollowInv => TruncationRejected
  BY DEF FollowInv
<1>. QED
  BY <1>1, FollowInvariant, PTL

-----------------------------------------------------------------------------
(* What is decoded is an encoding.                                         *)

LEMMA SliceOfDecode ==
  ASSUME ExpandInv, CodecInv, ViewInv, UNCHANGED expandVars, DecodeDone
  PROVE  ViewSlice'
<1>1. /\ pc = "validate" /\ UNCHANGED << slice, op >> /\ slice.lo \in Nat /\ slice.hi \in Int
      /\ decl' = decl
  BY DEF DecodeDone, callVars, CodecInv, CodecTypeOK, Slice, expandVars
<1>2. \/ view' = view
      \/ /\ op = "decode" => off = SliceLen
         /\ view' = [lo |-> slice.lo, hi |-> slice.lo + off, at |-> Append(at, off)]
  BY DEF DecodeDone
<1>3. view = NoView /\ (decl.option = "implicit" => op = "decode")
  BY <1>1 DEF ViewInv, CodecInv, CallInv
<1>4. CASE view' = view
  BY <1>3, <1>4 DEF ViewSlice, NoView
<1>5. CASE /\ op = "decode" => off = SliceLen
           /\ view' = [lo |-> slice.lo, hi |-> slice.lo + off, at |-> Append(at, off)]
  <2>1. view'.lo = slice.lo /\ view'.hi = slice.lo + off
    BY <1>5
  <2>2. op = "decode" => view'.hi = slice.hi
    BY <1>1, <1>5, <2>1 DEF SliceLen
  <2>. QED
    BY <1>1, <1>3, <2>1, <2>2 DEF ViewSlice
<1>. QED
  BY <1>2, <1>4, <1>5

LEMMA SliceInit == Init => ViewSlice
  BY DEF Init, CodecInit, ViewSlice

LEMMA SliceStep ==
  ASSUME ExpandInv, CodecInv, ViewInv, ViewSlice, [Next]_vars
  PROVE  ViewSlice'
<1>1. CASE ExpandNext /\ UNCHANGED codecVars
  <2>1. phase # "emitted"
    BY <1>1 DEF ExpandNext, ParseArgs, ParseField, CheckStructOptions, AddPayload, SumsDone,
           NeedsNoAlignment, AlignmentBeyondBase, AddPossibleLen, CheckResidues, ResiduesApply,
           AlignmentDone, EmitField, EmitDone
  <2>2. view' = NoView
    BY <1>1, <2>1 DEF CodecInv, CallInv, codecVars
  <2>3. NoView' = NoView
    BY DEF NoView
  <2>. QED
    BY <2>2, <2>3 DEF ViewSlice
<1>2. CASE CodecNext /\ UNCHANGED expandVars
  <2>. USE DEF StartLoop, Return, Fail, Panic, Advance, callVars
  <2>1. CASE StartEncode \/ StartDecode
    BY <2>1 DEF StartEncode, StartDecode, ViewSlice, NoView
  <2>2. CASE AddLen \/ CheckRoom \/ WriteField \/ EncodeDone \/ ValidateField
    <3>1. view' = view /\ pc \in {"len", "write", "validate"}
      <4>1. CASE AddLen
        BY <4>1 DEF AddLen
      <4>2. CASE CheckRoom
        BY <4>2 DEF CheckRoom
      <4>3. CASE WriteField
        BY <4>3 DEF WriteField
      <4>4. CASE EncodeDone
        BY <4>4 DEF EncodeDone
      <4>5. CASE ValidateField
        BY <4>5 DEF ValidateField
      <4>. QED
        BY <2>2, <4>1, <4>2, <4>3, <4>4, <4>5
    <3>. QED
      BY <3>1 DEF ViewInv, ViewSlice, NoView
  <2>3. CASE DecodeDone
    BY <1>2, <2>3, SliceOfDecode
  <2>4. CASE StartGet
    BY <2>4 DEF StartGet, ViewSlice
  <2>5. CASE GetStep \/ GetRead
    <3>1. UNCHANGED << view, slice, decl >>
      BY <1>2, <2>5 DEF GetStep, GetRead, expandVars
    <3>. QED
      BY <3>1 DEF ViewSlice, NoView
  <2>. QED
    BY <1>2, <2>1, <2>2, <2>3, <2>4, <2>5 DEF CodecNext
<1>3. CASE UNCHANGED vars
  BY <1>3 DEF vars, codecVars, callVars, expandVars, ViewSlice, NoView
<1>. QED
  BY <1>1, <1>2, <1>3 DEF Next, Stopped

\* Two sequences one after the other are the sequence they are the parts of.
LEMMA Joined ==
  ASSUME NEW S, NEW h \in Seq(S), NEW t \in Seq(S), NEW w \in Seq(S), Len(w) = Len(h) + Len(t),
         \A j \in 1 .. Len(h) : w[j] = h[j], \A j \in 1 .. Len(t) : w[Len(h) + j] = t[j]
  PROVE  h \o t = w
<1>. DEFINE j == h \o t
<1>1. /\ j \in Seq(S) /\ Len(j) = Len(h) + Len(t) /\ Len(h) \in Nat /\ Len(t) \in Nat
      /\ \A k \in 1 .. Len(j) : j[k] = IF k <= Len(h) THEN h[k] ELSE t[k - Len(h)]
  OBVIOUS
<1>2. \A k \in 1 .. Len(j) : w[k] = j[k]
  <2>. SUFFICES ASSUME NEW k \in 1 .. Len(j) PROVE w[k] = j[k]
    OBVIOUS
  <2>. HIDE DEF j
  <2>1. CASE k <= Len(h)
    BY <1>1, <2>1
  <2>2. CASE ~(k <= Len(h))
    <3>1. k - Len(h) \in 1 .. Len(t) /\ Len(h) + (k - Len(h)) = k
      BY <1>1, <2>2
    <3>. QED
      BY <1>1, <2>2, <3>1
  <2>. QED
    BY <2>1, <2>2
<1>. HIDE DEF j
<1>3. j = w
  BY <1>1, <1>2
<1>. QED
  BY <1>3 DEF j

\* So are bytes of the memory.
LEMMA BytesJoin ==
  ASSUME NEW m \in Memory, NEW a \in Nat, NEW b \in Nat, NEW e \in Nat, b <= e, e <= MemLen,
         NEW head \in Seq(Byte), b = a + Len(head), Holds(m, a, head)
  PROVE  head \o Bytes(m, b, e) = Bytes(m, a, e)
<1>. DEFINE t == Bytes(m, b, e)
            w == Bytes(m, a, e)
<1>1. t \in Seq(Byte) /\ w \in Seq(Byte)
  BY BytesType
<1>2. PICK n \in Nat, k \in Nat : n = Len(head) /\ k = e - b /\ n + k = e - a /\ b = a + n
  <2>1. Len(head) \in Nat /\ e - b \in Nat /\ Len(head) + (e - b) = e - a
    OBVIOUS
  <2>. QED
    BY <2>1
<1>3. t = [j \in 1 .. k |-> m[b + j - 1]] /\ w = [j \in 1 .. n + k |-> m[a + j - 1]]
  BY <1>2 DEF Bytes
<1>. HIDE DEF t, w
<1>4. Len(t) = k /\ Len(w) = n + k
  BY <1>3
<1>5. \A j \in 1 .. n : w[j] = head[j]
  <2>. SUFFICES ASSUME NEW j \in 1 .. n PROVE w[j] = head[j]
    OBVIOUS
  <2>1. j \in 1 .. n + k
    OBVIOUS
  <2>2. m[a + j - 1] = head[j]
    BY <1>2 DEF Holds
  <2>. QED
    BY <1>3, <2>1, <2>2
<1>6. \A j \in 1 .. k : w[n + j] = t[j]
  <2>. SUFFICES ASSUME NEW j \in 1 .. k PROVE w[n + j] = t[j]
    OBVIOUS
  <2>1. n + j \in 1 .. n + k /\ a + (n + j) - 1 = b + j - 1
    BY <1>2
  <2>2. w[n + j] = m[a + (n + j) - 1]
    BY <1>3, <2>1
  <2>. QED
    BY <1>3, <2>1, <2>2
<1>7. head \o t = w
  BY <1>1, <1>2, <1>4, <1>5, <1>6, Joined
<1>. QED
  BY <1>7 DEF t, w

(* The bytes of a field the decoder validated are those the encoder writes *)
(* for the value a getter reads there.                                     *)
LEMMA DecodedField ==
  ASSUME MacroInv, ExpandInv, CodecInv, ViewInv, ViewSlice, view # NoView,
         NEW i \in 1 .. FieldCount, layouts[i].kind.name # "bool"
  PROVE  LET l == layouts[i]
             o == view.at[i]
             v == [count |-> Count(l, o), data |-> ReadBytes(l, o, Count(l, o))]
         IN /\ IsFieldValue(l, v)
            /\ l.shape = "vec" => v.count <= Capacity(l.width)
            /\ FieldBytes(l, v) = Bytes(mem, view.lo + o, view.lo + view.at[i + 1])
<1>. DEFINE l == layouts[i]
            o == view.at[i]
            a == view.lo + o
            mask == MaskForLen(view.hi - view.lo)
            n == Count(l, o)
            size == Size(l.kind)
            data == ReadBytes(l, o, n)
            v == [count |-> n, data |-> data]
            shift == PayloadShift(l)
<1>1. /\ phase = "emitted" /\ l \in FieldLayout /\ o \in Nat /\ view.at[i + 1] \in Nat
      /\ view.lo \in Nat /\ view.hi \in Nat /\ view.hi <= MemLen
      /\ view.at[i + 1] = o + StepLen(mem, mask, a, l) /\ view.at[i + 1] <= view.hi - view.lo
      /\ Accepted(mem, a, l, o, view.at[i + 1])
      /\ slice.lo = view.lo /\ mem \in Memory
  <2>1. ViewWalks(view) /\ i \in 1 .. FieldCount + 1 /\ i + 1 \in 1 .. FieldCount + 1
    BY ViewTypes
  <2>2. mem \in Memory
    BY DEF CodecInv, CodecTypeOK
  <2>. QED
    BY <2>1, <2>2, ViewTypes DEF ViewWalks, ViewSlice
<1>2. /\ l.shape \in {"plain", "tagged", "implicit", "vec"} /\ l.width \in 0 .. MaxLenWidth
      /\ l.width \in Nat /\ size \in Nat /\ shift \in Nat /\ a \in Nat
  BY <1>1, KindTypes, ShiftType DEF FieldLayout, MaxLenWidth
<1>3. n = StepCount(mem, mask, a, l)
  <2>1. l.shape = "implicit" => SliceLen = view.hi - view.lo
    BY <1>1 DEF ViewInv, OptionModes, ViewSlice, SliceLen
  <2>. QED
    BY <1>1, <1>2, <2>1 DEF StepCount, Count, ByteAt, HeaderAt, Present
<1>4. n \in AllCounts(l)
  <2>1. ViewContents(view) \in AllContents /\ ViewContents(view)[i] = n
    BY <1>3, ViewHasContents DEF ViewContents
  <2>. QED
    BY <2>1, AllContentsTypes DEF MacroInv
<1>5. n \in Nat /\ Capacity(l.width) \in Nat
  <2>1. Capacity(l.width) \in Nat
    BY <1>2, CapacityType
  <2>. HIDE DEF n, l
  <2>. QED
    BY <1>2, <1>4, <2>1 DEF AllCounts
<1>6. view.at[i + 1] = o + EncodedFieldLen(l, n) /\ (n # 0 => view.at[i + 1] = o + (shift + n * size))
  <2>1. /\ StepLen(mem, mask, a, l) = EncodedFieldLen(l, StepCount(mem, mask, a, l))
        /\ StepCount(mem, mask, a, l) # 0 =>
              StepLen(mem, mask, a, l) = shift + StepCount(mem, mask, a, l) * size
    BY <1>1, StepLenOfCount
  <2>. QED
    BY <1>1, <1>3, <2>1
<1>7. PICK k \in Nat : k = n * size /\ (n = 0 => k = 0) /\ (n = 1 => k = size)
  <2>. HIDE DEF n, size
  <2>. QED
    BY <1>2, <1>5
<1>8. data = Bytes(mem, a + shift, a + shift + k)
  BY <1>1, <1>7 DEF ReadBytes, Typed
<1>9. n # 0 => a + shift + k <= MemLen
  <2>. HIDE DEF l, n, size, shift
  <2>1. n # 0 => view.at[i + 1] = o + (shift + k)
    BY <1>6, <1>7
  <2>. HIDE DEF o
  <2>. QED
    BY <1>1, <1>2, <2>1, MemoryAssumption
<1>10. Len(data) = k
  <2>. HIDE DEF a, shift, data
  <2>1. (a + shift + k) - (a + shift) = k
    BY <1>2
  <2>2. data = [j \in 1 .. k |-> mem[a + shift + j - 1]]
    BY <1>8, <2>1 DEF Bytes
  <2>. QED
    BY <2>2
<1>11. IsFieldValue(l, v) /\ (l.shape = "vec" => v.count <= Capacity(l.width))
  <2>1. v.count = n /\ v.data = data
    OBVIOUS
  <2>. HIDE DEF v, n, data
  <2>2. n \in (IF l.shape = "plain" THEN {1} ELSE IF l.shape = "vec" THEN Nat ELSE {0, 1})
    BY <1>2, <1>4, <1>5 DEF AllCounts
  <2>3. l.shape = "vec" => n <= Capacity(l.width)
    BY <1>4, <1>5 DEF AllCounts
  <2>. QED
    BY <1>7, <1>10, <2>1, <2>2, <2>3 DEF IsFieldValue
<1>12. FieldBytes(l, v) = Bytes(mem, a, view.lo + view.at[i + 1])
  <2>1. v.count = n /\ v.data = data
    OBVIOUS
  <2>. HIDE DEF v
  <2>2. CASE l.shape \in {"plain", "implicit"}
    <3>1. FieldBytes(l, v) = data /\ shift = 0
      BY <2>1, <2>2 DEF FieldBytes, PayloadShift
    <3>2. EncodedFieldLen(l, n) = k
      <4>1. n \in {0, 1} /\ (l.shape = "plain" => n = 1)
        BY <1>4, <2>2 DEF AllCounts
      <4>. HIDE DEF n, size
      <4>2. EncodedFieldLen(l, n) = IF n = 1 THEN size ELSE 0
        BY <2>2, <4>1 DEF EncodedFieldLen, size
      <4>. QED
        BY <1>7, <4>1, <4>2
    <3>3. view.lo + view.at[i + 1] = a + k
      <4>1. view.at[i + 1] = o + k
        BY <1>6, <3>2
      <4>. QED
        BY <1>1, <4>1
    <3>4. a + shift = a
      BY <1>2, <3>1
    <3>. QED
      BY <1>8, <3>1, <3>3, <3>4
  <2>3. CASE l.shape = "tagged" /\ n = 1
    <3>1. FieldBytes(l, v) = << 1 >> \o data /\ shift = 1
      BY <2>1, <2>3 DEF FieldBytes, PayloadShift
    <3>2. mem[a] = 1
      BY <1>1, <1>3, <2>3 DEF Accepted, StepCount
    <3>3. view.lo + view.at[i + 1] = a + 1 + k
      <4>1. view.at[i + 1] = o + (shift + k)
        BY <1>6, <1>7, <2>3
      <4>. HIDE DEF o
      <4>. QED
        BY <1>1, <3>1, <4>1
    <3>4. data = Bytes(mem, a + 1, a + 1 + k) /\ a + 1 + k <= MemLen
      BY <1>8, <1>9, <2>3, <3>1
    <3>5. << 1 >> \in Seq(Byte) /\ Len(<< 1 >>) = 1 /\ \A j \in 1 .. 1 : << 1 >>[j] = mem[a + j - 1]
      <4>1. 1 \in Byte
        BY RadixAssumption DEF Byte
      <4>2. << 1 >> \in Seq(Byte) /\ Len(<< 1 >>) = 1
        BY <4>1
      <4>3. a + 1 - 1 = a
        BY <1>2
      <4>4. \A j \in 1 .. 1 : j = 1
        OBVIOUS
      <4>. HIDE DEF a
      <4>. QED
        BY <3>2, <4>2, <4>3, <4>4
    <3>. HIDE DEF a
    <3>6. << 1 >> \o Bytes(mem, a + 1, a + 1 + k) = Bytes(mem, a, a + 1 + k)
      <4>1. PICK b \in Nat, e \in Nat : b = a + 1 /\ e = a + 1 + k /\ b <= e
        BY <1>2, <1>7
      <4>2. PICK h : h = << 1 >>
        OBVIOUS
      <4>3. /\ mem \in Memory /\ a \in Nat /\ b \in Nat /\ e \in Nat /\ b <= e /\ e <= MemLen
            /\ h \in Seq(Byte) /\ b = a + Len(h) /\ Holds(mem, a, h)
        BY <1>1, <1>2, <3>4, <3>5, <4>1, <4>2 DEF Holds
      <4>4. h \o Bytes(mem, b, e) = Bytes(mem, a, e)
        BY ONLY <4>3, BytesJoin
      <4>. QED
        BY <4>1, <4>2, <4>4
    <3>. QED
      BY <3>1, <3>3, <3>4, <3>6
  <2>4. CASE l.shape = "tagged" /\ n = 0
    <3>1. FieldBytes(l, v) = << 0 >>
      BY <2>1, <2>4 DEF FieldBytes
    <3>2. mem[a] = 0
      BY <1>3, <2>4 DEF StepCount
    <3>3. view.lo + view.at[i + 1] = a + 1
      <4>1. EncodedFieldLen(l, n) = 1
        BY <2>4 DEF EncodedFieldLen
      <4>. QED
        BY <1>1, <1>6, <4>1
    <3>4. Bytes(mem, a, a + 1) = << 0 >>
      <4>. HIDE DEF a
      <4>1. PICK e \in Nat : e = a + 1 /\ e - a = 1
        BY <1>2
      <4>2. Bytes(mem, a, e) = [j \in 1 .. 1 |-> mem[a + j - 1]]
        BY <4>1 DEF Bytes
      <4>3. \A j \in 1 .. 1 : a + j - 1 = a
        BY <1>2
      <4>4. [j \in 1 .. 1 |-> mem[a + j - 1]] = [j \in 1 .. 1 |-> 0]
        BY <3>2, <4>3
      <4>5. [j \in 1 .. 1 |-> 0] = << 0 >>
        OBVIOUS
      <4>. QED
        BY <4>1, <4>2, <4>4, <4>5
    <3>. QED
      BY <3>1, <3>3, <3>4
  <2>5. CASE l.shape = "vec"
    <3>. DEFINE header == LenHeader(n, l.width)
    <3>1. FieldBytes(l, v) = header \o data /\ shift = l.width
      BY <2>1, <2>5 DEF FieldBytes, PayloadShift
    <3>2. header \in Seq(Byte) /\ Len(header) = l.width
      BY <1>2, <1>5, LenHeaderType
    <3>3. EncodedFieldLen(l, n) = l.width + k
      BY <1>7, <2>5 DEF EncodedFieldLen
    <3>4. view.lo + view.at[i + 1] = a + l.width + k /\ a + l.width + k <= MemLen
      <4>1. view.at[i + 1] = o + (l.width + k)
        BY <1>6, <3>3
      <4>. HIDE DEF o
      <4>. QED
        BY <1>1, <1>2, <4>1, MemoryAssumption
    <3>5. \A j \in 1 .. l.width : mem[a + j - 1] \in Byte
      <4>. SUFFICES ASSUME NEW j \in 1 .. l.width PROVE mem[a + j - 1] \in Byte
        OBVIOUS
      <4>. HIDE DEF a
      <4>1. a + j - 1 \in 0 .. MemLen - 1
        BY <1>2, <3>4, MemoryAssumption
      <4>. QED
        BY <1>1, <4>1 DEF Memory
    <3>6. n = ReadLenHeader(mem, a, l.width)
      BY <1>3, <2>5 DEF StepCount
    <3>7. \A j \in 1 .. l.width : header[j] = mem[a + j - 1]
      <4>. HIDE DEF a, n
      <4>. QED
        BY <1>2, <3>5, <3>6, HeaderWrites
    <3>8. data = Bytes(mem, a + l.width, a + l.width + k)
      BY <1>8, <3>1
    <3>. HIDE DEF header, a, data
    <3>9. header \o Bytes(mem, a + l.width, a + l.width + k) = Bytes(mem, a, a + l.width + k)
      <4>1. PICK b \in Nat, e \in Nat : b = a + l.width /\ e = a + l.width + k /\ b <= e
        BY <1>2, <1>7
      <4>2. /\ mem \in Memory /\ a \in Nat /\ b \in Nat /\ e \in Nat /\ b <= e /\ e <= MemLen
            /\ header \in Seq(Byte) /\ b = a + Len(header)
            /\ Holds(mem, a, header)
        BY <1>1, <1>2, <3>2, <3>4, <3>7, <4>1 DEF Holds
      <4>3. header \o Bytes(mem, b, e) = Bytes(mem, a, e)
        BY ONLY <4>2, BytesJoin
      <4>. QED
        BY <4>1, <4>3
    <3>. QED
      BY <3>1, <3>4, <3>8, <3>9 DEF data
  <2>6. l.shape = "tagged" => n \in {0, 1}
    BY <1>4 DEF AllCounts
  <2>. QED
    BY <1>2, <2>2, <2>3, <2>4, <2>5, <2>6
<1>. QED
  BY <1>11, <1>12

(* The decoder accepts only encodings, of any struct and whatever bytes it *)
(* is given: what it takes for a field is what the encoder writes for the  *)
(* value a getter then reads.                                              *)
THEOREM DecodedIsEncoding == Spec => []DecodesOnlyEncodings
<1>1. ASSUME MacroInv, ExpandInv, CodecInv, ViewInv, ViewSlice PROVE DecodesOnlyEncodings
  BY <1>1, DecodedField DEF DecodesOnlyEncodings
<1>2. ExpandInv /\ CodecInv /\ ViewInv /\ ViewSlice /\ [Next]_vars => ViewSlice'
  BY SliceStep
<1>. QED
  BY <1>1, <1>2, SliceInit, WroteInvariant, PTL DEF Spec

-----------------------------------------------------------------------------
(* The contract of the callers.                                            *)

\* A view of the last encoding has its fields where they were written.
StoredWalks == ViewOfStored => view.at = wrote.at

\* Before the expansion has ended nothing was called.
Uncalled == phase # "emitted" => op = "none"

\* A struct with no field is not encoded.
HasFields ==
  /\ phase = "fields" => idx = 1 \/ layouts # << >>
  /\ phase \in {"sums", "align", "emit", "emitted"} => layouts # << >>

ContractInv == StoredWalks /\ Uncalled /\ HasFields

\* All the invariants the contract rests on.
Sound ==
  /\ MacroInv /\ ExpandInv /\ CodecInv /\ EncodeInv /\ ViewInv /\ WroteInv /\ FollowInv
  /\ NoPanic /\ ContractInv

-----------------------------------------------------------------------------
(* The mapped state.                                                       *)

LEMMA FieldsInit == ExpandInit => HasFields
  BY DEF ExpandInit, HasFields

LEMMA FieldsStep ==
  ASSUME TypeInv, HasFields, ExpandNext
  PROVE  HasFields'
<1>. USE DEF HasFields, Enter, Reject, NextAligned
<1>1. CASE ParseArgs
  BY <1>1 DEF ParseArgs
<1>2. CASE ParseField
  <2>1. layouts \in Seq(FieldLayout)
    BY DEF TypeInv, ExpandTypeOK
  <2>2. \A c : Append(layouts, c) # << >>
    BY <2>1
  <2>. QED
    BY <1>2, <2>2 DEF ParseField
<1>3. CASE CheckStructOptions
  <2>1. Len(decl.fields) \in Nat /\ Len(decl.fields) # 0
    BY DeclsAssumption DEF TypeInv, ExpandTypeOK
  <2>2. idx # 1
    BY <1>3, <2>1 DEF CheckStructOptions
  <2>. QED
    BY <1>3, <2>2 DEF CheckStructOptions
<1>4. CASE AddPayload \/ SumsDone
  BY <1>4 DEF AddPayload, SumsDone
<1>5. CASE NeedsNoAlignment \/ AlignmentBeyondBase \/ AddPossibleLen \/ CheckResidues \/ AlignmentDone
  BY <1>5 DEF NeedsNoAlignment, AlignmentBeyondBase, ResiduesApply, AddPossibleLen, CheckResidues, AlignmentDone
<1>6. CASE EmitField \/ EmitDone
  BY <1>6 DEF EmitField, EmitDone
<1>. QED
  BY <1>1, <1>2, <1>3, <1>4, <1>5, <1>6 DEF ExpandNext

\* Without a view none of the stored value is open; a stored value has fields.
LEMMA StoredValue ==
  ASSUME Sound
  PROVE  /\ view = NoView => ~ViewOfStored
         /\ Readable => /\ wrote.val # << >> /\ DOMAIN wrote.val = 1 .. FieldCount
                        /\ phase = "emitted" /\ LegalAddress(wrote.lo)
<1>1. ASSUME Readable
      PROVE  /\ wrote.val # << >> /\ DOMAIN wrote.val = 1 .. FieldCount /\ phase = "emitted"
             /\ wrote.hi \in Nat
  <2>1. wrote # NoEncoding
    BY <1>1 DEF Readable
  <2>2. phase = "emitted" /\ FieldCount \in Nat /\ wrote.hi \in Nat /\ IsStruct(wrote.val)
    BY <2>1, OwnField DEF Sound, WroteInv, Encoding
  <2>3. wrote.val \in Seq(FieldValue) /\ layouts \in Seq(FieldLayout)
    BY DEF Sound, CodecInv, CodecTypeOK, ExpandInv, TypeInv, ExpandTypeOK
  <2>4. FieldCount # 0
    BY <2>2, <2>3 DEF Sound, ContractInv, HasFields, FieldCount
  <2>. QED
    BY <2>2, <2>3, <2>4 DEF IsStruct
<1>2. ASSUME view = NoView, ViewOfStored PROVE FALSE
  <2>1. wrote.hi \in Nat /\ wrote.hi = -1
    BY <1>1, <1>2 DEF ViewOfStored, NoView
  <2>. QED
    BY <2>1
<1>. QED
  BY <1>1, <1>2 DEF Readable

LEMMA CallSeen ==
  /\ op = "none" => LastCall = Called("none", << >>, 0)
  /\ op = "encode" => LastCall = Called("encode", val, 0)
  /\ op \in {"decode", "decode_prefix"} =>
       LastCall = Called(IF DecodesStored THEN "decode" ELSE "other", << >>, 0)
  /\ op = "get" => LastCall = IF ViewOfStored THEN Called("get", << >>, goal)
                              ELSE Called("other", << >>, 0)
<1>1. DecodesStored => op \in {"decode", "decode_prefix"}
  BY DEF DecodesStored
<1>. QED
  BY ONLY <1>1 DEF LastCall

\* And the one it sees after a step.
LEMMA CallSeenNext ==
  /\ op' = "none" => LastCall' = Called("none", << >>, 0)
  /\ op' = "encode" => LastCall' = Called("encode", val', 0)
  /\ op' \in {"decode", "decode_prefix"} =>
       LastCall' = Called(IF DecodesStored' THEN "decode" ELSE "other", << >>, 0)
  /\ op' = "get" => LastCall' = IF ViewOfStored' THEN Called("get", << >>, goal')
                                ELSE Called("other", << >>, 0)
<1>1. DecodesStored' => op' \in {"decode", "decode_prefix"}
  BY DEF DecodesStored
<1>. QED
  BY ONLY <1>1 DEF LastCall, Called

-----------------------------------------------------------------------------
(* Nothing the contract promises is lost by a step that leaves the last    *)
(* encoding and the view alone.                                            *)

LEMMA ReadableStays ==
  ASSUME UNCHANGED << decl, layouts, phase, offsets, minLen, sums, nextBit, maxLen, lens, wrote >>
  PROVE  Readable' = Readable
  BY DEF Readable, LegalAddress, ChecksDisagree, FieldCount, NoEncoding

LEMMA ViewStays ==
  ASSUME UNCHANGED expandVars, UNCHANGED << wrote, view >>
  PROVE  Readable' = Readable /\ ViewOfStored' = ViewOfStored
<1>1. Readable' = Readable
  BY ReadableStays DEF expandVars, loopVars, emitVars
<1>. QED
  BY <1>1 DEF ViewOfStored

LEMMA NoViewNext ==
  ASSUME Sound, (CodecInv /\ WroteInv)', UNCHANGED expandVars, view' = NoView
  PROVE  ~ViewOfStored'
<1>1. ASSUME ViewOfStored' PROVE FALSE
  <2>1. wrote' # NoEncoding /\ wrote'.hi = -1
    BY <1>1 DEF ViewOfStored, Readable, NoView, NoEncoding
  <2>2. FieldCount' = FieldCount /\ FieldCount \in Nat
    BY EncodeTypesOf DEF Sound, FieldCount, expandVars
  <2>3. /\ wrote'.at \in Seq(Nat) /\ wrote'.lo \in Nat
        /\ Len(wrote'.at) = FieldCount + 1 /\ wrote'.hi = wrote'.lo + wrote'.at[FieldCount + 1]
    BY <2>1, <2>2 DEF CodecInv, CodecTypeOK, WroteInv, Encoding, NoEncoding
  <2>4. wrote'.at[FieldCount + 1] \in Nat
    BY <2>2, <2>3
  <2>. QED
    BY <2>1, <2>3, <2>4
<1>. QED
  BY <1>1

\* A view of the last encoding, decoded in the step, is what RoundTrip is about.
LEMMA DecodeOpensStored ==
  ASSUME Sound, (CodecInv /\ FollowInv /\ NoPanic)', UNCHANGED expandVars, DecodeDone
  PROVE  /\ DecodesStored => ViewOfStored'
         /\ ViewOfStored' => DecodesStored /\ view'.at = wrote'.at
<1>1. /\ pc = "validate" /\ pc' = "idle" /\ UNCHANGED << wrote, slice, op >>
      /\ op \in {"decode", "decode_prefix"} /\ view = NoView
  <2>1. pc = "validate" /\ pc' \in {"idle", "panic"} /\ UNCHANGED << wrote, slice, op >>
    BY DEF DecodeDone, Return, Fail, Panic, callVars
  <2>. QED
    BY <2>1 DEF Sound, CodecInv, CallInv, ViewInv, NoPanic
<1>2. slice.lo \in Nat /\ slice.hi \in Nat /\ off \in Nat /\ off <= SliceLen
  <2>1. slice \in Slice /\ off \in Nat /\ off <= SliceLen
    BY <1>1 DEF Sound, CodecInv, CodecTypeOK, ViewInv, ValidateLoop
  <2>. QED
    BY <2>1, MemoryAssumption DEF Slice
<1>3. \/ /\ ret'.res = "ok" /\ (op = "decode" => off = SliceLen)
         /\ view' = [lo |-> slice.lo, hi |-> slice.lo + off, at |-> Append(at, off)]
      \/ ret'.res = "InvalidDataLength" /\ view' = view
  <2>1. /\ (NoReturn.res = "none")
        /\ [NoReturn EXCEPT !.res = "InvalidDataLength"].res = "InvalidDataLength"
        /\ \A n : [NoReturn EXCEPT !.res = "ok", !.rest = n].res = "ok"
    BY DEF NoReturn
  <2>. QED
    BY <1>1, <2>1 DEF DecodeDone, Return, Fail, Panic
<1>4. Readable' = Readable
  BY <1>1, ReadableStays DEF expandVars, loopVars, emitVars
<1>5. LegalAddress(wrote.lo)' = LegalAddress(wrote.lo) /\ ChecksDisagree' = ChecksDisagree
  BY <1>1 DEF LegalAddress, ChecksDisagree, FieldCount, expandVars
<1>6. ASSUME DecodesStored PROVE ret'.res = "ok" /\ view'.hi = wrote.hi /\ view'.at = wrote.at
  <2>1. DecodedOwnEncoding'
    BY <1>1, <1>5, <1>6 DEF DecodesStored, Readable, DecodedOwnEncoding, Returned, NoEncoding
  <2>2. \/ ret'.res = "ok" /\ view'.hi = wrote.hi /\ view'.at = wrote.at
        \/ ret'.res = "InvalidFieldAlignment" /\ ChecksDisagree'
    BY <1>1, <2>1 DEF FollowInv, RoundTrip
  <2>. QED
    BY <1>3, <1>5, <1>6, <2>2 DEF DecodesStored, Readable
<1>7. ASSUME DecodesStored PROVE ViewOfStored'
  <2>1. view'.lo = wrote.lo /\ view'.hi = wrote.hi
    BY <1>3, <1>6, <1>7 DEF DecodesStored
  <2>. QED
    BY <1>1, <1>4, <1>7, <2>1 DEF DecodesStored, ViewOfStored
<1>8. ASSUME ViewOfStored' PROVE DecodesStored
  <2>1. Readable /\ view'.lo = wrote.lo /\ view'.hi = wrote.hi
    BY <1>1, <1>4, <1>8 DEF ViewOfStored
  <2>2. wrote.hi \in Nat
    BY <2>1, OwnField DEF Sound, Readable
  <2>3. /\ op = "decode" => off = SliceLen
        /\ view' = [lo |-> slice.lo, hi |-> slice.lo + off, at |-> Append(at, off)]
    BY <1>1, <1>3, <2>1, <2>2 DEF NoView
  <2>4. slice.lo = wrote.lo /\ wrote.hi = slice.lo + off
    BY <2>1, <2>3
  <2>5. (op = "decode" => slice.hi = wrote.hi) /\ slice.hi >= wrote.hi
    BY <1>2, <2>3, <2>4 DEF SliceLen
  <2>. QED
    BY <1>1, <2>1, <2>4, <2>5 DEF DecodesStored
<1>. QED
  BY <1>1, <1>6, <1>7, <1>8

LEMMA ContractInit == Init => ContractInv
<1>. SUFFICES ASSUME Init PROVE ContractInv
  OBVIOUS
<1>1. wrote = NoEncoding /\ op = "none"
  BY DEF Init, CodecInit
<1>. QED
  BY <1>1, FieldsInit DEF Init, ContractInv, StoredWalks, ViewOfStored, Readable, Uncalled

LEMMA ContractStep ==
  ASSUME Sound, (CodecInv /\ WroteInv /\ FollowInv /\ NoPanic)', [Next]_vars
  PROVE  ContractInv'
<1>1. CASE ExpandNext /\ UNCHANGED codecVars
  <2>1. phase # "emitted"
    BY <1>1 DEF ExpandNext, ParseArgs, ParseField, CheckStructOptions, AddPayload, SumsDone,
           NeedsNoAlignment, AlignmentBeyondBase, AddPossibleLen, CheckResidues, ResiduesApply,
           AlignmentDone, EmitField, EmitDone
  <2>2. wrote' = NoEncoding /\ op' = "none"
    BY <1>1, <2>1 DEF Sound, WroteInv, ContractInv, Uncalled, codecVars, callVars
  <2>3. NoEncoding' = NoEncoding
    BY DEF NoEncoding
  <2>4. HasFields'
    BY <1>1, FieldsStep DEF Sound, MacroInv, ContractInv
  <2>. QED
    BY <2>2, <2>3, <2>4 DEF ContractInv, StoredWalks, ViewOfStored, Readable, Uncalled
<1>2. CASE phase = "emitted" /\ CodecNext /\ UNCHANGED expandVars
  <2>1. Uncalled' /\ HasFields'
    BY <1>2 DEF Uncalled, Sound, ContractInv, HasFields, expandVars
  <2>2. SUFFICES StoredWalks'
    BY <2>1 DEF ContractInv
  <2>3. CASE StartEncode \/ StartDecode
    <3>1. view' = NoView
      BY <2>3 DEF StartEncode, StartDecode
    <3>. QED
      BY <1>2, <3>1, NoViewNext DEF StoredWalks
  <2>4. CASE AddLen \/ CheckRoom \/ WriteField \/ EncodeDone
    <3>1. view' = NoView
      BY <2>4 DEF AddLen, CheckRoom, WriteField, EncodeDone, Sound, ViewInv
    <3>. QED
      BY <1>2, <3>1, NoViewNext DEF StoredWalks
  <2>5. CASE ValidateField \/ StartGet \/ GetStep \/ GetRead
    <3>1. UNCHANGED << wrote, view >>
      BY <2>5 DEF ValidateField, StartGet, GetStep, GetRead
    <3>. QED
      BY <1>2, <3>1, ViewStays DEF StoredWalks, Sound, ContractInv
  <2>6. CASE DecodeDone
    BY <1>2, <2>6, DecodeOpensStored DEF StoredWalks
  <2>. QED
    BY <1>2, <2>3, <2>4, <2>5, <2>6 DEF CodecNext
<1>3. CASE UNCHANGED vars
  <2>1. UNCHANGED expandVars /\ UNCHANGED << wrote, view, op >>
    BY <1>3 DEF vars, codecVars, callVars
  <2>2. StoredWalks'
    BY <2>1, ViewStays DEF StoredWalks, Sound, ContractInv
  <2>. QED
    BY <2>1, <2>2 DEF ContractInv, Uncalled, HasFields, Sound, expandVars
<1>. QED
  BY <1>1, <1>2, <1>3 DEF Next, Stopped

-----------------------------------------------------------------------------
(* A getter of a view of the last encoding shows what was encoded.         *)

\* The payload of a field lies behind its tag or header.
LEMMA PayloadWritten ==
  ASSUME Sound, wrote # NoEncoding, NEW i \in 1 .. FieldCount
  PROVE  LET l == layouts[i]
             v == wrote.val[i]
         IN /\ v.count \in Nat /\ v.data \in Seq(Byte) /\ Len(v.data) = v.count * Size(l.kind)
            /\ v.count = 0 => Len(v.data) = 0
            /\ PayloadShift(l) \in Nat
            /\ Holds(mem, wrote.lo + wrote.at[i] + PayloadShift(l), v.data)
<1>. DEFINE l == layouts[i]
            v == wrote.val[i]
            a == wrote.lo + wrote.at[i]
            shift == PayloadShift(l)
            bytes == FieldBytes(l, v)
<1>1. /\ l \in FieldLayout /\ v \in FieldValue /\ IsFieldValue(l, v)
      /\ Holds(mem, a, bytes) /\ a \in Nat /\ FieldIds
  <2>1. wrote.lo \in Nat /\ wrote.at[i] \in Nat
    BY OwnField DEF Sound
  <2>. QED
    BY <2>1, OwnField DEF Sound
<1>2. /\ l.shape \in {"plain", "tagged", "implicit", "vec"} /\ v.count \in Nat /\ v.data \in Seq(Byte)
      /\ Len(v.data) = v.count * Size(l.kind) /\ Size(l.kind) \in Nat /\ shift \in Nat
  BY <1>1, KindTypes, ShiftType DEF FieldLayout, FieldValue, IsFieldValue
<1>3. v.count = 0 => Len(v.data) = 0
  <2>. HIDE DEF v, l
  <2>. QED
    BY <1>2
<1>4. PICK head \in Seq(Byte) : v.count # 0 => bytes = head \o v.data /\ Len(head) = shift
  <2>1. CASE l.shape \in {"plain", "implicit"}
    <3>1. bytes = v.data /\ shift = 0
      BY <2>1 DEF FieldBytes, PayloadShift
    <3>2. << >> \in Seq(Byte) /\ Len(<< >>) = 0 /\ << >> \o v.data = v.data
      BY <1>2
    <3>. QED
      BY <3>1, <3>2
  <2>2. CASE l.shape = "tagged"
    <3>1. v.count # 0 => v.count = 1
      BY <1>1, <2>2 DEF IsFieldValue
    <3>2. (v.count = 1 => bytes = << 1 >> \o v.data) /\ shift = 1
      BY <2>2 DEF FieldBytes, PayloadShift
    <3>3. << 1 >> \in Seq(Byte) /\ Len(<< 1 >>) = 1
      BY RadixAssumption DEF Byte
    <3>. QED
      BY <3>1, <3>2, <3>3
  <2>3. CASE l.shape = "vec"
    <3>1. bytes = LenHeader(v.count, l.width) \o v.data /\ shift = l.width
      BY <2>3 DEF FieldBytes, PayloadShift
    <3>2. l.width \in 0 .. MaxLenWidth
      BY <1>1 DEF FieldLayout
    <3>3. LenHeader(v.count, l.width) \in Seq(Byte) /\ Len(LenHeader(v.count, l.width)) = l.width
      BY <1>2, <3>2, LenHeaderType
    <3>. QED
      BY <3>1, <3>3
  <2>. QED
    BY <1>2, <2>1, <2>2, <2>3
<1>5. Holds(mem, a + shift, v.data)
  <2>1. CASE v.count = 0
    <3>1. Len(v.data) = 0
      BY <1>3, <2>1
    <3>. QED
      BY <3>1 DEF Holds
  <2>2. CASE v.count # 0
    <3>1. bytes = head \o v.data /\ Len(head) = shift
      BY <1>4, <2>2
    <3>. HIDE DEF bytes, v, shift, a
    <3>2. \A k \in 1 .. Len(v.data) :
            /\ shift + k \in 1 .. Len(bytes) /\ bytes[shift + k] = v.data[k]
            /\ a + (shift + k) - 1 = a + shift + k - 1
      BY <1>1, <1>2, <3>1
    <3>. QED
      BY ONLY <1>1, <3>2 DEF Holds
  <2>. QED
    BY <2>1, <2>2
<1>. QED
  BY <1>2, <1>3, <1>5

LEMMA ReadsStored ==
  ASSUME Sound, ViewOfStored, slice.lo = view.lo, slice.hi = view.hi, NEW i \in 1 .. FieldCount
  PROVE  LET l == layouts[i]
             v == wrote.val[i]
         IN /\ Count(l, wrote.at[i]) = v.count
            /\ ReadBytes(l, wrote.at[i], v.count) = v.data
            /\ v = [count |-> v.count, data |-> v.data]
<1>. DEFINE l == layouts[i]
            v == wrote.val[i]
            o == wrote.at[i]
            shift == PayloadShift(l)
            start == wrote.lo + o + shift
            mask == MaskForLen(wrote.hi - wrote.lo)
            read == Bytes(mem, start, start + v.count * Size(l.kind))
<1>1. /\ wrote # NoEncoding /\ slice.lo = wrote.lo /\ slice.hi = wrote.hi
      /\ l \in FieldLayout /\ v \in FieldValue /\ IsFieldValue(l, v)
      /\ wrote.lo \in Nat /\ o \in Nat /\ wrote.lo + o \in Nat /\ FieldIds
  <2>1. wrote # NoEncoding /\ slice.lo = wrote.lo /\ slice.hi = wrote.hi
    BY DEF ViewOfStored, Readable
  <2>2. wrote.lo \in Nat /\ o \in Nat
    BY <2>1, OwnField DEF Sound
  <2>. QED
    BY <2>1, <2>2, OwnField DEF Sound
<1>2. Count(l, o) = v.count
  <2>1. StepCount(mem, mask, wrote.lo + o, l) = v.count
    BY <1>1, OwnCount DEF Sound
  <2>2. SliceLen = wrote.hi - wrote.lo
    BY <1>1 DEF SliceLen
  <2>3. l.shape \in {"plain", "tagged", "implicit", "vec"}
    BY <1>1 DEF FieldLayout
  <2>4. Count(l, o) = StepCount(mem, mask, wrote.lo + o, l)
    BY <1>1, <2>2, <2>3 DEF StepCount, Count, ByteAt, HeaderAt, Present
  <2>. QED
    BY <2>1, <2>4
<1>3. /\ v.count \in Nat /\ v.data \in Seq(Byte) /\ Len(v.data) = v.count * Size(l.kind)
      /\ v.count = 0 => Len(v.data) = 0
      /\ shift \in Nat /\ Holds(mem, start, v.data)
  BY <1>1, PayloadWritten
<1>4. read = v.data
  <2>. DEFINE n == Len(v.data)
  <2>1. n \in Nat /\ start \in Nat /\ (start + n) - start = n
    BY <1>1, <1>3
  <2>2. read = [k \in 1 .. n |-> mem[start + k - 1]]
    BY <1>3, <2>1 DEF Bytes
  <2>3. v.data = [k \in 1 .. n |-> v.data[k]]
    BY <1>3
  <2>. HIDE DEF start, v, read
  <2>4. \A k \in 1 .. n : mem[start + k - 1] = v.data[k]
    BY <1>3 DEF Holds
  <2>. QED
    BY <2>2, <2>3, <2>4
<1>5. Typed(l, v.data) = v.data
  <2>1. CASE l.kind.name # "bool"
    BY <2>1 DEF Typed
  <2>2. CASE l.kind.name = "bool"
    <3>1. v.count \in {0, 1}
      BY <1>1, <2>2 DEF FieldIds, IsFieldValue, FieldLayout
    <3>2. Size(l.kind) = 1
      BY <2>2 DEF Size
    <3>. DEFINE d == v.data
    <3>3. Len(d) \in {0, 1} /\ d \in Seq(Byte) /\ (Len(d) = 1 => d[1] \in {0, 1})
      BY <1>1, <1>3, <2>2, <3>1, <3>2 DEF IsFieldValue
    <3>. HIDE DEF d
    <3>4. \A k \in 1 .. Len(d) : d[k] \in {0, 1}
      BY <3>3
    <3>5. [k \in 1 .. Len(d) |-> IF d[k] = 0 THEN 0 ELSE 1] = d
      BY <3>3, <3>4
    <3>. QED
      BY <2>2, <3>5 DEF Typed, d
  <2>. QED
    BY <2>1, <2>2
<1>6. ReadBytes(l, o, v.count) = v.data
  BY <1>1, <1>4, <1>5 DEF ReadBytes
<1>7. v = [count |-> v.count, data |-> v.data]
  BY <1>1 DEF FieldValue
<1>. QED
  BY <1>2, <1>6, <1>7

-----------------------------------------------------------------------------
(* Each step of the code is a step of the contract, or none.               *)

\* The stored value and the running call, as the contract sees them.
StoredNow == IF Readable THEN wrote.val ELSE << >>
BusyNow == pc \notin {"idle", "panic"}

LEMMA NothingShown ==
  /\ op # "get" \/ pc # "idle" => LastShown = [field |-> 0, shown |-> << >>]
  /\ op' # "get" \/ pc' # "idle" => LastShown' = [field |-> 0, shown |-> << >>]
BY DEF LastShown, Returned

\* Between its first and its last step a call keeps what the contract sees.
LEMMA CallGoesOn ==
  ASSUME UNCHANGED expandVars, UNCHANGED << wrote, view, op, val, slice, goal >>
  PROVE  /\ StoredNow' = StoredNow /\ ViewOfStored' = ViewOfStored
         /\ DecodesStored' = DecodesStored /\ LastCall' = LastCall
<1>1. Readable' = Readable /\ ViewOfStored' = ViewOfStored
  BY ViewStays
<1>2. DecodesStored' = DecodesStored
  BY <1>1 DEF DecodesStored
<1>. QED
  BY <1>1, <1>2 DEF StoredNow, LastCall, Called

LEMMA StepInside ==
  ASSUME Sound, NoPanic', pc # "idle", pc' # "idle",
         UNCHANGED expandVars, UNCHANGED << wrote, view, op, val, slice, goal >>
  PROVE  UNCHANGED Contract!contractVars
<1>1. BusyNow' = BusyNow
  BY DEF Sound, NoPanic, BusyNow
<1>. QED
  BY <1>1, CallGoesOn, NothingShown DEF Contract!contractVars, StoredNow, BusyNow

\* The last step of a call that leaves the encoding and the view alone.
LEMMA CallReturns ==
  ASSUME Sound, pc # "idle", pc' = "idle",
         UNCHANGED expandVars, UNCHANGED << wrote, view, op, val, slice, goal >>
  PROVE  /\ BusyNow /\ ~BusyNow'
         /\ StoredNow' = StoredNow /\ ViewOfStored' = ViewOfStored /\ LastCall' = LastCall
         /\ op # "get" => LastShown' = LastShown
<1>1. BusyNow /\ ~BusyNow'
  BY DEF Sound, NoPanic, BusyNow
<1>. QED
  BY <1>1, CallGoesOn, NothingShown

LEMMA StartEncodeAsked ==
  ASSUME Sound, (CodecInv /\ WroteInv)', UNCHANGED expandVars, StartEncode
  PROVE  Contract!AskEncode
<1>1. /\ pc = "idle" /\ pc' = "len" /\ op' = "encode" /\ view' = NoView /\ wrote' = wrote
      /\ val' \in Seq(FieldValue)
  BY DEF StartEncode, MayCall, StartLoop, CodecInv, CodecTypeOK
<1>2. LastCall' = Called("encode", val', 0)
  BY <1>1, CallSeenNext
<1>3. LastShown' = [field |-> 0, shown |-> << >>]
  BY <1>1, NothingShown
<1>4. StoredNow' = StoredNow
  BY <1>1, ReadableStays DEF StoredNow, expandVars, loopVars, emitVars
<1>5. ViewOfStored' = FALSE
  BY <1>1, NoViewNext
<1>6. Called("encode", val', 0).value = val'
  BY DEF Called
<1>. QED
  BY <1>1, <1>2, <1>3, <1>4, <1>5, <1>6
  DEF Contract!AskEncode, Contract!Ask, Contract!NoAnswer, Contract!Nothing, Contract!Called,
      Called, StoredNow

LEMMA AddLenCounted ==
  ASSUME Sound, NoPanic', UNCHANGED expandVars, AddLen
  PROVE  Contract!NotStored \/ UNCHANGED Contract!contractVars
<1>1. /\ pc = "len" /\ pc' \in {"len", "idle"} /\ op = "encode"
      /\ UNCHANGED << wrote, view, op, val, slice, goal >>
  BY DEF AddLen, Fail, Return, Sound, EncodeInv, CodecInv, CallInv
<1>2. CASE pc' = "len"
  BY <1>1, <1>2, StepInside
<1>3. CASE pc' = "idle"
  <2>1. LastCall.name = "encode"
    BY <1>1, CallSeen DEF Called
  <2>. QED
    BY <1>1, <1>3, <2>1, CallReturns
    DEF Contract!NotStored, Contract!Return, StoredNow, BusyNow
<1>. QED
  BY <1>1, <1>2, <1>3

LEMMA CheckRoomCounted ==
  ASSUME Sound, NoPanic', UNCHANGED expandVars, CheckRoom
  PROVE  Contract!Lose \/ Contract!NotStored
<1>1. /\ pc = "len" /\ op = "encode" /\ view = NoView
      /\ UNCHANGED << view, op, val, slice, goal >> /\ LastCall.name = "encode"
  BY CallSeen DEF CheckRoom, Called, Sound, EncodeInv, ViewInv
<1>2. CASE pc' = "idle" /\ wrote' = wrote
  BY <1>1, <1>2, CallReturns
  DEF Contract!NotStored, Contract!Return, StoredNow, BusyNow
<1>3. CASE pc' = "write" /\ wrote' = NoEncoding
  <2>1. ~Readable' /\ ViewOfStored' = ViewOfStored
    BY <1>1, <1>3, StoredValue DEF ViewOfStored, Readable, NoEncoding
  <2>2. LastCall' = LastCall
    BY <1>1, CallSeen, CallSeenNext
  <2>3. BusyNow /\ BusyNow'
    BY <1>1, <1>3 DEF BusyNow
  <2>. QED
    BY <1>1, <1>3, <2>1, <2>2, <2>3, NothingShown
    DEF Contract!Lose, Contract!Nothing, BusyNow
<1>. QED
  BY <1>2, <1>3 DEF CheckRoom, Fail, Return

LEMMA WriteFieldCounted ==
  ASSUME Sound, NoPanic', UNCHANGED expandVars, WriteField
  PROVE  UNCHANGED Contract!contractVars
BY StepInside DEF WriteField, Panic, NoPanic

LEMMA EncodeDoneReturns ==
  ASSUME Sound, (CodecInv /\ WroteInv)', UNCHANGED expandVars, EncodeDone
  PROVE  Contract!Stored \/ Contract!NotStored
<1>1. /\ pc = "write" /\ pc' = "idle" /\ op = "encode" /\ view = NoView
      /\ UNCHANGED << view, op, val, slice, goal >> /\ LastCall = Called("encode", val, 0)
      /\ wrote'.val = val
  BY CallSeen DEF EncodeDone, Return, callVars, Sound, EncodeInv, ViewInv
<1>2. LastCall' = LastCall
  BY <1>1, CallSeenNext
<1>3. BusyNow /\ ~BusyNow'
  BY <1>1 DEF BusyNow
<1>4. ViewOfStored' = ViewOfStored
  <2>1. ~ViewOfStored /\ ~ViewOfStored'
    BY <1>1, StoredValue, NoViewNext
  <2>. QED
    BY <2>1 DEF ViewOfStored
<1>5. StoredNow' = IF Readable' THEN LastCall.value ELSE << >>
  BY <1>1 DEF StoredNow, Called
<1>6. LastCall.name = "encode"
  BY <1>1 DEF Called
<1>. QED
  BY <1>1, <1>2, <1>3, <1>4, <1>5, <1>6, NothingShown
  DEF Contract!Stored, Contract!NotStored, Contract!Return, Contract!Nothing, StoredNow, BusyNow

\* The checks before the loop refuse no encoding at a legal address, so that
\* decoding the stored value does not fail at once.
LEMMA StartDecodeAsked ==
  ASSUME Sound, (CodecInv /\ WroteInv /\ FollowInv)', UNCHANGED expandVars, StartDecode
  PROVE  Contract!AskDecode \/ Contract!AskOther
<1>1. /\ pc = "idle" /\ op' \in {"decode", "decode_prefix"} /\ view' = NoView /\ wrote' = wrote
      /\ \/ pc' = "validate"
         \/ pc' = "idle" /\ ret'.res \in {"InvalidBufferOffset", "InvalidDataLength",
                                          "InvalidImplicitOptionEncoding"}
  <2>1. PICK s \in Slices, name \in {"decode", "decode_prefix"} :
          IF EntryError(s) = "ok"
          THEN StartLoop(name, s, "validate") /\ UNCHANGED ret
          ELSE StartLoop(name, s, "idle") /\ ret' = [NoReturn EXCEPT !.res = EntryError(s)]
    BY DEF StartDecode
  <2>2. EntryError(s) \in {"ok", "InvalidBufferOffset", "InvalidDataLength",
                           "InvalidImplicitOptionEncoding"}
    BY DEF EntryError
  <2>3. \A e : [NoReturn EXCEPT !.res = e].res = e
    BY DEF NoReturn
  <2>. QED
    BY <2>1, <2>2, <2>3 DEF StartDecode, MayCall, StartLoop
<1>2. LastCall' = Called(IF DecodesStored' THEN "decode" ELSE "other", << >>, 0)
  BY <1>1, CallSeenNext
<1>3. Readable' = Readable
  BY <1>1, ReadableStays DEF expandVars, loopVars, emitVars
<1>4. StoredNow' = StoredNow
  BY <1>1, <1>3 DEF StoredNow
<1>5. ViewOfStored' = FALSE
  BY <1>1, NoViewNext
<1>6. LastShown' = [field |-> 0, shown |-> << >>]
  BY <1>1, NothingShown
<1>7. ~BusyNow
  BY <1>1 DEF BusyNow
<1>8. ASSUME DecodesStored'
      PROVE  BusyNow' /\ StoredNow # << >>
  <2>1. LegalAddress(wrote.lo)' /\ ~ChecksDisagree' /\ Readable
    BY <1>3, <1>8 DEF DecodesStored, Readable
  <2>2. ASSUME pc' = "idle" PROVE FALSE
    <3>1. DecodedOwnEncoding'
      BY <1>8, <2>2 DEF DecodesStored, Readable, DecodedOwnEncoding, Returned, NoEncoding
    <3>2. ret'.res = "ok" \/ ret'.res = "InvalidFieldAlignment"
      BY <3>1 DEF FollowInv, RoundTrip
    <3>. QED
      BY <1>1, <2>2, <3>2
  <2>3. wrote.val # << >>
    BY <2>1, StoredValue
  <2>. QED
    BY <1>1, <2>1, <2>2, <2>3 DEF BusyNow, StoredNow
<1>9. CASE DecodesStored'
  BY <1>2, <1>4, <1>5, <1>6, <1>7, <1>8, <1>9
  DEF Contract!AskDecode, Contract!Ask, Contract!NoAnswer, Contract!Nothing, Contract!Called,
      Called, StoredNow, BusyNow
<1>10. CASE ~DecodesStored'
  BY <1>2, <1>4, <1>5, <1>6, <1>7, <1>10
  DEF Contract!AskOther, Contract!Ask, Contract!NoAnswer, Contract!Nothing, Contract!Called,
      Called, StoredNow, BusyNow
<1>. QED
  BY <1>9, <1>10

\* Nor does a field of it.
LEMMA ValidateFieldCounted ==
  ASSUME Sound, (FollowInv /\ NoPanic)', UNCHANGED expandVars, ValidateField
  PROVE  Contract!OtherDone \/ UNCHANGED Contract!contractVars
<1>1. /\ pc = "validate" /\ op \in {"decode", "decode_prefix"}
      /\ UNCHANGED << wrote, view, op, val, slice, goal >>
  BY DEF ValidateField, Sound, CodecInv, CallInv
<1>2. \/ pc' = "validate"
      \/ pc' = "idle" /\ ret'.res # "ok"
  <2>1. \A e : [NoReturn EXCEPT !.res = e].res = e
    BY DEF NoReturn
  <2>. QED
    BY <1>1, <2>1 DEF ValidateField, Fail, Return, Panic, NoPanic
<1>3. CASE pc' = "validate"
  BY <1>1, <1>3, StepInside
<1>4. CASE pc' = "idle" /\ ret'.res # "ok"
  <2>1. ASSUME DecodesStored PROVE FALSE
    <3>1. DecodesStored'
      BY <1>1, <2>1, CallGoesOn
    <3>2. DecodedOwnEncoding'
      BY <1>4, <3>1 DEF DecodesStored, Readable, DecodedOwnEncoding, Returned, NoEncoding
    <3>3. ChecksDisagree'
      BY <1>4, <3>2 DEF FollowInv, RoundTrip
    <3>. QED
      BY <3>1, <3>3 DEF DecodesStored, Readable
  <2>2. LastCall.name = "other"
    BY <1>1, <2>1, CallSeen DEF Called
  <2>. QED
    BY <1>1, <1>4, <2>2, CallReturns
    DEF Contract!OtherDone, Contract!Return, StoredNow, BusyNow
<1>. QED
  BY <1>2, <1>3, <1>4

\* Decoding the stored value opens it, and nothing else does.
LEMMA DecodeDoneReturns ==
  ASSUME Sound, (CodecInv /\ FollowInv /\ NoPanic)', UNCHANGED expandVars, DecodeDone
  PROVE  Contract!Opened \/ Contract!OtherDone
<1>1. /\ pc = "validate" /\ pc' = "idle" /\ op \in {"decode", "decode_prefix"} /\ view = NoView
      /\ UNCHANGED << wrote, op, val, slice, goal >>
  <2>1. pc = "validate" /\ pc' \in {"idle", "panic"} /\ UNCHANGED << wrote, op, val, slice, goal >>
    BY DEF DecodeDone, Return, Fail, Panic, callVars
  <2>. QED
    BY <2>1 DEF Sound, CodecInv, CallInv, ViewInv, NoPanic
<1>2. Readable' = Readable
  BY <1>1, ReadableStays DEF expandVars, loopVars, emitVars
<1>3. StoredNow' = StoredNow /\ DecodesStored' = DecodesStored
  BY <1>1, <1>2 DEF StoredNow, DecodesStored
<1>4. LastCall' = LastCall
      /\ LastCall = Called(IF DecodesStored THEN "decode" ELSE "other", << >>, 0)
  BY <1>1, <1>3, CallSeen, CallSeenNext
<1>5. LastShown' = LastShown
  BY <1>1, NothingShown
<1>6. BusyNow /\ ~BusyNow'
  BY <1>1 DEF BusyNow
<1>7. ~ViewOfStored
  BY <1>1, StoredValue
<1>8. CASE DecodesStored
  <2>1. (ViewOfStored' = TRUE) /\ LastCall.name = "decode"
    BY <1>4, <1>8, DecodeOpensStored DEF Called, ViewOfStored
  <2>. QED
    BY <1>3, <1>4, <1>5, <1>6, <2>1
    DEF Contract!Opened, Contract!Return, StoredNow, BusyNow
<1>9. CASE ~DecodesStored
  <2>1. (ViewOfStored' = ViewOfStored) /\ LastCall.name = "other"
    BY <1>4, <1>7, <1>9, DecodeOpensStored DEF Called, ViewOfStored
  <2>. QED
    BY <1>3, <1>4, <1>5, <1>6, <2>1
    DEF Contract!OtherDone, Contract!Return, StoredNow, BusyNow
<1>. QED
  BY <1>8, <1>9

LEMMA StartGetAsked ==
  ASSUME Sound, NoPanic', UNCHANGED expandVars, StartGet
  PROVE  Contract!AskGet \/ Contract!AskOther
<1>1. /\ pc = "idle" /\ pc' = "walk" /\ op' = "get" /\ UNCHANGED << wrote, view >>
      /\ goal' \in 1 .. FieldCount
  BY DEF StartGet, MayCall
<1>2. Readable' = Readable /\ ViewOfStored' = ViewOfStored
  BY <1>1, ViewStays
<1>3. StoredNow' = StoredNow
  BY <1>1, <1>2 DEF StoredNow
<1>4. LastShown' = [field |-> 0, shown |-> << >>]
  BY <1>1, NothingShown
<1>5. ~BusyNow /\ (BusyNow' = TRUE)
  BY <1>1 DEF BusyNow
<1>6. CASE ViewOfStored
  <2>1. LastCall' = Called("get", << >>, goal')
    BY <1>1, <1>2, <1>6, CallSeenNext
  <2>2. goal' \in DOMAIN StoredNow
    BY <1>1, <1>6, StoredValue DEF StoredNow, ViewOfStored
  <2>. QED
    BY <1>2, <1>3, <1>4, <1>5, <1>6, <2>1, <2>2
    DEF Contract!AskGet, Contract!Ask, Contract!NoAnswer, Contract!Nothing, Contract!Called,
        Called, StoredNow, BusyNow
<1>7. CASE ~ViewOfStored
  <2>1. LastCall' = Called("other", << >>, 0)
    BY <1>1, <1>2, <1>7, CallSeenNext
  <2>2. ViewOfStored' = FALSE
    BY <1>2, <1>7 DEF ViewOfStored
  <2>. QED
    BY <1>3, <1>4, <1>5, <2>1, <2>2
    DEF Contract!AskOther, Contract!Ask, Contract!NoAnswer, Contract!Nothing, Contract!Called,
        Called, StoredNow, BusyNow
<1>. QED
  BY <1>6, <1>7

LEMMA GetStepCounted ==
  ASSUME Sound, NoPanic', UNCHANGED expandVars, GetStep
  PROVE  UNCHANGED Contract!contractVars
BY StepInside DEF GetStep, Panic, NoPanic

\* A getter of the stored value shows the field that was encoded.
LEMMA GetReadReturns ==
  ASSUME Sound, NoPanic', UNCHANGED expandVars, GetRead
  PROVE  Contract!Shown \/ Contract!OtherDone
<1>. DEFINE l == layouts[goal]
            n == Count(l, off)
<1>1. /\ pc = "walk" /\ pc' = "idle" /\ op = "get" /\ op' = "get" /\ fi = goal
      /\ UNCHANGED << wrote, view, op, val, slice, goal >>
      /\ goal \in 1 .. FieldCount /\ slice.lo = view.lo /\ slice.hi = view.hi
      /\ off = view.at[goal]
      /\ ret'.count = n /\ ret'.data = ReadBytes(l, off, n)
  <2>1. /\ pc = "walk" /\ fi = goal /\ UNCHANGED << wrote, view, op, val, slice, goal >>
        /\ \/ /\ pc' = "idle"
              /\ ret' = [NoReturn EXCEPT !.res = "ok", !.count = n, !.data = ReadBytes(l, off, n)]
           \/ pc' = "panic"
    BY DEF GetRead, Return, Panic, callVars
  <2>2. pc' = "idle"
    BY <2>1 DEF NoPanic
  <2>3. ret'.count = n /\ ret'.data = ReadBytes(l, off, n)
    <3>. DEFINE d == ReadBytes(l, off, n)
                r == [NoReturn EXCEPT !.res = "ok", !.count = n, !.data = d]
    <3>1. r.count = n /\ r.data = d
      <4>. HIDE DEF n, d
      <4>. QED
        BY DEF NoReturn
    <3>2. ret' = r
      BY <2>1, <2>2
    <3>. HIDE DEF r, n, d
    <3>3. ret'.count = n /\ ret'.data = d
      BY ONLY <3>1, <3>2
    <3>. QED
      BY <3>3 DEF d
  <2>. QED
    BY <2>1, <2>2, <2>3 DEF Sound, CodecInv, CallInv, EncodeInv, ViewInv, GetLoop
<1>2. /\ BusyNow /\ ~BusyNow' /\ StoredNow' = StoredNow /\ ViewOfStored' = ViewOfStored
      /\ LastCall' = LastCall
  BY <1>1, CallReturns
<1>3. CASE ViewOfStored
  <2>1. LastCall.name = "get" /\ LastCall.field = goal
    BY <1>1, <1>3, CallSeen DEF Called
  <2>2. Readable /\ off = wrote.at[goal] /\ StoredNow = wrote.val
    BY <1>1, <1>3 DEF Sound, ContractInv, StoredWalks, ViewOfStored, StoredNow
  <2>3. /\ n = wrote.val[goal].count /\ ReadBytes(l, off, n) = wrote.val[goal].data
        /\ wrote.val[goal] = [count |-> wrote.val[goal].count, data |-> wrote.val[goal].data]
    BY <1>1, <1>3, <2>2, ReadsStored
  <2>4. LastShown' = [field |-> goal, shown |-> [count |-> ret'.count, data |-> ret'.data]]
    BY <1>1, <1>2, <1>3 DEF LastShown, Returned
  <2>5. LastShown' = [field |-> LastCall.field, shown |-> StoredNow[LastCall.field]]
    BY <1>1, <2>1, <2>2, <2>3, <2>4
  <2>. QED
    BY <1>2, <1>3, <2>1, <2>5
    DEF Contract!Shown, Contract!Return, StoredNow, BusyNow
<1>4. CASE ~ViewOfStored
  <2>1. LastCall.name = "other"
    BY <1>1, <1>4, CallSeen DEF Called
  <2>2. LastShown' = LastShown
    BY <1>2, <1>4 DEF LastShown
  <2>. QED
    BY <1>2, <2>1, <2>2
    DEF Contract!OtherDone, Contract!Return, StoredNow, BusyNow
<1>. QED
  BY <1>3, <1>4

\* Before the expansion has ended the contract sees nothing.
LEMMA ExpandUnseen ==
  ASSUME Sound, ExpandNext, UNCHANGED codecVars
  PROVE  UNCHANGED Contract!contractVars
<1>1. phase # "emitted"
  BY DEF ExpandNext, ParseArgs, ParseField, CheckStructOptions, AddPayload, SumsDone,
         NeedsNoAlignment, AlignmentBeyondBase, AddPossibleLen, CheckResidues, ResiduesApply,
         AlignmentDone, EmitField, EmitDone
<1>2. /\ wrote = NoEncoding /\ wrote' = NoEncoding /\ op = "none" /\ op' = "none"
      /\ UNCHANGED pc
  BY <1>1 DEF Sound, WroteInv, ContractInv, Uncalled, codecVars, callVars
<1>3. /\ ~Readable /\ ~Readable' /\ ViewOfStored' = ViewOfStored
  BY <1>2 DEF Readable, ViewOfStored, NoEncoding
<1>4. LastCall' = LastCall
  BY <1>2, CallSeen, CallSeenNext
<1>. QED
  BY <1>2, <1>3, <1>4, NothingShown DEF Contract!contractVars

LEMMA ContractNext ==
  ASSUME Sound, (CodecInv /\ WroteInv /\ FollowInv /\ NoPanic)', [Next]_vars
  PROVE  [Contract!Next]_(Contract!contractVars)
<1>1. CASE ExpandNext /\ UNCHANGED codecVars
  BY <1>1, ExpandUnseen
<1>2. CASE phase = "emitted" /\ CodecNext /\ UNCHANGED expandVars
  BY <1>2, StartEncodeAsked, AddLenCounted, CheckRoomCounted, WriteFieldCounted, EncodeDoneReturns,
     StartDecodeAsked, ValidateFieldCounted, DecodeDoneReturns,
     StartGetAsked, GetStepCounted, GetReadReturns
  DEF CodecNext, Contract!Next
<1>3. CASE UNCHANGED vars
  <2>1. /\ UNCHANGED expandVars /\ UNCHANGED << wrote, view, op, val, slice, goal >>
        /\ UNCHANGED << pc, ret >>
    BY <1>3 DEF vars, codecVars, callVars
  <2>2. LastShown' = LastShown
    BY <2>1, CallGoesOn DEF LastShown, Returned
  <2>. QED
    BY <2>1, <2>2, CallGoesOn DEF Contract!contractVars, StoredNow
<1>. QED
  BY <1>1, <1>2, <1>3 DEF Next, Stopped

LEMMA ContractStart == Init => Contract!Init
<1>. SUFFICES ASSUME Init PROVE Contract!Init
  OBVIOUS
<1>1. wrote = NoEncoding /\ op = "none" /\ pc = "idle"
  BY DEF Init, CodecInit
<1>2. ~Readable /\ (ViewOfStored = FALSE)
  BY <1>1 DEF ViewOfStored, Readable
<1>. QED
  BY <1>1, <1>2, CallSeen, NothingShown
  DEF Contract!Init, Contract!NoCall, Contract!NoAnswer, Contract!Nothing, Contract!Called, Called

(* The code the macro generates keeps the contract of a layout: whatever   *)
(* the struct, the bytes of the buffer and the order of the calls, each    *)
(* step of encode_to, decode, decode_prefix and the getters is a step the  *)
(* contract allows, or none.  (That every call returns is liveness.)       *)
THEOREM VariableKeepsContract == Spec => Contract!Safety
<1>1. Init => ContractInv /\ Contract!Init
  BY ContractInit, ContractStart
<1>2. Sound /\ (CodecInv /\ WroteInv /\ FollowInv /\ NoPanic)' /\ [Next]_vars
        => ContractInv' /\ [Contract!Next]_(Contract!contractVars)
  BY ContractStep, ContractNext
<1>3. MacroInv /\ ExpandInv /\ CodecInv /\ EncodeInv /\ ViewInv /\ WroteInv /\ FollowInv
      /\ NoPanic /\ ContractInv => Sound
  BY DEF Sound
<1>. QED
  BY <1>1, <1>2, <1>3, WroteInvariant, FollowInvariant, GeneratedCodeNeverPanics, PTL
  DEF Spec, Contract!Safety
=============================================================================
