------------------------------- MODULE FixedCodec -------------------------------
(***************************************************************************)
(* The code #[fixed_offset_layout] generates, run with the constants of    *)
(* its expansion: encode_to into a slice the caller owns, encode into a    *)
(* buffer of its own, decode, and the getters of the view.                 *)
(*                                                                         *)
(* Unlike the variable layout, encode_to computes no length first: it      *)
(* writes field after field and indexes the slice as it goes.  decode      *)
(* keeps no offsets: it checks tags and counts, and each getter indexes    *)
(* the view again.  The buffer is a memory of bytes whose address 0 is     *)
(* BaseAlign-aligned, and a panic is the state pc = "panic", in which the  *)
(* program has ended (the bytes of the field it was in are not tracked).   *)
(***************************************************************************)
EXTENDS FixedExpand

CONSTANTS
  MemLen,       \* number of bytes of the buffer
  InitialMems,  \* its contents before the first call
  Slices,       \* the slices [lo, hi) the caller passes
  Structs,      \* the values it encodes: a sequence of field values
  MaxCalls      \* calls made in a behavior

Memory == [0 .. MemLen - 1 -> Byte]
Slice == {s \in [lo : 0 .. MemLen, hi : 0 .. MemLen] : s.lo <= s.hi}

(* The value of a field: how many values it holds (0 or 1 for an option)   *)
(* and their bytes.                                                        *)
FieldValue == [count : Nat, data : Seq(Byte)]

ASSUME FixedMemoryAssumption == MemLen \in Nat /\ InitialMems \subseteq Memory
ASSUME FixedCallsAssumption == /\ Slices \subseteq Slice /\ MaxCalls \in Nat
                               /\ Structs \subseteq Seq(FieldValue)

VARIABLES
  mem,     \* the buffer
  calls,   \* calls started
  pc,      \* idle between calls, write, validate or panic
  op,      \* the running or the last call: encode_to, encode, decode, get
  slice,   \* the slice it was given
  val,     \* the struct being encoded
  fi,      \* the field it is at
  goal,    \* the field a getter is asked for
  view,    \* the live view, or NoView
  ret,     \* what the last call returned
  wrote,   \* history: the last encoding, or NoEncoding once overwritten
  before   \* history: the buffer when the running call started

callVars == << op, slice, val, fi, goal, before >>
codecVars == << mem, calls, pc, callVars, view, ret, wrote >>
vars == << expandVars, codecVars >>

NoView == [lo |-> 0, hi |-> -1]
NoEncoding == [lo |-> 0, hi |-> -1, val |-> << >>]
NoReturn == [res |-> "none", count |-> 0, data |-> << >>]

-----------------------------------------------------------------------------
(* Values and their bytes. *)

IsFieldValue(l, v) ==
  /\ v.count \in (IF l.shape = "plain" THEN {1} ELSE IF IsVec(l) THEN Nat ELSE {0, 1})
  /\ Len(v.data) = v.count * Size(l.kind)
  /\ l.kind.name = "bool" /\ v.count = 1 => v.data[1] \in {0, 1}

IsStruct(v) == Len(v) = FieldCount /\ \A i \in 1 .. FieldCount : IsFieldValue(layouts[i], v[i])

Zeros(n) == [k \in 1 .. n |-> 0]

\* Fault: the unused part of a slot left as it was.
FieldBytesUnfilled(l, v) ==
  CASE l.shape = "plain"       -> v.data
    [] l.shape = "option"      -> IF v.count = 1 THEN << 1 >> \o v.data ELSE << 0 >>
    [] l.shape = "vec"         -> LenHeader(v.count, l.width) \o v.data
    [] l.shape = "tail_option" -> IF v.count = 1 THEN << 1 >> \o v.data ELSE << >>
    [] l.shape = "tail_vec"    -> IF v.count = 0 THEN << >> ELSE LenHeader(v.count, l.width) \o v.data

\* gen_field_encode: a slot is filled up with zeros, an absent tail writes
\* nothing.
FieldBytes(l, v) ==
  CASE l.shape = "plain"       -> v.data
    [] l.shape = "option"      -> IF v.count = 1 THEN << 1 >> \o v.data ELSE Zeros(1 + Size(l.kind))
    [] l.shape = "vec"         -> LenHeader(v.count, l.width) \o v.data
                                    \o Zeros((l.capacity - v.count) * Size(l.kind))
    [] l.shape = "tail_option" -> IF v.count = 1 THEN << 1 >> \o v.data ELSE << >>
    [] l.shape = "tail_vec"    -> IF v.count = 0 THEN << >> ELSE LenHeader(v.count, l.width) \o v.data

\* Fault: the header of a trailing Vec not allocated.
EncodeBufLenNoHeader(v) ==
  LET tail == layouts[FieldCount]
  IN DataLen + IF HasTail THEN v[FieldCount].count * Size(tail.kind) ELSE 0

\* The length of the buffer encode allocates.
EncodeBufLen(v) ==
  LET tail == layouts[FieldCount]
  IN DataLen + IF ~HasTail \/ v[FieldCount].count = 0 THEN 0
               ELSE PayloadShift(tail) + v[FieldCount].count * Size(tail.kind)

Write(m, a, bytes) ==
  [x \in DOMAIN m |-> IF x \in a .. a + Len(bytes) - 1 THEN bytes[x - a + 1] ELSE m[x]]

Bytes(m, from, to) == [k \in 1 .. to - from |-> m[from + k - 1]]

-----------------------------------------------------------------------------
CodecInit ==
  /\ mem \in InitialMems /\ calls = 0 /\ pc = "idle" /\ op = "none"
  /\ slice = [lo |-> 0, hi |-> 0] /\ val = << >> /\ fi = 1 /\ goal = 1
  /\ view = NoView /\ ret = NoReturn /\ wrote = NoEncoding /\ before = mem

MayCall == phase = "emitted" /\ pc = "idle" /\ calls < MaxCalls

Return(r) == pc' = "idle" /\ ret' = r
Fail(error) == Return([NoReturn EXCEPT !.res = error])
Panic == pc' = "panic" /\ UNCHANGED ret

SliceLen == slice.hi - slice.lo
ByteAt(o) == mem[slice.lo + o]

-----------------------------------------------------------------------------
(* encode_to and encode.  The exclusive borrow of the buffer ends its view.*)

StartWriting(name, s, v) ==
  /\ calls' = calls + 1 /\ op' = name /\ slice' = s /\ val' = v
  /\ pc' = "write" /\ fi' = 1 /\ view' = NoView /\ wrote' = NoEncoding
  /\ UNCHANGED << ret, goal >>

StartEncodeTo ==
  /\ MayCall
  /\ \E s \in Slices, v \in Structs : IsStruct(v) /\ StartWriting("encode_to", s, v)
  /\ before' = mem /\ UNCHANGED mem

\* The buffer encode returns takes the place of the one in use: zeros, at the
\* address of one of the slices.
StartEncode ==
  /\ MayCall
  /\ \E s \in Slices, v \in Structs :
       LET fresh == [lo |-> s.lo, hi |-> s.lo + EncodeBufLen(v)]
       IN /\ IsStruct(v) /\ fresh.hi <= MemLen
          /\ StartWriting("encode", fresh, v)
          /\ mem' = Write(mem, fresh.lo, Zeros(EncodeBufLen(v)))
  /\ before' = mem'

OverCapacity(l, v) == IsVec(l) /\ v.count > l.capacity

\* Fault: the length is stored before it is checked.
RefuseStored ==
  /\ Fail("InvalidRealloc") /\ UNCHANGED fi
  /\ mem' = Write(mem, slice.lo + placed[fi], LenHeader(val[fi].count, layouts[fi].width))

Refuse == Fail("InvalidRealloc") /\ UNCHANGED << mem, fi >>

WriteField ==
  /\ pc = "write" /\ fi <= FieldCount
  /\ LET l == layouts[fi]
         bytes == FieldBytes(l, val[fi])
     IN IF OverCapacity(l, val[fi]) THEN Refuse
        ELSE IF bytes # << >> /\ placed[fi] + Len(bytes) > SliceLen
        THEN Panic /\ UNCHANGED << mem, fi >>
        ELSE /\ mem' = Write(mem, slice.lo + placed[fi], bytes)
             /\ fi' = fi + 1 /\ UNCHANGED << pc, ret >>
  /\ UNCHANGED << calls, op, slice, val, goal, before, view, wrote >>

EncodeDone ==
  /\ pc = "write" /\ fi > FieldCount
  /\ Return([NoReturn EXCEPT !.res = "ok"])
  /\ wrote' = [lo |-> slice.lo, hi |-> slice.lo + EncodeBufLen(val), val |-> val]
  /\ UNCHANGED << mem, calls, callVars, view >>

-----------------------------------------------------------------------------
(* decode. *)

LenAccepted(s) == s.hi - s.lo \in MinLen .. MaxLen

StartDecode ==
  /\ MayCall
  /\ \E s \in Slices :
       /\ calls' = calls + 1 /\ op' = "decode" /\ slice' = s /\ fi' = 1
       /\ IF LenAccepted(s) /\ s.lo % BaseAlign = 0
          THEN pc' = "validate" /\ UNCHANGED ret
          ELSE Fail("InvalidInstructionData")
  /\ view' = NoView /\ before' = mem
  /\ UNCHANGED << mem, val, goal, wrote >>

HeaderAt(o, width) == ReadLenHeader(mem, slice.lo + o, width)

\* Fault: a count that exceeds the capacity by one is let through.
ValidateOffByOne(l, o) ==
  IF l.shape = "plain" THEN "ok"
  ELSE IF o + PayloadShift(l) > SliceLen THEN "panic"
  ELSE IF IsOption(l) THEN IF ByteAt(o) \in {0, 1} THEN "ok" ELSE "InvalidInstructionData"
  ELSE IF HeaderAt(o, l.width) <= l.capacity + 1 THEN "ok" ELSE "InvalidInstructionData"

\* __validate_option and __validate_vec_len index the slice before they know
\* that it is long enough.
Validate(l, o) ==
  IF l.shape = "plain" THEN "ok"
  ELSE IF o + PayloadShift(l) > SliceLen THEN "panic"
  ELSE IF IsOption(l) THEN IF ByteAt(o) \in {0, 1} THEN "ok" ELSE "InvalidInstructionData"
  ELSE IF HeaderAt(o, l.width) <= l.capacity THEN "ok" ELSE "InvalidInstructionData"

ValidateField ==
  /\ pc = "validate" /\ fi <= FieldCount
  /\ LET outcome == Validate(layouts[fi], placed[fi])
     IN CASE outcome = "ok"    -> fi' = fi + 1 /\ UNCHANGED << pc, ret >>
          [] outcome = "panic" -> Panic /\ UNCHANGED fi
          [] OTHER             -> Fail(outcome) /\ UNCHANGED fi
  /\ UNCHANGED << mem, calls, op, slice, val, goal, before, view, wrote >>

DecodeDone ==
  /\ pc = "validate" /\ fi > FieldCount
  /\ Return([NoReturn EXCEPT !.res = "ok"])
  /\ view' = [lo |-> slice.lo, hi |-> slice.hi]
  /\ UNCHANGED << mem, calls, callVars, wrote >>

-----------------------------------------------------------------------------
(* The getters of a view. *)

CountAt(l, o) ==
  CASE l.shape = "plain" -> 1
    [] IsOption(l)       -> IF ByteAt(o) # 0 THEN 1 ELSE 0
    [] IsVec(l)          -> HeaderAt(o, l.width)

\* Fault: the payload read from the tag or the header on.
ReadRangeUnshifted(l, o, count) == [lo |-> o, hi |-> o + count * Size(l.kind)]

\* The bytes of the view a getter slices once it knows the count.
ReadRange(l, o, count) ==
  [lo |-> o + PayloadShift(l), hi |-> o + PayloadShift(l) + count * Size(l.kind)]

\* from_bytes and cast_slice panic unless the address is aligned.
CastAligned(l, o) == Borrows(l) => (slice.lo + o) % Align(l.kind) = 0

\* read_copy_expr: any non-zero byte is `true`.
Typed(l, data) ==
  IF l.kind.name = "bool" THEN [k \in DOMAIN data |-> IF data[k] = 0 THEN 0 ELSE 1] ELSE data

\* `op`, `slice` and `goal` are those of the getter in the step itself.
GetOutcome(l, o) ==
  LET count == CountAt(l, o)
      range == ReadRange(l, o, count)
  IN IF o + PayloadShift(l) > SliceLen THEN NoReturn
     ELSE IF count = 0 /\ IsOption(l) THEN [res |-> "ok", count |-> 0, data |-> << >>]
     ELSE IF range.hi > SliceLen \/ ~CastAligned(l, range.lo) THEN NoReturn
     ELSE [res |-> "ok", count |-> count,
           data |-> Typed(l, Bytes(mem, slice.lo + range.lo, slice.lo + range.hi))]

StartGet ==
  /\ MayCall /\ view # NoView
  /\ \E g \in 1 .. FieldCount : goal' = g
  /\ calls' = calls + 1 /\ op' = "get" /\ pc' = "read" /\ slice' = view /\ before' = mem
  /\ UNCHANGED << mem, val, fi, view, ret, wrote >>

GetRead ==
  /\ pc = "read"
  /\ LET outcome == GetOutcome(layouts[goal], placed[goal])
     IN IF outcome = NoReturn THEN Panic ELSE Return(outcome)
  /\ UNCHANGED << mem, calls, callVars, view, wrote >>

-----------------------------------------------------------------------------
\* The steps of a call that is running, without those of its caller.
Running == WriteField \/ EncodeDone \/ ValidateField \/ DecodeDone \/ GetRead

CodecNext == StartEncodeTo \/ StartEncode \/ StartDecode \/ StartGet \/ Running

Stopped ==
  /\ \/ phase = "rejected"
     \/ phase = "emitted" /\ pc = "idle" /\ calls = MaxCalls
     \/ pc = "panic"
  /\ UNCHANGED vars

Init == ExpandInit /\ CodecInit

Next ==
  \/ ExpandNext /\ UNCHANGED codecVars
  \/ phase = "emitted" /\ CodecNext /\ UNCHANGED expandVars
  \/ Stopped

Spec == Init /\ [][Next]_vars

-----------------------------------------------------------------------------
(* Properties. *)

(* Type correctness of the codec state.                                    *)
FixedCodecTypeOK ==
  /\ mem \in Memory /\ before \in Memory
  /\ calls \in 0 .. MaxCalls
  /\ pc \in {"idle", "write", "validate", "read", "panic"}
  /\ op \in {"none", "encode_to", "encode", "decode", "get"}
  /\ slice \in Slice /\ val \in Seq(FieldValue)
  /\ fi \in Nat \ {0} /\ goal \in Nat \ {0}
  /\ view \in [lo : Nat, hi : Int]
  /\ wrote \in [lo : Nat, hi : Int, val : Seq(FieldValue)]
  /\ ret \in [res : {"none", "ok", "InvalidRealloc", "InvalidInstructionData"},
              count : Nat, data : Seq(Byte)]

Returned(name) == op = name /\ pc = "idle"
TailLayout == layouts[FieldCount]
TailStart == placed[FieldCount]

\* A trailing value that its header can announce and that is not absent.
TailReadable(v) ==
  HasTail => LET count == v[FieldCount].count
             IN count > 0 /\ (IsVec(TailLayout) => count <= HeaderMax(TailLayout.width))

(* The only slices the generated code indexes without knowing their length *)
(* are too short ones given to encode_to, and the trailing field of a      *)
(* #[flexible] struct: a header that is not there, or elements it          *)
(* announces that are not.  Nothing else panics, for any bytes, and encode *)
(* never does.                                                             *)
PanicsOnlyAtTail ==
  pc = "panic" =>
    \/ op = "encode_to" /\ SliceLen < EncodeBufLen(val)
    \/ op = "decode" /\ HasTail /\ SliceLen < MinLen + PayloadShift(TailLayout)
    \/ /\ op = "get" /\ HasTail /\ goal = FieldCount
       /\ SliceLen < MinLen + PayloadShift(TailLayout) + CountAt(TailLayout, TailStart) * Size(TailLayout.kind)

(* A getter stays in the slot of its own field: with any bytes decode lets *)
(* through, the elements a header announces are not those of a later       *)
(* field, and a tag never makes an option longer than its slot.            *)
ReadsStayInSlot ==
  Returned("get") /\ goal < FieldCount =>
    ReadRange(layouts[goal], placed[goal], ret.count).hi <= placed[goal + 1]

(* An encoding fills its slots: the bytes from its start to its end are    *)
(* those of the fields in turn, each exactly as long as its slot, so that  *)
(* nothing an earlier use of the buffer left shows through.                *)
EncodingCoversSlots ==
  wrote # NoEncoding =>
    \A i \in 1 .. FieldCount :
      LET end == wrote.lo + IF i < FieldCount THEN OFFSETS[i + 1]
                            ELSE EncodeBufLen(wrote.val)
      IN Bytes(mem, wrote.lo + OFFSETS[i], end) = FieldBytes(layouts[i], wrote.val[i])

\* Where field i starts in the encoding of v, and where the last one ends.
Reached(v, i) == IF i <= FieldCount THEN placed[i] ELSE EncodeBufLen(v)

\* The fields before fi are in the buffer, each to the end of its slot, and the
\* buffer is otherwise what it was before the call.
WrittenSoFar ==
  /\ \A i \in 1 .. fi - 1 :
       Bytes(mem, slice.lo + placed[i], slice.lo + Reached(val, i + 1)) =
         FieldBytes(layouts[i], val[i])
  /\ \A a \in DOMAIN mem :
       a \notin slice.lo .. slice.lo + Reached(val, fi) - 1 => mem[a] = before[a]

(* encode_to is refused halfway: at a Vec that exceeds its capacity, the   *)
(* fields before it are completely in the buffer and every other byte is   *)
(* what it was; when it succeeds that is so of all fields, and nothing     *)
(* outside the struct's own bytes changes.                                 *)
FailedEncodeWritesPrefix ==
  Returned("encode_to") =>
    /\ WrittenSoFar
    /\ IF ret.res = "ok" THEN fi = FieldCount + 1 ELSE OverCapacity(layouts[fi], val[fi])

(* A buffer of any length that decode documents as acceptable is decoded   *)
(* or refused, never indexed out of its bounds (the log line of decode:    *)
(* `which needs at least {} or at most {}`).                               *)
AcceptedLengthDecodes ==
  op = "decode" /\ LenAccepted(slice) => pc # "panic"

(* encode never produces more than MAX_DATA_LEN bytes: the length of a     *)
(* #[flexible = N] Vec is encoded in N bytes.                              *)
EncodedWithinMax == wrote # NoEncoding => wrote.hi - wrote.lo <= MaxLen

(* A trailing field that was absent when it was encoded reads as absent:   *)
(* for an empty Vec there is no buffer to write anything to.               *)
AbsentTailReadsAbsent ==
  /\ Returned("get") /\ wrote # NoEncoding /\ view.lo = wrote.lo
  /\ HasTail /\ goal = FieldCount /\ wrote.val[goal].count = 0
  => ret.count = 0
=============================================================================
