----------------------------- MODULE VariableCodec -----------------------------
(***************************************************************************)
(* The code #[variable_offset_layout] generates, run after the expansion   *)
(* that produced its constants: encode_to into a slice of a buffer, decode *)
(* and decode_prefix of a slice, and the getters of the decoded view.      *)
(*                                                                         *)
(* The buffer is a memory of bytes whose address 0 is BaseAlign-aligned.   *)
(* A call takes one step per field, as the generated code has one step per *)
(* field; a Rust panic (slice index, expect, bytemuck cast) is the state   *)
(* pc = "panic".  Buffers are reused: encoding writes over what an earlier *)
(* call left, and decoding reads whatever is there.                        *)
(***************************************************************************)
EXTENDS VariableExpand

CONSTANTS
  MemLen,       \* number of bytes of the buffer
  InitialMems,  \* its contents before the first call
  Slices,       \* the slices [lo, hi) the caller passes
  Structs,      \* the values it encodes: a sequence of field values
  MaxCalls      \* calls made in a behavior

Memory == [0 .. MemLen - 1 -> Byte]
Slice == {s \in [lo : 0 .. MemLen, hi : 0 .. MemLen] : s.lo <= s.hi}

(* The value of a field: how many elements it holds (0 or 1 for an option, *)
(* 1 for a plain value) and their bytes.                                   *)
FieldValue == [count : Nat, data : Seq(Byte)]

ASSUME MemoryAssumption == MemLen \in Nat /\ InitialMems \subseteq Memory
ASSUME CallsAssumption == /\ Slices \subseteq Slice /\ MaxCalls \in Nat
                          /\ Structs \subseteq Seq(FieldValue)

VARIABLES
  mem,     \* the buffer
  calls,   \* calls started
  pc,      \* where the running call is: "idle" between calls
  op,      \* the running or the last call: encode, decode, decode_prefix, get
  slice,   \* the slice it was given
  val,     \* the struct being encoded
  fi,      \* the field it is at
  off,     \* the local variable `offset` (or `len`, in encoded_len)
  lim,     \* end of the slice that encode_to keeps after split_at_mut
  plan,    \* history: where encoded_len, summing, found each field
  at,      \* history: where the loop found each field so far
  goal,    \* the field a getter is asked for
  view,    \* the live view and where its fields were validated, or NoView
  ret,     \* what the last call returned
  wrote,   \* history: the last encoding, or NoEncoding once overwritten
  before   \* history: the buffer when the running call started

callVars == << op, slice, val, fi, off, lim, plan, at, goal, before >>
codecVars == << mem, calls, pc, callVars, view, ret, wrote >>
vars == << expandVars, codecVars >>

NoView == [lo |-> 0, hi |-> -1, at |-> << >>]
NoEncoding == [lo |-> 0, hi |-> -1, val |-> << >>, at |-> << >>]
NoReturn == [res |-> "none", count |-> 0, data |-> << >>, rest |-> 0]

DecodeErrors ==
  {"InvalidBufferOffset", "InvalidDataLength", "InvalidImplicitOptionEncoding",
   "InvalidFieldAlignment", "TruncatedPayload", "MissingOptionTag", "InvalidOptionTag",
   "MissingLengthHeader", "LengthExceedsCapacity", "TruncatedVectorPayload"}
EncodeErrors == {"LengthExceedsCapacity", "OutputBufferTooSmall"}

-----------------------------------------------------------------------------
(* Values and their bytes. *)

IsFieldValue(l, v) ==
  /\ v.count \in (IF l.shape = "plain" THEN {1} ELSE IF l.shape = "vec" THEN Nat ELSE {0, 1})
  /\ Len(v.data) = v.count * Size(l.kind)
  /\ l.kind.name = "bool" /\ v.count = 1 => v.data[1] \in {0, 1}

IsStruct(v) == Len(v) = FieldCount /\ \A i \in 1 .. FieldCount : IsFieldValue(layouts[i], v[i])

\* gen_field_encode_step: the bytes a field is written as.
FieldBytes(l, v) ==
  CASE l.shape = "plain"    -> v.data
    [] l.shape = "tagged"   -> IF v.count = 1 THEN << 1 >> \o v.data ELSE << 0 >>
    [] l.shape = "implicit" -> v.data
    [] l.shape = "vec"      -> LenHeader(v.count, l.width) \o v.data

Write(m, a, bytes) ==
  [x \in DOMAIN m |-> IF x \in a .. a + Len(bytes) - 1 THEN bytes[x - a + 1] ELSE m[x]]

Bytes(m, from, to) == [k \in 1 .. to - from |-> m[from + k - 1]]

-----------------------------------------------------------------------------
CodecInit ==
  /\ mem \in InitialMems /\ calls = 0 /\ pc = "idle" /\ op = "none"
  /\ slice = [lo |-> 0, hi |-> 0] /\ val = << >> /\ fi = 1 /\ off = 0 /\ lim = 0 /\ plan = << >>
  /\ at = << >> /\ goal = 1 /\ view = NoView /\ ret = NoReturn
  /\ wrote = NoEncoding /\ before = mem

MayCall == phase = "emitted" /\ pc = "idle" /\ calls < MaxCalls

Return(r) == pc' = "idle" /\ ret' = r
Fail(error) == Return([NoReturn EXCEPT !.res = error])
Panic == pc' = "panic" /\ UNCHANGED ret
\* The loop moves on to its next field, at offset o.
Advance(o) == fi' = fi + 1 /\ off' = o /\ at' = Append(at, off)

StartLoop(name, s, first) ==
  /\ calls' = calls + 1 /\ op' = name /\ slice' = s
  /\ pc' = first /\ fi' = 1 /\ off' = 0 /\ at' = << >> /\ before' = mem

-----------------------------------------------------------------------------
(* encode_to.  The exclusive borrow of the buffer ends every view of it.   *)

StartEncode ==
  /\ MayCall
  /\ \E s \in Slices, v \in Structs :
       /\ IsStruct(v) /\ val' = v
       /\ StartLoop("encode", s, "len")
  /\ view' = NoView
  /\ UNCHANGED << mem, ret, wrote, lim, plan, goal >>

AddLen ==
  /\ pc = "len" /\ fi <= FieldCount
  /\ LET l == layouts[fi]
     IN IF l.shape = "vec" /\ val[fi].count > Capacity(l.width)
        THEN Fail("LengthExceedsCapacity") /\ UNCHANGED << fi, off, at >>
        ELSE Advance(off + EncodedFieldLen(l, val[fi].count)) /\ UNCHANGED << pc, ret >>
  /\ UNCHANGED << mem, calls, op, slice, val, lim, plan, goal, before, view, wrote >>

CheckRoom ==
  /\ pc = "len" /\ fi > FieldCount
  /\ IF slice.hi - slice.lo < off
     THEN Fail("OutputBufferTooSmall") /\ UNCHANGED << fi, off, lim, plan, at, wrote >>
     ELSE /\ pc' = "write" /\ fi' = 1 /\ off' = 0 /\ lim' = off
          /\ plan' = Append(at, off) /\ at' = << >>
          /\ wrote' = NoEncoding
          /\ UNCHANGED ret
  /\ UNCHANGED << mem, calls, op, slice, val, goal, before, view >>

WriteField ==
  /\ pc = "write" /\ fi <= FieldCount
  /\ LET bytes == FieldBytes(layouts[fi], val[fi])
     IN IF off + Len(bytes) > lim
        THEN Panic /\ UNCHANGED << mem, fi, off, at >>
        ELSE /\ mem' = Write(mem, slice.lo + off, bytes)
             /\ Advance(off + Len(bytes))
             /\ UNCHANGED << pc, ret >>
  /\ UNCHANGED << calls, op, slice, val, lim, plan, goal, before, view, wrote >>

\* Fault: the rest of the slice cleared.
EncodeDoneClearing ==
  /\ pc = "write" /\ fi > FieldCount
  /\ Return([NoReturn EXCEPT !.res = "ok", !.rest = slice.lo + lim])
  /\ wrote' = [lo |-> slice.lo, hi |-> slice.lo + lim, val |-> val, at |-> Append(at, off)]
  /\ mem' = [a \in DOMAIN mem |-> IF a \in slice.lo + lim .. slice.hi - 1 THEN 0 ELSE mem[a]]
  /\ UNCHANGED << calls, callVars, view >>

\* Returns the part of the slice that split_at_mut left over.
EncodeDone ==
  /\ pc = "write" /\ fi > FieldCount
  /\ Return([NoReturn EXCEPT !.res = "ok", !.rest = slice.lo + lim])
  /\ wrote' = [lo |-> slice.lo, hi |-> slice.lo + lim, val |-> val, at |-> Append(at, off)]
  /\ UNCHANGED << mem, calls, callVars, view >>

-----------------------------------------------------------------------------
(* decode and decode_prefix.  Offsets are relative to the slice.           *)

SliceLen == slice.hi - slice.lo
ByteAt(o) == mem[slice.lo + o]
HeaderAt(o, width) == ReadLenHeader(mem, slice.lo + o, width)
Present(l) == l.bit \in MaskForLen(SliceLen)

Ok(o) == [res |-> "ok", end |-> o]
Bad(error) == [res |-> error, end |-> 0]

\* The checks __validate_prefix makes before its loop: the address of the
\* slice, and for an implicit layout its length.
EntryError(s) ==
  LET len == s.hi - s.lo
  IN IF decl.buffer # Unaligned /\ s.lo % BaseAlign # decl.buffer THEN "InvalidBufferOffset"
     ELSE IF decl.option # "implicit" THEN "ok"
     ELSE IF len \notin lens THEN "InvalidDataLength"
     ELSE IF len \notin ImplicitLens THEN "InvalidImplicitOptionEncoding"
     ELSE "ok"

\* A layout that is not self-delimiting has no decode_prefix.
StartDecode ==
  /\ MayCall
  /\ \E s \in Slices, name \in {"decode", "decode_prefix"} :
       /\ decl.option = "implicit" => name = "decode"
       /\ IF EntryError(s) = "ok"
          THEN StartLoop(name, s, "validate") /\ UNCHANGED ret
          ELSE StartLoop(name, s, "idle") /\ ret' = [NoReturn EXCEPT !.res = EntryError(s)]
  /\ view' = NoView
  /\ UNCHANGED << mem, wrote, val, lim, plan, goal >>

\* Fault: the end of the slice unchecked.
ValidatePayloadUnbounded(l, o) ==
  IF IsRef(l.kind) /\ o % Align(l.kind) # 0 THEN Bad("InvalidFieldAlignment")
  ELSE Ok(o + Size(l.kind))

\* The payload of a value starts at offset o.
ValidatePayload(l, o) ==
  IF IsRef(l.kind) /\ o % Align(l.kind) # 0 THEN Bad("InvalidFieldAlignment")
  ELSE IF o + Size(l.kind) > SliceLen THEN Bad("TruncatedPayload")
  ELSE Ok(o + Size(l.kind))

\* Fault: every tag but 0 means present, as it does for the getters.
ValidateTaggedAnyTag(l, o) ==
  IF o >= SliceLen THEN Bad("MissingOptionTag")
  ELSE IF ByteAt(o) = 0 THEN Ok(o + 1)
  ELSE ValidatePayload(l, o + 1)

ValidateTagged(l, o) ==
  IF o >= SliceLen THEN Bad("MissingOptionTag")
  ELSE IF ByteAt(o) = 0 THEN Ok(o + 1)
  ELSE IF ByteAt(o) = 1 THEN ValidatePayload(l, o + 1)
  ELSE Bad("InvalidOptionTag")

\* Fault: a Vec that does not fit is cut at the end of the slice.
ValidateVecClamped(l, o) ==
  LET start == o + l.width
      end == start + HeaderAt(o, l.width) * Size(l.kind)
  IN IF start > SliceLen THEN Bad("MissingLengthHeader")
     ELSE IF start % Align(l.kind) # 0 THEN Bad("InvalidFieldAlignment")
     ELSE Ok(IF end > SliceLen THEN SliceLen ELSE end)

\* Fault: the end computed from a count that may exceed the capacity.
ValidateVecUncapped(l, o) ==
  LET start == o + l.width
      len == HeaderAt(o, l.width)
      end == start + len * Size(l.kind)
  IN IF start > SliceLen THEN Bad("MissingLengthHeader")
     ELSE IF len # 0 /\ start % Align(l.kind) # 0 THEN Bad("InvalidFieldAlignment")
     ELSE IF end > SliceLen THEN Bad("TruncatedVectorPayload")
     ELSE Ok(end)

ValidateVec(l, o) ==
  LET start == o + l.width
      len == HeaderAt(o, l.width)
      end == start + len * Size(l.kind)
  IN IF start > SliceLen THEN Bad("MissingLengthHeader")
     ELSE IF len > Capacity(l.width) THEN Bad("LengthExceedsCapacity")
     ELSE IF len # 0 /\ start % Align(l.kind) # 0 THEN Bad("InvalidFieldAlignment")
     ELSE IF end > SliceLen THEN Bad("TruncatedVectorPayload")
     ELSE Ok(end)

\* gen_validate_step.
Validate(l, o) ==
  CASE l.shape = "plain"    -> ValidatePayload(l, o)
    [] l.shape = "tagged"   -> ValidateTagged(l, o)
    [] l.shape = "implicit" -> IF SliceLen \notin ImplicitLens THEN Bad("panic")
                               ELSE IF Present(l) THEN ValidatePayload(l, o) ELSE Ok(o)
    [] l.shape = "vec"      -> ValidateVec(l, o)

ValidateField ==
  /\ pc = "validate" /\ fi <= FieldCount
  /\ LET outcome == Validate(layouts[fi], off)
     IN \/ outcome.res = "ok" /\ Advance(outcome.end) /\ UNCHANGED << pc, ret >>
        \/ /\ outcome.res # "ok"
           /\ IF outcome.res = "panic" THEN Panic ELSE Fail(outcome.res)
           /\ UNCHANGED << fi, off, at >>
  /\ UNCHANGED << mem, calls, op, slice, val, lim, plan, goal, before, view, wrote >>

\* decode wants the whole slice, decode_prefix splits the rest off
\* (split_at panics past the end).
DecodeDone ==
  /\ pc = "validate" /\ fi > FieldCount
  /\ IF decl.option # "implicit" /\ off > SliceLen
     THEN Panic /\ UNCHANGED view
     ELSE IF op = "decode" /\ off # SliceLen
     THEN Fail("InvalidDataLength") /\ UNCHANGED view
     ELSE /\ Return([NoReturn EXCEPT !.res = "ok", !.rest = slice.lo + off])
          /\ view' = [lo |-> slice.lo, hi |-> slice.lo + off, at |-> Append(at, off)]
  /\ UNCHANGED << mem, calls, callVars, wrote >>

-----------------------------------------------------------------------------
(* The getters of a view, run on `slice` = the bytes of the view.          *)

InSlice(from, to) == from <= to /\ to <= SliceLen

\* find_data_offset: the last field at or before g with a fixed offset.
WalkFrom(g) ==
  CHOOSE b \in 1 .. g : offsets[b] # Variable /\ \A k \in b + 1 .. g : offsets[k] = Variable

StartGet ==
  /\ MayCall /\ view # NoView
  /\ calls' = calls + 1 /\ op' = "get" /\ pc' = "walk"
  /\ slice' = [lo |-> view.lo, hi |-> view.hi] /\ at' = << >> /\ before' = mem
  /\ \E g \in 1 .. FieldCount :
       goal' = g /\ fi' = WalkFrom(g) /\ off' = offsets[WalkFrom(g)]
  /\ UNCHANGED << mem, val, lim, plan, view, ret, wrote >>

\* The bytes a walk or a read touches to learn whether, and how many times,
\* the field at offset o is present.
CanCount(l, o) ==
  CASE l.shape = "plain"    -> TRUE
    [] l.shape = "tagged"   -> o < SliceLen
    [] l.shape = "implicit" -> SliceLen \in ImplicitLens
    [] l.shape = "vec"      -> InSlice(o, o + l.width)

Count(l, o) ==
  CASE l.shape = "plain"    -> 1
    [] l.shape = "tagged"   -> IF ByteAt(o) # 0 THEN 1 ELSE 0
    [] l.shape = "implicit" -> IF Present(l) THEN 1 ELSE 0
    [] l.shape = "vec"      -> HeaderAt(o, l.width)

\* Fault: an implicit option stepped over although it is absent.
WalkLenAlwaysPresent(l, o) ==
  CASE l.shape \in {"plain", "implicit"} -> Size(l.kind)
    [] l.shape = "tagged" -> IF ByteAt(o) = 0 THEN 1 ELSE 1 + Size(l.kind)
    [] l.shape = "vec"    -> l.width + HeaderAt(o, l.width) * Size(l.kind)

\* The term a getter adds to step over the field at offset o.
WalkLen(l, o) ==
  CASE l.shape = "plain"    -> Size(l.kind)
    [] l.shape = "tagged"   -> IF ByteAt(o) = 0 THEN 1 ELSE 1 + Size(l.kind)
    [] l.shape = "implicit" -> IF Present(l) THEN Size(l.kind) ELSE 0
    [] l.shape = "vec"      -> l.width + HeaderAt(o, l.width) * Size(l.kind)

GetStep ==
  /\ pc = "walk" /\ fi < goal
  /\ LET l == layouts[fi]
     IN IF CanCount(l, off)
        THEN fi' = fi + 1 /\ off' = off + WalkLen(l, off) /\ UNCHANGED << pc, ret >>
        ELSE Panic /\ UNCHANGED << fi, off >>
  /\ UNCHANGED << mem, calls, op, slice, val, lim, plan, at, goal, before, view, wrote >>

\* from_bytes and cast_slice panic unless the address is aligned.
CastAligned(l, o) ==
  l.shape = "vec" \/ IsRef(l.kind) => (slice.lo + o) % Align(l.kind) = 0

\* read_copy_expr: any non-zero byte is `true`.
Typed(l, data) ==
  IF l.kind.name = "bool" THEN [k \in 1 .. Len(data) |-> IF data[k] = 0 THEN 0 ELSE 1]
                          ELSE data

\* Fault: the payload read from where the field starts.
ReadBytesUnshifted(l, o, count) ==
  Typed(l, Bytes(mem, slice.lo + o, slice.lo + o + count * Size(l.kind)))

ReadBytes(l, o, count) ==
  LET start == slice.lo + o + PayloadShift(l)
  IN Typed(l, Bytes(mem, start, start + count * Size(l.kind)))

GetRead ==
  /\ pc = "walk" /\ fi = goal
  /\ LET l == layouts[fi]
         count == Count(l, off)
         start == off + PayloadShift(l)
     IN IF /\ CanCount(l, off)
           /\ count # 0 => /\ InSlice(start, start + count * Size(l.kind))
                           /\ CastAligned(l, start)
        THEN Return([NoReturn EXCEPT !.res = "ok", !.count = count,
                                     !.data = ReadBytes(l, off, count)])
        ELSE Panic
  /\ UNCHANGED << mem, calls, callVars, view, wrote >>

-----------------------------------------------------------------------------
CodecNext ==
  \/ StartEncode \/ AddLen \/ CheckRoom \/ WriteField \/ EncodeDone
  \/ StartDecode \/ ValidateField \/ DecodeDone
  \/ StartGet \/ GetStep \/ GetRead

\* A struct that does not compile is never called, and a behavior makes
\* MaxCalls calls; a panic unwinds out of the program.
Stopped ==
  /\ \/ phase = "rejected"
     \/ phase = "emitted" /\ pc = "idle" /\ calls = MaxCalls
     \/ pc = "panic"
  /\ UNCHANGED vars

Init == ExpandInit /\ CodecInit

Next ==
  \/ ExpandNext /\ UNCHANGED codecVars
  \/ phase = "emitted" /\ CodecNext /\ UNCHANGED expandVars
  \/ Stopped

Spec == Init /\ [][Next]_vars

-----------------------------------------------------------------------------
(* Properties. *)

(* Type correctness of the codec state.                                    *)
CodecTypeOK ==
  /\ mem \in Memory /\ before \in Memory
  /\ calls \in 0 .. MaxCalls
  /\ pc \in {"idle", "len", "write", "validate", "walk", "panic"}
  /\ op \in {"none", "encode", "decode", "decode_prefix", "get"}
  /\ slice \in Slice /\ val \in Seq(FieldValue)
  /\ fi \in Nat \ {0} /\ off \in Nat /\ lim \in Nat
  /\ plan \in Seq(Nat) /\ goal \in Nat \ {0}
  /\ at \in Seq(Nat)
  /\ view \in [lo : Nat, hi : Int, at : Seq(Nat)]
  /\ wrote \in [lo : Nat, hi : Int, val : Seq(FieldValue), at : Seq(Nat)]
  /\ ret \in [res : {"none", "ok"} \cup DecodeErrors \cup EncodeErrors,
              count : Nat, data : Seq(Byte), rest : Nat]

Returned(name) == op = name /\ pc = "idle"
LegalAddress(a) == decl.buffer = Unaligned \/ a % BaseAlign = decl.buffer

(* No call panics, whatever bytes a decoder is given: no slice index of    *)
(* the generated code is out of range, no reference it casts is misaligned *)
(* and no `expect` fails.                                                  *)
NoPanic == pc # "panic"

(* encoded_len and the write steps agree: encode_to writes each field      *)
(* where encoded_len counted it, and ends where split_at_mut cut the slice.*)
WritesAsCounted ==
  pc = "write" => off = plan[fi] /\ lim = plan[FieldCount + 1]

(* encode_to is all or nothing: a call that fails leaves the buffer as it  *)
(* was, and one that succeeds changes nothing outside its own encoding.    *)
EncodeAtomic ==
  Returned("encode") =>
    /\ ret.res # "ok" => mem = before
    /\ \A a \in DOMAIN mem : a \notin wrote.lo .. wrote.hi - 1 /\ ret.res = "ok"
                             => mem[a] = before[a]

\* The slice just decoded is one the last encoding is meant to be read from.
DecodedOwnEncoding ==
  /\ wrote # NoEncoding /\ LegalAddress(wrote.lo) /\ slice.lo = wrote.lo
  /\ \/ Returned("decode") /\ slice.hi = wrote.hi
     \/ Returned("decode_prefix") /\ slice.hi >= wrote.hi

(* Every value a struct accepts can be read back at the buffer_offset the  *)
(* struct declares: its encoding decodes, and nothing but it is consumed.  *)
OwnEncodingDecodes ==
  DecodedOwnEncoding => ret.res = "ok" /\ view.hi = wrote.hi

\* A borrowed field for which the two alignment checks differ: the macro adds
\* buffer_offset to the offset of the payload, the decoder does not.
ChecksDisagree == \E i \in 1 .. FieldCount :
  Borrows(layouts[i]) /\ decl.buffer # Unaligned /\ decl.buffer % Align(layouts[i].kind) # 0

(* An encoding decodes field by field at the offsets it was written at,    *)
(* even in a reused buffer or in front of other bytes.  The one exception  *)
(* is the alignment check of a struct with ChecksDisagree.                 *)
RoundTrip ==
  DecodedOwnEncoding =>
    \/ ret.res = "ok" /\ view.hi = wrote.hi /\ view.at = wrote.at
    \/ ret.res = "InvalidFieldAlignment" /\ ChecksDisagree

(* A getter finds each field where the decoder validated it, for any bytes *)
(* the decoder accepts: it reads tags and headers again without checks.    *)
WalkFollowsValidation == pc = "walk" => off = view.at[fi]

(* The decoder accepts only encodings: the bytes of every field it         *)
(* validated are the bytes the encoder writes for the value the getter     *)
(* reads there.  A bool is left out: any non-zero byte reads as true.      *)
DecodesOnlyEncodings ==
  view # NoView =>
    \A i \in {j \in 1 .. FieldCount : layouts[j].kind.name # "bool"} :
      LET l == layouts[i]
          o == view.at[i]
          v == [count |-> Count(l, o), data |-> ReadBytes(l, o, Count(l, o))]
      IN /\ IsFieldValue(l, v)
         /\ l.shape = "vec" => v.count <= Capacity(l.width)
         /\ FieldBytes(l, v) = Bytes(mem, view.lo + o, view.lo + view.at[i + 1])

(* A self-delimiting encoding that was cut short is never mistaken for     *)
(* another value: every proper prefix of it is refused.                    *)
TruncationRejected ==
  /\ op \in {"decode", "decode_prefix"} /\ pc = "idle" /\ decl.option = "tagged"
  /\ wrote # NoEncoding /\ slice.lo = wrote.lo /\ slice.hi < wrote.hi
  => ret.res # "ok"

(* Every encoding at a legal address holds its borrowed payloads aligned:  *)
(* what the macro promised of all encodings, of the one that was written.  *)
EncodedAligned ==
  wrote # NoEncoding /\ LegalAddress(wrote.lo) =>
    \A i \in 1 .. FieldCount :
      Borrows(layouts[i]) /\ wrote.val[i].count > 0 =>
        (wrote.lo + wrote.at[i] + PayloadShift(layouts[i])) % Align(layouts[i].kind) = 0

(* The decoder's sums stay within MAX_DATA_LEN, a constant the compiler    *)
(* evaluates: no header makes it compute an end that lies beyond every     *)
(* encoding, so that with a usize that holds the constant none wraps.      *)
DecoderSumsBounded ==
  pc = "validate" /\ fi <= FieldCount =>
    LET l == layouts[fi]
    IN l.shape = "vec" /\ Validate(l, off).res \in {"ok", "TruncatedVectorPayload"} =>
         off + l.width + HeaderAt(off, l.width) * Size(l.kind) <= maxLen
=============================================================================
