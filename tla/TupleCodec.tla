------------------------------- MODULE TupleCodec -------------------------------
(***************************************************************************)
(* The traits of layout.rs put together by their users: a tuple of values  *)
(* encoded one behind the other into one buffer, and a reader that takes   *)
(* them apart again with decode_prefix, decode for the last of them, or    *)
(* Option<T>::decode when it may be missing.                               *)
(*                                                                         *)
(* The elements are structs of the variable layout.  A value is what their *)
(* Encodable promises: its own bytes, or that it exceeds a capacity        *)
(* (VariableCodec: EncodeAtomic, RoundTrip).  A type is the set of the     *)
(* bytes that stand for its values; that of a PrefixDecodable type is      *)
(* prefix-free (VariableCodec: TruncationRejected).  A decoder refuses a   *)
(* slice at an address other than the buffer_offset declared, and some     *)
(* encodings whatever their address (VariableCodec: AcceptsOwnEncoding).   *)
(*                                                                         *)
(* A tuple nested in another is written as its elements in their place:    *)
(* `Tuples` holds the flat ones, of any length.                            *)
(*                                                                         *)
(* A definition marked "Fault" is how the definition after it would read   *)
(* with a mistake in it; it is not part of the model.                      *)
(***************************************************************************)
EXTENDS Integers, Sequences, SequencesExt

CONSTANTS
  Byte,            \* the values of a byte
  Codes,           \* the encodings of each type
  Taken,           \* those in which its decoder finds every payload aligned
  SelfDelimiting,  \* the PrefixDecodable types; the others decode exact slices
  BufferOffset,    \* where each type is decoded: an address modulo BaseAlign
  BaseAlign,       \* the modulus of buffer_offset
  WordMax,         \* the largest usize
  InitialMems,     \* the contents of the buffer before the first call
  Slices,          \* the slices [lo, hi) of it that callers pass
  Tuples,          \* the tuples they encode: values [type, code, fits]
  Readers,         \* what they read: the types, and whether the last is optional
  MaxCalls         \* calls made in a behavior

Addresses == 0 .. WordMax - 1
Types == DOMAIN Codes
Element == [type : Types, code : Seq(Byte), fits : BOOLEAN]
Reader == [types : Seq(Types) \ {<< >>}, optional : BOOLEAN]
Unaligned == -1      \* buffer_offset = unaligned

ASSUME TupleCodesAssumption ==
  /\ WordMax \in Nat \ {0} /\ 0 \in Byte /\ \A t \in Types : Codes[t] \subseteq Seq(Byte)
  /\ SelfDelimiting \subseteq Types /\ BaseAlign \in Nat \ {0}
  /\ \A t \in Types : /\ Taken[t] \subseteq Codes[t]
                      /\ BufferOffset[t] \in {Unaligned} \cup 0 .. BaseAlign - 1
  /\ \A t \in SelfDelimiting : \A c, d \in Codes[t] : IsPrefix(c, d) => c = d
ASSUME TupleCallsAssumption ==
  /\ InitialMems \subseteq [Addresses -> Byte] /\ MaxCalls \in Nat
  /\ Slices \subseteq [lo : 0 .. WordMax, hi : 0 .. WordMax]
  /\ \A s \in Slices : s.lo <= s.hi
  /\ Tuples \subseteq Seq(Element) /\ \A v \in Tuples : Len(v) # 0
  /\ \A v \in Tuples : \A i \in DOMAIN v : v[i].fits => v[i].code \in Codes[v[i].type]
  /\ Readers \subseteq Reader
  /\ \A r \in Readers : \A k \in 1 .. Len(r.types) - 1 : r.types[k] \in SelfDelimiting

VARIABLES
  mem,     \* the buffer
  base,    \* its address modulo BaseAlign
  calls,   \* calls started
  pc,      \* idle, len, write or read
  op,      \* the running or the last call: encode, encode_to or read
  slice,   \* the slice it was given, or allocated
  tuple,   \* the tuple being encoded
  reader,  \* what is being read
  k,       \* the element it is at
  len,     \* the local variable `len` of encoded_len
  rest,    \* start of `out`, of the bytes not written or not read yet
  ret,     \* what the last call returned: result and views
  wrote,   \* history: the last tuple encoded completely, or NoTuple
  before   \* history: the buffer when the running call started

vars == << mem, base, calls, pc, op, slice, tuple, reader, k, len, rest, ret, wrote, before >>
argVars == << calls, op, tuple, reader, before >>
callVars == << base, argVars >>

NoTuple == [lo |-> 0, hi |-> -1, tuple |-> << >>]
NoReader == [types |-> << >>, optional |-> FALSE]
NoView == << >>     \* the view of an absent option
Views == {NoView} \cup {<< c >> : c \in UNION {Codes[t] : t \in Types}}

Bytes(m, from, to) == [i \in 1 .. to - from |-> m[from + i - 1]]
Write(m, a, bytes) ==
  [x \in DOMAIN m |-> IF x \in a .. a + Len(bytes) - 1 THEN bytes[x - a + 1] ELSE m[x]]
Concatenated(v) == FlattenSeq([i \in 1 .. Len(v) |-> v[i].code])

Init ==
  /\ mem \in InitialMems /\ base \in 0 .. BaseAlign - 1 /\ calls = 0 /\ pc = "idle" /\ op = "none"
  /\ slice = [lo |-> 0, hi |-> 0] /\ tuple = << >> /\ reader = NoReader
  /\ k = 1 /\ len = 0 /\ rest = 0
  /\ ret = [res |-> "none", views |-> << >>] /\ wrote = NoTuple /\ before = mem

Start(name, s) ==
  /\ pc = "idle" /\ calls < MaxCalls /\ calls' = calls + 1
  /\ op' = name /\ slice' = s /\ k' = 1 /\ len' = 0 /\ rest' = s.lo
  /\ before' = mem /\ ret' = [res |-> "none", views |-> << >>] /\ UNCHANGED << mem, base >>

Return(res) == pc' = "idle" /\ ret' = [ret EXCEPT !.res = res]

-----------------------------------------------------------------------------
(* encode: encoded_len of the tuple, then encode_to into a buffer of that  *)
(* length, which takes the place of the one in use; a Vec<u8> may be at    *)
(* any address.                                                            *)

StartEncode ==
  /\ \E v \in Tuples : tuple' = v
  /\ Start("encode", [lo |-> 0, hi |-> 0]) /\ pc' = "len"
  /\ UNCHANGED << reader, wrote >>

\* Fault: the sum exceeds the word.
AddLenUnbounded(n) == len' = len + n /\ k' = k + 1 /\ UNCHANGED << pc, ret >>

\* Fault: the sum wraps.
AddLenWrapping(n) ==
  len' = (len + n) % (WordMax + 1) /\ k' = k + 1 /\ UNCHANGED << pc, ret >>

\* checked_add
AddLen(n) ==
  IF len + n > WordMax
  THEN Return("LengthExceedsCapacity") /\ UNCHANGED << k, len >>
  ELSE len' = len + n /\ k' = k + 1 /\ UNCHANGED << pc, ret >>

ElementLen ==
  /\ pc = "len" /\ k <= Len(tuple)
  /\ IF tuple[k].fits THEN AddLen(Len(tuple[k].code))
     ELSE Return("LengthExceedsCapacity") /\ UNCHANGED << k, len >>
  /\ UNCHANGED << mem, callVars, slice, rest, wrote >>

Allocate ==
  /\ pc = "len" /\ k > Len(tuple)
  /\ slice' = [lo |-> 0, hi |-> len]
  /\ mem' = Write(mem, 0, [i \in 1 .. len |-> 0])
  /\ base' \in 0 .. BaseAlign - 1
  /\ pc' = "write" /\ k' = 1 /\ wrote' = NoTuple
  /\ UNCHANGED << argVars, len, rest, ret >>

-----------------------------------------------------------------------------
(* encode_to: every element is given what the one before it left.          *)

StartEncodeTo ==
  /\ \E s \in Slices, v \in Tuples : Start("encode_to", s) /\ tuple' = v
  /\ pc' = "write" /\ wrote' = NoTuple
  /\ UNCHANGED reader

\* Fault: every element is given the whole slice.
NextRestWhole(n) == slice.lo

NextRest(n) == rest + n

WriteElement ==
  /\ pc = "write" /\ k <= Len(tuple)
  /\ LET e == tuple[k]
     IN IF ~e.fits THEN Return("LengthExceedsCapacity") /\ UNCHANGED << mem, k, rest >>
        ELSE IF slice.hi - rest < Len(e.code)
        THEN Return("OutputBufferTooSmall") /\ UNCHANGED << mem, k, rest >>
        ELSE /\ mem' = Write(mem, rest, e.code)
             /\ rest' = NextRest(Len(e.code)) /\ k' = k + 1
             /\ UNCHANGED << pc, ret >>
  /\ UNCHANGED << callVars, slice, len, wrote >>

WriteDone ==
  /\ pc = "write" /\ k > Len(tuple)
  /\ Return("ok")
  /\ wrote' = [lo |-> slice.lo, hi |-> rest, tuple |-> tuple]
  /\ UNCHANGED << mem, callVars, slice, k, len, rest >>

-----------------------------------------------------------------------------
(* Reading: decode_prefix of all elements but the last.                    *)

StartRead ==
  /\ \E s \in Slices, r \in Readers : Start("read", s) /\ reader' = r
  /\ pc' = "read"
  /\ UNCHANGED << tuple, wrote >>

Input == Bytes(mem, rest, slice.hi)
LastOne == k = Len(reader.types)

\* buffer_offset_validation: a slice from a on is where the type may be decoded.
AtOffset(t, a) == BufferOffset[t] \in {Unaligned, (base + a) % BaseAlign}

\* Fault: the address the reader started at is checked for every element.
AcceptedAtStart(t) == IF AtOffset(t, slice.lo) THEN Taken[t] ELSE {}

\* What the decoder of a type takes where the reader is.
Accepted(t) == IF AtOffset(t, rest) THEN Taken[t] ELSE {}

CodesInFront(t) == {c \in Accepted(t) : IsPrefix(c, Input)}

ReadPrefix ==
  /\ pc = "read" /\ ~LastOne
  /\ IF CodesInFront(reader.types[k]) = {} THEN Return("refused") /\ UNCHANGED << k, rest >>
     ELSE \E c \in CodesInFront(reader.types[k]) :
            /\ rest' = rest + Len(c) /\ k' = k + 1
            /\ ret' = [ret EXCEPT !.views = Append(@, << c >>)] /\ UNCHANGED pc
  /\ UNCHANGED << mem, callVars, slice, len, wrote >>

\* Fault: the bytes decode_prefix leaves over ignored.
ExactCodesLax(t) == IF t \in SelfDelimiting THEN CodesInFront(t) ELSE Accepted(t) \cap {Input}

\* Decodable::decode; for a PrefixDecodable type, decode_prefix and nothing left.
ExactCodes(t) ==
  IF t \in SelfDelimiting THEN {c \in CodesInFront(t) : rest + Len(c) = slice.hi}
                          ELSE Accepted(t) \cap {Input}

\* Option<T>::decode: an empty slice is None, at any address.
Absent == Input = << >>

ReadLast ==
  /\ pc = "read" /\ LastOne
  /\ IF reader.optional /\ Absent
     THEN ret' = [res |-> "ok", views |-> Append(ret.views, NoView)] /\ pc' = "idle"
     ELSE IF ExactCodes(reader.types[k]) = {} THEN Return("refused")
     ELSE \E c \in ExactCodes(reader.types[k]) :
            ret' = [res |-> "ok", views |-> Append(ret.views, << c >>)] /\ pc' = "idle"
  /\ UNCHANGED << mem, callVars, slice, k, len, rest, wrote >>

-----------------------------------------------------------------------------
Stopped == pc = "idle" /\ calls = MaxCalls /\ UNCHANGED vars

Next ==
  \/ StartEncode \/ ElementLen \/ Allocate
  \/ StartEncodeTo \/ WriteElement \/ WriteDone
  \/ StartRead \/ ReadPrefix \/ ReadLast
  \/ Stopped

Spec == Init /\ [][Next]_vars

-----------------------------------------------------------------------------
(* Type correctness.                                                       *)
TupleTypeOK ==
  /\ mem \in [Addresses -> Byte] /\ before \in [Addresses -> Byte] /\ base \in 0 .. BaseAlign - 1
  /\ calls \in 0 .. MaxCalls /\ pc \in {"idle", "len", "write", "read"}
  /\ op \in {"none", "encode", "encode_to", "read"}
  /\ slice \in [lo : 0 .. WordMax, hi : 0 .. WordMax]
  /\ tuple \in Tuples \cup {<< >>} /\ reader \in Readers \cup {NoReader}
  /\ k \in Nat \ {0} /\ len \in 0 .. WordMax /\ rest \in 0 .. WordMax
  /\ ret \in [res : {"none", "ok", "LengthExceedsCapacity", "OutputBufferTooSmall", "refused"},
              views : Seq(Views)]
  /\ wrote \in [lo : 0 .. WordMax, hi : -1 .. WordMax, tuple : Tuples \cup {<< >>}]

Returned(name) == op = name /\ pc = "idle"

(* encode is all or nothing: once encoded_len has summed the elements no   *)
(* encode_to fails, and they fill the buffer to its last byte; when it     *)
(* fails, it is for a length, and nothing was allocated or written.        *)
EncodeFillsItsBuffer ==
  Returned("encode") =>
    IF ret.res = "ok"
    THEN rest = slice.hi /\ Bytes(mem, 0, rest) = Concatenated(tuple)
    ELSE ret.res = "LengthExceedsCapacity" /\ mem = before

(* encode_to is not: when an element fails, the buffer holds the complete  *)
(* encodings of the elements before it, and old bytes from there on.       *)
FailedTupleIsPrefix ==
  Returned("encode_to") =>
    /\ (ret.res = "ok") <=> (k = Len(tuple) + 1)
    /\ mem = Write(before, slice.lo, Concatenated(SubSeq(tuple, 1, k - 1)))

(* A reader accepts a slice only as the encodings of its types, one behind *)
(* the other and nothing else, and an absent option only for no bytes.     *)
ReadConsumesAll ==
  Returned("read") /\ ret.res = "ok" =>
    /\ Len(ret.views) = Len(reader.types)
    /\ FlattenSeq(FlattenSeq(ret.views)) = Bytes(mem, slice.lo, slice.hi)

\* The reader has the types of the tuple written, and perhaps one more, which
\* may be absent.
ReadsItsTuple ==
  LET n == Len(wrote.tuple)
  IN /\ wrote # NoTuple /\ slice = [lo |-> wrote.lo, hi |-> wrote.hi]
     /\ \/ Len(reader.types) = n
        \/ reader.optional /\ Len(reader.types) = n + 1
     /\ \A i \in 1 .. n : reader.types[i] = wrote.tuple[i].type

\* The decoder of element i takes it where the tuple was written.
Readable(i) ==
  LET e == wrote.tuple[i]
  IN /\ e.code \in Taken[e.type]
     /\ AtOffset(e.type, wrote.lo + Len(Concatenated(SubSeq(wrote.tuple, 1, i - 1))))

\* The i-th one read is an Option<T> for which no byte was written.
SeenAsNone(i) ==
  /\ reader.optional /\ i = Len(reader.types)
  /\ i <= Len(wrote.tuple) => wrote.tuple[i].code = << >>

(* A tuple reads back as it was written, whichever call wrote it: a reader *)
(* of its types is refused only when an element lies where its type is not *)
(* decoded, or is one that its decoder never takes, and it has shown the   *)
(* elements before.  An option behind the tuple reads as Some exactly when *)
(* it was written, unless its encoding has no bytes at all.                *)
TupleReadsBack ==
  Returned("read") /\ ReadsItsTuple =>
    /\ ret.res = "ok" <=> \A i \in DOMAIN wrote.tuple : Readable(i) \/ SeenAsNone(i)
    /\ \A i \in DOMAIN ret.views :
         ret.views[i] = IF SeenAsNone(i) THEN NoView ELSE << wrote.tuple[i].code >>
=============================================================================
