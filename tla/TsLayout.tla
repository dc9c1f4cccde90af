-------------------------------- MODULE TsLayout --------------------------------
(***************************************************************************)
(* makeLayout of src/ts/layout.ts: a list of fields, skipped bytes and     *)
(* padding, a loop over it that computes the schema and the space, one     *)
(* that decodes a buffer and one that encodes an object.  Each loop has an *)
(* `offset` of its own, moved in a branch per kind.                        *)
(*                                                                         *)
(* A value is its JavaScript class with an integer, or the bytes of a      *)
(* PublicKey; numbers that are no integers are left out.  Sizes are those  *)
(* of the code, on bytes with Radix values.  A throw ends the call with    *)
(* the result "throw".                                                     *)
(*                                                                         *)
(* A definition marked "Fault" is how the definition after it would read   *)
(* with a mistake in it; it is not part of the model.                      *)
(***************************************************************************)
EXTENDS LayoutTypes

CONSTANTS
  DefLists,   \* the lists makeLayout is called with
  Buffers,    \* buffers and
  Objects,    \* objects the caller brings
  Numerals,   \* the PublicKeys whose base58 text JavaScript reads as a number
  MaxCalls    \* calls made in a behavior

FieldKinds == {"u8", "u64", "i64", "pubkey"}
Gaps == {"skip", "padding"}
LayoutItem == [kind : FieldKinds \cup Gaps \cup {"unsupported"}, name : STRING, size : Nat]
JsValue == [class : {"number", "bigint"}, n : Int]
             \cup [class : {"PublicKey"}, bytes : [1 .. PubkeySize -> Byte]]

ASSUME TsInputsAssumption ==
  /\ DefLists \subseteq Seq(LayoutItem) /\ Buffers \subseteq Seq(Byte)
  /\ \A o \in Objects : \A name \in DOMAIN o : name \in STRING /\ o[name] \in JsValue
  /\ Numerals \subseteq [1 .. PubkeySize -> Byte]
  /\ MaxCalls \in Nat /\ Radix % 2 = 0     \* a byte is made of bits

VARIABLES
  defs,    \* the list
  pc,      \* layout, idle, decode, encode, or thrown when there is no layout
  i,       \* the item of the loop
  space,   \* bytes of the layout
  shape,   \* the schema: the class of every name
  calls,   \* calls started
  op,      \* the running or the last call
  offset,  \* the local variable of its loop
  buf,     \* the buffer decode is given, or encode fills
  obj,     \* the object encode is given, or decode fills
  ret,     \* what the last call returned: "ok" or "throw"
  encoded, \* history: object and buffer of the last encode that returned one
  decoded  \* history: the same of decode

vars == << defs, pc, i, space, shape, calls, op, offset, buf, obj, ret,
           encoded, decoded >>
layoutVars == << defs, space, shape >>
historyVars == << encoded, decoded >>

NoObject == [name \in {} |-> 0]
Nothing == [buf |-> << >>, obj |-> NoObject]

Class(kind) ==
  CASE kind = "u8" -> "number" [] kind \in {"u64", "i64"} -> "bigint" [] kind = "pubkey" -> "PublicKey"

ItemSize(f) ==
  CASE f.kind = "u8"           -> 1
    [] f.kind \in {"u64", "i64"} -> 8
    [] f.kind = "pubkey"       -> PubkeySize
    [] f.kind \in Gaps         -> f.size

\* Fault: padding takes no space.
ItemSpaceUnpadded(f) == IF f.kind = "padding" THEN 0 ELSE ItemSize(f)

\* What makeLayout adds to `space`.
ItemSpace(f) == ItemSize(f)

Set(o, name, v) == [x \in DOMAIN o \cup {name} |-> IF x = name THEN v ELSE o[x]]

\* The values of eight bytes, 2^64, those of an i64 from -Words/2 on.
Words == Radix * (Radix * (Radix * (Radix * (Radix * (Radix * (Radix * Radix))))))

\* val[f.name] in JavaScript.
Missing == [class |-> "undefined"]
ValueOf(o, name) == IF name \in DOMAIN o THEN o[name] ELSE Missing

\* What +value of writeUInt8 makes NaN: a missing value, and a PublicKey by its
\* text, unless that is a numeral (of 32 digits and more, beyond every u8).
IsNaN(v) == v.class = "undefined" \/ (v.class = "PublicKey" /\ v.bytes \notin Numerals)

\* What the write method of the field makes of the value it is given: NaN is in
\* no range it refuses, and is stored as 0.  The other methods coerce nothing.
Zero == [class |-> "number", n |-> 0]
ValueFor(f, o) ==
  LET v == ValueOf(o, f.name)
  IN IF f.kind = "u8" /\ IsNaN(v) THEN Zero ELSE v

\* A value its field can hold: the write methods of Buffer throw for others.
Fits(kind, v) ==
  /\ v.class = Class(kind)
  /\ kind = "u8"  => v.n \in Byte
  /\ kind = "u64" => v.n \in 0 .. Words - 1
  /\ kind = "i64" => v.n \in -(Words \div 2) .. Words \div 2 - 1

\* writeUInt8, writeBigUInt64LE, writeBigInt64LE (two's complement) and toBytes().
Encoded(f, v) ==
  IF f.kind = "pubkey" THEN v.bytes
  ELSE LenHeader(IF v.n < 0 THEN v.n + Words ELSE v.n, ItemSize(f))

Unsigned(f, bytes) == ReadLenHeader(bytes, 1, ItemSize(f))

\* Fault: i64 read without its sign.
DecodedUnsigned(f, bytes) ==
  IF f.kind = "pubkey" THEN [class |-> "PublicKey", bytes |-> bytes]
  ELSE [class |-> Class(f.kind), n |-> Unsigned(f, bytes)]

\* readUInt8, readBigUInt64LE, readBigInt64LE and new PublicKey.
Decoded(f, bytes) ==
  IF f.kind = "pubkey" THEN [class |-> "PublicKey", bytes |-> bytes]
  ELSE LET n == Unsigned(f, bytes)
       IN [class |-> Class(f.kind),
           n |-> IF f.kind = "i64" /\ n >= Words \div 2 THEN n - Words ELSE n]

-----------------------------------------------------------------------------
Init ==
  /\ defs \in DefLists /\ pc = "layout" /\ i = 1 /\ space = 0 /\ shape = NoObject
  /\ calls = 0 /\ op = "none" /\ offset = 0 /\ buf = << >> /\ obj = NoObject
  /\ ret = "none" /\ encoded = Nothing /\ decoded = Nothing

Return(res) == pc' = "idle" /\ ret' = res

\* The loop of makeLayout.
AddItem ==
  /\ pc = "layout" /\ i <= Len(defs)
  /\ LET f == defs[i]
     IN IF f.kind = "unsupported"
        THEN pc' = "thrown" /\ UNCHANGED << i, space, shape >>
        ELSE /\ space' = space + ItemSpace(f) /\ i' = i + 1
             /\ shape' = IF f.kind \in Gaps THEN shape ELSE Set(shape, f.name, Class(f.kind))
             /\ UNCHANGED pc
  /\ UNCHANGED << defs, calls, op, offset, buf, obj, ret, historyVars >>

LayoutMade ==
  /\ pc = "layout" /\ i > Len(defs) /\ pc' = "idle"
  /\ UNCHANGED << layoutVars, i, calls, op, offset, buf, obj, ret, historyVars >>

Start(name) ==
  pc = "idle" /\ calls < MaxCalls /\ calls' = calls + 1 /\ op' = name /\ i' = 1 /\ offset' = 0

-----------------------------------------------------------------------------
(* decode: of a buffer the caller has, or the last one encode returned.    *)

LengthAccepted(b) == Len(b) = space

StartDecode ==
  /\ Start("decode")
  /\ \E b \in Buffers \cup {encoded.buf} :
       /\ buf' = b
       /\ IF LengthAccepted(b) THEN pc' = "decode" /\ UNCHANGED ret ELSE Return("throw")
  /\ obj' = NoObject /\ UNCHANGED << layoutVars, historyVars >>

\* The read methods of Buffer throw when they would read past its end; a slice
\* that is too short for a PublicKey is taken to throw as well.
DecodeItem ==
  /\ pc = "decode" /\ i <= Len(defs)
  /\ LET f == defs[i]
         end == offset + ItemSize(f)
     IN IF f.kind \in FieldKinds /\ end > Len(buf)
        THEN Return("throw") /\ UNCHANGED << i, offset, obj >>
        ELSE /\ obj' = IF f.kind \in Gaps THEN obj
                       ELSE Set(obj, f.name, Decoded(f, SubSeq(buf, offset + 1, end)))
             /\ offset' = end /\ i' = i + 1 /\ UNCHANGED << pc, ret >>
  /\ UNCHANGED << layoutVars, calls, op, buf, historyVars >>

\* schema.parse
MatchesSchema(o) ==
  DOMAIN shape \subseteq DOMAIN o /\ \A name \in DOMAIN shape : o[name].class = shape[name]

DecodeDone ==
  /\ pc = "decode" /\ i > Len(defs)
  /\ IF MatchesSchema(obj)
     THEN Return("ok") /\ decoded' = [buf |-> buf, obj |-> obj]
     ELSE Return("throw") /\ UNCHANGED decoded
  /\ UNCHANGED << layoutVars, i, calls, op, offset, buf, obj, encoded >>

-----------------------------------------------------------------------------
(* encode: of an object the caller has, or the last one decode returned.   *)

Zeros(n) == [d \in 1 .. n |-> 0]

StartEncode ==
  /\ Start("encode") /\ pc' = "encode"
  /\ \E o \in Objects \cup {decoded.obj} : obj' = o
  /\ buf' = Zeros(space) /\ UNCHANGED << layoutVars, ret, historyVars >>

\* Fault: padding does not move the offset.
EncodedEndUnpadded(f) == IF f.kind = "padding" THEN offset ELSE offset + ItemSize(f)

EncodedEnd(f) == offset + ItemSize(f)

Overwrite(b, from, bytes) ==
  [d \in DOMAIN b |-> IF d \in from + 1 .. from + Len(bytes) THEN bytes[d - from] ELSE b[d]]

EncodeItem ==
  /\ pc = "encode" /\ i <= Len(defs)
  /\ LET f == defs[i]
         writable == /\ f.kind # "skip"
                     /\ f.kind # "pubkey" => offset + ItemSize(f) <= Len(buf)
                     /\ f.kind \in FieldKinds => Fits(f.kind, ValueFor(f, obj))
         bytes == IF f.kind = "padding" THEN Zeros(f.size) ELSE Encoded(f, ValueFor(f, obj))
     IN IF writable
        THEN /\ buf' = Overwrite(buf, offset, bytes)
             /\ offset' = EncodedEnd(f) /\ i' = i + 1 /\ UNCHANGED << pc, ret >>
        ELSE Return("throw") /\ UNCHANGED << i, offset, buf >>
  /\ UNCHANGED << layoutVars, calls, op, obj, historyVars >>

EncodeDone ==
  /\ pc = "encode" /\ i > Len(defs)
  /\ Return("ok") /\ encoded' = [buf |-> buf, obj |-> obj]
  /\ UNCHANGED << layoutVars, i, calls, op, offset, buf, obj, decoded >>

-----------------------------------------------------------------------------
Stopped == (pc = "thrown") \/ (pc = "idle" /\ calls = MaxCalls)

Next ==
  \/ AddItem \/ LayoutMade
  \/ StartDecode \/ DecodeItem \/ DecodeDone
  \/ StartEncode \/ EncodeItem \/ EncodeDone
  \/ Stopped /\ UNCHANGED vars

Spec == Init /\ [][Next]_vars

-----------------------------------------------------------------------------
(* Properties. *)

Object(o) == \A name \in DOMAIN o : name \in STRING /\ o[name] \in JsValue

(* Type correctness.                                                       *)
TsTypeOK ==
  /\ defs \in DefLists /\ pc \in {"layout", "idle", "decode", "encode", "thrown"}
  /\ i \in Nat \ {0} /\ space \in Nat /\ calls \in 0 .. MaxCalls /\ offset \in 0 .. space
  /\ \A name \in DOMAIN shape : name \in STRING /\ shape[name] \in {"number", "bigint", "PublicKey"}
  /\ op \in {"none", "decode", "encode"} /\ ret \in {"none", "ok", "throw"}
  /\ buf \in Seq(Byte) /\ Object(obj)
  /\ \A past \in {encoded, decoded} : past.buf \in Seq(Byte) /\ Object(past.obj)

Names == {defs[d].name : d \in {e \in DOMAIN defs : defs[e].kind \in FieldKinds}}
NamesDistinct ==
  \A d, e \in DOMAIN defs :
    defs[d].kind \in FieldKinds /\ defs[e].kind \in FieldKinds /\ defs[d].name = defs[e].name => d = e
SkipsNothing == \A d \in DOMAIN defs : defs[d].kind # "skip"

\* The first byte of every item, and the end.
Starts ==
  LET at[d \in 1 .. Len(defs) + 1] == IF d = 1 THEN 0 ELSE at[d - 1] + ItemSize(defs[d - 1])
  IN at

Returned(name) == op = name /\ pc = "idle"

(* The loops of decode and of encode find every item where the other does, *)
(* and end at `space`: a buffer of the right length is always decoded,     *)
(* names used twice or not, and an object whose values fit is encoded      *)
(* unless there is a skip.                                                 *)
LoopsAgree ==
  /\ pc \in {"decode", "encode"} => offset = Starts[i] /\ space = Starts[Len(defs) + 1]
  /\ Returned("decode") /\ Len(buf) = space => ret = "ok"
  /\ Returned("encode") /\ SkipsNothing /\ Names \subseteq DOMAIN obj
       /\ (\A d \in DOMAIN defs : defs[d].kind \in FieldKinds => Fits(defs[d].kind, obj[defs[d].name]))
     => ret = "ok"

(* What encode returned decodes to the object it was given, signs and the  *)
(* names that several fields share included.  One thing does not come back *)
(* as it was: encode checks no schema, and where the schema has a number   *)
(* and the object none, it writes the 0 that is read.                      *)
EncodedReadsBack ==
  Returned("decode") /\ encoded # Nothing /\ buf = encoded.buf =>
    /\ ret = "ok" /\ DOMAIN obj = Names
    /\ \A name \in Names :
         obj[name] = IF shape[name] = "number" /\ ValueOf(encoded.obj, name).class # "number"
                     THEN Zero
                     ELSE encoded.obj[name]

(* What decode returned encodes to the bytes it was read from, up to those *)
(* in the padding, if there is no skip and no name is used twice.          *)
DecodedWritesBack ==
  Returned("encode") /\ decoded # Nothing /\ obj = decoded.obj /\ SkipsNothing /\ NamesDistinct =>
    /\ ret = "ok"
    /\ \A d \in DOMAIN defs, b \in 1 .. space :
         b \in Starts[d] + 1 .. Starts[d + 1] =>
           buf[b] = IF defs[d].kind = "padding" THEN 0 ELSE decoded.buf[b]
=============================================================================
