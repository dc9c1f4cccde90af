------------------------------ MODULE MCAnyBytes ------------------------------
(***************************************************************************)
(* Decoders over every content of a short buffer.  A byte has three values *)
(* (both option tags and one that is neither), values over one byte are    *)
(* borrowed and the base is 2-byte aligned, so that four free bytes hold   *)
(* every tag, header, length and alignment that the code tells apart.  An  *)
(* eight-byte header is small at address 0 and over its capacity at 1.     *)
(***************************************************************************)
EXTENDS VariableCodec

Integer(size) == [name |-> "integer", int |-> size, len |-> 0]
Bool == [name |-> "bool", int |-> 1, len |-> 0]
Key == [name |-> "pubkey", int |-> 1, len |-> 0]
Array(size, len) == [name |-> "array", int |-> size, len |-> len]

Value(k) == [type |-> "value", kind |-> k, flexible |-> << >>]
Option(k) == [type |-> "option", kind |-> k, flexible |-> << >>]
Vec(k, width) == [type |-> "vec", kind |-> k, flexible |-> << width >>]
Tagged(buffer, fields) == [option |-> "tagged", buffer |-> buffer, fields |-> fields]
Implicit(buffer, fields) == [option |-> "implicit", buffer |-> buffer, fields |-> fields]

MCDecls ==
  { Tagged(0, << Vec(Integer(2), 2), Option(Integer(1)) >>),
    Tagged(1, << Option(Integer(2)), Value(Bool) >>),
    Tagged(1, << Value(Integer(1)), Value(Integer(2)), Option(Bool) >>),
    Tagged(Unaligned, << Option(Array(1, 2)), Vec(Integer(1), 1), Value(Bool) >>),
    Tagged(Unaligned, << Vec(Integer(1), 8), Value(Integer(1)) >>),
    Implicit(0, << Option(Integer(1)), Value(Bool), Option(Key) >>) }

Payloads(k, count) ==
  IF k.name = "bool" THEN {[x \in 1 .. count |-> 0], [x \in 1 .. count |-> 1]}
  ELSE {[x \in 1 .. count * Size(k) |-> x % Radix]}

Held(count, k) == {[count |-> count, data |-> d] : d \in Payloads(k, count)}

\* Three elements are one more than a one-byte header can announce.
FieldInputs(f) ==
  CASE f.type = "value"  -> Held(1, f.kind)
    [] f.type = "option" -> Held(0, f.kind) \cup Held(1, f.kind)
    [] f.type = "vec"    -> UNION {Held(c, f.kind) : c \in {0, 1, 3}}

InputsOf(d) ==
  {v \in [1 .. Len(d.fields) -> UNION {FieldInputs(d.fields[i]) : i \in 1 .. Len(d.fields)}] :
     \A i \in 1 .. Len(d.fields) : v[i] \in FieldInputs(d.fields[i])}

MCStructs == UNION {InputsOf(d) : d \in MCDecls}

MCMemLen == 10
MCInitialMems ==
  {[a \in 0 .. MCMemLen - 1 |-> IF a < 4 THEN free[a] ELSE IF a = 8 THEN 1 ELSE 0] :
     free \in [0 .. 3 -> Byte]}

MCSlices == {[lo |-> 0, hi |-> hi] : hi \in {3, 4, 10}}
              \cup {[lo |-> 1, hi |-> hi] : hi \in {5, 10}}
=============================================================================
