----------------------------- MODULE MCRoundTrip -----------------------------
(***************************************************************************)
(* Encode, decode and read back at the real sizes: 8-byte aligned buffers, *)
(* values over eight bytes borrowed, 256 values of a byte.  The structs    *)
(* are small but hold every shape, every access mode and the fields whose  *)
(* order matters; the buffer is reused from call to call.                  *)
(***************************************************************************)
EXTENDS VariableContract

Integer(size) == [name |-> "integer", int |-> size, len |-> 0]
Bool == [name |-> "bool", int |-> 1, len |-> 0]
Array(size, len) == [name |-> "array", int |-> size, len |-> len]

Value(k) == [type |-> "value", kind |-> k, flexible |-> << >>]
Option(k) == [type |-> "option", kind |-> k, flexible |-> << >>]
Vec(k, width) == [type |-> "vec", kind |-> k, flexible |-> << width >>]
Tagged(buffer, fields) == [option |-> "tagged", buffer |-> buffer, fields |-> fields]
Implicit(buffer, fields) == [option |-> "implicit", buffer |-> buffer, fields |-> fields]

MCDecls ==
  { \* a borrowed slice behind a two-byte header, then a field found by walking
    Tagged(0, << Vec(Integer(2), 2), Value(Integer(1)), Option(Bool) >>),
    \* an option in front of an unaligned copy and of a byte Vec
    Tagged(Unaligned, << Option(Integer(2)), Value(Integer(4)), Vec(Integer(1), 1) >>),
    \* borrowed arrays that are aligned because the buffer starts at 4
    Tagged(4, << Value(Integer(4)), Value(Array(8, 2)) >>),
    Tagged(4, << Value(Array(4, 3)), Option(Array(1, 9)) >>),
    \* presence by length: 1 + {0, 2} + {0, 4}
    Implicit(0, << Option(Integer(2)), Value(Bool), Option(Integer(4)) >>),
    \* refused: the slice would start at address 1
    Tagged(0, << Vec(Integer(2), 1), Value(Bool) >>),
    \* refused: one byte more may be either option
    Implicit(0, << Option(Integer(1)), Option(Bool) >>) }

\* The payload of `count` values, and every payload of a bool.
Payloads(k, count) ==
  IF k.name = "bool" THEN {[x \in 1 .. count |-> 0], [x \in 1 .. count |-> 1]}
  ELSE {[x \in 1 .. count * Size(k) |-> (100 + x) % Radix]}

Held(count, k) == {[count |-> count, data |-> d] : d \in Payloads(k, count)}

\* 256 elements are one more than a one-byte header can announce.
FieldInputs(f) ==
  CASE f.type = "value"  -> Held(1, f.kind)
    [] f.type = "option" -> Held(0, f.kind) \cup Held(1, f.kind)
    [] f.type = "vec"    -> UNION {Held(c, f.kind) :
                                     c \in IF f.flexible[1] = 1 THEN {0, 2, 256} ELSE {0, 1, 2}}

InputsOf(d) ==
  {v \in [1 .. Len(d.fields) -> UNION {FieldInputs(d.fields[i]) : i \in 1 .. Len(d.fields)}] :
     \A i \in 1 .. Len(d.fields) : v[i] \in FieldInputs(d.fields[i])}

\* Accepted: with buffer_offset = 4 the array starts at address 8.
MCShiftedDecls == {Tagged(4, << Value(Integer(4)), Value(Array(8, 2)) >>)}

MCStructs == UNION {InputsOf(d) : d \in MCDecls}

MCMemLen == 32
\* Left by an earlier use of the buffer.
MCInitialMems == {[a \in 0 .. MCMemLen - 1 |-> 1]}

\* Aligned, at offset 4 and at no declared offset; roomy, exact and too short.
MCSlices ==
  {[lo |-> 0, hi |-> hi] : hi \in {9, 11, 32}} \cup {[lo |-> 4, hi |-> hi] : hi \in {24, 32}}
    \cup {[lo |-> 3, hi |-> 9]}
=============================================================================
