---------------------------- MODULE MCFixedAnyBytes ----------------------------
(***************************************************************************)
(* The fixed layout's decoder and getters over every content of a short    *)
(* buffer, and its encodings over leftovers.  A byte has three values, a   *)
(* value over one byte is borrowed, and the base is 2-byte aligned.        *)
(***************************************************************************)
EXTENDS FixedCodec

Integer(size) == [name |-> "integer", int |-> size, len |-> 0]
Bool == [name |-> "bool", int |-> 1, len |-> 0]

Capacity(n) == [name |-> "capacity", n |-> n]
Flexible(n) == [name |-> "flexible", n |-> n]
Value(k) == [type |-> "value", kind |-> k, attrs |-> << >>]
Option(k) == [type |-> "option", kind |-> k, attrs |-> << >>]
Vec(k, attr) == [type |-> "vec", kind |-> k, attrs |-> << attr >>]
TailOption(k) == [type |-> "option", kind |-> k, attrs |-> << Flexible(Bare) >>]

MCDecls ==
  [args : {""},
   fields : { << Option(Integer(1)), Vec(Integer(1), Capacity(1)), Value(Bool) >>,
              << Value(Integer(1)), Option(Integer(2)) >>,
              << Vec(Integer(1), Capacity(2)), Option(Bool), Value(Integer(1)) >>,
              << Value(Integer(1)), Vec(Integer(2), Flexible(1)) >>,
              << Value(Integer(2)), Vec(Integer(1), Flexible(2)) >>,
              << Value(Integer(2)), TailOption(Bool) >> }]

Payloads(k, count) ==
  IF k.name = "bool" THEN {[x \in 1 .. count |-> 1]}
  ELSE {[x \in 1 .. count * Size(k) |-> x % Radix]}

Held(count, k) == {[count |-> count, data |-> d] : d \in Payloads(k, count)}

\* Three elements are one more than a one-byte header can announce.
FieldInputs(f) ==
  CASE f.type = "value"  -> Held(1, f.kind)
    [] f.type = "option" -> Held(0, f.kind) \cup Held(1, f.kind)
    [] f.type = "vec"    -> UNION {Held(c, f.kind) : c \in {0, 1, 3}}

InputsOf(d) ==
  {v \in [1 .. Len(d.fields) -> UNION {FieldInputs(d.fields[i]) : i \in 1 .. Len(d.fields)}] :
     \A i \in 1 .. Len(d.fields) : v[i] \in FieldInputs(d.fields[i])}

MCStructs == UNION {InputsOf(d) : d \in MCDecls}

MCMemLen == 7
MCInitialMems ==
  {[a \in 0 .. MCMemLen - 1 |-> IF a < 5 THEN free[a] ELSE 1] : free \in [0 .. 4 -> Byte]}

MCSlices == {[lo |-> 0, hi |-> hi] : hi \in {1, 2, 4, 5, 7}} \cup {[lo |-> 1, hi |-> 5]}
=============================================================================
