--------------------------- MODULE MCFixedRoundTrip ---------------------------
(***************************************************************************)
(* Encode, decode and read back over one reused buffer at the code's       *)
(* sizes; the structs hold every shape, with and without a trailing field. *)
(***************************************************************************)
EXTENDS FixedContract

Integer(size) == [name |-> "integer", int |-> size, len |-> 0]
Bool == [name |-> "bool", int |-> 1, len |-> 0]
Array(size, len) == [name |-> "array", int |-> size, len |-> len]

Capacity(n) == [name |-> "capacity", n |-> n]
Flexible(n) == [name |-> "flexible", n |-> n]
Value(k) == [type |-> "value", kind |-> k, attrs |-> << >>]
Option(k) == [type |-> "option", kind |-> k, attrs |-> << >>]
Vec(k, attr) == [type |-> "vec", kind |-> k, attrs |-> << attr >>]
TailOption(k) == [type |-> "option", kind |-> k, attrs |-> << Flexible(Bare) >>]

Fields ==
  { \* an option and a Vec of bytes in front of a bool
    << Option(Integer(2)), Vec(Integer(1), Capacity(2)), Value(Bool) >>,
    \* a borrowed array, then a slice aligned behind its header
    << Value(Array(4, 3)), Value(Integer(1)), Vec(Integer(2), Capacity(2)) >>,
    \* a two-byte header only because of its capacity
    << Value(Integer(1)), Option(Bool), Vec(Integer(1), Capacity(2)), Vec(Integer(2), Flexible(2)) >>,
    << Value(Integer(1)), Value(Array(1, 6)), TailOption(Array(8, 2)) >>,
    << Vec(Integer(1), Capacity(4)), TailOption(Bool) >>,
    << Value(Integer(4)), Vec(Integer(1), Flexible(1)) >>,
    \* refused: the array would start at offset 1
    << Value(Bool), Value(Array(8, 2)) >> }

MCDecls == [args : {""}, fields : Fields]

\* One struct each with a trailing Option and a trailing Vec.
MCTailDecls ==
  [args : {""}, fields : { << Vec(Integer(1), Capacity(4)), TailOption(Bool) >>,
                           << Value(Integer(4)), Vec(Integer(1), Flexible(1)) >> }]

Payloads(k, count) ==
  IF k.name = "bool" THEN {[x \in 1 .. count |-> 1]}
  ELSE {[x \in 1 .. count * Size(k) |-> (100 + x) % Radix]}

Held(count, k) == {[count |-> count, data |-> d] : d \in Payloads(k, count)}

\* Three elements exceed the capacities.
FieldInputs(f) ==
  CASE f.type = "value"  -> Held(1, f.kind)
    [] f.type = "option" -> Held(0, f.kind) \cup Held(1, f.kind)
    [] f.type = "vec"    -> UNION {Held(c, f.kind) :
         c \in IF f.attrs[1].name = "capacity" THEN {0, 1, 3} ELSE {0, 2}}

InputsOf(d) ==
  {v \in [1 .. Len(d.fields) -> UNION {FieldInputs(d.fields[i]) : i \in 1 .. Len(d.fields)}] :
     \A i \in 1 .. Len(d.fields) : v[i] \in FieldInputs(d.fields[i])}

MCStructs == UNION {InputsOf(d) : d \in MCDecls}

MCMemLen == 26
\* Left by an earlier use of the buffer: tags and headers that mean something.
MCInitialMems == {[a \in 0 .. MCMemLen - 1 |-> 1]}

\* The lengths of some encodings at aligned addresses, one at an address that is
\* not, and slices that are too short or too long.
MCSlices == {[lo |-> 0, hi |-> hi] : hi \in {5, 7, 12, 18, 24}}
              \cup {[lo |-> 4, hi |-> 11], [lo |-> 8, hi |-> 15]}

\* A trailing Vec of 256 bytes, and room for it.
MCWideMemLen == 264
MCWideMems == {[a \in 0 .. MCWideMemLen - 1 |-> 1]}
MCWideSlices == {[lo |-> 0, hi |-> MCWideMemLen]}
MCWideStructs == {<< v, w >> : v \in Held(1, Integer(4)), w \in Held(0, Integer(1)) \cup Held(255, Integer(1)) \cup Held(256, Integer(1))}
=============================================================================
