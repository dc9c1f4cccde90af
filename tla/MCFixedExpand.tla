----------------------------- MODULE MCFixedExpand -----------------------------
(***************************************************************************)
(* Every struct of up to three fields from FieldPool, with and without a   *)
(* trailing flexible field, and each declaration the macro refuses.        *)
(***************************************************************************)
EXTENDS FixedExpand

Integer(size) == [name |-> "integer", int |-> size, len |-> 0]
Bool == [name |-> "bool", int |-> 1, len |-> 0]
Key == [name |-> "pubkey", int |-> 1, len |-> 0]
Array(size, len) == [name |-> "array", int |-> size, len |-> len]

Capacity(n) == [name |-> "capacity", n |-> n]
Flexible(n) == [name |-> "flexible", n |-> n]
Value(k) == [type |-> "value", kind |-> k, attrs |-> << >>]
Option(k) == [type |-> "option", kind |-> k, attrs |-> << >>]
Vec(k, attr) == [type |-> "vec", kind |-> k, attrs |-> << attr >>]
TailOption(k) == [type |-> "option", kind |-> k, attrs |-> << Flexible(Bare) >>]

\* Copied, borrowed at alignments 1, 2, 4 and 8, optional; Vecs at, below and
\* above the capacity of a one-byte header, and of elements that are copied.
FieldPool ==
  { Value(Integer(1)), Value(Integer(4)), Value(Bool), Value(Array(8, 2)), Value(Array(2, 5)),
    Value(Integer(16)), Value(Key), Option(Integer(8)), Option(Array(4, 3)), Option(Array(1, 9)),
    Vec(Integer(1), Capacity(3)), Vec(Integer(2), Capacity(4)), Vec(Integer(8), Capacity(2)),
    Vec(Array(4, 4), Capacity(0)), Vec(Key, Capacity(15)) }

Tails ==
  { Vec(Integer(1), Flexible(1)), Vec(Integer(2), Flexible(2)), Vec(Integer(8), Flexible(1)),
    TailOption(Integer(2)), TailOption(Array(8, 2)), TailOption(Key) }

BadFields ==
  { Vec(Integer(1), Capacity(16)), Vec(Integer(1), Capacity(Bare)), Vec(Integer(1), Flexible(Bare)),
    Vec(Integer(1), Flexible(0)), Vec(Integer(1), Flexible(3)), Vec(Bool, Capacity(2)),
    Vec(Integer(16), Capacity(1)),
    [Vec(Integer(1), Capacity(2)) EXCEPT !.attrs = << >>],
    [Vec(Integer(1), Capacity(2)) EXCEPT !.attrs = << Capacity(2), Flexible(1) >>],
    [TailOption(Integer(2)) EXCEPT !.attrs = << Flexible(1) >>],
    [TailOption(Integer(2)) EXCEPT !.attrs = << Capacity(1) >>],
    [Value(Integer(1)) EXCEPT !.attrs = << Capacity(1) >>],
    [Value(Integer(1)) EXCEPT !.attrs = << Flexible(Bare) >>],
    [Option(Integer(1)) EXCEPT !.type = "option_vec"],
    Value([name |-> "string", int |-> 1, len |-> 0]),
    Option([name |-> "struct", int |-> 1, len |-> 0]) }

Structs ==
  {<< >>} \cup {<< f >> : f \in FieldPool \cup Tails \cup BadFields}
    \cup {<< f, g >> : f \in FieldPool \cup Tails, g \in FieldPool \cup Tails}
    \cup {<< f, g, h >> : f \in FieldPool, g \in FieldPool, h \in FieldPool \cup Tails}

MCDecls == [args : {""}, fields : Structs] \cup [args : {"mut"}, fields : {<< Value(Bool) >>}]
=============================================================================
