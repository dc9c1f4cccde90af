--------------------------- MODULE MCVariableExpand ---------------------------
(***************************************************************************)
(* Every struct of up to three fields drawn from FieldPool, under every    *)
(* combination of arguments worth telling apart.                           *)
(***************************************************************************)
EXTENDS VariableExpand

Integer(size) == [name |-> "integer", int |-> size, len |-> 0]
Bool == [name |-> "bool", int |-> 1, len |-> 0]
Key == [name |-> "pubkey", int |-> 1, len |-> 0]
Array(size, len) == [name |-> "array", int |-> size, len |-> len]

Value(k) == [type |-> "value", kind |-> k, flexible |-> << >>]
Option(k) == [type |-> "option", kind |-> k, flexible |-> << >>]
Vec(k, width) == [type |-> "vec", kind |-> k, flexible |-> << width >>]

\* Copied, borrowed at alignments 1, 4 and 8, optional and repeated fields.
FieldPool ==
  { Value(Integer(1)), Value(Integer(4)), Value(Array(8, 2)),
    Option(Bool), Option(Integer(2)), Option(Array(4, 3)), Option(Integer(1)),
    Vec(Integer(1), 1), Vec(Array(1, 4), 3), Vec(Integer(8), 8) }

\* Declarations parse_field_attr and parse_field_layout refuse, and a struct
\* with a 16-byte aligned borrow.
BadFields ==
  { [Value(Integer(1)) EXCEPT !.flexible = << 1 >>],
    [Vec(Integer(1), 1) EXCEPT !.flexible = << >>],
    [Vec(Integer(1), 1) EXCEPT !.flexible = << 1, 2 >>],
    Vec(Integer(1), 0), Vec(Integer(1), 9), Vec(Bool, 1),
    [Option(Integer(1)) EXCEPT !.type = "option_vec"],
    Value([name |-> "string", int |-> 1, len |-> 0]),
    Option([name |-> "struct", int |-> 1, len |-> 0]),
    Value(Integer(16)), Value(Key) }

Structs == {<< f >> : f \in FieldPool \cup BadFields}
             \cup {<< f, g >> : f \in FieldPool, g \in FieldPool}
             \cup {<< f, g, h >> : f \in FieldPool, g \in FieldPool, h \in FieldPool}

MCDecls ==
  [option : {"tagged", "implicit"}, buffer : {0, 4, 7, Unaligned}, fields : Structs]
    \cup [option : {"packed"}, buffer : {0}, fields : {<< Value(Integer(1)) >>}]
    \cup [option : {"tagged"}, buffer : {8, Missing}, fields : {<< Value(Integer(1)) >>}]
=============================================================================
