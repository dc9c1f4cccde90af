----------------------------- MODULE MCTupleCodec -----------------------------
(***************************************************************************)
(* Two bytes, usizes up to five: pairs and triples that exceed the buffer, *)
(* a capacity or usize itself.  The types are a bool behind an option tag, *)
(* a Vec of bytes behind a length, an implicit layout of one option that   *)
(* is decoded at even addresses, and a Vec of two-byte elements declared   *)
(* at odd ones, of which the decoder takes the empty one only.             *)
(***************************************************************************)
EXTENDS TupleCodec

MCByte == {0, 1}
MCCodes ==
  [ tagged   |-> {<< 0 >>, << 1, 0 >>, << 1, 1 >>},
    vec      |-> {<< 0 >>, << 1, 0 >>, << 1, 1 >>},
    implicit |-> {<< >>, << 0 >>, << 1 >>},
    pairs    |-> {<< 0 >>, << 1, 1, 0 >>} ]
MCTaken == [MCCodes EXCEPT !.pairs = {<< 0 >>}]
MCSelfDelimiting == {"tagged", "vec", "pairs"}
MCBufferOffset == [tagged |-> Unaligned, vec |-> Unaligned, implicit |-> 0, pairs |-> 1]

V(t, c) == [type |-> t, code |-> c, fits |-> TRUE]
TooLong == [type |-> "vec", code |-> << 1, 1 >>, fits |-> FALSE]

Firsts == {V("tagged", << 0 >>), V("tagged", << 1, 1 >>)}
Pairs == {V("pairs", << 0 >>), V("pairs", << 1, 1, 0 >>)}
Lasts == {V("vec", << 1, 0 >>), TooLong, V("implicit", << >>), V("implicit", << 1 >>)}

MCTuples ==
  {<< a >> : a \in Firsts \cup Lasts} \cup {<< a, b >> : a \in Firsts, b \in Lasts}
    \cup {<< a, V("vec", << 1, 0 >>), b >> : a \in Firsts, b \in Lasts \cup {V("tagged", << 1, 0 >>)}}
    \cup {<< V("vec", << 1, 1 >>), b, V("tagged", << 1, 0 >>) >> : b \in {TooLong}}
    \cup {<< a, b >> : a \in Firsts, b \in Pairs} \cup {<< b, V("implicit", << 1 >>) >> : b \in Pairs}

MCReaders ==
  { [types |-> t, optional |-> o] :
      t \in { << "tagged" >>, << "implicit" >>, << "vec" >>, << "tagged", "vec" >>,
              << "tagged", "implicit" >>, << "tagged", "vec", "implicit" >>,
              << "tagged", "vec", "vec" >>, << "tagged", "pairs" >>, << "pairs", "implicit" >> },
      o \in BOOLEAN }

MCWordMax == 5
MCInitialMems == {m \in [0 .. MCWordMax - 1 -> MCByte] : m[3] = 1 /\ m[4] = 0}
MCSlices == {[lo |-> lo, hi |-> hi] : lo \in {0, 1}, hi \in 1 .. MCWordMax}
=============================================================================
