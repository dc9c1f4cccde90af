----------------------------- MODULE LayoutTypes -----------------------------
(***************************************************************************)
(* The vocabulary both layout macros share: the kinds of value a field may *)
(* hold (common.rs) and the little-endian length header that precedes      *)
(* every Vec.                                                              *)
(*                                                                         *)
(* A byte is a digit in base Radix.  The code has Radix = 256; everything  *)
(* below only uses that a byte is a digit, so a small radix lets TLC       *)
(* enumerate whole buffers.                                                *)
(***************************************************************************)
EXTENDS Integers, Sequences

CONSTANTS
  Radix,        \* number of values of a byte: 256 in the code
  CopyMax,      \* largest size returned by value instead of borrowed: 8
  PubkeySize    \* size of a Pubkey: 32

ASSUME RadixAssumption == Radix \in Nat /\ Radix > 1
ASSUME SizesAssumption == CopyMax \in Nat /\ PubkeySize \in Nat

Byte == 0 .. Radix - 1
MaxLenWidth == 8

-----------------------------------------------------------------------------
(* Value kinds.  `int` is the size of the primitive (of the elements, for  *)
(* an array, however nested) and `len` the number of primitives of an      *)
(* array.  A primitive is aligned to its size.                             *)

KindNames == {"bool", "integer", "pubkey", "array"}
PrimitiveSizes == {1, 2, 4, 8, 16}
FixedValueKind == [name : KindNames, int : PrimitiveSizes, len : Nat]

Size(k) ==
  CASE k.name = "bool"    -> 1
    [] k.name = "pubkey"  -> PubkeySize
    [] k.name = "integer" -> k.int
    [] k.name = "array"   -> k.len * k.int

Align(k) == IF k.name \in {"bool", "pubkey"} THEN 1 ELSE k.int

\* Access mode `Ref`: the getter returns a reference into the buffer.
IsRef(k) == Size(k) > CopyMax

-----------------------------------------------------------------------------
(* Length headers.  to_le_bytes and from_le_bytes on eight digits: the     *)
(* header keeps the first `width` of them, and a reader clears the rest.   *)

ToLe(n) ==
  LET d1 == n \div Radix   d2 == d1 \div Radix  d3 == d2 \div Radix
      d4 == d3 \div Radix  d5 == d4 \div Radix  d6 == d5 \div Radix
      d7 == d6 \div Radix
  IN << n % Radix, d1 % Radix, d2 % Radix, d3 % Radix,
        d4 % Radix, d5 % Radix, d6 % Radix, d7 % Radix >>

FromLe(d) ==
  d[1] + Radix * (d[2] + Radix * (d[3] + Radix * (d[4] +
    Radix * (d[5] + Radix * (d[6] + Radix * (d[7] + Radix * d[8]))))))

\* Fault (see VariableExpand): the length put into the first byte.
LenHeaderOneByte(n, width) == [i \in 1 .. width |-> IF i = 1 THEN n ELSE 0]

LenHeader(n, width) == SubSeq(ToLe(n), 1, width)

\* The header of `width` bytes found at address a of memory m.
ReadLenHeader(m, a, width) ==
  FromLe([i \in 1 .. 8 |-> IF i <= width THEN m[a + i - 1] ELSE 0])
=============================================================================
