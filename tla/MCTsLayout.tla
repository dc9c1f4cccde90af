------------------------------ MODULE MCTsLayout ------------------------------
(***************************************************************************)
(* Bytes with two values, so that a u64 has 256: layouts with each kind,   *)
(* gaps in every place, and names used twice.                              *)
(***************************************************************************)
EXTENDS TsLayout

Field(kind, name) == [kind |-> kind, name |-> name, size |-> 0]
Gap(kind, n) == [kind |-> kind, name |-> "", size |-> n]

MCDefLists ==
  { << Field("u8", "a"), Field("i64", "b") >>,
    << Field("u8", "a"), Gap("padding", 2), Field("u64", "b") >>,
    << Gap("padding", 1), Field("pubkey", "a"), Field("u8", "b") >>,
    << Field("u64", "a"), Gap("skip", 2), Field("u8", "b") >>,
    << Gap("skip", 1), Field("i64", "b") >>,
    << Field("u8", "a"), Field("pubkey", "b"), Gap("padding", 1) >>,
    \* one name, twice
    << Field("u64", "b"), Field("i64", "b") >>,
    << Field("u8", "a"), Field("u8", "a") >>,
    << Field("u8", "a"), Field("u64", "a") >>,
    << Field("u8", "a"), Field("pubkey", "a") >>,
    << Field("pubkey", "a"), Field("u8", "a") >>,
    << Field("u8", "a"), Field("unsupported", "b") >>,
    << Gap("padding", 2) >> }

Number(n) == [class |-> "number", n |-> n]
BigInt(n) == [class |-> "bigint", n |-> n]
Key(n) == [class |-> "PublicKey", bytes |-> [d \in 1 .. PubkeySize |-> IF d = n THEN 1 ELSE 0]]

\* The text of the PublicKey of zeros is "1" repeated.
MCNumerals == {Key(0).bytes}

\* Values that fit, at and over the ends of their ranges, of the wrong class and
\* missing.
MCObjects ==
  {[a |-> x, b |-> y] : x \in {Number(0), Number(1), Number(2), BigInt(3), Key(0), Key(1)},
                        y \in {BigInt(-129), BigInt(-128), BigInt(-1), BigInt(5), BigInt(127),
                               BigInt(128), BigInt(255), BigInt(256), Key(3), Number(1)}}
    \cup {[a |-> Number(1)], [b |-> BigInt(9)]}

\* Every length up to one more than a layout has, and a few contents of each.
MCBuffers ==
  UNION {{[d \in 1 .. n |-> 1], [d \in 1 .. n |-> d % 2], [d \in 1 .. n |-> (d + 1) % 2],
          [d \in 1 .. n |-> IF d = n THEN 1 ELSE 0]} : n \in 0 .. 17}
=============================================================================
