----------------------------- MODULE TupleCodecProofs -----------------------------
(***************************************************************************)
(* Theorems about TupleCodec: whatever the types, the buffer and the       *)
(* slices, a tuple fills its buffer, is a prefix when it fails, and reads  *)
(* back as it was written.                                                 *)
(***************************************************************************)
EXTENDS TupleCodec, InductionLemmas, SequenceTheorems

-----------------------------------------------------------------------------
(* FlattenSeq of the community modules, by its recursion.                  *)

\* f[i] is what the first i sequences of s are, one behind the other.
FlattenStep(f, s, i) == IF i = 1 THEN s[i] ELSE f[i - 1] \o s[i]
Flattens(f, s) == f = [i \in 1 .. Len(s) |-> FlattenStep(f, s, i)]

LEMMA FlattensAt ==
  ASSUME NEW s, NEW f, Flattens(f, s), NEW i \in 1 .. Len(s)
  PROVE  f[i] = IF i = 1 THEN s[i] ELSE f[i - 1] \o s[i]
<1>1. f[i] = FlattenStep(f, s, i)
  BY DEF Flattens
<1>. QED
  BY <1>1 DEF FlattenStep

\* Joining two members of V gives one.
Joined(V) == \A x, y \in V : x \o y \in V

LEMMA JoinsExist ==
  ASSUME NEW n \in Nat, NEW V, Joined(V), NEW s, \A i \in 1 .. n + 1 : s[i] \in V
  PROVE  \E f \in [1 .. n + 1 -> V] : \A i \in 1 .. n + 1 : f[i] = FlattenStep(f, s, i)
<1>1. PICK g : g = [i \in 1 .. n |-> [x \in V |-> x \o s[i + 1]]]
  OBVIOUS
<1>2. ASSUME NEW i \in 1 .. n, NEW x \in V PROVE g[i][x] = x \o s[i + 1] /\ g[i][x] \in V
  <2>1. g[i] = [y \in V |-> y \o s[i + 1]]
    BY <1>1
  <2>2. g[i][x] = x \o s[i + 1]
    BY <2>1
  <2>3. s[i + 1] \in V
    OBVIOUS
  <2>. QED
    BY <2>2, <2>3 DEF Joined
<1>3. PICK b \in V : b = s[1]
  OBVIOUS
<1>4. StepsWithin(g, n, V)
  BY <1>2 DEF StepsWithin
<1>5. PICK w \in [1 .. n + 1 -> V] : w[1] = b /\ \A i \in 1 .. n : w[i + 1] = g[i][w[i]]
  BY <1>3, <1>4, RecursionExists
<1>6. ASSUME NEW i \in 1 .. n + 1 PROVE w[i] = FlattenStep(w, s, i)
  <2>1. CASE i = 1
    BY <1>3, <1>5, <2>1 DEF FlattenStep
  <2>2. CASE i # 1
    <3>1. i - 1 \in 1 .. n /\ (i - 1) + 1 = i
      BY <2>2
    <3>2. w[i - 1] \in V
      BY <3>1
    <3>3. w[i] = g[i - 1][w[i - 1]]
      BY <1>5, <3>1
    <3>4. w[i] = w[i - 1] \o s[(i - 1) + 1]
      BY <1>2, <3>1, <3>2, <3>3
    <3>. QED
      BY <2>2, <3>1, <3>4 DEF FlattenStep
  <2>. QED
    BY <2>1, <2>2
<1>. QED
  BY <1>6

LEMMA FlattensExists ==
  ASSUME NEW S, NEW s \in Seq(Seq(S)), Len(s) # 0
  PROVE  \E f \in [1 .. Len(s) -> Seq(S)] : Flattens(f, s)
<1>1. PICK n \in Nat : n + 1 = Len(s)
  <2>1. Len(s) - 1 \in Nat /\ (Len(s) - 1) + 1 = Len(s)
    OBVIOUS
  <2>. QED
    BY <2>1
<1>2. PICK V : V = Seq(S)
  OBVIOUS
<1>3. \A i \in 1 .. n + 1 : s[i] \in V
  BY <1>1, <1>2
<1>4. Joined(V)
  BY <1>2, ConcatProperties DEF Joined
<1>5. PICK f \in [1 .. n + 1 -> V] : \A i \in 1 .. n + 1 : f[i] = FlattenStep(f, s, i)
  BY ONLY <1>3, <1>4, JoinsExist
<1>6. Flattens(f, s)
  BY <1>1, <1>5 DEF Flattens
<1>. QED
  BY <1>1, <1>2, <1>6

Alike(s, t, n) == \A i \in 1 .. n : s[i] = t[i]

\* Sequences that start alike flatten alike.
LEMMA FlattensUnique ==
  ASSUME NEW s, NEW t, NEW f, NEW g, Flattens(f, s), Flattens(g, t),
         NEW n \in Nat, n <= Len(s), n <= Len(t), Len(s) \in Nat, Len(t) \in Nat,
         Alike(s, t, n)
  PROVE  Alike(f, g, n)
<1>. DEFINE S == {i \in 1 .. n : f[i] = g[i]}
<1>1. \A i \in 1 .. n : /\ f[i] = IF i = 1 THEN s[i] ELSE f[i - 1] \o s[i]
                        /\ g[i] = IF i = 1 THEN t[i] ELSE g[i - 1] \o t[i]
  <2>1. \A i \in 1 .. n : i \in 1 .. Len(s) /\ i \in 1 .. Len(t)
    OBVIOUS
  <2>. QED
    BY <2>1, FlattensAt
<1>2. 1 \in S \/ n = 0
  BY <1>1 DEF Alike
<1>3. ASSUME NEW i \in 1 .. n, i \in S, i < n PROVE i + 1 \in S
  <2>1. i + 1 \in 1 .. n /\ i + 1 # 1 /\ (i + 1) - 1 = i
    BY <1>3
  <2>2. f[i + 1] = f[i] \o s[i + 1] /\ g[i + 1] = g[i] \o t[i + 1]
    BY <1>1, <2>1
  <2>. QED
    BY <1>3, <2>1, <2>2 DEF Alike
<1>4. 1 .. n \subseteq S
  <2>. HIDE DEF S
  <2>. QED
    BY <1>2, <1>3, UpToInduction
<1>. QED
  BY <1>4 DEF Alike

LEMMA FlattenIs ==
  ASSUME NEW S, NEW s \in Seq(Seq(S)), Len(s) # 0, NEW f, Flattens(f, s)
  PROVE  FlattenSeq(s) = f[Len(s)]
<1>1. PICK g : g = CHOOSE v : Flattens(v, s)
  OBVIOUS
<1>2. Flattens(g, s)
  BY <1>1
<1>3. FlattenSeq(s) = g[Len(s)]
  <2>1. FlattenSeq(s) = (CHOOSE v : Flattens(v, s))[Len(s)]
    BY DEF FlattenSeq, Flattens, FlattenStep
  <2>. QED
    BY <1>1, <2>1
<1>4. Len(s) \in Nat /\ Len(s) \in 1 .. Len(s)
  OBVIOUS
<1>5. f[Len(s)] = g[Len(s)]
  BY <1>2, <1>4, FlattensUnique DEF Alike
<1>. QED
  BY <1>3, <1>5

(* Flattening a longer sequence adds its last one at the end.              *)
LEMMA FlattenAppend ==
  ASSUME NEW S, NEW s \in Seq(Seq(S)), NEW c \in Seq(S)
  PROVE  /\ FlattenSeq(<< >>) = << >> /\ FlattenSeq(s) \in Seq(S)
         /\ FlattenSeq(Append(s, c)) = FlattenSeq(s) \o c
<1>1. FlattenSeq(<< >>) = << >>
  BY DEF FlattenSeq
<1>2. PICK t \in Seq(Seq(S)) :
        /\ t = Append(s, c) /\ Len(t) = Len(s) + 1 /\ t[Len(s) + 1] = c
        /\ \A i \in 1 .. Len(s) : t[i] = s[i]
  <2>1. PICK V : V = Seq(S)
    OBVIOUS
  <2>2. s \in Seq(V) /\ c \in V
    BY <2>1
  <2>3. /\ Append(s, c) \in Seq(V) /\ Len(Append(s, c)) = Len(s) + 1
        /\ Append(s, c)[Len(s) + 1] = c
        /\ \A i \in 1 .. Len(s) : Append(s, c)[i] = s[i]
    BY <2>2
  <2>4. Append(s, c) \in Seq(Seq(S))
    BY <2>1, <2>3
  <2>. QED
    BY <2>3, <2>4
<1>3. Len(s) \in Nat /\ Len(t) # 0 /\ Len(t) \in Nat
  BY <1>2
<1>4. PICK g \in [1 .. Len(t) -> Seq(S)] : Flattens(g, t)
  BY <1>3, FlattensExists
<1>5. FlattenSeq(t) = g[Len(t)]
  BY <1>3, <1>4, FlattenIs
<1>6. g[Len(t)] = IF Len(t) = 1 THEN t[Len(t)] ELSE g[Len(t) - 1] \o t[Len(t)]
  <2>1. Len(t) \in 1 .. Len(t)
    BY <1>3
  <2>. QED
    BY <1>4, <2>1, FlattensAt
<1>7. CASE Len(s) = 0
  <2>1. s = << >> /\ FlattenSeq(s) = << >>
    BY <1>1, <1>7
  <2>2. FlattenSeq(t) = c
    BY <1>2, <1>5, <1>6, <1>7
  <2>3. << >> \in Seq(S) /\ << >> \o c = c
    OBVIOUS
  <2>. QED
    BY <1>1, <1>2, <2>1, <2>2, <2>3
<1>8. CASE Len(s) # 0
  <2>1. PICK f \in [1 .. Len(s) -> Seq(S)] : Flattens(f, s)
    BY <1>8, FlattensExists
  <2>2. FlattenSeq(s) = f[Len(s)]
    BY <1>8, <2>1, FlattenIs
  <2>3. Len(s) \in 1 .. Len(s) /\ Len(s) <= Len(t)
    BY <1>2, <1>3, <1>8
  <2>4. f[Len(s)] = g[Len(s)]
    <3>1. /\ Flattens(f, s) /\ Flattens(g, t) /\ Len(s) \in Nat /\ Len(s) <= Len(s)
          /\ Len(s) <= Len(t) /\ Len(t) \in Nat /\ Alike(s, t, Len(s))
      BY <1>2, <1>3, <1>4, <2>1, <2>3 DEF Alike
    <3>2. Alike(f, g, Len(s))
      BY ONLY <3>1, FlattensUnique
    <3>. QED
      BY <2>3, <3>2 DEF Alike
  <2>5. Len(t) # 1 /\ Len(t) - 1 = Len(s)
    BY <1>2, <1>3, <1>8
  <2>6. g[Len(t)] = f[Len(s)] \o c
    BY <1>2, <1>6, <2>4, <2>5
  <2>. QED
    BY <1>1, <1>2, <1>5, <2>1, <2>2, <2>3, <2>6
<1>. QED
  BY <1>7, <1>8

-----------------------------------------------------------------------------
(* What is written into the buffer.                                        *)

\* s is how t starts.
Starts(s, t) == Len(s) <= Len(t) /\ \A i \in 1 .. Len(s) : t[i] = s[i]

LEMMA PrefixStarts ==
  ASSUME NEW S, NEW s \in Seq(S), NEW t \in Seq(S)
  PROVE  IsPrefix(s, t) <=> Starts(s, t)
<1>1. IsPrefix(s, t) <=> Len(s) <= Len(t) /\ SubSeq(s, 1, Len(s)) = SubSeq(t, 1, Len(s))
  BY DEF IsPrefix
<1>2. SUFFICES ASSUME Len(s) <= Len(t)
               PROVE  SubSeq(s, 1, Len(s)) = SubSeq(t, 1, Len(s))
                        <=> \A i \in 1 .. Len(s) : t[i] = s[i]
  BY <1>1 DEF Starts
<1>3. SubSeq(s, 1, Len(s)) = s
  BY SubSeqFull
<1>4. SubSeq(t, 1, Len(s)) = [i \in 1 .. Len(s) |-> t[i]]
  BY <1>2
<1>5. s = [i \in 1 .. Len(s) |-> s[i]]
  OBVIOUS
<1>. QED
  BY <1>3, <1>4, <1>5

LEMMA SeqIs ==
  ASSUME NEW S, NEW n \in Nat, NEW f \in [1 .. n -> S]
  PROVE  f \in Seq(S) /\ Len(f) = n
OBVIOUS

LEMMA BytesAre ==
  ASSUME NEW m \in [Addresses -> Byte], NEW a \in Nat, NEW b \in a .. WordMax
  PROVE  /\ Bytes(m, a, b) \in Seq(Byte) /\ Len(Bytes(m, a, b)) = b - a
         /\ \A i \in 1 .. b - a : Bytes(m, a, b)[i] = m[a + i - 1]
<1>1. b - a \in Nat
  OBVIOUS
<1>2. \A i \in 1 .. b - a : a + i - 1 \in Addresses
  BY TupleCodesAssumption DEF Addresses
<1>3. Bytes(m, a, b) \in [1 .. b - a -> Byte]
  BY <1>2 DEF Bytes
<1>4. \A i \in 1 .. b - a : Bytes(m, a, b)[i] = m[a + i - 1]
  BY DEF Bytes
<1>. QED
  BY <1>1, <1>3, <1>4, SeqIs

LEMMA SameSeq ==
  ASSUME NEW S, NEW s \in Seq(S), NEW t \in Seq(S), Len(s) = Len(t),
         \A i \in 1 .. Len(s) : s[i] = t[i]
  PROVE  s = t
OBVIOUS

\* Two neighboring ranges are one.
LEMMA BytesJoin ==
  ASSUME NEW m \in [Addresses -> Byte], NEW a \in Nat, NEW b \in a .. WordMax, NEW c \in b .. WordMax
  PROVE  Bytes(m, a, b) \o Bytes(m, b, c) = Bytes(m, a, c)
<1>. DEFINE s == Bytes(m, a, b)
            t == Bytes(m, b, c)
            u == Bytes(m, a, c)
<1>1. /\ s \in Seq(Byte) /\ Len(s) = b - a /\ \A i \in 1 .. b - a : s[i] = m[a + i - 1]
  BY BytesAre
<1>2. b \in Nat /\ t \in Seq(Byte) /\ Len(t) = c - b /\ \A i \in 1 .. c - b : t[i] = m[b + i - 1]
  <2>1. b \in Nat
    OBVIOUS
  <2>. QED
    BY <2>1, BytesAre
<1>3. c \in a .. WordMax
  OBVIOUS
<1>4. u \in Seq(Byte) /\ Len(u) = c - a /\ \A i \in 1 .. c - a : u[i] = m[a + i - 1]
  BY <1>3, BytesAre
<1>. HIDE DEF s, t, u
<1>5. /\ s \o t \in Seq(Byte) /\ Len(s \o t) = Len(s) + Len(t)
      /\ \A i \in 1 .. Len(s) + Len(t) : (s \o t)[i] = IF i <= Len(s) THEN s[i] ELSE t[i - Len(s)]
  BY <1>1, <1>2, ConcatProperties
<1>6. ASSUME NEW i \in 1 .. c - a PROVE (s \o t)[i] = u[i]
  <2>1. i \in 1 .. Len(s) + Len(t) /\ u[i] = m[a + i - 1]
    BY <1>1, <1>2, <1>4
  <2>2. CASE i <= Len(s)
    BY <1>1, <1>5, <2>1, <2>2
  <2>3. CASE ~(i <= Len(s))
    <3>1. i - Len(s) \in 1 .. c - b /\ b + (i - Len(s)) - 1 = a + i - 1
      BY <1>1, <2>3
    <3>. QED
      BY <1>2, <1>5, <2>1, <2>3, <3>1
  <2>. QED
    BY <2>2, <2>3
<1>7. Len(s \o t) = c - a
  BY <1>1, <1>2, <1>5
<1>. QED
  BY <1>4, <1>5, <1>6, <1>7, SameSeq DEF s, t, u

\* w is m with s written at a: those bytes are there, and the ones before them as in m.
Written(w, m, a, s) ==
  /\ w \in [Addresses -> Byte] /\ Bytes(w, a, a + Len(s)) = s
  /\ \A b \in 0 .. a : Bytes(w, b, a) = Bytes(m, b, a)
  /\ Len(s) = 0 => w = m

LEMMA WriteIs ==
  ASSUME NEW m \in [Addresses -> Byte], NEW a \in Nat, NEW s \in Seq(Byte), a + Len(s) <= WordMax
  PROVE  Written(Write(m, a, s), m, a, s)
<1>1. PICK w : w = Write(m, a, s)
  OBVIOUS
<1>2. w = [x \in Addresses |-> IF x \in a .. a + Len(s) - 1 THEN s[x - a + 1] ELSE m[x]]
  BY <1>1 DEF Write
<1>3. w \in [Addresses -> Byte]
  <2>1. \A x \in Addresses : x \in a .. a + Len(s) - 1 => x - a + 1 \in 1 .. Len(s)
    BY DEF Addresses
  <2>. QED
    BY <1>2, <2>1
<1>4. Bytes(w, a, a + Len(s)) = s
  <2>1. PICK e \in a .. WordMax : e = a + Len(s) /\ e - a = Len(s)
    BY TupleCodesAssumption
  <2>2. PICK t : t = Bytes(w, a, e)
    OBVIOUS
  <2>3. t \in Seq(Byte) /\ Len(t) = e - a /\ \A i \in 1 .. e - a : t[i] = w[a + i - 1]
    <3>1. w \in [Addresses -> Byte] /\ a \in Nat /\ e \in a .. WordMax
      BY <1>3
    <3>. QED
      BY ONLY <2>2, <3>1, BytesAre
  <2>4. ASSUME NEW i \in 1 .. Len(s) PROVE w[a + i - 1] = s[i]
    <3>1. /\ a + i - 1 \in Addresses /\ a + i - 1 \in a .. a + Len(s) - 1
          /\ (a + i - 1) - a + 1 = i
      BY TupleCodesAssumption DEF Addresses
    <3>. QED
      BY <1>2, <3>1
  <2>5. t = s
    BY <2>1, <2>3, <2>4, SameSeq
  <2>. QED
    BY <2>1, <2>2, <2>5
<1>5. ASSUME NEW b \in 0 .. a PROVE Bytes(w, b, a) = Bytes(m, b, a)
  <2>1. \A i \in 1 .. a - b : b + i - 1 \in Addresses /\ b + i - 1 < a
    BY TupleCodesAssumption DEF Addresses
  <2>2. ASSUME NEW i \in 1 .. a - b PROVE w[b + i - 1] = m[b + i - 1]
    <3>1. b + i - 1 \in Addresses /\ b + i - 1 < a
      BY <2>1
    <3>2. ~(b + i - 1 \in a .. a + Len(s) - 1)
      <4>1. \A y \in a .. a + Len(s) - 1 : ~(y < a)
        OBVIOUS
      <4>. QED
        BY <3>1, <4>1
    <3>. QED
      BY <1>2, <3>1, <3>2
  <2>. QED
    BY <2>2 DEF Bytes
<1>6. Len(s) = 0 => w = m
  <2>1. Len(s) = 0 => \A x \in Addresses : ~(x \in a .. a + Len(s) - 1)
    BY DEF Addresses
  <2>2. m = [x \in Addresses |-> m[x]]
    OBVIOUS
  <2>. QED
    BY <1>2, <2>1, <2>2
<1>. QED
  BY <1>1, <1>3, <1>4, <1>5, <1>6 DEF Written

\* Writing s and then t behind it writes both.
LEMMA WriteTwice ==
  ASSUME NEW m \in [Addresses -> Byte], NEW a \in Nat, NEW s \in Seq(Byte), NEW t \in Seq(Byte)
  PROVE  Write(Write(m, a, s), a + Len(s), t) = Write(m, a, s \o t)
<1>1. /\ s \o t \in Seq(Byte) /\ Len(s \o t) = Len(s) + Len(t)
      /\ \A i \in 1 .. Len(s) + Len(t) : (s \o t)[i] = IF i <= Len(s) THEN s[i] ELSE t[i - Len(s)]
  BY ConcatProperties
<1>2. PICK w : w = Write(m, a, s)
  OBVIOUS
<1>3. w = [x \in Addresses |-> IF x \in a .. a + Len(s) - 1 THEN s[x - a + 1] ELSE m[x]]
  BY <1>2 DEF Write
<1>4. Write(w, a + Len(s), t) =
        [x \in Addresses |-> IF x \in a + Len(s) .. a + Len(s) + Len(t) - 1
                             THEN t[x - (a + Len(s)) + 1] ELSE w[x]]
  BY <1>3 DEF Write
<1>5. Write(m, a, s \o t) =
        [x \in Addresses |-> IF x \in a .. a + (Len(s) + Len(t)) - 1 THEN (s \o t)[x - a + 1] ELSE m[x]]
  BY <1>1 DEF Write
<1>6. ASSUME NEW x \in Addresses
      PROVE  Write(w, a + Len(s), t)[x] = Write(m, a, s \o t)[x]
  <2>1. x \in Nat /\ Len(s) \in Nat /\ Len(t) \in Nat
    BY TupleCodesAssumption DEF Addresses
  <2>2. CASE x \in a .. a + Len(s) - 1
    <3>1. /\ x - a + 1 \in 1 .. Len(s) + Len(t) /\ x - a + 1 <= Len(s)
          /\ x \in a .. a + (Len(s) + Len(t)) - 1
          /\ ~(x \in a + Len(s) .. a + Len(s) + Len(t) - 1)
      BY <2>1, <2>2
    <3>. QED
      BY <1>1, <1>3, <1>4, <1>5, <2>2, <3>1
  <2>3. CASE x \in a + Len(s) .. a + Len(s) + Len(t) - 1
    <3>1. /\ x - a + 1 \in 1 .. Len(s) + Len(t) /\ ~(x - a + 1 <= Len(s))
          /\ x \in a .. a + (Len(s) + Len(t)) - 1
          /\ x - (a + Len(s)) + 1 = (x - a + 1) - Len(s)
      BY <2>1, <2>3
    <3>. QED
      BY <1>1, <1>4, <1>5, <2>3, <3>1
  <2>4. CASE ~(x \in a .. a + Len(s) - 1) /\ ~(x \in a + Len(s) .. a + Len(s) + Len(t) - 1)
    <3>1. ~(x \in a .. a + (Len(s) + Len(t)) - 1)
      BY <2>1, <2>4
    <3>. QED
      BY <1>3, <1>4, <1>5, <2>4, <3>1
  <2>. QED
    BY <2>2, <2>3, <2>4
<1>. QED
  BY <1>2, <1>4, <1>5, <1>6

-----------------------------------------------------------------------------
(* A tuple, element by element.                                            *)

\* The encodings of the first j elements.
Upto(v, j) == Concatenated(SubSeq(v, 1, j))

LEMMA UptoIs ==
  ASSUME NEW v \in Seq(Element)
  PROVE  /\ Upto(v, 0) = << >> /\ Upto(v, Len(v)) = Concatenated(v)
         /\ \A j \in 0 .. Len(v) : Upto(v, j) \in Seq(Byte)
         /\ \A j \in 1 .. Len(v) : Upto(v, j) = Upto(v, j - 1) \o v[j].code
<1>. DEFINE Coded(j) == [i \in 1 .. j |-> v[i].code]
<1>1. Len(v) \in Nat /\ \A i \in 1 .. Len(v) : v[i].code \in Seq(Byte)
  <2>1. \A i \in 1 .. Len(v) : v[i] \in Element
    OBVIOUS
  <2>. QED
    BY <2>1 DEF Element
<1>2. ASSUME NEW j \in 0 .. Len(v)
      PROVE  Upto(v, j) = FlattenSeq(Coded(j)) /\ Coded(j) \in Seq(Seq(Byte)) /\ Len(Coded(j)) = j
  <2>1. Len(SubSeq(v, 1, j)) = j /\ \A i \in 1 .. j : SubSeq(v, 1, j)[i] = v[i]
    BY <1>1
  <2>2. [i \in 1 .. Len(SubSeq(v, 1, j)) |-> SubSeq(v, 1, j)[i].code] = Coded(j)
    BY <2>1
  <2>3. j \in Nat /\ Coded(j) \in [1 .. j -> Seq(Byte)]
    BY <1>1
  <2>. QED
    BY <2>2, <2>3, SeqIs DEF Upto, Concatenated
<1>3. Upto(v, 0) = << >>
  <2>1. Coded(0) = << >>
    OBVIOUS
  <2>2. FlattenSeq(<< >>) = << >>
    BY DEF FlattenSeq
  <2>3. Upto(v, 0) = FlattenSeq(Coded(0))
    <3>1. 0 \in 0 .. Len(v)
      BY <1>1
    <3>. HIDE DEF Coded
    <3>. QED
      BY <1>2, <3>1
  <2>. QED
    BY <2>1, <2>2, <2>3
<1>4. Upto(v, Len(v)) = Concatenated(v)
  BY SubSeqFull DEF Upto
<1>5. \A j \in 0 .. Len(v) : Upto(v, j) \in Seq(Byte)
  <2>. HIDE DEF Coded
  <2>. QED
    BY <1>2, FlattenAppend
<1>6. ASSUME NEW j \in 1 .. Len(v) PROVE Upto(v, j) = Upto(v, j - 1) \o v[j].code
  <2>1. j - 1 \in 0 .. Len(v) /\ j \in 0 .. Len(v) /\ (j - 1) + 1 = j
    OBVIOUS
  <2>2. Coded(j) = Append(Coded(j - 1), v[j].code)
    <3>1. Coded(j - 1) \in Seq(Seq(Byte)) /\ Len(Coded(j - 1)) = j - 1
      BY <1>2, <2>1
    <3>2. Append(Coded(j - 1), v[j].code) =
            [i \in 1 .. (j - 1) + 1 |-> IF i = (j - 1) + 1 THEN v[j].code ELSE Coded(j - 1)[i]]
      BY <3>1
    <3>3. \A i \in 1 .. j : i # j => Coded(j - 1)[i] = v[i].code
      OBVIOUS
    <3>. QED
      BY <2>1, <3>2, <3>3
  <2>3. v[j].code \in Seq(Byte)
    BY <1>1
  <2>4. Coded(j - 1) \in Seq(Seq(Byte))
    BY <1>2, <2>1
  <2>. HIDE DEF Coded
  <2>. QED
    BY <1>2, <2>1, <2>2, <2>3, <2>4, FlattenAppend
<1>. QED
  BY <1>3, <1>4, <1>5, <1>6

(* The first elements are how the whole starts.                            *)
LEMMA UptoStarts ==
  ASSUME NEW v \in Seq(Element), NEW j \in 0 .. Len(v)
  PROVE  Starts(Upto(v, j), Concatenated(v))
<1>. DEFINE S == {i \in Nat : i >= j /\ i <= Len(v) => Starts(Upto(v, j), Upto(v, i))}
<1>1. Len(v) \in Nat /\ j \in Nat
  OBVIOUS
<1>2. Starts(Upto(v, j), Upto(v, j))
  BY UptoIs DEF Starts
<1>3. 0 \in S
  BY <1>1, <1>2
<1>4. ASSUME NEW i \in S PROVE i + 1 \in S
  <2>1. SUFFICES ASSUME i + 1 > j, i + 1 <= Len(v) PROVE Starts(Upto(v, j), Upto(v, i + 1))
    BY <1>1, <1>2
  <2>2. Starts(Upto(v, j), Upto(v, i))
    BY <1>1, <2>1
  <2>3. i + 1 \in 1 .. Len(v) /\ (i + 1) - 1 = i /\ i \in 0 .. Len(v)
    BY <1>1, <2>1
  <2>4. /\ Upto(v, i + 1) = Upto(v, i) \o v[i + 1].code /\ v[i + 1].code \in Seq(Byte)
        /\ Upto(v, i) \in Seq(Byte) /\ Upto(v, j) \in Seq(Byte)
    <3>1. v[i + 1] \in Element
      BY <2>3
    <3>. QED
      BY <2>3, <3>1, UptoIs DEF Element
  <2>5. /\ Len(Upto(v, i + 1)) = Len(Upto(v, i)) + Len(v[i + 1].code)
        /\ \A x \in 1 .. Len(Upto(v, i)) : Upto(v, i + 1)[x] = Upto(v, i)[x]
    BY <2>4, ConcatProperties
  <2>. QED
    BY <2>2, <2>4, <2>5 DEF Starts
<1>5. S = Nat
  <2>. HIDE DEF S
  <2>1. S \in SUBSET Nat
    BY DEF S
  <2>. QED
    BY <1>3, <1>4, <2>1, NatSetInduction
<1>6. Len(v) \in S
  <2>. HIDE DEF S
  <2>. QED
    BY <1>1, <1>5
<1>7. Starts(Upto(v, j), Upto(v, Len(v)))
  BY <1>1, <1>6
<1>8. Upto(v, Len(v)) = Concatenated(v)
  BY UptoIs
<1>. QED
  BY <1>7, <1>8

-----------------------------------------------------------------------------
(* What a reader is shown.                                                 *)

\* The bytes of the views, one behind the other; an absent option has none.
Shown(views) == FlattenSeq(FlattenSeq(views))

LEMMA ViewsIn ==
  ASSUME NEW t \in Types, NEW c \in Codes[t]
  PROVE  c \in Seq(Byte) /\ << c >> \in Views
<1>1. c \in Seq(Byte)
  BY TupleCodesAssumption
<1>2. c \in UNION {Codes[u] : u \in Types}
  OBVIOUS
<1>. QED
  BY <1>1, <1>2 DEF Views

LEMMA ViewsAreSeqs == NoView \in Views /\ Views \subseteq Seq(Seq(Byte))
<1>1. ASSUME NEW x \in Views PROVE x \in Seq(Seq(Byte))
  <2>1. CASE x = NoView
    BY <2>1 DEF NoView
  <2>2. CASE \E c \in UNION {Codes[t] : t \in Types} : x = << c >>
    <3>1. PICK t \in Types : \E c \in Codes[t] : x = << c >>
      BY <2>2
    <3>. PICK c \in Codes[t] : x = << c >>
      BY <3>1
    <3>2. c \in Seq(Byte)
      BY ViewsIn
    <3>. QED
      BY <3>2
  <2>. QED
    BY <2>1, <2>2 DEF Views
<1>. QED
  BY <1>1 DEF Views

LEMMA ShownGrows ==
  ASSUME NEW s \in Seq(Views)
  PROVE  /\ Shown(<< >>) = << >> /\ Shown(s) \in Seq(Byte)
         /\ Shown(Append(s, NoView)) = Shown(s)
         /\ \A t \in Types : \A c \in Codes[t] : Shown(Append(s, << c >>)) = Shown(s) \o c
<1>1. s \in Seq(Seq(Seq(Byte)))
  <2>1. \A i \in 1 .. Len(s) : s[i] \in Seq(Seq(Byte))
    BY ViewsAreSeqs
  <2>2. Len(s) \in Nat /\ s \in [1 .. Len(s) -> Seq(Seq(Byte))]
    BY <2>1
  <2>. QED
    BY <2>2, SeqIs
<1>2. PICK f : f = FlattenSeq(s)
  OBVIOUS
<1>3. f \in Seq(Seq(Byte)) /\ FlattenSeq(<< >>) = << >>
  BY <1>1, <1>2, FlattenAppend, EmptySeq
<1>4. FlattenSeq(f) \in Seq(Byte)
  BY <1>3, FlattenAppend, EmptySeq
<1>5. Shown(Append(s, NoView)) = Shown(s)
  <2>1. << >> \in Seq(Seq(Byte)) /\ f \o << >> = f
    BY <1>3
  <2>2. FlattenSeq(Append(s, << >>)) = f \o << >>
    BY <1>1, <1>2, <2>1, FlattenAppend
  <2>. QED
    BY <1>2, <2>1, <2>2 DEF Shown, NoView
<1>6. ASSUME NEW t \in Types, NEW c \in Codes[t] PROVE Shown(Append(s, << c >>)) = Shown(s) \o c
  <2>1. c \in Seq(Byte)
    BY ViewsIn
  <2>2. << c >> \in Seq(Seq(Byte))
    BY <2>1
  <2>3. FlattenSeq(Append(s, << c >>)) = f \o << c >>
    BY <1>1, <1>2, <2>2, FlattenAppend
  <2>4. f \o << c >> = Append(f, c)
    <3>1. PICK V : V = Seq(Byte)
      OBVIOUS
    <3>2. f \in Seq(V) /\ c \in V
      BY <1>3, <2>1, <3>1
    <3>. QED
      BY <3>2, AppendIsConcat
  <2>5. FlattenSeq(Append(f, c)) = FlattenSeq(f) \o c
    BY <1>3, <2>1, FlattenAppend
  <2>. QED
    BY <1>2, <2>3, <2>4, <2>5 DEF Shown
<1>. QED
  BY <1>2, <1>3, <1>4, <1>5, <1>6 DEF Shown

-----------------------------------------------------------------------------
(* The inductive invariant.                                                *)

AllFit(v, j) == \A i \in 1 .. j : v[i].fits

\* The first j elements of v are encoded from lo to hi.
Filled(m, lo, hi, v, j) == hi = lo + Len(Upto(v, j)) /\ Bytes(m, lo, hi) = Upto(v, j)

(* Which call is in which phase.                                           *)
PhaseInv ==
  /\ pc = "len" => op = "encode"
  /\ pc = "write" => op \in {"encode", "encode_to"} /\ wrote = NoTuple
  /\ pc = "read" => op = "read"
  /\ pc # "idle" => ret.res = "none"
  /\ slice.lo <= slice.hi
  /\ op \in {"encode", "encode_to"} => tuple \in Tuples /\ k \in 1 .. Len(tuple) + 1
  /\ op = "read" => reader \in Readers /\ k \in 1 .. Len(reader.types)

(* encoded_len has summed the elements before the one it is at, and they   *)
(* fit.                                                                    *)
LenInv ==
  pc = "len" => /\ len = Len(Upto(tuple, k - 1)) /\ AllFit(tuple, k - 1)
                /\ mem = before /\ rest = 0

(* encode_to has written the elements before the one it is at; a buffer    *)
(* that encode allocated has room for them all.                            *)
FilledInv ==
  pc = "write" =>
    /\ AllFit(tuple, k - 1) /\ rest \in slice.lo .. slice.hi
    /\ Filled(mem, slice.lo, rest, tuple, k - 1)
    /\ op = "encode" => /\ slice.lo = 0 /\ slice.hi = Len(Concatenated(tuple))
                        /\ AllFit(tuple, Len(tuple))

(* ... and changed nothing else.                                           *)
StoredInv ==
  op = "encode_to" =>
    /\ mem = Write(before, slice.lo, Upto(tuple, k - 1))
    /\ pc = "idle" => (ret.res = "ok" <=> k = Len(tuple) + 1)

(* The views a reader has so far are the bytes it has passed.              *)
ReadInv ==
  pc = "read" => /\ rest \in slice.lo .. slice.hi /\ Len(ret.views) = k - 1
                 /\ Shown(ret.views) = Bytes(mem, slice.lo, rest)

(* The last tuple written completely is still there.                       *)
WroteInv ==
  wrote # NoTuple =>
    /\ wrote.tuple \in Tuples /\ AllFit(wrote.tuple, Len(wrote.tuple))
    /\ Filled(mem, wrote.lo, wrote.hi, wrote.tuple, Len(wrote.tuple))

(* A reader of that tuple is at the element it is at, and has shown those  *)
(* before it.                                                              *)
BackInv ==
  pc = "read" /\ ReadsItsTuple =>
    /\ rest = wrote.lo + Len(Upto(wrote.tuple, k - 1))
    /\ \A i \in 1 .. k - 1 : Readable(i) /\ ret.views[i] = << wrote.tuple[i].code >>

Promises == EncodeFillsItsBuffer /\ ReadConsumesAll /\ TupleReadsBack

TupleInv ==
  /\ TupleTypeOK /\ PhaseInv /\ LenInv /\ FilledInv /\ StoredInv
  /\ ReadInv /\ WroteInv /\ BackInv /\ Promises

-----------------------------------------------------------------------------
(* The actions.                                                            *)

LEMMA TupleIs ==
  ASSUME NEW v \in Tuples
  PROVE  /\ v \in Seq(Element) /\ Len(v) \in Nat \ {0}
         /\ Upto(v, 0) = << >> /\ Upto(v, Len(v)) = Concatenated(v)
         /\ \A j \in 0 .. Len(v) : Upto(v, j) \in Seq(Byte) /\ Len(Upto(v, j)) \in Nat
         /\ \A j \in 1 .. Len(v) :
              /\ v[j] \in Element /\ v[j].code \in Seq(Byte) /\ Len(v[j].code) \in Nat
              /\ Upto(v, j) = Upto(v, j - 1) \o v[j].code
              /\ Len(Upto(v, j)) = Len(Upto(v, j - 1)) + Len(v[j].code)
              /\ Starts(Upto(v, j), Concatenated(v))
<1>1. v \in Seq(Element) /\ Len(v) \in Nat \ {0}
  BY TupleCallsAssumption
<1>2. \A j \in 0 .. Len(v) : Upto(v, j) \in Seq(Byte) /\ Len(Upto(v, j)) \in Nat
  BY <1>1, UptoIs, LenProperties
<1>3. ASSUME NEW j \in 1 .. Len(v)
      PROVE  /\ v[j] \in Element /\ v[j].code \in Seq(Byte) /\ Len(v[j].code) \in Nat
             /\ Upto(v, j) = Upto(v, j - 1) \o v[j].code
             /\ Len(Upto(v, j)) = Len(Upto(v, j - 1)) + Len(v[j].code)
             /\ Starts(Upto(v, j), Concatenated(v))
  <2>1. v[j] \in Element
    BY <1>1
  <2>2. v[j].code \in Seq(Byte) /\ Len(v[j].code) \in Nat
    BY <2>1 DEF Element
  <2>3. Upto(v, j) = Upto(v, j - 1) \o v[j].code
    BY <1>1, UptoIs
  <2>4. j - 1 \in 0 .. Len(v) /\ j \in 0 .. Len(v)
    BY <1>1
  <2>5. Len(Upto(v, j)) = Len(Upto(v, j - 1)) + Len(v[j].code)
    BY <1>2, <2>2, <2>3, <2>4, ConcatProperties
  <2>6. Starts(Upto(v, j), Concatenated(v))
    BY <1>1, <2>4, UptoStarts
  <2>. QED
    BY <2>1, <2>2, <2>3, <2>5, <2>6
<1>. QED
  BY <1>1, <1>2, <1>3, UptoIs

LEMMA TupleInitially == Init => TupleInv
<1>. SUFFICES ASSUME Init PROVE TupleInv
  OBVIOUS
<1>1. << >> \in Seq(Views)
  OBVIOUS
<1>2. TupleTypeOK
  BY <1>1, TupleCodesAssumption, TupleCallsAssumption DEF Init, TupleTypeOK, NoTuple, NoReader
<1>3. PhaseInv /\ LenInv /\ FilledInv /\ StoredInv /\ ReadInv /\ WroteInv /\ BackInv
  BY DEF Init, PhaseInv, LenInv, FilledInv, StoredInv, ReadInv, WroteInv, BackInv
<1>4. Promises
  BY DEF Init, Promises, EncodeFillsItsBuffer, ReadConsumesAll, TupleReadsBack, Returned
<1>. QED
  BY <1>2, <1>3, <1>4 DEF TupleInv

\* A call has started: nothing is promised until it returns.
LEMMA RunningPromises == pc' # "idle" => Promises'
BY DEF Promises, EncodeFillsItsBuffer, ReadConsumesAll, TupleReadsBack, Returned

LEMMA StartEncodeNext == TupleInv /\ StartEncode => TupleInv'
<1>. SUFFICES ASSUME TupleInv, StartEncode PROVE TupleInv'
  OBVIOUS
<1>1. TupleTypeOK /\ PhaseInv /\ WroteInv
  BY DEF TupleInv
<1>2. /\ pc = "idle" /\ pc' = "len" /\ op' = "encode" /\ k' = 1 /\ len' = 0 /\ rest' = 0
      /\ slice' = [lo |-> 0, hi |-> 0] /\ base' = base /\ calls < MaxCalls /\ calls' = calls + 1
      /\ ret' = [res |-> "none", views |-> << >>] /\ mem' = mem /\ before' = mem
      /\ tuple' \in Tuples /\ reader' = reader /\ wrote' = wrote
  BY DEF StartEncode, Start
<1>3. /\ Len(tuple') \in Nat \ {0} /\ Upto(tuple', 0) = << >>
  BY <1>2, TupleIs
<1>4. TupleTypeOK'
  <2>1. << >> \in Seq(Views)
    OBVIOUS
  <2>. QED
    BY <1>1, <1>2, <2>1, TupleCodesAssumption, TupleCallsAssumption DEF TupleTypeOK
<1>5. PhaseInv'
  BY <1>2, <1>3 DEF PhaseInv
<1>6. LenInv'
  BY <1>2, <1>3 DEF LenInv, AllFit
<1>7. WroteInv'
  BY <1>1, <1>2 DEF WroteInv
<1>8. FilledInv' /\ StoredInv' /\ ReadInv' /\ BackInv'
  BY <1>2 DEF FilledInv, StoredInv, ReadInv, BackInv
<1>9. Promises'
  BY <1>2, RunningPromises
<1>. QED
  BY <1>4, <1>5, <1>6, <1>7, <1>8, <1>9 DEF TupleInv

LEMMA ElementLenNext == TupleInv /\ ElementLen => TupleInv'
<1>. SUFFICES ASSUME TupleInv, ElementLen PROVE TupleInv'
  OBVIOUS
<1>. DEFINE c == tuple[k].code
<1>1. TupleTypeOK /\ PhaseInv /\ LenInv /\ WroteInv
  BY DEF TupleInv
<1>2. /\ pc = "len" /\ k <= Len(tuple) /\ mem' = mem /\ base' = base /\ calls' = calls /\ op' = op
      /\ tuple' = tuple /\ reader' = reader /\ before' = before /\ slice' = slice
      /\ rest' = rest /\ wrote' = wrote
  BY DEF ElementLen, argVars, callVars
<1>3. /\ op = "encode" /\ tuple \in Tuples /\ k \in 1 .. Len(tuple) /\ ret.res = "none"
      /\ len = Len(Upto(tuple, k - 1)) /\ AllFit(tuple, k - 1) /\ mem = before /\ rest = 0
  BY <1>1, <1>2 DEF PhaseInv, LenInv, TupleTypeOK
<1>4. /\ Len(tuple) \in Nat /\ Len(c) \in Nat
      /\ Len(Upto(tuple, k)) = Len(Upto(tuple, k - 1)) + Len(c)
  BY <1>3, TupleIs
<1>. HIDE DEF c
<1>0. len + Len(c) <= WordMax <=> ~(len + Len(c) > WordMax)
  BY <1>1, <1>4, TupleCodesAssumption DEF TupleTypeOK
<1>5. CASE tuple[k].fits /\ len + Len(c) <= WordMax
  <2>1. len' = len + Len(c) /\ k' = k + 1 /\ pc' = pc /\ ret' = ret
    <3>1. AddLen(Len(c))
      BY <1>5 DEF ElementLen, c
    <3>2. ~(len + Len(c) > WordMax)
      BY <1>0, <1>5
    <3>. QED
      BY <3>1, <3>2, Zenon DEF AddLen
  <2>2. TupleTypeOK'
    <3>1. len' \in 0 .. WordMax
      BY <1>1, <1>4, <1>5, <2>1, TupleCodesAssumption DEF TupleTypeOK
    <3>2. k' \in Nat \ {0}
      BY <1>3, <1>4, <2>1
    <3>. QED
      BY <1>1, <1>2, <2>1, <3>1, <3>2 DEF TupleTypeOK
  <2>3. PhaseInv'
    BY <1>1, <1>2, <1>3, <1>4, <2>1 DEF PhaseInv
  <2>4. LenInv'
    <3>1. k' - 1 = k
      BY <1>3, <2>1
    <3>2. \A i \in 1 .. k : i = k \/ i \in 1 .. k - 1
      BY <1>3
    <3>3. AllFit(tuple, k)
      BY <1>3, <1>5, <3>2 DEF AllFit
    <3>. QED
      BY <1>2, <1>3, <1>4, <2>1, <3>1, <3>3 DEF LenInv
  <2>5. WroteInv'
    BY <1>1, <1>2 DEF WroteInv
  <2>6. FilledInv' /\ StoredInv' /\ ReadInv' /\ BackInv'
    BY <1>2, <1>3, <2>1 DEF FilledInv, StoredInv, ReadInv, BackInv
  <2>7. Promises'
    BY <1>2, <2>1, RunningPromises
  <2>. QED
    BY <2>2, <2>3, <2>4, <2>5, <2>6, <2>7 DEF TupleInv
<1>6. CASE ~(tuple[k].fits /\ len + Len(c) <= WordMax)
  <2>1. /\ len' = len /\ k' = k /\ pc' = "idle"
        /\ ret' = [ret EXCEPT !.res = "LengthExceedsCapacity"]
    BY <1>0, <1>6 DEF ElementLen, AddLen, Return, c
  <2>2. TupleTypeOK'
    BY <1>1, <1>2, <2>1 DEF TupleTypeOK
  <2>3. PhaseInv'
    BY <1>1, <1>2, <1>3, <2>1 DEF PhaseInv
  <2>5. WroteInv'
    BY <1>1, <1>2 DEF WroteInv
  <2>6. LenInv' /\ FilledInv' /\ StoredInv' /\ ReadInv' /\ BackInv'
    BY <1>2, <1>3, <2>1 DEF LenInv, FilledInv, StoredInv, ReadInv, BackInv
  <2>7. Promises'
    <3>1. ret'.res = "LengthExceedsCapacity"
      BY <1>1, <2>1 DEF TupleTypeOK
    <3>. QED
      BY <1>2, <1>3, <3>1
      DEF Promises, EncodeFillsItsBuffer, ReadConsumesAll, TupleReadsBack, Returned
  <2>. QED
    BY <2>2, <2>3, <2>5, <2>6, <2>7 DEF TupleInv
<1>. QED
  BY <1>5, <1>6

LEMMA NoTupleTyped == NoTuple \in [lo : 0 .. WordMax, hi : -1 .. WordMax, tuple : Tuples \cup {<< >>}]
BY TupleCodesAssumption DEF NoTuple

LEMMA AllocateNext == TupleInv /\ Allocate => TupleInv'
<1>. SUFFICES ASSUME TupleInv, Allocate PROVE TupleInv'
  OBVIOUS
<1>1. TupleTypeOK /\ PhaseInv /\ LenInv
  BY DEF TupleInv
<1>0. mem' = Write(mem, 0, [i \in 1 .. len |-> 0])
  BY DEF Allocate
<1>2. /\ pc = "len" /\ k > Len(tuple) /\ pc' = "write" /\ k' = 1 /\ wrote' = NoTuple
      /\ slice' = [lo |-> 0, hi |-> len]
      /\ base' \in 0 .. BaseAlign - 1 /\ calls' = calls /\ op' = op /\ tuple' = tuple
      /\ reader' = reader /\ before' = before /\ len' = len /\ rest' = rest /\ ret' = ret
  BY DEF Allocate, argVars
<1>3. /\ op = "encode" /\ tuple \in Tuples /\ k \in 1 .. Len(tuple) + 1 /\ ret.res = "none"
      /\ len = Len(Upto(tuple, k - 1)) /\ AllFit(tuple, k - 1) /\ rest = 0
  BY <1>1, <1>2 DEF PhaseInv, LenInv
<1>4. /\ Len(tuple) \in Nat \ {0} /\ Upto(tuple, 0) = << >>
      /\ Upto(tuple, Len(tuple)) = Concatenated(tuple)
  BY <1>3, TupleIs
<1>5. k - 1 = Len(tuple)
  BY <1>2, <1>3, <1>4
<1>6. mem' \in [Addresses -> Byte]
  <2>1. PICK z : z = [i \in 1 .. len |-> 0]
    OBVIOUS
  <2>2. len \in 0 .. WordMax /\ mem \in [Addresses -> Byte]
    BY <1>1 DEF TupleTypeOK
  <2>3. len \in Nat /\ z \in [1 .. len -> Byte]
    BY <2>1, <2>2, TupleCodesAssumption
  <2>4. z \in Seq(Byte) /\ Len(z) = len
    BY <2>3, SeqIs
  <2>5. 0 \in Nat /\ 0 + Len(z) <= WordMax
    BY <2>2, <2>4, TupleCodesAssumption
  <2>. QED
    BY <1>0, <2>1, <2>2, <2>4, <2>5, WriteIs DEF Written
<1>7. TupleTypeOK'
  <2>1. 0 \in 0 .. WordMax /\ len \in 0 .. WordMax
    BY <1>1, TupleCodesAssumption DEF TupleTypeOK
  <2>2. slice' \in [lo : 0 .. WordMax, hi : 0 .. WordMax]
    BY <1>2, <2>1
  <2>. QED
    BY <1>1, <1>2, <1>6, <2>2, NoTupleTyped DEF TupleTypeOK
<1>8. PhaseInv'
  <2>1. len >= 0
    BY <1>1, TupleCodesAssumption DEF TupleTypeOK
  <2>. QED
    BY <1>2, <1>3, <1>4, <2>1 DEF PhaseInv
<1>9. FilledInv'
  <2>1. 0 \in 0 .. WordMax /\ len \in 0 .. WordMax
    BY <1>1, TupleCodesAssumption DEF TupleTypeOK
  <2>2. Bytes(mem', 0, 0) = << >>
    BY <1>6, <2>1, BytesAre DEF Bytes
  <2>3. Filled(mem', 0, 0, tuple, 0)
    BY <1>4, <2>2 DEF Filled
  <2>4. AllFit(tuple, Len(tuple)) /\ AllFit(tuple, 0)
    BY <1>3, <1>5 DEF AllFit
  <2>5. slice'.lo = 0 /\ slice'.hi = len /\ k' - 1 = 0 /\ rest' = 0 /\ rest' \in slice'.lo .. slice'.hi
    BY <1>2, <1>3, <2>1, TupleCodesAssumption
  <2>. QED
    BY <1>2, <1>3, <1>4, <1>5, <2>3, <2>4, <2>5 DEF FilledInv
<1>10. LenInv' /\ StoredInv' /\ ReadInv' /\ WroteInv' /\ BackInv'
  BY <1>2, <1>3 DEF LenInv, StoredInv, ReadInv, WroteInv, BackInv
<1>11. Promises'
  BY <1>2, RunningPromises
<1>. QED
  BY <1>7, <1>8, <1>9, <1>10, <1>11 DEF TupleInv

LEMMA StartEncodeToNext == TupleInv /\ StartEncodeTo => TupleInv'
<1>. SUFFICES ASSUME TupleInv, StartEncodeTo PROVE TupleInv'
  OBVIOUS
<1>1. TupleTypeOK
  BY DEF TupleInv
<1>2. PICK s \in Slices :
      /\ pc' = "write" /\ op' = "encode_to" /\ k' = 1 /\ len' = 0 /\ rest' = s.lo
      /\ slice' = s /\ base' = base /\ calls < MaxCalls /\ calls' = calls + 1
      /\ ret' = [res |-> "none", views |-> << >>] /\ mem' = mem /\ before' = mem
      /\ tuple' \in Tuples /\ reader' = reader /\ wrote' = NoTuple
  BY DEF StartEncodeTo, Start
<1>3. Len(tuple') \in Nat \ {0} /\ Upto(tuple', 0) = << >>
  BY <1>2, TupleIs
<1>4. /\ s \in [lo : 0 .. WordMax, hi : 0 .. WordMax] /\ s.lo \in 0 .. WordMax /\ s.hi \in 0 .. WordMax
      /\ s.lo <= s.hi
  BY TupleCallsAssumption
<1>5. TupleTypeOK'
  <2>1. << >> \in Seq(Views)
    OBVIOUS
  <2>2. calls' \in 0 .. MaxCalls
    BY <1>1, <1>2, TupleCallsAssumption DEF TupleTypeOK
  <2>3. len' \in 0 .. WordMax /\ k' \in Nat \ {0} /\ rest' \in 0 .. WordMax
    BY <1>2, <1>4, TupleCodesAssumption
  <2>4. slice' \in [lo : 0 .. WordMax, hi : 0 .. WordMax]
    BY <1>2, <1>4
  <2>5. wrote' \in [lo : 0 .. WordMax, hi : -1 .. WordMax, tuple : Tuples \cup {<< >>}]
    BY <1>2, NoTupleTyped
  <2>6. ret' \in [res : {"none", "ok", "LengthExceedsCapacity", "OutputBufferTooSmall", "refused"},
                  views : Seq(Views)]
    BY <1>2, <2>1
  <2>. QED
    BY <1>1, <1>2, <2>2, <2>3, <2>4, <2>5, <2>6 DEF TupleTypeOK
<1>6. PhaseInv'
  BY <1>2, <1>3, <1>4 DEF PhaseInv
<1>7. FilledInv'
  <2>1. Bytes(mem', s.lo, s.lo) = << >>
    BY <1>4 DEF Bytes
  <2>2. Filled(mem', s.lo, s.lo, tuple', 0)
    BY <1>3, <1>4, <2>1 DEF Filled
  <2>3. AllFit(tuple', 0) /\ s.lo \in s.lo .. s.hi /\ k' - 1 = 0
    BY <1>2, <1>4 DEF AllFit
  <2>. QED
    BY <1>2, <2>2, <2>3 DEF FilledInv
<1>8. StoredInv'
  <2>1. << >> \in Seq(Byte) /\ Len(<< >>) = 0
    OBVIOUS
  <2>2. s.lo \in Nat /\ s.lo + Len(<< >>) <= WordMax /\ mem \in [Addresses -> Byte]
    BY <1>1, <1>4, TupleCodesAssumption DEF TupleTypeOK
  <2>3. Write(mem, s.lo, << >>) = mem
    BY <2>1, <2>2, WriteIs DEF Written
  <2>. QED
    BY <1>2, <1>3, <2>3 DEF StoredInv
<1>9. LenInv' /\ ReadInv' /\ WroteInv' /\ BackInv'
  BY <1>2 DEF LenInv, ReadInv, WroteInv, BackInv
<1>10. Promises'
  BY <1>2, RunningPromises
<1>. QED
  BY <1>5, <1>6, <1>7, <1>8, <1>9, <1>10 DEF TupleInv

\* Element j written behind the ones before it.
LEMMA FilledNext ==
  ASSUME NEW m \in [Addresses -> Byte], NEW lo \in Nat, NEW hi \in lo .. WordMax,
         NEW v \in Tuples, NEW j \in 1 .. Len(v), Filled(m, lo, hi, v, j - 1),
         hi + Len(v[j].code) <= WordMax
  PROVE  /\ Write(m, hi, v[j].code) \in [Addresses -> Byte]
         /\ Filled(Write(m, hi, v[j].code), lo, hi + Len(v[j].code), v, j)
<1>. DEFINE c == v[j].code
            w == Write(m, hi, c)
<1>1. /\ c \in Seq(Byte) /\ Len(c) \in Nat /\ Upto(v, j) = Upto(v, j - 1) \o c
      /\ Len(Upto(v, j)) = Len(Upto(v, j - 1)) + Len(c)
  BY TupleIs
<1>2. hi = lo + Len(Upto(v, j - 1)) /\ Bytes(m, lo, hi) = Upto(v, j - 1)
  BY DEF Filled
<1>3. Len(Upto(v, j - 1)) \in Nat
  <2>1. Len(v) \in Nat
    BY TupleIs
  <2>2. j - 1 \in 0 .. Len(v)
    BY <2>1
  <2>. QED
    BY <2>2, TupleIs
<1>4. hi \in Nat /\ lo \in 0 .. hi
  OBVIOUS
<1>. HIDE DEF c
<1>5. /\ w \in [Addresses -> Byte] /\ Bytes(w, hi, hi + Len(c)) = c
      /\ Bytes(w, lo, hi) = Bytes(m, lo, hi)
  <2>1. m \in [Addresses -> Byte] /\ hi \in Nat /\ c \in Seq(Byte) /\ hi + Len(c) <= WordMax
    BY <1>1, <1>4 DEF c
  <2>2. Written(w, m, hi, c)
    BY ONLY <2>1, WriteIs DEF w
  <2>. HIDE DEF w
  <2>. QED
    BY <1>4, <2>2 DEF Written
<1>. HIDE DEF w
<1>6. Bytes(w, lo, hi) \o Bytes(w, hi, hi + Len(c)) = Bytes(w, lo, hi + Len(c))
  <2>1. hi + Len(c) \in hi .. WordMax
    BY <1>1, <1>4, TupleCodesAssumption DEF c
  <2>. QED
    BY <1>5, <2>1, BytesJoin
<1>7. Bytes(w, lo, hi + Len(c)) = Upto(v, j)
  BY <1>1, <1>2, <1>5, <1>6
<1>8. hi + Len(c) = lo + Len(Upto(v, j))
  BY <1>1, <1>2, <1>3
<1>. QED
  BY <1>5, <1>7, <1>8 DEF Filled, w, c

LEMMA WriteElementNext == TupleInv /\ WriteElement => TupleInv'
<1>. SUFFICES ASSUME TupleInv, WriteElement PROVE TupleInv'
  OBVIOUS
<1>. DEFINE c == tuple[k].code
<1>1. TupleTypeOK /\ PhaseInv /\ FilledInv /\ StoredInv
  BY DEF TupleInv
<1>2. /\ pc = "write" /\ k <= Len(tuple) /\ base' = base /\ calls' = calls /\ op' = op
      /\ tuple' = tuple /\ reader' = reader /\ before' = before /\ slice' = slice
      /\ len' = len /\ wrote' = wrote
  BY DEF WriteElement, argVars, callVars
<1>3. /\ op \in {"encode", "encode_to"} /\ tuple \in Tuples /\ k \in 1 .. Len(tuple)
      /\ ret.res = "none" /\ wrote = NoTuple /\ rest \in slice.lo .. slice.hi
      /\ AllFit(tuple, k - 1) /\ Filled(mem, slice.lo, rest, tuple, k - 1)
      /\ op = "encode" => /\ slice.lo = 0 /\ slice.hi = Len(Concatenated(tuple))
                          /\ AllFit(tuple, Len(tuple))
  BY <1>1, <1>2 DEF PhaseInv, FilledInv, TupleTypeOK
<1>4. /\ Len(tuple) \in Nat /\ c \in Seq(Byte) /\ Len(c) \in Nat
      /\ Len(Upto(tuple, k)) = Len(Upto(tuple, k - 1)) + Len(c)
      /\ Upto(tuple, k) = Upto(tuple, k - 1) \o c
      /\ Starts(Upto(tuple, k), Concatenated(tuple))
  BY <1>3, TupleIs
<1>5. /\ slice.lo \in 0 .. WordMax /\ slice.hi \in 0 .. WordMax /\ rest \in 0 .. WordMax
      /\ WordMax \in Nat /\ slice.lo <= slice.hi /\ mem \in [Addresses -> Byte]
      /\ before \in [Addresses -> Byte]
  BY <1>1, TupleCodesAssumption DEF TupleTypeOK, PhaseInv
<1>6. rest = slice.lo + Len(Upto(tuple, k - 1))
  BY <1>3 DEF Filled
<1>7. k - 1 \in 0 .. Len(tuple) /\ Upto(tuple, k - 1) \in Seq(Byte)
  <2>1. k - 1 \in 0 .. Len(tuple)
    BY <1>3, <1>4
  <2>. QED
    BY <1>3, <2>1, TupleIs
<1>. HIDE DEF c
<1>8. CASE tuple[k].fits /\ ~(slice.hi - rest < Len(c))
  <2>1. /\ mem' = Write(mem, rest, c) /\ rest' = rest + Len(c) /\ k' = k + 1
        /\ pc' = pc /\ ret' = ret
    BY <1>8, Zenon DEF WriteElement, NextRest, c
  <2>2. rest + Len(c) <= slice.hi /\ rest + Len(c) <= WordMax
    BY <1>3, <1>4, <1>5, <1>8
  <2>3. mem' \in [Addresses -> Byte] /\ Filled(mem', slice.lo, rest', tuple, k)
    <3>1. /\ mem \in [Addresses -> Byte] /\ slice.lo \in Nat /\ rest \in slice.lo .. WordMax
          /\ tuple \in Tuples /\ k \in 1 .. Len(tuple) /\ Filled(mem, slice.lo, rest, tuple, k - 1)
          /\ rest + Len(tuple[k].code) <= WordMax
      BY <1>3, <1>5, <2>2 DEF c
    <3>2. /\ Write(mem, rest, tuple[k].code) \in [Addresses -> Byte]
          /\ Filled(Write(mem, rest, tuple[k].code), slice.lo, rest + Len(tuple[k].code), tuple, k)
      BY ONLY <3>1, FilledNext
    <3>. QED
      BY <2>1, <3>2 DEF c
  <2>4. rest' \in slice.lo .. slice.hi /\ rest' \in 0 .. WordMax
    BY <1>3, <1>4, <1>5, <2>1, <2>2
  <2>5. k' - 1 = k /\ k' \in 1 .. Len(tuple) + 1 /\ k' \in Nat \ {0}
    BY <1>3, <1>4, <2>1
  <2>6. TupleTypeOK'
    BY <1>1, <1>2, <2>1, <2>3, <2>4, <2>5 DEF TupleTypeOK
  <2>7. PhaseInv'
    BY <1>1, <1>2, <1>3, <2>1, <2>5 DEF PhaseInv
  <2>8. AllFit(tuple, k)
    <3>1. \A i \in 1 .. k : i = k \/ i \in 1 .. k - 1
      BY <1>3
    <3>. QED
      BY <1>3, <1>8, <3>1 DEF AllFit
  <2>9. FilledInv'
    BY <1>2, <1>3, <2>1, <2>3, <2>4, <2>5, <2>8 DEF FilledInv
  <2>10. StoredInv'
    <3>1. CASE op = "encode_to"
      <4>1. mem = Write(before, slice.lo, Upto(tuple, k - 1))
        BY <1>1, <3>1 DEF StoredInv
      <4>2. mem' = Write(Write(before, slice.lo, Upto(tuple, k - 1)),
                         slice.lo + Len(Upto(tuple, k - 1)), c)
        BY <1>6, <2>1, <4>1
      <4>3. mem' = Write(before, slice.lo, Upto(tuple, k))
        <5>1. PICK u : u = Upto(tuple, k - 1)
          OBVIOUS
        <5>2. /\ before \in [Addresses -> Byte] /\ slice.lo \in Nat
              /\ u \in Seq(Byte) /\ c \in Seq(Byte)
          BY <1>4, <1>5, <1>7, <5>1
        <5>3. Write(Write(before, slice.lo, u), slice.lo + Len(u), c) = Write(before, slice.lo, u \o c)
          BY ONLY <5>2, WriteTwice
        <5>. QED
          BY <1>4, <4>2, <5>1, <5>3
      <4>. QED
        BY <1>2, <2>1, <2>5, <4>3 DEF StoredInv
    <3>2. CASE op # "encode_to"
      BY <1>2, <3>2 DEF StoredInv
    <3>. QED
      BY <3>1, <3>2
  <2>11. LenInv' /\ ReadInv' /\ WroteInv' /\ BackInv'
    BY <1>2, <1>3, <2>1 DEF LenInv, ReadInv, WroteInv, BackInv
  <2>12. Promises'
    BY <1>2, <2>1, RunningPromises
  <2>. QED
    BY <2>6, <2>7, <2>9, <2>10, <2>11, <2>12 DEF TupleInv
<1>9. CASE ~(tuple[k].fits /\ ~(slice.hi - rest < Len(c)))
  <2>1. PICK r \in {"LengthExceedsCapacity", "OutputBufferTooSmall"} :
          /\ mem' = mem /\ k' = k /\ rest' = rest /\ pc' = "idle" /\ ret' = [ret EXCEPT !.res = r]
    BY <1>9 DEF WriteElement, Return, c
  <2>2. op = "encode_to"
    <3>1. SUFFICES ASSUME op = "encode" PROVE FALSE
      BY <1>3
    <3>2. tuple[k].fits
      BY <1>3, <3>1 DEF AllFit
    <3>3. slice.lo = 0 /\ slice.hi = Len(Concatenated(tuple)) /\ Len(Upto(tuple, k)) <= slice.hi
      BY <1>3, <1>4, <3>1 DEF Starts
    <3>4. slice.hi - rest < Len(c)
      BY <1>9, <3>2
    <3>5. Len(Upto(tuple, k - 1)) \in Nat
      BY <1>3, <1>7, TupleIs
    <3>. QED
      BY <1>4, <1>5, <1>6, <3>3, <3>4, <3>5
  <2>3. ret' \in [res : {"none", "ok", "LengthExceedsCapacity", "OutputBufferTooSmall", "refused"},
                  views : Seq(Views)] /\ ret'.res = r
    BY <1>1, <2>1 DEF TupleTypeOK
  <2>4. TupleTypeOK'
    BY <1>1, <1>2, <2>1, <2>3 DEF TupleTypeOK
  <2>5. PhaseInv'
    BY <1>1, <1>2, <1>3, <2>1 DEF PhaseInv
  <2>6. StoredInv'
    <3>1. k # Len(tuple) + 1
      BY <1>3, <1>4
    <3>2. ret'.res # "ok"
      BY <2>3
    <3>. QED
      BY <1>1, <1>2, <2>1, <3>1, <3>2 DEF StoredInv
  <2>7. LenInv' /\ FilledInv' /\ ReadInv' /\ WroteInv' /\ BackInv'
    BY <1>2, <1>3, <2>1 DEF LenInv, FilledInv, ReadInv, WroteInv, BackInv
  <2>8. Promises'
    BY <1>2, <2>2 DEF Promises, EncodeFillsItsBuffer, ReadConsumesAll, TupleReadsBack, Returned
  <2>. QED
    BY <2>4, <2>5, <2>6, <2>7, <2>8 DEF TupleInv
<1>. QED
  BY <1>8, <1>9

LEMMA WriteDoneNext == TupleInv /\ WriteDone => TupleInv'
<1>. SUFFICES ASSUME TupleInv, WriteDone PROVE TupleInv'
  OBVIOUS
<1>1. TupleTypeOK /\ PhaseInv /\ FilledInv /\ StoredInv
  BY DEF TupleInv
<1>2. /\ pc = "write" /\ k > Len(tuple) /\ pc' = "idle" /\ ret' = [ret EXCEPT !.res = "ok"]
      /\ wrote' = [lo |-> slice.lo, hi |-> rest, tuple |-> tuple]
      /\ mem' = mem /\ base' = base /\ calls' = calls /\ op' = op /\ tuple' = tuple /\ reader' = reader
      /\ before' = before /\ slice' = slice /\ k' = k /\ len' = len /\ rest' = rest
  BY DEF WriteDone, Return, argVars, callVars
<1>3. /\ op \in {"encode", "encode_to"} /\ tuple \in Tuples /\ k \in 1 .. Len(tuple) + 1
      /\ rest \in slice.lo .. slice.hi
      /\ AllFit(tuple, k - 1) /\ Filled(mem, slice.lo, rest, tuple, k - 1)
      /\ op = "encode" => slice.lo = 0 /\ slice.hi = Len(Concatenated(tuple))
  BY <1>1, <1>2 DEF PhaseInv, FilledInv
<1>4. Len(tuple) \in Nat /\ Upto(tuple, Len(tuple)) = Concatenated(tuple)
  BY <1>3, TupleIs
<1>5. k = Len(tuple) + 1 /\ k - 1 = Len(tuple)
  BY <1>2, <1>3, <1>4
<1>6. ret'.res = "ok" /\ wrote'.lo = slice.lo /\ wrote'.hi = rest /\ wrote'.tuple = tuple
  BY <1>1, <1>2 DEF TupleTypeOK
<1>7. TupleTypeOK'
  <2>1. wrote' \in [lo : 0 .. WordMax, hi : -1 .. WordMax, tuple : Tuples \cup {<< >>}]
    <3>1. slice.lo \in 0 .. WordMax /\ rest \in -1 .. WordMax
      BY <1>1, TupleCodesAssumption DEF TupleTypeOK
    <3>. QED
      BY <1>2, <1>3, <3>1
  <2>2. ret' \in [res : {"none", "ok", "LengthExceedsCapacity", "OutputBufferTooSmall", "refused"},
                  views : Seq(Views)]
    BY <1>1, <1>2 DEF TupleTypeOK
  <2>. QED
    BY <1>1, <1>2, <2>1, <2>2 DEF TupleTypeOK
<1>8. PhaseInv'
  BY <1>1, <1>2, <1>3 DEF PhaseInv
<1>9. StoredInv'
  BY <1>1, <1>2, <1>5, <1>6 DEF StoredInv
<1>10. WroteInv'
  BY <1>2, <1>3, <1>5, <1>6 DEF WroteInv
<1>11. LenInv' /\ FilledInv' /\ ReadInv' /\ BackInv'
  BY <1>2, <1>3 DEF LenInv, FilledInv, ReadInv, BackInv
<1>12. Promises'
  <2>1. EncodeFillsItsBuffer'
    <3>1. SUFFICES ASSUME op = "encode"
                   PROVE  rest = slice.hi /\ Bytes(mem, 0, rest) = Concatenated(tuple)
      BY <1>2, <1>6 DEF EncodeFillsItsBuffer, Returned
    <3>2. /\ rest = slice.lo + Len(Concatenated(tuple)) /\ slice.lo = 0
          /\ Bytes(mem, slice.lo, rest) = Concatenated(tuple)
      BY <1>3, <1>4, <1>5, <3>1 DEF Filled
    <3>3. slice.hi = Len(Concatenated(tuple)) /\ slice.hi \in Int
      BY <1>1, <1>3, <3>1 DEF TupleTypeOK
    <3>. QED
      BY <3>2, <3>3
  <2>. QED
    BY <1>2, <1>3, <2>1 DEF Promises, ReadConsumesAll, TupleReadsBack, Returned
<1>. QED
  BY <1>7, <1>8, <1>9, <1>10, <1>11, <1>12 DEF TupleInv

-----------------------------------------------------------------------------
(* Reading.                                                                *)

\* What a range starts with is in front of it.
LEMMA FrontIs ==
  ASSUME NEW m \in [Addresses -> Byte], NEW a \in Nat, NEW b \in a .. WordMax, NEW c \in Seq(Byte)
  PROVE  IsPrefix(c, Bytes(m, a, b)) <=> a + Len(c) <= b /\ Bytes(m, a, a + Len(c)) = c
<1>1. /\ Bytes(m, a, b) \in Seq(Byte) /\ Len(Bytes(m, a, b)) = b - a
      /\ \A i \in 1 .. b - a : Bytes(m, a, b)[i] = m[a + i - 1]
  BY BytesAre
<1>2. IsPrefix(c, Bytes(m, a, b)) <=> Starts(c, Bytes(m, a, b))
  BY <1>1, PrefixStarts
<1>3. Len(c) \in Nat /\ (Len(c) <= b - a <=> a + Len(c) <= b)
  BY TupleCodesAssumption
<1>4. SUFFICES ASSUME a + Len(c) <= b
               PROVE  (\A i \in 1 .. Len(c) : Bytes(m, a, b)[i] = c[i]) <=> Bytes(m, a, a + Len(c)) = c
  BY <1>1, <1>2, <1>3 DEF Starts
<1>5. \A i \in 1 .. Len(c) : i \in 1 .. b - a
  BY <1>3, <1>4
<1>6. PICK e \in a .. WordMax : e = a + Len(c) /\ e - a = Len(c)
  BY <1>3, <1>4, TupleCodesAssumption
<1>7. PICK t : t = Bytes(m, a, e)
  OBVIOUS
<1>8. t \in Seq(Byte) /\ Len(t) = e - a /\ \A i \in 1 .. e - a : t[i] = m[a + i - 1]
  <2>1. m \in [Addresses -> Byte] /\ a \in Nat /\ e \in a .. WordMax
    BY <1>6
  <2>. QED
    BY ONLY <1>7, <2>1, BytesAre
<1>9. \A i \in 1 .. Len(c) : Bytes(m, a, b)[i] = t[i]
  BY <1>1, <1>5, <1>6, <1>8
<1>10. Len(t) = Len(c)
  BY <1>6, <1>8
<1>11. (\A i \in 1 .. Len(c) : t[i] = c[i]) <=> t = c
  BY <1>8, <1>10, SameSeq
<1>. QED
  BY <1>6, <1>7, <1>9, <1>11

\* Of a self-delimiting type one encoding at most is in front.
LEMMA OneInFront ==
  ASSUME NEW s \in Seq(Byte), NEW t \in SelfDelimiting, NEW c \in Codes[t], NEW d \in Codes[t],
         IsPrefix(c, s), IsPrefix(d, s)
  PROVE  c = d
<1>1. t \in Types /\ c \in Seq(Byte) /\ d \in Seq(Byte)
  BY TupleCodesAssumption
<1>2. Starts(c, s) /\ Starts(d, s)
  BY <1>1, PrefixStarts
<1>3. Len(c) \in Nat /\ Len(d) \in Nat
  BY <1>1
<1>4. Starts(c, d) \/ Starts(d, c)
  BY <1>2, <1>3 DEF Starts
<1>5. IsPrefix(c, d) \/ IsPrefix(d, c)
  BY <1>1, <1>4, PrefixStarts
<1>. QED
  BY <1>5, TupleCodesAssumption

LEMMA StartReadNext == TupleInv /\ StartRead => TupleInv'
<1>. SUFFICES ASSUME TupleInv, StartRead PROVE TupleInv'
  OBVIOUS
<1>1. TupleTypeOK /\ PhaseInv /\ WroteInv
  BY DEF TupleInv
<1>2. PICK s \in Slices, r \in Readers :
      /\ pc' = "read" /\ op' = "read" /\ k' = 1 /\ len' = 0 /\ rest' = s.lo
      /\ slice' = s /\ base' = base /\ calls < MaxCalls /\ calls' = calls + 1
      /\ ret' = [res |-> "none", views |-> << >>] /\ mem' = mem /\ before' = mem
      /\ tuple' = tuple /\ reader' = r /\ wrote' = wrote
  BY DEF StartRead, Start
<1>3. /\ s \in [lo : 0 .. WordMax, hi : 0 .. WordMax] /\ s.lo \in 0 .. WordMax /\ s.hi \in 0 .. WordMax
      /\ s.lo <= s.hi
  BY TupleCallsAssumption
<1>4. Len(r.types) \in Nat \ {0}
  <2>1. r.types \in Seq(Types) \ {<< >>}
    BY TupleCallsAssumption DEF Reader
  <2>. QED
    BY <2>1
<1>5. TupleTypeOK'
  <2>1. << >> \in Seq(Views)
    OBVIOUS
  <2>2. calls' \in 0 .. MaxCalls
    BY <1>1, <1>2, TupleCallsAssumption DEF TupleTypeOK
  <2>3. len' \in 0 .. WordMax
    BY <1>2, TupleCodesAssumption
  <2>. QED
    BY <1>1, <1>2, <1>3, <2>1, <2>2, <2>3 DEF TupleTypeOK
<1>6. PhaseInv'
  BY <1>2, <1>3, <1>4 DEF PhaseInv
<1>7. ReadInv'
  <2>1. Bytes(mem', s.lo, s.lo) = << >>
    BY <1>3 DEF Bytes
  <2>2. Shown(<< >>) = << >>
    BY DEF Shown, FlattenSeq
  <2>3. s.lo \in s.lo .. s.hi /\ Len(<< >>) = 0 /\ k' - 1 = 0
    BY <1>2, <1>3
  <2>. QED
    BY <1>2, <2>1, <2>2, <2>3 DEF ReadInv
<1>8. WroteInv'
  BY <1>1, <1>2 DEF WroteInv
<1>9. BackInv'
  <2>1. SUFFICES ASSUME ReadsItsTuple'
                 PROVE  /\ rest' = wrote'.lo + Len(Upto(wrote'.tuple, k' - 1))
                        /\ \A i \in 1 .. k' - 1 :
                             Readable(i)' /\ ret'.views[i] = << wrote'.tuple[i].code >>
    BY DEF BackInv
  <2>2. wrote # NoTuple /\ s.lo = wrote.lo
    BY <1>2, <2>1 DEF ReadsItsTuple
  <2>3. Upto(wrote.tuple, 0) = << >>
    BY <1>1, <2>2, TupleIs DEF WroteInv
  <2>4. k' - 1 = 0 /\ s.lo + 0 = s.lo /\ Len(<< >>) = 0
    BY <1>2, <1>3
  <2>. QED
    BY <1>2, <2>2, <2>3, <2>4
<1>10. LenInv' /\ FilledInv' /\ StoredInv'
  BY <1>2 DEF LenInv, FilledInv, StoredInv
<1>11. Promises'
  BY <1>2, RunningPromises
<1>. QED
  BY <1>5, <1>6, <1>7, <1>8, <1>9, <1>10, <1>11 DEF TupleInv

\* What holds while a reader runs.
Reading == pc = "read" /\ TupleInv

LEMMA ReadingIs ==
  ASSUME Reading
  PROVE  /\ op = "read" /\ reader \in Readers /\ Len(reader.types) \in Nat \ {0}
         /\ k \in 1 .. Len(reader.types) /\ reader.types[k] \in Types
         /\ ~LastOne => k + 1 \in 1 .. Len(reader.types) /\ reader.types[k] \in SelfDelimiting
         /\ mem \in [Addresses -> Byte] /\ slice.lo \in Nat /\ slice.hi \in slice.lo .. WordMax
         /\ WordMax \in Nat /\ rest \in slice.lo .. slice.hi /\ rest \in Nat /\ slice.hi \in rest .. WordMax
         /\ Input \in Seq(Byte) /\ Len(Input) = slice.hi - rest
         /\ ret.res = "none" /\ ret.views \in Seq(Views) /\ Len(ret.views) = k - 1
         /\ Shown(ret.views) = Bytes(mem, slice.lo, rest)
<1>1. TupleTypeOK /\ PhaseInv /\ ReadInv /\ pc = "read"
  BY DEF TupleInv, Reading
<1>2. op = "read" /\ reader \in Readers /\ k \in 1 .. Len(reader.types) /\ ret.res = "none"
  BY <1>1 DEF PhaseInv
<1>3. reader.types \in Seq(Types) /\ Len(reader.types) \in Nat \ {0} /\ reader.types[k] \in Types
  <2>1. reader.types \in Seq(Types) \ {<< >>}
    BY <1>2, TupleCallsAssumption DEF Reader
  <2>. QED
    BY <1>2, <2>1
<1>4. ~LastOne => k + 1 \in 1 .. Len(reader.types) /\ reader.types[k] \in SelfDelimiting
  <2>1. SUFFICES ASSUME k # Len(reader.types)
                 PROVE  k + 1 \in 1 .. Len(reader.types) /\ reader.types[k] \in SelfDelimiting
    BY DEF LastOne
  <2>2. k \in 1 .. Len(reader.types) - 1 /\ k + 1 \in 1 .. Len(reader.types)
    BY <1>2, <1>3, <2>1
  <2>. QED
    BY <1>2, <2>2, TupleCallsAssumption
<1>5. /\ mem \in [Addresses -> Byte] /\ slice.lo \in 0 .. WordMax /\ slice.hi \in 0 .. WordMax
      /\ slice.lo <= slice.hi /\ WordMax \in Nat /\ ret.views \in Seq(Views)
  BY <1>1, TupleCodesAssumption DEF TupleTypeOK, PhaseInv
<1>6. /\ rest \in slice.lo .. slice.hi /\ Len(ret.views) = k - 1
      /\ Shown(ret.views) = Bytes(mem, slice.lo, rest)
  BY <1>1 DEF ReadInv
<1>7. /\ slice.lo \in Nat /\ slice.hi \in slice.lo .. WordMax /\ rest \in Nat
      /\ slice.hi \in rest .. WordMax
  BY <1>5, <1>6
<1>8. Input \in Seq(Byte) /\ Len(Input) = slice.hi - rest
  BY <1>5, <1>7, BytesAre DEF Input
<1>. QED
  BY <1>2, <1>3, <1>4, <1>5, <1>6, <1>7, <1>8

LEMMA AcceptedIn == \A t \in Types : Accepted(t) \subseteq Codes[t]
BY TupleCodesAssumption DEF Accepted

\* What is said of the tuple written depends on these only.
LEMMA SameTuple ==
  ASSUME base' = base, wrote' = wrote, reader' = reader
  PROVE  \A i : (Readable(i)' <=> Readable(i)) /\ (SeenAsNone(i)' <=> SeenAsNone(i))
BY DEF Readable, SeenAsNone, AtOffset, Concatenated

(* A reader of the tuple written has the encoding of its element in front. *)
LEMMA WrittenInFront ==
  ASSUME Reading, ReadsItsTuple, k <= Len(wrote.tuple)
  PROVE  /\ wrote.tuple \in Tuples
         /\ wrote.tuple[k].code \in Codes[reader.types[k]]
         /\ IsPrefix(wrote.tuple[k].code, Input)
         /\ Readable(k) <=> wrote.tuple[k].code \in Accepted(reader.types[k])
         /\ rest + Len(wrote.tuple[k].code) = wrote.lo + Len(Upto(wrote.tuple, k))
         /\ k = Len(wrote.tuple) => Input = wrote.tuple[k].code
<1>. DEFINE v == wrote.tuple
            c == v[k].code
<1>1. WroteInv /\ BackInv /\ TupleTypeOK /\ pc = "read"
  BY DEF TupleInv, Reading
<1>2. /\ wrote # NoTuple /\ wrote.lo = slice.lo /\ wrote.hi = slice.hi
      /\ \A i \in 1 .. Len(v) : reader.types[i] = v[i].type
  BY DEF ReadsItsTuple
<1>3. v \in Tuples /\ AllFit(v, Len(v)) /\ Filled(mem, slice.lo, slice.hi, v, Len(v))
  BY <1>1, <1>2 DEF WroteInv
<1>4. rest = slice.lo + Len(Upto(v, k - 1))
  BY <1>1, <1>2 DEF BackInv
<1>5. k \in 1 .. Len(v) /\ k - 1 \in 0 .. Len(v) /\ k \in 0 .. Len(v)
  <2>1. k \in 1 .. Len(reader.types) /\ Len(reader.types) \in Nat
    BY ReadingIs
  <2>2. Len(v) \in Nat
    BY <1>3, TupleIs
  <2>. QED
    BY <2>1, <2>2
<1>6. /\ c \in Seq(Byte) /\ Len(c) \in Nat /\ Upto(v, k) = Upto(v, k - 1) \o c
      /\ Len(Upto(v, k)) = Len(Upto(v, k - 1)) + Len(c)
      /\ Starts(Upto(v, k), Concatenated(v)) /\ Upto(v, Len(v)) = Concatenated(v)
      /\ Upto(v, k - 1) \in Seq(Byte) /\ Len(Upto(v, k - 1)) \in Nat
  BY <1>3, <1>5, TupleIs
<1>7. c \in Codes[reader.types[k]]
  <2>1. v[k].fits
    BY <1>3, <1>5 DEF AllFit
  <2>2. k \in DOMAIN v
    <3>1. v \in Seq(Element)
      BY <1>3, TupleIs
    <3>. QED
      BY <1>5, <3>1
  <2>3. v[k].code \in Codes[v[k].type]
    BY <1>3, <2>1, <2>2, TupleCallsAssumption
  <2>. QED
    BY <1>2, <1>5, <2>3
<1>8. rest + Len(c) = slice.lo + Len(Upto(v, k))
  <2>1. slice.lo \in Nat
    BY ReadingIs
  <2>. HIDE DEF c, v
  <2>. QED
    BY <1>4, <1>6, <2>1
<1>9. slice.hi = slice.lo + Len(Concatenated(v)) /\ Bytes(mem, slice.lo, slice.hi) = Concatenated(v)
  BY <1>3, <1>6 DEF Filled
<1>16. Readable(k) <=> c \in Accepted(reader.types[k])
  <2>1. v[k].type = reader.types[k]
    BY <1>2, <1>5
  <2>2. rest = wrote.lo + Len(Concatenated(SubSeq(v, 1, k - 1)))
    BY <1>2, <1>4 DEF Upto
  <2>. QED
    BY <2>1, <2>2 DEF Readable, Accepted
<1>. HIDE DEF c, v
<1>r. /\ mem \in [Addresses -> Byte] /\ slice.lo \in Nat /\ slice.hi \in slice.lo .. WordMax
      /\ rest \in Nat /\ WordMax \in Nat /\ Len(Concatenated(v)) \in Nat
  <2>1. Len(v) \in 0 .. Len(v)
    BY <1>3, TupleIs DEF v
  <2>2. Len(Concatenated(v)) \in Nat
    BY <1>3, <1>6, <2>1, TupleIs DEF v
  <2>. QED
    BY <2>2, ReadingIs
<1>10. rest + Len(c) <= slice.hi
  <2>1. Len(Upto(v, k)) <= Len(Concatenated(v))
    BY <1>6 DEF Starts
  <2>. QED
    BY <1>r, <1>6, <1>8, <1>9, <2>1
<1>11. \A i \in 1 .. slice.hi - slice.lo : Concatenated(v)[i] = mem[slice.lo + i - 1]
  <2>1. \A i \in 1 .. slice.hi - slice.lo : Bytes(mem, slice.lo, slice.hi)[i] = mem[slice.lo + i - 1]
    BY ONLY <1>r, BytesAre
  <2>. QED
    BY <1>9, <2>1
<1>12. ASSUME NEW i \in 1 .. Len(c) PROVE mem[rest + i - 1] = c[i]
  <2>1. PICK j : j = Len(Upto(v, k - 1)) + i
    OBVIOUS
  <2>2. /\ j \in 1 .. Len(Upto(v, k)) /\ ~(j <= Len(Upto(v, k - 1)))
        /\ j - Len(Upto(v, k - 1)) = i
    BY <1>6, <2>1
  <2>3. j \in 1 .. slice.hi - slice.lo /\ slice.lo + j - 1 = rest + i - 1
    <3>1. PICK p \in Nat : p = Len(Upto(v, k - 1))
      BY <1>6
    <3>2. i \in Nat /\ j = p + i /\ j \in Nat
      BY <2>1, <3>1
    <3>3. rest = slice.lo + p
      BY <1>4, <3>1
    <3>4. slice.lo + j - 1 = rest + i - 1
      BY <1>r, <3>2, <3>3
    <3>5. PICK q \in Nat : q = Len(Upto(v, k))
      <4>1. Len(Upto(v, k)) \in Nat
        BY <1>6
      <4>. QED
        BY <4>1
    <3>6. slice.lo + q <= slice.hi
      BY <1>8, <1>10, <3>5
    <3>7. j \in 1 .. q
      BY <2>2, <3>5
    <3>. QED
      BY <1>r, <3>4, <3>6, <3>7
  <2>4. Concatenated(v)[j] = Upto(v, k)[j]
    BY <1>6, <2>2 DEF Starts
  <2>5. Upto(v, k)[j] = c[i]
    <3>1. PICK p, q : p = Upto(v, k - 1) /\ q = Upto(v, k)
      OBVIOUS
    <3>2. p \in Seq(Byte) /\ c \in Seq(Byte) /\ q = p \o c /\ Len(q) = Len(p) + Len(c)
      BY <1>6, <3>1
    <3>3. j \in 1 .. Len(p) + Len(c) /\ ~(j <= Len(p)) /\ j - Len(p) = i
      BY <2>2, <3>1, <3>2
    <3>4. (p \o c)[j] = c[j - Len(p)]
      BY ONLY <3>2, <3>3, ConcatProperties
    <3>. QED
      BY <3>1, <3>2, <3>3, <3>4
  <2>. QED
    BY <1>11, <2>3, <2>4, <2>5
<1>13. Bytes(mem, rest, rest + Len(c)) = c
  <2>1. PICK e \in rest .. WordMax : e = rest + Len(c) /\ e - rest = Len(c)
    BY <1>r, <1>6, <1>10
  <2>2. PICK s : s = Bytes(mem, rest, e)
    OBVIOUS
  <2>3. /\ s \in Seq(Byte) /\ Len(s) = e - rest
        /\ \A i \in 1 .. e - rest : s[i] = mem[rest + i - 1]
    BY ONLY <1>r, <2>1, <2>2, BytesAre
  <2>4. s = c
    BY <1>6, <1>12, <2>1, <2>3, SameSeq
  <2>. QED
    BY <2>1, <2>2, <2>4
<1>14. IsPrefix(c, Input)
  BY <1>6, <1>10, <1>13, FrontIs, ReadingIs DEF Input
<1>15. k = Len(v) => Input = c
  <2>1. SUFFICES ASSUME k = Len(v) PROVE Input = c
    OBVIOUS
  <2>2. rest + Len(c) = slice.hi
    BY <1>6, <1>8, <1>9, <2>1
  <2>. QED
    BY <1>13, <2>2 DEF Input
<1>. QED
  BY <1>2, <1>3, <1>7, <1>8, <1>14, <1>15, <1>16 DEF c, v

(* A reader that is refused at an element whose decoder does not take it   *)
(* has shown those before it.                                              *)
LEMMA RefusedBack ==
  ASSUME Reading, ReadsItsTuple, k <= Len(wrote.tuple), ~Readable(k), ~SeenAsNone(k),
         ret'.res = "refused", ret'.views = ret.views,
         base' = base, wrote' = wrote, reader' = reader
  PROVE  TupleReadsBack'
<1>1. /\ k \in 1 .. Len(reader.types) /\ Len(reader.types) \in Nat
      /\ ret.views \in Seq(Views) /\ Len(ret.views) = k - 1
  BY ReadingIs
<1>2. wrote.tuple \in Seq(Element) /\ Len(wrote.tuple) \in Nat
  BY WrittenInFront, TupleIs
<1>3. k \in DOMAIN wrote.tuple
  BY <1>1, <1>2
<1>4. \A i \in 1 .. k - 1 : ret.views[i] = << wrote.tuple[i].code >>
  BY DEF Reading, TupleInv, BackInv
<1>5. ASSUME NEW i \in DOMAIN ret.views
      PROVE  i \in 1 .. k - 1 /\ ~SeenAsNone(i)
  <2>1. i \in 1 .. k - 1 /\ i # Len(reader.types)
    BY <1>1
  <2>. QED
    BY <2>1 DEF SeenAsNone
<1>6. \A i \in DOMAIN ret'.views :
        ret'.views[i] = IF SeenAsNone(i) THEN NoView ELSE << wrote.tuple[i].code >>
  BY <1>4, <1>5
<1>7. ~\A i \in DOMAIN wrote.tuple : Readable(i) \/ SeenAsNone(i)
  BY <1>3
<1>. QED
  BY <1>6, <1>7, SameTuple DEF TupleReadsBack

LEMMA ReadPrefixNext == TupleInv /\ ReadPrefix => TupleInv'
<1>. SUFFICES ASSUME TupleInv, ReadPrefix PROVE TupleInv'
  OBVIOUS
<1>. DEFINE t == reader.types[k]
<1>1. TupleTypeOK /\ PhaseInv /\ WroteInv /\ BackInv
  BY DEF TupleInv
<1>2. /\ pc = "read" /\ ~LastOne /\ mem' = mem /\ base' = base /\ calls' = calls /\ op' = op /\ tuple' = tuple
      /\ reader' = reader /\ before' = before /\ slice' = slice /\ len' = len /\ wrote' = wrote
  BY DEF ReadPrefix, argVars, callVars
<1>3. Reading
  BY <1>2 DEF Reading
<1>4. /\ op = "read" /\ reader \in Readers /\ Len(reader.types) \in Nat \ {0}
      /\ k \in 1 .. Len(reader.types) /\ t \in Types
      /\ k + 1 \in 1 .. Len(reader.types) /\ t \in SelfDelimiting
      /\ mem \in [Addresses -> Byte] /\ slice.lo \in Nat /\ slice.hi \in slice.lo .. WordMax
      /\ WordMax \in Nat /\ rest \in slice.lo .. slice.hi /\ rest \in Nat /\ slice.hi \in rest .. WordMax
      /\ Input \in Seq(Byte) /\ Len(Input) = slice.hi - rest
      /\ ret.res = "none" /\ ret.views \in Seq(Views) /\ Len(ret.views) = k - 1
      /\ Shown(ret.views) = Bytes(mem, slice.lo, rest)
  BY <1>2, <1>3, ReadingIs
<1>5. ReadsItsTuple' <=> ReadsItsTuple
  BY <1>2 DEF ReadsItsTuple
<1>6. ReadsItsTuple => /\ k <= Len(wrote.tuple) /\ wrote.tuple[k].code \in Codes[t]
                       /\ IsPrefix(wrote.tuple[k].code, Input)
                       /\ Readable(k) <=> wrote.tuple[k].code \in Accepted(t)
                       /\ rest + Len(wrote.tuple[k].code) = wrote.lo + Len(Upto(wrote.tuple, k))
  <2>1. SUFFICES ASSUME ReadsItsTuple
                 PROVE  /\ k <= Len(wrote.tuple) /\ wrote.tuple[k].code \in Codes[t]
                        /\ IsPrefix(wrote.tuple[k].code, Input)
                        /\ Readable(k) <=> wrote.tuple[k].code \in Accepted(t)
                        /\ rest + Len(wrote.tuple[k].code) = wrote.lo + Len(Upto(wrote.tuple, k))
    OBVIOUS
  <2>2. Len(reader.types) = Len(wrote.tuple) \/ Len(reader.types) = Len(wrote.tuple) + 1
    BY <2>1 DEF ReadsItsTuple
  <2>3. Len(wrote.tuple) \in Nat
    <3>1. wrote.tuple \in Tuples
      BY <1>1, <2>1 DEF ReadsItsTuple, WroteInv
    <3>. QED
      BY <3>1, TupleIs
  <2>4. k <= Len(wrote.tuple)
    BY <1>4, <2>2, <2>3
  <2>. QED
    BY <1>3, <2>1, <2>4, WrittenInFront
<1>. HIDE DEF t
<1>7. CASE CodesInFront(t) = {}
  <2>1. k' = k /\ rest' = rest /\ pc' = "idle" /\ ret' = [ret EXCEPT !.res = "refused"]
    BY <1>7 DEF ReadPrefix, Return, t
  <2>2. ret' \in [res : {"none", "ok", "LengthExceedsCapacity", "OutputBufferTooSmall", "refused"},
                  views : Seq(Views)] /\ ret'.res = "refused"
    BY <1>1, <2>1 DEF TupleTypeOK
  <2>3. TupleTypeOK'
    BY <1>1, <1>2, <2>1, <2>2 DEF TupleTypeOK
  <2>4. PhaseInv'
    BY <1>1, <1>2, <1>4, <2>1 DEF PhaseInv
  <2>5. WroteInv'
    BY <1>1, <1>2 DEF WroteInv
  <2>6. LenInv' /\ FilledInv' /\ StoredInv' /\ ReadInv' /\ BackInv'
    BY <1>2, <1>4, <2>1 DEF LenInv, FilledInv, StoredInv, ReadInv, BackInv
  <2>7. TupleReadsBack'
    <3>1. SUFFICES ASSUME ReadsItsTuple PROVE TupleReadsBack'
      BY <1>5 DEF TupleReadsBack
    <3>2. ~Readable(k)
      BY <1>6, <1>7, <3>1 DEF CodesInFront
    <3>3. ~SeenAsNone(k)
      BY <1>2 DEF SeenAsNone, LastOne
    <3>4. ret'.views = ret.views
      BY <1>1, <2>1 DEF TupleTypeOK
    <3>. QED
      BY <1>2, <1>3, <1>6, <2>2, <3>1, <3>2, <3>3, <3>4, RefusedBack
  <2>8. Promises'
    BY <1>2, <1>4, <2>2, <2>7 DEF Promises, EncodeFillsItsBuffer, ReadConsumesAll, Returned
  <2>. QED
    BY <2>3, <2>4, <2>5, <2>6, <2>8 DEF TupleInv
<1>8. CASE CodesInFront(t) # {}
  <2>1. PICK c \in CodesInFront(t) :
          /\ rest' = rest + Len(c) /\ k' = k + 1 /\ pc' = pc
          /\ ret' = [ret EXCEPT !.views = Append(@, << c >>)]
    BY <1>8 DEF ReadPrefix, t
  <2>2. /\ c \in Accepted(t) /\ c \in Codes[t] /\ IsPrefix(c, Input) /\ c \in Seq(Byte)
        /\ << c >> \in Views /\ Len(c) \in Nat
    <3>1. c \in Accepted(t) /\ c \in Codes[t] /\ IsPrefix(c, Input)
      BY <1>4, <2>1, AcceptedIn DEF CodesInFront
    <3>. QED
      BY <1>4, <3>1, ViewsIn, LenProperties
  <2>3. rest + Len(c) <= slice.hi /\ Bytes(mem, rest, rest + Len(c)) = c
    <3>1. IsPrefix(c, Bytes(mem, rest, slice.hi)) /\ c \in Seq(Byte)
      BY <2>2 DEF Input
    <3>. QED
      BY ONLY <1>4, <3>1, FrontIs
  <2>4. rest' \in slice.lo .. slice.hi /\ rest' \in rest .. WordMax /\ rest' \in 0 .. WordMax
    <3>1. PICK n \in Nat : n = Len(c)
      BY <2>2
    <3>2. rest' = rest + n /\ rest + n <= slice.hi
      BY <2>1, <2>3, <3>1
    <3>3. slice.lo <= rest /\ slice.hi <= WordMax /\ slice.hi \in Int
      BY <1>4
    <3>. QED
      BY <1>4, <3>2, <3>3
  <2>5. /\ ret'.res = "none" /\ ret'.views = Append(ret.views, << c >>) /\ ret'.views \in Seq(Views)
        /\ ret' = [res |-> "none", views |-> Append(ret.views, << c >>)]
        /\ Len(ret'.views) = k /\ ret'.views[k] = << c >>
        /\ \A i \in 1 .. k - 1 : ret'.views[i] = ret.views[i]
    <3>1. ret' = [res |-> "none", views |-> Append(ret.views, << c >>)]
      BY <1>1, <1>4, <2>1 DEF TupleTypeOK
    <3>2. PICK w : w = Append(ret.views, << c >>)
      OBVIOUS
    <3>3. /\ w \in Seq(Views) /\ Len(w) = (k - 1) + 1 /\ w[(k - 1) + 1] = << c >>
          /\ \A i \in 1 .. k - 1 : w[i] = ret.views[i]
      BY <1>4, <2>2, <3>2, AppendProperties
    <3>4. (k - 1) + 1 = k
      BY <1>4
    <3>5. ret'.views = w /\ ret'.res = "none"
      BY <3>1, <3>2
    <3>. QED
      BY <3>1, <3>2, <3>3, <3>4, <3>5
  <2>6. k' \in 1 .. Len(reader.types) /\ k' \in Nat \ {0} /\ k' - 1 = k
    BY <1>4, <2>1
  <2>7. TupleTypeOK'
    <3>1. ret' \in [res : {"none", "ok", "LengthExceedsCapacity", "OutputBufferTooSmall", "refused"},
                    views : Seq(Views)]
      BY <2>5
    <3>. QED
      BY <1>1, <1>2, <2>1, <2>4, <2>6, <3>1 DEF TupleTypeOK
  <2>8. PhaseInv'
    BY <1>1, <1>2, <1>4, <2>1, <2>5, <2>6 DEF PhaseInv
  <2>9. ReadInv'
    <3>1. Shown(ret'.views) = Shown(ret.views) \o c
      BY <1>4, <2>2, <2>5, ShownGrows
    <3>2. Bytes(mem, slice.lo, rest) \o Bytes(mem, rest, rest') = Bytes(mem, slice.lo, rest')
      <4>1. rest \in slice.lo .. WordMax
        BY <1>4
      <4>. QED
        BY ONLY <1>4, <2>4, <4>1, BytesJoin
    <3>3. Shown(ret'.views) = Bytes(mem, slice.lo, rest')
      BY <1>4, <2>1, <2>3, <3>1, <3>2
    <3>. QED
      BY <1>2, <2>4, <2>5, <2>6, <3>3 DEF ReadInv
  <2>10. BackInv'
    <3>1. SUFFICES ASSUME ReadsItsTuple
                   PROVE  /\ rest' = wrote.lo + Len(Upto(wrote.tuple, k))
                          /\ \A i \in 1 .. k :
                               Readable(i) /\ ret'.views[i] = << wrote.tuple[i].code >>
      BY <1>2, <1>5, <2>6, SameTuple DEF BackInv
    <3>2. c = wrote.tuple[k].code
      <4>1. PICK d : d = wrote.tuple[k].code
        OBVIOUS
      <4>2. d \in Codes[t] /\ IsPrefix(d, Input)
        BY <1>6, <3>1, <4>1
      <4>3. c = d
        BY <1>4, <2>2, <4>2, OneInFront
      <4>. QED
        BY <4>1, <4>3
    <3>3. Readable(k)
      BY <1>6, <2>2, <3>1, <3>2
    <3>4. \A i \in 1 .. k - 1 : Readable(i) /\ ret.views[i] = << wrote.tuple[i].code >>
      BY <1>1, <1>2, <3>1 DEF BackInv
    <3>5. \A i \in 1 .. k : i = k \/ i \in 1 .. k - 1
      BY <1>4
    <3>. QED
      BY <1>6, <2>1, <2>5, <3>1, <3>2, <3>3, <3>4, <3>5
  <2>11. WroteInv'
    BY <1>1, <1>2 DEF WroteInv
  <2>12. LenInv' /\ FilledInv' /\ StoredInv'
    BY <1>2, <1>4, <2>1 DEF LenInv, FilledInv, StoredInv
  <2>13. Promises'
    BY <1>2, <2>1, RunningPromises
  <2>. QED
    BY <2>7, <2>8, <2>9, <2>10, <2>11, <2>12, <2>13 DEF TupleInv
<1>. QED
  BY <1>7, <1>8

(* decode of a type accepts what is left when it is one of the encodings   *)
(* that it takes there.                                                    *)
LEMMA ExactIs ==
  ASSUME Reading, NEW t \in Types
  PROVE  ExactCodes(t) = Accepted(t) \cap {Input}
<1>1. /\ mem \in [Addresses -> Byte] /\ rest \in Nat /\ slice.hi \in rest .. WordMax
      /\ Input \in Seq(Byte) /\ Len(Input) = slice.hi - rest
  BY ReadingIs
<1>2. CASE t \in SelfDelimiting
  <2>1. ASSUME NEW c \in Accepted(t)
        PROVE  IsPrefix(c, Input) /\ rest + Len(c) = slice.hi <=> c = Input
    <3>1. c \in Seq(Byte) /\ Len(c) \in Nat
      BY AcceptedIn, ViewsIn, LenProperties
    <3>2. IsPrefix(c, Input) <=> rest + Len(c) <= slice.hi /\ Bytes(mem, rest, rest + Len(c)) = c
      BY ONLY <1>1, <3>1, FrontIs DEF Input
    <3>3. rest + Len(c) = slice.hi => rest + Len(c) <= slice.hi
      BY <1>1, <3>1
    <3>4. c = Input => rest + Len(c) = slice.hi
      BY <1>1, <3>1
    <3>. QED
      BY <3>2, <3>3, <3>4 DEF Input
  <2>. QED
    BY <1>2, <2>1 DEF ExactCodes, CodesInFront
<1>3. CASE t \notin SelfDelimiting
  BY <1>3 DEF ExactCodes
<1>. QED
  BY <1>2, <1>3

LEMMA ReadLastNext == TupleInv /\ ReadLast => TupleInv'
<1>. SUFFICES ASSUME TupleInv, ReadLast PROVE TupleInv'
  OBVIOUS
<1>. DEFINE t == reader.types[k]
            n == Len(wrote.tuple)
<1>1. TupleTypeOK /\ PhaseInv /\ WroteInv /\ BackInv
  BY DEF TupleInv
<1>2. /\ pc = "read" /\ LastOne /\ mem' = mem /\ base' = base /\ calls' = calls /\ op' = op /\ tuple' = tuple
      /\ reader' = reader /\ before' = before /\ slice' = slice /\ len' = len /\ wrote' = wrote
      /\ k' = k /\ rest' = rest
  BY DEF ReadLast, argVars, callVars
<1>3. Reading
  BY <1>2 DEF Reading
<1>4. /\ op = "read" /\ reader \in Readers /\ Len(reader.types) \in Nat \ {0}
      /\ k \in 1 .. Len(reader.types) /\ t \in Types
      /\ mem \in [Addresses -> Byte] /\ slice.lo \in Nat /\ slice.hi \in slice.lo .. WordMax
      /\ WordMax \in Nat /\ rest \in slice.lo .. slice.hi /\ rest \in Nat /\ slice.hi \in rest .. WordMax
      /\ Input \in Seq(Byte) /\ Len(Input) = slice.hi - rest
      /\ ret.res = "none" /\ ret.views \in Seq(Views) /\ Len(ret.views) = k - 1
      /\ Shown(ret.views) = Bytes(mem, slice.lo, rest)
  BY <1>3, ReadingIs
<1>5. ReadsItsTuple' <=> ReadsItsTuple
  BY <1>2 DEF ReadsItsTuple
<1>6. k = Len(reader.types)
  BY <1>2 DEF LastOne
<1>7. ExactCodes(t) = Accepted(t) \cap {Input} /\ Accepted(t) \subseteq Codes[t]
  BY <1>3, <1>4, ExactIs, AcceptedIn
(* What is left of a tuple that was written: its last element, or nothing. *)
<1>8. ReadsItsTuple =>
        \/ k = n /\ Input = wrote.tuple[k].code /\ (Readable(k) <=> Input \in Accepted(t))
        \/ k = n + 1 /\ reader.optional /\ Input = << >>
  <2>1. SUFFICES ASSUME ReadsItsTuple
                 PROVE  \/ /\ k = n /\ Input = wrote.tuple[k].code
                           /\ Readable(k) <=> Input \in Accepted(t)
                        \/ k = n + 1 /\ reader.optional /\ Input = << >>
    OBVIOUS
  <2>2. wrote # NoTuple /\ wrote.lo = slice.lo /\ wrote.hi = slice.hi
    BY <2>1 DEF ReadsItsTuple
  <2>3. wrote.tuple \in Tuples /\ wrote.hi = wrote.lo + Len(Upto(wrote.tuple, n))
    BY <1>1, <2>2 DEF WroteInv, Filled
  <2>4. n \in Nat
    BY <2>3, TupleIs
  <2>5. CASE k = n
    <3>1. k <= n
      BY <2>4, <2>5
    <3>2. /\ Readable(k) <=> wrote.tuple[k].code \in Accepted(t)
          /\ Input = wrote.tuple[k].code
      BY <1>3, <2>1, <2>5, <3>1, WrittenInFront
    <3>. QED
      BY <2>5, <3>2
  <2>6. CASE k = n + 1 /\ reader.optional
    <3>1. rest = wrote.lo + Len(Upto(wrote.tuple, k - 1)) /\ k - 1 = n
      BY <1>1, <1>2, <2>1, <2>4, <2>6 DEF BackInv
    <3>2. rest = slice.hi
      BY <2>2, <2>3, <3>1
    <3>3. Len(Input) = 0
      BY <1>4, <3>2
    <3>. QED
      BY <1>4, <2>6, <3>3
  <2>. QED
    BY <1>6, <2>1, <2>5, <2>6 DEF ReadsItsTuple
<1>. HIDE DEF t, n
<1>9. CASE ~(reader.optional /\ Absent) /\ ExactCodes(t) = {}
  <2>1. pc' = "idle" /\ ret' = [ret EXCEPT !.res = "refused"]
    BY <1>9 DEF ReadLast, Return, t
  <2>2. ret' \in [res : {"none", "ok", "LengthExceedsCapacity", "OutputBufferTooSmall", "refused"},
                  views : Seq(Views)] /\ ret'.res = "refused"
    BY <1>1, <2>1 DEF TupleTypeOK
  <2>3. TupleTypeOK'
    BY <1>1, <1>2, <2>1, <2>2 DEF TupleTypeOK
  <2>4. PhaseInv'
    BY <1>1, <1>2, <1>4, <2>1 DEF PhaseInv
  <2>5. WroteInv'
    BY <1>1, <1>2 DEF WroteInv
  <2>6. LenInv' /\ FilledInv' /\ StoredInv' /\ ReadInv' /\ BackInv'
    BY <1>2, <1>4, <2>1 DEF LenInv, FilledInv, StoredInv, ReadInv, BackInv
  <2>7. TupleReadsBack'
    <3>1. SUFFICES ASSUME ReadsItsTuple PROVE TupleReadsBack'
      BY <1>5 DEF TupleReadsBack
    <3>2. k = n /\ Input = wrote.tuple[k].code /\ (Readable(k) <=> Input \in Accepted(t))
      BY <1>8, <1>9, <3>1 DEF Absent
    <3>3. ~Readable(k)
      BY <1>7, <1>9, <3>2
    <3>4. k <= Len(wrote.tuple) /\ ~SeenAsNone(k)
      BY <1>4, <1>9, <3>2 DEF SeenAsNone, Absent, n
    <3>5. ret'.views = ret.views
      BY <1>1, <2>1 DEF TupleTypeOK
    <3>. QED
      BY <1>2, <1>3, <2>2, <3>1, <3>3, <3>4, <3>5, RefusedBack
  <2>8. Promises'
    BY <1>2, <1>4, <2>2, <2>7 DEF Promises, EncodeFillsItsBuffer, ReadConsumesAll, Returned
  <2>. QED
    BY <2>3, <2>4, <2>5, <2>6, <2>8 DEF TupleInv
<1>10. CASE (reader.optional /\ Absent) \/ ExactCodes(t) # {}
  <2>1. PICK x \in Views :
          /\ ret' = [res |-> "ok", views |-> Append(ret.views, x)] /\ pc' = "idle"
          /\ \/ x = NoView /\ reader.optional /\ Absent
             \/ x = << Input >> /\ ~(reader.optional /\ Absent) /\ Input \in Accepted(t)
    <3>1. CASE reader.optional /\ Absent
      BY <3>1, ViewsAreSeqs DEF ReadLast
    <3>2. CASE ~(reader.optional /\ Absent)
      <4>1. PICK c \in ExactCodes(t) : ret' = [res |-> "ok", views |-> Append(ret.views, << c >>)] /\ pc' = "idle"
        BY <1>10, <3>2 DEF ReadLast, t
      <4>2. c = Input /\ Input \in Accepted(t) /\ Input \in Codes[t]
        BY <1>7
      <4>3. << Input >> \in Views
        BY <1>4, <4>2, ViewsIn
      <4>. QED
        BY <3>2, <4>1, <4>2, <4>3
    <3>. QED
      BY <3>1, <3>2
  <2>2. /\ ret'.res = "ok" /\ ret'.views = Append(ret.views, x) /\ ret'.views \in Seq(Views)
        /\ Len(ret'.views) = k /\ ret'.views[k] = x
        /\ \A i \in 1 .. k - 1 : ret'.views[i] = ret.views[i]
    <3>1. /\ Append(ret.views, x) \in Seq(Views) /\ Len(Append(ret.views, x)) = (k - 1) + 1
          /\ Append(ret.views, x)[(k - 1) + 1] = x
          /\ \A i \in 1 .. k - 1 : Append(ret.views, x)[i] = ret.views[i]
      BY <1>4, AppendProperties
    <3>2. (k - 1) + 1 = k
      BY <1>4
    <3>. QED
      BY <2>1, <3>1, <3>2
  <2>3. TupleTypeOK'
    <3>1. ret' \in [res : {"none", "ok", "LengthExceedsCapacity", "OutputBufferTooSmall", "refused"},
                    views : Seq(Views)]
      BY <2>1, <2>2
    <3>. QED
      BY <1>1, <1>2, <2>1, <3>1 DEF TupleTypeOK
  <2>4. PhaseInv'
    BY <1>1, <1>2, <1>4, <2>1 DEF PhaseInv
  <2>5. WroteInv'
    BY <1>1, <1>2 DEF WroteInv
  <2>6. LenInv' /\ FilledInv' /\ StoredInv' /\ ReadInv' /\ BackInv'
    BY <1>2, <1>4, <2>1 DEF LenInv, FilledInv, StoredInv, ReadInv, BackInv
  <2>7. ReadConsumesAll'
    <3>1. Shown(ret'.views) = Bytes(mem, slice.lo, slice.hi)
      <4>1. CASE x = NoView /\ Absent
        <5>1. Len(Input) = 0
          BY <4>1 DEF Absent
        <5>2. rest = slice.hi
          BY <1>4, <5>1
        <5>. QED
          BY <1>4, <2>2, <4>1, <5>2, ShownGrows
      <4>2. CASE x = << Input >> /\ Input \in Accepted(t)
        <5>1. Shown(ret'.views) = Bytes(mem, slice.lo, rest) \o Bytes(mem, rest, slice.hi)
          BY <1>4, <1>7, <2>2, <4>2, ShownGrows DEF Input
        <5>2. rest \in slice.lo .. WordMax
          BY <1>4
        <5>3. Bytes(mem, slice.lo, rest) \o Bytes(mem, rest, slice.hi) = Bytes(mem, slice.lo, slice.hi)
          BY ONLY <1>4, <5>2, BytesJoin
        <5>. QED
          BY <5>1, <5>3
      <4>. QED
        BY <2>1, <4>1, <4>2
    <3>. QED
      BY <1>2, <1>6, <2>2, <3>1 DEF ReadConsumesAll, Shown
  <2>8. TupleReadsBack'
    <3>1. SUFFICES ASSUME ReadsItsTuple PROVE TupleReadsBack'
      BY <1>5 DEF TupleReadsBack
    <3>2. wrote.tuple \in Seq(Element) /\ n \in Nat /\ DOMAIN wrote.tuple = 1 .. n
      <4>1. wrote.tuple \in Tuples
        BY <1>1, <3>1 DEF ReadsItsTuple, WroteInv
      <4>2. wrote.tuple \in Seq(Element)
        BY <4>1, TupleIs
      <4>3. Len(wrote.tuple) \in Nat /\ DOMAIN wrote.tuple = 1 .. Len(wrote.tuple)
        BY ONLY <4>2, LenProperties
      <4>. QED
        BY <4>2, <4>3 DEF n
    <3>3. k <= n + 1 /\ n <= k
      BY <1>4, <1>8, <3>1, <3>2
    <3>4. ASSUME NEW i \in 1 .. k - 1
          PROVE  Readable(i) /\ ~SeenAsNone(i) /\ ret'.views[i] = << wrote.tuple[i].code >>
      <4>1. i # Len(reader.types)
        BY <1>4, <1>6
      <4>2. Readable(i) /\ ret'.views[i] = << wrote.tuple[i].code >>
        BY <1>1, <1>2, <2>2, <3>1 DEF BackInv
      <4>. QED
        BY <4>1, <4>2 DEF SeenAsNone
    <3>5. /\ k <= n => Readable(k) \/ SeenAsNone(k)
          /\ x = IF SeenAsNone(k) THEN NoView ELSE << wrote.tuple[k].code >>
      <4>1. CASE k = n /\ Input = wrote.tuple[k].code /\ (Readable(k) <=> Input \in Accepted(t))
        <5>1. SeenAsNone(k) <=> reader.optional /\ Absent
          BY <1>4, <1>6, <3>2, <4>1 DEF SeenAsNone, Absent, n
        <5>. QED
          BY <2>1, <4>1, <5>1
      <4>2. CASE k = n + 1 /\ reader.optional /\ Input = << >>
        <5>1. ~(k <= n)
          BY <3>2, <4>2
        <5>2. SeenAsNone(k) /\ Absent
          BY <1>6, <4>2, <5>1 DEF SeenAsNone, Absent, n
        <5>. QED
          BY <2>1, <4>2, <5>1, <5>2
      <4>. QED
        BY <1>8, <3>1, <4>1, <4>2
    <3>6. \A i \in DOMAIN wrote.tuple : Readable(i) \/ SeenAsNone(i)
      <4>1. \A i \in 1 .. n : i \in 1 .. k - 1 \/ i = k
        BY <1>4, <3>2, <3>3
      <4>. QED
        BY <3>2, <3>4, <3>5, <4>1
    <3>7. ASSUME NEW i \in DOMAIN ret'.views
          PROVE  ret'.views[i] = IF SeenAsNone(i) THEN NoView ELSE << wrote.tuple[i].code >>
      <4>1. i \in 1 .. k - 1 \/ i = k
        BY <1>4, <2>2
      <4>. QED
        BY <2>2, <3>4, <3>5, <4>1
    <3>. QED
      BY <1>2, <2>2, <3>6, <3>7, SameTuple DEF TupleReadsBack
  <2>9. Promises'
    BY <1>2, <1>4, <2>7, <2>8 DEF Promises, EncodeFillsItsBuffer, Returned
  <2>. QED
    BY <2>3, <2>4, <2>5, <2>6, <2>9 DEF TupleInv
<1>. QED
  BY <1>9, <1>10

LEMMA TupleStutters == TupleInv /\ UNCHANGED vars => TupleInv'
<1>. SUFFICES ASSUME TupleInv, UNCHANGED vars PROVE TupleInv'
  OBVIOUS
<1>1. /\ mem' = mem /\ base' = base /\ calls' = calls /\ pc' = pc /\ op' = op /\ slice' = slice /\ tuple' = tuple
      /\ reader' = reader /\ k' = k /\ len' = len /\ rest' = rest /\ ret' = ret
      /\ wrote' = wrote /\ before' = before
  BY DEF vars
<1>2. ReadsItsTuple' <=> ReadsItsTuple
  BY <1>1 DEF ReadsItsTuple
<1>3. TupleTypeOK'
  BY <1>1 DEF TupleInv, TupleTypeOK
<1>4. PhaseInv' /\ LenInv' /\ FilledInv' /\ StoredInv' /\ ReadInv' /\ WroteInv'
  BY <1>1 DEF TupleInv, PhaseInv, LenInv, FilledInv, StoredInv, ReadInv, WroteInv
<1>5. BackInv'
  BY <1>1, <1>2, SameTuple DEF TupleInv, BackInv
<1>6. EncodeFillsItsBuffer' /\ ReadConsumesAll'
  BY <1>1 DEF TupleInv, Promises, EncodeFillsItsBuffer, ReadConsumesAll, Returned
<1>7. TupleReadsBack'
  BY <1>1, <1>2, SameTuple DEF TupleInv, Promises, TupleReadsBack, Returned
<1>. QED
  BY <1>3, <1>4, <1>5, <1>6, <1>7 DEF TupleInv, Promises

(* The invariant is inductive.                                             *)
LEMMA TupleCodecInvariant == Spec => []TupleInv
<1>1. Init => TupleInv
  BY TupleInitially
<1>2. TupleInv /\ [Next]_vars => TupleInv'
  BY StartEncodeNext, ElementLenNext, AllocateNext, StartEncodeToNext, WriteElementNext,
     WriteDoneNext, StartReadNext, ReadPrefixNext, ReadLastNext, TupleStutters
  DEF Next, Stopped
<1>. QED
  BY <1>1, <1>2, PTL DEF Spec

(* All variables keep their types: no length and no position leaves usize. *)
THEOREM TupleTypesKept == Spec => []TupleTypeOK
<1>1. TupleInv => TupleTypeOK
  BY DEF TupleInv
<1>. QED
  BY <1>1, TupleCodecInvariant, PTL

(* Encodable::encode allocates exactly what encode_to fills, or fails      *)
(* before it has written anything.                                         *)
THEOREM EncodeFills == Spec => []EncodeFillsItsBuffer
<1>1. TupleInv => EncodeFillsItsBuffer
  BY DEF TupleInv, Promises
<1>. QED
  BY <1>1, TupleCodecInvariant, PTL

(* A tuple's encode_to that fails has written the elements before the one  *)
(* that failed and nothing else.                                           *)
THEOREM FailedTuplesArePrefixes == Spec => []FailedTupleIsPrefix
<1>1. TupleInv => FailedTupleIsPrefix
  BY DEF TupleInv, StoredInv, FailedTupleIsPrefix, Returned, Upto
<1>. QED
  BY <1>1, TupleCodecInvariant, PTL

(* A reader that succeeds has shown all bytes of its slice, in order.      *)
THEOREM ReadersConsumeAll == Spec => []ReadConsumesAll
<1>1. TupleInv => ReadConsumesAll
  BY DEF TupleInv, Promises
<1>. QED
  BY <1>1, TupleCodecInvariant, PTL

(* What was written as a tuple is read back element by element, the        *)
(* optional one behind it included.                                        *)
THEOREM TuplesReadBack == Spec => []TupleReadsBack
<1>1. TupleInv => TupleReadsBack
  BY DEF TupleInv, Promises
<1>. QED
  BY <1>1, TupleCodecInvariant, PTL
=============================================================================
