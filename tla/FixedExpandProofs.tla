-------------------------- MODULE FixedExpandProofs --------------------------
(***************************************************************************)
(* Theorems about the expansion of #[fixed_offset_layout], for every       *)
(* struct and every value of the constants.                                *)
(***************************************************************************)
EXTENDS FixedExpand, LayoutLemmas

-----------------------------------------------------------------------------
(* The operators the expansion is built from. *)

LEMMA MaxCapacityType == MaxCapacity \in Nat
<1>1. Radix \in Nat /\ Radix >= 1
  BY RadixAssumption
<1>2. Radix * Radix \in Nat /\ Radix * Radix >= 1
  BY <1>1
<1>. QED
  BY <1>2 DEF MaxCapacity

LEMMA FixedLayoutRecord ==
  ASSUME NEW l, NEW s \in {"plain", "option", "tail_option", "vec", "tail_vec"},
         NEW kind \in FixedValueKind, NEW w \in 0 .. MaxFlexWidth, NEW c \in Nat,
         l = [shape |-> s, kind |-> kind, width |-> w, capacity |-> c]
  PROVE  l \in FixedLayout
BY DEF FixedLayout

LEMMA FirstElement ==
  ASSUME NEW S, NEW s \in Seq(S), s # << >>
  PROVE  1 \in DOMAIN s /\ s[1] \in S
<1>1. Len(s) \in Nat /\ Len(s) # 0
  BY EmptySeq, LenProperties
<1>2. 1 \in 1 .. Len(s)
  <2>. DEFINE n == Len(s)
  <2>1. n \in Nat /\ n # 0
    BY <1>1
  <2>. HIDE DEF n
  <2>2. 1 \in 1 .. n
    BY <2>1
  <2>. QED
    BY <2>2 DEF n
<1>3. DOMAIN s = 1 .. Len(s)
  BY LenProperties
<1>. QED
  BY <1>2, <1>3, ElementOfSeq

(* A field the macro supports is classified: only the last one is flexible *)
(* at its end, the length header of a Vec can announce its capacity, and a *)
(* Vec holds no bools.                                                     *)
LEMMA ClassifyType ==
  ASSUME NEW f \in FieldDecl, NEW isLast \in BOOLEAN, FieldSupported(f, isLast)
  PROVE  /\ Classify(f) \in FixedLayout /\ (IsTail(Classify(f)) => isLast)
         /\ IsVec(Classify(f)) => Classify(f).width \in 1 .. MaxFlexWidth /\ Classify(f).kind.name # "bool"
         /\ Classify(f).shape = "vec" => Classify(f).capacity <= HeaderMax(Classify(f).width)
<1>. DEFINE flexible == f.attrs # << >> /\ f.attrs[1].name = "flexible"
            l == Classify(f)
<1>1. /\ f.type \in {"value", "option", "vec", "option_vec"} /\ f.attrs \in Seq(Attribute)
      /\ f.kind \in [name : KindNames \cup {"string", "struct"}, int : PrimitiveSizes, len : Nat]
  BY DEF FieldDecl
<1>2. f.kind \in FixedValueKind
  BY <1>1 DEF FieldSupported, FixedValueKind
<1>3. f.type \in {"value", "option", "vec"}
  BY DEF FieldSupported
<1>4. ASSUME f.attrs # << >>
      PROVE  /\ f.attrs[1] \in Attribute /\ 1 \in DOMAIN f.attrs
             /\ f.attrs[1].name \in {"capacity", "flexible"}
  <2>. DEFINE as == f.attrs
  <2>1. as \in Seq(Attribute) /\ as # << >>
    BY <1>1, <1>4
  <2>. HIDE DEF as
  <2>2. 1 \in DOMAIN as /\ as[1] \in Attribute
    BY <2>1, FirstElement
  <2>3. as[1].name \in {"capacity", "flexible"}
    BY <2>2 DEF Attribute
  <2>. QED
    BY <2>2, <2>3 DEF as
<1>5. AttributesSupported(f, isLast)
  BY DEF FieldSupported
<1>a. ASSUME f.attrs # << >>
      PROVE  IF f.attrs[1].name = "capacity" THEN f.attrs[1].n \in 0 .. MaxCapacity
             ELSE isLast /\ f.attrs[1].n \in {Bare} \cup 1 .. MaxFlexWidth
  BY <1>4, <1>5, <1>a DEF AttributesSupported
<1>b. flexible => isLast
  BY <1>4, <1>a
<1>6. l.shape \in {"plain", "option", "tail_option", "vec", "tail_vec"}
      /\ (IsTail(l) => flexible) /\ l.kind = f.kind
  BY <1>3 DEF Classify, IsTail
<1>7. ASSUME f.type = "vec"
      PROVE  /\ f.attrs # << >> /\ f.attrs[1].n # Bare
             /\ IF flexible THEN f.attrs[1].n \in 1 .. MaxFlexWidth
                            ELSE f.attrs[1].n \in 0 .. MaxCapacity
  <2>1. Len(f.attrs) = 1 /\ f.attrs[1].n # Bare
    BY <1>7 DEF FieldSupported
  <2>2. f.attrs # << >>
    BY <2>1, <1>1
  <2>. QED
    BY <2>1, <2>2, <1>4, <1>a
<1>8. l.capacity \in Nat
  BY <1>7, <1>3, MaxCapacityType DEF Classify
<1>9. l.width \in 0 .. MaxFlexWidth
  <2>1. CASE f.type # "vec"
    BY <2>1 DEF Classify, MaxFlexWidth
  <2>2. CASE f.type = "vec" /\ flexible
    <3>1. l.width = f.attrs[1].n
      BY <2>2 DEF Classify
    <3>. QED
      BY <2>2, <3>1, <1>7 DEF MaxFlexWidth
  <2>3. CASE f.type = "vec" /\ ~flexible
    <3>1. l.width = LenWidth(f.attrs[1].n)
      BY <2>3 DEF Classify
    <3>. QED
      BY <3>1 DEF LenWidth, MaxFlexWidth
  <2>. QED
    BY <2>1, <2>2, <2>3
<1>10. l = [shape |-> l.shape, kind |-> l.kind, width |-> l.width, capacity |-> l.capacity]
  <2>1. \E s, k, w, c : l = [shape |-> s, kind |-> k, width |-> w, capacity |-> c]
    BY Zenon DEF Classify
  <2>2. PICK s, k, w, c : l = [shape |-> s, kind |-> k, width |-> w, capacity |-> c]
    BY <2>1
  <2>. HIDE DEF l
  <2>. QED
    BY <2>2
<1>11. l.kind \in FixedValueKind /\ (IsTail(l) => isLast)
  BY <1>2, <1>b, <1>6
<1>12. IsVec(l) => l.width \in 1 .. MaxFlexWidth /\ l.kind.name # "bool"
  <2>1. IsVec(l) => f.type = "vec"
    BY <1>3 DEF Classify, IsVec
  <2>4. f.type = "vec" => l.kind.name # "bool"
    BY <1>6 DEF FieldSupported
  <2>2. CASE f.type = "vec" /\ flexible
    <3>1. l.width = f.attrs[1].n
      BY <2>2 DEF Classify
    <3>. QED
      BY <2>2, <2>4, <3>1, <1>7
  <2>3. CASE f.type = "vec" /\ ~flexible
    <3>1. l.width = LenWidth(f.attrs[1].n)
      BY <2>3 DEF Classify
    <3>. QED
      BY <2>3, <2>4, <3>1 DEF LenWidth, MaxFlexWidth
  <2>. QED
    BY <2>1, <2>2, <2>3, <2>4
<1>13. l.shape = "vec" => l.capacity <= HeaderMax(l.width)
  <2>. SUFFICES ASSUME l.shape = "vec" PROVE l.capacity <= HeaderMax(l.width)
    OBVIOUS
  <2>1. f.type = "vec" /\ ~flexible
    BY <1>3 DEF Classify
  <2>2. l.capacity = f.attrs[1].n /\ l.width = LenWidth(f.attrs[1].n)
    BY <2>1 DEF Classify
  <2>3. f.attrs[1].n \in 0 .. MaxCapacity
    BY <2>1, <1>7
  <2>. QED
    BY <2>2, <2>3, RadixAssumption DEF LenWidth, HeaderMax, MaxCapacity
<1>. HIDE DEF l, flexible
<1>14. l \in FixedLayout
  BY <1>6, <1>8, <1>9, <1>10, <1>11, FixedLayoutRecord
<1>. QED
  BY <1>11, <1>12, <1>13, <1>14 DEF l

(* The lengths and the padding of a slot are numbers; padding is missing   *)
(* exactly when the payload would be misaligned.                           *)
LEMMA SlotTypes ==
  ASSUME NEW l \in FixedLayout
  PROVE  /\ SlotMinLen(l) \in Nat /\ PayloadShift(l) \in Nat
         /\ Align(l.kind) \in PrimitiveSizes
         /\ IsTail(l) => SlotMinLen(l) = 0
         /\ ~IsTail(l) => SlotLenExpr(l) = SlotMinLen(l)
<1>1. /\ l.shape \in {"plain", "option", "tail_option", "vec", "tail_vec"}
      /\ l.kind \in FixedValueKind /\ l.width \in Nat /\ l.capacity \in Nat
  BY DEF FixedLayout, MaxFlexWidth
<1>2. Size(l.kind) \in Nat /\ Align(l.kind) \in PrimitiveSizes
  BY <1>1, KindTypes
<1>3. Size(l.kind) * l.capacity \in Nat
  BY <1>1, <1>2
<1>4. SlotMinLen(l) \in Nat /\ PayloadShift(l) \in Nat
  BY <1>1, <1>2, <1>3 DEF SlotMinLen, PayloadShift, IsTail, IsOption, IsVec
<1>5. IsTail(l) => SlotMinLen(l) = 0
  BY <1>1 DEF SlotMinLen, IsTail
<1>6. ~IsTail(l) => SlotLenExpr(l) = SlotMinLen(l)
  BY <1>1 DEF SlotLenExpr, SlotMinLen, IsTail
<1>. QED
  BY <1>2, <1>4, <1>5, <1>6

LEMMA PaddingTypes ==
  ASSUME NEW l \in FixedLayout, NEW o \in Nat
  PROVE  /\ MissingPadding(l, o) \in Nat
         /\ MissingPadding(l, o) = 0 <=> (o + PayloadShift(l)) % Align(l.kind) = 0
<1>. DEFINE x == o + PayloadShift(l)
            a == Align(l.kind)
<1>1. x \in Nat /\ a \in PrimitiveSizes
  BY SlotTypes
<1>2. MissingPadding(l, o) = IF x % a = 0 THEN 0 ELSE a - (x % a)
  BY DEF MissingPadding
<1>. HIDE DEF x, a
<1>3. x % a \in 0 .. a - 1 /\ a \in Nat
  BY <1>1 DEF PrimitiveSizes
<1>4. MissingPadding(l, o) \in Nat /\ (MissingPadding(l, o) = 0 <=> x % a = 0)
  BY <1>2, <1>3
<1>. QED
  BY <1>4 DEF x, a

(* The padding asked for aligns the payload.                               *)
LEMMA PaddingAligns ==
  ASSUME NEW l \in FixedLayout, NEW o \in Nat
  PROVE  (o + MissingPadding(l, o) + PayloadShift(l)) % Align(l.kind) = 0
<1>. DEFINE x == o + PayloadShift(l)
            a == Align(l.kind)
            p == MissingPadding(l, o)
<1>1. o \in Nat /\ PayloadShift(l) \in Nat /\ x \in Nat /\ a \in PrimitiveSizes /\ p \in Nat
  BY SlotTypes, PaddingTypes
<1>2. p = IF x % a = 0 THEN 0 ELSE a - (x % a)
  BY DEF MissingPadding
<1>3. o + p + PayloadShift(l) = x + p
  BY <1>1
<1>. HIDE DEF x, a, p
<1>4. (x + p) % a = 0
  <2>1. CASE a = 1
    BY <2>1, <1>1, <1>2
  <2>2. CASE a = 2
    BY <2>2, <1>1, <1>2
  <2>3. CASE a = 4
    BY <2>3, <1>1, <1>2
  <2>4. CASE a = 8
    BY <2>4, <1>1, <1>2
  <2>5. CASE a = 16
    BY <2>5, <1>1, <1>2
  <2>. QED
    BY <1>1, <2>1, <2>2, <2>3, <2>4, <2>5 DEF PrimitiveSizes
<1>. QED
  BY <1>3, <1>4 DEF a, p

(* Aligned from the start of a buffer is aligned from its base as well.    *)
LEMMA BaseKeepsAlignment ==
  ASSUME NEW x \in Nat, NEW a \in PrimitiveSizes, a <= BaseAlign, x % a = 0,
         NEW base \in {0, BaseAlign}
  PROVE  (base + x) % a = 0
<1>1. CASE base = 0
  BY <1>1 DEF PrimitiveSizes
<1>2. CASE base = BaseAlign
  BY <1>2, BaseMultiple, FixedBaseAlignAssumption
<1>. QED
  BY <1>1, <1>2

(* A type-correct sequence grown by one element: its length, its old and   *)
(* its new elements.                                                       *)
LEMMA Grown ==
  ASSUME NEW S, NEW s \in Seq(S), NEW e \in S
  PROVE  /\ Append(s, e) \in Seq(S) /\ Append(s, e) # << >>
         /\ Len(s) \in Nat /\ Len(Append(s, e)) = Len(s) + 1
         /\ \A i \in 1 .. Len(s) : Append(s, e)[i] = s[i]
         /\ Append(s, e)[Len(s) + 1] = e
         /\ \A i \in 1 .. Len(s) : s[i] \in S
BY AppendProperties, LenProperties, ElementOfSeq

-----------------------------------------------------------------------------
(* The inductive invariant. *)

(* The loop has treated the fields below idx.                              *)
LoopInv ==
  /\ Len(layouts) = idx - 1 /\ Len(placed) = idx - 1 /\ Len(offsets) = idx

(* Without an issue the borrowed payloads so far are aligned.              *)
AlignedInv ==
  issues = << >> =>
    \A i \in 1 .. Len(layouts) :
      Borrows(layouts[i]) =>
        /\ Align(layouts[i].kind) <= BaseAlign
        /\ (placed[i] + PayloadShift(layouts[i])) % Align(layouts[i].kind) = 0

(* Without an issue no padding was added, and the accumulators agree.      *)
SumsInv ==
  issues = << >> =>
    /\ offset = offsets[Len(offsets)]
    /\ offset = IF totalLen = NoLength THEN 0 ELSE totalLen
    /\ offsets[1] = 0
    /\ \A i \in 1 .. Len(layouts) :
         /\ placed[i] = offsets[i]
         /\ offsets[i + 1] = offsets[i] + SlotMinLen(layouts[i])

(* A struct is emitted only without issues, and with a length.             *)
EmittedInv == phase = "emitted" => issues = << >> /\ totalLen # NoLength

FixedInv == FixedTypeOK /\ LoopInv /\ AlignedInv /\ SumsInv /\ EmittedInv

LEMMA FixedInitInv == ExpandInit => FixedInv
<1>. SUFFICES ASSUME ExpandInit PROVE FixedInv
  OBVIOUS
<1>1. /\ decl \in Decls /\ phase = "args" /\ idx = 1 /\ rejected = "none"
      /\ layouts = << >> /\ placed = << >> /\ issues = << >>
      /\ offset = 0 /\ offsets = << 0 >> /\ totalLen = NoLength
  BY DEF ExpandInit
<1>2. offsets \in Seq(Nat) \ {<< >>} /\ Len(offsets) = 1 /\ offsets[1] = 0
  BY <1>1
<1>3. FixedTypeOK
  BY <1>1, <1>2 DEF FixedTypeOK
<1>4. LoopInv
  BY <1>1, <1>2 DEF LoopInv
<1>5. AlignedInv
  BY <1>1 DEF AlignedInv
<1>6. SumsInv
  <2>1. Len(layouts) = 0 /\ offsets[Len(offsets)] = 0
    BY <1>1, <1>2
  <2>2. 1 .. Len(layouts) = {}
    BY <2>1
  <2>. QED
    BY <1>1, <1>2, <2>1, <2>2 DEF SumsInv
<1>7. EmittedInv
  BY <1>1 DEF EmittedInv
<1>. QED
  BY <1>3, <1>4, <1>5, <1>6, <1>7 DEF FixedInv

(* The body of the loop, for a field that is supported.                    *)
LEMMA AddSlotStep ==
  ASSUME FixedInv, NEW l \in FixedLayout, AddSlot(l),
         layouts' = Append(layouts, l), idx' = idx + 1
  PROVE  /\ layouts' \in Seq(FixedLayout) /\ placed' \in Seq(Nat)
         /\ offset' \in Nat /\ offsets' \in Seq(Nat) \ {<< >>}
         /\ totalLen' \in Nat \cup {NoLength}
         /\ issues' \in Seq([field : Nat, padding : Nat])
         /\ LoopInv' /\ AlignedInv' /\ SumsInv'
<1>. DEFINE borrowed == Borrows(l)
            fits == Align(l.kind) <= BaseAlign
            padding == IF borrowed /\ fits THEN MissingPadding(l, offset) ELSE 0
            start == PaddedStart(padding)
            n == Len(layouts)
<1>1. /\ layouts \in Seq(FixedLayout) /\ placed \in Seq(Nat) /\ idx \in Nat \ {0}
      /\ offset \in Nat /\ offsets \in Seq(Nat) /\ totalLen \in Nat \cup {NoLength}
      /\ issues \in Seq([field : Nat, padding : Nat])
      /\ n = idx - 1 /\ Len(placed) = idx - 1 /\ Len(offsets) = idx
  BY DEF FixedInv, FixedTypeOK, LoopInv
<1>2. BaseAlign \in Nat /\ Align(l.kind) \in Nat /\ Align(l.kind) \in PrimitiveSizes
      /\ PayloadShift(l) \in Nat /\ SlotMinLen(l) \in Nat
  BY FixedBaseAlignAssumption, SlotTypes DEF PrimitiveSizes
<1>3. padding \in Nat /\ (padding = 0 /\ borrowed /\ fits
                            => (offset + PayloadShift(l)) % Align(l.kind) = 0)
  BY <1>1, PaddingTypes
<1>4. start = offset + padding
  BY DEF PaddedStart
<1>5. /\ issues' = IF borrowed /\ ~fits
                   THEN Append(issues, [field |-> idx, padding |-> TooAligned])
                   ELSE IF padding # 0 THEN Append(issues, [field |-> idx, padding |-> padding])
                   ELSE issues
      /\ placed' = Append(placed, start)
      /\ offset' = start + SlotMinLen(l)
      /\ offsets' = Append(offsets, IF IsTail(l) THEN offsets[Len(offsets)] ELSE offset')
      /\ totalLen' = IF IsTail(l) THEN totalLen
                     ELSE SlotLenExpr(l) + IF totalLen = NoLength THEN 0 ELSE totalLen
  <2>1. fits \/ ~fits
    OBVIOUS
  <2>2. ~fits <=> Align(l.kind) > BaseAlign
    BY <1>2
  <2>. QED
    BY <2>2 DEF AddSlot
<1>. HIDE DEF borrowed, fits, padding, start, n
<1>6. start \in Nat /\ offset' \in Nat
  <2>1. start \in Nat
    BY ONLY <1>1, <1>3, <1>4
  <2>2. offset' = start + SlotMinLen(l)
    BY <1>5
  <2>. QED
    BY ONLY <1>2, <2>1, <2>2
<1>7. offsets[Len(offsets)] \in Nat
  BY <1>1, ElementOfSeq
<1>8. layouts' \in Seq(FixedLayout) /\ placed' \in Seq(Nat)
  BY <1>1, <1>5, <1>6, Grown
<1>9. offsets' \in Seq(Nat) \ {<< >>}
  <2>. DEFINE e == IF IsTail(l) THEN offsets[Len(offsets)] ELSE offset'
  <2>1. e \in Nat
    BY <1>6, <1>7
  <2>. HIDE DEF e
  <2>2. Append(offsets, e) \in Seq(Nat) /\ Append(offsets, e) # << >>
    <3>1. offsets \in Seq(Nat)
      BY <1>1
    <3>2. Append(offsets, e) \in Seq(Nat)
      BY ONLY <3>1, <2>1
    <3>3. Len(Append(offsets, e)) = Len(offsets) + 1 /\ Len(offsets) \in Nat
      BY ONLY <3>1
    <3>. QED
      BY ONLY <3>2, <3>3
  <2>. QED
    BY <2>2, <1>5 DEF e
<1>10. totalLen' \in Nat \cup {NoLength}
  <2>1. CASE IsTail(l)
    BY <2>1, <1>1, <1>5
  <2>2. CASE ~IsTail(l)
    <3>. DEFINE before == IF totalLen = NoLength THEN 0 ELSE totalLen
    <3>1. before \in Nat
      BY <1>1
    <3>2. totalLen' = SlotMinLen(l) + before
      BY <2>2, <1>5, SlotTypes
    <3>. HIDE DEF before
    <3>. QED
      BY ONLY <1>2, <3>1, <3>2
  <2>. QED
    BY <2>1, <2>2
<1>11. issues' \in Seq([field : Nat, padding : Nat])
       /\ (issues' = << >> => issues = << >> /\ (borrowed => fits) /\ padding = 0)
  <2>1. [field |-> idx, padding |-> TooAligned] \in [field : Nat, padding : Nat]
        /\ [field |-> idx, padding |-> padding] \in [field : Nat, padding : Nat]
    BY <1>1, <1>3 DEF TooAligned
  <2>2. \A e \in [field : Nat, padding : Nat] :
          Append(issues, e) \in Seq([field : Nat, padding : Nat]) /\ Append(issues, e) # << >>
    <3>1. issues \in Seq([field : Nat, padding : Nat])
      BY <1>1
    <3>. QED
      BY ONLY <3>1, Grown
  <2>. QED
    BY <1>5, <1>1, <2>1, <2>2
<1>12. LoopInv'
  BY <1>1, <1>5, Grown, AppendProperties DEF LoopInv, n
<1>13. n \in Nat /\ layouts'[n + 1] = l /\ placed'[n + 1] = start /\ Len(layouts') = n + 1
       /\ \A i \in 1 .. n : layouts'[i] = layouts[i] /\ placed'[i] = placed[i]
                            /\ layouts[i] \in FixedLayout /\ placed[i] \in Nat
  <2>1. /\ Len(layouts) \in Nat /\ Len(layouts') = Len(layouts) + 1
        /\ layouts'[Len(layouts) + 1] = l
        /\ \A i \in 1 .. Len(layouts) : layouts'[i] = layouts[i] /\ layouts[i] \in FixedLayout
    BY <1>1, Grown
  <2>2. /\ placed'[Len(placed) + 1] = start
        /\ \A i \in 1 .. Len(placed) : placed'[i] = placed[i] /\ placed[i] \in Nat
    <3>1. placed \in Seq(Nat) /\ placed' = Append(placed, start)
      BY <1>1, <1>5
    <3>. QED
      BY ONLY <3>1, <1>6, Grown
  <2>. QED
    BY <2>1, <2>2, <1>1 DEF n
<1>14. ASSUME issues' = << >>, NEW i \in 1 .. Len(layouts'), Borrows(layouts'[i])
       PROVE  /\ Align(layouts'[i].kind) <= BaseAlign
              /\ (placed'[i] + PayloadShift(layouts'[i])) % Align(layouts'[i].kind) = 0
  <2>1. CASE i \in 1 .. n
    BY <2>1, <1>11, <1>13, <1>14 DEF FixedInv, AlignedInv, n
  <2>2. CASE i = n + 1
    <3>1. borrowed /\ fits /\ padding = 0 /\ start = offset
      BY <2>2, <1>1, <1>4, <1>11, <1>13, <1>14 DEF borrowed
    <3>. QED
      BY <3>1, <2>2, <1>3, <1>13 DEF fits
  <2>. QED
    BY <2>1, <2>2, <1>13
<1>15. AlignedInv'
  BY <1>14 DEF AlignedInv
<1>16. ASSUME issues' = << >>
       PROVE  /\ placed'[n + 1] = offset /\ offset = offsets[n + 1]
              /\ offset' = offset + SlotMinLen(l)
              /\ offset' = IF totalLen' = NoLength THEN 0 ELSE totalLen'
              /\ offsets' = Append(offsets, offset')
  <2>1. issues = << >> /\ padding = 0 /\ start = offset
    BY <1>11, <1>16, <1>1, <1>4
  <2>2. offset = offsets[n + 1] /\ Len(offsets) = n + 1
    BY <2>1, <1>1, <1>13 DEF FixedInv, SumsInv
  <2>3. offset' = offset + SlotMinLen(l)
    BY <2>1, <1>5
  <2>4. offset = IF totalLen = NoLength THEN 0 ELSE totalLen
    BY <2>1 DEF FixedInv, SumsInv
  <2>5. /\ IsTail(l) => offset' = offset
        /\ ~IsTail(l) => SlotLenExpr(l) = SlotMinLen(l)
    BY <2>3, <1>1, SlotTypes
  <2>6. offset' = IF totalLen' = NoLength THEN 0 ELSE totalLen'
    <3>1. CASE IsTail(l)
      BY <3>1, <1>5, <2>4, <2>5
    <3>2. CASE ~IsTail(l)
      <4>1. totalLen' = SlotMinLen(l) + offset
        BY <3>2, <1>5, <2>4, <2>5
      <4>2. totalLen' = offset' /\ totalLen' # -1
        BY ONLY <4>1, <2>3, <1>1, <1>2
      <4>. QED
        BY <4>2 DEF NoLength
    <3>. QED
      BY <3>1, <3>2
  <2>7. offsets' = Append(offsets, offset')
    BY <1>5, <2>2, <2>5
  <2>. QED
    BY <1>13, <2>1, <2>2, <2>3, <2>6, <2>7
<1>17. ASSUME issues' = << >>
       PROVE  /\ Len(offsets) = n + 1 /\ Len(offsets') = n + 2 /\ offsets'[n + 2] = offset'
              /\ \A i \in 1 .. n + 1 : offsets'[i] = offsets[i]
  <2>1. Len(offsets) = n + 1 /\ Len(offsets) \in Nat
    BY <1>1, <1>13
  <2>2. /\ Len(Append(offsets, offset')) = Len(offsets) + 1
        /\ Append(offsets, offset')[Len(offsets) + 1] = offset'
        /\ \A i \in 1 .. Len(offsets) : Append(offsets, offset')[i] = offsets[i]
    BY <1>1, <1>6, Grown
  <2>. QED
    BY <1>16, <1>17, <2>1, <2>2, <1>13
<1>18. SumsInv'
  <2>. SUFFICES ASSUME issues' = << >>
                PROVE  /\ offset' = offsets'[Len(offsets')]
                       /\ offset' = IF totalLen' = NoLength THEN 0 ELSE totalLen'
                       /\ offsets'[1] = 0
                       /\ \A i \in 1 .. Len(layouts') :
                            /\ placed'[i] = offsets'[i]
                            /\ offsets'[i + 1] = offsets'[i] + SlotMinLen(layouts'[i])
    BY DEF SumsInv
  <2>1. offsets[1] = 0 /\ \A i \in 1 .. n : placed[i] = offsets[i]
                            /\ offsets[i + 1] = offsets[i] + SlotMinLen(layouts[i])
    BY <1>11 DEF FixedInv, SumsInv, n
  <2>2. ASSUME NEW i \in 1 .. n
        PROVE  placed'[i] = offsets'[i] /\ offsets'[i + 1] = offsets'[i] + SlotMinLen(layouts'[i])
    <3>1. i \in 1 .. n + 1 /\ i + 1 \in 1 .. n + 1
      BY <1>13
    <3>. QED
      BY <3>1, <2>1, <1>13, <1>17
  <2>3. placed'[n + 1] = offsets'[n + 1]
        /\ offsets'[n + 1 + 1] = offsets'[n + 1] + SlotMinLen(layouts'[n + 1])
    BY <1>13, <1>16, <1>17
  <2>4. \A i \in 1 .. Len(layouts') :
          placed'[i] = offsets'[i] /\ offsets'[i + 1] = offsets'[i] + SlotMinLen(layouts'[i])
    <3>1. \A i \in 1 .. Len(layouts') : i \in 1 .. n \/ i = n + 1
      BY <1>13
    <3>. QED
      BY <3>1, <2>2, <2>3
  <2>5. offsets'[1] = 0
    BY <2>1, <1>13, <1>17
  <2>. QED
    BY <2>4, <2>5, <1>16, <1>17
<1>. QED
  BY <1>6, <1>8, <1>9, <1>10, <1>11, <1>12, <1>15, <1>18

LEMMA FixedStepInv ==
  ASSUME FixedInv, [ExpandNext \/ ExpandStopped]_expandVars
  PROVE  FixedInv'
<1>1. CASE UNCHANGED expandVars
  <2>1. FixedTypeOK' /\ LoopInv'
    BY <1>1 DEF FixedInv, FixedTypeOK, LoopInv, expandVars
  <2>2. AlignedInv' /\ SumsInv' /\ EmittedInv'
    BY <1>1 DEF FixedInv, AlignedInv, SumsInv, EmittedInv, expandVars
  <2>. QED
    BY <2>1, <2>2 DEF FixedInv
<1>2. ASSUME UNCHANGED << decl, idx, loopVars >>,
             phase' \in {"args", "fields", "emitted", "rejected"},
             rejected' \in {"none", "args", "field", "alignment", "no_length"}, EmittedInv'
      PROVE  FixedInv'
  <2>1. /\ UNCHANGED << decl, idx >>
        /\ UNCHANGED << layouts, offset, offsets, placed, totalLen, issues >>
    BY <1>2 DEF loopVars
  <2>2. FixedTypeOK' /\ LoopInv'
    BY <1>2, <2>1 DEF FixedInv, FixedTypeOK, LoopInv
  <2>3. AlignedInv' /\ SumsInv'
    BY <2>1 DEF FixedInv, AlignedInv, SumsInv
  <2>. QED
    BY <1>2, <2>2, <2>3 DEF FixedInv
<1>3. CASE ParseArgs
  <2>1. rejected \in {"none", "args", "field", "alignment", "no_length"}
    BY DEF FixedInv, FixedTypeOK
  <2>2. /\ phase' \in {"args", "fields", "emitted", "rejected"} /\ phase' # "emitted"
        /\ rejected' \in {"none", "args", "field", "alignment", "no_length"}
    BY <1>3, <2>1 DEF ParseArgs, Reject
  <2>3. EmittedInv'
    BY <2>2 DEF EmittedInv
  <2>. QED
    BY <1>2, <1>3, <2>2, <2>3 DEF ParseArgs
<1>4. CASE AddField
  <2>. DEFINE f == decl.fields[idx]
              isLast == idx = Len(decl.fields)
  <2>1. idx \in Nat \ {0} /\ decl \in Decls /\ phase = "fields" /\ idx <= Len(decl.fields)
        /\ UNCHANGED decl
    BY <1>4 DEF FixedInv, FixedTypeOK, AddField
  <2>2. f \in FieldDecl
    <3>1. decl.fields \in Seq(FieldDecl)
      BY <2>1, FixedDeclsAssumption
    <3>2. Len(decl.fields) \in Nat
      BY <3>1, LenProperties
    <3>3. idx \in 1 .. Len(decl.fields)
      BY <2>1, <3>2
    <3>. QED
      BY <3>1, <3>3, ElementOfSeq
  <2>3. CASE FieldSupported(f, isLast)
    <3>1. /\ layouts' = Append(layouts, Classify(f)) /\ AddSlot(Classify(f))
          /\ idx' = idx + 1 /\ UNCHANGED << phase, rejected >>
      BY <1>4, <2>3 DEF AddField
    <3>2. Classify(f) \in FixedLayout
      <4>1. isLast \in BOOLEAN
        OBVIOUS
      <4>. HIDE DEF f, isLast
      <4>. QED
        BY <4>1, <2>2, <2>3, ClassifyType
    <3>. HIDE DEF f, isLast
    <3>3. /\ layouts' \in Seq(FixedLayout) /\ placed' \in Seq(Nat)
          /\ offset' \in Nat /\ offsets' \in Seq(Nat) \ {<< >>}
          /\ totalLen' \in Nat \cup {NoLength}
          /\ issues' \in Seq([field : Nat, padding : Nat])
          /\ LoopInv' /\ AlignedInv' /\ SumsInv'
      BY <3>1, <3>2, AddSlotStep
    <3>4. idx' \in Nat \ {0}
      BY <2>1, <3>1
    <3>5. FixedTypeOK'
      BY <2>1, <3>1, <3>3, <3>4 DEF FixedInv, FixedTypeOK
    <3>6. EmittedInv'
      BY <2>1, <3>1 DEF EmittedInv
    <3>. QED
      BY <3>3, <3>5, <3>6 DEF FixedInv
  <2>4. CASE ~FieldSupported(f, isLast)
    <3>1. Reject("field") /\ UNCHANGED << idx, loopVars >>
      BY <1>4, <2>4 DEF AddField
    <3>2. phase' = "rejected" /\ rejected' = "field"
      BY <3>1 DEF Reject
    <3>3. EmittedInv'
      BY <3>2 DEF EmittedInv
    <3>. QED
      BY <1>2, <2>1, <3>1, <3>2, <3>3
  <2>. QED
    BY <2>3, <2>4
<1>5. CASE FieldsDone
  <2>1. rejected \in {"none", "args", "field", "alignment", "no_length"}
        /\ UNCHANGED << decl, idx, loopVars >>
    BY <1>5 DEF FixedInv, FixedTypeOK, FieldsDone
  <2>2. /\ phase' \in {"args", "fields", "emitted", "rejected"}
        /\ rejected' \in {"none", "args", "field", "alignment", "no_length"}
        /\ phase' = "emitted" => issues = << >> /\ totalLen # NoLength
    BY <1>5, <2>1 DEF FieldsDone, Reject
  <2>3. EmittedInv'
    BY <2>1, <2>2 DEF EmittedInv, loopVars
  <2>. QED
    BY <1>2, <2>1, <2>2, <2>3
<1>6. CASE ExpandStopped
  BY <1>1, <1>6 DEF ExpandStopped
<1>. QED
  BY <1>1, <1>3, <1>4, <1>5, <1>6 DEF ExpandNext

LEMMA FixedInvariant == ExpandSpec => []FixedInv
<1>1. ExpandInit => FixedInv
  BY FixedInitInv
<1>2. FixedInv /\ [ExpandNext \/ ExpandStopped]_expandVars => FixedInv'
  BY FixedStepInv
<1>. QED
  BY <1>1, <1>2, PTL DEF ExpandSpec

-----------------------------------------------------------------------------
(* What follows. *)

(* Type correctness: for every struct, the loop of expand() keeps numbers  *)
(* of slots, offsets and issues, and never a negative length.              *)
THEOREM FixedTypeCorrect == ExpandSpec => []FixedTypeOK
<1>1. FixedInv => FixedTypeOK
  BY DEF FixedInv
<1>. QED
  BY <1>1, FixedInvariant, PTL

LEMMA InvBorrowsAligned ==
  ASSUME FixedInv, phase = "emitted", NEW i \in 1 .. FieldCount
  PROVE  ~Misaligned(layouts[i], placed[i])
<1>. SUFFICES ASSUME Borrows(layouts[i]), NEW base \in {0, BaseAlign}
              PROVE  (base + placed[i] + PayloadShift(layouts[i]))
                       % Align(layouts[i].kind) = 0
  BY DEF Misaligned
<1>1. issues = << >>
  BY DEF FixedInv, EmittedInv
<1>2. /\ Align(layouts[i].kind) <= BaseAlign
      /\ (placed[i] + PayloadShift(layouts[i])) % Align(layouts[i].kind) = 0
  BY <1>1 DEF FixedInv, AlignedInv, FieldCount
<1>3. layouts[i] \in FixedLayout /\ placed[i] \in Nat
  <2>1. layouts \in Seq(FixedLayout) /\ placed \in Seq(Nat) /\ Len(placed) = Len(layouts)
        /\ i \in 1 .. Len(layouts)
    BY DEF FixedInv, FixedTypeOK, LoopInv, FieldCount
  <2>. QED
    BY <2>1, ElementOfSeq
<1>4. PayloadShift(layouts[i]) \in Nat /\ Align(layouts[i].kind) \in PrimitiveSizes
  BY <1>3, SlotTypes
<1>5. placed[i] + PayloadShift(layouts[i]) \in Nat
  BY <1>3, <1>4
<1>6. (base + (placed[i] + PayloadShift(layouts[i]))) % Align(layouts[i].kind) = 0
  BY <1>2, <1>4, <1>5, BaseKeepsAlignment
<1>7. base \in Nat
  BY FixedBaseAlignAssumption
<1>8. base + placed[i] + PayloadShift(layouts[i])
        = base + (placed[i] + PayloadShift(layouts[i]))
  BY <1>3, <1>4, <1>7
<1>. QED
  BY <1>6, <1>8

(* check_ref_alignment is sound: a struct that compiles hands out no       *)
(* misaligned reference, whatever its fields.                              *)
THEOREM FixedBorrowsAligned == ExpandSpec => []BorrowsAligned
<1>1. FixedInv => BorrowsAligned
  BY InvBorrowsAligned DEF BorrowsAligned
<1>. QED
  BY <1>1, FixedInvariant, PTL

(* OFFSETS, the offsets in the generated code and the lengths agree for    *)
(* every struct that compiles: each slot starts where the one before it    *)
(* ends, the generated code reads and writes at OFFSETS, and DATA_LEN or   *)
(* MIN_DATA_LEN is the end of the last slot.                               *)
SlotsContiguous ==
  phase = "emitted" =>
    /\ Len(placed) = FieldCount /\ offsets[1] = 0
    /\ \A i \in 1 .. FieldCount :
         /\ placed[i] = offsets[i]
         /\ offsets[i + 1] = placed[i] + SlotMinLen(layouts[i])
    /\ DataLen = offsets[FieldCount + 1] /\ MinLen = DataLen

LEMMA InvSlotsContiguous ==
  ASSUME FixedInv, phase = "emitted"
  PROVE  SlotsContiguous
<1>1. issues = << >> /\ totalLen # NoLength
  BY DEF FixedInv, EmittedInv
<1>2. /\ offset = offsets[Len(offsets)] /\ offset = totalLen /\ offsets[1] = 0
      /\ \A i \in 1 .. Len(layouts) :
           placed[i] = offsets[i] /\ offsets[i + 1] = offsets[i] + SlotMinLen(layouts[i])
  BY <1>1 DEF FixedInv, SumsInv
<1>3. Len(placed) = FieldCount /\ Len(offsets) = FieldCount + 1
  <2>1. idx \in Nat /\ Len(layouts) = idx - 1 /\ Len(placed) = idx - 1 /\ Len(offsets) = idx
    BY DEF FixedInv, FixedTypeOK, LoopInv
  <2>. QED
    BY <2>1 DEF FieldCount
<1>. QED
  BY <1>2, <1>3 DEF SlotsContiguous, FieldCount, DataLen, MinLen

THEOREM FixedSlotsContiguous == ExpandSpec => []SlotsContiguous
<1>1. FixedInv => SlotsContiguous
  BY InvSlotsContiguous DEF SlotsContiguous
<1>. QED
  BY <1>1, FixedInvariant, PTL

-----------------------------------------------------------------------------
(* The paddings.  Every field starts where the one before it ends, behind  *)
(* the padding that is asked for it, and no padding is asked for without   *)
(* need: an invariant of its own on top of FixedInv.                       *)

SlotEnd(i) == IF i = 0 THEN 0 ELSE placed[i] + SlotMinLen(layouts[i])

IssuesInv ==
  /\ \A k \in 1 .. Len(issues) :
       LET f == issues[k].field
           l == layouts[f]
       IN /\ f \in 1 .. Len(layouts) /\ Borrows(l)
          /\ IF issues[k].padding = TooAligned THEN Align(l.kind) > BaseAlign
             ELSE /\ Align(l.kind) <= BaseAlign
                  /\ (SlotEnd(f - 1) + PayloadShift(l)) % Align(l.kind) # 0
  /\ \A j, k \in 1 .. Len(issues) : j < k => issues[j].field < issues[k].field

PlacedInv ==
  /\ offset = SlotEnd(Len(layouts))
  /\ \A i \in 1 .. Len(layouts) :
       /\ \/ \E k \in 1 .. Len(issues) : /\ issues[k].field = i
                                         /\ placed[i] = SlotEnd(i - 1) + issues[k].padding
          \/ /\ \A k \in 1 .. Len(issues) : issues[k].field # i
             /\ placed[i] = SlotEnd(i - 1)
       /\ Borrows(layouts[i]) /\ Align(layouts[i].kind) <= BaseAlign =>
            (placed[i] + PayloadShift(layouts[i])) % Align(layouts[i].kind) = 0

PaddingInv == IssuesInv /\ PlacedInv

(* Only the last field is flexible at its end, a Vec fits its header and   *)
(* holds no bools, and a struct is refused for alignment for its issues    *)
(* only.                                                                   *)
ShapesInv ==
  /\ Len(layouts) <= Len(decl.fields)
  /\ \A i \in 1 .. Len(layouts) :
       /\ IsTail(layouts[i]) => i = Len(decl.fields)
       /\ IsVec(layouts[i]) => layouts[i].width \in 1 .. MaxFlexWidth /\ layouts[i].kind.name # "bool"
       /\ layouts[i].shape = "vec" => layouts[i].capacity <= HeaderMax(layouts[i].width)
  /\ Len(layouts) = 0 => totalLen = NoLength
  /\ phase = "emitted" => idx > Len(decl.fields)
  /\ rejected = "alignment" => issues # << >>

(* One turn of the loop: the slot is placed behind its padding, which is 0 *)
(* unless there is an issue.                                               *)
LEMMA SlotAdded ==
  ASSUME FixedInv, NEW l \in FixedLayout, AddSlot(l)
  PROVE  \E padding \in Nat :
           /\ placed' = Append(placed, offset + padding)
           /\ offset' = offset + padding + SlotMinLen(l)
           /\ \/ /\ Borrows(l) /\ Align(l.kind) > BaseAlign /\ padding = TooAligned
                 /\ issues' = Append(issues, [field |-> idx, padding |-> padding])
              \/ /\ Borrows(l) /\ Align(l.kind) <= BaseAlign /\ padding # 0
                 /\ issues' = Append(issues, [field |-> idx, padding |-> padding])
                 /\ (offset + PayloadShift(l)) % Align(l.kind) # 0
                 /\ (offset + padding + PayloadShift(l)) % Align(l.kind) = 0
              \/ /\ padding = 0 /\ issues' = issues
                 /\ Borrows(l) => /\ Align(l.kind) <= BaseAlign
                                  /\ (offset + PayloadShift(l)) % Align(l.kind) = 0
<1>. DEFINE borrowed == Borrows(l)
            fits == Align(l.kind) <= BaseAlign
            missing == MissingPadding(l, offset)
            padding == IF borrowed /\ fits THEN missing ELSE 0
<1>1. offset \in Nat /\ BaseAlign \in Nat /\ Align(l.kind) \in Nat
  <2>1. offset \in Nat
    BY DEF FixedInv, FixedTypeOK
  <2>2. Align(l.kind) \in Nat
    BY SlotTypes DEF PrimitiveSizes
  <2>. QED
    BY <2>1, <2>2, FixedBaseAlignAssumption
<1>2. /\ missing \in Nat
      /\ missing = 0 <=> (offset + PayloadShift(l)) % Align(l.kind) = 0
      /\ (offset + missing + PayloadShift(l)) % Align(l.kind) = 0
  BY <1>1, PaddingTypes, PaddingAligns
<1>3. ~fits <=> Align(l.kind) > BaseAlign
  BY <1>1
<1>4. /\ issues' = IF borrowed /\ ~fits
                   THEN Append(issues, [field |-> idx, padding |-> TooAligned])
                   ELSE IF padding # 0 THEN Append(issues, [field |-> idx, padding |-> padding])
                   ELSE issues
      /\ placed' = Append(placed, offset + padding)
      /\ offset' = offset + padding + SlotMinLen(l)
  BY <1>3 DEF AddSlot, PaddedStart
<1>5. padding \in Nat
  BY <1>2
<1>6. \/ /\ borrowed /\ ~fits /\ padding = TooAligned
         /\ issues' = Append(issues, [field |-> idx, padding |-> padding])
      \/ /\ borrowed /\ fits /\ padding = missing /\ padding # 0
         /\ issues' = Append(issues, [field |-> idx, padding |-> padding])
      \/ /\ padding = 0 /\ issues' = issues /\ (borrowed => fits /\ missing = 0)
  BY <1>4 DEF TooAligned
<1>. HIDE DEF borrowed, fits, missing, padding
<1>7. WITNESS padding \in Nat
<1>. QED
  BY <1>2, <1>3, <1>4, <1>6 DEF borrowed, fits

LEMMA AddSlotPadding ==
  ASSUME FixedInv, PaddingInv, NEW l \in FixedLayout, AddSlot(l),
         layouts' = Append(layouts, l)
  PROVE  PaddingInv'
<1>. DEFINE n == Len(layouts)
            m == Len(issues)
            Issue == [field : Nat, padding : Nat]
            A == Align(l.kind)
            shift == PayloadShift(l)
<1>1. /\ layouts \in Seq(FixedLayout) /\ placed \in Seq(Nat) /\ issues \in Seq(Issue)
      /\ n \in Nat /\ m \in Nat /\ idx = n + 1 /\ Len(placed) = n /\ offset \in Nat
  <2>1. /\ layouts \in Seq(FixedLayout) /\ placed \in Seq(Nat) /\ issues \in Seq(Issue)
        /\ Len(layouts) = idx - 1 /\ Len(placed) = idx - 1 /\ idx \in Nat /\ offset \in Nat
    BY DEF FixedInv, FixedTypeOK, LoopInv
  <2>2. Len(issues) \in Nat /\ Len(layouts) \in Nat
    BY <2>1, LenProperties
  <2>. QED
    BY <2>1, <2>2
<1>2. PICK padding \in Nat :
         /\ placed' = Append(placed, offset + padding)
         /\ offset' = offset + padding + SlotMinLen(l)
         /\ \/ /\ Borrows(l) /\ A > BaseAlign /\ padding = TooAligned
               /\ issues' = Append(issues, [field |-> idx, padding |-> padding])
            \/ /\ Borrows(l) /\ A <= BaseAlign /\ padding # 0
               /\ issues' = Append(issues, [field |-> idx, padding |-> padding])
               /\ (offset + shift) % A # 0
               /\ (offset + padding + shift) % A = 0
            \/ /\ padding = 0 /\ issues' = issues
               /\ Borrows(l) => A <= BaseAlign /\ (offset + shift) % A = 0
  BY SlotAdded
<1>. DEFINE start == offset + padding
            issue == [field |-> idx, padding |-> padding]
            fresh == issues' = Append(issues, issue)
<1>3. start \in Nat /\ issue \in Issue /\ issue.field = n + 1 /\ issue.padding = padding
  BY <1>1
<1>4. /\ Len(layouts') = n + 1 /\ layouts'[n + 1] = l /\ placed'[n + 1] = start
      /\ \A i \in 1 .. n : layouts'[i] = layouts[i] /\ placed'[i] = placed[i]
  BY <1>1, <1>2, <1>3, Grown
<1>5. fresh => /\ Len(issues') = m + 1 /\ issues'[m + 1] = issue
               /\ \A k \in 1 .. m : issues'[k] = issues[k]
  BY <1>1, <1>3, Grown
<1>6. fresh \/ issues' = issues
  BY <1>2
<1>. DEFINE End(i) == IF i = 0 THEN 0 ELSE placed'[i] + SlotMinLen(layouts'[i])
<1>7. \A i \in 0 .. n : End(i) = SlotEnd(i)
  BY <1>4 DEF SlotEnd
<1>8. offset' = End(n + 1) /\ offset = End(n)
  <2>1. offset = SlotEnd(n)
    BY DEF PaddingInv, PlacedInv
  <2>2. n \in 0 .. n /\ n + 1 # 0
    BY <1>1
  <2>. QED
    BY <1>2, <1>4, <1>7, <2>1, <2>2
<1>. HIDE DEF n, m, Issue, A, shift, start, issue, fresh, End
<1>a. \A k \in 1 .. m :
         /\ issues[k].field \in 1 .. n /\ Borrows(layouts[issues[k].field])
         /\ IF issues[k].padding = TooAligned
            THEN Align(layouts[issues[k].field].kind) > BaseAlign
            ELSE /\ Align(layouts[issues[k].field].kind) <= BaseAlign
                 /\ (SlotEnd(issues[k].field - 1) + PayloadShift(layouts[issues[k].field]))
                      % Align(layouts[issues[k].field].kind) # 0
  BY DEF PaddingInv, IssuesInv, m, n
<1>b. \A j, k \in 1 .. m : j < k => issues[j].field < issues[k].field
  BY DEF PaddingInv, IssuesInv, m
<1>c. \A i \in 1 .. n :
         /\ \/ \E k \in 1 .. m : issues[k].field = i /\ placed[i] = SlotEnd(i - 1) + issues[k].padding
            \/ (\A k \in 1 .. m : issues[k].field # i) /\ placed[i] = SlotEnd(i - 1)
         /\ Borrows(layouts[i]) /\ Align(layouts[i].kind) <= BaseAlign =>
              (placed[i] + PayloadShift(layouts[i])) % Align(layouts[i].kind) = 0
  BY DEF PaddingInv, PlacedInv, m, n
<1>9. ASSUME NEW k \in 1 .. m
      PROVE  /\ issues[k].field \in 1 .. n + 1 /\ Borrows(layouts'[issues[k].field])
             /\ IF issues[k].padding = TooAligned
                THEN Align(layouts'[issues[k].field].kind) > BaseAlign
                ELSE /\ Align(layouts'[issues[k].field].kind) <= BaseAlign
                     /\ (End(issues[k].field - 1) + PayloadShift(layouts'[issues[k].field]))
                          % Align(layouts'[issues[k].field].kind) # 0
  <2>. DEFINE f == issues[k].field
  <2>1. f \in 1 .. n
    BY <1>a
  <2>. HIDE DEF f
  <2>2. f \in 1 .. n + 1 /\ f - 1 \in 0 .. n
    BY <1>1, <2>1
  <2>3. layouts'[f] = layouts[f] /\ End(f - 1) = SlotEnd(f - 1)
    BY <1>4, <1>7, <2>1, <2>2
  <2>. QED
    BY <1>a, <2>2, <2>3 DEF f
<1>10. ASSUME fresh
       PROVE  /\ Borrows(l)
              /\ IF padding = TooAligned THEN A > BaseAlign
                 ELSE A <= BaseAlign /\ (End(n) + shift) % A # 0
  <2>1. issues' # issues
    <3>1. m \in Nat /\ Len(issues') = m + 1
      BY <1>1, <1>5, <1>10
    <3>. QED
      BY <3>1 DEF m
  <2>. QED
    BY <1>2, <1>8, <2>1 DEF TooAligned
<1>11. IssuesInv'
  <2>. DEFINE Fine(k) ==
         /\ issues'[k].field \in 1 .. n + 1 /\ Borrows(layouts'[issues'[k].field])
         /\ IF issues'[k].padding = TooAligned
            THEN Align(layouts'[issues'[k].field].kind) > BaseAlign
            ELSE /\ Align(layouts'[issues'[k].field].kind) <= BaseAlign
                 /\ (End(issues'[k].field - 1) + PayloadShift(layouts'[issues'[k].field]))
                      % Align(layouts'[issues'[k].field].kind) # 0
  <2>1. CASE issues' = issues
    <3>1. \A k \in 1 .. m : Fine(k)
      BY <1>9, <2>1
    <3>. QED
      BY <1>4, <1>b, <2>1, <3>1 DEF IssuesInv, SlotEnd, End, m
  <2>2. CASE fresh
    <3>1. \A k \in 1 .. m : Fine(k)
      BY <1>5, <1>9, <2>2
    <3>2. ASSUME NEW k, k = m + 1 PROVE Fine(k)
      <4>1. issues'[k].field = n + 1 /\ issues'[k].padding = padding
        BY <1>3, <1>5, <2>2, <3>2
      <4>2. layouts'[n + 1] = l /\ n + 1 \in 1 .. n + 1
        BY <1>1, <1>4
      <4>3. PICK f : f = n + 1
        OBVIOUS
      <4>4. /\ f \in 1 .. n + 1 /\ Borrows(layouts'[f])
            /\ IF padding = TooAligned
               THEN Align(layouts'[f].kind) > BaseAlign
               ELSE /\ Align(layouts'[f].kind) <= BaseAlign
                    /\ (End(f - 1) + PayloadShift(layouts'[f])) % Align(layouts'[f].kind) # 0
        <5>1. f - 1 = n
          BY ONLY <1>1, <4>3
        <5>2. Align(layouts'[f].kind) = A /\ PayloadShift(layouts'[f]) = shift /\ layouts'[f] = l
          BY <4>2, <4>3 DEF A, shift
        <5>. QED
          BY <1>10, <2>2, <4>2, <4>3, <5>1, <5>2
      <4>. QED
        BY <4>1, <4>3, <4>4
    <3>3. Len(issues') = m + 1 /\ \A k \in 1 .. m + 1 : k \in 1 .. m \/ k = m + 1
      BY <1>1, <1>5, <2>2
    <3>4. \A k \in 1 .. Len(issues') : Fine(k)
      <4>. HIDE DEF Fine
      <4>. QED
        BY <3>1, <3>2, <3>3
    <3>5. ASSUME NEW j \in 1 .. m + 1, NEW k \in 1 .. m + 1, j < k
          PROVE  issues'[j].field < issues'[k].field
      <4>a. j \in 1 .. m
        BY ONLY <1>1, <3>5
      <4>b. issues[j].field \in 1 .. n
        BY <1>a, <4>a
      <4>1. issues'[j] = issues[j] /\ issues[j].field \in 1 .. n
        BY <1>5, <2>2, <4>a, <4>b
      <4>2. CASE k \in 1 .. m
        BY <1>5, <1>b, <2>2, <3>5, <4>a, <4>1, <4>2
      <4>3. CASE k = m + 1
        BY <1>1, <1>3, <1>5, <2>2, <4>1, <4>3
      <4>. QED
        BY <3>3, <4>2, <4>3
    <3>. QED
      BY <1>4, <3>3, <3>4, <3>5 DEF IssuesInv, SlotEnd, End
  <2>. QED
    BY <1>6, <2>1, <2>2
<1>12. PlacedInv'
  <2>. DEFINE Asked(i) ==
         \/ \E k \in 1 .. Len(issues') : /\ issues'[k].field = i
                                         /\ placed'[i] = End(i - 1) + issues'[k].padding
         \/ /\ \A k \in 1 .. Len(issues') : issues'[k].field # i
            /\ placed'[i] = End(i - 1)
       Fits(i) == Borrows(layouts'[i]) /\ Align(layouts'[i].kind) <= BaseAlign =>
                    (placed'[i] + PayloadShift(layouts'[i])) % Align(layouts'[i].kind) = 0
  <2>1. ASSUME NEW i \in 1 .. n PROVE Asked(i) /\ Fits(i)
    <3>1. layouts'[i] = layouts[i] /\ placed'[i] = placed[i] /\ End(i - 1) = SlotEnd(i - 1)
      <4>1. i - 1 \in 0 .. n
        BY <1>1
      <4>. QED
        BY <1>4, <1>7, <4>1
    <3>2. Fits(i)
      BY <1>c, <3>1
    <3>3. m = Len(issues') \/ (fresh /\ Len(issues') = m + 1)
      BY <1>5, <1>6 DEF m
    <3>4. \A k \in 1 .. m : k \in 1 .. Len(issues') /\ issues'[k] = issues[k]
      BY <1>1, <1>5, <1>6, <3>3
    <3>5. \A k \in 1 .. Len(issues') : k \in 1 .. m \/ issues'[k].field = n + 1
      BY <1>1, <1>3, <1>5, <3>3
    <3>6. i # n + 1
      BY <1>1
    <3>7. CASE \E k \in 1 .. m : issues[k].field = i /\ placed[i] = SlotEnd(i - 1) + issues[k].padding
      BY <3>1, <3>2, <3>4, <3>7
    <3>8. CASE (\A k \in 1 .. m : issues[k].field # i) /\ placed[i] = SlotEnd(i - 1)
      BY <3>1, <3>2, <3>4, <3>5, <3>6, <3>8
    <3>. QED
      BY <1>c, <3>7, <3>8
  <2>2. ASSUME NEW i, i = n + 1 PROVE Asked(i)
    <3>1. placed'[i] = End(i - 1) + padding
      <4>1. i - 1 = n
        BY <1>1, <2>2
      <4>. QED
        BY <4>1, <1>4, <1>8, <2>2 DEF start
    <3>2. CASE fresh
      <4>1. m + 1 \in 1 .. Len(issues') /\ issues'[m + 1].field = i
            /\ issues'[m + 1].padding = padding
        BY <1>1, <1>3, <1>5, <2>2, <3>2
      <4>. QED
        BY <3>1, <4>1
    <3>3. CASE issues' = issues /\ padding = 0
      <4>1. \A k \in 1 .. Len(issues') : issues'[k].field # i
        BY <1>1, <1>a, <2>2, <3>3 DEF m
      <4>2. placed'[i] = End(i - 1)
        <5>1. i - 1 = n /\ start = offset
          BY <1>1, <2>2, <3>3 DEF start
        <5>. QED
          BY <5>1, <1>4, <1>8, <2>2
      <4>. QED
        BY <4>1, <4>2
    <3>. QED
      BY <1>2, <3>2, <3>3 DEF fresh, issue
  <2>3. Fits(n + 1)
    <3>1. Borrows(l) /\ A <= BaseAlign => (start + shift) % A = 0
      <4>1. A \in Nat /\ BaseAlign \in Nat
        BY SlotTypes, FixedBaseAlignAssumption DEF A, PrimitiveSizes
      <4>2. A > BaseAlign => ~(A <= BaseAlign)
        BY <4>1
      <4>3. padding = 0 => start = offset
        BY <1>1 DEF start
      <4>. QED
        BY <1>2, <4>2, <4>3 DEF start
    <3>. QED
      BY <1>4, <3>1 DEF A, shift
  <2>. HIDE DEF Asked, Fits
  <2>4. \A i \in 1 .. n + 1 : i \in 1 .. n \/ i = n + 1
    BY <1>1
  <2>5. \A i \in 1 .. n + 1 : Asked(i) /\ Fits(i)
    BY <2>1, <2>2, <2>3, <2>4
  <2>. QED
    BY <1>4, <1>8, <2>5 DEF PlacedInv, SlotEnd, End, Asked, Fits
<1>. QED
  BY <1>11, <1>12 DEF PaddingInv
LEMMA PaddingInit == ExpandInit => PaddingInv /\ ShapesInv
<1>. SUFFICES ASSUME ExpandInit PROVE PaddingInv /\ ShapesInv
  OBVIOUS
<1>1. /\ decl \in Decls /\ phase = "args" /\ rejected = "none"
      /\ layouts = << >> /\ issues = << >> /\ offset = 0 /\ totalLen = NoLength
  BY DEF ExpandInit
<1>2. Len(layouts) = 0 /\ Len(issues) = 0 /\ 1 .. 0 = {}
  BY <1>1
<1>3. Len(decl.fields) \in Nat
  BY <1>1, FixedDeclsAssumption, LenProperties
<1>4. PaddingInv
  BY <1>1, <1>2 DEF PaddingInv, IssuesInv, PlacedInv, SlotEnd
<1>5. ShapesInv
  BY <1>1, <1>2, <1>3 DEF ShapesInv
<1>. QED
  BY <1>4, <1>5

LEMMA PaddingStep ==
  ASSUME FixedInv, PaddingInv, ShapesInv, [ExpandNext \/ ExpandStopped]_expandVars
  PROVE  PaddingInv' /\ ShapesInv'
<1>1. ASSUME UNCHANGED << layouts, placed, offset, issues >>
      PROVE  PaddingInv'
  BY <1>1 DEF PaddingInv, IssuesInv, PlacedInv, SlotEnd
<1>2. ASSUME UNCHANGED << decl, idx, loopVars >>,
             phase' = "emitted" => idx > Len(decl.fields),
             rejected' = "alignment" => issues # << >>
      PROVE  PaddingInv' /\ ShapesInv'
  <2>1. UNCHANGED << layouts, placed, offset, issues, totalLen >>
    BY <1>2 DEF loopVars
  <2>2. ShapesInv'
    BY <1>2, <2>1 DEF ShapesInv
  <2>. QED
    BY <1>1, <2>1, <2>2
<1>3. CASE UNCHANGED expandVars
  BY <1>2, <1>3 DEF ShapesInv, expandVars, loopVars
<1>4. CASE ParseArgs
  BY <1>2, <1>4 DEF ParseArgs, Reject, ShapesInv
<1>5. CASE AddField
  <2>. DEFINE f == decl.fields[idx]
              isLast == idx = Len(decl.fields)
              n == Len(layouts)
  <2>1. /\ idx \in Nat \ {0} /\ decl \in Decls /\ phase = "fields" /\ idx <= Len(decl.fields)
        /\ UNCHANGED decl /\ layouts \in Seq(FixedLayout) /\ n = idx - 1
    BY <1>5 DEF FixedInv, FixedTypeOK, LoopInv, AddField
  <2>2. decl.fields \in Seq(FieldDecl) /\ Len(decl.fields) \in Nat
    BY <2>1, FixedDeclsAssumption, LenProperties
  <2>3. f \in FieldDecl
    <3>1. idx \in 1 .. Len(decl.fields)
      BY <2>1, <2>2
    <3>. QED
      BY <2>2, <3>1, ElementOfSeq
  <2>4. CASE FieldSupported(f, isLast)
    <3>. DEFINE l == Classify(f)
    <3>1. /\ layouts' = Append(layouts, l) /\ AddSlot(l)
          /\ idx' = idx + 1 /\ UNCHANGED << phase, rejected >>
      BY <1>5, <2>4 DEF AddField
    <3>2. /\ l \in FixedLayout /\ (IsTail(l) => isLast)
          /\ IsVec(l) => l.width \in 1 .. MaxFlexWidth /\ l.kind.name # "bool"
          /\ l.shape = "vec" => l.capacity <= HeaderMax(l.width)
      <4>1. isLast \in BOOLEAN
        OBVIOUS
      <4>. HIDE DEF f, isLast
      <4>. QED
        BY <4>1, <2>3, <2>4, ClassifyType
    <3>. HIDE DEF l, f
    <3>3. PaddingInv'
      BY <3>1, <3>2, AddSlotPadding
    <3>4. /\ Len(layouts') = n + 1 /\ n \in Nat /\ layouts'[n + 1] = l
          /\ \A i \in 1 .. n : layouts'[i] = layouts[i]
      BY <2>1, <3>1, <3>2, Grown
    <3>5. rejected = "alignment" => issues' # << >>
      <4>1. PICK padding \in Nat :
              \/ issues' = Append(issues, [field |-> idx, padding |-> padding])
              \/ issues' = issues
        BY <3>1, <3>2, SlotAdded
      <4>2. issues \in Seq([field : Nat, padding : Nat]) /\ idx \in Nat
        BY <2>1 DEF FixedInv, FixedTypeOK
      <4>3. Append(issues, [field |-> idx, padding |-> padding]) # << >>
        BY <4>2, Grown
      <4>. QED
        BY <4>1, <4>3 DEF ShapesInv
    <3>6. ASSUME NEW i \in 1 .. Len(layouts')
          PROVE  /\ IsTail(layouts'[i]) => i = Len(decl.fields)
                 /\ IsVec(layouts'[i]) => layouts'[i].width \in 1 .. MaxFlexWidth /\ layouts'[i].kind.name # "bool"
                 /\ layouts'[i].shape = "vec" => layouts'[i].capacity <= HeaderMax(layouts'[i].width)
      <4>1. CASE i \in 1 .. n
        BY <3>4, <4>1 DEF ShapesInv
      <4>2. CASE i = n + 1
        BY <2>1, <3>2, <3>4, <4>2
      <4>. QED
        BY <3>4, <4>1, <4>2
    <3>7. Len(layouts') <= Len(decl.fields) /\ Len(layouts') # 0
      BY <2>1, <3>4
    <3>8. ShapesInv'
      BY <2>1, <3>1, <3>5, <3>6, <3>7 DEF ShapesInv
    <3>. QED
      BY <3>3, <3>8
  <2>5. CASE ~FieldSupported(f, isLast)
    <3>1. Reject("field") /\ UNCHANGED << idx, loopVars >>
      BY <1>5, <2>5 DEF AddField
    <3>. QED
      BY <1>2, <2>1, <3>1 DEF Reject
  <2>. QED
    BY <2>4, <2>5
<1>6. CASE FieldsDone
  BY <1>2, <1>6 DEF FieldsDone, Reject, ShapesInv
<1>7. CASE ExpandStopped
  BY <1>3, <1>7 DEF ExpandStopped
<1>. QED
  BY <1>3, <1>4, <1>5, <1>6, <1>7 DEF ExpandNext

ExpandedInv == FixedInv /\ PaddingInv /\ ShapesInv

LEMMA ExpandedInvariant == ExpandSpec => []ExpandedInv
<1>1. ExpandInit => ExpandedInv
  BY FixedInitInv, PaddingInit DEF ExpandedInv
<1>2. ExpandedInv /\ [ExpandNext \/ ExpandStopped]_expandVars => ExpandedInv'
  BY FixedStepInv, PaddingStep DEF ExpandedInv
<1>. QED
  BY <1>1, <1>2, PTL DEF ExpandSpec

-----------------------------------------------------------------------------
(* Packed, the reference the emitted offsets are compared with.            *)

IsPadding(ls, padding) == \A i \in 1 .. Len(ls) : padding[i] \in Nat

\* w starts behind the first padding and grows by each of the first m slots
\* and the padding after it.
PacksUpTo(ls, padding, w, m) ==
  /\ w[1] = padding[1]
  /\ \A i \in 1 .. m : w[i + 1] = w[i] + SlotMinLen(ls[i])
                                    + IF i + 1 <= Len(ls) THEN padding[i + 1] ELSE 0

(* Packed satisfies the recursion it is defined by.                        *)
LEMMA PackedEquation ==
  ASSUME NEW ls \in Seq(FixedLayout), Len(ls) # 0, NEW padding, IsPadding(ls, padding)
  PROVE  PacksUpTo(ls, padding, Packed(ls, padding), Len(ls))
<1>. DEFINE n == Len(ls)
<1>0. n \in Nat \ {0} /\ \A i \in 1 .. n : padding[i] \in Nat
  BY LenProperties DEF IsPadding
<1>. DEFINE Step(v, i) == IF i = 1 THEN padding[1]
                          ELSE v[i - 1] + SlotMinLen(ls[i - 1]) + IF i <= n THEN padding[i] ELSE 0
            at == Packed(ls, padding)
            d == [i \in 1 .. n |-> SlotMinLen(ls[i]) + IF i + 1 <= n THEN padding[i + 1] ELSE 0]
<1>1. at = CHOOSE v : v = [i \in 1 .. n + 1 |-> Step(v, i)]
  BY DEF Packed
<1>. HIDE DEF n
<1>2. \A i \in 1 .. n : SlotMinLen(ls[i]) \in Nat
  <2>. SUFFICES ASSUME NEW i \in 1 .. n PROVE SlotMinLen(ls[i]) \in Nat
    OBVIOUS
  <2>1. ls[i] \in FixedLayout
    BY ElementOfSeq DEF n
  <2>. QED
    BY <2>1, SlotTypes
<1>3. \A i \in 1 .. n : d[i] \in Nat
  BY <1>0, <1>2
<1>4. n \in Nat /\ padding[1] \in Nat
  BY <1>0
<1>5. PICK u \in [1 .. n + 1 -> Nat] : u[1] = padding[1] /\ \A i \in 1 .. n : u[i + 1] = u[i] + d[i]
  <2>. DEFINE b == padding[1]
  <2>1. b \in Nat /\ n \in Nat
    BY <1>4
  <2>. HIDE DEF d, b
  <2>2. \E u \in [1 .. n + 1 -> Nat] : u[1] = b /\ \A i \in 1 .. n : u[i + 1] = u[i] + d[i]
    BY ONLY <1>3, <2>1, OffsetsExist
  <2>. QED
    BY <2>2 DEF b
<1>6. ASSUME NEW i \in 1 .. n + 1 PROVE u[i] = Step(u, i)
  <2>1. CASE i = 1
    BY <1>5, <2>1
  <2>2. CASE i # 1
    <3>1. PICK k \in 1 .. n : i = k + 1
      <4>1. i - 1 \in 1 .. n /\ i = (i - 1) + 1
        BY <1>4, <2>2
      <4>. QED
        BY <4>1
    <3>2. i - 1 = k /\ u[k] \in Nat
      BY <1>4, <3>1
    <3>3. u[i] = u[k] + (SlotMinLen(ls[k]) + IF k + 1 <= n THEN padding[k + 1] ELSE 0)
      BY <1>5, <3>1
    <3>4. i <= n => padding[i] \in Nat
      BY <1>0
    <3>. QED
      BY <1>2, <2>2, <3>1, <3>2, <3>3, <3>4
  <2>. QED
    BY <2>1, <2>2
<1>7. u = [i \in 1 .. n + 1 |-> Step(u, i)]
  BY <1>6
<1>8. at = [i \in 1 .. n + 1 |-> Step(at, i)]
  <2>. HIDE DEF at
  <2>. QED
    BY <1>1, <1>7
<1>. HIDE DEF at
<1>9. at[1] = padding[1]
  BY <1>4, <1>8
<1>10. ASSUME NEW i \in 1 .. n
       PROVE  at[i + 1] = at[i] + SlotMinLen(ls[i]) + IF i + 1 <= n THEN padding[i + 1] ELSE 0
  <2>1. i + 1 \in 1 .. n + 1 /\ i + 1 # 1 /\ i + 1 - 1 = i
    BY <1>4
  <2>2. at[i + 1] = Step(at, i + 1)
    BY <1>8, <2>1
  <2>. QED
    BY <2>1, <2>2
<1>. QED
  BY <1>9, <1>10 DEF PacksUpTo, at, n

(* And nothing else does, as far as it goes.                               *)
LEMMA PackedIs ==
  ASSUME NEW ls \in Seq(FixedLayout), Len(ls) # 0, NEW padding, IsPadding(ls, padding),
         NEW m \in 0 .. Len(ls), NEW w, PacksUpTo(ls, padding, w, m)
  PROVE  \A i \in 1 .. m + 1 : Packed(ls, padding)[i] = w[i]
<1>. DEFINE at == Packed(ls, padding)
            D(i) == IF i + 1 <= Len(ls) THEN padding[i + 1] ELSE 0
<1>1. PacksUpTo(ls, padding, at, Len(ls))
  BY PackedEquation
<1>. HIDE DEF at
<1>2. /\ at[1] = padding[1] /\ w[1] = padding[1]
      /\ \A i \in 1 .. Len(ls) : at[i + 1] = at[i] + SlotMinLen(ls[i]) + D(i)
      /\ \A i \in 1 .. m : w[i + 1] = w[i] + SlotMinLen(ls[i]) + D(i)
  BY <1>1 DEF PacksUpTo
<1>. HIDE DEF D
<1>3. m \in Nat /\ \A i \in 1 .. m : i \in 1 .. Len(ls)
  BY LenProperties
<1>4. \A i \in 1 .. m : at[i] = w[i] => at[i + 1] = w[i + 1]
  BY <1>2, <1>3
<1>5. at[1] = w[1] /\ m \in Nat
  BY <1>2, <1>3
<1>6. \A i \in 1 .. m + 1 : at[i] = w[i]
  <2>. DEFINE S == {i \in 1 .. m + 1 : at[i] = w[i]}
  <2>1. 1 \in S /\ m + 1 \in Nat
    BY <1>5
  <2>2. \A i \in 1 .. m + 1 : i \in S /\ i < m + 1 => i + 1 \in S
    BY <1>4, <1>5
  <2>3. 1 .. m + 1 \subseteq S
    <3>. HIDE DEF S
    <3>. QED
      BY <2>1, <2>2, UpToInduction
  <2>. QED
    BY <2>3
<1>. QED
  BY <1>6 DEF at

-----------------------------------------------------------------------------
(* What follows of the offsets. *)

LEMMA InvOffsetsAgree ==
  ASSUME ExpandedInv, phase = "emitted"
  PROVE  OffsetsAgree
<1>. DEFINE n == Len(layouts)
            at == Packed(layouts, NoPadding)
<1>1. SlotsContiguous
  BY InvSlotsContiguous DEF ExpandedInv
<1>2. /\ layouts \in Seq(FixedLayout) /\ offsets \in Seq(Nat) /\ n \in Nat
      /\ Len(placed) = n /\ Len(offsets) = n + 1
  <2>1. /\ idx \in Nat /\ Len(layouts) = idx - 1 /\ Len(placed) = idx - 1 /\ Len(offsets) = idx
        /\ layouts \in Seq(FixedLayout) /\ offsets \in Seq(Nat)
    BY DEF ExpandedInv, FixedInv, FixedTypeOK, LoopInv
  <2>. QED
    BY <2>1, LenProperties
<1>3. n # 0
  BY DEF ExpandedInv, FixedInv, EmittedInv, ShapesInv
<1>4. \A i \in 1 .. n : NoPadding[i] = 0
  BY DEF NoPadding, FieldCount
<1>5. /\ offsets[1] = 0
      /\ \A i \in 1 .. n : /\ placed[i] = offsets[i]
                           /\ offsets[i + 1] = offsets[i] + SlotMinLen(layouts[i])
      /\ DataLen = offsets[n + 1] /\ MinLen = DataLen
  BY <1>1 DEF SlotsContiguous, FieldCount
<1>6. \A i \in 1 .. n : SlotMinLen(layouts[i]) \in Nat /\ offsets[i] \in Nat
  <2>. SUFFICES ASSUME NEW i \in 1 .. n PROVE SlotMinLen(layouts[i]) \in Nat /\ offsets[i] \in Nat
    OBVIOUS
  <2>1. layouts[i] \in FixedLayout /\ i \in 1 .. Len(offsets)
    BY <1>2, ElementOfSeq
  <2>. QED
    BY <1>2, <2>1, SlotTypes, ElementOfSeq
<1>7. \A i \in 1 .. n + 1 : at[i] = offsets[i]
  <2>1. IsPadding(layouts, NoPadding)
    BY <1>4 DEF IsPadding
  <2>2. ASSUME NEW i \in 1 .. n
        PROVE  offsets[i + 1] = offsets[i] + SlotMinLen(layouts[i])
                                  + IF i + 1 <= n THEN NoPadding[i + 1] ELSE 0
    <3>1. (IF i + 1 <= n THEN NoPadding[i + 1] ELSE 0) = 0
      BY <1>2, <1>4
    <3>2. /\ offsets[i + 1] = offsets[i] + SlotMinLen(layouts[i])
          /\ SlotMinLen(layouts[i]) \in Nat /\ offsets[i] \in Nat
      BY <1>5, <1>6
    <3>. QED
      BY ONLY <3>1, <3>2
  <2>a. offsets[1] = NoPadding[1]
    <3>1. 1 \in 1 .. n
      BY <1>2, <1>3
    <3>. QED
      BY <1>4, <1>5, <3>1
  <2>3. PacksUpTo(layouts, NoPadding, offsets, n)
    BY ONLY <2>a, <2>2 DEF PacksUpTo
  <2>4. n \in 0 .. Len(layouts)
    BY <1>2
  <2>. QED
    BY <1>2, <1>3, <2>1, <2>3, <2>4, PackedIs
<1>8. OFFSETS \in Seq(Nat) /\ Len(OFFSETS) = n /\ \A i \in 1 .. n : OFFSETS[i] = offsets[i]
  <2>1. OFFSETS = SubSeq(offsets, 1, n)
    BY <1>2 DEF OFFSETS
  <2>2. \A i \in 1 .. n : offsets[i] \in Nat
    BY <1>6
  <2>. HIDE DEF n
  <2>3. /\ SubSeq(offsets, 1, n) \in Seq(Nat)
        /\ Len(SubSeq(offsets, 1, n)) = IF 1 <= n THEN n - 1 + 1 ELSE 0
        /\ \A i \in 1 .. n - 1 + 1 : SubSeq(offsets, 1, n)[i] = offsets[1 + i - 1]
    BY <1>2, <2>2, SubSeqProperties
  <2>. QED
    BY <1>2, <1>3, <2>1, <2>3
<1>9. 1 .. n \subseteq 1 .. n + 1 /\ n + 1 \in 1 .. n + 1
  BY <1>2
<1>. HIDE DEF n, at
<1>10. \A i \in 1 .. n : OFFSETS[i] = at[i] /\ placed[i] = at[i]
  BY <1>5, <1>7, <1>8, <1>9
<1>. QED
  BY <1>2, <1>5, <1>7, <1>8, <1>9, <1>10 DEF OffsetsAgree, FieldCount, n, at

(* OFFSETS, DATA_LEN and MIN_DATA_LEN, the buffer of encode and the        *)
(* offsets in the generated code are one packing of the fields without     *)
(* gaps, in every struct that compiles.                                    *)
THEOREM FixedOffsetsAgree == ExpandSpec => []OffsetsAgree
<1>1. ExpandedInv => OffsetsAgree
  BY InvOffsetsAgree DEF OffsetsAgree
<1>. QED
  BY <1>1, ExpandedInvariant, PTL

-----------------------------------------------------------------------------
(* The rejections. *)

\* w is where the fields up to f start, behind these paddings.
PlacesUpTo(ls, padding, w, f) ==
  /\ w[1] = padding[1]
  /\ \A i \in 1 .. f - 1 : w[i + 1] = w[i] + SlotMinLen(ls[i]) + padding[i + 1]

LEMMA PackedAt ==
  ASSUME NEW ls \in Seq(FixedLayout), NEW padding, IsPadding(ls, padding),
         NEW f \in 1 .. Len(ls), NEW w, PlacesUpTo(ls, padding, w, f)
  PROVE  Packed(ls, padding)[f] = w[f]
<1>1. Len(ls) \in Nat /\ Len(ls) # 0 /\ f \in Nat \ {0}
  BY LenProperties
<1>. DEFINE n == Len(ls)
<1>2. PICK m \in Nat : m = f - 1
  BY <1>1
<1>3. m \in 0 .. n /\ f = m + 1 /\ f \in 1 .. m + 1
  BY <1>1, <1>2
<1>4. ASSUME NEW i \in 1 .. m
      PROVE  w[i + 1] = w[i] + SlotMinLen(ls[i]) + IF i + 1 <= n THEN padding[i + 1] ELSE 0
  <2>1. i \in 1 .. f - 1 /\ i + 1 <= n
    BY <1>1, <1>2
  <2>. HIDE DEF n
  <2>. QED
    BY <2>1 DEF PlacesUpTo
<1>5. w[1] = padding[1]
  BY DEF PlacesUpTo
<1>6. PacksUpTo(ls, padding, w, m)
  BY <1>4, <1>5 DEF PacksUpTo
<1>7. \A i \in 1 .. m + 1 : Packed(ls, padding)[i] = w[i]
  BY <1>1, <1>3, <1>6, PackedIs
<1>. QED
  BY <1>3, <1>7

(* What an alignment larger than the base rules out.                       *)
LEMMA BaseTooSmall ==
  ASSUME NEW x \in Nat, NEW a \in PrimitiveSizes, a > BaseAlign
  PROVE  \E base \in {0, BaseAlign} : (base + x) % a # 0
<1>1. CASE x % a = 0
  BY <1>1, BaseNoMultiple, FixedBaseAlignAssumption
<1>2. CASE x % a # 0
  <2>1. 0 + x = x
    OBVIOUS
  <2>. QED
    BY <1>2, <2>1
<1>. QED
  BY <1>1, <1>2

(* The first facts the two theorems start from.                            *)
LEMMA RejectedState ==
  ASSUME ExpandedInv
  PROVE  /\ layouts \in Seq(FixedLayout) /\ Len(layouts) \in Nat
         /\ issues \in Seq([field : Nat, padding : Nat]) /\ Len(issues) \in Nat
         /\ \A k \in 1 .. Len(issues) : issues[k].padding \in Nat
         /\ \A i \in 1 .. Len(layouts) : layouts[i] \in FixedLayout /\ placed[i] \in Nat
         /\ \A i \in 0 .. Len(layouts) : SlotEnd(i) \in Nat
<1>1. /\ layouts \in Seq(FixedLayout) /\ placed \in Seq(Nat) /\ Len(placed) = Len(layouts)
      /\ issues \in Seq([field : Nat, padding : Nat])
  BY DEF ExpandedInv, FixedInv, FixedTypeOK, LoopInv
<1>2. \A k \in 1 .. Len(issues) : issues[k].padding \in Nat
  <2>. SUFFICES ASSUME NEW k \in 1 .. Len(issues) PROVE issues[k].padding \in Nat
    OBVIOUS
  <2>1. issues[k] \in [field : Nat, padding : Nat]
    BY <1>1, ElementOfSeq
  <2>. QED
    BY <2>1
<1>3. \A i \in 1 .. Len(layouts) : layouts[i] \in FixedLayout /\ placed[i] \in Nat
  <2>. SUFFICES ASSUME NEW i \in 1 .. Len(layouts)
                PROVE  layouts[i] \in FixedLayout /\ placed[i] \in Nat
    OBVIOUS
  <2>. QED
    BY <1>1, ElementOfSeq
<1>4. Len(layouts) \in Nat /\ Len(issues) \in Nat
  BY <1>1, LenProperties
<1>5. \A i \in 0 .. Len(layouts) : SlotEnd(i) \in Nat
  <2>. SUFFICES ASSUME NEW i \in 0 .. Len(layouts) PROVE SlotEnd(i) \in Nat
    OBVIOUS
  <2>1. CASE i = 0
    BY <2>1 DEF SlotEnd
  <2>2. CASE i # 0
    <3>1. i \in 1 .. Len(layouts)
      BY <1>4, <2>2
    <3>2. SlotMinLen(layouts[i]) \in Nat /\ placed[i] \in Nat
      BY <1>3, <3>1, SlotTypes
    <3>. QED
      BY <2>2, <3>2 DEF SlotEnd
  <2>. QED
    BY <2>1, <2>2
<1>. QED
  BY <1>1, <1>2, <1>3, <1>4, <1>5

(* An issue is a real one: where the field before it ends, the field would *)
(* be misaligned in some buffer that decode accepts.                       *)
LEMMA IssueMisaligned ==
  ASSUME ExpandedInv, NEW k \in 1 .. Len(issues)
  PROVE  /\ issues[k].field \in 1 .. Len(layouts)
         /\ Misaligned(layouts[issues[k].field], SlotEnd(issues[k].field - 1))
<1>. DEFINE f == issues[k].field
            l == layouts[f]
            o == SlotEnd(f - 1)
<1>1. /\ f \in 1 .. Len(layouts) /\ Borrows(l)
      /\ IF issues[k].padding = TooAligned THEN Align(l.kind) > BaseAlign
         ELSE Align(l.kind) <= BaseAlign /\ (o + PayloadShift(l)) % Align(l.kind) # 0
  BY DEF ExpandedInv, PaddingInv, IssuesInv
<1>2. l \in FixedLayout /\ o \in Nat
  <2>0. Len(layouts) \in Nat /\ f \in 1 .. Len(layouts)
    BY <1>1, RejectedState
  <2>. HIDE DEF f
  <2>1. f - 1 \in 0 .. Len(layouts)
    BY ONLY <2>0
  <2>. QED
    BY <1>1, <2>1, RejectedState
<1>3. Align(l.kind) \in PrimitiveSizes /\ PayloadShift(l) \in Nat
  BY <1>2, SlotTypes
<1>. HIDE DEF f, l, o
<1>4. CASE issues[k].padding = TooAligned
  <2>1. PICK x \in Nat : x = o + PayloadShift(l)
    BY <1>2, <1>3
  <2>2. \E base \in {0, BaseAlign} : (base + x) % Align(l.kind) # 0
    BY <1>1, <1>3, <1>4, BaseTooSmall
  <2>3. \A base \in {0, BaseAlign} : base + o + PayloadShift(l) = base + x
    BY <1>2, <1>3, <2>1, FixedBaseAlignAssumption
  <2>4. Misaligned(l, o)
    BY <1>1, <2>2, <2>3 DEF Misaligned
  <2>. QED
    BY <1>1, <2>4 DEF f, l, o
<1>5. CASE issues[k].padding # TooAligned
  <2>1. 0 + o + PayloadShift(l) = o + PayloadShift(l)
    BY <1>2, <1>3
  <2>2. Misaligned(l, o)
    BY <1>1, <1>5, <2>1 DEF Misaligned
  <2>. QED
    BY <1>1, <2>2 DEF f, l, o
<1>. QED
  BY <1>4, <1>5

(* The macro refuses no struct for alignment whose fields, packed as they  *)
(* are declared, would all be aligned.                                     *)
THEOREM FixedRejectionJustified == ExpandSpec => []AlignmentRejectionJustified
<1>1. ASSUME ExpandedInv, rejected = "alignment" PROVE AlignmentRejectionJustified
  <2>. DEFINE f == issues[1].field
  <2>1. Len(issues) \in Nat /\ Len(issues) # 0 /\ 1 \in 1 .. Len(issues)
    <3>1. issues # << >> /\ issues \in Seq([field : Nat, padding : Nat])
      BY <1>1, RejectedState DEF ExpandedInv, ShapesInv
    <3>2. Len(issues) \in Nat /\ Len(issues) # 0
      BY <3>1, EmptySeq, LenProperties
    <3>. QED
      BY <3>2
  <2>2. f \in 1 .. Len(layouts) /\ Misaligned(layouts[f], SlotEnd(f - 1))
    BY <1>1, <2>1, IssueMisaligned
  <2>3. f \in Nat \ {0} /\ Len(layouts) \in Nat /\ layouts \in Seq(FixedLayout)
    BY <1>1, <2>2, RejectedState
  <2>4. \A k \in 1 .. Len(issues) : f <= issues[k].field /\ issues[k].field \in Nat
    <3>. SUFFICES ASSUME NEW k \in 1 .. Len(issues)
                  PROVE  f <= issues[k].field /\ issues[k].field \in Nat
      OBVIOUS
    <3>1. issues[k].field \in Nat
      <4>1. issues[k].field \in 1 .. Len(layouts)
        BY <1>1 DEF ExpandedInv, PaddingInv, IssuesInv
      <4>. QED
        BY <4>1
    <3>2. CASE k = 1
      BY <2>3, <3>2
    <3>3. CASE 1 < k
      <4>1. f < issues[k].field
        BY <1>1, <2>1, <3>3 DEF ExpandedInv, PaddingInv, IssuesInv
      <4>. QED
        BY <2>3, <3>1, <4>1
    <3>. QED
      BY <2>1, <3>1, <3>2, <3>3
  <2>5. PICK w : w = [i \in 1 .. f |-> SlotEnd(i - 1)]
    OBVIOUS
  <2>6. \A i \in 1 .. Len(layouts) : NoPadding[i] = 0
    BY DEF NoPadding, FieldCount
  <2>. HIDE DEF f
  <2>7. PlacesUpTo(layouts, NoPadding, w, f)
    <3>1. w[1] = NoPadding[1]
      BY <2>2, <2>3, <2>5, <2>6 DEF SlotEnd
    <3>2. ASSUME NEW i \in 1 .. f - 1
          PROVE  w[i + 1] = w[i] + SlotMinLen(layouts[i]) + NoPadding[i + 1]
      <4>1. /\ i \in 1 .. f /\ i + 1 \in 1 .. f /\ i + 1 - 1 = i /\ i # 0 /\ i < f
            /\ i \in 1 .. Len(layouts) /\ i + 1 \in 1 .. Len(layouts) /\ i - 1 \in 0 .. Len(layouts)
        BY <2>2, <2>3
      <4>2. \A k \in 1 .. Len(issues) : issues[k].field # i
        BY <2>3, <2>4, <4>1
      <4>3. placed[i] = SlotEnd(i - 1)
        BY <1>1, <4>1, <4>2 DEF ExpandedInv, PaddingInv, PlacedInv
      <4>4. w[i + 1] = SlotEnd(i) /\ w[i] = SlotEnd(i - 1)
        BY <2>5, <4>1
      <4>5. SlotEnd(i) = placed[i] + SlotMinLen(layouts[i])
        BY <4>1 DEF SlotEnd
      <4>6. SlotEnd(i) \in Nat /\ SlotEnd(i - 1) + SlotMinLen(layouts[i]) + 0 = SlotEnd(i)
        <5>1. SlotMinLen(layouts[i]) \in Nat /\ SlotEnd(i - 1) \in Nat
          BY <1>1, <4>1, RejectedState, SlotTypes
        <5>. QED
          BY <5>1, <4>3, <4>5
      <4>. QED
        BY <2>6, <4>1, <4>4, <4>6
    <3>. QED
      BY <3>1, <3>2 DEF PlacesUpTo
  <2>8. IsPadding(layouts, NoPadding)
    BY <2>6 DEF IsPadding
  <2>9. Packed(layouts, NoPadding)[f] = w[f]
    BY <2>2, <2>3, <2>7, <2>8, PackedAt
  <2>10. w[f] = SlotEnd(f - 1)
    BY <2>3, <2>5
  <2>. QED
    BY <2>2, <2>9, <2>10 DEF AlignmentRejectionJustified, f
<1>2. ExpandedInv => AlignmentRejectionJustified
  BY <1>1 DEF AlignmentRejectionJustified
<1>. QED
  BY <1>2, ExpandedInvariant, PTL

(* The padding asked for before a field is what separates it from the end  *)
(* of the one before it.                                                   *)
LEMMA PaddingAskedIs ==
  ASSUME ExpandedInv, NEW i \in 1 .. Len(layouts)
  PROVE  PaddingAsked[i] \in Nat /\ placed[i] = SlotEnd(i - 1) + PaddingAsked[i]
<1>. DEFINE Asks(k) == k \in DOMAIN issues /\ issues[k].field = i
            asked == IF \E k : Asks(k) THEN issues[CHOOSE k : Asks(k)].padding ELSE 0
<1>1. DOMAIN issues = 1 .. Len(issues) /\ Len(issues) \in Nat
  BY RejectedState, LenProperties
<1>2. PaddingAsked[i] = asked
  <2>1. /\ (\E k \in DOMAIN issues : issues[k].field = i) <=> \E k : Asks(k)
        /\ (CHOOSE k \in DOMAIN issues : issues[k].field = i) = CHOOSE k : Asks(k)
    OBVIOUS
  <2>2. PaddingAsked[i] = IF \E k \in DOMAIN issues : issues[k].field = i
          THEN issues[CHOOSE k \in DOMAIN issues : issues[k].field = i].padding ELSE 0
    BY DEF PaddingAsked, FieldCount
  <2>. QED
    BY ONLY <2>1, <2>2
<1>3. SlotEnd(i - 1) \in Nat
  <2>1. i - 1 \in 0 .. Len(layouts)
    BY RejectedState
  <2>. QED
    BY <2>1, RejectedState
<1>4. \/ \E k \in 1 .. Len(issues) : /\ issues[k].field = i
                                     /\ placed[i] = SlotEnd(i - 1) + issues[k].padding
      \/ (\A k \in 1 .. Len(issues) : issues[k].field # i) /\ placed[i] = SlotEnd(i - 1)
  BY DEF ExpandedInv, PaddingInv, PlacedInv
<1>5. CASE \E k \in 1 .. Len(issues) : /\ issues[k].field = i
                                       /\ placed[i] = SlotEnd(i - 1) + issues[k].padding
  <2>1. PICK k \in 1 .. Len(issues) : /\ issues[k].field = i
                                      /\ placed[i] = SlotEnd(i - 1) + issues[k].padding
    BY <1>5
  <2>2. Asks(k)
    BY <1>1, <2>1
  <2>3. PICK j : j = CHOOSE m : Asks(m)
    OBVIOUS
  <2>4. Asks(j)
    BY <2>2, <2>3
  <2>5. j = k
    <3>1. j \in 1 .. Len(issues) /\ issues[j].field = i
      BY <1>1, <2>4
    <3>2. i \in Nat
      OBVIOUS
    <3>3. ~(j < k) /\ ~(k < j)
      BY <2>1, <3>1, <3>2 DEF ExpandedInv, PaddingInv, IssuesInv
    <3>. QED
      BY <1>1, <3>1, <3>3
  <2>6. asked = issues[k].padding
    BY <2>2, <2>3, <2>5
  <2>7. issues[k].padding \in Nat
    BY RejectedState
  <2>. QED
    BY <1>2, <2>1, <2>6, <2>7
<1>6. CASE (\A k \in 1 .. Len(issues) : issues[k].field # i) /\ placed[i] = SlotEnd(i - 1)
  <2>1. asked = 0
    BY <1>1, <1>6
  <2>. QED
    BY <1>2, <1>3, <1>6, <2>1
<1>. QED
  BY <1>4, <1>5, <1>6

(* Paddings of which those before f are the ones asked for: up to f the    *)
(* fields go where the expansion placed them, and f behind its padding.    *)
LEMMA PaddedPacking ==
  ASSUME ExpandedInv, NEW f \in 1 .. Len(layouts), NEW padding,
         IsPadding(layouts, padding), \A i \in 1 .. f - 1 : padding[i] = PaddingAsked[i]
  PROVE  Packed(layouts, padding)[f] = SlotEnd(f - 1) + padding[f]
<1>1. f \in Nat \ {0} /\ Len(layouts) \in Nat /\ layouts \in Seq(FixedLayout)
  BY RejectedState
<1>2. \A i \in 1 .. f : /\ i \in 1 .. Len(layouts) /\ i - 1 \in 0 .. Len(layouts)
                        /\ padding[i] \in Nat /\ SlotEnd(i - 1) \in Nat
                        /\ SlotMinLen(layouts[i]) \in Nat
  <2>. SUFFICES ASSUME NEW i \in 1 .. f
                PROVE  /\ i \in 1 .. Len(layouts) /\ i - 1 \in 0 .. Len(layouts)
                       /\ padding[i] \in Nat /\ SlotEnd(i - 1) \in Nat
                       /\ SlotMinLen(layouts[i]) \in Nat
    OBVIOUS
  <2>1. i \in 1 .. Len(layouts) /\ i - 1 \in 0 .. Len(layouts)
    BY <1>1
  <2>2. padding[i] \in Nat
    BY <2>1 DEF IsPadding
  <2>. QED
    BY <2>1, <2>2, RejectedState, SlotTypes
<1>3. PICK w : w = [i \in 1 .. f |-> SlotEnd(i - 1) + padding[i]]
  OBVIOUS
<1>4. w[1] = padding[1]
  <2>1. 1 \in 1 .. f /\ SlotEnd(1 - 1) = 0
    BY <1>1 DEF SlotEnd
  <2>. QED
    BY <1>2, <1>3, <2>1
<1>5. ASSUME NEW i \in 1 .. f - 1
      PROVE  w[i + 1] = w[i] + SlotMinLen(layouts[i]) + padding[i + 1]
  <2>1. i \in 1 .. f /\ i + 1 \in 1 .. f /\ i + 1 - 1 = i /\ i # 0
    BY <1>1
  <2>2. w[i + 1] = SlotEnd(i) + padding[i + 1] /\ w[i] = SlotEnd(i - 1) + padding[i]
    BY <1>3, <2>1
  <2>3. placed[i] = SlotEnd(i - 1) + padding[i]
    BY <1>2, <2>1, PaddingAskedIs
  <2>4. SlotEnd(i) = placed[i] + SlotMinLen(layouts[i])
    BY <2>1 DEF SlotEnd
  <2>. QED
    BY <2>2, <2>3, <2>4
<1>6. PlacesUpTo(layouts, padding, w, f)
  BY <1>4, <1>5 DEF PlacesUpTo
<1>7. Packed(layouts, padding)[f] = w[f]
  BY <1>1, <1>6, PackedAt
<1>. QED
  BY <1>1, <1>3, <1>7

(* The error text can be followed: with the paddings it asks for every     *)
(* borrowed payload is aligned that can be, and without any one of them    *)
(* the field behind it is not.                                             *)
THEOREM FixedPaddingSuffices == ExpandSpec => []PaddingSuffices
<1>1. ASSUME ExpandedInv, NEW i \in 1 .. Len(layouts),
             Misaligned(layouts[i], Packed(layouts, PaddingAsked)[i])
      PROVE  Align(layouts[i].kind) > BaseAlign
  <2>. DEFINE l == layouts[i]
              a == Align(l.kind)
  <2>1. IsPadding(layouts, PaddingAsked)
    BY <1>1, PaddingAskedIs DEF IsPadding
  <2>2. Packed(layouts, PaddingAsked)[i] = SlotEnd(i - 1) + PaddingAsked[i]
    BY <1>1, <2>1, PaddedPacking
  <2>3. Packed(layouts, PaddingAsked)[i] = placed[i]
    BY <1>1, <2>2, PaddingAskedIs
  <2>4. /\ l \in FixedLayout /\ placed[i] \in Nat /\ a \in PrimitiveSizes
        /\ PayloadShift(l) \in Nat /\ BaseAlign \in Nat
    BY <1>1, RejectedState, SlotTypes, FixedBaseAlignAssumption
  <2>5. Borrows(l) /\ a <= BaseAlign => (placed[i] + PayloadShift(l)) % a = 0
    BY <1>1 DEF ExpandedInv, PaddingInv, PlacedInv
  <2>6. Misaligned(l, placed[i])
    BY <1>1, <2>3
  <2>. HIDE DEF l, a
  <2>7. ASSUME a <= BaseAlign PROVE FALSE
    <3>1. Borrows(l)
      BY <2>6 DEF Misaligned
    <3>2. PICK base \in {0, BaseAlign} : (base + placed[i] + PayloadShift(l)) % a # 0
      BY <2>6 DEF Misaligned, a
    <3>3. PICK x \in Nat : x = placed[i] + PayloadShift(l)
      BY <2>4
    <3>4. x % a = 0
      BY <2>5, <2>7, <3>1, <3>3
    <3>5. (base + x) % a = 0
      BY <2>4, <2>7, <3>4, BaseKeepsAlignment
    <3>6. base + placed[i] + PayloadShift(l) = base + x
      BY <2>4, <3>3
    <3>. QED
      BY <3>2, <3>5, <3>6
  <2>8. a \in Nat
    BY <2>4 DEF PrimitiveSizes
  <2>. QED
    BY <2>4, <2>7, <2>8 DEF a, l
<1>2. ASSUME ExpandedInv, NEW k \in DOMAIN issues
      PROVE  Misaligned(layouts[issues[k].field],
               Packed(layouts, [PaddingAsked EXCEPT ![issues[k].field] = 0])[issues[k].field])
  <2>1. k \in 1 .. Len(issues)
    BY <1>2, RejectedState, LenProperties
  <2>2. PICK f \in 1 .. Len(layouts) : f = issues[k].field /\ Misaligned(layouts[f], SlotEnd(f - 1))
    BY <1>2, <2>1, IssueMisaligned
  <2>3. PICK padding : padding = [PaddingAsked EXCEPT ![f] = 0]
    OBVIOUS
  <2>4. DOMAIN PaddingAsked = 1 .. Len(layouts) /\ Len(layouts) \in Nat
    BY <1>2, RejectedState DEF PaddingAsked, FieldCount
  <2>5. \A i \in 1 .. Len(layouts) : padding[i] = IF i = f THEN 0 ELSE PaddingAsked[i]
    BY <2>3, <2>4
  <2>6. IsPadding(layouts, padding)
    BY <1>2, <2>5, PaddingAskedIs DEF IsPadding
  <2>7. \A i \in 1 .. f - 1 : padding[i] = PaddingAsked[i]
    BY <2>4, <2>5
  <2>8. Packed(layouts, padding)[f] = SlotEnd(f - 1) + padding[f]
    BY <1>2, <2>6, <2>7, PaddedPacking
  <2>9. SlotEnd(f - 1) + padding[f] = SlotEnd(f - 1)
    <3>1. f - 1 \in 0 .. Len(layouts)
      BY <2>4
    <3>2. SlotEnd(f - 1) \in Nat /\ padding[f] = 0
      BY <1>2, <2>5, <3>1, RejectedState
    <3>. QED
      BY <3>2
  <2>. QED
    BY <2>2, <2>3, <2>8, <2>9
<1>3. ExpandedInv => PaddingSuffices
  BY <1>1, <1>2 DEF PaddingSuffices, FieldCount
<1>. QED
  BY <1>3, ExpandedInvariant, PTL

-----------------------------------------------------------------------------
(* The bounds on the length. *)

(* The lengths that decode compares with are those of encodings: of the    *)
(* one without a tail, and of the one whose tail holds as many values as   *)
(* its header can announce; and a Vec's header can announce its capacity.  *)
THEOREM FixedLengthBounds == ExpandSpec => []LengthBoundsReached
<1>1. ASSUME ExpandedInv, phase = "emitted" PROVE LengthBoundsReached
  <2>. DEFINE n == Len(layouts)
              tail == layouts[n]
              size == Size(tail.kind)
  <2>1. /\ Len(layouts) \in Nat /\ Len(layouts) # 0 /\ n \in 1 .. Len(layouts)
        /\ tail \in FixedLayout /\ placed[n] \in Nat /\ SlotMinLen(tail) \in Nat
    <3>1. Len(layouts) \in Nat /\ Len(layouts) # 0
      BY <1>1, RejectedState DEF ExpandedInv, ShapesInv, FixedInv, EmittedInv
    <3>2. n \in 1 .. Len(layouts)
      BY <3>1
    <3>. QED
      BY <1>1, <3>1, <3>2, RejectedState, SlotTypes
  <2>2. DataLen = placed[n] + SlotMinLen(tail) /\ totalLen = DataLen
    BY <1>1, <2>1, InvSlotsContiguous DEF ExpandedInv, SlotsContiguous, FieldCount, MinLen
  <2>3. /\ tail.shape \in {"plain", "option", "tail_option", "vec", "tail_vec"}
        /\ size \in Nat /\ tail.width \in Nat /\ HeaderMax(tail.width) \in Nat \ {0}
    <3>1. tail.kind \in FixedValueKind /\ tail.width \in 0 .. MaxFlexWidth
          /\ tail.shape \in {"plain", "option", "tail_option", "vec", "tail_vec"}
      BY <2>1 DEF FixedLayout
    <3>2. tail.width \in Nat /\ size \in Nat
      BY <3>1, KindTypes DEF MaxFlexWidth
    <3>3. Radix - 1 \in Nat \ {0} /\ Radix * Radix - 1 \in Nat \ {0}
      <4>1. Radix \in Nat /\ Radix > 1 /\ Radix * Radix > 1
        BY RadixAssumption
      <4>. QED
        BY <4>1
    <3>. QED
      BY <3>1, <3>2, <3>3 DEF HeaderMax
  <2>4. HasTail <=> IsTail(tail)
    BY <2>1 DEF HasTail, FieldCount
  <2>5. \A i \in 1 .. n : layouts[i].shape = "vec" =>
                            layouts[i].capacity <= HeaderMax(layouts[i].width)
    BY <1>1 DEF ExpandedInv, ShapesInv
  <2>. DEFINE most == IF tail.shape = "tail_vec" THEN HeaderMax(tail.width) ELSE 1
  <2>6. /\ MinLen = placed[n] + EncodedFieldLen(tail, 0)
        /\ MaxLen = placed[n] + EncodedFieldLen(tail, most)
    <3>1. CASE tail.shape = "tail_option"
      <4>1. HasTail /\ SlotMinLen(tail) = 0 /\ TailMaxLen(tail) = 1 + size /\ most = 1
            /\ EncodedFieldLen(tail, 0) = 0 /\ EncodedFieldLen(tail, 1) = 1 + size
        BY <2>4, <3>1 DEF SlotMinLen, TailMaxLen, EncodedFieldLen, IsTail
      <4>. HIDE DEF n, tail, size, most
      <4>. QED
        BY <2>1, <2>2, <2>3, <4>1 DEF MinLen, MaxLen, FieldCount, n, tail
    <3>2. CASE tail.shape = "tail_vec"
      <4>1. /\ HasTail /\ SlotMinLen(tail) = 0 /\ most = HeaderMax(tail.width)
            /\ TailMaxLen(tail) = tail.width + HeaderMax(tail.width) * size
            /\ EncodedFieldLen(tail, 0) = 0
            /\ \A c \in Nat \ {0} : EncodedFieldLen(tail, c) = tail.width + c * size
        BY <2>4, <3>2 DEF SlotMinLen, TailMaxLen, EncodedFieldLen, IsTail
      <4>2. EncodedFieldLen(tail, most) = TailMaxLen(tail)
        BY <2>3, <4>1
      <4>3. MinLen = placed[n] + 0 /\ MaxLen = placed[n] + 0 + TailMaxLen(tail)
        <5>. HIDE DEF size, most
        <5>. QED
          BY <2>1, <2>2, <4>1 DEF MinLen, MaxLen, FieldCount
      <4>4. placed[n] + 0 = placed[n]
        BY <2>1
      <4>. QED
        BY <4>1, <4>2, <4>3, <4>4
    <3>3. CASE tail.shape \in {"plain", "option", "vec"}
      <4>1. ~HasTail /\ \A c \in Nat : EncodedFieldLen(tail, c) = SlotMinLen(tail)
        BY <2>4, <3>3 DEF EncodedFieldLen, IsTail
      <4>2. most \in Nat
        BY <2>3
      <4>. HIDE DEF tail, size, most
      <4>. QED
        BY <2>2, <4>1, <4>2 DEF MinLen, MaxLen
    <3>. QED
      BY <2>3, <3>1, <3>2, <3>3
  <2>. QED
    BY <2>5, <2>6 DEF LengthBoundsReached, FieldCount
<1>2. ExpandedInv => LengthBoundsReached
  BY <1>1 DEF LengthBoundsReached
<1>. QED
  BY <1>2, ExpandedInvariant, PTL
=============================================================================
