------------------------- MODULE VariableExpandProofs -------------------------
(***************************************************************************)
(* Theorems about the expansion, for every struct and every value of the   *)
(* constants.                                                              *)
(***************************************************************************)
EXTENDS VariableExpand, LayoutLemmas

-----------------------------------------------------------------------------
(* The operators the expansion is built from. *)

(* The capacity of a length header is a number, and not zero.              *)
LEMMA CapacityType ==
  ASSUME NEW width \in 0 .. MaxLenWidth
  PROVE  Capacity(width) \in Nat /\ Capacity(width) >= 1
<1>. DEFINE r2 == Radix * Radix
            r3 == r2 * Radix
            r4 == r2 * r2
            r5 == r4 * Radix
            r6 == r4 * r2
            r7 == r6 * Radix
<1>1. Radix \in Nat /\ Radix >= 2
  BY RadixAssumption
<1>a. ASSUME NEW x \in Nat, NEW y \in Nat, x >= 2, y >= 2
      PROVE  x * y \in Nat /\ x * y >= 2
  BY <1>a
<1>2. r2 \in Nat /\ r2 >= 2
  BY <1>1, <1>a
<1>. HIDE DEF r2
<1>3. r3 \in Nat /\ r3 >= 2
  BY <1>1, <1>2, <1>a
<1>4. r4 \in Nat /\ r4 >= 2
  BY <1>2, <1>a
<1>. HIDE DEF r3, r4
<1>5. r5 \in Nat /\ r5 >= 2
  BY <1>1, <1>4, <1>a
<1>6. r6 \in Nat /\ r6 >= 2
  BY <1>2, <1>4, <1>a
<1>. HIDE DEF r5, r6
<1>7. r7 \in Nat /\ r7 >= 2
  BY <1>1, <1>6, <1>a
<1>. HIDE DEF r7
<1>8. Capacity(width) \in {Radix - 1, r2 - 1, r3 - 1, r4 - 1, r5 - 1, r6 - 1, r7 - 1}
  BY DEF Capacity, MaxLenWidth, r2, r3, r4, r5, r6, r7
<1>. QED
  BY <1>1, <1>2, <1>3, <1>4, <1>5, <1>6, <1>7, <1>8

(* What a field adds to the bounds and to the exact lengths are numbers.   *)
LEMMA SlotLenTypes ==
  ASSUME NEW l \in FieldLayout
  PROVE  SlotMinLen(l) \in Nat /\ SlotMaxLen(l) \in Nat /\ SlotLens(l) \subseteq Nat
<1>1. /\ l.shape \in {"plain", "tagged", "implicit", "vec"} /\ l.width \in Nat
      /\ l.width \in 0 .. MaxLenWidth /\ l.kind \in FixedValueKind
  BY DEF FieldLayout, MaxLenWidth
<1>2. Size(l.kind) \in Nat /\ Capacity(l.width) \in Nat
  BY <1>1, KindTypes, CapacityType
<1>3. Size(l.kind) * Capacity(l.width) \in Nat
  BY <1>2
<1>4. SlotMinLen(l) \in Nat
  BY <1>1, <1>2 DEF SlotMinLen
<1>5. SlotMaxLen(l) \in Nat
  BY <1>1, <1>2, <1>3 DEF SlotMaxLen
<1>6. SlotLens(l) \subseteq Nat
  BY <1>1, <1>2 DEF SlotLens
<1>. QED
  BY <1>4, <1>5, <1>6

(* The residues of a field's length are numbers.                           *)
LEMMA ResidueTypes ==
  ASSUME NEW l \in FieldLayout, NEW modulus \in Nat \ {0}
  PROVE  PossibleLenResidues(l, modulus) \subseteq Nat
<1>1. /\ l.shape \in {"plain", "tagged", "implicit", "vec"} /\ l.width \in Nat
      /\ l.kind \in FixedValueKind
  BY DEF FieldLayout, MaxLenWidth
<1>2. Size(l.kind) \in Nat
  BY <1>1, KindTypes
<1>3. \A x \in Nat : x % modulus \in Nat
  OBVIOUS
<1>4. \A k \in 0 .. modulus - 1 : l.width + k * Size(l.kind) \in Nat
  BY <1>1, <1>2
<1>. QED
  BY <1>1, <1>2, <1>3, <1>4 DEF PossibleLenResidues

-----------------------------------------------------------------------------
(* Type correctness.  The shape of an option is the struct's option mode,  *)
(* so the arguments have to have been checked before the fields are.       *)

ArgsChecked == phase \notin {"args", "rejected"} => ArgsSupported

TypeInv == ExpandTypeOK /\ ArgsChecked

LEMMA InitTypes == ExpandInit => TypeInv
<1>. SUFFICES ASSUME ExpandInit PROVE TypeInv
  OBVIOUS
<1>1. DOMAIN sums = {0} /\ sums[0] = {}
  BY DEF ExpandInit
<1>2. DOMAIN sums \subseteq Nat /\ \A s \in DOMAIN sums : sums[s] \subseteq Nat
  BY <1>1
<1>3. ExpandTypeOK
  BY <1>2 DEF ExpandInit, ExpandTypeOK
<1>. QED
  BY <1>3 DEF ExpandInit, TypeInv, ArgsChecked

(* Each pass preserves the types.                                          *)
LEMMA StepTypes ==
  ASSUME TypeInv, ExpandNext
  PROVE  TypeInv'
<1>. USE DEF TypeInv, Enter, Reject, loopVars, emitVars
<1>1. CASE ParseArgs
  BY <1>1 DEF ParseArgs, ExpandTypeOK, ArgsChecked, ArgsSupported
<1>2. CASE ParseField
  <2>. DEFINE f == decl.fields[idx]
  <2>1. /\ decl.fields \in Seq(FieldDecl) /\ idx \in 1 .. Len(decl.fields)
        /\ ArgsSupported
    BY <1>2, DeclsAssumption DEF ParseField, ExpandTypeOK, ArgsChecked
  <2>2. f \in FieldDecl
    BY <2>1
  <2>3. CASE FieldSupported(f)
    <3>1. f.kind \in FixedValueKind
      BY <2>2, <2>3 DEF FieldSupported, FieldDecl, FixedValueKind
    <3>2. f.type = "vec" => f.flexible[1] \in 0 .. MaxLenWidth
      <4>1. f.type = "vec" => Len(f.flexible) = 1
        BY <2>3 DEF FieldSupported
      <4>2. f.type = "vec" => 1 \in DOMAIN f.flexible
        BY <4>1, <2>2 DEF FieldDecl
      <4>. QED
        BY <4>2, <2>3 DEF FieldSupported, MaxLenWidth
    <3>3. f.type \in {"vec", "value", "option"} /\ decl.option \in {"tagged", "implicit"}
      BY <2>3, <2>1 DEF FieldSupported, ArgsSupported
    <3>4. Classify(f) \in FieldLayout
      BY <3>1, <3>2, <3>3 DEF Classify, FieldLayout, ExpandTypeOK, MaxLenWidth
    <3>5. /\ layouts' = Append(layouts, Classify(f)) /\ nextBit' \in Nat
          /\ idx' = idx + 1
      BY <1>2, <2>3 DEF ParseField, ExpandTypeOK
    <3>6. layouts' \in Seq(FieldLayout)
      BY <3>4, <3>5 DEF ExpandTypeOK
    <3>. HIDE DEF f
    <3>. QED
      BY <1>2, <2>3, <3>5, <3>6 DEF ParseField, ExpandTypeOK, ArgsChecked, ArgsSupported, f
  <2>4. CASE ~FieldSupported(f)
    BY <1>2, <2>4 DEF ParseField, ExpandTypeOK, ArgsChecked
  <2>. QED
    BY <2>3, <2>4
<1>3. CASE CheckStructOptions
  BY <1>3 DEF CheckStructOptions, ExpandTypeOK, ArgsChecked, ArgsSupported
<1>4. CASE AddPayload
  <2>. DEFINE l == layouts[idx]
              size == Size(l.kind)
              extended == {s + size : s \in DOMAIN sums}
  <2>1. l \in FieldLayout
    BY <1>4 DEF AddPayload, ExpandTypeOK
  <2>2. size \in Nat /\ l.bit \in Nat
    BY <2>1, KindTypes DEF FieldLayout
  <2>3. extended \subseteq Nat /\ \A s \in extended : s - size \in DOMAIN sums
    BY <2>2 DEF ExpandTypeOK
  <2>a. /\ phase = "sums"
        /\ \/ idx' = idx + 1 /\ phase' = phase /\ rejected' = rejected
           \/ idx' = idx /\ phase' = "rejected" /\ rejected' = "sums"
        /\ UNCHANGED << decl, layouts, nextBit, loopVars, emitVars >>
    BY <1>4 DEF AddPayload, Reject
  <2>b. \/ UNCHANGED sums
        \/ sums' = [s \in DOMAIN sums \cup extended |->
                      IF s \in DOMAIN sums THEN sums[s] ELSE sums[s - size] \cup {l.bit}]
    BY <1>4 DEF AddPayload
  <2>c. DOMAIN sums \subseteq Nat /\ \A s \in DOMAIN sums : sums[s] \subseteq Nat
    BY DEF ExpandTypeOK
  <2>. HIDE DEF l, size
  <2>4. ASSUME sums' = [s \in DOMAIN sums \cup extended |->
                          IF s \in DOMAIN sums THEN sums[s] ELSE sums[s - size] \cup {l.bit}]
        PROVE  DOMAIN sums' \subseteq Nat /\ \A s \in DOMAIN sums' : sums'[s] \subseteq Nat
    <3>1. DOMAIN sums' \subseteq Nat
      BY <2>3, <2>4, <2>c
    <3>2. \A s \in DOMAIN sums' : sums'[s] \subseteq Nat
      <4>. SUFFICES ASSUME NEW s \in DOMAIN sums' PROVE sums'[s] \subseteq Nat
        OBVIOUS
      <4>1. s \in DOMAIN sums \cup extended
        BY <2>4
      <4>2. sums'[s] = IF s \in DOMAIN sums THEN sums[s] ELSE sums[s - size] \cup {l.bit}
        BY <2>4, <4>1
      <4>3. s \notin DOMAIN sums => sums[s - size] \subseteq Nat
        BY <4>1, <2>3, <2>c
      <4>. QED
        BY ONLY <4>1, <4>2, <4>3, <2>2, <2>c
    <3>. QED
      BY <3>1, <3>2
  <2>5. DOMAIN sums' \subseteq Nat /\ \A s \in DOMAIN sums' : sums'[s] \subseteq Nat
    BY <2>b, <2>c, <2>4
  <2>6. ExpandTypeOK'
    BY <2>a, <2>5 DEF ExpandTypeOK, loopVars, emitVars
  <2>7. ArgsChecked'
    BY <2>a DEF ArgsChecked, ArgsSupported
  <2>. QED
    BY <2>6, <2>7
<1>5. CASE SumsDone
  BY <1>5 DEF SumsDone, ExpandTypeOK, ArgsChecked, ArgsSupported
<1>6. CASE NeedsNoAlignment
  BY <1>6 DEF NeedsNoAlignment, NextAligned, ExpandTypeOK, ArgsChecked, ArgsSupported
<1>7. CASE AlignmentBeyondBase
  BY <1>7 DEF AlignmentBeyondBase, ExpandTypeOK, ArgsChecked, ArgsSupported
<1>8. CASE AddPossibleLen
  <2>. DEFINE modulus == Align(layouts[idx].kind)
  <2>1. /\ idx \in 1 .. Len(layouts) /\ prior \in 1 .. Len(layouts)
    BY <1>8 DEF AddPossibleLen, ResiduesApply, ExpandTypeOK
  <2>2. layouts[idx] \in FieldLayout /\ layouts[prior] \in FieldLayout
    BY <2>1 DEF ExpandTypeOK
  <2>3. modulus \in Nat \ {0}
    BY <2>2, KindTypes DEF FieldLayout, PrimitiveSizes
  <2>4. PossibleLenResidues(layouts[prior], modulus) \subseteq Nat
    BY <2>2, <2>3, ResidueTypes
  <2>. HIDE DEF modulus
  <2>5. residues' \subseteq Nat
    <3>1. residues' = {(r + len) % modulus :
                        r \in residues, len \in PossibleLenResidues(layouts[prior], modulus)}
      BY <1>8 DEF AddPossibleLen, modulus
    <3>2. \A r \in residues, len \in PossibleLenResidues(layouts[prior], modulus) :
            (r + len) % modulus \in Nat
      BY <2>3, <2>4 DEF ExpandTypeOK
    <3>. QED
      BY <3>1, <3>2
  <2>. QED
    BY <1>8, <2>5 DEF AddPossibleLen, ExpandTypeOK, ArgsChecked, ArgsSupported
<1>9. CASE CheckResidues
  <2>1. CASE NextAligned /\ UNCHANGED << phase, rejected >>
    BY <1>9, <2>1 DEF CheckResidues, NextAligned, ExpandTypeOK, ArgsChecked, ArgsSupported
  <2>2. CASE Reject("alignment") /\ UNCHANGED << idx, loopVars >>
    BY <1>9, <2>2 DEF CheckResidues, ExpandTypeOK, ArgsChecked
  <2>. QED
    BY <1>9, <2>1, <2>2 DEF CheckResidues
<1>10. CASE AlignmentDone
  BY <1>10 DEF AlignmentDone, ExpandTypeOK, ArgsChecked, ArgsSupported
<1>11. CASE EmitField
  <2>. DEFINE l == layouts[idx]
  <2>1. l \in FieldLayout
    BY <1>11 DEF EmitField, ExpandTypeOK
  <2>2. SlotMinLen(l) \in Nat /\ SlotMaxLen(l) \in Nat /\ SlotLens(l) \subseteq Nat
    BY <2>1, SlotLenTypes
  <2>. HIDE DEF l
  <2>3. /\ offset' = IF IsFixed(l) THEN offset + SlotMinLen(l) ELSE offset
        /\ offsets' = Append(offsets, IF seenVariable THEN Variable ELSE offset)
        /\ seenVariable' = (seenVariable \/ ~IsFixed(l))
        /\ minLen' = minLen + SlotMinLen(l)
        /\ maxLen' = maxLen + SlotMaxLen(l)
        /\ lens' = {total + slot : total \in lens, slot \in SlotLens(l)}
        /\ idx' = idx + 1
    BY <1>11 DEF EmitField, l
  <2>4. /\ offset' \in Nat /\ minLen' \in Nat /\ maxLen' \in Nat /\ lens' \subseteq Nat
        /\ offsets' \in Seq(Nat \cup {Variable}) /\ seenVariable' \in BOOLEAN
    <3>. DEFINE Offset == Nat \cup {Variable}
    <3>0. /\ offset \in Nat /\ minLen \in Nat /\ maxLen \in Nat /\ lens \subseteq Nat
          /\ offsets \in Seq(Offset)
      BY DEF ExpandTypeOK
    <3>1. offset' \in Nat /\ minLen' \in Nat /\ maxLen' \in Nat
      BY ONLY <3>0, <2>2, <2>3
    <3>2. lens' \subseteq Nat
      <4>. SUFFICES ASSUME NEW x \in lens' PROVE x \in Nat
        OBVIOUS
      <4>1. PICK total \in lens, slot \in SlotLens(l) : x = total + slot
        BY <2>3
      <4>2. total \in Nat /\ slot \in Nat
        BY <3>0, <2>2
      <4>. QED
        BY ONLY <4>1, <4>2
    <3>3. offsets' \in Seq(Nat \cup {Variable})
      <4>1. (IF seenVariable THEN Variable ELSE offset) \in Offset
        BY <3>0
      <4>. HIDE DEF Offset
      <4>2. offsets' \in Seq(Offset)
        BY ONLY <3>0, <4>1, <2>3
      <4>. QED
        BY <4>2 DEF Offset
    <3>4. seenVariable' \in BOOLEAN
      BY <2>3
    <3>. QED
      BY <3>1, <3>2, <3>3, <3>4
  <2>. QED
    BY <1>11, <2>3, <2>4 DEF EmitField, ExpandTypeOK, ArgsChecked, ArgsSupported
<1>12. CASE EmitDone
  BY <1>12 DEF EmitDone, ExpandTypeOK, ArgsChecked, ArgsSupported
<1>. QED
  BY <1>1, <1>2, <1>3, <1>4, <1>5, <1>6, <1>7, <1>8, <1>9, <1>10, <1>11, <1>12
     DEF ExpandNext

LEMMA StutterTypes == TypeInv /\ UNCHANGED expandVars => TypeInv'
  BY DEF TypeInv, ExpandTypeOK, ArgsChecked, ArgsSupported, expandVars

(* The expansion state always has its types.                               *)
THEOREM ExpandTypeCorrect == ExpandSpec => []ExpandTypeOK
<1>1. ExpandInit => TypeInv
  BY InitTypes
<1>2. TypeInv /\ [ExpandNext \/ ExpandStopped]_expandVars => TypeInv'
  BY StepTypes, StutterTypes DEF ExpandStopped
<1>3. TypeInv => ExpandTypeOK
  BY DEF TypeInv
<1>. QED
  BY <1>1, <1>2, <1>3, PTL DEF ExpandSpec

-----------------------------------------------------------------------------
(* The offsets the getters start from.  Every field has a field at or      *)
(* before it whose offset is fixed and with only variable offsets after    *)
(* it, which find_data_offset asserts; and a fixed offset is the sum of    *)
(* the sizes of the plain fields before it.                                *)

WalkStart(b, g) == offsets[b] # Variable /\ \A k \in b + 1 .. g : offsets[k] = Variable

OffsetsInv ==
  /\ phase \in {"args", "fields", "sums", "align"} =>
       offsets = << >> /\ ~seenVariable /\ offset = 0
  /\ phase = "emit" => /\ Len(offsets) = idx - 1 /\ idx <= FieldCount + 1
                       /\ seenVariable => offsets # << >>
                       /\ ~seenVariable =>
                            IF idx = 1 THEN offset = 0
                            ELSE /\ offsets[idx - 1] # Variable /\ IsFixed(layouts[idx - 1])
                                 /\ offset = offsets[idx - 1] + Size(layouts[idx - 1].kind)
  /\ phase = "emitted" => Len(offsets) = FieldCount
  /\ \A g \in 1 .. Len(offsets) : \E b \in 1 .. g : WalkStart(b, g)
  /\ phase # "rejected" /\ offsets # << >> => offsets[1] = 0
  /\ phase # "rejected" =>
       \A i \in 2 .. Len(offsets) :
         offsets[i] # Variable => /\ offsets[i - 1] # Variable /\ IsFixed(layouts[i - 1])
                                 /\ offsets[i] = offsets[i - 1] + Size(layouts[i - 1].kind)

LEMMA InitOffsets == ExpandInit => OffsetsInv
  BY DEF ExpandInit, OffsetsInv

(* Before the last loop there are no offsets, and after it nothing changes *)
(* them.                                                                   *)
LEMMA EarlierOffsets ==
  ASSUME TypeInv, OffsetsInv,
         \/ ParseArgs \/ ParseField \/ CheckStructOptions \/ AddPayload \/ SumsDone
         \/ NeedsNoAlignment \/ AlignmentBeyondBase \/ AddPossibleLen \/ CheckResidues
         \/ AlignmentDone
  PROVE  OffsetsInv'
<1>1. /\ phase \in {"args", "fields", "sums", "align"}
      /\ UNCHANGED << offsets, offset, seenVariable >>
  BY DEF ParseArgs, ParseField, CheckStructOptions, AddPayload, SumsDone, NeedsNoAlignment,
         AlignmentBeyondBase, AddPossibleLen, CheckResidues, AlignmentDone, ResiduesApply, emitVars
<1>2. offsets' = << >> /\ ~seenVariable' /\ offset' = 0
  BY <1>1 DEF OffsetsInv
<1>3. \/ phase' \in {"args", "fields", "sums", "align", "rejected"}
      \/ phase' = "emit" /\ idx' = 1
  <2>. USE DEF Enter, Reject, NextAligned
  <2>1. CASE ParseArgs \/ ParseField \/ CheckStructOptions
    BY <2>1 DEF ParseArgs, ParseField, CheckStructOptions
  <2>2. CASE AddPayload
    BY <2>2 DEF AddPayload
  <2>3. CASE SumsDone \/ NeedsNoAlignment \/ AlignmentBeyondBase \/ AlignmentDone
    BY <2>3 DEF SumsDone, NeedsNoAlignment, AlignmentBeyondBase, AlignmentDone
  <2>4. CASE AddPossibleLen
    BY <2>4 DEF AddPossibleLen, ResiduesApply
  <2>5. CASE CheckResidues
    BY <2>5 DEF CheckResidues, ResiduesApply
  <2>. QED
    BY <2>1, <2>2, <2>3, <2>4, <2>5
<1>4. FieldCount' \in Nat
  <2>1. TypeInv'
    BY StepTypes DEF ExpandNext
  <2>. QED
    BY <2>1 DEF TypeInv, ExpandTypeOK, FieldCount
<1>. QED
  BY <1>2, <1>3, <1>4 DEF OffsetsInv

LEMMA EmitOffsets ==
  ASSUME TypeInv, OffsetsInv, EmitField
  PROVE  OffsetsInv'
<1>. DEFINE l == layouts[idx]
            o == IF seenVariable THEN Variable ELSE offset
<1>1. /\ phase = "emit" /\ idx \in 1 .. FieldCount /\ Len(offsets) = idx - 1
      /\ offsets \in Seq(Nat \cup {Variable}) /\ offset \in Nat
      /\ l \in FieldLayout
  BY DEF TypeInv, ExpandTypeOK, OffsetsInv, EmitField, FieldCount
<1>2. /\ offsets' = Append(offsets, o) /\ seenVariable' = (seenVariable \/ ~IsFixed(l))
      /\ offset' = IF IsFixed(l) THEN offset + SlotMinLen(l) ELSE offset
      /\ idx' = idx + 1 /\ phase' = "emit" /\ layouts' = layouts /\ FieldCount' = FieldCount
  BY DEF EmitField, FieldCount
<1>3. /\ Len(offsets') = idx /\ offsets'[idx] = o /\ offsets' # << >>
      /\ \A k \in 1 .. idx - 1 : offsets'[k] = offsets[k]
  <2>. HIDE DEF o, l
  <2>. QED
    BY <1>1, <1>2
<1>4. o = Variable <=> seenVariable
  BY <1>1 DEF Variable
<1>5. /\ seenVariable => idx > 1
      /\ ~seenVariable => IF idx = 1 THEN offset = 0
                          ELSE /\ offsets[idx - 1] # Variable /\ IsFixed(layouts[idx - 1])
                               /\ offset = offsets[idx - 1] + Size(layouts[idx - 1].kind)
  BY <1>1 DEF OffsetsInv
<1>6. \A g \in 1 .. Len(offsets') : \E b \in 1 .. g : WalkStart(b, g)'
  <2>. SUFFICES ASSUME NEW g \in 1 .. idx PROVE \E b \in 1 .. g : WalkStart(b, g)'
    BY <1>3
  <2>. HIDE DEF o, l
  <2>1. CASE g < idx
    <3>1. PICK b \in 1 .. g : WalkStart(b, g)
      BY <2>1, <1>1 DEF OffsetsInv
    <3>. QED
      BY <2>1, <3>1, <1>1, <1>3 DEF WalkStart
  <2>2. CASE g = idx /\ ~seenVariable
    BY <2>2, <1>1, <1>3, <1>4 DEF WalkStart
  <2>3. CASE g = idx /\ seenVariable
    <3>1. PICK b \in 1 .. idx - 1 : WalkStart(b, idx - 1)
      BY <2>3, <1>1, <1>5 DEF OffsetsInv
    <3>2. \A k \in b + 1 .. g : offsets'[k] = Variable
      BY <2>3, <3>1, <1>1, <1>3, <1>4 DEF WalkStart
    <3>. QED
      BY <2>3, <3>1, <3>2, <1>1, <1>3 DEF WalkStart
  <2>. QED
    BY <1>1, <2>1, <2>2, <2>3
<1>7. offsets'[1] = 0
  <2>1. CASE idx = 1
    BY <2>1, <1>3, <1>5
  <2>2. CASE idx > 1
    BY <2>2, <1>1, <1>3 DEF OffsetsInv
  <2>. QED
    BY <2>1, <2>2, <1>1
<1>8. \A i \in 2 .. Len(offsets') :
        offsets'[i] # Variable => /\ offsets'[i - 1] # Variable /\ IsFixed(layouts[i - 1])
                                 /\ offsets'[i] = offsets'[i - 1] + Size(layouts[i - 1].kind)
  <2>. SUFFICES ASSUME NEW i \in 2 .. idx, offsets'[i] # Variable
                PROVE  /\ offsets'[i - 1] # Variable /\ IsFixed(layouts[i - 1])
                       /\ offsets'[i] = offsets'[i - 1] + Size(layouts[i - 1].kind)
    BY <1>3
  <2>. HIDE DEF o, l
  <2>1. CASE i < idx
    BY <2>1, <1>1, <1>3 DEF OffsetsInv
  <2>2. CASE i = idx
    <3>1. ~seenVariable /\ o = offset
      BY <2>2, <1>3, <1>4 DEF o
    <3>. QED
      BY <2>2, <3>1, <1>1, <1>3, <1>5
  <2>. QED
    BY <1>1, <2>1, <2>2
<1>9. ~seenVariable' => /\ offsets'[idx] # Variable /\ IsFixed(layouts[idx])
                       /\ offset' = offsets'[idx] + Size(layouts[idx].kind)
  <2>. SUFFICES ASSUME ~seenVariable'
                PROVE  /\ offsets'[idx] # Variable /\ IsFixed(l)
                       /\ offset' = offsets'[idx] + Size(l.kind)
    OBVIOUS
  <2>1. ~seenVariable /\ IsFixed(l) /\ offset' = offset + SlotMinLen(l) /\ o = offset
    BY <1>2
  <2>2. SlotMinLen(l) = Size(l.kind)
    BY <2>1 DEF IsFixed, SlotMinLen
  <2>. QED
    BY <2>1, <2>2, <1>3, <1>4
<1>10. idx' - 1 = idx /\ idx' # 1 /\ idx' <= FieldCount' + 1
  BY <1>1, <1>2 DEF FieldCount
<1>. HIDE DEF o, l
<1>. QED
  BY <1>2, <1>3, <1>6, <1>7, <1>8, <1>9, <1>10 DEF OffsetsInv

LEMMA StepOffsets ==
  ASSUME TypeInv, OffsetsInv, ExpandNext
  PROVE  OffsetsInv'
<1>1. CASE EmitField
  BY <1>1, EmitOffsets
<1>2. CASE EmitDone
  <2>1. /\ phase = "emit" /\ phase' = "emitted" /\ idx > FieldCount
        /\ UNCHANGED << offsets, offset, seenVariable, layouts >> /\ FieldCount' = FieldCount
    BY <1>2 DEF EmitDone, Enter, emitVars, FieldCount
  <2>2. Len(offsets) = FieldCount
    BY <2>1 DEF OffsetsInv, TypeInv, ExpandTypeOK, FieldCount
  <2>. QED
    BY <2>1, <2>2 DEF OffsetsInv, WalkStart
<1>. QED
  BY <1>1, <1>2, EarlierOffsets DEF ExpandNext

LEMMA StutterOffsets == OffsetsInv /\ UNCHANGED expandVars => OffsetsInv'
  BY DEF OffsetsInv, WalkStart, FieldCount, expandVars

-----------------------------------------------------------------------------
(* The contents of a struct, and where each field of an encoding starts.   *)

\* All contents of a struct, not only those the properties enumerate: a Vec
\* holds any number of elements its header can announce.
AllCounts(l) ==
  CASE l.shape = "plain" -> {1}
    [] l.shape = "vec"   -> 0 .. Capacity(l.width)
    [] OTHER             -> {0, 1}

AllContents == {c \in [1 .. FieldCount -> UNION {AllCounts(layouts[i]) : i \in 1 .. FieldCount}] :
                  \A i \in 1 .. FieldCount : c[i] \in AllCounts(layouts[i])}

LEMMA SomeCounts ==
  ASSUME NEW l \in FieldLayout
  PROVE  Counts(l) \subseteq AllCounts(l)
<1>1. /\ l.shape \in {"plain", "tagged", "implicit", "vec"} /\ l.width \in 0 .. MaxLenWidth
      /\ Capacity(l.width) \in Nat
  BY CapacityType DEF FieldLayout
<1>. QED
  BY <1>1, MaxCountAssumption DEF Counts, AllCounts

(* The counts a field can hold, and the bytes it then takes.               *)
LEMMA CountTypes ==
  ASSUME NEW l \in FieldLayout, NEW k \in AllCounts(l)
  PROVE  /\ k \in Nat /\ EncodedFieldLen(l, k) \in Nat
         /\ l.shape = "plain" => k = 1
         /\ l.shape = "vec" => k <= Capacity(l.width)
         /\ l.shape \in {"tagged", "implicit"} => k \in {0, 1}
<1>1. /\ l.shape \in {"plain", "tagged", "implicit", "vec"} /\ l.width \in Nat
      /\ l.width \in 0 .. MaxLenWidth /\ l.kind \in FixedValueKind
  BY DEF FieldLayout, MaxLenWidth
<1>2. Size(l.kind) \in Nat /\ Capacity(l.width) \in Nat
  BY <1>1, KindTypes, CapacityType
<1>3. /\ l.shape = "plain" => k = 1
      /\ l.shape = "vec" => k \in Nat /\ k <= Capacity(l.width)
      /\ l.shape \in {"tagged", "implicit"} => k \in {0, 1}
  BY <1>1, <1>2 DEF AllCounts
<1>4. k \in Nat
  BY <1>1, <1>3
<1>5. k * Size(l.kind) \in Nat
  BY <1>2, <1>4
<1>6. EncodedFieldLen(l, k) \in Nat
  BY <1>1, <1>2, <1>5 DEF EncodedFieldLen
<1>. QED
  BY <1>3, <1>4, <1>6

LEMMA AllContentsTypes ==
  ASSUME TypeInv, NEW c \in AllContents
  PROVE  /\ FieldCount \in Nat /\ layouts \in Seq(FieldLayout)
         /\ \A i \in 1 .. FieldCount :
              /\ layouts[i] \in FieldLayout /\ c[i] \in AllCounts(layouts[i]) /\ c[i] \in Nat
              /\ EncodedFieldLen(layouts[i], c[i]) \in Nat
<1>1. layouts \in Seq(FieldLayout) /\ FieldCount \in Nat
  BY DEF TypeInv, ExpandTypeOK, FieldCount
<1>. SUFFICES ASSUME NEW i \in 1 .. FieldCount
              PROVE  /\ layouts[i] \in FieldLayout /\ c[i] \in AllCounts(layouts[i]) /\ c[i] \in Nat
                     /\ EncodedFieldLen(layouts[i], c[i]) \in Nat
  BY <1>1
<1>2. layouts[i] \in FieldLayout /\ c[i] \in AllCounts(layouts[i])
  BY <1>1, ElementOfSeq DEF FieldCount, AllContents
<1>. QED
  BY <1>2, CountTypes

\* The contents given by one count for each field.
LEMMA AllContentsOf ==
  ASSUME NEW c, c = [i \in 1 .. FieldCount |-> c[i]],
         \A i \in 1 .. FieldCount : c[i] \in AllCounts(layouts[i])
  PROVE  c \in AllContents
<1>. DEFINE All == UNION {AllCounts(layouts[i]) : i \in 1 .. FieldCount}
<1>1. \A i \in 1 .. FieldCount : c[i] \in All
  OBVIOUS
<1>2. c \in [1 .. FieldCount -> All]
  <2>. HIDE DEF All
  <2>. QED
    BY <1>1
<1>. QED
  BY <1>2 DEF AllContents

LEMMA SomeContents ==
  ASSUME TypeInv
  PROVE  Contents \subseteq AllContents
<1>. SUFFICES ASSUME NEW c \in Contents PROVE c \in AllContents
  OBVIOUS
<1>1. c = [i \in 1 .. FieldCount |-> c[i]] /\ \A i \in 1 .. FieldCount : c[i] \in Counts(layouts[i])
  BY DEF Contents
<1>2. \A i \in 1 .. FieldCount : layouts[i] \in FieldLayout
  BY ElementOfSeq DEF TypeInv, ExpandTypeOK, FieldCount
<1>3. \A i \in 1 .. FieldCount : c[i] \in AllCounts(layouts[i])
  BY <1>1, <1>2, SomeCounts
<1>. QED
  BY <1>1, <1>3, AllContentsOf

LEMMA ContentsTypes ==
  ASSUME TypeInv, NEW c \in Contents
  PROVE  /\ FieldCount \in Nat /\ layouts \in Seq(FieldLayout)
         /\ \A i \in 1 .. FieldCount :
              /\ layouts[i] \in FieldLayout /\ c[i] \in Counts(layouts[i]) /\ c[i] \in Nat
              /\ EncodedFieldLen(layouts[i], c[i]) \in Nat
<1>1. c \in AllContents
  BY SomeContents
<1>2. \A i \in 1 .. FieldCount : c[i] \in Counts(layouts[i])
  BY DEF Contents
<1>. QED
  BY <1>1, <1>2, AllContentsTypes

(* FieldStarts satisfies the recursion it is defined by.                   *)
LEMMA StartsEquation ==
  ASSUME TypeInv, NEW c \in AllContents
  PROVE  /\ FieldStarts(c)[1] = 0
         /\ \A i \in 1 .. FieldCount :
              FieldStarts(c)[i + 1] = FieldStarts(c)[i] + EncodedFieldLen(layouts[i], c[i])
         /\ \A i \in 1 .. FieldCount + 1 : FieldStarts(c)[i] \in Nat
<1>. DEFINE n == FieldCount
            Step(v, i) == IF i = 1 THEN 0
                          ELSE v[i - 1] + EncodedFieldLen(layouts[i - 1], c[i - 1])
            at == FieldStarts(c)
            d == [i \in 1 .. n |-> EncodedFieldLen(layouts[i], c[i])]
<1>1. at = CHOOSE v : v = [i \in 1 .. n + 1 |-> Step(v, i)]
  BY DEF FieldStarts
<1>2. n \in Nat /\ \A i \in 1 .. n : d[i] \in Nat
  BY AllContentsTypes
<1>. HIDE DEF n
<1>3. PICK u \in [1 .. n + 1 -> Nat] : u[1] = 0 /\ \A i \in 1 .. n : u[i + 1] = u[i] + d[i]
  <2>1. PICK b \in Nat : b = 0
    OBVIOUS
  <2>a. \A i \in 1 .. n : d[i] \in Nat
    BY <1>2
  <2>b. n \in Nat /\ b \in Nat
    BY <1>2
  <2>. HIDE DEF d
  <2>2. \E u \in [1 .. n + 1 -> Nat] : u[1] = b /\ \A i \in 1 .. n : u[i + 1] = u[i] + d[i]
    BY ONLY <2>a, <2>b, OffsetsExist, SMTT(30)
  <2>. QED
    BY <2>1, <2>2
<1>4. ASSUME NEW i \in 1 .. n + 1 PROVE u[i] = Step(u, i)
  <2>1. CASE i = 1
    BY <1>3, <2>1
  <2>2. CASE i # 1
    <3>1. PICK k \in 1 .. n : i = k + 1 /\ i - 1 = k
      <4>1. i - 1 \in 1 .. n /\ i = (i - 1) + 1
        BY <1>2, <2>2
      <4>. QED
        BY <4>1
    <3>2. u[i] = u[k] + EncodedFieldLen(layouts[k], c[k])
      BY <1>3, <3>1
    <3>. QED
      BY <2>2, <3>1, <3>2
  <2>. QED
    BY <2>1, <2>2
<1>5. u = [i \in 1 .. n + 1 |-> Step(u, i)]
  BY <1>4
<1>6. at = [i \in 1 .. n + 1 |-> Step(at, i)]
  <2>. HIDE DEF at
  <2>. QED
    BY <1>1, <1>5
<1>. HIDE DEF at
<1>7. at[1] = 0
  BY <1>2, <1>6
<1>8. ASSUME NEW i \in 1 .. n PROVE at[i + 1] = at[i] + EncodedFieldLen(layouts[i], c[i])
  <2>1. i + 1 \in 1 .. n + 1 /\ i + 1 # 1 /\ i + 1 - 1 = i
    BY <1>2
  <2>2. at[i + 1] = Step(at, i + 1)
    BY <1>6, <2>1
  <2>. QED
    BY <2>1, <2>2
<1>9. \A i \in 1 .. n + 1 : at[i] \in Nat
  <2>. DEFINE S == {i \in 1 .. n + 1 : at[i] \in Nat}
  <2>1. 1 \in S /\ n + 1 \in Nat
    BY <1>2, <1>7
  <2>2. ASSUME NEW i \in 1 .. n + 1, i \in S, i < n + 1 PROVE i + 1 \in S
    <3>1. i \in 1 .. n /\ i + 1 \in 1 .. n + 1 /\ at[i] \in Nat
      BY <1>2, <2>2
    <3>2. d[i] \in Nat /\ at[i + 1] = at[i] + d[i]
      BY <1>2, <1>8, <3>1
    <3>. QED
      BY <3>1, <3>2
  <2>3. 1 .. n + 1 \subseteq S
    <3>. HIDE DEF S
    <3>. QED
      BY <2>1, <2>2, UpToInduction
  <2>. QED
    BY <2>3
<1>. QED
  BY <1>7, <1>8, <1>9 DEF at, n

(* A field starts where the counts of the fields before it put it.         *)
LEMMA StartsAgree ==
  ASSUME TypeInv, NEW c \in AllContents, NEW d \in AllContents, NEW m \in 0 .. FieldCount,
         \A i \in 1 .. m : c[i] = d[i]
  PROVE  \A i \in 1 .. m + 1 : FieldStarts(c)[i] = FieldStarts(d)[i]
<1>. DEFINE v == FieldStarts(c)
            w == FieldStarts(d)
<1>1. FieldCount \in Nat
  BY AllContentsTypes
<1>2. /\ v[1] = 0 /\ w[1] = 0
      /\ \A i \in 1 .. FieldCount : /\ v[i + 1] = v[i] + EncodedFieldLen(layouts[i], c[i])
                                    /\ w[i + 1] = w[i] + EncodedFieldLen(layouts[i], d[i])
  BY StartsEquation
<1>. HIDE DEF v, w
<1>3. \A i \in 1 .. m : v[i] = w[i] => v[i + 1] = w[i + 1]
  BY <1>1, <1>2
<1>4. m \in Nat /\ v[1] = w[1]
  BY <1>1, <1>2
<1>5. \A i \in 1 .. m + 1 : v[i] = w[i]
  <2>. DEFINE S == {i \in 1 .. m + 1 : v[i] = w[i]}
  <2>1. 1 \in S /\ m + 1 \in Nat
    BY <1>4
  <2>2. \A i \in 1 .. m + 1 : i \in S /\ i < m + 1 => i + 1 \in S
    BY <1>3, <1>4
  <2>3. 1 .. m + 1 \subseteq S
    <3>. HIDE DEF S
    <3>. QED
      BY <2>1, <2>2, UpToInduction
  <2>. QED
    BY <2>3
<1>. QED
  BY <1>5 DEF v, w

\* The contents given by one count for each field.
LEMMA ContentsOf ==
  ASSUME NEW c, c = [i \in 1 .. FieldCount |-> c[i]],
         \A i \in 1 .. FieldCount : c[i] \in Counts(layouts[i])
  PROVE  c \in Contents
<1>. DEFINE All == UNION {Counts(layouts[i]) : i \in 1 .. FieldCount}
<1>1. \A i \in 1 .. FieldCount : c[i] \in All
  OBVIOUS
<1>2. c \in [1 .. FieldCount -> All]
  <2>. HIDE DEF All
  <2>. QED
    BY <1>1
<1>. QED
  BY <1>2 DEF Contents

(* The count of one field can be replaced by any other it may have.        *)
LEMMA ContentsReplace ==
  ASSUME TypeInv, NEW c \in Contents, NEW j \in 1 .. FieldCount, NEW k \in Counts(layouts[j])
  PROVE  /\ [c EXCEPT ![j] = k] \in Contents /\ [c EXCEPT ![j] = k][j] = k
         /\ \A i \in 1 .. FieldCount : i # j => [c EXCEPT ![j] = k][i] = c[i]
         /\ \A i \in 1 .. j : FieldStarts([c EXCEPT ![j] = k])[i] = FieldStarts(c)[i]
<1>. DEFINE d == [c EXCEPT ![j] = k]
<1>1. DOMAIN c = 1 .. FieldCount /\ c = [i \in 1 .. FieldCount |-> c[i]]
  BY DEF Contents
<1>2. d[j] = k /\ (\A i \in 1 .. FieldCount : i # j => d[i] = c[i])
      /\ d = [i \in 1 .. FieldCount |-> d[i]]
  BY <1>1
<1>3. \A i \in 1 .. FieldCount : d[i] \in Counts(layouts[i])
  BY <1>2, ContentsTypes
<1>. HIDE DEF d
<1>4. d \in Contents
  BY <1>2, <1>3, ContentsOf
<1>5. FieldCount \in Nat
  BY ContentsTypes
<1>6. \A i \in 1 .. j : FieldStarts(d)[i] = FieldStarts(c)[i]
  <2>1. PICK m \in 0 .. FieldCount : j = m + 1
    <3>1. j - 1 \in 0 .. FieldCount /\ j = (j - 1) + 1
      BY <1>5
    <3>. QED
      BY <3>1
  <2>2. \A i \in 1 .. m : c[i] = d[i]
    BY <1>2, <1>5, <2>1
  <2>3. \A i \in 1 .. m + 1 : FieldStarts(c)[i] = FieldStarts(d)[i]
    BY <1>4, <2>2, StartsAgree, SomeContents
  <2>. QED
    BY <2>1, <2>3
<1>. QED
  BY <1>2, <1>4, <1>6 DEF d

-----------------------------------------------------------------------------
(* Residues modulo the alignment of a primitive.                           *)

LEMMA ModTypes ==
  ASSUME NEW x \in Nat, NEW m \in PrimitiveSizes
  PROVE  m \in Nat \ {0} /\ x % m \in 0 .. m - 1
BY DEF PrimitiveSizes

(* A multiple of the modulus makes no difference, and neither does reducing*)
(* the summands first.                                                     *)
LEMMA ModAdd ==
  ASSUME NEW m \in PrimitiveSizes, NEW x \in Nat, NEW y \in Nat
  PROVE  (x + m * y) % m = x % m /\ ((x % m) + (y % m)) % m = (x + y) % m
         /\ ((x % m) + y) % m = (x + y) % m
<1>1. CASE m = 1
  BY <1>1
<1>2. CASE m = 2
  BY <1>2
<1>3. CASE m = 4
  BY <1>3
<1>4. CASE m = 8
  BY <1>4
<1>5. CASE m = 16
  BY <1>5
<1>. QED
  BY <1>1, <1>2, <1>3, <1>4, <1>5 DEF PrimitiveSizes

(* Gcd is a divisor of both.                                               *)
LEMMA GcdDivides ==
  ASSUME NEW m \in PrimitiveSizes, NEW b \in Nat
  PROVE  Gcd(m, b) \in PrimitiveSizes /\ m % Gcd(m, b) = 0 /\ b % Gcd(m, b) = 0
<1>. DEFINE Common(d) == m % d = 0 /\ b % d = 0
            Greatest(d) == Common(d) /\ \A e \in 1 .. m : Common(e) => e <= d
<1>1. m \in Nat
  BY DEF PrimitiveSizes
<1>2. \A d \in 1 .. m : m % d = 0 => d \in PrimitiveSizes
  <2>1. CASE m = 1
    BY <2>1 DEF PrimitiveSizes
  <2>2. CASE m = 2
    BY <2>2 DEF PrimitiveSizes
  <2>3. CASE m = 4
    <3>1. \A d \in 1 .. 4 : d \in {1, 2, 3, 4}
      OBVIOUS
    <3>2. 4 % 3 = 1
      OBVIOUS
    <3>. QED
      BY <2>3, <3>1, <3>2 DEF PrimitiveSizes
  <2>4. CASE m = 8
    <3>1. \A d \in 1 .. 8 : d \in {1, 2, 3, 4, 5, 6, 7, 8}
      OBVIOUS
    <3>2. 8 % 3 = 2 /\ 8 % 5 = 3 /\ 8 % 6 = 2 /\ 8 % 7 = 1
      OBVIOUS
    <3>. QED
      BY <2>4, <3>1, <3>2 DEF PrimitiveSizes
  <2>5. CASE m = 16
    <3>1. \A d \in 1 .. 16 : d \in {1, 2, 3, 4, 5, 6, 7, 8, 9, 10, 11, 12, 13, 14, 15, 16}
      OBVIOUS
    <3>2. /\ 16 % 3 = 1 /\ 16 % 5 = 1 /\ 16 % 6 = 4 /\ 16 % 7 = 2 /\ 16 % 9 = 7 /\ 16 % 10 = 6
          /\ 16 % 11 = 5 /\ 16 % 12 = 4 /\ 16 % 13 = 3 /\ 16 % 14 = 2 /\ 16 % 15 = 1
      OBVIOUS
    <3>. QED
      BY <2>5, <3>1, <3>2 DEF PrimitiveSizes
  <2>. QED
    BY <2>1, <2>2, <2>3, <2>4, <2>5 DEF PrimitiveSizes
<1>3. \E d \in 1 .. m : Greatest(d)
  <2>. DEFINE T == {d \in 1 .. m : Common(d)}
  <2>1. 1 \in T
    BY <1>1, ModTypes DEF PrimitiveSizes
  <2>2. \A d \in T : d \in {1, 2, 4, 8, 16}
    BY <1>2 DEF PrimitiveSizes
  <2>3. \A e \in 1 .. m : Common(e) => e \in T
    OBVIOUS
  <2>4. \A d \in T : d \in 1 .. m /\ Common(d)
    OBVIOUS
  <2>. HIDE DEF T
  <2>5. PICK d \in T : \A e \in T : e <= d
    <3>1. CASE 16 \in T
      BY <2>2, <3>1
    <3>2. CASE 16 \notin T /\ 8 \in T
      BY <2>2, <3>2
    <3>3. CASE 16 \notin T /\ 8 \notin T /\ 4 \in T
      BY <2>2, <3>3
    <3>4. CASE 16 \notin T /\ 8 \notin T /\ 4 \notin T /\ 2 \in T
      BY <2>2, <3>4
    <3>5. CASE 16 \notin T /\ 8 \notin T /\ 4 \notin T /\ 2 \notin T
      BY <2>1, <2>2, <3>5
    <3>. QED
      BY <3>1, <3>2, <3>3, <3>4, <3>5
  <2>6. Greatest(d)
    BY <2>3, <2>4, <2>5
  <2>. HIDE DEF Greatest
  <2>. QED
    BY <2>4, <2>5, <2>6
<1>4. Gcd(m, b) = CHOOSE d \in 1 .. m : Greatest(d)
  BY DEF Gcd
<1>5. Gcd(m, b) \in 1 .. m /\ Greatest(Gcd(m, b))
  <2>. HIDE DEF Greatest
  <2>. QED
    BY <1>3, <1>4
<1>. QED
  BY <1>2, <1>5

(* The elements of a Vec whose number is a multiple of the period are a    *)
(* multiple of the modulus.                                                *)
LEMMA Period ==
  ASSUME NEW m \in PrimitiveSizes, NEW size \in Nat, NEW count \in Nat
  PROVE  LET period == m \div Gcd(m, size)
         IN /\ period \in 1 .. m
            /\ \E k \in 0 .. period - 1, z \in Nat :
                 k <= count /\ count * size = k * size + m * z
<1>. DEFINE d == Gcd(m, size)
            period == m \div d
<1>1. d \in PrimitiveSizes /\ m % d = 0 /\ size % d = 0 /\ m \in Nat
  BY GcdDivides DEF PrimitiveSizes
<1>. HIDE DEF d
<1>2. period \in PrimitiveSizes /\ m = d * period
  <2>1. CASE d = 1
    BY <1>1, <2>1 DEF PrimitiveSizes
  <2>2. CASE d = 2
    BY <1>1, <2>2 DEF PrimitiveSizes
  <2>3. CASE d = 4
    BY <1>1, <2>3 DEF PrimitiveSizes
  <2>4. CASE d = 8
    BY <1>1, <2>4 DEF PrimitiveSizes
  <2>5. CASE d = 16
    BY <1>1, <2>5 DEF PrimitiveSizes
  <2>. QED
    BY <1>1, <2>1, <2>2, <2>3, <2>4, <2>5 DEF PrimitiveSizes
<1>3. PICK q \in Nat : size = d * q
  <2>1. CASE d = 1
    BY <1>1, <2>1
  <2>2. CASE d = 2
    <3>1. size \div 2 \in Nat /\ size = 2 * (size \div 2)
      BY <1>1, <2>2
    <3>. QED
      BY <2>2, <3>1
  <2>3. CASE d = 4
    <3>1. size \div 4 \in Nat /\ size = 4 * (size \div 4)
      BY <1>1, <2>3
    <3>. QED
      BY <2>3, <3>1
  <2>4. CASE d = 8
    <3>1. size \div 8 \in Nat /\ size = 8 * (size \div 8)
      BY <1>1, <2>4
    <3>. QED
      BY <2>4, <3>1
  <2>5. CASE d = 16
    <3>1. size \div 16 \in Nat /\ size = 16 * (size \div 16)
      BY <1>1, <2>5
    <3>. QED
      BY <2>5, <3>1
  <2>. QED
    BY <1>1, <2>1, <2>2, <2>3, <2>4, <2>5 DEF PrimitiveSizes
<1>. HIDE DEF period
<1>4. PICK t \in Nat, k \in 0 .. period - 1 : count = period * t + k
  <2>. DEFINE T == count \div period
              K == count % period
  <2>1. T \in Nat /\ K \in 0 .. period - 1 /\ count = period * T + K
    <3>1. CASE period = 1
      BY <3>1
    <3>2. CASE period = 2
      BY <3>2
    <3>3. CASE period = 4
      BY <3>3
    <3>4. CASE period = 8
      BY <3>4
    <3>5. CASE period = 16
      BY <3>5
    <3>. QED
      BY <1>2, <3>1, <3>2, <3>3, <3>4, <3>5 DEF PrimitiveSizes
  <2>. HIDE DEF T, K
  <2>. QED
    BY <2>1
<1>5. period \in Nat /\ d \in Nat /\ k \in Nat /\ period >= 1 /\ d >= 1
  BY <1>1, <1>2 DEF PrimitiveSizes
<1>6. PICK z \in Nat : z = q * t
  <2>1. \A a, b \in Nat : a * b \in Nat
    OBVIOUS
  <2>. QED
    BY <2>1
<1>7. k <= count
  <2>1. PICK w \in Nat : w = period * t
    BY <1>5
  <2>. QED
    BY <1>4, <1>5, <2>1
<1>8. count * size = k * size + m * z
  <2>1. count * size = (period * t) * size + k * size
    BY ONLY <1>3, <1>4, <1>5, size \in Nat
  <2>2. (period * t) * size = (d * period) * (q * t)
    BY ONLY <1>3, <1>4, <1>5, size \in Nat
  <2>3. PICK x \in Nat : x = k * size
    BY <1>5
  <2>4. PICK y \in Nat : y = m * z
    BY <1>1
  <2>. QED
    BY <1>2, <1>6, <2>1, <2>2, <2>3, <2>4
<1>9. period \in 1 .. m
  BY <1>1, <1>2, <1>5 DEF PrimitiveSizes
<1>. QED
  BY <1>7, <1>8, <1>9 DEF period, d

(* possible_len_residues is complete: whatever a field holds, the residue  *)
(* of its length is among them.                                            *)
LEMMA ResiduesComplete ==
  ASSUME NEW l \in FieldLayout, NEW m \in PrimitiveSizes, NEW k \in AllCounts(l)
  PROVE  EncodedFieldLen(l, k) % m \in PossibleLenResidues(l, m)
<1>1. /\ l.shape \in {"plain", "tagged", "implicit", "vec"} /\ l.width \in Nat
      /\ l.width \in 0 .. MaxLenWidth /\ l.kind \in FixedValueKind /\ m \in Nat
  BY DEF FieldLayout, MaxLenWidth, PrimitiveSizes
<1>2. Size(l.kind) \in Nat /\ Capacity(l.width) \in Nat
  BY <1>1, KindTypes, CapacityType
<1>3. /\ k \in Nat /\ EncodedFieldLen(l, k) \in Nat
      /\ l.shape = "plain" => k = 1
      /\ l.shape = "vec" => k <= Capacity(l.width)
      /\ l.shape \in {"tagged", "implicit"} => k \in {0, 1}
  BY CountTypes
<1>4. CASE m = 1
  BY <1>3, <1>4 DEF PossibleLenResidues
<1>5. CASE m # 1 /\ l.shape # "vec"
  <2>1. 0 % m = 0
    BY <1>5 DEF PrimitiveSizes
  <2>. QED
    BY <1>1, <1>3, <1>5, <2>1 DEF PossibleLenResidues, EncodedFieldLen
<1>6. CASE m # 1 /\ l.shape = "vec"
  <2>. DEFINE size == Size(l.kind)
              period == m \div Gcd(m, size)
              counts == {j \in 0 .. m - 1 : j <= Capacity(l.width) /\ j <= period - 1}
  <2>1. /\ period \in 1 .. m
        /\ \E j \in 0 .. period - 1, z \in Nat : j <= k /\ k * size = j * size + m * z
    BY <1>2, <1>3, Period
  <2>2. PICK j \in 0 .. period - 1, z \in Nat : j <= k /\ k * size = j * size + m * z
    BY <2>1
  <2>3. PossibleLenResidues(l, m) = {(l.width + i * size) % m : i \in counts}
    BY <1>6 DEF PossibleLenResidues
  <2>4. EncodedFieldLen(l, k) = l.width + k * size
    BY <1>6 DEF EncodedFieldLen
  <2>. HIDE DEF size, period
  <2>5. j \in counts
    BY <1>1, <1>2, <1>3, <1>6, <2>1, <2>2
  <2>6. (l.width + k * size) % m = (l.width + j * size) % m
    <3>1. j * size \in Nat /\ m * z \in Nat
      BY <1>1, <1>2, <2>1, <2>2 DEF size
    <3>2. PICK x \in Nat : x = l.width + j * size
      BY <1>1, <3>1
    <3>3. l.width + k * size = x + m * z
      BY ONLY <1>1, <2>2, <3>1, <3>2
    <3>4. (x + m * z) % m = x % m
      BY ModAdd
    <3>. QED
      BY <3>2, <3>3, <3>4
  <2>. HIDE DEF counts
  <2>. QED
    BY <2>3, <2>4, <2>5, <2>6
<1>. QED
  BY <1>4, <1>5, <1>6

(* And it lists no other, if the properties enumerate enough counts.       *)
LEMMA ResiduesOccur ==
  ASSUME NEW l \in FieldLayout, NEW m \in PrimitiveSizes, m - 1 <= MaxCount,
         NEW r \in PossibleLenResidues(l, m)
  PROVE  \E k \in Counts(l) : r = EncodedFieldLen(l, k) % m
<1>1. /\ l.shape \in {"plain", "tagged", "implicit", "vec"} /\ l.width \in Nat
      /\ l.width \in 0 .. MaxLenWidth /\ l.kind \in FixedValueKind /\ m \in Nat
  BY DEF FieldLayout, MaxLenWidth, PrimitiveSizes
<1>2. Size(l.kind) \in Nat /\ Capacity(l.width) \in Nat
  BY <1>1, KindTypes, CapacityType
<1>3. CASE m = 1
  <2>1. r = 0
    BY <1>3 DEF PossibleLenResidues
  <2>2. PICK k \in Counts(l) : TRUE
    BY <1>1 DEF Counts
  <2>3. EncodedFieldLen(l, k) \in Nat
    BY CountTypes, SomeCounts
  <2>. QED
    BY <1>3, <2>1, <2>2, <2>3
<1>4. CASE m # 1 /\ l.shape # "vec"
  <2>1. 0 % m = 0
    BY <1>4 DEF PrimitiveSizes
  <2>2. CASE l.shape = "plain"
    <3>1. r = EncodedFieldLen(l, 1) % m /\ 1 \in Counts(l)
      BY <1>4, <2>2 DEF PossibleLenResidues, EncodedFieldLen, Counts
    <3>. QED
      BY <3>1
  <2>3. CASE l.shape \in {"tagged", "implicit"}
    <3>1. /\ r \in {EncodedFieldLen(l, 0) % m, EncodedFieldLen(l, 1) % m}
          /\ 0 \in Counts(l) /\ 1 \in Counts(l)
      BY <1>4, <2>1, <2>3 DEF PossibleLenResidues, EncodedFieldLen, Counts
    <3>. QED
      BY <3>1
  <2>. QED
    BY <1>1, <1>4, <2>2, <2>3
<1>5. CASE m # 1 /\ l.shape = "vec"
  <2>1. PICK k \in 0 .. m - 1 : k <= Capacity(l.width) /\ r = (l.width + k * Size(l.kind)) % m
    BY <1>5 DEF PossibleLenResidues
  <2>2. k \in Counts(l)
    BY <1>1, <1>5, <2>1, MaxCountAssumption DEF Counts
  <2>. QED
    BY <1>5, <2>1, <2>2 DEF EncodedFieldLen
<1>. QED
  BY <1>3, <1>4, <1>5

\* While no field is added, contents and starts stay what they are.
LEMMA SameContents ==
  ASSUME layouts' = layouts
  PROVE  /\ FieldCount' = FieldCount /\ Contents' = Contents /\ AllContents' = AllContents
         /\ \A c : FieldStarts(c)' = FieldStarts(c)
<1>1. FieldCount' = FieldCount
  BY DEF FieldCount
<1>2. Contents' = Contents
  BY <1>1 DEF Contents, Counts
<1>a. AllContents' = AllContents
  BY <1>1 DEF AllContents, AllCounts
<1>3. \A c : FieldStarts(c)' = FieldStarts(c)
  BY <1>1 DEF FieldStarts, EncodedFieldLen
<1>. QED
  BY <1>1, <1>2, <1>a, <1>3

\* The fullest contents: everything is present, every Vec at its capacity.
Most == [i \in 1 .. FieldCount |->
           IF layouts[i].shape = "vec" THEN Capacity(layouts[i].width) ELSE 1]

LEMMA MostIsContents ==
  ASSUME TypeInv
  PROVE  /\ Most \in Contents
         /\ \A i \in 1 .. FieldCount : Most[i] \in Counts(layouts[i]) /\ Most[i] > 0
<1>. DEFINE most == Most
<1>1. most = [i \in 1 .. FieldCount |-> most[i]]
  BY DEF Most
<1>2. ASSUME NEW i \in 1 .. FieldCount PROVE most[i] \in Counts(layouts[i]) /\ most[i] > 0
  <2>1. layouts[i] \in FieldLayout
    BY ElementOfSeq DEF TypeInv, ExpandTypeOK, FieldCount
  <2>2. Capacity(layouts[i].width) \in Nat /\ Capacity(layouts[i].width) >= 1
    BY <2>1, CapacityType DEF FieldLayout
  <2>3. most[i] = IF layouts[i].shape = "vec" THEN Capacity(layouts[i].width) ELSE 1
    BY DEF Most
  <2>. QED
    BY <2>2, <2>3 DEF Counts
<1>. HIDE DEF most
<1>3. most \in Contents
  BY <1>1, <1>2, ContentsOf
<1>. QED
  BY <1>2, <1>3 DEF most

LEMMA ShiftType ==
  ASSUME NEW l \in FieldLayout
  PROVE  PayloadShift(l) \in Nat
<1>1. l.shape \in {"plain", "tagged", "implicit", "vec"} /\ l.width \in Nat
  BY DEF FieldLayout, MaxLenWidth
<1>. QED
  BY <1>1 DEF PayloadShift

-----------------------------------------------------------------------------
(* The certificate of alignment.  While a borrowed field is checked, the   *)
(* residues collected are those of where it starts, over all contents: none*)
(* is missing, and, when the properties enumerate enough counts, each one  *)
(* occurs.                                                                 *)

Certified(i) == \A c \in AllContents : ~BorrowedMisaligned(c, i)

StartResidue(c, i, g) == FieldStarts(c)[i] % Align(layouts[g].kind)
Collected == \A c \in AllContents : StartResidue(c, prior, idx) \in residues
Occurring == \A r \in residues : \E c \in Contents : r = StartResidue(c, prior, idx)

CountsSuffice == MaxCount >= BaseAlign - 1

AlignInv ==
  /\ phase \in {"args", "fields", "sums"} => prior = 1 /\ residues = {0}
  /\ phase = "align" =>
       /\ idx <= FieldCount + 1 /\ prior <= idx
       /\ \A i \in 1 .. idx - 1 : Certified(i)
       /\ idx <= FieldCount => Collected /\ (CountsSuffice => Occurring)
  /\ phase \in {"emit", "emitted"} => \A i \in 1 .. FieldCount : Certified(i)
  /\ phase # "rejected" => rejected = "none"
  /\ CountsSuffice => AlignmentRejectionJustified

LEMMA AlignTypes ==
  ASSUME TypeInv
  PROVE  /\ FieldCount \in Nat /\ idx \in Nat \ {0} /\ prior \in Nat \ {0}
         /\ \A i \in 1 .. FieldCount :
              /\ layouts[i] \in FieldLayout /\ Align(layouts[i].kind) \in PrimitiveSizes
              /\ PayloadShift(layouts[i]) \in Nat
<1>1. FieldCount \in Nat /\ idx \in Nat \ {0} /\ prior \in Nat \ {0}
  BY DEF TypeInv, ExpandTypeOK, FieldCount
<1>. SUFFICES ASSUME NEW i \in 1 .. FieldCount
              PROVE  /\ layouts[i] \in FieldLayout /\ Align(layouts[i].kind) \in PrimitiveSizes
                     /\ PayloadShift(layouts[i]) \in Nat
  BY <1>1
<1>2. layouts[i] \in FieldLayout
  BY ElementOfSeq DEF TypeInv, ExpandTypeOK, FieldCount
<1>. QED
  BY <1>2, KindTypes, ShiftType DEF FieldLayout

\* What every contents has of a field.
LEMMA AllStartTypes ==
  ASSUME TypeInv, NEW c \in AllContents, NEW i \in 1 .. FieldCount
  PROVE  /\ FieldStarts(c)[i] \in Nat /\ FieldStarts(c)[i + 1] \in Nat
         /\ EncodedFieldLen(layouts[i], c[i]) \in Nat
         /\ FieldStarts(c)[i + 1] = FieldStarts(c)[i] + EncodedFieldLen(layouts[i], c[i])
<1>1. i \in 1 .. FieldCount + 1 /\ i + 1 \in 1 .. FieldCount + 1
  BY AlignTypes
<1>. QED
  BY <1>1, StartsEquation, AllContentsTypes

LEMMA StartTypes ==
  ASSUME TypeInv, NEW c \in Contents, NEW i \in 1 .. FieldCount
  PROVE  /\ FieldStarts(c)[i] \in Nat /\ FieldStarts(c)[i + 1] \in Nat
         /\ EncodedFieldLen(layouts[i], c[i]) \in Nat
         /\ FieldStarts(c)[i + 1] = FieldStarts(c)[i] + EncodedFieldLen(layouts[i], c[i])
BY SomeContents, AllStartTypes

LEMMA LegalStartTypes ==
  ASSUME TypeInv, ArgsSupported
  PROVE  /\ \A s \in LegalStarts : s \in Nat
         /\ decl.buffer = Unaligned => 0 \in LegalStarts /\ 1 \in LegalStarts
         /\ decl.buffer # Unaligned =>
              /\ decl.buffer \in Nat
              /\ LegalStarts = {decl.buffer, decl.buffer + BaseAlign}
<1>1. BaseAlign \in {1, 2, 4, 8}
  BY BaseAlignAssumption
<1>2. decl.buffer = Unaligned \/ decl.buffer \in 0 .. BaseAlign - 1
  BY DEF ArgsSupported
<1>. QED
  BY <1>1, <1>2 DEF LegalStarts

\* Where the search for the residues of a field starts.
LEMMA FirstResidue ==
  ASSUME TypeInv, NEW g \in 1 .. FieldCount
  PROVE  \A c \in AllContents : StartResidue(c, 1, g) = 0
<1>. SUFFICES ASSUME NEW c \in AllContents PROVE StartResidue(c, 1, g) = 0
  OBVIOUS
<1>1. FieldStarts(c)[1] = 0
  BY StartsEquation
<1>2. Align(layouts[g].kind) \in PrimitiveSizes
  BY AlignTypes
<1>. QED
  BY <1>1, <1>2 DEF StartResidue, PrimitiveSizes

LEMMA SameCertificates ==
  ASSUME layouts' = layouts, decl' = decl
  PROVE  /\ \A i : Certified(i)' = Certified(i)
         /\ \A c, i, g : StartResidue(c, i, g)' = StartResidue(c, i, g)
<1>1. /\ FieldCount' = FieldCount /\ AllContents' = AllContents
      /\ \A c : FieldStarts(c)' = FieldStarts(c)
  BY SameContents
<1>2. LegalStarts' = LegalStarts
  BY DEF LegalStarts
<1>3. \A c, i : BorrowedMisaligned(c, i)' = BorrowedMisaligned(c, i)
  BY <1>1, <1>2 DEF BorrowedMisaligned, Borrows, PayloadShift
<1>4. \A i : Certified(i)' = Certified(i)
  BY <1>1, <1>3 DEF Certified
<1>5. \A c, i, g : StartResidue(c, i, g)' = StartResidue(c, i, g)
  BY <1>1 DEF StartResidue
<1>. QED
  BY <1>4, <1>5

\* The next field to look at, from the start again.
LEMMA AlignNext ==
  ASSUME TypeInv, AlignInv, phase' = "align", prior' = 1, residues' = {0},
         UNCHANGED << decl, layouts >>, rejected = "none", rejected' = "none",
         idx' \in Nat \ {0}, idx' <= FieldCount + 1,
         \A i \in 1 .. idx' - 1 : Certified(i)
  PROVE  AlignInv'
<1>1. FieldCount' = FieldCount /\ Contents' = Contents /\ AllContents' = AllContents
  BY SameContents
<1>2. /\ \A i : Certified(i)' = Certified(i)
      /\ \A c, i, g : StartResidue(c, i, g)' = StartResidue(c, i, g)
  BY SameCertificates
<1>3. \A i \in 1 .. idx' - 1 : Certified(i)'
  BY <1>2
<1>4. ASSUME idx' <= FieldCount PROVE Collected' /\ Occurring'
  <2>1. idx' \in 1 .. FieldCount
    BY <1>4, AlignTypes
  <2>2. \A c \in AllContents : StartResidue(c, 1, idx') = 0
    BY <2>1, FirstResidue
  <2>3. \A c \in AllContents' : StartResidue(c, prior, idx)' = 0
    <3>1. \A c : StartResidue(c, prior, idx)' = StartResidue(c, 1, idx')
      BY SameContents DEF StartResidue
    <3>. QED
      BY <1>1, <2>2, <3>1
  <2>4. \E c \in Contents' : StartResidue(c, prior, idx)' = 0
    BY <1>1, <2>3, MostIsContents, SomeContents
  <2>. QED
    BY <2>3, <2>4 DEF Collected, Occurring
<1>5. prior' <= idx'
  OBVIOUS
<1>. QED
  BY <1>1, <1>3, <1>4, <1>5 DEF AlignInv, AlignmentRejectionJustified

\* The passes before: nothing is collected yet.
LEMMA AlignBefore ==
  ASSUME TypeInv, AlignInv, ParseArgs \/ ParseField \/ CheckStructOptions \/ AddPayload \/ SumsDone
  PROVE  AlignInv'
<1>1. /\ phase \in {"args", "fields", "sums"} /\ prior = 1 /\ residues = {0} /\ rejected = "none"
      /\ UNCHANGED << decl, prior, residues >>
  BY DEF AlignInv, ParseArgs, ParseField, CheckStructOptions, AddPayload, SumsDone, loopVars
<1>2. \/ phase' \in {"args", "fields", "sums"} /\ rejected' = "none"
      \/ phase' = "rejected" /\ rejected' # "alignment"
      \/ phase' = "align" /\ idx' = 1 /\ rejected' = "none" /\ layouts' = layouts
  <2>. USE DEF Enter, Reject
  <2>1. CASE ParseArgs \/ ParseField
    BY <1>1, <2>1 DEF ParseArgs, ParseField
  <2>2. CASE CheckStructOptions
    BY <1>1, <2>2 DEF CheckStructOptions
  <2>3. CASE AddPayload \/ SumsDone
    BY <1>1, <2>3 DEF AddPayload, SumsDone
  <2>. QED
    BY <2>1, <2>2, <2>3
<1>3. CASE phase' = "align" /\ idx' = 1 /\ rejected' = "none" /\ layouts' = layouts
  <2>1. idx' \in Nat \ {0} /\ idx' <= FieldCount + 1 /\ \A i \in 1 .. idx' - 1 : Certified(i)
    BY <1>3, AlignTypes
  <2>. QED
    BY <1>1, <1>3, <2>1, AlignNext
<1>4. CASE phase' \in {"args", "fields", "sums"} /\ rejected' = "none"
  BY <1>1, <1>4 DEF AlignInv, AlignmentRejectionJustified
<1>5. CASE phase' = "rejected" /\ rejected' # "alignment"
  BY <1>5 DEF AlignInv, AlignmentRejectionJustified
<1>. QED
  BY <1>2, <1>3, <1>4, <1>5

(* A field that needs no alignment.                                        *)
LEMMA AlignSkip ==
  ASSUME TypeInv, AlignInv, NeedsNoAlignment
  PROVE  AlignInv'
<1>1. /\ phase = "align" /\ idx \in 1 .. FieldCount /\ rejected = "none"
      /\ phase' = "align" /\ idx' = idx + 1 /\ prior' = 1 /\ residues' = {0}
      /\ UNCHANGED << decl, layouts, rejected >>
  BY AlignTypes DEF NeedsNoAlignment, NextAligned, FieldCount, AlignInv
<1>2. ArgsSupported
  BY <1>1 DEF TypeInv, ArgsChecked
<1>3. Certified(idx)
  <2>1. SUFFICES ASSUME NEW c \in AllContents, BorrowedMisaligned(c, idx) PROVE FALSE
    BY DEF Certified
  <2>2. Align(layouts[idx].kind) = 1
    BY <2>1 DEF BorrowedMisaligned, NeedsNoAlignment
  <2>3. FieldStarts(c)[idx] \in Nat /\ PayloadShift(layouts[idx]) \in Nat
    BY <1>1, AllStartTypes, AlignTypes
  <2>4. \A s \in LegalStarts : s \in Nat
    BY <1>2, LegalStartTypes
  <2>5. \A s \in LegalStarts : (s + FieldStarts(c)[idx] + PayloadShift(layouts[idx])) % 1 = 0
    BY <2>3, <2>4
  <2>. QED
    BY <2>1, <2>2, <2>5 DEF BorrowedMisaligned
<1>4. \A i \in 1 .. idx' - 1 : Certified(i)
  <2>1. \A i \in 1 .. idx' - 1 : i \in 1 .. idx - 1 \/ i = idx
    BY <1>1
  <2>. QED
    BY <1>1, <1>3, <2>1 DEF AlignInv
<1>5. idx' \in Nat \ {0} /\ idx' <= FieldCount + 1
  BY <1>1, AlignTypes
<1>. QED
  BY <1>1, <1>4, <1>5, AlignNext

(* A field is refused: some contents are misaligned at a legal address.    *)
LEMMA Refused ==
  ASSUME TypeInv, phase' = "rejected", UNCHANGED << decl, layouts, idx >>,
         \E c \in Contents : BorrowedMisaligned(c, idx)
  PROVE  AlignInv'
<1>1. Contents' = Contents /\ \A c : FieldStarts(c)' = FieldStarts(c)
  BY SameContents
<1>2. LegalStarts' = LegalStarts
  BY DEF LegalStarts
<1>3. \A c : BorrowedMisaligned(c, idx)' = BorrowedMisaligned(c, idx)
  BY <1>1, <1>2 DEF BorrowedMisaligned, Borrows, PayloadShift
<1>4. AlignmentRejectionJustified'
  BY <1>1, <1>3 DEF AlignmentRejectionJustified
<1>. QED
  BY <1>4 DEF AlignInv

\* A payload that no base alignment can align.
LEMMA AlignBeyond ==
  ASSUME TypeInv, AlignInv, AlignmentBeyondBase
  PROVE  AlignInv'
<1>. DEFINE l == layouts[idx]
            a == Align(l.kind)
            shift == PayloadShift(l)
            start == FieldStarts(Most)[idx]
<1>1. /\ phase = "align" /\ idx \in 1 .. FieldCount /\ rejected = "none"
      /\ Borrows(l) /\ a > (IF decl.buffer = Unaligned THEN 1 ELSE BaseAlign)
      /\ phase' = "rejected" /\ UNCHANGED << decl, layouts, idx >>
  BY AlignTypes DEF AlignmentBeyondBase, Reject, FieldCount, AlignInv
<1>2. ArgsSupported
  BY <1>1 DEF TypeInv, ArgsChecked
<1>3. a \in PrimitiveSizes /\ shift \in Nat
  BY <1>1, AlignTypes
<1>4. Most \in Contents /\ Most[idx] > 0 /\ start \in Nat
  BY <1>1, MostIsContents, StartTypes
<1>. HIDE DEF start, shift, a
<1>5. \E s \in LegalStarts : (s + start + shift) % a # 0
  <2>1. CASE decl.buffer = Unaligned
    <3>1. 0 \in LegalStarts /\ 1 \in LegalStarts
      BY <1>2, <2>1, LegalStartTypes
    <3>2. PICK x \in Nat : x = start + shift
      BY <1>3, <1>4
    <3>3. 0 + start + shift = x /\ 1 + start + shift = 1 + x
      BY <1>3, <1>4, <3>2
    <3>4. x % a # 0 \/ (1 + x) % a # 0
      BY <1>1, <1>3, <2>1, BaseNoMultiple
    <3>. QED
      BY <3>1, <3>3, <3>4
  <2>2. CASE decl.buffer # Unaligned
    <3>1. decl.buffer \in Nat /\ LegalStarts = {decl.buffer, decl.buffer + BaseAlign}
      BY <1>2, <2>2, LegalStartTypes
    <3>2. PICK x \in Nat : x = decl.buffer + start + shift
      BY <1>3, <1>4, <3>1
    <3>3. (decl.buffer + BaseAlign) + start + shift = BaseAlign + x
      BY <1>3, <1>4, <3>1, <3>2, BaseAlignAssumption
    <3>4. x % a # 0 \/ (BaseAlign + x) % a # 0
      BY <1>1, <1>3, <2>2, BaseNoMultiple, BaseAlignAssumption
    <3>. QED
      BY <3>1, <3>2, <3>3, <3>4
  <2>. QED
    BY <2>1, <2>2
<1>6. BorrowedMisaligned(Most, idx)
  BY <1>1, <1>4, <1>5 DEF BorrowedMisaligned, start, shift, a
<1>7. \E c \in Contents : BorrowedMisaligned(c, idx)
  BY <1>4, <1>6
<1>. QED
  BY <1>1, <1>7, Refused

(* One more field before the borrowed one: its residues are added.         *)
LEMMA AlignAdd ==
  ASSUME TypeInv, AlignInv, AddPossibleLen
  PROVE  AlignInv'
<1>. DEFINE m == Align(layouts[idx].kind)
            l == layouts[prior]
            possible == PossibleLenResidues(l, m)
<1>1. /\ phase = "align" /\ idx \in 1 .. FieldCount /\ prior \in 1 .. FieldCount /\ prior < idx
      /\ rejected = "none" /\ m <= BaseAlign
      /\ residues' = {(r + len) % m : r \in residues, len \in possible}
      /\ prior' = prior + 1 /\ UNCHANGED << decl, phase, idx, rejected, layouts >>
      /\ FieldCount \in Nat
  BY AlignTypes DEF AddPossibleLen, ResiduesApply, FieldCount, AlignInv
<1>2. m \in PrimitiveSizes /\ m \in Nat /\ l \in FieldLayout
  BY <1>1, AlignTypes DEF PrimitiveSizes
<1>3. Collected /\ (CountsSuffice => Occurring) /\ \A i \in 1 .. idx - 1 : Certified(i)
  BY <1>1 DEF AlignInv
<1>. HIDE DEF possible
<1>4. ASSUME NEW c \in AllContents
      PROVE  StartResidue(c, prior + 1, idx) =
               (StartResidue(c, prior, idx) + (EncodedFieldLen(l, c[prior]) % m)) % m
  <2>. DEFINE x == FieldStarts(c)[prior]
              y == EncodedFieldLen(l, c[prior])
  <2>1. x \in Nat /\ y \in Nat /\ FieldStarts(c)[prior + 1] = x + y
    BY <1>1, AllStartTypes
  <2>. HIDE DEF x, y
  <2>2. ((x % m) + (y % m)) % m = (x + y) % m
    BY <1>2, <2>1, ModAdd
  <2>. QED
    BY <2>1, <2>2 DEF StartResidue, x, y
<1>5. /\ Contents' = Contents /\ AllContents' = AllContents /\ FieldCount' = FieldCount
      /\ \A i : Certified(i)' = Certified(i)
      /\ \A c : StartResidue(c, prior, idx)' = StartResidue(c, prior + 1, idx)
  <2>1. \A c : StartResidue(c, prior, idx)' = StartResidue(c, prior + 1, idx)
    BY <1>1, SameContents DEF StartResidue
  <2>. QED
    BY <1>1, <2>1, SameContents, SameCertificates
<1>6. Collected'
  <2>1. ASSUME NEW c \in AllContents PROVE StartResidue(c, prior + 1, idx) \in residues'
    <3>1. StartResidue(c, prior, idx) \in residues
      BY <1>3 DEF Collected
    <3>2. EncodedFieldLen(l, c[prior]) % m \in possible
      BY <1>1, <1>2, AllContentsTypes, ResiduesComplete DEF possible
    <3>. QED
      BY <1>1, <1>4, <3>1, <3>2
  <2>. QED
    BY <1>5, <2>1 DEF Collected
<1>7. ASSUME CountsSuffice PROVE Occurring'
  <2>1. ASSUME NEW z \in residues' PROVE \E c \in Contents : z = StartResidue(c, prior + 1, idx)
    <3>1. PICK r \in residues, len \in possible : z = (r + len) % m
      BY <1>1
    <3>2. PICK c \in Contents : r = StartResidue(c, prior, idx)
      BY <1>3, <1>7 DEF Occurring
    <3>3. m - 1 <= MaxCount
      BY <1>1, <1>2, <1>7, BaseAlignAssumption, MaxCountAssumption DEF CountsSuffice
    <3>4. PICK k \in Counts(l) : len = EncodedFieldLen(l, k) % m
      BY <1>2, <3>3, ResiduesOccur DEF possible
    <3>5. PICK d : d = [c EXCEPT ![prior] = k]
      OBVIOUS
    <3>6. d \in Contents /\ d[prior] = k /\ FieldStarts(d)[prior] = FieldStarts(c)[prior]
      <4>1. /\ prior \in 1 .. FieldCount /\ k \in Counts(layouts[prior]) /\ c \in Contents
            /\ prior \in 1 .. prior
        BY <1>1
      <4>2. /\ [c EXCEPT ![prior] = k] \in Contents /\ [c EXCEPT ![prior] = k][prior] = k
            /\ FieldStarts([c EXCEPT ![prior] = k])[prior] = FieldStarts(c)[prior]
        BY ONLY TypeInv, <4>1, ContentsReplace
      <4>. QED
        BY ONLY <3>5, <4>2
    <3>7. StartResidue(d, prior, idx) = r
      BY <3>2, <3>6 DEF StartResidue
    <3>8. z = StartResidue(d, prior + 1, idx)
      BY <1>4, <3>1, <3>4, <3>6, <3>7, SomeContents
    <3>. QED
      BY <3>6, <3>8
  <2>. QED
    BY <1>5, <2>1 DEF Occurring
<1>8. prior' <= idx' /\ idx' <= FieldCount' + 1
  BY <1>1, <1>5, AlignTypes
<1>9. \A i \in 1 .. idx' - 1 : Certified(i)'
  BY <1>1, <1>3, <1>5
<1>. QED
  BY <1>1, <1>6, <1>7, <1>8, <1>9 DEF AlignInv, AlignmentRejectionJustified

(* All residues are in: the field starts where its alignment asks, or it is*)
(* refused with contents that show why.                                    *)
LEMMA AlignCheck ==
  ASSUME TypeInv, AlignInv, CheckResidues
  PROVE  AlignInv'
<1>. DEFINE l == layouts[idx]
            m == Align(l.kind)
            shift == PayloadShift(l)
            by == decl.buffer + shift
            aligned == {(r + by) % m : r \in residues}
<1>1. /\ phase = "align" /\ idx \in 1 .. FieldCount /\ prior = idx /\ rejected = "none"
      /\ decl.buffer # Unaligned /\ Borrows(l) /\ m <= BaseAlign
      /\ UNCHANGED << decl, layouts >>
      /\ IF aligned = {0} THEN NextAligned /\ UNCHANGED << phase, rejected >>
                          ELSE phase' = "rejected" /\ UNCHANGED idx
  <2>1. ResiduesApply /\ prior = idx /\ UNCHANGED << decl, layouts >>
    BY DEF CheckResidues
  <2>2. ShiftResidues(residues, by, m) = aligned
    BY DEF ShiftResidues
  <2>3. IF aligned = {0} THEN NextAligned /\ UNCHANGED << phase, rejected >>
                         ELSE Reject("alignment") /\ UNCHANGED idx
    BY <2>2 DEF CheckResidues
  <2>. HIDE DEF aligned
  <2>4. IF aligned = {0} THEN NextAligned /\ UNCHANGED << phase, rejected >>
                         ELSE phase' = "rejected" /\ UNCHANGED idx
    BY <2>3 DEF Reject
  <2>5. phase = "align" /\ idx \in 1 .. FieldCount /\ rejected = "none"
    BY <2>1, AlignTypes DEF ResiduesApply, FieldCount, AlignInv
  <2>. QED
    BY <2>1, <2>4, <2>5 DEF ResiduesApply
<1>2. decl.buffer \in Nat /\ LegalStarts = {decl.buffer, decl.buffer + BaseAlign}
  <2>1. ArgsSupported
    BY <1>1 DEF TypeInv, ArgsChecked
  <2>. QED
    BY <1>1, <2>1, LegalStartTypes
<1>3. m \in PrimitiveSizes /\ shift \in Nat /\ by \in Nat
  BY <1>1, <1>2, AlignTypes
<1>4. Collected /\ (CountsSuffice => Occurring) /\ \A i \in 1 .. idx - 1 : Certified(i)
  BY <1>1 DEF AlignInv
<1>5. ASSUME NEW c \in AllContents
      PROVE  /\ FieldStarts(c)[idx] \in Nat
             /\ (StartResidue(c, idx, idx) + by) % m = (decl.buffer + FieldStarts(c)[idx] + shift) % m
  <2>1. FieldStarts(c)[idx] \in Nat
    BY <1>1, AllStartTypes
  <2>2. PICK x \in Nat : x = FieldStarts(c)[idx]
    BY <2>1
  <2>3. StartResidue(c, idx, idx) = x % m
    BY <2>2 DEF StartResidue
  <2>. HIDE DEF m, shift, by
  <2>4. ((x % m) + by) % m = (x + by) % m
    BY ONLY <1>3, ModAdd
  <2>5. x + by = decl.buffer + x + shift
    BY <1>2, <1>3 DEF by
  <2>. QED
    BY <2>1, <2>2, <2>3, <2>4, <2>5
<1>. HIDE DEF m, shift, by, aligned
<1>6. CASE aligned = {0}
  <2>1. ASSUME NEW c \in AllContents, NEW s \in LegalStarts
        PROVE  (s + FieldStarts(c)[idx] + shift) % m = 0
    <3>1. StartResidue(c, idx, idx) \in residues
      BY <1>1, <1>4 DEF Collected
    <3>2. (StartResidue(c, idx, idx) + by) % m = 0
      BY <1>6, <3>1 DEF aligned
    <3>3. PICK x \in Nat : x = decl.buffer + FieldStarts(c)[idx] + shift
      BY <1>2, <1>3, <1>5
    <3>4. x % m = 0
      BY <1>5, <3>2, <3>3
    <3>5. (BaseAlign + x) % m = 0
      BY <1>1, <1>3, <3>4, BaseMultiple, BaseAlignAssumption
    <3>6. (decl.buffer + BaseAlign) + FieldStarts(c)[idx] + shift = BaseAlign + x
      BY <1>2, <1>3, <1>5, <3>3, BaseAlignAssumption
    <3>. QED
      BY <1>2, <3>3, <3>4, <3>5, <3>6
  <2>2. Certified(idx)
    BY <2>1 DEF Certified, BorrowedMisaligned, m, shift
  <2>3. /\ phase' = "align" /\ idx' = idx + 1 /\ prior' = 1 /\ residues' = {0} /\ rejected' = "none"
    BY <1>1, <1>6 DEF NextAligned
  <2>4. \A i \in 1 .. idx' - 1 : Certified(i)
    <3>1. \A i \in 1 .. idx' - 1 : i \in 1 .. idx - 1 \/ i = idx
      BY <1>1, <2>3
    <3>. QED
      BY <1>4, <2>2, <3>1
  <2>5. idx' \in Nat \ {0} /\ idx' <= FieldCount + 1
    BY <1>1, <2>3, AlignTypes
  <2>. QED
    BY <1>1, <2>3, <2>4, <2>5, AlignNext
<1>7. CASE aligned # {0} /\ ~CountsSuffice
  <2>1. phase' = "rejected" /\ ~CountsSuffice'
    BY <1>1, <1>7 DEF CountsSuffice
  <2>. QED
    BY <2>1 DEF AlignInv
<1>8. CASE aligned # {0} /\ CountsSuffice
  <2>1. PICK r \in residues : (r + by) % m # 0
    <3>1. StartResidue(Most, idx, idx) \in residues
      BY <1>1, <1>4, MostIsContents, SomeContents DEF Collected
    <3>. QED
      BY <1>8, <3>1 DEF aligned
  <2>2. PICK c \in Contents : r = StartResidue(c, idx, idx)
    BY <1>1, <1>4, <1>8 DEF Occurring
  <2>3. PICK k \in Counts(layouts[idx]) : k > 0
    BY <1>1, MostIsContents
  <2>4. PICK d : d = [c EXCEPT ![idx] = k]
    OBVIOUS
  <2>5. d \in Contents /\ d[idx] = k /\ FieldStarts(d)[idx] = FieldStarts(c)[idx]
    <3>1. idx \in 1 .. FieldCount /\ idx \in 1 .. idx
      BY <1>1
    <3>2. /\ [c EXCEPT ![idx] = k] \in Contents /\ [c EXCEPT ![idx] = k][idx] = k
          /\ FieldStarts([c EXCEPT ![idx] = k])[idx] = FieldStarts(c)[idx]
      BY ONLY TypeInv, c \in Contents, k \in Counts(layouts[idx]), <3>1, ContentsReplace
    <3>. QED
      BY ONLY <2>4, <3>2
  <2>6. (decl.buffer + FieldStarts(d)[idx] + shift) % m # 0
    BY <1>5, <2>1, <2>2, <2>5, SomeContents
  <2>7. BorrowedMisaligned(d, idx)
    BY <1>1, <1>2, <2>3, <2>5, <2>6 DEF BorrowedMisaligned, m, shift
  <2>8. \E e \in Contents : BorrowedMisaligned(e, idx)
    BY <2>5, <2>7
  <2>9. phase' = "rejected" /\ UNCHANGED << decl, layouts, idx >>
    BY <1>1, <1>8
  <2>. QED
    BY <2>8, <2>9, Refused
<1>. QED
  BY <1>6, <1>7, <1>8

(* The passes after: what is certified stays so.                           *)
LEMMA AlignAfter ==
  ASSUME TypeInv, AlignInv, AlignmentDone \/ EmitField \/ EmitDone
  PROVE  AlignInv'
<1>1. /\ phase \in {"align", "emit"} /\ phase' \in {"emit", "emitted"}
      /\ phase = "align" => idx > FieldCount
      /\ rejected = "none" /\ UNCHANGED << decl, layouts, rejected >>
  BY DEF AlignInv, AlignmentDone, EmitField, EmitDone, Enter, FieldCount
<1>2. \A i \in 1 .. FieldCount : Certified(i)
  <2>1. phase = "align" => \A i \in 1 .. FieldCount : i \in 1 .. idx - 1
    BY <1>1, AlignTypes
  <2>. QED
    BY <1>1, <2>1 DEF AlignInv
<1>3. FieldCount' = FieldCount /\ \A i : Certified(i)' = Certified(i)
  BY <1>1, SameContents, SameCertificates
<1>. QED
  BY <1>1, <1>2, <1>3 DEF AlignInv, AlignmentRejectionJustified

LEMMA StepAlign ==
  ASSUME TypeInv, AlignInv, ExpandNext
  PROVE  AlignInv'
BY AlignBefore, AlignSkip, AlignBeyond, AlignAdd, AlignCheck, AlignAfter DEF ExpandNext

LEMMA StutterAlign ==
  ASSUME AlignInv, UNCHANGED expandVars
  PROVE  AlignInv'
<1>1. UNCHANGED << decl, layouts, phase, idx, prior, residues, rejected >>
  BY DEF expandVars
<1>2. FieldCount' = FieldCount /\ Contents' = Contents /\ AllContents' = AllContents
  BY <1>1, SameContents
<1>3. /\ \A i : Certified(i)' = Certified(i)
      /\ \A c : StartResidue(c, prior, idx)' = StartResidue(c, prior, idx)
  <2>1. \A c : StartResidue(c, prior, idx)' = StartResidue(c, prior, idx)
    BY <1>1, SameContents DEF StartResidue
  <2>. QED
    BY <1>1, <2>1, SameCertificates
<1>4. Collected' = Collected /\ Occurring' = Occurring
  BY <1>1, <1>2, <1>3 DEF Collected, Occurring
<1>5. AlignmentRejectionJustified' = AlignmentRejectionJustified
  <2>1. LegalStarts' = LegalStarts
    BY <1>1 DEF LegalStarts
  <2>2. \A c : BorrowedMisaligned(c, idx)' = BorrowedMisaligned(c, idx)
    BY <1>1, <2>1, SameContents DEF BorrowedMisaligned, Borrows, PayloadShift
  <2>. QED
    BY <1>1, <1>2, <2>2 DEF AlignmentRejectionJustified
<1>6. CountsSuffice' = CountsSuffice
  BY DEF CountsSuffice
<1>. QED
  BY <1>1, <1>2, <1>3, <1>4, <1>5, <1>6 DEF AlignInv

LEMMA AlignInvariant == ExpandSpec => [](TypeInv /\ AlignInv)
<1>1. ExpandInit => TypeInv /\ AlignInv
  <2>1. ExpandInit => AlignInv
    BY DEF ExpandInit, AlignInv, AlignmentRejectionJustified
  <2>. QED
    BY <2>1, InitTypes
<1>2. TypeInv /\ AlignInv /\ [ExpandNext \/ ExpandStopped]_expandVars => (TypeInv /\ AlignInv)'
  <2>. SUFFICES ASSUME TypeInv, AlignInv, [ExpandNext \/ ExpandStopped]_expandVars
                PROVE  (TypeInv /\ AlignInv)'
    OBVIOUS
  <2>1. CASE ExpandNext
    BY <2>1, StepTypes, StepAlign
  <2>2. CASE UNCHANGED expandVars
    BY <2>2, StutterTypes, StutterAlign
  <2>. QED
    BY <2>1, <2>2 DEF ExpandStopped
<1>. QED
  BY <1>1, <1>2, PTL DEF ExpandSpec

(* A struct the macro accepts never hands out a misaligned reference, with *)
(* any contents, at any legal address of the buffer: the certificate       *)
(* validate_borrowed_field_alignment computes from residues is sound.      *)
THEOREM AlignmentCertified == ExpandSpec => []AlignmentGuaranteed
<1>1. TypeInv /\ AlignInv => AlignmentGuaranteed
  BY SomeContents DEF AlignInv, AlignmentGuaranteed, Certified
<1>. QED
  BY <1>1, AlignInvariant, PTL

(* And it is not pessimistic: a struct refused for its alignment has       *)
(* contents that would be misaligned.  A Vec has to be given as many       *)
(* elements as residues repeat after.                                      *)
THEOREM AlignmentRejectionReal ==
  ASSUME CountsSuffice
  PROVE  ExpandSpec => []AlignmentRejectionJustified
<1>1. TypeInv /\ AlignInv => AlignmentRejectionJustified
  BY DEF AlignInv
<1>. QED
  BY <1>1, AlignInvariant, PTL

-----------------------------------------------------------------------------
(* The offsets, against the encodings.  A fixed offset is where the field  *)
(* starts whatever the struct holds, and an offset is variable only after  *)
(* a field that is.                                                        *)

AfterVariable(i) == offsets[i - 1] = Variable \/ ~IsFixed(layouts[i - 1])

TailInv ==
  /\ phase # "rejected" => \A i \in 2 .. Len(offsets) : offsets[i] = Variable => AfterVariable(i)
  /\ phase = "emit" /\ seenVariable => AfterVariable(idx)

LEMMA EmitTail ==
  ASSUME TypeInv, OffsetsInv, TailInv, EmitField
  PROVE  TailInv'
<1>. DEFINE l == layouts[idx]
            o == IF seenVariable THEN Variable ELSE offset
<1>1. /\ phase = "emit" /\ idx \in 1 .. FieldCount /\ Len(offsets) = idx - 1
      /\ offsets \in Seq(Nat \cup {Variable}) /\ offset \in Nat
      /\ seenVariable => idx > 1
  BY DEF TypeInv, ExpandTypeOK, OffsetsInv, EmitField, FieldCount
<1>2. /\ offsets' = Append(offsets, o) /\ seenVariable' = (seenVariable \/ ~IsFixed(l))
      /\ idx' = idx + 1 /\ phase' = "emit" /\ layouts' = layouts
  BY DEF EmitField, FieldCount
<1>3. o = Variable <=> seenVariable
  BY <1>1 DEF Variable
<1>4. /\ Len(offsets') = idx /\ offsets'[idx] = o
      /\ \A k \in 1 .. idx - 1 : offsets'[k] = offsets[k]
  <2>. HIDE DEF o, l
  <2>. QED
    BY <1>1, <1>2
<1>. HIDE DEF o
<1>5. ASSUME NEW i \in 2 .. idx, offsets'[i] = Variable
      PROVE  offsets'[i - 1] = Variable \/ ~IsFixed(layouts[i - 1])
  <2>1. CASE i < idx
    BY <1>1, <1>4, <1>5, <2>1 DEF TailInv, AfterVariable
  <2>2. CASE i = idx
    <3>1. seenVariable
      BY <1>3, <1>4, <1>5, <2>2
    <3>2. i - 1 \in 1 .. idx - 1
      BY <1>1, <2>2
    <3>. QED
      BY <1>1, <1>4, <2>2, <3>1, <3>2 DEF TailInv, AfterVariable
  <2>. QED
    BY <1>1, <2>1, <2>2
<1>6. seenVariable' => offsets'[idx' - 1] = Variable \/ ~IsFixed(layouts[idx' - 1])
  <2>1. idx' - 1 = idx
    BY <1>1, <1>2
  <2>. QED
    BY <1>2, <1>3, <1>4, <2>1
<1>. QED
  BY <1>2, <1>4, <1>5, <1>6 DEF TailInv, AfterVariable, IsFixed

LEMMA StepTail ==
  ASSUME TypeInv, OffsetsInv, TailInv, ExpandNext
  PROVE  TailInv'
<1>1. CASE EmitField
  BY <1>1, EmitTail
<1>2. CASE EmitDone
  <2>1. phase = "emit" /\ phase' = "emitted" /\ UNCHANGED << offsets, layouts >>
    BY <1>2 DEF EmitDone, Enter, emitVars
  <2>. QED
    BY <2>1 DEF TailInv, AfterVariable
<1>3. CASE ~EmitField /\ ~EmitDone
  <2>1. /\ phase \in {"args", "fields", "sums", "align"}
        /\ UNCHANGED << offsets, offset, seenVariable >>
    BY <1>3 DEF ExpandNext, ParseArgs, ParseField, CheckStructOptions, AddPayload, SumsDone,
                NeedsNoAlignment, AlignmentBeyondBase, AddPossibleLen, CheckResidues,
                AlignmentDone, ResiduesApply, emitVars
  <2>2. offsets' = << >> /\ ~seenVariable'
    BY <2>1 DEF OffsetsInv
  <2>. QED
    BY <2>2 DEF TailInv
<1>. QED
  BY <1>1, <1>2, <1>3

LEMMA StutterTail == TailInv /\ UNCHANGED expandVars => TailInv'
  BY DEF TailInv, AfterVariable, IsFixed, expandVars

LEMMA TailInvariant == ExpandSpec => [](TypeInv /\ OffsetsInv /\ TailInv)
<1>1. ExpandInit => TypeInv /\ OffsetsInv /\ TailInv
  <2>1. ExpandInit => TailInv
    BY DEF ExpandInit, TailInv
  <2>. QED
    BY <2>1, InitTypes, InitOffsets
<1>2. TypeInv /\ OffsetsInv /\ TailInv /\ [ExpandNext \/ ExpandStopped]_expandVars
        => (TypeInv /\ OffsetsInv /\ TailInv)'
  <2>. SUFFICES ASSUME TypeInv, OffsetsInv, TailInv, [ExpandNext \/ ExpandStopped]_expandVars
                PROVE  (TypeInv /\ OffsetsInv /\ TailInv)'
    OBVIOUS
  <2>1. CASE ExpandNext
    BY <2>1, StepTypes, StepOffsets, StepTail
  <2>2. CASE UNCHANGED expandVars
    BY <2>2, StutterTypes, StutterOffsets, StutterTail
  <2>. QED
    BY <2>1, <2>2 DEF ExpandStopped
<1>. QED
  BY <1>1, <1>2, PTL DEF ExpandSpec

\* The fields of a fixed offset start there, in all contents.
LEMMA FixedStarts ==
  ASSUME TypeInv, OffsetsInv, phase = "emitted", NEW c \in Contents
  PROVE  \A i \in 1 .. FieldCount : offsets[i] # Variable => FieldStarts(c)[i] = offsets[i]
<1>. DEFINE w == FieldStarts(c)
            S == {i \in 1 .. FieldCount : offsets[i] # Variable => w[i] = offsets[i]}
<1>1. Len(offsets) = FieldCount /\ FieldCount \in Nat
  BY AlignTypes DEF OffsetsInv
<1>2. w[1] = 0 /\ \A i \in 1 .. FieldCount : w[i + 1] = w[i] + EncodedFieldLen(layouts[i], c[i])
  BY StartsEquation, SomeContents
<1>. HIDE DEF w
<1>3. 1 \in S \/ FieldCount = 0
  <2>1. FieldCount > 0 => offsets # << >>
    BY <1>1
  <2>2. FieldCount > 0 => offsets[1] = 0
    BY <2>1 DEF OffsetsInv
  <2>. QED
    BY <1>1, <1>2, <2>2
<1>4. ASSUME NEW i \in 1 .. FieldCount, i \in S, i < FieldCount PROVE i + 1 \in S
  <2>1. i + 1 \in 2 .. Len(offsets) /\ i + 1 - 1 = i /\ i + 1 \in 1 .. FieldCount
    BY <1>1, <1>4
  <2>2. offsets[i + 1] # Variable =>
          /\ offsets[i] # Variable /\ IsFixed(layouts[i])
          /\ offsets[i + 1] = offsets[i] + Size(layouts[i].kind)
    BY <2>1 DEF OffsetsInv
  <2>3. IsFixed(layouts[i]) => EncodedFieldLen(layouts[i], c[i]) = Size(layouts[i].kind)
    BY DEF IsFixed, EncodedFieldLen
  <2>. QED
    BY <1>2, <1>4, <2>1, <2>2, <2>3
<1>5. 1 .. FieldCount \subseteq S
  <2>. HIDE DEF S
  <2>. QED
    BY <1>1, <1>3, <1>4, UpToInduction
<1>. QED
  BY <1>5 DEF w

-----------------------------------------------------------------------------
(* The lengths, against the encodings.  The bounds the loop has added up   *)
(* are where the next field starts in the emptiest and in the fullest      *)
(* contents, and the exact lengths where it starts in all of them.         *)

\* The emptiest contents: no option is present, every Vec is empty.
Fewest == [i \in 1 .. FieldCount |-> IF layouts[i].shape = "plain" THEN 1 ELSE 0]

LEMMA FewestIsContents ==
  ASSUME TypeInv
  PROVE  Fewest \in Contents
<1>. DEFINE few == Fewest
<1>1. few = [i \in 1 .. FieldCount |-> few[i]]
  BY DEF Fewest
<1>2. ASSUME NEW i \in 1 .. FieldCount PROVE few[i] \in Counts(layouts[i])
  <2>1. layouts[i] \in FieldLayout
    BY AlignTypes
  <2>2. Capacity(layouts[i].width) \in Nat
    BY <2>1, CapacityType DEF FieldLayout
  <2>3. few[i] = IF layouts[i].shape = "plain" THEN 1 ELSE 0
    BY DEF Fewest
  <2>. QED
    BY <2>2, <2>3, MaxCountAssumption DEF Counts
<1>. HIDE DEF few
<1>3. few \in Contents
  BY <1>1, <1>2, ContentsOf
<1>. QED
  BY <1>3 DEF few

(* The three lengths of one field are those of its encodings.              *)
LEMMA SlotLensExact ==
  ASSUME NEW l \in FieldLayout, NEW k \in AllCounts(l)
  PROVE  /\ SlotMinLen(l) = EncodedFieldLen(l, IF l.shape = "plain" THEN 1 ELSE 0)
         /\ SlotMaxLen(l) = EncodedFieldLen(l, IF l.shape = "vec" THEN Capacity(l.width) ELSE 1)
         /\ SlotMinLen(l) <= EncodedFieldLen(l, k) /\ EncodedFieldLen(l, k) <= SlotMaxLen(l)
<1>. DEFINE size == Size(l.kind)
            cap == Capacity(l.width)
<1>1. /\ l.shape \in {"plain", "tagged", "implicit", "vec"} /\ l.width \in Nat
      /\ l.width \in 0 .. MaxLenWidth /\ l.kind \in FixedValueKind
  BY DEF FieldLayout, MaxLenWidth
<1>2. size \in Nat /\ cap \in Nat
  BY <1>1, KindTypes, CapacityType
<1>3. /\ k \in Nat
      /\ l.shape = "plain" => k = 1
      /\ l.shape = "vec" => k <= cap
      /\ l.shape \in {"tagged", "implicit"} => k \in {0, 1}
  BY CountTypes, SomeCounts
<1>4. CASE l.shape = "vec"
  <2>1. PICK w \in Nat : w = l.width
    BY <1>1
  <2>2. /\ SlotMinLen(l) = w /\ SlotMaxLen(l) = w + size * cap
        /\ \A j : EncodedFieldLen(l, j) = w + j * size
    BY <1>4, <2>1 DEF SlotMinLen, SlotMaxLen, EncodedFieldLen
  <2>. HIDE DEF size, cap
  <2>3. 0 * size = 0
    BY <1>2
  <2>4. size * cap = cap * size
    BY <1>2
  <2>5. \A a, b, s \in Nat : a <= b => a * s <= b * s
    OBVIOUS
  <2>6. PICK x \in Nat : x = k * size
    BY <1>2, <1>3
  <2>7. PICK y \in Nat : y = cap * size
    BY <1>2
  <2>8. x <= y
    BY <1>2, <1>3, <1>4, <2>5, <2>6, <2>7
  <2>. QED
    BY <1>4, <2>1, <2>2, <2>3, <2>4, <2>6, <2>7, <2>8 DEF cap
<1>5. CASE l.shape # "vec"
  BY <1>1, <1>2, <1>3, <1>5 DEF SlotMinLen, SlotMaxLen, EncodedFieldLen
<1>. QED
  BY <1>4, <1>5

LEMMA SlotLensAll ==
  ASSUME NEW l \in FieldLayout, l.shape # "vec"
  PROVE  SlotLens(l) = {EncodedFieldLen(l, k) : k \in Counts(l)}
<1>1. l.shape \in {"plain", "tagged", "implicit", "vec"}
  BY DEF FieldLayout
<1>2. CASE l.shape = "plain"
  BY <1>2 DEF SlotLens, EncodedFieldLen, Counts
<1>3. CASE l.shape = "tagged"
  <2>1. Counts(l) = {0, 1} /\ SlotLens(l) = {1, 1 + Size(l.kind)}
    BY <1>3 DEF SlotLens, Counts
  <2>2. EncodedFieldLen(l, 0) = 1 /\ EncodedFieldLen(l, 1) = 1 + Size(l.kind)
    BY <1>3 DEF EncodedFieldLen
  <2>. QED
    BY <2>1, <2>2
<1>4. CASE l.shape = "implicit"
  <2>1. Counts(l) = {0, 1} /\ SlotLens(l) = {0, Size(l.kind)}
    BY <1>4 DEF SlotLens, Counts
  <2>2. EncodedFieldLen(l, 0) = 0 /\ EncodedFieldLen(l, 1) = Size(l.kind)
    BY <1>4 DEF EncodedFieldLen
  <2>. QED
    BY <2>1, <2>2
<1>. QED
  BY <1>1, <1>2, <1>3, <1>4

(* Behind a field whose values take bytes, a field starts earlier in the   *)
(* emptiest contents than in the fullest.                                  *)
LEMMA StartsSpread ==
  ASSUME TypeInv, NEW b \in 1 .. FieldCount, ~IsFixed(layouts[b]), Size(layouts[b].kind) > 0
  PROVE  \A i \in b + 1 .. FieldCount : FieldStarts(Fewest)[i] # FieldStarts(Most)[i]
<1>. DEFINE few == FieldStarts(Fewest)
            most == FieldStarts(Most)
            Apart(j) == few[j] <= most[j] /\ (j > b => few[j] < most[j])
            S == {j \in 1 .. FieldCount : Apart(j)}
<1>1. Fewest \in Contents /\ Most \in Contents /\ FieldCount \in Nat
  BY FewestIsContents, MostIsContents, AlignTypes
<1>2. few[1] = 0 /\ most[1] = 0
  BY <1>1, StartsEquation, SomeContents
<1>3. \A j \in 1 .. FieldCount :
        /\ few[j] \in Nat /\ few[j + 1] = few[j] + EncodedFieldLen(layouts[j], Fewest[j])
        /\ most[j] \in Nat /\ most[j + 1] = most[j] + EncodedFieldLen(layouts[j], Most[j])
  BY <1>1, StartTypes
<1>4. ASSUME NEW j \in 1 .. FieldCount
      PROVE  /\ EncodedFieldLen(layouts[j], Fewest[j]) = SlotMinLen(layouts[j])
             /\ EncodedFieldLen(layouts[j], Most[j]) = SlotMaxLen(layouts[j])
             /\ SlotMinLen(layouts[j]) \in Nat /\ SlotMaxLen(layouts[j]) \in Nat
             /\ SlotMinLen(layouts[j]) <= SlotMaxLen(layouts[j])
  <2>1. layouts[j] \in FieldLayout /\ Fewest[j] \in Counts(layouts[j])
    BY <1>1, ContentsTypes
  <2>2. /\ Fewest[j] = (IF layouts[j].shape = "plain" THEN 1 ELSE 0)
        /\ Most[j] = (IF layouts[j].shape = "vec" THEN Capacity(layouts[j].width) ELSE 1)
    BY DEF Fewest, Most
  <2>3. /\ EncodedFieldLen(layouts[j], Fewest[j]) = SlotMinLen(layouts[j])
        /\ EncodedFieldLen(layouts[j], Most[j]) = SlotMaxLen(layouts[j])
        /\ SlotMinLen(layouts[j]) <= EncodedFieldLen(layouts[j], Fewest[j])
        /\ EncodedFieldLen(layouts[j], Fewest[j]) <= SlotMaxLen(layouts[j])
    BY <2>1, <2>2, SlotLensExact, SomeCounts
  <2>. QED
    BY <2>1, <2>3, SlotLenTypes
<1>5. SlotMinLen(layouts[b]) < SlotMaxLen(layouts[b])
  <2>. DEFINE l == layouts[b]
  <2>1. l \in FieldLayout
    BY AlignTypes
  <2>2. /\ l.shape \in {"tagged", "implicit", "vec"} /\ l.width \in Nat
        /\ l.width \in 0 .. MaxLenWidth /\ l.kind \in FixedValueKind
    BY <2>1 DEF FieldLayout, IsFixed, MaxLenWidth
  <2>3. Size(l.kind) \in Nat /\ Capacity(l.width) \in Nat /\ Capacity(l.width) >= 1
    BY <2>2, KindTypes, CapacityType
  <2>. HIDE DEF l
  <2>4. Size(l.kind) * Capacity(l.width) > 0
    <3>1. \A x, y \in Nat : x > 0 /\ y >= 1 => x * y > 0
      OBVIOUS
    <3>2. Size(l.kind) > 0
      BY DEF l
    <3>. QED
      BY <2>3, <3>1, <3>2
  <2>5. SlotMinLen(l) < SlotMaxLen(l)
    BY <2>2, <2>3, <2>4 DEF SlotMinLen, SlotMaxLen, l
  <2>. QED
    BY <2>5 DEF l
<1>. HIDE DEF few, most
<1>6. 1 \in S \/ FieldCount = 0
  BY <1>1, <1>2
<1>7. ASSUME NEW j \in 1 .. FieldCount, j \in S, j < FieldCount PROVE j + 1 \in S
  <2>1. j + 1 \in 1 .. FieldCount
    BY <1>1, <1>7
  <2>2. Apart(j)
    BY <1>7
  <2>3. j + 1 > b => j > b \/ j = b
    OBVIOUS
  <2>4. PICK m, n \in Nat : m = SlotMinLen(layouts[j]) /\ n = SlotMaxLen(layouts[j]) /\ m <= n
    BY <1>4
  <2>5. /\ few[j] \in Nat /\ most[j] \in Nat
        /\ few[j + 1] = few[j] + m /\ most[j + 1] = most[j] + n
    BY <1>3, <1>4, <2>4
  <2>6. j = b => m < n
    BY <1>5, <2>4
  <2>. QED
    BY <2>1, <2>2, <2>3, <2>4, <2>5, <2>6
<1>8. 1 .. FieldCount \subseteq S
  <2>. HIDE DEF S
  <2>. QED
    BY <1>1, <1>6, <1>7, UpToInduction
<1>9. ASSUME NEW i \in b + 1 .. FieldCount PROVE few[i] # most[i]
  <2>1. i \in 1 .. FieldCount /\ i > b
    BY <1>1
  <2>2. few[i] < most[i] /\ few[i] \in Nat /\ most[i] \in Nat
    BY <1>3, <1>8, <2>1
  <2>. QED
    BY <2>2
<1>. QED
  BY <1>9 DEF few, most

(* A getter may start from its field's fixed offset in every encoding;     *)
(* find_data_offset walks from the first variable-sized field, and only to *)
(* fields that do not start in one place: the offset constants are those   *)
(* of encoded_len, whatever the struct holds.                              *)
THEOREM FixedOffsetsAreExact == ExpandSpec => []FixedOffsetsExact
<1>1. ASSUME TypeInv, OffsetsInv, TailInv PROVE FixedOffsetsExact
  <2>. SUFFICES ASSUME phase = "emitted", NEW i \in 1 .. FieldCount
                PROVE  IF offsets[i] # Variable
                       THEN \A c \in Contents : FieldStarts(c)[i] = offsets[i]
                       ELSE \E b \in 1 .. i - 1 :
                              /\ offsets[b] # Variable /\ ~IsFixed(layouts[b])
                              /\ \A k \in b + 1 .. i : offsets[k] = Variable
                              /\ Size(layouts[b].kind) > 0 =>
                                   \E c, d \in Contents : FieldStarts(c)[i] # FieldStarts(d)[i]
    BY DEF FixedOffsetsExact
  <2>1. CASE offsets[i] # Variable
    BY <1>1, <2>1, FixedStarts
  <2>2. CASE offsets[i] = Variable
    <3>1. Len(offsets) = FieldCount /\ FieldCount \in Nat
      BY <1>1, AlignTypes DEF OffsetsInv
    <3>2. PICK b \in 1 .. i : WalkStart(b, i)
      BY <1>1, <3>1 DEF OffsetsInv
    <3>3. b # i
      BY <2>2, <3>2 DEF WalkStart
    <3>4. b \in 1 .. i - 1 /\ b + 1 \in 2 .. Len(offsets) /\ b + 1 \in b + 1 .. i /\ b + 1 - 1 = b
      BY <3>1, <3>3
    <3>5. offsets[b + 1] = Variable /\ offsets[b] # Variable
      BY <3>2, <3>4 DEF WalkStart
    <3>6. ~IsFixed(layouts[b])
      BY <1>1, <3>4, <3>5 DEF TailInv, AfterVariable
    <3>7. Size(layouts[b].kind) > 0 =>
            \E c, d \in Contents : FieldStarts(c)[i] # FieldStarts(d)[i]
      <4>1. b \in 1 .. FieldCount /\ i \in b + 1 .. FieldCount
        BY <3>1, <3>4
      <4>2. Size(layouts[b].kind) > 0 => FieldStarts(Fewest)[i] # FieldStarts(Most)[i]
        BY <1>1, <3>6, <4>1, StartsSpread
      <4>. QED
        BY <1>1, <4>2, FewestIsContents, MostIsContents
    <3>8. \A k \in b + 1 .. i : offsets[k] = Variable
      BY <3>2 DEF WalkStart
    <3>. QED
      BY <2>2, <3>4, <3>5, <3>6, <3>7, <3>8
  <2>. QED
    BY <2>1, <2>2
<1>. QED
  BY <1>1, TailInvariant, PTL

\* Where field i starts, over all contents.
StartsOf(i) == {FieldStarts(c)[i] : c \in Contents}

Bounded(i) ==
  /\ minLen = FieldStarts(Fewest)[i] /\ maxLen = FieldStarts(Most)[i]
  /\ \A c \in Contents : minLen <= FieldStarts(c)[i] /\ FieldStarts(c)[i] <= maxLen
  /\ lens = IF \E j \in 1 .. i - 1 : layouts[j].shape = "vec" THEN {} ELSE StartsOf(i)

LengthsInv ==
  /\ phase \in {"args", "fields", "sums", "align"} => minLen = 0 /\ maxLen = 0 /\ lens = {0}
  /\ phase = "emit" => idx <= FieldCount + 1 /\ Bounded(idx)
  /\ phase = "emitted" => Bounded(FieldCount + 1)

\* Before the first field there is nothing.
LEMMA BoundedFirst ==
  ASSUME TypeInv, minLen = 0, maxLen = 0, lens = {0}
  PROVE  Bounded(1)
<1>1. \A c \in Contents : FieldStarts(c)[1] = 0
  BY StartsEquation, SomeContents
<1>2. Fewest \in Contents /\ Most \in Contents
  BY FewestIsContents, MostIsContents
<1>3. StartsOf(1) = {0}
  BY <1>1, <1>2 DEF StartsOf
<1>4. ~ \E j \in 1 .. 1 - 1 : layouts[j].shape = "vec"
  OBVIOUS
<1>. QED
  BY <1>1, <1>2, <1>3, <1>4 DEF Bounded

(* The contents go on independently: what follows a field is every sum of  *)
(* where it starts and what it takes.                                      *)
LEMMA StartsOfNext ==
  ASSUME TypeInv, NEW i \in 1 .. FieldCount
  PROVE  StartsOf(i + 1) =
           {s + EncodedFieldLen(layouts[i], k) : s \in StartsOf(i), k \in Counts(layouts[i])}
<1>. DEFINE l == layouts[i]
            Sum == {s + EncodedFieldLen(l, k) : s \in StartsOf(i), k \in Counts(l)}
<1>. HIDE DEF Sum
<1>1. ASSUME NEW x \in StartsOf(i + 1) PROVE x \in Sum
  <2>1. PICK c \in Contents : x = FieldStarts(c)[i + 1]
    BY <1>1 DEF StartsOf
  <2>2. x = FieldStarts(c)[i] + EncodedFieldLen(layouts[i], c[i])
    BY <2>1, StartTypes
  <2>3. FieldStarts(c)[i] \in StartsOf(i) /\ c[i] \in Counts(layouts[i])
    BY ContentsTypes DEF StartsOf
  <2>. HIDE DEF l
  <2>4. PICK s \in StartsOf(i), k \in Counts(l) : x = s + EncodedFieldLen(l, k)
    BY <2>2, <2>3 DEF l
  <2>. QED
    BY <2>4 DEF Sum
<1>2. ASSUME NEW x \in Sum PROVE x \in StartsOf(i + 1)
  <2>1. PICK s \in StartsOf(i), k \in Counts(layouts[i]) : x = s + EncodedFieldLen(layouts[i], k)
    BY <1>2 DEF Sum
  <2>2. PICK c \in Contents : s = FieldStarts(c)[i]
    BY <2>1 DEF StartsOf
  <2>3. PICK d : d = [c EXCEPT ![i] = k]
    OBVIOUS
  <2>4. d \in Contents /\ d[i] = k /\ FieldStarts(d)[i] = FieldStarts(c)[i]
    <3>1. i \in 1 .. i /\ c \in Contents /\ i \in 1 .. FieldCount /\ k \in Counts(layouts[i])
      BY <2>1
    <3>2. /\ [c EXCEPT ![i] = k] \in Contents /\ [c EXCEPT ![i] = k][i] = k
          /\ FieldStarts([c EXCEPT ![i] = k])[i] = FieldStarts(c)[i]
      BY ONLY TypeInv, <3>1, ContentsReplace
    <3>. QED
      BY ONLY <2>3, <3>2
  <2>5. FieldStarts(d)[i + 1] = x
    BY <2>1, <2>2, <2>4, StartTypes
  <2>. QED
    BY <2>4, <2>5 DEF StartsOf
<1>. QED
  BY <1>1, <1>2 DEF Sum

LEMMA EmitLengths ==
  ASSUME TypeInv, LengthsInv, EmitField
  PROVE  LengthsInv'
<1>. DEFINE l == layouts[idx]
<1>1. /\ phase = "emit" /\ idx \in 1 .. FieldCount /\ idx + 1 <= FieldCount + 1
      /\ minLen \in Nat /\ maxLen \in Nat /\ Bounded(idx)
      /\ minLen' = minLen + SlotMinLen(l) /\ maxLen' = maxLen + SlotMaxLen(l)
      /\ lens' = {total + slot : total \in lens, slot \in SlotLens(l)}
      /\ idx' = idx + 1 /\ phase' = "emit" /\ layouts' = layouts
  BY AlignTypes DEF TypeInv, ExpandTypeOK, LengthsInv, EmitField, FieldCount
<1>2. l \in FieldLayout
  BY <1>1, AlignTypes
<1>. HIDE DEF l
<1>3. Fewest \in Contents /\ Most \in Contents
  BY FewestIsContents, MostIsContents
<1>4. SlotMinLen(l) \in Nat /\ SlotMaxLen(l) \in Nat
  BY <1>2, SlotLenTypes
<1>5. minLen' = FieldStarts(Fewest)[idx + 1]
  <2>1. Fewest[idx] = (IF l.shape = "plain" THEN 1 ELSE 0)
    BY <1>1 DEF Fewest, l
  <2>2. PICK k \in Counts(l) : TRUE
    BY <1>1, <1>3, ContentsTypes DEF l
  <2>3. SlotMinLen(l) = EncodedFieldLen(l, Fewest[idx])
    BY <1>2, <2>1, <2>2, SlotLensExact, SomeCounts
  <2>. QED
    BY <1>1, <1>3, <2>3, StartTypes DEF Bounded, l
<1>6. maxLen' = FieldStarts(Most)[idx + 1]
  <2>1. Most[idx] = (IF l.shape = "vec" THEN Capacity(l.width) ELSE 1)
    BY <1>1 DEF Most, l
  <2>2. PICK k \in Counts(l) : TRUE
    BY <1>1, <1>3, ContentsTypes DEF l
  <2>3. SlotMaxLen(l) = EncodedFieldLen(l, Most[idx])
    BY <1>2, <2>1, <2>2, SlotLensExact, SomeCounts
  <2>. QED
    BY <1>1, <1>3, <2>3, StartTypes DEF Bounded, l
<1>7. ASSUME NEW c \in Contents
      PROVE  minLen' <= FieldStarts(c)[idx + 1] /\ FieldStarts(c)[idx + 1] <= maxLen'
  <2>1. /\ FieldStarts(c)[idx] \in Nat /\ EncodedFieldLen(l, c[idx]) \in Nat
        /\ FieldStarts(c)[idx + 1] = FieldStarts(c)[idx] + EncodedFieldLen(l, c[idx])
    BY <1>1, StartTypes DEF l
  <2>2. SlotMinLen(l) <= EncodedFieldLen(l, c[idx]) /\ EncodedFieldLen(l, c[idx]) <= SlotMaxLen(l)
    <3>1. c[idx] \in Counts(l)
      BY <1>1, ContentsTypes DEF l
    <3>. QED
      BY <1>2, <3>1, SlotLensExact, SomeCounts
  <2>3. minLen <= FieldStarts(c)[idx] /\ FieldStarts(c)[idx] <= maxLen
    BY <1>1 DEF Bounded
  <2>. QED
    BY <1>1, <1>4, <2>1, <2>2, <2>3
<1>8. lens' = IF \E j \in 1 .. idx : layouts[j].shape = "vec" THEN {} ELSE StartsOf(idx + 1)
  <2>1. CASE \E j \in 1 .. idx - 1 : layouts[j].shape = "vec"
    <3>1. lens = {}
      BY <1>1, <2>1 DEF Bounded
    <3>2. \E j \in 1 .. idx : layouts[j].shape = "vec"
      BY <1>1, <2>1
    <3>. QED
      BY <1>1, <3>1, <3>2
  <2>2. CASE l.shape = "vec"
    <3>1. SlotLens(l) = {}
      BY <2>2 DEF SlotLens
    <3>2. \E j \in 1 .. idx : layouts[j].shape = "vec"
      BY <1>1, <2>2 DEF l
    <3>. QED
      BY <1>1, <3>1, <3>2
  <2>3. CASE l.shape # "vec" /\ ~ \E j \in 1 .. idx - 1 : layouts[j].shape = "vec"
    <3>1. lens = StartsOf(idx)
      BY <1>1, <2>3 DEF Bounded
    <3>2. SlotLens(l) = {EncodedFieldLen(l, k) : k \in Counts(l)}
      BY <1>2, <2>3, SlotLensAll
    <3>3. lens' = {s + EncodedFieldLen(l, k) : s \in StartsOf(idx), k \in Counts(l)}
      <4>1. {total + slot : total \in StartsOf(idx), slot \in {EncodedFieldLen(l, k) : k \in Counts(l)}}
              = {s + EncodedFieldLen(l, k) : s \in StartsOf(idx), k \in Counts(l)}
        OBVIOUS
      <4>2. lens' = {total + slot : total \in lens, slot \in SlotLens(l)}
        BY <1>1
      <4>. QED
        BY ONLY <3>1, <3>2, <4>1, <4>2
    <3>4. lens' = StartsOf(idx + 1)
      <4>1. StartsOf(idx + 1) = {s + EncodedFieldLen(l, k) : s \in StartsOf(idx), k \in Counts(l)}
        <5>1. idx \in 1 .. FieldCount
          BY <1>1
        <5>2. StartsOf(idx + 1) = {s + EncodedFieldLen(layouts[idx], k) :
                                     s \in StartsOf(idx), k \in Counts(layouts[idx])}
          BY ONLY TypeInv, <5>1, StartsOfNext, SMTT(30)
        <5>. QED
          BY ONLY <5>2 DEF l
      <4>. QED
        BY ONLY <3>3, <4>1
    <3>5. ~ \E j \in 1 .. idx : layouts[j].shape = "vec"
      <4>1. \A j \in 1 .. idx : j \in 1 .. idx - 1 \/ j = idx
        BY <1>1
      <4>. QED
        BY <2>3, <4>1 DEF l
    <3>. QED
      BY <3>4, <3>5
  <2>. QED
    BY <2>1, <2>2, <2>3
<1>9. /\ FieldCount' = FieldCount /\ Contents' = Contents
      /\ \A c : FieldStarts(c)' = FieldStarts(c)
      /\ Fewest' = Fewest /\ Most' = Most
  BY <1>1, SameContents DEF Fewest, Most
<1>10. FieldStarts(Fewest)' = FieldStarts(Fewest) /\ FieldStarts(Most)' = FieldStarts(Most)
  BY <1>1, <1>9 DEF FieldStarts
<1>11. StartsOf(idx + 1)' = StartsOf(idx' + 1)
  BY <1>9 DEF StartsOf
<1>12. Bounded(idx)'
  <2>1. idx' = idx + 1 /\ idx' - 1 = idx
    BY <1>1
  <2>2. StartsOf(idx)' = StartsOf(idx + 1)
    BY <1>9, <2>1 DEF StartsOf
  <2>. QED
    BY <1>1, <1>5, <1>6, <1>7, <1>8, <1>9, <1>10, <2>1, <2>2 DEF Bounded
<1>. QED
  BY <1>1, <1>9, <1>12 DEF LengthsInv

\* What the lengths say does not change while the struct does not.
LEMMA SameBounds ==
  ASSUME UNCHANGED << layouts, minLen, maxLen, lens >>
  PROVE  FieldCount' = FieldCount /\ \A i : Bounded(i)' = Bounded(i)
<1>1. /\ FieldCount' = FieldCount /\ Contents' = Contents
      /\ \A c : FieldStarts(c)' = FieldStarts(c)
      /\ Fewest' = Fewest /\ Most' = Most
  BY SameContents DEF Fewest, Most
<1>2. FieldStarts(Fewest)' = FieldStarts(Fewest) /\ FieldStarts(Most)' = FieldStarts(Most)
  BY <1>1 DEF FieldStarts
<1>3. \A i : StartsOf(i)' = StartsOf(i)
  BY <1>1 DEF StartsOf
<1>. QED
  BY <1>1, <1>2, <1>3 DEF Bounded

LEMMA StepLengths ==
  ASSUME TypeInv, LengthsInv, ExpandNext
  PROVE  LengthsInv'
<1>1. CASE EmitField
  BY <1>1, EmitLengths
<1>2. CASE EmitDone
  <2>1. /\ phase = "emit" /\ phase' = "emitted" /\ idx > FieldCount /\ idx \in Nat /\ FieldCount \in Nat
        /\ UNCHANGED << layouts, minLen, maxLen, lens >>
    BY <1>2, AlignTypes DEF EmitDone, Enter, emitVars, FieldCount
  <2>2. idx = FieldCount + 1 /\ Bounded(idx)
    BY <2>1 DEF LengthsInv
  <2>3. FieldCount' = FieldCount /\ Bounded(FieldCount + 1)' = Bounded(FieldCount + 1)
    BY <2>1, SameBounds
  <2>. QED
    BY <2>1, <2>2, <2>3 DEF LengthsInv
<1>3. CASE AlignmentDone
  <2>1. /\ phase = "align" /\ phase' = "emit" /\ idx' = 1
        /\ UNCHANGED << layouts, minLen, maxLen, lens >>
    BY <1>3 DEF AlignmentDone, Enter, emitVars
  <2>2. Bounded(1)
    BY <2>1, BoundedFirst DEF LengthsInv
  <2>3. FieldCount' = FieldCount /\ Bounded(1)' = Bounded(1)
    BY <2>1, SameBounds
  <2>4. Bounded(idx)' = Bounded(1)'
    BY <2>1 DEF Bounded, StartsOf
  <2>. QED
    BY <2>1, <2>2, <2>3, <2>4, AlignTypes DEF LengthsInv
<1>4. CASE ~EmitField /\ ~EmitDone /\ ~AlignmentDone
  <2>1. /\ phase \in {"args", "fields", "sums", "align"} /\ UNCHANGED << minLen, maxLen, lens >>
    BY <1>4 DEF ExpandNext, ParseArgs, ParseField, CheckStructOptions, AddPayload, SumsDone,
                NeedsNoAlignment, AlignmentBeyondBase, AddPossibleLen, CheckResidues,
                ResiduesApply, emitVars
  <2>2. minLen' = 0 /\ maxLen' = 0 /\ lens' = {0}
    BY <2>1 DEF LengthsInv
  <2>3. phase' \notin {"emit", "emitted"}
    <3>. USE DEF Enter, Reject, NextAligned
    <3>1. CASE ParseArgs \/ ParseField \/ CheckStructOptions
      BY <3>1 DEF ParseArgs, ParseField, CheckStructOptions
    <3>2. CASE AddPayload
      BY <3>2 DEF AddPayload
    <3>3. CASE SumsDone \/ NeedsNoAlignment \/ AlignmentBeyondBase
      BY <3>3 DEF SumsDone, NeedsNoAlignment, AlignmentBeyondBase
    <3>4. CASE AddPossibleLen
      BY <3>4 DEF AddPossibleLen, ResiduesApply
    <3>5. CASE CheckResidues
      BY <3>5 DEF CheckResidues, ResiduesApply
    <3>. QED
      BY <1>4, <3>1, <3>2, <3>3, <3>4, <3>5 DEF ExpandNext
  <2>. QED
    BY <2>2, <2>3 DEF LengthsInv
<1>. QED
  BY <1>1, <1>2, <1>3, <1>4

LEMMA StutterLengths ==
  ASSUME LengthsInv, UNCHANGED expandVars
  PROVE  LengthsInv'
<1>1. UNCHANGED << layouts, phase, idx, minLen, maxLen, lens >>
  BY DEF expandVars
<1>2. FieldCount' = FieldCount /\ \A i : Bounded(i)' = Bounded(i)
  BY <1>1, SameBounds
<1>3. Bounded(idx)' = Bounded(idx) /\ Bounded(FieldCount + 1)' = Bounded(FieldCount + 1)
  <2>1. Bounded(idx)' = Bounded(idx)
    <3>1. /\ Contents' = Contents /\ \A c : FieldStarts(c)' = FieldStarts(c)
          /\ Fewest' = Fewest /\ Most' = Most
      BY <1>1, <1>2, SameContents DEF Fewest, Most
    <3>2. FieldStarts(Fewest)' = FieldStarts(Fewest) /\ FieldStarts(Most)' = FieldStarts(Most)
      BY <1>1, <1>2, <3>1 DEF FieldStarts
    <3>. QED
      BY <1>1, <3>1, <3>2 DEF Bounded, StartsOf
  <2>2. Bounded(FieldCount + 1)' = Bounded(FieldCount + 1)
    <3>1. PICK n : n = FieldCount + 1
      OBVIOUS
    <3>. QED
      BY <1>2
  <2>. QED
    BY <2>1, <2>2
<1>. QED
  BY <1>1, <1>2, <1>3 DEF LengthsInv

LEMMA LengthsInvariant == ExpandSpec => [](TypeInv /\ LengthsInv)
<1>1. ExpandInit => TypeInv /\ LengthsInv
  <2>1. ExpandInit => LengthsInv
    BY DEF ExpandInit, LengthsInv
  <2>. QED
    BY <2>1, InitTypes
<1>2. TypeInv /\ LengthsInv /\ [ExpandNext \/ ExpandStopped]_expandVars => (TypeInv /\ LengthsInv)'
  <2>. SUFFICES ASSUME TypeInv, LengthsInv, [ExpandNext \/ ExpandStopped]_expandVars
                PROVE  (TypeInv /\ LengthsInv)'
    OBVIOUS
  <2>1. CASE ExpandNext
    BY <2>1, StepTypes, StepLengths
  <2>2. CASE UNCHANGED expandVars
    BY <2>2, StutterTypes, StutterLengths
  <2>. QED
    BY <2>1, <2>2 DEF ExpandStopped
<1>. QED
  BY <1>1, <1>2, PTL DEF ExpandSpec

(* DATA_LEN, DATA_LENS and DATA_LEN_RANGE are those of encoded_len: the    *)
(* bounds are reached and bound every encoding, and the exact lengths of a *)
(* struct without a Vec are the lengths of its encodings.                  *)
THEOREM LengthsAreExact == ExpandSpec => []LengthsExact
<1>1. ASSUME TypeInv, LengthsInv PROVE LengthsExact
  <2>. SUFFICES ASSUME phase = "emitted"
                PROVE  /\ minLen \in Totals /\ maxLen \in Totals
                       /\ \A t \in Totals : minLen <= t /\ t <= maxLen
                       /\ lens = IF \E i \in 1 .. FieldCount : layouts[i].shape = "vec"
                                 THEN {} ELSE Totals
    BY DEF LengthsExact
  <2>1. Totals = StartsOf(FieldCount + 1)
    BY DEF Totals, Total, StartsOf
  <2>2. Bounded(FieldCount + 1) /\ (FieldCount + 1) - 1 = FieldCount
    BY <1>1, AlignTypes DEF LengthsInv
  <2>3. Fewest \in Contents /\ Most \in Contents
    BY <1>1, FewestIsContents, MostIsContents
  <2>4. minLen \in Totals /\ maxLen \in Totals
    BY <2>1, <2>2, <2>3 DEF Bounded, StartsOf
  <2>5. \A t \in Totals : minLen <= t /\ t <= maxLen
    BY <2>1, <2>2 DEF Bounded, StartsOf
  <2>6. lens = IF \E i \in 1 .. FieldCount : layouts[i].shape = "vec" THEN {} ELSE Totals
    <3>1. PICK n : n = FieldCount + 1 /\ n - 1 = FieldCount /\ Bounded(n)
      BY <2>2
    <3>2. lens = IF \E i \in 1 .. n - 1 : layouts[i].shape = "vec" THEN {} ELSE StartsOf(n)
      BY <3>1 DEF Bounded
    <3>. QED
      BY ONLY <2>1, <3>1, <3>2
  <2>. QED
    BY <2>4, <2>5, <2>6
<1>. QED
  BY <1>1, LengthsInvariant, PTL

-----------------------------------------------------------------------------
(* The subset sums of an implicit layout, against the encodings.  The sums *)
(* of the fields before one are how much later it starts than in the       *)
(* emptiest contents, and each has the options that are present then.      *)

Extra(c, i) == FieldStarts(c)[i] - FieldStarts(Fewest)[i]
PresentBefore(c, i) ==
  {layouts[j].bit : j \in {k \in 1 .. i - 1 : layouts[k].shape = "implicit" /\ c[k] = 1}}

Summed(i) ==
  /\ DOMAIN sums = {Extra(c, i) : c \in Contents}
  /\ \A c \in Contents : sums[Extra(c, i)] = PresentBefore(c, i)

OptionsOnly == \A i \in 1 .. FieldCount : layouts[i].shape \in {"plain", "implicit"}

SumsInv ==
  /\ phase \in {"args", "fields"} => sums = [s \in {0} |-> {}]
  /\ \A i \in 1 .. FieldCount : layouts[i].shape \in {"plain", "vec", decl.option}
  /\ phase = "sums" => OptionsOnly /\ idx <= FieldCount + 1 /\ Summed(idx)
  /\ phase \in {"align", "emit", "emitted"} /\ decl.option = "implicit" =>
       OptionsOnly /\ Summed(FieldCount + 1)
  /\ phase # "rejected" => rejected = "none"
  /\ SumsRejectionJustified

\* What a field adds to the extra length and to the options present.
LEMMA ExtraStep ==
  ASSUME TypeInv, OptionsOnly, NEW c \in Contents, NEW i \in 1 .. FieldCount
  PROVE  /\ Extra(c, i) \in Int /\ Extra(c, i + 1) \in Int
         /\ IF layouts[i].shape = "implicit" /\ c[i] = 1
            THEN /\ Extra(c, i + 1) = Extra(c, i) + Size(layouts[i].kind)
                 /\ PresentBefore(c, i + 1) = PresentBefore(c, i) \cup {layouts[i].bit}
            ELSE Extra(c, i + 1) = Extra(c, i) /\ PresentBefore(c, i + 1) = PresentBefore(c, i)
<1>. DEFINE l == layouts[i]
            few == Fewest
<1>1. few \in Contents /\ few[i] = IF l.shape = "plain" THEN 1 ELSE 0
  BY FewestIsContents DEF Fewest
<1>2. l \in FieldLayout /\ l.shape \in {"plain", "implicit"} /\ Size(l.kind) \in Nat
  <2>1. l \in FieldLayout
    BY AlignTypes
  <2>. QED
    BY <2>1, KindTypes DEF OptionsOnly, FieldLayout
<1>3. c[i] \in Counts(l)
  BY ContentsTypes
<1>4. /\ FieldStarts(c)[i] \in Nat /\ FieldStarts(few)[i] \in Nat
      /\ FieldStarts(c)[i + 1] = FieldStarts(c)[i] + EncodedFieldLen(l, c[i])
      /\ FieldStarts(few)[i + 1] = FieldStarts(few)[i] + EncodedFieldLen(l, few[i])
  BY <1>1, StartTypes
<1>5. /\ l.shape = "plain" =>
           EncodedFieldLen(l, c[i]) = Size(l.kind) /\ EncodedFieldLen(l, few[i]) = Size(l.kind)
      /\ l.shape = "implicit" =>
           /\ EncodedFieldLen(l, c[i]) = IF c[i] = 1 THEN Size(l.kind) ELSE 0
           /\ EncodedFieldLen(l, few[i]) = 0
  BY <1>1 DEF EncodedFieldLen
<1>6. Extra(c, i) = FieldStarts(c)[i] - FieldStarts(few)[i]
      /\ Extra(c, i + 1) = FieldStarts(c)[i + 1] - FieldStarts(few)[i + 1]
  BY DEF Extra
<1>7. /\ Extra(c, i) \in Int /\ Extra(c, i + 1) \in Int
      /\ IF l.shape = "implicit" /\ c[i] = 1 THEN Extra(c, i + 1) = Extra(c, i) + Size(l.kind)
                                             ELSE Extra(c, i + 1) = Extra(c, i)
  <2>. HIDE DEF few, l
  <2>. QED
    BY <1>2, <1>4, <1>5, <1>6
<1>8. IF l.shape = "implicit" /\ c[i] = 1
      THEN PresentBefore(c, i + 1) = PresentBefore(c, i) \cup {l.bit}
      ELSE PresentBefore(c, i + 1) = PresentBefore(c, i)
  <2>. DEFINE K(n) == {k \in 1 .. n : layouts[k].shape = "implicit" /\ c[k] = 1}
  <2>1. \A k : k \in 1 .. i <=> k \in 1 .. i - 1 \/ k = i
    BY AlignTypes
  <2>2. (i + 1) - 1 = i
    BY AlignTypes
  <2>3. K((i + 1) - 1) = IF l.shape = "implicit" /\ c[i] = 1 THEN K(i - 1) \cup {i} ELSE K(i - 1)
    BY <2>1, <2>2
  <2>4. PresentBefore(c, i + 1) = {layouts[j].bit : j \in K((i + 1) - 1)}
        /\ PresentBefore(c, i) = {layouts[j].bit : j \in K(i - 1)}
    BY DEF PresentBefore
  <2>. HIDE DEF K
  <2>. QED
    BY <2>3, <2>4
<1>. QED
  BY <1>7, <1>8

\* The count of an option can be chosen, and the extra before it stays.
LEMMA ExtraChoose ==
  ASSUME TypeInv, OptionsOnly, NEW c \in Contents, NEW i \in 1 .. FieldCount,
         layouts[i].shape = "implicit", NEW k \in {0, 1}
  PROVE  \E d \in Contents : d[i] = k /\ Extra(d, i) = Extra(c, i)
<1>1. k \in Counts(layouts[i]) /\ i \in 1 .. i
  BY DEF Counts
<1>. DEFINE d == [c EXCEPT ![i] = k]
<1>2. d \in Contents /\ d[i] = k /\ FieldStarts(d)[i] = FieldStarts(c)[i]
  BY ONLY TypeInv, c \in Contents, i \in 1 .. FieldCount, <1>1, ContentsReplace
<1>. HIDE DEF d
<1>. QED
  BY <1>2 DEF Extra

\* Before the first field the only sum is that of nothing.
LEMMA SummedFirst ==
  ASSUME TypeInv, sums = [s \in {0} |-> {}]
  PROVE  Summed(1)
<1>1. Fewest \in Contents
  BY FewestIsContents
<1>2. \A c \in Contents : Extra(c, 1) = 0
  BY <1>1, StartsEquation, SomeContents DEF Extra
<1>3. \A c \in Contents : PresentBefore(c, 1) = {}
  BY DEF PresentBefore
<1>. QED
  BY <1>1, <1>2, <1>3 DEF Summed

(* A payload that can be absent doubles the sums.                          *)
LEMMA SummedNext ==
  ASSUME TypeInv, OptionsOnly, NEW i \in 1 .. FieldCount, Summed(i), layouts[i].shape = "implicit",
         LET size == Size(layouts[i].kind)
             extended == {s + size : s \in DOMAIN sums}
         IN /\ extended \cap DOMAIN sums = {}
            /\ sums' = [s \in DOMAIN sums \cup extended |->
                          IF s \in DOMAIN sums THEN sums[s] ELSE sums[s - size] \cup {layouts[i].bit}]
  PROVE  /\ DOMAIN sums' = {Extra(c, i + 1) : c \in Contents}
         /\ \A c \in Contents : sums'[Extra(c, i + 1)] = PresentBefore(c, i + 1)
<1>. DEFINE size == Size(layouts[i].kind)
            bit == layouts[i].bit
            extended == {s + size : s \in DOMAIN sums}
            next == [s \in DOMAIN sums \cup extended |->
                       IF s \in DOMAIN sums THEN sums[s] ELSE sums[s - size] \cup {bit}]
<1>a. extended \cap DOMAIN sums = {} /\ sums' = next
  OBVIOUS
<1>b. DOMAIN next = DOMAIN sums \cup extended
  OBVIOUS
<1>c. \A s \in extended : s \notin DOMAIN sums => next[s] = sums[s - size] \cup {bit}
  OBVIOUS
<1>d. \A s \in DOMAIN sums : next[s] = sums[s]
  OBVIOUS
<1>1. size \in Nat
  BY AlignTypes, KindTypes DEF FieldLayout
<1>e. \A s : s \in extended <=> \E x \in DOMAIN sums : s = x + size
  OBVIOUS
<1>2. /\ DOMAIN sums = {Extra(c, i) : c \in Contents}
      /\ \A c \in Contents : sums[Extra(c, i)] = PresentBefore(c, i)
  BY DEF Summed
<1>3. \A c \in Contents :
        /\ Extra(c, i) \in Int
        /\ c[i] = 1 => /\ Extra(c, i + 1) = Extra(c, i) + size
                       /\ PresentBefore(c, i + 1) = PresentBefore(c, i) \cup {bit}
        /\ c[i] # 1 => /\ Extra(c, i + 1) = Extra(c, i)
                       /\ PresentBefore(c, i + 1) = PresentBefore(c, i)
  BY ExtraStep
<1>. HIDE DEF size, bit, extended, next
<1>4. ASSUME NEW c \in Contents
      PROVE  Extra(c, i + 1) \in DOMAIN next /\ next[Extra(c, i + 1)] = PresentBefore(c, i + 1)
  <2>1. Extra(c, i) \in DOMAIN sums /\ sums[Extra(c, i)] = PresentBefore(c, i) /\ Extra(c, i) \in Int
    BY <1>2, <1>3
  <2>2. CASE c[i] = 1
    <3>1. PICK s : s = Extra(c, i)
      OBVIOUS
    <3>2. s + size \in extended /\ s + size \notin DOMAIN sums /\ (s + size) - size = s
      BY <1>1, <1>a, <1>e, <2>1, <3>1
    <3>3. next[s + size] = sums[s] \cup {bit}
      BY <1>c, <3>2
    <3>. QED
      BY <1>3, <1>b, <2>1, <2>2, <3>1, <3>2, <3>3
  <2>3. CASE c[i] # 1
    BY <1>3, <1>b, <1>d, <2>1, <2>3
  <2>. QED
    BY <2>2, <2>3
<1>5. ASSUME NEW s \in DOMAIN next PROVE \E c \in Contents : s = Extra(c, i + 1)
  <2>1. CASE s \in DOMAIN sums
    <3>1. PICK c \in Contents : s = Extra(c, i)
      BY <1>2, <2>1
    <3>2. PICK d \in Contents : d[i] = 0 /\ Extra(d, i) = Extra(c, i)
      BY ExtraChoose
    <3>. QED
      BY <1>3, <3>1, <3>2
  <2>2. CASE s \in extended
    <3>1. PICK c \in Contents : s = Extra(c, i) + size
      BY <1>2, <1>e, <2>2
    <3>2. PICK d \in Contents : d[i] = 1 /\ Extra(d, i) = Extra(c, i)
      BY ExtraChoose
    <3>. QED
      BY <1>3, <3>1, <3>2
  <2>. QED
    BY <1>5, <1>b, <2>1, <2>2
<1>6. DOMAIN next = {Extra(c, i + 1) : c \in Contents}
  <2>. DEFINE D == DOMAIN next
              T == {Extra(c, i + 1) : c \in Contents}
  <2>1. \A c \in Contents : Extra(c, i + 1) \in D
    BY <1>4
  <2>2. \A s \in D : \E c \in Contents : s = Extra(c, i + 1)
    BY <1>5
  <2>. HIDE DEF D
  <2>3. T \subseteq D /\ D \subseteq T
    BY ONLY <2>1, <2>2
  <2>4. T = D
    BY ONLY <2>3
  <2>. QED
    BY ONLY <2>4 DEF D
<1>. QED
  BY ONLY <1>a, <1>4, <1>6

(* Contents can be joined anywhere.                                        *)
LEMMA ContentsJoin ==
  ASSUME TypeInv, NEW c \in Contents, NEW d \in Contents, NEW m \in 0 .. FieldCount
  PROVE  \E e \in Contents : /\ \A j \in 1 .. m : e[j] = c[j]
                             /\ \A j \in m + 1 .. FieldCount : e[j] = d[j]
                             /\ \A j \in 1 .. m + 1 : FieldStarts(e)[j] = FieldStarts(c)[j]
<1>. DEFINE e == [j \in 1 .. FieldCount |-> IF j <= m THEN c[j] ELSE d[j]]
<1>1. FieldCount \in Nat /\ m \in Nat /\ m <= FieldCount
  BY AlignTypes
<1>2. /\ e = [j \in 1 .. FieldCount |-> e[j]]
      /\ \A j \in 1 .. m : e[j] = c[j]
      /\ \A j \in m + 1 .. FieldCount : e[j] = d[j]
  BY <1>1
<1>3. \A j \in 1 .. FieldCount : e[j] \in Counts(layouts[j])
  BY ContentsTypes
<1>. HIDE DEF e
<1>4. e \in Contents
  BY <1>2, <1>3, ContentsOf
<1>5. \A j \in 1 .. m + 1 : FieldStarts(e)[j] = FieldStarts(c)[j]
  BY <1>2, <1>4, StartsAgree, SomeContents
<1>. QED
  BY <1>2, <1>4, <1>5

(* Fields that hold the same and start alike end alike.                    *)
LEMMA SameTotals ==
  ASSUME TypeInv, NEW c \in Contents, NEW d \in Contents, NEW m \in 0 .. FieldCount,
         FieldStarts(c)[m + 1] = FieldStarts(d)[m + 1],
         \A j \in m + 1 .. FieldCount : c[j] = d[j]
  PROVE  Total(c) = Total(d)
<1>. DEFINE v == FieldStarts(c)
            w == FieldStarts(d)
            S == {i \in 1 .. FieldCount + 1 : i > m => v[i] = w[i]}
<1>1. FieldCount \in Nat /\ m \in Nat /\ m <= FieldCount /\ FieldCount + 1 \in Nat
  BY AlignTypes
<1>2. \A i \in 1 .. FieldCount : /\ v[i + 1] = v[i] + EncodedFieldLen(layouts[i], c[i])
                                 /\ w[i + 1] = w[i] + EncodedFieldLen(layouts[i], d[i])
  BY StartsEquation, SomeContents
<1>a. v[1] = w[1] /\ v[m + 1] = w[m + 1]
  BY StartsEquation, SomeContents
<1>. HIDE DEF v, w
<1>3. 1 \in S
  BY <1>1, <1>a
<1>4. ASSUME NEW i \in 1 .. FieldCount + 1, i \in S, i < FieldCount + 1 PROVE i + 1 \in S
  <2>1. i \in 1 .. FieldCount /\ i + 1 \in 1 .. FieldCount + 1
    BY <1>1, <1>4
  <2>2. CASE i > m
    <3>1. v[i] = w[i] /\ i \in m + 1 .. FieldCount
      BY <1>1, <1>4, <2>1, <2>2
    <3>2. c[i] = d[i]
      BY <3>1
    <3>. QED
      BY <1>2, <2>1, <3>1, <3>2
  <2>3. CASE i = m
    BY <1>a, <2>1, <2>3
  <2>4. CASE i < m
    BY <1>1, <2>1, <2>4
  <2>. QED
    BY <1>1, <2>1, <2>2, <2>3, <2>4
<1>5. 1 .. FieldCount + 1 \subseteq S
  <2>. HIDE DEF S
  <2>. QED
    BY <1>1, <1>3, <1>4, UpToInduction
<1>6. FieldCount + 1 \in S /\ FieldCount + 1 > m
  BY <1>1, <1>5
<1>. QED
  BY <1>6 DEF v, w, Total

(* A sum that can be made in two ways is two encodings of one length.      *)
LEMMA SumTwice ==
  ASSUME TypeInv, OptionsOnly, NEW i \in 1 .. FieldCount, Summed(i), layouts[i].shape = "implicit",
         NEW s \in DOMAIN sums, s + Size(layouts[i].kind) \in DOMAIN sums
  PROVE  \E c, d \in Contents : c # d /\ Total(c) = Total(d)
<1>. DEFINE size == Size(layouts[i].kind)
<1>1. PICK c \in Contents : c[i] = 1 /\ Extra(c, i) = s
  <2>1. PICK e \in Contents : s = Extra(e, i)
    BY DEF Summed
  <2>. QED
    BY <2>1, ExtraChoose
<1>2. PICK d \in Contents : d[i] = 0 /\ Extra(d, i) = s + size
  <2>1. PICK e \in Contents : s + size = Extra(e, i)
    BY DEF Summed
  <2>. QED
    BY <2>1, ExtraChoose
<1>3. Extra(c, i + 1) = s + size /\ Extra(d, i + 1) = s + size
  <2>1. Extra(c, i + 1) = Extra(c, i) + size
    BY <1>1, ExtraStep
  <2>2. Extra(d, i + 1) = Extra(d, i)
    BY <1>2, ExtraStep
  <2>. QED
    BY <1>1, <1>2, <2>1, <2>2
<1>4. FieldStarts(c)[i + 1] = FieldStarts(d)[i + 1]
  <2>1. /\ FieldStarts(c)[i + 1] \in Nat /\ FieldStarts(d)[i + 1] \in Nat
        /\ FieldStarts(Fewest)[i + 1] \in Nat
    BY StartTypes, FewestIsContents
  <2>2. /\ FieldStarts(c)[i + 1] - FieldStarts(Fewest)[i + 1] = s + size
        /\ FieldStarts(d)[i + 1] - FieldStarts(Fewest)[i + 1] = s + size
    BY <1>3 DEF Extra
  <2>. HIDE DEF size
  <2>. QED
    BY <2>1, <2>2
<1>5. i \in 0 .. FieldCount /\ i \in 1 .. i /\ i + 1 \in 1 .. i + 1
  BY AlignTypes
<1>6. PICK e \in Contents : /\ \A j \in 1 .. i : e[j] = d[j]
                            /\ \A j \in i + 1 .. FieldCount : e[j] = c[j]
                            /\ \A j \in 1 .. i + 1 : FieldStarts(e)[j] = FieldStarts(d)[j]
  BY <1>5, ContentsJoin
<1>7. c # e
  BY <1>1, <1>2, <1>5, <1>6
<1>8. Total(c) = Total(e)
  BY <1>4, <1>5, <1>6, SameTotals
<1>. QED
  BY <1>7, <1>8

LEMMA SameSums ==
  ASSUME UNCHANGED << layouts, sums >>
  PROVE  /\ FieldCount' = FieldCount /\ OptionsOnly' = OptionsOnly
         /\ \A i : Summed(i)' = Summed(i)
         /\ Summed(FieldCount + 1)' = Summed(FieldCount + 1)
         /\ idx' = idx => Summed(idx)' = Summed(idx)
         /\ (\E c, d \in Contents : c # d /\ Total(c) = Total(d))'
              = \E c, d \in Contents : c # d /\ Total(c) = Total(d)
<1>1. /\ FieldCount' = FieldCount /\ Contents' = Contents
      /\ \A c : FieldStarts(c)' = FieldStarts(c)
      /\ Fewest' = Fewest
  BY SameContents DEF Fewest
<1>2. FieldStarts(Fewest)' = FieldStarts(Fewest)
  BY <1>1 DEF FieldStarts
<1>3. \A c, i : Extra(c, i)' = Extra(c, i) /\ PresentBefore(c, i)' = PresentBefore(c, i)
  BY <1>1, <1>2 DEF Extra, PresentBefore
<1>4. \A i : Summed(i)' = Summed(i)
  BY <1>1, <1>3 DEF Summed
<1>5. \A c : Total(c)' = Total(c)
  BY <1>1 DEF Total
<1>6. OptionsOnly' = OptionsOnly
  BY <1>1 DEF OptionsOnly
<1>7. Summed(FieldCount + 1)' = Summed(FieldCount + 1)
  <2>1. \A c : /\ Extra(c, FieldCount + 1)' = Extra(c, FieldCount + 1)
               /\ PresentBefore(c, FieldCount + 1)' = PresentBefore(c, FieldCount + 1)
    BY <1>1, <1>2 DEF Extra, PresentBefore
  <2>. QED
    BY <1>1, <2>1 DEF Summed
<1>8. idx' = idx => Summed(idx)' = Summed(idx)
  <2>1. idx' = idx => \A c : /\ Extra(c, idx)' = Extra(c, idx)
                             /\ PresentBefore(c, idx)' = PresentBefore(c, idx)
    BY <1>1, <1>2 DEF Extra, PresentBefore
  <2>. QED
    BY <1>1, <2>1 DEF Summed
<1>. QED
  BY <1>1, <1>4, <1>5, <1>6, <1>7, <1>8

\* The arguments and the fields: the shapes of the fields are known.
LEMMA SumsFields ==
  ASSUME TypeInv, SumsInv, ParseArgs \/ ParseField
  PROVE  SumsInv'
<1>1. /\ phase \in {"args", "fields"} /\ phase' \in {"fields", "rejected"}
      /\ sums = [s \in {0} |-> {}] /\ UNCHANGED << decl, sums >>
      /\ rejected = "none" /\ rejected' # "sums" /\ (phase' = "fields" => rejected' = "none")
  BY DEF SumsInv, ParseArgs, ParseField, Enter, Reject
<1>2. \A i \in 1 .. FieldCount' : layouts'[i].shape \in {"plain", "vec", decl.option}
  <2>1. CASE layouts' = layouts
    BY <2>1 DEF SumsInv, FieldCount
  <2>2. CASE layouts' # layouts
    <3>. DEFINE f == decl.fields[idx]
    <3>1. layouts' = Append(layouts, Classify(f)) /\ FieldSupported(f)
      BY <2>2 DEF ParseArgs, ParseField
    <3>2. Classify(f).shape \in {"plain", "vec", decl.option}
      BY <3>1 DEF Classify, FieldSupported
    <3>3. layouts \in Seq(FieldLayout) /\ FieldCount \in Nat
      BY DEF TypeInv, ExpandTypeOK, FieldCount
    <3>. HIDE DEF f
    <3>4. /\ Len(layouts') = FieldCount + 1 /\ layouts'[FieldCount + 1] = Classify(f)
          /\ \A i \in 1 .. FieldCount : layouts'[i] = layouts[i]
      BY <3>1, <3>3 DEF FieldCount
    <3>5. \A i \in 1 .. FieldCount' : i \in 1 .. FieldCount \/ i = FieldCount + 1
      BY <3>3, <3>4 DEF FieldCount
    <3>. QED
      BY <3>2, <3>4, <3>5 DEF SumsInv
  <2>. QED
    BY <2>1, <2>2
<1>. QED
  BY <1>1, <1>2 DEF SumsInv, SumsRejectionJustified

\* An implicit layout has only plain fields and options.
LEMMA SumsEntry ==
  ASSUME TypeInv, SumsInv, CheckStructOptions
  PROVE  SumsInv'
<1>1. /\ phase = "fields" /\ sums = [s \in {0} |-> {}] /\ UNCHANGED << decl, sums, layouts >>
      /\ rejected = "none"
      /\ \/ decl.option # "implicit" /\ phase' = "align" /\ rejected' = "none"
         \/ phase' = "rejected" /\ rejected' = "options"
         \/ /\ decl.option = "implicit" /\ phase' = "sums" /\ idx' = 1 /\ rejected' = "none"
            /\ \A i \in DOMAIN layouts : layouts[i].shape # "vec"
  BY DEF SumsInv, CheckStructOptions, Enter, Reject
<1>2. /\ FieldCount' = FieldCount /\ FieldCount \in Nat /\ OptionsOnly' = OptionsOnly
      /\ Summed(1)' = Summed(1) /\ Summed(1)
  BY <1>1, SameSums, AlignTypes, SummedFirst
<1>3. \A i \in 1 .. FieldCount' : layouts'[i].shape \in {"plain", "vec", decl.option}
  BY <1>1, <1>2 DEF SumsInv
<1>4. CASE phase' # "sums"
  BY <1>1, <1>3, <1>4 DEF SumsInv, SumsRejectionJustified
<1>5. CASE phase' = "sums"
  <2>1. DOMAIN layouts = 1 .. FieldCount
    BY DEF TypeInv, ExpandTypeOK, FieldCount
  <2>2. OptionsOnly
    BY <1>1, <1>5, <2>1 DEF SumsInv, OptionsOnly
  <2>3. idx' = 1 /\ rejected' = "none"
    BY <1>1, <1>5
  <2>4. Summed(idx)'
    BY <1>2, <2>3 DEF Summed, Extra, PresentBefore
  <2>. QED
    BY <1>1, <1>2, <1>3, <1>5, <2>2, <2>3, <2>4 DEF SumsInv, SumsRejectionJustified
<1>. QED
  BY <1>4, <1>5

\* One more payload, or two contents of one length.
LEMMA SumsAdd ==
  ASSUME TypeInv, SumsInv, AddPayload
  PROVE  SumsInv'
<1>. DEFINE l == layouts[idx]
            size == Size(l.kind)
            extended == {s + size : s \in DOMAIN sums}
<1>1. /\ phase = "sums" /\ idx \in 1 .. FieldCount /\ rejected = "none"
      /\ OptionsOnly /\ Summed(idx) /\ UNCHANGED << decl, layouts >>
  BY AlignTypes DEF SumsInv, AddPayload, FieldCount
<1>2. \/ /\ l.shape # "implicit" /\ idx' = idx + 1 /\ UNCHANGED << phase, rejected, sums >>
      \/ /\ l.shape = "implicit" /\ extended \cap DOMAIN sums = {}
         /\ sums' = [s \in DOMAIN sums \cup extended |->
                       IF s \in DOMAIN sums THEN sums[s] ELSE sums[s - size] \cup {l.bit}]
         /\ idx' = idx + 1 /\ UNCHANGED << phase, rejected >>
      \/ /\ l.shape = "implicit" /\ extended \cap DOMAIN sums # {}
         /\ phase' = "rejected" /\ UNCHANGED << idx, sums >>
  BY DEF AddPayload, Reject
<1>3. /\ FieldCount' = FieldCount /\ Contents' = Contents
      /\ \A c : FieldStarts(c)' = FieldStarts(c)
      /\ Fewest' = Fewest
  BY <1>1, SameContents DEF Fewest
<1>4. FieldStarts(Fewest)' = FieldStarts(Fewest)
  BY <1>1, <1>3 DEF FieldStarts
<1>5. \A c, i : Extra(c, i)' = Extra(c, i) /\ PresentBefore(c, i)' = PresentBefore(c, i)
  BY <1>1, <1>3, <1>4 DEF Extra, PresentBefore
<1>6. OptionsOnly' /\ \A i \in 1 .. FieldCount' : layouts'[i].shape \in {"plain", "vec", decl'.option}
  BY <1>1, <1>3 DEF OptionsOnly, SumsInv
<1>7. ASSUME UNCHANGED << phase, rejected >>, idx' = idx + 1,
             DOMAIN sums' = {Extra(c, idx + 1) : c \in Contents},
             \A c \in Contents : sums'[Extra(c, idx + 1)] = PresentBefore(c, idx + 1)
      PROVE  SumsInv'
  <2>1. \A c : Extra(c, idx)' = Extra(c, idx + 1) /\ PresentBefore(c, idx)' = PresentBefore(c, idx + 1)
    BY <1>1, <1>3, <1>4, <1>7 DEF Extra, PresentBefore
  <2>2. Summed(idx)'
    BY <1>3, <1>7, <2>1 DEF Summed
  <2>3. idx' <= FieldCount' + 1
    BY <1>1, <1>3, <1>7, AlignTypes
  <2>. QED
    BY <1>1, <1>6, <1>7, <2>2, <2>3 DEF SumsInv, SumsRejectionJustified
<1>8. CASE l.shape # "implicit"
  <2>1. idx' = idx + 1 /\ UNCHANGED << phase, rejected, sums >>
    BY <1>2, <1>8
  <2>2. \A c \in Contents : /\ Extra(c, idx + 1) = Extra(c, idx)
                            /\ PresentBefore(c, idx + 1) = PresentBefore(c, idx)
    BY <1>1, <1>8, ExtraStep
  <2>3. /\ DOMAIN sums = {Extra(c, idx) : c \in Contents}
        /\ \A c \in Contents : sums[Extra(c, idx)] = PresentBefore(c, idx)
    BY <1>1 DEF Summed
  <2>4. /\ DOMAIN sums' = {Extra(c, idx + 1) : c \in Contents}
        /\ \A c \in Contents : sums'[Extra(c, idx + 1)] = PresentBefore(c, idx + 1)
    BY <2>1, <2>2, <2>3
  <2>. QED
    BY <1>7, <2>1, <2>4
<1>9. CASE l.shape = "implicit" /\ extended \cap DOMAIN sums = {}
  <2>1. /\ sums' = [s \in DOMAIN sums \cup extended |->
                      IF s \in DOMAIN sums THEN sums[s] ELSE sums[s - size] \cup {l.bit}]
        /\ idx' = idx + 1 /\ UNCHANGED << phase, rejected >>
    BY <1>2, <1>9
  <2>2. OptionsOnly /\ idx \in 1 .. FieldCount /\ Summed(idx)
    BY <1>1
  <2>3. /\ DOMAIN sums' = {Extra(c, idx + 1) : c \in Contents}
        /\ \A c \in Contents : sums'[Extra(c, idx + 1)] = PresentBefore(c, idx + 1)
    BY ONLY TypeInv, <1>9, <2>1, <2>2, SummedNext
  <2>. QED
    BY <1>7, <2>1, <2>3
<1>10. CASE l.shape = "implicit" /\ extended \cap DOMAIN sums # {}
  <2>1. phase' = "rejected" /\ UNCHANGED << layouts, sums >>
    BY <1>1, <1>2, <1>10
  <2>2. PICK s \in DOMAIN sums : s + size \in DOMAIN sums
    BY <1>10
  <2>3. \E c, d \in Contents : c # d /\ Total(c) = Total(d)
    BY <1>1, <1>10, <2>2, SumTwice
  <2>4. SumsRejectionJustified'
    BY <2>1, <2>3, SameSums DEF SumsRejectionJustified
  <2>. QED
    BY <1>6, <2>1, <2>4 DEF SumsInv
<1>. QED
  BY <1>8, <1>9, <1>10

\* The later passes leave the sums alone.
LEMMA SumsLater ==
  ASSUME TypeInv, SumsInv, UNCHANGED << decl, layouts, sums >>,
         \/ /\ phase = "sums" /\ idx > FieldCount /\ phase' = "align" /\ rejected' = rejected
         \/ /\ phase \in {"align", "emit"}
            /\ \/ phase' \in {"align", "emit", "emitted"} /\ rejected' = rejected
               \/ phase' = "rejected" /\ rejected' # "sums"
  PROVE  SumsInv'
<1>1. /\ FieldCount' = FieldCount /\ FieldCount \in Nat /\ idx \in Nat /\ OptionsOnly' = OptionsOnly
      /\ \A i : Summed(i)' = Summed(i)
  BY SameSums, AlignTypes
<1>2. Summed(FieldCount + 1)' = Summed(FieldCount + 1)
  BY SameSums
<1>3. phase = "sums" => Summed(FieldCount + 1) /\ OptionsOnly
  <2>1. phase = "sums" => idx = FieldCount + 1 /\ Summed(idx) /\ OptionsOnly
    BY <1>1 DEF SumsInv
  <2>. QED
    BY <2>1
<1>4. \A i \in 1 .. FieldCount' : layouts'[i].shape \in {"plain", "vec", decl'.option}
  BY <1>1 DEF SumsInv
<1>. QED
  BY <1>1, <1>2, <1>3, <1>4 DEF SumsInv, SumsRejectionJustified

LEMMA StepSums ==
  ASSUME TypeInv, SumsInv, ExpandNext
  PROVE  SumsInv'
<1>. USE DEF Enter, Reject, NextAligned, FieldCount
<1>1. CASE ParseArgs \/ ParseField
  BY <1>1, SumsFields
<1>2. CASE CheckStructOptions
  BY <1>2, SumsEntry
<1>3. CASE AddPayload
  BY <1>3, SumsAdd
<1>4. CASE SumsDone
  BY <1>4, SumsLater DEF SumsDone
<1>5. CASE NeedsNoAlignment
  BY <1>5, SumsLater DEF NeedsNoAlignment
<1>6. CASE AlignmentBeyondBase
  BY <1>6, SumsLater DEF AlignmentBeyondBase
<1>7. CASE AddPossibleLen
  BY <1>7, SumsLater DEF AddPossibleLen, ResiduesApply
<1>8. CASE CheckResidues
  <2>1. /\ phase = "align" /\ UNCHANGED << decl, layouts, sums >>
        /\ \/ phase' = phase /\ rejected' = rejected
           \/ phase' = "rejected" /\ rejected' = "alignment"
    BY <1>8 DEF CheckResidues, ResiduesApply
  <2>. QED
    BY <2>1, SumsLater
<1>9. CASE AlignmentDone
  BY <1>9, SumsLater DEF AlignmentDone
<1>10. CASE EmitField
  BY <1>10, SumsLater DEF EmitField
<1>11. CASE EmitDone
  BY <1>11, SumsLater DEF EmitDone
<1>. QED
  BY <1>1, <1>2, <1>3, <1>4, <1>5, <1>6, <1>7, <1>8, <1>9, <1>10, <1>11 DEF ExpandNext

LEMMA StutterSums ==
  ASSUME SumsInv, UNCHANGED expandVars
  PROVE  SumsInv'
<1>1. UNCHANGED << decl, layouts, phase, idx, sums, rejected >>
  BY DEF expandVars
<1>2. /\ FieldCount' = FieldCount /\ OptionsOnly' = OptionsOnly
      /\ (\E c, d \in Contents : c # d /\ Total(c) = Total(d))'
           = \E c, d \in Contents : c # d /\ Total(c) = Total(d)
  BY <1>1, SameSums
<1>3. Summed(idx)' = Summed(idx) /\ Summed(FieldCount + 1)' = Summed(FieldCount + 1)
  BY <1>1, SameSums
<1>. QED
  BY <1>1, <1>2, <1>3 DEF SumsInv, SumsRejectionJustified

LEMMA SumsInvariant == ExpandSpec => [](TypeInv /\ SumsInv)
<1>1. ExpandInit => TypeInv /\ SumsInv
  <2>1. ExpandInit => SumsInv
    BY DEF ExpandInit, SumsInv, SumsRejectionJustified, FieldCount
  <2>. QED
    BY <2>1, InitTypes
<1>2. TypeInv /\ SumsInv /\ [ExpandNext \/ ExpandStopped]_expandVars => (TypeInv /\ SumsInv)'
  <2>. SUFFICES ASSUME TypeInv, SumsInv, [ExpandNext \/ ExpandStopped]_expandVars
                PROVE  (TypeInv /\ SumsInv)'
    OBVIOUS
  <2>1. CASE ExpandNext
    BY <2>1, StepTypes, StepSums
  <2>2. CASE UNCHANGED expandVars
    BY <2>2, StutterTypes, StutterSums
  <2>. QED
    BY <2>1, <2>2 DEF ExpandStopped
<1>. QED
  BY <1>1, <1>2, PTL DEF ExpandSpec

(* implicit_len_map refuses a struct only when two of its contents really  *)
(* have encodings of the same length.                                      *)
THEOREM SumsRejectionReal == ExpandSpec => []SumsRejectionJustified
<1>1. TypeInv /\ SumsInv => SumsRejectionJustified
  BY DEF SumsInv
<1>. QED
  BY <1>1, SumsInvariant, PTL

\* The lengths, the sums and the contents in one state.
LEMMA LengthsIdentify ==
  ASSUME TypeInv, LengthsInv, SumsInv
  PROVE  ImplicitLengthsIdentify
<1>. SUFFICES ASSUME phase = "emitted", decl.option = "implicit"
              PROVE  /\ ImplicitLens = lens
                     /\ \A c \in Contents :
                          MaskForLen(Total(c)) =
                            {layouts[i].bit : i \in {j \in 1 .. FieldCount :
                                                      layouts[j].shape = "implicit" /\ c[j] = 1}}
  BY DEF ImplicitLengthsIdentify
<1>1. PICK n \in Nat : n = FieldCount + 1 /\ n - 1 = FieldCount /\ n \in 1 .. FieldCount + 1
  BY AlignTypes
<1>2. OptionsOnly /\ Summed(n) /\ Bounded(n)
  BY <1>1 DEF SumsInv, LengthsInv
<1>3. lens = StartsOf(n)
  <2>1. ~ \E j \in 1 .. n - 1 : layouts[j].shape = "vec"
    BY <1>1, <1>2 DEF OptionsOnly
  <2>. QED
    BY <1>2, <2>1 DEF Bounded
<1>4. ASSUME NEW c \in Contents
      PROVE  /\ FieldStarts(c)[n] = minLen + Extra(c, n) /\ FieldStarts(c)[n] - minLen = Extra(c, n)
  <2>1. FieldStarts(c)[n] \in Nat /\ FieldStarts(Fewest)[n] \in Nat
    BY <1>1, FewestIsContents, StartsEquation, SomeContents
  <2>2. minLen = FieldStarts(Fewest)[n]
    BY <1>2 DEF Bounded
  <2>. QED
    BY <2>1, <2>2 DEF Extra
<1>5. ImplicitLens = lens
  <2>1. DOMAIN sums = {Extra(c, n) : c \in Contents}
    BY <1>2 DEF Summed
  <2>2. ImplicitLens = {minLen + Extra(c, n) : c \in Contents}
    BY <2>1 DEF ImplicitLens
  <2>3. StartsOf(n) = {minLen + Extra(c, n) : c \in Contents}
    BY <1>4 DEF StartsOf
  <2>. QED
    BY <1>3, <2>2, <2>3
<1>6. ASSUME NEW c \in Contents
      PROVE  MaskForLen(Total(c)) =
               {layouts[i].bit : i \in {j \in 1 .. FieldCount :
                                         layouts[j].shape = "implicit" /\ c[j] = 1}}
  <2>1. Total(c) = FieldStarts(c)[n]
    BY <1>1 DEF Total
  <2>2. MaskForLen(Total(c)) = PresentBefore(c, n)
    BY <1>2, <1>4, <2>1 DEF MaskForLen, Summed
  <2>. QED
    BY <1>1, <2>2 DEF PresentBefore
<1>. QED
  BY <1>5, <1>6

(* In an implicit layout the length of an encoding says which options are  *)
(* present, and the lengths the decoder accepts (exact_data_lens) are the  *)
(* ones the map knows (implicit_len_map).                                  *)
THEOREM LengthsIdentifyOptions == ExpandSpec => []ImplicitLengthsIdentify
<1>1. TypeInv /\ LengthsInv /\ SumsInv => ImplicitLengthsIdentify
  BY LengthsIdentify
<1>. QED
  BY <1>1, LengthsInvariant, SumsInvariant, PTL
=============================================================================
