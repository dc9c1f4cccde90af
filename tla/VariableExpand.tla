---------------------------- MODULE VariableExpand ----------------------------
(***************************************************************************)
(* The expansion of #[variable_offset_layout(...)] over one struct: from   *)
(* the declaration to either a compile error or the constants, offsets and *)
(* checks the generated code is made of.                                   *)
(*                                                                         *)
(* One action per pass of expand_variable_offset_layout, and one step per  *)
(* iteration of its loops: parse the arguments, classify the fields, the   *)
(* subset sums of an implicit layout, the residues that guarantee the      *)
(* alignment of borrowed fields, then the loop that emits the fields.      *)
(*                                                                         *)
(* A definition marked "Fault" is not part of the model: it is how the     *)
(* definition after it would read with a mistake in it, and a property has *)
(* to notice the difference.                                               *)
(***************************************************************************)
EXTENDS LayoutTypes, FiniteSets

CONSTANTS
  BaseAlign,    \* alignment the original input buffer is assumed to have: 8
  MaxImplicit,  \* most implicit options of a struct, bits of a u128: 128
  Decls,        \* the annotated structs the macro is run on
  MaxCount      \* the properties enumerate Vecs of up to MaxCount elements

Unaligned == -1     \* buffer_offset = unaligned
Missing   == -2     \* no buffer_offset argument
Variable  == -1     \* FieldOffset::VariableOffset

(* A field as the struct declares it: its type, the kind of its value or   *)
(* elements, and the widths of its #[flexible = N] attributes.             *)
FieldDecl == [type : {"value", "option", "vec", "option_vec"},
              kind : [name : KindNames \cup {"string", "struct"},
                      int : PrimitiveSizes, len : Nat],
              flexible : Seq(Nat)]

ASSUME BaseAlignAssumption == BaseAlign \in {1, 2, 4, 8} /\ MaxImplicit \in Nat
ASSUME MaxCountAssumption == MaxCount \in Nat
ASSUME DeclsAssumption ==
  \A d \in Decls : /\ d.option \in STRING
                   /\ d.buffer \in Nat \cup {Unaligned, Missing}
                   /\ d.fields \in Seq(FieldDecl) /\ d.fields # << >>

VARIABLES
  decl,        \* the struct under expansion: option, buffer, fields
  phase,       \* the pass the macro is in
  idx,         \* field of the current pass
  layouts,     \* FieldLayout of the fields parsed so far
  nextBit,     \* implicit_option_index
  sums,        \* extra encoded length -> set of the implicit bits that make it
  prior,       \* earlier field whose length is added to `residues` next
  residues,    \* where the field idx may start, modulo its alignment
  offsets,     \* field_offsets: a fixed offset, or Variable
  offset,      \* accumulated fixed offset
  seenVariable,\* seen_variable_sized_field
  minLen,      \* __MIN_DATA_LEN
  maxLen,      \* __MAX_DATA_LEN
  lens,        \* exact_data_lens; {} stands for None (a struct with a Vec)
  rejected     \* the check that refused the struct, or "none"

expandVars == << decl, phase, idx, layouts, nextBit, sums, prior, residues,
                 offsets, offset, seenVariable, minLen, maxLen, lens, rejected >>
loopVars == << prior, residues >>
emitVars == << offsets, offset, seenVariable, minLen, maxLen, lens >>

-----------------------------------------------------------------------------
(* Field layouts.  A plain, tagged or implicit value holds a `kind`; so do *)
(* the elements of a vec.  `bit` is the index of an implicit option and    *)
(* `width` the width of a length header; both are 0 where they mean        *)
(* nothing.                                                                *)

FieldLayout == [shape : {"plain", "tagged", "implicit", "vec"},
                kind : FixedValueKind, bit : Nat, width : 0 .. MaxLenWidth]

\* Fault: an Option taken for a fixed-size slot.
IsFixedOrTagged(l) == l.shape \in {"plain", "tagged"}

IsFixed(l) == l.shape = "plain"

\* Fault: one element too many for the header.
CapacityOffByOne(width) ==
  CASE width = 1 -> Radix
    [] width = 2 -> Radix * Radix
    [] OTHER     -> Radix * Radix * Radix * Radix

\* Largest number of elements a header of `width` bytes may announce; with
\* eight bytes it stays at the largest u32.
Capacity(width) ==
  LET r2 == Radix * Radix  r4 == r2 * r2
  IN CASE width = 1 -> Radix - 1
       [] width = 2 -> r2 - 1
       [] width = 3 -> r2 * Radix - 1
       [] width = 4 -> r4 - 1
       [] width = 5 -> r4 * Radix - 1
       [] width = 6 -> r4 * r2 - 1
       [] width = 7 -> r4 * r2 * Radix - 1
       [] OTHER     -> r4 - 1

(* slot_minmax_len: what a field adds to the bounds. *)
SlotMinLen(l) ==
  CASE l.shape = "plain"    -> Size(l.kind)
    [] l.shape = "tagged"   -> 1
    [] l.shape = "implicit" -> 0
    [] l.shape = "vec"      -> l.width

\* Fault: the tag byte missing from the upper bound.
SlotMaxLenUntagged(l) ==
  IF l.shape = "vec" THEN l.width + Size(l.kind) * Capacity(l.width) ELSE Size(l.kind)

SlotMaxLen(l) ==
  CASE l.shape = "plain"    -> Size(l.kind)
    [] l.shape = "tagged"   -> 1 + Size(l.kind)
    [] l.shape = "implicit" -> Size(l.kind)
    [] l.shape = "vec"      -> l.width + Size(l.kind) * Capacity(l.width)

(* exact_data_lens: the lengths of one field, {} if it is a Vec. *)
SlotLens(l) ==
  CASE l.shape = "plain"    -> {Size(l.kind)}
    [] l.shape = "tagged"   -> {1, 1 + Size(l.kind)}
    [] l.shape = "implicit" -> {0, Size(l.kind)}
    [] l.shape = "vec"      -> {}

-----------------------------------------------------------------------------
(* Alignment of borrowed fields. *)

\* borrowed_requirement: the getter returns a reference that has to be aligned.
Borrows(l) == IF l.shape = "vec" THEN Align(l.kind) > 1 ELSE IsRef(l.kind)

PayloadShift(l) ==
  CASE l.shape = "tagged" -> 1
    [] l.shape = "vec"    -> l.width
    [] OTHER              -> 0

Gcd(a, b) ==
  CHOOSE d \in 1 .. a : /\ a % d = 0 /\ b % d = 0
                        /\ \A e \in 1 .. a : a % e = 0 /\ b % e = 0 => e <= d

\* Fault: elements counted as single bytes.
PossibleLenResiduesOfBytes(l, modulus) ==
  CASE l.shape = "plain"    -> {Size(l.kind) % modulus}
    [] l.shape = "tagged"   -> {1 % modulus, (1 + Size(l.kind)) % modulus}
    [] l.shape = "implicit" -> {0, Size(l.kind) % modulus}
    [] l.shape = "vec"      -> {(l.width + k) % modulus : k \in 0 .. modulus - 1}

\* The residues of a Vec's length repeat with the period; a header that cannot
\* count that far stops earlier.
PossibleLenResidues(l, modulus) ==
  LET size == Size(l.kind)
      period == modulus \div Gcd(modulus, size)
      counts == {k \in 0 .. modulus - 1 : k <= Capacity(l.width) /\ k <= period - 1}
  IN IF modulus = 1 THEN {0}
     ELSE CASE l.shape = "plain"    -> {size % modulus}
            [] l.shape = "tagged"   -> {1 % modulus, (1 + size) % modulus}
            [] l.shape = "implicit" -> {0, size % modulus}
            [] l.shape = "vec"      -> {(l.width + k * size) % modulus : k \in counts}

\* Fault: buffer_offset and the header left out.
ShiftResiduesUnshifted(rs, shift, modulus) == {r % modulus : r \in rs}

ShiftResidues(rs, shift, modulus) == {(r + shift) % modulus : r \in rs}
-----------------------------------------------------------------------------
(* Expansion. *)

ExpandInit ==
  /\ decl \in Decls
  /\ phase = "args" /\ idx = 1 /\ rejected = "none"
  /\ layouts = << >> /\ nextBit = 0
  /\ sums = [s \in {0} |-> {}]
  /\ prior = 1 /\ residues = {0}
  /\ offsets = << >> /\ offset = 0 /\ seenVariable = FALSE
  /\ minLen = 0 /\ maxLen = 0 /\ lens = {0}

Reject(why) == phase' = "rejected" /\ rejected' = why

Enter(next) == phase' = next /\ idx' = 1

ArgsSupported ==
  /\ decl.option \in {"tagged", "implicit"}
  /\ decl.buffer = Unaligned \/ decl.buffer \in 0 .. BaseAlign - 1

\* parse_args: `option = implicit` or nothing, and a mandatory buffer_offset.
ParseArgs ==
  /\ phase = "args"
  /\ IF ArgsSupported THEN Enter("fields") /\ UNCHANGED rejected
                      ELSE Reject("args") /\ UNCHANGED idx
  /\ UNCHANGED << decl, layouts, nextBit, sums, loopVars, emitVars >>

\* Fault: the range of N in #[flexible = N] unchecked.
FieldSupportedAnyWidth(f) ==
  /\ f.kind.name \in KindNames
  /\ \/ f.type = "vec" /\ Len(f.flexible) = 1 /\ f.kind.name # "bool"
     \/ f.type \in {"value", "option"} /\ Len(f.flexible) = 0

\* parse_field_attr, vec_inner, option_inner and parse_value_kind all accept.
FieldSupported(f) ==
  /\ \A i \in DOMAIN f.flexible : f.flexible[i] \in 1 .. MaxLenWidth
  /\ f.kind.name \in KindNames
  /\ \/ f.type = "vec" /\ Len(f.flexible) = 1 /\ f.kind.name # "bool"
     \/ f.type \in {"value", "option"} /\ Len(f.flexible) = 0

Classify(f) ==
  [shape |-> CASE f.type = "vec"    -> "vec"
               [] f.type = "value"  -> "plain"
               [] f.type = "option" -> decl.option,
   kind  |-> f.kind,
   bit   |-> IF f.type = "option" /\ decl.option = "implicit" THEN nextBit ELSE 0,
   width |-> IF f.type = "vec" THEN f.flexible[1] ELSE 0]

\* parse_field_layout, for the fields in order.
ParseField ==
  /\ phase = "fields" /\ idx <= Len(decl.fields)
  /\ LET f == decl.fields[idx]
     IN IF FieldSupported(f)
        THEN /\ layouts' = Append(layouts, Classify(f))
             /\ nextBit' = IF Classify(f).shape = "implicit" THEN nextBit + 1 ELSE nextBit
             /\ idx' = idx + 1
             /\ UNCHANGED << phase, rejected >>
        ELSE Reject("field") /\ UNCHANGED << idx, layouts, nextBit >>
  /\ UNCHANGED << decl, sums, loopVars, emitVars >>

\* validate_struct_options, with the entry check of implicit_len_map: an
\* implicit layout has no Vec, and from one to MaxImplicit options.
CheckStructOptions ==
  /\ phase = "fields" /\ idx > Len(decl.fields)
  /\ \/ decl.option # "implicit" /\ Enter("align") /\ UNCHANGED rejected
     \/ /\ decl.option = "implicit"
        /\ IF /\ \A i \in DOMAIN layouts : layouts[i].shape # "vec"
              /\ nextBit \in 1 .. MaxImplicit
           THEN Enter("sums") /\ UNCHANGED rejected
           ELSE Reject("options") /\ UNCHANGED idx
  /\ UNCHANGED << decl, layouts, nextBit, sums, loopVars, emitVars >>

\* Fault: a sum that exists already is overwritten.
AddPayloadUnchecked ==
  /\ phase = "sums" /\ idx <= Len(layouts)
  /\ LET l == layouts[idx]
         extended == IF l.shape = "implicit" THEN {s + Size(l.kind) : s \in DOMAIN sums} ELSE {}
     IN sums' = [s \in DOMAIN sums \cup extended |->
                   IF s \in extended THEN sums[s - Size(l.kind)] \cup {l.bit} ELSE sums[s]]
  /\ idx' = idx + 1
  /\ UNCHANGED << decl, phase, rejected, layouts, nextBit, loopVars, emitVars >>

\* Fault: plain fields are summed as if they could be absent.
AddPayloadOfAll ==
  /\ phase = "sums" /\ idx <= Len(layouts)
  /\ LET l == layouts[idx]
         extended == {s + Size(l.kind) : s \in DOMAIN sums}
     IN IF extended \cap DOMAIN sums = {}
        THEN /\ sums' = [s \in DOMAIN sums \cup extended |->
                           IF s \in DOMAIN sums THEN sums[s] ELSE sums[s - Size(l.kind)] \cup {l.bit}]
             /\ idx' = idx + 1 /\ UNCHANGED << phase, rejected >>
        ELSE Reject("sums") /\ UNCHANGED << idx, sums >>
  /\ UNCHANGED << decl, layouts, nextBit, loopVars, emitVars >>

\* One payload of implicit_len_map: every sum so far, with and without it.
AddPayload ==
  /\ phase = "sums" /\ idx <= Len(layouts)
  /\ LET l == layouts[idx]
         size == Size(l.kind)
         extended == {s + size : s \in DOMAIN sums}
     IN \/ l.shape # "implicit" /\ idx' = idx + 1 /\ UNCHANGED << phase, rejected, sums >>
        \/ /\ l.shape = "implicit"
           /\ IF extended \cap DOMAIN sums = {}
              THEN /\ sums' = [s \in DOMAIN sums \cup extended |->
                                 IF s \in DOMAIN sums THEN sums[s]
                                                      ELSE sums[s - size] \cup {l.bit}]
                   /\ idx' = idx + 1 /\ UNCHANGED << phase, rejected >>
              ELSE Reject("sums") /\ UNCHANGED << idx, sums >>
  /\ UNCHANGED << decl, layouts, nextBit, loopVars, emitVars >>

SumsDone ==
  /\ phase = "sums" /\ idx > Len(layouts)
  /\ Enter("align")
  /\ UNCHANGED << decl, layouts, nextBit, sums, rejected, loopVars, emitVars >>

-----------------------------------------------------------------------------
(* validate_borrowed_field_alignment, for the field idx.  The set of start *)
(* residues is built one earlier field at a time.                          *)

NextAligned == idx' = idx + 1 /\ prior' = 1 /\ residues' = {0}

\* No reference is handed out, or one that any address satisfies.
NeedsNoAlignment ==
  /\ phase = "align" /\ idx <= Len(layouts)
  /\ LET l == layouts[idx]
     IN ~Borrows(l) \/ (decl.buffer = Unaligned /\ Align(l.kind) = 1)
  /\ NextAligned
  /\ UNCHANGED << decl, phase, rejected, layouts, nextBit, sums, emitVars >>

\* Only the alignment of the base is known, and only at a fixed offset.
AlignmentBeyondBase ==
  /\ phase = "align" /\ idx <= Len(layouts)
  /\ LET l == layouts[idx]
     IN Borrows(l) /\ Align(l.kind) > (IF decl.buffer = Unaligned THEN 1 ELSE BaseAlign)
  /\ Reject("alignment")
  /\ UNCHANGED << decl, idx, layouts, nextBit, sums, loopVars, emitVars >>

ResiduesApply ==
  /\ phase = "align" /\ idx <= Len(layouts)
  /\ decl.buffer # Unaligned
  /\ Borrows(layouts[idx]) /\ Align(layouts[idx].kind) <= BaseAlign

\* possible_start_residues: one more of the fields before idx.
AddPossibleLen ==
  /\ ResiduesApply /\ prior < idx
  /\ LET modulus == Align(layouts[idx].kind)
     IN residues' = {(r + len) % modulus :
                       r \in residues, len \in PossibleLenResidues(layouts[prior], modulus)}
  /\ prior' = prior + 1
  /\ UNCHANGED << decl, phase, idx, rejected, layouts, nextBit, sums, emitVars >>

CheckResidues ==
  /\ ResiduesApply /\ prior = idx
  /\ LET l == layouts[idx]
         aligned == ShiftResidues(residues, decl.buffer + PayloadShift(l), Align(l.kind))
     IN IF aligned = {0}
        THEN NextAligned /\ UNCHANGED << phase, rejected >>
        ELSE Reject("alignment") /\ UNCHANGED << idx, loopVars >>
  /\ UNCHANGED << decl, layouts, nextBit, sums, emitVars >>

AlignmentDone ==
  /\ phase = "align" /\ idx > Len(layouts)
  /\ Enter("emit")
  /\ UNCHANGED << decl, layouts, nextBit, sums, rejected, loopVars, emitVars >>

-----------------------------------------------------------------------------
(* The main loop: the offset of the field, the bounds and the exact        *)
(* lengths.                                                                *)
EmitField ==
  /\ phase = "emit" /\ idx <= Len(layouts)
  /\ LET l == layouts[idx]
     IN /\ offsets' = Append(offsets, IF seenVariable THEN Variable ELSE offset)
        /\ offset' = IF IsFixed(l) THEN offset + SlotMinLen(l) ELSE offset
        /\ seenVariable' = (seenVariable \/ ~IsFixed(l))
        /\ minLen' = minLen + SlotMinLen(l)
        /\ maxLen' = maxLen + SlotMaxLen(l)
        /\ lens' = {total + slot : total \in lens, slot \in SlotLens(l)}
  /\ idx' = idx + 1
  /\ UNCHANGED << decl, phase, rejected, layouts, nextBit, sums, loopVars >>

EmitDone ==
  /\ phase = "emit" /\ idx > Len(layouts)
  /\ Enter("emitted")
  /\ UNCHANGED << decl, layouts, nextBit, sums, rejected, loopVars, emitVars >>

ExpandNext ==
  \/ ParseArgs \/ ParseField \/ CheckStructOptions
  \/ AddPayload \/ SumsDone
  \/ NeedsNoAlignment \/ AlignmentBeyondBase \/ AddPossibleLen \/ CheckResidues
  \/ AlignmentDone \/ EmitField \/ EmitDone

-----------------------------------------------------------------------------
(* __implicit_option_mask_for_len: the bits present at a total length.     *)
ImplicitLens == {minLen + extra : extra \in DOMAIN sums}
MaskForLen(len) == sums[len - minLen]

\* Fault: the tag of a present option not counted.
EncodedFieldLenNoTag(l, count) ==
  CASE l.shape = "plain"    -> Size(l.kind)
    [] l.shape = "tagged"   -> IF count = 1 THEN Size(l.kind) ELSE 1
    [] l.shape = "implicit" -> IF count = 1 THEN Size(l.kind) ELSE 0
    [] l.shape = "vec"      -> l.width + count * Size(l.kind)

(* gen_encoded_len_step: what a field holding `count` values adds to       *)
(* encoded_len (0 or 1 for an option, the number of elements for a Vec).   *)
EncodedFieldLen(l, count) ==
  CASE l.shape = "plain"    -> Size(l.kind)
    [] l.shape = "tagged"   -> IF count = 1 THEN 1 + Size(l.kind) ELSE 1
    [] l.shape = "implicit" -> IF count = 1 THEN Size(l.kind) ELSE 0
    [] l.shape = "vec"      -> l.width + count * Size(l.kind)

-----------------------------------------------------------------------------
(* The specification: the macro stops when it has emitted its code or a    *)
(* compile error.                                                          *)
ExpandStopped == phase \in {"emitted", "rejected"} /\ UNCHANGED expandVars

ExpandSpec == ExpandInit /\ [][ExpandNext \/ ExpandStopped]_expandVars

-----------------------------------------------------------------------------
(* What the expansion promises.  The reference is the encoded form itself: *)
(* the contents a struct can have and where encoded_len puts each field.   *)

FieldCount == Len(layouts)

Counts(l) ==
  CASE l.shape = "plain" -> {1}
    [] l.shape = "vec"   -> {k \in 0 .. MaxCount : k <= Capacity(l.width)}
                              \cup {Capacity(l.width)}
    [] OTHER             -> {0, 1}

Contents == {c \in [1 .. FieldCount -> UNION {Counts(layouts[i]) : i \in 1 .. FieldCount}] :
               \A i \in 1 .. FieldCount : c[i] \in Counts(layouts[i])}

FieldStarts(c) ==
  LET at[i \in 1 .. FieldCount + 1] ==
        IF i = 1 THEN 0 ELSE at[i - 1] + EncodedFieldLen(layouts[i - 1], c[i - 1])
  IN at

Total(c) == FieldStarts(c)[FieldCount + 1]
Totals == {Total(c) : c \in Contents}

\* Where a buffer that satisfies buffer_offset may start.
LegalStarts ==
  IF decl.buffer = Unaligned THEN 0 .. 2 * BaseAlign - 1
                             ELSE {decl.buffer, decl.buffer + BaseAlign}

\* Field i of contents c is handed out as a reference that is not aligned.
BorrowedMisaligned(c, i) ==
  /\ Borrows(layouts[i]) /\ c[i] > 0
  /\ \E start \in LegalStarts :
       (start + FieldStarts(c)[i] + PayloadShift(layouts[i])) % Align(layouts[i].kind) # 0

(* Type correctness of the expansion state.                                *)
ExpandTypeOK ==
  /\ decl \in Decls
  /\ phase \in {"args", "fields", "sums", "align", "emit", "emitted", "rejected"}
  /\ rejected \in {"none", "args", "field", "options", "sums", "alignment"}
  /\ idx \in Nat \ {0} /\ prior \in Nat \ {0}
  /\ layouts \in Seq(FieldLayout) /\ nextBit \in Nat
  /\ DOMAIN sums \subseteq Nat /\ \A s \in DOMAIN sums : sums[s] \subseteq Nat
  /\ residues \subseteq Nat
  /\ offsets \in Seq(Nat \cup {Variable}) /\ offset \in Nat
  /\ seenVariable \in BOOLEAN
  /\ minLen \in Nat /\ maxLen \in Nat /\ lens \subseteq Nat

(* A struct the macro accepts never hands out a misaligned reference: for  *)
(* every contents and every legal buffer address, each borrowed value and  *)
(* each Vec slice starts at a multiple of its alignment                    *)
(* (validate_borrowed_field_alignment is sound).                           *)
AlignmentGuaranteed ==
  phase = "emitted" => \A c \in Contents, i \in 1 .. FieldCount : ~BorrowedMisaligned(c, i)

(* And it refuses a struct for alignment only when some contents at some   *)
(* legal address would be misaligned: the residues are not pessimistic.    *)
AlignmentRejectionJustified ==
  rejected = "alignment" => \E c \in Contents : BorrowedMisaligned(c, idx)

(* DATA_LEN, DATA_LENS and DATA_LEN_RANGE are exact: the accepted lengths  *)
(* of a struct without a Vec are the encoded ones, and the bounds of any   *)
(* struct are reached (three separate computations in the macro).          *)
LengthsExact ==
  phase = "emitted" =>
    /\ minLen \in Totals /\ maxLen \in Totals
    /\ \A t \in Totals : minLen <= t /\ t <= maxLen
    /\ lens = IF \E i \in 1 .. FieldCount : layouts[i].shape = "vec" THEN {} ELSE Totals

(* A getter may start from its field's fixed offset in every encoding.     *)
(* One that walks starts from the first variable-sized field, as the       *)
(* assert in find_data_offset demands, and has to walk: unless the values  *)
(* of that field take no bytes, its own starts at two places at least.     *)
FixedOffsetsExact ==
  phase = "emitted" =>
    \A i \in 1 .. FieldCount :
      IF offsets[i] # Variable
      THEN \A c \in Contents : FieldStarts(c)[i] = offsets[i]
      ELSE \E b \in 1 .. i - 1 :
             /\ offsets[b] # Variable /\ ~IsFixed(layouts[b])
             /\ \A k \in b + 1 .. i : offsets[k] = Variable
             /\ Size(layouts[b].kind) > 0 =>
                  \E c, d \in Contents : FieldStarts(c)[i] # FieldStarts(d)[i]

(* In an implicit layout the length of an encoding determines which        *)
(* options are present, and the two lists of accepted lengths the decoder  *)
(* checks in turn (exact_data_lens, implicit_len_map) are the same.        *)
ImplicitLengthsIdentify ==
  phase = "emitted" /\ decl.option = "implicit" =>
    /\ ImplicitLens = lens
    /\ \A c \in Contents :
         MaskForLen(Total(c)) =
           {layouts[i].bit : i \in {j \in 1 .. FieldCount : layouts[j].shape = "implicit" /\ c[j] = 1}}

(* An implicit layout is refused for its sums only when two different sets *)
(* of present options really encode to the same length.                    *)
SumsRejectionJustified ==
  rejected = "sums" =>
    \E c, d \in Contents : c # d /\ Total(c) = Total(d)
=============================================================================
