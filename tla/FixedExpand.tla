------------------------------ MODULE FixedExpand ------------------------------
(***************************************************************************)
(* The expansion of #[fixed_offset_layout] over one struct: one loop over  *)
(* the fields that reserves a slot for each, remembers what padding is     *)
(* missing, and places in the generated code the offset of every field.    *)
(*                                                                         *)
(* Two accumulators run side by side: `offset`, the position the generated *)
(* code uses, and `offsets`, the public constant OFFSETS whose last entry  *)
(* becomes the length of the struct.  A third, `totalLen`, is the sum      *)
(* printed as DATA_LEN or MIN_DATA_LEN, against which decode compares.     *)
(*                                                                         *)
(* A definition marked "Fault" is how the definition after it would read   *)
(* with a mistake in it; it is not part of the model.                      *)
(***************************************************************************)
EXTENDS LayoutTypes, FiniteSets

CONSTANTS
  BaseAlign,    \* alignment decode checks of the input buffer: 8
  Decls         \* the annotated structs the macro is run on

Bare == -1      \* an attribute without `= N`
MaxFlexWidth == 2
MaxCapacity == Radix * Radix - 1

(* A field as the struct declares it: its type, the kind of its value or   *)
(* elements, and its #[capacity] and #[flexible] attributes.               *)
Attribute == [name : {"capacity", "flexible"}, n : Nat \cup {Bare}]
FieldDecl == [type : {"value", "option", "vec", "option_vec"},
              kind : [name : KindNames \cup {"string", "struct"},
                      int : PrimitiveSizes, len : Nat],
              attrs : Seq(Attribute)]

ASSUME FixedBaseAlignAssumption == BaseAlign \in {1, 2, 4, 8}
ASSUME FixedDeclsAssumption ==
  \A d \in Decls : d.args \in STRING /\ d.fields \in Seq(FieldDecl)

VARIABLES
  decl,      \* the struct under expansion: args, fields
  phase,     \* args, fields, emitted or rejected
  idx,       \* field of the loop
  layouts,   \* FixedFieldKind of the fields so far
  offset,    \* where the next field goes, suggested padding included
  offsets,   \* OFFSETS, with one more entry
  placed,    \* the offset each field has in the generated code
  totalLen,  \* total_len_expr, or NoLength while it is empty
  issues,    \* layout_error: the padding asked for before a field, in order
  rejected   \* the check that refused the struct, or "none"

expandVars == << decl, phase, idx, layouts, offset, offsets, placed, totalLen, issues, rejected >>
loopVars == << layouts, offset, offsets, placed, totalLen, issues >>

NoLength == -1
TooAligned == 0     \* an issue no padding helps against

FixedLayout == [shape : {"plain", "option", "tail_option", "vec", "tail_vec"},
                kind : FixedValueKind, width : 0 .. MaxFlexWidth, capacity : Nat]

FieldCount == Len(layouts)
IsVec(l) == l.shape \in {"vec", "tail_vec"}
IsOption(l) == l.shape \in {"option", "tail_option"}
IsTail(l) == l.shape \in {"tail_option", "tail_vec"}
HasTail == FieldCount > 0 /\ IsTail(layouts[FieldCount])

-----------------------------------------------------------------------------
(* Parsing a field. *)

LenWidth(capacity) == IF capacity <= Radix - 1 THEN 1 ELSE 2

\* Fault: the range of N in #[flexible = N] unchecked.
AttributesSupportedAnyWidth(f, isLast) ==
  /\ Len(f.attrs) <= 1
  /\ \A i \in DOMAIN f.attrs :
       LET a == f.attrs[i]
       IN IF a.name = "capacity" THEN a.n \in 0 .. MaxCapacity ELSE isLast

\* parse_field_attr: at most one attribute, within its limits.
AttributesSupported(f, isLast) ==
  /\ Len(f.attrs) <= 1
  /\ \A i \in DOMAIN f.attrs :
       LET a == f.attrs[i]
       IN IF a.name = "capacity" THEN a.n \in 0 .. MaxCapacity
          ELSE isLast /\ a.n \in {Bare} \cup 1 .. MaxFlexWidth

\* parse_field_layout: a Vec needs a capacity or a width, an Option may only
\* have a bare #[flexible], and other fields no attribute.
FieldSupported(f, isLast) ==
  /\ AttributesSupported(f, isLast)
  /\ f.kind.name \in KindNames
  /\ \/ f.type = "vec" /\ f.kind.name # "bool" /\ Len(f.attrs) = 1 /\ f.attrs[1].n # Bare
     \/ f.type = "option" /\ \A i \in DOMAIN f.attrs : f.attrs[i].n = Bare
     \/ f.type = "value" /\ f.attrs = << >>

\* A #[flexible] Vec has no capacity of its own: MAX_CAPACITY is used for it.
Classify(f) ==
  LET flexible == f.attrs # << >> /\ f.attrs[1].name = "flexible"
      capacity == IF f.type # "vec" THEN 0 ELSE IF flexible THEN MaxCapacity ELSE f.attrs[1].n
  IN [shape |-> CASE f.type = "value"  -> "plain"
                  [] f.type = "option" -> IF flexible THEN "tail_option" ELSE "option"
                  [] f.type = "vec"    -> IF flexible THEN "tail_vec" ELSE "vec",
      kind |-> f.kind,
      width |-> IF f.type # "vec" THEN 0 ELSE IF flexible THEN f.attrs[1].n ELSE LenWidth(capacity),
      capacity |-> capacity]

-----------------------------------------------------------------------------
(* Lengths and alignment of a slot. *)

\* The tag or the length header in front of the payload.
PayloadShift(l) == IF IsOption(l) THEN 1 ELSE IF IsVec(l) THEN l.width ELSE 0

\* slot_min_len_expr: a trailing flexible field reserves nothing.
SlotMinLen(l) ==
  CASE l.shape = "plain"  -> Size(l.kind)
    [] l.shape = "option" -> 1 + Size(l.kind)
    [] l.shape = "vec"    -> l.width + Size(l.kind) * l.capacity
    [] IsTail(l)          -> 0

\* Fault: the tag of an option not counted.
SlotLenExprUntagged(l) ==
  IF l.shape = "vec" THEN l.width + Size(l.kind) * l.capacity ELSE Size(l.kind)

\* The same slot as the expression that is summed into totalLen.
SlotLenExpr(l) ==
  CASE l.shape = "option" -> 1 + Size(l.kind)
    [] l.shape = "vec"    -> l.width + Size(l.kind) * l.capacity
    [] OTHER              -> Size(l.kind)

\* 2usize.pow(len_width * 8) - 1
HeaderMax(width) == IF width = 1 THEN Radix - 1 ELSE Radix * Radix - 1

\* Fault: the tag of a trailing option not counted.
TailMaxLenUntagged(l) ==
  IF l.shape = "tail_vec" THEN l.width + HeaderMax(l.width) * Size(l.kind) ELSE Size(l.kind)

\* ComptimeOptionalLen::max_datalen.
TailMaxLen(l) ==
  IF l.shape = "tail_vec" THEN l.width + HeaderMax(l.width) * Size(l.kind) ELSE 1 + Size(l.kind)

\* A getter hands out a reference: a slice for every Vec, or a large value.
Borrows(l) == IsVec(l) \/ IsRef(l.kind)

\* Fault: the header in front of the elements forgotten.
MissingPaddingNoHeader(l, o) ==
  LET misalignment == (o + IF IsOption(l) THEN 1 ELSE 0) % Align(l.kind)
  IN IF misalignment = 0 THEN 0 ELSE Align(l.kind) - misalignment

\* What check_ref_alignment asks for in front of a borrowed field at o.
MissingPadding(l, o) ==
  LET misalignment == (o + PayloadShift(l)) % Align(l.kind)
  IN IF misalignment = 0 THEN 0 ELSE Align(l.kind) - misalignment

-----------------------------------------------------------------------------
(* Expansion. *)

ExpandInit ==
  /\ decl \in Decls
  /\ phase = "args" /\ idx = 1 /\ rejected = "none"
  /\ layouts = << >> /\ placed = << >> /\ issues = << >>
  /\ offset = 0 /\ offsets = << 0 >> /\ totalLen = NoLength

Reject(why) == phase' = "rejected" /\ rejected' = why

ParseArgs ==
  /\ phase = "args"
  /\ IF decl.args = "" THEN phase' = "fields" /\ UNCHANGED rejected ELSE Reject("args")
  /\ UNCHANGED << decl, idx, loopVars >>

\* Fault: the next fields do not count on the padding asked for.
PaddedStartIgnored(padding) == offset

\* The field goes after the padding it misses, although a struct with an issue
\* is refused in the end.
PaddedStart(padding) == offset + padding

\* The body of the loop once the field is parsed.
AddSlot(l) ==
  LET borrowed == Borrows(l)
      padding == IF borrowed /\ Align(l.kind) <= BaseAlign THEN MissingPadding(l, offset) ELSE 0
      start == PaddedStart(padding)
  IN /\ issues' = IF borrowed /\ Align(l.kind) > BaseAlign
                  THEN Append(issues, [field |-> idx, padding |-> TooAligned])
                  ELSE IF padding # 0 THEN Append(issues, [field |-> idx, padding |-> padding])
                  ELSE issues
     /\ placed' = Append(placed, start)
     /\ offset' = start + SlotMinLen(l)
     /\ offsets' = Append(offsets, IF IsTail(l) THEN offsets[Len(offsets)] ELSE offset')
     /\ totalLen' = IF IsTail(l) THEN totalLen
                    ELSE SlotLenExpr(l) + IF totalLen = NoLength THEN 0 ELSE totalLen

AddField ==
  /\ phase = "fields" /\ idx <= Len(decl.fields)
  /\ LET f == decl.fields[idx]
     IN IF FieldSupported(f, idx = Len(decl.fields))
        THEN /\ layouts' = Append(layouts, Classify(f)) /\ AddSlot(Classify(f))
             /\ idx' = idx + 1 /\ UNCHANGED << phase, rejected >>
        ELSE Reject("field") /\ UNCHANGED << idx, loopVars >>
  /\ UNCHANGED decl

\* A struct in which no field has a slot would be emitted with the constant
\* `DATA_LEN: usize = ;`, which does not compile.
FieldsDone ==
  /\ phase = "fields" /\ idx > Len(decl.fields)
  /\ IF issues # << >> THEN Reject("alignment")
     ELSE IF totalLen = NoLength THEN Reject("no_length")
     ELSE phase' = "emitted" /\ UNCHANGED rejected
  /\ UNCHANGED << decl, idx, loopVars >>

ExpandNext == ParseArgs \/ AddField \/ FieldsDone
ExpandStopped == phase \in {"emitted", "rejected"} /\ UNCHANGED expandVars
ExpandSpec == ExpandInit /\ [][ExpandNext \/ ExpandStopped]_expandVars

-----------------------------------------------------------------------------
(* The constants of the generated impl. *)

OFFSETS == SubSeq(offsets, 1, Len(offsets) - 1)
DataLen == offsets[Len(offsets)]        \* the buffer of encode
MinLen == totalLen                      \* DATA_LEN or MIN_DATA_LEN
MaxLen == IF HasTail THEN DataLen + TailMaxLen(layouts[FieldCount]) ELSE totalLen

-----------------------------------------------------------------------------
(* What the expansion promises. *)

\* Reference: fields one after the other, behind padding[i] bytes each.
Packed(ls, padding) ==
  LET at[i \in 1 .. Len(ls) + 1] ==
        IF i = 1 THEN padding[1]
        ELSE at[i - 1] + SlotMinLen(ls[i - 1]) + IF i <= Len(ls) THEN padding[i] ELSE 0
  IN at

\* Field i, starting at offset o of a buffer that decode accepts.
Misaligned(l, o) ==
  Borrows(l) /\ \E base \in {0, BaseAlign} : (base + o + PayloadShift(l)) % Align(l.kind) # 0

\* The bytes of a field that holds `count` values (0 or 1 for an option).
EncodedFieldLen(l, count) ==
  CASE l.shape = "tail_option" -> IF count = 1 THEN 1 + Size(l.kind) ELSE 0
    [] l.shape = "tail_vec"    -> IF count = 0 THEN 0 ELSE l.width + count * Size(l.kind)
    [] OTHER                   -> SlotMinLen(l)

NoPadding == [i \in 1 .. FieldCount |-> 0]
PaddingAsked ==
  [i \in 1 .. FieldCount |->
     IF \E k \in DOMAIN issues : issues[k].field = i
     THEN issues[CHOOSE k \in DOMAIN issues : issues[k].field = i].padding ELSE 0]

(* Type correctness of the expansion state.                                *)
FixedTypeOK ==
  /\ decl \in Decls
  /\ phase \in {"args", "fields", "emitted", "rejected"}
  /\ rejected \in {"none", "args", "field", "alignment", "no_length"}
  /\ idx \in Nat \ {0}
  /\ layouts \in Seq(FixedLayout) /\ placed \in Seq(Nat)
  /\ offset \in Nat /\ offsets \in Seq(Nat) \ {<< >>} /\ totalLen \in Nat \cup {NoLength}
  /\ issues \in Seq([field : Nat, padding : Nat])

(* A struct the macro accepts hands out no misaligned reference: at the    *)
(* offset the generated code uses for it, every borrowed payload and every *)
(* slice is aligned in any buffer decode accepts.                          *)
BorrowsAligned ==
  phase = "emitted" => \A i \in 1 .. FieldCount : ~Misaligned(layouts[i], placed[i])

(* A struct is refused for alignment only if it deserves it: with its      *)
(* fields packed as declared, the first field complained of is misaligned. *)
AlignmentRejectionJustified ==
  rejected = "alignment" =>
    Misaligned(layouts[issues[1].field], Packed(layouts, NoPadding)[issues[1].field])

(* The error text can be followed: with the paddings it asks for inserted, *)
(* and no other, the struct has every borrowed payload aligned, unless one *)
(* of them needs more than the base alignment; and no padding is idle.     *)
(* fixed_offset_layout_assumes_earlier_padding_errors_are_fixed.           *)
PaddingSuffices ==
  rejected = "alignment" =>
    /\ \A i \in 1 .. FieldCount :
         Misaligned(layouts[i], Packed(layouts, PaddingAsked)[i]) =>
           Align(layouts[i].kind) > BaseAlign
    /\ \A k \in DOMAIN issues :
         issues[k].padding # TooAligned =>
           Misaligned(layouts[issues[k].field],
             Packed(layouts, [PaddingAsked EXCEPT ![issues[k].field] = 0])[issues[k].field])

(* OFFSETS, the length of encode's buffer, DATA_LEN and the offsets in the *)
(* generated code are four computations of one packing without gaps.       *)
OffsetsAgree ==
  phase = "emitted" =>
    LET at == Packed(layouts, NoPadding)
    IN /\ \A i \in 1 .. FieldCount : OFFSETS[i] = at[i] /\ placed[i] = at[i]
       /\ Len(OFFSETS) = FieldCount /\ Len(placed) = FieldCount
       /\ DataLen = at[FieldCount + 1] /\ MinLen = DataLen

(* The lengths decode lets through are those of the encodings: the bounds  *)
(* are reached, by an absent tail and by a tail with as many values as its *)
(* header can announce; a Vec fits its header.                             *)
LengthBoundsReached ==
  phase = "emitted" =>
    LET tail == layouts[FieldCount]
        most == IF tail.shape = "tail_vec" THEN HeaderMax(tail.width) ELSE 1
        total(count) == placed[FieldCount] + EncodedFieldLen(tail, count)
    IN /\ MinLen = total(0) /\ MaxLen = total(most)
       /\ \A i \in 1 .. FieldCount :
            layouts[i].shape = "vec" => layouts[i].capacity <= HeaderMax(layouts[i].width)
=============================================================================
