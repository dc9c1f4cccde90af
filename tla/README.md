# A specification of magicblock-wheels

`magicblock-wheels` is a small library for on-chain programs. Its core is a pair
of attribute macros that turn a struct into a zero-copy byte layout: at compile
time they decide offsets, bounds and alignment, and the code they emit encodes a
value into a buffer, validates a buffer, and hands out views whose getters read
(or borrow) straight from it. The program's bugs are therefore of an unusual
kind. Nothing runs concurrently and nothing is persisted. What can go wrong is
that *independent computations disagree*: what the macro proved about every
encoding, what the encoder writes, what the decoder checks, and what a getter
recomputes without checking.

These modules model those computations separately, as the code has them, and
state that they agree.

## The system

| Component | State | Operations | Made hard by | Correct when |
|---|---|---|---|---|
| value kinds (`wheels-macros/src/common.rs`) | none | parse a type, size, alignment, copy or borrow, read | | the other parts agree on sizes |
| `variable_offset_layout`, expansion | fields parsed, subset sums, start residues, offsets, bounds | one pass per concern, a loop over the fields in each | residues and sums are computed from sets, never from encodings | every accepted struct has aligned borrows, exact bounds, unambiguous lengths; no struct is refused without cause |
| `variable_offset_layout`, generated codec | the caller's buffer, a live view | `encoded_len`, `encode_to`, `encode`, `decode`, `decode_prefix`, getters | buffers are reused, input is arbitrary, getters walk again without checks | no panic, round trips, all-or-nothing encoding, getters find what was validated |
| `fixed_offset_layout`, expansion | fields parsed, three accumulators of the offset, padding issues | one loop over the fields | issues are collected as if their padding were inserted; a trailing `#[flexible]` field advances no accumulator | accepted structs have aligned borrows, one packing without gaps, exact length bounds; the paddings asked for suffice |
| `fixed_offset_layout`, generated codec | the caller's buffer, a live view | `encode_to`, `encode`, `decode`, getters | slots are reserved, the trailing field may be missing from the buffer, nothing is counted before it is written | panics and stale values only where the trailing field is; slots never overlap |
| `Encodable` / `Decodable` / `PrefixDecodable` (`wheels/src/layout.rs`) | rest of the buffer | tuples, `encode`, `Option<T>`, blanket `decode` | partial failure, empty input, a sum of lengths that may exceed `usize` | composition of codecs is a codec |
| `src/ts/layout.ts` | schema and space of a layout | `makeLayout`, its `decode` and `encode` | three loops over the same definitions, each with an offset of its own; names used twice | the loops agree; values read back |
| `DataLayoutError` | none | codes, conversions | | one code per error |
| `require!` macros | none | early returns | | |

The macros call `common.rs` to learn what a field is; the expansion passes its
offsets, bounds and list of lengths to the code it generates as constants; the
generated code meets the outside at the traits of `layout.rs`; a view borrows the
buffer it was decoded from, so that the buffer cannot be written while it lives.

`PROJECT.json` lists every hazard with the line where it bites and the property
that would notice it.

## The modules

| Module | Models |
|---|---|
| `LayoutTypes` | value kinds with their size, alignment and access mode; little-endian length headers |
| `VariableExpand` | `expand_variable_offset_layout` from declaration to emitted constants or compile error |
| `VariableCodec` (extends it) | the generated code, run after an expansion and with its constants, on a buffer of bytes |
| `FixedExpand` | `expand_fixed_offset_layout` |
| `FixedCodec` (extends it) | the code it generates |
| `ViewContract` | the abstract specification: what the caller of either codec may rely on |
| `VariableContract`, `FixedContract` | the refinement mappings from the two codecs to `ViewContract`, and the fairness they need |
| `TupleCodec` | the traits of `layout.rs` put together: tuples, `encode`, prefix readers, `Option<T>` |
| `TsLayout` | `makeLayout` of `src/ts/layout.ts` |
| `InductionLemmas` | proofs: induction over numbers, stated of sets, and recursive functions by their equations |
| `LayoutLemmas` | proofs: sizes and alignments of kinds, offsets that add up, headers read as written, remainders |
| `VariableExpandProofs` | proofs: types, alignment, offsets, lengths and subset sums of the variable expansion |
| `VariableCodecProofs` | proofs: types, encoder, decoder and getters of its generated code; what is encoded is decoded, and only that; `VariableContract` |
| `FixedExpandProofs` | proofs: types, alignment, packing, padding and lengths of the fixed expansion |
| `FixedCodecProofs` | proofs: its generated code, and `FixedContract` |
| `TupleCodecProofs` | proofs: tuples and their readers |
| `TsLayoutProofs` | proofs: the loops of the TypeScript layout, and its values and their bytes |
| `MCVariableExpand`, `MCRoundTrip`, `MCAnyBytes`, `MCFixedExpand`, `MCFixedRoundTrip`, `MCFixedAnyBytes`, `MCTupleCodec`, `MCTsLayout` | instances for TLC |

A definition marked "Fault" is how the definition after it would read with a
plausible mistake in it. It is not part of the model: put in place of the definition it
precedes, it has to make the property it is paired with in `PROJECT.json` fail.

**`VariableExpand`.** The state is the locals of the expansion function and of
the helpers with a loop: `layouts` (`FieldLayout`s), `nextBit`
(`implicit_option_index`), `sums` (the map of `implicit_len_map`), `residues`
(of `possible_start_residues`), `offset`, `offsets`, `seenVariable`, `minLen`,
`maxLen`, `lens` (`exact_data_lens`). `phase` is the pass and `idx` its loop
variable. Each loop body is one action: `ParseField`, `AddPayload`,
`AddPossibleLen`, `EmitField`; `CheckStructOptions`, `NeedsNoAlignment`,
`AlignmentBeyondBase` and `CheckResidues` are the checks between them, and any
of them may end in `Reject`. A declaration is a record: the option mode, the
buffer offset, and for each field its type, kind and `#[flexible]` widths. Types
the macro refuses (strings, nested structs, `Option<Vec>`) are declarations too.

**`VariableCodec`.** The buffer is a function from addresses to bytes whose
address 0 is aligned; a call is given a slice `[lo, hi)` of it. `pc` says which
generated function is running and each per-field step of the generated code is
one action:

| call | actions |
|---|---|
| `encode_to` | `StartEncode`, `AddLen`* (`encoded_len`), `CheckRoom` (`split_at_mut`), `WriteField`*, `EncodeDone` |
| `decode`, `decode_prefix` | `StartDecode` (address and length checks), `ValidateField`*, `DecodeDone` |
| a getter | `StartGet` (last fixed offset), `GetStep`* (walk), `GetRead` |

A Rust panic is the state `pc = "panic"`: every slice index, `expect` and
`bytemuck` cast of the generated code has its condition in the model, here and in
`FixedCodec`. Calls
follow one another on the same buffer, in any order; a call other than a getter ends the life of
the view. For an encode that is the borrow checker's rule; a decode borrows the buffer
shared, and an older view may live beside the new one, but its getters read the
same unchanged bytes as before and no state changes, so that the model follows one
view at a time. `plan`, `at`, `wrote` and `before` are history variables, read by
properties only: where `encoded_len` counted each field, where the running loop
found it, the last encoding that is still in the buffer, and the buffer at the
start of the call.

**`FixedExpand`.** One action per pass: `ParseArgs`, `AddField` (the body of the
loop: parse, check the reference alignment, place, add up), `FieldsDone`. The
accumulators that the code keeps side by side are separate variables: `offset`
(which the generated code uses, with the padding of earlier issues added), `offsets`
(the constant `OFFSETS`) and `totalLen` (the text of `DATA_LEN` or `MIN_DATA_LEN`).
An issue does not stop the loop, it is remembered in `issues` and refuses the struct
at the end. A struct without any slot is refused too: it would be emitted with an
empty constant, which does not compile.

**`FixedCodec`.** As `VariableCodec`, with what is different in the code:
`encode_to` has no counting pass and writes at once (`StartEncodeTo`,
`WriteField`*, `EncodeDone`), `encode` first takes a buffer of zeros in place of
the one in use (`StartEncode`), `decode` checks tags and headers at their fixed
places without knowing that they are in the slice, and a getter is one step.

**`ViewContract`.** A buffer stores at most one value; `Opened` and `Shown` are what
decoding and a getter return about it. The mapping sends the history variable
`wrote` to `stored` while what was written is `Readable`, the live view to `open` if it
is a view of what is stored, and the running call to `call` and `running`.
Everything else that is done with the buffer, decoding foreign bytes for instance, is an
`other` call, about which nothing is promised except that it does not change what
is stored and returns. `Readable` excludes exactly what the runs below report as
findings: in `VariableContract` a struct whose two alignment checks disagree, in
`FixedContract` a trailing field that is absent or longer than its header can
announce. `Spec` is `Safety`, which states what a step may do, and `Responsive`.

**`TupleCodec`.** A type is the set of its encodings, and a self-delimiting one is
prefix-free, which is what `TruncationRejected` establishes for the codecs. Of its
encodings a decoder takes those in `Taken`, in which it finds every payload aligned, and
only in a slice at an address, modulo `BaseAlign`, that is its `BufferOffset`; the
address of the buffer (`base`) is any, and another one for every buffer `encode`
allocates. A nested tuple is written as its elements in their place, so the flat tuples
of any length stand for it. `ElementLen`
sums lengths with `checked_add` up to `WordMax`; `WriteElement` gives each
element what the one before it left; `ReadPrefix` and `ReadLast` are
`decode_prefix`, the blanket `decode` over it, and `Option<T>::decode`. `encode` of
a single value is that of a tuple with one element.

**`TsLayout`.** `AddItem` is the loop of `makeLayout`, `DecodeItem` and `EncodeItem` are
those of the two closures it returns; all three run over the same `defs` with
an offset of their own. A throw ends a call with the result `throw`. `Encoded` and
`Decoded` are what the methods of `Buffer` do, with sign and range: a number is written
in two's complement as little-endian digits, a `PublicKey` is its bytes. `ValueFor` is the
value that gets written: `writeUInt8` takes `+value`, and NaN, which it becomes for a
missing value or a `PublicKey` whose text is no numeral (`Numerals` has those whose text
is one), passes its range test and is stored as 0. Half of the
values of eight bytes are negative, so `Radix` is even, as it is in the code.

A byte is a digit in base `Radix` (256 in the code). The code's other sizes are
constants as well, so that a run can bring a boundary within reach without
changing what the code compares.

## Runs

| Run | Question | Bounds |
|---|---|---|
| `expand` | Are lengths, offsets, alignment and presence masks what an enumeration of the encodings says? Is every refusal justified? | all structs of one to three fields from a pool of ten, both option modes, offsets 0, 4, 7 and unaligned; 11 malformed fields. `Radix` 4 puts the capacity of a one-byte header below the period of its residues modulo 8. The properties enumerate Vecs of up to `MaxCount` = 7 elements and one at capacity: the residues of a Vec's length modulo an alignment of at most 8 repeat after 8 counts. |
| `round_trip` | Do encoder, decoder and getters of the variable layout keep the contract at the code's sizes, when a buffer is reused? Does every call return? | seven structs (two of them refused), every value of a small pool, 256 elements behind a one-byte header among them, six slices that are aligned or not, roomy, exact or too short; three calls |
| `any_bytes` | What do its decoder and getters do with bytes nobody encoded? | `Radix` 3 (both tags and an invalid one), base 2, anything over one byte borrowed; every content of the first four bytes, with one filling of the others; slices that start at 0 or 1 and end early, after them or with the buffer; two calls |
| `shifted_buffer` | Is every value readable at the declared `buffer_offset`? | one struct. Expected to be violated, see below |
| `fixed_expand` | Are alignment, padding, offsets and lengths those of fields packed one after the other? | all structs of up to three fields from a pool of 15 fields and six trailing ones, the empty struct, 16 malformed fields, a non-empty argument. `Radix` 4 makes 3 and 15 the greatest counts of the two headers. |
| `fixed_round_trip` | Do encoder, decoder and getters of the fixed layout keep the contract, when a buffer is reused? Does every call return? | seven structs (one refused) of every shape with and without a trailing field, counts up to one over a capacity, seven slices, 26 bytes; three calls |
| `fixed_any_bytes` | What does `decode` let through, and what do the getters then index? | `Radix` 3, base 2; every content of the first five bytes; six structs; two calls |
| `fixed_min_length`, `fixed_stale_tail`, `fixed_long_tail` | Three statements of the source about the trailing field | two structs. Expected to be violated, see below |
| `tuple` | Do tuples fill the buffers allocated for them, fail where they say, read back? | bytes with two values, `usize` up to 5, tuples of one to three elements whose sum fits, exceeds the slice or exceeds `usize`; types decoded at any address, at even and at odd ones (`BaseAlign` 2), one of them with an encoding its decoder refuses; lists of up to three types, the last optional or not; two calls |
| `ts_layout` | Do the three loops of `makeLayout` agree, and do values read back? | 13 layouts with every kind, gaps in every place and names used twice; values at and over the ends of their ranges, of another class and missing; `Radix` 2 gives a u64 256 values; three calls, on the caller's data or on what an earlier call returned |

Three calls and three fields are enough for what the properties relate: an
encode, the decode after it and a getter that walks over two fields, or two
encodings and a decode; a fourth call would only repeat a pair. The runs on
arbitrary bytes start from every content, so that two calls reach what three
would. `MaxCalls` is the only bound on behaviors. `encode` of the fixed layout
returns its buffer at the address of one of the slices, if it fits in `MemLen`.

`CHECK_DEADLOCK` is left on. The real code stops when it has emitted its code,
when the caller makes no further call, or when it panics; the models have an explicit
stuttering step (`ExpandStopped`, `Stopped`) for exactly these states, so that a
deadlock anywhere else would be reported.

### Fairness and liveness

The generated code is sequential and waits for nothing: a step that can be taken is
taken. That is weak fairness of the steps of a running call (`Running` in the two
`FairSpec`s). No fairness is assumed of the caller, who may stop calling at any time.
`Responsive`, a part of `ViewContract` and so of both `ImplementsContract`, says that
every call returns, for the fixed layout if only by a panic. That the macros end is no
property: all their loops are `for` loops over finite collections.

## What the runs show

Of the variable layout:

* The alignment analysis is sound (`AlignmentGuaranteed`) and exact
  (`AlignmentRejectionJustified`); so are the bounds and lists of lengths
  (`LengthsExact`), the fixed offsets (`FixedOffsetsExact`) and the subset sums
  (`ImplicitLengthsIdentify`, `SumsRejectionJustified`).
* No call panics on any bytes (`NoPanic`), and a getter finds each field where
  the decoder validated it (`WalkFollowsValidation`).
* Encoding is all or nothing (`EncodeAtomic`), writes as it counted
  (`WritesAsCounted`), within the lengths the struct publishes (`LengthsExact`), and
  yields aligned payloads (`EncodedAligned`).
* What was encoded is decoded where it was written (`RoundTrip`) and read back,
  field by field, in any order and as often as asked, until the buffer is
  written (`ImplementsContract`); what is decoded re-encodes to the same bytes, bools
  apart (`DecodesOnlyEncodings`); what was cut short is refused
  (`TruncationRejected`).
* No sum of the decoder exceeds the constant the compiler has evaluated
  (`DecoderSumsBounded`).

Of the fixed layout:

* Accepted structs have no misaligned reference in any buffer `decode` takes
  (`BorrowsAligned`), refused ones deserve it (`AlignmentRejectionJustified`), and
  the paddings the error asks for are enough and none is idle (`PaddingSuffices`).
* `OFFSETS`, `DATA_LEN`, the buffer of `encode` and the offsets in the generated code
  describe one packing (`OffsetsAgree`); the length bounds are reached
  (`LengthBoundsReached`).
* Only a short slice given to `encode_to` and the trailing field can make it panic
  (`PanicsOnlyAtTail`); a getter never leaves its slot for any bytes
  (`ReadsStayInSlot`).
* An encoding leaves no byte of an earlier value in its slots
  (`EncodingCoversSlots`). `encode_to` is *not* all or nothing: a Vec over its
  capacity is noticed after the fields before it were written. They are all in the
  buffer then, and no other byte of it has changed (`FailedEncodeWritesPrefix`).
* Values its decoder can take are read back until the buffer is written
  (`ImplementsContract`).

Of the traits: `encode` of a tuple is all or nothing and fills its buffer
(`EncodeFillsItsBuffer`), `encode_to` leaves a prefix when it fails
(`FailedTupleIsPrefix`), a reader accepts the encodings of its types and nothing else
(`ReadConsumesAll`) and gets back what was written (`TupleReadsBack`), with three
exceptions the property states: an element behind others may lie at an address that the
`buffer_offset` of its type refuses, some encodings are refused by their own decoder (the
first finding below), and a `Some` that encodes to nothing reads as `None`. The
documentation of `buffer_offset` recommends `unaligned` for what follows data of
variable length (`wheels-macros/src/lib.rs:87-91`), but nothing refuses the other tuples:
they encode, and are refused when read.

Of the TypeScript layout: the loops keep the same offsets (`LoopsAgree`), a decoded
object encodes to its bytes (`DecodedWritesBack`), and an encoded one decodes to itself
(`EncodedReadsBack`), unless it has no number where the layout has a `u8`: `encode`
checks no schema, and `writeUInt8` makes 0 of what is missing and of nearly every
`PublicKey`, where all other kinds throw.

### Disagreements found

* **`shifted_buffer`.** The documentation of `buffer_offset`
  (`wheels-macros/src/lib.rs:80-85`) says that the decoder validates the slice
  pointer against it and that borrowed getters are generated only when aligned under
  it. The macro computes alignment with `buffer_offset` added, but the decoder's second
  alignment check (`data_offset % align`) does not add it. With
  `buffer_offset = 4` and the fields `u32, [u64; 2]`, the array is aligned in memory
  in every encoding, the macro accepts the struct, and `decode` refuses every
  encoding with `InvalidFieldAlignment`. `RoundTrip` excludes that error for structs
  with `ChecksDisagree`.
* **`fixed_min_length`.** `decode` accepts `MIN_DATA_LEN` bytes, as its log line
  says, and then indexes the tag or length header of the trailing field, which
  starts at `MIN_DATA_LEN`: the encoding of a struct whose trailing field is
  absent makes it panic (`fixed_offset_layout.rs:243`, `262`).
* **`fixed_stale_tail`.** `encode_to` writes nothing for an absent trailing field,
  because "we do not have any 'buffer' to write anything" to
  (`fixed_offset_layout.rs:617`). The buffer is the caller's and may be longer: one that
  held a trailing field before still does, and it is read back.
* **`fixed_long_tail`.** A trailing `#[flexible = 1]` Vec is checked against
  `MAX_CAPACITY` = 0xffff and its length stored `as u8`: 256 elements are announced as
  zero, and the encoding is longer than `MAX_DATA_LEN`.

## Proofs

TLAPS proves the theorems below for every set of declarations, every buffer, every
sequence of calls and every value of the constants, under the named assumptions
of the modules, which TLC evaluates on every run:

* `RadixAssumption`, `SizesAssumption`, `BaseAlignAssumption`,
  `FixedBaseAlignAssumption`, `MaxCountAssumption`: a byte has at least two values, sizes are
  natural numbers, and the base of the buffer is aligned to 1, 2, 4 or 8.
* `DeclsAssumption`, `FixedDeclsAssumption`: a declaration has the form the parser
  gives it (the variable macro is given at least one field).
* `MemoryAssumption`, `FixedMemoryAssumption`, `CallsAssumption`,
  `FixedCallsAssumption`: a caller passes slices of the buffer and values made of bytes.
* `TupleCodesAssumption`, `TupleCallsAssumption`: an element that can be encoded is written
  as one of the encodings of its type; a type that is not the last of a reader is
  prefix-free, which `PrefixesAreRefused` proves of the variable layouts.
* `TsInputsAssumption`: buffers are made of bytes, objects of JavaScript values, a gap has
  a size, and the radix is even.

| Theorem | Establishes |
|---|---|
| *`VariableExpandProofs`* | |
| `ExpandTypeCorrect` | the expansion state has its types |
| `AlignmentCertified` | `AlignmentGuaranteed`: an accepted struct has every borrowed payload aligned, whatever it contains |
| `AlignmentRejectionReal` | `AlignmentRejectionJustified`: a struct refused for its alignment has contents that misalign a borrow |
| `FixedOffsetsAreExact` | `FixedOffsetsExact`: a fixed offset is where the field starts in every encoding; a field without one lies behind a variable-sized field and, unless the values of that field take no bytes, starts at two places at least |
| `LengthsAreExact` | `LengthsExact`: the published bounds are reached, and the list of lengths is complete |
| `SumsRejectionReal`, `LengthsIdentifyOptions` | `SumsRejectionJustified`, `ImplicitLengthsIdentify`: of an implicit struct the length tells which options are present, and it is refused only if it would not |
| *`VariableCodecProofs`* | |
| `CodecTypeCorrect` | the codec state has its types; a byte read without a panic is one of the buffer |
| `EncoderWritesAsCounted` | `WritesAsCounted`: `encode_to` writes each field where `encoded_len` counted it |
| `EncoderAtomic` | `EncodeAtomic`: a failed encoding changes nothing, a successful one only its own bytes |
| `GettersFollowValidation` | `WalkFollowsValidation`: a getter finds each field where the decoder validated it, for any bytes |
| `EncoderNeverPanics`, `DecoderNeverPanics`, `GeneratedCodeNeverPanics` | `NoPanic`: while encoding, while decoding, and always, for any bytes |
| `DecoderStaysBounded` | `DecoderSumsBounded`: no sum of the decoder exceeds the constant the compiler has evaluated |
| `EncodingsAreAligned` | `EncodedAligned`: in every encoding in a buffer the borrowed payloads are aligned in memory |
| `EncodingsDecode` | `RoundTrip`: what was encoded is decoded, field by field where it was written |
| `PrefixesAreRefused` | `TruncationRejected`: a proper prefix of an encoding is refused |
| `DecodedIsEncoding` | `DecodesOnlyEncodings`: what is decoded encodes to the same bytes, bools apart |
| `VariableKeepsContract` | the safety of `ViewContract`, under the mapping of `VariableContract` |
| *`FixedExpandProofs`* | |
| `FixedTypeCorrect` | the expansion state has its types |
| `FixedBorrowsAligned` | `BorrowsAligned`: no struct it accepts hands out a misaligned reference |
| `FixedRejectionJustified` | `AlignmentRejectionJustified`: one it refuses for alignment would, packed as it is declared |
| `FixedPaddingSuffices` | `PaddingSuffices`: with the paddings asked for no field is misaligned that the base could align, and each of them is needed |
| `FixedSlotsContiguous`, `FixedOffsetsAgree` | `SlotsContiguous`, `OffsetsAgree`: the accumulators describe one packing without gaps |
| `FixedLengthBounds` | `LengthBoundsReached`: the length constants are the lengths of the smallest and of the greatest values |
| *`FixedCodecProofs`* | |
| `FixedCodecTypeCorrect` | the codec state has its types |
| `FixedPanics` | `PanicsOnlyAtTail`: only a short slice given to `encode_to`, or the trailing field, makes it panic |
| `FixedReads` | `ReadsStayInSlot`: a getter reads inside the slot of its field, for any bytes |
| `FixedFailedEncode` | `FailedEncodeWritesPrefix`: a refused `encode_to` stopped at a Vec over its capacity, with exactly the fields before it written; a successful one has written all of them, and nothing else |
| `FixedEncodingCovers` | `EncodingCoversSlots`: an encoding leaves nothing of an earlier value in its slots |
| `FixedKeepsContract` | the safety of `ViewContract`, under the mapping of `FixedContract` |
| *`TupleCodecProofs`* | |
| `TupleTypesKept` | the state has its types |
| `EncodeFills` | `EncodeFillsItsBuffer`: `encode` is all or nothing and fills what it allocated |
| `FailedTuplesArePrefixes` | `FailedTupleIsPrefix`: a failing `encode_to` has written the elements before the failing one |
| `ReadersConsumeAll` | `ReadConsumesAll`: a reader that succeeds has shown every byte of its slice |
| `TuplesReadBack` | `TupleReadsBack`: what was written is read back, and refused exactly when an element lies where its type is not decoded or has an encoding its decoder never takes |
| *`TsLayoutProofs`* | |
| `TsTypeCorrect` | the state has its types; no offset leaves the layout |
| `TsLoopsAgree` | `LoopsAgree`: three loops, one place for every item; a throw is always due to a value or a length |
| `TsEncodedReadsBack` | `EncodedReadsBack`: an encoded object is decoded, signs and names used twice included, with 0 for a number it had not |
| `TsDecodedWritesBack` | `DecodedWritesBack`: a decoded object encodes to the bytes it was read from, up to padding |

`AlignmentRejectionReal` has the hypothesis `CountsSuffice`, that `MaxCount` is at
least `BaseAlign - 1`: the property looks for contents with up to `MaxCount`
elements, and a residue may occur first at that many. `MCVariableExpand.cfg` satisfies
it with the smallest such number. No other theorem depends on `MaxCount`.

None of these properties is inductive. The invariants that carry them are, in
the order in which each relies on the one before:

* `TypeInv` and `OffsetsInv`. The shape of an option is the option
  mode of the struct, so the types need `ArgsChecked`: the arguments were checked
  before any field is classified. `OffsetsInv` says that a fixed offset is the
  sum of the plain fields before it, and that every field has a fixed offset at or
  before it (`WalkStart`), without which the `CHOOSE` of `WalkFrom` means nothing.
  `TailInv` adds that an offset is variable only behind a field that is.
* `AlignInv`. While a borrowed field is checked, `residues` are those of the
  place where it starts: over all contents none is missing (`Collected`), which
  certifies the fields checked (`Certified`), and each occurs in some
  (`Occurring`), which justifies a refusal. The residues of a Vec repeat with
  the alignment, or all occur below its capacity; the code and the property treat the two cases
  alike only by a lemma about remainders.
* `LengthsInv`. `Bounded(i)`: before field `i` the bounds are its starts in
  the emptiest and in the fullest contents, and `lens` all of its starts unless a Vec came before.
  `SumsInv`: `Summed(i)`, the sums of the fields before `i` are how
  much later `i` starts than in the emptiest contents, each with the options
  that are present then. That lengths identify options follows from both.
  `MacroInv` is all of this; the generated code changes none of its variables.
* `CodecInv` = `CodecTypeOK` and `CallInv`: which call is running at which `pc`,
  that its struct fits the layout, and that a live view lies in the buffer. It
  makes an address that passed a bounds check an address of the buffer.
* `EncodeInv`. `LenLoop` relates the offsets found so far to the lengths of the
  fields before them (`Found(i)` is where the running loop found field `i`);
  `WriteLoop` carries them over as `plan`, and `FieldBytesLen` says that a field is
  written in as many bytes as `encoded_len` counts. `Untouched` is all-or-nothing
  for the steps in between.
* `ViewInv`. `ValidateLoop` says that the offsets validated so far are a walk:
  each is the one before plus `StepLen` of its field, the tag or header lies
  before the next offset, and a fixed offset is where the macro said. `ViewWalks`
  says the same of a live view, and stays true because only `encode_to` writes and
  ends every view. `ValidateOk` is the core: what a field passes validation with is what a
  getter steps over, although one formula checks and the other does not. For an
  implicit struct the presence mask is that of the whole slice, and survives in the
  view because such a struct has no `decode_prefix`. `OptionModes` says that no
  other struct has implicit fields. The getters' half of `NoPanic` joins it to
  `AlignInv`: a walk is where the fields of some contents start, so the
  certificate of the macro covers the reference that the getter casts.
* `WroteInv`: the last encoding is still in the memory, `Encoding(mem, wrote)`,
  field by field. `FollowInv`: a decoder that is given those bytes finds
  the fields where they were written, because a header below its capacity reads
  as it was written (`HeaderReads`), and what a header announces is written
  back as it was (`HeaderWrites`). `ViewSlice` keeps the slice of a view for its getters.
* `ContractInv` and `Sound`, all of these together. Under `Sound` every action
  maps to a step of the contract or to a stutter: a call that starts asks, the
  writes of an encoding lose the old value once, a loop over fields stutters,
  its last step stores, opens or shows.
* For the fixed expansion `ExpandedInv` = `FixedInv`, `PaddingInv` and `ShapesInv`.
  `FixedInv` ties the lengths of the sequences to the field the loop is at. What the
  theorems claim holds only of structs without an issue, while the loop goes on after
  one: `AlignedInv` and `SumsInv` of that module therefore start with `issues = << >>`,
  and a step keeps them because issues are only ever added. The accumulators part as soon
  as padding is added, and agree exactly as long as none was. `EmittedInv` carries
  the premise to the emitted struct. `PaddingInv` speaks of structs with issues:
  every field starts where the one before ends, behind the padding that is asked for
  it (`PlacedInv`), and each padding was needed there (`IssuesInv`). For alignment the
  lemma on the base is added: alignments are powers of two up to `BaseAlign`, and
  divide it.
* `FixedCodecInv`. The fields before `fi` are in their slots and nothing else has
  changed (`FixedWriteInv`); what `decode` has let through (`FixedCallInv`) and a view
  (`FixedViewInv`) have tags and headers the getters can index; the last encoding stays
  until the next one (`FixedWroteInv`); `FixedReturnInv` is what the properties say of a
  call that has returned. `FixedOwnInv` adds the capacities of what was encoded;
  `FSound` is all of it, and carries the refinement as above. A panic ends a call: of an encoding that stores
  nothing (`NotStored`), and of no decoder or getter but `other` ones.
* `TupleInv`. `LenInv`: `encoded_len` has summed the elements before the one it
  is at; `FilledInv` and `StoredInv`: `encode_to` has written exactly those; `ReadInv`:
  a reader has shown the bytes it passed; `WroteInv` and `BackInv`: the last tuple is
  still there, and a reader of its types is where it was written, because of two
  encodings of a prefix-free type, one of which is a prefix of the other, both are
  the same. `Promises` are the properties that speak of a call that has returned.
* `TsInv`. `MadeInv`: `space` is the sum of the sizes of the items passed, which are
  `Starts` in the end, and `shape` is `Filled` with their classes. `RunInv`: the offset of
  a running loop is the start of its item; `decode` has filled its object with
  the values of the bytes so far, `encode` has `Written` them. `DoneInv` and `PastInv` say
  this of calls that have returned. `Filled` is where names used twice are dealt with: an
  object has the value of the last field of each name, and so has the schema, so that
  they fit. `ValueReadsBack` and `BytesWriteBack` say that numbers and bytes map to each other.

Where a definition is recursive over a sequence (`FieldStarts`, a function in a `LET`, or
`FlattenSeq` of the community modules), the proofs use no induction rule with an operator as
parameter: `NatSetInduction` and `UpToInduction` speak of the set of numbers a
formula holds for, `RecursionExists` and `RecursionUnique` of the one function that
satisfies the equations.

Only model-checked: liveness, that is `Responsive` in the two refinements, which is
beyond the prover. Every safety property that a passing run
checks has a theorem.

## Not modelled

* Formatting, log lines, spans and error texts, `Pod` bounds, derives: no
  property is about them.
* The numeric codes of `DataLayoutError` and their conversions: a stateless table. Which
  error a check returns is modelled.
* The `require!` macros: early returns over the caller's own expressions, no state
  outlives one. That the comparing ones evaluate their arguments again in the
  log line matters only if the caller passes an expression with an effect; it is
  listed as a hazard.
* The macro entry points and crate roots: they parse the item, call the
  expansion and turn its error into a compile error.
* The capacity getters of the fixed layout, which return a constant.
* Arrays of length zero: what a cast to a slice of zero-sized elements does is
  decided by the version of `bytemuck`, not by this code.
* The word size of the target. Lengths are natural numbers, except in `TupleCodec`;
  `DecoderSumsBounded` bounds the unchecked sums of the decoder by a constant.
  `usize` and `isize` fields have the width of the compiling machine in the macro.
* In the TypeScript layout, numbers that are no integers (`writeUInt8` cuts off a fraction),
  negative sizes and static types.

## What is left

* The word size as a constant of the macros, for `usize` fields and for `__MAX_DATA_LEN`.
