\* Two calls on a buffer of any contents: decode and read, or encode over the
\* contents and decode.
CONSTANTS
  Radix = 3
  CopyMax = 1
  PubkeySize = 2
  BaseAlign = 2
  MaxImplicit = 128
  MaxCount = 2
  Decls <- MCDecls
  MemLen <- MCMemLen
  InitialMems <- MCInitialMems
  Slices <- MCSlices
  Structs <- MCStructs
  MaxCalls = 2
SPECIFICATION Spec
INVARIANTS
  CodecTypeOK
  NoPanic
  RoundTrip
  WalkFollowsValidation
  DecodesOnlyEncodings
  DecoderSumsBounded
