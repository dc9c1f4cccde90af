\* An encoding without its trailing field, given back to decode.
CONSTANTS
  Radix = 256
  CopyMax = 8
  PubkeySize = 32
  BaseAlign = 8
  Decls <- MCTailDecls
  MemLen <- MCMemLen
  InitialMems <- MCInitialMems
  Slices <- MCSlices
  Structs <- MCStructs
  MaxCalls = 2
SPECIFICATION Spec
INVARIANT AcceptedLengthDecodes
