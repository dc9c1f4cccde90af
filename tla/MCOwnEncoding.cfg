\* A struct whose borrowed array is aligned only because of buffer_offset = 4.
CONSTANTS
  Radix = 256
  CopyMax = 8
  PubkeySize = 32
  BaseAlign = 8
  MaxImplicit = 128
  MaxCount = 2
  Decls <- MCShiftedDecls
  MemLen <- MCMemLen
  InitialMems <- MCInitialMems
  Slices <- MCSlices
  Structs <- MCStructs
  MaxCalls = 2
SPECIFICATION Spec
INVARIANTS
  OwnEncodingDecodes
