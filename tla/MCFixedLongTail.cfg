\* 256 elements behind a one-byte header.
CONSTANTS
  Radix = 256
  CopyMax = 8
  PubkeySize = 32
  BaseAlign = 8
  Decls <- MCTailDecls
  MemLen <- MCWideMemLen
  InitialMems <- MCWideMems
  Slices <- MCWideSlices
  Structs <- MCWideStructs
  MaxCalls = 2
SPECIFICATION Spec
INVARIANT EncodedWithinMax
