\* The sizes of the code; three calls: encode, then decode, then a getter, or any
\* other three in a row over the same buffer.
CONSTANTS
  Radix = 256
  CopyMax = 8
  PubkeySize = 32
  BaseAlign = 8
  MaxImplicit = 128
  MaxCount = 2
  Decls <- MCDecls
  MemLen <- MCMemLen
  InitialMems <- MCInitialMems
  Slices <- MCSlices
  Structs <- MCStructs
  MaxCalls = 3
SPECIFICATION FairSpec
INVARIANTS
  WritesAsCounted
  EncodeAtomic
  TruncationRejected
  EncodedAligned
PROPERTY ImplementsContract
