\* The sizes of the code; three calls over one buffer.
CONSTANTS
  Radix = 256
  CopyMax = 8
  PubkeySize = 32
  BaseAlign = 8
  Decls <- MCDecls
  MemLen <- MCMemLen
  InitialMems <- MCInitialMems
  Slices <- MCSlices
  Structs <- MCStructs
  MaxCalls = 3
SPECIFICATION FairSpec
INVARIANTS
  EncodingCoversSlots
  FailedEncodeWritesPrefix
PROPERTY ImplementsContract
