\* An absent trailing field encoded into a buffer that was used before.
CONSTANTS
  Radix = 256
  CopyMax = 8
  PubkeySize = 32
  BaseAlign = 8
  Decls <- MCTailDecls
  MemLen <- MCMemLen
  InitialMems <- MCInitialMems
  Slices <- MCSlices
  Structs <- MCStructs
  MaxCalls = 3
SPECIFICATION Spec
INVARIANT AbsentTailReadsAbsent
