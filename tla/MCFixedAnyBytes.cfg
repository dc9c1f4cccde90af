\* Two calls over a buffer with any contents.
CONSTANTS
  Radix = 3
  CopyMax = 1
  PubkeySize = 2
  BaseAlign = 2
  Decls <- MCDecls
  MemLen <- MCMemLen
  InitialMems <- MCInitialMems
  Slices <- MCSlices
  Structs <- MCStructs
  MaxCalls = 2
SPECIFICATION Spec
INVARIANTS
  FixedCodecTypeOK
  PanicsOnlyAtTail
  ReadsStayInSlot
