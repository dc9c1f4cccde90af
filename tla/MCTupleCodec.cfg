\* Two calls over a buffer whose first bytes are anything, at an even or an odd address.
CONSTANTS
  Byte <- MCByte
  Codes <- MCCodes
  Taken <- MCTaken
  SelfDelimiting <- MCSelfDelimiting
  BufferOffset <- MCBufferOffset
  BaseAlign = 2
  WordMax <- MCWordMax
  InitialMems <- MCInitialMems
  Slices <- MCSlices
  Tuples <- MCTuples
  Readers <- MCReaders
  MaxCalls = 2
SPECIFICATION Spec
INVARIANTS
  TupleTypeOK
  EncodeFillsItsBuffer
  FailedTupleIsPrefix
  ReadConsumesAll
  TupleReadsBack
