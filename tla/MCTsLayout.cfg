\* Three calls; PublicKeys of three bytes.
CONSTANTS
  Radix = 2
  CopyMax = 8
  PubkeySize = 3
  DefLists <- MCDefLists
  Buffers <- MCBuffers
  Objects <- MCObjects
  Numerals <- MCNumerals
  MaxCalls = 3
SPECIFICATION Spec
INVARIANTS
  TsTypeOK
  LoopsAgree
  EncodedReadsBack
  DecodedWritesBack
