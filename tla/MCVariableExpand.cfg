\* Expansion alone.  Radix 4 gives a Vec with a one-byte header a capacity of 3,
\* below the period of its residues modulo 8, and one with two bytes 15.
CONSTANTS
  Radix = 4
  CopyMax = 8
  PubkeySize = 32
  BaseAlign = 8
  MaxImplicit = 2
  MaxCount = 7
  Decls <- MCDecls
SPECIFICATION ExpandSpec
INVARIANTS
  ExpandTypeOK
  AlignmentGuaranteed
  AlignmentRejectionJustified
  LengthsExact
  FixedOffsetsExact
  ImplicitLengthsIdentify
  SumsRejectionJustified
