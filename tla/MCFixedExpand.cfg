\* Expansion alone.  Radix 4 makes 3 the capacity of a one-byte header and 15 the
\* greatest capacity.
CONSTANTS
  Radix = 4
  CopyMax = 8
  PubkeySize = 32
  BaseAlign = 8
  Decls <- MCDecls
SPECIFICATION ExpandSpec
INVARIANTS
  FixedTypeOK
  BorrowsAligned
  AlignmentRejectionJustified
  PaddingSuffices
  OffsetsAgree
  LengthBoundsReached
