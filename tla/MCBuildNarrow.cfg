\* Arrays of one-byte values.
SPECIFICATION Spec
CONSTANTS
  Arrays <- NarrowArrays
  BlockEnds <- NarrowBlockEnds
  HeaderLens = {1, 2}
  FooterLens = {1, 3}
  StraySizes = {0, 6}
  BlockSize = 8
  TwoTo31 = 64
  TwoTo64 = 256
INVARIANTS PlainPages
CHECK_DEADLOCK FALSE
