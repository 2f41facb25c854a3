\* A compressed array whose last block is a full one.
SPECIFICATION Spec
CONSTANTS
  Arrays <- FullArrays
  BlockEnds <- FullBlockEnds
  HeaderLens = {1, 2}
  FooterLens = {1, 3}
  StraySizes = {0, 6}
  BlockSize = 8
  TwoTo31 = 64
  TwoTo64 = 256
INVARIANTS RowsMatchArray
CHECK_DEADLOCK FALSE
