\* Arrays of every kind that is not empty.
SPECIFICATION Spec
CONSTANTS
  Arrays <- AllArrays
  BlockEnds <- AllBlockEnds
  HeaderLens = {1, 2}
  FooterLens = {1, 3}
  StraySizes = {0, 6}
  BlockSize = 8
  TwoTo31 = 64
  TwoTo64 = 256
INVARIANTS TypeOK MapServable NoPagePastArray ReaderFindsPages RowsMatchArray WidePlainPages
PROPERTIES WritesParquet
CHECK_DEADLOCK FALSE
