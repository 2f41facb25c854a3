\* An array without values.
SPECIFICATION Spec
CONSTANTS
  Arrays <- EmptyArrays
  BlockEnds <- EmptyBlockEnds
  HeaderLens = {1, 2}
  FooterLens = {1, 3}
  StraySizes = {0, 6}
  BlockSize = 8
  TwoTo31 = 64
  TwoTo64 = 256
INVARIANTS NoPagePastArray
CHECK_DEADLOCK FALSE
