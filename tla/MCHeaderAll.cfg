\* Headers of every kind, with failing and short reads and a file that shrinks.
SPECIFICATION Spec
CONSTANTS
  Arrays <- AllArrays
  Stray = {3, 9}
  TwoTo32 = 16
  TwoTo64 = 256
INVARIANTS TypeOK ArrayAsWritten NothingLeaked
PROPERTIES ParseEnds
CHECK_DEADLOCK FALSE
