\* Both modes, empty files, and buffers of no byte to more than the file.
SPECIFICATION FairSpec
CONSTANTS
  FileSizes = {0, 1, 5, 6, 12}
  Buffers = {0, 1, 2, 3, 6, 7, 13}
  MaxRW = 8
  NoReport = NoReport
INVARIANTS TypeOK CountsWholeFile HoldsNothing
PROPERTIES BenchEnds
CHECK_DEADLOCK FALSE
