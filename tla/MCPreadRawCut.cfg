\* Raw arrays of a VTK file that shrinks: a read need not return.
SPECIFICATION FairSpec
CONSTANTS
  Readers = {r1}
  NoRequest = NoRequest
  Maps <- RawMaps
  PayloadLen <- AllPayloadLens
  Offsets <- AllOffsets
  Sizes <- AllSizes
  FileLen <- WholeFile
  Truncations <- Cuts
PROPERTIES ReadsReturn
