\* One thread, every request on every map, an intact file.
SPECIFICATION FairSpec
CONSTANTS
  Readers = {r1}
  NoRequest = NoRequest
  Maps <- AllMaps
  PayloadLen <- AllPayloadLens
  Offsets <- AllOffsets
  Sizes <- AllSizes
  FileLen <- WholeFile
  Truncations <- NoCuts
INVARIANTS TypeOK ReadsExactSlice
PROPERTIES ReadsReturn
