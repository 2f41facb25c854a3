\* Two threads read two files while the VTK file shrinks.
SPECIFICATION FairSpec
CONSTANTS
  Readers = {r1, r2}
  NoRequest = NoRequest
  Maps <- FewMaps
  PayloadLen <- AllPayloadLens
  Offsets <- FewOffsets
  Sizes <- FewSizes
  FileLen <- WholeFile
  Truncations <- Cuts
INVARIANTS ReadsExactSlice
PROPERTIES KeepsPromise DecodedReadsReturn
