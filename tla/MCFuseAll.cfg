\* Mounting, every path, and two handles.
SPECIFICATION Spec
CONSTANTS
  Tokens <- AllTokens
  VtkFiles <- AllVtkFiles
  Paths <- AllPaths
  Handles = {h1}
  NoFile = NoFile
  NoTree = NoTree
  NoReply = NoReply
  Offsets = {0, 1, 3, 5}
  Sizes = {0, 2, 9}
INVARIANTS TypeOK
PROPERTIES ServesFs
CHECK_DEADLOCK FALSE
