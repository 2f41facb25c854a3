\* Files of each mesh type, exceptions at every step and two handles.
SPECIFICATION FairSpec
CONSTANTS
  Meshes <- AllMeshes
  Arrays <- AllFiles
  Handles = {h1, h2}
  NoObject = NoObject
INVARIANTS TypeOK OneOwner AllOrNothing ReadsReachLiveObjects
PROPERTIES MountEnds
CHECK_DEADLOCK FALSE
