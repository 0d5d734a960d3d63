SPECIFICATION BackendSpec
CONSTANTS
  Voxels = {"front", "back", "side"}
  Classes = {1, 2, 3}
  ThingList = {1, 2}
  StuffList = {3}
  Instances = {7}
  None = None
  VoteCap = 2
  StuffBias = 2
  MinVotes = 1
  MinConf = 0
  Pixels = {"left", "right"}
  Off = Off
  Cameras <- MCCameras
  Frames2D <- MCFrames2D
  Dynamic = {1}
  Crop = TRUE
  Tau = 1
  Band = 0
  Empty = 9
  MaxFrames = 3
INVARIANTS
  EvidenceIsExact
  ActiveIsLive
  TombstonesHideNothing
  KernelsAgree
PROPERTY IndicesNeverShift
CHECK_DEADLOCK FALSE
