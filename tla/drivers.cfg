SPECIFICATION MCSpec
CONSTANTS
  None = None
  Tiers <- MCTiers
  Stride = 2
  SendHwm = 2
  Logs <- MCLogs
  Windows <- MCWindows
  Guard = 1
  PoseBuffer = 2
  ScanRingArg = 2
  MaxPendingArg = 2
  Times <- MCTimes
  MaxScans = 3
  MaxImages = 3
  MaxThrows = 1
  NoScan = NoScan
  SorK = 2
  Ids = {7, 9}
  Listable <- MCListable
  Points = {1, 2, 3, 4, 5}
  Places <- MCPlaces
  Frames <- MCFrames
  Inputs <- MCInputs
  Texts = {"", "t"}
  SigSamples = 2
  MaxCalls = 3
INVARIANTS OneFrameOnScreen StrideIsKept ReplayDelivers StoreMirrorsObjects
CHECK_DEADLOCK FALSE
