SPECIFICATION FairSpec
CONSTANTS
  PoseBuffer = 1
  ScanRingArg = 2
  MaxPendingArg = 2
  Times <- MCTimes
  MaxScans = 3
  MaxImages = 3
  MaxThrows = 1
  NoScan = NoScan
INVARIANTS
  TypeOK
  Accounting
  TightBracket
  OnTimeNeverTooOld
  OnTimeGetsNearestScan
PROPERTIES
  DeliverySpec
  PlaceableImageLeaves
