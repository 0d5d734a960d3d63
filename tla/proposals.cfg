SPECIFICATION Spec
CONSTANTS
  MinPts = 2
  MinClusterSize = 2
  Scale = 840
  Things = {1, 2}
  Other = 0
  Groups <- MCGroups
  MaxSegments = 2
  MinSegment = 3
  ThingFrac = 20
  PoolK = 1
  Views <- MCViews
  Modes <- MCModes
  MinInput = 2
  ClassGap = 100000
  SplitRadius = 2
  MeanK = 3
  MaxOutliers = 1
  CellSize = 4
  MaturityMin = 2
INVARIANTS
  OwnersTell
  FlatClustersAreBest
  ProposalsKeepTheirClass
  GrowthIsOrderFree
CHECK_DEADLOCK FALSE
