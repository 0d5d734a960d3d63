SPECIFICATION Spec
CONSTANTS
  Points = {a, b, c, d}
  Classes = {"chair", "lamp"}
  Proposals <- MCPairs
  Weights <- MCWeights
  MergeThresh <- MCSteepThresh
  MinMerges = 2
  MinEvidence = 1
  SmallMin = 3
  Decay = 50
  MaxProposals = 2
  MaxFrames = 3
  MaxJoined = 4
  MaxChurn = 0
SYMMETRY Symmetric
INVARIANTS
  OwnersMatch
  SupportIsObservations
  ListIsExact
  EvidenceIsKept
  SmallAreIsolated
CHECK_DEADLOCK FALSE
