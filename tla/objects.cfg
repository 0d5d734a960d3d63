SPECIFICATION Spec
CONSTANTS
  Points = {a, b, c}
  Classes = {"chair", "lamp"}
  Proposals <- MCProposals
  Weights <- MCWeights
  MergeThresh <- MCThresh
  MinMerges = 1
  MinEvidence = 1
  SmallMin = 3
  Decay = 50
  MaxProposals = 2
  MaxFrames = 2
  MaxJoined = 3
  MaxChurn = 1
INVARIANTS
  ComponentsArePure
PROPERTIES
  RebuiltIsPartition
  CallsReturn
CHECK_DEADLOCK FALSE
